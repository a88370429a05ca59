----------------------- MODULE VirtioCryptoPortProofs -----------------------
(***************************************************************************)
(* Proofs about VirtioCryptoPort: the out queue and its flag, the types,   *)
(* and the tasks that sleep, for every number of tasks, cells and buffers, *)
(* every size of the queues and every setting.                             *)
(***************************************************************************)
EXTENDS VirtioCryptoPort, TLAPS

----------------------------------------------------------------------------
(* The inductive invariant.                                                *)

\* The types of what the other parts are about.
TypeInv ==
    /\ setting \in Settings
    /\ pc \in [Tasks -> TaskPCs] /\ cell \in [Tasks -> Cells \cup {NoCell}]
    /\ oavail \in Seq(Cells) /\ oused \in Seq(Cells) /\ elem \in Cells \cup {NoCell}
    /\ olock \in Tasks \cup {NoTask} /\ heap \subseteq Cells
    /\ outvq_full \in BOOLEAN /\ portdev \in BOOLEAN /\ guest_connected \in BOOLEAN
    /\ ctl \in Seq({"open", "close", "remove"})

\* A task is inside an ioctl of an open file; from the allocation on it has a cell.
TaskInv ==
    \A t \in Tasks :
        /\ pc[t] # "idle" => file = "open" /\ t \in setting.users
        /\ cell[t] = NoCell => pc[t] \in {"idle", "write", "writeSleep", "ready"}

\* Who spins has the lock, and only on a file that blocks.
SpinInv ==
    /\ \A t \in Tasks : pc[t] = "spin" <=> olock = t
    /\ olock # NoTask => ~setting.nonblock

\* The flag is set exactly when the queue is full.
Total == InFlight + Len(oused)
FullInv == /\ Total <= OutSize
           /\ outvq_full <=> Total = OutSize

\* A single task that may write finds room.
ReadyInv ==
    \A t \in Tasks :
        setting.users = {t} /\ pc[t] \in {"ready", "send"} =>
            ~outvq_full \/ (pc[t] = "ready" /\ ~guest_connected)

\* The out queue is empty, or it has one request.
NoneQueued == oavail = <<>> /\ elem = NoCell /\ oused = <<>>
OneQueued(c) ==
    \/ oavail = <<c>> /\ elem = NoCell /\ oused = <<>>
    \/ oavail = <<>> /\ elem = c /\ oused = <<>>
    \/ oavail = <<>> /\ elem = NoCell /\ oused = <<c>>

\* On a file that blocks the only request on the queue is that of the task that
\* spins.  A cell in the hands of a task is allocated and its own, unless it was
\* taken from a task that spins by unplug_port, which has no lock.
BlockInv ==
    ~setting.nonblock =>
        /\ NoneQueued \/ (olock # NoTask /\ cell[olock] \in heap /\ OneQueued(cell[olock]))
        /\ \A t \in Tasks : cell[t] \in heap \cup {NoCell} \/ (t = olock /\ NoneQueued)
        /\ \A t, u \in Tasks : t # u /\ cell[t] = cell[u] /\ cell[t] # NoCell =>
                                   olock \in {t, u} /\ NoneQueued

\* QEMU has /dev/crypto open for an open file of a port it has, and a guest that
\* forgot the port was told to.
HostInv ==
    /\ hpc # "idle" => hport
    /\ hpc \in {"exec", "push"} <=> elem # NoCell
    /\ hport /\ file = "open" => cfd
    /\ hport => portdev /\ cpc \in {"idle", "reclaim"} /\ "remove" \notin Range(ctl)

IInv == TypeInv /\ TaskInv /\ SpinInv /\ FullInv /\ ReadyInv /\ BlockInv /\ HostInv
----------------------------------------------------------------------------
(* Lemmas.                                                                 *)

\* What a wake-up does to the tasks.
Awake ==
    /\ pc' \in [Tasks -> TaskPCs]
    /\ \A t \in Tasks : pc'[t] = pc[t] \/ (pc[t] = "writeSleep" /\ pc'[t] = "write")
                                       \/ (pc[t] = "readSleep" /\ pc'[t] = "readWait")

\* wake_up_interruptible moves the sleepers only.
LEMMA WakeFacts ==
  ASSUME pc \in [Tasks -> TaskPCs], Wake \/ UNCHANGED pc
  PROVE  Awake
  BY Zenon DEF Wake, Awake, TaskPCs

\* The order in which a queue's two growths are added does not matter.
LEMMA SumFacts ==
  ASSUME NEW a \in Nat, NEW b \in Nat, NEW c \in Nat
  PROVE  (a + b) + c = (a + c) + b
  OBVIOUS

\* A sequence is empty when it has no elements.
LEMMA RangeFacts ==
  ASSUME NEW S, NEW q \in Seq(S)
  PROVE  /\ Len(q) \in Nat /\ Range(q) \subseteq S
         /\ q = <<>> <=> Len(q) = 0
         /\ q = <<>> <=> Range(q) = {}
<1>1. Len(q) \in Nat /\ DOMAIN q = 1 .. Len(q) /\ Range(q) \subseteq S
  BY DEF Range
<1>2. q = <<>> <=> Len(q) = 0
  OBVIOUS
<1>3. CASE Len(q) = 0
  BY <1>1, <1>2, <1>3 DEF Range
<1>4. CASE Len(q) > 0
  <2>1. q[1] \in Range(q)
    BY <1>1, <1>4 DEF Range
  <2>2. QED BY <1>1, <1>2, <1>4, <2>1
<1>5. QED BY <1>1, <1>3, <1>4

\* The first element, and the others.
LEMMA TailFacts ==
  ASSUME NEW S, NEW q \in Seq(S), q # <<>>
  PROVE  /\ Head(q) \in S /\ Tail(q) \in Seq(S) /\ Len(Tail(q)) = Len(q) - 1
         /\ Head(q) \in Range(q) /\ Range(Tail(q)) \subseteq Range(q)
<1>1. Len(q) \in Nat \ {0} /\ DOMAIN q = 1 .. Len(q)
  OBVIOUS
<1>2. /\ Head(q) \in S /\ Tail(q) \in Seq(S) /\ Len(Tail(q)) = Len(q) - 1
  OBVIOUS
<1>3. Head(q) \in Range(q)
  <2>1. Head(q) = q[1]
    OBVIOUS
  <2>2. QED BY <1>1, <2>1 DEF Range
<1>4. Range(Tail(q)) \subseteq Range(q)
  <2>1. \A k \in 1 .. Len(q) - 1 : Tail(q)[k] = q[k + 1]
    OBVIOUS
  <2>2. DOMAIN Tail(q) = 1 .. Len(q) - 1
    BY <1>1, <1>2
  <2>3. \A k \in 1 .. Len(q) - 1 : k + 1 \in DOMAIN q
    BY <1>1
  <2>4. QED BY <2>1, <2>2, <2>3, Zenon DEF Range
<1>5. QED BY <1>2, <1>3, <1>4, Zenon

\* A message at the end.
LEMMA AppendFacts ==
  ASSUME NEW S, NEW q \in Seq(S), NEW e \in S
  PROVE  /\ Append(q, e) \in Seq(S) /\ Len(Append(q, e)) = Len(q) + 1
         /\ Range(Append(q, e)) = Range(q) \cup {e}
<1>1. /\ Append(q, e) \in Seq(S) /\ Len(Append(q, e)) = Len(q) + 1
      /\ Len(q) \in Nat /\ DOMAIN q = 1 .. Len(q) /\ DOMAIN Append(q, e) = 1 .. Len(q) + 1
  OBVIOUS
<1>2. \A k \in 1 .. Len(q) : Append(q, e)[k] = q[k] /\ k \in 1 .. Len(q) + 1
  OBVIOUS
<1>3. Append(q, e)[Len(q) + 1] = e /\ Len(q) + 1 \in 1 .. Len(q) + 1
  BY <1>1
<1>4. \A k \in 1 .. Len(q) + 1 : k \in 1 .. Len(q) \/ k = Len(q) + 1
  BY <1>1
<1>5. Range(Append(q, e)) = Range(q) \cup {e}
  BY <1>1, <1>2, <1>3, <1>4, Zenon DEF Range
<1>6. QED BY <1>1, <1>5, Zenon

\* A sequence of one element.
LEMMA SingleFacts ==
  ASSUME NEW e
  PROVE  Range(<<e>>) = {e} /\ <<e>> # <<>> /\ Len(<<e>>) = 1
  BY DEF Range

----------------------------------------------------------------------------
(* What the driver and QEMU do to the out queue.                           *)

\* reclaim_consumed_buffers changes nothing, or it frees all that was used.
LEMMA ReclaimFacts ==
  ASSUME IInv, reclaim_consumed_buffers
  PROVE  /\ oavail' = oavail
         /\ \/ UNCHANGED <<oused, heap, outvq_full>>
            \/ /\ oused # <<>> /\ Len(oused) > 0 /\ oused' = <<>>
               /\ heap' = heap \ Range(oused) /\ outvq_full' = FALSE
<1> USE DEF reclaim_consumed_buffers, Reclaimed, IInv
<1>1. oused \in Seq(Cells) /\ outvq_full \in BOOLEAN /\ portdev \in BOOLEAN
  BY Zenon DEF TypeInv
<1>2. CASE ~portdev
  BY <1>1, <1>2, Zenon
<1>3. CASE portdev /\ oused = <<>>
  <2>1. Range(oused) = {}
    BY <1>1, <1>3, RangeFacts, Zenon
  <2>2. QED BY <1>1, <1>3, <2>1, Zenon
<1>4. CASE portdev /\ oused # <<>>
  <2>1. Range(oused) # {} /\ Len(oused) > 0
    BY <1>1, <1>4, RangeFacts
  <2>2. QED BY <1>1, <1>4, <2>1, Zenon
<1>5. QED BY <1>1, <1>2, <1>3, <1>4, Zenon

\* It keeps the types,
LEMMA ReclaimType ==
  ASSUME IInv, reclaim_consumed_buffers
  PROVE  /\ oavail' \in Seq(Cells) /\ oused' \in Seq(Cells) /\ heap' \subseteq Cells
         /\ outvq_full' \in BOOLEAN /\ (outvq_full' => outvq_full)
<1>1. oavail \in Seq(Cells) /\ oused \in Seq(Cells) /\ heap \subseteq Cells /\ outvq_full \in BOOLEAN
  BY Zenon DEF IInv, TypeInv
<1>2. CASE UNCHANGED <<oused, heap, outvq_full>>
  BY <1>1, <1>2, ReclaimFacts, Zenon
<1>3. CASE oused' = <<>> /\ heap' = heap \ Range(oused) /\ outvq_full' = FALSE
  <2>1. oavail' = oavail
    BY ReclaimFacts, Zenon
  <2>2. oused' \in Seq(Cells)
    BY <1>3
  <2>3. QED BY <1>1, <1>3, <2>1, <2>2, Zenon
<1>4. QED BY <1>2, <1>3, ReclaimFacts, Zenon

\* the flag exact,
LEMMA ReclaimFull ==
  ASSUME IInv, reclaim_consumed_buffers, UNCHANGED elem
  PROVE  FullInv'
<1>1. /\ Len(oavail) \in Nat /\ Len(oused) \in Nat /\ Len(<<>>) = 0
      /\ OutSize \in Nat
  BY SizesPositive DEF IInv, TypeInv
<1>2. CASE UNCHANGED <<oused, heap, outvq_full>>
  BY <1>2, ReclaimFacts, Zenon DEF IInv, FullInv, Total, InFlight
<1>3. CASE Len(oused) > 0 /\ oused' = <<>> /\ outvq_full' = FALSE
  <2>1. oavail' = oavail
    BY ReclaimFacts, Zenon
  <2>2. InFlight' = InFlight /\ InFlight \in Nat
    BY <1>1, <2>1 DEF InFlight
  <2>3. Total' < Total
    BY <1>1, <1>3, <2>2 DEF Total
  <2>4. Total \in Nat /\ Total' \in Nat
    BY <1>1, <1>3, <2>2 DEF Total
  <2>5. QED BY <1>1, <1>3, <2>3, <2>4 DEF IInv, FullInv
<1>4. QED BY <1>2, <1>3, ReclaimFacts, Zenon

\* and on a file that blocks it frees nobody's cell but that of a task that spins.
LEMMA ReclaimBlock ==
  ASSUME IInv, reclaim_consumed_buffers, UNCHANGED <<setting, elem, olock, cell>>
  PROVE  BlockInv'
<1>1. CASE UNCHANGED <<oused, heap, outvq_full>>
  BY <1>1, ReclaimFacts, Zenon DEF IInv, BlockInv, NoneQueued, OneQueued
<1>2. CASE oused # <<>> /\ oused' = <<>> /\ heap' = heap \ Range(oused)
  <2> SUFFICES ASSUME ~setting.nonblock PROVE BlockInv'
    BY Zenon DEF BlockInv
  <2>1. ~NoneQueued /\ olock # NoTask /\ cell[olock] \in heap /\ OneQueued(cell[olock])
    BY <1>2, Zenon DEF IInv, BlockInv, NoneQueued
  <2>2. oavail = <<>> /\ elem = NoCell /\ oused = <<cell[olock]>>
    BY <1>2, <2>1, Zenon DEF OneQueued
  <2>3. NoneQueued' /\ heap' = heap \ {cell[olock]}
    BY <1>2, <2>2, SingleFacts, ReclaimFacts, Zenon DEF NoneQueued
  <2>4. olock \in Tasks /\ cell[olock] # NoCell
    BY <2>1, NoneFresh, Zenon DEF IInv, TypeInv
  <2>5. \A t, u \in Tasks : t # u /\ cell[t] = cell[u] => cell[t] = NoCell
    BY <2>1, Zenon DEF IInv, BlockInv
  <2>6. \A t \in Tasks : t # olock => cell[t] \in heap' \cup {NoCell}
    BY <2>1, <2>3, <2>4, <2>5, Zenon DEF IInv, BlockInv
  <2>7. QED BY <2>3, <2>5, <2>6, Zenon DEF BlockInv
<1>3. QED BY <1>1, <1>2, ReclaimFacts, Zenon

\* discard_vq_data gives back what is on the queue, and no more.
LEMMA DiscardFull ==
  ASSUME IInv, discard_vq_data, UNCHANGED elem
  PROVE  FullInv' /\ oavail' \in Seq(Cells) /\ oused' \in Seq(Cells)
<1>1. oavail \in Seq(Cells) /\ oused \in Seq(Cells)
  BY Zenon DEF IInv, TypeInv
<1>2. /\ oused' = oused \o oavail /\ oavail' = <<>> /\ outvq_full' = outvq_full
  BY Zenon DEF discard_vq_data
<1>3. /\ oused' \in Seq(Cells) /\ oavail' \in Seq(Cells)
      /\ Len(oused') = Len(oused) + Len(oavail) /\ Len(oavail') = 0
      /\ Len(oused) \in Nat /\ Len(oavail) \in Nat
  BY <1>1, <1>2
<1>4. Total' = Total
  BY <1>3 DEF Total, InFlight
<1>5. QED BY <1>2, <1>3, <1>4, Zenon DEF IInv, FullInv

\* The one request of a file that blocks stays the one.
LEMMA DiscardBlock ==
  ASSUME IInv, discard_vq_data, UNCHANGED <<setting, elem, olock, cell, heap>>
  PROVE  BlockInv'
<1>1. /\ oused' = oused \o oavail /\ oavail' = <<>>
  BY Zenon DEF discard_vq_data
<1>2. NoneQueued => NoneQueued'
  BY <1>1 DEF NoneQueued
<1>3. ASSUME NEW c \in Cells, OneQueued(c) PROVE OneQueued(c)'
  <2>1. CASE oavail = <<c>> /\ elem = NoCell /\ oused = <<>>
    BY <1>1, <2>1 DEF OneQueued
  <2>2. CASE oavail = <<>> /\ elem = c /\ oused = <<>>
    BY <1>1, <2>2 DEF OneQueued
  <2>3. CASE oavail = <<>> /\ elem = NoCell /\ oused = <<c>>
    BY <1>1, <2>3 DEF OneQueued
  <2>4. QED BY <1>3, <2>1, <2>2, <2>3, Zenon DEF OneQueued
<1>4. heap \subseteq Cells
  BY Zenon DEF IInv, TypeInv
<1>5. QED BY <1>2, <1>3, <1>4, Zenon DEF IInv, BlockInv

\* A control message is taken from the queue, or put on it.
LEMMA ControlFacts ==
  ASSUME IInv, ctl # <<>>, ctl' = Tail(ctl)
  PROVE  /\ ctl' \in Seq({"open", "close", "remove"})
         /\ Range(ctl') \subseteq Range(ctl) /\ Head(ctl) \in Range(ctl)
  BY TailFacts, Zenon DEF IInv, TypeInv

\* A message that is sent is the only one added.
LEMMA SendControlFacts ==
  ASSUME IInv, NEW m \in {"open", "close", "remove"}, SendControl(m)
  PROVE  /\ ctl' \in Seq({"open", "close", "remove"})
         /\ Range(ctl') \subseteq Range(ctl) \cup {m}
  BY AppendFacts, Zenon DEF IInv, TypeInv, SendControl

----------------------------------------------------------------------------
(* The steps.                                                              *)

\* A task enters crypto_chrdev_ioctl on an open file.
LEMMA IoctlStartKeeps ==
  ASSUME IInv, NEW t \in setting.users, IoctlStart(t)
  PROVE  IInv'
<1> USE DEF IInv, IoctlStart, Goto, ovq, guest, ivq, host
<1>t. t \in Tasks /\ setting \in Settings /\ setting.users \subseteq Tasks
  BY SettingsKnown, Zenon DEF TypeInv
<1>1. TypeInv' /\ TaskInv' /\ SpinInv' /\ ReadyInv'
  BY <1>t, NoneFresh, SettingsKnown DEF ReadyInv, TypeInv, TaskInv, SpinInv, TaskPCs
<1>2. FullInv' /\ BlockInv' /\ HostInv'
  BY Zenon DEF HostInv, FullInv, Total, InFlight, BlockInv, NoneQueued, OneQueued
<1>3. QED BY <1>1, <1>2, Zenon

\* It passes wait_port_writable: the port is gone, or there is room.
LEMMA WriteReadyKeeps ==
  ASSUME IInv, NEW t \in setting.users, WriteReady(t)
  PROVE  IInv'
<1> USE DEF IInv, WriteReady, Goto, ovq, guest, ivq, task, host
<1>t. t \in Tasks /\ setting \in Settings /\ setting.users \subseteq Tasks
  BY SettingsKnown, Zenon DEF TypeInv
<1>r. FullInv' /\ BlockInv' /\ (outvq_full' => outvq_full)
      /\ oavail' \in Seq(Cells) /\ oused' \in Seq(Cells) /\ heap' \subseteq Cells
      /\ outvq_full' \in BOOLEAN
  <2>1. CASE UNCHANGED <<heap, ovq>>
    BY <2>1, Zenon DEF FullInv, BlockInv, TypeInv, Total, InFlight, NoneQueued, OneQueued
  <2>2. CASE reclaim_consumed_buffers
    BY <2>2, ReclaimType, ReclaimFull, ReclaimBlock, Zenon
  <2>3. QED BY <2>1, <2>2, Zenon
<1>1. TypeInv' /\ TaskInv' /\ SpinInv' /\ FullInv' /\ ReadyInv' /\ BlockInv'
  BY <1>r, <1>t, NoneFresh, SettingsKnown DEF ReadyInv, TypeInv, TaskInv, SpinInv, TaskPCs
<1>2. HostInv'
  BY Zenon DEF HostInv
<1>3. QED BY <1>1, <1>2, Zenon

\* It sleeps, or returns -EAGAIN.
LEMMA WriteBlockedKeeps ==
  ASSUME IInv, NEW t \in setting.users, WriteBlocked(t)
  PROVE  IInv'
<1> USE DEF IInv, WriteBlocked, Goto, ovq, guest, ivq, task, host
<1>t. t \in Tasks /\ setting \in Settings /\ setting.users \subseteq Tasks
  BY SettingsKnown, Zenon DEF TypeInv
<1>r. FullInv' /\ BlockInv' /\ (outvq_full' => outvq_full)
      /\ oavail' \in Seq(Cells) /\ oused' \in Seq(Cells) /\ heap' \subseteq Cells
      /\ outvq_full' \in BOOLEAN
  <2>1. CASE UNCHANGED <<heap, ovq>>
    BY <2>1, Zenon DEF FullInv, BlockInv, TypeInv, Total, InFlight, NoneQueued, OneQueued
  <2>2. CASE reclaim_consumed_buffers
    BY <2>2, ReclaimType, ReclaimFull, ReclaimBlock, Zenon
  <2>3. QED BY <2>1, <2>2, Zenon
<1>1. TypeInv' /\ TaskInv' /\ SpinInv' /\ FullInv' /\ ReadyInv' /\ BlockInv'
  BY <1>r, <1>t, NoneFresh, SettingsKnown DEF ReadyInv, TypeInv, TaskInv, SpinInv, TaskPCs
<1>2. HostInv'
  BY Zenon DEF HostInv
<1>3. QED BY <1>1, <1>2, Zenon

\* It returns before it allocates anything.
LEMMA IoctlRefusedKeeps ==
  ASSUME IInv, NEW t \in setting.users, IoctlRefused(t)
  PROVE  IInv'
<1> USE DEF IInv, IoctlRefused, Goto, ovq, guest, ivq, task, host
<1>t. t \in Tasks /\ setting \in Settings /\ setting.users \subseteq Tasks
  BY SettingsKnown, Zenon DEF TypeInv
<1>1. TypeInv' /\ TaskInv' /\ SpinInv' /\ ReadyInv'
  BY <1>t, NoneFresh, SettingsKnown, Zenon DEF ReadyInv, TypeInv, TaskInv, SpinInv, TaskPCs
<1>2. FullInv' /\ BlockInv' /\ HostInv'
  BY Zenon DEF HostInv, FullInv, Total, InFlight, BlockInv, NoneQueued, OneQueued
<1>3. QED BY <1>1, <1>2, Zenon

\* A fresh cell is in nobody's hands and on no queue.
LEMMA IoctlBuildKeeps ==
  ASSUME IInv, NEW t \in setting.users, IoctlBuild(t)
  PROVE  IInv'
<1> USE DEF IInv, IoctlBuild, Goto, ovq, guest, ivq, host
<1>t. t \in Tasks /\ setting \in Settings /\ setting.users \subseteq Tasks
  BY SettingsKnown, Zenon DEF TypeInv
<1>1. TypeInv' /\ TaskInv' /\ SpinInv' /\ ReadyInv' /\ BlockInv'
  BY <1>t, NoneFresh, SettingsKnown DEF ReadyInv, TypeInv, TaskInv, SpinInv, BlockInv, NoneQueued,
        OneQueued, TaskPCs
<1>2. FullInv' /\ HostInv'
  BY Zenon DEF HostInv, FullInv, Total, InFlight
<1>3. QED BY <1>1, <1>2, Zenon

\* An unknown command leaks a cell that is in nobody's hands.
LEMMA IoctlUnknownKeeps ==
  ASSUME IInv, NEW t \in setting.users, IoctlUnknown(t)
  PROVE  IInv'
<1> USE DEF IInv, IoctlUnknown, Goto, ovq, guest, ivq, task, host
<1>t. t \in Tasks /\ setting \in Settings /\ setting.users \subseteq Tasks
  BY SettingsKnown, Zenon DEF TypeInv
<1>1. TypeInv' /\ TaskInv' /\ SpinInv' /\ ReadyInv' /\ BlockInv'
  BY <1>t, NoneFresh, SettingsKnown DEF ReadyInv, TypeInv, TaskInv, SpinInv, BlockInv, NoneQueued,
        OneQueued, TaskPCs
<1>2. FullInv' /\ HostInv'
  BY Zenon DEF HostInv, FullInv, Total, InFlight
<1>3. QED BY <1>1, <1>2, Zenon

\* send_buf reclaims, adds the cell and sets the flag if it took the last slot.
LEMMA SendKeeps ==
  ASSUME IInv, NEW t \in setting.users, Send(t)
  PROVE  IInv'
<1> USE DEF IInv, Send, Goto, guest, ivq, task, host
<1>t. t \in Tasks /\ setting \in Settings /\ setting.users \subseteq Tasks
  BY SettingsKnown, Zenon DEF TypeInv
<1>q. /\ cell[t] \in Cells /\ cell[t] # NoCell /\ OutSize \in Nat \ {0, 1}
      /\ oavail \in Seq(Cells) /\ oused \in Seq(Cells) /\ heap \subseteq Cells
      /\ outvq_full \in BOOLEAN /\ portdev \in BOOLEAN /\ setting.nonblock \in BOOLEAN
      /\ Len(oavail) \in Nat /\ Len(oused) \in Nat /\ InFlight \in Nat
  BY <1>t, SizesPositive, SettingsKnown, NoneFresh DEF TypeInv, TaskInv, InFlight
<1> DEFINE room == OutSize - InFlight - Len(oused')
<1>r. /\ oavail' = IF room > 0 THEN Append(oavail, cell[t]) ELSE oavail
      /\ outvq_full' = (room = 1 \/ (outvq_full /\ Reclaimed = {}))
      /\ IF room > 0 /\ ~setting.nonblock
         THEN Goto(t, "spin") /\ olock' = t
         ELSE Goto(t, "read") /\ UNCHANGED olock
      /\ UNCHANGED <<setting, cell, elem>>
  BY Zenon
<1>s. \/ oused' = oused /\ Reclaimed = {} /\ heap' = heap
      \/ oused' = <<>> /\ Len(oused) > 0 /\ Reclaimed # {} /\ Reclaimed = Range(oused)
  <2>1. CASE ~portdev
    BY <2>1, Zenon DEF Reclaimed
  <2>2. CASE portdev
    BY <1>q, <2>2, RangeFacts DEF Reclaimed
  <2>3. QED BY <1>q, <2>1, <2>2, Zenon
<1>u. /\ oused' \in Seq(Cells) /\ Len(oused') \in Nat /\ oavail' \in Seq(Cells)
      /\ heap' \subseteq Cells /\ outvq_full' \in BOOLEAN
      /\ Len(oavail') = Len(oavail) + (IF room > 0 THEN 1 ELSE 0)
  <2>1. oused' \in Seq(Cells) /\ Len(oused') \in Nat
    BY <1>q, <1>s
  <2>2. oavail' \in Seq(Cells) /\ Len(oavail') = Len(oavail) + (IF room > 0 THEN 1 ELSE 0)
    <3>1. CASE room > 0
      BY <1>q, <1>r, <3>1, AppendFacts
    <3>2. CASE ~(room > 0)
      BY <1>q, <1>r, <3>2
    <3>3. QED BY <3>1, <3>2, Zenon
  <2>3. heap' \subseteq Cells /\ outvq_full' \in BOOLEAN
    BY <1>q, <1>r, Zenon
  <2>4. QED BY <2>1, <2>2, <2>3, Zenon
<1>1. TypeInv'
  <2>1. pc' \in [Tasks -> TaskPCs] /\ olock' \in Tasks \cup {NoTask}
    BY <1>t, <1>r, Zenon DEF TypeInv, TaskPCs, Goto
  <2>2. QED BY <1>r, <1>u, <2>1, Zenon DEF TypeInv
<1>2. TaskInv'
  BY <1>t, <1>q, <1>r, NoneFresh, Zenon DEF TaskInv, TypeInv
<1>3. SpinInv'
  <2>1. olock = NoTask /\ t # NoTask /\ \A u \in Tasks : pc[u] # "spin"
    BY <1>t, NoneFresh, Zenon DEF SpinInv
  <2>2. \/ Goto(t, "spin") /\ olock' = t /\ ~setting.nonblock
        \/ Goto(t, "read") /\ olock' = olock
    BY <1>r, Zenon
  <2>3. pc \in [Tasks -> TaskPCs] /\ setting' = setting
    BY <1>r, Zenon DEF TypeInv
  <2>4. \A u \in Tasks : pc'[u] = "spin" <=> olock' = u
    BY <1>t, <2>1, <2>2, <2>3, NoneFresh
  <2>5. olock' # NoTask => ~setting'.nonblock
    BY <2>1, <2>2, <2>3, Zenon
  <2>6. QED BY <2>4, <2>5, Zenon DEF SpinInv
<1>4. FullInv'
  <2>1. Total = InFlight + Len(oused) /\ Total <= OutSize /\ (outvq_full <=> Total = OutSize)
    BY Zenon DEF FullInv, Total
  <2>2. Total' = InFlight + (IF room > 0 THEN 1 ELSE 0) + Len(oused')
    <3>1. elem' = elem /\ Len(oavail') = Len(oavail) + (IF room > 0 THEN 1 ELSE 0)
      BY <1>r, <1>u, Zenon
    <3> HIDE DEF room
    <3>2. InFlight' = InFlight + (IF room > 0 THEN 1 ELSE 0)
      <4> DEFINE e == IF elem = NoCell THEN 0 ELSE 1
                 k == IF room > 0 THEN 1 ELSE 0
      <4>1. InFlight = Len(oavail) + e /\ InFlight' = Len(oavail') + e
        BY <3>1, Zenon DEF InFlight
      <4>2. e \in Nat /\ k \in Nat /\ Len(oavail') = Len(oavail) + k
        BY <3>1, Zenon
      <4> HIDE DEF e, k
      <4>3. (Len(oavail) + k) + e = (Len(oavail) + e) + k
        <5>1. Len(oavail) \in Nat
          BY <1>q, Zenon
        <5>2. QED BY <4>2, <5>1, SumFacts, Zenon
      <4>4. InFlight' = InFlight + k
        BY <4>1, <4>2, <4>3, Zenon
      <4>5. QED BY <4>4, Zenon DEF k
    <3>3. QED BY <3>2, Zenon DEF Total
  <2>3. room \in Int /\ room = OutSize - (InFlight + Len(oused'))
    BY <1>q, <1>u
  <2> HIDE DEF room
  <2>4. CASE oused' = oused /\ Reclaimed = {}
    <3>1. room = OutSize - Total
      BY <2>1, <2>3, <2>4, Zenon
    <3>2. Total' = Total + (IF room > 0 THEN 1 ELSE 0) /\ Total \in Nat
      <4>1. CASE room > 0
        <5>1. Total' = InFlight + 1 + Len(oused)
          BY <2>2, <2>4, <4>1, Zenon
        <5>2. Total \in Nat /\ InFlight + 1 + Len(oused) = Total + 1
          BY <1>q, <2>1
        <5>3. QED BY <4>1, <5>1, <5>2, Zenon
      <4>2. CASE ~(room > 0)
        BY <1>q, <2>1, <2>2, <2>4, <4>2
      <4>3. QED BY <4>1, <4>2, Zenon
    <3>3. outvq_full' <=> (room = 1 \/ outvq_full)
      BY <1>r, <2>4, Zenon DEF room
    <3>4. QED BY <1>q, <1>u, <2>1, <3>1, <3>2, <3>3 DEF FullInv
  <2>5. CASE oused' = <<>> /\ Len(oused) > 0 /\ Reclaimed # {}
    <3>1. Len(oused') = 0
      BY <2>5
    <3>2. room > 0 /\ Total' = InFlight + 1 /\ room = OutSize - InFlight
      BY <1>q, <2>1, <2>2, <2>3, <2>5, <3>1
    <3>3. outvq_full' <=> room = 1
      BY <1>r, <2>5, Zenon DEF room
    <3>4. QED BY <1>q, <1>u, <3>2, <3>3 DEF FullInv
  <2>6. QED BY <1>s, <2>4, <2>5, Zenon
<1>5. ReadyInv'
  BY <1>t, <1>q, <1>r, Zenon DEF ReadyInv, TypeInv, TaskInv
<1>6. BlockInv'
  <2> SUFFICES ASSUME ~setting.nonblock PROVE BlockInv'
    BY <1>r, Zenon DEF BlockInv
  <2>1. olock = NoTask /\ NoneQueued
    BY Zenon DEF BlockInv
  <2>2. InFlight = 0 /\ Len(oused) = 0 /\ oused = <<>> /\ elem = NoCell /\ oavail = <<>>
    BY <2>1 DEF NoneQueued, InFlight
  <2>3. oused' = <<>> /\ heap' = heap /\ room > 0
    BY <1>q, <1>s, <2>2
  <2>4. oavail' = <<cell[t]>> /\ olock' = t /\ OneQueued(cell[t])'
    BY <1>r, <2>2, <2>3 DEF OneQueued
  <2>5. \A u \in Tasks : cell[u] \in heap \cup {NoCell}
    BY <1>t, <2>1, NoneFresh, Zenon DEF BlockInv
  <2>6. \A u, v \in Tasks : u # v /\ cell[u] = cell[v] => cell[u] = NoCell
    BY <2>1, NoneFresh, Zenon DEF BlockInv
  <2>7. t # NoTask
    BY <1>t, NoneFresh, Zenon
  <2>8. QED BY <1>q, <1>r, <1>t, <2>3, <2>4, <2>5, <2>6, <2>7, Zenon DEF BlockInv
<1>7. HostInv'
  BY Zenon DEF HostInv
<1>8. QED BY <1>1, <1>2, <1>3, <1>4, <1>5, <1>6, <1>7, Zenon

\* The spinner takes one used request and releases the lock.
LEMMA SpinKeeps ==
  ASSUME IInv, NEW t \in setting.users, Spin(t)
  PROVE  IInv'
<1> USE DEF IInv, Spin, Goto, guest, ivq, task, host
<1>t. t \in Tasks /\ setting \in Settings /\ setting.users \subseteq Tasks
  BY SettingsKnown, Zenon DEF TypeInv
<1>q. olock = t /\ olock # NoTask /\ ~setting.nonblock
  BY <1>t, NoneFresh, Zenon DEF SpinInv
<1>r. oavail = <<>> /\ elem = NoCell /\ oused = <<cell[t]>> /\ oused' = <<>> /\ cell[t] \in heap
  <2>1. OneQueued(cell[t]) /\ cell[t] \in heap
    BY <1>q, Zenon DEF BlockInv, NoneQueued
  <2>2. oavail = <<>> /\ elem = NoCell /\ oused = <<cell[t]>>
    BY <2>1, Zenon DEF OneQueued
  <2>3. oused' = <<>>
    BY <2>2
  <2>4. QED BY <2>1, <2>2, <2>3, Zenon
<1>1. TypeInv' /\ TaskInv' /\ SpinInv' /\ ReadyInv' /\ BlockInv'
  BY <1>q, <1>r, <1>t, NoneFresh, SettingsKnown DEF ReadyInv, TypeInv, TaskInv, SpinInv, BlockInv,
        NoneQueued, OneQueued, TaskPCs
<1>2. FullInv'
  <2>1. Total = 1 /\ Total' = 0
    BY <1>r, SingleFacts DEF Total, InFlight
  <2>2. QED BY <2>1, SizesPositive DEF FullInv, TypeInv
<1>3. HostInv'
  BY Zenon DEF HostInv
<1>4. QED BY <1>1, <1>2, <1>3, Zenon

\* The task looks for an input buffer.
LEMMA ReadCheckKeeps ==
  ASSUME IInv, NEW t \in setting.users, ReadCheck(t)
  PROVE  IInv'
<1> USE DEF IInv, ReadCheck, Goto, Return, TakeInbuf, ovq, guest, host
<1>t. t \in Tasks /\ setting \in Settings /\ setting.users \subseteq Tasks
  BY SettingsKnown, Zenon DEF TypeInv
<1>1. TypeInv'
  BY <1>t, SettingsKnown, NoneFresh, Zenon DEF TypeInv, TaskInv, TaskPCs
<1>2. TaskInv' /\ SpinInv' /\ ReadyInv'
  BY <1>t, NoneFresh DEF ReadyInv, TypeInv, TaskInv, SpinInv
<1>3. FullInv' /\ HostInv'
  BY Zenon DEF HostInv, FullInv, Total, InFlight
<1>4. BlockInv'
  BY <1>t, NoneFresh, Zenon DEF BlockInv, TypeInv, SpinInv, TaskInv, NoneQueued, OneQueued
<1>5. QED BY <1>1, <1>2, <1>3, <1>4, Zenon

\* It sleeps until one is there, the host closes or the port goes.
LEMMA ReadWaitKeeps ==
  ASSUME IInv, NEW t \in setting.users, ReadWait(t)
  PROVE  IInv'
<1> USE DEF IInv, ReadWait, Goto, TakeInbuf, ovq, guest, ivq, task, host
<1>t. t \in Tasks /\ setting \in Settings /\ setting.users \subseteq Tasks
  BY SettingsKnown, Zenon DEF TypeInv
<1>1. TypeInv' /\ TaskInv' /\ SpinInv' /\ ReadyInv'
  BY <1>t, NoneFresh, SettingsKnown DEF ReadyInv, TypeInv, TaskInv, SpinInv, TaskPCs
<1>2. FullInv' /\ BlockInv' /\ HostInv'
  BY Zenon DEF HostInv, FullInv, Total, InFlight, BlockInv, NoneQueued, OneQueued
<1>3. QED BY <1>1, <1>2, Zenon

\* It goes on to copy, or returns with its cell.
LEMMA ReplyCheckKeeps ==
  ASSUME IInv, NEW t \in setting.users, ReplyCheck(t)
  PROVE  IInv'
<1> USE DEF IInv, ReplyCheck, Goto, Return, TakeInbuf, ovq, guest, ivq, host
<1>t. t \in Tasks /\ setting \in Settings /\ setting.users \subseteq Tasks
  BY SettingsKnown, Zenon DEF TypeInv
<1>1. TypeInv'
  BY <1>t, SettingsKnown, NoneFresh DEF TypeInv, TaskInv, TaskPCs
<1>2. TaskInv'
  BY <1>t, NoneFresh, Zenon DEF TaskInv, TypeInv
<1>3. SpinInv' /\ ReadyInv' /\ BlockInv'
  BY <1>t, NoneFresh DEF ReadyInv, TypeInv, TaskInv, SpinInv, BlockInv, NoneQueued, OneQueued
<1>4. FullInv' /\ HostInv'
  BY Zenon DEF HostInv, FullInv, Total, InFlight
<1>5. QED BY <1>1, <1>2, <1>3, <1>4, Zenon

\* The answer is copied to the task.
LEMMA FillCopyKeeps ==
  ASSUME IInv, NEW t \in setting.users, FillCopy(t)
  PROVE  IInv'
<1> USE DEF IInv, FillCopy, Goto, ovq, guest, host
<1>t. t \in Tasks /\ setting \in Settings /\ setting.users \subseteq Tasks
  BY SettingsKnown, Zenon DEF TypeInv
<1>1. TypeInv' /\ TaskInv' /\ SpinInv' /\ ReadyInv'
  BY <1>t, NoneFresh, SettingsKnown DEF ReadyInv, TypeInv, TaskInv, SpinInv, TaskPCs
<1>2. FullInv' /\ BlockInv' /\ HostInv'
  BY Zenon DEF HostInv, FullInv, Total, InFlight, BlockInv, NoneQueued, OneQueued
<1>3. QED BY <1>1, <1>2, Zenon

\* The buffer goes back to in_vq if there is a slot.
LEMMA FillRequeueKeeps ==
  ASSUME IInv, NEW t \in setting.users, FillRequeue(t)
  PROVE  IInv'
<1> USE DEF IInv, FillRequeue, Goto, ovq, guest, host
<1>t. t \in Tasks /\ setting \in Settings /\ setting.users \subseteq Tasks
  BY SettingsKnown, Zenon DEF TypeInv
<1>1. TypeInv' /\ TaskInv' /\ SpinInv' /\ ReadyInv'
  BY <1>t, NoneFresh, SettingsKnown DEF ReadyInv, TypeInv, TaskInv, SpinInv, TaskPCs
<1>2. FullInv' /\ BlockInv' /\ HostInv'
  BY Zenon DEF HostInv, FullInv, Total, InFlight, BlockInv, NoneQueued, OneQueued
<1>3. QED BY <1>1, <1>2, Zenon

\* The task frees its cell, which is on no queue of a file that blocks.
LEMMA IoctlDoneKeeps ==
  ASSUME IInv, NEW t \in setting.users, IoctlDone(t)
  PROVE  IInv'
<1> USE DEF IInv, IoctlDone, Return, Goto, ovq, guest, ivq, host
<1>t. t \in Tasks /\ setting \in Settings /\ setting.users \subseteq Tasks
  BY SettingsKnown, Zenon DEF TypeInv
<1>1. TypeInv' /\ TaskInv' /\ SpinInv' /\ ReadyInv' /\ BlockInv'
  BY <1>t, NoneFresh, SettingsKnown DEF ReadyInv, TypeInv, TaskInv, SpinInv, BlockInv, NoneQueued,
        OneQueued, TaskPCs
<1>2. FullInv' /\ HostInv'
  BY Zenon DEF HostInv, FullInv, Total, InFlight
<1>3. QED BY <1>1, <1>2, Zenon

\* A sleeper is interrupted.
LEMMA SignalKeeps ==
  ASSUME IInv, NEW t \in setting.users, Signal(t)
  PROVE  IInv'
<1> USE DEF IInv, Signal, Return, Goto, ovq, guest, ivq, host
<1>t. t \in Tasks /\ setting \in Settings /\ setting.users \subseteq Tasks
  BY SettingsKnown, Zenon DEF TypeInv
<1>1. TypeInv' /\ TaskInv' /\ SpinInv' /\ ReadyInv' /\ BlockInv'
  BY <1>t, NoneFresh, SettingsKnown DEF ReadyInv, TypeInv, TaskInv, SpinInv, BlockInv, NoneQueued,
        OneQueued, TaskPCs
<1>2. FullInv' /\ HostInv'
  BY Zenon DEF HostInv, FullInv, Total, InFlight
<1>3. QED BY <1>1, <1>2, Zenon

\* poll looks at the input only.
LEMMA PollReadKeeps ==
  ASSUME IInv, PollRead
  PROVE  IInv'
<1> USE DEF IInv, PollRead, TakeInbuf, ovq, guest, task, host
<1>1. TypeInv' /\ TaskInv' /\ SpinInv' /\ FullInv' /\ ReadyInv' /\ BlockInv'
  BY Zenon DEF TypeInv, TaskInv, SpinInv, ReadyInv, FullInv, Total, InFlight, BlockInv,
       NoneQueued, OneQueued
<1>2. HostInv'
  BY Zenon DEF HostInv
<1>3. QED BY <1>1, <1>2, Zenon

\* poll looks at the output: will_write_block reclaims.
LEMMA PollWriteKeeps ==
  ASSUME IInv, PollWrite
  PROVE  IInv'
<1> USE DEF IInv, PollWrite, guest, ivq, task, host
<1>r. reclaim_consumed_buffers
  BY Zenon
<1>1. TypeInv'
  BY ReclaimType, SettingsKnown, NoneFresh, Zenon DEF TypeInv, TaskInv, TaskPCs
<1>2. TaskInv' /\ SpinInv' /\ HostInv'
  BY Zenon DEF TaskInv, SpinInv, HostInv
<1>3. FullInv'
  BY ReclaimFull, Zenon
<1>4. ReadyInv'
  BY ReclaimType, Zenon DEF ReadyInv, TypeInv, TaskInv
<1>5. BlockInv'
  BY ReclaimBlock, Zenon
<1>6. QED BY <1>1, <1>2, <1>3, <1>4, <1>5, Zenon

\* open finds the port.
LEMMA OpenFindKeeps ==
  ASSUME IInv, OpenFind
  PROVE  IInv'
<1> USE DEF IInv, OpenFind, Listed, ovq, guest, ivq, task, host
<1>1. TypeInv' /\ SpinInv' /\ FullInv' /\ ReadyInv' /\ BlockInv' /\ HostInv'
  BY Zenon DEF TypeInv, SpinInv, ReadyInv, FullInv, Total, InFlight, BlockInv, NoneQueued,
       OneQueued, HostInv, TaskInv
<1>2. TaskInv'
  BY NoneFresh, Zenon DEF TaskInv, TypeInv
<1>3. QED BY <1>1, <1>2, Zenon

\* It marks the guest connected.
LEMMA OpenConnectKeeps ==
  ASSUME IInv, OpenConnect
  PROVE  IInv'
<1> USE DEF IInv, OpenConnect, ovq, ivq, task, host
<1>1. TypeInv' /\ TaskInv'
  BY NoneFresh, SettingsKnown, Zenon DEF TaskInv, TypeInv, TaskPCs
<1>2. SpinInv' /\ FullInv' /\ ReadyInv' /\ BlockInv' /\ HostInv'
  BY Zenon DEF SpinInv, FullInv, Total, InFlight, ReadyInv, TypeInv, TaskInv, BlockInv,
       NoneQueued, OneQueued, HostInv
<1>3. QED BY <1>1, <1>2, Zenon

\* It reclaims what the last file left.
LEMMA OpenReclaimKeeps ==
  ASSUME IInv, OpenReclaim
  PROVE  IInv'
<1> USE DEF IInv, OpenReclaim, guest, ivq, task, host
<1>r. reclaim_consumed_buffers
  BY Zenon
<1>1. TypeInv'
  BY ReclaimType, SettingsKnown, NoneFresh, Zenon DEF TypeInv, TaskInv, TaskPCs
<1>2. TaskInv'
  BY ReclaimType, NoneFresh, Zenon DEF TaskInv, TypeInv
<1>3. SpinInv'
  BY Zenon DEF SpinInv
<1>4. FullInv'
  BY ReclaimFull, Zenon
<1>5. ReadyInv'
  BY ReclaimType, Zenon DEF ReadyInv, TypeInv, TaskInv
<1>6. BlockInv'
  BY ReclaimBlock, Zenon
<1>7. HostInv'
  BY ReclaimType, Zenon DEF HostInv, TypeInv, TaskInv
<1>8. QED BY <1>1, <1>2, <1>3, <1>4, <1>5, <1>6, <1>7, Zenon

\* It tells QEMU.
LEMMA OpenNotifyKeeps ==
  ASSUME IInv, OpenNotify
  PROVE  IInv'
<1> USE DEF IInv, OpenNotify, SendPortOpen, HandlePortOpen, guest_open_close, ovq, guest, ivq, task
<1>1. TypeInv' /\ TaskInv' /\ FullInv' /\ BlockInv'
  BY NoneFresh, SizesPositive, SettingsKnown, Zenon DEF TaskInv, TypeInv, BlockInv, SpinInv,
       NoneQueued, OneQueued, FullInv, Total, InFlight, TaskPCs
<1>2. SpinInv' /\ ReadyInv' /\ HostInv'
  BY Zenon DEF SpinInv, ReadyInv, HostInv, TypeInv, TaskInv
<1>3. QED BY <1>1, <1>2, Zenon

\* release tells QEMU first.
LEMMA ReleaseNotifyKeeps ==
  ASSUME IInv, ReleaseNotify
  PROVE  IInv'
<1> USE DEF IInv, ReleaseNotify, SendPortOpen, HandlePortOpen, guest_open_close, ovq, guest, ivq, task
<1>1. TypeInv' /\ TaskInv' /\ FullInv' /\ BlockInv'
  BY NoneFresh, SizesPositive, SettingsKnown, Zenon DEF TaskInv, TypeInv, BlockInv, SpinInv,
       NoneQueued, OneQueued, FullInv, Total, InFlight, TaskPCs
<1>2. SpinInv' /\ ReadyInv' /\ HostInv'
  BY Zenon DEF SpinInv, ReadyInv, HostInv, TypeInv, TaskInv
<1>3. QED BY <1>1, <1>2, Zenon

\* It gives the input buffers back.
LEMMA ReleaseDiscardKeeps ==
  ASSUME IInv, ReleaseDiscard
  PROVE  IInv'
<1> USE DEF IInv, ReleaseDiscard, discard_port_data, ovq, ivq, task, host
<1>1. TypeInv'
  BY SettingsKnown, NoneFresh, Zenon DEF TypeInv, TaskInv, TaskPCs
<1>2. TaskInv'
  BY NoneFresh, Zenon DEF TaskInv, TypeInv
<1>3. SpinInv' /\ FullInv' /\ ReadyInv' /\ BlockInv' /\ HostInv'
  BY Zenon DEF SpinInv, FullInv, Total, InFlight, ReadyInv, TypeInv, TaskInv, BlockInv,
       NoneQueued, OneQueued, HostInv
<1>4. QED BY <1>1, <1>2, <1>3, Zenon

\* It reclaims, and the file is closed.
LEMMA ReleaseReclaimKeeps ==
  ASSUME IInv, ReleaseReclaim
  PROVE  IInv'
<1> USE DEF IInv, ReleaseReclaim, guest, ivq, task, host
<1>r. reclaim_consumed_buffers
  BY Zenon
<1>1. TypeInv'
  BY ReclaimType, SettingsKnown, NoneFresh, Zenon DEF TypeInv, TaskInv, TaskPCs
<1>2. TaskInv'
  BY ReclaimType, NoneFresh, Zenon DEF TaskInv, TypeInv
<1>3. SpinInv'
  BY Zenon DEF SpinInv
<1>4. FullInv'
  BY ReclaimFull, Zenon
<1>5. ReadyInv'
  BY ReclaimType, Zenon DEF ReadyInv, TypeInv, TaskInv
<1>6. BlockInv'
  BY ReclaimBlock, Zenon
<1>7. HostInv'
  BY ReclaimType, Zenon DEF HostInv, TypeInv, TaskInv
<1>8. QED BY <1>1, <1>2, <1>3, <1>4, <1>5, <1>6, <1>7, Zenon

\* The input interrupt wakes the readers.
LEMMA in_intrKeeps ==
  ASSUME IInv, in_intr
  PROVE  IInv'
<1> USE DEF IInv, in_intr, TakeInbuf, discard_port_data, Listed, ovq, guest, ivq, task, host
<1>w. Awake
  BY WakeFacts, Zenon DEF Awake, TypeInv
<1>1. TypeInv' /\ ReadyInv'
  BY <1>w, SettingsKnown, NoneFresh, Zenon DEF ReadyInv, TypeInv, TaskInv, Awake, TaskPCs
<1>2. TaskInv'
  BY <1>w, NoneFresh, Zenon DEF TaskInv, TypeInv, Awake
<1>3. SpinInv'
  BY <1>w, NoneFresh, Zenon DEF SpinInv, TypeInv, TaskInv, Awake
<1>4. FullInv' /\ BlockInv' /\ HostInv'
  BY Zenon DEF HostInv, FullInv, Total, InFlight, BlockInv, NoneQueued, OneQueued
<1>5. QED BY <1>1, <1>2, <1>3, <1>4, Zenon

\* The output interrupt wakes the writers.
LEMMA out_intrKeeps ==
  ASSUME IInv, out_intr
  PROVE  IInv'
<1> USE DEF IInv, out_intr, Listed, ovq, guest, ivq, task, host
<1>w. Awake
  BY WakeFacts, Zenon DEF Awake, TypeInv
<1>1. TypeInv' /\ TaskInv' /\ SpinInv' /\ ReadyInv'
  BY <1>w, NoneFresh, SettingsKnown, Zenon DEF ReadyInv, TypeInv, TaskInv, Awake, SpinInv, TaskPCs
<1>2. FullInv' /\ BlockInv' /\ HostInv'
  BY Zenon DEF HostInv, FullInv, Total, InFlight, BlockInv, NoneQueued, OneQueued
<1>3. QED BY <1>1, <1>2, Zenon

\* The guest reads that the host opened or closed the port.
LEMMA CtlPortOpenKeeps ==
  ASSUME IInv, CtlPortOpen
  PROVE  IInv'
<1> USE DEF IInv, CtlPortOpen, TakeControl, ovq, ivq, task, host
<1>r. ctl # <<>> /\ ctl' = Tail(ctl)
  BY Zenon
<1>w. Awake
  BY WakeFacts, Zenon DEF Awake, TypeInv
<1>1. TypeInv'
  BY <1>r, ControlFacts, <1>w, SettingsKnown, NoneFresh, Zenon
     DEF TypeInv, TaskInv, TaskPCs, Awake
<1>2. TaskInv'
  BY <1>r, ControlFacts, <1>w, NoneFresh, Zenon DEF TaskInv, TypeInv, Awake
<1>3. SpinInv'
  BY <1>r, ControlFacts, <1>w, NoneFresh, Zenon DEF SpinInv, TypeInv, TaskInv, Awake
<1>4. FullInv' /\ BlockInv'
  BY Zenon DEF FullInv, Total, InFlight, BlockInv, NoneQueued, OneQueued
<1>5. ReadyInv'
  BY <1>r, ControlFacts, <1>w, Zenon DEF ReadyInv, TypeInv, TaskInv, Awake
<1>6. HostInv'
  BY <1>r, ControlFacts, <1>w, Zenon DEF HostInv, TypeInv, TaskInv, Awake
<1>7. QED BY <1>1, <1>2, <1>3, <1>4, <1>5, <1>6, Zenon

\* Then it reclaims.
LEMMA CtlReclaimKeeps ==
  ASSUME IInv, CtlReclaim
  PROVE  IInv'
<1> USE DEF IInv, CtlReclaim, guest, ivq, task, host
<1>r. reclaim_consumed_buffers
  BY Zenon
<1>1. TypeInv'
  BY ReclaimType, SettingsKnown, NoneFresh, Zenon DEF TypeInv, TaskInv, TaskPCs
<1>2. TaskInv' /\ SpinInv'
  BY Zenon DEF TaskInv, SpinInv
<1>3. FullInv'
  BY ReclaimFull, Zenon
<1>4. ReadyInv'
  BY ReclaimType, Zenon DEF ReadyInv, TypeInv, TaskInv
<1>5. BlockInv'
  BY ReclaimBlock, Zenon
<1>6. HostInv'
  BY ReclaimType, Zenon DEF HostInv, TypeInv, TaskInv
<1>7. QED BY <1>1, <1>2, <1>3, <1>4, <1>5, <1>6, Zenon

\* The guest reads that the port is gone.
LEMMA CtlPortRemoveKeeps ==
  ASSUME IInv, CtlPortRemove
  PROVE  IInv'
<1> USE DEF IInv, CtlPortRemove, TakeControl, ovq, ivq, task, host
<1>r. ctl # <<>> /\ ctl' = Tail(ctl)
  BY Zenon
<1>w. Awake
  BY WakeFacts, Zenon DEF Awake, TypeInv
<1>1. TypeInv'
  BY <1>r, ControlFacts, <1>w, SettingsKnown, NoneFresh, Zenon
     DEF TypeInv, TaskInv, TaskPCs, Awake
<1>2. TaskInv'
  BY <1>r, ControlFacts, <1>w, NoneFresh, Zenon DEF TaskInv, TypeInv, Awake
<1>3. SpinInv'
  BY <1>r, ControlFacts, <1>w, NoneFresh, Zenon DEF SpinInv, TypeInv, TaskInv, Awake
<1>4. FullInv' /\ BlockInv'
  BY Zenon DEF FullInv, Total, InFlight, BlockInv, NoneQueued, OneQueued
<1>5. ReadyInv'
  BY <1>r, ControlFacts, <1>w, Zenon DEF ReadyInv, TypeInv, TaskInv, Awake
<1>6. HostInv'
  BY <1>r, ControlFacts, <1>w, Zenon DEF HostInv, TypeInv, TaskInv, Awake
<1>7. QED BY <1>1, <1>2, <1>3, <1>4, <1>5, <1>6, Zenon

\* unplug_port gives the input buffers back,
LEMMA UnplugDiscardKeeps ==
  ASSUME IInv, UnplugDiscard
  PROVE  IInv'
<1> USE DEF IInv, UnplugDiscard, discard_port_data, ovq, guest, ivq, task, host
<1>1. TypeInv' /\ TaskInv' /\ SpinInv' /\ FullInv' /\ BlockInv' /\ HostInv'
  BY Zenon DEF TypeInv, TaskInv, SpinInv, FullInv, Total, InFlight, BlockInv, NoneQueued,
       OneQueued, HostInv
<1>2. ReadyInv'
  BY Zenon DEF ReadyInv
<1>3. QED BY <1>1, <1>2, Zenon

\* reclaims without the lock,
LEMMA UnplugReclaimKeeps ==
  ASSUME IInv, UnplugReclaim
  PROVE  IInv'
<1> USE DEF IInv, UnplugReclaim, guest, ivq, task, host
<1>r. reclaim_consumed_buffers
  BY Zenon
<1>1. TypeInv'
  BY ReclaimType, SettingsKnown, NoneFresh, Zenon DEF TypeInv, TaskInv, TaskPCs
<1>2. TaskInv' /\ SpinInv'
  BY Zenon DEF TaskInv, SpinInv
<1>3. FullInv'
  BY ReclaimFull, Zenon
<1>4. ReadyInv'
  BY ReclaimType, Zenon DEF ReadyInv, TypeInv, TaskInv
<1>5. BlockInv'
  BY ReclaimBlock, Zenon
<1>6. HostInv'
  BY ReclaimType, Zenon DEF HostInv, TypeInv, TaskInv
<1>7. QED BY <1>1, <1>2, <1>3, <1>4, <1>5, <1>6, Zenon

\* and detaches the input buffers; what is on the out queue stays.
LEMMA UnplugDetachKeeps ==
  ASSUME IInv, UnplugDetach
  PROVE  IInv'
<1> USE DEF IInv, UnplugDetach, ovq, task, host
<1>1. TypeInv'
  BY SettingsKnown, NoneFresh, Zenon DEF TypeInv, TaskInv, TaskPCs
<1>2. TaskInv' /\ SpinInv' /\ FullInv' /\ ReadyInv' /\ BlockInv' /\ HostInv'
  BY Zenon DEF TaskInv, SpinInv, ReadyInv, FullInv, Total, InFlight, BlockInv, NoneQueued,
       OneQueued, HostInv, TypeInv
<1>3. QED BY <1>1, <1>2, Zenon

\* QEMU drops the requests of a port that nobody reads.
LEMMA HostDiscardKeeps ==
  ASSUME IInv, HostDiscard
  PROVE  IInv'
<1> USE DEF IInv, HostDiscard, guest, ivq, task, host
<1>r. discard_vq_data /\ UNCHANGED outvq_full
  BY Zenon DEF discard_vq_data
<1>1. TypeInv'
  BY <1>r, DiscardFull, SettingsKnown, NoneFresh, Zenon DEF TypeInv, TaskInv, TaskPCs
<1>2. TaskInv' /\ SpinInv' /\ HostInv'
  BY Zenon DEF TaskInv, SpinInv, HostInv
<1>3. FullInv'
  BY DiscardFull, Zenon
<1>4. ReadyInv'
  BY <1>r, DiscardFull, Zenon DEF ReadyInv, TypeInv, TaskInv
<1>5. BlockInv'
  BY DiscardBlock, Zenon
<1>6. QED BY <1>1, <1>2, <1>3, <1>4, <1>5, Zenon

\* QEMU starts on the out queue.
LEMMA HostOutputKeeps ==
  ASSUME IInv, HostOutput
  PROVE  IInv'
<1> USE DEF IInv, HostOutput, ovq, guest, ivq, task
<1>1. TypeInv' /\ TaskInv' /\ SpinInv' /\ FullInv' /\ ReadyInv' /\ BlockInv' /\ HostInv'
  BY Zenon DEF TypeInv, TaskInv, SpinInv, ReadyInv, FullInv, Total, InFlight, BlockInv,
       NoneQueued, OneQueued, HostInv
<1>2. QED BY <1>1, Zenon

\* It takes the first request.
LEMMA HostPopKeeps ==
  ASSUME IInv, HostPop
  PROVE  IInv'
<1> USE DEF IInv, HostPop, guest, ivq, task
<1>q. /\ oavail \in Seq(Cells) /\ oavail # <<>> /\ elem = NoCell /\ Len(oavail) \in Nat /\ Len(oused) \in Nat
      /\ elem' = Head(oavail) /\ oavail' = Tail(oavail) /\ oused' = oused
  BY DEF TypeInv, HostInv
<1>r. elem' \in Cells /\ elem' # NoCell /\ oavail' \in Seq(Cells) /\ Len(oavail') = Len(oavail) - 1
  BY <1>q, TailFacts, NoneFresh, Zenon
<1>s. Total' = Total
  BY <1>q, <1>r DEF Total, InFlight
<1>1. TypeInv' /\ FullInv' /\ HostInv'
  BY <1>q, <1>r, <1>s, SettingsKnown, NoneFresh, Zenon DEF FullInv, HostInv, TypeInv, TaskInv,
       TaskPCs
<1>2. TaskInv' /\ SpinInv' /\ ReadyInv'
  BY Zenon DEF TaskInv, SpinInv, ReadyInv
<1>3. BlockInv'
  <2>1. SUFFICES ASSUME ~setting.nonblock PROVE BlockInv'
    BY Zenon DEF BlockInv
  <2>2. ~NoneQueued /\ olock # NoTask /\ cell[olock] \in heap /\ OneQueued(cell[olock])
    BY <1>q, <2>1, Zenon DEF BlockInv, NoneQueued
  <2>3. oavail = <<cell[olock]>> /\ elem = NoCell /\ oused = <<>>
    BY <1>q, <2>2, Zenon DEF OneQueued
  <2>4. oavail' = <<>> /\ elem' = cell[olock]
    BY <1>q, <2>3
  <2>5. OneQueued(cell[olock])' /\ ~NoneQueued'
    BY <1>q, <1>r, <2>3, <2>4, Zenon DEF OneQueued, NoneQueued
  <2>6. QED BY <2>1, <2>2, <2>5, Zenon DEF BlockInv
<1>4. QED BY <1>1, <1>2, <1>3, Zenon

\* It executes the request.
LEMMA HostServeKeeps ==
  ASSUME IInv, HostServe
  PROVE  IInv'
<1> USE DEF IInv, HostServe, ovq, guest, task
<1>1. TypeInv' /\ TaskInv' /\ SpinInv' /\ FullInv' /\ ReadyInv' /\ BlockInv' /\ HostInv'
  BY Zenon DEF TypeInv, TaskInv, SpinInv, ReadyInv, FullInv, Total, InFlight, BlockInv,
       NoneQueued, OneQueued, HostInv
<1>2. QED BY <1>1, Zenon

\* It cannot execute it.
LEMMA HostRefuseKeeps ==
  ASSUME IInv, HostRefuse
  PROVE  IInv'
<1> USE DEF IInv, HostRefuse, ovq, guest, ivq, task
<1>1. TypeInv' /\ TaskInv' /\ SpinInv' /\ FullInv' /\ ReadyInv' /\ BlockInv' /\ HostInv'
  BY Zenon DEF TypeInv, TaskInv, SpinInv, ReadyInv, FullInv, Total, InFlight, BlockInv,
       NoneQueued, OneQueued, HostInv
<1>2. QED BY <1>1, Zenon

\* It puts the request on the used ring.
LEMMA HostPushKeeps ==
  ASSUME IInv, HostPush
  PROVE  IInv'
<1> USE DEF IInv, HostPush, guest, ivq, task
<1>q. /\ elem \in Cells /\ elem # NoCell /\ oused \in Seq(Cells) /\ oused' = Append(oused, elem)
      /\ elem' = NoCell /\ Len(oavail) \in Nat /\ Len(oused) \in Nat /\ UNCHANGED oavail
  BY DEF TypeInv, HostInv
<1>r. oused' \in Seq(Cells) /\ Len(oused') = Len(oused) + 1
  BY <1>q, AppendFacts
<1>s. Total' = Total
  BY <1>q, <1>r DEF Total, InFlight
<1>1. TypeInv' /\ FullInv' /\ HostInv'
  BY <1>q, <1>r, <1>s, SettingsKnown, NoneFresh, Zenon DEF FullInv, HostInv, TypeInv, TaskInv,
       TaskPCs
<1>2. TaskInv' /\ SpinInv' /\ ReadyInv'
  BY Zenon DEF TaskInv, SpinInv, ReadyInv
<1>3. BlockInv'
  <2>1. oused = <<>> => oused' = <<elem>>
    BY <1>q
  <2>2. SUFFICES ASSUME ~setting.nonblock PROVE BlockInv'
    BY Zenon DEF BlockInv
  <2>3. ~NoneQueued /\ olock # NoTask /\ cell[olock] \in heap /\ OneQueued(cell[olock])
    BY <1>q, <2>2, Zenon DEF BlockInv, NoneQueued
  <2>4. oavail = <<>> /\ elem = cell[olock] /\ oused = <<>>
    BY <1>q, <2>3, Zenon DEF OneQueued
  <2>5. OneQueued(cell[olock])' /\ ~NoneQueued'
    BY <1>q, <2>1, <2>4, SingleFacts, Zenon DEF OneQueued, NoneQueued
  <2>6. QED BY <2>2, <2>3, <2>5, Zenon DEF BlockInv
<1>4. QED BY <1>1, <1>2, <1>3, Zenon

\* It has emptied the queue and notifies the guest.
LEMMA HostNotifyKeeps ==
  ASSUME IInv, HostNotify
  PROVE  IInv'
<1> USE DEF IInv, HostNotify, ovq, guest, ivq, task
<1>1. TypeInv' /\ TaskInv' /\ SpinInv' /\ FullInv' /\ ReadyInv' /\ BlockInv' /\ HostInv'
  BY Zenon DEF TypeInv, TaskInv, SpinInv, ReadyInv, FullInv, Total, InFlight, BlockInv,
       NoneQueued, OneQueued, HostInv
<1>2. QED BY <1>1, Zenon

\* QEMU's side of the port closes.
LEMMA HostCloseKeeps ==
  ASSUME IInv, HostClose
  PROVE  IInv'
<1> USE DEF IInv, HostClose, guest, ivq, task
<1>r. discard_vq_data /\ UNCHANGED outvq_full
  BY Zenon DEF discard_vq_data
<1>1. TypeInv'
  BY <1>r, DiscardFull, SendControlFacts, SettingsKnown, NoneFresh, Zenon
     DEF TypeInv, TaskInv, TaskPCs
<1>2. TaskInv' /\ SpinInv'
  BY Zenon DEF TaskInv, SpinInv
<1>3. FullInv'
  BY DiscardFull, Zenon
<1>4. ReadyInv'
  BY <1>r, DiscardFull, SendControlFacts, Zenon DEF ReadyInv, TypeInv, TaskInv
<1>5. BlockInv'
  BY DiscardBlock, Zenon
<1>6. HostInv'
  BY <1>r, DiscardFull, SendControlFacts, Zenon DEF HostInv, TypeInv, TaskInv
<1>7. QED BY <1>1, <1>2, <1>3, <1>4, <1>5, <1>6, Zenon

\* It opens again.
LEMMA HostOpenKeeps ==
  ASSUME IInv, HostOpen
  PROVE  IInv'
<1> USE DEF IInv, HostOpen, ovq, guest, ivq, task
<1>1. TypeInv'
  BY SendControlFacts, SettingsKnown, NoneFresh, Zenon DEF TypeInv, TaskInv, TaskPCs
<1>2. TaskInv' /\ SpinInv' /\ FullInv' /\ ReadyInv' /\ BlockInv'
  BY Zenon DEF TaskInv, SpinInv, ReadyInv, FullInv, Total, InFlight, BlockInv, NoneQueued,
       OneQueued
<1>3. HostInv'
  BY SendControlFacts, Zenon DEF HostInv, TypeInv, TaskInv
<1>4. QED BY <1>1, <1>2, <1>3, Zenon

\* QEMU removes the port.
LEMMA HostUnplugKeeps ==
  ASSUME IInv, HostUnplug
  PROVE  IInv'
<1> USE DEF IInv, HostUnplug, guest, ivq, task
<1>r. discard_vq_data /\ UNCHANGED outvq_full
  BY Zenon DEF discard_vq_data
<1>1. TypeInv'
  BY <1>r, DiscardFull, SendControlFacts, SettingsKnown, NoneFresh, Zenon
     DEF TypeInv, TaskInv, TaskPCs
<1>2. TaskInv' /\ SpinInv'
  BY Zenon DEF TaskInv, SpinInv
<1>3. FullInv'
  BY DiscardFull, Zenon
<1>4. ReadyInv'
  BY <1>r, DiscardFull, SendControlFacts, Zenon DEF ReadyInv, TypeInv, TaskInv
<1>5. BlockInv'
  BY DiscardBlock, Zenon
<1>6. HostInv'
  BY <1>r, DiscardFull, SendControlFacts, Zenon DEF HostInv, TypeInv, TaskInv
<1>7. QED BY <1>1, <1>2, <1>3, <1>4, <1>5, <1>6, Zenon

----------------------------------------------------------------------------
(* The invariance of IInv, and what it gives.                              *)

\* In the first state the port is closed and its queues are empty.
LEMMA InitInv == Init => IInv
<1> SUFFICES ASSUME Init PROVE IInv
  BY Zenon
<1>1. TypeInv /\ TaskInv /\ SpinInv /\ ReadyInv
  <2>1. TypeInv
    <3>1. /\ setting \in Settings /\ pc = [t \in Tasks |-> "idle"]
          /\ cell = [t \in Tasks |-> NoCell] /\ elem = NoCell /\ olock = NoTask
      BY Zenon DEF Init
    <3>2. pc \in [Tasks -> TaskPCs] /\ cell \in [Tasks -> Cells \cup {NoCell}]
      BY <3>1, Zenon DEF TaskPCs
    <3>3. /\ oavail = <<>> /\ oused = <<>> /\ ctl = <<>> /\ heap = {}
          /\ outvq_full = FALSE /\ portdev = TRUE /\ guest_connected = FALSE
      BY Zenon DEF Init
    <3>4. outvq_full \in BOOLEAN /\ portdev \in BOOLEAN /\ guest_connected \in BOOLEAN
      BY <3>3, Zenon
    <3>5. /\ oavail \in Seq(Cells) /\ oused \in Seq(Cells)
          /\ ctl \in Seq({"open", "close", "remove"})
      BY <3>3
    <3>6. heap \subseteq Cells
      BY <3>3, Zenon
    <3>7. QED BY <3>1, <3>2, <3>4, <3>5, <3>6, Zenon DEF TypeInv
  <2>2. TaskInv /\ ReadyInv
    BY Zenon DEF Init, TaskInv, ReadyInv
  <2>3. SpinInv
    BY NoneFresh, Zenon DEF Init, SpinInv
  <2>4. QED BY <2>1, <2>2, <2>3, Zenon
<1>2. FullInv
  BY SizesPositive DEF Init, FullInv, Total, InFlight
<1>3. BlockInv
  BY Zenon DEF Init, BlockInv, NoneQueued
<1>4. HostInv
  BY DEF Init, HostInv, Range
<1>5. QED BY <1>1, <1>2, <1>3, <1>4, Zenon DEF IInv

\* A stuttering step changes nothing.
LEMMA StutterInv == IInv /\ UNCHANGED vars => IInv'
<1> SUFFICES ASSUME IInv, UNCHANGED vars PROVE IInv'
  BY Zenon
<1> USE DEF IInv, vars, guest, ovq, task, host
<1>1. TypeInv' /\ TaskInv' /\ SpinInv' /\ ReadyInv'
  BY Zenon DEF TypeInv, TaskInv, SpinInv, ReadyInv
<1>2. FullInv' /\ BlockInv' /\ HostInv'
  BY Zenon DEF HostInv, FullInv, Total, InFlight, BlockInv, NoneQueued, OneQueued
<1>3. QED BY <1>1, <1>2, Zenon

\* Every step preserves the invariant.
LEMMA NextInv == IInv /\ [Next]_vars => IInv'
<1> SUFFICES ASSUME IInv, [Next]_vars PROVE IInv'
  BY Zenon
<1>1. ASSUME NEW t \in setting.users, IoctlStart(t) \/ Ioctl(t) \/ Signal(t) PROVE IInv'
  <2>1. CASE IoctlStart(t) \/ Signal(t)
    BY <2>1, IoctlStartKeeps, SignalKeeps, Zenon
  <2>2. CASE WriteReady(t) \/ WriteBlocked(t) \/ IoctlRefused(t) \/ IoctlBuild(t)
    BY <2>2, WriteReadyKeeps, WriteBlockedKeeps, IoctlRefusedKeeps, IoctlBuildKeeps, Zenon
  <2>3. CASE IoctlUnknown(t) \/ Send(t) \/ Spin(t) \/ ReadCheck(t) \/ ReadWait(t)
    BY <2>3, IoctlUnknownKeeps, SendKeeps, SpinKeeps, ReadCheckKeeps, ReadWaitKeeps, Zenon
  <2>4. CASE ReplyCheck(t) \/ FillCopy(t) \/ FillRequeue(t) \/ IoctlDone(t)
    BY <2>4, ReplyCheckKeeps, FillCopyKeeps, FillRequeueKeeps, IoctlDoneKeeps, Zenon
  <2>5. QED BY <1>1, <2>1, <2>2, <2>3, <2>4, Zenon DEF Ioctl
<1>2. CASE PollRead \/ PollWrite
  BY <1>2, PollReadKeeps, PollWriteKeeps, Zenon
<1>3. CASE OpenRelease
  BY <1>3, OpenFindKeeps, OpenConnectKeeps, OpenReclaimKeeps, OpenNotifyKeeps,
     ReleaseNotifyKeeps, ReleaseDiscardKeeps, ReleaseReclaimKeeps, Zenon DEF OpenRelease
<1>4. CASE Interrupt
  BY <1>4, in_intrKeeps, out_intrKeeps, Zenon DEF Interrupt
<1>5. CASE Control
  BY <1>5, CtlPortOpenKeeps, CtlReclaimKeeps, CtlPortRemoveKeeps, UnplugDiscardKeeps,
     UnplugReclaimKeeps, UnplugDetachKeeps, Zenon DEF Control
<1>6. CASE Output
  BY <1>6, HostDiscardKeeps, HostOutputKeeps, HostPopKeeps, HostServeKeeps,
     HostRefuseKeeps, HostPushKeeps, HostNotifyKeeps, Zenon DEF Output
<1>7. CASE HostClose \/ HostOpen \/ HostUnplug
  BY <1>7, HostCloseKeeps, HostOpenKeeps, HostUnplugKeeps, Zenon
<1>8. CASE UNCHANGED vars
  BY <1>8, StutterInv, Zenon
<1>9. QED BY <1>1, <1>2, <1>3, <1>4, <1>5, <1>6, <1>7, <1>8, Zenon DEF Next

\* IInv holds in every reachable state.
LEMMA Invariance == Spec => []IInv
  BY InitInv, NextInv, PTL DEF Spec

\* On a file that blocks, neither the kfree at the end of port_fops_ioctl nor that
\* of reclaim_consumed_buffers frees a request that is on the out queue, however
\* many tasks use the file and whatever happens to the port.
THEOREM QueuedStaysAllocated == Spec => []QueuedIsAllocated
<1>1. IInv => QueuedIsAllocated
  <2> SUFFICES ASSUME IInv, ~setting.nonblock PROVE OnQueue \subseteq heap
    BY Zenon DEF QueuedIsAllocated
  <2>1. CASE NoneQueued
    BY <2>1 DEF NoneQueued, OnQueue, Range
  <2>2. CASE cell[olock] \in heap /\ OneQueued(cell[olock])
    <3>1. Range(<<>>) = {} /\ Range(<<cell[olock]>>) = {cell[olock]}
      BY SingleFacts DEF Range
    <3>2. QED BY <2>2, <3>1, Zenon DEF OneQueued, OnQueue
  <2>3. QED BY <2>1, <2>2, Zenon DEF IInv, BlockInv
<1>2. QED BY <1>1, Invariance, PTL

\* On a file that blocks, QEMU never serves a request after guest_close closed
\* /dev/crypto, or before guest_open opened it.
THEOREM ServedWithDevice == Spec => []ServedWhileOpen
<1>1. IInv => ServedWhileOpen
  <2> SUFFICES ASSUME IInv, ~setting.nonblock, hpc = "exec" PROVE cfd
    BY Zenon DEF ServedWhileOpen
  <2>1. elem # NoCell /\ hport
    BY Zenon DEF IInv, HostInv
  <2>2. olock \in Tasks
    BY <2>1, Zenon DEF IInv, BlockInv, NoneQueued, TypeInv
  <2>3. pc[olock] = "spin"
    BY <2>2, Zenon DEF IInv, SpinInv
  <2>4. file = "open"
    BY <2>2, <2>3, Zenon DEF IInv, TaskInv
  <2>5. QED BY <2>1, <2>4, Zenon DEF IInv, HostInv
<1>2. QED BY <1>1, Invariance, PTL

\* outvq_full is set only when the queue is full, and a single writer that passed
\* will_write_block finds a slot, for every queue of at least two slots.
THEOREM FlagExact == Spec => []FullIsFull
<1>1. IInv => FullIsFull
  <2> SUFFICES ASSUME IInv PROVE FullIsFull
    BY Zenon
  <2>1. outvq_full => InFlight + Len(oused) = OutSize
    BY Zenon DEF IInv, FullInv, Total
  <2>2. ASSUME NEW s \in Tasks, setting.users = {s}, NEW t \in Tasks, pc[t] = "send"
        PROVE  InFlight < OutSize
    <3>1. t = s /\ ~outvq_full
      BY <2>2, Zenon DEF IInv, TaskInv, ReadyInv
    <3>2. InFlight \in Nat /\ Len(oused) \in Nat /\ OutSize \in Nat
      BY SizesPositive DEF IInv, TypeInv, InFlight
    <3>3. Total <= OutSize /\ Total # OutSize
      BY <3>1, Zenon DEF IInv, FullInv
    <3>4. QED BY <3>2, <3>3 DEF Total
  <2>3. QED BY <2>1, <2>2, Zenon DEF FullIsFull, Single
<1>2. QED BY <1>1, Invariance, PTL

----------------------------------------------------------------------------
(* The file, its calls, its in-buffers and those who sleep.                *)

\* A port that is open and listed is connected.
OpenInv == Listed /\ file \in {"reclaim", "notify", "open", "discard"} => guest_connected

\* Who sleeps has a reason to, or an interrupt will find the port; a task that
\* blocks never sleeps because the queue is full.
Due == Listed /\ (irqIn \/ irqOut \/ hpc # "idle")
SleepInv ==
    \A t \in Tasks :
        /\ pc[t] = "readSleep" => will_read_block \/ Due
        /\ pc[t] = "writeSleep" => guest_connected /\ ~host_connected /\ ~setting.nonblock

\* The states of the file, of the control work and of QEMU.
FlagInv ==
    /\ file \in {"closed", "found", "reclaim", "notify", "open", "discard", "finish"}
    /\ cpc \in {"idle", "reclaim", "unplugDiscard", "unplugReclaim", "unplugDetach"}
    /\ hpc \in {"idle", "loop", "exec", "push"}
    /\ host_connected \in BOOLEAN /\ irqIn \in BOOLEAN /\ irqOut \in BOOLEAN
    /\ hport \in BOOLEAN /\ hconn \in BOOLEAN /\ hguest \in BOOLEAN /\ cfd \in BOOLEAN
    /\ Len(ctl) <= CtlBufs

\* A task inside an ioctl has a call, and so has a request that was built.
CallInv ==
    /\ call \in [Tasks -> Calls \cup {NoCall}] /\ ncalls \in 0 .. MaxCalls
    /\ \A t \in Tasks : pc[t] # "idle" => call[t] \in Calls
    /\ content \in [Cells -> Calls \cup {NoCall}]
    /\ \A c \in Range(cell) \cup Range(oavail) \cup {elem} : c # NoCell => content[c] \in Calls
    /\ executed \in [Calls -> {"no", "ok", "refused"}]

\* The in queue; a task that posts a buffer again has one.
InInv ==
    /\ inbuf \in Chunk \cup {NoChunk} /\ iused \in Seq(Chunk) /\ iavail \in Seq(InBufs)
    /\ got \in [Tasks -> Calls \cup {NoCall}] /\ rbuf \in [Tasks -> InBufs \cup {NoBuf}]
    /\ \A t \in Tasks : pc[t] = "requeue" => rbuf[t] \in InBufs

----------------------------------------------------------------------------
(* The flags.                                                              *)

\* A message is sent into a buffer that is posted.
LEMMA SendControlFits ==
  ASSUME IInv, FlagInv, NEW m \in {"open", "close", "remove"}, SendControl(m)
  PROVE  Len(ctl') <= CtlBufs
<1>1. ctl \in Seq({"open", "close", "remove"}) /\ Len(ctl) \in Nat /\ CtlBufs \in Nat /\ Len(ctl) <= CtlBufs
  BY SizesPositive DEF IInv, TypeInv, FlagInv
<1>2. CASE ctl' = ctl
  BY <1>1, <1>2, Zenon
<1>3. CASE Len(ctl) + (IF cpc = "idle" THEN 0 ELSE 1) < CtlBufs /\ ctl' = Append(ctl, m)
  <2>1. Len(ctl') = Len(ctl) + 1
    BY <1>1, <1>3, AppendFacts
  <2>2. QED BY <1>1, <1>3, <2>1
<1>4. QED BY <1>2, <1>3, Zenon DEF SendControl

\* Every step keeps the flags of the file, of the control work and of QEMU.
LEMMA FlagKeeps ==
  ASSUME IInv, FlagInv, [Next]_vars
  PROVE  FlagInv'
<1> USE DEF guest, host
<1>1. CASE \E t \in setting.users : IoctlStart(t) \/ Ioctl(t) \/ Signal(t)
  <2>1. UNCHANGED <<file, cpc, hpc, host_connected, irqIn, irqOut, hport, hconn, hguest, cfd, ctl>>
    BY <1>1, Zenon DEF IoctlStart, Ioctl, Signal, WriteReady, WriteBlocked, IoctlRefused,
         IoctlBuild, IoctlUnknown, Send, Spin, ReadCheck, ReadWait, ReplyCheck, FillCopy,
         FillRequeue, IoctlDone
  <2>2. QED BY <2>1 DEF FlagInv
<1>2. CASE PollRead \/ PollWrite \/ Interrupt
  <2>1. UNCHANGED <<file, cpc, hpc, host_connected, hport, hconn, hguest, cfd, ctl>>
    BY <1>2, Zenon DEF PollRead, PollWrite, Interrupt, in_intr, out_intr
  <2>2. irqIn' \in BOOLEAN /\ irqOut' \in BOOLEAN
    BY <1>2, Zenon DEF PollRead, PollWrite, Interrupt, in_intr, out_intr, FlagInv
  <2>3. QED BY <2>1, <2>2, ZenonT(30) DEF FlagInv
<1>3. CASE OpenRelease
  <2>1. UNCHANGED <<cpc, hpc, host_connected, irqIn, irqOut, hport, hconn, ctl>>
    BY <1>3, Zenon DEF OpenRelease, OpenFind, OpenConnect, OpenReclaim, OpenNotify,
       ReleaseNotify, ReleaseDiscard, ReleaseReclaim, SendPortOpen, HandlePortOpen
  <2>2. file' \in {"closed", "found", "reclaim", "notify", "open", "discard", "finish"}
    BY <1>3, Zenon DEF OpenRelease, OpenFind, OpenConnect, OpenReclaim, OpenNotify,
       ReleaseNotify, ReleaseDiscard, ReleaseReclaim
  <2>3. UNCHANGED <<hguest, cfd>> \/ SendPortOpen(TRUE) \/ SendPortOpen(FALSE)
    BY <1>3, Zenon DEF OpenRelease, OpenFind, OpenConnect, OpenReclaim, OpenNotify,
       ReleaseNotify, ReleaseDiscard, ReleaseReclaim
  <2>4. hguest' \in BOOLEAN /\ cfd' \in BOOLEAN
    BY <2>3, Zenon DEF SendPortOpen, HandlePortOpen, guest_open_close, FlagInv
  <2>5. QED BY <2>1, <2>2, <2>4, Zenon DEF FlagInv
<1>4. CASE Control
  <2>1. Len(ctl') <= CtlBufs
    <3>1. CASE UNCHANGED ctl
      BY <3>1, Zenon DEF FlagInv
    <3>2. CASE ctl # <<>> /\ ctl' = Tail(ctl)
      <4>1. ctl \in Seq({"open", "close", "remove"}) /\ Len(ctl) \in Nat /\ CtlBufs \in Nat /\ Len(ctl) <= CtlBufs
        BY SizesPositive DEF IInv, TypeInv, FlagInv
      <4>2. Len(ctl') = Len(ctl) - 1
        BY <3>2, <4>1, TailFacts, Zenon
      <4>3. QED BY <4>1, <4>2
    <3>3. QED BY <1>4, <3>1, <3>2, Zenon DEF Control, CtlPortOpen, CtlReclaim, CtlPortRemove,
                   UnplugDiscard, UnplugReclaim, UnplugDetach, TakeControl
  <2>2. QED BY <1>4, <2>1, ZenonT(30) DEF Control, CtlPortOpen, CtlReclaim, CtlPortRemove,
                 UnplugDiscard, UnplugReclaim, UnplugDetach, FlagInv
<1>5. CASE Output
  <2>1. UNCHANGED <<file, cpc, host_connected, hport, hconn, hguest, cfd, ctl>>
    BY <1>5, Zenon DEF Output, HostDiscard, HostOutput, HostPop, HostServe, HostRefuse, HostPush,
       HostNotify
  <2>2. irqIn' \in BOOLEAN /\ irqOut' \in BOOLEAN
    BY <1>5, Zenon DEF Output, HostDiscard, HostOutput, HostPop, HostServe, HostRefuse, HostPush,
       HostNotify, discard_vq_data, FlagInv
  <2>3. hpc' \in {"idle", "loop", "exec", "push"}
    BY <1>5, Zenon DEF Output, HostDiscard, HostOutput, HostPop, HostServe, HostRefuse, HostPush,
       HostNotify, FlagInv
  <2>4. QED BY <2>1, <2>2, <2>3, Zenon DEF FlagInv
<1>6. CASE HostClose \/ HostOpen \/ HostUnplug
  <2>1. Len(ctl') <= CtlBufs
    BY <1>6, SendControlFits, Zenon DEF HostClose, HostOpen, HostUnplug
  <2>2. QED BY <1>6, <2>1, Zenon DEF HostClose, HostOpen, HostUnplug, discard_vq_data, FlagInv
<1>7. CASE UNCHANGED vars
  BY <1>7 DEF vars, FlagInv
<1>8. QED BY <1>1, <1>2, <1>3, <1>4, <1>5, <1>6, <1>7, Zenon DEF Next

----------------------------------------------------------------------------
(* The calls.                                                              *)

\* The requests that are built and not yet given back.
Built == Range(cell) \cup Range(oavail) \cup {elem}

\* A step that builds no request keeps CallInv.
LEMMA CallSame ==
  ASSUME CallInv, UNCHANGED <<content, call, ncalls, executed>>, Built' \subseteq Built \cup {NoCell},
         \A t \in Tasks : pc'[t] # "idle" => pc[t] # "idle"
  PROVE  CallInv'
  BY Zenon DEF CallInv, Built

\* A task leaves an ioctl, or goes on.
LEMMA ReturnFacts ==
  ASSUME IInv, NEW t \in Tasks, Return(t)
  PROVE  /\ Range(cell') \subseteq Range(cell) \cup {NoCell}
         /\ \A u \in Tasks : pc'[u] = IF u = t THEN "idle" ELSE pc[u]
<1>1. cell \in [Tasks -> Cells \cup {NoCell}] /\ pc \in [Tasks -> TaskPCs]
  BY Zenon DEF IInv, TypeInv
<1>2. cell' = [cell EXCEPT ![t] = NoCell] /\ pc' = [pc EXCEPT ![t] = "idle"]
  BY Zenon DEF Return, Goto
<1>3. DOMAIN cell' = Tasks /\ \A u \in Tasks : cell'[u] \in {cell[u], NoCell}
  BY <1>1, <1>2, Zenon
<1>4. \A u \in Tasks : pc'[u] = IF u = t THEN "idle" ELSE pc[u]
  BY <1>1, <1>2, Zenon
<1>5. QED BY <1>1, <1>3, <1>4, Zenon DEF Range

\* Goto moves one task.
LEMMA GotoFacts ==
  ASSUME IInv, NEW t \in Tasks, NEW l, Goto(t, l)
  PROVE  \A u \in Tasks : pc'[u] = IF u = t THEN l ELSE pc[u]
  BY Zenon DEF IInv, TypeInv, Goto

\* A request joins the out queue.
LEMMA AppendCell ==
  ASSUME NEW q \in Seq(Cells), NEW c \in Cells
  PROVE  Range(Append(q, c)) = Range(q) \cup {c}
  BY AppendFacts

\* The steps of an ioctl keep the calls and the requests;
LEMMA IoctlCalls ==
  ASSUME IInv, CallInv, NEW t \in setting.users, IoctlStart(t) \/ Ioctl(t) \/ Signal(t)
  PROVE  CallInv'
<1> USE DEF host, ovq, task
<1>t. t \in Tasks
  BY SettingsKnown, Zenon DEF IInv, TypeInv
<1>T. /\ oavail \in Seq(Cells) /\ cell \in [Tasks -> Cells \cup {NoCell}] /\ pc \in [Tasks -> TaskPCs]
      /\ ncalls \in 0 .. MaxCalls /\ MaxCalls \in Nat /\ heap \subseteq Cells
  BY SizesPositive, Zenon DEF IInv, TypeInv, CallInv
<1>1. CASE IoctlStart(t)
  <2>1. ncalls + 1 \in Calls /\ ncalls + 1 \in 0 .. MaxCalls
    BY <1>1, <1>T DEF IoctlStart, Calls
  <2>2. /\ UNCHANGED <<content, executed, cell, oavail, elem>> /\ ncalls' = ncalls + 1
        /\ call' = [call EXCEPT ![t] = ncalls + 1]
    BY <1>1, Zenon DEF IoctlStart
  <2>3. call' \in [Tasks -> Calls \cup {NoCall}] /\ \A u \in Tasks : pc'[u] # "idle" => call'[u] \in Calls
    BY <1>1, <1>t, <2>1, <2>2, GotoFacts, Zenon DEF CallInv, IoctlStart
  <2>4. QED BY <2>1, <2>2, <2>3, Zenon DEF CallInv
<1>2. CASE WriteReady(t) \/ WriteBlocked(t) \/ IoctlRefused(t) \/ IoctlUnknown(t)
  <2>1. UNCHANGED <<content, call, ncalls, executed, cell, oavail, elem>>
    BY <1>2, Zenon DEF WriteReady, WriteBlocked, IoctlRefused, IoctlUnknown,
         reclaim_consumed_buffers
  <2>2. \A u \in Tasks : pc'[u] # "idle" => pc[u] # "idle"
    BY <1>2, <1>t, GotoFacts, Zenon DEF WriteReady, WriteBlocked, IoctlRefused, IoctlUnknown
  <2>3. QED BY <2>1, <2>2, CallSame, Zenon DEF Built
<1>3. CASE IoctlBuild(t)
  <2>1. PICK c \in Cells \ heap : cell' = [cell EXCEPT ![t] = c] /\ content' = [content EXCEPT ![c] = call[t]]
    BY <1>3, Zenon DEF IoctlBuild
  <2>2. UNCHANGED <<call, ncalls, executed, oavail, elem>> /\ call[t] \in Calls
    BY <1>3, <1>t, Zenon DEF IoctlBuild, CallInv
  <2>3. \A u \in Tasks : pc'[u] # "idle" => pc[u] # "idle"
    BY <1>3, <1>t, GotoFacts, Zenon DEF IoctlBuild
  <2>4. Range(cell') \subseteq Range(cell) \cup {c}
    BY <1>t, <1>T, <2>1, Zenon DEF Range
  <2>5. content' \in [Cells -> Calls \cup {NoCall}] /\ content'[c] \in Calls
    BY <2>1, <2>2, Zenon DEF CallInv
  <2>6. \A d \in Cells : d # c => content'[d] = content[d]
    BY <2>1, Zenon DEF CallInv
  <2>7. Built \subseteq Cells \cup {NoCell}
    BY <1>T, RangeFacts DEF Built, Range, IInv, TypeInv
  <2>8. \A d \in Built' : d # NoCell => content'[d] \in Calls
    BY <2>2, <2>4, <2>5, <2>6, <2>7, Zenon DEF CallInv, Built
  <2>9. QED BY <2>2, <2>3, <2>5, <2>8, Zenon DEF CallInv, Built
<1>4. CASE Send(t)
  <2>1. UNCHANGED <<content, call, ncalls, executed, cell, elem>>
    BY <1>4, Zenon DEF Send
  <2>2. \A u \in Tasks : pc'[u] # "idle" => pc[u] # "idle"
    BY <1>4, <1>t, GotoFacts, Zenon DEF Send
  <2>3. oavail' = oavail \/ oavail' = Append(oavail, cell[t])
    BY <1>4, Zenon DEF Send
  <2>4. cell[t] # NoCell /\ cell[t] \in Cells /\ cell[t] \in Range(cell)
    BY <1>4, <1>t, <1>T, Zenon DEF Send, IInv, TaskInv, Range
  <2>5. Range(oavail') \subseteq Range(oavail) \cup {cell[t]}
    <3>1. ASSUME NEW c \in Cells PROVE Range(Append(oavail, c)) = Range(oavail) \cup {c}
      BY <1>T, AppendCell, Zenon
    <3>2. QED BY <2>3, <2>4, <3>1, Zenon
  <2>6. QED BY <2>1, <2>2, <2>4, <2>5, CallSame, Zenon DEF Built
<1>5. CASE Spin(t) \/ ReadWait(t) \/ FillCopy(t) \/ FillRequeue(t)
  <2>1. UNCHANGED <<content, call, ncalls, executed, cell, oavail, elem>>
    BY <1>5, Zenon DEF Spin, ReadWait, FillCopy, FillRequeue
  <2>2. \A u \in Tasks : pc'[u] # "idle" => pc[u] # "idle"
    BY <1>5, <1>t, GotoFacts, Zenon DEF Spin, ReadWait, FillCopy, FillRequeue
  <2>3. QED BY <2>1, <2>2, CallSame, Zenon DEF Built
<1>6. CASE ReadCheck(t) \/ ReplyCheck(t) \/ IoctlDone(t) \/ Signal(t)
  <2>1. UNCHANGED <<content, call, ncalls, executed, oavail, elem>>
    BY <1>6, Zenon DEF ReadCheck, ReplyCheck, IoctlDone, Signal
  <2>2. \A u \in Tasks : pc'[u] # "idle" => pc[u] # "idle"
    BY <1>6, <1>t, GotoFacts, ReturnFacts, Zenon DEF ReadCheck, ReplyCheck, IoctlDone, Signal
  <2>3. Range(cell') \subseteq Range(cell) \cup {NoCell}
    BY <1>6, <1>t, ReturnFacts, Zenon DEF ReadCheck, ReplyCheck, IoctlDone, Signal
  <2>4. QED BY <2>1, <2>2, <2>3, CallSame, Zenon DEF Built
<1>7. QED BY <1>1, <1>2, <1>3, <1>4, <1>5, <1>6, Zenon DEF Ioctl

\* and so do all the others.
LEMMA CallKeeps ==
  ASSUME IInv, CallInv, [Next]_vars
  PROVE  CallInv'
<1> USE DEF host, ovq, task
<1>T. oavail \in Seq(Cells) /\ pc \in [Tasks -> TaskPCs]
  BY Zenon DEF IInv, TypeInv
<1>1. CASE \E t \in setting.users : IoctlStart(t) \/ Ioctl(t) \/ Signal(t)
  BY <1>1, IoctlCalls, Zenon
<1>2. CASE PollRead \/ PollWrite \/ Interrupt \/ OpenRelease \/ Control
  <2>1. UNCHANGED <<content, call, ncalls, executed, cell, oavail, elem>>
    BY <1>2, Zenon DEF PollRead, PollWrite, Interrupt, in_intr, out_intr, OpenRelease,
         OpenFind, OpenConnect, OpenReclaim, OpenNotify, ReleaseNotify, ReleaseDiscard,
         ReleaseReclaim, Control, CtlPortOpen, CtlReclaim, CtlPortRemove, UnplugDiscard,
         UnplugReclaim, UnplugDetach, reclaim_consumed_buffers, SendPortOpen
  <2>2. Wake \/ UNCHANGED pc
    BY <1>2, Zenon DEF PollRead, PollWrite, Interrupt, in_intr, out_intr, OpenRelease,
         OpenFind, OpenConnect, OpenReclaim, OpenNotify, ReleaseNotify, ReleaseDiscard,
         ReleaseReclaim, Control, CtlPortOpen, CtlReclaim, CtlPortRemove, UnplugDiscard,
         UnplugReclaim, UnplugDetach
  <2>3. \A u \in Tasks : pc'[u] # "idle" => pc[u] # "idle"
    BY <1>T, <2>2, WakeFacts, Zenon DEF Awake
  <2>4. QED BY <2>1, <2>3, CallSame, Zenon DEF Built
<1>3. CASE HostDiscard \/ HostClose \/ HostUnplug
  <2>1. UNCHANGED <<content, call, ncalls, executed, cell, elem, pc>> /\ oavail' = <<>>
    BY <1>3, Zenon DEF HostDiscard, HostClose, HostUnplug, discard_vq_data
  <2>2. Range(oavail') = {}
    BY <2>1 DEF Range
  <2>3. QED BY <2>1, <2>2, CallSame, Zenon DEF Built
<1>4. CASE HostPop
  <2>1. UNCHANGED <<content, call, ncalls, executed, cell, pc>>
        /\ oavail # <<>> /\ elem' = Head(oavail) /\ oavail' = Tail(oavail)
    BY <1>4, Zenon DEF HostPop
  <2>2. elem' \in Range(oavail) /\ Range(oavail') \subseteq Range(oavail)
    BY <1>T, <2>1, TailFacts, Zenon
  <2>3. QED BY <2>1, <2>2, CallSame, Zenon DEF Built
<1>5. CASE HostServe \/ HostRefuse
  <2>1. UNCHANGED <<content, call, ncalls, cell, oavail, elem, pc>>
    BY <1>5, Zenon DEF HostServe, HostRefuse
  <2>2. executed' \in [Calls -> {"no", "ok", "refused"}]
    BY <1>5, Zenon DEF HostServe, HostRefuse, CallInv
  <2>3. QED BY <2>1, <2>2, Zenon DEF CallInv
<1>6. CASE HostOutput \/ HostPush \/ HostNotify \/ HostOpen
  <2>1. UNCHANGED <<content, call, ncalls, executed, cell, oavail, pc>> /\ elem' \in {elem, NoCell}
    BY <1>6, Zenon DEF HostOutput, HostPush, HostNotify, HostOpen
  <2>2. QED BY <2>1, CallSame, Zenon DEF Built
<1>7. CASE UNCHANGED vars
  BY <1>7, CallSame, Zenon DEF vars, Built
<1>8. QED BY <1>1, <1>2, <1>3, <1>4, <1>5, <1>6, <1>7, Zenon DEF Next, Output

----------------------------------------------------------------------------
(* The in queue.                                                           *)

\* What port_has_data and fill_readbuf take.
LEMMA GetFacts ==
  ASSUME InInv
  PROVE  /\ get_inbuf \in Chunk \cup {NoChunk} /\ NoChunk \notin Chunk
         /\ port_has_data <=> inbuf # NoChunk \/ iused # <<>>
         /\ iused # <<>> => Head(iused) \in Chunk /\ Tail(iused) \in Seq(Chunk)
<1>1. NoChunk \notin Chunk
  BY NoneFresh, Zenon DEF NoChunk, Chunk
<1>2. iused # <<>> => Head(iused) \in Chunk /\ Tail(iused) \in Seq(Chunk)
  BY TailFacts, Zenon DEF InInv
<1>3. get_inbuf \in Chunk \cup {NoChunk} /\ (port_has_data <=> inbuf # NoChunk \/ iused # <<>>)
  BY <1>1, <1>2, Zenon DEF get_inbuf, port_has_data, InInv
<1>4. QED BY <1>1, <1>2, <1>3, Zenon

\* The parts of a filled buffer, and the buffer after it was read.
LEMMA ChunkFacts ==
  ASSUME NEW x \in Chunk
  PROVE  x.buf \in InBufs /\ x.call \in Calls /\ [x EXCEPT !.unread = FALSE] \in Chunk
         /\ [x EXCEPT !.unread = FALSE].buf = x.buf
  BY Zenon DEF Chunk

\* get_inbuf takes a buffer of the in queue.
LEMMA TakeType ==
  ASSUME InInv, TakeInbuf
  PROVE  inbuf' \in Chunk \cup {NoChunk} /\ iused' \in Seq(Chunk) /\ iavail' \in Seq(InBufs)
  BY GetFacts, Zenon DEF InInv, TakeInbuf

\* The buffers of filled chunks.
Bufs(q) == [k \in DOMAIN q |-> q[k].buf]

\* They are in-buffers.
LEMMA BufsType ==
  ASSUME NEW q \in Seq(Chunk)
  PROVE  Bufs(q) \in Seq(InBufs) /\ Len(Bufs(q)) = Len(q) /\ \A k \in 1 .. Len(q) : Bufs(q)[k] = q[k].buf
<1>1. DOMAIN q = 1 .. Len(q) /\ Len(q) \in Nat /\ \A k \in 1 .. Len(q) : q[k] \in Chunk
  OBVIOUS
<1>2. \A x \in Chunk : x.buf \in InBufs
  BY Zenon DEF Chunk
<1>3. Bufs(q) = [k \in 1 .. Len(q) |-> q[k].buf]
  BY <1>1, Zenon DEF Bufs
<1>4. QED BY <1>1, <1>2, <1>3

\* The buffer that is being read.
Current == IF inbuf = NoChunk THEN <<>> ELSE <<inbuf.buf>>

\* It is an in-buffer.
LEMMA CurrentType ==
  ASSUME InInv
  PROVE  Current \in Seq(InBufs) /\ (inbuf # NoChunk => inbuf.buf \in InBufs)
<1>1. inbuf # NoChunk => inbuf.buf \in InBufs
  BY Zenon DEF InInv, Chunk
<1>2. CASE inbuf = NoChunk
  BY <1>2 DEF Current
<1>3. CASE inbuf # NoChunk
  <2>1. Current = <<inbuf.buf>>
    BY <1>3, Zenon DEF Current
  <2>2. QED BY <1>1, <1>3, <2>1
<1>4. QED BY <1>1, <1>2, <1>3, Zenon

\* discard_port_data posts in-buffers.
LEMMA DiscardType ==
  ASSUME InInv, discard_port_data
  PROVE  inbuf' \in Chunk \cup {NoChunk} /\ iused' \in Seq(Chunk) /\ iavail' \in Seq(InBufs)
<1>1. CASE ~portdev
  BY <1>1, Zenon DEF discard_port_data, InInv, ivq
<1>2. CASE portdev
  <2>1. iavail' = iavail \o Current \o Bufs(iused) /\ iused' = <<>> /\ inbuf' = NoChunk
    BY <1>2, Zenon DEF discard_port_data, Current, Bufs
  <2>2. Current \in Seq(InBufs) /\ Bufs(iused) \in Seq(InBufs) /\ iavail \in Seq(InBufs)
    BY CurrentType, BufsType, Zenon DEF InInv
  <2>3. iavail' \in Seq(InBufs) /\ iused' \in Seq(Chunk)
    BY <2>1, <2>2
  <2>4. QED BY <2>1, <2>3, Zenon
<1>3. QED BY <1>1, <1>2, Zenon

\* write_to_port takes the first buffers that are posted.
LEMMA AnswerFacts ==
  ASSUME InInv, NEW n \in Calls
  PROVE  /\ Answer(n) \in Seq(Chunk) /\ Len(Answer(n)) = Min2(Pages, Len(iavail))
         /\ Len(Answer(n)) <= Len(iavail)
         /\ Bufs(Answer(n)) = SubSeq(iavail, 1, Len(Answer(n)))
         /\ SubSeq(iavail, Len(Answer(n)) + 1, Len(iavail)) \in Seq(InBufs)
<1> DEFINE k == Min2(Pages, Len(iavail))
<1>1. /\ iavail \in Seq(InBufs) /\ Len(iavail) \in Nat /\ k \in Nat /\ k <= Len(iavail) /\ k <= Pages
      /\ Pages \in Nat
  BY SizesPositive DEF InInv, Min2
<1>2. Answer(n) = [p \in 1 .. k |-> [buf |-> iavail[p], call |-> n, page |-> p, unread |-> TRUE]]
  BY Zenon DEF Answer
<1> HIDE DEF k
<1>3. \A p \in 1 .. k : iavail[p] \in InBufs /\ p \in 1 .. Pages
  BY <1>1
<1>4. \A p \in 1 .. k : [buf |-> iavail[p], call |-> n, page |-> p, unread |-> TRUE] \in Chunk
  BY <1>3, Zenon DEF Chunk
<1>5. Answer(n) \in Seq(Chunk) /\ Len(Answer(n)) = k
  BY <1>1, <1>2, <1>4
<1>6. DOMAIN Answer(n) = 1 .. k /\ \A p \in 1 .. k : Answer(n)[p].buf = iavail[p]
  BY <1>2
<1>7. Bufs(Answer(n)) = [p \in 1 .. k |-> iavail[p]]
  BY <1>6, Zenon DEF Bufs
<1>8. SubSeq(iavail, 1, k) = [p \in 1 .. k |-> iavail[p]]
  BY <1>1
<1>9. SubSeq(iavail, k + 1, Len(iavail)) \in Seq(InBufs)
  BY <1>1
<1>10. QED BY <1>1, <1>5, <1>7, <1>8, <1>9, Zenon DEF k

\* The request that QEMU serves is a call's.
LEMMA ServedCall ==
  ASSUME IInv, CallInv, hpc = "exec"
  PROVE  elem \in Cells /\ content[elem] \in Calls
  BY Zenon DEF IInv, TypeInv, HostInv, CallInv

\* A step that keeps the types of the in queue, and sends nobody to post a buffer
\* again, keeps InInv.
LEMMA InSame ==
  ASSUME InInv, UNCHANGED <<got, rbuf>>, \A t \in Tasks : pc'[t] = "requeue" => pc[t] = "requeue",
         inbuf' \in Chunk \cup {NoChunk}, iused' \in Seq(Chunk), iavail' \in Seq(InBufs)
  PROVE  InInv'
  BY Zenon DEF InInv

\* The steps of an ioctl keep the types of the in queue;
LEMMA IoctlIns ==
  ASSUME IInv, CallInv, InInv, NEW t \in setting.users, IoctlStart(t) \/ Ioctl(t) \/ Signal(t)
  PROVE  InInv'
<1> USE DEF ivq, task
<1>t. t \in Tasks
  BY SettingsKnown, Zenon DEF IInv, TypeInv
<1>T. pc \in [Tasks -> TaskPCs] /\ inbuf \in Chunk \cup {NoChunk} /\ iused \in Seq(Chunk) /\ iavail \in Seq(InBufs)
  BY Zenon DEF IInv, TypeInv, InInv
<1>r. "idle" # "requeue"
  OBVIOUS
<1>1. CASE IoctlStart(t)
  <2>1. \A u \in Tasks : pc'[u] = "requeue" => pc[u] = "requeue"
    BY <1>1, <1>t, GotoFacts DEF IoctlStart
  <2>2. UNCHANGED <<rbuf, inbuf, iused, iavail>> /\ got' = [got EXCEPT ![t] = NoCall]
    BY <1>1, Zenon DEF IoctlStart
  <2>3. QED BY <2>1, <2>2, Zenon DEF InInv
<1>2. CASE WriteReady(t) \/ WriteBlocked(t) \/ IoctlRefused(t) \/ IoctlBuild(t) \/ IoctlUnknown(t) \/ Send(t)
           \/ Spin(t) \/ IoctlDone(t) \/ Signal(t)
  <2>1. \A u \in Tasks : pc'[u] = "requeue" => pc[u] = "requeue"
    <3>1. Return(t) \/ \E l \in {"idle", "ready", "writeSleep", "send", "spin", "read"} : Goto(t, l)
      BY <1>2, Zenon DEF WriteReady, WriteBlocked, IoctlRefused, IoctlBuild, IoctlUnknown, Send,
         Spin, IoctlDone, Signal
    <3>2. \A l \in {"idle", "ready", "writeSleep", "send", "spin", "read"} : l # "requeue"
      OBVIOUS
    <3>3. QED BY <1>t, <3>1, <3>2, <1>r, GotoFacts, ReturnFacts, Zenon
  <2>2. UNCHANGED <<got, rbuf, inbuf, iused, iavail>>
    BY <1>2, Zenon DEF WriteReady, WriteBlocked, IoctlRefused, IoctlBuild, IoctlUnknown, Send,
         Spin, IoctlDone, Signal
  <2>3. QED BY <2>1, <2>2, <1>T, InSame, Zenon
<1>3. CASE ReadCheck(t) \/ ReadWait(t) \/ ReplyCheck(t)
  <2>1. \A u \in Tasks : pc'[u] = "requeue" => pc[u] = "requeue"
    <3>1. Return(t) \/ \E l \in {"reply", "readWait", "readSleep", "fill"} : Goto(t, l)
      BY <1>3, Zenon DEF ReadCheck, ReadWait, ReplyCheck
    <3>2. \A l \in {"reply", "readWait", "readSleep", "fill"} : l # "requeue"
      OBVIOUS
    <3>3. QED BY <1>t, <3>1, <3>2, <1>r, GotoFacts, ReturnFacts, Zenon
  <2>2. UNCHANGED <<got, rbuf>> /\ (TakeInbuf \/ UNCHANGED ivq)
    BY <1>3, Zenon DEF ReadCheck, ReadWait, ReplyCheck
  <2>3. inbuf' \in Chunk \cup {NoChunk} /\ iused' \in Seq(Chunk) /\ iavail' \in Seq(InBufs)
    BY <1>T, <2>2, TakeType, Zenon
  <2>4. QED BY <2>1, <2>2, <2>3, InSame, Zenon
<1>4. CASE FillCopy(t)
  <2>1. CASE ~port_has_data
    <3>1. UNCHANGED <<got, rbuf, inbuf, iused, iavail>> /\ \A u \in Tasks : pc'[u] = "requeue" => pc[u] = "requeue"
      BY <1>4, <2>1, <1>t, GotoFacts DEF FillCopy
    <3>2. QED BY <3>1, <1>T, InSame, Zenon
  <2>2. CASE port_has_data
    <3>1. get_inbuf \in Chunk
      BY <2>2, GetFacts, Zenon DEF port_has_data
    <3>2. get_inbuf.buf \in InBufs /\ get_inbuf.call \in Calls /\ [get_inbuf EXCEPT !.unread = FALSE] \in Chunk
      BY <3>1, ChunkFacts, Zenon
    <3>3. /\ rbuf' = [rbuf EXCEPT ![t] = get_inbuf.buf]
          /\ got' = [got EXCEPT ![t] = IF get_inbuf.unread THEN get_inbuf.call ELSE NoCall]
          /\ inbuf' = [get_inbuf EXCEPT !.unread = FALSE] /\ iavail' = iavail
          /\ iused' = IF inbuf = NoChunk THEN Tail(iused) ELSE iused
          /\ \A u \in Tasks : u # t => pc'[u] = pc[u]
      BY <1>4, <2>2, <1>t, GotoFacts, Zenon DEF FillCopy
    <3>4. iused' \in Seq(Chunk)
      BY <1>T, <2>2, <3>3, GetFacts, Zenon
    <3>5. got' \in [Tasks -> Calls \cup {NoCall}]
      BY <3>2, <3>3, Zenon DEF InInv
    <3>6. rbuf' \in [Tasks -> InBufs \cup {NoBuf}] /\ \A u \in Tasks : pc'[u] = "requeue" => rbuf'[u] \in InBufs
      BY <1>t, <3>2, <3>3, Zenon DEF InInv
    <3>7. QED BY <1>T, <3>2, <3>3, <3>4, <3>5, <3>6, Zenon DEF InInv
  <2>3. QED BY <2>1, <2>2, Zenon
<1>5. CASE FillRequeue(t)
  <2>1. /\ rbuf' = [rbuf EXCEPT ![t] = NoBuf] /\ inbuf' = NoChunk /\ iused' = iused /\ got' = got
        /\ iavail' = Append(iavail, rbuf[t]) \/ iavail' = iavail
        /\ rbuf[t] \in InBufs
    BY <1>5, <1>t, Zenon DEF FillRequeue, InInv
  <2>2. \A u \in Tasks : pc'[u] = IF u = t THEN "copy" ELSE pc[u]
    BY <1>5, <1>t, GotoFacts, Zenon DEF FillRequeue
  <2>3. rbuf' \in [Tasks -> InBufs \cup {NoBuf}] /\ \A u \in Tasks : pc'[u] = "requeue" => rbuf'[u] \in InBufs
    BY <1>t, <2>1, <2>2, Zenon DEF InInv
  <2>4. iavail' \in Seq(InBufs)
    <3>1. Append(iavail, rbuf[t]) \in Seq(InBufs)
      BY <1>T, <2>1, AppendFacts, Zenon
    <3>2. QED BY <1>T, <2>1, <3>1, Zenon
  <2>5. QED BY <1>T, <2>1, <2>3, <2>4, Zenon DEF InInv
<1>6. QED BY <1>1, <1>2, <1>3, <1>4, <1>5, Zenon DEF Ioctl

\* and so do all the others.
LEMMA InKeeps ==
  ASSUME IInv, CallInv, InInv, [Next]_vars
  PROVE  InInv'
<1> USE DEF ivq, task
<1>T. pc \in [Tasks -> TaskPCs] /\ inbuf \in Chunk \cup {NoChunk} /\ iused \in Seq(Chunk) /\ iavail \in Seq(InBufs)
  BY Zenon DEF IInv, TypeInv, InInv
<1>1. CASE \E t \in setting.users : IoctlStart(t) \/ Ioctl(t) \/ Signal(t)
  BY <1>1, IoctlIns, Zenon
<1>2. CASE PollRead \/ PollWrite \/ Interrupt \/ OpenRelease \/ Control
  <2>1. UNCHANGED <<got, rbuf>> /\ (Wake \/ UNCHANGED pc)
    BY <1>2, Zenon DEF PollRead, PollWrite, Interrupt, in_intr, out_intr, OpenRelease,
         OpenFind, OpenConnect, OpenReclaim, OpenNotify, ReleaseNotify, ReleaseDiscard,
         ReleaseReclaim, Control, CtlPortOpen, CtlReclaim, CtlPortRemove, UnplugDiscard,
         UnplugReclaim, UnplugDetach
  <2>2. \/ TakeInbuf \/ discard_port_data \/ UNCHANGED <<inbuf, iused, iavail>>
        \/ UNCHANGED <<inbuf, iused>> /\ iavail' = <<>>
    BY <1>2, Zenon DEF PollRead, PollWrite, Interrupt, in_intr, out_intr, OpenRelease,
         OpenFind, OpenConnect, OpenReclaim, OpenNotify, ReleaseNotify, ReleaseDiscard,
         ReleaseReclaim, Control, CtlPortOpen, CtlReclaim, CtlPortRemove, UnplugDiscard,
         UnplugReclaim, UnplugDetach
  <2>3. \A u \in Tasks : pc'[u] = "requeue" => pc[u] = "requeue"
    BY <1>T, <2>1, WakeFacts, Zenon DEF Awake
  <2>4. <<>> \in Seq(InBufs)
    OBVIOUS
  <2>5. inbuf' \in Chunk \cup {NoChunk} /\ iused' \in Seq(Chunk) /\ iavail' \in Seq(InBufs)
    BY <1>T, <2>2, <2>4, TakeType, DiscardType, Zenon
  <2>6. QED BY <2>1, <2>3, <2>5, InSame, Zenon
<1>3. CASE HostServe
  <2>1. UNCHANGED <<got, rbuf, pc, inbuf>>
    BY <1>3, Zenon DEF HostServe
  <2>2. content[elem] \in Calls
    BY <1>3, ServedCall, Zenon DEF HostServe
  <2>3. PICK a : a = Answer(content[elem])
    BY Zenon
  <2>4. \/ UNCHANGED <<iused, iavail>>
        \/ iused' = iused \o a /\ iavail' = SubSeq(iavail, Len(a) + 1, Len(iavail))
    BY <1>3, <2>3, Zenon DEF HostServe
  <2>5. a \in Seq(Chunk) /\ SubSeq(iavail, Len(a) + 1, Len(iavail)) \in Seq(InBufs)
    BY <2>2, <2>3, AnswerFacts, Zenon
  <2>6. iused' \in Seq(Chunk) /\ iavail' \in Seq(InBufs)
    <3>1. iused \o a \in Seq(Chunk)
      BY <1>T, <2>5
    <3>2. QED BY <1>T, <2>4, <2>5, <3>1, Zenon
  <2>7. QED BY <1>T, <2>1, <2>6, InSame, Zenon
<1>4. CASE HostDiscard \/ HostOutput \/ HostPop \/ HostRefuse \/ HostPush \/ HostNotify \/ HostClose
           \/ HostOpen \/ HostUnplug
  <2>1. UNCHANGED <<got, rbuf, pc, inbuf, iused, iavail>>
    BY <1>4, Zenon DEF HostDiscard, HostOutput, HostPop, HostRefuse, HostPush, HostNotify,
         HostClose, HostOpen, HostUnplug
  <2>2. QED BY <1>T, <2>1, InSame, Zenon
<1>5. CASE UNCHANGED vars
  <2>1. UNCHANGED <<got, rbuf, pc, inbuf, iused, iavail>>
    BY <1>5, Zenon DEF vars
  <2>2. QED BY <1>T, <2>1, InSame, Zenon
<1>6. QED BY <1>1, <1>2, <1>3, <1>4, <1>5, Zenon DEF Next, Output

\* Every step keeps the file that is open connected, while the port is listed.
LEMMA OpenKeeps ==
  ASSUME IInv, OpenInv, [Next]_vars
  PROVE  OpenInv'
<1> USE DEF guest, host
<1>1. CASE \E t \in setting.users : IoctlStart(t) \/ Ioctl(t) \/ Signal(t)
  <2>1. UNCHANGED <<file, guest_connected, portdev, cpc>>
    BY <1>1, Zenon DEF IoctlStart, Ioctl, Signal, WriteReady, WriteBlocked, IoctlRefused,
         IoctlBuild, IoctlUnknown, Send, Spin, ReadCheck, ReadWait, ReplyCheck, FillCopy,
         FillRequeue, IoctlDone
  <2>2. QED BY <2>1, Zenon DEF OpenInv, Listed
<1>2. CASE PollRead \/ PollWrite \/ Interrupt
  <2>1. UNCHANGED <<file, guest_connected, portdev, cpc>>
    BY <1>2, Zenon DEF PollRead, PollWrite, Interrupt, in_intr, out_intr
  <2>2. QED BY <2>1, Zenon DEF OpenInv, Listed
<1>3. CASE OpenRelease
  BY <1>3, Zenon DEF OpenRelease, OpenFind, OpenConnect, OpenReclaim, OpenNotify, ReleaseNotify,
     ReleaseDiscard, ReleaseReclaim, OpenInv, Listed
<1>4. CASE Control
  BY <1>4, Zenon DEF Control, CtlPortOpen, CtlReclaim, CtlPortRemove, UnplugDiscard,
       UnplugReclaim, UnplugDetach, TakeControl, OpenInv, Listed
<1>5. CASE Output \/ HostClose \/ HostOpen \/ HostUnplug
  <2>1. UNCHANGED <<file, guest_connected, portdev, cpc>>
    BY <1>5, Zenon DEF Output, HostDiscard, HostOutput, HostPop, HostServe, HostRefuse,
         HostPush, HostNotify, HostClose, HostOpen, HostUnplug
  <2>2. QED BY <2>1, Zenon DEF OpenInv, Listed
<1>6. CASE UNCHANGED vars
  BY <1>6, Zenon DEF vars, OpenInv, Listed
<1>7. QED BY <1>1, <1>2, <1>3, <1>4, <1>5, <1>6, Zenon DEF Next

----------------------------------------------------------------------------
(* Those who sleep.                                                        *)

\* A file that blocks has one request on the queue at most.
LEMMA NeverFull ==
  ASSUME IInv, ~setting.nonblock
  PROVE  ~outvq_full
<1>1. Total \in {0, 1}
  <2>1. CASE NoneQueued
    BY <2>1 DEF NoneQueued, Total, InFlight
  <2>2. CASE OneQueued(cell[olock]) /\ cell[olock] \in heap
    <3>1. cell[olock] # NoCell
      BY <2>2, NoneFresh, Zenon DEF IInv, TypeInv
    <3>2. CASE oavail = <<cell[olock]>> /\ elem = NoCell /\ oused = <<>>
      BY <3>2, SingleFacts DEF Total, InFlight
    <3>3. CASE oavail = <<>> /\ elem = cell[olock] /\ oused = <<>>
      BY <3>1, <3>3 DEF Total, InFlight
    <3>4. CASE oavail = <<>> /\ elem = NoCell /\ oused = <<cell[olock]>>
      BY <3>4, SingleFacts DEF Total, InFlight
    <3>5. QED BY <2>2, <3>2, <3>3, <3>4, Zenon DEF OneQueued
  <2>3. QED BY <2>1, <2>2, Zenon DEF IInv, BlockInv
<1>2. QED BY <1>1, SizesPositive, Zenon DEF IInv, FullInv

\* Nothing to read.
NoData == inbuf = NoChunk /\ iused = <<>>

\* A step that lets nobody fall asleep without a reason, takes no reason away and
\* loses no interrupt.
LEMMA SleepSame ==
  ASSUME InInv, InInv', SleepInv, UNCHANGED <<guest_connected, host_connected, setting>>,
         NoData => NoData' \/ Due', Due => Due',
         \A t \in Tasks : pc'[t] \in {"readSleep", "writeSleep"} => pc'[t] = pc[t]
  PROVE  SleepInv'
<1>1. port_has_data <=> ~NoData
  BY GetFacts, Zenon DEF NoData
<1>2. port_has_data' <=> ~NoData'
  <2>1. iused' # <<>> => Head(iused') \in Chunk
    BY TailFacts, Zenon DEF InInv
  <2>2. NoChunk \notin Chunk
    BY NoneFresh, Zenon DEF NoChunk, Chunk
  <2>3. QED BY <2>1, <2>2, Zenon DEF port_has_data, get_inbuf, NoData
<1>3. SUFFICES ASSUME NEW t \in Tasks
               PROVE  /\ pc'[t] = "readSleep" => will_read_block' \/ Due'
                      /\ pc'[t] = "writeSleep" => guest_connected' /\ ~host_connected' /\ ~setting'.nonblock
  BY Zenon DEF SleepInv
<1>4. pc'[t] = "readSleep" => will_read_block \/ Due
  BY Zenon DEF SleepInv
<1>5. pc'[t] = "readSleep" => will_read_block' \/ Due'
  BY <1>1, <1>2, <1>4, Zenon DEF will_read_block
<1>6. pc'[t] = "writeSleep" => guest_connected /\ ~host_connected /\ ~setting.nonblock
  BY Zenon DEF SleepInv
<1>7. QED BY <1>5, <1>6, Zenon

\* wake_up_interruptible leaves nobody asleep.
LEMMA WakeAll ==
  ASSUME pc \in [Tasks -> TaskPCs], Wake \/ (UNCHANGED pc /\ \A t \in Tasks : pc[t] = "idle")
  PROVE  /\ SleepInv'
         /\ \A t \in Tasks : pc'[t] \notin {"readSleep", "writeSleep"}
<1>1. \A t \in Tasks : pc'[t] \notin {"readSleep", "writeSleep"}
  BY Zenon DEF Wake
<1>2. QED BY <1>1, Zenon DEF SleepInv

\* get_inbuf and discard_port_data find nothing where there is nothing.
LEMMA TakeNone ==
  ASSUME TakeInbuf \/ discard_port_data, NoData, InInv
  PROVE  NoData'
<1>1. CASE TakeInbuf
  BY <1>1, Zenon DEF TakeInbuf, get_inbuf, NoData
<1>2. CASE discard_port_data
  BY <1>2, Zenon DEF discard_port_data, NoData, ivq
<1>3. QED BY <1>1, <1>2, Zenon

\* In an ioctl a task falls asleep for a reason, and takes away the data only when
\* it is awake;
LEMMA IoctlSleep ==
  ASSUME IInv, InInv, InInv', SleepInv, NEW t \in setting.users, IoctlStart(t) \/ Ioctl(t) \/ Signal(t)
  PROVE  SleepInv'
<1> USE DEF guest, host, ivq
<1>t. t \in Tasks
  BY SettingsKnown, Zenon DEF IInv, TypeInv
<1>1. UNCHANGED <<guest_connected, host_connected, setting>> /\ UNCHANGED <<portdev, cpc, irqIn, irqOut, hpc>>
  BY Zenon DEF IoctlStart, Ioctl, Signal, WriteReady, WriteBlocked, IoctlRefused, IoctlBuild,
       IoctlUnknown, Send, Spin, ReadCheck, ReadWait, ReplyCheck, FillCopy, FillRequeue,
       IoctlDone
<1>2. Due => Due'
  BY <1>1, Zenon DEF Due, Listed
<1>3. NoData => NoData'
  <2>1. CASE UNCHANGED <<inbuf, iused>>
    BY <2>1, Zenon DEF NoData
  <2>2. CASE TakeInbuf
    BY <2>2, TakeNone, Zenon
  <2>3. CASE FillCopy(t)
    BY <2>3, GetFacts, Zenon DEF FillCopy, NoData
  <2>4. CASE FillRequeue(t)
    BY <2>4, Zenon DEF FillRequeue, NoData
  <2>5. QED BY <2>1, <2>2, <2>3, <2>4, Zenon DEF IoctlStart, Ioctl, Signal, WriteReady,
                 WriteBlocked, IoctlRefused, IoctlBuild, IoctlUnknown, Send, Spin, ReadCheck,
                 ReadWait, ReplyCheck, IoctlDone
<1>4. CASE WriteBlocked(t)
  <2>1. \A u \in Tasks : u # t => pc'[u] = pc[u]
    BY <1>4, <1>t, GotoFacts, Zenon DEF WriteBlocked
  <2>2. pc'[t] = IF setting.nonblock THEN "idle" ELSE "writeSleep"
    BY <1>4, <1>t, GotoFacts, Zenon DEF WriteBlocked
  <2>3. CASE setting.nonblock
    BY <1>1, <1>2, <1>3, <2>1, <2>2, <2>3, SleepSame, Zenon
  <2>4. CASE ~setting.nonblock
    <3>1. guest_connected /\ ~host_connected
      BY <1>4, <2>4, NeverFull, ReclaimType, Zenon DEF WriteBlocked
    <3>2. UNCHANGED <<inbuf, iused>>
      BY <1>4, Zenon DEF WriteBlocked
    <3>3. will_read_block' = will_read_block
      BY <1>1, <3>2, Zenon DEF will_read_block, port_has_data, get_inbuf
    <3>4. \A u \in Tasks : u # t => (pc'[u] = "readSleep" => will_read_block' \/ Due')
                                   /\ (pc'[u] = "writeSleep" => guest_connected' /\ ~host_connected' /\ ~setting'.nonblock)
      BY <1>1, <1>2, <2>1, <3>3, Zenon DEF SleepInv
    <3>5. pc'[t] # "readSleep"
      BY <2>2, <2>4, Zenon
    <3>6. QED BY <1>1, <2>4, <3>1, <3>4, <3>5, Zenon DEF SleepInv
  <2>5. QED BY <2>3, <2>4, Zenon
<1>5. CASE ReadWait(t)
  <2>1. \A u \in Tasks : pc'[u] = IF u = t THEN (IF will_read_block THEN "readSleep" ELSE "reply") ELSE pc[u]
    BY <1>5, <1>t, GotoFacts, Zenon DEF ReadWait
  <2>2. CASE ~will_read_block
    <3>1. \A u \in Tasks : pc'[u] \in {"readSleep", "writeSleep"} => pc'[u] = pc[u]
      BY <2>1, <2>2, Zenon
    <3>2. QED BY <1>1, <1>2, <1>3, <3>1, SleepSame, Zenon
  <2>3. CASE will_read_block
    <3>1. NoData
      BY <2>3, GetFacts, Zenon DEF will_read_block, NoData
    <3>2. NoData'
      BY <1>3, <3>1, Zenon
    <3>3. will_read_block'
      BY <1>1, <2>3, <3>2, Zenon DEF will_read_block, port_has_data, get_inbuf, NoData
    <3>4. \A u \in Tasks : pc'[u] = "writeSleep" => pc[u] = "writeSleep"
      BY <2>1, Zenon
    <3>5. QED BY <1>1, <3>3, <3>4, Zenon DEF SleepInv
  <2>4. QED BY <2>2, <2>3, Zenon
<1>6. CASE ~WriteBlocked(t) /\ ~ReadWait(t)
  <2>1. \E l \in TaskPCs \ {"readSleep", "writeSleep"} : Goto(t, l)
    BY <1>6, Zenon DEF IoctlStart, Ioctl, Signal, WriteReady, IoctlRefused, IoctlBuild,
         IoctlUnknown, Send, Spin, ReadCheck, ReplyCheck, FillCopy, FillRequeue, IoctlDone,
         Return, TaskPCs
  <2>2. \A u \in Tasks : pc'[u] \in {"readSleep", "writeSleep"} => pc'[u] = pc[u]
    BY <1>t, <2>1, GotoFacts, Zenon
  <2>3. QED BY <1>1, <1>2, <1>3, <2>2, SleepSame, Zenon
<1>7. QED BY <1>4, <1>5, <1>6, Zenon

\* and no other step takes away a reason to be woken.
LEMMA SleepKeeps ==
  ASSUME IInv, OpenInv, InInv, InInv', SleepInv, [Next]_vars
  PROVE  SleepInv'
<1> USE DEF guest, host, ivq
<1>T. pc \in [Tasks -> TaskPCs]
  BY Zenon DEF IInv, TypeInv
<1>1. CASE \E t \in setting.users : IoctlStart(t) \/ Ioctl(t) \/ Signal(t)
  BY <1>1, IoctlSleep, Zenon
<1>2. CASE PollRead \/ PollWrite \/ CtlReclaim \/ UnplugDiscard \/ UnplugReclaim \/ UnplugDetach
  <2>1. UNCHANGED <<guest_connected, host_connected, setting, pc, irqIn, irqOut, hpc>>
    BY <1>2, Zenon DEF PollRead, PollWrite, CtlReclaim, UnplugDiscard, UnplugReclaim, UnplugDetach
  <2>2. Due => Due'
    BY <1>2, <2>1, Zenon DEF Due, Listed, PollRead, PollWrite, CtlReclaim, UnplugDiscard,
         UnplugReclaim, UnplugDetach
  <2>3. NoData => NoData'
    <3>1. CASE UNCHANGED <<inbuf, iused>>
      BY <3>1, Zenon DEF NoData
    <3>2. QED BY <1>2, <3>1, TakeNone, Zenon DEF PollRead, PollWrite, CtlReclaim,
                   UnplugDiscard, UnplugReclaim, UnplugDetach
  <2>4. QED BY <2>1, <2>2, <2>3, SleepSame, Zenon
<1>3. CASE OpenFind \/ OpenReclaim \/ OpenNotify \/ ReleaseReclaim
  <2>1. UNCHANGED <<guest_connected, host_connected, setting, pc, irqIn, irqOut, hpc, portdev, cpc, inbuf, iused>>
    BY <1>3, Zenon DEF OpenFind, OpenReclaim, OpenNotify, ReleaseReclaim, SendPortOpen
  <2>2. QED BY <2>1, SleepSame, Zenon DEF Due, Listed, NoData
<1>4. CASE OpenConnect \/ ReleaseNotify \/ ReleaseDiscard
  <2>1. UNCHANGED pc /\ \A t \in Tasks : pc[t] = "idle"
    BY <1>4, Zenon DEF OpenConnect, ReleaseNotify, ReleaseDiscard, IInv, TaskInv
  <2>2. QED BY <1>T, <2>1, WakeAll, Zenon
<1>5. CASE in_intr \/ out_intr
  <2>1. CASE Listed
    BY <1>5, <1>T, <2>1, WakeAll, Zenon DEF in_intr, out_intr
  <2>2. CASE ~Listed
    <3>1. UNCHANGED <<guest_connected, host_connected, setting, pc, inbuf, iused>> /\ ~Due
      BY <1>5, <2>2, Zenon DEF in_intr, out_intr, Due
    <3>2. QED BY <3>1, SleepSame, Zenon DEF NoData
  <2>3. QED BY <2>1, <2>2, Zenon
<1>6. CASE CtlPortOpen
  <2>1. CASE portdev
    BY <1>6, <1>T, <2>1, WakeAll, Zenon DEF CtlPortOpen
  <2>2. CASE ~portdev
    <3>1. UNCHANGED <<guest_connected, host_connected, setting, pc, inbuf, iused, portdev>>
      BY <1>6, <2>2, Zenon DEF CtlPortOpen
    <3>2. QED BY <2>2, <3>1, SleepSame, Zenon DEF NoData, Due, Listed
  <2>3. QED BY <2>1, <2>2, Zenon
<1>7. CASE CtlPortRemove
  <2>1. CASE guest_connected
    BY <1>7, <1>T, <2>1, WakeAll, Zenon DEF CtlPortRemove
  <2>2. CASE ~guest_connected
    <3>1. UNCHANGED <<guest_connected, host_connected, setting, pc, inbuf, iused>>
      BY <1>7, <2>2, Zenon DEF CtlPortRemove
    <3>2. \A t \in Tasks : pc[t] \notin {"readSleep", "writeSleep"}
      <4>1. SUFFICES ASSUME NEW t \in Tasks, pc[t] \in {"readSleep", "writeSleep"} PROVE FALSE
        BY Zenon
      <4>2. file = "open"
        BY <4>1, Zenon DEF IInv, TaskInv
      <4>3. ~Listed
        BY <2>2, <4>2, Zenon DEF OpenInv
      <4>4. QED BY <2>2, <4>1, <4>3, Zenon DEF SleepInv, Due, will_read_block
    <3>3. QED BY <3>1, <3>2, Zenon DEF SleepInv
  <2>3. QED BY <2>1, <2>2, Zenon
<1>8. CASE HostServe
  <2>1. UNCHANGED <<guest_connected, host_connected, setting, pc, portdev, cpc>> /\ hpc' = "push" /\ hport /\ hpc = "exec"
    BY <1>8, Zenon DEF HostServe, IInv, HostInv
  <2>2. Due'
    BY <2>1, Zenon DEF Due, Listed, IInv, HostInv
  <2>3. QED BY <2>1, <2>2, SleepSame, Zenon
<1>9. CASE HostDiscard \/ HostOutput \/ HostPop \/ HostRefuse \/ HostPush \/ HostNotify \/ HostClose
           \/ HostOpen \/ HostUnplug
  <2>1. UNCHANGED <<guest_connected, host_connected, setting, pc, portdev, cpc, inbuf, iused>>
    BY <1>9, Zenon DEF HostDiscard, HostOutput, HostPop, HostRefuse, HostPush, HostNotify,
         HostClose, HostOpen, HostUnplug
  <2>2. (irqIn => irqIn') /\ (irqOut => irqOut') /\ (hpc # "idle" => irqOut' \/ hpc' # "idle")
    <3>1. irqIn' = irqIn /\ (irqOut' = irqOut \/ irqOut' = TRUE)
      BY <1>9, Zenon DEF HostDiscard, HostOutput, HostPop, HostRefuse, HostPush, HostNotify,
         HostClose, HostOpen, HostUnplug, discard_vq_data
    <3>2. hpc' = hpc \/ irqOut' \/ hpc' \in {"loop", "exec", "push"}
      BY <1>9, Zenon DEF HostDiscard, HostOutput, HostPop, HostRefuse, HostPush, HostNotify,
         HostClose, HostOpen, HostUnplug, discard_vq_data
    <3>3. hpc' \in {"loop", "exec", "push"} => hpc' # "idle"
      OBVIOUS
    <3>4. (irqIn => irqIn') /\ (irqOut => irqOut')
      BY <3>1
    <3>5. QED BY <3>2, <3>3, <3>4, Zenon
  <2>3. Due => Due'
    BY <2>1, <2>2, Zenon DEF Due, Listed
  <2>4. QED BY <2>1, <2>3, SleepSame, Zenon DEF NoData
<1>10. CASE UNCHANGED vars
  <2>1. UNCHANGED <<guest_connected, host_connected, setting, pc, portdev, cpc, inbuf, iused, irqIn, irqOut, hpc>>
    BY <1>10, Zenon DEF vars
  <2>2. QED BY <2>1, SleepSame, Zenon DEF NoData, Due, Listed
<1>11. QED BY <1>1, <1>2, <1>3, <1>4, <1>5, <1>6, <1>7, <1>8, <1>9, <1>10, Zenon
          DEF Next, Interrupt, OpenRelease, Control, Output

----------------------------------------------------------------------------
(* The invariance of these, and what it gives.                             *)

GuestInv == OpenInv /\ FlagInv /\ CallInv /\ InInv /\ SleepInv

\* fill_queue has posted every in-buffer.
LEMMA Posted ==
  ASSUME Init
  PROVE  iavail \in Bijection(1 .. Cardinality(InBufs), InBufs)
<1>1. \E s \in Bijection(1 .. Cardinality(InBufs), InBufs) : TRUE
  BY InBufsFinite, Zenon DEF ExistsBijection
<1>2. QED BY <1>1, Zenon DEF Init

\* In the first state nobody is inside an ioctl, and nothing is due.
LEMMA GuestInit == Init => GuestInv
<1> SUFFICES ASSUME Init PROVE GuestInv
  BY Zenon
<1>1. OpenInv
  BY DEF Init, OpenInv
<1>2. FlagInv
  <2>1. ctl = <<>> /\ 0 <= CtlBufs
    BY SizesPositive DEF Init
  <2>2. Len(ctl) <= CtlBufs
    BY <2>1
  <2>3. QED BY <2>2, Zenon DEF Init, FlagInv
<1>3. CallInv
  <2>1. ncalls \in 0 .. MaxCalls
    BY SizesPositive DEF Init
  <2>2. call \in [Tasks -> Calls \cup {NoCall}] /\ content \in [Cells -> Calls \cup {NoCall}]
        /\ executed \in [Calls -> {"no", "ok", "refused"}] /\ \A t \in Tasks : pc[t] = "idle"
    BY Zenon DEF Init
  <2>3. \A c \in Range(cell) \cup Range(oavail) \cup {elem} : c = NoCell
    BY DEF Init, Range
  <2>4. QED BY <2>1, <2>2, <2>3, Zenon DEF CallInv
<1>4. InInv
  <2>1. iavail \in [1 .. Cardinality(InBufs) -> InBufs] /\ Cardinality(InBufs) \in Nat
    BY Posted, InBufsFinite, Zenon DEF Bijection, Injection
  <2>2. iavail \in Seq(InBufs)
    BY <2>1
  <2>3. iused \in Seq(Chunk)
    BY DEF Init
  <2>4. got \in [Tasks -> Calls \cup {NoCall}] /\ rbuf \in [Tasks -> InBufs \cup {NoBuf}]
        /\ \A t \in Tasks : pc[t] # "requeue"
    BY Zenon DEF Init
  <2>5. QED BY <2>2, <2>3, <2>4, Zenon DEF Init, InInv
<1>5. SleepInv
  BY Zenon DEF Init, SleepInv
<1>6. QED BY <1>1, <1>2, <1>3, <1>4, <1>5, Zenon DEF GuestInv

\* The invariant of the file's flags, calls, buffers and sleepers.
THEOREM GuestInvariance == Spec => []GuestInv
<1>1. IInv /\ GuestInv /\ [Next]_vars => GuestInv'
  <2> SUFFICES ASSUME IInv, GuestInv, [Next]_vars PROVE GuestInv'
    BY Zenon
  <2>1. OpenInv' /\ FlagInv' /\ CallInv'
    BY OpenKeeps, FlagKeeps, CallKeeps, Zenon DEF GuestInv
  <2>2. InInv'
    BY InKeeps, Zenon DEF GuestInv
  <2>3. SleepInv'
    BY <2>2, SleepKeeps, Zenon DEF GuestInv
  <2>4. QED BY <2>1, <2>2, <2>3, Zenon DEF GuestInv
<1>2. QED BY <1>1, GuestInit, Invariance, PTL DEF Spec

\* The state of the port, of its queues, of the callers and of QEMU has its type,
\* and the out queue never holds more than its size.
THEOREM TypeCorrect == Spec => []TypeOK
<1>1. IInv /\ GuestInv => TypeOK
  <2> SUFFICES ASSUME IInv, GuestInv PROVE TypeOK
    BY Zenon
  <2>1. PICK B : B = BOOLEAN
    OBVIOUS
  <2>2. <<guest_connected, host_connected, outvq_full, portdev, hport, hconn, hguest, cfd,
          irqIn, irqOut>> \in [1 .. 10 -> BOOLEAN]
    <3>1. /\ guest_connected \in B /\ host_connected \in B /\ outvq_full \in B /\ portdev \in B /\ hport \in B
          /\ hconn \in B /\ hguest \in B /\ cfd \in B /\ irqIn \in B /\ irqOut \in B
      BY <2>1, Zenon DEF IInv, TypeInv, GuestInv, FlagInv
    <3>2. <<guest_connected, host_connected, outvq_full, portdev, hport, hconn, hguest, cfd,
            irqIn, irqOut>> \in [1 .. 10 -> B]
      BY <3>1
    <3>3. QED BY <2>1, <3>2, Zenon
  <2>3. Len(oavail) + Len(oused) + (IF elem = NoCell THEN 0 ELSE 1) <= OutSize
    <3>1. /\ Len(oavail) \in Nat /\ Len(oused) \in Nat /\ OutSize \in Nat
          /\ InFlight + Len(oused) <= OutSize
      BY SizesPositive DEF IInv, TypeInv, FullInv, Total
    <3>2. QED BY <3>1 DEF InFlight
  <2>4. QED BY <2>2, <2>3, Zenon DEF TypeOK, IInv, TypeInv, GuestInv, FlagInv, CallInv, InInv
<1>2. QED BY <1>1, Invariance, GuestInvariance, PTL

\* No wake-up of an ioctl's wait is lost, whoever shares the file and whatever the
\* back end does.
THEOREM NoLostWakeUp == Spec => []SleepersWoken
<1>1. GuestInv => SleepersWoken
  BY Zenon DEF GuestInv, SleepInv, SleepersWoken, Due, WillWake
<1>2. QED BY <1>1, GuestInvariance, PTL

=============================================================================
