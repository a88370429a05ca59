-------------------------- MODULE VirtioCryptoPort --------------------------
(***************************************************************************)
(* One virtio-crypto port, from the ioctl of a guest task to the ioctl     *)
(* that QEMU issues on the host's /dev/crypto and back:                    *)
(*   - the guest driver (linux_kernel/virtio_crypto.c): open, ioctl, poll, *)
(*     release, the interrupt handlers and the control work;               *)
(*   - the port's pair of virtqueues and the control queue to the guest;   *)
(*   - QEMU (qemu/virtio-serial-bus.c, qemu/virtio-crypto.c): the handler  *)
(*     of the out queue, the back end's connect and disconnect, unplug.    *)
(*                                                                         *)
(* A request is a cell of guest memory (struct crypto_data) whose address  *)
(* travels through the out queue; QEMU reads it in place and copies its    *)
(* answer into buffers the guest has posted on the in queue.  Calls are    *)
(* numbered, so that an answer can be told from another call's.  What the  *)
(* host's /dev/crypto says to a request is either "ok" or "refused".       *)
(*                                                                         *)
(* Steps are the critical sections of the guest's two spinlocks, the reads *)
(* of the port's flags between them, and the points at which QEMU touches  *)
(* a queue.                                                                *)
(***************************************************************************)
EXTENDS Integers, Sequences, FiniteSets, Functions

CONSTANTS Tasks,     \* the tasks that share the open file
          Cells,     \* memory for struct crypto_data
          InBufs,    \* the struct port_buffers posted on in_vq
          Pages,     \* the in-buffers an answer takes
          OutSize,   \* the size of out_vq
          CtlBufs,   \* the size of c_ivq
          MaxCalls,  \* bound: the ioctls of a behaviour
          Settings,  \* the settings to start in, see below
          NoTask, NoCell, NoBuf

AllFaults == {"signal", "unknown", "refuse", "close", "reopen", "unplug"}

\* QEMU gives out_vq 128 slots.
ASSUME SizesPositive == Pages \in Nat \ {0} /\ OutSize \in Nat \ {0, 1}
                        /\ CtlBufs \in Nat /\ MaxCalls \in Nat
\* A setting: the tasks that use the file, whether O_NONBLOCK is set on it, and
\* what the environment may do.
ASSUME SettingsKnown ==
    Settings \subseteq [users : SUBSET Tasks, nonblock : BOOLEAN, faults : SUBSET AllFaults]
\* The in-buffers are finitely many, and can be numbered.
ASSUME InBufsFinite == /\ Cardinality(InBufs) \in Nat
                       /\ ExistsBijection(1..Cardinality(InBufs), InBufs)
ASSUME NoneFresh == NoTask \notin Tasks /\ NoCell \notin Cells /\ NoBuf \notin InBufs

VARIABLES
    setting,   \* fixed in each behaviour
    file,      \* "closed", "open", or where open or release is
    guest_connected, host_connected, outvq_full,   \* of the guest's struct port
    inbuf,     \* port->inbuf
    olock,     \* the task that spins in send_buf, holding outvq_lock
    heap,      \* the allocated cells
    content,   \* the call whose request a cell holds
    pc, call, cell, rbuf, got,   \* of each task: see Ioctl below
    ncalls,
    oavail, oused,     \* out_vq: cells for the host, cells it gave back
    iavail, iused,     \* in_vq: buffers for the host, filled buffers
    irqIn, irqOut,     \* raised, not yet handled interrupts
    ctl,       \* control messages to the guest
    cpc,       \* where control_work_handler is
    portdev,   \* port->portdev is set
    hport,     \* QEMU has the port
    hconn, hguest,     \* QEMU's port->host_connected, port->guest_connected
    cfd,       \* QEMU has /dev/crypto open for the port
    hpc, elem, \* where handle_output is, and the element it popped
    executed   \* history: what became of each call on the host

guest == <<guest_connected, host_connected, portdev>>
ovq == <<oavail, oused, outvq_full>>
ivq == <<iavail, iused, inbuf>>
task == <<call, cell, rbuf, got, ncalls>>
host == <<hport, hconn, hguest, cfd, hpc, elem, executed>>
vars == <<setting, file, guest, ovq, ivq, olock, heap, content, pc, task, irqIn, irqOut,
          ctl, cpc, host>>

Calls == 1..MaxCalls
NoCall == 0
\* A filled in-buffer: the answer it belongs to, and whether it is unread.
Chunk == [buf : InBufs, call : Calls, page : 1..Pages, unread : BOOLEAN]
NoChunk == [buf |-> NoBuf, call |-> NoCall, page |-> 0, unread |-> FALSE]

Min2(m, n) == IF m < n THEN m ELSE n

----------------------------------------------------------------------------
(* Helpers of the driver.                                                  *)

Goto(t, l) == pc' = [pc EXCEPT ![t] = l]

\* wake_up_interruptible(&port->waitqueue): sleepers evaluate their condition
\* again.
Wake == pc' = [t \in Tasks |-> CASE pc[t] = "writeSleep" -> "write"
                                 [] pc[t] = "readSleep" -> "readWait"
                                 [] OTHER -> pc[t]]

\* virtqueue_get_buf on in_vq, unless there is a current buffer.
get_inbuf == IF inbuf # NoChunk \/ iused = <<>> THEN inbuf ELSE Head(iused)

\* port_has_data, with the buffer it makes current.
port_has_data == get_inbuf # NoChunk
TakeInbuf == /\ inbuf' = get_inbuf
             /\ iused' = IF inbuf = NoChunk /\ iused # <<>> THEN Tail(iused) ELSE iused
             /\ UNCHANGED iavail

\* Every filled buffer is posted again.
discard_port_data ==
    IF ~portdev THEN UNCHANGED ivq
    ELSE /\ iavail' = iavail \o (IF inbuf = NoChunk THEN <<>> ELSE <<inbuf.buf>>)
                             \o [k \in DOMAIN iused |-> iused[k].buf]
         /\ iused' = <<>>
         /\ inbuf' = NoChunk

\* What the host gave back is freed, unless the queues are gone.
Reclaimed == IF portdev THEN Range(oused) ELSE {}
\* Mutant: outvq_full is not reset.
reclaim_keeping_full ==
    /\ heap' = heap \ Reclaimed
    /\ oused' = IF portdev THEN <<>> ELSE oused
    /\ UNCHANGED <<oavail, outvq_full>>

reclaim_consumed_buffers ==
    /\ heap' = heap \ Reclaimed
    /\ oused' = IF portdev THEN <<>> ELSE oused
    /\ outvq_full' = (outvq_full /\ Reclaimed = {})
    /\ UNCHANGED oavail

will_read_block == guest_connected /\ ~port_has_data /\ host_connected

----------------------------------------------------------------------------
(* port_fops_ioctl.  Per task: the number of its call, the cell of its     *)
(* cr_data, the in-buffer fill_readbuf works on, and the call whose answer *)
(* it copied.                                                              *)

Return(t) == /\ Goto(t, "idle")
             /\ cell' = [cell EXCEPT ![t] = NoCell]

IoctlStart(t) ==
    /\ file = "open" /\ pc[t] = "idle" /\ ncalls < MaxCalls
    /\ ncalls' = ncalls + 1
    /\ call' = [call EXCEPT ![t] = ncalls + 1]
    /\ got' = [got EXCEPT ![t] = NoCall]
    /\ Goto(t, "write")
    /\ UNCHANGED <<setting, file, guest, ovq, ivq, olock, heap, content, cell, rbuf,
                   irqIn, irqOut, ctl, cpc, host>>

\* will_write_block is false: the port is gone, or the host is connected and
\* the queue has room after what it consumed is reclaimed.
WriteReady(t) ==
    /\ pc[t] = "write"
    /\ \/ ~guest_connected /\ UNCHANGED <<heap, ovq>>
       \/ /\ guest_connected /\ host_connected /\ olock = NoTask
          /\ reclaim_consumed_buffers
          /\ ~outvq_full'
    /\ Goto(t, "ready")
    /\ UNCHANGED <<setting, file, guest, ivq, olock, content, task, irqIn, irqOut, ctl, cpc, host>>

\* will_write_block is true: -EAGAIN, or wait_event_freezable.
WriteBlocked(t) ==
    /\ pc[t] = "write" /\ guest_connected
    /\ \/ ~host_connected /\ UNCHANGED <<heap, ovq>>
       \/ /\ host_connected /\ olock = NoTask
          /\ reclaim_consumed_buffers
          /\ outvq_full'
    /\ Goto(t, IF setting.nonblock THEN "idle" ELSE "writeSleep")
    /\ UNCHANGED <<setting, file, guest, ivq, olock, content, task, irqIn, irqOut, ctl, cpc, host>>

\* -ENODEV, -ENOMEM, or -EFAULT with cr_data freed again.
IoctlRefused(t) ==
    /\ pc[t] = "ready"
    /\ Goto(t, "idle")
    /\ UNCHANGED <<setting, file, guest, ovq, ivq, olock, heap, content, task, irqIn, irqOut,
                   ctl, cpc, host>>

\* kmalloc and copy_from_user.
IoctlBuild(t) ==
    /\ pc[t] = "ready" /\ guest_connected
    /\ \E c \in Cells \ heap :
          /\ heap' = heap \cup {c}
          /\ cell' = [cell EXCEPT ![t] = c]
          /\ content' = [content EXCEPT ![c] = call[t]]
    /\ Goto(t, "send")
    /\ UNCHANGED <<setting, file, guest, ovq, ivq, olock, call, rbuf, got, ncalls, irqIn, irqOut,
                   ctl, cpc, host>>

\* A command the driver does not know (CIOCGSESSINFO, say): -EINVAL, and cr_data
\* is left behind.
IoctlUnknown(t) ==
    /\ "unknown" \in setting.faults
    /\ pc[t] = "ready" /\ guest_connected
    /\ \E c \in Cells \ heap : heap' = heap \cup {c}
    /\ Goto(t, "idle")
    /\ UNCHANGED <<setting, file, guest, ovq, ivq, olock, content, task, irqIn, irqOut, ctl, cpc, host>>

\* The slots of out_vq in use: a slot is free again after virtqueue_get_buf.
InFlight == Len(oavail) + (IF elem = NoCell THEN 0 ELSE 1)

\* Mutant: the lock is dropped while the task spins.
SendUnlocked(t) ==
    /\ pc[t] = "send" /\ olock = NoTask
    /\ heap' = heap \ Reclaimed
    /\ oused' = IF portdev THEN <<>> ELSE oused
    /\ LET room == OutSize - InFlight - Len(oused')
       IN  /\ oavail' = IF room > 0 THEN Append(oavail, cell[t]) ELSE oavail
           /\ outvq_full' = (room = 1 \/ (outvq_full /\ Reclaimed = {}))
           /\ Goto(t, IF room > 0 /\ ~setting.nonblock THEN "spin" ELSE "read")
    /\ UNCHANGED <<setting, file, guest, ivq, olock, content, task, irqIn, irqOut, ctl, cpc, host>>

\* send_buf up to the kick.  The ioctl ignores that a full queue refused the
\* buffer.  Blocking, the task keeps outvq_lock and spins.
Send(t) ==
    /\ pc[t] = "send" /\ olock = NoTask
    /\ heap' = heap \ Reclaimed
    /\ oused' = IF portdev THEN <<>> ELSE oused
    /\ LET room == OutSize - InFlight - Len(oused')
       IN  /\ oavail' = IF room > 0 THEN Append(oavail, cell[t]) ELSE oavail
           /\ outvq_full' = (room = 1 \/ (outvq_full /\ Reclaimed = {}))
           /\ IF room > 0 /\ ~setting.nonblock
              THEN Goto(t, "spin") /\ olock' = t
              ELSE Goto(t, "read") /\ UNCHANGED olock
    /\ UNCHANGED <<setting, file, guest, ivq, content, task, irqIn, irqOut, ctl, cpc, host>>

\* Mutant: the task keeps the lock.
SpinKeepingLock(t) ==
    /\ pc[t] = "spin" /\ oused # <<>>
    /\ oused' = Tail(oused)
    /\ Goto(t, "read")
    /\ UNCHANGED <<setting, file, guest, oavail, outvq_full, ivq, olock, heap, content, task,
                   irqIn, irqOut, ctl, cpc, host>>

\* "Wait till the host acknowledges it pushed out the data we sent."
Spin(t) ==
    /\ pc[t] = "spin" /\ oused # <<>>
    /\ oused' = Tail(oused)
    /\ olock' = NoTask
    /\ Goto(t, "read")
    /\ UNCHANGED <<setting, file, guest, oavail, outvq_full, ivq, heap, content, task,
                   irqIn, irqOut, ctl, cpc, host>>

\* if (!port_has_data) ... -ENOTTY, leaving cr_data behind, or wait.
ReadCheck(t) ==
    /\ pc[t] = "read"
    /\ TakeInbuf
    /\ IF port_has_data THEN Goto(t, "reply") /\ UNCHANGED cell
       ELSE IF host_connected THEN Goto(t, "readWait") /\ UNCHANGED cell
       ELSE Return(t)
    /\ UNCHANGED <<setting, file, guest, ovq, olock, heap, content, call, rbuf, got, ncalls,
                   irqIn, irqOut, ctl, cpc, host>>

ReadWait(t) ==
    /\ pc[t] = "readWait"
    /\ IF guest_connected THEN TakeInbuf ELSE UNCHANGED ivq
    /\ Goto(t, IF will_read_block THEN "readSleep" ELSE "reply")
    /\ UNCHANGED <<setting, file, guest, ovq, olock, heap, content, task, irqIn, irqOut, ctl, cpc, host>>

\* Mutant: no -ENOTTY after the wait.
ReplyUnchecked(t) ==
    /\ pc[t] = "reply"
    /\ IF guest_connected THEN TakeInbuf ELSE UNCHANGED ivq
    /\ IF guest_connected THEN Goto(t, "fill") /\ UNCHANGED cell ELSE Return(t)
    /\ UNCHANGED <<setting, file, guest, ovq, olock, heap, content, call, rbuf, got, ncalls,
                   irqIn, irqOut, ctl, cpc, host>>

\* The two checks after the wait; -ENODEV and -ENOTTY leave cr_data behind.
ReplyCheck(t) ==
    /\ pc[t] = "reply"
    /\ IF guest_connected THEN TakeInbuf ELSE UNCHANGED ivq
    /\ IF guest_connected /\ (port_has_data \/ host_connected)
       THEN Goto(t, "fill") /\ UNCHANGED cell
       ELSE Return(t)
    /\ UNCHANGED <<setting, file, guest, ovq, olock, heap, content, call, rbuf, got, ncalls,
                   irqIn, irqOut, ctl, cpc, host>>

\* fill_readbuf: the current buffer is copied, without a lock ...
FillCopy(t) ==
    /\ pc[t] = "fill"
    /\ IF port_has_data
       THEN /\ rbuf' = [rbuf EXCEPT ![t] = get_inbuf.buf]
            /\ got' = [got EXCEPT ![t] = IF get_inbuf.unread THEN get_inbuf.call ELSE NoCall]
            /\ inbuf' = [get_inbuf EXCEPT !.unread = FALSE]
            /\ iused' = IF inbuf = NoChunk THEN Tail(iused) ELSE iused
            /\ Goto(t, "requeue")
       ELSE Goto(t, "copy") /\ UNCHANGED <<rbuf, got, inbuf, iused>>
    /\ UNCHANGED <<setting, file, guest, ovq, iavail, olock, heap, content, call, cell, ncalls,
                   irqIn, irqOut, ctl, cpc, host>>

\* Mutant: port->inbuf still points to the buffer.
FillRequeueCurrent(t) ==
    /\ pc[t] = "requeue"
    /\ iavail' = IF Len(iavail) + Len(iused) < Cardinality(InBufs)
                 THEN Append(iavail, rbuf[t]) ELSE iavail
    /\ rbuf' = [rbuf EXCEPT ![t] = NoBuf]
    /\ Goto(t, "copy")
    /\ UNCHANGED <<setting, file, guest, ovq, iused, inbuf, olock, heap, content, call, cell, got, ncalls,
                   irqIn, irqOut, ctl, cpc, host>>

\* ... and posted again, under inbuf_lock.
FillRequeue(t) ==
    /\ pc[t] = "requeue"
    /\ inbuf' = NoChunk
    /\ iavail' = IF Len(iavail) + Len(iused) < Cardinality(InBufs)
                 THEN Append(iavail, rbuf[t]) ELSE iavail
    /\ rbuf' = [rbuf EXCEPT ![t] = NoBuf]
    /\ Goto(t, "copy")
    /\ UNCHANGED <<setting, file, guest, ovq, iused, olock, heap, content, call, cell, got, ncalls,
                   irqIn, irqOut, ctl, cpc, host>>

\* copy_to_user, kfree(cr_data), return 0.
IoctlDone(t) ==
    /\ pc[t] = "copy"
    /\ heap' = heap \ {cell[t]}
    /\ Return(t)
    /\ UNCHANGED <<setting, file, guest, ovq, ivq, olock, content, call, rbuf, got, ncalls,
                   irqIn, irqOut, ctl, cpc, host>>

\* A signal ends either wait; the second one leaves cr_data behind.
Signal(t) ==
    /\ "signal" \in setting.faults
    /\ pc[t] \in {"writeSleep", "readSleep"}
    /\ Return(t)
    /\ UNCHANGED <<setting, file, guest, ovq, ivq, olock, heap, content, call, rbuf, got, ncalls,
                   irqIn, irqOut, ctl, cpc, host>>

----------------------------------------------------------------------------
(* port_fops_poll: will_read_block and will_write_block move buffers, and  *)
(* nothing else.                                                           *)

PollRead ==
    /\ file = "open" /\ guest_connected
    /\ TakeInbuf
    /\ UNCHANGED <<setting, file, guest, ovq, olock, heap, content, pc, task, irqIn, irqOut,
                   ctl, cpc, host>>

PollWrite ==
    /\ file = "open" /\ guest_connected /\ host_connected /\ olock = NoTask
    /\ reclaim_consumed_buffers
    /\ UNCHANGED <<setting, file, guest, ivq, olock, content, pc, task, irqIn, irqOut, ctl, cpc, host>>

----------------------------------------------------------------------------
(* port_fops_open and port_fops_release.  The control message to the host  *)
(* is synchronous: __send_control_msg spins until QEMU has handled it.     *)

\* A port that unplug_port took off the list is not found.
Listed == portdev /\ cpc \in {"idle", "reclaim"}

\* find_port_by_devt takes no reference on the port it returns ...
OpenFind ==
    /\ file = "closed" /\ Listed
    /\ file' = "found"
    /\ UNCHANGED <<setting, guest, ovq, ivq, olock, heap, content, pc, task, irqIn, irqOut, ctl, cpc, host>>

\* ... and port->portdev is followed next.  The file is refused with -EMFILE if
\* another one has the port open.
OpenConnect ==
    /\ file = "found" /\ portdev /\ ~guest_connected
    /\ guest_connected' = TRUE
    /\ file' = "reclaim"
    /\ UNCHANGED <<setting, host_connected, portdev, ovq, ivq, olock, heap, content, pc, task,
                   irqIn, irqOut, ctl, cpc, host>>

OpenReclaim ==
    /\ file = "reclaim"
    /\ reclaim_consumed_buffers
    /\ file' = "notify"
    /\ UNCHANGED <<setting, guest, ivq, olock, content, pc, task, irqIn, irqOut, ctl, cpc, host>>

\* Mutant: guest_open does not open /dev/crypto.
guest_open_nothing(value) == cfd' = (cfd /\ value)

\* guest_open and guest_close: /dev/crypto, which the host has, is opened and
\* closed with the port.
guest_open_close(value) == cfd' = value

\* PORT_OPEN in QEMU's handle_control_message.
HandlePortOpen(value) ==
    IF hport THEN hguest' = value /\ guest_open_close(value)
             ELSE UNCHANGED <<hguest, cfd>>

\* send_control_msg(port, VIRTIO_CONSOLE_PORT_OPEN, value) in the guest.
SendPortOpen(value) ==
    /\ hpc = "idle"
    /\ IF portdev THEN HandlePortOpen(value) ELSE UNCHANGED <<hguest, cfd>>
    /\ UNCHANGED <<hport, hconn, hpc, elem, executed>>

OpenNotify ==
    /\ file = "notify"
    /\ SendPortOpen(TRUE)
    /\ file' = "open"
    /\ UNCHANGED <<setting, guest, ovq, ivq, olock, heap, content, pc, task, irqIn, irqOut, ctl, cpc>>

ReleaseNotify ==
    /\ file = "open" /\ \A t \in Tasks : pc[t] = "idle"
    /\ SendPortOpen(FALSE)
    /\ file' = "discard"
    /\ UNCHANGED <<setting, guest, ovq, ivq, olock, heap, content, pc, task, irqIn, irqOut, ctl, cpc>>

ReleaseDiscard ==
    /\ file = "discard"
    /\ guest_connected' = FALSE
    /\ discard_port_data
    /\ file' = "finish"
    /\ UNCHANGED <<setting, host_connected, portdev, ovq, olock, heap, content, pc, task,
                   irqIn, irqOut, ctl, cpc, host>>

ReleaseReclaim ==
    /\ file = "finish"
    /\ reclaim_consumed_buffers
    /\ file' = "closed"
    /\ UNCHANGED <<setting, guest, ivq, olock, content, pc, task, irqIn, irqOut, ctl, cpc, host>>

----------------------------------------------------------------------------
(* Interrupts.                                                             *)

in_intr ==
    /\ irqIn
    /\ irqIn' = FALSE
    /\ IF Listed
       THEN /\ IF guest_connected THEN TakeInbuf ELSE discard_port_data
            /\ Wake
       ELSE UNCHANGED <<ivq, pc>>
    /\ UNCHANGED <<setting, file, guest, ovq, olock, heap, content, task, irqOut, ctl, cpc, host>>

out_intr ==
    /\ irqOut
    /\ irqOut' = FALSE
    /\ IF Listed THEN Wake ELSE UNCHANGED pc
    /\ UNCHANGED <<setting, file, guest, ovq, ivq, olock, heap, content, task, irqIn, ctl, cpc, host>>

----------------------------------------------------------------------------
(* control_work_handler and handle_control_message in the guest.           *)

\* control_work_handler takes the messages one after the other; a message's
\* buffer is posted again when it has been handled.
TakeControl(messages) ==
    /\ cpc = "idle" /\ ctl # <<>> /\ Head(ctl) \in messages
    /\ ctl' = Tail(ctl)

\* PORT_OPEN: the host connected or disconnected.
CtlPortOpen ==
    /\ TakeControl({"open", "close"})
    /\ IF portdev
       THEN /\ host_connected' = (Head(ctl) = "open")
            /\ Wake
            /\ cpc' = "reclaim"
       ELSE UNCHANGED <<host_connected, pc, cpc>>
    /\ UNCHANGED <<setting, file, guest_connected, portdev, ovq, ivq, olock, heap, content, task,
                   irqIn, irqOut, host>>

CtlReclaim ==
    /\ cpc = "reclaim" /\ olock = NoTask
    /\ reclaim_consumed_buffers
    /\ cpc' = "idle"
    /\ UNCHANGED <<setting, file, guest, ivq, olock, content, pc, task, irqIn, irqOut, ctl, host>>

\* Mutant: the tasks that wait are not woken.
CtlPortRemoveSilent ==
    /\ TakeControl({"remove"})
    /\ guest_connected' = FALSE
    /\ host_connected' = (host_connected /\ ~guest_connected)
    /\ cpc' = "unplugDiscard"
    /\ UNCHANGED <<setting, file, portdev, ovq, ivq, olock, heap, content, pc, task, irqIn, irqOut, host>>

\* PORT_REMOVE: unplug_port takes neither inbuf_lock nor outvq_lock.
CtlPortRemove ==
    /\ TakeControl({"remove"})
    /\ IF guest_connected
       THEN guest_connected' = FALSE /\ host_connected' = FALSE /\ Wake
       ELSE UNCHANGED <<guest_connected, host_connected, pc>>
    /\ cpc' = "unplugDiscard"
    /\ UNCHANGED <<setting, file, portdev, ovq, ivq, olock, heap, content, task, irqIn, irqOut, host>>

UnplugDiscard ==
    /\ cpc = "unplugDiscard"
    /\ discard_port_data
    /\ cpc' = "unplugReclaim"
    /\ UNCHANGED <<setting, file, guest, ovq, olock, heap, content, pc, task, irqIn, irqOut, ctl, host>>

UnplugReclaim ==
    /\ cpc = "unplugReclaim"
    /\ reclaim_consumed_buffers
    /\ cpc' = "unplugDetach"
    /\ UNCHANGED <<setting, file, guest, ivq, olock, content, pc, task, irqIn, irqOut, ctl, host>>

\* The posted in-buffers are freed; the driver forgets the device.
UnplugDetach ==
    /\ cpc = "unplugDetach"
    /\ iavail' = <<>>
    /\ portdev' = FALSE
    /\ cpc' = "idle"
    /\ UNCHANGED <<setting, file, guest_connected, host_connected, ovq, iused, inbuf, olock, heap,
                   content, pc, task, irqIn, irqOut, ctl, host>>

----------------------------------------------------------------------------
(* QEMU.  Its handlers run one at a time, concurrently with the guest.     *)

\* discard_vq_data on the out queue: everything is given back unread.
discard_vq_data ==
    /\ oused' = oused \o oavail
    /\ oavail' = <<>>
    /\ irqOut' = TRUE
    /\ UNCHANGED outvq_full

\* handle_output without a port, or with the back end disconnected.
HostDiscard ==
    /\ hpc = "idle" /\ oavail # <<>> /\ ~(hport /\ hconn)
    /\ discard_vq_data
    /\ UNCHANGED <<setting, file, guest, ivq, olock, heap, content, pc, task, irqIn, ctl, cpc, host>>

\* handle_output enters do_flush_queued_data.
HostOutput ==
    /\ hpc = "idle" /\ oavail # <<>> /\ hport /\ hconn
    /\ hpc' = "loop"
    /\ UNCHANGED <<setting, file, guest, ovq, ivq, olock, heap, content, pc, task, irqIn, irqOut,
                   ctl, cpc, hport, hconn, hguest, cfd, elem, executed>>

HostPop ==
    /\ hpc = "loop" /\ oavail # <<>>
    /\ elem' = Head(oavail) /\ oavail' = Tail(oavail)
    /\ hpc' = "exec"
    /\ UNCHANGED <<setting, file, guest, oused, outvq_full, ivq, olock, heap, content, pc, task,
                   irqIn, irqOut, ctl, cpc, hport, hconn, hguest, cfd, executed>>

\* write_to_port: the answer goes into as many posted buffers as it needs, or
\* as there are.
Answer(n) == LET k == Min2(Pages, Len(iavail))
             IN  [p \in 1..k |-> [buf |-> iavail[p], call |-> n, page |-> p, unread |-> TRUE]]

\* flush_buf: the ioctl on /dev/crypto succeeds and the answer is written ...
HostServe ==
    /\ hpc = "exec"
    /\ executed' = [executed EXCEPT ![content[elem]] = "ok"]
    /\ IF hconn /\ hguest
       THEN LET a == Answer(content[elem])
            IN  /\ iused' = iused \o a
                /\ iavail' = SubSeq(iavail, Len(a) + 1, Len(iavail))
                /\ irqIn' = TRUE
       ELSE UNCHANGED <<iused, iavail, irqIn>>
    /\ hpc' = "push"
    /\ UNCHANGED <<setting, file, guest, ovq, inbuf, olock, heap, content, pc, task, irqOut,
                   ctl, cpc, hport, hconn, hguest, cfd, elem>>

\* ... or it fails and flush_buf returns 1: no answer.
HostRefuse ==
    /\ hpc = "exec" /\ "refuse" \in setting.faults
    /\ executed' = [executed EXCEPT ![content[elem]] = "refused"]
    /\ hpc' = "push"
    /\ UNCHANGED <<setting, file, guest, ovq, ivq, olock, heap, content, pc, task, irqIn, irqOut,
                   ctl, cpc, hport, hconn, hguest, cfd, elem>>

HostPush ==
    /\ hpc = "push"
    /\ oused' = Append(oused, elem)
    /\ elem' = NoCell
    /\ hpc' = "loop"
    /\ UNCHANGED <<setting, file, guest, oavail, outvq_full, ivq, olock, heap, content, pc, task,
                   irqIn, irqOut, ctl, cpc, hport, hconn, hguest, cfd, executed>>

HostNotify ==
    /\ hpc = "loop" /\ oavail = <<>>
    /\ irqOut' = TRUE
    /\ hpc' = "idle"
    /\ UNCHANGED <<setting, file, guest, ovq, ivq, olock, heap, content, pc, task, irqIn,
                   ctl, cpc, hport, hconn, hguest, cfd, elem, executed>>

\* Mutant: the number of posted buffers is not looked at.
SendControlAlways(m) == ctl' = Append(ctl, m)

\* send_control_msg: dropped when the guest has posted no buffer for it.
SendControl(m) ==
    LET busy == Len(ctl) + (IF cpc = "idle" THEN 0 ELSE 1)
    IN  ctl' = IF busy < CtlBufs THEN Append(ctl, m) ELSE ctl

\* chr_event: virtio_serial_close and virtio_serial_open.
HostClose ==
    /\ "close" \in setting.faults /\ hport /\ hconn /\ hpc = "idle"
    /\ hconn' = FALSE
    /\ discard_vq_data
    /\ SendControl("close")
    /\ UNCHANGED <<setting, file, guest, ivq, olock, heap, content, pc, task, irqIn, cpc,
                   hport, hguest, cfd, hpc, elem, executed>>

HostOpen ==
    /\ "reopen" \in setting.faults /\ hport /\ ~hconn /\ hpc = "idle"
    /\ hconn' = TRUE
    /\ SendControl("open")
    /\ UNCHANGED <<setting, file, guest, ovq, ivq, olock, heap, content, pc, task, irqIn, irqOut, cpc,
                   hport, hguest, cfd, hpc, elem, executed>>

\* virtser_port_qdev_exit.
HostUnplug ==
    /\ "unplug" \in setting.faults /\ hport /\ hpc = "idle"
    /\ hport' = FALSE
    /\ discard_vq_data
    /\ SendControl("remove")
    /\ UNCHANGED <<setting, file, guest, ivq, olock, heap, content, pc, task, irqIn, cpc,
                   hconn, hguest, cfd, hpc, elem, executed>>

----------------------------------------------------------------------------
Init ==
    /\ setting \in Settings
    /\ file = "closed"
    /\ guest_connected = FALSE /\ host_connected = TRUE /\ outvq_full = FALSE
    /\ inbuf = NoChunk /\ iused = <<>>
    /\ iavail = CHOOSE s \in Bijection(1..Cardinality(InBufs), InBufs) : TRUE
    /\ olock = NoTask
    /\ heap = {} /\ content = [c \in Cells |-> NoCall]
    /\ pc = [t \in Tasks |-> "idle"]
    /\ call = [t \in Tasks |-> NoCall] /\ got = [t \in Tasks |-> NoCall]
    /\ cell = [t \in Tasks |-> NoCell] /\ rbuf = [t \in Tasks |-> NoBuf]
    /\ ncalls = 0
    /\ oavail = <<>> /\ oused = <<>>
    /\ irqIn = FALSE /\ irqOut = FALSE
    /\ ctl = <<>> /\ cpc = "idle" /\ portdev = TRUE
    /\ hport = TRUE /\ hconn = TRUE /\ hguest = FALSE /\ cfd = FALSE
    /\ hpc = "idle" /\ elem = NoCell
    /\ executed = [n \in Calls |-> "no"]

Ioctl(t) == WriteReady(t) \/ WriteBlocked(t) \/ IoctlRefused(t) \/ IoctlBuild(t)
            \/ IoctlUnknown(t) \/ Send(t) \/ Spin(t) \/ ReadCheck(t) \/ ReadWait(t) \/ ReplyCheck(t)
            \/ FillCopy(t) \/ FillRequeue(t) \/ IoctlDone(t)
OpenRelease == OpenFind \/ OpenConnect \/ OpenReclaim \/ OpenNotify \/ ReleaseNotify \/ ReleaseDiscard
               \/ ReleaseReclaim
Interrupt == in_intr \/ out_intr
Control == CtlPortOpen \/ CtlReclaim \/ CtlPortRemove \/ UnplugDiscard \/ UnplugReclaim
           \/ UnplugDetach
Output == HostDiscard \/ HostOutput \/ HostPop \/ HostServe \/ HostRefuse \/ HostPush
          \/ HostNotify

Next == \/ \E t \in setting.users : IoctlStart(t) \/ Ioctl(t) \/ Signal(t)
        \/ PollRead \/ PollWrite \/ OpenRelease
        \/ Interrupt \/ Control
        \/ Output \/ HostClose \/ HostOpen \/ HostUnplug

Spec == Init /\ [][Next]_vars

----------------------------------------------------------------------------
(* Properties.                                                             *)

TaskPCs == {"idle", "write", "writeSleep", "ready", "send", "spin", "read", "readWait",
            "readSleep", "reply", "fill", "requeue", "copy"}

\* The type invariant.  The queues stay within their sizes: send_buf adds only
\* where virtqueue_add_buf has a slot, and QEMU sends a control message only
\* into a buffer the guest has posted.
TypeOK ==
    /\ file \in {"closed", "found", "reclaim", "notify", "open", "discard", "finish"}
    /\ <<guest_connected, host_connected, outvq_full, portdev, hport, hconn, hguest, cfd,
         irqIn, irqOut>> \in [1..10 -> BOOLEAN]
    /\ inbuf \in Chunk \cup {NoChunk} /\ iused \in Seq(Chunk) /\ iavail \in Seq(InBufs)
    /\ oavail \in Seq(Cells) /\ oused \in Seq(Cells) /\ elem \in Cells \cup {NoCell}
    /\ Len(oavail) + Len(oused) + (IF elem = NoCell THEN 0 ELSE 1) <= OutSize
    /\ olock \in Tasks \cup {NoTask}
    /\ heap \subseteq Cells /\ content \in [Cells -> Calls \cup {NoCall}]
    /\ pc \in [Tasks -> TaskPCs]
    /\ call \in [Tasks -> Calls \cup {NoCall}] /\ got \in [Tasks -> Calls \cup {NoCall}]
    /\ cell \in [Tasks -> Cells \cup {NoCell}] /\ rbuf \in [Tasks -> InBufs \cup {NoBuf}]
    /\ ncalls \in 0..MaxCalls
    /\ ctl \in Seq({"open", "close", "remove"}) /\ Len(ctl) <= CtlBufs
    /\ cpc \in {"idle", "reclaim", "unplugDiscard", "unplugReclaim", "unplugDetach"}
    /\ hpc \in {"idle", "loop", "exec", "push"}
    /\ executed \in [Calls -> {"no", "ok", "refused"}]

\* The cells the device may still read or give back.
OnQueue == Range(oavail) \cup Range(oused) \cup ({elem} \ {NoCell})

\* kfree(cr_data) at the end of the ioctl, and the kfree of
\* reclaim_consumed_buffers, never free a request the host has yet to see or to
\* give back: everything on the out queue is allocated, on a file that blocks.
\* (On one that does not, send_buf does not wait for the host, and the ioctl can
\* free what the host has answered and not yet given back.)
QueuedIsAllocated == ~setting.nonblock => OnQueue \subseteq heap

Single == \E t \in Tasks : setting.users = {t}

\* A single caller of a blocking file gets the answer to the request of this very
\* ioctl, and its ioctl returns 0 only if the host did what was asked, whatever
\* was interrupted, refused or disconnected before.  (Two callers, or a caller
\* that does not wait for the host, can be given the answer to another request.)
AnswerIsOwn ==
    Single /\ ~setting.nonblock => \A t \in Tasks :
        pc[t] = "copy" => got[t] \in {NoCall, call[t]} /\ executed[call[t]] = "ok"

\* An in-buffer is posted, filled or current, and it is so once, until the port
\* is unplugged: none is lost to the host, and none is posted twice.  (Two callers
\* read the current buffer without a lock, and can post it twice.)
InBufsOnce ==
    Listed /\ Single => LET all == iavail \o [k \in DOMAIN iused |-> iused[k].buf]
                          \o (IF inbuf = NoChunk THEN <<>> ELSE <<inbuf.buf>>)
               IN  IsInjective(all) /\ Range(all) = InBufs

\* QEMU serves a request of a blocking file with /dev/crypto open: guest_close
\* cannot overtake the requests of the file that is being released.  (An ioctl of
\* a non-blocking file does not wait for the host, and close can overtake it.)
ServedWhileOpen == ~setting.nonblock /\ hpc = "exec" => cfd

\* A task asleep in one of the ioctl's waits, whose condition has become true,
\* will be woken: by an interrupt that is due, which finds the port only while it
\* is listed, or it was woken when the port was unplugged, for good, unless the
\* port was opened while it was being unplugged.
WillWake == (Listed \/ guest_connected) /\ (irqIn \/ irqOut \/ hpc # "idle")
SleepersWoken ==
    \A t \in Tasks :
       /\ pc[t] = "readSleep" => will_read_block \/ WillWake
       /\ pc[t] = "writeSleep" =>
             \/ guest_connected /\ (~host_connected \/ (outvq_full /\ oused = <<>>))
             \/ WillWake

\* outvq_full is not a stale flag: a writer is turned away only when every slot
\* of the queue is in use, and a single writer that passed will_write_block finds
\* a slot, so that no request is dropped (the ioctl does not look at what
\* send_buf returns).
FullIsFull ==
    /\ outvq_full => InFlight + Len(oused) = OutSize
    /\ Single => \A t \in Tasks : pc[t] = "send" => InFlight < OutSize

----------------------------------------------------------------------------
(* Liveness.  The guest's tasks are scheduled, interrupts are delivered,   *)
(* the control work runs, QEMU serves the queue.  A lock that is free again*)
(* and again is obtained.                                                  *)

Fairness == /\ \A t \in Tasks : WF_vars(Ioctl(t)) /\ SF_vars(Send(t)) /\ SF_vars(WriteReady(t))
            /\ WF_vars(in_intr) /\ WF_vars(out_intr) /\ WF_vars(Control) /\ WF_vars(Output)
FairSpec == Spec /\ Fairness

\* Every ioctl returns, or waits to send its request until the back end is
\* connected again: a request that was sent is answered, or its caller learns
\* that the back end has gone.
IoctlReturns ==
    \A t \in Tasks :
        pc[t] # "idle" ~> (pc[t] = "idle" \/ (pc[t] = "writeSleep" /\ ~hconn))
=============================================================================
