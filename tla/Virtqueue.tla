------------------------------ MODULE Virtqueue ------------------------------
(***************************************************************************)
(* One virtqueue between the guest and QEMU (qemu-1.2.0/hw/virtio.c and    *)
(* the notification paths of hw/virtio-pci.c), as the ports of the crypto  *)
(* device use it: the two rings in guest memory with their free-running    *)
(* indices of Width bits, the suppression of kicks and of interrupts, the  *)
(* handlers of virtio-serial-bus.c that pop and push, device reset and     *)
(* migration.                                                              *)
(*                                                                         *)
(* The guest and QEMU run concurrently; a step is an access to the shared  *)
(* memory that the other side may see.  The guest's half (the kernel's     *)
(* virtio_ring) is outside the repository; it is modelled from the layout  *)
(* in linux/virtio_ring.h and from how virtio_crypto.c uses it: every      *)
(* virtqueue_add_buf is followed by a virtqueue_kick, and a callback takes *)
(* buffers until there are none.  A buffer is the number of its descriptor *)
(* chain's head.                                                           *)
(***************************************************************************)
EXTENDS Integers, Sequences, Functions

CONSTANTS Num,     \* vring.num
          Width    \* the width of an index; 16 in the code

M == 2 ^ Width
Heads == 0 .. Num - 1
NoElem == Num
Idx == 0 .. M - 1
Features == {"EVENT_IDX", "NOTIFY_ON_EMPTY"}

\* The ring size divides 2^Width (it is a power of two), and it is at most
\* half of it, so that a signed difference of two indices is meaningful.
ASSUME SizeFits == /\ Width \in Nat \ {0} /\ Num \in Nat \ {0}
                   /\ M % Num = 0 /\ 2 * Num <= M

VARIABLES
    dir,           \* "out": QEMU empties the queue on a kick; "in": it fills buffers
    callback,      \* the driver has a callback for the queue
    features,      \* vdev->guest_features
    ready,         \* vring.desc is set
    avail, avail_idx, used_event,        \* in guest memory, written by the guest
    used, used_idx, avail_event,         \* in guest memory, written by QEMU
    last_avail_idx, signalled_used, signalled_used_valid, inuse, \* VirtQueue
    kicked,        \* the host notifier is set
    isr,           \* vdev->isr, the level of the interrupt line
    gpc, free, last_used_idx,            \* the guest's driver
    hpc, elem      \* QEMU's handler and the element it has popped

queue == <<dir, callback>>
device == <<features, ready>>
avail_ring == <<avail, avail_idx, used_event>>
used_ring == <<used, used_idx, avail_event>>
signalled == <<signalled_used, signalled_used_valid>>
guest == <<gpc, free, last_used_idx>>
host == <<hpc, elem, inuse, last_avail_idx>>
vars == <<queue, device, avail_ring, used_ring, signalled, kicked, isr, guest, host>>

\* Indices are of type uint16_t, with Width for 16.
uint(n) == n % M
int(n) == IF uint(n) < M \div 2 THEN uint(n) ELSE uint(n) - M

vring_need_event(event, new, old) == uint(new - event - 1) < uint(new - old)

EmptyRing == [i \in Heads |-> 0]

Init ==
    /\ dir \in {"out", "in"} /\ callback \in BOOLEAN
    /\ features = {} /\ ready = FALSE
    /\ avail = EmptyRing /\ avail_idx = 0 /\ used_event = 0
    /\ used = EmptyRing /\ used_idx = 0 /\ avail_event = 0
    /\ last_avail_idx = 0 /\ inuse = 0
    /\ signalled_used = 0 /\ signalled_used_valid = FALSE
    /\ kicked = FALSE /\ isr = 0
    /\ gpc = "idle" /\ free = Heads /\ last_used_idx = 0
    /\ hpc = "idle" /\ elem = NoElem

----------------------------------------------------------------------------
(* The guest.                                                              *)

\* virtqueue_add_buf: the head goes into the ring, then the index moves.
GuestAdd(h) ==
    /\ ready /\ gpc = "idle" /\ h \in free
    /\ free' = free \ {h}
    /\ avail' = [avail EXCEPT ![avail_idx % Num] = h]
    /\ avail_idx' = uint(avail_idx + 1)
    /\ gpc' = "kick"
    /\ UNCHANGED <<queue, device, used_event, used_ring, signalled, kicked, isr,
                   last_used_idx, host>>

\* virtqueue_kick: unless QEMU has said that it need not be told.  It never
\* sets VRING_USED_F_NO_NOTIFY on these queues.
GuestKick ==
    /\ gpc = "kick"
    /\ kicked' = (kicked \/ "EVENT_IDX" \notin features
                         \/ vring_need_event(avail_event, avail_idx, avail_idx - 1))
    /\ gpc' = "idle"
    /\ UNCHANGED <<queue, device, avail_ring, used_ring, signalled, isr, free,
                   last_used_idx, host>>

\* virtqueue_get_buf, from the callback or from a task that polls.  A driver
\* with a callback asks to be told of the next used entry.
GuestGetBuf ==
    /\ ready /\ gpc \in {"idle", "callback"} /\ last_used_idx # used_idx
    /\ free' = free \cup {used[last_used_idx % Num]}
    /\ last_used_idx' = uint(last_used_idx + 1)
    /\ used_event' = IF callback /\ "EVENT_IDX" \in features
                     THEN last_used_idx' ELSE used_event
    /\ UNCHANGED <<queue, device, avail, avail_idx, used_ring, signalled, kicked,
                   isr, gpc, host>>

\* The callback finds the used ring empty.
GuestDrained ==
    /\ gpc = "callback" /\ last_used_idx = used_idx
    /\ gpc' = "idle"
    /\ UNCHANGED <<queue, device, avail_ring, used_ring, signalled, kicked, isr,
                   free, last_used_idx, host>>

\* The interrupt: the guest reads the ISR register, which clears it, and calls
\* the driver's callback when something has been used.
GuestInterrupt ==
    /\ gpc = "idle" /\ isr = 1
    /\ isr' = 0
    /\ gpc' = IF callback /\ last_used_idx # used_idx THEN "callback" ELSE "idle"
    /\ UNCHANGED <<queue, device, avail_ring, used_ring, signalled, kicked, free,
                   last_used_idx, host>>

----------------------------------------------------------------------------
(* QEMU.  One of its threads at a time runs a handler.                     *)

\* virtio_queue_notify_vq.  The handler of an in queue does nothing.
HostKick ==
    /\ hpc = "idle" /\ kicked
    /\ kicked' = FALSE
    /\ hpc' = IF ready /\ dir = "out" THEN "pop" ELSE "idle"
    /\ UNCHANGED <<queue, device, avail_ring, used_ring, signalled, isr, guest,
                   elem, inuse, last_avail_idx>>

\* write_to_port: the back end has data for the guest.
HostData ==
    /\ hpc = "idle" /\ ready /\ dir = "in"
    /\ hpc' = "pop"
    /\ UNCHANGED <<queue, device, avail_ring, used_ring, signalled, kicked, isr,
                   guest, elem, inuse, last_avail_idx>>

virtqueue_num_heads == uint(avail_idx - last_avail_idx)

\* virtqueue_pop, up to taking the head.
HostPop ==
    /\ hpc = "pop" /\ virtqueue_num_heads # 0
    /\ elem' = avail[last_avail_idx % Num]
    /\ last_avail_idx' = uint(last_avail_idx + 1)
    /\ hpc' = "event"
    /\ UNCHANGED <<queue, device, avail_ring, used_ring, signalled, kicked, isr,
                   guest, inuse>>

HostPopEmpty ==
    /\ hpc = "pop" /\ virtqueue_num_heads = 0
    /\ hpc' = "notify"
    /\ UNCHANGED <<queue, device, avail_ring, used_ring, signalled, kicked, isr,
                   guest, elem, inuse, last_avail_idx>>

\* The rest of virtqueue_pop: it reads the guest's index a second time.
HostPopEvent ==
    /\ hpc = "event"
    /\ avail_event' = IF "EVENT_IDX" \in features THEN avail_idx ELSE avail_event
    /\ inuse' = inuse + 1
    /\ hpc' = "fill"
    /\ UNCHANGED <<queue, device, avail_ring, used, used_idx, signalled, kicked, isr,
                   guest, elem, last_avail_idx>>

\* Mutant of HostFill: the slot after the one that the index names.
FillNextSlot ==
    /\ hpc = "fill"
    /\ used' = [used EXCEPT ![uint(used_idx + 1) % Num] = elem]
    /\ hpc' = "flush"
    /\ UNCHANGED <<queue, device, avail_ring, used_idx, avail_event, signalled, kicked,
                   isr, guest, elem, inuse, last_avail_idx>>

\* virtqueue_fill
HostFill ==
    /\ hpc = "fill"
    /\ used' = [used EXCEPT ![used_idx % Num] = elem]
    /\ hpc' = "flush"
    /\ UNCHANGED <<queue, device, avail_ring, used_idx, avail_event, signalled, kicked,
                   isr, guest, elem, inuse, last_avail_idx>>

\* Mutant of HostFlush: a signalled index stays valid however old it is.
FlushKeepsSignalled ==
    /\ hpc = "flush"
    /\ used_idx' = uint(used_idx + 1)
    /\ inuse' = inuse - 1
    /\ elem' = NoElem
    /\ hpc' \in {"pop"} \cup (IF dir = "in" THEN {"notify"} ELSE {})
    /\ UNCHANGED <<queue, device, avail_ring, used, avail_event, signalled, kicked,
                   isr, guest, last_avail_idx>>

\* virtqueue_flush with a count of 1.  The handler of an out queue pops again;
\* write_to_port does so when data is left.
HostFlush ==
    /\ hpc = "flush"
    /\ used_idx' = uint(used_idx + 1)
    /\ inuse' = inuse - 1
    /\ signalled_used_valid' = (signalled_used_valid
                                /\ ~(int(used_idx' - signalled_used) < uint(used_idx' - used_idx)))
    /\ elem' = NoElem
    /\ hpc' \in {"pop"} \cup (IF dir = "in" THEN {"notify"} ELSE {})
    /\ UNCHANGED <<queue, device, avail_ring, used, avail_event, signalled_used, kicked,
                   isr, guest, last_avail_idx>>

NotifyOnEmpty ==
    "NOTIFY_ON_EMPTY" \in features /\ inuse = 0 /\ avail_idx = last_avail_idx

\* vring_notify: tell the guest, and what to remember of having looked.  A
\* queue without a callback has VRING_AVAIL_F_NO_INTERRUPT set.
vring_notify ==
    IF NotifyOnEmpty THEN TRUE
    ELSE IF "EVENT_IDX" \notin features THEN callback
    ELSE ~signalled_used_valid \/ vring_need_event(used_event, used_idx, signalled_used)

\* virtio_notify
HostNotify ==
    /\ hpc = "notify"
    /\ isr' = IF vring_notify THEN 1 ELSE isr
    /\ IF NotifyOnEmpty \/ "EVENT_IDX" \notin features
       THEN UNCHANGED signalled
       ELSE signalled_used' = used_idx /\ signalled_used_valid' = TRUE
    /\ hpc' = "idle"
    /\ UNCHANGED <<queue, device, avail_ring, used_ring, kicked, guest, elem, inuse,
                   last_avail_idx>>

----------------------------------------------------------------------------
(* Setting up, resetting and moving the device.                            *)

\* The guest acknowledges features, gives the ring's address and starts the
\* device, which sets the host notifier once if it is used at all.
GuestSetup(f) ==
    /\ ~ready /\ gpc = "idle" /\ hpc = "idle"
    /\ features' = f /\ ready' = TRUE
    /\ kicked' \in BOOLEAN
    /\ UNCHANGED <<queue, avail_ring, used_ring, signalled, isr, guest, host>>

\* Mutant of GuestReset: QEMU's position in the ring survives.
ResetKeepsPosition ==
    /\ ready /\ gpc = "idle" /\ hpc = "idle" /\ ~kicked
    /\ features' = {} /\ ready' = FALSE
    /\ isr' = 0
    /\ signalled_used' = 0 /\ signalled_used_valid' = FALSE
    /\ avail' = EmptyRing /\ avail_idx' = 0 /\ used_event' = 0
    /\ used' = EmptyRing /\ used_idx' = 0 /\ avail_event' = 0
    /\ free' = Heads /\ last_used_idx' = 0
    /\ UNCHANGED <<queue, kicked, gpc, host>>

\* virtio_reset, after the host notifier has been tested and its handler run.
\* The driver forgets its buffers and the ring; the next one is zeroed.
GuestReset ==
    /\ ready /\ gpc = "idle" /\ hpc = "idle" /\ ~kicked
    /\ features' = {} /\ ready' = FALSE
    /\ isr' = 0
    /\ last_avail_idx' = 0
    /\ signalled_used' = 0 /\ signalled_used_valid' = FALSE
    /\ avail' = EmptyRing /\ avail_idx' = 0 /\ used_event' = 0
    /\ used' = EmptyRing /\ used_idx' = 0 /\ avail_event' = 0
    /\ free' = Heads /\ last_used_idx' = 0
    /\ UNCHANGED <<queue, kicked, gpc, hpc, elem, inuse>>

\* virtio_save on a stopped machine, whose host notifiers have been tested, and
\* virtio_load in another QEMU: last_avail_idx and isr travel with the guest's
\* memory, the rest of the VirtQueue starts afresh.
Migrate ==
    /\ hpc = "idle" /\ ~kicked
    /\ signalled_used' = 0 /\ signalled_used_valid' = FALSE
    /\ inuse' = 0
    /\ kicked' \in (IF ready THEN BOOLEAN ELSE {FALSE})
    /\ UNCHANGED <<queue, device, avail_ring, used_ring, isr, guest, hpc, elem,
                   last_avail_idx>>

----------------------------------------------------------------------------
Guest == \/ \E h \in Heads : GuestAdd(h)
         \/ GuestKick \/ GuestGetBuf \/ GuestDrained \/ GuestInterrupt
Handler == HostPop \/ HostPopEmpty \/ HostPopEvent \/ HostFill \/ HostFlush \/ HostNotify
Host == HostKick \/ HostData \/ Handler
Next == \/ Guest \/ Host
        \/ \E f \in SUBSET Features : GuestSetup(f)
        \/ GuestReset \/ Migrate

Spec == Init /\ [][Next]_vars

\* The guest finishes a kick, takes its interrupts and runs its callback to the
\* end; a driver without a callback polls.  QEMU serves a set notifier and
\* finishes a handler.  Nothing obliges the guest to add buffers, the back end
\* to have data, or anyone to reset or migrate.
Fairness ==
    /\ WF_vars(GuestKick) /\ WF_vars(GuestInterrupt) /\ WF_vars(GuestDrained)
    /\ WF_vars((gpc = "callback" \/ ~callback) /\ GuestGetBuf)
    /\ WF_vars(HostKick) /\ WF_vars(Handler)

FairSpec == Spec /\ Fairness

----------------------------------------------------------------------------
(* Properties.                                                             *)

\* The entries of a ring from one index up to another.
Entries(ring, from, to) == [i \in 1 .. uint(to - from) |-> ring[uint(from + i - 1) % Num]]

Posted == Entries(avail, last_avail_idx, avail_idx)
Returned == Entries(used, last_used_idx, used_idx)

\* Every variable has its type; the guest is never further ahead of QEMU than
\* the ring is long (virtqueue_num_heads and virtio_load would give up), and
\* nothing is in use between two handlers.
TypeOK ==
    /\ dir \in {"out", "in"} /\ callback \in BOOLEAN
    /\ features \subseteq Features /\ ready \in BOOLEAN
    /\ avail \in [Heads -> Heads] /\ used \in [Heads -> Heads]
    /\ {avail_idx, used_event, used_idx, avail_event} \subseteq Idx
    /\ {last_avail_idx, signalled_used, last_used_idx} \subseteq Idx
    /\ signalled_used_valid \in BOOLEAN /\ kicked \in BOOLEAN /\ isr \in {0, 1}
    /\ inuse = IF hpc \in {"fill", "flush"} THEN 1 ELSE 0
    /\ virtqueue_num_heads <= Num
    /\ gpc \in {"idle", "kick", "callback"} /\ free \subseteq Heads
    /\ hpc \in {"idle", "pop", "event", "fill", "flush", "notify"}
    /\ elem \in IF hpc \in {"event", "fill", "flush"} THEN Heads ELSE {NoElem}

Abstract == INSTANCE BufferQueue
    WITH Buffers <- Heads, free <- free, posted <- Posted,
         taken <- IF elem = NoElem THEN {} ELSE {elem}, returned <- Returned

\* Through every wrap of the indices, every reset and every migration the rings
\* of virtio.c are a queue of buffers: taken in order, each given back once,
\* collected in order, never in two places.
ImplementsQueue == Abstract!QueueSpec

\* No kick and no interrupt is lost, whichever features the guest has taken and
\* however often the machine is migrated: a buffer posted on an out queue, or
\* given back on any queue, gets back to the driver.
BuffersComeBack ==
    \A h \in Heads : (h \in Range(Returned) \/ (dir = "out" /\ h \in Range(Posted)))
                         ~> h \in free
=============================================================================
