----------------------------- MODULE BufferQueue -----------------------------
(***************************************************************************)
(* What a virtqueue promises the driver and the device, without rings and  *)
(* indices: the driver posts buffers, the device takes them in the order   *)
(* in which they were posted and gives back each one that it took, and the *)
(* driver collects them in the order in which they were given back.  A     *)
(* buffer is in one place at a time.  Resetting the device gives all of    *)
(* them to the driver.                                                     *)
(***************************************************************************)
EXTENDS Sequences

CONSTANT Buffers

VARIABLES free,     \* the buffers the driver has
          posted,   \* posted by the driver, not yet taken
          taken,    \* taken by the device
          returned  \* given back, not yet collected

qvars == <<free, posted, taken, returned>>

QueueInit == free = Buffers /\ posted = <<>> /\ taken = {} /\ returned = <<>>

Post(b) ==
    /\ b \in free
    /\ free' = free \ {b} /\ posted' = Append(posted, b)
    /\ UNCHANGED <<taken, returned>>

Take ==
    /\ posted # <<>>
    /\ taken' = taken \cup {Head(posted)} /\ posted' = Tail(posted)
    /\ UNCHANGED <<free, returned>>

Return(b) ==
    /\ b \in taken
    /\ taken' = taken \ {b} /\ returned' = Append(returned, b)
    /\ UNCHANGED <<free, posted>>

Collect ==
    /\ returned # <<>>
    /\ free' = free \cup {Head(returned)} /\ returned' = Tail(returned)
    /\ UNCHANGED <<posted, taken>>

Clear == free' = Buffers /\ posted' = <<>> /\ taken' = {} /\ returned' = <<>>

QueueNext == \/ \E b \in Buffers : Post(b) \/ Return(b)
             \/ Take \/ Collect \/ Clear

QueueSpec == QueueInit /\ [][QueueNext]_qvars
=============================================================================
