--------------------------- MODULE CryptodevAsync ---------------------------
(***************************************************************************)
(* The asynchronous jobs of one open /dev/crypto file                      *)
(* (cryptodev-linux/ioctl.c): crypto_async_run takes a ring item from the  *)
(* free list, or allocates one, and appends it to the todo list; the work  *)
(* function cryptask_routine moves the todo list through crypto_run to the *)
(* done list; crypto_async_fetch takes the first completed job and puts    *)
(* the item back on the free list.  Every list has a mutex of its own, so  *)
(* a step is one critical section, or what happens between two of them.    *)
(*                                                                         *)
(* The kernel may run the work function on several CPUs at a time: queuing *)
(* it again while it runs starts it on another one.                        *)
(***************************************************************************)
EXTENDS Integers, Sequences, FiniteSets, Functions

CONSTANTS Tasks,     \* the tasks that use the file
          Workers,   \* the CPUs the work function may run on
          Items,     \* the memory cells a struct todo_list_item may occupy
          DefRing,   \* DEF_COP_RINGSIZE
          MaxRing,   \* MAX_COP_RINGSIZE
          MayFail,   \* may kzalloc of a ring item fail?
          NoItem

ASSUME RingSizes == DefRing \in Nat /\ MaxRing \in Nat /\ DefRing <= MaxRing
ASSUME NoItemFresh == NoItem \notin Items
ASSUME MayFailBoolean == MayFail \in BOOLEAN

VARIABLES open,       \* does the file exist?
          heap,       \* the allocated items
          free, todo, done,  \* pcr->free, pcr->todo, pcr->done
          itemcount,  \* pcr->itemcount
          pending,    \* the work item is queued and has not started
          wpc,        \* where each worker is in cryptask_routine
          tmp,        \* the jobs each worker has taken
          ran,        \* the items whose job crypto_run has handled
          pc,         \* where each task is
          item,       \* the item a task has in hand
          want,       \* the event a polling task waits for
          ready,      \* what a poll has found so far, or last reported
          woken       \* the polling tasks that were woken since they last looked

lists == <<free, todo, done>>
work == <<pending, wpc, tmp>>
vars == <<open, heap, free, todo, done, itemcount, pending, wpc, tmp, ran,
          pc, item, want, ready, woken>>
polls == <<want, ready, woken>>

Events == {"in", "out"}
TaskPCs == {"idle", "alloc", "add", "kick", "recycle", "wake",
            "readDone", "readFree", "wait"}
WorkerPCs == {"idle", "cut", "run", "wake"}

Goto(t, l) == pc' = [pc EXCEPT ![t] = l]
WGoto(w, l) == wpc' = [wpc EXCEPT ![w] = l]

\* A new ioctl forgets what the last poll said.
Enter(t, l) == /\ Goto(t, l)
               /\ ready' = [ready EXCEPT ![t] = {}]
               /\ UNCHANGED <<want, woken>>

\* The tasks on pcr->user_waiter; wake_up_interruptible marks all of them.
Waiters == {t \in Tasks : pc[t] \in {"readDone", "readFree", "wait"}}

----------------------------------------------------------------------------
(* cryptodev_open                                                          *)

Init ==
    /\ open = FALSE
    /\ heap = {} /\ free = <<>> /\ todo = <<>> /\ done = <<>>
    /\ itemcount = 0
    /\ pending = FALSE
    /\ wpc = [w \in Workers |-> "idle"] /\ tmp = [w \in Workers |-> <<>>]
    /\ ran = {}
    /\ pc = [t \in Tasks |-> "idle"]
    /\ item = [t \in Tasks |-> NoItem]
    /\ want = [t \in Tasks |-> "in"]
    /\ ready = [t \in Tasks |-> {}] /\ woken = {}

\* The ring starts with DefRing items, each linked at the head of the list.
Open ==
    /\ ~open
    /\ \E ring \in [1..DefRing -> Items \ heap] :
          /\ IsInjective(ring)
          /\ free' = ring
          /\ heap' = heap \cup Range(ring)
    /\ itemcount' = DefRing
    /\ open' = TRUE
    /\ UNCHANGED <<todo, done, work, ran, pc, item, polls>>

\* kzalloc fails on the way: -ENOMEM, and what was allocated is left behind.
OpenFails ==
    /\ ~open /\ MayFail
    /\ \E left \in SUBSET (Items \ heap) :
          Cardinality(left) < DefRing /\ heap' = heap \cup left
    /\ UNCHANGED <<open, lists, itemcount, work, ran, pc, item, polls>>

----------------------------------------------------------------------------
(* crypto_async_run                                                        *)

\* Under free.lock: take a free item ...
Take(t) ==
    /\ open /\ pc[t] = "idle" /\ free # <<>>
    /\ item' = [item EXCEPT ![t] = Head(free)]
    /\ free' = Tail(free)
    /\ Enter(t, "add")
    /\ UNCHANGED <<open, heap, todo, done, itemcount, work, ran>>

\* Mutant: one item too many.
ReserveOneMore(t) ==
    /\ open /\ pc[t] = "idle" /\ free = <<>>
    /\ itemcount <= MaxRing
    /\ itemcount' = itemcount + 1
    /\ Enter(t, "alloc")
    /\ UNCHANGED <<open, heap, lists, work, ran, item>>

\* ... or reserve the right to allocate one ...
Reserve(t) ==
    /\ open /\ pc[t] = "idle" /\ free = <<>>
    /\ itemcount < MaxRing
    /\ itemcount' = itemcount + 1
    /\ Enter(t, "alloc")
    /\ UNCHANGED <<open, heap, lists, work, ran, item>>

\* ... or return -EBUSY.
RunBusy(t) ==
    /\ open /\ pc[t] = "idle" /\ free = <<>>
    /\ itemcount >= MaxRing
    /\ Enter(t, "idle")
    /\ UNCHANGED <<open, heap, lists, itemcount, work, ran, item>>

\* kzalloc, outside any lock.
Alloc(t) ==
    /\ pc[t] = "alloc"
    /\ \E i \in Items \ heap :
          heap' = heap \cup {i} /\ item' = [item EXCEPT ![t] = i]
    /\ Goto(t, "add")
    /\ UNCHANGED <<open, lists, itemcount, work, ran, polls>>

\* kzalloc fails: -EFAULT.  The count stays raised.
AllocFails(t) ==
    /\ pc[t] = "alloc" /\ MayFail
    /\ Goto(t, "idle")
    /\ UNCHANGED <<open, heap, lists, itemcount, work, ran, item, polls>>

\* The job is copied into the item, which joins the todo list.
Add(t) ==
    /\ pc[t] = "add"
    /\ todo' = Append(todo, item[t])
    /\ ran' = ran \ {item[t]}
    /\ item' = [item EXCEPT ![t] = NoItem]
    /\ Goto(t, "kick")
    /\ UNCHANGED <<open, heap, free, done, itemcount, work, polls>>

\* Mutant: the work is queued only when it does not run already.
KickWhenIdle(t) ==
    /\ pc[t] = "kick"
    /\ pending' = (pending \/ \A w \in Workers : wpc[w] = "idle")
    /\ Goto(t, "idle")
    /\ UNCHANGED <<open, heap, lists, itemcount, wpc, tmp, ran, item, polls>>

\* queue_work: does nothing if the work is queued already.
Kick(t) ==
    /\ pc[t] = "kick"
    /\ pending' = TRUE
    /\ Goto(t, "idle")
    /\ UNCHANGED <<open, heap, lists, itemcount, wpc, tmp, ran, item, polls>>

----------------------------------------------------------------------------
(* cryptask_routine                                                        *)

\* The workqueue clears the pending bit before it calls the function.
WorkStart(w) ==
    /\ pending /\ wpc[w] = "idle"
    /\ pending' = FALSE
    /\ WGoto(w, "cut")
    /\ UNCHANGED <<open, heap, lists, itemcount, tmp, ran, pc, item, polls>>

\* Under todo.lock the whole list moves to tmp.
Cut(w) ==
    /\ wpc[w] = "cut"
    /\ tmp' = [tmp EXCEPT ![w] = todo]
    /\ todo' = <<>>
    /\ WGoto(w, "run")
    /\ UNCHANGED <<open, heap, free, done, itemcount, pending, ran, pc, item, polls>>

\* crypto_run on the next job, without locks of this module.
RunJob(w) ==
    /\ wpc[w] = "run"
    /\ \E k \in DOMAIN tmp[w] :
          /\ tmp[w][k] \notin ran
          /\ \A j \in 1..(k - 1) : tmp[w][j] \in ran
          /\ ran' = ran \cup {tmp[w][k]}
    /\ UNCHANGED <<open, heap, lists, itemcount, work, pc, item, polls>>

\* Mutant: nobody is woken.
SpliceSilent(w) ==
    /\ wpc[w] = "run" /\ Range(tmp[w]) \subseteq ran
    /\ done' = done \o tmp[w]
    /\ tmp' = [tmp EXCEPT ![w] = <<>>]
    /\ WGoto(w, "idle")
    /\ UNCHANGED <<open, heap, free, todo, itemcount, pending, ran, pc, item, polls>>

\* Under done.lock all handled jobs are appended.
Splice(w) ==
    /\ wpc[w] = "run" /\ Range(tmp[w]) \subseteq ran
    /\ done' = done \o tmp[w]
    /\ tmp' = [tmp EXCEPT ![w] = <<>>]
    /\ WGoto(w, "wake")
    /\ UNCHANGED <<open, heap, free, todo, itemcount, pending, ran, pc, item, polls>>

\* "wake for POLLIN"
WorkWake(w) ==
    /\ wpc[w] = "wake"
    /\ woken' = Waiters
    /\ WGoto(w, "idle")
    /\ UNCHANGED <<open, heap, lists, itemcount, pending, tmp, ran, pc, item, want, ready>>

----------------------------------------------------------------------------
(* crypto_async_fetch                                                      *)

\* Mutant: list_first_entry without list_del.
FetchLinked(t) ==
    /\ open /\ pc[t] = "idle" /\ done # <<>>
    /\ item' = [item EXCEPT ![t] = Head(done)]
    /\ Enter(t, "recycle")
    /\ UNCHANGED <<open, heap, lists, itemcount, work, ran>>

\* Under done.lock: the first completed job, or -EBUSY.
Fetch(t) ==
    /\ open /\ pc[t] = "idle" /\ done # <<>>
    /\ item' = [item EXCEPT ![t] = Head(done)]
    /\ done' = Tail(done)
    /\ Enter(t, "recycle")
    /\ UNCHANGED <<open, heap, free, todo, itemcount, work, ran>>

FetchBusy(t) ==
    /\ open /\ pc[t] = "idle" /\ done = <<>>
    /\ Enter(t, "idle")
    /\ UNCHANGED <<open, heap, lists, itemcount, work, ran, item>>

\* The result is copied out and, under free.lock, the item is recycled.
Recycle(t) ==
    /\ pc[t] = "recycle"
    /\ free' = Append(free, item[t])
    /\ item' = [item EXCEPT ![t] = NoItem]
    /\ Goto(t, "wake")
    /\ UNCHANGED <<open, heap, todo, done, itemcount, work, ran, polls>>

\* "wake for POLLOUT"
FetchWake(t) ==
    /\ pc[t] = "wake"
    /\ woken' = Waiters
    /\ Goto(t, "idle")
    /\ UNCHANGED <<open, heap, lists, itemcount, work, ran, item, want, ready>>

----------------------------------------------------------------------------
(* poll(2): the system call calls cryptodev_poll, and calls it again when  *)
(* it is woken, until the event it waits for is reported or it times out.  *)

LeavePoll(t) == Goto(t, "idle") /\ woken' = woken \ {t}

\* poll_wait puts the task on pcr->user_waiter before the lists are looked at.
PollStart(t) ==
    /\ open /\ pc[t] = "idle"
    /\ \E e \in Events : want' = [want EXCEPT ![t] = e]
    /\ ready' = [ready EXCEPT ![t] = {}]
    /\ Goto(t, "readDone")
    /\ UNCHANGED <<open, heap, lists, itemcount, work, ran, item, woken>>

\* The two lists are read one after the other, without their locks.
CanFetch == done # <<>>
CanRun == free # <<>> \/ itemcount < MaxRing

PollDone(t) ==
    /\ pc[t] = "readDone"
    /\ ready' = [ready EXCEPT ![t] = IF CanFetch THEN {"in"} ELSE {}]
    /\ Goto(t, "readFree")
    /\ UNCHANGED <<open, heap, lists, itemcount, work, ran, item, want, woken>>

PollFree(t) ==
    /\ pc[t] = "readFree"
    /\ ready' = [ready EXCEPT ![t] = IF CanRun THEN @ \cup {"out"} ELSE @]
    /\ Goto(t, "wait")
    /\ UNCHANGED <<open, heap, lists, itemcount, work, ran, item, want, woken>>

PollReturn(t) ==
    /\ pc[t] = "wait" /\ want[t] \in ready[t]
    /\ LeavePoll(t)
    /\ UNCHANGED <<open, heap, lists, itemcount, work, ran, item, want, ready>>

PollAgain(t) ==
    /\ pc[t] = "wait" /\ want[t] \notin ready[t] /\ t \in woken
    /\ Goto(t, "readDone")
    /\ woken' = woken \ {t}
    /\ UNCHANGED <<open, heap, lists, itemcount, work, ran, item, want, ready>>

PollTimeout(t) ==
    /\ pc[t] = "wait" /\ want[t] \notin ready[t]
    /\ LeavePoll(t)
    /\ ready' = [ready EXCEPT ![t] = {}]
    /\ UNCHANGED <<open, heap, lists, itemcount, work, ran, item, want>>

----------------------------------------------------------------------------
(* cryptodev_release                                                       *)

\* No call is in progress.  cancel_work_sync takes a queued work item back and
\* waits for running ones; then todo and done are spliced into free and every
\* item of the list is freed.
Freed == Range(free) \cup Range(todo) \cup Range(done)

Release ==
    /\ open
    /\ \A t \in Tasks : pc[t] = "idle"
    /\ \A w \in Workers : wpc[w] = "idle"
    /\ open' = FALSE
    /\ pending' = FALSE
    /\ heap' = heap \ Freed
    /\ free' = <<>> /\ todo' = <<>> /\ done' = <<>>
    /\ itemcount' = 0
    /\ ran' = {}
    /\ ready' = [t \in Tasks |-> {}]
    /\ UNCHANGED <<wpc, tmp, pc, item, want, woken>>

----------------------------------------------------------------------------
AsyncRun(t) == Take(t) \/ Reserve(t) \/ RunBusy(t) \/ Alloc(t) \/ AllocFails(t)
               \/ Add(t) \/ Kick(t)
AsyncFetch(t) == Fetch(t) \/ FetchBusy(t) \/ Recycle(t) \/ FetchWake(t)
Poll(t) == PollStart(t) \/ PollDone(t) \/ PollFree(t) \/ PollReturn(t)
           \/ PollAgain(t) \/ PollTimeout(t)
Work(w) == WorkStart(w) \/ Cut(w) \/ RunJob(w) \/ Splice(w) \/ WorkWake(w)

Next == \/ Open \/ OpenFails \/ Release
        \/ \E t \in Tasks : AsyncRun(t) \/ AsyncFetch(t) \/ Poll(t)
        \/ \E w \in Workers : Work(w)

Spec == Init /\ [][Next]_vars

----------------------------------------------------------------------------
(* Properties.                                                             *)

\* The type invariant; crypto_async_run never lets the ring grow past
\* MAX_COP_RINGSIZE.
TypeOK ==
    /\ open \in BOOLEAN /\ pending \in BOOLEAN
    /\ heap \subseteq Items /\ ran \subseteq Items
    /\ free \in Seq(Items) /\ todo \in Seq(Items) /\ done \in Seq(Items)
    /\ itemcount \in 0..MaxRing
    /\ wpc \in [Workers -> WorkerPCs]
    /\ tmp \in [Workers -> Seq(Items)]
    /\ pc \in [Tasks -> TaskPCs]
    /\ item \in [Tasks -> Items \cup {NoItem}]
    /\ want \in [Tasks -> Events]
    /\ ready \in [Tasks -> SUBSET Events]
    /\ woken \subseteq Waiters

\* The places an item can be in: the lists by name, each worker's tmp, and the
\* hands of each task.
Contents == <<free, todo, done>>
InHand(t) == IF item[t] = NoItem THEN {} ELSE {item[t]}

\* A ring item is linked in one list only, once, and an item in the hands of a
\* task or in a worker's tmp is in no list: two tasks never share an item, and
\* no list is corrupted by linking an entry twice.
LinkedOnce ==
    /\ \A n \in 1..3 : IsInjective(Contents[n])
    /\ \A m, n \in 1..3 : m # n => Range(Contents[m]) \cap Range(Contents[n]) = {}
    /\ \A w \in Workers : /\ IsInjective(tmp[w])
                          /\ Range(tmp[w]) \cap Freed = {}
                          /\ \A v \in Workers \ {w} : Range(tmp[w]) \cap Range(tmp[v]) = {}
    /\ \A t \in Tasks : /\ InHand(t) \cap Freed = {}
                        /\ \A w \in Workers : InHand(t) \cap Range(tmp[w]) = {}
                        /\ \A u \in Tasks \ {t} : InHand(t) \cap InHand(u) = {}

\* queue_work after list_add_tail, and the pending bit cleared before the list
\* is cut, leave no job behind: as long as a job is on the todo list the work
\* is queued, or about to be queued, or about to take the list.
JobsNoticed ==
    todo # <<>> => \/ pending
                   \/ \E t \in Tasks : pc[t] = "kick"
                   \/ \E w \in Workers : wpc[w] = "cut"

\* What a poll would report now.
Mask == {e \in Events : IF e = "in" THEN CanFetch ELSE CanRun}

\* A task asleep in poll(2) whose event has come will be woken: the list is
\* changed before wake_up_interruptible, and poll_wait precedes the check.
NoLostWakeup ==
    \A t \in Tasks :
       pc[t] = "wait" /\ want[t] \in Mask \ ready[t] =>
          \/ t \in woken
          \/ \E u \in Tasks : pc[u] = "wake"
          \/ \E w \in Workers : wpc[w] = "wake"

----------------------------------------------------------------------------
(* Liveness.  A task inside a call keeps running, and the workqueue runs   *)
(* queued work.                                                            *)

TaskStep(t) == Alloc(t) \/ AllocFails(t) \/ Add(t) \/ Kick(t) \/ Recycle(t) \/ FetchWake(t)
               \/ PollDone(t) \/ PollFree(t) \/ PollReturn(t) \/ PollAgain(t)

FairSpec == /\ Spec
            /\ \A t \in Tasks : WF_vars(TaskStep(t))
            /\ \A w \in Workers : WF_vars(Work(w))

\* A submitted job is completed, unless the file is released before.
JobsComplete == \A i \in Items : i \in Range(todo) ~> i \in Range(done) \/ ~open
=============================================================================
