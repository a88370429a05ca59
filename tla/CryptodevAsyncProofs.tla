------------------------ MODULE CryptodevAsyncProofs ------------------------
(***************************************************************************)
(* Proofs about CryptodevAsync, for any number of tasks, workers and ring  *)
(* items, any ring sizes, and with or without failing allocations.         *)
(***************************************************************************)
EXTENDS CryptodevAsync, TLAPS

----------------------------------------------------------------------------
(* The inductive invariant.                                                *)

\* LinkedOnce with its lists by name.
ListsApart ==
    /\ IsInjective(free) /\ IsInjective(todo) /\ IsInjective(done)
    /\ Range(free) \cap Range(todo) = {}
    /\ Range(free) \cap Range(done) = {}
    /\ Range(todo) \cap Range(done) = {}
TmpApart ==
    \A w \in Workers : /\ IsInjective(tmp[w])
                       /\ Range(tmp[w]) \cap Freed = {}
                       /\ \A v \in Workers \ {w} : Range(tmp[w]) \cap Range(tmp[v]) = {}
HandsApart ==
    \A t \in Tasks : /\ item[t] # NoItem => item[t] \notin Freed
                     /\ item[t] # NoItem => \A w \in Workers : item[t] \notin Range(tmp[w])
                     /\ item[t] # NoItem => \A u \in Tasks \ {t} : item[u] # item[t]

\* A task has an item in hand exactly between taking and linking it, a worker
\* has jobs only while it runs them, and every item in use is allocated.
PlaceInv ==
    /\ \A t \in Tasks : item[t] # NoItem <=> pc[t] \in {"add", "recycle"}
    /\ \A w \in Workers : wpc[w] # "run" => tmp[w] = <<>>
HeapInv ==
    /\ Freed \subseteq heap
    /\ \A t \in Tasks : item[t] # NoItem => item[t] \in heap
    /\ \A w \in Workers : Range(tmp[w]) \subseteq heap

\* Nobody is in a call on a file that is not open.
ClosedInv ==
    ~open => /\ \A t \in Tasks : pc[t] = "idle"
             /\ todo = <<>>

\* A wake-up is due to task t.
Due(t) == \/ t \in woken
          \/ \E u \in Tasks : pc[u] = "wake"
          \/ \E w \in Workers : wpc[w] = "wake"
\* A poller that has read the done list and not yet the free list will look at
\* the former again if a job was completed since.
HalfRead == \A t \in Tasks : pc[t] = "readFree" /\ "in" \notin ready[t] /\ done # <<>> => Due(t)

IInv == /\ TypeOK /\ ListsApart /\ TmpApart /\ HandsApart /\ PlaceInv /\ HeapInv
        /\ ClosedInv /\ JobsNoticed /\ HalfRead /\ NoLostWakeup

----------------------------------------------------------------------------
(* Sequences without repetition.                                           *)

\* Taking the first entry off a list.
LEMMA TailFacts ==
  ASSUME NEW S, NEW s \in Seq(S), s # <<>>, IsInjective(s)
  PROVE  /\ Head(s) \in S /\ Tail(s) \in Seq(S) /\ IsInjective(Tail(s))
         /\ Head(s) \in Range(s) /\ Head(s) \notin Range(Tail(s))
         /\ Range(Tail(s)) \subseteq Range(s)
  BY DEF IsInjective, Range

\* Linking an entry that is not in the list.
LEMMA AppendFacts ==
  ASSUME NEW S, NEW s \in Seq(S), NEW x \in S, IsInjective(s), x \notin Range(s)
  PROVE  /\ Append(s, x) \in Seq(S) /\ IsInjective(Append(s, x))
         /\ Range(Append(s, x)) = Range(s) \cup {x}
<1> DEFINE r == Append(s, x)
<1>1. r \in Seq(S) /\ DOMAIN s = 1..Len(s) /\ DOMAIN r = 1..(Len(s) + 1) /\ Len(s) \in Nat
  OBVIOUS
<1>2. \A k \in DOMAIN s : r[k] = s[k] /\ k # Len(s) + 1
  BY <1>1
<1>3. r[Len(s) + 1] = x
  BY <1>1
<1>4. DOMAIN r = DOMAIN s \cup {Len(s) + 1}
  BY <1>1
<1> HIDE DEF r
<1>5. IsInjective(r)
  BY <1>2, <1>3, <1>4, Zenon DEF IsInjective, Range
<1>6. Range(r) = Range(s) \cup {x}
  BY <1>2, <1>3, <1>4 DEF Range
<1>7. QED BY <1>1, <1>5, <1>6, Zenon DEF r

\* Splicing two lists that share no entry.
LEMMA ConcatFacts ==
  ASSUME NEW S, NEW s \in Seq(S), NEW r \in Seq(S), IsInjective(s), IsInjective(r),
         Range(s) \cap Range(r) = {}
  PROVE  /\ s \o r \in Seq(S) /\ IsInjective(s \o r)
         /\ Range(s \o r) = Range(s) \cup Range(r)
<1> DEFINE c == s \o r
<1>1. /\ c \in Seq(S) /\ Len(s) \in Nat /\ Len(r) \in Nat
      /\ DOMAIN s = 1..Len(s) /\ DOMAIN r = 1..Len(r) /\ DOMAIN c = 1..(Len(s) + Len(r))
  OBVIOUS
<1>2. \A k \in DOMAIN s : k \in DOMAIN c /\ c[k] = s[k]
  BY <1>1
<1>3. \A k \in DOMAIN r : k + Len(s) \in DOMAIN c /\ c[k + Len(s)] = r[k]
  BY <1>1
<1>4. \A k \in DOMAIN c : k \in DOMAIN s \/ (k - Len(s) \in DOMAIN r /\ c[k] = r[k - Len(s)])
  BY <1>1
<1> HIDE DEF c
<1>5. ASSUME NEW j \in DOMAIN c, NEW k \in DOMAIN c, c[j] = c[k]
      PROVE  j = k
  <2>1. CASE j \in DOMAIN s /\ k \in DOMAIN s
    BY <1>2, <1>5, <2>1, Zenon DEF IsInjective
  <2>2. CASE j \notin DOMAIN s /\ k \notin DOMAIN s
    <3>1. j - Len(s) = k - Len(s)
      BY <1>4, <1>5, <2>2, Zenon DEF IsInjective
    <3>2. QED BY <1>1, <3>1
  <2>3. CASE j \in DOMAIN s /\ k \notin DOMAIN s
    BY <1>2, <1>4, <1>5, <2>3 DEF Range
  <2>4. CASE j \notin DOMAIN s /\ k \in DOMAIN s
    BY <1>2, <1>4, <1>5, <2>4 DEF Range
  <2>5. QED BY <2>1, <2>2, <2>3, <2>4, Zenon
<1>6. IsInjective(c)
  BY <1>5, Zenon DEF IsInjective
<1>7. Range(c) = Range(s) \cup Range(r)
  <2>1. Range(c) \subseteq Range(s) \cup Range(r)
    BY <1>2, <1>4, Zenon DEF Range
  <2>2. Range(s) \subseteq Range(c)
    BY <1>2, Zenon DEF Range
  <2>3. Range(r) \subseteq Range(c)
    BY <1>3, Zenon DEF Range
  <2>4. QED BY <2>1, <2>2, <2>3, Zenon
<1>8. QED BY <1>1, <1>6, <1>7, Zenon DEF c

\* The empty list.
LEMMA EmptyFacts ==
  ASSUME NEW S
  PROVE  << >> \in Seq(S) /\ IsInjective(<< >>) /\ Range(<< >>) = {}
  BY DEF IsInjective, Range

\* ListsApart, TmpApart and HandsApart are LinkedOnce.
LEMMA LinkedOnceFromApart ==
  ASSUME IInv
  PROVE  LinkedOnce
<1> USE DEF IInv, TypeOK
<1>1. /\ \A n \in 1..3 : IsInjective(Contents[n])
      /\ \A m, n \in 1..3 : m # n => Range(Contents[m]) \cap Range(Contents[n]) = {}
  BY DEF Contents, ListsApart
<1>2. \A t \in Tasks : /\ InHand(t) \cap Freed = {}
                       /\ \A w \in Workers : InHand(t) \cap Range(tmp[w]) = {}
                       /\ \A u \in Tasks \ {t} : InHand(t) \cap InHand(u) = {}
  BY Zenon DEF InHand, HandsApart
<1>3. QED BY <1>1, <1>2, Zenon DEF LinkedOnce, TmpApart
----------------------------------------------------------------------------
(* Steps that leave every item where it is.                                *)

\* Which item is where depends on the lists, the workers' and the tasks' alone.
LEMMA SamePlaces ==
  ASSUME IInv, UNCHANGED <<free, todo, done, tmp, item>>
  PROVE  (ListsApart /\ TmpApart /\ HandsApart)'
  BY Zenon DEF IInv, ListsApart, TmpApart, HandsApart, Freed

\* A failed cryptodev_open leaves memory behind, and no list.
LEMMA OpenFailsInv ==
  ASSUME IInv, OpenFails
  PROVE  IInv'
<1> USE DEF OpenFails, lists, work, polls, IInv
<1>1. TypeOK'
  BY RingSizes, Zenon DEF TypeOK, Waiters, TaskPCs, WorkerPCs, Events
<1>2. (ListsApart /\ TmpApart /\ HandsApart)'
  BY SamePlaces, Zenon
<1>3. PlaceInv' /\ HeapInv'
  BY Zenon DEF TypeOK, PlaceInv, HeapInv, Freed
<1>4. ClosedInv' /\ JobsNoticed'
  BY Zenon DEF TypeOK, ClosedInv, JobsNoticed
<1>5. HalfRead'
  BY Zenon DEF TypeOK, HalfRead, Due, Waiters, ClosedInv
<1>6. NoLostWakeup'
  BY Zenon DEF TypeOK, NoLostWakeup, HalfRead, Due, Mask, Events, CanFetch, CanRun, Waiters,
       ClosedInv
<1>7. QED BY <1>1, <1>2, <1>3, <1>4, <1>5, <1>6, Zenon

\* The count is raised under free.lock, below its limit.
LEMMA ReserveInv ==
  ASSUME IInv, NEW t \in Tasks, Reserve(t)
  PROVE  IInv'
<1> USE DEF Reserve, Goto, Enter, lists, work, polls, IInv
<1>1. TypeOK'
  BY RingSizes DEF TypeOK, Waiters, TaskPCs, WorkerPCs, Events
<1>2. (ListsApart /\ TmpApart /\ HandsApart)'
  BY SamePlaces, Zenon
<1>3. PlaceInv' /\ HeapInv'
  BY Zenon DEF TypeOK, PlaceInv, HeapInv, Freed
<1>4. ClosedInv' /\ JobsNoticed'
  BY Zenon DEF TypeOK, ClosedInv, JobsNoticed
<1>5. HalfRead'
  BY Zenon DEF TypeOK, HalfRead, Due, Waiters, ClosedInv
<1>6. NoLostWakeup'
  BY Zenon DEF TypeOK, NoLostWakeup, HalfRead, Due, Mask, Events, CanFetch, CanRun, Waiters,
       ClosedInv
<1>7. QED BY <1>1, <1>2, <1>3, <1>4, <1>5, <1>6, Zenon

\* A full ring refuses a job.
LEMMA RunBusyInv ==
  ASSUME IInv, NEW t \in Tasks, RunBusy(t)
  PROVE  IInv'
<1> USE DEF RunBusy, Goto, Enter, lists, work, polls, IInv
<1>1. TypeOK'
  BY RingSizes, Zenon DEF TypeOK, Waiters, TaskPCs, WorkerPCs, Events
<1>2. (ListsApart /\ TmpApart /\ HandsApart)'
  BY SamePlaces, Zenon
<1>3. PlaceInv' /\ HeapInv'
  BY Zenon DEF TypeOK, PlaceInv, HeapInv, Freed
<1>4. ClosedInv' /\ JobsNoticed'
  BY Zenon DEF TypeOK, ClosedInv, JobsNoticed
<1>5. HalfRead'
  BY Zenon DEF TypeOK, HalfRead, Due, Waiters, ClosedInv
<1>6. NoLostWakeup'
  BY Zenon DEF TypeOK, NoLostWakeup, HalfRead, Due, Mask, Events, CanFetch, CanRun, Waiters,
       ClosedInv
<1>7. QED BY <1>1, <1>2, <1>3, <1>4, <1>5, <1>6, Zenon

\* A failed kzalloc ends crypto_async_run.
LEMMA AllocFailsInv ==
  ASSUME IInv, NEW t \in Tasks, AllocFails(t)
  PROVE  IInv'
<1> USE DEF AllocFails, Goto, lists, work, polls, IInv
<1>1. TypeOK'
  BY RingSizes, Zenon DEF TypeOK, Waiters, TaskPCs, WorkerPCs, Events
<1>2. (ListsApart /\ TmpApart /\ HandsApart)'
  BY SamePlaces, Zenon
<1>3. PlaceInv' /\ HeapInv'
  BY Zenon DEF TypeOK, PlaceInv, HeapInv, Freed
<1>4. ClosedInv' /\ JobsNoticed'
  BY Zenon DEF TypeOK, ClosedInv, JobsNoticed
<1>5. HalfRead'
  BY Zenon DEF TypeOK, HalfRead, Due, Waiters, ClosedInv
<1>6. NoLostWakeup'
  BY Zenon DEF TypeOK, NoLostWakeup, HalfRead, Due, Mask, Events, CanFetch, CanRun, Waiters,
       ClosedInv
<1>7. QED BY <1>1, <1>2, <1>3, <1>4, <1>5, <1>6, Zenon

\* queue_work takes over from the task that linked the job.
LEMMA KickInv ==
  ASSUME IInv, NEW t \in Tasks, Kick(t)
  PROVE  IInv'
<1> USE DEF Kick, Goto, lists, work, polls, IInv
<1>1. TypeOK'
  BY RingSizes, Zenon DEF TypeOK, Waiters, TaskPCs, WorkerPCs, Events
<1>2. (ListsApart /\ TmpApart /\ HandsApart)'
  BY SamePlaces, Zenon
<1>3. PlaceInv' /\ HeapInv'
  BY Zenon DEF TypeOK, PlaceInv, HeapInv, Freed
<1>4. ClosedInv' /\ JobsNoticed'
  BY Zenon DEF TypeOK, ClosedInv, JobsNoticed
<1>5. HalfRead'
  BY Zenon DEF TypeOK, HalfRead, Due, Waiters, ClosedInv
<1>6. NoLostWakeup'
  BY Zenon DEF TypeOK, NoLostWakeup, HalfRead, Due, Mask, Events, CanFetch, CanRun, Waiters,
       ClosedInv
<1>7. QED BY <1>1, <1>2, <1>3, <1>4, <1>5, <1>6, Zenon

\* Nothing to fetch.
LEMMA FetchBusyInv ==
  ASSUME IInv, NEW t \in Tasks, FetchBusy(t)
  PROVE  IInv'
<1> USE DEF FetchBusy, Goto, Enter, lists, work, polls, IInv
<1>1. TypeOK'
  BY RingSizes, Zenon DEF TypeOK, Waiters, TaskPCs, WorkerPCs, Events
<1>2. (ListsApart /\ TmpApart /\ HandsApart)'
  BY SamePlaces, Zenon
<1>3. PlaceInv' /\ HeapInv'
  BY Zenon DEF TypeOK, PlaceInv, HeapInv, Freed
<1>4. ClosedInv' /\ JobsNoticed'
  BY Zenon DEF TypeOK, ClosedInv, JobsNoticed
<1>5. HalfRead'
  BY Zenon DEF TypeOK, HalfRead, Due, Waiters, ClosedInv
<1>6. NoLostWakeup'
  BY Zenon DEF TypeOK, NoLostWakeup, HalfRead, Due, Mask, Events, CanFetch, CanRun, Waiters,
       ClosedInv
<1>7. QED BY <1>1, <1>2, <1>3, <1>4, <1>5, <1>6, Zenon

\* "wake for POLLOUT" reaches every waiter.
LEMMA FetchWakeInv ==
  ASSUME IInv, NEW t \in Tasks, FetchWake(t)
  PROVE  IInv'
<1> USE DEF FetchWake, Goto, lists, work, polls, IInv
<1>1. TypeOK'
  BY RingSizes, Zenon DEF TypeOK, Waiters, TaskPCs, WorkerPCs, Events
<1>2. (ListsApart /\ TmpApart /\ HandsApart)'
  BY SamePlaces, Zenon
<1>3. PlaceInv' /\ HeapInv'
  BY Zenon DEF TypeOK, PlaceInv, HeapInv, Freed
<1>4. ClosedInv' /\ JobsNoticed'
  BY Zenon DEF TypeOK, ClosedInv, JobsNoticed
<1>5. HalfRead'
  BY Zenon DEF TypeOK, HalfRead, Due, Waiters, ClosedInv
<1>6. NoLostWakeup'
  BY Zenon DEF TypeOK, NoLostWakeup, HalfRead, Due, Mask, Events, CanFetch, CanRun, Waiters,
       ClosedInv
<1>7. QED BY <1>1, <1>2, <1>3, <1>4, <1>5, <1>6, Zenon

\* poll_wait precedes the look at the lists.
LEMMA PollStartInv ==
  ASSUME IInv, NEW t \in Tasks, PollStart(t)
  PROVE  IInv'
<1> USE DEF PollStart, Goto, lists, work, polls, IInv
<1>1. TypeOK'
  BY RingSizes DEF TypeOK, Waiters, TaskPCs, WorkerPCs, Events
<1>2. (ListsApart /\ TmpApart /\ HandsApart)'
  BY SamePlaces, Zenon
<1>3. PlaceInv' /\ HeapInv'
  BY Zenon DEF TypeOK, PlaceInv, HeapInv, Freed
<1>4. ClosedInv' /\ JobsNoticed'
  BY Zenon DEF TypeOK, ClosedInv, JobsNoticed
<1>5. HalfRead'
  BY Zenon DEF TypeOK, HalfRead, Due, Waiters, ClosedInv
<1>6. NoLostWakeup'
  BY Zenon DEF TypeOK, NoLostWakeup, HalfRead, Due, Mask, Events, CanFetch, CanRun, Waiters,
       ClosedInv
<1>7. QED BY <1>1, <1>2, <1>3, <1>4, <1>5, <1>6, Zenon

\* The done list is read.
LEMMA PollDoneInv ==
  ASSUME IInv, NEW t \in Tasks, PollDone(t)
  PROVE  IInv'
<1> USE DEF PollDone, Goto, CanFetch, lists, work, polls, IInv
<1>1. TypeOK'
  BY RingSizes, Zenon DEF TypeOK, Waiters, TaskPCs, WorkerPCs, Events
<1>2. (ListsApart /\ TmpApart /\ HandsApart)'
  BY SamePlaces, Zenon
<1>3. PlaceInv' /\ HeapInv'
  BY Zenon DEF TypeOK, PlaceInv, HeapInv, Freed
<1>4. ClosedInv' /\ JobsNoticed'
  BY Zenon DEF TypeOK, ClosedInv, JobsNoticed
<1>5. HalfRead'
  BY Zenon DEF TypeOK, HalfRead, Due, Waiters, ClosedInv
<1>6. NoLostWakeup'
  BY Zenon DEF TypeOK, NoLostWakeup, HalfRead, Due, Mask, Events, CanFetch, CanRun, Waiters,
       ClosedInv
<1>7. QED BY <1>1, <1>2, <1>3, <1>4, <1>5, <1>6, Zenon

\* The free list is read.
LEMMA PollFreeInv ==
  ASSUME IInv, NEW t \in Tasks, PollFree(t)
  PROVE  IInv'
<1> USE DEF PollFree, Goto, CanRun, lists, work, polls, IInv
<1>1. TypeOK'
  BY RingSizes, Zenon DEF TypeOK, Waiters, TaskPCs, WorkerPCs, Events
<1>2. (ListsApart /\ TmpApart /\ HandsApart)'
  BY SamePlaces, Zenon
<1>3. PlaceInv' /\ HeapInv'
  BY Zenon DEF TypeOK, PlaceInv, HeapInv, Freed
<1>4. ClosedInv' /\ JobsNoticed'
  BY Zenon DEF TypeOK, ClosedInv, JobsNoticed
<1>5. HalfRead'
  BY Zenon DEF TypeOK, HalfRead, Due, Waiters, ClosedInv
<1>6. NoLostWakeup'
  BY Zenon DEF TypeOK, NoLostWakeup, HalfRead, Due, Mask, Events, CanFetch, CanRun, Waiters,
       ClosedInv
<1>7. QED BY <1>1, <1>2, <1>3, <1>4, <1>5, <1>6, Zenon

\* A poll that found its event returns.
LEMMA PollReturnInv ==
  ASSUME IInv, NEW t \in Tasks, PollReturn(t)
  PROVE  IInv'
<1> USE DEF PollReturn, Goto, LeavePoll, lists, work, polls, IInv
<1>1. TypeOK'
  BY RingSizes, Zenon DEF TypeOK, Waiters, TaskPCs, WorkerPCs, Events
<1>2. (ListsApart /\ TmpApart /\ HandsApart)'
  BY SamePlaces, Zenon
<1>3. PlaceInv' /\ HeapInv'
  BY Zenon DEF TypeOK, PlaceInv, HeapInv, Freed
<1>4. ClosedInv' /\ JobsNoticed'
  BY Zenon DEF TypeOK, ClosedInv, JobsNoticed
<1>5. HalfRead'
  BY Zenon DEF TypeOK, HalfRead, Due, Waiters, ClosedInv
<1>6. NoLostWakeup'
  BY Zenon DEF TypeOK, NoLostWakeup, HalfRead, Due, Mask, Events, CanFetch, CanRun, Waiters,
       ClosedInv
<1>7. QED BY <1>1, <1>2, <1>3, <1>4, <1>5, <1>6, Zenon

\* A woken poller looks again.
LEMMA PollAgainInv ==
  ASSUME IInv, NEW t \in Tasks, PollAgain(t)
  PROVE  IInv'
<1> USE DEF PollAgain, Goto, lists, work, polls, IInv
<1>1. TypeOK'
  BY RingSizes, Zenon DEF TypeOK, Waiters, TaskPCs, WorkerPCs, Events
<1>2. (ListsApart /\ TmpApart /\ HandsApart)'
  BY SamePlaces, Zenon
<1>3. PlaceInv' /\ HeapInv'
  BY Zenon DEF TypeOK, PlaceInv, HeapInv, Freed
<1>4. ClosedInv' /\ JobsNoticed'
  BY Zenon DEF TypeOK, ClosedInv, JobsNoticed
<1>5. HalfRead'
  BY Zenon DEF TypeOK, HalfRead, Due, Waiters, ClosedInv
<1>6. NoLostWakeup'
  BY Zenon DEF TypeOK, NoLostWakeup, HalfRead, Due, Mask, Events, CanFetch, CanRun, Waiters,
       ClosedInv
<1>7. QED BY <1>1, <1>2, <1>3, <1>4, <1>5, <1>6, Zenon

\* A poller gives up.
LEMMA PollTimeoutInv ==
  ASSUME IInv, NEW t \in Tasks, PollTimeout(t)
  PROVE  IInv'
<1> USE DEF PollTimeout, Goto, LeavePoll, lists, work, polls, IInv
<1>1. TypeOK'
  BY RingSizes, Zenon DEF TypeOK, Waiters, TaskPCs, WorkerPCs, Events
<1>2. (ListsApart /\ TmpApart /\ HandsApart)'
  BY SamePlaces, Zenon
<1>3. PlaceInv' /\ HeapInv'
  BY Zenon DEF TypeOK, PlaceInv, HeapInv, Freed
<1>4. ClosedInv' /\ JobsNoticed'
  BY Zenon DEF TypeOK, ClosedInv, JobsNoticed
<1>5. HalfRead'
  BY Zenon DEF TypeOK, HalfRead, Due, Waiters, ClosedInv
<1>6. NoLostWakeup'
  BY Zenon DEF TypeOK, NoLostWakeup, HalfRead, Due, Mask, Events, CanFetch, CanRun, Waiters,
       ClosedInv
<1>7. QED BY <1>1, <1>2, <1>3, <1>4, <1>5, <1>6, Zenon

\* The pending bit is handed to the worker.
LEMMA WorkStartInv ==
  ASSUME IInv, NEW w \in Workers, WorkStart(w)
  PROVE  IInv'
<1> USE DEF WorkStart, WGoto, lists, work, polls, IInv
<1>1. TypeOK'
  BY RingSizes, Zenon DEF TypeOK, Waiters, TaskPCs, WorkerPCs, Events
<1>2. (ListsApart /\ TmpApart /\ HandsApart)'
  BY SamePlaces, Zenon
<1>3. PlaceInv' /\ HeapInv'
  BY Zenon DEF TypeOK, PlaceInv, HeapInv, Freed
<1>4. ClosedInv' /\ JobsNoticed'
  BY Zenon DEF TypeOK, ClosedInv, JobsNoticed
<1>5. HalfRead'
  BY Zenon DEF TypeOK, HalfRead, Due, Waiters, ClosedInv
<1>6. NoLostWakeup'
  BY Zenon DEF TypeOK, NoLostWakeup, HalfRead, Due, Mask, Events, CanFetch, CanRun, Waiters,
       ClosedInv
<1>7. QED BY <1>1, <1>2, <1>3, <1>4, <1>5, <1>6, Zenon

\* A job is run by the worker that has it.
LEMMA RunJobInv ==
  ASSUME IInv, NEW w \in Workers, RunJob(w)
  PROVE  IInv'
<1> USE DEF RunJob, lists, work, polls, IInv
<1>1. TypeOK'
  BY RingSizes DEF TypeOK, Waiters, TaskPCs, WorkerPCs, Events
<1>2. (ListsApart /\ TmpApart /\ HandsApart)'
  BY SamePlaces, Zenon
<1>3. PlaceInv' /\ HeapInv'
  BY Zenon DEF TypeOK, PlaceInv, HeapInv, Freed
<1>4. ClosedInv' /\ JobsNoticed'
  BY Zenon DEF TypeOK, ClosedInv, JobsNoticed
<1>5. HalfRead'
  BY Zenon DEF TypeOK, HalfRead, Due, Waiters, ClosedInv
<1>6. NoLostWakeup'
  BY Zenon DEF TypeOK, NoLostWakeup, HalfRead, Due, Mask, Events, CanFetch, CanRun, Waiters,
       ClosedInv
<1>7. QED BY <1>1, <1>2, <1>3, <1>4, <1>5, <1>6, Zenon

\* "wake for POLLIN" reaches every waiter.
LEMMA WorkWakeInv ==
  ASSUME IInv, NEW w \in Workers, WorkWake(w)
  PROVE  IInv'
<1> USE DEF WorkWake, WGoto, lists, work, polls, IInv
<1>1. TypeOK'
  BY RingSizes, Zenon DEF TypeOK, Waiters, TaskPCs, WorkerPCs, Events
<1>2. (ListsApart /\ TmpApart /\ HandsApart)'
  BY SamePlaces, Zenon
<1>3. PlaceInv' /\ HeapInv'
  BY Zenon DEF TypeOK, PlaceInv, HeapInv, Freed
<1>4. ClosedInv' /\ JobsNoticed'
  BY Zenon DEF TypeOK, ClosedInv, JobsNoticed
<1>5. HalfRead'
  BY Zenon DEF TypeOK, HalfRead, Due, Waiters, ClosedInv
<1>6. NoLostWakeup'
  BY Zenon DEF TypeOK, NoLostWakeup, HalfRead, Due, Mask, Events, CanFetch, CanRun, Waiters,
       ClosedInv
<1>7. QED BY <1>1, <1>2, <1>3, <1>4, <1>5, <1>6, Zenon
----------------------------------------------------------------------------
(* Steps that move items.                                                  *)

\* The first free item passes into the task's hands.
LEMMA TakeInv ==
  ASSUME IInv, NEW t \in Tasks, Take(t)
  PROVE  IInv'
<1> USE NoItemFresh DEF Take, Enter, Goto, lists, work, polls, IInv
<1>a. /\ Head(free) \in Items /\ Tail(free) \in Seq(Items) /\ IsInjective(Tail(free))
      /\ Head(free) \in Range(free) /\ Head(free) \notin Range(Tail(free))
      /\ Range(Tail(free)) \subseteq Range(free)
  BY TailFacts, Zenon DEF TypeOK, ListsApart
<1>1. TypeOK'
  BY <1>a, EmptyFacts, RingSizes, Zenon DEF TypeOK, Waiters, TaskPCs, WorkerPCs, Events
<1>2. ListsApart'
  BY <1>a, EmptyFacts, Zenon DEF TypeOK, ListsApart, TmpApart, HandsApart, PlaceInv, HeapInv,
       Freed
<1>3. TmpApart'
  BY <1>a, EmptyFacts, Zenon DEF TypeOK, ListsApart, TmpApart, HandsApart, PlaceInv, HeapInv,
       Freed
<1>4. HandsApart'
  BY <1>a, EmptyFacts DEF TypeOK, ListsApart, TmpApart, HandsApart, PlaceInv, HeapInv, Freed
<1>5. PlaceInv'
  BY <1>a, Zenon DEF TypeOK, PlaceInv
<1>6. HeapInv'
  BY <1>a, EmptyFacts, Zenon DEF TypeOK, HeapInv, HandsApart, TmpApart, PlaceInv, Freed
<1>7. ClosedInv' /\ JobsNoticed'
  BY Zenon DEF TypeOK, ClosedInv, JobsNoticed
<1>8. HalfRead'
  BY <1>a, Zenon DEF TypeOK, HalfRead, Due, Waiters, ClosedInv
<1>9. NoLostWakeup'
  BY <1>a, Zenon DEF TypeOK, NoLostWakeup, HalfRead, Due, Mask, Events, CanFetch, CanRun,
       Waiters, ClosedInv
<1>10. QED BY <1>1, <1>2, <1>3, <1>4, <1>5, <1>6, <1>7, <1>8, <1>9, Zenon

\* The first completed item passes into the task's hands.
LEMMA FetchInv ==
  ASSUME IInv, NEW t \in Tasks, Fetch(t)
  PROVE  IInv'
<1> USE NoItemFresh DEF Fetch, Enter, Goto, lists, work, polls, IInv
<1>a. /\ Head(done) \in Items /\ Tail(done) \in Seq(Items) /\ IsInjective(Tail(done))
      /\ Head(done) \in Range(done) /\ Head(done) \notin Range(Tail(done))
      /\ Range(Tail(done)) \subseteq Range(done)
  BY TailFacts, Zenon DEF TypeOK, ListsApart
<1>1. TypeOK'
  BY <1>a, EmptyFacts, RingSizes, Zenon DEF TypeOK, Waiters, TaskPCs, WorkerPCs, Events
<1>2. ListsApart'
  BY <1>a, EmptyFacts, Zenon DEF TypeOK, ListsApart, TmpApart, HandsApart, PlaceInv, HeapInv,
       Freed
<1>3. TmpApart'
  BY <1>a, EmptyFacts, Zenon DEF TypeOK, ListsApart, TmpApart, HandsApart, PlaceInv, HeapInv,
       Freed
<1>4. HandsApart'
  BY <1>a, EmptyFacts DEF TypeOK, ListsApart, TmpApart, HandsApart, PlaceInv, HeapInv, Freed
<1>5. PlaceInv'
  BY <1>a, Zenon DEF TypeOK, PlaceInv
<1>6. HeapInv'
  BY <1>a, EmptyFacts, Zenon DEF TypeOK, HeapInv, HandsApart, TmpApart, PlaceInv, Freed
<1>7. ClosedInv' /\ JobsNoticed'
  BY Zenon DEF TypeOK, ClosedInv, JobsNoticed
<1>8. HalfRead'
  BY <1>a, Zenon DEF TypeOK, HalfRead, Due, Waiters, ClosedInv
<1>9. NoLostWakeup'
  BY <1>a, Zenon DEF TypeOK, NoLostWakeup, HalfRead, Due, Mask, Events, CanFetch, CanRun,
       Waiters, ClosedInv
<1>10. QED BY <1>1, <1>2, <1>3, <1>4, <1>5, <1>6, <1>7, <1>8, <1>9, Zenon

\* A new item comes from memory nothing else occupies.
LEMMA AllocInv ==
  ASSUME IInv, NEW t \in Tasks, Alloc(t)
  PROVE  IInv'
<1> USE NoItemFresh DEF Alloc, Goto, lists, work, polls, IInv
<1>a. PICK i \in Items \ heap : heap' = heap \cup {i} /\ item' = [item EXCEPT ![t] = i]
  BY Zenon
<1>1. TypeOK'
  BY <1>a, EmptyFacts, RingSizes, Zenon DEF TypeOK, Waiters, TaskPCs, WorkerPCs, Events
<1>2. ListsApart'
  BY <1>a, EmptyFacts, Zenon DEF TypeOK, ListsApart, TmpApart, HandsApart, PlaceInv, HeapInv,
       Freed
<1>3. TmpApart'
  BY <1>a, EmptyFacts, Zenon DEF TypeOK, ListsApart, TmpApart, HandsApart, PlaceInv, HeapInv,
       Freed
<1>4. HandsApart'
  BY <1>a, EmptyFacts DEF TypeOK, ListsApart, TmpApart, HandsApart, PlaceInv, HeapInv, Freed
<1>5. PlaceInv'
  BY <1>a, Zenon DEF TypeOK, PlaceInv
<1>6. HeapInv'
  BY <1>a, EmptyFacts, Zenon DEF TypeOK, HeapInv, HandsApart, TmpApart, PlaceInv, Freed
<1>7. ClosedInv' /\ JobsNoticed'
  BY Zenon DEF TypeOK, ClosedInv, JobsNoticed
<1>8. HalfRead'
  BY <1>a, Zenon DEF TypeOK, HalfRead, Due, Waiters, ClosedInv
<1>9. NoLostWakeup'
  BY <1>a, Zenon DEF TypeOK, NoLostWakeup, HalfRead, Due, Mask, Events, CanFetch, CanRun,
       Waiters, ClosedInv
<1>10. QED BY <1>1, <1>2, <1>3, <1>4, <1>5, <1>6, <1>7, <1>8, <1>9, Zenon

\* The item in the task's hands joins the todo list.
LEMMA AddInv ==
  ASSUME IInv, NEW t \in Tasks, Add(t)
  PROVE  IInv'
<1> USE NoItemFresh DEF Add, Goto, lists, work, polls, IInv
<1>b. item[t] \in Items /\ item[t] \notin Range(todo) /\ item[t] # NoItem
  BY Zenon DEF TypeOK, PlaceInv, HandsApart, Freed
<1>a. /\ Append(todo, item[t]) \in Seq(Items) /\ IsInjective(Append(todo, item[t]))
      /\ Range(Append(todo, item[t])) = Range(todo) \cup {item[t]}
      /\ item[t] \in Items /\ item[t] # NoItem
  BY <1>b, AppendFacts DEF TypeOK, ListsApart
<1>1. TypeOK'
  BY <1>a, EmptyFacts, RingSizes, Zenon DEF TypeOK, Waiters, TaskPCs, WorkerPCs, Events
<1>2. ListsApart'
  BY <1>a, EmptyFacts DEF TypeOK, ListsApart, TmpApart, HandsApart, PlaceInv, HeapInv, Freed
<1>3. TmpApart'
  BY <1>a, EmptyFacts DEF TypeOK, ListsApart, TmpApart, HandsApart, PlaceInv, HeapInv, Freed
<1>4. HandsApart'
  BY <1>a, EmptyFacts DEF TypeOK, ListsApart, TmpApart, HandsApart, PlaceInv, HeapInv, Freed
<1>5. PlaceInv'
  BY <1>a, Zenon DEF TypeOK, PlaceInv
<1>6. HeapInv'
  BY <1>a, EmptyFacts DEF TypeOK, HeapInv, HandsApart, TmpApart, PlaceInv, Freed
<1>7. ClosedInv' /\ JobsNoticed'
  BY Zenon DEF TypeOK, ClosedInv, JobsNoticed
<1>8. HalfRead'
  BY <1>a, Zenon DEF TypeOK, HalfRead, Due, Waiters, ClosedInv
<1>9. NoLostWakeup'
  BY <1>a, Zenon DEF TypeOK, NoLostWakeup, HalfRead, Due, Mask, Events, CanFetch, CanRun,
       Waiters, ClosedInv
<1>10. QED BY <1>1, <1>2, <1>3, <1>4, <1>5, <1>6, <1>7, <1>8, <1>9, Zenon

\* The item in the task's hands joins the free list.
LEMMA RecycleInv ==
  ASSUME IInv, NEW t \in Tasks, Recycle(t)
  PROVE  IInv'
<1> USE NoItemFresh DEF Recycle, Goto, lists, work, polls, IInv
<1>b. item[t] \in Items /\ item[t] \notin Range(free) /\ item[t] # NoItem
  BY Zenon DEF TypeOK, PlaceInv, HandsApart, Freed
<1>a. /\ Append(free, item[t]) \in Seq(Items) /\ IsInjective(Append(free, item[t]))
      /\ Range(Append(free, item[t])) = Range(free) \cup {item[t]}
      /\ item[t] \in Items /\ item[t] # NoItem
  BY <1>b, AppendFacts DEF TypeOK, ListsApart
<1>1. TypeOK'
  BY <1>a, EmptyFacts, RingSizes, Zenon DEF TypeOK, Waiters, TaskPCs, WorkerPCs, Events
<1>2. ListsApart'
  BY <1>a, EmptyFacts DEF TypeOK, ListsApart, TmpApart, HandsApart, PlaceInv, HeapInv, Freed
<1>3. TmpApart'
  BY <1>a, EmptyFacts DEF TypeOK, ListsApart, TmpApart, HandsApart, PlaceInv, HeapInv, Freed
<1>4. HandsApart'
  BY <1>a, EmptyFacts DEF TypeOK, ListsApart, TmpApart, HandsApart, PlaceInv, HeapInv, Freed
<1>5. PlaceInv'
  BY <1>a, Zenon DEF TypeOK, PlaceInv
<1>6. HeapInv'
  BY <1>a, EmptyFacts DEF TypeOK, HeapInv, HandsApart, TmpApart, PlaceInv, Freed
<1>7. ClosedInv' /\ JobsNoticed'
  BY Zenon DEF TypeOK, ClosedInv, JobsNoticed
<1>8. HalfRead'
  BY <1>a, Zenon DEF TypeOK, HalfRead, Due, Waiters, ClosedInv
<1>9. NoLostWakeup'
  BY <1>a, Zenon DEF TypeOK, NoLostWakeup, HalfRead, Due, Mask, Events, CanFetch, CanRun,
       Waiters, ClosedInv
<1>10. QED BY <1>1, <1>2, <1>3, <1>4, <1>5, <1>6, <1>7, <1>8, <1>9, Zenon

\* The todo list moves to a worker that has nothing.
LEMMA CutInv ==
  ASSUME IInv, NEW w \in Workers, Cut(w)
  PROVE  IInv'
<1> USE NoItemFresh DEF Cut, WGoto, lists, work, polls, IInv
<1>a. tmp[w] = << >> /\ Range(<< >>) = {}
  BY EmptyFacts, Zenon DEF TypeOK, PlaceInv
<1>1. TypeOK'
  BY <1>a, EmptyFacts, RingSizes, Zenon DEF TypeOK, Waiters, TaskPCs, WorkerPCs, Events
<1>2. ListsApart'
  BY <1>a, EmptyFacts, Zenon DEF TypeOK, ListsApart, TmpApart, HandsApart, PlaceInv, HeapInv,
       Freed
<1>3. TmpApart'
  BY <1>a, EmptyFacts DEF TypeOK, ListsApart, TmpApart, HandsApart, PlaceInv, HeapInv, Freed
<1>4. HandsApart'
  BY <1>a, EmptyFacts, Zenon DEF TypeOK, ListsApart, TmpApart, HandsApart, PlaceInv, HeapInv,
       Freed
<1>5. PlaceInv'
  BY <1>a, Zenon DEF TypeOK, PlaceInv
<1>6. HeapInv'
  BY <1>a, EmptyFacts, Zenon DEF TypeOK, HeapInv, HandsApart, TmpApart, PlaceInv, Freed
<1>7. ClosedInv' /\ JobsNoticed'
  BY Zenon DEF TypeOK, ClosedInv, JobsNoticed
<1>8. HalfRead'
  BY <1>a, Zenon DEF TypeOK, HalfRead, Due, Waiters, ClosedInv
<1>9. NoLostWakeup'
  BY <1>a, Zenon DEF TypeOK, NoLostWakeup, HalfRead, Due, Mask, Events, CanFetch, CanRun,
       Waiters, ClosedInv
<1>10. QED BY <1>1, <1>2, <1>3, <1>4, <1>5, <1>6, <1>7, <1>8, <1>9, Zenon

\* What a worker has done joins the done list.
LEMMA SpliceInv ==
  ASSUME IInv, NEW w \in Workers, Splice(w)
  PROVE  IInv'
<1> USE NoItemFresh DEF Splice, WGoto, lists, work, polls, IInv
<1>a. /\ done \o tmp[w] \in Seq(Items) /\ IsInjective(done \o tmp[w])
      /\ Range(done \o tmp[w]) = Range(done) \cup Range(tmp[w])
  BY ConcatFacts DEF TypeOK, ListsApart, TmpApart, Freed
<1>1. TypeOK'
  BY <1>a, EmptyFacts, RingSizes, Zenon DEF TypeOK, Waiters, TaskPCs, WorkerPCs, Events
<1>2. ListsApart'
  BY <1>a, EmptyFacts, Zenon DEF TypeOK, ListsApart, TmpApart, HandsApart, PlaceInv, HeapInv,
       Freed
<1>3. TmpApart'
  BY <1>a, EmptyFacts DEF TypeOK, ListsApart, TmpApart, HandsApart, PlaceInv, HeapInv, Freed
<1>4. HandsApart'
  BY <1>a, EmptyFacts, Zenon DEF TypeOK, ListsApart, TmpApart, HandsApart, PlaceInv, HeapInv,
       Freed
<1>5. PlaceInv'
  BY <1>a, Zenon DEF TypeOK, PlaceInv
<1>6. HeapInv'
  BY <1>a, EmptyFacts, Zenon DEF TypeOK, HeapInv, HandsApart, TmpApart, PlaceInv, Freed
<1>7. ClosedInv' /\ JobsNoticed'
  BY Zenon DEF TypeOK, ClosedInv, JobsNoticed
<1>8. HalfRead'
  BY <1>a, Zenon DEF TypeOK, HalfRead, Due, Waiters, ClosedInv
<1>9. NoLostWakeup'
  BY <1>a, Zenon DEF TypeOK, NoLostWakeup, HalfRead, Due, Mask, Events, CanFetch, CanRun,
       Waiters, ClosedInv
<1>10. QED BY <1>1, <1>2, <1>3, <1>4, <1>5, <1>6, <1>7, <1>8, <1>9, Zenon

\* A new ring is linked from memory nothing else occupies.
LEMMA OpenInv ==
  ASSUME IInv, Open
  PROVE  IInv'
<1> USE NoItemFresh DEF Open, lists, work, polls, IInv
<1>b. PICK ring \in [1..DefRing -> Items \ heap] :
         IsInjective(ring) /\ free' = ring /\ heap' = heap \cup Range(ring)
  BY Zenon
<1>c. Range(ring) \subseteq Items \ heap
  BY <1>b, Zenon DEF Range
<1>d. ring \in Seq(Items)
  BY <1>b, RingSizes
<1>a. /\ IsInjective(free') /\ free' \in Seq(Items)
      /\ heap' = heap \cup Range(free') /\ Range(free') \subseteq Items \ heap
  BY <1>b, <1>c, <1>d, Zenon
<1>1. TypeOK'
  BY <1>a, EmptyFacts, RingSizes DEF TypeOK, Waiters, TaskPCs, WorkerPCs, Events
<1>2. ListsApart'
  BY <1>a, EmptyFacts, Zenon DEF TypeOK, ListsApart, TmpApart, HandsApart, PlaceInv, HeapInv,
       Freed
<1>3. TmpApart'
  BY <1>a, EmptyFacts, Zenon DEF TypeOK, ListsApart, TmpApart, HandsApart, PlaceInv, HeapInv,
       Freed
<1>4. HandsApart'
  BY <1>a, EmptyFacts, Zenon DEF TypeOK, ListsApart, TmpApart, HandsApart, PlaceInv, HeapInv,
       Freed
<1>5. PlaceInv'
  BY <1>a, Zenon DEF TypeOK, PlaceInv
<1>6. HeapInv'
  BY <1>a, EmptyFacts, Zenon DEF TypeOK, HeapInv, HandsApart, TmpApart, PlaceInv, Freed
<1>7. ClosedInv' /\ JobsNoticed'
  BY Zenon DEF TypeOK, ClosedInv, JobsNoticed
<1>8. HalfRead'
  BY <1>a, Zenon DEF TypeOK, HalfRead, Due, Waiters, ClosedInv
<1>9. NoLostWakeup'
  BY <1>a, Zenon DEF TypeOK, NoLostWakeup, HalfRead, Due, Mask, Events, CanFetch, CanRun,
       Waiters, ClosedInv
<1>10. QED BY <1>1, <1>2, <1>3, <1>4, <1>5, <1>6, <1>7, <1>8, <1>9, Zenon

\* All lists are emptied; nobody has an item in hand.
LEMMA ReleaseInv ==
  ASSUME IInv, Release
  PROVE  IInv'
<1> USE NoItemFresh DEF Release, lists, work, polls, IInv
<1>a. /\ \A t \in Tasks : item[t] = NoItem
      /\ \A w \in Workers : Range(tmp[w]) = {}
      /\ << >> \in Seq(Items) /\ Waiters' = Waiters /\ ready' \in [Tasks -> SUBSET Events]
  BY EmptyFacts, Zenon DEF TypeOK, PlaceInv, Waiters
<1>1. TypeOK'
  <2>1. heap' \subseteq Items /\ ran' \subseteq Items /\ itemcount' \in 0..MaxRing
    BY RingSizes DEF TypeOK
  <2>2. woken' \subseteq Waiters'
    BY <1>a, Zenon DEF TypeOK
  <2>3. open' \in BOOLEAN /\ pending' \in BOOLEAN
    BY Zenon
  <2>4. free' \in Seq(Items) /\ todo' \in Seq(Items) /\ done' \in Seq(Items)
    BY <1>a, Zenon
  <2>5. UNCHANGED <<wpc, tmp, pc, item, want>> /\ ready' \in [Tasks -> SUBSET Events]
    BY <1>a, Zenon
  <2> HIDE DEF Release
  <2>6. QED BY <2>1, <2>2, <2>3, <2>4, <2>5, Zenon DEF TypeOK
<1>2. ListsApart'
  BY <1>a, EmptyFacts, Zenon DEF TypeOK, ListsApart, TmpApart, HandsApart, PlaceInv, HeapInv,
       Freed
<1>3. TmpApart'
  BY <1>a, EmptyFacts, Zenon DEF TypeOK, ListsApart, TmpApart, HandsApart, PlaceInv, HeapInv,
       Freed
<1>4. HandsApart'
  BY <1>a, EmptyFacts, Zenon DEF TypeOK, ListsApart, TmpApart, HandsApart, PlaceInv, HeapInv,
       Freed
<1>5. PlaceInv'
  BY <1>a, Zenon DEF TypeOK, PlaceInv
<1>6. HeapInv'
  BY <1>a, EmptyFacts, Zenon DEF TypeOK, HeapInv, HandsApart, TmpApart, PlaceInv, Freed
<1>7. ClosedInv' /\ JobsNoticed'
  BY Zenon DEF TypeOK, ClosedInv, JobsNoticed
<1>8. HalfRead'
  BY <1>a, Zenon DEF TypeOK, HalfRead, Due, Waiters, ClosedInv
<1>9. NoLostWakeup'
  BY <1>a, Zenon DEF TypeOK, NoLostWakeup, HalfRead, Due, Mask, Events, CanFetch, CanRun,
       Waiters, ClosedInv
<1>10. QED BY <1>1, <1>2, <1>3, <1>4, <1>5, <1>6, <1>7, <1>8, <1>9, Zenon

----------------------------------------------------------------------------
(* The theorems.                                                           *)

\* The file is not open, and there is nothing.
LEMMA InitInv ==
  ASSUME Init
  PROVE  IInv
<1> USE EmptyFacts, RingSizes, NoItemFresh DEF Init
<1>a. << >> \in Seq(Items) /\ 0 \in 0..MaxRing OBVIOUS
<1>b. /\ wpc \in [Workers -> WorkerPCs] /\ pc \in [Tasks -> TaskPCs]
      /\ want \in [Tasks -> Events] /\ ready \in [Tasks -> SUBSET Events]
  BY Zenon DEF TaskPCs, WorkerPCs, Events
<1>1. TypeOK BY <1>a, <1>b, Zenon DEF TypeOK
<1>2. ListsApart /\ TmpApart /\ HandsApart BY Zenon DEF ListsApart, TmpApart, HandsApart, Freed
<1>3. PlaceInv /\ HeapInv BY Zenon DEF PlaceInv, HeapInv, Freed
<1>4. ClosedInv /\ JobsNoticed BY Zenon DEF ClosedInv, JobsNoticed
<1>5. HalfRead /\ NoLostWakeup BY Zenon DEF HalfRead, NoLostWakeup
<1>6. QED BY <1>1, <1>2, <1>3, <1>4, <1>5, Zenon DEF IInv

\* A step in which nothing changes.
LEMMA StutterInv ==
  ASSUME IInv, UNCHANGED vars
  PROVE  IInv'
<1> USE DEF vars, IInv
<1>1. TypeOK' BY Zenon DEF TypeOK, Waiters
<1>2. (ListsApart /\ TmpApart /\ HandsApart)' BY SamePlaces, Zenon
<1>3. PlaceInv' /\ HeapInv' BY Zenon DEF PlaceInv, HeapInv, Freed
<1>4. ClosedInv' /\ JobsNoticed' BY Zenon DEF ClosedInv, JobsNoticed
<1>5. HalfRead' BY Zenon DEF HalfRead, Due
<1>6. NoLostWakeup' BY Zenon DEF NoLostWakeup, Mask, CanFetch, CanRun
<1>7. QED BY <1>1, <1>2, <1>3, <1>4, <1>5, <1>6, Zenon

\* Every step preserves the invariant.
LEMMA NextInv ==
  ASSUME IInv, [Next]_vars
  PROVE  IInv'
<1>1. CASE Open \/ OpenFails \/ Release
  BY <1>1, OpenInv, OpenFailsInv, ReleaseInv, Zenon
<1>2. ASSUME NEW t \in Tasks, AsyncRun(t)
      PROVE  IInv'
  BY <1>2, TakeInv, ReserveInv, RunBusyInv, AllocInv, AllocFailsInv, AddInv, KickInv, Zenon
     DEF AsyncRun
<1>3. ASSUME NEW t \in Tasks, AsyncFetch(t)
      PROVE  IInv'
  BY <1>3, FetchInv, FetchBusyInv, RecycleInv, FetchWakeInv, Zenon DEF AsyncFetch
<1>4. ASSUME NEW t \in Tasks, Poll(t)
      PROVE  IInv'
  BY <1>4, PollStartInv, PollDoneInv, PollFreeInv, PollReturnInv, PollAgainInv, PollTimeoutInv,
     Zenon DEF Poll
<1>5. ASSUME NEW w \in Workers, Work(w)
      PROVE  IInv'
  BY <1>5, WorkStartInv, CutInv, RunJobInv, SpliceInv, WorkWakeInv, Zenon DEF Work
<1>6. CASE UNCHANGED vars
  BY <1>6, StutterInv, Zenon
<1>7. QED BY <1>1, <1>2, <1>3, <1>4, <1>5, <1>6, Zenon DEF Next

\* The inductive invariant holds throughout.
LEMMA Invariance == Spec => []IInv
  BY InitInv, NextInv, PTL DEF Spec

\* The variables have their types and the ring never outgrows MAX_COP_RINGSIZE,
\* although crypto_async_run raises the count in one critical section and links
\* the item in another.
THEOREM TypeCorrect == Spec => []TypeOK
<1>1. IInv => TypeOK BY Zenon DEF IInv
<1>2. QED BY <1>1, Invariance, PTL

\* An item is linked once and in one list, whatever tasks and workers move it.
THEOREM ItemsInOnePlace == Spec => []LinkedOnce
<1>1. IInv => LinkedOnce BY LinkedOnceFromApart, Zenon
<1>2. QED BY <1>1, Invariance, PTL

\* A job on the todo list is never overlooked by the work function, on however
\* many CPUs it runs.
THEOREM NoJobOverlooked == Spec => []JobsNoticed
<1>1. IInv => JobsNoticed BY Zenon DEF IInv
<1>2. QED BY <1>1, Invariance, PTL

\* cryptodev_poll's look at the lists without their locks misses no wake-up.
THEOREM NoWakeupMissed == Spec => []NoLostWakeup
<1>1. IInv => NoLostWakeup BY Zenon DEF IInv
<1>2. QED BY <1>1, Invariance, PTL
=============================================================================
