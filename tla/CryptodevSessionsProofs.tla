----------------------- MODULE CryptodevSessionsProofs -----------------------
(***************************************************************************)
(* Proofs about CryptodevSessions, for any number of threads, memory cells *)
(* and identifiers, and for callers that pass any identifier they like;    *)
(* the last theorem is about callers that pass only what they were given.  *)
(***************************************************************************)
EXTENDS CryptodevSessions, TLAPS

----------------------------------------------------------------------------
(* The inductive invariant.                                                *)

\* Where a thread holds fcr->sem.
HoldsF == {"draw", "unlink", "destroy", "deinit", "kfree", "unlockF",
           "lookup", "lockS", "found"}
\* Where a thread holds the mutex of its session.
HoldsS == {"found", "use", "run", "put", "deinit"}
\* Thread t alone knows its session: it is not in the list yet, or no more.
Owns(t) == Building(t) \/ pc[t] \in DestroyPCs

\* The operation a thread executes fits the place where it is.
OpInv == \A t \in Threads :
    /\ pc[t] = "idle" => op[t] = "none"
    /\ pc[t] = "lockF" => op[t] # "none"
    /\ pc[t] \in {"draw", "readSid", "copyOut"} => op[t] = "create"
    /\ pc[t] \in {"unlink", "unlockF"} \cup DestroyPCs => op[t] \in {"finish", "rollback", "release"}
    /\ pc[t] \in {"lookup"} \cup UsePCs => op[t] \in {"info", "fill", "crypt"}
    /\ pc[t] = "readSid" => cur[t] \in Sessions
    /\ pc[t] = "copyOut" => arg[t] \in Sids

\* Mutual exclusion, and a freed session's mutex is free.
MutexInv == \A t \in Threads :
    /\ pc[t] \in HoldsF => fsem = t
    /\ pc[t] \in HoldsS => ssem[cur[t]] = t
    /\ pc[t] = "kfree" => ssem[cur[t]] = NoThread

\* What a thread knows of the session it points to.
CurInv == \A t \in Threads :
    /\ pc[t] \in {"lockS", "found"} => cur[t] \in list
    /\ pc[t] \in UsePCs => cur[t] \in heap /\ sid[cur[t]] = arg[t]
    /\ Owns(t) => cur[t] \in heap \ list
    /\ pc[t] = "run" => ivlen[t] <= ivsize[cur[t]]

\* A session in use is in the list, or its destroyer waits with fcr->sem held.
UseInv == \A t \in Threads :
    pc[t] \in UsePCs => \/ cur[t] \in list
                        \/ \E u \in Threads : pc[u] = "destroy" /\ cur[u] = cur[t]

\* Nobody else points to a session that is being built, and a session has
\* at most one owner.
OwnerInv == \A t, u \in Threads :
    /\ Owns(t) /\ Owns(u) /\ cur[t] = cur[u] => t = u
    /\ Building(t) /\ pc[u] \in UsePCs => cur[t] # cur[u]

\* The list: identifiers are unique, also against a session whose destroyer
\* still waits, and whatever is allocated but not listed has an owner.
ListInv ==
    /\ list \subseteq heap
    /\ \A s1, s2 \in list : sid[s1] = sid[s2] => s1 = s2
    /\ \A s \in heap : sid[s] \in Sids
    /\ \A s \in list, t \in Threads : pc[t] = "destroy" => sid[s] # sid[cur[t]]
    /\ \A s \in heap \ list : \E t \in Threads : Owns(t) /\ cur[t] = s

\* During and after the release no other call is in progress.
PhaseInv ==
    /\ \A t \in Threads : op[t] = "release" =>
          /\ phase = "releasing"
          /\ \A u \in Threads : u # t => pc[u] = "idle"
          /\ pc[t] = "unlockF" => list = {}
    /\ phase # "open" => \A t \in Threads : op[t] \in {"none", "release"}
    /\ phase = "closed" => list = {} /\ \A t \in Threads : pc[t] = "idle"

IInv == /\ TypeOK /\ OpInv /\ MutexInv /\ CurInv /\ UseInv
        /\ OwnerInv /\ ListInv /\ PhaseInv

----------------------------------------------------------------------------
(* Every action preserves the invariant: one lemma per action.             *)

\* cryptodev_open starts from an empty list.
LEMMA OpenInv ==
  ASSUME IInv, Open
  PROVE  IInv'
<1> USE NoThreadFresh, NoSessionFresh, NoSidFresh, IvSizesNat, WildSids
<1> USE DEF Open, file, cells, locals, IInv, TypeOK
<1>1. TypeOK' BY Zenon DEF Phases, Ops, PCs, Results, OpInv, CurInv, ListInv, Owns, Building,
                   UsePCs, DestroyPCs
<1>2. OpInv' BY Zenon DEF OpInv, PCs, Ops, UsePCs, DestroyPCs, CurInv, Owns, Building
<1>3. MutexInv' BY Zenon DEF OpInv, MutexInv, HoldsF, HoldsS, CurInv, Owns, Building, UsePCs,
                     DestroyPCs, OwnerInv
<1>4. CurInv' BY Zenon DEF OpInv, MutexInv, HoldsF, HoldsS, CurInv, Owns, Building, UsePCs,
                   DestroyPCs, OwnerInv, ListInv, PCs
<1>5. UseInv' BY DEF OpInv, MutexInv, HoldsF, HoldsS, CurInv, UseInv, Owns, Building, UsePCs,
                   DestroyPCs, OwnerInv, ListInv
<1>6. OwnerInv' BY DEF OpInv, MutexInv, HoldsF, HoldsS, CurInv, Owns, Building, UsePCs,
                     DestroyPCs, OwnerInv, ListInv
<1>7. ListInv' BY Zenon DEF OpInv, MutexInv, HoldsF, HoldsS, CurInv, Owns, Building, UsePCs,
                    DestroyPCs, OwnerInv, ListInv, PhaseInv
<1>8. PhaseInv' BY Zenon DEF OpInv, MutexInv, HoldsF, HoldsS, PhaseInv, CurInv, Owns, UsePCs,
                     DestroyPCs
<1>9. QED BY <1>1, <1>2, <1>3, <1>4, <1>5, <1>6, <1>7, <1>8, Zenon

\* CIOCFSESSION enters without touching the table.
LEMMA CallFinishInv ==
  ASSUME IInv, NEW t \in Threads, NEW id \in Sids, CallFinish(t, id)
  PROVE  IInv'
<1> USE NoThreadFresh, NoSessionFresh, NoSidFresh, IvSizesNat, WildSids
<1> USE DEF CallFinish, Enter, Goto, file, cells, locals, IInv, TypeOK
<1>1. TypeOK' BY Zenon DEF Phases, Ops, PCs, Results, OpInv, CurInv, ListInv, Owns, Building,
                   UsePCs, DestroyPCs
<1>2. OpInv' BY DEF OpInv, PCs, Ops, UsePCs, DestroyPCs, CurInv, Owns, Building
<1>3. MutexInv' BY Zenon DEF OpInv, MutexInv, HoldsF, HoldsS, CurInv, Owns, Building, UsePCs,
                     DestroyPCs, OwnerInv
<1>4. CurInv' BY DEF OpInv, MutexInv, HoldsF, HoldsS, CurInv, Owns, Building, UsePCs,
                   DestroyPCs, OwnerInv, ListInv, PCs
<1>5. UseInv' BY DEF OpInv, MutexInv, HoldsF, HoldsS, CurInv, UseInv, Owns, Building, UsePCs,
                   DestroyPCs, OwnerInv, ListInv
<1>6. OwnerInv' BY DEF OpInv, MutexInv, HoldsF, HoldsS, CurInv, Owns, Building, UsePCs,
                     DestroyPCs, OwnerInv, ListInv
<1>7. ListInv' BY DEF OpInv, MutexInv, HoldsF, HoldsS, CurInv, Owns, Building, UsePCs,
                    DestroyPCs, OwnerInv, ListInv, PhaseInv
<1>8. PhaseInv' BY Zenon DEF OpInv, MutexInv, HoldsF, HoldsS, PhaseInv, CurInv, Owns, UsePCs,
                     DestroyPCs
<1>9. QED BY <1>1, <1>2, <1>3, <1>4, <1>5, <1>6, <1>7, <1>8, Zenon

\* The ioctls that look a session up enter without touching the table.
LEMMA CallLookupInv ==
  ASSUME IInv, NEW t \in Threads, NEW o \in {"info", "fill"}, NEW id \in Sids, CallLookup(t, o, id)
  PROVE  IInv'
<1> USE NoThreadFresh, NoSessionFresh, NoSidFresh, IvSizesNat, WildSids
<1> USE DEF CallLookup, Enter, Goto, file, cells, locals, IInv, TypeOK
<1>1. TypeOK' BY Zenon DEF Phases, Ops, PCs, Results, OpInv, CurInv, ListInv, Owns, Building,
                   UsePCs, DestroyPCs
<1>2. OpInv' BY DEF OpInv, PCs, Ops, UsePCs, DestroyPCs, CurInv, Owns, Building
<1>3. MutexInv' BY Zenon DEF OpInv, MutexInv, HoldsF, HoldsS, CurInv, Owns, Building, UsePCs,
                     DestroyPCs, OwnerInv
<1>4. CurInv' BY DEF OpInv, MutexInv, HoldsF, HoldsS, CurInv, Owns, Building, UsePCs,
                   DestroyPCs, OwnerInv, ListInv, PCs
<1>5. UseInv' BY DEF OpInv, MutexInv, HoldsF, HoldsS, CurInv, UseInv, Owns, Building, UsePCs,
                   DestroyPCs, OwnerInv, ListInv
<1>6. OwnerInv' BY DEF OpInv, MutexInv, HoldsF, HoldsS, CurInv, Owns, Building, UsePCs,
                     DestroyPCs, OwnerInv, ListInv
<1>7. ListInv' BY DEF OpInv, MutexInv, HoldsF, HoldsS, CurInv, Owns, Building, UsePCs,
                    DestroyPCs, OwnerInv, ListInv, PhaseInv
<1>8. PhaseInv' BY Zenon DEF OpInv, MutexInv, HoldsF, HoldsS, PhaseInv, CurInv, Owns, UsePCs,
                     DestroyPCs
<1>9. QED BY <1>1, <1>2, <1>3, <1>4, <1>5, <1>6, <1>7, <1>8, Zenon

\* A cell that kzalloc hands out is known to its creator only.
LEMMA CallCreateInv ==
  ASSUME IInv, NEW t \in Threads, CallCreate(t)
  PROVE  IInv'
<1> USE NoThreadFresh, NoSessionFresh, NoSidFresh, IvSizesNat, WildSids
<1> USE DEF CallCreate, Enter, Goto, file, cells, locals, IInv, TypeOK
<1>1. TypeOK' BY DEF Phases, Ops, PCs, Results, OpInv, CurInv, ListInv, Owns, Building, UsePCs,
                   DestroyPCs
<1>2. OpInv' BY DEF OpInv, PCs, Ops, UsePCs, DestroyPCs, CurInv, Owns, Building
<1>3. MutexInv' BY DEF OpInv, MutexInv, HoldsF, HoldsS, CurInv, Owns, Building, UsePCs,
                     DestroyPCs, OwnerInv
<1>4. CurInv' BY DEF OpInv, MutexInv, HoldsF, HoldsS, CurInv, Owns, Building, UsePCs,
                   DestroyPCs, OwnerInv, ListInv, PCs
<1>5. UseInv' BY DEF OpInv, MutexInv, HoldsF, HoldsS, CurInv, UseInv, Owns, Building, UsePCs,
                   DestroyPCs, OwnerInv, ListInv
<1>6. OwnerInv' BY DEF OpInv, MutexInv, HoldsF, HoldsS, CurInv, Owns, Building, UsePCs,
                     DestroyPCs, OwnerInv, ListInv
<1>7. ListInv' BY DEF OpInv, MutexInv, HoldsF, HoldsS, CurInv, Owns, Building, UsePCs,
                    DestroyPCs, OwnerInv, ListInv, PhaseInv
<1>8. PhaseInv' BY DEF OpInv, MutexInv, HoldsF, HoldsS, PhaseInv, CurInv, Owns, UsePCs, DestroyPCs
<1>9. QED BY <1>1, <1>2, <1>3, <1>4, <1>5, <1>6, <1>7, <1>8, Zenon

\* A create that fails leaves the table alone.
LEMMA CallCreateFailsInv ==
  ASSUME IInv, NEW t \in Threads, CallCreateFails(t)
  PROVE  IInv'
<1> USE NoThreadFresh, NoSessionFresh, NoSidFresh, IvSizesNat, WildSids
<1> USE DEF CallCreateFails, Return, Goto, file, cells, locals, IInv, TypeOK
<1>1. TypeOK' BY Zenon DEF Phases, Ops, PCs, Results, OpInv, CurInv, ListInv, Owns, Building,
                   UsePCs, DestroyPCs
<1>2. OpInv' BY DEF OpInv, PCs, Ops, UsePCs, DestroyPCs, CurInv, Owns, Building
<1>3. MutexInv' BY Zenon DEF OpInv, MutexInv, HoldsF, HoldsS, CurInv, Owns, Building, UsePCs,
                     DestroyPCs, OwnerInv
<1>4. CurInv' BY DEF OpInv, MutexInv, HoldsF, HoldsS, CurInv, Owns, Building, UsePCs,
                   DestroyPCs, OwnerInv, ListInv, PCs
<1>5. UseInv' BY DEF OpInv, MutexInv, HoldsF, HoldsS, CurInv, UseInv, Owns, Building, UsePCs,
                   DestroyPCs, OwnerInv, ListInv
<1>6. OwnerInv' BY DEF OpInv, MutexInv, HoldsF, HoldsS, CurInv, Owns, Building, UsePCs,
                     DestroyPCs, OwnerInv, ListInv
<1>7. ListInv' BY DEF OpInv, MutexInv, HoldsF, HoldsS, CurInv, Owns, Building, UsePCs,
                    DestroyPCs, OwnerInv, ListInv, PhaseInv
<1>8. PhaseInv' BY Zenon DEF OpInv, MutexInv, HoldsF, HoldsS, PhaseInv, CurInv, Owns, UsePCs,
                     DestroyPCs
<1>9. QED BY <1>1, <1>2, <1>3, <1>4, <1>5, <1>6, <1>7, <1>8, Zenon

\* Drawing another identifier changes only the session being built.
LEMMA CreateRedrawInv ==
  ASSUME IInv, NEW t \in Threads, CreateRedraw(t)
  PROVE  IInv'
<1> USE NoThreadFresh, NoSessionFresh, NoSidFresh, IvSizesNat, WildSids
<1> USE DEF CreateRedraw, file, cells, locals, IInv, TypeOK
<1>1. TypeOK' BY DEF Phases, Ops, PCs, Results, OpInv, CurInv, ListInv, Owns, Building, UsePCs,
                   DestroyPCs
<1>2. OpInv' BY Zenon DEF OpInv, PCs, Ops, UsePCs, DestroyPCs, CurInv, Owns, Building
<1>3. MutexInv' BY Zenon DEF OpInv, MutexInv, HoldsF, HoldsS, CurInv, Owns, Building, UsePCs,
                     DestroyPCs, OwnerInv
<1>4. CurInv' BY DEF OpInv, MutexInv, HoldsF, HoldsS, CurInv, Owns, Building, UsePCs,
                   DestroyPCs, OwnerInv, ListInv, PCs
<1>5. UseInv' BY DEF OpInv, MutexInv, HoldsF, HoldsS, CurInv, UseInv, Owns, Building, UsePCs,
                   DestroyPCs, OwnerInv, ListInv
<1>6. OwnerInv' BY DEF OpInv, MutexInv, HoldsF, HoldsS, CurInv, Owns, Building, UsePCs,
                     DestroyPCs, OwnerInv, ListInv
<1>7. ListInv' BY DEF OpInv, MutexInv, HoldsF, HoldsS, CurInv, Owns, Building, UsePCs,
                    DestroyPCs, OwnerInv, ListInv, PhaseInv
<1>8. PhaseInv' BY Zenon DEF OpInv, MutexInv, HoldsF, HoldsS, PhaseInv, CurInv, Owns, UsePCs,
                     DestroyPCs
<1>9. QED BY <1>1, <1>2, <1>3, <1>4, <1>5, <1>6, <1>7, <1>8, Zenon

\* crypto_create_session links a session whose identifier is not in the list.
LEMMA CreateAddInv ==
  ASSUME IInv, NEW t \in Threads, CreateAdd(t)
  PROVE  IInv'
<1> USE NoThreadFresh, NoSessionFresh, NoSidFresh, IvSizesNat, WildSids
<1> USE DEF CreateAdd, UnlockF, Goto, file, cells, locals, IInv, TypeOK
<1>1. TypeOK' BY DEF Phases, Ops, PCs, Results, OpInv, CurInv, ListInv, Owns, Building, UsePCs,
                   DestroyPCs
<1>2. OpInv' BY DEF OpInv, PCs, Ops, UsePCs, DestroyPCs, CurInv, Owns, Building
<1>3. MutexInv' BY Zenon DEF OpInv, MutexInv, HoldsF, HoldsS, CurInv, Owns, Building, UsePCs,
                     DestroyPCs, OwnerInv
<1>4. CurInv' BY DEF OpInv, MutexInv, HoldsF, HoldsS, CurInv, Owns, Building, UsePCs,
                   DestroyPCs, OwnerInv, ListInv, PCs
<1>5. UseInv' BY DEF OpInv, MutexInv, HoldsF, HoldsS, CurInv, UseInv, Owns, Building, UsePCs,
                   DestroyPCs, OwnerInv, ListInv
<1>6. OwnerInv' BY DEF OpInv, MutexInv, HoldsF, HoldsS, CurInv, Owns, Building, UsePCs,
                     DestroyPCs, OwnerInv, ListInv
<1>7. ListInv' BY DEF OpInv, MutexInv, HoldsF, HoldsS, CurInv, Owns, Building, UsePCs,
                    DestroyPCs, OwnerInv, ListInv, PhaseInv
<1>8. PhaseInv' BY Zenon DEF OpInv, MutexInv, HoldsF, HoldsS, PhaseInv, CurInv, Owns, UsePCs,
                     DestroyPCs
<1>9. QED BY <1>1, <1>2, <1>3, <1>4, <1>5, <1>6, <1>7, <1>8, Zenon

\* Reading the new session's identifier changes nothing but the thread's copy.
LEMMA CreateReadSidInv ==
  ASSUME IInv, NEW t \in Threads, CreateReadSid(t)
  PROVE  IInv'
<1> USE NoThreadFresh, NoSessionFresh, NoSidFresh, IvSizesNat, WildSids
<1> USE DEF CreateReadSid, Goto, file, cells, locals, IInv, TypeOK
<1>1. TypeOK' BY DEF Phases, Ops, PCs, Results, OpInv, CurInv, ListInv, Owns, Building, UsePCs,
                   DestroyPCs
<1>2. OpInv' BY DEF OpInv, PCs, Ops, UsePCs, DestroyPCs, CurInv, Owns, Building
<1>3. MutexInv' BY Zenon DEF OpInv, MutexInv, HoldsF, HoldsS, CurInv, Owns, Building, UsePCs,
                     DestroyPCs, OwnerInv
<1>4. CurInv' BY DEF OpInv, MutexInv, HoldsF, HoldsS, CurInv, Owns, Building, UsePCs,
                   DestroyPCs, OwnerInv, ListInv, PCs
<1>5. UseInv' BY DEF OpInv, MutexInv, HoldsF, HoldsS, CurInv, UseInv, Owns, Building, UsePCs,
                   DestroyPCs, OwnerInv, ListInv
<1>6. OwnerInv' BY DEF OpInv, MutexInv, HoldsF, HoldsS, CurInv, Owns, Building, UsePCs,
                     DestroyPCs, OwnerInv, ListInv
<1>7. ListInv' BY DEF OpInv, MutexInv, HoldsF, HoldsS, CurInv, Owns, Building, UsePCs,
                    DestroyPCs, OwnerInv, ListInv, PhaseInv
<1>8. PhaseInv' BY Zenon DEF OpInv, MutexInv, HoldsF, HoldsS, PhaseInv, CurInv, Owns, UsePCs,
                     DestroyPCs
<1>9. QED BY <1>1, <1>2, <1>3, <1>4, <1>5, <1>6, <1>7, <1>8, Zenon

\* The identifier is handed to user space.
LEMMA CreateCopyOutInv ==
  ASSUME IInv, NEW t \in Threads, CreateCopyOut(t)
  PROVE  IInv'
<1> USE NoThreadFresh, NoSessionFresh, NoSidFresh, IvSizesNat, WildSids
<1> USE DEF CreateCopyOut, Return, Goto, file, cells, locals, IInv, TypeOK
<1>1. TypeOK' BY DEF Phases, Ops, PCs, Results, OpInv, CurInv, ListInv, Owns, Building, UsePCs,
                   DestroyPCs
<1>2. OpInv' BY Zenon DEF OpInv, PCs, Ops, UsePCs, DestroyPCs, CurInv, Owns, Building
<1>3. MutexInv' BY Zenon DEF OpInv, MutexInv, HoldsF, HoldsS, CurInv, Owns, Building, UsePCs,
                     DestroyPCs, OwnerInv
<1>4. CurInv' BY DEF OpInv, MutexInv, HoldsF, HoldsS, CurInv, Owns, Building, UsePCs,
                   DestroyPCs, OwnerInv, ListInv, PCs
<1>5. UseInv' BY DEF OpInv, MutexInv, HoldsF, HoldsS, CurInv, UseInv, Owns, Building, UsePCs,
                   DestroyPCs, OwnerInv, ListInv
<1>6. OwnerInv' BY DEF OpInv, MutexInv, HoldsF, HoldsS, CurInv, Owns, Building, UsePCs,
                     DestroyPCs, OwnerInv, ListInv
<1>7. ListInv' BY DEF OpInv, MutexInv, HoldsF, HoldsS, CurInv, Owns, Building, UsePCs,
                    DestroyPCs, OwnerInv, ListInv, PhaseInv
<1>8. PhaseInv' BY Zenon DEF OpInv, MutexInv, HoldsF, HoldsS, PhaseInv, CurInv, Owns, UsePCs,
                     DestroyPCs
<1>9. QED BY <1>1, <1>2, <1>3, <1>4, <1>5, <1>6, <1>7, <1>8, Zenon

\* A create whose copy_to_user failed turns into a finish.
LEMMA CreateRollbackInv ==
  ASSUME IInv, NEW t \in Threads, CreateRollback(t)
  PROVE  IInv'
<1> USE NoThreadFresh, NoSessionFresh, NoSidFresh, IvSizesNat, WildSids
<1> USE DEF CreateRollback, Enter, Goto, file, cells, locals, IInv, TypeOK
<1>1. TypeOK' BY Zenon DEF Phases, Ops, PCs, Results, OpInv, CurInv, ListInv, Owns, Building,
                   UsePCs, DestroyPCs
<1>2. OpInv' BY Zenon DEF OpInv, PCs, Ops, UsePCs, DestroyPCs, CurInv, Owns, Building
<1>3. MutexInv' BY DEF OpInv, MutexInv, HoldsF, HoldsS, CurInv, Owns, Building, UsePCs,
                     DestroyPCs, OwnerInv
<1>4. CurInv' BY DEF OpInv, MutexInv, HoldsF, HoldsS, CurInv, Owns, Building, UsePCs,
                   DestroyPCs, OwnerInv, ListInv, PCs
<1>5. UseInv' BY DEF OpInv, MutexInv, HoldsF, HoldsS, CurInv, UseInv, Owns, Building, UsePCs,
                   DestroyPCs, OwnerInv, ListInv
<1>6. OwnerInv' BY DEF OpInv, MutexInv, HoldsF, HoldsS, CurInv, Owns, Building, UsePCs,
                     DestroyPCs, OwnerInv, ListInv
<1>7. ListInv' BY DEF OpInv, MutexInv, HoldsF, HoldsS, CurInv, Owns, Building, UsePCs,
                    DestroyPCs, OwnerInv, ListInv, PhaseInv
<1>8. PhaseInv' BY Zenon DEF OpInv, MutexInv, HoldsF, HoldsS, PhaseInv, CurInv, Owns, UsePCs,
                     DestroyPCs
<1>9. QED BY <1>1, <1>2, <1>3, <1>4, <1>5, <1>6, <1>7, <1>8, Zenon

\* A thread gets fcr->sem only when nobody holds it.
LEMMA AcquireFInv ==
  ASSUME IInv, NEW t \in Threads, AcquireF(t)
  PROVE  IInv'
<1> USE NoThreadFresh, NoSessionFresh, NoSidFresh, IvSizesNat, WildSids
<1> USE DEF AcquireF, LockF, Goto, file, cells, locals, IInv, TypeOK
<1>1. TypeOK' BY Zenon DEF Phases, Ops, PCs, Results, OpInv, CurInv, ListInv, Owns, Building,
                   UsePCs, DestroyPCs
<1>2. OpInv' BY DEF OpInv, PCs, Ops, UsePCs, DestroyPCs, CurInv, Owns, Building
<1>3. MutexInv' BY DEF OpInv, MutexInv, HoldsF, HoldsS, CurInv, Owns, Building, UsePCs,
                     DestroyPCs, OwnerInv
<1>4. CurInv' BY DEF OpInv, MutexInv, HoldsF, HoldsS, CurInv, Owns, Building, UsePCs,
                   DestroyPCs, OwnerInv, ListInv, PCs
<1>5. UseInv' BY DEF OpInv, MutexInv, HoldsF, HoldsS, CurInv, UseInv, Owns, Building, UsePCs,
                   DestroyPCs, OwnerInv, ListInv
<1>6. OwnerInv' BY DEF OpInv, MutexInv, HoldsF, HoldsS, CurInv, Owns, Building, UsePCs,
                     DestroyPCs, OwnerInv, ListInv
<1>7. ListInv' BY DEF OpInv, MutexInv, HoldsF, HoldsS, CurInv, Owns, Building, UsePCs,
                    DestroyPCs, OwnerInv, ListInv, PhaseInv
<1>8. PhaseInv' BY DEF OpInv, MutexInv, HoldsF, HoldsS, PhaseInv, CurInv, Owns, UsePCs, DestroyPCs
<1>9. QED BY <1>1, <1>2, <1>3, <1>4, <1>5, <1>6, <1>7, <1>8, Zenon

\* list_del makes the finishing thread the session's owner.
LEMMA UnlinkInv ==
  ASSUME IInv, NEW t \in Threads, Unlink(t)
  PROVE  IInv'
<1> USE NoThreadFresh, NoSessionFresh, NoSidFresh, IvSizesNat, WildSids
<1> USE DEF Unlink, Victims, Goto, file, cells, locals, IInv, TypeOK
<1>1. TypeOK' BY DEF Phases, Ops, PCs, Results, OpInv, CurInv, ListInv, Owns, Building, UsePCs,
                   DestroyPCs
<1>2. OpInv' BY DEF OpInv, PCs, Ops, UsePCs, DestroyPCs, CurInv, Owns, Building
<1>3. MutexInv' BY DEF OpInv, MutexInv, HoldsF, HoldsS, CurInv, Owns, Building, UsePCs,
                     DestroyPCs, OwnerInv
<1>4. CurInv' BY DEF OpInv, MutexInv, HoldsF, HoldsS, CurInv, Owns, Building, UsePCs,
                   DestroyPCs, OwnerInv, ListInv, PCs
<1>5. UseInv' BY DEF OpInv, MutexInv, HoldsF, HoldsS, CurInv, UseInv, Owns, Building, UsePCs,
                   DestroyPCs, OwnerInv, ListInv
<1>6. OwnerInv' BY DEF OpInv, MutexInv, HoldsF, HoldsS, CurInv, Owns, Building, UsePCs,
                     DestroyPCs, OwnerInv, ListInv
<1>7. ListInv' BY DEF OpInv, MutexInv, HoldsF, HoldsS, CurInv, Owns, Building, UsePCs,
                    DestroyPCs, OwnerInv, ListInv, PhaseInv
<1>8. PhaseInv' BY DEF OpInv, MutexInv, HoldsF, HoldsS, PhaseInv, CurInv, Owns, UsePCs, DestroyPCs
<1>9. QED BY <1>1, <1>2, <1>3, <1>4, <1>5, <1>6, <1>7, <1>8, Zenon

\* A finish that finds nothing goes on to release fcr->sem.
LEMMA UnlinkNoneInv ==
  ASSUME IInv, NEW t \in Threads, UnlinkNone(t)
  PROVE  IInv'
<1> USE NoThreadFresh, NoSessionFresh, NoSidFresh, IvSizesNat, WildSids
<1> USE DEF UnlinkNone, Victims, Goto, file, cells, locals, IInv, TypeOK
<1>1. TypeOK' BY Zenon DEF Phases, Ops, PCs, Results, OpInv, CurInv, ListInv, Owns, Building,
                   UsePCs, DestroyPCs
<1>2. OpInv' BY DEF OpInv, PCs, Ops, UsePCs, DestroyPCs, CurInv, Owns, Building
<1>3. MutexInv' BY Zenon DEF OpInv, MutexInv, HoldsF, HoldsS, CurInv, Owns, Building, UsePCs,
                     DestroyPCs, OwnerInv
<1>4. CurInv' BY DEF OpInv, MutexInv, HoldsF, HoldsS, CurInv, Owns, Building, UsePCs,
                   DestroyPCs, OwnerInv, ListInv, PCs
<1>5. UseInv' BY DEF OpInv, MutexInv, HoldsF, HoldsS, CurInv, UseInv, Owns, Building, UsePCs,
                   DestroyPCs, OwnerInv, ListInv
<1>6. OwnerInv' BY DEF OpInv, MutexInv, HoldsF, HoldsS, CurInv, Owns, Building, UsePCs,
                     DestroyPCs, OwnerInv, ListInv
<1>7. ListInv' BY DEF OpInv, MutexInv, HoldsF, HoldsS, CurInv, Owns, Building, UsePCs,
                    DestroyPCs, OwnerInv, ListInv, PhaseInv
<1>8. PhaseInv' BY DEF OpInv, MutexInv, HoldsF, HoldsS, PhaseInv, CurInv, Owns, UsePCs, DestroyPCs
<1>9. QED BY <1>1, <1>2, <1>3, <1>4, <1>5, <1>6, <1>7, <1>8, Zenon

\* When the destroyer gets the session's mutex no other thread uses it.
LEMMA DestroyLockInv ==
  ASSUME IInv, NEW t \in Threads, DestroyLock(t)
  PROVE  IInv'
<1> USE NoThreadFresh, NoSessionFresh, NoSidFresh, IvSizesNat, WildSids
<1> USE DEF DestroyLock, Goto, file, cells, locals, IInv, TypeOK
<1>1. TypeOK' BY Zenon DEF Phases, Ops, PCs, Results, OpInv, CurInv, ListInv, Owns, Building,
                   UsePCs, DestroyPCs
<1>2. OpInv' BY DEF OpInv, PCs, Ops, UsePCs, DestroyPCs, CurInv, Owns, Building
<1>3. MutexInv' BY DEF OpInv, MutexInv, HoldsF, HoldsS, CurInv, Owns, Building, UsePCs,
                     DestroyPCs, OwnerInv
<1>4. CurInv' BY DEF OpInv, MutexInv, HoldsF, HoldsS, CurInv, Owns, Building, UsePCs,
                   DestroyPCs, OwnerInv, ListInv, PCs
<1>5. UseInv' BY DEF OpInv, MutexInv, HoldsF, HoldsS, CurInv, UseInv, Owns, Building, UsePCs,
                   DestroyPCs, OwnerInv, ListInv
<1>6. OwnerInv' BY DEF OpInv, MutexInv, HoldsF, HoldsS, CurInv, Owns, Building, UsePCs,
                     DestroyPCs, OwnerInv, ListInv
<1>7. ListInv' BY DEF OpInv, MutexInv, HoldsF, HoldsS, CurInv, Owns, Building, UsePCs,
                    DestroyPCs, OwnerInv, ListInv, PhaseInv
<1>8. PhaseInv' BY DEF OpInv, MutexInv, HoldsF, HoldsS, PhaseInv, CurInv, Owns, UsePCs, DestroyPCs
<1>9. QED BY <1>1, <1>2, <1>3, <1>4, <1>5, <1>6, <1>7, <1>8, Zenon

\* The destroyer gives the mutex back; nobody waits for it.
LEMMA DestroyDeinitInv ==
  ASSUME IInv, NEW t \in Threads, DestroyDeinit(t)
  PROVE  IInv'
<1> USE NoThreadFresh, NoSessionFresh, NoSidFresh, IvSizesNat, WildSids
<1> USE DEF DestroyDeinit, Goto, file, cells, locals, IInv, TypeOK
<1>1. TypeOK' BY Zenon DEF Phases, Ops, PCs, Results, OpInv, CurInv, ListInv, Owns, Building,
                   UsePCs, DestroyPCs
<1>2. OpInv' BY DEF OpInv, PCs, Ops, UsePCs, DestroyPCs, CurInv, Owns, Building
<1>3. MutexInv' BY DEF OpInv, MutexInv, HoldsF, HoldsS, CurInv, Owns, Building, UsePCs,
                     DestroyPCs, OwnerInv
<1>4. CurInv' BY DEF OpInv, MutexInv, HoldsF, HoldsS, CurInv, Owns, Building, UsePCs,
                   DestroyPCs, OwnerInv, ListInv, PCs
<1>5. UseInv' BY DEF OpInv, MutexInv, HoldsF, HoldsS, CurInv, UseInv, Owns, Building, UsePCs,
                   DestroyPCs, OwnerInv, ListInv
<1>6. OwnerInv' BY DEF OpInv, MutexInv, HoldsF, HoldsS, CurInv, Owns, Building, UsePCs,
                     DestroyPCs, OwnerInv, ListInv
<1>7. ListInv' BY DEF OpInv, MutexInv, HoldsF, HoldsS, CurInv, Owns, Building, UsePCs,
                    DestroyPCs, OwnerInv, ListInv, PhaseInv
<1>8. PhaseInv' BY DEF OpInv, MutexInv, HoldsF, HoldsS, PhaseInv, CurInv, Owns, UsePCs, DestroyPCs
<1>9. QED BY <1>1, <1>2, <1>3, <1>4, <1>5, <1>6, <1>7, <1>8, Zenon

\* kfree: no list and no other thread refers to the cell.
LEMMA DestroyKfreeInv ==
  ASSUME IInv, NEW t \in Threads, DestroyKfree(t)
  PROVE  IInv'
<1> USE NoThreadFresh, NoSessionFresh, NoSidFresh, IvSizesNat, WildSids
<1> USE DEF DestroyKfree, Goto, file, cells, locals, IInv, TypeOK
<1>1. TypeOK' BY Zenon DEF Phases, Ops, PCs, Results, OpInv, CurInv, ListInv, Owns, Building,
                   UsePCs, DestroyPCs
<1>2. OpInv' BY DEF OpInv, PCs, Ops, UsePCs, DestroyPCs, CurInv, Owns, Building
<1>3. MutexInv' BY Zenon DEF OpInv, MutexInv, HoldsF, HoldsS, CurInv, Owns, Building, UsePCs,
                     DestroyPCs, OwnerInv
<1>4. CurInv' BY DEF OpInv, MutexInv, HoldsF, HoldsS, CurInv, Owns, Building, UsePCs,
                   DestroyPCs, OwnerInv, ListInv, PCs
<1>5. UseInv' BY DEF OpInv, MutexInv, HoldsF, HoldsS, CurInv, UseInv, Owns, Building, UsePCs,
                   DestroyPCs, OwnerInv, ListInv
<1>6. OwnerInv' BY DEF OpInv, MutexInv, HoldsF, HoldsS, CurInv, Owns, Building, UsePCs,
                     DestroyPCs, OwnerInv, ListInv
<1>7. ListInv' BY DEF OpInv, MutexInv, HoldsF, HoldsS, CurInv, Owns, Building, UsePCs,
                    DestroyPCs, OwnerInv, ListInv, PhaseInv
<1>8. PhaseInv' BY Zenon DEF OpInv, MutexInv, HoldsF, HoldsS, PhaseInv, CurInv, Owns, UsePCs,
                     DestroyPCs
<1>9. QED BY <1>1, <1>2, <1>3, <1>4, <1>5, <1>6, <1>7, <1>8, Zenon

\* crypto_finish_session releases fcr->sem and returns.
LEMMA FinishReturnInv ==
  ASSUME IInv, NEW t \in Threads, FinishReturn(t)
  PROVE  IInv'
<1> USE NoThreadFresh, NoSessionFresh, NoSidFresh, IvSizesNat, WildSids
<1> USE DEF FinishReturn, UnlockF, Return, Goto, file, cells, locals, IInv, TypeOK
<1>1. TypeOK' BY Zenon DEF Phases, Ops, PCs, Results, OpInv, CurInv, ListInv, Owns, Building,
                   UsePCs, DestroyPCs
<1>2. OpInv' BY Zenon DEF OpInv, PCs, Ops, UsePCs, DestroyPCs, CurInv, Owns, Building
<1>3. MutexInv' BY DEF OpInv, MutexInv, HoldsF, HoldsS, CurInv, Owns, Building, UsePCs,
                     DestroyPCs, OwnerInv
<1>4. CurInv' BY DEF OpInv, MutexInv, HoldsF, HoldsS, CurInv, Owns, Building, UsePCs,
                   DestroyPCs, OwnerInv, ListInv, PCs
<1>5. UseInv' BY DEF OpInv, MutexInv, HoldsF, HoldsS, CurInv, UseInv, Owns, Building, UsePCs,
                   DestroyPCs, OwnerInv, ListInv
<1>6. OwnerInv' BY DEF OpInv, MutexInv, HoldsF, HoldsS, CurInv, Owns, Building, UsePCs,
                     DestroyPCs, OwnerInv, ListInv
<1>7. ListInv' BY DEF OpInv, MutexInv, HoldsF, HoldsS, CurInv, Owns, Building, UsePCs,
                    DestroyPCs, OwnerInv, ListInv, PhaseInv
<1>8. PhaseInv' BY Zenon DEF OpInv, MutexInv, HoldsF, HoldsS, PhaseInv, CurInv, Owns, UsePCs,
                     DestroyPCs
<1>9. QED BY <1>1, <1>2, <1>3, <1>4, <1>5, <1>6, <1>7, <1>8, Zenon

\* crypto_get_session_by_sid finds a session of the list.
LEMMA LookupHitInv ==
  ASSUME IInv, NEW t \in Threads, LookupHit(t)
  PROVE  IInv'
<1> USE NoThreadFresh, NoSessionFresh, NoSidFresh, IvSizesNat, WildSids
<1> USE DEF LookupHit, Goto, file, cells, locals, IInv, TypeOK
<1>1. TypeOK' BY DEF Phases, Ops, PCs, Results, OpInv, CurInv, ListInv, Owns, Building, UsePCs,
                   DestroyPCs
<1>2. OpInv' BY DEF OpInv, PCs, Ops, UsePCs, DestroyPCs, CurInv, Owns, Building
<1>3. MutexInv' BY DEF OpInv, MutexInv, HoldsF, HoldsS, CurInv, Owns, Building, UsePCs,
                     DestroyPCs, OwnerInv
<1>4. CurInv' BY DEF OpInv, MutexInv, HoldsF, HoldsS, CurInv, Owns, Building, UsePCs,
                   DestroyPCs, OwnerInv, ListInv, PCs
<1>5. UseInv' BY DEF OpInv, MutexInv, HoldsF, HoldsS, CurInv, UseInv, Owns, Building, UsePCs,
                   DestroyPCs, OwnerInv, ListInv
<1>6. OwnerInv' BY DEF OpInv, MutexInv, HoldsF, HoldsS, CurInv, Owns, Building, UsePCs,
                     DestroyPCs, OwnerInv, ListInv
<1>7. ListInv' BY DEF OpInv, MutexInv, HoldsF, HoldsS, CurInv, Owns, Building, UsePCs,
                    DestroyPCs, OwnerInv, ListInv, PhaseInv
<1>8. PhaseInv' BY Zenon DEF OpInv, MutexInv, HoldsF, HoldsS, PhaseInv, CurInv, Owns, UsePCs,
                     DestroyPCs
<1>9. QED BY <1>1, <1>2, <1>3, <1>4, <1>5, <1>6, <1>7, <1>8, Zenon

\* A lookup that finds nothing releases fcr->sem and returns.
LEMMA LookupMissInv ==
  ASSUME IInv, NEW t \in Threads, LookupMiss(t)
  PROVE  IInv'
<1> USE NoThreadFresh, NoSessionFresh, NoSidFresh, IvSizesNat, WildSids
<1> USE DEF LookupMiss, UnlockF, Return, Goto, file, cells, locals, IInv, TypeOK
<1>1. TypeOK' BY Zenon DEF Phases, Ops, PCs, Results, OpInv, CurInv, ListInv, Owns, Building,
                   UsePCs, DestroyPCs
<1>2. OpInv' BY DEF OpInv, PCs, Ops, UsePCs, DestroyPCs, CurInv, Owns, Building
<1>3. MutexInv' BY DEF OpInv, MutexInv, HoldsF, HoldsS, CurInv, Owns, Building, UsePCs,
                     DestroyPCs, OwnerInv
<1>4. CurInv' BY DEF OpInv, MutexInv, HoldsF, HoldsS, CurInv, Owns, Building, UsePCs,
                   DestroyPCs, OwnerInv, ListInv, PCs
<1>5. UseInv' BY DEF OpInv, MutexInv, HoldsF, HoldsS, CurInv, UseInv, Owns, Building, UsePCs,
                   DestroyPCs, OwnerInv, ListInv
<1>6. OwnerInv' BY DEF OpInv, MutexInv, HoldsF, HoldsS, CurInv, Owns, Building, UsePCs,
                     DestroyPCs, OwnerInv, ListInv
<1>7. ListInv' BY DEF OpInv, MutexInv, HoldsF, HoldsS, CurInv, Owns, Building, UsePCs,
                    DestroyPCs, OwnerInv, ListInv, PhaseInv
<1>8. PhaseInv' BY Zenon DEF OpInv, MutexInv, HoldsF, HoldsS, PhaseInv, CurInv, Owns, UsePCs,
                     DestroyPCs
<1>9. QED BY <1>1, <1>2, <1>3, <1>4, <1>5, <1>6, <1>7, <1>8, Zenon

\* The session's mutex is taken with fcr->sem held.
LEMMA LookupLockInv ==
  ASSUME IInv, NEW t \in Threads, LookupLock(t)
  PROVE  IInv'
<1> USE NoThreadFresh, NoSessionFresh, NoSidFresh, IvSizesNat, WildSids
<1> USE DEF LookupLock, Goto, file, cells, locals, IInv, TypeOK
<1>1. TypeOK' BY Zenon DEF Phases, Ops, PCs, Results, OpInv, CurInv, ListInv, Owns, Building,
                   UsePCs, DestroyPCs
<1>2. OpInv' BY DEF OpInv, PCs, Ops, UsePCs, DestroyPCs, CurInv, Owns, Building
<1>3. MutexInv' BY DEF OpInv, MutexInv, HoldsF, HoldsS, CurInv, Owns, Building, UsePCs,
                     DestroyPCs, OwnerInv
<1>4. CurInv' BY DEF OpInv, MutexInv, HoldsF, HoldsS, CurInv, Owns, Building, UsePCs,
                   DestroyPCs, OwnerInv, ListInv, PCs
<1>5. UseInv' BY DEF OpInv, MutexInv, HoldsF, HoldsS, CurInv, UseInv, Owns, Building, UsePCs,
                   DestroyPCs, OwnerInv, ListInv
<1>6. OwnerInv' BY DEF OpInv, MutexInv, HoldsF, HoldsS, CurInv, Owns, Building, UsePCs,
                     DestroyPCs, OwnerInv, ListInv
<1>7. ListInv' BY DEF OpInv, MutexInv, HoldsF, HoldsS, CurInv, Owns, Building, UsePCs,
                    DestroyPCs, OwnerInv, ListInv, PhaseInv
<1>8. PhaseInv' BY Zenon DEF OpInv, MutexInv, HoldsF, HoldsS, PhaseInv, CurInv, Owns, UsePCs,
                     DestroyPCs
<1>9. QED BY <1>1, <1>2, <1>3, <1>4, <1>5, <1>6, <1>7, <1>8, Zenon

\* fcr->sem is released; from here only the mutex protects the session.
LEMMA LookupUnlockInv ==
  ASSUME IInv, NEW t \in Threads, LookupUnlock(t)
  PROVE  IInv'
<1> USE NoThreadFresh, NoSessionFresh, NoSidFresh, IvSizesNat, WildSids
<1> USE DEF LookupUnlock, UnlockF, Goto, file, cells, locals, IInv, TypeOK
<1>1. TypeOK' BY Zenon DEF Phases, Ops, PCs, Results, OpInv, CurInv, ListInv, Owns, Building,
                   UsePCs, DestroyPCs
<1>2. OpInv' BY Zenon DEF OpInv, PCs, Ops, UsePCs, DestroyPCs, CurInv, Owns, Building
<1>3. MutexInv' BY DEF OpInv, MutexInv, HoldsF, HoldsS, CurInv, Owns, Building, UsePCs,
                     DestroyPCs, OwnerInv
<1>4. CurInv' BY DEF OpInv, MutexInv, HoldsF, HoldsS, CurInv, Owns, Building, UsePCs,
                   DestroyPCs, OwnerInv, ListInv, PCs
<1>5. UseInv' BY DEF OpInv, MutexInv, HoldsF, HoldsS, CurInv, UseInv, Owns, Building, UsePCs,
                   DestroyPCs, OwnerInv, ListInv
<1>6. OwnerInv' BY DEF OpInv, MutexInv, HoldsF, HoldsS, CurInv, Owns, Building, UsePCs,
                     DestroyPCs, OwnerInv, ListInv
<1>7. ListInv' BY DEF OpInv, MutexInv, HoldsF, HoldsS, CurInv, Owns, Building, UsePCs,
                    DestroyPCs, OwnerInv, ListInv, PhaseInv
<1>8. PhaseInv' BY Zenon DEF OpInv, MutexInv, HoldsF, HoldsS, PhaseInv, CurInv, Owns, UsePCs,
                     DestroyPCs
<1>9. QED BY <1>1, <1>2, <1>3, <1>4, <1>5, <1>6, <1>7, <1>8, Zenon

\* get_session_info reads the session.
LEMMA UseInfoInv ==
  ASSUME IInv, NEW t \in Threads, UseInfo(t)
  PROVE  IInv'
<1> USE NoThreadFresh, NoSessionFresh, NoSidFresh, IvSizesNat, WildSids
<1> USE DEF UseInfo, Goto, file, cells, locals, IInv, TypeOK
<1>1. TypeOK' BY Zenon DEF Phases, Ops, PCs, Results, OpInv, CurInv, ListInv, Owns, Building,
                   UsePCs, DestroyPCs
<1>2. OpInv' BY DEF OpInv, PCs, Ops, UsePCs, DestroyPCs, CurInv, Owns, Building
<1>3. MutexInv' BY Zenon DEF OpInv, MutexInv, HoldsF, HoldsS, CurInv, Owns, Building, UsePCs,
                     DestroyPCs, OwnerInv
<1>4. CurInv' BY DEF OpInv, MutexInv, HoldsF, HoldsS, CurInv, Owns, Building, UsePCs,
                   DestroyPCs, OwnerInv, ListInv, PCs
<1>5. UseInv' BY DEF OpInv, MutexInv, HoldsF, HoldsS, CurInv, UseInv, Owns, Building, UsePCs,
                   DestroyPCs, OwnerInv, ListInv
<1>6. OwnerInv' BY DEF OpInv, MutexInv, HoldsF, HoldsS, CurInv, Owns, Building, UsePCs,
                     DestroyPCs, OwnerInv, ListInv
<1>7. ListInv' BY DEF OpInv, MutexInv, HoldsF, HoldsS, CurInv, Owns, Building, UsePCs,
                    DestroyPCs, OwnerInv, ListInv, PhaseInv
<1>8. PhaseInv' BY Zenon DEF OpInv, MutexInv, HoldsF, HoldsS, PhaseInv, CurInv, Owns, UsePCs,
                     DestroyPCs
<1>9. QED BY <1>1, <1>2, <1>3, <1>4, <1>5, <1>6, <1>7, <1>8, Zenon

\* fill_kcop_from_cop notes the IV length of the session it found.
LEMMA UseFillInv ==
  ASSUME IInv, NEW t \in Threads, UseFill(t)
  PROVE  IInv'
<1> USE NoThreadFresh, NoSessionFresh, NoSidFresh, IvSizesNat, WildSids
<1> USE DEF UseFill, Goto, file, cells, locals, IInv, TypeOK
<1>1. TypeOK' BY DEF Phases, Ops, PCs, Results, OpInv, CurInv, ListInv, Owns, Building, UsePCs,
                   DestroyPCs
<1>2. OpInv' BY Zenon DEF OpInv, PCs, Ops, UsePCs, DestroyPCs, CurInv, Owns, Building
<1>3. MutexInv' BY Zenon DEF OpInv, MutexInv, HoldsF, HoldsS, CurInv, Owns, Building, UsePCs,
                     DestroyPCs, OwnerInv
<1>4. CurInv' BY DEF OpInv, MutexInv, HoldsF, HoldsS, CurInv, Owns, Building, UsePCs,
                   DestroyPCs, OwnerInv, ListInv, PCs
<1>5. UseInv' BY DEF OpInv, MutexInv, HoldsF, HoldsS, CurInv, UseInv, Owns, Building, UsePCs,
                   DestroyPCs, OwnerInv, ListInv
<1>6. OwnerInv' BY DEF OpInv, MutexInv, HoldsF, HoldsS, CurInv, Owns, Building, UsePCs,
                     DestroyPCs, OwnerInv, ListInv
<1>7. ListInv' BY DEF OpInv, MutexInv, HoldsF, HoldsS, CurInv, Owns, Building, UsePCs,
                    DestroyPCs, OwnerInv, ListInv, PhaseInv
<1>8. PhaseInv' BY Zenon DEF OpInv, MutexInv, HoldsF, HoldsS, PhaseInv, CurInv, Owns, UsePCs,
                     DestroyPCs
<1>9. QED BY <1>1, <1>2, <1>3, <1>4, <1>5, <1>6, <1>7, <1>8, Zenon

\* crypto_run bounds the IV length by the session's.
LEMMA UseSetIvInv ==
  ASSUME IInv, NEW t \in Threads, UseSetIv(t)
  PROVE  IInv'
<1> USE NoThreadFresh, NoSessionFresh, NoSidFresh, IvSizesNat, WildSids
<1> USE DEF UseSetIv, SetIvLen, Min, Goto, file, cells, locals, IInv, TypeOK
<1>1. TypeOK' BY DEF Phases, Ops, PCs, Results, OpInv, CurInv, ListInv, Owns, Building, UsePCs,
                   DestroyPCs
<1>2. OpInv' BY Zenon DEF OpInv, PCs, Ops, UsePCs, DestroyPCs, CurInv, Owns, Building
<1>3. MutexInv' BY Zenon DEF OpInv, MutexInv, HoldsF, HoldsS, CurInv, Owns, Building, UsePCs,
                     DestroyPCs, OwnerInv
<1>4. CurInv' BY DEF OpInv, MutexInv, HoldsF, HoldsS, CurInv, Owns, Building, UsePCs,
                   DestroyPCs, OwnerInv, ListInv, PCs
<1>5. UseInv' BY DEF OpInv, MutexInv, HoldsF, HoldsS, CurInv, UseInv, Owns, Building, UsePCs,
                   DestroyPCs, OwnerInv, ListInv
<1>6. OwnerInv' BY DEF OpInv, MutexInv, HoldsF, HoldsS, CurInv, Owns, Building, UsePCs,
                     DestroyPCs, OwnerInv, ListInv
<1>7. ListInv' BY DEF OpInv, MutexInv, HoldsF, HoldsS, CurInv, Owns, Building, UsePCs,
                    DestroyPCs, OwnerInv, ListInv, PhaseInv
<1>8. PhaseInv' BY Zenon DEF OpInv, MutexInv, HoldsF, HoldsS, PhaseInv, CurInv, Owns, UsePCs,
                     DestroyPCs
<1>9. QED BY <1>1, <1>2, <1>3, <1>4, <1>5, <1>6, <1>7, <1>8, Zenon

\* A request that is refused goes on to crypto_put_session.
LEMMA UseFailsInv ==
  ASSUME IInv, NEW t \in Threads, UseFails(t)
  PROVE  IInv'
<1> USE NoThreadFresh, NoSessionFresh, NoSidFresh, IvSizesNat, WildSids
<1> USE DEF UseFails, Goto, file, cells, locals, IInv, TypeOK
<1>1. TypeOK' BY Zenon DEF Phases, Ops, PCs, Results, OpInv, CurInv, ListInv, Owns, Building,
                   UsePCs, DestroyPCs
<1>2. OpInv' BY Zenon DEF OpInv, PCs, Ops, UsePCs, DestroyPCs, CurInv, Owns, Building
<1>3. MutexInv' BY DEF OpInv, MutexInv, HoldsF, HoldsS, CurInv, Owns, Building, UsePCs,
                     DestroyPCs, OwnerInv
<1>4. CurInv' BY DEF OpInv, MutexInv, HoldsF, HoldsS, CurInv, Owns, Building, UsePCs,
                   DestroyPCs, OwnerInv, ListInv, PCs
<1>5. UseInv' BY DEF OpInv, MutexInv, HoldsF, HoldsS, CurInv, UseInv, Owns, Building, UsePCs,
                   DestroyPCs, OwnerInv, ListInv
<1>6. OwnerInv' BY DEF OpInv, MutexInv, HoldsF, HoldsS, CurInv, Owns, Building, UsePCs,
                     DestroyPCs, OwnerInv, ListInv
<1>7. ListInv' BY DEF OpInv, MutexInv, HoldsF, HoldsS, CurInv, Owns, Building, UsePCs,
                    DestroyPCs, OwnerInv, ListInv, PhaseInv
<1>8. PhaseInv' BY Zenon DEF OpInv, MutexInv, HoldsF, HoldsS, PhaseInv, CurInv, Owns, UsePCs,
                     DestroyPCs
<1>9. QED BY <1>1, <1>2, <1>3, <1>4, <1>5, <1>6, <1>7, <1>8, Zenon

\* The request is done.
LEMMA RunDoneInv ==
  ASSUME IInv, NEW t \in Threads, RunDone(t)
  PROVE  IInv'
<1> USE NoThreadFresh, NoSessionFresh, NoSidFresh, IvSizesNat, WildSids
<1> USE DEF RunDone, Goto, file, cells, locals, IInv, TypeOK
<1>1. TypeOK' BY Zenon DEF Phases, Ops, PCs, Results, OpInv, CurInv, ListInv, Owns, Building,
                   UsePCs, DestroyPCs
<1>2. OpInv' BY Zenon DEF OpInv, PCs, Ops, UsePCs, DestroyPCs, CurInv, Owns, Building
<1>3. MutexInv' BY DEF OpInv, MutexInv, HoldsF, HoldsS, CurInv, Owns, Building, UsePCs,
                     DestroyPCs, OwnerInv
<1>4. CurInv' BY DEF OpInv, MutexInv, HoldsF, HoldsS, CurInv, Owns, Building, UsePCs,
                   DestroyPCs, OwnerInv, ListInv, PCs
<1>5. UseInv' BY DEF OpInv, MutexInv, HoldsF, HoldsS, CurInv, UseInv, Owns, Building, UsePCs,
                   DestroyPCs, OwnerInv, ListInv
<1>6. OwnerInv' BY DEF OpInv, MutexInv, HoldsF, HoldsS, CurInv, Owns, Building, UsePCs,
                     DestroyPCs, OwnerInv, ListInv
<1>7. ListInv' BY DEF OpInv, MutexInv, HoldsF, HoldsS, CurInv, Owns, Building, UsePCs,
                    DestroyPCs, OwnerInv, ListInv, PhaseInv
<1>8. PhaseInv' BY Zenon DEF OpInv, MutexInv, HoldsF, HoldsS, PhaseInv, CurInv, Owns, UsePCs,
                     DestroyPCs
<1>9. QED BY <1>1, <1>2, <1>3, <1>4, <1>5, <1>6, <1>7, <1>8, Zenon

\* crypto_put_session releases the mutex and the ioctl returns.
LEMMA PutReturnInv ==
  ASSUME IInv, NEW t \in Threads, PutReturn(t)
  PROVE  IInv'
<1> USE NoThreadFresh, NoSessionFresh, NoSidFresh, IvSizesNat, WildSids
<1> USE DEF PutReturn, Return, Goto, file, cells, locals, IInv, TypeOK
<1>1. TypeOK' BY DEF Phases, Ops, PCs, Results, OpInv, CurInv, ListInv, Owns, Building, UsePCs,
                   DestroyPCs
<1>2. OpInv' BY Zenon DEF OpInv, PCs, Ops, UsePCs, DestroyPCs, CurInv, Owns, Building
<1>3. MutexInv' BY DEF OpInv, MutexInv, HoldsF, HoldsS, CurInv, Owns, Building, UsePCs,
                     DestroyPCs, OwnerInv
<1>4. CurInv' BY DEF OpInv, MutexInv, HoldsF, HoldsS, CurInv, Owns, Building, UsePCs,
                   DestroyPCs, OwnerInv, ListInv, PCs
<1>5. UseInv' BY DEF OpInv, MutexInv, HoldsF, HoldsS, CurInv, UseInv, Owns, Building, UsePCs,
                   DestroyPCs, OwnerInv, ListInv
<1>6. OwnerInv' BY DEF OpInv, MutexInv, HoldsF, HoldsS, CurInv, Owns, Building, UsePCs,
                     DestroyPCs, OwnerInv, ListInv
<1>7. ListInv' BY DEF OpInv, MutexInv, HoldsF, HoldsS, CurInv, Owns, Building, UsePCs,
                    DestroyPCs, OwnerInv, ListInv, PhaseInv
<1>8. PhaseInv' BY Zenon DEF OpInv, MutexInv, HoldsF, HoldsS, PhaseInv, CurInv, Owns, UsePCs,
                     DestroyPCs
<1>9. QED BY <1>1, <1>2, <1>3, <1>4, <1>5, <1>6, <1>7, <1>8, Zenon

\* crypto_put_session after the first lookup; the second one follows.
LEMMA PutThenRunInv ==
  ASSUME IInv, NEW t \in Threads, PutThenRun(t)
  PROVE  IInv'
<1> USE NoThreadFresh, NoSessionFresh, NoSidFresh, IvSizesNat, WildSids
<1> USE DEF PutThenRun, Enter, Goto, file, cells, locals, IInv, TypeOK
<1>1. TypeOK' BY DEF Phases, Ops, PCs, Results, OpInv, CurInv, ListInv, Owns, Building, UsePCs,
                   DestroyPCs
<1>2. OpInv' BY Zenon DEF OpInv, PCs, Ops, UsePCs, DestroyPCs, CurInv, Owns, Building
<1>3. MutexInv' BY DEF OpInv, MutexInv, HoldsF, HoldsS, CurInv, Owns, Building, UsePCs,
                     DestroyPCs, OwnerInv
<1>4. CurInv' BY DEF OpInv, MutexInv, HoldsF, HoldsS, CurInv, Owns, Building, UsePCs,
                   DestroyPCs, OwnerInv, ListInv, PCs
<1>5. UseInv' BY DEF OpInv, MutexInv, HoldsF, HoldsS, CurInv, UseInv, Owns, Building, UsePCs,
                   DestroyPCs, OwnerInv, ListInv
<1>6. OwnerInv' BY DEF OpInv, MutexInv, HoldsF, HoldsS, CurInv, Owns, Building, UsePCs,
                     DestroyPCs, OwnerInv, ListInv
<1>7. ListInv' BY DEF OpInv, MutexInv, HoldsF, HoldsS, CurInv, Owns, Building, UsePCs,
                    DestroyPCs, OwnerInv, ListInv, PhaseInv
<1>8. PhaseInv' BY Zenon DEF OpInv, MutexInv, HoldsF, HoldsS, PhaseInv, CurInv, Owns, UsePCs,
                     DestroyPCs
<1>9. QED BY <1>1, <1>2, <1>3, <1>4, <1>5, <1>6, <1>7, <1>8, Zenon

\* cryptodev_release starts when no ioctl is in progress.
LEMMA ReleaseStartInv ==
  ASSUME IInv, NEW t \in Threads, ReleaseStart(t)
  PROVE  IInv'
<1> USE NoThreadFresh, NoSessionFresh, NoSidFresh, IvSizesNat, WildSids
<1> USE DEF ReleaseStart, Enter, Goto, file, cells, locals, IInv, TypeOK
<1>1. TypeOK' BY Zenon DEF Phases, Ops, PCs, Results, OpInv, CurInv, ListInv, Owns, Building,
                   UsePCs, DestroyPCs
<1>2. OpInv' BY Zenon DEF OpInv, PCs, Ops, UsePCs, DestroyPCs, CurInv, Owns, Building
<1>3. MutexInv' BY DEF OpInv, MutexInv, HoldsF, HoldsS, CurInv, Owns, Building, UsePCs,
                     DestroyPCs, OwnerInv
<1>4. CurInv' BY DEF OpInv, MutexInv, HoldsF, HoldsS, CurInv, Owns, Building, UsePCs,
                   DestroyPCs, OwnerInv, ListInv, PCs
<1>5. UseInv' BY DEF OpInv, MutexInv, HoldsF, HoldsS, CurInv, UseInv, Owns, Building, UsePCs,
                   DestroyPCs, OwnerInv, ListInv
<1>6. OwnerInv' BY DEF OpInv, MutexInv, HoldsF, HoldsS, CurInv, Owns, Building, UsePCs,
                     DestroyPCs, OwnerInv, ListInv
<1>7. ListInv' BY DEF OpInv, MutexInv, HoldsF, HoldsS, CurInv, Owns, Building, UsePCs,
                    DestroyPCs, OwnerInv, ListInv, PhaseInv
<1>8. PhaseInv' BY Zenon DEF OpInv, MutexInv, HoldsF, HoldsS, PhaseInv, CurInv, Owns, UsePCs,
                     DestroyPCs
<1>9. QED BY <1>1, <1>2, <1>3, <1>4, <1>5, <1>6, <1>7, <1>8, Zenon

\* crypto_finish_all_sessions ends with an empty list.
LEMMA ReleaseEndInv ==
  ASSUME IInv, NEW t \in Threads, ReleaseEnd(t)
  PROVE  IInv'
<1> USE NoThreadFresh, NoSessionFresh, NoSidFresh, IvSizesNat, WildSids
<1> USE DEF ReleaseEnd, UnlockF, Return, Goto, file, cells, locals, IInv, TypeOK
<1>1. TypeOK' BY Zenon DEF Phases, Ops, PCs, Results, OpInv, CurInv, ListInv, Owns, Building,
                   UsePCs, DestroyPCs
<1>2. OpInv' BY DEF OpInv, PCs, Ops, UsePCs, DestroyPCs, CurInv, Owns, Building
<1>3. MutexInv' BY Zenon DEF OpInv, MutexInv, HoldsF, HoldsS, CurInv, Owns, Building, UsePCs,
                     DestroyPCs, OwnerInv
<1>4. CurInv' BY DEF OpInv, MutexInv, HoldsF, HoldsS, CurInv, Owns, Building, UsePCs,
                   DestroyPCs, OwnerInv, ListInv, PCs
<1>5. UseInv' BY DEF OpInv, MutexInv, HoldsF, HoldsS, CurInv, UseInv, Owns, Building, UsePCs,
                   DestroyPCs, OwnerInv, ListInv
<1>6. OwnerInv' BY DEF OpInv, MutexInv, HoldsF, HoldsS, CurInv, Owns, Building, UsePCs,
                     DestroyPCs, OwnerInv, ListInv
<1>7. ListInv' BY Zenon DEF OpInv, MutexInv, HoldsF, HoldsS, CurInv, Owns, Building, UsePCs,
                    DestroyPCs, OwnerInv, ListInv, PhaseInv
<1>8. PhaseInv' BY DEF OpInv, MutexInv, HoldsF, HoldsS, PhaseInv, CurInv, Owns, UsePCs, DestroyPCs
<1>9. QED BY <1>1, <1>2, <1>3, <1>4, <1>5, <1>6, <1>7, <1>8, Zenon

----------------------------------------------------------------------------
(* The theorems.                                                           *)

\* An open file starts with no sessions and no calls.
LEMMA InitInv == Init => IInv
BY NoThreadFresh DEF Init, IInv, TypeOK, OpInv, MutexInv, CurInv, UseInv, OwnerInv, ListInv,
   PhaseInv, Owns, Building, HoldsF, HoldsS, UsePCs, DestroyPCs, Phases, Ops, PCs, Results

\* Every step of every thread, and every stuttering step, preserves it.
LEMMA NextInv == IInv /\ [Next]_vars => IInv'
<1> SUFFICES ASSUME IInv, [Next]_vars PROVE IInv'
  BY Zenon
<1>1. CASE UNCHANGED vars
  BY <1>1 DEF vars, IInv, TypeOK, OpInv, MutexInv, CurInv, UseInv, OwnerInv, ListInv,
     PhaseInv, Owns, Building
<1>2. CASE Open
  BY <1>2, OpenInv, Zenon
<1>3. ASSUME NEW t \in Threads, Call(t) PROVE IInv'
  BY <1>3, CallFinishInv, CallLookupInv, Zenon DEF Call
<1>4. ASSUME NEW t \in Threads, Create(t) PROVE IInv'
  BY <1>4, CallCreateInv, CallCreateFailsInv, CreateRedrawInv, CreateAddInv,
     CreateReadSidInv, CreateCopyOutInv, CreateRollbackInv, Zenon DEF Create
<1>5. ASSUME NEW t \in Threads, AcquireF(t) PROVE IInv'
  BY <1>5, AcquireFInv, Zenon
<1>6. ASSUME NEW t \in Threads, Destroy(t) PROVE IInv'
  BY <1>6, UnlinkInv, UnlinkNoneInv, DestroyLockInv, DestroyDeinitInv, DestroyKfreeInv,
     FinishReturnInv, Zenon DEF Destroy
<1>7. ASSUME NEW t \in Threads, Lookup(t) PROVE IInv'
  BY <1>7, LookupHitInv, LookupMissInv, LookupLockInv, LookupUnlockInv, Zenon DEF Lookup
<1>8. ASSUME NEW t \in Threads, Use(t) PROVE IInv'
  BY <1>8, UseInfoInv, UseFillInv, UseSetIvInv, UseFailsInv, RunDoneInv, PutReturnInv,
     PutThenRunInv, Zenon DEF Use
<1>9. ASSUME NEW t \in Threads, Release(t) PROVE IInv'
  BY <1>9, ReleaseStartInv, ReleaseEndInv, Zenon DEF Release
<1>10. QED
  BY <1>1, <1>2, <1>3, <1>4, <1>5, <1>6, <1>7, <1>8, <1>9, Zenon DEF Next

\* The invariant holds in every state of the session table.
LEMMA Invariance == Spec => []IInv
BY InitInv, NextInv, PTL DEF Spec

\* Every variable keeps its type in every behaviour of the session table.
THEOREM TypeCorrect == Spec => []TypeOK
<1>1. IInv => TypeOK
  BY Zenon DEF IInv
<1>2. QED
  BY <1>1, Invariance, PTL

\* No thread ever works on a freed session or on one that took its place in
\* memory, for any number of threads and any identifiers they pass.
THEOREM NoUseAfterFree == Spec => []UsedSessionIsLive
<1>1. IInv => UsedSessionIsLive
  BY Zenon DEF IInv, CurInv, ListInv, UsedSessionIsLive, Owns
<1>2. QED
  BY <1>1, Invariance, PTL

\* Session identifiers stay unique although they are drawn at random.
THEOREM UniqueSids == Spec => []SidsUnique
<1>1. IInv => SidsUnique
  <2> SUFFICES ASSUME IInv, NEW t \in Threads, pc[t] \in UsePCs,
                      NEW s \in list, sid[s] = arg[t]
               PROVE  s = cur[t]
    BY Zenon DEF SidsUnique, IInv, ListInv
  <2>1. sid[cur[t]] = arg[t]
    BY Zenon DEF IInv, CurInv
  <2>2. CASE cur[t] \in list
    BY <2>1, <2>2 DEF IInv, ListInv
  <2>3. CASE \E u \in Threads : pc[u] = "destroy" /\ cur[u] = cur[t]
    BY <2>1, <2>3 DEF IInv, ListInv
  <2>4. QED
    BY <2>2, <2>3, Zenon DEF IInv, UseInv
<1>2. QED
  BY <1>1, Invariance, PTL

\* A session serves one request at a time.
THEOREM ExclusiveUse == Spec => []UsedByOne
<1>1. IInv => UsedByOne
  BY DEF IInv, MutexInv, HoldsS, UsedByOne
<1>2. QED
  BY <1>1, Invariance, PTL

\* A request never sets more IV bytes than its session has.
THEOREM IvBound == Spec => []IvWithinSession
<1>1. IInv => IvWithinSession
  BY Zenon DEF IInv, CurInv, IvWithinSession
<1>2. QED
  BY <1>1, Invariance, PTL

\* No session is lost, and closing the file frees them all.
THEOREM NoSessionLost == Spec => []NothingLost
<1>1. IInv => NothingLost
  BY Zenon DEF IInv, ListInv, PhaseInv, OpInv, NothingLost, Owns, Building, DestroyPCs
<1>2. QED
  BY <1>1, Invariance, PTL

\* crypto_destroy_session frees a session only when it is unlinked, its mutex
\* is free, and no thread uses it or waits for it.
THEOREM QuietFree == Spec => FreedWhenUnused
<1>1. IInv /\ [Next]_vars => [FreeIsQuiet]_vars
  <2> SUFFICES ASSUME IInv, Next PROVE FreeIsQuiet
    BY Zenon
  <2>1. ASSUME NEW t \in Threads, DestroyKfree(t) PROVE FreeIsQuiet
    <3>1. heap \ heap' \subseteq {cur[t]}
      BY <2>1, Zenon DEF DestroyKfree
    <3>2. cur[t] \notin list /\ ssem[cur[t]] = NoThread
      BY <2>1, Zenon DEF DestroyKfree, IInv, MutexInv, CurInv, Owns, DestroyPCs
    <3>3. ASSUME NEW u \in Threads, pc[u] \in UsePCs PROVE cur[u] # cur[t]
      BY <2>1, <3>2, <3>3, NoThreadFresh, Zenon DEF DestroyKfree, IInv, MutexInv, CurInv,
           HoldsS, UsePCs
    <3>4. QED
      BY <3>1, <3>2, <3>3, Zenon DEF FreeIsQuiet
  <2>2. ASSUME heap \subseteq heap' PROVE FreeIsQuiet
    BY <2>2, Zenon DEF FreeIsQuiet
  <2>3. Open => heap \subseteq heap'
    BY Zenon DEF Open, cells
  <2>4. \A t \in Threads : Call(t) \/ Create(t) => heap \subseteq heap'
    BY Zenon DEF Call, CallFinish, CallLookup, Create, CallCreate, CallCreateFails, CreateRedraw,
       CreateAdd, CreateReadSid, CreateCopyOut, CreateRollback, cells
  <2>5. \A t \in Threads : AcquireF(t) \/ Lookup(t) \/ Release(t) => heap \subseteq heap'
    BY Zenon DEF AcquireF, Lookup, LookupHit, LookupMiss, LookupLock, LookupUnlock, Release,
       ReleaseStart, ReleaseEnd, cells
  <2>6. \A t \in Threads : Destroy(t) => DestroyKfree(t) \/ heap \subseteq heap'
    BY Zenon DEF Destroy, Unlink, UnlinkNone, DestroyLock, DestroyDeinit, FinishReturn, cells
  <2>7. \A t \in Threads : Use(t) => heap \subseteq heap'
    BY Zenon DEF Use, UseInfo, UseFill, UseSetIv, UseFails, RunDone, PutReturn, PutThenRun, cells
  <2>8. QED
    BY <2>1, <2>2, <2>3, <2>4, <2>5, <2>6, <2>7, Zenon DEF Next
<1>2. QED
  BY <1>1, Invariance, PTL DEF Spec, FreedWhenUnused

----------------------------------------------------------------------------
(* The list of sessions with its mutexes implements the atomic table of    *)
(* module SessionTable.                                                    *)

\* Initially the list is empty and no request runs.
LEMMA TableInitially == Init => Table!TableInit
BY Zenon DEF Init, Table!TableInit, Live, UserOf

\* A step that neither adds nor unlinks a session nor takes or releases a
\* session's mutex for a request is invisible in the table.
LEMMA InvisibleStep ==
  ASSUME IInv, Live' = Live, UserOf' = UserOf
  PROVE  [Table!TableNext]_(Table!tvars)
BY Zenon DEF Table!tvars

\* Linking a new session in crypto_create_session is the table's Add.
LEMMA AddStep ==
  ASSUME IInv, NEW t \in Threads, CreateAdd(t)
  PROVE  Table!Add(sid[cur[t]]) /\ sid[cur[t]] \in Sids
<1> USE DEF CreateAdd, UnlockF, Goto, cells, locals, IInv, TypeOK
<1>1. \A u \in Threads : pc[u] # "destroy"
  BY Zenon DEF MutexInv, HoldsF
<1>2. cur[t] \in Sessions /\ sid[cur[t]] \in Sids
  BY Zenon DEF OpInv, CurInv, Owns, Building, ListInv
<1>3. Live = {sid[s] : s \in list}
  BY <1>1, Zenon DEF Live
<1>4. Live' = {sid[s] : s \in list \cup {cur[t]}}
  BY <1>1 DEF Live
<1>5. UserOf' = UserOf
  BY Zenon DEF UserOf
<1>6. QED
  BY <1>2, <1>3, <1>4, <1>5 DEF Table!Add

\* crypto_destroy_session's getting the mutex is the table's Remove.
LEMMA RemoveStep ==
  ASSUME IInv, NEW t \in Threads, DestroyLock(t)
  PROVE  Table!Remove(sid[cur[t]]) /\ sid[cur[t]] \in Sids
<1> USE DEF DestroyLock, Goto, file, locals, IInv, TypeOK
<1>1. \A u \in Threads : pc[u] = "destroy" => u = t
  BY Zenon DEF MutexInv, HoldsF
<1>2. cur[t] \in heap /\ sid[cur[t]] \in Sids
  BY Zenon DEF CurInv, Owns, DestroyPCs, ListInv
<1>3. Live = {sid[s] : s \in list} \cup {sid[cur[t]]}
  BY <1>1, Zenon DEF Live
<1>4. Live' = {sid[s] : s \in list}
  BY <1>1, Zenon DEF Live
<1>5. sid[cur[t]] \notin {sid[s] : s \in list}
  BY DEF ListInv
<1>6. UserOf' = UserOf
  BY Zenon DEF UserOf
<1>7. ASSUME NEW u \in Threads, UserOf[u] = sid[cur[t]] PROVE FALSE
  <2>1. pc[u] \in {"found", "use", "run", "put"} /\ sid[cur[u]] = sid[cur[t]]
    BY <1>2, <1>7, NoSidFresh, Zenon DEF UserOf, CurInv, UsePCs
  <2>2. cur[u] = cur[t]
    BY <1>1, <1>5, <2>1, Zenon DEF UseInv, UsePCs
  <2>3. QED
    BY <2>1, <2>2, NoThreadFresh, Zenon DEF MutexInv, HoldsS
<1>8. QED
  BY <1>2, <1>3, <1>4, <1>5, <1>6, <1>7 DEF Table!Remove

\* The end of crypto_get_session_by_sid's wait for the mutex is Begin.
LEMMA BeginStep ==
  ASSUME IInv, NEW t \in Threads, LookupLock(t)
  PROVE  Table!Begin(t, arg[t]) /\ arg[t] \in Sids
<1> USE DEF LookupLock, Goto, file, locals, IInv, TypeOK
<1>1. cur[t] \in list /\ sid[cur[t]] = arg[t] /\ arg[t] \in Sids
  BY Zenon DEF CurInv, ListInv, UsePCs
<1>2. arg[t] \in Live
  BY <1>1, Zenon DEF Live
<1>3. Live' = Live
  BY DEF Live
<1>4. UserOf[t] = NoSid /\ UserOf' = [UserOf EXCEPT ![t] = arg[t]]
  BY Zenon DEF UserOf
<1>5. ASSUME NEW u \in Threads, UserOf[u] = arg[t] PROVE FALSE
  <2>1. pc[u] \in {"found", "use", "run", "put"} /\ sid[cur[u]] = arg[t]
    BY <1>1, <1>5, NoSidFresh, Zenon DEF UserOf, CurInv, UsePCs
  <2>2. cur[u] = cur[t]
    BY <1>1, <2>1 DEF UseInv, UsePCs, ListInv
  <2>3. QED
    BY <2>1, <2>2, NoThreadFresh, Zenon DEF MutexInv, HoldsS
<1>6. QED
  BY <1>1, <1>2, <1>3, <1>4, <1>5, Zenon DEF Table!Begin

\* crypto_put_session, also before the second lookup of CIOCCRYPT, is End.
LEMMA EndStep ==
  ASSUME IInv, NEW t \in Threads, PutReturn(t) \/ PutThenRun(t)
  PROVE  Table!End(t)
<1> USE DEF PutReturn, PutThenRun, Return, Enter, Goto, file, IInv, TypeOK
<1>1. arg[t] \in Sids
  BY Zenon DEF CurInv, ListInv, UsePCs
<1>2. Live' = Live
  BY DEF Live
<1>3. UserOf[t] # NoSid /\ UserOf' = [UserOf EXCEPT ![t] = NoSid]
  BY <1>1, NoSidFresh, Zenon DEF UserOf
<1>4. QED
  BY <1>2, <1>3, Zenon DEF Table!End

\* Entering an ioctl is invisible.
LEMMA CallStep ==
  ASSUME IInv, NEW t \in Threads, Open \/ Call(t) \/ CallCreate(t) \/ CallCreateFails(t)
  PROVE  Live' = Live /\ UserOf' = UserOf
<1> USE DEF Enter, Return, Goto, file, cells, locals, IInv, TypeOK
<1>1. CASE Open
  BY <1>1, Zenon DEF Open, Live, UserOf
<1>2. CASE Call(t)
  BY <1>2 DEF Call, CallFinish, CallLookup, Live, UserOf
<1>3. CASE CallCreateFails(t)
  BY <1>3 DEF CallCreateFails, Live, UserOf
<1>4. CASE CallCreate(t)
  <2>1. PICK s \in Sessions \ heap : \A c \in Sessions : c # s => sid'[c] = sid[c]
    BY <1>4, Zenon DEF CallCreate
  <2>2. \A c \in list : sid'[c] = sid[c]
    BY <2>1, Zenon DEF ListInv
  <2>3. \A u \in Threads : pc[u] = "destroy" => cur'[u] = cur[u] /\ sid'[cur[u]] = sid[cur[u]]
    BY <1>4, <2>1 DEF CallCreate, CurInv, Owns, DestroyPCs
  <2>4. \A u \in Threads : pc[u] = "destroy" <=> pc'[u] = "destroy"
    BY <1>4, Zenon DEF CallCreate
  <2>5. Live' = Live
    BY <1>4, <2>2, <2>3, <2>4 DEF CallCreate, Live
  <2>6. UserOf' = UserOf
    BY <1>4, Zenon DEF CallCreate, UserOf
  <2>7. QED
    BY <2>5, <2>6, Zenon
<1>5. QED
  BY <1>1, <1>2, <1>3, <1>4, Zenon

\* Apart from linking the session, crypto_create_session is invisible.
LEMMA CreateStep ==
  ASSUME IInv, NEW t \in Threads,
         CreateRedraw(t) \/ CreateReadSid(t) \/ CreateCopyOut(t) \/ CreateRollback(t)
  PROVE  Live' = Live /\ UserOf' = UserOf
<1> USE DEF Enter, Return, Goto, file, cells, locals, IInv, TypeOK
<1>1. CASE CreateRedraw(t)
  <2>1. \A u \in Threads : pc[u] # "destroy"
    BY <1>1, Zenon DEF CreateRedraw, MutexInv, HoldsF
  <2>2. cur[t] \notin list
    BY <1>1, Zenon DEF CreateRedraw, OpInv, CurInv, Owns, Building
  <2>3. Live' = Live
    BY <1>1, <2>1, <2>2 DEF CreateRedraw, Live
  <2>4. QED
    BY <1>1, <2>3, Zenon DEF CreateRedraw, UserOf
<1>2. CASE CreateReadSid(t)
  BY <1>2 DEF CreateReadSid, Live, UserOf
<1>3. CASE CreateCopyOut(t)
  BY <1>3, Zenon DEF CreateCopyOut, Live, UserOf
<1>4. CASE CreateRollback(t)
  BY <1>4, Zenon DEF CreateRollback, Live, UserOf
<1>5. QED
  BY <1>1, <1>2, <1>3, <1>4, Zenon

\* Apart from getting the session's mutex, crypto_finish_session is invisible:
\* list_del is not seen, since the session stays live until its destroyer has
\* the mutex.
LEMMA DestroyStep ==
  ASSUME IInv, NEW t \in Threads,
         Unlink(t) \/ UnlinkNone(t) \/ DestroyDeinit(t) \/ DestroyKfree(t) \/ FinishReturn(t)
  PROVE  Live' = Live /\ UserOf' = UserOf
<1> USE DEF Return, Goto, UnlockF, file, cells, locals, IInv, TypeOK
<1>1. \A u \in Threads : pc[u] # "destroy"
  BY Zenon DEF Unlink, UnlinkNone, DestroyDeinit, DestroyKfree, FinishReturn, MutexInv, HoldsF
<1>2. CASE Unlink(t)
  <2>1. PICK s \in list : list' = list \ {s} /\ cur' = [cur EXCEPT ![t] = s]
    BY <1>2, Zenon DEF Unlink, Victims
  <2>2. Live' = {sid[c] : c \in list \ {s}} \cup {sid[s]}
    BY <1>1, <1>2, <2>1 DEF Unlink, Live
  <2>3. Live' = Live
    BY <1>1, <2>2, Zenon DEF Live
  <2>4. QED
    BY <1>2, <2>3, Zenon DEF Unlink, UserOf
<1>3. CASE DestroyKfree(t)
  <2>1. cur[t] \notin list
    BY <1>3, Zenon DEF DestroyKfree, CurInv, Owns, DestroyPCs
  <2>2. Live' = Live
    BY <1>1, <1>3, <2>1 DEF DestroyKfree, Live
  <2>3. QED
    BY <1>3, <2>2, Zenon DEF DestroyKfree, UserOf
<1>4. CASE UnlinkNone(t) \/ DestroyDeinit(t) \/ FinishReturn(t)
  BY <1>4 DEF UnlinkNone, DestroyDeinit, FinishReturn, Live, UserOf
<1>5. QED
  BY <1>2, <1>3, <1>4, Zenon

\* Taking fcr->sem, searching the list, using a session and releasing the file
\* are invisible.
LEMMA OtherStep ==
  ASSUME IInv, NEW t \in Threads,
         \/ AcquireF(t) \/ LookupHit(t) \/ LookupMiss(t) \/ LookupUnlock(t)
         \/ UseInfo(t) \/ UseFill(t) \/ UseSetIv(t) \/ UseFails(t) \/ RunDone(t)
         \/ Release(t)
  PROVE  Live' = Live /\ UserOf' = UserOf
<1> USE DEF Enter, Return, Goto, LockF, UnlockF, file, cells, locals, IInv, TypeOK
<1>1. CASE AcquireF(t) \/ LookupHit(t) \/ LookupMiss(t) \/ LookupUnlock(t)
  BY <1>1 DEF AcquireF, LookupHit, LookupMiss, LookupUnlock, Live, UserOf
<1>2. CASE UseInfo(t) \/ UseFill(t) \/ UseSetIv(t) \/ UseFails(t) \/ RunDone(t)
  BY <1>2 DEF UseInfo, UseFill, UseSetIv, UseFails, RunDone, Live, UserOf
<1>3. CASE Release(t)
  BY <1>3 DEF Release, ReleaseStart, ReleaseEnd, Live, UserOf
<1>4. QED
  BY <1>1, <1>2, <1>3, Zenon

\* Every step of the threads is a step of the table or leaves it alone.
LEMMA TableStep == IInv /\ [Next]_vars => [Table!TableNext]_(Table!tvars)
<1> SUFFICES ASSUME IInv, [Next]_vars PROVE [Table!TableNext]_(Table!tvars)
  BY Zenon
<1>1. CASE UNCHANGED vars
  BY <1>1, Zenon DEF vars, Live, UserOf, Table!tvars
<1>2. CASE Open
  BY <1>2, InvisibleStep, Zenon DEF Open, cells, locals, Live, UserOf
<1>3. ASSUME NEW t \in Threads, Call(t) \/ Create(t) PROVE [Table!TableNext]_(Table!tvars)
  <2>1. CASE CreateAdd(t)
    BY <2>1, AddStep, Zenon DEF Table!TableNext
  <2>2. QED
    BY <1>3, <2>1, CallStep, CreateStep, InvisibleStep, Zenon DEF Create
<1>4. ASSUME NEW t \in Threads, Destroy(t) PROVE [Table!TableNext]_(Table!tvars)
  <2>1. CASE DestroyLock(t)
    BY <2>1, RemoveStep, Zenon DEF Table!TableNext
  <2>2. QED
    BY <1>4, <2>1, DestroyStep, InvisibleStep, Zenon DEF Destroy
<1>5. ASSUME NEW t \in Threads, AcquireF(t) \/ Lookup(t) \/ Use(t) \/ Release(t)
      PROVE  [Table!TableNext]_(Table!tvars)
  <2>1. CASE LookupLock(t)
    BY <2>1, BeginStep, Zenon DEF Table!TableNext
  <2>2. CASE PutReturn(t) \/ PutThenRun(t)
    BY <2>2, EndStep, Zenon DEF Table!TableNext
  <2>3. QED
    BY <1>5, <2>1, <2>2, OtherStep, InvisibleStep, Zenon DEF Lookup, Use
<1>6. QED
  BY <1>1, <1>2, <1>3, <1>4, <1>5, Zenon DEF Next

\* The session list with its two levels of mutexes implements an atomic table:
\* to its callers, crypto_create_session, crypto_finish_session and the pair
\* crypto_get_session_by_sid / crypto_put_session act as single steps.
THEOREM TableImplemented == Spec => ImplementsTable
BY TableInitially, TableStep, Invariance, PTL DEF Spec, ImplementsTable, Table!TableSpec

----------------------------------------------------------------------------
(* Identifiers of programs that finish each of theirs once.                *)

\* Thread t alone may finish an identifier: it has created its session and not
\* yet told user space, or it is about to finish it.
Claims(t) == \/ pc[t] \in {"readSid", "copyOut"}
             \/ op[t] \in {"finish", "rollback"} /\ pc[t] \in {"lockF", "unlink"}
Claimed(t) == IF pc[t] = "readSid" THEN sid[cur[t]] ELSE arg[t]
Listed(i) == \E s \in list : sid[s] = i

\* An identifier that user space or a thread has is in the list, and only one
\* of them has it.
HeldInv ==
    /\ phase # "open" => given = {}
    /\ \A i \in given : Listed(i)
    /\ \A t \in Threads : Claims(t) => Claimed(t) \notin given /\ Listed(Claimed(t))
    /\ \A t, u \in Threads : Claims(t) /\ Claims(u) /\ Claimed(t) = Claimed(u) => t = u
    /\ \A t \in Threads : pc[t] = "readSid" => cur[t] \in list

\* Nothing that is listed goes, and nobody gets an identifier.
LEMMA HeldKeep ==
  ASSUME HeldInv, given' \subseteq given, phase' # "open" => given' = {},
         list \subseteq list', \A s \in list : sid'[s] = sid[s],
         \A t \in Threads : Claims(t)' => Claims(t) /\ Claimed(t)' = Claimed(t),
         \A t \in Threads : pc'[t] = "readSid" => pc[t] = "readSid" /\ cur'[t] = cur[t]
  PROVE  HeldInv'
<1>1. \A i : Listed(i) => Listed(i)'
  BY Zenon DEF Listed
<1>2. \A i \in given' : Listed(i)'
  BY <1>1, Zenon DEF HeldInv
<1>3. ASSUME NEW t \in Threads, Claims(t)'
      PROVE  Claimed(t)' \notin given' /\ \E s \in list' : sid'[s] = Claimed(t)'
  <2>1. Claims(t) /\ Claimed(t)' = Claimed(t)
    BY <1>3, Zenon
  <2>2. Claimed(t) \notin given /\ \E s \in list : sid[s] = Claimed(t)
    BY <2>1, Zenon DEF HeldInv, Listed
  <2>3. QED BY <2>1, <2>2, Zenon
<1>4. QED BY <1>2, <1>3, Zenon DEF HeldInv, Listed

\* crypto_create_session adds its session: no identifier in the list, and so
\* none that is held, is that of the new session.
LEMMA HeldAdd ==
  ASSUME IInv, HeldInv, NEW t \in Threads, CreateAdd(t)
  PROVE  HeldInv'
<1> USE DEF cells, locals, Goto
<1>1. /\ pc[t] = "draw" /\ list' = list \cup {cur[t]} /\ pc' = [pc EXCEPT ![t] = "readSid"]
      /\ UNCHANGED <<phase, sid, op, arg, cur, given>> /\ pc \in [Threads -> PCs]
      /\ ~Listed(sid[cur[t]])
  BY Zenon DEF CreateAdd, Listed, IInv, TypeOK
<1>2. \A i : Listed(i)' <=> Listed(i) \/ i = sid[cur[t]]
  BY <1>1, Zenon DEF Listed
<1>3. \A u \in Threads \ {t} : (Claims(u)' <=> Claims(u)) /\ Claimed(u)' = Claimed(u)
  BY <1>1, Zenon DEF Claims, Claimed
<1>4. Claims(t)' /\ Claimed(t)' = sid[cur[t]]
  BY <1>1, Zenon DEF Claims, Claimed
<1>5. \A i \in given' : Listed(i)'
  BY <1>1, <1>2, Zenon DEF HeldInv
<1>6. ASSUME NEW u \in Threads, Claims(u)'
      PROVE  Claimed(u)' \notin given' /\ \E s \in list' : sid'[s] = Claimed(u)'
  <2>1. CASE u = t
    <3>1. ASSUME sid[cur[t]] \in given PROVE FALSE
      BY <1>1, <3>1, Zenon DEF HeldInv
    <3>2. QED BY <1>1, <1>4, <2>1, <3>1, Zenon
  <2>2. CASE u # t
    <3>1. Claims(u) /\ Claimed(u)' = Claimed(u)
      BY <1>3, <1>6, <2>2, Zenon
    <3>2. Claimed(u) \notin given /\ \E s \in list : sid[s] = Claimed(u)
      BY <3>1, Zenon DEF HeldInv, Listed
    <3>3. QED BY <1>1, <3>1, <3>2, Zenon
  <2>3. QED BY <2>1, <2>2, Zenon
<1>7. \A u, v \in Threads : Claims(u)' /\ Claims(v)' /\ Claimed(u)' = Claimed(v)' => u = v
  BY <1>1, <1>3, <1>4, Zenon DEF HeldInv
<1>8. \A u \in Threads : pc'[u] = "readSid" => cur'[u] \in list'
  BY <1>1, Zenon DEF HeldInv
<1>9. QED BY <1>1, <1>5, <1>6, <1>7, <1>8, Zenon DEF HeldInv, Listed

\* The identifier passes from the thread to user space.
LEMMA HeldCopyOut ==
  ASSUME IInv, HeldInv, NEW t \in Threads, CreateCopyOut(t)
  PROVE  HeldInv'
<1> USE DEF file, cells, Goto, Return
<1>1. /\ pc[t] = "copyOut" /\ pc' = [pc EXCEPT ![t] = "idle"] /\ op' = [op EXCEPT ![t] = "none"]
      /\ given' = given \cup {arg[t]} /\ UNCHANGED <<phase, list, sid>>
      /\ pc \in [Threads -> PCs] /\ op \in [Threads -> Ops] /\ op[t] = "create"
      /\ arg' = [arg EXCEPT ![t] = NoSid] /\ cur' = [cur EXCEPT ![t] = NoSession]
  BY Zenon DEF CreateCopyOut, IInv, TypeOK, OpInv
<1>2. phase = "open"
  BY <1>1, Zenon DEF IInv, PhaseInv
<1>3. \A u \in Threads \ {t} : /\ UNCHANGED <<pc[u], op[u], arg[u], cur[u]>>
                               /\ (Claims(u)' <=> Claims(u)) /\ Claimed(u)' = Claimed(u)
  BY <1>1, Zenon DEF Claims, Claimed, IInv, TypeOK
<1>4. Claims(t) /\ Claimed(t) = arg[t] /\ ~Claims(t)' /\ pc'[t] = "idle"
  BY <1>1, Zenon DEF Claims, Claimed
<1>5. \A i : Listed(i)' <=> Listed(i)
  BY <1>1, Zenon DEF Listed
<1>6. \A i \in given' : Listed(i)'
  BY <1>1, <1>4, <1>5, Zenon DEF HeldInv
<1>7. ASSUME NEW u \in Threads, Claims(u)'
      PROVE  Claimed(u)' \notin given' /\ \E s \in list' : sid'[s] = Claimed(u)'
  <2>1. u # t /\ Claims(u) /\ Claimed(u)' = Claimed(u)
    BY <1>3, <1>4, <1>7, Zenon
  <2>2. Claimed(u) \notin given /\ Claimed(u) # arg[t] /\ \E s \in list : sid[s] = Claimed(u)
    BY <1>4, <2>1, Zenon DEF HeldInv, Listed
  <2>3. QED BY <1>1, <2>1, <2>2, Zenon
<1>8. \A u, v \in Threads : Claims(u)' /\ Claims(v)' /\ Claimed(u)' = Claimed(v)' => u = v
  BY <1>3, <1>4, ZenonT(30) DEF HeldInv
<1>9. \A u \in Threads : pc'[u] = "readSid" => cur'[u] \in list'
  BY <1>1, <1>3, <1>4 DEF HeldInv
<1>10. QED BY <1>1, <1>2, <1>6, <1>7, <1>8, <1>9, Zenon DEF HeldInv, Listed

\* CIOCFSESSION takes an identifier from user space.
LEMMA HeldFinish ==
  ASSUME IInv, HeldInv, NEW t \in Threads, NEW id \in given, CallFinish(t, id)
  PROVE  HeldInv'
<1> USE DEF file, cells, Goto, Enter
<1>1. /\ pc[t] = "idle" /\ pc' = [pc EXCEPT ![t] = "lockF"] /\ op' = [op EXCEPT ![t] = "finish"]
      /\ given' = given \ {id} /\ UNCHANGED <<phase, list, sid, cur>> /\ arg' = [arg EXCEPT ![t] = id]
      /\ pc \in [Threads -> PCs] /\ op \in [Threads -> Ops] /\ arg \in [Threads -> Sids \cup {NoSid}]
  BY Zenon DEF CallFinish, IInv, TypeOK
<1>2. \A u \in Threads \ {t} : /\ UNCHANGED <<pc[u], op[u], arg[u]>>
                               /\ (Claims(u)' <=> Claims(u)) /\ Claimed(u)' = Claimed(u)
  BY <1>1, Zenon DEF Claims, Claimed
<1>3. Claims(t)' /\ Claimed(t)' = id /\ pc'[t] = "lockF"
  BY <1>1, Zenon DEF Claims, Claimed
<1>4. \A i : Listed(i)' <=> Listed(i)
  BY <1>1, Zenon DEF Listed
<1>5. \A i \in given' : Listed(i)'
  BY <1>1, <1>4, Zenon DEF HeldInv
<1>6. ASSUME NEW u \in Threads, Claims(u)'
      PROVE  Claimed(u)' \notin given' /\ \E s \in list' : sid'[s] = Claimed(u)'
  <2>1. CASE u = t
    <3>1. id \notin given' /\ \E s \in list : sid[s] = id
      BY <1>1, Zenon DEF HeldInv, Listed
    <3>2. QED BY <1>1, <1>3, <2>1, <3>1, Zenon
  <2>2. CASE u # t
    <3>1. Claims(u) /\ Claimed(u)' = Claimed(u)
      BY <1>2, <1>6, <2>2, Zenon
    <3>2. Claimed(u) \notin given /\ \E s \in list : sid[s] = Claimed(u)
      BY <3>1, Zenon DEF HeldInv, Listed
    <3>3. QED BY <1>1, <3>1, <3>2, Zenon
  <2>3. QED BY <2>1, <2>2, Zenon
<1>7. \A u, v \in Threads : Claims(u)' /\ Claims(v)' /\ Claimed(u)' = Claimed(v)' => u = v
  <2>1. ASSUME NEW u \in Threads \ {t}, Claims(u)' PROVE Claimed(u)' # id
    <3>1. Claims(u) /\ Claimed(u)' = Claimed(u)
      BY <1>2, <2>1, Zenon
    <3>2. Claimed(u) \notin given
      BY <3>1, Zenon DEF HeldInv
    <3>3. QED BY <3>1, <3>2, Zenon
  <2>2. \A u, v \in Threads \ {t} : Claims(u)' /\ Claims(v)' /\ Claimed(u)' = Claimed(v)' => u = v
    BY <1>2, Zenon DEF HeldInv
  <2>3. QED BY <1>3, <2>1, <2>2, ZenonT(30)
<1>8. \A u \in Threads : pc'[u] = "readSid" => cur'[u] \in list'
  BY <1>1, <1>2, <1>3, Zenon DEF HeldInv
<1>9. QED BY <1>1, <1>5, <1>6, <1>7, <1>8, Zenon DEF HeldInv, Listed

\* crypto_finish_session unlinks the session its thread has the identifier of,
\* and crypto_finish_all_sessions runs when nobody has one.
LEMMA HeldUnlink ==
  ASSUME IInv, HeldInv, NEW t \in Threads, Unlink(t)
  PROVE  HeldInv'
<1> USE DEF cells, Goto
<1>1. /\ pc[t] = "unlink" /\ pc' = [pc EXCEPT ![t] = "destroy"] /\ UNCHANGED <<phase, sid, op, arg, given>>
      /\ pc \in [Threads -> PCs] /\ cur \in [Threads -> Sessions \cup {NoSession}]
      /\ op[t] \in {"finish", "rollback", "release"}
  BY Zenon DEF Unlink, IInv, TypeOK, OpInv
<1>2. PICK s \in Victims(t) : list' = list \ {s} /\ cur' = [cur EXCEPT ![t] = s]
  BY Zenon DEF Unlink
<1>3. \A u \in Threads \ {t} : /\ UNCHANGED <<pc[u], cur[u]>>
                               /\ (Claims(u)' <=> Claims(u)) /\ Claimed(u)' = Claimed(u)
  BY <1>1, <1>2, Zenon DEF Claims, Claimed
<1>4. ~Claims(t)' /\ pc'[t] = "destroy"
  BY <1>1, Zenon DEF Claims
<1>5. CASE op[t] = "release"
  <2>1. given = {} /\ \A u \in Threads \ {t} : pc[u] = "idle"
    BY <1>5, Zenon DEF IInv, PhaseInv, HeldInv
  <2>2. \A u \in Threads : ~Claims(u)' /\ pc'[u] # "readSid"
    BY <1>3, <1>4, <2>1, Zenon DEF Claims
  <2>3. QED BY <1>1, <2>1, <2>2, Zenon DEF HeldInv
<1>6. CASE op[t] # "release"
  <2>1. Claims(t) /\ Claimed(t) = arg[t] /\ sid[s] = arg[t] /\ s \in list
    BY <1>1, <1>2, <1>6, Zenon DEF Claims, Claimed, Victims
  <2>2. \A i : i # arg[t] /\ Listed(i) => Listed(i)'
    BY <1>1, <1>2, <2>1, Zenon DEF Listed
  <2>3. \A i \in given' : Listed(i)'
    BY <1>1, <2>1, <2>2, Zenon DEF HeldInv
  <2>4. \A u \in Threads \ {t} : Claims(u) => Claimed(u) # arg[t]
    BY <2>1, Zenon DEF HeldInv
  <2>5. ASSUME NEW u \in Threads, Claims(u)'
        PROVE  Claimed(u)' \notin given' /\ \E r \in list' : sid'[r] = Claimed(u)'
    <3>1. u # t /\ Claims(u) /\ Claimed(u)' = Claimed(u)
      BY <1>3, <1>4, <2>5, Zenon
    <3>2. Claimed(u) \notin given /\ Claimed(u) # arg[t] /\ \E r \in list : sid[r] = Claimed(u)
      BY <2>4, <3>1, Zenon DEF HeldInv, Listed
    <3>3. \E r \in list' : sid'[r] = Claimed(u)
      BY <1>1, <1>2, <2>1, <3>2, Zenon
    <3>4. QED BY <1>1, <3>1, <3>2, <3>3, Zenon
  <2>6. \A u, v \in Threads : Claims(u)' /\ Claims(v)' /\ Claimed(u)' = Claimed(v)' => u = v
    BY <1>3, <1>4, Zenon DEF HeldInv
  <2>7. ASSUME NEW u \in Threads, pc'[u] = "readSid" PROVE cur'[u] \in list'
    <3>1. u # t /\ pc[u] = "readSid" /\ cur'[u] = cur[u]
      BY <1>3, <1>4, <2>7, Zenon
    <3>2. cur[u] \in list /\ sid[cur[u]] # arg[t]
      BY <2>4, <3>1, Zenon DEF HeldInv, Claims, Claimed
    <3>3. QED BY <1>2, <2>1, <3>1, <3>2
  <2>8. QED BY <1>1, <2>3, <2>5, <2>6, <2>7, Zenon DEF HeldInv, Listed
<1>7. QED BY <1>5, <1>6, Zenon

\* The other steps of a thread take nothing from the list.
LEMMA HeldOther ==
  ASSUME IInv, HeldInv, NEW t \in Threads,
         \/ \E o \in {"info", "fill"}, id \in Sids : CallLookup(t, o, id)
         \/ CallCreate(t) \/ CallCreateFails(t) \/ CreateRedraw(t) \/ CreateReadSid(t) \/ CreateRollback(t)
         \/ AcquireF(t) \/ UnlinkNone(t) \/ DestroyLock(t) \/ DestroyDeinit(t) \/ DestroyKfree(t)
         \/ FinishReturn(t) \/ Lookup(t) \/ Use(t) \/ Release(t)
  PROVE  HeldInv'
<1> USE DEF file, cells, locals, Goto, Enter, Return
<1>1. /\ pc \in [Threads -> PCs] /\ op \in [Threads -> Ops] /\ arg \in [Threads -> Sids \cup {NoSid}]
      /\ cur \in [Threads -> Sessions \cup {NoSession}] /\ sid \in [Sessions -> Sids \cup {NoSid}]
      /\ list \subseteq heap /\ heap \subseteq Sessions /\ (phase # "open" => given = {})
  BY Zenon DEF IInv, TypeOK, ListInv, HeldInv
<1>2. CASE \E o \in {"info", "fill"}, id \in Sids : CallLookup(t, o, id)
  <2>1. \A u \in Threads : Claims(u)' => Claims(u) /\ Claimed(u)' = Claimed(u)
    BY <1>1, <1>2, Zenon DEF CallLookup, Claims, Claimed
  <2>2. QED BY <1>1, <1>2, <2>1, HeldKeep, Zenon DEF CallLookup
<1>3. CASE CallCreate(t)
  <2>1. /\ pc' = [pc EXCEPT ![t] = "lockF"] /\ op' = [op EXCEPT ![t] = "create"]
        /\ arg' = [arg EXCEPT ![t] = NoSid] /\ UNCHANGED <<phase, list, given>>
        /\ \A s \in heap : sid'[s] = sid[s]
        /\ \A u \in Threads : u # t => cur'[u] = cur[u]
    BY <1>1, <1>3 DEF CallCreate
  <2>2. \A u \in Threads : pc[u] = "readSid" => cur[u] \in heap
    BY <1>1, Zenon DEF HeldInv
  <2>3. \A u \in Threads : Claims(u)' => Claims(u) /\ Claimed(u)' = Claimed(u)
    BY <1>1, <2>1, <2>2, Zenon DEF Claims, Claimed
  <2>4. QED BY <1>1, <2>1, <2>3, HeldKeep, Zenon
<1>4. CASE CallCreateFails(t)
  <2>1. \A u \in Threads : Claims(u)' => Claims(u) /\ Claimed(u)' = Claimed(u)
    BY <1>1, <1>4, Zenon DEF CallCreateFails, Claims, Claimed
  <2>2. QED BY <1>1, <1>4, <2>1, HeldKeep, Zenon DEF CallCreateFails
<1>5. CASE CreateRedraw(t) \/ DestroyKfree(t)
  <2>1. cur[t] \notin list /\ pc[t] \in {"draw", "kfree"}
    BY <1>5, Zenon DEF CreateRedraw, DestroyKfree, IInv, CurInv, OpInv, Owns, Building, DestroyPCs
  <2>2. /\ \A s \in list : sid'[s] = sid[s]
        /\ \A u \in Threads : pc'[u] = pc[u] \/ (u = t /\ pc'[u] \in {"unlink", "unlockF"})
        /\ pc'[t] = "unlink" => op[t] = "release"
        /\ UNCHANGED <<phase, list, op, arg, cur, given>>
    <3>1. CASE CreateRedraw(t)
      BY <1>1, <2>1, <3>1, Zenon DEF CreateRedraw, OpInv, IInv
    <3>2. CASE DestroyKfree(t)
      BY <1>1, <2>1, <3>2, Zenon DEF DestroyKfree
    <3>3. QED BY <1>5, <3>1, <3>2, Zenon
  <2>3. \A u \in Threads : pc[u] = "readSid" => cur[u] \in list
    BY Zenon DEF HeldInv
  <2>4. \A u \in Threads : Claims(u)' => Claims(u) /\ Claimed(u)' = Claimed(u)
    BY <2>1, <2>2, <2>3, Zenon DEF Claims, Claimed
  <2>5. QED BY <1>1, <2>2, <2>4, HeldKeep, Zenon
<1>6. CASE CreateReadSid(t)
  <2>1. /\ pc[t] = "readSid" /\ pc' = [pc EXCEPT ![t] = "copyOut"] /\ UNCHANGED <<phase, list, sid, op, cur, given>>
        /\ arg' = [arg EXCEPT ![t] = sid[cur[t]]]
    BY <1>1, <1>6, Zenon DEF CreateReadSid, HeldInv
  <2>2. \A u \in Threads : Claims(u)' => Claims(u) /\ Claimed(u)' = Claimed(u)
    BY <1>1, <2>1, Zenon DEF Claims, Claimed
  <2>3. QED BY <1>1, <2>1, <2>2, HeldKeep, Zenon
<1>7. CASE CreateRollback(t)
  <2>1. /\ pc[t] = "copyOut" /\ pc' = [pc EXCEPT ![t] = "lockF"] /\ UNCHANGED <<phase, list, sid, given>>
        /\ op' = [op EXCEPT ![t] = "rollback"] /\ arg' = arg /\ cur' = [cur EXCEPT ![t] = NoSession]
    BY <1>1, <1>7, Zenon DEF CreateRollback
  <2>2. \A u \in Threads : Claims(u)' => Claims(u) /\ Claimed(u)' = Claimed(u)
    BY <1>1, <2>1, Zenon DEF Claims, Claimed
  <2>3. QED BY <1>1, <2>1, <2>2, HeldKeep, Zenon
<1>8. CASE AcquireF(t)
  <2>1. /\ pc[t] = "lockF" /\ \E l \in {"draw", "unlink", "lookup"} : pc' = [pc EXCEPT ![t] = l]
        /\ pc'[t] = "unlink" => op[t] \in {"finish", "rollback", "release"}
        /\ UNCHANGED <<phase, list, sid, op, arg, cur, given>>
    BY <1>1, <1>8, Zenon DEF AcquireF
  <2>2. \A u \in Threads : Claims(u)' => Claims(u) /\ Claimed(u)' = Claimed(u)
    BY <1>1, <2>1, Zenon DEF Claims, Claimed
  <2>3. QED BY <1>1, <2>1, <2>2, HeldKeep, Zenon
<1>9. CASE \/ UnlinkNone(t) \/ DestroyLock(t) \/ DestroyDeinit(t) \/ LookupHit(t) \/ LookupLock(t)
           \/ LookupUnlock(t) \/ UseInfo(t) \/ UseFill(t) \/ UseSetIv(t) \/ UseFails(t) \/ RunDone(t)
  <2>1. /\ \E l \in {"unlockF", "deinit", "kfree", "lockS", "found", "use", "run", "put"} : pc' = [pc EXCEPT ![t] = l]
        /\ pc[t] # "readSid" /\ UNCHANGED <<phase, list, sid, op, arg, given>>
        /\ \A u \in Threads : u # t => cur'[u] = cur[u]
    BY <1>1, <1>9, Zenon DEF UnlinkNone, DestroyLock, DestroyDeinit, LookupHit, LookupLock,
         LookupUnlock, UseInfo, UseFill, UseSetIv, UseFails, RunDone
  <2>2. \A u \in Threads : Claims(u)' => Claims(u) /\ Claimed(u)' = Claimed(u)
    BY <1>1, <2>1, Zenon DEF Claims, Claimed
  <2>3. QED BY <1>1, <2>1, <2>2, HeldKeep, Zenon
<1>10. CASE FinishReturn(t) \/ LookupMiss(t) \/ PutReturn(t) \/ ReleaseEnd(t)
  <2>1. /\ pc' = [pc EXCEPT ![t] = "idle"] /\ op' = [op EXCEPT ![t] = "none"]
        /\ arg' = [arg EXCEPT ![t] = NoSid] /\ cur' = [cur EXCEPT ![t] = NoSession]
        /\ UNCHANGED <<list, sid, given>>
    BY <1>10, Zenon DEF FinishReturn, LookupMiss, PutReturn, ReleaseEnd
  <2>2. phase' # "open" => given' = {}
    BY <1>1, <1>10, Zenon DEF FinishReturn, LookupMiss, PutReturn, ReleaseEnd, IInv, PhaseInv
  <2>3. \A u \in Threads : Claims(u)' => Claims(u) /\ Claimed(u)' = Claimed(u)
    BY <1>1, <2>1, Zenon DEF Claims, Claimed
  <2>4. QED BY <1>1, <2>1, <2>2, <2>3, HeldKeep, Zenon
<1>11. CASE PutThenRun(t)
  <2>1. /\ pc' = [pc EXCEPT ![t] = "lockF"] /\ op' = [op EXCEPT ![t] = "crypt"] /\ arg' = arg
        /\ cur' = [cur EXCEPT ![t] = NoSession] /\ UNCHANGED <<phase, list, sid, given>>
    BY <1>1, <1>11, Zenon DEF PutThenRun
  <2>2. \A u \in Threads : Claims(u)' => Claims(u) /\ Claimed(u)' = Claimed(u)
    BY <1>1, <2>1, Zenon DEF Claims, Claimed
  <2>3. QED BY <1>1, <2>1, <2>2, HeldKeep, Zenon
<1>12. CASE ReleaseStart(t)
  <2>1. /\ pc' = [pc EXCEPT ![t] = "lockF"] /\ op' = [op EXCEPT ![t] = "release"] /\ arg' = [arg EXCEPT ![t] = NoSid]
        /\ UNCHANGED <<list, sid, cur>> /\ given' = {}
    BY <1>12, Zenon DEF ReleaseStart
  <2>2. \A u \in Threads : Claims(u)' => Claims(u) /\ Claimed(u)' = Claimed(u)
    BY <1>1, <2>1, Zenon DEF Claims, Claimed
  <2>3. QED BY <1>1, <2>1, <2>2, HeldKeep, Zenon
<1>13. QED BY <1>2, <1>3, <1>4, <1>5, <1>6, <1>7, <1>8, <1>9, <1>10, <1>11, <1>12, Zenon
           DEF Lookup, Use, Release

LEMMA HeldNext ==
  ASSUME IInv, HeldInv, Wild = {}, Next
  PROVE  HeldInv'
<1>1. CASE Open
  BY <1>1, HeldKeep, Zenon DEF Open, cells, locals, HeldInv, Claims, Claimed
<1>2. CASE \E t \in Threads, id \in Sids : CallFinish(t, id)
  <2>1. PICK t \in Threads, id \in Sids : CallFinish(t, id)
    BY <1>2, Zenon
  <2>2. id \in given
    BY <2>1, Zenon DEF CallFinish
  <2>3. QED BY <2>1, <2>2, HeldFinish, Zenon
<1>3. QED BY <1>1, <1>2, HeldOther, HeldAdd, HeldCopyOut, HeldUnlink, Zenon
          DEF Next, Call, Create, Destroy

\* A program that finishes each identifier once keeps every session it has an
\* identifier of, whatever creates, rollbacks and finishes run beside it, and
\* crypto_create_session reads ses_new->sid of a session nobody has freed.
THEOREM HeldSids ==
  ASSUME Wild = {}
  PROVE  Spec => []HeldSidsAreLive
<1>1. Init => HeldInv
  BY Zenon DEF Init, HeldInv, Claims
<1>2. IInv /\ HeldInv /\ [Next]_vars => HeldInv'
  <2>1. ASSUME HeldInv, UNCHANGED vars PROVE HeldInv'
    BY <2>1, Zenon DEF vars, HeldInv, Claims, Claimed, Listed
  <2>2. QED BY <2>1, HeldNext, Zenon
<1>3. HeldInv => HeldSidsAreLive
  BY Zenon DEF HeldInv, Listed, HeldSidsAreLive
<1>4. QED BY <1>1, <1>2, <1>3, Invariance, PTL DEF Spec
=============================================================================
