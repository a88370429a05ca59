-------------------------- MODULE CryptodevSessions --------------------------
(***************************************************************************)
(* The session table of /dev/crypto: cryptodev-linux/ioctl.c and the       *)
(* session use of main.c and authenc.c.  One open file (struct fcrypt) is  *)
(* shared by several threads.  fcr->sem guards the list of sessions, and   *)
(* every session has a mutex of its own that is taken while fcr->sem is    *)
(* still held.  A session is a cell of kernel memory: kfree returns the    *)
(* cell, and a later kzalloc may hand it out again.                        *)
(*                                                                         *)
(* A step is what a thread does between two points at which another thread *)
(* can observe it: taking a mutex, releasing a mutex, freeing memory.      *)
(***************************************************************************)
EXTENDS Integers

CONSTANTS Threads,   \* the tasks that issue ioctls on the file
          Sessions,  \* the memory cells a struct csession may occupy
          Sids,      \* the values of a session identifier
          IvSizes,   \* cdata.ivsize of a new session; 0 for one without cipher
          Wild,      \* identifiers a caller passes without having been given them
          NoThread, NoSession, NoSid

ASSUME NoThreadFresh == NoThread \notin Threads
ASSUME NoSessionFresh == NoSession \notin Sessions
ASSUME NoSidFresh == NoSid \notin Sids
ASSUME IvSizesNat == IvSizes \subseteq Nat
ASSUME WildSids == Wild \subseteq Sids

VARIABLES phase,   \* is the file open, being released, or closed
          fsem,    \* the holder of fcr->sem
          list,    \* the sessions linked in fcr->list
          heap,    \* the cells that are allocated
          sid,     \* ses->sid of each cell
          ivsize,  \* ses->cdata.ivsize of each cell
          ssem,    \* the holder of ses->sem of each cell
          pc,      \* where each thread is
          op,      \* the ioctl a thread is executing
          arg,     \* the session identifier a thread works with
          cur,     \* ses_ptr of each thread
          ivlen,   \* kcop->ivlen of each thread
          ret,     \* what the last ioctl of each thread returned
          given    \* the identifiers user space was given and has not finished

file == <<phase, fsem, list>>
cells == <<heap, sid, ivsize, ssem>>
locals == <<op, arg, cur, ivlen, ret>>
vars == <<phase, fsem, list, heap, sid, ivsize, ssem,
          pc, op, arg, cur, ivlen, ret, given>>

Phases == {"open", "releasing", "closed"}
Ops == {"none", "create", "rollback", "finish", "info", "fill", "crypt", "release"}
PCs == {"idle", "lockF", "draw", "readSid", "copyOut", "unlink", "destroy",
        "deinit", "kfree", "unlockF", "lookup", "lockS", "found", "use", "run", "put"}
\* -EINVAL, -EFAULT and -ENOMEM are all "error".
Results == {"none", "ok", "ENOENT", "error"}

Min(a, b) == IF a < b THEN a ELSE b

----------------------------------------------------------------------------
(* Mutexes and returns.                                                    *)

LockF(t) == fsem = NoThread /\ fsem' = t
UnlockF(t) == fsem' = NoThread

Goto(t, l) == pc' = [pc EXCEPT ![t] = l]

\* The ioctl of thread t returns r to user space.
Return(t, r) ==
    /\ Goto(t, "idle")
    /\ op' = [op EXCEPT ![t] = "none"]
    /\ arg' = [arg EXCEPT ![t] = NoSid]
    /\ cur' = [cur EXCEPT ![t] = NoSession]
    /\ ivlen' = [ivlen EXCEPT ![t] = 0]
    /\ ret' = [ret EXCEPT ![t] = r]

\* The ioctl of thread t goes on to the table operation o on identifier id.
Enter(t, o, id, l) ==
    /\ Goto(t, l)
    /\ op' = [op EXCEPT ![t] = o]
    /\ arg' = [arg EXCEPT ![t] = id]

----------------------------------------------------------------------------
(* cryptodev_open and the calls.                                           *)

Init ==
    /\ phase = "open" /\ fsem = NoThread /\ list = {}
    /\ heap = {}
    /\ sid = [s \in Sessions |-> NoSid]
    /\ ivsize = [s \in Sessions |-> 0]
    /\ ssem = [s \in Sessions |-> NoThread]
    /\ pc = [t \in Threads |-> "idle"]
    /\ op = [t \in Threads |-> "none"]
    /\ arg = [t \in Threads |-> NoSid]
    /\ cur = [t \in Threads |-> NoSession]
    /\ ivlen = [t \in Threads |-> 0]
    /\ ret = [t \in Threads |-> "none"]
    /\ given = {}

\* cryptodev_open of a file that was released: a fresh struct crypt_priv.
Open ==
    /\ phase = "closed"
    /\ phase' = "open"
    /\ UNCHANGED <<fsem, list, cells, pc, locals, given>>

\* cryptodev_ioctl on an identifier.  A program finishes an identifier once;
\* a Wild identifier stands for the programs that do not keep to that.
CallFinish(t, id) ==
    /\ phase = "open" /\ pc[t] = "idle"
    /\ id \in given \cup Wild
    /\ Enter(t, "finish", id, "lockF")
    /\ ret' = [ret EXCEPT ![t] = "none"]
    /\ given' = given \ {id}
    /\ UNCHANGED <<file, cells, cur, ivlen>>

\* CIOCGSESSINFO; and the first half of CIOCCRYPT, CIOCAUTHCRYPT and
\* CIOCASYNCCRYPT, which fill the kernel's copy of the request.
CallLookup(t, o, id) ==
    /\ phase = "open" /\ pc[t] = "idle"
    /\ o \in {"info", "fill"}
    /\ id \in given \cup Wild
    /\ Enter(t, o, id, "lockF")
    /\ ret' = [ret EXCEPT ![t] = "none"]
    /\ UNCHANGED <<file, cells, cur, ivlen, given>>

----------------------------------------------------------------------------
(* crypto_create_session.                                                  *)

\* The request is checked, the cell allocated and its transforms set up, all
\* before the cell is visible to anyone: kzalloc zeroes it, mutex_init leaves
\* it unlocked, and the identifier is drawn at random.
CallCreate(t) ==
    /\ phase = "open" /\ pc[t] = "idle"
    /\ \E s \in Sessions \ heap, i \in Sids, n \in IvSizes :
          /\ heap' = heap \cup {s}
          /\ sid' = [sid EXCEPT ![s] = i]
          /\ ivsize' = [ivsize EXCEPT ![s] = n]
          /\ ssem' = [ssem EXCEPT ![s] = NoThread]
          /\ cur' = [cur EXCEPT ![t] = s]
    /\ Enter(t, "create", NoSid, "lockF")
    /\ ret' = [ret EXCEPT ![t] = "none"]
    /\ UNCHANGED <<file, ivlen, given>>

\* A failed create returns before the cell is visible to anyone, and the cell
\* is freed again.  What becomes of the transforms is not part of this module.
CallCreateFails(t) ==
    /\ phase = "open" /\ pc[t] = "idle"
    /\ Return(t, "error")
    /\ UNCHANGED <<file, cells, given>>

\* Under fcr->sem: a duplicate identifier is drawn again and the list is
\* searched from the start.
CreateRedraw(t) ==
    /\ pc[t] = "draw"
    /\ \E s \in list : sid[s] = sid[cur[t]]
    /\ \E i \in Sids : sid' = [sid EXCEPT ![cur[t]] = i]
    /\ UNCHANGED <<file, heap, ivsize, ssem, pc, locals, given>>

\* Mutant: the duplicate check is missing.
CreateAddUnchecked(t) ==
    /\ pc[t] = "draw"
    /\ list' = list \cup {cur[t]}
    /\ UnlockF(t)
    /\ Goto(t, "readSid")
    /\ UNCHANGED <<phase, cells, locals, given>>


CreateAdd(t) ==
    /\ pc[t] = "draw"
    /\ \A s \in list : sid[s] # sid[cur[t]]
    /\ list' = list \cup {cur[t]}
    /\ UnlockF(t)
    /\ Goto(t, "readSid")
    /\ UNCHANGED <<phase, cells, locals, given>>

\* sop->ses = ses_new->sid, after fcr->sem was released: if the session has
\* been freed by then, the read yields anything.
CreateReadSid(t) ==
    /\ pc[t] = "readSid"
    /\ \E i \in Sids : /\ cur[t] \in heap => i = sid[cur[t]]
                       /\ arg' = [arg EXCEPT ![t] = i]
    /\ Goto(t, "copyOut")
    /\ UNCHANGED <<file, cells, op, cur, ivlen, ret, given>>

\* Mutant: the identifier is read from the session again.
CreateCopyOutLate(t) ==
    /\ pc[t] = "copyOut"
    /\ Return(t, "ok")
    /\ given' = given \cup {sid[cur[t]]}
    /\ UNCHANGED <<file, cells>>

\* copy_to_user of the identifier; a fault finishes the session again.
CreateCopyOut(t) ==
    /\ pc[t] = "copyOut"
    /\ Return(t, "ok")
    /\ given' = given \cup {arg[t]}
    /\ UNCHANGED <<file, cells>>

CreateRollback(t) ==
    /\ pc[t] = "copyOut"
    /\ Enter(t, "rollback", arg[t], "lockF")
    /\ cur' = [cur EXCEPT ![t] = NoSession]
    /\ UNCHANGED <<file, cells, ivlen, ret, given>>

----------------------------------------------------------------------------
(* Taking fcr->sem, for all operations.                                    *)

AcquireF(t) ==
    /\ pc[t] = "lockF"
    /\ LockF(t)
    /\ Goto(t, CASE op[t] = "create" -> "draw"
                 [] op[t] \in {"finish", "rollback", "release"} -> "unlink"
                 [] OTHER -> "lookup")
    /\ UNCHANGED <<phase, list, cells, locals, given>>

----------------------------------------------------------------------------
(* crypto_finish_session, crypto_finish_all_sessions and                   *)
(* crypto_destroy_session.                                                 *)

\* Mutant: the identifiers are not compared.
VictimsAny(t) == list

\* The sessions the loop of thread t would unlink next.
Victims(t) == IF op[t] = "release" THEN list
                                   ELSE {s \in list : sid[s] = arg[t]}

Unlink(t) ==
    /\ pc[t] = "unlink"
    /\ \E s \in Victims(t) :
          /\ list' = list \ {s}
          /\ cur' = [cur EXCEPT ![t] = s]
    /\ Goto(t, "destroy")
    /\ UNCHANGED <<phase, fsem, cells, op, arg, ivlen, ret, given>>

\* The loop ran to the end of the list.
UnlinkNone(t) ==
    /\ pc[t] = "unlink"
    /\ Victims(t) = {}
    /\ Goto(t, "unlockF")
    /\ UNCHANGED <<file, cells, locals, given>>

\* Mutant: a failed mutex_trylock is ignored.
DestroyLockIgnored(t) ==
    /\ pc[t] = "destroy"
    /\ Goto(t, "deinit")
    /\ UNCHANGED <<file, cells, locals, given>>

\* mutex_lock(&ses_ptr->sem): waits for the thread that uses the session.
DestroyLock(t) ==
    /\ pc[t] = "destroy"
    /\ ssem[cur[t]] = NoThread
    /\ ssem' = [ssem EXCEPT ![cur[t]] = t]
    /\ Goto(t, "deinit")
    /\ UNCHANGED <<file, heap, sid, ivsize, locals, given>>

\* The transforms and page arrays are freed and the mutex is released.
DestroyDeinit(t) ==
    /\ pc[t] = "deinit"
    /\ ssem' = [ssem EXCEPT ![cur[t]] = NoThread]
    /\ Goto(t, "kfree")
    /\ UNCHANGED <<file, heap, sid, ivsize, locals, given>>

\* Mutant: crypto_finish_all_sessions stops after one session.
DestroyKfreeOnce(t) ==
    /\ pc[t] = "kfree"
    /\ heap' = heap \ {cur[t]}
    /\ sid' = [sid EXCEPT ![cur[t]] = NoSid]
    /\ ivsize' = [ivsize EXCEPT ![cur[t]] = 0]
    /\ Goto(t, "unlockF")
    /\ UNCHANGED <<file, ssem, locals, given>>

\* kfree(ses_ptr): what the cell held is gone.  finish stops at the first match, release goes on.
DestroyKfree(t) ==
    /\ pc[t] = "kfree"
    /\ heap' = heap \ {cur[t]}
    /\ sid' = [sid EXCEPT ![cur[t]] = NoSid]
    /\ ivsize' = [ivsize EXCEPT ![cur[t]] = 0]
    /\ Goto(t, IF op[t] = "release" THEN "unlink" ELSE "unlockF")
    /\ UNCHANGED <<file, ssem, locals, given>>

\* The end of crypto_finish_session.  After the loop ses_ptr points to an
\* entry or to the list head and is never NULL: the result is always 0, and
\* a rollback reports the fault that caused it.
FinishReturn(t) ==
    /\ pc[t] = "unlockF" /\ op[t] \in {"finish", "rollback"}
    /\ UnlockF(t)
    /\ Return(t, IF op[t] = "finish" THEN "ok" ELSE "error")
    /\ UNCHANGED <<phase, list, cells, given>>

----------------------------------------------------------------------------
(* crypto_get_session_by_sid and the code that runs on the session.        *)

\* Mutant: fcr->sem is released before the session's mutex is taken.
LookupHitEarlyUnlock(t) ==
    /\ pc[t] = "lookup"
    /\ \E s \in list : sid[s] = arg[t] /\ cur' = [cur EXCEPT ![t] = s]
    /\ UnlockF(t)
    /\ Goto(t, "lockS")
    /\ UNCHANGED <<phase, list, cells, op, arg, ivlen, ret, given>>


LookupHit(t) ==
    /\ pc[t] = "lookup"
    /\ \E s \in list : sid[s] = arg[t] /\ cur' = [cur EXCEPT ![t] = s]
    /\ Goto(t, "lockS")
    /\ UNCHANGED <<file, cells, op, arg, ivlen, ret, given>>

\* Mutant: the path that finds nothing forgets fcr->sem.
LookupMissLocked(t) ==
    /\ pc[t] = "lookup"
    /\ \A s \in list : sid[s] # arg[t]
    /\ Return(t, "error")
    /\ UNCHANGED <<file, cells, given>>


LookupMiss(t) ==
    /\ pc[t] = "lookup"
    /\ \A s \in list : sid[s] # arg[t]
    /\ UnlockF(t)
    /\ Return(t, "error")
    /\ UNCHANGED <<phase, list, cells, given>>

\* mutex_lock(&ses_ptr->sem) with fcr->sem still held.
LookupLock(t) ==
    /\ pc[t] = "lockS"
    /\ ssem[cur[t]] = NoThread
    /\ ssem' = [ssem EXCEPT ![cur[t]] = t]
    /\ Goto(t, "found")
    /\ UNCHANGED <<file, heap, sid, ivsize, locals, given>>

LookupUnlock(t) ==
    /\ pc[t] = "found"
    /\ UnlockF(t)
    /\ Goto(t, "use")
    /\ UNCHANGED <<phase, list, cells, locals, given>>

\* get_session_info only reads the session.
UseInfo(t) ==
    /\ pc[t] = "use" /\ op[t] = "info"
    /\ Goto(t, "put")
    /\ UNCHANGED <<file, cells, locals, given>>

\* fill_kcop_from_cop and fill_kcaop_from_caop note how long an IV is.
UseFill(t) ==
    /\ pc[t] = "use" /\ op[t] = "fill"
    /\ \E given_iv \in BOOLEAN :
          ivlen' = [ivlen EXCEPT ![t] = IF given_iv THEN ivsize[cur[t]] ELSE 0]
    /\ Goto(t, "put")
    /\ UNCHANGED <<file, cells, op, arg, cur, ret, given>>

\* Mutant: the length noted with the first lookup is trusted.
SetIvLenStale(t) == ivlen[t]

\* crypto_run and crypto_auth_run: the bytes of the IV that are set.
SetIvLen(t) == Min(ivsize[cur[t]], ivlen[t])

\* cryptodev_cipher_set_iv, after the checks that return early.
UseSetIv(t) ==
    /\ pc[t] = "use" /\ op[t] = "crypt"
    /\ ivlen' = [ivlen EXCEPT ![t] = SetIvLen(t)]
    /\ Goto(t, "run")
    /\ UNCHANGED <<file, cells, op, arg, cur, ret, given>>

\* A wrong length, a transform error or a fault leaves through out_unlock.
UseFails(t) ==
    /\ \/ pc[t] = "use" /\ op[t] \in {"fill", "crypt"}
       \/ pc[t] = "run"
    /\ ret' = [ret EXCEPT ![t] = "error"]
    /\ Goto(t, "put")
    /\ UNCHANGED <<file, cells, op, arg, cur, ivlen, given>>

\* The data is processed and cryptodev_cipher_get_iv reads the IV back.
RunDone(t) ==
    /\ pc[t] = "run"
    /\ Goto(t, "put")
    /\ UNCHANGED <<file, cells, locals, given>>

\* crypto_put_session ends the ioctl ...
PutReturn(t) ==
    /\ pc[t] = "put"
    /\ op[t] # "fill" \/ ret[t] # "none"
    /\ ssem' = [ssem EXCEPT ![cur[t]] = NoThread]
    /\ Return(t, IF ret[t] = "none" THEN "ok" ELSE ret[t])
    /\ UNCHANGED <<file, heap, sid, ivsize, given>>

\* ... except that a filled request is run next, on a second lookup.
PutThenRun(t) ==
    /\ pc[t] = "put" /\ op[t] = "fill" /\ ret[t] = "none"
    /\ ssem' = [ssem EXCEPT ![cur[t]] = NoThread]
    /\ Enter(t, "crypt", arg[t], "lockF")
    /\ cur' = [cur EXCEPT ![t] = NoSession]
    /\ UNCHANGED <<file, heap, sid, ivsize, ivlen, ret, given>>

----------------------------------------------------------------------------
(* cryptodev_release: the last reference to the file is gone, so no ioctl  *)
(* is in progress, and cancel_work_sync has stopped the worker.            *)

ReleaseStart(t) ==
    /\ phase = "open"
    /\ \A u \in Threads : pc[u] = "idle"
    /\ phase' = "releasing"
    /\ Enter(t, "release", NoSid, "lockF")
    /\ ret' = [u \in Threads |-> "none"]
    /\ given' = {}
    /\ UNCHANGED <<fsem, list, cells, cur, ivlen>>

ReleaseEnd(t) ==
    /\ pc[t] = "unlockF" /\ op[t] = "release"
    /\ UnlockF(t)
    /\ phase' = "closed"
    /\ Return(t, "ok")
    /\ UNCHANGED <<list, cells, given>>

----------------------------------------------------------------------------
Create(t) == CallCreate(t) \/ CallCreateFails(t) \/ CreateRedraw(t) \/ CreateAdd(t)
             \/ CreateReadSid(t) \/ CreateCopyOut(t) \/ CreateRollback(t)
Destroy(t) == Unlink(t) \/ UnlinkNone(t) \/ DestroyLock(t) \/ DestroyDeinit(t)
              \/ DestroyKfree(t) \/ FinishReturn(t)
Lookup(t) == LookupHit(t) \/ LookupMiss(t) \/ LookupLock(t) \/ LookupUnlock(t)
Use(t) == UseInfo(t) \/ UseFill(t) \/ UseSetIv(t) \/ UseFails(t) \/ RunDone(t)
          \/ PutReturn(t) \/ PutThenRun(t)
Release(t) == ReleaseStart(t) \/ ReleaseEnd(t)
Call(t) == \E id \in Sids : CallFinish(t, id) \/ \E o \in {"info", "fill"} : CallLookup(t, o, id)

Next == Open \/ \E t \in Threads : Call(t) \/ Create(t) \/ AcquireF(t)
                                   \/ Destroy(t) \/ Lookup(t) \/ Use(t) \/ Release(t)

Spec == Init /\ [][Next]_vars

----------------------------------------------------------------------------
(* Properties.                                                             *)

\* The type invariant.
TypeOK ==
    /\ phase \in Phases
    /\ fsem \in Threads \cup {NoThread}
    /\ list \subseteq Sessions /\ heap \subseteq Sessions
    /\ sid \in [Sessions -> Sids \cup {NoSid}]
    /\ ivsize \in [Sessions -> Nat]
    /\ ssem \in [Sessions -> Threads \cup {NoThread}]
    /\ pc \in [Threads -> PCs]
    /\ op \in [Threads -> Ops]
    /\ arg \in [Threads -> Sids \cup {NoSid}]
    /\ cur \in [Threads -> Sessions \cup {NoSession}]
    /\ ivlen \in [Threads -> Nat]
    /\ ret \in [Threads -> Results]
    /\ given \subseteq Sids

\* Where a thread works on the session crypto_get_session_by_sid found.
UsePCs == {"lockS", "found", "use", "run", "put"}
\* Where a thread destroys a session.
DestroyPCs == {"destroy", "deinit", "kfree"}
\* Thread t builds a session that is not in the list yet.
Building(t) == op[t] = "create" /\ pc[t] \in {"lockF", "draw"}

\* A thread never works on a freed session, nor on one that took over the
\* memory of the session it looked up: whatever another thread finishes or
\* creates between crypto_get_session_by_sid and crypto_put_session, the
\* cell is allocated and still carries the identifier the caller asked for.
UsedSessionIsLive ==
    /\ list \subseteq heap
    /\ \A t \in Threads : pc[t] \in UsePCs => cur[t] \in heap /\ sid[cur[t]] = arg[t]
    /\ \A t \in Threads : pc[t] \in DestroyPCs \/ Building(t) => cur[t] \in heap

\* crypto_destroy_session frees a session only when no thread holds or waits
\* for its mutex and no later lookup can find it.
FreeIsQuiet ==
    \A s \in heap \ heap' :
       /\ s \notin list /\ ssem[s] = NoThread
       /\ \A t \in Threads : pc[t] \in UsePCs => cur[t] # s

FreedWhenUnused == [][FreeIsQuiet]_vars

\* The identifiers in fcr->list are unique, also against a session that is
\* unlinked but still in use by a thread that found it before.
SidsUnique ==
    /\ \A s1, s2 \in list : sid[s1] = sid[s2] => s1 = s2
    /\ \A t \in Threads : pc[t] \in UsePCs =>
          \A s \in list : sid[s] = arg[t] => s = cur[t]

\* From set_iv to get_iv a session belongs to one request: the cipher's IV and
\* the hash state are never shared by two threads.
UsedByOne ==
    \A t, u \in Threads :
       /\ pc[t] \in {"found", "use", "run", "put"}
       /\ pc[u] \in {"found", "use", "run", "put", "deinit"}
       /\ cur[t] = cur[u]
       => t = u

\* The IV length is noted during the first lookup of CIOCCRYPT and used after
\* the second.  If the session was replaced in between by one with a shorter
\* IV under the same identifier, no byte is written past the new one's IV.
IvWithinSession == \A t \in Threads : pc[t] = "run" => ivlen[t] <= ivsize[cur[t]]

\* No session is lost: each is in the list, or in the hands of the one thread
\* that builds or destroys it, and cryptodev_release leaves none behind.
NothingLost ==
    /\ \A s \in heap \ list : \E t \in Threads :
          cur[t] = s /\ (Building(t) \/ pc[t] \in DestroyPCs)
    /\ phase = "closed" => heap = {}

\* In a program that finishes each identifier once, every identifier it holds
\* names a session, whatever creates, rollbacks and finishes run beside it; and
\* crypto_create_session, which reads ses_new->sid after it released fcr->sem,
\* reads it of a session nobody can have finished by then.
HeldSidsAreLive ==
    /\ \A i \in given : \E s \in list : sid[s] = i
    /\ \A t \in Threads : pc[t] = "readSid" => cur[t] \in list

\* The mutex-protected list behaves like an atomic table of identifiers: a
\* session is removed when crypto_destroy_session gets its mutex, and a request
\* uses it from the end of crypto_get_session_by_sid to crypto_put_session.
Live == {sid[s] : s \in list} \cup {sid[cur[t]] : t \in {u \in Threads : pc[u] = "destroy"}}
UserOf == [t \in Threads |-> IF pc[t] \in {"found", "use", "run", "put"} THEN arg[t] ELSE NoSid]
Table == INSTANCE SessionTable WITH live <- Live, user <- UserOf
ImplementsTable == Table!TableSpec

----------------------------------------------------------------------------
(* Liveness.  A thread inside an ioctl keeps running, the random source    *)
(* does not repeat taken identifiers for ever ("Unless we have a broken    *)
(* RNG this shouldn't loop forever"), and a thread that waits for fcr->sem *)
(* gets it if the mutex becomes free again and again.                      *)

Step(t) == CreateAdd(t) \/ CreateReadSid(t) \/ CreateCopyOut(t) \/ CreateRollback(t)
           \/ Destroy(t) \/ Lookup(t) \/ Use(t) \/ ReleaseEnd(t)

DrawFresh(t) == CreateRedraw(t) /\ \A s \in list : sid[s] # sid'[cur[t]]

Fairness == \A t \in Threads : /\ WF_vars(Step(t))
                              /\ WF_vars(DrawFresh(t))
                              /\ SF_vars(AcquireF(t))

FairSpec == Spec /\ Fairness

\* Every ioctl returns, in spite of crypto_destroy_session waiting for a user
\* of the session with fcr->sem held.
IoctlReturns == \A t \in Threads : pc[t] # "idle" ~> pc[t] = "idle"
=============================================================================
