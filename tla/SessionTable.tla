---------------------------- MODULE SessionTable ----------------------------
(***************************************************************************)
(* What the session table of /dev/crypto promises its callers, without     *)
(* memory and mutexes: a set of live session identifiers.  A session is    *)
(* used by one request at a time, only while its identifier is live, and   *)
(* it leaves the table only when nobody uses it.                           *)
(***************************************************************************)
CONSTANTS Threads, Sids, NoSid

VARIABLES live,  \* the identifiers of the sessions that exist
          user   \* the identifier each thread's request works on

tvars == <<live, user>>

TableInit == live = {} /\ user = [t \in Threads |-> NoSid]

Add(i) == i \notin live /\ live' = live \cup {i} /\ UNCHANGED user

Begin(t, i) ==
    /\ user[t] = NoSid /\ i \in live
    /\ \A u \in Threads : user[u] # i
    /\ user' = [user EXCEPT ![t] = i]
    /\ UNCHANGED live

End(t) ==
    /\ user[t] # NoSid
    /\ user' = [user EXCEPT ![t] = NoSid]
    /\ UNCHANGED live

Remove(i) ==
    /\ i \in live
    /\ \A t \in Threads : user[t] # i
    /\ live' = live \ {i}
    /\ UNCHANGED user

TableNext == \/ \E i \in Sids : Add(i) \/ Remove(i) \/ \E t \in Threads : Begin(t, i)
             \/ \E t \in Threads : End(t)

TableSpec == TableInit /\ [][TableNext]_tvars
=============================================================================
