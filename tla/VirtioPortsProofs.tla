------------------------- MODULE VirtioPortsProofs -------------------------
(***************************************************************************)
(* The theorems about VirtioPorts.                                         *)
(***************************************************************************)
EXTENDS VirtioPortsSteps, FiniteSetTheorems

----------------------------------------------------------------------------
(* Sets, sequences and records.                                            *)

\* Counting a set that gains or loses an element.
LEMMA CountIn ==
  ASSUME NEW S, IsFiniteSet(S), NEW x, x \notin S
  PROVE  IsFiniteSet(S \cup {x}) /\ Cardinality(S \cup {x}) = Cardinality(S) + 1
  BY FS_AddElement, Zenon

LEMMA CountOut ==
  ASSUME NEW S, IsFiniteSet(S), NEW x \in S
  PROVE  IsFiniteSet(S \ {x}) /\ Cardinality(S) = Cardinality(S \ {x}) + 1
<1>1. IsFiniteSet(S \ {x}) /\ Cardinality(S \ {x}) = Cardinality(S) - 1 /\ Cardinality(S) \in Nat
  BY FS_RemoveElement, FS_CardinalityType, Zenon
<1>2. QED BY <1>1

LEMMA CountNat ==
  ASSUME NEW S, IsFiniteSet(S)
  PROVE  Cardinality(S) \in Nat
  BY FS_CardinalityType, Zenon

\* A set of natural numbers has a least element.
LEMMA Least ==
  ASSUME NEW S \in SUBSET Nat, S # {}
  PROVE  \E i \in S : \A j \in S : i <= j
<1> DEFINE R == OpToRel(<, Nat)
<1>1. IsWellFoundedOn(R, Nat)
  BY NatLessThanWellFounded, Zenon
<1> HIDE DEF R
<1>2. PICK i \in S : \A j \in S : <<j, i>> \notin R
  BY <1>1, WFMin, Zenon
<1>3. \A j \in S : ~(j < i)
  BY <1>2, Zenon DEF R, OpToRel
<1>4. QED BY <1>3

\* Setting a field of a port.
LEMMA SetGuest ==
  ASSUME NEW r \in PortShape, NEW b \in BOOLEAN
  PROVE  LET n == [r EXCEPT !.guest = b]
         IN  /\ n \in PortShape /\ n.id = r.id /\ n.kref = r.kref /\ n.portdev = r.portdev
             /\ n.guest = b
  BY Zenon DEF PortShape

LEMMA SetHost ==
  ASSUME NEW r \in PortShape, NEW b \in BOOLEAN
  PROVE  LET n == [r EXCEPT !.host = b]
         IN  /\ n \in PortShape /\ n.id = r.id /\ n.kref = r.kref /\ n.portdev = r.portdev
             /\ n.guest = r.guest
  BY Zenon DEF PortShape

LEMMA SetName ==
  ASSUME NEW r \in PortShape, NEW b \in BOOLEAN
  PROVE  LET n == [r EXCEPT !.name = b]
         IN  /\ n \in PortShape /\ n.id = r.id /\ n.kref = r.kref /\ n.portdev = r.portdev
             /\ n.guest = r.guest
  BY Zenon DEF PortShape

LEMMA SetPortdev ==
  ASSUME NEW r \in PortShape, NEW b \in BOOLEAN
  PROVE  LET n == [r EXCEPT !.portdev = b]
         IN  /\ n \in PortShape /\ n.id = r.id /\ n.kref = r.kref /\ n.portdev = b
             /\ n.guest = r.guest
  BY Zenon DEF PortShape

LEMMA SetKref ==
  ASSUME NEW r \in PortShape, NEW k \in Nat \ {0}
  PROVE  LET n == [r EXCEPT !.kref = k]
         IN  /\ n \in PortShape /\ n.id = r.id /\ n.kref = k /\ n.portdev = r.portdev
             /\ n.guest = r.guest
  BY Zenon DEF PortShape

----------------------------------------------------------------------------
(* The life of a struct port.                                              *)

\* A set of tasks can be counted.
LEMMA TasksCount ==
  ASSUME NEW S \in SUBSET Tasks
  PROVE  IsFiniteSet(S) /\ Cardinality(S) \in Nat
  BY TasksFinite, FS_Subset, FS_CardinalityType, Zenon

LEMMA HoldersCount ==
  ASSUME NEW p
  PROVE  IsFiniteSet(Holders(p)) /\ Cardinality(Holders(p)) \in Nat /\ Holders(p) \in SUBSET Tasks
  BY TasksCount, Zenon DEF Holders

LEMMA HeapShape ==
  ASSUME LifeInv
  PROVE  heap = {p \in Mem : port[p] \in PortShape}
  BY FreeFields, Zenon DEF heap, LifeInv, LifeCore, LifeTypes

\* What changes neither the ids, nor the counts, nor those who count.
LEMMA SameCount ==
  ASSUME LifeInv,
         \A p \in Mem : /\ port'[p].id = port[p].id /\ port'[p].kref = port[p].kref
                        /\ port'[p] = Free <=> port[p] = Free
                        /\ Holders(p)' = Holders(p)
                        /\ (p \in ports' \/ p = cport') <=> (p \in ports \/ p = cport)
  PROVE  KrefExact' /\ OnePortPerId'
  BY DEF LifeInv, LifeCore, KrefExact, heap, OnePortPerId

\* Only the place of the work changes.
LEMMA WorkMove ==
  ASSUME LifeInv, UNCHANGED <<port, ports, cport, opc, filp>>, cpc \notin Hands,
         cpc' \in {"idle", "sendReady", "sendFailed", "sent", "stuck", "requeue"}
  PROVE  LifeCore'
  BY NoMemFresh, SameCount, Zenon DEF LifeInv, LifeCore, LifeTypes, Hands, Attached, Holders

LEMMA LifeSame ==
  ASSUME LifeInv, UNCHANGED <<port, ports, cpc, cport, opc, filp>>
  PROVE  LifeCore'
  BY DEF LifeInv, LifeCore, LifeTypes, Attached, KrefExact, OnePortPerId, Holders, heap

\* Only the place of a task changes, which keeps what it holds.
LEMMA TaskMove ==
  ASSUME LifeInv, UNCHANGED <<port, ports, cpc, cport, filp>>,
         opc' \in [Tasks -> {"none", "found", "held", "notify", "openSent", "open", "closeSent",
                             "close", "put", "stuck", "crashed"}],
         \A t \in Tasks : \/ opc'[t] = opc[t]
                          \/ /\ opc[t] \notin {"none", "found", "crashed"}
                             /\ opc'[t] \notin {"none", "found", "crashed"}
                          \/ opc[t] \in {"none", "found"} /\ opc'[t] = "crashed"
  PROVE  LifeCore'
  BY SameCount, Zenon DEF LifeInv, LifeCore, LifeTypes, Attached, Holders

\* A field other than id, count and portdev changes.
LEMMA FieldMove ==
  ASSUME LifeInv, UNCHANGED <<ports, cport, opc, filp>>,
         cpc' = cpc \/ (cpc \notin Hands /\ cpc' \in {"idle", "requeue"})
         \/ (cpc = "disconnect" /\ cpc' = "detach"),
         NEW p \in Mem, NEW r \in PortShape, port[p] \in PortShape,
         r.id = port[p].id, r.kref = port[p].kref, r.portdev => port[p].portdev,
         port' = [port EXCEPT ![p] = r]
  PROVE  LifeCore'
  BY NoMemFresh, FreeFields, SameCount, Zenon DEF LifeInv, LifeCore, LifeTypes, Hands,
       Attached, Holders

\* Listed, or in the hands of the work.
Owned(p) == IF p \in ports \/ p = cport THEN 1 ELSE 0

\* The message at the head of c_ivq.
LEMMA HeadMessage ==
  ASSUME QueueInv, ctl # <<>>
  PROVE  Head(ctl) \in Message /\ Head(ctl).id \in Ids /\ Head(ctl).value \in BOOLEAN
<1>1. Head(ctl) \in Message
  BY DEF QueueInv, CtlInv
<1>2. QED BY <1>1, Zenon DEF Message

\* add_port: the port is new, and no other one has its id.
LEMMA CtlAddLife ==
  ASSUME LifeInv, QueueInv, NEW p \in Mem, CtlAdd(p)
  PROVE  LifeCore'
<1> DEFINE id == Head(ctl).id
           r == [id |-> id, guest |-> FALSE, host |-> FALSE, kref |-> 1, portdev |-> TRUE,
                 name |-> FALSE]
<1>1. /\ cpc = "idle" /\ cpc' = "list" /\ p \notin heap /\ ~DevtTaken(id) /\ ctl # <<>>
      /\ port' = [port EXCEPT ![p] = r] /\ cport' = p /\ UNCHANGED <<ports, opc, filp>>
  BY Zenon DEF CtlAdd, TakeControl, WorkGoto, files
<1>2. r \in PortShape /\ r.kref = 1 /\ r.id = id
  BY <1>1, HeadMessage DEF PortShape
<1> HIDE DEF r
<1>3. port[p] = Free /\ cport = NoMem
  BY <1>1, Zenon DEF heap, LifeInv, LifeCore, LifeTypes, Hands
<1>4. p \notin ports /\ Holders(p) = {}
  BY <1>3, PortLive, FreeFields, Zenon
<1>5. /\ port' \in [Mem -> PortShape \cup {Free}] /\ port'[p] = r
      /\ \A q \in Mem : q # p => port'[q] = port[q]
  BY <1>1, <1>2, Zenon DEF LifeInv, LifeCore, LifeTypes
<1>6. \A q \in Mem : Holders(q)' = Holders(q)
  BY <1>1, Zenon DEF Holders
<1>7. KrefExact'
  <2>1. port'[p].kref = Cardinality(Holders(p)') + Owned(p)'
    <3>1. Owned(p)' = 1
      BY <1>1, Zenon DEF Owned
    <3>2. QED BY <1>2, <1>4, <1>5, <1>6, <3>1, FS_EmptySet
  <2>2. ASSUME NEW q \in Mem, q # p
        PROVE  port'[q].kref = Cardinality(Holders(q)') + Owned(q)'
    BY <2>2, <1>1, <1>3, <1>5, <1>6, NoMemFresh, Zenon DEF Owned, LifeInv, LifeCore, KrefExact
  <2>3. QED BY <2>1, <2>2, Zenon DEF KrefExact, Owned
<1>8. QED BY <1>1, <1>2, <1>3, <1>4, <1>5, <1>7, NoMemFresh, FreeFields DEF LifeInv, LifeCore,
                LifeTypes, Hands, Attached, heap, DevtTaken, OnePortPerId

LEMMA CtlAddListLife ==
  ASSUME LifeInv, CtlAddList
  PROVE  LifeCore'
  BY HandLive, NoMemFresh, SameCount, Zenon DEF CtlAddList, WorkGoto, files, Hands, LifeInv,
       LifeCore, LifeTypes, Attached, Holders

\* The first step of unplug_port.
LEMMA UnplugListLife ==
  ASSUME LifeInv, NEW p \in ports, UnplugList(p), cpc = "idle", UNCHANGED <<opc, filp>>
  PROVE  LifeCore'
  BY ListedLive, NoMemFresh, SameCount, Zenon DEF UnplugList, WorkGoto, LifeInv, LifeCore,
       LifeTypes, Hands, Attached, Holders

LEMMA UnplugDisconnectLife ==
  ASSUME LifeInv, UnplugDisconnect
  PROVE  LifeCore'
<1>1. /\ cpc = "disconnect" /\ cpc' = "detach" /\ UNCHANGED <<ports, cport, opc, filp>>
  BY Zenon DEF UnplugDisconnect, WorkGoto, files
<1>2. cport \in Mem /\ port[cport] \in PortShape
  BY <1>1, HandLive, Zenon DEF Hands
<1> DEFINE r == IF port[cport].guest THEN [port[cport] EXCEPT !.guest = FALSE, !.host = FALSE]
                ELSE port[cport]
<1>3. r \in PortShape /\ r.id = port[cport].id /\ r.kref = port[cport].kref
      /\ r.portdev = port[cport].portdev
  BY <1>2, Zenon DEF PortShape
<1>4. port' = [port EXCEPT ![cport] = r]
  BY <1>2, Zenon DEF UnplugDisconnect, LifeInv, LifeCore, LifeTypes
<1> HIDE DEF r
<1>5. QED BY <1>1, <1>2, <1>3, <1>4, FieldMove, Zenon DEF Hands

LEMMA UnplugDetachLife ==
  ASSUME LifeInv, UnplugDetach
  PROVE  LifeCore'
<1>1. /\ cpc = "detach" /\ cpc' = "put" /\ UNCHANGED <<ports, cport, opc, filp>>
  BY Zenon DEF UnplugDetach, WorkGoto, files
<1>2. cport \in Mem /\ port[cport] \in PortShape
  BY <1>1, HandLive, Zenon DEF Hands
<1> DEFINE r == [port[cport] EXCEPT !.portdev = FALSE]
<1>3. r \in PortShape /\ r.id = port[cport].id /\ r.kref = port[cport].kref /\ r.portdev = FALSE
  BY <1>2, SetPortdev, Zenon
<1>4. port' = [port EXCEPT ![cport] = r]
  BY Zenon DEF UnplugDetach
<1> HIDE DEF r
<1>5. QED BY <1>1, <1>2, <1>3, <1>4, SameCount, FreeFields, Zenon
             DEF LifeInv, LifeCore, LifeTypes, Hands, Attached, Holders

\* kref_put, by one of those who count.
LEMMA PutCount ==
  ASSUME LifeInv, NEW p \in Mem, port[p] \in PortShape, kref_put(p),
         Cardinality(Holders(p)') \in Nat,
         Cardinality(Holders(p)') + Owned(p)' + 1 = Cardinality(Holders(p)) + Owned(p),
         \A q \in Mem : q # p => Holders(q)' = Holders(q) /\ Owned(q)' = Owned(q)
  PROVE  /\ port' \in [Mem -> PortShape \cup {Free}]
         /\ \A q \in Mem : /\ port'[q].portdev => port[q].portdev
                           /\ q # p => port'[q] = port[q]
                           /\ port'[q] = Free \/ (port'[q].id = port[q].id /\ port'[q].portdev = port[q].portdev
                                                  /\ port'[q].guest = port[q].guest)
         /\ KrefExact' /\ OnePortPerId'
<1> DEFINE k == port[p].kref
           r == IF k = 1 THEN Free ELSE [port[p] EXCEPT !.kref = k - 1]
<1>1. k \in Nat \ {0}
  BY Zenon DEF PortShape
<1>2. /\ r \in PortShape \cup {Free} /\ r.kref = k - 1 /\ (r.portdev => port[p].portdev)
      /\ r = Free \/ (r.id = port[p].id /\ r.portdev = port[p].portdev /\ r.guest = port[p].guest)
  <2>1. CASE k # 1
    <3>1. k - 1 \in Nat \ {0}
      BY <1>1, <2>1
    <3> HIDE DEF k
    <3>2. QED BY <2>1, <3>1, SetKref, Zenon
  <2>2. QED BY <2>1, FreeFields
<1>3. port' = [port EXCEPT ![p] = r]
  BY Zenon DEF kref_put
<1> HIDE DEF r
<1>4. /\ port' \in [Mem -> PortShape \cup {Free}] /\ port'[p] = r
      /\ \A q \in Mem : q # p => port'[q] = port[q]
  BY <1>2, <1>3, Zenon DEF LifeInv, LifeCore, LifeTypes
<1>5. KrefExact'
  BY <1>1, <1>2, <1>4 DEF KrefExact, Owned, LifeInv, LifeCore
<1>6. QED BY <1>2, <1>4, <1>5, FreeFields DEF heap, LifeInv, LifeCore, OnePortPerId

LEMMA UnplugPutLife ==
  ASSUME LifeInv, UnplugPut
  PROVE  LifeCore'
<1>1. /\ cpc = "put" /\ cpc' \in {"idle", "requeue"} /\ kref_put(cport) /\ cport' = NoMem
      /\ UNCHANGED <<ports, opc, filp>>
  BY Zenon DEF UnplugPut, WorkGoto, files
<1>2. cport \in Mem /\ cport \notin ports /\ port[cport] \in PortShape
  BY <1>1, HandLive, Zenon DEF Hands
<1> PICK p \in Mem : p = cport
  BY <1>2, Zenon
<1>3. \A q \in Mem : Holders(q)' = Holders(q)
  BY <1>1, Zenon DEF Holders
<1>4. QED BY <1>1, <1>2, <1>3, PutCount, HoldersCount, NoMemFresh
             DEF LifeInv, LifeCore, LifeTypes, Hands, Attached, Owned

\* PORT_OPEN and PORT_NAME.
LEMMA CtlOpenLife ==
  ASSUME LifeInv, QueueInv, CtlOpen
  PROVE  LifeCore'
<1>1. /\ cpc = "idle" /\ ctl # <<>> /\ cpc' = "requeue" /\ UNCHANGED <<ports, cport, opc, filp>>
  BY Zenon DEF CtlOpen, TakeControl, WorkGoto, files
<1>2. PICK p \in ports : port' = [port EXCEPT ![p].host = Head(ctl).value]
  BY Zenon DEF CtlOpen, ById
<1> DEFINE v == Head(ctl).value
           r == [port[p] EXCEPT !.host = v]
<1>3. v \in BOOLEAN
  BY <1>1, HeadMessage, Zenon
<1> HIDE DEF v
<1>4. p \in Mem /\ port[p] \in PortShape
  BY ListedLive, Zenon
<1>5. r \in PortShape /\ r.id = port[p].id /\ r.kref = port[p].kref /\ r.portdev = port[p].portdev
  BY <1>3, <1>4, SetHost, Zenon
<1>6. port' = [port EXCEPT ![p] = r]
  BY <1>2, Zenon DEF v
<1> HIDE DEF r
<1>7. QED BY <1>1, <1>4, <1>5, <1>6, FieldMove, Zenon DEF Hands

LEMMA CtlNameLife ==
  ASSUME LifeInv, CtlName
  PROVE  LifeCore'
<1>1. /\ cpc = "idle" /\ cpc' = "requeue" /\ UNCHANGED <<ports, cport, opc, filp>>
  BY Zenon DEF CtlName, TakeControl, WorkGoto, files
<1>2. PICK p \in ports : port' = [port EXCEPT ![p].name = TRUE]
  BY Zenon DEF CtlName, ById
<1> DEFINE r == [port[p] EXCEPT !.name = TRUE]
<1>3. p \in Mem /\ port[p] \in PortShape
  BY ListedLive, Zenon
<1>4. r \in PortShape /\ r.id = port[p].id /\ r.kref = port[p].kref /\ r.portdev = port[p].portdev
  BY <1>3, SetName, Zenon
<1>5. port' = [port EXCEPT ![p] = r]
  BY <1>2, Zenon
<1> HIDE DEF r
<1>6. QED BY <1>1, <1>3, <1>4, <1>5, FieldMove, Zenon DEF Hands

\* The steps of open and release that touch a struct port.
LEMMA OpenFindLife ==
  ASSUME LifeInv, NEW t \in Tasks, NEW id \in Ids, OpenFind(t, id)
  PROVE  LifeCore'
  BY TaskMove, ListedLive, SameCount DEF OpenFind, work, LifeInv, LifeCore, LifeTypes, Attached,
        Holders, Goto, ById

LEMMA OpenRefLife ==
  ASSUME LifeInv, NEW t \in Tasks, OpenRef(t)
  PROVE  LifeCore'
<1>1. opc[t] = "found" /\ UNCHANGED <<ports, cpc, cport, filp>> /\ filp[t] \in Mem
  BY Zenon DEF OpenRef, work, LifeInv, LifeCore, LifeTypes
<1>2. CASE port[filp[t]].portdev
  <2> PICK p \in Mem : p = filp[t]
    BY <1>1, Zenon
  <2> DEFINE k == port[p].kref
             r == [port[p] EXCEPT !.kref = k + 1]
  <2>1. opc' = [opc EXCEPT ![t] = "held"] /\ port' = [port EXCEPT ![p] = r]
    BY <1>2, Zenon DEF OpenRef, Goto
  <2>2. port[p] \in PortShape
    BY <1>1, <1>2, FreeFields, Zenon DEF LifeInv, LifeCore, LifeTypes
  <2>3. k \in Nat \ {0} /\ k + 1 \in Nat \ {0}
    BY <2>2 DEF PortShape
  <2>4. r \in PortShape /\ r.id = port[p].id /\ r.kref = k + 1 /\ r.portdev = port[p].portdev
    BY <2>2, <2>3, SetKref, Zenon
  <2> HIDE DEF r, k
  <2>5. /\ port' \in [Mem -> PortShape \cup {Free}] /\ port'[p] = r
        /\ \A q \in Mem : q # p => port'[q] = port[q]
    BY <1>1, <2>1, <2>4, Zenon DEF LifeInv, LifeCore, LifeTypes
  <2>6. /\ Holders(p)' = Holders(p) \cup {t} /\ t \notin Holders(p)
        /\ \A q \in Mem : q # p => Holders(q)' = Holders(q)
    BY <1>1, <2>1, Zenon DEF Holders, LifeInv, LifeCore, LifeTypes
  <2>7. Cardinality(Holders(p)') = Cardinality(Holders(p)) + 1 /\ Cardinality(Holders(p)) \in Nat
    BY <2>6, HoldersCount, CountIn, Zenon
  <2>8. \A q \in Mem : Owned(q)' = Owned(q) /\ Owned(q) \in Nat
    BY <1>1, Zenon DEF Owned
  <2>9. KrefExact'
    <3>1. \A q \in Mem : port[q].kref = Cardinality(Holders(q)) + Owned(q)
      BY Zenon DEF LifeInv, LifeCore, KrefExact, Owned
    <3>2. port'[p].kref = k + 1 /\ k = Cardinality(Holders(p)) + Owned(p) /\ Owned(p)' = Owned(p)
      BY <2>4, <2>5, <2>8, <3>1, Zenon DEF k
    <3>3. port'[p].kref = Cardinality(Holders(p)') + Owned(p)'
      BY <2>3, <2>7, <2>8, <3>2
    <3>4. QED BY <2>5, <2>6, <2>8, <3>1, <3>3, Zenon DEF KrefExact, Owned
  <2>10. QED BY <1>1, <2>1, <2>2, <2>4, <2>5, <2>9, FreeFields DEF LifeInv, LifeCore, LifeTypes,
                  Attached, heap, OnePortPerId
<1>3. QED BY <1>1, <1>2, TaskMove, Zenon DEF OpenRef, Goto, LifeInv, LifeCore, LifeTypes

\* A task lets go of its port.
LEMMA TaskPutLife ==
  ASSUME LifeInv, NEW t \in Tasks, opc[t] \notin {"none", "found", "crashed"},
         kref_put(filp[t]), opc' = [opc EXCEPT ![t] = "none"], filp' = [filp EXCEPT ![t] = NoMem],
         UNCHANGED <<ports, cpc, cport>>
  PROVE  /\ LifeCore'
         /\ \A q \in Mem : port'[q] = Free \/ (port'[q].id = port[q].id /\ port'[q].portdev = port[q].portdev
                                               /\ port'[q].guest = port[q].guest)
<1> PICK p \in Mem : p = filp[t]
  BY HolderLive, Zenon
<1>1. p \in Mem /\ t \in Holders(p) /\ port[p] \in PortShape
  BY HolderLive, Zenon
<1>2. /\ Holders(p)' = Holders(p) \ {t}
      /\ \A q \in Mem : q # p => Holders(q)' = Holders(q)
  BY <1>1, NoMemFresh, Zenon DEF Holders, LifeInv, LifeCore, LifeTypes
<1>3. Cardinality(Holders(p)) = Cardinality(Holders(p)') + 1 /\ Cardinality(Holders(p)') \in Nat
  BY <1>1, <1>2, HoldersCount, CountOut, CountNat
<1>4. \A q \in Mem : Owned(q)' = Owned(q) /\ Owned(q) \in Nat
  BY Zenon DEF Owned
<1>5. Cardinality(Holders(p)') + Owned(p)' + 1 = Cardinality(Holders(p)) + Owned(p)
  BY <1>1, <1>3, <1>4
<1>6. /\ port' \in [Mem -> PortShape \cup {Free}] /\ KrefExact' /\ OnePortPerId'
      /\ \A q \in Mem : port'[q].portdev => port[q].portdev
      /\ \A q \in Mem : port'[q] = Free \/ (port'[q].id = port[q].id /\ port'[q].portdev = port[q].portdev
                                            /\ port'[q].guest = port[q].guest)
  BY <1>1, <1>2, <1>3, <1>4, <1>5, PutCount, Zenon
<1>7. QED BY <1>6, Zenon DEF LifeInv, LifeCore, LifeTypes, Attached

\* A task sets or clears guest_connected of the port it holds.
LEMMA TaskGuestLife ==
  ASSUME LifeInv, NEW t \in Tasks, opc[t] \notin {"none", "found", "crashed"}, NEW b \in BOOLEAN,
         port' = [port EXCEPT ![filp[t]].guest = b], UNCHANGED <<ports, cpc, cport, filp>>,
         NEW l \in {"notify", "put"}, opc' = [opc EXCEPT ![t] = l]
  PROVE  LifeCore'
  BY HolderLive, SetGuest, SameCount, FreeFields, SMTT(20) DEF LifeInv, LifeCore, LifeTypes, Attached,
       Holders

LEMMA TaskLife ==
  ASSUME LifeInv, NEW t \in Tasks, TaskNext(t)
  PROVE  LifeCore'
<1> USE DEF work
<1>1. CASE OpenConnect(t)
  <2>1. CASE ~port[filp[t]].guest
    BY <1>1, <2>1, TaskGuestLife, Zenon DEF OpenConnect, Goto
  <2>2. QED BY <1>1, <2>1, TaskPutLife, Zenon DEF OpenConnect, Goto
<1>2. CASE OpenNotify(t) \/ ReleaseNotify(t)
  <2>1. /\ opc[t] \in {"notify", "open"} /\ UNCHANGED <<port, ports, cpc, cport, filp>>
        /\ \E l \in {"openSent", "open", "closeSent", "close"} : opc' = [opc EXCEPT ![t] = l]
    BY <1>2, Zenon DEF OpenNotify, ReleaseNotify, Notify, Goto
  <2>2. QED BY <2>1, TaskMove, Zenon DEF LifeInv, LifeCore, LifeTypes
<1>3. CASE ReleaseDisconnect(t)
  BY <1>3, TaskGuestLife, Zenon DEF ReleaseDisconnect, Goto
<1>4. QED BY <1>1, <1>2, <1>3, OpenFindLife, OpenRefLife, TaskPutLife, TaskMove
             DEF TaskNext, OpenNext, ReleaseNext, ReleasePut, Goto, OpenReturn,
                 ReleaseNotified, Notified, LifeInv, LifeCore, LifeTypes

LEMMA WorkLife ==
  ASSUME LifeInv, QueueInv, WorkNext
  PROVE  LifeCore'
<1> USE DEF files
<1>1. CASE CtlDrop \/ CtlAddKnown \/ CtlAddFails \/ CtlNameFails
  BY <1>1, WorkMove, Zenon DEF CtlDrop, CtlAddKnown, CtlAddFails, CtlNameFails, TakeControl,
       WorkGoto, Hands
<1>2. CASE CtlSend \/ CtlSent \/ CtlRequeue
  BY <1>2, WorkMove, Zenon DEF CtlSend, CtlSent, CtlRequeue, WorkGoto, After, Hands
<1>3. CASE CtlAddList
  BY <1>3, CtlAddListLife, Zenon
<1>4. CASE CtlOpen
  BY <1>4, CtlOpenLife, Zenon
<1>5. CASE CtlName
  BY <1>5, CtlNameLife, Zenon
<1>6. CASE \E p \in Mem : CtlAdd(p)
  BY <1>6, CtlAddLife, Zenon
<1>7. CASE \E p \in Mem : CtlRemove(p)
  BY <1>7, UnplugListLife, Zenon DEF CtlRemove, TakeControl, ById
<1>8. CASE UnplugDisconnect
  BY <1>8, UnplugDisconnectLife, Zenon
<1>9. CASE UnplugDetach
  BY <1>9, UnplugDetachLife, Zenon
<1>10. CASE UnplugPut
  BY <1>10, UnplugPutLife, Zenon
<1>11. QED BY <1>1, <1>2, <1>3, <1>4, <1>5, <1>6, <1>7, <1>8, <1>9, <1>10, Zenon DEF WorkNext

LEMMA RemoveLife ==
  ASSUME LifeInv, RemoveNext
  PROVE  LifeCore'
  BY LifeSame, UnplugListLife, TasksFinite, TaskMove, Zenon DEF files, work, RemoveReset,
       RemoveCancel, RemovePort, Spins, RemoveDone, LifeInv, LifeCore, LifeTypes, RemoveNext

\* What is in use is there, and is counted.
LEMMA LifeNext ==
  ASSUME LifeInv, QueueInv, Next
  PROVE  LifeInv'
<1>1. LifeCore'
  <2> USE DEF files, work
  <2>1. CASE HostNext
    BY <2>1, LifeSame, Zenon DEF HostNext, Plug, Unplug, HostConnect
  <2>2. CASE Probe \/ ProbeNext \/ RemoveStart
    BY <2>2, LifeSame, Zenon DEF Probe, ProbeNext, ProbeList, ProbeAnnounce, ProbeReturn,
         RemoveStart
  <2>3. QED BY <2>1, <2>2, WorkLife, RemoveLife, TaskLife, LifeSame, Zenon DEF Next, HostControl,
                 HandleDeviceReady, HandlePortReady, HandlePortOpen, PopControl
<1>2. Live'
  <2> SUFFICES ASSUME NEW p \in Mem, p \in ports' \/ p = cport' \/ Holders(p)' # {}
               PROVE  port'[p] \in PortShape
    BY Zenon DEF Live
  <2>1. port'[p] \in PortShape \cup {Free}
    BY <1>1, Zenon DEF LifeCore, LifeTypes
  <2> DEFINE H == {t \in Tasks : filp'[t] = p /\ opc'[t] \notin {"none", "found", "crashed"}}
  <2>2. Holders(p)' = H /\ H \in SUBSET Tasks
    BY Zenon DEF Holders
  <2> HIDE DEF H
  <2>3. QED BY <1>1, <2>1, <2>2, FreeFields, TasksCount, CountNat, FS_EmptySet
               DEF LifeCore, KrefExact
<1>3. QED BY <1>1, <1>2, Zenon DEF LifeInv

----------------------------------------------------------------------------
(* QEMU's list of ports.                                                   *)

\* QEMU would find an id for a port that is not in use.
LEMMA FreeId ==
  ASSUME NEW H \in SUBSET Ids, NEW M, M = {0} \cup H
  PROVE  \E i \in 0..32 : i \notin M /\ \A j \in 0 .. i - 1 : j \in M
  BY SizesPositive, Least DEF Ids

LEMMA SpinFacts ==
  /\ Spinners = Spinning(opc, cpc, drv)
  /\ Spinners' = Spinning(opc', cpc', drv')
  BY TasksFinite, Zenon DEF Spinners, Spinning, Spins, Senders

LEMMA SpinFinite ==
  ASSUME NEW o, NEW c, NEW d
  PROVE  IsFiniteSet(Spinning(o, c, d)) /\ Cardinality(Spinning(o, c, d)) \in Nat
<1>1. IsFiniteSet(Senders)
  <2>1. IsFiniteSet(Tasks \cup {"work"})
    BY TasksFinite, FS_AddElement, Zenon
  <2>2. QED BY <2>1, FS_AddElement DEF Senders
<1>2. QED BY <1>1, FS_Subset, FS_CardinalityType DEF Spinning, Senders

\* Nothing is sent or given back, and no fewer spin.
LEMMA CovSame ==
  ASSUME CovInv, UNCHANGED <<covq, cused>>, Spinners \subseteq Spinners',
         drv' \in {"none", "filled", "probed", "announced", "ready", "leaving", "reset", "unplug"},
         drv' \in {"none", "reset", "unplug"} => covq = <<>>
  PROVE  CovInv'
  BY SpinFacts, SpinFinite, FS_Subset DEF CovInv

\* A message is sent, by one who did not spin.
LEMMA CovSent ==
  ASSUME CovInv, QueuesUp, NEW m \in Reply, covq' = Append(covq, m), cused' = cused,
         NEW s, s \notin Spinners, Spinners' = Spinners \cup {s},
         drv' \in {"filled", "probed", "announced", "ready", "leaving"}
  PROVE  CovInv'
<1>1. Cardinality(Spinners') = Cardinality(Spinners) + 1 /\ Cardinality(Spinners) \in Nat
  BY SpinFacts, SpinFinite, CountIn, Zenon
<1>2. QED BY <1>1 DEF CovInv

\* One who spins sees a message given back.
LEMMA CovSeen ==
  ASSUME CovInv, SeesUsed, covq' = covq,
         NEW s \in Spinners, Spinners' = Spinners \ {s},
         drv' = drv \/ drv' = "ready"
  PROVE  CovInv'
<1>1. Cardinality(Spinners) = Cardinality(Spinners') + 1 /\ Cardinality(Spinners') \in Nat
  BY SpinFacts, SpinFinite, CountOut
<1>2. QED BY <1>1 DEF CovInv, SeesUsed

\* QEMU gives a message back.
LEMMA CovPopped ==
  ASSUME CovInv, PopControl
  PROVE  CovInv'
  BY SpinFacts, HeadReply, SpinFinite DEF PopControl, files, work, CovInv, QueuesUp

\* c_ivq, when nobody is at it or the work takes a message.
LEMMA CtlSame ==
  ASSUME CtlInv, UNCHANGED <<ctl, taken>>
  PROVE  CtlInv'
  BY Zenon DEF CtlInv, Posted

LEMMA HostQueue ==
  ASSUME QueueInv, HostInv, HostNext
  PROVE  QueueInv'
<1> USE DEF files, work
<1>1. /\ UNCHANGED <<covq, cused, opc, cpc, drv, taken, hbusy, garbled>>
      /\ \E e \in {"ADD", "REMOVE", "OPEN"}, id \in Ids, v \in BOOLEAN :
            /\ e # "OPEN" => v = TRUE
            /\ SendControl(<<Msg(e, id, v)>>)
  <2>1. CASE \E nr \in Ids \cup {BAD_ID} : Plug(nr)
    BY <2>1, Zenon DEF Plug
  <2>2. CASE \E id \in Ids : Unplug(id)
    BY <2>2, Zenon DEF Unplug
  <2>3. CASE \E id \in Ids : \E v \in BOOLEAN : HostConnect(id, v)
    BY <2>3, Zenon DEF HostConnect
  <2>4. QED BY <2>1, <2>2, <2>3, Zenon DEF HostNext
<1>2. PICK s \in Seq(Message) : SendControl(s)
  <2>1. PICK e \in {"ADD", "REMOVE", "OPEN"}, id \in Ids, v \in BOOLEAN :
            /\ e # "OPEN" => v = TRUE
            /\ SendControl(<<Msg(e, id, v)>>)
    BY <1>1, Zenon
  <2>2. Msg(e, id, v) \in Message
    BY <2>1, Zenon DEF Message, Msg
  <2>3. <<Msg(e, id, v)>> \in Seq(Message)
    BY <2>2
  <2>4. QED BY <2>1, <2>3, Zenon
<1>3. QED BY <1>1, <1>2, SendControlStep, CovSame, SpinFacts, Zenon DEF QueueInv, CovInv

LEMMA ControlQueue ==
  ASSUME QueueInv, HostInv, HostControl
  PROVE  QueueInv'
<1> USE DEF files, work
<1>1. PopControl
  BY Zenon DEF HostControl, HandleDeviceReady, HandlePortReady, HandlePortOpen
<1>2. QED BY <1>1, CovPopped, SendControlStep, CtlSame, ControlSends, Zenon
             DEF QueueInv, PopControl

LEMMA ProbeQueue ==
  ASSUME QueueInv, Probe \/ ProbeNext \/ RemoveStart
  PROVE  QueueInv'
<1> USE DEF files, work, queues, qemu
<1>1. UNCHANGED <<ctl, taken, hbusy, missed, garbled, opc, cpc>>
  BY Zenon DEF Probe, ProbeNext, ProbeList, ProbeAnnounce, ProbeReturn, RemoveStart
<1>2. CovInv'
  <2>1. CASE ProbeAnnounce
    <3> DEFINE m == [from |-> "probe", event |-> "DEVICE_READY", id |-> BAD_ID, value |-> TRUE]
    <3>1. QueuesUp /\ drv # "announced" /\ drv' = "announced" /\ cused' = cused /\ covq' = Append(covq, m)
      BY <2>1, Zenon DEF ProbeAnnounce, QueuesUp, Post
    <3>2. m \in Reply
      BY Zenon DEF Reply, Senders
    <3> HIDE DEF m
    <3>3. QED BY <1>1, <3>1, <3>2, CovSent, SpinFacts, TasksFinite DEF QueueInv, Spinning
  <2>2. QED BY <1>1, <2>1, SpinFacts, CovSame, TasksFinite, CovSeen
               DEF ProbeNext, Probe, ProbeList, RemoveStart, Spinning, QueueInv, ProbeReturn
<1>3. QED BY <1>1, <1>2, CtlSame, Zenon DEF QueueInv

LEMMA WorkQueue ==
  ASSUME QueueInv, LifeInv, WorkNext
  PROVE  QueueInv'
<1> USE DEF files, queues, qemu
<1>1. CASE CtlSend
  <2>1. /\ cpc \in {"sendReady", "sendFailed"} /\ Post("work", "PORT_READY", taken.id, cpc = "sendReady")
        /\ cpc' = After
        /\ UNCHANGED <<ctl, taken, cused, hbusy, missed, garbled, opc, drv>>
    BY <1>1, Zenon DEF CtlSend, WorkGoto
  <2>2. CASE QueuesUp
    <3> DEFINE m == [from |-> "work", event |-> "PORT_READY", id |-> taken.id, value |-> cpc = "sendReady"]
    <3>1. covq' = Append(covq, m) /\ cpc' = "sent" /\ cpc # "sent"
      BY <2>1, <2>2, Zenon DEF Post, After
    <3>2. taken.id \in Ids \cup {BAD_ID}
      <4>1. CASE taken \in Message
        BY <4>1, Zenon DEF Message
      <4>2. QED BY <4>1 DEF QueueInv, CtlInv, NoMessage
    <3>3. m \in Reply
      BY <3>2, Zenon DEF Reply, Senders
    <3> HIDE DEF m
    <3>4. QED BY <2>1, <2>2, <3>1, <3>3, CtlSame, CovSent, SpinFacts, TasksFinite DEF QueueInv,
                   QueuesUp, Spinning
  <2>3. CASE ~QueuesUp
    BY <2>1, <2>3, SpinFacts, CovSame, CtlSame, Zenon DEF Post, After, Spinning, QueueInv, CovInv
  <2>4. QED BY <2>2, <2>3, Zenon
<1>2. CASE ~CtlSend /\ ~CtlSent
  <2>1. /\ UNCHANGED <<covq, cused, hbusy, garbled, opc, drv>> /\ cpc # "sent" /\ cpc' # "sent"
        /\ missed' \in BOOLEAN
        /\ \/ UNCHANGED <<ctl, taken>>
           \/ UNCHANGED ctl /\ taken' = NoMessage
           \/ ctl # <<>> /\ ctl' = Tail(ctl) /\ taken' = Head(ctl)
    <3>1. CASE CtlDrop \/ CtlAddKnown \/ CtlAddFails \/ CtlOpen \/ CtlName \/ CtlNameFails
               \/ \E p \in Mem : CtlAdd(p) \/ CtlRemove(p)
      BY <3>1, Zenon DEF CtlDrop, CtlAddKnown, CtlAddFails, CtlOpen, CtlName, CtlNameFails,
           CtlAdd, CtlRemove, TakeControl, UnplugList, WorkGoto, QueueInv
    <3>2. QED BY <1>2, <3>1, Zenon DEF WorkNext, CtlAddList, CtlRequeue, UnplugDisconnect,
                   UnplugDetach, UnplugPut, WorkGoto, QueueInv
  <2>2. QED BY <2>1, SizesPositive, CtlSame, CtlTaken, CovSame, SpinFacts
               DEF QueueInv, CtlInv, Posted, CovInv, Spinning
<1>3. QED BY <1>1, <1>2, SpinFacts, TasksFinite, CovSeen, CtlSame DEF CtlSent, WorkGoto, Spinning,
               QueueInv

LEMMA RemoveQueue ==
  ASSUME QueueInv, LifeInv, RemoveNext
  PROVE  QueueInv'
<1> USE DEF files, work, queues, qemu
<1>1. CASE RemoveReset
  <2>1. /\ drv = "leaving" /\ drv' = "reset" /\ covq' = <<>>
        /\ UNCHANGED <<ctl, taken, cused, hbusy, missed, garbled, opc, cpc>>
    BY <1>1, Zenon DEF RemoveReset
  <2>2. Cardinality(Spinners) \in Nat /\ Len(covq) \in Nat /\ cused \in Nat /\ Len(covq') = 0
    BY <2>1, SpinFacts, SpinFinite DEF QueueInv, CovInv
  <2>3. QED BY <2>1, <2>2, CtlSame, SpinFacts DEF QueueInv, CovInv, Spinning
<1>2. CASE RemoveDone
  BY <1>2, SpinFacts, SpinFinite, SizesPositive DEF RemoveDone, QueueInv, CovInv, CtlInv, Posted
<1>3. QED BY <1>1, <1>2, SpinFacts, CovSame, CtlSame, Zenon DEF RemoveNext, RemoveCancel,
               RemovePort, UnplugList, WorkGoto, Spinning, QueueInv, CovInv

LEMMA TaskQueue ==
  ASSUME QueueInv, LifeInv, NEW t \in Tasks, TaskNext(t)
  PROVE  QueueInv'
<1> USE DEF files, work, queues, qemu
<1>1. /\ UNCHANGED <<ctl, taken, hbusy, missed, garbled, cpc, drv>> /\ CtlInv'
  BY CtlSame, Zenon DEF TaskNext, OpenNext, ReleaseNext, OpenFind, OpenRef, OpenConnect,
       OpenNotify, ReleaseNotify, Notify, OpenReturn, ReleaseNotified, Notified,
       ReleaseDisconnect, ReleasePut, QueueInv
<1>2. CovInv'
  <2>1. CASE (\E id \in Ids : OpenFind(t, id)) \/ OpenRef(t) \/ OpenConnect(t)
              \/ ReleaseDisconnect(t) \/ ReleasePut(t)
    BY <1>1, <2>1, SpinFacts, CovSame DEF OpenFind, OpenRef, OpenConnect, ReleaseDisconnect,
          ReleasePut, Goto, Spinning, LifeInv, LifeCore, LifeTypes, QueueInv, CovInv
  <2>2. CASE OpenNotify(t) \/ ReleaseNotify(t)
    <3>1. PICK v \in BOOLEAN : /\ opc[t] = (IF v THEN "notify" ELSE "open")
                               /\ Notify(t, v, IF v THEN "openSent" ELSE "closeSent",
                                               IF v THEN "open" ELSE "close")
      BY <2>2, Zenon DEF OpenNotify, ReleaseNotify
    <3> DEFINE m == [from |-> t, event |-> "OPEN", id |-> port[filp[t]].id, value |-> v]
    <3>2. opc[t] \notin {"openSent", "closeSent"} /\ cused' = cused
      BY <3>1, Zenon DEF Notify
    <3>3. CASE port[filp[t]].portdev
      <4>1. /\ covq' = IF QueuesUp THEN Append(covq, m) ELSE covq
            /\ opc' = [opc EXCEPT ![t] = IF v THEN "openSent" ELSE "closeSent"]
        BY <3>1, <3>3, Zenon DEF Notify, Goto, Post
      <4>2. t \notin Spinners /\ Spinners' = Spinners \cup {t}
        BY <1>1, <3>2, <4>1, SpinFacts, TasksFinite, Zenon DEF Spinning, LifeInv, LifeCore,
             LifeTypes
      <4>3. m \in Reply
        BY <3>1, HolderLive, Zenon DEF PortShape, Reply, Senders
      <4> HIDE DEF m
      <4>4. CASE ~QueuesUp
        BY <1>1, <3>2, <4>1, <4>2, <4>4, CovSame, Zenon DEF QueueInv, CovInv
      <4>5. QED BY <1>1, <3>2, <4>1, <4>2, <4>3, <4>4, CovSent, Zenon DEF QueueInv, QueuesUp
    <3>4. QED BY <1>1, <3>1, <3>2, <3>3, SpinFacts, CovSame DEF Notify, Goto, Spinning, LifeInv,
                   LifeCore, LifeTypes, QueueInv, CovInv
  <2>3. QED BY <1>1, <2>1, <2>2, SpinFacts, TasksFinite, CovSeen
               DEF TaskNext, OpenNext, ReleaseNext, OpenReturn, ReleaseNotified, Notified,
                   Goto, Spinning, LifeInv, LifeCore, LifeTypes, QueueInv
<1>3. QED BY <1>1, <1>2, Zenon DEF QueueInv

LEMMA QueueNext ==
  ASSUME QueueInv, HostInv, LifeInv, Next
  PROVE  QueueInv'
  BY HostQueue, ControlQueue, WorkQueue, ProbeQueue, RemoveQueue, TaskQueue, Zenon DEF Next

LEMMA HostNextInv ==
  ASSUME HostInv, QueueInv, Next
  PROVE  HostInv'
<1>1. HostCore'
  <2> USE DEF qemu
  <2>1. CASE \E nr \in Ids \cup {BAD_ID} : Plug(nr)
    BY <2>1, PlugHost, Zenon
  <2>2. CASE \E id \in Ids : Unplug(id)
    BY <2>2, UnplugHost, Zenon
  <2>3. CASE \E id \in Ids : \E v \in BOOLEAN : HostConnect(id, v)
    <3>1. /\ UNCHANGED <<hports, ports_map, guest_connected, cfd, hdead, known, reused>>
          /\ \E id \in Ids, v \in BOOLEAN : host_connected' = [host_connected EXCEPT ![id] = v]
      BY <2>3, Zenon DEF HostConnect
    <3>2. QED BY <3>1, Zenon DEF HostInv, HostCore
  <2>4. CASE HandleDeviceReady \/ HandlePortReady
    BY <2>4, Zenon DEF HandleDeviceReady, HandlePortReady, PopControl, HostInv, HostCore
  <2>5. CASE HandlePortOpen
    <3> PICK id, v : id = Head(covq).id /\ v = Head(covq).value
      BY Zenon
    <3>1. v \in BOOLEAN /\ UNCHANGED <<hports, ports_map, host_connected, known, reused>>
      BY <2>5, HeadReply, Zenon DEF HandlePortOpen, PopControl, QueueInv
    <3>2. CASE id \in Range(hports)
      <4>1. /\ guest_connected' = [guest_connected EXCEPT ![id] = v]
            /\ cfd' = [cfd EXCEPT ![id] = v] /\ hdead' = (~v /\ ~cfd[id])
        BY <2>5, <3>2, Zenon DEF HandlePortOpen, guest_open_close
      <4>2. QED BY <3>1, <3>2, <4>1, Zenon DEF HostInv, HostCore
    <3>3. QED BY <2>5, <3>1, <3>2, Zenon DEF HandlePortOpen, HostInv, HostCore
  <2>6. CASE WorkNext
    BY <2>6, Zenon DEF WorkNext, CtlDrop, CtlAddKnown, CtlAddFails, CtlAddList, CtlSend,
         CtlSent, CtlOpen, CtlName, CtlNameFails, CtlRequeue, CtlAdd, CtlRemove,
         UnplugDisconnect, UnplugDetach, UnplugPut, TakeControl, HostInv, HostCore
  <2>7. CASE Probe \/ ProbeNext \/ RemoveStart
    BY <2>7, Zenon DEF Probe, ProbeNext, ProbeList, ProbeAnnounce, ProbeReturn, RemoveStart,
         HostInv, HostCore
  <2>8. CASE RemoveReset
    BY <2>8, Zenon DEF RemoveReset, HostInv, HostCore
  <2>9. CASE RemoveCancel \/ (\E p \in Mem : RemovePort(p)) \/ RemoveDone
    BY <2>9, Zenon DEF RemoveCancel, RemovePort, RemoveDone, HostInv, HostCore
  <2>10. CASE \E t \in Tasks : TaskNext(t)
    <3>1. UNCHANGED qemu
      BY <2>10, Zenon DEF TaskNext, OpenNext, ReleaseNext, OpenFind, OpenRef, OpenConnect,
           OpenNotify, ReleaseNotify, Notify, OpenReturn, ReleaseNotified, Notified,
           ReleaseDisconnect, ReleasePut
    <3>2. QED BY <3>1, Zenon DEF HostInv, HostCore
  <2>11. QED BY <2>1, <2>2, <2>3, <2>4, <2>5, <2>6, <2>7, <2>8, <2>9, <2>10, Zenon
             DEF Next, HostNext, HostControl, RemoveNext
<1>2. Range(hports') \in SUBSET Ids
  BY <1>1, Zenon DEF HostCore, Range
<1>3. PICK i \in 0..32 : i \notin ports_map' /\ \A j \in 0 .. i - 1 : j \in ports_map'
  BY <1>1, <1>2, FreeId, Zenon DEF HostCore
<1>4. QED BY <1>1, <1>3, Zenon DEF HostInv, find_free_port_id

LEMMA Initially ==
  ASSUME Init
  PROVE  IInv
<1> USE DEF Init
<1>1. HostInv
  <2>1. Range(hports) = {}
    BY DEF Range
  <2>2. hports \in Seq(Ids) /\ DOMAIN hports = {}
    OBVIOUS
  <2>3. IsInjective(hports)
    BY <2>2, Zenon DEF IsInjective
  <2>4. HostCore
    BY <2>1, <2>2, <2>3, Zenon DEF HostCore
  <2>5. PICK i \in 0..32 : i \notin ports_map /\ \A j \in 0 .. i - 1 : j \in ports_map
    BY <2>1, <2>4, FreeId, Zenon DEF HostCore
  <2>6. QED BY <2>4, <2>5, Zenon DEF HostInv, find_free_port_id
<1>2. QueueInv
  <2>1. CovInv
    <3>1. Cardinality(Spinners) \in Nat /\ Len(covq) = 0
      BY SpinFacts, SpinFinite
    <3>2. QED BY <3>1 DEF CovInv
  <2>2. CtlInv
    BY SizesPositive DEF CtlInv, Posted
  <2>3. QED BY <2>1, <2>2, Zenon DEF QueueInv
<1>3. LifeInv
  <2>1. KrefExact
    <3> SUFFICES ASSUME NEW p \in Mem
                 PROVE  port[p].kref = Cardinality(Holders(p)) + (IF p \in ports \/ p = cport THEN 1 ELSE 0)
      BY Zenon DEF KrefExact
    <3>1. Holders(p) = {} /\ Cardinality({}) = 0
      BY FS_EmptySet, Zenon DEF Holders
    <3>2. QED BY <3>1, NoMemFresh DEF Free
  <2>2. QED BY <2>1, NoMemFresh, Zenon DEF LifeInv, LifeCore, Attached, OnePortPerId, Free,
                 LifeTypes, Hands, heap, Live, Holders
<1>4. DOMAIN ctl = {} /\ DOMAIN covq = {} /\ Range(hports) = {}
  BY DEF Range
<1>5. RemovedInv /\ ConnectInv /\ MessageInv
  BY <1>4, Zenon DEF RemovedInv, ConnectInv, Connected, MessageInv
<1>6. BeliefInv
  BY <1>4, BeliefParts, Zenon DEF Believed
<1>7. QED BY <1>1, <1>2, <1>3, <1>5, <1>6, Zenon DEF IInv

LEMMA Step ==
  ASSUME IInv, Next
  PROVE  IInv'
  BY HostNextInv, QueueNext, LifeNext, GoneStable, RemovedNext, ConnectNext, MessageNext,
     BeliefNext, Zenon DEF IInv

LEMMA Stutter ==
  ASSUME IInv, UNCHANGED vars
  PROVE  IInv'
<1> USE DEF vars, qemu, queues, work, files
<1>1. UNCHANGED <<heap, GoneIds, Spinners>>
  BY Zenon DEF heap, GoneIds, Spinners, Spins
<1>2. LifeInv'
  BY <1>1 DEF IInv, LifeInv, LifeCore, Live, LifeTypes, Attached, KrefExact, Holders, OnePortPerId
<1>3. ConnectInv' /\ MessageInv'
  BY <1>1, Zenon DEF IInv, ConnectInv, Detached, Gone, MessageInv, Spins
<1>4. HostInv'
  BY DEF IInv, HostInv, HostCore, find_free_port_id
<1>5. QueueInv'
  BY <1>1 DEF IInv, QueueInv, CtlInv, Posted, CovInv
<1>6. RemovedInv'
  BY <1>1, Zenon DEF IInv, RemovedInv, Gone
<1>7. BeliefInv'
  BY <1>1 DEF IInv, BeliefInv, Believed, HostKnowsOpen
<1>8. QED BY <1>2, <1>3, <1>4, <1>5, <1>6, <1>7, Zenon DEF IInv

LEMMA Invariance == Spec => []IInv
  BY Initially, Step, Stutter, PTL DEF Spec

\* QEMU cannot list more ports than there are ids.
LEMMA ListFits ==
  ASSUME HostInv
  PROVE  Len(hports) <= Cardinality(Ids)
<1>1. Len(hports) \in Nat /\ hports \in [1 .. Len(hports) -> Ids] /\ IsInjective(hports)
  BY DEF HostInv, HostCore
<1>2. IsFiniteSet(Ids) /\ Cardinality(Ids) \in Nat
  BY SizesPositive, FS_Interval, FS_CardinalityType DEF Ids
<1>3. Cardinality(1 .. Len(hports)) = Len(hports)
  BY <1>1, FS_Interval
<1>4. QED BY <1>1, <1>2, <1>3, FS_Injection DEF Injection

LEMMA KrefFits ==
  ASSUME LifeInv
  PROVE  port \in [Mem -> Port \cup {Free}]
  BY HoldersCount, TasksFinite, TasksCount, FS_Subset DEF LifeInv, LifeCore, LifeTypes, KrefExact,
        PortShape, Port

\* Every variable keeps its type: in particular QEMU's list never outgrows the
\* ids, c_ivq never holds more messages than the guest posted buffers, a
\* reference count stays between none and one for each task and the list, and
\* no more messages wait or are given back on c_ovq than there are senders.
THEOREM TypeCorrect == Spec => []TypeOK
<1>1. IInv => TypeOK
  <2> SUFFICES ASSUME IInv PROVE TypeOK
    BY Zenon
  <2> HostInv /\ QueueInv /\ LifeInv
    BY Zenon DEF IInv
  <2>1. Len(covq) + cused <= Cardinality(Senders)
    <3>1. IsFiniteSet(Senders)
      <4>1. IsFiniteSet(Tasks \cup {"work"})
        BY TasksFinite, FS_AddElement, Zenon
      <4>2. QED BY <4>1, FS_AddElement DEF Senders
    <3>2. QED BY <3>1, FS_Subset, FS_CardinalityType DEF Spinners, QueueInv, CovInv
  <2>2. QED BY <2>1, ListFits, KrefFits, ListedLive, HeapShape, Zenon
               DEF TypeOK, HostInv, HostCore, QueueInv, CtlInv, CovInv, LifeInv, LifeCore,
                   LifeTypes
<1>2. QED BY <1>1, Invariance, PTL

\* An id never has two struct ports in the guest, listed, being unplugged or
\* kept by an open file: add_port creates none while a device with the number
\* is left.
THEOREM OnePort == Spec => []OnePortPerId
  BY Invariance, PTL DEF IInv, LifeInv, LifeCore

\* A port's reference count is always the number of those who will put it, so
\* that remove_port frees it exactly when the last of them has: a port that is
\* listed, in the work's hands or open is never freed, and none is leaked.
THEOREM CountsExact == Spec => []KrefExact
  BY Invariance, PTL DEF IInv, LifeInv, LifeCore

\* Unless a message was overwritten on its sender's stack before QEMU read it,
\* QEMU believes a port, whose id it has given once, to be open only while a
\* task is between opening and closing it or the message that closes it waits.
THEOREM BeliefCorrect == Spec => []HostKnowsOpen
  BY Invariance, PTL DEF IInv, BeliefInv

=============================================================================
