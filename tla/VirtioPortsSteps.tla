-------------------------- MODULE VirtioPortsSteps --------------------------
(***************************************************************************)
(* The inductive invariant of VirtioPorts, and that every step keeps what  *)
(* it says of removals, connections, messages and QEMU's beliefs.          *)
(* VirtioPortsProofs has the rest of it, and the theorems.                 *)
(***************************************************************************)
EXTENDS VirtioPorts, TLAPS

----------------------------------------------------------------------------
(* The inductive invariant.                                                *)

\* QEMU's own state.  No id is in the list twice.
HostCore ==
    /\ hports \in Seq(Ids) /\ IsInjective(hports) /\ ports_map = {0} \cup Range(hports)
    /\ host_connected \in [Ids -> BOOLEAN] /\ guest_connected \in [Ids -> BOOLEAN]
    /\ cfd \in [Ids -> BOOLEAN] /\ hdead \in BOOLEAN
    /\ Range(hports) \subseteq known /\ reused \subseteq known /\ known \subseteq Ids
HostInv == HostCore /\ find_free_port_id \notin ports_map

\* The control queues.  As many senders spin as there are messages that one of
\* them will see given back; without queues there are none.
Spinners == {s \in Senders : Spins(s)}
CtlInv == ctl \in Seq(Message) /\ Posted >= 0 /\ taken \in Message \cup {NoMessage}
CovInv ==
    /\ covq \in Seq(Reply) /\ cused \in Nat
    /\ Len(covq) + cused <= Cardinality(Spinners)
    /\ drv \in {"none", "reset", "unplug"} => covq = <<>>
    /\ drv \in {"none", "filled", "probed", "announced", "ready", "leaving", "reset", "unplug"}
QueueInv == CtlInv /\ CovInv /\ {hbusy, missed, garbled} \subseteq BOOLEAN

\* The struct ports, and who is at which of them.  A port is attached to its
\* device only while it is listed, or being listed or unplugged.
PortShape == [id : Ids, guest : BOOLEAN, host : BOOLEAN, kref : Nat \ {0},
              portdev : BOOLEAN, name : BOOLEAN]
Hands == {"list", "disconnect", "detach", "put"}
LifeTypes ==
    /\ port \in [Mem -> PortShape \cup {Free}] /\ ports \subseteq Mem
    /\ cpc \in {"idle", "list", "sendReady", "sendFailed", "sent", "stuck", "requeue",
                "disconnect", "detach", "put"}
    /\ IF cpc \in Hands THEN cport \in Mem \ ports ELSE cport = NoMem
    /\ opc \in [Tasks -> {"none", "found", "held", "notify", "openSent", "open", "closeSent",
                          "close", "put", "stuck", "crashed"}]
    /\ filp \in [Tasks -> Mem \cup {NoMem}]
    /\ \A t \in Tasks : opc[t] \notin {"none", "crashed"} => filp[t] \in Mem
Attached == \A p \in Mem : port[p].portdev => p \in ports \/ (p = cport /\ cpc # "put")
LifeCore == LifeTypes /\ Attached /\ KrefExact /\ OnePortPerId
Live == \A p \in Mem : p \in ports \/ p = cport \/ Holders(p) # {} => port[p] \in PortShape
LifeInv == LifeCore /\ Live

\* The port of this id that QEMU has, or had, will not be announced again.
GoneIds == {id \in known : id \notin Range(hports) \/ id \in reused}
Gone(id) == id \in GoneIds

\* A port is unplugged because QEMU has unplugged it, or the driver goes.
RemovedInv ==
    /\ \A k \in DOMAIN ctl : ctl[k].event = "REMOVE" => Gone(ctl[k].id)
    /\ cpc \in {"disconnect", "detach", "put"} /\ drv # "unplug" => Gone(port[cport].id)

\* A task that has connected to a port is the only one, as long as the port
\* stays.
Connected == {"notify", "openSent", "open", "closeSent", "close"}
Detached(p) == Gone(port[p].id) \/ ~port[p].portdev \/ (p = cport /\ cpc = "detach")
ConnectInv ==
    \A t \in Tasks : opc[t] \in Connected =>
        \/ Detached(filp[t])
        \/ /\ port[filp[t]].guest
           /\ \A u \in Tasks : opc[u] \in Connected /\ filp[u] = filp[t] => u = t

\* The messages of tasks: the last of each says what the task is at, unless the
\* task has gone on, and of a port that the guest has detached since QEMU no
\* longer wants to know.
MessageInv ==
    \A k \in DOMAIN covq :
        /\ covq[k].event = "OPEN" <=> covq[k].from \in Tasks
        /\ covq[k].event = "OPEN" =>
            /\ Spins(covq[k].from) /\ (\A j \in DOMAIN covq : j > k => covq[j].from # covq[k].from)
               => /\ covq[k].id = port[filp[covq[k].from]].id
                  /\ covq[k].value <=> opc[covq[k].from] = "openSent"
            /\ \A p \in heap : port[p].id = covq[k].id /\ ~port[p].portdev => Gone(covq[k].id)

\* What QEMU believes of the ports whose id it has given once.
Believed(id) == id \in Range(hports) \ reused /\ guest_connected[id]
BeliefInv ==
    /\ drv \in {"none", "reset", "unplug"} => \A id \in Ids : ~Believed(id)
    /\ \A p \in heap : ~port[p].portdev => ~Believed(port[p].id)
    /\ ~garbled => \A t \in Tasks :
           opc[t] = "closeSent" /\ Believed(port[filp[t]].id)
           => \E m \in Range(covq) : m.event = "OPEN" /\ m.id = port[filp[t]].id /\ ~m.value
    /\ HostKnowsOpen

IInv == HostInv /\ QueueInv /\ LifeInv /\ RemovedInv /\ ConnectInv /\ MessageInv /\ BeliefInv

----------------------------------------------------------------------------
(* Sets, sequences and records.                                            *)

\* Free is no port.
LEMMA FreeFields ==
  /\ Free \notin PortShape /\ Free.kref = 0 /\ Free.portdev = FALSE /\ Free.id \notin Ids
  BY SizesPositive DEF Free, Ids, BAD_ID, PortShape

----------------------------------------------------------------------------
(* The life of a struct port.                                              *)

\* Who is listed, in the hands of the work or open is there.
LEMMA PortLive ==
  ASSUME LifeInv, NEW p \in Mem, p \in ports \/ p = cport \/ Holders(p) # {}
  PROVE  port[p] \in PortShape
  BY Zenon DEF LifeInv, LifeCore, Live

\* In particular the port of a task that holds it, and the one the work is at.
LEMMA HolderLive ==
  ASSUME LifeInv, NEW t \in Tasks, opc[t] \notin {"none", "found", "crashed"}
  PROVE  filp[t] \in Mem /\ t \in Holders(filp[t]) /\ port[filp[t]] \in PortShape
  BY PortLive, Zenon DEF LifeInv, LifeCore, LifeTypes, Holders

LEMMA HandLive ==
  ASSUME LifeInv, cpc \in Hands
  PROVE  cport \in Mem /\ cport \notin ports /\ cport # NoMem /\ port[cport] \in PortShape
  BY NoMemFresh, PortLive, Zenon DEF LifeInv, LifeCore, LifeTypes

LEMMA ListedLive ==
  ASSUME LifeInv, NEW p \in ports
  PROVE  p \in Mem /\ port[p] \in PortShape /\ p # cport
  BY NoMemFresh, PortLive, Zenon DEF LifeInv, LifeCore, LifeTypes

----------------------------------------------------------------------------
(* QEMU's list of ports.                                                   *)

\* The elements of a sequence that grows by one;
LEMMA AppendedAt ==
  ASSUME NEW S, NEW s \in Seq(S), NEW x \in S
  PROVE  /\ Len(s) \in Nat /\ DOMAIN s = 1 .. Len(s) /\ DOMAIN Append(s, x) = 1 .. Len(s) + 1
         /\ Append(s, x)[Len(s) + 1] = x /\ \A i \in 1 .. Len(s) : Append(s, x)[i] = s[i]
  OBVIOUS

\* what it holds, and that it has no repetition.
LEMMA Appended ==
  ASSUME NEW S, NEW s \in Seq(S), NEW x \in S
  PROVE  /\ Append(s, x) \in Seq(S) /\ Range(Append(s, x)) = Range(s) \cup {x}
         /\ IsInjective(s) /\ x \notin Range(s) => IsInjective(Append(s, x))
<1> DEFINE n == Append(s, x)
           l == Len(s)
<1>1. /\ n \in Seq(S) /\ DOMAIN s = 1 .. l /\ l \in Nat /\ DOMAIN n = 1 .. l + 1 /\ n[l + 1] = x
      /\ \A i \in 1 .. l : n[i] = s[i]
  OBVIOUS
<1> HIDE DEF n, l
<1>2. 1 .. l + 1 = (1 .. l) \cup {l + 1} /\ l + 1 \notin 1 .. l
  BY <1>1
<1>3. ASSUME IsInjective(s), x \notin Range(s) PROVE IsInjective(n)
  BY <1>1, <1>2, <1>3 DEF Range, IsInjective
<1>4. QED BY <1>1, <1>2, <1>3 DEF n, Range

\* A new number at the end of QEMU's list of ports.
LEMMA AppendedId ==
  ASSUME NEW s \in Seq(Ids), IsInjective(s), NEW x \in Ids, x \notin Range(s)
  PROVE  /\ Append(s, x) \in Seq(Ids) /\ IsInjective(Append(s, x))
         /\ Range(Append(s, x)) = Range(s) \cup {x}
<1>1. Append(s, x) \in Seq(Ids)
  OBVIOUS
<1>2. Range(Append(s, x)) = Range(s) \cup {x}
  BY Appended, Zenon
<1>3. IsInjective(s) /\ x \notin Range(s) => IsInjective(Append(s, x))
  BY Appended
<1>4. QED BY <1>1, <1>2, <1>3, Zenon

\* Without its k-th element, a sequence without repetition has all the others.
LEMMA Removed ==
  ASSUME NEW S, NEW s \in Seq(S), IsInjective(s), NEW k \in DOMAIN s
  PROVE  LET n == SubSeq(s, 1, k - 1) \o SubSeq(s, k + 1, Len(s))
         IN  n \in Seq(S) /\ IsInjective(n) /\ Range(n) = Range(s) \ {s[k]}
<1> DEFINE l == Len(s)
           a == SubSeq(s, 1, k - 1)
           b == SubSeq(s, k + 1, Len(s))
           n == a \o b
<1>1. l \in Nat /\ k \in 1 .. l /\ DOMAIN s = 1 .. l
  OBVIOUS
<1>2. a \in Seq(S) /\ Len(a) = k - 1 /\ \A i \in 1 .. k - 1 : a[i] = s[i]
  BY <1>1
<1>3. b \in Seq(S) /\ Len(b) = l - k /\ \A i \in 1 .. l - k : b[i] = s[k + i]
  BY <1>1
<1> HIDE DEF a, b
<1>4. n \in Seq(S) /\ Len(n) = l - 1 /\ DOMAIN n = 1 .. l - 1
  <2>1. n \in Seq(S) /\ Len(n) = Len(a) + Len(b)
    <3>1. a \in Seq(S) /\ b \in Seq(S)
      BY <1>2, <1>3, Zenon
    <3>2. QED BY <3>1
  <2>2. Len(a) + Len(b) = l - 1
    BY <1>1, <1>2, <1>3
  <2> HIDE DEF n, l
  <2>3. QED BY <1>1, <2>1, <2>2
<1> DEFINE o(i) == IF i < k THEN i ELSE i + 1
<1>5. \A i \in 1 .. l - 1 : n[i] = s[o(i)]
  <2> TAKE i \in 1 .. l - 1
  <2>1. CASE i >= k
    <3>1. n[i] = b[i - (k - 1)] /\ i - (k - 1) \in 1 .. l - k
      BY <1>1, <1>2, <1>3, <2>1
    <3>2. k + (i - (k - 1)) = i + 1
      BY <1>1
    <3>3. n[i] = s[i + 1]
      BY <1>3, <3>1, <3>2, Zenon
    <3>4. QED BY <1>1, <2>1, <3>3
  <2>2. QED BY <1>1, <1>2, <1>3, <2>1
<1> HIDE DEF n
<1>6. /\ \A i \in 1 .. l - 1 : o(i) \in 1 .. l /\ o(i) # k
      /\ \A i, j \in 1 .. l - 1 : o(i) = o(j) => i = j
      /\ \A j \in 1 .. l : j # k => \E i \in 1 .. l - 1 : o(i) = j
  <2> HIDE DEF l
  <2>1. \A i \in 1 .. l - 1 : o(i) \in 1 .. l /\ o(i) # k
    BY <1>1
  <2>2. \A i, j \in 1 .. l - 1 : o(i) = o(j) => i = j
    BY <1>1
  <2>3. ASSUME NEW j \in 1 .. l, j # k PROVE \E i \in 1 .. l - 1 : o(i) = j
    <3>1. CASE j < k
      <4>1. j \in 1 .. l - 1 /\ o(j) = j
        BY <1>1, <3>1
      <4>2. QED BY <4>1, Zenon
    <3>2. CASE j > k
      <4>1. j - 1 \in 1 .. l - 1 /\ o(j - 1) = j
        BY <1>1, <3>2
      <4>2. QED BY <4>1, Zenon
    <3>3. QED BY <1>1, <2>3, <3>1, <3>2
  <2>4. QED BY <2>1, <2>2, <2>3, Zenon
<1> HIDE DEF o
<1>7. IsInjective(n)
  BY <1>1, <1>4, <1>5, <1>6, Zenon DEF IsInjective
<1>8. Range(n) \subseteq Range(s) \ {s[k]}
  <2>1. ASSUME NEW i \in 1 .. l - 1 PROVE n[i] \in Range(s) /\ n[i] # s[k]
    <3>1. o(i) \in DOMAIN s /\ o(i) # k /\ n[i] = s[o(i)]
      BY <1>1, <1>5, <1>6, Zenon
    <3>2. QED BY <3>1, Zenon DEF IsInjective, Range
  <2>2. QED BY <1>4, <2>1, Zenon DEF Range
<1>9. ASSUME NEW j \in 1 .. l, s[j] # s[k] PROVE s[j] \in Range(n)
  <2>1. PICK i \in 1 .. l - 1 : o(i) = j
    BY <1>6, <1>9, Zenon
  <2>2. QED BY <1>4, <1>5, <2>1, Zenon DEF Range
<1>10. Range(s) \ {s[k]} \subseteq Range(n)
  BY <1>1, <1>9, Zenon DEF Range
<1>11. QED BY <1>4, <1>7, <1>8, <1>10, Zenon DEF n, a, b

\* What Plug and Unplug do to the list.
LEMMA PlugHost ==
  ASSUME HostInv, NEW nr \in Ids \cup {BAD_ID}, Plug(nr)
  PROVE  /\ HostCore'
         /\ \E id \in Ids : /\ id \notin Range(hports) /\ Range(hports') = Range(hports) \cup {id}
                            /\ known' = known \cup {id}
                            /\ reused' = IF id \in known THEN reused \cup {id} ELSE reused
                            /\ guest_connected' = [guest_connected EXCEPT ![id] = FALSE]
                            /\ SendControl(<<Msg("ADD", id, TRUE)>>)
<1> DEFINE i0 == IF nr = BAD_ID THEN find_free_port_id ELSE nr
<1> PICK id : id = i0
  BY Zenon
<1>1. /\ id \in Ids /\ hports' = Append(hports, id) /\ ports_map' = ports_map \cup {id}
      /\ host_connected' = [host_connected EXCEPT ![id] = FALSE]
      /\ guest_connected' = [guest_connected EXCEPT ![id] = FALSE]
      /\ cfd' = [cfd EXCEPT ![id] = FALSE] /\ hdead' = hdead
      /\ known' = known \cup {id}
      /\ reused' = IF id \in known THEN reused \cup {id} ELSE reused
      /\ SendControl(<<Msg("ADD", id, TRUE)>>)
      /\ nr \notin Range(hports)
  BY Zenon DEF Plug
<1>2. id \notin Range(hports)
  BY <1>1, Zenon DEF HostInv, HostCore
<1> HIDE DEF i0
<1>3. hports' \in Seq(Ids) /\ Range(hports') = Range(hports) \cup {id} /\ IsInjective(hports')
  <2>1. hports \in Seq(Ids) /\ IsInjective(hports)
    BY Zenon DEF HostInv, HostCore
  <2>2. QED BY <1>1, <1>2, <2>1, AppendedId, Zenon
<1>4. HostCore'
  BY <1>1, <1>3, Zenon DEF HostInv, HostCore
<1>5. QED BY <1>1, <1>2, <1>3, <1>4, Zenon

LEMMA UnplugHost ==
  ASSUME HostInv, NEW id \in Ids, Unplug(id)
  PROVE  /\ HostCore' /\ id \in Range(hports) /\ Range(hports') = Range(hports) \ {id}
         /\ UNCHANGED <<known, reused, guest_connected>>
         /\ SendControl(<<Msg("REMOVE", id, TRUE)>>)
<1>1. PICK k \in DOMAIN hports :
        /\ hports[k] = id
        /\ hports' = SubSeq(hports, 1, k - 1) \o SubSeq(hports, k + 1, Len(hports))
  BY Zenon DEF Unplug
<1>2. id \in Range(hports)
  BY <1>1, Zenon DEF Range
<1>3. hports' \in Seq(Ids) /\ IsInjective(hports') /\ Range(hports') = Range(hports) \ {id}
  BY <1>1, Removed, Zenon DEF HostInv, HostCore
<1>4. /\ ports_map' = ports_map \ {id}
      /\ UNCHANGED <<host_connected, guest_connected, cfd, hdead, known, reused>>
      /\ SendControl(<<Msg("REMOVE", id, TRUE)>>)
  BY Zenon DEF Unplug
<1>5. id # 0
  BY DEF Ids
<1>6. ports_map' = {0} \cup Range(hports')
  BY <1>3, <1>4, <1>5, Zenon DEF HostInv, HostCore
<1>7. QED BY <1>2, <1>3, <1>4, <1>6, Zenon DEF HostInv, HostCore

----------------------------------------------------------------------------
(* The control queues.                                                     *)

\* The message at the head of c_ovq.
LEMMA HeadReply ==
  ASSUME CovInv, covq # <<>>
  PROVE  /\ Head(covq) \in Reply /\ Head(covq).value \in BOOLEAN /\ Head(covq).id \in Ids \cup {BAD_ID}
         /\ Head(covq) = covq[1] /\ 1 \in DOMAIN covq
         /\ Tail(covq) \in Seq(Reply) /\ Len(Tail(covq)) = Len(covq) - 1
         /\ \A k \in DOMAIN Tail(covq) : k + 1 \in DOMAIN covq /\ Tail(covq)[k] = covq[k + 1]
         /\ QueuesUp
<1>1. /\ Head(covq) \in Reply /\ Head(covq) = covq[1] /\ 1 \in DOMAIN covq
      /\ Tail(covq) \in Seq(Reply) /\ Len(Tail(covq)) = Len(covq) - 1
      /\ \A k \in DOMAIN Tail(covq) : k + 1 \in DOMAIN covq /\ Tail(covq)[k] = covq[k + 1]
  BY DEF CovInv
<1>2. QED BY <1>1, Zenon DEF Reply, CovInv, QueuesUp

\* send_control_event puts what fits at the end.
LEMMA SendControlStep ==
  ASSUME CtlInv, missed \in BOOLEAN, NEW s \in Seq(Message), SendControl(s), taken' = taken
  PROVE  /\ CtlInv' /\ missed' \in BOOLEAN
         /\ \A k \in DOMAIN ctl' : \/ k \in DOMAIN ctl /\ ctl'[k] = ctl[k]
                                   \/ \E j \in DOMAIN s : ctl'[k] = s[j]
<1>1. CASE QueuesUp
  <2> DEFINE n == IF Len(s) < Posted THEN Len(s) ELSE Posted
             c == SubSeq(s, 1, n)
  <2>1. ctl' = ctl \o c /\ missed' \in BOOLEAN
    BY <1>1, Zenon DEF SendControl
  <2>2. Len(s) \in Nat /\ Len(ctl) \in Nat /\ Posted \in Nat /\ ctl \in Seq(Message)
    BY SizesPositive DEF CtlInv, Posted
  <2>3. n \in 0 .. Len(s) /\ n <= Posted
    BY <2>2
  <2> HIDE DEF n
  <2>4. c \in Seq(Message) /\ Len(c) = n /\ \A i \in 1 .. n : c[i] = s[i] /\ i \in DOMAIN s
    BY <2>2, <2>3
  <2> HIDE DEF c
  <2>5. ctl' \in Seq(Message) /\ Len(ctl') = Len(ctl) + n
    <3>1. c \in Seq(Message) /\ ctl \in Seq(Message)
      BY <2>2, <2>4, Zenon
    <3>2. ctl \o c \in Seq(Message) /\ Len(ctl \o c) = Len(ctl) + Len(c)
      BY <3>1
    <3>3. QED BY <2>1, <2>4, <3>2, Zenon
  <2>6. QED BY <2>1, <2>2, <2>3, <2>4, <2>5, SizesPositive DEF CtlInv, Posted
<1>2. QED BY <1>1, Zenon DEF SendControl, CtlInv, Posted

\* Who spins.
Spinning(o, c, d) == {t \in Tasks : o[t] \in {"openSent", "closeSent"}}
                     \cup (IF c = "sent" THEN {"work"} ELSE {})
                     \cup (IF d = "announced" THEN {"probe"} ELSE {})

LEMMA CtlTaken ==
  ASSUME CtlInv, ctl # <<>>, ctl' = Tail(ctl), taken' = Head(ctl)
  PROVE  CtlInv' /\ \A k \in DOMAIN ctl' : k + 1 \in DOMAIN ctl /\ ctl'[k] = ctl[k + 1]
  BY SizesPositive DEF CtlInv, Posted

\* The messages of handle_control_message of QEMU.
LEMMA ReadyMessages ==
  ASSUME HostInv
  PROVE  LET s == [k \in DOMAIN hports |-> Msg("ADD", hports[k], TRUE)]
         IN  s \in Seq(Message) /\ \A k \in DOMAIN s : s[k].event = "ADD"
<1> DEFINE s == [k \in DOMAIN hports |-> Msg("ADD", hports[k], TRUE)]
           n == Len(hports)
<1>1. n \in Nat /\ DOMAIN hports = 1 .. n /\ \A k \in 1 .. n : hports[k] \in Ids
  BY DEF HostInv, HostCore
<1> HIDE DEF n
<1>2. s \in [1 .. n -> Message]
  BY <1>1, Zenon DEF Message, Msg
<1>3. \A k \in 1 .. n : s[k].event = "ADD"
  BY <1>1, Zenon DEF Msg
<1> HIDE DEF s
<1>4. s \in Seq(Message) /\ DOMAIN s = 1 .. n
  BY <1>1, <1>2
<1>5. QED BY <1>3, <1>4, Zenon DEF s

LEMMA NameMessages ==
  ASSUME NEW id \in Ids, NEW b \in BOOLEAN
  PROVE  LET s == <<Msg("NAME", id, TRUE)>> \o IF b THEN <<Msg("OPEN", id, TRUE)>> ELSE <<>>
         IN  s \in Seq(Message) /\ \A k \in DOMAIN s : s[k].event \in {"NAME", "OPEN"}
<1> DEFINE a == Msg("NAME", id, TRUE)
           c == Msg("OPEN", id, TRUE)
<1>1. a \in Message /\ c \in Message /\ a.event = "NAME" /\ c.event = "OPEN"
  BY Zenon DEF Msg, Message
<1> HIDE DEF a, c
<1> DEFINE s == <<a>> \o IF b THEN <<c>> ELSE <<>>
<1>2. CASE b
  <2> DEFINE x == <<a>>
             y == <<c>>
  <2>1. /\ x \in Seq(Message) /\ Len(x) = 1 /\ x[1] = a
        /\ y \in Seq(Message) /\ Len(y) = 1 /\ y[1] = c /\ s = x \o y
    BY <1>1, <1>2
  <2> HIDE DEF s, x, y
  <2>2. s \in Seq(Message) /\ \A k \in DOMAIN s : s[k] \in {a, c}
    <3>1. x \in Seq(Message) /\ y \in Seq(Message)
      BY <2>1, Zenon
    <3>2. /\ x \o y \in Seq(Message) /\ Len(x \o y) = Len(x) + Len(y)
          /\ \A k \in 1 .. Len(x) + Len(y) : (x \o y)[k] = IF k <= Len(x) THEN x[k] ELSE y[k - Len(x)]
      BY <3>1
    <3>3. QED BY <2>1, <3>2
  <2>3. QED BY <1>1, <2>2, Zenon DEF s, a, c
<1>3. CASE ~b
  <2>1. s = <<a>>
    BY <1>1, <1>3
  <2> HIDE DEF s
  <2>2. s \in Seq(Message) /\ \A k \in DOMAIN s : s[k] \in {a, c}
    BY <1>1, <2>1
  <2>3. QED BY <1>1, <2>2, Zenon DEF s, a, c
<1>4. QED BY <1>2, <1>3, Zenon

\* What QEMU answers is not a removal.
LEMMA ControlSends ==
  ASSUME HostInv, HostControl
  PROVE  \/ UNCHANGED <<ctl, missed>>
         \/ \E s \in Seq(Message) : SendControl(s) /\ \A k \in DOMAIN s : s[k].event # "REMOVE"
<1>1. CASE HandleDeviceReady
  <2> DEFINE s == [k \in DOMAIN hports |-> Msg("ADD", hports[k], TRUE)]
  <2>1. SendControl(s)
    BY <1>1, Zenon DEF HandleDeviceReady
  <2>2. s \in Seq(Message) /\ \A k \in DOMAIN s : s[k].event = "ADD"
    BY ReadyMessages, Zenon
  <2> HIDE DEF s
  <2>3. QED BY <2>1, <2>2, Zenon
<1>2. CASE HandlePortReady
  <2> PICK id : id = Head(covq).id
    BY Zenon
  <2>1. CASE Head(covq).value /\ id \in Range(hports)
    <3> DEFINE b == host_connected[id]
               s == <<Msg("NAME", id, TRUE)>> \o IF b THEN <<Msg("OPEN", id, TRUE)>> ELSE <<>>
    <3>1. id \in Ids
      BY <2>1, Zenon DEF HostInv, HostCore
    <3>2. b \in BOOLEAN
      BY <3>1, Zenon DEF HostInv, HostCore
    <3>3. SendControl(s)
      BY <1>2, <2>1, Zenon DEF HandlePortReady
    <3> HIDE DEF b
    <3>4. s \in Seq(Message) /\ \A k \in DOMAIN s : s[k].event \in {"NAME", "OPEN"}
      BY <3>1, <3>2, NameMessages, Zenon
    <3> HIDE DEF s
    <3>5. QED BY <3>3, <3>4, Zenon
  <2>2. QED BY <1>2, <2>1, Zenon DEF HandlePortReady
<1>3. QED BY <1>1, <1>2, Zenon DEF HostControl, HandlePortOpen

----------------------------------------------------------------------------
(* What QEMU has removed.                                                  *)

\* The same of the next state.
LEMMA PortLiveNext ==
  ASSUME LifeInv', NEW p \in Mem, p \in ports' \/ p = cport' \/ Holders(p)' # {}
  PROVE  port'[p] \in PortShape
  BY Zenon DEF LifeInv, LifeCore, Live

LEMMA HolderLiveNext ==
  ASSUME LifeInv', NEW t \in Tasks, opc'[t] \notin {"none", "found", "crashed"}
  PROVE  filp'[t] \in Mem /\ port'[filp'[t]] \in PortShape
  BY PortLiveNext, Zenon DEF LifeInv, LifeCore, LifeTypes, Holders

\* What was removed stays removed.
LEMMA GoneStable ==
  ASSUME HostInv, Next
  PROVE  GoneIds \subseteq GoneIds'
<1> USE DEF qemu
<1>1. CASE \E nr \in Ids \cup {BAD_ID} : Plug(nr)
  <2>1. PICK i \in Ids : /\ Range(hports') = Range(hports) \cup {i} /\ known' = known \cup {i}
                         /\ reused' = IF i \in known THEN reused \cup {i} ELSE reused
    BY <1>1, PlugHost, Zenon
  <2>2. QED BY <2>1, Zenon DEF GoneIds
<1>2. CASE \E i \in Ids : Unplug(i)
  BY <1>2, UnplugHost, Zenon DEF GoneIds
<1>3. ASSUME HostControl \/ \E i \in Ids : \E v \in BOOLEAN : HostConnect(i, v)
      PROVE  UNCHANGED <<hports, known, reused>>
  BY <1>3, Zenon DEF HostControl, HandleDeviceReady, HandlePortReady, HandlePortOpen,
       PopControl, HostConnect
<1>4. ASSUME WorkNext PROVE UNCHANGED <<hports, known, reused>>
  BY <1>4, Zenon DEF WorkNext, CtlDrop, CtlAddKnown, CtlAddFails, CtlAddList, CtlSend, CtlSent,
       CtlOpen, CtlName, CtlNameFails, CtlRequeue, CtlAdd, CtlRemove, UnplugDisconnect,
       UnplugDetach, UnplugPut, TakeControl
<1>5. ASSUME Probe \/ ProbeNext \/ RemoveStart \/ RemoveNext PROVE UNCHANGED <<hports, known, reused>>
  BY <1>5, Zenon DEF Probe, ProbeNext, ProbeList, ProbeAnnounce, ProbeReturn, RemoveStart,
       RemoveNext, RemoveReset, RemoveCancel, RemovePort, RemoveDone
<1>6. ASSUME \E t \in Tasks : TaskNext(t) PROVE UNCHANGED <<hports, known, reused>>
  BY <1>6, Zenon DEF TaskNext, OpenNext, ReleaseNext, OpenFind, OpenRef, OpenConnect,
       OpenNotify, ReleaseNotify, Notify, OpenReturn, ReleaseNotified, Notified,
       ReleaseDisconnect, ReleasePut
<1>7. QED BY <1>1, <1>2, <1>3, <1>4, <1>5, <1>6, Zenon DEF Next, HostNext, GoneIds

\* What a step of a task leaves alone.
LEMMA TaskFrame ==
  ASSUME LifeInv, NEW t \in Tasks, TaskNext(t)
  PROVE  /\ UNCHANGED <<hports, known, reused, guest_connected, garbled, ctl, taken, drv, ports, cpc, cport>>
         /\ \A u \in Tasks : u # t => opc'[u] = opc[u] /\ filp'[u] = filp[u]
         /\ \A q \in Mem : \/ port'[q] = Free
                           \/ /\ port'[q].id = port[q].id /\ port'[q].portdev = port[q].portdev
                              /\ port'[q].guest = port[q].guest \/ (q = filp[t] /\ opc[t] \in {"held", "close"})
<1> USE DEF qemu, work, queues, files
<1>1. UNCHANGED <<hports, known, reused, guest_connected, garbled, ctl, taken, drv, ports, cpc, cport>>
  BY Zenon DEF TaskNext, OpenNext, ReleaseNext, OpenFind, OpenRef, OpenConnect, OpenNotify,
       ReleaseNotify, Notify, OpenReturn, ReleaseNotified, Notified, ReleaseDisconnect,
       ReleasePut
<1>2. \A u \in Tasks : u # t => opc'[u] = opc[u] /\ filp'[u] = filp[u]
  BY Zenon DEF TaskNext, OpenNext, ReleaseNext, OpenFind, OpenRef, OpenConnect, OpenNotify,
       ReleaseNotify, Notify, OpenReturn, ReleaseNotified, Notified, ReleaseDisconnect,
       ReleasePut, Goto, LifeInv, LifeCore, LifeTypes
<1>3. \A q \in Mem : \/ port'[q] = Free
                     \/ /\ port'[q].id = port[q].id /\ port'[q].portdev = port[q].portdev
                        /\ port'[q].guest = port[q].guest \/ (q = filp[t] /\ opc[t] \in {"held", "close"})
  <2>1. CASE opc[t] \in {"held", "close"}
             /\ \E b \in BOOLEAN : port' = [port EXCEPT ![filp[t]].guest = b]
    BY <2>1, HolderLive DEF LifeInv, LifeCore, LifeTypes, PortShape
  <2>2. ASSUME ~OpenRef(t)
        PROVE  \/ port' = port
               \/ opc[t] \notin {"none", "found", "crashed"} /\ kref_put(filp[t])
               \/ /\ opc[t] \in {"held", "close"}
                  /\ \E b \in BOOLEAN : port' = [port EXCEPT ![filp[t]].guest = b]
    BY <2>2, Zenon DEF TaskNext, OpenNext, ReleaseNext, OpenFind, OpenConnect, OpenNotify,
         ReleaseNotify, Notify, OpenReturn, ReleaseNotified, Notified, ReleaseDisconnect,
         ReleasePut
  <2>3. QED BY <2>1, <2>2, FreeFields, HolderLive DEF OpenRef, LifeInv, LifeCore, LifeTypes,
                 PortShape, kref_put
<1>4. QED BY <1>1, <1>2, <1>3, Zenon

\* What a step of the work does to a struct port: it frees it, creates it,
\* detaches or disconnects the one it is unplugging, or changes what nobody
\* here asks for.
Kept(q) ==
    \/ port'[q] = Free
    \/ port[q] = Free /\ port'[q].portdev
    \/ /\ port[q] # Free /\ port'[q].id = port[q].id
       /\ port'[q].portdev = port[q].portdev \/ (q = cport /\ cpc = "detach" /\ ~port'[q].portdev)
       /\ port'[q].guest = port[q].guest \/ (q = cport /\ q = cport' /\ cpc' = "detach")

LEMMA WorkFrame ==
  ASSUME LifeInv, QueueInv, WorkNext
  PROVE  /\ UNCHANGED <<hports, known, reused, guest_connected, garbled, opc, filp, drv>>
         /\ \A q \in Mem : Kept(q)
<1> USE DEF qemu, queues, files
<1>1. UNCHANGED <<hports, known, reused, guest_connected, garbled, opc, filp, drv>>
  BY Zenon DEF WorkNext, CtlDrop, CtlAddKnown, CtlAddFails, CtlAddList, CtlSend, CtlSent,
       CtlOpen, CtlName, CtlNameFails, CtlRequeue, CtlAdd, CtlRemove, UnplugDisconnect,
       UnplugDetach, UnplugPut, TakeControl
<1> SUFFICES \A q \in Mem : Kept(q)
  BY <1>1, Zenon
<1>2. port \in [Mem -> PortShape \cup {Free}]
  BY Zenon DEF LifeInv, LifeCore, LifeTypes
<1>3. CASE port' = port
  BY <1>2, <1>3, Zenon DEF Kept
<1>4. CASE \E p \in Mem : CtlAdd(p)
  <2>1. PICK p \in Mem : CtlAdd(p)
    BY <1>4, Zenon
  <2>2. port[p] = Free /\ port'[p].portdev /\ \A q \in Mem : q # p => port'[q] = port[q]
    BY <1>2, <2>1, Zenon DEF CtlAdd, heap
  <2>3. QED BY <2>2, Zenon DEF Kept
<1>5. CASE CtlOpen \/ CtlName
  BY <1>2, <1>5, ListedLive, FreeFields DEF CtlOpen, CtlName, ById, PortShape, Kept
<1>6. CASE UnplugDisconnect
  <2>1. cpc = "disconnect" /\ cport' = cport /\ cpc' = "detach"
    BY <1>6, Zenon DEF UnplugDisconnect, WorkGoto
  <2>2. cport \in Mem /\ port[cport] \in PortShape
    BY <2>1, HandLive, Zenon DEF Hands
  <2>3. /\ port'[cport].id = port[cport].id /\ port'[cport].portdev = port[cport].portdev
        /\ \A q \in Mem : q # cport => port'[q] = port[q]
    BY <1>2, <1>6, <2>2, Zenon DEF UnplugDisconnect, PortShape
  <2>4. QED BY <2>1, <2>2, <2>3, FreeFields, Zenon DEF Kept
<1>7. CASE UnplugDetach
  <2>1. cpc = "detach" /\ port' = [port EXCEPT ![cport].portdev = FALSE]
    BY <1>7, Zenon DEF UnplugDetach
  <2>2. cport \in Mem /\ port[cport] \in PortShape
    BY <2>1, HandLive, Zenon DEF Hands
  <2>3. /\ port'[cport].id = port[cport].id /\ ~port'[cport].portdev
        /\ port'[cport].guest = port[cport].guest
        /\ \A q \in Mem : q # cport => port'[q] = port[q]
    BY <1>2, <2>1, <2>2, Zenon DEF PortShape
  <2>4. QED BY <2>1, <2>2, <2>3, FreeFields, Zenon DEF Kept
<1>8. CASE UnplugPut
  BY <1>2, <1>8, HandLive, FreeFields, Zenon DEF UnplugPut, Hands, PortShape, kref_put, Kept
<1>9. QED BY <1>3, <1>4, <1>5, <1>6, <1>7, <1>8, Zenon
          DEF WorkNext, CtlDrop, CtlAddKnown, CtlAddFails, CtlAddList, CtlSend, CtlSent,
              CtlNameFails, CtlRequeue, CtlRemove, UnplugList

Unplugging == {"disconnect", "detach", "put"}

LEMMA RemovedKeep ==
  ASSUME RemovedInv, GoneIds \subseteq GoneIds',
         \A k \in DOMAIN ctl' : ctl'[k].event = "REMOVE" =>
             ctl'[k].id \in GoneIds' \/ \E j \in DOMAIN ctl : ctl'[k] = ctl[j],
         cpc' \in Unplugging /\ drv' # "unplug"
         => \/ port'[cport'].id \in GoneIds'
            \/ /\ cpc \in Unplugging /\ drv # "unplug"
               /\ cport' = cport /\ port'[cport].id = port[cport].id
  PROVE  RemovedInv'
  BY Zenon DEF RemovedInv, Gone, Unplugging

LEMMA SendOne ==
  ASSUME QueueInv, NEW m \in Message, SendControl(<<m>>), taken' = taken
  PROVE  \A k \in DOMAIN ctl' : ctl'[k] = m \/ \E j \in DOMAIN ctl : ctl'[k] = ctl[j]
<1> DEFINE s == <<m>>
<1>1. s \in Seq(Message) /\ \A j \in DOMAIN s : s[j] = m
  OBVIOUS
<1>2. SendControl(s)
  BY Zenon
<1> HIDE DEF s
<1>3. QED BY <1>1, <1>2, SendControlStep, Zenon DEF QueueInv

LEMMA RemovedNext ==
  ASSUME HostInv, QueueInv, LifeInv, RemovedInv, Next, LifeInv', GoneIds \subseteq GoneIds'
  PROVE  RemovedInv'
<1> USE DEF qemu, queues, work, files
<1>1. CASE \E nr \in Ids \cup {BAD_ID} : Plug(nr)
  <2>1. PICK id \in Ids : SendControl(<<Msg("ADD", id, TRUE)>>)
    BY <1>1, PlugHost, Zenon
  <2>2. UNCHANGED <<taken, cpc, cport, drv, port>>
    BY <1>1, Zenon DEF Plug
  <2>3. Msg("ADD", id, TRUE) \in Message /\ Msg("ADD", id, TRUE).event = "ADD"
    BY Zenon DEF Msg, Message
  <2>4. \A k \in DOMAIN ctl' : ctl'[k].event = "REMOVE" => \E j \in DOMAIN ctl : ctl'[k] = ctl[j]
    BY <2>1, <2>2, <2>3, SendOne, Zenon
  <2>5. QED BY <2>2, <2>4, RemovedKeep, Zenon
<1>2. CASE \E id \in Ids : Unplug(id)
  <2>1. PICK id \in Ids : Unplug(id)
    BY <1>2, Zenon
  <2>2. UNCHANGED <<taken, cpc, cport, drv, port>>
    BY <2>1, Zenon DEF Unplug
  <2>3. id \in GoneIds' /\ SendControl(<<Msg("REMOVE", id, TRUE)>>)
    BY <2>1, UnplugHost, Zenon DEF GoneIds, HostInv, HostCore
  <2>4. Msg("REMOVE", id, TRUE) \in Message /\ Msg("REMOVE", id, TRUE).id = id
    BY Zenon DEF Msg, Message
  <2>5. \A k \in DOMAIN ctl' : \/ ctl'[k].id = id
                               \/ \E j \in DOMAIN ctl : ctl'[k] = ctl[j]
    BY <2>2, <2>3, <2>4, SendOne, Zenon
  <2>6. QED BY <2>2, <2>3, <2>5, RemovedKeep, Zenon
<1>3. CASE \E id \in Ids : \E v \in BOOLEAN : HostConnect(id, v)
  <2>1. PICK id \in Ids, v \in BOOLEAN : HostConnect(id, v)
    BY <1>3, Zenon
  <2>2. Msg("OPEN", id, v) \in Message /\ Msg("OPEN", id, v).event = "OPEN"
    BY Zenon DEF Msg, Message
  <2>3. QED BY <2>1, <2>2, RemovedKeep, SendOne, Zenon DEF HostConnect
<1>4. CASE HostControl
  <2>1. UNCHANGED <<taken, cpc, cport, drv, port>>
    BY <1>4, Zenon DEF HostControl, HandleDeviceReady, HandlePortReady, HandlePortOpen, PopControl
  <2>2. \A k \in DOMAIN ctl' : ctl'[k].event = "REMOVE" => \E j \in DOMAIN ctl : ctl'[k] = ctl[j]
    <3>1. CASE ctl' = ctl
      BY <3>1, Zenon
    <3>2. CASE \E s \in Seq(Message) : SendControl(s) /\ \A k \in DOMAIN s : s[k].event # "REMOVE"
      <4>1. PICK s \in Seq(Message) : SendControl(s) /\ \A k \in DOMAIN s : s[k].event # "REMOVE"
        BY <3>2, Zenon
      <4>2. \A k \in DOMAIN ctl' : \/ k \in DOMAIN ctl /\ ctl'[k] = ctl[k]
                                   \/ \E j \in DOMAIN s : ctl'[k] = s[j]
        BY <2>1, <4>1, SendControlStep, Zenon DEF QueueInv
      <4>3. QED BY <4>1, <4>2, Zenon
    <3>3. QED BY <1>4, <3>1, <3>2, ControlSends, Zenon
  <2>3. QED BY <2>1, <2>2, RemovedKeep, Zenon
<1>5. CASE WorkNext
  <2>1. \A k \in DOMAIN ctl' : \E j \in DOMAIN ctl : ctl'[k] = ctl[j]
    <3>1. ctl' = ctl \/ \E e : TakeControl(e)
      BY <1>5, Zenon DEF WorkNext, CtlDrop, CtlAddKnown, CtlAddFails, CtlAddList, CtlSend,
           CtlSent, CtlOpen, CtlName, CtlNameFails, CtlRequeue, CtlAdd, CtlRemove,
           UnplugDisconnect, UnplugDetach, UnplugPut
    <3>2. QED BY <3>1, CtlTaken, Zenon DEF TakeControl, QueueInv
  <2>2. CASE \E p \in Mem : CtlRemove(p)
    <3>1. PICK p \in Mem : CtlRemove(p)
      BY <2>2, Zenon
    <3>2. /\ cport' = p /\ port' = port /\ port[p].id = Head(ctl).id
          /\ Head(ctl).event = "REMOVE" /\ ctl # <<>>
      BY <3>1, Zenon DEF CtlRemove, UnplugList, ById, TakeControl
    <3>3. Head(ctl) = ctl[1] /\ 1 \in DOMAIN ctl
      BY <3>2 DEF QueueInv, CtlInv
    <3>4. port'[cport'].id \in GoneIds'
      BY <3>2, <3>3, Zenon DEF RemovedInv, Gone
    <3>5. QED BY <2>1, <3>4, RemovedKeep, Zenon
  <2>3. CASE UnplugDisconnect \/ UnplugDetach
    BY <1>5, <2>1, <2>3, HandLive, PortLiveNext, FreeFields, RemovedKeep, WorkFrame, Zenon DEF
          UnplugDisconnect, UnplugDetach, WorkGoto, Unplugging, Hands, Kept
  <2>4. CASE cpc' \notin Unplugging
    BY <2>1, <2>4, RemovedKeep, Zenon
  <2>5. QED BY <1>5, <2>2, <2>3, <2>4, Zenon DEF WorkNext, CtlDrop, CtlAddKnown, CtlAddFails,
                 CtlAddList, CtlSend, CtlSent, CtlOpen, CtlName, CtlNameFails, CtlRequeue,
                 CtlAdd, UnplugPut, WorkGoto, After, Unplugging
<1>6. CASE Probe \/ ProbeNext \/ RemoveStart \/ RemoveReset
  <2>1. UNCHANGED <<ctl, cpc, cport, port>> /\ drv # "unplug" /\ drv' # "unplug"
    BY <1>6, Zenon DEF Probe, ProbeNext, ProbeList, ProbeAnnounce, ProbeReturn, RemoveStart,
         RemoveReset
  <2>2. QED BY <2>1, RemovedKeep, Zenon
<1>7. CASE \E t \in Tasks : TaskNext(t)
  BY <1>7, TaskFrame, HandLive, PortLiveNext, FreeFields, RemovedKeep DEF Unplugging, Hands
<1>8. QED BY <1>1, <1>2, <1>3, <1>4, <1>5, <1>6, <1>7, RemovedKeep DEF Next, HostNext, RemoveNext,
               RemoveCancel, RemovePort, RemoveDone, Unplugging

----------------------------------------------------------------------------
(* One task at a time is connected to a port.                              *)

LEMMA ConnectKeep ==
  ASSUME LifeInv, ConnectInv,
         \A t \in Tasks : opc'[t] \in Connected => opc[t] \in Connected /\ filp'[t] = filp[t],
         \A p \in heap : /\ Detached(p) => Detached(p)'
                         /\ port[p].guest => port'[p].guest \/ Detached(p)'
  PROVE  ConnectInv'
  BY HolderLive, FreeFields DEF ConnectInv, heap, Connected, Detached

LEMMA ConnectWork ==
  ASSUME QueueInv, LifeInv, ConnectInv, GoneIds \subseteq GoneIds', WorkNext
  PROVE  ConnectInv'
<1>1. UNCHANGED <<opc, filp>> /\ \A q \in Mem : Kept(q)
  BY WorkFrame, Zenon
<1>2. ASSUME NEW p \in heap PROVE Detached(p) => Detached(p)'
  <2>1. p \in Mem /\ port[p] # Free
    BY Zenon DEF heap
  <2>2. CASE p = cport /\ cpc = "detach"
    <3>1. UnplugDetach
      BY <2>2, Zenon DEF WorkNext, CtlDrop, CtlAddKnown, CtlAddFails, CtlAddList, CtlSend,
           CtlSent, CtlOpen, CtlName, CtlNameFails, CtlRequeue, CtlAdd, CtlRemove,
           UnplugDisconnect, UnplugPut, TakeControl
    <3>2. QED BY <2>1, <2>2, <3>1, Zenon DEF Detached, LifeInv, LifeCore, LifeTypes, PortShape,
                   UnplugDetach
  <2>3. QED BY <1>1, <2>1, <2>2, FreeFields, Zenon DEF Detached, Kept, Gone
<1>3. ASSUME NEW p \in heap, port[p].guest PROVE port'[p].guest \/ Detached(p)'
  BY <1>1, <1>3, FreeFields, Zenon DEF heap, Detached, Kept
<1>4. QED BY <1>1, <1>2, <1>3, ConnectKeep, Zenon

LEMMA ConnectTask ==
  ASSUME LifeInv, ConnectInv, GoneIds \subseteq GoneIds', NEW t \in Tasks, TaskNext(t)
  PROVE  ConnectInv'
<1>1. /\ UNCHANGED <<cpc, cport>>
      /\ \A u \in Tasks : u # t => opc'[u] = opc[u] /\ filp'[u] = filp[u]
      /\ \A q \in Mem : \/ port'[q] = Free
                        \/ /\ port'[q].id = port[q].id /\ port'[q].portdev = port[q].portdev
                           /\ port'[q].guest = port[q].guest \/ (q = filp[t] /\ opc[t] \in {"held", "close"})
  BY TaskFrame, Zenon
<1>2. \A p \in Mem : Detached(p) => Detached(p)'
  BY <1>1, FreeFields, Zenon DEF Detached, Gone
<1>3. heap \subseteq Mem
  BY Zenon DEF heap
<1>4. CASE opc[t] \notin {"held", "close"}
  <2>1. opc'[t] \in Connected => opc[t] \in Connected /\ filp'[t] = filp[t]
    BY <1>4, Zenon DEF TaskNext, OpenNext, ReleaseNext, OpenFind, OpenRef, OpenConnect,
         OpenNotify, ReleaseNotify, Notify, OpenReturn, ReleaseNotified, Notified,
         ReleaseDisconnect, ReleasePut, Goto, Connected, LifeInv, LifeCore, LifeTypes
  <2>2. QED BY <1>1, <1>2, <1>3, <1>4, <2>1, ConnectKeep, FreeFields, Zenon DEF Detached
<1>5. CASE opc[t] = "close"
  <2>1. ReleaseDisconnect(t)
    BY <1>5, Zenon DEF TaskNext, OpenNext, ReleaseNext, OpenFind, OpenRef, OpenConnect,
         OpenNotify, ReleaseNotify, Notify, OpenReturn, ReleaseNotified, Notified, ReleasePut
  <2> SUFFICES ASSUME NEW u \in Tasks, opc'[u] \in Connected
               PROVE  (\/ Detached(filp[u])
                       \/ /\ port[filp[u]].guest
                          /\ \A v \in Tasks : opc[v] \in Connected /\ filp[v] = filp[u] => v = u)'
    BY Zenon DEF ConnectInv
  <2>2. /\ port' = [port EXCEPT ![filp[t]].guest = FALSE] /\ filp' = filp
        /\ opc' = [opc EXCEPT ![t] = "put"] /\ DOMAIN opc = Tasks /\ DOMAIN port = Mem
    BY <2>1, Zenon DEF ReleaseDisconnect, Goto, LifeInv, LifeCore, LifeTypes
  <2>3. opc'[t] = "put" /\ opc[t] \in Connected /\ "put" \notin Connected
    BY <1>5, <2>2 DEF Connected
  <2>4. u # t /\ opc[u] \in Connected /\ filp[u] \in Mem
    <3>1. u # t /\ opc[u] \in Connected
      BY <1>1, <2>3, Zenon
    <3>2. QED BY <3>1, HolderLive, Zenon DEF Connected
  <2>5. CASE Detached(filp[u])
    BY <1>2, <2>2, <2>4, <2>5, Zenon DEF Detached
  <2>6. CASE ~Detached(filp[u])
    <3>1. /\ port[filp[u]].guest
          /\ \A v \in Tasks : opc[v] \in Connected /\ filp[v] = filp[u] => v = u
      BY <2>4, <2>6, Zenon DEF ConnectInv
    <3>2. port'[filp[u]] = port[filp[u]]
      BY <2>2, <2>3, <2>4, <3>1, Zenon
    <3>3. \A v \in Tasks : opc'[v] \in Connected => opc[v] \in Connected
      BY <1>1, <2>3, Zenon
    <3>4. QED BY <2>2, <3>1, <3>2, <3>3, Zenon
  <2>7. QED BY <2>5, <2>6, Zenon
<1>6. CASE opc[t] = "held"
  <2> PICK p : p = filp[t]
    BY Zenon
  <2>1. p \in Mem /\ port[p] \in PortShape
    BY <1>6, HolderLive, Zenon
  <2>2. OpenConnect(t)
    BY <1>6, Zenon DEF TaskNext, OpenNext, ReleaseNext, OpenFind, OpenRef, OpenNotify,
         ReleaseNotify, Notify, OpenReturn, ReleaseNotified, Notified, ReleaseDisconnect,
         ReleasePut
  <2>3. CASE ~port[p].guest
    <3>1. /\ port' = [port EXCEPT ![p].guest = TRUE] /\ filp' = filp
          /\ opc' = [opc EXCEPT ![t] = "notify"]
      BY <2>2, <2>3, Zenon DEF OpenConnect, Goto
    <3>2. port'[p].guest /\ \A q \in Mem : q # p => port'[q] = port[q]
      BY <2>1, <3>1, Zenon DEF PortShape, LifeInv, LifeCore, LifeTypes
    <3> SUFFICES ASSUME NEW u \in Tasks, opc'[u] \in Connected
                 PROVE  (\/ Detached(filp[u])
                         \/ /\ port[filp[u]].guest
                            /\ \A v \in Tasks : opc[v] \in Connected /\ filp[v] = filp[u] => v = u)'
      BY Zenon DEF ConnectInv
    <3> PICK q : q = filp[u]
      BY Zenon
    <3>3. u # t => opc[u] \in Connected
      BY <1>1, Zenon
    <3>4. q \in Mem
      BY <2>1, <3>3, HolderLive, Zenon DEF Connected
    <3>5. \A v \in Tasks : v # t /\ opc[v] \in Connected =>
             \/ Detached(filp[v])
             \/ /\ port[filp[v]].guest
                /\ \A w \in Tasks : opc[w] \in Connected /\ filp[w] = filp[v] => w = v
      BY Zenon DEF ConnectInv
    <3>6. CASE q = p
      <4>1. CASE ~\E v \in Tasks : v # t /\ opc[v] \in Connected /\ filp[v] = p
        <5>1. \A v \in Tasks : opc'[v] \in Connected /\ filp'[v] = p => v = t
          BY <1>1, <3>1, <4>1, Zenon
        <5>2. u = t
          BY <3>1, <3>6, <5>1, Zenon
        <5>3. QED BY <3>1, <3>2, <3>6, <5>1, <5>2, Zenon
      <4>2. QED BY <1>2, <2>1, <2>3, <3>1, <3>5, <3>6, <4>1, Zenon DEF Detached
    <3>7. CASE q # p
      <4>1. u # t /\ opc[u] \in Connected /\ port'[q] = port[q]
        BY <3>2, <3>3, <3>4, <3>7, Zenon
      <4>2. CASE Detached(q)
        BY <1>2, <3>1, <3>4, <4>2, Zenon DEF Detached
      <4>3. CASE ~Detached(q)
        <5>1. port[q].guest /\ \A v \in Tasks : opc[v] \in Connected /\ filp[v] = q => v = u
          BY <3>5, <4>1, <4>3, Zenon
        <5>2. \A v \in Tasks : opc'[v] \in Connected /\ filp'[v] = q => v = u
          BY <1>1, <3>1, <3>7, <5>1, Zenon
        <5>3. QED BY <3>1, <4>1, <5>1, <5>2, Zenon
      <4>4. QED BY <4>2, <4>3, Zenon
    <3>8. QED BY <3>6, <3>7, Zenon
  <2>4. QED BY <1>1, <1>2, <1>3, <2>1, <2>2, <2>3, FreeFields, ConnectKeep DEF OpenConnect, Goto,
                 Connected, LifeInv, LifeCore, LifeTypes, kref_put, PortShape, Detached
<1>7. QED BY <1>4, <1>5, <1>6, Zenon

LEMMA ConnectNext ==
  ASSUME QueueInv, LifeInv, ConnectInv, GoneIds \subseteq GoneIds', Next
  PROVE  ConnectInv'
<1> USE DEF work, files
<1>1. CASE UNCHANGED <<opc, filp, port, cpc, cport>>
  <2>1. \A p \in heap : Detached(p) => Detached(p)'
    BY <1>1, Zenon DEF Detached, Gone
  <2>2. QED BY <1>1, <2>1, ConnectKeep, Zenon
<1>2. ASSUME HostNext \/ HostControl \/ Probe \/ ProbeNext \/ RemoveStart \/ RemoveReset \/ RemoveCancel
      PROVE  UNCHANGED <<opc, filp, port, cpc, cport>>
  BY <1>2, Zenon DEF HostNext, Plug, Unplug, HostConnect, HostControl, HandleDeviceReady,
       HandlePortReady, HandlePortOpen, PopControl, Probe, ProbeNext, ProbeList, ProbeAnnounce,
       ProbeReturn, RemoveStart, RemoveReset, RemoveCancel
<1>3. QED BY <1>1, <1>2, ConnectWork, ConnectTask, ConnectKeep, Zenon
             DEF Next, RemoveNext, RemovePort, UnplugList, Detached, Gone, RemoveDone,
                 Connected

----------------------------------------------------------------------------
(* The messages of tasks.                                                  *)

Sent == {"openSent", "closeSent"}

\* MessageInv, message by message.
LastOne(q, k) == \A j \in DOMAIN q : j > k => q[j].from # q[k].from
SaysTrue(m) == m.id = port[filp[m.from]].id /\ (m.value <=> opc[m.from] = "openSent")
StillWanted(m) == \A p \in heap : port[p].id = m.id /\ ~port[p].portdev => m.id \in GoneIds

LEMMA MessageParts ==
  /\ MessageInv <=> \A k \in DOMAIN covq :
        /\ covq[k].event = "OPEN" <=> covq[k].from \in Tasks
        /\ covq[k].event = "OPEN" =>
             /\ opc[covq[k].from] \in Sent /\ LastOne(covq, k) => SaysTrue(covq[k])
             /\ StillWanted(covq[k])
  /\ MessageInv' <=> \A k \in DOMAIN covq' :
        /\ covq'[k].event = "OPEN" <=> covq'[k].from \in Tasks
        /\ covq'[k].event = "OPEN" =>
             /\ /\ opc'[covq'[k].from] \in Sent /\ LastOne(covq', k)
                => /\ covq'[k].id = port'[filp'[covq'[k].from]].id
                   /\ covq'[k].value <=> opc'[covq'[k].from] = "openSent"
             /\ \A p \in heap' : port'[p].id = covq'[k].id /\ ~port'[p].portdev
                                 => covq'[k].id \in GoneIds'
  BY TasksFinite, Zenon DEF MessageInv, Spins, Sent, LastOne, SaysTrue, StillWanted, Gone

\* Nothing is sent.
LEMMA MessageKeep ==
  ASSUME MessageInv, NEW n \in Nat,
         \A k \in DOMAIN covq' : k \in Nat /\ k + n \in DOMAIN covq /\ covq'[k] = covq[k + n],
         \A j \in DOMAIN covq : j \in Nat /\ (j > n => j - n \in DOMAIN covq'),
         \A t \in Tasks : opc'[t] \in Sent =>
             opc'[t] = opc[t] /\ filp'[t] = filp[t] /\ port'[filp[t]].id = port[filp[t]].id,
         \A k \in DOMAIN covq : \A p \in heap' :
             covq[k].event = "OPEN" /\ port'[p].id = covq[k].id /\ ~port'[p].portdev
             => covq[k].id \in GoneIds'
  PROVE  MessageInv'
<1> SUFFICES ASSUME NEW k \in DOMAIN covq'
             PROVE  /\ covq'[k].event = "OPEN" <=> covq'[k].from \in Tasks
                    /\ covq'[k].event = "OPEN" =>
                        /\ /\ opc'[covq'[k].from] \in Sent /\ LastOne(covq', k)
                           => /\ covq'[k].id = port'[filp'[covq'[k].from]].id
                              /\ covq'[k].value <=> opc'[covq'[k].from] = "openSent"
                        /\ \A p \in heap' : port'[p].id = covq'[k].id /\ ~port'[p].portdev
                                            => covq'[k].id \in GoneIds'
  BY MessageParts, Zenon
<1> PICK m : m = covq'[k]
  BY Zenon
<1>1. k + n \in DOMAIN covq /\ m = covq[k + n] /\ k \in Nat
  BY Zenon
<1>2. /\ m.event = "OPEN" <=> m.from \in Tasks
      /\ m.event = "OPEN" => (opc[m.from] \in Sent /\ LastOne(covq, k + n) => SaysTrue(m))
  BY <1>1, MessageParts
<1>3. ASSUME m.event = "OPEN", opc'[m.from] \in Sent, LastOne(covq', k)
      PROVE  m.id = port'[filp'[m.from]].id /\ (m.value <=> opc'[m.from] = "openSent")
  <2>1. LastOne(covq, k + n)
    <3> SUFFICES ASSUME NEW j \in DOMAIN covq, j > k + n, covq[j].from = m.from PROVE FALSE
      BY <1>1, Zenon DEF LastOne
    <3>1. j > n
      BY <1>1
    <3>2. j - n \in DOMAIN covq' /\ j - n > k /\ (j - n) + n = j
      BY <1>1, <3>1
    <3>3. covq'[j - n] = covq[j]
      BY <3>2, Zenon
    <3>4. QED BY <1>3, <3>2, <3>3 DEF LastOne
  <2>2. m.from \in Tasks
    BY <1>2, <1>3, Zenon
  <2>3. opc'[m.from] = opc[m.from] /\ filp'[m.from] = filp[m.from]
        /\ port'[filp[m.from]].id = port[filp[m.from]].id
    BY <1>3, <2>2, Zenon
  <2>4. SaysTrue(m)
    BY <1>2, <1>3, <2>1, <2>3, Zenon
  <2>5. QED BY <2>3, <2>4, Zenon DEF SaysTrue
<1>4. QED BY <1>1, <1>2, <1>3

\* A message is sent.
LEMMA MessageAppend ==
  ASSUME MessageInv, covq \in Seq(Reply), NEW m \in Reply, covq' = Append(covq, m),
         m.event = "OPEN" <=> m.from \in Tasks,
         m.event = "OPEN" => /\ m.id = port'[filp'[m.from]].id
                             /\ m.value <=> opc'[m.from] = "openSent"
                             /\ \A p \in heap' : port'[p].id = m.id /\ ~port'[p].portdev
                                                 => m.id \in GoneIds',
         \A t \in Tasks : opc'[t] \in Sent /\ t # m.from =>
             opc'[t] = opc[t] /\ filp'[t] = filp[t] /\ port'[filp[t]].id = port[filp[t]].id,
         \A k \in DOMAIN covq : \A p \in heap' :
             covq[k].event = "OPEN" /\ port'[p].id = covq[k].id /\ ~port'[p].portdev
             => covq[k].id \in GoneIds'
  PROVE  MessageInv'
<1> DEFINE n == Len(covq)
<1>1. /\ n \in Nat /\ DOMAIN covq = 1 .. n /\ DOMAIN covq' = 1 .. n + 1 /\ covq'[n + 1] = m
      /\ \A k \in 1 .. n : covq'[k] = covq[k]
  BY AppendedAt
<1> HIDE DEF n
<1> SUFFICES ASSUME NEW k \in DOMAIN covq'
             PROVE  /\ covq'[k].event = "OPEN" <=> covq'[k].from \in Tasks
                    /\ covq'[k].event = "OPEN" =>
                        /\ /\ opc'[covq'[k].from] \in Sent /\ LastOne(covq', k)
                           => /\ covq'[k].id = port'[filp'[covq'[k].from]].id
                              /\ covq'[k].value <=> opc'[covq'[k].from] = "openSent"
                        /\ \A p \in heap' : port'[p].id = covq'[k].id /\ ~port'[p].portdev
                                            => covq'[k].id \in GoneIds'
  BY MessageParts, Zenon
<1>2. QED BY <1>1, MessageParts DEF LastOne, SaysTrue

\* c_ovq stays as it is.
LEMMA MessageStill ==
  ASSUME MessageInv, covq \in Seq(Reply), covq' = covq,
         \A t \in Tasks : opc'[t] \in Sent =>
             opc'[t] = opc[t] /\ filp'[t] = filp[t] /\ port'[filp[t]].id = port[filp[t]].id,
         \A k \in DOMAIN covq : \A p \in heap' :
             covq[k].event = "OPEN" /\ port'[p].id = covq[k].id /\ ~port'[p].portdev
             => covq[k].id \in GoneIds'
  PROVE  MessageInv'
<1>1. \A k \in DOMAIN covq : k \in Nat /\ k + 0 = k /\ k - 0 = k
  OBVIOUS
<1>2. QED BY <1>1, MessageKeep, Zenon

\* A port that is detached, and was before.
LEMMA WantedKeep ==
  ASSUME MessageInv, GoneIds \subseteq GoneIds',
         \A p \in heap' : ~port'[p].portdev =>
             \/ p \in heap /\ port'[p].id = port[p].id /\ ~port[p].portdev
             \/ port'[p].id \in GoneIds'
  PROVE  \A k \in DOMAIN covq : \A p \in heap' :
             covq[k].event = "OPEN" /\ port'[p].id = covq[k].id /\ ~port'[p].portdev
             => covq[k].id \in GoneIds'
  BY MessageParts, Zenon DEF StillWanted

LEMMA MessageHost ==
  ASSUME QueueInv, MessageInv, GoneIds \subseteq GoneIds', HostNext \/ HostControl
  PROVE  MessageInv'
<1> USE DEF work, files
<1>1. UNCHANGED <<opc, filp, port>> /\ heap' = heap
  BY Zenon DEF HostNext, Plug, Unplug, HostConnect, HostControl, HandleDeviceReady,
       HandlePortReady, HandlePortOpen, PopControl, heap
<1>2. \A k \in DOMAIN covq : \A p \in heap' :
             covq[k].event = "OPEN" /\ port'[p].id = covq[k].id /\ ~port'[p].portdev
             => covq[k].id \in GoneIds'
  BY <1>1, WantedKeep, Zenon
<1>3. covq \in Seq(Reply)
  BY Zenon DEF QueueInv, CovInv
<1>4. CASE HostNext
  <2>1. covq' = covq
    BY <1>4, Zenon DEF HostNext, Plug, Unplug, HostConnect
  <2>2. QED BY <1>1, <1>2, <1>3, <2>1, MessageStill, Zenon
<1>5. CASE HostControl
  <2>1. covq # <<>> /\ covq' = Tail(covq)
    BY <1>5, Zenon DEF HostControl, HandleDeviceReady, HandlePortReady, HandlePortOpen, PopControl
  <2>2. /\ \A k \in DOMAIN covq' : k \in Nat /\ k + 1 \in DOMAIN covq /\ covq'[k] = covq[k + 1]
        /\ \A j \in DOMAIN covq : j \in Nat /\ (j > 1 => j - 1 \in DOMAIN covq')
    BY <1>3, <2>1
  <2>3. QED BY <1>1, <1>2, <2>2, MessageKeep, Zenon
<1>6. QED BY <1>4, <1>5, Zenon

LEMMA MessageWork ==
  ASSUME QueueInv, LifeInv, RemovedInv, MessageInv, GoneIds \subseteq GoneIds', WorkNext, LifeInv', QueueInv'
  PROVE  MessageInv'
<1> USE DEF queues
<1>1. UNCHANGED <<opc, filp, drv>> /\ \A q \in Mem : Kept(q)
  BY WorkFrame, Zenon
<1>2. covq \in Seq(Reply) /\ heap \subseteq Mem /\ heap' \subseteq Mem
  BY Zenon DEF QueueInv, CovInv, heap
<1>3. ASSUME NEW t \in Tasks, opc'[t] \in Sent PROVE port'[filp[t]].id = port[filp[t]].id
  <2> PICK p : p = filp[t]
    BY Zenon
  <2>1. p \in Mem /\ port[p] \in PortShape /\ port'[p] \in PortShape
    BY <1>1, <1>3, HolderLive, HolderLiveNext, Zenon DEF Sent
  <2>2. QED BY <1>1, <2>1, FreeFields, Zenon DEF Kept
<1>4. CASE covq = <<>> /\ covq' = <<>>
  BY <1>4, MessageParts
<1>5. ASSUME covq # <<>>
      PROVE  \A k \in DOMAIN covq : \A p \in heap' :
             covq[k].event = "OPEN" /\ port'[p].id = covq[k].id /\ ~port'[p].portdev
             => covq[k].id \in GoneIds'
  <2>1. drv # "unplug"
    BY <1>5, Zenon DEF QueueInv, CovInv
  <2>2. ASSUME NEW p \in heap', ~port'[p].portdev
        PROVE  \/ p \in heap /\ port'[p].id = port[p].id /\ ~port[p].portdev
               \/ port'[p].id \in GoneIds'
    <3>1. Kept(p) /\ port'[p] # Free
      BY <1>1, <1>2, Zenon DEF heap
    <3>2. CASE p = cport /\ cpc = "detach"
      <4>1. port[p].id \in GoneIds
        BY <2>1, <3>2, Zenon DEF RemovedInv, Gone
      <4>2. port[p] \in PortShape
        BY <3>2, HandLive, Zenon DEF Hands
      <4>3. QED BY <2>2, <3>1, <4>1, <4>2, FreeFields, Zenon DEF Kept
    <3>3. CASE ~(p = cport /\ cpc = "detach")
      BY <1>2, <2>2, <3>1, <3>3, Zenon DEF Kept, heap
    <3>4. QED BY <3>2, <3>3, Zenon
  <2>3. QED BY <2>2, WantedKeep, Zenon
<1>6. CASE CtlSend /\ covq' # covq
  <2> DEFINE m == [from |-> "work", event |-> "PORT_READY", id |-> taken.id, value |-> cpc = "sendReady"]
  <2>1. covq' = Append(covq, m)
    BY <1>6, Zenon DEF CtlSend, Post
  <2>2. m.event # "OPEN" /\ m.from \notin Tasks
    BY TasksFinite, Zenon
  <2>3. m \in Reply
    <3>1. covq' \in Seq(Reply)
      <4>1. QueueInv'
        BY Zenon
      <4>2. QED BY <4>1, Zenon DEF QueueInv, CovInv
    <3>2. Len(covq) + 1 \in DOMAIN covq' /\ covq'[Len(covq) + 1] = m
      BY <1>2, <2>1
    <3> HIDE DEF m
    <3>3. QED BY <3>1, <3>2
  <2> HIDE DEF m
  <2>4. CASE covq = <<>>
    BY <1>1, <1>2, <1>3, <2>1, <2>2, <2>3, <2>4, MessageAppend
  <2>5. CASE covq # <<>>
    BY <1>1, <1>2, <1>3, <1>5, <2>1, <2>2, <2>3, <2>5, MessageAppend, Zenon
  <2>6. QED BY <2>4, <2>5, Zenon
<1>7. CASE covq' = covq
  BY <1>1, <1>2, <1>3, <1>4, <1>5, <1>7, MessageStill, Zenon
<1>8. QED BY <1>6, <1>7, Zenon DEF WorkNext, CtlDrop, CtlAddKnown, CtlAddFails, CtlAddList,
               CtlSent, CtlOpen, CtlName, CtlNameFails, CtlRequeue, CtlAdd, CtlRemove,
               UnplugDisconnect, UnplugDetach, UnplugPut, TakeControl

LEMMA MessageTask ==
  ASSUME QueueInv, LifeInv, MessageInv, GoneIds \subseteq GoneIds', NEW t \in Tasks, TaskNext(t), LifeInv'
  PROVE  MessageInv'
<1> USE DEF queues
<1>1. /\ UNCHANGED drv
      /\ \A u \in Tasks : u # t => opc'[u] = opc[u] /\ filp'[u] = filp[u]
      /\ \A q \in Mem : port'[q] = Free \/ (port'[q].id = port[q].id /\ port'[q].portdev = port[q].portdev)
  BY TaskFrame, Zenon
<1>2. covq \in Seq(Reply) /\ heap \subseteq Mem /\ heap' \subseteq Mem
  BY Zenon DEF QueueInv, CovInv, heap
<1>3. ASSUME NEW u \in Tasks, u # t, opc'[u] \in Sent PROVE port'[filp[u]].id = port[filp[u]].id
  <2> PICK p : p = filp[u]
    BY Zenon
  <2>1. p \in Mem /\ port'[p] \in PortShape
    BY <1>1, <1>3, HolderLiveNext, Zenon DEF Sent
  <2>2. QED BY <1>1, <2>1, FreeFields, Zenon
<1>4. \A k \in DOMAIN covq : \A p \in heap' :
             covq[k].event = "OPEN" /\ port'[p].id = covq[k].id /\ ~port'[p].portdev
             => covq[k].id \in GoneIds'
  <2>1. ASSUME NEW p \in heap', ~port'[p].portdev
        PROVE  p \in heap /\ port'[p].id = port[p].id /\ ~port[p].portdev
    <3>1. p \in Mem /\ port'[p] # Free /\ port'[p] \in PortShape /\ port[p] \in PortShape \cup {Free}
      BY <1>2, Zenon DEF heap, LifeInv, LifeCore, LifeTypes
    <3>2. port'[p].id = port[p].id /\ ~port[p].portdev
      BY <1>1, <2>1, <3>1, Zenon
    <3>3. port[p] # Free
      BY <3>1, <3>2, FreeFields, Zenon DEF PortShape
    <3>4. QED BY <3>1, <3>2, <3>3, Zenon DEF heap
  <2>2. QED BY <2>1, WantedKeep, Zenon
<1>5. CASE opc'[t] \notin Sent /\ covq' = covq
  BY <1>1, <1>2, <1>3, <1>4, <1>5, MessageStill, Zenon
<1>6. CASE OpenNotify(t) \/ ReleaseNotify(t)
  <2>1. PICK v \in BOOLEAN : /\ opc[t] = (IF v THEN "notify" ELSE "open")
                             /\ Notify(t, v, IF v THEN "openSent" ELSE "closeSent",
                                             IF v THEN "open" ELSE "close")
    BY <1>6, Zenon DEF OpenNotify, ReleaseNotify
  <2>2. UNCHANGED <<port, filp>> /\ heap' = heap
    BY <2>1, Zenon DEF Notify, heap
  <2>3. CASE ~port[filp[t]].portdev
    <3>1. covq' = covq /\ opc'[t] = IF v THEN "open" ELSE "close"
      BY <2>1, <2>3, Zenon DEF Notify, Goto, LifeInv, LifeCore, LifeTypes
    <3>2. QED BY <1>5, <3>1, Zenon DEF Sent
  <2>4. CASE port[filp[t]].portdev
    <3> DEFINE m == [from |-> t, event |-> "OPEN", id |-> port[filp[t]].id, value |-> v]
    <3>1. /\ covq' = IF QueuesUp THEN Append(covq, m) ELSE covq
          /\ opc'[t] = IF v THEN "openSent" ELSE "closeSent"
      BY <2>1, <2>4, Zenon DEF Notify, Goto, Post, LifeInv, LifeCore, LifeTypes
    <3>2. filp[t] \in Mem /\ port[filp[t]] \in PortShape
      BY <2>1, HolderLive, Zenon
    <3>3. m \in Reply
      <4>1. port[filp[t]].id \in Ids
        BY <3>2, Zenon DEF PortShape
      <4>2. QED BY <4>1, Zenon DEF Reply, Senders
    <3>4. /\ m.from = t /\ m.event = "OPEN" /\ m.id = port'[filp'[m.from]].id
          /\ m.value <=> opc'[m.from] = "openSent"
      BY <2>2, <3>1, Zenon
    <3>5. \A p \in heap' : port'[p].id = m.id => port'[p].portdev
      <4>1. filp[t] \in heap
        BY <3>2, FreeFields, Zenon DEF heap
      <4>2. QED BY <2>2, <2>4, <4>1, Zenon DEF LifeInv, LifeCore, OnePortPerId
    <3> HIDE DEF m
    <3>6. CASE QueuesUp
      <4>1. covq' = Append(covq, m)
        BY <3>1, <3>6, Zenon
      <4>2. QED BY <1>1, <1>2, <1>3, <1>4, <3>3, <3>4, <3>5, <4>1, MessageAppend, Zenon
    <3>7. CASE ~QueuesUp
      <4>1. covq' = <<>>
        BY <3>1, <3>7, Zenon DEF QueueInv, CovInv, QueuesUp
      <4>2. DOMAIN covq' = {}
        BY <4>1
      <4>3. QED BY <4>2, MessageParts, Zenon
    <3>8. QED BY <3>6, <3>7, Zenon
  <2>5. QED BY <2>3, <2>4, Zenon
<1>7. QED BY <1>5, <1>6, Zenon DEF TaskNext, OpenNext, ReleaseNext, OpenFind, OpenRef,
               OpenConnect, OpenReturn, ReleaseNotified, Notified, ReleaseDisconnect,
               ReleasePut, Goto, Sent, LifeInv, LifeCore, LifeTypes

LEMMA MessageNext ==
  ASSUME QueueInv, LifeInv, RemovedInv, MessageInv, GoneIds \subseteq GoneIds', Next, LifeInv', QueueInv'
  PROVE  MessageInv'
<1> USE DEF work, files, queues
<1>1. CASE Probe \/ ProbeNext \/ RemoveStart \/ RemoveCancel \/ \E p \in Mem : RemovePort(p)
  <2>1. UNCHANGED <<opc, filp, port>> /\ heap' = heap
    BY <1>1, Zenon DEF Probe, ProbeNext, ProbeList, ProbeAnnounce, ProbeReturn, RemoveStart,
         RemoveCancel, RemovePort, UnplugList, heap
  <2>2. \A k \in DOMAIN covq : \A p \in heap' :
             covq[k].event = "OPEN" /\ port'[p].id = covq[k].id /\ ~port'[p].portdev
             => covq[k].id \in GoneIds'
    BY <2>1, WantedKeep, Zenon
  <2>3. covq \in Seq(Reply)
    BY Zenon DEF QueueInv, CovInv
  <2>4. CASE covq' = covq
    BY <2>1, <2>2, <2>3, <2>4, MessageStill, Zenon
  <2>5. CASE ProbeAnnounce
    <3> DEFINE m == [from |-> "probe", event |-> "DEVICE_READY", id |-> BAD_ID, value |-> TRUE]
    <3>1. covq' = Append(covq, m)
      BY <2>5, Zenon DEF ProbeAnnounce, QueuesUp, Post
    <3>2. m \in Reply /\ m.event # "OPEN" /\ m.from \notin Tasks
      BY TasksFinite, Zenon DEF Reply, Senders
    <3> HIDE DEF m
    <3>3. QED BY <2>1, <2>2, <2>3, <3>1, <3>2, MessageAppend, Zenon
  <2>6. QED BY <1>1, <2>4, <2>5, Zenon DEF Probe, ProbeNext, ProbeList, ProbeReturn,
                 RemoveStart, RemoveCancel, RemovePort
<1>2. CASE RemoveReset \/ RemoveDone
  <2>1. covq' = <<>>
    BY <1>2, Zenon DEF RemoveReset, RemoveDone, QueueInv, CovInv
  <2>2. QED BY <2>1, MessageParts
<1>3. QED BY <1>1, <1>2, MessageHost, MessageWork, MessageTask, Zenon DEF Next, RemoveNext

----------------------------------------------------------------------------
(* What QEMU believes.                                                     *)

Away == {"none", "reset", "unplug"}
Opened == {"openSent", "open", "closeSent", "stuck"}
Closing(id) == \E m \in Range(covq) : m.event = "OPEN" /\ m.id = id /\ ~m.value

LEMMA BeliefParts ==
  /\ BeliefInv <=>
       /\ drv \in Away => \A id \in Ids : ~Believed(id)
       /\ \A p \in heap : ~port[p].portdev => ~Believed(port[p].id)
       /\ ~garbled => \A t \in Tasks : opc[t] = "closeSent" /\ Believed(port[filp[t]].id)
                                       => Closing(port[filp[t]].id)
       /\ ~garbled => \A id \in Range(hports) : Believed(id) =>
              (\E t \in Tasks : opc[t] \in Opened /\ port[filp[t]].id = id) \/ Closing(id)
  BY Zenon DEF BeliefInv, HostKnowsOpen, Believed, Away, Opened, Closing

\* BeliefInv of the next state, one id and one task at a time.
LEMMA BeliefPartsNext ==
  ASSUME drv' \in Away => \A id \in Ids : ~Believed(id)',
         \A p \in heap' : \A id : ~port'[p].portdev /\ port'[p].id = id => ~Believed(id)',
         ~garbled' => \A t \in Tasks : \A id : opc'[t] = "closeSent" /\ port'[filp'[t]].id = id /\ Believed(id)'
                                               => Closing(id)',
         ~garbled' => \A id \in Ids : Believed(id)' =>
              (\E t \in Tasks : opc'[t] \in Opened /\ port'[filp'[t]].id = id) \/ Closing(id)',
         Range(hports') \subseteq Ids
  PROVE  BeliefInv'
  BY DEF BeliefInv, HostKnowsOpen, Believed, Away, Opened, Closing

LEMMA BeliefKeep ==
  ASSUME BeliefInv, ~garbled, Range(hports') \subseteq Ids,
         drv' \in Away => drv \in Away,
         \A id \in Ids : Believed(id)' => Believed(id),
         \A p \in heap' : \A id \in Ids : ~port'[p].portdev /\ port'[p].id = id =>
             (p \in heap /\ port[p].id = id /\ ~port[p].portdev) \/ ~Believed(id)',
         \A t \in Tasks : \A id \in Ids : opc'[t] = "closeSent" /\ port'[filp'[t]].id = id =>
             (opc[t] = "closeSent" /\ port[filp[t]].id = id) \/ ~Believed(id)' \/ Closing(id)',
         \A t \in Tasks : \A id \in Ids : opc[t] \in Opened /\ port[filp[t]].id = id =>
             (opc'[t] \in Opened /\ port'[filp'[t]].id = id) \/ ~Believed(id)' \/ Closing(id)',
         \A id \in Ids : Closing(id) => Closing(id)'
  PROVE  BeliefInv'
  BY BeliefParts, BeliefPartsNext DEF Believed

\* What is on c_ovq stays there when a message is sent, or another one popped.
LEMMA AppendedRange ==
  ASSUME covq \in Seq(Reply), NEW m \in Reply
  PROVE  Range(Append(covq, m)) = Range(covq) \cup {m}
  BY Appended

LEMMA PoppedRange ==
  ASSUME CovInv, covq # <<>>, NEW m \in Range(covq), m # Head(covq)
  PROVE  m \in Range(Tail(covq))
<1>1. PICK k \in DOMAIN covq : covq[k] = m
  BY Zenon DEF Range
<1>2. k - 1 \in DOMAIN Tail(covq) /\ Tail(covq)[k - 1] = covq[k]
  BY <1>1 DEF CovInv
<1>3. QED BY <1>1, <1>2, Zenon DEF Range

LEMMA BeliefNone ==
  ASSUME Range(hports') \subseteq Ids, \A id \in Ids : ~Believed(id)'
  PROVE  BeliefInv'
  BY BeliefPartsNext, Zenon DEF Believed

LEMMA BeliefHost ==
  ASSUME HostInv, BeliefInv, ~garbled, HostNext, Range(hports') \subseteq Ids
  PROVE  BeliefInv'
<1> USE DEF work, files
<1>1. UNCHANGED <<opc, filp, port, drv, covq>> /\ heap' = heap
  BY Zenon DEF HostNext, Plug, Unplug, HostConnect, heap
<1>2. \A id \in Ids : Believed(id)' => Believed(id)
  <2>1. CASE \E nr \in Ids \cup {BAD_ID} : Plug(nr)
    <3>1. PICK i \in Ids : /\ Range(hports') = Range(hports) \cup {i}
                           /\ reused' = IF i \in known THEN reused \cup {i} ELSE reused
                           /\ guest_connected' = [guest_connected EXCEPT ![i] = FALSE]
      BY <2>1, PlugHost, Zenon
    <3>2. QED BY <3>1, Zenon DEF Believed, HostInv, HostCore
  <2>2. CASE \E id \in Ids : Unplug(id)
    BY <2>2, UnplugHost, Zenon DEF Believed
  <2>3. CASE \E id \in Ids : \E v \in BOOLEAN : HostConnect(id, v)
    BY <2>3, Zenon DEF HostConnect, Believed
  <2>4. QED BY <2>1, <2>2, <2>3, Zenon DEF HostNext
<1>3. QED BY <1>1, <1>2, BeliefKeep, Zenon DEF Closing

LEMMA BeliefWork ==
  ASSUME HostInv, QueueInv, LifeInv, RemovedInv, BeliefInv, ~garbled, WorkNext, LifeInv', QueueInv',
         Range(hports') \subseteq Ids
  PROVE  BeliefInv'
<1> USE DEF queues
<1>1. UNCHANGED <<hports, reused, guest_connected, opc, filp, drv>> /\ \A q \in Mem : Kept(q)
  BY WorkFrame, Zenon
<1>2. \A id \in Ids : Believed(id)' <=> Believed(id)
  BY <1>1, Zenon DEF Believed
<1>3. ASSUME NEW t \in Tasks, opc[t] \in Opened PROVE port'[filp'[t]].id = port[filp[t]].id
  BY <1>1, <1>3, HolderLive, HolderLiveNext, FreeFields, Zenon DEF Opened, Kept
<1>4. \A id \in Ids : Closing(id) => Closing(id)'
  <2>1. covq \in Seq(Reply) /\ (covq' = covq \/ \E m \in Reply : covq' = Append(covq, m))
    <3>1. covq \in Seq(Reply)
      BY Zenon DEF QueueInv, CovInv
    <3>2. CASE CtlSend
      <4>1. ASSUME NEW m, covq' = Append(covq, m) PROVE m \in Reply
        <5>1. QED BY <3>1, <4>1 DEF QueueInv, CovInv
      <4>2. QED BY <3>1, <3>2, <4>1, Zenon DEF CtlSend, Post
    <3>3. CASE ~CtlSend
      BY <3>1, <3>3, Zenon DEF WorkNext, CtlDrop, CtlAddKnown, CtlAddFails, CtlAddList,
           CtlSent, CtlOpen, CtlName, CtlNameFails, CtlRequeue, CtlAdd, CtlRemove,
           UnplugDisconnect, UnplugDetach, UnplugPut, TakeControl
    <3>4. QED BY <3>2, <3>3, Zenon
  <2>2. Range(covq) \subseteq Range(covq')
    <3>1. ASSUME NEW m \in Reply, covq' = Append(covq, m) PROVE Range(covq) \subseteq Range(covq')
      BY <2>1, <3>1, AppendedRange, Zenon
    <3>2. QED BY <2>1, <3>1, Zenon
  <2>3. QED BY <2>2, Zenon DEF Closing
<1>5. ASSUME NEW p \in heap', NEW id \in Ids, ~port'[p].portdev, port'[p].id = id
      PROVE  (p \in heap /\ port[p].id = id /\ ~port[p].portdev) \/ ~Believed(id)'
  BY <1>1, <1>2, <1>5, BeliefParts, Zenon DEF heap, Kept, Away, RemovedInv, Gone, GoneIds,
       Believed
<1>6. QED BY <1>1, <1>2, <1>3, <1>4, <1>5, BeliefKeep, Zenon DEF Opened

LEMMA BeliefDevice ==
  ASSUME HostInv, QueueInv, LifeInv, BeliefInv, ~garbled,
         Probe \/ ProbeNext \/ RemoveStart \/ RemoveNext, Range(hports') \subseteq Ids
  PROVE  BeliefInv'
<1> USE DEF work, files, queues, qemu
<1>1. CASE RemoveReset
  <2>1. \A id \in Ids : ~Believed(id)'
    BY <1>1, Zenon DEF RemoveReset, Believed
  <2>2. QED BY <2>1, BeliefNone, Zenon
<1>2. CASE Probe \/ ProbeNext \/ RemoveStart \/ RemoveCancel \/ \E p \in Mem : RemovePort(p)
  <2>1. UNCHANGED <<hports, reused, guest_connected, opc, filp, port>> /\ heap' = heap
    BY <1>2, Zenon DEF Probe, ProbeNext, ProbeList, ProbeAnnounce, ProbeReturn, RemoveStart,
         RemoveCancel, RemovePort, UnplugList, heap
  <2>2. drv' \in Away => drv \in Away
    BY <1>2, Zenon DEF Probe, ProbeNext, ProbeList, ProbeAnnounce, ProbeReturn, RemoveStart,
         RemoveCancel, RemovePort, UnplugList, Away
  <2>3. \A id \in Ids : Closing(id) => Closing(id)'
    <3>1. covq \in Seq(Reply)
      BY Zenon DEF QueueInv, CovInv
    <3> DEFINE m == [from |-> "probe", event |-> "DEVICE_READY", id |-> BAD_ID, value |-> TRUE]
    <3>2. m \in Reply
      BY Zenon DEF Reply, Senders
    <3>3. covq' = covq \/ covq' = Append(covq, m)
      BY <1>2, Zenon DEF Probe, ProbeNext, ProbeList, ProbeAnnounce, ProbeReturn, RemoveStart,
           RemoveCancel, RemovePort, Post
    <3> HIDE DEF m
    <3>4. Range(covq) \subseteq Range(covq')
      BY <3>1, <3>2, <3>3, AppendedRange, Zenon
    <3>5. QED BY <3>4, Zenon DEF Closing
  <2>4. QED BY <2>1, <2>2, <2>3, BeliefKeep, Zenon DEF Believed
<1>3. QED BY <1>1, <1>2, BeliefParts, BeliefNone, Zenon DEF RemoveNext, RemoveDone, Believed, Away

LEMMA BeliefTask ==
  ASSUME QueueInv, LifeInv, BeliefInv, ~garbled, NEW t \in Tasks, TaskNext(t), LifeInv',
         Range(hports') \subseteq Ids
  PROVE  BeliefInv'
<1> USE DEF queues
<1>1. /\ UNCHANGED <<hports, reused, guest_connected, drv>>
      /\ \A u \in Tasks : u # t => opc'[u] = opc[u] /\ filp'[u] = filp[u]
      /\ \A q \in Mem : port'[q] = Free \/ (port'[q].id = port[q].id /\ port'[q].portdev = port[q].portdev)
  BY TaskFrame, Zenon
<1>2. \A id \in Ids : Believed(id)' <=> Believed(id)
  BY <1>1, Zenon DEF Believed
<1>3. ASSUME NEW p \in heap', ~port'[p].portdev
      PROVE  p \in heap /\ port[p].id = port'[p].id /\ ~port[p].portdev
  BY <1>1, <1>3, FreeFields DEF heap, LifeInv, LifeCore, LifeTypes, PortShape
<1>4. ASSUME NEW u \in Tasks, u # t, opc[u] \in Opened
      PROVE  opc'[u] = opc[u] /\ port'[filp'[u]].id = port[filp[u]].id
  BY <1>1, <1>4, HolderLiveNext, FreeFields DEF Opened
<1>5. covq \in Seq(Reply)
  BY Zenon DEF QueueInv, CovInv
<1>6. CASE opc[t] \notin Opened /\ opc'[t] # "closeSent" /\ Range(covq) \subseteq Range(covq')
  BY <1>1, <1>2, <1>3, <1>4, <1>6, BeliefKeep, Zenon DEF Closing, Opened
<1>7. CASE OpenNotify(t)
  <2> DEFINE m == [from |-> t, event |-> "OPEN", id |-> port[filp[t]].id, value |-> TRUE]
  <2>1. /\ opc[t] = "notify" /\ opc'[t] \in {"openSent", "open"}
        /\ covq' = covq \/ covq' = Append(covq, m)
    BY <1>7, Zenon DEF OpenNotify, Notify, Post, Goto, LifeInv, LifeCore, LifeTypes
  <2>2. m \in Reply
    BY <2>1, HolderLive, Zenon DEF PortShape, Reply, Senders
  <2> HIDE DEF m
  <2>3. Range(covq) \subseteq Range(covq')
    BY <1>5, <2>1, <2>2, AppendedRange, Zenon
  <2>4. QED BY <1>6, <2>1, <2>3, Zenon DEF Opened
<1>8. CASE OpenReturn(t)
  BY <1>1, <1>2, <1>3, <1>4, <1>8, BeliefKeep, Zenon DEF OpenReturn, Notified, Goto, LifeInv,
       LifeCore, LifeTypes, Closing, Opened
<1>9. CASE ReleaseNotify(t)
  <2> PICK i : i = port[filp[t]].id
    BY Zenon
  <2>1. i \in Ids /\ port'[filp'[t]].id = i /\ filp[t] \in heap
    BY <1>9, FreeFields, HolderLive, Zenon DEF PortShape, heap, ReleaseNotify, Notify, Post,
         Goto, LifeInv, LifeCore, LifeTypes
  <2> DEFINE m == [from |-> t, event |-> "OPEN", id |-> i, value |-> FALSE]
  <2>2. covq' = IF port[filp[t]].portdev /\ QueuesUp THEN Append(covq, m) ELSE covq
    BY <1>9, Zenon DEF ReleaseNotify, Notify, Post
  <2>3. m \in Reply /\ m.event = "OPEN" /\ m.id = i /\ ~m.value
    BY <2>1, Zenon DEF Reply, Senders
  <2> HIDE DEF m
  <2>4. ~Believed(i)' \/ Closing(i)'
    BY <1>2, <1>5, <2>1, <2>2, <2>3, BeliefParts, AppendedRange
       DEF QueuesUp, Away, QueueInv, CovInv, Closing
  <2>5. \A id \in Ids : Closing(id) => Closing(id)'
    BY <1>5, <2>2, <2>3, AppendedRange, Zenon DEF Closing
  <2>6. QED BY <1>1, <1>2, <1>3, <1>4, <2>1, <2>4, <2>5, BeliefKeep DEF Opened
<1>10. CASE ReleaseNotified(t)
  BY <1>1, <1>2, <1>3, <1>4, <1>10, BeliefParts, HolderLive, BeliefKeep
     DEF ReleaseNotified, Notified, Goto, LifeInv, LifeCore, LifeTypes, Closing, PortShape,
         Opened
<1>11. ASSUME \/ \E id \in Ids : OpenFind(t, id)
              \/ OpenRef(t) \/ OpenConnect(t) \/ ReleaseDisconnect(t) \/ ReleasePut(t)
       PROVE  BeliefInv'
  BY <1>6, <1>11, Zenon DEF OpenFind, OpenRef, OpenConnect, ReleaseDisconnect, ReleasePut,
       Goto, Opened, LifeInv, LifeCore, LifeTypes
<1>12. QED BY <1>7, <1>8, <1>9, <1>10, <1>11, Zenon DEF TaskNext, OpenNext, ReleaseNext

\* What QEMU pops is a task's word, and no other task has the port open.
LEMMA BeliefControl ==
  ASSUME HostInv, QueueInv, LifeInv, RemovedInv, ConnectInv, MessageInv, BeliefInv, ~garbled,
         HostControl, Range(hports') \subseteq Ids
  PROVE  BeliefInv'
<1> USE DEF work, files
<1> DEFINE m == Head(covq)
<1>1. /\ UNCHANGED <<hports, reused, opc, filp, port, drv, known>> /\ heap' = heap /\ covq # <<>>
      /\ covq' = Tail(covq) /\ (garbled' <=> ~Intact(m))
  BY Zenon DEF HostControl, HandleDeviceReady, HandlePortReady, HandlePortOpen, PopControl, heap
<1>2. /\ m = covq[1] /\ 1 \in DOMAIN covq /\ QueuesUp /\ m.value \in BOOLEAN
      /\ \A k \in DOMAIN Tail(covq) : k + 1 \in DOMAIN covq /\ Tail(covq)[k] = covq[k + 1]
      /\ covq \in Seq(Reply) /\ drv # "unplug"
  BY <1>1, HeadReply, Zenon DEF QueueInv, CovInv
<1>3. \A o \in Range(covq) : o # m => o \in Range(covq')
  BY <1>1, PoppedRange, Zenon DEF QueueInv
<1>4. CASE HandlePortOpen
  <2> PICK i : i = m.id
    BY Zenon
  <2>1. /\ m.event = "OPEN"
        /\ i \in Range(hports) => guest_connected' = [guest_connected EXCEPT ![i] = m.value]
        /\ i \notin Range(hports) => guest_connected' = guest_connected
    BY <1>4, Zenon DEF HandlePortOpen
  <2> HIDE DEF m
  <2>2. guest_connected \in [Ids -> BOOLEAN] /\ Range(hports) \subseteq Ids
    BY <1>1, Zenon DEF HostInv, HostCore
  <2>3. ASSUME NEW id, id # i PROVE (Believed(id)' <=> Believed(id)) /\ (Closing(id) => Closing(id)')
    BY <1>1, <1>3, <2>1, <2>2, <2>3, Zenon DEF Believed, Closing
  <2>4. ASSUME Believed(i)'
        PROVE  m.value /\ i \in Ids /\ i \notin GoneIds
    BY <1>1, <2>1, <2>2, <2>4, Zenon DEF Believed, GoneIds
  <2>5. StillWanted(m) /\ m.from \in Tasks
    BY <1>2, <2>1, MessageParts, Zenon
  <2>6. \A p \in heap : ~port[p].portdev /\ port[p].id = i => ~Believed(i)'
    BY <2>4, <2>5, Zenon DEF StillWanted
  <2> PICK u \in Tasks : u = m.from
    BY <2>5, Zenon
  <2>7. ASSUME ~garbled', Believed(i)' PROVE opc[u] = "openSent" /\ port[filp[u]].id = i
    <3>1. Spins(u) /\ \A k \in DOMAIN Tail(covq) : Tail(covq)[k].from # u
      BY <1>1, <2>7, Zenon DEF Intact
    <3>2. LastOne(covq, 1)
      <4> SUFFICES ASSUME NEW j \in DOMAIN covq, j > 1, covq[j].from = u PROVE FALSE
        BY <1>2, Zenon DEF LastOne
      <4>1. j - 1 \in DOMAIN Tail(covq) /\ Tail(covq)[j - 1] = covq[j]
        BY <1>1, <1>2
      <4>2. QED BY <3>1, <4>1, Zenon
    <3>3. QED BY <1>2, <2>1, <2>4, <2>7, <3>1, <3>2, MessageParts, TasksFinite, Zenon
                 DEF SaysTrue, Spins, Sent
  <2>8. ASSUME ~garbled', Believed(i)', NEW t \in Tasks, opc[t] = "closeSent", port[filp[t]].id = i
        PROVE  FALSE
    BY <1>2, <2>4, <2>6, <2>7, <2>8, HolderLive, FreeFields DEF heap, LifeInv, LifeCore,
         OnePortPerId, ConnectInv, Connected, Detached, Gone, RemovedInv
  <2>9. ASSUME ~garbled', NEW t \in Tasks, NEW id, opc'[t] = "closeSent", port'[filp'[t]].id = id, Believed(id)'
         PROVE  Closing(id)'
    BY <1>1, <2>3, <2>8, <2>9, BeliefParts, Zenon
  <2>10. ASSUME ~garbled', NEW id \in Ids, Believed(id)'
         PROVE  (\E t \in Tasks : opc'[t] \in Opened /\ port'[filp'[t]].id = id) \/ Closing(id)'
    BY <1>1, <2>3, <2>7, <2>10, BeliefParts, Zenon DEF Opened, Believed
  <2>11. QED BY <1>1, <1>2, <2>3, <2>6, <2>9, <2>10, BeliefPartsNext, BeliefParts, Zenon
                DEF QueuesUp, Away
<1>5. QED BY <1>1, <1>3, <1>4, BeliefKeep, Zenon DEF HostControl, HandleDeviceReady,
               HandlePortReady, Believed, Closing

LEMMA BeliefNext ==
  ASSUME IInv, Next, HostInv', QueueInv', LifeInv'
  PROVE  BeliefInv'
  BY BeliefHost, BeliefControl, BeliefWork, BeliefDevice, BeliefTask, Zenon
     DEF Next, Stopped, HostInv, HostCore, IInv

=============================================================================
