----------------------------- MODULE VirtioPorts -----------------------------
(***************************************************************************)
(* The ports of a virtio-serial device come and go: QEMU plugs and unplugs *)
(* them (qemu/virtio-serial-bus.c), the guest driver is probed and removed *)
(* and keeps a struct port for each (linux_kernel/virtio_crypto.c), and    *)
(* tasks of the guest open and close them.  The two sides talk over the    *)
(* control queues: c_ivq, on which QEMU drops a message when the guest has *)
(* no buffer posted, and c_ovq, on which the guest spins until it sees a   *)
(* message given back.                                                     *)
(*                                                                         *)
(* All ports are virtserialports; those have a name, are served by         *)
(* virtio-crypto.c and are never at id 0.  What happens on an open port is *)
(* the subject of VirtioCryptoPort.                                        *)
(***************************************************************************)
EXTENDS Integers, Sequences, FiniteSets, Functions

CONSTANTS MaxPorts,  \* config.max_nr_ports
          Mem,       \* addresses of a struct port
          Tasks,     \* guest tasks, each with at most one file
          CtlBufs,   \* the size of c_ivq
          MaxPlugs, MaxFlips, MaxProbes,  \* bounds: how often QEMU plugs a port and a
                     \* back end connects or disconnects, and the driver is probed
          NoMem

ASSUME SizesPositive == MaxPorts \in 2..32 /\ CtlBufs \in Nat \ {0}
ASSUME BoundsNat == MaxPlugs \in Nat /\ MaxFlips \in Nat /\ MaxProbes \in Nat
ASSUME NoMemFresh == NoMem \notin Mem
ASSUME TasksFinite == IsFiniteSet(Tasks) /\ Tasks \cap {"work", "probe"} = {}

VARIABLES
    hports, ports_map,      \* QEMU: vser->ports in order, vser->ports_map
    host_connected, guest_connected, cfd,  \* QEMU, of each port; cfd: cr_info is set
    hbusy, hdead,           \* QEMU is inside control_out; has crashed
    ctl,       \* c_ivq: messages to the guest
    taken,     \* the message control_work_handler is at
    covq,      \* c_ovq: messages to QEMU
    cused,     \* messages given back on c_ovq, not yet seen
    drv,       \* where probe or remove of the device is
    ports,     \* portdev->ports
    port,      \* the struct port at each address
    cpc, cport,             \* where control_work_handler or unplug_port is
    opc, filp,              \* where each task is, and its filp->private_data
    known,     \* history: ids that were plugged
    reused,    \* history: ids that were plugged again
    missed,    \* history: a message was dropped, or the guest failed to follow it
    garbled,   \* history: QEMU read a message whose sender had gone on
    left       \* what is left of the bounds

qemu == <<hports, ports_map, host_connected, guest_connected, cfd, hdead, known, reused,
          left>>
queues == <<ctl, covq, cused, hbusy, garbled>>
work == <<taken, cpc, cport>>
files == <<opc, filp>>
vars == <<qemu, queues, missed, work, drv, ports, port, files>>

Ids == 1 .. MaxPorts - 1
BAD_ID == -1
Message == [event : {"ADD", "REMOVE", "NAME"}, id : Ids, value : {TRUE}]
           \cup [event : {"OPEN"}, id : Ids, value : BOOLEAN]
NoMessage == [event |-> "none", id |-> BAD_ID, value |-> FALSE]
Senders == Tasks \cup {"work", "probe"}
Reply == [from : Senders, event : {"DEVICE_READY", "PORT_READY", "OPEN"},
          id : Ids \cup {BAD_ID}, value : BOOLEAN]

\* A struct port: guest_connected, host_connected, the reference count, and
\* whether portdev and name are set.
Port == [id : Ids, guest : BOOLEAN, host : BOOLEAN, kref : 0 .. Cardinality(Tasks) + 1,
         portdev : BOOLEAN, name : BOOLEAN]
Free == [id |-> BAD_ID, guest |-> FALSE, host |-> FALSE, kref |-> 0,
         portdev |-> FALSE, name |-> FALSE]
heap == {p \in Mem : port[p] # Free}

Msg(event, id, value) == [event |-> event, id |-> id, value |-> value]

Init ==
    /\ hports = <<>> /\ ports_map = {0}
    /\ host_connected = [i \in Ids |-> FALSE] /\ guest_connected = [i \in Ids |-> FALSE]
    /\ cfd = [i \in Ids |-> FALSE]
    /\ hbusy = FALSE /\ hdead = FALSE
    /\ ctl = <<>> /\ taken = NoMessage /\ covq = <<>> /\ cused = 0
    /\ drv = "none" /\ ports = {} /\ port = [p \in Mem |-> Free]
    /\ cpc = "idle" /\ cport = NoMem
    /\ opc = [t \in Tasks |-> "none"] /\ filp = [t \in Tasks |-> NoMem]
    /\ known = {} /\ reused = {} /\ missed = FALSE /\ garbled = FALSE
    /\ left = [plug |-> MaxPlugs, flip |-> MaxFlips, probe |-> MaxProbes]

----------------------------------------------------------------------------
(* The control queues.                                                     *)

\* The queues work from probe until the device is reset.
QueuesUp == drv \in {"filled", "probed", "announced", "ready", "leaving"}

Posted == CtlBufs - Len(ctl) - (IF taken = NoMessage THEN 0 ELSE 1)

\* Mutant: QEMU does not look whether a buffer is posted.
SendControlAlways(messages) ==
    IF QueuesUp THEN ctl' = ctl \o messages /\ UNCHANGED missed ELSE UNCHANGED <<ctl, missed>>

\* send_control_event of QEMU, for several messages in a row.
SendControl(messages) ==
    IF QueuesUp
    THEN /\ ctl' = ctl \o SubSeq(messages, 1, IF Len(messages) < Posted THEN Len(messages)
                                                                     ELSE Posted)
         /\ missed' = (missed \/ Len(messages) > Posted)
    ELSE UNCHANGED <<ctl, missed>>

\* __send_control_msg of the guest: a message is on c_ovq, or nobody will
\* ever look at it.
Post(sender, event, id, value) ==
    covq' = IF QueuesUp
            THEN Append(covq, [from |-> sender, event |-> event, id |-> id, value |-> value])
            ELSE covq
After == IF QueuesUp THEN "sent" ELSE "stuck"

\* A sender goes on as soon as any message came back.
SeesUsed == cused > 0 /\ cused' = cused - 1

----------------------------------------------------------------------------
(* QEMU: ports are plugged, unplugged, connected and disconnected.         *)

Spend(b) == left[b] > 0 /\ left' = [left EXCEPT ![b] = @ - 1]

\* QEMU does one thing at a time.
HostRuns == ~hbusy

\* The lowest clear bit of ports_map.
find_free_port_id == CHOOSE i \in 0..32 : /\ i \notin ports_map
                                          /\ \A j \in 0 .. i - 1 : j \in ports_map

\* virtser_port_qdev_init, with the property "nr" given or not.
Plug(nr) ==
    LET id == IF nr = BAD_ID THEN find_free_port_id ELSE nr
    IN  /\ HostRuns /\ Spend("plug")
        /\ nr \notin Range(hports)
        /\ id \in Ids
        /\ hports' = Append(hports, id)
        /\ ports_map' = ports_map \cup {id}
        /\ host_connected' = [host_connected EXCEPT ![id] = FALSE]
        /\ guest_connected' = [guest_connected EXCEPT ![id] = FALSE]
        /\ cfd' = [cfd EXCEPT ![id] = FALSE]
        /\ known' = known \cup {id}
        /\ reused' = IF id \in known THEN reused \cup {id} ELSE reused
        /\ SendControl(<<Msg("ADD", id, TRUE)>>)
        /\ UNCHANGED <<hdead, covq, cused, hbusy, garbled, work, drv, ports, port, files>>

\* virtser_port_qdev_exit and remove_port.
Unplug(id) ==
    /\ HostRuns
    /\ \E k \in DOMAIN hports :
           /\ hports[k] = id
           /\ hports' = SubSeq(hports, 1, k - 1) \o SubSeq(hports, k + 1, Len(hports))
    /\ ports_map' = ports_map \ {id}
    /\ SendControl(<<Msg("REMOVE", id, TRUE)>>)
    /\ UNCHANGED <<host_connected, guest_connected, cfd, hdead, known, reused, left, covq, cused,
                   hbusy, garbled, work, drv, ports, port, files>>

\* virtio_serial_open and virtio_serial_close, from the character device.
HostConnect(id, value) ==
    /\ HostRuns /\ Spend("flip")
    /\ id \in Range(hports) /\ host_connected[id] # value
    /\ host_connected' = [host_connected EXCEPT ![id] = value]
    /\ SendControl(<<Msg("OPEN", id, value)>>)
    /\ UNCHANGED <<hports, ports_map, guest_connected, cfd, hdead, known, reused, covq, cused,
                   hbusy, garbled, work, drv, ports, port, files>>

----------------------------------------------------------------------------
(* QEMU: handle_control_message.                                           *)

\* A message lies on its sender's stack: it is what the sender wrote as long
\* as the sender spins for it.
Spins(s) == CASE s = "work" -> cpc = "sent"
              [] s = "probe" -> drv = "announced"
              [] OTHER -> opc[s] \in {"openSent", "closeSent"}
Intact(m) == Spins(m.from) /\ \A k \in DOMAIN Tail(covq) : Tail(covq)[k].from # m.from

\* guest_open and guest_close: cr_info, with the descriptor of /dev/crypto, is
\* allocated and freed; closing without it is the end of QEMU.
guest_open_close(id, value) ==
    /\ cfd' = [cfd EXCEPT ![id] = value]
    /\ hdead' = (~value /\ ~cfd[id])

\* control_out pops messages until the queue is empty.
PopControl ==
    /\ covq # <<>>
    /\ covq' = Tail(covq)
    /\ cused' = cused + 1
    /\ hbusy' = (Tail(covq) # <<>>)
    /\ garbled' = (garbled \/ ~Intact(Head(covq)))
    /\ UNCHANGED <<hports, ports_map, host_connected, known, reused, left, work, drv, ports, port,
                   files>>

\* Mutant: QEMU does not announce the ports it has.
HandleDeviceReadyNot ==
    /\ PopControl
    /\ Head(covq).event = "DEVICE_READY"
    /\ UNCHANGED <<ctl, missed, guest_connected, cfd, hdead>>

HandleDeviceReady ==
    /\ PopControl
    /\ Head(covq).event = "DEVICE_READY"
    /\ SendControl([k \in DOMAIN hports |-> Msg("ADD", hports[k], TRUE)])
    /\ UNCHANGED <<guest_connected, cfd, hdead>>

\* Mutant: only the name is sent.
HandlePortReadyName ==
    LET m == Head(covq)
    IN  /\ PopControl
        /\ m.event = "PORT_READY"
        /\ IF m.value /\ m.id \in Range(hports) THEN SendControl(<<Msg("NAME", m.id, TRUE)>>)
           ELSE UNCHANGED <<ctl, missed>>
        /\ UNCHANGED <<guest_connected, cfd, hdead>>

\* PORT_READY: the guest learns the name and the connection of the port.
HandlePortReady ==
    LET m == Head(covq)
    IN  /\ PopControl
        /\ m.event = "PORT_READY"
        /\ IF m.value /\ m.id \in Range(hports)
           THEN SendControl(<<Msg("NAME", m.id, TRUE)>>
                            \o IF host_connected[m.id] THEN <<Msg("OPEN", m.id, TRUE)>> ELSE <<>>)
           ELSE UNCHANGED <<ctl, missed>>
        /\ UNCHANGED <<guest_connected, cfd, hdead>>

\* Mutant: the message is not given back.
HandlePortOpenKeeps ==
    LET m == Head(covq)
    IN  /\ covq # <<>> /\ m.event = "OPEN"
        /\ covq' = Tail(covq) /\ hbusy' = (Tail(covq) # <<>>)
        /\ guest_connected' = [guest_connected EXCEPT ![m.id] = m.value]
        /\ guest_open_close(m.id, m.value)
        /\ UNCHANGED <<hports, ports_map, host_connected, known, reused, left, ctl, cused, garbled,
                       missed, work, drv, ports, port, files>>

HandlePortOpen ==
    LET m == Head(covq)
    IN  /\ PopControl
        /\ m.event = "OPEN"
        /\ IF m.id \in Range(hports)
           THEN /\ guest_connected' = [guest_connected EXCEPT ![m.id] = m.value]
                /\ guest_open_close(m.id, m.value)
           ELSE UNCHANGED <<guest_connected, cfd, hdead>>
        /\ UNCHANGED <<ctl, missed>>

----------------------------------------------------------------------------
(* Guest: virtcons_probe.                                                  *)

\* The queues are set up and c_ivq is filled; a probe that fails undoes what it
\* did.  Then the device is listed.
Probe ==
    /\ drv = "none" /\ Spend("probe")
    /\ drv' = "filled"
    /\ UNCHANGED <<hports, ports_map, host_connected, guest_connected, cfd, hdead, known, reused,
                   queues, missed, work, ports, port, files>>

ProbeList ==
    /\ drv = "filled"
    /\ drv' = "probed"
    /\ UNCHANGED <<qemu, queues, missed, work, ports, port, files>>

ProbeAnnounce ==
    /\ drv = "probed"
    /\ Post("probe", "DEVICE_READY", BAD_ID, TRUE)
    /\ drv' = "announced"
    /\ UNCHANGED <<qemu, ctl, cused, hbusy, garbled, missed, work, ports, port, files>>

ProbeReturn ==
    /\ drv = "announced"
    /\ SeesUsed
    /\ drv' = "ready"
    /\ UNCHANGED <<qemu, ctl, covq, hbusy, garbled, missed, work, ports, port, files>>

----------------------------------------------------------------------------
(* Guest: control_work_handler, handle_control_message and add_port.       *)

WorkGoto(l) == cpc' = l

ById(id) == {p \in ports : port[p].id = id}

\* The next message is taken off the queue; its port is looked up.
TakeControl(events) ==
    /\ cpc = "idle" /\ ctl # <<>>
    /\ QueuesUp \/ drv = "reset"
    /\ Head(ctl).event \in events
    /\ ctl' = Tail(ctl)
    /\ taken' = Head(ctl)
    /\ UNCHANGED <<qemu, covq, cused, hbusy, garbled, drv, files>>

\* A message for a port the guest does not have is dropped.
CtlDrop ==
    /\ TakeControl({"REMOVE", "OPEN", "NAME"})
    /\ ById(Head(ctl).id) = {}
    /\ WorkGoto("requeue")
    /\ UNCHANGED <<cport, missed, ports, port>>

CtlAddKnown ==
    /\ TakeControl({"ADD"})
    /\ ById(Head(ctl).id) # {}
    /\ WorkGoto("sendReady")
    /\ UNCHANGED <<cport, missed, ports, port>>

\* Mutant: the device goes when the port is unplugged.
DevtListed(id) == \E p \in ports : port[p].id = id

\* device_create refuses a second device of the same number; the major comes
\* from register_chrdev, which gives out the same one when the driver returns.
DevtTaken(id) == \E p \in heap : port[p].id = id

\* add_port: the port is allocated and its device created.
CtlAdd(p) ==
    LET id == Head(ctl).id
    IN  /\ TakeControl({"ADD"})
        /\ ById(id) = {} /\ p \notin heap /\ ~DevtTaken(id)
        /\ port' = [port EXCEPT ![p] = [id |-> id, guest |-> FALSE, host |-> FALSE, kref |-> 1,
                                        portdev |-> TRUE, name |-> FALSE]]
        /\ cport' = p
        /\ WorkGoto("list")
        /\ UNCHANGED <<missed, ports>>

\* One of add_port's allocations fails, or device_create refuses.
CtlAddFails ==
    /\ TakeControl({"ADD"})
    /\ ById(Head(ctl).id) = {}
    /\ missed' = TRUE
    /\ WorkGoto("sendFailed")
    /\ UNCHANGED <<cport, ports, port>>

CtlAddList ==
    /\ cpc = "list"
    /\ ports' = ports \cup {cport}
    /\ cport' = NoMem
    /\ WorkGoto("sendReady")
    /\ UNCHANGED <<qemu, queues, missed, taken, drv, port, files>>

CtlSend ==
    /\ cpc \in {"sendReady", "sendFailed"}
    /\ Post("work", "PORT_READY", taken.id, cpc = "sendReady")
    /\ WorkGoto(After)
    /\ UNCHANGED <<qemu, ctl, cused, hbusy, garbled, missed, taken, cport, drv, ports, port, files>>

CtlSent ==
    /\ cpc = "sent"
    /\ SeesUsed
    /\ WorkGoto("requeue")
    /\ UNCHANGED <<qemu, ctl, covq, hbusy, garbled, missed, taken, cport, drv, ports, port, files>>

\* PORT_OPEN and PORT_NAME of a port the guest has.
CtlOpen ==
    /\ TakeControl({"OPEN"})
    /\ \E p \in ById(Head(ctl).id) : port' = [port EXCEPT ![p].host = Head(ctl).value]
    /\ WorkGoto("requeue")
    /\ UNCHANGED <<cport, missed, ports>>

CtlName ==
    /\ TakeControl({"NAME"})
    /\ \E p \in ById(Head(ctl).id) : port' = [port EXCEPT ![p].name = TRUE]
    /\ WorkGoto("requeue")
    /\ UNCHANGED <<cport, missed, ports>>

\* There is no memory for the name.
CtlNameFails ==
    /\ TakeControl({"NAME"})
    /\ \E p \in ById(Head(ctl).id) : ~port[p].name
    /\ missed' = TRUE
    /\ WorkGoto("requeue")
    /\ UNCHANGED <<cport, ports, port>>

\* The message's buffer is posted again.
CtlRequeue ==
    /\ cpc = "requeue"
    /\ taken' = NoMessage
    /\ WorkGoto("idle")
    /\ UNCHANGED <<qemu, queues, missed, cport, drv, ports, port, files>>

----------------------------------------------------------------------------
(* Guest: unplug_port, for PORT_REMOVE and for virtcons_remove.            *)

\* kref_put, with remove_port: the device goes with the last reference.
kref_put(p) ==
    port' = [port EXCEPT ![p] = IF port[p].kref = 1 THEN Free
                                ELSE [port[p] EXCEPT !.kref = port[p].kref - 1]]

UnplugList(p) ==
    /\ ports' = ports \ {p}
    /\ cport' = p
    /\ WorkGoto("disconnect")
    /\ UNCHANGED <<missed, port>>

CtlRemove(p) ==
    /\ TakeControl({"REMOVE"})
    /\ p \in ById(Head(ctl).id)
    /\ UnplugList(p)

UnplugDisconnect ==
    /\ cpc = "disconnect"
    /\ port' = IF port[cport].guest
               THEN [port EXCEPT ![cport].guest = FALSE, ![cport].host = FALSE]
               ELSE port
    /\ WorkGoto("detach")
    /\ UNCHANGED <<qemu, queues, missed, taken, cport, drv, ports, files>>

UnplugDetach ==
    /\ cpc = "detach"
    /\ port' = [port EXCEPT ![cport].portdev = FALSE]
    /\ WorkGoto("put")
    /\ UNCHANGED <<qemu, queues, missed, taken, cport, drv, ports, files>>

UnplugPut ==
    /\ cpc = "put"
    /\ kref_put(cport)
    /\ cport' = NoMem
    /\ WorkGoto(IF taken = NoMessage THEN "idle" ELSE "requeue")
    /\ UNCHANGED <<qemu, queues, missed, taken, drv, ports, files>>

----------------------------------------------------------------------------
(* Guest: virtcons_remove.                                                 *)

RemoveStart ==
    /\ drv = "ready"
    /\ drv' = "leaving"
    /\ UNCHANGED <<qemu, queues, missed, work, ports, port, files>>

\* Mutant: no guest_reset.
RemoveResetQueues ==
    /\ drv = "leaving" /\ HostRuns
    /\ drv' = "reset"
    /\ covq' = <<>>
    /\ UNCHANGED <<qemu, ctl, cused, hbusy, garbled, missed, work, ports, port, files>>

\* The device is reset: QEMU forgets the queues, and guest_reset closes what
\* the guest had open.
RemoveReset ==
    /\ drv = "leaving" /\ HostRuns
    /\ drv' = "reset"
    /\ covq' = <<>>
    /\ guest_connected' = [i \in Ids |-> guest_connected[i] /\ i \notin Range(hports)]
    /\ cfd' = [i \in Ids |-> cfd[i] /\ ~(guest_connected[i] /\ i \in Range(hports))]
    /\ UNCHANGED <<hports, ports_map, host_connected, hdead, known, reused, left, ctl, cused,
                   hbusy, garbled, missed, work, ports, port, files>>

\* cancel_work_sync waits for the work to finish what it is at.
RemoveCancel ==
    /\ drv = "reset" /\ cpc = "idle"
    /\ drv' = "unplug"
    /\ UNCHANGED <<qemu, queues, missed, work, ports, port, files>>

RemovePort(p) ==
    /\ drv = "unplug" /\ cpc = "idle" /\ p \in ports
    /\ UnplugList(p)
    /\ UNCHANGED <<qemu, queues, taken, drv, files>>

\* The queues are freed; who spins on one will not see it change.
RemoveDone ==
    /\ drv = "unplug" /\ cpc = "idle" /\ ports = {}
    /\ drv' = "none"
    /\ ctl' = <<>> /\ cused' = 0
    /\ opc' = [t \in Tasks |-> IF Spins(t) THEN "stuck" ELSE opc[t]]
    /\ UNCHANGED <<qemu, covq, hbusy, garbled, missed, work, ports, port, filp>>

----------------------------------------------------------------------------
(* Guest: port_fops_open and port_fops_release.                            *)

Goto(t, l) == opc' = [opc EXCEPT ![t] = l]

\* find_port_by_devt, from the device's node; it returns NULL when the port is
\* not listed, and open does not look.
OpenFind(t, id) ==
    LET found == IF drv \in {"probed", "announced", "ready"} THEN ById(id) ELSE {}
    IN  /\ opc[t] = "none" /\ DevtTaken(id)
        /\ IF found = {} THEN Goto(t, "crashed") /\ UNCHANGED filp
           ELSE \E p \in found : Goto(t, "found") /\ filp' = [filp EXCEPT ![t] = p]
        /\ UNCHANGED <<qemu, queues, missed, work, drv, ports, port>>

\* kref_get, under the lock of the port's portdev.
OpenRef(t) ==
    LET p == filp[t]
    IN  /\ opc[t] = "found"
        /\ IF port[p].portdev
           THEN Goto(t, "held") /\ port' = [port EXCEPT ![p].kref = @ + 1]
           ELSE Goto(t, "crashed") /\ UNCHANGED port
        /\ UNCHANGED <<qemu, queues, missed, work, drv, ports, filp>>

\* Mutant: a port that is open already keeps the reference.
OpenConnectKeeps(t) ==
    LET p == filp[t]
    IN  /\ opc[t] = "held"
        /\ IF port[p].guest
           THEN Goto(t, "none") /\ filp' = [filp EXCEPT ![t] = NoMem] /\ UNCHANGED port
           ELSE port' = [port EXCEPT ![p].guest = TRUE] /\ Goto(t, "notify") /\ UNCHANGED filp
        /\ UNCHANGED <<qemu, queues, missed, work, drv, ports>>

\* One task at a time has a port open.
OpenConnect(t) ==
    LET p == filp[t]
    IN  /\ opc[t] = "held"
        /\ IF port[p].guest
           THEN kref_put(p) /\ Goto(t, "none") /\ filp' = [filp EXCEPT ![t] = NoMem]
           ELSE port' = [port EXCEPT ![p].guest = TRUE] /\ Goto(t, "notify") /\ UNCHANGED filp
        /\ UNCHANGED <<qemu, queues, missed, work, drv, ports>>

\* send_control_msg(port, PORT_OPEN, value), unless the port was unplugged.
Notify(t, value, sent, skip) ==
    /\ IF port[filp[t]].portdev
       THEN /\ Post(t, "OPEN", port[filp[t]].id, value)
            /\ Goto(t, sent)
       ELSE UNCHANGED covq /\ Goto(t, skip)
    /\ UNCHANGED <<qemu, ctl, cused, hbusy, garbled, missed, work, drv, ports, port, filp>>

OpenNotify(t) == opc[t] = "notify" /\ Notify(t, TRUE, "openSent", "open")

ReleaseNotify(t) == opc[t] = "open" /\ Notify(t, FALSE, "closeSent", "close")

Notified(t, sent, next) ==
    /\ opc[t] = sent
    /\ SeesUsed
    /\ Goto(t, next)
    /\ UNCHANGED <<qemu, ctl, covq, hbusy, garbled, missed, work, drv, ports, port, filp>>

OpenReturn(t) == Notified(t, "openSent", "open")

ReleaseNotified(t) == Notified(t, "closeSent", "close")

ReleaseDisconnect(t) ==
    /\ opc[t] = "close"
    /\ port' = [port EXCEPT ![filp[t]].guest = FALSE]
    /\ Goto(t, "put")
    /\ UNCHANGED <<qemu, queues, missed, work, drv, ports, filp>>

ReleasePut(t) ==
    /\ opc[t] = "put"
    /\ kref_put(filp[t])
    /\ Goto(t, "none")
    /\ filp' = [filp EXCEPT ![t] = NoMem]
    /\ UNCHANGED <<qemu, queues, missed, work, drv, ports>>

----------------------------------------------------------------------------
HostNext == \/ \E nr \in Ids \cup {BAD_ID} : Plug(nr)
            \/ \E id \in Ids : Unplug(id) \/ (\E v \in BOOLEAN : HostConnect(id, v))
HostControl == HandleDeviceReady \/ HandlePortReady \/ HandlePortOpen
WorkNext == \/ CtlDrop \/ CtlAddKnown \/ CtlAddFails \/ CtlAddList \/ CtlSend \/ CtlSent
            \/ CtlOpen \/ CtlName \/ CtlNameFails \/ CtlRequeue
            \/ \E p \in Mem : CtlAdd(p) \/ CtlRemove(p)
            \/ UnplugDisconnect \/ UnplugDetach \/ UnplugPut
ProbeNext == ProbeList \/ ProbeAnnounce \/ ProbeReturn
RemoveNext == RemoveReset \/ RemoveCancel \/ (\E p \in Mem : RemovePort(p)) \/ RemoveDone
OpenNext(t) == OpenRef(t) \/ OpenConnect(t) \/ OpenNotify(t) \/ OpenReturn(t)
ReleaseNext(t) == ReleaseNotified(t) \/ ReleaseDisconnect(t) \/ ReleasePut(t)
TaskNext(t) == \/ \E id \in Ids : OpenFind(t, id)
               \/ OpenNext(t) \/ ReleaseNotify(t) \/ ReleaseNext(t)

\* When QEMU has crashed or has read what nobody wrote, or the guest's kernel has
\* followed a null pointer, nothing more is said.
Stopped == hdead \/ garbled \/ \E t \in Tasks : opc[t] = "crashed"

Next == /\ ~Stopped
        /\ \/ HostNext \/ HostControl \/ WorkNext \/ Probe \/ ProbeNext
           \/ RemoveStart \/ RemoveNext
           \/ \E t \in Tasks : TaskNext(t)

Spec == Init /\ [][Next]_vars

\* QEMU serves its queues; the work queue, the tasks inside a call and the
\* thread that probes or removes the driver run.  Nothing makes QEMU plug a
\* port, a task open or close one, or the driver go.
FairSpec == /\ Spec
            /\ WF_vars(~Stopped /\ HostControl) /\ WF_vars(~Stopped /\ WorkNext)
            /\ WF_vars(~Stopped /\ ProbeNext) /\ WF_vars(~Stopped /\ RemoveNext)
            /\ \A t \in Tasks : WF_vars(~Stopped /\ (OpenNext(t) \/ ReleaseNext(t)))

----------------------------------------------------------------------------
(* Properties.                                                             *)

TypeOK ==
    /\ hports \in Seq(Ids) /\ Len(hports) <= Cardinality(Ids)
    /\ ports_map = {0} \cup Range(hports)
    /\ host_connected \in [Ids -> BOOLEAN] /\ guest_connected \in [Ids -> BOOLEAN]
    /\ cfd \in [Ids -> BOOLEAN] /\ hbusy \in BOOLEAN /\ hdead \in BOOLEAN
    /\ ctl \in Seq(Message) /\ Posted >= 0 /\ taken \in Message \cup {NoMessage}
    /\ covq \in Seq(Reply) /\ cused \in Nat /\ Len(covq) + cused <= Cardinality(Senders)
    /\ drv \in {"none", "filled", "probed", "announced", "ready", "leaving", "reset", "unplug"}
    /\ ports \subseteq heap /\ port \in [Mem -> Port \cup {Free}]
    /\ cpc \in {"idle", "list", "sendReady", "sendFailed", "sent", "stuck", "requeue",
                "disconnect", "detach", "put"}
    /\ cport \in Mem \cup {NoMem}
    /\ opc \in [Tasks -> {"none", "found", "held", "notify", "openSent", "open", "closeSent",
                          "close", "put", "stuck", "crashed"}]
    /\ filp \in [Tasks -> Mem \cup {NoMem}]
    /\ reused \subseteq known /\ known \subseteq Ids
    /\ missed \in BOOLEAN /\ garbled \in BOOLEAN

\* An id has one struct port, listed or not, so that no two of them share a
\* pair of virtqueues or a device number.
OnePortPerId == \A p, q \in heap : port[p].id = port[q].id => p = q

\* The reference count is the number of those who will put it: the device's
\* list or whoever adds or unplugs the port, and each open file.
Holders(p) == {t \in Tasks : filp[t] = p /\ opc[t] \notin {"none", "found", "crashed"}}
KrefExact ==
    \A p \in Mem : port[p].kref = Cardinality(Holders(p))
                                  + (IF p \in ports \/ p = cport THEN 1 ELSE 0)

\* Once every message has been handled and none was lost, the guest has the
\* ports QEMU has, with their names and the state of their connections.
Quiet == drv = "ready" /\ ctl = <<>> /\ covq = <<>> /\ cpc = "idle"
GuestKnowsPorts ==
    Quiet /\ ~missed /\ ~garbled =>
        /\ {port[p].id : p \in ports} = Range(hports)
        /\ \A p \in ports : port[p].name /\ port[p].host = host_connected[port[p].id]

\* QEMU believes that the guest has a port open only if a task of the guest is
\* somewhere between opening and closing it, or its closing is on the queue.
HostKnowsOpen ==
    ~garbled => \A id \in Range(hports) \ reused :
        guest_connected[id] =>
            \/ \E t \in Tasks : /\ opc[t] \in {"openSent", "open", "closeSent", "stuck"}
                                /\ port[filp[t]].id = id
            \/ \E m \in Range(covq) : m.event = "OPEN" /\ m.id = id /\ ~m.value

\* A port that stays plugged, with a connection that stays, comes to be known
\* to the guest, unless messages were lost.
PortsAppear ==
    \A id \in Ids :
        <>[](drv = "ready" /\ id \in Range(hports) /\ host_connected[id])
        => <>(missed \/ Stopped \/ \E p \in ports : port[p].id = id /\ port[p].host)

\* A task that opens a port gets past the host, unless the driver is removed.
OpenReturns ==
    \A t \in Tasks : opc[t] = "openSent" ~> (opc[t] # "openSent" \/ drv # "ready" \/ Stopped)

\* What open says of its lock: it prevents against a port getting hot-unplugged
\* at the same time.  The port that open found is still there to be referenced.
FoundIsThere == \A t \in Tasks : opc[t] = "found" => port[filp[t]].portdev
=============================================================================
