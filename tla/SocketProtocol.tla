--------------------------- MODULE SocketProtocol ---------------------------
(***************************************************************************)
(* The encrypted remote shell of socket-client: a client that sends one    *)
(* command per connection and the server that runs it and answers with its *)
(* output and an end-of-transmission mark.  Both keep one AES-CBC session  *)
(* of /dev/crypto for their whole life.                                    *)
(*                                                                         *)
(* A message is a fixed number of cipher blocks.  Of its ciphertext        *)
(* encrypt_data keeps, by strcpy, what precedes the first zero byte: block *)
(* k is k before the block with that byte, Cut there, and Zero after it.   *)
(* Of an initialization vector only matters whether it is zero.  TCP       *)
(* delivers the blocks in order, in pieces of any number of them.          *)
(***************************************************************************)
EXTENDS Integers, Sequences, SequencesExt

CONSTANT Blocks    \* ENC_SIZE, in cipher blocks

ASSUME BlocksPositive == Blocks \in Nat \ {0}

VARIABLES
    cpc, spc,     \* where the client and the server are
    conns,        \* connections: the server is on the first, the client on the last
    civ, siv,     \* their sessions' left-over IVs are zero
    cmd, rsp,     \* the last command and the last response that were sent
    full,         \* history: the response before the command had a last block
    ran,          \* what the server made of the command: "none", "intact", "garbled"
    shown,        \* what the client made of the response
    whole,        \* the network delivers a command to the server in one piece
    short         \* history: the client read less than the response at first

vars == <<cpc, spc, conns, civ, siv, cmd, rsp, full, ran, shown, whole, short>>

Zero == 0
Cut == Blocks + 1
EOT == Blocks + 2

\* A text of size blocks whose ciphertext has its first zero byte in block nul; 0
\* when it is the first byte, Blocks + 1 when there is none.
Message(size, nul, iv) == [size |-> size, nul |-> nul, iv |-> iv]
Messages == [size : 1 .. Blocks, nul : 0 .. Blocks + 1, iv : BOOLEAN]
NoMessage == Message(1, 0, TRUE)

\* Mutant: encrypt_data copies the whole ciphertext.
CiphertextWhole(m) == [k \in 1 .. Blocks |-> k]
\* The blocks of the buffer that is sent.
Ciphertext(m) ==
    [k \in 1 .. Blocks |-> IF k < m.nul THEN k ELSE IF k = m.nul THEN Cut ELSE Zero]

\* No zero byte comes before the last block of the ciphertext.
HasLastBlock(m) == m.nul > Blocks - 1

\* encrypt_data passes no IV, so the session's left-over one is used; what it
\* leaves is the last block of the ciphertext, before strcpy cuts it.
encrypt_data(size, nul, iv) == Message(size, nul, iv)

\* decrypt_data passes a zero IV.  The text comes out right when its blocks are
\* all there and were encrypted under a zero IV.
Intact(buffer, m) ==
    m.iv /\ \A k \in 1 .. m.size : k <= Len(buffer) /\ buffer[k] = k

\* The IV that decrypting leaves is zero: the last block of the buffer is zeros,
\* because the buffer is not full or because strcpy cut it.
LeavesZero(buffer) ==
    \/ Len(buffer) < Blocks
    \/ \E k \in 1 .. Blocks - 1 : buffer[k] \in {Zero, Cut, EOT}
    \/ buffer[Blocks] \in {Zero, EOT}

\* Connections that one side still has.
Tidy(cs) == SelectSeq(cs, LAMBDA c : ~(c.cclosed /\ c.sclosed))
NewConn == [c2s |-> <<>>, s2c |-> <<>>, cclosed |-> FALSE, sclosed |-> FALSE]

Init ==
    /\ cpc = "prompt" /\ spc = "accept" /\ conns = <<>>
    /\ civ = TRUE /\ siv = TRUE
    /\ cmd = NoMessage /\ rsp = NoMessage /\ full = FALSE
    /\ ran = "none" /\ shown = "none" /\ whole \in BOOLEAN /\ short = FALSE
-----------------------------------------------------------------------------
(* The client. *)

\* Mutant: the client does not wait for the response.
CommandNoWait(size, nul) ==
    /\ cpc = "prompt" /\ spc # "dead"
    /\ cmd' = encrypt_data(size, nul, civ)
    /\ civ' = FALSE
    /\ conns' = Append(conns, [NewConn EXCEPT !.c2s = Ciphertext(cmd'), !.cclosed = TRUE])
    /\ full' = HasLastBlock(rsp) /\ ran' = "none" /\ shown' = "none" /\ short' = FALSE
    /\ UNCHANGED <<cpc, spc, siv, rsp, whole>>

\* A command is read, a connection is opened, and the command is sent.
Command(size, nul) ==
    /\ cpc = "prompt" /\ spc # "dead"
    /\ cmd' = encrypt_data(size, nul, civ)
    /\ civ' = FALSE
    /\ conns' = Append(conns, [NewConn EXCEPT !.c2s = Ciphertext(cmd')])
    /\ cpc' = "read" /\ full' = HasLastBlock(rsp) /\ ran' = "none" /\ shown' = "none" /\ short' = FALSE
    /\ UNCHANGED <<spc, siv, rsp, whole>>

Mine == conns[Len(conns)]

\* Mutant: a read that is not full ends the response.
EndsShort(n, eot) == eot \/ n < Blocks
\* Mutant: only the mark ends it.
EndsOnMark(n, eot) == eot
\* The mark or the end of the stream ends it.
Ends(n, eot) == eot \/ n = 0

\* One turn of the response loop: the end of what was read is compared with the
\* mark, and otherwise it is decrypted and printed.  At the end of the stream
\* the empty buffer is decrypted, and the loop ends.
ClientRead ==
    /\ cpc = "read"
    /\ \E n \in 0 .. Blocks :
        LET buffer == SubSeq(Mine.s2c, 1, n)
            eot == n > 0 /\ Last(buffer) = EOT
            ends == Ends(n, eot) IN
        /\ n <= Len(Mine.s2c) /\ (n = 0 => Mine.s2c = <<>> /\ Mine.sclosed)
        /\ civ' = IF eot THEN civ ELSE LeavesZero(buffer)
        /\ IF ends \/ shown # "none" THEN UNCHANGED <<shown, short>>
           ELSE /\ shown' = IF Intact(buffer, rsp) THEN "intact" ELSE "garbled"
                /\ short' = (n < Blocks)
        /\ cpc' = IF ends THEN "prompt" ELSE "read"
        /\ conns' = Tidy([conns EXCEPT ![Len(conns)] =
                        [@ EXCEPT !.s2c = SubSeq(@, n + 1, Len(@)), !.cclosed = ends]])
    /\ UNCHANGED <<spc, siv, cmd, rsp, full, ran, whole>>

\* The server closed with data unread: the connection is reset, what is on its
\* way to the client may be lost, and the client exits.
ClientReset ==
    /\ cpc = "read" /\ Mine.sclosed /\ Mine.c2s # <<>>
    /\ cpc' = "exited"
    /\ conns' = Tidy([conns EXCEPT ![Len(conns)].cclosed = TRUE])
    /\ UNCHANGED <<spc, civ, siv, cmd, rsp, full, ran, shown, whole, short>>

\* The client is started again, with a new session.
ClientStart ==
    /\ cpc = "exited" /\ cpc' = "prompt" /\ civ' = TRUE
    /\ UNCHANGED <<spc, conns, siv, cmd, rsp, full, ran, shown, whole, short>>
-----------------------------------------------------------------------------
(* The server. *)

Accept ==
    /\ spc = "accept" /\ conns # <<>> /\ ~Head(conns).sclosed
    /\ spc' = "read"
    /\ UNCHANGED <<cpc, conns, civ, siv, cmd, rsp, full, ran, shown, whole, short>>

\* A buffer is read and decrypted; the command in it is run unless the buffer or
\* the text is empty.  Text that is garbled may happen to be empty.
ServerRead ==
    LET c2s == Head(conns).c2s IN
    /\ spc = "read"
    /\ \E n \in 0 .. Blocks, empty \in BOOLEAN :
        LET buffer == SubSeq(c2s, 1, n)
            intact == Intact(buffer, cmd)
            stop == n = 0 \/ Head(buffer) = Zero \/ empty IN
        /\ n <= Len(c2s) /\ (n = 0 => c2s = <<>> /\ Head(conns).cclosed)
        /\ whole => n = Len(c2s)
        /\ empty => n > 0 /\ ~intact
        /\ siv' = LeavesZero(buffer)
        /\ spc' = IF stop THEN "accept" ELSE "write"
        /\ ran' = IF stop \/ Len(conns) > 1 THEN ran ELSE IF intact THEN "intact" ELSE "garbled"
        /\ conns' = Tidy([conns EXCEPT ![1] = [@ EXCEPT !.c2s = SubSeq(@, n + 1, Len(@)),
                                                        !.sclosed = stop]])
    /\ UNCHANGED <<cpc, civ, cmd, rsp, full, shown, whole, short>>

\* The write loop ends with the mark when one write took the whole buffer.
WithMark(message) == message \o <<EOT>>

\* The output is encrypted and sent, and for a test decrypted again.  What is
\* written to a client that has closed is lost.
ServerWrite(size, nul) ==
    /\ spc = "write"
    /\ rsp' = encrypt_data(size, nul, siv)
    /\ siv' = LeavesZero(Ciphertext(rsp'))
    /\ spc' = "read"
    /\ conns' = IF Head(conns).cclosed THEN conns
                ELSE [conns EXCEPT ![1].s2c = @ \o WithMark(Ciphertext(rsp'))]
    /\ UNCHANGED <<cpc, civ, cmd, full, ran, shown, whole, short>>

\* The client closed with data unread, or is written to after it closed: the
\* server's read fails, or its write raises SIGPIPE.
ServerDies ==
    /\ conns # <<>> /\ Head(conns).cclosed
    /\ spc = "write" \/ (spc = "read" /\ Head(conns).s2c # <<>>)
    /\ spc' = "dead"
    /\ conns' = Tidy([i \in DOMAIN conns |-> [conns[i] EXCEPT !.sclosed = TRUE]])
    /\ UNCHANGED <<cpc, civ, siv, cmd, rsp, full, ran, shown, whole, short>>

\* The server is started again, with a new session.
ServerStart ==
    /\ spc = "dead" /\ spc' = "accept" /\ siv' = TRUE
    /\ UNCHANGED <<cpc, conns, civ, cmd, rsp, full, ran, shown, whole, short>>
-----------------------------------------------------------------------------
Sizes == 1 .. Blocks
Nuls == 0 .. Blocks + 1

Next ==
    \/ \E size \in Sizes, nul \in Nuls : Command(size, nul)
    \/ ClientRead \/ ClientReset \/ ClientStart
    \/ Accept \/ ServerRead
    \/ \E size \in Sizes, nul \in Nuls : ServerWrite(size, nul)
    \/ ServerDies \/ ServerStart

\* Both processes run, and the network delivers what was sent.  Nobody has to
\* type a command or start a program again.
FairSpec ==
    /\ Init /\ [][Next]_vars
    /\ WF_vars(ClientRead \/ ClientReset)
    /\ WF_vars(Accept) /\ WF_vars(ServerRead)
    /\ WF_vars(\E size \in Sizes, nul \in Nuls : ServerWrite(size, nul))
-----------------------------------------------------------------------------
\* The variables have their types; the client is never more than one connection
\* ahead of the server.
TypeOK ==
    /\ cpc \in {"prompt", "read", "exited"} /\ spc \in {"accept", "read", "write", "dead"}
    /\ conns \in Seq([c2s : Seq(0 .. EOT), s2c : Seq(0 .. EOT), cclosed : BOOLEAN, sclosed : BOOLEAN])
    /\ Len(conns) <= 2
    /\ {civ, siv, full, whole, short} \subseteq BOOLEAN
    /\ {cmd, rsp} \subseteq Messages
    /\ {ran, shown} \subseteq {"none", "intact", "garbled"}

\* What the server runs is what was typed, and what the client prints first is
\* the output, although encrypt_data uses whatever IV the previous call left and
\* decrypt_data a zero one: the IV is left zero by the zeros that follow a cut
\* ciphertext, across connections and however the client's reads were cut up.
\* A text is lost only where the code loses it: its own ciphertext has a zero
\* byte in the blocks of the text, the message before it had none before its
\* last block, or the client's first read was short.
TextsIntact ==
    whole =>
        /\ ran = "garbled" => \/ cmd.nul <= cmd.size
                              \/ full
        /\ shown = "garbled" => \/ rsp.nul <= rsp.size
                                \/ HasLastBlock(cmd)
                                \/ short

\* When commands arrive in one piece, the server closes a connection only when
\* the client is done with it and the other way round, so that neither is ended
\* by a reset or by SIGPIPE.
NobodyDies == whole => cpc # "exited" /\ spc # "dead"

\* A client that sent a command gets its prompt back or ends: it and the server
\* never wait for each other, even when the server takes a command in pieces.
PromptReturns == cpc = "read" ~> cpc # "read"
=============================================================================
