-------------------------- MODULE MCSocketProtocol --------------------------
(***************************************************************************)
(* Messages of three blocks: the least for which a text can end, the first *)
(* zero byte follow it, and a block of zeros come last.                    *)
(***************************************************************************)
EXTENDS SocketProtocol
=============================================================================
