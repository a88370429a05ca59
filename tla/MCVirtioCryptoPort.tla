------------------------- MODULE MCVirtioCryptoPort -------------------------
(***************************************************************************)
(* The settings of the runs: one caller and everything that can happen to  *)
(* its port, two callers, and one caller that does not block.              *)
(***************************************************************************)
EXTENDS VirtioCryptoPort, TLC

Setting(users, nonblock, faults) ==
    [users |-> users, nonblock |-> nonblock, faults |-> faults]

SafeSettings ==
    {Setting({t}, FALSE, {"signal", "refuse", "close", "unplug"}) : t \in Tasks}
    \cup {Setting({t}, TRUE, {"signal", "unknown", "close", "refuse"}) : t \in Tasks}
    \cup {Setting(Tasks, FALSE, {"signal", "refuse", "close", "reopen"})}

LiveSettings == {Setting(Tasks, FALSE, {"signal", "close"})}
RefusedSettings == {Setting(Tasks, FALSE, {"refuse"})}

\* The posted in-buffers are ordered in Init, so they are not symmetric.
Symmetry == Permutations(Tasks) \cup Permutations(Cells)
=============================================================================
