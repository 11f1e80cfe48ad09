----------------------------- MODULE MCWatchdog -----------------------------
(***************************************************************************)
(* Channels as in watchdog_table.c, with shorter deadlines: one that may   *)
(* reboot only with a link (session), one without a gate (pump), one that  *)
(* never reboots (canopen).                                                *)
(***************************************************************************)
EXTENDS Watchdog, TLC

Session == [deadline |-> 2, max_soft |-> 0, gated |-> TRUE, reboots |-> TRUE]
Pump    == [deadline |-> 1, max_soft |-> 1, gated |-> FALSE, reboots |-> TRUE]
CanOpen == [deadline |-> 2, max_soft |-> 0, gated |-> FALSE, reboots |-> FALSE]

AllKinds == (0 :> Session) @@ (1 :> Pump) @@ (2 :> CanOpen)
=============================================================================
