---------------------------- MODULE MCHistories ----------------------------
(***************************************************************************)
(* What a server pulls from the device, for TLC: the log in RAM, the log   *)
(* of the previous boot in flash, and the pressure.  The three share no    *)
(* state; a behaviour is about one of them.                                *)
(***************************************************************************)
EXTENDS LogRing, LogFlash, PressureHistory

VARIABLE which      \* the history this behaviour is about

MCInit ==
    /\ Init /\ FlashInit /\ HistoryInit
    /\ which \in {"log", "flash", "pressure"}

MCNext ==
    /\ \/ which = "log" /\ Next /\ UNCHANGED <<flashVars, histVars>>
       \/ which = "flash" /\ FlashNext /\ UNCHANGED <<vars, histVars>>
       \/ which = "pressure" /\ HistoryNext /\ UNCHANGED <<vars, flashVars>>
    /\ UNCHANGED which

MCSpec == MCInit /\ [][MCNext]_<<vars, flashVars, histVars, which>>
=============================================================================
