---------------------------- MODULE MCPumpManager ----------------------------
(***************************************************************************)
(* Small instances of PumpManager.  Level 0 is below the critical          *)
(* threshold, 1 below ON, 2 between ON and OFF, 3 at OFF.                  *)
(***************************************************************************)
EXTENDS PumpManager

MCLevels == 0 .. 3

Base == [on |-> 2, off |-> 3, critical |-> 1, min_on |-> 1, min_off |-> 1,
         max_on |-> 3, dry_detect |-> 2, dry_rise |-> 1,
         drop_confirm |-> 1, recovery_timeout |-> 2, max_starts |-> 2]

\* a second configuration with longer times and the lowest start limit
Slow == [Base EXCEPT !.min_off = 2, !.min_on = 2, !.max_on = 4,
                     !.max_starts = 1]

TwoConfigs == {Base, Slow}
=============================================================================
