---------------------------- MODULE MCLocalServer ----------------------------
(***************************************************************************)
(* Shapes for TLC: one and two clients with a queue that is just deep      *)
(* enough and one that is not; booting, its end with clients, and a link   *)
(* that goes and comes.                                                    *)
(***************************************************************************)
EXTENDS LocalServer

Shape(c, p, d, sc, n) ==
  [clients |-> c, pool |-> p, depth |-> d, scene |-> sc, conns |-> n]
MCShapes == {Shape(1, 1, 3, "boot", 0), Shape(1, 1, 3, "check", 2),
             Shape(1, 1, 3, "restart", 2), Shape(1, 4, 8, "clients", 4),
             Shape(1, 2, 2, "clients", 3),
             Shape(2, 1, 5, "clients", 3), Shape(2, 1, 2, "clients", 2)}
=============================================================================
