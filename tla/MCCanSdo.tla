------------------------------ MODULE MCCanSdo ------------------------------
(***************************************************************************)
(* Plans for TLC: two texts of two segments beside a password; the empty   *)
(* text, one that fits the transfer buffer and not the datapoint, and one  *)
(* that fits neither; a text with a zero byte; the two numbers; the        *)
(* objects that cannot be written.                                         *)
(***************************************************************************)
EXTENDS CanSdo

Repeated(c, n) == [i \in 1 .. n |-> c]
Plan(objects, texts) == [objects |-> objects, texts |-> texts]
MCPlans ==
  {Plan({"text", "secret"}, {Repeated("a", 3), Repeated("b", 3)}),
   Plan({"text"}, {<<>>, Repeated("c", StrMax), Repeated("d", BufBytes + 1)}),
   Plan({"text"}, {<<"a", "b", "0", "c">>, Repeated("d", 3)}),
   Plan({"low", "high"}, {}), Plan({"state", "name"}, {})}
=============================================================================
