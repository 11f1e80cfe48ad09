----------------------------- MODULE BoundedLog -----------------------------
(***************************************************************************)
(* What the histories of the firmware promise their reader: entries are    *)
(* numbered without gaps from 1, the oldest ones give way to new ones, and *)
(* the reader can tell from `first` and `over` that this happened.         *)
(***************************************************************************)
EXTENDS Integers

CONSTANT Payloads       \* what an entry carries

VARIABLES
    items,              \* set of <<number, payload>>: the entries kept
    first,              \* number of the oldest entry kept
    next,               \* number of the next entry
    over                \* entries evicted since the start

vars == <<items, first, next, over>>

Init ==
    /\ items = {}
    /\ first = 1
    /\ next = 1
    /\ over = 0

(* A new entry evicts some of the oldest entries, possibly none. *)
Append(p) ==
    \E evicted \in 0..(next - first) :
        /\ first' = first + evicted
        /\ over' = over + evicted
        /\ next' = next + 1
        /\ items' = {x \in items : x[1] >= first'} \cup {<<next, p>>}

(* Emptied on request; the numbering goes on, so that the gap shows. *)
Clear ==
    /\ items' = {}
    /\ first' = next
    /\ UNCHANGED <<next, over>>

Next == Clear \/ \E p \in Payloads : Append(p)

Spec == Init /\ [][Next]_vars
=============================================================================
