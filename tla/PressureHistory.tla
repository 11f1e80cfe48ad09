--------------------------- MODULE PressureHistory ---------------------------
(***************************************************************************)
(* The pressure history: a ring of samples, one per cycle of the pump task *)
(* (components/pressure_history), and the batch that the cloud and the     *)
(* local maintenance session pull from it (task_com_fill_history_batch).   *)
(*                                                                         *)
(* Writer and readers run on different cores; every operation is one       *)
(* critical section and so one action or one value.  Time stamps are left  *)
(* out; the number of a sample is a 32-bit value, Word is 2^32.            *)
(***************************************************************************)
EXTENDS Integers, Sequences, FiniteSetsExt

CONSTANTS
    Places,             \* PRESSURE_HISTORY_CAPACITY
    Readings,           \* pressure and status of a sample
    MaxSamples,         \* bound: samples taken
    MaxRows,            \* 120, the limit of a batch
    Word

(* The numbers of one boot do not wrap: one sample a second. *)
ASSUME HistoryAssumption ==
    /\ Places \in Nat \ {0} /\ MaxRows \in Nat \ {0}
    /\ MaxSamples \in Nat /\ Word \in Nat /\ MaxSamples + 3 < Word

VARIABLES
    samples,            \* the storage
    hist,               \* the other members of pressure_ring_t
    taken               \* history: the reading of every sample, by number

histVars == <<samples, hist, taken>>
Blank == [sequence |-> 0, reading |-> 0]
-----------------------------------------------------------------------------
pressure_ring_init ==
    /\ samples = [i \in 0..(Places - 1) |-> Blank]
    /\ hist = [head |-> 0, count |-> 0, next_seq |-> 1, overwritten |-> 0,
               high_watermark |-> 0]
    /\ taken = <<>>

(* pressure_history_add. *)
pressure_ring_push(reading) ==
    LET full  == hist.count = Places
        count == IF full THEN Places ELSE hist.count + 1
    IN  /\ Len(taken) < MaxSamples
        /\ samples' = [samples EXCEPT ![hist.head] =
                         [sequence |-> hist.next_seq, reading |-> reading]]
        /\ hist' = [head           |-> (hist.head + 1) % Places,
                    count          |-> count,
                    next_seq       |-> hist.next_seq + 1,
                    overwritten    |-> hist.overwritten + (IF full THEN 1 ELSE 0),
                    high_watermark |-> Max({hist.high_watermark, count})]
        /\ taken' = Append(taken, reading)

first_seq == hist.next_seq - hist.count

(* Mutant: the position is counted from the slot of the newest sample. *)
pressure_ring_read_since_from_head(since, max) ==
    LET from == Max({(since + 1) % Word, first_seq})
        n    == Min({hist.next_seq - from, max})
        idx  == hist.head + (from - first_seq)
    IN  IF hist.count = 0 \/ from >= hist.next_seq THEN <<>>
        ELSE [i \in 1..n |-> samples[(idx + i - 1) % Places]]

(* The samples after number `since`, oldest first, at most `max`.  The     *)
(* numbers have no gaps, so the position of the first is computed.         *)
pressure_ring_read_since(since, max) ==
    LET from == Max({(since + 1) % Word, first_seq})
        n    == Min({hist.next_seq - from, max})
        idx  == ((hist.head + Places - hist.count) % Places) + (from - first_seq)
    IN  IF hist.count = 0 \/ from >= hist.next_seq THEN <<>>
        ELSE [i \in 1..n |-> samples[(idx + i - 1) % Places]]

(* Samples and bounds are read in one critical section.  Without memory    *)
(* for the samples only the bounds are sent.                               *)
task_com_fill_history_batch(since, max, memory) ==
    [samples   |-> IF memory
                   THEN pressure_ring_read_since(since, Min({max, MaxRows}))
                   ELSE <<>>,
     next_seq  |-> hist.next_seq,
     first_seq_available |-> first_seq]
-----------------------------------------------------------------------------
HistoryInit == pressure_ring_init

HistoryNext == \E reading \in Readings : pressure_ring_push(reading)

HistorySpec == HistoryInit /\ [][HistoryNext]_histVars
-----------------------------------------------------------------------------
(* The samples and the members of the ring.                                *)
HistoryTypeOK ==
    /\ samples \in [0..(Places - 1) -> [sequence : Nat, reading : Readings \cup {0}]]
    /\ hist \in [head : 0..(Places - 1), count : 0..Places, next_seq : Nat,
                 overwritten : Nat, high_watermark : 0..Places]
    /\ taken \in Seq(Readings)

(* The ring keeps the promise of a bounded log: what a reader can get is   *)
(* exactly the newest samples, the oldest giving way one at a time.        *)
Stored ==
    LET read == pressure_ring_read_since(first_seq - 1, Places)
    IN  {<<read[i].sequence, read[i].reading>> : i \in DOMAIN read}
Window == INSTANCE BoundedLog WITH
    Payloads <- Readings,
    items <- Stored,
    first <- first_seq,
    next <- hist.next_seq,
    over <- hist.overwritten
HistoryIsBoundedLog == Window!Spec

(* "Loss is NEVER silent" (pressure_ring.h): a reader at any position, its *)
(* own or one of an earlier boot, that asks for any number of samples gets *)
(* new ones only, unaltered and in order, none missing between its         *)
(* position and the last one it gets but those below first_seq_available.  *)
(* It gets some when there are some, and next_seq tells one that is ahead  *)
(* of the ring from one that has them all.  Positions further ahead than   *)
(* two behave like that one, except 2^32 - 1, which is not covered: since  *)
(* + 1 wraps in pressure_ring_read_since and the whole ring is returned.   *)
HistoryGapsShow ==
    \A since \in 0..(Len(taken) + 2), max \in 1..(MaxRows + 1), memory \in BOOLEAN :
        LET b    == task_com_fill_history_batch(since, max, memory)
            from == Max({since + 1, b.first_seq_available})
        IN  /\ \A i \in DOMAIN b.samples :
                   /\ b.samples[i].sequence = from + i - 1
                   /\ b.samples[i].reading = taken[from + i - 1]
            /\ memory /\ b.samples = <<>> => b.next_seq <= since + 1
            /\ b.next_seq = Len(taken) + 1
=============================================================================
