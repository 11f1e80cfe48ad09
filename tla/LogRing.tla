------------------------------ MODULE LogRing ------------------------------
(***************************************************************************)
(* The RAM log: a byte ring of records of different sizes                  *)
(* (components/logging/src/log_ring.c) behind the critical section of      *)
(* logging_core.c, and the batch that the server pulls from it             *)
(* (task_com_fill_log_batch).                                              *)
(*                                                                         *)
(* Every operation runs under one lock, so each is one action.  A cell of  *)
(* the buffer stands for one byte as far as the ring reads it: the first   *)
(* byte of a record carries its size, with the level and number that the   *)
(* reader decodes from the following bytes; 0 is the wrap marker and also  *)
(* the content of the zeroed buffer; any other byte is Body.               *)
(***************************************************************************)
EXTENDS Integers, Sequences, FiniteSetsExt

CONSTANTS
    Capacity,           \* LOG_RING_BYTES, in the unit of the sizes
    Sizes,              \* sizes a record may have
    Levels,             \* levels that pass the store gate
    MaxSeq,             \* bound: records pushed
    MaxBatch            \* LOG_BATCH_MAX

(* A record has a header, and the largest one fits into the empty ring. *)
ASSUME RingAssumption ==
    /\ Capacity \in Nat /\ MaxSeq \in Nat /\ MaxBatch \in Nat \ {0}
    /\ Sizes # {} /\ Sizes \subseteq 1..Capacity
    /\ Levels # {} /\ Levels \subseteq Nat

VARIABLES
    buf,                \* the bytes
    ring,               \* the other members of log_ring_t
    emitted             \* history: level of every record, by number

vars == <<buf, ring, emitted>>

Offsets == 0..(Capacity - 1)
Zero == [size |-> 0, level |-> 0, seq |-> 0]
Body == [size |-> -1, level |-> 0, seq |-> 0]
----------------------------------------------------------------------------
(* log_ring_init over a static, zeroed buffer. *)
log_ring_init ==
    /\ buf = [o \in Offsets |-> Zero]
    /\ ring = [head |-> 0, tail |-> 0, used |-> 0, count |-> 0,
               next_seq |-> 1, first_seq |-> 1, overwritten |-> 0]
    /\ emitted = <<>>

at_wrap_gap(pos) == buf[pos].size = 0

(* Positions stay below the capacity: the end of the buffer is offset 0. *)
Advance(pos, size) == IF pos + size = Capacity THEN 0 ELSE pos + size

(* The oldest record, and a gap before it, are released. *)
discard_oldest(r) ==
    LET gap  == IF at_wrap_gap(r.tail) THEN Capacity - r.tail ELSE 0
        tail == IF at_wrap_gap(r.tail) THEN 0 ELSE r.tail
        size == buf[tail].size
        one  == [r EXCEPT !.used = @ - gap - size, !.tail = Advance(tail, size),
                          !.count = @ - 1, !.first_seq = @ + 1,
                          !.overwritten = @ + 1]
    IN  CASE r.count = 0 -> r
          [] r.count = 1 -> [one EXCEPT !.head = 0, !.tail = 0, !.used = 0]
          [] OTHER -> one

Free(r) == Capacity - r.used
EndSpace(r) == Capacity - r.head
AtEnd(r) == r.count = 0 \/ r.head >= r.tail

(* Mutant: the free bytes are not tested to be in one piece. *)
HasRoom_AnyPiece(r, needed) == Free(r) >= needed

(* The tests of the loop in log_ring_push: enough free bytes, and in one   *)
(* piece, at the head or (leaving a gap) at the start of the buffer.       *)
HasRoom(r, needed) ==
    /\ Free(r) >= needed
    /\ AtEnd(r) => \/ EndSpace(r) >= needed
                   \/ Free(r) - EndSpace(r) >= needed

(* The loop: the oldest records are discarded until the new one has room.  *)
discarded[k \in 0..ring.count] ==
    IF k = 0 THEN ring ELSE discard_oldest(discarded[k - 1])

MakeRoom(needed) ==
    discarded[Min({k \in 0..ring.count : HasRoom(discarded[k], needed)})]

(* Where the record goes: to the head or, leaving a gap, to the start. *)
LeavesGap(r, needed) == AtEnd(r) /\ EndSpace(r) < needed
StartOf(r, needed) == IF LeavesGap(r, needed) THEN 0 ELSE r.head

(* The rest of log_ring_push, once there is room: a gap is marked, the     *)
(* record is serialised and the positions move on.                         *)
StoreRecord(r, level, needed) ==
    LET head == StartOf(r, needed)
        rec  == [size |-> needed, level |-> level, seq |-> r.next_seq]
    IN  /\ r.next_seq <= MaxSeq
        /\ buf' = [o \in Offsets |->
                     CASE o = head -> rec
                       [] o \in (head + 1)..(head + needed - 1) -> Body
                       [] LeavesGap(r, needed) /\ o = r.head -> Zero
                       [] OTHER -> buf[o]]
        /\ ring' = [r EXCEPT
                     !.head = Advance(head, needed),
                     !.used = @ + needed
                                + (IF LeavesGap(r, needed) THEN EndSpace(r) ELSE 0),
                     !.count = @ + 1,
                     !.next_seq = @ + 1,
                     !.first_seq = IF r.count = 0 THEN r.next_seq ELSE @]
        /\ emitted' = emitted \o <<level>>

log_ring_push(level, needed) ==
    \E r \in {MakeRoom(needed)} : StoreRecord(r, level, needed)

(* log_ring_clear, through logging_clear_runtime (Log_Command 1). *)
log_ring_clear ==
    /\ ring' = [ring EXCEPT !.head = 0, !.tail = 0, !.used = 0, !.count = 0,
                            !.first_seq = ring.next_seq]
    /\ UNCHANGED <<buf, emitted>>
----------------------------------------------------------------------------
(* record_at: a gap is skipped; a size that cannot be one ends the walk.   *)
RecordPos(pos) == IF buf[pos].size = 0 THEN 0 ELSE pos
record_at(pos) ==
    LET p == RecordPos(pos)
    IN  buf[p].size \in Sizes /\ p + buf[p].size <= Capacity

(* Where log_ring_iter_next leaves the iterator: after the record, or, if  *)
(* none is found, where it was.                                            *)
iter_next == [pos \in Offsets |->
    IF record_at(pos) THEN Advance(RecordPos(pos), buf[RecordPos(pos)].size)
                      ELSE pos]

(* log_ring_iter_begin and _next: the position after i records. *)
iter_pos[i \in 0..ring.count] ==
    IF i = 0 THEN ring.tail ELSE iter_next[iter_pos[i - 1]]

(* The records from the tail on, at most as many as are counted. *)
Records ==
    LET pos == iter_pos
        n   == Min({i \in 0..ring.count : i = ring.count \/ ~record_at(pos[i])})
    IN  [i \in 1..n |-> buf[RecordPos(pos[i - 1])]]

(* log_ring_iter_seek passes over the records up to `since`, and the loop  *)
(* of logging_read_since over those less important than the filter.        *)
Passes(rec, since, min) == rec.seq > since /\ rec.level <= min

Wanted(since, min) ==
    LET records == Records
        kept[i \in 0..Len(records)] ==
            IF i = 0 THEN <<>>
            ELSE IF Passes(records[i], since, min)
                 THEN Append(kept[i - 1], records[i])
                 ELSE kept[i - 1]
    IN  kept[Len(records)]

(* logging_read_since: the oldest records after `since` that pass the      *)
(* filter, as many as the caller has room for.                             *)
logging_read_since(since, min, max) ==
    LET wanted == Wanted(since, min)
    IN  SubSeq(wanted, 1, Min({max, Len(wanted)}))

(* Mutant: one lost record is not reported. *)
fill_log_batch_LateOverflow(since, min, max, fits) ==
    LET read == logging_read_since(since, min, Min({max, MaxBatch}))
        n    == Min({Len(read), fits})
    IN  [records   |-> SubSeq(read, 1, n),
         cut       |-> n < Len(Wanted(since, min)),
         first_seq |-> ring.first_seq,
         next_seq  |-> ring.next_seq,
         overflow  |-> since + 2 < ring.first_seq]

(* The reply of task_com_fill_log_batch.  `fits` is the number of records  *)
(* that the byte budget of the link lets through: at least one, since the  *)
(* smallest budget holds the largest record.  The bounds of the window are *)
(* read under the same lock as the records.  `cut` is not part of the      *)
(* reply: it tells whether wanted records were left for the next pull.     *)
(* The allocation of the batch succeeds.                                   *)
fill_log_batch(since, min, max, fits) ==
    LET read == logging_read_since(since, min, Min({max, MaxBatch}))
        n    == Min({Len(read), fits})
    IN  [records   |-> SubSeq(read, 1, n),
         cut       |-> n < Len(Wanted(since, min)),
         first_seq |-> ring.first_seq,
         next_seq  |-> ring.next_seq,
         overflow  |-> since + 1 < ring.first_seq]
----------------------------------------------------------------------------
Init == log_ring_init

Next ==
    \/ log_ring_clear
    \/ \E level \in Levels, size \in Sizes : log_ring_push(level, size)

Spec == Init /\ [][Next]_vars
----------------------------------------------------------------------------
(* Type correctness: cells, positions and counters. *)
TypeOK ==
    /\ buf \in [Offsets -> {Zero, Body}
                  \cup [size : Sizes, level : Levels, seq : 1..MaxSeq]]
    /\ ring \in [head : Offsets, tail : Offsets, used : 0..Capacity,
                 count : 0..MaxSeq, next_seq : 1..(MaxSeq + 1),
                 first_seq : 1..(MaxSeq + 1), overwritten : 0..MaxSeq]
    /\ emitted \in Seq(Levels)

(* What the reader can find, by number. *)
Contents ==
    LET records == Records
    IN  {<<records[i].seq, records[i].level>> : i \in DOMAIN records}

(* The ring keeps the promise of a bounded log although records wrap,      *)
(* leave gaps and are evicted: walking the bytes from the tail yields the  *)
(* newest records, complete, in order and unaltered.                       *)
Log == INSTANCE BoundedLog WITH
    Payloads <- Levels,
    items <- Contents,
    first <- ring.first_seq,
    next <- ring.next_seq,
    over <- ring.overwritten
IsBoundedLog == Log!Spec

(* "The loss is thus never silent" (log_ring.h): whatever a reader asks    *)
(* for, each record it passes over in a batch is delivered unaltered, or   *)
(* excluded by its level filter, or reported by the overflow flag and the  *)
(* first available number.  A batch that was not cut reaches the newest    *)
(* record.                                                                 *)
LossIsNeverSilent ==
    \A since \in 0..Len(emitted), min \in Levels, max \in 1..MaxBatch, fits \in 1..MaxBatch :
        LET b     == fill_log_batch(since, min, max, fits)
            last  == IF b.cut THEN b.records[Len(b.records)].seq
                              ELSE b.next_seq - 1
        IN  \A s \in (since + 1)..last :
              \/ \E i \in DOMAIN b.records :
                    b.records[i].seq = s /\ b.records[i].level = emitted[s]
              \/ emitted[s] > min
              \/ b.overflow /\ s < b.first_seq
=============================================================================
