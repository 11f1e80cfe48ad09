---------------------------- MODULE HistoryProofs ----------------------------
(***************************************************************************)
(* Proofs about the histories a server pulls: the ring of pressure samples *)
(* (PressureHistory), the log in RAM (LogRing) and the log of the previous *)
(* boot in flash (LogFlash), for every size of the rings, the records, the *)
(* slots and the queue, and any number of samples, boots and records.      *)
(***************************************************************************)
EXTENDS LogRing, LogFlash, PressureHistory, SequenceTheorems, WellFoundedInduction, TLAPS

-----------------------------------------------------------------------------
(* The larger of two numbers. *)
LEMMA MaxOfTwo ==
    ASSUME NEW a \in Int, NEW b \in Int
    PROVE  Max({a, b}) = IF a >= b THEN a ELSE b
<1> DEFINE m == IF a >= b THEN a ELSE b
<1>1. m \in {a, b} /\ \A y \in {a, b} : m >= y
  OBVIOUS
<1>2. \A x \in {a, b} : (\A y \in {a, b} : x >= y) => x = m
  OBVIOUS
<1> QED
  BY <1>1, <1>2 DEF Max

(* The smaller of two numbers. *)
LEMMA MinOfTwo ==
    ASSUME NEW a \in Int, NEW b \in Int
    PROVE  Min({a, b}) = IF a <= b THEN a ELSE b
<1> DEFINE m == IF a <= b THEN a ELSE b
<1>1. m \in {a, b} /\ \A y \in {a, b} : m <= y
  OBVIOUS
<1>2. \A x \in {a, b} : (\A y \in {a, b} : x <= y) => x = m
  OBVIOUS
<1> QED
  BY <1>1, <1>2 DEF Min

(* A bounded set of numbers that is not empty has a largest one. *)
LEMMA BoundedMax ==
    ASSUME NEW n \in Nat, NEW V, V \subseteq 0..n, V # {}
    PROVE  Max(V) \in V /\ \A y \in V : y <= Max(V)
<1> DEFINE R == OpToRel(<, Nat)
           T == {n - v : v \in V}
<1>1. IsWellFoundedOn(R, Nat)
  BY NatLessThanWellFounded
<1>2. T \subseteq Nat /\ T # {}
  <2>1. PICK v \in V : TRUE
    OBVIOUS
  <2>2. n - v \in T
    OBVIOUS
  <2>3. \A w \in V : n - w \in Nat
    OBVIOUS
  <2> QED
    BY <2>2, <2>3
<1>3. \A x \in Nat, y \in Nat : <<y, x>> \in R <=> y < x
  BY DEF OpToRel
<1> HIDE DEF R, T
<1>4. PICK x \in T : \A y \in T : ~(<<y, x>> \in R)
  BY <1>1, <1>2, WFMin
<1>5. PICK m \in V : x = n - m
  BY DEF T
<1>6. ASSUME NEW y \in V
      PROVE  m >= y
  <2>1. n - y \in T
    BY DEF T
  <2>2. ~(n - y < n - m)
    BY <1>2, <1>3, <1>4, <1>5, <2>1
  <2> QED
    BY <2>2
<1>7. \E x1 \in V : \A y \in V : x1 >= y
  BY <1>6
<1>8. Max(V) \in V /\ \A y \in V : Max(V) >= y
  BY <1>7, Zenon DEF Max
<1> QED
  BY <1>8

-----------------------------------------------------------------------------
\* How many samples will pass before slot i of the storage is overwritten,
\* and the number of the sample it holds (not positive: none yet).
Remaining(head, i) == IF i >= head THEN i - head ELSE i + Places - head
Number(i) == hist.next_seq - Places + Remaining(hist.head, i)

\* The members of the ring follow from the number of samples taken, and each
\* slot holds its sample.
RingInv ==
    /\ Len(taken) <= MaxSamples
    /\ hist.next_seq = Len(taken) + 1
    /\ hist.count = IF Len(taken) < Places THEN Len(taken) ELSE Places
    /\ hist.count < Places => hist.head = hist.count
    /\ \A i \in 0..(Places - 1) : Number(i) >= 1 =>
         samples[i] = [sequence |-> Number(i), reading |-> taken[Number(i)]]

-----------------------------------------------------------------------------
(* A position less than two rounds away is taken round at most once. *)
LEMMA Around ==
    ASSUME NEW x \in Nat, x < Places + Places
    PROVE  x % Places = IF x < Places THEN x ELSE x - Places
<1>0. Places \in Nat \ {0}
  BY HistoryAssumption
<1>1. CASE x < Places
  BY <1>0, <1>1
<1>2. CASE ~(x < Places)
  <2>1. x - Places \in 0..(Places - 1) /\ x = 1 * Places + (x - Places)
    BY <1>0, <1>2
  <2> QED
    BY <1>0, <1>2, <2>1
<1> QED
  BY <1>1, <1>2

(* A sample overwrites the slot at head, which then has all of a round     *)
(* before it; every other slot is one sample nearer.                       *)
LEMMA RemainingNext ==
    ASSUME NEW head \in 0..(Places - 1), NEW i \in 0..(Places - 1),
           NEW next, next = IF head + 1 = Places THEN 0 ELSE head + 1
    PROVE  /\ i = head => Remaining(next, i) = Places - 1
           /\ i # head => Remaining(next, i) = Remaining(head, i) - 1
BY HistoryAssumption DEF Remaining

-----------------------------------------------------------------------------
(* The types hold in every reachable state: pressure_ring_push keeps head  *)
(* and count inside the storage.                                           *)
LEMMA HistoryTypeStep ==
    ASSUME HistoryTypeOK, [HistoryNext]_histVars
    PROVE  HistoryTypeOK'
<1>0. Places \in Nat \ {0}
  BY HistoryAssumption
<1>1. ASSUME NEW r \in Readings, pressure_ring_push(r)
      PROVE  HistoryTypeOK'
  <2>1. taken' \in Seq(Readings)
    BY <1>1 DEF HistoryTypeOK, pressure_ring_push
  <2>2. samples' \in [0..(Places - 1) -> [sequence : Nat, reading : Readings \cup {0}]]
    BY <1>1 DEF HistoryTypeOK, pressure_ring_push
  <2>3. (hist.head + 1) % Places \in 0..(Places - 1)
    BY <1>0 DEF HistoryTypeOK
  <2> DEFINE c == IF hist.count = Places THEN Places ELSE hist.count + 1
  <2>4. c \in 0..Places
    BY <1>0 DEF HistoryTypeOK
  <2>5. Max({hist.high_watermark, c}) \in 0..Places
    <3>1. hist.high_watermark \in 0..Places
      BY DEF HistoryTypeOK
    <3>2. Max({hist.high_watermark, c})
            = IF hist.high_watermark >= c THEN hist.high_watermark ELSE c
      <4> HIDE DEF c
      <4> QED
        BY <1>0, <2>4, <3>1, MaxOfTwo
    <3> QED
      BY <2>4, <3>1, <3>2
  <2>6. hist' = [head |-> (hist.head + 1) % Places, count |-> c,
                 next_seq |-> hist.next_seq + 1,
                 overwritten |-> hist.overwritten
                                   + (IF hist.count = Places THEN 1 ELSE 0),
                 high_watermark |-> Max({hist.high_watermark, c})]
    BY <1>1 DEF pressure_ring_push
  <2>7. hist' \in [head : 0..(Places - 1), count : 0..Places, next_seq : Nat,
                   overwritten : Nat, high_watermark : 0..Places]
    <3>1. hist.next_seq + 1 \in Nat
          /\ hist.overwritten + (IF hist.count = Places THEN 1 ELSE 0) \in Nat
      BY DEF HistoryTypeOK
    <3> QED
      BY <2>3, <2>4, <2>5, <2>6, <3>1
  <2> QED
    BY <2>1, <2>2, <2>7 DEF HistoryTypeOK
<1>2. CASE UNCHANGED histVars
  BY <1>2 DEF histVars, HistoryTypeOK
<1> QED
  BY <1>1, <1>2 DEF HistoryNext

(* A new sample goes into the slot of the oldest one. *)
LEMMA RingStep ==
    ASSUME HistoryTypeOK, RingInv, [HistoryNext]_histVars
    PROVE  RingInv'
<1>0. /\ Places \in Nat \ {0} /\ hist.head \in 0..(Places - 1)
      /\ hist.count \in 0..Places /\ hist.next_seq \in Nat /\ MaxSamples \in Nat
      /\ taken \in Seq(Readings) /\ Len(taken) \in Nat
  BY HistoryAssumption DEF HistoryTypeOK
<1>1. ASSUME NEW r \in Readings, pressure_ring_push(r)
      PROVE  RingInv'
  <2>1. /\ Len(taken) < MaxSamples
        /\ samples' = [samples EXCEPT ![hist.head] =
                         [sequence |-> hist.next_seq, reading |-> r]]
        /\ hist'.head = (hist.head + 1) % Places
        /\ hist'.count = IF hist.count = Places THEN Places ELSE hist.count + 1
        /\ hist'.next_seq = hist.next_seq + 1
        /\ taken' = Append(taken, r)
    BY <1>1 DEF pressure_ring_push
  <2>2. /\ Len(taken') = Len(taken) + 1
        /\ taken'[Len(taken) + 1] = r
        /\ \A i \in 1..Len(taken) : taken'[i] = taken[i]
    BY <1>0, <2>1
  <2>3. hist'.head = IF hist.head + 1 = Places THEN 0 ELSE hist.head + 1
    <3>1. PICK x \in Nat : x = hist.head + 1 /\ x < Places + Places
      BY <1>0
    <3>2. x % Places = IF x < Places THEN x ELSE x - Places
      BY <3>1, Around
    <3> QED
      BY <1>0, <2>1, <3>1, <3>2
  <2>4. /\ Len(taken') <= MaxSamples
        /\ hist'.next_seq = Len(taken') + 1
        /\ hist'.count = IF Len(taken') < Places THEN Len(taken') ELSE Places
        /\ hist'.count < Places => hist'.head = hist'.count
    BY <1>0, <2>1, <2>2, <2>3 DEF RingInv
  <2>5. ASSUME NEW i \in 0..(Places - 1), Number(i)' >= 1
        PROVE  samples'[i] = [sequence |-> Number(i)',
                              reading |-> taken'[Number(i)']]
    <3>1. CASE i = hist.head
      <4>0. Remaining(hist'.head, i) = Places - 1
        BY <1>0, <2>3, <3>1, RemainingNext
      <4>1. Number(i)' = hist.next_seq
        BY <1>0, <2>1, <4>0 DEF Number
      <4>2. samples'[i] = [sequence |-> hist.next_seq, reading |-> r]
        BY <1>0, <2>1, <3>1 DEF HistoryTypeOK
      <4>3. taken'[hist.next_seq] = r
        BY <2>2 DEF RingInv
      <4> QED
        BY <4>1, <4>2, <4>3
    <3>2. CASE i # hist.head
      <4>0. /\ Remaining(hist'.head, i) = Remaining(hist.head, i) - 1
            /\ Remaining(hist.head, i) \in 1..(Places - 1)
        <5>1. Remaining(hist'.head, i) = Remaining(hist.head, i) - 1
          BY <1>0, <2>3, <3>2, RemainingNext
        <5> QED
          BY <1>0, <3>2, <5>1 DEF Remaining
      <4>1. Number(i)' = Number(i)
        BY <1>0, <2>1, <4>0 DEF Number
      <4>2. samples'[i] = samples[i]
        BY <1>0, <2>1, <3>2 DEF HistoryTypeOK
      <4>3. Number(i) \in 1..Len(taken)
        BY <1>0, <2>5, <4>0, <4>1 DEF Number, RingInv
      <4> QED
        BY <2>2, <4>1, <4>2, <4>3 DEF RingInv
    <3> QED
      BY <3>1, <3>2
  <2> QED
    BY <2>4, <2>5 DEF RingInv
<1>2. CASE UNCHANGED histVars
  BY <1>2 DEF histVars, RingInv, Number, Remaining
<1> QED
  BY <1>1, <1>2 DEF HistoryNext

(* An empty ring. *)
LEMMA RingStart ==
    ASSUME HistoryInit
    PROVE  HistoryTypeOK /\ RingInv
<1>0. /\ Places \in Nat \ {0} /\ MaxSamples \in Nat
      /\ samples = [i \in 0..(Places - 1) |-> [sequence |-> 0, reading |-> 0]]
      /\ hist = [head |-> 0, count |-> 0, next_seq |-> 1, overwritten |-> 0,
                 high_watermark |-> 0]
      /\ taken = <<>> /\ Len(taken) = 0
  BY HistoryAssumption DEF HistoryInit, pressure_ring_init, Blank
<1>1. HistoryTypeOK
  BY <1>0 DEF HistoryTypeOK
<1>2. \A i \in 0..(Places - 1) : ~(Number(i) >= 1)
  BY <1>0 DEF Number, Remaining
<1>3. RingInv
  BY <1>0, <1>2 DEF RingInv
<1> QED
  BY <1>1, <1>3

-----------------------------------------------------------------------------
(* The position that pressure_ring_read_since computes for sample q of len *)
(* is in the storage, and as many samples away from head as q is from the  *)
(* next but Places.                                                        *)
LEMMA PositionOfSample ==
    ASSUME NEW head \in 0..(Places - 1), NEW len \in Nat, NEW count \in Nat,
           count = IF len < Places THEN len ELSE Places,
           count < Places => head = count,
           NEW q \in Nat, len + 1 - count <= q, q <= len
    PROVE  \E k \in 0..(Places - 1) :
             /\ k = (((head + Places - count) % Places) + (q - (len + 1 - count)))
                      % Places
             /\ len + 1 - Places + Remaining(head, k) = q
<1>0. Places \in Nat \ {0}
  BY HistoryAssumption
<1>1. PICK d \in 0..(Places - 1) : d = q - (len + 1 - count) /\ d < count
  BY <1>0
<1>2. PICK x \in Nat : x = head + Places - count /\ x < Places + Places
  BY <1>0, <1>1
<1>3. x % Places = IF x < Places THEN x ELSE x - Places
  BY <1>2, Around
<1>4. x % Places = IF count < Places THEN 0 ELSE head
  BY <1>0, <1>2, <1>3
<1>5. PICK y \in Nat : y = (x % Places) + d /\ y < Places + Places
  BY <1>0, <1>1, <1>4
<1>6. y % Places = IF y < Places THEN y ELSE y - Places
  BY <1>5, Around
<1>7. PICK k \in 0..(Places - 1) : k = y % Places
  BY <1>0, <1>5, <1>6
<1>8. len + 1 - Places + Remaining(head, k) = q
  <2>1. CASE count < Places
    BY <1>0, <1>1, <1>4, <1>5, <1>6, <1>7, <2>1 DEF Remaining
  <2>2. CASE count = Places
    <3>1. y = head + d /\ q = len + 1 - Places + d
      BY <1>0, <1>1, <1>4, <1>5, <2>2
    <3>2. CASE y < Places
      BY <1>0, <1>1, <1>6, <1>7, <3>1, <3>2 DEF Remaining
    <3>3. CASE ~(y < Places)
      BY <1>0, <1>1, <1>6, <1>7, <3>1, <3>3 DEF Remaining
    <3> QED
      BY <3>2, <3>3
  <2> QED
    BY <1>0, <2>1, <2>2
<1> QED
  BY <1>1, <1>2, <1>5, <1>7, <1>8

(* So it is the slot the sample is in. *)
LEMMA SlotOfSample ==
    ASSUME HistoryTypeOK, RingInv,
           NEW q \in Nat, first_seq <= q, q <= Len(taken)
    PROVE  samples[(((hist.head + Places - hist.count) % Places)
                       + (q - first_seq)) % Places]
             = [sequence |-> q, reading |-> taken[q]]
<1>1. PICK head \in 0..(Places - 1), len \in Nat, count \in Nat :
        /\ head = hist.head /\ len = Len(taken) /\ count = hist.count
        /\ count = IF len < Places THEN len ELSE Places
        /\ count < Places => head = count
        /\ hist.next_seq = len + 1
  <2>1. /\ hist.head \in 0..(Places - 1) /\ Len(taken) \in Nat
        /\ hist.count \in Nat /\ hist.next_seq = Len(taken) + 1
        /\ hist.count = IF Len(taken) < Places THEN Len(taken) ELSE Places
        /\ hist.count < Places => hist.head = hist.count
    BY HistoryAssumption DEF HistoryTypeOK, RingInv
  <2> QED
    BY <2>1
<1>2. first_seq = len + 1 - count
  BY <1>1 DEF first_seq
<1>3. PICK k \in 0..(Places - 1) :
        /\ k = (((head + Places - count) % Places) + (q - (len + 1 - count)))
                 % Places
        /\ len + 1 - Places + Remaining(head, k) = q
  BY <1>1, <1>2, PositionOfSample
<1>4. Number(k) = q
  <2>1. Number(k) = len + 1 - Places + Remaining(head, k)
    <3>1. hist.next_seq = len + 1 /\ hist.head = head
      BY <1>1
    <3>2. Remaining(head, k) \in Int
      BY HistoryAssumption DEF Remaining
    <3> QED
      BY <3>1, <3>2, HistoryAssumption DEF Number
  <2> QED
    BY <1>3, <2>1
<1>5. q >= 1
  BY <1>1, <1>2, HistoryAssumption
<1>6. samples[k] = [sequence |-> q, reading |-> taken[q]]
  BY <1>4, <1>5 DEF RingInv
<1> QED
  BY <1>1, <1>2, <1>3, <1>6

(* The samples of a batch, and whether there are any. *)
LEMMA SamplesOfRead ==
    ASSUME HistoryTypeOK, RingInv, NEW since \in 0..(Len(taken) + 2),
           NEW max \in Nat \ {0}, NEW from,
           from = IF since + 1 >= first_seq THEN since + 1 ELSE first_seq
    PROVE  LET read == pressure_ring_read_since(since, max)
           IN  /\ \A i \in DOMAIN read : read[i] =
                      [sequence |-> from + i - 1, reading |-> taken[from + i - 1]]
               /\ read = <<>> => hist.next_seq <= since + 1
<1>1. PICK len \in Nat, count \in Nat, low \in Nat, start \in Nat, next \in Nat :
        /\ len = Len(taken) /\ len <= MaxSamples /\ count = hist.count
        /\ count = 0 => len = 0
        /\ start = since + 1 /\ start <= len + 3
        /\ low = first_seq /\ low = len + 1 - count /\ low >= 1
        /\ next = hist.next_seq /\ next = len + 1
  BY HistoryAssumption DEF HistoryTypeOK, RingInv, first_seq
<1>2. (since + 1) % Word = since + 1
  <2>0. start \in 0..(Word - 1) /\ Word \in Nat \ {0}
    BY <1>1, HistoryAssumption
  <2>1. start % Word = start
    BY <2>0
  <2> QED
    BY <1>1, <2>1
<1>3. Max({start, low}) = IF start >= low THEN start ELSE low
  BY MaxOfTwo
<1>4. Max({(since + 1) % Word, first_seq}) = from
  BY <1>1, <1>2, <1>3
<1>5. from \in Nat /\ from >= low /\ from >= start
      /\ (from = start \/ from = low)
  BY <1>1
<1>6. CASE count = 0 \/ from >= next
  <2>1. pressure_ring_read_since(since, max) = <<>>
    BY <1>1, <1>4, <1>6 DEF pressure_ring_read_since
  <2>2. next <= start
    BY <1>1, <1>5, <1>6
  <2> QED
    BY <1>1, <2>1, <2>2
<1>7. CASE ~(count = 0 \/ from >= next)
  <2>1. PICK left \in Nat : left = next - from /\ left >= 1
    BY <1>1, <1>5, <1>7
  <2>2. Min({left, max}) = IF left <= max THEN left ELSE max
    BY MinOfTwo
  <2>3. PICK n \in Nat : n = Min({hist.next_seq - from, max}) /\ n >= 1 /\ n <= left
    <3>1. hist.next_seq - from = left
      BY <1>1, <2>1
    <3>2. Min({hist.next_seq - from, max}) = Min({left, max})
      BY <3>1, Zenon
    <3>3. Min({left, max}) \in Nat /\ Min({left, max}) >= 1
          /\ Min({left, max}) <= left
      BY <2>1, <2>2
    <3> QED
      BY <3>2, <3>3
  <2> DEFINE base == (hist.head + Places - hist.count) % Places
  <2>4. pressure_ring_read_since(since, max) =
          [i \in 1..n |-> samples[(base + (from - first_seq) + i - 1) % Places]]
    BY <1>1, <1>4, <1>7, <2>3, Zenon DEF pressure_ring_read_since
  <2>5. ASSUME NEW i \in 1..n
        PROVE  samples[(base + (from - first_seq) + i - 1) % Places]
                 = [sequence |-> from + i - 1, reading |-> taken[from + i - 1]]
    <3>1. PICK q \in Nat : q = from + i - 1 /\ low <= q /\ q <= len
      <4>1. PICK f \in Nat : f = from /\ f >= low /\ left = next - f
        BY <1>5, <2>1
      <4>2. PICK j \in Nat : j = i /\ 1 <= j /\ j <= left
        BY <2>1, <2>3
      <4>3. f + j - 1 \in Nat /\ low <= f + j - 1 /\ f + j - 1 <= len
        BY <1>1, <2>1, <4>1, <4>2
      <4> QED
        BY <4>1, <4>2, <4>3
    <3>2. samples[(base + (q - first_seq)) % Places]
            = [sequence |-> q, reading |-> taken[q]]
      BY <1>1, <3>1, SlotOfSample
    <3>3. base \in Int
      BY HistoryAssumption DEF HistoryTypeOK
    <3>4. base + (q - first_seq) = base + (from - first_seq) + i - 1
      <4> HIDE DEF base
      <4>1. PICK f \in Nat, b \in Int : f = from /\ b = base /\ q = f + i - 1
        BY <1>5, <3>1, <3>3
      <4>2. b + (q - low) = b + (f - low) + i - 1
        BY <4>1
      <4> QED
        BY <1>1, <4>1, <4>2
    <3> QED
      BY <3>1, <3>2, <3>4
  <2>6. pressure_ring_read_since(since, max) # <<>>
    <3>1. 1 \in DOMAIN pressure_ring_read_since(since, max)
      BY <2>3, <2>4
    <3> QED
      BY <3>1
  <2> QED
    BY <2>4, <2>5, <2>6
<1> QED
  BY <1>6, <1>7

(* A batch is right in every state of the ring. *)
LEMMA BatchIsRight ==
    ASSUME HistoryTypeOK, RingInv
    PROVE  HistoryGapsShow
<1> SUFFICES ASSUME NEW since \in 0..(Len(taken) + 2), NEW max \in 1..(MaxRows + 1),
                    NEW memory \in BOOLEAN
             PROVE  LET b    == task_com_fill_history_batch(since, max, memory)
                        from == Max({since + 1, b.first_seq_available})
                    IN  /\ \A i \in DOMAIN b.samples :
                               /\ b.samples[i].sequence = from + i - 1
                               /\ b.samples[i].reading = taken[from + i - 1]
                        /\ memory /\ b.samples = <<>> => b.next_seq <= since + 1
                        /\ b.next_seq = Len(taken) + 1
  BY DEF HistoryGapsShow
<1> DEFINE b == task_com_fill_history_batch(since, max, memory)
           rows == Min({max, MaxRows})
           from == Max({since + 1, first_seq})
<1>1. /\ b.first_seq_available = first_seq /\ b.next_seq = hist.next_seq
      /\ b.samples = IF memory THEN pressure_ring_read_since(since, rows) ELSE <<>>
  BY DEF task_com_fill_history_batch
<1>2. b.next_seq = Len(taken) + 1
  BY <1>1 DEF RingInv
<1>3. rows \in Nat \ {0}
  <2>1. MaxRows \in Nat \ {0} /\ max \in Nat \ {0}
    BY HistoryAssumption
  <2>2. rows = IF max <= MaxRows THEN max ELSE MaxRows
    BY <2>1, MinOfTwo
  <2> QED
    BY <2>1, <2>2
<1>4. from = IF since + 1 >= first_seq THEN since + 1 ELSE first_seq
  <2>1. PICK start \in Int, low \in Int : start = since + 1 /\ low = first_seq
    BY DEF first_seq, HistoryTypeOK, RingInv
  <2>2. Max({start, low}) = IF start >= low THEN start ELSE low
    BY MaxOfTwo
  <2> QED
    BY <2>1, <2>2
<1> HIDE DEF rows, from, b
<1>5. CASE memory
  <2>1. /\ \A i \in DOMAIN b.samples : b.samples[i] =
             [sequence |-> from + i - 1, reading |-> taken[from + i - 1]]
        /\ b.samples = <<>> => hist.next_seq <= since + 1
    BY <1>1, <1>3, <1>4, <1>5, SamplesOfRead
  <2>2. ASSUME NEW i \in DOMAIN b.samples
        PROVE  /\ b.samples[i].sequence = from + i - 1
               /\ b.samples[i].reading = taken[from + i - 1]
    <3>1. b.samples[i] = [sequence |-> from + i - 1, reading |-> taken[from + i - 1]]
      BY <2>1, Zenon
    <3> QED
      BY <3>1
  <2>3. b.samples = <<>> => b.next_seq <= since + 1
    BY <1>1, <2>1
  <2>4. from = Max({since + 1, b.first_seq_available})
    BY <1>1 DEF from
  <2> QED
    BY <1>2, <2>2, <2>3, <2>4, Zenon DEF b
<1>6. CASE ~memory
  <2>1. b.samples = <<>>
    BY <1>1, <1>6
  <2> QED
    BY <1>1, <1>2, <1>6, <2>1 DEF b, from
<1> QED
  BY <1>5, <1>6

-----------------------------------------------------------------------------
(* What a reader can get is the newest samples. *)
WindowInv ==
    /\ Stored = {<<n, taken[n]>> : n \in first_seq..Len(taken)}
    /\ first_seq \in Nat /\ 1 <= first_seq /\ first_seq <= Len(taken) + 1

(* It follows from what is known of the slots. *)
LEMMA StoredIsWindow ==
    ASSUME HistoryTypeOK, RingInv
    PROVE  WindowInv
<1>1. PICK len \in Nat, count \in Nat, low \in Nat :
        /\ len = Len(taken) /\ count = hist.count /\ count <= len /\ count <= Places
        /\ low = first_seq /\ low = len + 1 - count /\ low >= 1 /\ low <= len + 1
        /\ hist.next_seq = len + 1 /\ len <= MaxSamples
  <2>1. /\ Len(taken) \in Nat /\ hist.count \in 0..Places /\ Places \in Nat
        /\ hist.next_seq = Len(taken) + 1 /\ Len(taken) <= MaxSamples
        /\ hist.count = IF Len(taken) < Places THEN Len(taken) ELSE Places
    BY HistoryAssumption DEF HistoryTypeOK, RingInv
  <2>2. first_seq = Len(taken) + 1 - hist.count
    BY <2>1 DEF first_seq
  <2>3. PICK len \in Nat, count \in Nat :
          len = Len(taken) /\ count = hist.count /\ count <= len /\ count <= Places
    BY <2>1
  <2>4. len + 1 - count \in Nat /\ len + 1 - count >= 1 /\ len + 1 - count <= len + 1
    BY <2>3
  <2> QED
    BY <2>1, <2>2, <2>3, <2>4
<1>2. PICK since \in 0..(Len(taken) + 2) :
        since = low - 1 /\ low = IF since + 1 >= first_seq THEN since + 1 ELSE first_seq
  BY <1>1
<1> DEFINE read == pressure_ring_read_since(since, Places)
<1>3. \A i \in DOMAIN read : read[i] =
            [sequence |-> low + i - 1, reading |-> taken[low + i - 1]]
  BY <1>2, HistoryAssumption, SamplesOfRead
<1>4. Min({count, Places}) = IF count <= Places THEN count ELSE Places
  BY HistoryAssumption, MinOfTwo
<1>5. Stored = {<<read[i].sequence, read[i].reading>> : i \in DOMAIN read}
  BY <1>1, <1>2, Zenon DEF Stored
<1>6. DOMAIN read = 1..count
  <2>1. low \in 0..(Word - 1) /\ Word \in Nat \ {0}
    BY <1>1, HistoryAssumption
  <2>2. low % Word = low /\ since + 1 = low
    <3>1. low % Word = low
      BY <2>1
    <3>2. since + 1 = low
      BY <1>1, <1>2
    <3> QED
      BY <3>1, <3>2
  <2>3. Max({low, low}) = low
    BY MaxOfTwo
  <2>4. Max({(since + 1) % Word, first_seq}) = low
    BY <1>1, <2>2, <2>3
  <2>5. CASE count = 0
    <3>1. read = <<>>
      BY <1>1, <2>5 DEF pressure_ring_read_since
    <3> QED
      BY <2>5, <3>1
  <2>6. CASE count # 0
    <3>1. hist.next_seq - low = count /\ ~(low >= hist.next_seq)
      BY <1>1, <2>6
    <3>2. Min({hist.next_seq - low, Places}) = count
      BY <1>1, <1>4, <3>1
    <3> QED
      BY <1>1, <2>4, <2>6, <3>1, <3>2 DEF pressure_ring_read_since
  <2> QED
    BY <2>5, <2>6
<1> HIDE DEF read
<1>7. ASSUME NEW i \in 1..count
      PROVE  <<read[i].sequence, read[i].reading>> = <<low + i - 1, taken[low + i - 1]>>
  BY <1>3, <1>6
<1>8. Stored = {<<low + i - 1, taken[low + i - 1]>> : i \in 1..count}
  BY <1>5, <1>6, <1>7
<1>9. ASSUME NEW n \in low..len
      PROVE  \E i \in 1..count : n = low + i - 1
  <2>1. PICK m \in Nat : m = n /\ low <= m /\ m <= len
    BY <1>1
  <2>2. PICK i \in Int : i = m + 1 - low
    OBVIOUS
  <2>3. i \in 1..count /\ m = low + i - 1
    <3>1. count = len + 1 - low
      BY <1>1
    <3> QED
      BY <2>1, <2>2, <3>1
  <2> QED
    BY <2>1, <2>3
<1>10. \A i \in 1..count : low + i - 1 \in low..len
  BY <1>1
<1>11. Stored = {<<n, taken[n]>> : n \in low..len}
  BY <1>8, <1>9, <1>10
<1> QED
  BY <1>1, <1>11 DEF WindowInv

(* A new sample is an Append of the bounded log. *)
LEMMA PushIsAppend ==
    ASSUME HistoryTypeOK, RingInv, WindowInv, WindowInv',
           NEW r \in Readings, pressure_ring_push(r)
    PROVE  Window!Append(r)
<1>1. /\ Stored = {<<n, taken[n]>> : n \in first_seq..Len(taken)}
      /\ first_seq \in Nat /\ 1 <= first_seq /\ first_seq <= Len(taken) + 1
  BY DEF WindowInv
<1>2. /\ Stored' = {<<n, taken'[n]>> : n \in first_seq'..Len(taken')}
      /\ first_seq' \in Nat
  BY DEF WindowInv
<1>3. PICK len \in Nat, count \in Nat :
        /\ len = Len(taken) /\ count = hist.count
        /\ count = IF len < Places THEN len ELSE Places
        /\ hist.next_seq = len + 1
  <2>1. /\ Len(taken) \in Nat /\ hist.count \in Nat
        /\ hist.count = IF Len(taken) < Places THEN Len(taken) ELSE Places
        /\ hist.next_seq = Len(taken) + 1
    BY HistoryAssumption DEF HistoryTypeOK, RingInv
  <2> QED
    BY <2>1
<1>4. /\ taken' = Append(taken, r) /\ taken \in Seq(Readings)
      /\ hist'.next_seq = hist.next_seq + 1
      /\ hist'.count = IF count = Places THEN Places ELSE count + 1
      /\ hist'.overwritten = hist.overwritten + (IF count = Places THEN 1 ELSE 0)
  BY <1>3 DEF pressure_ring_push, HistoryTypeOK
<1>5. PICK evicted \in 0..1 : evicted = IF count = Places THEN 1 ELSE 0
  OBVIOUS
<1>6. /\ first_seq' = first_seq + evicted
      /\ evicted \in 0..(hist.next_seq - first_seq)
      /\ first_seq + evicted <= len + 1
  <2>1. first_seq = len + 1 - count
    BY <1>3 DEF first_seq
  <2>2. first_seq' = len + 2 - (IF count = Places THEN Places ELSE count + 1)
    <3>1. first_seq' = hist'.next_seq - hist'.count /\ hist'.next_seq = len + 2
      BY <1>3, <1>4 DEF first_seq
    <3> QED
      BY <1>4, <3>1
  <2>3. PICK e \in Nat : e = evicted /\ e <= count
                         /\ e = IF count = Places THEN 1 ELSE 0
    BY <1>3, <1>5, HistoryAssumption
  <2> QED
    BY <1>3, <2>1, <2>2, <2>3
<1>7. /\ Len(taken') = len + 1 /\ taken'[len + 1] = r
      /\ \A n \in 1..len : taken'[n] = taken[n]
  BY <1>3, <1>4
<1>8. Stored' = {x \in Stored : x[1] >= first_seq'} \cup {<<hist.next_seq, r>>}
  <2>1. PICK low \in Nat, new \in Nat :
          /\ low = first_seq /\ new = first_seq' /\ 1 <= low /\ low <= new
          /\ new <= len + 1
    BY <1>1, <1>2, <1>5, <1>6
  <2>2. Stored' = {<<n, taken'[n]>> : n \in new..(len + 1)}
    BY <1>2, <1>7, <2>1
  <2>3. Stored = {<<n, taken[n]>> : n \in low..len}
    BY <1>1, <1>3, <2>1
  <2>4. {x \in Stored : x[1] >= new} = {<<n, taken[n]>> : n \in new..len}
    BY <2>1, <2>3
  <2>5. \A n \in new..len : taken'[n] = taken[n]
    BY <1>7, <2>1
  <2>6. \A n : n \in new..(len + 1) <=> n \in new..len \/ n = len + 1
    BY <2>1
  <2>7. Stored' = {<<n, taken[n]>> : n \in new..len} \cup {<<len + 1, r>>}
    BY <1>7, <2>2, <2>5, <2>6
  <2> QED
    BY <1>3, <2>1, <2>4, <2>7
<1> QED
  BY <1>4, <1>5, <1>6, <1>8 DEF Window!Append

-----------------------------------------------------------------------------
(* The types of the pressure history: pressure_ring_push keeps head and    *)
(* count inside the storage, whatever its size.                            *)
THEOREM HistoryTypes == HistorySpec => []HistoryTypeOK
<1>1. HistoryInit => HistoryTypeOK
  BY RingStart
<1>2. HistoryTypeOK /\ [HistoryNext]_histVars => HistoryTypeOK'
  BY HistoryTypeStep
<1> QED
  BY <1>1, <1>2, PTL DEF HistorySpec

(* A reader of the pressure history, at a position up to two ahead of the  *)
(* ring, gets the samples after it, unaltered and in order, and can tell   *)
(* what it lost (pressure_ring_read_since, task_com_fill_history_batch).   *)
THEOREM HistoryLossShows == HistorySpec => []HistoryGapsShow
<1>1. HistoryInit => HistoryTypeOK /\ RingInv
  BY RingStart
<1>2. HistoryTypeOK /\ RingInv /\ [HistoryNext]_histVars
        => (HistoryTypeOK /\ RingInv)'
  BY HistoryTypeStep, RingStep
<1>3. HistoryTypeOK /\ RingInv => HistoryGapsShow
  BY BatchIsRight
<1> QED
  BY <1>1, <1>2, <1>3, PTL DEF HistorySpec

(* The pressure history implements a bounded log: what a reader can get is *)
(* always the newest samples, and first_seq, next_seq and overwritten say  *)
(* which are gone.                                                         *)
THEOREM HistoryImplementsLog == HistorySpec => HistoryIsBoundedLog
<1>1. HistoryInit => HistoryTypeOK /\ RingInv
  BY RingStart
<1>2. HistoryTypeOK /\ RingInv /\ [HistoryNext]_histVars
        => (HistoryTypeOK /\ RingInv)'
  BY HistoryTypeStep, RingStep
<1>3. HistoryInit => Window!Init
  <2> SUFFICES ASSUME HistoryInit
               PROVE  Window!Init
    OBVIOUS
  <2>1. hist.next_seq = 1 /\ hist.count = 0 /\ hist.overwritten = 0
    BY DEF HistoryInit, pressure_ring_init
  <2>2. first_seq = 1
    BY <2>1 DEF first_seq
  <2>3. pressure_ring_read_since(first_seq - 1, Places) = <<>>
    BY <2>1 DEF pressure_ring_read_since
  <2>4. Stored = {}
    BY <2>3 DEF Stored
  <2> QED
    BY <2>1, <2>2, <2>4 DEF Window!Init
<1>4. HistoryTypeOK /\ RingInv => WindowInv
  BY StoredIsWindow
<1>5. HistoryTypeOK /\ RingInv /\ WindowInv /\ WindowInv' /\ [HistoryNext]_histVars
        => [Window!Next]_(Window!vars)
  <2> SUFFICES ASSUME HistoryTypeOK, RingInv, WindowInv, WindowInv',
                      [HistoryNext]_histVars
               PROVE  [Window!Next]_(Window!vars)
    OBVIOUS
  <2>1. ASSUME NEW r \in Readings, pressure_ring_push(r)
        PROVE  Window!Next
    BY <2>1, PushIsAppend DEF Window!Next
  <2>2. CASE UNCHANGED histVars
    BY <2>2 DEF histVars, Window!vars, Stored, first_seq, pressure_ring_read_since
  <2> QED
    BY <2>1, <2>2 DEF HistoryNext
<1> QED
  BY <1>1, <1>2, <1>3, <1>4, <1>5, PTL DEF HistorySpec, HistoryIsBoundedLog, Window!Spec

-----------------------------------------------------------------------------
(* Slot s has the log of the latest boot that has one. *)
Kept(s) == slot[s].valid /\ slot[s].boot = last /\ ~slot[s].acked

(* The latest log is in flash and not acknowledged: logging_ack_previous_  *)
(* boot only reaches the other slot.                                       *)
LastInv ==
    /\ last <= boot
    /\ \A b \in acked : b < last
    /\ last = 0 => \A s \in Slots : ~slot[s].valid
    /\ last # 0 => \E s \in Slots : Kept(s)

(* The generations tell the latest log from the other one. *)
SlotInv ==
    \A s \in Slots : slot[s].valid =>
        /\ 1 <= slot[s].boot /\ slot[s].boot <= last /\ 1 <= slot[s].gen
        /\ slot[s].boot = last /\ slot[1 - s].valid =>
               slot[1 - s].boot < last /\ slot[1 - s].gen < slot[s].gen

(* During start-up the latest log is in the other slot and is offered. *)
ClaimInv ==
    ram.phase \in {"erase", "header"} =>
        /\ last < boot
        /\ last # 0 => Kept(1 - ram.own) /\ slot[1 - ram.own].gen < ram.gen
        /\ ram.gen >= 1 /\ ram.writeOff = 0
        /\ ram.prevAvailable <=> last # 0
        /\ ram.prevAvailable => ram.prevBoot = last
        /\ ram.phase = "header" => ~slot[ram.own].valid

(* While the tier runs the own slot has the latest log. *)
RunInv ==
    ram.phase = "run" =>
        /\ boot = last /\ last # 0 /\ Kept(ram.own)
        /\ ram.prevAvailable => Previous.valid /\ Previous.boot = ram.prevBoot

(* The entries appended before any failure are the first of the slot. *)
Sound(s) ==
    \A i \in 1..Len(sure[slot[s].boot]) :
        /\ i <= Len(slot[s].data)
        /\ slot[s].data[i] = sure[slot[s].boot][i]
        /\ slot[s].data[i] # Damaged

(* Beyond the write position there is at most one entry, a damaged one,    *)
(* and as long as none is damaged all of them are known.                   *)
DataInv ==
    /\ \A b \in 1..MaxBoots : b > last => sure[b] = <<>>
    /\ \A s \in Slots : slot[s].valid => Sound(s)
    /\ ram.phase = "run" =>
         LET data == slot[ram.own].data
         IN  /\ ram.writeOff <= Len(data) /\ Len(data) <= ram.writeOff + 1
             /\ Len(data) = ram.writeOff + 1 => data[Len(data)] = Damaged
             /\ (\A i \in 1..Len(data) : data[i] # Damaged) => Len(sure[boot]) = Len(data)

-----------------------------------------------------------------------------
(* What programming an entry does to the data of a slot. *)
LEMMA ProgramData ==
    ASSUME NEW data \in Seq(0..MaxEmits), NEW off \in Nat, NEW entry \in 0..MaxEmits
    PROVE  /\ Program(data, off, entry) \in Seq(0..MaxEmits)
           /\ Len(Program(data, off, entry))
                = IF off < Len(data) THEN Len(data) ELSE Len(data) + 1
           /\ \A i \in 1..Len(data) :
                i # off + 1 => Program(data, off, entry)[i] = data[i]
           /\ off < Len(data) => Program(data, off, entry)[off + 1] = Damaged
           /\ ~(off < Len(data)) => Program(data, off, entry)[Len(data) + 1] = entry
<1>0. Damaged \in 0..MaxEmits
  BY FlashAssumption DEF Damaged
<1>1. CASE off < Len(data)
  <2>1. Program(data, off, entry) = [data EXCEPT ![off + 1] = Damaged]
        /\ off + 1 \in 1..Len(data)
    BY <1>1 DEF Program
  <2> QED
    BY <1>0, <1>1, <2>1
<1>2. CASE ~(off < Len(data))
  <2>1. Program(data, off, entry) = Append(data, entry)
    BY <1>2 DEF Program
  <2> QED
    BY <1>2, <2>1
<1> QED
  BY <1>1, <1>2

(* The types of the members of a slot. *)
LEMMA SlotTypes ==
    ASSUME FlashTypeOK, NEW s \in Slots
    PROVE  /\ slot[s] \in SlotSet /\ slot[s].valid \in BOOLEAN
           /\ slot[s].boot \in 0..MaxBoots /\ slot[s].gen \in Nat
           /\ slot[s].acked \in BOOLEAN /\ slot[s].data \in Seq(0..MaxEmits)
           /\ Len(slot[s].data) \in Nat /\ Len(slot[s].data) <= SlotCap
BY DEF FlashTypeOK, SlotSet

(* The types of the variables in RAM and of the numbers of the boots. *)
LEMMA RamTypes ==
    ASSUME FlashTypeOK
    PROVE  /\ ram.own \in Slots /\ 1 - ram.own \in Slots /\ 1 - ram.own # ram.own
           /\ ram.gen \in Nat /\ ram.prevAvailable \in BOOLEAN
           /\ ram.prevBoot \in 0..MaxBoots /\ ram.writeOff \in 0..SlotCap
           /\ ram.phase \in {"off", "erase", "header", "run", "inactive"}
           /\ boot \in 0..MaxBoots /\ last \in 0..MaxBoots /\ MaxBoots \in Nat
           /\ SlotCap \in Nat /\ MaxEmits \in Nat
BY FlashAssumption DEF FlashTypeOK, Slots, RamSet

(* Programming leaves the header of the slot and the other slot alone. *)
LEMMA ProgrammedSlot ==
    ASSUME FlashTypeOK, ~SlotFull, NEW entry \in 0..MaxEmits, NEW new,
           new = [slot EXCEPT ![ram.own].data =
                    Program(slot[ram.own].data, ram.writeOff, entry)]
    PROVE  /\ new \in [Slots -> SlotSet]
           /\ \A s \in Slots : Len(new[s].data) <= SlotCap
           /\ new[1 - ram.own] = slot[1 - ram.own]
           /\ new[ram.own].data = Program(slot[ram.own].data, ram.writeOff, entry)
           /\ \A s \in Slots : /\ new[s].valid <=> slot[s].valid
                               /\ new[s].boot = slot[s].boot
                               /\ new[s].gen = slot[s].gen
                               /\ new[s].acked <=> slot[s].acked
<1>0. slot \in [Slots -> SlotSet] /\ ram.own \in Slots /\ 1 - ram.own \in Slots
      /\ 1 - ram.own # ram.own
  BY RamTypes DEF FlashTypeOK, SlotSet
<1> DEFINE data == Program(slot[ram.own].data, ram.writeOff, entry)
<1>1. data \in Seq(0..MaxEmits) /\ Len(data) <= SlotCap
  <2>1. slot[ram.own].data \in Seq(0..MaxEmits) /\ Len(slot[ram.own].data) \in Nat
        /\ Len(slot[ram.own].data) <= SlotCap /\ ram.writeOff \in Nat
        /\ ram.writeOff < SlotCap /\ SlotCap \in Nat
    BY <1>0, RamTypes, SlotTypes DEF SlotFull
  <2>2. data \in Seq(0..MaxEmits)
        /\ Len(data) = IF ram.writeOff < Len(slot[ram.own].data)
                       THEN Len(slot[ram.own].data) ELSE Len(slot[ram.own].data) + 1
    <3>1. PICK old \in Seq(0..MaxEmits), off \in Nat :
            old = slot[ram.own].data /\ off = ram.writeOff
      BY <2>1
    <3>2. data = Program(old, off, entry)
      BY <3>1
    <3> HIDE DEF data
    <3>3. data \in Seq(0..MaxEmits)
          /\ Len(data) = IF off < Len(old) THEN Len(old) ELSE Len(old) + 1
      BY <3>2, ProgramData
    <3> QED
      BY <3>1, <3>3
  <2> QED
    BY <2>1, <2>2
<1> HIDE DEF data
<1>2. new = [slot EXCEPT ![ram.own] = [slot[ram.own] EXCEPT !.data = data]]
  BY DEF data
<1>3. new \in [Slots -> SlotSet]
  BY <1>0, <1>1, <1>2 DEF SlotSet
<1>4. /\ new[1 - ram.own] = slot[1 - ram.own]
      /\ new[ram.own] = [slot[ram.own] EXCEPT !.data = data]
      /\ \A s \in Slots : s # ram.own => new[s] = slot[s]
  BY <1>0, <1>2
<1>5. slot[ram.own] \in SlotSet
  BY <1>0
<1>6. /\ new[ram.own].data = data
      /\ new[ram.own].valid = slot[ram.own].valid
      /\ new[ram.own].boot = slot[ram.own].boot
      /\ new[ram.own].gen = slot[ram.own].gen
      /\ new[ram.own].acked = slot[ram.own].acked
  BY <1>4, <1>5 DEF SlotSet
<1>7. \A s \in Slots : Len(new[s].data) <= SlotCap
  BY <1>1, <1>4, <1>6 DEF FlashTypeOK
<1>8. ASSUME NEW s \in Slots
      PROVE  /\ new[s].valid <=> slot[s].valid
             /\ new[s].boot = slot[s].boot
             /\ new[s].gen = slot[s].gen
             /\ new[s].acked <=> slot[s].acked
  <2>1. CASE s = ram.own
    BY <1>6, <2>1, Zenon
  <2>2. CASE s # ram.own
    BY <1>4, <2>2, Zenon
  <2> QED
    BY <2>1, <2>2
<1> QED
  BY <1>3, <1>4, <1>6, <1>7, <1>8 DEF data

(* The slot that is claimed is one of the two. *)
LEMMA ChoiceIsASlot ==
    ASSUME FlashTypeOK
    PROVE  SlotChoice \in Slots /\ 1 - SlotChoice \in Slots
<1>1. SlotChoice \in Slots
  <2>1. slot[0].acked \in BOOLEAN /\ slot[1].acked \in BOOLEAN
    BY SlotTypes DEF Slots
  <2>2. ASSUME slot[0].acked # slot[1].acked
        PROVE  (CHOOSE s \in Slots : slot[s].acked) \in Slots
    <3>1. \E s \in Slots : slot[s].acked
      BY <2>1, <2>2, Zenon DEF Slots
    <3> QED
      BY <3>1
  <2> QED
    BY <2>2 DEF SlotChoice, Slots
<1> QED
  BY <1>1 DEF Slots

(* The generation of a claim is above those of the valid slots. *)
LEMMA GenerationGrows ==
    ASSUME FlashTypeOK
    PROVE  /\ NextGeneration \in Nat /\ NextGeneration >= 1
           /\ \A s \in Slots : slot[s].valid => slot[s].gen < NextGeneration
<1> DEFINE S == {1} \cup {slot[s].gen + 1 : s \in {t \in Slots : slot[t].valid}}
<1>1. PICK g0 \in Nat, g1 \in Nat : g0 = slot[0].gen + 1 /\ g1 = slot[1].gen + 1
                                    /\ g0 >= 1 /\ g1 >= 1
  <2>1. slot[0].gen \in Nat /\ slot[1].gen \in Nat
    BY SlotTypes DEF Slots
  <2> QED
    BY <2>1
<1>2. \A y : y \in S <=> \/ y = 1
                         \/ slot[0].valid /\ y = g0
                         \/ slot[1].valid /\ y = g1
  BY <1>1 DEF Slots
<1> HIDE DEF S
<1>3. \E x \in S : \A y \in S : x >= y
  <2>1. CASE slot[0].valid /\ slot[1].valid
    <3>1. (IF g0 >= g1 THEN g0 ELSE g1) \in S
      BY <1>2, <2>1
    <3> QED
      BY <1>1, <1>2, <3>1
  <2>2. CASE slot[0].valid /\ ~slot[1].valid
    BY <1>1, <1>2, <2>2
  <2>3. CASE ~slot[0].valid /\ slot[1].valid
    BY <1>1, <1>2, <2>3
  <2>4. CASE ~slot[0].valid /\ ~slot[1].valid
    BY <1>1, <1>2, <2>4
  <2> QED
    BY <2>1, <2>2, <2>3, <2>4
<1>4. NextGeneration \in S /\ \A y \in S : NextGeneration >= y
  BY <1>3, Zenon DEF NextGeneration, S, Max
<1>5. S \subseteq Nat /\ 1 \in S
  BY <1>1, <1>2
<1>6. ASSUME NEW s \in Slots, slot[s].valid
      PROVE  slot[s].gen < NextGeneration
  <2>1. slot[s].gen \in Nat
    BY SlotTypes
  <2>2. slot[s].gen + 1 \in S
    BY <1>6 DEF S
  <2> QED
    BY <1>4, <1>5, <2>1, <2>2
<1> QED
  BY <1>4, <1>5, <1>6

(* The slots keep their type: only whole headers, erased slots and entries *)
(* programmed inside the slot.                                             *)
LEMMA SlotTypeStep ==
    ASSUME FlashTypeOK, [FlashNext]_flashVars
    PROVE  slot' \in [Slots -> SlotSet] /\ \A s \in Slots : Len(slot'[s].data) <= SlotCap
<1>0. /\ slot \in [Slots -> SlotSet] /\ \A s \in Slots : Len(slot[s].data) <= SlotCap
      /\ ram.own \in Slots /\ 1 - ram.own \in Slots
  BY RamTypes DEF FlashTypeOK
<1>1. CASE slot' = slot
  BY <1>0, <1>1
<1>2. CASE Erase
  <2>1. Erased \in SlotSet /\ Len(Erased.data) <= SlotCap
    BY RamTypes DEF Erased, SlotSet
  <2>2. CASE slot' = [slot EXCEPT ![ram.own] = Erased]
    BY <1>0, <2>1, <2>2
  <2> QED
    BY <1>1, <1>2, <2>2 DEF Erase
<1>3. CASE WriteHeader
  <2> DEFINE new == [valid |-> TRUE, boot |-> boot, gen |-> ram.gen,
                     acked |-> FALSE, data |-> <<>>]
  <2>1. new \in SlotSet /\ Len(new.data) <= SlotCap
    BY RamTypes DEF SlotSet
  <2>2. CASE slot' = [slot EXCEPT ![ram.own] = new]
    BY <1>0, <2>1, <2>2
  <2> QED
    BY <1>1, <1>3, <2>2 DEF WriteHeader
<1>4. ASSUME NEW entry \in 0..MaxEmits, ~SlotFull,
             slot' = [slot EXCEPT ![ram.own].data =
                        Program(slot[ram.own].data, ram.writeOff, entry)]
      PROVE  slot' \in [Slots -> SlotSet]
             /\ \A s \in Slots : Len(slot'[s].data) <= SlotCap
  BY <1>4, ProgrammedSlot
<1>5. Damaged \in 0..MaxEmits
  BY FlashAssumption DEF Damaged
<1>6. CASE logf_task
  <2>1. Head(queue) \in 0..MaxEmits
    <3>1. queue \in Seq(1..MaxEmits) /\ queue # <<>>
      BY <1>6 DEF logf_task, FlashTypeOK
    <3>2. Head(queue) \in 1..MaxEmits
      BY <3>1, HeadTailProperties
    <3> QED
      BY <3>2, RamTypes
  <2>2. \/ slot' = slot
        \/ ~SlotFull /\ \E entry \in {Head(queue), Damaged} :
             slot' = [slot EXCEPT ![ram.own].data =
                        Program(slot[ram.own].data, ram.writeOff, entry)]
    BY <1>6 DEF logf_task
  <2> QED
    BY <1>1, <1>4, <1>5, <2>1, <2>2
<1>7. CASE PowerLoss
  <2>1. \/ slot' = slot
        \/ ~SlotFull /\ slot' = [slot EXCEPT ![ram.own].data =
                        Program(slot[ram.own].data, ram.writeOff, Damaged)]
    BY <1>7 DEF PowerLoss
  <2> QED
    BY <1>1, <1>4, <1>5, <2>1
<1>8. ASSUME NEW id \in 0..MaxBoots, ack_previous_boot(id)
      PROVE  slot' \in [Slots -> SlotSet]
             /\ \A s \in Slots : Len(slot'[s].data) <= SlotCap
  <2>1. CASE slot' = [slot EXCEPT ![1 - ram.own].acked = TRUE]
    <3>1. slot' = [slot EXCEPT ![1 - ram.own] =
                     [slot[1 - ram.own] EXCEPT !.acked = TRUE]]
      BY <2>1
    <3>2. [slot[1 - ram.own] EXCEPT !.acked = TRUE] \in SlotSet
          /\ [slot[1 - ram.own] EXCEPT !.acked = TRUE].data = slot[1 - ram.own].data
      BY <1>0 DEF SlotSet
    <3> QED
      BY <1>0, <3>1, <3>2
  <2> QED
    BY <1>1, <1>8, <2>1 DEF ack_previous_boot
<1> QED
  BY <1>1, <1>2, <1>3, <1>6, <1>7, <1>8 DEF FlashNext, Boot, Submit, flashVars

(* The variables in RAM keep their types: the position stays in the slot. *)
LEMMA RamTypeStep ==
    ASSUME FlashTypeOK, [FlashNext]_flashVars
    PROVE  ram' \in RamSet
<1>0. ram \in RamSet
  BY DEF FlashTypeOK
<1>1. CASE ram' = ram \/ ram' = Down \/ ram' = Inactive
  <2>1. Inactive \in RamSet
    BY <1>0 DEF RamSet, Inactive
  <2>2. Down \in RamSet
    BY RamTypes DEF RamSet, Down, Slots
  <2> QED
    BY <1>0, <1>1, <2>1, <2>2
<1>2. CASE Boot
  <2> DEFINE prev == slot[1 - SlotChoice]
             here == prev.valid /\ ~prev.acked /\ prev.boot # boot'
             id == IF prev.valid THEN prev.boot ELSE 0
  <2>1. here \in BOOLEAN
    BY Zenon
  <2>2. prev.boot \in 0..MaxBoots
    BY ChoiceIsASlot, SlotTypes
  <2>3. id \in 0..MaxBoots
    BY <2>2, RamTypes
  <2>4. ram' = [phase |-> "erase", own |-> SlotChoice, gen |-> NextGeneration,
                prevAvailable |-> here, prevBoot |-> id, writeOff |-> 0]
    BY <1>2, Zenon DEF Boot
  <2> HIDE DEF here, id
  <2> QED
    BY <2>1, <2>3, <2>4, ChoiceIsASlot, GenerationGrows, RamTypes DEF RamSet
<1>3. CASE Erase \/ WriteHeader
  <2>1. \/ ram' = Inactive
        \/ ram' = [ram EXCEPT !.phase = "header"]
        \/ ram' = [ram EXCEPT !.phase = "run"]
    BY <1>3 DEF Erase, WriteHeader
  <2> QED
    BY <1>0, <1>1, <2>1 DEF RamSet
<1>4. CASE logf_task
  <2>1. CASE ram' = [ram EXCEPT !.writeOff = @ + 1] /\ ~SlotFull
    <3>1. ram.writeOff + 1 \in 0..SlotCap
      BY <2>1, RamTypes DEF SlotFull
    <3> QED
      BY <1>0, <2>1, <3>1 DEF RamSet
  <2> QED
    BY <1>1, <1>4, <2>1 DEF logf_task
<1>5. ASSUME NEW id \in 0..MaxBoots, ack_previous_boot(id)
      PROVE  ram' \in RamSet
  <2>1. ram' = ram \/ ram' = [ram EXCEPT !.prevAvailable = FALSE]
    BY <1>5 DEF ack_previous_boot
  <2> QED
    BY <1>0, <2>1 DEF RamSet
<1> QED
  BY <1>1, <1>2, <1>3, <1>4, <1>5 DEF FlashNext, Submit, PowerLoss, flashVars

(* Every step keeps the types. *)
LEMMA FlashTypeStep ==
    ASSUME FlashTypeOK, [FlashNext]_flashVars
    PROVE  FlashTypeOK'
<1>0. /\ queue \in Seq(1..MaxEmits) /\ Len(queue) \in Nat /\ Len(queue) <= QueueLen
      /\ emits \in 0..MaxEmits /\ acked \subseteq 0..MaxBoots
      /\ sure \in [1..MaxBoots -> Seq(0..MaxEmits)]
      /\ QueueLen \in Nat \ {0} /\ boot \in 0..MaxBoots /\ last \in 0..MaxBoots
      /\ MaxBoots \in Nat /\ MaxEmits \in Nat
  BY FlashAssumption DEF FlashTypeOK
<1>1. queue' \in Seq(1..MaxEmits) /\ Len(queue') <= QueueLen /\ emits' \in 0..MaxEmits
  <2>1. CASE Submit
    <3>1. emits' \in 1..MaxEmits
      BY <1>0, <2>1 DEF Submit
    <3>2. \/ queue' = queue
          \/ queue' = Append(queue, emits') /\ Len(queue) < QueueLen
      BY <2>1 DEF Submit
    <3> QED
      BY <1>0, <3>1, <3>2
  <2>2. CASE logf_task
    <3>1. queue # <<>> /\ queue' = Tail(queue) /\ emits' = emits
      BY <2>2 DEF logf_task
    <3> QED
      BY <1>0, <3>1
  <2>3. CASE PowerLoss
    BY <1>0, <2>3 DEF PowerLoss
  <2>4. CASE Boot
    BY <1>0, <2>4 DEF Boot
  <2>5. CASE UNCHANGED <<queue, emits>>
    BY <1>0, <2>5
  <2> QED
    BY <2>1, <2>2, <2>3, <2>4, <2>5
       DEF FlashNext, Erase, WriteHeader, ack_previous_boot, flashVars
<1>2. boot' \in 0..MaxBoots /\ last' \in 0..MaxBoots
  BY <1>0 DEF FlashNext, Boot, Erase, WriteHeader, Submit, logf_task, PowerLoss,
              ack_previous_boot, flashVars
<1>3. acked' \subseteq 0..MaxBoots
  <2>1. acked' = acked \/ acked' = acked \cup {ram.prevBoot}
    BY DEF FlashNext, Boot, Erase, WriteHeader, Submit, logf_task, PowerLoss,
           ack_previous_boot, flashVars
  <2>2. ram.prevBoot \in 0..MaxBoots
    BY RamTypes
  <2> QED
    BY <1>0, <2>1, <2>2
<1>4. sure' \in [1..MaxBoots -> Seq(0..MaxEmits)]
  <2>1. CASE logf_task
    <3>1. queue \in Seq(1..MaxEmits) /\ queue # <<>>
      BY <1>0, <2>1 DEF logf_task
    <3>2. Head(queue) \in 1..MaxEmits
      BY <3>1, HeadTailProperties
    <3>3. sure' = sure \/ sure' = [sure EXCEPT ![boot] = sure[boot]]
          \/ sure' = [sure EXCEPT ![boot] = Append(sure[boot], Head(queue))]
      BY <2>1 DEF logf_task
    <3>4. CASE boot \in 1..MaxBoots
      <4>1. sure[boot] \in Seq(0..MaxEmits)
            /\ Append(sure[boot], Head(queue)) \in Seq(0..MaxEmits)
        BY <1>0, <3>2, <3>4
      <4> QED
        BY <1>0, <3>3, <4>1
    <3>5. CASE boot \notin 1..MaxBoots
      BY <1>0, <3>3, <3>5
    <3> QED
      BY <3>4, <3>5
  <2>2. CASE sure' = sure
    BY <1>0, <2>2
  <2> QED
    BY <2>1, <2>2 DEF FlashNext, Boot, Erase, WriteHeader, Submit, PowerLoss,
                      ack_previous_boot, flashVars
<1> QED
  BY <1>1, <1>2, <1>3, <1>4, SlotTypeStep, RamTypeStep DEF FlashTypeOK

-----------------------------------------------------------------------------
HeaderInv == LastInv /\ SlotInv /\ ClaimInv /\ RunInv

(* The header of a slot did not change. *)
SameHeader(s) ==
    /\ slot'[s].valid <=> slot[s].valid
    /\ slot'[s].boot = slot[s].boot
    /\ slot'[s].gen = slot[s].gen
    /\ slot'[s].acked <=> slot[s].acked

(* A step that leaves the headers alone. *)
LEMMA HeadersAside ==
    ASSUME FlashTypeOK, FlashTypeOK', LastInv, SlotInv,
           SameHeader(0), SameHeader(1), last' = last, acked' = acked, boot' >= boot
    PROVE  LastInv' /\ SlotInv' /\ \A s \in Slots : Kept(s)' <=> Kept(s)
<1>1. ASSUME NEW s \in Slots
      PROVE  /\ SameHeader(s) /\ 1 - s \in Slots /\ SameHeader(1 - s)
  BY DEF Slots
<1>2. ASSUME NEW s \in Slots
      PROVE  Kept(s)' <=> Kept(s)
  BY <1>1 DEF Kept, SameHeader
<1>3. last <= boot'
  BY RamTypes, FlashTypeOK' DEF LastInv, FlashTypeOK
<1>4. LastInv'
  BY <1>1, <1>2, <1>3 DEF LastInv, SameHeader
<1>5. SlotInv'
  BY <1>1 DEF SlotInv, SameHeader
<1> QED
  BY <1>2, <1>4, <1>5

(* logging_flash_init never claims the slot with the latest log. *)
LEMMA ClaimSparesLatest ==
    ASSUME FlashTypeOK, LastInv, SlotInv, last # 0
    PROVE  Kept(1 - SlotChoice)
<1>1. PICK k \in Slots : Kept(k)
  BY DEF LastInv
<1>2. /\ slot[0].valid \in BOOLEAN /\ slot[1].valid \in BOOLEAN
      /\ slot[0].acked \in BOOLEAN /\ slot[1].acked \in BOOLEAN
      /\ slot[0].gen \in Nat /\ slot[1].gen \in Nat
  BY SlotTypes DEF Slots
<1>3. CASE k = 0
  <2>1. slot[0].valid /\ ~slot[0].acked
    BY <1>1, <1>3 DEF Kept
  <2>2. slot[1].valid => slot[1].gen < slot[0].gen
    BY <1>1, <1>3 DEF Kept, SlotInv, Slots
  <2>3. slot[1].acked => (CHOOSE s \in Slots : slot[s].acked) = 1
    BY <2>1 DEF Slots
  <2>4. SlotChoice = 1
    BY <1>2, <2>1, <2>2, <2>3 DEF SlotChoice
  <2> QED
    BY <1>1, <1>3, <2>4
<1>4. CASE k = 1
  <2>1. slot[1].valid /\ ~slot[1].acked
    BY <1>1, <1>4 DEF Kept
  <2>2. slot[0].valid => slot[0].gen < slot[1].gen
    BY <1>1, <1>4 DEF Kept, SlotInv, Slots
  <2>3. slot[0].acked => (CHOOSE s \in Slots : slot[s].acked) = 0
    BY <2>1 DEF Slots
  <2>4. SlotChoice = 0
    BY <1>2, <2>1, <2>2, <2>3 DEF SlotChoice
  <2> QED
    BY <1>1, <1>4, <2>4
<1> QED
  BY <1>3, <1>4 DEF Slots

(* A start-up takes the slot beside the latest log and offers that log. *)
LEMMA BootStep ==
    ASSUME FlashTypeOK, FlashTypeOK', HeaderInv, Boot
    PROVE  HeaderInv'
<1>1. /\ slot' = slot /\ last' = last /\ acked' = acked /\ boot' = boot + 1
      /\ ram'.phase = "erase" /\ ram'.own = SlotChoice /\ ram'.writeOff = 0
      /\ ram'.gen = NextGeneration
      /\ ram'.prevBoot = IF slot[1 - SlotChoice].valid
                         THEN slot[1 - SlotChoice].boot ELSE 0
  BY DEF Boot
<1>2. ram'.prevAvailable <=> slot[1 - SlotChoice].valid /\ ~slot[1 - SlotChoice].acked
                             /\ slot[1 - SlotChoice].boot # boot'
  BY Zenon DEF Boot
<1>3. boot \in Nat /\ last \in Nat /\ last <= boot
  BY RamTypes DEF HeaderInv, LastInv
<1>4. LastInv' /\ SlotInv' /\ \A s \in Slots : Kept(s)' <=> Kept(s)
  BY <1>1, <1>3, HeadersAside DEF HeaderInv, SameHeader
<1>5. CASE last = 0
  <2>1. ~slot[1 - SlotChoice].valid
    BY <1>5, ChoiceIsASlot DEF HeaderInv, LastInv
  <2> QED
    BY <1>1, <1>2, <1>3, <1>4, <1>5, <2>1, GenerationGrows
       DEF HeaderInv, ClaimInv, RunInv
<1>6. CASE last # 0
  <2>1. Kept(1 - SlotChoice)
    BY <1>6, ClaimSparesLatest DEF HeaderInv
  <2>2. slot[1 - SlotChoice].valid /\ slot[1 - SlotChoice].boot = last
        /\ ~slot[1 - SlotChoice].acked
    BY <2>1 DEF Kept
  <2>3. slot[1 - SlotChoice].gen < NextGeneration /\ NextGeneration >= 1
    BY <2>2, ChoiceIsASlot, GenerationGrows
  <2>4. PICK k \in Slots : k = 1 - SlotChoice
    BY ChoiceIsASlot
  <2>7. Kept(k)' /\ 1 - ram'.own = k /\ slot'[k].gen < ram'.gen
    BY <1>1, <1>4, <2>1, <2>3, <2>4
  <2>5. last # boot' /\ last < boot'
    BY <1>1, <1>3
  <2>6. ram'.prevAvailable /\ ram'.prevBoot = last
    BY <1>1, <1>2, <2>2, <2>5
  <2> QED
    BY <1>1, <1>4, <1>6, <2>3, <2>5, <2>6, <2>7 DEF HeaderInv, ClaimInv, RunInv
<1> QED
  BY <1>5, <1>6

(* The erase takes the own slot only, done or failed. *)
LEMMA EraseStep ==
    ASSUME FlashTypeOK, FlashTypeOK', HeaderInv, Erase
    PROVE  HeaderInv'
<1>1. /\ last' = last /\ acked' = acked /\ boot' = boot /\ ram.phase = "erase"
      /\ ram.own \in Slots /\ 1 - ram.own \in Slots
      /\ boot \in Nat /\ last \in Nat /\ last <= boot
  BY RamTypes DEF Erase, HeaderInv, LastInv
<1>2. CASE slot' = slot /\ ram' = Inactive
  <2>1. ram'.phase = "inactive"
    BY <1>2, RamTypes DEF Inactive, FlashTypeOK, RamSet
  <2>2. LastInv' /\ SlotInv'
    BY <1>1, <1>2, HeadersAside DEF HeaderInv, SameHeader
  <2> QED
    BY <2>1, <2>2 DEF HeaderInv, ClaimInv, RunInv
<1>3. CASE slot' = [slot EXCEPT ![ram.own] = Erased]
  <2>1. /\ slot'[ram.own] = Erased /\ ~slot'[ram.own].valid
        /\ slot'[1 - ram.own] = slot[1 - ram.own]
    BY <1>1, <1>3, RamTypes DEF FlashTypeOK, Erased
  <2>2. \A s \in Slots : s = ram.own \/ s = 1 - ram.own
    BY <1>1 DEF Slots
  <2>3. /\ ram'.own = ram.own /\ ram'.gen = ram.gen /\ ram'.writeOff = ram.writeOff
        /\ ram'.prevBoot = ram.prevBoot
        /\ (ram'.prevAvailable <=> ram.prevAvailable)
        /\ ram'.phase \in {"header", "inactive"}
    BY DEF Erase, Inactive, FlashTypeOK, RamSet
  <2>4. /\ last # 0 => Kept(1 - ram.own) /\ slot[1 - ram.own].gen < ram.gen
        /\ last < boot /\ ram.gen >= 1 /\ ram.writeOff = 0
        /\ ram.prevAvailable <=> last # 0
        /\ ram.prevAvailable => ram.prevBoot = last
    BY <1>1 DEF HeaderInv, ClaimInv
  <2>5. PICK k \in Slots : k = 1 - ram.own
    BY <1>1
  <2>6. last # 0 => Kept(k)'
    BY <1>1, <2>1, <2>4, <2>5 DEF Kept
  <2>7. LastInv'
    BY <1>1, <2>1, <2>2, <2>5, <2>6 DEF LastInv, HeaderInv
  <2>8. SlotInv'
    <3>1. ASSUME NEW s \in Slots, slot'[s].valid
          PROVE  /\ 1 <= slot'[s].boot /\ slot'[s].boot <= last' /\ 1 <= slot'[s].gen
                 /\ ~slot'[1 - s].valid
      <4>1. s = 1 - ram.own /\ ram.own = 1 - s
        BY <2>1, <2>2, <3>1 DEF Slots
      <4> QED
        BY <1>1, <2>1, <3>1, <4>1 DEF HeaderInv, SlotInv
    <3> QED
      BY <3>1 DEF SlotInv
  <2>9. ClaimInv'
    BY <1>1, <2>1, <2>3, <2>4, <2>5, <2>6 DEF ClaimInv
  <2>10. RunInv'
    BY <2>3 DEF RunInv
  <2> QED
    BY <2>7, <2>8, <2>9, <2>10 DEF HeaderInv
<1> QED
  BY <1>2, <1>3 DEF Erase

(* The header of a boot is written over an erased slot, beside the latest  *)
(* log, with a higher generation.                                          *)
LEMMA HeaderStep ==
    ASSUME FlashTypeOK, FlashTypeOK', HeaderInv, WriteHeader
    PROVE  HeaderInv'
<1>1. /\ acked' = acked /\ boot' = boot /\ ram.phase = "header"
      /\ ram.own \in Slots /\ 1 - ram.own \in Slots
      /\ boot \in Nat /\ last \in Nat /\ last <= boot
  BY RamTypes DEF WriteHeader, HeaderInv, LastInv
<1>2. CASE UNCHANGED <<slot, last>> /\ ram' = Inactive
  <2>1. ram'.phase = "inactive"
    BY <1>2, RamTypes DEF Inactive, FlashTypeOK, RamSet
  <2>2. LastInv' /\ SlotInv'
    BY <1>1, <1>2, HeadersAside DEF HeaderInv, SameHeader
  <2> QED
    BY <2>1, <2>2 DEF HeaderInv, ClaimInv, RunInv
<1>3. CASE /\ slot' = [slot EXCEPT ![ram.own] =
                        [valid |-> TRUE, boot |-> boot, gen |-> ram.gen,
                         acked |-> FALSE, data |-> <<>>]]
           /\ last' = boot
           /\ ram' \in {[ram EXCEPT !.phase = "run"], Inactive}
  <2>1. /\ slot'[ram.own] = [valid |-> TRUE, boot |-> boot, gen |-> ram.gen,
                             acked |-> FALSE, data |-> <<>>]
        /\ slot'[1 - ram.own] = slot[1 - ram.own]
    BY <1>1, <1>3, RamTypes DEF FlashTypeOK
  <2>2. /\ slot'[ram.own].valid /\ slot'[ram.own].boot = boot
        /\ slot'[ram.own].gen = ram.gen /\ ~slot'[ram.own].acked
    BY <2>1
  <2>3. \A s \in Slots : s = ram.own \/ s = 1 - ram.own
    BY <1>1 DEF Slots
  <2>4. /\ ram'.own = ram.own /\ ram'.prevBoot = ram.prevBoot
        /\ (ram'.prevAvailable <=> ram.prevAvailable)
        /\ ram'.phase \in {"run", "inactive"}
    BY <1>3 DEF Inactive, FlashTypeOK, RamSet
  <2>5. /\ last # 0 => Kept(1 - ram.own) /\ slot[1 - ram.own].gen < ram.gen
        /\ last < boot /\ ram.gen >= 1 /\ ram.writeOff = 0
        /\ ram.prevAvailable <=> last # 0
        /\ ram.prevAvailable => ram.prevBoot = last
    BY <1>1 DEF HeaderInv, ClaimInv
  <2>6. PICK k \in Slots : k = ram.own
    BY <1>1
  <2>7. Kept(k)' /\ last' # 0
    BY <1>1, <1>3, <2>2, <2>5, <2>6 DEF Kept
  <2>8. LastInv'
    <3>1. \A b \in acked' : b < last'
      BY <1>1, <1>3, <2>5 DEF LastInv, HeaderInv, FlashTypeOK
    <3> QED
      BY <1>1, <1>3, <2>7, <3>1 DEF LastInv
  <2>9. slot[1 - ram.own].valid => /\ last # 0 /\ slot[1 - ram.own].boot = last
                                   /\ 1 <= slot[1 - ram.own].gen
                                   /\ 1 <= slot[1 - ram.own].boot
                                   /\ slot[1 - ram.own].gen < ram.gen
    BY <1>1, <2>5 DEF LastInv, SlotInv, HeaderInv, Kept
  <2>10. SlotInv'
    <3>1. ASSUME NEW s \in Slots, s = ram.own
          PROVE  /\ 1 <= slot'[s].boot /\ slot'[s].boot <= last' /\ 1 <= slot'[s].gen
                 /\ slot'[1 - s].valid =>
                      slot'[1 - s].boot < last' /\ slot'[1 - s].gen < slot'[s].gen
      BY <1>1, <1>3, <2>1, <2>2, <2>5, <2>9, <3>1
    <3>2. ASSUME NEW s \in Slots, s = 1 - ram.own, slot'[s].valid
          PROVE  /\ 1 <= slot'[s].boot /\ slot'[s].boot < last' /\ 1 <= slot'[s].gen
      BY <1>1, <1>3, <2>1, <2>5, <2>9, <3>2
    <3>3. \A s \in Slots : slot'[s].boot \in Nat /\ last' \in Nat
      BY SlotTypes DEF FlashTypeOK, SlotSet
    <3> QED
      BY <2>3, <3>1, <3>2, <3>3 DEF SlotInv
  <2>11. ClaimInv'
    BY <2>4 DEF ClaimInv
  <2>12. RunInv'
    <3>1. last # 0 => slot[1 - ram.own].valid /\ slot[1 - ram.own].boot = last
      BY <2>5 DEF Kept
    <3> QED
      BY <1>1, <1>3, <2>1, <2>4, <2>5, <2>6, <2>7, <3>1 DEF RunInv, Previous
  <2> QED
    BY <2>8, <2>10, <2>11, <2>12 DEF HeaderInv
<1> QED
  BY <1>2, <1>3 DEF WriteHeader

(* Appending and restarting leave the headers alone. *)
LEMMA TierStep ==
    ASSUME FlashTypeOK, FlashTypeOK', HeaderInv,
           Submit \/ logf_task \/ PowerLoss \/ UNCHANGED flashVars
    PROVE  HeaderInv' /\ SameHeader(0) /\ SameHeader(1)
<1>0. 0 \in Slots /\ 1 \in Slots /\ Damaged \in 0..MaxEmits
  BY RamTypes DEF Slots, Damaged
<1>1. SameHeader(0) /\ SameHeader(1)
  <2>1. CASE slot' = slot
    BY <2>1, Zenon DEF SameHeader
  <2>2. ASSUME NEW entry \in 0..MaxEmits, ~SlotFull,
               slot' = [slot EXCEPT ![ram.own].data =
                          Program(slot[ram.own].data, ram.writeOff, entry)]
        PROVE  SameHeader(0) /\ SameHeader(1)
    <3>1. \A s \in Slots : /\ slot'[s].valid <=> slot[s].valid
                           /\ slot'[s].boot = slot[s].boot
                           /\ slot'[s].gen = slot[s].gen
                           /\ slot'[s].acked <=> slot[s].acked
      BY <2>2, ProgrammedSlot
    <3> QED
      BY <1>0, <3>1 DEF SameHeader
  <2>3. CASE logf_task
    <3>1. queue \in Seq(1..MaxEmits) /\ queue # <<>>
      BY <2>3 DEF logf_task, FlashTypeOK
    <3>2. Head(queue) \in 1..MaxEmits
      BY <3>1, HeadTailProperties
    <3>3. Head(queue) \in 0..MaxEmits
      BY <3>2, RamTypes
    <3>4. \/ slot' = slot
          \/ ~SlotFull /\ \E entry \in {Head(queue), Damaged} :
               slot' = [slot EXCEPT ![ram.own].data =
                          Program(slot[ram.own].data, ram.writeOff, entry)]
      BY <2>3 DEF logf_task
    <3> QED
      BY <1>0, <2>1, <2>2, <3>3, <3>4
  <2>4. CASE PowerLoss
    <3>1. \/ slot' = slot
          \/ ~SlotFull /\ slot' = [slot EXCEPT ![ram.own].data =
                          Program(slot[ram.own].data, ram.writeOff, Damaged)]
      BY <2>4 DEF PowerLoss
    <3> QED
      BY <1>0, <2>1, <2>2, <3>1
  <2> QED
    BY <2>1, <2>3, <2>4 DEF Submit, flashVars
<1>2. last' = last /\ acked' = acked /\ boot' = boot
  BY DEF Submit, logf_task, PowerLoss, flashVars
<1>3. LastInv' /\ SlotInv' /\ \A s \in Slots : Kept(s)' <=> Kept(s)
  BY <1>1, <1>2, RamTypes, HeadersAside DEF HeaderInv
<1>4. CASE PowerLoss
  <2>1. ram'.phase = "off"
    BY <1>4 DEF PowerLoss, Down
  <2> QED
    BY <1>1, <1>3, <2>1 DEF HeaderInv, ClaimInv, RunInv
<1>5. CASE Submit \/ logf_task \/ UNCHANGED flashVars
  <2>1. /\ ram'.own = ram.own /\ ram'.phase = ram.phase /\ ram'.gen = ram.gen
        /\ ram'.prevBoot = ram.prevBoot /\ (ram'.prevAvailable <=> ram.prevAvailable)
    BY <1>5 DEF Submit, logf_task, flashVars, FlashTypeOK, RamSet
  <2>2. PICK own \in Slots, prev \in Slots : own = ram.own /\ prev = 1 - ram.own
    BY RamTypes
  <2>3. SameHeader(own) /\ SameHeader(prev) /\ (Kept(own)' <=> Kept(own))
        /\ (Kept(prev)' <=> Kept(prev))
    BY <1>1, <1>3 DEF Slots
  <2>4. ClaimInv'
    <3>1. ram.phase \in {"erase", "header"} => ram'.writeOff = ram.writeOff
      BY <1>5 DEF Submit, logf_task, flashVars
    <3> QED
      BY <1>2, <2>1, <2>2, <2>3, <3>1 DEF HeaderInv, ClaimInv, SameHeader
  <2>5. RunInv'
    BY <1>2, <2>1, <2>2, <2>3 DEF HeaderInv, RunInv, SameHeader, Previous
  <2> QED
    BY <1>1, <1>3, <2>4, <2>5 DEF HeaderInv
<1> QED
  BY <1>4, <1>5

(* Only an older log is acknowledged. *)
LEMMA AckStep ==
    ASSUME FlashTypeOK, FlashTypeOK', HeaderInv,
           NEW id \in 0..MaxBoots, ack_previous_boot(id)
    PROVE  HeaderInv'
<1>1. /\ last' = last /\ boot' = boot /\ ram.phase = "run" /\ ram.prevAvailable
      /\ ram.own \in Slots /\ 1 - ram.own \in Slots /\ ram.own # 1 - ram.own
      /\ boot \in Nat /\ last \in Nat /\ boot = last /\ last # 0
  BY RamTypes DEF ack_previous_boot, HeaderInv, RunInv
<1>2. /\ Kept(ram.own) /\ slot[1 - ram.own].valid
      /\ slot[1 - ram.own].boot = ram.prevBoot /\ ram.prevBoot < last
  <2>1. Kept(ram.own) /\ slot[1 - ram.own].valid
        /\ slot[1 - ram.own].boot = ram.prevBoot
    BY <1>1 DEF HeaderInv, RunInv, Previous
  <2> QED
    BY <1>1, <2>1 DEF HeaderInv, SlotInv, Kept
<1>3. CASE UNCHANGED <<slot, ram, acked>>
  BY <1>1, <1>3, TierStep DEF ack_previous_boot, flashVars
<1>4. CASE /\ slot' = [slot EXCEPT ![1 - ram.own].acked = TRUE]
           /\ ram' \in {ram, [ram EXCEPT !.prevAvailable = FALSE]}
           /\ acked' = acked \cup {ram.prevBoot}
  <2>1. /\ slot'[ram.own] = slot[ram.own]
        /\ slot'[1 - ram.own] = [slot[1 - ram.own] EXCEPT !.acked = TRUE]
    BY <1>1, <1>4 DEF FlashTypeOK
  <2>2. /\ slot'[1 - ram.own].valid <=> slot[1 - ram.own].valid
        /\ slot'[1 - ram.own].boot = slot[1 - ram.own].boot
        /\ slot'[1 - ram.own].gen = slot[1 - ram.own].gen
    <3>1. slot[1 - ram.own] \in SlotSet
      BY <1>1, SlotTypes
    <3> QED
      BY <2>1, <3>1 DEF SlotSet
  <2>3. \A s \in Slots : s = ram.own \/ s = 1 - ram.own
    BY <1>1 DEF Slots
  <2>4. ram'.own = ram.own /\ ram'.phase = "run" /\ ram'.prevBoot = ram.prevBoot
    BY <1>1, <1>4 DEF FlashTypeOK, RamSet
  <2>5. PICK k \in Slots : k = ram.own
    BY <1>1
  <2>6. Kept(k)'
    BY <1>1, <1>2, <2>1, <2>5 DEF Kept
  <2>7. LastInv'
    BY <1>1, <1>2, <1>4, <2>5, <2>6 DEF HeaderInv, LastInv
  <2>8. ASSUME NEW s \in Slots
        PROVE  /\ slot'[s].valid <=> slot[s].valid
               /\ slot'[s].boot = slot[s].boot /\ slot'[s].gen = slot[s].gen
               /\ 1 - s \in Slots
    <3>1. CASE s = ram.own
      BY <1>1, <2>1, <3>1
    <3>2. CASE s = 1 - ram.own
      BY <2>2, <3>2 DEF Slots
    <3> QED
      BY <2>3, <3>1, <3>2
  <2>9. SlotInv'
    BY <1>1, <2>8 DEF HeaderInv, SlotInv
  <2>10. ClaimInv'
    BY <2>4 DEF ClaimInv
  <2>11. RunInv'
    BY <1>1, <1>2, <2>2, <2>4, <2>5, <2>6 DEF RunInv, Previous
  <2> QED
    BY <2>7, <2>9, <2>10, <2>11 DEF HeaderInv
<1> QED
  BY <1>3, <1>4 DEF ack_previous_boot

(* Every step keeps what is known of the headers. *)
LEMMA HeaderInvariant ==
    ASSUME FlashTypeOK, FlashTypeOK', HeaderInv, [FlashNext]_flashVars
    PROVE  HeaderInv'
BY BootStep, EraseStep, HeaderStep, TierStep, AckStep DEF FlashNext

-----------------------------------------------------------------------------
(* What is known of the entries does not change in a step that leaves the  *)
(* data and the boot of the valid slots alone.                             *)
LEMMA DataAside ==
    ASSUME FlashTypeOK, DataInv, sure' = sure, last' >= last, last' \in Nat,
           \A s \in Slots : slot'[s].valid =>
               /\ slot'[s].data = slot[s].data /\ slot'[s].boot = slot[s].boot
               /\ slot[s].valid,
           ram'.phase # "run"
    PROVE  DataInv'
<1>1. \A b \in 1..MaxBoots : b > last' => sure'[b] = <<>>
  BY RamTypes DEF DataInv
<1>2. \A s \in Slots : slot'[s].valid => Sound(s)'
  BY DEF DataInv, Sound
<1> QED
  BY <1>1, <1>2 DEF DataInv

(* The data of the own slot after an entry was programmed: the entries     *)
(* known to be whole are still there, and with nothing damaged the new one *)
(* is the next of them.                                                    *)
Programmed(new, entry) ==
    /\ new \in Seq(0..MaxEmits)
    /\ Len(new) = ram.writeOff + 1
    /\ \A i \in 1..Len(sure[boot]) :
         i <= Len(new) /\ new[i] = sure[boot][i] /\ new[i] # Damaged
    /\ (\A i \in 1..Len(new) : new[i] # Damaged) =>
         Len(sure[boot]) = ram.writeOff /\ new[ram.writeOff + 1] = entry
    /\ entry = Damaged => new[ram.writeOff + 1] = Damaged

(* An entry is programmed into the own slot: those that are known to be    *)
(* whole stay, and one more may be.                                        *)
LEMMA ProgramKeepsSound ==
    ASSUME FlashTypeOK, HeaderInv, DataInv, ram.phase = "run", ~SlotFull,
           NEW entry \in 0..MaxEmits
    PROVE  Programmed(Program(slot[ram.own].data, ram.writeOff, entry), entry)
<1> DEFINE old == slot[ram.own].data
<1>0. PICK new : new = Program(slot[ram.own].data, ram.writeOff, entry)
  OBVIOUS
<1>1. PICK off \in Nat, len \in Nat :
        /\ off = ram.writeOff /\ len = Len(old) /\ (len = off \/ len = off + 1)
        /\ len = off + 1 => old[off + 1] = Damaged
  <2>1. ram.writeOff \in Nat /\ Len(old) \in Nat
    BY RamTypes, SlotTypes
  <2>2. /\ ram.writeOff <= Len(old) /\ Len(old) <= ram.writeOff + 1
        /\ Len(old) = ram.writeOff + 1 => old[Len(old)] = Damaged
    BY DEF DataInv
  <2> HIDE DEF old
  <2>3. /\ Len(old) = ram.writeOff \/ Len(old) = ram.writeOff + 1
        /\ Len(old) = ram.writeOff + 1 => old[ram.writeOff + 1] = Damaged
    BY <2>1, <2>2
  <2> QED
    BY <2>1, <2>3
<1>2. old \in Seq(0..MaxEmits) /\ slot[ram.own].valid /\ slot[ram.own].boot = boot
  BY RamTypes, SlotTypes DEF HeaderInv, RunInv, Kept
<1>3. \A i \in 1..Len(sure[boot]) :
         i <= Len(old) /\ old[i] = sure[boot][i] /\ old[i] # Damaged
  BY <1>2, RamTypes DEF DataInv, Sound
<1>4. (\A i \in 1..Len(old) : old[i] # Damaged) => Len(sure[boot]) = Len(old)
  BY DEF DataInv
<1> HIDE DEF old
<1>5. /\ new \in Seq(0..MaxEmits)
      /\ Len(new) = IF off < len THEN len ELSE len + 1
      /\ \A i \in 1..len : i # off + 1 => new[i] = old[i]
      /\ off < len => new[off + 1] = Damaged
      /\ ~(off < len) => new[len + 1] = entry
  <2>1. new = Program(old, off, entry)
    BY <1>0, <1>1 DEF old
  <2> QED
    <3>1. /\ new \in Seq(0..MaxEmits)
          /\ Len(new) = IF off < Len(old) THEN Len(old) ELSE Len(old) + 1
          /\ \A i \in 1..Len(old) : i # off + 1 => new[i] = old[i]
          /\ off < Len(old) => new[off + 1] = Damaged
          /\ ~(off < Len(old)) => new[Len(old) + 1] = entry
      <4>1. old \in Seq(0..MaxEmits) /\ off \in Nat /\ entry \in 0..MaxEmits
        BY <1>2
      <4>2. /\ Program(old, off, entry) \in Seq(0..MaxEmits)
            /\ Len(Program(old, off, entry))
                 = IF off < Len(old) THEN Len(old) ELSE Len(old) + 1
            /\ \A i \in 1..Len(old) :
                 i # off + 1 => Program(old, off, entry)[i] = old[i]
            /\ off < Len(old) => Program(old, off, entry)[off + 1] = Damaged
            /\ ~(off < Len(old)) => Program(old, off, entry)[Len(old) + 1] = entry
        BY <4>1, ProgramData
      <4> QED
        BY <2>1, <4>2, Zenon
    <3> QED
      BY <1>1, <3>1
<1>6. Len(new) = off + 1
  BY <1>1, <1>5
<1>7. Len(sure[boot]) \in Nat
  <2>1. boot \in 1..MaxBoots
    BY RamTypes DEF HeaderInv, RunInv
  <2> QED
    BY <2>1 DEF FlashTypeOK
<1>8. ASSUME NEW i \in 1..Len(sure[boot])
      PROVE  i <= Len(new) /\ new[i] = sure[boot][i] /\ new[i] # Damaged
  <2>1. i \in 1..len /\ old[i] = sure[boot][i] /\ old[i] # Damaged
    BY <1>1, <1>3, <1>7
  <2>2. i # off + 1
    BY <1>1, <2>1
  <2> QED
    BY <1>1, <1>5, <1>6, <2>1, <2>2
<1>9. ASSUME \A i \in 1..Len(new) : new[i] # Damaged
      PROVE  Len(sure[boot]) = off /\ new[off + 1] = entry
  <2>1. len = off
    BY <1>1, <1>5, <1>6, <1>9
  <2>2. \A i \in 1..len : old[i] # Damaged
    <3>1. ASSUME NEW i \in 1..len
          PROVE  old[i] # Damaged
      <4>1. new[i] = old[i] /\ i \in 1..Len(new)
        BY <1>5, <1>6, <2>1
      <4> QED
        BY <1>9, <4>1
    <3> QED
      BY <3>1
  <2> QED
    BY <1>1, <1>4, <1>5, <2>1, <2>2
<1>10. entry = Damaged => new[off + 1] = Damaged
  BY <1>1, <1>5
<1>11. Programmed(new, entry)
  BY <1>1, <1>5, <1>6, <1>8, <1>9, <1>10 DEF Programmed
<1> QED
  BY <1>0, <1>11

(* One round of logf_task, the write done, failed or not tried. *)
LEMMA AppendKeepsData ==
    ASSUME FlashTypeOK, FlashTypeOK', HeaderInv, HeaderInv', DataInv, logf_task
    PROVE  DataInv'
<1>0. /\ ram.own \in Slots /\ 1 - ram.own \in Slots /\ ram.own # 1 - ram.own
      /\ ram.phase = "run" /\ ram'.phase = "run" /\ ram'.own = ram.own
      /\ boot' = boot /\ last' = last /\ boot = last
      /\ boot \in 1..MaxBoots /\ Damaged \in 0..MaxEmits
      /\ sure \in [1..MaxBoots -> Seq(0..MaxEmits)]
  <2>1. ram.phase = "run" /\ boot' = boot /\ last' = last
    BY DEF logf_task
  <2>2. ram'.phase = ram.phase /\ ram'.own = ram.own
    BY DEF logf_task, FlashTypeOK, RamSet
  <2>3. boot = last /\ last # 0
    BY <2>1 DEF HeaderInv, RunInv
  <2> QED
    BY <2>1, <2>2, <2>3, RamTypes DEF FlashTypeOK, Damaged
<1>1. /\ slot[ram.own].valid /\ slot[ram.own].boot = boot
      /\ slot[1 - ram.own].valid => slot[1 - ram.own].boot \in 1..MaxBoots
                                    /\ slot[1 - ram.own].boot # boot
  <2>1. slot[ram.own].valid /\ slot[ram.own].boot = boot
    BY <1>0 DEF HeaderInv, RunInv, Kept
  <2>2. slot[1 - ram.own].boot \in 0..MaxBoots
    BY <1>0, SlotTypes
  <2> QED
    BY <1>0, <2>1, <2>2 DEF HeaderInv, SlotInv
<1>2. Head(queue) \in 1..MaxEmits /\ Head(queue) # Damaged /\ Head(queue) \in 0..MaxEmits
  <2>1. queue \in Seq(1..MaxEmits) /\ queue # <<>>
    BY DEF logf_task, FlashTypeOK
  <2>2. Head(queue) \in 1..MaxEmits
    BY <2>1, HeadTailProperties
  <2> QED
    BY <2>2, RamTypes DEF Damaged
<1>3. CASE UNCHANGED <<slot, ram, sure>>
  BY <1>0, <1>3 DEF DataInv, Sound
<1>4. ASSUME NEW entry \in 0..MaxEmits, ~SlotFull,
             slot' = [slot EXCEPT ![ram.own].data =
                        Program(slot[ram.own].data, ram.writeOff, entry)],
             \/ /\ ram'.writeOff = ram.writeOff /\ sure' = sure /\ entry = Damaged
             \/ /\ ram'.writeOff = ram.writeOff + 1 /\ entry # Damaged
                /\ sure' = [sure EXCEPT ![boot] =
                              IF Damaged \in Range(slot'[ram.own].data)
                              THEN @ ELSE Append(@, entry)]
      PROVE  DataInv'
  <2>1. /\ slot'[1 - ram.own] = slot[1 - ram.own]
        /\ slot'[ram.own].data = Program(slot[ram.own].data, ram.writeOff, entry)
        /\ slot'[ram.own].boot = boot
    BY <1>0, <1>1, <1>4, ProgrammedSlot
  <2>2. PICK new \in Seq(0..MaxEmits), off \in Nat :
          /\ new = slot'[ram.own].data /\ off = ram.writeOff
          /\ \A i \in 1..Len(sure[boot]) :
               i <= Len(new) /\ new[i] = sure[boot][i] /\ new[i] # Damaged
          /\ Len(new) = off + 1
          /\ (\A i \in 1..Len(new) : new[i] # Damaged) =>
               Len(sure[boot]) = off /\ new[off + 1] = entry
          /\ entry = Damaged => new[off + 1] = Damaged
    <3>1. PICK off \in Nat : off = ram.writeOff
      BY RamTypes
    <3>2. Programmed(slot'[ram.own].data, entry)
      BY <1>0, <1>4, <2>1, ProgramKeepsSound
    <3> QED
      BY <3>1, <3>2, Zenon DEF Programmed
  <2>3. Damaged \in Range(new) <=> \E i \in 1..Len(new) : new[i] = Damaged
    BY DEF Range
  <2>4. \A b \in 1..MaxBoots : b # boot => sure'[b] = sure[b]
    BY <1>0, <1>4
  <2>5. /\ \A i \in 1..Len(sure'[boot]) :
             i <= Len(new) /\ new[i] = sure'[boot][i] /\ new[i] # Damaged
        /\ (\A i \in 1..Len(new) : new[i] # Damaged) => Len(sure'[boot]) = Len(new)
    <3>1. CASE sure'[boot] = sure[boot] /\ \E i \in 1..Len(new) : new[i] = Damaged
      BY <2>2, <3>1
    <3>2. CASE /\ sure'[boot] = Append(sure[boot], entry) /\ entry # Damaged
               /\ ~\E i \in 1..Len(new) : new[i] = Damaged
      <4>1. /\ Len(sure[boot]) = off /\ new[off + 1] = entry /\ Len(new) = off + 1
            /\ \A i \in 1..Len(sure[boot]) : new[i] = sure[boot][i]
        BY <2>2, <3>2
      <4>2. PICK known \in Seq(0..MaxEmits) : known = sure[boot]
        BY <1>0
      <4>3. /\ Len(Append(known, entry)) = off + 1
            /\ Append(known, entry)[off + 1] = entry
            /\ \A i \in 1..off : Append(known, entry)[i] = known[i]
        BY <4>1, <4>2
      <4>4. ASSUME NEW i \in 1..(off + 1)
            PROVE  i <= Len(new) /\ new[i] = Append(known, entry)[i]
                   /\ new[i] # Damaged
        <5>1. i <= Len(new) /\ new[i] # Damaged
          BY <3>2, <4>1
        <5>2. CASE i = off + 1
          BY <4>1, <4>3, <5>1, <5>2
        <5>3. CASE i # off + 1
          <6>1. i \in 1..off
            BY <5>3
          <6> QED
            BY <4>1, <4>2, <4>3, <5>1, <6>1
        <5> QED
          BY <5>2, <5>3
      <4> QED
        BY <3>2, <4>1, <4>2, <4>3, <4>4
    <3>3. CASE sure' = sure /\ entry = Damaged
      <4>1. off + 1 \in 1..Len(new) /\ new[off + 1] = Damaged
        BY <2>2, <3>3
      <4> QED
        BY <3>1, <3>3, <4>1
    <3>4. CASE /\ entry # Damaged
               /\ sure' = [sure EXCEPT ![boot] =
                             IF Damaged \in Range(slot'[ram.own].data)
                             THEN sure[boot] ELSE Append(sure[boot], entry)]
      <4>1. sure'[boot] = IF Damaged \in Range(new) THEN sure[boot]
                                                     ELSE Append(sure[boot], entry)
        BY <1>0, <2>2, <3>4
      <4> QED
        BY <2>3, <3>1, <3>2, <3>4, <4>1
    <3> QED
      BY <1>4, <3>3, <3>4
  <2>6. \A b \in 1..MaxBoots : b > last' => sure'[b] = <<>>
    BY <1>0, <2>4 DEF DataInv
  <2>7. ASSUME NEW s \in Slots, slot'[s].valid
        PROVE  Sound(s)'
    <3>1. CASE s = ram.own
      BY <2>1, <2>2, <2>5, <3>1 DEF Sound
    <3>2. CASE s = 1 - ram.own
      <4>1. slot'[s] = slot[s] /\ slot[s].valid
        BY <2>1, <2>7, <3>2
      <4>2. sure'[slot[s].boot] = sure[slot[s].boot]
        BY <1>1, <2>4, <3>2, <4>1
      <4>3. Sound(s)
        BY <4>1 DEF DataInv
      <4> QED
        BY <4>1, <4>2, <4>3 DEF Sound
    <3> QED
      BY <1>0, <3>1, <3>2 DEF Slots
  <2>8. /\ ram'.writeOff <= Len(new) /\ Len(new) <= ram'.writeOff + 1
        /\ Len(new) = ram'.writeOff + 1 => new[Len(new)] = Damaged
    BY <1>4, <2>2
  <2> QED
    BY <1>0, <2>2, <2>5, <2>6, <2>7, <2>8 DEF DataInv
<1>5. \/ UNCHANGED <<slot, ram, sure>>
      \/ /\ ~SlotFull
         /\ slot' = [slot EXCEPT ![ram.own].data =
                       Program(slot[ram.own].data, ram.writeOff, Head(queue))]
         /\ ram' = [ram EXCEPT !.writeOff = @ + 1]
         /\ sure' = [sure EXCEPT ![boot] = IF Damaged \in Range(slot'[ram.own].data)
                                           THEN @ ELSE Append(@, Head(queue))]
      \/ /\ ~SlotFull
         /\ slot' = [slot EXCEPT ![ram.own].data =
                       Program(slot[ram.own].data, ram.writeOff, Damaged)]
         /\ UNCHANGED <<ram, sure>>
  BY DEF logf_task
<1>6. ram' = [ram EXCEPT !.writeOff = @ + 1] => ram'.writeOff = ram.writeOff + 1
  BY DEF FlashTypeOK, RamSet
<1> QED
  BY <1>0, <1>2, <1>3, <1>4, <1>5, <1>6

(* A new header starts an empty log. *)
LEMMA HeaderKeepsData ==
    ASSUME FlashTypeOK, FlashTypeOK', HeaderInv, DataInv, WriteHeader
    PROVE  DataInv'
<1>0. /\ ram.own \in Slots /\ 1 - ram.own \in Slots /\ ram.own # 1 - ram.own
      /\ ram.phase = "header" /\ boot' = boot /\ sure' = sure
      /\ last \in Nat /\ boot \in 1..MaxBoots /\ last < boot /\ ram.writeOff = 0
  <2>1. ram.phase = "header" /\ boot' = boot /\ sure' = sure
    BY DEF WriteHeader
  <2>2. last < boot /\ ram.writeOff = 0
    BY <2>1 DEF HeaderInv, ClaimInv
  <2> QED
    BY <2>1, <2>2, RamTypes
<1>1. CASE UNCHANGED <<slot, last>> /\ ram' = Inactive
  <2>1. ram'.phase = "inactive"
    BY <1>1, RamTypes DEF Inactive, FlashTypeOK, RamSet
  <2> QED
    BY <1>0, <1>1, <2>1, DataAside
<1>2. CASE /\ slot' = [slot EXCEPT ![ram.own] =
                        [valid |-> TRUE, boot |-> boot, gen |-> ram.gen,
                         acked |-> FALSE, data |-> <<>>]]
           /\ last' = boot
           /\ ram' \in {[ram EXCEPT !.phase = "run"], Inactive}
  <2>1. /\ slot'[ram.own] = [valid |-> TRUE, boot |-> boot, gen |-> ram.gen,
                             acked |-> FALSE, data |-> <<>>]
        /\ slot'[1 - ram.own] = slot[1 - ram.own]
    BY <1>0, <1>2 DEF FlashTypeOK
  <2>2. slot'[ram.own].boot = boot /\ slot'[ram.own].data = <<>>
    BY <2>1
  <2>3. sure[boot] = <<>>
    BY <1>0 DEF DataInv
  <2>4. ram'.own = ram.own /\ ram'.writeOff = 0
    BY <1>0, <1>2 DEF Inactive, FlashTypeOK, RamSet
  <2>5. ASSUME NEW s \in Slots, slot'[s].valid
        PROVE  Sound(s)'
    <3>1. CASE s = ram.own
      BY <1>0, <2>2, <2>3, <3>1 DEF Sound
    <3>2. CASE s = 1 - ram.own
      <4>1. slot'[s] = slot[s] /\ Sound(s)
        BY <2>1, <2>5, <3>2 DEF DataInv
      <4> QED
        BY <1>0, <4>1 DEF Sound
    <3> QED
      BY <1>0, <3>1, <3>2 DEF Slots
  <2>6. \A b \in 1..MaxBoots : b > last' => sure'[b] = <<>>
    BY <1>0, <1>2 DEF DataInv
  <2> QED
    BY <1>0, <2>2, <2>3, <2>4, <2>5, <2>6 DEF DataInv
<1> QED
  BY <1>1, <1>2 DEF WriteHeader

(* A power loss tears the entry being written and no earlier one. *)
LEMMA LossKeepsData ==
    ASSUME FlashTypeOK, HeaderInv, DataInv, PowerLoss
    PROVE  DataInv'
<1>0. /\ ram.own \in Slots /\ 1 - ram.own \in Slots /\ ram.own # 1 - ram.own
      /\ last \in Nat /\ Damaged \in 0..MaxEmits
      /\ last' = last /\ sure' = sure /\ ram'.phase = "off"
  BY RamTypes DEF PowerLoss, Down, Damaged
<1>1. CASE slot' = slot
  BY <1>0, <1>1, DataAside
<1>2. CASE /\ ram.phase = "run" /\ ~SlotFull
           /\ slot' = [slot EXCEPT ![ram.own].data =
                         Program(slot[ram.own].data, ram.writeOff, Damaged)]
  <2>0. slot[ram.own].boot = boot
    BY <1>2 DEF HeaderInv, RunInv, Kept
  <2>1. /\ slot'[1 - ram.own] = slot[1 - ram.own]
        /\ slot'[ram.own].data = Program(slot[ram.own].data, ram.writeOff, Damaged)
        /\ slot'[ram.own].boot = boot
    BY <1>0, <1>2, <2>0, ProgrammedSlot
  <2>2. \A i \in 1..Len(sure[boot]) :
           /\ i <= Len(slot'[ram.own].data) /\ slot'[ram.own].data[i] = sure[boot][i]
           /\ slot'[ram.own].data[i] # Damaged
    <3>1. Programmed(slot'[ram.own].data, Damaged)
      BY <1>0, <1>2, <2>1, ProgramKeepsSound
    <3> QED
      BY <3>1, Zenon DEF Programmed
  <2>3. ASSUME NEW s \in Slots, slot'[s].valid
        PROVE  Sound(s)'
    <3>1. CASE s = ram.own
      BY <1>0, <2>1, <2>2, <3>1 DEF Sound
    <3>2. CASE s = 1 - ram.own
      <4>1. slot'[s] = slot[s] /\ Sound(s)
        BY <2>1, <2>3, <3>2 DEF DataInv
      <4> QED
        BY <1>0, <4>1 DEF Sound
    <3> QED
      BY <1>0, <3>1, <3>2 DEF Slots
  <2> QED
    BY <1>0, <2>3 DEF DataInv
<1> QED
  BY <1>1, <1>2 DEF PowerLoss

(* Every step keeps what is known of the entries. *)
LEMMA DataStep ==
    ASSUME FlashTypeOK, FlashTypeOK', HeaderInv, HeaderInv', DataInv,
           [FlashNext]_flashVars
    PROVE  DataInv'
<1>0. last \in Nat /\ ram.own \in Slots /\ 1 - ram.own \in Slots
  BY RamTypes
<1>1. CASE Boot
  BY <1>0, <1>1, DataAside DEF Boot
<1>2. CASE Erase
  <2>1. ram'.phase # "run" /\ sure' = sure /\ last' = last
    BY <1>2 DEF Erase, Inactive, FlashTypeOK, RamSet
  <2>2. \/ slot' = slot
        \/ slot' = [slot EXCEPT ![ram.own] = Erased]
    BY <1>2 DEF Erase
  <2>3. ~Erased.valid
    BY DEF Erased
  <2>4. \A s \in Slots : slot'[s].valid => slot'[s] = slot[s]
    BY <2>2, <2>3 DEF FlashTypeOK
  <2> QED
    BY <1>0, <2>1, <2>4, DataAside
<1>3. CASE Submit \/ UNCHANGED flashVars
  <2>1. UNCHANGED <<slot, ram, sure, last, boot>>
    BY <1>3 DEF Submit, flashVars
  <2> QED
    BY <2>1 DEF DataInv, Sound
<1>4. ASSUME NEW id \in 0..MaxBoots, ack_previous_boot(id)
      PROVE  DataInv'
  <2>1. /\ sure' = sure /\ last' = last /\ boot' = boot
        /\ ram'.own = ram.own /\ ram'.writeOff = ram.writeOff /\ ram'.phase = ram.phase
    BY <1>4 DEF ack_previous_boot, FlashTypeOK, RamSet
  <2>2. \/ slot' = slot
        \/ slot' = [slot EXCEPT ![1 - ram.own] =
                      [slot[1 - ram.own] EXCEPT !.acked = TRUE]]
    BY <1>4 DEF ack_previous_boot
  <2>3. LET new == [slot[1 - ram.own] EXCEPT !.acked = TRUE]
        IN  /\ new.valid = slot[1 - ram.own].valid
            /\ new.boot = slot[1 - ram.own].boot
            /\ new.data = slot[1 - ram.own].data
    <3>1. slot[1 - ram.own] \in SlotSet
      BY <1>0, SlotTypes
    <3> QED
      BY <3>1 DEF SlotSet
  <2>4. ASSUME NEW s \in Slots
        PROVE  /\ slot'[s].data = slot[s].data /\ slot'[s].boot = slot[s].boot
               /\ slot'[s].valid <=> slot[s].valid
    <3>1. CASE s = 1 - ram.own
      BY <1>0, <2>2, <2>3, <3>1 DEF FlashTypeOK
    <3>2. CASE s # 1 - ram.own
      BY <2>2, <3>2 DEF FlashTypeOK
    <3> QED
      BY <3>1, <3>2
  <2>5. \A s \in Slots : slot'[s].valid => Sound(s)'
    BY <2>1, <2>4 DEF DataInv, Sound
  <2> QED
    BY <1>0, <2>1, <2>4, <2>5 DEF DataInv
<1> QED
  BY <1>1, <1>2, <1>3, <1>4, AppendKeepsData, HeaderKeepsData, LossKeepsData
     DEF FlashNext

-----------------------------------------------------------------------------
FlashInv == FlashTypeOK /\ HeaderInv /\ DataInv

(* Two empty slots, before the first start. *)
LEMMA FlashStart ==
    ASSUME FlashInit
    PROVE  FlashInv
<1>0. /\ SlotCap \in Nat /\ QueueLen \in Nat /\ MaxBoots \in Nat /\ MaxEmits \in Nat
      /\ queue = <<>> /\ boot = 0 /\ emits = 0 /\ last = 0 /\ acked = {}
      /\ sure = [b \in 1..MaxBoots |-> <<>>]
      /\ slot = [s \in Slots |-> Erased] /\ ram = Down
  BY FlashAssumption DEF FlashInit
<1>1. Erased \in SlotSet /\ Len(Erased.data) = 0 /\ ~Erased.valid
  BY <1>0 DEF Erased, SlotSet
<1>2. Down \in RamSet /\ Down.phase = "off"
  BY <1>0 DEF Down, RamSet, Slots
<1>3. \A s \in Slots : slot[s] = Erased
  BY <1>0
<1>4. FlashTypeOK
  BY <1>0, <1>1, <1>2, <1>3 DEF FlashTypeOK
<1>5. HeaderInv
  BY <1>0, <1>1, <1>2, <1>3 DEF HeaderInv, LastInv, SlotInv, ClaimInv, RunInv
<1>6. DataInv
  BY <1>0, <1>1, <1>2, <1>3 DEF DataInv
<1> QED
  BY <1>4, <1>5, <1>6 DEF FlashInv

(* The inductive invariant of the flash tier, from which the following     *)
(* theorems are drawn.                                                     *)
THEOREM FlashInvariance == FlashSpec => []FlashInv
<1>1. FlashInit => FlashInv
  BY FlashStart
<1>2. FlashInv /\ [FlashNext]_flashVars => FlashInv'
  BY FlashTypeStep, HeaderInvariant, DataStep DEF FlashInv
<1> QED
  BY <1>1, <1>2, PTL DEF FlashSpec

(* The types of the flash tier: entries stay inside their slot and the     *)
(* queue inside its length.                                                *)
THEOREM FlashTypes == FlashSpec => []FlashTypeOK
<1>1. FlashInv => FlashTypeOK
  BY DEF FlashInv
<1> QED
  BY <1>1, FlashInvariance, PTL

(* However many start-ups broke off at whatever step, logging_flash_init   *)
(* never destroys the log of the latest boot that has one.                 *)
THEOREM LatestLogIsKept == FlashSpec => []NewestLogKept
<1>1. FlashInv => NewestLogKept
  BY DEF FlashInv, HeaderInv, LastInv, Kept, NewestLogKept
<1> QED
  BY <1>1, FlashInvariance, PTL

(* The log that logging_flash_init offers is the one of the latest boot,   *)
(* under its id, and it is offered unless it was acknowledged.             *)
THEOREM PreviousBootIsOffered == FlashSpec => []OffersPreviousBoot
<1>1. ASSUME FlashInv
      PROVE  OffersPreviousBoot
  <2>1. last \notin acked
    BY <1>1, RamTypes DEF FlashInv, HeaderInv, LastInv
  <2>2. ram.phase \in {"erase", "header"} =>
          /\ ram.prevAvailable <=> last # 0
          /\ ram.prevAvailable => ram.prevBoot = last
          /\ last # 0 => Previous.boot = last
    BY <1>1 DEF FlashInv, HeaderInv, ClaimInv, Kept, Previous
  <2> QED
    BY <2>1, <2>2 DEF OffersPreviousBoot
<1> QED
  BY <1>1, FlashInvariance, PTL

-----------------------------------------------------------------------------
(* Two readings that agree on the entries of the shorter one. *)
LEMMA PrefixOfRead ==
    ASSUME NEW S, NEW known \in Seq(S), NEW data \in Seq(S),
           NEW a \in 0..Len(known), NEW c \in 0..Len(data), a <= c,
           \A i \in 1..a : data[i] = known[i]
    PROVE  IsPrefix(SubSeq(known, 1, a), SubSeq(data, 1, c))
<1> DEFINE p == SubSeq(known, 1, a)
           q == SubSeq(data, 1, c)
<1>0. (\A i \in 1..a : known[i] \in S) /\ (\A i \in 1..c : data[i] \in S)
  OBVIOUS
<1>1. /\ p \in Seq(S) /\ Len(p) = a
      /\ \A i \in 1..a : p[i] = known[i]
  <2>1. /\ p \in Seq(S) /\ Len(p) = IF 1 <= a THEN a - 1 + 1 ELSE 0
        /\ \A i \in 1..(a - 1 + 1) : p[i] = known[1 + i - 1]
    BY <1>0, SubSeqProperties
  <2> QED
    BY <2>1
<1>2. /\ q \in Seq(S) /\ Len(q) = c
      /\ \A i \in 1..c : q[i] = data[i]
  <2>1. /\ q \in Seq(S) /\ Len(q) = IF 1 <= c THEN c - 1 + 1 ELSE 0
        /\ \A i \in 1..(c - 1 + 1) : q[i] = data[1 + i - 1]
    BY <1>0, SubSeqProperties
  <2> QED
    BY <2>1
<1> HIDE DEF p, q
<1>3. SubSeq(p, 1, a) = p
  BY <1>1, SubSeqFull
<1>4. /\ SubSeq(q, 1, a) \in Seq(S) /\ Len(SubSeq(q, 1, a)) = a
      /\ \A i \in 1..a : SubSeq(q, 1, a)[i] = q[i]
  <2>0. \A i \in 1..a : q[i] \in S
    BY <1>2
  <2>1. /\ SubSeq(q, 1, a) \in Seq(S)
        /\ Len(SubSeq(q, 1, a)) = IF 1 <= a THEN a - 1 + 1 ELSE 0
        /\ \A i \in 1..(a - 1 + 1) : SubSeq(q, 1, a)[i] = q[1 + i - 1]
    BY <2>0, SubSeqProperties
  <2> QED
    BY <2>1
<1>5. \A i \in 1..a : SubSeq(q, 1, a)[i] = p[i]
  BY <1>1, <1>2, <1>4
<1>6. SubSeq(q, 1, a) = p
  BY <1>1, <1>4, <1>5, SeqEqual
<1> QED
  BY <1>1, <1>2, <1>3, <1>6 DEF IsPrefix, p, q

(* The entries known to be whole are in front of the first damaged one, so *)
(* logging_read_previous_boot returns them.                                *)
LEMMA ReadsBack ==
    ASSUME FlashInv
    PROVE  AppendedIsReadable
<1> SUFFICES ASSUME ram.phase = "run", ram.prevAvailable, NEW max \in 1..SlotCap
             PROVE  LET known == sure[ram.prevBoot]
                    IN  IsPrefix(SubSeq(known, 1, Min({max, Len(known)})),
                                 read_previous_boot(max))
  BY DEF AppendedIsReadable
<1>0. FlashTypeOK /\ max \in Nat
  BY RamTypes DEF FlashInv
<1>1. Previous.valid /\ Previous.boot = ram.prevBoot /\ 1 - ram.own \in Slots
  BY <1>0, RamTypes DEF FlashInv, HeaderInv, RunInv
<1>2. ram.prevBoot \in 1..MaxBoots
  BY <1>0, <1>1, RamTypes DEF FlashInv, HeaderInv, SlotInv, Previous
<1>3. PICK data \in Seq(0..MaxEmits), known \in Seq(0..MaxEmits) :
        data = Previous.data /\ known = sure[ram.prevBoot]
  BY <1>0, <1>1, <1>2, SlotTypes DEF FlashTypeOK, Previous
<1>4. \A i \in 1..Len(known) :
         i <= Len(data) /\ data[i] = known[i] /\ data[i] # Damaged
  BY <1>1, <1>3 DEF FlashInv, DataInv, Sound, Previous
<1>5. PICK k \in Nat, d \in Nat : k = Len(known) /\ d = Len(data)
  OBVIOUS
<1>6. k <= d
  BY <1>4, <1>5
<1> DEFINE V == {n \in 0..Len(data) : \A i \in 1..n : data[i] # Damaged}
<1>7. k \in V /\ V \subseteq 0..d
  BY <1>4, <1>5, <1>6
<1> HIDE DEF V
<1>8. PICK m \in Nat : m = Max(V) /\ k <= m /\ m <= d
  <2>1. Max(V) \in V /\ \A y \in V : y <= Max(V)
    BY <1>7, BoundedMax
  <2>2. Max(V) \in 0..d /\ k <= Max(V)
    BY <1>7, <2>1
  <2> QED
    BY <2>2
<1>9. Min({max, k}) = IF max <= k THEN max ELSE k
  BY <1>0, MinOfTwo
<1>10. Min({m, max}) = IF m <= max THEN m ELSE max
  BY <1>0, MinOfTwo
<1>11. PICK a \in 0..Len(known), c \in 0..Len(data) :
         a = Min({max, Len(known)}) /\ c = Min({Max(V), max}) /\ a <= c
  BY <1>0, <1>5, <1>6, <1>8, <1>9, <1>10
<1>12. IsPrefix(SubSeq(known, 1, a), SubSeq(data, 1, c))
  BY <1>4, <1>11, PrefixOfRead
<1>13. read_previous_boot(max) = SubSeq(data, 1, c)
  BY <1>3, <1>11, Zenon DEF read_previous_boot, V
<1> QED
  BY <1>3, <1>11, <1>12, <1>13

(* What logf_task appended before the first failure can be read back after *)
(* any restart (logging_read_previous_boot), for every size of the batch.  *)
THEOREM AppendedCanBeRead == FlashSpec => []AppendedIsReadable
<1>1. FlashInv => AppendedIsReadable
  BY ReadsBack
<1> QED
  BY <1>1, FlashInvariance, PTL

-----------------------------------------------------------------------------
\* The offset of a position that was counted on past the end of the buffer.
Place(p) == IF p < Capacity THEN p ELSE p - Capacity

\* The records numbered first to next - 1 are in the bytes b, each whole and
\* unaltered: x[s] is the position of record s, counted on past the end, and
\* z[s] its size.  Each follows the one before it at once or, behind a marked
\* gap, at the start of the buffer.
Placed(b, e, x, z, first, next) ==
    /\ \A s \in first..(next - 1) :
         /\ x[s] >= 0
         /\ x[s] < Capacity => x[s] + z[s] <= Capacity
         /\ b[Place(x[s])] = [size |-> z[s], level |-> e[s], seq |-> s]
    /\ \A s \in first..(next - 2) :
         \/ x[s + 1] = x[s] + z[s]
         \/ /\ x[s + 1] = Capacity
            /\ x[s] + z[s] < Capacity
            /\ b[x[s] + z[s]].size = 0
    /\ \A s, t \in first..(next - 1) : s < t => x[s] + z[s] <= x[t]

\* They fill the ring from the tail, or from a gap at the tail, to the head.
Filled(b, e, x, z, first, next, tail, used) ==
    /\ Placed(b, e, x, z, first, next)
    /\ \/ x[first] = tail
       \/ x[first] = Capacity /\ b[tail].size = 0
    /\ x[next - 1] + z[next - 1] = tail + used

Positions == [Nat -> Int]
Lengths == [Nat -> Sizes]

\* The members of log_ring_t besides the buffer.
RingStates ==
    [head : Offsets, tail : Offsets, used : 0..Capacity, count : Nat,
     next_seq : Nat \ {0}, first_seq : Nat \ {0}, overwritten : Nat]

\* The members of log_ring_t agree with each other and with the bytes.
RingSound(b, e, r) ==
    /\ r \in RingStates
    /\ r.next_seq = Len(e) + 1
    /\ r.count = r.next_seq - r.first_seq
    /\ r.overwritten < r.first_seq
    /\ r.count = 0 => r.head = 0 /\ r.tail = 0 /\ r.used = 0
    /\ r.count > 0 =>
         /\ r.head = Place(r.tail + r.used)
         /\ \E x \in Positions, z \in Lengths :
              Filled(b, e, x, z, r.first_seq, r.next_seq, r.tail, r.used)

LogInv == TypeOK /\ RingSound(buf, emitted, ring)

-----------------------------------------------------------------------------
(* What the assumption says of the capacity and the sizes. *)
LEMMA CapacityAndSizes ==
    /\ Capacity \in Nat /\ Capacity >= 1 /\ Offsets = 0..(Capacity - 1)
    /\ \A n \in Sizes : n \in Nat /\ n >= 1 /\ n <= Capacity
<1>1. PICK n \in Sizes : n \in 1..Capacity
  BY RingAssumption
<1> QED
  BY <1>1, RingAssumption DEF Offsets

(* Less than one round apart, two positions have different offsets. *)
LEMMA OffsetsDiffer ==
    ASSUME NEW tail \in Offsets, NEW p \in Int, NEW q \in Int,
           tail <= p, p < q, q < tail + Capacity
    PROVE  Place(p) \in Offsets /\ Place(q) \in Offsets /\ Place(p) # Place(q)
BY CapacityAndSizes DEF Place

(* The records lie between the tail and the head. *)
LEMMA BetweenTailAndHead ==
    ASSUME NEW b, NEW e, NEW x \in Positions, NEW z \in Lengths,
           NEW first \in Nat, NEW next \in Nat, first < next,
           NEW tail \in Offsets, NEW used \in 0..Capacity,
           Filled(b, e, x, z, first, next, tail, used),
           NEW s \in first..(next - 1)
    PROVE  /\ x[s] \in Int /\ z[s] \in Nat /\ z[s] >= 1
           /\ x[first] <= x[s] /\ tail <= x[s] /\ x[s] + z[s] <= tail + used
<1>0. /\ first \in Nat /\ next - 1 \in Nat /\ s \in Nat
      /\ first <= s /\ s <= next - 1 /\ next - 1 \in first..(next - 1)
      /\ first \in first..(next - 1)
  OBVIOUS
<1>1. \A k \in Nat : x[k] \in Int /\ z[k] \in Nat /\ z[k] >= 1
  BY CapacityAndSizes DEF Positions, Lengths
<1>2. /\ \A k, l \in first..(next - 1) : k < l => x[k] + z[k] <= x[l]
      /\ x[first] = tail \/ x[first] = Capacity
      /\ x[next - 1] + z[next - 1] = tail + used
  BY DEF Filled, Placed
<1>3. tail \in Int /\ tail <= Capacity /\ Capacity \in Nat /\ used \in Int
  BY CapacityAndSizes
<1>4. tail <= x[first]
  BY <1>0, <1>1, <1>2, <1>3
<1>5. x[first] <= x[s]
  <2>1. CASE first = s
    BY <2>1, <1>0, <1>1
  <2>2. CASE first < s
    <3>1. x[first] + z[first] <= x[s]
      BY <2>2, <1>0, <1>2
    <3> QED
      BY <3>1, <1>0, <1>1
  <2> QED
    BY <2>1, <2>2, <1>0
<1>6. x[s] + z[s] <= tail + used
  <2>1. CASE s = next - 1
    BY <2>1, <1>0, <1>1, <1>2, <1>3
  <2>2. CASE s < next - 1
    <3>1. x[s] + z[s] <= x[next - 1]
      BY <2>2, <1>0, <1>2
    <3> QED
      BY <3>1, <1>0, <1>1, <1>2, <1>3
  <2> QED
    BY <2>1, <2>2, <1>0
<1> QED
  BY <1>0, <1>1, <1>3, <1>4, <1>5, <1>6

(* Without its oldest record the rest is still in place. *)
LEMMA OldestReleased ==
    ASSUME NEW b, NEW e, NEW x, NEW z, NEW first \in Nat, NEW next \in Nat,
           Placed(b, e, x, z, first, next)
    PROVE  Placed(b, e, x, z, first + 1, next)
<1>1. /\ (first + 1)..(next - 1) \subseteq first..(next - 1)
      /\ (first + 1)..(next - 2) \subseteq first..(next - 2)
  OBVIOUS
<1> QED
  BY <1>1, Zenon DEF Placed

(* Records that are all past the end may be counted from the start. *)
LEMMA CountedFromStart ==
    ASSUME NEW b, NEW e, NEW x \in Positions, NEW z \in Lengths,
           NEW first \in Nat, NEW next \in Nat,
           NEW top \in Int, top <= Capacity + Capacity,
           Placed(b, e, x, z, first, next),
           \A s \in first..(next - 1) : Capacity <= x[s] /\ x[s] + z[s] <= top,
           NEW y, y = [s \in Nat |-> x[s] - Capacity]
    PROVE  y \in Positions /\ Placed(b, e, y, z, first, next)
<1>0. Capacity \in Nat /\ Capacity >= 1
  BY CapacityAndSizes
<1>1. \A s \in Nat : x[s] \in Int /\ z[s] \in Nat /\ z[s] >= 1
                     /\ y[s] = x[s] - Capacity
  BY CapacityAndSizes DEF Positions, Lengths
<1>2. y \in Positions
  BY <1>0, <1>1 DEF Positions
<1>3. ASSUME NEW s \in first..(next - 1)
      PROVE  /\ y[s] >= 0 /\ y[s] + z[s] <= Capacity
             /\ Place(y[s]) = Place(x[s])
             /\ b[Place(y[s])] = [size |-> z[s], level |-> e[s], seq |-> s]
  <2>1. s \in Nat /\ Capacity <= x[s] /\ x[s] + z[s] <= top
    OBVIOUS
  <2>2. y[s] >= 0 /\ y[s] + z[s] <= Capacity /\ Place(y[s]) = Place(x[s])
    BY <1>0, <1>1, <2>1 DEF Place
  <2>3. b[Place(x[s])] = [size |-> z[s], level |-> e[s], seq |-> s]
    BY Zenon DEF Placed
  <2> QED
    BY <2>2, <2>3
<1>4. ASSUME NEW s \in first..(next - 2)
      PROVE  y[s + 1] = y[s] + z[s]
  <2>1. s \in Nat /\ s + 1 \in Nat /\ s \in first..(next - 1)
    OBVIOUS
  <2>2. x[s + 1] = x[s] + z[s] \/ x[s] + z[s] < Capacity
    BY Zenon DEF Placed
  <2>3. Capacity <= x[s]
    BY <2>1
  <2> QED
    BY <1>0, <1>1, <2>1, <2>2, <2>3
<1>5. ASSUME NEW s \in first..(next - 1), NEW t \in first..(next - 1), s < t
      PROVE  y[s] + z[s] <= y[t]
  <2>1. s \in Nat /\ t \in Nat
    OBVIOUS
  <2>2. x[s] + z[s] <= x[t]
    BY <1>5, Zenon DEF Placed
  <2> QED
    BY <1>0, <1>1, <2>1, <2>2
<1> QED
  BY <1>2, <1>3, <1>4, <1>5, Zenon DEF Placed

(* What is left of a ring with more than one record fills it again: a gap  *)
(* at the tail goes with the oldest record.                                *)
LEMMA FilledByTheRest ==
    ASSUME NEW b, NEW e, NEW x \in Positions, NEW z \in Lengths,
           NEW first \in Nat, NEW next \in Nat, first + 1 < next,
           NEW tail \in Offsets, NEW used \in 0..Capacity,
           Filled(b, e, x, z, first, next, tail, used),
           NEW gap, gap = IF b[tail].size = 0 THEN Capacity - tail ELSE 0,
           NEW start, start = IF b[tail].size = 0 THEN 0 ELSE tail,
           NEW size, size = b[start].size,
           NEW nt, nt = Advance(start, size), NEW nu, nu = used - gap - size
    PROVE  /\ nt \in Offsets /\ nu \in 0..Capacity
           /\ Place(nt + nu) = Place(tail + used)
           /\ \E y \in Positions : Filled(b, e, y, z, first + 1, next, nt, nu)
<1> DEFINE y == [s \in Nat |-> x[s] - Capacity]
<1>0. /\ Capacity \in Nat /\ Capacity >= 1 /\ first \in first..(next - 1)
      /\ first + 1 \in first..(next - 1) /\ first \in first..(next - 2)
      /\ first + 1 \in Nat /\ next - 1 \in Nat /\ first < next
      /\ next - 1 \in first..(next - 1)
      /\ tail \in Nat /\ tail < Capacity /\ used \in Nat /\ used <= Capacity
  BY CapacityAndSizes
<1>1. /\ Placed(b, e, x, z, first, next)
      /\ x[first] = tail \/ (x[first] = Capacity /\ b[tail].size = 0)
      /\ x[next - 1] + z[next - 1] = tail + used
  BY Zenon DEF Filled
<1>2. \A s \in first..(next - 1) :
        /\ x[s] \in Int /\ z[s] \in Nat /\ z[s] >= 1
        /\ x[first] <= x[s] /\ tail <= x[s] /\ x[s] + z[s] <= tail + used
  BY <1>0, BetweenTailAndHead
<1>3. Placed(b, e, x, z, first + 1, next)
  BY <1>1, OldestReleased
<1>4. /\ x[first] < Capacity => x[first] + z[first] <= Capacity
      /\ b[Place(x[first])].size = z[first]
      /\ \/ x[first + 1] = x[first] + z[first]
         \/ /\ x[first + 1] = Capacity
            /\ x[first] + z[first] < Capacity
            /\ b[x[first] + z[first]].size = 0
      /\ \A t \in first..(next - 1) : first < t => x[first] + z[first] <= x[t]
  <2>1. b[Place(x[first])] = [size |-> z[first], level |-> e[first], seq |-> first]
    BY <1>0, <1>1, Zenon DEF Placed
  <2>2. b[Place(x[first])].size = z[first]
    BY <2>1
  <2> QED
    BY <1>0, <1>1, <2>2, Zenon DEF Placed
<1>5. /\ x[first] \in Int /\ z[first] \in Nat /\ z[first] >= 1
      /\ x[first + 1] \in Int /\ z[first + 1] \in Nat /\ z[first + 1] >= 1
      /\ x[first + 1] + z[first + 1] <= tail + used
  BY <1>0, <1>2
<1>6. \A s \in Nat : y[s] = x[s] - Capacity
  OBVIOUS
<1> HIDE DEF y
<1>7. ASSUME \A s \in (first + 1)..(next - 1) : Capacity <= x[s]
      PROVE  y \in Positions /\ Placed(b, e, y, z, first + 1, next)
  <2>1. \A s \in (first + 1)..(next - 1) : x[s] + z[s] <= tail + used
    BY <1>0, <1>2
  <2>2. tail + used \in Int /\ tail + used <= Capacity + Capacity
    BY <1>0
  <2>3. y = [s \in Nat |-> x[s] - Capacity]
    BY DEF y
  <2> QED
    BY <1>0, <1>3, <1>7, <2>1, <2>2, <2>3, CountedFromStart
<1>8. CASE x[first] = Capacity /\ b[tail].size = 0
  <2>1. start = 0 /\ gap = Capacity - tail /\ Place(x[first]) = 0 /\ size = z[first]
    BY <1>0, <1>4, <1>8 DEF Place
  <2>2. x[first + 1] = Capacity + z[first]
    BY <1>0, <1>4, <1>5, <1>8
  <2>3. z[first] < tail /\ nt = z[first]
    BY <1>0, <1>5, <2>1, <2>2 DEF Advance
  <2>4. nu = used - (Capacity - tail) - z[first] /\ nt + nu = tail + used - Capacity
    BY <1>0, <1>5, <2>1, <2>3
  <2>5. nt \in Offsets /\ nu \in 0..Capacity
    <3>1. nu \in Int /\ nu >= 0 /\ nu <= Capacity
      BY <1>0, <1>5, <2>2, <2>4
    <3>2. nt \in 0..(Capacity - 1)
      BY <1>0, <1>5, <2>3
    <3> QED
      BY <1>0, <3>1, <3>2, CapacityAndSizes
  <2>6. Place(nt + nu) = Place(tail + used)
    BY <1>0, <1>5, <2>2, <2>4 DEF Place
  <2>7. y \in Positions /\ Placed(b, e, y, z, first + 1, next)
    <3>1. \A s \in (first + 1)..(next - 1) : Capacity <= x[s]
      BY <1>0, <1>2, <1>8
    <3> QED
      BY <1>7, <3>1
  <2>8. y[first + 1] = nt /\ y[next - 1] + z[next - 1] = nt + nu
    BY <1>0, <1>1, <1>2, <1>5, <1>6, <2>2, <2>3, <2>4
  <2>9. Filled(b, e, y, z, first + 1, next, nt, nu)
    BY <2>7, <2>8, Zenon DEF Filled
  <2> QED
    BY <2>5, <2>6, <2>7, <2>9
<1>9. CASE x[first] = tail
  <2>1. Place(x[first]) = tail /\ start = tail /\ size = z[first] /\ gap = 0
    BY <1>0, <1>4, <1>5, <1>9 DEF Place
  <2>2. nu = used - z[first] /\ nu \in 0..Capacity /\ tail + z[first] <= Capacity
    BY <1>0, <1>4, <1>5, <1>9, <2>1
  <2>3. CASE tail + z[first] = Capacity
    <3>1. nt = 0 /\ x[first + 1] = Capacity /\ nt + nu = tail + used - Capacity
      BY <1>0, <1>4, <1>5, <1>9, <2>1, <2>2, <2>3 DEF Advance
    <3>2. Place(nt + nu) = Place(tail + used)
      BY <1>0, <1>5, <3>1, <2>2 DEF Place
    <3>3. y \in Positions /\ Placed(b, e, y, z, first + 1, next)
      <4>1. \A s \in (first + 1)..(next - 1) : Capacity <= x[s]
        BY <1>0, <1>2, <1>4, <1>5, <1>9, <2>3
      <4> QED
        BY <1>7, <4>1
    <3>4. y[first + 1] = nt /\ y[next - 1] + z[next - 1] = nt + nu
      BY <1>0, <1>1, <1>2, <1>5, <1>6, <3>1
    <3>5. Filled(b, e, y, z, first + 1, next, nt, nu)
      BY <3>3, <3>4, Zenon DEF Filled
    <3>6. nt \in Offsets
      BY <1>0, <3>1, CapacityAndSizes
    <3> QED
      BY <2>2, <3>2, <3>3, <3>5, <3>6
  <2>4. CASE tail + z[first] < Capacity
    <3>1. nt = tail + z[first] /\ nt \in Offsets /\ nt + nu = tail + used
      <4>1. nt = tail + z[first]
        BY <1>0, <1>5, <2>1, <2>4 DEF Advance
      <4>2. nt \in 0..(Capacity - 1) /\ nt + nu = tail + used
        BY <1>0, <1>5, <2>2, <2>4, <4>1
      <4> QED
        BY <4>1, <4>2, CapacityAndSizes
    <3>2. x[first + 1] = nt \/ (x[first + 1] = Capacity /\ b[nt].size = 0)
      BY <1>4, <1>9, <3>1
    <3>3. x[next - 1] + z[next - 1] = nt + nu
      BY <1>1, <3>1
    <3>4. Filled(b, e, x, z, first + 1, next, nt, nu)
      BY <1>3, <3>2, <3>3, Zenon DEF Filled
    <3> QED
      BY <2>2, <3>1, <3>4
  <2> QED
    BY <1>0, <1>5, <2>2, <2>3, <2>4
<1> QED
  BY <1>1, <1>8, <1>9

\* The members after one record is released, and after the last one is.
Released(r, u, t, c, f, o) ==
    [r EXCEPT !.used = u, !.tail = t, !.count = c,
              !.first_seq = f, !.overwritten = o]
Emptied(r) == [r EXCEPT !.head = 0, !.tail = 0, !.used = 0]

(* Their types and values. *)
LEMMA MembersReleased ==
    ASSUME NEW r \in RingStates, NEW u \in 0..Capacity, NEW t \in Offsets,
           NEW c \in Nat, NEW f \in Nat \ {0}, NEW o \in Nat,
           NEW d, d = Released(r, u, t, c, f, o)
    PROVE  /\ d \in RingStates
           /\ d.head = r.head /\ d.tail = t /\ d.used = u /\ d.count = c
           /\ d.next_seq = r.next_seq /\ d.first_seq = f /\ d.overwritten = o
<1>1. d \in RingStates
  BY DEF RingStates, Released
<1>2. /\ d.head = r.head /\ d.tail = t /\ d.used = u /\ d.count = c
      /\ d.next_seq = r.next_seq /\ d.first_seq = f /\ d.overwritten = o
  BY DEF RingStates, Released
<1> QED
  BY <1>1, <1>2

LEMMA MembersEmptied ==
    ASSUME NEW r \in RingStates, NEW u, NEW t, NEW c \in Nat,
           NEW f \in Nat \ {0}, NEW o \in Nat,
           NEW d, d = Emptied(Released(r, u, t, c, f, o))
    PROVE  /\ d \in RingStates
           /\ d.head = 0 /\ d.tail = 0 /\ d.used = 0 /\ d.count = c
           /\ d.next_seq = r.next_seq /\ d.first_seq = f /\ d.overwritten = o
<1>1. 0 \in Offsets /\ 0 \in 0..Capacity
  BY CapacityAndSizes
<1>2. /\ d.head = 0 /\ d.tail = 0 /\ d.used = 0 /\ d.count = c
      /\ d.next_seq = r.next_seq /\ d.first_seq = f /\ d.overwritten = o
  BY DEF RingStates, Released, Emptied
<1>3. d \in RingStates
  BY <1>1 DEF RingStates, Released, Emptied
<1> QED
  BY <1>2, <1>3

(* discard_oldest keeps the ring sound. *)
LEMMA DiscardKeepsSound ==
    ASSUME NEW r, RingSound(buf, emitted, r), NEW d, d = discard_oldest(r)
    PROVE  /\ RingSound(buf, emitted, d)
           /\ d.next_seq = r.next_seq
           /\ r.count = 0 => d = r
           /\ r.count > 0 => /\ d.count = r.count - 1
                             /\ d.first_seq = r.first_seq + 1
                             /\ d.overwritten = r.overwritten + 1
<1> DEFINE gap == IF buf[r.tail].size = 0 THEN Capacity - r.tail ELSE 0
           start == IF buf[r.tail].size = 0 THEN 0 ELSE r.tail
           size == buf[start].size
           nt == Advance(start, size)
           nu == r.used - gap - size
           one == [r EXCEPT !.used = @ - gap - size, !.tail = Advance(start, size),
                            !.count = @ - 1, !.first_seq = @ + 1,
                            !.overwritten = @ + 1]
<1>0. /\ r \in RingStates /\ r.next_seq = Len(emitted) + 1
      /\ r.count = r.next_seq - r.first_seq /\ r.overwritten < r.first_seq
      /\ r.count \in Nat /\ r.first_seq \in Nat \ {0} /\ r.overwritten \in Nat
      /\ r.next_seq \in Nat \ {0} /\ r.tail \in Offsets /\ r.used \in 0..Capacity
  BY DEF RingSound, RingStates
<1>1. d = CASE r.count = 0 -> r
            [] r.count = 1 -> [one EXCEPT !.head = 0, !.tail = 0, !.used = 0]
            [] OTHER -> one
  BY Zenon DEF discard_oldest, at_wrap_gap
<1>2. CASE r.count = 0
  <2>1. d = r
    BY <1>1, <1>2
  <2> QED
    BY <1>2, <2>1
<1>3. one = Released(r, nu, nt, r.count - 1, r.first_seq + 1, r.overwritten + 1)
  BY Zenon DEF Released
<1>4. /\ r.first_seq + 1 \in Nat \ {0} /\ r.overwritten + 1 \in Nat
      /\ r.count > 0 => r.count - 1 \in Nat
  BY <1>0
<1> HIDE DEF one
<1>5. CASE r.count = 1
  <2>1. d = Emptied(one)
    <3>1. d = [one EXCEPT !.head = 0, !.tail = 0, !.used = 0]
      BY <1>1, <1>5
    <3> QED
      BY <3>1, Zenon DEF Emptied
  <2>2. r.count - 1 = 0 /\ r.count - 1 \in Nat
    BY <1>5
  <2>3. /\ d \in RingStates
        /\ d.head = 0 /\ d.tail = 0 /\ d.used = 0 /\ d.count = r.count - 1
        /\ d.next_seq = r.next_seq /\ d.first_seq = r.first_seq + 1
        /\ d.overwritten = r.overwritten + 1
    <3> HIDE DEF nt, nu
    <3> QED
      BY <1>0, <1>3, <1>4, <2>1, <2>2, MembersEmptied
  <2>4. d.count = d.next_seq - d.first_seq /\ d.overwritten < d.first_seq
        /\ d.count = 0
    BY <1>0, <1>5, <2>2, <2>3
  <2>5. RingSound(buf, emitted, d)
    BY <1>0, <2>3, <2>4 DEF RingSound
  <2> QED
    BY <1>5, <2>3, <2>5
<1>6. CASE r.count > 1
  <2>1. d = one
    BY <1>0, <1>1, <1>6
  <2>2. r.count - 1 \in Nat
    BY <1>0, <1>6
  <2>3. PICK x \in Positions, z \in Lengths :
          Filled(buf, emitted, x, z, r.first_seq, r.next_seq, r.tail, r.used)
    BY <1>6, <1>0 DEF RingSound
  <2>4. r.head = Place(r.tail + r.used)
    BY <1>6, <1>0 DEF RingSound
  <2>5. /\ nt \in Offsets /\ nu \in 0..Capacity
        /\ Place(nt + nu) = Place(r.tail + r.used)
        /\ \E y \in Positions :
             Filled(buf, emitted, y, z, r.first_seq + 1, r.next_seq, nt, nu)
    <3>1. /\ r.first_seq \in Nat /\ r.next_seq \in Nat
          /\ r.first_seq + 1 < r.next_seq
      BY <1>0, <1>6
    <3> QED
      BY <1>0, <2>3, <3>1, FilledByTheRest
  <2> HIDE DEF nt, nu
  <2>6. /\ d \in RingStates
        /\ d.head = r.head /\ d.tail = nt /\ d.used = nu /\ d.count = r.count - 1
        /\ d.next_seq = r.next_seq /\ d.first_seq = r.first_seq + 1
        /\ d.overwritten = r.overwritten + 1
    <3>1. nt \in Offsets /\ nu \in 0..Capacity
      BY <2>5
    <3>2. r \in RingStates /\ r.first_seq + 1 \in Nat \ {0}
          /\ r.overwritten + 1 \in Nat
      BY <1>0, <1>4
    <3>3. d = Released(r, nu, nt, r.count - 1, r.first_seq + 1, r.overwritten + 1)
      BY <1>3, <2>1
    <3>4. PICK cc \in Nat, ff \in Nat \ {0}, oo \in Nat :
            cc = r.count - 1 /\ ff = r.first_seq + 1 /\ oo = r.overwritten + 1
      BY <2>2, <3>2
    <3>5. d = Released(r, nu, nt, cc, ff, oo) /\ r \in RingStates
      BY <3>2, <3>3, <3>4, Zenon
    <3> HIDE DEF one, size, start, gap
    <3>6. /\ d \in RingStates
          /\ d.head = r.head /\ d.tail = nt /\ d.used = nu /\ d.count = cc
          /\ d.next_seq = r.next_seq /\ d.first_seq = ff /\ d.overwritten = oo
      BY <3>1, <3>5, MembersReleased
    <3> QED
      BY <3>4, <3>6
  <2>7. /\ d.next_seq = Len(emitted) + 1 /\ d.count = d.next_seq - d.first_seq
        /\ d.overwritten < d.first_seq /\ d.count # 0
    BY <1>0, <1>6, <2>6
  <2>8. d.head = Place(d.tail + d.used)
    BY <2>4, <2>5, <2>6
  <2>9. \E y \in Positions, w \in Lengths :
          Filled(buf, emitted, y, w, d.first_seq, d.next_seq, d.tail, d.used)
    BY <2>5, <2>6
  <2>10. RingSound(buf, emitted, d)
    BY <2>6, <2>7, <2>8, <2>9 DEF RingSound
  <2> QED
    BY <1>6, <2>6, <2>10
<1> QED
  BY <1>0, <1>2, <1>5, <1>6

-----------------------------------------------------------------------------
(* Induction over the numbers up to n, for the members of a set. *)
LEMMA UpTo ==
    ASSUME NEW n \in Nat, NEW S, 0 \in S,
           \A k \in 0..n : k \in S /\ k < n => k + 1 \in S
    PROVE  \A k \in 0..n : k \in S
<1> DEFINE R == OpToRel(<, Nat)
           T == {k \in 0..n : k \notin S}
<1>1. SUFFICES ASSUME T # {} PROVE FALSE
  OBVIOUS
<1>2. IsWellFoundedOn(R, Nat)
  BY NatLessThanWellFounded
<1>2a. T \subseteq Nat
  OBVIOUS
<1>3. \A x \in Nat, y \in Nat : <<y, x>> \in R <=> y < x
  BY DEF OpToRel
<1> HIDE DEF R
<1>4. PICK x \in T : \A y \in T : ~(<<y, x>> \in R)
  BY <1>1, <1>2, <1>2a, WFMin
<1>5. x \in 0..n /\ x \notin S /\ x # 0
  OBVIOUS
<1>6. x - 1 \in 0..n /\ x - 1 < x /\ x - 1 < n /\ (x - 1) + 1 = x
  BY <1>5
<1>7. x - 1 \in S
  <2>1. x \in Nat /\ x - 1 \in Nat
    BY <1>5, <1>6
  <2>2. <<x - 1, x>> \in R
    BY <1>3, <1>6, <2>1
  <2> QED
    BY <1>4, <1>6, <2>2
<1> QED
  BY <1>5, <1>6, <1>7

\* g starts from a and goes on from each value to the next.
Iterates(g, n, a, step) ==
    g = [k \in 0..n |-> IF k = 0 THEN a ELSE step[k][g[k - 1]]]

(* What is defined by going on from the value before exists. *)
LEMMA IterationExists ==
    ASSUME NEW n \in Nat, NEW D, NEW a \in D, NEW step \in [1..n -> [D -> D]]
    PROVE  \E g \in [0..n -> D] : Iterates(g, n, a, step)
<1> DEFINE S == {m \in 0..n : \E g \in [0..m -> D] :
                   \A k \in 0..m : g[k] = IF k = 0 THEN a ELSE step[k][g[k - 1]]}
<1>1. 0 \in S
  <2> DEFINE g == [k \in 0..0 |-> a]
  <2>1. g \in [0..0 -> D]
        /\ \A k \in 0..0 : g[k] = IF k = 0 THEN a ELSE step[k][g[k - 1]]
    OBVIOUS
  <2>2. 0 \in 0..n
    OBVIOUS
  <2> HIDE DEF g
  <2> QED
    BY <2>1, <2>2
<1>2. ASSUME NEW m \in 0..n, m \in S, m < n
      PROVE  m + 1 \in S
  <2>1. PICK g \in [0..m -> D] :
          \A k \in 0..m : g[k] = IF k = 0 THEN a ELSE step[k][g[k - 1]]
    BY <1>2
  <2> DEFINE h == [k \in 0..(m + 1) |-> IF k <= m THEN g[k] ELSE step[m + 1][g[m]]]
  <2>2. m \in 0..m /\ m + 1 \in 1..n
    BY <1>2
  <2>3. step[m + 1][g[m]] \in D
    BY <2>2
  <2>4. h \in [0..(m + 1) -> D]
    BY <2>3
  <2>5. ASSUME NEW k \in 0..(m + 1)
        PROVE  h[k] = IF k = 0 THEN a ELSE step[k][h[k - 1]]
    <3>1. CASE k <= m
      <4>1. k \in 0..m /\ h[k] = g[k]
        BY <3>1
      <4>2. k # 0 => k - 1 \in 0..(m + 1) /\ k - 1 <= m
        BY <3>1
      <4>3. k # 0 => h[k - 1] = g[k - 1]
        BY <4>2
      <4> QED
        BY <2>1, <4>1, <4>3
    <3>2. CASE k = m + 1
      <4>1. h[k] = step[m + 1][g[m]] /\ k # 0 /\ k - 1 = m
        BY <3>2
      <4>2. h[m] = g[m]
        BY <2>2
      <4> QED
        BY <3>2, <4>1, <4>2
    <3> QED
      BY <3>1, <3>2
  <2>6. m + 1 \in 0..n
    BY <1>2
  <2> HIDE DEF h
  <2> QED
    BY <2>4, <2>5, <2>6
<1>3. n \in S
  <2> HIDE DEF S
  <2>1. \A k \in 0..n : k \in S
    BY <1>1, <1>2, UpTo
  <2> QED
    BY <2>1
<1>4. PICK g \in [0..n -> D] :
        \A k \in 0..n : g[k] = IF k = 0 THEN a ELSE step[k][g[k - 1]]
  BY <1>3
<1>5. g = [k \in 0..n |-> IF k = 0 THEN a ELSE step[k][g[k - 1]]]
  BY <1>4
<1> QED
  BY <1>5, Zenon DEF Iterates

-----------------------------------------------------------------------------
\* The states of the ring that discarding can lead to.
Discardings == {r \in RingStates : RingSound(buf, emitted, r)}

(* The states the loop of log_ring_push goes through. *)
LEMMA DiscardedStates ==
    ASSUME RingSound(buf, emitted, ring)
    PROVE  /\ discarded[0] = ring
           /\ \A k \in 0..ring.count : k # 0 =>
                discarded[k] = discard_oldest(discarded[k - 1])
<1> DEFINE n == ring.count
           step == [k \in 1..n |-> [r \in Discardings |-> discard_oldest(r)]]
<1>1. n \in Nat /\ ring \in Discardings
  BY DEF RingSound, RingStates, Discardings
<1>2. \A r \in Discardings : discard_oldest(r) \in Discardings
  <2>1. SUFFICES ASSUME NEW r \in Discardings
                 PROVE  discard_oldest(r) \in Discardings
    OBVIOUS
  <2>2. RingSound(buf, emitted, discard_oldest(r))
    BY DiscardKeepsSound DEF Discardings
  <2>3. discard_oldest(r) \in RingStates
    BY <2>2 DEF RingSound
  <2> QED
    BY <2>2, <2>3 DEF Discardings
<1>3. step \in [1..n -> [Discardings -> Discardings]]
  BY <1>2
<1>4. \A k \in 1..n : \A r \in Discardings : step[k][r] = discard_oldest(r)
  OBVIOUS
<1> HIDE DEF step, n
<1>5. PICK g \in [0..n -> Discardings] : Iterates(g, n, ring, step)
  BY <1>1, <1>3, IterationExists
<1>6. g = [k \in 0..n |-> IF k = 0 THEN ring ELSE discard_oldest(g[k - 1])]
  <2>1. ASSUME NEW k \in 0..n
        PROVE  (IF k = 0 THEN ring ELSE step[k][g[k - 1]])
                 = IF k = 0 THEN ring ELSE discard_oldest(g[k - 1])
    <3>1. CASE k = 0
      BY <3>1
    <3>2. CASE k # 0
      <4>1. k \in 1..n /\ k - 1 \in 0..n
        BY <1>1, <3>2
      <4>2. g[k - 1] \in Discardings
        BY <4>1
      <4> QED
        BY <1>4, <3>2, <4>1, <4>2
    <3> QED
      BY <3>1, <3>2
  <2>2. [k \in 0..n |-> IF k = 0 THEN ring ELSE step[k][g[k - 1]]]
          = [k \in 0..n |-> IF k = 0 THEN ring ELSE discard_oldest(g[k - 1])]
    BY <2>1
  <2> QED
    BY <1>5, <2>2 DEF Iterates
<1>7. discarded
        = [k \in 0..n |-> IF k = 0 THEN ring ELSE discard_oldest(discarded[k - 1])]
  BY <1>6, Zenon DEF discarded, n
<1>8. ASSUME NEW k \in 0..n
      PROVE  discarded[k] = IF k = 0 THEN ring ELSE discard_oldest(discarded[k - 1])
  BY <1>7, Zenon
<1>9. 0 \in 0..n
  BY <1>1
<1> QED
  BY <1>8, <1>9, Zenon DEF n

(* A set of numbers that is not empty has a smallest one. *)
LEMMA SmallestOf ==
    ASSUME NEW V, V \subseteq Nat, V # {}
    PROVE  Min(V) \in V /\ \A y \in V : Min(V) <= y
<1> DEFINE R == OpToRel(<, Nat)
<1>1. IsWellFoundedOn(R, Nat)
  BY NatLessThanWellFounded
<1>2. \A x \in Nat, y \in Nat : <<y, x>> \in R <=> y < x
  BY DEF OpToRel
<1> HIDE DEF R
<1>3. PICK x \in V : \A y \in V : ~(<<y, x>> \in R)
  BY <1>1, WFMin
<1>4. ASSUME NEW y \in V
      PROVE  x <= y
  <2>1. x \in Nat /\ y \in Nat /\ ~(y < x)
    BY <1>2, <1>3
  <2> QED
    BY <2>1
<1>5. \E w \in V : \A y \in V : w <= y
  BY <1>4
<1> QED
  BY <1>5, Zenon DEF Min

(* Each round of the loop discards the oldest of the records left. *)
LEMMA DiscardedMembers ==
    ASSUME RingSound(buf, emitted, ring), NEW k \in 0..ring.count
    PROVE  /\ RingSound(buf, emitted, discarded[k])
           /\ discarded[k].next_seq = ring.next_seq
           /\ discarded[k].count = ring.count - k
           /\ discarded[k].first_seq = ring.first_seq + k
           /\ discarded[k].overwritten = ring.overwritten + k
<1> DEFINE n == ring.count
           P(i) == /\ RingSound(buf, emitted, discarded[i])
                   /\ discarded[i].next_seq = ring.next_seq
                   /\ discarded[i].count = ring.count - i
                   /\ discarded[i].first_seq = ring.first_seq + i
                   /\ discarded[i].overwritten = ring.overwritten + i
           S == {i \in 0..n : P(i)}
<1>0. n \in Nat /\ ring.first_seq \in Nat /\ ring.overwritten \in Nat
  BY DEF RingSound, RingStates
<1>1. 0 \in S
  BY <1>0, DiscardedStates
<1>2. ASSUME NEW i \in 0..n, i \in S, i < n
      PROVE  i + 1 \in S
  <2>1. P(i)
    BY <1>2
  <2>2. i + 1 \in 0..n /\ i + 1 # 0 /\ (i + 1) - 1 = i
    BY <1>0, <1>2
  <2>3. discarded[i + 1] = discard_oldest(discarded[i])
    BY <2>2, DiscardedStates
  <2>4. discarded[i].count > 0
    BY <1>0, <1>2, <2>1
  <2>5. /\ RingSound(buf, emitted, discarded[i + 1])
        /\ discarded[i + 1].next_seq = discarded[i].next_seq
        /\ discarded[i + 1].count = discarded[i].count - 1
        /\ discarded[i + 1].first_seq = discarded[i].first_seq + 1
        /\ discarded[i + 1].overwritten = discarded[i].overwritten + 1
    BY <2>1, <2>3, <2>4, DiscardKeepsSound
  <2>6. P(i + 1)
    BY <1>0, <2>1, <2>5
  <2> QED
    BY <2>2, <2>6
<1>3. k \in S
  <2>1. n \in Nat /\ k \in 0..n
    BY <1>0
  <2> HIDE DEF S, n
  <2> QED
    BY <1>1, <1>2, <2>1, UpTo
<1> QED
  BY <1>3

(* The loop ends with room for the record: the empty ring has it. *)
LEMMA RoomIsMade ==
    ASSUME RingSound(buf, emitted, ring), NEW needed \in Sizes
    PROVE  /\ RingSound(buf, emitted, MakeRoom(needed))
           /\ HasRoom(MakeRoom(needed), needed)
           /\ MakeRoom(needed).next_seq = ring.next_seq
           /\ \E k \in 0..ring.count :
                /\ MakeRoom(needed).first_seq = ring.first_seq + k
                /\ MakeRoom(needed).overwritten = ring.overwritten + k
<1> DEFINE V == {k \in 0..ring.count : HasRoom(discarded[k], needed)}
           none == discarded[ring.count]
<1>0. ring.count \in Nat /\ ring.count \in 0..ring.count
  BY DEF RingSound, RingStates
<1>1. none.head = 0 /\ none.used = 0 /\ none.count = 0
  BY <1>0, DiscardedMembers DEF RingSound
<1>2. HasRoom(none, needed)
  <2>1. Capacity \in Nat /\ needed \in Nat /\ needed <= Capacity
    BY CapacityAndSizes
  <2> HIDE DEF none
  <2> QED
    BY <1>1, <2>1 DEF HasRoom, Free, EndSpace
<1>3. ring.count \in V
  BY <1>0, <1>2
<1>4. V \subseteq Nat /\ V # {}
  BY <1>3
<1>5. Min(V) \in V
  <2> HIDE DEF V
  <2> QED
    BY <1>4, SmallestOf
<1>6. MakeRoom(needed) = discarded[Min(V)]
  BY Zenon DEF MakeRoom
<1>7. Min(V) \in 0..ring.count /\ HasRoom(discarded[Min(V)], needed)
  BY <1>5, Zenon
<1> HIDE DEF V
<1> QED
  BY <1>6, <1>7, DiscardedMembers

-----------------------------------------------------------------------------
\* The bytes from tail to head, and the levels of records, are the same.
SameBytes(b, c, tail, used) ==
    \A q \in tail..(tail + used - 1) : c[Place(q)] = b[Place(q)]
SameLevels(e, l, first, next) == \A s \in first..(next - 1) : l[s] = e[s]

(* Bytes between head and tail may change. *)
LEMMA FilledKept ==
    ASSUME NEW b, NEW e, NEW x \in Positions, NEW z \in Lengths,
           NEW first \in Nat, NEW next \in Nat, first < next,
           NEW tail \in Offsets, NEW used \in 0..Capacity,
           Filled(b, e, x, z, first, next, tail, used),
           NEW c, SameBytes(b, c, tail, used), NEW l, SameLevels(e, l, first, next)
    PROVE  Filled(c, l, x, z, first, next, tail, used)
<1>0. /\ Capacity \in Nat /\ tail \in Nat /\ tail < Capacity /\ used \in Nat
      /\ used <= Capacity /\ next - 1 \in Nat
      /\ first \in first..(next - 1)
  BY CapacityAndSizes
<1>1. /\ Placed(b, e, x, z, first, next)
      /\ x[first] = tail \/ (x[first] = Capacity /\ b[tail].size = 0)
      /\ x[next - 1] + z[next - 1] = tail + used
  BY Zenon DEF Filled
<1>2. \A s \in first..(next - 1) :
        /\ x[s] \in Int /\ z[s] \in Nat /\ z[s] >= 1
        /\ x[first] <= x[s] /\ tail <= x[s] /\ x[s] + z[s] <= tail + used
  BY <1>0, BetweenTailAndHead
<1>3. ASSUME NEW s \in first..(next - 1)
      PROVE  /\ x[s] >= 0
             /\ x[s] < Capacity => x[s] + z[s] <= Capacity
             /\ c[Place(x[s])] = [size |-> z[s], level |-> l[s], seq |-> s]
  <2>1. x[s] \in tail..(tail + used - 1)
    BY <1>0, <1>2
  <2>2. c[Place(x[s])] = b[Place(x[s])]
    BY <2>1, Zenon DEF SameBytes
  <2>3. /\ x[s] >= 0
        /\ x[s] < Capacity => x[s] + z[s] <= Capacity
        /\ b[Place(x[s])] = [size |-> z[s], level |-> e[s], seq |-> s]
    BY <1>1, Zenon DEF Placed
  <2>4. l[s] = e[s]
    BY Zenon DEF SameLevels
  <2> QED
    BY <2>2, <2>3, <2>4, Zenon
<1>4. ASSUME NEW s \in first..(next - 2)
      PROVE  \/ x[s + 1] = x[s] + z[s]
             \/ /\ x[s + 1] = Capacity
                /\ x[s] + z[s] < Capacity
                /\ c[x[s] + z[s]].size = 0
  <2>1. s \in first..(next - 1) /\ s + 1 \in first..(next - 1)
    BY <1>0
  <2>2. CASE x[s + 1] = x[s] + z[s]
    BY <2>2
  <2>3. CASE /\ x[s + 1] = Capacity
             /\ x[s] + z[s] < Capacity
             /\ b[x[s] + z[s]].size = 0
    <3>1. /\ x[s] \in Int /\ z[s] \in Nat /\ tail <= x[s]
          /\ x[s + 1] + z[s + 1] <= tail + used /\ z[s + 1] \in Nat /\ z[s + 1] >= 1
      BY <1>2, <2>1
    <3>2. x[s] + z[s] \in tail..(tail + used - 1)
      BY <1>0, <2>3, <3>1
    <3>3. Place(x[s] + z[s]) = x[s] + z[s]
      BY <2>3 DEF Place
    <3>4. c[x[s] + z[s]] = b[x[s] + z[s]]
      <4>1. c[Place(x[s] + z[s])] = b[Place(x[s] + z[s])]
        BY <3>2, Zenon DEF SameBytes
      <4> QED
        BY <3>3, <4>1, Zenon
    <3> QED
      BY <2>3, <3>4
  <2>4. \/ x[s + 1] = x[s] + z[s]
        \/ /\ x[s + 1] = Capacity
           /\ x[s] + z[s] < Capacity
           /\ b[x[s] + z[s]].size = 0
    BY <1>1, Zenon DEF Placed
  <2> QED
    BY <2>2, <2>3, <2>4
<1>5. \A s, t \in first..(next - 1) : s < t => x[s] + z[s] <= x[t]
  BY <1>1, Zenon DEF Placed
<1>6. Placed(c, l, x, z, first, next)
  BY <1>3, <1>4, <1>5, Zenon DEF Placed
<1>7. x[first] = tail \/ (x[first] = Capacity /\ c[tail].size = 0)
  <2>1. tail \in tail..(tail + used - 1)
    <3>1. x[first] + z[first] <= tail + used /\ tail <= x[first]
          /\ z[first] >= 1 /\ z[first] \in Nat /\ x[first] \in Int
      BY <1>0, <1>2
    <3> QED
      BY <1>0, <3>1
  <2>2. Place(tail) = tail
    BY <1>0 DEF Place
  <2>3. c[tail] = b[tail]
    <3>1. c[Place(tail)] = b[Place(tail)]
      BY <2>1, Zenon DEF SameBytes
    <3> QED
      BY <2>2, <3>1, Zenon
  <2> QED
    BY <1>1, <2>3
<1> QED
  BY <1>1, <1>6, <1>7, Zenon DEF Filled

\* The new record lies at p in the bytes c.
Written(c, l, p, size, next) ==
    /\ p \in Int /\ p >= 0
    /\ p < Capacity => p + size <= Capacity
    /\ c[Place(p)] = [size |-> size, level |-> l[next], seq |-> next]

(* The first record of an empty ring. *)
LEMMA FilledByOne ==
    ASSUME NEW c, NEW l, NEW next \in Nat, NEW size \in Sizes,
           Written(c, l, 0, size, next)
    PROVE  \E y \in Positions, w \in Lengths :
             Filled(c, l, y, w, next, next + 1, 0, size)
<1> DEFINE y == [s \in Nat |-> 0]
           w == [s \in Nat |-> size]
<1>0. size \in Nat /\ Capacity \in Nat /\ size >= 1
  BY CapacityAndSizes
<1>1. y \in Positions /\ w \in Lengths
  BY DEF Positions, Lengths
<1>2. y[next] = 0 /\ w[next] = size
  OBVIOUS
<1> HIDE DEF y, w
<1>3. next..((next + 1) - 1) = {next} /\ next..((next + 1) - 2) = {}
      /\ (next + 1) - 1 = next
  OBVIOUS
<1>4. /\ y[next] >= 0
      /\ y[next] < Capacity => y[next] + w[next] <= Capacity
      /\ c[Place(y[next])] = [size |-> w[next], level |-> l[next], seq |-> next]
  <2>1. c[Place(y[next])] = [size |-> w[next], level |-> l[next], seq |-> next]
    BY <1>2, Zenon DEF Written
  <2> QED
    BY <1>0, <1>2, <2>1 DEF Written
<1>5. ~(next < next)
  OBVIOUS
<1>6. Placed(c, l, y, w, next, next + 1)
  BY <1>3, <1>4, <1>5, Zenon DEF Placed
<1>7. y[(next + 1) - 1] + w[(next + 1) - 1] = 0 + size
  BY <1>0, <1>2, <1>3
<1> QED
  BY <1>1, <1>2, <1>6, <1>7 DEF Filled

\* Position p is the head or, behind a marked gap, the start of the buffer.
Follows(c, p, tail, used) ==
    \/ p = tail + used
    \/ /\ p = Capacity
       /\ tail + used < Capacity
       /\ c[tail + used].size = 0

(* A record after the others: at the head, or behind a gap at the start. *)
LEMMA FilledByOneMore ==
    ASSUME NEW c, NEW l, NEW x \in Positions, NEW z \in Lengths,
           NEW first \in Nat, NEW next \in Nat, first < next,
           NEW tail \in Offsets, NEW used \in 0..Capacity,
           Filled(c, l, x, z, first, next, tail, used),
           NEW p, NEW size \in Sizes, Written(c, l, p, size, next),
           Follows(c, p, tail, used),
           NEW nu, nu = p + size - tail
    PROVE  \E y \in Positions, w \in Lengths :
             Filled(c, l, y, w, first, next + 1, tail, nu)
<1> DEFINE y == [x EXCEPT ![next] = p]
           w == [z EXCEPT ![next] = size]
<1>0. /\ Capacity \in Nat /\ tail \in Nat /\ tail < Capacity /\ used \in Nat
      /\ size \in Nat /\ size >= 1 /\ p \in Int
      /\ next - 1 \in Nat /\ first \in first..(next - 1)
      /\ (next + 1) - 1 = next /\ (next + 1) - 2 = next - 1
      /\ next - 1 \in first..(next - 1)
  BY CapacityAndSizes DEF Written
<1>1. /\ Placed(c, l, x, z, first, next)
      /\ x[first] = tail \/ (x[first] = Capacity /\ c[tail].size = 0)
      /\ x[next - 1] + z[next - 1] = tail + used
  BY Zenon DEF Filled
<1>2. \A s \in first..(next - 1) :
        /\ x[s] \in Int /\ z[s] \in Nat /\ z[s] >= 1
        /\ x[first] <= x[s] /\ tail <= x[s] /\ x[s] + z[s] <= tail + used
  BY <1>0, BetweenTailAndHead
<1>3. y \in Positions /\ w \in Lengths
  BY <1>0 DEF Positions, Lengths
<1>4. y[next] = p /\ w[next] = size
  BY DEF Positions, Lengths
<1>5. \A s \in first..(next - 1) : y[s] = x[s] /\ w[s] = z[s]
  BY DEF Positions, Lengths
<1> HIDE DEF y, w
<1>6. ASSUME NEW s \in first..next
      PROVE  /\ y[s] >= 0
             /\ y[s] < Capacity => y[s] + w[s] <= Capacity
             /\ c[Place(y[s])] = [size |-> w[s], level |-> l[s], seq |-> s]
  <2>1. CASE s = next
    <3>1. /\ p >= 0
          /\ p < Capacity => p + size <= Capacity
          /\ c[Place(p)] = [size |-> size, level |-> l[next], seq |-> next]
      BY Zenon DEF Written
    <3> QED
      BY <1>4, <2>1, <3>1, Zenon
  <2>2. CASE s # next
    <3>1. s \in first..(next - 1)
      BY <2>2
    <3>2. /\ x[s] >= 0
          /\ x[s] < Capacity => x[s] + z[s] <= Capacity
          /\ c[Place(x[s])] = [size |-> z[s], level |-> l[s], seq |-> s]
      BY <1>1, <3>1, Zenon DEF Placed
    <3> QED
      BY <1>5, <3>1, <3>2, Zenon
  <2> QED
    BY <2>1, <2>2
<1>7. ASSUME NEW s \in first..(next - 1)
      PROVE  \/ y[s + 1] = y[s] + w[s]
             \/ /\ y[s + 1] = Capacity
                /\ y[s] + w[s] < Capacity
                /\ c[y[s] + w[s]].size = 0
  <2>1. CASE s = next - 1
    <3>1. s + 1 = next /\ y[s] + w[s] = tail + used
      BY <1>1, <1>5, <2>1
    <3> QED
      BY <1>4, <3>1 DEF Follows
  <2>2. CASE s # next - 1
    <3>1. s \in first..(next - 2) /\ s + 1 \in first..(next - 1)
      BY <1>0, <2>2
    <3>2. \/ x[s + 1] = x[s] + z[s]
          \/ /\ x[s + 1] = Capacity
             /\ x[s] + z[s] < Capacity
             /\ c[x[s] + z[s]].size = 0
      BY <1>1, <3>1, Zenon DEF Placed
    <3>3. y[s + 1] = x[s + 1] /\ y[s] = x[s] /\ w[s] = z[s]
      BY <1>5, <3>1
    <3> QED
      BY <3>2, <3>3, Zenon
  <2> QED
    BY <2>1, <2>2
<1>8. ASSUME NEW s \in first..next, NEW t \in first..next, s < t
      PROVE  y[s] + w[s] <= y[t]
  <2>1. s \in first..(next - 1)
    BY <1>8
  <2>2. CASE t = next
    <3>1. x[s] + z[s] <= tail + used /\ x[s] \in Int /\ z[s] \in Int
      BY <1>2, <2>1
    <3>2. y[s] = x[s] /\ w[s] = z[s] /\ y[t] = p
      BY <1>4, <1>5, <2>1, <2>2
    <3>3. tail + used <= p
      BY <1>0 DEF Follows
    <3> QED
      BY <1>0, <3>1, <3>2, <3>3
  <2>3. CASE t # next
    <3>1. t \in first..(next - 1)
      BY <2>3
    <3>2. x[s] + z[s] <= x[t]
      BY <1>1, <1>8, <2>1, <3>1, Zenon DEF Placed
    <3> QED
      BY <1>5, <2>1, <3>1, <3>2
  <2> QED
    BY <2>2, <2>3
<1>9. Placed(c, l, y, w, first, next + 1)
  BY <1>0, <1>6, <1>7, <1>8, Zenon DEF Placed
<1>10. y[first] = tail \/ (y[first] = Capacity /\ c[tail].size = 0)
  BY <1>0, <1>1, <1>5
<1>11. y[(next + 1) - 1] + w[(next + 1) - 1] = tail + nu
  BY <1>0, <1>4
<1>12. Filled(c, l, y, w, first, next + 1, tail, nu)
  BY <1>9, <1>10, <1>11, Zenon DEF Filled
<1> QED
  BY <1>3, <1>12

\* The tests of log_ring_push for a ring that is not empty: there is room, and
\* it takes a gap at the end of the buffer.
RoomFor(head, tail, used, needed) ==
    /\ Capacity - used >= needed
    /\ head >= tail => \/ Capacity - head >= needed
                       \/ Capacity - used - (Capacity - head) >= needed
NeedsGap(head, tail, needed) == head >= tail /\ Capacity - head < needed

\* The bytes used then.
NewUsed(head, tail, used, needed) ==
    used + needed + (IF NeedsGap(head, tail, needed) THEN Capacity - head ELSE 0)

(* Where the record goes in a ring that is not empty: to position p, which *)
(* is the head or, behind a gap, the start of the buffer; it ends at most  *)
(* one round after the tail and does not run over the end of the buffer.   *)
LEMMA PlaceForRecord ==
    ASSUME NEW tail \in Offsets, NEW used \in 1..Capacity, NEW head,
           head = Place(tail + used), NEW needed \in Sizes,
           RoomFor(head, tail, used, needed),
           NEW h, h = IF NeedsGap(head, tail, needed) THEN 0 ELSE head,
           NEW p, p = IF NeedsGap(head, tail, needed) THEN Capacity ELSE tail + used
    PROVE  /\ p \in Nat /\ h = Place(p) /\ h \in Offsets
           /\ tail + used <= p /\ p + needed <= tail + Capacity
           /\ p < Capacity => p + needed <= Capacity
           /\ NeedsGap(head, tail, needed) =>
                tail + used < Capacity /\ head = tail + used
           /\ Advance(h, needed) \in Offsets
           /\ Advance(h, needed) = Place(p + needed)
           /\ NewUsed(head, tail, used, needed) = p + needed - tail
<1>0. /\ Capacity \in Nat /\ Capacity >= 1 /\ Offsets = 0..(Capacity - 1)
      /\ tail \in Nat /\ tail < Capacity /\ used \in Nat /\ used >= 1
      /\ used <= Capacity /\ needed \in Nat /\ needed >= 1 /\ needed <= Capacity
  BY CapacityAndSizes
<1>1. CASE tail + used < Capacity
  <2>1. head = tail + used /\ head \in Nat /\ head >= tail
    BY <1>0, <1>1 DEF Place
  <2>2. CASE Capacity - head >= needed
    <3>1. ~NeedsGap(head, tail, needed) /\ h = head /\ p = head
      BY <1>0, <2>1, <2>2 DEF NeedsGap
    <3>2. Place(p) = h /\ h \in Offsets /\ p + needed <= Capacity
      BY <1>0, <1>1, <2>1, <2>2, <3>1 DEF Place
    <3>3. Advance(h, needed) = Place(p + needed) /\ Advance(h, needed) \in Offsets
      BY <1>0, <2>1, <3>1, <3>2 DEF Advance, Place
    <3> QED
      BY <1>0, <1>1, <2>1, <2>2, <3>1, <3>2, <3>3 DEF RoomFor, NewUsed
  <2>3. CASE ~(Capacity - head >= needed)
    <3>1. NeedsGap(head, tail, needed) /\ h = 0 /\ p = Capacity /\ tail >= needed
      BY <1>0, <2>1, <2>3 DEF NeedsGap, RoomFor
    <3>2. Place(p) = h /\ h \in Offsets
      BY <1>0, <3>1 DEF Place
    <3>3. Advance(h, needed) = Place(p + needed) /\ Advance(h, needed) \in Offsets
      BY <1>0, <3>1 DEF Advance, Place
    <3> QED
      BY <1>0, <1>1, <2>1, <2>3, <3>1, <3>2, <3>3 DEF NewUsed
  <2> QED
    BY <2>2, <2>3
<1>2. CASE ~(tail + used < Capacity)
  <2>1. head = tail + used - Capacity /\ head \in Nat /\ head < tail
    BY <1>0, <1>2 DEF Place, RoomFor
  <2>2. ~NeedsGap(head, tail, needed) /\ h = head /\ p = tail + used
    BY <1>0, <2>1 DEF NeedsGap
  <2>3. Place(p) = h /\ h \in Offsets /\ h + needed < Capacity
    BY <1>0, <1>2, <2>1, <2>2 DEF Place, RoomFor
  <2>4. Advance(h, needed) = Place(p + needed) /\ Advance(h, needed) \in Offsets
    BY <1>0, <1>2, <2>1, <2>2, <2>3 DEF Advance, Place
  <2> QED
    BY <1>0, <1>2, <2>1, <2>2, <2>3, <2>4 DEF RoomFor, NewUsed
<1> QED
  BY <1>1, <1>2

(* The bytes between tail and head are neither those of the new record nor *)
(* the marker of the gap.                                                  *)
LEMMA RecordsAreSpared ==
    ASSUME NEW tail \in Offsets, NEW used \in 1..Capacity, NEW p \in Nat,
           NEW needed \in Sizes, NEW h, h = Place(p),
           tail + used <= p, p + needed <= tail + Capacity,
           p < Capacity => p + needed <= Capacity,
           NEW q \in tail..(tail + used - 1)
    PROVE  /\ Place(q) \in Offsets /\ Place(q) \notin h..(h + needed - 1)
           /\ tail + used < Capacity => Place(q) # tail + used
<1>0. /\ Capacity \in Nat /\ Capacity >= 1 /\ Offsets = 0..(Capacity - 1)
      /\ tail \in Nat /\ tail < Capacity /\ used \in Nat /\ used >= 1
      /\ used <= Capacity /\ needed \in Nat /\ needed >= 1 /\ needed <= Capacity
      /\ q \in Nat /\ tail <= q /\ q < tail + used
  BY CapacityAndSizes
<1>1. Place(q) \in Offsets
  BY <1>0 DEF Place
<1>2. ASSUME NEW o \in h..(h + needed - 1)
      PROVE  Place(q) # o
  <2>1. h \in Nat /\ o \in Int /\ h <= o /\ o < h + needed
    BY <1>0 DEF Place
  <2>2. Place(p + (o - h)) = o
    BY <1>0, <2>1 DEF Place
  <2>3. p + (o - h) \in Int /\ q < p + (o - h) /\ p + (o - h) < tail + Capacity
    BY <1>0, <2>1
  <2>4. Place(q) # Place(p + (o - h))
    BY <1>0, <2>3, OffsetsDiffer
  <2> QED
    BY <2>2, <2>4
<1>3. ASSUME tail + used < Capacity
      PROVE  Place(q) # tail + used
  BY <1>0, <1>3 DEF Place
<1> QED
  BY <1>1, <1>2, <1>3

\* The members after a push.
Pushed(r, h, u, c, n, f) ==
    [r EXCEPT !.head = h, !.used = u, !.count = c, !.next_seq = n, !.first_seq = f]

(* Their types and values. *)
LEMMA MembersPushed ==
    ASSUME NEW r \in RingStates, NEW h \in Offsets, NEW u \in 0..Capacity,
           NEW c \in Nat, NEW n \in Nat \ {0}, NEW f \in Nat \ {0},
           NEW d, d = Pushed(r, h, u, c, n, f)
    PROVE  /\ d \in RingStates
           /\ d.head = h /\ d.tail = r.tail /\ d.used = u /\ d.count = c
           /\ d.next_seq = n /\ d.first_seq = f /\ d.overwritten = r.overwritten
<1>1. d \in RingStates
  BY DEF RingStates, Pushed
<1>2. /\ d.head = h /\ d.tail = r.tail /\ d.used = u /\ d.count = c
      /\ d.next_seq = n /\ d.first_seq = f /\ d.overwritten = r.overwritten
  BY DEF RingStates, Pushed
<1> QED
  BY <1>1, <1>2

\* Offset o is not one of a record at offset head.
Outside(o, head, needed) == o \notin head..(head + needed - 1)

\* The first byte of a record, with what the reader decodes.
Record(size, level, seq) == [size |-> size, level |-> level, seq |-> seq]

\* The bytes c after a push into the bytes b, at offset h.
BytesPushed(b, c, head, tail, h, needed, rec) ==
    /\ h = IF NeedsGap(head, tail, needed) THEN 0 ELSE head
    /\ c[h] = rec
    /\ NeedsGap(head, tail, needed) => c[head].size = 0
    /\ \A o \in Offsets : Outside(o, h, needed) /\ o # head => c[o] = b[o]

\* A push of a record into the ring r, which is empty.
PushedFirst(b, e, r, level, needed, l, c, d) ==
    /\ e \in Seq(Levels) /\ RingSound(b, e, r) /\ r.count = 0
    /\ l = e \o <<level>>
    /\ c[0] = Record(needed, level, r.next_seq)
    /\ d = Pushed(r, Advance(0, needed), needed, 1, r.next_seq + 1, r.next_seq)

(* The ring stays sound. *)
LEMMA PushIntoEmpty ==
    ASSUME NEW b, NEW e, NEW r, NEW level \in Levels, NEW needed \in Sizes,
           NEW l, NEW c, NEW d, PushedFirst(b, e, r, level, needed, l, c, d)
    PROVE  RingSound(c, l, d) /\ d.next_seq = r.next_seq + 1
           /\ d.first_seq = r.first_seq /\ d.overwritten = r.overwritten
<1>0. /\ Capacity \in Nat /\ Capacity >= 1 /\ Offsets = 0..(Capacity - 1)
      /\ needed \in Nat /\ needed >= 1 /\ needed <= Capacity
  BY CapacityAndSizes
<1> USE DEF PushedFirst
<1>1. /\ r \in RingStates /\ r.next_seq = Len(e) + 1 /\ r.next_seq \in Nat \ {0}
      /\ r.first_seq \in Nat \ {0} /\ r.count = r.next_seq - r.first_seq
      /\ r.tail = 0 /\ r.overwritten < r.first_seq /\ r.overwritten \in Nat
  BY DEF RingSound, RingStates
<1>2. r.first_seq = r.next_seq /\ r.next_seq + 1 \in Nat \ {0}
  BY <1>1
<1>3. Advance(0, needed) = Place(needed) /\ Advance(0, needed) \in Offsets
      /\ needed \in 0..Capacity /\ 1 \in Nat
  BY <1>0 DEF Advance, Place
<1>4. /\ d \in RingStates
      /\ d.head = Advance(0, needed) /\ d.tail = r.tail /\ d.used = needed
      /\ d.count = 1 /\ d.next_seq = r.next_seq + 1 /\ d.first_seq = r.next_seq
      /\ d.overwritten = r.overwritten
  <2>1. r \in RingStates /\ Advance(0, needed) \in Offsets
        /\ needed \in 0..Capacity /\ 1 \in Nat
        /\ r.next_seq + 1 \in Nat \ {0} /\ r.next_seq \in Nat \ {0}
    BY <1>1, <1>2, <1>3
  <2> QED
    BY <2>1, MembersPushed
<1>5. Len(l) = Len(e) + 1 /\ l[Len(e) + 1] = level
  OBVIOUS
<1>6. Written(c, l, 0, needed, r.next_seq)
  <2>1. Place(0) = 0
    BY <1>0 DEF Place
  <2>2. c[Place(0)] = [size |-> needed, level |-> l[r.next_seq], seq |-> r.next_seq]
    BY <1>1, <1>5, <2>1 DEF Record
  <2> QED
    BY <1>0, <2>2 DEF Written
<1>7. \E x \in Positions, z \in Lengths :
        Filled(c, l, x, z, r.next_seq, r.next_seq + 1, 0, needed)
  BY <1>1, <1>6, FilledByOne
<1>8. \E x \in Positions, z \in Lengths :
        Filled(c, l, x, z, d.first_seq, d.next_seq, d.tail, d.used)
  BY <1>1, <1>4, <1>7
<1>9. /\ d.next_seq = Len(l) + 1 /\ d.count = d.next_seq - d.first_seq
      /\ d.overwritten < d.first_seq /\ d.count # 0
      /\ d.head = Place(d.tail + d.used)
  BY <1>0, <1>1, <1>2, <1>3, <1>4, <1>5
<1> QED
  BY <1>2, <1>4, <1>8, <1>9 DEF RingSound

\* A record numbered next is pushed into bytes filled by those before it.
RecordAdded(b, e, x, z, first, next, tail, used, head, level, needed, l, h, c) ==
    /\ first < next /\ 1 <= first /\ e \in Seq(Levels) /\ next = Len(e) + 1
    /\ Filled(b, e, x, z, first, next, tail, used)
    /\ head = Place(tail + used)
    /\ RoomFor(head, tail, used, needed)
    /\ l = e \o <<level>>
    /\ BytesPushed(b, c, head, tail, h, needed, Record(needed, level, next))

(* A record pushed behind others: they and the record fill the ring. *)
LEMMA FilledByPush ==
    ASSUME NEW x \in Positions, NEW z \in Lengths, NEW first \in Nat,
           NEW next \in Nat, NEW tail \in Offsets, NEW used \in 0..Capacity,
           NEW head \in Offsets, NEW level \in Levels, NEW needed \in Sizes,
           NEW b, NEW e, NEW l, NEW h, NEW c,
           RecordAdded(b, e, x, z, first, next, tail, used, head, level, needed,
                       l, h, c),
           NEW nu, nu = NewUsed(head, tail, used, needed)
    PROVE  /\ nu \in 0..Capacity
           /\ Advance(h, needed) \in Offsets
           /\ Advance(h, needed) = Place(tail + nu)
           /\ \E y \in Positions, w \in Lengths :
                Filled(c, l, y, w, first, next + 1, tail, nu)
<1> DEFINE p == IF NeedsGap(head, tail, needed) THEN Capacity ELSE tail + used
           rec == Record(needed, level, next)
<1>0. /\ Capacity \in Nat /\ Capacity >= 1 /\ Offsets = 0..(Capacity - 1)
      /\ needed \in Nat /\ needed >= 1 /\ needed <= Capacity
      /\ tail \in Nat /\ used \in Nat /\ head \in Nat /\ tail < Capacity
      /\ used <= Capacity
  BY CapacityAndSizes
<1> USE DEF RecordAdded
<1>1. used \in 1..Capacity
  <2>1. first \in first..(next - 1)
    OBVIOUS
  <2>2. /\ z[first] \in Nat /\ z[first] >= 1 /\ x[first] \in Int
        /\ tail <= x[first] /\ x[first] + z[first] <= tail + used
    BY <2>1, BetweenTailAndHead
  <2> QED
    BY <1>0, <2>2
<1>2. /\ h = IF NeedsGap(head, tail, needed) THEN 0 ELSE head
      /\ c[h] = rec
      /\ NeedsGap(head, tail, needed) => c[head].size = 0
      /\ \A o \in Offsets : Outside(o, h, needed) /\ o # head => c[o] = b[o]
  BY Zenon DEF BytesPushed
<1>3. /\ p \in Nat /\ h = Place(p) /\ h \in Offsets
      /\ tail + used <= p /\ p + needed <= tail + Capacity
      /\ p < Capacity => p + needed <= Capacity
      /\ NeedsGap(head, tail, needed) =>
           tail + used < Capacity /\ head = tail + used
      /\ Advance(h, needed) \in Offsets
      /\ Advance(h, needed) = Place(p + needed)
      /\ nu = p + needed - tail
  BY <1>1, <1>2, PlaceForRecord
<1>4. NeedsGap(head, tail, needed) => p = Capacity /\ h = 0
  BY <1>2
<1>5. ~NeedsGap(head, tail, needed) => p = tail + used /\ h = head
  BY <1>2
<1> HIDE DEF p
<1>6. nu \in 0..Capacity /\ tail + nu = p + needed
  <2>1. p \in Nat /\ tail + used <= p /\ p + needed <= tail + Capacity
        /\ nu = p + needed - tail
    BY <1>3
  <2>2. nu \in Int
    BY <1>0, <2>1
  <2>3. nu >= 0
    BY <1>0, <2>1
  <2>4. nu <= Capacity
    BY <1>0, <2>1
  <2>5. tail + nu = p + needed
    BY <1>0, <2>1
  <2> QED
    BY <1>0, <2>2, <2>3, <2>4, <2>5
<1>7. ASSUME NEW q \in tail..(tail + used - 1)
      PROVE  c[Place(q)] = b[Place(q)]
  <2>1. /\ Place(q) \in Offsets /\ Outside(Place(q), h, needed)
        /\ tail + used < Capacity => Place(q) # tail + used
    BY <1>1, <1>3, RecordsAreSpared DEF Outside
  <2>2. Place(q) # head
    <3>1. CASE NeedsGap(head, tail, needed)
      BY <1>3, <2>1, <3>1
    <3>2. CASE ~NeedsGap(head, tail, needed)
      <4>1. head \in h..(h + needed - 1)
        BY <1>0, <1>5, <3>2
      <4> QED
        BY <2>1, <4>1 DEF Outside
    <3> QED
      BY <3>1, <3>2
  <2> QED
    BY <1>2, <2>1, <2>2
<1>8. /\ Len(l) = Len(e) + 1 /\ l[next] = level
      /\ \A s \in first..(next - 1) : l[s] = e[s]
  OBVIOUS
<1>9. Filled(c, l, x, z, first, next, tail, used)
  <2>1. SameBytes(b, c, tail, used) /\ SameLevels(e, l, first, next)
    BY <1>7, <1>8, Zenon DEF SameBytes, SameLevels
  <2> QED
    BY <2>1, FilledKept
<1>10. Written(c, l, p, needed, next)
  <2>1. c[Place(p)] = [size |-> needed, level |-> l[next], seq |-> next]
    BY <1>2, <1>3, <1>8 DEF Record
  <2>2. p \in Int /\ p >= 0 /\ (p < Capacity => p + needed <= Capacity)
    BY <1>3
  <2> QED
    BY <2>1, <2>2, Zenon DEF Written
<1>11. Follows(c, p, tail, used)
  <2>1. CASE NeedsGap(head, tail, needed)
    BY <1>2, <1>3, <1>4, <2>1 DEF Follows
  <2>2. CASE ~NeedsGap(head, tail, needed)
    BY <1>5, <2>2 DEF Follows
  <2> QED
    BY <2>1, <2>2
<1>12. \E y \in Positions, w \in Lengths :
         Filled(c, l, y, w, first, next + 1, tail, nu)
  <2>1. nu = p + needed - tail
    BY <1>3
  <2> QED
    BY <1>9, <1>10, <1>11, <2>1, FilledByOneMore
<1> QED
  BY <1>3, <1>6, <1>12

\* A push of a record into the ring r, which is not empty.
PushedBehind(b, e, r, level, needed, l, h, c, d) ==
    /\ e \in Seq(Levels) /\ RingSound(b, e, r) /\ r.count > 0
    /\ RoomFor(r.head, r.tail, r.used, needed)
    /\ l = e \o <<level>>
    /\ BytesPushed(b, c, r.head, r.tail, h, needed, Record(needed, level, r.next_seq))
    /\ d = Pushed(r, Advance(h, needed), NewUsed(r.head, r.tail, r.used, needed),
                  r.count + 1, r.next_seq + 1, r.first_seq)

(* The ring stays sound. *)
LEMMA PushBehindOthers ==
    ASSUME NEW b, NEW e, NEW r, NEW level \in Levels, NEW needed \in Sizes,
           NEW l, NEW h, NEW c, NEW d,
           PushedBehind(b, e, r, level, needed, l, h, c, d)
    PROVE  RingSound(c, l, d) /\ d.next_seq = r.next_seq + 1
           /\ d.first_seq = r.first_seq /\ d.overwritten = r.overwritten
<1>1. /\ r \in RingStates /\ r.next_seq = Len(e) + 1 /\ r.next_seq \in Nat \ {0}
      /\ r.first_seq \in Nat \ {0} /\ r.count = r.next_seq - r.first_seq
      /\ r.overwritten < r.first_seq /\ r.overwritten \in Nat
      /\ r.head \in Offsets /\ r.tail \in Offsets /\ r.used \in 0..Capacity
      /\ r.count \in Nat /\ r.head = Place(r.tail + r.used) /\ r.count > 0
  BY DEF RingSound, RingStates, PushedBehind
<1>2. PICK x \in Positions, z \in Lengths :
        Filled(b, e, x, z, r.first_seq, r.next_seq, r.tail, r.used)
  BY DEF RingSound, PushedBehind
<1>3. PICK head \in Offsets, tail \in Offsets, used \in 0..Capacity, count \in Nat,
           first \in Nat \ {0}, next \in Nat \ {0} :
        /\ head = r.head /\ tail = r.tail /\ used = r.used /\ count = r.count
        /\ first = r.first_seq /\ next = r.next_seq
  BY <1>1
<1>4. /\ count = next - first /\ count > 0 /\ first < next /\ 1 <= first
      /\ next = Len(e) + 1
  BY <1>1, <1>3
<1> DEFINE nu == NewUsed(head, tail, used, needed)
           nh == Advance(h, needed)
<1>5. /\ nu \in 0..Capacity /\ nh \in Offsets /\ nh = Place(tail + nu)
      /\ \E y \in Positions, w \in Lengths :
           Filled(c, l, y, w, first, next + 1, tail, nu)
  <2>1. Filled(b, e, x, z, first, next, tail, used)
    BY <1>2, <1>3
  <2>2. /\ e \in Seq(Levels) /\ head = Place(tail + used) /\ l = e \o <<level>>
        /\ RoomFor(head, tail, used, needed)
        /\ BytesPushed(b, c, head, tail, h, needed, Record(needed, level, next))
    BY <1>1, <1>3, Zenon DEF PushedBehind
  <2>3. first \in Nat /\ next \in Nat
    OBVIOUS
  <2>4. RecordAdded(b, e, x, z, first, next, tail, used, head, level, needed,
                    l, h, c)
    BY <1>4, <2>1, <2>2, Zenon DEF RecordAdded
  <2> QED
    BY <2>3, <2>4, FilledByPush
<1>6. d = Pushed(r, nh, nu, count + 1, next + 1, first)
  BY <1>3, Zenon DEF PushedBehind
<1> HIDE DEF nu, nh
<1>7. /\ d \in RingStates
      /\ d.head = nh /\ d.tail = r.tail /\ d.used = nu /\ d.count = count + 1
      /\ d.next_seq = next + 1 /\ d.first_seq = first
      /\ d.overwritten = r.overwritten
  <2>1. nh \in Offsets /\ nu \in 0..Capacity
    BY <1>5
  <2>2. r \in RingStates
    BY <1>1
  <2>3. PICK cc \in Nat, nn \in Nat \ {0} : cc = count + 1 /\ nn = next + 1
    OBVIOUS
  <2>4. d = Pushed(r, nh, nu, cc, nn, first)
    BY <1>6, <2>3
  <2>5. /\ d \in RingStates
        /\ d.head = nh /\ d.tail = r.tail /\ d.used = nu /\ d.count = cc
        /\ d.next_seq = nn /\ d.first_seq = first
        /\ d.overwritten = r.overwritten
    BY <2>1, <2>2, <2>4, MembersPushed
  <2> QED
    BY <2>3, <2>5
<1>8. \E y \in Positions, w \in Lengths :
        Filled(c, l, y, w, d.first_seq, d.next_seq, d.tail, d.used)
  BY <1>3, <1>5, <1>7
<1>9. Len(l) = Len(e) + 1
  BY DEF PushedBehind
<1>10. /\ d.next_seq = Len(l) + 1 /\ d.count = d.next_seq - d.first_seq
       /\ d.overwritten < d.first_seq /\ d.count # 0
  BY <1>1, <1>3, <1>4, <1>7, <1>9
<1>11. d.head = Place(d.tail + d.used)
  BY <1>3, <1>5, <1>7
<1> QED
  BY <1>3, <1>7, <1>8, <1>10, <1>11 DEF RingSound

\* What offset o holds once rec has been stored at h, with a marker at the head
\* if a gap is left there.
StoredByte(b, o, r, h, needed, rec) ==
    CASE o = h -> rec
      [] o \in (h + 1)..(h + needed - 1) -> Body
      [] LeavesGap(r, needed) /\ o = r.head -> Zero
      [] OTHER -> b[o]

StoredBytes(b, c, r, h, needed, rec) ==
    c = [o \in Offsets |-> StoredByte(b, o, r, h, needed, rec)]

(* What log_ring_push does to the bytes and the members. *)
LEMMA StoreEffect ==
    ASSUME NEW r, NEW level, NEW needed, StoreRecord(r, level, needed)
    PROVE  /\ r.next_seq <= MaxSeq
           /\ emitted' = emitted \o <<level>>
           /\ StoredBytes(buf, buf', r, StartOf(r, needed), needed,
                          Record(needed, level, r.next_seq))
           /\ ring' = Pushed(r, Advance(StartOf(r, needed), needed),
                        r.used + needed
                          + (IF LeavesGap(r, needed) THEN EndSpace(r) ELSE 0),
                        r.count + 1, r.next_seq + 1,
                        IF r.count = 0 THEN r.next_seq ELSE r.first_seq)
<1>1. r.next_seq <= MaxSeq /\ emitted' = emitted \o <<level>>
  BY Zenon DEF StoreRecord
<1>2. StoredBytes(buf, buf', r, StartOf(r, needed), needed,
                  Record(needed, level, r.next_seq))
  BY Zenon DEF StoreRecord, Record, StoredByte, StoredBytes
<1>3. ring' = Pushed(r, Advance(StartOf(r, needed), needed),
                r.used + needed
                  + (IF LeavesGap(r, needed) THEN EndSpace(r) ELSE 0),
                r.count + 1, r.next_seq + 1,
                IF r.count = 0 THEN r.next_seq ELSE r.first_seq)
  BY Zenon DEF StoreRecord, Pushed
<1> QED
  BY <1>1, <1>2, <1>3, Zenon

(* The bytes hold the record, and a marker where a gap is needed. *)
LEMMA StoreBytes ==
    ASSUME NEW r, RingSound(buf, emitted, r), r.count > 0,
           NEW level \in Levels, NEW needed \in Sizes, HasRoom(r, needed),
           StoreRecord(r, level, needed)
    PROVE  /\ RoomFor(r.head, r.tail, r.used, needed)
           /\ BytesPushed(buf, buf', r.head, r.tail, StartOf(r, needed), needed,
                          Record(needed, level, r.next_seq))
           /\ ring' = Pushed(r, Advance(StartOf(r, needed), needed),
                             NewUsed(r.head, r.tail, r.used, needed),
                             r.count + 1, r.next_seq + 1, r.first_seq)
<1> DEFINE h == StartOf(r, needed)
           rec == Record(needed, level, r.next_seq)
<1>0. PICK head \in Offsets, tail \in Offsets, used \in 0..Capacity :
        /\ head = r.head /\ tail = r.tail /\ used = r.used /\ r.count # 0
        /\ head = Place(tail + used)
  BY DEF RingSound, RingStates
<1>1. LeavesGap(r, needed) <=> NeedsGap(head, tail, needed)
  BY <1>0 DEF LeavesGap, AtEnd, EndSpace, NeedsGap
<1>2. RoomFor(head, tail, used, needed)
  BY <1>0 DEF HasRoom, AtEnd, EndSpace, Free, RoomFor
<1>3. h = IF NeedsGap(head, tail, needed) THEN 0 ELSE head
  BY <1>0, <1>1, Zenon DEF StartOf
<1>4. \A o \in Offsets : buf'[o] = StoredByte(buf, o, r, h, needed, rec)
  <2>1. StoredBytes(buf, buf', r, h, needed, rec)
    BY StoreEffect, Zenon
  <2> HIDE DEF h, rec
  <2> QED
    BY <2>1, Zenon DEF StoredBytes
<1> HIDE DEF h, rec
<1>5. /\ Capacity \in Nat /\ Capacity >= 1 /\ Offsets = 0..(Capacity - 1)
      /\ needed \in Nat /\ needed >= 1 /\ needed <= Capacity
      /\ tail \in Nat /\ used \in Nat /\ head \in Nat /\ tail < Capacity
  BY CapacityAndSizes
<1>6. h \in Offsets /\ h \in Nat
  BY <1>3, <1>5
<1>7. LeavesGap(r, needed) => Outside(head, h, needed)
  <2>1. SUFFICES ASSUME LeavesGap(r, needed) PROVE Outside(head, h, needed)
    OBVIOUS
  <2>2. h = 0 /\ head >= tail /\ Capacity - head < needed
    BY <1>1, <1>3, <2>1 DEF NeedsGap
  <2>3. needed <= tail
    BY <1>0, <1>2, <1>5, <2>2 DEF RoomFor, Place
  <2> QED
    BY <1>5, <2>2, <2>3 DEF Outside
<1>8. buf'[h] = rec
  <2>1. h \notin (h + 1)..(h + needed - 1) /\ ~(LeavesGap(r, needed) /\ h = head)
    BY <1>5, <1>6, <1>7 DEF Outside
  <2>2. buf'[h] = StoredByte(buf, h, r, h, needed, rec)
    BY <1>4, <1>6
  <2> QED
    BY <1>0, <2>1, <2>2 DEF StoredByte
<1>9. ASSUME NEW o \in Offsets, Outside(o, h, needed)
      PROVE  /\ o # head => buf'[o] = buf[o]
             /\ LeavesGap(r, needed) => (o = head => buf'[o] = Zero)
  <2>1. o # h /\ o \notin (h + 1)..(h + needed - 1)
    BY <1>5, <1>6, <1>9 DEF Outside
  <2>2. buf'[o] = StoredByte(buf, o, r, h, needed, rec)
    BY <1>4
  <2> QED
    BY <1>0, <2>1, <2>2 DEF StoredByte
<1>10. LeavesGap(r, needed) => buf'[head].size = 0
  <2>1. Zero.size = 0
    BY DEF Zero
  <2>2. LeavesGap(r, needed) => buf'[head] = Zero
    BY <1>7, <1>9
  <2> QED
    BY <2>1, <2>2
<1>11. BytesPushed(buf, buf', head, tail, h, needed, rec)
  BY <1>1, <1>3, <1>8, <1>9, <1>10, Zenon DEF BytesPushed
<1>12. r.used + needed + (IF LeavesGap(r, needed) THEN EndSpace(r) ELSE 0)
         = NewUsed(head, tail, used, needed)
  <2>1. CASE LeavesGap(r, needed)
    BY <1>0, <1>1, <2>1 DEF EndSpace, NewUsed
  <2>2. CASE ~LeavesGap(r, needed)
    BY <1>0, <1>1, <2>2 DEF NewUsed
  <2> QED
    BY <2>1, <2>2
<1>13. ring' = Pushed(r, Advance(h, needed), NewUsed(head, tail, used, needed),
                      r.count + 1, r.next_seq + 1, r.first_seq)
  BY <1>0, <1>12, StoreEffect, Zenon DEF h
<1> QED
  BY <1>0, <1>2, <1>11, <1>13, Zenon DEF h, rec

(* log_ring_push keeps the ring sound and adds its record to it. *)
LEMMA PushStep ==
    ASSUME RingSound(buf, emitted, ring), emitted \in Seq(Levels),
           NEW level \in Levels, NEW needed \in Sizes,
           log_ring_push(level, needed)
    PROVE  /\ RingSound(buf', emitted', ring')
           /\ ring.next_seq <= MaxSeq
           /\ ring'.next_seq = ring.next_seq + 1
           /\ \E k \in 0..ring.count : /\ ring'.first_seq = ring.first_seq + k
                                       /\ ring'.overwritten = ring.overwritten + k
<1>1. PICK r : /\ RingSound(buf, emitted, r) /\ HasRoom(r, needed)
               /\ r.next_seq = ring.next_seq
               /\ \E k \in 0..ring.count :
                    /\ r.first_seq = ring.first_seq + k
                    /\ r.overwritten = ring.overwritten + k
               /\ StoreRecord(r, level, needed)
  <2>1. StoreRecord(MakeRoom(needed), level, needed)
    BY Zenon DEF log_ring_push
  <2> QED
    BY <2>1, RoomIsMade, Zenon
<1>2. r.next_seq <= MaxSeq /\ emitted' = emitted \o <<level>>
  BY <1>1, StoreEffect, Zenon
<1>3. CASE r.count = 0
  <2>1. r.head = 0 /\ r.used = 0 /\ r.tail = 0
    BY <1>1, <1>3 DEF RingSound
  <2>2. ~LeavesGap(r, needed) /\ StartOf(r, needed) = 0
    BY <1>1, <2>1, CapacityAndSizes DEF EndSpace, LeavesGap, StartOf
  <2>3. ring' = Pushed(r, Advance(0, needed), needed, 1, r.next_seq + 1, r.next_seq)
    <3>1. r.used + needed + (IF LeavesGap(r, needed) THEN EndSpace(r) ELSE 0) = needed
      BY <2>1, <2>2, CapacityAndSizes
    <3>2. r.count + 1 = 1
      BY <1>3
    <3>3. ring' = Pushed(r, Advance(StartOf(r, needed), needed),
                    r.used + needed
                      + (IF LeavesGap(r, needed) THEN EndSpace(r) ELSE 0),
                    r.count + 1, r.next_seq + 1,
                    IF r.count = 0 THEN r.next_seq ELSE r.first_seq)
      BY <1>1, StoreEffect, Zenon
    <3> QED
      BY <1>3, <2>2, <3>1, <3>2, <3>3, Zenon
  <2>4. buf'[0] = Record(needed, level, r.next_seq)
    <3>1. 0 \in Offsets /\ 0 \notin (0 + 1)..(0 + needed - 1)
      BY CapacityAndSizes
    <3>2. StoredBytes(buf, buf', r, StartOf(r, needed), needed,
                      Record(needed, level, r.next_seq))
      BY <1>1, StoreEffect, Zenon
    <3>3. buf'[0] = StoredByte(buf, 0, r, 0, needed, Record(needed, level, r.next_seq))
      BY <2>2, <3>1, <3>2, Zenon DEF StoredBytes
    <3> QED
      BY <2>2, <3>1, <3>3 DEF StoredByte
  <2>5. PushedFirst(buf, emitted, r, level, needed, emitted', buf', ring')
    BY <1>1, <1>2, <1>3, <2>3, <2>4, Zenon DEF PushedFirst
  <2>6. /\ RingSound(buf', emitted', ring') /\ ring'.next_seq = r.next_seq + 1
        /\ ring'.first_seq = r.first_seq /\ ring'.overwritten = r.overwritten
    BY <2>5, PushIntoEmpty
  <2> QED
    BY <1>1, <1>2, <2>6
<1>4. CASE r.count # 0
  <2>1. r.count > 0
    BY <1>1, <1>4 DEF RingSound, RingStates
  <2>2. PushedBehind(buf, emitted, r, level, needed, emitted', StartOf(r, needed),
                     buf', ring')
    BY <1>1, <1>2, <2>1, StoreBytes, Zenon DEF PushedBehind
  <2>3. /\ RingSound(buf', emitted', ring') /\ ring'.next_seq = r.next_seq + 1
        /\ ring'.first_seq = r.first_seq /\ ring'.overwritten = r.overwritten
    BY <2>2, PushBehindOthers
  <2> QED
    BY <1>1, <1>2, <2>3
<1> QED
  BY <1>3, <1>4

\* What a byte may be.
Cells == {Zero, Body} \cup [size : Sizes, level : Levels, seq : 1..MaxSeq]

(* The members of a sound ring have their types, as long as the numbers do *)
(* not exceed their bound.                                                 *)
LEMMA MembersTyped ==
    ASSUME NEW b, NEW e, NEW r, RingSound(b, e, r), r.next_seq <= MaxSeq + 1
    PROVE  r \in [head : Offsets, tail : Offsets, used : 0..Capacity,
                  count : 0..MaxSeq, next_seq : 1..(MaxSeq + 1),
                  first_seq : 1..(MaxSeq + 1), overwritten : 0..MaxSeq]
<1>1. /\ r \in RingStates /\ r.count = r.next_seq - r.first_seq
      /\ r.overwritten < r.first_seq
  BY DEF RingSound
<1>2. /\ r.head \in Offsets /\ r.tail \in Offsets /\ r.used \in 0..Capacity
      /\ r.count \in Nat /\ r.next_seq \in Nat \ {0} /\ r.first_seq \in Nat \ {0}
      /\ r.overwritten \in Nat /\ MaxSeq \in Nat
  BY <1>1, RingAssumption DEF RingStates
<1>3. /\ r.count \in 0..MaxSeq /\ r.next_seq \in 1..(MaxSeq + 1)
      /\ r.first_seq \in 1..(MaxSeq + 1) /\ r.overwritten \in 0..MaxSeq
  BY <1>1, <1>2
<1>4. r = [head |-> r.head, tail |-> r.tail, used |-> r.used, count |-> r.count,
           next_seq |-> r.next_seq, first_seq |-> r.first_seq,
           overwritten |-> r.overwritten]
  BY <1>1 DEF RingStates
<1> QED
  BY <1>2, <1>3, <1>4

(* log_ring_push writes records, markers and bodies only. *)
LEMMA PushTypes ==
    ASSUME LogInv, NEW level \in Levels, NEW needed \in Sizes,
           log_ring_push(level, needed)
    PROVE  TypeOK' /\ emitted' = emitted \o <<level>>
<1>1. PICK r : /\ r.next_seq = ring.next_seq
               /\ StoreRecord(r, level, needed)
  <2>1. StoreRecord(MakeRoom(needed), level, needed)
    BY Zenon DEF log_ring_push
  <2> QED
    BY <2>1, RoomIsMade, Zenon DEF LogInv
<1>2. /\ r.next_seq <= MaxSeq /\ emitted' = emitted \o <<level>>
      /\ StoredBytes(buf, buf', r, StartOf(r, needed), needed,
                     Record(needed, level, r.next_seq))
  BY <1>1, StoreEffect, Zenon
<1>3. /\ buf \in [Offsets -> Cells] /\ ring.next_seq \in 1..(MaxSeq + 1)
      /\ emitted \in Seq(Levels)
  BY DEF LogInv, TypeOK, Cells
<1>4. buf' \in [Offsets -> Cells]
  <2> DEFINE rec == Record(needed, level, r.next_seq)
             h == StartOf(r, needed)
  <2>1. rec \in Cells /\ Body \in Cells /\ Zero \in Cells
    <3>1. r.next_seq \in 1..MaxSeq
      BY <1>1, <1>2, <1>3, RingAssumption
    <3> QED
      BY <3>1 DEF Record, Cells
  <2>2. StoredBytes(buf, buf', r, h, needed, rec)
    BY <1>2
  <2> HIDE DEF rec, h
  <2>3. ASSUME NEW o \in Offsets PROVE StoredByte(buf, o, r, h, needed, rec) \in Cells
    <3>1. buf[o] \in Cells
      BY <1>3
    <3>2. CASE o = h
      <4>1. CASE o \in (h + 1)..(h + needed - 1)
        BY <2>1, <3>1, <3>2, <4>1 DEF StoredByte
      <4> QED
        BY <2>1, <3>1, <3>2 DEF StoredByte
    <3> QED
      BY <2>1, <3>1 DEF StoredByte
  <2> QED
    BY <2>2, <2>3, Zenon DEF StoredBytes
<1>5. emitted' \in Seq(Levels)
  BY <1>2, <1>3
<1>6. RingSound(buf', emitted', ring') /\ ring'.next_seq <= MaxSeq + 1
  <2>1. /\ RingSound(buf', emitted', ring') /\ ring'.next_seq = ring.next_seq + 1
        /\ ring.next_seq <= MaxSeq
    BY <1>3, PushStep, Zenon DEF LogInv
  <2> QED
    BY <1>3, <2>1, RingAssumption
<1>7. ring' \in [head : Offsets, tail : Offsets, used : 0..Capacity,
                 count : 0..MaxSeq, next_seq : 1..(MaxSeq + 1),
                 first_seq : 1..(MaxSeq + 1), overwritten : 0..MaxSeq]
  BY <1>6, MembersTyped, Zenon
<1> QED
  BY <1>2, <1>4, <1>5, <1>7, Zenon DEF TypeOK, Cells

(* log_ring_clear leaves an empty, sound ring. *)
LEMMA ClearStep ==
    ASSUME LogInv, log_ring_clear
    PROVE  /\ TypeOK' /\ RingSound(buf', emitted', ring')
           /\ ring'.next_seq = ring.next_seq /\ ring'.first_seq = ring.next_seq
           /\ ring'.overwritten = ring.overwritten
<1>1. /\ buf' = buf /\ emitted' = emitted
      /\ ring' = [ring EXCEPT !.head = 0, !.tail = 0, !.used = 0, !.count = 0,
                              !.first_seq = ring.next_seq]
  BY Zenon DEF log_ring_clear
<1>2. /\ ring \in RingStates /\ ring.next_seq = Len(emitted) + 1
      /\ ring.count = ring.next_seq - ring.first_seq
      /\ ring.overwritten < ring.first_seq
  BY DEF LogInv, RingSound
<1>3. 0 \in Offsets /\ 0 \in 0..Capacity
  BY CapacityAndSizes
<1>4. ring' \in RingStates
  BY <1>1, <1>2, <1>3 DEF RingStates
<1>5. /\ ring'.head = 0 /\ ring'.tail = 0 /\ ring'.used = 0 /\ ring'.count = 0
      /\ ring'.first_seq = ring.next_seq /\ ring'.next_seq = ring.next_seq
      /\ ring'.overwritten = ring.overwritten
  BY <1>1, <1>2 DEF RingStates
<1>6. /\ ring.next_seq \in Nat /\ ring.first_seq \in Nat /\ ring.count \in Nat
      /\ ring.overwritten \in Nat
  BY <1>2 DEF RingStates
<1>7. RingSound(buf', emitted', ring')
  <2>1. /\ ring'.next_seq = Len(emitted') + 1
        /\ ring'.count = ring'.next_seq - ring'.first_seq
        /\ ring'.overwritten < ring'.first_seq /\ ~(ring'.count > 0)
    BY <1>1, <1>2, <1>5, <1>6
  <2> QED
    BY <1>4, <1>5, <2>1, Zenon DEF RingSound
<1>8. TypeOK'
  <2>1. /\ buf' \in [Offsets -> Cells] /\ emitted' \in Seq(Levels)
    BY <1>1 DEF LogInv, TypeOK, Cells
  <2>2. ring'.next_seq <= MaxSeq + 1
    BY <1>5 DEF LogInv, TypeOK
  <2>3. ring' \in [head : Offsets, tail : Offsets, used : 0..Capacity,
                   count : 0..MaxSeq, next_seq : 1..(MaxSeq + 1),
                   first_seq : 1..(MaxSeq + 1), overwritten : 0..MaxSeq]
    BY <1>7, <2>2, MembersTyped, Zenon
  <2> QED
    BY <2>1, <2>3, Zenon DEF TypeOK, Cells
<1> QED
  BY <1>5, <1>7, <1>8

(* The zeroed ring is sound. *)
LEMMA InitSound ==
    ASSUME Init PROVE LogInv
<1>1. /\ buf = [o \in Offsets |-> Zero] /\ emitted = <<>>
      /\ ring = [head |-> 0, tail |-> 0, used |-> 0, count |-> 0,
                 next_seq |-> 1, first_seq |-> 1, overwritten |-> 0]
  BY DEF Init, log_ring_init
<1>2. 0 \in Offsets /\ 0 \in 0..Capacity /\ MaxSeq \in Nat
  BY CapacityAndSizes, RingAssumption
<1>3. ring \in RingStates
  BY <1>1, <1>2 DEF RingStates
<1>4. RingSound(buf, emitted, ring)
  <2>1. /\ ring.next_seq = Len(emitted) + 1
        /\ ring.count = ring.next_seq - ring.first_seq
        /\ ring.overwritten < ring.first_seq /\ ~(ring.count > 0)
        /\ ring.head = 0 /\ ring.tail = 0 /\ ring.used = 0
    BY <1>1
  <2> QED
    BY <1>3, <2>1, Zenon DEF RingSound
<1>5. buf \in [Offsets -> Cells] /\ emitted \in Seq(Levels)
  BY <1>1 DEF Cells
<1>6. ring \in [head : Offsets, tail : Offsets, used : 0..Capacity,
                count : 0..MaxSeq, next_seq : 1..(MaxSeq + 1),
                first_seq : 1..(MaxSeq + 1), overwritten : 0..MaxSeq]
  BY <1>1, <1>2
<1> QED
  BY <1>4, <1>5, <1>6, Zenon DEF LogInv, TypeOK, Cells

(* Every step of the RAM log keeps the ring sound. *)
LEMMA StepSound ==
    ASSUME LogInv, [Next]_vars PROVE LogInv'
<1>1. CASE log_ring_clear
  BY <1>1, ClearStep, Zenon DEF LogInv
<1>2. ASSUME NEW level \in Levels, NEW size \in Sizes, log_ring_push(level, size)
      PROVE  LogInv'
  <2>1. emitted \in Seq(Levels)
    BY DEF LogInv, TypeOK
  <2> QED
    BY <1>2, <2>1, PushTypes, PushStep, Zenon DEF LogInv
<1>3. CASE UNCHANGED vars
  <2>1. buf' = buf /\ ring' = ring /\ emitted' = emitted
    BY <1>3 DEF vars
  <2>2. RingSound(buf', emitted', ring')
    BY <2>1, Zenon DEF LogInv
  <2>3. TypeOK'
    BY <2>1, Zenon DEF LogInv, TypeOK
  <2> QED
    BY <2>2, <2>3, Zenon DEF LogInv
<1> QED
  BY <1>1, <1>2, <1>3, Zenon DEF Next

(* Whatever is pushed and cleared: LogInv is an invariant. *)
THEOREM RamLogSound == Spec => []LogInv
<1>1. Init => LogInv
  BY InitSound
<1>2. LogInv /\ [Next]_vars => LogInv'
  BY StepSound
<1> QED
  BY <1>1, <1>2, PTL DEF Spec

(* Type correctness of the RAM log. *)
THEOREM RamLogTypeOK == Spec => []TypeOK
<1>1. LogInv => TypeOK
  BY DEF LogInv
<1> QED
  BY <1>1, RamLogSound, PTL

(* A record lies in the buffer in one piece. *)
LEMMA RecordInPlace ==
    ASSUME NEW e, NEW x \in Positions, NEW z \in Lengths,
           NEW first \in Nat, NEW next \in Nat, first < next,
           NEW tail \in Offsets, NEW used \in 0..Capacity,
           Filled(buf, e, x, z, first, next, tail, used),
           NEW s \in first..(next - 1)
    PROVE  /\ Place(x[s]) \in Offsets /\ z[s] \in Sizes
           /\ Place(x[s]) + z[s] <= Capacity
           /\ buf[Place(x[s])] = [size |-> z[s], level |-> e[s], seq |-> s]
           /\ buf[Place(x[s])].size # 0
<1>1. /\ x[s] \in Int /\ z[s] \in Nat /\ z[s] >= 1
      /\ tail <= x[s] /\ x[s] + z[s] <= tail + used
  BY BetweenTailAndHead
<1>2. /\ Capacity \in Nat /\ Capacity >= 1 /\ Offsets = 0..(Capacity - 1)
      /\ tail \in Nat /\ used \in Nat /\ tail < Capacity /\ used <= Capacity
  BY CapacityAndSizes
<1>3. /\ buf[Place(x[s])] = [size |-> z[s], level |-> e[s], seq |-> s]
      /\ x[s] < Capacity => x[s] + z[s] <= Capacity
  BY Zenon DEF Filled, Placed
<1>4. Place(x[s]) \in 0..(Capacity - 1) /\ Place(x[s]) + z[s] <= Capacity
  BY <1>1, <1>2, <1>3 DEF Place
<1>5. z[s] \in Sizes
  BY DEF Lengths
<1>6. buf[Place(x[s])].size # 0
  BY <1>1, <1>3
<1> QED
  BY <1>2, <1>3, <1>4, <1>5, <1>6, Zenon

(* From the tail, and from the end of each record, the walk finds the next. *)
LEMMA WalkGoesOn ==
    ASSUME NEW e, NEW x \in Positions, NEW z \in Lengths,
           NEW first \in Nat, NEW next \in Nat, first < next,
           NEW tail \in Offsets, NEW used \in 0..Capacity,
           Filled(buf, e, x, z, first, next, tail, used)
    PROVE  /\ RecordPos(tail) = Place(x[first])
           /\ \A s \in first..(next - 2) :
                RecordPos(Advance(Place(x[s]), z[s])) = Place(x[s + 1])
<1>0. /\ Capacity \in Nat /\ Capacity >= 1
      /\ tail \in Nat /\ used \in Nat /\ tail < Capacity /\ used <= Capacity
  BY CapacityAndSizes
<1>1. \A s \in first..(next - 1) : RecordPos(Place(x[s])) = Place(x[s])
  <2>1. \A s \in first..(next - 1) :
          /\ Place(x[s]) \in Offsets /\ z[s] \in Sizes
          /\ Place(x[s]) + z[s] <= Capacity
          /\ buf[Place(x[s])] = [size |-> z[s], level |-> e[s], seq |-> s]
          /\ buf[Place(x[s])].size # 0
    BY RecordInPlace
  <2> QED
    BY <2>1, Zenon DEF RecordPos
<1>2. Place(Capacity) = 0
  BY <1>0 DEF Place
<1>3. RecordPos(tail) = Place(x[first])
  <2>1. CASE x[first] = tail
    <3>1. Place(x[first]) = tail /\ first \in first..(next - 1)
      BY <1>0, <2>1 DEF Place
    <3> QED
      BY <1>1, <3>1
  <2>2. CASE x[first] = Capacity /\ buf[tail].size = 0
    BY <1>2, <2>2, Zenon DEF RecordPos
  <2> QED
    BY <2>1, <2>2, Zenon DEF Filled
<1>4. ASSUME NEW s \in first..(next - 2)
      PROVE  RecordPos(Advance(Place(x[s]), z[s])) = Place(x[s + 1])
  <2>1. s \in first..(next - 1) /\ s + 1 \in first..(next - 1)
    OBVIOUS
  <2>2. /\ x[s] \in Int /\ z[s] \in Nat /\ z[s] >= 1 /\ tail <= x[s]
        /\ x[s + 1] \in Int /\ z[s + 1] \in Nat /\ z[s + 1] >= 1
        /\ x[s + 1] + z[s + 1] <= tail + used
    BY <2>1, BetweenTailAndHead
  <2>3. x[s] < Capacity => x[s] + z[s] <= Capacity
    BY <2>1, Zenon DEF Filled, Placed
  <2>4. \/ x[s + 1] = x[s] + z[s]
        \/ /\ x[s + 1] = Capacity
           /\ x[s] + z[s] < Capacity
           /\ buf[x[s] + z[s]].size = 0
    BY Zenon DEF Filled, Placed
  <2>5. CASE x[s + 1] = x[s] + z[s]
    <3>1. Advance(Place(x[s]), z[s]) = Place(x[s + 1])
      BY <1>0, <2>2, <2>3, <2>5 DEF Advance, Place
    <3> QED
      BY <1>1, <2>1, <3>1
  <2>6. CASE /\ x[s + 1] = Capacity
             /\ x[s] + z[s] < Capacity
             /\ buf[x[s] + z[s]].size = 0
    <3>1. Advance(Place(x[s]), z[s]) = x[s] + z[s]
      BY <1>0, <2>2, <2>6 DEF Advance, Place
    <3> QED
      BY <1>2, <2>6, <3>1, Zenon DEF RecordPos
  <2> QED
    BY <2>4, <2>5, <2>6
<1> QED
  BY <1>3, <1>4

(* The iterator stays in the buffer. *)
LEMMA IterNextType ==
    iter_next \in [Offsets -> Offsets]
<1>1. ASSUME NEW pos \in Offsets, record_at(pos)
      PROVE  Advance(RecordPos(pos), buf[RecordPos(pos)].size) \in Offsets
  <2>1. PICK p, n : /\ p = RecordPos(pos) /\ n = buf[RecordPos(pos)].size
                    /\ n \in Sizes /\ p + n <= Capacity
    BY <1>1, Zenon DEF record_at
  <2>2. p \in Offsets
    BY <2>1, CapacityAndSizes DEF RecordPos
  <2>3. Advance(p, n) \in Offsets
    BY <2>1, <2>2, CapacityAndSizes DEF Advance
  <2> QED
    BY <2>1, <2>3
<1> QED
  BY <1>1 DEF iter_next

(* The positions of the iterator. *)
LEMMA IterPositions ==
    ASSUME RingSound(buf, emitted, ring)
    PROVE  /\ iter_pos[0] = ring.tail
           /\ \A i \in 0..ring.count : iter_pos[i] \in Offsets
           /\ \A i \in 0..ring.count : i # 0 =>
                iter_pos[i] = iter_next[iter_pos[i - 1]]
<1> DEFINE n == ring.count
           step == [k \in 1..n |-> iter_next]
<1>1. n \in Nat /\ ring.tail \in Offsets
  BY DEF RingSound, RingStates
<1>2. step \in [1..n -> [Offsets -> Offsets]]
  BY IterNextType
<1>3. \A k \in 1..n : step[k] = iter_next
  OBVIOUS
<1> HIDE DEF step, n
<1>4. PICK g \in [0..n -> Offsets] : Iterates(g, n, ring.tail, step)
  BY <1>1, <1>2, IterationExists
<1>5. g = [k \in 0..n |-> IF k = 0 THEN ring.tail ELSE iter_next[g[k - 1]]]
  <2>1. ASSUME NEW k \in 0..n
        PROVE  (IF k = 0 THEN ring.tail ELSE step[k][g[k - 1]])
                 = IF k = 0 THEN ring.tail ELSE iter_next[g[k - 1]]
    <3>1. k # 0 => k \in 1..n
      BY <1>1
    <3> QED
      BY <1>3, <3>1
  <2>2. [k \in 0..n |-> IF k = 0 THEN ring.tail ELSE step[k][g[k - 1]]]
          = [k \in 0..n |-> IF k = 0 THEN ring.tail ELSE iter_next[g[k - 1]]]
    BY <2>1
  <2> QED
    BY <1>4, <2>2 DEF Iterates
<1>6. iter_pos
        = [k \in 0..n |-> IF k = 0 THEN ring.tail ELSE iter_next[iter_pos[k - 1]]]
  BY <1>5, Zenon DEF iter_pos, n
<1>7. ASSUME NEW k \in 0..n
      PROVE  iter_pos[k] = IF k = 0 THEN ring.tail ELSE iter_next[iter_pos[k - 1]]
  BY <1>6, Zenon
<1>8. 0 \in 0..n
  BY <1>1
<1>9. \A i \in 0..n : iter_pos[i] \in Offsets
  <2> DEFINE S == {i \in 0..n : iter_pos[i] \in Offsets}
  <2>1. 0 \in S
    BY <1>1, <1>7, <1>8
  <2>2. ASSUME NEW i \in 0..n, i \in S, i < n PROVE i + 1 \in S
    <3>1. i + 1 \in 0..n /\ i + 1 # 0 /\ (i + 1) - 1 = i
      BY <1>1, <2>2
    <3>2. iter_pos[i + 1] = iter_next[iter_pos[i]]
      BY <1>7, <3>1
    <3> QED
      BY <2>2, <3>1, <3>2, IterNextType
  <2> HIDE DEF S
  <2>3. \A i \in 0..n : i \in S
    BY <1>1, <2>1, <2>2, UpTo
  <2> QED
    BY <2>3 DEF S
<1> QED
  BY <1>7, <1>8, <1>9, Zenon DEF n

(* After i records the iterator stands at record number first + i. *)
LEMMA IteratorFinds ==
    ASSUME RingSound(buf, emitted, ring), NEW i \in 0..ring.count, i < ring.count
    PROVE  /\ record_at(iter_pos[i])
           /\ \E n \in Sizes : buf[RecordPos(iter_pos[i])]
                = [size |-> n, level |-> emitted[ring.first_seq + i],
                   seq |-> ring.first_seq + i]
<1>1. PICK x \in Positions, z \in Lengths :
        Filled(buf, emitted, x, z, ring.first_seq, ring.next_seq, ring.tail, ring.used)
  <2>1. ring.count > 0
    BY DEF RingSound, RingStates
  <2> QED
    BY <2>1, Zenon DEF RingSound
<1>2. PICK first \in Nat, next \in Nat, tail \in Offsets, used \in 0..Capacity,
           n \in Nat :
        /\ first = ring.first_seq /\ next = ring.next_seq /\ tail = ring.tail
        /\ used = ring.used /\ n = ring.count
  BY DEF RingSound, RingStates
<1>3. n = next - first /\ first < next /\ i \in 0..n /\ i < n
  BY <1>2 DEF RingSound
<1>4. Filled(buf, emitted, x, z, first, next, tail, used)
  BY <1>1, <1>2
<1>5. /\ RecordPos(tail) = Place(x[first])
      /\ \A s \in first..(next - 2) :
           RecordPos(Advance(Place(x[s]), z[s])) = Place(x[s + 1])
  BY <1>3, <1>4, WalkGoesOn
<1>6. \A s \in first..(next - 1) :
        /\ Place(x[s]) \in Offsets /\ z[s] \in Sizes
        /\ Place(x[s]) + z[s] <= Capacity
        /\ buf[Place(x[s])] = [size |-> z[s], level |-> emitted[s], seq |-> s]
  BY <1>3, <1>4, RecordInPlace
<1>7. /\ iter_pos[0] = tail
      /\ \A k \in 0..n : iter_pos[k] \in Offsets
      /\ \A k \in 0..n : k # 0 => iter_pos[k] = iter_next[iter_pos[k - 1]]
  BY <1>2, IterPositions
<1>8. ASSUME NEW k \in 0..n, k < n, RecordPos(iter_pos[k]) = Place(x[first + k])
      PROVE  /\ record_at(iter_pos[k])
             /\ buf[RecordPos(iter_pos[k])]
                  = [size |-> z[first + k], level |-> emitted[first + k],
                     seq |-> first + k]
             /\ z[first + k] \in Sizes
  <2>1. first + k \in first..(next - 1)
    BY <1>3, <1>8
  <2>2. /\ z[first + k] \in Sizes /\ Place(x[first + k]) + z[first + k] <= Capacity
        /\ buf[Place(x[first + k])]
             = [size |-> z[first + k], level |-> emitted[first + k], seq |-> first + k]
    BY <1>6, <2>1
  <2>3. buf[Place(x[first + k])].size = z[first + k]
    BY <2>2
  <2> QED
    BY <1>8, <2>2, <2>3 DEF record_at
<1> DEFINE S == {k \in 0..n : k < n => RecordPos(iter_pos[k]) = Place(x[first + k])}
<1>9. 0 \in S
  BY <1>5, <1>7
<1>10. ASSUME NEW k \in 0..n, k \in S, k < n PROVE k + 1 \in S
  <2>1. SUFFICES ASSUME k + 1 < n
                 PROVE  RecordPos(iter_pos[k + 1]) = Place(x[first + (k + 1)])
    BY <1>10
  <2>2. /\ record_at(iter_pos[k])
        /\ buf[RecordPos(iter_pos[k])]
             = [size |-> z[first + k], level |-> emitted[first + k], seq |-> first + k]
    BY <1>8, <1>10
  <2>3. buf[RecordPos(iter_pos[k])].size = z[first + k]
    BY <2>2
  <2>4. iter_pos[k + 1] = Advance(RecordPos(iter_pos[k]), z[first + k])
    <3>1. k + 1 \in 0..n /\ k + 1 # 0 /\ (k + 1) - 1 = k
      BY <1>10
    <3>2. iter_pos[k + 1] = iter_next[iter_pos[k]] /\ iter_pos[k] \in Offsets
      BY <1>7, <3>1
    <3> QED
      BY <2>2, <2>3, <3>2 DEF iter_next
  <2>5. /\ first + k \in first..(next - 2) /\ first + (k + 1) = (first + k) + 1
        /\ RecordPos(iter_pos[k]) = Place(x[first + k])
    BY <1>3, <1>10, <2>1
  <2> QED
    BY <1>5, <2>4, <2>5
<1> HIDE DEF S
<1>11. \A k \in 0..n : k \in S
  BY <1>9, <1>10, UpTo
<1>12. RecordPos(iter_pos[i]) = Place(x[first + i])
  BY <1>3, <1>11 DEF S
<1> QED
  BY <1>2, <1>3, <1>8, <1>12

(* The records that walking the bytes yields: all that are counted, by     *)
(* number, unaltered.                                                      *)
LEMMA RecordsAreEmitted ==
    ASSUME RingSound(buf, emitted, ring)
    PROVE  /\ DOMAIN Records = 1..ring.count /\ ring.count \in Nat
           /\ Records = [i \in 1..ring.count |-> Records[i]]
           /\ \A i \in 1..ring.count : \E n \in Sizes :
                Records[i] = [size |-> n, level |-> emitted[ring.first_seq + (i - 1)],
                              seq |-> ring.first_seq + (i - 1)]
<1> DEFINE c == ring.count
           V == {i \in 0..c : i = c \/ ~record_at(iter_pos[i])}
<1>1. c \in Nat
  BY DEF RingSound, RingStates
<1>2. \A i \in V : i = c
  <2>1. SUFFICES ASSUME NEW i \in 0..c, i # c PROVE record_at(iter_pos[i])
    BY Zenon
  <2>2. i < c
    BY <1>1, <2>1
  <2> QED
    BY <2>2, IteratorFinds, Zenon
<1>3. c \in V /\ V \subseteq Nat
  BY <1>1
<1>4. Min(V) = c
  <2> HIDE DEF V
  <2> QED
    BY <1>2, <1>3, SmallestOf
<1>5. Records = [i \in 1..c |-> buf[RecordPos(iter_pos[i - 1])]]
  BY <1>4, Zenon DEF Records
<1>6. ASSUME NEW i \in 1..c
      PROVE  \E n \in Sizes :
               Records[i] = [size |-> n, level |-> emitted[ring.first_seq + (i - 1)],
                             seq |-> ring.first_seq + (i - 1)]
  <2>1. i - 1 \in 0..c /\ i - 1 < c
    BY <1>1
  <2>2. Records[i] = buf[RecordPos(iter_pos[i - 1])]
    BY <1>5, Zenon
  <2> QED
    BY <2>1, <2>2, IteratorFinds, Zenon
<1>7. DOMAIN Records = 1..c /\ Records = [i \in 1..c |-> Records[i]]
  BY <1>5, Zenon
<1> QED
  BY <1>1, <1>6, <1>7, Zenon

\* What the reader is handed of a record.
Entries == [size : Sizes, level : Levels, seq : Nat]

\* k holds, in order, those of the first i records of q that pass the filter.
KeptOf(k, q, i, since, min) ==
    /\ k \in Seq(Entries)
    /\ \A m \in 1..Len(k) : \E j \in 1..i : k[m] = q[j]
    /\ \A m, o \in 1..Len(k) : m < o => k[m].seq < k[o].seq
    /\ \A j \in 1..i : Passes(q[j], since, min) => \E m \in 1..Len(k) : k[m] = q[j]

\* The numbers in q ascend.
Ascending(q) == \A i, j \in 1..Len(q) : i < j => q[i].seq < q[j].seq

(* A record that passes is appended behind all the others. *)
LEMMA KeptAppend ==
    ASSUME NEW q \in Seq(Entries), Ascending(q), NEW i \in Nat, i < Len(q),
           NEW since, NEW min, NEW k, KeptOf(k, q, i, since, min),
           NEW w, w = Append(k, q[i + 1])
    PROVE  KeptOf(w, q, i + 1, since, min)
<1>0. /\ k \in Seq(Entries)
      /\ \A m \in 1..Len(k) : \E j \in 1..i : k[m] = q[j]
      /\ \A m, o \in 1..Len(k) : m < o => k[m].seq < k[o].seq
      /\ \A j \in 1..i : Passes(q[j], since, min) => \E m \in 1..Len(k) : k[m] = q[j]
  BY Zenon DEF KeptOf
<1>1. Len(k) \in Nat /\ i + 1 \in 1..Len(q) /\ q[i + 1] \in Entries
  BY <1>0
<1>2. /\ w \in Seq(Entries) /\ Len(w) = Len(k) + 1 /\ w[Len(k) + 1] = q[i + 1]
      /\ \A m \in 1..Len(k) : w[m] = k[m]
  BY <1>0, <1>1
<1>3. ASSUME NEW m \in 1..Len(w) PROVE \E j \in 1..(i + 1) : w[m] = q[j]
  <2>1. CASE m = Len(k) + 1
    BY <1>0, <1>1, <1>2, <2>1
  <2>2. CASE m # Len(k) + 1
    <3>1. m \in 1..Len(k)
      BY <1>0, <1>1, <1>2, <2>2
    <3>2. PICK j \in 1..i : k[m] = q[j]
      BY <1>0, <1>1, <3>1
    <3>3. j \in 1..(i + 1) /\ w[m] = q[j]
      BY <1>2, <3>1, <3>2
    <3> QED
      BY <3>3
  <2> QED
    BY <2>1, <2>2
<1>4. ASSUME NEW m \in 1..Len(w), NEW o \in 1..Len(w), m < o
      PROVE  w[m].seq < w[o].seq
  <2>1. m \in 1..Len(k)
    BY <1>0, <1>1, <1>2, <1>4
  <2>2. CASE o = Len(k) + 1
    <3>1. PICK j \in 1..i : k[m] = q[j]
      BY <1>0, <1>1, <2>1
    <3>2. j \in 1..Len(q) /\ j < i + 1
      BY <1>0, <1>1
    <3>3. q[j].seq < q[i + 1].seq
      BY <1>0, <1>1, <3>2 DEF Ascending
    <3> QED
      BY <1>2, <2>1, <2>2, <3>1, <3>3
  <2>3. CASE o # Len(k) + 1
    <3>1. o \in 1..Len(k)
      BY <1>0, <1>1, <1>2, <2>3
    <3> QED
      BY <1>0, <1>1, <1>2, <1>4, <2>1, <3>1
  <2> QED
    BY <2>2, <2>3
<1>5. ASSUME NEW j \in 1..(i + 1), Passes(q[j], since, min)
      PROVE  \E m \in 1..Len(w) : w[m] = q[j]
  <2>1. CASE j = i + 1
    BY <1>0, <1>1, <1>2, <2>1
  <2>2. CASE j # i + 1
    <3>1. j \in 1..i
      BY <2>2
    <3>2. PICK m \in 1..Len(k) : k[m] = q[j]
      BY <1>0, <1>1, <1>5, <3>1
    <3>3. m \in 1..Len(w) /\ w[m] = q[j]
      BY <1>0, <1>1, <1>2, <3>2
    <3> QED
      BY <3>3
  <2> QED
    BY <2>1, <2>2
<1> QED
  BY <1>2, <1>3, <1>4, <1>5, Zenon DEF KeptOf

(* One that does not pass is left out. *)
LEMMA KeptSkip ==
    ASSUME NEW q, NEW i \in Nat, NEW since, NEW min, NEW k, KeptOf(k, q, i, since, min),
           ~Passes(q[i + 1], since, min)
    PROVE  KeptOf(k, q, i + 1, since, min)
<1>1. ASSUME NEW m \in 1..Len(k) PROVE \E j \in 1..(i + 1) : k[m] = q[j]
  <2>1. PICK j \in 1..i : k[m] = q[j]
    BY DEF KeptOf
  <2>2. j \in 1..(i + 1)
    OBVIOUS
  <2> QED
    BY <2>1, <2>2
<1>2. ASSUME NEW j \in 1..(i + 1), Passes(q[j], since, min)
      PROVE  \E m \in 1..Len(k) : k[m] = q[j]
  <2>1. j # i + 1
    BY <1>2
  <2>2. j \in 1..i
    BY <2>1
  <2> QED
    BY <1>2, <2>2, Zenon DEF KeptOf
<1> QED
  BY <1>1, <1>2, Zenon DEF KeptOf

(* The records as a sequence. *)
LEMMA RecordsAreEntries ==
    ASSUME RingSound(buf, emitted, ring), emitted \in Seq(Levels)
    PROVE  /\ Records \in Seq(Entries) /\ Len(Records) = ring.count /\ Ascending(Records)
           /\ \A i \in 1..ring.count :
                /\ Records[i].seq = ring.first_seq + (i - 1)
                /\ Records[i].level = emitted[ring.first_seq + (i - 1)]
<1>1. PICK c \in Nat, first \in Nat \ {0}, next \in Nat :
        /\ c = ring.count /\ first = ring.first_seq /\ next = ring.next_seq
        /\ c = next - first /\ next = Len(emitted) + 1
  BY DEF RingSound, RingStates
<1>2. /\ DOMAIN Records = 1..c /\ Records = [i \in 1..c |-> Records[i]]
      /\ \A i \in 1..c : \E n \in Sizes :
           Records[i] = [size |-> n, level |-> emitted[first + (i - 1)],
                         seq |-> first + (i - 1)]
  BY <1>1, RecordsAreEmitted
<1>3. ASSUME NEW i \in 1..c
      PROVE  /\ Records[i] \in Entries
             /\ Records[i].seq = first + (i - 1)
             /\ Records[i].level = emitted[first + (i - 1)]
  <2>1. PICK n \in Sizes : Records[i] = [size |-> n, level |-> emitted[first + (i - 1)],
                                         seq |-> first + (i - 1)]
    BY <1>2
  <2>2. first + (i - 1) \in Nat /\ first + (i - 1) \in 1..Len(emitted)
    BY <1>1
  <2>3. emitted[first + (i - 1)] \in Levels
    BY <2>2
  <2> QED
    BY <2>1, <2>2, <2>3 DEF Entries
<1> HIDE DEF Records
<1>4. PICK q : q = Records
  OBVIOUS
<1>5. q \in Seq(Entries) /\ Len(q) = c
  <2>1. q = [i \in 1..c |-> q[i]] /\ \A i \in 1..c : q[i] \in Entries
    BY <1>2, <1>3, <1>4, Zenon
  <2>2. q \in [1..c -> Entries]
    BY <2>1
  <2> QED
    BY <2>2
<1>6. Ascending(q)
  BY <1>3, <1>4, <1>5 DEF Ascending
<1> QED
  BY <1>1, <1>3, <1>4, <1>5, <1>6, Zenon

(* What the loop of logging_read_since collects. *)
LEMMA WantedIsKept ==
    ASSUME Records \in Seq(Entries), Ascending(Records), NEW since, NEW min
    PROVE  KeptOf(Wanted(since, min), Records, Len(Records), since, min)
<1>1. PICK q \in Seq(Entries) : q = Records /\ Ascending(q)
  OBVIOUS
<1> DEFINE n == Len(q)
           next(i, k) == IF Passes(q[i], since, min) THEN Append(k, q[i]) ELSE k
           step == [i \in 1..n |-> [k \in Seq(Entries) |-> next(i, k)]]
           kept[i \in 0..n] == IF i = 0 THEN <<>>
                               ELSE IF Passes(q[i], since, min)
                                    THEN Append(kept[i - 1], q[i])
                                    ELSE kept[i - 1]
<1>2. Wanted(since, min) = kept[n]
  BY <1>1, Zenon DEF Wanted
<1>3. n \in Nat /\ <<>> \in Seq(Entries)
  OBVIOUS
<1>4. ASSUME NEW i \in 1..n, NEW k \in Seq(Entries) PROVE next(i, k) \in Seq(Entries)
  OBVIOUS
<1>5. step \in [1..n -> [Seq(Entries) -> Seq(Entries)]]
  BY <1>4, Zenon
<1>6. \A i \in 1..n : \A k \in Seq(Entries) : step[i][k] = next(i, k)
  OBVIOUS
<1> HIDE DEF step
<1>7. PICK g \in [0..n -> Seq(Entries)] : Iterates(g, n, <<>>, step)
  BY <1>3, <1>5, IterationExists
<1>8. g = [i \in 0..n |-> IF i = 0 THEN <<>> ELSE next(i, g[i - 1])]
  <2>1. ASSUME NEW i \in 0..n
        PROVE  (IF i = 0 THEN <<>> ELSE step[i][g[i - 1]])
                 = IF i = 0 THEN <<>> ELSE next(i, g[i - 1])
    <3>1. CASE i = 0
      BY <3>1, Zenon
    <3>2. CASE i # 0
      <4>1. i \in 1..n /\ i - 1 \in 0..n
        BY <1>3, <3>2
      <4>2. g[i - 1] \in Seq(Entries)
        BY <4>1
      <4>3. step[i][g[i - 1]] = next(i, g[i - 1])
        BY <1>6, <4>1, <4>2, Zenon
      <4> QED
        BY <3>2, <4>3, Zenon
    <3> QED
      BY <3>1, <3>2
  <2>2. [i \in 0..n |-> IF i = 0 THEN <<>> ELSE step[i][g[i - 1]]]
          = [i \in 0..n |-> IF i = 0 THEN <<>> ELSE next(i, g[i - 1])]
    BY <2>1, Zenon
  <2> QED
    BY <1>7, <2>2, Zenon DEF Iterates
<1>9. kept = [i \in 0..n |-> IF i = 0 THEN <<>> ELSE next(i, kept[i - 1])]
  BY <1>8, Zenon
<1>10. \A i \in 0..n : kept[i] = IF i = 0 THEN <<>> ELSE next(i, kept[i - 1])
  BY <1>9, Zenon
<1> HIDE DEF kept
<1> DEFINE S == {i \in 0..n : KeptOf(kept[i], q, i, since, min)}
<1>11. 0 \in S
  <2>1. kept[0] = <<>> /\ 0 \in 0..n
    BY <1>3, <1>10
  <2>2. KeptOf(<<>>, q, 0, since, min)
    BY DEF KeptOf
  <2> QED
    BY <2>1, <2>2
<1>12. ASSUME NEW i \in 0..n, i \in S, i < n PROVE i + 1 \in S
  <2>1. i + 1 \in 0..n /\ i + 1 # 0 /\ (i + 1) - 1 = i /\ i \in Nat
    BY <1>3, <1>12
  <2>2. kept[i + 1] = next(i + 1, kept[i])
    BY <1>10, <2>1
  <2>3. KeptOf(kept[i], q, i, since, min)
    BY <1>12
  <2>4. CASE Passes(q[i + 1], since, min)
    <3>1. kept[i + 1] = Append(kept[i], q[i + 1])
      BY <2>2, <2>4, Zenon
    <3>2. KeptOf(kept[i + 1], q, i + 1, since, min)
      BY <1>1, <1>12, <2>1, <2>3, <3>1, KeptAppend
    <3> QED
      BY <2>1, <3>2
  <2>5. CASE ~Passes(q[i + 1], since, min)
    <3>1. kept[i + 1] = kept[i]
      BY <2>2, <2>5, Zenon
    <3>2. KeptOf(kept[i + 1], q, i + 1, since, min)
      BY <2>1, <2>3, <2>5, <3>1, KeptSkip
    <3> QED
      BY <2>1, <3>2
  <2> QED
    BY <2>4, <2>5
<1>13. n \in S
  <2> HIDE DEF S
  <2>1. \A i \in 0..n : i \in S
    BY <1>3, <1>11, <1>12, UpTo
  <2> QED
    BY <1>3, <2>1
<1> QED
  BY <1>1, <1>2, <1>13

\* w holds, in order and unaltered, exactly the records in the ring that the
\* reader asks for.
Selected(w, since, min) ==
    /\ w \in Seq(Entries)
    /\ \A m \in 1..Len(w) : /\ w[m].seq \in ring.first_seq..(ring.next_seq - 1)
                            /\ w[m].level = emitted[w[m].seq]
    /\ \A m, o \in 1..Len(w) : m < o => w[m].seq < w[o].seq
    /\ \A s \in ring.first_seq..(ring.next_seq - 1) :
         s > since /\ emitted[s] <= min => \E m \in 1..Len(w) : w[m].seq = s

(* The reader gets what it asks for. *)
LEMMA WantedIsSelected ==
    ASSUME LogInv, NEW since, NEW min
    PROVE  Selected(Wanted(since, min), since, min)
<1>1. PICK first \in Nat \ {0}, next \in Nat, c \in Nat :
        /\ first = ring.first_seq /\ next = ring.next_seq /\ c = ring.count
        /\ c = next - first
  BY DEF LogInv, RingSound, RingStates
<1>2. /\ Records \in Seq(Entries) /\ Len(Records) = c /\ Ascending(Records)
      /\ \A i \in 1..c : /\ Records[i].seq = first + (i - 1)
                         /\ Records[i].level = emitted[first + (i - 1)]
  <2>1. RingSound(buf, emitted, ring) /\ emitted \in Seq(Levels)
    BY DEF LogInv, TypeOK
  <2> QED
    BY <1>1, <2>1, RecordsAreEntries
<1>3. PICK q, w : /\ q = Records /\ w = Wanted(since, min)
                  /\ KeptOf(w, q, c, since, min)
  <2>1. KeptOf(Wanted(since, min), Records, c, since, min)
    BY <1>2, WantedIsKept
  <2> QED
    BY <2>1, Zenon
<1>4. \A i \in 1..c : q[i].seq = first + (i - 1) /\ q[i].level = emitted[first + (i - 1)]
  BY <1>2, <1>3, Zenon
<1>5. ASSUME NEW m \in 1..Len(w)
      PROVE  w[m].seq \in first..(next - 1) /\ w[m].level = emitted[w[m].seq]
  <2>1. PICK j \in 1..c : w[m] = q[j]
    BY <1>3 DEF KeptOf
  <2>2. w[m].seq = first + (j - 1) /\ w[m].level = emitted[first + (j - 1)]
    BY <1>4, <2>1
  <2> QED
    BY <1>1, <2>2
<1>6. ASSUME NEW s \in first..(next - 1), s > since, emitted[s] <= min
      PROVE  \E m \in 1..Len(w) : w[m].seq = s
  <2>1. PICK j \in 1..c : s = first + (j - 1)
    <3>1. s - first + 1 \in 1..c /\ s = first + ((s - first + 1) - 1)
      BY <1>1
    <3> QED
      BY <3>1
  <2>2. q[j].seq = s /\ q[j].level = emitted[s]
    BY <1>4, <2>1
  <2>3. Passes(q[j], since, min)
    BY <1>6, <2>2, Zenon DEF Passes
  <2>4. PICK m \in 1..Len(w) : w[m] = q[j]
    BY <1>3, <2>3 DEF KeptOf
  <2> QED
    BY <2>2, <2>4
<1>7. /\ w \in Seq(Entries)
      /\ \A m, o \in 1..Len(w) : m < o => w[m].seq < w[o].seq
  BY <1>3, Zenon DEF KeptOf
<1>8. Selected(w, since, min)
  BY <1>1, <1>5, <1>6, <1>7, Zenon DEF Selected
<1> QED
  BY <1>3, <1>8

(* The first entries of a sequence. *)
LEMMA FirstEntries ==
    ASSUME NEW q \in Seq(Entries), NEW n \in Nat, n <= Len(q),
           NEW p, p = SubSeq(q, 1, n)
    PROVE  p \in Seq(Entries) /\ Len(p) = n /\ \A i \in 1..n : p[i] = q[i]
<1>1. \A i \in 1..n : q[i] \in Entries
  OBVIOUS
<1>2. /\ p \in Seq(Entries) /\ Len(p) = IF 1 <= n THEN n - 1 + 1 ELSE 0
      /\ \A i \in 1..(n - 1 + 1) : p[i] = q[1 + i - 1]
  BY <1>1, SubSeqProperties
<1> QED
  BY <1>2

\* The reply b delivers the first n of the wanted records w.
Delivers(b, w, n) ==
    /\ n <= Len(w)
    /\ Len(b.records) = n /\ DOMAIN b.records = 1..n
    /\ \A i \in 1..n : b.records[i] = w[i]
    /\ b.cut <=> n < Len(w)
    /\ n < Len(w) => n >= 1
    /\ b.first_seq = ring.first_seq /\ b.next_seq = ring.next_seq

(* The limits of the reader, of the batch and of the link cut the reply    *)
(* short; at least one wanted record gets through.                         *)
LEMMA BatchIsPrefix ==
    ASSUME NEW since, NEW min, NEW max \in 1..MaxBatch, NEW fits \in 1..MaxBatch,
           NEW w \in Seq(Entries), w = Wanted(since, min),
           NEW b, b = fill_log_batch(since, min, max, fits)
    PROVE  /\ \E n \in Nat : Delivers(b, w, n)
           /\ b.overflow <=> since + 1 < ring.first_seq
<1> DEFINE rd == logging_read_since(since, min, Min({max, MaxBatch}))
<1>2. PICK m \in Nat : m = Min({max, MaxBatch}) /\ m >= 1
  <2>1. MaxBatch \in Int /\ max \in Int
    BY RingAssumption
  <2>2. Min({max, MaxBatch}) = IF max <= MaxBatch THEN max ELSE MaxBatch
    BY <2>1, MinOfTwo
  <2> QED
    BY <2>2, RingAssumption
<1>3. PICK l \in Nat : l = Min({m, Len(w)}) /\ l <= Len(w) /\ (l < Len(w) => l >= 1)
  <2>1. Min({m, Len(w)}) = IF m <= Len(w) THEN m ELSE Len(w)
    BY MinOfTwo
  <2> QED
    BY <1>2, <2>1
<1>4. PICK read : read = rd /\ read = SubSeq(w, 1, l)
  BY <1>2, <1>3, Zenon DEF logging_read_since
<1> HIDE DEF rd
<1>5. read \in Seq(Entries) /\ Len(read) = l /\ \A i \in 1..l : read[i] = w[i]
  <2>1. l \in Nat /\ l <= Len(w) /\ read = SubSeq(w, 1, l)
    BY <1>3, <1>4
  <2> QED
    BY <2>1, FirstEntries, Zenon
<1>6. PICK n \in Nat : /\ n = Min({Len(read), fits}) /\ n <= l /\ n <= Len(w)
                       /\ n < Len(w) => n >= 1
  <2>1. Min({Len(read), fits}) = IF l <= fits THEN l ELSE fits
    BY <1>5, MinOfTwo
  <2> QED
    BY <1>3, <2>1
<1>7. PICK p, cut, over : /\ p = SubSeq(read, 1, n)
                          /\ cut = (n < Len(w)) /\ over = (since + 1 < ring.first_seq)
  BY Zenon
<1>8. b = [records |-> p, cut |-> cut, first_seq |-> ring.first_seq,
           next_seq |-> ring.next_seq, overflow |-> over]
  BY <1>4, <1>6, <1>7, Zenon DEF fill_log_batch, rd
<1>9. p \in Seq(Entries) /\ Len(p) = n /\ \A i \in 1..n : p[i] = read[i]
  <2>1. n \in Nat /\ n <= Len(read)
    BY <1>5, <1>6
  <2>2. read \in Seq(Entries) /\ p = SubSeq(read, 1, n)
    BY <1>5, <1>7, Zenon
  <2> QED
    BY <2>1, <2>2, FirstEntries, Zenon
<1>10. DOMAIN p = 1..n /\ \A i \in 1..n : p[i] = w[i]
  <2>1. \A i \in 1..n : i \in 1..l
    BY <1>6
  <2>2. DOMAIN p = 1..n
    BY <1>9
  <2> QED
    BY <1>5, <1>9, <2>1, <2>2, Zenon
<1>11. (cut <=> n < Len(w)) /\ (over <=> since + 1 < ring.first_seq)
  BY <1>7, Zenon
<1>12. /\ b.records = p /\ b.cut = cut /\ b.overflow = over
       /\ b.first_seq = ring.first_seq /\ b.next_seq = ring.next_seq
  BY <1>8
<1>13. Delivers(b, w, n)
  BY <1>6, <1>9, <1>10, <1>11, <1>12, Zenon DEF Delivers
<1> QED
  BY <1>11, <1>12, <1>13, Zenon

(* Nothing is lost silently in a sound ring. *)
LEMMA NothingSilent ==
    ASSUME LogInv PROVE LossIsNeverSilent
<1> SUFFICES ASSUME NEW since \in 0..Len(emitted), NEW min \in Levels,
                    NEW max \in 1..MaxBatch, NEW fits \in 1..MaxBatch
             PROVE  LET b    == fill_log_batch(since, min, max, fits)
                        upto == IF b.cut THEN b.records[Len(b.records)].seq
                                         ELSE b.next_seq - 1
                    IN  \A s \in (since + 1)..upto :
                          \/ \E i \in DOMAIN b.records :
                               b.records[i].seq = s /\ b.records[i].level = emitted[s]
                          \/ emitted[s] > min
                          \/ b.overflow /\ s < b.first_seq
  BY Zenon DEF LossIsNeverSilent
<1> DEFINE b == fill_log_batch(since, min, max, fits)
           upto == IF b.cut THEN b.records[Len(b.records)].seq ELSE b.next_seq - 1
<1> SUFFICES ASSUME NEW s \in (since + 1)..upto
             PROVE  \/ \E i \in DOMAIN b.records :
                         b.records[i].seq = s /\ b.records[i].level = emitted[s]
                    \/ emitted[s] > min
                    \/ b.overflow /\ s < b.first_seq
  BY Zenon
<1>1. PICK w \in Seq(Entries) : w = Wanted(since, min) /\ Selected(w, since, min)
  <2>1. Selected(Wanted(since, min), since, min)
    BY WantedIsSelected, Zenon
  <2>2. Wanted(since, min) \in Seq(Entries)
    BY <2>1, Zenon DEF Selected
  <2> QED
    BY <2>1, <2>2, Zenon
<1>2. PICK n \in Nat : Delivers(b, w, n) /\ (b.overflow <=> since + 1 < ring.first_seq)
  <2>1. b = fill_log_batch(since, min, max, fits)
    OBVIOUS
  <2> HIDE DEF b
  <2> QED
    BY <1>1, <2>1, BatchIsPrefix, Zenon
<1>2a. upto = IF b.cut THEN b.records[Len(b.records)].seq ELSE b.next_seq - 1
  OBVIOUS
<1> HIDE DEF b, upto
<1>3. PICK first \in Nat \ {0}, next \in Nat :
        first = ring.first_seq /\ next = ring.next_seq /\ next = Len(emitted) + 1
  BY DEF LogInv, RingSound, RingStates
<1>4. /\ \A m \in 1..Len(w) : w[m].seq \in first..(next - 1)
                              /\ w[m].level = emitted[w[m].seq]
      /\ \A m, o \in 1..Len(w) : m < o => w[m].seq < w[o].seq
      /\ \A t \in first..(next - 1) :
           t > since /\ emitted[t] <= min => \E m \in 1..Len(w) : w[m].seq = t
  BY <1>1, <1>3, Zenon DEF Selected
<1>5. /\ n <= Len(w) /\ (b.cut <=> n < Len(w)) /\ (n < Len(w) => n >= 1)
      /\ b.first_seq = first /\ b.next_seq = next
  BY <1>2, <1>3, Zenon DEF Delivers
<1>6. /\ Len(b.records) = n /\ DOMAIN b.records = 1..n
      /\ \A i \in 1..n : b.records[i] = w[i]
  BY <1>2, Zenon DEF Delivers
<1>7. /\ n < Len(w) => n \in 1..Len(w) /\ upto = w[n].seq
      /\ ~(n < Len(w)) => upto = next - 1
  <2>1. CASE n < Len(w)
    <3>1. n \in 1..n /\ n \in 1..Len(w) /\ b.cut
      BY <1>5, <2>1
    <3>2. upto = b.records[n].seq
      BY <1>2a, <1>6, <3>1, Zenon
    <3> QED
      BY <1>6, <2>1, <3>1, <3>2
  <2>2. CASE ~(n < Len(w))
    BY <1>2a, <1>5, <2>2, Zenon
  <2> QED
    BY <2>1, <2>2
<1>8. upto \in Int /\ upto <= next - 1
  BY <1>3, <1>4, <1>7
<1>9. s \in Nat /\ s > since /\ s <= next - 1 /\ s <= upto /\ since \in Nat
  BY <1>3, <1>8
<1>10. CASE s < first
  <2>1. since + 1 < first
    BY <1>9, <1>10
  <2>2. b.overflow
    BY <1>2, <1>3, <2>1, Zenon
  <2> QED
    BY <1>5, <1>10, <2>2
<1>11. CASE ~(s < first)
  <2>1. s \in first..(next - 1) /\ s \in 1..Len(emitted)
    BY <1>3, <1>9, <1>11
  <2>2. emitted[s] \in Nat /\ min \in Nat
    <3>1. emitted \in Seq(Levels)
      BY DEF LogInv, TypeOK
    <3>2. emitted[s] \in Levels
      BY <2>1, <3>1
    <3> QED
      BY <3>2, RingAssumption
  <2>3. CASE emitted[s] > min
    BY <2>3
  <2>4. CASE emitted[s] <= min
    <3>1. PICK m \in 1..Len(w) : w[m].seq = s
      BY <1>4, <1>9, <2>1, <2>4
    <3>2. m \in 1..n
      <4>1. SUFFICES ASSUME n < m PROVE FALSE
        OBVIOUS
      <4>2. n < Len(w) /\ n \in 1..Len(w) /\ upto = w[n].seq
        BY <1>5, <1>7, <4>1
      <4>3. w[n].seq < w[m].seq
        BY <1>4, <4>1, <4>2
      <4> QED
        BY <1>8, <1>9, <3>1, <4>2, <4>3
    <3>3. b.records[m].seq = s /\ b.records[m].level = emitted[s]
      BY <1>4, <1>6, <3>1, <3>2
    <3> QED
      BY <1>6, <3>2, <3>3
  <2> QED
    BY <2>2, <2>3, <2>4
<1> QED
  BY <1>10, <1>11

(* "The loss is thus never silent" (log_ring.h), for every capacity, set   *)
(* of sizes, filter and limit of the batch.                                *)
THEOREM RamLossIsNeverSilent == Spec => []LossIsNeverSilent
<1>1. LogInv => LossIsNeverSilent
  BY NothingSilent
<1> QED
  BY <1>1, RamLogSound, PTL

\* Walking the bytes yields the records in the window, by number.
ContentsInv ==
    Contents = {<<n, emitted[n]>> : n \in ring.first_seq..(ring.next_seq - 1)}

(* So it is in a sound ring. *)
LEMMA ContentsAreWindow ==
    ASSUME LogInv PROVE ContentsInv
<1>1. PICK first \in Nat \ {0}, next \in Nat, c \in Nat :
        /\ first = ring.first_seq /\ next = ring.next_seq /\ c = ring.count
        /\ c = next - first
  BY DEF LogInv, RingSound, RingStates
<1>2. /\ DOMAIN Records = 1..c
      /\ \A i \in 1..c : /\ Records[i].seq = first + (i - 1)
                         /\ Records[i].level = emitted[first + (i - 1)]
  <2>1. RingSound(buf, emitted, ring) /\ emitted \in Seq(Levels)
    BY DEF LogInv, TypeOK
  <2>2. DOMAIN Records = 1..c
    BY <1>1, <2>1, RecordsAreEmitted
  <2> QED
    BY <1>1, <2>1, <2>2, RecordsAreEntries
<1>3. PICK q : /\ q = Records /\ DOMAIN q = 1..c
               /\ \A i \in 1..c : /\ q[i].seq = first + (i - 1)
                                  /\ q[i].level = emitted[first + (i - 1)]
  BY <1>2, Zenon
<1>4. Contents = {<<q[i].seq, q[i].level>> : i \in 1..c}
  BY <1>3, Zenon DEF Contents
<1>5. {<<q[i].seq, q[i].level>> : i \in 1..c}
        = {<<n, emitted[n]>> : n \in first..(next - 1)}
  <2>1. ASSUME NEW i \in 1..c
        PROVE  <<q[i].seq, q[i].level>> \in {<<n, emitted[n]>> : n \in first..(next - 1)}
    <3>1. PICK n \in first..(next - 1) : n = first + (i - 1)
      BY <1>1
    <3>2. q[i].seq = n /\ q[i].level = emitted[n]
      BY <1>3, <3>1
    <3> QED
      BY <3>2
  <2>2. ASSUME NEW n \in first..(next - 1)
        PROVE  <<n, emitted[n]>> \in {<<q[i].seq, q[i].level>> : i \in 1..c}
    <3>1. PICK i \in 1..c : n = first + (i - 1)
      <4>1. n - first + 1 \in 1..c /\ n = first + ((n - first + 1) - 1)
        BY <1>1
      <4> QED
        BY <4>1
    <3>2. q[i].seq = n /\ q[i].level = emitted[n]
      BY <1>3, <3>1
    <3> QED
      BY <3>2
  <2> QED
    BY <2>1, <2>2
<1> QED
  BY <1>1, <1>4, <1>5, Zenon DEF ContentsInv

(* log_ring_push appends to the log, and evicts what had to give way. *)
LEMMA RamPushIsAppend ==
    ASSUME LogInv, ContentsInv, ContentsInv',
           NEW level \in Levels, NEW needed \in Sizes, log_ring_push(level, needed)
    PROVE  Log!Append(level)
<1>1. PICK first \in Nat \ {0}, next \in Nat, c \in Nat :
        /\ first = ring.first_seq /\ next = ring.next_seq /\ c = ring.count
        /\ c = next - first /\ next = Len(emitted) + 1
  BY DEF LogInv, RingSound, RingStates
<1>2. PICK k \in 0..c : /\ ring'.first_seq = first + k
                        /\ ring'.overwritten = ring.overwritten + k
                        /\ ring'.next_seq = next + 1
  <2>1. emitted \in Seq(Levels) /\ RingSound(buf, emitted, ring)
    BY DEF LogInv, TypeOK
  <2>2. /\ ring'.next_seq = ring.next_seq + 1
        /\ \E k \in 0..ring.count : /\ ring'.first_seq = ring.first_seq + k
                                    /\ ring'.overwritten = ring.overwritten + k
    BY <2>1, PushStep, Zenon
  <2> QED
    BY <1>1, <2>2
<1>3. /\ emitted \in Seq(Levels) /\ emitted' = emitted \o <<level>>
  BY PushTypes DEF LogInv, TypeOK
<1>4. emitted'[next] = level /\ \A n \in 1..(next - 1) : emitted'[n] = emitted[n]
  BY <1>1, <1>3
<1>5. PICK new \in Nat : new = first + k /\ new <= next
  BY <1>1
<1>5a. PICK items, later :
        /\ items = Contents /\ later = Contents'
        /\ items = {<<n, emitted[n]>> : n \in first..(next - 1)}
        /\ later = {<<n, emitted'[n]>> : n \in new..next}
  <2>1. Contents = {<<n, emitted[n]>> : n \in first..(next - 1)}
    BY <1>1, Zenon DEF ContentsInv
  <2>2. Contents' = {<<n, emitted'[n]>> : n \in ring'.first_seq..(ring'.next_seq - 1)}
    BY Zenon DEF ContentsInv
  <2>3. ring'.first_seq = new /\ ring'.next_seq - 1 = next
    BY <1>1, <1>2, <1>5
  <2>4. Contents' = {<<n, emitted'[n]>> : n \in new..next}
    BY <2>2, <2>3, Zenon
  <2> QED
    BY <2>1, <2>4, Zenon
<1>6. later = {x \in items : x[1] >= new} \cup {<<next, level>>}
  <2>1. {x \in items : x[1] >= new} = {<<n, emitted[n]>> : n \in new..(next - 1)}
    BY <1>1, <1>5, <1>5a
  <2>2. \A n \in new..(next - 1) : emitted'[n] = emitted[n]
    BY <1>1, <1>4, <1>5
  <2>3. \A n : n \in new..next <=> n \in new..(next - 1) \/ n = next
    BY <1>5
  <2>4. later = {<<n, emitted[n]>> : n \in new..(next - 1)} \cup {<<next, level>>}
    BY <1>4, <1>5a, <2>2, <2>3, Zenon
  <2> QED
    BY <2>1, <2>4, Zenon
<1>7. k \in 0..(ring.next_seq - ring.first_seq)
  BY <1>1
<1>8. Contents' = {x \in Contents : x[1] >= ring'.first_seq} \cup {<<ring.next_seq, level>>}
  BY <1>1, <1>2, <1>5, <1>5a, <1>6, Zenon
<1>9. /\ ring'.first_seq = ring.first_seq + k /\ ring'.next_seq = ring.next_seq + 1
      /\ ring'.overwritten = ring.overwritten + k
  BY <1>1, <1>2
<1> QED
  BY <1>7, <1>8, <1>9, Zenon DEF Log!Append

(* log_ring_clear empties it. *)
LEMMA RamClearIsClear ==
    ASSUME LogInv, ContentsInv', log_ring_clear
    PROVE  Log!Clear
<1>1. /\ ring'.next_seq = ring.next_seq /\ ring'.first_seq = ring.next_seq
      /\ ring'.overwritten = ring.overwritten
  BY ClearStep, Zenon
<1>2. Contents' = {<<n, emitted'[n]>> : n \in ring'.first_seq..(ring'.next_seq - 1)}
  BY Zenon DEF ContentsInv
<1>3. ring.next_seq \in Nat
  BY DEF LogInv, RingSound, RingStates
<1>4. ring'.first_seq..(ring'.next_seq - 1) = {}
  BY <1>1, <1>3
<1>5. Contents' = {}
  BY <1>2, <1>4, Zenon
<1> QED
  BY <1>1, <1>5, Zenon DEF Log!Clear

(* The RAM log implements the bounded log, although records wrap, leave    *)
(* gaps and are evicted several at a time.                                 *)
THEOREM RamLogImplementsLog == Spec => IsBoundedLog
<1>1. Init => Log!Init
  <2> SUFFICES ASSUME Init PROVE Log!Init
    OBVIOUS
  <2>1. ring.first_seq = 1 /\ ring.next_seq = 1 /\ ring.overwritten = 0
    BY DEF Init, log_ring_init
  <2>2. ContentsInv
    BY InitSound, ContentsAreWindow
  <2>3. ring.first_seq..(ring.next_seq - 1) = {}
    BY <2>1
  <2>4. Contents = {}
    BY <2>2, <2>3, Zenon DEF ContentsInv
  <2> QED
    BY <2>1, <2>4, Zenon DEF Log!Init
<1>2. LogInv => ContentsInv
  BY ContentsAreWindow
<1>3. LogInv /\ ContentsInv /\ ContentsInv' /\ [Next]_vars => [Log!Next]_(Log!vars)
  <2> SUFFICES ASSUME LogInv, ContentsInv, ContentsInv', [Next]_vars
               PROVE  [Log!Next]_(Log!vars)
    OBVIOUS
  <2>1. CASE log_ring_clear
    BY <2>1, RamClearIsClear, Zenon DEF Log!Next
  <2>2. ASSUME NEW level \in Levels, NEW size \in Sizes, log_ring_push(level, size)
        PROVE  Log!Next
    BY <2>2, RamPushIsAppend, Zenon DEF Log!Next
  <2>3. CASE UNCHANGED vars
    <3>1. ring' = ring /\ emitted' = emitted
      BY <2>3, Zenon DEF vars
    <3>2. Contents' = Contents
      BY <3>1, Zenon DEF ContentsInv
    <3> QED
      BY <3>1, <3>2, Zenon DEF Log!vars
  <2> QED
    BY <2>1, <2>2, <2>3, Zenon DEF Next
<1> QED
  BY <1>1, <1>2, <1>3, RamLogSound, PTL DEF Spec, IsBoundedLog, Log!Spec
=============================================================================
