------------------------------- MODULE CanSdo -------------------------------
(***************************************************************************)
(* The SDO server of co_core.c (section 5), the object dictionary callbacks*)
(* of canopen_task.c it serves, and a client on the bus that reads and     *)
(* writes objects.                                                         *)
(*                                                                         *)
(* A value is a sequence of bytes.  The sizes of the protocol are          *)
(* constants, so that small values already need several segments: ExpBytes *)
(* is 4, SegBytes 7, BufBytes CO_SDO_BUF_SIZE = 128 and StrMax DP_STR_MAX =*)
(* 64 in the code.  The objects stand for the kinds the callbacks tell     *)
(* apart: a string that can be read and written, a password, two numbers   *)
(* with a range and a rule between them (minimum and maximum pressure), a  *)
(* read-only datapoint, and a constant of the node itself (its name).      *)
(* Requests are lost when the receive queue overflows, answers when the    *)
(* transmit queue is full; the client then repeats the request, aborts or  *)
(* starts over.  A frame on the bus is taken well within the timeouts of   *)
(* both sides, so a timeout finds nothing of the exchange under way; what  *)
(* follows it may cross the other's frames.                                *)
(***************************************************************************)
EXTENDS Naturals, Sequences, FiniteSets

CONSTANTS
  ExpBytes, SegBytes, BufBytes, StrMax,
  Plans,      \* what a behaviour uses: objects, and values for the text
  MaxQueue    \* bound on the frames under way in one direction

\* Its bytes stand for those of a password: no other value has them.
Secret  == <<"s", "s", "s", "s">>
Objects == {"text", "secret", "low", "high", "state", "name"}
Points  == Objects \ {"name"}
Digits  == {<<"1">>, <<"2">>, <<"3">>}
Strings == {"text", "secret"}
Bytes   == {"a", "b", "c", "d", "s", "n", "0", "1", "2", "3", "9"}
\* The string that C code finds in bytes v: it ends at the first zero byte.
CString(v) ==
  SubSeq(v, 1, Cardinality({j \in 1 .. Len(v) : \A i \in 1 .. j : v[i] # "0"}))

ASSUME SdoAssumption ==
  /\ {ExpBytes, SegBytes, BufBytes, StrMax, MaxQueue} \subseteq Nat \ {0}
  /\ ExpBytes < SegBytes /\ SegBytes < BufBytes /\ StrMax <= BufBytes
  /\ \A p \in Plans : /\ p.objects \subseteq Objects
                      /\ p.texts \subseteq Seq(Bytes \ {"s"})

VARIABLES
  sdo,        \* co_node_t.sdo
  dp,         \* the datapoints behind the objects
  requests,   \* frames to the server: the TWAI receive queue
  answers,    \* frames of the server: the TWAI transmit queue
  client,     \* the transfer of the client
  held,       \* values of the text since an exchange is under way: history
  plan,       \* the objects the client uses and the texts it and others write
  stored      \* the server has written what the client sends: history

sdoVars == <<sdo, dp, requests, answers, client, held, stored, plan>>

Written(o) == CASE o = "text"   -> plan.texts
                [] o = "secret" -> {Secret}
                [] o \in {"low", "high"} -> Digits \cup {<<"9">>, <<"1", "1">>}
                [] OTHER        -> {<<"1">>}
\* The texts that a datapoint can hold.
Texts == {CString(t) : t \in plan.texts}

Idle(s) == [state |-> "idle", obj |-> "text", toggle |-> 0, len |-> 0,
            pos |-> 0, buf |-> s.buf]
Rest    == [op |-> "rest", obj |-> "text", val |-> <<>>, size |-> 0, pos |-> 0,
            toggle |-> 0]
Frame(k, o, t, data, n, last) ==
  [k |-> k, obj |-> o, toggle |-> t, data |-> data, n |-> n, last |-> last]
Aborted(o) == Frame("abort", o, 0, <<>>, 0, TRUE)

SdoInit ==
  /\ sdo = Idle([buf |-> <<>>])
  /\ dp = [o \in Points |-> CASE o = "text"   -> <<"a">>
                              [] o = "secret" -> Secret
                              [] o = "high"   -> <<"2">>
                              [] OTHER        -> <<"1">>]
  /\ requests = <<>> /\ answers = <<>>
  /\ client = Rest /\ held = {<<"a">>} /\ stored = FALSE
  /\ plan \in Plans

Least(a, b)  == IF a < b THEN a ELSE b
\* memcpy of data into b behind its first at bytes; the rest of b stays.
Overlay(b, at, data) ==
  SubSeq(b, 1, at) \o data \o SubSeq(b, at + Len(data) + 1, Len(b))
\* A frame is queued, or lost: the queue is full.
Queued(q, f) == {q} \cup (IF Len(q) < MaxQueue THEN {Append(q, f)} ELSE {})

-----------------------------------------------------------------------------
\* Object dictionary.

\* What is read: a set of one value, or of none when it is refused.
is_internal_index(o) == o \notin Points
\* Constants of the node; the PDO parameters behind the other indices are in
\* CanNode.
od_internal_read(o) == {<<"n", "n", "n">>}
\* od_read_dp: points that are write-only or secret are refused.
od_read_cb(o) == IF o = "secret" THEN {} ELSE {dp[o]}
od_read(o) == IF is_internal_index(o) THEN od_internal_read(o) ELSE od_read_cb(o)

\* json_from_raw: the bytes have a length of the type, and their value.
RawFits(o, data) == IF o \in Strings THEN Len(data) < StrMax ELSE Len(data) = 1
json_from_raw(o, data) == IF o \in Strings THEN CString(data) ELSE data
\* Strings are short enough, numbers in their range.
dp_value_from_json(o, v) == IF o \in Strings THEN Len(v) < StrMax
                            ELSE v \in Digits
Number(v) == CASE v[1] = "1" -> 1 [] v[1] = "2" -> 2 [] v[1] = "3" -> 3
\* The rules between points, here Fon_Min_Pressure < Fon_Max_Pressure.
dp_constraints_ok(d) == Number(d.low) < Number(d.high)

\* dp_write_batch, all or nothing under one hold of the lock: batch b is
\* accepted, and what it makes of the store.
Committed(b) == [o \in Points |-> IF o \in DOMAIN b THEN b[o] ELSE dp[o]]
dp_write_batch(b) ==
  /\ \A o \in DOMAIN b : o # "state" /\ dp_value_from_json(o, b[o])
  /\ dp_constraints_ok(Committed(b))

\* Secrets are ordinary points for a writer.
od_write_cb(o, data) == /\ o # "state" /\ RawFits(o, data)
                        /\ dp_write_batch([x \in {o} |-> json_from_raw(o, data)])
\* The constants of the node cannot be written.
od_write(o, data) == ~ is_internal_index(o) /\ od_write_cb(o, data)

Quiet == requests = <<>> /\ answers = <<>>
Under == client.op # "rest" \/ ~ Quiet
\* A write of the text by whoever, with the history kept for the properties.
Keep(new) == held' = (IF Under THEN held ELSE {}) \cup {new.text}

-----------------------------------------------------------------------------
\* The server.  Each handler answers with one frame, which may be lost.

Answer(f, s) ==
  /\ answers' \in Queued(answers, f)
  /\ sdo' = s
\* The transfer ends and nothing is written.
sdo_abort(o, s) == Answer(Aborted(o), Idle(s)) /\ UNCHANGED <<dp, held, stored>>

\* What the bytes of an expedited upload arrive as: the number of unused
\* bytes has two bits, so an empty value arrives as ExpBytes zero bytes.
Expedited(v) == IF v = <<>> THEN [i \in 1 .. ExpBytes |-> "0"] ELSE v

sdo_upload_initiate(f) ==
  LET r == od_read(f.obj)
      v == CHOOSE x \in r : TRUE
      b == Overlay(sdo.buf, 0, v)
  IN  IF r = {} THEN sdo_abort(f.obj, sdo)
      ELSE /\ IF Len(v) <= ExpBytes
              THEN Answer(Frame("uexp", f.obj, 0, Expedited(v), 0, TRUE),
                          Idle([buf |-> b]))
              ELSE Answer(Frame("uinit", f.obj, 0, <<>>, Len(v), FALSE),
                          [state |-> "upload", obj |-> f.obj, toggle |-> 0,
                           len |-> Len(v), pos |-> 0, buf |-> b])
           /\ UNCHANGED <<dp, held, stored>>

\* Mutants of sdo_upload_segment: every segment carries SegBytes bytes of the
\* buffer; a segment is read from the datapoint.
sdo_upload_segment_full(f) ==
  LET remain == sdo.len - sdo.pos
      n      == Least(SegBytes, remain)
      next   == [sdo EXCEPT !.pos = @ + n, !.toggle = 1 - @]
  IN  IF sdo.state # "upload" \/ f.toggle # sdo.toggle
      THEN sdo_abort(sdo.obj, sdo)
      ELSE /\ Answer(Frame("useg", sdo.obj, f.toggle,
                           SubSeq(sdo.buf, sdo.pos + 1,
                                  Least(sdo.pos + SegBytes, Len(sdo.buf))), 0,
                           n = remain),
                     IF n = remain THEN Idle(sdo) ELSE next)
           /\ UNCHANGED <<dp, held, stored>>
sdo_upload_segment_live(f) ==
  LET v      == IF sdo.obj \in Points THEN dp[sdo.obj] ELSE SubSeq(sdo.buf, 1, sdo.len)
      n      == Least(SegBytes, Len(v) - Least(sdo.pos, Len(v)))
      next   == [sdo EXCEPT !.pos = @ + n, !.toggle = 1 - @]
  IN  IF sdo.state # "upload" \/ f.toggle # sdo.toggle
      THEN sdo_abort(sdo.obj, sdo)
      ELSE /\ Answer(Frame("useg", sdo.obj, f.toggle,
                           SubSeq(v, sdo.pos + 1, sdo.pos + n), 0,
                           sdo.pos + n = Len(v)),
                     IF sdo.pos + n = Len(v) THEN Idle(sdo) ELSE next)
           /\ UNCHANGED <<dp, held, stored>>

sdo_upload_segment(f) ==
  LET remain == sdo.len - sdo.pos
      n      == Least(SegBytes, remain)
      next   == [sdo EXCEPT !.pos = @ + n, !.toggle = 1 - @]
  IN  IF sdo.state # "upload" \/ f.toggle # sdo.toggle
      THEN sdo_abort(sdo.obj, sdo)
      ELSE /\ Answer(Frame("useg", sdo.obj, f.toggle,
                           SubSeq(sdo.buf, sdo.pos + 1, sdo.pos + n), 0,
                           n = remain),
                     IF n = remain THEN Idle(sdo) ELSE next)
           /\ UNCHANGED <<dp, held, stored>>

\* od_write accepts data for object o: the datapoint has its new value.
Store(o, data) ==
  /\ dp' = Committed([x \in {o} |-> json_from_raw(o, data)])
  /\ Keep(dp')
  /\ stored' = (stored \/ (o = client.obj /\ data = client.val))

sdo_download_initiate(f) ==
  IF f.k = "dexp"
  THEN IF od_write(f.obj, f.data)
       THEN /\ Store(f.obj, f.data)
            /\ Answer(Frame("dok", f.obj, 0, <<>>, 0, TRUE), Idle(sdo))
       ELSE sdo_abort(f.obj, sdo)
  ELSE IF f.n > BufBytes THEN sdo_abort(f.obj, sdo)
       ELSE /\ Answer(Frame("dok", f.obj, 0, <<>>, 0, FALSE),
                      [state |-> "download", obj |-> f.obj, toggle |-> 0,
                       len |-> f.n, pos |-> 0, buf |-> sdo.buf])
            /\ UNCHANGED <<dp, held, stored>>

\* Mutants of sdo_download_segment: the toggle is not compared; a refused
\* value is confirmed.
sdo_download_segment_untoggled(f) ==
  LET end == sdo.pos + Len(f.data)
      s   == [sdo EXCEPT !.buf = Overlay(@, sdo.pos, f.data), !.pos = end,
                         !.toggle = 1 - @]
      ack == Frame("dseg", sdo.obj, f.toggle, <<>>, 0, f.last)
      all == SubSeq(s.buf, 1, end)
  IN  IF sdo.state # "download" \/ end > BufBytes
      THEN sdo_abort(sdo.obj, sdo)
      ELSE IF ~ f.last
           THEN Answer(ack, s) /\ UNCHANGED <<dp, held, stored>>
           ELSE IF sdo.len \notin {0, end} \/ ~ od_write(sdo.obj, all)
                THEN sdo_abort(sdo.obj, s)
                ELSE Store(sdo.obj, all) /\ Answer(ack, Idle(s))
sdo_download_segment_polite(f) ==
  LET end == sdo.pos + Len(f.data)
      s   == [sdo EXCEPT !.buf = Overlay(@, sdo.pos, f.data), !.pos = end,
                         !.toggle = 1 - @]
      ack == Frame("dseg", sdo.obj, f.toggle, <<>>, 0, f.last)
      all == SubSeq(s.buf, 1, end)
  IN  IF sdo.state # "download" \/ f.toggle # sdo.toggle \/ end > BufBytes
      THEN sdo_abort(sdo.obj, sdo)
      ELSE IF ~ f.last
           THEN Answer(ack, s) /\ UNCHANGED <<dp, held, stored>>
           ELSE IF sdo.len \notin {0, end} THEN sdo_abort(sdo.obj, s)
                ELSE IF od_write(sdo.obj, all)
                     THEN Store(sdo.obj, all) /\ Answer(ack, Idle(s))
                     ELSE Answer(ack, Idle(s)) /\ UNCHANGED <<dp, held, stored>>

sdo_download_segment(f) ==
  LET end == sdo.pos + Len(f.data)
      s   == [sdo EXCEPT !.buf = Overlay(@, sdo.pos, f.data), !.pos = end,
                         !.toggle = 1 - @]
      ack == Frame("dseg", sdo.obj, f.toggle, <<>>, 0, f.last)
      all == SubSeq(s.buf, 1, end)
  IN  IF sdo.state # "download" \/ f.toggle # sdo.toggle \/ end > BufBytes
      THEN sdo_abort(sdo.obj, sdo)
      ELSE IF ~ f.last
           THEN Answer(ack, s) /\ UNCHANGED <<dp, held, stored>>
           ELSE IF sdo.len \notin {0, end} \/ ~ od_write(sdo.obj, all)
                THEN sdo_abort(sdo.obj, s)
                ELSE Store(sdo.obj, all) /\ Answer(ack, Idle(s))

\* The client's abort is not answered; an unknown command is refused.
sdo_rx(f) ==
  CASE f.k = "dseg"              -> sdo_download_segment(f)
    [] f.k \in {"dexp", "dinit"} -> sdo_download_initiate(f)
    [] f.k = "uinit"             -> sdo_upload_initiate(f)
    [] f.k = "useg"              -> sdo_upload_segment(f)
    [] f.k = "abort"             -> /\ sdo' = Idle(sdo)
                                    /\ UNCHANGED <<answers, dp, held, stored>>
    [] OTHER                     -> sdo_abort(f.obj, sdo)

Serve == /\ requests # <<>>
         /\ requests' = Tail(requests)
         /\ sdo_rx(Head(requests))
         /\ UNCHANGED client

\* co_tick: a transfer without a request for CO_SDO_TIMEOUT_MS is dropped.
SdoTimeout == /\ sdo.state # "idle" /\ Quiet
              /\ sdo_abort(sdo.obj, sdo)
              /\ UNCHANGED <<requests, client>>

\* nmt_rx stops or resets the node, or the driver restarts: the transfer is
\* dropped without an answer.
NodeStops == /\ sdo.state # "idle"
             /\ sdo' = Idle(sdo)
             /\ UNCHANGED <<dp, requests, answers, client, held, stored>>

-----------------------------------------------------------------------------
\* The client, and the other writer of the datapoints.

Resting == client.op \in {"rest", "read", "stored"}

Request(c) ==
  LET n == Least(SegBytes, Len(c.val) - c.pos)
  IN  CASE c.op \in {"dexp", "uinit"} -> Frame(c.op, c.obj, 0, c.val, 0, TRUE)
        [] c.op = "dinit" -> Frame("dinit", c.obj, 0, <<>>, c.size, FALSE)
        [] c.op = "dseg"  -> Frame("dseg", c.obj, c.toggle,
                                   SubSeq(c.val, c.pos + 1, c.pos + n), 0,
                                   c.pos + n = Len(c.val))
        [] c.op = "useg"  -> Frame("useg", c.obj, c.toggle, <<>>, 0, FALSE)

\* The client sends what belongs to state c of its transfer.
Send(c) == /\ client' = c
           /\ requests' \in Queued(requests, Request(c))

\* The size of a segmented download is announced or left open (0).
Download ==
  /\ Resting
  /\ \E o \in plan.objects : \E v \in Written(o) :
        IF Len(v) \in 1 .. ExpBytes
        THEN Send([Rest EXCEPT !.op = "dexp", !.obj = o, !.val = v])
        ELSE \E size \in {0, Len(v)} :
               Send([Rest EXCEPT !.op = "dinit", !.obj = o, !.val = v,
                                 !.size = size])
  /\ stored' = FALSE
  /\ UNCHANGED <<sdo, dp, answers, held>>

Upload ==
  /\ Resting
  /\ \E o \in plan.objects : Send([Rest EXCEPT !.op = "uinit", !.obj = o])
  /\ held' = (IF Under THEN held ELSE {}) \cup {dp.text}
  /\ UNCHANGED <<sdo, dp, answers, stored>>

\* The client takes an answer; one it does not expect ends its transfer.
Expected(f) ==
  CASE client.op = "dexp"  -> f.k = "dok" /\ f.obj = client.obj
    [] client.op = "dinit" -> f.k = "dok" /\ f.obj = client.obj
    [] client.op = "uinit" -> f.k \in {"uexp", "uinit"} /\ f.obj = client.obj
    [] client.op \in {"dseg", "useg"} -> f.k = client.op /\ f.toggle = client.toggle
    [] OTHER -> FALSE

Proceed(f) ==
  LET done == client.pos + Least(SegBytes, Len(client.val) - client.pos)
      got  == client.val \o f.data
  IN  CASE client.op = "dexp"  -> client' = Rest /\ UNCHANGED requests
        [] client.op = "dinit" -> Send([client EXCEPT !.op = "dseg"])
        [] client.op = "dseg"  ->
             IF done = Len(client.val)
             THEN client' = [client EXCEPT !.op = "stored"] /\ UNCHANGED requests
             ELSE Send([client EXCEPT !.pos = done, !.toggle = 1 - @])
        [] f.k = "uinit" -> Send([client EXCEPT !.op = "useg"])
        [] OTHER         ->
             IF f.last
             THEN client' = [client EXCEPT !.op = "read", !.val = got]
                  /\ UNCHANGED requests
             ELSE Send([client EXCEPT !.val = got, !.toggle = 1 - @])

Receive ==
  /\ answers # <<>>
  /\ answers' = Tail(answers)
  /\ LET f == Head(answers)
     IN  IF Resting \/ f.k = "abort"
         THEN client' = Rest /\ UNCHANGED requests
         ELSE IF Expected(f) THEN Proceed(f)
         ELSE /\ client' = Rest
              /\ requests' \in Queued(requests, Aborted(client.obj))
  /\ UNCHANGED <<sdo, dp, held, stored>>

\* No answer in time: the client repeats its request, aborts, or turns away.
Overdue == ~ Resting /\ Quiet

Repeat == /\ Overdue
          /\ Send(client)
          /\ UNCHANGED <<sdo, dp, answers, held, stored>>

GiveUp == /\ Overdue
          /\ client' = Rest
          /\ requests' \in Queued(requests, Aborted(client.obj))
          /\ UNCHANGED <<sdo, dp, answers, held, stored>>

\* Cloud or local session: task_com_apply_dp_write in another task.
Batches == UNION {[{"text"} -> Texts],
                  UNION {[os -> Digits] : os \in SUBSET (plan.objects \cap {"low", "high"})}}
CloudWrite == /\ \E b \in Batches : dp_write_batch(b) /\ dp' = Committed(b)
              /\ Keep(dp')
              /\ UNCHANGED <<sdo, requests, answers, client, stored>>

Step == \/ Serve \/ SdoTimeout \/ NodeStops
        \/ Download \/ Upload \/ Receive \/ Repeat \/ GiveUp
        \/ CloudWrite
SdoNext == Step /\ UNCHANGED plan

SdoSpec == SdoInit /\ [][SdoNext]_sdoVars

-----------------------------------------------------------------------------
\* Properties.

\* What the queues, the buffer and the transfers of both sides hold; the
\* position never leaves the buffer.
Kinds  == {"dexp", "dinit", "dseg", "dok", "uexp", "uinit", "useg", "abort"}
Frames == [k : Kinds, obj : Objects, toggle : {0, 1}, data : Seq(Bytes), n : Nat,
           last : BOOLEAN]
SdoTypeOK ==
  /\ sdo \in [state : {"idle", "upload", "download"}, obj : Objects,
              toggle : {0, 1}, len : 0 .. BufBytes, pos : 0 .. BufBytes,
              buf : Seq(Bytes)]
  /\ Len(sdo.buf) <= BufBytes
  /\ dp \in [Points -> Seq(Bytes)]
  /\ requests \in Seq(Frames) /\ answers \in Seq(Frames)
  /\ client \in [op : {"rest", "read", "stored", "dexp", "dinit", "dseg", "uinit",
                      "useg"},
                 obj : Objects, val : Seq(Bytes), size : Nat, pos : Nat,
                 toggle : {0, 1}]
  /\ held \subseteq Seq(Bytes) /\ stored \in BOOLEAN /\ plan \in Plans

\* A datapoint only ever holds a value that somebody wrote as a whole: bytes
\* of two transfers, a repeated or a lost segment, or a refused range never
\* reach it (toggle and size checks of sdo_download_segment, od_write_cb).
\* A text with a zero byte is stored up to it, also when the zero byte and
\* what follows came in later segments (json_from_raw).
\* And the minimum stays below the maximum although two writers set them,
\* one by one or together, each with an old view of the other.
WritesAreWhole ==
  /\ dp.text \in Texts \cup {<<"a">>}
  /\ dp.secret = Secret /\ dp.low \in Digits /\ dp.high \in Digits
  /\ Number(dp.low) < Number(dp.high)

\* What a client reads in segments is one value the datapoint had during the
\* read, although other tasks write it meanwhile (sdo_upload_initiate copies
\* it into the buffer).  An empty value arrives as ExpBytes zero bytes.
UploadIsSnapshot ==
  client.op = "read" /\ client.obj = "text" =>
     \E v \in held : client.val = IF Len(v) <= ExpBytes THEN Expedited(v) ELSE v

\* A segmented download the client sees confirmed has been stored: the last
\* segment is answered only behind a successful od_write, and a repeated
\* last segment, whose answer was lost, is refused and not confirmed twice.
ConfirmedIsStored == client.op = "stored" => stored

\* Bytes of a password never leave the node: not by reading it, and not as
\* what a download of it left in the transfer buffer.
SecretIsNeverSent ==
  \A i \in DOMAIN answers : \A j \in DOMAIN answers[i].data :
     answers[i].data[j] # "s"
=============================================================================
