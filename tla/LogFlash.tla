------------------------------ MODULE LogFlash ------------------------------
(***************************************************************************)
(* The flash tier of the log (components/logging/src/logging_flash.c): two *)
(* slots, of which each boot claims one and leaves the other to the        *)
(* previous boot until the server acknowledges it; a queue between the     *)
(* emitters and the task that appends; reading the log of the previous     *)
(* boot, from its start, for as many records as the caller has room for.   *)
(*                                                                         *)
(* RAM is lost at every restart, flash stays.  The power may fail between  *)
(* any two steps and in the middle of appending an entry.  A header is 16  *)
(* bytes of one page and is written as a whole; reads do not fail.  Boot   *)
(* ids are random in the code and are taken to be different.  A record     *)
(* that the level filter of the tier rejects is never submitted here, and  *)
(* the drop counter, which is only reported, is left out.                  *)
(***************************************************************************)
EXTENDS Integers, Sequences, FiniteSetsExt, SequencesExt

CONSTANTS
    SlotCap,            \* entries a slot holds
    QueueLen,           \* LOGF_QUEUE_LEN
    MaxBoots,           \* bound: restarts
    MaxEmits            \* bound: records of one boot

ASSUME FlashAssumption ==
    /\ SlotCap \in Nat \ {0} /\ QueueLen \in Nat \ {0}
    /\ MaxBoots \in Nat /\ MaxEmits \in Nat

VARIABLES
    slot,       \* flash: header and entries of the two slots
    ram,        \* the static variables of logging_flash.c, and the start-up
    queue,      \* s_hQueue
    boot,       \* id of the current boot
    emits,      \* records submitted in this boot
    last,       \* history: latest boot whose header was written
    acked,      \* history: boots whose log was acknowledged
    sure        \* history: entries of a boot appended before any failure

flashVars == <<slot, ram, queue, boot, emits, last, acked, sure>>

Slots == {0, 1}
Damaged == 0            \* an entry whose CRC does not match
Erased == [valid |-> FALSE, boot |-> 0, gen |-> 0, acked |-> FALSE, data |-> <<>>]
Down == [phase |-> "off", own |-> 0, gen |-> 0, prevAvailable |-> FALSE,
         prevBoot |-> 0, writeOff |-> 0]

FlashInit ==
    /\ slot = [s \in Slots |-> Erased]
    /\ ram = Down
    /\ queue = <<>>
    /\ boot = 0
    /\ emits = 0
    /\ last = 0
    /\ acked = {}
    /\ sure = [b \in 1..MaxBoots |-> <<>>]
----------------------------------------------------------------------------
(* Mutant: the comparison of the generations is swapped. *)
SlotChoice_Newest ==
    IF ~slot[0].valid THEN 0
    ELSE IF ~slot[1].valid THEN 1
    ELSE IF slot[0].acked # slot[1].acked
         THEN CHOOSE s \in Slots : slot[s].acked
         ELSE IF slot[0].gen <= slot[1].gen THEN 1 ELSE 0

(* Slot choice: an invalid slot, else the acknowledged one, else the older *)
(* generation.                                                             *)
SlotChoice ==
    IF ~slot[0].valid THEN 0
    ELSE IF ~slot[1].valid THEN 1
    ELSE IF slot[0].acked # slot[1].acked
         THEN CHOOSE s \in Slots : slot[s].acked
         ELSE IF slot[0].gen <= slot[1].gen THEN 0 ELSE 1

NextGeneration == Max({1} \cup {slot[s].gen + 1 : s \in {t \in Slots : slot[t].valid}})

(* logging_flash_init up to the erase: choice of the slot, what the other  *)
(* one offers, and the generation.                                         *)
Boot ==
    /\ ram.phase = "off"
    /\ boot < MaxBoots
    /\ boot' = boot + 1
    /\ emits' = 0
    /\ LET own  == SlotChoice
           prev == slot[1 - own]
       IN  ram' = [phase |-> "erase", own |-> own, gen |-> NextGeneration,
                   prevAvailable |-> prev.valid /\ ~prev.acked /\ prev.boot # boot',
                   prevBoot |-> IF prev.valid THEN prev.boot ELSE 0,
                   writeOff |-> 0]
    /\ UNCHANGED <<slot, queue, last, acked, sure>>

Inactive == [ram EXCEPT !.phase = "inactive"]

(* The own slot is erased.  A failed erase disables the tier. *)
Erase ==
    /\ ram.phase = "erase"
    /\ \/ /\ slot' = [slot EXCEPT ![ram.own] = Erased]
          /\ ram' \in {[ram EXCEPT !.phase = "header"], Inactive}
       \/ ram' = Inactive /\ UNCHANGED slot
    /\ UNCHANGED <<queue, boot, emits, last, acked, sure>>

(* The header is written, the queue and the task are created; a failure    *)
(* disables the tier.                                                      *)
WriteHeader ==
    /\ ram.phase = "header"
    /\ \/ /\ slot' = [slot EXCEPT ![ram.own] =
                        [valid |-> TRUE, boot |-> boot, gen |-> ram.gen,
                         acked |-> FALSE, data |-> <<>>]]
          /\ last' = boot
          /\ ram' \in {[ram EXCEPT !.phase = "run"], Inactive}
       \/ ram' = Inactive /\ UNCHANGED <<slot, last>>
    /\ UNCHANGED <<queue, boot, emits, acked, sure>>

(* logging_flash_submit: never blocks, a full queue drops the record. *)
Submit ==
    /\ ram.phase = "run"
    /\ emits < MaxEmits
    /\ emits' = emits + 1
    /\ queue' = IF Len(queue) < QueueLen THEN Append(queue, emits') ELSE queue
    /\ UNCHANGED <<slot, ram, boot, last, acked, sure>>

(* Programming an entry at a position of the own slot: bits only go from 1 *)
(* to 0, so that a position programmed before cannot hold a whole entry.   *)
Program(data, off, entry) ==
    IF off < Len(data) THEN [data EXCEPT ![off + 1] = Damaged]
                       ELSE Append(data, entry)

(* No room for another entry. *)
SlotFull == ram.writeOff >= SlotCap

(* Mutant: the position does not move after a successful write. *)
logf_task_Overwrites ==
    /\ ram.phase = "run"
    /\ queue # <<>>
    /\ queue' = Tail(queue)
    /\ ~SlotFull
    /\ slot' = [slot EXCEPT ![ram.own].data =
                  Program(slot[ram.own].data, ram.writeOff, Head(queue))]
    /\ sure' = [sure EXCEPT ![boot] = Append(@, Head(queue))]
    /\ UNCHANGED <<ram, boot, emits, last, acked>>

(* One round of logf_task: the record is dropped if the slot is full; the  *)
(* position only moves when the write succeeded.                           *)
logf_task ==
    /\ ram.phase = "run"
    /\ queue # <<>>
    /\ queue' = Tail(queue)
    /\ LET data == slot[ram.own].data
           entry == Head(queue)
       IN  \/ /\ SlotFull
              /\ UNCHANGED <<slot, ram, sure>>
           \/ /\ ~SlotFull
              /\ slot' = [slot EXCEPT ![ram.own].data =
                            Program(data, ram.writeOff, entry)]
              /\ ram' = [ram EXCEPT !.writeOff = @ + 1]
              /\ sure' = [sure EXCEPT ![boot] =
                            IF Damaged \in Range(slot'[ram.own].data)
                            THEN @ ELSE Append(@, entry)]
           \/ /\ ~SlotFull
              /\ slot' \in {slot, [slot EXCEPT ![ram.own].data =
                                     Program(data, ram.writeOff, Damaged)]}
              /\ UNCHANGED <<ram, sure>>
    /\ UNCHANGED <<boot, emits, last, acked>>

(* Restart or power loss at any time; the entry being written is torn. *)
PowerLoss ==
    /\ ram.phase # "off"
    /\ slot' \in {slot} \cup
         (IF ram.phase = "run" /\ queue # <<>> /\ ~SlotFull
          THEN {[slot EXCEPT ![ram.own].data =
                   Program(slot[ram.own].data, ram.writeOff, Damaged)]}
          ELSE {})
    /\ ram' = Down
    /\ queue' = <<>>
    /\ UNCHANGED <<boot, emits, last, acked, sure>>
----------------------------------------------------------------------------
Previous == slot[1 - ram.own]

(* logging_read_previous_boot: from the start of the slot to the first     *)
(* entry with a wrong CRC, or until the buffer of the caller is full.      *)
read_previous_boot(max) ==
    LET data  == Previous.data
        valid == {n \in 0..Len(data) : \A i \in 1..n : data[i] # Damaged}
    IN  SubSeq(data, 1, Min({Max(valid), max}))

(* Mutant: the flag goes to the slot of the running boot. *)
ack_previous_boot_OwnSlot(id) ==
    /\ ram.phase = "run"
    /\ ram.prevAvailable
    /\ id \in {0, ram.prevBoot}
    /\ slot' = [slot EXCEPT ![ram.own].acked = TRUE]
    /\ ram' = [ram EXCEPT !.prevAvailable = FALSE]
    /\ acked' = acked \cup {ram.prevBoot}
    /\ UNCHANGED <<queue, boot, emits, last, sure>>

(* logging_ack_previous_boot, from log_ack_prev (a boot id) or Log_Command *)
(* (0, any boot).  The flag in the header flips without an erase.          *)
ack_previous_boot(id) ==
    /\ ram.phase = "run"
    /\ ram.prevAvailable
    /\ id \in {0, ram.prevBoot}
    /\ \/ /\ slot' = [slot EXCEPT ![1 - ram.own].acked = TRUE]
          /\ ram' \in {ram, [ram EXCEPT !.prevAvailable = FALSE]}
          /\ acked' = acked \cup {ram.prevBoot}
       \/ UNCHANGED <<slot, ram, acked>>
    /\ UNCHANGED <<queue, boot, emits, last, sure>>

FlashNext ==
    \/ Boot
    \/ Erase
    \/ WriteHeader
    \/ Submit
    \/ logf_task
    \/ PowerLoss
    \/ \E id \in 0..MaxBoots : ack_previous_boot(id)

FlashSpec == FlashInit /\ [][FlashNext]_flashVars
----------------------------------------------------------------------------
SlotSet == [valid : BOOLEAN, boot : 0..MaxBoots, gen : Nat, acked : BOOLEAN,
            data : Seq(0..MaxEmits)]
RamSet == [phase : {"off", "erase", "header", "run", "inactive"}, own : Slots,
           gen : Nat, prevAvailable : BOOLEAN, prevBoot : 0..MaxBoots,
           writeOff : 0..SlotCap]

(* Type correctness: two slots, one of them owned, a bounded queue. *)
FlashTypeOK ==
    /\ slot \in [Slots -> SlotSet]
    /\ \A s \in Slots : Len(slot[s].data) <= SlotCap
    /\ ram \in RamSet
    /\ queue \in Seq(1..MaxEmits) /\ Len(queue) <= QueueLen
    /\ boot \in 0..MaxBoots /\ emits \in 0..MaxEmits
    /\ last \in 0..MaxBoots /\ acked \subseteq 0..MaxBoots
    /\ sure \in [1..MaxBoots -> Seq(0..MaxEmits)]

(* "The other slot holds the PREVIOUS boot's records until the server      *)
(* fetched and acknowledged them": claiming a slot never destroys the log  *)
(* of the latest boot that had one, unless it was acknowledged - however   *)
(* many start-ups broke off in between.                                    *)
NewestLogKept ==
    last # 0 /\ last \notin acked =>
        \E s \in Slots : slot[s].valid /\ slot[s].boot = last

(* The log that a running tier offers is the one of the latest boot before *)
(* this one, it is offered unless acknowledged, and never under the id of  *)
(* another boot.                                                           *)
OffersPreviousBoot ==
    ram.phase \in {"erase", "header"} =>
        /\ ram.prevAvailable <=> last # 0 /\ last \notin acked
        /\ ram.prevAvailable => ram.prevBoot = last /\ Previous.boot = last

(* What was appended before the first failure can be read back after any   *)
(* restart: a batch starts with those entries, in order and none missing,  *)
(* and a damaged entry only ends it.                                       *)
AppendedIsReadable ==
    ram.phase = "run" /\ ram.prevAvailable =>
        \A max \in 1..SlotCap :
            LET known == sure[ram.prevBoot]
            IN  IsPrefix(SubSeq(known, 1, Min({max, Len(known)})),
                         read_previous_boot(max))
=============================================================================
