------------------------------- MODULE ParamLog -------------------------------
(***************************************************************************)
(* The parameter log in flash: an append-only array of slots, each holding *)
(* an image of all parameters under a CRC (firmware/common/param_log.c,    *)
(* param_store.c, app_param_storage.c of both boards).  Power may be lost  *)
(* between any two steps and inside a program or erase operation.          *)
(*                                                                         *)
(* An image is a function from DIDs to values.  The CRC is the last word   *)
(* of the image and flash is programmed word by word, so a slot holds an   *)
(* image, nothing, or something that does not decode.                      *)
(***************************************************************************)
EXTENDS Naturals

CONSTANTS
  Dids, Values,
  Unset,              \* the length 0 of an entry that was never written
  Erased, Torn,       \* contents of a slot that is not an image
  Nothing,            \* no image is being written
  SlotCount           \* APP_PARAM_SLOT_COUNT

ASSUME ParamLogAssumption ==
  /\ SlotCount \in Nat /\ SlotCount > 1
  /\ Unset \notin Values
  /\ {Erased, Torn, Nothing} \cap [Dids -> Values \cup {Unset}] = {}
  /\ Erased # Torn

VARIABLES
  slots,    \* the reserved flash sector
  log,      \* ParamLog_t
  valid,    \* AppParamStorage_t.valid
  phase,    \* where the code is
  image,    \* the image a call is writing
  reply     \* what the last ParamLog_Set or ParamLog_Clear returned

vars == <<slots, log, valid, phase, image, reply>>

Images == [Dids -> Values \cup {Unset}]
Empty == [d \in Dids |-> Unset]
Slots == 0..(SlotCount - 1)

\* ParamLog_Init.
BlankLog == [store |-> Empty, next |-> 0, count |-> 0]

Init ==
  /\ slots = [i \in Slots |-> Erased]
  /\ log = BlankLog
  /\ valid = FALSE
  /\ phase = "off"
  /\ image = Nothing
  /\ reply = "none"

\* Slots before the first one that does not decode.
RecordsIn(s) ==
  CHOOSE n \in 0..SlotCount :
    /\ \A i \in 0..(n - 1) : s[i] \in Images
    /\ n \in Slots => s[n] \notin Images

Records == RecordsIn(slots)

-------------------------------------------------------------------------------
\* ParamLog_Load, called by AppParamStorage_Init at boot.

LatestRecord_oldest(n) == IF n = 0 THEN Empty ELSE slots[0]
LatestRecord(n) == IF n = 0 THEN Empty ELSE slots[n - 1]

EndOfLog_torn(n) == n \in Slots
EndOfLog(n) == n \in Slots /\ slots[n] = Erased

\* The scan ends at an erased slot, or at the end of the sector or a slot that
\* does not decode, and then the log is compacted.
Scan ==
  /\ phase = "off"
  /\ log' = [store |-> LatestRecord(Records), next |-> Records, count |-> SlotCount]
  /\ \/ EndOfLog(Records) /\ phase' = "idle" /\ valid' = TRUE
     \/ ~EndOfLog(Records) /\ phase' = "erasing" /\ UNCHANGED valid
  /\ UNCHANGED <<slots, image, reply>>

\* An erase acts on all cells of the sector at once: one that is interrupted
\* leaves no slot erased while another still decodes.
PartlyErased(s) ==
  [Slots -> {Erased, Torn}]
  \cup {t \in [Slots -> Images \cup {Erased, Torn}] :
          \A i \in Slots : t[i] \in {s[i], Torn}}

GiveUp ==
  /\ log' = BlankLog
  /\ valid' = FALSE
  /\ phase' = "idle"
  /\ image' = Nothing

LatestValid_ignored(l) == FALSE
LatestValid(l) == l.next > 0

EraseSector ==
  /\ phase = "erasing"
  /\ \/ /\ slots' = [i \in Slots |-> Erased]
        /\ \/ /\ LatestValid(log)
              /\ phase' = "rewriting"
              /\ image' = log.store
              /\ UNCHANGED <<log, valid>>
           \/ /\ ~LatestValid(log)
              /\ phase' = "idle"
              /\ log' = [log EXCEPT !.next = 0]
              /\ valid' = TRUE
              /\ UNCHANGED image
     \/ /\ slots' \in PartlyErased(slots)
        /\ GiveUp
  /\ UNCHANGED reply

RewriteLatest ==
  /\ phase = "rewriting"
  /\ \/ /\ slots' = [slots EXCEPT ![0] = image]
        /\ log' = [log EXCEPT !.next = 1]
        /\ valid' = TRUE
        /\ phase' = "idle"
        /\ image' = Nothing
     \/ /\ \E left \in {Erased, Torn} : slots' = [slots EXCEPT ![0] = left]
        /\ GiveUp
  /\ UNCHANGED reply

Load == Scan \/ EraseSector \/ RewriteLatest

-------------------------------------------------------------------------------
\* ParamLog_Set, by the UDS server's deferred write, and ParamLog_Clear, by its
\* erase routine: both append an image to the log.

HasRoom == log.next < log.count

Append(i) ==
  /\ phase = "idle"
  /\ \/ HasRoom /\ phase' = "writing" /\ image' = i /\ reply' = "none"
     \/ ~HasRoom /\ reply' = "failed" /\ UNCHANGED <<phase, image>>
  /\ UNCHANGED <<slots, log, valid>>

Set(d, v) == Append([log.store EXCEPT ![d] = v])

Clear == Append(Empty)

\* app_flash_write programs word after word and stops at an error, or at a word
\* that is not erased.
ProgramSlot ==
  /\ phase = "writing"
  /\ \/ /\ slots[log.next] = Erased
        /\ slots' = [slots EXCEPT ![log.next] = image]
        /\ phase' = "verifying"
        /\ UNCHANGED <<image, reply>>
     \/ /\ \/ /\ slots[log.next] = Erased
              /\ \E left \in {Erased, Torn} :
                   slots' = [slots EXCEPT ![log.next] = left]
           \/ slots[log.next] # Erased /\ UNCHANGED slots
        /\ phase' = "idle"
        /\ image' = Nothing
        /\ reply' = "failed"
  /\ UNCHANGED <<log, valid>>

NextSlot_skips(n) == n + 2
NextSlot(n) == n + 1

\* The image was read back.  The erase routine also marks the storage valid;
\* a log with room is valid already.
Verified ==
  /\ phase = "verifying"
  /\ log' = [log EXCEPT !.store = image, !.next = NextSlot(@)]
  /\ phase' = "idle"
  /\ image' = Nothing
  /\ reply' = "ok"
  /\ UNCHANGED <<slots, valid>>

-------------------------------------------------------------------------------
\* Power loss, a watchdog reset or the reset the bus-off recovery asks for.
PowerLoss ==
  /\ phase # "off"
  /\ \/ phase \in {"idle", "verifying"} /\ UNCHANGED slots
     \/ /\ phase = "writing"
        /\ \/ UNCHANGED slots
           \/ /\ slots[log.next] = Erased
              /\ slots' = [slots EXCEPT ![log.next] = Torn]
     \/ /\ phase = "erasing"
        /\ slots' \in PartlyErased(slots)
     \/ /\ phase = "rewriting"
        /\ \E left \in {Erased, Torn} : slots' = [slots EXCEPT ![0] = left]
  /\ log' = BlankLog
  /\ valid' = FALSE
  /\ phase' = "off"
  /\ image' = Nothing
  /\ reply' = "none"

Next ==
  \/ Load
  \/ \E d \in Dids, v \in Values : Set(d, v)
  \/ Clear
  \/ ProgramSlot
  \/ Verified
  \/ PowerLoss

Spec == Init /\ [][Next]_vars

-------------------------------------------------------------------------------
\* Type invariant of the flash sector, the log and the call in progress.
TypeOK ==
  /\ slots \in [Slots -> Images \cup {Erased, Torn}]
  /\ log \in [store : Images, next : 0..SlotCount, count : {0, SlotCount}]
  /\ valid \in BOOLEAN
  /\ phase \in {"off", "erasing", "rewriting", "idle", "writing", "verifying"}
  /\ image \in Images \cup {Nothing}
  /\ reply \in {"none", "ok", "failed"}

\* What a boot would find; compaction holds it in RAM for a moment.
Durable ==
  IF phase = "rewriting" THEN image
  ELSE IF Records = 0 THEN Empty ELSE slots[Records - 1]

Mode ==
  CASE phase = "off" -> "off"
    [] phase \in {"erasing", "rewriting"} -> "compacting"
    [] phase \in {"idle", "writing", "verifying"} ->
         IF valid THEN "open" ELSE "closed"

Storage == INSTANCE DurableStore
  WITH durable <- Durable,
       mode <- Mode,
       request <- IF phase \in {"writing", "verifying"} THEN image ELSE Nothing,
       applied <- phase = "verifying"

\* The log implements durable storage: confirmed writes survive a power loss,
\* refused ones have no effect and interrupted ones are all or nothing, over
\* any number of failed programs, torn slots, reboots and compactions.  Only a
\* compaction that is cut short or fails may change what is stored.
DurableSpec == Storage!Spec

\* The parameters the ECU works with are the ones it would find after a reboot,
\* unless the storage refused to work at boot.
StoreIsDurable ==
  valid /\ phase = "idle" => log.store = Durable

CanWrite == HasRoom /\ slots[log.next] = Erased

Booting == phase \in {"off", "erasing", "rewriting"}

\* A boot leaves an erased slot to write to, whether the sector was full or
\* ended in a torn record (the compaction of ParamLog_Load), or else the storage
\* is invalid and refuses every write: none goes to a slot that is in use, not
\* even after compactions that failed half way.
BootLeavesRoom ==
  [][Booting /\ phase' = "idle" => IF valid' THEN CanWrite' ELSE ~HasRoom']_vars
===============================================================================
