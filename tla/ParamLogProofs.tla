---------------------------- MODULE ParamLogProofs ----------------------------
(***************************************************************************)
(* The parameter log implements durable storage, for every number of       *)
(* slots, every set of DIDs and every set of values.                       *)
(***************************************************************************)
EXTENDS ParamLog, Integers, WellFoundedInduction, TLAPS

-------------------------------------------------------------------------------
\* The scan of ParamLog_Load: where it ends exists and is unique.

\* Every non-empty set of naturals has a least element.
LEMMA LeastElement ==
  ASSUME NEW T \in SUBSET Nat, T # {}
  PROVE  \E x \in T : \A y \in T : x <= y
<1> DEFINE R == OpToRel(<, Nat)
<1>1. IsWellFoundedOn(R, Nat)
  BY NatLessThanWellFounded, Zenon
<1>2. \A x, y \in Nat : <<y, x>> \notin R => ~(y < x)
  BY Zenon DEF OpToRel
<1>3. \A x, y \in Nat : ~(y < x) => x <= y
  OBVIOUS
<1> HIDE DEF R
<1>4. \E x \in T : \A y \in T : ~ (<<y, x>> \in R)
  BY <1>1, WFMin, Zenon
<1> QED BY <1>2, <1>3, <1>4, Zenon

ScanEnds(s, n) ==
  /\ n \in 0..SlotCount
  /\ \A i \in 0..(n - 1) : s[i] \in Images
  /\ n \in Slots => s[n] \notin Images

\* Every sector has a slot, or its end, at which the scan stops.
LEMMA RecordsExist ==
  ASSUME NEW s
  PROVE  ScanEnds(s, RecordsIn(s))
<1> DEFINE Ends == {n \in 0..SlotCount : n \in Slots => s[n] \notin Images}
<1>1. Ends \in SUBSET Nat /\ Ends # {}
  <2>1. SlotCount \in Ends
    BY ParamLogAssumption DEF Slots
  <2> QED BY <2>1, ParamLogAssumption
<1>2. PICK n \in Ends : \A m \in Ends : n <= m
  BY <1>1, LeastElement
<1>3. ASSUME NEW i \in 0..(n - 1)
      PROVE  s[i] \in Images
  <2>1. i \in Slots /\ i \in 0..SlotCount /\ ~(n <= i)
    BY <1>2, ParamLogAssumption DEF Slots
  <2>2. i \notin Ends
    BY <1>2, <2>1
  <2> QED BY <2>1, <2>2
<1>4. ScanEnds(s, n)
  BY <1>2, <1>3 DEF ScanEnds
<1> QED BY <1>4 DEF ScanEnds, RecordsIn

\* The scan stops at one place only.
LEMMA RecordsAre ==
  ASSUME NEW s, NEW n, ScanEnds(s, n)
  PROVE  RecordsIn(s) = n
<1> DEFINE m == RecordsIn(s)
<1>1. ScanEnds(s, m)
  BY RecordsExist
<1> HIDE DEF m
<1>2. n \in Nat /\ m \in Nat /\ n <= SlotCount /\ m <= SlotCount
  BY <1>1, ParamLogAssumption DEF ScanEnds
<1>3. ~(n < m)
  BY <1>1, <1>2, ParamLogAssumption DEF ScanEnds, Slots
<1>4. ~(m < n)
  BY <1>1, <1>2, ParamLogAssumption DEF ScanEnds, Slots
<1> QED BY <1>2, <1>3, <1>4 DEF m

-------------------------------------------------------------------------------
\* The inductive invariant.

\* No image lies behind an erased slot, so a scan that ends at an erased slot
\* has found the latest record.
NothingBehindErased ==
  \A i, j \in Slots : i < j /\ slots[i] = Erased => slots[j] \notin Images

\* While ParamLog_Load compacts, log.store is what it found.
CompactionHoldsLatest ==
  /\ phase = "erasing" =>
       /\ log.store = LatestRecord(Records)
       /\ log.next = Records
       /\ log.count = SlotCount
  /\ phase = "rewriting" =>
       /\ \A i \in Slots : slots[i] = Erased
       /\ image \in Images
       /\ log.store = image
       /\ log.count = SlotCount

\* An open log ends where log.next says, except for the image being verified.
LogEndsAtNext ==
  /\ phase \in {"idle", "writing"} /\ valid =>
       /\ ScanEnds(slots, log.next)
       /\ log.store = LatestRecord(log.next)
  /\ phase \in {"writing", "verifying"} =>
       /\ valid
       /\ image \in Images
       /\ log.next \in Slots
  /\ phase = "verifying" =>
       /\ ScanEnds(slots, log.next + 1)
       /\ slots[log.next] = image
  /\ phase \in {"idle", "writing", "verifying"} /\ valid =>
       /\ \A i \in Slots : i > log.next => slots[i] \notin Images
       /\ log.count = SlotCount

\* Before the log is open it refuses requests and none is in progress.
ClosedLogIsIdle ==
  /\ phase \in {"off", "erasing", "rewriting"} => ~valid /\ reply = "none"
  /\ phase = "idle" /\ ~valid => log.next = log.count
  /\ phase \in {"off", "erasing", "idle"} => image = Nothing

IInv ==
  /\ TypeOK
  /\ NothingBehindErased
  /\ CompactionHoldsLatest
  /\ LogEndsAtNext
  /\ ClosedLogIsIdle

\* The contents of a slot that is not an image are none, the default is one.
LEMMA ImageFacts ==
  /\ Erased \notin Images /\ Torn \notin Images /\ Nothing \notin Images
  /\ Erased # Torn
  /\ Empty \in Images
BY ParamLogAssumption DEF Images, Empty

\* ParamLog_Set changes one parameter of an image.
LEMMA SetImage ==
  ASSUME NEW i \in Images, NEW d \in Dids, NEW v \in Values
  PROVE  [i EXCEPT ![d] = v] \in Images
BY DEF Images

\* What the scan finds is an image, and nothing after an erase.
LEMMA LatestIsImage ==
  ASSUME TypeOK
  PROVE  LatestRecord(Records) \in Images
<1>1. ScanEnds(slots, Records)
  BY RecordsExist DEF Records
<1> QED BY <1>1, ImageFacts, ParamLogAssumption DEF ScanEnds, LatestRecord, Slots

\* The scan of an erased sector stops at once.
LEMMA ErasedEndsAtZero ==
  ASSUME NEW s, \A i \in Slots : s[i] \in {Erased, Torn}
  PROVE  ScanEnds(s, 0)
BY ImageFacts, ParamLogAssumption DEF ScanEnds, Slots

Logs == [store : Images, next : 0..SlotCount, count : {0, SlotCount}]

\* ParamLog_Init leaves a well-typed log.
LEMMA BlankLogType == BlankLog \in Logs
<1>1. 0 \in 0..SlotCount
  BY ParamLogAssumption
<1> QED BY <1>1, ImageFacts DEF BlankLog, Logs

\* A node that was never powered satisfies the invariant.
LEMMA InitIInv == Init => IInv
<1> SUFFICES ASSUME Init PROVE IInv
  OBVIOUS
<1> USE DEF Init
<1>1. TypeOK
  BY BlankLogType DEF TypeOK, Logs
<1>2. NothingBehindErased
  BY ImageFacts DEF NothingBehindErased
<1>3. CompactionHoldsLatest /\ LogEndsAtNext
  BY DEF CompactionHoldsLatest, LogEndsAtNext
<1>4. ClosedLogIsIdle
  BY DEF ClosedLogIsIdle
<1> QED BY <1>1, <1>2, <1>3, <1>4 DEF IInv

\* An erase that is interrupted neither makes an image nor uncovers one.
LEMMA PartlyErasedKeeps ==
  ASSUME TypeOK, NothingBehindErased, slots' \in PartlyErased(slots)
  PROVE  /\ slots' \in [Slots -> Images \cup {Erased, Torn}]
         /\ NothingBehindErased'
<1>1. CASE slots' \in [Slots -> {Erased, Torn}]
  BY <1>1, ImageFacts DEF NothingBehindErased
<1>2. CASE /\ slots' \in [Slots -> Images \cup {Erased, Torn}]
           /\ \A i \in Slots : slots'[i] \in {slots[i], Torn}
  BY <1>2, ImageFacts DEF NothingBehindErased
<1> QED BY <1>1, <1>2 DEF PartlyErased

\* A log that gave up, or a node without power, only has flash to speak of.
LEMMA BlankKeeps ==
  ASSUME /\ slots' \in [Slots -> Images \cup {Erased, Torn}]
         /\ NothingBehindErased'
         /\ log' = BlankLog /\ valid' = FALSE /\ image' = Nothing
         /\ phase' \in {"off", "idle"}
         /\ reply' \in {"none", "ok", "failed"}
         /\ phase' = "off" => reply' = "none"
  PROVE  IInv'
<1>1. TypeOK'
  BY BlankLogType DEF TypeOK, Logs
<1>2. CompactionHoldsLatest' /\ LogEndsAtNext'
  BY DEF CompactionHoldsLatest, LogEndsAtNext
<1>3. ClosedLogIsIdle'
  BY DEF ClosedLogIsIdle, BlankLog
<1> QED BY <1>1, <1>2, <1>3 DEF IInv

\* The scan either opens the log at its end or leaves it to be compacted.
LEMMA ScanKeeps == IInv /\ Scan => IInv'
<1> SUFFICES ASSUME IInv, Scan PROVE IInv'
  OBVIOUS
<1> USE DEF IInv
<1>1. ScanEnds(slots, Records)
  BY RecordsExist DEF Records
<1>2. Records' = Records
  BY DEF Scan, Records
<1>3. /\ log'.store = LatestRecord(Records)
      /\ log'.next = Records
      /\ log'.count = SlotCount
      /\ log' \in Logs
  <2>1. Records \in 0..SlotCount
    BY <1>1 DEF ScanEnds
  <2> QED BY <2>1, LatestIsImage DEF Scan, Logs
<1>4. CASE EndOfLog(Records) /\ phase' = "idle" /\ valid' = TRUE
  <2>1. TypeOK'
    BY <1>3, <1>4, Zenon DEF Scan, TypeOK, Logs
  <2>2. NothingBehindErased' /\ CompactionHoldsLatest'
    BY <1>4 DEF Scan, NothingBehindErased, CompactionHoldsLatest
  <2>3. \A i \in Slots : i > Records => slots[i] \notin Images
    BY <1>4 DEF NothingBehindErased, EndOfLog, Slots
  <2>4. LogEndsAtNext'
    BY <1>1, <1>3, <1>4, <2>3 DEF Scan, LogEndsAtNext, LatestRecord
  <2>5. ClosedLogIsIdle'
    BY <1>4 DEF Scan, ClosedLogIsIdle
  <2> QED BY <2>1, <2>2, <2>4, <2>5
<1>5. CASE ~EndOfLog(Records) /\ phase' = "erasing" /\ UNCHANGED valid
  <2>1. TypeOK'
    BY <1>3, <1>5, Zenon DEF Scan, TypeOK, Logs
  <2>2. NothingBehindErased' /\ LogEndsAtNext'
    BY <1>5 DEF Scan, NothingBehindErased, LogEndsAtNext
  <2>3. CompactionHoldsLatest'
    BY <1>2, <1>3, <1>5 DEF CompactionHoldsLatest, LatestRecord, Scan
  <2>4. ClosedLogIsIdle'
    BY <1>5 DEF Scan, ClosedLogIsIdle
  <2> QED BY <2>1, <2>2, <2>3, <2>4
<1> QED BY <1>4, <1>5 DEF Scan

\* The erase keeps the latest record in RAM, or there was none.
LEMMA EraseKeeps == IInv /\ EraseSector => IInv'
<1> SUFFICES ASSUME IInv, EraseSector PROVE IInv'
  OBVIOUS
<1> USE DEF IInv
<1>1. phase = "erasing" /\ reply' = reply
  BY DEF EraseSector
<1>2. /\ log.store = LatestRecord(Records) /\ log.next = Records
      /\ log.count = SlotCount /\ log \in Logs
      /\ ~valid /\ reply = "none" /\ image = Nothing
  BY <1>1 DEF CompactionHoldsLatest, ClosedLogIsIdle, TypeOK, Logs
<1>3. CASE slots' = [i \in Slots |-> Erased]
  <2>1. /\ slots' \in [Slots -> Images \cup {Erased, Torn}]
        /\ \A i \in Slots : slots'[i] = Erased
        /\ NothingBehindErased'
    BY <1>3, ImageFacts DEF NothingBehindErased
  <2>2. ASSUME /\ LatestValid(log) /\ phase' = "rewriting" /\ image' = log.store
               /\ UNCHANGED <<log, valid>>
        PROVE  IInv'
    <3>1. TypeOK'
      BY <1>1, <1>2, <2>1, <2>2 DEF TypeOK, Logs
    <3>2. CompactionHoldsLatest' /\ LogEndsAtNext'
      BY <1>2, <2>1, <2>2 DEF CompactionHoldsLatest, LogEndsAtNext, Logs
    <3>3. ClosedLogIsIdle'
      BY <1>1, <1>2, <2>2 DEF ClosedLogIsIdle
    <3> QED BY <2>1, <3>1, <3>2, <3>3
  <2>3. ASSUME /\ ~LatestValid(log) /\ phase' = "idle"
               /\ log' = [log EXCEPT !.next = 0]
               /\ valid' = TRUE /\ UNCHANGED image
        PROVE  IInv'
    <3>1. Records = 0
      BY <1>2, <2>3, ParamLogAssumption DEF LatestValid, Logs
    <3>2. /\ log' \in Logs /\ log'.next = 0 /\ log'.count = SlotCount
          /\ log'.store = Empty
      BY <1>2, <2>3, <3>1, ParamLogAssumption DEF LatestRecord, Logs
    <3>3. ScanEnds(slots', 0)
      BY <2>1, ErasedEndsAtZero
    <3>4. TypeOK'
      BY <1>1, <1>2, <2>1, <2>3, <3>2, Zenon DEF TypeOK, Logs
    <3>5. CompactionHoldsLatest'
      BY <2>3 DEF CompactionHoldsLatest
    <3>6. LogEndsAtNext'
      BY <2>1, <2>3, <3>2, <3>3, ImageFacts DEF LogEndsAtNext, LatestRecord
    <3>7. ClosedLogIsIdle'
      BY <1>2, <2>3 DEF ClosedLogIsIdle
    <3> QED BY <2>1, <3>4, <3>5, <3>6, <3>7
  <2>4. CASE GiveUp
    BY <1>1, <1>2, <2>1, <2>4, BlankKeeps DEF GiveUp
  <2> QED
    BY <1>1, <1>3, <2>2, <2>3, <2>4 DEF EraseSector
<1>4. CASE slots' \in PartlyErased(slots) /\ GiveUp
  BY <1>1, <1>2, <1>4, PartlyErasedKeeps, BlankKeeps DEF GiveUp
<1> QED BY <1>3, <1>4 DEF EraseSector

\* The rewrite opens a log of one record.
LEMMA RewriteKeeps == IInv /\ RewriteLatest => IInv'
<1> SUFFICES ASSUME IInv, RewriteLatest PROVE IInv'
  OBVIOUS
<1> USE DEF IInv
<1>1. /\ phase = "rewriting" /\ reply' = reply
      /\ 0 \in Slots /\ 1 \in Slots
  BY ParamLogAssumption DEF RewriteLatest, Slots
<1>2. /\ \A i \in Slots : slots[i] = Erased
      /\ image \in Images /\ log.store = image /\ log.count = SlotCount
      /\ log \in Logs /\ ~valid /\ reply = "none"
  BY <1>1 DEF CompactionHoldsLatest, ClosedLogIsIdle, TypeOK, Logs
<1>3. ASSUME /\ slots' = [slots EXCEPT ![0] = image]
             /\ log' = [log EXCEPT !.next = 1]
             /\ valid' = TRUE /\ phase' = "idle" /\ image' = Nothing
      PROVE  IInv'
  <2>1. /\ slots' \in [Slots -> Images \cup {Erased, Torn}]
        /\ slots'[0] = image
        /\ \A i \in Slots : i # 0 => slots'[i] = Erased
    BY <1>1, <1>2, <1>3 DEF TypeOK
  <2>2. NothingBehindErased'
    BY <1>2, <2>1, ImageFacts DEF NothingBehindErased, Slots
  <2>3. /\ log' \in Logs /\ log'.next = 1 /\ log'.count = SlotCount
        /\ log'.store = image
    BY <1>2, <1>3, ParamLogAssumption DEF Logs
  <2>4. ScanEnds(slots', 1)
    BY <1>2, <2>1, ImageFacts, ParamLogAssumption DEF ScanEnds, Slots
  <2>5. TypeOK'
    BY <1>1, <1>2, <1>3, <2>1, <2>3, Zenon DEF TypeOK, Logs
  <2>6. CompactionHoldsLatest'
    BY <1>3 DEF CompactionHoldsLatest
  <2>7. \A i \in Slots : i > 1 => slots'[i] \notin Images
    BY <2>1, ImageFacts DEF Slots
  <2>8. LogEndsAtNext'
    BY <1>3, <2>1, <2>3, <2>4, <2>7 DEF LogEndsAtNext, LatestRecord
  <2>9. ClosedLogIsIdle'
    BY <1>3 DEF ClosedLogIsIdle
  <2> QED BY <2>2, <2>5, <2>6, <2>8, <2>9
<1>4. ASSUME NEW left \in {Erased, Torn},
             slots' = [slots EXCEPT ![0] = left], GiveUp
      PROVE  IInv'
  <2>1. slots' \in [Slots -> Images \cup {Erased, Torn}]
    BY <1>4 DEF TypeOK
  <2>2. NothingBehindErased'
    BY <1>1, <1>2, <1>4, ImageFacts DEF NothingBehindErased, TypeOK
  <2> QED BY <1>1, <1>2, <1>4, <2>1, <2>2, BlankKeeps DEF GiveUp
<1> QED BY <1>3, <1>4 DEF RewriteLatest

\* A call of ParamLog_Set or ParamLog_Clear starts an image or is refused.
LEMMA AppendKeeps ==
  ASSUME IInv, NEW i \in Images, Append(i)
  PROVE  IInv'
<1> USE DEF IInv
<1>1. phase = "idle" /\ UNCHANGED <<slots, log, valid>>
  BY DEF Append
<1>2. CASE HasRoom /\ phase' = "writing" /\ image' = i /\ reply' = "none"
  <2>1. valid /\ log.next \in Slots
    <3>1. log.next \in 0..SlotCount /\ log.count \in {0, SlotCount}
      BY DEF TypeOK
    <3>2. valid
      BY <1>1, <1>2, <3>1, ParamLogAssumption DEF HasRoom, ClosedLogIsIdle
    <3>3. log.count = SlotCount
      BY <1>1, <3>2 DEF LogEndsAtNext
    <3> QED BY <1>2, <3>1, <3>2, <3>3, ParamLogAssumption DEF HasRoom, Slots
  <2>2. TypeOK'
    BY <1>1, <1>2 DEF TypeOK
  <2>3. NothingBehindErased' /\ CompactionHoldsLatest'
    BY <1>1, <1>2 DEF NothingBehindErased, CompactionHoldsLatest
  <2>4. LogEndsAtNext'
    BY <1>1, <1>2, <2>1 DEF LogEndsAtNext, LatestRecord
  <2>5. ClosedLogIsIdle'
    BY <1>1, <1>2 DEF ClosedLogIsIdle
  <2> QED BY <2>2, <2>3, <2>4, <2>5
<1>3. CASE ~HasRoom /\ reply' = "failed" /\ UNCHANGED <<phase, image>>
  <2>1. TypeOK'
    BY <1>1, <1>3 DEF TypeOK
  <2>2. NothingBehindErased' /\ CompactionHoldsLatest'
    BY <1>1, <1>3 DEF NothingBehindErased, CompactionHoldsLatest
  <2>3. LogEndsAtNext'
    BY <1>1, <1>3 DEF LogEndsAtNext, LatestRecord
  <2>4. ClosedLogIsIdle'
    BY <1>1, <1>3 DEF ClosedLogIsIdle
  <2> QED BY <2>1, <2>2, <2>3, <2>4
<1> QED BY <1>2, <1>3 DEF Append

\* While an image is written or verified: where it goes and what lies around.
LEMMA WritingFacts ==
  ASSUME IInv, phase \in {"writing", "verifying"}
  PROVE  /\ valid /\ image \in Images /\ log \in Logs /\ log.count = SlotCount
         /\ log.next \in Slots /\ log.next \in Nat
         /\ log.next + 1 \in 0..SlotCount
         /\ \A i \in Slots : i > log.next => slots[i] \notin Images
BY ParamLogAssumption DEF IInv, LogEndsAtNext, TypeOK, Slots, Logs

\* Whatever a write leaves in the slot at next, no image is uncovered behind it.
LEMMA WriteKeepsOrder ==
  ASSUME IInv, phase = "writing",
         NEW c \in Images \cup {Erased, Torn},
         slots' = [slots EXCEPT ![log.next] = c]
  PROVE  /\ slots' \in [Slots -> Images \cup {Erased, Torn}]
         /\ NothingBehindErased'
         /\ slots'[log.next] = c
         /\ \A i \in Slots : i # log.next => slots'[i] = slots[i]
         /\ \A i \in 0..(log.next - 1) : slots'[i] \in Images
         /\ \A i \in Slots : i > log.next => slots'[i] \notin Images
<1> USE DEF IInv
<1>1. /\ log.next \in Slots /\ log.next \in Nat
      /\ \A i \in Slots : i > log.next => slots[i] \notin Images
  BY WritingFacts
<1>2. \A i \in 0..(log.next - 1) : i \in Slots /\ slots[i] \in Images
  BY <1>1, WritingFacts, ParamLogAssumption DEF LogEndsAtNext, ScanEnds, Slots
<1>3. /\ slots' \in [Slots -> Images \cup {Erased, Torn}]
      /\ slots'[log.next] = c
      /\ \A i \in Slots : i # log.next => slots'[i] = slots[i]
  BY <1>1 DEF TypeOK
<1>4. \A i \in Slots : i < log.next => i \in 0..(log.next - 1)
  BY <1>1, ParamLogAssumption DEF Slots
<1>5. \A i \in 0..(log.next - 1) : slots'[i] \in Images
  BY <1>1, <1>2, <1>3
<1>6. \A i \in Slots : i > log.next => slots'[i] \notin Images
  BY <1>1, <1>3 DEF Slots
<1>7. NothingBehindErased'
  <2> SUFFICES ASSUME NEW i \in Slots, NEW j \in Slots, i < j,
                      slots'[i] = Erased
               PROVE  slots'[j] \notin Images
    BY DEF NothingBehindErased
  <2>1. ~(i < log.next)
    BY <1>4, <1>5, ImageFacts
  <2>2. j > log.next
    BY <1>1, <2>1, ParamLogAssumption DEF Slots
  <2> QED BY <1>6, <2>2
<1> QED BY <1>3, <1>5, <1>6, <1>7

\* The write at next succeeds, or leaves a slot that does not decode.
LEMMA ProgramKeeps == IInv /\ ProgramSlot => IInv'
<1> SUFFICES ASSUME IInv, ProgramSlot PROVE IInv'
  OBVIOUS
<1>1. phase = "writing" /\ UNCHANGED <<log, valid>>
  BY DEF ProgramSlot
<1>2. /\ valid /\ image \in Images /\ log \in Logs /\ log.count = SlotCount
      /\ log.next \in Slots /\ log.next \in Nat
      /\ log.next + 1 \in 0..SlotCount
      /\ \A i \in Slots : i > log.next => slots[i] \notin Images
  BY <1>1, WritingFacts
<1>3. ASSUME /\ slots' = [slots EXCEPT ![log.next] = image]
             /\ phase' = "verifying" /\ UNCHANGED <<image, reply>>
      PROVE  IInv'
  <2>1. /\ slots' \in [Slots -> Images \cup {Erased, Torn}]
        /\ NothingBehindErased'
        /\ slots'[log.next] = image
        /\ \A i \in 0..(log.next - 1) : slots'[i] \in Images
        /\ \A i \in Slots : i > log.next => slots'[i] \notin Images
    BY <1>1, <1>2, <1>3, WriteKeepsOrder
  <2>2. ScanEnds(slots', log.next + 1)
    <3>1. \A i \in 0..log.next : slots'[i] \in Images
      BY <1>2, <2>1
    <3> QED BY <1>2, <2>1, <3>1 DEF ScanEnds
  <2>3. TypeOK'
    BY <1>1, <1>2, <1>3, <2>1 DEF TypeOK, IInv
  <2>4. CompactionHoldsLatest' /\ ClosedLogIsIdle'
    BY <1>3 DEF CompactionHoldsLatest, ClosedLogIsIdle
  <2>5. LogEndsAtNext'
    BY <1>1, <1>2, <1>3, <2>1, <2>2 DEF LogEndsAtNext
  <2> QED BY <2>1, <2>3, <2>4, <2>5 DEF IInv
<1>4. ASSUME NEW c \in {Erased, Torn, slots[log.next]},
             c \notin Images,
             slots' = [slots EXCEPT ![log.next] = c],
             phase' = "idle", image' = Nothing, reply' = "failed"
      PROVE  IInv'
  <2>1. /\ slots' \in [Slots -> Images \cup {Erased, Torn}]
        /\ NothingBehindErased'
        /\ slots'[log.next] = c
        /\ \A i \in Slots : i # log.next => slots'[i] = slots[i]
        /\ \A i \in 0..(log.next - 1) : slots'[i] \in Images
        /\ \A i \in Slots : i > log.next => slots'[i] \notin Images
    <3>1. c \in Images \cup {Erased, Torn}
      BY <1>2, <1>4 DEF IInv, TypeOK
    <3> QED BY <1>1, <1>4, <3>1, WriteKeepsOrder
  <2>2. ScanEnds(slots', log.next)
    BY <1>2, <1>4, <2>1, ParamLogAssumption DEF ScanEnds, Slots
  <2>3. log.store = LatestRecord(log.next) /\ log.store = LatestRecord(log.next)'
    <3>1. log.next # 0 => log.next - 1 \in Slots /\ log.next - 1 # log.next
      BY <1>2, ParamLogAssumption DEF Slots
    <3> QED BY <1>1, <1>2, <2>1, <3>1 DEF IInv, LogEndsAtNext, LatestRecord
  <2>4. TypeOK'
    BY <1>1, <1>4, <2>1 DEF TypeOK, IInv
  <2>5. CompactionHoldsLatest' /\ ClosedLogIsIdle'
    BY <1>1, <1>2, <1>4 DEF CompactionHoldsLatest, ClosedLogIsIdle
  <2>6. LogEndsAtNext'
    <3>1. log'.store = (IF log'.next = 0 THEN Empty ELSE slots'[log'.next - 1])
      BY <1>1, <2>3 DEF LatestRecord
    <3> QED BY <1>1, <1>2, <1>4, <2>1, <2>2, <3>1 DEF LogEndsAtNext, LatestRecord
  <2> QED BY <2>1, <2>4, <2>5, <2>6 DEF IInv
<1>5. slots[log.next] \notin Images
  BY <1>1, <1>2 DEF IInv, LogEndsAtNext, ScanEnds
<1>6. slots = [slots EXCEPT ![log.next] = slots[log.next]]
  BY <1>2 DEF IInv, TypeOK
<1> QED
  BY <1>3, <1>4, <1>5, <1>6, ImageFacts DEF ProgramSlot

\* ParamLog_Set moves next past the image it has verified.
LEMMA VerifiedKeeps == IInv /\ Verified => IInv'
<1> SUFFICES ASSUME IInv, Verified PROVE IInv'
  OBVIOUS
<1>1. phase = "verifying" /\ phase' = "idle" /\ UNCHANGED <<slots, valid>>
  BY DEF Verified
<1>2. /\ valid /\ image \in Images /\ log \in Logs /\ log.count = SlotCount
      /\ log.next \in Slots /\ log.next \in Nat
      /\ log.next + 1 \in 0..SlotCount
      /\ \A i \in Slots : i > log.next => slots[i] \notin Images
  BY <1>1, WritingFacts
<1>3. /\ log' \in Logs /\ log'.store = image /\ log'.next = log.next + 1
      /\ log'.count = SlotCount
  BY <1>2 DEF Verified, NextSlot, Logs
<1>4. TypeOK'
  BY <1>1, <1>3 DEF IInv, TypeOK, Logs, Verified
<1>5. NothingBehindErased' /\ CompactionHoldsLatest' /\ ClosedLogIsIdle'
  BY <1>1, <1>2 DEF IInv, NothingBehindErased, CompactionHoldsLatest,
                    ClosedLogIsIdle, Verified
<1>6. LogEndsAtNext'
  <2>1. ScanEnds(slots, log.next + 1) /\ slots[log.next] = image
    BY <1>1 DEF IInv, LogEndsAtNext
  <2>2. /\ log.next + 1 # 0
        /\ log.next + 1 - 1 = log.next
        /\ \A i \in Slots : i > log.next + 1 => i > log.next
    BY <1>2 DEF Slots
  <2>3. log'.store = (IF log'.next = 0 THEN Empty ELSE slots'[log'.next - 1])
    <3>1. log'.next # 0 /\ log'.next - 1 = log.next
      BY <1>2, <1>3
    <3>2. slots'[log'.next - 1] = image
      BY <1>1, <2>1, <3>1
    <3> QED BY <1>3, <3>1, <3>2
  <2>4. ScanEnds(slots', log'.next)
    BY <1>1, <1>3, <2>1
  <2>5. \A i \in Slots : i > log'.next => slots'[i] \notin Images
    BY <1>1, <1>2, <1>3, <2>2
  <2> QED BY <1>1, <1>2, <1>3, <2>3, <2>4, <2>5 DEF LogEndsAtNext, LatestRecord
<1> QED BY <1>4, <1>5, <1>6 DEF IInv

\* Without power only the sector matters, whatever was going on.
LEMMA PowerLossKeeps == IInv /\ PowerLoss => IInv'
<1> SUFFICES ASSUME IInv, PowerLoss PROVE IInv'
  OBVIOUS
<1>1. /\ log' = BlankLog /\ valid' = FALSE /\ phase' = "off"
      /\ image' = Nothing /\ reply' = "none"
  BY DEF PowerLoss
<1>2. /\ slots' \in [Slots -> Images \cup {Erased, Torn}]
      /\ NothingBehindErased'
  <2>1. CASE UNCHANGED slots
    BY <2>1 DEF IInv, TypeOK, NothingBehindErased
  <2>2. CASE phase = "writing" /\ slots' = [slots EXCEPT ![log.next] = Torn]
    BY <2>2, WriteKeepsOrder
  <2>3. CASE slots' \in PartlyErased(slots)
    BY <2>3, PartlyErasedKeeps DEF IInv
  <2>4. ASSUME phase = "rewriting", NEW left \in {Erased, Torn},
               slots' = [slots EXCEPT ![0] = left]
        PROVE  /\ slots' \in [Slots -> Images \cup {Erased, Torn}]
               /\ NothingBehindErased'
    <3>1. /\ \A i \in Slots : slots[i] = Erased
          /\ slots \in [Slots -> Images \cup {Erased, Torn}]
      BY <2>4 DEF IInv, CompactionHoldsLatest, TypeOK
    <3> QED BY <2>4, <3>1, ImageFacts DEF NothingBehindErased
  <2> QED BY <2>1, <2>2, <2>3, <2>4 DEF PowerLoss
<1> QED BY <1>1, <1>2, BlankKeeps

\* The images that a call may start.
LEMMA StartedImages ==
  ASSUME IInv
  PROVE  /\ Empty \in Images
         /\ \A d \in Dids, v \in Values : [log.store EXCEPT ![d] = v] \in Images
BY ImageFacts, SetImage DEF IInv, TypeOK

\* Every step keeps the invariant.
LEMMA NextIInv == IInv /\ [Next]_vars => IInv'
<1> SUFFICES ASSUME IInv, [Next]_vars PROVE IInv'
  OBVIOUS
<1>1. CASE Load
  BY <1>1, ScanKeeps, EraseKeeps, RewriteKeeps DEF Load
<1>2. ASSUME NEW d \in Dids, NEW v \in Values, Set(d, v) PROVE IInv'
  BY <1>2, StartedImages, AppendKeeps DEF Set
<1>3. CASE Clear
  BY <1>3, StartedImages, AppendKeeps DEF Clear
<1>4. CASE ProgramSlot
  BY <1>4, ProgramKeeps
<1>5. CASE Verified
  BY <1>5, VerifiedKeeps
<1>6. CASE PowerLoss
  BY <1>6, PowerLossKeeps
<1>7. CASE UNCHANGED vars
  <2>1. UNCHANGED <<slots, log, valid, phase, image, reply>>
    BY <1>7 DEF vars
  <2>2. TypeOK' /\ NothingBehindErased'
    BY <2>1 DEF IInv, TypeOK, NothingBehindErased
  <2>3. CompactionHoldsLatest'
    BY <2>1 DEF IInv, CompactionHoldsLatest, LatestRecord, Records
  <2>4. LogEndsAtNext'
    BY <2>1 DEF IInv, LogEndsAtNext, LatestRecord
  <2>5. ClosedLogIsIdle'
    BY <2>1 DEF IInv, ClosedLogIsIdle
  <2> QED BY <2>2, <2>3, <2>4, <2>5 DEF IInv
<1> QED
  BY <1>1, <1>2, <1>3, <1>4, <1>5, <1>6, <1>7 DEF Next

\* The invariant holds throughout.
LEMMA InvariantHolds == Spec => []IInv
BY InitIInv, NextIInv, PTL DEF Spec

\* The sector, the log and the call in progress keep their types.
THEOREM TypeCorrect == Spec => []TypeOK
<1>1. IInv => TypeOK
  BY DEF IInv
<1> QED BY <1>1, InvariantHolds, PTL

-------------------------------------------------------------------------------
\* The parameters an open log works with are those a boot would find.

\* What the log holds in RAM is the last record of the sector.
LEMMA OpenLogIsDurable ==
  ASSUME IInv, valid, phase \in {"idle", "writing"}
  PROVE  log.store = Durable /\ Records = log.next
<1>1. ScanEnds(slots, log.next) /\ log.store = LatestRecord(log.next)
  BY DEF IInv, LogEndsAtNext
<1>2. Records = log.next
  BY <1>1, RecordsAre DEF Records
<1> QED BY <1>1, <1>2 DEF Durable, LatestRecord

\* ParamLog_Set, ParamLog_Clear and ParamLog_Load never leave in RAM what a
\* reboot would not find in flash.
THEOREM RamMatchesFlash == Spec => []StoreIsDurable
<1>1. IInv => StoreIsDurable
  BY OpenLogIsDurable DEF StoreIsDurable
<1> QED BY <1>1, InvariantHolds, PTL

\* ParamLog_Load leaves room for a write, or a log that refuses writes.
THEOREM BootMakesRoom == Spec => BootLeavesRoom
<1>1. IInv /\ [Next]_vars
        => [Booting /\ phase' = "idle" => IF valid' THEN CanWrite' ELSE ~HasRoom']_vars
  <2> SUFFICES ASSUME IInv, Next, Booting, phase' = "idle"
               PROVE  IF valid' THEN CanWrite' ELSE ~HasRoom'
    OBVIOUS
  <2>1. Scan \/ EraseSector \/ RewriteLatest
    BY DEF Next, Load, Booting, Set, Clear, Append, ProgramSlot, Verified, PowerLoss
  <2>2. CASE GiveUp
    BY <2>2, ParamLogAssumption DEF GiveUp, HasRoom, BlankLog
  <2>3. CASE Scan /\ EndOfLog(Records)
    <3>1. /\ log'.next = Records /\ log'.count = SlotCount /\ slots' = slots
          /\ valid' = TRUE
      BY <2>3 DEF Scan
    <3> QED BY <2>3, <3>1, ParamLogAssumption
            DEF EndOfLog, CanWrite, HasRoom, Slots
  <2>4. CASE EraseSector /\ ~GiveUp
    <3>1. log.count = SlotCount /\ log \in Logs
      BY <2>4 DEF EraseSector, IInv, CompactionHoldsLatest, TypeOK, Logs
    <3>2. /\ slots' = [i \in Slots |-> Erased]
          /\ log' = [log EXCEPT !.next = 0] /\ valid' = TRUE
      BY <2>4 DEF EraseSector
    <3>3. log'.next = 0 /\ log'.count = SlotCount
      BY <3>1, <3>2 DEF Logs
    <3> QED BY <3>2, <3>3, ParamLogAssumption DEF CanWrite, HasRoom, Slots
  <2>5. CASE RewriteLatest /\ ~GiveUp
    <3>1. /\ log.count = SlotCount /\ log \in Logs
          /\ \A i \in Slots : slots[i] = Erased
      BY <2>5 DEF RewriteLatest, IInv, CompactionHoldsLatest, TypeOK, Logs
    <3>2. /\ slots' = [slots EXCEPT ![0] = image]
          /\ log' = [log EXCEPT !.next = 1] /\ valid' = TRUE
      BY <2>5 DEF RewriteLatest
    <3>3. log'.next = 1 /\ log'.count = SlotCount
      BY <3>1, <3>2 DEF Logs
    <3>4. 1 \in Slots /\ slots'[1] = Erased
      BY <3>1, <3>2, ParamLogAssumption DEF Slots, IInv, TypeOK
    <3> QED BY <3>2, <3>3, <3>4, ParamLogAssumption DEF CanWrite, HasRoom
  <2> QED BY <2>1, <2>2, <2>3, <2>4, <2>5 DEF Scan
<1> QED BY <1>1, InvariantHolds, PTL DEF Spec, BootLeavesRoom

-------------------------------------------------------------------------------
\* The refinement of DurableStore.

\* What is durable while it is not being rewritten, and when a scan end is known.
LEMMA DurableAt ==
  ASSUME NEW n, ScanEnds(slots, n), phase # "rewriting"
  PROVE  Durable = IF n = 0 THEN Empty ELSE slots[n - 1]
BY RecordsAre DEF Durable, Records

\* The same after a step.
LEMMA DurableAtPrimed ==
  ASSUME NEW n, ScanEnds(slots', n), phase' # "rewriting"
  PROVE  Durable' = IF n = 0 THEN Empty ELSE slots'[n - 1]
BY RecordsAre DEF Durable, Records

\* The slot before the end of the scan decodes.
LEMMA LastRecordIsImage ==
  ASSUME NEW s, NEW n, ScanEnds(s, n), n # 0
  PROVE  s[n - 1] \in Images
<1>1. n \in Nat /\ n - 1 \in 0..(n - 1)
  BY ParamLogAssumption DEF ScanEnds
<1>2. \A i \in 0..(n - 1) : s[i] \in Images
  BY DEF ScanEnds
<1> QED BY <1>1, <1>2

\* A boot finds an image, whatever the sector looks like.
LEMMA DurableIsImage ==
  ASSUME phase' # "rewriting"
  PROVE  Durable' \in Images
<1>1. ScanEnds(slots', Records')
  BY RecordsExist DEF Records
<1>2. Durable' = IF Records' = 0 THEN Empty ELSE slots'[Records' - 1]
  BY <1>1, DurableAtPrimed
<1>3. Records' # 0 => slots'[Records' - 1] \in Images
  BY <1>1, LastRecordIsImage
<1> QED BY <1>2, <1>3, ImageFacts

\* An erased sector stores the defaults.
LEMMA InitRefines == Init => Storage!Init
<1> SUFFICES ASSUME Init PROVE Storage!Init
  OBVIOUS
<1>1. ScanEnds(slots, 0)
  BY ErasedEndsAtZero DEF Init
<1>2. Durable = Empty
  BY <1>1, DurableAt DEF Init
<1> QED BY <1>2 DEF Init, Storage!Init, Mode

\* The scan is the abstract boot.
LEMMA ScanRefines == IInv /\ Scan => Storage!Boot
<1> SUFFICES ASSUME IInv, Scan PROVE Storage!Boot
  OBVIOUS
<1>1. Durable' = Durable
  BY DEF Scan, Durable, Records
<1>2. Mode = "off" /\ Mode' \in {"open", "compacting"}
  BY DEF Scan, Mode
<1> QED BY <1>1, <1>2 DEF Scan, Storage!Boot

\* An erase that succeeds changes nothing yet, as RAM holds the latest image, or
\* ends the compaction of a sector without one; one that fails may lose it.
LEMMA EraseRefines ==
  IInv /\ EraseSector => \/ Storage!Compacted
                         \/ Storage!CompactionFails
                         \/ UNCHANGED Storage!vars
<1> SUFFICES ASSUME IInv, EraseSector
             PROVE  \/ Storage!Compacted
                    \/ Storage!CompactionFails
                    \/ UNCHANGED Storage!vars
  OBVIOUS
<1>1. phase = "erasing" /\ reply' = reply
  BY DEF EraseSector
<1>2. /\ log.store = LatestRecord(Records) /\ log.next = Records /\ log \in Logs
  BY <1>1 DEF IInv, CompactionHoldsLatest, TypeOK, Logs
<1>3. Durable = log.store
  BY <1>1, <1>2 DEF Durable, LatestRecord
<1>4. CASE GiveUp
  BY <1>1, <1>4, DurableIsImage DEF GiveUp, Mode, Storage!CompactionFails
<1>5. CASE phase' = "rewriting" /\ image' = log.store
  <2>1. Durable' = Durable
    BY <1>3, <1>5 DEF Durable
  <2> QED BY <1>1, <1>5, <2>1 DEF Mode, Storage!vars
<1>6. CASE /\ slots' = [i \in Slots |-> Erased]
           /\ ~LatestValid(log) /\ phase' = "idle" /\ valid' = TRUE
  <2>1. Durable = Empty
    BY <1>2, <1>3, <1>6, ParamLogAssumption DEF LatestValid, LatestRecord, Logs
  <2>2. Durable' = Empty
    BY <1>6, ErasedEndsAtZero, DurableAtPrimed
  <2> QED BY <1>1, <1>6, <2>1, <2>2 DEF Mode, Storage!Compacted
<1> QED BY <1>4, <1>5, <1>6 DEF EraseSector

\* The rewrite ends the compaction, with the image it began with or not.
LEMMA RewriteRefines ==
  IInv /\ RewriteLatest => Storage!Compacted \/ Storage!CompactionFails
<1> SUFFICES ASSUME IInv, RewriteLatest
             PROVE  Storage!Compacted \/ Storage!CompactionFails
  OBVIOUS
<1>1. phase = "rewriting" /\ reply' = reply /\ phase' = "idle"
  BY DEF RewriteLatest, GiveUp
<1>2. CASE GiveUp
  BY <1>1, <1>2, DurableIsImage DEF GiveUp, Mode, Storage!CompactionFails
<1>3. CASE slots' = [slots EXCEPT ![0] = image] /\ valid' = TRUE
  <2>1. /\ \A i \in Slots : slots[i] = Erased
        /\ slots \in [Slots -> Images \cup {Erased, Torn}]
        /\ image \in Images
    BY <1>1 DEF IInv, CompactionHoldsLatest, TypeOK
  <2>2. ScanEnds(slots', 1) /\ slots'[0] = image
    BY <1>3, <2>1, ImageFacts, ParamLogAssumption DEF ScanEnds, Slots
  <2>3. Durable' = image
    BY <1>1, <2>2, DurableAtPrimed
  <2>4. Durable = image
    BY <1>1 DEF Durable
  <2> QED BY <1>1, <1>3, <2>3, <2>4 DEF Mode, Storage!Compacted
<1> QED BY <1>2, <1>3 DEF RewriteLatest

\* A call starts a request or is refused.
LEMMA AppendRefines ==
  ASSUME IInv, NEW i \in Images, Append(i)
  PROVE  Storage!Request(i) \/ Storage!Reject
<1>1. phase = "idle" /\ UNCHANGED <<slots, log, valid>>
  BY DEF Append
<1>2. CASE HasRoom /\ phase' = "writing" /\ image' = i /\ reply' = "none"
  <2>1. valid
    BY <1>1, <1>2, ParamLogAssumption DEF IInv, TypeOK, HasRoom, ClosedLogIsIdle
  <2>2. Durable' = Durable
    BY <1>1, <1>2 DEF Durable, Records
  <2> QED BY <1>1, <1>2, <2>1, <2>2 DEF Mode, Storage!Request
<1>3. CASE ~HasRoom /\ reply' = "failed" /\ UNCHANGED <<phase, image>>
  <2>1. Durable' = Durable
    BY <1>1, <1>3 DEF Durable, Records
  <2> QED BY <1>1, <1>3, <2>1 DEF Mode, Storage!Reject
<1> QED BY <1>2, <1>3 DEF Append

\* Programming the slot at next makes the image durable in one step, and a
\* program that fails or is interrupted leaves what was durable.
LEMMA ProgramRefines == IInv /\ ProgramSlot => Storage!Apply \/ Storage!Refuse
<1> SUFFICES ASSUME IInv, ProgramSlot PROVE Storage!Apply \/ Storage!Refuse
  OBVIOUS
<1>1. /\ phase = "writing" /\ UNCHANGED <<log, valid>>
      /\ valid /\ image \in Images /\ log.next \in Nat /\ log.next + 1 # 0
      /\ phase' \in {"verifying", "idle"}
  BY WritingFacts DEF ProgramSlot
<1>2. IInv'
  BY ProgramKeeps
<1>3. CASE phase' = "verifying" /\ UNCHANGED <<image, reply>>
  <2>1. ScanEnds(slots', log.next + 1) /\ slots'[log.next] = image
    BY <1>1, <1>2, <1>3 DEF IInv, LogEndsAtNext
  <2>2. Durable' = image
    BY <1>1, <1>3, <2>1, DurableAtPrimed
  <2> QED BY <1>1, <1>3, <2>2, ImageFacts DEF Mode, Storage!Apply
<1>4. CASE phase' = "idle" /\ image' = Nothing /\ reply' = "failed"
  <2>1. Durable = log.store
    BY <1>1, OpenLogIsDurable
  <2>2. /\ ScanEnds(slots', log.next)
        /\ log.store = IF log.next = 0 THEN Empty ELSE slots'[log.next - 1]
    BY <1>1, <1>2, <1>4 DEF IInv, LogEndsAtNext, LatestRecord
  <2>3. Durable' = log.store
    BY <1>4, <2>2, DurableAtPrimed
  <2> QED BY <1>1, <1>4, <2>1, <2>3, ImageFacts DEF Mode, Storage!Refuse
<1> QED BY <1>3, <1>4 DEF ProgramSlot

\* The read-back confirms what is durable already.
LEMMA VerifiedRefines == IInv /\ Verified => Storage!Confirm
<1> SUFFICES ASSUME IInv, Verified PROVE Storage!Confirm
  OBVIOUS
<1>1. valid
  BY WritingFacts DEF Verified
<1>2. Durable' = Durable
  BY DEF Verified, Durable, Records
<1> QED BY <1>1, <1>2 DEF Verified, Mode, Storage!Confirm

\* Power loss keeps what is durable, or undoes the program it interrupts;
\* in a compaction it may lose it.
LEMMA PowerLossRefines ==
  IInv /\ PowerLoss => Storage!PowerLoss \/ Storage!CompactionFails
<1> SUFFICES ASSUME IInv, PowerLoss
             PROVE  Storage!PowerLoss \/ Storage!CompactionFails
  OBVIOUS
<1>1. /\ phase # "off" /\ phase' = "off"
      /\ valid' = FALSE /\ image' = Nothing /\ reply' = "none"
      /\ phase \in {"erasing", "rewriting", "idle", "writing", "verifying"}
  BY DEF PowerLoss, IInv, TypeOK
<1>2. CASE phase \in {"erasing", "rewriting"}
  <2>1. reply = "none"
    BY <1>2 DEF IInv, ClosedLogIsIdle
  <2> QED BY <1>1, <1>2, <2>1, DurableIsImage DEF Mode, Storage!CompactionFails
<1>3. CASE UNCHANGED slots /\ phase \in {"idle", "writing", "verifying"}
  <2>1. Durable' = Durable
    BY <1>1, <1>3 DEF Durable, Records
  <2> QED BY <1>1, <1>3, <2>1 DEF Mode, Storage!PowerLoss
<1>4. CASE phase = "writing" /\ slots' = [slots EXCEPT ![log.next] = Torn]
  <2>1. Durable = log.store /\ log.store = LatestRecord(log.next)
        /\ log.next \in Slots /\ log.next \in Nat
    BY <1>4, WritingFacts, OpenLogIsDurable DEF IInv, LogEndsAtNext
  <2>2. /\ slots'[log.next] = Torn
        /\ \A i \in Slots : i # log.next => slots'[i] = slots[i]
        /\ \A i \in 0..(log.next - 1) : slots'[i] \in Images
    BY <1>4, WriteKeepsOrder
  <2>3. ScanEnds(slots', log.next)
    BY <2>1, <2>2, ImageFacts, ParamLogAssumption DEF ScanEnds, Slots
  <2>4. log.next # 0 => slots'[log.next - 1] = slots[log.next - 1]
    BY <2>1, <2>2, ParamLogAssumption DEF Slots
  <2>5. Durable' = IF log.next = 0 THEN Empty ELSE slots'[log.next - 1]
    BY <1>1, <2>3, DurableAtPrimed
  <2>6. Durable' = Durable
    BY <2>1, <2>4, <2>5 DEF LatestRecord
  <2> QED BY <1>1, <1>4, <2>6 DEF Mode, Storage!PowerLoss
<1> QED BY <1>1, <1>2, <1>3, <1>4 DEF PowerLoss

\* Every step of the log is a step of the storage, or none.
LEMMA StepRefines == IInv /\ [Next]_vars => [Storage!Next]_(Storage!vars)
<1> SUFFICES ASSUME IInv, [Next]_vars PROVE [Storage!Next]_(Storage!vars)
  OBVIOUS
<1>1. CASE Load
  BY <1>1, ScanRefines, EraseRefines, RewriteRefines DEF Load, Storage!Next
<1>2. ASSUME NEW d \in Dids, NEW v \in Values, Set(d, v)
      PROVE  Storage!Next
  BY <1>2, StartedImages, AppendRefines DEF Set, Storage!Next
<1>3. CASE Clear
  BY <1>3, StartedImages, AppendRefines DEF Clear, Storage!Next
<1>4. CASE ProgramSlot
  BY <1>4, ProgramRefines DEF Storage!Next
<1>5. CASE Verified
  BY <1>5, VerifiedRefines DEF Storage!Next
<1>6. CASE PowerLoss
  BY <1>6, PowerLossRefines DEF Storage!Next
<1>7. CASE UNCHANGED vars
  <2>1. UNCHANGED <<slots, log, valid, phase, image, reply>>
    BY <1>7 DEF vars
  <2>2. Durable' = Durable /\ Mode' = Mode
    BY <2>1 DEF Durable, Records, Mode
  <2> QED BY <2>1, <2>2 DEF Storage!vars
<1> QED
  BY <1>1, <1>2, <1>3, <1>4, <1>5, <1>6, <1>7 DEF Next

\* The log keeps the promise of DurableStore: over writes, clears, failed
\* programs, torn slots, power losses and compactions.
THEOREM ImplementsStore == Spec => DurableSpec
<1>1. Init /\ [][Next]_vars => Storage!Spec
  BY InitRefines, StepRefines, InitIInv, NextIInv, PTL DEF Storage!Spec
<1> QED BY <1>1 DEF Spec, DurableSpec
===============================================================================
