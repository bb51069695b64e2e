--------------------------- MODULE NodeResetProofs ---------------------------
(***************************************************************************)
(* When a node is reset.  Verdicts of recovery attempts are right and no   *)
(* node is reset without a fault of the bus, for all thresholds, periods   *)
(* and limits of failures (the first part), and its watchdog never resets  *)
(* it (the second).                                                        *)
(*                                                                         *)
(* The argument of the first: while an attempt is being settled the        *)
(* record stays at bus-off, since neither an error interrupt nor the       *)
(* summary of the main loop can leave that state, so no event is counted,  *)
(* and the verdict is the controller's BOFF flag.  That flag stays set     *)
(* from a relapse until the next recovery, and a relapse takes a bus that  *)
(* is not good.                                                            *)
(***************************************************************************)
EXTENDS CanHealth, Watchdog, Integers, TLAPS

Controllers ==
  [tec : 0..(BusOffAt - 1), rec : 0..PassiveAt, boff : BOOLEAN, irq : BOOLEAN]

Records(tecs, recs) ==
  [state : States, tec : tecs, rec : recs, events : 0..(EventMod - 1),
   failures : 0..(MaxFailures - 1)]

\* The record, and one that an error was added to but not yet synchronised.
Health == Records(0..BusOffAt, 0..PassiveAt)
Unsynced == Records(Nat, Nat)

Attempts ==
  [pending : BOOLEAN, since : 0..Settle, recovery : 0..Period,
   events : 0..(EventMod - 1)]

Reads ==
  [tec : 0..(BusOffAt - 1), rec : 0..PassiveAt, boff : BOOLEAN, state : States,
   count : BOOLEAN, ok : BOOLEAN]

\* Nothing leaves bus-off, or counts an event, while an attempt is settled.
SettlingInBusOff ==
  attempt.pending =>
    /\ health.state = "busOff" /\ health.events = attempt.events
    /\ pc = "store" => read.state = "busOff" /\ ~read.count
    /\ pc \notin {"judge", "halted"}

\* A relapse is visible until the next recovery and takes a faulty bus.
RelapseTakesFault ==
  /\ relapsed <=> ctl.boff
  /\ bus # "good" \/ relapsed => faulty
  /\ pc = "judge" /\ ~read.ok => faulty

IInv == TypeOK /\ SettlingInBusOff /\ RelapseTakesFault

-------------------------------------------------------------------------------
\* What the operations on the record leave of it.
StaysInBusOff(h, g) ==
  /\ g.failures = h.failures
  /\ h.state = "busOff" => g.state = "busOff" /\ g.events = h.events

\* The ranges of the counters, and what lies in them.
LEMMA Ranges ==
  /\ 0 \in 0..(BusOffAt - 1) /\ 0 \in 0..BusOffAt /\ 0 \in 0..PassiveAt
  /\ 0 \in 0..(EventMod - 1) /\ 0 \in 0..(MaxFailures - 1)
  /\ 0 \in 0..Settle /\ 0 \in 0..Period
  /\ 0..(BusOffAt - 1) \subseteq 0..BusOffAt /\ BusOffAt \in 0..BusOffAt
  /\ 0..BusOffAt \subseteq Nat /\ 0..PassiveAt \subseteq Nat
BY CanHealthAssumption

\* A synchronised record is one an error can be added to.
LEMMA HealthIsUnsynced == Health \subseteq Unsynced
BY CanHealthAssumption DEF Health, Unsynced, Records

\* The larger of two counters.
LEMMA LargerFacts ==
  ASSUME NEW a \in Nat, NEW b \in Nat
  PROVE  Larger(a, b) \in Nat /\ Larger(a, b) >= a /\ Larger(a, b) >= b
         /\ Larger(a, b) \in {a, b}
BY DEF Larger

\* CanHealth_EnterBusOff counts an event unless the record says so already.
LEMMA EnterBusOffKeeps ==
  ASSUME NEW h \in Unsynced
  PROVE  /\ EnterBusOff(h) \in Unsynced /\ EnterBusOff(h).state = "busOff"
         /\ EnterBusOff(h).tec = Larger(h.tec, BusOffAt) /\ EnterBusOff(h).rec = h.rec
         /\ StaysInBusOff(h, EnterBusOff(h))
<1> DEFINE events == IF h.state = "busOff" THEN h.events ELSE (h.events + 1) % EventMod
<1>1. events \in 0..(EventMod - 1)
  BY CanHealthAssumption DEF Unsynced, Records
<1>2. Larger(h.tec, BusOffAt) \in Nat
  BY CanHealthAssumption, LargerFacts DEF Unsynced, Records
<1>3. EnterBusOff(h) =
        [h EXCEPT !.state = "busOff", !.tec = Larger(h.tec, BusOffAt), !.events = events]
  BY DEF EnterBusOff
<1>4. h.state = "busOff" => events = h.events
  OBVIOUS
<1> HIDE DEF events
<1> QED BY <1>1, <1>2, <1>3, <1>4 DEF Unsynced, Records, States, StaysInBusOff

\* CanHealth_UpdateErrorState never leaves bus-off.
LEMMA UpdateKeeps ==
  ASSUME NEW h \in Unsynced
  PROVE  /\ UpdateErrorState(h) \in Unsynced /\ StaysInBusOff(h, UpdateErrorState(h))
         /\ UpdateErrorState(h).rec = h.rec
         /\ h.tec < BusOffAt => UpdateErrorState(h).tec = h.tec
<1>1. ClassOf(h.tec, h.rec) \in States
  BY DEF ClassOf, States
<1>2. [h EXCEPT !.state = ClassOf(h.tec, h.rec)] \in Unsynced
  BY <1>1 DEF Unsynced, Records
<1>3. h.tec \in Nat /\ BusOffAt \in Nat
  BY CanHealthAssumption DEF Unsynced, Records
<1>4. CASE h.state = "busOff"
  BY <1>4 DEF UpdateErrorState, StaysInBusOff
<1>5. CASE h.state # "busOff" /\ h.tec >= BusOffAt
  BY <1>3, <1>5, EnterBusOffKeeps DEF UpdateErrorState
<1>6. CASE h.state # "busOff" /\ ~(h.tec >= BusOffAt)
  <2>1. UpdateErrorState(h) = [h EXCEPT !.state = ClassOf(h.tec, h.rec)]
    BY <1>6 DEF UpdateErrorState
  <2> QED BY <1>2, <1>6, <2>1 DEF StaysInBusOff, Unsynced, Records
<1> QED BY <1>4, <1>5, <1>6

\* CanHealth_SyncHardwareCounters takes over the hardware's counters.
LEMMA SyncKeeps ==
  ASSUME NEW h \in Unsynced, NEW tec \in 0..(BusOffAt - 1), NEW rec \in 0..PassiveAt,
         NEW boff \in BOOLEAN
  PROVE  /\ SyncHardwareCounters(h, tec, rec, boff) \in Health
         /\ StaysInBusOff(h, SyncHardwareCounters(h, tec, rec, boff))
<1> DEFINE g == [h EXCEPT !.tec = tec, !.rec = rec]
           s == IF boff THEN EnterBusOff(g) ELSE UpdateErrorState(g)
<1>1. g \in Unsynced /\ g.tec = tec /\ g.rec = rec /\ g.state = h.state
      /\ g.events = h.events /\ g.failures = h.failures
  <2>1. tec \in Nat /\ rec \in Nat
    BY CanHealthAssumption
  <2> QED BY <2>1 DEF Unsynced, Records
<1> HIDE DEF g
<1>2. Larger(tec, BusOffAt) = BusOffAt
  BY CanHealthAssumption DEF Larger
<1>3. s \in Unsynced /\ s.tec \in 0..BusOffAt /\ s.rec \in 0..PassiveAt
      /\ StaysInBusOff(g, s)
  <2>1. tec < BusOffAt /\ BusOffAt \in 0..BusOffAt /\ tec \in 0..BusOffAt
    BY CanHealthAssumption
  <2>2. CASE boff
    BY <1>1, <1>2, <2>1, <2>2, EnterBusOffKeeps
  <2>3. CASE ~boff
    BY <1>1, <2>1, <2>3, UpdateKeeps, HealthIsUnsynced
  <2> QED BY <2>2, <2>3
<1>4. SyncHardwareCounters(h, tec, rec, boff) = s
  BY DEF SyncHardwareCounters, g
<1> HIDE DEF s
<1>5. s \in Health
  BY <1>3 DEF Health, Unsynced, Records
<1>6. StaysInBusOff(h, s)
  BY <1>1, <1>3 DEF StaysInBusOff
<1> QED BY <1>4, <1>5, <1>6

\* CanHealth_RecordError raises a counter by one step.
LEMMA RecordKeeps ==
  ASSUME NEW h \in Health, NEW transmit \in BOOLEAN
  PROVE  RecordError(h, transmit) \in Unsynced /\ StaysInBusOff(h, RecordError(h, transmit))
<1> DEFINE g == IF transmit THEN [h EXCEPT !.tec = @ + 1] ELSE [h EXCEPT !.rec = @ + 1]
<1>1. g \in Unsynced /\ g.state = h.state /\ g.events = h.events /\ g.failures = h.failures
  BY CanHealthAssumption DEF Health, Unsynced, Records
<1>2. RecordError(h, transmit) = UpdateErrorState(g)
  BY DEF RecordError
<1> HIDE DEF g
<1> QED BY <1>1, <1>2, UpdateKeeps DEF StaysInBusOff

\* CanDriver_OnErrorIsr.
LEMMA IsrKeeps ==
  ASSUME NEW h \in Health, NEW c \in Controllers
  PROVE  /\ OnErrorIsr(h, c) \in Health /\ StaysInBusOff(h, OnErrorIsr(h, c))
         /\ OnStatusIsr(h, c) \in Health /\ StaysInBusOff(h, OnStatusIsr(h, c))
<1>1. c.tec \in 0..(BusOffAt - 1) /\ c.rec \in 0..PassiveAt
  BY DEF Controllers
<1>2. OnStatusIsr(h, c) \in Health /\ StaysInBusOff(h, OnStatusIsr(h, c))
  BY <1>1, SyncKeeps, HealthIsUnsynced DEF OnStatusIsr, Controllers
<1>3. CASE c.boff
  BY <1>1, <1>3, <1>2, SyncKeeps, HealthIsUnsynced DEF OnErrorIsr
<1>4. CASE ~c.boff
  <2> DEFINE transmit == c.tec > h.tec \/ c.rec <= h.rec
             g == RecordError(h, transmit)
  <2>1. g \in Unsynced /\ StaysInBusOff(h, g)
    BY RecordKeeps
  <2>2. OnErrorIsr(h, c) = SyncHardwareCounters(g, c.tec, c.rec, FALSE)
    BY <1>4 DEF OnErrorIsr
  <2> HIDE DEF g
  <2>3. SyncHardwareCounters(g, c.tec, c.rec, FALSE) \in Health
        /\ StaysInBusOff(g, SyncHardwareCounters(g, c.tec, c.rec, FALSE))
    BY <1>1, <2>1, SyncKeeps
  <2> QED BY <1>2, <2>1, <2>2, <2>3 DEF StaysInBusOff
<1> QED BY <1>3, <1>4

-------------------------------------------------------------------------------
\* The invariant holds at the start.
LEMMA InitEstablishes == Init => IInv
<1> SUFFICES ASSUME Init PROVE IInv
  OBVIOUS
<1>1. ctl \in Controllers /\ ~ctl.boff
  BY Ranges DEF Init, Controller, Controllers
<1>2. health \in Health /\ attempt \in Attempts /\ read \in Reads
  BY Ranges DEF Init, NewHealth, NothingRead, States, Health, Records, Attempts, Reads
<1>3. TypeOK
  BY <1>1, <1>2, CanHealthAssumption DEF Init, TypeOK, Controllers, Health, Records,
     Attempts, Reads
<1> QED BY <1>1, <1>3 DEF Init, IInv, SettlingInBusOff, RelapseTakesFault

\* An error on the bus, with its interrupt.
LEMMA BusErrorKeeps == ASSUME IInv, BusError PROVE IInv'
<1>1. PICK kind \in Errors :
        /\ bus = "noisy" \/ (bus = "dominant" /\ ctl.irq)
        /\ ~ctl.boff
        /\ ctl' = AfterError(ctl, kind)
        /\ health' \in IF ctl.irq THEN {OnErrorIsr(health, ctl'), OnStatusIsr(health, ctl')}
                       ELSE {health}
        /\ relapsed' = (relapsed \/ ctl'.boff)
        /\ UNCHANGED <<bus, pc, read, attempt, faulty, boots>>
  BY DEF BusError
<1>2. ctl' \in Controllers
  <2> DEFINE tec == IF kind = "transmit" /\ ctl.tec + 1 < BusOffAt THEN ctl.tec + 1
                    ELSE ctl.tec
             rec == IF kind = "receive" /\ ctl.rec < PassiveAt THEN ctl.rec + 1 ELSE ctl.rec
             boff == kind = "transmit" /\ ctl.tec + 1 = BusOffAt
  <2>1. ctl \in Controllers
    BY DEF IInv, TypeOK, Controllers
  <2>2. tec \in 0..(BusOffAt - 1) /\ rec \in 0..PassiveAt
    BY <2>1, CanHealthAssumption DEF Controllers
  <2>3. boff \in BOOLEAN
    OBVIOUS
  <2>4. ctl' = [ctl EXCEPT !.tec = tec, !.rec = rec, !.boff = boff]
    BY <1>1 DEF AfterError
  <2> HIDE DEF tec, rec, boff
  <2> QED BY <2>1, <2>2, <2>3, <2>4 DEF Controllers
<1>3. health \in Health
  BY DEF IInv, TypeOK, Health, Records
<1>4. health' \in Health /\ StaysInBusOff(health, health')
  BY <1>1, <1>2, <1>3, IsrKeeps DEF StaysInBusOff
<1>5. TypeOK'
  BY <1>1, <1>2, <1>4 DEF IInv, TypeOK, Controllers, Health, Records
<1>6. SettlingInBusOff'
  BY <1>1, <1>4 DEF IInv, SettlingInBusOff, StaysInBusOff
<1>7. RelapseTakesFault'
  BY <1>1, <1>2 DEF IInv, RelapseTakesFault, TypeOK, Controllers
<1> QED BY <1>5, <1>6, <1>7 DEF IInv

\* Frames that pass, changes of the bus, and time.
LEMMA EnvironmentKeeps ==
  ASSUME IInv, BusSuccess \/ BusChanges \/ Elapse
  PROVE  IInv'
<1>1. CASE BusSuccess
  <2>1. ctl' \in Controllers /\ ctl'.boff = ctl.boff
    BY <1>1, CanHealthAssumption DEF BusSuccess, IInv, TypeOK, Controllers
  <2> QED BY <1>1, <2>1 DEF BusSuccess, history, IInv, TypeOK, SettlingInBusOff,
             RelapseTakesFault, Controllers
<1>2. CASE BusChanges
  BY <1>2, ZenonT(30) DEF BusChanges, IInv, TypeOK, SettlingInBusOff, RelapseTakesFault
<1>3. CASE Elapse
  <2>1. attempt' \in Attempts /\ attempt'.pending = attempt.pending
        /\ attempt'.events = attempt.events
    <3> DEFINE since == IF attempt.since < Settle THEN attempt.since + 1 ELSE attempt.since
               recovery == IF attempt.recovery < Period THEN attempt.recovery + 1
                           ELSE attempt.recovery
    <3>1. attempt \in Attempts
      BY DEF IInv, TypeOK, Attempts
    <3>2. since \in 0..Settle /\ recovery \in 0..Period
      BY <3>1, CanHealthAssumption DEF Attempts
    <3>3. attempt' = [attempt EXCEPT !.since = since, !.recovery = recovery]
      BY <1>3 DEF Elapse
    <3> HIDE DEF since, recovery
    <3> QED BY <3>1, <3>2, <3>3 DEF Attempts
  <2> QED BY <1>3, <2>1 DEF Elapse, history, IInv, TypeOK, SettlingInBusOff,
             RelapseTakesFault, Attempts
<1> QED BY <1>1, <1>2, <1>3

\* A reset starts from nothing.
LEMMA ResetKeeps == ASSUME IInv, Reset, UNCHANGED bus PROVE IInv'
<1>1. TypeOK'
  <2>1. (bus # "dominant") \in BOOLEAN /\ (bus # "good") \in BOOLEAN
    OBVIOUS
  <2>2. ctl' \in Controllers
    BY <2>1, Ranges DEF Reset, Controller, Controllers
  <2>3. health' \in Health /\ attempt' \in Attempts /\ read' \in Reads
    BY Ranges DEF Reset, NewHealth, NothingRead, States, Health, Records, Attempts, Reads
  <2>4. boots' \in {0, 1}
    BY DEF Reset, IInv, TypeOK
  <2>5. pc' \in {"service", "halted"} /\ relapsed' \in BOOLEAN /\ faulty' \in BOOLEAN
    BY DEF Reset
  <2> QED BY <2>2, <2>3, <2>4, <2>5 DEF IInv, TypeOK, Controllers, Health, Records,
             Attempts, Reads
<1>2. ~attempt'.pending /\ relapsed' = ctl'.boff /\ ~relapsed' /\ pc' # "judge"
      /\ faulty' = (bus # "good")
  BY DEF Reset, Controller
<1> QED BY <1>1, <1>2 DEF IInv, SettlingInBusOff, RelapseTakesFault

\* A failed attempt that does not reset the node.
LEMMA MarkFailedKeeps ==
  ASSUME IInv, ~GiveUp(MarkFailed(health))
  PROVE  /\ MarkFailed(health) \in Health
         /\ MarkFailed(health).state = health.state
         /\ MarkFailed(health).events = health.events
<1>1. health \in Health
  BY DEF IInv, TypeOK, Health, Records
<1>2. MarkFailed(health) = [health EXCEPT !.failures = health.failures + 1]
  BY DEF MarkFailed
<1>3. health.failures + 1 < MaxFailures /\ health.failures \in Nat
  BY <1>1, <1>2, CanHealthAssumption DEF GiveUp, Health, Records
<1> QED BY <1>1, <1>2, <1>3, CanHealthAssumption DEF Health, Records

\* The verdict on an attempt, and what follows from it.
LEMMA VerdictKeeps == ASSUME IInv, ReadVerdict \/ Judge PROVE IInv'
<1>1. CASE ReadVerdict
  <2>1. /\ attempt' = [attempt EXCEPT !.pending = FALSE] /\ pc' = "judge"
        /\ read' = [read EXCEPT !.ok = Verdict(ctl)] /\ attempt.pending
        /\ UNCHANGED <<bus, ctl, health, relapsed, faulty, boots>>
    BY <1>1 DEF ReadVerdict, history
  <2>2. Verdict(ctl) <=> ~relapsed
    BY <2>1 DEF Verdict, IInv, SettlingInBusOff, RelapseTakesFault
  <2>3. Verdict(ctl) \in BOOLEAN
    BY DEF Verdict, IInv, TypeOK
  <2>4. TypeOK'
    BY <2>1, <2>3 DEF IInv, TypeOK
  <2>5. read'.ok = Verdict(ctl) /\ ~attempt'.pending
    BY <2>1 DEF IInv, TypeOK
  <2> QED BY <2>1, <2>2, <2>4, <2>5 DEF IInv, SettlingInBusOff, RelapseTakesFault
<1>2. CASE Judge
  <2>1. pc = "judge" /\ UNCHANGED bus
    BY <1>2 DEF Judge
  <2>2. ~attempt.pending
    BY <2>1 DEF IInv, SettlingInBusOff
  <2>3. CASE Reset
    BY <2>1, <2>3, ResetKeeps
  <2>4. CASE ~Reset
    <3>1. pc' = "summary" /\ UNCHANGED <<ctl, read, attempt, relapsed, faulty, boots>>
          /\ \/ health' = MarkRecovered(health)
             \/ ~GiveUp(MarkFailed(health)) /\ health' = MarkFailed(health)
      BY <1>2, <2>4 DEF Judge, history
    <3>2. MarkRecovered(health) \in Health
      BY Ranges DEF MarkRecovered, IInv, TypeOK, Health, Records, States
    <3>3. health' \in Health
      BY <3>1, <3>2, MarkFailedKeeps
    <3> QED BY <2>1, <2>2, <3>1, <3>3 DEF IInv, TypeOK, SettlingInBusOff,
               RelapseTakesFault, Health, Records
  <2> QED BY <2>3, <2>4
<1> QED BY <1>1, <1>2

\* A recovery starts from a record at bus-off.
LEMMA RecoverKeeps == ASSUME IInv, Recover PROVE IInv'
<1>1. pc = "service" /\ ~attempt.pending /\ health.state = "busOff" /\ UNCHANGED bus
  BY DEF Recover
<1>2. CASE RecoverStarts
  <2>1. /\ ctl' = Controller(TRUE) /\ pc' = "summary" /\ ~relapsed'
        /\ relapsed' = FALSE /\ faulty' = (bus # "good") /\ UNCHANGED <<health, read, boots>>
        /\ attempt' = [pending |-> TRUE, since |-> 0, recovery |-> 0,
                        events |-> health.events]
    BY <1>2 DEF RecoverStarts, AttemptStarted
  <2>2. ctl' \in Controllers /\ ~ctl'.boff
    BY <2>1, CanHealthAssumption DEF Controller, Controllers
  <2>3. attempt' \in Attempts /\ attempt'.events = health.events
    BY <2>1, CanHealthAssumption DEF IInv, TypeOK, Attempts
  <2> QED BY <1>1, <2>1, <2>2, <2>3 DEF IInv, TypeOK, SettlingInBusOff, RelapseTakesFault,
             Controllers, Attempts
<1>3. CASE Reset
  BY <1>1, <1>3, ResetKeeps
<1>4. CASE RecoverFails /\ ~Reset
  <2>1. /\ ctl' = Controller(FALSE) /\ health' = MarkFailed(health) /\ pc' = "summary"
        /\ attempt' = [attempt EXCEPT !.recovery = 0] /\ ~GiveUp(MarkFailed(health))
        /\ relapsed' = FALSE /\ faulty' = TRUE /\ UNCHANGED <<read, boots>>
    BY <1>4 DEF RecoverFails
  <2>2. ctl' \in Controllers /\ ~ctl'.boff
    BY <2>1, CanHealthAssumption DEF Controller, Controllers
  <2>3. attempt' \in Attempts /\ ~attempt'.pending
    BY <1>1, <2>1, CanHealthAssumption DEF IInv, TypeOK, Attempts
  <2>4. health' \in Health
    BY <2>1, MarkFailedKeeps
  <2> QED BY <1>1, <2>1, <2>2, <2>3, <2>4 DEF IInv, TypeOK, SettlingInBusOff,
             RelapseTakesFault, Controllers, Attempts, Health, Records
<1> QED BY <1>2, <1>3, <1>4 DEF Recover

\* The summary does not leave bus-off either: what it stores was decided with
\* the record at bus-off.
LEMMA SummaryKeeps ==
  ASSUME IInv, ReadErrorCounters \/ Sync \/ StoreState
  PROVE  IInv'
<1>0. health \in Health /\ read \in Reads
  BY DEF IInv, TypeOK, Health, Records, Reads
<1>1. CASE ReadErrorCounters
  <2>1. read' \in Reads /\ read'.ok = read.ok
    BY <1>0, <1>1 DEF ReadErrorCounters, BusOffFlag, IInv, TypeOK, Reads
  <2> QED BY <1>1, <2>1 DEF ReadErrorCounters, history, IInv, TypeOK, SettlingInBusOff,
             RelapseTakesFault, Reads
<1>2. CASE Sync
  <2>1. health' = [health EXCEPT !.tec = read.tec, !.rec = read.rec]
        /\ UNCHANGED <<bus, ctl, attempt, relapsed, faulty, boots>>
    BY <1>2 DEF Sync, history
  <2>2. health' \in Health /\ health'.state = health.state /\ health'.events = health.events
    <3>1. read.tec \in 0..BusOffAt /\ read.rec \in 0..PassiveAt
      BY <1>0, Ranges DEF Reads
    <3> QED BY <1>0, <2>1, <3>1 DEF Health, Records
  <2> DEFINE g == SyncHardwareCounters(health, read.tec, read.rec, read.boff)
  <2>3. g \in Health /\ StaysInBusOff(health, g)
    BY <1>0, SyncKeeps, HealthIsUnsynced DEF Reads
  <2>4. CASE pc' = "service" /\ UNCHANGED read
    BY <2>1, <2>2, <2>4, <1>2 DEF Sync, IInv, TypeOK, SettlingInBusOff, RelapseTakesFault,
       Health, Records
  <2>5. CASE /\ pc' = "store"
             /\ read' = [read EXCEPT !.state = g.state, !.count = g.events # health.events]
    <3> HIDE DEF g
    <3>1. read' \in Reads /\ read'.state = g.state /\ read'.ok = read.ok
          /\ read'.count = (g.events # health.events)
      BY <1>0, <2>3, <2>5 DEF Reads, Health, Records
    <3>2. TypeOK'
      BY <2>1, <2>2, <2>5, <3>1 DEF IInv, TypeOK, Health, Records, Reads
    <3> QED BY <1>2, <2>1, <2>2, <2>3, <2>5, <3>1, <3>2 DEF Sync, IInv, SettlingInBusOff,
               RelapseTakesFault, StaysInBusOff
  <2> QED BY <1>2, <2>4, <2>5 DEF Sync
<1>3. CASE StoreState
  <2> DEFINE tec == IF read.boff THEN Larger(health.tec, BusOffAt) ELSE health.tec
             events == IF read.count THEN (health.events + 1) % EventMod ELSE health.events
  <2>1. pc = "store" /\ pc' = "service"
        /\ UNCHANGED <<bus, ctl, read, attempt, relapsed, faulty, boots>>
        /\ health' = [health EXCEPT !.state = read.state, !.events = events, !.tec = tec]
    BY <1>3 DEF StoreState, history
  <2>2. tec \in 0..BusOffAt
    BY <1>0, CanHealthAssumption DEF Larger, Health, Records
  <2>3. events \in 0..(EventMod - 1)
    BY <1>0, CanHealthAssumption DEF Health, Records
  <2>4. ~read.count => events = health.events
    OBVIOUS
  <2> HIDE DEF tec, events
  <2>5. health' \in Health /\ health'.state = read.state /\ health'.events = events
    BY <1>0, <2>1, <2>2, <2>3 DEF Health, Records, Reads
  <2> QED BY <2>1, <2>4, <2>5 DEF IInv, TypeOK, SettlingInBusOff, RelapseTakesFault,
             Health, Records
<1> QED BY <1>1, <1>2, <1>3

\* Every step keeps the invariant.
LEMMA NextKeeps == IInv /\ [Next]_vars => IInv'
<1> SUFFICES ASSUME IInv, [Next]_vars PROVE IInv'
  OBVIOUS
<1>1. CASE UNCHANGED vars
  BY <1>1 DEF vars, history, IInv, TypeOK, SettlingInBusOff, RelapseTakesFault
<1>2. CASE AwaitSettle \/ NothingToRecover
  BY <1>2 DEF AwaitSettle, NothingToRecover, history, IInv, TypeOK, SettlingInBusOff,
     RelapseTakesFault
<1> QED BY <1>1, <1>2, BusErrorKeeps, EnvironmentKeeps, VerdictKeeps, RecoverKeeps,
           SummaryKeeps DEF Next, MainLoop

\* Types, and the two facts about relapses, hold in every behaviour.
THEOREM InvHolds == Spec => []IInv
<1> QED BY InitEstablishes, NextKeeps, PTL DEF Spec

\* A recovery is judged a success exactly when the controller stayed on the bus
\* (APP_ServiceCanHealth), for all thresholds and times.
THEOREM VerdictIsSound == Spec => VerdictSound
<1>1. IInv /\ [Next]_vars =>
        [pc = "service" /\ pc' = "judge" => (read'.ok <=> ~relapsed)]_vars
  <2> SUFFICES ASSUME IInv, Next, pc = "service", pc' = "judge"
               PROVE  read'.ok <=> ~relapsed
    OBVIOUS
  <2>1. ReadVerdict
    BY DEF Next, MainLoop, AwaitSettle, Judge, NothingToRecover, Recover, RecoverStarts,
       RecoverFails, Reset, ReadErrorCounters, Sync, StoreState, BusError, BusSuccess,
       BusChanges, Elapse
  <2>2. attempt.pending /\ read' = [read EXCEPT !.ok = Verdict(ctl)]
    BY <2>1 DEF ReadVerdict
  <2>3. read'.ok = Verdict(ctl)
    BY <2>2 DEF IInv, TypeOK
  <2> QED BY <2>2, <2>3 DEF Verdict, IInv, SettlingInBusOff, RelapseTakesFault
<1> QED BY <1>1, InvHolds, PTL DEF Spec, VerdictSound

\* Whatever the thresholds and limits, a node is reset only for a fault of the
\* bus since its last recovery began (the escalation of CanHealth_AttemptRecovery).
THEOREM ResetsAreNeeded == Spec => NoNeedlessReset
<1>1. IInv /\ [Next]_vars => [boots' # boots => faulty]_vars
  <2> SUFFICES ASSUME IInv, Next, boots' # boots PROVE faulty
    OBVIOUS
  <2>1. CASE Judge
    BY <2>1 DEF Judge, history, IInv, RelapseTakesFault
  <2>2. CASE Recover
    BY <2>2 DEF Recover, RecoverStarts, RecoverFails, IInv, RelapseTakesFault
  <2> QED BY <2>1, <2>2 DEF Next, MainLoop, AwaitSettle, ReadVerdict, NothingToRecover,
             ReadErrorCounters, Sync, StoreState, BusError, BusSuccess, BusChanges,
             Elapse, history
<1> QED BY <1>1, InvHolds, PTL DEF Spec, NoNeedlessReset
-------------------------------------------------------------------------------
(***************************************************************************)
(* The window watchdog never resets a node, for every length of the delay, *)
(* the work, a recovery and the window that satisfies TimingAssumption.    *)
(*                                                                         *)
(* The argument counts the delays since the last refresh.  The ticks since *)
(* that refresh are those of the delays and of the work in between, and    *)
(* the work is bounded, since a recovery is too rare to happen twice       *)
(* between two refreshes.  Two delays at least pass before a refresh is    *)
(* due, because one delay and one recovery do not reach Refresh, and it is *)
(* due after three at the latest.                                          *)
(***************************************************************************)

WTypeOK ==
  /\ at \in {"work", "delay"} /\ recovering \in BOOLEAN
  /\ spent \in Nat /\ sample \in Nat
  /\ sinceSampled \in Nat /\ sinceRefresh \in Nat /\ sinceRecovery \in Nat

\* Iterations whose work is done, d delays after a refresh.
Finished(d) == IF at = "work" THEN d ELSE d + 1

\* Ticks such iterations may have worked for: one of them may have recovered
\* the controller, unless the last recovery is older than the refresh or is
\* the one in progress.
WorkDone(d) ==
  Finished(d) * Work
  + IF sinceRecovery <= sinceRefresh /\ ~(at = "work" /\ recovering)
    THEN RecoverWork - Work ELSE 0

\* d delays have begun and ended since the last refresh.
Phase(d) ==
  /\ d * Delay + spent <= sinceRefresh
  /\ sinceRefresh <= d * Delay + spent + WorkDone(d)
  /\ Finished(d) = 0 => sinceSampled <= spent
  /\ Finished(d) = 1 => sinceSampled <= d * Delay + spent + RecoverWork

\* The inductive invariant.
WInv ==
  /\ WTypeOK
  /\ sinceRefresh <= sinceSampled
  /\ at = "work" => /\ spent <= WorkBound
                    /\ sinceSampled = sample + spent
                    /\ recovering => sinceRecovery <= sinceRefresh
                    /\ \E d \in 0..3 : Phase(d)
  /\ at = "delay" => /\ spent <= Delay
                     /\ \E d \in 0..2 : Phase(d)
  /\ reset = "none"

-------------------------------------------------------------------------------
\* No more ticks can have passed since the last refresh than the counter lasts.
LEMMA PhaseBounded ==
  ASSUME WTypeOK, reset = "none", NEW d \in 0..3, Phase(d),
         at = "work" => spent <= WorkBound,
         at = "delay" => spent <= Delay /\ d <= 2
  PROVE  /\ sinceRefresh <= Open
         /\ (spent < IF at = "work" THEN WorkBound ELSE Delay) => sinceRefresh < Open
PROOF
<1>1. d = 0 \/ d = 1 \/ d = 2 \/ d = 3
  OBVIOUS
<1>. USE WatchdogAssumption, TimingAssumption DEF WTypeOK, Phase, WorkDone, Finished, WorkBound
<1>2. CASE d = 0 BY <1>2
<1>3. CASE d = 1 BY <1>3
<1>4. CASE d = 2 BY <1>4
<1>5. CASE d = 3 BY <1>5
<1>. QED BY <1>1, <1>2, <1>3, <1>4, <1>5

LEMMA InitInv == WatchdogInit => WInv
PROOF
<1>. SUFFICES ASSUME WatchdogInit PROVE WInv
  OBVIOUS
<1>1. Phase(0)
  BY WatchdogAssumption DEF WatchdogInit, Phase, WorkDone, Finished
<1>2. \E d \in 0..3 : Phase(d)
  BY <1>1
<1>3. WTypeOK
  BY DEF WatchdogInit, WTypeOK
<1>. QED
  BY <1>2, <1>3, WatchdogAssumption DEF WatchdogInit, WInv, WorkBound

LEMMA StartInv ==
  ASSUME WInv, StartIteration
  PROVE  WInv'
PROOF
<1>1. PICK d \in 0..2 : Phase(d)
  BY DEF WInv, StartIteration
<1>2. sinceRefresh <= Open
  BY <1>1, PhaseBounded DEF WInv, StartIteration
<1>3. Phase(d + 1)'
  <2>1. d = 0 \/ d = 1 \/ d = 2
    BY <1>1
  <2>. USE <1>1, <1>2, WatchdogAssumption, TimingAssumption
       DEF WInv, WTypeOK, StartIteration, Phase, WorkDone, Finished
  <2>2. CASE d = 0 BY <2>2
  <2>3. CASE d = 1 BY <2>3
  <2>4. CASE d = 2 BY <2>4
  <2>. QED BY <2>1, <2>2, <2>3, <2>4
<1>4. (\E e \in 0..3 : Phase(e))'
  BY <1>1, <1>3
<1>5. WTypeOK'
  <2>1. recovering' \in BOOLEAN
    BY Zenon DEF StartIteration
  <2>2. sinceRecovery' \in Nat
    BY DEF WInv, WTypeOK, StartIteration
  <2>. QED
    BY <2>1, <2>2 DEF WInv, WTypeOK, StartIteration
<1>6. recovering' => sinceRecovery' <= sinceRefresh'
  BY DEF WInv, WTypeOK, StartIteration
<1>7. at' = "work" /\ spent' = 0 /\ sinceSampled' = sample' + spent'
  BY DEF WInv, WTypeOK, StartIteration
<1>8. spent' <= WorkBound'
  BY <1>7, WatchdogAssumption DEF WorkBound
<1>9. sinceRefresh' <= sinceSampled' /\ reset' = "none"
  BY DEF WInv, StartIteration
<1>. QED
  BY <1>4, <1>5, <1>6, <1>7, <1>8, <1>9 DEF WInv

\* A refresh that is due comes at least two delays after the last one.
LEMMA DueIsNotEarly ==
  ASSUME WInv, at = "work", RefreshDue
  PROVE  sinceRefresh >= Closed
PROOF
<1>1. PICK d \in 0..3 : Phase(d)
  BY DEF WInv
<1>2. d = 0 \/ d = 1 \/ d = 2 \/ d = 3
  BY <1>1
<1>. USE <1>1, WatchdogAssumption, TimingAssumption
     DEF WInv, WTypeOK, Phase, Finished, RefreshDue
<1>3. CASE d = 0 BY <1>3
<1>4. CASE d = 1 BY <1>4
<1>5. CASE d = 2 BY <1>5
<1>6. CASE d = 3 BY <1>6
<1>. QED BY <1>2, <1>3, <1>4, <1>5, <1>6

LEMMA ServiceInv ==
  ASSUME WInv, Service
  PROVE  WInv'
PROOF
<1>1. PICK d \in 0..3 : Phase(d)
  BY DEF WInv, Service
<1>2. CASE RefreshDue
  <2>1. sinceRefresh >= Closed
    BY <1>2, DueIsNotEarly DEF Service
  <2>2. reset' = "none" /\ sinceRefresh' = 0 /\ sinceSampled' = spent
    BY <1>2, <2>1, WatchdogAssumption DEF Service, WInv, WTypeOK
  <2>3. Phase(0)'
    BY <2>2, WatchdogAssumption DEF Service, WInv, WTypeOK, WorkBound, Phase, WorkDone, Finished
  <2>. QED
    BY <2>2, <2>3, WatchdogAssumption DEF Service, WInv, WTypeOK
<1>3. CASE ~RefreshDue
  <2>1. d = 0 \/ d = 1 \/ d = 2 \/ d = 3
    BY <1>1
  <2>2. sinceRefresh' = sinceRefresh /\ sinceSampled' = sinceSampled /\ reset' = reset
    BY <1>3 DEF Service
  <2>3. d # 3 /\ Phase(d)'
    <3>. USE <1>1, <1>3, <2>2, WatchdogAssumption, TimingAssumption
         DEF WInv, WTypeOK, Service, RefreshDue, Phase, WorkDone, Finished, WorkBound
    <3>1. CASE d = 0 BY <3>1
    <3>2. CASE d = 1 BY <3>2
    <3>3. CASE d = 2 BY <3>3
    <3>4. CASE d = 3 BY <3>4
    <3>. QED BY <2>1, <3>1, <3>2, <3>3, <3>4
  <2>4. d \in 0..2
    BY <1>1, <2>3
  <2>. QED
    BY <2>2, <2>3, <2>4, WatchdogAssumption DEF Service, WInv, WTypeOK
<1>. QED BY <1>2, <1>3

LEMMA TickInv ==
  ASSUME WInv, Tick
  PROVE  WInv'
PROOF
<1>1. PICK d \in 0..3 : Phase(d) /\ (at = "delay" => d <= 2)
  BY DEF WInv, WTypeOK
<1>2. sinceRefresh < Open
  BY <1>1, PhaseBounded DEF WInv, Tick
<1>3. reset' = "none"
  BY <1>2, WatchdogAssumption DEF Tick, WInv, WTypeOK
<1>4. sinceRecovery <= sinceRefresh => sinceRecovery' <= sinceRefresh'
  BY WatchdogAssumption DEF Tick, WInv, WTypeOK
<1>5. WTypeOK'
  BY WatchdogAssumption DEF Tick, WInv, WTypeOK
<1>6. Phase(d)'
  <2>1. d = 0 \/ d = 1 \/ d = 2 \/ d = 3
    BY <1>1
  <2>. USE <1>1, <1>4, WatchdogAssumption
       DEF WInv, WTypeOK, Tick, Phase, WorkDone, Finished, WorkBound
  <2>2. CASE d = 0 BY <2>2
  <2>3. CASE d = 1 BY <2>3
  <2>4. CASE d = 2 BY <2>4
  <2>5. CASE d = 3 BY <2>5
  <2>. QED BY <2>1, <2>2, <2>3, <2>4, <2>5
<1>. QED
  BY <1>1, <1>3, <1>4, <1>5, <1>6, WatchdogAssumption DEF Tick, WInv, WTypeOK, WorkBound

THEOREM WInvHolds == WatchdogSpec => []WInv
PROOF
<1>1. WInv /\ [WatchdogNext]_watchdogVars => WInv'
  <2>. SUFFICES ASSUME WInv, [WatchdogNext]_watchdogVars PROVE WInv'
    OBVIOUS
  <2>1. CASE StartIteration BY <2>1, StartInv
  <2>2. CASE Service BY <2>2, ServiceInv
  <2>3. CASE Tick BY <2>3, TickInv
  <2>4. CASE UNCHANGED watchdogVars
    BY <2>4 DEF watchdogVars, loop, WInv, WTypeOK, WorkBound, Phase, WorkDone, Finished
  <2>. QED BY <2>1, <2>2, <2>3, <2>4 DEF WatchdogNext
<1>. QED BY <1>1, InitInv, PTL DEF WatchdogSpec

\* The window watchdog never resets a node whose main loop keeps to
\* TimingAssumption: neither early nor late (Watchdog_WwdgService).
THEOREM NeverReset == WatchdogSpec => []NoWatchdogReset
PROOF
<1>1. WInv => NoWatchdogReset
  BY DEF WInv, NoWatchdogReset
<1>. QED BY <1>1, WInvHolds, PTL
===============================================================================
