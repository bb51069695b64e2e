------------------------------ MODULE CanHealth ------------------------------
(***************************************************************************)
(* A node's view of its CAN controller and its way back from bus-off: the  *)
(* health record (firmware/common/can_health.c), the error interrupt and   *)
(* CanDriver_Recover (can_driver.c), and the two functions of the main     *)
(* loop that use them, APP_ServiceCanHealth and APP_UpdateHealthSummary    *)
(* (main.c of both boards).                                                *)
(*                                                                         *)
(* The interrupt changes the record between any two steps of the main      *)
(* loop.  Error counters are in units of CAN_HEALTH_ERROR_COUNTER_STEP, by *)
(* which an error raises them; the controller's 8 bits end one step below  *)
(* BusOffAt.  With AutoBusOff disabled a controller that went bus-off      *)
(* stays so until it is initialised again.                                 *)
(***************************************************************************)
EXTENDS Naturals

CONSTANTS
  PassiveAt,    \* passive_threshold
  BusOffAt,     \* bus_off_threshold
  MaxFailures,  \* max_recovery_failures
  Period,       \* APP_CAN_RECOVERY_PERIOD_MS, in ticks of the model
  Settle,       \* APP_CAN_RECOVERY_SETTLE_MS, in the same ticks
  EventMod,     \* 2^32, where bus_off_events wraps
  Buses         \* what the bus may be: "good", "noisy", "dominant"

ASSUME CanHealthAssumption ==
  /\ PassiveAt \in Nat \ {0} /\ BusOffAt \in Nat /\ BusOffAt > PassiveAt
  /\ MaxFailures \in Nat \ {0} /\ EventMod \in Nat /\ EventMod > 1
  /\ Period \in Nat /\ Settle \in Nat
  /\ "good" \in Buses /\ Buses \subseteq {"good", "noisy", "dominant"}

VARIABLES
  bus,        \* condition of the wires
  ctl,        \* the controller: its ESR, and whether its interrupts are on
  health,     \* CanHealth_t
  pc,         \* where the main loop is
  read,       \* what it has read and not yet acted upon
  attempt,    \* the static variables of APP_ServiceCanHealth
  relapsed,   \* whether the controller went bus-off since the last recovery
  faulty,     \* whether the bus was faulty since the last recovery began
  boots       \* resets so far, modulo 2

history == <<relapsed, faulty, boots>>
vars == <<bus, ctl, health, pc, read, attempt, history>>

States == {"active", "passive", "busOff"}
Larger(a, b) == IF a > b THEN a ELSE b

Controller(irq) == [tec |-> 0, rec |-> 0, boff |-> FALSE, irq |-> irq]

NothingRead == [tec |-> 0, rec |-> 0, boff |-> FALSE, state |-> "active",
                count |-> FALSE, ok |-> FALSE]

NewHealth ==
  [state |-> "active", tec |-> 0, rec |-> 0, events |-> 0, failures |-> 0]

\* The bus is good when a behaviour begins; boots on a faulty one follow resets.
Init ==
  /\ bus = "good"
  /\ ctl = Controller(TRUE)
  /\ health = NewHealth
  /\ pc = "service" /\ read = NothingRead
  /\ attempt = [pending |-> FALSE, since |-> 0, recovery |-> 0, events |-> 0]
  /\ relapsed = FALSE /\ faulty = FALSE /\ boots = 0

-------------------------------------------------------------------------------
\* CanHealth_EnterBusOff, _UpdateErrorState, _SyncHardwareCounters and
\* _RecordError.

EnterBusOff(h) ==
  [h EXCEPT !.state = "busOff", !.tec = Larger(@, BusOffAt),
            !.events = IF h.state = "busOff" THEN @ ELSE (@ + 1) % EventMod]

ClassOf(tec, rec) == IF Larger(tec, rec) >= PassiveAt THEN "passive" ELSE "active"

UpdateErrorState(h) ==
  IF h.state = "busOff" THEN h
  ELSE IF h.tec >= BusOffAt THEN EnterBusOff(h)
  ELSE [h EXCEPT !.state = ClassOf(h.tec, h.rec)]

SyncHardwareCounters(h, tec, rec, boff) ==
  LET g == [h EXCEPT !.tec = tec, !.rec = rec] IN
  IF boff THEN EnterBusOff(g) ELSE UpdateErrorState(g)

RecordError(h, transmit) ==
  UpdateErrorState(IF transmit THEN [h EXCEPT !.tec = @ + 1] ELSE [h EXCEPT !.rec = @ + 1])

\* CanDriver_OnErrorIsr, with the controller as the error left it: an error
\* that raised no counter is taken for one of transmission.
OnErrorIsr(h, c) ==
  IF c.boff THEN SyncHardwareCounters(h, c.tec, c.rec, TRUE)
  ELSE SyncHardwareCounters(RecordError(h, c.tec > h.tec \/ c.rec <= h.rec),
                            c.tec, c.rec, FALSE)

\* The same for an interrupt that reports a warning or passive status only.
OnStatusIsr(h, c) == SyncHardwareCounters(h, c.tec, c.rec, c.boff)

\* CanHealth_MarkRecovered, and the failure branch of CanHealth_AttemptRecovery.
MarkRecovered(h) ==
  [h EXCEPT !.state = "active", !.tec = 0, !.rec = 0, !.failures = 0]
MarkFailed(h) == [h EXCEPT !.failures = @ + 1]

-------------------------------------------------------------------------------
\* The bus and the controller.  An error raises the transmit or the receive
\* counter or, as a missing acknowledgement of a passive node, none of them.

Errors == {"transmit", "receive", "none"}

AfterError(c, kind) ==
  [c EXCEPT !.tec = IF kind = "transmit" /\ @ + 1 < BusOffAt THEN @ + 1 ELSE @,
            !.rec = IF kind = "receive" /\ @ < PassiveAt THEN @ + 1 ELSE @,
            !.boff = kind = "transmit" /\ c.tec + 1 = BusOffAt]

\* A controller whose start timed out has not joined a dominant bus.
BusError ==
  \E kind \in Errors :
    /\ bus = "noisy" \/ (bus = "dominant" /\ ctl.irq)
    /\ ~ctl.boff
    /\ ctl' = AfterError(ctl, kind)
    /\ health' \in IF ctl.irq THEN {OnErrorIsr(health, ctl'), OnStatusIsr(health, ctl')}
                   ELSE {health}
    /\ relapsed' = (relapsed \/ ctl'.boff)
    /\ UNCHANGED <<bus, pc, read, attempt, faulty, boots>>

\* Frames that pass lower the counters; no interrupt reports it.
BusSuccess ==
  /\ bus # "dominant" /\ ~ctl.boff
  /\ \/ ctl.tec > 0 /\ ctl' = [ctl EXCEPT !.tec = @ - 1]
     \/ ctl.rec > 0 /\ ctl' = [ctl EXCEPT !.rec = @ - 1]
  /\ UNCHANGED <<bus, health, pc, read, attempt, history>>

BusChanges ==
  /\ bus' \in Buses \ {bus}
  /\ faulty' = (faulty \/ bus' # "good")
  /\ UNCHANGED <<ctl, health, pc, read, attempt, relapsed, boots>>

Elapse ==
  /\ attempt.since < Settle \/ attempt.recovery < Period
  /\ attempt' = [attempt EXCEPT !.since = IF @ < Settle THEN @ + 1 ELSE @,
                                !.recovery = IF @ < Period THEN @ + 1 ELSE @]
  /\ UNCHANGED <<bus, ctl, health, pc, read, history>>

-------------------------------------------------------------------------------
\* NVIC_SystemReset and the boot that follows.  CanDriver_Start fails on a
\* dominant bus, and Error_Handler then stops the node, before its watchdogs
\* are started.
Reset ==
  /\ ctl' = Controller(bus # "dominant")
  /\ health' = NewHealth
  /\ attempt' = [pending |-> FALSE, since |-> 0, recovery |-> 0, events |-> 0]
  /\ read' = NothingRead
  /\ pc' = IF bus = "dominant" THEN "halted" ELSE "service"
  /\ relapsed' = FALSE
  /\ faulty' = (bus # "good")
  /\ boots' = 1 - boots

\* A failed attempt: the third in a row resets the node.
GiveUp(h) == h.failures >= MaxFailures

\* APP_ServiceCanHealth, while an attempt is being settled.
AwaitSettle ==
  /\ pc = "service"
  /\ attempt.pending /\ attempt.since < Settle
  /\ pc' = "summary"
  /\ UNCHANGED <<bus, ctl, health, read, attempt, history>>

\* The verdict, from ESR and the number of bus-off events.
Verdict_countsOnly(c) == health.events = attempt.events
Verdict(c) == ~c.boff /\ health.events = attempt.events

ReadVerdict ==
  /\ pc = "service"
  /\ attempt.pending /\ attempt.since >= Settle
  /\ attempt' = [attempt EXCEPT !.pending = FALSE]
  /\ read' = [read EXCEPT !.ok = Verdict(ctl)]
  /\ pc' = "judge"
  /\ UNCHANGED <<bus, ctl, health, history>>

\* CanHealth_AttemptRecovery with the verdict.
Judge ==
  /\ pc = "judge"
  /\ \/ /\ read.ok
        /\ health' = MarkRecovered(health)
        /\ pc' = "summary"
        /\ UNCHANGED <<ctl, read, attempt, history>>
     \/ /\ ~read.ok /\ ~GiveUp(MarkFailed(health))
        /\ health' = MarkFailed(health)
        /\ pc' = "summary"
        /\ UNCHANGED <<ctl, read, attempt, history>>
     \/ /\ ~read.ok /\ GiveUp(MarkFailed(health))
        /\ Reset
  /\ UNCHANGED bus

NothingToRecover ==
  /\ pc = "service" /\ ~attempt.pending
  /\ health.state # "busOff" \/ attempt.recovery < Period
  /\ pc' = "summary"
  /\ UNCHANGED <<bus, ctl, health, read, attempt, history>>

\* CanDriver_Recover resets the controller; it starts unless the bus is
\* dominant, and only one that started has its interrupts enabled.
AttemptStarted_stale == [attempt EXCEPT !.pending = TRUE, !.since = 0, !.recovery = 0]
AttemptStarted ==
  [pending |-> TRUE, since |-> 0, recovery |-> 0, events |-> health.events]

RecoverStarts ==
  /\ bus # "dominant"
  /\ ctl' = Controller(TRUE)
  /\ attempt' = AttemptStarted
  /\ pc' = "summary"
  /\ relapsed' = FALSE /\ faulty' = (bus # "good")
  /\ UNCHANGED <<health, read, boots>>

RecoverFails ==
  /\ bus = "dominant"
  /\ \/ /\ ~GiveUp(MarkFailed(health))
        /\ ctl' = Controller(FALSE)
        /\ health' = MarkFailed(health)
        /\ attempt' = [attempt EXCEPT !.recovery = 0]
        /\ pc' = "summary"
        /\ relapsed' = FALSE /\ faulty' = TRUE
        /\ UNCHANGED <<read, boots>>
     \/ /\ GiveUp(MarkFailed(health))
        /\ Reset

Recover ==
  /\ pc = "service" /\ ~attempt.pending
  /\ health.state = "busOff" /\ attempt.recovery >= Period
  /\ RecoverStarts \/ RecoverFails
  /\ UNCHANGED bus

\* APP_UpdateHealthSummary: ESR is read, then the record is synchronised with
\* it in steps between which the interrupt may come.
BusOffFlag_notRead(c) == FALSE
BusOffFlag(c) == c.boff

ReadErrorCounters ==
  /\ pc = "summary"
  /\ read' = [read EXCEPT !.tec = ctl.tec, !.rec = ctl.rec, !.boff = BusOffFlag(ctl)]
  /\ pc' = "sync"
  /\ UNCHANGED <<bus, ctl, health, attempt, history>>

Sync ==
  /\ pc = "sync"
  /\ health' = [health EXCEPT !.tec = read.tec, !.rec = read.rec]
  /\ \/ /\ health.state = "busOff" /\ ~read.boff
        /\ pc' = "service"
        /\ UNCHANGED read
     \/ /\ health.state # "busOff" \/ read.boff
        /\ LET g == SyncHardwareCounters(health, read.tec, read.rec, read.boff) IN
             read' = [read EXCEPT !.state = g.state, !.count = g.events # health.events]
        /\ pc' = "store"
  /\ UNCHANGED <<bus, ctl, attempt, history>>

\* The state is stored, and a bus-off counted, as decided before.
StoreState ==
  /\ pc = "store"
  /\ health' = [health EXCEPT !.state = read.state,
                  !.events = IF read.count THEN (@ + 1) % EventMod ELSE @,
                  !.tec = IF read.boff THEN Larger(@, BusOffAt) ELSE @]
  /\ pc' = "service"
  /\ UNCHANGED <<bus, ctl, read, attempt, history>>

MainLoop ==
  \/ AwaitSettle \/ ReadVerdict \/ Judge \/ NothingToRecover \/ Recover
  \/ ReadErrorCounters \/ Sync \/ StoreState

Next == MainLoop \/ BusError \/ BusSuccess \/ BusChanges \/ Elapse

\* The main loop runs, time passes, and frames are sent on a good bus.
Fairness == WF_vars(MainLoop) /\ WF_vars(Elapse) /\ WF_vars(BusSuccess)

Spec == Init /\ [][Next]_vars /\ Fairness

-------------------------------------------------------------------------------
\* Type invariant of the health record, the controller and the recovery.
TypeOK ==
  /\ bus \in Buses
  /\ ctl \in [tec : 0..(BusOffAt - 1), rec : 0..PassiveAt, boff : BOOLEAN, irq : BOOLEAN]
  /\ health \in [state : States, tec : 0..BusOffAt, rec : 0..PassiveAt,
                 events : 0..(EventMod - 1), failures : 0..(MaxFailures - 1)]
  /\ pc \in {"service", "judge", "summary", "sync", "store", "halted"}
  /\ read \in [tec : 0..(BusOffAt - 1), rec : 0..PassiveAt, boff : BOOLEAN,
               state : States, count : BOOLEAN, ok : BOOLEAN]
  /\ attempt \in [pending : BOOLEAN, since : 0..Settle, recovery : 0..Period,
                  events : 0..(EventMod - 1)]
  /\ relapsed \in BOOLEAN /\ faulty \in BOOLEAN /\ boots \in {0, 1}

\* A recovery is judged a success exactly when the controller stayed on the
\* bus for the whole settle time (APP_ServiceCanHealth), although a relapse is
\* not counted as an event while the record still says bus-off.
VerdictSound ==
  [][pc = "service" /\ pc' = "judge" => (read'.ok <=> ~relapsed)]_vars

\* No node is reset whose bus has been good since its last recovery began.
NoNeedlessReset == [][boots' # boots => faulty]_vars

\* The node is on the bus and says so.
OnBus == ~ctl.boff /\ ctl.irq /\ health.state = "active"

\* Once the bus stays good the node comes back by itself and its record agrees
\* with the controller, whatever the interrupt overwrote meanwhile; only a node
\* that booted on a dominant bus does not.
RecoversWhenHealed ==
  <>[](bus = "good") /\ [](pc # "halted") => <>[]OnBus
===============================================================================
