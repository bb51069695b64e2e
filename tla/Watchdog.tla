------------------------------ MODULE Watchdog ------------------------------
(***************************************************************************)
(* The window watchdog of a node and the main loop that refreshes it       *)
(* (firmware/common/watchdog.c and the loop of both main.c).               *)
(*                                                                         *)
(* An iteration samples HAL_GetTick, works, refreshes the watchdog if the  *)
(* sampled tick is Refresh past the one of the last refresh, and calls     *)
(* HAL_Delay.  The refresh is thus scheduled by sampled ticks and happens  *)
(* an iteration's work later, while the hardware counts from refresh to    *)
(* refresh: one that comes too early resets the node like one that comes   *)
(* too late.                                                               *)
(*                                                                         *)
(* The unit of time is the millisecond tick.  Ticks of the code are        *)
(* compared by unsigned difference, so the model keeps the differences.    *)
(***************************************************************************)
EXTENDS Naturals

CONSTANTS
  Refresh,       \* WATCHDOG_WWDG_REFRESH_MS
  Delay,         \* ticks HAL_Delay(10) waits, 11: it adds one to its argument
  Work,          \* bound on the ticks that pass while an iteration works
  RecoverWork,   \* the same when it recovers the controller, whose start may time out
  RecoverPeriod, \* APP_CAN_RECOVERY_PERIOD_MS
  Closed,        \* ticks after which a refresh is surely inside the window
  Open           \* ticks for which the counter surely has not run out

ASSUME WatchdogAssumption ==
  /\ Refresh \in Nat /\ Delay \in Nat /\ RecoverPeriod \in Nat
  /\ Work \in Nat /\ RecoverWork \in Nat /\ Work <= RecoverWork
  /\ Closed \in Nat /\ Open \in Nat

\* What the loop relies on: the second or third iteration after a refresh is
\* the first to find the next one due, two delays outlast the closed part of
\* the window, and three delays with one recovery among the iterations end
\* before the counter does.
ASSUME TimingAssumption ==
  /\ RecoverWork + Delay < Refresh
  /\ Refresh <= 3 * Delay
  /\ Closed <= 2 * Delay
  /\ 3 * Delay + 3 * Work + RecoverWork <= Open
  /\ Open < RecoverPeriod

VARIABLES
  at,            \* "work" or "delay"
  spent,         \* ticks since it was set
  recovering,    \* whether this iteration recovers the controller
  sample,        \* now - s_wwdg_last_refresh_tick of this iteration
  sinceSampled,  \* HAL_GetTick() - s_wwdg_last_refresh_tick
  sinceRefresh,  \* ticks since the counter was reloaded
  sinceRecovery, \* ticks since the last recovery, at most RecoverPeriod
  reset          \* what the watchdog reset the node for, if it did

loop == <<at, spent, recovering, sample>>
watchdogVars == <<loop, sinceSampled, sinceRefresh, sinceRecovery, reset>>

\* Watchdog_WwdgInit, just before the first iteration.
WatchdogInit ==
  /\ at = "work" /\ spent = 0 /\ recovering = FALSE
  /\ sample = 0 /\ sinceSampled = 0 /\ sinceRefresh = 0
  /\ sinceRecovery = 0
  /\ reset = "none"

\* The tick is sampled; APP_ServiceCanHealth recovers at most once a period.
StartIteration ==
  /\ at = "delay" /\ spent = Delay
  /\ at' = "work" /\ spent' = 0
  /\ sample' = sinceSampled
  /\ \/ /\ recovering' = FALSE
        /\ UNCHANGED sinceRecovery
     \/ /\ sinceRecovery = RecoverPeriod
        /\ recovering' = TRUE
        /\ sinceRecovery' = 0
  /\ UNCHANGED <<sinceSampled, sinceRefresh, reset>>

\* Watchdog_WwdgService and Watchdog_WwdgKick; the tick of the last refresh
\* is the sampled one, which is spent ticks old by then.
RefreshDue_always == TRUE
RefreshDue == sample >= Refresh

Service ==
  /\ at = "work"
  /\ at' = "delay" /\ spent' = 0
  /\ \/ /\ RefreshDue
        /\ sinceSampled' = spent
        /\ sinceRefresh' = 0
        /\ reset' = IF sinceRefresh < Closed THEN "early" ELSE reset
     \/ /\ ~RefreshDue
        /\ UNCHANGED <<sinceSampled, sinceRefresh, reset>>
  /\ UNCHANGED <<recovering, sample, sinceRecovery>>

WorkBound == IF recovering THEN RecoverWork ELSE Work

Tick ==
  /\ spent < IF at = "work" THEN WorkBound ELSE Delay
  /\ spent' = spent + 1
  /\ sinceSampled' = sinceSampled + 1
  /\ sinceRefresh' = sinceRefresh + 1
  /\ sinceRecovery' = IF sinceRecovery < RecoverPeriod THEN sinceRecovery + 1
                                                       ELSE RecoverPeriod
  /\ reset' = IF sinceRefresh >= Open THEN "late" ELSE reset
  /\ UNCHANGED <<at, recovering, sample>>

WatchdogNext == reset = "none" /\ (StartIteration \/ Service \/ Tick)

WatchdogSpec == WatchdogInit /\ [][WatchdogNext]_watchdogVars

-------------------------------------------------------------------------------
\* The main loop never makes the window watchdog reset the node: whatever the
\* lengths of its iterations, also of those that wait for a controller that
\* does not start, every refresh falls into the window.
NoWatchdogReset == reset = "none"
===============================================================================
