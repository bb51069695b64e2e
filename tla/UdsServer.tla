------------------------------ MODULE UdsServer ------------------------------
(***************************************************************************)
(* The UDS server of a node: sessions and their S3 timeout, security       *)
(* access, DIDs written through the parameter storage, routines, and the   *)
(* responses that are announced with NRC 78 and completed by               *)
(* UdsServer_PollPending (firmware/common/uds_server.c, uds_ecu.c,         *)
(* uds_did_db.c).                                                          *)
(*                                                                         *)
(* Every request starts with UdsServer_Tick.  Times are HAL_GetTick values *)
(* modulo TimeMod.  The storage is the one DurableStore describes, seen    *)
(* between its calls: a save or a clear succeeds or has no effect.         *)
(***************************************************************************)
EXTENDS Naturals, FiniteSets

CONSTANTS
  S3,           \* s3_server_ms
  Delay,        \* UDS_SECURITY_DELAY_MS
  MaxAttempts,  \* UDS_SECURITY_MAX_ATTEMPTS
  TimeMod,      \* 2^32
  StartAt,      \* tick count when a behaviour begins
  Horizon,      \* bound on the ticks of a behaviour
  Services,     \* services the tester uses
  Suppressible  \* those it requests with the suppress-positive-response bit, too

ASSUME UdsAssumption ==
  /\ {S3, Delay, MaxAttempts} \subseteq Nat \ {0}
  /\ TimeMod \in Nat \ {0} /\ S3 < TimeMod \div 2 /\ Delay < TimeMod \div 2
  /\ StartAt \in 0..(TimeMod - 1) /\ Horizon \in Nat
  /\ Services \subseteq {"10", "22", "27", "2E", "31", "3E"}
  /\ Suppressible \subseteq Services

VARIABLES
  srv,        \* UdsServer_t
  ram,        \* values of the writable DIDs, as 0x22 reads them
  stored,     \* parameter storage
  elapsed,    \* ticks since the behaviour began
  waiting,    \* whether the tester waits for final responses
  owed,       \* of each deferring service: is a final response owed?
  quiet,      \* ticks since the session was last kept alive, at most S3
  lockout     \* ticks since the last lock-out, at most Delay

history == <<owed, quiet, lockout>>
vars == <<srv, ram, stored, elapsed, waiting, history>>

Sessions == {"default", "programming", "extended"}
WritableDids == {"vin", "custom"}
Dids == WritableDids \cup {"hardware"}
Routines == {"selfTest", "erase"}

\* Written data: of a length the storage takes, or beyond what a pending write
\* holds.  Data of length 0 is announced, too; its save fails, as any may.
Values == {"new"}
Data == Values \cup {"tooLong"}

\* Services that announce their response with NRC 78.
Deferring == {"2E", "31"}

NoWrite == [did |-> "none", data |-> "none"]
NoRoutine == [routine |-> "none", suppress |-> FALSE]

Now == (StartAt + elapsed) % TimeMod
After_unwrapped(n) == Now + n
After(n) == (Now + n) % TimeMod

\* UdsServer_TimeReached.
TimeReached(deadline) == (Now + TimeMod - deadline) % TimeMod < TimeMod \div 2

\* Values of the DIDs: UdsDidDb_Init, then UdsDidDb_AttachStorage.
LoadDids(st) ==
  [d \in WritableDids |-> IF st[d] = "unset" THEN "default" ELSE st[d]]

Init ==
  /\ stored \in [WritableDids -> Values \cup {"unset"}]
  /\ ram = LoadDids(stored)
  /\ srv = [session |-> "default", s3Active |-> FALSE, s3Deadline |-> 0,
            timeouts |-> 0, seedPending |-> FALSE, unlocked |-> FALSE,
            attempts |-> 0, delayUntil |-> 0,
            write |-> NoWrite, routine |-> NoRoutine,
            state |-> [r \in Routines |-> "idle"],
            progress |-> [r \in Routines |-> "fresh"]]
  /\ elapsed = 0 /\ waiting = FALSE
  /\ owed = [sid \in Deferring |-> "none"] /\ quiet = S3 /\ lockout = Delay

-------------------------------------------------------------------------------
\* UdsServer_LockSecurityState, _SetSession, _KeepSessionAlive and _Tick.

LockSecurity(s) ==
  [s EXCEPT !.unlocked = FALSE, !.seedPending = FALSE, !.attempts = 0]

SetSession_stays(s, session) ==
  [s EXCEPT !.session = session, !.s3Active = session # "default",
            !.s3Deadline = IF session = "default" THEN 0 ELSE After(S3)]
SetSession(s, session) ==
  LET t == IF session = s.session THEN s ELSE LockSecurity(s) IN
  [t EXCEPT !.session = session, !.s3Active = session # "default",
            !.s3Deadline = IF session = "default" THEN 0 ELSE After(S3)]

KeepAlive_never(s) == s
KeepAlive(s) == IF s.s3Active THEN [s EXCEPT !.s3Deadline = After(S3)] ELSE s

S3Expired_never(s) == FALSE
S3Expired(s) == s.s3Active /\ TimeReached(s.s3Deadline)

Ticked(s) ==
  IF S3Expired(s)
  THEN LockSecurity([s EXCEPT !.session = "default", !.s3Active = FALSE,
                              !.s3Deadline = 0, !.timeouts = @ + 1])
  ELSE s

-------------------------------------------------------------------------------
\* Responses: "ok" is the positive one, "78" announces a final response, which
\* UdsServer_PollPending sends.  Any other answers the request it follows, and
\* never an NRC 78 sent before.

\* The tester asks again before it has the final response: it announces another
\* write, or sends another request about routines.
Repeats(sid, nrc) ==
  sid \in Deferring /\ owed[sid] # "none" /\ (sid = "31" \/ nrc = "78")

\* It does so at the price of the final response it has not waited for:
\* "repeated" says that one NRC 78 may never get its own, until the next one.
Announce(sid, nrc) ==
  \/ /\ Repeats(sid, nrc)
     /\ owed' = [owed EXCEPT ![sid] = "repeated"]
  \/ /\ ~Repeats(sid, nrc) /\ nrc = "78"
     /\ owed' = [owed EXCEPT ![sid] = "owed"]
  \/ /\ ~Repeats(sid, nrc) /\ nrc # "78"
     /\ UNCHANGED owed

\* The final response.
Finish(sid) == owed' = [owed EXCEPT ![sid] = "none"]

\* Only a positive response or NRC 78 that is sent keeps the session alive; a
\* positive response may be suppressed.
Respond(s, sid, nrc, suppressed) ==
  LET kept == nrc = "78" \/ (nrc = "ok" /\ ~suppressed) IN
  /\ Announce(sid, nrc)
  /\ \/ kept /\ srv' = KeepAlive(s) /\ quiet' = 0
     \/ ~kept /\ srv' = s /\ UNCHANGED quiet

SuppressBit(sid) == {FALSE} \cup {sid \in Suppressible}

MayRequest(sid) == sid \in Services /\ ~waiting

-------------------------------------------------------------------------------
\* 0x10, UdsServer_SessionControl.  The session is kept alive, here and by
\* 0x3E, also if the response is suppressed.
SessionControl(session) ==
  /\ MayRequest("10")
  /\ srv' = SetSession(Ticked(srv), session)
  /\ quiet' = 0
  /\ UNCHANGED <<ram, stored, elapsed, owed, lockout>>

\* 0x3E, UdsServer_TesterPresent.
TesterPresent ==
  /\ MayRequest("3E")
  /\ srv' = KeepAlive(Ticked(srv))
  /\ quiet' = 0
  /\ UNCHANGED <<ram, stored, elapsed, owed, lockout>>

\* 0x22, UdsServer_ReadDid: every DID of the nodes is readable in any session.
\* Values that do not fit into the response buffer are not answered at all.
ReadDid ==
  /\ MayRequest("22")
  /\ \/ Respond(Ticked(srv), "22", "31", FALSE)
     \/ \E tooLong \in BOOLEAN : Respond(Ticked(srv), "22", "ok", tooLong)
  /\ UNCHANGED <<ram, stored, elapsed, lockout>>

\* A request of any service that fails the checks made before the server's
\* state is looked at: its length, its subfunction.
Malformed(sid) ==
  /\ MayRequest(sid)
  /\ Respond(Ticked(srv), sid, "13", FALSE)
  /\ UNCHANGED <<ram, stored, elapsed, lockout>>

-------------------------------------------------------------------------------
\* 0x27, UdsServer_SecurityAccess.

DelayActive(s) == s.delayUntil # 0 /\ ~TimeReached(s.delayUntil)

\* UdsServer_SecurityDelayActive ends a delay that has run out; a value of 0
\* stands for no delay.
EndDelay(s) ==
  IF s.delayUntil # 0 /\ TimeReached(s.delayUntil)
  THEN [s EXCEPT !.delayUntil = 0, !.attempts = 0]
  ELSE s

SecurityRefused(s) ==
  \/ /\ s.session = "default"
     /\ Respond(s, "27", "7E", FALSE)
  \/ /\ s.session # "default"
     /\ DelayActive(s)
     /\ Respond(s, "27", "37", FALSE)

SecurityAllowed(s) == s.session # "default" /\ ~DelayActive(s)

RequestSeed(suppressed) ==
  LET s == Ticked(srv)
      t == EndDelay(s)
  IN
  /\ MayRequest("27")
  /\ \/ SecurityRefused(s)
     \/ /\ SecurityAllowed(s)
        /\ Respond([t EXCEPT !.seedPending = @ \/ ~t.unlocked], "27", "ok", suppressed)
  /\ UNCHANGED <<ram, stored, elapsed, lockout>>

LockOut_early(s) == [s EXCEPT !.attempts = 0, !.delayUntil = After(Delay - 1)]
LockOut_long(s) == [s EXCEPT !.attempts = 0, !.delayUntil = After(Delay + 1)]
LockOut(s) == [s EXCEPT !.attempts = 0, !.delayUntil = After(Delay)]

\* The key is checked against a seed that is used once.  The length of the
\* request is checked after the delay, in SendKey.
CheckKey(t, correct, suppressed) ==
  LET u == [t EXCEPT !.seedPending = FALSE]
      last == t.attempts + 1 >= MaxAttempts
  IN
  \/ /\ correct
     /\ Respond([u EXCEPT !.unlocked = TRUE, !.attempts = 0, !.delayUntil = 0],
                "27", "ok", suppressed)
     /\ UNCHANGED lockout
  \/ /\ ~correct /\ ~last
     /\ Respond([u EXCEPT !.attempts = @ + 1], "27", "35", FALSE)
     /\ UNCHANGED lockout
  \/ /\ ~correct /\ last
     /\ Respond(LockOut(u), "27", "36", FALSE)
     /\ lockout' = 0

SendKey(correct, suppressed) ==
  LET s == Ticked(srv)
      t == EndDelay(s)
  IN
  /\ MayRequest("27")
  /\ \/ SecurityRefused(s) /\ UNCHANGED lockout
     \/ /\ SecurityAllowed(s)
        /\ Respond(t, "27", "13", FALSE)
        /\ UNCHANGED lockout
     \/ /\ SecurityAllowed(s) /\ ~t.seedPending
        /\ Respond(t, "27", "24", FALSE)
        /\ UNCHANGED lockout
     \/ /\ SecurityAllowed(s) /\ t.seedPending
        /\ CheckKey(t, correct, suppressed)
  /\ UNCHANGED <<ram, stored, elapsed>>

-------------------------------------------------------------------------------
\* 0x2E, UdsServer_WriteDid: a legal write is only armed.  A write that is
\* still pending is replaced.
WriteNrc(s, did, data) ==
  IF did \notin WritableDids THEN "31"
  ELSE IF s.session = "default" THEN "7E"
  ELSE IF ~s.unlocked THEN "33"
  ELSE IF did = "vin" /\ s.session # "programming" THEN "22"
  ELSE IF data = "tooLong" THEN "31"
  ELSE "78"

WriteDid(did, data) ==
  LET s == Ticked(srv)
      nrc == WriteNrc(s, did, data)
      t == IF nrc = "78" THEN [s EXCEPT !.write = [did |-> did, data |-> data]] ELSE s
  IN
  /\ MayRequest("2E")
  /\ Respond(t, "2E", nrc, FALSE)
  /\ UNCHANGED <<ram, stored, elapsed, lockout>>

-------------------------------------------------------------------------------
\* 0x31, UdsServer_RoutineControl with UdsEcu_RoutineHandler.

\* A request about the routine whose results are pending cancels them.
Cancel(s, r) == IF s.routine.routine = r THEN [s EXCEPT !.routine = NoRoutine] ELSE s

RoutineRefused(s, r) ==
  \/ s.session = "default" /\ Respond(s, "31", "7E", FALSE)
  \/ /\ s.session # "default" /\ r = "erase" /\ ~s.unlocked
     /\ Respond(s, "31", "33", FALSE)

RoutineAllowed(s, r) == s.session # "default" /\ (r = "erase" => s.unlocked)

RoutineStart(r, suppressed) ==
  LET s == Cancel(Ticked(srv), r) IN
  /\ MayRequest("31")
  /\ \/ RoutineRefused(s, r)
     \/ /\ RoutineAllowed(s, r) /\ s.state[r] = "running"
        /\ Respond(s, "31", "22", FALSE)
     \/ /\ RoutineAllowed(s, r) /\ s.state[r] # "running"
        /\ Respond([s EXCEPT !.state[r] = "running", !.progress[r] = "fresh"],
                   "31", "ok", suppressed)
  /\ UNCHANGED <<ram, stored, elapsed, lockout>>

RoutineStop(r, suppressed) ==
  LET s == Cancel(Ticked(srv), r) IN
  /\ MayRequest("31")
  /\ \/ RoutineRefused(s, r)
     \/ /\ RoutineAllowed(s, r) /\ s.state[r] # "running"
        /\ Respond(s, "31", "24", FALSE)
     \/ /\ RoutineAllowed(s, r) /\ s.state[r] = "running"
        /\ Respond([s EXCEPT !.state[r] = "idle", !.progress[r] = "fresh"],
                   "31", "ok", suppressed)
  /\ UNCHANGED <<ram, stored, elapsed, lockout>>

\* UdsEcu_ResetDids after the parameters were cleared.
ResetDids_skipped(st) == ram
ResetDids(st) == LoadDids(st)

\* What UdsEcu_RoutineHandler does when asked for results a second time.
Execute(r) ==
  \/ UNCHANGED <<ram, stored>>
  \/ /\ r = "erase"
     /\ stored' = [d \in WritableDids |-> "unset"]
     /\ ram' = ResetDids(stored')

Completed(s, r) == [s EXCEPT !.state[r] = "complete", !.progress[r] = "executed"]

RoutineResults(r, suppressed) ==
  LET s == Cancel(Ticked(srv), r) IN
  /\ MayRequest("31")
  /\ \/ RoutineRefused(s, r) /\ UNCHANGED <<ram, stored>>
     \/ /\ RoutineAllowed(s, r) /\ s.state[r] = "idle"
        /\ Respond(s, "31", "24", FALSE)
        /\ UNCHANGED <<ram, stored>>
     \/ /\ RoutineAllowed(s, r) /\ s.state[r] = "complete"
        /\ Respond(s, "31", "ok", suppressed)
        /\ UNCHANGED <<ram, stored>>
     \/ /\ RoutineAllowed(s, r) /\ s.state[r] = "running" /\ s.progress[r] = "fresh"
        /\ Respond([s EXCEPT !.progress[r] = "polled",
                             !.routine = [routine |-> r, suppress |-> suppressed]],
                   "31", "78", FALSE)
        /\ UNCHANGED <<ram, stored>>
     \/ /\ RoutineAllowed(s, r) /\ s.state[r] = "running" /\ s.progress[r] # "fresh"
        /\ Execute(r)
        /\ Respond(Completed(s, r), "31", "ok", suppressed)
  /\ UNCHANGED <<elapsed, lockout>>

\* An unknown subfunction cancels pending results as well.
RoutineUnsupported(r) ==
  /\ MayRequest("31")
  /\ Respond(Cancel(Ticked(srv), r), "31", "12", FALSE)
  /\ UNCHANGED <<ram, stored, elapsed, lockout>>

-------------------------------------------------------------------------------
\* UdsServer_PollPending, by the main loop when the transport is free: a
\* pending write first, then pending results.

SaveFailed_silent == UNCHANGED owed
SaveFailed == Finish("2E")

PollWrite ==
  /\ srv.write # NoWrite
  /\ srv' = [srv EXCEPT !.write = NoWrite]
  /\ \/ /\ stored' = [stored EXCEPT ![srv.write.did] = srv.write.data]
        /\ ram' = [ram EXCEPT ![srv.write.did] = srv.write.data]
        /\ Finish("2E")
     \/ SaveFailed /\ UNCHANGED <<ram, stored>>
  /\ UNCHANGED <<elapsed, quiet, lockout>>

PollRoutine ==
  /\ srv.write = NoWrite
  /\ srv.routine # NoRoutine
  /\ Execute(srv.routine.routine)
  /\ srv' = Completed([srv EXCEPT !.routine = NoRoutine], srv.routine.routine)
  /\ IF srv.routine.suppress THEN UNCHANGED owed ELSE Finish("31")
  /\ UNCHANGED <<elapsed, quiet, lockout>>

PollPending_writesOnly == PollWrite
PollPending == PollWrite \/ PollRoutine

-------------------------------------------------------------------------------
\* UdsEcu_Tick, every main-loop iteration.  A tick of the model stands for the
\* time of an iteration, so the server is ticked at least once in it.
Tick ==
  /\ srv' = Ticked(srv)
  /\ UNCHANGED <<ram, stored, elapsed, history>>

Elapse ==
  /\ srv = Ticked(srv)
  /\ elapsed < Horizon
  /\ elapsed' = elapsed + 1
  /\ quiet' = IF quiet < S3 THEN quiet + 1 ELSE S3
  /\ lockout' = IF lockout < Delay THEN lockout + 1 ELSE Delay
  /\ UNCHANGED <<srv, ram, stored, owed>>

Request ==
  \/ \E session \in Sessions : SessionControl(session)
  \/ TesterPresent
  \/ ReadDid
  \/ \E sid \in Services : Malformed(sid)
  \/ \E suppressed \in SuppressBit("27") :
       \/ RequestSeed(suppressed)
       \/ \E correct \in BOOLEAN : SendKey(correct, suppressed)
  \/ \E did \in Dids, data \in Data : WriteDid(did, data)
  \/ \E r \in Routines, suppressed \in SuppressBit("31") :
       \/ RoutineStart(r, suppressed)
       \/ RoutineStop(r, suppressed)
       \/ RoutineResults(r, suppressed)
       \/ RoutineUnsupported(r)

\* The tester sends no other request until it has the final responses.
Awaited == \E sid \in Deferring : owed[sid] = "owed"

Wait ==
  /\ ~waiting /\ Awaited
  /\ waiting' = TRUE
  /\ UNCHANGED <<srv, ram, stored, elapsed, history>>

Poll == PollPending /\ waiting' = (waiting /\ Awaited')

Next ==
  \/ Wait
  \/ Poll
  \/ (Request \/ Tick \/ Elapse) /\ UNCHANGED waiting

\* An iteration of the main loop that finds the endpoint free serves a request
\* if there is one, whose response occupies the endpoint, and else it polls.
\* Requests that keep coming can keep the loop from polling; while the tester
\* waits, nothing does.
Fairness == WF_vars(waiting /\ Poll)

Spec == Init /\ [][Next]_vars /\ Fairness

-------------------------------------------------------------------------------
\* Type invariant of the server and its storage.
TypeOK ==
  /\ srv.session \in Sessions
  /\ srv.s3Active \in BOOLEAN /\ srv.s3Deadline \in 0..(TimeMod - 1)
  /\ srv.timeouts \in 0..Horizon
  /\ srv.seedPending \in BOOLEAN /\ srv.unlocked \in BOOLEAN
  /\ srv.attempts \in 0..(MaxAttempts - 1) /\ srv.delayUntil \in 0..(TimeMod - 1)
  /\ srv.write = NoWrite \/ srv.write \in [did : WritableDids, data : Values]
  /\ srv.routine = NoRoutine \/ srv.routine \in [routine : Routines, suppress : BOOLEAN]
  /\ srv.state \in [Routines -> {"idle", "running", "complete"}]
  /\ srv.progress \in [Routines -> {"fresh", "polled", "executed"}]
  /\ ram \in [WritableDids -> Values \cup {"default"}]
  /\ stored \in [WritableDids -> Values \cup {"unset"}]
  /\ owed \in [Deferring -> {"none", "owed", "repeated"}]

\* A session nobody keeps alive ends: no request is served in a session that
\* was silent for S3, also across the wrap of the tick counter.
SessionExpires ==
  srv.session # "default" => quiet < S3 \/ srv # Ticked(srv)

\* A session that is kept alive is not timed out, also across the wrap.
SessionKept ==
  [][srv'.timeouts # srv.timeouts => quiet >= S3]_vars

\* Security is unlocked, and a seed outstanding, only in the session in which
\* it was asked for: changing or losing the session locks it.
LockedBySessionChange ==
  [][srv'.session # srv.session => ~srv'.unlocked /\ ~srv'.seedPending]_vars

\* For Delay ticks after MaxAttempts wrong keys the server neither issues a
\* seed nor unlocks, whatever happens to the session meanwhile.
DelayHolds ==
  lockout < Delay => ~srv.unlocked /\ ~srv.seedPending

\* Once Delay ticks have passed since the lock-out, security access is no longer
\* refused for it (UdsServer_SecurityDelayActive).
DelayEnds ==
  srv.session # "default" /\ DelayActive(srv) => lockout < Delay

\* 0x22 returns what the storage holds, never a value that a reboot would
\* take back: through failed saves, replaced writes and the erase routine.
RamIsDurable == ram = LoadDids(stored)

\* The server has a write or results to complete.
Pending(sid) == IF sid = "2E" THEN srv.write # NoWrite ELSE srv.routine # NoRoutine

\* An NRC 78 that has no final response yet is still pending in the server,
\* whatever else the tester requests meanwhile, and through failed saves, lost
\* sessions and a locked security, unless the tester asks again
\* (UdsServer_WriteDid, UdsServer_RoutineControl).  And UdsServer_PollPending
\* sends no response that was not announced.
PendingIsOwed ==
  \A sid \in Deferring :
    /\ owed[sid] = "owed" => Pending(sid)
    /\ Pending(sid) => owed[sid] # "none"

\* A tester that waits for the responses NRC 78 has announced gets all of them,
\* whatever saves fail and however the session ends meanwhile.  A tester that
\* asks again, or never waits, is promised nothing.
FinalResponse == waiting /\ Awaited ~> ~Awaited
==============================================================================
