--------------------------- MODULE UdsServerProofs ---------------------------
(***************************************************************************)
(* Proofs about module UdsServer, for every S3 time, delay, number of      *)
(* attempts and width of the tick counter, and for a tester that sends     *)
(* whatever it likes.  Three of the theorems have premises the code does   *)
(* not enforce; each names them.                                           *)
(***************************************************************************)
EXTENDS UdsServer, TLAPS

-------------------------------------------------------------------------------
(* Times modulo TimeMod. *)

LEMMA ModRange ==
  ASSUME NEW T \in Nat \ {0}, NEW x \in Nat
  PROVE  /\ x % T \in 0..(T - 1)
         /\ x \div T \in Nat
         /\ x = T * (x \div T) + (x % T)
  BY SMT

\* Multiples of T are T apart.
LEMMA MultiplesApart ==
  ASSUME NEW T \in Nat \ {0}, NEW p \in Nat, NEW q \in Nat, p < q
  PROVE  T * p + T <= T * q
<1>1. PICK k \in Nat : q = p + 1 + k
  <2>1. q - p - 1 \in Nat
    BY SMT
  <2> QED BY <2>1, SMT
<1>2. T * (p + 1 + k) = T * p + T + T * k
  BY SMT
<1>3. T * k \in Nat /\ T * p \in Nat
  BY SMT
<1> QED BY <1>1, <1>2, <1>3, SMT

LEMMA RemainderUnique ==
  ASSUME NEW T \in Nat \ {0}, NEW n \in Nat, NEW q \in Nat, NEW s \in 0..(T - 1),
         n = T * q + s
  PROVE  n % T = s
<1> DEFINE p == n \div T
           u == n % T
<1>1. n = T * p + u /\ p \in Nat /\ u \in 0..(T - 1)
  BY SMT
<1>2. ~(p < q)
  BY <1>1, MultiplesApart, SMT
<1>3. ~(q < p)
  BY <1>1, MultiplesApart, SMT
<1>4. p = q
  BY <1>1, <1>2, <1>3, SMT
<1> QED BY <1>1, <1>4, SMT

LEMMA AddMod ==
  ASSUME NEW T \in Nat \ {0}, NEW x \in Nat, NEW d \in Nat, d < T
  PROVE  (x + d) % T = IF (x % T) + d < T THEN (x % T) + d ELSE ((x % T) + d) - T
<1>1. PICK q \in Nat, r \in 0..(T - 1) : x = T * q + r /\ r = x % T
  <2> WITNESS x \div T \in Nat, x % T \in 0..(T - 1)
  <2> QED BY ModRange
<1>2. CASE r + d < T
  <2>1. x + d = T * q + (r + d) /\ r + d \in 0..(T - 1) /\ x + d \in Nat
    BY <1>1, <1>2, SMT
  <2>2. (x + d) % T = r + d
    BY <1>1, <2>1, RemainderUnique
  <2> QED BY <1>1, <1>2, <2>2
<1>3. CASE ~(r + d < T)
  <2>1. x + d = T * (q + 1) + ((r + d) - T)
    BY <1>1, SMT
  <2>2. (r + d) - T \in 0..(T - 1) /\ q + 1 \in Nat /\ x + d \in Nat
    BY <1>1, <1>3, SMT
  <2>3. (x + d) % T = (r + d) - T
    BY <2>1, <2>2, RemainderUnique
  <2> QED BY <1>1, <1>3, <2>3
<1> QED BY <1>2, <1>3

\* Adding to a remainder is adding before the remainder is taken.
LEMMA AddModMod ==
  ASSUME NEW T \in Nat \ {0}, NEW x \in Nat, NEW d \in Nat, d < T
  PROVE  ((x % T) + d) % T = (x + d) % T
<1>1. PICK r \in 0..(T - 1) : r = x % T
  <2> WITNESS x % T \in 0..(T - 1)
  <2> QED BY ModRange
<1>2. r % T = r
  BY <1>1, SMT
<1>3. (r + d) % T = IF r + d < T THEN r + d ELSE (r + d) - T
  <2>1. r \in Nat
    BY <1>1, SMT
  <2> QED BY <1>2, <2>1, AddMod
<1> QED BY <1>1, <1>3, AddMod

\* The unsigned difference between two times less than T apart.
LEMMA Difference ==
  ASSUME NEW T \in Nat \ {0}, NEW x \in Nat, NEW d \in Nat, d < T
  PROVE  /\ ((((x + d) % T) + T) - (x % T)) % T = d
         /\ (((x % T) + T) - ((x + d) % T)) % T = IF d = 0 THEN 0 ELSE T - d
<1> SUFFICES ASSUME NEW r, NEW e, r = x % T, e = (x + d) % T
             PROVE  /\ ((e + T) - r) % T = d
                    /\ ((r + T) - e) % T = IF d = 0 THEN 0 ELSE T - d
  OBVIOUS
<1>1. r \in 0..(T - 1)
  BY ModRange
<1>2. e = IF r + d < T THEN r + d ELSE (r + d) - T
  BY AddMod
<1>3. ((e + T) - r) % T = d
  <2>1. (e + T) - r = d + T \/ (e + T) - r = d
    BY <1>1, <1>2, SMT
  <2>2. (d + T) % T = d /\ d % T = d
    BY SMT
  <2> QED BY <2>1, <2>2
<1>4. ((r + T) - e) % T = IF d = 0 THEN 0 ELSE T - d
  <2>1. CASE d = 0
    <3>1. (r + T) - e = T
      BY <1>1, <1>2, <2>1, SMT
    <3>2. T % T = 0
      BY SMT
    <3> QED BY <2>1, <3>1, <3>2
  <2>2. CASE d # 0
    <3>1. (r + T) - e = T - d \/ (r + T) - e = (T - d) + T
      BY <1>1, <1>2, SMT
    <3>2. (T - d) % T = T - d /\ ((T - d) + T) % T = T - d
      BY <2>2, SMT
    <3> QED BY <2>2, <3>1, <3>2
  <2> QED BY <2>1, <2>2
<1> QED BY <1>3, <1>4

-------------------------------------------------------------------------------
(* The inductive invariant. *)

\* What UdsServer_t may hold.
Deadlines == 0..(TimeMod - 1)
Attempts == 0..(MaxAttempts - 1)
Writes == {NoWrite} \cup [did : WritableDids, data : Values]
Results == {NoRoutine} \cup [routine : Routines, suppress : BOOLEAN]
RoutineStates == {"idle", "running", "complete"}
RoutineProgress == {"fresh", "polled", "executed"}

Server ==
  [session : Sessions, s3Active : BOOLEAN, s3Deadline : Deadlines,
   timeouts : Nat, seedPending : BOOLEAN, unlocked : BOOLEAN,
   attempts : Attempts, delayUntil : Deadlines, write : Writes, routine : Results,
   state : [Routines -> RoutineStates], progress : [Routines -> RoutineProgress]]

\* The deadline S3 past the last sign of life is running in every session but
\* the default one; a timeout takes a tick at least.
S3Kept(s, e, q) ==
  /\ s.s3Active = (s.session # "default")
  /\ s.s3Active => s.s3Deadline = (StartAt + e + (S3 - q)) % TimeMod
  /\ s.timeouts <= e
  /\ s.s3Active /\ q > 0 => s.timeouts < e

\* A key ends the seed it answers.
SeedOrKey(s) == ~(s.unlocked /\ s.seedPending)

DelayDeadline(t) == (StartAt + t + Delay) % TimeMod

\* A delay that has not been ended began at the last lock-out, at tick t.
DelayKept(s, e, l) ==
  s.delayUntil # 0 =>
    \E t \in 0..e : /\ s.delayUntil = DelayDeadline(t)
                    /\ l = IF e - t < Delay THEN e - t ELSE Delay

\* No delay has the deadline 0, which the server takes for none.
NoZeroDeadline == \A t \in 0..Horizon : DelayDeadline(t) # 0

Refusing(s, l) ==
  NoZeroDeadline /\ l < Delay =>
    s.delayUntil # 0 /\ ~s.unlocked /\ ~s.seedPending

\* What is announced and not asked again is pending, and what is pending is
\* announced, when no tester suppresses routine results.
PendingKept(s, o) ==
  "31" \notin Suppressible =>
    /\ o["2E"] = "owed" => s.write # NoWrite
    /\ s.write # NoWrite => o["2E"] # "none"
    /\ o["31"] = "owed" => s.routine # NoRoutine
    /\ s.routine # NoRoutine => o["31"] # "none"
    /\ s.routine.suppress = FALSE

Owings == [Deferring -> {"none", "owed", "repeated"}]

\* What a response that is not NRC 78 makes of what is owed, o.
Weakened(o, p) ==
  /\ p \in Owings
  /\ \A sid \in Deferring :
       p[sid] = o[sid] \/ (o[sid] # "none" /\ p[sid] = "repeated")

\* s is a state of the server at tick e, q ticks after the last sign of life
\* and l ticks after the last lock-out.
Sound(s, e, q, l) ==
  /\ s \in Server
  /\ S3Kept(s, e, q)
  /\ SeedOrKey(s)
  /\ DelayKept(s, e, l)
  /\ Refusing(s, l)

Storage ==
  /\ ram \in [WritableDids -> Values \cup {"default"}]
  /\ stored \in [WritableDids -> Values \cup {"unset"}]
  /\ RamIsDurable

Times ==
  /\ elapsed \in 0..Horizon /\ quiet \in 0..S3 /\ lockout \in 0..Delay

IInv ==
  /\ Times
  /\ Sound(srv, elapsed, quiet, lockout)
  /\ owed \in Owings
  /\ PendingKept(srv, owed)
  /\ Storage

-------------------------------------------------------------------------------
(* Times of the server. *)

LEMMA Constants ==
  /\ S3 \in Nat \ {0} /\ Delay \in Nat \ {0} /\ MaxAttempts \in Nat \ {0}
  /\ TimeMod \in Nat \ {0} /\ StartAt \in Nat /\ Horizon \in Nat
  /\ S3 < TimeMod \div 2 /\ Delay < TimeMod \div 2
  /\ TimeMod \div 2 \in Nat /\ TimeMod \div 2 <= TimeMod - (TimeMod \div 2)
  /\ TimeMod \div 2 < TimeMod
<1>1. /\ S3 \in Nat \ {0} /\ Delay \in Nat \ {0} /\ MaxAttempts \in Nat \ {0}
      /\ TimeMod \in Nat \ {0} /\ StartAt \in Nat /\ Horizon \in Nat
      /\ S3 < TimeMod \div 2 /\ Delay < TimeMod \div 2
  BY UdsAssumption DEF UdsAssumption
<1>2. /\ TimeMod \div 2 \in Nat /\ TimeMod \div 2 <= TimeMod - (TimeMod \div 2)
      /\ TimeMod \div 2 < TimeMod
  BY <1>1, SMT
<1> QED BY <1>1, <1>2

LEMMA DifferenceOfTimes ==
  ASSUME NEW x \in Nat, NEW d \in Nat, d < TimeMod
  PROVE  /\ ((((x + d) % TimeMod) + TimeMod) - (x % TimeMod)) % TimeMod = d
         /\ (((x % TimeMod) + TimeMod) - ((x + d) % TimeMod)) % TimeMod
              = IF d = 0 THEN 0 ELSE TimeMod - d
<1>1. TimeMod \in Nat \ {0}
  BY Constants
<1> QED BY <1>1, Difference, ZenonT(30)

LEMMA AfterIs ==
  ASSUME elapsed \in Nat, NEW d \in Nat, d < TimeMod
  PROVE  After(d) = (StartAt + elapsed + d) % TimeMod /\ After(d) \in 0..(TimeMod - 1)
<1>1. StartAt + elapsed \in Nat
  BY Constants, SMT
<1>2. (((StartAt + elapsed) % TimeMod) + d) % TimeMod = ((StartAt + elapsed) + d) % TimeMod
  BY <1>1, Constants, AddModMod
<1>3. (StartAt + elapsed) + d \in Nat
  BY <1>1, SMT
<1>4. ((StartAt + elapsed) + d) % TimeMod \in 0..(TimeMod - 1)
  BY <1>3, Constants, ModRange
<1> QED BY <1>2, <1>4 DEF After, Now

\* A deadline less than half the range ahead is reached when it is now.
LEMMA NotReachedBefore ==
  ASSUME elapsed \in Nat, NEW d \in Nat, d < TimeMod \div 2
  PROVE  TimeReached((StartAt + elapsed + d) % TimeMod) <=> d = 0
<1>1. PICK x \in Nat : x = StartAt + elapsed
  <2>1. StartAt + elapsed \in Nat
    BY Constants, SMT
  <2> QED BY <2>1
<1>2. d < TimeMod
  BY Constants, SMT
<1>3. PICK n \in Nat, e \in Nat : n = x % TimeMod /\ e = (x + d) % TimeMod
  <2>1. x + d \in Nat
    BY SMT
  <2>2. x % TimeMod \in Nat /\ (x + d) % TimeMod \in Nat
    BY <2>1, Constants, ModRange, SMT
  <2> QED BY <2>2
<1>4. ((n + TimeMod) - e) % TimeMod = IF d = 0 THEN 0 ELSE TimeMod - d
  <2>1. (((x % TimeMod) + TimeMod) - ((x + d) % TimeMod)) % TimeMod
           = IF d = 0 THEN 0 ELSE TimeMod - d
    BY <1>2, DifferenceOfTimes
  <2> QED BY <1>3, <2>1, Zenon
<1>5. n + (TimeMod - e) = (n + TimeMod) - e
  BY Constants, SMT
<1>6. TimeReached(e) <=> (n + (TimeMod - e)) % TimeMod < TimeMod \div 2
  BY <1>1, <1>3 DEF TimeReached, Now
<1>7. TimeReached(e) <=> (IF d = 0 THEN 0 ELSE TimeMod - d) < TimeMod \div 2
  BY <1>4, <1>5, <1>6
<1>8. (IF d = 0 THEN 0 ELSE TimeMod - d) < TimeMod \div 2 <=> d = 0
  BY Constants, SMT
<1> QED BY <1>1, <1>3, <1>7, <1>8

\* A deadline less than half the range ago is reached.
LEMMA ReachedAfter ==
  ASSUME elapsed \in Nat, NEW t \in Nat, NEW d \in Nat,
         t + d <= elapsed, elapsed - (t + d) < TimeMod \div 2
  PROVE  TimeReached((StartAt + t + d) % TimeMod)
<1>1. PICK y \in Nat, late \in Nat : y = StartAt + t + d /\ late = elapsed - (t + d)
  <2>1. StartAt + t + d \in Nat /\ elapsed - (t + d) \in Nat
    BY Constants, SMT
  <2> QED BY <2>1
<1>2. StartAt + elapsed = y + late
  BY <1>1, Constants, SMT
<1>3. late < TimeMod
  BY <1>1, Constants, SMT
<1>4. PICK n \in Nat, e \in Nat : n = (y + late) % TimeMod /\ e = y % TimeMod
  <2>1. y + late \in Nat
    BY SMT
  <2>2. (y + late) % TimeMod \in Nat /\ y % TimeMod \in Nat
    BY <2>1, Constants, ModRange, SMT
  <2> QED BY <2>2
<1>5. ((n + TimeMod) - e) % TimeMod = late
  <2>1. ((((y + late) % TimeMod) + TimeMod) - (y % TimeMod)) % TimeMod = late
    BY <1>3, DifferenceOfTimes
  <2> QED BY <1>4, <2>1, Zenon
<1>6. n + (TimeMod - e) = (n + TimeMod) - e
  BY Constants, SMT
<1>7. TimeReached(e) <=> (n + (TimeMod - e)) % TimeMod < TimeMod \div 2
  BY <1>2, <1>4 DEF TimeReached, Now
<1> QED BY <1>1, <1>4, <1>5, <1>6, <1>7

-------------------------------------------------------------------------------
(* The functions on the server's state. *)

LEMMA Zero == 0 \in Deadlines /\ 0 \in Attempts
BY Constants, SMT DEF Deadlines, Attempts

LEMMA LockSecurityType ==
  ASSUME NEW s \in Server
  PROVE  LockSecurity(s) \in Server
BY Zero DEF LockSecurity, Server

LEMMA KeepAliveType ==
  ASSUME NEW s \in Server, elapsed \in Nat
  PROVE  KeepAlive(s) \in Server
<1>1. After(S3) \in Deadlines
  BY AfterIs, Constants, SMT DEF Deadlines
<1> QED BY <1>1 DEF KeepAlive, Server

LEMMA SessionFieldsType ==
  ASSUME NEW s \in Server, NEW session \in Sessions, NEW active \in BOOLEAN,
         NEW deadline \in Deadlines, NEW timeouts \in Nat
  PROVE  /\ [s EXCEPT !.session = session, !.s3Active = active,
                      !.s3Deadline = deadline] \in Server
         /\ [s EXCEPT !.session = session, !.s3Active = active,
                      !.s3Deadline = deadline, !.timeouts = timeouts] \in Server
BY DEF Server

LEMMA TickedType ==
  ASSUME NEW s \in Server
  PROVE  Ticked(s) \in Server
<1>1. s.timeouts + 1 \in Nat
  BY SMT DEF Server
<1>2. [s EXCEPT !.session = "default", !.s3Active = FALSE,
                !.s3Deadline = 0, !.timeouts = s.timeouts + 1] \in Server
  BY <1>1, Zero, SessionFieldsType DEF Sessions
<1> QED BY <1>2, LockSecurityType DEF Ticked

LEMMA SetSessionType ==
  ASSUME NEW s \in Server, NEW session \in Sessions, elapsed \in Nat
  PROVE  SetSession(s, session) \in Server
<1>1. After(S3) \in Deadlines
  BY AfterIs, Constants, SMT DEF Deadlines
<1>2. PICK t \in Server : t = IF session = s.session THEN s ELSE LockSecurity(s)
  BY LockSecurityType
<1>3. SetSession(s, session) =
        [t EXCEPT !.session = session, !.s3Active = session # "default",
                  !.s3Deadline = IF session = "default" THEN 0 ELSE After(S3)]
  BY <1>2 DEF SetSession
<1>4. PICK a \in BOOLEAN : a = (session # "default")
  OBVIOUS
<1>5. PICK d \in Deadlines : d = IF session = "default" THEN 0 ELSE After(S3)
  BY <1>1, Zero
<1>6. [t EXCEPT !.session = session, !.s3Active = a, !.s3Deadline = d] \in Server
  BY SessionFieldsType
<1> QED BY <1>3, <1>4, <1>5, <1>6

-------------------------------------------------------------------------------
(* What each of them does to a sound state. *)

LEMMA SoundWhenSame ==
  ASSUME NEW s, NEW u \in Server, NEW e, NEW q, NEW l, Sound(s, e, q, l),
         u.session = s.session, u.s3Active = s.s3Active,
         u.s3Deadline = s.s3Deadline, u.timeouts = s.timeouts,
         u.seedPending = s.seedPending, u.unlocked = s.unlocked,
         u.delayUntil = s.delayUntil
  PROVE  Sound(u, e, q, l)
BY DEF Sound, S3Kept, SeedOrKey, DelayKept, Refusing

LEMMA TickedFields ==
  ASSUME NEW s \in Server
  PROVE  /\ ~S3Expired(s) => Ticked(s) = s
         /\ S3Expired(s) =>
              /\ Ticked(s).session = "default" /\ Ticked(s).s3Active = FALSE
              /\ Ticked(s).timeouts = s.timeouts + 1
              /\ Ticked(s).unlocked = FALSE /\ Ticked(s).seedPending = FALSE
         /\ Ticked(s).delayUntil = s.delayUntil
         /\ Ticked(s).write = s.write /\ Ticked(s).routine = s.routine
         /\ Ticked(s).state = s.state /\ Ticked(s).progress = s.progress
BY DEF Ticked, LockSecurity, Server

LEMMA TickedSound ==
  ASSUME NEW s, NEW q \in 0..S3, NEW l, elapsed \in Nat, Sound(s, elapsed, q, l)
  PROVE  /\ Sound(Ticked(s), elapsed, q, l)
         /\ Ticked(s).timeouts # s.timeouts => q >= S3
         /\ Ticked(s).session # s.session =>
              ~Ticked(s).unlocked /\ ~Ticked(s).seedPending
<1>1. s \in Server
  BY DEF Sound
<1>2. CASE ~S3Expired(s)
  BY <1>1, <1>2, TickedFields
<1>3. CASE S3Expired(s)
  <2>1. TimeReached((StartAt + elapsed + (S3 - q)) % TimeMod) /\ s.s3Active
    BY <1>3 DEF S3Expired, Sound, S3Kept
  <2>2. S3 - q \in Nat /\ S3 - q < TimeMod \div 2
    BY Constants, SMT
  <2>3. q = S3
    <3>1. S3 - q = 0
      BY <2>1, <2>2, NotReachedBefore
    <3> QED BY <3>1, Constants, SMT
  <2>4. s.timeouts \in Nat /\ s.timeouts < elapsed
    BY <1>1, <2>1, <2>3, Constants, SMT DEF Sound, S3Kept, Server
  <2>5. Ticked(s).timeouts <= elapsed
    <3>1. Ticked(s).timeouts = s.timeouts + 1
      BY <1>1, <1>3, TickedFields
    <3> QED BY <2>4, <3>1, SMT
  <2>6. S3Kept(Ticked(s), elapsed, q)
    BY <1>1, <1>3, <2>5, TickedFields DEF S3Kept
  <2>7. SeedOrKey(Ticked(s)) /\ DelayKept(Ticked(s), elapsed, l) /\ Refusing(Ticked(s), l)
    BY <1>1, <1>3, TickedFields DEF Sound, SeedOrKey, DelayKept, Refusing
  <2>8. Sound(Ticked(s), elapsed, q, l)
    BY <1>1, <2>6, <2>7, TickedType DEF Sound
  <2>9. q >= S3
    BY <2>3, Constants, SMT
  <2> QED BY <1>1, <1>3, <2>8, <2>9, TickedFields
<1> QED BY <1>2, <1>3

LEMMA KeepAliveSound ==
  ASSUME NEW s, NEW q, NEW l, elapsed \in Nat, Sound(s, elapsed, q, l)
  PROVE  /\ Sound(KeepAlive(s), elapsed, 0, l)
         /\ KeepAlive(s).session = s.session /\ KeepAlive(s).timeouts = s.timeouts
         /\ KeepAlive(s).unlocked = s.unlocked
         /\ KeepAlive(s).seedPending = s.seedPending
         /\ KeepAlive(s).write = s.write /\ KeepAlive(s).routine = s.routine
<1>1. s \in Server
  BY DEF Sound
<1>2. KeepAlive(s) \in Server
  BY <1>1, KeepAliveType
<1>3. /\ KeepAlive(s).session = s.session /\ KeepAlive(s).timeouts = s.timeouts
      /\ KeepAlive(s).unlocked = s.unlocked
      /\ KeepAlive(s).seedPending = s.seedPending
      /\ KeepAlive(s).write = s.write /\ KeepAlive(s).routine = s.routine
      /\ KeepAlive(s).s3Active = s.s3Active /\ KeepAlive(s).delayUntil = s.delayUntil
      /\ s.s3Active => KeepAlive(s).s3Deadline = After(S3)
  BY <1>1 DEF KeepAlive, Server
<1>4. After(S3) = (StartAt + elapsed + (S3 - 0)) % TimeMod
  <2>1. S3 < TimeMod /\ S3 - 0 = S3 /\ S3 \in Nat
    BY Constants, SMT
  <2> QED BY <2>1, AfterIs
<1>5. S3Kept(KeepAlive(s), elapsed, 0)
  <2>1. ~(0 > 0)
    BY SMT
  <2> QED BY <1>3, <1>4, <2>1 DEF Sound, S3Kept
<1>6. /\ SeedOrKey(KeepAlive(s)) /\ DelayKept(KeepAlive(s), elapsed, l)
      /\ Refusing(KeepAlive(s), l)
  BY <1>3 DEF Sound, SeedOrKey, DelayKept, Refusing
<1> QED BY <1>2, <1>3, <1>5, <1>6 DEF Sound

LEMMA SetSessionSound ==
  ASSUME NEW s, NEW session \in Sessions, NEW q, NEW l, elapsed \in Nat,
         Sound(s, elapsed, q, l)
  PROVE  /\ Sound(SetSession(s, session), elapsed, 0, l)
         /\ SetSession(s, session).session = session
         /\ SetSession(s, session).timeouts = s.timeouts
         /\ session # s.session => ~SetSession(s, session).unlocked
                                   /\ ~SetSession(s, session).seedPending
         /\ session = s.session =>
              /\ SetSession(s, session).unlocked = s.unlocked
              /\ SetSession(s, session).seedPending = s.seedPending
         /\ SetSession(s, session).write = s.write
         /\ SetSession(s, session).routine = s.routine
<1> DEFINE u == SetSession(s, session)
<1>1. s \in Server
  BY DEF Sound
<1>2. u \in Server
  BY <1>1, SetSessionType
<1>3. /\ u.session = session /\ u.timeouts = s.timeouts
      /\ u.s3Active = (session # "default")
      /\ session # "default" => u.s3Deadline = After(S3)
      /\ session # s.session => u.unlocked = FALSE /\ u.seedPending = FALSE
      /\ session = s.session => u.unlocked = s.unlocked /\ u.seedPending = s.seedPending
      /\ u.write = s.write /\ u.routine = s.routine /\ u.delayUntil = s.delayUntil
  BY <1>1 DEF SetSession, LockSecurity, Server
<1> HIDE DEF u
<1>4. After(S3) = (StartAt + elapsed + (S3 - 0)) % TimeMod
  <2>1. S3 < TimeMod /\ S3 - 0 = S3 /\ S3 \in Nat
    BY Constants, SMT
  <2> QED BY <2>1, AfterIs
<1>5. S3Kept(u, elapsed, 0)
  <2>1. ~(0 > 0)
    BY SMT
  <2> QED BY <1>3, <1>4, <2>1 DEF Sound, S3Kept
<1>6. SeedOrKey(u) /\ DelayKept(u, elapsed, l) /\ Refusing(u, l)
  BY <1>3 DEF Sound, SeedOrKey, DelayKept, Refusing
<1>7. Sound(u, elapsed, 0, l)
  BY <1>2, <1>5, <1>6 DEF Sound
<1> QED BY <1>3, <1>7 DEF u

\* A response other than NRC 78 announces nothing, and one about routines does
\* not leave the results owed.
LEMMA AnnounceOther ==
  ASSUME NEW sid, NEW nrc, owed \in Owings, nrc # "78", Announce(sid, nrc)
  PROVE  /\ Weakened(owed, owed')
         /\ sid = "31" => owed'["31"] # "owed"
<1>1. CASE Repeats(sid, nrc) /\ owed' = [owed EXCEPT ![sid] = "repeated"]
  BY <1>1 DEF Repeats, Weakened, Owings, Deferring
<1>2. CASE ~Repeats(sid, nrc) /\ owed' = owed
  BY <1>2 DEF Repeats, Weakened, Owings, Deferring
<1> QED BY <1>1, <1>2 DEF Announce

LEMMA Announce78 ==
  ASSUME NEW sid \in Deferring, owed \in Owings, Announce(sid, "78")
  PROVE  /\ owed' \in Owings
         /\ owed'[sid] # "none"
         /\ \A v \in Deferring : v # sid => owed'[v] = owed[v]
BY DEF Announce, Owings

\* A response keeps the session alive or leaves the state as it is.
LEMMA RespondSound ==
  ASSUME NEW u, NEW sid, NEW nrc, NEW suppressed, NEW l,
         elapsed \in Nat, quiet \in 0..S3, Sound(u, elapsed, quiet, l),
         Respond(u, sid, nrc, suppressed)
  PROVE  /\ Sound(srv', elapsed, quiet', l)
         /\ quiet' \in 0..S3
         /\ srv'.session = u.session /\ srv'.timeouts = u.timeouts
         /\ srv'.unlocked = u.unlocked /\ srv'.seedPending = u.seedPending
         /\ srv'.write = u.write /\ srv'.routine = u.routine
         /\ Announce(sid, nrc)
<1>1. \/ srv' = u /\ quiet' = quiet
      \/ srv' = KeepAlive(u) /\ quiet' = 0
  BY DEF Respond
<1>2. Announce(sid, nrc)
  BY DEF Respond
<1>3. 0 \in 0..S3
  BY Constants, SMT
<1> QED BY <1>1, <1>2, <1>3, KeepAliveSound

-------------------------------------------------------------------------------
(* Requests. *)

\* A step keeps the invariant, locks a session that it ends, and times out
\* only a session that was silent.
StepSound ==
  /\ IInv'
  /\ srv'.session # srv.session => ~srv'.unlocked /\ ~srv'.seedPending
  /\ srv'.timeouts # srv.timeouts => quiet >= S3

\* u is what a request makes of the ticked server, before the response.
LEMMA RequestStep ==
  ASSUME IInv, NEW u, NEW sid, NEW nrc, NEW suppressed,
         Sound(u, elapsed, quiet, lockout'), lockout' \in 0..Delay,
         u.session = Ticked(srv).session, u.timeouts = Ticked(srv).timeouts,
         u.session # srv.session => ~u.unlocked /\ ~u.seedPending,
         Respond(u, sid, nrc, suppressed),
         nrc = "78" => sid \in Deferring,
         PendingKept(u, owed'), Storage', elapsed' = elapsed
  PROVE  StepSound
<1>1. elapsed \in Nat /\ elapsed \in 0..Horizon /\ quiet \in 0..S3
  BY Constants, SMT DEF IInv, Times
<1>2. /\ Sound(srv', elapsed, quiet', lockout') /\ quiet' \in 0..S3
      /\ srv'.session = u.session /\ srv'.timeouts = u.timeouts
      /\ srv'.unlocked = u.unlocked /\ srv'.seedPending = u.seedPending
      /\ srv'.write = u.write /\ srv'.routine = u.routine
      /\ Announce(sid, nrc)
  BY <1>1, RespondSound
<1>3. owed' \in Owings
  BY <1>2, Announce78, AnnounceOther DEF IInv, Weakened
<1>4. PendingKept(srv', owed')
  BY <1>2 DEF PendingKept
<1>5. IInv'
  <2>1. Times'
    BY <1>1, <1>2 DEF Times
  <2>2. Sound(srv', elapsed', quiet', lockout')
    BY <1>2
  <2> QED BY <1>3, <1>4, <2>1, <2>2 DEF IInv
<1>6. srv'.timeouts # srv.timeouts => quiet >= S3
  BY <1>1, <1>2, TickedSound DEF IInv
<1> QED BY <1>2, <1>5, <1>6 DEF StepSound

\* The ticked server, with what a request does not touch changed.
LEMMA TickedFits ==
  ASSUME IInv
  PROVE  /\ Sound(Ticked(srv), elapsed, quiet, lockout) /\ Ticked(srv) \in Server
         /\ Ticked(srv).session # srv.session =>
              ~Ticked(srv).unlocked /\ ~Ticked(srv).seedPending
         /\ Ticked(srv).write = srv.write /\ Ticked(srv).routine = srv.routine
         /\ elapsed \in Nat /\ quiet \in 0..S3 /\ lockout \in 0..Delay
<1>1. elapsed \in Nat /\ quiet \in 0..S3 /\ lockout \in 0..Delay
  BY Constants, SMT DEF IInv, Times
<1>2. Sound(srv, elapsed, quiet, lockout) /\ srv \in Server
  BY DEF IInv, Sound
<1> QED BY <1>1, <1>2, TickedSound, TickedFields DEF Sound

\* Requests that leave writes and routines alone owe nothing new.
LEMMA PendingUntouched ==
  ASSUME IInv, NEW u, NEW o, Weakened(owed, o),
         u.write = srv.write, u.routine = srv.routine
  PROVE  PendingKept(u, o)
BY DEF IInv, PendingKept, Weakened, Deferring

LEMMA OwedUntouched ==
  ASSUME IInv, UNCHANGED owed
  PROVE  Weakened(owed, owed') /\ owed' \in Owings
BY DEF IInv, Weakened

LEMMA StorageUntouched ==
  ASSUME IInv, UNCHANGED <<ram, stored>>
  PROVE  Storage'
BY DEF IInv, Storage, RamIsDurable, LoadDids

\* A response that announces nothing.
LEMMA OwesNothingNew ==
  ASSUME IInv, NEW u, NEW sid, NEW nrc, NEW suppressed, nrc # "78",
         Respond(u, sid, nrc, suppressed)
  PROVE  /\ Weakened(owed, owed')
         /\ sid = "31" => owed'["31"] # "owed"
<1>1. Announce(sid, nrc) /\ owed \in Owings
  BY DEF Respond, IInv
<1> QED BY <1>1, AnnounceOther

\* Any request whose only effect on the server is the response.
LEMMA PlainRequest ==
  ASSUME IInv, NEW sid, NEW nrc, NEW suppressed, nrc # "78",
         Respond(Ticked(srv), sid, nrc, suppressed),
         UNCHANGED <<ram, stored, elapsed, lockout>>
  PROVE  StepSound
<1>1. PendingKept(Ticked(srv), owed')
  BY OwesNothingNew, PendingUntouched, TickedFits
<1> QED BY <1>1, RequestStep, StorageUntouched, TickedFits

LEMMA SessionControlStep ==
  ASSUME IInv, NEW session \in Sessions, SessionControl(session)
  PROVE  StepSound
<1> DEFINE u == SetSession(Ticked(srv), session)
<1>1. /\ srv' = u /\ quiet' = 0
      /\ UNCHANGED <<ram, stored, elapsed, owed, lockout>>
  BY DEF SessionControl
<1>2. /\ Sound(u, elapsed, 0, lockout)
      /\ u.session = session /\ u.timeouts = Ticked(srv).timeouts
      /\ session # Ticked(srv).session => ~u.unlocked /\ ~u.seedPending
      /\ session = Ticked(srv).session =>
           /\ u.unlocked = Ticked(srv).unlocked
           /\ u.seedPending = Ticked(srv).seedPending
      /\ u.write = srv.write /\ u.routine = srv.routine
  BY TickedFits, SetSessionSound
<1> HIDE DEF u
<1>3. IInv'
  <2>1. 0 \in 0..S3
    BY Constants, SMT
  <2>2. Times'
    BY <1>1, <2>1 DEF IInv, Times
  <2>3. Sound(srv, elapsed, quiet, lockout)'
    BY <1>1, <1>2
  <2>4. PendingKept(srv, owed)'
    BY <1>1, <1>2, OwedUntouched, PendingUntouched
  <2>5. Storage' /\ owed' \in Owings
    BY <1>1, StorageUntouched, OwedUntouched
  <2> QED BY <2>2, <2>3, <2>4, <2>5 DEF IInv
<1>4. srv'.session # srv.session => ~srv'.unlocked /\ ~srv'.seedPending
  BY <1>1, <1>2, TickedFits
<1>5. srv'.timeouts # srv.timeouts => quiet >= S3
  BY <1>1, <1>2, TickedFits, TickedSound DEF IInv
<1> QED BY <1>3, <1>4, <1>5 DEF StepSound

LEMMA TesterPresentStep ==
  ASSUME IInv, TesterPresent
  PROVE  StepSound
<1> DEFINE u == KeepAlive(Ticked(srv))
<1>1. /\ srv' = u /\ quiet' = 0
      /\ UNCHANGED <<ram, stored, elapsed, owed, lockout>>
  BY DEF TesterPresent
<1>2. /\ Sound(u, elapsed, 0, lockout)
      /\ u.session = Ticked(srv).session /\ u.timeouts = Ticked(srv).timeouts
      /\ u.unlocked = Ticked(srv).unlocked
      /\ u.seedPending = Ticked(srv).seedPending
      /\ u.write = srv.write /\ u.routine = srv.routine
  BY TickedFits, KeepAliveSound
<1> HIDE DEF u
<1>3. IInv'
  <2>1. 0 \in 0..S3
    BY Constants, SMT
  <2>2. Times'
    BY <1>1, <2>1 DEF IInv, Times
  <2>3. Sound(srv, elapsed, quiet, lockout)'
    BY <1>1, <1>2
  <2>4. PendingKept(srv, owed)'
    BY <1>1, <1>2, OwedUntouched, PendingUntouched
  <2>5. Storage' /\ owed' \in Owings
    BY <1>1, StorageUntouched, OwedUntouched
  <2> QED BY <2>2, <2>3, <2>4, <2>5 DEF IInv
<1>4. srv'.session # srv.session => ~srv'.unlocked /\ ~srv'.seedPending
  BY <1>1, <1>2, TickedFits
<1>5. srv'.timeouts # srv.timeouts => quiet >= S3
  BY <1>1, <1>2, TickedFits, TickedSound DEF IInv
<1> QED BY <1>3, <1>4, <1>5 DEF StepSound

-------------------------------------------------------------------------------
(* Security access. *)

LEMMA SecurityFieldsType ==
  ASSUME NEW s \in Server, NEW seed \in BOOLEAN, NEW unlocked \in BOOLEAN,
         NEW attempts \in Attempts, NEW deadline \in Deadlines
  PROVE  /\ [s EXCEPT !.seedPending = seed] \in Server
         /\ [s EXCEPT !.attempts = attempts] \in Server
         /\ [s EXCEPT !.delayUntil = deadline, !.attempts = attempts] \in Server
         /\ [s EXCEPT !.attempts = attempts, !.delayUntil = deadline] \in Server
         /\ [s EXCEPT !.unlocked = unlocked, !.attempts = attempts,
                      !.delayUntil = deadline] \in Server
BY DEF Server

\* A delay that is not active has run out, unless its deadline was 0.
LEMMA DelayOver ==
  ASSUME NEW s, NEW q, elapsed \in Nat, lockout \in 0..Delay,
         Sound(s, elapsed, q, lockout), ~DelayActive(s), NoZeroDeadline
  PROVE  ~(lockout < Delay)
<1> SUFFICES ASSUME lockout < Delay PROVE FALSE
  OBVIOUS
<1>1. s.delayUntil # 0 /\ TimeReached(s.delayUntil)
  BY DEF Sound, Refusing, DelayActive
<1>2. PICK t \in 0..elapsed : /\ s.delayUntil = DelayDeadline(t)
                              /\ lockout = IF elapsed - t < Delay THEN elapsed - t ELSE Delay
  BY <1>1 DEF Sound, DelayKept
<1>3. PICK d \in Nat : d = Delay - (elapsed - t) /\ d # 0 /\ d < TimeMod \div 2
  <2>1. lockout = elapsed - t
    BY <1>2, Constants, SMT
  <2>2. Delay - (elapsed - t) \in Nat /\ Delay - (elapsed - t) # 0
    BY <2>1, Constants, SMT
  <2>3. Delay - (elapsed - t) < TimeMod \div 2
    BY <2>1, Constants, SMT
  <2> QED BY <2>2, <2>3
<1>4. StartAt + t + Delay = StartAt + elapsed + d
  BY <1>3, Constants, SMT
<1>5. TimeReached((StartAt + elapsed + d) % TimeMod)
  BY <1>1, <1>2, <1>4 DEF DelayDeadline
<1> QED BY <1>3, <1>5, NotReachedBefore

LEMMA EndDelaySound ==
  ASSUME NEW s, NEW q, elapsed \in Nat, lockout \in 0..Delay,
         Sound(s, elapsed, q, lockout), ~DelayActive(s)
  PROVE  /\ Sound(EndDelay(s), elapsed, q, lockout)
         /\ EndDelay(s).session = s.session /\ EndDelay(s).timeouts = s.timeouts
         /\ EndDelay(s).unlocked = s.unlocked
         /\ EndDelay(s).seedPending = s.seedPending
         /\ EndDelay(s).write = s.write /\ EndDelay(s).routine = s.routine
<1>1. s \in Server
  BY DEF Sound
<1>2. EndDelay(s) \in Server
  BY <1>1, Zero, SecurityFieldsType DEF EndDelay
<1>3. /\ EndDelay(s).session = s.session /\ EndDelay(s).timeouts = s.timeouts
      /\ EndDelay(s).unlocked = s.unlocked
      /\ EndDelay(s).seedPending = s.seedPending
      /\ EndDelay(s).write = s.write /\ EndDelay(s).routine = s.routine
      /\ EndDelay(s).s3Active = s.s3Active /\ EndDelay(s).s3Deadline = s.s3Deadline
      /\ EndDelay(s).delayUntil \in {0, s.delayUntil}
  BY <1>1 DEF EndDelay, Server
<1>4. Refusing(EndDelay(s), lockout)
  BY DelayOver DEF Refusing
<1>5. /\ S3Kept(EndDelay(s), elapsed, q) /\ SeedOrKey(EndDelay(s))
      /\ DelayKept(EndDelay(s), elapsed, lockout)
  BY <1>3 DEF Sound, S3Kept, SeedOrKey, DelayKept
<1> QED BY <1>2, <1>3, <1>4, <1>5 DEF Sound

\* A request that is served in a session other than the default one did not
\* end its session.
LEMMA SessionStays ==
  ASSUME IInv, Ticked(srv).session # "default"
  PROVE  Ticked(srv).session = srv.session
BY TickedFields DEF IInv, Sound

LEMMA SecurityRefusedStep ==
  ASSUME IInv, SecurityRefused(Ticked(srv)),
         UNCHANGED <<ram, stored, elapsed, lockout>>
  PROVE  StepSound
<1>1. \/ Respond(Ticked(srv), "27", "7E", FALSE)
      \/ Respond(Ticked(srv), "27", "37", FALSE)
  BY DEF SecurityRefused
<1> QED BY <1>1, PlainRequest

\* A served request for security access: u is what it makes of the server.
LEMMA SecurityStep ==
  ASSUME IInv, NEW u, NEW nrc, NEW suppressed, SecurityAllowed(Ticked(srv)),
         Sound(u, elapsed, quiet, lockout'), lockout' \in 0..Delay,
         u.session = Ticked(srv).session, u.timeouts = Ticked(srv).timeouts,
         u.write = srv.write, u.routine = srv.routine,
         nrc # "78", Respond(u, "27", nrc, suppressed),
         UNCHANGED <<ram, stored, elapsed>>
  PROVE  StepSound
<1>1. u.session = srv.session
  BY SessionStays DEF SecurityAllowed
<1>2. PendingKept(u, owed')
  BY OwesNothingNew, PendingUntouched
<1> QED BY <1>1, <1>2, RequestStep, StorageUntouched

LEMMA RequestSeedStep ==
  ASSUME IInv, NEW suppressed \in BOOLEAN, RequestSeed(suppressed)
  PROVE  StepSound
<1> DEFINE s == Ticked(srv)
           t == EndDelay(s)
           u == [t EXCEPT !.seedPending = @ \/ ~t.unlocked]
<1>1. CASE SecurityRefused(s)
  BY <1>1, SecurityRefusedStep DEF RequestSeed
<1>2. CASE SecurityAllowed(s) /\ Respond(u, "27", "ok", suppressed)
  <2>1. /\ Sound(t, elapsed, quiet, lockout)
        /\ t.session = s.session /\ t.timeouts = s.timeouts
        /\ t.write = srv.write /\ t.routine = srv.routine
    BY <1>2, TickedFits, EndDelaySound DEF SecurityAllowed
  <2>2. t \in Server /\ SeedOrKey(t)
    BY <2>1 DEF Sound
  <2>3. NoZeroDeadline => ~(lockout < Delay)
    BY <1>2, TickedFits, DelayOver DEF SecurityAllowed
  <2> HIDE DEF t, s
  <2>4. PICK seed \in BOOLEAN : seed = (t.seedPending \/ ~t.unlocked)
    OBVIOUS
  <2>5. u = [t EXCEPT !.seedPending = seed]
    BY <2>4
  <2>6. u \in Server
    BY <2>2, <2>5, SecurityFieldsType, Zero
  <2>7. /\ u.session = t.session /\ u.timeouts = t.timeouts
        /\ u.write = t.write /\ u.routine = t.routine
        /\ u.s3Active = t.s3Active /\ u.s3Deadline = t.s3Deadline
        /\ u.delayUntil = t.delayUntil /\ u.unlocked = t.unlocked
        /\ u.seedPending = seed
    BY <2>2, <2>5 DEF Server
  <2> HIDE DEF u
  <2>8. S3Kept(u, elapsed, quiet) /\ DelayKept(u, elapsed, lockout)
    BY <2>1, <2>7 DEF Sound, S3Kept, DelayKept
  <2>9. SeedOrKey(u) /\ Refusing(u, lockout)
    BY <2>2, <2>3, <2>4, <2>7 DEF SeedOrKey, Refusing
  <2>10. Sound(u, elapsed, quiet, lockout)
    BY <2>6, <2>8, <2>9 DEF Sound
  <2>11. UNCHANGED <<ram, stored, elapsed, lockout>>
    BY DEF RequestSeed
  <2>12. lockout' \in 0..Delay
    BY <2>11, TickedFits
  <2> QED BY <1>2, <2>1, <2>7, <2>10, <2>11, <2>12, SecurityStep DEF s
<1> QED BY <1>1, <1>2 DEF RequestSeed

\* A lock-out starts a delay now.
LEMMA LockOutSound ==
  ASSUME NEW u \in Server, NEW q, elapsed \in 0..Horizon,
         S3Kept(u, elapsed, q), ~u.unlocked, ~u.seedPending
  PROVE  /\ Sound(LockOut(u), elapsed, q, 0)
         /\ LockOut(u).session = u.session /\ LockOut(u).timeouts = u.timeouts
         /\ LockOut(u).write = u.write /\ LockOut(u).routine = u.routine
<1>1. elapsed \in Nat /\ elapsed \in 0..elapsed /\ elapsed - elapsed = 0 /\ 0 < Delay
  BY Constants, SMT
<1>2. After(Delay) = DelayDeadline(elapsed) /\ After(Delay) \in Deadlines
  <2>1. Delay < TimeMod /\ Delay \in Nat
    BY Constants, SMT
  <2> QED BY <1>1, <2>1, AfterIs DEF DelayDeadline, Deadlines
<1>3. LockOut(u) \in Server
  BY <1>2, Zero, SecurityFieldsType DEF LockOut
<1>4. /\ LockOut(u).session = u.session /\ LockOut(u).timeouts = u.timeouts
      /\ LockOut(u).write = u.write /\ LockOut(u).routine = u.routine
      /\ LockOut(u).s3Active = u.s3Active /\ LockOut(u).s3Deadline = u.s3Deadline
      /\ LockOut(u).unlocked = u.unlocked /\ LockOut(u).seedPending = u.seedPending
      /\ LockOut(u).delayUntil = After(Delay)
  BY DEF LockOut, Server
<1>5. S3Kept(LockOut(u), elapsed, q) /\ SeedOrKey(LockOut(u))
  BY <1>4 DEF S3Kept, SeedOrKey
<1>6. DelayKept(LockOut(u), elapsed, 0)
  BY <1>1, <1>2, <1>4 DEF DelayKept
<1>7. Refusing(LockOut(u), 0)
  BY <1>2, <1>4 DEF Refusing, NoZeroDeadline
<1> QED BY <1>3, <1>4, <1>5, <1>6, <1>7 DEF Sound

LEMMA CheckKeyStep ==
  ASSUME IInv, NEW correct \in BOOLEAN, NEW suppressed \in BOOLEAN,
         SecurityAllowed(Ticked(srv)), EndDelay(Ticked(srv)).seedPending,
         CheckKey(EndDelay(Ticked(srv)), correct, suppressed),
         UNCHANGED <<ram, stored, elapsed>>
  PROVE  StepSound
<1> DEFINE t == EndDelay(Ticked(srv))
           u == [t EXCEPT !.seedPending = FALSE]
           last == t.attempts + 1 >= MaxAttempts
<1>1. /\ Sound(t, elapsed, quiet, lockout)
      /\ t.session = Ticked(srv).session /\ t.timeouts = Ticked(srv).timeouts
      /\ t.write = srv.write /\ t.routine = srv.routine
      /\ elapsed \in Nat /\ lockout \in 0..Delay
  BY TickedFits, EndDelaySound DEF SecurityAllowed
<1>2. t \in Server /\ ~t.unlocked
  BY <1>1 DEF Sound, SeedOrKey
<1>3. NoZeroDeadline => ~(lockout < Delay)
  BY TickedFits, DelayOver DEF SecurityAllowed
<1>4. u \in Server
  BY <1>2, SecurityFieldsType, Zero
<1>5. /\ u.session = t.session /\ u.timeouts = t.timeouts
      /\ u.write = t.write /\ u.routine = t.routine
      /\ u.s3Active = t.s3Active /\ u.s3Deadline = t.s3Deadline
      /\ u.delayUntil = t.delayUntil /\ u.unlocked = t.unlocked
      /\ u.seedPending = FALSE /\ u.attempts = t.attempts
  BY <1>2 DEF Server
<1>6. CASE /\ correct
           /\ Respond([u EXCEPT !.unlocked = TRUE, !.attempts = 0, !.delayUntil = 0],
                      "27", "ok", suppressed)
           /\ UNCHANGED lockout
  <2> DEFINE v == [u EXCEPT !.unlocked = TRUE, !.attempts = 0, !.delayUntil = 0]
  <2>1. v \in Server
    BY <1>4, SecurityFieldsType, Zero
  <2>2. /\ v.session = t.session /\ v.timeouts = t.timeouts
        /\ v.write = t.write /\ v.routine = t.routine
        /\ v.s3Active = t.s3Active /\ v.s3Deadline = t.s3Deadline
        /\ v.delayUntil = 0 /\ v.seedPending = FALSE
    BY <1>4, <1>5 DEF Server
  <2>3. Respond(v, "27", "ok", suppressed) /\ UNCHANGED lockout
    BY <1>6
  <2> HIDE DEF v
  <2>4. /\ S3Kept(v, elapsed, quiet) /\ DelayKept(v, elapsed, lockout)
        /\ SeedOrKey(v) /\ Refusing(v, lockout)
    BY <1>1, <1>3, <2>2 DEF Sound, S3Kept, DelayKept, SeedOrKey, Refusing
  <2>5. Sound(v, elapsed, quiet, lockout')
    BY <2>1, <2>3, <2>4 DEF Sound
  <2>6. /\ lockout' \in 0..Delay
        /\ v.session = Ticked(srv).session /\ v.timeouts = Ticked(srv).timeouts
        /\ v.write = srv.write /\ v.routine = srv.routine
    BY <1>1, <2>2, <2>3
  <2> HIDE DEF t
  <2> QED BY <2>3, <2>5, <2>6, SecurityStep
<1>7. CASE /\ ~last
           /\ Respond([u EXCEPT !.attempts = @ + 1], "27", "35", FALSE)
           /\ UNCHANGED lockout
  <2> DEFINE v == [u EXCEPT !.attempts = u.attempts + 1]
  <2>1. u.attempts + 1 \in Attempts
    BY <1>2, <1>5, <1>7, Constants, SMT DEF Server, Attempts
  <2>2. v \in Server
    BY <1>4, <2>1, SecurityFieldsType, Zero
  <2>3. /\ v.session = t.session /\ v.timeouts = t.timeouts
        /\ v.write = t.write /\ v.routine = t.routine
        /\ v.s3Active = t.s3Active /\ v.s3Deadline = t.s3Deadline
        /\ v.delayUntil = t.delayUntil /\ v.seedPending = FALSE
        /\ v.unlocked = t.unlocked
    BY <1>4, <1>5 DEF Server
  <2>4. Respond(v, "27", "35", FALSE) /\ UNCHANGED lockout
    BY <1>7
  <2> HIDE DEF v
  <2>5. /\ S3Kept(v, elapsed, quiet) /\ DelayKept(v, elapsed, lockout)
        /\ SeedOrKey(v) /\ Refusing(v, lockout)
    BY <1>1, <1>3, <2>3 DEF Sound, S3Kept, DelayKept, SeedOrKey, Refusing
  <2>6. Sound(v, elapsed, quiet, lockout')
    BY <2>2, <2>4, <2>5 DEF Sound
  <2>7. /\ lockout' \in 0..Delay
        /\ v.session = Ticked(srv).session /\ v.timeouts = Ticked(srv).timeouts
        /\ v.write = srv.write /\ v.routine = srv.routine
    BY <1>1, <2>3, <2>4
  <2> HIDE DEF t
  <2> QED BY <2>4, <2>6, <2>7, SecurityStep
<1>8. CASE Respond(LockOut(u), "27", "36", FALSE) /\ lockout' = 0
  <2>1. elapsed \in 0..Horizon
    BY DEF IInv, Times
  <2>2. S3Kept(u, elapsed, quiet)
    BY <1>1, <1>5 DEF Sound, S3Kept
  <2>3. /\ Sound(LockOut(u), elapsed, quiet, lockout')
        /\ LockOut(u).session = u.session /\ LockOut(u).timeouts = u.timeouts
        /\ LockOut(u).write = u.write /\ LockOut(u).routine = u.routine
    BY <1>2, <1>4, <1>5, <1>8, <2>1, <2>2, LockOutSound
  <2>4. lockout' \in 0..Delay
    BY <1>8, Constants, SMT
  <2> DEFINE v == LockOut(u)
  <2>5. /\ v.session = Ticked(srv).session /\ v.timeouts = Ticked(srv).timeouts
        /\ v.write = srv.write /\ v.routine = srv.routine
        /\ Respond(v, "27", "36", FALSE) /\ Sound(v, elapsed, quiet, lockout')
    BY <1>1, <1>5, <1>8, <2>3
  <2> HIDE DEF v
  <2> QED BY <2>4, <2>5, SecurityStep
<1> QED BY <1>6, <1>7, <1>8 DEF CheckKey

LEMMA SendKeyStep ==
  ASSUME IInv, NEW correct \in BOOLEAN, NEW suppressed \in BOOLEAN,
         SendKey(correct, suppressed)
  PROVE  StepSound
<1> DEFINE t == EndDelay(Ticked(srv))
<1>1. UNCHANGED <<ram, stored, elapsed>>
  BY DEF SendKey
<1>2. CASE SecurityRefused(Ticked(srv)) /\ UNCHANGED lockout
  BY <1>1, <1>2, SecurityRefusedStep
<1>3. ASSUME NEW nrc \in {"13", "24"}, SecurityAllowed(Ticked(srv)),
             Respond(t, "27", nrc, FALSE), UNCHANGED lockout
      PROVE  StepSound
  <2>1. /\ Sound(t, elapsed, quiet, lockout)
        /\ t.session = Ticked(srv).session /\ t.timeouts = Ticked(srv).timeouts
        /\ t.write = srv.write /\ t.routine = srv.routine
        /\ lockout \in 0..Delay
    BY <1>3, TickedFits, EndDelaySound DEF SecurityAllowed
  <2> HIDE DEF t
  <2>2. Sound(t, elapsed, quiet, lockout') /\ lockout' \in 0..Delay
    BY <1>3, <2>1
  <2>3. nrc # "78"
    BY <1>3
  <2> QED BY <1>1, <1>3, <2>1, <2>2, <2>3, SecurityStep
<1>4. CASE SecurityAllowed(Ticked(srv)) /\ t.seedPending
           /\ CheckKey(t, correct, suppressed)
  BY <1>1, <1>4, CheckKeyStep
<1> QED BY <1>2, <1>3, <1>4 DEF SendKey

-------------------------------------------------------------------------------
(* Writes. *)

LEMMA WriteDidStep ==
  ASSUME IInv, NEW did \in Dids, NEW data \in Data, WriteDid(did, data)
  PROVE  StepSound
<1> DEFINE s == Ticked(srv)
           u == [s EXCEPT !.write = [did |-> did, data |-> data]]
           nrc == WriteNrc(s, did, data)
<1>1. UNCHANGED <<ram, stored, elapsed, lockout>>
  BY DEF WriteDid
<1>2. CASE nrc # "78"
  <2>1. Respond(s, "2E", nrc, FALSE)
    BY <1>2 DEF WriteDid
  <2> HIDE DEF nrc
  <2> QED BY <1>1, <1>2, <2>1, PlainRequest
<1>3. CASE nrc = "78"
  <2>1. Respond(u, "2E", "78", FALSE)
    BY <1>3 DEF WriteDid
  <2>2. did \in WritableDids /\ data \in Values
    BY <1>3 DEF WriteNrc, Data
  <2>3. [did |-> did, data |-> data] \in Writes
    BY <2>2 DEF Writes
  <2>4. [did |-> did, data |-> data] # NoWrite
    BY <2>2 DEF NoWrite, WritableDids
  <2>5. s \in Server /\ Sound(s, elapsed, quiet, lockout)
    BY TickedFits
  <2>6. /\ u \in Server /\ u.write # NoWrite /\ u.routine = s.routine
        /\ u.session = s.session /\ u.timeouts = s.timeouts
        /\ u.s3Active = s.s3Active /\ u.s3Deadline = s.s3Deadline
        /\ u.delayUntil = s.delayUntil /\ u.seedPending = s.seedPending
        /\ u.unlocked = s.unlocked
    BY <2>3, <2>4, <2>5 DEF Server
  <2> HIDE DEF u, nrc
  <2>7. Sound(u, elapsed, quiet, lockout)
    BY <2>5, <2>6, SoundWhenSame
  <2>8. owed'["2E"] # "none" /\ owed'["31"] = owed["31"]
    <3>1. Announce("2E", "78") /\ owed \in Owings
      BY <2>1 DEF Respond, IInv
    <3> QED BY <3>1, Announce78 DEF Deferring
  <2>9. PendingKept(u, owed')
    BY <2>6, <2>8, TickedFits DEF IInv, PendingKept
  <2>10. Sound(u, elapsed, quiet, lockout') /\ lockout' \in 0..Delay
    BY <1>1, <2>7, TickedFits
  <2>11. /\ u.session # srv.session => ~u.unlocked /\ ~u.seedPending
         /\ elapsed' = elapsed /\ Storage'
    BY <1>1, <2>6, TickedFits, StorageUntouched
  <2>12. "2E" \in Deferring
    BY DEF Deferring
  <2> QED BY <2>1, <2>6, <2>9, <2>10, <2>11, <2>12, RequestStep
<1> QED BY <1>2, <1>3

-------------------------------------------------------------------------------
(* Routines and the storage. *)

LEMMA LoadDidsType ==
  ASSUME NEW st \in [WritableDids -> Values \cup {"unset"}]
  PROVE  LoadDids(st) \in [WritableDids -> Values \cup {"default"}]
BY DEF LoadDids

LEMMA ExecuteStorage ==
  ASSUME IInv, NEW r, Execute(r)
  PROVE  Storage'
<1>1. CASE UNCHANGED <<ram, stored>>
  BY <1>1, StorageUntouched
<1>2. CASE /\ stored' = [d \in WritableDids |-> "unset"]
           /\ ram' = ResetDids(stored')
  <2>1. stored' \in [WritableDids -> Values \cup {"unset"}]
    BY <1>2
  <2>2. ram' = LoadDids(stored')
    BY <1>2 DEF ResetDids
  <2>3. ram' \in [WritableDids -> Values \cup {"default"}]
    BY <2>1, <2>2, LoadDidsType
  <2> QED BY <2>1, <2>2, <2>3 DEF Storage, RamIsDurable, LoadDids
<1> QED BY <1>1, <1>2 DEF Execute

\* What the server's routine fields do not affect.
SameOtherwise(u, s) ==
  /\ u \in Server
  /\ u.session = s.session /\ u.timeouts = s.timeouts
  /\ u.s3Active = s.s3Active /\ u.s3Deadline = s.s3Deadline
  /\ u.delayUntil = s.delayUntil /\ u.seedPending = s.seedPending
  /\ u.unlocked = s.unlocked /\ u.write = s.write

LEMMA ResultSame ==
  ASSUME NEW s \in Server, NEW result \in Results
  PROVE  /\ SameOtherwise([s EXCEPT !.routine = result], s)
         /\ [s EXCEPT !.routine = result].routine = result
<1>1. [s EXCEPT !.routine = result] \in Server
  BY DEF Server
<1> QED BY <1>1 DEF SameOtherwise, Server

LEMMA NoRoutineResult == NoRoutine \in Results /\ NoRoutine.suppress = FALSE
BY DEF Results, NoRoutine

\* The ticked server without the results the request cancels.
LEMMA CancelFits ==
  ASSUME IInv, NEW r \in Routines
  PROVE  /\ SameOtherwise(Cancel(Ticked(srv), r), Ticked(srv))
         /\ Cancel(Ticked(srv), r).routine \in {srv.routine, NoRoutine}
<1>1. Ticked(srv) \in Server /\ Ticked(srv).routine = srv.routine
  BY TickedFits
<1>2. SameOtherwise(Ticked(srv), Ticked(srv))
  BY <1>1 DEF SameOtherwise
<1>3. /\ SameOtherwise([Ticked(srv) EXCEPT !.routine = NoRoutine], Ticked(srv))
      /\ [Ticked(srv) EXCEPT !.routine = NoRoutine].routine = NoRoutine
  BY <1>1, NoRoutineResult, ResultSame
<1> QED BY <1>1, <1>2, <1>3 DEF Cancel

\* A request about a routine that is answered at once.
LEMMA RoutineStep ==
  ASSUME IInv, NEW u, NEW nrc, NEW suppressed \in SuppressBit("31"),
         SameOtherwise(u, Ticked(srv)), u.routine \in {srv.routine, NoRoutine},
         nrc # "78", Respond(u, "31", nrc, suppressed),
         Storage', UNCHANGED <<elapsed, lockout>>
  PROVE  StepSound
<1>1. Sound(u, elapsed, quiet, lockout')
  BY TickedFits, SoundWhenSame DEF SameOtherwise
<1>2. u.write = srv.write /\ lockout' \in 0..Delay
  BY TickedFits DEF SameOtherwise
<1>3. /\ u.session = Ticked(srv).session /\ u.timeouts = Ticked(srv).timeouts
      /\ u.session # srv.session => ~u.unlocked /\ ~u.seedPending
  BY TickedFits DEF SameOtherwise
<1>4. PendingKept(u, owed')
  <2>1. Weakened(owed, owed') /\ owed'["31"] # "owed"
    BY OwesNothingNew
  <2> QED BY <1>2, <2>1, NoRoutineResult DEF IInv, PendingKept, Weakened, Deferring
<1> QED BY <1>1, <1>2, <1>3, <1>4, RequestStep

LEMMA NotSuppressed == FALSE \in SuppressBit("31")
BY DEF SuppressBit

LEMMA RoutineRefusedStep ==
  ASSUME IInv, NEW r \in Routines, RoutineRefused(Cancel(Ticked(srv), r), r),
         UNCHANGED <<ram, stored, elapsed, lockout>>
  PROVE  StepSound
<1>1. PICK nrc \in {"7E", "33"} : Respond(Cancel(Ticked(srv), r), "31", nrc, FALSE)
  BY DEF RoutineRefused
<1>2. nrc # "78" /\ Storage'
  BY StorageUntouched
<1> QED BY <1>1, <1>2, CancelFits, NotSuppressed, RoutineStep

\* A request that sets the state and the progress of the routine.
LEMMA RoutineSets ==
  ASSUME IInv, NEW r \in Routines, NEW nrc, NEW suppressed \in SuppressBit("31"),
         NEW state \in RoutineStates, NEW progress \in RoutineProgress, nrc # "78",
         Respond([Cancel(Ticked(srv), r) EXCEPT !.state[r] = state,
                                                !.progress[r] = progress],
                 "31", nrc, suppressed),
         Storage', UNCHANGED <<elapsed, lockout>>
  PROVE  StepSound
<1> DEFINE s == Cancel(Ticked(srv), r)
           u == [s EXCEPT !.state[r] = state, !.progress[r] = progress]
<1>1. s \in Server /\ SameOtherwise(s, Ticked(srv)) /\ s.routine \in {srv.routine, NoRoutine}
  BY CancelFits DEF SameOtherwise
<1> HIDE DEF s
<1>2. SameOtherwise(u, s) /\ u.routine = s.routine
  <2>1. /\ s.state \in [Routines -> RoutineStates]
        /\ s.progress \in [Routines -> RoutineProgress]
    BY <1>1 DEF Server
  <2>2. /\ [s.state EXCEPT ![r] = state] \in [Routines -> RoutineStates]
        /\ [s.progress EXCEPT ![r] = progress] \in [Routines -> RoutineProgress]
    BY <2>1
  <2>3. u \in Server
    BY <1>1, <2>2 DEF Server
  <2> QED BY <1>1, <2>3 DEF SameOtherwise, Server
<1> HIDE DEF u
<1>3. SameOtherwise(u, Ticked(srv)) /\ u.routine \in {srv.routine, NoRoutine}
  BY <1>1, <1>2 DEF SameOtherwise
<1>4. Respond(u, "31", nrc, suppressed)
  BY DEF s, u
<1> QED BY <1>3, <1>4, RoutineStep

\* A request whose only effect on the server, beyond the cancellation, is the
\* response.
LEMMA RoutineAnswered ==
  ASSUME IInv, NEW r \in Routines, NEW nrc, NEW suppressed \in SuppressBit("31"),
         nrc # "78", Respond(Cancel(Ticked(srv), r), "31", nrc, suppressed),
         UNCHANGED <<ram, stored, elapsed, lockout>>
  PROVE  StepSound
BY CancelFits, RoutineStep, StorageUntouched

LEMMA RoutineStartStep ==
  ASSUME IInv, NEW r \in Routines, NEW suppressed \in SuppressBit("31"),
         RoutineStart(r, suppressed)
  PROVE  StepSound
<1> DEFINE s == Cancel(Ticked(srv), r)
<1>1. UNCHANGED <<ram, stored, elapsed, lockout>> /\ Storage'
  BY StorageUntouched DEF RoutineStart
<1>2. CASE RoutineRefused(s, r)
  BY <1>1, <1>2, RoutineRefusedStep
<1>3. CASE Respond(s, "31", "22", FALSE)
  BY <1>1, <1>3, NotSuppressed, RoutineAnswered
<1>4. CASE Respond([s EXCEPT !.state[r] = "running", !.progress[r] = "fresh"],
                   "31", "ok", suppressed)
  BY <1>1, <1>4, RoutineSets DEF RoutineStates, RoutineProgress
<1> QED BY <1>2, <1>3, <1>4 DEF RoutineStart

LEMMA RoutineStopStep ==
  ASSUME IInv, NEW r \in Routines, NEW suppressed \in SuppressBit("31"),
         RoutineStop(r, suppressed)
  PROVE  StepSound
<1> DEFINE s == Cancel(Ticked(srv), r)
<1>1. UNCHANGED <<ram, stored, elapsed, lockout>> /\ Storage'
  BY StorageUntouched DEF RoutineStop
<1>2. CASE RoutineRefused(s, r)
  BY <1>1, <1>2, RoutineRefusedStep
<1>3. CASE Respond(s, "31", "24", FALSE)
  BY <1>1, <1>3, NotSuppressed, RoutineAnswered
<1>4. CASE Respond([s EXCEPT !.state[r] = "idle", !.progress[r] = "fresh"],
                   "31", "ok", suppressed)
  BY <1>1, <1>4, RoutineSets DEF RoutineStates, RoutineProgress
<1> QED BY <1>2, <1>3, <1>4 DEF RoutineStop

LEMMA RoutineResultsStep ==
  ASSUME IInv, NEW r \in Routines, NEW suppressed \in SuppressBit("31"),
         RoutineResults(r, suppressed)
  PROVE  StepSound
<1> DEFINE s == Cancel(Ticked(srv), r)
<1>1. UNCHANGED <<elapsed, lockout>>
  BY DEF RoutineResults
<1>2. CASE RoutineRefused(s, r) /\ UNCHANGED <<ram, stored>>
  BY <1>1, <1>2, RoutineRefusedStep
<1>3. CASE Respond(s, "31", "24", FALSE) /\ UNCHANGED <<ram, stored>>
  BY <1>1, <1>3, NotSuppressed, RoutineAnswered
<1>4. CASE Respond(s, "31", "ok", suppressed) /\ UNCHANGED <<ram, stored>>
  BY <1>1, <1>4, RoutineAnswered
<1>5. CASE /\ Respond([s EXCEPT !.progress[r] = "polled",
                                !.routine = [routine |-> r, suppress |-> suppressed]],
                      "31", "78", FALSE)
           /\ UNCHANGED <<ram, stored>>
  <2> DEFINE result == [routine |-> r, suppress |-> suppressed]
             u == [s EXCEPT !.progress[r] = "polled", !.routine = result]
  <2>1. suppressed \in BOOLEAN /\ ("31" \notin Suppressible => suppressed = FALSE)
    BY DEF SuppressBit
  <2>2. result \in Results /\ result # NoRoutine /\ result.suppress = suppressed
    BY <2>1 DEF Results, NoRoutine, Routines
  <2>3. s \in Server /\ SameOtherwise(s, Ticked(srv))
    BY CancelFits DEF SameOtherwise
  <2>4. Respond(u, "31", "78", FALSE)
    BY <1>5
  <2> HIDE DEF result, s
  <2>12. "polled" \in RoutineProgress
    BY DEF RoutineProgress
  <2>5. SameOtherwise(u, s) /\ u.routine = result
    <3>1. s.progress \in [Routines -> RoutineProgress]
      BY <2>3 DEF Server
    <3>2. [s.progress EXCEPT ![r] = "polled"] \in [Routines -> RoutineProgress]
      BY <2>12, <3>1
    <3>3. u \in Server
      BY <2>2, <2>3, <3>2 DEF Server
    <3> QED BY <2>3, <3>3 DEF SameOtherwise, Server
  <2> HIDE DEF u
  <2>6. SameOtherwise(u, Ticked(srv))
    BY <2>3, <2>5 DEF SameOtherwise
  <2>7. Sound(u, elapsed, quiet, lockout') /\ lockout' \in 0..Delay
    BY <1>1, <2>6, TickedFits, SoundWhenSame DEF SameOtherwise
  <2>8. owed'["31"] # "none" /\ owed'["2E"] = owed["2E"]
    <3>1. Announce("31", "78") /\ owed \in Owings
      BY <2>4 DEF Respond, IInv
    <3> QED BY <3>1, Announce78 DEF Deferring
  <2>9. PendingKept(u, owed')
    BY <2>1, <2>2, <2>5, <2>6, <2>8, TickedFits DEF IInv, PendingKept, SameOtherwise
  <2>10. /\ u.session = Ticked(srv).session /\ u.timeouts = Ticked(srv).timeouts
         /\ u.session # srv.session => ~u.unlocked /\ ~u.seedPending
    BY <2>6, TickedFits DEF SameOtherwise
  <2>11. Storage' /\ elapsed' = elapsed
    BY <1>1, <1>5, StorageUntouched
  <2>13. "31" \in Deferring
    BY DEF Deferring
  <2> QED BY <2>4, <2>7, <2>9, <2>10, <2>11, <2>13, RequestStep
<1>6. CASE Execute(r) /\ Respond(Completed(s, r), "31", "ok", suppressed)
  <2>1. Storage'
    BY <1>6, ExecuteStorage
  <2> QED BY <1>1, <1>6, <2>1, RoutineSets DEF Completed, RoutineStates, RoutineProgress
<1> QED BY <1>2, <1>3, <1>4, <1>5, <1>6 DEF RoutineResults

LEMMA RoutineUnsupportedStep ==
  ASSUME IInv, NEW r \in Routines, RoutineUnsupported(r)
  PROVE  StepSound
BY NotSuppressed, RoutineAnswered DEF RoutineUnsupported

LEMMA ReadDidStep ==
  ASSUME IInv, ReadDid
  PROVE  StepSound
<1>1. UNCHANGED <<ram, stored, elapsed, lockout>>
  BY DEF ReadDid
<1>2. CASE Respond(Ticked(srv), "22", "31", FALSE)
  BY <1>1, <1>2, PlainRequest
<1>3. CASE \E tooLong \in BOOLEAN : Respond(Ticked(srv), "22", "ok", tooLong)
  BY <1>1, <1>3, PlainRequest
<1> QED BY <1>2, <1>3 DEF ReadDid

LEMMA MalformedStep ==
  ASSUME IInv, NEW sid, Malformed(sid)
  PROVE  StepSound
<1>1. /\ Respond(Ticked(srv), sid, "13", FALSE)
      /\ UNCHANGED <<ram, stored, elapsed, lockout>>
  BY DEF Malformed
<1> QED BY <1>1, PlainRequest

LEMMA RequestSound ==
  ASSUME IInv, Request
  PROVE  StepSound
<1>1. ASSUME NEW sid, NEW b \in SuppressBit(sid) PROVE b \in BOOLEAN
  BY <1>1 DEF SuppressBit
<1>2. ASSUME NEW session \in Sessions, SessionControl(session)
      PROVE  StepSound
  BY <1>2, SessionControlStep
<1>3. CASE TesterPresent
  BY <1>3, TesterPresentStep
<1>4. ASSUME NEW suppressed \in SuppressBit("27"), RequestSeed(suppressed)
      PROVE  StepSound
  BY <1>1, <1>4, RequestSeedStep
<1>5. ASSUME NEW suppressed \in SuppressBit("27"), NEW correct \in BOOLEAN,
             SendKey(correct, suppressed)
      PROVE  StepSound
  BY <1>1, <1>5, SendKeyStep
<1>6. ASSUME NEW r \in Routines, NEW suppressed \in SuppressBit("31"),
             \/ RoutineStart(r, suppressed) \/ RoutineStop(r, suppressed)
             \/ RoutineResults(r, suppressed) \/ RoutineUnsupported(r)
      PROVE  StepSound
  BY <1>6, RoutineStartStep, RoutineStopStep, RoutineResultsStep, RoutineUnsupportedStep
<1> QED
  BY <1>2, <1>3, <1>4, <1>5, <1>6, ReadDidStep, MalformedStep, WriteDidStep DEF Request

-------------------------------------------------------------------------------
(* Pending responses, ticks and the passing of time. *)

\* A step of the main loop that answers what is pending with u.
LEMMA PollStep ==
  ASSUME IInv, NEW u, srv' = u, u \in Server,
         u.session = srv.session, u.s3Active = srv.s3Active,
         u.s3Deadline = srv.s3Deadline, u.timeouts = srv.timeouts,
         u.seedPending = srv.seedPending, u.unlocked = srv.unlocked,
         u.delayUntil = srv.delayUntil,
         owed' \in Owings, PendingKept(u, owed'), Storage',
         UNCHANGED <<elapsed, quiet, lockout>>
  PROVE  StepSound
<1>1. Sound(srv, elapsed, quiet, lockout)
  BY DEF IInv
<1>2. Sound(u, elapsed, quiet, lockout)
  BY <1>1, SoundWhenSame
<1>3. Times'
  BY DEF IInv, Times
<1>4. Sound(srv, elapsed, quiet, lockout)' /\ PendingKept(srv, owed)'
  BY <1>2
<1>5. IInv'
  BY <1>3, <1>4 DEF IInv
<1> QED BY <1>5 DEF StepSound

LEMMA PollWriteStep ==
  ASSUME IInv, PollWrite
  PROVE  StepSound
<1> DEFINE u == [srv EXCEPT !.write = NoWrite]
<1>1. srv \in Server /\ Storage
  BY DEF IInv, Sound
<1>2. srv' = u /\ UNCHANGED <<elapsed, quiet, lockout>>
      /\ owed' = [owed EXCEPT !["2E"] = "none"] /\ owed \in Owings
  BY DEF PollWrite, SaveFailed, Finish, IInv
<1>3. NoWrite \in Writes
  BY DEF Writes
<1>4. /\ u \in Server
      /\ u.session = srv.session /\ u.s3Active = srv.s3Active
      /\ u.s3Deadline = srv.s3Deadline /\ u.timeouts = srv.timeouts
      /\ u.seedPending = srv.seedPending /\ u.unlocked = srv.unlocked
      /\ u.delayUntil = srv.delayUntil /\ u.routine = srv.routine
  BY <1>1, <1>3 DEF Server
<1> HIDE DEF u
<1>5. PendingKept(u, owed') /\ owed' \in Owings
  <2>1. u.write = NoWrite
    BY <1>1, <1>3 DEF u, Server
  <2>2. owed'["2E"] = "none" /\ owed'["31"] = owed["31"] /\ owed' \in Owings
    BY <1>2 DEF Owings, Deferring
  <2> QED BY <1>4, <2>1, <2>2 DEF IInv, PendingKept
<1>6. Storage'
  <2>1. CASE UNCHANGED <<ram, stored>>
    BY <2>1, StorageUntouched
  <2>2. CASE /\ stored' = [stored EXCEPT ![srv.write.did] = srv.write.data]
             /\ ram' = [ram EXCEPT ![srv.write.did] = srv.write.data]
    <3>1. srv.write \in [did : WritableDids, data : Values]
      BY <1>1 DEF PollWrite, Server, Writes
    <3>2. PICK d \in WritableDids, v \in Values : d = srv.write.did /\ v = srv.write.data
      BY <2>2, <3>1
    <3>3. v # "unset"
      BY DEF Values
    <3>4. stored' = [stored EXCEPT ![d] = v] /\ ram' = [ram EXCEPT ![d] = v]
      BY <2>2, <3>2
    <3>5. /\ ram' \in [WritableDids -> Values \cup {"default"}]
          /\ stored' \in [WritableDids -> Values \cup {"unset"}]
      BY <1>1, <3>4 DEF Storage
    <3>6. ram' = LoadDids(stored')
      BY <1>1, <3>3, <3>4, <3>5 DEF Storage, RamIsDurable, LoadDids
    <3> QED BY <3>5, <3>6 DEF Storage, RamIsDurable, LoadDids
  <2> QED BY <2>1, <2>2 DEF PollWrite
<1> QED BY <1>2, <1>4, <1>5, <1>6, PollStep

LEMMA PollRoutineStep ==
  ASSUME IInv, PollRoutine
  PROVE  StepSound
<1> DEFINE r == srv.routine.routine
           s == [srv EXCEPT !.routine = NoRoutine]
           u == Completed(s, r)
<1>1. srv \in Server /\ srv.routine # NoRoutine /\ srv.write = NoWrite
  BY DEF IInv, Sound, PollRoutine
<1>2. r \in Routines
  BY <1>1 DEF Server, Results
<1>3. srv' = u /\ UNCHANGED <<elapsed, quiet, lockout>> /\ Execute(r)
  BY DEF PollRoutine
<1>4. /\ s \in Server
      /\ s.session = srv.session /\ s.s3Active = srv.s3Active
      /\ s.s3Deadline = srv.s3Deadline /\ s.timeouts = srv.timeouts
      /\ s.seedPending = srv.seedPending /\ s.unlocked = srv.unlocked
      /\ s.delayUntil = srv.delayUntil /\ s.write = srv.write
      /\ s.routine = NoRoutine
  BY <1>1, NoRoutineResult DEF Server
<1>5. Storage'
  BY <1>3, ExecuteStorage
<1>6. /\ owed' \in Owings /\ owed'["2E"] = owed["2E"]
      /\ ~srv.routine.suppress => owed'["31"] = "none"
  BY DEF PollRoutine, Finish, IInv, Owings, Deferring
<1> HIDE DEF s, r
<1>7. /\ u \in Server
      /\ u.session = s.session /\ u.s3Active = s.s3Active
      /\ u.s3Deadline = s.s3Deadline /\ u.timeouts = s.timeouts
      /\ u.seedPending = s.seedPending /\ u.unlocked = s.unlocked
      /\ u.delayUntil = s.delayUntil /\ u.write = s.write
      /\ u.routine = s.routine
  <2>1. /\ s.state \in [Routines -> RoutineStates]
        /\ s.progress \in [Routines -> RoutineProgress]
    BY <1>4 DEF Server
  <2>2. /\ [s.state EXCEPT ![r] = "complete"] \in [Routines -> RoutineStates]
        /\ [s.progress EXCEPT ![r] = "executed"] \in [Routines -> RoutineProgress]
    BY <1>2, <2>1 DEF RoutineStates, RoutineProgress
  <2>3. u = [s EXCEPT !.state[r] = "complete", !.progress[r] = "executed"]
    BY DEF Completed
  <2> HIDE DEF u
  <2>4. u \in Server
    BY <1>4, <2>2, <2>3 DEF Server
  <2> QED BY <1>4, <2>3, <2>4 DEF Server
<1> HIDE DEF u
<1>8. PendingKept(u, owed')
  BY <1>1, <1>4, <1>6, <1>7, NoRoutineResult DEF IInv, PendingKept
<1> QED BY <1>3, <1>4, <1>5, <1>6, <1>7, <1>8, PollStep

LEMMA TickStep ==
  ASSUME IInv, Tick
  PROVE  StepSound
<1>1. srv' = Ticked(srv) /\ UNCHANGED <<ram, stored, elapsed, owed, quiet, lockout>>
  BY DEF Tick, history
<1>2. IInv'
  <2>1. Times' /\ Storage' /\ owed' \in Owings
    BY <1>1, StorageUntouched DEF IInv, Times
  <2>2. Sound(Ticked(srv), elapsed, quiet, lockout)
    BY TickedFits
  <2>3. PendingKept(Ticked(srv), owed)
    BY <1>1, OwedUntouched, TickedFits, PendingUntouched
  <2> QED BY <1>1, <2>1, <2>2, <2>3 DEF IInv
<1>3. srv'.timeouts # srv.timeouts => quiet >= S3
  BY <1>1, TickedFits, TickedSound DEF IInv
<1>4. srv'.session # srv.session => ~srv'.unlocked /\ ~srv'.seedPending
  BY <1>1, TickedFits
<1> QED BY <1>2, <1>3, <1>4 DEF StepSound

\* In a server that has been ticked, a session that runs was not silent for S3.
LEMMA NotSilent ==
  ASSUME IInv, srv = Ticked(srv), srv.s3Active
  PROVE  quiet < S3
<1> SUFFICES ASSUME quiet = S3 PROVE FALSE
  BY Constants, SMT DEF IInv, Times
<1>1. srv \in Server /\ srv.s3Deadline = (StartAt + elapsed + (S3 - quiet)) % TimeMod
  BY DEF IInv, Sound, S3Kept
<1>2. elapsed \in Nat /\ S3 - quiet = 0 /\ 0 < TimeMod \div 2
  BY Constants, SMT DEF IInv, Times
<1>3. TimeReached(srv.s3Deadline)
  <2>1. S3 - quiet \in Nat /\ S3 - quiet < TimeMod \div 2
    BY <1>2, SMT
  <2>2. TimeReached((StartAt + elapsed + (S3 - quiet)) % TimeMod)
    BY <1>2, <2>1, NotReachedBefore
  <2> QED BY <1>1, <2>2
<1>4. Ticked(srv).s3Active = FALSE
  BY <1>1, <1>3, TickedFields DEF S3Expired
<1> QED BY <1>4

LEMMA ElapseStep ==
  ASSUME IInv, Elapse
  PROVE  StepSound
<1>1. /\ srv = Ticked(srv) /\ elapsed < Horizon /\ elapsed' = elapsed + 1
      /\ quiet' = (IF quiet < S3 THEN quiet + 1 ELSE S3)
      /\ lockout' = (IF lockout < Delay THEN lockout + 1 ELSE Delay)
      /\ UNCHANGED <<srv, ram, stored, owed>>
  BY DEF Elapse
<1>2. Times /\ Sound(srv, elapsed, quiet, lockout)
  BY DEF IInv
<1>3. Times'
  BY <1>1, <1>2, Constants, SMT DEF Times
<1>4. srv \in Server /\ SeedOrKey(srv)
  BY <1>2 DEF Sound
<1>5. S3Kept(srv, elapsed', quiet')
  <2>1. srv.s3Active = (srv.session # "default")
    BY <1>2 DEF Sound, S3Kept
  <2>2. srv.timeouts <= elapsed /\ srv.timeouts \in Nat
    BY <1>2, <1>4 DEF Sound, S3Kept, Server
  <2>3. srv.timeouts < elapsed' /\ srv.timeouts <= elapsed'
    BY <1>1, <1>2, <2>2, Constants, SMT DEF Times
  <2>4. srv.s3Active => srv.s3Deadline = (StartAt + elapsed' + (S3 - quiet')) % TimeMod
    <3> SUFFICES ASSUME srv.s3Active
                 PROVE  srv.s3Deadline = (StartAt + elapsed' + (S3 - quiet')) % TimeMod
      OBVIOUS
    <3>1. quiet < S3
      BY <1>1, NotSilent
    <3>2. StartAt + elapsed' + (S3 - quiet') = StartAt + elapsed + (S3 - quiet)
      BY <1>1, <1>2, <3>1, Constants, SMT DEF Times
    <3>3. srv.s3Deadline = (StartAt + elapsed + (S3 - quiet)) % TimeMod
      BY <1>2 DEF Sound, S3Kept
    <3> QED BY <3>2, <3>3
  <2> QED BY <2>1, <2>3, <2>4 DEF S3Kept
<1>6. DelayKept(srv, elapsed', lockout')
  <2> SUFFICES ASSUME srv.delayUntil # 0
               PROVE  \E t \in 0..elapsed' :
                        /\ srv.delayUntil = DelayDeadline(t)
                        /\ lockout' = IF elapsed' - t < Delay THEN elapsed' - t ELSE Delay
    BY DEF DelayKept
  <2>1. PICK t \in 0..elapsed :
          /\ srv.delayUntil = DelayDeadline(t)
          /\ lockout = IF elapsed - t < Delay THEN elapsed - t ELSE Delay
    BY <1>2 DEF Sound, DelayKept
  <2>2. /\ t \in 0..elapsed'
        /\ lockout' = IF elapsed' - t < Delay THEN elapsed' - t ELSE Delay
    BY <1>1, <1>2, <2>1, Constants, SMT DEF Times
  <2> QED BY <2>1, <2>2
<1>7. Refusing(srv, lockout')
  <2>1. lockout' < Delay => lockout < Delay
    BY <1>1, <1>2, Constants, SMT DEF Times
  <2> QED BY <1>2, <2>1 DEF Sound, Refusing
<1>8. Sound(srv, elapsed, quiet, lockout)'
  BY <1>1, <1>4, <1>5, <1>6, <1>7 DEF Sound
<1>9. PendingKept(srv, owed)' /\ Storage' /\ owed' \in Owings
  BY <1>1, StorageUntouched, OwedUntouched, PendingUntouched
<1>10. IInv'
  BY <1>3, <1>8, <1>9 DEF IInv
<1> QED BY <1>1, <1>10 DEF StepSound

-------------------------------------------------------------------------------
(* The theorems. *)

LEMMA InitSound ==
  ASSUME Init
  PROVE  IInv
<1>1. /\ Horizon \in Nat /\ S3 \in Nat /\ Delay \in Nat
      /\ 0 \in 0..Horizon /\ S3 \in 0..S3 /\ Delay \in 0..Delay /\ ~(Delay < Delay)
  BY Constants, SMT
<1>2. Times
  BY <1>1 DEF Init, Times
<1>3. /\ srv.session = "default" /\ srv.s3Active = FALSE /\ srv.timeouts = 0
      /\ srv.seedPending = FALSE /\ srv.unlocked = FALSE /\ srv.delayUntil = 0
      /\ srv.write = NoWrite /\ srv.routine = NoRoutine
  BY DEF Init
<1>4. srv \in Server
  <2>1. /\ NoWrite \in Writes /\ NoRoutine \in Results /\ "default" \in Sessions
        /\ [r \in Routines |-> "idle"] \in [Routines -> RoutineStates]
        /\ [r \in Routines |-> "fresh"] \in [Routines -> RoutineProgress]
    BY DEF Writes, Results, Sessions, RoutineStates, RoutineProgress
  <2> QED BY <2>1, Zero DEF Init, Server
<1>5. S3Kept(srv, elapsed, quiet)
  <2>1. elapsed = 0
    BY DEF Init
  <2>2. srv.timeouts <= elapsed
    BY <1>3, <2>1
  <2> QED BY <1>3, <2>2 DEF S3Kept
<1>6. /\ SeedOrKey(srv) /\ DelayKept(srv, elapsed, lockout)
      /\ Refusing(srv, lockout)
  BY <1>1, <1>3 DEF Init, SeedOrKey, DelayKept, Refusing
<1>7. owed \in Owings /\ PendingKept(srv, owed)
  BY <1>3, NoRoutineResult DEF Init, PendingKept, Owings, Deferring
<1>8. Storage
  BY LoadDidsType DEF Init, Storage, RamIsDurable
<1> QED BY <1>2, <1>4, <1>5, <1>6, <1>7, <1>8 DEF IInv, Sound

LEMMA NextSound ==
  ASSUME IInv, [Next]_vars
  PROVE  StepSound
<1>1. CASE Request \/ PollPending \/ Tick \/ Elapse
  BY <1>1, RequestSound, PollWriteStep, PollRoutineStep, TickStep, ElapseStep
     DEF PollPending
<1>2. CASE Wait \/ UNCHANGED vars
  <2>1. UNCHANGED <<srv, ram, stored, elapsed, owed, quiet, lockout>>
    BY <1>2 DEF Wait, vars, history
  <2>2. Storage' /\ PendingKept(srv, owed)'
    BY <2>1, StorageUntouched DEF IInv
  <2>3. Times' /\ Sound(srv, elapsed, quiet, lockout)' /\ owed' \in Owings
    BY <2>1 DEF IInv, Times
  <2> QED BY <2>1, <2>2, <2>3 DEF StepSound, IInv
<1> QED BY <1>1, <1>2 DEF Next, Poll

\* The server and its storage stay in a state IInv describes, whatever the
\* tester requests and whenever the main loop polls (UdsServer_HandleRequest,
\* UdsServer_PollPending, UdsServer_Tick).
THEOREM InvHolds == Spec => []IInv
<1>1. IInv /\ [Next]_vars => IInv'
  BY NextSound DEF StepSound
<1> QED BY InitSound, <1>1, PTL DEF Spec

\* Every field of UdsServer_t and of the storage stays in its range; a session
\* is timed out at most once a tick.
THEOREM TypeCorrect == Spec => []TypeOK
<1>1. ASSUME IInv PROVE TypeOK
  <2>1. srv \in Server /\ srv.timeouts <= elapsed /\ elapsed \in 0..Horizon
    BY <1>1 DEF IInv, Times, Sound, S3Kept
  <2>2. srv.timeouts \in 0..Horizon
    <3>1. srv.timeouts \in Nat
      BY <2>1 DEF Server
    <3> QED BY <2>1, <3>1, Constants, SMT
  <2>3. /\ srv.session \in Sessions
        /\ srv.s3Active \in BOOLEAN /\ srv.s3Deadline \in Deadlines
        /\ srv.seedPending \in BOOLEAN /\ srv.unlocked \in BOOLEAN
        /\ srv.attempts \in Attempts /\ srv.delayUntil \in Deadlines
        /\ srv.write \in Writes /\ srv.routine \in Results
        /\ srv.state \in [Routines -> RoutineStates]
        /\ srv.progress \in [Routines -> RoutineProgress]
    BY <2>1 DEF Server
  <2>4. /\ ram \in [WritableDids -> Values \cup {"default"}]
        /\ stored \in [WritableDids -> Values \cup {"unset"}]
        /\ owed \in [Deferring -> {"none", "owed", "repeated"}]
    BY <1>1 DEF IInv, Storage, Owings
  <2> QED BY <2>2, <2>3, <2>4
          DEF TypeOK, Deadlines, Attempts, Writes, Results, RoutineStates, RoutineProgress
<1> QED BY <1>1, InvHolds, PTL

\* No request is served in a session that was silent for S3
\* (UdsServer_KeepSessionAlive, UdsServer_Tick).
THEOREM Expires == Spec => []SessionExpires
<1>1. ASSUME IInv PROVE SessionExpires
  <2> SUFFICES ASSUME srv.session # "default", srv = Ticked(srv) PROVE quiet < S3
    BY DEF SessionExpires
  <2>1. srv.s3Active
    BY <1>1 DEF IInv, Sound, S3Kept
  <2> QED BY <1>1, <2>1, NotSilent
<1> QED BY <1>1, InvHolds, PTL

\* Only a session that was silent for S3 is timed out, on whichever side of the
\* wrap of the tick counter its deadline lies (UdsServer_TimeReached).
THEOREM Kept == Spec => SessionKept
<1>1. IInv /\ [Next]_vars => [srv'.timeouts # srv.timeouts => quiet >= S3]_vars
  BY NextSound DEF StepSound
<1> QED BY <1>1, InvHolds, PTL DEF Spec, SessionKept

\* A session that is left, by request or by timeout, leaves neither an unlocked
\* server nor a seed behind (UdsServer_LockSecurityState).
THEOREM Locks == Spec => LockedBySessionChange
<1>1. IInv /\ [Next]_vars
        => [srv'.session # srv.session => ~srv'.unlocked /\ ~srv'.seedPending]_vars
  BY NextSound DEF StepSound
<1> QED BY <1>1, InvHolds, PTL DEF Spec, LockedBySessionChange

\* After a lock-out the server refuses seeds and keys for the whole delay, if no
\* lock-out falls on the one tick whose deadline is 0: the server takes that
\* deadline for none (UdsServer_SecurityDelayActive).
THEOREM Refuses ==
  ASSUME NoZeroDeadline
  PROVE  Spec => []DelayHolds
<1>1. ASSUME IInv PROVE DelayHolds
  BY <1>1 DEF IInv, Sound, Refusing, DelayHolds
<1> QED BY <1>1, InvHolds, PTL

\* A delay that has run out refuses nothing any more, while less than half the
\* range of the tick counter has passed (UdsServer_TimeReached).
THEOREM DelayRunsOut ==
  ASSUME Horizon < TimeMod \div 2
  PROVE  Spec => []DelayEnds
<1>1. ASSUME IInv PROVE DelayEnds
  <2> SUFFICES ASSUME DelayActive(srv), ~(lockout < Delay) PROVE FALSE
    BY DEF DelayEnds
  <2>1. srv.delayUntil # 0 /\ ~TimeReached(srv.delayUntil)
    BY DEF DelayActive
  <2>2. PICK t \in 0..elapsed :
          /\ srv.delayUntil = DelayDeadline(t)
          /\ lockout = IF elapsed - t < Delay THEN elapsed - t ELSE Delay
    BY <1>1, <2>1 DEF IInv, Sound, DelayKept
  <2>3. elapsed \in 0..Horizon
    BY <1>1 DEF IInv, Times
  <2>4. elapsed \in Nat /\ t \in Nat /\ Delay \in Nat /\ t + Delay <= elapsed
    BY <2>2, <2>3, Constants, SMT
  <2>5. elapsed - (t + Delay) < TimeMod \div 2
    BY <2>3, <2>4, Constants, SMT
  <2>6. TimeReached((StartAt + t + Delay) % TimeMod)
    BY <2>4, <2>5, ReachedAfter
  <2> QED BY <2>1, <2>2, <2>6 DEF DelayDeadline
<1> QED BY <1>1, InvHolds, PTL

\* An NRC 78 that has no final response is still pending in the server, unless
\* the tester asked again, and nothing is pending that was not announced, if no
\* tester asks for the results of a routine with the suppress bit set
\* (UdsServer_WriteDid, UdsServer_RoutineControl, UdsServer_PollPending).
THEOREM NothingForgotten ==
  ASSUME "31" \notin Suppressible
  PROVE  Spec => []PendingIsOwed
<1>1. ASSUME IInv PROVE PendingIsOwed
  BY <1>1 DEF IInv, PendingKept, PendingIsOwed, Pending, Deferring
<1> QED BY <1>1, InvHolds, PTL

\* 0x22 never shows a value that a reboot would take back, through failed saves,
\* replaced writes and the erase routine (UdsEcu_ResetDids).
THEOREM DurableReads == Spec => []RamIsDurable
<1>1. ASSUME IInv PROVE RamIsDurable
  BY <1>1 DEF IInv, Storage
<1> QED BY <1>1, InvHolds, PTL
===============================================================================
