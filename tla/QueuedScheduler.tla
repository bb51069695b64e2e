--------------------------- MODULE QueuedScheduler ---------------------------
(***************************************************************************)
(* QueuedDualNodeScheduler (diagnoser/tools/scheduler.py): a queue and a   *)
(* worker thread per node, retries after a TimeoutError, and diagnostic    *)
(* sessions that at most one node may be in at a time.                     *)
(*                                                                         *)
(* Every caller submits and closes from one thread.  A job's function      *)
(* returns, raises TimeoutError or raises something else.  A worker is in  *)
(* one of these places:                                                    *)
(*   get      waits for its queue                                          *)
(*   acquire  is about to look for a conflict, with the condition's lock   *)
(*   wait     waits for the condition, which releases the lock             *)
(*   run      calls the job's function                                     *)
(*   release  is in the finally clause                                     *)
(*   report   sets the result of the job's future                          *)
(*   stopped  has returned                                                 *)
(***************************************************************************)
EXTENDS Naturals, Sequences

CONSTANTS
  Nodes,          \* names of the nodes
  Exclusive,      \* exclusive_sessions
  Default,        \* the session 0x01
  DefaultRetries, \* default_retries, the retries of every job
  MaxJobs         \* bound on the jobs of a behaviour

ASSUME SchedulerAssumption ==
  /\ Default \notin Exclusive
  /\ DefaultRetries \in Nat /\ MaxJobs \in Nat

VARIABLES
  queue,    \* _queues
  closed,   \* _closed
  worker,   \* of each node: where it is, its job, attempts and status
  active,   \* _active_sessions
  submitted,  \* number of jobs submitted so far, which are their ids
  resolved    \* ids of the jobs whose futures have their result

schedulerVars == <<queue, closed, worker, active, submitted, resolved>>

Job == [id : 1..MaxJobs, session : Exclusive \cup {Default}]

\* No job; close() puts it, as None, into every queue.
NoJob == [id |-> 0, session |-> Default]

Idle == [pc |-> "get", job |-> NoJob, attempts |-> 0, expired |-> FALSE,
         status |-> "open"]

SchedulerInit ==
  /\ queue = [n \in Nodes |-> <<>>]
  /\ closed = FALSE
  /\ worker = [n \in Nodes |-> Idle]
  /\ active = [n \in Nodes |-> Default]
  /\ submitted = 0
  /\ resolved = {}

-------------------------------------------------------------------------------
\* The thread that owns the scheduler.

Submit(n, session) ==
  /\ ~closed
  /\ submitted < MaxJobs
  /\ submitted' = submitted + 1
  /\ LET job == [id |-> submitted', session |-> session] IN
       queue' = [queue EXCEPT ![n] = Append(@, job)]
  /\ UNCHANGED <<closed, worker, active, resolved>>

Close ==
  /\ ~closed
  /\ closed' = TRUE
  /\ queue' = [n \in Nodes |-> Append(queue[n], NoJob)]
  /\ UNCHANGED <<worker, active, submitted, resolved>>

-------------------------------------------------------------------------------
\* The workers.

NeedsSession(n) == worker[n].job.session \in Exclusive

\* _worker_loop, and the beginning of _execute.
Take(n) ==
  /\ worker[n].pc = "get" /\ queue[n] # <<>>
  /\ queue' = [queue EXCEPT ![n] = Tail(@)]
  /\ LET job == Head(queue[n]) IN
       worker' = [worker EXCEPT ![n] =
         IF job = NoJob THEN [@ EXCEPT !.pc = "stopped"]
         ELSE [Idle EXCEPT !.job = job,
                 !.pc = IF job.session \in Exclusive THEN "acquire" ELSE "run"]]
  /\ UNCHANGED <<closed, active, submitted, resolved>>

\* Another node is in an exclusive session, whichever.
Conflict_same(n) ==
  \E other \in Nodes \ {n} : active[other] = worker[n].job.session
Conflict(n) == \E other \in Nodes \ {n} : active[other] \in Exclusive

\* worker, with all those that wait for the condition notified.
NotifyAll_none(w) == w
NotifyAll(w) ==
  [n \in Nodes |-> IF w[n].pc = "wait" THEN [w[n] EXCEPT !.pc = "acquire"] ELSE w[n]]

\* _acquire_session: the session is free, the deadline has passed, or the
\* worker waits.
Acquire(n) ==
  /\ worker[n].pc = "acquire"
  /\ \/ /\ ~Conflict(n)
        /\ active' = [active EXCEPT ![n] = worker[n].job.session]
        /\ worker' = NotifyAll([worker EXCEPT ![n].pc = "run"])
     \/ /\ Conflict(n) /\ worker[n].expired
        /\ worker' = [worker EXCEPT ![n].pc = "report", ![n].status = "skipped"]
        /\ UNCHANGED active
     \/ /\ Conflict(n) /\ ~worker[n].expired
        /\ worker' = [worker EXCEPT ![n].pc = "wait"]
        /\ UNCHANGED active
  /\ UNCHANGED <<queue, closed, submitted, resolved>>

\* session_wait_timeout_s has passed, which ends a wait.
Deadline(n) ==
  /\ worker[n].pc \in {"acquire", "wait"} /\ ~worker[n].expired
  /\ worker' = [worker EXCEPT ![n].pc = "acquire", ![n].expired = TRUE]
  /\ UNCHANGED <<queue, closed, active, submitted, resolved>>

\* The job's function is called; only a TimeoutError is retried.
Attempt(n) ==
  /\ worker[n].pc = "run"
  /\ \E status \in {"ok", "timeout", "error"} :
       LET again == status = "timeout" /\ worker[n].attempts < DefaultRetries IN
         worker' = [worker EXCEPT ![n].attempts = @ + 1, ![n].status = status,
                                  ![n].pc = IF again THEN "run" ELSE "release"]
  /\ UNCHANGED <<queue, closed, active, submitted, resolved>>

\* _release_session, whatever the job's function did.
MustRelease_onSuccess(n) == NeedsSession(n) /\ worker[n].status = "ok"
MustRelease(n) == NeedsSession(n)

Release(n) ==
  /\ worker[n].pc = "release"
  /\ LET reporting == [worker EXCEPT ![n].pc = "report"] IN
     \/ /\ MustRelease(n)
        /\ active' = [active EXCEPT ![n] = Default]
        /\ worker' = NotifyAll(reporting)
     \/ /\ ~MustRelease(n)
        /\ worker' = reporting
        /\ UNCHANGED active
  /\ UNCHANGED <<queue, closed, submitted, resolved>>

Report(n) ==
  /\ worker[n].pc = "report"
  /\ resolved' = resolved \cup {worker[n].job.id}
  /\ worker' = [worker EXCEPT ![n] = Idle]
  /\ UNCHANGED <<queue, closed, active, submitted>>

Worker(n) == Take(n) \/ Acquire(n) \/ Attempt(n) \/ Release(n) \/ Report(n)

SchedulerNext ==
  \/ \E n \in Nodes, s \in Exclusive \cup {Default} : Submit(n, s)
  \/ Close
  \/ \E n \in Nodes : Worker(n) \/ Deadline(n)

\* Threads run, and the functions of jobs return.  Nothing is assumed of
\* deadlines: a worker must not need one to be woken.
SchedulerFairness == \A n \in Nodes : WF_schedulerVars(Worker(n))

SchedulerSpec == SchedulerInit /\ [][SchedulerNext]_schedulerVars /\ SchedulerFairness

-------------------------------------------------------------------------------
\* A worker calls, or has called and not yet left, a job's function.
Executing(n) == worker[n].pc \in {"run", "release"}

\* No two nodes execute jobs of exclusive sessions at the same time, also not
\* of different ones, and active_session tells which node does, until the
\* session is given back, whatever way the job ended.
SessionsExclusive ==
  /\ \A m, n \in Nodes :
       Executing(m) /\ NeedsSession(m) /\ Executing(n) /\ NeedsSession(n) => m = n
  /\ \A n \in Nodes :
       active[n] = IF Executing(n) THEN worker[n].job.session ELSE Default

Open(id) == id <= submitted /\ id \notin resolved

\* Every future is completed, although the scheduler is closed, jobs fail, and
\* workers wait for each other's sessions: the release wakes them, not their
\* deadline.
EveryJobResolved == \A id \in 1..MaxJobs : Open(id) ~> ~Open(id)
===============================================================================
