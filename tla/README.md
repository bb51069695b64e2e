# Verification of the dual-CAN diagnostic ECUs

TLA+ models of the firmware in `src/firmware/common/` (CAN receive path, CAN
health, ISO-TP transport, UDS server, parameter log, watchdog), of the main
loops that connect its parts, and of the PC programs that talk to it (shared
bus, UDS client, request scheduler); TLC configurations that check them on small
instances; and TLAPS proofs about every part, ISO-TP and the PC programs
included. This file describes the system, says which definition stands for which code, what
each run checks and why its bounds are large enough, what is proved, and what is
left out.

## 1. The system

Two STM32 ECUs (F407: request id 0x7E0, response id 0x7E8; F103: 0x7E1, 0x7E9)
and a PC tester written in Python share a CAN bus. Each ECU runs one main loop
and the CAN receive and error interrupts, all of one priority, so that an
interrupt pre-empts the main loop and never another interrupt. One iteration of
the loop (`ecu-f407/Core/Src/main.c:447-515`) empties the receive queues, ticks
the UDS server, polls both ISO-TP machines, serves a complete request, polls
deferred responses, sends cyclic frames, looks after the health of the
controller and kicks the watchdogs.

| component | state | operations | interacts with |
|---|---|---|---|
| CAN receive queue (`can_rx_queue.c`) | `frames`, `head`, `tail`, `dropped` | `Push` (interrupt), `Pop` (main loop), `Init` | driver |
| CAN driver (`can_driver.c`) | two queues, hardware FIFOs and mailboxes | filters, receive interrupt, `ProcessRx`, send, `Recover` | queue, ISO-TP (callback), health |
| ISO-TP (`isotp.c`) | `IsotpTx_t`, `IsotpRx_t` | `Start`, `OnFrame`, `Poll`, `Read` of each side | driver (send), main loop |
| UDS server (`uds_server.c`) | session, S3 deadline, security, armed write, pending results | `Process`, `Tick`, `PollPending` | ECU adapter, DID database, main loop |
| ECU adapter, DID database (`uds_ecu.c`, `uds_did_db.c`) | routine states, DID values | routine handler, reset of DIDs, attachment of the storage | server, storage |
| Parameter log and store (`param_log.c`, `param_store.c`, `app_param_storage.c`) | flash slots, next slot, image in RAM | `Load` (with compaction), `Set`, `Clear` | server, flash |
| Main loops (`main.c` of both boards) | serving flag, response buffer | one iteration | all of the above |
| CAN health (`can_health.c`) | error state, bus-off counts, recovery | error interrupt, recovery attempt, settle window, escalation | driver, main loop |
| Watchdogs (`watchdog.c`) | last kick, window | kick, window service | main loop |
| Peer tester, bench firmware | scripts, counters | periodic tests | ISO-TP, driver |
| PC transport (`transport/*.py`) | reader thread, bounded endpoint queues | send, receive | bus |
| PC client (`uds/client.py`) | one transaction | request with timeout and retry | transport |
| PC scheduler (`tools/scheduler.py`) | job queue, one worker per node, session counts | `submit`, `close`, workers | client |
| Virtual ECU, PC tools, DBC generator | none that outlives a call, or a copy of the firmware's for tests | | |

`firmware/*/Drivers`, startup files, `system_*` and the HAL configuration are
vendor code.

### Where it is hard, and what makes it correct

* *Interrupt against main loop.* `CanRxQueue_Pop` copies a slot while the
  interrupt may push: a slot being read must not be written, and the queue must
  be a FIFO that counts what it refuses.
* *Two priorities of frames.* Two hardware FIFOs, two software queues and a
  recovery that resets them: frames of one class must stay in order and none may
  disappear without being counted.
* *Timeouts against late frames.* Every ISO-TP timeout races the frame it waits
  for. A receiver must never assemble a message from two, both ends must become
  free, and the verdicts of the two ends should agree.
* *Loss of power* at any step of a write, a clear or a compaction of the log.
* *Deferred responses.* NRC 78 promises a final response that is produced in a
  later iteration, with saves that may fail and other requests in between.
* *A blocking peer.* The PC's calls of `send` and `receive` begin and end at any
  time and share one queue: each leaves behind frames that the next call, or the
  next transfer, finds.
* *Wrapping times.* S3 and the security delay are kept as 32-bit deadlines.
* *One record, two writers.* The error interrupt and the main loop's recovery
  both change the health record; a bus-off that is entered again while the record
  still says bus-off is not counted as an event, and yet must not be taken for a
  recovery.
* *A window watchdog.* A refresh that comes too early resets the node like one
  that comes too late, and refreshes are scheduled by ticks sampled earlier.
* *One response buffer.* The transport sends from the buffer the next response
  is written to, over many iterations of the loop.
* *A client that retries.* Two requests of one exchange, a deferred response and
  a late answer compete for one endpoint and one queue, which drops its oldest
  message when it is full.
* *Exclusive sessions.* The scheduler's workers wait for each other's sessions,
  with jobs that fail, retries and a close in between.

`PROJECT.json` lists these hazards at their lines with the properties that cover
them.

## 2. Modules

| module | models | state and actions |
|---|---|---|
| `BoundedFifo` | what a receive queue promises | `Accept`, `Refuse`, `Take`, `Clear` |
| `CanRxQueue` | `can_rx_queue.c` | the fields of `CanRxQueue_t`; `Push` is one action because nothing runs during an interrupt, `Pop` is four, one per group of memory accesses an interrupt can separate; `Reset` is `CanRxQueue_Init` |
| `MC_CanRxQueue` | sets of frames for TLC | |
| `CanDriverRx` | receive half of `can_driver.c` | hardware FIFO per class (`Receive`), the handler's two loops (`Irq...`), the two loops of `CanDriver_ProcessRx`, `Recover`; both software queues are instances of `BoundedFifo` |
| `MessageLink` | what ISO-TP promises the layer above | `Submit`, `Deliver` |
| `Isotp` | `isotp.c`, one direction of a link | `tx` and `rx` are `IsotpTx_t` and `IsotpRx_t`; `TxStart`, `TxOnFrame`, three `TxPoll` actions, one receiver action per frame type, `RxPoll`, `RxRead`; mailboxes, bus, other traffic, foreign flow control and `Tick` are the environment |
| `IsotpFromPc` | `send` of the PC's `transport/isotp.py`, against the receiver of `Isotp` | `send` is the call in progress: `PcSend`, `WaitFlowControl`, `FlowControlTimeout`, `SendConsecutive` |
| `IsotpToPc` | `receive` of `transport/isotp.py`, against the sender of `Isotp` | `recv` is the call in progress with its local variables: `PcReceive`, `ReceiveFirst`, `ReceiveRest`, `ReceiveTimeout` |
| `DurableStore` | what parameter storage promises | request, apply, confirm or refuse, power loss, boot, compaction |
| `ParamLog` | `param_log.c` on the flash of `app_param_storage.c` | `Scan`, `EraseSector`, `RewriteLatest` are `ParamLog_Load`; `Set` and `Clear` start an image, `ProgramSlot` and `Verified` finish it; `PowerLoss` between and inside any of them |
| `UdsServer` | `uds_server.c`, `uds_ecu.c`, `uds_did_db.c` | `srv` is `UdsServer_t`; one action per service and subfunction, each beginning with `Ticked` as `UdsServer_Process` begins with `UdsServer_Tick`; `PollWrite` and `PollRoutine` are `UdsServer_PollPending` |
| `CanHealth` | `can_health.c`, the error interrupt and `CanDriver_Recover`, `APP_ServiceCanHealth`, `APP_UpdateHealthSummary` | `health` is `CanHealth_t`, `attempt` the static variables of the loop; `BusError` is an error with its interrupt, and the main loop is one action per read or write of the record between which the interrupt may come (`ReadVerdict`, `Judge`, `Recover`, `ReadErrorCounters`, `Sync`, `StoreState`) |
| `Watchdog` | `watchdog.c` and the loop's timing | `StartIteration` samples the tick, `Service` refreshes if it is due, `Tick` lets a millisecond pass |
| `SharedCanBus` | `transport/shared.py` | `ReaderRecv` is `_read_loop`; `ReaderPut`, `ReaderDropOldest`, `ReaderPutAgain` are the three calls of `_put_latest` |
| `IsotpLinks` | the links in use: node to node, PC to node (`"request"`), node to PC (`"response"`) | the composition of the three modules; `link`, chosen in the initial state, says which link a behaviour is about |
| `EcuNode` | `CanDriver_ProcessRx` with its routing, and `APP_ServiceIsotp` | `RouteRequest`, with `RouteFragment` for frames that make no request; `ServiceIsotp`, the composition of `PollTx`, `Serve`, `PollPending` and `FreeEndpoint` |
| `UdsClient` | `_transact` and `_transact_once` of `uds/client.py`, with what `send` and `receive` of `transport/isotp.py` return, raise and take from the queue | `Request`; `SendRequest`, `SendTimeout` and `SendDrops` for `send`; `Receive`, `ReceiveFragment` and `Timeout` for `receive`. `TimedOut` is the `except TimeoutError` of `_transact`; a `ValueError` (`ReceiveFragment`) passes it and ends the exchange |
| `UdsExchange` | a client and a node | the composition of `EcuNode` and `UdsClient` over `SharedCanBus` |
| `QueuedScheduler` | `QueuedDualNodeScheduler` of `tools/scheduler.py` | `Submit` and `Close` of the caller; `Take`, `Acquire`, `Attempt`, `Release`, `Report` of each node's worker; `Deadline` |
| `...Proofs` | theorems about the module so named: `CanRxQueue`, `CanDriverRx`, `ParamLog`, `UdsServer`, `CanHealth` and `Watchdog` (`NodeResetProofs`), `UdsExchange` and `QueuedScheduler` (`ClientProofs`), `IsotpLinks` (`IsotpProofs` and, for the responses to the PC and for blocks, `IsotpResponseProofs`) | |

`CanRxQueue` implements `BoundedFifo`, on which `CanDriverRx` is built; the
order `CanDriverRx` guarantees (`ClassOrderKept`) is what the bus of `Isotp`
assumes; `IsotpFromPc` and `IsotpToPc` extend `Isotp` and use its receiver and
its sender unchanged, so that the other end is the PC, and `IsotpLinks` composes
the three; messages to a node, from whichever end, implement `MessageLink`;
`ParamLog` implements `DurableStore`, whose all-or-nothing saves are
what `UdsServer` assumes of its storage. `EcuNode` takes the endpoint and the
server for what `Isotp` and `UdsServer` show them to be: a transfer ends by
itself (`NobodyStuck`), and an NRC 78 has a final response unless the tester asks
again before it comes (`PendingIsOwed`, `FinalResponse`).

Some definitions are preceded by variants of themselves, `X_late`, `X_never`
and the like. Nothing uses them: each is `X` with a plausible mistake, and
stands there so that replacing `X` by it shows that the properties can fail.

### What the data is abstracted to

* A frame of the queue is two locations (identifier; length and data), because
  what matters is whether a copy can mix two frames.
* ISO-TP payload is a sequence of chunks, one per frame; a chunk knows its
  message and its position, so any mixture, gap or repetition is visible.
  A deadline is the number of ticks until it expires, as the code compares
  unsigned elapsed times, which do not suffer from a wrapping counter.
* An image of the parameter store is a function from DIDs to values. Its CRC is
  the last word of a slot and flash is programmed word by word, so a slot holds
  an image, nothing, or something that does not decode.
* UDS keys are right or wrong. The five DIDs are represented by one of each
  access class (`vin`: programming session; `custom`: unlocked; `hardware`: read
  only). Times of the server are absolute and modulo `TimeMod`, since its
  comparison by half the range is what could be wrong.

* Error counters of the CAN controller count steps of 8, the amount an error
  raises them by, and time in `CanHealth` counts the period and the settle time
  of a recovery in units of its own.
* `Watchdog` keeps times as differences in millisecond ticks, as the code compares
  them, and knows of an iteration only how long it works.
* In `UdsExchange` a message stands for a whole ISO-TP transfer or is a `Fragment`,
  a frame of a transfer that did not complete. A request or response carries its
  service and the number of the exchange it belongs to, which the code does not
  have: it tells whose answer the client took. The endpoint's queue counts
  messages, where the code's counts frames and drops one of them, which leaves
  fragments, too. A first frame makes `receive` skip frames until a consecutive one
  comes or the time is up: it takes any number of messages in one step. A request
  of several frames that the node refuses, since it has not read an earlier one, is
  an unanswered request in the model and a failed `send` in the code; both raise
  `TimeoutError` and are retried alike.
* `owed` of `UdsServer` keeps, of each service that announces responses, whether an
  NRC 78 still lacks its final response: `"none"`, `"owed"`, or `"repeated"` when
  the tester did not wait for it (section 4). It says nothing of the server's own
  record of what is pending, with which `PendingIsOwed` compares it.
* A job of `QueuedScheduler` returns, raises `TimeoutError` or raises something
  else; what it does on the bus is left out.

### Assumptions about the environment

* One core, one interrupt priority: a handler runs to its end.
* Flash programs word after word and stops at the first error. An erase acts on
  the whole sector (F407) or page (F103) at once: one that is interrupted does
  not leave a slot erased while another still decodes. Without this assumption
  `DurableSpec` fails: `ParamLog_Load` stops at the first erased slot and does
  not look behind it, so an old image behind an erased slot 0 would be taken for
  the latest after the next write to slot 0.
* CRC collisions do not happen.
* The controllers do not retransmit (`AutoRetransmission` is disabled): a frame
  that meets an error is lost. The bus does not duplicate or reorder the frames
  of one node, except that frames waiting in the mailboxes of one controller may
  leave in any order.

## 3. Runs

Every passing run but `QueuedScheduler` checks deadlock as well, which none has;
the scheduler stops when it is closed and its queues are empty.

| run | checks | bounds |
|---|---|---|
| `CanRxQueue` | `FifoSpec` (refinement of `BoundedFifo`), `SlotBeingReadIsStable` | a ring of 3 slots and 4 different frames: head meets tail in every position and a torn copy differs from every frame |
| `CanDriverRx` | `EveryFrameAccounted`, `ClassOrderKept`, `PathDrains` | 4 frames of each class against 2 places in each hardware FIFO and queue: both overflow, with recoveries anywhere |
| `IsotpLossy` | `NodeLinkSpec` (refinement of `MessageLink`), `WholeUnlessAborted`, `DeliveredIsNotTimeout`, `EndsAgree`, `GrantRespected`, `NobodyStuck` | all three links; 3 messages of 1, 4, 6 or 7 chunks between nodes, 1, 3, 6 or 7 to a node and 1, 4 or 6 to the PC, into a buffer of 6 at a node, 2 losses, one WAIT or reserved flow status. 5 consecutive frames pass the wrap of sequence numbers modulo 4 and span 3 blocks of 2; the 2 of a request of 3 chunks end a block. Calls of `receive` begin whenever they like. |
| `IsotpSlow` | `UnreadMessageKept`, `WholeUnlessAborted`, `NobodyStuck` | all three links; 2 messages; main loops, bus and PC as slow as they please, mailboxes and the PC's queue with other frames, all timeouts of a tick and STmin between nodes and towards a node too, so that N_As, N_Bs, N_Cr, N_Ar and the PC's timeouts expire at every point and frames of aborted transfers meet later ones. About two minutes, as `IsotpLossy`. |
| `ParamLog` | `DurableSpec` (refinement of `DurableStore`), `StoreIsDurable`, `BootLeavesRoom` | 3 slots, 2 DIDs, 2 values, any number of writes, failures and reboots: the log fills up and is compacted again and again |
| `UdsServer` | `SessionExpires`, `SessionKept`, `LockedBySessionChange`, `DelayHolds`, `DelayEnds`, `PendingIsOwed`, `FinalResponse`, `RamIsDurable` | 3 ticks that cross the wrap of the counter, with S3 and the delay of 2 and 2 attempts: sessions expire, a delay begins, holds and ends while writes and routines are pending; a tester that sends any service at any time, without waiting for responses or, from any point on, waiting for them. |
| `CanHealth` | `VerdictSound`, `NoNeedlessReset`, `RecoversWhenHealed` | thresholds of 1 and 2 errors, reset at the second failure in a row, a settle time longer than the period of recoveries, events modulo 4; the bus turns good, noisy or dominant between any two steps |
| `Watchdog` | `NoWatchdogReset` | the numbers of the code: refresh after 30 ms, iterations that delay 11 ticks and work up to 1, one recovery per 60 ticks that may take 12; the window both boards have in common |
| `UdsExchange` | `ResponseIntact`, `InSync`, `NewestKept`, `EndpointFreed`, `ExchangeAnswered` | 2 exchanges with a retry each, of a service that is answered at once or one that is deferred and whose request takes several frames (`LongRequests`); transfers that last into the next iteration or break off and leave up to 2 fragments; a queue of 2 that overflows |
| `QueuedScheduler` | `SessionsExclusive`, `EveryJobResolved` | 2 nodes, 2 exclusive sessions and the default one, 3 jobs, one retry: one node's jobs of different sessions compete with the other's |
| `IsotpBlockEnd`, `UdsSuppress` | one property each, which the code violates: section 4 | the smallest instance that shows it |

Where a theorem of section 5 states a property, the run shows it on an instance
and the theorem for all. The type invariants of `CanRxQueue`, `CanDriverRx`,
`CanHealth`, `UdsExchange` and `QueuedScheduler` are left to their proofs.

`IsotpLossy` has `Prompt = TRUE`: time passes only when main loops and bus have
done what they can do at once. It separates what goes wrong because frames are
lost from what goes wrong because a loop is late. With slow loops a transfer that
was delivered may be reported as a timeout (N_As expires while other frames
occupy the mailboxes), and a frame that is left over from an aborted transfer may
reach the next one (section 4), so that neither `DeliveredIsNotTimeout` nor
`NodeLinkSpec` holds. What holds then is `IsotpSlow`. The lengths of the messages
a node sends in both runs avoid a number of consecutive frames that is a multiple
of the block size, the case of `IsotpBlockEnd`; the PC's requests do not.

In each run either frames are lost or loops are slow, not both. With both, a first
frame that is lost and a flow control frame that is late for the request before
let the node complete one request of the PC with the frames of the next, and a
frame an aborted transfer left in a mailbox can take the place of a lost one.
`WholeUnlessAborted` needs its premise, that the node did not give the message
up, even when nothing is lost: section 4.

`UdsServer` begins where no delay has a deadline of exactly 0. There the code
takes the deadline for "no delay" (`uds_server.c:116`) and `DelayHolds` does not
hold: a chance of one in 2^32 per lock-out. Its routine requests do not carry the
suppress bit, the case of `UdsSuppress`.

`InSync` speaks of exchanges before the first `send` or `receive` that raises. A
`TimeoutError` or a `ValueError` leaves the late answer in the queue, and every
later exchange of the same service may take the answer of the one before (section
4). `ExchangeAnswered` has no such premise: an exchange ends, whatever it took for
its answer, if the node loses no response. Its premise `~lost` also excludes the
node whose reception of a request was broken off by another frame.

`PendingIsOwed` and `FinalResponse` except an NRC 78 of a tester that asks again
before it has the final response, by another write that is announced or by any
further request about routines: a tester that waits, as docs/uds_week5.md:127-131
expects it to, is owed its response whatever else happens, between several requests
for other services, failed saves, lost sessions and a locked security.

`EveryFrameAccounted` counts with the model's eyes: frames that the hardware FIFO
overwrites and those a recovery discards are recorded by the model and by no counter
of the code; only refused frames are (`dropped`). `DelayHolds` begins with a
lock-out the code decides on; that the number of attempts before one starts anew
with a session is not examined.

`Watchdog` leaves a tick of margin per iteration beyond the delay. On the F407
two ticks of work would be too many if a recovery whose start times out falls
between two refreshes; without a recovery four would do. The F103 can need more: it
saves an image of 80 bytes by half-words, which takes longer than a tick. Its window
is wider, 58 ms instead of 50 (`watchdog.h:31`), and the inequalities of
`TimingAssumption`, for which `NeverReset` is proved, hold with four ticks of work and
an `Open` of 57 as well; the run has the numbers of the F407.

### Fairness

* `CanDriverRx`: weak fairness of the interrupt handler (a pending interrupt is
  taken) and of `CanDriver_ProcessRx`, which the main loop calls in every
  iteration. `Recover` and `Receive` are not fair.
* `Isotp`: weak fairness of each side's frame processing, polling and reading
  (the main loop does all three in every iteration), of the mailboxes (a
  controller that does not retransmit empties them, whatever happens on the bus)
  and of `Tick`. `AppSends`, `ForeignFc` and `TxStart` are not fair.
* `IsotpLinks`: the same of the nodes on the link, and weak fairness of the PC's
  thread inside a call. Calls begin whenever they like.
* `UdsServer`: weak fairness of `UdsServer_PollPending` while the tester is
  `waiting` for final responses, and of nothing else. An iteration of the loop frees the
  endpoint at its end and serves a request that is there before it polls
  (`main.c:916-979`), so requests that keep coming starve the poll. When none
  comes, the poll is called whenever the transport is free; that the transport
  becomes free is `NobodyStuck` of `IsotpLinks` and `EndpointFreed` of
  `UdsExchange`. The tester may begin to wait at any point and need not wait.
* `CanHealth`: weak fairness of the main loop, of `Elapse`, the tick, and of
  `BusSuccess`: frames that pass lower the counters, and a node sends cyclic
  frames all the time. Errors and changes of the bus are not fair;
  `RecoversWhenHealed` has the good bus as its premise.
* `UdsExchange`: weak fairness of the reader thread, of the routing and serving
  of the main loop and of `Transport`: a call of `send` ends, in success or in a
  timeout of its own, and `receive` takes what has arrived. Requests and the
  timeouts of `receive` are not fair: `ExchangeAnswered` must not need one of these.
* `QueuedScheduler`: weak fairness of each worker, that is of the thread and of
  the job's function, which returns. Deadlines are not fair: a worker that waits
  for a session must be woken by its release.

## 4. Where the code and its documents disagree

Two disagreements are shown by a run each:

1. **A transfer that ends a block is reported as a timeout** (`IsotpBlockEnd`).
   `IsotpTx_Poll` (`isotp.c:487`) tests for a full block before it tests whether
   everything was sent. When the number of consecutive frames is a multiple of
   the block size the sender waits for a flow control frame that the receiver,
   whose message is complete (`isotp.c:673-679`), does not send.
2. **Suppressed routine results are never completed** (`UdsSuppress`).
   `UdsServer_PollPending` (`uds_server.c:1288`) applies the suppress bit to the
   final response that NRC 78 announced.

What follows was met while modelling. The models contain these behaviours, no
document promises otherwise in so many words unless it is quoted, and no run
counts them as violations:

* *A frame of an aborted transfer is sent during the next one.* When N_As expires
  `IsotpTx_Poll` (`isotp.c:463`) ends the transfer and leaves its frame in the
  mailbox. Frames of one identifier leave by mailbox number, so a first frame may
  be sent after that of the next transfer. It needs a blocked bus or a slow loop.
* *Compaction at boot can lose every parameter.* `ParamLog_Load` erases
  (`param_log.c:83`) before it rewrites; `DurableStore` allows a loss there and
  nowhere else.
* *The security delay comes back.* A delay is ended only by a 0x27 request after
  it; half the range of the tick counter later (25 days) the comparison takes its
  deadline for one in the future (`uds_server.c:121`).
* *STmin.* `isotp_send_cf` (`isotp.c:160`) counts it from the time it hands a
  frame over, also when the frame then waits for a mailbox;
  `docs/isotp_week3.md:60` counts from the actual previous frame.
* *A node that boots on a dominant bus is dead.* The reset that failed recoveries
  end in boots on the same bus; `CanDriver_Start` fails on a dominant one, and
  `Error_Handler` stops the node before its watchdogs are started. The comment at
  `main.c:1228-1232` expects a visible reset every few seconds. Such a node has
  `pc = "halted"`, which `RecoversWhenHealed` excludes.
* *An error that raises no counter is taken for one of transmission*
  (`can_driver.c:359-364`), so the record can say bus-off (`can_health.c:75-89`)
  of a controller that is not. `RecoversWhenHealed` shows that the node recovers
  from that as well.
* *The PC completes a response with the frames of the next.*
  `docs/isotp_protocol_contract.md:74` says "A second FF while a transfer is active
  aborts the old transfer." `receive()` (`transport/isotp.py:260`) skips it. If
  nobody waited for a response, its first frame stays in the queue; a call that
  takes it after the node's N_Bs sends the flow control the node's next response
  is waiting for, skips that response's first frame and appends its consecutive
  frames to the old message. `WholeUnlessAborted` shows that only a message the
  node gave up can suffer so.
* *A late answer shifts the exchanges after it.* The endpoint's queue is not
  emptied before a request (`client.py:143`), and `parse_response` compares the
  service only.
* *Frames that make no message end an exchange without a retry.* `receive` raises
  `ValueError` (`transport/isotp.py:245,249,266`) when it begins with a consecutive
  or flow control frame, or when a sequence number is wrong; `_transact` retries
  after `TimeoutError` only (`client.py:136`). The answer, and what is left of the
  frames, stays in the queue as after a timeout.
* *A second request replaces a deferred response.* Another write that is announced
  clears the pending one (`uds_server.c:537`), another results request arms itself in
  place of the pending one (`842`), and a request about the same routine cancels it
  (`698-702`). The NRC 78 that was sent first gets no final response, and the value
  of a replaced write is not stored; of results `docs/uds_week5.md:127-131` says that
  the final response is sent by itself. A client that waits, as this repository's does, never
  sends such a request unless it has given the first one up.
* *Requests that keep coming postpone deferred responses.* A request that waits is
  served before the poll for deferred responses whenever the endpoint is free
  (`main.c:916`, `956`, `976`), and pending results are polled only when no write is
  pending (`uds_server.c:1201`, `1253`).

## 5. Proofs

Eight modules hold proofs. Each begins with a type invariant, adds what makes it
inductive (`IInv`), shows that `Init` establishes it and that each action keeps
it, one lemma per action or group of actions, and derives the theorems from it.

### Receive queue

`CanRxQueueProofs` proves, for every `Depth`, set of frames and counter width:

* `TypeCorrect`: `Spec => []TypeOK`;
* `ReadSlotStable`: `Spec => SlotBeingReadIsStable`;
* `ImplementsFifo`: `Spec => FifoSpec`, the refinement of `BoundedFifo`.

The only assumption is `QueueAssumption`: depth and counter width are positive
and the malformed frame is not a well-formed one.

The type invariant is not enough: that a slot being copied stays as it is needs
to know that the copy is of the slot at `tail`, that the queue is not empty
meanwhile and what was copied so far. This is `PopOwnsTail`, and
`IInv == TypeOK /\ PopOwnsTail` is inductive (`InitIInv`, `NextIInv`,
`InvariantHolds`). The refinement maps the slots from `tail` to `head` to a
sequence; its lemmas say what `Push` and `PopRelease` do to its length and its
elements, and each step of the ring becomes `Accept`, `Refuse`, `Take`, `Clear`
or a stuttering step.

### Receive path

`CanDriverRxProofs` proves, for every depth of the hardware FIFOs and queues, any
number of frames and any width of the dropped counter that the number of frames
does not exceed (`DriverAssumption`):

* `TypeCorrect`: `Spec => []TypeOK`;
* `NothingLost`: `Spec => []EveryFrameAccounted`;
* `OrderKept`: `Spec => []ClassOrderKept`.

`IInv` has two parts per class besides the shapes. `Held`: what was delivered,
what is queued and what is in the hardware FIFO are each in order of arrival,
everything in one before everything in the next, and nothing is later than the
number of arrivals; this is what the interrupt (FIFO to queue), the main loop
(queue to callback), an overwritten FIFO and a recovery that clears both each
keep. `Counted`: the ledger adds up, with numbers that are not negative; so the
dropped counter stays below its modulus and never wraps, without which the
ledger would not.

### Parameter log

`ParamLogProofs` proves, for every number of slots above one and every set of
DIDs and values:

* `TypeCorrect`: `Spec => []TypeOK`;
* `RamMatchesFlash`: `Spec => []StoreIsDurable`;
* `BootMakesRoom`: `Spec => BootLeavesRoom`;
* `ImplementsStore`: `Spec => DurableSpec`, the refinement of `DurableStore`.

The only assumption is `ParamLogAssumption`: at least two slots, and contents of
a slot that are erased or do not decode are told apart from images. With one
slot the rewrite of a compaction would fill the sector, and `BootLeavesRoom`
would fail.

Where a scan of the sector ends is a `CHOOSE`. `RecordsExist` and `RecordsAre`
show that it exists, by the least element of a set of naturals, and that it is
unique; from then on the proofs only use `ScanEnds`. The type invariant says
nothing about the order of the sector, so `IInv` adds four parts:
`NothingBehindErased` (no record lies behind an erased slot: an interrupted
erase, a failed program and a torn slot all keep this),
`CompactionHoldsLatest` (between scan and rewrite RAM holds what the scan
found), `LogEndsAtNext` (an open log ends at `next`, except for the slot being
verified, and nothing behind it decodes) and `ClosedLogIsIdle`. A slot at
`next` that is torn stays in the way: the log still ends there, and every write
is refused until a boot compacts. One lemma per action shows that `IInv` is kept
and one that the step is a step of `DurableStore` or leaves it unchanged.

### UDS server

`UdsServerProofs` proves, for every S3 time and delay below half the range of
the tick counter, every width and start of the counter, every number of attempts
and any behaviour of the tester (`UdsAssumption`):

* `TypeCorrect`: `Spec => []TypeOK`;
* `Expires`, `Kept`: `SessionExpires` and `SessionKept`;
* `Locks`: `LockedBySessionChange`;
* `Refuses`: `DelayHolds`, if no deadline is 0 (`NoZeroDeadline`);
* `DelayRunsOut`: `DelayEnds`, if less than half the range of the counter passes;
* `NothingForgotten`: `PendingIsOwed`, if no routine request carries the suppress
  bit;
* `DurableReads`: `RamIsDurable`.

The three premises are the limits of the code named in sections 3 and 4: without
each, the property is false. The core are four lemmas about modular times: what
adding to a time does, what a difference is, and that the code's comparison by
half the range says "not reached" before a deadline and "reached" in the half
range after it. `IInv` relates the server's deadlines to the history: the S3
deadline is S3 past the last sign of life (`S3Kept`), the delay's deadline belongs
to the last lock-out (`DelayKept`), and until the delay has passed the server is
locked, with no seed outstanding (`Refusing`). Further, a seed is outstanding or
security is unlocked, never both (`SeedOrKey`), what is owed is pending
(`PendingKept`), and RAM and storage agree (`Storage`). `NothingForgotten` is about an
NRC 78 the tester waits for: `owed` becomes `"repeated"` by the tester's requests
alone, never by what the server does with its pending operations, and the theorem
says that these operations are kept until their final response is sent, and that
nothing is pending that was not announced.

### CAN health

`NodeResetProofs` proves, for all thresholds, periods and settle times,
`VerdictIsSound` (`VerdictSound`) and `ResetsAreNeeded` (`NoNeedlessReset`).
A relapse is not counted as an event while the record says bus-off, and the count
of events wraps, so the equality of the two counts proves nothing by itself.
What makes the verdict sound is that during settling the record says bus-off
(`SettlingInBusOff`), so no event is counted, and a relapse leaves the
controller's own flag set until the next recovery; `RelapseTakesFault` says that
only a faulty bus relapses.

### Watchdog

`NodeResetProofs` also proves `NeverReset` (`NoWatchdogReset`) for every refresh time,
delay, bound on an iteration's work and window that satisfy the five inequalities
of `TimingAssumption`. `WInv` counts the delays since the last refresh (`Phase`)
and bounds the time since then from below by these delays and from above by the
delays, the work and at most one recovery.

### ISO-TP links

`IsotpProofs` and, for `ResponsesWhole`, `GrantsKept` and `BothEndsAgree`,
`IsotpResponseProofs` prove, for all lengths of messages, buffers, block sizes, timeouts and numbers of mailboxes,
any traffic of other frames and whatever frames the bus loses:

* `LinksTypeCorrect`: `LinksSpec => []LinksTypeOK`;
* `UnreadKept`: `LinksSpec => UnreadMessageKept`;
* `NodeLinkRefines`: `LinksSpec => NodeLinkSpec`, the refinement of `MessageLink`, if
  `FastLinks`;
* `ResponsesWhole`: `LinksSpec => []WholeUnlessAborted`, if `FastLinks`;
* `GrantsKept`: `LinksSpec => []GrantRespected`, if `FastLinks`;
* `VerdictsTrue`: `LinksSpec => []DeliveredIsNotTimeout`, if `Prompt` and
  `NoBlockEnds`;
* `BothEndsAgree`: `LinksSpec => []EndsAgree`, if `FastLinks` and `PacedLinks`.

The premises are conditions on the constants, which run `IsotpLossy` satisfies:

* `Prompt`: main loops and bus are fast compared to a tick. The polls run every
  iteration, the N_* timeouts are 1000 ms.
* `FastLinks` adds `BlockSize > 0` and `BlockSize <= SnMod`: within a block no
  sequence number occurs twice. `isotp.c` advertises 8 (`ISOTP_DEFAULT_BLOCK_SIZE`)
  and counts to 16. With a longer block, `SnMod` frames lost in a row would go
  unnoticed.
* `NoBlockEnds`: no message of a node's sender, other than one the receiver refuses,
  ends together with a block. Where one does, the property is false: that is the
  finding of run `IsotpBlockEnd`.
* `PacedLinks`: `Stmin < NCr`. `isotp.h` has 20 ms and 1000 ms
  (`ISOTP_DEFAULT_STMIN_MS`, `ISOTP_DEFAULT_N_CR_MS`). With equal times the receiver
  gives a message up while its sender pauses, and the property is false.

`Shape` is the inductive type invariant, stronger than `LinksTypeOK` by the types of
every frame in every queue. `UnreadKept` adds `Separate`: no receiver holds a message
while it receives another.

`LinkInv` carries the refinement. `InStep` relates a transfer as its sender sees it,
the frames on its way, the flow control on its way, the receiver and what was read.
Its core is that both ends count the same block (`SameBlock`) and that the frames
under way lie in the window the receiver granted (`InWindow`): in a window of at most
`SnMod` frames a sequence number names one chunk, so a frame that is in sequence is
the next chunk of the same message and never one of another transfer. A first frame
is the last frame its sender hands over before it waits (`FirstLast`), and flow
control on its way finds its sender waiting with nothing left on the path
(`Awaited`); `OneAnswer` says that there is at most one. Every step of the code is
the same lemma about these values, whether a node or the PC takes it: a frame handed
over, processed, lost or refused, a block granted, a transfer begun, completed or
given up. The PC's `send` leaves flow control that came too late in the endpoint's
queue; `PcSender` and the types say that on a prompt link none is left that could
grant a block of the next request.

`RespInv` does for the responses to the PC what `LinkInv` cannot. A call of
`receive()` may end in the middle of a message, so frames of several messages may lie
in the endpoint's queue, and a later call may grant a block to a sender that has gone.
`RespInStep` relates the sender, the frames on the path, a grant on its way, the call
and what was read, and keeps two cases apart throughout: a message its sender did not
give up, of which a call has exactly the chunks so far, and one it gave up, which the
frames of the next response may continue. What holds in both is that the consecutive
frames on the path are of one message and one block (`RespChunks`, `RespCount`), that
a call in a message has none of them yet and the two ends count the block alike
(`RespBlock`, `RespEnd`), and that a grant on its way is for the sender that waits for
it, or meets none that does (`RespGrant`). A first frame on the path is either fresh,
the latest of a sender that waits or has given up, or lies behind a message given up
before and will be skipped (`RespFirst`). The numbers of what was read, what is being
read and what is still to come increase (`RespRead`): a call never begins a message
it, or an earlier call, has read.

For `GrantsKept`, `OneBlock` of `InStep` and `RespCount` say that the indices of the
consecutive frames of a transfer on their way differ by less than a block. They are in
order, so their remainders modulo the block size differ: the frames map one to one to
`0..(BlockSize - 1)`. A new block begins with nothing on the path.

`VerdictInv` needs no agreement of the ends and so covers the responses to the PC.
It says of every chunk that is anywhere between its sender and its reader that it was
handed over (`HandedOut`). A sender that gives up has not handed over its last chunk:
it waits for flow control after the first frame or after a full block
(`BlocksCounted`), so the message that was given up never becomes whole. On the link
that carries requests, where a refusal ends a call of `send` as well (`GivenUp`), it
needs no `NoBlockEnds`: `send` does not wait after its last frame.

`EndsAgree` adds the timers of both ends. `AgreeInv` calls a message owed once a block
of it was granted or it was reported complete. As long as the bus lost nothing,
everything handed over of a message that is owed is in the receiver or on the path, or
the message is to be read or was read (`OwedKept`). That holds because a receiver never
drops such a message: a frame out of sequence is excluded by `LinkInv`, and N_Cr does
not expire (`CrRuns`). N_Cr is unexpired while anything of it is on the path, since a
tick finds the path empty; it starts anew when flow control leaves; and while the sender
pauses, N_Cr has at least what is left of STmin (`Slack` counts the ticks since the
sender was free to go on), which is why STmin must be shorter. Between blocks the sender
waits only after a whole block (`BlockSpent`), and then the answer is on its way
(`Asked`); flow control on its way finds N_Cr full. A message reported complete is
therefore read once the link is quiet. For the converse, that a request which was read
made `send` succeed, `VerdictInv` says that a call that gave up left no whole message.

### Exchange

`ClientProofs` proves, for any services, polls, retries and capacity,
`BufferLeftAlone` (`ResponseIntact`) and `NewestIsKept` (`NewestKept`).
`IInv == TypeOK /\ Intact(node) /\ QueueBounded`: each part of `ServiceIsotp` maps
an intact node to intact ones, and only the reader fills the queue, so the place
it made by dropping the oldest message is still free when it puts the newest.

It also proves `AnswersInSync` (`InSync`). While a client waits, `OneExchange` says
that everything on the link belongs to its request, and in which order: the request
is somewhere alone, or the node works on it, with nothing but NRC 78 ahead of the
final response, whole or broken off; and a final response on its way, or what is
left of one, means that the node is `Silent`. Otherwise the link is empty. The first
`send` or `receive` that raises, for whichever reason, ends this: the late answer is
still to come, or frames are left.

### Scheduler

`ClientProofs` also proves `Exclusion` (`SessionsExclusive`) for any number of
nodes, sessions, jobs and retries.
`SchedulerInv == SchedulerTypeOK /\ WaitersNeedSession /\ SessionsExclusive`: a worker
in `acquire` or `wait` has a job of an exclusive session, so the check for a conflict
and the entry of the session, made under one lock, exclude every other node.

### Only model-checked

Every invariant a run checks is stated by a theorem. Of these, `WholeUnlessAborted`
without the premise `FastLinks` is only model-checked: with slow loops, the runs check
it (`IsotpSlow`).

Liveness (`PathDrains`, `NobodyStuck`, `FinalResponse`,
`RecoversWhenHealed`, `EndpointFreed`, `ExchangeAnswered`, `EveryJobResolved`) is out
of the prover's reach. No module uses recursive operators.

## 6. What is not modelled

* Start-up of the boards, the cyclic test frame, and what build options add to
  the main loops; peer tester and bench firmware. They are sequential scripts
  polled by the loop. The traffic they cause is part of the environment of
  `Isotp` and `CanDriverRx`.
* The send functions of the CAN driver appear as the mailboxes of `Isotp`.
* Adding and removing endpoints of the shared bus; `udsoncan_link.py`, an adapter.
  A job that the scheduler is given while another thread closes it: the callers in the repository use one thread.
* A caller of the scheduler that cancels a future, and jobs that raise something that
  is no `Exception` (`scheduler.py:264,274`).
* `DualNodeScheduler`, which runs one request per node concurrently and keeps no
  state but a session per node, and the counters of `stats()`.
* The independent watchdog beyond its reset, which is `PowerLoss` of `ParamLog`.
* Malformed ISO-TP frames and invalid arguments, which change no state; the
  formatting of responses; the arithmetic of seeds and keys; the CRC.
* The virtual ECU, the command-line tools, the DBC generator and the generated
  code: sequential code without state between calls, or a copy for tests.
* Vendor code. CMSIS headers and HAL drivers are nearly all of the repository's
  lines; almost none of them are logic of this system, so a share of all lines
  says little about how much of the program is modelled.

## 7. Plan

Done: receive queue, receive path, parameter log, UDS server, CAN health,
watchdog, exchange, scheduler and the ISO-TP links, each with proofs.

Left, in this order:

1. Endpoints of `SharedCanBus` that come and go while the reader routes messages,
   and the send functions of `can_driver.c` against its recovery.
2. The peer tester, as a client of `EcuNode`.
