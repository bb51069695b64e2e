----------------------------- MODULE CanDriverRx -----------------------------
(***************************************************************************)
(* The receive path of a node: the two hardware FIFOs of the CAN           *)
(* controller, the interrupt handler that empties them into two software   *)
(* queues, the main loop's CanDriver_ProcessRx and CanDriver_Recover       *)
(* (firmware/common/can_driver.c).  The two software queues are bounded    *)
(* FIFOs, which module CanRxQueue is shown to implement.                   *)
(***************************************************************************)
EXTENDS Naturals, Sequences, FiniteSets

CONSTANTS
  Depth,       \* CAN_RX_QUEUE_DEPTH
  HwDepth,     \* frames a hardware FIFO holds
  MaxArrivals, \* bound on the frames of each class a behaviour sees
  DroppedMod,  \* width of the dropped counters
  Malformed, Nothing

ASSUME DriverAssumption ==
  /\ Depth \in Nat \ {0} /\ HwDepth \in Nat \ {0}
  /\ MaxArrivals \in Nat /\ DroppedMod \in Nat /\ DroppedMod > MaxArrivals

\* The acceptance filters route the load-generator and frame-loss identifiers
\* to FIFO1 and every other standard frame to FIFO0.
Control == "control"
Background == "background"
Classes == {Control, Background}

\* Frames of a class are told apart by the order they arrive in.
Frames == [class : Classes, number : 1..MaxArrivals]

VARIABLES
  fifo,                                       \* hardware FIFO of each class
  arrived, overrun, discarded,                \* history: per class counts
  ctlQ, ctlDropped, ctlOffered, ctlOut,       \* priority_rx_queue
  bgQ, bgDropped, bgOffered, bgOut,           \* rx_queue
  isr,                                        \* where the interrupt handler is
  loop,                                       \* where the main loop is
  delivered                                   \* history: callbacks, per class

ctlVars == <<ctlQ, ctlDropped, ctlOffered, ctlOut>>
bgVars == <<bgQ, bgDropped, bgOffered, bgOut>>
history == <<arrived, overrun, discarded>>
vars == <<fifo, history, ctlVars, bgVars, isr, loop, delivered>>

CtlQueue == INSTANCE BoundedFifo
  WITH q <- ctlQ, lost <- ctlDropped, offered <- ctlOffered, out <- ctlOut,
       Capacity <- Depth, CounterMod <- DroppedMod

BgQueue == INSTANCE BoundedFifo
  WITH q <- bgQ, lost <- bgDropped, offered <- bgOffered, out <- bgOut,
       Capacity <- Depth, CounterMod <- DroppedMod

Init ==
  /\ fifo = [c \in Classes |-> <<>>]
  /\ arrived = [c \in Classes |-> 0]
  /\ overrun = [c \in Classes |-> 0]
  /\ discarded = [c \in Classes |-> 0]
  /\ CtlQueue!Init
  /\ BgQueue!Init
  /\ isr = "off"
  /\ loop = "rest"
  /\ delivered = [c \in Classes |-> <<>>]

-------------------------------------------------------------------------------
\* The controller receives a frame.  ReceiveFifoLocked is DISABLE: a full FIFO
\* keeps its oldest frames and overwrites the newest, and nothing counts it.
FifoHasSpace(c) == Len(fifo[c]) < HwDepth

Receive(c) ==
  /\ arrived[c] < MaxArrivals
  /\ LET f == [class |-> c, number |-> arrived[c] + 1] IN
     \/ /\ FifoHasSpace(c)
        /\ fifo' = [fifo EXCEPT ![c] = Append(@, f)]
        /\ UNCHANGED overrun
     \/ /\ ~FifoHasSpace(c)
        /\ fifo' = [fifo EXCEPT ![c][HwDepth] = f]
        /\ overrun' = [overrun EXCEPT ![c] = @ + 1]
  /\ arrived' = [arrived EXCEPT ![c] = @ + 1]
  /\ UNCHANGED <<discarded, ctlVars, bgVars, isr, loop, delivered>>

-------------------------------------------------------------------------------
\* CanDriver_RxIrqHandler.  Either FIFO raises the interrupt; the handler
\* empties FIFO0 and then FIFO1, and the main loop waits meanwhile.

IrqEnter ==
  /\ isr = "off"
  /\ \E c \in Classes : fifo[c] # <<>>
  /\ isr' = "fifo0"
  /\ UNCHANGED <<fifo, history, ctlVars, bgVars, loop, delivered>>

ReadFrame_newest(c) == fifo[c][Len(fifo[c])]
ReadFrame(c) == Head(fifo[c])

IrqReadFifo0_uncounted ==
  /\ isr = "fifo0"
  /\ fifo[Control] # <<>>
  /\ \/ CtlQueue!Accept(ReadFrame(Control))
     \/ Len(ctlQ) = Depth /\ UNCHANGED ctlVars
  /\ fifo' = [fifo EXCEPT ![Control] = Tail(@)]
  /\ UNCHANGED <<history, bgVars, isr, loop, delivered>>

IrqReadFifo0 ==
  /\ isr = "fifo0"
  /\ fifo[Control] # <<>>
  /\ LET f == ReadFrame(Control) IN CtlQueue!Accept(f) \/ CtlQueue!Refuse(f)
  /\ fifo' = [fifo EXCEPT ![Control] = Tail(@)]
  /\ UNCHANGED <<history, bgVars, isr, loop, delivered>>

IrqFifo0Empty_returns ==
  /\ isr = "fifo0"
  /\ fifo[Control] = <<>>
  /\ isr' = "off"
  /\ UNCHANGED <<fifo, history, ctlVars, bgVars, loop, delivered>>

IrqFifo0Empty ==
  /\ isr = "fifo0"
  /\ fifo[Control] = <<>>
  /\ isr' = "fifo1"
  /\ UNCHANGED <<fifo, history, ctlVars, bgVars, loop, delivered>>

IrqReadFifo1 ==
  /\ isr = "fifo1"
  /\ fifo[Background] # <<>>
  /\ LET f == ReadFrame(Background) IN BgQueue!Accept(f) \/ BgQueue!Refuse(f)
  /\ fifo' = [fifo EXCEPT ![Background] = Tail(@)]
  /\ UNCHANGED <<history, ctlVars, isr, loop, delivered>>

IrqExit ==
  /\ isr = "fifo1"
  /\ fifo[Background] = <<>>
  /\ isr' = "off"
  /\ UNCHANGED <<fifo, history, ctlVars, bgVars, loop, delivered>>

RxIrqHandler ==
  IrqEnter \/ IrqReadFifo0 \/ IrqFifo0Empty \/ IrqReadFifo1 \/ IrqExit

-------------------------------------------------------------------------------
\* CanDriver_ProcessRx: the main loop empties the control queue, then the
\* background queue, handing every frame to the callback.

MainRuns == isr = "off"

StartProcessRx ==
  /\ MainRuns
  /\ loop = "rest"
  /\ loop' = "control"
  /\ UNCHANGED <<fifo, history, ctlVars, bgVars, isr, delivered>>

DeliverControl ==
  /\ MainRuns
  /\ loop = "control"
  /\ CtlQueue!Take
  /\ delivered' = [delivered EXCEPT ![Control] = Append(@, ctlOut')]
  /\ UNCHANGED <<fifo, history, bgVars, isr, loop>>

ControlQueueEmpty ==
  /\ MainRuns
  /\ loop = "control"
  /\ ctlQ = <<>>
  /\ loop' = "background"
  /\ UNCHANGED <<fifo, history, ctlVars, bgVars, isr, delivered>>

DeliverBackground ==
  /\ MainRuns
  /\ loop = "background"
  /\ BgQueue!Take
  /\ delivered' = [delivered EXCEPT ![Background] = Append(@, bgOut')]
  /\ UNCHANGED <<fifo, history, ctlVars, isr, loop>>

BackgroundQueueEmpty ==
  /\ MainRuns
  /\ loop = "background"
  /\ bgQ = <<>>
  /\ loop' = "rest"
  /\ UNCHANGED <<fifo, history, ctlVars, bgVars, isr, delivered>>

ProcessRx ==
  \/ StartProcessRx
  \/ DeliverControl \/ ControlQueueEmpty
  \/ DeliverBackground \/ BackgroundQueueEmpty

\* CanDriver_Recover resets the controller, which empties its FIFOs, and
\* re-initialises both queues: frames and dropped counts are gone.
Recover ==
  /\ MainRuns
  /\ loop = "rest"
  /\ CtlQueue!Clear
  /\ BgQueue!Clear
  /\ fifo' = [c \in Classes |-> <<>>]
  /\ discarded' = [discarded EXCEPT
       ![Control] = @ + Len(fifo[Control]) + Len(ctlQ) + ctlDropped,
       ![Background] = @ + Len(fifo[Background]) + Len(bgQ) + bgDropped]
  /\ UNCHANGED <<arrived, overrun, isr, loop, delivered>>

Next ==
  \/ \E c \in Classes : Receive(c)
  \/ RxIrqHandler
  \/ ProcessRx
  \/ Recover

\* The interrupt is served and the main loop keeps running.
Fairness == WF_vars(RxIrqHandler) /\ WF_vars(ProcessRx)

Spec == Init /\ [][Next]_vars /\ Fairness

-------------------------------------------------------------------------------
\* Type invariant.
TypeOK ==
  /\ fifo \in [Classes -> Seq(Frames)]
  /\ \A c \in Classes : Len(fifo[c]) <= HwDepth
  /\ ctlQ \in Seq(Frames) /\ Len(ctlQ) <= Depth
  /\ bgQ \in Seq(Frames) /\ Len(bgQ) <= Depth
  /\ ctlDropped \in 0..MaxArrivals /\ bgDropped \in 0..MaxArrivals
  /\ isr \in {"off", "fifo0", "fifo1"}
  /\ loop \in {"rest", "control", "background"}
  /\ delivered \in [Classes -> Seq(Frames)]

Queued(c) == IF c = Control THEN ctlQ ELSE bgQ
DroppedCount(c) == IF c = Control THEN ctlDropped ELSE bgDropped

\* Every frame the controller received was delivered, still waits, is counted
\* in `dropped`, was overwritten in a hardware FIFO or was discarded by a
\* recovery: the software path loses none on its own.
EveryFrameAccounted ==
  \A c \in Classes :
    arrived[c] = Len(delivered[c]) + Len(fifo[c]) + Len(Queued(c))
                 + DroppedCount(c) + overrun[c] + discarded[c]

\* Frames of one class that are delivered or waiting are in arrival order, end
\* to end: what the ISO-TP sequence numbers of module Isotp rely on.
ClassOrderKept ==
  \A c \in Classes :
    LET path == delivered[c] \o Queued(c) \o fifo[c] IN
    \A i, j \in 1..Len(path) : i < j => path[i].number < path[j].number

\* A frame that reached a hardware FIFO or a queue does not stay there: the
\* interrupt and the main loop empty the whole path.
PathDrains ==
  \A c \in Classes :
    (Len(fifo[c]) + Len(Queued(c)) > 0) ~> (Len(fifo[c]) + Len(Queued(c)) = 0)
==============================================================================
