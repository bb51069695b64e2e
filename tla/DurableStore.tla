----------------------------- MODULE DurableStore -----------------------------
(***************************************************************************)
(* What parameter storage promises the UDS server: a write it confirms     *)
(* survives power loss, a write it refuses has no effect, and a write that *)
(* power loss interrupts takes effect entirely or not at all.  The promise *)
(* does not cover the compaction some boots perform: what is stored may be *)
(* lost, or replaced by an older image, when that is interrupted or fails. *)
(***************************************************************************)
CONSTANTS
  Images,    \* possible contents of the parameter store
  Empty,     \* the image in which every parameter has its default
  Nothing    \* no request is in progress

VARIABLES
  durable,   \* what a boot would find
  mode,      \* off, compacting, open, or closed: refusing every request
  request,   \* the image being written, or Nothing
  applied,   \* whether that image has become durable
  reply      \* how the last request ended

vars == <<durable, mode, request, applied, reply>>

Init ==
  /\ durable = Empty
  /\ mode = "off"
  /\ request = Nothing
  /\ applied = FALSE
  /\ reply = "none"

Boot ==
  /\ mode = "off"
  /\ mode' \in {"open", "compacting"}
  /\ UNCHANGED <<durable, request, applied, reply>>

Compacted ==
  /\ mode = "compacting"
  /\ mode' = "open"
  /\ UNCHANGED <<durable, request, applied, reply>>

CompactionFails ==
  /\ mode = "compacting"
  /\ mode' \in {"off", "closed"}
  /\ durable' \in Images
  /\ UNCHANGED <<request, applied, reply>>

Request(image) ==
  /\ mode = "open"
  /\ request = Nothing
  /\ request' = image
  /\ reply' = "none"
  /\ UNCHANGED <<durable, mode, applied>>

Reject ==
  /\ mode \in {"open", "closed"}
  /\ request = Nothing
  /\ reply' = "failed"
  /\ UNCHANGED <<durable, mode, request, applied>>

Apply ==
  /\ request # Nothing
  /\ ~applied
  /\ durable' = request
  /\ applied' = TRUE
  /\ UNCHANGED <<mode, request, reply>>

Confirm ==
  /\ applied
  /\ request' = Nothing
  /\ applied' = FALSE
  /\ reply' = "ok"
  /\ UNCHANGED <<durable, mode>>

Refuse ==
  /\ request # Nothing
  /\ ~applied
  /\ request' = Nothing
  /\ reply' = "failed"
  /\ UNCHANGED <<durable, mode, applied>>

PowerLoss ==
  /\ mode # "off"
  /\ mode' = "off"
  /\ request' = Nothing
  /\ applied' = FALSE
  /\ reply' = "none"
  /\ UNCHANGED durable

Next ==
  \/ Boot \/ Compacted \/ CompactionFails
  \/ \E image \in Images : Request(image)
  \/ Reject \/ Apply \/ Confirm \/ Refuse \/ PowerLoss

Spec == Init /\ [][Next]_vars
===============================================================================
