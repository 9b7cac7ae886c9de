--------------------------- MODULE StreamContract ---------------------------
(***************************************************************************)
(* What a streaming-decode context promises its caller (include/cudec.h),  *)
(* without staging, waves or a device: a decode is one request and one     *)
(* answer, a context that answered a device fault is dead until it is      *)
(* destroyed, and a successful answer stands for delivered output.         *)
(***************************************************************************)
EXTENDS Naturals

CONSTANT Chunks         \* every chunk index a request may name

VARIABLES
  life,                 \* "none", "live", "dead"
  phase,                \* "idle", "busy", "closing" (a one-shot call's end)
  outcome,              \* of the last request: "none" while there is none
  asked,                \* the chunks of the request
  delivered             \* those whose bytes are in their destination

vars == <<life, phase, outcome, asked, delivered>>

Failures == {"cuda", "unsupported"}

Init ==
  /\ life = "none" /\ phase = "idle"
  /\ outcome = "none" /\ asked = {} /\ delivered = {}

Open ==
  /\ phase = "idle" /\ life = "none"
  /\ life' = "live"
  /\ outcome' = "none" /\ asked' = {} /\ delivered' = {}
  /\ UNCHANGED phase

(* A refusal that touches no context: bad arguments, a failed create. *)
Refuse ==
  /\ phase = "idle"
  /\ \/ outcome' = "none" /\ asked' = {}
     \/ outcome' = "cuda" /\ asked' \in SUBSET Chunks /\ life # "live"
  /\ delivered' = {}
  /\ UNCHANGED <<life, phase>>

(* A request on a live context, or on one made for it. *)
Request ==
  /\ phase = "idle" /\ life \in {"live", "none"}
  /\ life' = "live" /\ phase' = "busy"
  /\ outcome' = "none" /\ asked' = {} /\ delivered' = {}

(* The answer.  Only a failure may kill the context; a verdict about the    *)
(* input never does.                                                        *)
Answer ==
  /\ phase = "busy"
  /\ phase' \in {"idle", "closing"}
  /\ asked' \in SUBSET Chunks
  /\ delivered' \in SUBSET asked'
  /\ \/ outcome' = "ok" /\ delivered' = asked' /\ life' = life
     \/ outcome' = "corrupt" /\ delivered' # asked' /\ life' = life
     \/ outcome' \in Failures /\ life' \in {"live", "dead"}

Close ==
  /\ phase \in {"idle", "closing"} /\ life # "none"
  /\ life' = "none" /\ phase' = "idle"
  /\ UNCHANGED <<outcome, asked, delivered>>

Next == Open \/ Refuse \/ Request \/ Answer \/ Close

(* Every request is answered and a one-shot context is destroyed. *)
Spec ==
  Init /\ [][Next]_vars /\ WF_vars(Answer) /\ WF_vars(phase = "closing" /\ Close)
=============================================================================
