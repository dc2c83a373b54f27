---------------------------- MODULE EventDelivery ----------------------------
(***************************************************************************)
(* What the RAG worker promises its callers, seen from outside: an event   *)
(* accepted on the bus is completed by a handler or parked on the          *)
(* dead-letter stream, stays so, and is lost only once it is at risk.      *)
(* Workers, batches, pending lists and idempotency keys do not appear      *)
(* here; RagWorker implements this.                                        *)
(***************************************************************************)

CONSTANT Events   \* event ids (Envelope.event_id)

VARIABLES
  status,
  atRisk   \* events that may also vanish

busState == <<status, atRisk>>

Statuses == {"unsent", "open", "done", "parked", "lost"}

TypeOK ==
  /\ status \in [Events -> Statuses]
  /\ atRisk \subseteq Events

Init ==
  /\ status = [ev \in Events |-> "unsent"]
  /\ atRisk = {}

Move(ev, from, to) ==
  /\ status[ev] \in from
  /\ status' = [status EXCEPT ![ev] = to]

(* Publishing an id whose earlier copies are all gone opens it again. *)
Accept(ev) == Move(ev, {"unsent", "lost"}, "open")

(* A second copy of a parked event may still be completed by a handler. *)
Complete(ev) == Move(ev, {"open", "parked"}, "done")

Park(ev) == Move(ev, {"open"}, "parked")

(* A process that dies may take several events with it. *)
Lose(evs) ==
  /\ evs # {} /\ evs \subseteq atRisk'
  /\ \A ev \in evs : status[ev] = "open"
  /\ status' = [ev \in Events |-> IF ev \in evs THEN "lost" ELSE status[ev]]

Settle(ev) == Complete(ev) \/ Park(ev) \/ \E evs \in SUBSET Events : ev \in evs /\ Lose(evs)

(* What has been put at risk remains so. *)
Next ==
  /\ atRisk \subseteq atRisk' /\ atRisk' \subseteq Events
  /\ UNCHANGED status \/ \E ev \in Events : Accept(ev) \/ Settle(ev)

(* The moves alone, with no promise that any is made. *)
Moves == Init /\ [][Next]_busState

(* Whatever is open is worked on until it is settled. *)
Spec ==
  /\ Moves
  /\ \A ev \in Events : WF_busState(status[ev] = "open" /\ Settle(ev) /\ UNCHANGED atRisk)

=============================================================================
