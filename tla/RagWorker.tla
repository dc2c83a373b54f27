------------------------------ MODULE RagWorker ------------------------------
(***************************************************************************)
(* The worker fleet: RagService.handle over RedisStreamsConsumer and        *)
(* IdempotencyGuard.                                                       *)
(*                                                                         *)
(* Every worker is one process that runs RedisStreamsConsumer.consume: it   *)
(* reclaims idle entries (XAUTOCLAIM, then XPENDING for their delivery     *)
(* counts), handles them, reads new entries (XREADGROUP ">"), handles      *)
(* those, and starts over.  Handling one entry is parse, delivery ceiling, *)
(* claim of the idempotency key, dispatch, and then ack, nack or           *)
(* dead_letter.  Each call to Redis is one step; everything between two    *)
(* calls is local to the worker and belongs to the step before it.         *)
(*                                                                         *)
(* The pending list is shared by the consumer group: XACK and XAUTOCLAIM   *)
(* do not look at which consumer holds an entry, so no owner is kept.      *)
(***************************************************************************)
EXTENDS Integers, FiniteSets

CONSTANTS
  Workers,        \* worker processes (replicas)
  NumEntries,     \* stream entries are 1..NumEntries, in stream-id order
  Events,         \* event ids
  Garbled,        \* the body of an entry _decode_body rejects
  Invalid,        \* the body of an entry parse_event rejects
  Body,           \* what each entry carries: an event id, Garbled or Invalid
  Unkeyed,        \* events published without an event_id of their own
  Rank,           \* how entry ids compare as strings
  BatchSize,      \* settings.messaging.batch_size
  MaxDeliveries,  \* settings.messaging.max_deliveries
  FaultKinds,     \* the failures this instance may suffer
  MaxFaults       \* bound: how many of them, in all

Entries == 1..NumEntries

AllFaultKinds ==
  {"crash", "stop", "slow", "guard", "release", "expire", "ack", "dlq", "counts", "read"}

ASSUME BodyAssumption ==
  /\ NumEntries \in Nat
  /\ Garbled \notin Events
  /\ Invalid \notin Events
  /\ Garbled # Invalid
  /\ Body \in [Entries -> Events \cup {Garbled, Invalid}]
  /\ Rank \in [Entries -> Nat]
  /\ Unkeyed \subseteq Events
  /\ \A e, f \in Entries : Body[e] = Body[f] /\ Body[e] \in Unkeyed => e = f

ASSUME BoundAssumption ==
  /\ BatchSize \in Nat \ {0}
  /\ MaxDeliveries \in Nat \ {0}
  /\ FaultKinds \subseteq AllFaultKinds
  /\ MaxFaults \in Nat

VARIABLES
  (* Redis: the stream and the consumer group's pending list. *)
  place,       \* where an entry is: "unsent", "queued", "pending" or "gone"
  delivered,   \* times_delivered of the pending list, up to DeliveryCap
  idle,        \* has been pending for claim_min_idle_ms or longer
  dlq,         \* copies of an entry on the dead-letter stream, up to HistoryCap
  claimed,     \* event ids whose idempotency key exists
  (* Each worker process. *)
  pc,          \* the call to Redis, or the handler, it is at
  batch,       \* delivery_count of each message not yet yielded, 0 if none
  cur,         \* the entry being handled, 0 if none
  after,       \* the call consume makes once the batch is exhausted
  cursor,      \* RedisStreamsConsumer._claim_cursor
  stopping,    \* RagService._stopping
  (* History, and the fault budget. *)
  done,        \* completed dispatches of an entry, up to HistoryCap
  bypassed,    \* events once dispatched without a key, or whose key expired
  endangered,  \* events whose claim was orphaned or whose entry was taken over
  faults       \* faults so far

redisVars  == <<place, delivered, idle, dlq, claimed>>
workerVars == <<pc, batch, cur, after, cursor, stopping>>
ghostVars  == <<done, bypassed, endangered, faults>>
vars == <<redisVars, workerVars, ghostVars>>

(* Counters saturate: only "more than MaxDeliveries" and "more than once"   *)
(* are ever told apart.                                                     *)
DeliveryCap == MaxDeliveries + 1
HistoryCap  == 2

Bump(n, cap) == IF n < cap THEN n + 1 ELSE n

PCs == {"down", "claim", "counts", "read", "handle",
        "dispatch", "release", "reject", "park", "ack"}

(* The worker owns the claim on its current event at these points. *)
Owning == {"dispatch", "release", "reject"}

(* The points at which a worker is in the middle of RagService.handle. *)
Handling == Owning \cup {"park", "ack"}

TypeOK ==
  /\ place \in [Entries -> {"unsent", "queued", "pending", "gone"}]
  /\ delivered \in [Entries -> 0..DeliveryCap]
  /\ idle \in [Entries -> BOOLEAN]
  /\ dlq \in [Entries -> 0..HistoryCap]
  /\ claimed \in SUBSET Events
  /\ pc \in [Workers -> PCs]
  /\ batch \in [Workers -> [Entries -> 0..DeliveryCap]]
  /\ cur \in [Workers -> Entries \cup {0}]
  /\ after \in [Workers -> {"claim", "read"}]
  /\ cursor \in [Workers -> 0..NumEntries]
  /\ stopping \in [Workers -> BOOLEAN]
  /\ done \in [Entries -> 0..HistoryCap]
  /\ bypassed \in SUBSET Events
  /\ endangered \in SUBSET Events
  /\ faults \in 0..MaxFaults

-----------------------------------------------------------------------------
(* Reading the state. *)

Batch(w) == {e \in Entries : batch[w][e] > 0}

Held(w, e) == batch[w][e] > 0 \/ cur[w] = e

Pending == {e \in Entries : place[e] = "pending"}

Live(e) == place[e] \in {"queued", "pending"}

Copies(ev) == {e \in Entries : Body[e] = ev}

Published(ev) == \E e \in Copies(ev) : place[e] # "unsent"

Processed(ev) == \E e \in Copies(ev) : done[e] > 0

Parked(ev) == \E e \in Copies(ev) : dlq[e] > 0

(* Worker w is between claiming ev and giving the claim up or keeping it. *)
Owns(w, ev) == pc[w] \in Owning /\ Body[cur[w]] = ev

(* The events, if any, that entry e carries. *)
EventIn(e) == {Body[e]} \cap Events

FirstK(S, k) == {e \in S : Cardinality({f \in S : f < e}) < k}

(* What a read hands the generator: every entry as if delivered once. *)
Delivery(S) == [e \in Entries |-> IF e \in S THEN 1 ELSE 0]

Fault(kind) ==
  /\ kind \in FaultKinds
  /\ faults < MaxFaults
  /\ faults' = faults + 1

(* The process ends: what it held in memory is gone, Redis is untouched. *)
Terminate(w) ==
  /\ pc' = [pc EXCEPT ![w] = "down"]
  /\ batch' = [batch EXCEPT ![w] = [e \in Entries |-> 0]]
  /\ cur' = [cur EXCEPT ![w] = 0]

(* The message is done with: stop if asked to, else yield the next one of  *)
(* the batch or make the next call to Redis.                               *)
NextMessage(w) ==
  IF stopping[w]
  THEN Terminate(w)
  ELSE /\ pc' = [pc EXCEPT ![w] = IF Batch(w) = {} THEN after[w] ELSE "handle"]
       /\ cur' = [cur EXCEPT ![w] = 0]
       /\ UNCHANGED batch

-----------------------------------------------------------------------------
Init ==
  /\ place = [e \in Entries |-> "unsent"]
  /\ delivered = [e \in Entries |-> 0]
  /\ idle = [e \in Entries |-> FALSE]
  /\ dlq = [e \in Entries |-> 0]
  /\ claimed = {}
  /\ pc = [w \in Workers |-> "claim"]
  /\ batch = [w \in Workers |-> [e \in Entries |-> 0]]
  /\ cur = [w \in Workers |-> 0]
  /\ after = [w \in Workers |-> "claim"]
  /\ cursor = [w \in Workers |-> 0]
  /\ stopping = [w \in Workers |-> FALSE]
  /\ done = [e \in Entries |-> 0]
  /\ bypassed = {}
  /\ endangered = {}
  /\ faults = 0

-----------------------------------------------------------------------------
(* Producers and time. *)

(* RedisStreamPublisher.publish: XADD gives entries ascending ids. *)
Publish(e) ==
  /\ place[e] = "unsent"
  /\ \A f \in Entries : f < e => place[f] # "unsent"
  /\ place' = [place EXCEPT ![e] = "queued"]
  /\ UNCHANGED <<delivered, idle, dlq, claimed, workerVars, ghostVars>>

(* An entry has been pending for claim_min_idle_ms.  While a live worker    *)
(* holds it, that takes a batch slower than the limit: a "slow" fault.      *)
Age(e) ==
  /\ place[e] = "pending"
  /\ ~idle[e]
  /\ IF \E w \in Workers : Held(w, e) THEN Fault("slow") ELSE UNCHANGED faults
  /\ idle' = [idle EXCEPT ![e] = TRUE]
  /\ UNCHANGED <<place, delivered, dlq, claimed, workerVars,
                 done, bypassed, endangered>>

(* The idempotency key outlives its ttl_seconds. *)
Expire(ev) ==
  /\ ev \in claimed
  /\ Fault("expire")
  /\ claimed' = claimed \ {ev}
  /\ bypassed' = bypassed \cup {ev}
  /\ UNCHANGED <<place, delivered, idle, dlq, workerVars, done, endangered>>

-----------------------------------------------------------------------------
(* RedisStreamsConsumer.consume. *)

(* `while self._running` ends the generator between two rounds. *)
Leave(w) ==
  /\ pc[w] = "claim"
  /\ stopping[w]
  /\ Terminate(w)
  /\ UNCHANGED <<redisVars, after, cursor, stopping, ghostVars>>

(* Variant of Resume: always from 0. *)
ResumeFromStart(taken) == {0}

(* The cursor XAUTOCLAIM returns: the entry its scan stopped before, or 0   *)
(* when it came to the end of the pending list.  consume starts again from  *)
(* 0 when nothing was claimed.                                              *)
Resume(taken) ==
  LET rest == {e \in Pending : \A f \in taken : f < e}
  IN  IF Cardinality(taken) < BatchSize \/ rest = {}
      THEN {0}
      ELSE {e \in rest : \A f \in rest : e <= f}

(* XAUTOCLAIM: up to BatchSize idle entries from the cursor on become this  *)
(* worker's, whoever held them, and count as delivered once more.  An entry *)
(* taken from a worker that is still alive endangers its event.  When the   *)
(* reply is lost Redis has done all this and the worker knows nothing.      *)
ClaimStale(w) ==
  LET taken == FirstK({e \in Pending : idle[e] /\ e >= cursor[w]}, BatchSize)
  IN
  /\ pc[w] = "claim"
  /\ ~stopping[w]
  /\ delivered' = [e \in Entries |->
       IF e \in taken THEN Bump(delivered[e], DeliveryCap) ELSE delivered[e]]
  /\ idle' = [e \in Entries |-> idle[e] /\ e \notin taken]
  /\ endangered' = endangered \cup
       UNION {EventIn(e) : e \in {f \in taken : \E v \in Workers : Held(v, f)}}
  /\ \/ /\ \E c \in Resume(taken) : cursor' = [cursor EXCEPT ![w] = c]
        /\ pc' = [pc EXCEPT ![w] = IF taken = {} THEN "read" ELSE "counts"]
        /\ batch' = [batch EXCEPT ![w] = Delivery(taken)]
        /\ UNCHANGED faults
     \/ /\ Fault("read")
        /\ pc' = [pc EXCEPT ![w] = "read"]
        /\ UNCHANGED <<cursor, batch>>
  /\ UNCHANGED <<place, dlq, claimed, cur, after, stopping, done, bypassed>>

(* The entries XPENDING reports for the string range min(ids)..max(ids) and *)
(* count=len(ids): the group's entries in that range, not only these.       *)
Listed(ids) ==
  FirstK({p \in Pending :
            /\ \E lo \in ids : lo <= p /\ \A e \in ids : Rank[lo] <= Rank[e]
            /\ \E hi \in ids : p <= hi /\ \A e \in ids : Rank[e] <= Rank[hi]},
         Cardinality(ids))

(* _delivery_counts, then _build of every reclaimed entry: an id XPENDING   *)
(* did not list counts as delivered once, and so does every id when the     *)
(* call fails; an undecodable entry is dead-lettered, not yielded and not   *)
(* acked.                                                                   *)
DeliveryCounts(w) ==
  LET taken  == Batch(w)
      broken == {e \in taken : Body[e] = Garbled}
  IN
  /\ pc[w] = "counts"
  /\ dlq' = [e \in Entries |->
       IF e \in broken THEN Bump(dlq[e], HistoryCap) ELSE dlq[e]]
  /\ \/ /\ batch' = [batch EXCEPT ![w] = [e \in Entries |->
               IF e \notin taken \ broken THEN 0
               ELSE IF e \in Listed(taken) THEN delivered[e] ELSE 1]]
        /\ UNCHANGED faults
     \/ /\ Fault("counts")
        /\ batch' = [batch EXCEPT ![w] = Delivery(taken \ broken)]
  /\ pc' = [pc EXCEPT ![w] = IF taken = broken THEN "read" ELSE "handle"]
  /\ after' = [after EXCEPT ![w] = "read"]
  /\ UNCHANGED <<place, delivered, idle, claimed, cur, cursor, stopping,
                 done, bypassed, endangered>>

(* XREADGROUP ">": up to BatchSize entries never delivered to the group.    *)
(* When the reply is lost they are pending all the same.                    *)
ReadNew(w) ==
  LET taken == FirstK({e \in Entries : place[e] = "queued"}, BatchSize)
  IN
  /\ pc[w] = "read"
  /\ place' = [e \in Entries |-> IF e \in taken THEN "pending" ELSE place[e]]
  /\ delivered' = [e \in Entries |-> IF e \in taken THEN 1 ELSE delivered[e]]
  /\ \/ /\ pc' = [pc EXCEPT ![w] = IF taken = {} THEN "claim" ELSE "handle"]
        /\ batch' = [batch EXCEPT ![w] = Delivery(taken)]
        /\ UNCHANGED faults
     \/ /\ Fault("read")
        /\ pc' = [pc EXCEPT ![w] = "claim"]
        /\ UNCHANGED batch
  /\ after' = [after EXCEPT ![w] = "claim"]
  /\ UNCHANGED <<idle, dlq, claimed, cur, cursor, stopping,
                 done, bypassed, endangered>>

(* The read did not reach Redis: log the error and go on. *)
Unreachable(w) ==
  /\ pc[w] \in {"claim", "read"}
  /\ Fault("read")
  /\ pc' = [pc EXCEPT ![w] = IF pc[w] = "claim" THEN "read" ELSE "claim"]
  /\ UNCHANGED <<redisVars, batch, cur, after, cursor, stopping,
                 done, bypassed, endangered>>

-----------------------------------------------------------------------------
(* RagService.handle. *)

(* The generator yields the batch in stream order. *)
IsNext(w, e) == e \in Batch(w) /\ \A f \in Batch(w) : e <= f

(* Worker w takes e off its batch and goes on at `to`. *)
Begin(w, e, to) ==
  /\ pc[w] = "handle"
  /\ IsNext(w, e)
  /\ pc' = [pc EXCEPT ![w] = to]
  /\ batch' = [batch EXCEPT ![w][e] = 0]
  /\ cur' = [cur EXCEPT ![w] = e]

(* _build of an entry just read: undecodable, so dead-lettered and skipped. *)
SkipGarbled(w, e) ==
  /\ pc[w] = "handle"
  /\ IsNext(w, e)
  /\ Body[e] = Garbled
  /\ dlq' = [dlq EXCEPT ![e] = Bump(@, HistoryCap)]
  /\ IF stopping[w]
     THEN Terminate(w)
     ELSE /\ batch' = [batch EXCEPT ![w][e] = 0]
          /\ pc' = [pc EXCEPT ![w] = IF Batch(w) = {e} THEN after[w] ELSE "handle"]
          /\ UNCHANGED cur
  /\ UNCHANGED <<place, delivered, idle, claimed, after, cursor, stopping, ghostVars>>

(* Variant of Admitted: one delivery too many. *)
AdmittedOnceMore(w, e) == batch[w][e] <= MaxDeliveries + 1

(* Variant of Admitted: the last delivery allowed is taken for one too many. *)
AdmittedOnceLess(w, e) == batch[w][e] < MaxDeliveries

(* Below the poison cutoff. *)
Admitted(w, e) == batch[w][e] <= MaxDeliveries

(* parse_event raises InvalidEvent: dead_letter. *)
ParkInvalid(w, e) ==
  /\ Body[e] = Invalid
  /\ Begin(w, e, "park")
  /\ UNCHANGED <<redisVars, after, cursor, stopping, ghostVars>>

(* Variant of ParkPoison: drops the entry without a dead letter. *)
DropPoison(w, e) ==
  /\ Body[e] \in Events
  /\ ~Admitted(w, e)
  /\ Begin(w, e, "ack")
  /\ UNCHANGED <<redisVars, after, cursor, stopping, ghostVars>>

(* delivery_count > max_deliveries: dead_letter, before the claim. *)
ParkPoison(w, e) ==
  /\ Body[e] \in Events
  /\ ~Admitted(w, e)
  /\ Begin(w, e, "park")
  /\ UNCHANGED <<redisVars, after, cursor, stopping, ghostVars>>

(* Variant of Claim: SET without NX. *)
ClaimAlways(w, e) ==
  /\ Body[e] \in Events
  /\ Admitted(w, e)
  /\ Begin(w, e, "dispatch")
  /\ claimed' = claimed \cup {Body[e]}
  /\ UNCHANGED <<place, delivered, idle, dlq, after, cursor, stopping,
                 done, bypassed, endangered, faults>>

(* guard.claim: SET NX EX found no key and set it.  An event without an id  *)
(* of its own has no key to find.                                           *)
Claim(w, e) ==
  /\ Body[e] \in Events
  /\ Admitted(w, e)
  /\ Body[e] \notin claimed
  /\ Begin(w, e, "dispatch")
  /\ IF Body[e] \in Unkeyed
     THEN bypassed' = bypassed \cup {Body[e]} /\ UNCHANGED claimed
     ELSE claimed' = claimed \cup {Body[e]} /\ UNCHANGED bypassed
  /\ UNCHANGED <<place, delivered, idle, dlq, after, cursor, stopping,
                 done, endangered, faults>>

(* guard.claim raised inside: the event is processed without a key. *)
ClaimUnguarded(w, e) ==
  /\ Body[e] \in Events
  /\ Admitted(w, e)
  /\ Fault("guard")
  /\ Begin(w, e, "dispatch")
  /\ bypassed' = bypassed \cup {Body[e]}
  /\ UNCHANGED <<redisVars, after, cursor, stopping, done, endangered>>

(* guard.claim found the key: a duplicate, acked without being handled. *)
SkipDuplicate(w, e) ==
  /\ Body[e] \in Events
  /\ Admitted(w, e)
  /\ Body[e] \in claimed
  /\ Begin(w, e, "ack")
  /\ UNCHANGED <<redisVars, after, cursor, stopping, ghostVars>>

(* Variant of Complete: the claim is released in a `finally`. *)
CompleteAndRelease(w) ==
  /\ pc[w] = "dispatch"
  /\ pc' = [pc EXCEPT ![w] = "ack"]
  /\ done' = [done EXCEPT ![cur[w]] = Bump(@, HistoryCap)]
  /\ claimed' = claimed \ {Body[cur[w]]}
  /\ UNCHANGED <<place, delivered, idle, dlq, batch, cur, after, cursor, stopping,
                 bypassed, endangered, faults>>

(* EventHandlers.dispatch returns; its effects are in the index, or its     *)
(* reply is published.                                                      *)
Complete(w) ==
  /\ pc[w] = "dispatch"
  /\ pc' = [pc EXCEPT ![w] = "ack"]
  /\ done' = [done EXCEPT ![cur[w]] = Bump(@, HistoryCap)]
  /\ UNCHANGED <<redisVars, batch, cur, after, cursor, stopping,
                 bypassed, endangered, faults>>

(* Variant of Fail: the failed message is acked. *)
FailAndAck(w) ==
  /\ pc[w] = "dispatch"
  /\ \E to \in {"reject", "ack"} : pc' = [pc EXCEPT ![w] = to]
  /\ UNCHANGED <<redisVars, batch, cur, after, cursor, stopping, ghostVars>>

(* dispatch raises: PermanentError is dead-lettered with the claim kept,    *)
(* anything else releases the claim.                                        *)
Fail(w) ==
  /\ pc[w] = "dispatch"
  /\ \E to \in {"reject", "release"} : pc' = [pc EXCEPT ![w] = to]
  /\ UNCHANGED <<redisVars, batch, cur, after, cursor, stopping, ghostVars>>

(* Variant of Release: nack without releasing the claim. *)
NackOnly(w) ==
  /\ pc[w] = "release"
  /\ NextMessage(w)
  /\ UNCHANGED <<redisVars, after, cursor, stopping, ghostVars>>

(* guard.release deletes the key, whoever set it, and nack leaves the entry *)
(* pending.  When the delete fails the key stays and nobody works on it.    *)
Release(w) ==
  /\ pc[w] = "release"
  /\ \/ /\ claimed' = claimed \ {Body[cur[w]]}
        /\ UNCHANGED <<endangered, faults>>
     \/ /\ Fault("release")
        /\ endangered' = endangered \cup {Body[cur[w]]}
        /\ UNCHANGED claimed
  /\ NextMessage(w)
  /\ UNCHANGED <<place, delivered, idle, dlq, after, cursor, stopping, done, bypassed>>

(* _raw_dead_letter; a failed write is logged and the message acked anyway. *)
WriteDeadLetter(w) ==
  /\ pc[w] \in {"park", "reject"}
  /\ \/ /\ dlq' = [dlq EXCEPT ![cur[w]] = Bump(@, HistoryCap)]
        /\ UNCHANGED <<endangered, faults>>
     \/ /\ Fault("dlq")
        /\ endangered' = endangered \cup EventIn(cur[w])
        /\ UNCHANGED dlq
  /\ pc' = [pc EXCEPT ![w] = "ack"]
  /\ UNCHANGED <<place, delivered, idle, claimed, batch, cur, after, cursor,
                 stopping, done, bypassed>>

(* XACK and XDEL, or neither when Redis fails: the entry stays pending. *)
Ack(w) ==
  /\ pc[w] = "ack"
  /\ \/ /\ place' = [place EXCEPT ![cur[w]] = "gone"]
        /\ UNCHANGED faults
     \/ /\ Fault("ack")
        /\ UNCHANGED place
  /\ NextMessage(w)
  /\ UNCHANGED <<delivered, idle, dlq, claimed, after, cursor, stopping,
                 done, bypassed, endangered>>

-----------------------------------------------------------------------------
(* The process. *)

(* SIGTERM or SIGINT: finish the message at hand, then leave. *)
Stop(w) ==
  /\ pc[w] # "down"
  /\ ~stopping[w]
  /\ Fault("stop")
  /\ stopping' = [stopping EXCEPT ![w] = TRUE]
  /\ UNCHANGED <<redisVars, pc, batch, cur, after, cursor, done, bypassed, endangered>>

(* The process dies.  A claim it owned stays in Redis, with no owner. *)
Crash(w) ==
  /\ pc[w] # "down"
  /\ Fault("crash")
  /\ Terminate(w)
  /\ endangered' = endangered \cup
       (IF pc[w] \in Owning THEN {Body[cur[w]]} ELSE {})
  /\ UNCHANGED <<redisVars, after, cursor, stopping, done, bypassed>>

(* The orchestrator starts it again with a new consumer object. *)
Restart(w) ==
  /\ pc[w] = "down"
  /\ pc' = [pc EXCEPT ![w] = "claim"]
  /\ after' = [after EXCEPT ![w] = "claim"]
  /\ cursor' = [cursor EXCEPT ![w] = 0]
  /\ stopping' = [stopping EXCEPT ![w] = FALSE]
  /\ UNCHANGED <<redisVars, batch, cur, ghostVars>>

-----------------------------------------------------------------------------
Handle(w) ==
  \E e \in Entries :
    \/ SkipGarbled(w, e)
    \/ ParkInvalid(w, e)
    \/ ParkPoison(w, e)
    \/ Claim(w, e)
    \/ ClaimUnguarded(w, e)
    \/ SkipDuplicate(w, e)

(* What the process does of itself, as long as it is scheduled. *)
Step(w) ==
  \/ Leave(w)
  \/ ClaimStale(w)
  \/ DeliveryCounts(w)
  \/ ReadNew(w)
  \/ Handle(w)
  \/ Complete(w)
  \/ Fail(w)
  \/ Release(w)
  \/ WriteDeadLetter(w)
  \/ Ack(w)
  \/ Restart(w)

Next ==
  \/ \E e \in Entries : Publish(e) \/ Age(e)
  \/ \E ev \in Events : Expire(ev)
  \/ \E w \in Workers : Step(w) \/ Unreachable(w) \/ Stop(w) \/ Crash(w)

Spec == Init /\ [][Next]_vars

(* Processes are scheduled and restarted, and time passes for an entry      *)
(* nobody is holding.  Producers owe nothing and failures are never fair.   *)
Fairness ==
  /\ \A w \in Workers : WF_vars(Step(w))
  /\ \A e \in Entries :
       WF_vars(Age(e) /\ \A w \in Workers : ~Held(w, e))

FairSpec == Spec /\ Fairness

-----------------------------------------------------------------------------
(* Properties. *)

(* An idempotency key is never left behind by nobody: its event is being    *)
(* dispatched, has been completed, is on the dead-letter stream, or lost    *)
(* its owner in one of the ways `endangered` records.  A key that stands    *)
(* for no work turns every redelivery into a duplicate (service.handle 145).*)
ClaimAccounted ==
  \A ev \in claimed :
    \/ \E w \in Workers : Owns(w, ev)
    \/ Processed(ev)
    \/ Parked(ev)
    \/ ev \in endangered

(* The guard does its job: unless it was out of order or its key expired,   *)
(* one worker at a time dispatches an event, and none once it is completed, *)
(* however its entries are duplicated, reclaimed and redelivered.           *)
OneOwner ==
  \A ev \in Events \ bypassed : \A w \in Workers :
    Owns(w, ev) =>
      /\ ev \in claimed
      /\ ~Processed(ev)
      /\ \A v \in Workers : Owns(v, ev) => v = w

(* So no event takes effect twice. *)
AtMostOnce ==
  \A ev \in Events \ bypassed : \A e, f \in Copies(ev) :
    done[e] > 0 /\ done[f] > 0 => e = f /\ done[e] = 1

(* Somebody still has the event to do. *)
Open(ev) == \E e \in Copies(ev) : Live(e) \/ \E w \in Workers : Held(w, e)

(* The whole list of ways to lose an event: acked entries, duplicates,      *)
(* retries, stops and redeliveries never lose one; only a claim left behind *)
(* by a crash or a failed release, an entry reclaimed from a worker that is *)
(* still alive, and a failed dead-letter write do.                          *)
LossExplained ==
  \A ev \in Events :
    Published(ev) => Open(ev) \/ Processed(ev) \/ Parked(ev) \/ ev \in endangered

(* The README's delivery semantics: no published event disappears. *)
NoEventLost ==
  \A ev \in Events : Published(ev) => Open(ev) \/ Processed(ev) \/ Parked(ev)

(* The poison cutoff: an entry delivered more than max_deliveries times is  *)
(* not handed to a handler again.                                           *)
CeilingRespected ==
  \A w \in Workers : pc[w] = "dispatch" => delivered[cur[w]] <= MaxDeliveries

(* Nor is the cutoff early: whatever counts a batch carries, an event that   *)
(* parses is parked as poison only once it was delivered more than          *)
(* max_deliveries times (service.handle 137).                               *)
CutoffNotEarly ==
  \A w \in Workers :
    pc[w] = "park" /\ Body[cur[w]] \in Events => delivered[cur[w]] > MaxDeliveries

(* Every entry that can be decoded in the end leaves the pending list: no   *)
(* retry, failed ack or restart keeps it there for ever.                    *)
EntrySettled ==
  \A e \in Entries : Body[e] # Garbled => (place[e] = "queued" ~> place[e] = "gone")

(* What makes the invariants above inductive. *)

(* A worker has a current entry exactly while it is handling one; what it   *)
(* owns is an event; and its current entry is off its batch.                *)
HandlingOK ==
  \A w \in Workers :
    /\ pc[w] \in Handling => cur[w] \in Entries
    /\ pc[w] \notin Handling => cur[w] = 0
    /\ pc[w] \in Owning => Body[cur[w]] \in Events
    /\ cur[w] \in Entries => batch[w][cur[w]] = 0

(* Unless its event is endangered, an entry is held by one worker at most,  *)
(* and is pending while it is.                                              *)
HeldOnce ==
  \A ev \in Events \ endangered : \A e \in Copies(ev), w \in Workers :
    Held(w, e) =>
      /\ place[e] = "pending"
      /\ \A v \in Workers : Held(v, e) => v = w

(* The key of a completed event stays. *)
KeyKept ==
  \A ev \in Events \ bypassed : Processed(ev) => ev \in claimed

(* An event that is neither settled nor endangered has a copy in the stream *)
(* that no worker is about to ack: two duplicates never ack each other away.*)
CopyRemains ==
  \A ev \in Events \ endangered :
    \/ ~Published(ev) \/ Processed(ev) \/ Parked(ev)
    \/ \E e \in Copies(ev) :
         Live(e) /\ \A w \in Workers : ~(pc[w] = "ack" /\ cur[w] = e)

(* What a worker holds was published and has been read. *)
HeldRead == \A w \in Workers, e \in Entries : Held(w, e) => place[e] \in {"pending", "gone"}

(* No batch counts more deliveries of an entry than there were: a count may *)
(* be out of date or a guess, never too high.                               *)
CountsBacked == \A w \in Workers, e \in Entries : batch[w][e] <= delivered[e]

SafetyInv ==
  /\ TypeOK /\ HandlingOK
  /\ OneOwner /\ KeyKept /\ AtMostOnce
  /\ HeldOnce /\ ClaimAccounted /\ CopyRemains
  /\ HeldRead /\ CountsBacked /\ CutoffNotEarly

(* Parking an entry ends it: dead-lettering is not repeated for ever. *)
ParkedOnce == \A e \in Entries : dlq[e] <= 1

(* The fleet as EventDelivery sees it. *)
BusStatus ==
  [ev \in Events |->
     IF Processed(ev) THEN "done"
     ELSE IF Parked(ev) THEN "parked"
     ELSE IF Open(ev) THEN "open"
     ELSE IF Published(ev) THEN "lost"
     ELSE "unsent"]

Bus == INSTANCE EventDelivery WITH status <- BusStatus, atRisk <- endangered

(* Whatever fails, callers see the moves of EventDelivery and no others: an *)
(* event is settled one at a time and for good, is lost only when it was     *)
(* endangered, and opens again only by being published again.               *)
FleetMoves == Bus!Moves

(* When stops, expiries, unanswered acks, reads and claims are all that       *)
(* fails, every event is besides completed or parked in the end.            *)
RefinesReliableBus == Bus!Spec

=============================================================================
