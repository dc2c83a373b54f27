--------------------------- MODULE RagWorkerProofs ---------------------------
(***************************************************************************)
(* Proofs about RagWorker, for every fleet, stream and fault budget.       *)
(***************************************************************************)
EXTENDS RagWorker, FiniteSetTheorems, TLAPS

USE BodyAssumption, BoundAssumption

(* The two counters saturate inside their types. *)
LEMMA BumpType ==
  ASSUME NEW cap \in Nat, NEW n \in 0..cap
  PROVE  /\ Bump(n, cap) \in 0..cap
         /\ cap > 0 => Bump(n, cap) > 0
BY DEF Bump

(* What has happened once is on record. *)
LEMMA BumpHistory ==
  ASSUME NEW n \in 0..HistoryCap
  PROVE  /\ Bump(n, HistoryCap) \in 0..HistoryCap /\ Bump(n, HistoryCap) > 0
         /\ n = 0 => Bump(n, HistoryCap) = 1
BY DEF Bump, HistoryCap

(* The fault budget stays within its bound. *)
LEMMA FaultType ==
  ASSUME NEW kind, faults \in 0..MaxFaults, Fault(kind)
  PROVE  faults' \in 0..MaxFaults
BY DEF Fault

(* A worker that ends keeps the types of the worker variables. *)
LEMMA TerminateType ==
  ASSUME TypeOK, NEW w \in Workers, Terminate(w)
  PROVE  /\ pc' \in [Workers -> PCs]
         /\ batch' \in [Workers -> [Entries -> 0..DeliveryCap]]
         /\ cur' \in [Workers -> Entries \cup {0}]
BY DEF Terminate, TypeOK, PCs, DeliveryCap

(* So does one that goes on to its next message or call. *)
LEMMA NextMessageType ==
  ASSUME TypeOK, NEW w \in Workers, NextMessage(w)
  PROVE  /\ pc' \in [Workers -> PCs]
         /\ batch' \in [Workers -> [Entries -> 0..DeliveryCap]]
         /\ cur' \in [Workers -> Entries \cup {0}]
<1>1. CASE stopping[w]
  BY <1>1, TerminateType DEF NextMessage
<1>2. CASE ~stopping[w]
  <2> DEFINE to == IF Batch(w) = {} THEN after[w] ELSE "handle"
  <2>1. to \in PCs
    BY DEF TypeOK, PCs
  <2>2. /\ pc' = [pc EXCEPT ![w] = to]
        /\ cur' = [cur EXCEPT ![w] = 0]
        /\ batch' = batch
    BY <1>2 DEF NextMessage
  <2> HIDE DEF to
  <2>3. QED
    BY <2>1, <2>2 DEF TypeOK
<1>3. QED
  BY <1>1, <1>2

(* So does one that starts to handle an entry. *)
LEMMA BeginType ==
  ASSUME TypeOK, NEW w \in Workers, NEW e \in Entries, NEW to \in PCs, Begin(w, e, to)
  PROVE  /\ pc' \in [Workers -> PCs]
         /\ batch' \in [Workers -> [Entries -> 0..DeliveryCap]]
         /\ cur' \in [Workers -> Entries \cup {0}]
BY DEF Begin, TypeOK, DeliveryCap

(* A fresh batch counts every entry within the cap. *)
LEMMA DeliveryType ==
  ASSUME NEW S PROVE Delivery(S) \in [Entries -> 0..DeliveryCap]
BY DEF Delivery, DeliveryCap

(* A read takes its entries from those it may take. *)
LEMMA FirstKSubset ==
  ASSUME NEW S, NEW k PROVE FirstK(S, k) \subseteq S
BY DEF FirstK

(* What entries carry are events, bodies that cannot be parsed aside. *)
LEMMA EventsInType ==
  ASSUME NEW S PROVE UNION {EventIn(e) : e \in S} \subseteq Events
BY DEF EventIn

(* An event is among those its entry carries. *)
LEMMA EventsInMember ==
  ASSUME NEW S, NEW e \in S, Body[e] \in Events
  PROVE  Body[e] \in UNION {EventIn(f) : f \in S}
BY DEF EventIn

(* The cursor XAUTOCLAIM returns is an entry or 0. *)
LEMMA ResumeType ==
  ASSUME NEW S PROVE Resume(S) \subseteq 0..NumEntries
BY DEF Resume, Pending, Entries

(* Every step keeps the types. *)
LEMMA TypeStep == TypeOK /\ HandlingOK /\ [Next]_vars => TypeOK'
<1> SUFFICES ASSUME TypeOK, HandlingOK, [Next]_vars PROVE TypeOK'
  OBVIOUS
<1> USE DEF redisVars, workerVars, ghostVars
<1>1. ASSUME NEW e \in Entries, Publish(e) PROVE TypeOK'
  BY <1>1 DEF Publish, TypeOK
<1>2. ASSUME NEW e \in Entries, Age(e) PROVE TypeOK'
  BY <1>2, FaultType DEF Age, TypeOK
<1>3. ASSUME NEW ev \in Events, Expire(ev) PROVE TypeOK'
  BY <1>3, FaultType DEF Expire, TypeOK
<1>4. ASSUME NEW w \in Workers, Leave(w) PROVE TypeOK'
  BY <1>4, TerminateType DEF Leave, TypeOK
<1>5. ASSUME NEW w \in Workers, ClaimStale(w) PROVE TypeOK'
  <2> DEFINE taken == FirstK({e \in Pending : idle[e] /\ e >= cursor[w]}, BatchSize)
  <2>1. delivered' \in [Entries -> 0..DeliveryCap]
    BY <1>5, BumpType DEF ClaimStale, TypeOK, DeliveryCap
  <2>2. idle' \in [Entries -> BOOLEAN]
    BY <1>5 DEF ClaimStale, TypeOK
  <2>3. endangered' \in SUBSET Events
    <3> DEFINE stolen == {f \in taken : \E v \in Workers : Held(v, f)}
    <3>1. endangered' = endangered \cup UNION {EventIn(e) : e \in stolen}
      BY <1>5 DEF ClaimStale
    <3> HIDE DEF stolen
    <3>2. QED
      BY <3>1, EventsInType DEF TypeOK
  <2>4. CASE /\ \E c \in Resume(taken) : cursor' = [cursor EXCEPT ![w] = c]
             /\ pc' = [pc EXCEPT ![w] = IF taken = {} THEN "read" ELSE "counts"]
             /\ batch' = [batch EXCEPT ![w] = Delivery(taken)]
             /\ UNCHANGED faults
    <3>1. Delivery(taken) \in [Entries -> 0..DeliveryCap] /\ Resume(taken) \subseteq 0..NumEntries
      BY DeliveryType, ResumeType
    <3> HIDE DEF taken
    <3>2. cursor' \in [Workers -> 0..NumEntries] /\ pc' \in [Workers -> PCs]
          /\ batch' \in [Workers -> [Entries -> 0..DeliveryCap]]
      BY <2>4, <3>1 DEF TypeOK, PCs
    <3>3. QED
      BY <1>5, <2>1, <2>2, <2>3, <2>4, <3>2 DEF ClaimStale, TypeOK
  <2>5. CASE /\ Fault("read")
             /\ pc' = [pc EXCEPT ![w] = "read"]
             /\ UNCHANGED <<cursor, batch>>
    BY <1>5, <2>1, <2>2, <2>3, <2>5, FaultType DEF ClaimStale, TypeOK, PCs
  <2>6. QED
    BY <1>5, <2>4, <2>5 DEF ClaimStale
<1>6. ASSUME NEW w \in Workers, DeliveryCounts(w) PROVE TypeOK'
  <2>1. dlq' \in [Entries -> 0..HistoryCap]
    BY <1>6, BumpType DEF DeliveryCounts, TypeOK, HistoryCap
  <2>2. batch' \in [Workers -> [Entries -> 0..DeliveryCap]] /\ faults' \in 0..MaxFaults
    <3> DEFINE taken == Batch(w)
               broken == {e \in taken : Body[e] = Garbled}
               counted == [e \in Entries |->
                             IF e \notin taken \ broken THEN 0
                             ELSE IF e \in Listed(taken) THEN delivered[e] ELSE 1]
    <3>1. counted \in [Entries -> 0..DeliveryCap]
      <4> HIDE DEF taken, broken
      <4>1. QED
        BY DEF TypeOK, DeliveryCap
    <3>2. Delivery(taken \ broken) \in [Entries -> 0..DeliveryCap]
      BY DeliveryType
    <3>3. \/ batch' = [batch EXCEPT ![w] = counted] /\ UNCHANGED faults
          \/ Fault("counts") /\ batch' = [batch EXCEPT ![w] = Delivery(taken \ broken)]
      BY <1>6 DEF DeliveryCounts
    <3> HIDE DEF counted, taken, broken
    <3>4. QED
      BY ZenonT(40), <3>1, <3>2, <3>3, FaultType DEF TypeOK
  <2>3. QED
    BY <1>6, <2>1, <2>2 DEF DeliveryCounts, TypeOK, PCs
<1>7. ASSUME NEW w \in Workers, ReadNew(w) PROVE TypeOK'
  <2>1. /\ place' \in [Entries -> {"unsent", "queued", "pending", "gone"}]
        /\ delivered' \in [Entries -> 0..DeliveryCap]
    BY <1>7 DEF ReadNew, TypeOK, DeliveryCap
  <2>2. batch' \in [Workers -> [Entries -> 0..DeliveryCap]] /\ faults' \in 0..MaxFaults
    <3> DEFINE taken == FirstK({e \in Entries : place[e] = "queued"}, BatchSize)
    <3>1. \/ batch' = [batch EXCEPT ![w] = Delivery(taken)] /\ UNCHANGED faults
          \/ Fault("read") /\ UNCHANGED batch
      BY <1>7 DEF ReadNew
    <3>2. Delivery(taken) \in [Entries -> 0..DeliveryCap]
      BY DeliveryType
    <3> HIDE DEF taken
    <3>3. QED
      BY SMTT(30), <3>1, <3>2, FaultType DEF TypeOK
  <2>3. pc' \in [Workers -> PCs]
    BY <1>7 DEF ReadNew, TypeOK, PCs
  <2>4. QED
    BY <1>7, <2>1, <2>2, <2>3 DEF ReadNew, TypeOK
<1>8. ASSUME NEW w \in Workers, Unreachable(w) PROVE TypeOK'
  BY <1>8, FaultType DEF Unreachable, TypeOK, PCs
<1>9. ASSUME NEW w \in Workers, NEW e \in Entries, SkipGarbled(w, e) PROVE TypeOK'
  <2>1. dlq' \in [Entries -> 0..HistoryCap]
    BY <1>9, BumpType DEF SkipGarbled, TypeOK, HistoryCap
  <2>2. /\ pc' \in [Workers -> PCs]
        /\ batch' \in [Workers -> [Entries -> 0..DeliveryCap]]
        /\ cur' \in [Workers -> Entries \cup {0}]
    <3>1. CASE stopping[w]
      BY <1>9, <3>1, TerminateType DEF SkipGarbled
    <3>2. CASE ~stopping[w]
      <4> DEFINE to == IF Batch(w) = {e} THEN after[w] ELSE "handle"
      <4>1. to \in PCs
        BY DEF TypeOK, PCs
      <4>2. /\ pc' = [pc EXCEPT ![w] = to]
            /\ batch' = [batch EXCEPT ![w][e] = 0]
            /\ cur' = cur
        BY <1>9, <3>2 DEF SkipGarbled
      <4> HIDE DEF to
      <4>3. QED
        BY <4>1, <4>2 DEF TypeOK, DeliveryCap
    <3>3. QED
      BY <3>1, <3>2
  <2>3. QED
    BY <1>9, <2>1, <2>2 DEF SkipGarbled, TypeOK
<1>10. ASSUME NEW w \in Workers, NEW e \in Entries,
              ParkInvalid(w, e) \/ ParkPoison(w, e) \/ SkipDuplicate(w, e)
       PROVE TypeOK'
  BY <1>10, BeginType DEF ParkInvalid, ParkPoison, SkipDuplicate, TypeOK, PCs
<1>11. ASSUME NEW w \in Workers, NEW e \in Entries, Claim(w, e) PROVE TypeOK'
  <2>1. claimed' \in SUBSET Events /\ bypassed' \in SUBSET Events
    BY <1>11 DEF Claim, TypeOK
  <2>2. QED
    BY <1>11, <2>1, BeginType DEF Claim, TypeOK, PCs
<1>12. ASSUME NEW w \in Workers, NEW e \in Entries, ClaimUnguarded(w, e) PROVE TypeOK'
  BY <1>12, BeginType, FaultType DEF ClaimUnguarded, TypeOK, PCs
<1>13. ASSUME NEW w \in Workers, Complete(w) PROVE TypeOK'
  <2>1. done' \in [Entries -> 0..HistoryCap]
    BY <1>13, BumpType DEF Complete, TypeOK, HistoryCap
  <2>2. QED
    BY <1>13, <2>1 DEF Complete, TypeOK, PCs
<1>14. ASSUME NEW w \in Workers, Fail(w) PROVE TypeOK'
  BY <1>14 DEF Fail, TypeOK, PCs
<1>15. ASSUME NEW w \in Workers, Release(w) PROVE TypeOK'
  <2>1. CASE claimed' = claimed \ {Body[cur[w]]} /\ UNCHANGED <<endangered, faults>>
    BY <1>15, <2>1, NextMessageType DEF Release, TypeOK
  <2>2. CASE /\ Fault("release")
             /\ endangered' = endangered \cup {Body[cur[w]]}
             /\ UNCHANGED claimed
    BY <1>15, <2>2, NextMessageType, FaultType DEF Release, TypeOK, HandlingOK, Owning
  <2>3. QED
    BY <1>15, <2>1, <2>2 DEF Release
<1>16. ASSUME NEW w \in Workers, WriteDeadLetter(w) PROVE TypeOK'
  <2>1. dlq' \in [Entries -> 0..HistoryCap]
    <3>1. cur[w] \in Entries
      BY <1>16 DEF WriteDeadLetter, HandlingOK, Handling, Owning
    <3>2. Bump(dlq[cur[w]], HistoryCap) \in 0..HistoryCap
      BY <3>1, BumpType DEF TypeOK, HistoryCap
    <3>3. QED
      BY <1>16, <3>1, <3>2 DEF WriteDeadLetter, TypeOK
  <2>2. endangered' \in SUBSET Events /\ faults' \in 0..MaxFaults
    BY <1>16, FaultType DEF WriteDeadLetter, TypeOK, EventIn
  <2>3. QED
    BY <1>16, <2>1, <2>2 DEF WriteDeadLetter, TypeOK, PCs
<1>17. ASSUME NEW w \in Workers, Ack(w) PROVE TypeOK'
  BY <1>17, NextMessageType, FaultType DEF Ack, TypeOK
<1>18. ASSUME NEW w \in Workers, Stop(w) PROVE TypeOK'
  BY <1>18, FaultType DEF Stop, TypeOK
<1>19. ASSUME NEW w \in Workers, Crash(w) PROVE TypeOK'
  BY <1>19, TerminateType, FaultType DEF Crash, TypeOK, HandlingOK
<1>20. ASSUME NEW w \in Workers, Restart(w) PROVE TypeOK'
  BY <1>20 DEF Restart, TypeOK, PCs
<1>21. CASE UNCHANGED vars
  BY <1>21 DEF vars, TypeOK
<1>22. QED
  BY <1>1, <1>2, <1>3, <1>4, <1>5, <1>6, <1>7, <1>8, <1>9, <1>10, <1>11, <1>12,
     <1>13, <1>14, <1>15, <1>16, <1>17, <1>18, <1>19, <1>20, <1>21
  DEF Next, Step, Handle

-----------------------------------------------------------------------------
(* What one worker's step leaves alone, and what it does to that worker. *)

Elsewhere(w) ==
  \A v \in Workers \ {w} :
    pc'[v] = pc[v] /\ cur'[v] = cur[v] /\ batch'[v] = batch[v]

(* A worker that ends holds nothing. *)
LEMMA TerminateEffect ==
  ASSUME TypeOK, NEW w \in Workers, Terminate(w)
  PROVE  /\ Elsewhere(w)
         /\ pc'[w] = "down" /\ cur'[w] = 0
         /\ \A e \in Entries : batch'[w][e] = 0
BY DEF Terminate, TypeOK, Elsewhere

(* A worker done with a message picks up no entry from outside its batch. *)
LEMMA NextMessageEffect ==
  ASSUME TypeOK, NEW w \in Workers, NextMessage(w)
  PROVE  /\ Elsewhere(w)
         /\ pc'[w] \in {"down", "claim", "read", "handle"} /\ cur'[w] = 0
         /\ \A e \in Entries : batch'[w][e] > 0 => batch[w][e] > 0
<1>1. CASE stopping[w]
  BY <1>1, TerminateEffect DEF NextMessage
<1>2. CASE ~stopping[w]
  <2> DEFINE to == IF Batch(w) = {} THEN after[w] ELSE "handle"
  <2>1. to \in {"claim", "read", "handle"}
    BY DEF TypeOK
  <2>2. /\ pc' = [pc EXCEPT ![w] = to]
        /\ cur' = [cur EXCEPT ![w] = 0]
        /\ batch' = batch
    BY <1>2 DEF NextMessage
  <2> HIDE DEF to
  <2>3. QED
    BY <2>1, <2>2 DEF TypeOK, Elsewhere
<1>3. QED
  BY <1>1, <1>2

(* A worker takes its current entry off its own batch. *)
LEMMA BeginEffect ==
  ASSUME TypeOK, NEW w \in Workers, NEW e \in Entries, NEW to, Begin(w, e, to)
  PROVE  /\ Elsewhere(w)
         /\ pc[w] = "handle" /\ pc'[w] = to
         /\ cur'[w] = e /\ batch[w][e] > 0 /\ batch'[w][e] = 0
         /\ \A f \in Entries : batch'[w][f] > 0 => batch[w][f] > 0
<1>1. batch[w] \in [Entries -> 0..DeliveryCap]
  BY DEF TypeOK
<1>2. QED
  BY <1>1 DEF Begin, IsNext, Batch, TypeOK, Elsewhere

(* An undecodable entry leaves the batch without being handled. *)
LEMMA SkipGarbledEffect ==
  ASSUME TypeOK, NEW w \in Workers, NEW e \in Entries, HandlingOK, SkipGarbled(w, e)
  PROVE  /\ Elsewhere(w)
         /\ pc[w] = "handle"
         /\ pc'[w] \in {"down", "claim", "read", "handle"} /\ cur'[w] = 0
         /\ \A f \in Entries : batch'[w][f] > 0 => batch[w][f] > 0
<1>1. CASE stopping[w]
  BY <1>1, TerminateEffect DEF SkipGarbled
<1>2. CASE ~stopping[w]
  <2> DEFINE to == IF Batch(w) = {e} THEN after[w] ELSE "handle"
  <2>1. to \in {"claim", "read", "handle"}
    BY DEF TypeOK
  <2>2. /\ pc' = [pc EXCEPT ![w] = to]
        /\ batch' = [batch EXCEPT ![w][e] = 0]
        /\ cur' = cur /\ pc[w] = "handle"
    BY <1>2 DEF SkipGarbled
  <2>3. cur[w] = 0
    BY <2>2 DEF HandlingOK, Handling, Owning
  <2> HIDE DEF to
  <2>4. batch[w] \in [Entries -> 0..DeliveryCap]
    BY DEF TypeOK
  <2>5. QED
    BY <2>1, <2>2, <2>3, <2>4 DEF TypeOK, Elsewhere
<1>3. QED
  BY <1>1, <1>2

(* A batch comes out of a read with every entry counted once. *)
LEMMA DeliveryEffect ==
  ASSUME NEW S, NEW e \in Entries
  PROVE  Delivery(S)[e] > 0 <=> e \in S
BY DEF Delivery

(* Counting deliveries adds nothing to the batch. *)
LEMMA DeliveryCountsEffect ==
  ASSUME TypeOK, NEW w \in Workers, DeliveryCounts(w)
  PROVE  /\ Elsewhere(w)
         /\ pc[w] = "counts" /\ pc'[w] \in {"read", "handle"} /\ cur' = cur
         /\ \A e \in Entries : batch'[w][e] > 0 => batch[w][e] > 0
<1> DEFINE taken == Batch(w)
           broken == {e \in taken : Body[e] = Garbled}
           counted == [e \in Entries |->
                         IF e \notin taken \ broken THEN 0
                         ELSE IF e \in Listed(taken) THEN delivered[e] ELSE 1]
           to == IF taken = broken THEN "read" ELSE "handle"
<1>1. /\ pc[w] = "counts" /\ cur' = cur
      /\ pc' = [pc EXCEPT ![w] = to]
      /\ \/ batch' = [batch EXCEPT ![w] = counted]
         \/ batch' = [batch EXCEPT ![w] = Delivery(taken \ broken)]
  BY DEF DeliveryCounts
<1>2. \A e \in Entries : counted[e] > 0 => e \in taken
  <2> HIDE DEF taken, broken
  <2>1. QED
    OBVIOUS
<1>3. \A e \in Entries : Delivery(taken \ broken)[e] > 0 => e \in taken
  BY DeliveryEffect
<1>4. \A e \in Entries : e \in taken => batch[w][e] > 0
  BY DEF Batch
<1>5. to \in {"read", "handle"}
  OBVIOUS
<1> HIDE DEF taken, broken, counted, to
<1>6. QED
  BY <1>1, <1>2, <1>3, <1>4, <1>5 DEF TypeOK, Elsewhere

-----------------------------------------------------------------------------
(* HandlingOK. *)

(* A worker that is not mid-message and the workers a step leaves alone.    *)
LEMMA HandlingFrame ==
  ASSUME HandlingOK, NEW w \in Workers, Elsewhere(w),
         \/ pc'[w] \notin Handling /\ cur'[w] = 0
         \/ /\ pc'[w] \in Handling /\ cur'[w] \in Entries /\ batch'[w][cur'[w]] = 0
            /\ pc'[w] \in Owning => Body[cur'[w]] \in Events
  PROVE  HandlingOK'
<1>1. 0 \notin Entries
  BY DEF Entries
<1>2. QED
  BY <1>1 DEF HandlingOK, Elsewhere, Handling

(* Every step keeps current entries and handler points in agreement. *)
LEMMA HandlingStep == TypeOK /\ HandlingOK /\ [Next]_vars => HandlingOK'
<1> SUFFICES ASSUME TypeOK, HandlingOK, [Next]_vars PROVE HandlingOK'
  OBVIOUS
<1> USE DEF redisVars, workerVars, ghostVars
<1>1. CASE UNCHANGED <<pc, cur, batch>>
  BY <1>1 DEF HandlingOK
<1>2. ASSUME NEW w \in Workers, Leave(w) \/ Crash(w) PROVE HandlingOK'
  <2>1. Terminate(w)
    BY <1>2 DEF Leave, Crash
  <2>2. QED
    BY <2>1, TerminateEffect, HandlingFrame DEF Handling, Owning
<1>3. ASSUME NEW w \in Workers, ClaimStale(w) \/ ReadNew(w) \/ Unreachable(w) \/ Restart(w)
      PROVE HandlingOK'
  <2>1. pc[w] \notin Handling /\ cur[w] = 0
    BY <1>3 DEF ClaimStale, ReadNew, Unreachable, Restart, HandlingOK, Handling, Owning
  <2>2. pc'[w] \notin Handling /\ cur' = cur
    BY <1>3 DEF ClaimStale, ReadNew, Unreachable, Restart, Handling, Owning, TypeOK
  <2>3. Elsewhere(w)
    BY <1>3 DEF ClaimStale, ReadNew, Unreachable, Restart, Elsewhere, TypeOK
  <2>4. QED
    BY <2>1, <2>2, <2>3, HandlingFrame
<1>4. ASSUME NEW w \in Workers, DeliveryCounts(w) PROVE HandlingOK'
  <2>1. cur[w] = 0
    BY <1>4 DEF DeliveryCounts, HandlingOK, Handling, Owning
  <2>2. QED
    BY <1>4, <2>1, DeliveryCountsEffect, HandlingFrame DEF Handling, Owning
<1>5. ASSUME NEW w \in Workers, NEW e \in Entries, SkipGarbled(w, e) PROVE HandlingOK'
  BY <1>5, SkipGarbledEffect, HandlingFrame DEF Handling, Owning
<1>6. ASSUME NEW w \in Workers, NEW e \in Entries,
             \/ ParkInvalid(w, e) \/ ParkPoison(w, e) \/ SkipDuplicate(w, e)
             \/ Claim(w, e) \/ ClaimUnguarded(w, e)
      PROVE HandlingOK'
  <2>1. \/ Begin(w, e, "park")
        \/ Begin(w, e, "ack")
        \/ Begin(w, e, "dispatch") /\ Body[e] \in Events
    BY <1>6 DEF ParkInvalid, ParkPoison, SkipDuplicate, Claim, ClaimUnguarded
  <2>2. QED
    BY <2>1, BeginEffect, HandlingFrame DEF Handling, Owning
<1>7. ASSUME NEW w \in Workers, Complete(w) \/ Fail(w) \/ WriteDeadLetter(w)
      PROVE HandlingOK'
  <2>1. /\ pc[w] \in Handling
        /\ pc'[w] \in Handling
        /\ pc'[w] \in Owning => pc[w] \in Owning
        /\ cur' = cur /\ batch' = batch
    BY <1>7 DEF Complete, Fail, WriteDeadLetter, Handling, Owning, TypeOK
  <2>2. Elsewhere(w)
    BY <1>7 DEF Complete, Fail, WriteDeadLetter, Elsewhere, TypeOK
  <2>3. QED
    BY <2>1, <2>2, HandlingFrame DEF HandlingOK
<1>8. ASSUME NEW w \in Workers, Release(w) \/ Ack(w) PROVE HandlingOK'
  <2>1. NextMessage(w)
    BY <1>8 DEF Release, Ack
  <2>2. QED
    BY <2>1, NextMessageEffect, HandlingFrame DEF Handling, Owning
<1>9. QED
  <2>1. CASE \/ \E e \in Entries : Publish(e) \/ Age(e)
             \/ \E ev \in Events : Expire(ev)
             \/ \E w \in Workers : Stop(w)
             \/ UNCHANGED vars
    BY <2>1, <1>1 DEF Publish, Age, Expire, Stop, vars
  <2>2. QED
    BY <2>1, <1>2, <1>3, <1>4, <1>5, <1>6, <1>7, <1>8 DEF Next, Step, Handle

-----------------------------------------------------------------------------
(* Type correctness. *)

(* Every reachable state of every fleet is of the declared types, and a     *)
(* worker has a current entry exactly while RagService.handle runs.         *)
THEOREM TypeCorrect == Spec => [](TypeOK /\ HandlingOK)
<1>1. Init => TypeOK /\ HandlingOK
  BY DEF Init, TypeOK, PCs, DeliveryCap, HistoryCap, HandlingOK, Handling, Owning, Entries
<1>2. QED
  BY <1>1, TypeStep, HandlingStep, PTL DEF Spec

-----------------------------------------------------------------------------
(* HeldOnce. *)

(* A worker that puts down messages, or goes on to the next of its batch,   *)
(* picks up nothing new.                                                    *)
LEMMA HoldFrame ==
  ASSUME NEW w \in Workers, Elsewhere(w),
         \/ cur'[w] \in {0, cur[w]}
         \/ cur'[w] \in Entries /\ batch[w][cur'[w]] > 0,
         \A e \in Entries : batch'[w][e] > 0 => batch[w][e] > 0
  PROVE  \A v \in Workers, e \in Entries : Held(v, e)' => Held(v, e)
<1>1. 0 \notin Entries
  BY DEF Entries
<1>2. QED
  BY <1>1 DEF Elsewhere, Held

(* A read gives the entries it took to the worker that made it.             *)
LEMMA ReadHold ==
  ASSUME TypeOK, NEW w \in Workers, NEW S, cur' = cur,
         \/ batch' = [batch EXCEPT ![w] = Delivery(S)]
         \/ batch' = batch,
         NEW v \in Workers, NEW e \in Entries, Held(v, e)'
  PROVE  Held(v, e) \/ (v = w /\ e \in S)
<1>1. CASE batch' = batch
  BY <1>1 DEF Held
<1>2. CASE batch' = [batch EXCEPT ![w] = Delivery(S)]
  <2>1. v # w => batch'[v] = batch[v]
    BY <1>2 DEF TypeOK
  <2>2. v = w => batch'[v] = Delivery(S)
    BY <1>2 DEF TypeOK
  <2>3. Delivery(S)[e] > 0 => e \in S
    BY DeliveryEffect
  <2>4. QED
    BY <2>1, <2>2, <2>3 DEF Held
<1>3. QED
  BY <1>1, <1>2

(* A step that gives out nothing, and unpends only what others do not      *)
(* hold, keeps every entry in one hand.                                     *)
LEMMA HeldFrame ==
  ASSUME HeldOnce, endangered \subseteq endangered',
         \A v \in Workers, e \in Entries : Held(v, e)' => Held(v, e),
         \A v \in Workers, e \in Entries :
           Held(v, e)' /\ place[e] = "pending" /\ (\A u \in Workers : Held(u, e) => u = v)
             => place'[e] = "pending"
  PROVE  HeldOnce'
BY DEF HeldOnce, Copies

(* Every step keeps an entry that is not endangered in one hand. *)
LEMMA HeldStep == TypeOK /\ HandlingOK /\ HeldOnce /\ [Next]_vars => HeldOnce'
<1> SUFFICES ASSUME TypeOK, HandlingOK, HeldOnce, [Next]_vars PROVE HeldOnce'
  OBVIOUS
<1> USE DEF redisVars, workerVars, ghostVars
<1>1. CASE UNCHANGED <<place, batch, cur>> /\ endangered \subseteq endangered'
  BY <1>1, HeldFrame DEF Held
<1>2. ASSUME NEW e \in Entries, Publish(e) PROVE HeldOnce'
  <2>1. \A f \in Entries : place[f] = "pending" => place'[f] = "pending"
    BY <1>2 DEF Publish, TypeOK
  <2>2. UNCHANGED <<batch, cur, endangered>>
    BY <1>2 DEF Publish
  <2>3. QED
    BY <2>1, <2>2, HeldFrame DEF Held
<1>3. ASSUME NEW w \in Workers, ClaimStale(w) PROVE HeldOnce'
  <2> DEFINE taken == FirstK({e \in Pending : idle[e] /\ e >= cursor[w]}, BatchSize)
             stolen == {f \in taken : \E v \in Workers : Held(v, f)}
  <2>1. \A e \in taken : e \in Entries /\ place[e] = "pending"
    BY FirstKSubset DEF Pending
  <2>2. /\ endangered' = endangered \cup UNION {EventIn(e) : e \in stolen}
        /\ place' = place /\ cur' = cur
        /\ \/ batch' = [batch EXCEPT ![w] = Delivery(taken)]
           \/ batch' = batch
    BY <1>3 DEF ClaimStale
  <2>3. \A e \in stolen : Body[e] \in Events => Body[e] \in endangered'
    <3> HIDE DEF stolen
    <3>1. QED
      BY <2>2, EventsInMember
  <2>4. cur[w] = 0 /\ 0 \notin Entries
    <3>1. pc[w] = "claim"
      BY <1>3 DEF ClaimStale
    <3>2. QED
      BY <3>1 DEF HandlingOK, Handling, Owning, Entries
  <2>5. ASSUME NEW v \in Workers, NEW e \in Entries, Held(v, e)'
        PROVE  Held(v, e) \/ (v = w /\ e \in taken)
    <3> HIDE DEF taken
    <3>1. QED
      BY <2>2, <2>5, ReadHold
  <2>6. SUFFICES ASSUME NEW ev \in Events \ endangered', NEW e \in Copies(ev),
                        NEW u \in Workers, Held(u, e)'
                 PROVE  /\ place'[e] = "pending"
                        /\ \A v \in Workers : Held(v, e)' => v = u
    BY DEF HeldOnce, Copies
  <2>7. e \in Entries /\ Body[e] = ev /\ ev \in Events \ endangered /\ e \notin stolen
    BY <2>2, <2>3 DEF Copies
  <2>8. CASE e \in taken
    <3>1. \A v \in Workers : ~Held(v, e)
      BY <2>7, <2>8
    <3> HIDE DEF taken, stolen
    <3>2. QED
      BY <2>1, <2>2, <2>5, <2>6, <2>7, <2>8, <3>1
  <2>9. CASE e \notin taken
    <3> HIDE DEF taken, stolen
    <3>1. QED
      BY <2>2, <2>5, <2>6, <2>7, <2>9 DEF HeldOnce
  <2>10. QED
    BY <2>8, <2>9
<1>4. ASSUME NEW w \in Workers, ReadNew(w) PROVE HeldOnce'
  <2> DEFINE taken == FirstK({e \in Entries : place[e] = "queued"}, BatchSize)
  <2>1. \A e \in taken : e \in Entries /\ place[e] = "queued"
    BY FirstKSubset
  <2>2. /\ endangered' = endangered /\ cur' = cur
        /\ place' = [e \in Entries |-> IF e \in taken THEN "pending" ELSE place[e]]
        /\ \/ batch' = [batch EXCEPT ![w] = Delivery(taken)]
           \/ batch' = batch
    BY <1>4 DEF ReadNew
  <2>3. ASSUME NEW v \in Workers, NEW e \in Entries, Held(v, e)'
        PROVE  Held(v, e) \/ (v = w /\ e \in taken)
    <3> HIDE DEF taken
    <3>1. QED
      BY <2>2, <2>3, ReadHold
  <2> HIDE DEF taken
  <2>4. SUFFICES ASSUME NEW ev \in Events \ endangered, NEW e \in Copies(ev),
                        NEW u \in Workers, Held(u, e)'
                 PROVE  /\ place'[e] = "pending"
                        /\ \A v \in Workers : Held(v, e)' => v = u
    BY <2>2 DEF HeldOnce, Copies
  <2>5. e \in Entries
    BY DEF Copies
  <2>6. QED
    BY <2>1, <2>2, <2>3, <2>4, <2>5 DEF HeldOnce
<1>5. ASSUME NEW w \in Workers, Leave(w) \/ Crash(w) PROVE HeldOnce'
  <2>1. Terminate(w) /\ place' = place /\ endangered \subseteq endangered'
    BY <1>5 DEF Leave, Crash
  <2>2. QED
    BY <2>1, TerminateEffect, HoldFrame, HeldFrame
<1>6. ASSUME NEW w \in Workers, DeliveryCounts(w) PROVE HeldOnce'
  <2>1. UNCHANGED <<place, endangered>>
    BY <1>6 DEF DeliveryCounts
  <2>2. QED
    BY <1>6, <2>1, DeliveryCountsEffect, HoldFrame, HeldFrame
<1>7. ASSUME NEW w \in Workers, NEW e \in Entries, SkipGarbled(w, e) PROVE HeldOnce'
  <2>1. UNCHANGED <<place, endangered>>
    BY <1>7 DEF SkipGarbled
  <2>2. QED
    BY <1>7, <2>1, SkipGarbledEffect, HoldFrame, HeldFrame
<1>8. ASSUME NEW w \in Workers, NEW e \in Entries, NEW to \in PCs, Begin(w, e, to),
             UNCHANGED <<place, endangered>>
      PROVE HeldOnce'
  BY <1>8, BeginEffect, HoldFrame, HeldFrame
<1>9. ASSUME NEW w \in Workers, Release(w) PROVE HeldOnce'
  <2>1. NextMessage(w) /\ place' = place /\ endangered \subseteq endangered'
    BY <1>9 DEF Release
  <2>2. QED
    BY <2>1, NextMessageEffect, HoldFrame, HeldFrame
<1>10. ASSUME NEW w \in Workers, Ack(w) PROVE HeldOnce'
  <2>1. /\ NextMessage(w) /\ endangered' = endangered
        /\ \/ place' = [place EXCEPT ![cur[w]] = "gone"]
           \/ place' = place
    BY <1>10 DEF Ack
  <2>2. PICK x \in Entries : x = cur[w] /\ batch[w][x] = 0
    BY <1>10 DEF Ack, HandlingOK, Handling
  <2>3. \A v \in Workers, e \in Entries : Held(v, e)' => Held(v, e)
    BY <2>1, NextMessageEffect, HoldFrame
  <2>4. Held(w, x) /\ ~Held(w, x)'
    <3>1. cur'[w] = 0 /\ (batch'[w][x] > 0 => batch[w][x] > 0)
      BY <2>1, NextMessageEffect
    <3>2. ~(batch'[w][x] > 0) /\ cur'[w] # x
      BY <2>2, <3>1 DEF Entries
    <3>3. QED
      BY <2>2, <3>2 DEF Held
  <2>5. QED
    <3>1. ASSUME NEW v \in Workers, NEW e \in Entries, Held(v, e)', place[e] = "pending",
                 \A u \in Workers : Held(u, e) => u = v
          PROVE  place'[e] = "pending"
      <4>1. e # x
        BY <3>1, <2>4
      <4>2. QED
        BY <2>1, <2>2, <3>1, <4>1 DEF TypeOK
    <3>2. QED
      BY <2>1, <2>3, <3>1, HeldFrame
<1>11. QED
  <2>1. CASE \/ \E e \in Entries : Age(e)
             \/ \E ev \in Events : Expire(ev)
             \/ \E w \in Workers : \/ Stop(w) \/ Unreachable(w) \/ Restart(w)
                                   \/ Complete(w) \/ Fail(w) \/ WriteDeadLetter(w)
             \/ UNCHANGED vars
    BY <2>1, <1>1 DEF Age, Expire, Stop, Unreachable, Restart, Complete, Fail,
                      WriteDeadLetter, vars
  <2>2. ASSUME NEW w \in Workers, Handle(w) PROVE HeldOnce'
    BY <2>2, <1>7, <1>8 DEF Handle, ParkInvalid, ParkPoison, SkipDuplicate, Claim,
                            ClaimUnguarded, PCs
  <2>3. QED
    BY <2>1, <2>2, <1>2, <1>3, <1>4, <1>5, <1>6, <1>9, <1>10 DEF Next, Step

-----------------------------------------------------------------------------
(* Ownership, keys, effects and remaining copies. *)

Main == OneOwner /\ KeyKept /\ AtMostOnce /\ ClaimAccounted /\ CopyRemains

(* A step that moves no claim, completes nothing, acks nothing and sends no *)
(* worker to the point of acking.                                           *)
Quiet ==
  /\ UNCHANGED <<claimed, done, bypassed>>
  /\ endangered \subseteq endangered'
  /\ \A e \in Entries : dlq[e] > 0 => dlq'[e] > 0
  /\ \A e \in Entries : /\ Live(e) => Live(e)'
                        /\ place[e] = "unsent" => place'[e] = "unsent"
  /\ \A v \in Workers, ev \in Events : Owns(v, ev)' <=> Owns(v, ev)
  /\ \A v \in Workers : pc'[v] = "ack" => pc[v] = "ack" /\ cur'[v] = cur[v]

(* A quiet step disturbs none of the main invariants. *)
LEMMA QuietStep == TypeOK /\ Main /\ Quiet => Main'
<1> SUFFICES ASSUME TypeOK, Main, Quiet PROVE Main'
  OBVIOUS
<1>1. \A ev \in Events : /\ Processed(ev)' <=> Processed(ev)
                         /\ Parked(ev) => Parked(ev)'
                         /\ Published(ev)' => Published(ev)
  BY DEF Quiet, Processed, Parked, Published, Copies
<1>2. OneOwner'
  BY <1>1 DEF Main, Quiet, OneOwner
<1>3. KeyKept'
  BY <1>1 DEF Main, Quiet, KeyKept
<1>4. AtMostOnce'
  BY DEF Main, Quiet, AtMostOnce, Copies
<1>5. ClaimAccounted'
  <2> SUFFICES ASSUME NEW ev \in claimed'
               PROVE  \/ \E w \in Workers : Owns(w, ev)'
                      \/ Processed(ev)' \/ Parked(ev)' \/ ev \in endangered'
    BY DEF ClaimAccounted
  <2>1. ev \in claimed /\ ev \in Events
    BY DEF Quiet, TypeOK
  <2>2. QED
    BY <2>1, <1>1 DEF Main, Quiet, ClaimAccounted
<1>6. CopyRemains'
  BY <1>1 DEF Main, Quiet, CopyRemains, Copies
<1>7. QED
  BY <1>2, <1>3, <1>4, <1>5, <1>6 DEF Main

(* The same for a worker's step, from what it does to that worker. *)
LEMMA QuietWorker ==
  ASSUME NEW w \in Workers, Elsewhere(w),
         pc[w] \notin Owning,
         pc'[w] \notin Handling \/ pc'[w] = "park",
         UNCHANGED <<claimed, done, bypassed>>,
         endangered \subseteq endangered',
         \A e \in Entries : dlq[e] > 0 => dlq'[e] > 0,
         \A e \in Entries : /\ Live(e) => Live(e)'
                            /\ place[e] = "unsent" => place'[e] = "unsent"
  PROVE  Quiet
<1>1. pc'[w] \notin Owning /\ pc'[w] # "ack"
  BY DEF Handling, Owning
<1>2. \A v \in Workers, ev \in Events : Owns(v, ev)' <=> Owns(v, ev)
  BY <1>1 DEF Owns, Elsewhere
<1>3. \A v \in Workers : pc'[v] = "ack" => pc[v] = "ack" /\ cur'[v] = cur[v]
  BY <1>1 DEF Elsewhere
<1>4. QED
  BY <1>2, <1>3 DEF Quiet

(* Every step keeps ownership, keys, effects and copies right. *)
LEMMA MainStep ==
  TypeOK /\ HandlingOK /\ HeldOnce /\ Main /\ [Next]_vars => Main'
<1> SUFFICES ASSUME TypeOK, HandlingOK, HeldOnce, Main, [Next]_vars PROVE Main'
  OBVIOUS
<1> USE DEF redisVars, workerVars, ghostVars
<1>1. ASSUME NEW e \in Entries, Publish(e) PROVE Main'
  <2>1. /\ UNCHANGED <<claimed, done, bypassed, endangered, dlq, pc, cur>>
        /\ place[e] = "unsent" /\ place' = [place EXCEPT ![e] = "queued"]
    BY <1>1 DEF Publish
  <2>2. \A ev \in Events : /\ Processed(ev)' <=> Processed(ev)
                           /\ Parked(ev)' <=> Parked(ev)
                           /\ \A w \in Workers : Owns(w, ev)' <=> Owns(w, ev)
    BY <2>1 DEF Processed, Parked, Copies, Owns
  <2>3. OneOwner' /\ KeyKept'
    BY <2>1, <2>2 DEF Main, OneOwner, KeyKept
  <2>4. AtMostOnce'
    BY <2>1 DEF Main, AtMostOnce, Copies
  <2>5. ClaimAccounted'
    BY <2>1, <2>2 DEF Main, ClaimAccounted, TypeOK
  <2>6. CopyRemains'
    <3> SUFFICES ASSUME NEW ev \in Events \ endangered, Published(ev)',
                        ~Processed(ev), ~Parked(ev)
                 PROVE \E f \in Copies(ev) :
                         Live(f)' /\ \A w \in Workers : ~(pc[w] = "ack" /\ cur[w] = f)
      BY <2>1, <2>2 DEF CopyRemains, Copies
    <3>1. CASE Body[e] = ev
      (* HandlingOK and HeldOnce: nobody handles an entry not yet published. *)
      <4>1. e \in Copies(ev) /\ Live(e)'
        BY <2>1, <3>1 DEF Copies, Live, TypeOK
      <4>2. \A w \in Workers : cur[w] # e
        BY <2>1, <4>1 DEF HeldOnce, Held
      <4>3. QED
        BY <4>1, <4>2
    <3>2. CASE Body[e] # ev
      <4>1. Published(ev)
        BY <2>1, <3>2 DEF Published, Copies, TypeOK
      <4>2. \A f \in Copies(ev) : place'[f] = place[f]
        BY <2>1, <3>2 DEF Copies, TypeOK
      <4>3. QED
        BY <4>1, <4>2 DEF Main, CopyRemains, Live
    <3>3. QED
      BY <3>1, <3>2
  <2>7. QED
    BY <2>3, <2>4, <2>5, <2>6 DEF Main
<1>2. ASSUME NEW e \in Entries, Age(e) PROVE Main'
  <2>1. Quiet
    BY <1>2 DEF Age, Quiet, Live, Owns
  <2>2. QED
    BY <2>1, QuietStep
<1>3. ASSUME NEW w \in Workers,
             \/ Leave(w) \/ ClaimStale(w) \/ ReadNew(w) \/ Unreachable(w) \/ Restart(w)
      PROVE Main'
  <2>1. pc[w] \notin Owning
    BY <1>3 DEF Leave, ClaimStale, ReadNew, Unreachable, Restart, Owning
  <2>2. pc'[w] \notin Handling /\ Elsewhere(w)
    <3>1. CASE Leave(w)
      BY <3>1, TerminateEffect DEF Leave, Handling, Owning
    <3>2. CASE \/ ClaimStale(w) \/ ReadNew(w) \/ Unreachable(w) \/ Restart(w)
      <4>1. pc'[w] \notin Handling
        BY <3>2 DEF ClaimStale, ReadNew, Unreachable, Restart, Handling, Owning, TypeOK
      <4>2. Elsewhere(w)
        BY <3>2 DEF ClaimStale, ReadNew, Unreachable, Restart, Elsewhere, TypeOK
      <4>3. QED
        BY <4>1, <4>2
    <3>3. QED
      BY <1>3, <3>1, <3>2
  <2>3. /\ UNCHANGED <<claimed, done, bypassed, dlq>>
        /\ endangered \subseteq endangered'
    BY <1>3 DEF Leave, ClaimStale, ReadNew, Unreachable, Restart
  <2>4. \A e \in Entries : /\ Live(e) => Live(e)'
                           /\ place[e] = "unsent" => place'[e] = "unsent"
    <3>1. CASE place' = place
      BY <3>1 DEF Live
    <3>2. CASE ReadNew(w)
      <4> DEFINE taken == FirstK({e \in Entries : place[e] = "queued"}, BatchSize)
      <4>1. /\ \A e \in taken : place[e] = "queued"
            /\ place' = [e \in Entries |-> IF e \in taken THEN "pending" ELSE place[e]]
        BY <3>2, FirstKSubset DEF ReadNew
      <4> HIDE DEF taken
      <4>2. QED
        BY <4>1 DEF Live
    <3>3. QED
      BY <1>3, <3>1, <3>2 DEF Leave, ClaimStale, Unreachable, Restart
  <2>5. Quiet
    BY <2>1, <2>2, <2>3, <2>4, QuietWorker
  <2>6. QED
    BY <2>5, QuietStep
<1>4. ASSUME NEW w \in Workers, DeliveryCounts(w) PROVE Main'
  <2>1. /\ UNCHANGED <<claimed, done, bypassed, endangered, place>>
        /\ \A e \in Entries : dlq[e] > 0 => dlq'[e] > 0
    <3>1. \A e \in Entries : dlq'[e] \in {dlq[e], Bump(dlq[e], HistoryCap)}
      BY <1>4 DEF DeliveryCounts
    <3>2. \A e \in Entries : dlq[e] \in 0..HistoryCap
      BY DEF TypeOK
    <3>3. QED
      BY <1>4, <3>1, <3>2, BumpHistory DEF DeliveryCounts
  <2>2. Quiet
    BY <1>4, <2>1, DeliveryCountsEffect, QuietWorker DEF Live, Handling, Owning
  <2>3. QED
    BY <2>2, QuietStep
<1>5. ASSUME NEW w \in Workers, NEW e \in Entries, SkipGarbled(w, e) PROVE Main'
  <2>1. /\ UNCHANGED <<claimed, done, bypassed, endangered, place>>
        /\ \A f \in Entries : dlq[f] > 0 => dlq'[f] > 0
    <3>1. /\ UNCHANGED <<claimed, done, bypassed, endangered, place>>
          /\ dlq' = [dlq EXCEPT ![e] = Bump(@, HistoryCap)]
      BY <1>5 DEF SkipGarbled
    <3>2. dlq \in [Entries -> 0..HistoryCap]
      BY DEF TypeOK
    <3>3. QED
      BY <3>1, <3>2, BumpHistory
  <2>2. Quiet
    BY <1>5, <2>1, SkipGarbledEffect, QuietWorker DEF Live, Handling, Owning
  <2>3. QED
    BY <2>2, QuietStep
<1>6. ASSUME NEW w \in Workers, NEW e \in Entries, ParkInvalid(w, e) \/ ParkPoison(w, e)
      PROVE Main'
  <2>1. UNCHANGED <<claimed, done, bypassed, endangered, place, dlq>> /\ Begin(w, e, "park")
    BY <1>6 DEF ParkInvalid, ParkPoison
  <2>2. Quiet
    BY <2>1, BeginEffect, QuietWorker DEF Live, Handling, Owning
  <2>3. QED
    BY <2>2, QuietStep
<1>7. ASSUME NEW w \in Workers, Fail(w) PROVE Main'
  <2>1. /\ UNCHANGED <<claimed, done, bypassed, endangered, place, dlq, cur>>
        /\ pc[w] \in Owning /\ pc'[w] \in Owning
        /\ \A v \in Workers \ {w} : pc'[v] = pc[v]
    BY <1>7 DEF Fail, Owning, TypeOK
  <2>2. \A v \in Workers, ev \in Events : Owns(v, ev)' <=> Owns(v, ev)
    BY <2>1 DEF Owns
  <2>3. \A v \in Workers : pc'[v] = "ack" => pc[v] = "ack" /\ cur'[v] = cur[v]
    BY <2>1 DEF Owning
  <2>4. Quiet
    BY <2>1, <2>2, <2>3 DEF Quiet, Live
  <2>5. QED
    BY <2>4, QuietStep
<1>8. CASE UNCHANGED vars \/ \E w \in Workers : Stop(w)
  <2>1. Quiet
    BY <1>8 DEF Stop, vars, Quiet, Live, Owns
  <2>2. QED
    BY <2>1, QuietStep
<1>9. ASSUME NEW x \in Events, Expire(x) PROVE Main'
  <2>1. /\ claimed' = claimed \ {x} /\ bypassed' = bypassed \cup {x}
        /\ UNCHANGED <<done, dlq, place, endangered, pc, cur>>
    BY <1>9 DEF Expire
  <2>2. \A ev \in Events : /\ Processed(ev)' <=> Processed(ev)
                           /\ Parked(ev)' <=> Parked(ev)
                           /\ Published(ev)' <=> Published(ev)
                           /\ \A w \in Workers : Owns(w, ev)' <=> Owns(w, ev)
    BY <2>1 DEF Processed, Parked, Published, Copies, Owns
  <2>3. OneOwner' /\ KeyKept' /\ AtMostOnce'
    BY <2>1, <2>2 DEF Main, OneOwner, KeyKept, AtMostOnce, Copies
  <2>4. ClaimAccounted'
    BY <2>1, <2>2 DEF Main, ClaimAccounted, TypeOK
  <2>5. CopyRemains'
    BY <2>1, <2>2 DEF Main, CopyRemains, Copies, Live
  <2>6. QED
    BY <2>3, <2>4, <2>5 DEF Main
<1>10. ASSUME NEW w \in Workers, NEW e \in Entries, Claim(w, e) \/ ClaimUnguarded(w, e)
       PROVE Main'
  <2> DEFINE x == Body[e]
  <2>1. /\ Begin(w, e, "dispatch") /\ x \in Events
        /\ UNCHANGED <<done, dlq, place, endangered>>
        /\ \/ x \notin claimed /\ claimed' = claimed \cup {x} /\ bypassed' = bypassed
           \/ claimed' = claimed /\ bypassed' = bypassed \cup {x}
    BY <1>10 DEF Claim, ClaimUnguarded
  <2>2. /\ pc[w] = "handle" /\ pc'[w] = "dispatch" /\ cur'[w] = e
        /\ \A v \in Workers \ {w} : pc'[v] = pc[v] /\ cur'[v] = cur[v]
    BY <2>1, BeginEffect DEF Elsewhere
  <2>3. \A ev \in Events : /\ Processed(ev)' <=> Processed(ev)
                           /\ Parked(ev)' <=> Parked(ev)
                           /\ Published(ev)' <=> Published(ev)
    BY <2>1 DEF Processed, Parked, Published, Copies
  <2>4. \A v \in Workers, ev \in Events :
          Owns(v, ev)' <=> Owns(v, ev) \/ (v = w /\ ev = x)
    BY <2>2 DEF Owns, Owning
  <2> HIDE DEF x
  <2>5. OneOwner'
    BY <2>1, <2>3, <2>4 DEF Main, OneOwner, KeyKept
  <2>6. KeyKept' /\ AtMostOnce'
    BY <2>1, <2>3 DEF Main, KeyKept, AtMostOnce, Copies
  <2>7. ClaimAccounted'
    BY SMTT(30), <2>1, <2>3, <2>4 DEF Main, ClaimAccounted, TypeOK
  <2>8. CopyRemains'
    <3>1. \A v \in Workers : pc'[v] = "ack" => pc[v] = "ack" /\ cur'[v] = cur[v]
      BY <2>2
    <3>2. QED
      BY <2>1, <2>3, <3>1 DEF Main, CopyRemains, Copies, Live
  <2>9. QED
    BY <2>5, <2>6, <2>7, <2>8 DEF Main
<1>11. ASSUME NEW w \in Workers, NEW e \in Entries, SkipDuplicate(w, e) PROVE Main'
  <2> DEFINE x == Body[e]
  <2>1. /\ Begin(w, e, "ack") /\ x \in claimed
        /\ UNCHANGED <<claimed, done, dlq, place, bypassed, endangered>>
    BY <1>11 DEF SkipDuplicate
  <2>2. /\ pc[w] = "handle" /\ pc'[w] = "ack" /\ cur'[w] = e /\ Held(w, e)
        /\ \A v \in Workers \ {w} : pc'[v] = pc[v] /\ cur'[v] = cur[v]
    BY <2>1, BeginEffect DEF Elsewhere, Held
  <2>3. \A ev \in Events : /\ Processed(ev)' <=> Processed(ev)
                           /\ Parked(ev)' <=> Parked(ev)
                           /\ Published(ev)' <=> Published(ev)
                           /\ \A v \in Workers : Owns(v, ev)' <=> Owns(v, ev)
    BY <2>1, <2>2 DEF Processed, Parked, Published, Copies, Owns, Owning
  <2>4. OneOwner' /\ KeyKept' /\ AtMostOnce'
    BY <2>1, <2>3 DEF Main, OneOwner, KeyKept, AtMostOnce, Copies
  <2>5. ClaimAccounted'
    BY <2>1, <2>3 DEF Main, ClaimAccounted, TypeOK
  <2>6. CopyRemains'
    <3> SUFFICES ASSUME NEW ev \in Events \ endangered, Published(ev),
                        ~Processed(ev), ~Parked(ev)
                 PROVE \E f \in Copies(ev) :
                         Live(f) /\ \A v \in Workers : ~(pc'[v] = "ack" /\ cur'[v] = f)
      BY <2>1, <2>3 DEF CopyRemains, Copies, Live
    <3>1. CASE x # ev
      <4>1. e \notin Copies(ev)
        BY <3>1 DEF Copies
      <4>2. QED
        BY <2>2, <4>1 DEF Main, CopyRemains
    <3>2. CASE x = ev
      (* The key has an owner, and it owns it for another entry. *)
      <4>1. PICK v \in Workers : Owns(v, ev)
        BY <2>1, <3>2 DEF Main, ClaimAccounted
      <4>2. PICK f \in Entries : f = cur[v]
        BY <4>1 DEF Owns, HandlingOK, Handling
      <4>3. f \in Copies(ev) /\ Held(v, f)
        BY <4>1, <4>2 DEF Owns, Copies, Held
      <4>4. Live(f) /\ \A u \in Workers : Held(u, f) => u = v
        BY <4>3 DEF HeldOnce, Live
      <4>5. v # w /\ pc[v] # "ack"
        BY <2>2, <4>1 DEF Owns, Owning
      <4>6. f # e
        BY <2>2, <4>4, <4>5
      <4>7. \A u \in Workers : ~(pc'[u] = "ack" /\ cur'[u] = f)
        BY <2>2, <4>4, <4>5, <4>6 DEF Held
      <4>8. QED
        BY <4>3, <4>4, <4>7
    <3>3. QED
      BY <3>1, <3>2
  <2>7. QED
    BY <2>4, <2>5, <2>6 DEF Main
<1>12. ASSUME NEW w \in Workers, Complete(w) PROVE Main'
  <2>1. PICK e \in Entries : e = cur[w] /\ Body[e] \in Events
    BY <1>12 DEF Complete, HandlingOK, Handling, Owning
  <2> DEFINE x == Body[e]
  <2>2. /\ pc[w] = "dispatch" /\ pc'[w] = "ack" /\ cur' = cur
        /\ \A v \in Workers \ {w} : pc'[v] = pc[v]
        /\ UNCHANGED <<claimed, dlq, place, bypassed, endangered>>
    BY <1>12 DEF Complete, TypeOK
  <2>3. /\ done' = [done EXCEPT ![e] = Bump(done[e], HistoryCap)]
        /\ done'[e] > 0 /\ (done[e] = 0 => done'[e] = 1)
        /\ \A f \in Entries \ {e} : done'[f] = done[f]
    <3>1. done' = [done EXCEPT ![e] = Bump(done[e], HistoryCap)]
      BY <1>12, <2>1 DEF Complete
    <3>2. done \in [Entries -> 0..HistoryCap]
      BY DEF TypeOK
    <3>3. QED
      BY <3>1, <3>2, BumpHistory
  <2>4. \A ev \in Events : /\ Processed(ev)' <=> Processed(ev) \/ ev = x
                           /\ Parked(ev)' <=> Parked(ev)
                           /\ Published(ev)' <=> Published(ev)
    BY <2>1, <2>2, <2>3 DEF Processed, Parked, Published, Copies
  <2>5. /\ Owns(w, x)
        /\ \A v \in Workers, ev \in Events : Owns(v, ev)' <=> Owns(v, ev) /\ v # w
    BY <2>1, <2>2 DEF Owns, Owning
  <2>6. OneOwner' /\ KeyKept'
    <3> HIDE DEF x
    <3>1. QED
      BY <2>2, <2>4, <2>5 DEF Main, OneOwner, KeyKept
  <2>7. AtMostOnce'
    <3> SUFFICES ASSUME NEW ev \in Events \ bypassed, NEW f \in Copies(ev),
                        NEW g \in Copies(ev), done'[f] > 0, done'[g] > 0
                 PROVE  f = g /\ done'[f] = 1
      BY <2>2 DEF AtMostOnce, Copies
    <3>1. CASE ev = x
      <4>1. \A h \in Copies(ev) : ~(done[h] > 0)
        BY <2>1, <2>5, <3>1 DEF Main, OneOwner, Processed
      <4>2. f = e /\ g = e
        BY <2>3, <4>1 DEF Copies
      <4>3. done[e] = 0
        BY <4>1, <4>2 DEF TypeOK
      <4>4. QED
        BY <2>3, <4>2, <4>3
    <3>2. CASE ev # x
      BY <2>3, <3>2 DEF Main, AtMostOnce, Copies
    <3>3. QED
      BY <3>1, <3>2
  <2>8. ClaimAccounted'
    <3>1. \A ev \in claimed : Owns(w, ev) => ev = x
      BY <2>1 DEF Owns
    <3> HIDE DEF x
    <3>2. QED
      BY <2>2, <2>4, <2>5, <3>1 DEF Main, ClaimAccounted, TypeOK
  <2>9. CopyRemains'
    <3>1. \A v \in Workers, ev \in Events : \A f \in Copies(ev) :
            ev # x /\ pc'[v] = "ack" /\ cur'[v] = f => pc[v] = "ack" /\ cur[v] = f
      BY <2>1, <2>2 DEF Copies
    <3>2. QED
      BY <2>2, <2>4, <3>1 DEF Main, CopyRemains, Copies, Live
  <2>10. QED
    BY <2>6, <2>7, <2>8, <2>9 DEF Main
<1>13. ASSUME NEW w \in Workers, Release(w) \/ Crash(w) PROVE Main'
  <2> DEFINE lost == IF pc[w] \in Owning THEN {Body[cur[w]]} ELSE {}
  <2>1. /\ UNCHANGED <<done, dlq, place, bypassed>>
        /\ \/ pc[w] \in Owning /\ claimed' = claimed \ lost /\ endangered' = endangered
           \/ claimed' = claimed /\ endangered' = endangered \cup lost
    BY <1>13 DEF Release, Crash, Owning
  <2>2. /\ pc'[w] \notin Handling
        /\ \A v \in Workers \ {w} : pc'[v] = pc[v] /\ cur'[v] = cur[v]
    BY <1>13, TerminateEffect, NextMessageEffect DEF Release, Crash, Elsewhere, Handling, Owning
  <2>3. \A ev \in Events : /\ Processed(ev)' <=> Processed(ev)
                           /\ Parked(ev)' <=> Parked(ev)
                           /\ Published(ev)' <=> Published(ev)
    BY <2>1 DEF Processed, Parked, Published, Copies
  <2>4. \A v \in Workers, ev \in Events : Owns(v, ev)' <=> Owns(v, ev) /\ v # w
    BY <2>2 DEF Owns, Handling
  <2>5. \A ev \in Events : Owns(w, ev) <=> ev \in lost
    BY DEF Owns
  <2> HIDE DEF lost
  <2>6. OneOwner'
    BY <2>1, <2>3, <2>4, <2>5 DEF Main, OneOwner
  <2>7. KeyKept'
    BY <2>1, <2>3, <2>5 DEF Main, OneOwner, KeyKept
  <2>8. AtMostOnce'
    BY <2>1 DEF Main, AtMostOnce, Copies
  <2>9. ClaimAccounted'
    BY <2>1, <2>3, <2>4, <2>5 DEF Main, ClaimAccounted, TypeOK
  <2>10. CopyRemains'
    <3>1. \A v \in Workers : pc'[v] = "ack" => pc[v] = "ack" /\ cur'[v] = cur[v]
      BY <2>2 DEF Handling
    <3>2. QED
      BY <2>1, <2>3, <3>1 DEF Main, CopyRemains, Copies, Live
  <2>11. QED
    BY <2>6, <2>7, <2>8, <2>9, <2>10 DEF Main
<1>14. ASSUME NEW w \in Workers, WriteDeadLetter(w) PROVE Main'
  <2>1. PICK e \in Entries : e = cur[w]
    BY <1>14 DEF WriteDeadLetter, HandlingOK, Handling, Owning
  <2> DEFINE x == Body[e]
  <2>2. /\ pc'[w] = "ack" /\ cur' = cur
        /\ \A v \in Workers \ {w} : pc'[v] = pc[v]
        /\ UNCHANGED <<claimed, done, place, bypassed>>
    BY <1>14 DEF WriteDeadLetter, TypeOK
  <2>3. /\ endangered \subseteq endangered'
        /\ \A f \in Entries : dlq[f] > 0 => dlq'[f] > 0
        /\ dlq'[e] > 0 \/ (x \in Events => x \in endangered')
    <3>1. \/ /\ dlq' = [dlq EXCEPT ![e] = Bump(@, HistoryCap)]
             /\ endangered' = endangered
          \/ dlq' = dlq /\ endangered' = endangered \cup EventIn(e)
      BY <1>14, <2>1 DEF WriteDeadLetter
    <3>2. \A f \in Entries : Bump(dlq[f], HistoryCap) > 0
      <4>1. \A f \in Entries : dlq[f] \in 0..HistoryCap
        BY DEF TypeOK
      <4>2. QED
        BY <4>1, BumpHistory
    <3>3. QED
      BY <3>1, <3>2 DEF TypeOK, EventIn
  <2>4. \A ev \in Events : /\ Processed(ev)' <=> Processed(ev)
                           /\ Parked(ev) => Parked(ev)'
                           /\ Published(ev)' <=> Published(ev)
    BY <2>2, <2>3 DEF Processed, Parked, Published, Copies
  <2>5. x \in Events => Parked(x)' \/ x \in endangered'
    BY <2>3 DEF Parked, Copies
  <2>6. \A v \in Workers, ev \in Events :
          /\ Owns(v, ev)' <=> Owns(v, ev) /\ v # w
          /\ Owns(w, ev) => ev = x
    BY <2>1, <2>2 DEF Owns, Owning
  <2>7. OneOwner' /\ KeyKept' /\ AtMostOnce'
    <3> HIDE DEF x
    <3>1. QED
      BY <2>2, <2>4, <2>6 DEF Main, OneOwner, KeyKept, AtMostOnce, Copies
  <2>8. ClaimAccounted'
    <3> HIDE DEF x
    <3>1. QED
      BY <2>2, <2>3, <2>4, <2>5, <2>6 DEF Main, ClaimAccounted, TypeOK
  <2>9. CopyRemains'
    <3>1. \A v \in Workers, ev \in Events : \A f \in Copies(ev) :
            ev # x /\ pc'[v] = "ack" /\ cur'[v] = f => pc[v] = "ack" /\ cur[v] = f
      BY <2>1, <2>2 DEF Copies
    <3> HIDE DEF x
    <3>2. QED
      BY <2>2, <2>3, <2>4, <2>5, <3>1 DEF Main, CopyRemains, Copies, Live
  <2>10. QED
    BY <2>7, <2>8, <2>9 DEF Main
<1>15. ASSUME NEW w \in Workers, Ack(w) PROVE Main'
  <2>1. PICK e \in Entries : e = cur[w]
    BY <1>15 DEF Ack, HandlingOK, Handling
  <2>2. /\ UNCHANGED <<claimed, done, dlq, bypassed, endangered>>
        /\ pc[w] = "ack" /\ NextMessage(w)
        /\ place' \in {place, [place EXCEPT ![e] = "gone"]}
    BY <1>15, <2>1 DEF Ack
  <2>3. /\ pc'[w] \notin Handling
        /\ \A v \in Workers \ {w} : pc'[v] = pc[v] /\ cur'[v] = cur[v]
    BY <2>2, NextMessageEffect DEF Elsewhere, Handling, Owning
  <2>4. \A f \in Entries \ {e} : place'[f] = place[f]
    BY <2>2 DEF TypeOK
  <2>5. /\ \A v \in Workers, ev \in Events : Owns(v, ev)' <=> Owns(v, ev)
        /\ \A ev \in Events : /\ Processed(ev)' <=> Processed(ev)
                              /\ Parked(ev)' <=> Parked(ev)
    BY <2>2, <2>3 DEF Owns, Owning, Handling, Processed, Parked, Copies
  <2>6. OneOwner' /\ KeyKept' /\ AtMostOnce'
    BY <2>2, <2>5 DEF Main, OneOwner, KeyKept, AtMostOnce, Copies
  <2>7. ClaimAccounted'
    BY <2>2, <2>5 DEF Main, ClaimAccounted, TypeOK
  <2>8. CopyRemains'
    <3> SUFFICES ASSUME NEW ev \in Events \ endangered, Published(ev)',
                        ~Processed(ev), ~Parked(ev)
                 PROVE \E f \in Copies(ev) :
                         Live(f)' /\ \A v \in Workers : ~(pc'[v] = "ack" /\ cur'[v] = f)
      BY <2>2, <2>5 DEF CopyRemains, Copies
    <3>1. Published(ev)
      (* The acked entry was pending: its own worker held it. *)
      <4>1. e \in Copies(ev) => place[e] = "pending"
        BY <2>1 DEF HeldOnce, Held, Copies
      <4>2. QED
        BY <2>4, <4>1 DEF Published, Copies
    <3>2. PICK f \in Copies(ev) :
            Live(f) /\ \A v \in Workers : ~(pc[v] = "ack" /\ cur[v] = f)
      BY <3>1 DEF Main, CopyRemains
    <3>3. f # e /\ f \in Entries
      BY <2>1, <2>2, <3>2 DEF Copies
    <3>4. Live(f)' /\ \A v \in Workers : ~(pc'[v] = "ack" /\ cur'[v] = f)
      BY <2>3, <2>4, <3>2, <3>3 DEF Live, Handling
    <3>5. QED
      BY <3>4
  <2>9. QED
    BY <2>6, <2>7, <2>8 DEF Main
<1>16. QED
  BY <1>1, <1>2, <1>3, <1>4, <1>5, <1>6, <1>7, <1>8, <1>9, <1>10, <1>11, <1>12,
     <1>13, <1>14, <1>15
  DEF Next, Step, Handle

-----------------------------------------------------------------------------
(* Who writes what, and what a worker may come to hold. *)

(* Which steps write the stream, the counts, the idle flags, the dead       *)
(* letters and the effects.                                                 *)
LEMMA Writers ==
  ASSUME [Next]_vars
  PROVE  /\ \/ place' = place
            \/ \E e \in Entries : Publish(e)
            \/ \E w \in Workers : ReadNew(w) \/ Ack(w)
         /\ delivered' = delivered \/ \E w \in Workers : ClaimStale(w) \/ ReadNew(w)
         /\ \/ idle' = idle
            \/ \E e \in Entries : Age(e)
            \/ \E w \in Workers : ClaimStale(w)
         /\ \/ dlq' = dlq
            \/ \E w \in Workers : \/ DeliveryCounts(w) \/ WriteDeadLetter(w)
                                  \/ \E e \in Entries : SkipGarbled(w, e)
         /\ done' = done \/ \E w \in Workers : Complete(w)
<1>1. \A e \in Entries : /\ Publish(e) => UNCHANGED <<delivered, idle, dlq, done>>
                         /\ Age(e) => UNCHANGED <<place, delivered, dlq, done>>
  BY DEF Publish, Age, ghostVars
<1>2. \A w \in Workers : /\ ClaimStale(w) => UNCHANGED <<place, dlq, done>>
                         /\ ReadNew(w) => UNCHANGED <<idle, dlq, done>>
                         /\ DeliveryCounts(w) => UNCHANGED <<place, delivered, idle, done>>
  BY DEF ClaimStale, ReadNew, DeliveryCounts
<1>3. \A w \in Workers : /\ Complete(w) => UNCHANGED <<place, delivered, idle, dlq>>
                         /\ WriteDeadLetter(w) => UNCHANGED <<place, delivered, idle, done>>
                         /\ Ack(w) => UNCHANGED <<delivered, idle, dlq, done>>
  BY DEF Complete, WriteDeadLetter, Ack, redisVars
<1>4. \A w \in Workers :
        \/ Leave(w) \/ Fail(w) \/ Release(w) \/ Restart(w) \/ Unreachable(w) \/ Stop(w)
        \/ Crash(w)
        => UNCHANGED <<place, delivered, idle, dlq, done>>
  BY DEF Leave, Fail, Release, Restart, Unreachable, Stop, Crash, redisVars, ghostVars
<1>5. \A w \in Workers, e \in Entries :
        \/ ParkInvalid(w, e) \/ ParkPoison(w, e) \/ Claim(w, e) \/ ClaimUnguarded(w, e)
        \/ SkipDuplicate(w, e)
        => UNCHANGED <<place, delivered, idle, dlq, done>>
  BY DEF ParkInvalid, ParkPoison, Claim, ClaimUnguarded, SkipDuplicate, redisVars, ghostVars
<1>6. \A w \in Workers, e \in Entries :
        SkipGarbled(w, e) => UNCHANGED <<place, delivered, idle, done>>
  BY DEF SkipGarbled, ghostVars
<1>7. \/ UNCHANGED vars
      \/ \E ev \in Events : Expire(ev)
      => UNCHANGED <<place, delivered, idle, dlq, done>>
  BY DEF Expire, vars, redisVars, ghostVars
<1>. QED
  BY <1>1, <1>2, <1>3, <1>4, <1>5, <1>6, <1>7 DEF Next, Step, Handle

(* Skipping undecodable entries parks no event. *)
LEMMA GarbledParksNone ==
  ASSUME TypeOK, NEW w \in Workers,
         DeliveryCounts(w) \/ \E e \in Entries : SkipGarbled(w, e),
         NEW ev \in Events
  PROVE  Parked(ev)' <=> Parked(ev)
<1>1. \A e \in Copies(ev) : dlq'[e] = dlq[e]
  <2>1. CASE DeliveryCounts(w)
    <3>. DEFINE broken == {e \in Batch(w) : Body[e] = Garbled}
    <3>1. dlq' = [e \in Entries |->
            IF e \in broken THEN Bump(dlq[e], HistoryCap) ELSE dlq[e]]
      BY <2>1 DEF DeliveryCounts
    <3>2. \A e \in Copies(ev) : e \in Entries /\ e \notin broken
      BY BodyAssumption DEF Copies
    <3>. HIDE DEF broken
    <3>. QED  BY <3>1, <3>2
  <2>2. ASSUME NEW e \in Entries, SkipGarbled(w, e) PROVE \A f \in Copies(ev) : dlq'[f] = dlq[f]
    BY <2>2, BodyAssumption DEF SkipGarbled, Copies, TypeOK
  <2>. QED  BY <2>1, <2>2
<1>. QED  BY <1>1 DEF Parked, Copies

(* The entries XAUTOCLAIM hands to worker w, and XREADGROUP to any. *)
Stale(w) == FirstK({e \in Pending : idle[e] /\ e >= cursor[w]}, BatchSize)
Fresh == FirstK({e \in Entries : place[e] = "queued"}, BatchSize)

(* A worker comes to hold an entry only by reading or reclaiming it. *)
LEMMA NewlyHeld ==
  ASSUME TypeOK, HandlingOK, [Next]_vars, NEW v \in Workers, NEW e \in Entries, Held(v, e)'
  PROVE  \/ Held(v, e)
         \/ ClaimStale(v) /\ e \in Stale(v)
         \/ ReadNew(v) /\ e \in Fresh
<1>. DEFINE Goal == \/ Held(v, e)
                    \/ ClaimStale(v) /\ e \in Stale(v)
                    \/ ReadNew(v) /\ e \in Fresh
<1>1. CASE UNCHANGED <<batch, cur>>
  BY <1>1 DEF Held
<1>2. ASSUME NEW w \in Workers, ClaimStale(w) PROVE Goal
  <2>1. /\ cur' = cur
        /\ batch' = [batch EXCEPT ![w] = Delivery(Stale(w))] \/ batch' = batch
    BY <1>2 DEF ClaimStale, Stale
  <2>. QED  BY <1>2, <2>1, ReadHold
<1>3. ASSUME NEW w \in Workers, ReadNew(w) PROVE Goal
  <2>1. /\ cur' = cur
        /\ batch' = [batch EXCEPT ![w] = Delivery(Fresh)] \/ batch' = batch
    BY <1>3 DEF ReadNew, Fresh
  <2>. QED  BY <1>3, <2>1, ReadHold
<1>4. ASSUME NEW w \in Workers,
             \/ Leave(w) \/ Crash(w) \/ DeliveryCounts(w) \/ Release(w) \/ Ack(w)
             \/ \E f \in Entries : SkipGarbled(w, f)
      PROVE Goal
  <2>1. Leave(w) \/ Crash(w) => Terminate(w)
    BY DEF Leave, Crash
  <2>2. Release(w) \/ Ack(w) => NextMessage(w)
    BY DEF Release, Ack
  <2>. QED
    BY <1>4, <2>1, <2>2, TerminateEffect, NextMessageEffect, DeliveryCountsEffect,
       SkipGarbledEffect, HoldFrame
<1>5. ASSUME NEW w \in Workers, NEW f \in Entries,
             \/ ParkInvalid(w, f) \/ ParkPoison(w, f) \/ SkipDuplicate(w, f)
             \/ Claim(w, f) \/ ClaimUnguarded(w, f)
      PROVE Goal
  <2>1. \E to \in PCs : Begin(w, f, to)
    BY <1>5 DEF ParkInvalid, ParkPoison, SkipDuplicate, Claim, ClaimUnguarded, PCs
  <2>. QED  BY <2>1, BeginEffect, HoldFrame
<1>6. \/ UNCHANGED <<batch, cur>>
      \/ \E w \in Workers :
           \/ ClaimStale(w) \/ ReadNew(w) \/ Leave(w) \/ Crash(w) \/ DeliveryCounts(w)
           \/ Release(w) \/ Ack(w)
           \/ \E f \in Entries :
                \/ SkipGarbled(w, f) \/ ParkInvalid(w, f) \/ ParkPoison(w, f)
                \/ SkipDuplicate(w, f) \/ Claim(w, f) \/ ClaimUnguarded(w, f)
  BY DEF Next, Step, Handle, vars, redisVars, workerVars, ghostVars, Publish, Age, Expire,
         Complete, Fail, WriteDeadLetter, Restart, Unreachable, Stop
<1>. QED  BY <1>1, <1>2, <1>3, <1>4, <1>5, <1>6

(* What a reclaim or a read takes was pending and idle, or queued. *)
LEMMA Taken ==
  /\ \A w : \A e \in Stale(w) : e \in Entries /\ place[e] = "pending" /\ idle[e]
  /\ \A e \in Fresh : e \in Entries /\ place[e] = "queued"
BY FirstKSubset DEF Stale, Fresh, Pending

(* The batch of worker v keeps its counts, entries dropped aside. *)
Shrunk(v) ==
  /\ \A e \in Entries : batch'[v][e] \in {0, batch[v][e]}
  /\ \/ \A e \in Entries : batch'[v][e] = 0
     \/ pc[v] = "counts" => pc'[v] = "counts"

(* A worker's batch only shrinks, until it reads, reclaims or counts. *)
LEMMA BatchMoves ==
  ASSUME TypeOK, HandlingOK, [Next]_vars, NEW v \in Workers
  PROVE  \/ Shrunk(v)
         \/ ClaimStale(v) /\ pc'[v] = "counts" /\ batch'[v] = Delivery(Stale(v))
         \/ ReadNew(v) /\ batch'[v] = Delivery(Fresh)
         \/ DeliveryCounts(v)
<1>. USE DEF redisVars, workerVars, ghostVars
<1>. DEFINE Goal == \/ Shrunk(v)
                    \/ ClaimStale(v) /\ pc'[v] = "counts" /\ batch'[v] = Delivery(Stale(v))
                    \/ ReadNew(v) /\ batch'[v] = Delivery(Fresh)
                    \/ DeliveryCounts(v)
<1>1. ASSUME batch'[v] = batch[v], pc'[v] = pc[v] \/ pc[v] # "counts" PROVE Shrunk(v)
  BY <1>1 DEF Shrunk
<1>2. ASSUME NEW w \in Workers, Terminate(w) PROVE Shrunk(v)
  BY <1>2, <1>1 DEF Terminate, Shrunk, TypeOK
<1>3. ASSUME NEW w \in Workers, NextMessage(w), pc[w] # "counts" PROVE Shrunk(v)
  <2>1. CASE stopping[w]
    BY <1>3, <2>1, <1>2 DEF NextMessage
  <2>2. CASE ~stopping[w]
    BY <1>3, <2>2, <1>1 DEF NextMessage, TypeOK
  <2>. QED  BY <2>1, <2>2
<1>4. ASSUME NEW w \in Workers, NEW e \in Entries, NEW to, Begin(w, e, to) PROVE Shrunk(v)
  <2>1. \A f \in Entries : batch'[v][f] \in {0, batch[v][f]}
    BY <1>4 DEF Begin, TypeOK
  <2>2. pc[v] = "counts" => pc'[v] = "counts"
    BY <1>4 DEF Begin, TypeOK
  <2>. QED  BY <2>1, <2>2 DEF Shrunk
<1>5. ASSUME NEW w \in Workers, NEW e \in Entries, SkipGarbled(w, e) PROVE Shrunk(v)
  <2>1. CASE stopping[w]
    BY <1>5, <2>1, <1>2 DEF SkipGarbled
  <2>2. CASE ~stopping[w]
    <3>1. /\ batch' = [batch EXCEPT ![w][e] = 0]
          /\ pc[w] = "handle" /\ \A u \in Workers \ {w} : pc'[u] = pc[u]
      BY <1>5, <2>2 DEF SkipGarbled, TypeOK
    <3>2. \A f \in Entries : batch'[v][f] \in {0, batch[v][f]}
      BY <3>1 DEF TypeOK
    <3>. QED  BY <3>1, <3>2 DEF Shrunk
  <2>. QED  BY <2>1, <2>2
<1>6. ASSUME NEW w \in Workers, ClaimStale(w) PROVE Goal
  <2>1. CASE w # v
    BY <1>6, <2>1, <1>1 DEF ClaimStale, TypeOK
  <2>2. CASE w = v /\ batch' = batch
    BY <1>6, <2>2, <1>1 DEF ClaimStale
  <2>3. CASE w = v /\ batch' # batch
    <3>1. /\ batch' = [batch EXCEPT ![v] = Delivery(Stale(v))]
          /\ pc' = [pc EXCEPT ![v] = IF Stale(v) = {} THEN "read" ELSE "counts"]
      BY <1>6, <2>3 DEF ClaimStale, Stale
    <3>2. batch'[v] = Delivery(Stale(v))
      BY <3>1 DEF TypeOK
    <3>3. CASE Stale(v) = {}
      BY <3>2, <3>3 DEF Delivery, Shrunk
    <3>4. CASE Stale(v) # {}
      BY <1>6, <2>3, <3>1, <3>2, <3>4 DEF TypeOK
    <3>. QED  BY <3>3, <3>4
  <2>. QED  BY <2>1, <2>2, <2>3
<1>7. ASSUME NEW w \in Workers, ReadNew(w) PROVE Goal
  <2>1. CASE w # v
    BY <1>7, <2>1, <1>1 DEF ReadNew, TypeOK
  <2>2. CASE w = v /\ batch' = batch
    BY <1>7, <2>2, <1>1 DEF ReadNew
  <2>3. CASE w = v /\ batch' # batch
    BY <1>7, <2>3 DEF ReadNew, Fresh, TypeOK
  <2>. QED  BY <2>1, <2>2, <2>3
<1>8. ASSUME NEW w \in Workers, DeliveryCounts(w) PROVE Goal
  <2>1. CASE w # v
    BY <1>8, <2>1, <1>1, DeliveryCountsEffect DEF Elsewhere
  <2>. QED  BY <1>8, <2>1
<1>9. CASE \/ \E e \in Entries : Publish(e) \/ Age(e)
           \/ \E ev \in Events : Expire(ev)
           \/ \E w \in Workers : Stop(w)
           \/ UNCHANGED vars
  <2>1. batch' = batch /\ pc' = pc
    BY <1>9 DEF Publish, Age, Expire, Stop, vars
  <2>. QED  BY <2>1, <1>1
<1>10. ASSUME NEW w \in Workers,
              \/ Complete(w) \/ Fail(w) \/ WriteDeadLetter(w) \/ Restart(w) \/ Unreachable(w)
       PROVE  Shrunk(v)
  <2>1. batch' = batch /\ pc[w] # "counts" /\ \A u \in Workers \ {w} : pc'[u] = pc[u]
    BY <1>10 DEF Complete, Fail, WriteDeadLetter, Restart, Unreachable, TypeOK
  <2>. QED  BY <2>1, <1>1
<1>11. ASSUME NEW w \in Workers, Leave(w) \/ Crash(w) \/ Release(w) \/ Ack(w) PROVE Shrunk(v)
  <2>1. Leave(w) \/ Crash(w) => Terminate(w)
    BY DEF Leave, Crash
  <2>2. Release(w) \/ Ack(w) => NextMessage(w) /\ pc[w] # "counts"
    BY DEF Release, Ack
  <2>. QED  BY <1>11, <2>1, <2>2, <1>2, <1>3
<1>12. ASSUME NEW w \in Workers, NEW e \in Entries,
              \/ ParkInvalid(w, e) \/ ParkPoison(w, e) \/ SkipDuplicate(w, e)
              \/ Claim(w, e) \/ ClaimUnguarded(w, e)
       PROVE  Shrunk(v)
  <2>1. \E to \in PCs : Begin(w, e, to)
    BY <1>12 DEF ParkInvalid, ParkPoison, SkipDuplicate, Claim, ClaimUnguarded, PCs
  <2>. QED  BY <2>1, <1>4
<1>. QED
  BY <1>5, <1>6, <1>7, <1>8, <1>9, <1>10, <1>11, <1>12 DEF Next, Step, Handle

-----------------------------------------------------------------------------
(* HeldRead, CountsBacked and CutoffNotEarly. *)

(* An entry that was read is never put back, and its count never falls. *)
LEMMA ReadStays ==
  ASSUME TypeOK, [Next]_vars, NEW e \in Entries, place[e] \in {"pending", "gone"}
  PROVE  place'[e] \in {"pending", "gone"} /\ delivered[e] <= delivered'[e]
<1>1. \A f \in Entries : Publish(f) => place'[e] = place[e]
  BY DEF Publish, TypeOK
<1>2. \A w \in Workers : ReadNew(w) => place'[e] = place[e] /\ delivered'[e] = delivered[e]
  BY Taken DEF ReadNew, Fresh
<1>3. \A w \in Workers : Ack(w) => place'[e] \in {place[e], "gone"}
  BY DEF Ack, TypeOK
<1>4. \A w \in Workers : ClaimStale(w) => delivered[e] <= delivered'[e]
  <2>1. delivered[e] <= Bump(delivered[e], DeliveryCap) /\ delivered[e] <= delivered[e]
    BY DEF Bump, TypeOK, DeliveryCap
  <2>. QED  BY <2>1 DEF ClaimStale
<1>5. delivered[e] <= delivered[e]
  BY DEF TypeOK, DeliveryCap
<1>. QED  BY <1>1, <1>2, <1>3, <1>4, <1>5, Writers

(* Every step keeps what is held read. *)
LEMMA HeldReadStep ==
  ASSUME TypeOK, HandlingOK, HeldRead, [Next]_vars
  PROVE  HeldRead'
<1>. SUFFICES ASSUME NEW w \in Workers, NEW e \in Entries, Held(w, e)'
              PROVE  place'[e] \in {"pending", "gone"}
  BY DEF HeldRead
<1>1. CASE Held(w, e)
  BY <1>1, ReadStays DEF HeldRead
<1>2. CASE ClaimStale(w) /\ e \in Stale(w)
  BY <1>2, Taken, ReadStays
<1>3. CASE ReadNew(w) /\ e \in Fresh
  BY <1>3 DEF ReadNew, Fresh
<1>. QED  BY <1>1, <1>2, <1>3, NewlyHeld

(* A count taken from XPENDING, or guessed, is no higher than the pending   *)
(* list's, which only grows while a worker goes through its batch.          *)
LEMMA CountsBackedStep ==
  ASSUME TypeOK, TypeOK', HandlingOK, HeldRead, CountsBacked, [Next]_vars
  PROVE  CountsBacked'
<1>. SUFFICES ASSUME NEW w \in Workers, NEW e \in Entries
              PROVE  batch'[w][e] <= delivered'[e]
  BY DEF CountsBacked
<1>1. /\ batch[w][e] \in Nat /\ batch'[w][e] \in Nat
      /\ delivered[e] \in Nat /\ delivered'[e] \in Nat
      /\ batch[w][e] <= delivered[e]
  BY DEF TypeOK, DeliveryCap, CountsBacked
<1>2. batch[w][e] > 0 => delivered[e] <= delivered'[e]
  BY ReadStays DEF HeldRead, Held
<1>3. CASE Shrunk(w)
  BY <1>1, <1>2, <1>3 DEF Shrunk
<1>4. CASE ClaimStale(w) /\ batch'[w] = Delivery(Stale(w))
  <2>1. e \in Stale(w) => delivered'[e] > 0
    <3>1. Bump(delivered[e], DeliveryCap) > 0
      BY BumpType DEF TypeOK, DeliveryCap
    <3>. QED  BY <1>4, <3>1 DEF ClaimStale, Stale
  <2>2. batch'[w][e] = IF e \in Stale(w) THEN 1 ELSE 0
    BY <1>4, Zenon DEF Delivery
  <2>. QED  BY <1>1, <2>1, <2>2
<1>5. CASE ReadNew(w) /\ batch'[w] = Delivery(Fresh)
  <2>1. e \in Fresh => delivered'[e] = 1
    BY <1>5 DEF ReadNew, Fresh
  <2>2. batch'[w][e] = IF e \in Fresh THEN 1 ELSE 0
    BY <1>5, Zenon DEF Delivery
  <2>. QED  BY <1>1, <2>1, <2>2
<1>6. CASE DeliveryCounts(w)
  <2>1. delivered' = delivered /\ batch'[w][e] \in {0, 1, delivered[e]}
    <3>. DEFINE broken == {f \in Batch(w) : Body[f] = Garbled}
                counted == [f \in Entries |->
                              IF f \notin Batch(w) \ broken THEN 0
                              ELSE IF f \in Listed(Batch(w)) THEN delivered[f] ELSE 1]
    <3>1. /\ delivered' = delivered
          /\ \/ batch' = [batch EXCEPT ![w] = counted]
             \/ batch' = [batch EXCEPT ![w] = Delivery(Batch(w) \ broken)]
      BY <1>6 DEF DeliveryCounts
    <3>2. counted[e] \in {0, 1, delivered[e]}
      OBVIOUS
    <3>3. Delivery(Batch(w) \ broken)[e] \in {0, 1}
      BY DEF Delivery
    <3>. HIDE DEF broken, counted
    <3>. QED  BY <3>1, <3>2, <3>3 DEF TypeOK
  <2>2. batch'[w][e] > 0 => delivered[e] > 0
    BY <1>1, <1>6, DeliveryCountsEffect
  <2>. QED  BY <1>1, <2>1, <2>2
<1>. QED  BY <1>3, <1>4, <1>5, <1>6, BatchMoves

(* A worker comes to dispatch or to park an entry by starting to handle it. *)
LEMMA Arrival ==
  ASSUME TypeOK, HandlingOK, [Next]_vars, NEW w \in Workers, pc'[w] \in {"dispatch", "park"}
  PROVE  \/ pc[w] = pc'[w] /\ cur'[w] = cur[w]
         \/ \E e \in Entries : \/ Claim(w, e) \/ ClaimUnguarded(w, e)
                               \/ ParkInvalid(w, e) \/ ParkPoison(w, e)
<1>. USE DEF redisVars, workerVars, ghostVars
<1>. DEFINE Goal == \/ pc[w] = pc'[w] /\ cur'[w] = cur[w]
                    \/ \E e \in Entries : \/ Claim(w, e) \/ ClaimUnguarded(w, e)
                                          \/ ParkInvalid(w, e) \/ ParkPoison(w, e)
<1>1. ASSUME NEW v \in Workers, Elsewhere(v), pc'[v] \notin {"dispatch", "park"} PROVE Goal
  BY <1>1 DEF Elsewhere
<1>2. ASSUME NEW v \in Workers, NextMessage(v) \/ Terminate(v) PROVE Goal
  BY <1>1, <1>2, NextMessageEffect, TerminateEffect
<1>3. ASSUME NEW v \in Workers,
             \/ Leave(v) \/ Crash(v) \/ Release(v) \/ Ack(v)
             \/ \E e \in Entries : SkipGarbled(v, e)
      PROVE  Goal
  BY <1>1, <1>2, <1>3, SkipGarbledEffect DEF Leave, Crash, Release, Ack
<1>4. ASSUME NEW v \in Workers, NEW e \in Entries, SkipDuplicate(v, e) PROVE Goal
  BY <1>1, <1>4, BeginEffect DEF SkipDuplicate
<1>5. ASSUME NEW v \in Workers, NEW e \in Entries,
             Claim(v, e) \/ ClaimUnguarded(v, e) \/ ParkInvalid(v, e) \/ ParkPoison(v, e)
      PROVE  Goal
  <2>1. Elsewhere(v)
    BY <1>5, BeginEffect DEF Claim, ClaimUnguarded, ParkInvalid, ParkPoison
  <2>. QED  BY <1>5, <2>1 DEF Elsewhere
<1>6. ASSUME NEW v \in Workers,
             \/ ClaimStale(v) \/ DeliveryCounts(v) \/ ReadNew(v) \/ Unreachable(v)
             \/ Complete(v) \/ Fail(v) \/ WriteDeadLetter(v) \/ Restart(v)
      PROVE  Goal
  <2>1. cur' = cur /\ \E to \in PCs \ {"dispatch", "park"} : pc' = [pc EXCEPT ![v] = to]
    BY <1>6 DEF ClaimStale, DeliveryCounts, ReadNew, Unreachable, Complete, Fail,
                WriteDeadLetter, Restart, PCs
  <2>. QED  BY <2>1 DEF TypeOK
<1>7. CASE \/ \E e \in Entries : Publish(e) \/ Age(e)
           \/ \E ev \in Events : Expire(ev)
           \/ \E v \in Workers : Stop(v)
           \/ UNCHANGED vars
  BY <1>7 DEF Publish, Age, Expire, Stop, vars
<1>. QED
  BY <1>2, <1>3, <1>4, <1>5, <1>6, <1>7 DEF Next, Step, Handle

(* An event is parked as poison on a count that the pending list backs. *)
LEMMA CutoffStep ==
  ASSUME TypeOK, TypeOK', HandlingOK, HeldRead, CountsBacked, CutoffNotEarly, [Next]_vars
  PROVE  CutoffNotEarly'
<1>. SUFFICES ASSUME NEW w \in Workers, pc'[w] = "park", Body[cur'[w]] \in Events
              PROVE  delivered'[cur'[w]] > MaxDeliveries
  BY DEF CutoffNotEarly
<1>1. CASE pc[w] = "park" /\ cur'[w] = cur[w]
  <2>1. cur[w] \in Entries /\ Held(w, cur[w])
    BY <1>1 DEF HandlingOK, Handling, Held
  <2>2. delivered[cur[w]] > MaxDeliveries
    BY <1>1 DEF CutoffNotEarly
  <2>3. delivered[cur[w]] <= delivered'[cur[w]]
    BY <2>1, ReadStays DEF HeldRead
  <2>. QED  BY <1>1, <2>1, <2>2, <2>3 DEF TypeOK, DeliveryCap
<1>2. ASSUME NEW e \in Entries, ParkPoison(w, e) PROVE delivered'[cur'[w]] > MaxDeliveries
  <2>1. cur'[w] = e /\ delivered' = delivered
    BY <1>2, BeginEffect DEF ParkPoison, redisVars
  <2>2. batch[w][e] \in Nat /\ delivered[e] \in Nat /\ batch[w][e] <= delivered[e]
    BY DEF TypeOK, DeliveryCap, CountsBacked
  <2>3. ~(batch[w][e] <= MaxDeliveries)
    BY <1>2 DEF ParkPoison, Admitted
  <2>. QED  BY <2>1, <2>2, <2>3
<1>3. ASSUME NEW e \in Entries, ParkInvalid(w, e) PROVE FALSE
  <2>1. cur'[w] = e /\ Body[e] = Invalid
    BY <1>3, BeginEffect DEF ParkInvalid
  <2>. QED  BY <2>1, BodyAssumption
<1>4. \A e \in Entries : Claim(w, e) \/ ClaimUnguarded(w, e) => pc'[w] = "dispatch"
  BY BeginEffect DEF Claim, ClaimUnguarded
<1>. QED  BY <1>1, <1>2, <1>3, <1>4, Arrival

-----------------------------------------------------------------------------
(* The safety of the fleet. *)

(* SafetyInv is an inductive invariant of every fleet. *)
THEOREM Safety == Spec => []SafetyInv
<1>1. Init => SafetyInv
  <2> SUFFICES ASSUME Init PROVE SafetyInv
    OBVIOUS
  <2>1. TypeOK /\ HandlingOK
    BY DEF Init, TypeOK, PCs, DeliveryCap, HistoryCap, HandlingOK, Handling, Owning, Entries
  <2>2. \A ev \in Events : ~Processed(ev) /\ ~Published(ev)
    BY DEF Init, Processed, Published, Copies
  <2>3. \A w \in Workers : /\ \A ev \in Events : ~Owns(w, ev)
                          /\ \A e \in Entries : ~Held(w, e)
    BY DEF Init, Owns, Owning, Held, Entries
  <2>4. AtMostOnce
    BY DEF Init, AtMostOnce, Copies
  <2>5. OneOwner /\ KeyKept /\ CopyRemains
    BY <2>2, <2>3 DEF OneOwner, KeyKept, CopyRemains
  <2>6. HeldOnce /\ ClaimAccounted
    BY <2>3 DEF Init, HeldOnce, ClaimAccounted, Copies
  <2>7. HeldRead /\ CountsBacked /\ CutoffNotEarly
    BY <2>3 DEF Init, HeldRead, CountsBacked, CutoffNotEarly
  <2>8. QED
    BY <2>1, <2>4, <2>5, <2>6, <2>7 DEF SafetyInv
<1>2. SafetyInv /\ [Next]_vars => SafetyInv'
  BY TypeStep, HandlingStep, HeldStep, MainStep, HeldReadStep, CountsBackedStep, CutoffStep
     DEF SafetyInv, Main
<1>3. QED
  BY <1>1, <1>2, PTL DEF Spec

(* A key in Redis always stands for an event that somebody is dispatching,  *)
(* that is settled, or that lost its owner in a recorded way.               *)
THEOREM ClaimsAccounted == Spec => []ClaimAccounted
<1>1. SafetyInv => ClaimAccounted
  BY DEF SafetyInv
<1>2. QED
  BY <1>1, Safety, PTL

(* While the guard works, an event is never dispatched by two workers at a   *)
(* time, nor once it is completed, whatever is duplicated, reclaimed,        *)
(* redelivered or restarted.                                                *)
THEOREM OwnersExclude == Spec => []OneOwner
<1>1. SafetyInv => OneOwner
  BY DEF SafetyInv
<1>2. QED
  BY <1>1, Safety, PTL

(* So it takes effect at most once. *)
THEOREM EffectsAtMostOnce == Spec => []AtMostOnce
<1>1. SafetyInv => AtMostOnce
  BY DEF SafetyInv
<1>2. QED
  BY <1>1, Safety, PTL

(* No event disappears except in the ways `endangered` records. *)
THEOREM LossesExplained == Spec => []LossExplained
<1>1. SafetyInv => LossExplained
  BY DEF SafetyInv, LossExplained, CopyRemains, Open
<1>2. QED
  BY <1>1, Safety, PTL

(* The poison cutoff never comes early: an event that parses is parked for   *)
(* its deliveries only when there were more than max_deliveries of them.    *)
THEOREM CutoffIsNotEarly == Spec => []CutoffNotEarly
<1>1. SafetyInv => CutoffNotEarly
  BY DEF SafetyInv
<1>2. QED
  BY <1>1, Safety, PTL

(* The fault kinds that put an event at risk. *)
RiskyFaults == {"crash", "slow", "release", "dlq"}

(* No event is endangered, because nothing that XAUTOCLAIM may take is in   *)
(* the hands of a worker.                                                   *)
Calm ==
  /\ endangered = {}
  /\ \A e \in Entries : place[e] \in {"unsent", "queued"} => ~idle[e]
  /\ \A w \in Workers, e \in Entries : Held(w, e) => ~idle[e]

(* A step that leaves the idle flags alone, and gives no worker an entry it *)
(* did not hold, keeps the fleet calm.                                      *)
LEMMA CalmFrame ==
  ASSUME Calm, idle' = idle, endangered' = endangered,
         \A e \in Entries :
           place'[e] \in {"unsent", "queued"} => place[e] \in {"unsent", "queued"},
         \A w \in Workers, e \in Entries : Held(w, e)' => Held(w, e)
  PROVE  Calm'
BY DEF Calm

(* Only the four risky faults disturb a calm fleet. *)
LEMMA CalmStep ==
  ASSUME TypeOK, HandlingOK, Calm, [Next]_vars, FaultKinds \cap RiskyFaults = {}
  PROVE  Calm'
<1> USE DEF redisVars, workerVars, ghostVars
<1>1. \A kind \in RiskyFaults : ~Fault(kind)
  BY DEF Fault
<1>2. ASSUME NEW e \in Entries, Publish(e) PROVE Calm'
  <2>1. /\ UNCHANGED <<idle, endangered, batch, cur>>
        /\ place[e] = "unsent" /\ place' = [place EXCEPT ![e] = "queued"]
    BY <1>2 DEF Publish
  <2>2. \A f \in Entries :
          place'[f] \in {"unsent", "queued"} => place[f] \in {"unsent", "queued"}
    BY <2>1 DEF TypeOK
  <2>3. QED
    BY <2>1, <2>2, CalmFrame DEF Held
<1>3. ASSUME NEW e \in Entries, Age(e) PROVE Calm'
  <2>1. /\ UNCHANGED <<place, endangered, batch, cur>>
        /\ place[e] = "pending" /\ idle' = [idle EXCEPT ![e] = TRUE]
        /\ \A w \in Workers : ~Held(w, e)
    BY <1>3, <1>1 DEF Age, RiskyFaults
  <2>2. QED
    BY <2>1 DEF Calm, Held, TypeOK
<1>4. ASSUME NEW w \in Workers, ClaimStale(w) PROVE Calm'
  <2> DEFINE taken == FirstK({e \in Pending : idle[e] /\ e >= cursor[w]}, BatchSize)
             stolen == {f \in taken : \E v \in Workers : Held(v, f)}
  <2>1. \A e \in taken : e \in Entries /\ idle[e]
    BY FirstKSubset DEF Pending
  <2>2. stolen = {}
    BY <2>1 DEF Calm
  <2>3. endangered' = endangered \cup UNION {EventIn(e) : e \in stolen}
    BY <1>4 DEF ClaimStale
  <2>4. endangered' = {}
    <3> HIDE DEF stolen
    <3>1. QED
      BY <2>2, <2>3 DEF Calm
  <2>5. /\ place' = place /\ cur' = cur
        /\ idle' = [e \in Entries |-> idle[e] /\ e \notin taken]
        /\ \/ batch' = [batch EXCEPT ![w] = Delivery(taken)]
           \/ batch' = batch
    BY <1>4 DEF ClaimStale
  <2> HIDE DEF taken, stolen
  <2>6. ASSUME NEW v \in Workers, NEW e \in Entries, Held(v, e)'
        PROVE  Held(v, e) \/ (v = w /\ e \in taken)
    BY <2>5, <2>6, ReadHold
  <2>7. QED
    BY <2>4, <2>5, <2>6 DEF Calm
<1>5. ASSUME NEW w \in Workers, ReadNew(w) PROVE Calm'
  <2> DEFINE taken == FirstK({e \in Entries : place[e] = "queued"}, BatchSize)
  <2>1. \A e \in taken : e \in Entries /\ place[e] = "queued"
    BY FirstKSubset
  <2>2. /\ endangered' = endangered /\ cur' = cur /\ idle' = idle
        /\ place' = [e \in Entries |-> IF e \in taken THEN "pending" ELSE place[e]]
        /\ \/ batch' = [batch EXCEPT ![w] = Delivery(taken)]
           \/ batch' = batch
    BY <1>5 DEF ReadNew
  <2> HIDE DEF taken
  <2>3. ASSUME NEW v \in Workers, NEW e \in Entries, Held(v, e)'
        PROVE  Held(v, e) \/ (v = w /\ e \in taken)
    BY <2>2, <2>3, ReadHold
  <2>4. QED
    BY <2>1, <2>2, <2>3 DEF Calm
<1>6. ASSUME NEW w \in Workers,
             \/ Leave(w) \/ DeliveryCounts(w) \/ Release(w)
             \/ \E e \in Entries : SkipGarbled(w, e)
      PROVE Calm'
  <2>1. UNCHANGED <<place, idle, endangered>>
    BY <1>6, <1>1 DEF Leave, DeliveryCounts, Release, SkipGarbled, RiskyFaults
  <2>2. \A v \in Workers, e \in Entries : Held(v, e)' => Held(v, e)
    <3>1. Leave(w) => Terminate(w)
      BY DEF Leave
    <3>2. Release(w) => NextMessage(w)
      BY DEF Release
    <3>3. QED
      BY <1>6, <3>1, <3>2, TerminateEffect, NextMessageEffect, DeliveryCountsEffect,
         SkipGarbledEffect, HoldFrame
  <2>3. QED
    BY <2>1, <2>2, CalmFrame
<1>7. ASSUME NEW w \in Workers, NEW e \in Entries,
             \/ ParkInvalid(w, e) \/ ParkPoison(w, e) \/ SkipDuplicate(w, e)
             \/ Claim(w, e) \/ ClaimUnguarded(w, e)
      PROVE Calm'
  <2>1. UNCHANGED <<place, idle, endangered>> /\ \E to \in PCs : Begin(w, e, to)
    BY <1>7 DEF ParkInvalid, ParkPoison, SkipDuplicate, Claim, ClaimUnguarded, PCs
  <2>2. QED
    BY <2>1, BeginEffect, HoldFrame, CalmFrame
<1>8. ASSUME NEW w \in Workers, Ack(w) PROVE Calm'
  <2>1. /\ NextMessage(w) /\ UNCHANGED <<idle, endangered>>
        /\ \/ place' = [place EXCEPT ![cur[w]] = "gone"]
           \/ place' = place
    BY <1>8 DEF Ack
  <2>2. \A e \in Entries :
          place'[e] \in {"unsent", "queued"} => place[e] \in {"unsent", "queued"}
    BY <2>1 DEF TypeOK
  <2>3. QED
    BY <2>1, <2>2, NextMessageEffect, HoldFrame, CalmFrame
<1>9. ASSUME NEW w \in Workers,
             \/ Complete(w) \/ Fail(w) \/ WriteDeadLetter(w)
             \/ Restart(w) \/ Stop(w) \/ Unreachable(w)
      PROVE Calm'
  <2>1. UNCHANGED <<place, idle, endangered, batch, cur>>
    BY <1>9, <1>1 DEF Complete, Fail, WriteDeadLetter, Restart, Stop, Unreachable, RiskyFaults
  <2>2. QED
    BY <2>1, CalmFrame DEF Held
<1>10. ASSUME NEW w \in Workers, Crash(w) PROVE Calm'
  BY <1>10, <1>1 DEF Crash, RiskyFaults
<1>11. CASE UNCHANGED vars \/ \E ev \in Events : Expire(ev)
  <2>1. UNCHANGED <<place, idle, endangered, batch, cur>>
    BY <1>11 DEF Expire, vars
  <2>2. QED
    BY <2>1, CalmFrame DEF Held
<1>12. QED
  BY <1>2, <1>3, <1>4, <1>5, <1>6, <1>7, <1>8, <1>9, <1>10, <1>11 DEF Next, Step, Handle

(* In a fleet that suffers none of the four, no event is endangered, so the *)
(* README's delivery semantics hold: no published event disappears.         *)
THEOREM NothingLost ==
  ASSUME FaultKinds \cap RiskyFaults = {}
  PROVE  Spec => []NoEventLost
<1>1. Init => Calm
  BY DEF Init, Calm, Held, Entries
<1>2. TypeOK /\ HandlingOK /\ Calm /\ [Next]_vars => Calm'
  BY CalmStep
<1>3. LossExplained /\ Calm => NoEventLost
  BY DEF LossExplained, Calm, NoEventLost
<1>4. QED
  BY <1>1, <1>2, <1>3, TypeCorrect, LossesExplained, PTL DEF Spec

-----------------------------------------------------------------------------
(* Events without an id of their own. *)

(* The record of an entry's effects and of its dead letters is kept. *)
OnRecord(e) == done[e] > 0 \/ dlq[e] > 0

(* An event without an id of its own has no key that could outlive its      *)
(* worker, and an entry of it is acked only once it is on record.           *)
Unclaimed ==
  \A ev \in Unkeyed :
    /\ ev \notin claimed
    /\ \A e \in Copies(ev) :
         place[e] = "gone" \/ (\E w \in Workers : pc[w] = "ack" /\ cur[w] = e) => OnRecord(e)

(* Neither a dispatch nor a dead letter is ever taken back. *)
LEMMA RecordStays ==
  ASSUME TypeOK, [Next]_vars, NEW e \in Entries, OnRecord(e)
  PROVE  OnRecord(e)'
<1>1. done' = done \/ \E w \in Workers : done' = [done EXCEPT ![cur[w]] = Bump(@, HistoryCap)]
  BY Writers DEF Complete
<1>2. done[e] > 0 => done'[e] > 0
  BY <1>1, BumpHistory DEF TypeOK
<1>3. \A w \in Workers : DeliveryCounts(w) => (dlq[e] > 0 => dlq'[e] > 0)
  BY BumpHistory DEF TypeOK, DeliveryCounts
<1>4. ASSUME NEW w \in Workers, WriteDeadLetter(w) PROVE dlq[e] > 0 => dlq'[e] > 0
  <2>1. \/ dlq' = [dlq EXCEPT ![cur[w]] = Bump(@, HistoryCap)]
        \/ dlq' = dlq
    BY <1>4 DEF WriteDeadLetter
  <2>. QED  BY <2>1, BumpHistory DEF TypeOK
<1>5. \A w \in Workers, f \in Entries : SkipGarbled(w, f) => (dlq[e] > 0 => dlq'[e] > 0)
  BY BumpHistory DEF TypeOK, SkipGarbled
<1>6. dlq[e] > 0 => dlq'[e] > 0
  BY <1>3, <1>4, <1>5, Writers
<1>. QED  BY <1>2, <1>6 DEF OnRecord

(* A worker comes to ack an entry as a duplicate, completed or parked. *)
LEMMA AckArrival ==
  ASSUME TypeOK, HandlingOK, [Next]_vars, NEW w \in Workers, pc'[w] = "ack"
  PROVE  \/ pc[w] = "ack" /\ cur'[w] = cur[w]
         \/ \E e \in Entries : SkipDuplicate(w, e)
         \/ Complete(w) \/ WriteDeadLetter(w)
<1>. USE DEF redisVars, workerVars, ghostVars
<1>. DEFINE Goal == \/ pc[w] = "ack" /\ cur'[w] = cur[w]
                    \/ \E e \in Entries : SkipDuplicate(w, e)
                    \/ Complete(w) \/ WriteDeadLetter(w)
<1>1. ASSUME NEW v \in Workers, Elsewhere(v), pc'[v] # "ack" PROVE Goal
  BY <1>1 DEF Elsewhere
<1>2. ASSUME NEW v \in Workers,
             \/ Leave(v) \/ Crash(v) \/ Release(v) \/ Ack(v)
             \/ \E e \in Entries : SkipGarbled(v, e)
      PROVE  Goal
  <2>1. Leave(v) \/ Crash(v) => Terminate(v)
    BY DEF Leave, Crash
  <2>2. Release(v) \/ Ack(v) => NextMessage(v)
    BY DEF Release, Ack
  <2>3. Elsewhere(v) /\ pc'[v] # "ack"
    BY <1>2, <2>1, <2>2, TerminateEffect, NextMessageEffect, SkipGarbledEffect
  <2>. QED  BY <1>1, <2>3
<1>3. ASSUME NEW v \in Workers, NEW e \in Entries,
             ParkInvalid(v, e) \/ ParkPoison(v, e) \/ Claim(v, e) \/ ClaimUnguarded(v, e)
      PROVE  Goal
  BY <1>1, <1>3, BeginEffect DEF ParkInvalid, ParkPoison, Claim, ClaimUnguarded
<1>4. ASSUME NEW v \in Workers, NEW e \in Entries, SkipDuplicate(v, e) PROVE Goal
  <2>1. Elsewhere(v)
    BY <1>4, BeginEffect DEF SkipDuplicate
  <2>. QED  BY <1>4, <2>1 DEF Elsewhere
<1>5. ASSUME NEW v \in Workers, Complete(v) \/ WriteDeadLetter(v) PROVE Goal
  <2>1. cur' = cur /\ pc' = [pc EXCEPT ![v] = "ack"]
    BY <1>5 DEF Complete, WriteDeadLetter
  <2>. QED  BY <1>5, <2>1 DEF TypeOK
<1>6. ASSUME NEW v \in Workers,
             ClaimStale(v) \/ DeliveryCounts(v) \/ ReadNew(v) \/ Unreachable(v) \/ Fail(v) \/ Restart(v)
      PROVE  Goal
  <2>1. cur' = cur /\ \E to \in PCs \ {"ack"} : pc' = [pc EXCEPT ![v] = to]
    BY <1>6 DEF ClaimStale, DeliveryCounts, ReadNew, Unreachable, Fail, Restart, PCs
  <2>. QED  BY <2>1 DEF TypeOK
<1>7. CASE \/ \E e \in Entries : Publish(e) \/ Age(e)
           \/ \E ev \in Events : Expire(ev)
           \/ \E v \in Workers : Stop(v)
           \/ UNCHANGED vars
  BY <1>7 DEF Publish, Age, Expire, Stop, vars
<1>. QED
  BY <1>2, <1>3, <1>4, <1>5, <1>6, <1>7 DEF Next, Step, Handle

(* The keys that appear are those of events with an id of their own. *)
LEMMA KeysAreKeyed ==
  ASSUME [Next]_vars, NEW ev \in Unkeyed, ev \notin claimed
  PROVE  ev \notin claimed'
<1>. USE DEF redisVars, workerVars, ghostVars
<1>1. \A w \in Workers, e \in Entries : Claim(w, e) => ev \notin claimed'
  BY DEF Claim
<1>2. \A w \in Workers, e \in Entries :
        \/ SkipGarbled(w, e) \/ ParkInvalid(w, e) \/ ParkPoison(w, e)
        \/ ClaimUnguarded(w, e) \/ SkipDuplicate(w, e)
        => claimed' = claimed
  BY DEF SkipGarbled, ParkInvalid, ParkPoison, ClaimUnguarded, SkipDuplicate
<1>3. \A w \in Workers : Release(w) => claimed' \subseteq claimed
  BY DEF Release
<1>4. \A w \in Workers :
        \/ Leave(w) \/ ClaimStale(w) \/ DeliveryCounts(w) \/ ReadNew(w) \/ Complete(w)
        \/ Fail(w) \/ WriteDeadLetter(w) \/ Ack(w) \/ Restart(w)
        => claimed' = claimed
  BY DEF Leave, ClaimStale, DeliveryCounts, ReadNew, Complete, Fail, WriteDeadLetter, Ack,
         Restart
<1>5. \A w \in Workers : Unreachable(w) \/ Stop(w) \/ Crash(w) => claimed' = claimed
  BY DEF Unreachable, Stop, Crash
<1>6. \/ \E e \in Entries : Publish(e) \/ Age(e)
      \/ \E f \in Events : Expire(f)
      \/ UNCHANGED vars
      => claimed' \subseteq claimed
  BY DEF Publish, Age, Expire, vars
<1>. QED  BY <1>1, <1>2, <1>3, <1>4, <1>5, <1>6 DEF Next, Step, Handle

(* Every step acks an entry of such an event only once it is on record. *)
LEMMA UnclaimedStep ==
  ASSUME TypeOK, HandlingOK, Unclaimed, [Next]_vars, "dlq" \notin FaultKinds
  PROVE  Unclaimed'
<1>. SUFFICES ASSUME NEW ev \in Unkeyed
              PROVE  /\ ev \notin claimed'
                     /\ \A e \in Copies(ev) :
                          \/ place'[e] = "gone"
                          \/ \E w \in Workers : pc'[w] = "ack" /\ cur'[w] = e
                          => OnRecord(e)'
  BY DEF Unclaimed, Copies
<1>1. ev \notin claimed
  BY DEF Unclaimed
<1>2. ev \notin claimed'
  BY <1>1, KeysAreKeyed
<1>3. ASSUME NEW e \in Copies(ev), NEW w \in Workers, pc'[w] = "ack", cur'[w] = e
      PROVE  OnRecord(e)'
  <2>0. e \in Entries /\ Body[e] = ev
    BY DEF Copies
  <2>1. CASE pc[w] = "ack" /\ cur'[w] = cur[w]
    BY <1>3, <2>0, <2>1, RecordStays DEF Unclaimed
  <2>2. ASSUME NEW f \in Entries, SkipDuplicate(w, f) PROVE FALSE
    <3>1. cur'[w] = f /\ Body[f] \in claimed
      BY <2>2, BeginEffect DEF SkipDuplicate
    <3>. QED  BY <1>1, <1>3, <2>0, <3>1
  <2>3. CASE Complete(w)
    <3>1. cur' = cur /\ done' = [done EXCEPT ![cur[w]] = Bump(@, HistoryCap)]
      BY <2>3 DEF Complete
    <3>. QED  BY <1>3, <2>0, <3>1, BumpHistory DEF TypeOK, OnRecord
  <2>4. CASE WriteDeadLetter(w)
    <3>1. cur' = cur /\ dlq' = [dlq EXCEPT ![cur[w]] = Bump(@, HistoryCap)]
      BY <2>4 DEF WriteDeadLetter, Fault
    <3>. QED  BY <1>3, <2>0, <3>1, BumpHistory DEF TypeOK, OnRecord
  <2>. QED  BY <1>3, <2>1, <2>2, <2>3, <2>4, AckArrival
<1>4. ASSUME NEW e \in Copies(ev), place'[e] = "gone" PROVE OnRecord(e)'
  <2>0. e \in Entries
    BY DEF Copies
  <2>1. CASE place[e] = "gone"
    BY <2>0, <2>1, RecordStays DEF Unclaimed
  <2>2. ASSUME NEW w \in Workers, Ack(w), place[e] # "gone" PROVE OnRecord(e)'
    <3>1. pc[w] = "ack" /\ cur[w] = e
      BY <1>4, <2>0, <2>2 DEF Ack, TypeOK
    <3>. QED  BY <2>0, <3>1, RecordStays DEF Unclaimed
  <2>3. ASSUME NEW f \in Entries, Publish(f), place[e] # "gone" PROVE FALSE
    BY <1>4, <2>0, <2>3 DEF Publish, TypeOK
  <2>4. ASSUME NEW w \in Workers, ReadNew(w), place[e] # "gone" PROVE FALSE
    BY <1>4, <2>0, <2>4 DEF ReadNew, TypeOK
  <2>. QED  BY <1>4, <2>1, <2>2, <2>3, <2>4, Writers
<1>. QED  BY <1>2, <1>3, <1>4

(* It is the idempotency key that makes a crash a loss.  Where no event has *)
(* an id of its own, no published event disappears whatever crashes, stops, *)
(* stalls, expires or goes unanswered, as long as dead letters are written. *)
THEOREM UnkeyedNotLost ==
  ASSUME Events \subseteq Unkeyed, "dlq" \notin FaultKinds
  PROVE  Spec => []NoEventLost
<1>1. Init => Unclaimed
  BY DEF Init, Unclaimed, Copies
<1>2. TypeOK /\ HandlingOK /\ Unclaimed /\ [Next]_vars => Unclaimed'
  BY UnclaimedStep
<1>3. TypeOK /\ Unclaimed => NoEventLost
  <2>. SUFFICES ASSUME TypeOK, Unclaimed, NEW ev \in Events, Published(ev)
                PROVE  Open(ev) \/ Processed(ev) \/ Parked(ev)
    BY DEF NoEventLost
  <2>1. PICK e \in Copies(ev) : place[e] # "unsent"
    BY DEF Published
  <2>2. e \in Entries
    BY DEF Copies
  <2>3. Live(e) \/ place[e] = "gone"
    BY <2>1, <2>2 DEF TypeOK, Live
  <2>4. place[e] = "gone" => OnRecord(e)
    BY DEF Unclaimed
  <2>. QED  BY <2>3, <2>4 DEF Open, OnRecord, Processed, Parked
<1>4. QED
  BY <1>1, <1>2, <1>3, TypeCorrect, PTL DEF Spec

-----------------------------------------------------------------------------
(* The fleet implements EventDelivery. *)

(* What is at risk remains so. *)
LEMMA EndangeredGrows ==
  ASSUME [Next]_vars
  PROVE  endangered \subseteq endangered'
<1>. USE DEF ghostVars
<1>1. \A w \in Workers :
        /\ ClaimStale(w) => endangered \subseteq endangered'
        /\ Release(w) => endangered \subseteq endangered'
        /\ WriteDeadLetter(w) => endangered \subseteq endangered'
        /\ Crash(w) => endangered \subseteq endangered'
  BY DEF ClaimStale, Release, WriteDeadLetter, Crash
<1>2. \A w \in Workers, e \in Entries :
        \/ SkipGarbled(w, e) \/ ParkInvalid(w, e) \/ ParkPoison(w, e) \/ Claim(w, e)
        \/ ClaimUnguarded(w, e) \/ SkipDuplicate(w, e)
        => endangered' = endangered
  BY DEF SkipGarbled, ParkInvalid, ParkPoison, Claim, ClaimUnguarded, SkipDuplicate
<1>3. \A w \in Workers :
        \/ Leave(w) \/ DeliveryCounts(w) \/ ReadNew(w) \/ Complete(w) \/ Fail(w) \/ Ack(w)
        \/ Restart(w) \/ Unreachable(w) \/ Stop(w)
        => endangered' = endangered
  BY DEF Leave, DeliveryCounts, ReadNew, Complete, Fail, Ack, Restart, Unreachable, Stop
<1>4. \/ \E e \in Entries : Publish(e) \/ Age(e)
      \/ \E ev \in Events : Expire(ev)
      \/ UNCHANGED vars
      => endangered' = endangered
  BY DEF Publish, Age, Expire, vars
<1>. QED  BY <1>1, <1>2, <1>3, <1>4 DEF Next, Step, Handle

(* What is being worked on was published. *)
LEMMA OpenPublished ==
  ASSUME HeldRead, NEW ev \in Events, Open(ev)
  PROVE  Published(ev)
BY DEF HeldRead, Open, Live, Published, Copies

(* Taking entries off the stream, or acking them, unpublishes none. *)
LEMMA PublishedStays ==
  ASSUME TypeOK, HandlingOK, HeldRead, NEW w \in Workers, ReadNew(w) \/ Ack(w),
         NEW ev \in Events
  PROVE  Published(ev)' <=> Published(ev)
<1>1. \A e \in Copies(ev) : place'[e] = "unsent" <=> place[e] = "unsent"
  <2>1. CASE ReadNew(w)
    BY <2>1, FirstKSubset DEF ReadNew, Copies
  <2>2. CASE Ack(w)
    <3>1. \A e \in Copies(ev) : e = cur[w] => place[e] # "unsent"
      BY DEF HeldRead, Held, Copies
    <3>. QED  BY <2>2, <3>1 DEF Ack, TypeOK, Copies
  <2>. QED  BY <2>1, <2>2
<1>. QED  BY <1>1 DEF Published, Copies

(* Only publishing opens an event. *)
LEMMA OpenStays ==
  ASSUME TypeOK, HandlingOK, [Next]_vars, \A e \in Entries : ~Publish(e),
         NEW ev \in Events, Open(ev)'
  PROVE  Open(ev)
<1>1. \A e \in Entries : Live(e)' => Live(e)
  <2>1. \A w \in Workers, e \in Entries : ReadNew(w) /\ Live(e)' => Live(e)
    BY Taken DEF ReadNew, Fresh, Live
  <2>2. \A w \in Workers, e \in Entries : Ack(w) /\ Live(e)' => Live(e)
    BY DEF Ack, Live, TypeOK
  <2>3. place' = place => \A e \in Entries : Live(e)' => Live(e)
    BY DEF Live
  <2>. QED  BY <2>1, <2>2, <2>3, Writers
<1>2. \A w \in Workers, e \in Entries : Held(w, e)' => Held(w, e) \/ Live(e)
  BY NewlyHeld, Taken DEF Live
<1>3. Copies(ev) \subseteq Entries
  BY DEF Copies
<1>. QED  BY <1>1, <1>2, <1>3 DEF Open

(* The outside view of one step, by what it does to the four facts that an  *)
(* event's status is made of.                                               *)
SameStatus(ev) ==
  /\ Processed(ev)' <=> Processed(ev)
  /\ Parked(ev)' <=> Parked(ev)
  /\ Open(ev)' <=> Open(ev)
  /\ Published(ev)' <=> Published(ev)

(* One event alone moves. *)
LEMMA OneMoves ==
  ASSUME NEW ev \in Events, \A other \in Events \ {ev} : SameStatus(other)
  PROVE  BusStatus' = [BusStatus EXCEPT ![ev] = BusStatus'[ev]]
BY DEF BusStatus, SameStatus

(* None moves. *)
LEMMA NoneMoves ==
  ASSUME \A ev \in Events : SameStatus(ev)
  PROVE  BusStatus' = BusStatus
BY DEF BusStatus, SameStatus

(* A step that writes neither effects, dead letters nor the stream, nor     *)
(* hands any entry over, moves nothing.                                     *)
LEMMA StatusFrame ==
  ASSUME NEW ev \in Events
  PROVE  /\ done' = done => (Processed(ev)' <=> Processed(ev))
         /\ dlq' = dlq => (Parked(ev)' <=> Parked(ev))
         /\ place' = place => (Published(ev)' <=> Published(ev))
         /\ UNCHANGED <<place, batch, cur>> => (Open(ev)' <=> Open(ev))
<1>1. done' = done => (Processed(ev)' <=> Processed(ev))
  BY DEF Processed, Copies
<1>2. dlq' = dlq => (Parked(ev)' <=> Parked(ev))
  BY DEF Parked, Copies
<1>3. place' = place => (Published(ev)' <=> Published(ev))
  BY DEF Published, Copies
<1>4. UNCHANGED <<place, batch, cur>> => (Open(ev)' <=> Open(ev))
  BY DEF Open, Live, Held, Copies
<1>. QED  BY <1>1, <1>2, <1>3, <1>4

(* What a worker is handling is open, and published. *)
LEMMA HandledOpen ==
  ASSUME HandlingOK, HeldRead, NEW w \in Workers, pc[w] \in Handling, Body[cur[w]] \in Events
  PROVE  cur[w] \in Entries /\ Open(Body[cur[w]]) /\ Published(Body[cur[w]])
<1>1. cur[w] \in Entries
  BY DEF HandlingOK
<1>2. Open(Body[cur[w]])
  BY <1>1 DEF Open, Held, Copies
<1>. QED  BY <1>1, <1>2, OpenPublished

(* Publishing an entry opens its event, unless it was settled or open. *)
LEMMA PublishMoves ==
  ASSUME TypeOK, HeldRead, NEW e \in Entries, Publish(e)
  PROVE  UNCHANGED BusStatus \/ \E ev \in Events : Bus!Accept(ev)
<1>1. /\ dlq' = dlq /\ done' = done /\ cur' = cur /\ batch' = batch
      /\ place[e] = "unsent" /\ place' = [place EXCEPT ![e] = "queued"]
  BY DEF Publish, workerVars, ghostVars
<1>2. \A f \in Entries \ {e} : place'[f] = place[f]
  BY <1>1 DEF TypeOK
<1>3. place'[e] = "queued"
  BY <1>1 DEF TypeOK
<1>4. ASSUME NEW ev \in Events, ev # Body[e] PROVE SameStatus(ev)
  <2>1. \A f \in Copies(ev) : f \in Entries /\ place'[f] = place[f]
    BY <1>2, <1>4 DEF Copies
  <2>2. Published(ev)' <=> Published(ev)
    BY <2>1 DEF Published, Copies
  <2>3. Open(ev)' <=> Open(ev)
    BY <1>1, <2>1 DEF Open, Live, Held, Copies
  <2>. QED  BY <1>1, <2>2, <2>3, StatusFrame DEF SameStatus
<1>5. CASE Body[e] \notin Events
  BY <1>4, <1>5, NoneMoves
<1>6. CASE Body[e] \in Events
  <2>. DEFINE ev == Body[e]
  <2>1. Published(ev)' /\ Open(ev)'
    <3>1. e \in Copies(ev)' /\ Live(e)'
      BY <1>3 DEF Copies, Live
    <3>. QED  BY <1>3, <3>1 DEF Published, Open
  <2>2. (Processed(ev)' <=> Processed(ev)) /\ (Parked(ev)' <=> Parked(ev))
    BY <1>1, <1>6, StatusFrame
  <2>3. Open(ev) => Published(ev)
    BY <1>6, OpenPublished
  <2>4. BusStatus' = [BusStatus EXCEPT ![ev] = BusStatus'[ev]]
    BY <1>4, <1>6, OneMoves
  <2>5. \/ BusStatus'[ev] = BusStatus[ev]
        \/ BusStatus[ev] \in {"unsent", "lost"} /\ BusStatus'[ev] = "open"
    BY <1>6, <2>1, <2>2, <2>3 DEF BusStatus
  <2>6. BusStatus = [BusStatus EXCEPT ![ev] = BusStatus[ev]]
    BY DEF BusStatus
  <2>. HIDE DEF ev
  <2>7. ev \in Events
    BY <1>6 DEF ev
  <2>. QED  BY <2>4, <2>5, <2>6, <2>7 DEF Bus!Accept, Bus!Move
<1>. QED  BY <1>5, <1>6

(* Completing a dispatch settles its event, a parked one included. *)
LEMMA CompleteMoves ==
  ASSUME TypeOK, HandlingOK, HeldRead, NEW w \in Workers, Complete(w)
  PROVE  UNCHANGED BusStatus \/ \E ev \in Events : Bus!Complete(ev)
<1>. DEFINE ev == Body[cur[w]]
<1>1. /\ dlq' = dlq /\ place' = place /\ batch' = batch /\ cur' = cur
      /\ pc[w] \in Owning
      /\ done' = [done EXCEPT ![cur[w]] = Bump(@, HistoryCap)]
  BY DEF Complete, Owning, redisVars
<1>2. ev \in Events
  BY <1>1 DEF HandlingOK
<1>3. cur[w] \in Entries /\ Open(ev)
  BY <1>1, <1>2, HandledOpen DEF Handling
<1>4. \A x \in Events : Processed(x)' <=> ev = x \/ Processed(x)
  <2>1. done'[cur[w]] > 0 /\ \A f \in Entries \ {cur[w]} : done'[f] = done[f]
    BY <1>1, <1>3, BumpHistory DEF TypeOK
  <2>. QED  BY <2>1, <1>3 DEF Processed, Copies
<1>. HIDE DEF ev
<1>5. \A x \in Events \ {ev} : SameStatus(x)
  BY <1>1, <1>4, StatusFrame DEF SameStatus
<1>6. BusStatus' = [BusStatus EXCEPT ![ev] = BusStatus'[ev]]
  BY <1>2, <1>5, OneMoves
<1>7. BusStatus'[ev] = "done" /\ BusStatus[ev] \in {"open", "parked", "done"}
  BY <1>2, <1>3, <1>4 DEF BusStatus
<1>8. BusStatus = [BusStatus EXCEPT ![ev] = BusStatus[ev]]
  BY DEF BusStatus
<1>. QED  BY <1>2, <1>6, <1>7, <1>8 DEF Bus!Complete, Bus!Move

(* Writing a dead letter parks its event, unless it was completed. *)
LEMMA DeadLetterMoves ==
  ASSUME TypeOK, HandlingOK, HeldRead, NEW w \in Workers, WriteDeadLetter(w)
  PROVE  UNCHANGED BusStatus \/ \E ev \in Events : Bus!Park(ev)
<1>. DEFINE ev == Body[cur[w]]
<1>1. /\ done' = done /\ place' = place /\ batch' = batch /\ cur' = cur
      /\ pc[w] \in Handling
      /\ \/ dlq' = [dlq EXCEPT ![cur[w]] = Bump(@, HistoryCap)]
         \/ dlq' = dlq
  BY DEF WriteDeadLetter, Handling, Owning
<1>2. cur[w] \in Entries
  BY <1>1 DEF HandlingOK
<1>3. CASE dlq' = dlq
  BY <1>1, <1>3, StatusFrame, NoneMoves DEF SameStatus
<1>4. CASE dlq' = [dlq EXCEPT ![cur[w]] = Bump(@, HistoryCap)]
  <2>1. \A x \in Events : Parked(x)' <=> ev = x \/ Parked(x)
    <3>1. dlq'[cur[w]] > 0 /\ \A f \in Entries \ {cur[w]} : dlq'[f] = dlq[f]
      BY <1>2, <1>4, BumpHistory DEF TypeOK
    <3>. QED  BY <3>1, <1>2 DEF Parked, Copies
  <2>2. ev \in Events => Open(ev)
    BY <1>1, HandledOpen
  <2>. HIDE DEF ev
  <2>3. \A x \in Events \ {ev} : SameStatus(x)
    BY <1>1, <2>1, StatusFrame DEF SameStatus
  <2>4. CASE ev \notin Events
    BY <2>3, <2>4, NoneMoves
  <2>5. CASE ev \in Events
    <3>1. BusStatus' = [BusStatus EXCEPT ![ev] = BusStatus'[ev]]
      BY <2>3, <2>5, OneMoves
    <3>2. \A x \in Events : Processed(x)' <=> Processed(x)
      BY <1>1, StatusFrame
    <3>3. \/ BusStatus'[ev] = BusStatus[ev]
          \/ BusStatus[ev] = "open" /\ BusStatus'[ev] = "parked"
      BY <2>1, <2>2, <2>5, <3>2 DEF BusStatus
    <3>4. BusStatus = [BusStatus EXCEPT ![ev] = BusStatus[ev]]
      BY DEF BusStatus
    <3>. QED  BY <2>5, <3>1, <3>3, <3>4 DEF Bus!Park, Bus!Move
  <2>. QED  BY <2>4, <2>5
<1>. QED  BY <1>1, <1>3, <1>4

(* Any other step moves an event only by losing it, and only one at risk. *)
LEMMA OtherMoves ==
  ASSUME TypeOK, HandlingOK, HeldRead, [Next]_vars, LossExplained',
         ~(\E e \in Entries : Publish(e)),
         ~(\E w \in Workers : Complete(w) \/ WriteDeadLetter(w))
  PROVE  UNCHANGED BusStatus \/ \E ev \in Events : Bus!Settle(ev)
<1>1. \A ev \in Events : Processed(ev)' <=> Processed(ev)
  BY StatusFrame, Writers
<1>2. \A ev \in Events : Parked(ev)' <=> Parked(ev)
  BY StatusFrame, Writers, GarbledParksNone
<1>3. \A ev \in Events : Published(ev)' <=> Published(ev)
  BY StatusFrame, Writers, PublishedStays
<1>4. \A ev \in Events : (Open(ev)' => Open(ev)) /\ (Open(ev) => Published(ev))
  BY OpenStays, OpenPublished
<1>. DEFINE lost == {ev \in Events : BusStatus[ev] = "open" /\ BusStatus'[ev] # "open"}
<1>5. \A ev \in Events : /\ ev \in lost => BusStatus[ev] = "open" /\ BusStatus'[ev] = "lost"
                         /\ ev \notin lost => BusStatus'[ev] = BusStatus[ev]
  BY <1>1, <1>2, <1>3, <1>4 DEF BusStatus
<1>6. \A ev \in lost : ev \in endangered'
  <2>1. \A ev \in Events : BusStatus'[ev] = "lost" =>
          Published(ev)' /\ ~Open(ev)' /\ ~Processed(ev)' /\ ~Parked(ev)'
    BY DEF BusStatus
  <2>. QED  BY <1>5, <2>1 DEF LossExplained
<1>7. BusStatus' = [ev \in Events |-> IF ev \in lost THEN "lost" ELSE BusStatus[ev]]
  <2>1. BusStatus' = [ev \in Events |-> BusStatus'[ev]]
    BY DEF BusStatus
  <2>. HIDE DEF lost
  <2>. QED  BY <1>5, <2>1
<1>8. BusStatus = [ev \in Events |-> BusStatus[ev]]
  BY DEF BusStatus
<1>9. lost \in SUBSET Events /\ \A ev \in lost : BusStatus[ev] = "open"
  OBVIOUS
<1>. HIDE DEF lost
<1>10. CASE lost = {}
  BY <1>7, <1>8, <1>10
<1>11. CASE lost # {}
  <2>1. Bus!Lose(lost)
    BY <1>6, <1>7, <1>9, <1>11 DEF Bus!Lose
  <2>. QED  BY <1>9, <1>11, <2>1 DEF Bus!Settle
<1>. QED  BY <1>10, <1>11

(* Every step of the fleet is one of EventDelivery's, or nothing it sees. *)
LEMMA BusStep ==
  ASSUME TypeOK, TypeOK', HandlingOK, HeldRead, LossExplained', [Next]_vars
  PROVE  Bus!Next
<1>1. endangered \subseteq endangered' /\ endangered' \subseteq Events
  BY EndangeredGrows DEF TypeOK
<1>2. UNCHANGED BusStatus \/ \E ev \in Events : Bus!Accept(ev) \/ Bus!Settle(ev)
  BY PublishMoves, CompleteMoves, DeadLetterMoves, OtherMoves DEF Bus!Settle
<1>. QED  BY <1>1, <1>2 DEF Bus!Next

(* Every fleet, whatever fails in it, implements EventDelivery: callers see  *)
(* an event accepted, then completed or parked and that for good, and lost   *)
(* only if it was put at risk in one of the ways `endangered` records.      *)
THEOREM FleetImplementsBus == Spec => FleetMoves
<1>1. Init => Bus!Init
  BY DEF Init, Bus!Init, BusStatus, Processed, Parked, Open, Live, Held, Published, Copies, Entries
<1>2. SafetyInv /\ SafetyInv' /\ [Next]_vars => [Bus!Next]_(Bus!busState)
  <2>1. SafetyInv' => LossExplained'
    BY DEF SafetyInv, LossExplained, CopyRemains, Open
  <2>. QED  BY <2>1, BusStep DEF SafetyInv
<1>. QED  BY <1>1, <1>2, Safety, PTL DEF Spec, FleetMoves, Bus!Moves

(* A fleet that suffers none of the risky faults implements a bus that       *)
(* loses nothing.                                                           *)
THEOREM ReliableBus ==
  ASSUME FaultKinds \cap RiskyFaults = {}
  PROVE  Spec => FleetMoves /\ [](\A ev \in Events : BusStatus[ev] # "lost")
<1>1. NoEventLost => \A ev \in Events : BusStatus[ev] # "lost"
  BY DEF NoEventLost, BusStatus
<1>. QED  BY <1>1, FleetImplementsBus, NothingLost, PTL

-----------------------------------------------------------------------------
(* CeilingRespected. *)

(* Nothing is reclaimed from a worker that is alive: what a worker holds is  *)
(* pending, not idle, and nobody else's.                                    *)
Firm ==
  /\ \A e \in Entries : place[e] \in {"unsent", "queued"} => ~idle[e]
  /\ \A w \in Workers, e \in Entries :
       Held(w, e) =>
         /\ place[e] = "pending" /\ ~idle[e]
         /\ \A v \in Workers : Held(v, e) => v = w

(* A batch of one, whose count, once it is asked for, is the true one. *)
Counted ==
  /\ \A w \in Workers : \A e, f \in Batch(w) : e = f
  /\ \A w \in Workers, e \in Entries :
       batch[w][e] > 0 /\ pc[w] # "counts" => batch[w][e] = delivered[e]

(* While a worker holds an entry, only its own ack touches it. *)
LEMMA HeldUntouched ==
  ASSUME TypeOK, HandlingOK, Firm, [Next]_vars, "slow" \notin FaultKinds,
         NEW w \in Workers, NEW e \in Entries, Held(w, e)
  PROVE  /\ delivered'[e] = delivered[e] /\ ~idle'[e]
         /\ place'[e] = place[e] \/ ~Held(w, e)'
<1>1. place[e] = "pending" /\ ~idle[e] /\ \A v \in Workers : Held(v, e) => v = w
  BY DEF Firm
<1>2. (\A v \in Workers : e \notin Stale(v)) /\ e \notin Fresh
  BY <1>1, Taken
<1>3. \A v \in Workers : ClaimStale(v) => delivered'[e] = delivered[e] /\ ~idle'[e]
  BY <1>1, <1>2 DEF ClaimStale, Stale
<1>4. \A v \in Workers : ReadNew(v) => delivered'[e] = delivered[e] /\ place'[e] = place[e]
  BY <1>2 DEF ReadNew, Fresh
<1>5. \A f \in Entries : Age(f) => ~idle'[e]
  BY <1>1 DEF Age, Fault, TypeOK
<1>6. \A f \in Entries : Publish(f) => place'[e] = place[e]
  BY <1>1 DEF Publish, TypeOK
<1>7. ASSUME NEW v \in Workers, Ack(v) PROVE place'[e] = place[e] \/ ~Held(w, e)'
  <2>1. CASE cur[v] # e
    BY <1>7, <2>1 DEF Ack, TypeOK
  <2>2. CASE cur[v] = e
    <3>1. v = w /\ batch[w][e] = 0
      BY <1>1, <2>2 DEF Held, HandlingOK
    <3>2. cur'[w] = 0 /\ ~(batch'[w][e] > 0)
      BY <1>7, <3>1, NextMessageEffect DEF Ack, TypeOK
    <3>. QED  BY <3>2, 0 \notin Entries DEF Held, Entries
  <2>. QED  BY <2>1, <2>2
<1>. QED  BY <1>1, <1>3, <1>4, <1>5, <1>6, <1>7, Writers

(* Without slow batches nobody's entry is reclaimed. *)
LEMMA FirmStep ==
  ASSUME TypeOK, HandlingOK, Firm, [Next]_vars, "slow" \notin FaultKinds
  PROVE  Firm'
<1>1. ASSUME NEW e \in Entries, place'[e] \in {"unsent", "queued"} PROVE ~idle'[e]
  <2>1. place[e] \in {"unsent", "queued"}
    <3>1. \A f \in Entries : Publish(f) => place[f] = "unsent" /\ place' = [place EXCEPT ![f] = "queued"]
      BY DEF Publish
    <3>2. \A w \in Workers : ReadNew(w) => place'[e] \in {"pending", place[e]}
      BY DEF ReadNew
    <3>3. \A w \in Workers : Ack(w) => place'[e] \in {"gone", place[e]}
      BY DEF Ack, TypeOK
    <3>. QED  BY <1>1, <3>1, <3>2, <3>3, Writers DEF TypeOK
  <2>2. ~idle[e]
    BY <2>1 DEF Firm
  <2>3. \A f \in Entries : Age(f) => idle'[e] = idle[e]
    BY <2>1 DEF Age, TypeOK
  <2>4. \A w \in Workers : ClaimStale(w) => ~idle'[e]
    BY <2>2 DEF ClaimStale
  <2>. QED  BY <2>2, <2>3, <2>4, Writers
<1>2. ASSUME NEW v \in Workers, NEW e \in Entries, Held(v, e)', ~Held(v, e)
      PROVE  /\ place'[e] = "pending" /\ ~idle'[e]
             /\ \A u \in Workers : ~Held(u, e) /\ (Held(u, e)' => u = v)
  <2>1. CASE ClaimStale(v) /\ e \in Stale(v)
    <3>1. place[e] = "pending" /\ idle[e]
      BY <2>1, Taken
    <3>2. \A u \in Workers : ~Held(u, e)
      BY <3>1 DEF Firm
    <3>3. place' = place /\ ~idle'[e]
      BY <2>1 DEF ClaimStale, Stale
    <3>4. \A u \in Workers : Held(u, e)' => u = v
      <4>1. /\ cur' = cur
            /\ batch' = [batch EXCEPT ![v] = Delivery(Stale(v))] \/ batch' = batch
        BY <2>1 DEF ClaimStale, Stale
      <4>. QED  BY <3>2, <4>1, ReadHold
    <3>. QED  BY <3>1, <3>2, <3>3, <3>4
  <2>2. CASE ReadNew(v) /\ e \in Fresh
    <3>1. place[e] = "queued" /\ ~idle[e]
      BY <2>2, Taken DEF Firm
    <3>2. \A u \in Workers : ~Held(u, e)
      BY <3>1 DEF Firm
    <3>3. place'[e] = "pending" /\ idle' = idle
      BY <2>2 DEF ReadNew, Fresh
    <3>4. \A u \in Workers : Held(u, e)' => u = v
      <4>1. /\ cur' = cur
            /\ batch' = [batch EXCEPT ![v] = Delivery(Fresh)] \/ batch' = batch
        BY <2>2 DEF ReadNew, Fresh
      <4>. QED  BY <3>2, <4>1, ReadHold
    <3>. QED  BY <3>1, <3>2, <3>3, <3>4
  <2>. QED  BY <1>2, <2>1, <2>2, NewlyHeld
<1>3. ASSUME NEW v \in Workers, NEW e \in Entries, Held(v, e)', Held(v, e)
      PROVE  place'[e] = "pending" /\ ~idle'[e] /\ \A u \in Workers : Held(u, e)' => u = v
  <2>1. place[e] = "pending" /\ \A u \in Workers : Held(u, e) => u = v
    BY <1>3 DEF Firm
  <2>2. \A u \in Workers : Held(u, e)' => Held(u, e)
    BY <1>2, <1>3
  <2>. QED  BY <1>3, <2>1, <2>2, HeldUntouched
<1>. QED  BY <1>1, <1>2, <1>3 DEF Firm

(* A reclaim or a read of one takes one entry at most, and XPENDING lists   *)
(* it.                                                                      *)
LEMMA OneAtATime ==
  ASSUME NEW S \in SUBSET Entries, NEW a \in FirstK(S, 1), NEW b \in FirstK(S, 1)
  PROVE  a = b
<1>1. ASSUME NEW g \in FirstK(S, 1) PROVE {f \in S : f < g} = {}
  <2>. DEFINE Below == {f \in S : f < g}
  <2>1. IsFiniteSet(Entries)
    BY BodyAssumption, FS_Interval DEF Entries
  <2>2. IsFiniteSet(Below)
    BY <2>1, FS_Subset, Below \subseteq Entries
  <2>3. Cardinality(Below) < 1
    BY Zenon DEF FirstK
  <2>4. Cardinality(Below) \in Nat
    BY <2>2, FS_CardinalityType
  <2>. HIDE DEF Below
  <2>5. Cardinality(Below) = 0
    BY <2>3, <2>4
  <2>. QED  BY <2>2, <2>5, FS_EmptySet DEF Below
<1>2. a \in S /\ b \in S /\ a \in Int /\ b \in Int
  BY DEF FirstK, Entries
<1>. QED  BY <1>1, <1>2

(* XPENDING over the range of one id lists it while it is pending. *)
LEMMA AloneListed ==
  ASSUME NEW e \in Pending
  PROVE  e \in Listed({e})
<1>1. e \in Int /\ Rank[e] \in Int
  BY BodyAssumption DEF Pending, Entries
<1>. DEFINE S == {p \in Pending :
            /\ \E lo \in {e} : lo <= p /\ \A x \in {e} : Rank[lo] <= Rank[x]
            /\ \E hi \in {e} : p <= hi /\ \A x \in {e} : Rank[x] <= Rank[hi]}
<1>2. e \in S /\ \A p \in S : p = e
  BY <1>1 DEF Pending, Entries
<1>. HIDE DEF S
<1>3. {p \in S : p < e} = {}
  <2>1. ~(e < e)
    BY <1>1
  <2>. QED  BY <1>2, <2>1
<1>4. Cardinality({p \in S : p < e}) = 0 /\ Cardinality({e}) = 1
  BY <1>3, FS_EmptySet, FS_Singleton
<1>5. e \in FirstK(S, Cardinality({e}))
  <2>1. 0 < 1
    OBVIOUS
  <2>. QED  BY <1>2, <1>4, <2>1, Zenon DEF FirstK
<1>. QED  BY <1>5, Zenon DEF Listed, S

(* Counts stay true: a batch of one is counted over the right range.        *)
LEMMA CountedStep ==
  ASSUME TypeOK, HandlingOK, Firm, Counted, [Next]_vars,
         FaultKinds \cap {"slow", "counts"} = {}, BatchSize = 1
  PROVE  Counted'
<1>1. ASSUME NEW w \in Workers, DeliveryCounts(w)
      PROVE  /\ \A e \in Entries : batch'[w][e] > 0 => batch[w][e] > 0
             /\ \A e \in Entries : batch'[w][e] > 0 => batch'[w][e] = delivered[e]
             /\ delivered' = delivered
  <2>. DEFINE taken == Batch(w)
              broken == {e \in taken : Body[e] = Garbled}
              counted == [e \in Entries |->
                            IF e \notin taken \ broken THEN 0
                            ELSE IF e \in Listed(taken) THEN delivered[e] ELSE 1]
  <2>1. /\ pc[w] = "counts" /\ delivered' = delivered
        /\ batch' = [batch EXCEPT ![w] = counted]
    BY <1>1 DEF DeliveryCounts, Fault
  <2>2. ASSUME NEW e \in taken PROVE e \in Listed(taken)
    <3>1. taken = {e}
      BY DEF Counted
    <3>2. e \in Pending
      BY DEF Firm, Batch, Held, Pending
    <3>. HIDE DEF taken
    <3>. QED  BY <3>1, <3>2, AloneListed
  <2>3. batch'[w] = counted
    BY <2>1 DEF TypeOK
  <2>4. \A e \in Entries : counted[e] = IF e \in taken \ broken THEN delivered[e] ELSE 0
    BY <2>2
  <2>5. \A e \in Entries : e \in taken => batch[w][e] > 0
    BY DEF Batch
  <2>. HIDE DEF counted, taken, broken
  <2>. QED  BY <2>1, <2>3, <2>4, <2>5
<1>2. ASSUME NEW w \in Workers, NEW e \in Entries, NEW f \in Entries,
             batch'[w][e] > 0, batch'[w][f] > 0
      PROVE  e = f
  <2>1. CASE batch[w][e] > 0 /\ batch[w][f] > 0
    BY <2>1 DEF Counted, Batch
  <2>2. CASE ClaimStale(w) /\ batch'[w] = Delivery(Stale(w))
    BY <1>2, <2>2, DeliveryEffect, OneAtATime DEF Stale, Pending
  <2>3. CASE ReadNew(w) /\ batch'[w] = Delivery(Fresh)
    BY <1>2, <2>3, DeliveryEffect, OneAtATime DEF Fresh
  <2>4. Shrunk(w) \/ DeliveryCounts(w) => batch[w][e] > 0 /\ batch[w][f] > 0
    BY <1>1, <1>2 DEF Shrunk
  <2>. QED  BY <2>1, <2>2, <2>3, <2>4, BatchMoves
<1>3. ASSUME NEW w \in Workers, NEW e \in Entries, batch'[w][e] > 0, pc'[w] # "counts"
      PROVE  batch'[w][e] = delivered'[e]
  <2>1. CASE Shrunk(w)
    <3>1. batch'[w][e] = batch[w][e] /\ pc[w] # "counts"
      BY <1>3, <2>1 DEF Shrunk
    <3>2. batch[w][e] = delivered[e]
      BY <1>3, <3>1 DEF Counted
    <3>3. delivered'[e] = delivered[e]
      BY <1>3, <3>1, HeldUntouched DEF Held
    <3>. QED  BY <3>1, <3>2, <3>3
  <2>2. CASE ReadNew(w) /\ batch'[w] = Delivery(Fresh)
    <3>1. e \in Fresh
      BY <1>3, <2>2, DeliveryEffect
    <3>2. delivered'[e] = 1
      BY <2>2, <3>1 DEF ReadNew, Fresh
    <3>. QED  BY <2>2, <3>1, <3>2 DEF Delivery
  <2>3. CASE DeliveryCounts(w)
    BY <1>3, <2>3, <1>1
  <2>. QED  BY <1>3, <2>1, <2>2, <2>3, BatchMoves
<1>. QED  BY <1>2, <1>3 DEF Counted, Batch

(* A worker comes to dispatch an entry only below the cutoff, and its count *)
(* does not grow in the worker's hands.                                     *)
LEMMA CeilingStep ==
  ASSUME TypeOK, HandlingOK, Firm, Counted, CeilingRespected, [Next]_vars,
         "slow" \notin FaultKinds
  PROVE  CeilingRespected'
<1>. USE DEF redisVars, workerVars, ghostVars
<1>. SUFFICES ASSUME NEW w \in Workers, pc'[w] = "dispatch"
              PROVE  delivered'[cur'[w]] <= MaxDeliveries
  BY DEF CeilingRespected
<1>1. \/ pc[w] = "dispatch" /\ cur'[w] = cur[w]
      \/ \E e \in Entries : Claim(w, e) \/ ClaimUnguarded(w, e)
  <2>1. \A e \in Entries : ParkInvalid(w, e) \/ ParkPoison(w, e) => pc'[w] = "park"
    BY BeginEffect DEF ParkInvalid, ParkPoison
  <2>. QED  BY <2>1, Arrival
<1>2. CASE pc[w] = "dispatch" /\ cur'[w] = cur[w]
  <2>1. cur[w] \in Entries /\ Held(w, cur[w])
    BY <1>2 DEF HandlingOK, Handling, Owning, Held
  <2>2. delivered'[cur[w]] = delivered[cur[w]]
    BY <2>1, HeldUntouched
  <2>. QED  BY <1>2, <2>2 DEF CeilingRespected
<1>3. ASSUME NEW e \in Entries, Claim(w, e) \/ ClaimUnguarded(w, e)
      PROVE  delivered'[cur'[w]] <= MaxDeliveries
  <2>1. /\ batch[w][e] > 0 /\ cur'[w] = e /\ pc[w] = "handle"
        /\ batch[w][e] <= MaxDeliveries
    <3>1. Admitted(w, e) /\ Begin(w, e, "dispatch")
      BY <1>3 DEF Claim, ClaimUnguarded
    <3>. QED  BY <3>1, BeginEffect DEF Admitted
  <2>2. delivered[e] <= MaxDeliveries
    BY <2>1 DEF Counted
  <2>3. delivered'[e] = delivered[e]
    BY <2>1, HeldUntouched DEF Held
  <2>. QED  BY <2>1, <2>2, <2>3
<1>. QED  BY <1>1, <1>2, <1>3

(* The ceiling holds in a fleet that reads one message at a time, when no   *)
(* batch is slower than claim_min_idle_ms and XPENDING can be asked,        *)
(* whatever else fails and however ids compare as strings.                  *)
THEOREM CeilingHolds ==
  ASSUME BatchSize = 1, FaultKinds \cap {"slow", "counts"} = {}
  PROVE  Spec => []CeilingRespected
<1>. DEFINE IInv == Firm /\ Counted /\ CeilingRespected
<1>1. Init => IInv
  BY DEF Init, Firm, Counted, CeilingRespected, Held, Batch, Entries
<1>2. TypeOK /\ HandlingOK /\ IInv /\ [Next]_vars => IInv'
  BY FirmStep, CountedStep, CeilingStep
<1>. QED  BY <1>1, <1>2, TypeCorrect, PTL DEF Spec

=============================================================================
