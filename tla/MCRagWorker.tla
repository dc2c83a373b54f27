----------------------------- MODULE MCRagWorker -----------------------------
(* Small fleets for TLC: what each stream entry carries, and string order. *)
EXTENDS RagWorker, TLC

CONSTANTS w1, w2, evA, evB, evC, garbled, invalid

(* A retried publish: two entries carry one event. *)
BodyRetried == <<evA, evA>>

(* Every kind of body, the undecodable one at the head of the list. *)
BodyMixed == <<garbled, evA, invalid>>

(* One event per entry. *)
BodyDistinct == <<evA, evB>>

(* Enough entries for one to lie between two others. *)
BodyThree == <<evA, evB, evC>>

(* String order agrees with stream order. *)
RankSame == [e \in Entries |-> e]

(* As for the stream ids "...-9" and "...-10". *)
RankReversed == [e \in Entries |-> NumEntries - e]

Symmetric == Permutations(Workers)
=============================================================================
