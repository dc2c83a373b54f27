---------------------------- MODULE DocumentStore ----------------------------
(***************************************************************************)
(* What the index promises the reader of a document: nothing, or what the   *)
(* newest call on it said, and no going back.  Workers, chunks, keys and     *)
(* retries do not appear here; DocumentIndex implements this.               *)
(***************************************************************************)
EXTENDS Integers

CONSTANTS
  Documents,
  Calls,   \* positions of calls in the order they were made
  Texts    \* what a call may say, {} for a removal

VARIABLES
  said,   \* per document, what each call on it that has begun says
  shown,  \* per document, what a reader sees
  loose   \* documents whose calls were carried out of order

storeState == <<said, shown, loose>>

Init ==
  /\ said = [d \in Documents |-> [e \in {} |-> {}]]
  /\ shown = [d \in Documents |-> {}]
  /\ loose = {}

(* A call on d, new or late, is begun. *)
Begin(d, e) ==
  /\ e \notin DOMAIN said[d]
  /\ \E text \in Texts :
       said' = [said EXCEPT ![d] =
         [f \in DOMAIN said[d] \cup {e} |-> IF f = e THEN text ELSE said[d][f]]]
  /\ UNCHANGED shown

(* No later call on d than e has begun. *)
Newest(d, e) == e \in DOMAIN said[d] /\ \A f \in DOMAIN said[d] : f <= e

(* The newest call removes what there is. *)
Clear(d, e) ==
  /\ Newest(d, e)
  /\ shown' = [shown EXCEPT ![d] = {}]
  /\ UNCHANGED said

(* The newest call shows all it says, where nothing is shown. *)
Show(d, e) ==
  /\ Newest(d, e)
  /\ shown[d] = {}
  /\ shown' = [shown EXCEPT ![d] = said[d][e]]
  /\ UNCHANGED said

(* Nothing is promised of a document whose calls crossed. *)
Slip(d) ==
  /\ d \in loose'
  /\ shown' = [shown EXCEPT ![d] = shown'[d]]
  /\ UNCHANGED said

Next ==
  /\ loose \subseteq loose' /\ loose' \subseteq Documents
  /\ \/ UNCHANGED <<said, shown>>
     \/ \E d \in Documents :
          \/ Slip(d)
          \/ \E e \in Calls : Begin(d, e) \/ Clear(d, e) \/ Show(d, e)

Spec == Init /\ [][Next]_storeState

=============================================================================
