--------------------------- MODULE MCDocumentIndex ---------------------------
(* Small sets of calls for TLC. *)
EXTENDS DocumentIndex, TLC

CONSTANTS w1, w2, t1, t2, doc, msg, chat, other, textA, textB, noText, hello

Call0 == [type |-> "document.ingest", tenant |-> t1, source |-> doc, conv |-> "",
          text |-> noText, size |-> 0, scopes |-> {}, reply_to |-> FALSE]

(* A long revision of a document, a short one, an empty one, and its removal. *)
Revisions ==
  {[Call0 EXCEPT !.text = textA, !.size = 2],
   [Call0 EXCEPT !.text = textB, !.size = 1],
   Call0,
   [Call0 EXCEPT !.type = "document.delete"]}

(* Another tenant's document of the same id and text. *)
Neighbour == {[Call0 EXCEPT !.tenant = t2, !.text = textB, !.size = 1]}

(* A chat message, a blank one, and the end of its conversation. *)
Chat ==
  {[Call0 EXCEPT !.type = "message.index", !.source = msg, !.conv = chat,
                 !.text = hello, !.size = 1],
   [Call0 EXCEPT !.type = "message.index", !.source = msg, !.conv = chat],
   [Call0 EXCEPT !.type = "conversation.delete", !.source = "", !.conv = chat]}

(* Questions: within the conversation, without one, for chat only without    *)
(* one, with an unknown scope, and a blank one with nowhere to send the answer. *)
Question(conv, scopes, reply) ==
  [Call0 EXCEPT !.type = "retrieval.request", !.source = "", !.conv = conv,
                !.size = 1, !.scopes = scopes, !.reply_to = reply]

(* Chat no question may show: another tenant's, in a conversation of the same *)
(* name, and that of another conversation.                                  *)
Elsewhere ==
  LET said == [Call0 EXCEPT !.type = "message.index", !.source = msg, !.conv = chat,
                            !.text = hello, !.size = 1]
  IN  {[said EXCEPT !.tenant = t2], [said EXCEPT !.conv = other]}

Questions ==
  {Question(chat, {"doc", "chat"}, TRUE), Question("", {}, TRUE),
   Question("", {"chat"}, TRUE), Question(chat, {"chat"}, TRUE),
   Question("", {"doc", "wiki"}, TRUE),
   [Question("", {"doc"}, FALSE) EXCEPT !.size = 0]}

AllCalls == Revisions \cup Neighbour \cup Chat \cup Elsewhere \cup Questions

(* Calls that leave the rows alone do not meet each other: one is enough, and *)
(* first, as no write conflicts with it and calls begin in any order.        *)
OneIdleCall ==
  \A e \in Published : ~Clears(e) /\ (~Writes(e) \/ Chunks(e) = {}) => e = 1

(* Two faults where all calls are on documents; elsewhere one is enough. *)
FewFaults ==
  (\E e \in Published : Type(e) \notin {"document.ingest", "document.delete"}) => faults <= 1

(* Chat elsewhere matters where something is asked. *)
ElsewhereAsked ==
  \A e \in Published : stream[e] \in Elsewhere => Type(1) = "retrieval.request"

Small == OneIdleCall /\ FewFaults /\ ElsewhereAsked

Symmetric == Permutations(Workers)
=============================================================================
