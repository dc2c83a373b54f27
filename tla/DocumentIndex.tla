---------------------------- MODULE DocumentIndex ----------------------------
(***************************************************************************)
(* What the handlers do to the index: EventHandlers over IngestionPipeline, *)
(* RetrievalPipeline.retrieve and MilvusStore, fed by RagEventPublisher.    *)
(*                                                                         *)
(* Every call to the embedder, the store or the publisher is one step, so   *)
(* that the handlers of several workers interleave between their calls.     *)
(* The bus is what RagWorker makes of it: an entry is held by one worker, a  *)
(* failed one is delivered again later, out of order, and an event id that   *)
(* is claimed turns an entry into a duplicate.                              *)
(***************************************************************************)
EXTENDS Integers, Sequences, FiniteSets

CONSTANTS
  Workers,        \* worker processes
  Requests,       \* the calls clients may make
  MaxEvents,      \* bound: calls in all
  MaxDeliveries,  \* settings.messaging.max_deliveries
  FaultKinds,     \* the failures this instance may suffer
  MaxFaults       \* bound: how many of them, in all

EventTypes == {"document.ingest", "document.delete", "message.index",
               "conversation.delete", "retrieval.request"}

Scopes == {"doc", "chat"}

(* "" stands for a field the caller left out; `text` names a text, which the *)
(* chunker cuts into `size` pieces, none if it is blank; `scopes` may hold    *)
(* one that Scope() rejects.                                                 *)
ASSUME RequestAssumption ==
  \A r \in Requests :
    /\ DOMAIN r = {"type", "tenant", "source", "conv", "text", "size", "scopes", "reply_to"}
    /\ r.type \in EventTypes
    /\ r.tenant # ""
    /\ r.size \in Nat
    /\ r.type \in {"document.ingest", "document.delete", "message.index"} => r.source # ""
    /\ r.type \in {"message.index", "conversation.delete"} => r.conv # ""
    /\ r.type \in {"document.ingest", "document.delete"} => r.conv = ""
    /\ r.type = "conversation.delete" => r.source = ""
    /\ r.reply_to \in BOOLEAN

(* The chunker cuts the same text into the same pieces. *)
ASSUME TextAssumption ==
  \A r, q \in Requests :
    /\ r.type = "document.ingest" /\ q.type = "document.ingest"
    /\ r.text = q.text
    => r.size = q.size

ASSUME IndexBounds ==
  /\ MaxEvents \in Nat
  /\ MaxDeliveries \in Nat \ {0}
  /\ MaxFaults \in Nat
  /\ FaultKinds \subseteq {"crash", "raise", "again"}

VARIABLES
  stream,   \* the calls made, in the order of their entries
  place,    \* where the bus has each entry
  tries,    \* how often it was delivered
  claimed,  \* event ids whose idempotency key exists
  rows,     \* the collection
  pc,       \* the call each worker's handler is at
  job,      \* the entry it handles, 0 if none
  found,    \* what its search returned
  answers,  \* replies published: the entry, and the rows
  begun,    \* history: entries some handler has begun
  crossed,  \* history: entries that wrote after a later one they conflict with began
  faults    \* faults so far

busVars  == <<stream, place, tries, claimed>>
histVars == <<begun, crossed, faults>>
vars == <<busVars, rows, pc, job, found, answers, histVars>>

Entries == 1..MaxEvents

Published == 1..Len(stream)

PCs == {"idle", "delete", "embed", "upsert", "search", "recent", "reply"}

(* One row per piece.  `by` is history: the entry that wrote it. *)
Row == [tenant : {r.tenant : r \in Requests}, source : {r.source : r \in Requests},
        index : Nat, scope : Scopes, conv : {r.conv : r \in Requests},
        text : {r.text : r \in Requests}, by : Entries]

BusOK ==
  /\ stream \in Seq(Requests) /\ Len(stream) <= MaxEvents
  /\ place \in [Entries -> {"unsent", "queued", "held", "waiting", "done",
                            "duplicate", "parked"}]
  /\ \A e \in Entries : place[e] = "unsent" <=> e \notin Published
  /\ tries \in [Entries -> 0..MaxDeliveries]

(* A held entry is with one worker. *)
HandlersOK ==
  /\ pc \in [Workers -> PCs]
  /\ job \in [Workers -> Entries \cup {0}]
  /\ \A w \in Workers : (pc[w] = "idle") <=> (job[w] = 0)
  /\ \A e \in Entries : place[e] = "held" <=> \E w \in Workers : job[w] = e
  /\ \A w, v \in Workers : job[w] = job[v] /\ job[w] # 0 => w = v

(* The primary key is one. *)
RowsOK ==
  /\ rows \subseteq Row
  /\ \A x, y \in rows : <<x.tenant, x.source, x.index>> = <<y.tenant, y.source, y.index>> => x = y

AnswersOK ==
  /\ found \in [Workers -> SUBSET Row]
  /\ \A w \in Workers : found[w] # {} => pc[w] \in {"recent", "reply"}
  /\ \A a \in answers : a.to \in Published /\ a.chunks \subseteq Row

HistoryOK ==
  /\ begun \subseteq Published
  /\ \A w \in Workers : job[w] # 0 => job[w] \in begun
  /\ \A e \in Entries : place[e] = "done" => e \in begun
  /\ crossed \subseteq begun

IndexTypeOK == BusOK /\ HandlersOK /\ RowsOK /\ AnswersOK /\ HistoryOK

-----------------------------------------------------------------------------
(* Reading the calls. *)

Type(e) == stream[e].type

(* The event id RagEventPublisher gives a call.  Deletions carry a fresh     *)
(* uuid and requests their correlation id.  No id names the tenant.  That of  *)
(* a document without a revision holds hash(text), taken here as the text:    *)
(* publishers whose string hashes are salted differently give a text several  *)
(* ids, and recognise fewer duplicates.                                      *)
EventId(e) ==
  CASE Type(e) = "document.ingest" -> <<"doc", stream[e].source, stream[e].text>>
    [] Type(e) = "message.index"   -> <<"msg", stream[e].source>>
    [] OTHER                       -> <<Type(e), e>>

(* Variant of DeleteFilter: not tenant-locked. *)
DeleteFilterAnyTenant(r) ==
  {x \in rows :
     /\ r.source # "" => x.source = r.source
     /\ r.type = "conversation.delete" => x.conv = r.conv}

(* delete_filter: the tenant and, as far as given, source and conversation.  *)
DeleteFilter(r) ==
  {x \in rows :
     /\ x.tenant = r.tenant
     /\ r.source # "" => x.source = r.source
     /\ r.type = "conversation.delete" => x.conv = r.conv}

(* The scopes a request asks for; an empty list asks for both. *)
Asked(r) == IF r.scopes = {} THEN Scopes ELSE r.scopes

(* build_filter: chat rows only of the conversation given. *)
BuildFilter(r) ==
  {x \in rows :
     /\ x.tenant = r.tenant
     /\ \/ x.scope = "doc" /\ "doc" \in Asked(r)
        \/ x.scope = "chat" /\ "chat" \in Asked(r) /\ r.conv # "" /\ x.conv = r.conv}

(* build_filter raises when no scope contributes a clause. *)
FilterEmpty(r) == "doc" \notin Asked(r) /\ r.conv = ""

(* The Chunk list of ingest_document and index_message, as rows. *)
Chunks(e) ==
  LET r == stream[e] IN
  {[tenant |-> r.tenant, source |-> r.source, index |-> i,
    scope |-> IF r.type = "message.index" THEN "chat" ELSE "doc",
    conv |-> r.conv, text |-> r.text, by |-> e] : i \in 0..r.size - 1}

(* deterministic_chunk_id *)
ChunkId(x) == <<x.tenant, x.source, x.index>>

(* Variant of Upserted: the primary key leaves out the tenant. *)
UpsertedAcrossTenants(new) ==
  {x \in rows : \A y \in new : <<x.source, x.index>> # <<y.source, y.index>>} \cup new

(* Variant of Upserted: an insert. *)
Inserted(new) == rows \cup new

(* MilvusStore.upsert: a row replaces the one of its key, and no other. *)
Upserted(new) ==
  {x \in rows : \A y \in new : ChunkId(x) # ChunkId(y)} \cup new

(* Handlers that delete by filter. *)
Clears(e) == Type(e) \in {"document.ingest", "document.delete", "conversation.delete"}

Writes(e) == Type(e) # "retrieval.request"

(* Two calls whose order matters. *)
Conflict(e, f) ==
  LET r == stream[e]  s == stream[f] IN
  /\ e # f /\ Writes(e) /\ Writes(f)
  /\ r.tenant = s.tenant
  /\ \/ r.source # "" /\ r.source = s.source
     \/ /\ "conversation.delete" \in {r.type, s.type}
        /\ r.conv = s.conv

Fault(kind) ==
  /\ kind \in FaultKinds
  /\ faults < MaxFaults
  /\ faults' = faults + 1

-----------------------------------------------------------------------------
Init ==
  /\ stream = <<>>
  /\ place = [e \in Entries |-> "unsent"]
  /\ tries = [e \in Entries |-> 0]
  /\ claimed = {}
  /\ rows = {}
  /\ pc = [w \in Workers |-> "idle"]
  /\ job = [w \in Workers |-> 0]
  /\ found = [w \in Workers |-> {}]
  /\ answers = {}
  /\ begun = {}
  /\ crossed = {}
  /\ faults = 0

(* RagEventPublisher: any client makes any call. *)
Publish(r) ==
  /\ Len(stream) < MaxEvents
  /\ stream' = Append(stream, r)
  /\ place' = [place EXCEPT ![Len(stream) + 1] = "queued"]
  /\ UNCHANGED <<tries, claimed, rows, pc, job, found, answers, histVars>>

(* An idle worker is given a new entry, or a failed one.  A new one may begin *)
(* before an earlier one, which waits in the batch of another worker.        *)
Deliverable(e) == place[e] \in {"queued", "waiting"}

(* handle, before the dispatch: the ceiling, then the key. *)
Skip(w, e) ==
  /\ pc[w] = "idle" /\ Deliverable(e)
  /\ \/ /\ tries[e] >= MaxDeliveries
        /\ place' = [place EXCEPT ![e] = "parked"]
     \/ /\ tries[e] < MaxDeliveries
        /\ EventId(e) \in claimed
        /\ place' = [place EXCEPT ![e] = "duplicate"]
  /\ UNCHANGED <<stream, tries, claimed, rows, pc, job, found, answers, histVars>>

(* The first call the handler of e makes. *)
FirstCall(e) == IF Clears(e) THEN "delete" ELSE "embed"

(* dispatch of an event with a call to make. *)
Begin(w, e) ==
  /\ pc[w] = "idle" /\ Deliverable(e)
  /\ tries[e] < MaxDeliveries
  /\ EventId(e) \notin claimed
  /\ place' = [place EXCEPT ![e] = "held"]
  /\ tries' = [tries EXCEPT ![e] = @ + 1]
  /\ claimed' = claimed \cup {EventId(e)}
  /\ pc' = [pc EXCEPT ![w] = FirstCall(e)]
  /\ job' = [job EXCEPT ![w] = e]
  /\ begun' = begun \cup {e}
  /\ UNCHANGED <<stream, rows, found, answers, crossed, faults>>

(* The handler goes on to another call. *)
GoOn(w, to) ==
  /\ pc' = [pc EXCEPT ![w] = to]
  /\ UNCHANGED <<busVars, job>>

Leave(w, to) ==
  /\ pc' = [pc EXCEPT ![w] = "idle"]
  /\ job' = [job EXCEPT ![w] = 0]
  /\ place' = [place EXCEPT ![job[w]] = to]
  /\ UNCHANGED <<stream, tries>>

(* The handler returned: the entry is acked and its key stays. *)
Return(w) == Leave(w, "done") /\ UNCHANGED claimed

(* The handler raised: the key is released and the entry stays pending. *)
Raised(w) == Leave(w, "waiting") /\ claimed' = claimed \ {EventId(job[w])}

(* Entry e writes to the collection. *)
Write(e, new) ==
  /\ rows' = new
  /\ crossed' = crossed \cup
       (IF \E f \in begun : f > e /\ Conflict(e, f) THEN {e} ELSE {})

(* Variant of Delete: an ingest leaves the previous version to the upsert. *)
DeleteOnlyOnRequest(w) ==
  LET e == job[w] IN
  /\ pc[w] = "delete"
  /\ IF Type(e) = "document.ingest" /\ stream[e].size > 0
     THEN UNCHANGED <<rows, crossed>> /\ GoOn(w, "embed")
     ELSE Write(e, rows \ DeleteFilter(stream[e])) /\ Return(w)
  /\ UNCHANGED <<found, answers, begun, faults>>

(* on_document_delete, on_conversation_delete, and the first half of         *)
(* on_document_ingest, which is all of it for a text without pieces.         *)
Delete(w) ==
  LET e == job[w] IN
  /\ pc[w] = "delete"
  /\ Write(e, rows \ DeleteFilter(stream[e]))
  /\ IF Type(e) = "document.ingest" /\ stream[e].size > 0
     THEN GoOn(w, "embed")
     ELSE Return(w)
  /\ UNCHANGED <<found, answers, begun, faults>>

(* What is settled before any call is made: a blank message or question, a   *)
(* scope that is no Scope, a filter that would match nothing.                *)
Settled(e) ==
  LET r == stream[e] IN
  \/ Type(e) = "message.index" /\ r.size = 0
  \/ Type(e) = "retrieval.request" /\
       (r.size = 0 \/ ~(r.scopes \subseteq Scopes) \/ FilterEmpty(r))

(* Nothing to index; PermanentError; an empty answer; FilterError. *)
Settle(w) ==
  LET r == stream[job[w]] IN
  /\ pc[w] = "embed" /\ Settled(job[w])
  /\ CASE r.type = "message.index"      -> Return(w)
       [] OTHER ->
            \/ ~(r.scopes \subseteq Scopes) /\ Leave(w, "parked") /\ UNCHANGED claimed
            \/ r.scopes \subseteq Scopes /\ r.size = 0 /\ GoOn(w, "reply")
            \/ r.scopes \subseteq Scopes /\ r.size > 0 /\ Raised(w)
  /\ UNCHANGED <<rows, found, answers, histVars>>

(* embed_documents, or embed_query. *)
Embed(w) ==
  /\ pc[w] = "embed" /\ ~Settled(job[w])
  /\ GoOn(w, IF Writes(job[w]) THEN "upsert" ELSE "search")
  /\ UNCHANGED <<rows, found, answers, histVars>>

(* The second half of ingest_document, and index_message. *)
Upsert(w) ==
  /\ pc[w] = "upsert"
  /\ Write(job[w], Upserted(Chunks(job[w])))
  /\ Return(w)
  /\ UNCHANGED <<found, answers, begun, faults>>

(* hybrid_search, without a limit on the hits.  The rows are those written    *)
(* when it is made: a collection read with bounded staleness (config.py 80)   *)
(* may show the rows of an earlier moment.                                   *)
Search(w) ==
  /\ pc[w] = "search"
  /\ found' = [found EXCEPT ![w] = BuildFilter(stream[job[w]])]
  /\ GoOn(w, IF stream[job[w]].conv = "" THEN "reply" ELSE "recent")
  /\ UNCHANGED <<rows, answers, histVars>>

(* Variant of RecentTurns: not of the tenant. *)
RecentTurnsAnyTenant(r) == {x \in rows : x.scope = "chat" /\ x.conv = r.conv}

(* The filter of recent_turns, whatever scopes were asked for. *)
RecentTurns(r) == {x \in rows : x.tenant = r.tenant /\ x.scope = "chat" /\ x.conv = r.conv}

(* _merge_recent: the turns read now, and of the hits those with other ids.  *)
(* When the query fails the hits are the answer.  It reads as Search does.   *)
Recent(w) ==
  LET recent == RecentTurns(stream[job[w]]) IN
  /\ pc[w] = "recent"
  /\ \/ /\ found' = [found EXCEPT ![w] =
               recent \cup {x \in @ : \A y \in recent : ChunkId(x) # ChunkId(y)}]
        /\ UNCHANGED faults
     \/ /\ Fault("raise")
        /\ UNCHANGED found
  /\ GoOn(w, "reply")
  /\ UNCHANGED <<rows, answers, begun, crossed>>

(* The reply is published; with nowhere to send it the entry is parked. *)
Reply(w) ==
  /\ pc[w] = "reply"
  /\ IF stream[job[w]].reply_to
     THEN /\ answers' = answers \cup {[to |-> job[w], chunks |-> found[w]]}
          /\ Return(w)
     ELSE /\ Leave(w, "parked")
          /\ UNCHANGED <<answers, claimed>>
  /\ found' = [found EXCEPT ![w] = {}]
  /\ UNCHANGED <<rows, histVars>>

(* The call a handler is at raises, before or after the store has done it.   *)
Raise(w) ==
  LET e == job[w] IN
  /\ pc[w] \notin {"idle", "recent"}
  /\ pc[w] = "embed" => ~Settled(e)
  /\ Fault("raise")
  /\ \/ UNCHANGED <<rows, crossed>>
     \/ pc[w] = "delete" /\ Write(e, rows \ DeleteFilter(stream[e]))
     \/ pc[w] = "upsert" /\ Write(e, Upserted(Chunks(e)))
  /\ Raised(w)
  /\ found' = [found EXCEPT ![w] = {}]
  /\ UNCHANGED <<answers, begun>>

(* The process dies: its key stays, so its entry will be a duplicate. *)
Crash(w) ==
  /\ pc[w] # "idle"
  /\ Fault("crash")
  /\ Leave(w, "waiting")
  /\ found' = [found EXCEPT ![w] = {}]
  /\ UNCHANGED <<claimed, rows, answers, begun, crossed>>

(* The ack of a handled entry failed, and by the time it is delivered again  *)
(* its key has expired or the guard cannot be asked.                         *)
Again(e) ==
  /\ place[e] = "done"
  /\ Fault("again")
  /\ place' = [place EXCEPT ![e] = "waiting"]
  /\ claimed' = claimed \ {EventId(e)}
  /\ UNCHANGED <<stream, tries, rows, pc, job, found, answers, begun, crossed>>

Call(w) ==
  \/ Delete(w) \/ Settle(w) \/ Embed(w) \/ Upsert(w)
  \/ Search(w) \/ Recent(w) \/ Reply(w)

Next ==
  \/ \E r \in Requests : Publish(r)
  \/ \E e \in Published : Again(e)
  \/ \E w \in Workers : Call(w) \/ Raise(w) \/ Crash(w)
  \/ \E w \in Workers, e \in Published : Skip(w, e) \/ Begin(w, e)

Spec == Init /\ [][Next]_vars

-----------------------------------------------------------------------------
(* The inductive invariant of the proofs. *)

(* A handler makes only the calls of its event. *)
CallsFit ==
  \A w \in Workers :
    /\ pc[w] = "delete" => Clears(job[w])
    /\ pc[w] \in {"search", "recent", "reply"} => ~Writes(job[w])

(* A row is a piece of the call that wrote it. *)
RowsSaid == \A x \in rows : x.by \in Published /\ x \in Chunks(x.by)

(* Call e has deleted: it is done, or about to write. *)
HasDeleted(e) ==
  \/ place[e] = "done"
  \/ \E w \in Workers : job[w] = e /\ pc[w] \in {"embed", "upsert"}

(* What a later call has deleted is there only if it was written again. *)
DeletedGone ==
  \A x \in rows : \A f \in Published :
    f > x.by /\ Conflict(f, x.by) /\ Clears(f) /\ HasDeleted(f) => x.by \in crossed

(* Row x may be shown to who asked r.  Chat need not be among the scopes: the *)
(* recent turns of the conversation named are shown whatever was asked for.   *)
Allowed(r, x) ==
  /\ x.tenant = r.tenant
  /\ x.scope = "doc" => "doc" \in Asked(r)
  /\ x.scope = "chat" => x.conv = r.conv

FoundAllowed == \A w \in Workers : \A x \in found[w] : Allowed(stream[job[w]], x)

IndexInv == IndexTypeOK /\ CallsFit /\ RowsSaid /\ DeletedGone /\ FoundAllowed

-----------------------------------------------------------------------------
(* Properties. *)

Documents == {<<r.tenant, r.source>> : r \in {q \in Requests : q.type = "document.ingest"}}

RowsOf(d) == {x \in rows : <<x.tenant, x.source>> = d}

CallsOn(d) ==
  {e \in Published : Writes(e) /\ <<stream[e].tenant, stream[e].source>> = d}

(* A call on d was carried out after a later one had begun. *)
Crossed(d) == CallsOn(d) \cap crossed # {}

(* The pieces of a document as a reader sees them, without who wrote them. *)
Pieces(S) == {<<x.index, x.text>> : x \in S}

(* At every moment a document shows one revision, whole, or nothing          *)
(* (ingest_document 43-48: a shorter revision leaves no orphans); only calls *)
(* carried out of order, interleaved or retried, can mix two.                *)
OneRevision ==
  \A d \in Documents :
    ~Crossed(d) /\ RowsOf(d) # {} =>
      \E e \in CallsOn(d) : Pieces(RowsOf(d)) = Pieces(Chunks(e))

(* Rows outlive a completed later delete or revision only if the call that   *)
(* wrote them was carried out after it: deleted text comes back in no other   *)
(* way (on_document_delete 71, on_conversation_delete 87).                   *)
ComebackExplained ==
  \A x \in rows : \A f \in Published :
    f > x.by /\ Conflict(f, x.by) /\ Clears(f) /\ place[f] = "done" =>
      x.by \in crossed

(* What call e leaves of its document. *)
Said(e) == IF Type(e) = "document.ingest" THEN Chunks(e) ELSE {}

(* The index says of document d what call e said. *)
Says(d, e) == Pieces(RowsOf(d)) = Pieces(Said(e))

(* An event id taken for e's although e was never carried out: e's own, after  *)
(* a crash; another tenant's; that of a call which failed; or that of a call  *)
(* which another one on the same document has followed, the document being    *)
(* changed and changed back.                                                  *)
FalseDuplicate(e) ==
  \/ e \in begun
  \/ \E f \in Published \ {e} :
       /\ EventId(f) = EventId(e)
       /\ \/ stream[f].tenant # stream[e].tenant
          \/ place[f] # "done"
          \/ \E g \in (f + 1)..(e - 1) : Conflict(g, e)

(* Once the last call on a document is handled, or skipped as a duplicate, the *)
(* index says what it said, unless an earlier call was carried out after it    *)
(* or the duplicate was none: the ids of ingest_document name no tenant and,   *)
(* by default, only the text (client.py 89-96).                              *)
IndexCurrent ==
  \A d \in Documents : \A e \in CallsOn(d) :
    (\A f \in CallsOn(d) : f <= e) /\ ~Crossed(d) =>
      /\ place[e] = "done" => Says(d, e)
      /\ place[e] = "duplicate" => Says(d, e) \/ FalseDuplicate(e)

(* A document that was indexed is empty only because it was removed, or      *)
(* because an ingest has deleted it and not written it: running, failed,     *)
(* crashed or parked (ingest_document 78-79).                                *)
EmptyExplained ==
  \A d \in Documents : \A e \in CallsOn(d) :
    /\ Type(e) = "document.ingest" /\ stream[e].size > 0
    /\ place[e] = "done"
    /\ RowsOf(d) = {}
    => \E f \in CallsOn(d) \cap begun :
         \/ place[f] # "done"
         \/ Chunks(f) = {} \/ Type(f) = "document.delete"

(* The index as a reader of documents sees it. *)
Store == INSTANCE DocumentStore WITH
  Calls <- Entries,
  Texts <- {{<<i, r.text>> : i \in 0..r.size - 1} : r \in Requests} \cup {{}},
  said  <- [d \in Documents |-> [e \in CallsOn(d) \cap begun |-> Pieces(Said(e))]],
  shown <- [d \in Documents |-> Pieces(RowsOf(d))],
  loose <- {d \in Documents : Crossed(d)}

(* Readers see the moves of DocumentStore and no others: a document goes from *)
(* one revision to nothing and from nothing to what its newest call says, all *)
(* of it at once, and never back (ingest_document 78-79).                    *)
ReadersNeverGoBack == Store!Spec

(* An answer holds rows of the asker's tenant only, documents only if they    *)
(* were asked for, and chat only of the conversation it named, which the      *)
(* recent turns bring in even if the scopes leave chat out (build_filter      *)
(* 36-46, recent_turns 93-97).                                               *)
AnswerIsolated ==
  \A a \in answers : \A x \in a.chunks : Allowed(stream[a.to], x)

=============================================================================
