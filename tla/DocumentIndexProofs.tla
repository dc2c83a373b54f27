------------------------- MODULE DocumentIndexProofs -------------------------
(***************************************************************************)
(* Proofs about DocumentIndex, for any workers, calls and faults.           *)
(***************************************************************************)
EXTENDS DocumentIndex, TLAPS

-----------------------------------------------------------------------------
(* Rows and chunks. *)

(* A call that was published is one of the requests. *)
LEMMA CallIsRequest ==
  ASSUME BusOK, NEW e \in Published
  PROVE  stream[e] \in Requests /\ e \in Entries
<1>1. stream \in Seq(Requests) /\ Len(stream) <= MaxEvents
  BY DEF BusOK
<1>2. Len(stream) \in Nat /\ DOMAIN stream = 1..Len(stream)
  BY <1>1
<1>3. e \in 1..Len(stream)
  BY DEF Published
<1>4. stream[e] \in Requests
  BY <1>1, <1>3
<1>5. e \in 1..MaxEvents
  BY <1>1, <1>2, <1>3, IndexBounds
<1>6. QED
  BY <1>4, <1>5 DEF Entries

(* The pieces of a call are rows, and their keys differ. *)
LEMMA ChunksAreRows ==
  ASSUME BusOK, NEW e \in Published
  PROVE  /\ Chunks(e) \subseteq Row
         /\ \A x \in Chunks(e) : x.by = e
         /\ \A x, y \in Chunks(e) : x.index = y.index => x = y
<1> DEFINE r == stream[e]
<1>1. r \in Requests /\ e \in Entries
  BY CallIsRequest
<1>2. r.size \in Nat
  BY <1>1, RequestAssumption
<1>3. 0..r.size - 1 \subseteq Nat
  BY <1>2
<1>4. {"chat", "doc"} = Scopes
  BY DEF Scopes
<1>5. ASSUME NEW x \in Chunks(e)
      PROVE  x \in Row /\ x.by = e
  <2>1. PICK i \in 0..r.size - 1 :
          x = [tenant |-> r.tenant, source |-> r.source, index |-> i,
               scope |-> IF r.type = "message.index" THEN "chat" ELSE "doc",
               conv |-> r.conv, text |-> r.text, by |-> e]
    BY <1>5 DEF Chunks
  <2>2. QED
    BY <2>1, <1>1, <1>3, <1>4 DEF Row
<1>6. ASSUME NEW x \in Chunks(e), NEW y \in Chunks(e), x.index = y.index
      PROVE  x = y
  BY <1>6 DEF Chunks
<1>7. QED
  BY <1>5, <1>6

(* What a piece says of its call. *)
LEMMA ChunkFields ==
  ASSUME NEW e, NEW x \in Chunks(e)
  PROVE  /\ x.tenant = stream[e].tenant
         /\ x.source = stream[e].source
         /\ x.conv = stream[e].conv
         /\ x.by = e
BY DEF Chunks

(* An upsert keeps one row for each key. *)
LEMMA UpsertKeepsKeys ==
  ASSUME BusOK, RowsOK, NEW e \in Published, rows' = Upserted(Chunks(e))
  PROVE  RowsOK'
<1>1. /\ Chunks(e) \subseteq Row
      /\ \A x, y \in Chunks(e) : x.index = y.index => x = y
  BY ChunksAreRows
<1>2. \A x, y \in Upserted(Chunks(e)) :
        <<x.tenant, x.source, x.index>> = <<y.tenant, y.source, y.index>> => x = y
  BY <1>1 DEF Upserted, ChunkId, RowsOK
<1>3. Upserted(Chunks(e)) \subseteq Row
  BY <1>1 DEF Upserted, RowsOK
<1>4. Row' = Row
  BY DEF Row, Entries, Scopes
<1>5. QED
  BY <1>2, <1>3, <1>4 DEF RowsOK

(* A deletion leaves a part of the rows. *)
LEMMA FewerRows ==
  ASSUME RowsOK, rows' \subseteq rows
  PROVE  RowsOK'
BY DEF RowsOK, Row, Entries, Scopes

(* Filters select among the rows. *)
LEMMA FiltersSelect ==
  ASSUME NEW r
  PROVE  DeleteFilter(r) \subseteq rows /\ BuildFilter(r) \subseteq rows /\ RecentTurns(r) \subseteq rows
BY DEF DeleteFilter, BuildFilter, RecentTurns

(* A call that clears removes every row of a call it conflicts with. *)
LEMMA DeleteRemovesConflicts ==
  ASSUME BusOK, NEW e \in Published, Clears(e),
         NEW g \in Published, NEW x \in rows, x \in Chunks(g), Conflict(e, g)
  PROVE  x \in DeleteFilter(stream[e])
<1>1. /\ x.tenant = stream[g].tenant /\ x.source = stream[g].source
      /\ x.conv = stream[g].conv
  BY ChunkFields
<1>2. stream[e] \in Requests
  BY CallIsRequest
<1>3. stream[g] \in Requests
  BY CallIsRequest
<1>4. QED
  BY <1>1, <1>2, <1>3, RequestAssumption DEF DeleteFilter, Conflict, Clears, Type

-----------------------------------------------------------------------------
(* What a worker's step does, whichever call its handler is at. *)

(* A step of a worker that is neither Skip nor Begin. *)
Working(w) == Call(w) \/ Raise(w) \/ Crash(w)

(* The handler goes on to another call, or leaves its entry. *)
LEMMA WorkingMoves ==
  ASSUME NEW w \in Workers, Working(w)
  PROVE  /\ pc[w] # "idle"
         /\ stream' = stream /\ tries' = tries /\ begun' = begun
         /\ \/ \E to \in PCs \ {"idle"} : GoOn(w, to)
            \/ \E to \in {"waiting", "done", "parked"} : Leave(w, to)
<1>1. CASE Delete(w)
  <2>1. GoOn(w, "embed") \/ Leave(w, "done")
    BY <1>1 DEF Delete, Return
  <2>2. pc[w] # "idle" /\ begun' = begun
    BY <1>1 DEF Delete
  <2>3. QED
    BY <2>1, <2>2 DEF GoOn, Leave, busVars, PCs
<1>2. CASE Settle(w)
  <2>1. GoOn(w, "reply") \/ Leave(w, "done") \/ Leave(w, "parked") \/ Leave(w, "waiting")
    BY <1>2 DEF Settle, Return, Raised
  <2>2. pc[w] # "idle" /\ begun' = begun
    BY <1>2 DEF Settle, histVars
  <2>3. QED
    BY <2>1, <2>2 DEF GoOn, Leave, busVars, PCs
<1>3. CASE Embed(w) \/ Search(w) \/ Recent(w)
  <2>1. \E to \in PCs \ {"idle"} : GoOn(w, to)
    BY <1>3 DEF Embed, Search, Recent, PCs
  <2>2. pc[w] # "idle" /\ begun' = begun
    BY <1>3 DEF Embed, Search, Recent, histVars
  <2>3. QED
    BY <2>1, <2>2 DEF GoOn, busVars
<1>4. CASE Upsert(w) \/ Reply(w)
  <2>1. Leave(w, "done") \/ Leave(w, "parked")
    BY <1>4 DEF Upsert, Reply, Return
  <2>2. pc[w] # "idle" /\ begun' = begun
    BY <1>4 DEF Upsert, Reply, histVars
  <2>3. QED
    BY <2>1, <2>2 DEF Leave
<1>5. CASE Raise(w) \/ Crash(w)
  <2>1. Leave(w, "waiting")
    BY <1>5 DEF Raise, Raised, Crash
  <2>2. pc[w] # "idle" /\ begun' = begun
    BY <1>5 DEF Raise, Crash
  <2>3. QED
    BY <2>1, <2>2 DEF Leave
<1>6. QED
  BY <1>1, <1>2, <1>3, <1>4, <1>5 DEF Working, Call

(* It leaves the rows alone, deletes by its filter, or writes its pieces. *)
LEMMA WorkingWrites ==
  ASSUME NEW w \in Workers, Working(w)
  PROVE  \/ UNCHANGED <<rows, crossed>>
         \/ pc[w] = "delete" /\ Write(job[w], rows \ DeleteFilter(stream[job[w]]))
         \/ pc[w] = "upsert" /\ Write(job[w], Upserted(Chunks(job[w])))
<1>1. CASE Delete(w) \/ Upsert(w) \/ Raise(w)
  BY <1>1 DEF Delete, Upsert, Raise
<1>2. CASE Settle(w) \/ Embed(w) \/ Search(w) \/ Recent(w) \/ Reply(w) \/ Crash(w)
  BY <1>2 DEF Settle, Embed, Search, Recent, Reply, Crash, histVars
<1>3. QED
  BY <1>1, <1>2 DEF Working, Call

(* What its search found stays, is dropped, or comes from a filter. *)
LEMMA WorkingFinds ==
  ASSUME HandlersOK, AnswersOK, NEW w \in Workers, Working(w)
  PROVE  /\ \/ found' = found
            \/ found' = [found EXCEPT ![w] = {}]
            \/ found' = [found EXCEPT ![w] = BuildFilter(stream[job[w]])]
            \/ \E S \in SUBSET found[w] :
                 found' = [found EXCEPT ![w] = RecentTurns(stream[job[w]]) \cup S]
         /\ \/ answers' = answers
            \/ answers' = answers \cup {[to |-> job[w], chunks |-> found[w]]}
         /\ found'[w] # {} => pc'[w] \in {"recent", "reply"} /\ job'[w] = job[w]
<1>0. found \in [Workers -> SUBSET Row] /\ (found[w] # {} => pc[w] \in {"recent", "reply"})
      /\ pc \in [Workers -> PCs]
  BY DEF AnswersOK, HandlersOK
<1>1. CASE Delete(w) \/ Settle(w) \/ Embed(w) \/ Upsert(w)
  <2>1. UNCHANGED <<found, answers>> /\ pc[w] \notin {"recent", "reply"}
    BY <1>1 DEF Delete, Settle, Embed, Upsert
  <2>2. QED
    BY <2>1, <1>0
<1>2. CASE Search(w)
  <2>1. /\ found' = [found EXCEPT ![w] = BuildFilter(stream[job[w]])]
        /\ answers' = answers /\ job' = job
        /\ pc'  = [pc EXCEPT ![w] = "reply"] \/ pc'  = [pc EXCEPT ![w] = "recent"]
    BY <1>2 DEF Search, GoOn
  <2>2. QED
    BY <2>1, <1>0
<1>3. CASE Recent(w)
  <2> DEFINE recent == RecentTurns(stream[job[w]])
             S == {x \in found[w] : \A y \in recent : ChunkId(x) # ChunkId(y)}
  <2>1. /\ \/ found' = [found EXCEPT ![w] = recent \cup S]
           \/ found' = found
        /\ answers' = answers /\ job' = job
        /\ pc'  = [pc EXCEPT ![w] = "reply"]
    BY <1>3 DEF Recent, GoOn
  <2>2. S \in SUBSET found[w]
    OBVIOUS
  <2> HIDE DEF S
  <2>3. QED
    BY <2>1, <2>2, <1>0
<1>4. CASE Reply(w) \/ Raise(w) \/ Crash(w)
  <2>1. /\ found' = [found EXCEPT ![w] = {}]
        /\ \/ answers' = answers
           \/ answers' = answers \cup {[to |-> job[w], chunks |-> found[w]]}
    BY <1>4 DEF Reply, Raise, Crash
  <2>2. found'[w] = {}
    BY <2>1, <1>0
  <2>3. QED
    BY <2>1, <2>2
<1>5. QED
  BY <1>1, <1>2, <1>3, <1>4 DEF Working, Call

-----------------------------------------------------------------------------
(* The type invariant is kept. *)

(* Going on to another call keeps who holds what. *)
LEMMA GoOnKeeps ==
  ASSUME BusOK, HandlersOK, NEW w \in Workers, pc[w] # "idle",
         NEW to \in PCs \ {"idle"}, GoOn(w, to)
  PROVE  BusOK' /\ HandlersOK'
<1>1. UNCHANGED <<stream, place, tries, job>> /\ pc' = [pc EXCEPT ![w] = to]
  BY DEF GoOn, busVars
<1>2. BusOK'
  BY <1>1 DEF BusOK, Published
<1>3. HandlersOK'
  BY <1>1 DEF HandlersOK, Entries
<1>4. QED
  BY <1>2, <1>3

(* So does leaving an entry. *)
LEMMA LeaveKeeps ==
  ASSUME BusOK, HandlersOK, NEW w \in Workers, pc[w] # "idle",
         NEW to \in {"waiting", "done", "parked"}, Leave(w, to)
  PROVE  BusOK' /\ HandlersOK'
<1>1. /\ UNCHANGED <<stream, tries>>
      /\ pc' = [pc EXCEPT ![w] = "idle"]
      /\ job' = [job EXCEPT ![w] = 0]
      /\ place' = [place EXCEPT ![job[w]] = to]
  BY DEF Leave
<1>2. job[w] \in Entries /\ job[w] # 0 /\ place[job[w]] = "held"
  BY DEF HandlersOK
<1>3. job[w] \in Published
  BY <1>2 DEF BusOK
<1>4. BusOK'
  BY <1>1, <1>2, <1>3 DEF BusOK, Published
<1>5. pc' \in [Workers -> PCs] /\ job' \in [Workers -> Entries \cup {0}]
  BY <1>1 DEF HandlersOK, PCs
<1>6. \A v \in Workers : (pc'[v] = "idle") <=> (job'[v] = 0)
  BY <1>1 DEF HandlersOK
<1>7. ASSUME NEW e \in Entries
      PROVE  place'[e] = "held" <=> \E v \in Workers : job'[v] = e
  <2>1. 0 \notin Entries
    BY IndexBounds DEF Entries
  <2>2. CASE e = job[w]
    BY <1>1, <1>2, <2>1, <2>2 DEF HandlersOK, BusOK
  <2>3. CASE e # job[w]
    <3>1. place'[e] = place[e]
      BY <1>1, <2>3 DEF BusOK
    <3>2. ASSUME NEW v \in Workers PROVE job'[v] = e <=> job[v] = e
      BY <1>1, <2>1, <2>3 DEF HandlersOK
    <3>3. QED
      BY <3>1, <3>2 DEF HandlersOK
  <2>4. QED
    BY <2>2, <2>3
<1>8. \A u, v \in Workers : job'[u] = job'[v] /\ job'[u] # 0 => u = v
  BY <1>1 DEF HandlersOK
<1>9. QED
  BY <1>4, <1>5, <1>6, <1>7, <1>8 DEF HandlersOK, Entries

(* The set of rows there could be does not change. *)
LEMMA RowIsConstant == Row' = Row
BY DEF Row, Entries, Scopes

(* A worker's step keeps every type. *)
LEMMA WorkingTypes ==
  ASSUME IndexTypeOK, NEW w \in Workers, Working(w)
  PROVE  IndexTypeOK'
<1>1. BusOK /\ HandlersOK /\ RowsOK /\ AnswersOK /\ HistoryOK
  BY DEF IndexTypeOK
<1>2. /\ pc[w] # "idle" /\ stream' = stream /\ begun' = begun
      /\ \/ \E to \in PCs \ {"idle"} : GoOn(w, to)
         \/ \E to \in {"waiting", "done", "parked"} : Leave(w, to)
  BY WorkingMoves
<1>3. BusOK' /\ HandlersOK'
  BY <1>1, <1>2, GoOnKeeps, LeaveKeeps
<1>4. job[w] \in Published /\ job[w] \in begun /\ job[w] # 0
  BY <1>1, <1>2 DEF HandlersOK, HistoryOK
<1>5. RowsOK'
  <2>1. CASE UNCHANGED <<rows, crossed>>
    BY <1>1, <2>1, FewerRows
  <2>2. CASE rows' = rows \ DeleteFilter(stream[job[w]])
    BY <1>1, <2>2, FewerRows
  <2>3. CASE rows' = Upserted(Chunks(job[w]))
    BY <1>1, <1>4, <2>3, UpsertKeepsKeys
  <2>4. QED
    BY <2>1, <2>2, <2>3, WorkingWrites DEF Write
<1>6. HistoryOK'
  <2>1. crossed' \subseteq crossed \cup {job[w]}
    BY WorkingWrites DEF Write
  <2>2. \A v \in Workers : job'[v] # 0 => job'[v] = job[v]
    BY <1>1, <1>2 DEF GoOn, Leave, HandlersOK
  <2>3. \A e \in Entries : place'[e] = "done" => place[e] = "done" \/ e = job[w]
    BY <1>1, <1>2 DEF GoOn, Leave, BusOK, busVars
  <2>4. QED
    BY <1>1, <1>2, <1>4, <2>1, <2>2, <2>3 DEF HistoryOK, Published, Entries
<1>7. AnswersOK'
  <2>1. /\ \/ found' = found
           \/ found' = [found EXCEPT ![w] = {}]
           \/ found' = [found EXCEPT ![w] = BuildFilter(stream[job[w]])]
           \/ \E S \in SUBSET found[w] :
                found' = [found EXCEPT ![w] = RecentTurns(stream[job[w]]) \cup S]
        /\ \/ answers' = answers
           \/ answers' = answers \cup {[to |-> job[w], chunks |-> found[w]]}
        /\ found'[w] # {} => pc'[w] \in {"recent", "reply"}
    BY <1>1, WorkingFinds
  <2>2. rows \subseteq Row /\ found \in [Workers -> SUBSET Row]
    BY <1>1 DEF RowsOK, AnswersOK
  <2>3. found' \in [Workers -> SUBSET Row]
    BY <2>1, <2>2, FiltersSelect
  <2>4. ASSUME NEW v \in Workers, found'[v] # {}
        PROVE  pc'[v] \in {"recent", "reply"}
    <3>1. CASE v = w
      BY <2>1, <2>4, <3>1
    <3>2. CASE v # w
      <4>1. found'[v] = found[v]
        BY <2>1, <2>2, <3>2
      <4>2. pc'[v] = pc[v]
        BY <1>1, <1>2, <3>2 DEF GoOn, Leave, HandlersOK
      <4>3. QED
        BY <1>1, <2>4, <4>1, <4>2 DEF AnswersOK
    <3>3. QED
      BY <3>1, <3>2
  <2>5. ASSUME NEW a \in answers'
        PROVE  a.to \in Published' /\ a.chunks \subseteq Row
    BY <1>1, <1>2, <1>4, <2>1, <2>2 DEF AnswersOK, Published
  <2>6. QED
    BY <2>3, <2>4, <2>5, RowIsConstant DEF AnswersOK
<1>8. QED
  BY <1>3, <1>5, <1>6, <1>7 DEF IndexTypeOK

(* A call that is made is a new entry, with no worker. *)
LEMMA PublishTypes ==
  ASSUME IndexTypeOK, NEW r \in Requests, Publish(r)
  PROVE  IndexTypeOK'
<1> DEFINE n == Len(stream)
<1>1. BusOK /\ HandlersOK /\ RowsOK /\ AnswersOK /\ HistoryOK
  BY DEF IndexTypeOK
<1>2. /\ n < MaxEvents
      /\ stream' = Append(stream, r)
      /\ place' = [place EXCEPT ![n + 1] = "queued"]
      /\ UNCHANGED <<tries, rows, pc, job, found, answers, begun, crossed>>
  BY DEF Publish, histVars
<1>3. n \in Nat /\ stream \in Seq(Requests)
  BY <1>1 DEF BusOK
<1>4. stream' \in Seq(Requests) /\ Len(stream') = n + 1
  BY <1>2, <1>3
<1>5. n + 1 \in Entries /\ place[n + 1] = "unsent"
  BY <1>1, <1>2, <1>3, IndexBounds DEF BusOK, Entries, Published
<1>6. Published' = Published \cup {n + 1}
  BY <1>3, <1>4 DEF Published
<1>7. BusOK'
  BY <1>1, <1>2, <1>3, <1>4, <1>5, <1>6, IndexBounds DEF BusOK, Entries
<1>8. \A e \in Entries : (place'[e] = "held" <=> place[e] = "held")
                       /\ (place'[e] = "done" => place[e] = "done")
  BY <1>1, <1>2, <1>5 DEF BusOK
<1>9. HandlersOK'
  BY <1>1, <1>2, <1>8 DEF HandlersOK, Entries
<1>10. RowsOK'
  BY <1>1, <1>2, FewerRows
<1>11. AnswersOK'
  BY <1>1, <1>2, <1>6, RowIsConstant DEF AnswersOK
<1>12. HistoryOK'
  BY <1>1, <1>2, <1>6, <1>8 DEF HistoryOK, Entries
<1>13. QED
  BY <1>7, <1>9, <1>10, <1>11, <1>12 DEF IndexTypeOK

(* An entry that no worker takes or holds only changes its place. *)
LEMMA UnheldTypes ==
  ASSUME IndexTypeOK, NEW e \in Published,
         (\E w \in Workers : Skip(w, e)) \/ Again(e)
  PROVE  IndexTypeOK'
<1>1. BusOK /\ HandlersOK /\ RowsOK /\ AnswersOK /\ HistoryOK
  BY DEF IndexTypeOK
<1>2. PICK to \in {"parked", "duplicate", "waiting"} :
        /\ place' = [place EXCEPT ![e] = to]
        /\ place[e] \in {"queued", "waiting", "done"}
        /\ UNCHANGED <<stream, tries, rows, pc, job, found, answers, begun, crossed>>
  BY DEF Skip, Again, Deliverable, histVars
<1>3. e \in Entries
  BY <1>1, CallIsRequest
<1>4. BusOK'
  BY <1>1, <1>2, <1>3 DEF BusOK, Published
<1>5. \A f \in Entries : (place'[f] = "held" <=> place[f] = "held")
                       /\ (place'[f] = "done" => place[f] = "done")
  BY <1>1, <1>2, <1>3 DEF BusOK
<1>6. HandlersOK'
  BY <1>1, <1>2, <1>5 DEF HandlersOK, Entries
<1>7. RowsOK'
  BY <1>1, <1>2, FewerRows
<1>8. AnswersOK'
  BY <1>1, <1>2, RowIsConstant DEF AnswersOK, Published
<1>9. HistoryOK'
  BY <1>1, <1>2, <1>5 DEF HistoryOK, Published, Entries
<1>10. QED
  BY <1>4, <1>6, <1>7, <1>8, <1>9 DEF IndexTypeOK

(* An idle worker takes an entry nobody holds. *)
LEMMA BeginTypes ==
  ASSUME IndexTypeOK, NEW w \in Workers, NEW e \in Published, Begin(w, e)
  PROVE  IndexTypeOK'
<1>1. BusOK /\ HandlersOK /\ RowsOK /\ AnswersOK /\ HistoryOK
  BY DEF IndexTypeOK
<1>2. PICK to \in PCs \ {"idle"} :
        /\ pc[w] = "idle" /\ tries[e] < MaxDeliveries
        /\ place[e] \in {"queued", "waiting"}
        /\ place' = [place EXCEPT ![e] = "held"]
        /\ tries' = [tries EXCEPT ![e] = @ + 1]
        /\ pc' = [pc EXCEPT ![w] = to]
        /\ job' = [job EXCEPT ![w] = e]
        /\ begun' = begun \cup {e}
        /\ UNCHANGED <<stream, rows, found, answers, crossed>>
  <2>1. FirstCall(e) \in PCs \ {"idle"}
    BY DEF FirstCall, PCs
  <2>2. QED
    BY <2>1 DEF Begin, Deliverable
<1>3. e \in Entries /\ e # 0 /\ job[w] = 0
  BY <1>1, <1>2, CallIsRequest, IndexBounds DEF Entries, HandlersOK
<1>4. BusOK'
  <2>1. tries[e] \in 0..MaxDeliveries
    BY <1>1, <1>3 DEF BusOK
  <2>2. tries[e] + 1 \in 0..MaxDeliveries
    BY <1>2, <2>1, IndexBounds
  <2>3. tries' \in [Entries -> 0..MaxDeliveries]
    BY <1>1, <1>2, <2>2 DEF BusOK
  <2>4. QED
    BY <1>1, <1>2, <1>3, <2>3 DEF BusOK, Published
<1>5. HandlersOK'
  <2>1. \A v \in Workers : job[v] # e
    BY <1>1, <1>2, <1>3 DEF HandlersOK
  <2>2. pc' \in [Workers -> PCs] /\ job' \in [Workers -> Entries \cup {0}]
    BY <1>1, <1>2, <1>3 DEF HandlersOK
  <2>3. \A v \in Workers : (pc'[v] = "idle") <=> (job'[v] = 0)
    BY <1>1, <1>2, <1>3 DEF HandlersOK
  <2>4. \A u, v \in Workers : job'[u] = job'[v] /\ job'[u] # 0 => u = v
    BY <1>1, <1>2, <2>1 DEF HandlersOK
  <2>5. ASSUME NEW f \in Entries
        PROVE  place'[f] = "held" <=> \E v \in Workers : job'[v] = f
    <3>1. CASE f = e
      BY <1>1, <1>2, <1>3, <3>1 DEF HandlersOK, BusOK
    <3>2. CASE f # e
      <4>1. place'[f] = place[f]
        BY <1>1, <1>2, <3>2 DEF BusOK
      <4>2. 0 \notin Entries
        BY IndexBounds DEF Entries
      <4>3. ASSUME NEW v \in Workers PROVE job'[v] = f <=> job[v] = f
        BY <1>1, <1>2, <1>3, <3>2, <4>2 DEF HandlersOK
      <4>4. QED
        BY <1>1, <4>1, <4>3 DEF HandlersOK
    <3>3. QED
      BY <3>1, <3>2
  <2>6. QED
    BY <2>2, <2>3, <2>4, <2>5 DEF HandlersOK, Entries
<1>6. RowsOK'
  BY <1>1, <1>2, FewerRows
<1>7. AnswersOK'
  <2>1. \A v \in Workers : found[v] # {} => v # w
    BY <1>1, <1>2 DEF AnswersOK
  <2>2. \A v \in Workers : v # w => pc'[v] = pc[v]
    BY <1>1, <1>2 DEF HandlersOK
  <2>3. QED
    BY <1>1, <1>2, <2>1, <2>2, RowIsConstant DEF AnswersOK, Published
<1>8. HistoryOK'
  <2>1. \A v \in Workers : job'[v] # 0 => job'[v] = e \/ job'[v] = job[v]
    BY <1>1, <1>2 DEF HandlersOK
  <2>2. \A f \in Entries : place'[f] = "done" => place[f] = "done"
    BY <1>1, <1>2 DEF BusOK
  <2>3. QED
    BY <1>1, <1>2, <2>1, <2>2 DEF HistoryOK, Published, Entries
<1>9. QED
  BY <1>4, <1>5, <1>6, <1>7, <1>8 DEF IndexTypeOK

(* What the initial state satisfies. *)
LEMMA InitTypes == Init => IndexTypeOK
<1> SUFFICES ASSUME Init PROVE IndexTypeOK
  OBVIOUS
<1>1. 0 \notin Entries
  BY IndexBounds DEF Entries
<1>2. Published = {} /\ stream \in Seq(Requests) /\ Len(stream) = 0
  BY DEF Init, Published
<1>3. BusOK
  BY <1>2, IndexBounds DEF Init, BusOK
<1>4. HandlersOK
  BY <1>1 DEF Init, HandlersOK, PCs
<1>5. RowsOK /\ AnswersOK /\ HistoryOK
  BY DEF Init, RowsOK, AnswersOK, HistoryOK
<1>6. QED
  BY <1>3, <1>4, <1>5 DEF IndexTypeOK

(* Every step keeps the types. *)
LEMMA NextTypes == IndexTypeOK /\ [Next]_vars => IndexTypeOK'
<1> SUFFICES ASSUME IndexTypeOK, [Next]_vars PROVE IndexTypeOK'
  OBVIOUS
<1>1. ASSUME NEW r \in Requests, Publish(r) PROVE IndexTypeOK'
  BY <1>1, PublishTypes
<1>2. ASSUME NEW e \in Published, (\E w \in Workers : Skip(w, e)) \/ Again(e)
      PROVE IndexTypeOK'
  BY <1>2, UnheldTypes
<1>3. ASSUME NEW w \in Workers, NEW e \in Published, Begin(w, e) PROVE IndexTypeOK'
  BY <1>3, BeginTypes
<1>4. ASSUME NEW w \in Workers, Working(w) PROVE IndexTypeOK'
  BY <1>4, WorkingTypes
<1>5. CASE UNCHANGED vars
  BY <1>5 DEF vars, busVars, histVars, IndexTypeOK, BusOK, HandlersOK, RowsOK, AnswersOK,
     HistoryOK, Published, Entries, Row, Scopes
<1>6. QED
  BY <1>1, <1>2, <1>3, <1>4, <1>5 DEF Next, Working

-----------------------------------------------------------------------------
(* The rest of the inductive invariant is kept. *)

(* A handler makes only the calls of its event. *)
LEMMA NextCallsFit == IndexTypeOK /\ CallsFit /\ [Next]_vars => CallsFit'
<1> SUFFICES ASSUME IndexTypeOK, CallsFit, [Next]_vars PROVE CallsFit'
  OBVIOUS
<1>1. /\ pc \in [Workers -> PCs] /\ job \in [Workers -> Entries \cup {0}]
      /\ \A w \in Workers : (pc[w] = "idle") <=> (job[w] = 0)
      /\ \A w \in Workers : job[w] # 0 => job[w] \in Published
      /\ stream \in Seq(Requests)
  BY DEF IndexTypeOK, HandlersOK, HistoryOK, BusOK
<1>2. ASSUME NEW r \in Requests, Publish(r) PROVE CallsFit'
  <2>1. stream' = Append(stream, r) /\ UNCHANGED <<pc, job>>
    BY <1>2 DEF Publish
  <2>2. \A e \in Published : stream'[e] = stream[e]
    BY <1>1, <2>1 DEF Published
  <2>3. \A w \in Workers : pc[w] # "idle" => stream'[job[w]] = stream[job[w]]
    BY <1>1, <2>2
  <2>4. QED
    BY <2>1, <2>3 DEF CallsFit, Clears, Writes, Type
<1>3. ASSUME NEW e \in Published, (\E w \in Workers : Skip(w, e)) \/ Again(e)
      PROVE  CallsFit'
  <2>1. UNCHANGED <<stream, pc, job>>
    BY <1>3 DEF Skip, Again
  <2>2. QED
    BY <2>1 DEF CallsFit, Clears, Writes, Type
<1>4. ASSUME NEW w \in Workers, NEW e \in Published, Begin(w, e) PROVE CallsFit'
  <2>1. /\ pc' = [pc EXCEPT ![w] = FirstCall(e)]
        /\ job' = [job EXCEPT ![w] = e]
        /\ stream' = stream
    BY <1>4 DEF Begin
  <2>2. FirstCall(e) = "delete" => Clears(e)
    BY DEF FirstCall
  <2>3. FirstCall(e) \in {"delete", "embed"}
    BY DEF FirstCall
  <2>4. QED
    BY <1>1, <2>1, <2>2, <2>3 DEF CallsFit, Clears, Writes, Type
<1>5. ASSUME NEW w \in Workers, Working(w) PROVE CallsFit'
  <2>1. /\ stream' = stream
        /\ \A v \in Workers : v # w => pc'[v] = pc[v] /\ job'[v] = job[v]
    BY <1>1, <1>5, WorkingMoves DEF GoOn, Leave
  <2>2. \/ pc'[w] \in {"idle", "embed", "upsert"}
        \/ pc'[w] \in {"search", "recent", "reply"} /\ ~Writes(job[w]) /\ job' = job
    <3>1. CASE Delete(w) \/ Upsert(w) \/ Reply(w) \/ Raise(w) \/ Crash(w)
      BY <1>1, <3>1 DEF Delete, Upsert, Reply, Raise, Crash, GoOn, Leave, Return, Raised
    <3>2. CASE Settle(w)
      BY <1>1, <3>2 DEF Settle, Settled, Writes, Type, GoOn, Leave, Return, Raised
    <3>3. CASE Embed(w)
      BY <1>1, <3>3 DEF Embed, GoOn
    <3>4. CASE Search(w) \/ Recent(w)
      BY <1>1, <3>4 DEF Search, Recent, GoOn, CallsFit
    <3>5. QED
      BY <1>5, <3>1, <3>2, <3>3, <3>4 DEF Working, Call
  <2>3. QED
    BY <2>1, <2>2 DEF CallsFit, Clears, Writes, Type
<1>6. CASE UNCHANGED vars
  BY <1>6 DEF vars, busVars, CallsFit, Clears, Writes, Type
<1>7. QED
  BY <1>2, <1>3, <1>4, <1>5, <1>6 DEF Next, Working

(* Calls are never unmade. *)
LEMMA StreamGrows ==
  ASSUME IndexTypeOK, [Next]_vars
  PROVE  Published \subseteq Published' /\ \A e \in Published : stream'[e] = stream[e]
<1>1. stream \in Seq(Requests) /\ Len(stream) \in Nat
  BY DEF IndexTypeOK, BusOK
<1>2. CASE \E r \in Requests : Publish(r)
  <2>1. PICK r \in Requests : stream' = Append(stream, r)
    BY <1>2 DEF Publish
  <2>2. Len(stream') = Len(stream) + 1
    BY <1>1, <2>1
  <2>3. QED
    BY <1>1, <2>1, <2>2 DEF Published
<1>3. CASE ~\E r \in Requests : Publish(r)
  <2>1. stream' = stream
    BY <1>3, WorkingMoves DEF Next, Working, Skip, Again, Begin, vars, busVars
  <2>2. QED
    BY <2>1 DEF Published
<1>4. QED
  BY <1>2, <1>3

(* What a published call says does not change. *)
LEMMA CallsKeep ==
  ASSUME IndexTypeOK, [Next]_vars, NEW e \in Published
  PROVE  /\ Chunks(e)' = Chunks(e)
         /\ Clears(e)' = Clears(e)
         /\ \A f \in Published : Conflict(e, f)' = Conflict(e, f)
<1>1. \A f \in Published : stream'[f] = stream[f]
  BY StreamGrows
<1>2. Chunks(e)' = Chunks(e)
  BY <1>1 DEF Chunks
<1>3. Clears(e)' = Clears(e)
  BY <1>1 DEF Clears, Type
<1>4. ASSUME NEW f \in Published
      PROVE  Conflict(e, f)' = Conflict(e, f)
  <2>1. stream'[e] = stream[e] /\ stream'[f] = stream[f]
    BY <1>1
  <2>2. QED
    BY <2>1 DEF Conflict, Writes, Type
<1>5. QED
  BY <1>2, <1>3, <1>4

(* Only a worker's step changes the rows, the answers or what was found. *)
LEMMA OnlyWorking ==
  ASSUME [Next]_vars, ~\E w \in Workers : Working(w)
  PROVE  UNCHANGED <<rows, crossed, found, answers>>
BY DEF Next, Working, Publish, Again, Skip, Begin, vars, histVars

(* A row is a piece of the call that wrote it. *)
LEMMA NextRowsSaid == IndexTypeOK /\ RowsSaid /\ [Next]_vars => RowsSaid'
<1> SUFFICES ASSUME IndexTypeOK, RowsSaid, [Next]_vars, NEW x \in rows'
             PROVE  x.by \in Published' /\ x \in Chunks(x.by)'
  BY DEF RowsSaid
<1>1. x.by \in Published /\ x \in Chunks(x.by)
  <2>1. CASE x \in rows
    BY <2>1 DEF RowsSaid
  <2>2. CASE x \notin rows
    <3>1. PICK w \in Workers : Working(w)
      BY <2>2, OnlyWorking
    <3>2. x \in Chunks(job[w])
      BY <2>2, <3>1, WorkingWrites DEF Write, Upserted
    <3>3. job[w] \in Published
      BY <3>1, WorkingMoves DEF IndexTypeOK, HandlersOK, HistoryOK
    <3>4. x.by = job[w]
      BY <3>2, ChunkFields
    <3>5. QED
      BY <3>2, <3>3, <3>4
  <2>3. QED
    BY <2>1, <2>2
<1>2. QED
  BY <1>1, StreamGrows, CallsKeep

(* A call that clears has deleted only once its deletion was carried out. *)
LEMMA DeletesFirst ==
  ASSUME IndexTypeOK, CallsFit, NEW w \in Workers, Working(w),
         NEW f \in Published, Clears(f), HasDeleted(f)'
  PROVE  HasDeleted(f) \/ (f = job[w] /\ rows' = rows \ DeleteFilter(stream[f]))
<1>1. /\ pc \in [Workers -> PCs] /\ job \in [Workers -> Entries \cup {0}]
      /\ place \in [Entries -> {"unsent", "queued", "held", "waiting", "done", "duplicate", "parked"}]
      /\ f \in Entries /\ 0 \notin Entries
  BY CallIsRequest, IndexBounds DEF IndexTypeOK, HandlersOK, BusOK, Entries
<1>2. CASE f # job[w]
  <2>1. place'[f] = place[f] /\ \A v \in Workers : job'[v] = f => job[v] = f /\ pc'[v] = pc[v]
    BY <1>1, <1>2, WorkingMoves DEF GoOn, Leave, busVars
  <2>2. QED
    BY <2>1 DEF HasDeleted
<1>3. CASE f = job[w]
  <2>1. Type(f) # "message.index" /\ Writes(f)
    BY DEF Clears, Writes
  <2>2. CASE pc[w] \in {"embed", "upsert"}
    BY <1>3, <2>2 DEF HasDeleted
  <2>3. CASE Delete(w)
    BY <1>3, <2>3 DEF Delete, Write
  <2>4. CASE Search(w) \/ Recent(w) \/ Reply(w)
    BY <1>3, <2>1, <2>4 DEF Search, Recent, Reply, CallsFit
  <2>5. CASE Raise(w) \/ Crash(w)
    <3>1. Leave(w, "waiting")
      BY <2>5 DEF Raise, Crash, Raised
    <3>2. place'[f] = "waiting" /\ \A v \in Workers : job'[v] # f
      <4>1. \A v \in Workers : v # w => job[v] # f
        BY <1>1, <1>3 DEF IndexTypeOK, HandlersOK
      <4>2. QED
        BY <1>1, <1>3, <3>1, <4>1 DEF Leave
    <3>3. QED
      BY <3>2 DEF HasDeleted
  <2>6. CASE Settle(w) \/ Embed(w) \/ Upsert(w)
    BY <2>2, <2>6 DEF Settle, Embed, Upsert
  <2>7. QED
    BY <2>3, <2>4, <2>5, <2>6 DEF Working, Call
<1>4. QED
  BY <1>2, <1>3

(* No other step makes a call that clears have deleted. *)
LEMMA OthersDoNotDelete ==
  ASSUME IndexTypeOK, [Next]_vars, ~\E w \in Workers : Working(w),
         NEW f \in Published', Clears(f)', HasDeleted(f)'
  PROVE  f \in Published /\ HasDeleted(f)
<1>1. /\ pc \in [Workers -> PCs] /\ job \in [Workers -> Entries \cup {0}]
      /\ place \in [Entries -> {"unsent", "queued", "held", "waiting", "done", "duplicate", "parked"}]
      /\ stream \in Seq(Requests) /\ Len(stream) \in Nat
      /\ \A v \in Workers : job[v] # 0 => job[v] \in Published
      /\ 0 \notin Entries
  BY IndexBounds DEF IndexTypeOK, HandlersOK, BusOK, HistoryOK, Entries
<1>2. IndexTypeOK'
  BY NextTypes
<1>3. f \in Entries
  BY <1>2, IndexBounds DEF IndexTypeOK, BusOK, Published, Entries
<1>4. CASE \E r \in Requests : Publish(r)
  <2>1. PICK r \in Requests : /\ stream' = Append(stream, r)
                              /\ place' = [place EXCEPT ![Len(stream) + 1] = "queued"]
                              /\ UNCHANGED <<pc, job>>
    BY <1>4 DEF Publish
  <2>2. Published' = Published \cup {Len(stream) + 1}
    BY <1>1, <2>1 DEF Published
  <2>3. f # Len(stream) + 1
    <3>1. Len(stream) + 1 \notin Published /\ Len(stream) + 1 # 0
      BY <1>1 DEF Published
    <3>2. \A v \in Workers : job[v] # Len(stream) + 1
      BY <1>1, <3>1
    <3>3. f = Len(stream) + 1 => place'[f] = "queued"
      BY <1>1, <1>3, <2>1
    <3>4. QED
      BY <2>1, <3>2, <3>3 DEF HasDeleted
  <2>4. place'[f] = place[f]
    BY <1>1, <1>3, <2>1, <2>3
  <2>5. QED
    BY <2>1, <2>2, <2>3, <2>4 DEF HasDeleted
<1>5. CASE \E w \in Workers, e \in Published : Begin(w, e)
  <2>1. PICK w \in Workers, e \in Published :
          /\ place' = [place EXCEPT ![e] = "held"]
          /\ pc' = [pc EXCEPT ![w] = FirstCall(e)]
          /\ job' = [job EXCEPT ![w] = e]
          /\ stream' = stream
    BY <1>5 DEF Begin
  <2>2. f \in Published /\ Clears(f)
    BY <2>1 DEF Published, Clears, Type
  <2>3. f = e => pc'[w] = "delete" /\ place'[f] = "held"
    BY <1>1, <1>3, <2>1, <2>2 DEF FirstCall
  <2>4. f # e => place'[f] = place[f]
    BY <1>1, <1>3, <2>1
  <2>5. ASSUME NEW v \in Workers, job'[v] = f, pc'[v] \in {"embed", "upsert"}
        PROVE  job[v] = f /\ pc[v] \in {"embed", "upsert"}
    <3>1. v # w
      BY <1>1, <2>1, <2>3, <2>5
    <3>2. QED
      BY <1>1, <2>1, <2>5, <3>1
  <2>6. QED
    BY <2>2, <2>3, <2>4, <2>5 DEF HasDeleted
<1>6. CASE \E e \in Published : (\E w \in Workers : Skip(w, e)) \/ Again(e)
  <2>1. PICK e \in Published, to \in {"parked", "duplicate", "waiting"} :
          /\ place' = [place EXCEPT ![e] = to]
          /\ UNCHANGED <<stream, pc, job>>
    BY <1>6 DEF Skip, Again
  <2>2. place'[f] = "done" => place[f] = "done"
    BY <1>1, <1>3, <2>1
  <2>3. QED
    BY <2>1, <2>2 DEF HasDeleted, Published
<1>7. CASE UNCHANGED vars
  BY <1>7 DEF vars, busVars, HasDeleted, Published
<1>8. QED
  BY <1>4, <1>5, <1>6, <1>7 DEF Next, Working

(* What a later call has deleted comes back only by a write. *)
LEMMA NextDeletedGone ==
  ASSUME IndexTypeOK, CallsFit, RowsSaid, DeletedGone, [Next]_vars
  PROVE  DeletedGone'
<1> SUFFICES ASSUME NEW x \in rows', NEW f \in Published',
                    f > x.by, Conflict(f, x.by)', Clears(f)', HasDeleted(f)'
             PROVE  x.by \in crossed'
  BY DEF DeletedGone
<1>1. IndexTypeOK' /\ BusOK /\ HistoryOK
  BY NextTypes DEF IndexTypeOK
<1>2. CASE \E w \in Workers : Working(w)
  <2>1. PICK w \in Workers : Working(w)
    BY <1>2
  <2>2. stream' = stream /\ begun' = begun
    BY <2>1, WorkingMoves
  <2>3. f \in Published /\ Conflict(f, x.by) /\ Clears(f)
    BY <2>2 DEF Published, Conflict, Clears, Writes, Type
  <2>4. HasDeleted(f) \/ (f = job[w] /\ rows' = rows \ DeleteFilter(stream[f]))
    BY <2>1, <2>3, DeletesFirst
  <2>5. crossed \subseteq crossed'
    BY <2>1, WorkingWrites DEF Write
  <2>6. CASE x \in rows
    <3>1. x.by \in Published /\ x \in Chunks(x.by)
      BY <2>6 DEF RowsSaid
    <3>2. CASE HasDeleted(f)
      BY <2>3, <2>5, <2>6, <3>2 DEF DeletedGone
    <3>3. CASE rows' = rows \ DeleteFilter(stream[f])
      <4>1. x \in DeleteFilter(stream[f])
        BY <1>1, <2>3, <2>6, <3>1, DeleteRemovesConflicts
      <4>2. QED
        BY <3>3, <4>1
    <3>4. QED
      BY <2>4, <3>2, <3>3
  <2>7. CASE x \notin rows
    <3>1. Write(job[w], Upserted(Chunks(job[w]))) /\ x \in Chunks(job[w])
      BY <2>1, <2>7, WorkingWrites DEF Write, Upserted
    <3>2. x.by = job[w]
      BY <3>1, ChunkFields
    <3>3. f \in begun
      <4>1. f \in Entries /\ f # 0
        BY <1>1, <2>3, CallIsRequest, IndexBounds DEF Entries
      <4>2. f \in begun'
        BY <1>1, <4>1 DEF IndexTypeOK, HistoryOK, HasDeleted
      <4>3. QED
        BY <2>2, <4>2
    <3>4. Conflict(job[w], f)
      BY <2>3, <3>2 DEF Conflict
    <3>5. QED
      BY <3>1, <3>2, <3>3, <3>4 DEF Write
  <2>8. QED
    BY <2>6, <2>7
<1>3. CASE ~\E w \in Workers : Working(w)
  <2>1. rows' = rows /\ crossed' = crossed
    BY <1>3, OnlyWorking
  <2>2. f \in Published /\ HasDeleted(f)
    BY <1>3, OthersDoNotDelete
  <2>3. x.by \in Published
    BY <2>1 DEF RowsSaid
  <2>4. Clears(f) /\ Conflict(f, x.by)
    BY <2>2, <2>3, CallsKeep
  <2>5. QED
    BY <2>1, <2>2, <2>4 DEF DeletedGone
<1>4. QED
  BY <1>2, <1>3

(* Both filters of a request select only rows its caller may see. *)
LEMMA FiltersAllow ==
  ASSUME NEW r
  PROVE  \A x \in BuildFilter(r) \cup RecentTurns(r) : Allowed(r, x)
BY DEF BuildFilter, RecentTurns, Allowed

(* A search finds only what its caller may see. *)
LEMMA NextFoundAllowed ==
  ASSUME IndexTypeOK, FoundAllowed, [Next]_vars
  PROVE  FoundAllowed'
<1> SUFFICES ASSUME NEW v \in Workers, NEW x \in found'[v]
             PROVE  Allowed(stream'[job'[v]], x)
  BY DEF FoundAllowed, Allowed
<1>1. HandlersOK /\ AnswersOK /\ HistoryOK /\ found \in [Workers -> SUBSET Row]
      /\ pc \in [Workers -> PCs] /\ job \in [Workers -> Entries \cup {0}]
  BY DEF IndexTypeOK, AnswersOK, HandlersOK
<1>2. ASSUME x \in found[v], job'[v] = job[v]
      PROVE  Allowed(stream'[job'[v]], x)
  <2>1. job[v] \in Published
    BY <1>1, <1>2 DEF AnswersOK, HandlersOK, HistoryOK
  <2>2. stream'[job'[v]] = stream[job[v]]
    BY <1>2, <2>1, StreamGrows
  <2>3. QED
    BY <1>2, <2>2 DEF FoundAllowed
<1>3. CASE \E w \in Workers : Working(w)
  <2>1. PICK w \in Workers : Working(w)
    BY <1>3
  <2>2. CASE v # w
    <3>1. found'[v] = found[v]
      BY <1>1, <2>1, <2>2, WorkingFinds
    <3>2. job'[v] = job[v]
      BY <1>1, <2>1, <2>2, WorkingMoves DEF GoOn, Leave
    <3>3. QED
      BY <1>2, <3>1, <3>2
  <2>3. CASE v = w
    <3>1. job'[w] = job[w] /\ stream' = stream
      BY <1>1, <2>1, <2>3, WorkingFinds, WorkingMoves
    <3>2. CASE x \in found[w]
      BY <1>2, <2>3, <3>1, <3>2
    <3>3. CASE x \in BuildFilter(stream[job[w]]) \cup RecentTurns(stream[job[w]])
      BY <2>3, <3>1, <3>3, FiltersAllow
    <3>4. x \in found[w] \/ x \in BuildFilter(stream[job[w]]) \cup RecentTurns(stream[job[w]])
      BY <1>1, <2>1, <2>3, WorkingFinds
    <3>5. QED
      BY <3>2, <3>3, <3>4
  <2>4. QED
    BY <2>2, <2>3
<1>4. CASE ~\E w \in Workers : Working(w)
  <2>1. found' = found
    BY <1>4, OnlyWorking
  <2>2. pc[v] # "idle"
    BY <1>1, <2>1 DEF AnswersOK
  <2>3. job'[v] = job[v]
    BY <1>1, <1>4, <2>2 DEF Next, Working, Publish, Again, Skip, Begin, vars
  <2>4. QED
    BY <1>2, <2>1, <2>3
<1>5. QED
  BY <1>3, <1>4

(* An answer is what the search of its request found. *)
LEMMA NextAnswerIsolated ==
  ASSUME IndexTypeOK, FoundAllowed, AnswerIsolated, [Next]_vars
  PROVE  AnswerIsolated'
<1> SUFFICES ASSUME NEW a \in answers', NEW x \in a.chunks
             PROVE  Allowed(stream'[a.to], x)
  BY DEF AnswerIsolated, Allowed
<1>1. HandlersOK /\ AnswersOK /\ HistoryOK
  BY DEF IndexTypeOK
<1>2. a.to \in Published /\ Allowed(stream[a.to], x)
  <2>1. CASE a \in answers
    BY <1>1, <2>1 DEF AnswersOK, AnswerIsolated
  <2>2. CASE a \notin answers
    <3>1. PICK w \in Workers : Working(w)
      BY <2>2, OnlyWorking
    <3>2. a = [to |-> job[w], chunks |-> found[w]]
      BY <1>1, <2>2, <3>1, WorkingFinds
    <3>3. job[w] \in Published
      BY <1>1, <3>1, WorkingMoves DEF HandlersOK, HistoryOK
    <3>4. QED
      BY <3>2, <3>3 DEF FoundAllowed
  <2>3. QED
    BY <2>1, <2>2
<1>3. QED
  BY <1>2, StreamGrows

-----------------------------------------------------------------------------
(* The theorems. *)

(* The inductive invariant holds at first. *)
LEMMA InitInv == Init => IndexInv /\ AnswerIsolated
BY InitTypes DEF Init, IndexInv, CallsFit, RowsSaid, DeletedGone, FoundAllowed, AnswerIsolated

(* Every step keeps it. *)
LEMMA NextInv == IndexInv /\ AnswerIsolated /\ [Next]_vars => IndexInv' /\ AnswerIsolated'
BY NextTypes, NextCallsFit, NextRowsSaid, NextDeletedGone, NextFoundAllowed, NextAnswerIsolated
   DEF IndexInv

(* What comes back was written again. *)
LEMMA InvExplains == IndexInv => ComebackExplained
BY DEF IndexInv, DeletedGone, HasDeleted, ComebackExplained

(* At every moment an entry is with one worker, a primary key has one row, a   *)
(* row is a piece of the call that wrote it, what a call has deleted is gone   *)
(* unless it was written again, and a search holds what its caller may see     *)
(* (ingest_document 78-79, MilvusStore.delete and upsert, build_filter 36-46). *)
THEOREM IndexSafety == Spec => []IndexInv
<1>1. Spec => [](IndexInv /\ AnswerIsolated)
  BY InitInv, NextInv, PTL DEF Spec
<1>2. QED
  BY <1>1, PTL

(* Whatever the workers, calls and faults, rows outlive a completed later      *)
(* delete or revision only if their call was carried out after it began        *)
(* (on_document_delete 71, on_conversation_delete 87).                        *)
THEOREM DeletedStaysDeleted == Spec => []ComebackExplained
<1>1. Spec => []IndexInv
  BY IndexSafety
<1>2. QED
  BY <1>1, InvExplains, PTL

(* No answer, of any request, holds a row of another tenant, of a document if  *)
(* it asked for chat only, or of a conversation it did not name (build_filter  *)
(* 36-46, recent_turns 93-97).                                                *)
THEOREM AnswersIsolated == Spec => []AnswerIsolated
<1>1. Spec => [](IndexInv /\ AnswerIsolated)
  BY InitInv, NextInv, PTL DEF Spec
<1>2. QED
  BY <1>1, PTL

-----------------------------------------------------------------------------
(* What a document shows. *)

(* No message has the id of a document: both are the source of their rows,  *)
(* and the key of a row does not say which of them wrote it.                *)
SourcesApart ==
  \A r, q \in Requests :
    r.type = "document.ingest" /\ q.type = "message.index" => r.source # q.source

(* No later call on d has begun. *)
Newest(d, e) == \A f \in CallsOn(d) \cap begun : f <= e

(* Pieces are those of ingests and messages. *)
Pieced == {"document.ingest", "message.index"}

Wrote ==
  /\ \A w \in Workers :
       /\ pc[w] = "embed" => Type(job[w]) \in Pieced \cup {"retrieval.request"}
       /\ pc[w] = "upsert" => Type(job[w]) \in Pieced
  /\ \A x \in rows : Type(x.by) \in Pieced

(* A key was set for a call that began, and so was the one a duplicate found. *)
KeysBegun ==
  /\ \A ev \in claimed : \E f \in begun : EventId(f) = ev
  /\ \A e \in Entries :
       place[e] = "duplicate" => \E f \in begun : EventId(f) = EventId(e)

(* While its calls are carried out in order, a document shows nothing or one *)
(* call; nothing from the moment its newest call has deleted until it has    *)
(* written; and, that done, what its newest call said.                       *)
InOrder ==
  \A d \in Documents :
    ~Crossed(d) =>
      /\ RowsOf(d) = {} \/ \E e \in CallsOn(d) : RowsOf(d) = Chunks(e)
      /\ \A w \in Workers :
           /\ job[w] \in CallsOn(d) /\ Newest(d, job[w])
           /\ pc[w] \in {"embed", "upsert"}
           => RowsOf(d) = {}
      /\ \A e \in CallsOn(d) :
           Newest(d, e) /\ place[e] = "done" => RowsOf(d) = Said(e)

(* The calls on a document are its ingests and its removals. *)
LEMMA CallOnDocument ==
  ASSUME BusOK, SourcesApart, NEW d \in Documents, NEW e \in CallsOn(d)
  PROVE  /\ e \in Published /\ Type(e) \in {"document.ingest", "document.delete"}
         /\ Clears(e) /\ Writes(e)
         /\ stream[e] \in Requests /\ stream[e].conv = "" /\ stream[e].source # ""
         /\ <<stream[e].tenant, stream[e].source>> = d
<1>1. PICK r \in Requests : r.type = "document.ingest" /\ d = <<r.tenant, r.source>>
  BY DEF Documents
<1>2. /\ e \in Published /\ Writes(e) /\ stream[e] \in Requests
      /\ <<stream[e].tenant, stream[e].source>> = d
  BY CallIsRequest DEF CallsOn
<1>3. stream[e].source = r.source /\ r.source # ""
  <2>1. <<stream[e].tenant, stream[e].source>> = <<r.tenant, r.source>>
    BY <1>1, <1>2
  <2>. QED  BY <1>1, <2>1, RequestAssumption
<1>4. stream[e].type # "message.index"
  BY <1>1, <1>2, <1>3 DEF SourcesApart
<1>5. stream[e].type # "conversation.delete" /\ stream[e].type \in EventTypes
  BY <1>2, <1>3, RequestAssumption
<1>6. stream[e].type \in {"document.ingest", "document.delete"}
  BY <1>2, <1>4, <1>5 DEF EventTypes, Writes, Type
<1>7. stream[e].conv = ""
  BY <1>2, <1>6, RequestAssumption
<1>. QED  BY <1>2, <1>3, <1>6, <1>7 DEF Type, Clears

(* Two calls on one document conflict. *)
LEMMA CallsConflict ==
  ASSUME BusOK, SourcesApart, NEW d \in Documents, NEW e \in CallsOn(d), NEW f \in CallsOn(d),
         e # f
  PROVE  Conflict(e, f)
<1>1. /\ Writes(e) /\ Writes(f) /\ stream[e].source # ""
      /\ <<stream[e].tenant, stream[e].source>> = <<stream[f].tenant, stream[f].source>>
  BY CallOnDocument
<1>. QED  BY <1>1 DEF Conflict

(* A row of a document was written by an ingest of it. *)
LEMMA RowOfDocument ==
  ASSUME BusOK, RowsSaid, Wrote, SourcesApart, NEW d \in Documents, NEW x \in RowsOf(d)
  PROVE  x.by \in CallsOn(d) /\ x \in Chunks(x.by) /\ x.conv = ""
<1>1. x \in rows /\ <<x.tenant, x.source>> = d
  BY DEF RowsOf
<1>2. x.by \in Published /\ x \in Chunks(x.by) /\ Type(x.by) \in Pieced
  BY <1>1 DEF RowsSaid, Wrote
<1>3. x.tenant = stream[x.by].tenant /\ x.source = stream[x.by].source /\ x.conv = stream[x.by].conv
  BY <1>2, ChunkFields
<1>4. x.by \in CallsOn(d)
  BY <1>1, <1>2, <1>3 DEF CallsOn, Writes, Pieced
<1>. QED  BY <1>2, <1>3, <1>4, CallOnDocument

(* What a call on a document makes are pieces of that document. *)
LEMMA ChunksOnDocument ==
  ASSUME NEW d, NEW e, <<stream[e].tenant, stream[e].source>> = d, NEW x \in Chunks(e)
  PROVE  <<x.tenant, x.source>> = d
BY ChunkFields

(* A call on a document that deletes leaves none of its rows. *)
LEMMA DeleteEmpties ==
  ASSUME BusOK, SourcesApart, NEW d \in Documents, NEW e \in CallsOn(d),
         rows' = rows \ DeleteFilter(stream[e])
  PROVE  RowsOf(d)' = {}
<1>1. <<stream[e].tenant, stream[e].source>> = d /\ stream[e].type # "conversation.delete"
  BY CallOnDocument DEF Type
<1>2. RowsOf(d) \subseteq DeleteFilter(stream[e])
  BY <1>1 DEF RowsOf, DeleteFilter
<1>. QED  BY <1>2 DEF RowsOf

(* An ingest that writes leaves its pieces, alone if there was nothing.     *)
LEMMA UpsertFills ==
  ASSUME BusOK, SourcesApart, NEW d \in Documents, NEW e \in CallsOn(d),
         rows' = Upserted(Chunks(e))
  PROVE  Chunks(e) \subseteq RowsOf(d)' /\ (RowsOf(d) = {} => RowsOf(d)' = Chunks(e))
<1>1. \A x \in Chunks(e) : <<x.tenant, x.source>> = d
  BY CallOnDocument, ChunksOnDocument
<1>2. RowsOf(d)' = {x \in rows' : <<x.tenant, x.source>> = d}
  BY DEF RowsOf
<1>3. Chunks(e) \subseteq RowsOf(d)'
  BY <1>1, <1>2 DEF Upserted
<1>4. RowsOf(d)' \subseteq RowsOf(d) \cup Chunks(e)
  BY <1>2 DEF Upserted, RowsOf
<1>. QED  BY <1>3, <1>4

(* A step touches the rows of a document only by carrying out a call on it: *)
(* a deletion leaves none, an upsert replaces those of the same index.      *)
LEMMA DocumentStep ==
  ASSUME IndexTypeOK, CallsFit, RowsSaid, Wrote, SourcesApart, NEW d \in Documents,
         NEW w \in Workers, Working(w)
  PROVE  \/ RowsOf(d)' = RowsOf(d)
         \/ /\ job[w] \in CallsOn(d) /\ pc[w] = "delete"
            /\ Write(job[w], rows \ DeleteFilter(stream[job[w]]))
            /\ RowsOf(d)' = {}
         \/ /\ job[w] \in CallsOn(d) /\ pc[w] = "upsert"
            /\ Write(job[w], Upserted(Chunks(job[w])))
            /\ Type(job[w]) = "document.ingest"
            /\ RowsOf(d) = {} => RowsOf(d)' = Chunks(job[w])
            /\ Chunks(job[w]) \subseteq RowsOf(d)'
<1>. DEFINE e == job[w]
<1>1. BusOK /\ e \in Published
  BY WorkingMoves DEF IndexTypeOK, HandlersOK, HistoryOK
<1>2. CASE rows' = rows
  BY <1>2 DEF RowsOf
<1>3. CASE pc[w] = "delete" /\ Write(e, rows \ DeleteFilter(stream[e]))
  <2>1. rows' = rows \ DeleteFilter(stream[e]) /\ Clears(e) /\ stream[e] \in Requests
    BY <1>1, <1>3, CallIsRequest DEF Write, CallsFit
  <2>2. CASE e \in CallsOn(d)
    <3>1. RowsOf(d)' = {}
      BY <1>1, <2>1, <2>2, DeleteEmpties
    <3>. QED  BY <1>3, <2>2, <3>1
  <2>3. CASE e \notin CallsOn(d)
    <3>1. ASSUME NEW x \in RowsOf(d) PROVE x \notin DeleteFilter(stream[e])
      <4>1. x.conv = "" /\ <<x.tenant, x.source>> = d
        BY <1>1, RowOfDocument DEF RowsOf
      <4>2. CASE Type(e) = "conversation.delete"
        BY <2>1, <4>1, <4>2, RequestAssumption DEF DeleteFilter, Type
      <4>3. CASE Type(e) # "conversation.delete"
        <5>1. stream[e].source # "" /\ Writes(e)
          BY <2>1, <4>3, RequestAssumption DEF Clears, Writes, Type
        <5>2. <<stream[e].tenant, stream[e].source>> # d
          BY <1>1, <2>3, <5>1 DEF CallsOn
        <5>. QED  BY <4>1, <5>1, <5>2 DEF DeleteFilter
      <4>. QED  BY <4>2, <4>3
    <3>2. RowsOf(d)' = RowsOf(d)
      BY <2>1, <3>1 DEF RowsOf
    <3>. QED  BY <3>2
  <2>. QED  BY <2>2, <2>3
<1>4. CASE pc[w] = "upsert" /\ Write(e, Upserted(Chunks(e)))
  <2>1. rows' = Upserted(Chunks(e)) /\ Type(e) \in Pieced
    BY <1>4 DEF Write, Wrote
  <2>2. CASE e \in CallsOn(d)
    <3>1. Type(e) = "document.ingest"
      BY <1>1, <2>1, <2>2, CallOnDocument DEF Pieced
    <3>2. Chunks(e) \subseteq RowsOf(d)' /\ (RowsOf(d) = {} => RowsOf(d)' = Chunks(e))
      BY <1>1, <2>1, <2>2, UpsertFills
    <3>. QED  BY <1>4, <2>2, <3>1, <3>2
  <2>3. CASE e \notin CallsOn(d)
    <3>1. <<stream[e].tenant, stream[e].source>> # d
      BY <1>1, <2>1, <2>3 DEF CallsOn, Writes, Pieced
    <3>2. \A y \in Chunks(e) : <<y.tenant, y.source>> # d
      BY <3>1, ChunksOnDocument
    <3>3. \A x \in RowsOf(d), y \in Chunks(e) : ChunkId(x) # ChunkId(y)
      BY <3>2 DEF RowsOf, ChunkId
    <3>4. RowsOf(d)' = {x \in rows' : <<x.tenant, x.source>> = d}
      BY DEF RowsOf
    <3>5. RowsOf(d)' = RowsOf(d)
      BY <2>1, <3>2, <3>3, <3>4 DEF RowsOf, Upserted
    <3>. QED  BY <3>5
  <2>. QED  BY <2>2, <2>3
<1>. QED  BY <1>2, <1>3, <1>4, WorkingWrites

(* What has happened to a document stays so. *)
LEMMA HistoryGrows ==
  ASSUME IndexTypeOK, [Next]_vars
  PROVE  /\ begun \subseteq begun' /\ crossed \subseteq crossed'
         /\ \A e \in Published : Type(e)' = Type(e) /\ EventId(e)' = EventId(e)
         /\ \A d : /\ CallsOn(d) \subseteq CallsOn(d)'
                   /\ \A e \in CallsOn(d)' \cap Published : e \in CallsOn(d)
                   /\ Crossed(d) => Crossed(d)'
                   /\ \A e : Newest(d, e)' => Newest(d, e)
<1>1. begun \subseteq begun'
  BY WorkingMoves DEF Next, Working, Publish, Again, Skip, Begin, vars, histVars
<1>2. crossed \subseteq crossed'
  BY WorkingWrites, OnlyWorking DEF Write
<1>3. \A e \in Published : Type(e)' = Type(e) /\ EventId(e)' = EventId(e)
  BY StreamGrows DEF Type, EventId
<1>4. ASSUME NEW d
      PROVE  CallsOn(d) \subseteq CallsOn(d)' /\ \A e \in CallsOn(d)' \cap Published : e \in CallsOn(d)
  <2>1. \A e \in Published : e \in Published' /\ stream'[e] = stream[e]
    BY StreamGrows
  <2>2. \A e \in Published : Writes(e)' <=> Writes(e)
    BY <1>3 DEF Writes
  <2>. QED  BY <2>1, <2>2 DEF CallsOn
<1>. QED  BY <1>1, <1>2, <1>3, <1>4 DEF Crossed, Newest

(* Who writes is an ingest or a message. *)
LEMMA NextWrote ==
  ASSUME IndexTypeOK, CallsFit, RowsSaid, Wrote, [Next]_vars
  PROVE  Wrote'
<1>0. HandlersOK /\ HistoryOK /\ \A w \in Workers : job[w] # 0 => job[w] \in Published
  BY DEF IndexTypeOK, HandlersOK, HistoryOK
<1>1. ASSUME NEW x \in rows' PROVE Type(x.by)' \in Pieced
  <2>1. CASE x \in rows
    BY <2>1, HistoryGrows DEF Wrote, RowsSaid
  <2>2. CASE x \notin rows
    <3>1. PICK w \in Workers : Working(w)
      BY <2>2, OnlyWorking
    <3>2. x \in Chunks(job[w]) /\ pc[w] = "upsert"
      BY <2>2, <3>1, WorkingWrites DEF Write, Upserted
    <3>3. x.by = job[w] /\ job[w] \in Published /\ Type(job[w]) \in Pieced
      BY <1>0, <3>1, <3>2, ChunkFields, WorkingMoves DEF Wrote, HandlersOK
    <3>. QED  BY <3>3, HistoryGrows
  <2>. QED  BY <2>1, <2>2
<1>2. ASSUME NEW v \in Workers
      PROVE  /\ pc'[v] = "embed" => Type(job[v])' \in Pieced \cup {"retrieval.request"}
             /\ pc'[v] = "upsert" => Type(job[v])' \in Pieced
  <2>1. CASE pc'[v] = pc[v] /\ job'[v] = job[v]
    <3>1. pc[v] # "idle" => job[v] \in Published
      BY <1>0 DEF HandlersOK
    <3>. QED  BY <2>1, <3>1, HistoryGrows DEF Wrote
  <2>2. ASSUME NEW e \in Published, Begin(v, e)
        PROVE  pc'[v] # "upsert" /\ (pc'[v] = "embed" => job'[v] = e /\ ~Clears(e))
    BY <1>0, <2>2 DEF Begin, FirstCall, HandlersOK
  <2>3. ASSUME NEW e \in Published, Begin(v, e), pc'[v] = "embed"
        PROVE  Type(job[v])' \in Pieced \cup {"retrieval.request"}
    <3>1. Type(e) \in EventTypes
      BY CallIsRequest, RequestAssumption DEF IndexTypeOK, Type
    <3>. QED  BY <2>2, <2>3, <3>1, HistoryGrows DEF EventTypes, Clears, Pieced
  <2>4. ASSUME Working(v), pc'[v] \in {"embed", "upsert"}
        PROVE  /\ job'[v] = job[v] /\ job[v] \in Published
               /\ \/ pc'[v] = "embed" /\ Type(job[v]) = "document.ingest"
                  \/ pc'[v] = "upsert" /\ pc[v] = "embed" /\ Writes(job[v])
    <3>1. \E to \in PCs \ {"idle"} : GoOn(v, to)
      BY <1>0, <2>4, WorkingMoves DEF Leave, HandlersOK
    <3>2. job'[v] = job[v] /\ job[v] \in Published
      BY <1>0, <2>4, <3>1, WorkingMoves DEF GoOn, HandlersOK
    <3>3. Delete(v) => pc'[v] = "embed" /\ Type(job[v]) = "document.ingest"
      BY <1>0, <2>4 DEF Delete, GoOn, Return, Leave, HandlersOK
    <3>4. Embed(v) => pc[v] = "embed" /\ pc'[v] = "upsert" /\ Writes(job[v])
      BY <1>0, <2>4 DEF Embed, GoOn, HandlersOK
    <3>5. Settle(v) \/ Upsert(v) \/ Search(v) \/ Recent(v) \/ Reply(v) \/ Raise(v) \/ Crash(v)
            => pc'[v] \notin {"embed", "upsert"}
      <4>1. Settle(v) => GoOn(v, "reply") \/ \E to \in {"done", "parked", "waiting"} : Leave(v, to)
        BY DEF Settle, Return, Raised
      <4>2. Upsert(v) \/ Reply(v) \/ Raise(v) \/ Crash(v) =>
              \E to \in {"done", "parked", "waiting"} : Leave(v, to)
        BY DEF Upsert, Reply, Raise, Crash, Return, Raised
      <4>3. Search(v) \/ Recent(v) => \E to \in {"reply", "recent"} : GoOn(v, to)
        BY DEF Search, Recent
      <4>. QED  BY <1>0, <4>1, <4>2, <4>3 DEF GoOn, Leave, HandlersOK
    <3>. QED  BY <2>4, <3>2, <3>3, <3>4, <3>5 DEF Working, Call
  <2>5. ASSUME Working(v), pc'[v] \in {"embed", "upsert"}
        PROVE  /\ pc'[v] = "embed" => Type(job[v])' \in Pieced \cup {"retrieval.request"}
               /\ pc'[v] = "upsert" => Type(job[v])' \in Pieced
    BY <2>4, <2>5, HistoryGrows DEF Wrote, Pieced, Writes
  <2>6. \/ pc'[v] = pc[v] /\ job'[v] = job[v]
        \/ Working(v)
        \/ \E e \in Published : Begin(v, e)
    <3>1. ASSUME NEW w \in Workers, w # v, Working(w) PROVE pc'[v] = pc[v] /\ job'[v] = job[v]
      BY <1>0, <3>1, WorkingMoves DEF GoOn, Leave, HandlersOK
    <3>2. ASSUME NEW w \in Workers, w # v, NEW e \in Published, Begin(w, e)
          PROVE  pc'[v] = pc[v] /\ job'[v] = job[v]
      BY <1>0, <3>2 DEF Begin, HandlersOK
    <3>3. ASSUME \/ UNCHANGED vars
                 \/ \E r \in Requests : Publish(r)
                 \/ \E e \in Published : Again(e) \/ \E w \in Workers : Skip(w, e)
          PROVE  pc'[v] = pc[v] /\ job'[v] = job[v]
      BY <3>3 DEF vars, Publish, Again, Skip
    <3>. QED  BY <3>1, <3>2, <3>3 DEF Next, Working
  <2>. QED  BY <2>1, <2>2, <2>3, <2>5, <2>6
<1>. QED  BY <1>1, <1>2 DEF Wrote

(* A key that is found was set by a call that began. *)
LEMMA NextKeysBegun ==
  ASSUME IndexTypeOK, KeysBegun, [Next]_vars
  PROVE  KeysBegun'
<1>1. begun \subseteq Published
  BY DEF IndexTypeOK, HistoryOK
<1>2. \A ev : (\E f \in begun : EventId(f) = ev) => \E f \in begun' : EventId(f)' = ev
  BY <1>1, HistoryGrows
<1>3. ASSUME NEW ev \in claimed', ev \notin claimed PROVE \E f \in begun' : EventId(f)' = ev
  <2>1. PICK w \in Workers, e \in Published : Begin(w, e) /\ ev = EventId(e)
    <3>1. \A w \in Workers : Working(w) => claimed' \subseteq claimed
      BY DEF Working, Call, Delete, Settle, Embed, Upsert, Search, Recent, Reply, Raise, Crash,
             GoOn, Return, Raised, Leave, busVars
    <3>2. ASSUME \/ UNCHANGED vars
                 \/ \E r \in Requests : Publish(r)
                 \/ \E e \in Published : Again(e) \/ \E w \in Workers : Skip(w, e)
          PROVE  claimed' \subseteq claimed
      BY <3>2 DEF vars, busVars, Publish, Again, Skip
    <3>. QED  BY <1>3, <3>1, <3>2 DEF Next, Working, Begin
  <2>. QED  BY <2>1, HistoryGrows DEF Begin
<1>4. ASSUME NEW e \in Entries, place'[e] = "duplicate"
      PROVE  \E f \in begun' : EventId(f)' = EventId(e)'
  <2>1. CASE place[e] = "duplicate"
    <3>1. e \in Published
      BY <2>1 DEF IndexTypeOK, BusOK
    <3>. QED  BY <2>1, <3>1, <1>2, HistoryGrows DEF KeysBegun
  <2>2. CASE place[e] # "duplicate"
    <3>1. PICK w \in Workers, f \in Published :
            Skip(w, f) /\ place' = [place EXCEPT ![f] = "duplicate"] /\ EventId(f) \in claimed
      <4>1. \A w \in Workers : ~Working(w)
        BY <1>4, <2>2, WorkingMoves DEF GoOn, Leave, busVars, IndexTypeOK, BusOK
      <4>2. UNCHANGED vars \/ (\E r \in Requests : Publish(r)) => place'[e] # "duplicate"
        BY <2>2 DEF vars, busVars, Publish, IndexTypeOK, BusOK
      <4>3. \A f \in Published : /\ Again(f) => place'[e] # "duplicate"
                                 /\ \A w \in Workers : Begin(w, f) => place'[e] # "duplicate"
        BY <2>2 DEF Again, Begin, IndexTypeOK, BusOK
      <4>4. PICK w \in Workers, f \in Published : Skip(w, f)
        BY <1>4, <2>2, <4>1, <4>2, <4>3 DEF Next, Working
      <4>. QED  BY <1>4, <2>2, <4>4 DEF Skip, IndexTypeOK, BusOK
    <3>2. e = f
      BY <1>4, <2>2, <3>1 DEF IndexTypeOK, BusOK
    <3>. QED  BY <3>1, <3>2, <1>2, HistoryGrows DEF KeysBegun
  <2>. QED  BY <2>1, <2>2
<1>. QED  BY <1>2, <1>3, <1>4 DEF KeysBegun, Entries

(* A call on a document is done only once it has removed, or written, all    *)
(* it had to.                                                               *)
LEMMA NewlyDone ==
  ASSUME IndexTypeOK, CallsFit, Wrote, SourcesApart, [Next]_vars,
         NEW d \in Documents, NEW e \in CallsOn(d), place[e] # "done", place'[e] = "done"
  PROVE  \E w \in Workers :
           /\ Working(w) /\ job[w] = e
           /\ \/ pc[w] = "delete" /\ rows' = rows \ DeleteFilter(stream[e]) /\ Said(e) = {}
              \/ pc[w] = "upsert" /\ rows' = Upserted(Chunks(e)) /\ Type(e) = "document.ingest"
<1>1. /\ e \in Entries /\ Type(e) \in {"document.ingest", "document.delete"} /\ Writes(e)
      /\ stream[e] \in Requests /\ stream[e].size \in Nat
  BY CallOnDocument, CallIsRequest, RequestAssumption DEF IndexTypeOK
<1>2. PICK w \in Workers : Working(w)
  <2>0. place \in [Entries -> {"unsent", "queued", "held", "waiting", "done", "duplicate", "parked"}]
    BY DEF IndexTypeOK, BusOK
  <2>1. UNCHANGED vars => place' = place
    BY DEF vars, busVars
  <2>2. \A f, to : place' = [place EXCEPT ![f] = to] /\ to # "done" => place'[e] # "done"
    BY <1>1, <2>0
  <2>3. \A r \in Requests : Publish(r) => \E f : place' = [place EXCEPT ![f] = "queued"]
    BY DEF Publish
  <2>4. \A f : Again(f) => place' = [place EXCEPT ![f] = "waiting"]
    BY DEF Again
  <2>5. \A v, f : Begin(v, f) => place' = [place EXCEPT ![f] = "held"]
    BY DEF Begin
  <2>6. \A v, f : Skip(v, f) => \E to \in {"parked", "duplicate"} : place' = [place EXCEPT ![f] = to]
    BY DEF Skip
  <2>. QED  BY <2>1, <2>2, <2>3, <2>4, <2>5, <2>6 DEF Next, Working
<1>3. Leave(w, "done") /\ job[w] = e
  BY <1>1, <1>2, WorkingMoves DEF GoOn, Leave, busVars, IndexTypeOK, BusOK
<1>4. \A to : GoOn(w, to) => FALSE
  BY <1>1 DEF GoOn, busVars
<1>5. \A to : Leave(w, to) => to = "done"
  BY <1>1, <1>3 DEF Leave, IndexTypeOK, BusOK
<1>6. CASE Delete(w)
  <2>1. /\ pc[w] = "delete" /\ rows' = rows \ DeleteFilter(stream[e])
        /\ ~(Type(e) = "document.ingest" /\ stream[e].size > 0)
    BY <1>3, <1>4, <1>6 DEF Delete, Write
  <2>2. Type(e) = "document.ingest" => 0..stream[e].size - 1 = {}
    BY <1>1, <2>1
  <2>3. Said(e) = {}
    BY <2>2 DEF Said, Chunks
  <2>. QED  BY <1>2, <1>3, <2>1, <2>3
<1>7. CASE Upsert(w)
  <2>1. pc[w] = "upsert" /\ rows' = Upserted(Chunks(e)) /\ Type(e) \in Pieced
    BY <1>3, <1>7 DEF Upsert, Write, Wrote
  <2>. QED  BY <1>1, <1>2, <1>3, <2>1 DEF Pieced
<1>8. ~Settle(w)
  BY <1>1, <1>3 DEF Settle, Settled, Type
<1>9. ~(Search(w) \/ Recent(w) \/ Reply(w))
  BY <1>1, <1>3 DEF Search, Recent, Reply, CallsFit
<1>10. ~(Embed(w) \/ Raise(w) \/ Crash(w))
  BY <1>4, <1>5 DEF Embed, Raise, Raised, Crash
<1>. QED  BY <1>2, <1>6, <1>7, <1>8, <1>9, <1>10 DEF Working, Call

(* A call on a document comes to the point of writing by deleting first.    *)
LEMMA AboutToWrite ==
  ASSUME IndexTypeOK, CallsFit, SourcesApart, [Next]_vars,
         NEW d \in Documents, NEW v \in Workers, job'[v] \in CallsOn(d)',
         pc'[v] \in {"embed", "upsert"}
  PROVE  /\ job'[v] \in CallsOn(d)
         /\ job'[v] \in begun'
         /\ \/ job[v] = job'[v] /\ pc[v] \in {"embed", "upsert"}
            \/ Delete(v) /\ job[v] = job'[v]
<1>0. /\ BusOK /\ HandlersOK /\ HistoryOK
      /\ pc \in [Workers -> PCs] /\ job \in [Workers -> Entries \cup {0}]
      /\ \A w \in Workers : pc[w] # "idle" => job[w] \in begun /\ job[w] \in Published
  BY DEF IndexTypeOK, HandlersOK, HistoryOK
<1>1. CASE pc'[v] = pc[v] /\ job'[v] = job[v]
  BY <1>0, <1>1, HistoryGrows DEF PCs
<1>2. CASE Working(v)
  <2>1. job'[v] = job[v] /\ job[v] \in begun /\ job[v] \in Published
    BY <1>0, <1>2, WorkingMoves DEF GoOn, Leave
  <2>2. ~(Settle(v) \/ Upsert(v) \/ Search(v) \/ Recent(v) \/ Reply(v) \/ Raise(v) \/ Crash(v))
    <3>1. Settle(v) => GoOn(v, "reply") \/ \E to \in {"done", "parked", "waiting"} : Leave(v, to)
      BY DEF Settle, Return, Raised
    <3>2. Upsert(v) \/ Reply(v) \/ Raise(v) \/ Crash(v) =>
            \E to \in {"done", "parked", "waiting"} : Leave(v, to)
      BY DEF Upsert, Reply, Raise, Crash, Return, Raised
    <3>3. Search(v) \/ Recent(v) => \E to \in {"reply", "recent"} : GoOn(v, to)
      BY DEF Search, Recent
    <3>. QED  BY <1>0, <3>1, <3>2, <3>3 DEF GoOn, Leave
  <2>. QED  BY <1>2, <2>1, <2>2, HistoryGrows DEF Working, Call, Embed
<1>3. ASSUME NEW e \in Published, Begin(v, e) PROVE FALSE
  <2>1. job'[v] = e /\ pc'[v] = FirstCall(e)
    BY <1>0, <1>3 DEF Begin
  <2>2. e \in CallsOn(d)
    BY <2>1, HistoryGrows
  <2>. QED  BY <1>0, <2>1, <2>2, CallOnDocument DEF FirstCall
<1>4. \/ pc'[v] = pc[v] /\ job'[v] = job[v]
      \/ Working(v)
      \/ \E e \in Published : Begin(v, e)
  <2>1. ASSUME NEW w \in Workers, w # v, Working(w) PROVE pc'[v] = pc[v] /\ job'[v] = job[v]
    BY <1>0, <2>1, WorkingMoves DEF GoOn, Leave
  <2>2. ASSUME NEW w \in Workers, w # v, NEW e \in Published, Begin(w, e)
        PROVE  pc'[v] = pc[v] /\ job'[v] = job[v]
    BY <1>0, <2>2 DEF Begin
  <2>3. ASSUME \/ UNCHANGED vars
               \/ \E r \in Requests : Publish(r)
               \/ \E e \in Published : Again(e) \/ \E w \in Workers : Skip(w, e)
        PROVE  pc'[v] = pc[v] /\ job'[v] = job[v]
    BY <2>3 DEF vars, Publish, Again, Skip
  <2>. QED  BY <2>1, <2>2, <2>3 DEF Next, Working
<1>. QED  BY <1>1, <1>2, <1>3, <1>4

(* A call that writes, and crosses none, is the newest of its document.     *)
LEMMA WriterNewest ==
  ASSUME IndexTypeOK, SourcesApart, [Next]_vars, NEW d \in Documents, ~Crossed(d)',
         NEW e \in CallsOn(d), NEW new, Write(e, new)
  PROVE  Newest(d, e)
<1>. SUFFICES ASSUME NEW f \in CallsOn(d) \cap begun, ~(f <= e) PROVE FALSE
  BY DEF Newest
<1>1. e \in Nat /\ f \in Nat
  BY CallIsRequest, IndexBounds DEF CallsOn, IndexTypeOK, Entries
<1>2. f > e /\ f # e
  BY <1>1
<1>3. Conflict(e, f)
  BY <1>2, CallsConflict DEF IndexTypeOK
<1>4. e \in crossed'
  BY <1>2, <1>3 DEF Write
<1>. QED  BY <1>4, HistoryGrows DEF Crossed

(* The newest of two calls that are each the newest. *)
LEMMA NewestIsOne ==
  ASSUME IndexTypeOK, NEW d, NEW e \in CallsOn(d), NEW f \in CallsOn(d),
         Newest(d, e), Newest(d, f), e \in begun, f \in begun
  PROVE  e = f
<1>1. e \in Nat /\ f \in Nat
  BY CallIsRequest, IndexBounds DEF CallsOn, IndexTypeOK, Entries
<1>2. e <= f /\ f <= e
  BY DEF Newest
<1>. QED  BY <1>1, <1>2

(* What a call said stays said, and only what was published begins. *)
LEMMA SayingsStay ==
  ASSUME IndexTypeOK, [Next]_vars, NEW d
  PROVE  /\ begun' \subseteq Published
         /\ \A e \in CallsOn(d) :
              /\ e \in CallsOn(d)' /\ e \in Published
              /\ Chunks(e)' = Chunks(e) /\ Said(e)' = Said(e) /\ Type(e)' = Type(e)
              /\ stream'[e] = stream[e]
         /\ \A e \in CallsOn(d)' :
              place'[e] = "done" => e \in CallsOn(d) /\ e \in begun'
<1>1. begun' \subseteq Published
  BY WorkingMoves
     DEF IndexTypeOK, HistoryOK, Next, Working, Publish, Again, Skip, Begin, vars, histVars
<1>2. ASSUME NEW e \in CallsOn(d)
      PROVE  /\ e \in CallsOn(d)' /\ e \in Published /\ Type(e)' = Type(e)
             /\ Chunks(e)' = Chunks(e) /\ Said(e)' = Said(e) /\ stream'[e] = stream[e]
  <2>1. e \in Published
    BY DEF CallsOn
  <2>2. e \in CallsOn(d)' /\ Type(e)' = Type(e) /\ Chunks(e)' = Chunks(e) /\ stream'[e] = stream[e]
    BY <2>1, HistoryGrows, CallsKeep, StreamGrows
  <2>. QED  BY <2>1, <2>2 DEF Said
<1>3. ASSUME NEW e \in CallsOn(d)', place'[e] = "done"
      PROVE  e \in CallsOn(d) /\ e \in begun'
  <2>1. e \in Published' /\ BusOK' /\ HistoryOK'
    BY NextTypes DEF CallsOn, IndexTypeOK
  <2>2. e \in Entries
    <3>1. stream' \in Seq(Requests) /\ Len(stream') <= MaxEvents
      BY <2>1 DEF BusOK
    <3>2. Len(stream') \in Nat
      BY <3>1
    <3>. QED  BY <2>1, <3>1, <3>2, IndexBounds DEF Published, Entries
  <2>3. e \in begun'
    BY <1>3, <2>1, <2>2 DEF HistoryOK, Entries
  <2>. QED  BY <1>1, <2>3, HistoryGrows
<1>. QED  BY <1>1, <1>2, <1>3

(* While its calls are carried out in order, the rows of a document change   *)
(* only as its newest call deletes them, or fills the empty document.        *)
LEMMA OrderedStep ==
  ASSUME IndexTypeOK, CallsFit, RowsSaid, Wrote, SourcesApart, InOrder, [Next]_vars,
         NEW d \in Documents, ~Crossed(d)'
  PROVE  \/ RowsOf(d)' = RowsOf(d)
         \/ \E w \in Workers :
              /\ Working(w) /\ job[w] \in CallsOn(d) /\ Newest(d, job[w])
              /\ \/ pc[w] = "delete" /\ RowsOf(d)' = {}
                 \/ /\ pc[w] = "upsert" /\ RowsOf(d) = {}
                    /\ RowsOf(d)' = Chunks(job[w])
<1>1. CASE ~\E w \in Workers : Working(w)
  BY <1>1, OnlyWorking DEF RowsOf
<1>2. ASSUME NEW w \in Workers, Working(w), RowsOf(d)' # RowsOf(d)
      PROVE  /\ job[w] \in CallsOn(d) /\ Newest(d, job[w])
             /\ \/ pc[w] = "delete" /\ RowsOf(d)' = {}
                \/ pc[w] = "upsert" /\ RowsOf(d) = {} /\ RowsOf(d)' = Chunks(job[w])
  <2>1. /\ job[w] \in CallsOn(d)
        /\ \/ pc[w] = "delete" /\ RowsOf(d)' = {}
           \/ pc[w] = "upsert" /\ (RowsOf(d) = {} => RowsOf(d)' = Chunks(job[w]))
        /\ \E new : Write(job[w], new)
    BY <1>2, DocumentStep
  <2>2. Newest(d, job[w])
    BY <2>1, WriterNewest
  <2>3. pc[w] = "upsert" => RowsOf(d) = {}
    BY <2>1, <2>2, HistoryGrows DEF InOrder
  <2>. QED  BY <2>1, <2>2, <2>3
<1>. QED  BY <1>1, <1>2

(* The order is kept. *)
LEMMA NextInOrder ==
  ASSUME IndexTypeOK, CallsFit, RowsSaid, Wrote, SourcesApart, InOrder, [Next]_vars
  PROVE  InOrder'
<1>. SUFFICES
       ASSUME NEW d \in Documents, ~Crossed(d)'
       PROVE  /\ RowsOf(d)' = {} \/ \E e \in CallsOn(d)' : RowsOf(d)' = Chunks(e)'
              /\ \A v \in Workers :
                   /\ job'[v] \in CallsOn(d)' /\ Newest(d, job[v])'
                   /\ pc'[v] \in {"embed", "upsert"}
                   => RowsOf(d)' = {}
              /\ \A e \in CallsOn(d)' :
                   Newest(d, e)' /\ place'[e] = "done" => RowsOf(d)' = Said(e)'
  BY DEF InOrder
<1>0. /\ BusOK /\ HandlersOK /\ pc \in [Workers -> PCs]
      /\ \A w \in Workers : pc[w] # "idle" =>
           job[w] \in begun /\ job[w] \in Entries /\ place[job[w]] = "held"
      /\ \A w, v \in Workers : job[w] = job[v] /\ pc[w] # "idle" => w = v
  BY DEF IndexTypeOK, HandlersOK, HistoryOK
<1>1. /\ RowsOf(d) = {} \/ \E e \in CallsOn(d) : RowsOf(d) = Chunks(e)
      /\ \A v \in Workers :
           job[v] \in CallsOn(d) /\ Newest(d, job[v]) /\ pc[v] \in {"embed", "upsert"}
           => RowsOf(d) = {}
      /\ \A e \in CallsOn(d) : Newest(d, e) /\ place[e] = "done" => RowsOf(d) = Said(e)
  BY HistoryGrows DEF InOrder
<1>2. RowsOf(d)' = {} \/ \E e \in CallsOn(d)' : RowsOf(d)' = Chunks(e)'
  BY <1>1, OrderedStep, SayingsStay
<1>3. ASSUME NEW v \in Workers, job'[v] \in CallsOn(d)', Newest(d, job[v])',
             pc'[v] \in {"embed", "upsert"}
      PROVE  RowsOf(d)' = {}
  <2>1. CASE job[v] = job'[v] /\ pc[v] \in {"embed", "upsert"}
    <3>1. job[v] \in CallsOn(d) /\ Newest(d, job[v]) /\ job[v] \in begun
      <4>1. job'[v] \in CallsOn(d)
        BY <1>3, AboutToWrite
      <4>2. Newest(d, job'[v])
        BY <1>3, HistoryGrows
      <4>. QED  BY <1>0, <2>1, <4>1, <4>2
    <3>2. RowsOf(d) = {}
      BY <1>1, <2>1, <3>1
    <3>3. ASSUME NEW w \in Workers, Working(w), job[w] \in CallsOn(d), Newest(d, job[w]),
                 pc[w] = "upsert"
          PROVE  FALSE
      <4>1. job[w] = job[v]
        BY <1>0, <3>1, <3>3, NewestIsOne
      <4>2. w = v
        BY <1>0, <3>3, <4>1
      <4>3. ~(Delete(w) \/ Settle(w) \/ Embed(w) \/ Search(w) \/ Recent(w) \/ Reply(w))
        BY <3>3 DEF Delete, Settle, Embed, Search, Recent, Reply
      <4>4. \E to : Leave(w, to)
        BY <3>3, <4>3 DEF Working, Call, Upsert, Return, Raise, Raised, Crash
      <4>. QED  BY <1>0, <1>3, <4>2, <4>4 DEF Leave
    <3>. QED  BY <3>2, <3>3, OrderedStep
  <2>2. CASE Delete(v) /\ job[v] = job'[v]
    <3>1. rows' = rows \ DeleteFilter(stream[job[v]])
      BY <2>2 DEF Delete, Write
    <3>2. job[v] \in CallsOn(d)
      BY <1>3, <2>2, AboutToWrite
    <3>. QED  BY <1>0, <3>1, <3>2, DeleteEmpties
  <2>. QED  BY <1>3, <2>1, <2>2, AboutToWrite
<1>4. ASSUME NEW e \in CallsOn(d)', Newest(d, e)', place'[e] = "done"
      PROVE  RowsOf(d)' = Said(e)'
  <2>1. e \in CallsOn(d) /\ Said(e)' = Said(e) /\ Newest(d, e)
    BY <1>4, SayingsStay, HistoryGrows
  <2>2. CASE place[e] = "done"
    <3>1. RowsOf(d) = Said(e) /\ e \in begun
      <4>1. e \in Entries
        BY <1>0, <2>1, CallIsRequest DEF CallsOn
      <4>. QED  BY <1>1, <2>1, <2>2, <4>1 DEF IndexTypeOK, HistoryOK
    <3>2. ASSUME NEW w \in Workers, Working(w), job[w] \in CallsOn(d), Newest(d, job[w]),
                 pc[w] # "idle"
          PROVE  FALSE
      <4>1. job[w] = e
        BY <1>0, <2>1, <3>1, <3>2, NewestIsOne
      <4>. QED  BY <1>0, <2>2, <3>2, <4>1
    <3>. QED  BY <2>1, <3>1, <3>2, OrderedStep
  <2>3. CASE place[e] # "done"
    <3>1. PICK w \in Workers :
           /\ Working(w) /\ job[w] = e
           /\ \/ pc[w] = "delete" /\ rows' = rows \ DeleteFilter(stream[e]) /\ Said(e) = {}
              \/ pc[w] = "upsert" /\ rows' = Upserted(Chunks(e)) /\ Type(e) = "document.ingest"
      BY <1>4, <2>1, <2>3, NewlyDone
    <3>2. CASE pc[w] = "delete" /\ rows' = rows \ DeleteFilter(stream[e]) /\ Said(e) = {}
      BY <1>0, <2>1, <3>2, DeleteEmpties
    <3>3. CASE pc[w] = "upsert" /\ rows' = Upserted(Chunks(e)) /\ Type(e) = "document.ingest"
      <4>1. RowsOf(d) = {}
        BY <1>1, <2>1, <3>1, <3>3
      <4>2. RowsOf(d)' = Chunks(e)
        BY <1>0, <2>1, <3>3, <4>1, UpsertFills
      <4>. QED  BY <2>1, <3>3, <4>2 DEF Said
    <3>. QED  BY <3>1, <3>2, <3>3
  <2>. QED  BY <2>2, <2>3
<1>. QED  BY <1>2, <1>3, <1>4

(* An indexed document is emptied only as some call on it removes it. *)
LEMMA NextEmptyExplained ==
  ASSUME IndexTypeOK, CallsFit, RowsSaid, Wrote, SourcesApart, EmptyExplained, [Next]_vars
  PROVE  EmptyExplained'
<1>. SUFFICES
       ASSUME NEW d \in Documents, NEW e \in CallsOn(d)',
              Type(e)' = "document.ingest", stream'[e].size > 0,
              place'[e] = "done", RowsOf(d)' = {}
       PROVE  \E f \in CallsOn(d)' \cap begun' :
                place'[f] # "done" \/ Chunks(f)' = {} \/ Type(f)' = "document.delete"
  BY DEF EmptyExplained
<1>0. BusOK /\ HandlersOK /\ HistoryOK
  BY DEF IndexTypeOK
<1>1. /\ e \in CallsOn(d) /\ Type(e) = "document.ingest" /\ stream[e].size > 0
      /\ Chunks(e) # {}
  <2>1. e \in CallsOn(d)
    BY SayingsStay
  <2>2. stream[e].size > 0 /\ Type(e) = "document.ingest" /\ stream[e].size \in Nat
    BY <1>0, <2>1, SayingsStay, CallOnDocument, RequestAssumption
  <2>3. 0 \in 0..stream[e].size - 1
    BY <2>2
  <2>. QED  BY <2>1, <2>2, <2>3 DEF Chunks
<1>2. ASSUME NEW f \in CallsOn(d) \cap begun, place[f] # "done", place'[f] = "done"
      PROVE  Chunks(f) = {} \/ Type(f) = "document.delete"
  <2>1. Type(f) \in {"document.ingest", "document.delete"}
    BY <1>0, CallOnDocument
  <2>2. Said(f) = {} \/ rows' = Upserted(Chunks(f))
    BY <1>2, NewlyDone
  <2>3. rows' = Upserted(Chunks(f)) => Chunks(f) \subseteq RowsOf(d)'
    BY <1>0, UpsertFills
  <2>. QED  BY <2>1, <2>2, <2>3 DEF Said
<1>3. ASSUME NEW f \in CallsOn(d) \cap begun,
             place[f] # "done" \/ Chunks(f) = {} \/ Type(f) = "document.delete"
      PROVE  \E g \in CallsOn(d)' \cap begun' :
                place'[g] # "done" \/ Chunks(g)' = {} \/ Type(g)' = "document.delete"
  <2>1. /\ f \in CallsOn(d)' \cap begun'
        /\ place'[f] # "done" \/ Chunks(f) = {} \/ Type(f) = "document.delete"
    BY <1>2, <1>3, SayingsStay, HistoryGrows
  <2>. QED  BY <2>1, SayingsStay
<1>4. CASE place[e] # "done"
  <2>1. Said(e) = {} \/ rows' = Upserted(Chunks(e))
    BY <1>1, <1>4, NewlyDone
  <2>2. rows' = Upserted(Chunks(e)) => Chunks(e) \subseteq RowsOf(d)'
    BY <1>0, <1>1, UpsertFills
  <2>. QED  BY <1>1, <2>1, <2>2 DEF Said
<1>5. CASE place[e] = "done" /\ RowsOf(d) = {}
  BY <1>1, <1>3, <1>5 DEF EmptyExplained
<1>6. CASE RowsOf(d) # {}
  <2>1. PICK w \in Workers :
          Working(w) /\ job[w] \in CallsOn(d) /\ pc[w] # "idle"
    <3>1. PICK w \in Workers : Working(w)
      BY <1>6, OnlyWorking DEF RowsOf
    <3>2. job[w] \in CallsOn(d)
      BY <1>6, <3>1, DocumentStep
    <3>. QED  BY <3>1, <3>2, WorkingMoves
  <2>2. job[w] \in CallsOn(d) \cap begun /\ place[job[w]] = "held"
    BY <1>0, <2>1 DEF HandlersOK, HistoryOK
  <2>. QED  BY <1>3, <2>2
<1>. QED  BY <1>4, <1>5, <1>6

(* In order, what a document shows is one call's. *)
LEMMA OrderShowsOne == InOrder => OneRevision
BY DEF InOrder, OneRevision

(* Two calls of one event id, the one on a document, are the same ingest or   *)
(* the same entry.                                                          *)
LEMMA SameIdSameText ==
  ASSUME BusOK, SourcesApart, NEW d \in Documents, NEW e \in CallsOn(d),
         NEW f \in Published, EventId(f) = EventId(e), f # e
  PROVE  /\ Type(e) = "document.ingest" /\ Type(f) = "document.ingest"
         /\ stream[f].source = stream[e].source /\ stream[f].text = stream[e].text
<1>1. Type(e) \in {"document.ingest", "document.delete"}
  BY CallOnDocument
<1>2. Type(e) # "document.delete"
  <2>. SUFFICES ASSUME Type(e) = "document.delete" PROVE FALSE
    OBVIOUS
  <2>1. EventId(f) = <<"document.delete", e>>
    BY DEF EventId
  <2>2. CASE Type(f) = "document.ingest"
    <3>1. <<"doc", stream[f].source, stream[f].text>> = <<"document.delete", e>>
      BY <2>1, <2>2 DEF EventId
    <3>. QED  BY <3>1
  <2>3. CASE Type(f) = "message.index"
    <3>1. <<"msg", stream[f].source>> = <<"document.delete", e>>
      BY <2>1, <2>3 DEF EventId
    <3>. QED  BY <3>1
  <2>4. CASE Type(f) \notin {"document.ingest", "message.index"}
    <3>1. <<Type(f), f>> = <<"document.delete", e>>
      BY <2>1, <2>4 DEF EventId
    <3>. QED  BY <3>1
  <2>. QED  BY <2>2, <2>3, <2>4
<1>3. EventId(f) = <<"doc", stream[e].source, stream[e].text>>
  BY <1>1, <1>2 DEF EventId
<1>4. CASE Type(f) = "document.ingest"
  <2>1. <<"doc", stream[f].source, stream[f].text>> = <<"doc", stream[e].source, stream[e].text>>
    BY <1>3, <1>4 DEF EventId
  <2>. QED  BY <1>1, <1>2, <1>4, <2>1
<1>5. CASE Type(f) = "message.index"
  <2>1. <<"msg", stream[f].source>> = <<"doc", stream[e].source, stream[e].text>>
    BY <1>3, <1>5 DEF EventId
  <2>. QED  BY <2>1
<1>6. CASE Type(f) \notin {"document.ingest", "message.index"}
  <2>1. <<Type(f), f>> = <<"doc", stream[e].source, stream[e].text>>
    BY <1>3, <1>6 DEF EventId
  <2>. QED  BY <2>1
<1>. QED  BY <1>4, <1>5, <1>6

(* In order, the index is current: the newest call that began is the last    *)
(* one, or the one whose event id the last one repeats.                      *)
LEMMA OrderIsCurrent ==
  ASSUME IndexTypeOK, SourcesApart, KeysBegun, InOrder
  PROVE  IndexCurrent
<1>. SUFFICES ASSUME NEW d \in Documents, NEW e \in CallsOn(d),
                     \A f \in CallsOn(d) : f <= e, ~Crossed(d)
              PROVE  /\ place[e] = "done" => Says(d, e)
                     /\ place[e] = "duplicate" => Says(d, e) \/ FalseDuplicate(e)
  BY DEF IndexCurrent
<1>0. BusOK /\ begun \subseteq Published
  BY DEF IndexTypeOK, HistoryOK
<1>1. \A f \in CallsOn(d) : Newest(d, f) /\ place[f] = "done" => RowsOf(d) = Said(f)
  BY DEF InOrder
<1>3. CASE place[e] = "done"
  <2>1. RowsOf(d) = Said(e)
    BY <1>1, <1>3 DEF Newest
  <2>. QED  BY <1>3, <2>1 DEF Says
<1>4. CASE place[e] = "duplicate" /\ ~FalseDuplicate(e)
  <2>1. e \notin begun
    BY <1>4 DEF FalseDuplicate
  <2>2. PICK f \in begun : EventId(f) = EventId(e)
    BY <1>0, <1>4, CallIsRequest DEF CallsOn, KeysBegun
  <2>3. f \in Published \ {e}
    BY <1>0, <2>1, <2>2
  <2>4. /\ stream[f].tenant = stream[e].tenant /\ place[f] = "done"
        /\ \A g \in (f + 1)..(e - 1) : ~Conflict(g, e)
    BY <1>4, <2>2, <2>3 DEF FalseDuplicate
  <2>5. /\ Type(e) = "document.ingest" /\ Type(f) = "document.ingest"
        /\ stream[f].source = stream[e].source /\ stream[f].text = stream[e].text
    BY <1>0, <2>2, <2>3, SameIdSameText
  <2>6. f \in CallsOn(d)
    BY <2>3, <2>4, <2>5 DEF CallsOn, Writes
  <2>7. Newest(d, f)
    <3>. SUFFICES ASSUME NEW g \in CallsOn(d) \cap begun, ~(g <= f) PROVE FALSE
      BY DEF Newest
    <3>1. e \in Nat /\ f \in Nat /\ g \in Nat
      BY <1>0, <2>6, CallIsRequest, IndexBounds DEF CallsOn, Entries
    <3>2. g <= e /\ g # e
      BY <2>1
    <3>3. g \in (f + 1)..(e - 1)
      BY <3>1, <3>2
    <3>. QED  BY <1>0, <2>4, <3>2, <3>3, CallsConflict
  <2>8. RowsOf(d) = Chunks(f)
    BY <1>1, <2>4, <2>5, <2>6, <2>7 DEF Said
  <2>9. stream[f].size = stream[e].size
    BY <1>0, <2>3, <2>5, CallIsRequest, TextAssumption DEF CallsOn, Type
  <2>10. Pieces(Chunks(f)) = Pieces(Chunks(e))
    <3>1. ASSUME NEW g, NEW h, stream[g].size = stream[h].size, stream[g].text = stream[h].text
          PROVE  Pieces(Chunks(g)) \subseteq Pieces(Chunks(h))
      <4>1. ASSUME NEW x \in Chunks(g)
            PROVE  \E y \in Chunks(h) : y.index = x.index /\ y.text = x.text
        <5>. DEFINE Piece(k, i) ==
               [tenant |-> stream[k].tenant, source |-> stream[k].source, index |-> i,
                scope |-> IF stream[k].type = "message.index" THEN "chat" ELSE "doc",
                conv |-> stream[k].conv, text |-> stream[k].text, by |-> k]
        <5>1. \A k : Chunks(k) = {Piece(k, i) : i \in 0..stream[k].size - 1}
          BY DEF Chunks
        <5>2. \A k, i : Piece(k, i).index = i /\ Piece(k, i).text = stream[k].text
          OBVIOUS
        <5>. HIDE DEF Piece
        <5>3. PICK i \in 0..stream[g].size - 1 : x = Piece(g, i)
          BY <5>1
        <5>4. Piece(h, i) \in Chunks(h)
          BY <3>1, <5>1, <5>3
        <5>. QED  BY <3>1, <5>2, <5>3, <5>4
      <4>2. ASSUME NEW p \in Pieces(Chunks(g)) PROVE p \in Pieces(Chunks(h))
        <5>1. PICK x \in Chunks(g) : p = <<x.index, x.text>>
          BY DEF Pieces
        <5>2. PICK y \in Chunks(h) : y.index = x.index /\ y.text = x.text
          BY <4>1
        <5>3. p = <<y.index, y.text>>
          BY <5>1, <5>2
        <5>. QED  BY <5>3 DEF Pieces
      <4>. QED  BY <4>2
    <3>2. Pieces(Chunks(f)) \subseteq Pieces(Chunks(e))
      BY <2>5, <2>9, <3>1
    <3>3. Pieces(Chunks(e)) \subseteq Pieces(Chunks(f))
      BY <2>5, <2>9, <3>1
    <3>. QED  BY <3>2, <3>3
  <2>. QED  BY <2>5, <2>8, <2>10 DEF Said, Says
<1>. QED  BY <1>3, <1>4

(* All of it together. *)
OrderInv == IndexInv /\ Wrote /\ KeysBegun /\ InOrder /\ EmptyExplained

(* It holds at first. *)
LEMMA InitOrder == Init => OrderInv
<1>. SUFFICES ASSUME Init PROVE OrderInv
  OBVIOUS
<1>1. IndexInv
  BY InitInv
<1>2. Wrote /\ KeysBegun
  BY DEF Init, Wrote, KeysBegun
<1>3. \A d : CallsOn(d) = {} /\ RowsOf(d) = {}
  BY DEF Init, CallsOn, RowsOf, Published
<1>4. InOrder /\ EmptyExplained
  BY <1>3 DEF InOrder, EmptyExplained
<1>. QED  BY <1>1, <1>2, <1>4 DEF OrderInv

(* Every step keeps it. *)
LEMMA NextOrder == SourcesApart /\ OrderInv /\ [Next]_vars => OrderInv'
BY NextTypes, NextCallsFit, NextRowsSaid, NextDeletedGone, NextFoundAllowed,
   NextWrote, NextKeysBegun, NextInOrder, NextEmptyExplained
   DEF IndexInv, OrderInv

(* It holds always, if no message has the id of a document. *)
LEMMA OrderHolds ==
  ASSUME SourcesApart
  PROVE  Spec => []OrderInv
<1>1. OrderInv /\ [Next]_vars => OrderInv'
  BY NextOrder
<1>. QED  BY InitOrder, <1>1, PTL DEF Spec

(* No document shows pieces of two revisions, whatever the workers and       *)
(* faults, while no call on it was carried out after a later one began and   *)
(* no message has its id (ingest_document 43-48).                           *)
THEOREM ShowsOneRevision ==
  ASSUME SourcesApart
  PROVE  Spec => []OneRevision
<1>1. OrderInv => OneRevision
  BY OrderShowsOne DEF OrderInv
<1>. QED  BY OrderHolds, <1>1, PTL

(* Once the last call on a document is handled, or skipped as a duplicate,   *)
(* the index says what it said, but for calls out of order and false         *)
(* duplicates, those only that FalseDuplicate lists (client.py 89-96,        *)
(* on_document_ingest 60-69).                                               *)
THEOREM IndexIsCurrent ==
  ASSUME SourcesApart
  PROVE  Spec => []IndexCurrent
<1>1. OrderInv => IndexCurrent
  BY OrderIsCurrent DEF OrderInv, IndexInv
<1>. QED  BY OrderHolds, <1>1, PTL

(* An indexed document is empty only after a call on it that removes it or   *)
(* is not done, also when calls are carried out out of order                 *)
(* (ingest_document 78-79).                                                 *)
THEOREM EmptinessExplained ==
  ASSUME SourcesApart
  PROVE  Spec => []EmptyExplained
<1>1. OrderInv => EmptyExplained
  BY DEF OrderInv
<1>. QED  BY OrderHolds, <1>1, PTL

-----------------------------------------------------------------------------
(* The index implements DocumentStore. *)

(* The calls on d that have begun. *)
Begun(d) == CallsOn(d) \cap begun

SaidBy(d) == [e \in Begun(d) |-> Pieces(Said(e))]

SaidOf == [d \in Documents |-> [e \in CallsOn(d) \cap begun |-> Pieces(Said(e))]]

ShownOf == [d \in Documents |-> Pieces(RowsOf(d))]

(* What a call said, as a set of pieces, is one of the texts there are. *)
LEMMA TextSaid ==
  ASSUME NEW e, stream[e] \in Requests
  PROVE  Pieces(Said(e)) \in
           {{<<i, r.text>> : i \in 0..r.size - 1} : r \in Requests} \cup {{}}
<1>1. CASE Type(e) # "document.ingest"
  BY <1>1 DEF Said, Pieces
<1>2. CASE Type(e) = "document.ingest"
  <2>. DEFINE r == stream[e]
              Piece(i) == [tenant |-> r.tenant, source |-> r.source, index |-> i,
                           scope |-> IF r.type = "message.index" THEN "chat" ELSE "doc",
                           conv |-> r.conv, text |-> r.text, by |-> e]
  <2>1. Said(e) = {Piece(i) : i \in 0..r.size - 1}
    BY <1>2 DEF Said, Chunks
  <2>2. \A i : Piece(i).index = i /\ Piece(i).text = r.text
    OBVIOUS
  <2>. HIDE DEF Piece
  <2>3. Pieces(Said(e)) = {<<i, r.text>> : i \in 0..r.size - 1}
    BY <2>1, <2>2 DEF Pieces
  <2>. QED  BY <2>3
<1>. QED  BY <1>1, <1>2

(* A call belongs to one document. *)
LEMMA OneDocument ==
  ASSUME NEW d, NEW c, NEW e \in CallsOn(d), e \in CallsOn(c)
  PROVE  c = d
BY DEF CallsOn

(* What was said stays said, and a step without a Begin says nothing new. *)
LEMMA SayingStays ==
  ASSUME IndexTypeOK, [Next]_vars, NEW d, begun' = begun
  PROVE  SaidBy(d)' = SaidBy(d)
<1>1. Begun(d)' = Begun(d)
  <2>1. \A e \in begun : e \in CallsOn(d)' <=> e \in CallsOn(d)
    BY HistoryGrows, SayingsStay
  <2>. QED  BY <2>1 DEF Begun
<1>2. \A e \in Begun(d) : Pieces(Said(e))' = Pieces(Said(e))
  BY SayingsStay DEF Begun, Pieces
<1>. QED  BY <1>1, <1>2 DEF SaidBy

(* A step that begins no call and writes no row shows nothing new. *)
LEMMA StoreFrame ==
  ASSUME IndexTypeOK, [Next]_vars, begun' = begun, rows' = rows
  PROVE  SaidOf' = SaidOf /\ ShownOf' = ShownOf
<1>1. \A d \in Documents : SaidBy(d)' = SaidBy(d)
  BY SayingStays
<1>2. SaidOf' = SaidOf
  BY <1>1 DEF SaidOf, SaidBy, Begun, Documents
<1>3. ShownOf' = ShownOf
  BY DEF ShownOf, Pieces, RowsOf, Documents
<1>. QED  BY <1>2, <1>3

(* The newest call begun on a document is the newest said of it. *)
LEMMA StoreNewest ==
  ASSUME IndexTypeOK, NEW d \in Documents, NEW e \in CallsOn(d), e \in begun, Newest(d, e)
  PROVE  /\ Store!Newest(d, e) /\ e \in Entries
         /\ SaidOf[d][e] = Pieces(Said(e))
<1>1. SaidOf[d] = SaidBy(d)
  BY DEF SaidOf, SaidBy, Begun
<1>2. DOMAIN SaidBy(d) = Begun(d) /\ e \in Begun(d) /\ SaidBy(d)[e] = Pieces(Said(e))
  BY DEF SaidBy, Begun
<1>3. \A f \in Begun(d) : f <= e
  BY DEF Newest, Begun
<1>4. e \in Entries
  BY CallIsRequest DEF IndexTypeOK, CallsOn
<1>. QED  BY <1>1, <1>2, <1>3, <1>4 DEF Store!Newest, SaidOf

(* Beginning a call is said of its document, if it is on one and is new.    *)
LEMMA BeginSays ==
  ASSUME IndexTypeOK, NEW w \in Workers, NEW e \in Published, Begin(w, e)
  PROVE  /\ ShownOf' = ShownOf
         /\ SaidOf' = SaidOf \/ \E d \in Documents : Store!Begin(d, e)
<1>1. stream' = stream /\ rows' = rows /\ begun' = begun \cup {e}
  BY DEF Begin
<1>2. ShownOf' = ShownOf
  BY <1>1 DEF ShownOf, Pieces, RowsOf, Documents
<1>3. \A c : CallsOn(c)' = CallsOn(c)
  BY <1>1 DEF CallsOn, Published, Writes, Type
<1>4. \A f : Pieces(Said(f))' = Pieces(Said(f))
  BY <1>1 DEF Pieces, Said, Chunks, Type
<1>5. ASSUME NEW c, Begun(c)' = Begun(c) PROVE SaidBy(c)' = SaidBy(c)
  BY <1>4, <1>5 DEF SaidBy
<1>6. \A c : e \notin CallsOn(c) \/ e \in begun => Begun(c)' = Begun(c)
  BY <1>1, <1>3 DEF Begun
<1>7. CASE e \in begun \/ \A c \in Documents : e \notin CallsOn(c)
  <2>1. \A c \in Documents : SaidBy(c)' = SaidBy(c)
    BY <1>5, <1>6, <1>7
  <2>. QED  BY <1>2, <2>1 DEF SaidOf, SaidBy, Begun, Documents
<1>8. ASSUME NEW d \in Documents, e \in CallsOn(d), e \notin begun
      PROVE  Store!Begin(d, e)
  <2>. DEFINE text == Pieces(Said(e))
  <2>1. \A c \in Documents \ {d} : SaidBy(c)' = SaidBy(c)
    BY <1>5, <1>6, <1>8, OneDocument
  <2>2. Begun(d)' = Begun(d) \cup {e} /\ e \notin Begun(d)
    BY <1>1, <1>3, <1>8 DEF Begun
  <2>3. SaidBy(d)' = [f \in Begun(d) \cup {e} |-> IF f = e THEN text ELSE SaidBy(d)[f]]
    <3>1. SaidBy(d)' = [f \in Begun(d) \cup {e} |-> Pieces(Said(f))]
      BY <1>4, <2>2 DEF SaidBy
    <3>2. \A f \in Begun(d) : SaidBy(d)[f] = Pieces(Said(f))
      BY DEF SaidBy
    <3>. QED  BY <2>2, <3>1, <3>2
  <2>4. text \in {{<<i, r.text>> : i \in 0..r.size - 1} : r \in Requests} \cup {{}}
    BY TextSaid, CallIsRequest DEF IndexTypeOK
  <2>5. SaidOf = [c \in Documents |-> SaidBy(c)] /\ SaidOf' = [c \in Documents |-> SaidBy(c)']
    BY DEF SaidOf, SaidBy, Begun, Documents
  <2>6. DOMAIN SaidBy(d) = Begun(d)
    BY DEF SaidBy
  <2>. HIDE DEF text
  <2>7. SaidOf[d] = SaidBy(d)
    BY <2>5
  <2>8. SaidOf' = [SaidOf EXCEPT ![d] =
          [f \in DOMAIN SaidOf[d] \cup {e} |-> IF f = e THEN text ELSE SaidOf[d][f]]]
    BY <2>1, <2>3, <2>5, <2>6, <2>7
  <2>9. e \notin DOMAIN SaidOf[d]
    BY <2>2, <2>6, <2>7
  <2>. QED  BY <1>2, <2>4, <2>8, <2>9 DEF Store!Begin, SaidOf, ShownOf
<1>. QED  BY <1>2, <1>7, <1>8

(* A worker's call to the store is seen at one document, and is the newest  *)
(* call's removal or revision unless the document's calls have crossed.     *)
LEMMA WriteShows ==
  ASSUME OrderInv, SourcesApart, [Next]_vars, NEW w \in Workers, Working(w)
  PROVE  /\ SaidOf' = SaidOf
         /\ \/ ShownOf' = ShownOf
            \/ \E d \in Documents :
                 Store!Slip(d) \/ \E e \in Entries : Store!Clear(d, e) \/ Store!Show(d, e)
<1>0. IndexTypeOK /\ CallsFit /\ RowsSaid /\ Wrote /\ InOrder
  BY DEF OrderInv, IndexInv
<1>1. SaidOf' = SaidOf
  <2>1. begun' = begun
    BY WorkingMoves, <1>0
  <2>2. \A d \in Documents : SaidBy(d)' = SaidBy(d)
    BY <1>0, <2>1, SayingStays
  <2>. QED  BY <2>2 DEF SaidOf, SaidBy, Begun, Documents
<1>2. \A c \in Documents : job[w] \notin CallsOn(c) => RowsOf(c)' = RowsOf(c)
  BY <1>0, DocumentStep
<1>3. /\ ShownOf = [c \in Documents |-> Pieces(RowsOf(c))]
      /\ ShownOf' = [c \in Documents |-> Pieces(RowsOf(c)')]
  BY DEF ShownOf, Pieces, Documents
<1>4. CASE \A c \in Documents : job[w] \notin CallsOn(c)
  BY <1>1, <1>2, <1>3, <1>4
<1>5. ASSUME NEW d \in Documents, job[w] \in CallsOn(d)
      PROVE  \/ ShownOf' = ShownOf
             \/ Store!Slip(d)
             \/ \E e \in Entries : Store!Clear(d, e) \/ Store!Show(d, e)
  <2>1. \A c \in Documents \ {d} : RowsOf(c)' = RowsOf(c)
    BY <1>2, <1>5, OneDocument
  <2>2. ShownOf' = [ShownOf EXCEPT ![d] = Pieces(RowsOf(d)')]
    BY <1>3, <2>1
  <2>3. ShownOf'[d] = Pieces(RowsOf(d)') /\ ShownOf[d] = Pieces(RowsOf(d))
    BY <1>3
  <2>4. CASE Crossed(d)'
    <3>1. d \in {c \in Documents : Crossed(c)'}
      BY <2>4
    <3>2. ShownOf' = [ShownOf EXCEPT ![d] = ShownOf'[d]]
      BY <2>2, <2>3
    <3>. QED  BY <1>1, <3>1, <3>2 DEF Store!Slip, SaidOf, ShownOf, Documents
  <2>5. CASE ~Crossed(d)'
    <3>1. CASE RowsOf(d)' = RowsOf(d)
      BY <1>3, <2>1, <3>1
    <3>2. ASSUME NEW v \in Workers, job[v] \in CallsOn(d), Newest(d, job[v]),
                 \/ pc[v] = "delete" /\ RowsOf(d)' = {}
                 \/ pc[v] = "upsert" /\ RowsOf(d) = {} /\ RowsOf(d)' = Chunks(job[v])
          PROVE  \E e \in Entries : Store!Clear(d, e) \/ Store!Show(d, e)
      <4>1. job[v] \in begun
        BY <1>0, <3>2 DEF IndexTypeOK, HandlersOK, HistoryOK
      <4>2. Store!Newest(d, job[v]) /\ job[v] \in Entries
            /\ SaidOf[d][job[v]] = Pieces(Said(job[v]))
        BY <1>0, <3>2, <4>1, StoreNewest
      <4>3. Pieces({}) = {}
        BY DEF Pieces
      <4>4. CASE RowsOf(d)' = {}
        <5>1. ShownOf' = [ShownOf EXCEPT ![d] = {}]
          BY <2>2, <4>3, <4>4
        <5>. QED  BY <1>1, <4>2, <5>1 DEF Store!Clear, SaidOf, ShownOf
      <4>5. CASE pc[v] = "upsert" /\ RowsOf(d) = {} /\ RowsOf(d)' = Chunks(job[v])
        <5>1. Type(job[v]) = "document.ingest"
          BY <1>0, <3>2, <4>5, CallOnDocument DEF Wrote, Pieced, IndexTypeOK
        <5>2. ShownOf' = [ShownOf EXCEPT ![d] = SaidOf[d][job[v]]]
          BY <2>2, <4>2, <4>5, <5>1 DEF Said
        <5>3. ShownOf[d] = {}
          BY <2>3, <4>3, <4>5
        <5>. QED  BY <1>1, <4>2, <5>2, <5>3 DEF Store!Show, SaidOf, ShownOf
      <4>. QED  BY <3>2, <4>4, <4>5
    <3>. QED  BY <1>0, <2>5, <3>1, <3>2, OrderedStep
  <2>. QED  BY <2>4, <2>5
<1>. QED  BY <1>1, <1>4, <1>5

(* Every step of the workers is one of DocumentStore's, or nothing it sees.  *)
LEMMA StoreStep ==
  ASSUME OrderInv, SourcesApart, [Next]_vars
  PROVE  Store!Next
<1>0. IndexTypeOK
  BY DEF OrderInv, IndexInv
<1>1. {d \in Documents : Crossed(d)} \subseteq {d \in Documents : Crossed(d)}'
  BY <1>0, HistoryGrows DEF Documents
<1>2. {d \in Documents : Crossed(d)}' \subseteq Documents
  BY DEF Documents
<1>3. ASSUME NEW w \in Workers, NEW e \in Published, Begin(w, e)
      PROVE  Store!Next
  <2>1. e \in Entries
    BY <1>0, CallIsRequest DEF IndexTypeOK
  <2>. QED  BY <1>0, <1>1, <1>2, <1>3, <2>1, BeginSays DEF Store!Next, SaidOf, ShownOf
<1>4. ASSUME NEW w \in Workers, Working(w)
      PROVE  Store!Next
  BY <1>1, <1>2, <1>4, WriteShows DEF Store!Next, SaidOf, ShownOf
<1>5. CASE ~(\E w \in Workers : Working(w)) /\ ~(\E w \in Workers, e \in Published : Begin(w, e))
  <2>1. rows' = rows
    BY <1>5, OnlyWorking
  <2>2. begun' = begun
    BY <1>5 DEF Next, Working, Publish, Again, Skip, vars, histVars
  <2>3. SaidOf' = SaidOf /\ ShownOf' = ShownOf
    BY <1>0, <2>1, <2>2, StoreFrame
  <2>. QED  BY <1>1, <1>2, <2>3 DEF Store!Next, SaidOf, ShownOf
<1>. QED  BY <1>3, <1>4, <1>5

(* The index implements DocumentStore for any workers, calls and failures:   *)
(* while no two calls on a document cross, its readers see it go from one     *)
(* revision to nothing and on to what its newest call says, never back (where *)
(* no message has the id of a document; ingest_document 43-48 and 78-79).    *)
THEOREM IndexImplementsStore ==
  ASSUME SourcesApart
  PROVE  Spec => ReadersNeverGoBack
<1>1. Init => Store!Init
  <2>. SUFFICES ASSUME Init PROVE Store!Init
    OBVIOUS
  <2>1. \A d : CallsOn(d) = {} /\ RowsOf(d) = {} /\ crossed = {}
    BY DEF Init, CallsOn, RowsOf, Published
  <2>2. \A d \in Documents : Pieces(RowsOf(d)) = {} /\ ~Crossed(d)
    BY <2>1 DEF Pieces, Crossed
  <2>3. \A d \in Documents : [e \in CallsOn(d) \cap begun |-> Pieces(Said(e))] = [e \in {} |-> {}]
    BY <2>1
  <2>. QED  BY <2>2, <2>3 DEF Store!Init
<1>2. OrderInv /\ [Next]_vars => [Store!Next]_(Store!storeState)
  BY StoreStep
<1>. QED  BY <1>1, <1>2, OrderHolds, PTL DEF Spec, ReadersNeverGoBack, Store!Spec
=============================================================================
