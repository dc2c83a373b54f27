------------------------------ MODULE Retrieval ------------------------------
(***************************************************************************)
(* RetrievalPipeline.retrieve for one question: how many candidates each      *)
(* stage asks for, the reranker and its fallback, mmr_select and its         *)
(* fallback, and the recent turns put in front.  The index is fixed; which    *)
(* rows it returns, and in what order, is the store's choice.  Scopes,        *)
(* tenants and filters are the business of DocumentIndex.                   *)
(***************************************************************************)
EXTENDS Integers, Sequences, FiniteSets, Functions

CONSTANTS
  Chunks,         \* chunks the filter lets through, turns of the conversation among them
  Turns,          \* chat chunks of the conversation
  When,           \* (created_at, chunk_index) of each turn, as one number
  Relevance,      \* similarity of each chunk to the question, in tenths
  Alike,          \* similarity of each two chunks, in tenths
  Words,          \* the words of each chunk, as far as Latin letters and digits make them
  TopKs,          \* values of top_k a question may ask for
  Multiplier,     \* settings.fetch_multiplier
  MaxFetch,       \* settings.max_fetch
  Lambda,         \* settings.mmr_lambda, in tenths
  RecentLimit,    \* settings.recent_history_turns
  WindowFactor,   \* the 8 of recent_turns
  WindowFloor     \* the 64 of recent_turns

ASSUME RetrievalAssumption ==
  /\ IsFiniteSet(Chunks) /\ Turns \subseteq Chunks
  /\ When \in [Turns -> Nat]
  /\ Relevance \in [Chunks -> 0..10]
  /\ Alike \in [Chunks -> [Chunks -> 0..10]]
  /\ DOMAIN Words = Chunks
  /\ TopKs \subseteq Nat \ {0}
  /\ {Multiplier, MaxFetch, RecentLimit, WindowFactor, WindowFloor} \subseteq Nat \ {0}
  /\ Lambda \in 0..10

VARIABLES
  retAt,       \* where retrieve is
  topK,        \* top_k
  candidates,  \* candidates of the stage
  hits,        \* history: how many rows the search returned
  history,     \* is there a conversation, and does the caller want its turns
  selected,    \* what mmr_select, or its fallback, has chosen so far
  looked,      \* how many chunks the loop at hand has looked at
  ranked,      \* the ranked chunks, before the recent turns
  recent,      \* what recent_turns returned
  answer       \* the chunks of the result

retVars == <<retAt, topK, candidates, hits, history, selected, looked, ranked, recent, answer>>

RetTypeOK ==
  /\ retAt \in {"start", "search", "rerank", "select", "mmr", "dedupe",
               "merge", "append", "done"}
  /\ topK \in {0} \cup TopKs
  /\ history \in BOOLEAN
  /\ looked \in Nat
  /\ hits \in Nat
  /\ \A s \in {candidates, selected, ranked, recent, answer} : s \in Seq(Chunks)

RetInit ==
  /\ retAt = "start"
  /\ topK = 0
  /\ history = FALSE
  /\ candidates = <<>>
  /\ hits = 0
  /\ selected = <<>>
  /\ looked = 0
  /\ ranked = <<>>
  /\ recent = <<>>
  /\ answer = <<>>

Smaller(a, b) == IF a <= b THEN a ELSE b
Larger(a, b)  == IF a >= b THEN a ELSE b

Prefix(s, n) == SubSeq(s, 1, Smaller(n, Len(s)))

(* The sequences of n members of S, each at most once. *)
Rankings(S, n) == Injection(1..n, S)

(* A blank question has the empty answer. *)
Retrieve(k, conversation, blank) ==
  /\ retAt = "start"
  /\ topK' = k
  /\ history' = conversation
  /\ retAt' = IF blank THEN "done" ELSE "search"
  /\ UNCHANGED <<candidates, hits, selected, looked, ranked, recent, answer>>

FetchK == Smaller(topK * Multiplier, MaxFetch)

(* hybrid_search: the two legs fused, at most fetch_k rows in any order; the   *)
(* index is approximate, and may miss some.                                  *)
HybridSearch ==
  /\ retAt = "search"
  /\ hits' \in 0..Smaller(FetchK, Cardinality(Chunks))
  /\ candidates' \in Rankings(Chunks, hits')
  /\ retAt' = IF candidates' = <<>> THEN "select" ELSE "rerank"
  /\ UNCHANGED <<topK, history, selected, looked, ranked, recent, answer>>

(* Variant of RerankN: the answer's own size. *)
RerankHalf == Smaller(Len(candidates), Larger(topK \div 2, 1))

RerankN == Smaller(Len(candidates), Larger(topK * 2, topK + 4))

(* The reranker orders them anew, or passes the first ones through. *)
Rerank ==
  /\ retAt = "rerank"
  /\ \/ candidates' = Prefix(candidates, RerankN)
     \/ candidates' \in Rankings(Range(candidates), RerankN)
  /\ retAt' = "select"
  /\ UNCHANGED <<topK, hits, history, selected, looked, ranked, recent, answer>>

-----------------------------------------------------------------------------
(* The choice of top_k. *)

RankedAs(s) ==
  /\ ranked' = s
  /\ retAt' = "merge"

(* dedupe_near_duplicates, threshold 0.85. *)
NearDuplicate(c, d) ==
  LET both   == Cardinality(Words[c] \cap Words[d])
      either == Cardinality(Words[c] \cup Words[d])
  IN  Words[c] # {} /\ Words[d] # {} /\ 100 * both >= 85 * either

(* One turn of its loop; if every chunk is blank the first ones are kept.   *)
Dedupe ==
  /\ retAt = "dedupe"
  /\ IF Len(selected) < topK /\ looked < Len(candidates)
     THEN LET c == candidates[looked + 1] IN
          /\ selected' = IF Words[c] = {} \/ \E d \in Range(selected) : NearDuplicate(c, d)
                         THEN selected ELSE Append(selected, c)
          /\ looked' = looked + 1
          /\ UNCHANGED <<retAt, ranked>>
     ELSE /\ RankedAs(IF selected = <<>> THEN Prefix(candidates, topK) ELSE selected)
          /\ UNCHANGED <<selected, looked>>
  /\ UNCHANGED <<topK, hits, history, candidates, recent, answer>>

(* Few enough, or MMR is off; or a vector is missing; or MMR. *)
Select ==
  /\ retAt = "select"
  /\ \/ /\ RankedAs(Prefix(candidates, topK))
        /\ UNCHANGED selected
     \/ /\ Len(candidates) > topK
        /\ retAt' = "dedupe"
        /\ UNCHANGED <<selected, ranked>>
     \/ /\ Len(candidates) > topK
        /\ retAt' = "mmr"
        /\ \E c \in Range(candidates) :
             /\ \A d \in Range(candidates) : Relevance[c] >= Relevance[d]
             /\ selected' = <<c>>
        /\ UNCHANGED ranked
  /\ UNCHANGED <<topK, hits, history, candidates, looked, recent, answer>>

Redundancy(c) ==
  LET a == {Alike[c][d] : d \in Range(selected)}
  IN  CHOOSE n \in a : \A m \in a : m <= n

Score(c) == Lambda * Relevance[c] - (10 - Lambda) * Redundancy(c)

Remaining == Range(candidates) \ Range(selected)

(* One turn of the greedy loop. *)
Mmr ==
  /\ retAt = "mmr"
  /\ IF Len(selected) < topK /\ Remaining # {}
     THEN /\ \E c \in Remaining :
               /\ \A d \in Remaining : Score(c) >= Score(d)
               /\ selected' = Append(selected, c)
          /\ UNCHANGED <<retAt, ranked>>
     ELSE RankedAs(selected) /\ UNCHANGED selected
  /\ UNCHANGED <<topK, hits, history, candidates, looked, recent, answer>>

-----------------------------------------------------------------------------
(* The recent turns. *)

Window == Larger(RecentLimit * WindowFactor, WindowFloor)

InOrder(s) == \A i, j \in 1..Len(s) : i < j => When[s[i]] <= When[s[j]]

(* Variant of LastOf: the oldest turns of the window. *)
FirstOf(s) == Prefix(s, RecentLimit)

LastOf(s) == SubSeq(s, Larger(1, Len(s) - RecentLimit + 1), Len(s))

(* recent_turns: any window of the turns, since query has no order, sorted;   *)
(* or nothing, when the query fails.                                         *)
RecentTurns ==
  {LastOf(s) : s \in {r \in Rankings(Turns, Smaller(Window, Cardinality(Turns))) : InOrder(r)}}

(* The turns, if any, are put first. *)
MergeRecent ==
  /\ retAt = "merge"
  /\ \/ /\ ~history
        /\ answer' = ranked
        /\ retAt' = "done"
        /\ UNCHANGED <<recent, looked>>
     \/ /\ history
        /\ recent' \in {<<>>} \cup RecentTurns
        /\ answer' = recent'
        /\ looked' = 0
        /\ retAt' = "append"
  /\ UNCHANGED <<topK, hits, history, candidates, selected, ranked>>

(* Variant of Merged: the ranked chunks as they are. *)
MergedAll(c) == Append(answer, c)

(* A ranked chunk follows them unless it is one of them. *)
Merged(c) == IF c \in Range(recent) THEN answer ELSE Append(answer, c)

(* One turn of the comprehension of _merge_recent. *)
AppendRanked ==
  /\ retAt = "append"
  /\ IF looked < Len(ranked)
     THEN /\ answer' = Merged(ranked[looked + 1])
          /\ looked' = looked + 1
          /\ UNCHANGED retAt
     ELSE retAt' = "done" /\ UNCHANGED <<answer, looked>>
  /\ UNCHANGED <<topK, hits, history, candidates, selected, ranked, recent>>

RetNext ==
  \/ \E k \in TopKs, conversation, blank \in BOOLEAN : Retrieve(k, conversation, blank)
  \/ HybridSearch \/ Rerank \/ Select \/ Mmr \/ Dedupe \/ MergeRecent \/ AppendRanked

RetSpec == RetInit /\ [][RetNext]_retVars

-----------------------------------------------------------------------------
(* Properties. *)

(* No chunk is in an answer twice, although a recent turn may also be ranked   *)
(* (_merge_recent 132-133; the greedy loop 60-66).                           *)
AnswerDistinct ==
  \A i, j \in 1..Len(answer) : answer[i] = answer[j] => i = j

(* Turns newer than the first of s that are not in it. *)
NewerLeftOut(s) == {t \in Turns \ Range(s) : When[t] > When[s[1]]}

(* The turns in front of the answer are as many as asked for, the oldest of   *)
(* them first, and the newest of the conversation, but for as many as the     *)
(* conversation has beyond the window, which is filled in no order (145-175). *)
RecentExact ==
  recent # <<>> =>
    /\ Len(recent) = Smaller(RecentLimit, Cardinality(Turns))
    /\ InOrder(recent)
    /\ Cardinality(NewerLeftOut(recent)) <= Larger(0, Cardinality(Turns) - Window)

(* The stages do not starve each other: of the hits top_k are ranked, or all,  *)
(* which is what the index has and max_fetch allows, unless the search missed *)
(* some; only the fallback passes chunks over, as near-duplicates or because  *)
(* they hold no word of Latin letters or digits (retrieve 65, 84; mmr_select  *)
(* 36-68, dedupe_near_duplicates 84-95).                                      *)
AnswerFull ==
  retAt = "merge" =>
    \/ /\ Len(ranked) = Smaller(topK, hits)
       /\ hits = Smaller(FetchK, Cardinality(Chunks)) =>
            Len(ranked) = Smaller(Smaller(topK, MaxFetch), Cardinality(Chunks))
    \/ \E c \in Range(candidates) \ Range(ranked) :
         Words[c] = {} \/ \E d \in Range(ranked) : NearDuplicate(c, d)

=============================================================================
