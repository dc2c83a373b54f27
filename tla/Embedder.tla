------------------------------- MODULE Embedder -------------------------------
(***************************************************************************)
(* OpenAIEmbedder.embed_documents with its LRUEmbeddingCache, called again   *)
(* and again by one worker.  The vector of a text is the text itself: what   *)
(* matters is that each vector reaches the text it was computed from.       *)
(***************************************************************************)
EXTENDS Integers, SequencesExt

CONSTANTS
  Texts,        \* texts to embed
  NoVector,     \* the [] a place of the result starts as
  TokensOf,     \* tokens of each text
  InputLimit,   \* settings.max_tokens_per_input
  BatchItems,   \* settings.batch_size
  BatchTokens,  \* settings.max_tokens_per_batch
  CacheSize,    \* settings.cache_max_entries, 0 for a cache that is off
  MaxList,      \* bound: texts in one call
  MaxLists      \* bound: calls

ASSUME EmbedderAssumption ==
  /\ NoVector \notin Texts
  /\ TokensOf \in [Texts -> Nat]
  /\ InputLimit \in Nat /\ BatchItems \in Nat \ {0} /\ BatchTokens \in Nat
  /\ CacheSize \in Nat /\ MaxList \in Nat /\ MaxLists \in Nat

VARIABLES
  embedAt,  \* where embed_documents is
  texts,    \* the prepared texts
  vectors,  \* `out`
  missed,   \* `pending`: the indexes the cache did not have
  at,       \* the next text to look up, or the next of `missed` to batch
  batch,    \* indexes into `missed` of the batch being filled, or not yet stored
  fetched,  \* the vectors _call returned for them
  load,     \* batch_tokens
  cache,    \* cached texts, the least recently used first
  lists     \* calls so far

embedVars == <<embedAt, texts, vectors, missed, at, batch, fetched, load, cache, lists>>

(* _truncate clamps a text to the input limit. *)
Tokens(t) == IF TokensOf[t] <= InputLimit THEN TokensOf[t] ELSE InputLimit

EmbedTypeOK ==
  /\ embedAt \in {"idle", "lookup", "fill", "call", "store", "failed", "done"}
  /\ texts \in Seq(Texts)
  /\ vectors \in [1..Len(texts) -> Texts \cup {NoVector}]
  /\ missed \in Seq(1..Len(texts))
  /\ batch \in Seq(1..Len(missed))
  /\ fetched \in Seq(Texts)
  /\ at \in Nat /\ load \in Nat
  /\ cache \in Seq(Texts)
  /\ Len(cache) <= CacheSize
  /\ \A i, j \in 1..Len(cache) : cache[i] = cache[j] => i = j
  /\ lists \in 0..MaxLists

EmbedInit ==
  /\ embedAt = "idle"
  /\ texts = <<>>
  /\ vectors = <<>>
  /\ missed = <<>>
  /\ at = 1
  /\ batch = <<>>
  /\ fetched = <<>>
  /\ load = 0
  /\ cache = <<>>
  /\ lists = 0

(* embed_documents or embed_query is called. *)
EmbedDocuments(list) ==
  /\ embedAt \in {"idle", "done", "failed"}
  /\ lists < MaxLists
  /\ lists' = lists + 1
  /\ texts' = list
  /\ vectors' = [i \in 1..Len(list) |-> NoVector]
  /\ missed' = <<>>
  /\ at' = 1
  /\ embedAt' = "lookup"
  /\ UNCHANGED <<batch, fetched, load, cache>>

-----------------------------------------------------------------------------
(* LRUEmbeddingCache *)

Without(c, t) ==
  IF t \in Range(c) THEN RemoveAt(c, CHOOSE i \in 1..Len(c) : c[i] = t) ELSE c

(* Variant of Put: an entry is never evicted. *)
PutForGood(c, t) == IF CacheSize = 0 THEN c ELSE Append(Without(c, t), t)

(* put: the key is now the most recent, and the oldest ones make room. *)
Put(c, t) ==
  LET all == Append(Without(c, t), t)
  IN  IF CacheSize = 0 THEN c
      ELSE IF Len(all) > CacheSize THEN Tail(all) ELSE all

(* One turn of the lookup loop: a hit is moved to the end. *)
Lookup ==
  /\ embedAt = "lookup"
  /\ at <= Len(texts)
  /\ LET t == texts[at] IN
     IF t \in Range(cache)
     THEN /\ vectors' = [vectors EXCEPT ![at] = t]
          /\ cache' = Append(Without(cache, t), t)
          /\ UNCHANGED missed
     ELSE /\ missed' = Append(missed, at)
          /\ UNCHANGED <<vectors, cache>>
  /\ at' = at + 1
  /\ UNCHANGED <<embedAt, texts, batch, fetched, load, lists>>

LookupDone ==
  /\ embedAt = "lookup"
  /\ at > Len(texts)
  /\ at' = 1
  /\ embedAt' = "fill"
  /\ UNCHANGED <<texts, vectors, missed, batch, fetched, load, cache, lists>>

-----------------------------------------------------------------------------
(* _batches: the next text would make the batch too long or too heavy. *)
BatchFull(j) ==
  \/ Len(batch) >= BatchItems
  \/ batch # <<>> /\ load + Tokens(texts[missed[j]]) > BatchTokens

(* One turn of the generator, and the check for missing vectors after it. *)
Fill ==
  /\ embedAt = "fill"
  /\ \/ /\ at <= Len(missed) /\ ~BatchFull(at)
        /\ batch' = Append(batch, at)
        /\ load' = load + Tokens(texts[missed[at]])
        /\ at' = at + 1
        /\ UNCHANGED embedAt
     \/ /\ IF at <= Len(missed) THEN BatchFull(at) ELSE batch # <<>>
        /\ embedAt' = "call"
        /\ UNCHANGED <<batch, load, at>>
     \/ /\ at > Len(missed) /\ batch = <<>>
        /\ embedAt' = IF \E i \in 1..Len(texts) : vectors[i] = NoVector THEN "failed" ELSE "done"
        /\ UNCHANGED <<batch, load, at>>
  /\ UNCHANGED <<texts, vectors, missed, fetched, cache, lists>>

(* `batch` indexes into the pending sub-list, not `prepared`. *)
Absolute(j) == missed[batch[j]]

(* Variant of Ordered: the data as the provider returned it. *)
AsReturned(data) == [k \in 1..Len(data) |-> data[k].vector]

(* sorted(response.data, key=index) *)
Ordered(data) ==
  [k \in 1..Len(data) |->
     data[CHOOSE i \in 1..Len(data) : data[i].index = k].vector]

(* The provider's answer: a vector for each text sent, in any order. *)
Answers(sent) ==
  {[k \in 1..Len(sent) |-> [index |-> p[k], vector |-> sent[p[k]]]] :
     p \in {q \in [1..Len(sent) -> 1..Len(sent)] :
              \A i, j \in 1..Len(sent) : q[i] = q[j] => i = j}}

(* _call: the vectors come back; or, when the attempts are used up or the      *)
(* answer has a wrong count or dimension, the whole call fails, and the       *)
(* batches before it stay in the cache.                                      *)
CallProvider ==
  LET sent == [j \in 1..Len(batch) |-> texts[Absolute(j)]]
  IN
  /\ embedAt = "call"
  /\ \/ /\ \E data \in Answers(sent) : fetched' = Ordered(data)
        /\ embedAt' = "store"
        /\ UNCHANGED <<batch, load>>
     \/ /\ embedAt' = "failed"
        /\ batch' = <<>>
        /\ load' = 0
        /\ UNCHANGED fetched
  /\ UNCHANGED <<texts, vectors, missed, at, cache, lists>>

(* One turn of the zip: a vector goes to its text and into the cache.  After  *)
(* the last one _batches goes on with an empty batch.                        *)
Store ==
  /\ embedAt = "store"
  /\ vectors' = [vectors EXCEPT ![Absolute(1)] = Head(fetched)]
  /\ cache' = Put(cache, texts[Absolute(1)])
  /\ batch' = Tail(batch)
  /\ fetched' = Tail(fetched)
  /\ IF Len(batch) > 1
     THEN UNCHANGED <<embedAt, load>>
     ELSE embedAt' = "fill" /\ load' = 0
  /\ UNCHANGED <<texts, missed, at, lists>>

EmbedStep == Lookup \/ LookupDone \/ Fill \/ CallProvider \/ Store

EmbedNext ==
  \/ \E n \in 1..MaxList : \E list \in [1..n -> Texts] : EmbedDocuments(list)
  \/ EmbedStep

EmbedSpec == EmbedInit /\ [][EmbedNext]_embedVars

-----------------------------------------------------------------------------
(* Properties. *)

(* A call that succeeds returns for every text the vector of that text,      *)
(* whatever was cached, evicted, batched or returned out of order            *)
(* (embed_documents 131-143).                                                *)
VectorsMatch == embedAt = "done" => vectors = texts

(* The running sums of the tokens of a batch, if they stay within n. *)
RunningSums(b, n) ==
  {sum \in [0..Len(b) -> 0..n] :
     /\ sum[0] = 0
     /\ \A j \in 1..Len(b) : sum[j] = sum[j - 1] + Tokens(texts[missed[b[j]]])}

(* No request exceeds the item limit, nor the token budget, except that a     *)
(* single text is sent whatever it weighs (_batches 99-113).                 *)
BatchWithinLimits ==
  embedAt = "call" =>
    /\ Len(batch) \in 1..BatchItems
    /\ Len(batch) > 1 => RunningSums(batch, BatchTokens) # {}

=============================================================================
