------------------------------ MODULE QueryProofs ------------------------------
(***************************************************************************)
(* Proofs about Retrieval and Embedder, for any settings, any index, and any *)
(* answers of the store, the reranker and the provider.                     *)
(***************************************************************************)
EXTENDS Embedder, Retrieval, SequenceTheorems, FiniteSetTheorems, TLAPS

-----------------------------------------------------------------------------
(* Sequences without repetition. *)

Distinct(s) == \A i, j \in 1..Len(s) : s[i] = s[j] => i = j

(* What appending does to a sequence. *)
LEMMA Appending ==
  ASSUME NEW S, NEW s \in Seq(S), NEW e \in S
  PROVE  /\ Len(s) \in Nat
         /\ Append(s, e) \in Seq(S) /\ Len(Append(s, e)) = Len(s) + 1
         /\ \A i \in 1..Len(s) : Append(s, e)[i] = s[i]
         /\ Append(s, e)[Len(s) + 1] = e
OBVIOUS

(* The members of a sequence are its values. *)
LEMMA MembersOfSeq ==
  ASSUME NEW S, NEW s \in Seq(S)
  PROVE  /\ \A c : c \in Range(s) <=> \E i \in 1..Len(s) : s[i] = c
         /\ Range(s) \subseteq S
<1>1. DOMAIN s = 1..Len(s) /\ \A i \in 1..Len(s) : s[i] \in S
  BY LenProperties, ElementOfSeq
<1>. QED  BY <1>1 DEF Range

(* A new member keeps a sequence distinct. *)
LEMMA AppendDistinct ==
  ASSUME NEW S, NEW s \in Seq(S), Distinct(s), NEW e \in S, e \notin Range(s)
  PROVE  Distinct(Append(s, e))
<1>1. \A i \in 1..Len(s) : s[i] # e
  BY MembersOfSeq
<1>. QED  BY <1>1, Appending DEF Distinct

(* And is the one member more. *)
LEMMA AppendRange ==
  ASSUME NEW S, NEW s \in Seq(S), NEW e \in S
  PROVE  Range(Append(s, e)) = Range(s) \cup {e}
<1>. DEFINE t == Append(s, e)
<1>1. /\ t \in Seq(S) /\ Len(t) = Len(s) + 1 /\ Len(s) \in Nat
      /\ \A i \in 1..Len(s) : t[i] = s[i]
      /\ t[Len(s) + 1] = e
  BY Appending
<1>. HIDE DEF t
<1>2. \A c : c \in Range(t) <=> \E i \in 1..Len(s) + 1 : t[i] = c
  BY <1>1, MembersOfSeq
<1>3. \A c : (\E i \in 1..Len(s) + 1 : t[i] = c) <=> c \in Range(s) \/ c = e
  <2>1. ASSUME NEW c, NEW i \in 1..Len(s) + 1, t[i] = c PROVE c \in Range(s) \/ c = e
    <3>1. CASE i \in 1..Len(s)
      BY <1>1, <2>1, <3>1, MembersOfSeq
    <3>2. CASE i = Len(s) + 1
      BY <1>1, <2>1, <3>2
    <3>. QED  BY <1>1, <3>1, <3>2
  <2>2. ASSUME NEW c \in Range(s) PROVE \E i \in 1..Len(s) + 1 : t[i] = c
    BY <1>1, MembersOfSeq
  <2>3. Len(s) + 1 \in 1..Len(s) + 1
    BY <1>1
  <2>. QED  BY <1>1, <2>1, <2>2, <2>3
<1>4. t = Append(s, e)
  BY DEF t
<1>. QED  BY <1>2, <1>3, <1>4

(* A prefix is the first members, in their order. *)
LEMMA PrefixOf ==
  ASSUME NEW S, NEW s \in Seq(S), NEW n \in Nat
  PROVE  /\ Prefix(s, n) \in Seq(S) /\ Len(Prefix(s, n)) = Smaller(n, Len(s))
         /\ \A i \in 1..Len(Prefix(s, n)) : Prefix(s, n)[i] = s[i]
         /\ Distinct(s) => Distinct(Prefix(s, n))
<1>. DEFINE m == Smaller(n, Len(s))
<1>1. Len(s) \in Nat /\ m \in Nat /\ m <= Len(s)
  BY LenProperties DEF Smaller
<1>2. \A i \in 1..m : s[i] \in S
  BY <1>1, ElementOfSeq
<1>. HIDE DEF m
<1>3. /\ SubSeq(s, 1, m) \in Seq(S) /\ Len(SubSeq(s, 1, m)) = m
      /\ \A i \in 1..m : SubSeq(s, 1, m)[i] = s[i]
  <2>1. /\ SubSeq(s, 1, m) \in Seq(S)
        /\ Len(SubSeq(s, 1, m)) = IF 1 <= m THEN m - 1 + 1 ELSE 0
        /\ \A i \in 1..m - 1 + 1 : SubSeq(s, 1, m)[i] = s[1 + i - 1]
    BY <1>1, <1>2, SubSeqProperties
  <2>. QED  BY <1>1, <2>1
<1>4. Prefix(s, n) = SubSeq(s, 1, m)
  BY DEF Prefix, m
<1>5. Distinct(s) => Distinct(SubSeq(s, 1, m))
  BY <1>1, <1>3 DEF Distinct
<1>6. m = Smaller(n, Len(s))
  BY DEF m
<1>. QED  BY <1>3, <1>4, <1>5, <1>6

(* A ranking holds each member of S at most once. *)
LEMMA RankingIs ==
  ASSUME NEW S, NEW n \in Nat, NEW s \in Rankings(S, n)
  PROVE  s \in Seq(S) /\ Len(s) = n /\ Distinct(s)
<1>1. s \in [1..n -> S] /\ IsInjective(s)
  BY DEF Rankings, Injection
<1>2. s \in Seq(S) /\ Len(s) = n
  <2>1. s \in Seq(S)
    BY <1>1, SeqDef
  <2>. QED  BY <1>1, <2>1, LenProperties
<1>. QED  BY <1>1, <1>2 DEF Distinct, IsInjective

(* A distinct sequence has as many members as places. *)
LEMMA DistinctCount ==
  ASSUME NEW S, NEW s \in Seq(S), Distinct(s)
  PROVE  IsFiniteSet(Range(s)) /\ Cardinality(Range(s)) = Len(s)
<1>1. Len(s) \in Nat /\ s \in [1..Len(s) -> Range(s)]
  BY LenProperties DEF Range
<1>2. s \in Bijection(1..Len(s), Range(s))
  <2>1. IsInjective(s)
    BY LenProperties DEF Distinct, IsInjective
  <2>2. \A c \in Range(s) : \E i \in 1..Len(s) : s[i] = c
    BY MembersOfSeq
  <2>. QED  BY <1>1, <2>1, <2>2 DEF Bijection, Injection, Surjection
<1>3. IsFiniteSet(1..Len(s)) /\ Cardinality(1..Len(s)) = Len(s)
  BY <1>1, FS_Interval
<1>. QED  BY <1>2, <1>3, FS_Bijection DEF ExistsBijection

(* A shorter one leaves a member of a longer one out. *)
LEMMA LeftOver ==
  ASSUME NEW S, NEW s \in Seq(S), NEW t \in Seq(S), Distinct(s), Distinct(t), Len(s) < Len(t)
  PROVE  \E c \in Range(t) : c \notin Range(s)
<1>. SUFFICES ASSUME Range(t) \subseteq Range(s) PROVE FALSE
  OBVIOUS
<1>1. /\ IsFiniteSet(Range(s)) /\ Cardinality(Range(s)) = Len(s)
      /\ Cardinality(Range(t)) = Len(t)
  BY DistinctCount
<1>2. Cardinality(Range(t)) <= Cardinality(Range(s))
  BY <1>1, FS_Subset
<1>3. Len(s) \in Nat /\ Len(t) \in Nat
  BY LenProperties
<1>. QED  BY <1>1, <1>2, <1>3

-----------------------------------------------------------------------------
(* retrieve: the invariant. *)

(* How many candidates the reranker leaves. *)
Reranked == Smaller(hits, Larger(topK * 2, topK + 4))

(* What AnswerFull asks of n ranked chunks, passing over none. *)
Full(n) ==
  /\ n = Smaller(topK, hits)
  /\ hits = Smaller(FetchK, Cardinality(Chunks)) =>
       n = Smaller(Smaller(topK, MaxFetch), Cardinality(Chunks))

(* Candidate i was kept, or passed over for a reason. *)
Sifted(i) ==
  \/ candidates[i] \in Range(selected)
  \/ Words[candidates[i]] = {}
  \/ \E d \in Range(selected) : NearDuplicate(candidates[i], d)

RetInv ==
  /\ RetTypeOK
  /\ Distinct(candidates) /\ Distinct(selected) /\ Distinct(ranked)
  /\ Distinct(recent) /\ Distinct(answer)
  /\ retAt # "start" => topK \in TopKs
  /\ retAt \in {"start", "search", "rerank", "select"} => selected = <<>> /\ looked = 0
  /\ retAt = "rerank" => Len(candidates) = hits
  /\ retAt \in {"select", "mmr", "dedupe"} => Len(candidates) = Reranked
  /\ retAt \in {"mmr", "dedupe"} =>
       topK < Len(candidates) /\ Len(selected) <= topK /\ Range(selected) \subseteq Range(candidates)
  /\ retAt = "dedupe" =>
       /\ looked <= Len(candidates)
       /\ \A i \in 1..looked : Sifted(i)
       /\ \A d \in Range(selected) : \E i \in 1..looked : candidates[i] = d
  /\ retAt = "append" =>
       /\ looked <= Len(ranked)
       /\ \A d \in Range(answer) : d \in Range(recent) \/ \E i \in 1..looked : ranked[i] = d
  /\ RecentExact /\ AnswerFull

(* A question that asks for more than the reranker leaves gets all there is; *)
(* one that asks for less can be given what it asks for.                     *)
LEMMA Sizes ==
  ASSUME topK \in TopKs, hits \in Nat
  PROVE  /\ topK \in Nat \ {0} /\ Cardinality(Chunks) \in Nat
         /\ Reranked \in Nat /\ Smaller(FetchK, Cardinality(Chunks)) \in Nat
         /\ Full(Smaller(topK, Reranked))
         /\ topK < Reranked => Full(topK)
<1>1. /\ topK \in Nat \ {0} /\ MaxFetch \in Nat \ {0} /\ Multiplier \in Nat \ {0}
      /\ IsFiniteSet(Chunks)
  BY RetrievalAssumption
<1>2. Cardinality(Chunks) \in Nat
  BY <1>1, FS_CardinalityType
<1>. DEFINE wanted == topK * Multiplier
<1>3. wanted \in Nat /\ topK <= wanted
  <2>1. Multiplier - 1 \in Nat
    BY <1>1
  <2>2. topK * (Multiplier - 1) \in Nat
    BY <1>1, <2>1
  <2>3. wanted = topK * (Multiplier - 1) + topK
    BY <1>1
  <2>. QED  BY <1>1, <2>2, <2>3
<1>. HIDE DEF wanted
<1>4. FetchK = Smaller(wanted, MaxFetch)
  BY DEF FetchK, wanted
<1>. QED  BY <1>1, <1>2, <1>3, <1>4 DEF Full, Reranked, Smaller, Larger

(* The parts of the invariant a step needs. *)
LEMMA RetTypes ==
  ASSUME RetInv
  PROVE  /\ candidates \in Seq(Chunks) /\ selected \in Seq(Chunks) /\ ranked \in Seq(Chunks)
         /\ recent \in Seq(Chunks) /\ answer \in Seq(Chunks)
         /\ Len(candidates) \in Nat /\ Len(selected) \in Nat /\ Len(ranked) \in Nat
         /\ looked \in Nat /\ hits \in Nat /\ history \in BOOLEAN /\ topK \in {0} \cup TopKs
         /\ RecentExact /\ AnswerFull
         /\ Distinct(candidates) /\ Distinct(selected) /\ Distinct(ranked)
         /\ Distinct(recent) /\ Distinct(answer)
<1>1. /\ candidates \in Seq(Chunks) /\ selected \in Seq(Chunks) /\ ranked \in Seq(Chunks)
      /\ recent \in Seq(Chunks) /\ answer \in Seq(Chunks)
      /\ looked \in Nat /\ hits \in Nat /\ history \in BOOLEAN /\ topK \in {0} \cup TopKs
  BY DEF RetInv, RetTypeOK
<1>2. Len(candidates) \in Nat /\ Len(selected) \in Nat /\ Len(ranked) \in Nat
  BY <1>1, LenProperties
<1>. QED  BY <1>1, <1>2 DEF RetInv

(* The recent turns are what RecentExact says as long as they stay. *)
LEMMA RecentStays ==
  ASSUME RecentExact, recent' = recent
  PROVE  RecentExact'
BY DEF RecentExact, NewerLeftOut, InOrder

(* At first there is nothing. *)
LEMMA RetInitInv == RetInit => RetInv
<1>. SUFFICES ASSUME RetInit PROVE RetInv
  OBVIOUS
<1>1. /\ <<>> \in Seq(Chunks) /\ Len(<<>>) = 0 /\ 0 \in Nat
      /\ FALSE \in BOOLEAN
  OBVIOUS
<1>2. /\ candidates = <<>> /\ selected = <<>> /\ ranked = <<>> /\ recent = <<>> /\ answer = <<>>
      /\ retAt = "start" /\ topK = 0 /\ history = FALSE /\ looked = 0 /\ hits = 0
  BY DEF RetInit
<1>3. \A s \in {candidates, selected, ranked, recent, answer} : s \in Seq(Chunks)
  BY <1>1, <1>2
<1>4. RetTypeOK
  BY <1>2, <1>3 DEF RetTypeOK
<1>5. /\ Distinct(candidates) /\ Distinct(selected) /\ Distinct(ranked)
      /\ Distinct(recent) /\ Distinct(answer)
  BY <1>1, <1>2 DEF Distinct
<1>6. RecentExact /\ AnswerFull
  BY <1>2 DEF RecentExact, AnswerFull
<1>. QED  BY <1>2, <1>4, <1>5, <1>6 DEF RetInv

(* A question comes in. *)
LEMMA RetrieveKeeps ==
  ASSUME RetInv, NEW k \in TopKs, NEW conversation \in BOOLEAN, NEW blank \in BOOLEAN,
         Retrieve(k, conversation, blank)
  PROVE  RetInv'
<1>1. /\ retAt = "start" /\ topK' = k /\ history' = conversation
      /\ retAt' = IF blank THEN "done" ELSE "search"
      /\ UNCHANGED <<candidates, hits, selected, looked, ranked, recent, answer>>
  BY DEF Retrieve
<1>2. RetTypeOK'
  BY <1>1, RetTypes DEF RetTypeOK
<1>3. RecentExact' /\ AnswerFull'
  BY <1>1, RetTypes, RecentStays DEF AnswerFull
<1>. QED  BY <1>1, <1>2, <1>3 DEF RetInv, Distinct

(* The store returns its share. *)
LEMMA SearchKeeps ==
  ASSUME RetInv, HybridSearch
  PROVE  RetInv'
<1>1. /\ retAt = "search" /\ hits' \in 0..Smaller(FetchK, Cardinality(Chunks))
      /\ candidates' \in Rankings(Chunks, hits')
      /\ retAt' = IF candidates' = <<>> THEN "select" ELSE "rerank"
      /\ UNCHANGED <<topK, history, selected, looked, ranked, recent, answer>>
      /\ topK \in TopKs
  BY DEF HybridSearch, RetInv
<1>2. hits' \in Nat /\ topK' \in Nat
  <2>1. hits \in Nat
    BY RetTypes
  <2>. QED  BY <1>1, <2>1, Sizes
<1>3. candidates' \in Seq(Chunks) /\ Len(candidates') = hits' /\ Distinct(candidates')
  BY <1>1, <1>2, RankingIs
<1>4. candidates' = <<>> => Len(candidates') = Reranked'
  BY <1>1, <1>2, <1>3 DEF Reranked, Smaller, Larger
<1>5. RetTypeOK'
  BY <1>1, <1>2, <1>3, RetTypes DEF RetTypeOK
<1>6. RecentExact' /\ AnswerFull'
  BY <1>1, RetTypes, RecentStays DEF AnswerFull
<1>. QED  BY <1>1, <1>2, <1>3, <1>4, <1>5, <1>6 DEF RetInv, Distinct

(* The reranker orders what it leaves. *)
LEMMA RerankKeeps ==
  ASSUME RetInv, Rerank
  PROVE  RetInv'
<1>1. /\ retAt = "rerank" /\ retAt' = "select" /\ Len(candidates) = hits /\ hits \in Nat
      /\ UNCHANGED <<topK, hits, history, selected, looked, ranked, recent, answer>>
      /\ topK \in TopKs
      /\ \/ candidates' = Prefix(candidates, RerankN)
         \/ candidates' \in Rankings(Range(candidates), RerankN)
  BY RetTypes DEF Rerank, RetInv
<1>2. RerankN = Reranked /\ Reranked \in Nat /\ Reranked <= Len(candidates)
  BY <1>1, Sizes DEF RerankN, Reranked, Smaller
<1>3. candidates' \in Seq(Chunks) /\ Len(candidates') = Reranked /\ Distinct(candidates')
  <2>1. CASE candidates' = Prefix(candidates, RerankN)
    <3>1. Smaller(Reranked, Len(candidates)) = Reranked
      BY <1>2, RetTypes DEF Smaller
    <3>. QED  BY <1>2, <2>1, <3>1, RetTypes, PrefixOf
  <2>2. CASE candidates' \in Rankings(Range(candidates), RerankN)
    <3>1. /\ candidates' \in Seq(Range(candidates)) /\ Len(candidates') = Reranked
          /\ Distinct(candidates')
      BY <1>2, <2>2, RankingIs
    <3>2. Range(candidates) \subseteq Chunks
      BY RetTypes, MembersOfSeq
    <3>. QED  BY <3>1, <3>2, SeqMonotonic
  <2>. QED  BY <1>1, <2>1, <2>2
<1>4. Reranked' = Reranked
  BY <1>1 DEF Reranked
<1>5. RetTypeOK'
  BY <1>1, <1>3, RetTypes DEF RetTypeOK
<1>6. RecentExact' /\ AnswerFull'
  BY <1>1, RetTypes, RecentStays DEF AnswerFull
<1>. QED  BY <1>1, <1>3, <1>4, <1>5, <1>6 DEF RetInv, Distinct

(* What is ranked is distinct and all a question could get, near-duplicates  *)
(* apart, and that is what the invariant asks of it.                         *)
LEMMA RankedKeeps ==
  ASSUME RetInv, retAt' = "merge", retAt \in {"select", "mmr", "dedupe"},
         UNCHANGED <<topK, hits, history, candidates, selected, looked, recent, answer>>,
         ranked' \in Seq(Chunks), Distinct(ranked'), AnswerFull'
  PROVE  RetInv'
<1>1. RetTypeOK'
  BY RetTypes DEF RetTypeOK
<1>2. RecentExact'
  BY RetTypes, RecentStays
<1>. QED  BY <1>1, <1>2 DEF RetInv, Distinct

(* As many ranked as can be is what AnswerFull asks. *)
LEMMA FullAnswer ==
  ASSUME UNCHANGED <<topK, hits>>, Full(Len(ranked'))
  PROVE  AnswerFull'
BY DEF Full, AnswerFull, FetchK

(* The first candidates are as many as can be. *)
LEMMA PrefixFull ==
  ASSUME RetInv, retAt \in {"select", "mmr", "dedupe"}
  PROVE  /\ Prefix(candidates, topK) \in Seq(Chunks) /\ Distinct(Prefix(candidates, topK))
         /\ Full(Len(Prefix(candidates, topK)))
<1>1. topK \in TopKs /\ Len(candidates) = Reranked
  BY DEF RetInv
<1>. QED  BY <1>1, Sizes, PrefixOf, RetTypes

(* The choice begins. *)
LEMMA SelectKeeps ==
  ASSUME RetInv, Select
  PROVE  RetInv'
<1>1. /\ retAt = "select" /\ topK \in TopKs /\ selected = <<>> /\ looked = 0
      /\ Len(candidates) = Reranked
      /\ UNCHANGED <<topK, hits, history, candidates, looked, recent, answer>>
  BY DEF Select, RetInv
<1>2. CASE RankedAs(Prefix(candidates, topK)) /\ UNCHANGED selected
  <2>1. retAt' = "merge" /\ ranked' = Prefix(candidates, topK)
    BY <1>2 DEF RankedAs
  <2>2. Full(Len(ranked'))
        /\ ranked' \in Seq(Chunks) /\ Distinct(ranked')
    BY <1>1, <2>1, PrefixFull
  <2>3. AnswerFull'
    BY <1>1, <2>2, FullAnswer
  <2>. QED  BY <1>1, <1>2, <2>1, <2>2, <2>3, RankedKeeps
<1>3. Reranked' = Reranked
  BY <1>1 DEF Reranked
<1>4. RecentExact'
  BY <1>1, RetTypes, RecentStays
<1>5. topK \in Nat \ {0}
  BY <1>1, RetTypes, Sizes
<1>6. CASE Len(candidates) > topK /\ retAt' = "dedupe" /\ UNCHANGED <<selected, ranked>>
  <2>1. RetTypeOK'
    BY <1>1, <1>6, RetTypes DEF RetTypeOK
  <2>2. Len(selected) = 0 /\ Range(selected) = {}
    <3>1. Len(selected) = 0
      BY <1>1
    <3>2. 1..Len(selected) = {}
      BY <3>1
    <3>3. \A c : c \in Range(selected) <=> \E i \in 1..Len(selected) : selected[i] = c
      BY RetTypes, MembersOfSeq
    <3>. QED  BY <3>1, <3>2, <3>3
  <2>3. /\ looked' <= Len(candidates') /\ \A i \in 1..looked' : Sifted(i)'
        /\ \A d \in Range(selected') : \E i \in 1..looked' : candidates'[i] = d
    BY <1>1, <1>6, <2>2, RetTypes
  <2>4. AnswerFull'
    BY <1>6 DEF AnswerFull
  <2>5. /\ Len(candidates') = Reranked' /\ topK' < Len(candidates') /\ Len(selected') <= topK'
        /\ Range(selected') \subseteq Range(candidates')
    BY <1>1, <1>3, <1>5, <1>6, <2>2, RetTypes
  <2>. QED  BY <1>1, <1>3, <1>4, <1>6, <2>1, <2>3, <2>4, <2>5, RetTypes DEF RetInv, Distinct
<1>7. CASE /\ Len(candidates) > topK /\ retAt' = "mmr" /\ UNCHANGED ranked
           /\ \E c \in Range(candidates) : selected' = <<c>>
  <2>1. PICK c \in Range(candidates) : selected' = <<c>>
    BY <1>7
  <2>2. c \in Chunks
    BY RetTypes, MembersOfSeq
  <2>3. selected' \in Seq(Chunks) /\ Len(selected') = 1 /\ selected'[1] = c
    BY <2>1, <2>2
  <2>4. Distinct(selected') /\ Range(selected') \subseteq Range(candidates)
    <3>1. \A i \in 1..1 : i = 1
      OBVIOUS
    <3>. QED  BY <2>3, <3>1, MembersOfSeq DEF Distinct
  <2>5. RetTypeOK'
    BY <1>1, <1>7, <2>3, RetTypes DEF RetTypeOK
  <2>6. AnswerFull'
    BY <1>7 DEF AnswerFull
  <2>7. /\ Len(candidates') = Reranked' /\ topK' < Len(candidates') /\ Len(selected') <= topK'
        /\ Range(selected') \subseteq Range(candidates')
    BY <1>1, <1>3, <1>5, <1>7, <2>3, <2>4, RetTypes
  <2>. QED  BY <1>1, <1>3, <1>4, <1>7, <2>4, <2>5, <2>6, <2>7, RetTypes DEF RetInv, Distinct
<1>. QED  BY <1>2, <1>6, <1>7 DEF Select

(* The greedy loop adds a chunk it has not got, or has all it wants. *)
LEMMA MmrKeeps ==
  ASSUME RetInv, Mmr
  PROVE  RetInv'
<1>1. /\ retAt = "mmr" /\ topK \in TopKs
      /\ Len(candidates) = Reranked /\ topK < Len(candidates) /\ Len(selected) <= topK
      /\ Range(selected) \subseteq Range(candidates)
      /\ UNCHANGED <<topK, hits, history, candidates, looked, recent, answer>>
  BY DEF Mmr, RetInv
<1>2. topK \in Nat \ {0}
  BY <1>1, RetTypes, Sizes
<1>3. CASE Len(selected) < topK /\ Remaining # {}
  <2>1. PICK c \in Remaining : selected' = Append(selected, c)
    BY <1>3 DEF Mmr
  <2>2. retAt' = "mmr" /\ UNCHANGED ranked
    BY <1>1, <1>3 DEF Mmr
  <2>3. c \in Range(candidates) /\ c \notin Range(selected) /\ c \in Chunks
    BY RetTypes, MembersOfSeq DEF Remaining
  <2>4. /\ selected' \in Seq(Chunks) /\ Len(selected') = Len(selected) + 1
        /\ Distinct(selected') /\ Range(selected') = Range(selected) \cup {c}
    BY <2>1, <2>3, RetTypes, Appending, AppendDistinct, AppendRange
  <2>5. Reranked' = Reranked
    BY <1>1 DEF Reranked
  <2>6. RetTypeOK'
    BY <1>1, <2>2, <2>4, RetTypes DEF RetTypeOK
  <2>7. RecentExact' /\ AnswerFull'
    BY <1>1, <2>2, RetTypes, RecentStays DEF AnswerFull
  <2>8. /\ Len(candidates') = Reranked' /\ topK' < Len(candidates') /\ Len(selected') <= topK'
        /\ Range(selected') \subseteq Range(candidates')
    BY <1>1, <1>2, <1>3, <2>3, <2>4, <2>5, RetTypes
  <2>. QED  BY <1>1, <2>2, <2>4, <2>6, <2>7, <2>8, RetTypes DEF RetInv, Distinct
<1>4. CASE ~(Len(selected) < topK /\ Remaining # {})
  <2>1. retAt' = "merge" /\ ranked' = selected /\ UNCHANGED selected
    BY <1>4 DEF Mmr, RankedAs
  <2>2. Len(selected) = topK
    <3>1. SUFFICES ASSUME Len(selected) < topK PROVE FALSE
      BY <1>1, <1>2, RetTypes
    <3>2. Len(selected) < Len(candidates)
      BY <1>1, <1>2, <3>1, RetTypes
    <3>3. \E c \in Range(candidates) : c \notin Range(selected)
      BY <3>2, RetTypes, LeftOver
    <3>. QED  BY <1>4, <3>1, <3>3 DEF Remaining
  <2>3. Full(Len(ranked'))
    BY <1>1, <2>1, <2>2, RetTypes, Sizes
  <2>4. AnswerFull'
    BY <1>1, <2>3, FullAnswer
  <2>. QED  BY <1>1, <2>1, <2>4, RetTypes, RankedKeeps
<1>. QED  BY <1>3, <1>4

(* The fallback looks at one candidate more, or has enough, or has none left, *)
(* and then it passed over some chunk for a reason.                          *)
LEMMA DedupeKeeps ==
  ASSUME RetInv, Dedupe
  PROVE  RetInv'
<1>1. /\ retAt = "dedupe" /\ topK \in TopKs
      /\ Len(candidates) = Reranked /\ topK < Len(candidates) /\ Len(selected) <= topK
      /\ Range(selected) \subseteq Range(candidates)
      /\ looked <= Len(candidates)
      /\ \A i \in 1..looked : Sifted(i)
      /\ \A d \in Range(selected) : \E i \in 1..looked : candidates[i] = d
      /\ UNCHANGED <<topK, hits, history, candidates, recent, answer>>
  BY DEF Dedupe, RetInv
<1>2. topK \in Nat \ {0}
  BY <1>1, RetTypes, Sizes
<1>3. CASE Len(selected) < topK /\ looked < Len(candidates)
  <2>. DEFINE c == candidates[looked + 1]
              out == Words[c] = {} \/ \E d \in Range(selected) : NearDuplicate(c, d)
  <2>1. /\ selected' = IF out THEN selected ELSE Append(selected, c)
        /\ looked' = looked + 1 /\ retAt' = "dedupe" /\ UNCHANGED ranked
    BY <1>1, <1>3 DEF Dedupe
  <2>2. looked + 1 \in 1..Len(candidates) /\ looked \in Nat
    BY <1>3, RetTypes
  <2>3. c \in Chunks /\ c \in Range(candidates)
    BY <2>2, RetTypes, ElementOfSeq, MembersOfSeq
  <2>4. c \notin Range(selected)
    <3>1. ASSUME NEW i \in 1..looked PROVE candidates[i] # c
      <4>1. i \in 1..Len(candidates) /\ i # looked + 1
        BY <1>3, RetTypes
      <4>. QED  BY <2>2, <4>1, RetTypes DEF Distinct
    <3>. QED  BY <1>1, <3>1
  <2>5. /\ selected' \in Seq(Chunks) /\ Distinct(selected')
        /\ Len(selected') \in {Len(selected), Len(selected) + 1}
        /\ Range(selected) \subseteq Range(selected') /\ Range(selected') \subseteq Range(selected) \cup {c}
        /\ ~out => c \in Range(selected')
    <3>1. CASE out
      BY <2>1, <3>1, RetTypes
    <3>2. CASE ~out
      <4>1. selected' = Append(selected, c)
        BY <2>1, <3>2
      <4>. QED  BY <2>3, <2>4, <4>1, RetTypes, Appending, AppendDistinct, AppendRange
    <3>. QED  BY <3>1, <3>2
  <2>6. \A i \in 1..looked' : Sifted(i)'
    <3>1. SUFFICES ASSUME NEW i \in 1..looked' PROVE Sifted(i)'
      OBVIOUS
    <3>2. CASE i \in 1..looked
      BY <1>1, <2>5, <3>2 DEF Sifted, NearDuplicate
    <3>3. CASE i = looked + 1
      BY <1>1, <2>5, <3>3 DEF Sifted, NearDuplicate
    <3>. QED  BY <2>1, <2>2, <3>2, <3>3
  <2>7. \A d \in Range(selected') : \E i \in 1..looked' : candidates'[i] = d
    <3>1. ASSUME NEW d \in Range(selected') PROVE \E i \in 1..looked + 1 : candidates[i] = d
      <4>1. CASE d = c
        BY <2>2, <4>1
      <4>2. CASE d \in Range(selected)
        <5>1. PICK i \in 1..looked : candidates[i] = d
          BY <1>1, <4>2
        <5>2. i \in 1..looked + 1
          BY <2>2
        <5>. QED  BY <5>1, <5>2
      <4>. QED  BY <2>5, <4>1, <4>2
    <3>. QED  BY <1>1, <2>1, <3>1
  <2>8. Reranked' = Reranked
    BY <1>1 DEF Reranked
  <2>9. RetTypeOK'
    BY <1>1, <2>1, <2>2, <2>5, RetTypes DEF RetTypeOK
  <2>10. RecentExact' /\ AnswerFull'
    BY <1>1, <2>1, RetTypes, RecentStays DEF AnswerFull
  <2>11. /\ Len(candidates') = Reranked' /\ topK' < Len(candidates') /\ Len(selected') <= topK'
         /\ Range(selected') \subseteq Range(candidates') /\ looked' <= Len(candidates')
    <3>1. Len(selected') <= topK
      BY <1>2, <1>3, <2>5, RetTypes
    <3>2. Range(selected') \subseteq Range(candidates)
      BY <1>1, <2>3, <2>5
    <3>3. looked' <= Len(candidates)
      BY <1>3, <2>1, RetTypes
    <3>. QED  BY <1>1, <2>8, <3>1, <3>2, <3>3
  <2>. HIDE DEF c, out
  <2>. QED  BY <1>1, <2>1, <2>5, <2>6, <2>7, <2>9, <2>10, <2>11, RetTypes DEF RetInv, Distinct
<1>4. CASE ~(Len(selected) < topK /\ looked < Len(candidates))
  <2>1. /\ retAt' = "merge"
        /\ ranked' = IF selected = <<>> THEN Prefix(candidates, topK) ELSE selected
        /\ UNCHANGED <<selected, looked>>
    BY <1>4 DEF Dedupe, RankedAs
  <2>2. CASE selected = <<>>
    <3>1. /\ Full(Len(ranked'))
          /\ ranked' \in Seq(Chunks) /\ Distinct(ranked')
      BY <1>1, <2>1, <2>2, PrefixFull
    <3>2. AnswerFull'
      BY <1>1, <3>1, FullAnswer
    <3>. QED  BY <1>1, <2>1, <3>1, <3>2, RankedKeeps
  <2>3. CASE selected # <<>>
    <3>1. ranked' = selected
      BY <2>1, <2>3
    <3>2. CASE Len(selected) = topK
      <4>1. Full(Len(ranked'))
        BY <1>1, <3>1, <3>2, RetTypes, Sizes
      <4>2. AnswerFull'
        BY <1>1, <4>1, FullAnswer
      <4>. QED  BY <1>1, <2>1, <3>1, <4>2, RetTypes, RankedKeeps
    <3>3. CASE Len(selected) < topK
      <4>1. looked = Len(candidates) /\ Len(selected) < Len(candidates)
        BY <1>1, <1>2, <1>4, <3>3, RetTypes
      <4>2. PICK c \in Range(candidates) : c \notin Range(selected)
        BY <4>1, RetTypes, LeftOver
      <4>3. PICK i \in 1..looked : candidates[i] = c
        BY <4>1, RetTypes, MembersOfSeq
      <4>4. Words[c] = {} \/ \E d \in Range(selected) : NearDuplicate(c, d)
        BY <1>1, <4>2, <4>3 DEF Sifted
      <4>5. AnswerFull'
        BY <1>1, <3>1, <4>2, <4>4 DEF AnswerFull, NearDuplicate
      <4>. QED  BY <1>1, <2>1, <3>1, <4>5, RetTypes, RankedKeeps
    <3>. QED  BY <1>1, <1>2, <3>2, <3>3, RetTypes
  <2>. QED  BY <2>2, <2>3
<1>. QED  BY <1>3, <1>4

-----------------------------------------------------------------------------
(* The recent turns, and the answer. *)

(* The last members of a sequence. *)
LEMMA LastOnes ==
  ASSUME NEW S, NEW s \in Seq(S)
  PROVE  /\ LastOf(s) \in Seq(S) /\ Len(LastOf(s)) = Smaller(RecentLimit, Len(s))
         /\ \A i \in 1..Len(LastOf(s)) :
              /\ i + Len(s) - Len(LastOf(s)) \in 1..Len(s)
              /\ LastOf(s)[i] = s[i + Len(s) - Len(LastOf(s))]
<1>1. Len(s) \in Nat /\ RecentLimit \in Nat \ {0}
  BY LenProperties, RetrievalAssumption
<1>. DEFINE m == Larger(1, Len(s) - RecentLimit + 1)
<1>2. m \in Nat \ {0} /\ Len(s) - m + 1 = Smaller(RecentLimit, Len(s))
      /\ m <= Len(s) + 1
  <2>1. CASE Len(s) <= RecentLimit
    <3>1. m = 1 /\ Smaller(RecentLimit, Len(s)) = Len(s)
      BY <1>1, <2>1 DEF Larger, Smaller
    <3>. QED  BY <1>1, <3>1
  <2>2. CASE RecentLimit < Len(s)
    <3>1. m = Len(s) - RecentLimit + 1 /\ Smaller(RecentLimit, Len(s)) = RecentLimit
      BY <1>1, <2>2 DEF Larger, Smaller
    <3>. QED  BY <1>1, <2>2, <3>1
  <2>. QED  BY <1>1, <2>1, <2>2
<1>3. LastOf(s) = SubSeq(s, m, Len(s))
  BY DEF LastOf, m
<1>. HIDE DEF m
<1>4. \A i \in m..Len(s) : s[i] \in S
  BY <1>1, <1>2, ElementOfSeq
<1>5. /\ SubSeq(s, m, Len(s)) \in Seq(S)
      /\ Len(SubSeq(s, m, Len(s))) = IF m <= Len(s) THEN Len(s) - m + 1 ELSE 0
      /\ \A i \in 1..Len(s) - m + 1 : SubSeq(s, m, Len(s))[i] = s[m + i - 1]
  BY <1>1, <1>2, <1>4, SubSeqProperties
<1>6. Len(LastOf(s)) = Len(s) - m + 1 /\ LastOf(s) \in Seq(S)
  BY <1>1, <1>2, <1>3, <1>5
<1>7. ASSUME NEW i \in 1..Len(LastOf(s))
      PROVE  /\ i + Len(s) - Len(LastOf(s)) \in 1..Len(s)
             /\ LastOf(s)[i] = s[i + Len(s) - Len(LastOf(s))]
  <2>1. i \in 1..Len(s) - m + 1 /\ LastOf(s)[i] = s[m + i - 1]
    BY <1>3, <1>5, <1>6
  <2>2. i + Len(s) - Len(LastOf(s)) = m + i - 1 /\ m + i - 1 \in 1..Len(s)
    BY <1>1, <1>2, <1>6, <2>1
  <2>. QED  BY <2>1, <2>2
<1>. QED  BY <1>2, <1>6, <1>7

(* The turns returned are distinct and in order, as many as asked for, and the *)
(* newest but for those the window left out.                                 *)
LEMMA RecentTurnsExact ==
  ASSUME NEW r \in RecentTurns
  PROVE  /\ r \in Seq(Chunks) /\ Distinct(r) /\ InOrder(r)
         /\ r # <<>> =>
              /\ Len(r) = Smaller(RecentLimit, Cardinality(Turns))
              /\ Cardinality(NewerLeftOut(r)) <= Larger(0, Cardinality(Turns) - Window)
<1>1. /\ Turns \subseteq Chunks /\ IsFiniteSet(Turns) /\ When \in [Turns -> Nat]
      /\ {RecentLimit, WindowFactor, WindowFloor} \subseteq Nat \ {0}
  BY RetrievalAssumption, FS_Subset
<1>2. Cardinality(Turns) \in Nat /\ Window \in Nat /\ RecentLimit <= Window
  <2>. DEFINE factored == RecentLimit * WindowFactor
  <2>1. factored \in Nat /\ RecentLimit <= factored
    <3>1. WindowFactor - 1 \in Nat
      BY <1>1
    <3>2. RecentLimit * (WindowFactor - 1) \in Nat
      BY <1>1, <3>1
    <3>3. factored = RecentLimit * (WindowFactor - 1) + RecentLimit
      BY <1>1
    <3>. QED  BY <1>1, <3>2, <3>3
  <2>. HIDE DEF factored
  <2>2. Window = Larger(factored, WindowFloor)
    BY DEF Window, factored
  <2>3. Window \in Nat /\ RecentLimit <= Window
    BY <1>1, <2>1, <2>2 DEF Larger
  <2>. QED  BY <1>1, <2>3, FS_CardinalityType
<1>. DEFINE n == Smaller(Window, Cardinality(Turns))
<1>3. n \in Nat
  BY <1>2 DEF Smaller
<1>4. PICK s \in Rankings(Turns, n) : InOrder(s) /\ r = LastOf(s)
  BY DEF RecentTurns
<1>5. s \in Seq(Turns) /\ Len(s) = n /\ Distinct(s)
  BY <1>3, RankingIs
<1>. DEFINE k == Len(s) - Len(r)
<1>6. /\ r \in Seq(Turns) /\ Len(r) = Smaller(RecentLimit, Len(s)) /\ Len(r) \in Nat
      /\ k \in Nat
      /\ \A i \in 1..Len(r) : i + k \in 1..Len(s) /\ r[i] = s[i + k]
  <2>1. /\ r \in Seq(Turns) /\ Len(r) = Smaller(RecentLimit, Len(s))
        /\ \A i \in 1..Len(r) : i + Len(s) - Len(r) \in 1..Len(s)
                             /\ r[i] = s[i + Len(s) - Len(r)]
    BY <1>4, <1>5, LastOnes
  <2>2. Len(r) \in Nat /\ Len(s) \in Nat /\ Len(r) <= Len(s)
    BY <1>1, <1>3, <1>5, <2>1 DEF Smaller
  <2>3. \A i \in 1..Len(r) : i + Len(s) - Len(r) = i + k
    BY <2>2
  <2>. QED  BY <2>1, <2>2, <2>3
<1>. HIDE DEF n
<1>7. r \in Seq(Chunks)
  BY <1>1, <1>6, SeqMonotonic
<1>8. Distinct(r)
  <2>1. SUFFICES ASSUME NEW i \in 1..Len(r), NEW j \in 1..Len(r), r[i] = r[j] PROVE i = j
    BY DEF Distinct
  <2>2. i + k = j + k
    BY <1>5, <1>6, <2>1 DEF Distinct
  <2>. QED  BY <1>6, <2>2
<1>9. InOrder(r)
  <2>1. SUFFICES ASSUME NEW i \in 1..Len(r), NEW j \in 1..Len(r), i < j
                 PROVE  When[r[i]] <= When[r[j]]
    BY DEF InOrder
  <2>2. i + k < j + k
    BY <1>6, <2>1
  <2>. QED  BY <1>4, <1>6, <2>2 DEF InOrder
<1>10. Len(r) = Smaller(RecentLimit, Cardinality(Turns))
  BY <1>1, <1>2, <1>5, <1>6 DEF n, Smaller
<1>11. ASSUME r # <<>>
       PROVE  NewerLeftOut(r) \subseteq Turns \ Range(s)
  <2>1. 1 \in 1..Len(r)
    BY <1>6, <1>11, EmptySeq
  <2>2. SUFFICES ASSUME NEW i \in 1..Len(s), s[i] \notin Range(r) PROVE When[s[i]] <= When[r[1]]
    <3>1. ASSUME NEW t \in NewerLeftOut(r), t \in Range(s) PROVE FALSE
      <4>1. PICK i \in 1..Len(s) : s[i] = t
        BY <1>5, <3>1, MembersOfSeq
      <4>2. t \in Turns /\ t \notin Range(r) /\ When[t] > When[r[1]]
        BY DEF NewerLeftOut
      <4>3. r[1] \in Turns
        BY <1>6, <2>1, ElementOfSeq
      <4>4. When[t] \in Nat /\ When[r[1]] \in Nat
        BY <1>1, <4>2, <4>3
      <4>. QED  BY <2>2, <4>1, <4>2, <4>4
    <3>. QED  BY <3>1 DEF NewerLeftOut
  <2>3. i <= k
    <3>1. SUFFICES ASSUME i > k PROVE FALSE
      BY <1>6
    <3>2. i - k \in 1..Len(r) /\ (i - k) + k = i
      BY <1>3, <1>5, <1>6, <3>1
    <3>3. r[i - k] = s[i]
      BY <1>6, <3>2
    <3>. QED  BY <1>6, <2>2, <3>2, <3>3, MembersOfSeq
  <2>4. i < 1 + k /\ 1 + k \in 1..Len(s) /\ r[1] = s[1 + k]
    BY <1>6, <2>1, <2>3
  <2>. QED  BY <1>4, <2>4 DEF InOrder
<1>12. /\ IsFiniteSet(Turns \ Range(s))
       /\ Cardinality(Turns \ Range(s)) = Larger(0, Cardinality(Turns) - Window)
  <2>1. Range(s) \subseteq Turns /\ IsFiniteSet(Range(s)) /\ Cardinality(Range(s)) = n
    BY <1>5, MembersOfSeq, DistinctCount
  <2>2. Turns \cap Range(s) = Range(s)
    BY <2>1
  <2>3. /\ IsFiniteSet(Turns \ Range(s))
        /\ Cardinality(Turns \ Range(s)) = Cardinality(Turns) - Cardinality(Turns \cap Range(s))
    BY <1>1, FS_Difference
  <2>4. Cardinality(Turns) - n = Larger(0, Cardinality(Turns) - Window)
    BY <1>2 DEF n, Smaller, Larger
  <2>. QED  BY <2>1, <2>2, <2>3, <2>4
<1>13. ASSUME r # <<>>
       PROVE  Cardinality(NewerLeftOut(r)) <= Larger(0, Cardinality(Turns) - Window)
  BY <1>11, <1>12, <1>13, FS_Subset
<1>. QED  BY <1>7, <1>8, <1>9, <1>10, <1>13

(* The turns go first. *)
LEMMA MergeKeeps ==
  ASSUME RetInv, MergeRecent
  PROVE  RetInv'
<1>1. /\ retAt = "merge" /\ UNCHANGED <<topK, hits, history, candidates, selected, ranked>>
      /\ retAt' \in {"done", "append"} /\ topK \in TopKs
  BY DEF MergeRecent, RetInv
<1>2. AnswerFull'
  BY <1>1 DEF AnswerFull
<1>3. CASE ~history
  <2>1. answer' = ranked /\ retAt' = "done" /\ UNCHANGED <<recent, looked>>
    BY <1>3 DEF MergeRecent
  <2>2. RetTypeOK'
    BY <1>1, <2>1, RetTypes DEF RetTypeOK
  <2>3. RecentExact'
    BY <2>1, RetTypes, RecentStays
  <2>. QED  BY <1>1, <1>2, <2>1, <2>2, <2>3, RetTypes DEF RetInv, Distinct
<1>4. CASE history
  <2>1. recent' \in {<<>>} \cup RecentTurns /\ answer' = recent' /\ looked' = 0 /\ retAt' = "append"
    BY <1>4 DEF MergeRecent
  <2>2. recent' \in Seq(Chunks) /\ Distinct(recent') /\ RecentExact'
    <3>1. CASE recent' = <<>>
      <4>1. Len(recent') = 0 /\ recent' \in Seq(Chunks)
        BY <3>1
      <4>. QED  BY <3>1, <4>1 DEF Distinct, RecentExact
    <3>2. CASE recent' \in RecentTurns
      BY <3>2, RecentTurnsExact DEF RecentExact, NewerLeftOut, InOrder
    <3>. QED  BY <2>1, <3>1, <3>2
  <2>3. RetTypeOK'
    BY <1>1, <2>1, <2>2, RetTypes DEF RetTypeOK
  <2>4. /\ looked' <= Len(ranked')
        /\ \A d \in Range(answer') : d \in Range(recent') \/ \E i \in 1..looked' : ranked'[i] = d
    BY <1>1, <2>1, RetTypes
  <2>. QED  BY <1>1, <1>2, <2>1, <2>2, <2>3, <2>4, RetTypes DEF RetInv, Distinct
<1>. QED  BY <1>3, <1>4, RetTypes

(* A ranked chunk that is not among the turns follows. *)
LEMMA AppendKeeps ==
  ASSUME RetInv, AppendRanked
  PROVE  RetInv'
<1>1. /\ retAt = "append" /\ topK \in TopKs
      /\ UNCHANGED <<topK, hits, history, candidates, selected, ranked, recent>>
      /\ looked <= Len(ranked)
      /\ \A d \in Range(answer) : d \in Range(recent) \/ \E i \in 1..looked : ranked[i] = d
  BY DEF AppendRanked, RetInv
<1>2. CASE looked < Len(ranked)
  <2>. DEFINE c == ranked[looked + 1]
  <2>1. answer' = Merged(c) /\ looked' = looked + 1 /\ retAt' = "append"
    BY <1>1, <1>2 DEF AppendRanked
  <2>2. looked + 1 \in 1..Len(ranked) /\ looked \in Nat
    BY <1>2, RetTypes
  <2>3. c \in Chunks
    BY <2>2, RetTypes, ElementOfSeq
  <2>4. c \in Range(recent) \/ c \notin Range(answer)
    <3>1. ASSUME NEW i \in 1..looked PROVE ranked[i] # c
      <4>1. i \in 1..Len(ranked) /\ i # looked + 1
        BY <1>2, RetTypes
      <4>. QED  BY <2>2, <4>1, RetTypes DEF Distinct
    <3>. QED  BY <1>1, <3>1
  <2>5. /\ answer' \in Seq(Chunks) /\ Distinct(answer')
        /\ Range(answer') \subseteq Range(answer) \cup {c}
    <3>1. CASE c \in Range(recent)
      BY <2>1, <3>1, RetTypes DEF Merged
    <3>2. CASE c \notin Range(recent)
      <4>1. answer' = Append(answer, c)
        BY <2>1, <3>2 DEF Merged
      <4>. QED  BY <2>3, <2>4, <3>2, <4>1, RetTypes, Appending, AppendDistinct, AppendRange
    <3>. QED  BY <3>1, <3>2
  <2>6. \A d \in Range(answer') : d \in Range(recent) \/ \E i \in 1..looked + 1 : ranked[i] = d
    <3>1. \A i \in 1..looked : i \in 1..looked + 1
      BY <2>2
    <3>2. looked + 1 \in 1..looked + 1
      BY <2>2
    <3>. QED  BY <1>1, <2>5, <3>1, <3>2
  <2>7. RetTypeOK'
    BY <1>1, <2>1, <2>2, <2>5, RetTypes DEF RetTypeOK
  <2>8. RecentExact' /\ AnswerFull'
    BY <1>1, <2>1, RetTypes, RecentStays DEF AnswerFull
  <2>9. looked' <= Len(ranked')
    BY <1>1, <2>1, <2>2
  <2>. HIDE DEF c
  <2>. QED  BY <1>1, <2>1, <2>5, <2>6, <2>7, <2>8, <2>9, RetTypes DEF RetInv, Distinct
<1>3. CASE ~(looked < Len(ranked))
  <2>1. retAt' = "done" /\ UNCHANGED <<answer, looked>>
    BY <1>3 DEF AppendRanked
  <2>2. RetTypeOK'
    BY <1>1, <2>1, RetTypes DEF RetTypeOK
  <2>3. RecentExact' /\ AnswerFull'
    BY <1>1, <2>1, RetTypes, RecentStays DEF AnswerFull
  <2>. QED  BY <1>1, <2>1, <2>2, <2>3, RetTypes DEF RetInv, Distinct
<1>. QED  BY <1>2, <1>3

(* Nothing happens. *)
LEMMA RetStutter ==
  ASSUME RetInv, UNCHANGED retVars
  PROVE  RetInv'
<1>1. /\ retAt' = retAt /\ topK' = topK /\ history' = history /\ candidates' = candidates
      /\ selected' = selected /\ looked' = looked /\ ranked' = ranked /\ recent' = recent
      /\ answer' = answer /\ hits' = hits
  BY DEF retVars
<1>2. Reranked' = Reranked
  BY <1>1 DEF Reranked
<1>3. RetTypeOK' /\ RecentExact' /\ AnswerFull'
  <2>1. RetTypeOK /\ AnswerFull /\ RecentExact
    BY DEF RetInv
  <2>2. RetTypeOK'
    BY <1>1, <2>1 DEF RetTypeOK
  <2>3. AnswerFull'
    BY <1>1, <2>1 DEF AnswerFull, FetchK, NearDuplicate
  <2>. QED  BY <1>1, <2>1, <2>2, <2>3, RecentStays
<1>4. \A i : Sifted(i)' <=> Sifted(i)
  BY <1>1 DEF Sifted, NearDuplicate
<1>. QED  BY <1>1, <1>2, <1>3, <1>4 DEF RetInv, Distinct

(* The invariant holds in every state of a question. *)
THEOREM RetCorrect == RetSpec => []RetInv
<1>1. RetInv /\ [RetNext]_retVars => RetInv'
  BY RetrieveKeeps, SearchKeeps, RerankKeeps, SelectKeeps, MmrKeeps, DedupeKeeps,
     MergeKeeps, AppendKeeps, RetStutter DEF RetNext
<1>. QED  BY RetInitInv, <1>1, PTL DEF RetSpec

(* No chunk is in an answer twice, whatever the store returned, whichever    *)
(* way top_k were chosen and whether or not a turn was ranked as well.       *)
THEOREM AnswersDistinct == RetSpec => []AnswerDistinct
<1>1. RetInv => AnswerDistinct
  BY DEF RetInv, Distinct, AnswerDistinct
<1>. QED  BY RetCorrect, <1>1, PTL

(* The turns in front are as many as asked for, in order, and the newest but   *)
(* for as many as the conversation has beyond the window: exactly the newest   *)
(* if it fits (recent_turns 145-175).                                         *)
THEOREM TurnsAreNewest == RetSpec => []RecentExact
<1>1. RetInv => RecentExact
  BY DEF RetInv
<1>. QED  BY RetCorrect, <1>1, PTL

(* No stage starves the next: of whatever the search returned top_k are        *)
(* ranked, or all, near-duplicates and wordless chunks of the fallback apart   *)
(* (retrieve 65, 84; mmr_select 36-68).                                       *)
THEOREM AnswersFull == RetSpec => []AnswerFull
<1>1. RetInv => AnswerFull
  BY DEF RetInv
<1>. QED  BY RetCorrect, <1>1, PTL

-----------------------------------------------------------------------------
(* embed_documents: the invariant. *)

(* Text i is still to be batched, or is in the batch at hand. *)
Queued(i) ==
  \E j \in 1..Len(missed) :
    missed[j] = i /\ (j >= at \/ \E b \in 1..Len(batch) : batch[b] = j)

(* Text i has its vector, or will be asked for. *)
Accounted(i) ==
  \/ vectors[i] # NoVector
  \/ embedAt = "lookup" /\ (i >= at \/ \E j \in 1..Len(missed) : missed[j] = i)
  \/ embedAt \in {"fill", "call", "store"} /\ Queued(i)
  \/ embedAt = "failed"

EmbedTypes ==
  /\ embedAt \in {"idle", "lookup", "fill", "call", "store", "failed", "done"}
  /\ texts \in Seq(Texts)
  /\ vectors \in [1..Len(texts) -> Texts \cup {NoVector}]
  /\ missed \in Seq(1..Len(texts))
  /\ batch \in Seq(1..Len(missed)) /\ fetched \in Seq(Texts)
  /\ at \in Nat \ {0} /\ load \in Nat

(* batch_tokens is what the batch weighs. *)
Weighed ==
  /\ \E sum \in RunningSums(batch, load) : sum[Len(batch)] = load
  /\ Len(batch) > 1 => load <= BatchTokens

(* The vectors fetched are those of the texts still to be stored. *)
Matched ==
  /\ Len(batch) >= 1 /\ Len(fetched) = Len(batch)
  /\ \A j \in 1..Len(batch) : fetched[j] = texts[Absolute(j)]

EmbedInv ==
  /\ EmbedTypes
  /\ \A i \in 1..Len(texts) : vectors[i] \in {texts[i], NoVector} /\ Accounted(i)
  /\ embedAt \notin {"fill", "call", "store"} => batch = <<>>
  /\ Len(batch) <= BatchItems
  /\ embedAt = "call" => Len(batch) >= 1
  /\ IF embedAt = "store" THEN Matched ELSE Weighed

(* The check for missing vectors at the end of embed_documents never fires:  *)
(* every text was in the cache or in a batch that was answered (140-142).    *)
NothingMissing ==
  embedAt = "fill" /\ at > Len(missed) /\ batch = <<>> =>
    \A i \in 1..Len(texts) : vectors[i] # NoVector

(* Sorting the provider's data by index gives the vectors in the order the    *)
(* texts were sent in, whatever the order of the data.                       *)
LEMMA SortedBack ==
  ASSUME NEW sent \in Seq(Texts), NEW data \in Answers(sent)
  PROVE  /\ Len(data) = Len(sent)
         /\ \A k \in 1..Len(sent) : Ordered(data)[k] = sent[k]
<1>. DEFINE n == Len(sent)
<1>1. n \in Nat
  BY LenProperties
<1>2. PICK p \in [1..n -> 1..n] :
        /\ \A i, j \in 1..n : p[i] = p[j] => i = j
        /\ data = [k \in 1..n |-> [index |-> p[k], vector |-> sent[p[k]]]]
  BY DEF Answers
<1>. HIDE DEF n
<1>3. /\ DOMAIN data = 1..n
      /\ \A i \in 1..n : data[i].index = p[i] /\ data[i].vector = sent[p[i]]
  BY <1>2
<1>4. Len(data) = n
  <2>1. data \in Seq({data[k] : k \in 1..n})
    <3>1. data \in [1..n -> {data[k] : k \in 1..n}]
      BY <1>2
    <3>. QED  BY <1>1, <3>1, SeqDef
  <2>. QED  BY <1>1, <1>3, <2>1, LenProperties
<1>5. ASSUME NEW k \in 1..n PROVE \E i \in 1..n : p[i] = k
  <2>1. p \in Injection(1..n, 1..n)
    BY <1>2 DEF Injection, IsInjective
  <2>2. IsFiniteSet(1..n)
    BY <1>1, FS_Interval
  <2>3. p \in Surjection(1..n, 1..n)
    BY <2>1, <2>2, FS_Injection
  <2>. QED  BY <2>3 DEF Surjection
<1>6. ASSUME NEW k \in 1..n PROVE Ordered(data)[k] = sent[k]
  <2>. DEFINE i == CHOOSE j \in 1..n : data[j].index = k
  <2>1. \E j \in 1..n : data[j].index = k
    <3>1. PICK j \in 1..n : p[j] = k
      BY <1>5
    <3>2. data[j].index = k
      BY <1>3, <3>1
    <3>. QED  BY <3>2
  <2>2. i \in 1..n /\ data[i].index = k
    BY <2>1
  <2>3. Ordered(data)[k] = data[i].vector
    BY <1>4 DEF Ordered
  <2>. HIDE DEF i
  <2>4. p[i] = k /\ data[i].vector = sent[p[i]]
    BY <1>3, <2>2
  <2>. QED  BY <2>3, <2>4
<1>. QED  BY <1>4, <1>6 DEF n

(* The parts of the invariant a step needs. *)
LEMMA EmbedFacts ==
  ASSUME EmbedInv
  PROVE  /\ Len(texts) \in Nat /\ Len(missed) \in Nat /\ Len(batch) \in Nat
         /\ \A i \in 1..Len(texts) : texts[i] \in Texts /\ texts[i] # NoVector
         /\ \A j \in 1..Len(missed) : missed[j] \in 1..Len(texts)
         /\ \A b \in 1..Len(batch) : batch[b] \in 1..Len(missed)
         /\ at \in Nat \ {0} /\ load \in Nat
         /\ BatchItems \in Nat \ {0} /\ BatchTokens \in Nat
         /\ \A j \in 1..Len(missed) : Tokens(texts[missed[j]]) \in Nat
<1>1. /\ texts \in Seq(Texts) /\ missed \in Seq(1..Len(texts)) /\ batch \in Seq(1..Len(missed))
      /\ at \in Nat \ {0} /\ load \in Nat
  BY DEF EmbedInv, EmbedTypes
<1>2. /\ NoVector \notin Texts /\ TokensOf \in [Texts -> Nat] /\ InputLimit \in Nat
      /\ BatchItems \in Nat \ {0} /\ BatchTokens \in Nat
  BY EmbedderAssumption
<1>3. \A i \in 1..Len(texts) : texts[i] \in Texts /\ texts[i] # NoVector
  BY <1>1, <1>2, ElementOfSeq
<1>4. \A j \in 1..Len(missed) : missed[j] \in 1..Len(texts)
  BY <1>1, ElementOfSeq
<1>5. \A b \in 1..Len(batch) : batch[b] \in 1..Len(missed)
  BY <1>1, ElementOfSeq
<1>6. \A j \in 1..Len(missed) : Tokens(texts[missed[j]]) \in Nat
  BY <1>2, <1>3, <1>4 DEF Tokens
<1>7. Len(texts) \in Nat /\ Len(missed) \in Nat /\ Len(batch) \in Nat
  BY <1>1, LenProperties
<1>. QED  BY <1>1, <1>2, <1>3, <1>4, <1>5, <1>6, <1>7

(* An empty batch weighs nothing. *)
LEMMA EmptyWeighed ==
  ASSUME batch = <<>>, load = 0
  PROVE  Weighed
<1>. DEFINE sum == [j \in 0..0 |-> 0]
<1>1. Len(batch) = 0 /\ 1..0 = {} /\ 0..0 = {0}
  OBVIOUS
<1>2. sum \in RunningSums(batch, load) /\ sum[Len(batch)] = load
  BY <1>1 DEF RunningSums
<1>. QED  BY <1>1, <1>2 DEF Weighed

(* Nor does one that was emptied. *)
LEMMA EmptyAfter ==
  ASSUME batch' = <<>>, load' = 0
  PROVE  Weighed'
<1>. DEFINE sum == [j \in 0..0 |-> 0]
<1>1. Len(batch') = 0 /\ 1..0 = {} /\ 0..0 = {0}
  OBVIOUS
<1>2. sum \in RunningSums(batch, load)' /\ sum[Len(batch')] = load'
  BY <1>1 DEF RunningSums
<1>. QED  BY <1>1, <1>2 DEF Weighed

(* At first there is nothing. *)
LEMMA EmbedInitInv == EmbedInit => EmbedInv
<1>. SUFFICES ASSUME EmbedInit PROVE EmbedInv
  OBVIOUS
<1>1. /\ embedAt = "idle" /\ texts = <<>> /\ vectors = <<>> /\ missed = <<>> /\ at = 1
      /\ batch = <<>> /\ fetched = <<>> /\ load = 0
  BY DEF EmbedInit
<1>2. /\ Len(<<>>) = 0 /\ 1..0 = {} /\ \A S : <<>> \in Seq(S)
  OBVIOUS
<1>3. <<>> \in [1..Len(<<>>) -> Texts \cup {NoVector}]
  BY <1>2
<1>4. EmbedTypes
  BY <1>1, <1>2, <1>3 DEF EmbedTypes
<1>5. Weighed
  BY <1>1, EmptyWeighed
<1>6. BatchItems \in Nat
  BY EmbedderAssumption
<1>. QED  BY <1>1, <1>2, <1>4, <1>5, <1>6 DEF EmbedInv

(* A list of texts comes in. *)
LEMMA DocumentsKeep ==
  ASSUME EmbedInv, NEW n \in 1..MaxList, NEW list \in [1..n -> Texts], EmbedDocuments(list)
  PROVE  EmbedInv'
<1>1. /\ texts' = list /\ vectors' = [i \in 1..Len(list) |-> NoVector] /\ missed' = <<>> /\ at' = 1
      /\ embedAt' = "lookup" /\ UNCHANGED <<batch, fetched, load>> /\ batch = <<>>
      /\ embedAt # "store" /\ fetched \in Seq(Texts)
  BY DEF EmbedDocuments, EmbedInv, EmbedTypes
<1>2. n \in Nat
  BY EmbedderAssumption
<1>3. list \in Seq(Texts) /\ Len(list) = n
  <2>1. list \in Seq(Texts)
    BY <1>2, SeqDef
  <2>. QED  BY <1>2, <2>1, LenProperties
<1>4. /\ Len(<<>>) = 0 /\ 1..0 = {} /\ \A S : <<>> \in Seq(S)
  OBVIOUS
<1>5. EmbedTypes'
  BY <1>1, <1>3, <1>4, EmbedFacts DEF EmbedTypes
<1>6. \A i \in 1..Len(texts') : vectors'[i] \in {texts'[i], NoVector} /\ Accounted(i)'
  BY <1>1, <1>2, <1>3 DEF Accounted
<1>7. Weighed'
  <2>1. Len(batch) = 0 /\ Weighed
    BY <1>1, <1>4 DEF EmbedInv
  <2>2. load = 0
    BY <2>1 DEF Weighed, RunningSums
  <2>3. Len(batch') = 0 /\ load' = 0 /\ 0..0 = {0}
    BY <1>1, <2>1, <2>2
  <2>4. [j \in 0..0 |-> 0] \in RunningSums(batch, load)'
    BY <1>4, <2>3 DEF RunningSums
  <2>5. [j \in 0..0 |-> 0][Len(batch')] = load'
    BY <2>3
  <2>6. ~(Len(batch') > 1)
    BY <2>3
  <2>. QED  BY <2>4, <2>5, <2>6 DEF Weighed
<1>8. Len(batch') <= BatchItems
  BY <1>1, <1>4, EmbedFacts
<1>. QED  BY <1>1, <1>5, <1>6, <1>7, <1>8 DEF EmbedInv

(* The batch at hand weighs what it did, if neither it nor its texts change. *)
LEMMA WeighedStays ==
  ASSUME EmbedInv, embedAt # "store", texts' = texts, batch' = batch, load' = load,
         \A j \in 1..Len(missed) : missed'[j] = missed[j]
  PROVE  Weighed'
<1>1. PICK sum \in RunningSums(batch, load) : sum[Len(batch)] = load
  BY DEF EmbedInv, Weighed
<1>2. \A j \in 1..Len(batch) : texts'[missed'[batch[j]]] = texts[missed[batch[j]]]
  BY EmbedFacts
<1>3. sum \in RunningSums(batch, load)'
  BY <1>1, <1>2 DEF RunningSums, Tokens
<1>4. Len(batch) > 1 => load <= BatchTokens
  BY DEF EmbedInv, Weighed
<1>. QED  BY <1>1, <1>3, <1>4 DEF Weighed

(* A text is found in the cache, or noted as missing. *)
LEMMA LookupKeeps ==
  ASSUME EmbedInv, Lookup
  PROVE  EmbedInv'
<1>1. /\ embedAt = "lookup" /\ at <= Len(texts) /\ at' = at + 1
      /\ UNCHANGED <<embedAt, texts, batch, fetched, load>> /\ batch = <<>>
      /\ \/ vectors' = [vectors EXCEPT ![at] = texts[at]] /\ UNCHANGED missed
         \/ missed' = Append(missed, at) /\ UNCHANGED vectors
  BY DEF Lookup, EmbedInv
<1>2. /\ at \in 1..Len(texts) /\ texts[at] \in Texts
      /\ vectors \in [1..Len(texts) -> Texts \cup {NoVector}]
      /\ missed \in Seq(1..Len(texts)) /\ texts \in Seq(Texts) /\ fetched \in Seq(Texts)
  BY <1>1, EmbedFacts DEF EmbedInv, EmbedTypes
<1>3. /\ Len(<<>>) = 0 /\ 1..0 = {} /\ \A S : <<>> \in Seq(S)
  OBVIOUS
<1>4. /\ missed' \in Seq(1..Len(texts))
      /\ \A j \in 1..Len(missed) : j \in 1..Len(missed') /\ missed'[j] = missed[j]
  <2>1. CASE missed' = missed
    BY <1>2, <2>1
  <2>2. CASE missed' = Append(missed, at)
    BY <1>2, <2>2, Appending, EmbedFacts
  <2>. QED  BY <1>1, <2>1, <2>2
<1>5. vectors' \in [1..Len(texts) -> Texts \cup {NoVector}]
  BY <1>1, <1>2
<1>6. EmbedTypes'
  BY <1>1, <1>2, <1>3, <1>4, <1>5, EmbedFacts DEF EmbedTypes
<1>7. Weighed'
  BY <1>1, <1>4, WeighedStays
<1>8. ASSUME NEW i \in 1..Len(texts')
      PROVE  vectors'[i] \in {texts'[i], NoVector} /\ Accounted(i)'
  <2>1. i \in 1..Len(texts) /\ vectors[i] \in {texts[i], NoVector} /\ Accounted(i)
    BY <1>1 DEF EmbedInv
  <2>2. vectors'[i] \in {texts[i], vectors[i]} /\ (i # at => vectors'[i] = vectors[i])
    BY <1>1, <1>2, <2>1
  <2>3. vectors'[i] \in {texts'[i], NoVector}
    BY <1>1, <2>1, <2>2
  <2>4. CASE i = at
    <3>1. CASE vectors' = [vectors EXCEPT ![at] = texts[at]]
      <4>1. vectors'[i] # NoVector
        BY <1>2, <2>4, <3>1, EmbedFacts
      <4>. QED  BY <2>3, <4>1 DEF Accounted
    <3>2. CASE missed' = Append(missed, at)
      <4>1. Len(missed') \in 1..Len(missed') /\ missed'[Len(missed')] = at
        BY <1>2, <3>2, Appending, EmbedFacts
      <4>. QED  BY <1>1, <2>3, <2>4, <4>1 DEF Accounted
    <3>. QED  BY <1>1, <3>1, <3>2
  <2>5. CASE i # at
    <3>1. CASE i >= at
      <4>1. i >= at'
        BY <1>1, <2>1, <2>5, <3>1, EmbedFacts
      <4>. QED  BY <1>1, <2>3, <4>1 DEF Accounted
    <3>2. CASE ~(i >= at)
      <4>1. vectors[i] # NoVector \/ \E j \in 1..Len(missed) : missed[j] = i
        BY <1>1, <2>1, <3>2 DEF Accounted
      <4>2. vectors'[i] # NoVector \/ \E j \in 1..Len(missed') : missed'[j] = i
        BY <1>4, <2>2, <2>5, <4>1
      <4>. QED  BY <1>1, <2>3, <4>2 DEF Accounted
    <3>. QED  BY <3>1, <3>2
  <2>. QED  BY <2>4, <2>5
<1>9. Len(batch') <= BatchItems
  BY <1>1 DEF EmbedInv
<1>. QED  BY <1>1, <1>6, <1>7, <1>8, <1>9 DEF EmbedInv

(* Every missing text waits to be batched. *)
LEMMA LookupDoneKeeps ==
  ASSUME EmbedInv, LookupDone
  PROVE  EmbedInv'
<1>1. /\ embedAt = "lookup" /\ at > Len(texts) /\ at' = 1 /\ embedAt' = "fill"
      /\ UNCHANGED <<texts, vectors, missed, batch, fetched, load>>
  BY DEF LookupDone
<1>2. EmbedTypes'
  BY <1>1 DEF EmbedInv, EmbedTypes
<1>3. Weighed'
  BY <1>1, WeighedStays
<1>4. ASSUME NEW i \in 1..Len(texts')
      PROVE  vectors'[i] \in {texts'[i], NoVector} /\ Accounted(i)'
  <2>1. i \in 1..Len(texts) /\ vectors[i] \in {texts[i], NoVector} /\ Accounted(i)
    BY <1>1 DEF EmbedInv
  <2>2. vectors[i] # NoVector \/ \E j \in 1..Len(missed) : missed[j] = i
    BY <1>1, <2>1, EmbedFacts DEF Accounted
  <2>3. CASE vectors[i] # NoVector
    BY <1>1, <2>1, <2>3 DEF Accounted
  <2>4. CASE \E j \in 1..Len(missed) : missed[j] = i
    <3>1. PICK j \in 1..Len(missed) : missed[j] = i
      BY <2>4
    <3>2. j >= at' /\ j \in 1..Len(missed') /\ missed'[j] = i
      BY <1>1, <3>1
    <3>3. Queued(i)'
      BY <3>2 DEF Queued
    <3>. QED  BY <1>1, <2>1, <3>3 DEF Accounted
  <2>. QED  BY <2>2, <2>3, <2>4
<1>5. Len(batch') <= BatchItems
  BY <1>1 DEF EmbedInv
<1>. QED  BY <1>1, <1>2, <1>3, <1>4, <1>5 DEF EmbedInv

(* One text more weighs what it weighs more. *)
LEMMA WeighedMore ==
  ASSUME EmbedInv, embedAt # "store", at <= Len(missed), ~BatchFull(at),
         texts' = texts, missed' = missed, batch' = Append(batch, at),
         load' = load + Tokens(texts[missed[at]])
  PROVE  Weighed'
<1>1. /\ at \in 1..Len(missed) /\ Tokens(texts[missed[at]]) \in Nat
      /\ load \in Nat /\ load' \in Nat /\ load <= load' /\ batch \in Seq(1..Len(missed))
  <2>1. at \in 1..Len(missed) /\ load \in Nat
    BY EmbedFacts
  <2>2. Tokens(texts[missed[at]]) \in Nat
    BY <2>1, EmbedFacts
  <2>3. batch \in Seq(1..Len(missed))
    BY DEF EmbedInv, EmbedTypes
  <2>. QED  BY <2>1, <2>2, <2>3
<1>2. /\ Len(batch) \in Nat /\ Len(batch') = Len(batch) + 1
      /\ \A j \in 1..Len(batch) : batch'[j] = batch[j]
      /\ batch'[Len(batch) + 1] = at
  BY <1>1, Appending
<1>. DEFINE n == Len(batch)
<1>3. PICK sum \in RunningSums(batch, load) : sum[n] = load
  BY DEF EmbedInv, Weighed
<1>4. /\ sum \in [0..n -> 0..load] /\ sum[0] = 0
      /\ \A j \in 1..n : sum[j] = sum[j - 1] + Tokens(texts[missed[batch[j]]])
  BY <1>3 DEF RunningSums
<1>. DEFINE more == [j \in 0..n + 1 |-> IF j <= n THEN sum[j] ELSE load']
<1>5. /\ \A j \in 0..n : more[j] = sum[j]
      /\ more[n + 1] = load'
  BY <1>2
<1>6. more \in [0..n + 1 -> 0..load']
  <2>1. ASSUME NEW j \in 0..n + 1 PROVE more[j] \in 0..load'
    <3>1. CASE j \in 0..n
      <4>1. sum[j] \in 0..load
        BY <1>4, <3>1
      <4>. QED  BY <1>1, <1>5, <3>1, <4>1
    <3>2. CASE j = n + 1
      BY <1>1, <1>5, <3>2
    <3>. QED  BY <1>2, <3>1, <3>2
  <2>2. DOMAIN more = 0..n + 1
    OBVIOUS
  <2>. QED  BY <2>1, <2>2
<1>7. 0 \in 0..n /\ n \in 0..n
  BY <1>2
<1>. HIDE DEF more
<1>8. ASSUME NEW j \in 1..n + 1
      PROVE  more[j] = more[j - 1] + Tokens(texts[missed[batch'[j]]])
  <2>1. CASE j \in 1..n
    <3>1. j \in 0..n /\ j - 1 \in 0..n
      BY <1>2, <2>1
    <3>. QED  BY <1>2, <1>4, <1>5, <2>1, <3>1
  <2>2. CASE j = n + 1
    <3>1. j - 1 = n
      BY <1>2, <2>2
    <3>. QED  BY <1>2, <1>3, <1>5, <1>7, <2>2, <3>1
  <2>. QED  BY <1>2, <2>1, <2>2
<1>9. more \in RunningSums(batch, load)' /\ more[Len(batch')] = load'
  <2>1. \A t : Tokens(t)' = Tokens(t)
    BY DEF Tokens
  <2>2. more[0] = 0
    BY <1>4, <1>5, <1>7
  <2>3. \A j \in 1..n + 1 : more[j] = more[j - 1] + Tokens(texts'[missed'[batch'[j]]])
    BY <1>8
  <2>. HIDE DEF n
  <2>4. Len(batch') = n + 1
    BY <1>2 DEF n
  <2>. QED  BY <1>5, <1>6, <2>2, <2>3, <2>4 DEF RunningSums, Tokens
<1>10. Len(batch') > 1 => load' <= BatchTokens
  <2>1. SUFFICES ASSUME Len(batch') > 1 PROVE load' <= BatchTokens
    OBVIOUS
  <2>2. batch # <<>>
    <3>1. Len(batch) # 0
      BY <1>2, <2>1
    <3>. QED  BY <3>1
  <2>3. ~(load + Tokens(texts[missed[at]]) > BatchTokens)
    BY <2>2 DEF BatchFull
  <2>4. BatchTokens \in Nat
    BY EmbedderAssumption
  <2>. QED  BY <1>1, <2>3, <2>4
<1>. QED  BY <1>9, <1>10 DEF Weighed

(* A text joins the batch, or the batch is sent, or all are answered. *)
LEMMA FillKeeps ==
  ASSUME EmbedInv, Fill
  PROVE  EmbedInv'
<1>1. embedAt = "fill" /\ UNCHANGED <<texts, vectors, missed, fetched>>
  BY DEF Fill
<1>2. /\ texts \in Seq(Texts) /\ vectors \in [1..Len(texts) -> Texts \cup {NoVector}]
      /\ missed \in Seq(1..Len(texts)) /\ batch \in Seq(1..Len(missed))
      /\ fetched \in Seq(Texts) /\ Len(batch) <= BatchItems
  BY DEF EmbedInv, EmbedTypes
<1>3. \A i \in 1..Len(texts) : /\ vectors[i] \in {texts[i], NoVector}
                               /\ vectors[i] # NoVector \/ Queued(i)
  BY <1>1 DEF EmbedInv, Accounted
<1>4. CASE /\ at <= Len(missed) /\ ~BatchFull(at) /\ batch' = Append(batch, at)
           /\ load' = load + Tokens(texts[missed[at]]) /\ at' = at + 1 /\ UNCHANGED embedAt
  <2>1. at \in 1..Len(missed) /\ Tokens(texts[missed[at]]) \in Nat
    BY SMTT(30), <1>4, EmbedFacts
  <2>2. /\ batch' \in Seq(1..Len(missed)) /\ Len(batch') = Len(batch) + 1
        /\ \A b \in 1..Len(batch) : batch'[b] = batch[b]
        /\ batch'[Len(batch) + 1] = at /\ Len(batch) \in Nat
    BY <1>2, <1>4, <2>1, Appending
  <2>3. EmbedTypes'
    <3>1. at \in Nat \ {0} /\ load \in Nat
      BY EmbedFacts
    <3>2. at' \in Nat \ {0} /\ load' \in Nat
      BY <1>4, <2>1, <3>1
    <3>. QED  BY <1>1, <1>2, <1>4, <2>2, <3>2 DEF EmbedTypes
  <2>4. Weighed'
    BY <1>1, <1>4, WeighedMore
  <2>5. ASSUME NEW i \in 1..Len(texts), Queued(i) PROVE Queued(i)'
    <3>1. PICK j \in 1..Len(missed) :
            missed[j] = i /\ (j >= at \/ \E b \in 1..Len(batch) : batch[b] = j)
      BY <2>5 DEF Queued
    <3>2. j >= at + 1 \/ \E b \in 1..Len(batch') : batch'[b] = j
      <4>1. CASE \E b \in 1..Len(batch) : batch[b] = j
        <5>1. PICK b \in 1..Len(batch) : batch[b] = j
          BY <4>1
        <5>2. b \in 1..Len(batch')
          BY <2>2
        <5>. QED  BY <2>2, <5>1, <5>2
      <4>2. CASE j = at
        BY <2>2, <4>2
      <4>3. CASE j >= at /\ j # at
        BY <2>1, <4>3
      <4>. QED  BY <3>1, <4>1, <4>2, <4>3
    <3>. QED  BY <1>1, <1>4, <3>1, <3>2 DEF Queued
  <2>6. \A i \in 1..Len(texts') : vectors'[i] \in {texts'[i], NoVector} /\ Accounted(i)'
    BY <1>1, <1>3, <1>4, <2>5 DEF Accounted
  <2>7. Len(batch') <= BatchItems
    BY <1>4, <2>2, EmbedFacts DEF BatchFull
  <2>. QED  BY <1>1, <1>4, <2>3, <2>4, <2>6, <2>7 DEF EmbedInv
<1>5. CASE UNCHANGED <<batch, load, at>>
  <2>1. embedAt' \in {"call", "failed", "done"}
    BY <1>5 DEF Fill
  <2>2. EmbedTypes'
    BY <1>1, <1>2, <1>5, <2>1, EmbedFacts DEF EmbedTypes
  <2>3. Weighed'
    BY <1>1, <1>5, WeighedStays
  <2>4. \A i : Queued(i) => Queued(i)'
    BY <1>1, <1>5 DEF Queued
  <2>5. CASE embedAt' = "call"
    <3>1. IF at <= Len(missed) THEN BatchFull(at) ELSE batch # <<>>
      BY <1>4, <1>5, <2>5 DEF Fill
    <3>2. Len(batch) >= 1
      <4>1. batch # <<>> => Len(batch) >= 1
        BY <1>2, EmptySeq, EmbedFacts
      <4>. QED  BY <3>1, <4>1, EmbedFacts DEF BatchFull
    <3>3. \A i \in 1..Len(texts') : vectors'[i] \in {texts'[i], NoVector} /\ Accounted(i)'
      BY <1>1, <1>3, <2>4, <2>5 DEF Accounted
    <3>. QED  BY <1>1, <1>2, <1>5, <2>2, <2>3, <2>5, <3>2, <3>3 DEF EmbedInv
  <2>6. CASE embedAt' # "call"
    <3>1. at > Len(missed) /\ batch = <<>>
      BY <1>1, <1>5, <2>1, <2>6 DEF Fill
    <3>2. \A i \in 1..Len(texts) : vectors[i] # NoVector
      <4>1. 1..Len(<<>>) = {}
        OBVIOUS
      <4>2. \A i : ~Queued(i)
        BY <3>1, <4>1, EmbedFacts DEF Queued
      <4>. QED  BY <1>3, <4>2
    <3>3. \A i \in 1..Len(texts') : vectors'[i] \in {texts'[i], NoVector} /\ Accounted(i)'
      BY <1>1, <1>3, <3>2 DEF Accounted
    <3>. QED  BY <1>1, <1>2, <1>5, <2>1, <2>2, <2>3, <2>6, <3>1, <3>3 DEF EmbedInv
  <2>. QED  BY <2>5, <2>6
<1>. QED  BY <1>4, <1>5 DEF Fill

(* The vectors come back in the order of the batch, or the call fails. *)
LEMMA CallKeeps ==
  ASSUME EmbedInv, CallProvider
  PROVE  EmbedInv'
<1>. DEFINE sent == [j \in 1..Len(batch) |-> texts[Absolute(j)]]
<1>1. /\ embedAt = "call" /\ UNCHANGED <<texts, vectors, missed, at>>
      /\ \/ /\ \E data \in Answers(sent) : fetched' = Ordered(data)
            /\ embedAt' = "store" /\ UNCHANGED <<batch, load>>
         \/ embedAt' = "failed" /\ batch' = <<>> /\ load' = 0 /\ UNCHANGED fetched
  BY DEF CallProvider
<1>2. /\ texts \in Seq(Texts) /\ vectors \in [1..Len(texts) -> Texts \cup {NoVector}]
      /\ missed \in Seq(1..Len(texts)) /\ batch \in Seq(1..Len(missed))
      /\ fetched \in Seq(Texts) /\ 1 <= Len(batch) /\ Len(batch) <= BatchItems
  BY <1>1 DEF EmbedInv, EmbedTypes
<1>3. \A i \in 1..Len(texts) : /\ vectors[i] \in {texts[i], NoVector}
                               /\ vectors[i] # NoVector \/ Queued(i)
  BY <1>1 DEF EmbedInv, Accounted
<1>4. CASE embedAt' = "failed" /\ batch' = <<>> /\ load' = 0 /\ UNCHANGED fetched
  <2>1. /\ Len(<<>>) = 0 /\ \A S : <<>> \in Seq(S)
    OBVIOUS
  <2>2. EmbedTypes'
    BY <1>1, <1>2, <1>4, <2>1, EmbedFacts DEF EmbedTypes
  <2>3. \A i \in 1..Len(texts') : vectors'[i] \in {texts'[i], NoVector} /\ Accounted(i)'
    BY <1>1, <1>3, <1>4 DEF Accounted
  <2>4. Weighed'
    BY <1>4, EmptyAfter
  <2>. QED  BY <1>4, <2>1, <2>2, <2>3, <2>4, EmbedFacts DEF EmbedInv
<1>5. ASSUME NEW data \in Answers(sent), fetched' = Ordered(data),
             embedAt' = "store", UNCHANGED <<batch, load>>
      PROVE  EmbedInv'
  <2>1. /\ sent \in Seq(Texts) /\ Len(sent) = Len(batch)
        /\ \A j \in 1..Len(batch) : sent[j] = texts[Absolute(j)]
    <3>1. Len(batch) \in Nat /\ \A j \in 1..Len(batch) : texts[Absolute(j)] \in Texts
      BY EmbedFacts DEF Absolute
    <3>2. sent \in [1..Len(batch) -> Texts]
      BY <3>1
    <3>3. sent \in Seq(Texts)
      BY <3>1, <3>2, SeqDef
    <3>. QED  BY <3>1, <3>2, <3>3, LenProperties
  <2>. HIDE DEF sent
  <2>2. \A j \in 1..Len(batch) : Ordered(data)[j] = texts[Absolute(j)]
    BY <2>1, SortedBack
  <2>3. Ordered(data) \in [1..Len(batch) -> Texts]
    <3>1. Len(data) = Len(batch)
      BY <2>1, SortedBack
    <3>2. DOMAIN Ordered(data) = 1..Len(batch)
          /\ Ordered(data) = [k \in 1..Len(batch) |-> Ordered(data)[k]]
      BY <3>1 DEF Ordered
    <3>3. \A j \in 1..Len(batch) : Ordered(data)[j] \in Texts
      BY <2>2, EmbedFacts DEF Absolute
    <3>. QED  BY <3>2, <3>3
  <2>4. Ordered(data) \in Seq(Texts) /\ Len(Ordered(data)) = Len(batch)
    <3>1. Len(batch) \in Nat
      BY <1>2, LenProperties
    <3>2. Ordered(data) \in Seq(Texts)
      BY <2>3, <3>1, SeqDef
    <3>. QED  BY <2>3, <3>1, <3>2, LenProperties
  <2>5. EmbedTypes'
    BY <1>1, <1>2, <1>5, <2>4, EmbedFacts DEF EmbedTypes
  <2>6. \A i \in 1..Len(texts') : vectors'[i] \in {texts'[i], NoVector} /\ Accounted(i)'
    <3>1. \A i : Queued(i) => Queued(i)'
      BY <1>1, <1>5 DEF Queued
    <3>. QED  BY <1>1, <1>3, <1>5, <3>1 DEF Accounted
  <2>7. Matched'
    BY <1>1, <1>2, <1>5, <2>2, <2>4 DEF Matched, Absolute
  <2>. QED  BY <1>2, <1>5, <2>5, <2>6, <2>7 DEF EmbedInv
<1>. QED  BY <1>1, <1>4, <1>5

(* The next vector goes to the text it was computed from. *)
LEMMA StoreKeeps ==
  ASSUME EmbedInv, Store
  PROVE  EmbedInv'
<1>. DEFINE i1 == missed[batch[1]]
<1>1. /\ embedAt = "store" /\ UNCHANGED <<texts, missed, at>>
      /\ vectors' = [vectors EXCEPT ![i1] = Head(fetched)]
      /\ batch' = Tail(batch) /\ fetched' = Tail(fetched)
      /\ IF Len(batch) > 1 THEN UNCHANGED <<embedAt, load>> ELSE embedAt' = "fill" /\ load' = 0
  BY DEF Store, Absolute
<1>2. /\ texts \in Seq(Texts) /\ vectors \in [1..Len(texts) -> Texts \cup {NoVector}]
      /\ missed \in Seq(1..Len(texts)) /\ batch \in Seq(1..Len(missed))
      /\ fetched \in Seq(Texts) /\ Len(batch) <= BatchItems
      /\ 1 <= Len(batch) /\ Len(fetched) = Len(batch)
      /\ \A j \in 1..Len(batch) : fetched[j] = texts[missed[batch[j]]]
  BY <1>1 DEF EmbedInv, EmbedTypes, Matched, Absolute
<1>3. Len(batch) \in Nat /\ 1 \in 1..Len(batch) /\ batch # <<>> /\ fetched # <<>>
  <2>1. Len(<<>>) = 0
    OBVIOUS
  <2>. QED  BY <1>2, <2>1, LenProperties
<1>4. i1 \in 1..Len(texts) /\ Head(fetched) = texts[i1] /\ texts[i1] \in Texts
  BY <1>2, <1>3, EmbedFacts
<1>5. /\ Tail(batch) \in Seq(1..Len(missed)) /\ Len(Tail(batch)) = Len(batch) - 1
      /\ \A j \in 1..Len(batch) - 1 : Tail(batch)[j] = batch[j + 1]
  BY <1>2, <1>3, HeadTailProperties
<1>6. /\ Tail(fetched) \in Seq(Texts) /\ Len(Tail(fetched)) = Len(batch) - 1
      /\ \A j \in 1..Len(batch) - 1 : Tail(fetched)[j] = fetched[j + 1]
  BY <1>2, <1>3, HeadTailProperties
<1>. HIDE DEF i1
<1>7. /\ vectors' \in [1..Len(texts) -> Texts \cup {NoVector}]
      /\ vectors'[i1] = texts[i1]
      /\ \A i \in 1..Len(texts) : i # i1 => vectors'[i] = vectors[i]
  BY <1>1, <1>2, <1>4
<1>8. EmbedTypes'
  <2>1. embedAt' \in {"store", "fill"} /\ load' \in Nat /\ at' \in Nat \ {0}
    BY <1>1, EmbedFacts
  <2>. QED  BY <1>1, <1>2, <1>5, <1>6, <1>7, <2>1 DEF EmbedTypes
<1>9. ASSUME NEW i \in 1..Len(texts)
      PROVE  vectors'[i] \in {texts[i], NoVector} /\ Accounted(i)'
  <2>0. vectors[i] \in {texts[i], NoVector} /\ (vectors[i] # NoVector \/ Queued(i))
    BY <1>1 DEF EmbedInv, Accounted
  <2>1. CASE i = i1
    BY <1>4, <1>7, <2>1, EmbedFacts DEF Accounted
  <2>2. CASE i # i1 /\ vectors[i] # NoVector
    BY <1>7, <2>0, <2>2 DEF Accounted
  <2>3. CASE i # i1 /\ Queued(i)
    <3>1. PICK j \in 1..Len(missed) :
            missed[j] = i /\ (j >= at \/ \E b \in 1..Len(batch) : batch[b] = j)
      BY <2>3 DEF Queued
    <3>2. ASSUME NEW b \in 1..Len(batch), batch[b] = j
          PROVE  \E c \in 1..Len(batch') : batch'[c] = j
      <4>1. b # 1
        BY <2>3, <3>1, <3>2 DEF i1
      <4>2. b - 1 \in 1..Len(batch) - 1 /\ (b - 1) + 1 = b
        BY <1>3, <4>1
      <4>. QED  BY <1>1, <1>5, <3>2, <4>2
    <3>3. Queued(i)'
      BY <1>1, <3>1, <3>2 DEF Queued
    <3>. QED  BY <1>1, <1>7, <2>0, <2>3, <3>3 DEF Accounted
  <2>. QED  BY <2>0, <2>1, <2>2, <2>3
<1>10. Len(batch') <= BatchItems
  BY <1>1, <1>2, <1>3, <1>5, EmbedFacts
<1>11. CASE Len(batch) > 1
  <2>1. embedAt' = "store"
    BY <1>1, <1>11
  <2>2. \A j \in 1..Len(batch) - 1 : fetched'[j] = texts'[missed'[batch'[j]]]
    <3>. SUFFICES ASSUME NEW j \in 1..Len(batch) - 1
                  PROVE  fetched'[j] = texts'[missed'[batch'[j]]]
      OBVIOUS
    <3>1. j + 1 \in 1..Len(batch)
      BY <1>3
    <3>2. fetched'[j] = fetched[j + 1] /\ batch'[j] = batch[j + 1]
      BY <1>1, <1>5, <1>6
    <3>3. fetched[j + 1] = texts[missed[batch[j + 1]]]
      BY <1>2, <3>1
    <3>. QED  BY <1>1, <3>2, <3>3
  <2>3. Len(batch') = Len(batch) - 1 /\ Len(fetched') = Len(batch) - 1 /\ Len(batch) - 1 >= 1
    BY <1>1, <1>3, <1>5, <1>6, <1>11
  <2>4. Matched'
    BY <2>2, <2>3 DEF Matched, Absolute
  <2>. QED  BY <1>1, <1>8, <1>9, <1>10, <2>1, <2>4 DEF EmbedInv
<1>12. CASE ~(Len(batch) > 1)
  <2>1. embedAt' = "fill" /\ load' = 0
    BY <1>1, <1>12
  <2>2. batch' = <<>>
    <3>1. Len(batch) = 1
      BY <1>2, <1>3, <1>12
    <3>2. Len(batch') = 0
      BY <1>1, <1>5, <3>1
    <3>. QED  BY <1>1, <1>5, <3>2, EmptySeq
  <2>3. Weighed'
    BY <2>1, <2>2, EmptyAfter
  <2>. QED  BY <1>1, <1>8, <1>9, <1>10, <2>1, <2>3 DEF EmbedInv
<1>. QED  BY <1>11, <1>12

(* Nothing happens. *)
LEMMA EmbedStutter ==
  ASSUME EmbedInv, UNCHANGED embedVars
  PROVE  EmbedInv'
<1>1. UNCHANGED <<embedAt, texts, vectors, missed, at, batch, fetched, load>>
  BY DEF embedVars
<1>2. EmbedTypes' /\ \A i : Accounted(i)' <=> Accounted(i)
  BY <1>1 DEF EmbedInv, EmbedTypes, Accounted, Queued
<1>3. CASE embedAt = "store"
  <2>1. Matched' <=> Matched
    BY <1>1 DEF Matched, Absolute
  <2>. QED  BY <1>1, <1>2, <1>3, <2>1 DEF EmbedInv
<1>4. CASE embedAt # "store"
  <2>1. Weighed'
    BY <1>1, <1>4, WeighedStays
  <2>. QED  BY <1>1, <1>2, <1>4, <2>1 DEF EmbedInv
<1>. QED  BY <1>3, <1>4

-----------------------------------------------------------------------------
(* The cache. *)

CacheOK ==
  /\ cache \in Seq(Texts) /\ Len(cache) <= CacheSize /\ Distinct(cache)
  /\ lists \in 0..MaxLists

(* A key taken out leaves the others, each as often as before. *)
LEMMA WithoutIt ==
  ASSUME NEW S, NEW c \in Seq(S), Distinct(c), NEW t
  PROVE  /\ Without(c, t) \in Seq(S) /\ Distinct(Without(c, t)) /\ t \notin Range(Without(c, t))
         /\ Len(Without(c, t)) = IF t \in Range(c) THEN Len(c) - 1 ELSE Len(c)
<1>1. Len(c) \in Nat /\ \A j \in 1..Len(c) : c[j] \in S
  BY LenProperties, ElementOfSeq
<1>2. CASE t \notin Range(c)
  BY <1>2 DEF Without
<1>3. CASE t \in Range(c)
  <2>. DEFINE i == CHOOSE j \in 1..Len(c) : c[j] = t
              w == Without(c, t)
              a == SubSeq(c, 1, i - 1)
              b == SubSeq(c, i + 1, Len(c))
  <2>1. i \in 1..Len(c) /\ c[i] = t
    <3>1. \E j \in 1..Len(c) : c[j] = t
      BY <1>3, MembersOfSeq
    <3>. QED  BY <3>1
  <2>2. w = a \o b
    BY <1>3 DEF Without, RemoveAt
  <2>. HIDE DEF i, w
  <2>3. /\ a \in Seq(S) /\ Len(a) = i - 1
        /\ \A j \in 1..i - 1 : a[j] = c[j]
    <3>1. 1 \in Int /\ i - 1 \in Int /\ \A j \in 1..i - 1 : c[j] \in S
      BY <1>1, <2>1
    <3>2. /\ a \in Seq(S) /\ Len(a) = IF 1 <= i - 1 THEN (i - 1) - 1 + 1 ELSE 0
          /\ \A j \in 1..(i - 1) - 1 + 1 : a[j] = c[1 + j - 1]
      BY <3>1, SubSeqProperties
    <3>3. (i - 1) - 1 + 1 = i - 1 /\ \A j \in 1..i - 1 : 1 + j - 1 = j
      BY <1>1, <2>1
    <3>. HIDE DEF a
    <3>4. \A j \in 1..i - 1 : a[j] = c[j]
      BY <3>2, <3>3
    <3>. QED  BY <1>1, <2>1, <3>2, <3>4
  <2>4. /\ b \in Seq(S) /\ Len(b) = Len(c) - i
        /\ \A j \in 1..Len(c) - i : b[j] = c[i + j]
    <3>1. i + 1 \in Int /\ Len(c) \in Int /\ \A j \in i + 1..Len(c) : c[j] \in S
      BY <1>1, <2>1
    <3>2. /\ b \in Seq(S) /\ Len(b) = IF i + 1 <= Len(c) THEN Len(c) - (i + 1) + 1 ELSE 0
          /\ \A j \in 1..Len(c) - (i + 1) + 1 : b[j] = c[i + 1 + j - 1]
      BY <3>1, SubSeqProperties
    <3>3. Len(c) - (i + 1) + 1 = Len(c) - i /\ \A j \in 1..Len(c) - i : i + 1 + j - 1 = i + j
      BY <1>1, <2>1
    <3>. HIDE DEF b
    <3>4. \A j \in 1..Len(c) - i : b[j] = c[i + j]
      BY <3>2, <3>3
    <3>. QED  BY <1>1, <2>1, <3>2, <3>4
  <2>. HIDE DEF a, b
  <2>5. /\ w \in Seq(S) /\ Len(w) = Len(a) + Len(b)
        /\ \A j \in 1..Len(a) + Len(b) : w[j] = IF j <= Len(a) THEN a[j] ELSE b[j - Len(a)]
    BY <2>2, <2>3, <2>4, ConcatProperties
  <2>6. Len(w) = Len(c) - 1
    BY <1>1, <2>1, <2>3, <2>4, <2>5
  <2>7. \A j \in 1..Len(w) : w[j] = IF j < i THEN c[j] ELSE c[j + 1]
    <3>. SUFFICES ASSUME NEW j \in 1..Len(w) PROVE w[j] = IF j < i THEN c[j] ELSE c[j + 1]
      OBVIOUS
    <3>1. CASE j < i
      <4>1. j <= Len(a) /\ j \in 1..i - 1
        BY <1>1, <2>1, <2>3, <3>1
      <4>. QED  BY <2>3, <2>5, <3>1, <4>1
    <3>2. CASE ~(j < i)
      <4>1. ~(j <= Len(a)) /\ j - Len(a) \in 1..Len(c) - i /\ i + (j - Len(a)) = j + 1
        BY <1>1, <2>1, <2>3, <2>6, <3>2
      <4>. QED  BY <2>4, <2>5, <3>2, <4>1
    <3>. QED  BY <3>1, <3>2
  <2>8. ASSUME NEW j \in 1..Len(w)
        PROVE  \E k \in 1..Len(c) : k # i /\ w[j] = c[k] /\ k = IF j < i THEN j ELSE j + 1
    BY <1>1, <2>1, <2>6, <2>7
  <2>9. Distinct(w)
    <3>. SUFFICES ASSUME NEW j \in 1..Len(w), NEW k \in 1..Len(w), w[j] = w[k] PROVE j = k
      BY DEF Distinct
    <3>1. PICK m \in 1..Len(c) : w[j] = c[m] /\ m = IF j < i THEN j ELSE j + 1
      BY <2>8
    <3>2. PICK n \in 1..Len(c) : w[k] = c[n] /\ n = IF k < i THEN k ELSE k + 1
      BY <2>8
    <3>3. m = n
      BY <3>1, <3>2 DEF Distinct
    <3>. QED  BY <1>1, <2>1, <2>6, <3>1, <3>2, <3>3
  <2>10. t \notin Range(w)
    <3>. SUFFICES ASSUME t \in Range(w) PROVE FALSE
      OBVIOUS
    <3>1. PICK j \in 1..Len(w) : w[j] = t
      BY <2>5, MembersOfSeq
    <3>2. PICK k \in 1..Len(c) : k # i /\ w[j] = c[k]
      BY <2>8
    <3>. QED  BY <2>1, <3>1, <3>2 DEF Distinct
  <2>. QED  BY <1>3, <2>5, <2>6, <2>9, <2>10 DEF w
<1>. QED  BY <1>2, <1>3

(* A key that is put becomes the last, once. *)
LEMMA MovedToEnd ==
  ASSUME NEW S, NEW c \in Seq(S), Distinct(c), NEW t \in S
  PROVE  /\ Append(Without(c, t), t) \in Seq(S) /\ Distinct(Append(Without(c, t), t))
         /\ Len(Append(Without(c, t), t)) = IF t \in Range(c) THEN Len(c) ELSE Len(c) + 1
<1>. DEFINE w == Without(c, t)
<1>1. /\ w \in Seq(S) /\ Distinct(w) /\ t \notin Range(w)
      /\ Len(w) = IF t \in Range(c) THEN Len(c) - 1 ELSE Len(c)
  BY WithoutIt
<1>2. Len(c) \in Nat
  BY LenProperties
<1>. HIDE DEF w
<1>3. Append(w, t) \in Seq(S) /\ Len(Append(w, t)) = Len(w) + 1 /\ Len(w) \in Nat
  BY <1>1, Appending
<1>4. Distinct(Append(w, t))
  BY <1>1, AppendDistinct
<1>5. Len(Append(w, t)) = IF t \in Range(c) THEN Len(c) ELSE Len(c) + 1
  BY <1>1, <1>2, <1>3
<1>. QED  BY <1>3, <1>4, <1>5 DEF w

(* The least recently used key makes room for it. *)
LEMMA PutKeeps ==
  ASSUME NEW S, NEW c \in Seq(S), Distinct(c), Len(c) <= CacheSize, NEW t \in S
  PROVE  Put(c, t) \in Seq(S) /\ Distinct(Put(c, t)) /\ Len(Put(c, t)) <= CacheSize
<1>. DEFINE all == Append(Without(c, t), t)
<1>1. /\ all \in Seq(S) /\ Distinct(all)
      /\ Len(all) = IF t \in Range(c) THEN Len(c) ELSE Len(c) + 1
  BY MovedToEnd
<1>2. Len(c) \in Nat /\ Len(all) \in Nat /\ CacheSize \in Nat
  BY <1>1, LenProperties, EmbedderAssumption
<1>3. Put(c, t) = IF CacheSize = 0 THEN c ELSE IF Len(all) > CacheSize THEN Tail(all) ELSE all
  BY DEF Put
<1>. HIDE DEF all
<1>4. CASE CacheSize = 0 \/ ~(Len(all) > CacheSize)
  BY <1>1, <1>2, <1>3, <1>4
<1>5. CASE CacheSize # 0 /\ Len(all) > CacheSize
  <2>1. all # <<>>
    <3>1. Len(<<>>) = 0
      OBVIOUS
    <3>. QED  BY <1>2, <1>5, <3>1
  <2>2. /\ Tail(all) \in Seq(S) /\ Len(Tail(all)) = Len(all) - 1
        /\ \A j \in 1..Len(Tail(all)) : Tail(all)[j] = all[j + 1]
    BY <1>1, <2>1, HeadTailProperties
  <2>3. Len(Tail(all)) <= CacheSize
    BY <1>1, <1>2, <2>2
  <2>4. Distinct(Tail(all))
    <3>. SUFFICES ASSUME NEW j \in 1..Len(all) - 1, NEW k \in 1..Len(all) - 1,
                         all[j + 1] = all[k + 1]
                  PROVE  j = k
      BY <2>2 DEF Distinct
    <3>1. j + 1 \in 1..Len(all) /\ k + 1 \in 1..Len(all)
      BY <1>2
    <3>2. j + 1 = k + 1
      BY <1>1, <3>1 DEF Distinct
    <3>. QED  BY <1>2, <3>2
  <2>. QED  BY <1>3, <1>5, <2>2, <2>3, <2>4
<1>. QED  BY <1>2, <1>4, <1>5

(* Looking texts up, and storing vectors, keeps the cache in order. *)
LEMMA CacheKeeps ==
  ASSUME EmbedInv, CacheOK, [EmbedNext]_embedVars
  PROVE  CacheOK'
<1>1. CASE UNCHANGED <<cache, lists>>
  BY <1>1 DEF CacheOK
<1>2. ASSUME NEW n \in 1..MaxList, NEW list \in [1..n -> Texts], EmbedDocuments(list)
      PROVE  CacheOK'
  <2>1. lists < MaxLists /\ lists' = lists + 1 /\ cache' = cache
    BY <1>2 DEF EmbedDocuments
  <2>2. MaxLists \in Nat
    BY EmbedderAssumption
  <2>. QED  BY <2>1, <2>2 DEF CacheOK
<1>3. ASSUME Lookup, texts[at] \in Range(cache) PROVE CacheOK'
  <2>1. cache' = Append(Without(cache, texts[at]), texts[at]) /\ lists' = lists
    BY <1>3 DEF Lookup
  <2>2. texts[at] \in Texts
    BY <1>3, MembersOfSeq DEF CacheOK
  <2>3. /\ cache' \in Seq(Texts) /\ Distinct(cache') /\ Len(cache') = Len(cache)
    BY <1>3, <2>1, <2>2, MovedToEnd DEF CacheOK
  <2>. QED  BY <2>1, <2>3 DEF CacheOK, Distinct
<1>4. ASSUME Store PROVE CacheOK'
  <2>1. cache' = Put(cache, texts[Absolute(1)]) /\ lists' = lists
    BY <1>4 DEF Store
  <2>2. texts[Absolute(1)] \in Texts
    <3>1. Len(batch) >= 1
      BY <1>4 DEF Store, EmbedInv, Matched
    <3>2. 1 \in 1..Len(batch)
      BY <3>1, EmbedFacts
    <3>. QED  BY <3>2, EmbedFacts DEF Absolute
  <2>3. cache' \in Seq(Texts) /\ Distinct(cache') /\ Len(cache') <= CacheSize
    BY <2>1, <2>2, PutKeeps DEF CacheOK
  <2>. QED  BY <2>1, <2>3 DEF CacheOK, Distinct
<1>5. LookupDone \/ Fill \/ CallProvider \/ UNCHANGED embedVars
      \/ (Lookup /\ texts[at] \notin Range(cache))
      => UNCHANGED <<cache, lists>>
  BY DEF LookupDone, Fill, CallProvider, Lookup, embedVars
<1>. QED  BY <1>1, <1>2, <1>3, <1>4, <1>5 DEF EmbedNext, EmbedStep

-----------------------------------------------------------------------------
(* The invariant holds in every state of every call. *)
THEOREM EmbedCorrect == EmbedSpec => []EmbedInv
<1>1. EmbedInv /\ [EmbedNext]_embedVars => EmbedInv'
  BY DocumentsKeep, LookupKeeps, LookupDoneKeeps, FillKeeps, CallKeeps, StoreKeeps, EmbedStutter
     DEF EmbedNext, EmbedStep
<1>. QED  BY EmbedInitInv, <1>1, PTL DEF EmbedSpec

(* The cache never holds more than cache_max_entries texts, nor one of them   *)
(* twice, and every index into the lists of texts is one.                    *)
THEOREM EmbedTyped == EmbedSpec => []EmbedTypeOK
<1>1. EmbedInit => CacheOK
  <2>1. /\ Len(<<>>) = 0 /\ 1..0 = {} /\ <<>> \in Seq(Texts)
    OBVIOUS
  <2>2. CacheSize \in Nat /\ MaxLists \in Nat
    BY EmbedderAssumption
  <2>. QED  BY <2>1, <2>2 DEF EmbedInit, CacheOK, Distinct
<1>2. EmbedInv /\ CacheOK /\ [EmbedNext]_embedVars => CacheOK'
  BY CacheKeeps
<1>3. EmbedInv /\ CacheOK => EmbedTypeOK
  BY DEF EmbedInv, EmbedTypes, CacheOK, Distinct, EmbedTypeOK
<1>. QED  BY <1>1, <1>2, <1>3, EmbedCorrect, PTL DEF EmbedSpec

(* A call that succeeds returns the vector of every text in its place,        *)
(* whatever was cached, batched or returned out of order.                    *)
THEOREM VectorsReachTexts == EmbedSpec => []VectorsMatch
<1>1. EmbedInv => VectorsMatch
  <2>1. SUFFICES ASSUME EmbedInv, embedAt = "done" PROVE vectors = texts
    BY DEF VectorsMatch
  <2>2. \A i \in 1..Len(texts) : vectors[i] = texts[i]
    BY <2>1 DEF EmbedInv, Accounted
  <2>3. DOMAIN texts = 1..Len(texts) /\ texts = [i \in 1..Len(texts) |-> texts[i]]
    BY <2>1, LenProperties DEF EmbedInv, EmbedTypes
  <2>4. vectors = [i \in 1..Len(texts) |-> vectors[i]]
    BY <2>1 DEF EmbedInv, EmbedTypes
  <2>. QED  BY <2>2, <2>3, <2>4
<1>. QED  BY EmbedCorrect, <1>1, PTL

(* The check for missing vectors after the last batch is never true. *)
THEOREM NoVectorIsMissing == EmbedSpec => []NothingMissing
<1>1. EmbedInv => NothingMissing
  <2>1. SUFFICES ASSUME EmbedInv, embedAt = "fill", at > Len(missed), batch = <<>>,
                        NEW i \in 1..Len(texts)
                 PROVE  vectors[i] # NoVector
    BY DEF NothingMissing
  <2>2. 1..Len(<<>>) = {}
    OBVIOUS
  <2>3. ~Queued(i)
    BY <2>1, <2>2, EmbedFacts DEF Queued
  <2>. QED  BY <2>1, <2>3 DEF EmbedInv, Accounted
<1>. QED  BY EmbedCorrect, <1>1, PTL

(* No request is too long, nor too heavy unless it is a single text. *)
THEOREM RequestsWithinLimits == EmbedSpec => []BatchWithinLimits
<1>1. EmbedInv => BatchWithinLimits
  <2>1. SUFFICES ASSUME EmbedInv, embedAt = "call" PROVE BatchWithinLimits
    BY DEF BatchWithinLimits
  <2>2. Len(batch) \in 1..BatchItems
    BY <2>1, EmbedFacts DEF EmbedInv
  <2>3. ASSUME Len(batch) > 1 PROVE RunningSums(batch, BatchTokens) # {}
    <3>1. PICK sum \in RunningSums(batch, load) : TRUE
      BY <2>1 DEF EmbedInv, Weighed
    <3>2. load <= BatchTokens
      BY <2>1, <2>3 DEF EmbedInv, Weighed
    <3>3. 0..load \subseteq 0..BatchTokens
      BY <2>1, <3>2, EmbedFacts
    <3>4. sum \in RunningSums(batch, BatchTokens)
      BY <3>1, <3>3 DEF RunningSums
    <3>. QED  BY <3>4
  <2>. QED  BY <2>2, <2>3 DEF BatchWithinLimits
<1>. QED  BY EmbedCorrect, <1>1, PTL

=============================================================================
