------------------------- MODULE ReplyGeneratorProofs -------------------------
(***************************************************************************)
(* Proofs about ReplyGenerator, for any numbers of attempts, rounds, calls.  *)
(***************************************************************************)
EXTENDS ReplyGenerator, SequenceTheorems, TLAPS

-----------------------------------------------------------------------------
(* Messages and costs. *)

(* The constants, spelt out. *)
LEMMA Bounds == MaxAttempts \in Nat \ {0} /\ MaxRounds \in Nat \ {0} /\ MaxCalls \in Nat \ {0}
BY GeneratorAssumption

(* A message is a turn or an answer, and never both. *)
LEMMA MessageKinds ==
  /\ \A k \in 1..MaxCalls : /\ Turn(k) \in Messages /\ Turn(k).role = "assistant"
                            /\ Turn(k).calls = k
  /\ \A j \in 1..MaxCalls : /\ Answer(j) \in Messages /\ Answer(j).role = "tool"
                            /\ Answer(j).id = j
  /\ \A x \in Messages : \/ x.role = "assistant" /\ x.calls \in 1..MaxCalls /\ x = Turn(x.calls)
                         \/ x.role = "tool" /\ x.id \in 1..MaxCalls /\ x = Answer(x.id)
<1>1. ASSUME NEW k \in 1..MaxCalls
      PROVE  Turn(k) \in Messages /\ Turn(k).role = "assistant" /\ Turn(k).calls = k
  BY DEF Messages, Turn
<1>2. ASSUME NEW j \in 1..MaxCalls
      PROVE  Answer(j) \in Messages /\ Answer(j).role = "tool" /\ Answer(j).id = j
  BY DEF Messages, Answer
<1>3. ASSUME NEW x \in Messages
      PROVE  \/ x.role = "assistant" /\ x.calls \in 1..MaxCalls /\ x = Turn(x.calls)
             \/ x.role = "tool" /\ x.id \in 1..MaxCalls /\ x = Answer(x.id)
  <2>1. CASE \E k \in 1..MaxCalls : x = Turn(k)
    BY <1>1, <2>1
  <2>2. CASE \E j \in 1..MaxCalls : x = Answer(j)
    BY <1>2, <2>2
  <2>3. QED
    BY <2>1, <2>2 DEF Messages
<1>4. QED
  BY <1>1, <1>2, <1>3

(* One more message on the transcript. *)
LEMMA Appended ==
  ASSUME NEW s \in Seq(Messages), NEW x \in Messages
  PROVE  /\ Len(s) \in Nat /\ Append(s, x) \in Seq(Messages)
         /\ Len(Append(s, x)) = Len(s) + 1
         /\ Append(s, x)[Len(s) + 1] = x
         /\ \A i \in 1..Len(s) : s[i] \in Messages /\ Append(s, x)[i] = s[i]
OBVIOUS

(* One more attempt costs its rounds and the last request. *)
LEMMA CostGrows ==
  /\ \A n \in Nat : Cost(n) \in Nat /\ Cost(n + 1) = Cost(n) + MaxRounds + 1
  /\ Cost(0) = 0
<1>1. MaxRounds \in Nat
  BY Bounds
<1>2. ASSUME NEW n \in Nat
      PROVE  Cost(n) \in Nat /\ Cost(n + 1) = Cost(n) + MaxRounds + 1
  BY <1>1 DEF Cost
<1>3. Cost(0) = 0
  BY <1>1 DEF Cost
<1>4. QED
  BY <1>2, <1>3

(* Fewer attempts cost no more. *)
LEMMA CostOrder ==
  ASSUME NEW m \in Nat, NEW n \in Nat, m <= n
  PROVE  Cost(m) <= Cost(n)
<1>1. MaxRounds \in Nat
  BY Bounds
<1>2. (MaxRounds + 1) * (n - m) >= 0
  BY <1>1
<1>3. (MaxRounds + 1) * n = (MaxRounds + 1) * m + (MaxRounds + 1) * (n - m)
  BY <1>1
<1>4. (MaxRounds + 1) * m \in Nat /\ (MaxRounds + 1) * n \in Nat
  BY <1>1
<1>5. QED
  BY <1>2, <1>3, <1>4, <1>1 DEF Cost

(* The same of rounds and the messages they leave. *)
LEMMA RoundsOrder ==
  ASSUME NEW m \in Nat, NEW n \in Nat, m <= n
  PROVE  /\ m * (MaxCalls + 1) \in Nat /\ m * (MaxCalls + 1) <= n * (MaxCalls + 1)
         /\ (m + 1) * (MaxCalls + 1) = m * (MaxCalls + 1) + MaxCalls + 1
<1>1. MaxCalls \in Nat
  BY Bounds
<1>2. (n - m) * (MaxCalls + 1) >= 0
  BY <1>1
<1>3. n * (MaxCalls + 1) = m * (MaxCalls + 1) + (n - m) * (MaxCalls + 1)
  BY <1>1
<1>4. m * (MaxCalls + 1) \in Nat /\ (m + 1) * (MaxCalls + 1) = m * (MaxCalls + 1) + MaxCalls + 1
  BY <1>1
<1>5. QED
  BY <1>1, <1>2, <1>3, <1>4

(* Where the answer to the call at hand goes: after the turn t of c calls and   *)
(* their answers so far, when o calls are owed and the call is the k-th.     *)
LEMMA MessagePositions ==
  ASSUME NEW t \in Nat, NEW c \in Nat, NEW o \in Nat, NEW n \in Nat, NEW k \in Nat,
         t + c = n + o, k = c - o + 1, o >= 1
  PROVE  /\ t + k = n + 1
         /\ k > 1 => k - 1 \in 1..c /\ t + (k - 1) = n
         /\ k = 1 => t = n
         /\ \A i \in Nat : i = t \/ i < t \/ i > t
OBVIOUS

-----------------------------------------------------------------------------
(* The invariant. *)

(* The counters. *)
LEMMA Counters ==
  ASSUME GenInv
  PROVE  /\ MaxCalls \in Nat /\ MaxCalls > 0 /\ MaxRounds \in Nat /\ MaxAttempts \in Nat
         /\ attempt \in Nat /\ attempt <= MaxAttempts
         /\ round \in Nat /\ round <= MaxRounds
         /\ owed \in Nat /\ owed <= MaxCalls
         /\ requests \in Nat
<1>1. attempt \in 0..MaxAttempts /\ round \in 0..MaxRounds /\ owed \in 0..MaxCalls
      /\ requests \in Nat
  BY DEF GenInv, GenTypeOK
<1>2. QED
  BY <1>1, Bounds

(* The other types, spelt out. *)
LEMMA GenTypes ==
  ASSUME GenInv
  PROVE  /\ genAt \in {"idle", "request", "tools", "done"}
         /\ working \in Seq(Messages) /\ Len(working) \in Nat
         /\ reply \in {"none", "", "text"}
         /\ \A i \in 1..Len(working) : working[i] \in Messages
<1>1. /\ genAt \in {"idle", "request", "tools", "done"} /\ working \in Seq(Messages)
      /\ reply \in {"none", "", "text"}
  BY DEF GenInv, GenTypeOK
<1>2. ASSUME NEW s \in Seq(Messages)
      PROVE  Len(s) \in Nat /\ \A i \in 1..Len(s) : s[i] \in Messages
  OBVIOUS
<1>3. Len(working) \in Nat /\ \A i \in 1..Len(working) : working[i] \in Messages
  BY <1>1, <1>2
<1>4. QED
  BY <1>1, <1>3

(* How often each call was executed. *)
LEMMA RanTypes ==
  ASSUME GenInv
  PROVE  ran \in [1..MaxRounds -> [1..MaxCalls -> Nat]]
BY DEF GenInv, GenTypeOK

(* Nothing has been asked. *)
LEMMA InitGen == GenInit => GenInv
<1> SUFFICES ASSUME GenInit PROVE GenInv
  OBVIOUS
<1>1. /\ genAt = "idle" /\ attempt = 0 /\ round = 0 /\ owed = 0 /\ requests = 0
      /\ reply = "none" /\ working = <<>> /\ Len(working) = 0
      /\ ran = [i \in 1..MaxRounds |-> [j \in 1..MaxCalls |-> 0]]
  BY DEF GenInit
<1>2. GenTypeOK
  <2>1. working \in Seq(Messages)
    BY <1>1
  <2>2. QED
    BY <1>1, <2>1, Bounds DEF GenTypeOK
<1>3. EffortInv
  <2>1. \A i \in 1..MaxRounds, j \in 1..MaxCalls : ran[i][j] = 0
    BY <1>1
  <2>2. QED
    BY <1>1, <2>1, RoundsOrder DEF EffortInv
<1>4. TranscriptInv
  BY <1>1 DEF TranscriptInv
<1>5. RerunsNeedRetry
  BY <1>1 DEF RerunsNeedRetry
<1>6. QED
  BY <1>2, <1>3, <1>4, <1>5 DEF GenInv

(* The turn whose calls are owed is the last one, and the call at hand the    *)
(* first it has no answer to.                                                *)
LEMMA TheTurn ==
  ASSUME GenInv, AtCall
  PROVE  /\ TurnAt \in 1..Len(working) /\ AtTurn(TurnAt)
         /\ CallAt = working[TurnAt].calls - owed + 1
         /\ CallAt \in 1..MaxCalls
         /\ \A j \in 1..MaxCalls : j >= CallAt => ran[round][j] <= attempt - 1
         /\ round \in 1..MaxRounds
<1> DEFINE n == Len(working)
           Last(i) == /\ working[i].role = "assistant"
                      /\ \A j \in (i + 1)..Len(working) : working[j].role = "tool"
<1>1. /\ TranscriptInv /\ genAt = "tools" /\ owed \in 1..MaxCalls /\ n \in Nat
      /\ round \in 0..MaxRounds
      /\ \A i \in 1..n : working[i] \in Messages
  <2>1. TranscriptInv /\ genAt = "tools" /\ owed > 0
    BY DEF GenInv, AtCall
  <2>2. owed \in 1..MaxCalls /\ round \in 0..MaxRounds
    BY <2>1, Counters
  <2>3. QED
    BY <2>1, <2>2, GenTypes
<1>2. PICK i \in 1..n :
        /\ AtTurn(i)
        /\ \A j \in 1..MaxCalls : j > working[i].calls - owed => ran[round][j] <= attempt - 1
  BY <1>1 DEF TranscriptInv
<1>3. /\ working[i].role = "assistant" /\ i + working[i].calls = n + owed
      /\ owed <= working[i].calls
  BY <1>2 DEF AtTurn
<1>4. working[i].calls \in 1..MaxCalls
  <2>1. "assistant" # "tool"
    OBVIOUS
  <2>2. QED
    BY <1>1, <1>3, <2>1, MessageKinds
<1>5. \A j \in (i + 1)..n : working[j].role = "tool"
  <2> SUFFICES ASSUME NEW j \in (i + 1)..n PROVE working[j].role = "tool"
    OBVIOUS
  <2>1. j - i \in 1..working[i].calls /\ i + (j - i) = j /\ j - i \in 1..MaxCalls
    BY <1>1, <1>3, <1>4, Bounds
  <2>2. working[i + (j - i)] = Answer(j - i)
    BY <1>1, <1>3, <2>1 DEF TranscriptInv
  <2>3. QED
    BY <2>1, <2>2, MessageKinds
<1>6. Last(i)
  BY <1>3, <1>5
<1>7. ASSUME NEW t \in 1..n, Last(t)
      PROVE  t = i
  <2>1. CASE t < i
    <3>1. i \in (t + 1)..n
      BY <1>1, <2>1
    <3>2. QED
      BY <1>3, <1>7, <3>1
  <2>2. CASE t > i
    <3>1. t \in (i + 1)..n
      BY <1>1, <2>2
    <3>2. QED
      BY <1>5, <1>7, <3>1
  <2>3. QED
    BY <2>1, <2>2
<1>8. TurnAt = i
  <2>1. TurnAt = CHOOSE t \in 1..n : Last(t)
    BY DEF TurnAt
  <2>2. (CHOOSE t \in 1..n : Last(t)) \in 1..n /\ Last(CHOOSE t \in 1..n : Last(t))
    BY <1>6
  <2>3. QED
    BY <1>7, <2>1, <2>2
<1>9. CallAt = working[i].calls - owed + 1
  BY <1>8 DEF CallAt
<1>10. CallAt \in 1..MaxCalls
  BY <1>1, <1>3, <1>4, <1>9, Bounds
<1>11. \A j \in 1..MaxCalls : j >= CallAt => j > working[i].calls - owed
  BY <1>1, <1>4, <1>9, <1>10, Bounds
<1>12. round \in 1..MaxRounds
  BY <1>1, Bounds DEF TranscriptInv
<1>13. QED
  BY <1>2, <1>8, <1>9, <1>10, <1>11, <1>12

(* One more execution of the call at hand, or none. *)
LEMMA OneMore ==
  ASSUME GenInv, AtCall, ran' = ran \/ Executed(round, CallAt)
  PROVE  /\ ran' \in [1..MaxRounds -> [1..MaxCalls -> Nat]]
         /\ \A j \in 1..MaxCalls : j # CallAt => ran'[round][j] = ran[round][j]
         /\ \A i \in 1..MaxRounds, j \in 1..MaxCalls :
              ran'[i][j] <= IF i <= round THEN attempt ELSE attempt - 1
<1>1. /\ CallAt \in 1..MaxCalls /\ round \in 1..MaxRounds
      /\ \A j \in 1..MaxCalls : j >= CallAt => ran[round][j] <= attempt - 1
  BY TheTurn
<1>2. /\ ran' \in [1..MaxRounds -> [1..MaxCalls -> Nat]]
      /\ \A i \in 1..MaxRounds, j \in 1..MaxCalls :
           ran'[i][j] = IF i = round /\ j = CallAt /\ ran' # ran THEN ran[i][j] + 1 ELSE ran[i][j]
  <2>1. ran \in [1..MaxRounds -> [1..MaxCalls -> Nat]]
    BY RanTypes
  <2>2. CASE ran' = ran
    BY <2>1, <2>2
  <2>3. CASE ran' = [ran EXCEPT ![round][CallAt] = @ + 1]
    <3>1. ran[round][CallAt] \in Nat
      BY <1>1, <2>1
    <3>2. ran' \in [1..MaxRounds -> [1..MaxCalls -> Nat]]
      BY <1>1, <2>1, <2>3, <3>1
    <3>3. ran'[round][CallAt] = ran[round][CallAt] + 1
      BY <1>1, <2>1, <2>3
    <3>4. ran' # ran
      BY <3>1, <3>3
    <3>5. \A i \in 1..MaxRounds, j \in 1..MaxCalls :
            i # round \/ j # CallAt => ran'[i][j] = ran[i][j]
      BY <1>1, <2>1, <2>3
    <3>6. QED
      BY <3>2, <3>3, <3>4, <3>5
  <2>4. QED
    BY <2>2, <2>3 DEF Executed
<1>3. /\ attempt \in Nat
      /\ \A i \in 1..MaxRounds, j \in 1..MaxCalls :
           ran[i][j] <= IF i <= round THEN attempt ELSE attempt - 1
  BY Counters DEF GenInv, RerunsNeedRetry, AtCall
<1>4. ran[round][CallAt] <= attempt - 1 /\ ran[round][CallAt] \in Nat
  <2>1. CallAt >= CallAt
    BY <1>1, Counters
  <2>2. ran[round][CallAt] \in Nat
    BY <1>1, RanTypes
  <2>3. QED
    BY <1>1, <2>1, <2>2
<1>5. ASSUME NEW i \in 1..MaxRounds, NEW j \in 1..MaxCalls
      PROVE  ran'[i][j] <= IF i <= round THEN attempt ELSE attempt - 1
  <2>1. CASE i = round /\ j = CallAt
    <3>1. i <= round
      BY <2>1, Counters
    <3>2. ran'[i][j] <= ran[round][CallAt] + 1
      BY <1>2, <1>4, <2>1
    <3>3. QED
      BY <1>2, <1>3, <1>4, <3>1, <3>2
  <2>2. CASE ~(i = round /\ j = CallAt)
    BY <1>2, <1>3, <2>2
  <2>3. QED
    BY <2>1, <2>2
<1>6. QED
  BY <1>1, <1>2, <1>5

(* A call is answered, executed or not. *)
LEMMA AnsweredKeeps ==
  ASSUME GenInv, AtCall, ran' = ran \/ Executed(round, CallAt),
         working' = Append(working, Answer(CallAt)), owed' = owed - 1,
         UNCHANGED <<genAt, attempt, round, reply, requests>>
  PROVE  GenInv'
<1> DEFINE n == Len(working)
           x == Answer(CallAt)
<1>1. /\ TurnAt \in 1..n /\ AtTurn(TurnAt)
      /\ CallAt = working[TurnAt].calls - owed + 1 /\ CallAt \in 1..MaxCalls
      /\ \A j \in 1..MaxCalls : j >= CallAt => ran[round][j] <= attempt - 1
      /\ round \in 1..MaxRounds
  BY TheTurn
<1>2. /\ x \in Messages /\ x.role = "tool" /\ x.id = CallAt
  BY <1>1, MessageKinds
<1>3. working \in Seq(Messages)
  BY GenTypes
<1>4. /\ n \in Nat /\ working' \in Seq(Messages) /\ Len(working') = n + 1
      /\ working'[n + 1] = x
      /\ \A i \in 1..n : working[i] \in Messages /\ working'[i] = working[i]
  BY <1>2, <1>3, Appended
<1>5. owed \in 1..MaxCalls /\ owed' \in 0..MaxCalls /\ owed' = owed - 1 /\ genAt = "tools"
  <2>1. owed > 0 /\ genAt = "tools"
    BY DEF AtCall
  <2>2. owed \in 1..MaxCalls /\ owed - 1 \in 0..MaxCalls
    BY <2>1, Counters
  <2>3. QED
    BY <2>1, <2>2
<1>6. PICK t \in 1..n : t = TurnAt
  BY <1>1
<1>7. /\ working[t].role = "assistant" /\ t + working[t].calls = n + owed
      /\ owed <= working[t].calls /\ working[t].calls \in 1..MaxCalls
      /\ CallAt = working[t].calls - owed + 1
  <2>1. "assistant" # "tool"
    OBVIOUS
  <2>2. QED
    BY <1>1, <1>4, <1>6, <2>1, MessageKinds DEF AtTurn
<1>8. /\ t \in Nat /\ working[t].calls \in Nat /\ CallAt \in Nat /\ MaxCalls \in Nat
      /\ CallAt >= 1 /\ t + CallAt = n + 1
      /\ CallAt > 1 => CallAt - 1 \in 1..working[t].calls /\ t + (CallAt - 1) = n
      /\ CallAt = 1 => t = n
      /\ \A i \in Nat : i = t \/ i < t \/ i > t
  <2>1. working[t].calls \in Nat /\ t \in Nat
    BY SMTT(30), <1>4, <1>7, Counters
  <2>2. owed \in Nat /\ owed >= 1 /\ MaxCalls \in Nat
    BY <1>5, Counters
  <2>3. CallAt \in 1..MaxCalls
    BY <1>1
  <2>4. CallAt \in Nat /\ CallAt >= 1
    BY <2>2, <2>3
  <2>5. t + working[t].calls = n + owed /\ CallAt = working[t].calls - owed + 1
    BY <1>7
  <2>6. n \in Nat
    BY <1>4
  <2>7. /\ t + CallAt = n + 1
        /\ CallAt > 1 => CallAt - 1 \in 1..working[t].calls /\ t + (CallAt - 1) = n
        /\ CallAt = 1 => t = n
        /\ \A i \in Nat : i = t \/ i < t \/ i > t
    <3>1. PICK c \in Nat : c = working[t].calls
      BY <2>1
    <3>2. PICK k \in Nat : k = CallAt
      BY <2>4
    <3>3. PICK m \in Nat : m = n
      BY <2>6
    <3>4. t + c = m + owed /\ k = c - owed + 1
      BY <2>5, <3>1, <3>2, <3>3
    <3>5. /\ t + k = m + 1
          /\ k > 1 => k - 1 \in 1..c /\ t + (k - 1) = m
          /\ k = 1 => t = m
          /\ \A i \in Nat : i = t \/ i < t \/ i > t
      BY <2>1, <2>2, <3>4, MessagePositions
    <3>6. QED
      BY <3>1, <3>2, <3>3, <3>5
  <2>8. QED
    BY <2>1, <2>2, <2>4, <2>7
<1> HIDE DEF x
<1>9. /\ ran' \in [1..MaxRounds -> [1..MaxCalls -> Nat]]
      /\ \A j \in 1..MaxCalls : j # CallAt => ran'[round][j] = ran[round][j]
      /\ \A i \in 1..MaxRounds, j \in 1..MaxCalls :
           ran'[i][j] <= IF i <= round THEN attempt ELSE attempt - 1
  BY OneMore
<1>10. GenTypeOK'
  <2>1. Messages' = Messages
    BY DEF Messages, Turn, Answer
  <2>2. working' \in Seq(Messages') /\ owed' \in 0..MaxCalls
    BY <1>4, <1>5, <2>1
  <2>3. /\ genAt \in {"idle", "request", "tools", "done"} /\ attempt \in 0..MaxAttempts
        /\ round \in 0..MaxRounds /\ reply \in {"none", "", "text"} /\ requests \in Nat
    BY DEF GenInv, GenTypeOK
  <2>4. QED
    BY <1>9, <2>2, <2>3 DEF GenTypeOK
<1>11. EffortInv'
  <2>1. /\ genAt = "tools" /\ genAt' = "tools" /\ round' = round
        /\ n <= round * (MaxCalls + 1) - owed /\ round * (MaxCalls + 1) \in Nat
    <3>1. round * (MaxCalls + 1) \in Nat
      BY Counters, RoundsOrder
    <3>2. QED
      BY <1>5, <3>1 DEF GenInv, EffortInv
  <2>2. n + 1 <= round * (MaxCalls + 1) - owed'
    BY <1>4, <1>5, <2>1
  <2>3. attempt' > 0 /\ requests' <= Cost(attempt' - 1) + round'
    BY <2>1 DEF GenInv, EffortInv
  <2>4. QED
    BY <1>4, <2>1, <2>2, <2>3 DEF EffortInv
<1>12. TranscriptInv'
  <2>1. ASSUME NEW i \in 1..(n + 1), working'[i].role = "assistant"
        PROVE  /\ i + working'[i].calls <= n + 1 + owed'
               /\ \A j \in 1..working'[i].calls :
                    i + j <= n + 1 => working'[i + j] = Answer(j)
    <3>1. i \in 1..n
      BY <1>2, <1>4, <2>1
    <3>2. /\ working'[i] = working[i] /\ working[i].role = "assistant"
          /\ working[i].calls \in Nat
      <4>1. "assistant" # "tool"
        OBVIOUS
      <4>2. working[i].calls \in 1..MaxCalls
        BY <1>4, <2>1, <3>1, <4>1, MessageKinds
      <4>3. QED
        BY <1>4, <2>1, <3>1, <4>2, Bounds
    <3>3. /\ i + working[i].calls <= n + owed
          /\ \A j \in 1..working[i].calls : i + j <= n => working[i + j] = Answer(j)
      BY <3>1, <3>2 DEF GenInv, TranscriptInv
    <3>4. ASSUME NEW j \in 1..working[i].calls, i + j <= n + 1
          PROVE  working'[i + j] = Answer(j)
      <4>1. CASE i + j <= n
        <5>1. i + j \in 1..n
          BY <3>1, <3>4, <4>1
        <5>2. QED
          BY <1>4, <3>3, <4>1, <5>1
      <4>2. CASE i + j = n + 1
        <5>1. CASE i = t
          BY <1>4, <1>7, <1>8, <3>1, <4>2, <5>1 DEF x
        <5>2. CASE i < t
          <6>1. t - i \in 1..working[i].calls /\ i + (t - i) = t
            <7>1. /\ working[i].calls \in Nat /\ j \in 1..working[i].calls /\ i + j = n + 1
                  /\ n \in Nat /\ t \in 1..n /\ i \in 1..n /\ i < t
              BY <1>4, <3>1, <3>2, <4>2, <5>2
            <7>2. QED
              BY <7>1
          <6>2. working[t] = Answer(t - i)
            BY SMTT(30), <3>3, <6>1
          <6>3. t - i \in 1..MaxCalls
            <7>1. working[i].calls \in 1..MaxCalls
              <8>1. "assistant" # "tool"
                OBVIOUS
              <8>2. QED
                BY <1>4, <3>1, <3>2, <8>1, MessageKinds
            <7>2. QED
              BY <6>1, <7>1, Bounds
          <6>4. QED
            BY <1>7, <6>2, <6>3, MessageKinds
        <5>3. CASE i > t
          <6>1. i - t \in 1..working[t].calls /\ t + (i - t) = i /\ i - t \in 1..MaxCalls
            BY <1>4, <1>5, <1>7, <3>1, <5>3, Bounds
          <6>2. working[t + (i - t)] = Answer(i - t)
            BY <1>7, <3>1, <6>1 DEF GenInv, TranscriptInv
          <6>3. QED
            BY <3>2, <6>1, <6>2, MessageKinds
        <5>4. QED
          <6>1. i \in Nat
            BY <1>4, <3>1
          <6>2. QED
            BY <1>8, <5>1, <5>2, <5>3, <6>1
      <4>3. QED
        BY <1>4, <3>1, <3>2, <3>4, <4>1, <4>2
    <3>5. i + working[i].calls <= n + 1 + owed'
      BY <1>4, <1>5, <3>1, <3>2, <3>3
    <3>6. QED
      BY <3>2, <3>4, <3>5
  <2>2. ASSUME NEW i \in 1..(n + 1), working'[i].role = "tool"
        PROVE  i > 1 /\ working'[i - 1] \in
                 IF working'[i].id = 1 THEN {Turn(k) : k \in 1..MaxCalls}
                 ELSE {Answer(working'[i].id - 1)}
    <3>1. CASE i \in 1..n
      <4>1. i > 1 /\ working[i - 1] \in
              IF working[i].id = 1 THEN {Turn(k) : k \in 1..MaxCalls}
              ELSE {Answer(working[i].id - 1)}
        BY <1>4, <2>2, <3>1 DEF GenInv, TranscriptInv
      <4>2. i - 1 \in 1..n
        BY <1>4, <3>1, <4>1
      <4>3. QED
        BY <1>4, <3>1, <4>1, <4>2
    <3>2. CASE i = n + 1
      <4>1. n > 0 /\ working'[n] = working[n] /\ working'[i] = x /\ i > 1 /\ i - 1 = n
        BY <1>4, <1>6, <3>2
      <4>2. CASE CallAt = 1
        <5>1. n = t
          BY <1>4, <1>6, <1>8, <4>2
        <5>2. "assistant" # "tool"
          OBVIOUS
        <5>3. working[n] = Turn(working[n].calls) /\ working[n].calls \in 1..MaxCalls
          BY <1>4, <1>7, <4>1, <5>1, <5>2, MessageKinds
        <5>4. QED
          BY <1>2, <4>1, <4>2, <5>3
      <4>3. CASE CallAt # 1
        <5>1. CallAt - 1 \in 1..working[t].calls /\ t + (CallAt - 1) = n
          <6>1. CallAt > 1
            BY <1>8, <4>3
          <6>2. QED
            BY <1>8, <6>1
        <5>2. working[t + (CallAt - 1)] = Answer(CallAt - 1)
          <6>1. t + (CallAt - 1) <= Len(working)
            BY <1>4, <5>1
          <6>2. QED
            BY <1>4, <1>7, <5>1, <6>1 DEF GenInv, TranscriptInv
        <5>3. QED
          BY <1>2, <4>1, <4>3, <5>1, <5>2
      <4>4. QED
        BY <4>2, <4>3
    <3>3. QED
      BY <1>4, <3>1, <3>2
  <2>3. genAt' = "tools" => round' > 0
    BY <1>1, Bounds
  <2>4. ASSUME owed' > 0
        PROVE  \E i \in 1..Len(working') :
                 /\ AtTurn(i)'
                 /\ \A j \in 1..MaxCalls :
                      j > working'[i].calls - owed' => ran'[round'][j] <= attempt' - 1
    <3>1. t \in 1..Len(working') /\ working'[t] = working[t]
      BY <1>4
    <3>2. AtTurn(t)'
      BY <1>4, <1>5, <1>7, <3>1 DEF AtTurn
    <3>3. ASSUME NEW j \in 1..MaxCalls, j > working[t].calls - owed'
          PROVE  ran'[round][j] <= attempt - 1
      <4>1. j > CallAt
        BY <1>5, <1>7, <3>3, Bounds
      <4>2. j >= CallAt /\ j # CallAt
        BY <1>1, <4>1, Bounds
      <4>3. ran'[round][j] = ran[round][j]
        BY <1>9, <4>2
      <4>4. QED
        BY <1>1, <4>2, <4>3
    <3>4. QED
      BY <3>1, <3>2, <3>3
  <2>5. QED
    BY <1>4, <2>1, <2>2, <2>3, <2>4 DEF TranscriptInv
<1>13. RerunsNeedRetry'
  BY <1>9 DEF RerunsNeedRetry
<1>14. QED
  BY <1>10, <1>11, <1>12, <1>13 DEF GenInv

-----------------------------------------------------------------------------
(* The other steps. *)

(* generate makes its first attempt. *)
LEMMA GenerateKeeps == GenInv /\ Generate => GenInv'
<1> SUFFICES ASSUME GenInv, Generate PROVE GenInv'
  OBVIOUS
<1>1. /\ genAt = "idle" /\ genAt' = "request" /\ attempt' = 1
      /\ UNCHANGED <<round, working, owed, reply, requests, ran>>
  BY DEF Generate
<1>2. /\ requests = 0 /\ round = 0 /\ owed = 0 /\ working = <<>> /\ Len(working) = 0
      /\ \A i \in 1..MaxRounds, j \in 1..MaxCalls : ran[i][j] = 0
  BY <1>1 DEF GenInv, EffortInv
<1>3. GenTypeOK'
  <2>1. Messages' = Messages
    BY DEF Messages, Turn, Answer
  <2>2. 1 \in 0..MaxAttempts
    BY Bounds
  <2>3. QED
    BY <1>1, <2>1, <2>2 DEF GenInv, GenTypeOK
<1>4. EffortInv'
  <2>1. 0 * (MaxCalls + 1) = 0 /\ Cost(0) = 0
    BY CostGrows, Counters
  <2>2. QED
    BY <1>1, <1>2, <2>1 DEF EffortInv
<1>5. TranscriptInv'
  BY <1>1, <1>2 DEF TranscriptInv
<1>6. RerunsNeedRetry'
  <2>1. \A i \in 1..MaxRounds : ~(i <= 0)
    BY Bounds
  <2>2. QED
    BY <1>1, <1>2, <2>1 DEF RerunsNeedRetry
<1>7. QED
  BY <1>3, <1>4, <1>5, <1>6 DEF GenInv

(* What an attempt has cost when it ends in its round. *)
LEMMA AttemptCost ==
  ASSUME GenInv, genAt \in {"request", "tools"}
  PROVE  /\ attempt \in 1..MaxAttempts /\ attempt - 1 \in Nat /\ attempt > 0
         /\ requests <= Cost(attempt - 1) + round
         /\ \A r \in {requests, requests + 1} : r \in Nat /\ r <= Cost(attempt)
         /\ Cost(attempt - 1) \in Nat /\ Cost(attempt) \in Nat
<1>1. genAt # "idle" /\ genAt # "done"
  OBVIOUS
<1>2. attempt > 0 /\ requests <= Cost(attempt - 1) + round
  BY <1>1 DEF GenInv, EffortInv
<1>3. attempt \in 1..MaxAttempts /\ attempt - 1 \in Nat /\ (attempt - 1) + 1 = attempt
  BY <1>2, Counters
<1>4. /\ Cost(attempt - 1) \in Nat /\ Cost(attempt) \in Nat
      /\ Cost(attempt) = Cost(attempt - 1) + MaxRounds + 1
  <2>1. \A n \in Nat : Cost(n) \in Nat /\ Cost(n + 1) = Cost(n) + MaxRounds + 1
    BY CostGrows
  <2>2. /\ Cost(attempt - 1) \in Nat
        /\ Cost((attempt - 1) + 1) = Cost(attempt - 1) + MaxRounds + 1
    BY <1>3, <2>1
  <2>3. Cost(attempt) \in Nat /\ Cost((attempt - 1) + 1) = Cost(attempt)
    BY <1>3, <2>1, Counters
  <2>4. QED
    BY <2>2, <2>3
<1>5. \A r \in {requests, requests + 1} : r \in Nat /\ r <= Cost(attempt)
  <2>1. /\ round \in Nat /\ round <= MaxRounds /\ MaxRounds \in Nat /\ requests \in Nat
        /\ requests <= Cost(attempt - 1) + round
    BY <1>2, Counters
  <2>2. requests + 1 \in Nat /\ requests <= Cost(attempt) /\ requests + 1 <= Cost(attempt)
    BY <1>4, <2>1
  <2>3. QED
    BY <2>1, <2>2
<1>6. QED
  BY <1>2, <1>3, <1>4, <1>5

(* Turns and answers, in any state. *)
LEMMA Said ==
  ASSUME GenInv
  PROVE  /\ \A i \in 1..Len(working) :
              working[i].role = "assistant" =>
                /\ i + working[i].calls <= Len(working) + owed
                /\ \A j \in 1..working[i].calls :
                     i + j <= Len(working) => working[i + j] = Answer(j)
         /\ \A i \in 1..Len(working) :
              working[i].role = "tool" =>
                i > 1 /\ working[i - 1] \in
                  IF working[i].id = 1 THEN {Turn(k) : k \in 1..MaxCalls}
                  ELSE {Answer(working[i].id - 1)}
BY DEF GenInv, TranscriptInv

(* generate returns: with the model's answer, or with silence. *)
LEMMA ReturnsKeeps ==
  ASSUME GenInv, NEW text \in {"", "text"}, Returns(text),
         genAt \in {"request", "tools"},
         requests' = requests \/ requests' = requests + 1,
         ran' \in [1..MaxRounds -> [1..MaxCalls -> Nat]],
         \A i \in 1..MaxRounds, j \in 1..MaxCalls :
           ran'[i][j] <= IF i <= round THEN attempt ELSE attempt - 1,
         UNCHANGED <<attempt, round, working, owed>>
  PROVE  GenInv'
<1>1. /\ genAt' = "done" /\ reply' = text
      /\ attempt' = attempt /\ round' = round /\ working' = working /\ owed' = owed
  BY DEF Returns
<1>2. requests' \in Nat /\ requests' <= Cost(attempt) /\ attempt > 0
  <2>1. requests' \in {requests, requests + 1}
    OBVIOUS
  <2>2. QED
    BY <2>1, AttemptCost
<1>3. GenTypeOK'
  <2>1. Messages' = Messages
    BY DEF Messages, Turn, Answer
  <2>2. QED
    BY <1>1, <1>2, <2>1 DEF GenInv, GenTypeOK
<1>4. EffortInv'
  <2>1. Len(working) <= round * (MaxCalls + 1) - owed
    BY DEF GenInv, EffortInv
  <2>2. QED
    BY <1>1, <1>2, <2>1 DEF EffortInv, Cost
<1>5. TranscriptInv'
  BY ZenonT(60), <1>1, Said DEF TranscriptInv, Answer, Turn
<1>6. RerunsNeedRetry'
  BY <1>1 DEF RerunsNeedRetry
<1>7. QED
  BY <1>3, <1>4, <1>5, <1>6 DEF GenInv

(* Nothing has run that the invariant does not allow. *)
LEMMA RanAllowed ==
  ASSUME GenInv, genAt # "idle"
  PROVE  \A i \in 1..MaxRounds, j \in 1..MaxCalls :
           ran[i][j] <= IF i <= round THEN attempt ELSE attempt - 1
BY DEF GenInv, RerunsNeedRetry

(* The model answers, or the provider refuses. *)
LEMMA AnswerKeeps == GenInv /\ (Completed \/ Rejected) => GenInv'
<1> SUFFICES ASSUME GenInv, Completed \/ Rejected PROVE GenInv'
  OBVIOUS
<1>1. /\ genAt = "request" /\ requests' = requests + 1
      /\ UNCHANGED <<attempt, round, working, owed, ran>>
  BY DEF Completed, Rejected, AtRequest
<1>2. PICK text \in {"", "text"} : Returns(text)
  BY DEF Completed, Rejected
<1>3. /\ ran' \in [1..MaxRounds -> [1..MaxCalls -> Nat]]
      /\ \A i \in 1..MaxRounds, j \in 1..MaxCalls :
           ran'[i][j] <= IF i <= round THEN attempt ELSE attempt - 1
  <2>1. genAt # "idle"
    BY <1>1
  <2>2. ran' = ran
    BY <1>1
  <2>3. QED
    BY <2>1, <2>2, RanAllowed, RanTypes
<1>4. QED
  BY <1>1, <1>2, <1>3, ReturnsKeeps

(* A call raises past call_tool. *)
LEMMA RaiseKeeps == GenInv /\ ToolRaises => GenInv'
<1> SUFFICES ASSUME GenInv, ToolRaises PROVE GenInv'
  OBVIOUS
<1>1. /\ AtCall /\ genAt = "tools" /\ Returns("") /\ (ran' = ran \/ Executed(round, CallAt))
      /\ UNCHANGED <<attempt, round, working, owed, requests>>
  BY DEF ToolRaises, AtCall
<1>2. /\ ran' \in [1..MaxRounds -> [1..MaxCalls -> Nat]]
      /\ \A i \in 1..MaxRounds, j \in 1..MaxCalls :
           ran'[i][j] <= IF i <= round THEN attempt ELSE attempt - 1
  BY <1>1, OneMore
<1>3. QED
  BY <1>1, <1>2, ReturnsKeeps

(* The calls of the turn are all answered. *)
LEMMA AllAnsweredKeeps == GenInv /\ AllAnswered => GenInv'
<1> SUFFICES ASSUME GenInv, AllAnswered PROVE GenInv'
  OBVIOUS
<1>1. /\ genAt = "tools" /\ owed = 0 /\ genAt' = "request"
      /\ UNCHANGED <<attempt, round, working, owed, reply, requests, ran>>
  BY DEF AllAnswered
<1>2. GenTypeOK'
  <2>1. Messages' = Messages
    BY DEF Messages, Turn, Answer
  <2>2. QED
    BY <1>1, <2>1 DEF GenInv, GenTypeOK
<1>3. EffortInv'
  BY <1>1 DEF GenInv, EffortInv, Cost
<1>4. TranscriptInv'
  <2>1. ~(owed' > 0) /\ genAt' # "tools" /\ owed' = owed /\ working' = working
    BY <1>1
  <2>2. QED
    BY <2>1, Said DEF TranscriptInv, Answer, Turn
<1>5. RerunsNeedRetry'
  BY <1>1 DEF GenInv, RerunsNeedRetry
<1>6. QED
  BY <1>2, <1>3, <1>4, <1>5 DEF GenInv

(* A transient error: another attempt from the base messages, or silence. *)
LEMMA RetryKeeps == GenInv /\ Transient => GenInv'
<1> SUFFICES ASSUME GenInv, Transient PROVE GenInv'
  OBVIOUS
<1>1. genAt = "request" /\ requests' = requests + 1 /\ owed' = owed /\ ran' = ran
  BY DEF Transient, AtRequest
<1>2. /\ ran' \in [1..MaxRounds -> [1..MaxCalls -> Nat]]
      /\ \A i \in 1..MaxRounds, j \in 1..MaxCalls :
           ran'[i][j] <= IF i <= round THEN attempt ELSE attempt - 1
  <2>1. genAt # "idle"
    BY <1>1
  <2>2. QED
    BY <1>1, <2>1, RanAllowed, RanTypes
<1>3. CASE ~(attempt < MaxAttempts)
  BY <1>1, <1>2, <1>3, ReturnsKeeps DEF Transient
<1>4. CASE attempt < MaxAttempts
  <2>1. /\ attempt' = attempt + 1 /\ round' = 0 /\ working' = <<>> /\ Len(working') = 0
        /\ genAt' = "request" /\ reply' = reply
    BY <1>1, <1>4 DEF Transient
  <2>2. /\ attempt' \in 0..MaxAttempts /\ attempt' > 0 /\ attempt' - 1 = attempt
        /\ attempt \in Nat
    BY <1>4, <2>1, Counters
  <2>3. requests' \in Nat /\ requests' <= Cost(attempt)
    <3>1. requests' \in {requests, requests + 1}
      BY <1>1
    <3>2. QED
      BY <1>1, <3>1, AttemptCost
  <2>4. owed = 0
    BY <1>1 DEF GenInv, EffortInv
  <2>5. GenTypeOK'
    <3>1. Messages' = Messages /\ working' \in Seq(Messages)
      BY <2>1 DEF Messages, Turn, Answer
    <3>2. 0 \in 0..MaxRounds /\ 0 \in 0..MaxCalls
      BY Counters
    <3>3. reply \in {"none", "", "text"}
      BY GenTypes
    <3>4. QED
      BY <1>1, <1>2, <2>1, <2>2, <2>3, <2>4, <3>1, <3>2, <3>3 DEF GenTypeOK
  <2>6. EffortInv'
    <3>1. 0 * (MaxCalls + 1) = 0
      BY Counters
    <3>2. Cost(attempt) \in Nat
      BY <1>1, AttemptCost
    <3>3. requests' <= Cost(attempt' - 1) + round'
      BY <2>1, <2>2, <2>3, <3>2
    <3>4. QED
      BY <1>1, <2>1, <2>2, <2>4, <3>1, <3>3 DEF EffortInv, Cost
  <2>7. TranscriptInv'
    BY <1>1, <2>1, <2>4 DEF TranscriptInv
  <2>8. RerunsNeedRetry'
    <3>1. ASSUME NEW i \in 1..MaxRounds, NEW j \in 1..MaxCalls
          PROVE  ran'[i][j] <= attempt /\ ~(i <= 0)
      <4>1. ran'[i][j] <= IF i <= round THEN attempt ELSE attempt - 1
        BY <1>2
      <4>2. ran'[i][j] \in Nat
        BY <1>2
      <4>3. QED
        BY <2>2, <4>1, <4>2, Counters
    <3>2. QED
      BY <2>1, <2>2, <3>1 DEF RerunsNeedRetry
  <2>9. QED
    BY <2>5, <2>6, <2>7, <2>8 DEF GenInv
<1>5. QED
  BY <1>3, <1>4

(* The model asks for k calls. *)
LEMMA AskKeeps == GenInv /\ AskedForTools => GenInv'
<1> SUFFICES ASSUME GenInv, AskedForTools PROVE GenInv'
  OBVIOUS
<1> DEFINE n == Len(working)
<1>1. /\ genAt = "request" /\ requests' = requests + 1 /\ round < MaxRounds
      /\ genAt' = "tools" /\ round' = round + 1 /\ attempt' = attempt /\ reply' = reply
      /\ ran' = ran
  BY DEF AskedForTools, AtRequest, WithTools
<1>2. PICK k \in 1..MaxCalls : owed' = k /\ working' = Append(working, Turn(k))
  BY DEF AskedForTools
<1>3. working \in Seq(Messages) /\ Turn(k) \in Messages /\ Turn(k).role = "assistant"
      /\ Turn(k).calls = k
  BY GenTypes, MessageKinds
<1>4. /\ n \in Nat /\ working' \in Seq(Messages) /\ Len(working') = n + 1
      /\ working'[n + 1] = Turn(k)
      /\ \A i \in 1..n : working[i] \in Messages /\ working'[i] = working[i]
  BY <1>2, <1>3, Appended
<1>5. round' \in 1..MaxRounds /\ round \in Nat /\ round + 1 > 0 /\ k \in Nat /\ k >= 1
      /\ k <= MaxCalls /\ MaxCalls \in Nat
  BY <1>1, <1>2, Counters
<1>6. owed = 0
  BY <1>1 DEF GenInv, EffortInv
<1>7. GenTypeOK'
  <2>1. Messages' = Messages
    BY DEF Messages, Turn, Answer
  <2>2. /\ requests' \in Nat /\ k \in 0..MaxCalls /\ round' \in 0..MaxRounds
        /\ attempt \in 0..MaxAttempts
    BY <1>1, <1>5, Counters
  <2>3. reply \in {"none", "", "text"} /\ working' \in Seq(Messages')
    BY <1>4, <2>1, GenTypes
  <2>4. QED
    BY <1>1, <1>2, <2>2, <2>3, RanTypes DEF GenTypeOK
<1>8. EffortInv'
  <2>1. /\ requests <= Cost(attempt - 1) + round /\ Cost(attempt - 1) \in Nat
        /\ attempt > 0
    BY <1>1, AttemptCost
  <2>2. requests' <= Cost(attempt - 1) + round'
    BY <1>1, <1>5, <2>1, Counters
  <2>3. n <= round * (MaxCalls + 1)
    <3>1. round * (MaxCalls + 1) \in Nat
      BY <1>5, RoundsOrder
    <3>2. QED
      BY <1>4, <1>6, <3>1 DEF GenInv, EffortInv
  <2>4. /\ round * (MaxCalls + 1) \in Nat
        /\ (round + 1) * (MaxCalls + 1) = round * (MaxCalls + 1) + MaxCalls + 1
    BY <1>5, RoundsOrder
  <2>5. n + 1 <= (round + 1) * (MaxCalls + 1) - k
    BY <1>4, <1>5, <2>3, <2>4
  <2>6. QED
    BY <1>1, <1>2, <1>4, <2>1, <2>2, <2>5 DEF EffortInv, Cost
<1>9. TranscriptInv'
  <2>1. ASSUME NEW i \in 1..(n + 1), working'[i].role = "assistant"
        PROVE  /\ i + working'[i].calls <= n + 1 + k
               /\ \A j \in 1..working'[i].calls :
                    i + j <= n + 1 => working'[i + j] = Answer(j)
    <3>1. CASE i \in 1..n
      <4>1. working'[i] = working[i] /\ working[i].role = "assistant"
        BY <1>4, <2>1, <3>1
      <4>2. working[i].calls \in 1..MaxCalls
        <5>1. "assistant" # "tool"
          OBVIOUS
        <5>2. QED
          BY <1>4, <3>1, <4>1, <5>1, MessageKinds
      <4>3. working[i].calls \in Nat
        BY <4>2, Counters
      <4>4. /\ i + working[i].calls <= n
            /\ \A j \in 1..working[i].calls : i + j <= n => working[i + j] = Answer(j)
        <5>1. /\ i + working[i].calls <= n + owed
              /\ \A j \in 1..working[i].calls : i + j <= n => working[i + j] = Answer(j)
          BY <3>1, <4>1, Said
        <5>2. QED
          BY <1>4, <1>6, <4>3, <5>1
      <4>5. \A j \in 1..working[i].calls : i + j \in 1..n
        BY <1>4, <3>1, <4>3, <4>4
      <4>6. \A j \in 1..working[i].calls : working'[i + j] = Answer(j)
        <5>1. \A j \in 1..working[i].calls : i + j <= n
          BY <1>4, <4>5
        <5>2. QED
          BY <1>4, <4>4, <4>5, <5>1
      <4>7. i + working[i].calls <= n + 1 + k
        BY <1>4, <1>5, <3>1, <4>3, <4>4
      <4>8. QED
        BY <4>1, <4>6, <4>7
    <3>2. CASE i = n + 1
      <4>1. working'[i].calls = k
        BY <1>3, <1>4, <3>2
      <4>2. \A j \in 1..k : ~(i + j <= n + 1)
        BY <1>4, <1>5, <3>2
      <4>3. i + k <= n + 1 + k
        BY <1>4, <1>5, <3>2
      <4>4. QED
        BY <4>1, <4>2, <4>3
    <3>3. QED
      BY <1>4, <3>1, <3>2
  <2>2. ASSUME NEW i \in 1..(n + 1), working'[i].role = "tool"
        PROVE  i > 1 /\ working'[i - 1] \in
                 IF working'[i].id = 1 THEN {Turn(c) : c \in 1..MaxCalls}
                 ELSE {Answer(working'[i].id - 1)}
    <3>1. i # n + 1
      <4>1. "assistant" # "tool"
        OBVIOUS
      <4>2. QED
        BY <1>3, <1>4, <2>2, <4>1
    <3>2. i \in 1..n
      BY <1>4, <3>1
    <3>3. i > 1 /\ working[i - 1] \in
            IF working[i].id = 1 THEN {Turn(c) : c \in 1..MaxCalls}
            ELSE {Answer(working[i].id - 1)}
      BY <1>4, <2>2, <3>2, Said
    <3>4. i - 1 \in 1..n
      BY <1>4, <3>2, <3>3
    <3>5. QED
      BY <1>4, <3>2, <3>3, <3>4
  <2>3. round' > 0
    BY <1>1, <1>5
  <2>4. \E i \in 1..Len(working') :
          /\ AtTurn(i)'
          /\ \A j \in 1..MaxCalls :
               j > working'[i].calls - owed' => ran'[round'][j] <= attempt' - 1
    <3>1. PICK t \in 1..Len(working') : t = n + 1
      BY <1>4
    <3>2. working'[t].role = "assistant" /\ working'[t].calls = k
      BY <1>3, <1>4, <3>1
    <3>3. AtTurn(t)'
      <4>1. t + k = Len(working') + owed' /\ owed' <= k
        BY <1>2, <1>4, <1>5, <3>1
      <4>2. QED
        BY <3>2, <4>1 DEF AtTurn
    <3>4. ASSUME NEW j \in 1..MaxCalls
          PROVE  ran'[round'][j] <= attempt - 1
      <4>1. round' \in 1..MaxRounds /\ ~(round' <= round)
        BY <1>1, <1>5
      <4>2. \A i \in 1..MaxRounds : ran[i][j] <= IF i <= round THEN attempt ELSE attempt - 1
        BY <1>1, RanAllowed
      <4>3. QED
        BY <1>1, <4>1, <4>2
    <3>5. QED
      BY <1>1, <3>1, <3>3, <3>4
  <2>5. QED
    BY <1>2, <1>4, <2>1, <2>2, <2>3, <2>4 DEF TranscriptInv
<1>10. RerunsNeedRetry'
  <2>1. ASSUME NEW i \in 1..MaxRounds, NEW j \in 1..MaxCalls
        PROVE  ran'[i][j] <= IF i <= round' THEN attempt ELSE attempt - 1
    <3>1. ran[i][j] <= IF i <= round THEN attempt ELSE attempt - 1
      BY <1>1, RanAllowed
    <3>2. ran[i][j] \in Nat
      BY RanTypes
    <3>3. i <= round => i <= round + 1
      BY <1>5, Counters
    <3>4. attempt \in Nat
      BY Counters
    <3>5. QED
      BY <1>1, <3>1, <3>2, <3>3, <3>4
  <2>2. QED
    BY <1>1, <2>1 DEF RerunsNeedRetry
<1>11. QED
  BY <1>7, <1>8, <1>9, <1>10 DEF GenInv

-----------------------------------------------------------------------------
(* The theorems. *)

(* Every step keeps the invariant. *)
LEMMA NextGen == GenInv /\ [GenNext]_genVars => GenInv'
<1> SUFFICES ASSUME GenInv, [GenNext]_genVars PROVE GenInv'
  OBVIOUS
<1>1. CASE ToolAnswers \/ NoSuchTool
  <2>1. /\ AtCall /\ (ran' = ran \/ Executed(round, CallAt))
        /\ working' = Append(working, Answer(CallAt)) /\ owed' = owed - 1
        /\ UNCHANGED <<genAt, attempt, round, reply, requests>>
    BY <1>1 DEF ToolAnswers, NoSuchTool
  <2>2. QED
    BY <2>1, AnsweredKeeps
<1>2. CASE UNCHANGED genVars
  <2>1. UNCHANGED <<genAt, attempt, round, working, owed, reply, requests, ran>>
    BY <1>2 DEF genVars
  <2>2. GenTypeOK' /\ EffortInv'
    BY <2>1 DEF GenInv, GenTypeOK, EffortInv, Messages, Turn, Answer, Cost
  <2>3. TranscriptInv'
    BY <2>1 DEF GenInv, TranscriptInv, Turn, Answer, AtTurn
  <2>4. RerunsNeedRetry'
    BY <2>1 DEF GenInv, RerunsNeedRetry
  <2>5. QED
    BY <2>2, <2>3, <2>4 DEF GenInv
<1>3. QED
  BY <1>1, <1>2, GenerateKeeps, AnswerKeeps, AskKeeps, RetryKeeps, RaiseKeeps, AllAnsweredKeeps
     DEF GenNext

(* The invariant holds in every state of a reply's generation. *)
THEOREM GenerationInvariant == GenSpec => []GenInv
<1>1. QED
  BY InitGen, NextGen, PTL DEF GenSpec

(* Whatever model, tools and errors do, every request carries a transcript in  *)
(* which each call of tools is answered once and in order.                  *)
THEOREM TranscriptsAnswered == GenSpec => []TranscriptAnswered
<1>1. GenInv => TranscriptAnswered
  <2> SUFFICES ASSUME GenInv, genAt = "request" PROVE TranscriptAnswered
    BY DEF TranscriptAnswered
  <2>1. owed = 0
    BY DEF GenInv, EffortInv
  <2>2. ASSUME NEW i \in 1..Len(working), working[i].role = "assistant",
               NEW j \in 1..working[i].calls
        PROVE  i + j <= Len(working) /\ working[i + j] = Answer(j)
    <3>1. i + working[i].calls <= Len(working) + owed
      BY <2>2, Said
    <3>2. working[i].calls \in 1..MaxCalls
      <4>1. "assistant" # "tool"
        OBVIOUS
      <4>2. QED
        BY <2>2, <4>1, GenTypes, MessageKinds
    <3>3. working[i].calls \in Nat /\ Len(working) \in Nat
      <4>1. MaxCalls \in Nat
        BY Counters
      <4>2. Len(working) \in Nat
        BY GenTypes
      <4>3. QED
        BY <3>2, <4>1, <4>2
    <3>4. i + j <= Len(working)
      BY <2>1, <3>1, <3>3
    <3>5. QED
      BY <2>2, <3>4, Said
  <2>3. QED
    BY <2>2, Said DEF TranscriptAnswered
<1>2. QED
  BY <1>1, GenerationInvariant, PTL

(* No call is executed twice in one attempt. *)
THEOREM RerunsAreRetries == GenSpec => []RerunsNeedRetry
<1>1. GenInv => RerunsNeedRetry
  BY DEF GenInv
<1>2. QED
  BY <1>1, GenerationInvariant, PTL

(* A reply costs at most MaxAttempts * (MaxRounds + 1) completions. *)
THEOREM EffortIsBounded == GenSpec => []EffortBounded
<1>1. GenInv => EffortBounded
  <2> SUFFICES ASSUME GenInv PROVE EffortBounded
    OBVIOUS
  <2>1. requests <= Cost(attempt) /\ requests \in Nat
    <3>1. CASE genAt = "idle"
      <4>1. requests = 0 /\ attempt = 0
        BY <3>1 DEF GenInv, EffortInv
      <4>2. QED
        BY <4>1, CostGrows
    <3>2. CASE genAt \in {"request", "tools"}
      BY <3>2, AttemptCost
    <3>3. CASE genAt = "done"
      BY <3>3, Counters DEF GenInv, EffortInv
    <3>4. QED
      BY <3>1, <3>2, <3>3, GenTypes
  <2>2. Cost(attempt) <= Cost(MaxAttempts) /\ Cost(attempt) \in Nat
        /\ Cost(MaxAttempts) \in Nat
    BY Counters, CostOrder, CostGrows
  <2>3. Cost(MaxAttempts) = MaxAttempts * (MaxRounds + 1)
    BY Counters DEF Cost
  <2>4. requests <= MaxAttempts * (MaxRounds + 1)
    <3>1. requests <= Cost(MaxAttempts)
      BY <2>1, <2>2
    <3>2. QED
      BY <2>3, <3>1
  <2>5. Len(working) <= MaxRounds * (MaxCalls + 1)
    <3>1. /\ Len(working) <= round * (MaxCalls + 1) - owed
          /\ owed \in Nat /\ Len(working) \in Nat
      BY Counters, GenTypes DEF GenInv, EffortInv
    <3>2. /\ round * (MaxCalls + 1) \in Nat /\ MaxRounds * (MaxCalls + 1) \in Nat
          /\ round * (MaxCalls + 1) <= MaxRounds * (MaxCalls + 1)
      BY Counters, RoundsOrder
    <3>3. QED
      BY <3>1, <3>2
  <2>6. QED
    BY <2>4, <2>5 DEF EffortBounded
<1>2. QED
  BY <1>1, GenerationInvariant, PTL

=============================================================================
