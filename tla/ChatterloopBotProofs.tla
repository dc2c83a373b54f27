------------------------ MODULE ChatterloopBotProofs ------------------------
(***************************************************************************)
(* Proofs about the chat bot, for every timeline, setting and fault budget. *)
(***************************************************************************)
EXTENDS ChatterloopBot, SequenceTheorems, FiniteSetTheorems, TLAPS

(***************************************************************************)
(* What a step may do to the clock and the items.                          *)
(***************************************************************************)

(* Only writing, a tick and a start touch the clock or the timestamps. *)
LEMMA ClockMoves ==
  ASSUME [Next]_vars
  PROVE  \/ \E i \in Items : Write(i)
         \/ Tick
         \/ Start
         \/ UNCHANGED <<now, bornAt, startedAt>>
BY DEF Next, Step, vars, platformVars, triggerVars, memoryVars, ghostVars,
       Delete, Repeat, Drop, Crash, Connect, Receive, ReadType, Probe, Scan,
       FetchHistory, Judge, Compose, SendDone, SendAgain, SendRejected,
       ReadNotifications, ReadReplies, AfterPages,
       SkipComment, TakeComment

(* An item is written once. *)
LEMMA BornOnce ==
  ASSUME TypeOK, [Next]_vars, NEW i \in Items, Written(i)
  PROVE  bornAt'[i] = bornAt[i]
<1>1. ASSUME NEW j \in Items, Write(j)  PROVE bornAt'[i] = bornAt[i]
  <2>1. i # j
    BY <1>1 DEF Write
  <2>2. bornAt' = [bornAt EXCEPT ![j] = now] /\ bornAt \in [Items -> Times]
    BY <1>1 DEF Write, TypeOK
  <2>. QED  BY <2>1, <2>2
<1>2. ASSUME Tick \/ Start \/ UNCHANGED <<now, bornAt, startedAt>>
      PROVE  bornAt'[i] = bornAt[i]
  BY <1>2 DEF Tick, Start
<1>. QED  BY <1>1, <1>2, ClockMoves

(* What is deleted stays deleted. *)
LEMMA DeletedStays ==
  ASSUME [Next]_vars
  PROVE  deleted \subseteq deleted'
BY DEF Next, Step, vars, platformVars, triggerVars, memoryVars, ghostVars,
       Write, Tick, Start,
       Delete, Repeat, Drop, Crash, Connect, Receive, ReadType, Probe, Scan,
       FetchHistory, Judge, Compose, SendDone, SendAgain, SendRejected,
       ReadNotifications, ReadReplies, AfterPages,
       SkipComment, TakeComment

(* An excuse is not taken back. *)
LEMMA ExcuseStays ==
  ASSUME TypeOK, [Next]_vars, NEW i \in Items, Written(i), Excused(i)
  PROVE  Excused(i)'
<1>1. PICK f \in Items \ Comments :
        /\ f \in deleted \cup Malformed
        /\ bornAt[i] < bornAt[f]
        /\ Place[i] = Place[f]
        /\ \/ {i, f} \subseteq Mentions /\ Author[i] = Author[f]
           \/ Place[f] \in DMs
  BY DEF Excused
<1>2. Written(f)
  <2>1. bornAt[i] \in Nat /\ bornAt[f] \in Nat
    BY DEF TypeOK, Times
  <2>. QED  BY <1>1, <2>1 DEF Written
<1>3. bornAt'[i] = bornAt[i] /\ bornAt'[f] = bornAt[f]
  BY <1>2, BornOnce
<1>4. f \in deleted' \cup Malformed
  BY <1>1, DeletedStays
<1>. QED  BY <1>1, <1>3, <1>4 DEF Excused

(***************************************************************************)
(* The windows of the platform's reads.                                    *)
(***************************************************************************)

(* A set of items can be counted. *)
LEMMA SomeItems ==
  ASSUME NEW S \in SUBSET Items
  PROVE  IsFiniteSet(S) /\ Cardinality(S) \in Nat
<1>1. IsFiniteSet(Items)
  BY ItemAssumption, FS_Interval DEF Items
<1>. QED  BY <1>1, FS_Subset, FS_CardinalityType

(* The rows of an answer are sequences of what was read. *)
LEMMA NewestFirstRows ==
  ASSUME NEW S \in SUBSET Items, NEW rs \in NewestFirst(S)
  PROVE  rs \in Seq(Items) /\ \A k \in DOMAIN rs : rs[k] \in S
<1>1. PICK n \in Nat : n = Cardinality(S)
  BY SomeItems
<1>2. rs \in [1..n -> S]
  BY <1>1 DEF NewestFirst
<1>. QED  BY <1>2

(* Who changes what. *)
LEMMA Movers ==
  ASSUME [Next]_vars
  PROVE
    /\ (\E i \in Items : Delete(i)) \/ UNCHANGED deleted
    /\ SendDone \/ SendAgain \/ UNCHANGED answers
    /\ (\E i \in Items : Write(i)) \/ Repeat \/ Drop \/ Crash \/ Receive \/ UNCHANGED channel
    /\ Drop \/ Crash \/ Connect \/ UNCHANGED connected
    /\ Crash \/ Probe \/ Scan \/ ReadNotifications \/ ReadReplies
       \/ SkipComment \/ TakeComment \/ UNCHANGED rows
    /\ Crash \/ Scan \/ Judge \/ SkipComment \/ UNCHANGED seen
    /\ Scan \/ Judge \/ SkipComment \/ UNCHANGED forgotten
    /\ Crash \/ ReadType \/ UNCHANGED known
    /\ Crash \/ SendDone \/ UNCHANGED sent
    /\ Crash \/ Judge \/ UNCHANGED <<verdicts, stale>>
    /\ SendAgain \/ UNCHANGED resent
<1>. USE DEF Next, Step, vars, platformVars, triggerVars, memoryVars, ghostVars,
       Write, Delete, Tick, Repeat, Drop, Start, Crash, Connect, Receive, ReadType,
       Probe, Scan, FetchHistory, Judge, Compose, SendDone, SendAgain, SendRejected,
       ReadNotifications, ReadReplies, AfterPages,
       SkipComment, TakeComment
<1>1. (\E i \in Items : Delete(i)) \/ UNCHANGED deleted
  OBVIOUS
<1>2. SendDone \/ SendAgain \/ UNCHANGED answers
  OBVIOUS
<1>3. (\E i \in Items : Write(i)) \/ Repeat \/ Drop \/ Crash \/ Receive \/ UNCHANGED channel
  OBVIOUS
<1>4. Drop \/ Crash \/ Connect \/ UNCHANGED connected
  OBVIOUS
<1>5. Crash \/ Probe \/ Scan \/ ReadNotifications \/ ReadReplies
       \/ SkipComment \/ TakeComment \/ UNCHANGED rows
  OBVIOUS
<1>6. Crash \/ Scan \/ Judge \/ SkipComment \/ UNCHANGED seen
  OBVIOUS
<1>7. Crash \/ ReadType \/ UNCHANGED known
  OBVIOUS
<1>8. Crash \/ SendDone \/ UNCHANGED sent
  OBVIOUS
<1>9. Crash \/ Judge \/ UNCHANGED <<verdicts, stale>>
  OBVIOUS
<1>10. SendAgain \/ UNCHANGED resent
  OBVIOUS
<1>11. Scan \/ Judge \/ SkipComment \/ UNCHANGED forgotten
  OBVIOUS
<1>. HIDE DEF Next
<1>. QED
  BY <1>1, <1>2, <1>3, <1>4, <1>5, <1>6, <1>7, <1>8, <1>9, <1>10, <1>11

(***************************************************************************)
(* Types.                                                                  *)
(***************************************************************************)

(* What the bot reads of a conversation are items that can be read. *)
LEMMA HistoryShown ==
  ASSUME NEW p
  PROVE  History(p) \subseteq Visible \ (Comments \cup Malformed)
BY DEF History, FetchedMessages, Newest

(* What a trigger is resolved to is one of the rows shown, or what it had. *)
LEMMA SoughtShown ==
  ASSUME NEW shown \in SUBSET Items, item \in 0..NumItems, NumItems \in Nat
  PROVE  Sought(shown) \subseteq 0..NumItems
BY DEF Sought, Latest, Items

(* What is lost are items. *)
LEMMA MissedItems ==
  ASSUME TypeOK, [Next]_vars
  PROVE  missed' \in SUBSET Items
<1>1. \A f : OfSender(f) \in SUBSET Items
  BY DEF OfSender
<1>2. \A S : Comments \cap S \in SUBSET Items /\ (Comments \cap S) \ Mentions \in SUBSET Items
  BY ItemAssumption
<1>3. ASSUME NEW S \in SUBSET Items, NEW kind, Missing(kind, S)
      PROVE  missed' \in SUBSET Items
  BY <1>3 DEF Missing, TypeOK
<1>4. CASE UNCHANGED missed
  BY <1>4 DEF TypeOK
<1>5. CASE Drop \/ Crash
  <2>1. UNION {OfSender(i) : i \in {frame} \cup {j \in Items : Announced(j)}} \in SUBSET Items
    BY <1>1
  <2>2. {i \in Items : Written(i)} \in SUBSET Items
    OBVIOUS
  <2>. QED  BY <1>3, <1>5, <2>1, <2>2 DEF Drop, Crash
<1>6. CASE ReadType \/ Probe \/ FetchHistory
  BY <1>1, <1>3, <1>4, <1>6 DEF ReadType, Probe, FetchHistory
<1>7. CASE ReadNotifications \/ ReadReplies
  BY <1>2, <1>3, <1>4, <1>7 DEF ReadNotifications, ReadReplies
<1>8. \/ UNCHANGED missed \/ Drop \/ Crash
      \/ ReadType \/ Probe \/ FetchHistory \/ ReadNotifications \/ ReadReplies
  BY DEF Next, Step, vars, platformVars, triggerVars, memoryVars, ghostVars,
         Write, Delete, Tick, Repeat, Start, Connect, Receive, Scan, Judge, Compose,
         SendDone, SendAgain, SendRejected, SkipComment, TakeComment
<1>. QED  BY <1>4, <1>5, <1>6, <1>7, <1>8

(* The variables with few values. *)
LEMMA SmallTypes ==
  ASSUME TypeOK, [Next]_vars
  PROVE  /\ connected' \in BOOLEAN /\ missed' \in SUBSET Items
         /\ pc' \in PCs /\ reason' \in Reasons
         /\ failed' \in {{}, failed}
            \/ (pc \in {"compose", "send"} /\ failed' = failed \cup {item})
         /\ faults' \in {faults, faults + 1} /\ (faults' = faults \/ faults < MaxFaults)
         /\ attempts' \in {0, attempts}
            \/ (attempts + 1 < MaxAttempts /\ attempts' = attempts + 1)
<1>. USE DEF Next, Step, vars, platformVars, triggerVars, memoryVars, ghostVars,
       Write, Delete, Tick, Repeat, Drop, Start, Crash, Connect, Receive, ReadType,
       Probe, Scan, FetchHistory, Judge, Compose, SendDone, SendAgain, SendRejected,
       ReadNotifications, ReadReplies, AfterPages,
       SkipComment, TakeComment,
       Done, NoTrigger, Missing, Fault, Classified
<1>1. connected' \in BOOLEAN
  BY DEF TypeOK
<1>2. pc' \in PCs
  BY DEF TypeOK, PCs
<1>3. reason' \in Reasons
  BY DEF TypeOK, Reasons
<1>4. failed' \in {{}, failed} \/ (pc \in {"compose", "send"} /\ failed' = failed \cup {item})
  OBVIOUS
<1>5. faults' \in {faults, faults + 1} /\ (faults' = faults \/ faults < MaxFaults)
  OBVIOUS
<1>6. attempts' \in {0, attempts} \/ (attempts + 1 < MaxAttempts /\ attempts' = attempts + 1)
  OBVIOUS
<1>. HIDE DEF Next
<1>. QED  BY <1>1, <1>2, <1>3, <1>4, <1>5, <1>6, MissedItems

(* Where the frame and the item of the trigger come from. *)
LEMMA TriggerMoves ==
  ASSUME [Next]_vars
  PROVE  /\ \/ frame' \in {0, frame}
            \/ channel # <<>> /\ frame' = Head(channel)
            \/ pc = "comment" /\ frame' = Head(rows)
         /\ \/ item' \in {0, item}
            \/ pc = "history" /\ item' \in Sought(History(Place[frame]))
            \/ rows # <<>> /\ item' = Head(rows)
            \/ pc = "comment" /\ item' = Head(rows)
<1>. USE DEF Next, Step, vars, platformVars, triggerVars, memoryVars, ghostVars,
       Write, Delete, Tick, Repeat, Drop, Start, Crash, Connect, Receive, ReadType,
       Probe, Scan, FetchHistory, Judge, Compose, SendDone, SendAgain, SendRejected,
       ReadNotifications, ReadReplies, AfterPages,
       SkipComment, TakeComment,
       Done, NoTrigger, Classified
<1>1. \/ frame' \in {0, frame}
      \/ channel # <<>> /\ frame' = Head(channel)
      \/ pc = "comment" /\ frame' = Head(rows)
  OBVIOUS
<1>2. \/ item' \in {0, item}
      \/ pc = "history" /\ item' \in Sought(History(Place[frame]))
      \/ rows # <<>> /\ item' = Head(rows)
      \/ pc = "comment" /\ item' = Head(rows)
  OBVIOUS
<1>. HIDE DEF Next
<1>. QED  BY <1>1, <1>2

(* A sequence that repeats its head, or loses it, has no element of its own. *)
LEMMA PushHead ==
  ASSUME NEW S, NEW s \in Seq(S), s # <<>>
  PROVE  /\ <<Head(s)>> \o s \in Seq(S)
         /\ \A k \in DOMAIN (<<Head(s)>> \o s) :
              \E l \in DOMAIN s : (<<Head(s)>> \o s)[k] = s[l]
<1>1. Head(s) \in S /\ Head(s) = s[1] /\ 1 \in DOMAIN s /\ Len(s) \in Nat
  BY HeadTailProperties
<1>2. PICK h \in S : h = Head(s)
  BY <1>1
<1>3. <<h>> \in Seq(S) /\ Len(<<h>>) = 1 /\ <<h>>[1] = h
  OBVIOUS
<1>4. /\ <<h>> \o s \in Seq(S) /\ Len(<<h>> \o s) = 1 + Len(s)
      /\ \A k \in 1..(1 + Len(s)) : (<<h>> \o s)[k] = IF k <= 1 THEN <<h>>[k] ELSE s[k - 1]
  BY <1>3, ConcatProperties
<1>5. ASSUME NEW k \in 1..(1 + Len(s))
      PROVE  \E l \in DOMAIN s : (<<h>> \o s)[k] = s[l]
  <2>1. CASE k = 1
    BY <2>1, <1>1, <1>2, <1>3, <1>4
  <2>2. CASE k # 1
    <3>1. k - 1 \in DOMAIN s /\ (<<h>> \o s)[k] = s[k - 1]
      BY <2>2, <1>1, <1>4
    <3>. QED  BY <3>1
  <2>. QED  BY <2>1, <2>2
<1>6. DOMAIN (<<h>> \o s) = 1..(1 + Len(s))
  BY <1>4
<1>7. /\ <<h>> \o s \in Seq(S)
      /\ \A k \in DOMAIN (<<h>> \o s) : \E l \in DOMAIN s : (<<h>> \o s)[k] = s[l]
  BY <1>4, <1>5, <1>6
<1>. QED  BY <1>2, <1>7

(* The rest of a sequence has no element of its own either. *)
LEMMA DropHead ==
  ASSUME NEW S, NEW s \in Seq(S), s # <<>>
  PROVE  /\ Head(s) \in S /\ Tail(s) \in Seq(S)
         /\ \E l \in DOMAIN s : Head(s) = s[l]
         /\ \A k \in DOMAIN Tail(s) : \E l \in DOMAIN s : Tail(s)[k] = s[l]
<1>1. Head(s) \in S /\ Head(s) = s[1] /\ 1 \in DOMAIN s /\ Len(s) \in Nat
  BY HeadTailProperties
<1>2. Tail(s) \in Seq(S) /\ Len(Tail(s)) = Len(s) - 1
      /\ \A k \in 1..Len(Tail(s)) : Tail(s)[k] = s[k + 1]
  BY HeadTailProperties
<1>3. DOMAIN Tail(s) = 1..Len(Tail(s)) /\ DOMAIN s = 1..Len(s)
  BY <1>2
<1>4. \A k \in DOMAIN Tail(s) : k + 1 \in DOMAIN s
  BY <1>1, <1>2, <1>3
<1>. QED  BY <1>1, <1>2, <1>3, <1>4

(* What an appended element changes, and what it does not. *)
LEMMA PushBack ==
  ASSUME NEW S, NEW s \in Seq(S), NEW e \in S
  PROVE  /\ Append(s, e) \in Seq(S)
         /\ DOMAIN Append(s, e) = 1..(Len(s) + 1) /\ DOMAIN s = 1..Len(s) /\ Len(s) \in Nat
         /\ \A k \in 1..Len(s) : Append(s, e)[k] = s[k]
         /\ Append(s, e)[Len(s) + 1] = e
BY AppendProperties

(* A read's rows are items that can be read, behind those of the read before. *)
LEMMA RowsRead ==
  ASSUME rows \in Seq(Items), Probe \/ ReadNotifications \/ ReadReplies
  PROVE  /\ rows' \in Seq(Items)
         /\ \A k \in DOMAIN rows' :
              rows'[k] \in Visible \/ \E l \in DOMAIN rows : rows'[k] = rows[l]
<1>1. Visible \in SUBSET Items
  BY DEF Visible
<1>2. ASSUME NEW S \in SUBSET Visible, NEW rs \in NewestFirst(S)
      PROVE  rs \in Seq(Items) /\ \A k \in DOMAIN rs : rs[k] \in Visible
  BY <1>1, NewestFirstRows
<1>3. ASSUME NEW S
      PROVE  Page(S) \in SUBSET Visible
  BY DEF Page, FetchedComments, Newest
<1>4. CASE Probe \/ ReadNotifications
  <2>1. Probe => rows' = <<>> \/ \E S \in SUBSET Visible : rows' \in NewestFirst(S)
    BY DEF Probe, FetchedMessages, Newest
  <2>2. ReadNotifications => rows' = <<>> \/ rows' \in NewestFirst(Page(Mentions))
    BY DEF ReadNotifications
  <2>3. <<>> \in Seq(Items) /\ DOMAIN <<>> = {}
    OBVIOUS
  <2>. QED  BY <1>2, <1>3, <1>4, <2>1, <2>2, <2>3
<1>5. CASE ReadReplies
  <2>. DEFINE R == Page(Replies) \ {rows[k] : k \in DOMAIN rows}
  <2>1. rows' = rows \/ \E new \in NewestFirst(R) : rows' = rows \o new
    BY <1>5 DEF ReadReplies
  <2>2. R \in SUBSET Visible
    BY <1>3
  <2>. HIDE DEF R
  <2>3. ASSUME NEW new \in NewestFirst(R), rows' = rows \o new
        PROVE  /\ rows' \in Seq(Items)
               /\ \A k \in DOMAIN rows' :
                    rows'[k] \in Visible \/ \E l \in DOMAIN rows : rows'[k] = rows[l]
    <3>1. new \in Seq(Items) /\ \A k \in DOMAIN new : new[k] \in Visible
      BY <1>2, <2>2
    <3>2. rows' \in Seq(Items) /\ Len(rows') = Len(rows) + Len(new)
          /\ \A k \in 1..(Len(rows) + Len(new)) :
               rows'[k] = IF k <= Len(rows) THEN rows[k] ELSE new[k - Len(rows)]
      BY <2>3, <3>1, ConcatProperties
    <3>3. DOMAIN rows' = 1..Len(rows') /\ DOMAIN rows = 1..Len(rows)
          /\ DOMAIN new = 1..Len(new) /\ Len(rows) \in Nat /\ Len(new) \in Nat
      BY <3>1, <3>2, LenProperties
    <3>4. ASSUME NEW k \in 1..(Len(rows) + Len(new))
          PROVE  rows'[k] \in Visible \/ \E l \in DOMAIN rows : rows'[k] = rows[l]
      <4>1. CASE k <= Len(rows)
        BY <3>2, <3>3, <4>1
      <4>2. CASE ~(k <= Len(rows))
        <5>1. k - Len(rows) \in DOMAIN new
          BY <3>3, <4>2
        <5>. QED  BY <3>1, <3>2, <4>2, <5>1
      <4>. QED  BY <4>1, <4>2
    <3>. QED  BY <3>2, <3>3, <3>4
  <2>. QED  BY <2>1, <2>3
<1>. QED  BY <1>4, <1>5

(* Arithmetic the provers want apart. *)
LEMMA Positive ==
  ASSUME NEW n \in Nat, n # 0
  PROVE  n > 0
OBVIOUS

(* The settings that count something are positive. *)
LEMMA SettingTypes ==
  /\ DedupeWindow \in Nat /\ DedupeWindow > 0
  /\ HistoryWindow \in Nat /\ HistoryWindow > 0
  /\ MaxReplies \in Nat /\ MaxReplies > 0
  /\ MaxAttempts \in Nat /\ MaxAttempts > 0
  /\ MaxTime \in Nat /\ MaxTime > 0
<1>1. \A n \in {HistoryWindow, DedupeWindow, MaxReplies, MaxAttempts, MaxTime} : n \in Nat /\ n # 0
  BY SettingAssumption
<1>. QED  BY <1>1, Positive

(* Recording an item: the window keeps its bound, its keys are distinct, and  *)
(* what makes room in a full one is forgotten.                               *)
LEMMA RememberKept ==
  ASSUME seen \in Seq(Items), Len(seen) <= DedupeWindow, NEW i \in Items \cup {0}, Remember(i)
  PROVE  /\ seen' \in Seq(Items) /\ Len(seen') <= DedupeWindow
         /\ \A k \in DOMAIN seen' : seen'[k] = i \/ seen'[k] \in Remembered
         /\ i # 0 => i \in Remembered'
         /\ \A j \in Remembered : verdicts[j] > 0 => j \in Remembered' \cup forgotten'
         /\ forgotten' \subseteq forgotten \cup Remembered
         /\ \/ forgotten' = forgotten
            \/ Len(seen) = DedupeWindow /\ i \in Items \ Remembered
         /\ (\A k, l \in DOMAIN seen : seen[k] = seen[l] => k = l)
              => \A k, l \in DOMAIN seen' : seen'[k] = seen'[l] => k = l
<1>1. CASE i \in {0} \cup Remembered
  <2>1. seen' = seen /\ forgotten' = forgotten
    BY <1>1 DEF Remember
  <2>. QED  BY <1>1, <2>1 DEF Remembered
<1>2. CASE i \notin {0} \cup Remembered /\ Len(seen) < DedupeWindow
  <2>1. Len(seen) \in Nat /\ DedupeWindow \in Nat
    BY SettingTypes
  <2>2. seen' = Append(seen, i) /\ forgotten' = forgotten /\ i \in Items
    BY <1>2, <2>1 DEF Remember
  <2>3. /\ seen' \in Seq(Items) /\ Len(seen') = Len(seen) + 1
        /\ \A k \in 1..Len(seen) : seen'[k] = seen[k]
        /\ seen'[Len(seen) + 1] = i
    BY <2>2, AppendProperties
  <2>4. DOMAIN seen = 1..Len(seen) /\ DOMAIN seen' = 1..(Len(seen) + 1)
    BY <2>3
  <2>5. Len(seen') <= DedupeWindow
    BY <1>2, <2>1, <2>3
  <2>6. \A k \in DOMAIN seen : seen[k] # i
    BY <1>2 DEF Remembered
  <2>7. Remembered \subseteq Remembered' /\ i \in Remembered'
    BY <2>1, <2>3, <2>4 DEF Remembered
  <2>8. \A k \in DOMAIN seen' : seen'[k] = i \/ seen'[k] \in Remembered
    BY <2>1, <2>3, <2>4 DEF Remembered
  <2>9. ASSUME \A k, l \in DOMAIN seen : seen[k] = seen[l] => k = l,
               NEW k \in DOMAIN seen', NEW l \in DOMAIN seen', seen'[k] = seen'[l]
        PROVE  k = l
    BY <2>1, <2>3, <2>4, <2>6, <2>9
  <2>. QED  BY <2>2, <2>3, <2>5, <2>7, <2>8, <2>9
<1>3. CASE i \notin {0} \cup Remembered /\ Len(seen) = DedupeWindow
  <2>. DEFINE kept == Tail(seen)
  <2>1. DedupeWindow \in Nat /\ DedupeWindow > 0
    BY SettingTypes
  <2>2. /\ seen' = Append(kept, i) /\ i \in Items
        /\ forgotten' = forgotten \cup {j \in {Head(seen)} : verdicts[j] > 0}
    BY <1>3, <2>1 DEF Remember
  <2>3. seen # <<>>
    BY <1>3, <2>1
  <2>4. kept \in Seq(Items) /\ Len(kept) = Len(seen) - 1
        /\ \A k \in 1..Len(kept) : kept[k] = seen[k + 1]
    BY <2>3, HeadTailProperties
  <2>. HIDE DEF kept
  <2>5. /\ seen' \in Seq(Items) /\ Len(seen') = Len(kept) + 1
        /\ \A k \in 1..Len(kept) : seen'[k] = kept[k]
        /\ seen'[Len(kept) + 1] = i
    BY <2>2, <2>4, AppendProperties
  <2>6. /\ DOMAIN seen = 1..DedupeWindow /\ DOMAIN seen' = 1..DedupeWindow
        /\ Len(seen') = DedupeWindow
        /\ \A k \in 1..(DedupeWindow - 1) : seen'[k] = seen[k + 1]
        /\ seen'[DedupeWindow] = i
    BY <1>3, <2>1, <2>4, <2>5
  <2>7. \A k \in DOMAIN seen : seen[k] # i
    BY <1>3 DEF Remembered
  <2>8. i \in Remembered'
    BY <2>1, <2>6 DEF Remembered
  <2>9. \A k \in DOMAIN seen' : seen'[k] = i \/ seen'[k] \in Remembered
    BY <2>1, <2>6 DEF Remembered
  <2>10. Head(seen) = seen[1] /\ Head(seen) \in Remembered
    BY <2>1, <2>3, <2>6, HeadTailProperties DEF Remembered
  <2>11. ASSUME NEW j \in Remembered, verdicts[j] > 0
         PROVE  j \in Remembered' \cup forgotten'
    <3>1. PICK k \in 1..DedupeWindow : j = seen[k]
      BY <2>6 DEF Remembered
    <3>2. CASE k = 1
      BY <2>2, <2>10, <2>11, <3>1, <3>2
    <3>3. CASE k # 1
      <4>1. k - 1 \in 1..(DedupeWindow - 1) /\ k - 1 \in DOMAIN seen' /\ (k - 1) + 1 = k
        BY <2>1, <2>6, <3>3
      <4>2. j = seen'[k - 1]
        BY <2>6, <3>1, <4>1
      <4>. QED  BY <4>1, <4>2 DEF Remembered
    <3>. QED  BY <3>2, <3>3
  <2>12. ASSUME \A k, l \in DOMAIN seen : seen[k] = seen[l] => k = l,
                NEW k \in DOMAIN seen', NEW l \in DOMAIN seen', seen'[k] = seen'[l]
         PROVE  k = l
    BY SMTT(30), <2>1, <2>6, <2>7, <2>12
  <2>13. Len(seen') <= DedupeWindow
    BY <2>1, <2>6
  <2>14. forgotten' \subseteq forgotten \cup Remembered
    BY <2>2, <2>10
  <2>. QED  BY <1>3, <2>2, <2>5, <2>8, <2>9, <2>11, <2>12, <2>13, <2>14
<1>. QED  BY <1>1, <1>2, <1>3 DEF Remember

(* Every step keeps the type of every variable. *)
LEMMA TypeKept ==
  ASSUME TypeOK, Control, [Next]_vars
  PROVE  TypeOK'
<1>1. now' \in Times /\ startedAt' \in Times
  <2>1. ASSUME NEW i \in Items, Write(i)  PROVE UNCHANGED <<now, startedAt>>
    BY <2>1 DEF Write, memoryVars
  <2>2. ASSUME Tick \/ Start
        PROVE  now < MaxTime /\ now' = now + 1 /\ startedAt' \in {startedAt, now'}
    BY <2>2 DEF Tick, Start, memoryVars
  <2>3. MaxTime \in Nat
    BY SettingTypes
  <2>4. now < MaxTime => now + 1 \in Times
    BY <2>3 DEF TypeOK, Times
  <2>. QED  BY <2>1, <2>2, <2>4, ClockMoves DEF TypeOK
<1>2. bornAt' \in [Items -> Times]
  <2>1. ASSUME NEW i \in Items, Write(i)  PROVE bornAt' \in [Items -> Times]
    BY <2>1 DEF Write, TypeOK
  <2>. QED  BY <2>1, ClockMoves DEF TypeOK, Tick, Start
<1>3. deleted' \in SUBSET Items
  BY Movers DEF TypeOK, Delete, Visible
<1>4. answers' \in [Items -> 0..2]
  <2>1. ASSUME SendDone \/ SendAgain
        PROVE  answers' = answers \/ answers' = [answers EXCEPT ![item] = Bump(@)]
    BY <2>1 DEF SendDone, SendAgain
  <2>2. \A n \in 0..2 : Bump(n) \in 0..2
    BY DEF Bump
  <2>. QED  BY SMTT(30), <2>1, <2>2, Movers DEF TypeOK
<1>5. channel' \in Seq(0..NumItems)
  <2>. DEFINE Frames == 0..NumItems
  <2>1. channel \in Seq(Frames) /\ 0 \in Frames /\ Items \subseteq Frames
    BY ItemAssumption DEF TypeOK, Items
  <2>. HIDE DEF Frames
  <2>2. ASSUME NEW i \in Items, Write(i)
        PROVE  channel' = channel \/ \E e \in Frames : channel' = Append(channel, e)
    BY <2>1, <2>2 DEF Write
  <2>3. Repeat => channel # <<>> /\ channel' = <<Head(channel)>> \o channel
    BY DEF Repeat
  <2>4. Receive => channel # <<>> /\ channel' = Tail(channel)
    BY DEF Receive
  <2>5. Drop \/ Crash => channel' = <<>>
    BY DEF Drop, Crash
  <2>6. <<>> \in Seq(Frames)
    OBVIOUS
  <2>7. channel' \in Seq(Frames)
    <3>1. ASSUME NEW e \in Frames, channel' = Append(channel, e)  PROVE channel' \in Seq(Frames)
      BY <2>1, <3>1, PushBack
    <3>2. CASE Repeat
      BY <2>1, <2>3, <3>2, PushHead
    <3>3. CASE Receive
      BY <2>1, <2>4, <3>3, DropHead
    <3>. QED  BY <2>1, <2>2, <2>5, <2>6, <3>1, <3>2, <3>3, Movers
  <2>. QED  BY <2>7 DEF Frames
<1>6. /\ connected' \in BOOLEAN /\ missed' \in SUBSET Items
      /\ pc' \in PCs /\ reason' \in Reasons
  BY SmallTypes
<1>7. pc = "comment" => rows # <<>>
  BY DEF Control
<1>8. rows # <<>> => Head(rows) \in Items /\ Tail(rows) \in Seq(Items)
  BY HeadTailProperties DEF TypeOK
<1>9. 0 \in 0..NumItems /\ Items \subseteq 0..NumItems
  BY ItemAssumption DEF Items
<1>10. frame' \in 0..NumItems
  <2>1. channel # <<>> => Head(channel) \in 0..NumItems
    BY HeadTailProperties DEF TypeOK
  <2>. QED  BY <1>7, <1>8, <1>9, <2>1, TriggerMoves DEF TypeOK
<1>11. item' \in 0..NumItems
  <2>1. Sought(History(Place[frame])) \subseteq 0..NumItems
    BY HistoryShown, SoughtShown, ItemAssumption DEF Visible, TypeOK
  <2>. QED  BY <1>7, <1>8, <1>9, <2>1, TriggerMoves DEF TypeOK
<1>12. rows' \in Seq(Items)
  <2>1. <<>> \in Seq(Items)
    OBVIOUS
  <2>2. ASSUME Crash \/ Scan \/ SkipComment \/ TakeComment
        PROVE  \/ rows' = <<>> \/ rows' = rows
               \/ (rows # <<>> \/ pc = "comment") /\ rows' = Tail(rows)
    BY <2>2 DEF Crash, Scan, SkipComment, TakeComment
  <2>. QED  BY <2>1, <2>2, <1>7, <1>8, RowsRead, Movers DEF TypeOK
<1>13. attempts' \in 0..(MaxAttempts - 1)
  <2>1. MaxAttempts \in Nat /\ MaxAttempts > 0 /\ attempts \in 0..(MaxAttempts - 1)
    BY SettingTypes DEF TypeOK
  <2>2. \/ attempts' \in {0, attempts}
        \/ (attempts + 1 < MaxAttempts /\ attempts' = attempts + 1)
    BY SmallTypes
  <2>. QED  BY <2>1, <2>2
<1>14. seen' \in Seq(Items) /\ Len(seen') <= DedupeWindow
  <2>1. ASSUME Scan \/ Judge \/ SkipComment
        PROVE  seen' = seen \/ \E i \in Items \cup {0} : Remember(i)
    <3>1. item \in Items \cup {0}
      BY ItemAssumption DEF TypeOK, Items
    <3>. QED  BY <2>1, <3>1, <1>7, <1>8 DEF Scan, Judge, SkipComment
  <2>2. CASE Crash
    <3>1. seen' = <<>>
      BY <2>2 DEF Crash
    <3>2. Len(<<>>) <= DedupeWindow /\ <<>> \in Seq(Items)
      BY SettingTypes
    <3>. QED  BY <3>1, <3>2
  <2>. QED  BY <2>1, <2>2, RememberKept, Movers DEF TypeOK
<1>15. known' \in SUBSET Places
  <2>1. CASE ReadType
    <3>1. frame \in Items
      BY <2>1 DEF ReadType, Control, Arrived
    <3>2. known' \subseteq known \cup {Place[frame]}
      BY <2>1 DEF ReadType
    <3>. QED  BY <3>1, <3>2 DEF TypeOK, Places
  <2>. QED  BY <2>1, Movers DEF TypeOK, Crash
<1>16. sent' \in [Places -> Seq(Times)]
  <2>1. CASE SendDone
    <3>1. sent' = [sent EXCEPT ![Place[frame]] = Append(@, now)]
      BY <2>1 DEF SendDone
    <3>2. \A s \in Seq(Times) : Append(s, now) \in Seq(Times)
      BY AppendProperties DEF TypeOK
    <3>. QED  BY <3>1, <3>2 DEF TypeOK
  <2>2. CASE Crash
    BY <2>2 DEF Crash
  <2>. QED  BY <2>1, <2>2, Movers DEF TypeOK
<1>17. verdicts' \in [Items -> 0..2] /\ stale' \in SUBSET Items
  <2>1. CASE Judge
    <3>1. \A n \in 0..2 : Bump(n) \in 0..2
      BY DEF Bump
    <3>2. UNCHANGED <<verdicts, stale>> \/ Respond(item)
      BY <2>1 DEF Judge
    <3>3. Respond(item) => item \in Items
      BY ItemAssumption DEF Respond, TypeOK, Items
    <3>4. verdicts' \in {verdicts, [verdicts EXCEPT ![item] = Bump(@)]}
      BY <2>1 DEF Judge
    <3>5. stale' \in {stale, stale \cup {item}}
      BY <2>1 DEF Judge
    <3>6. verdicts \in [Items -> 0..2] /\ stale \in SUBSET Items
      BY DEF TypeOK
    <3>7. CASE UNCHANGED <<verdicts, stale>>
      BY <3>6, <3>7
    <3>8. CASE item \in Items
      BY <3>1, <3>4, <3>5, <3>6, <3>8
    <3>. QED  BY <3>2, <3>3, <3>7, <3>8
  <2>2. CASE Crash
    BY <2>2 DEF Crash, TypeOK
  <2>. QED  BY <2>1, <2>2, Movers DEF TypeOK
<1>18. failed' \in SUBSET Items /\ resent' \in SUBSET Items
  <2>1. pc \in {"compose", "send"} => item \in Items
    BY ItemAssumption DEF Control, TypeOK, Items
  <2>2. SendAgain => pc = "send" /\ resent' \in {resent, resent \cup {item}}
    BY DEF SendAgain
  <2>. QED  BY <2>1, <2>2, SmallTypes, Movers DEF TypeOK
<1>19. faults' \in 0..MaxFaults
  BY SMTT(30), SmallTypes, SettingAssumption DEF TypeOK
<1>20. forgotten' \in SUBSET Items
  <2>1. ASSUME Scan \/ Judge \/ SkipComment
        PROVE  UNCHANGED forgotten \/ \E i \in Items \cup {0} : Remember(i)
    <3>1. item \in Items \cup {0}
      BY ItemAssumption DEF TypeOK, Items
    <3>. QED  BY <2>1, <3>1, <1>7, <1>8 DEF Scan, Judge, SkipComment
  <2>2. Remembered \subseteq Items
    BY ElementOfSeq DEF Remembered, TypeOK
  <2>. QED  BY <2>1, <2>2, RememberKept, Movers DEF TypeOK
<1>. QED
  BY <1>1, <1>2, <1>3, <1>4, <1>5, <1>6, <1>10, <1>11, <1>12, <1>13, <1>14, <1>15,
     <1>16, <1>17, <1>18, <1>19, <1>20 DEF TypeOK

(***************************************************************************)
(* The parts of the invariant, one by one.                                 *)
(***************************************************************************)

(* Items are written in order, and time does not go back. *)
LEMMA ChronicleKept ==
  ASSUME TypeOK, Chronicle, [Next]_vars
  PROVE  Chronicle'
<1>1. now \in Nat /\ startedAt \in Nat /\ \A i \in Items : bornAt[i] \in Nat
  BY DEF TypeOK, Times
<1>2. CASE UNCHANGED <<now, bornAt, startedAt>>
  BY <1>2 DEF Chronicle, Written
<1>3. CASE Tick \/ Start
  <2>1. now' = now + 1 /\ bornAt' = bornAt /\ startedAt' \in {startedAt, now'}
    BY <1>3 DEF Tick, Start, memoryVars
  <2>. QED  BY <1>1, <2>1 DEF Chronicle, Written
<1>4. ASSUME NEW i \in Items, Write(i)
      PROVE  Chronicle'
  <2>1. /\ now' = now /\ startedAt' = startedAt
        /\ bornAt' = [bornAt EXCEPT ![i] = now]
        /\ ~Written(i) /\ \A j \in Items : j < i => Written(j)
    BY <1>4 DEF Write, memoryVars
  <2>2. bornAt \in [Items -> Times]
    BY DEF TypeOK
  <2>3. bornAt'[i] = now /\ \A j \in Items : j # i => bornAt'[j] = bornAt[j]
    BY <2>1, <2>2
  <2>4. now' > 0 /\ startedAt' <= now' /\ \A j \in Items : bornAt'[j] <= now'
    BY <1>1, <2>1, <2>3 DEF Chronicle
  <2>5. ASSUME NEW j \in Items, NEW k \in Items, j < k, bornAt'[k] > 0
        PROVE  bornAt'[j] > 0 /\ bornAt'[j] <= bornAt'[k]
    <3>1. CASE k = i
      <4>1. j # i /\ bornAt[j] > 0
        BY <2>1, <2>5, <3>1 DEF Written, Items
      <4>. QED  BY <1>1, <2>3, <3>1, <4>1 DEF Chronicle
    <3>2. CASE k # i
      <4>1. bornAt[j] > 0 /\ bornAt[j] <= bornAt[k]
        BY <2>3, <2>5, <3>2 DEF Chronicle, Written
      <4>2. j # i
        BY <2>1, <4>1 DEF Written
      <4>. QED  BY <2>3, <3>2, <4>1, <4>2
    <3>. QED  BY <3>1, <3>2
  <2>. QED  BY <2>4, <2>5 DEF Chronicle, Written
<1>. QED  BY <1>2, <1>3, <1>4, ClockMoves

(* A message that arrived stays so until the next start. *)
LEMMA ArrivalStays ==
  ASSUME TypeOK, [Next]_vars, ~Start, NEW f, Arrived(f)
  PROVE  f \in Items \ Comments /\ bornAt'[f] > 0 /\ bornAt'[f] >= startedAt'
<1>1. f \in Items \ Comments /\ bornAt'[f] = bornAt[f]
  BY BornOnce DEF Arrived
<1>2. startedAt' = startedAt
  BY ClockMoves DEF Write, Tick, memoryVars
<1>. QED  BY <1>1, <1>2 DEF Arrived, Written

(* Only what was written since the start is on the channel. *)
LEMMA StreamKept ==
  ASSUME TypeOK, Chronicle, Stream, [Next]_vars
  PROVE  Stream'
<1>1. connected' => pc' # "down"
  BY DEF Stream, Next, Step, vars, platformVars, triggerVars, memoryVars, ghostVars,
       Write, Delete, Tick, Repeat, Drop, Start, Crash, Connect, Receive, ReadType,
       Probe, Scan, FetchHistory, Judge, Compose, SendDone, SendAgain, SendRejected,
       ReadNotifications, ReadReplies, AfterPages,
       SkipComment, TakeComment, Done, NoTrigger, Classified
<1>2. ~connected' => channel' = <<>>
  <2>1. ASSUME NEW i \in Items, Write(i)  PROVE ~connected' => channel' = <<>>
    BY <2>1 DEF Write, Stream
  <2>2. Repeat \/ Receive => connected'
    BY DEF Repeat, Receive, Stream
  <2>3. Drop \/ Crash => channel' = <<>>
    BY DEF Drop, Crash
  <2>4. Connect => connected'
    BY DEF Connect
  <2>. QED  BY <2>1, <2>2, <2>3, <2>4, Movers DEF Stream
<1>3. ASSUME NEW k \in DOMAIN channel', channel'[k] # 0
      PROVE  Arrived(channel[k])'
  <2>. DEFINE Old(e) == \E l \in DOMAIN channel : e = channel[l]
  <2>1. CASE Old(channel'[k])
    <3>1. PICK f : f = channel'[k]
      OBVIOUS
    <3>2. Arrived(f)
      BY <1>3, <2>1, <3>1 DEF Stream
    <3>3. channel # <<>>
      BY <2>1
    <3>4. ~Start
      BY <3>3 DEF Start, Stream
    <3>. QED  BY <3>1, <3>2, <3>4, ArrivalStays DEF Arrived, Written
  <2>2. ASSUME NEW i \in Items, Write(i), ~Old(channel'[k])
        PROVE  Arrived(channel[k])'
    <3>1. channel' = Append(channel, IF i \in Comments THEN 0 ELSE i)
      BY <2>2 DEF Write
    <3>2. channel'[k] = IF i \in Comments THEN 0 ELSE i
      <4>1. PICK e \in 0..NumItems : e = IF i \in Comments THEN 0 ELSE i
        BY ItemAssumption DEF Items
      <4>2. channel \in Seq(0..NumItems)
        BY DEF TypeOK
      <4>3. /\ DOMAIN channel' = 1..(Len(channel) + 1)
            /\ DOMAIN channel = 1..Len(channel) /\ Len(channel) \in Nat
            /\ \A l \in 1..Len(channel) : channel'[l] = channel[l]
            /\ channel'[Len(channel) + 1] = e
        BY <3>1, <4>1, <4>2, PushBack
      <4>4. k \notin DOMAIN channel
        BY <2>2, <4>3
      <4>5. k = Len(channel) + 1
        BY <4>3, <4>4
      <4>. QED  BY <4>1, <4>3, <4>5
    <3>3. channel'[k] = i /\ i \notin Comments
      BY <1>3, <3>2
    <3>4. bornAt' = [bornAt EXCEPT ![i] = now] /\ startedAt' = startedAt
      BY <2>2 DEF Write, memoryVars
    <3>5. bornAt'[i] = now
      BY <3>4 DEF TypeOK
    <3>6. now > 0 /\ now >= startedAt
      BY DEF Chronicle, TypeOK, Times
    <3>. QED  BY <3>3, <3>4, <3>5, <3>6 DEF Arrived, Written
  <2>3. CASE ~(\E i \in Items : Write(i)) /\ ~Old(channel'[k])
    <3>1. channel' # <<>> /\ channel' # channel
      BY <1>3, <2>3
    <3>2. channel \in Seq(0..NumItems)
      BY DEF TypeOK
    <3>3. Repeat \/ Receive
      BY <2>3, <3>1, Movers DEF Drop, Crash
    <3>4. CASE Repeat
      BY <3>2, <3>4, <1>3, <2>3, PushHead DEF Repeat
    <3>5. CASE Receive
      BY <3>2, <3>5, <1>3, <2>3, DropHead DEF Receive
    <3>. QED  BY <3>3, <3>4, <3>5
  <2>. QED  BY <2>1, <2>2, <2>3
<1>. QED  BY <1>1, <1>2, <1>3 DEF Stream

(* The newest of a set come with every newer element of it. *)
LEMMA NewestUpward ==
  ASSUME NEW S \in SUBSET Items, NEW k \in Nat, NEW i \in Newest(S, k), NEW f \in S, i < f
  PROVE  f \in Newest(S, k)
<1>. DEFINE Above(e) == {j \in S : j > e}
<1>1. Above(i) \in SUBSET Items /\ Above(f) \in SUBSET Above(i)
  <2>1. Items \subseteq Int /\ i \in S
    BY ItemAssumption DEF Items, Newest
  <2>2. \A j \in S : j > f => j > i
    BY <2>1
  <2>. QED  BY <2>2
<1>2. IsFiniteSet(Above(i)) /\ Cardinality(Above(i)) \in Nat /\ Cardinality(Above(f)) \in Nat
  BY <1>1, SomeItems
<1>3. Cardinality(Above(f)) <= Cardinality(Above(i))
  BY <1>1, <1>2, FS_Subset
<1>4. Cardinality(Above(i)) < k
  BY DEF Newest
<1>5. Cardinality(Above(f)) < k
  BY <1>2, <1>3, <1>4
<1>. QED  BY <1>5 DEF Newest

(* What a history read finds for a mention or a direct message is live, or   *)
(* stands in for the frame's own message, which is gone.                    *)
LEMMA SoughtExcused ==
  ASSUME TypeOK, Chronicle, Control, pc = "history",
         NEW i \in Sought(History(Place[frame])), i # item
  PROVE  /\ i \in Visible \ Comments
         /\ bornAt[i] >= startedAt \/ Excused(i)
<1>. DEFINE here  == {j \in Visible \ Comments : Place[j] = Place[frame]}
            shown == History(Place[frame])
            found == IF reason = "mention"
                     THEN {j \in shown : Author[j] = Author[frame] /\ j \in Mentions}
                     ELSE {j \in shown : Author[j] # Self}
<1>1. reason \in {"mention", "dm"} /\ i \in Latest(found)
  <2>1. "mention" # "dm"
    OBVIOUS
  <2>. QED  BY <2>1 DEF Sought
<1>2. i \in Newest(here, HistoryWindow) \ Malformed /\ i \in here
  BY <1>1 DEF Latest, History, FetchedMessages, Newest
<1>3. i \in Items /\ i \in Visible \ Comments /\ Written(i) /\ Place[i] = Place[frame]
  BY <1>2 DEF Visible
<1>4. Arrived(frame) /\ frame \in Items \ Comments /\ Author[frame] # Self
  BY DEF Control, Arrived
<1>5. CASE bornAt[i] < startedAt
  <2>1. bornAt[i] \in Nat /\ bornAt[frame] \in Nat /\ startedAt \in Nat
    BY <1>3, <1>4 DEF TypeOK, Times
  <2>2. bornAt[i] < bornAt[frame]
    BY <1>4, <1>5, <2>1 DEF Arrived
  <2>3. i < frame
    <3>1. ~(frame < i) /\ frame # i
      BY <1>3, <1>4, <2>1, <2>2 DEF Chronicle
    <3>. QED  BY <1>3, <1>4, <3>1, ItemAssumption DEF Items
  <2>4. frame \in deleted \cup Malformed
    <3>. SUFFICES ASSUME frame \notin deleted \cup Malformed  PROVE FALSE
      OBVIOUS
    <3>1. frame \in here
      BY <1>4 DEF Arrived, Visible
    <3>2. here \in SUBSET Items
      BY DEF Visible
    <3>3. HistoryWindow \in Nat
      BY SettingTypes
    <3>4. frame \in Newest(here, HistoryWindow)
      BY <1>2, <2>3, <3>1, <3>2, <3>3, NewestUpward
    <3>5. frame \in shown
      BY <3>4 DEF History, FetchedMessages
    <3>6. frame \in found
      BY <1>4, <3>5 DEF Control
    <3>7. frame <= i
      BY <1>1, <3>6 DEF Latest
    <3>. QED  BY <1>3, <1>4, <2>3, <3>7, ItemAssumption DEF Items
  <2>5. \/ {i, frame} \subseteq Mentions /\ Author[i] = Author[frame]
        \/ Place[frame] \in DMs
    BY <1>1 DEF Control, Latest
  <2>. QED  BY <1>3, <1>4, <2>2, <2>4, <2>5 DEF Excused
<1>6. CASE ~(bornAt[i] < startedAt)
  <2>1. bornAt[i] \in Nat /\ startedAt \in Nat
    BY <1>3 DEF TypeOK, Times
  <2>. QED  BY <1>3, <1>6, <2>1
<1>. QED  BY <1>5, <1>6

(* Each call of the bot is about what the handler put in its hands. *)
LEMMA ControlKept ==
  ASSUME TypeOK, TypeOK', Stream, Control, Offered, [Next]_vars
  PROVE  Control'
<1>. DEFINE Asking == {"type", "probe", "scan", "history"}
            Acting == {"judge", "compose", "send"}
<1>1. /\ pc' \in {"down", "idle", "notifications", "replies", "comment", "type", "probe", "scan"}
           => item' = 0
      /\ pc' \in {"probe", "scan"} => reason' = "reply"
      /\ pc' \in {"compose", "send"} => item' # 0
      /\ pc' = "comment" => rows' # <<>>
      /\ pc' \in {"down", "idle", "type", "probe", "history", "notifications"} => rows' = <<>>
      /\ pc' = "history" =>
           /\ reason' # "none"
           /\ reason' = "mention" => frame' \in Mentions /\ item' = 0
           /\ reason' = "dm" => Place[frame'] \in DMs /\ item' = 0
  <2>. USE DEF Next, Step, vars, platformVars, triggerVars, memoryVars, ghostVars,
       Write, Delete, Tick, Repeat, Drop, Start, Crash, Connect, Receive, ReadType,
       Probe, Scan, FetchHistory, Judge, Compose, SendDone, SendAgain, SendRejected,
       ReadNotifications, ReadReplies, AfterPages,
       SkipComment, TakeComment, Done, NoTrigger, Classified
  <2>1. pc' \in {"down", "idle", "notifications", "replies", "comment", "type", "probe", "scan"}
          => item' = 0
    BY DEF Control
  <2>2. pc' \in {"probe", "scan"} => reason' = "reply"
    BY DEF Control
  <2>3. pc' \in {"compose", "send"} => item' # 0
    BY DEF Control, Respond
  <2>4. pc' = "comment" => rows' # <<>>
    BY DEF Control
  <2>5. pc' \in {"down", "idle", "type", "probe", "history", "notifications"} => rows' = <<>>
    BY DEF Control
  <2>6. pc' = "history" => reason' # "none"
    BY DEF Control
  <2>7. pc' = "history" /\ reason' = "mention" => frame' \in Mentions /\ item' = 0
    BY DEF Control
  <2>8. pc' = "history" /\ reason' = "dm" => Place[frame'] \in DMs /\ item' = 0
    BY DEF Control, IsSingle
  <2>. HIDE DEF Next
  <2>. QED  BY <2>1, <2>2, <2>3, <2>4, <2>5, <2>6, <2>7, <2>8
<1>2. /\ pc' \in Asking =>
           /\ ~Start
           /\ \/ pc \in Asking /\ frame' = frame
              \/ /\ channel # <<>> /\ frame' = Head(channel)
                 /\ Head(channel) # 0 /\ Author[Head(channel)] # Self
      /\ pc' \in Acting =>
           \/ pc \in Asking \cup Acting /\ frame' = frame
           \/ pc = "comment" /\ frame' = Head(rows)
      /\ pc' = "history" =>
           \/ item' = 0
           \/ pc \in Asking /\ item' = item
           \/ rows # <<>> /\ item' = Head(rows) /\ IsLive(item')
  <2>. USE DEF Next, Step, vars, platformVars, triggerVars, memoryVars, ghostVars,
       Write, Delete, Tick, Repeat, Drop, Start, Crash, Connect, Receive, ReadType,
       Probe, Scan, FetchHistory, Judge, Compose, SendDone, SendAgain, SendRejected,
       ReadNotifications, ReadReplies, AfterPages,
       SkipComment, TakeComment, Done, NoTrigger, Classified
  <2>1. pc' \in Asking =>
           /\ ~Start
           /\ \/ pc \in Asking /\ frame' = frame
              \/ /\ channel # <<>> /\ frame' = Head(channel)
                 /\ Head(channel) # 0 /\ Author[Head(channel)] # Self
    BY DEF Control
  <2>2. pc' \in Acting =>
           \/ pc \in Asking \cup Acting /\ frame' = frame
           \/ pc = "comment" /\ frame' = Head(rows)
    BY DEF Control
  <2>3. pc' = "history" =>
           \/ item' = 0
           \/ pc \in Asking /\ item' = item
           \/ rows # <<>> /\ item' = Head(rows) /\ IsLive(item')
    BY DEF Control
  <2>. HIDE DEF Next, Start
  <2>. QED  BY <2>1, <2>2, <2>3
<1>3. pc' \in Asking => Arrived(frame)' /\ Author[frame'] # Self
  <2>. SUFFICES ASSUME pc' \in Asking  PROVE Arrived(frame)' /\ Author[frame'] # Self
    OBVIOUS
  <2>1. PICK f : f = frame'
    OBVIOUS
  <2>2. Arrived(f) /\ Author[f] # Self
    <3>1. CASE pc \in Asking /\ frame' = frame
      BY <2>1, <3>1 DEF Control
    <3>2. CASE /\ channel # <<>> /\ frame' = Head(channel)
               /\ Head(channel) # 0 /\ Author[Head(channel)] # Self
      <4>1. PICK l \in DOMAIN channel : Head(channel) = channel[l]
        BY <3>2, DropHead DEF TypeOK
      <4>. QED  BY <2>1, <3>2, <4>1 DEF Stream
    <3>. QED  BY <1>2, <3>1, <3>2
  <2>. QED  BY <1>2, <2>1, <2>2, ArrivalStays DEF Arrived, Written
<1>4. pc' \in Acting => frame' \in Items
  <2>1. pc = "comment" => Head(rows) \in Items
    BY DropHead DEF Control, TypeOK
  <2>. QED  BY <1>2, <2>1 DEF Control, Arrived
<1>5. pc' = "history" /\ item' # 0 => bornAt'[item'] >= startedAt'
  <2>. SUFFICES ASSUME pc' = "history", item' # 0  PROVE bornAt'[item'] >= startedAt'
    OBVIOUS
  <2>1. item' \in Items
    BY ItemAssumption DEF TypeOK, Items
  <2>2. bornAt[item'] >= startedAt /\ Written(item')
    <3>1. CASE item' = item /\ pc \in Asking
      BY <2>1, <3>1 DEF Control, Offered
    <3>2. CASE rows # <<>> /\ item' = Head(rows) /\ IsLive(item')
      <4>1. PICK l \in DOMAIN rows : Head(rows) = rows[l]
        BY <3>2, DropHead DEF TypeOK
      <4>. QED  BY <3>2, <4>1 DEF Offered, IsLive
    <3>. QED  BY <1>2, <3>1, <3>2
  <2>3. startedAt' = startedAt
    BY <1>2, ClockMoves DEF Write, Tick, memoryVars
  <2>4. PICK i \in Items : i = item'
    BY <2>1
  <2>. QED  BY <2>2, <2>3, <2>4, BornOnce
<1>. QED  BY <1>1, <1>3, <1>4, <1>5 DEF Control

(* What was written stays written. *)
LEMMA WrittenStays ==
  ASSUME TypeOK, [Next]_vars, NEW i \in Items, Written(i)
  PROVE  bornAt'[i] > 0
BY BornOnce DEF Written

(* What the bot holds is what it held before or what it has just read. *)
LEMMA OfferedKept ==
  ASSUME TypeOK, TypeOK', Chronicle, Control, Offered, [Next]_vars
  PROVE  Offered'
<1>1. rows # <<>> => Head(rows) \in Items /\ Written(Head(rows))
  BY DropHead DEF TypeOK, Offered
<1>2. pc = "comment" => rows # <<>>
  BY DEF Control
<1>3. item' # 0 => item' \in Items /\ Written(item')
  <2>. SUFFICES ASSUME item' # 0  PROVE item' \in Items /\ Written(item')
    OBVIOUS
  <2>1. item' \in Items
    BY ItemAssumption DEF TypeOK, Items
  <2>2. CASE item' = item
    BY <2>1, <2>2 DEF Offered
  <2>3. CASE pc = "history" /\ item' \in Sought(History(Place[frame])) /\ item' # item
    BY <2>1, <2>3, SoughtExcused DEF Visible
  <2>. QED  BY <1>1, <1>2, <2>1, <2>2, <2>3, TriggerMoves
<1>4. item' # 0 => Written(item)'
  <2>1. PICK i : i = item'
    OBVIOUS
  <2>. QED  BY <1>3, <2>1, WrittenStays DEF Written
<1>5. ASSUME NEW k \in DOMAIN rows'
      PROVE  Written(rows[k])'
  <2>1. PICK i : i = rows'[k]
    OBVIOUS
  <2>2. i \in Items /\ Written(i)
    <3>1. CASE Probe \/ ReadNotifications \/ ReadReplies
      <4>1. i \in Visible \/ \E l \in DOMAIN rows : i = rows[l]
        BY <1>5, <2>1, <3>1, RowsRead DEF TypeOK
      <4>2. \A l \in DOMAIN rows : rows[l] \in Items
        BY ElementOfSeq DEF TypeOK
      <4>. QED  BY <4>1, <4>2 DEF Visible, Offered
    <3>2. CASE ~(Probe \/ ReadNotifications \/ ReadReplies)
      <4>1. \/ rows' = rows \/ rows' = <<>>
            \/ rows # <<>> /\ rows' = Tail(rows)
        BY <1>2, <3>2, Movers DEF Crash, Scan, SkipComment, TakeComment
      <4>2. CASE rows' = rows
        BY <1>5, <2>1, <4>2, ElementOfSeq DEF TypeOK, Offered
      <4>3. CASE rows' = <<>>
        BY <1>5, <4>3
      <4>4. CASE rows # <<>> /\ rows' = Tail(rows)
        <5>1. PICK l \in DOMAIN rows : rows'[k] = rows[l]
          BY <1>5, <4>4, DropHead DEF TypeOK
        <5>2. rows[l] \in Items
          BY ElementOfSeq DEF TypeOK
        <5>. QED  BY <2>1, <5>1, <5>2 DEF Offered
      <4>. QED  BY <4>1, <4>2, <4>3, <4>4
    <3>. QED  BY <3>1, <3>2
  <2>. QED  BY <2>1, <2>2, WrittenStays DEF Written
<1>6. ASSUME NEW k \in DOMAIN seen'
      PROVE  Written(seen[k])'
  <2>1. PICK i : i = seen'[k]
    OBVIOUS
  <2>2. \A l \in DOMAIN seen : seen[l] \in Items /\ Written(seen[l])
    BY ElementOfSeq DEF TypeOK, Offered
  <2>3. i \in Items /\ Written(i)
    <3>1. CASE seen' = seen
      BY <1>6, <2>1, <2>2, <3>1
    <3>2. CASE Crash
      BY <1>6, <3>2 DEF Crash
    <3>3. ASSUME NEW e \in Items \cup {0}, e # 0 => Written(e), Remember(e)
          PROVE  i \in Items /\ Written(i)
      <4>1. seen' # seen => e # 0
        BY <3>3 DEF Remember
      <4>2. seen'[k] = e \/ seen'[k] \in Remembered
        BY <1>6, <3>3, RememberKept DEF TypeOK
      <4>. QED  BY <2>1, <2>2, <3>1, <3>3, <4>1, <4>2 DEF Remembered
    <3>4. Scan \/ Judge \/ SkipComment
             => seen' = seen \/ \E e \in Items \cup {0} : (e # 0 => Written(e)) /\ Remember(e)
      <4>1. item \in Items \cup {0} /\ (item # 0 => Written(item))
        BY ItemAssumption DEF TypeOK, Items, Offered
      <4>. QED  BY <1>1, <1>2, <4>1 DEF Scan, Judge, SkipComment
    <3>. QED  BY <3>1, <3>2, <3>3, <3>4, Movers
  <2>. QED  BY <2>1, <2>3, WrittenStays DEF Written
<1>7. ASSUME NEW i \in stale'
      PROVE  Written(i)'
  <2>1. Judge => i \in stale \/ (i = item /\ item \in Items)
    BY <1>7, ItemAssumption DEF Judge, Respond, TypeOK, Items
  <2>2. i \in stale \/ (i = item /\ item \in Items)
    BY <1>7, <2>1, Movers DEF Crash
  <2>3. item \in Items => item # 0
    BY ItemAssumption DEF Items
  <2>4. i \in Items /\ Written(i)
    BY <2>2, <2>3 DEF Offered, TypeOK
  <2>. QED  BY <2>4, WrittenStays DEF Written
<1>8. ASSUME NEW i \in Items, answers'[i] > 0
      PROVE  Written(i)'
  <2>1. SendDone \/ SendAgain
           => pc = "send" /\ answers' \in {answers, [answers EXCEPT ![item] = Bump(@)]}
    BY DEF SendDone, SendAgain
  <2>2. answers[i] > 0 \/ (i = item /\ item # 0)
    <3>1. answers[i] = answers'[i] \/ (pc = "send" /\ i = item)
      BY <2>1, Movers DEF TypeOK
    <3>. QED  BY <1>8, <3>1 DEF Control
  <2>3. Written(i)
    BY <2>2 DEF Offered
  <2>. QED  BY <2>3, WrittenStays DEF Written
<1>9. pc' = "judge" /\ item' # 0 =>
        bornAt'[item'] >= startedAt' \/ (item' \notin Comments /\ Excused(item)')
  <2>. SUFFICES ASSUME pc' = "judge", item' # 0
                PROVE  bornAt'[item'] >= startedAt' \/ (item' \notin Comments /\ Excused(item)')
    OBVIOUS
  <2>1. /\ startedAt' = startedAt
        /\ \/ pc = "judge" /\ item' = item
           \/ pc = "history" /\ item' = item
           \/ pc = "history" /\ item' \in Sought(History(Place[frame]))
           \/ IsLive(item')
    <3>1. ~Start /\ \/ pc = "judge" /\ item' = item
                    \/ pc = "history" /\ item' = item
                    \/ pc = "history" /\ item' \in Sought(History(Place[frame]))
                    \/ IsLive(item')
      BY DEF Next, Step, vars, platformVars, triggerVars, memoryVars, ghostVars,
       Write, Delete, Tick, Repeat, Drop, Start, Crash, Connect, Receive, ReadType,
       Probe, Scan, FetchHistory, Judge, Compose, SendDone, SendAgain, SendRejected,
       ReadNotifications, ReadReplies, AfterPages,
       SkipComment, TakeComment, Done, NoTrigger, Classified
    <3>. QED  BY <3>1, ClockMoves DEF Write, Tick, memoryVars
  <2>2. PICK i \in Items : i = item' /\ Written(i)
    BY <1>3
  <2>3. bornAt[i] >= startedAt \/ (i \notin Comments /\ Excused(i))
    <3>1. CASE item' = item
      BY <2>1, <2>2, <3>1 DEF Control, Offered, IsLive
    <3>2. CASE item' # item
      BY <2>1, <2>2, <3>2, SoughtExcused DEF IsLive
    <3>. QED  BY <3>1, <3>2
  <2>4. bornAt[i] >= startedAt => bornAt'[i] >= startedAt'
    BY <2>1, <2>2, BornOnce
  <2>5. Excused(i) => Excused(i)'
    BY <2>2, ExcuseStays
  <2>. QED  BY <2>2, <2>3, <2>4, <2>5 DEF Excused
<1>. QED  BY <1>4, <1>5, <1>6, <1>7, <1>8, <1>9 DEF Offered

(* Where the seen keys change, and how. *)
LEMMA SeenMoves ==
  ASSUME TypeOK, Control, Offered, [Next]_vars, ~Crash
  PROVE  \/ UNCHANGED <<seen, forgotten>>
         \/ \E e \in Items \cup {0} : (e # 0 => Written(e)) /\ Remember(e)
<1>1. item \in Items \cup {0} /\ (item # 0 => Written(item))
  BY ItemAssumption DEF TypeOK, Items, Offered
<1>2. rows # <<>> => Head(rows) \in Items /\ Written(Head(rows))
  BY DropHead DEF TypeOK, Offered
<1>3. pc = "comment" => rows # <<>>
  BY DEF Control
<1>. QED  BY <1>1, <1>2, <1>3, Movers DEF Scan, Judge, SkipComment

(* What was answered twice or late, or forgotten, stays on record. *)
LEMMA HistoryGrows ==
  ASSUME [Next]_vars
  PROVE  resent \subseteq resent' /\ stale \subseteq stale' /\ forgotten \subseteq forgotten'
<1>1. SendAgain => resent \subseteq resent'
  BY DEF SendAgain
<1>2. Judge \/ Crash => stale \subseteq stale'
  BY DEF Judge, Crash
<1>3. Scan \/ Judge \/ SkipComment => forgotten \subseteq forgotten'
  BY DEF Scan, Judge, SkipComment, Remember
<1>. QED  BY <1>1, <1>2, <1>3, Movers

(* An item decided on is remembered until it makes room. *)
LEMMA WindowKept ==
  ASSUME TypeOK, Control, Offered, Window, [Next]_vars
  PROVE  Window'
<1>1. CASE Crash
  <2>1. seen' = <<>> /\ verdicts' = [i \in Items |-> 0]
    BY <1>1 DEF Crash
  <2>. QED  BY <2>1 DEF Window
<1>2. CASE ~Crash
  <2>1. \A k, l \in DOMAIN seen' : seen'[k] = seen'[l] => k = l
    BY <1>2, SeenMoves, RememberKept DEF Window, TypeOK
  <2>2. \A j \in Remembered : verdicts[j] > 0 => j \in Remembered' \cup forgotten'
    BY <1>2, SeenMoves, RememberKept DEF TypeOK, Remembered
  <2>3. ASSUME NEW i \in Items, verdicts'[i] > 0
        PROVE  i \in Remembered' \cup forgotten'
    <3>1. CASE verdicts[i] > 0
      BY <2>2, <3>1, HistoryGrows DEF Window
    <3>2. CASE ~(verdicts[i] > 0)
      <4>1. Judge /\ verdicts' = [verdicts EXCEPT ![item] = Bump(@)]
        BY <1>2, <2>3, <3>2, Movers DEF Judge
      <4>2. i = item
        BY <2>3, <3>2, <4>1 DEF TypeOK
      <4>3. Remember(i) /\ i # 0
        BY <4>1, <4>2, ItemAssumption DEF Judge, Items
      <4>. QED  BY <4>3, RememberKept DEF TypeOK
    <3>. QED  BY <3>1, <3>2
  <2>. QED  BY <2>1, <2>3 DEF Window
<1>. QED  BY <1>1, <1>2

(* No more is written than there was. *)
LEMMA FewBefore ==
  ASSUME TypeOK, [Next]_vars, FewWritten'
  PROVE  FewWritten
<1>. DEFINE Old == {i \in Items : Written(i)}
            New == {i \in Items : bornAt'[i] > 0}
<1>1. Old \in SUBSET New /\ New \in SUBSET Items
  BY WrittenStays
<1>2. IsFiniteSet(New) /\ Cardinality(New) \in Nat /\ Cardinality(Old) \in Nat
  BY <1>1, SomeItems
<1>3. Cardinality(Old) <= Cardinality(New)
  BY <1>1, <1>2, FS_Subset
<1>4. Cardinality(New) <= DedupeWindow
  BY DEF FewWritten, Written
<1>5. DedupeWindow \in Nat
  BY SettingTypes
<1>6. Cardinality(Old) <= DedupeWindow
  BY <1>2, <1>3, <1>4, <1>5
<1>. QED  BY <1>6 DEF FewWritten

(* While no more items were written than the window holds, a full window     *)
(* holds them all.                                                           *)
LEMMA FullWindow ==
  ASSUME TypeOK, Offered, Window, FewWritten, Len(seen) = DedupeWindow,
         NEW i \in Items, Written(i)
  PROVE  i \in Remembered
<1>. DEFINE written == {j \in Items : Written(j)}
            others  == written \ {i}
<1>. SUFFICES ASSUME i \notin Remembered  PROVE FALSE
  OBVIOUS
<1>1. PICK d \in Nat : d = DedupeWindow
  BY SettingTypes
<1>2. Len(seen) = d
  BY <1>1
<1>3. DOMAIN seen = 1..d
  BY <1>2 DEF TypeOK
<1>4. \A k \in 1..d : seen[k] \in others
  <2>1. \A k \in 1..d : seen[k] \in Items
    BY <1>3, ElementOfSeq DEF TypeOK
  <2>. QED  BY <1>3, <2>1 DEF Remembered, Offered
<1>5. seen \in Injection(1..d, others)
  <2>1. seen \in [1..d -> others]
    BY <1>3, <1>4 DEF TypeOK
  <2>. QED  BY <1>3, <2>1 DEF Window, Injection, IsInjective
<1>6. /\ IsFiniteSet(written) /\ Cardinality(written) \in Nat
      /\ IsFiniteSet(others) /\ Cardinality(others) \in Nat
  BY SomeItems
<1>7. Cardinality(1..d) <= Cardinality(others) /\ Cardinality(1..d) = d
  <2>1. Cardinality(1..d) <= Cardinality(others)
    BY <1>5, <1>6, FS_Injection
  <2>2. Cardinality(1..d) = d
    BY <1>1, FS_Interval
  <2>. QED  BY <2>1, <2>2
<1>8. Cardinality(others) = Cardinality(written) - 1
  BY <1>6, FS_RemoveElement
<1>9. Cardinality(written) <= d
  BY <1>1 DEF FewWritten
<1>. QED  BY <1>6, <1>7, <1>8, <1>9

(* So a key makes room only for one that is more than the window holds. *)
LEMMA WindowSufficesKept ==
  ASSUME TypeOK, Control, Offered, Window, WindowSuffices, [Next]_vars
  PROVE  WindowSuffices'
<1>. SUFFICES ASSUME FewWritten'  PROVE forgotten' = {}
  BY DEF WindowSuffices
<1>1. FewWritten /\ forgotten = {}
  BY FewBefore DEF WindowSuffices
<1>2. CASE forgotten' = forgotten
  BY <1>1, <1>2
<1>3. ASSUME NEW e \in Items \cup {0}, e # 0 => Written(e), Remember(e)
      PROVE  forgotten' = {}
  <2>1. ~(Len(seen) = DedupeWindow /\ e \in Items \ Remembered)
    <3>1. e \in Items => e # 0
      BY ItemAssumption DEF Items
    <3>. QED  BY <1>1, <1>3, <3>1, FullWindow
  <2>. QED  BY <1>1, <1>3, <2>1, RememberKept DEF TypeOK
<1>. QED  BY <1>2, <1>3, SeenMoves DEF Crash

(* An item the policy is about to answer has not been answered by this      *)
(* process, or the policy had to forget it.                                 *)
LEMMA FreshlyDecided ==
  ASSUME TypeOK, Window, pc = "judge", Respond(item), item \notin forgotten
  PROVE  item \in Items /\ verdicts[item] = 0
<1>1. item \in Items /\ item \notin Remembered
  BY ItemAssumption DEF Respond, TypeOK, Items
<1>2. ~(verdicts[item] > 0)
  BY <1>1 DEF Window
<1>3. verdicts[item] \in 0..2
  BY <1>1 DEF TypeOK
<1>. QED  BY <1>1, <1>2, <1>3

(* No step decides on an item again that was not forgotten. *)
LEMMA DecidedOnceKept ==
  ASSUME TypeOK, Window, DecidedOnce, [Next]_vars
  PROVE  DecidedOnce'
<1>. SUFFICES ASSUME NEW i \in Items, verdicts'[i] > 1, i \notin forgotten'  PROVE FALSE
  BY DEF DecidedOnce
<1>1. i \notin forgotten /\ ~(verdicts[i] > 1)
  BY HistoryGrows DEF DecidedOnce
<1>2. ~Crash /\ verdicts' # verdicts
  BY <1>1 DEF Crash
<1>3. pc = "judge" /\ Respond(item) /\ verdicts' = [verdicts EXCEPT ![item] = Bump(@)]
  BY <1>2, Movers DEF Judge
<1>4. i = item
  BY <1>1, <1>3 DEF TypeOK
<1>5. verdicts[i] = 0
  BY <1>1, <1>3, <1>4, FreshlyDecided
<1>. QED  BY <1>3, <1>4, <1>5 DEF Bump, TypeOK

(* An answer in the making stays the answer to the item it was decided for.  *)
LEMMA AnswerMoves ==
  ASSUME [Next]_vars, pc' \in {"compose", "send"}
  PROVE  /\ item' = item
         /\ \/ /\ Judge /\ pc = "judge" /\ Respond(item)
               /\ verdicts' = [verdicts EXCEPT ![item] = Bump(@)]
               /\ stale' = IF bornAt[item] < startedAt THEN stale \cup {item} ELSE stale
               /\ UNCHANGED <<answers, resent, startedAt, bornAt>>
            \/ /\ pc \in {"compose", "send"}
               /\ UNCHANGED <<verdicts, stale>>
               /\ answers' = answers \/ item \in resent'
<1>. USE DEF Next, Step, vars, platformVars, triggerVars, memoryVars, ghostVars,
       Write, Delete, Tick, Repeat, Drop, Start, Crash, Connect, Receive, ReadType,
       Probe, Scan, FetchHistory, Judge, Compose, SendDone, SendAgain, SendRejected,
       ReadNotifications, ReadReplies, AfterPages,
       SkipComment, TakeComment, Done, NoTrigger, Classified
<1>1. item' = item
  OBVIOUS
<1>2. \/ /\ Judge /\ pc = "judge" /\ Respond(item)
         /\ verdicts' = [verdicts EXCEPT ![item] = Bump(@)]
         /\ stale' = IF bornAt[item] < startedAt THEN stale \cup {item} ELSE stale
         /\ UNCHANGED <<answers, resent, startedAt, bornAt>>
      \/ /\ pc \in {"compose", "send"}
         /\ UNCHANGED <<verdicts, stale>>
         /\ answers' = answers \/ item \in resent'
  OBVIOUS
<1>. HIDE DEF Next, Judge, Start
<1>. QED  BY <1>1, <1>2

(* A process is up before and after every step but a start and a crash. *)
LEMMA UpBefore ==
  ASSUME [Next]_vars, pc' # "down"
  PROVE  (Start \/ pc # "down") /\ ~Crash
BY DEF Next, Step, vars, platformVars, triggerVars, memoryVars, ghostVars,
       Write, Delete, Tick, Repeat, Drop, Start, Crash, Connect, Receive, ReadType,
       Probe, Scan, FetchHistory, Judge, Compose, SendDone, SendAgain, SendRejected,
       ReadNotifications, ReadReplies, AfterPages,
       SkipComment, TakeComment, Done, NoTrigger, Classified

(* An answer in the making is the first of its item. *)
LEMMA LedgerKept ==
  ASSUME TypeOK, TypeOK', Chronicle, Control, Offered, Window, Ledger, [Next]_vars
  PROVE  Ledger'
<1>1. pc' \in {"compose", "send"} => verdicts'[item'] > 0
  <2>. SUFFICES ASSUME pc' \in {"compose", "send"}  PROVE verdicts'[item'] > 0
    OBVIOUS
  <2>1. CASE pc \in {"compose", "send"} /\ UNCHANGED <<verdicts, item>>
    BY <2>1 DEF Ledger
  <2>2. CASE Respond(item) /\ verdicts' = [verdicts EXCEPT ![item] = Bump(@)] /\ item' = item
    <3>1. item \in Items
      BY <2>2, ItemAssumption DEF Respond, TypeOK, Items
    <3>2. \A n \in 0..2 : Bump(n) > 0
      BY DEF Bump
    <3>. QED  BY <2>2, <3>1, <3>2 DEF TypeOK
  <2>. QED  BY <2>1, <2>2, AnswerMoves
<1>2. ASSUME NEW i \in Items \ (resent' \cup stale' \cup forgotten'),
             pc' \in {"compose", "send"}, item' = i
      PROVE  answers'[i] = 0
  <2>1. i \in Items \ (resent \cup stale \cup forgotten) /\ item = i
    BY <1>2, HistoryGrows, AnswerMoves
  <2>2. CASE pc \in {"compose", "send"} /\ (answers' = answers \/ item \in resent')
    BY <1>2, <2>1, <2>2 DEF Ledger
  <2>3. CASE /\ pc = "judge" /\ Respond(item) /\ answers' = answers
             /\ stale' = IF bornAt[item] < startedAt THEN stale \cup {item} ELSE stale
    <3>1. verdicts[i] = 0
      BY <2>1, <2>3, FreshlyDecided
    <3>2. ~(bornAt[i] < startedAt)
      BY <1>2, <2>1, <2>3
    <3>3. ~(answers[i] > 0)
      BY <2>1, <2>3, <3>1, <3>2 DEF Ledger
    <3>4. answers[i] \in 0..2
      BY DEF TypeOK
    <3>. QED  BY <2>3, <3>3, <3>4
  <2>. QED  BY <1>2, <2>2, <2>3, AnswerMoves
<1>3. ASSUME NEW i \in Items \ (resent' \cup stale' \cup forgotten'),
             answers'[i] > 0, pc' # "down"
      PROVE  verdicts'[i] > 0 \/ bornAt'[i] < startedAt'
  <2>1. i \in Items \ (resent \cup stale \cup forgotten)
    BY <1>3, HistoryGrows
  <2>2. verdicts[i] > 0 => verdicts'[i] > 0
    <3>1. \A n \in 0..2 : Bump(n) > 0
      BY DEF Bump
    <3>2. Judge => verdicts' = verdicts \/ verdicts' = [verdicts EXCEPT ![item] = Bump(@)]
      BY DEF Judge
    <3>3. verdicts' \in {verdicts, [verdicts EXCEPT ![item] = Bump(@)]}
      BY <1>3, <3>2, UpBefore, Movers
    <3>4. verdicts \in [Items -> 0..2] /\ i \in Items
      BY DEF TypeOK
    <3>5. i = item => [verdicts EXCEPT ![item] = Bump(@)][i] = Bump(verdicts[i])
      BY <3>4
    <3>6. i # item => [verdicts EXCEPT ![item] = Bump(@)][i] = verdicts[i]
      BY <3>4
    <3>. QED  BY <3>1, <3>3, <3>4, <3>5, <3>6
  <2>3. CASE Start
    <3>1. startedAt' = now + 1 /\ bornAt' = bornAt
      BY <2>3 DEF Start
    <3>2. now \in Nat /\ bornAt[i] \in Nat /\ bornAt[i] <= now
      BY DEF Chronicle, TypeOK, Times
    <3>. QED  BY <3>1, <3>2
  <2>4. CASE answers[i] > 0 /\ ~Start
    <3>1. verdicts[i] > 0 \/ bornAt[i] < startedAt
      BY <1>3, <2>1, <2>4, UpBefore DEF Ledger
    <3>2. bornAt'[i] = bornAt[i]
      BY <2>4, BornOnce DEF Offered
    <3>3. startedAt' = startedAt
      BY <2>4, ClockMoves DEF Write, Tick, memoryVars
    <3>. QED  BY <2>2, <3>1, <3>2, <3>3
  <2>5. CASE ~(answers[i] > 0)
    <3>1. pc = "send" /\ i = item
      BY <1>3, <2>5, Movers DEF SendDone, SendAgain, TypeOK
    <3>. QED  BY <2>2, <3>1 DEF Ledger
  <2>. QED  BY <2>3, <2>4, <2>5
<1>. QED  BY <1>1, <1>2, <1>3 DEF Ledger

(* No step answers an item again without an explanation. *)
LEMMA AnsweredTwiceKept ==
  ASSUME TypeOK, Ledger, AnsweredTwiceExplained, [Next]_vars
  PROVE  AnsweredTwiceExplained'
<1>. SUFFICES ASSUME NEW i \in Items, answers'[i] > 1,
                     i \notin resent' \cup stale' \cup forgotten'
              PROVE  FALSE
  BY DEF AnsweredTwiceExplained
<1>1. i \notin resent \cup stale \cup forgotten
  BY HistoryGrows
<1>2. answers[i] \in 0..2 /\ ~(answers[i] > 1)
  BY <1>1 DEF TypeOK, AnsweredTwiceExplained
<1>3. pc = "send" /\ i = item /\ answers' = [answers EXCEPT ![item] = Bump(@)]
  BY <1>2, Movers DEF SendDone, SendAgain, TypeOK
<1>4. answers[i] = 0
  BY <1>1, <1>3 DEF Ledger
<1>5. answers'[i] = 1
  BY <1>3, <1>4 DEF Bump, TypeOK
<1>. QED  BY <1>5

(* No step answers what predates the process without an excuse. *)
LEMMA BacklogKept ==
  ASSUME TypeOK, Offered, BacklogIgnored, [Next]_vars
  PROVE  BacklogIgnored'
<1>. SUFFICES ASSUME NEW i \in stale'  PROVE i \notin Comments /\ Excused(i)'
  BY DEF BacklogIgnored
<1>1. i \in stale \/ (Judge /\ i = item /\ Respond(item) /\ bornAt[item] < startedAt)
  BY Movers DEF Judge, Crash
<1>2. i \in Items /\ Written(i) /\ i \notin Comments /\ Excused(i)
  <2>1. CASE i \in stale
    BY <2>1 DEF Offered, BacklogIgnored, TypeOK
  <2>2. CASE Judge /\ i = item /\ Respond(item) /\ bornAt[item] < startedAt
    <3>1. i \in Items /\ i # 0 /\ pc = "judge"
      BY <2>2, ItemAssumption DEF Judge, Respond, TypeOK, Items
    <3>2. bornAt[i] \in Nat /\ startedAt \in Nat
      BY <3>1 DEF TypeOK, Times
    <3>3. ~(bornAt[i] >= startedAt)
      BY <2>2, <3>2
    <3>. QED  BY <2>2, <3>1, <3>3 DEF Offered
  <2>. QED  BY <1>1, <2>1, <2>2
<1>. QED  BY <1>2, ExcuseStays

(* A reply that the policy let through keeps its distance from the others:    *)
(* there is no MaxReplies of them in the last hour.                          *)
LEMMA RoomInTheHour ==
  ASSUME NEW p, NEW s \in Seq(Times), sent[p] = s, now \in Nat,
         \A k, l \in DOMAIN s : k < l => s[k] <= s[l],
         Cardinality(RecentReplies(p)) < MaxReplies,
         NEW k \in DOMAIN s, k + MaxReplies = Len(s) + 1
  PROVE  now - s[k] > Hour
<1>1. PICK n \in Nat : n = Len(s)
  OBVIOUS
<1>2. PICK m \in Nat : m = MaxReplies /\ m > 0
  BY SettingTypes
<1>3. PICK h \in Nat : h = Hour
  BY SettingAssumption
<1>4. DOMAIN s = 1..n /\ k \in 1..n /\ k + m = n + 1 /\ s \in [1..n -> Times]
  BY <1>1, <1>2
<1>5. \A l \in 1..n : s[l] \in Nat
  BY <1>4 DEF Times
<1>. SUFFICES ASSUME ~(now - s[k] > h)  PROVE FALSE
  BY <1>3
<1>6. \A l \in k..n : l \in 1..n /\ s[l] >= now - h
  <2>1. ASSUME NEW l \in k..n  PROVE l \in 1..n /\ s[l] >= now - h
    <3>1. l \in 1..n /\ (k = l \/ k < l)
      BY <1>4
    <3>2. s[k] <= s[l]
      BY <1>4, <1>5, <3>1
    <3>. QED  BY <1>4, <1>5, <3>1, <3>2
  <2>. QED  BY <2>1
<1>7. k..n \in SUBSET RecentReplies(p)
  BY <1>3, <1>4, <1>6 DEF RecentReplies
<1>8. RecentReplies(p) \in SUBSET (1..n)
  BY <1>4 DEF RecentReplies
<1>9. IsFiniteSet(RecentReplies(p)) /\ Cardinality(RecentReplies(p)) \in Nat
  <2>1. 1 \in Int /\ n \in Int
    BY <1>1
  <2>2. IsFiniteSet(1..n)
    BY <2>1, FS_Interval
  <2>. QED  BY <1>8, <2>2, FS_Subset, FS_CardinalityType
<1>10. Cardinality(k..n) <= Cardinality(RecentReplies(p))
  BY <1>7, <1>9, FS_Subset
<1>11. Cardinality(k..n) = m
  <2>1. k \in Int /\ n \in Int /\ ~(k > n) /\ n - k + 1 = m
    BY <1>4, <1>2
  <2>. QED  BY <2>1, FS_Interval
<1>. QED  BY <1>2, <1>9, <1>10, <1>11

(* Waiting makes no reply recent and ends no cooldown early. *)
LEMMA PaceWaits ==
  ASSUME TypeOK, TypeOK', now <= now', NEW p \in Places, sent'[p] = sent[p],
         ~InCooldown(p), Cardinality(RecentReplies(p)) < MaxReplies
  PROVE  ~InCooldown(p)' /\ Cardinality(RecentReplies(p)') < MaxReplies
<1>1. PICK s \in Seq(Times) : s = sent[p] /\ s = sent'[p]
  BY DEF TypeOK
<1>2. now \in Nat /\ now' \in Nat /\ now <= now'
  BY DEF TypeOK, Times
<1>3. PICK h \in Nat : h = Hour
  BY SettingAssumption
<1>4. PICK c \in Nat : c = Cooldown
  BY SettingAssumption
<1>5. \A k \in DOMAIN s : s[k] \in Nat
  <2>1. DOMAIN s = 1..Len(s)
    OBVIOUS
  <2>2. \A k \in DOMAIN s : s[k] \in Times
    BY <2>1, ElementOfSeq
  <2>. QED  BY <2>2 DEF Times
<1>6. ~InCooldown(p)'
  <2>1. CASE s = <<>>
    BY <1>1, <2>1 DEF InCooldown
  <2>2. CASE s # <<>>
    <3>1. s[Len(s)] \in Nat
      <4>1. Len(s) \in DOMAIN s
        BY <2>2, EmptySeq
      <4>. QED  BY <1>5, <4>1
    <3>2. ~(now - s[Len(s)] < c)
      BY <1>1, <1>4, <2>2 DEF InCooldown, Last
    <3>3. ~(now' - s[Len(s)] < c)
      BY <1>2, <1>4, <3>1, <3>2
    <3>. QED  BY <1>1, <1>4, <3>3 DEF InCooldown, Last
  <2>. QED  BY <2>1, <2>2
<1>7. Cardinality(RecentReplies(p)') < MaxReplies
  <2>. DEFINE before == {k \in DOMAIN s : s[k] >= now - h}
              after  == {k \in DOMAIN s : s[k] >= now' - h}
  <2>1. RecentReplies(p) = before /\ RecentReplies(p)' = after
    BY <1>1, <1>3 DEF RecentReplies
  <2>2. after \in SUBSET before /\ before \in SUBSET DOMAIN s
    BY <1>2, <1>3, <1>5
  <2>3. IsFiniteSet(before) /\ Cardinality(before) \in Nat /\ Cardinality(after) \in Nat
    <3>1. IsFiniteSet(1..Len(s)) /\ DOMAIN s = 1..Len(s)
      BY FS_Interval
    <3>. QED  BY <2>2, <3>1, FS_Subset, FS_CardinalityType
  <2>4. Cardinality(after) <= Cardinality(before)
    BY <2>2, <2>3, FS_Subset
  <2>5. PICK m \in Nat : m = MaxReplies
    BY SettingTypes
  <2>6. Cardinality(before) < m
    BY <2>1, <2>5
  <2>. QED  BY <2>1, <2>3, <2>4, <2>5, <2>6
<1>. QED  BY <1>6, <1>7

(* The times in a place after one more reply was recorded now. *)
LEMMA RecordedNow ==
  ASSUME TypeOK, NEW p \in Places, sent'[p] = Append(sent[p], now)
  PROVE  /\ DOMAIN sent[p] = 1..Len(sent[p]) /\ Len(sent[p]) \in Nat
         /\ DOMAIN sent'[p] = 1..(Len(sent[p]) + 1) /\ Len(sent'[p]) = Len(sent[p]) + 1
         /\ \A k \in 1..Len(sent[p]) : sent'[p][k] = sent[p][k]
         /\ sent'[p][Len(sent[p]) + 1] = now
<1>1. sent[p] \in Seq(Times) /\ now \in Times
  BY DEF TypeOK
<1>2. PICK s \in Seq(Times) : s = sent[p]
  BY <1>1
<1>3. Append(s, now) \in Seq(Times) /\ Len(Append(s, now)) = Len(s) + 1
  BY <1>1, AppendProperties
<1>. QED  BY <1>1, <1>2, <1>3, PushBack

(* A reply is made ready only by a judgement that found room for it. *)
LEMMA ReadyMoves ==
  ASSUME [Next]_vars, pc' \in {"compose", "send"}
  PROVE  /\ frame' = frame /\ sent' = sent
         /\ \/ pc \in {"compose", "send"}
            \/ now' = now /\ Respond(item)
<1>. USE DEF Next, Step, vars, platformVars, triggerVars, memoryVars, ghostVars,
       Write, Delete, Tick, Repeat, Drop, Start, Crash, Connect, Receive, ReadType,
       Probe, Scan, FetchHistory, Judge, Compose, SendDone, SendAgain, SendRejected,
       ReadNotifications, ReadReplies, AfterPages,
       SkipComment, TakeComment, Done, NoTrigger, Classified
<1>1. frame' = frame /\ sent' = sent
  OBVIOUS
<1>2. \/ pc \in {"compose", "send"}
      \/ now' = now /\ Respond(item)
  OBVIOUS
<1>. HIDE DEF Next, Start, Judge
<1>. QED  BY <1>1, <1>2

(* Time does not go back. *)
LEMMA TimeMovesOn ==
  ASSUME TypeOK, [Next]_vars
  PROVE  now <= now'
<1>1. now \in Nat
  BY DEF TypeOK, Times
<1>. QED  BY <1>1, ClockMoves DEF Write, Tick, Start

(* Every reply recorded, and the one in the making, keep the pace. *)
LEMMA PaceKept ==
  ASSUME TypeOK, TypeOK', Control, Control', Pace, [Next]_vars
  PROVE  Pace'
<1>1. ASSUME NEW p \in Places
      PROVE  /\ \A k \in DOMAIN sent'[p] : sent'[p][k] <= now'
             /\ \A k, l \in DOMAIN sent'[p] : k < l => sent'[p][k] <= sent'[p][l]
  <2>1. now \in Nat /\ now' \in Nat /\ now <= now'
    <3>1. now \in Nat /\ now' \in Nat
      BY DEF TypeOK, Times
    <3>. QED  BY <3>1, TimeMovesOn
  <2>2. \A k \in DOMAIN sent[p] : sent[p][k] \in Nat /\ sent[p][k] <= now
    <3>1. DOMAIN sent[p] = 1..Len(sent[p]) /\ sent[p] \in Seq(Times)
      BY DEF TypeOK
    <3>2. \A k \in DOMAIN sent[p] : sent[p][k] \in Times
      BY <3>1, ElementOfSeq
    <3>. QED  BY <3>2 DEF Times, Pace
  <2>3. CASE sent'[p] = sent[p]
    BY <2>1, <2>2, <2>3 DEF Pace
  <2>4. CASE Crash
    BY <1>1, <2>4 DEF Crash
  <2>5. CASE SendDone /\ sent'[p] # sent[p]
    <3>1. sent'[p] = Append(sent[p], now) /\ now' = now
      BY <1>1, <2>5 DEF SendDone, TypeOK
    <3>2. PICK n \in Nat : n = Len(sent[p])
      BY DEF TypeOK
    <3>3. /\ DOMAIN sent[p] = 1..n /\ DOMAIN sent'[p] = 1..(n + 1)
          /\ \A k \in 1..n : sent'[p][k] = sent[p][k]
          /\ sent'[p][n + 1] = now
      BY <3>1, <3>2, RecordedNow
    <3>4. \A k \in 1..(n + 1) : k \in 1..n \/ k = n + 1
      BY <3>2
    <3>5. \A k \in DOMAIN sent'[p] : sent'[p][k] <= now'
      BY <2>1, <2>2, <3>1, <3>3, <3>4
    <3>6. ASSUME NEW k \in 1..(n + 1), NEW l \in 1..(n + 1), k < l
          PROVE  sent'[p][k] <= sent'[p][l]
      <4>1. k \in 1..n
        BY <3>6
      <4>2. CASE l \in 1..n
        BY <3>3, <3>6, <4>1, <4>2 DEF Pace
      <4>3. CASE l = n + 1
        BY <2>2, <3>3, <4>1, <4>3
      <4>. QED  BY <3>4, <4>2, <4>3
    <3>. QED  BY <3>3, <3>5, <3>6
  <2>. QED  BY <2>3, <2>4, <2>5, Movers
<1>2. ASSUME pc' \in {"compose", "send"}
      PROVE  /\ ~InCooldown(Place[frame])'
             /\ Cardinality(RecentReplies(Place[frame])') < MaxReplies
  <2>1. frame' = frame /\ sent' = sent /\ frame \in Items
    BY <1>2, ReadyMoves DEF Control
  <2>2. PICK p \in Places : p = Place[frame] /\ p = Place[frame']
    BY <2>1 DEF Places
  <2>3. ~InCooldown(p) /\ Cardinality(RecentReplies(p)) < MaxReplies
    BY <1>2, <2>2, ReadyMoves DEF Pace, Respond
  <2>4. ~InCooldown(p)' /\ Cardinality(RecentReplies(p)') < MaxReplies
    BY <2>1, <2>3, PaceWaits, TimeMovesOn
  <2>. QED  BY <2>2, <2>4 DEF InCooldown, RecentReplies, Last
<1>. QED  BY <1>1, <1>2 DEF Pace

(* No step records a reply too soon or too many. *)
LEMMA RateLimitedKept ==
  ASSUME TypeOK, Control, Pace, RateLimited, [Next]_vars
  PROVE  RateLimited'
<1>. SUFFICES ASSUME NEW p \in Places
              PROVE  /\ \A k \in 1..(Len(sent'[p]) - 1) : sent'[p][k + 1] - sent'[p][k] >= Cooldown
                     /\ \A k \in 1..(Len(sent'[p]) - MaxReplies) :
                          sent'[p][k + MaxReplies] - sent'[p][k] > Hour
  BY DEF RateLimited
<1>1. CASE sent'[p] = sent[p]
  BY <1>1 DEF RateLimited
<1>2. CASE Crash
  <2>1. Len(sent'[p]) = 0
    BY <1>2 DEF Crash
  <2>2. PICK m \in Nat : m = MaxReplies /\ m > 0
    BY SettingTypes
  <2>. QED  BY <2>1, <2>2
<1>3. CASE SendDone /\ sent'[p] # sent[p]
  <2>1. sent'[p] = Append(sent[p], now) /\ p = Place[frame] /\ pc = "send"
    BY <1>3 DEF SendDone, TypeOK
  <2>2. ~InCooldown(p) /\ Cardinality(RecentReplies(p)) < MaxReplies
    BY <2>1 DEF Pace
  <2>3. PICK n \in Nat : n = Len(sent[p])
    BY DEF TypeOK
  <2>4. /\ DOMAIN sent[p] = 1..n /\ Len(sent'[p]) = n + 1
        /\ \A k \in 1..n : sent'[p][k] = sent[p][k]
        /\ sent'[p][n + 1] = now
    BY <2>1, <2>3, RecordedNow
  <2>5. PICK m \in Nat : m = MaxReplies /\ m > 0
    BY SettingTypes
  <2>6. now \in Nat /\ \A k \in 1..n : sent[p][k] \in Nat
    <3>1. sent[p] \in Seq(Times)
      BY DEF TypeOK
    <3>2. \A k \in 1..n : sent[p][k] \in Times
      BY <2>3, <3>1, ElementOfSeq
    <3>. QED  BY <3>2 DEF Times, TypeOK
  <2>7. ASSUME NEW k \in 1..(Len(sent'[p]) - 1)
        PROVE  sent'[p][k + 1] - sent'[p][k] >= Cooldown
    <3>1. k \in 1..n /\ (k + 1 \in 1..n \/ k = n)
      BY <2>4
    <3>2. CASE k + 1 \in 1..n
      <4>1. k \in 1..(Len(sent[p]) - 1)
        BY <2>3, <3>1, <3>2
      <4>2. sent[p][k + 1] - sent[p][k] >= Cooldown
        BY <4>1 DEF RateLimited
      <4>. QED  BY <2>4, <3>1, <3>2, <4>2
    <3>3. CASE k = n
      <4>1. sent[p] # <<>>
        BY <2>3, <3>1, <3>3
      <4>2. ~(now - sent[p][n] < Cooldown)
        BY <2>2, <2>3, <4>1 DEF InCooldown, Last
      <4>3. PICK c \in Nat : c = Cooldown
        BY SettingAssumption
      <4>4. now - sent[p][n] >= c
        BY <2>6, <3>1, <3>3, <4>2, <4>3
      <4>. QED  BY <2>4, <3>1, <3>3, <4>3, <4>4
    <3>. QED  BY <3>1, <3>2, <3>3
  <2>8. ASSUME NEW k \in 1..(Len(sent'[p]) - MaxReplies)
        PROVE  sent'[p][k + MaxReplies] - sent'[p][k] > Hour
    <3>1. k \in 1..n /\ (k + m \in 1..n \/ k + m = n + 1)
      BY <2>4, <2>5
    <3>2. CASE k + m \in 1..n
      <4>1. k \in 1..(Len(sent[p]) - MaxReplies)
        BY <2>3, <2>5, <3>1, <3>2
      <4>2. sent[p][k + MaxReplies] - sent[p][k] > Hour
        BY <4>1 DEF RateLimited
      <4>. QED  BY <2>4, <2>5, <3>1, <3>2, <4>2
    <3>3. CASE k + m = n + 1
      <4>1. \A j, l \in DOMAIN sent[p] : j < l => sent[p][j] <= sent[p][l]
        BY DEF Pace
      <4>2. now - sent[p][k] > Hour
        BY <2>2, <2>3, <2>4, <2>5, <2>6, <3>1, <3>3, <4>1, RoomInTheHour DEF TypeOK
      <4>. QED  BY <2>4, <2>5, <3>1, <3>3, <4>2
    <3>. QED  BY <3>1, <3>2, <3>3
  <2>. QED  BY <2>7, <2>8
<1>. QED  BY <1>1, <1>2, <1>3, Movers

(***************************************************************************)
(* The theorems.                                                           *)
(***************************************************************************)

(* The invariant holds before the process is started. *)
LEMMA BotInvInit == Init => BotInv
<1>. SUFFICES ASSUME Init  PROVE BotInv
  OBVIOUS
<1>1. TypeOK
  <2>1. 0 \in 0..NumItems /\ 0 \in 0..2
    BY ItemAssumption
  <2>2. 1 \in Times /\ 0 \in Times
    BY SettingTypes DEF Times
  <2>3. 0 \in 0..(MaxAttempts - 1)
    BY SettingTypes
  <2>4. 0 \in 0..MaxFaults
    BY SettingAssumption
  <2>5. \A S : <<>> \in Seq(S)
    OBVIOUS
  <2>6. Len(<<>>) <= DedupeWindow
    BY SettingTypes
  <2>7. now \in Times /\ startedAt \in Times /\ bornAt \in [Items -> Times]
    BY <2>2 DEF Init
  <2>8. answers \in [Items -> 0..2] /\ verdicts \in [Items -> 0..2]
    BY <2>1 DEF Init
  <2>9. frame \in 0..NumItems /\ item \in 0..NumItems
    BY <2>1 DEF Init
  <2>10. attempts \in 0..(MaxAttempts - 1) /\ faults \in 0..MaxFaults
    BY <2>3, <2>4 DEF Init
  <2>11. channel \in Seq(0..NumItems) /\ rows \in Seq(Items) /\ seen \in Seq(Items)
    BY <2>5 DEF Init
  <2>12. Len(seen) <= DedupeWindow
    BY <2>6 DEF Init
  <2>13. sent \in [Places -> Seq(Times)]
    BY <2>5 DEF Init
  <2>14. pc \in PCs /\ reason \in Reasons
    BY DEF Init, PCs, Reasons
  <2>15. /\ deleted \in SUBSET Items /\ known \in SUBSET Places
         /\ failed \in SUBSET Items /\ resent \in SUBSET Items /\ stale \in SUBSET Items
         /\ forgotten \in SUBSET Items /\ connected \in BOOLEAN /\ missed \in SUBSET Items
    BY DEF Init
  <2>. QED
    BY <2>7, <2>8, <2>9, <2>10, <2>11, <2>12, <2>13, <2>14, <2>15 DEF TypeOK
<1>2. Chronicle /\ Stream /\ Control
  BY DEF Init, Chronicle, Stream, Control, Written
<1>3. Offered /\ Window /\ Ledger
  BY DEF Init, Offered, Window, Ledger
<1>4. Pace /\ RateLimited
  <2>1. \A p \in Places : sent[p] = <<>>
    BY DEF Init
  <2>2. MaxReplies \in Nat
    BY SettingTypes
  <2>3. \A k \in 1..(Len(<<>>) - MaxReplies) : FALSE
    BY <2>2, SettingTypes
  <2>4. \A k \in 1..(Len(<<>>) - 1) : FALSE
    OBVIOUS
  <2>5. RateLimited
    BY <2>1, <2>3, <2>4 DEF RateLimited
  <2>6. Pace
    BY <2>1 DEF Pace, Init
  <2>. QED  BY <2>5, <2>6
<1>5. DecidedOnce /\ WindowSuffices /\ AnsweredTwiceExplained /\ BacklogIgnored
  BY DEF Init, DecidedOnce, WindowSuffices, AnsweredTwiceExplained, BacklogIgnored
<1>. QED  BY <1>1, <1>2, <1>3, <1>4, <1>5 DEF BotInv

(* Every step of the bot and of the platform keeps the invariant. *)
LEMMA BotInvStep == BotInv /\ [Next]_vars => BotInv'
<1>. SUFFICES ASSUME BotInv, [Next]_vars  PROVE BotInv'
  OBVIOUS
<1>1. TypeOK'
  BY TypeKept DEF BotInv
<1>2. Chronicle' /\ Stream'
  BY ChronicleKept, StreamKept DEF BotInv
<1>3. Control'
  BY <1>1, ControlKept DEF BotInv
<1>4. Offered' /\ Window'
  BY <1>1, OfferedKept, WindowKept DEF BotInv
<1>5. Ledger'
  BY <1>1, LedgerKept DEF BotInv
<1>6. Pace'
  BY <1>1, <1>3, PaceKept DEF BotInv
<1>7. DecidedOnce' /\ WindowSuffices' /\ AnsweredTwiceExplained'
  BY DecidedOnceKept, WindowSufficesKept, AnsweredTwiceKept DEF BotInv
<1>8. BacklogIgnored' /\ RateLimited'
  BY BacklogKept, RateLimitedKept DEF BotInv
<1>. QED  BY <1>1, <1>2, <1>3, <1>4, <1>5, <1>6, <1>7, <1>8 DEF BotInv

(* The invariant of the bot: who is at which call with what in hand, what    *)
(* was written when, what the policy remembers, and which answers exist.     *)
THEOREM BotCorrect == Spec => []BotInv
BY BotInvInit, BotInvStep, PTL DEF Spec

(* One process decides to answer an item at most once, unless the policy     *)
(* had to forget it in between (AddressedOnlyPolicy.has_seen, record_seen).  *)
THEOREM ItemsDecidedOnce == Spec => []DecidedOnce
BY BotCorrect, PTL DEF BotInv

(* Which it does only for more items than its window holds, however often   *)
(* they are offered (AddressedOnlyPolicy.record_seen).                      *)
THEOREM WindowIsEnough == Spec => []WindowSuffices
BY BotCorrect, PTL DEF BotInv

(* An item is answered twice only after a POST that was retried, by a later  *)
(* process that finds it in the place of a deleted message, or once the      *)
(* window of seen keys has been outgrown.                                    *)
THEOREM SecondAnswersExplained == Spec => []AnsweredTwiceExplained
BY BotCorrect, PTL DEF BotInv

(* What predates the process is answered only as a mention or a direct       *)
(* message found in the place of a later one that was deleted or unreadable. *)
THEOREM BacklogExplained == Spec => []BacklogIgnored
BY BotCorrect, PTL DEF BotInv

(* The replies recorded in a place keep the cooldown and the hourly budget   *)
(* (AddressedOnlyPolicy.evaluate, record_reply), however long one takes.     *)
THEOREM RateIsLimited == Spec => []RateLimited
BY BotCorrect, PTL DEF BotInv

(* The docstring of bot.py holds, no candidate from before the start is      *)
(* answered, when nobody deletes a message and every row can be read.        *)
THEOREM BacklogNeedsDeletion ==
  ASSUME "delete" \notin FaultKinds, Malformed = {}
  PROVE  Spec => []NoBacklogAnswered
<1>1. Init => deleted = {}
  BY DEF Init
<1>2. deleted = {} /\ [Next]_vars => (deleted = {})'
  BY Movers DEF Delete, Fault
<1>3. BotInv /\ deleted = {} => NoBacklogAnswered
  BY DEF BotInv, BacklogIgnored, Excused, NoBacklogAnswered
<1>. QED  BY <1>1, <1>2, <1>3, BotCorrect, PTL DEF Spec
=============================================================================
