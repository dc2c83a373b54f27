----------------------------- MODULE ProcessProofs -----------------------------
(***************************************************************************)
(* Proofs about BotProcess, for any processes, bots and ports, and about     *)
(* AwaitResult, for any callers and any read count.                         *)
(***************************************************************************)
EXTENDS AwaitResult, BotProcess, SequenceTheorems, TLAPS

-----------------------------------------------------------------------------
(* Processes of bots. *)

(* The delay doubles up to the maximum. *)
LEMMA DoubleStays ==
  ASSUME NEW d \in BaseDelay..MaxDelay
  PROVE  Double(d) \in BaseDelay..MaxDelay
BY ProcessAssumption DEF Double

(* Nobody runs, and nobody holds a port. *)
LEMMA InitHolds == ProcInit => ProcInv
BY ProcessAssumption DEF ProcInit, ProcInv, ProcTypeOK, LockHeld, Stages

(* A process that starts holds its port alone, or does not get it. *)
LEMMA StartHolds ==
  ASSUME ProcInv, NEW p \in Processes, Start(p)
  PROVE  ProcInv'
<1>1. ProcTypeOK'
  <2>1. BaseDelay \in BaseDelay..MaxDelay /\ 0 \in 0..MaxCounted /\ MaxStarts \in Nat
    BY ProcessAssumption
  <2>. QED  BY <2>1 DEF ProcInv, ProcTypeOK, Start, Goto, Stages
<1>2. LockHeld'
  <2>1. CASE \E q \in bound : Port(q) = Port(p)
    BY <2>1 DEF ProcInv, ProcTypeOK, LockHeld, Start
  <2>2. CASE ~\E q \in bound : Port(q) = Port(p)
    <3>1. /\ procAt' = [procAt EXCEPT ![p] = "init"]
          /\ bound' = bound \cup {p}
          /\ open' = [open EXCEPT ![p] = FALSE]
      BY <2>2 DEF Start, Goto
    <3>2. \A q \in bound : PortOf[BotOf[q]] # PortOf[BotOf[p]]
      BY <2>2 DEF Port
    <3>3. QED
      BY <3>1, <3>2 DEF ProcInv, ProcTypeOK, LockHeld
  <2>3. QED
    BY <2>1, <2>2
<1>3. QED
  BY <1>1, <1>2 DEF ProcInv

(* Everything a live process does keeps its hold. *)
LEMMA LiveHolds ==
  ASSUME ProcInv, NEW p \in Processes,
         \/ Built(p) \/ Consume(p) \/ Connect(p) \/ Rejects(p) \/ Ends(p) \/ Envelope(p)
         \/ Handled(p) \/ Retry(p) \/ Wake(p) \/ CloseConsumer(p) \/ Signal(p)
  PROVE  ProcInv'
<1>1. /\ procAt[p] # "off"
      /\ bound' = bound
      /\ \E stage \in Stages \ {"off"} : procAt' = [procAt EXCEPT ![p] = stage]
      /\ \E b \in BOOLEAN : open' = [open EXCEPT ![p] = b]
  <2>1. procAt \in [Processes -> Stages] /\ open \in [Processes -> BOOLEAN]
    BY DEF ProcInv, ProcTypeOK
  <2> procAt = [procAt EXCEPT ![p] = procAt[p]] /\ open = [open EXCEPT ![p] = open[p]]
    BY <2>1
  <2>2. CASE Built(p) \/ Consume(p) \/ Connect(p) \/ Rejects(p) \/ Ends(p) \/ Envelope(p)
    BY <2>1, <2>2 DEF Built, Consume, Connect, Rejects, Ends, Envelope, Goto, Stages
  <2>3. CASE Handled(p) \/ Retry(p) \/ Wake(p)
    <3>1. procAt[p] # "off" /\ bound' = bound
      BY <2>3 DEF Handled, Retry, Wake
    <3>2. \E stage \in {"shutdown", "read", "sleep", "connect"} : Goto(p, stage)
      BY <2>3 DEF Handled, Retry, Wake
    <3>3. open' = open \/ open' = [open EXCEPT ![p] = FALSE]
      BY <2>3 DEF Handled, Retry, Wake
    <3>4. QED
      BY <2>1, <3>1, <3>2, <3>3 DEF Goto, Stages
  <2>4. CASE CloseConsumer(p)
    BY <2>1, <2>4 DEF CloseConsumer, Goto, Stages
  <2>5. CASE Signal(p)
    <3>1. /\ procAt[p] # "off" /\ UNCHANGED <<procAt, bound>>
          /\ open' = [open EXCEPT ![p] = FALSE]
      BY <2>5 DEF Signal
    <3>2. procAt[p] \in Stages \ {"off"}
      BY <2>1, <3>1
    <3>3. QED
      BY <3>1, <3>2
  <2>6. QED
    BY <2>2, <2>3, <2>4, <2>5
<1>2. /\ \E b \in BOOLEAN : running' = [running EXCEPT ![p] = b]
      /\ \E b \in BOOLEAN : stopping' = [stopping EXCEPT ![p] = b]
      /\ \E b \in BOOLEAN : early' = [early EXCEPT ![p] = b]
      /\ starts' = starts
  <2>1. /\ running \in [Processes -> BOOLEAN] /\ stopping \in [Processes -> BOOLEAN]
        /\ early \in [Processes -> BOOLEAN]
    BY DEF ProcInv, ProcTypeOK
  <2>2. QED
    BY <2>1 DEF Built, Consume, Connect, Rejects, Ends, Envelope, Handled, Retry, Wake,
       CloseConsumer, Signal
<1>3. delay' \in [Processes -> BaseDelay..MaxDelay] /\ failures' \in [Processes -> 0..MaxCounted]
  <2>1. /\ delay \in [Processes -> BaseDelay..MaxDelay]
        /\ failures \in [Processes -> 0..MaxCounted]
    BY DEF ProcInv, ProcTypeOK
  <2>2. CASE Wake(p)
    <3>1. Double(delay[p]) \in BaseDelay..MaxDelay
      BY <2>1, DoubleStays
    <3>2. (IF failures[p] < MaxCounted THEN failures[p] + 1 ELSE failures[p]) \in 0..MaxCounted
      BY SMTT(30), <2>1, ProcessAssumption
    <3>3. QED
      BY <2>1, <2>2, <3>1, <3>2 DEF Wake
  <2>3. CASE Envelope(p)
    BY <2>1, <2>3, ProcessAssumption DEF Envelope
  <2>4. CASE UNCHANGED <<delay, failures>>
    BY <2>1, <2>4
  <2>5. QED
    BY <2>2, <2>3, <2>4 DEF Built, Consume, Connect, Rejects, Ends, Handled, Retry,
       CloseConsumer, Signal
<1>4. ProcTypeOK'
  <2>1. procAt' \in [Processes -> Stages] /\ bound' \subseteq Processes
    BY <1>1 DEF ProcInv, ProcTypeOK
  <2>2. running' \in [Processes -> BOOLEAN] /\ open' \in [Processes -> BOOLEAN]
    BY <1>1, <1>2 DEF ProcInv, ProcTypeOK
  <2>3. stopping' \in [Processes -> BOOLEAN] /\ early' \in [Processes -> BOOLEAN]
    BY <1>2 DEF ProcInv, ProcTypeOK
  <2>4. starts' \in [Processes -> 0..MaxStarts]
    BY <1>2 DEF ProcInv, ProcTypeOK
  <2>5. QED
    BY <1>3, <2>1, <2>2, <2>3, <2>4 DEF ProcTypeOK
<1>5. LockHeld'
  BY <1>1 DEF ProcInv, ProcTypeOK, LockHeld
<1>6. QED
  BY <1>4, <1>5 DEF ProcInv

(* A process that ended holds nothing. *)
LEMMA GoneHolds ==
  ASSUME ProcInv, NEW p \in Processes, Gone(p)
  PROVE  ProcInv'
<1>1. ProcTypeOK'
  BY DEF ProcInv, ProcTypeOK, Gone, Goto, Stages
<1>2. LockHeld'
  BY DEF ProcInv, ProcTypeOK, LockHeld, Gone, Goto
<1>3. QED
  BY <1>1, <1>2 DEF ProcInv

(* Every step keeps the invariant. *)
LEMMA NextHolds == ProcInv /\ [ProcNext]_procVars => ProcInv'
<1> SUFFICES ASSUME ProcInv, [ProcNext]_procVars PROVE ProcInv'
  OBVIOUS
<1>1. CASE UNCHANGED procVars
  BY <1>1 DEF procVars, ProcInv, ProcTypeOK, LockHeld
<1>2. CASE ProcNext
  <2>1. PICK p \in Processes : Start(p) \/ Proceed(p) \/ Signal(p) \/ Killed(p)
    BY <1>2 DEF ProcNext
  <2>2. QED
    BY <2>1, StartHolds, LiveHolds, GoneHolds DEF Proceed, CloseLock, Killed
<1>3. QED
  BY <1>1, <1>2

(* Whatever processes are started, stopped or killed, an open stream is of a   *)
(* process that listens on its port, and no port has two (single_instance.py  *)
(* 78-119, bot_service.py 356-365).                                          *)
THEOREM LockExcludes == ProcSpec => []ProcInv
BY InitHolds, NextHolds, PTL DEF ProcSpec

(* Two processes of one bot never both listen to its events: their port is the *)
(* same, whatever port_for derives (single_instance.py 50-63, 78-105).       *)
THEOREM BotsListenAlone == ProcSpec => []OneSubscriber
<1>1. ProcInv => OneSubscriber
  BY DEF ProcInv, ProcTypeOK, LockHeld, OneSubscriber
<1>2. QED
  BY <1>1, LockExcludes, PTL

-----------------------------------------------------------------------------
(* The delay before a reconnect. *)

(* So many failures, the delay they give. *)
DelayAfter(n) == IF FullDelay[n] <= MaxDelay THEN FullDelay[n] ELSE MaxDelay

(* One failure more doubles it, the maximum apart. *)
LEMMA DoubleCounts ==
  ASSUME NEW n \in 0..MaxCounted
  PROVE  /\ n < MaxCounted => Double(DelayAfter(n)) = DelayAfter(n + 1)
         /\ n = MaxCounted => Double(DelayAfter(n)) = DelayAfter(n)
<1>1. MaxCounted \in Nat /\ MaxDelay \in Nat /\ FullDelay[n] \in Nat
  BY ProcessAssumption
<1>2. CASE n < MaxCounted
  <2>1. n + 1 \in 1..MaxCounted /\ (n + 1) - 1 = n
    BY <1>1, <1>2
  <2>2. FullDelay[n + 1] = 2 * FullDelay[(n + 1) - 1]
    BY <2>1, ProcessAssumption
  <2>3. FullDelay[n + 1] = 2 * FullDelay[n]
    BY <2>1, <2>2
  <2>. QED  BY <1>1, <1>2, <2>3 DEF Double, DelayAfter
<1>3. CASE n = MaxCounted
  BY <1>1, <1>3, ProcessAssumption DEF Double, DelayAfter
<1>. QED  BY <1>1, <1>2, <1>3

(* A connection that is accepted and dropped at once does not start the delays *)
(* over: only an envelope does (consume 83, 113-114).                            *)
THEOREM BackoffDoubles == ProcSpec => []BackoffGrows
<1>1. ProcInit => BackoffGrows
  BY ProcessAssumption DEF ProcInit, BackoffGrows
<1>2. ASSUME ProcInv, BackoffGrows, [ProcNext]_procVars PROVE BackoffGrows'
  <2>1. /\ delay \in [Processes -> BaseDelay..MaxDelay]
        /\ failures \in [Processes -> 0..MaxCounted]
        /\ \A q \in Processes : delay[q] = DelayAfter(failures[q])
    BY <1>2 DEF ProcInv, ProcTypeOK, BackoffGrows, DelayAfter
  <2>2. SUFFICES \A q \in Processes : delay'[q] = DelayAfter(failures'[q])
    BY DEF BackoffGrows, DelayAfter
  <2>3. CASE UNCHANGED <<delay, failures>>
    BY <2>1, <2>3
  <2>4. CASE \E p \in Processes : delay' = [delay EXCEPT ![p] = BaseDelay]
                               /\ failures' = [failures EXCEPT ![p] = 0]
    <3>1. DelayAfter(0) = BaseDelay
      BY ProcessAssumption DEF DelayAfter
    <3>. QED  BY <2>1, <2>4, <3>1
  <2>5. CASE \E p \in Processes : Wake(p)
    <3>1. PICK p \in Processes : Wake(p)
      BY <2>5
    <3>2. /\ delay' = [delay EXCEPT ![p] = Double(delay[p])]
          /\ failures' = [failures EXCEPT ![p] =
                            IF failures[p] < MaxCounted THEN failures[p] + 1 ELSE failures[p]]
      BY <3>1 DEF Wake
    <3>3. Double(DelayAfter(failures[p])) =
            DelayAfter(IF failures[p] < MaxCounted THEN failures[p] + 1 ELSE failures[p])
      <4>1. failures[p] \in 0..MaxCounted /\ MaxCounted \in Nat
        BY <2>1, ProcessAssumption
      <4>. QED  BY <4>1, DoubleCounts
    <3>. QED  BY <2>1, <3>2, <3>3
  <2>6. CASE UNCHANGED procVars
    BY <2>1, <2>6 DEF procVars
  <2>7. CASE ProcNext
    <3>1. PICK p \in Processes : Start(p) \/ Proceed(p) \/ Signal(p) \/ Killed(p)
      BY <2>7 DEF ProcNext
    <3>2. CASE Start(p) \/ Envelope(p)
      BY <2>4, <3>2 DEF Start, Envelope
    <3>3. CASE Built(p) \/ Consume(p) \/ Connect(p) \/ Rejects(p) \/ Ends(p) \/ Handled(p) \/ Retry(p)
      BY <2>3, <3>3 DEF Built, Consume, Connect, Rejects, Ends, Handled, Retry
    <3>4. CASE CloseConsumer(p) \/ CloseLock(p) \/ Signal(p) \/ Killed(p)
      BY <2>3, <3>4 DEF CloseConsumer, CloseLock, Gone, Signal, Killed
    <3>. QED  BY <2>5, <3>1, <3>2, <3>3, <3>4 DEF Proceed
  <2>. QED  BY <1>2, <2>6, <2>7
<1>. QED  BY <1>1, <1>2, LockExcludes, PTL DEF ProcSpec

-----------------------------------------------------------------------------
(* Callers that wait for an answer. *)

(* What a reply more does to the stream. *)
LEMMA AppendReply ==
  ASSUME NEW S, NEW s \in Seq(S), NEW e \in S
  PROVE  /\ Len(s) \in Nat
         /\ Append(s, e) \in Seq(S) /\ Len(Append(s, e)) = Len(s) + 1
         /\ \A i \in 1..Len(s) : Append(s, e)[i] = s[i]
OBVIOUS

(* The types, spelt out. *)
LEMMA AwaitTypes ==
  ASSUME AwaitInv
  PROVE  /\ AwaitTypeOK
         /\ replies \in Seq(Callers \cup {Nobody})
         /\ Len(replies) \in 0..MaxReplies
         /\ caller \in [Callers -> {"idle", "looping", "blocked", "got", "gave up", "raised"}]
         /\ lastId \in [Callers -> Positions]
         /\ readFrom \in [Callers -> Positions]
         /\ since \in [Callers -> Positions]
         /\ Positions \subseteq Int
<1>1. AwaitTypeOK
  BY DEF AwaitInv
<1>2. /\ replies \in Seq(Callers \cup {Nobody})
      /\ Len(replies) <= MaxReplies
      /\ caller \in [Callers -> {"idle", "looping", "blocked", "got", "gave up", "raised"}]
      /\ lastId \in [Callers -> Positions]
      /\ readFrom \in [Callers -> Positions]
      /\ since \in [Callers -> Positions]
  BY <1>1 DEF AwaitTypeOK
<1>3. Len(replies) \in Nat
  BY <1>2, LenProperties
<1>6. Len(replies) \in 0..MaxReplies
  <2>1. MaxReplies \in Nat /\ Len(replies) <= MaxReplies
    BY <1>2, AwaitAssumption
  <2>2. QED
    BY <1>3, <2>1
<1>4. Positions \subseteq Int
  BY AwaitAssumption DEF Positions, Dollar
<1>5. QED
  BY <1>1, <1>2, <1>6, <1>4

(* Where a caller is in the stream. *)
LEMMA Reading ==
  ASSUME AwaitInv, NEW c \in Callers
  PROVE  /\ lastId[c] <= Len(replies)
         /\ caller[c] # "got" => Unread(c)
         /\ caller[c] = "blocked" =>
              /\ readFrom[c] \in 0..Len(replies)
              /\ readFrom[c] = IF lastId[c] = Dollar THEN since[c] ELSE lastId[c]
BY DEF AwaitInv

(* No caller has asked, and there are no replies. *)
LEMMA InitUnread == AwaitInit => AwaitInv
BY AwaitAssumption DEF AwaitInit, AwaitInv, AwaitTypeOK, Positions, Dollar, Unread

(* A new reply is ahead of what every caller has read. *)
LEMMA PublishesUnread ==
  ASSUME AwaitInv, NEW r \in Callers \cup {Nobody}, Publishes(r)
  PROVE  AwaitInv'
<1> DEFINE n == Len(replies)
<1>1. /\ n < MaxReplies
      /\ replies' = Append(replies, r)
      /\ UNCHANGED <<caller, lastId, readFrom, since>>
  BY DEF Publishes
<1>2. /\ replies' \in Seq(Callers \cup {Nobody}) /\ Len(replies') = n + 1
      /\ \A i \in 1..n : replies'[i] = replies[i]
  BY ZenonT(40), <1>1, AwaitTypes, AppendReply
<1>3. n \in Nat /\ Len(replies') <= MaxReplies
  <2>1. MaxReplies \in Nat /\ n \in 0..MaxReplies
    BY AwaitTypes, AwaitAssumption
  <2>2. QED
    BY <1>1, <1>2, <2>1
<1>4. AwaitTypeOK'
  BY <1>1, <1>2, <1>3, AwaitTypes DEF AwaitTypeOK, Positions, Dollar
<1>5. ASSUME NEW c \in Callers
      PROVE  /\ lastId'[c] <= n + 1
             /\ caller'[c] # "got" => Unread(c)'
             /\ caller'[c] = "blocked" =>
                  /\ readFrom'[c] \in 0..(n + 1)
                  /\ readFrom'[c] = IF lastId'[c] = Dollar THEN since'[c] ELSE lastId'[c]
  <2>1. lastId[c] <= n /\ lastId[c] \in Int
    BY AwaitTypes, Reading
  <2>2. ASSUME caller'[c] # "got", NEW i \in 1..(n + 1), replies'[i] = c
        PROVE  i <= since'[c] \/ i > lastId'[c]
    <3>1. CASE i \in 1..n
      BY <1>1, <1>2, <2>2, <3>1, Reading DEF Unread
    <3>2. CASE i = n + 1
      BY <1>1, <1>3, <2>1, <3>2
    <3>3. QED
      BY <1>3, <3>1, <3>2
  <2>3. caller'[c] # "got" => Unread(c)'
    BY <1>2, <2>2 DEF Unread
  <2>4. caller[c] = "blocked" => readFrom[c] \in 0..(n + 1)
    BY <1>3, Reading
  <2>5. QED
    BY <1>1, <1>3, <2>1, <2>3, <2>4, Reading
<1>6. QED
  BY <1>2, <1>4, <1>5 DEF AwaitInv

(* What a step of caller c does to the others: nothing. *)
LEMMA CallerUnread ==
  ASSUME AwaitInv, NEW c \in Callers, AwaitTypeOK', replies' = replies,
         \A d \in Callers \ {c} :
           /\ caller'[d] = caller[d] /\ lastId'[d] = lastId[d]
           /\ readFrom'[d] = readFrom[d] /\ since'[d] = since[d],
         lastId'[c] <= Len(replies),
         caller'[c] # "got" => Unread(c)',
         caller'[c] = "blocked" =>
           /\ readFrom'[c] \in 0..Len(replies)
           /\ readFrom'[c] = IF lastId'[c] = Dollar THEN since'[c] ELSE lastId'[c]
  PROVE  AwaitInv'
<1>1. ASSUME NEW d \in Callers
      PROVE  /\ lastId'[d] <= Len(replies')
             /\ caller'[d] # "got" => Unread(d)'
             /\ caller'[d] = "blocked" =>
                  /\ readFrom'[d] \in 0..Len(replies')
                  /\ readFrom'[d] = IF lastId'[d] = Dollar THEN since'[d] ELSE lastId'[d]
  <2>1. CASE d = c
    BY <2>1
  <2>2. CASE d # c
    <3>1. /\ caller'[d] = caller[d] /\ lastId'[d] = lastId[d]
          /\ readFrom'[d] = readFrom[d] /\ since'[d] = since[d]
      BY <2>2
    <3>2. Unread(d)' <=> Unread(d)
      BY <3>1 DEF Unread
    <3>3. QED
      BY <3>1, <3>2, Reading
  <2>3. QED
    BY <2>1, <2>2
<1>2. QED
  BY <1>1 DEF AwaitInv

(* An XREAD is called: what lies before the tail is lost with its "$". *)
LEMMA ListenUnread ==
  ASSUME AwaitInv, NEW c \in Callers, Listen(c)
  PROVE  AwaitInv'
<1> DEFINE from == IF lastId[c] = Dollar THEN Len(replies) ELSE lastId[c]
           told == IF lastId[c] = Dollar THEN Len(replies) ELSE since[c]
<1>1. /\ caller' = [caller EXCEPT ![c] = "blocked"]
      /\ readFrom' = [readFrom EXCEPT ![c] = from]
      /\ since' = [since EXCEPT ![c] = told]
      /\ UNCHANGED <<replies, lastId>>
      /\ caller[c] = "looping"
  BY DEF Listen
<1>2. from \in 0..Len(replies) /\ from \in Positions /\ told \in Positions
  <2>1. /\ Len(replies) \in 0..MaxReplies /\ lastId[c] \in Positions /\ since[c] \in Positions
        /\ lastId[c] <= Len(replies)
    BY AwaitTypes, Reading
  <2>2. CASE lastId[c] = Dollar
    BY <2>1, <2>2, AwaitAssumption DEF Positions, Dollar
  <2>3. CASE lastId[c] # Dollar
    BY <2>1, <2>3, AwaitAssumption DEF Positions, Dollar
  <2>4. QED
    BY <2>2, <2>3
<1> HIDE DEF from, told
<1>3. AwaitTypeOK'
  BY <1>1, <1>2, AwaitTypes DEF AwaitTypeOK, Positions, Dollar
<1>4. /\ caller'[c] = "blocked" /\ readFrom'[c] = from /\ since'[c] = told
      /\ \A d \in Callers \ {c} :
           /\ caller'[d] = caller[d] /\ lastId'[d] = lastId[d]
           /\ readFrom'[d] = readFrom[d] /\ since'[d] = since[d]
  BY <1>1, AwaitTypes
<1>5. from = IF lastId[c] = Dollar THEN told ELSE lastId[c]
  BY DEF from, told
<1>6. Unread(c)'
  <2>1. CASE lastId[c] = Dollar
    BY <1>1, <1>4, <2>1 DEF Unread, told
  <2>2. CASE lastId[c] # Dollar
    BY <1>1, <1>4, <2>2, Reading DEF Unread, told
  <2>3. QED
    BY <2>1, <2>2
<1>7. QED
  BY <1>1, <1>2, <1>3, <1>4, <1>5, <1>6, Reading, CallerUnread

(* A batch without the answer leaves no answer behind. *)
LEMMA ReadUnread ==
  ASSUME AwaitInv, NEW c \in Callers, Read(c)
  PROVE  AwaitInv'
<1> DEFINE mine == {i \in (readFrom[c] + 1)..LastRead(c) : replies[i] = c}
<1>1. /\ caller[c] = "blocked" /\ Len(replies) > readFrom[c]
      /\ replies' = replies /\ UNCHANGED <<readFrom, since>>
      /\ \/ /\ caller' = [caller EXCEPT ![c] = "got"]
            /\ \E i \in mine : lastId' = [lastId EXCEPT ![c] = i]
         \/ /\ mine = {}
            /\ caller' = [caller EXCEPT ![c] = "looping"]
            /\ lastId' = [lastId EXCEPT ![c] = LastRead(c)]
  BY DEF Read
<1>2. /\ Len(replies) \in 0..MaxReplies /\ readFrom[c] \in 0..Len(replies)
      /\ readFrom[c] = (IF lastId[c] = Dollar THEN since[c] ELSE lastId[c])
      /\ Unread(c)
  BY <1>1, AwaitTypes, Reading
<1>3. LastRead(c) \in (readFrom[c] + 1)..Len(replies)
  BY <1>1, <1>2, AwaitAssumption DEF LastRead
<1>4. PICK last \in (readFrom[c] + 1)..LastRead(c) :
        /\ lastId' = [lastId EXCEPT ![c] = last]
        /\ \/ caller' = [caller EXCEPT ![c] = "got"]
           \/ /\ caller' = [caller EXCEPT ![c] = "looping"]
              /\ mine = {} /\ last = LastRead(c)
  BY <1>1, <1>2, <1>3
<1>5. last \in 0..Len(replies) /\ last \in Positions
  BY <1>2, <1>3, AwaitAssumption DEF Positions
<1>6. AwaitTypeOK'
  BY <1>1, <1>4, <1>5, AwaitTypes DEF AwaitTypeOK, Positions, Dollar
<1>7. /\ lastId'[c] = last /\ caller'[c] \in {"got", "looping"}
      /\ caller'[c] # "got" => mine = {} /\ last = LastRead(c)
      /\ \A d \in Callers \ {c} :
           /\ caller'[d] = caller[d] /\ lastId'[d] = lastId[d]
           /\ readFrom'[d] = readFrom[d] /\ since'[d] = since[d]
  BY <1>1, <1>4, AwaitTypes
<1>8. caller'[c] # "got" => Unread(c)'
  <2> SUFFICES ASSUME mine = {}, last = LastRead(c),
                      NEW i \in 1..Len(replies), replies[i] = c, i <= last
               PROVE  i <= since[c]
    BY <1>1, <1>2, <1>5, <1>7 DEF Unread
  <2>1. i <= readFrom[c]
    BY <1>2, <1>3
  <2>2. QED
    BY <1>2, <2>1 DEF Unread
<1>9. QED
  BY <1>1, <1>5, <1>6, <1>7, <1>8, CallerUnread

(* The other steps of a caller read nothing. *)
LEMMA IdleUnread ==
  ASSUME AwaitInv, NEW c \in Callers, Ask(c) \/ TimesOut(c) \/ Breaks(c) \/ GiveUp(c)
  PROVE  AwaitInv'
<1>1. PICK to \in {"looping", "gave up", "raised"} :
        /\ caller[c] # "got"
        /\ caller' = [caller EXCEPT ![c] = to]
        /\ UNCHANGED <<replies, lastId, readFrom, since>>
  BY DEF Ask, TimesOut, Breaks, GiveUp
<1>2. AwaitTypeOK'
  BY <1>1, AwaitTypes DEF AwaitTypeOK, Positions, Dollar
<1>3. caller'[c] # "blocked" /\ \A d \in Callers \ {c} : caller'[d] = caller[d]
  BY <1>1, AwaitTypes
<1>4. lastId'[c] <= Len(replies) /\ Unread(c)'
  BY <1>1, Reading DEF Unread
<1>5. QED
  BY <1>1, <1>2, <1>3, <1>4, CallerUnread

(* Every step keeps the invariant. *)
LEMMA NextUnread == AwaitInv /\ [AwaitNext]_awaitVars => AwaitInv'
<1> SUFFICES ASSUME AwaitInv, [AwaitNext]_awaitVars PROVE AwaitInv'
  OBVIOUS
<1>1. CASE UNCHANGED awaitVars
  BY <1>1 DEF awaitVars, AwaitInv, AwaitTypeOK, Unread
<1>2. CASE AwaitNext
  BY <1>2, PublishesUnread, ListenUnread, ReadUnread, IdleUnread DEF AwaitNext
<1>3. QED
  BY <1>1, <1>2

(* A caller has read everything up to where it stands, or was not there: the  *)
(* place it reads on from is kept by every step.                             *)
THEOREM CallersKeepPlace == AwaitSpec => []AwaitInv
BY InitUnread, NextUnread, PTL DEF AwaitSpec

(* A caller that gave up on an answer that is in the stream was not listening  *)
(* yet when it came, or left before reading that far: no batch of answers to   *)
(* other callers, of any size, hides it (client.py 156-170).                 *)
THEOREM BatchesHideNothing == AwaitSpec => []MissedExplained
<1>1. AwaitInv => MissedExplained
  BY DEF AwaitInv, MissedExplained
<1>2. QED
  BY <1>1, CallersKeepPlace, PTL
=============================================================================
