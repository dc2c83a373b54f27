---------------------------- MODULE ChatterloopBot ----------------------------
(***************************************************************************)
(* The chat bot: one process that reads frames off the entity's event      *)
(* stream, reads the platform to find out what each frame was about,       *)
(* judges it (AddressedOnlyPolicy), and posts an answer.                   *)
(*                                                                         *)
(* Frames are handled one at a time, so all concurrency is between the bot *)
(* and the platform: people post and delete messages, frames queue up or   *)
(* are lost, and time passes, between any two calls the bot makes.  One    *)
(* step of the bot is one call and the local work up to the next.          *)
(*                                                                         *)
(* Items are the messages and comments people write, in the order they do. *)
(* The bot's own answers are counted, not modelled as items: the platform  *)
(* hands them back on the channel, where they are dropped (Author = Self). *)
(***************************************************************************)
EXTENDS Integers, Sequences, FiniteSets

CONSTANTS
  NumItems,       \* items are 1..NumItems, in the order they are written
  Comments,       \* the items that are comments on a post
  Place,          \* the conversation or post of an item
  DMs,            \* the conversations with two participants
  NoPost,         \* the place of a comment whose post could not be resolved
  Author,         \* who wrote an item
  Self,           \* the bot's own entity
  Muted,          \* settings: ignore_entity_ids
  Mentions,       \* items that name the bot
  Replies,        \* items threaded under something the bot wrote
  Blank,          \* items with nothing to answer once the handle is stripped
  Undated,        \* items whose timestamp cannot be read
  Malformed,      \* items whose row lacks an id, a sender or a text
  AnswerDMs,      \* settings: answer_dms
  AnswerReplies,  \* settings: answer_replies
  HistoryWindow,  \* settings: history_window
  ReplyWindow,    \* settings: reply_probe_window
  PageSize,       \* the limit of a notification read
  DedupeWindow,   \* AddressedOnlyPolicy.dedupe_window
  Cooldown,       \* settings: cooldown_seconds, in ticks
  Hour,           \* 3600 seconds, in ticks
  MaxReplies,     \* settings: max_replies_per_hour
  MaxAttempts,    \* BotApiClient.max_attempts
  MaxTime,        \* bound: ticks of the clock
  FaultKinds,     \* the failures this instance may suffer
  MaxFaults       \* bound: how many of them, in all

Items  == 1..NumItems
Places == {Place[i] : i \in Items}
Times  == 0..MaxTime

AllFaultKinds ==
  {"crash", "drop", "repeat", "delete", "read", "index", "compose", "lost", "down", "reject"}

ASSUME ItemAssumption ==
  /\ NumItems \in Nat
  /\ DOMAIN Place = Items
  /\ DOMAIN Author = Items
  /\ Comments \subseteq Items
  /\ \A i \in Comments, j \in Items \ Comments : Place[i] # Place[j]
  /\ \A i \in Items \ Comments : Place[i] # NoPost

ASSUME SettingAssumption ==
  /\ AnswerDMs \in BOOLEAN /\ AnswerReplies \in BOOLEAN
  /\ \A n \in {HistoryWindow, ReplyWindow, PageSize, DedupeWindow, MaxReplies, MaxAttempts,
               MaxTime} : n \in Nat \ {0}
  /\ Cooldown \in Nat /\ Hour \in Nat /\ MaxFaults \in Nat
  /\ FaultKinds \subseteq AllFaultKinds

VARIABLES
  (* The platform. *)
  now,        \* the clock
  bornAt,     \* when an item was written, 0 if it has not been
  deleted,    \* items deleted since
  answers,    \* answers posted under an item, up to 2
  channel,    \* frames on their way: an item, or 0 for a `notifications` ping
  connected,  \* the bot is subscribed to the event stream
  (* The bot's memory; a restart clears all of it. *)
  pc,         \* the call the bot is at
  frame,      \* the item whose frame, or the comment whose row, is handled
  reason,     \* Trigger.reason
  item,       \* the item attached to the trigger, 0 if unresolved
  rows,       \* rows of a window or a page still to look at
  attempts,   \* POST attempts made for the answer at hand
  seen,       \* AddressedOnlyPolicy._seen
  known,      \* the keys of _conversation_types
  sent,       \* when each reply in a place was recorded (_reply_times)
  startedAt,  \* started_at_ms
  (* History, and the fault budget. *)
  verdicts,   \* times this process decided to answer an item, up to 2
  failed,     \* items this process gave up sending an answer to
  resent,     \* items whose answer was posted and then posted again or given up
  stale,      \* items answered although they predate the process
  forgotten,  \* items whose key was evicted after the process decided to answer them
  missed,     \* items whose frame was lost, or a read or the indexing it led to
  faults      \* faults so far

platformVars == <<now, bornAt, deleted, answers, channel, connected>>
triggerVars  == <<frame, reason, item, rows, attempts>>
memoryVars   == <<seen, forgotten, known, sent, startedAt>>
ghostVars    == <<verdicts, failed, resent, stale, missed, faults>>
vars == <<platformVars, pc, triggerVars, memoryVars, ghostVars>>

PCs == {"down", "idle", "type", "probe", "scan", "history", "judge",
        "compose", "send", "notifications", "replies", "comment"}

Reasons == {"none", "mention", "reply", "dm"}

Remembered == {seen[k] : k \in DOMAIN seen}

TypeOK ==
  /\ now \in Times
  /\ bornAt \in [Items -> Times]
  /\ deleted \in SUBSET Items
  /\ answers \in [Items -> 0..2]
  /\ channel \in Seq(0..NumItems)
  /\ connected \in BOOLEAN
  /\ pc \in PCs
  /\ frame \in 0..NumItems /\ item \in 0..NumItems
  /\ reason \in Reasons
  /\ rows \in Seq(Items)
  /\ attempts \in 0..(MaxAttempts - 1)
  /\ seen \in Seq(Items) /\ Len(seen) <= DedupeWindow
  /\ known \in SUBSET Places
  /\ sent \in [Places -> Seq(Times)]
  /\ startedAt \in Times
  /\ verdicts \in [Items -> 0..2]
  /\ failed \in SUBSET Items /\ resent \in SUBSET Items /\ stale \in SUBSET Items
  /\ forgotten \in SUBSET Items
  /\ missed \in SUBSET Items
  /\ faults \in 0..MaxFaults

-----------------------------------------------------------------------------
(* Reading the state. *)

Written(i) == bornAt[i] > 0

(* What a read of the platform may return. *)
Visible == {i \in Items : Written(i) /\ i \notin deleted}

(* The newest k of S: those with fewer than k newer ones. *)
Newest(S, k) == {i \in S : Cardinality({j \in S : j > i}) < k}

Latest(S) == {i \in S : \A j \in S : j <= i}

(* S as the rows of an answer, the newest first: the one sequence of a set. *)
NewestFirst(S) ==
  {rs \in [1..Cardinality(S) -> S] : \A k, l \in DOMAIN rs : k < l => rs[k] > rs[l]}

(* _fetch: the platform cuts the window, then the rows it cannot use are      *)
(* skipped, one by one, so a bad row costs its place in the window.          *)
FetchedMessages(window) == window \ Malformed

FetchedComments(page) == page \ Malformed

(* fetch_recent: of the newest HistoryWindow messages of a conversation. *)
History(p) ==
  FetchedMessages(Newest({i \in Visible \ Comments : Place[i] = p}, HistoryWindow))

(* conversation_type is "single". *)
IsSingle(p) == p \in DMs

(* Variant of IsLive: a tick of grace before the start. *)
IsLiveWithGrace(i) == i \notin Undated /\ bornAt[i] >= startedAt - 1

(* _is_live: a zero timestamp is not live. *)
IsLive(i) == i \notin Undated /\ bornAt[i] >= startedAt

(* Variant of Remember: room is made for a key while there still is some. *)
RememberOneLess(i) ==
  \/ i \in {0} \cup Remembered /\ UNCHANGED <<seen, forgotten>>
  \/ /\ i \notin {0} \cup Remembered /\ Len(seen) + 1 < DedupeWindow
     /\ seen' = Append(seen, i)
     /\ UNCHANGED forgotten
  \/ /\ i \notin {0} \cup Remembered /\ Len(seen) + 1 = DedupeWindow
     /\ seen' = Append(Tail(seen), i)
     /\ forgotten' = forgotten \cup {j \in {Head(seen)} : verdicts[j] > 0}

(* policy.record_seen: the oldest key makes room when the window is full. *)
Remember(i) ==
  \/ i \in {0} \cup Remembered /\ UNCHANGED <<seen, forgotten>>
  \/ /\ i \notin {0} \cup Remembered /\ Len(seen) < DedupeWindow
     /\ seen' = Append(seen, i)
     /\ UNCHANGED forgotten
  \/ /\ i \notin {0} \cup Remembered /\ Len(seen) = DedupeWindow
     /\ seen' = Append(Tail(seen), i)
     /\ forgotten' = forgotten \cup {j \in {Head(seen)} : verdicts[j] > 0}

(* policy.evaluate, from the cooldown on. *)
Last(p) == sent[p][Len(sent[p])]

InCooldown(p) == sent[p] # <<>> /\ now - Last(p) < Cooldown

RecentReplies(p) == {k \in DOMAIN sent[p] : sent[p][k] >= now - Hour}

(* Variants of Respond: handled items are judged again; one reply too many. *)
RespondAgain(i) ==
  /\ Author[frame] # Self /\ Author[frame] \notin Muted
  /\ i # 0 /\ i \notin Blank
  /\ ~InCooldown(Place[frame])
  /\ Cardinality(RecentReplies(Place[frame])) < MaxReplies

RespondOnceMore(i) ==
  /\ Author[frame] # Self /\ Author[frame] \notin Muted
  /\ i \notin Remembered
  /\ i # 0 /\ i \notin Blank
  /\ ~InCooldown(Place[frame])
  /\ Cardinality(RecentReplies(Place[frame])) <= MaxReplies

Respond(i) ==
  /\ Author[frame] # Self
  /\ Author[frame] \notin Muted
  /\ i \notin Remembered
  /\ i # 0 /\ i \notin Blank
  /\ ~InCooldown(Place[frame])
  /\ Cardinality(RecentReplies(Place[frame])) < MaxReplies

Bump(n) == IF n < 2 THEN n + 1 ELSE n

Fault(kind) ==
  /\ kind \in FaultKinds
  /\ faults < MaxFaults
  /\ faults' = faults + 1

(* A fault after which the items S may go unanswered. *)
Missing(kind, S) == Fault(kind) /\ missed' = missed \cup S

(* What the loss of a message's frame may cost: a reply's frame may find       *)
(* another reply of its author's and leave its own for that one's frame, so    *)
(* all the author wrote there.                                              *)
OfSender(f) ==
  IF f = 0 \/ f \in Comments THEN {f} \cap Items
  ELSE {i \in Items \ Comments : Place[i] = Place[f] /\ Author[i] = Author[f]}

(* The frame that announces an item: its own, or a notifications ping. *)
Announced(i) ==
  Written(i) /\ \E k \in DOMAIN channel : channel[k] = IF i \in Comments THEN 0 ELSE i

NoTrigger == frame' = 0 /\ reason' = "none" /\ item' = 0 /\ attempts' = 0

(* The trigger is done with: the next row of the notifications, or the next *)
(* frame.                                                                   *)
Done ==
  /\ NoTrigger
  /\ pc' = IF rows = <<>> THEN "idle" ELSE "comment"

-----------------------------------------------------------------------------
Init ==
  /\ now = 1
  /\ bornAt = [i \in Items |-> 0]
  /\ deleted = {}
  /\ answers = [i \in Items |-> 0]
  /\ channel = <<>>
  /\ connected = FALSE
  /\ pc = "down"
  /\ frame = 0 /\ reason = "none" /\ item = 0 /\ rows = <<>> /\ attempts = 0
  /\ seen = <<>> /\ known = {} /\ sent = [p \in Places |-> <<>>]
  /\ startedAt = 0
  /\ verdicts = [i \in Items |-> 0]
  /\ failed = {} /\ resent = {} /\ stale = {} /\ forgotten = {}
  /\ missed = {} /\ faults = 0

-----------------------------------------------------------------------------
(* The platform. *)

(* Somebody writes the next item.  Every message is published to the        *)
(* conversation's members, a comment only to whom it addresses, and pub/sub *)
(* keeps nothing for a subscriber that is away.                             *)
Write(i) ==
  /\ ~Written(i)
  /\ \A j \in Items : j < i => Written(j)
  /\ bornAt' = [bornAt EXCEPT ![i] = now]
  /\ channel' =
       IF ~connected \/ (i \in Comments /\ i \notin Mentions \cup Replies) THEN channel
       ELSE Append(channel, IF i \in Comments THEN 0 ELSE i)
  /\ UNCHANGED <<now, deleted, answers, connected, pc, triggerVars, memoryVars, ghostVars>>

Delete(i) ==
  /\ i \in Visible
  /\ Fault("delete")
  /\ deleted' = deleted \cup {i}
  /\ UNCHANGED <<now, bornAt, answers, channel, connected, pc, triggerVars, memoryVars,
                 verdicts, failed, resent, stale, missed>>

Tick ==
  /\ now < MaxTime
  /\ now' = now + 1
  /\ UNCHANGED <<bornAt, deleted, answers, channel, connected, pc, triggerVars,
                 memoryVars, ghostVars>>

(* The stream delivers a frame it has delivered before. *)
Repeat ==
  /\ channel # <<>>
  /\ Fault("repeat")
  /\ channel' = <<Head(channel)>> \o channel
  /\ UNCHANGED <<now, bornAt, deleted, answers, connected, pc, triggerVars, memoryVars,
                 verdicts, failed, resent, stale, missed>>

(* EntityEventConsumer: the stream ends, what it had not delivered is gone, *)
(* and the consumer connects again when it next reads.                      *)
Drop ==
  /\ connected
  /\ Missing("drop", UNION {OfSender(i) : i \in {frame} \cup {j \in Items : Announced(j)}})
  /\ channel' = <<>>
  /\ connected' = FALSE
  /\ UNCHANGED <<now, bornAt, deleted, answers, pc, triggerVars, memoryVars,
                 verdicts, failed, resent, stale>>

Connect ==
  /\ pc = "idle"
  /\ ~connected
  /\ connected' = TRUE
  /\ UNCHANGED <<now, bornAt, deleted, answers, channel, pc, triggerVars, memoryVars,
                 ghostVars>>

-----------------------------------------------------------------------------
(* The process. *)

(* Starting takes time, and the watermark is taken when it is over.         *)
Start ==
  /\ pc = "down"
  /\ now < MaxTime
  /\ now' = now + 1
  /\ startedAt' = now + 1
  /\ pc' = "idle"
  /\ UNCHANGED <<bornAt, deleted, answers, channel, connected, triggerVars,
                 seen, forgotten, known, sent, ghostVars>>

(* The process dies or is stopped; its memory and its subscription go.      *)
Crash ==
  /\ pc # "down"
  /\ Missing("crash", {i \in Items : Written(i)})
  /\ pc' = "down"
  /\ channel' = <<>> /\ connected' = FALSE
  /\ NoTrigger /\ rows' = <<>>
  /\ seen' = <<>> /\ known' = {} /\ sent' = [p \in Places |-> <<>>]
  /\ verdicts' = [i \in Items |-> 0]
  /\ failed' = {}
  /\ UNCHANGED <<now, bornAt, deleted, answers, startedAt, resent, stale, forgotten>>

-----------------------------------------------------------------------------
(* handle_envelope and _on_messages_list. *)

(* Where an unaddressed message leads once its conversation's type is or is *)
(* not known to be "single".                                                *)
Classified(f, dm) ==
  IF dm THEN /\ pc' = "history" /\ reason' = "dm" /\ frame' = f
  ELSE IF AnswerReplies THEN pc' = "probe" /\ reason' = "reply" /\ frame' = f
  ELSE pc' = "idle" /\ reason' = "none" /\ frame' = 0

(* The next frame of the stream. *)
Receive ==
  /\ pc = "idle"
  /\ connected
  /\ channel # <<>>
  /\ channel' = Tail(channel)
  /\ LET f == Head(channel) IN
       \/ /\ f = 0
          /\ pc' = "notifications"
          /\ UNCHANGED <<frame, reason>>
       \/ /\ f # 0 /\ Author[f] = Self
          /\ UNCHANGED <<pc, frame, reason>>
       \/ /\ f # 0 /\ Author[f] # Self /\ f \in Mentions
          /\ pc' = "history" /\ reason' = "mention" /\ frame' = f
       \/ /\ f # 0 /\ Author[f] # Self /\ f \notin Mentions
          /\ IF AnswerDMs /\ Place[f] \notin known
             THEN pc' = "type" /\ frame' = f /\ UNCHANGED reason
             ELSE Classified(f, AnswerDMs /\ IsSingle(Place[f]))
  /\ UNCHANGED <<now, bornAt, deleted, answers, connected, item, rows, attempts,
                 memoryVars, ghostVars>>

(* _is_dm: the type is cached once read; a failed read means "not a DM".    *)
ReadType ==
  /\ pc = "type"
  /\ \/ /\ known' = known \cup {Place[frame]}
        /\ Classified(frame, IsSingle(Place[frame]))
        /\ UNCHANGED <<missed, faults>>
     \/ /\ Missing("read", OfSender(frame))
        /\ Classified(frame, FALSE)
        /\ UNCHANGED known
  /\ UNCHANGED <<platformVars, item, rows, attempts, seen, forgotten, sent, startedAt,
                 verdicts, failed, resent, stale>>

(* _probe_for_reply: the window of replies to the bot, narrowed to the      *)
(* frame's own sender; a failed read is an empty window.                    *)
Probe ==
  /\ pc = "probe"
  /\ LET replies == {i \in Visible \ Comments : Place[i] = Place[frame] /\ i \in Replies}
         window  == FetchedMessages(Newest(replies, ReplyWindow))
     IN  \/ /\ rows' \in NewestFirst({i \in window : Author[i] = Author[frame]})
           /\ UNCHANGED <<missed, faults>>
         \/ Missing("read", OfSender(frame)) /\ rows' = <<>>
  /\ pc' = "scan"
  /\ UNCHANGED <<platformVars, frame, reason, item, attempts, memoryVars,
                 verdicts, failed, resent, stale>>

(* Variant of Scan: only the newest row is looked at. *)
ScanNewest ==
  LET found == rows # <<>> /\ Head(rows) \notin Remembered /\ IsLive(Head(rows)) IN
  /\ pc = "scan"
  /\ rows' = <<>>
  /\ IF found THEN /\ item' = Head(rows)
                   /\ pc' = "history"
                   /\ UNCHANGED <<frame, reason, attempts>>
     ELSE NoTrigger /\ pc' = "idle"
  /\ UNCHANGED <<platformVars, seen, forgotten, known, sent, startedAt, ghostVars>>

(* _newest_unhandled_reply, one row at a time: seen rows are passed over,   *)
(* rows from before the start are recorded and passed over.                 *)
Scan ==
  /\ pc = "scan"
  /\ \/ /\ rows = <<>>
        /\ Done
        /\ UNCHANGED <<rows, seen, forgotten>>
     \/ /\ rows # <<>> /\ (Head(rows) \in Remembered \/ ~IsLive(Head(rows)))
        /\ Remember(Head(rows))
        /\ rows' = Tail(rows)
        /\ UNCHANGED <<pc, frame, reason, item, attempts>>
     \/ /\ rows # <<>> /\ Head(rows) \notin Remembered /\ IsLive(Head(rows))
        /\ item' = Head(rows)
        /\ rows' = <<>>
        /\ pc' = "history"
        /\ UNCHANGED <<frame, reason, attempts, seen, forgotten>>
  /\ UNCHANGED <<platformVars, known, sent, startedAt, ghostVars>>

-----------------------------------------------------------------------------
(* _guard: resolve, then act. *)

(* The message a history read is searched for: the sender's newest that     *)
(* names the bot, or, in a DM, the newest that is not the bot's.            *)
Sought(shown) ==
  CASE reason = "mention" -> Latest({i \in shown : /\ Author[i] = Author[frame]
                                                   /\ i \in Mentions})
    [] reason = "dm"      -> Latest({i \in shown : Author[i] # Self})
    [] OTHER              -> {item}

(* fetch_recent, _index and _attach.  A failed read shows nothing; a        *)
(* failure to index ends the trigger there and then.                        *)
FetchHistory ==
  /\ pc = "history"
  /\ \/ /\ LET sought == Sought(History(Place[frame]))
           IN  IF sought = {} THEN UNCHANGED item ELSE item' \in sought
        /\ pc' = "judge"
        /\ UNCHANGED <<frame, reason, attempts, missed, faults>>
     \/ /\ Missing("read", OfSender(frame))
        /\ pc' = "judge"
        /\ UNCHANGED <<frame, reason, item, attempts>>
     \/ /\ Missing("index", OfSender(frame))
        /\ Done
  /\ UNCHANGED <<platformVars, rows, memoryVars, verdicts, failed, resent, stale>>

(* Variant of Judge: only ignored triggers are recorded. *)
JudgeIgnoredOnly ==
  /\ pc = "judge"
  /\ \/ /\ Respond(item)
        /\ pc' = "compose"
        /\ verdicts' = [verdicts EXCEPT ![item] = Bump(@)]
        /\ stale' = IF bornAt[item] < startedAt THEN stale \cup {item} ELSE stale
        /\ UNCHANGED <<frame, reason, item, attempts, seen, forgotten>>
     \/ /\ ~Respond(item)
        /\ Remember(item)
        /\ Done
        /\ UNCHANGED <<verdicts, stale>>
  /\ UNCHANGED <<platformVars, rows, known, sent, startedAt, failed, resent, missed, faults>>

(* The first half of _act: the verdict, recorded whatever it is.            *)
Judge ==
  /\ pc = "judge"
  /\ Remember(item)
  /\ \/ /\ Respond(item)
        /\ pc' = "compose"
        /\ verdicts' = [verdicts EXCEPT ![item] = Bump(@)]
        /\ stale' = IF bornAt[item] < startedAt THEN stale \cup {item} ELSE stale
        /\ UNCHANGED <<frame, reason, item, attempts>>
     \/ /\ ~Respond(item)
        /\ Done
        /\ UNCHANGED <<verdicts, stale>>
  /\ UNCHANGED <<platformVars, rows, known, sent, startedAt, failed, resent, missed, faults>>

(* retrieve and generate; either may raise, or the reply be empty. *)
Compose ==
  /\ pc = "compose"
  /\ \/ /\ pc' = "send"
        /\ UNCHANGED <<frame, reason, item, attempts, faults, failed>>
     \/ /\ Fault("compose")
        /\ failed' = failed \cup {item}
        /\ Done
  /\ UNCHANGED <<platformVars, rows, memoryVars, verdicts, resent, stale, missed>>

-----------------------------------------------------------------------------
(* HttpResponder over BotApiClient._request. *)

(* The answer is posted and the response comes back: record_reply. *)
SendDone ==
  /\ pc = "send"
  /\ answers' = [answers EXCEPT ![item] = Bump(@)]
  /\ sent' = [sent EXCEPT ![Place[frame]] = Append(@, now)]
  /\ Done
  /\ UNCHANGED <<now, bornAt, deleted, channel, connected, rows, seen, forgotten, known,
                 startedAt, ghostVars>>

(* Variant of SendAgain: one attempt too many. *)
SendOnceMore ==
  /\ pc = "send"
  /\ Fault("down")
  /\ IF attempts < MaxAttempts
     THEN /\ attempts' = attempts + 1
          /\ UNCHANGED <<pc, frame, reason, item, failed>>
     ELSE Done /\ failed' = failed \cup {item}
  /\ UNCHANGED <<platformVars, rows, memoryVars, verdicts, resent, stale, missed>>

(* An attempt fails in a way that is retried: a timeout after the answer    *)
(* was posted ("lost"), or a server error or no connection ("down").        *)
SendAgain ==
  /\ pc = "send"
  /\ \/ /\ Fault("lost")
        /\ answers' = [answers EXCEPT ![item] = Bump(@)]
        /\ resent' = resent \cup {item}
     \/ /\ Fault("down")
        /\ UNCHANGED <<answers, resent>>
  /\ IF attempts + 1 < MaxAttempts
     THEN /\ attempts' = attempts + 1
          /\ UNCHANGED <<pc, frame, reason, item, failed>>
     ELSE Done /\ failed' = failed \cup {item}
  /\ UNCHANGED <<now, bornAt, deleted, channel, connected, rows, memoryVars,
                 verdicts, stale, missed>>

(* A rejected request is not retried, and a failed send is not recorded.    *)
SendRejected ==
  /\ pc = "send"
  /\ Fault("reject")
  /\ failed' = failed \cup {item}
  /\ Done
  /\ UNCHANGED <<platformVars, rows, memoryVars, verdicts, resent, stale, missed>>

-----------------------------------------------------------------------------
(* _on_notifications. *)

(* _pending_comments: a page of mentions, then a page of replies, each       *)
(* comment once; a read that fails is an empty page and leaves the other be. *)
Page(S) == FetchedComments(Newest(S \cap Comments \cap Visible, PageSize))

AfterPages == pc' = IF rows' = <<>> THEN "idle" ELSE "comment"

ReadNotifications ==
  /\ pc = "notifications"
  /\ \/ rows' \in NewestFirst(Page(Mentions)) /\ UNCHANGED <<missed, faults>>
     \/ rows' = <<>> /\ Missing("read", Comments \cap Mentions)
  /\ IF AnswerReplies THEN pc' = "replies" ELSE AfterPages
  /\ UNCHANGED <<platformVars, frame, reason, item, attempts, memoryVars,
                 verdicts, failed, resent, stale>>

ReadReplies ==
  /\ pc = "replies"
  /\ \/ /\ \E new \in NewestFirst(Page(Replies) \ {rows[k] : k \in DOMAIN rows}) :
             rows' = rows \o new
        /\ UNCHANGED <<missed, faults>>
     \/ UNCHANGED rows /\ Missing("read", (Comments \cap Replies) \ Mentions)
  /\ AfterPages
  /\ UNCHANGED <<platformVars, frame, reason, item, attempts, memoryVars,
                 verdicts, failed, resent, stale>>

(* The bot's own comment, one without a post, or one from before the start, *)
(* which is recorded.                                                       *)
SkipComment ==
  /\ pc = "comment"
  /\ LET c == Head(rows) IN
       \/ /\ Author[c] = Self \/ Place[c] = NoPost
          /\ UNCHANGED <<seen, forgotten>>
       \/ /\ Author[c] # Self /\ Place[c] # NoPost /\ ~IsLive(c)
          /\ Remember(c)
  /\ rows' = Tail(rows)
  /\ pc' = IF rows' = <<>> THEN "idle" ELSE "comment"
  /\ UNCHANGED <<platformVars, frame, reason, item, attempts, known, sent, startedAt,
                 ghostVars>>

TakeComment ==
  /\ pc = "comment"
  /\ LET c == Head(rows) IN
       /\ Author[c] # Self /\ Place[c] # NoPost /\ IsLive(c)
       /\ frame' = c /\ item' = c
       /\ reason' = IF c \in Mentions THEN "mention" ELSE "reply"
  /\ rows' = Tail(rows)
  /\ pc' = "judge"
  /\ UNCHANGED <<platformVars, attempts, memoryVars, ghostVars>>

-----------------------------------------------------------------------------
Step ==
  \/ Connect \/ Receive
  \/ ReadType \/ Probe \/ Scan
  \/ FetchHistory \/ Judge \/ Compose
  \/ SendDone \/ SendAgain \/ SendRejected
  \/ ReadNotifications \/ ReadReplies \/ SkipComment \/ TakeComment

Next ==
  \/ \E i \in Items : Write(i) \/ Delete(i)
  \/ Tick \/ Repeat \/ Drop
  \/ Start \/ Crash
  \/ Step

Spec == Init /\ [][Next]_vars

(* The process runs as long as it is up; nobody else owes anything. *)
FairSpec == Spec /\ WF_vars(Step)

-----------------------------------------------------------------------------
(* Properties. *)

(* One process answers an item once, however often its frame is repeated or *)
(* a window, a page, a mention and a reply offer it again, unless the policy *)
(* had to forget in between that it did.                                    *)
DecidedOnce == \A i \in Items : verdicts[i] > 1 => i \in forgotten

(* The policy forgets a decision only when more items have been written than *)
(* its window of seen keys holds, also when old rows are offered again and   *)
(* again and when what is recorded is never answered.                        *)
FewWritten == Cardinality({i \in Items : Written(i)}) <= DedupeWindow
WindowSuffices == FewWritten => forgotten = {}

(* The whole list of ways an item is answered twice: the POST is retried    *)
(* after a response that was lost, a later process answers an item from     *)
(* before its start, or the policy has forgotten that it was handled.       *)
AnsweredTwiceExplained ==
  \A i \in Items : answers[i] > 1 => i \in resent \cup stale \cup forgotten

(* The message a frame was for was deleted, or came back unreadable, and an *)
(* older one of its conversation was found in its place: an older mention   *)
(* by the same author, or any older message of a DM.                        *)
Excused(i) ==
  \E f \in Items \ Comments :
    /\ f \in deleted \cup Malformed
    /\ bornAt[i] < bornAt[f]
    /\ Place[i] = Place[f]
    /\ \/ {i, f} \subseteq Mentions /\ Author[i] = Author[f]
       \/ Place[f] \in DMs

(* No answer to a backlog: nothing a probe or the notification store        *)
(* returned is answered if it predates the process.  A mention or a DM is   *)
(* only found to predate it in the place of the message its frame was for.  *)
BacklogIgnored == \A i \in stale : i \notin Comments /\ Excused(i)

(* The docstring of bot.py: "every candidate resolved from a READ is        *)
(* checked against `started_at_ms` and dropped if it predates this process".*)
NoBacklogAnswered == stale = {}

(* Replies that were recorded in one place are a cooldown apart, and never  *)
(* more than MaxReplies within an hour, however long composing takes.       *)
RateLimited ==
  \A p \in Places :
    /\ \A k \in 1..(Len(sent[p]) - 1) : sent[p][k + 1] - sent[p][k] >= Cooldown
    /\ \A k \in 1..(Len(sent[p]) - MaxReplies) :
         sent[p][k + MaxReplies] - sent[p][k] > Hour

(***************************************************************************)
(* The inductive invariant, part by part.                                  *)
(***************************************************************************)

(* Items are written one after the other, and time does not go back. *)
Chronicle ==
  /\ now > 0 /\ startedAt <= now
  /\ \A i \in Items : bornAt[i] <= now
  /\ \A i, j \in Items : i < j /\ Written(j) => Written(i) /\ bornAt[i] <= bornAt[j]

(* Arrived(f): a message that was written while this process was listening. *)
Arrived(f) == f \in Items \ Comments /\ Written(f) /\ bornAt[f] >= startedAt

(* Only the process that is up has a subscription, and only what was written *)
(* since is on its way.                                                     *)
Stream ==
  /\ connected => pc # "down"
  /\ ~connected => channel = <<>>
  /\ \A k \in DOMAIN channel : channel[k] # 0 => Arrived(channel[k])

(* What each call of the bot is about. *)
Control ==
  /\ pc \in {"down", "idle", "notifications", "replies", "comment", "type", "probe", "scan"} =>
       item = 0
  /\ pc \in {"type", "probe", "scan", "history"} =>
       Arrived(frame) /\ Author[frame] # Self
  /\ pc \in {"probe", "scan"} => reason = "reply"
  /\ pc \in {"judge", "compose", "send"} => frame \in Items
  /\ pc = "history" =>
       /\ reason # "none"
       /\ reason = "mention" => frame \in Mentions /\ item = 0
       /\ reason = "dm" => Place[frame] \in DMs /\ item = 0
       /\ item # 0 => bornAt[item] >= startedAt
  /\ pc \in {"compose", "send"} => item # 0
  /\ pc = "comment" => rows # <<>>
  /\ pc \in {"down", "idle", "type", "probe", "history", "notifications"} => rows = <<>>

(* Everything the bot holds was written, and what it judges is live unless   *)
(* it stands in for a message that is gone.                                  *)
Offered ==
  /\ item # 0 => Written(item)
  /\ \A k \in DOMAIN rows : Written(rows[k])
  /\ \A k \in DOMAIN seen : Written(seen[k])
  /\ \A i \in stale : Written(i)
  /\ \A i \in Items : answers[i] > 0 => Written(i)
  /\ pc = "judge" /\ item # 0 =>
       bornAt[item] >= startedAt \/ (item \notin Comments /\ Excused(item))

(* The policy's window holds each key once, and an item this process decided *)
(* to answer unless it had to forget it.                                     *)
Window ==
  /\ \A k, l \in DOMAIN seen : seen[k] = seen[l] => k = l
  /\ \A i \in Items : verdicts[i] > 0 => i \in Remembered \cup forgotten

(* An answer in the making is the first one of its item, and an item that    *)
(* has one was answered by this process or predates it.                      *)
Ledger ==
  /\ pc \in {"compose", "send"} => verdicts[item] > 0
  /\ \A i \in Items \ (resent \cup stale \cup forgotten) :
       /\ pc \in {"compose", "send"} /\ item = i => answers[i] = 0
       /\ answers[i] > 0 /\ pc # "down" => verdicts[i] > 0 \/ bornAt[i] < startedAt

(* Replies are recorded in order, none in the future; and there is room for  *)
(* the one in the making.                                                    *)
Pace ==
  /\ \A p \in Places :
       /\ \A k \in DOMAIN sent[p] : sent[p][k] <= now
       /\ \A k, l \in DOMAIN sent[p] : k < l => sent[p][k] <= sent[p][l]
  /\ pc \in {"compose", "send"} =>
       ~InCooldown(Place[frame]) /\ Cardinality(RecentReplies(Place[frame])) < MaxReplies

(* The inductive invariant of the bot: its type and its bookkeeping, with   *)
(* the five properties that follow from them step by step.                  *)
BotInv ==
  /\ TypeOK /\ Chronicle /\ Stream /\ Control /\ Offered
  /\ Window /\ Ledger /\ Pace
  /\ DecidedOnce /\ WindowSuffices /\ AnsweredTwiceExplained /\ BacklogIgnored /\ RateLimited

(* HttpResponder.reply_to_comment: a failed send "is retried on the next    *)
(* trigger", so the policy does not find its comment already handled.       *)
FailedSendRetried == pc = "judge" /\ item \in failed => item \notin Remembered

Addressed(i) ==
  /\ Author[i] # Self /\ Place[i] # NoPost
  /\ \/ i \in Mentions
     \/ AnswerReplies /\ i \in Replies
     \/ AnswerDMs /\ Place[i] \in DMs

Later(i) == {j \in Items : j > i /\ Written(j)}

(* What a frame's read may find in the place of its own message: a later      *)
(* mention of the same author, a later message of a DM.                      *)
StandsIn(i, j) ==
  \/ j = i
  \/ /\ j > i /\ {i, j} \cap Comments = {} /\ Place[j] = Place[i]
     /\ IF i \in Mentions THEN j \in Mentions /\ Author[j] = Author[i]
        ELSE AnswerDMs /\ Place[i] \in DMs /\ Author[j] # Self

(* As many later rows have been written as the read returns that would show   *)
(* the item: mentions or replies on any post, replies to the bot in a place,  *)
(* or messages of whatever kind in its conversation.                        *)
PushedOut(i) ==
  LET there == {j \in Later(i) \ Comments : Place[j] = Place[i]} IN
  CASE i \in Comments ->
         /\ i \in Mentions => Cardinality(Later(i) \cap Comments \cap Mentions) >= PageSize
         /\ AnswerReplies /\ i \in Replies =>
              Cardinality(Later(i) \cap Comments \cap Replies) >= PageSize
    [] i \notin Comments /\ (i \in Mentions \/ (AnswerDMs /\ Place[i] \in DMs)) ->
         Cardinality(there) >= HistoryWindow
    [] OTHER -> Cardinality(there \cap Replies) >= ReplyWindow

(* While the policy's window holds every key, an addressed item whose frame   *)
(* arrives is judged, or a later one in its stead, unless it is gone, cannot  *)
(* be read, or newer rows fill the window its read returns; a failed read     *)
(* costs what that read was for and nothing else (bot.py 229-303, 349-413,    *)
(* 436-500, 624-657).                                                       *)
FramesHeard ==
  \A i \in Items :
    Addressed(i) /\ i \notin Malformed /\ Announced(i)
      ~> \/ \E j \in Remembered : StandsIn(i, j)
         \/ i \in missed \cup deleted \/ PushedOut(i) \/ ~FewWritten

=============================================================================
