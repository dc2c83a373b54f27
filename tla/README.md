# chatterloop_rag_service in TLA+

TLA+ models of the RAG service and its chat bot, TLC runs over small instances of
them, and TLAPS proofs for every instance. All paths below are under
`src/rag_service/` unless they say otherwise.

## 1. The system

Two programs share one index.

* **The worker** (`service.py`) reads *events* (ingest a document, index a message,
  delete, retrieve) off a bus, hands them to handlers and publishes answers. Any
  number of replicas share a Redis consumer group.
* **The bot** (`bot_service.py`, `chatterloop/`) reads *frames* off one entity's
  event stream, reads the platform to find out what they are about, decides whether
  it was addressed, and posts an answer composed from retrieved context. One process.

| Component | State it keeps | Operations | Interacts with |
|---|---|---|---|
| Worker service `service.py` | stopping flag, counters | run, handle, stop, shutdown | bus, guard, handlers |
| Redis Streams bus `messaging/redis_streams.py` | stream, pending list, dead-letter stream (Redis); reclaim cursor, running flag (process) | consume (reclaim, delivery counts, read), ack, nack, dead_letter, publish | Redis |
| Idempotency guard `messaging/idempotency.py` | one expiring key per event id (Redis) | claim, release | Redis |
| Pub/Sub bus `messaging/gcp_pubsub.py` | none | as the Redis bus | hosted service |
| Event schema `messaging/events.py` | none | parse_event | worker |
| Handlers `handlers.py` | none | dispatch to one of five handlers | pipelines, publisher |
| Ingestion `pipeline/ingest.py` | rows of the index (Milvus) | ingest, index message, delete | chunker, embedder, store |
| Store and filters `store/` | collection | upsert, delete, hybrid search, count | Milvus |
| Retrieval `pipeline/retrieve.py`, `diversity.py` | none | retrieve, recent_turns, MMR | embedder, store, reranker |
| Embedder `embeddings/` | LRU cache | embed_documents, embed_query | provider |
| Chunker `chunking.py` | none | split | - |
| Rerankers `rerank/` | none | rerank | provider |
| Client SDK `client.py` | none | publish each event, await_result | Redis |
| Bot `chatterloop/bot.py` | known conversation types, start watermark | handle_envelope: mention, DM, reply probe, notification poll; _act | everything below |
| Policy `chatterloop/policy.py` | window of seen keys, times of replies | evaluate, has_seen, record_seen, record_reply | bot |
| Stream consumer `chatterloop/consumer.py` | back-off, running flag | consume, reconnect, stop | platform |
| Platform client, fetchers, responder `chatterloop/platform/` | none | GET, POST with retries | platform |
| Reply generator, tools `chatterloop/replies.py`, `agent/tools.py` | lazily built client | generate, tool rounds | provider |
| Single instance lock `chatterloop/single_instance.py` | a bound port | acquire, close | operating system |
| Mentions, identity, triggers, frames, ports, domain, config, CLI, logging | none | text matching, records, settings | - |

What is hard here, and what would make each part correct:

* **Worker and bus.** A message is held by a worker, the pending list, a key in the
  guard, or the dead-letter stream, and each call to Redis can fail, be answered
  late, or be the last thing the process does. Replicas reclaim one another's
  entries. Correct means: every accepted event is in the end completed or parked,
  takes effect at most once, and no poison message is retried for ever.
* **Bot.** Frames carry no content, so every decision rests on reads made *after*
  the frame, while people go on writing and deleting. The same message arrives by
  several routes. Correct means: at most one answer to an item, none to a backlog,
  within the rate limits, and no addressed item silently dropped.
* **Index.** Revisions and deletions of one document are handled by different
  workers in any order, each as a delete and an upsert, with a failure or a crash
  between the two. Correct means: the index shows one revision of a document, whole,
  or nothing; what is deleted stays deleted; an answer never crosses tenants.
* **One reply.** Tool calls inside rounds inside retries. Correct means: the provider
  is never sent a tool call without its answer, a tool is not run twice for nothing,
  and one mention costs a bounded number of completions.
* **One process.** A lock on a port, signals at any moment, a reconnecting stream.
  Correct means: one subscriber per bot, a stop that is heeded, a back-off that grows.
* **Algorithms.** Packing of chunks around an overlap, batches of embeddings around a
  cache, the sizes of the retrieval stages. Correct means: nothing is lost, doubled or
  attributed to the wrong text at a boundary.

`PROJECT.json` lists the same components with their status, and under `hazards`
each place in the code where one of these goes wrong, with the properties that
watch it.

## 2. Modules

| Module | What it is |
|---|---|
| `EventDelivery` | abstract specification: what the bus and the workers promise to a producer |
| `RagWorker` | the worker fleet over the bus and the guard; contains the mapping to `EventDelivery` |
| `RagWorkerProofs` | theorems about `RagWorker` |
| `DocumentStore` | abstract specification: what the index promises the reader of a document |
| `ChatterloopBot`, `ChatterloopBotProofs` | the bot, its policy and the platform around it; theorems about them |
| `DocumentIndex` | the handlers of several workers over the index, call by call; contains the mapping to `DocumentStore` |
| `DocumentIndexProofs` | theorems about `DocumentIndex` |
| `ReplyGenerator`, `ReplyGeneratorProofs` | one reply: retries, tool rounds, `call_tool`; theorems about it |
| `BotProcess` | bot processes on a machine: lock, signals, reconnects |
| `AwaitResult` | callers that wait for answers on one reply stream |
| `ProcessProofs` | theorems about `BotProcess` and `AwaitResult` |
| `Chunker`, `ChunkerProofs` | `TokenChunker.split` over token counts; theorems about it |
| `Embedder` | `embed_documents`: cache, batches, order of the vectors |
| `Retrieval` | `retrieve`: sizes of the stages, reranking, MMR, recent turns |
| `QueryProofs` | theorems about `Embedder` and `Retrieval` |
| `PipelinesProofs` | `MCPipelines` keeps what its parts keep |
| `MCRagWorker`, `MCChatterloopBot`, `MCDocumentIndex`, `MCPipelines` | the small instances TLC runs |

How they fit together: `RagWorker` says when an event is handled, by whom and how
often, and takes what a handler does as one step. `DocumentIndex` opens that step: its
bus is a summary of `RagWorker` (an entry is held by one worker; a failed one comes
back later and out of order; a claimed id makes an entry a duplicate), and each call a
handler makes is a step of its own. `ChatterloopBot` composes an answer in one step,
which `ReplyGenerator` opens; `BotProcess` opens its `Start`, `Crash` and `Connect`.
`Chunker`, `Embedder` and `Retrieval` open calls that `DocumentIndex` takes whole.

### RagWorker

One action per call to Redis; what `consume` or `handle` does between two calls is
local and belongs to the action before. The shared state is the place of every
stream entry (`unsent`, `queued`, `pending`, `gone`), its delivery count, whether it
has been idle long enough to reclaim, the copies on the dead-letter stream and the
idempotency keys. XACK and XAUTOCLAIM do not ask which consumer holds an entry, so
no owner is kept. A worker has a program counter, the rest of its batch with the
delivery count each message was given, the current entry, and the reclaim cursor.

| Code | Actions |
|---|---|
| `consume`, `_claim_stale`, `_delivery_counts`, `_build` | `ClaimStale`, `DeliveryCounts`, `ReadNew`, `Unreachable`, `SkipGarbled`, `Leave` |
| `handle`: parse, ceiling, claim | `ParkInvalid`, `ParkPoison`, `Claim`, `ClaimUnguarded`, `SkipDuplicate` |
| `handle`: dispatch and its outcomes | `Complete`, `Fail`, `Release` (with nack), `WriteDeadLetter`, `Ack` |
| process | `Stop`, `Crash`, `Restart` |
| producers, time | `Publish`, `Age`, `Expire` |

`FaultKinds` names which failures an instance may suffer and `MaxFaults` how many.
A read of Redis can fail before or after Redis did its part (`Unreachable`, and the
`"read"` branches of `ClaimStale` and `ReadNew`). A handler may always raise, for
good or for now: that is `Fail`, not a fault.

Two history variables explain what the guard cannot prevent: `bypassed` (events
dispatched without a key, or whose key expired) and `endangered` (events whose claim
was orphaned, whose entry was reclaimed from a live worker, or whose dead-letter
write failed). Invariants speak of events outside these sets, or say that being in
one is the only excuse.

`CutoffNotEarly` says that no event is parked as poison before its entry was delivered
more often than `MaxDeliveries`. It relates a worker's batch to what Redis knows, so the
invariant carries two facts about both: what a worker holds has been read (`HeldRead`), and
the count it goes by is never higher than the true one, which only grows (`CountsBacked`).

Not modelled: MAXLEN trimming, XAUTOCLAIM's bound on entries looked at per call,
the counters of `Stats`. The effect of handlers on the index is `DocumentIndex`.

### EventDelivery

Five statuses per event, and `atRisk`, the events a failure has reached. Its fairness says
that an open event is settled. `RagWorker` implements it under `Bus`: `BusStatus` computes
the status from the entries that carry the event, the workers that hold them, and the
dead-letter stream; `atRisk` is `endangered`. `Moves` is the safety half, and every fleet
implements it whatever fails (`FleetMoves`): a completed event stays completed, a parked
one is at most completed too (by a copy of it), and only an event at risk is lost. The
fair `Spec` is for fleets without the faults that endanger a claim (`RefinesReliableBus`).

### ChatterloopBot

One action per call the bot makes to the platform, the retrieval or the generator,
plus the actions of the platform: people write and delete items, frames are lost or
repeated, the clock ticks.

| Code | Actions |
|---|---|
| `handle_envelope`, `_on_messages_list` | `Receive`; `_is_dm` is `ReadType` |
| `_probe_for_reply`, `_newest_unhandled_reply` | `Probe`, `Scan` |
| `_guard`, the three `_resolve_*`, `_index` | `FetchHistory` |
| `_act` and `AddressedOnlyPolicy` | `Judge`, `Compose`, `SendDone` |
| `HttpResponder` over `BotApiClient._request` | `SendAgain`, `SendRejected` |
| `_on_notifications`, `_pending_comments` | `ReadNotifications`, `ReadReplies`, `SkipComment`, `TakeComment` |
| `EntityEventConsumer` | `Drop`, `Connect` |
| `ChatterloopBotService` | `Start`, `Crash` |

Abstractions: an item is a number, in the order of writing; that a text names the
bot and that the server resolved a mention are one set (`Mentions`); the wall clock
and the monotonic clock are one; the bot's answers are counted and not written back
as items, so that no item of the instances is the bot's own;
a page of notifications is newest first and its rows are never marked as read;
deletion pings and events the bot does not handle change nothing. `only_live_events`
is on, its default. Starting takes a tick, so nothing written before the process
existed shares its first instant.

What a read returns is a set of rows, cut by the platform and then thinned by the
fetchers; where the order matters the rows are that set, newest first. A notification
poll is two reads, of mentions (`ReadNotifications`) and of replies (`ReadReplies`): each
may fail on its own, both may, and people write between them.

`FramesHeard` says what becomes of the frame of an addressed item that was delivered: the
item is judged, or a later one in its stead (`StandsIn`: the newest mention of its author,
the newest message of the DM), unless the item is gone, could not be read, or at least as
many later rows were written as the read that would show it returns (`PushedOut`). The last
is what a full window costs: three unaddressed messages written before the history is read
push a mention out of a window of three, and bot.py:461-467 then finds nothing to answer.
The rows counted are those of the read at hand, so that a row of another place is no excuse.

The policy's window of seen keys holds 2048 and evicts the oldest, also when an old row
is offered again and again. A history variable, `forgotten`, holds the items whose key was
evicted since the process decided to answer them: for `DecidedOnce` and
`AnsweredTwiceExplained` this is one of the excuses, and they hold however many items are
written. `WindowSuffices` says when the excuse is void: nothing is forgotten while no more
items were written than the window holds. `bot` has a smaller window than items, so that
keys are evicted.

### DocumentIndex

The collection is a set of rows (tenant, source, chunk index, scope, conversation,
text), with the entry that wrote each as history. A call is a record; the text is a
name and a number of pieces, and the same text has the same number (`TextAssumption`:
the chunker has no state).

| Code | Definitions |
|---|---|
| `RagEventPublisher` | `Publish`, `EventId` (no id names the tenant) |
| `RagService.handle` around a handler | `Skip`, `Begin`, `Return`, `Raised` |
| `on_document_ingest`, `ingest_document` | `Delete`, `Embed`, `Upsert` |
| `on_document_delete`, `on_conversation_delete` | `Delete` |
| `on_message_index`, `index_message` | `Settle` (blank), `Embed`, `Upsert` |
| `on_retrieval_request`, `retrieve` | `Settle` (rejected), `Embed`, `Search`, `Recent`, `Reply` |
| `MilvusStore`, `filters.py`, `schema.py` | `Upserted`, `DeleteFilter`, `BuildFilter`, `FilterEmpty`, `ChunkId` |
| failures | `Raise` (any call), `Crash` (between calls), `Again` (the key expired or the store of keys was down) |

An entry may begin while an earlier one waits: workers read in batches, and the earlier
one may be in another worker's (`Deliverable`). `crossed` names the entries that wrote
after a later, conflicting one had begun; the invariants about order say that this, and
nothing else, is the excuse.

A search returns any of the rows its filter admits: the ranking is Milvus's. It is taken
to see every write before it. The code leaves Milvus at `Bounded` consistency by default
(config.py:80), under which a read may miss the newest writes for a while
(`tests/test_milvus_integration.py:82` sleeps for it); that window is not modelled, so
what readers see (`ReadersNeverGoBack`) is stated of the rows. What an answer may *not*
hold does not depend on it. `EventId` is a function of the text; client.py:91 takes
Python's `hash`, which is salted per process, so two processes number one text apart:
fewer duplicates than in the model.

`AnswerIsolated` relates an answer to its request, not to the filter that made it: nothing
of another tenant or, in chat, of a conversation not named; no document where documents were
not asked for. Chat is different: the recent turns of the conversation named are put in front
whatever the scopes (retrieve.py:95-96), so for chat it is the conversation that decides. An
empty list of scopes asks for both (`Asked`).

`Store` maps it to `DocumentStore`: `said` is what each call on a document that has begun
says, `shown` the pieces of the document's rows, `loose` the documents with a call in
`crossed`. `ReadersNeverGoBack` is this refinement: a reader sees a document go to nothing
by its newest call, and from nothing to all that call says in one step, and sees no other
change unless the document is loose.

### ReplyGenerator

`generate` (`Generate`, `Returns`), `_generate_with_retry` (`Transient`, `Rejected`),
`_run_completion` (`Completed`, `AskedForTools`, `AllAnswered`), `_execute_tool_call`
and `call_tool` (`ToolAnswers`, `NoSuchTool`, `ToolRaises`). The transcript keeps turns
and answers; texts are left out. `requests` counts completions, `ran` how often each
call of each round was executed, both over all attempts.

### BotProcess

`SingleInstanceLock` (`Start`, `CloseLock`, `Gone`), `ChatterloopBotService` (`Built`,
`Signal`, `Proceed`, `Killed`), `EntityEventConsumer` (`Consume`, `Connect`, `Rejects`,
`Ends`, `Envelope`, `Handled`, `Retry`, `Wake`, `CloseConsumer`). A signal handler runs
between any two steps, as Python's do; a kill may come anywhere. Two bots may hash to
one port and then exclude each other.

### AwaitResult

`request_retrieval` (`Ask`), `await_result` (`Listen`, `Read`, `TimesOut`, `GiveUp`) and
whoever writes to the reply stream (`Publishes`); an undecodable entry or a failed read
ends the wait with an exception (`Breaks`). `$` is what Redis makes of it when a
read begins; a read returns at most `ReadCount` entries, and the caller moves on past
those that are not for it.

### Chunker, Embedder, Retrieval

Each follows its code call by call or loop by loop. `Chunker`: a text is its token
count, and what is cut from it or joined to it is counted anew. Counts need not add up:
`HeuristicTokenizer` (chunking.py:70-78) rounds down per text, and joining puts spaces in,
so a joined text may count up to `Slack` more for each text in it (2 for the heuristic),
or less. The tail that `_overlap_tail` carries, stripped and counted anew, has any count up
to the overlap and `Slack`; the fold goes by the count of the joined text. `Embedder`: `Lookup`, `Put` and the eviction of the LRU cache,
`Fill` with its running `load`, `CallProvider` per batch, which answers in any order or
fails, and `Store` for each turn of the loop that hands the vectors to their texts and puts
them into the cache, where a later turn may evict what an earlier one put there.
`Retrieval`: `HybridSearch` (at most `fetch_k` rows, as the index is approximate; `hits`
keeps how many), `Rerank` (which may fall back to the first n), `Mmr` with its
scores in tenths or `Dedupe`, a turn of the loop at a time, `RecentTurns` from a window of
rows in no order, `MergeRecent` and `AppendRanked`.

## 3. Runs

| Run | Instance | Shows |
|---|---|---|
| `worker_safety` | 2 workers, 2 entries of one event, batches of 2, all faults, 3 of them | ownership, at-most-once, complete list of losses, no event parked early, the moves of `EventDelivery`, and the invariant of the proofs |
| `worker_liveness` | 2 workers, an undecodable, a good and an invalid entry, batches of 1, one fault that endangers no claim | `EventDelivery` is implemented; the ceiling holds; every decodable entry is settled |
| `bot` | 5 items in a group and under a post, a window of 4 seen keys, 2 faults of any kind after which the bot may still answer, 4 ticks | one decision per item; double answers and answered backlog only in the known ways; that the window suffices; rate limits; the invariant of the proofs |
| `bot_heard` | 8 items: a mention and three replies in a group, a blank DM, a mention with and one without a post, a reply on a post; windows and pages of 2; 1 fault | an addressed item whose frame arrives is judged, or a later one in its stead, unless newer rows fill what is read |
| `index` | 2 workers, 3 calls of any kind on a document, its namesake of another tenant, a conversation, its namesake of another tenant and another conversation; 2 deliveries; 2 faults | one revision at a time, no unexplained comeback, no false currency or emptiness, no answer across tenants, and `DocumentStore` is implemented |
| `pipelines` | the six parts below, each alone | sizes, boundaries, rounds, retries, locks, back-off, reads |

`pipelines` is one run of six parts that share no state: `part` says which of them a
behaviour is about, and the variables of the others keep their initial values. Its
instances: chunker with `max_tokens` 3 and three settings of the rest (no overlap; one
below `min_tokens`; one equal to it), a `Slack` of 1, texts of 0 to 4 tokens, 2 separators, 2
parts of a separator and up to 3 slices of a hard split; embedder with texts of 1, 2 and 5 tokens (the last over the input limit),
batches of 2 texts and 3 tokens, a cache of 2, and 2 calls of up to 4 texts; generator
with 2 attempts, 2 rounds and 2 calls a turn; 3 processes, two of one bot and all on
one port, each started once, with delays of 2 seconds up to 5; 2 callers, 3
replies, reads of 2 entries; retrieval of 1 or 2 out of 6 chunks, two of them near-duplicates
and 4 of them turns, which is one more than the window of recent turns holds and two of
which carry one time.

Why the bounds are enough. The worker's interesting cases need two holders of one
entry, two entries of one event, one reclaim and one redelivery after it; a second
fault matters because it can hit the recovery from the first, and a third covers an
expiry or an outage of the guard on top. `MaxDeliveries` is 2 so that one entry can
be retried and then be poison; counters saturate one above what the code compares.
`worker_late_cutoff` needs three entries, so that one lies between the two of a reclaimed
batch of 2, and no fault at all.
The bot needs two items of one place for the windows, two comments of one post for
the pages, and a restart followed by a repeat. `bot_heard` writes one row more than each window
holds, with a row already seen in front of a live one, so that being pushed out, being hidden
and being stood in for all happen; a frame lost while the stream is down is one of its
excuses and the subject of no property. The index needs two calls to interleave and a
third to come between or after them (a deletion that overtakes, a document changed and
changed back), and two faults for a crash or failure followed by a redelivery that goes
wrong as well. The constraint `Small` keeps the instance to what matters. At most one of the
three is a question or a blank message, and it is the first (`OneIdleCall`): these change no
row, so two of them do not meet, and as calls begin in any order its number says nothing. Two
faults happen where every call is on a document, else one (`FewFaults`). Chat of the other
tenant and of the other conversation is only written where something is asked
(`ElsewhereAsked`). In `pipelines` nearly every counter goes one past the limit it is compared
with: a text that breaks into several chunks, one text more than a batch, one text more than
the cache, a transient error after a round of tools, a delay beyond its maximum, a read
that does not reach the answer. The exception is the reranker, whose `top_k` + 4 is never
below the candidates of the run: that the cut starves nothing is the theorem `AnswersFull`.
In `bot` an hour, a ceiling and a cooldown of 1 make the cooldown follow from the ceiling;
that each holds of its own is the theorem `RateIsLimited`. The timeline of the bot ends when all
items are written and the clock is at its bound, which is why deadlock is not checked
there; the worker runs check it. The calls of `index` are spent and the parts of
`pipelines` come to their ends in the same way.

**Fairness.** `RagWorker`'s `Fairness` assumes each process takes its next step
(`docker-compose.yml` restarts a worker that ended: `restart: unless-stopped`) and
that an entry nobody holds becomes idle as time passes. Producers, expiry and
failures are never fair, and a step is fair as a whole: `Fail` may be chosen at every
dispatch, so that an event completes is *not* assumed. `ChatterloopBot`'s `FairSpec`
assumes only that a running bot takes its next step. `ChunkFairness` says a loop without
calls takes its next turn. `ProcFairness` says a process takes its next step, which the
code sees to with a timeout on `urlopen` and on every read of the stream, and a sleep of
bounded length; envelopes, failures of the stream, signals and kills are not fair.

Runs that end in a violation, each on a statement of the repository:

| Run | The repository says | The code does |
|---|---|---|
| `worker_crash_loss` | README.md:229 reclaimed after a crash | the key written before the handler ran makes the reclaimed entry a duplicate, acked undone |
| `worker_poison` | redis_streams.py:159 the count drives the poison cutoff | ids are compared as strings: an empty range, every count taken as 1, a retry without end |
| `worker_late_cutoff` | README.md:223-224 and redis_streams.py:159: the count drives the poison cutoff | XPENDING is asked for as many entries as were reclaimed, over a range that may hold fresher ones: the entry it leaves out counts as delivered once and is handled beyond the ceiling |
| `worker_undecodable` | redis_streams.py:189 "Park it now." | dead-lettered but never acked: parked again at each reclaim |
| `bot_failed_send` | responder.py:212 "retried on the next trigger" | the key was recorded before the send: ignored as already handled |
| `bot_backlog` | bot.py:55 every candidate from a read is checked against the start | mentions and DMs are not: when the newest is deleted, an old one is answered |

A related disagreement that has no run of its own: README.md:360-363 says a reply
that arrived while the bot was down "is picked up on the next frame"; `_is_live`
passes over it, as the docstring of `bot.py` and `tests/test_bot.py` intend.

Others the models made visible, where the invariant names the excuse instead:

* The event id of an ingest names neither the tenant nor a position in time
  (client.py:89-96), so a document changed and changed back, or another tenant's
  document of the same id and text, is skipped as a duplicate (`FalseDuplicate`).
* `tests/test_chunking.py:21-26` has no chunk of its text count more than `max_tokens` and
  the overlap, and chunking.py:39-40 calls the heuristic "deliberately conservative". Neither
  holds of every text: 50 words of seven letters count 1 each, and joined, in 399 characters,
  110. `ChunkSizes` is the bound the code does keep: with `Slack` 0 it is `max_tokens` and
  the overlap, and less than `min_tokens` on top for a folded fragment; with the heuristic's
  2 it is three times `max_tokens` in the worst case, at the defaults 1536 and so far below
  an embedder's limit of 8191.
* An ingest leaves a window, between its delete and its upsert, in which a document
  has no rows, and a crash there makes it last (`EmptyExplained`).
* A stop that arrives before `consume` sets `_running` is overwritten and only seen after
  the next envelope (`early` in `BotProcess`).
* `call_tool` "Never raises", except what its handlers do not name: a `TypeError` for
  arguments that are no object, a reset connection (`ToolRaises`).
* Recent turns are put in front of an answer also when the question's scopes leave
  chat out; `top_k` above `max_fetch` returns fewer; the order MMR gives replaces the
  reranker's.
* The word pattern of the near-duplicate fallback knows Latin letters and digits only: a
  chunk without any counts as blank and is passed over (`AnswerFull`).
* Of a conversation longer than the window, `recent_turns` may miss as many of the newest
  turns as lie beyond the window, which Milvus fills in no order (`RecentExact`).

Every property of a passing run has a mutant in `PROJECT.json`: a changed definition,
kept beside the original as its "Variant", under which TLC finds the property violated.

## 4. Proofs

The theorems hold for every value of the constants that satisfies the named assumptions,
and for behaviours of any length. `PROJECT.json` lists them. For each component there is
an inductive invariant, a lemma per action that it is kept, and the properties as
consequences.

### The worker fleet (`RagWorkerProofs`, from `BodyAssumption` and `BoundAssumption`)

* `TypeCorrect`: `TypeOK` and `HandlingOK` always hold.
* `Safety`: `SafetyInv` always holds; from it `ClaimsAccounted`,
  `OwnersExclude`, `EffectsAtMostOnce` and `LossesExplained`.
* `NothingLost`: if `FaultKinds` has no `crash`, `slow`, `release` or `dlq`, then no
  published event is lost.
* `UnkeyedNotLost`: if no event has an id of its own and dead letters are written, then no
  published event is lost, whatever crashes, stops, is reclaimed or goes unanswered. It is
  the key that makes a crash a loss (`worker_crash_loss`).
* `FleetImplementsBus`: every step of the fleet is a step of `EventDelivery`'s `Moves`, or
  changes nothing it shows, with no assumption on what fails. `ReliableBus`: without the
  four faults above no event ever has the status `lost` besides.
* `CutoffIsNotEarly`: no event is parked before its deliveries are used up, for any batch
  size and any order of ids as strings.
* `CeilingHolds`: with `BatchSize = 1` and neither `slow` nor `counts` among the faults,
  no handler is given an entry delivered more often than `MaxDeliveries`.

`LossExplained` is not inductive: that an event is still open says
nothing of which worker is about to ack which of its copies. `SafetyInv` adds
`HeldOnce` (an entry of an event that is not endangered is held by one worker and is
pending while it is), `OneOwner` with `KeyKept` (the key is there for as long as it
matters, so a duplicate is only seen while the owner works or after it is done),
`ClaimAccounted` (so a duplicate is skipped only for a reason), and `CopyRemains`
(two duplicates never ack each other away: an unsettled event has a copy nobody is
about to ack). `LossExplained` follows from `CopyRemains`. The proof has a step for
every action; frame lemmas (`HandlingFrame`, `HoldFrame`, `HeldFrame`, `QuietStep`,
`CalmFrame`) take the conjuncts an action cannot disturb. `CutoffNotEarly` follows from
`HeldRead` and `CountsBacked`: what Redis reports is at least what a worker goes by.
`NothingLost` adds `Calm`: without the four faults nothing is ever endangered, because no
live worker's entry becomes idle. `UnkeyedNotLost` needs neither: it rests on `Unclaimed`,
that there is no key and an entry is on its way to an ack only once its event is completed
or parked. TLC checks `SafetyInv` as an invariant of `worker_safety`.

`FleetImplementsBus` follows the status an event shows through each action. Where an event
is not endangered, `SafetyInv` says enough of its copies: who acks one has settled the
event or leaves a copy behind, so that the status stays or moves forward. Where it is, the
step may be `Lose`, which asks for no more. `ReliableBus` adds `Calm` and `NoEventLost`:
nothing is endangered, so `Lose` is never taken.

`CeilingHolds` adds `Firm` (what a worker holds is pending, not idle and nobody else's)
and `Counted` (a batch is one entry, and the count it carries is the true one). Its
hypotheses are not for convenience. A slow batch is reclaimed and counted again while the
first holder still works; without XPENDING every count is 1; with more than one entry the
range asked for runs from the first id to the last *as strings*, which may be empty, so a
stale count of 1 gets in: that is the finding of `worker_poison`. That the ids compare in
their order does not help, since the range may hold entries of others, and XPENDING returns
no more than it is asked for: that is `worker_late_cutoff`, which suffers no fault and has
no two ids out of order. With one entry the range is that entry. What the ceiling promises
in the other direction, `CutoffIsNotEarly`, needs none of these hypotheses.

### The bot (`ChatterloopBotProofs`, from `ItemAssumption` and `SettingAssumption`)

* `BotCorrect`: `BotInv` always holds; from it `ItemsDecidedOnce`,
  `SecondAnswersExplained`, `BacklogExplained` and `RateIsLimited`.
* `WindowIsEnough`: nothing is forgotten while no more items were written than
  `DedupeWindow`.
* `BacklogNeedsDeletion`: where messages are never deleted and every row can be read, no item
  that predates the process is answered, which is what the docstring of `bot.py` says and
  `bot_backlog` refutes in general.

None of the four properties is inductive. `BotInv` adds `Chronicle` (items are written one
after the other), `Stream` (a frame on its way is of a message written while the process
listens), `Control` (what each call is about: a window is fetched only for such a
frame, an answer is composed only for an item), `Offered` (what is judged is live, or
stands in for a later message that is gone, which the step that judges cannot see),
`Window` (a key is in the window once, and a decided item's is in it or `forgotten`),
`Ledger` (an answer in the making is the first of its item) and `Pace` (between
the judgement and the send the clock may tick and nothing be recorded, so that there is
still room). TLC checks `BotInv` in `bot`.

`WindowIsEnough` is a counting argument: the keys in the window are distinct and of items
written, so a full window that must evict (`FullWindow`) means more items written than it
holds. TLC checks it in an instance where eviction happens.

### The index (`DocumentIndexProofs`, from `RequestAssumption`, `TextAssumption` and `IndexBounds`)

* `IndexSafety` (`IndexInv` always holds), `DeletedStaysDeleted` (`ComebackExplained`) and
  `AnswersIsolated` (`AnswerIsolated`).
* `ShowsOneRevision`, `IndexIsCurrent` and `EmptinessExplained`, if `SourcesApart`.
* `IndexImplementsStore` (`ReadersNeverGoBack`), if `SourcesApart`: the initial states map
  to `DocumentStore`'s, and every step of a worker, a crash or a publication maps to one
  of its steps or changes nothing it shows.

`ComebackExplained` is not inductive, because it
speaks of a completed deletion and the step that completes one is not the step that
deletes. `IndexInv` adds `DeletedGone`, the same of any handler past its delete
(`HasDeleted`); `RowsSaid`, that a row is a piece of a call that was made, so that the
row an upsert replaces is known to conflict with it; `CallsFit`, which handler may be
at which call; and `FoundAllowed`, `AnswerIsolated` of what a search has returned and
not yet answered.

The other three speak of a document no call was carried out of order on. `OrderInv` adds
`InOrder`: such a document shows nothing or one call; nothing between the delete of its
newest call and its upsert; and what that call said once it is done. `KeysBegun` gives the
call a duplicate was taken for. `SourcesApart` says that no message has the id of a
document: both are the source of their rows, a key names the source and a number only, and
deleting the document would delete the message. The code does not rule it out; the
callers' ids do. TLC finds `IndexCurrent` violated in an instance with such a clash.

### One process, one call

* `ProcessProofs`, from `ProcessAssumption`: `LockExcludes` (`ProcInv`), `BotsListenAlone`
  (`OneSubscriber`) and `BackoffDoubles` (`BackoffGrows`). `ProcInv` adds `LockHeld`: a
  process between `Start` and `Gone` is bound to its port, at most one process is bound to
  a port, and a stream is open only in between. Two processes of one bot have one port.
  The powers of two of the back-off are a constant, `FullDelay`, that the assumption
  defines, since the provers do not unfold `2 ^ n`.
* `ProcessProofs`, for any number of callers and any size of read: `CallersKeepPlace`
  (`AwaitInv`) and `BatchesHideNothing` (`MissedExplained`). `AwaitInv` says, of every
  caller still reading, that its answer is at or before the position where it began to
  listen or beyond the one it has read to.
* `ReplyGeneratorProofs`, from `GeneratorAssumption`: `GenerationInvariant`
  (`GenInv`), `TranscriptsAnswered`, `RerunsAreRetries` and `EffortIsBounded`.
  `TranscriptAnswered` speaks of requests only; `TranscriptInv` follows a turn while its
  answers are still owed, and says that the owed calls have not run in this attempt, which
  is what `RerunsNeedRetry` needs at the step that runs one. `EffortInv` counts requests
  by attempt and round and messages by round.
* `ChunkerProofs`, from the assumptions of `Chunker`: `ChunksFit` and `SegmentsCovered`,
  for any slack of the tokenizer. `SplitInv` is `ChunkInv` (what the loops keep: how large a
  chunk is by what `_pack` has added up, of how many texts it is joined, chunks chained by
  their segments) with the two properties that the finished chunks are read off. A chunk has
  no more texts than tokens (`Sized`), which bounds what joining can add.
* `QueryProofs`, from `RetrievalAssumption`: `AnswersDistinct`, `TurnsAreNewest` and
  `AnswersFull`. `RetInv` follows the sizes from stage to stage (`Fetched`,
  `Reranked`; by `Sizes` the reranker never leaves fewer than the question may have),
  keeps every list distinct, and says of each candidate the fallback has passed why
  (`Sifted`). That a list shorter than the candidates leaves one of them out (`LeftOver`)
  is counted with `FiniteSetTheorems`.
* `QueryProofs`, from `EmbedderAssumption`: `EmbedTyped`, `VectorsReachTexts`,
  `RequestsWithinLimits` and `NoVectorIsMissing`, that the check at the end of
  `embed_documents` (140-142) never fires. `EmbedInv` says that each text has its own vector or is accounted for (still to
  be looked up, noted as missing and not yet batched, or in the batch), and that `load`
  is the sum of the batch: a running sum is exhibited (`RunningSums`), which needs no
  recursion. `SortedBack` is the lemma about the provider's data: sorting a permutation
  by its index undoes it. `EmbedTyped` includes the cache: never more than `CacheSize`
  texts, and none twice (`CacheOK`). It follows turn by turn: `WithoutIt`, of removing a
  text from a list that has it once, and `PutKeeps`, of moving it to the end and evicting
  the head.
* `PipelinesProofs`, from the assumptions of the six parts: `PartsAreTheRun` (a behaviour of
  `MCPipelines` is one of each part's specification, most of them at rest) and
  `PartsKeepInvariants` (`PipelinesInv`), by the theorems about each.

Every invariant and every safety property of a passing run is stated by a theorem. Only
model-checked is liveness (`EntrySettled`, the fair half of `RefinesReliableBus`,
`FramesHeard`, `SplitEnds`, `StopHeeded`): fairness and `ENABLED` are beyond the prover.
The other way round, `UnkeyedNotLost` speaks of events without an id, which no run has:
the runs are spent on events with one.

## 5. Plan

Done: every module of section 2, and a theorem for each invariant of a run. Left:

1. The action properties that a run could add: a parked entry stays parked, a reclaimed count
   never falls.
2. What the ceiling still promises of a batch of several entries: a bound on how often an
   entry can be left out of the answer to XPENDING.
3. Trimming of the stream (redis_streams.py:263) as a fault of its own, with the events it
   takes as one more excuse in `LossExplained`.

## 6. Not modelled, and why

* **Milvus**: creating and checking the collection is a sequence of calls at start-up
  without a second actor; the scores and the ranking are external, so a search returns any
  admissible rows in any order.
* **Pub/Sub bus**: acks and nacks map one to one to the hosted service, whose redelivery
  and dead-lettering are settings of a subscription that is not in the repository.
* **Providers**: embeddings, rerankers and language models are external; what may come
  back, and in what order, is a choice of the model.
* **Mentions** are regular expressions over text, without state: `ChatterloopBot` takes
  which items name the bot as a constant.
* **Prompts, rendering, configuration, CLI, logging** are text and wiring; settings
  appear as constants of the modules.
* **Event validation** beyond whether a body parses; the **HTTP codes** of the platform
  beyond retried, rejected and lost.

## 7. Running

    tlc -workers 2 -config WorkerSafety.cfg MCRagWorker.tla
    tlc -workers 2 -config Bot.cfg MCChatterloopBot.tla
    tlc -workers 2 -config Index.cfg MCDocumentIndex.tla
    tlc -workers 2 -config Pipelines.cfg MCPipelines.tla
    for m in RagWorker DocumentIndex ChatterloopBot Process ReplyGenerator \
             Chunker Query Pipelines; do
        tlapm ${m}Proofs.tla
    done
