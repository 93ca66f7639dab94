# KurisuGate: specifications, checks and proofs

KurisuGate is a gateway between clients that speak the OpenAI chat API and a
dozen model providers. This directory holds TLA+ modules of its stateful parts,
the TLC configurations that check them on small instances, and theorems that
the TLA+ proof system checks for every value of the constants. `PROJECT.json`
maps each definition to the lines of code it stands for.

To check a run: `tlc -config <file>.cfg <module>.tla`, with file and module from
the table of runs below. To check the proofs: `tlapm` on each of the modules whose
name ends in `Proofs`.

## The system

A request passes `Recovery(CORS(Auth(RateLimit(mux))))` (`internal/server`),
then a handler, then the executor (`internal/engine`), which consults the
caches (`internal/cache`), asks the router for a provider and calls it
(`internal/providers`), which picks one of its API keys from a pool. On the way
out the executor stores the answer, records metrics and charges the virtual key
the request came with.

| component | state | operations | shared with |
|---|---|---|---|
| virtual keys, `domain/virtual_keys.go` | keys with budget, spend, limit, expiry; a token bucket per key | ValidateKey, AllowKey, RecordSpend, Add, Delete, under one lock each | middleware, executor, administrator |
| authentication, `server/middleware.go` | none | AuthMiddleware: validate, limit, go on | virtual keys |
| client rate limiter, `server/middleware.go` | a token bucket per address, time of the last sweep | Allow, with the sweep inside | all requests |
| key pool, `engine/pool.go` | cursor, cooldown per API key | NextKey, MarkFailure | concurrent calls of a provider |
| exact cache, `cache/exact_cache.go` | map and doubly linked list | Get, Set, Clear, Export, Import | executor, snapshots, purge |
| semantic cache, `cache/semantic_cache.go` | list of entries with vectors | Search, Set, Clear, Export, Import | executor and its goroutines, snapshots |
| snapshots, `cache/persistence.go` | a lock, a file | SaveSnapshot, RestoreSnapshot, the timer | both caches, boot, shutdown |
| router, `engine/router.go` | none after start | ResolveModel, ResolveWeightedTarget, GetFallbackChain, FindProvider | executor, handler |
| executor, `engine/fallback.go` | per request only | ExecuteChatCompletion, ExecuteChatStream, PurgeCache | everything above |
| provider streams, `providers/*/` | per call: counts, position | Stream: lines of upstream in, chunks out | executor's callback |
| message transformation, `providers/*/`, `engine/compress.go` | none | the context window, transformRequest, transformResponse | executor |
| metrics, `metrics/metrics.go` | totals, a ring of records | RecordRequest, GetSnapshot | executor |
| SSE writer, `server/sse.go` | the connection | WriteChunk, WriteDone | executor's callback |
| boot and shutdown, `cmd/kurisu/main.go` | the process | restore, timer, signal, last save, stop | snapshots, server |
| guard, configuration, interfaces | none | pure transformations, I/O | |

What is hard in it: a budget checked before a response and charged after it;
keys, limits and buckets changing under requests that hold them; late 429s;
pointer surgery in the exact cache; chains in which retriable errors, other
errors and unserved models mix; streams that break half-way, count in five
dialects and lose their reader; background writes that outlive their request, a
purge and the shutdown snapshot; two saves that race for one file; a crash
between any two steps of a save; tool results that must stay behind their calls
when turns are merged. `PROJECT.json` lists these as hazards, at their lines,
with the properties that would catch them going wrong.

What makes each component correct: *virtual keys* - a bound on how far a key
overshoots its budget, no spend lost, no limiter state without a key, a bound on
what the limiter grants; *rate limiter* - the token bucket bound over every
window of time although buckets are evicted, and a map that does not keep
departed clients; *key pool* - failed keys rest, others take turns; *exact
cache* - it is an LRU cache; *semantic cache* - a search returns a best match,
and only old entries give way; *snapshots* - the file is whole and never goes
back, a graceful stop loses nothing that was there at the signal, and the next
process goes on with it; *executor* - the client gets an answer to its own
question from a permitted model, once, whole or not at all, pays for it once,
and always gets a reply; *streams* - the same, chunk by chunk; *message
transformation* - the provider is told all that was said, in turns it accepts;
*metrics* - the books balance with the records and the charges.

## Modules

**VirtualKeys** models the VirtualKeyManager, AuthMiddleware, the
administrator's POST and DELETE, and the charge at the end of a request. Every
manager method runs under the manager's lock, so it is one action; a request is
a process that goes from `Arrive` over `Validate` (ValidateKey) and `AllowKey`
to `Finish` (RecordSpend), with anything happening in between. A refused
request simply ends. Tokens are counted in sixtieths, so that a second refills
exactly `rpm` of them; the code's floating point is exact up to rounding.
`atAdd` and `meter` are history variables. `SettingsAssumption` is that posted
settings stay below `MaxRPM`, which is any number.

**TokenBucket** models the per-address limiter: `Allow` is the whole method, the
sweep that may precede it included. `Watch` moves a history variable only: it
starts a new window of time from now, so that an invariant speaks about every
window.

**KeyPool** models NewKeyPool, NextKey and MarkFailure, and the providers'
`getKey` / call / 429 sequence (`Pick`, `TooManyRequests`, `OtherAnswer`). The
cursor is a counter modulo `CursorMod` (2^64 in the code, and small in the run, so
that it wraps).

**ExactCache** models the exact cache with its nodes, `prev`, `next`, `head`,
`tail` and map, one operator per list helper (`AddToHead`, `RemoveNode`,
`MoveToHead`). Memory that nothing refers to is collected and used again. The
cache starts with what ImportEntries makes of an arbitrary snapshot file.
**LRUCache** is the abstract specification: a sequence of entries, most recently
used first. `ExactCache!RefinesLRU` is the refinement: the list read from
`head` is the sequence. The list is read by following pointers as often as there
are nodes (`Walk`, `Follow`), and `Entries` is what such a walk finds.

**SemanticCache** models the semantic cache with its list. `Search` folds the
code's loop over the list; `MakeRoom` is what Set does at the capacity: expired
entries go, and if none has expired the oldest tenth. An entry is served in
the instant in which it no longer counts for the other methods: `Serves` and
`Lives` are the two comparisons of the code. The cosine of two vectors is a score
from a table. **Lists** has `Kept`, what a loop makes that appends to a new list
the elements that pass a test; Conversation uses it too. It counts positions, because nothing can be proved
about the library's recursive `SelectSeq`; MCSemanticCache's `KeptAssumption` lets
TLC compare the two on all short lists.

**Snapshots** models SaveSnapshot as what happens between two locks or two
system calls (`Lock`, `ExportSemantic`, `Write`, `Rename`, and `SaveFails` at any
of them), for two callers: the timer, and main at the shutdown. `Restore` and
`StartEmpty` are the boot, `Stop`, `Exit` the shutdown, and `Crash` may come at any
moment. The file is a set of at most one snapshot; a temporary file that was not
renamed counts for nothing, as nobody reads it. The caches are those the other
modules have: the semantic one is SemanticCache's operators (INSTANCE), of the
exact one the order is left out: ExportEntries goes through the map, so the file has
its entries in a random order, which is their order of use after a restart. Requests (`Store`, `WriteSemantic`, `ExactGet`) and purges go
on beside a save, also while main is stopping, until the server has stopped.
`final`, `late` and `flushed` are history. An exited process leaves its caches in
place until the next one begins, so that `RestartResumes` can compare the two.

**Executor** models the chat path: the handler's permission check and the routing
(`Accept`), the cache lookups, the failover loop (`FindNext`, `Complete`, `Fail`,
`GiveUp`), streams (`Chunk`, `EndStream`, `Fail`), the goroutine that writes the
semantic cache (`WriteSemantic`), purges in their two steps, and the reply. A
step of a request is what it does between two operations on shared state or
waits for upstream. `Complete` caches, records and charges in one step: those
calls commute with everything other requests do. Caches are sets of entries
with a capacity; which entry gives way, and when one expires, is left open here
(`Forget`, `Added`). A prompt stands for the messages after compression and
redaction. Both caches are taken to be enabled.

**Streams** models one streamed request after the other in detail: what lines
upstream may send in each protocol (`Lines`), what each provider makes of a line
(`AnthropicChunks`, `GeminiChunks`, `OllamaChunks`, `OpenAIChunks`, `MockChunks`),
what it remembers (`Counted`), when it stops reading (`Ends`), the executor's
callback (`Tally`), the records and charges of whole and broken streams (`Settle`,
`Charge`), and the SSE writer with a client that may leave at any time (`Leave`:
a write may then still succeed or fail). `Executor` is its abstract
specification: `RefinesExecutor` maps reading, counting and settling to the
executor's `Chunk`, `EndStream` and `Fail`. A text is known by the number of its
line, so that order and duplicates are visible.

**Metrics** models RecordRequest, which Streams uses. The cost of a request
comes out of `Costs`, a set, because the catalogue is a map of which any entry
that matches may be found first, and it is looked up twice per request.

**Conversation** models FitContextWindow and the translations of messages:
`AnthropicTurns`, `GeminiTurns`, `OllamaTurns` for requests, `AnthropicResponse`,
`GeminiResponse` for replies. The client is the environment: it says anything in
any order (`Say`) and puts replies into its conversation (`Reply`). "function",
the old name of the role "tool", is treated as that role by the code, and is not
listed; "developer" stands for roles the code does not know. Bodies of messages
are one text, with or without content: redaction happens before. Left out is what only
a client sends that does not keep to OpenAI's protocol: a result without an id, for
which the code puts "call_default" (`anthropic.go:362`) or "function" (`gemini.go:354`),
a call without one, which is given one at random (`anthropic.go:395`), and the older
`function_call` (`types.go:24`). Its specification
is called `ConvSpec`, so that one module of proofs can extend it beside KeyPool.

| module | composes or extends |
|---|---|
| MCVirtualKeys | VirtualKeys with key settings for TLC |
| MCExactCache | ExactCache with symmetry; ExactCache instantiates LRUCache |
| MCSemanticCache | SemanticCache with scores and files; SemanticCache extends Lists |
| Snapshots, MCSnapshots | both caches, the savers and the process; instantiates SemanticCache |
| MCExecutor | Executor with a routing table, and conversations of which some are similar |
| Streams, MCStreams | extends Metrics, instantiates Executor |
| MCConversation | Conversation with two tools; Conversation extends Lists |
| ProvidersProofs | theorems about KeyPool and Conversation, which share nothing but the providers that use them |
| VirtualKeysProofs, TokenBucketProofs, ExactCacheProofs, SemanticCacheProofs, ExecutorProofs, StreamsProofs | theorems about the module of that name |
| SnapshotsProofs | theorems about Snapshots; instantiates SemanticCacheProofs for its lemmas |

## Runs

| run | module, cfg | shows |
|---|---|---|
| `virtual_keys` | MCVirtualKeys | `OvershootBounded`, `SpendKept`, `NoOrphanBucket`, `GrantsBounded`: two requests on a key with a clock, whose budget and limit change or which is deleted under them |
| `token_bucket` | TokenBucket, MCTokenBucket | `WindowBounded`, `OnlyRecentClients`: sweeps by time and by size |
| `key_pool` | KeyPool, MCKeyPool | `KeysRest`, `RoundRobin`: pools of up to three keys, late 429s, a cursor that wraps |
| `exact_cache` | MCExactCache | `WellLinked`, `NoEarlyEviction`, `RefinesLRU`: four keys for one or three places |
| `executor_alone` | MCExecutor, MCExecutorAlone | `SettledOnce`, `FailsOver`, `Answered`: every routing and failure of one request after another, and what it is charged for |
| `executor_together` | MCExecutor, MCExecutorTogether | `AnswersFit`: two concurrent chats filling the caches for each other, in three conversations, of which two are similar and the third is not |
| `semantic_cache` | MCSemanticCache | `SearchIsBest`, `RecentKept`: caches of one to three places, and a full one of twenty, of which a tenth is two |
| `snapshots` | MCSnapshots | `FileWhole`, `LockInUse`, `NeverOlder`, `StopKeeps`, `PurgeOutlivesStop`, `RestartResumes`: two processes, the second with less room, crashes, and entries of different ages that are alive at the restart |
| `conversation` | MCConversation | `NothingLost`, `RolesAlternate`, `WindowKeeps`, `ResultsFollowCalls`, `EchoesReply`: all conversations of four messages, all windows |
| `streams` | MCStreams | `TextsInOrder`, `Closed`, `Metered`, `Books`, `RefinesExecutor`: every protocol, chains across protocols, streams long enough for each protocol's ordinary course, the records of chats behind a stream |
| `executor_whitelist` | MCExecutor | violated: a fallback outside the key's whitelist answers |
| `executor_weighted` | MCExecutor | violated: a chat ignores the provider drawn by weight |

The violated runs are disagreements between the README of the repository and
the code, quoted in `PROJECT.json`. No other run depends on their being fixed or
not.

Other disagreements, seen while modelling, which have no run of their own:

* The monthly budget (`README.md:33`) is never reset: RecordSpend only adds
  (`virtual_keys.go:125`).
* With 1 to 9 requests per minute and the default burst, a client's bucket is
  evicted (`middleware.go:160`) before it could have refilled, and the client
  gets a full burst early. `WindowBounded` holds when it refills in time, which
  `TokenBucketProofs` assumes by name (`RefillsBeforeStale`).
* A stream asks the weighted target's provider for every model of the chain
  (`fallback.go:352`), also for models it does not serve.
* Roles "strictly alternate" (`gemini.go:462`, `anthropic.go:427`) except at the
  start: when an assistant's message comes first, its turn is made the user's
  after the merging, and a turn of the user may follow. `RolesAlternate` says what does hold.
* The window counts messages (`compress.go:43`), so it may cut a call and keep its
  results. The provider then gets, as the first turn, results of a call it never
  sees. `ResultsFollowCalls` says that this is the only way for a result to lose
  its call; a call in the first turn is sent as the user's, as that turn is relabelled.

### Bounds, and why they are enough

Clocks stop at `MaxTime`: it is larger than the longest interval that a module
compares (a cooldown, an age, a time to live), plus the steps needed around it;
in `snapshots` the two caches have times to live of their own, as they are configured
(`main.go:284`): that of the exact cache is one unit, so that its entries can be fresh, expire
before a save, between save and restart, or after it, and that of the semantic cache is
two, so that entries of two ages can be alive at the restart, or one of them no longer. `MaxSpent` is above the
largest budget plus one response per request, so the overshoot is reached. A
cache of three places has a head, a tail and a middle, and four keys fill it; a
cache of one place is its own head and tail. A tenth is more than one entry from
a capacity of twenty on. Two requests and one pending background write suffice
for a request to see what another left. In `snapshots` two answers to different
requests fill the caches of the first process and overfill those of the second; one tick of
the timer and main's save suffice for two saves to race, and `MaxTicks` counts
over both processes. `MaxChunks` is two in `executor_alone`, so that a stream can break
after it was charged for. `executor_together` sends no streams, as they do not
touch the caches, and forces no provider, as the caches know nothing of it; its two greetings may be answered for each other, and its third
conversation only for itself. `MaxLines` is four in `streams`: an ordinary stream of
Anthropic counts the prompt, says something, counts the completion and ends; any other
order of four lines is there as well. Chats follow until there are `MaxRecords` records,
three, so that the ring of two gives up one; `MaxStreams` lets a stream begin only
while there is no record. Four messages
suffice for a call, two results and a reply, with a system message in any place. Requests, keys,
responses, tools and the two greetings are interchangeable, and reduced by symmetry,
where no liveness is checked.

Deadlock is checked in every run except where a configuration says that a
bounded clock, conversation or number of records may leave nothing to do.

### Fairness

Only `executor_alone` uses any (`Executor!FairSpec`): weak fairness of each
request's steps, which the Go scheduler gives to its goroutine. It includes that
a call upstream ends, as every provider's HTTP client has a timeout that covers
the whole response (`main.go:132`, `provider.go:23`), and that background writes
end, as they have a deadline of five seconds (`fallback.go:235`). Snapshots,
Streams and the caches promise nothing about when.

## Proofs

The theorems hold for every number of keys, clients, requests, models, processes,
messages and tools, and every rate, burst, budget, cooldown, capacity, chain and clock; the runs check
the same formulas on the instances above. The only assumptions are the named
`ASSUME`s of the modules, and `RefillsBeforeStale` where a theorem states it. Most
of them say that a constant has its type, that a set is finite, or that a marker
such as `None` is no value. `KeyPool!CursorAssumption` says more: the cursor counts
at least as far as there are keys. A narrower one would never reach the keys behind
it, and no provider has the 2^64 keys that it would take.

Induction over data is done with sets: the lemma `Induction` (a set of numbers
that has zero and, with each number, the next, has them all) follows from the
well-foundedness of the order, and the recursive function inside a library fold is
shown to exist, position by position, before it is followed. `SeqInduction` says
the same of a set of sequences that has the empty one and stays when an element is
appended.

* `TypeCorrect` in each proof module but `StreamsProofs`, whose `Types` is part of
  `IInv`, and `MessagesTyped` of conversations: type invariants. VirtualKeys and TokenBucket carry `ClocksOrdered`, that
  no recorded time is in the future, since without it a refill could be negative;
  Snapshots carries what a saver holds (`Typed`, `Lively`), ExactCache the list.
* `NoOrphan`: `NoOrphanBucket` is inductive once types are known, as AllowKey
  looks the key up again under the lock.
* `GrantsAreBounded`: by induction on the bucket's uses: what was granted and
  what is left never exceed a burst plus the time since the bucket was made at
  the highest rate. Needs that burst is monotone in the rate, and that clamping
  only loses tokens.
* `OvershootIsBounded`: the sum of a key's spend and of one largest response for
  each request past the budget check is the measure; admission adds one
  response to it while the spend is below the budget, and a charge moves at most
  that response into the spend. Needs finite cardinalities of the requests past
  the check.
* `SpendIsKept`: the action property, action by action.
* `RecentClients`: after a sweep no bucket is stale; between sweeps none is used
  later than the sweep interval.
* `WindowIsBounded`: the invariant adds to what the window's client was granted
  what its bucket holds, refilled up to now, or a full bucket if it has none.
  Eviction replaces the first by the second, which is no gain exactly if an idle
  bucket has refilled by then: `RefillsBeforeStale` (300 seconds at the rate cover the
  burst).
* `KeysDoRest`: needs that a key's cooldown ends no earlier than a cooldown after
  its last 429.
* `NoKeyIsLeftOut` (`RoundRobin`): the picks that the cursor still needs to come to
  a key are the measure. It is the distance to the key or, once the key is passed,
  a turn of the pool from the pick that passed it. Where the counter wraps, the
  distances jump: `RotationInv` distinguishes the last, partial turn.
* `ProperlyLinked`, `EvictsLeastRecent`, `ExactCacheProofs!TypeCorrect`: `Rep(c, L)`
  says that the sequence of nodes L is linked both ways from `head` to `tail`, that
  each node is filed under its own key, and that map and L have the same nodes. Each
  helper's surgery is followed field by field to the L with an element taken out or
  put in front. A node is free for a new entry because at most as many are referred
  to as there are keys (`FreshNode`), also between the steps of one Set. What is read
  by following pointers is L (`WalkFact`). That only the least recently used give
  way needs `Recent`: whatever stands before a key in the list was used after it.
* `ExactCacheProofs!Implements` (`RefinesLRU`): `Holds(c, E)`, the cache holds exactly
  the entries E in this order, is followed through Get, Set in both cases, Clear and
  the import, and each of them makes of E what `LRUCache` does.
* `RecentStay` (`RecentKept`): the invariant `PlacedInv` gives each entry of the list
  its position in the history of what was stored. Positions grow at least as fast as
  the list, so what gives way is never among the latest nine tenths of the capacity.
* `SearchFindsBest` (`SearchIsBest`): no invariant of the cache is needed, but one of
  the loop: after k entries it holds a best match among those (`BestOf`).
* `SavesExclude`, `FileIsWhole`, `SavesInOrder`: one invariant for all three. The
  lock is held by the one saver that is between taking and giving it back; what
  such a saver has written is whole; and its caches were exported no later than now and
  no earlier than the file's, since every other save either finished before it took the
  lock or waits for it. Crashes and restarts drop lock and savers together.
* `NothingIsLost`, `PurgedStaysAway` (`StopKeeps`, `PurgeOutlivesStop`): after the
  signal, what any save that can still write the file has exported (`AfterSignal`) has
  all of the caches that was neither evicted nor stored since, and nothing that was
  purged before. These are main's own save, and one of the timer that waited for the
  lock and gets it when main has written. It needs that an answer is stored once and is not written by a
  goroutine after it was purged (`Numbered`, `Purged`).
* `RestartGoesOn` (`RestartResumes`): the action property, for which `AfterSignal` says
  what of the stopped process's caches is in the file. What Restore makes of the
  file comes from the lemmas about ImportEntries in SemanticCacheProofs. That entries which
  give way are no younger than those that stay needs one invariant more, `OldestFirst`: the
  cache, every export of it and the file have their entries in the order of their
  ages, through eviction, saves and restores.
* `AnswersAlwaysFit`: the invariant follows an answer to wherever it waits: in a
  request, in either cache, or with a background writer, it was made for a
  matching prompt by a model of the chain of the model it is kept under. Chains of fallbacks are the
  reason that it speaks of the model asked for, not of the one that answers.
* `SettledExactlyOnce`, `FailoverInOrder`: the same invariant, phase by phase: before
  a request is done it is neither recorded nor charged; when it is done, the model that
  answered and the model that was charged are the candidate that was called, and for an
  answer out of a cache none was called; candidates before the
  current one have failed, each with an error that lets the loop go on.
* `StreamsProofs!Implements`: `Streams!Spec => RefinesExecutor`, the step simulation for all models,
  chains, counts and lengths of streams. `ExecutorRequest` is compared before and
  after each action: reading a line that makes a chunk is `Chunk`, the end of a
  charge is `EndStream` or `Fail`, a call that fails is `Fail` or, behind a chunk,
  nothing yet; leaving, settling and the chats between streams are stutters. The
  invariant it needs says that no chunk is passed on before a candidate is
  called, that there is one for each line at most, that a broken stream has one,
  that candidates have failed one by one, that a count never returns to nothing,
  and that the candidate that is called is the one billed. It needs the name of no
  model to be `None`, or a bill could not be told from its absence.
* `TextsArrive`, `ClientIsTold` (`TextsInOrder`, `Closed`): `Flow` says that what was
  passed on has the texts of the lines read, in order, and that the client has read a
  first part of it, all if it is still there, with one notice behind it at most.
  `EndsLast` adds, for the protocols that close a stream by a chunk, that nothing
  comes behind that chunk. `Told` follows the way a stream ends: [DONE] is read by a
  client that stays if the stream was settled as whole, and not otherwise, and a stream
  that has reached the end of its protocol does not break while the client stays. What each provider makes of a line is taken from its own
  definition (`ChunkFacts`), case by case.
* `StreamsAreMetered` (`Metered`): `Metering` says of every protocol where the counts
  are: with the provider until the end, or with the callback, by upstream's count or by
  the estimate. Only OpenAI's callback may count on behind a count, and there
  `Metered` asks for the completion that was counted if no text follows.
* `BooksBalance` (`Books`): totals are sums over the records (`Summed`), and the key has
  paid for all of them but the one that is being settled (`Paid`). The total cost is
  compared only if each model has one price: the collector looks a price up twice,
  and a catalogue with two entries for a model may answer differently.

* `MessagesTyped`: the only invariant the theorems about conversations need. What is
  said of the turns holds of every list of messages (`Message`), and is proved by
  induction over it. One message more is one more raw turn (`RawAppend`), since the
  loop that sets the system's messages apart keeps the order; and merging, a fold, does
  with it what `AddTurn` says (`MergeAppend`): the last turn gets longer or there is one
  more (`SameRole`, `OtherRole`, `Grown`). Anthropic and Gemini are treated as one, by
  what each calls its roles and the calls (`ToolRole`, `ModelRole`, `KnownAs`).
* `NothingGetsLost` (`NothingLost`): the parts of the merged turns, without blanks, are
  those of what the messages say, message after message (`MergedSays`). Relabelling
  moves no part, and what Ollama gets is what was said (`OllamaSays`).
* `RolesDoAlternate` (`RolesAlternate`): merged turns alternate and are never empty; of
  these facts the relabelling of the first turn keeps all but the one about turns one
  and two, which is why the property begins behind it.
* `WindowDoesKeep` (`WindowKeeps`): each position of the window is traced to the
  position in the conversation that it comes from (`WindowIs`).
* `ResultsDoFollow` (`ResultsFollowCalls`): the induction carries where calls are
  (`Near`): a call that only results and system messages came after is in the last turn,
  which is the model's, or in the last but one, and then the last is where results are
  put. A window cuts in front only, so in it a result has its call before it or
  nothing but results and system messages (`WindowOrdered`), and then it is in the first
  turn. So the next result is put right behind it (`ResultNear`), and turns in the middle
  of the list do not change any more. Neither half can do without the other.
* `RepliesAreEchoed` (`EchoesReply`): the action property, from what `transformResponse`
  makes of the blocks (`AnthropicReads`, `GeminiReads`) and what the last turn ends with
  (`LastSays`). Gemini's calls come back by the names they came with, whichever id they
  were given.

Model-checked only: liveness (`Answered`), which the prover does not do. The two violated
runs are counterexamples, and there is nothing to prove about them. Every other property
that a run checks is stated by a theorem.

## Not modelled

* The redactor's regular expressions, compression of blanks, the repair of JSON,
  the encoding of requests and answers: text in, text out, no state.
* Sampling settings and declarations of tools in the translations: copied field by
  field.
* `HashRequest` and the similarity of vectors: hashing and floating point, taken
  as keys and scores.
* The router's table of model families and its choice of the cheapest and the
  fastest model: constants (`Serves`, `Alias`) of Executor.
* Embeddings, Health and ListModels: one call upstream and its answer, no state.
* The server's write timeout, which is equal to that of one upstream call by configuration
  (`server.go:82`): Executor and Streams have no clock.
* Configuration parsing, flags, and the terminal and web interfaces.

## What could come next

*Gateway*: VirtualKeys and Executor together, so that what a key is charged is what its
requests consumed, over deletion and re-registration of keys. *Deadlines*: the
executor with a clock.
