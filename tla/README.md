# AFA in TLA+

TLA+ models of the `afa` workspace (`src/`), TLC configurations that check them on
small instances, and TLAPS proofs of what matters most. Every definition is translated
from the Rust code; `PROJECT.json` names, for each, the lines it stands for.

    tlc -workers 2 -config bus_shared.cfg MCEventBus
    tlapm SecretVaultProofs.tla

## 1. The system

AFA is a kernel for workflows: a process that takes events, fans them out to
registered steps, keeps secrets in a sealed vault, records a span for each piece of
work, and calls adapters for language models, embeddings and knowledge. All of it
runs as tasks of one tokio runtime over a few SQLite files and a directory of
Markdown records.

| part | state | operations | talks to |
|---|---|---|---|
| event bus (`afa-bus`) | a map from event type to a list of senders, under one RwLock; a bounded channel per subscription | `subscribe`, `publish`, `recv`, drop | everybody publishes facts on it |
| security engine (`afa-security`) | table `sealed_secrets`: versions of a name, active or rotated | `seal`, `unseal`, `rotate`, `lookup_hash` | publishes audit events after its commits; used by the setup, the bearer check and the LLM adapters |
| kernel mode and setup (`afa-kernel`: mode, dashboard/pre_bootstrap) | an atomic discriminant and a payload under a lock | four transitions, `POST /pre-bootstrap/seal`, boot detection | seals the dashboard token in the vault |
| ingest and fan-out (`afa-kernel`: runtime, scheduler) | the registry of steps; a JoinSet per ingest | `register`, `ingest`, `dispatch` | wraps itself and each step in a span; publishes facts |
| observability (`afa-observability`, dashboard/spans) | table `spans`, a counter of drops, a broadcast channel | `record_span`, the purge loop, `run_one_purge`, health, pages and stream of spans | publishes `SpansPurged`, `SpansPurgeFailed`, `SpansWriteFailed` |
| knowledge adapter (`afa-plugin-knowledge-json`) | bodies `<slug>/<id>.md`, an index in memory, its sidecar file | `store_information`, `find_information`, `list_topics`, boot | the file system |
| LLM adapters (`afa-plugin-llm-http`, `afa-plugin-llm-chat-completions`) | the unsealed key in a holder under a mutex, the estimate of the next prompt under another; per stream a task, a channel and a watchdog | `complete`, `stream_complete` | the vault, the vendor, the bus |
| local embedding adapter (`afa-plugin-embedding-local`) | state Unloaded, Real or Degraded; three model files | `new`, `embed`, `embed_batch` | the hub it downloads from |
| Ollama embedding adapter | none | `embed`, `embed_batch` with retries | an HTTP server |
| capability registry (`afa-kernel`) | one LLM, one embedding, a map of knowledge adapters | register, look up; `Clone` of the kernel | the adapters |
| storage primitive (`afa-storage`) | one SQLite connection under a mutex, a table of migrations | `open`, `migrate`, `with_conn` | the security engine and the observability engine |
| dashboard routes (auth, health) | none | the bearer check, `/health` | the vault, the mode, the engines' health |
| contracts, conformance batteries, mocks, harness | none | types and tests | |

What is hard in it, part by part, and what makes the part correct:

* **Bus.** A publisher copies the list of senders, sends without the lock and then
  removes the positions it found closed, from a list that others have changed since;
  what does not fit in a channel goes to a spawned task. Correct: nobody in the copy
  is skipped, a subscription that is open stays registered, no message comes twice or
  is lost, a slow subscriber does not hold a publisher.
* **Vault.** Calls are serialised by the connection's mutex but their audit events are
  published after it is released, a crash may come in between, references are passed
  around by callers who learn of a rotation at different times, and rows of an older
  schema have no hash. Correct: a reference is rotated once, what was reported rotated
  is not opened by a later call, the audit trail is causal.
* **Mode and setup.** A transition is a compare-exchange and then a write of the
  payload; requests race, seals fail, clients go away (axum drops the handler), publishes
  panic, the process restarts, and a boot takes any error of its lookup for a vault without
  a token. Correct: one token, and one more at most for each boot that did not see it; a token
  acknowledged with 200 authenticates, the mode agrees with the vault, `Sealing` is left.
* **Ingest.** Steps run concurrently on a JoinSet, fail, panic or hang; inserts of spans
  fail; the caller may drop the future; steps are registered meanwhile. Correct: an
  ingest that returns has joined every step, announced exactly the panics, and nothing of
  it happens afterwards; each span is a row or a published drop.
* **Observability.** Two purges (the loop's and one by hand) compute their cutoff
  before they wait for the connection, inserts come in between, the hour's drops are
  reset after the DELETE, clients of the stream lag. Correct: no row vanishes uncounted,
  none younger than the retention goes, a stream has no gap, the engine recovers.
* **Knowledge.** A record is written, synced and renamed, then listed in memory, then
  the index is saved the same way; the process or the machine may die at each step,
  a write may fail, a caller may drop the future, the index may be damaged. Correct: an
  acknowledged record is found, a listed one has its body, a failed one is not listed,
  an older index never replaces a newer one.
* **LLM.** Requests share one key; a 401 empties the holder and the request retries;
  requests fail or are dropped while they hold the mutex. A stream's chunks go
  through a bounded channel with two owners of the sending side. Correct: one unsealing
  serves all, a retry never sends a key from before its 401, no chunk is lost, the
  audit event tells what the consumer was told, requests and streams end.
* **Completions.** What one call learns of its prompt is the estimate of the next, and calls
  overlap between the event and that store; requests, answers and errors are translated twice.
  Correct: an estimate comes from a completion that stands before it in the trail, no tool
  call is lost or reordered, an error that may be retried is one that may pass.
* **Search.** A find looks at the index once, then reads and caches bodies with no lock
  while records are stored; scores tie; topics share slugs; an index comes back from its file
  or from the bodies. Correct: a find answers what it was asked of the records there were when
  it looked, and the same after a restart.
* **Ollama.** Failures that may pass are retried with waits, the server numbers its
  vectors. Correct: a vector is returned at the place of its text as far as the numbers are
  given once each, attempts are bounded.
* **Opening the vault.** Processes of two releases open one file; each reads the version
  once and migrates one transaction at a time; statements fail, processes die. Correct: who has
  it open has every table of its release, nobody takes the file back.
* **The whole kernel.** The setup, the gate of `/spans` and `/health` look at the same vault,
  over deaths and restarts. Correct: the acknowledged token opens `/spans`, a refused one
  never, `/health` asks for a setup only if there is no token or the boot did not see it, the
  kernel comes up.
* **Clones.** Each clone has a registry of its own. Correct: an adapter stays where it was
  registered.
* **Local model.** Nothing is locked during a download; a caller that goes away leaves
  the blocking task behind. Correct: a file at its place is whole, a vector comes from a
  whole model.

`PROJECT.json` lists these hazards one by one ("hazards"), each at its line of code and
with the properties that would notice.

## 2. The modules

| module | models | lines of it stand for |
|---|---|---|
| `EventBus` | the bus, for one event type | `afa-bus/src/lib.rs` |
| `BusContract` | what one subscription is promised; `EventBus` implements it | its doc |
| `SecretVault` | the security engine | `engine.rs`, the schema in `storage.rs` |
| `SecretContract` | what the holder of a reference is promised; `SecretVault` implements it | the doc of `SecurityV1` |
| `KernelMode` | mode controller, setup handler, boot | `mode.rs`, `dashboard/pre_bootstrap.rs`, `kernel.rs` |
| `Dispatch` | ingest, fan-out and their spans | `runtime.rs`, `scheduler.rs`, `record.rs`, `observability.rs` |
| `SpanLedger` | spans table, purges, health, stream and pages | `afa-observability`, `dashboard/spans.rs` |
| `SchemaBoot` | opening and migrating one SQLite file | `afa-storage`, `storage.rs` of `afa-security` |
| `Kernel` | `SchemaBoot` and `KernelMode` in one process, with the gate and `/health` | `kernel.rs`, `dashboard.rs`, `dashboard/auth.rs`, `dashboard/health.rs` |
| `KernelHandles` | the capability registry of each clone of a kernel | `capability_registry.rs`, `kernel.rs` |
| `KnowledgeStore` | store_information and the index | `afa-plugin-knowledge-json` |
| `KnowledgeSearch` | find_information, list_topics, slugs, the index after a restart | `adapter.rs`, `search.rs`, `index.rs`, `topic_slug.rs`, `index_file.rs` |
| `KeyHolder` | the key holder and the requests that use it | `key_wiring.rs`, `adapter.rs`, `responses_adapter.rs` |
| `LlmExchange` | complete between the key and the answer | `responses_adapter.rs`, `adapter.rs`, `afa-contracts/src/llm` |
| `TokenStream` | one stream of either adapter | `streaming.rs`, `responses_adapter.rs` |
| `OllamaClient` | the embedding adapter over HTTP | `afa-plugin-embedding-ollama` |
| `LocalModel` | construction, download and load of the local model | `afa-plugin-embedding-local` |
| `MC…` | constants of the instances and symmetry; `MCAdapters` and `MCKnowledge` run several components | |
| `EventBusProofs`, `SecretVaultProofs`, `DispatchProofs`, `SpanLedgerProofs` | theorems about the module of that name | |
| `KernelProofs` | theorems about `KernelMode`, `SchemaBoot`, `Kernel` and `KernelHandles` | |
| `KnowledgeProofs` | theorems about `KnowledgeStore` and `KnowledgeSearch` | |
| `LlmProofs` | theorems about `KeyHolder`, `TokenStream` and `LlmExchange` | |
| `EmbeddingProofs` | theorems about `LocalModel` and `OllamaClient` | |

Each module has one action per step that another task, a crash or a caller can come
in between of: what the code does under one lock, or between two awaits with nothing
shared, is one action. The components meet through few things, and each module
has the part of the other it needs: `Kernel` extends `KernelMode` and `SchemaBoot` and
composes them, `KernelMode` has the rows of `dashboard-token` (what
`SecretVault` says of seals and lookups of one name), `KeyHolder` has whether the
secret is active, `TokenStream` starts where `KeyHolder` hands its key over, and
the bus is a log in the modules that publish on it.

### EventBus
`registry` is the list of one type, `channel`/`receiver` the mpsc channel,
`fallback` the spawned sends that wait for room, `pc`/`senders`/`idx`/`closed` a call of
`publish`: `PublishSnapshot` (copy under the read lock; `PublishPanics` once the lock is
poisoned), one `TrySend` per sender, `Sweep` (the removals by position under the write
lock) or `SweepPanics` (`Vec::remove` out of bounds, which poisons the lock for all
types). A send to a full channel spawns; the spawned sends may be served in any order, as
tokio queues only those it has polled. `spilled` is a history of the sends that were
left to a fallback task.

### SecretVault
`rows[n]` are the versions of a name. A call starts with one of the `Call…` actions;
`Refuse`, `Seal`, `Unseal`, `Rotate`, `RotateFails` or `LookupHash` is all that happens
under the connection's mutex; `Return` publishes the audit event, which the code does with
the mutex released, and gives the answer. `Crash` ends the calls and drops the events of
those that had committed (`lost`). `dead`, part of a call, is a history: the references
whose rotation had been reported when the call began; `acked` and `rotations` are histories
too. `Legacy` rows have no hash, `Forged` references were given to no one, `Oversized`
payloads exceed the cap. A row opens under the key that sealed it; that is what is taken
from the AEAD.

### KernelMode
`disc` and `payload` are the two halves of the mode; a handler is `new`, `won`
(compare-exchange), `sealing` (payload), `sealed` or `failed`, `full` or `back`
(discriminant), `done` (payload and answer). `Abandon` is a client that disconnects, which
drops the handler at its await, or a publish that panics: a handler that had won is
then `abandoned`, any other `gone`. `Restart` derives the mode from what the lookup of the boot
finds (`BootLookup`, `BootMode`): the token, nothing, or an error, which is taken for nothing.
`legacy` says that the vault holds a token of the first release, whose hash is NULL: its row is
the first, so that no lookup sees a token that is sealed after it. `misled` is a history: the
boots that found no token although one had been sealed.

### Dispatch
Per ingest `pc`, the `snapshot` of the registry and the stage of each step's task, with
the rows and facts under its correlation. The registry is keyed by the type of the event
(`TypeOf`, `StepsFor`). A task runs, ends or panics, its span is inserted or dropped and
then announced, and the drain of the JoinSet joins it. `known` (what was registered at the
call) and `failed` are histories.

### SpanLedger
A clock in ticks, `TicksPerMs` of them to the millisecond that the stored times are
truncated to. A purge fixes its cutoff, waits for the connection, deletes, and then resets
the counter of drops and announces; between these inserts and the other purge go on. `client`
and `got` are the readers of the broadcast. `walk` is a client of `/spans/recent` that asks
for page after page with the time of the last row as cursor, back in time (`Cursor`, `Page`);
rows of one millisecond come in any order, and a restart of the process does not end its walk.

### SchemaBoot
`file` is what is on disk: the version in the meta table (`meta`), the notebook of
migrations and the tables there are (`schema`). `Open`, `PreCheck`, `ReadNotebook`, one
`Migrate` per transaction, `EndMigrate` and `PostCheck` are the steps of `open_storage`;
`StatementFails` and `Killed` come in anywhere. What releases leave behind is
`LeftByRelease`: the first one kept no notebook.

### Kernel
`OpenStep` is a step of any process on the file, `Construct` the rest of `Kernel::new`, which
starts `KernelMode` (`Restart` of it when the kernel was up before), `Setup` a step of a seal
request, `BearerAuth` and `Health` two GETs whose answer is `reply`. A file with a token of the
first release (`legacy`) is one that release has been at.

### KernelHandles
`registry[k]` is the registry of one `Kernel` value, behind its own mutex; `Register` fails
on a slot that is taken, `Clone` copies, `Drop` ends a value.

### KnowledgeStore
A body is in place (`md`) and, once its directory is synced, durably so (`mdD`); a power
failure leaves any set between the two. `roots` holds what such a failure may leave of the
root: each index renamed there since the last sync of it that worked, with the directories
made before that rename. `stage` is a call of
`store_information`, `lock` the tokio mutex around the index, `snap` the snapshot a save
writes, `afloat` the renames that go on after the caller dropped the future, `overtaken`
(a history) the records that such a rename took off the index file. `Boot` loads the
index, rebuilds it from the bodies when it is damaged, or starts empty when it is
missing. Temp files of the index are left out: nothing reads them.

### KnowledgeSearch
A topic is a sequence of characters, since two topics with one slug are where it gets hard; a
text is a set of words. `Look` takes the candidates and the cached tokens under the read lock,
`ReadBody` and `CacheTokens` load what is missing one record at a time, `Respond` ranks, cuts
and publishes. A read that fails counts as a body without words (`ReadFails`), one in the
answer fails the call (`Unreadable`). `StoreInformation` and `RefuseStore` are a store in one
step, `ProcessDies`, `Damage` and `Restart` the start from the file or, if it is damaged, from
the bodies (`RebuildFromDisk`).

### KeyHolder
`cached` is the number of the unsealing that filled the holder, 0 when empty; `FastPath`,
`SlowPath` and `Clear` take the mutex, `Unseal` and `UnsealFails` release it. `seen` is
the number of unsealings when the 401 of a request came. `Streams` are the requests of
`stream_complete`, which take a key once and hand it to their task. `tickets` are the
audit events.

### LlmExchange
`Ask` reads the estimate, `PublishRequested` publishes and sends, `Receive`, `Refused` and
`Broken` are what may come back, `PublishCompleted` and `Complete` (or `PublishFailed`) tell and
answer; the caller may go away at each await (`DropComplete`). `Body`, `CompletionResponse`, `Reason` and `HttpError`
are the translations of each adapter, over items, blocks and calls in place of JSON.

### TokenStream
`sent` and `read` are the channel, `hand` the chunk in the task's hand, `heard` the
vendor's events, `events` the audit events; `watch` is the watchdog with its clone of
the sender. `api` chooses the adapter, where they differ. An event of Chat Completions is
what its mapper looks at: the finish_reason, the text (absent, empty or some) and the number
of tool calls; `ChatKind` takes the first of these that says anything, one chunk of each
event. Of the Responses API an added function call and a piece of its arguments are two kinds
of event, of which the first alone sets `calls` (`SawCall`).

### OllamaClient
An attempt ends well, in a failure that is tried again after a wait, or in one that is not;
`last` is how the last one ended. A vector is named by its text, so that `InOrder` can say
whether each text got its own; the server may number its vectors as it likes, and `NamedOnce`
is a text whose number it gave once. The configuration is left out: no step depends on it.

### LocalModel
Files are inodes, so that one renamed to its place can still be written by who has it open.
A call is a caller and the blocking task it awaits; `DropModelCall` drops the caller alone.
`crossed` is a history: a download has opened the temporary file another was writing.

## 3. What the runs show

Each passing run asks whether the properties of its components hold when everything the
model has happens at once: concurrency, failures, crashes, callers that go away.

| run | properties | shows |
|---|---|---|
| `bus_shared` | `NoSubscriberSkipped`, `PublisherOrder`, `SweepIsExact`, `ContractSpec`, `OwedIsReceived` | Two concurrent publishers, two subscribers that come and go, a channel of one message: nobody in a publisher's copy is skipped, each subscription sees exactly the contract of BusContract (accepted once, delivered once, lost only by dropping), one publisher's messages keep their order but for those that spilled, and who reads gets everything. |
| `vault_calls` | `RotationChain`, `NoStaleUnseal`, `LookupRejectsRotated`, `AuditTells`, `ContractSpec` | Two tasks seal, unseal, rotate and look up one name, with crashes, a restart, an oversized payload, a reference nobody was given and a row that predates the hash column: rotations form chains, a reported rotation is final for later calls, each version is announced once and before the one that replaces it, unless a crash swallows the event, and the table implements SecretContract. |
| `kernel_shared` | `OneToken`, `AnsweredTokenWorks`, `PayloadSettles`, `OpenIsWhole`, `RefusedStaysOut`, `NeverDowngraded`, `RepliesTrue`, `SetupComesToAnEnd` | A kernel opens one vault file next to a process of the next release, fails, dies and is started again, while two valid seal requests and an invalid one race through its setup, fail, disconnect or panic, the vault may hold a row without a hash, the lookup at boot may fail, and the gate and `/health` are asked: the file is whole when open and never downgraded, one token is sealed and one more at most after a boot that did not see it, the acknowledged token is the one that opens `/spans` unless such a boot or such a row came before it, a refused one never does, and the kernel comes up. |
| `dispatch_shared` | `EveryStepJoined`, `EverySpanAccounted`, `ReturnedIsOver`, `IngestReturns` | Two ingests of different events, one of which may be dropped, fan out over a registry that grows meanwhile to steps that fail, panic or hang, and an insert may fail: what returns has joined exactly the steps of its event, announced exactly the panics and failed inserts, is over, and returns unless its own step hangs. |
| `ledger_shared` | `RowsConserved`, `ClientsShownWhole`, `RetentionKept`, `HealthRecovers` | The hourly purge and one by hand overlap with inserts, a dropped span, a failed purge, a client of the stream or of the pages and a restart: no row is lost or counted twice, none younger than the retention is taken, the stream has no gap and the pages every row but those of a page's last millisecond, and a degraded engine becomes healthy again. |
| `knowledge_shared` | `BodyInPlace`, `OutcomeHolds`, `IndexFileGrows`, `StoreReturns`; `SearchIsRight`, `RestartKeepsAnswers` | Three stores, two of one slug, one whose caller may go away, with a failing step, two deaths of the process or the machine and a damaged index: acknowledged records are found, failed ones are not listed, listed ones have their body, the index file only grows but for a late rename, and every call ends. Two finds read and cache bodies while records are stored and the adapter starts again: each answers what its request asks of the records there were when it looked, in order. |
| `adapters_shared` | `UnsealedOnce`, `RetryIsFresh`; `NothingLost`, `AuditTrue`; `AnswersSound`; `InOrder`; `ExchangeTrue`; `CallsEnd` | Three requests share a key holder while the secret is rotated; a stream goes through a channel of two; two first embeddings download a model over a bad network and die; a batch is sent to Ollama; two completions overlap: what the adapters promise of each, and that every call that can end does. |

`KnowledgeStore` and `KnowledgeSearch` state what each needs of the other, and the five
adapters share no state at all: their only meeting point is the vault, the bus and the
network, which the modules have as choices of the environment. `MCKnowledge` and
`MCAdapters` therefore pick one machine in the initial state (`which`) and leave the others
as they were initialised. A behaviour of a component in the run is a behaviour of the module
alone, so that nothing is lost by it but the product of states that have nothing to say to
each other.

A name that stands for several properties of a module is a conjunction of them:
`AuditTells` of `AuditCausal` and `AuditComplete`, `OutcomeHolds` of `AckedIsFound` and `ErrIsAbsent`, `SearchIsRight` of `FindIsExact` and
`ListMatchesFind`, `ClientsShownWhole` of `StreamGapless` and `PagesWhole`, `ExchangeTrue` of
`EstimateIsPast`, `CallsKept` and `RetryIsWorthIt`, `RepliesTrue` of `TokenStaysGood` and
`HealthTellsSetup`, `SetupComesToAnEnd` of `SetupEnds` and `ComesUp`; `AnswersSound` and
`InOrder` of `MCAdapters` include `PlacedIsWhole` and `RetriesBounded`.

Five runs find a violation: the code against what its own docs and comments say of it.
"findings" in `PROJECT.json` quotes both.

| run | property | shows |
|---|---|---|
| `bus_lost_subscriber` | `OpenIsRegistered` | Two publishers that found the same closed entry both remove its position: the second removes a live subscription. |
| `mode_locked_out` | `NeverStuck` | A client that goes away while its seal waits leaves the kernel in Sealing with no handler: the rollback is never run. |
| `kernel_reseal` | `ResealWorks` | In a vault of the first release that holds a token, a token sealed again and answered with 200 is refused by the gate: the lookup still reads the row without a hash. |
| `kernel_clones` | `ClonesAgree` | An adapter registered on one clone of a kernel is not found through another. |
| `stream_deadline` | `DeadlineCloses` | The deadline does not close the channel: a silent vendor keeps the consumer waiting for ever. |

For each property of a passing run `PROJECT.json` names a mutant: a definition of the
model changed as a plausible bug would (a lock not taken, a guard dropped, a reset
forgotten), under which the same run violates that property.

The type invariants of `SecretVault`, `KernelMode`, `SchemaBoot`, `KernelHandles`,
`EventBus`, `Dispatch`, `SpanLedger`, `KnowledgeStore`, `KeyHolder`, `TokenStream` and `LocalModel`
are proved (section 4) and not checked again; those of the other modules document their state. Likewise `RotatedForGood`,
`AckedIsRotated`, `OneOwner`, `ModeIsHonest`, `Audited`, `FinishedIsLast`, `ToolsNamed` and
`AdaptersStay` are proved.

### Bounds, and why they are enough

* **Bus.** Two publishers, one of which calls twice, two subscriptions (three in
  `bus_lost_subscriber`, where each publisher calls once), capacity 1 (1024 in the code,
  `DEFAULT_SUBSCRIPTION_CAPACITY`).
  The races are between two publishers over positions of the list, which takes two or
  three entries; a channel of one is full after one message, so the fallback is taken.
* **Vault.** One name (names share nothing but the connection), two tasks, three
  versions, one of them a legacy row without a hash, one forged reference, one oversized
  payload: enough for a chain of two rotations, for two tasks that rotate one
  reference, and for a seal beside a rotation. One key: a restart with another
  makes every old row unreadable and changes nothing else.
* **Mode and kernel.** Two valid requests and an invalid one (in `mode_locked_out` three valid
  ones and three starts), two starts of the kernel: a request that rolls back, one that wins
  after it, one that loses, and a restart in each mode. One of the valid requests may fail, the
  other may be abandoned or panic; the lookup of the second boot may err or meet a row without
  a hash, after which the other request may seal a second token. That no more than one comes of
  each such boot takes more boots and requests than these two, and is what `OneTokenCorrect`
  proves. Two processes, one of this release and
  one of the next, so that each can be ahead of the other in the migrations, on no file or on
  one that either earlier release left behind; two failures or deaths, so that a boot that
  failed can fail again. Both the kernel's runs start
  also from a vault with a token without a hash (`LegacyRows`).
* **Clones.** Two kernels, two adapters for one slot and one for another: what a clone
  lacks takes one registration after one clone.
* **Ingest.** Two ingests of different events, the first with two steps, one of
  which may panic, the second with one; one insert fails. Tasks of different
  steps share the log and the counter of drops only.
* **Ledger.** Two spans, a clock of three ticks, two to the millisecond, an interval of two,
  retentions of none (days and an hour in the code): only their order matters, and at the
  clock's end both purges find the rows of the first millisecond too old and a row of the
  second too young. The channel has capacity 1, so that a client lags
  after two spans, and a page one row (the default and the cap), so that every page has an
  edge. A client either streams or pages; a walk begins one millisecond ahead of the clock.
  Two starts of the process, one failing insert, one failing purge; a walk begins before the
  restart and may go on after it (`PagesFirst`), since a walk reads the rows alone.
* **Knowledge.** Stores: three records, two of them under topics with one slug, one whose
  caller may go away; one failing step, one damaged index, three starts of the process, of
  which the third only if the third record was not begun before it (`SecondDeath`); the
  proofs of section 4 have no such bounds.
  Finds: two of them, three records and a fourth that is refused, slugs cut after three
  characters (64 in the code) of which one would end in a dash, two requests (by topic with a
  limit of one; by a repeated tag and words, one of which counts for nothing), two starts, one
  failing read. Two records tie in score and in age, which leaves the order of the ids.
* **Keys and streams.** Three requests, one a stream, one failing unsealing; three vendor
  events over a channel of two (two over one in `stream_deadline`): full, empty and in
  between (64 in the code). Of Chat Completions an event for each way through the mapper
  (`OneOfEach`): no chunk, text, text beside a tool call, an empty text beside one, two calls,
  and a finish with text beside it, without, and with a reason nobody knows.
* **Completions.** Two calls, two requests (a plain one, and one with a system prompt, an
  image by URL, a tool result with one by bytes, and a tool), three answers of the vendor for
  each adapter (tool calls beside a text, a text cut short, nothing) and each status the code
  has a case for.
* **Ollama.** One call, as calls share nothing, of up to three texts, one of which may be
  blank; three attempts (four in the code): a first, a middle and a last one.
* **Local model.** Two calls, two starts; two files of two pieces stand for three files of
  thousands: the config comes first, and what is at stake is a file that is missing,
  whole, torn or written by two. `Manifest` is TRUE, without it nothing is verified. The
  mode is chosen only where the config file is missing, as nothing reads it otherwise.

Symmetry is used in `vault_calls` (tasks), `bus_lost_subscriber` (subscriptions,
publishers) and `mode_locked_out` (valid requests), over sets whose members no
definition tells apart, and in no run with a liveness property. Deadlock is not checked:
in every module the environment may stop (no more publishes, requests, events or
versions within the bounds), and a run that ends there is no fault. That what has begun
goes on to its end is what the liveness properties say instead.

### Fairness

Weak fairness is assumed of what the runtime polls: a publish in progress, a handler, a
task of the JoinSet, the body of a stream. tokio polls every task that is ready, and none of
these waits for anything but a lock or a channel. Strong fairness is assumed where
tokio's semaphore queues its waiters in order: the mutex of the key holder
and of the index, a send that waits for room. Nothing is assumed of callers, clients,
crashes or steps: they need not begin, go away or return.

`FairSpec` of `EventBus` is fair to publishers alone; that subscribers keep receiving is a
hypothesis (`Reading`) inside `OwedIsReceived`. `Fairness` of `MCAdapters` is what its modules
need: the requests of `KeyHolder`, the task, the watchdog and the consumer of a stream and a
vendor that answers it, the attempts and waits of the Ollama client, whose timeout ends an
attempt the server never answers. `PolledSpec` of `TokenStream` has no vendor that answers and
is what `stream_deadline` uses, since the client of a stream has no timeout. `FairSpec` of
`SpanLedger` has time that goes on, a loop that wakes at its tick and purges that go on; at
most `MaxFailures` of them fail. `KFairSpec` of `Kernel` has the boot and the handlers that
go on; that a process which failed or died is started again is up to its operator, and
assumed in `ComesUp`. `SetupEnds` leaves out handlers that were abandoned, which is the finding
of `mode_locked_out`. `LlmExchange`, `LocalModel`, `KnowledgeSearch` and `KernelHandles` have no
liveness: nothing in them waits but for the vendor, the network or the disk.

## 4. What is proved

The proofs are for every value of the constants: any number of tasks, requests, steps,
names, versions, events, any capacity. Assumptions on constants are the named ASSUMEs
in the modules. Nothing is assumed of the lookup at boot: it may fail, or meet a row without a
hash, at any start.

* `SecretVaultProofs`. `VaultInv` is `TypeOK`, `AckedIsRotated`, `RotationChain` and
  `NoStaleUnseal`. The chain is not inductive alone: that a second rotate of a reference
  fails rests on the rotated row, and what a caller knows (`dead`) has to be tied to rows,
  which is `AckedIsRotated`. `SealEffect`, `RotateEffect` and `ExecuteEffect` say once what
  a call does to the table; `AppendOnly` gives `RotatedForGood`, and `SealIssues` and
  `RotateReplaces` map steps to the actions of `SecretContract`, so that
  `ContractImplemented` proves `Spec => ContractSpec`. `LookupCorrect` needs nothing but that a
  match is of an active row (`MatchedBy`) and that what the caller knew is rotated.
  `AuditCorrect` ties the trail to the calls in flight (`AuditInv`): whatever a caller was
  given is announced, a call names only what was given, and an event that is still to
  come (`PendingFresh`) is of a version nobody else announces.
* `KernelProofs`, the mode. `SetupInv` adds to the properties what each handler in flight
  knows (`HandlerKnows`): `OneToken` is not inductive, since it is the mode that keeps a
  second seal away, and between the seal and the change of the mode only the handler knows.
  `RoomForOne` is what is left of that after a boot that did not see the token: as long as a
  seal may still come (`SealAhead`) there are no more tokens than boots that were misled, and
  none if this boot was not.
  `PayloadCorrect` follows the payload through the handlers between their two writes.
* `KernelProofs`, the opening of the file. `BootInv`: what a process concludes from the one version it read rests
  on a notebook without gaps and on no migration being noted without its tables
  (`LeftByRelease`), which every step of every process keeps; `SeenIsThere` and `WholeWhen`
  carry it to the process that has the file open. From it `OpenIsWhole` and
  `NeverDowngraded`, for any number of processes of any releases.
* `KernelProofs`, the whole. `KernelImplementsMode` and `KernelImplementsSchema` map each step of the
  kernel to a step or a stutter of `KernelMode` and of `SchemaBoot`, so that what is
  proved of these holds of the whole: `KernelOneToken`, `KernelFileWhole`. `RefusedCorrect` adds
  that the first row stays the first and is the one token that was ever sealed, and
  `RepliesCorrect` that what the gate and `/health` answer is true of it: a token answered with
  200 is refused only in a vault with a row of the first release, of which `kernel_reseal` is
  the example, or after a boot that did not see that a token was sealed.
* `KernelProofs`, the clones. `AdaptersStayCorrect`: no registration or clone displaces an adapter.
* `DispatchProofs`. `IInv` has, per ingest, where its tasks can be while it spawns,
  drains or has returned (`TasksOK`), that the snapshot covers what was registered at the
  call (`KnownOK`), and that the log names the announced panics (`LogOK`). From it
  follow `EveryStepJoined` and, since no task of an ingest that returned is left,
  the action property `ReturnedIsOver`. `SpanOK` says for each span at which place of its
  caller or step it is owed, recorded or announced as dropped, whence `EverySpanAccounted`.
* `LlmProofs`, the key. `KeyInv` ties the mutex to the one request that unseals, which
  does so for an empty holder (`GuardHeld`), and says that from the moment a retry has
  emptied the holder any key in it is newer than the 401 (`RetryWaits`). `Trail` says what
  a request has published at each of its places, which gives `Audited`.
* `LlmProofs`, streams. `StreamInv` says for each place of the task what it has sent and
  published there (`Standing`), from which `FinishedIsLast` and `AuditTrue` follow;
  `CallsTrue`, which says what has_function_call stands for, gives `ToolsNamed`.
  `LossCorrect` proves `NothingLost`: every event that means something was sent, once and in
  order, but for the one at the desk and those after the consumer went away. What means
  something is `Carries`, which leaves out tool calls beside an empty text (section 5).
* `LlmProofs`, the exchange. `ExchangeCorrect` proves `ExchangeTrue`: a request is announced
  with an estimate only if an earlier call completed with that count of tokens, an answer has
  every call of the vendor's items, once and in their order, and what is reported as worth a
  retry had no answer or one of a status that may pass. The calls are what `FlattenSeq` makes of the
  items; the lemmas about it, which say where in the whole a call of an item is, are the bulk
  of the proof.
* `EventBusProofs`. `BusInv`: how far a publisher in its loop is through its copy of the list
  and which positions it has noted (`CallsInv`); that a list has a subscription once, and a
  noted position a dropped one (`ListsInv`); that a message is in one place at most (`OnceInv`),
  was not handed to who is still to be visited (`SentInv`), and overtakes another of its
  publisher only if a fallback task carried that one (`OrderInv`). From it `NobodySkipped` and
  `OrderCorrect`; `SweepCorrect` shows that as long as the list only grew since the copy, the
  removal by position takes out the dropped ones and nothing else, and `ContractImplemented`
  maps every step to a step or a stutter of `BusContract`.
* `SpanLedgerProofs`. `LedgerInv`: `RowsConserved` counts rows, and is inductive only with
  finite sets and one row per span (`Finite`, `RowsOnce`); the cutoff of a purge that waits
  lies beyond some retention (`PurgesSound`); a client of the stream has read one stretch of
  what was sent (`StreamSound`); the pages of a walk lead back to their cursor, repeat no row and
  leave out of what was there at the beginning, and still is, only rows whose millisecond the edge
  of a page shares (`WalkSound`). From it
  `ConservedCorrect`, `RetentionCorrect` and `ShownCorrect`.
* `KnowledgeProofs`, storage. `StoreInv` has five parts besides the types. `LockInv`: who is saving
  holds the lock, and a process that is down has nobody at work. `BodiesInv`: where each body
  is at each place of its call. `ListsInv`: every list there is, in memory, in the file, in what
  survives of it and in what a rename under way will put there, has only records with a durable
  body; none of these can be left out, since each becomes another. `ErrInv`: a call that
  failed is on none of them while no index was damaged. `AckInv`: an acknowledged record is on all
  of them but for what a late rename took off, and no list is ahead of the index. From them
  `BodyInPlace`, `AckedIsFound`, `ErrIsAbsent` (`OutcomeCorrect`) and `IndexFileGrows`.
  Assumed (`RecordAssumption`): no list of entries is the mark of a missing or a damaged file.
* `KnowledgeProofs`, search. `IndexInv`: the three maps of the index hold the same records, and
  the file, from which a restart rebuilds them, the same records and tags, each under the
  slug of its topic. `FindsInv`: the candidates of a find are the records that its request
  wanted of the index it read, and the words it has read are those of the bodies unless a
  read failed. `TopExact` says that what is taken of a ranking are the first ones of it, for
  any limit. From them `SearchCorrect` (`SearchIsRight`) and
  `RestartCorrect` (`RestartKeepsAnswers`). `SlugOfSlug`, that the slug of a slug is
  itself, is an induction over the loop that collapses dashes; it is what makes the
  directory a topic is read back from the one it was written to. Assumed: that texts are
  finite (`SearchAssumption`), that to lower a character twice is to lower it once
  (`PlainAssumption`) and that the mark of no answer is none (`AbsentAssumption`).
* `EmbeddingProofs`, the local model. `ModelInv`: an inode carries the name of its file, a call makes each of
  its inodes once, and no temporary file is at its place (`NamesInv`); until two downloads open
  one temporary file (`crossed`), a writer is alone with the inode that name stands for, which
  holds the pieces it has hashed (`FilesInv`); and a load that read whole files is of a sound
  model (`LoadsInv`). From it `PlacedIsWhole` and
  `AnswersSound`, with `checksums.txt` in the directory (`Manifest = TRUE`), both with the
  proviso of `crossed` they have in the runs.
* `EmbeddingProofs`, Ollama. `InOrderCorrect`: an answer has a vector for each text, that of
  a text at its place if its index and all before it were given once (`TextInPlace`), and the
  attempts stay within their number. `sort_by_key` is the
  sequence in which each vector is at its rank; that there is one is the lemma that a finite
  strict order takes every rank once, which `KnowledgeProofs` needs as well.

Every invariant and every action property of the passing runs is stated by a theorem. Only
model-checked is liveness: `CallsEnd`, `OwedIsReceived`, `SetupComesToAnEnd`, `IngestReturns`,
`HealthRecovers` and `StoreReturns` rest on fairness, that is on ENABLED, which the prover has
no rules for. The five findings are counterexamples of TLC.

Where a proof needs an induction over numbers, over positions of a sequence or the size of a
set, it takes a least counterexample instead of an induction rule: the library's fact that
the order of the naturals is well founded speaks of sets and not of operators. To that end
`Collapsed` is a recursive function, and the orders of `EventBus`, `OllamaClient` and
`KnowledgeSearch` are stated by counting who comes before (`Ascending`, `SortByIndex`, `Ranked`);
what `SelectSeq`, `SortSeq` and `SetToSortSeq` compute is out of reach.

## 5. Where code and docs part

What the code does and what its docs say differ in more places than the five runs
above. The models follow the code; these were met on the way and are listed for the
maintainers. Paths are below `src/crates/`.

Bus and vault
* `afa-bus/src/lib.rs:187`: the stale position of `bus_lost_subscriber` can also lie
  beyond the end of the list; `Vec::remove` then panics with the write guard held, and
  every later call, of any event type, panics at `.expect("EventBus registry poisoned")`
  (`SweepPanics`, `PublishPanics`).
* `afa-security/src/engine.rs:294`: `seal` leaves earlier rows of a name active, and
  `lookup_hash` (no ORDER BY) reads the oldest; the comment at 638 speaks of "the active
  row for `name`".
* `engine.rs:719`: the row without a hash of `kernel_reseal` also makes every boot one in
  PreBootstrap, with a setup that seals yet another token (`misled`).
* `afa-security/src/storage.rs:324`: the doc of open_storage has the kernel report a failed
  migration as `StorageCorrupted`; `kernel.rs:155` reports `SchemaVersionMismatch`.
* `engine.rs:575`: `rotate` of a row that does not exist answers `SecretRotated`; the doc
  at 484 lists "`SecretNotFound` on no row".

Mode
* `afa-kernel/src/mode.rs:261`: a rollback stores the discriminant before the payload;
  another request may win in between and is then overwritten. `PayloadSettles` names this
  exception; the doc at 209 says "the discriminant and the payload transition together".
* `afa-kernel/src/kernel.rs:269`: every error of the lookup at boot, a storage error
  included, starts the kernel in PreBootstrap; the comment at 244 allows only
  "`Err(SecretNotFound)`". With `LookupErrs = TRUE`, as in `kernel_shared`, a boot may err:
  `OneToken` grants one more token to each that does, `HealthTellsSetup` the answer
  pre_bootstrap.

Ingest and observability
* `afa-kernel/src/scheduler.rs:311`: `dispatch` gives its steps a parent id that its own
  row does not get; the comment in `afa-observability/src/record.rs:172` says one id
  is passed to both.
* `scheduler.rs:208`: two steps with one name are both kept and both run; the doc at 190
  says they "overwrite each other".
* `scheduler.rs:487`: a step that panics leaves no row ("the spans DB records one
  row per step", 354), and one that returns Err leaves a row with outcome `Ok`
  (`afa-contracts/src/observability.rs:188`: "The wrapped work returned `Ok(_)`").
* `afa-observability/src/purge.rs:210`: a purge stores 0 drops whatever was counted
  since its DELETE; the doc of health says "The window is therefore exactly 1 hour long"
  (`health.rs:77`).
* `afa-observability/src/observability.rs:581`: the loop purges by the default retention
  and not by `retention_days` (120).
* `purge.rs:266`: `SpansPurged` names a cutoff computed anew from the default retention;
  243 says "the cutoff the sweep used".
* `afa-observability/src/persistence.rs:489`: the list of recent spans selects the rows
  older than the cursor; the handler's doc says "204 when no rows are newer than the cursor"
  (`afa-kernel/src/dashboard/spans.rs:80`).
* `persistence.rs:489`: rows that share their millisecond with the last row of a page are on
  no page (`PagesWhole` names them).
* `afa-contracts/src/observability.rs:377`: a failed purge "flags the engine as `Degraded`"; only
  drops do (`health.rs:87`).
* `dashboard/spans.rs:128`: a client that lags is cut off; 116 says "until the client
  disconnects".

Knowledge (`afa-plugin-knowledge-json/src/`)
* `adapter.rs:687`: after a save that failed the next boot loads the old index and the
  record is not found; the comment at 695 expects the rebuild.
* `adapter.rs:238`: a missing index gives an empty one; `index_file.rs:17` says
  "missing or corrupt" leads to a walk of the bodies.
* `index_file.rs:513`: temp files of the index are never cleaned up; 499 says "remove any
  `*.tmp.*` files".
* `index_file.rs:336`: records of two topics with one slug come back under the first
  topic's name.
* `adapter.rs:683`: the rename of a save whose caller is gone may overwrite a newer
  index. `IndexFileGrows` leaves that rename out, `AckedIsFound` the records it took off
  (`overtaken`).
* `afa-contracts/src/knowledge/request.rs:33`: the doc has a free text filter records ("AND
  mention "refund" in the content"); it only adds to their score, and a record without the
  word is returned for its tag or topic (`Score`).
* `adapter.rs:446`: a body that cannot be read when its tokens are wanted counts as one
  without words and the find answers as if nothing had happened (`ReadFails`); one that cannot
  be read for the answer fails the whole call (`Unreadable`).
* `search.rs:252`: `filter_and_score` is a copy of what `find_information` does and nobody
  calls it.
* `adapter.rs:769`: `list_topics` publishes an event; the trait says it "does NOT publish an
  event" (`afa-contracts/src/knowledge/mod.rs:111`).

LLM adapters
* `afa-plugin-llm-chat-completions/src/adapter.rs:373`: a request whose first unsealing
  fails publishes `CompletionRequested` alone (`afa-contracts/src/llm/mod.rs:99`).
  `Audited` speaks of requests that had a key.
* `afa-plugin-llm-http/src/key_wiring.rs:138`: the holder asks for one fixed version, so
  after a rotation a retry fails with `SecretRotated`; the doc says "the operator may have
  rotated it" (`adapter.rs:20`).
* `afa-plugin-llm-chat-completions/src/streaming.rs:200`: `[DONE]` alone ends a stream
  without a Finished chunk and without an audit event (`llm/mod.rs:113`).
* `afa-plugin-llm-chat-completions/src/streaming.rs:442`: an empty text makes the mapper drop the
  tool calls beside it, though the comment at 438 expects an empty first piece only with the
  role; 464 keeps the first of several calls, as its comment says, and 368 overlooks a text
  beside a finish_reason. The model does the same (`ChatKind`), and `NothingLost` counts an
  event as told by the one chunk it becomes.
* `afa-plugin-llm-http/src/streaming.rs:274`: chunks may follow an Error chunk made
  of a vendor event; `llm/stream.rs:109` says "one of these and then `None`".
* `afa-plugin-llm-http/src/responses_adapter.rs:546`: the watchdog's clone of the sender
  keeps the channel open after the end, until the deadline (`llm/stream.rs:97`).
* `responses_adapter.rs:198`: the Responses adapter never sends the system prompt, which the
  contract calls "the top-level instruction" (`afa-contracts/src/llm/request.rs:58`).
* `responses_adapter.rs:825`: complete looks for items of type `tool_call`, the stream for
  function calls.
* `afa-plugin-llm-chat-completions/src/adapter.rs:735`: 408 is a Timeout in this adapter and
  Internal in the other.
* `responses_adapter.rs:150`: `estimate_prompt_tokens` is called by its test alone; the
  estimate that is published is the last call's number, whoever asked that one.

Ollama (`afa-plugin-embedding-ollama/src/`)
* `config.rs:97`: "Inputs beyond this are split into chunks of this size"; all of them go into
  one request, and the contract's `InvalidInput` for "an over-sized batch"
  (`afa-contracts/src/embedding/capabilities.rs:62`) is not given either.
* `client.rs:285`: the doc lists empty inputs under `InvalidInput`; 301 answers an empty list
  with an empty list.
* `config.rs:141`: `validate` is called by its tests alone; the doc of the constructor leaves
  it to the caller (`adapter.rs:66`).
* `afa-contracts/src/embedding/traits.rs:74`: "Publishes `EmbeddingRequested`"; no adapter
  publishes any of the three events.
* `client.rs:518`: an index sent twice, or left out, puts a text's vector at its neighbour's
  place, and so for each text after it; `InOrder` is about the texts before the first such index.

Local model (`afa-plugin-embedding-local/src/`)
* `download.rs:265`: two first calls write one temporary file; a torn file can get to
  its place. `PlacedIsWhole` and `AnswersSound` hold unless that happened (`crossed`).
* `download.rs:192`: files at their place are downloaded again; 163 says they are
  "skipped".
* `adapter.rs:254`: in mode Strict the constructor refuses to start without a model
  whatever the strategy, so Lazy never downloads a first time (`config.rs:103`).
* `download.rs:219`: a 404 becomes `AdapterUnavailable`, 9 says `ModelUnavailable`.

## 6. What is not modelled

* Texts, formats and logging. Where an outcome of theirs matters (a parse that fails, a row
  that opens) it is a choice; the translations of requests and answers are modelled over
  items, blocks and calls (`LlmExchange`), without the JSON around them.
* Cryptography and SQLite: by their outcome. A statement or a transaction is atomic; a
  commit is durable. `with_conn` is that atomicity.
* The inference of the local model; the f32 arithmetic of the search, whose scores are exact
  here, so that two scores that differ in the code only by rounding tie.
* The read of spans by correlation id and the caps of attributes, which change no state.
* What `describe_capabilities` answers, and the accessors of errors: constants.
* Conformance batteries, mocks and the harness (`afa-llm`, `afa-knowledge`,
  `afa-contract-testing`), which are test support; the assertions in
  them are among the claims of section 5. The CLI, which is types only.

## 7. Plan

Done, in this order: bus, vault, mode, ingest, ledger, knowledge, keys, streams, local
model; migration, the whole kernel, its clones, completions, Ollama, search and the pages
of spans; proofs for each of them, of all that is safety in the passing runs. What is worth
doing next:

1. `StreamContract`: what `LlmV1::stream_complete` promises a consumer, with `TokenStream`
   shown to implement it where it does; `LedgerContract` in the same way for a client of spans.
2. Proofs: that what `KnowledgeStore` promises of the index holds of `KnowledgeSearch` too,
   and the part of `KeyHolder` in a stream that `TokenStream` takes over.
