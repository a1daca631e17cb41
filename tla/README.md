# HEBBS in TLA+

HEBBS is an embedded memory engine for agents: memories are stored in RocksDB
column families, indexed by time, by a graph of typed edges and by two HNSW
graphs held in memory, and they decay, are revised, are forgotten and are
consolidated into insights by background threads. A server, a daemon that turns
directories of markdown into memories, a panel and a command line are built on
it. This directory holds its specifications, the TLC configurations that check
them on small instances, and the proofs TLAPS checks for every instance.

    tlc -workers 2 -config MCEngineSerial.cfg MCEngineSerial
    tlapm EngineProofs.tla

Each module whose name ends in `Proofs` is given to `tlapm`; section 3 names the
configuration of each MC module.

## 1. Inventory

Paths are relative to `crates/`.

| Component | State | Operations | Talks to |
|---|---|---|---|
| engine (`hebbs-core/src/engine.rs`) | ULID generator, worker handles, subscription registry | remember, add_edge, revise, delete, forget, auto_forget, gc_tombstones, recall, prime, list, insights, contradictions | index manager, storage, decay, reflect, subscribe |
| index manager (`hebbs-index/src/manager.rs`) | HNSW graphs by tenant (RwLock) | prepare/commit of insert, update, delete; search; rebuild; eviction | temporal, graph, associative index, storage |
| temporal index | Temporal CF | encode_key, query_range | storage |
| graph index | Graph CF, two keys per edge | outgoing, incoming, traverse, collect keys to delete | storage |
| associative index | per-tenant graphs, type offsets | insert, delete, search, update_type_offset | storage |
| neighborhood reads (`neighborhood.rs`) | - | snapshot, clusters, projection | HNSW |
| HNSW (`hebbs-index/src/hnsw`) | nodes, layers, entry point, tombstone count | insert, search, mark_deleted, cleanup | - |
| decay (`decay.rs`) | worker thread, cursor, candidates in Meta | sweep, pause, resume, reconfigure, shutdown | storage |
| reflect (`reflect.rs`) | worker thread, sessions, cursors, stale marks | prepare, commit, run, trigger | hebbs-reflect, hebbs-llm, storage, indexes |
| contradictions (`contradict.rs`) | pending records in Meta | check, prepare, commit | indexes, storage |
| subscriptions (`subscribe.rs`) | registry, one worker thread each, bounded queues, dedup set | feed, receive, pause, flush, close, new-write notification | indexes |
| keys, rate limits, tenants (`auth.rs`, `rate_limit.rs`, `tenant.rs`) | key cache, token buckets | load, validate, insert, revoke, check | storage, server |
| storage (`hebbs-storage`) | column families | put, get, delete, write_batch, iterators, tenant scoping | - |
| hebbs-reflect | - | cluster, propose, validate | LLM |
| vault ingest (`hebbs-vault/src/ingest.rs`, `extract.rs`, `manifest.rs`) | manifest of files and sections | phase 1 (parse), phase 2 (extract, store) | engine, LLM |
| vault watcher (`watcher.rs`, `daemon/mod.rs`) | pending paths, timers, manifest copy per vault | receive events, two phases, shutdown | ingest |
| vault daemon (`daemon/`) | PID file, socket, open vaults, panel's vault | start, claim, open, evict, serve, end | engine, watcher |
| vault panel and queries (`panel/`, `query_log.rs`) | active vault, cached projection, pins, query log | HTTP routes | daemon, engine |
| command line (`hebbs-vault/src/bin/hebbs.rs`, `lib.rs`, `hebbs-cli`) | vaults.json, `.hebbs` directories | init, rebuild, every command directly, by daemon, by server | daemon, server |
| subscription service (`hebbs-server/src/grpc/subscribe_service.rs`, `rest.rs`) | table of streams behind one mutex, a task per stream, a gauge | subscribe, feed, close | subscriptions |
| server (`hebbs-server`) | listeners, interceptors, blocking tasks | start, bootstrap key, serve, drain, gRPC and REST handlers | keys, engine |
| client (`hebbs-client`) | attempts | call with timeout and retry | server |
| hebbs-ffi, hebbs-python-native | handles | C and Python bindings | engine |
| hebbs-embed, hebbs-llm | model handle, HTTP clients | embed, complete | - |

What is hard. Every write operation of the engine takes `&self`: any number of
threads run them with no lock of their own, and each one reads first, then writes
one batch, then updates each in-memory graph, then puts the node once more.
Reads take no snapshot: a recall searches, loads, ranks and writes back while
others write. A crash drops the memory graphs, which are rebuilt from two column
families; a put may fail between any two steps. A subscription is a thread fed by
three channels that its owner, the writers and the shutdown of the engine all
use, and the server closes it while it holds the mutex of every stream. The
graphs of the HNSW index are changed by tombstones, re-insertions and collections
whose effect is seen only many calls later. Reflection and contradiction detection
hand a session or a record to an agent who may come back late, twice or never.
The vault's manifest is a whole file that a loop and a command both rewrite. Any
command may start a daemon, beside another that ends, while a third process
replaces the directory both have open. A client that hears nothing asks again.
The entries under "hazards" in `PROJECT.json` name each of these at its line.

What makes each part correct:

| Component | Properties |
|---|---|
| engine and its indexes | every index says the same of every memory; what was acknowledged is kept; what was forgotten leaves no trace; the service's operations are the abstract ones |
| engine reads | what is returned was so at some moment of the call; nothing is missing without a reason; pages neither skip nor repeat |
| HNSW | searches start at a live node of the top layer; no link leads nowhere; every live vector can be reached |
| subscriptions | no push twice between resets; the ring loses the oldest only; the filter lags by less than a rebuild; no worker is left behind; closing and shutting down end |
| subscription service | a stream in the table can be used; the mutex is given back; the gauge counts the streams |
| decay, reflect workers | a pause holds; replacing and stopping a worker leaves none behind and ends |
| reflection, contradictions | a session answers one commit, with what it offered; no episode is skipped by the cursor; a pending record is decided once |
| keys, rate limits, server, client | the cache agrees with the storage; no window admits more than burst plus rate; a call's outcome is true and a write happens once at most |
| vault | the manifest follows the files, whatever the order of events and crashes; what is called synced is in the store |
| daemon, command line | one process serves and has a database open; a handle belongs to the directory that is there |
| panel | the projection shown is the active vault's |

## 2. Modules

| Module | What it is |
|---|---|
| `MemoryService` | the abstract service: a book of memories, each operation one step |
| `Engine` | the write paths of the engine over its indexes and column families, for one tenant |
| `EngineService` | the refinement mapping from `Engine` to `MemoryService` |
| `EngineProofs` | theorems about `Engine` for every value of its constants |
| `Reads` | recall, prime, listing, paging and batch get of several tenants, step by step against writers |
| `ReadsProofs` | theorems about `Reads` for every value of its constants |
| `Walks` | the graph traversal over changing edges, and the clusters of a neighborhood |
| `Hnsw` | one HNSW graph, link by link, under the calls the engine makes |
| `GraphProofs` | theorems about `Hnsw` and `Walks` for every value of their constants |
| `Subscribe` | the registry, handles, workers and queues of subscriptions |
| `SubscribeProofs` | theorems about `Subscribe` for every value of its constants |
| `BackgroundProofs` | theorems about `Reflection`, `Contradiction` and `Workers` for every value of their constants |
| `SubscribeServer` | the subscription service, which EXTENDS `Subscribe` and uses its handles |
| `Workers` | the threads of decay and reflect and the calls that start, signal and stop them |
| `Reflection` | reflect: sessions, cursors, clusters, the direct run |
| `Contradiction` | checks, pending records, verdicts, and deletions beside them |
| `Handlers` | every gRPC and REST handler: what it asks for and what it calls |
| `Admission` | a call from the client through keys, buckets and handler and back, with the server's life; EXTENDS `Handlers` |
| `AdmissionProofs` | theorems about `Admission` for every value of its constants |
| `Vault` | the manifest, both ingest phases, the watch loop and the index command |
| `VaultProofs` | theorems about `Vault` and `Panel` for every value of their constants |
| `Commands` | every command as the daemon, the program and a server run it; takes the server's handlers from `Handlers` |
| `Daemon` | daemon processes, their claim, their open vaults and requests; EXTENDS `Commands` |
| `Setup` | init, rebuild and direct mode beside any daemon; EXTENDS `Daemon` |
| `DaemonProofs` | theorems about `Daemon` and `Setup` for every value of their constants |
| `Panel` | the panel's routes, its cached projection and the query log |
| `MCEngineSerial`, `MCEngineConcurrent`, `MCReads`, `MCSubscribe`, `MCSubscribeServer`, `MCBackground`, `MCConsolidation`, `MCAdmission`, `MCVault`, `MCDaemon` | instances for TLC |

Where two components share no variable, one MC module instantiates both and an
initial choice (`part`) says which of them acts: a behaviour is then a behaviour of one
of them, and one run covers both (`MCBackground`: `Workers`, `Vault`; `MCConsolidation`:
`Reflection`, `Contradiction`, `Hnsw`; `MCReads`: `Reads` and the two algorithms of `Walks`, each of
which has a specification of its own; `MCDaemon`: `Setup`, `Panel`).

### Engine

State. `mem`, `temporal`, `vec`, `avec`, `fwd` and `rev` are the column families
(Default, Temporal, Vectors, VectorsAssociative, and the forward and reverse
keys of Graph); `tombs`, `cands`, `marks` and `cursor` are the parts of Meta the
engine writes; `hnsw` and `assoc` are the live nodes of the two in-memory
graphs; `nextId` is the ULID generator and `clock` the microsecond clock. `pc`
and `task` say where each client thread is and what it has prepared. `snaps`,
`acked`, `doomed` and `outdated` are history variables; no guard that stands for
code reads them, except that callers name no snapshot unless
`SnapshotTargets` says so, and that reflection makes no insight of one unless
`SnapshotSources` does: the scan of a scope meets snapshots too.

Steps. A `Begin...` action is an operation up to its `write_batch`: it validates,
reads and builds the batch. `Write` applies the batch atomically. The actions
after it follow the order of the code: `Reindex` (revise: `commit_delete`),
`Insert` (the graph update under the write lock), `Persist` (the put after the
lock), `Assoc` and `AssocPersist`, `Tombstone` (one `commit_delete`), `Mark` (one
`mark_insights_stale_for_source`), `ClearCandidates`, `PutCandidates`,
`PutCursor` and `Rewind`. `StorageError` fails a write the way the operation
handles it; `Crash` restarts the process and rebuilds both graphs.

Abstractions. A content is a model value, and its embedding is named by it. A
batch is a record of the sets of keys it puts and deletes. Reads within one
`Begin...` action are atomic: the races modelled are between a read phase and
the batch, and between the batch and each later step. Search returns some subset
of what the indexes hold, which covers every ranking. A sweep handles one batch
per call (`max_batches_per_sweep` is 1; `Workers` has more).

### MemoryService and EngineService

A memory is an id with its present content and its past contents; the mapping
takes the past from the RevisedFrom edges in the order of the snapshots' ids. An
operation takes effect at its `Write`; everything else stutters. Under one client
the engine implements the service across crashes and failed writes
(`OneClientImplements`). It does not
under several: recall writes back what it read, so a revision may be undone. No
document promises isolation between threads, and the concurrent run states what
does survive.

### Reads and Walks

State. `Reads` has the stores as readers see them: `db`, the temporal keys, the
vectors, both graphs, with the tenant as a component of a key where the code
prefixes it and without where it does not. `call` is the call in progress: its
strategies' jobs, each with the hits found and those loaded, and its answer.
`during`, `always` and `undone` are history: the versions of each memory seen while
the call runs, the memories that stayed throughout, and those of which a
write-back undid a revision.

Steps. `Search` asks one index, `LoadHit` and `LoadDone` load what it named one by
one, in any interleaving of the strategies (the code runs them in parallel); `Rank`
merges, drops copies, ranks, cuts and writes back. `PrimeScan` and `PrimeAnswer` are
prime's two scans, `NextPage` one page. Writers run between any two of them, as single
steps, because `Engine` takes those apart; callers name no snapshot to revise or forget (`Engine`
has what happens if they do), and a forget takes the snapshots of its memory along.

`Walks` is `GraphIndex::traverse` with a scan per memory and type between which
edges change (`WalkSpec`), and the union-find with its threshold, ranks, path compression and
labels, link by link, against the connected components of the links that are not cut
(`ClusterSpec`). The threshold is the length that sorting would put at the percentile's place.

### Subscribe

State. `db`, `unwritten` and `pending` are the memories and the broadcasts still
to come; `entries` and `joinable` are the registry; `stage` says how far the
creation or closing of each handle is; `chan` holds the four queues of a
subscription; `worker` is the stack of its thread: the accumulator (`tokens`,
`topics`, `late`), the Bloom filter, the dedup set, the search results still to be
examined and the count of writes since the last rebuild; `drain` is the thread in
`shutdown_all`. `seen` is history, and `used.fails` counts the scans that met a
storage error.

Steps. The worker's `pc` is at the head of its loop, among search results, or at
the tail where the filter is rebuilt; each select arm is an action (`TakeText`,
`TakeNotification`, `Timeout`, one per signal), `Push` is one search result and
`Refresh` the tail. The creator of a handle runs `Register`, `Spawn`, `SetThread`,
one that closes it `Close` and `Joined`, a writer `Remember` and then `Notify`.
A rebuild is `Scan`: it reads the first `ScanCap` keys of `Ranged` in the order
`Rank` (by key, hence the oldest first, or the newest of one entity first), and
only then asks which are in scope; a storage error leaves the filter empty, or
with what was read until then (`seen.blind`).

Abstractions. A text is a number of tokens and a set of topics, and a memory has
one topic that stands for its keywords and its embedding. The filter never denies
what it holds; with `FalsePositives` it may pass anything. Whether the centroid
rejects a text is a free choice, as is which `TopK` memories a search returns.
Time is two flags: `late` (the accumulator's deadline) and `due` (the refresh
interval), which is observed where the code looks at it.

### SubscribeServer

`Open`, `FeedCall` and `CloseCall`/`CloseReturns` are the three calls; `Poll`, `Send`,
`StopTask` and `CountOff` are the task of a stream. `lock` is the mutex, recorded
only when it is held across a wait, namely while a worker is joined; every
action that takes it is enabled only when it is free. The gauge is changed where
the code changes it: by the close call and by the task.

### Hnsw

State. `nodes` maps an id to its layer, its lists of links, its tombstone and its
vector; `entry`, `maxLayer` and `tombstones` are the graph's other fields. `records`
and `disk` are the records and vectors in storage, `calls` the call each thread is
in with what it does next, `forgetting` whether a forget has yet to look for
tombstones, and `unloaded` what a rebuild has yet to insert. Three history variables
name ids: `again`, those inserted over an earlier node of theirs, `replaced`, those
of them whose earlier node was live, and `crossed`, those that two calls were about
at once.

Steps. A remember is `Remember` (its batch), `Commit` (the insertion under the graph's
lock, with a layer drawn from `Layers`) and `Persist` (the second put, without it). A
revise is `Read`, `Revise` (its batch), `Unlink` (the tombstone), `Commit`, `Persist`;
a delete, or one id of a forget, is `Read`, `Delete`, `Unlink`, and `Collect` ends the
forget. Nothing is locked between these, so calls of several threads overlap, about
one id too: two revisions of it may both tombstone, then both insert. `Restart` takes
the graph and the calls, and `Load` follows the order of the keys.

Abstractions. Vectors are points of a line, since the algorithm only compares
distances. A beam (`ef_construction`, `ef_search`) is wider than the graph, so a
search of one layer returns what its entry points reach; the greedy descent, the
selection heuristic and the pruning are modelled as they are.

### Workers

State. `kind` chooses which of the two loops the threads run; `queue`, `at`, `paused`,
`enabled` are a thread's signals and the locals of its loop; `handle` is what the
engine keeps behind its mutex and `control` the call that holds the mutex while it
joins a thread. `storeUp` says whether the weak reference to the storage can still
be upgraded.

Steps. `Decay...` and `Reflect...` are the branches of the two loops, a sweep of
several batches among them; stopping, replacing and each signal are the engine's
calls. A start is two steps: `Spawn` makes the thread and resumes it, `Install` takes
the mutex and puts it in the handle's place, joining who was there. What the call has
in hand between the two is `starting`: until then pauses and stops go to the old handle.

### Reflection and Contradiction

`Reflection` has the episodes, a cursor per tenant and scope, the session store with
its time to live, and the calls in progress. A run goes through `RunScope`, `Propose`,
`StoreInsight` for each insight, `Stamp` (the time is taken) and `PutCursor`; an agent's
reflect is `Prepare` and later `Take` instead. Which clusters k-means finds, and what
the model answers, is nondeterministic within what the code enforces: the minimal
size of a cluster, sources confined to it, failures that yield nothing. `seen` and
`missed` are history: what was taken up, and what a cursor passed for a stated reason.

`Contradiction` has the stored memories, the edges, the pending records and the calls
of check, commit and forget, each of which reads in one step and writes its batch in a
later one; forget scans outgoing and incoming edges in two. Which pairs look like
contradictions is free.

### Handlers and Admission

`Handlers` is a table: for every gRPC method and REST route whether a key is wanted,
which permission, which rate class, which tenant it acts for, whether it refuses
arguments by itself, and the engine calls of its blocking task. `Admission` runs calls
through it. State: the keys in storage and in the cache, the bootstrap key and whether
it was told; the bucket of each tenant and class; the server's phase; per call and
attempt where the work is (`sent`, `running`, `detached` after a drain dropped it,
or its status). Steps: the client's `Start`, `Receive`, `GiveUp`, `Resend`; the
server's `Handle` (key, permission, bucket, arguments) and `Execute` (the blocking
task, which nothing takes back); `Load`, which may leave out any of the keys when it
fails, to `Serve`, `Signal`, `Drain`, `Exit`, `Crash`;
`Tick`. Tokens are counted in `Unit`s of a token so that a fraction is a number.

### Vault

State. `disk` has the files, `events` what the operating system reported and nobody
received; `saved` is the manifest file and `watch.copy` the loop's; an entry has the
text it was parsed from, a state for each section (`stale`, `synced`, `orphaned`) and
the memories it names. `store` is what extractions left in the engine. `open` says
whether the daemon has the vault, and whether with a watcher ("watched") or without the
one that failed to start ("blind"). `locked` is the indexing lock. `excused` and
`torn` are history and name the files that a gap listed in section 4 left behind; the
properties say what holds of all others. `found`, history too, has the extractions
that returned without an error and had stored nothing.

Steps. `CatchUp` is what the loop does when it first sees a vault, `Receive` one event
in its select; `Phase1Tick` and `LoopPhase2` are what the two timers do, `Extract` one file of a
phase 2, `LoopSave` and `IndexSave` its end; `IndexAsk` to `IndexSave` are the index
command. `Evict`, `Reopen`, `Shutdown` and `Crash` come from around it. What may go
wrong does (`Mishap`): a file that cannot be read or parsed in either phase, whose event
is spent all the same; a manifest that cannot be loaded or saved; a watcher that does
not start, or misses a change. `MaxStops` bounds these together with the stops.

Abstractions. A text is a function from headings to bodies. The model's answer is any
set of facts; a failed request is an empty answer, as in the code. Two sets name the
texts that take another way through the extraction: of a `Hollow` one nothing is left
without its placeholder lines, and it returns before it stores or deletes; the document
memory of a `Large` one is a summary, which may be blank.

### Commands, Daemon, Setup

`Commands` says of each command in each of its ways when arguments are refused, which
vaults are opened and what is called, and which way is taken (`WayOf`). Two
assumptions are facts about this table that TLC evaluates in every run that uses it:
`WaysAgree` (the ways differ for four commands only) and `ServerAnswers` (each remote
call has a handler).

`Daemon` has the PID file, the socket, and of each process how far it is; `dir[v]` is
a vault's directory, with the identity of its database, its epoch and whether its
manifest calls it synced; `manager`, `panel` and `opening` are the engines a process
holds, `request` what the connections do, `lock` the lock files. An engine is open as
long as anything refers to it, as an `Arc` is. `Look`, `Clear`, `Claim`, `Bind` are a
start, `Cancel`, `CloseAll`, `CleanUp`, `Exit` an end, `Crash` at any point;
`BeginOpen`/`EndOpen` are `get_or_open` around the opening of the storage; `Serve`,
`GetOrOpen`, `Got`, `Answer` a request, which may fail with nothing done. The watch loop
holds engines as requests do: its phase 2 over a vault is `WatchPhase2`, which takes a
record of `request` for as long. `Setup` adds processes of the command line:
`MakeDir` to `WriteRegistry` are init, `OpenLocal` to `Work` direct mode and rebuild.
`filled` says into which databases files were indexed, `overrun` and `mixed` are
history.

### Panel

`Routes` lists every route by what it takes of the active vault and what it calls. The
routes that share state are stepped: `SwitchSwap`/`SwitchInvalidate`, `SavePin`/
`CachePin`, `GraphLook` to `GraphApply`, `HealthAction`, and the query log with its
counter of ids. `tainted` is history: the cached projection was written by a request
that a pin or switch overtook.

## 3. Runs

| Run | Question | Bounds |
|---|---|---|
| `engine_serial` | Do all indexes agree, is the lineage bounded, and does the engine implement the service, for one client with a crash or a failing write anywhere? | 3 calls, 4 ids, 2 contents, 1 fault, 1 snapshot kept: two revisions of one memory force a pruning and a third call follows it |
| `engine_concurrent` | What survives every interleaving of two threads? | 3 calls, 3 ids, 1 fault: the least in which three operations overlap, one of them a revision |
| `engine_store_forget` | Does forget leave no trace? A violation is expected (section 4, 1) | one remember, one forget |
| `reads` | Is what a read returns true, complete and ranked while others write? Do a walk and the clusters give what their definitions say? | 3 ids, 2 tenants, 1 entity, 2 texts, 1 write besides creations, recalls of 2 and primes of 4, half of them the newest, out of a window of 3; walks of depth 2 with 2 results over every subset of 6 edges of 2 types, 1 of which changes; clusters of every neighborhood of 4 members on a line with lists of 2 |
| `subscribe_pipeline` | Are texts, writes, deletions, signals and timers handled right in every interleaving? | 1 subscription, 2 memories on 2 topics, 2 texts, 2 signals, queues of one and a ring of 2: each queue fills, and a reset lies between two pushes of one memory; the constraint `ShutdownBound` follows a shutdown only in behaviours with one text or signal |
| `subscribe_filter` | How far does the filter lag behind what it was told, and does it catch up? | 3 memories of a scope, of which a scan reads 2, a notification queue of 1 that drops the rest, a rebuild after 2 notifications or on the timer, 1 scan that meets a storage error |
| `subscribe_service` | Is no worker left behind, does everything end that must, is input taken, when the service opens, feeds, abandons and closes a stream while the engine shuts down? | 1 stream, 1 text, 1 memory, a filter rebuilt after two writes or on its timer, failing embeddings, false positives; two streams are covered by the theorem `NoneLeftBehind` |
| `background` | Do the engine's workers obey and end, and does a vault's pending work get done? | 2 threads over time, 2 batches a sweep, 2 signals by calls, 4 waiting; 1 file, 1 index command, 1 edit, 2 extractions, 1 stop |
| `consolidation` | Is nothing lost or done twice between a prepare or check and its commit? And is the graph of vectors sound whatever calls overlap, does it follow the disk, and does it find what was never revised? | 2 episodes of two entities, 2 calls, 1 session, clock to 2, sessions expire after 2; 2 memories, 2 records, 2 calls, 2 verdicts each: two commits of overlapping records beside a forget; graph: 2 threads, 4 calls or restarts, 3 ids, 2 points, 2 layers, lists of 2 (layer 0) and 1: lists overflow on layer 1, two calls about one id overlap, and a collection or a rebuild follows |
| `vault_pipeline` | Does the manifest follow the file, and what is called synced lie in the store? | 1 file with 3 texts of up to 2 sections: one of placeholder lines only, one long, one with a blank section; 2 edits, 2 extractions, 1 eviction, stop, crash or failure of a file, a manifest or a watcher, the loop and an index command: a change in each gap between two steps |
| `daemon` | Does one process serve and own a database, does the manager keep to its capacity, is a handle the directory's? And does the panel show its vault's pins? | every pair of two daemons and two programs, 2 vaults of which 1 fits, 1 request (`status` opens one vault, `prime` several) or run of the watch loop, `index` and `rebuild` in direct mode, init in all, one directory removed; panel: 2 vaults, 2 requests, 1 memory that comes or goes |
| `admission` | Are buckets honest, outcomes true, and keys those in storage? | 2 calls, 1 retry, a clock to 2, or a crash, or a failure (each in behaviours of its own), a key that expires at 1, bursts of 1, rates of 5 and 1 halves of a token a tick |

The bounds of `Subscribe` only cut what callers do (`MaxFeeds`, `MaxSignals`, and
the memories that exist); `MaxOps` does the same for `Hnsw`, `MaxEdits`, `MaxRuns` and
`MaxStops` for `Vault`, `MaxSignals` for `Workers`. `MaxQueue` lets every signal that the
calls of that run send wait at once. `MaxScanFails` says how many scans meet a storage error.
`UnrevisedFound` is claimed while the ids fit the lists of layer 0, where the order of
insertion cannot excuse a miss.

Several names gather parts: `StoresAgree` is `DurableAgreement`, `TemporalAgreement` and
`SearchAgreement`; `GraphSound` is `EntryPointLive`, `NoDanglingLinks` and
`TombstonesCounted`; `SessionsHonest` is `SessionOnce` and `SourcesOffered`; `AnswersTrue`
is `AnswerWasTrue` and `AnswerRanked`; `BucketsHonest` is `WindowBound` and `HintKept`;
`SignalsObeyed` is `LastWordHolds` and `PauseOverrun`.

Fairness. In the subscription modules every thread that can run does (WF): the
worker, the thread that creates or closes a handle, the one that broadcasts and the one that
shuts down. The refresh interval is strongly fair because the model sees it
elapse only at the head of the loop, to which the worker keeps coming back; the
task of a stream is strongly fair because the mutex it needs is free again and
again, and parking_lot hands a mutex to waiters in turn eventually. No client is
obliged to read, feed, close or leave. `InputTaken` says of texts what happens once the
callers are quiet: the deadline is looked at only with empty channels. `FilterCatchesUp` needs that
a scan fails only so often (`MaxScanFails`), and nothing of the callers. In `Workers`
the threads' loops and the return of a join are weakly fair, since a thread the
operating system runs goes on; no call is obliged to come. In `Vault` so are the
receipt of events, the two ticks of the loop's interval, a run that has begun and
an index command that has begun; no edit, command or stop is. `MCBackground` gives
each part the fairness of its module where that part acts.

Every run turns the deadlock check off, because every behaviour may stop: calls,
edits and faults are bounded and no caller is obliged to go on. That nobody waits for
ever is stated by the liveness properties (`StreamsEnd`, `FilterCatchesUp`, `StopEnds`, `Settles`). No
liveness is claimed of the engine's operations, which are straight-line code, nor of
a call through the network, which may be lost each time.

Symmetry is used where the processes, vaults, calls and record ids are alike and only
invariants are checked (`MCDaemon`, `MCConsolidation`); elsewhere ids are ordered.

## 4. Findings

One disagreement is a run of its own:

1. A forget between remember's batch and its second put leaves the vector of a
   forgotten memory on disk; the next start indexes it again
   (`engine_store_forget`, `ForgottenLeavesNoTrace`).

The configurations below are not among the runs; each is violated when it is given
to TLC, and its counterexample shows what the code does. The three that end in
`Findings` hold several properties: `tlc -continue -workers 1` finds all of them violated.

| Configuration (module) | What it shows |
|---|---|
| `MCEngineFindings` (`MCEngineConcurrent`), `ForgottenSourcesMarked` | forgetting a source never marks its insights stale: the edges are deleted before they are looked up (engine.rs:1737) |
| `MCEngineFindings`, `TemporalAgreement` | deleting a snapshot as part of a forget removes the temporal entry of the memory it was taken from (engine.rs:1695) |
| `MCEngineFindings`, `AssocAgreement` | a revised memory leaves the in-memory associative graph until the next start (engine.rs:1602) |
| `MCGauge` (`MCSubscribeServer`) | a stream closed by the close call is counted off twice (subscribe_service.rs:203, 161) |
| `MCReflectTenant` (`MCConsolidation`) | a commit stores a tenant's insights for the default tenant (engine.rs:2060) |
| `MCReviewForget` (`MCConsolidation`) | a verdict "revision" makes the other memory look like a snapshot, and a forget deletes it (engine.rs:2286, comment at 2275) |
| `MCVaultMissing` (`MCVault`) | a fact its file no longer states is kept: phase 1 drops the ids of a changed file's memories, so phase 2 never finds them to delete (extract.rs:194, ingest.rs:181) |
| `MCDaemonFindings` (`MCDaemon`), `RefusedByAnother` | after an eviction the panel still holds the database, and the next request is told that another daemon has it (vault_manager.rs:190) |
| `MCDaemonFindings`, `SyncedStored` | rebuild indexes into the database it has just deleted: the new manifest calls the files synced, the new database is empty (bin/hebbs.rs:1131, lib.rs:249) |
| `MCDaemonFindings`, `QueriesFound` | ids of logged queries, "unique" at query_log.rs:27, start at 1 again with the daemon; a listed query leads to an older one |
| `MCAdmissionFindings` (`MCAdmission`), `SomeKeyTold` | a crash between the put and the print of the bootstrap key leaves a server whose only key nobody knows (server.rs:119) |
| `MCAdmissionFindings`, `DrainAnswers` | when one listener has drained the other is dropped with its calls under way (server.rs:262) |

Two more properties are defined and fail, without a configuration of their own:
`BestCopyKept` (added to `MCReads` with `TemporalMenu`: of two copies of a text, recall keeps
the one a HashMap visits first, where engine.rs:3090 promises the more relevant one)
and `ShutdownKeepsIndex` (added to `MCVault`: the loop's copy, saved at a shutdown, undoes an
index command).

Observed while modelling, with no configuration that shows it alone (what a property
excuses, it excuses by name):

- Engine. A crash after revise's batch loses the stale marks (engine.rs:1610).
  auto_forget clears the candidates it did not get to (engine.rs:1828). Recall's
  write-back undoes a revision or a deletion that came between its read and its write,
  stale temporal entries included (engine.rs:3138). A reflection whose insight is stored
  after a revise of its source returned leaves it unmarked, though it was made of the
  earlier text.
- HNSW. A revised vector is inserted over its own tombstone; copies of it displace real
  links, and a collection then cuts off live nodes (graph.rs:725, 292). Of two overlapping
  revisions of one id the second is inserted over the live node of the first: if that was
  the entry point and the new layer is lower, `max_layer` stays above the entry point's
  layer (graph.rs:310, 395), and the graph may keep the vector of one with the record of
  the other.
- Reads. Temporal and vector reads ignore the tenant and are filtered afterwards, so a
  tenant's hits may be crowded out; graphs of other tenants are not rebuilt at start;
  prime leaves out memories of the current microsecond.
- Reflection. The cursor is the time of the commit, past episodes written since the
  prepare (reflect.rs:727); commits in the wrong order move it back; an empty commit
  and an outage of the model move it too; an entity called "global" shares the global
  cursor. Commits of contradictions link memories that are gone (contradict.rs:706).
- Workers. A signal resets the reflect schedule, so a stream of them starves it; decay
  that was disabled stays paused when enabled again; a pause ends a sweep only after
  all its batches. A pause between the spawn of a new worker and the taking of the mutex
  reaches the old one only (engine.rs:1768, 2088). The write counter of the reflect trigger is never increased
  (reflect.rs:354).
- Subscriptions. With more keys in the scope's range than MAX_SCOPE_SCAN a scan by key never
  reads the newest, so no filter ever knows them (subscribe.rs:1310, 1326). A storage
  error in a scan leaves the filter empty until the next rebuild, and nobody is told
  (subscribe.rs:1321, 1329). `FilterLag` is about memories within the cap and scans without
  an error.
- Server. REST handlers check no permission and take no tenant from the request; their
  rate classes differ from gRPC's in places. A load of the keys that fails is answered
  by a new bootstrap key. The client retries recall and prime, which reinforce each time.
- Vault. The loop and an index command overwrite each other's manifests; a file deleted
  and restored keeps its orphaned sections; what is deleted while nothing watches is
  never noticed; the loop does not try again after a phase 2 that failed; a crash
  before the manifest is saved leaves memories no entry names. The event of a file that
  cannot be read or parsed is spent, and the file looked at again only at its next change
  or index command (ingest.rs:77, 96); a manifest that cannot be saved loses a phase 1
  (daemon/mod.rs:2007); a vault whose watcher did not start is open and not followed
  (vault_manager.rs:284). A text of placeholder lines only is called synced with nothing
  stored, and the propositions of the text before it leave the entry without being
  deleted (extract.rs:216, 237, ingest.rs:523).
- Daemon and command line. Two starters may both find a stale PID file; a daemon that ends
  removes whatever PID file and socket are there; without a PID file a lock is taken
  for stale; late requests reopen vaults after close_all; concurrent inits lose entries
  of vaults.json; init with --force empties the manifest over a full database; a
  validation that fails removes a vault that was there; reflect_prepare in direct mode
  offers a session that ends with its process; a recall over several vaults logs and
  looks up contradictions in the first only.
- Panel. A projection computed during a switch is stored for the wrong vault, and pins
  saved meanwhile are not shown; "reinforce" remembers a second memory
  (routes.rs:1583).

## 5. Proofs

Every invariant of the passing runs but `UnrevisedFound` is a theorem, and so is the
refinement of `MemoryService`. What each assumes is stated
here; where nothing is said, only the ASSUMEs of the component's module, which every
run of the module evaluates. They say what the constants are, and four of them what the
code makes so: `NamesDiffer` of `Daemon` (a process is told from others by its id, and by the
database it makes), `OneBootKeyAtFirst` of `Admission` (a store has one bootstrap key at
most before its first server starts) and `TextsHaveSections` of `Vault` (a file
without sections is taken out of the manifest in the phase 2 that found it so,
ingest.rs:634), and `LimitsPositive` of `Reads` (an answer has room for one memory at least).

### Engine

`EngineProofs` takes any set of clients, any menu and any bounds.

- `TypeCorrect` (`TypeOK`) and `GraphStaysSymmetric` (`GraphSymmetric`), by `IInv`.
  Neither is inductive alone, since a batch is applied to a later state than the one it
  was prepared from. `IInv` adds what holds of a prepared task (`TaskOK`): its batch
  deletes both keys of an edge or neither, and each id it indexes is one whose record
  it stores; and which operations reach which labels (`Phase`).
- `SnapshotsStayOut` (`SnapshotsNeverIndexed`), `AcknowledgedStay`
  (`NoAcknowledgedMemoryLost`) and `RevisionsMarkInsights` (`RevisedSourcesMarked`), by
  `HInv`. `FitTasks` says what each kind of task may hold at each label; `Numbering`,
  that ids are handed out once, so that an id a batch creates is in no other batch and
  in no edge yet; `LineageOK`, that the edges a cascade follows lead to snapshots, in
  the store and in every prepared batch. `Out`, `Lossless` and `Marked` are the three
  properties with what tasks still owe: a snapshot no task will index, a
  returned memory no task will delete unless it was named, an outdated edge that is
  marked or whose revision still has its mark to write. An edge is outdated if it is in
  the store at the revise's batch, or enters it before the revise has looked for the
  insights to mark; one that comes later is not, and stays unmarked.
- `OneClientAgrees` (`StoresAgree`), by `SInv` beside `HInv`: between the steps of the one
  operation, every id but those the operation has yet to tell the graph agrees already,
  and a snapshot shares the time of its memory, which no other memory has, so that
  removing its temporal key unlists no other memory.
- `OneClientImplements` (`ImplementsService`), by `RInv` beside `SInv` and `HInv`. `RInv` says
  what a prepared batch will do to the book: add one memory, revise one, remove some
  with snapshots of theirs, or put back what is there (`Ready`); that edges lead to ids
  issued, and to a snapshot only from the memory it is of (`Pure`, with `Lined`
  and `LineageOK`), so that `SnapshotsOf`, which skips targets of other edges, skips
  none; and that no snapshot was forgotten by name. The four shapes are `StoresBook`,
  `RevisesBook`, `RemovesBook` and `RestoresBook`: a step of the service each, or a
  stutter. Every other step stutters. The mapping lists a memory's snapshots by counting
  smaller ids; `OrderRank`, `OrderAppend` and `OrderDrop` say what that list is, that a new
  snapshot comes last and that pruning the n lowest shifts it by n, and `PagesRevised`
  concludes that the engine's pruning keeps what the service's `Retained` keeps.

Their hypotheses are sharp. `SnapshotsStayOut` needs `~SnapshotTargets`: revise or
recall of a snapshot's id indexes it. `AcknowledgedStay` needs that callers make no
`revised_from` edges, and `RevisionsMarkInsights` that they make no `insight_from` edges: both
may be made by anyone (hebbs-server/src/convert.rs:239, rest.rs:469,
hebbs-cli/src/commands.rs:497, hebbs-vault/src/daemon/mod.rs:2273), and a `revised_from`
edge between two memories makes the cascade of a forget delete the other. `OneClientAgrees` and
`OneClientImplements` assume `Serial`: one
thread, time that passes between operations, no such edges or ids, no insights of snapshots, and no forget by
a scan or by decay candidates, which deletes snapshots and with them the temporal entries of
their memories (`MCEngineFindings`, `TemporalAgreement`). The configuration of
`engine_serial` satisfies it.

### Reads

`ReadsProofs` takes any tenants, entities, texts and relevance, any menus of strategies and any
limits, with writes between any two steps of a call. It begins with lists: sorted ones, cut ones,
merged ones, and the order `Arranged` puts a set in, of which it proves that each
member has its place.

- `AnswersStayTrue` (`AnswersTrue`), by `ReadsInv`: types; `Numbered`, that the indexes know only ids
  that are handed out and are no snapshot's; `Indexed`, that the temporal index lists exactly what is
  stored, but for ids whose state a recall has written back; and `ReadsTrue`, that whatever a
  strategy has found or loaded so far was the caller's at some moment of the call, as far as the
  code checks it there. A hit is checked when it is loaded and not when it is found, so the answer
  alone would not do. The answer's order follows from the merge alone (`AnswerRanked`).
- `PagesStayComplete` (`PagesComplete`), by `PagesSoFar` beside `Kept` (what is said to have
  stayed is stored): the pages so far are in order, name nothing twice, and hold every memory up to
  the cursor that matched all along. The last page alone would say nothing of those before it.
- `PrimeStaysNewest` (`PrimeNewest`), by `PrimeSoFar`: what a query of the temporal index has loaded
  is newer than what it has yet to load (`InStep`), and a memory that is due all along is in the first
  query's lists or gave way to a full share of newer ones (`Covered`). The second query only adds
  to the answer.

### HNSW

`GraphProofs` takes any number of memories, any vectors on a line, any layers and any bounds
on the lists. It begins with what searches and walks are made of: recursive functions and sets put in
an order, then the descent of `greedy_closest`, the selection of neighbours and its pruning.

- `GraphStaysSound` (`GraphSound`) and `HnswTypeCorrect` (`TypeOK`), by `GraphInv`: the types,
  with lists that keep to their bounds; the entry point, live, with no live node above the
  layer at which searches start; and lists, which lead to nodes that exist (`Sound`). Calls overlap
  freely, about one id too, so nothing is said of what a call in progress finds in the graph. The
  layer at which searches start is the entry point's own unless its node was `replaced` while it
  was live: a search then finds no lists on the layers above and goes down. What a step keeps of
  these rests on what its searches return: a descent from a live node stays among stored
  nodes (`DescendStays`), so the candidates of an insertion are stored, and a selection returns some
  of its candidates, no more than it may (`SelectParts`).
  That tombstones are counted is inductive beside `GraphInv` (`TombstonesStayCounted`).
- `GraphFollows` (`GraphFollowsDisk`), by `FollowInv`: once loaded, an id that no call is about and that no two
  calls were about at once has a live node exactly if it has a vector on disk, and at that vector. The
  invariant says of an id with one call how far the call has brought graph and disk apart
  (`Going`), and of one that a rebuild has yet to load that it has no node (`Resting`).

### Walks and clusters

`GraphProofs` takes any memories, edges, changes, types asked for and limits of a walk, and any
snapshot of neighbor lists.

- `WalksStayExact` (`WalkExact`), by `WalkInv`. What the walk has come to (`Met`: the seed and
  the results) is one entry for each memory visited (`MetOnce`), as far away as edges that were ever
  there give (`MetNear`). That nothing is missing at the end says nothing of a walk under way.
  `Settled` does: what the lasting edges of an entry lead to is met, one hop further at most, unless
  the entry is queued, or is being expanded and the edge's type is still to be scanned
  (`Owed`). A memory may have been met by another way before, and then no deeper only because the
  queue is in the order of depth (`BreadthFirst`). At the end nothing is queued or owed, and
  `LastingMet` goes from the seed hop by hop, by induction over the depth.
- `ClustersStayExact` (`ClustersExact`), by `ClusterInv`. The parents are a forest because ranks
  grow towards the roots (`Forest`), so a way comes to a root within as many steps as there are members
  (`RootStays`, by the pigeonhole principle). Compressing a way changes no root (`CompressKeeps`), and a
  union gives those of one root the other (`UnionMerges`). Hence roots stay within every set that no
  short link leaves (`RootsWithin`), and the ends of the short links looked at have one root
  (`EndsJoined`); at the end what has one root is a component (`ComponentsRooted`). `LabelsExact` shows
  that the numbers of those kept have no gaps.

What is proved of the clusters holds for any threshold: which length the percentile picks
(`Percentile`) enters no proof.

### Subscriptions

`SubscribeProofs` proves every safety property of `Subscribe`, for any number of
subscriptions and memories, any capacities and thresholds, and any number of texts
and signals:

- `TypeCorrect` (`TypeOK`), inductive as it stands.
- `NeverTwice` (`NoRepeat`), by `RepeatInv`: each push since the last reset is in
  the dedup set, which is what both paths consult before they push.
- `RingKeepsNewest` (`NewestKept`), by `AccountInv`: the lengths of the ring, of what
  was received and of what was dropped add up to the history, element by element.
- `NoneLeftBehind` (`NoOrphanWorker`), by `OrphanInv`: a handle that is registered and
  has no thread yet has to be watched too, since the engine may shut down between the
  two; and `shutdown_all` starts with nothing left to drain, or it would forget
  entries it took.
- `LastToggleWins` (`LastSignalWins`), by `SignalInv`: the queue of signals leads from
  what the worker does to what the caller wants.
- `FilterNeverFarBehind` (`FilterLag`), by `LagInv`: the counter of writes is at least
  the number of memories missed, of those a scan reaches: fewer than `ScanCap` keys ever
  stored precede theirs. It needs that no memory is noticed before it is written, or the
  write would add a missed one that is not counted. It says nothing of a filter whose last
  scan met a storage error (`blind`); that such a filter is rebuilt is `FilterCatchesUp`.

The module goes in two passes. One lemma per action says what it does to the worker,
the queues and the history of a subscription. Three classifications of `Next` follow
from these (`TypeStep`, `HistoryOfNext`, `SidesOfNext`: a step receives, resets, pushes
or leaves the history; sends, takes or leaves the signals; counts, rebuilds or leaves
the filter), and each invariant is proved against a classification instead of against
the thirty actions. `OrphanStep` alone goes through the actions again.

### Workers, reflection, contradictions

`BackgroundProofs` has the theorems of three modules.

- Of `Workers`, for any number of threads over time and queues of any length:
  `NoWorkerAstray` (`NoStrayWorker`), by `Reachable`: a thread that lives is the handle's,
  the one a call is joining, or one whose start has yet to take the mutex of the handle.
  `SignalsAreObeyed` (`SignalsObeyed`), by `Heeding`: the last pause or resume in a queue, or what the thread does if there is none, is the last word; and the
  sweeps begun since a pause, with those the thread may still begin before it reads as
  far as the pause, stay within what waited ahead of it. The decay thread reads at two places of
  its loop and the reflect thread at one, hence two budgets.
- Of `Reflection`, for any episodes, entities, sessions, calls and lifetimes:
  `SessionsStayHonest` (`SessionsHonest`), by `ReflectInv`: a session is in the store only
  between its prepare and its take, and what a session or a call may still cite was
  offered under its key. `InsightEntitiesAgree` (`EntityAgrees`) follows from what the type
  invariant says of an insight. `NoEpisodeSkipped` (`BehindCursorAccounted`), by
  `NothingLost`: a call in progress has taken up or left out for a reason what lies
  between the cursor it read and the time it will write. It assumes one tenant, since
  a commit moves the default tenant's cursor whoever's session it commits
  (`MCReflectTenant`, section 4).
- Of `Contradiction`, for any memories, calls and verdicts: `ConfirmedStayLinked`
  (`ConfirmedLinked`) and `FlaggedStayAccounted` (`FlaggedAccounted`), by `ReviewInv`: what a forget
  collected in its two scans are edges at memories it deletes.

### Keys, buckets, calls

`AdmissionProofs` takes any number of calls, keys, tenants, classes and retries,
any bursts, rates and bound on the clock.

- `BucketsStayHonest` (`BucketsHonest`) and `AdmissionTypes` (`TypeOK`), by `BucketInv`.
  That a window admits no more than it may is not inductive: a bucket that admitted
  little could still be full of tokens. `Honest(b)` says for every window that what it
  let through and the tokens there are now stay within a full bucket plus what time
  added, and that a denial's hint is far enough ahead for the tokens missing then.
  `StepOfBuckets` reduces `Next` to five kinds of steps; the case of `Admit` rests on a
  few lemmas of arithmetic on capped refills.
- `OutcomesStayTrue` (`OutcomesTrue`), by `CallInv`: `Truthful(c)` ties each attempt to
  what was executed under its number, and says that a call that is not retried has one
  attempt. Executions then are as many as attempts at most, however answers are lost.
- `ServersKnowTheKeys` (`KeysAgree`), by `KeyInv`, which says what the cache holds in
  each phase of the start: nothing before the load, and without failures all of the
  storage after it, but for the bootstrap key between its put and its insertion.

### Vault

`VaultProofs` takes any files, any texts and any number of index commands beside the loop.

- `SyncedStayRepresented` (`SyncedRepresented`), by `ShownInv`. The saved manifest alone
  is not enough to speak of: the loop and each run hold copies that may be saved much
  later, or never, and an extraction deletes the memories that its own copy names. The
  invariant therefore says of every copy that its synced sections are shown by an extraction
  that found nothing to store (`found`), or by memories which no copy with stale sections
  names (`AllBacked`), since those are the ones an extraction may delete; that such a copy keeps no propositions (`NoneKept`); that runs and
  the memories they make are numbered apart (`Numbered`); and that what a run is going
  to extract was read as it was parsed (`Planned`).
- `ManifestStaysCurrent` (`SettledCurrent`), by `SettledInv`: the last change of a file
  is still to be received, or received and filed for the next phase 1, or in the saved
  manifest (`AllAccounted`); and a run changes neither the text nor the sections of an
  entry, orphans aside (`Faithful`), so that what it saves over an entry nobody else changed is
  as current as the entry was.

Both hold through unreadable files, lost saves and missing watchers, for files not `torn` or
`excused`: a text that changed under a run, and a file that one of the gaps named at the
variable `excused` left behind.

- `PinsStayShown` (`PinsShown` of `Panel`), by `PinInv`. Between a pin's database write and the
  projection's the two differ, and a request may be overtaken by a switch. The
  invariant says of each request that is yet to write that it is late, or that it speaks of the
  active vault and of its pins as they are (`OnTime`); and that the cached pins are the active
  vault's, but for the positions that requests have saved and not yet cached (`CacheShows`).

### Daemon and setup

`DaemonProofs` takes any numbers of daemons, programs, vaults and requests. A
classification of the steps comes first (`StepsOfSetup`, `UsesOfStep`, `ManagerOfStep`,
`DirOfStep`, `DbOfStep`, `ClaimOfStep`): an engine comes into use only by the end of an
open or in a program, a directory's database and epoch are written by one program once,
and five actions touch the PID file and the socket.

- `WorkersOnlyWhereOpen` (`WorkersOfOpenVaults`), by `WorkersHeld` and `RoomFor`: an
  open under way counts against the capacity, since the vault it made room for is not
  there until it ends.
- `HandlesStayCurrent` (`HandlesCurrent`), by `HandlesTrue` and `EpochOnce`: no
  directory and no engine has a program's epoch before the program writes it.
- `ClaimsGuardVaults` (`ClaimGuards`), by `ClaimHeld`, `LocksHeld` and `FreshDb`: what a
  starter saw is still gone when it claims unless a claim was overrun; who uses the
  database that is its directory's has the lock; and a database that was not made yet
  is in use nowhere.

### What is only model-checked

`TypeOK` is part of each inductive invariant and a theorem where a section above says so; it is
not among the runs' properties. The following stay with TLC.

- Liveness (`StreamsEnd`, `InputTaken`, `FilterCatchesUp`, `StopEnds`, `Settles`): it needs
  `ENABLED` and fairness, which the prover does not handle.
- `UnrevisedFound`: that every live node is reached is far from inductive, as a
  collection removes tombstones and the paths through them. For as many ids as the lists of
  layer 0 hold it follows from their being linked both ways; for more it is not claimed,
  since pruning and the layers leave it to chance.

Induction over numbers is done with sets (`SetInduction` of `GraphProofs`), since the library's
theorems take an operator, which the provers cannot instantiate.

## 6. Plan

The model covers what section 1 names except for section 7, and every invariant of the passing
runs but one is proved. What would come next is a finer model of what is taken as one step or as a free
choice, and checks of the graph on layers and bounds beyond those of `MCConsolidation`.

## 7. Not modelled

- Bindings (`hebbs-ffi`, `hebbs-python-native`), which pass calls through and convert
  values; models (`hebbs-embed`, `hebbs-llm`), whose answers and failures are
  nondeterministic wherever they are used; benchmarks and the wire format.
- Of the parts that are modelled: formatting, serialisation, parsing of markdown and of
  configuration, prompts, the arithmetic of ranking, of k-means and of the panel's
  projection to a plane, RocksDB's compaction, metrics and logs.
- The interactive prompt of hebbs-cli and the REST client of a hosted service, which
  keep no state of their own.
- The index manager's eviction of idle tenants, the revocation of keys and the
  compaction of the query log, which nothing but tests calls.
- The stand-alone watch loop of `watcher.rs`, which is the loop of `Vault` in one process,
  without the lock.
