------------------------------ MODULE Subscribe ------------------------------
(***************************************************************************)
(* hebbs-core's subscriptions.  A subscription is a worker thread fed by   *)
(* three channels (control signals, text, new-write notifications) that    *)
(* pushes memories into a ring the caller reads.  A registry shared by all *)
(* of them broadcasts new writes, joins the thread of a handle that is     *)
(* closed, and stops every worker when the engine shuts down.  The actors  *)
(* are the threads that create, use and close a handle, the worker of each *)
(* subscription, the threads that write and delete memories, and the one   *)
(* that shuts the engine down.                                             *)
(***************************************************************************)
EXTENDS Integers, Sequences, FiniteSets

CONSTANTS
  Subs,              \* subscriptions that are ever created
  MaxSubscriptions,  \* SubscriptionRegistry.max_subscriptions
  Memories,          \* bound: memories ever written
  Stored,            \* those the database holds at the start
  Scoped,            \* those the entity, kind and time filters let through
  Topics, Topic,     \* what a memory is about: its keywords and its embedding
  Chunks,            \* texts a caller feeds: [tokens, topics]
  MinTokens,         \* SubscribeConfig.chunk_min_tokens
  MinFlush,          \* MIN_FLUSH_TOKENS
  InputCap,          \* input_queue_depth
  NotifyCap,         \* DEFAULT_NOTIFICATION_CAPACITY
  OutCap,            \* output_queue_depth
  TopK,              \* hnsw_top_k
  RefreshCount,      \* bloom_refresh_write_count
  FalsePositives,    \* may the bloom filter pass a chunk it should reject?
  EmbedFails,        \* may the embedder or the search fail?
  MaxFeeds,          \* bound: texts fed
  MaxSignals,        \* bound: signals sent
  CanShutdown,       \* does the engine shut down?
  RefreshTimer,      \* is the run long enough for the refresh interval to elapse?
  Ranged,            \* those whose keys a scan ranges over: all, or the entity's
  Rank,              \* their order in it: by key, or the newest of the entity first
  ScanCap,           \* MAX_SCOPE_SCAN
  MaxScanFails,      \* bound: scans that meet a storage error
  None

Signals == {"pause", "resume", "reset_dedup", "flush", "shutdown"}
Stages == {"new", "registered", "spawned", "open", "joining", "closed", "failed"}
Labels == {"none", "building", "loop", "results", "tail", "exited"}

ASSUME SubscribeAssumption ==
  /\ Stored \subseteq Memories /\ Scoped \subseteq Memories
  /\ IsFiniteSet(Subs) /\ IsFiniteSet(Memories)
  /\ Topic \in [Memories -> Topics]
  /\ Chunks \subseteq [tokens : Nat \ {0}, topics : SUBSET Topics]
  /\ \A n \in {MaxSubscriptions, MinTokens, MinFlush, InputCap, NotifyCap, OutCap,
                TopK, RefreshCount} : n \in Nat \ {0}
  /\ MinFlush <= MinTokens /\ MaxFeeds \in Nat /\ MaxSignals \in Nat
  /\ FalsePositives \in BOOLEAN /\ EmbedFails \in BOOLEAN /\ CanShutdown \in BOOLEAN
  /\ RefreshTimer \in BOOLEAN
  /\ Scoped \subseteq Ranged /\ Ranged \subseteq Memories /\ Rank \in [Memories -> Nat]
  /\ ScanCap \in Nat \ {0} /\ MaxScanFails \in Nat
  /\ None \notin Subs

VARIABLES
  db,        \* memories in storage and in the index
  unwritten, \* memories no one has written yet
  pending,   \* memories written whose broadcast is still to come
  entries,   \* the registry: subscriptions with an entry
  joinable,  \* those whose entry holds the JoinHandle
  stage,     \* where the creation or the closing of each handle is
  chan,      \* the channels of each subscription and its output ring
  worker,    \* the local state of each worker thread
  drain,     \* shutdown_all: the entries it took, the one it joins
  seen,      \* history, one record per subscription
  used       \* texts and signals sent and scans failed so far

vars == <<db, unwritten, pending, entries, joinable, stage, chan, worker, drain, seen, used>>
registry == <<entries, joinable, stage>>
writes == <<db, unwritten, pending>>

Channels == [control : Seq(Signals), input : Seq(Chunks), notify : Seq(Memories),
             out : Seq(Memories), drops : Nat]
\* tokens, topics and late are the TextAccumulator; context is what the last
\* embedded chunk was about ({}: there is none); todo holds the search
\* results not yet examined; writes is scoped_writes_since_rebuild; due says
\* that bloom_refresh_interval_us has elapsed since the last rebuild.
Worker == [pc : Labels, paused : BOOLEAN, tokens : Nat, topics : SUBSET Topics,
           late : BOOLEAN, context : SUBSET Topics,
           bloom : SUBSET Topics, dedup : SUBSET Memories, todo : SUBSET Memories,
           writes : Nat, due : BOOLEAN]
\* log: pushes in order; epoch: how many of them precede the last ResetDedup;
\* received: how many the caller took; wanted: does the caller want it paused?
\* noticed: memories in scope whose notification the worker processed; blind:
\* did the last scan meet a storage error?
Seen == [log : Seq(Memories), epoch : Nat, received : Nat, wanted : BOOLEAN,
         noticed : SUBSET Memories, blind : BOOLEAN]

InScope(m) == m \in db \cap Scoped
\* The keys that fewer than ScanCap of the keys in S precede.
First(S) == {m \in S : Cardinality({n \in S : Rank[n] < Rank[m]}) < ScanCap}
Window == First(db \cap Ranged)
Known(R) == {Topic[m] : m \in R \cap Scoped}
\* build_scope_data for the worker w: the cap counts keys before the scope
\* filters them.  An error of the storage is swallowed: the scan yields nothing,
\* or lacks the records that could not be read.
Scan(s, w) ==
  \E R \in SUBSET Window :
    /\ R = Window \/ used.fails < MaxScanFails
    /\ worker' = [worker EXCEPT ![s] = [w EXCEPT !.bloom = Known(R)]]
    /\ seen' = [seen EXCEPT ![s].blind = (R # Window)]
    /\ used' = [used EXCEPT !.fails = IF R = Window THEN @ ELSE @ + 1]

Init ==
  /\ db = Stored /\ unwritten = Memories \ Stored /\ pending = {}
  /\ entries = {} /\ joinable = {} /\ stage = [s \in Subs |-> "new"]
  /\ chan = [s \in Subs |-> [control |-> <<>>, input |-> <<>>, notify |-> <<>>,
                             out |-> <<>>, drops |-> 0]]
  /\ worker = [s \in Subs |->
       [pc |-> "none", paused |-> FALSE, tokens |-> 0, topics |-> {}, late |-> FALSE,
        context |-> {}, bloom |-> {}, dedup |-> {}, todo |-> {}, writes |-> 0,
        due |-> FALSE]]
  /\ drain = [on |-> "idle", left |-> {}, join |-> None]
  /\ seen = [s \in Subs |-> [log |-> <<>>, epoch |-> 0, received |-> 0,
                             wanted |-> FALSE, noticed |-> {}, blind |-> FALSE]]
  /\ used = [feeds |-> 0, signals |-> 0, fails |-> 0]

-----------------------------------------------------------------------------
(* Creating, using and closing a handle                                    *)

Register(s) ==
  /\ stage[s] = "new" /\ Cardinality(entries) < MaxSubscriptions
  /\ entries' = entries \cup {s} /\ stage' = [stage EXCEPT ![s] = "registered"]
  /\ UNCHANGED <<joinable, writes, chan, worker, drain, seen, used>>

Spawn(s) ==
  /\ stage[s] = "registered"
  /\ stage' = [stage EXCEPT ![s] = "spawned"]
  /\ worker' = [worker EXCEPT ![s].pc = "building"]
  /\ UNCHANGED <<entries, joinable, writes, chan, drain, seen, used>>

\* The receivers are dropped; the entry stays until the next broadcast.
SpawnFails(s) ==
  /\ stage[s] = "registered"
  /\ stage' = [stage EXCEPT ![s] = "failed"]
  /\ worker' = [worker EXCEPT ![s].pc = "exited"]
  /\ UNCHANGED <<entries, joinable, writes, chan, drain, seen, used>>

\* set_thread finds no entry if the engine shut down in between.
SetThread(s) ==
  /\ stage[s] = "spawned"
  /\ stage' = [stage EXCEPT ![s] = "open"]
  /\ joinable' = joinable \cup ({s} \cap entries)
  /\ UNCHANGED <<entries, writes, chan, worker, drain, seen, used>>

\* A text that finds the queue full, or the worker gone, is refused.
Feed(s, c) ==
  /\ stage[s] = "open" /\ used.feeds < MaxFeeds
  /\ worker[s].pc # "exited" /\ Len(chan[s].input) < InputCap
  /\ chan' = [chan EXCEPT ![s].input = Append(@, c)]
  /\ used' = [used EXCEPT !.feeds = @ + 1]
  /\ UNCHANGED <<registry, writes, worker, drain, seen>>

Recv(s) ==
  /\ stage[s] \in {"open", "closed"} /\ chan[s].out # <<>>
  /\ chan' = [chan EXCEPT ![s].out = Tail(@)]
  /\ seen' = [seen EXCEPT ![s].received = @ + 1]
  /\ UNCHANGED <<registry, writes, worker, drain, used>>

Signal(s, sig) ==
  /\ stage[s] = "open" /\ used.signals < MaxSignals
  /\ sig # "shutdown"
  /\ chan' = [chan EXCEPT ![s].control = Append(@, sig)]
  /\ used' = [used EXCEPT !.signals = @ + 1]
  /\ seen' = [seen EXCEPT ![s].wanted =
                sig = "pause" \/ (sig # "resume" /\ @)]
  /\ UNCHANGED <<registry, writes, worker, drain>>

Stop(s) == chan' = [chan EXCEPT ![s].control = Append(@, "shutdown")]

\* close() and Drop: deregister takes the entry and joins its thread.
Close(s) ==
  /\ stage[s] = "open"
  /\ IF s \in entries THEN Stop(s) ELSE UNCHANGED chan
  /\ stage' = [stage EXCEPT ![s] = IF s \in entries \cap joinable THEN "joining" ELSE "closed"]
  /\ entries' = entries \ {s} /\ joinable' = joinable \ ({s} \cap entries)
  /\ UNCHANGED <<writes, worker, drain, seen, used>>

Joined(s) ==
  /\ stage[s] = "joining" /\ worker[s].pc = "exited"
  /\ stage' = [stage EXCEPT ![s] = "closed"]
  /\ UNCHANGED <<entries, joinable, writes, chan, worker, drain, seen, used>>

-----------------------------------------------------------------------------
(* The worker                                                              *)

Build(s) ==
  /\ worker[s].pc = "building"
  /\ Scan(s, [worker[s] EXCEPT !.pc = "loop"])
  /\ UNCHANGED <<registry, writes, chan, drain>>

\* At the head of the loop, able to take what the channels hold.
Selecting(s) == worker[s].pc = "loop" /\ ~worker[s].paused
\* The first signal is taken off the control queue.
Receive(s, sig) ==
  /\ chan[s].control # <<>> /\ Head(chan[s].control) = sig
  /\ chan' = [chan EXCEPT ![s].control = Tail(@)]

RingDropsNewest(out, m) ==                \* mutant
  IF Len(out) >= OutCap THEN out ELSE Append(out, m)
\* OutputBuffer::push.
Ring(out, m) == Append(IF Len(out) >= OutCap THEN Tail(out) ELSE out, m)
Emit(c, s, m) ==
  [c EXCEPT ![s].out = Ring(@, m),
            ![s].drops = IF Len(c[s].out) >= OutCap THEN @ + 1 ELSE @]

UnsentByText(s, m) == worker[s].pc = "loop" \/ m \notin worker[s].dedup  \* mutant
Unsent(s, m) == m \notin worker[s].dedup

\* BloomFilter::contains_any: no keyword it holds is ever denied.
MayPass(bloom, topics) == topics \cap bloom # {} \/ FalsePositives
MayReject(bloom, topics) == topics \cap bloom = {}

\* process_chunk up to the search.  A chunk that is rejected by the bloom
\* filter leaves the context alone; one rejected by the centroid does not.
\* The k nearest memories are any k of those the chunk is about.
Results(topics) ==
  LET near == {m \in db : Topic[m] \in topics}
  IN  {R \in SUBSET near : Cardinality(R) = TopK \/ (R = near /\ Cardinality(R) < TopK)}
Process(s, w, topics) ==
  LET flushed == [w EXCEPT !.tokens = 0, !.topics = {}, !.late = FALSE, !.pc = "tail"]
      heard == [flushed EXCEPT !.context = topics]
  IN  \/ /\ MayReject(w.bloom, topics) \/ EmbedFails
         /\ worker' = [worker EXCEPT ![s] = flushed]
      \/ /\ MayPass(w.bloom, topics)
         /\ \/ worker' = [worker EXCEPT ![s] = heard]      \* centroid too far
            \/ \E R \in Results(topics) :
                 worker' = [worker EXCEPT ![s] = [heard EXCEPT !.todo = R, !.pc = "results"]]

\* While paused a worker reads its control channel only.
Shutdown(s) ==
  /\ worker[s].pc = "loop" /\ Receive(s, "shutdown")
  /\ worker' = [worker EXCEPT ![s].pc = "exited"]
  /\ UNCHANGED <<registry, writes, drain, seen, used>>

PauseToggles(s) ==                        \* mutant: a second Pause resumes
  /\ worker[s].pc = "loop"
  /\ \E sig \in {"pause", "resume"} :
       /\ Receive(s, sig)
       /\ worker' = [worker EXCEPT ![s].paused = (sig = "pause" /\ ~@),
                                   ![s].pc = IF worker[s].paused THEN "loop" ELSE "tail"]
  /\ UNCHANGED <<registry, writes, drain, seen, used>>
PauseOrResume(s) ==
  /\ worker[s].pc = "loop"
  /\ \E sig \in {"pause", "resume"} :
       /\ Receive(s, sig)
       /\ worker' = [worker EXCEPT ![s].paused = (sig = "pause"),
                                   ![s].pc = IF worker[s].paused THEN "loop" ELSE "tail"]
  /\ UNCHANGED <<registry, writes, drain, seen, used>>

ResetDedup(s) ==
  /\ worker[s].pc = "loop" /\ Receive(s, "reset_dedup")
  /\ worker' = [worker EXCEPT ![s].dedup = {},
                              ![s].pc = IF worker[s].paused THEN "loop" ELSE "tail"]
  /\ seen' = [seen EXCEPT ![s].epoch = Len(seen[s].log)]
  /\ UNCHANGED <<registry, writes, drain, used>>

Flush(s) ==
  /\ worker[s].pc = "loop" /\ Receive(s, "flush")
  /\ IF worker[s].paused THEN UNCHANGED worker
     ELSE IF worker[s].tokens > 0 THEN Process(s, worker[s], worker[s].topics)
     ELSE worker' = [worker EXCEPT ![s].pc = "tail"]
  /\ UNCHANGED <<registry, writes, drain, seen, used>>

TakeText(s) ==
  /\ Selecting(s) /\ chan[s].input # <<>>
  /\ LET c == Head(chan[s].input)
         w == [worker[s] EXCEPT !.tokens = @ + c.tokens, !.topics = @ \cup c.topics]
     IN  IF w.tokens >= MinTokens THEN Process(s, w, w.topics)
         ELSE worker' = [worker EXCEPT ![s] = [w EXCEPT !.pc = "tail"]]
  /\ chan' = [chan EXCEPT ![s].input = Tail(@)]
  /\ UNCHANGED <<registry, writes, drain, seen, used>>

\* process_new_write_notification.
TakeNotification(s) ==
  /\ Selecting(s) /\ chan[s].notify # <<>>
  /\ LET m == Head(chan[s].notify)
         rest == [chan EXCEPT ![s].notify = Tail(@)]
         counted == InScope(m)
         fits == counted /\ Unsent(s, m) /\ Topic[m] \in worker[s].context
     IN  /\ worker' = [worker EXCEPT ![s].pc = "tail",
                         ![s].writes = IF counted THEN @ + 1 ELSE @,
                         ![s].dedup = IF fits THEN @ \cup {m} ELSE @]
         /\ chan' = IF fits THEN Emit(rest, s, m) ELSE rest
         /\ seen' = [seen EXCEPT ![s].noticed = IF counted THEN @ \cup {m} ELSE @,
                                 ![s].log = IF fits THEN Append(@, m) ELSE @]
  /\ UNCHANGED <<registry, writes, drain, used>>

ReadyWhenFull(s) == worker[s].late /\ worker[s].tokens >= MinTokens   \* mutant
\* should_flush_on_timeout.
Ready(s) == worker[s].late /\ worker[s].tokens >= MinFlush

\* The default branch of the select: every channel is empty.  A timeout that
\* finds nothing due changes nothing.
Timeout(s) ==
  /\ Selecting(s)
  /\ chan[s].control = <<>> /\ chan[s].input = <<>> /\ chan[s].notify = <<>>
  /\ Ready(s) \/ worker[s].due
  /\ IF Ready(s) THEN Process(s, worker[s], worker[s].topics)
     ELSE worker' = [worker EXCEPT ![s].pc = "tail"]
  /\ UNCHANGED <<registry, writes, chan, drain, seen, used>>

\* One search result: looked up, filtered, pushed.
Push(s) ==
  /\ worker[s].pc = "results" /\ worker[s].todo # {}
  /\ \E m \in worker[s].todo :
       LET fits == Unsent(s, m) /\ InScope(m)
       IN  /\ worker' = [worker EXCEPT ![s].todo = @ \ {m},
                           ![s].dedup = IF fits THEN @ \cup {m} ELSE @]
           /\ chan' = IF fits THEN Emit(chan, s, m) ELSE chan
           /\ seen' = [seen EXCEPT ![s].log = IF fits THEN Append(@, m) ELSE @]
  /\ UNCHANGED <<registry, writes, drain, used>>

Searched(s) ==
  /\ worker[s].pc = "results" /\ worker[s].todo = {}
  /\ worker' = [worker EXCEPT ![s].pc = "tail"]
  /\ UNCHANGED <<registry, writes, chan, drain, seen, used>>

StaleLater(w) == w.due \/ w.writes > RefreshCount     \* mutant
StaleByCount(w) == w.writes >= RefreshCount           \* mutant
Stale(w) == w.due \/ w.writes >= RefreshCount

\* The end of an iteration: rebuild the filter when enough was written or
\* enough time has passed.
Refresh(s) ==
  /\ worker[s].pc = "tail"
  /\ IF Stale(worker[s])
     THEN Scan(s, [worker[s] EXCEPT !.pc = "loop", !.writes = 0, !.due = FALSE])
     ELSE worker' = [worker EXCEPT ![s].pc = "loop"] /\ UNCHANGED <<seen, used>>
  /\ UNCHANGED <<registry, writes, chan, drain>>

\* max_wait has elapsed since the first token; the refresh interval has, which
\* matters at the end of the iteration that starts here.
DeadlinePasses(s) ==
  /\ worker[s].tokens > 0 /\ ~worker[s].late
  /\ worker' = [worker EXCEPT ![s].late = TRUE]
  /\ UNCHANGED <<registry, writes, chan, drain, seen, used>>
IntervalPasses(s) ==
  /\ RefreshTimer /\ worker[s].pc = "loop" /\ ~worker[s].due
  /\ worker' = [worker EXCEPT ![s].due = TRUE]
  /\ UNCHANGED <<registry, writes, chan, drain, seen, used>>

Work(s) == \/ Build(s) \/ Shutdown(s) \/ PauseOrResume(s) \/ ResetDedup(s) \/ Flush(s)
           \/ TakeText(s) \/ TakeNotification(s) \/ Timeout(s)
           \/ Push(s) \/ Searched(s) \/ Refresh(s)

-----------------------------------------------------------------------------
(* Writers, and the thread that shuts the engine down                      *)

Remember(m) ==
  /\ m \in unwritten
  /\ unwritten' = unwritten \ {m} /\ db' = db \cup {m} /\ pending' = pending \cup {m}
  /\ UNCHANGED <<registry, chan, worker, drain, seen, used>>

Delete(m) ==
  /\ m \in db /\ db' = db \ {m}
  /\ UNCHANGED <<unwritten, pending, registry, chan, worker, drain, seen, used>>

\* notify_new_write: a full queue loses the notification, and the entry of a
\* worker that is gone is dropped.
Notify(m) ==
  LET alive == {s \in entries : worker[s].pc # "exited"}
  IN  /\ m \in pending /\ pending' = pending \ {m}
      /\ entries' = alive /\ joinable' = joinable \ (entries \ alive)
      /\ chan' = [s \in Subs |->
           IF s \in alive /\ Len(chan[s].notify) < NotifyCap
           THEN [chan[s] EXCEPT !.notify = Append(@, m)] ELSE chan[s]]
      /\ UNCHANGED <<db, unwritten, stage, worker, drain, seen, used>>

ShutdownAll ==
  /\ CanShutdown /\ drain.on = "idle"
  /\ drain' = [on |-> "running", left |-> entries, join |-> None]
  /\ entries' = {}
  /\ UNCHANGED <<joinable, stage, writes, chan, worker, seen, used>>

ShutdownJoinableOnly ==                   \* mutant: no signal without a thread
  /\ drain.on = "running" /\ drain.join = None
  /\ \E s \in drain.left :
       /\ IF s \in joinable THEN Stop(s) ELSE UNCHANGED chan
       /\ drain' = [drain EXCEPT !.left = @ \ {s}, !.join = IF s \in joinable THEN s ELSE None]
       /\ joinable' = joinable \ {s}
  /\ UNCHANGED <<entries, stage, writes, worker, seen, used>>
ShutdownOne ==
  /\ drain.on = "running" /\ drain.join = None
  /\ \E s \in drain.left :
       /\ Stop(s)
       /\ drain' = [drain EXCEPT !.left = @ \ {s}, !.join = IF s \in joinable THEN s ELSE None]
       /\ joinable' = joinable \ {s}
  /\ UNCHANGED <<entries, stage, writes, worker, seen, used>>

ShutdownJoined ==
  /\ drain.on = "running" /\ drain.join # None /\ worker[drain.join].pc = "exited"
  /\ drain' = [drain EXCEPT !.join = None]
  /\ UNCHANGED <<registry, writes, chan, worker, seen, used>>

ShutdownDone ==
  /\ drain.on = "running" /\ drain.join = None /\ drain.left = {}
  /\ drain' = [drain EXCEPT !.on = "done"]
  /\ UNCHANGED <<registry, writes, chan, worker, seen, used>>

Create(s) == Register(s) \/ Spawn(s) \/ SpawnFails(s) \/ SetThread(s)
Time(s) == DeadlinePasses(s) \/ IntervalPasses(s)
Draining == ShutdownOne \/ ShutdownJoined \/ ShutdownDone

\* What the owner of a handle may do with it.
Use(s) == \/ Recv(s) \/ Close(s) \/ Joined(s)
          \/ \E c \in Chunks : Feed(s, c)
          \/ \E sig \in Signals : Signal(s, sig)
\* What happens whoever owns it.
Internal == \/ \E s \in Subs : Create(s) \/ Work(s) \/ Time(s)
            \/ \E m \in Memories : Remember(m) \/ Delete(m) \/ Notify(m)
            \/ ShutdownAll \/ Draining

Next == Internal \/ \E s \in Subs : Use(s)

\* Threads that can run do run, and time passes.  Nothing obliges a caller to
\* feed, to receive or to close, nor a writer to write.
InternalFairness ==
  /\ \A s \in Subs : /\ WF_vars(Work(s))
                     /\ WF_vars(DeadlinePasses(s)) /\ SF_vars(IntervalPasses(s))
                     /\ WF_vars(Spawn(s) \/ SpawnFails(s) \/ SetThread(s))
  /\ \A m \in Memories : WF_vars(Notify(m))
  /\ WF_vars(Draining)
Fairness == InternalFairness /\ \A s \in Subs : WF_vars(Joined(s))

Spec == Init /\ [][Next]_vars /\ Fairness

-----------------------------------------------------------------------------
(* Properties                                                              *)

\* Every variable keeps its type, and no bounded channel holds more than its
\* capacity.
TypeOK ==
  /\ db \subseteq Memories /\ unwritten \subseteq Memories /\ pending \subseteq Memories
  /\ entries \subseteq Subs /\ joinable \subseteq Subs
  /\ stage \in [Subs -> Stages]
  /\ chan \in [Subs -> Channels]
  /\ \A s \in Subs : /\ Len(chan[s].input) <= InputCap /\ Len(chan[s].out) <= OutCap
                     /\ Len(chan[s].notify) <= NotifyCap
  /\ worker \in [Subs -> Worker]
  /\ drain \in [on : {"idle", "running", "done"}, left : SUBSET Subs, join : Subs \cup {None}]
  /\ seen \in [Subs -> Seen] /\ used \in [feeds : Nat, signals : Nat, fails : Nat]

\* Between two resets no memory is pushed twice, whichever of the two paths,
\* a text that finds it or the notification of its writing, gets there first.
NoRepeat ==
  \A s \in Subs : \A i, j \in (seen[s].epoch + 1) .. Len(seen[s].log) :
    seen[s].log[i] = seen[s].log[j] => i = j

\* The ring loses the oldest pushes only and counts each one it loses: what
\* is in it are the last pushes made, and every other push was received or
\* dropped.
NewestKept ==
  \A s \in Subs :
    LET log == seen[s].log
        gone == seen[s].received + chan[s].drops
    IN  chan[s].out = SubSeq(log, gone + 1, Len(log))

\* Every scan that m is in scope of reads m: fewer than ScanCap of the keys
\* ever stored precede it.
Reachable(m) == m \in First(Ranged \ unwritten)

\* When the worker waits, and its last scan met no storage error, fewer than
\* RefreshCount of the memories it was told of, and whose keys are among the
\* first ScanCap, are unknown to its filter, however writes, deletions and
\* rebuilds interleave with the notifications.
FilterLag ==
  \A s \in Subs : (worker[s].pc = "loop" /\ ~seen[s].blind) =>
    Cardinality({m \in seen[s].noticed \cap db : Reachable(m) /\ Topic[m] \notin worker[s].bloom})
      < RefreshCount

\* Once its signals are processed, a worker is paused exactly if the last one
\* of pause and resume that the caller sent was pause.
LastSignalWins ==
  \A s \in Subs : (worker[s].pc = "loop" /\ chan[s].control = <<>>) =>
    worker[s].paused = seen[s].wanted

\* A worker that runs is in the registry, or has been or will be told to stop:
\* no race of creation, close, broadcast and shutdown leaves one behind.
NoOrphanWorker ==
  \A s \in Subs : worker[s].pc \notin {"none", "exited"} =>
    \/ s \in entries \cup drain.left
    \/ \E i \in 1 .. Len(chan[s].control) : chan[s].control[i] = "shutdown"

\* Enough text for an embedding is processed once the callers are quiet, be
\* it by the count, by a flush or by the deadline.  Only a pause or the end of
\* the worker excuses it.
InputTaken ==
  \A s \in Subs : worker[s].tokens >= MinFlush ~>
    worker[s].tokens < MinFlush \/ worker[s].paused \/ worker[s].pc = "exited"

\* A memory in scope reaches the filter even if its notification was lost to a
\* full queue or a scan failed.  A pause or the end of the worker excuses it,
\* and so do ScanCap keys before the memory's own.
FilterCatchesUp ==
  \A s \in Subs, m \in Scoped : m \in db /\ worker[s].pc = "loop" ~>
    \/ m \notin Window \/ Topic[m] \in worker[s].bloom
    \/ worker[s].paused \/ worker[s].pc = "exited"
=============================================================================
