-------------------------- MODULE SubscribeProofs --------------------------
(***************************************************************************)
(* Proofs about Subscribe for any number of subscriptions and memories and *)
(* any capacity of the queues.  First, what each step does to the worker,  *)
(* the queues and the history of one subscription; then, from these, the   *)
(* types and the safety properties.                                        *)
(***************************************************************************)
EXTENDS Subscribe, FiniteSetTheorems, SequenceTheorems, TLAPS

-----------------------------------------------------------------------------
(* What a step does to a worker                                            *)

\* v is w up to its place, its accumulator, its context and its timers.
Keeps(w, v) == /\ v.paused = w.paused /\ v.dedup = w.dedup
               /\ v.bloom = w.bloom /\ v.writes = w.writes
\* The worker of s goes to one of these places and keeps the rest.
Moves(s, places) ==
  \E v \in Worker : /\ worker' = [worker EXCEPT ![s] = v]
                    /\ v.pc \in places /\ Keeps(worker[s], v)

\* The capacities are positive.
LEMMA Capacities ==
  /\ InputCap \in Nat \ {0} /\ NotifyCap \in Nat \ {0} /\ OutCap \in Nat \ {0}
  /\ RefreshCount \in Nat \ {0}
BY SubscribeAssumption

\* process_chunk up to the search changes the accumulator, the context, the
\* results and the place.
LEMMA ProcessEffect ==
  ASSUME TypeOK, NEW s \in Subs, NEW w \in Worker, NEW topics \in SUBSET Topics,
         Process(s, w, topics), Keeps(worker[s], w)
  PROVE  Moves(s, {"tail", "results"})
<1> DEFINE flushed == [w EXCEPT !.tokens = 0, !.topics = {}, !.late = FALSE, !.pc = "tail"]
           heard == [flushed EXCEPT !.context = topics]
           searched(R) == [heard EXCEPT !.todo = R, !.pc = "results"]
<1>1. flushed \in Worker /\ flushed.pc = "tail" /\ Keeps(w, flushed)
  BY DEF Worker, Labels, Keeps
<1>2. heard \in Worker /\ heard.pc = "tail" /\ Keeps(w, heard)
  <2> HIDE DEF flushed
  <2>1. /\ heard \in Worker /\ heard.pc = flushed.pc /\ heard.paused = flushed.paused
        /\ heard.dedup = flushed.dedup /\ heard.bloom = flushed.bloom
        /\ heard.writes = flushed.writes
    BY <1>1 DEF Worker, Labels
  <2> QED BY <1>1, <2>1 DEF Keeps
<1>3. ASSUME NEW R \in Results(topics)
      PROVE  searched(R) \in Worker /\ searched(R).pc = "results" /\ Keeps(w, searched(R))
  <2>1. R \in SUBSET Memories
    BY DEF Results, TypeOK
  <2> HIDE DEF heard
  <2>2. /\ searched(R) \in Worker /\ searched(R).pc = "results"
        /\ searched(R).paused = heard.paused /\ searched(R).dedup = heard.dedup
        /\ searched(R).bloom = heard.bloom /\ searched(R).writes = heard.writes
    BY <1>2, <2>1 DEF Worker, Labels
  <2> QED BY <1>2, <2>2 DEF Keeps
<1>4. \/ worker' = [worker EXCEPT ![s] = flushed]
      \/ worker' = [worker EXCEPT ![s] = heard]
      \/ \E R \in Results(topics) :
           worker' = [worker EXCEPT ![s] = searched(R)]
  BY DEF Process
<1> HIDE DEF flushed, heard, searched
<1> QED BY <1>1, <1>2, <1>3, <1>4 DEF Keeps, Moves

\* The thread that starts has its worker build; nothing else of it changes.
LEMMA SpawnMoves ==
  ASSUME TypeOK, NEW s \in Subs, Spawn(s)
  PROVE  Moves(s, {"building"})
<1> DEFINE v == [worker[s] EXCEPT !.pc = "building"]
<1>1. worker[s] \in Worker
  BY DEF TypeOK
<1>2. v \in Worker /\ v.pc \in {"building"} /\ Keeps(worker[s], v)
  BY <1>1 DEF Worker, Labels, Keeps
<1>3. worker' = [worker EXCEPT ![s] = v]
  BY DEF Spawn
<1> QED BY <1>2, <1>3 DEF Moves

\* A thread that cannot start leaves an exited worker.
LEMMA SpawnFailsMoves ==
  ASSUME TypeOK, NEW s \in Subs, SpawnFails(s)
  PROVE  Moves(s, {"exited"})
<1> DEFINE v == [worker[s] EXCEPT !.pc = "exited"]
<1>1. worker[s] \in Worker
  BY DEF TypeOK
<1>2. v \in Worker /\ v.pc \in {"exited"} /\ Keeps(worker[s], v)
  BY <1>1 DEF Worker, Labels, Keeps
<1>3. worker' = [worker EXCEPT ![s] = v]
  BY DEF SpawnFails
<1> QED BY <1>2, <1>3 DEF Moves

\* A worker that takes a Shutdown exits.
LEMMA ShutdownMoves ==
  ASSUME TypeOK, NEW s \in Subs, Shutdown(s)
  PROVE  Moves(s, {"exited"})
<1> DEFINE v == [worker[s] EXCEPT !.pc = "exited"]
<1>1. worker[s] \in Worker
  BY DEF TypeOK
<1>2. v \in Worker /\ v.pc \in {"exited"} /\ Keeps(worker[s], v)
  BY <1>1 DEF Worker, Labels, Keeps
<1>3. worker' = [worker EXCEPT ![s] = v]
  BY DEF Shutdown
<1> QED BY <1>2, <1>3 DEF Moves

\* A worker that is through with its search results ends the iteration.
LEMMA SearchedMoves ==
  ASSUME TypeOK, NEW s \in Subs, Searched(s)
  PROVE  Moves(s, {"tail"})
<1> DEFINE v == [worker[s] EXCEPT !.pc = "tail"]
<1>1. worker[s] \in Worker
  BY DEF TypeOK
<1>2. v \in Worker /\ v.pc \in {"tail"} /\ Keeps(worker[s], v)
  BY <1>1 DEF Worker, Labels, Keeps
<1>3. worker' = [worker EXCEPT ![s] = v]
  BY DEF Searched
<1> QED BY <1>2, <1>3 DEF Moves

\* The deadline of the accumulator passes without moving the worker.
LEMMA DeadlinePassesMoves ==
  ASSUME TypeOK, NEW s \in Subs, DeadlinePasses(s)
  PROVE  Moves(s, {worker[s].pc})
<1> DEFINE v == [worker[s] EXCEPT !.late = TRUE]
<1>1. worker[s] \in Worker
  BY DEF TypeOK
<1>2. v \in Worker /\ v.pc \in {worker[s].pc} /\ Keeps(worker[s], v)
  BY <1>1 DEF Worker, Labels, Keeps
<1>3. worker' = [worker EXCEPT ![s] = v]
  BY DEF DeadlinePasses
<1> QED BY <1>2, <1>3 DEF Moves

\* The refresh interval passes without moving the worker.
LEMMA IntervalPassesMoves ==
  ASSUME TypeOK, NEW s \in Subs, IntervalPasses(s)
  PROVE  Moves(s, {worker[s].pc})
<1> DEFINE v == [worker[s] EXCEPT !.due = TRUE]
<1>1. worker[s] \in Worker
  BY DEF TypeOK
<1>2. v \in Worker /\ v.pc \in {worker[s].pc} /\ Keeps(worker[s], v)
  BY <1>1 DEF Worker, Labels, Keeps
<1>3. worker' = [worker EXCEPT ![s] = v]
  BY DEF IntervalPasses
<1> QED BY <1>2, <1>3 DEF Moves

\* A Flush keeps what the worker knows, its text processed or not.
LEMMA FlushMoves ==
  ASSUME TypeOK, NEW s \in Subs, Flush(s)
  PROVE  Moves(s, {"loop", "tail", "results"})
<1>1. worker[s] \in Worker /\ worker[s].topics \in SUBSET Topics /\ worker[s].pc = "loop"
  BY DEF TypeOK, Flush, Worker
<1>2. CASE UNCHANGED worker
  <2>1. worker' = [worker EXCEPT ![s] = worker[s]]
    BY <1>2 DEF TypeOK
  <2> QED BY <1>1, <2>1 DEF Moves, Keeps
<1>3. CASE Process(s, worker[s], worker[s].topics)
  <2>1. Moves(s, {"tail", "results"})
    BY <1>1, <1>3, ProcessEffect DEF Keeps
  <2> QED BY <2>1 DEF Moves
<1>4. CASE worker' = [worker EXCEPT ![s].pc = "tail"]
  <2> DEFINE v == [worker[s] EXCEPT !.pc = "tail"]
  <2>1. v \in Worker /\ v.pc = "tail" /\ Keeps(worker[s], v)
    BY <1>1 DEF Worker, Labels, Keeps
  <2>2. worker' = [worker EXCEPT ![s] = v]
    BY <1>4
  <2> QED BY <2>1, <2>2 DEF Moves
<1> QED BY <1>2, <1>3, <1>4 DEF Flush

\* A timeout keeps what the worker knows, its text processed or not.
LEMMA TimeoutMoves ==
  ASSUME TypeOK, NEW s \in Subs, Timeout(s)
  PROVE  Moves(s, {"tail", "results"})
<1>1. worker[s] \in Worker /\ worker[s].topics \in SUBSET Topics
  BY DEF TypeOK, Worker
<1>2. CASE Process(s, worker[s], worker[s].topics)
  BY <1>1, <1>2, ProcessEffect DEF Keeps
<1>3. CASE worker' = [worker EXCEPT ![s].pc = "tail"]
  <2> DEFINE v == [worker[s] EXCEPT !.pc = "tail"]
  <2>1. v \in Worker /\ v.pc = "tail" /\ Keeps(worker[s], v)
    BY <1>1 DEF Worker, Labels, Keeps
  <2>2. worker' = [worker EXCEPT ![s] = v]
    BY <1>3
  <2> QED BY <2>1, <2>2 DEF Moves
<1> QED BY <1>2, <1>3 DEF Timeout

\* A text keeps what the worker knows, processed or accumulated.
LEMMA TakeTextMoves ==
  ASSUME TypeOK, NEW s \in Subs, TakeText(s)
  PROVE  Moves(s, {"tail", "results"})
<1> DEFINE c == Head(chan[s].input)
           tokens == worker[s].tokens + c.tokens
           topics == worker[s].topics \cup c.topics
           w == [worker[s] EXCEPT !.tokens = tokens, !.topics = topics]
           v == [w EXCEPT !.pc = "tail"]
<1>1. c \in Chunks
  <2>1. chan[s].input \in Seq(Chunks) /\ chan[s].input # <<>>
    BY DEF TakeText, TypeOK, Channels
  <2> QED BY <2>1
<1>2. tokens \in Nat /\ topics \in SUBSET Topics /\ worker[s] \in Worker
  <2>1. worker[s] \in Worker /\ worker[s].tokens \in Nat /\ worker[s].topics \in SUBSET Topics
    BY DEF TypeOK, Worker
  <2>2. c.tokens \in Nat /\ c.topics \in SUBSET Topics
    BY <1>1, SubscribeAssumption
  <2> QED BY <2>1, <2>2
<1>3. \/ Process(s, w, w.topics)
      \/ worker' = [worker EXCEPT ![s] = v]
  BY DEF TakeText
<1> HIDE DEF tokens, topics
<1>4. w \in Worker /\ Keeps(worker[s], w) /\ w.topics = topics
  BY <1>2 DEF Worker, Keeps
<1>5. v \in Worker /\ v.pc = "tail" /\ Keeps(worker[s], v)
  <2> HIDE DEF w
  <2> QED BY <1>4 DEF Worker, Labels, Keeps
<1>6. CASE Process(s, w, w.topics)
  <2> HIDE DEF w
  <2> QED BY <1>2, <1>4, <1>6, ProcessEffect
<1>7. CASE worker' = [worker EXCEPT ![s] = v]
  <2> HIDE DEF v
  <2> QED BY <1>5, <1>7 DEF Moves
<1> QED BY <1>3, <1>6, <1>7

\* The history g becomes h, except for what the last scan met.
SameHistory(g, h) == /\ h.log = g.log /\ h.epoch = g.epoch /\ h.received = g.received
                     /\ h.noticed = g.noticed /\ h.wanted = g.wanted
\* A scan turns the worker w into v and the history of s into h.
Scanned(s, w, v, h) ==
  /\ worker' = [worker EXCEPT ![s] = v] /\ seen' = [seen EXCEPT ![s] = h]
  /\ v.pc = w.pc /\ v.paused = w.paused /\ v.dedup = w.dedup /\ v.writes = w.writes
  /\ h.blind \/ v.bloom = Known(Window)
  /\ SameHistory(seen[s], h)
\* It read what it ranges over, or met an error.
LEMMA ScanEffect ==
  ASSUME TypeOK, NEW s \in Subs, NEW w \in Worker, Scan(s, w)
  PROVE  /\ \E v \in Worker, h \in Seen : Scanned(s, w, v, h)
         /\ used' \in [feeds : Nat, signals : Nat, fails : Nat]
<1>1. PICK R \in SUBSET Window :
        /\ worker' = [worker EXCEPT ![s] = [w EXCEPT !.bloom = Known(R)]]
        /\ seen' = [seen EXCEPT ![s].blind = (R # Window)]
        /\ used' = [used EXCEPT !.fails = IF R = Window THEN @ ELSE @ + 1]
  BY DEF Scan
<1> DEFINE b == (R # Window)
           k == Known(R)
           v == [w EXCEPT !.bloom = k]
           h == [seen[s] EXCEPT !.blind = b]
<1>2. worker' = [worker EXCEPT ![s] = v] /\ seen' = [seen EXCEPT ![s] = h]
  BY <1>1
<1>3. k \in SUBSET Topics /\ b \in BOOLEAN /\ seen[s] \in Seen
  <2>1. R \cap Scoped \subseteq Memories
    BY SubscribeAssumption
  <2>2. k \in SUBSET Topics
    BY <2>1, SubscribeAssumption DEF Known
  <2> QED BY <2>2 DEF TypeOK
<1>4. b \/ k = Known(Window)
  OBVIOUS
<1>5. used' \in [feeds : Nat, signals : Nat, fails : Nat]
  BY <1>1 DEF TypeOK
<1> HIDE DEF b, k
<1>6. /\ v \in Worker /\ v.pc = w.pc /\ v.paused = w.paused /\ v.dedup = w.dedup
      /\ v.writes = w.writes /\ v.bloom = k
  BY <1>3 DEF Worker
<1>7. h \in Seen /\ SameHistory(seen[s], h) /\ h.blind = b
  BY <1>3 DEF Seen, SameHistory
<1> HIDE DEF v, h
<1> QED BY <1>2, <1>4, <1>5, <1>6, <1>7 DEF Scanned

\* The first filter is built from a scan; the counter of writes is as it was.
LEMMA BuildEffect ==
  ASSUME TypeOK, NEW s \in Subs, Build(s)
  PROVE  /\ \E v \in Worker, h \in Seen :
              /\ worker' = [worker EXCEPT ![s] = v] /\ seen' = [seen EXCEPT ![s] = h]
              /\ v.pc = "loop" /\ v.paused = worker[s].paused
              /\ v.dedup = worker[s].dedup /\ v.writes = worker[s].writes
              /\ h.blind \/ v.bloom = Known(Window)
              /\ SameHistory(seen[s], h)
         /\ used' \in [feeds : Nat, signals : Nat, fails : Nat]
<1> DEFINE w == [worker[s] EXCEPT !.pc = "loop"]
<1>1. worker[s] \in Worker
  BY DEF TypeOK
<1>2. Scan(s, w)
  BY DEF Build
<1>3. /\ w \in Worker /\ w.pc = "loop" /\ w.paused = worker[s].paused
      /\ w.dedup = worker[s].dedup /\ w.writes = worker[s].writes
  BY <1>1 DEF Worker, Labels
<1> HIDE DEF w
<1> QED BY <1>2, <1>3, ScanEffect DEF Scanned

\* The filter is rebuilt and the counter reset, or the counter is below its limit.
LEMMA RefreshEffect ==
  ASSUME TypeOK, NEW s \in Subs, Refresh(s)
  PROVE  /\ \E v \in Worker, h \in Seen :
              /\ worker' = [worker EXCEPT ![s] = v] /\ seen' = [seen EXCEPT ![s] = h]
              /\ v.pc = "loop" /\ v.paused = worker[s].paused /\ v.dedup = worker[s].dedup
              /\ \/ (h.blind \/ v.bloom = Known(Window)) /\ v.writes = 0
                 \/ /\ v.bloom = worker[s].bloom /\ v.writes = worker[s].writes
                    /\ worker[s].writes < RefreshCount /\ h.blind = seen[s].blind
              /\ SameHistory(seen[s], h)
         /\ used' \in [feeds : Nat, signals : Nat, fails : Nat]
<1> DEFINE fresh == [worker[s] EXCEPT !.pc = "loop", !.writes = 0, !.due = FALSE]
           same == [worker[s] EXCEPT !.pc = "loop"]
<1>1. worker[s] \in Worker /\ seen[s] \in Seen
  BY DEF TypeOK
<1>2. CASE Stale(worker[s])
  <2>1. Scan(s, fresh)
    BY <1>2 DEF Refresh
  <2>2. /\ fresh \in Worker /\ fresh.pc = "loop" /\ fresh.writes = 0
        /\ fresh.paused = worker[s].paused /\ fresh.dedup = worker[s].dedup
    BY <1>1 DEF Worker, Labels
  <2> HIDE DEF fresh
  <2> QED BY <2>1, <2>2, ScanEffect DEF Scanned
<1>3. CASE ~Stale(worker[s])
  <2>1. worker' = [worker EXCEPT ![s] = same] /\ UNCHANGED <<seen, used>>
    BY <1>3 DEF Refresh
  <2>2. /\ same \in Worker /\ same.pc = "loop" /\ same.bloom = worker[s].bloom
        /\ same.writes = worker[s].writes /\ same.paused = worker[s].paused
        /\ same.dedup = worker[s].dedup
    BY <1>1 DEF Worker, Labels
  <2>3. worker[s].writes < RefreshCount
    BY <1>1, <1>3, SubscribeAssumption DEF Stale, Worker
  <2>4. seen' = [seen EXCEPT ![s] = seen[s]] /\ SameHistory(seen[s], seen[s])
    BY <2>1 DEF TypeOK, SameHistory
  <2>5. used' \in [feeds : Nat, signals : Nat, fails : Nat]
    BY <2>1 DEF TypeOK
  <2> HIDE DEF same
  <2> QED BY <1>1, <2>1, <2>2, <2>3, <2>4, <2>5
<1> QED BY <1>2, <1>3

\* A worker is paused exactly if the signal it takes is Pause.
LEMMA PauseEffect ==
  ASSUME TypeOK, NEW s \in Subs, PauseOrResume(s)
  PROVE  \E sig \in {"pause", "resume"}, v \in Worker :
           /\ Receive(s, sig) /\ worker' = [worker EXCEPT ![s] = v]
           /\ v.paused = (sig = "pause") /\ v.pc \in {"loop", "tail"}
           /\ v.pc = "loop" => worker[s].pc = "loop"
           /\ v.dedup = worker[s].dedup /\ v.bloom = worker[s].bloom
           /\ v.writes = worker[s].writes
<1>1. PICK sig \in {"pause", "resume"} :
        /\ Receive(s, sig)
        /\ worker' = [worker EXCEPT ![s].paused = (sig = "pause"),
                                    ![s].pc = IF worker[s].paused THEN "loop" ELSE "tail"]
  BY DEF PauseOrResume
<1> DEFINE b == (sig = "pause")
           x == IF worker[s].paused THEN "loop" ELSE "tail"
           v == [worker[s] EXCEPT !.paused = b, !.pc = x]
<1>2. worker' = [worker EXCEPT ![s] = v]
  BY <1>1
<1>3. x \in {"loop", "tail"} /\ b \in BOOLEAN /\ worker[s] \in Worker
  BY DEF TypeOK
<1> HIDE DEF x, b
<1>4. /\ v \in Worker /\ v.paused = b /\ v.pc = x /\ v.dedup = worker[s].dedup
      /\ v.bloom = worker[s].bloom /\ v.writes = worker[s].writes
  BY <1>3 DEF Worker, Labels
<1>5. worker[s].pc = "loop"
  BY DEF PauseOrResume
<1> HIDE DEF v
<1> QED BY <1>1, <1>2, <1>3, <1>4, <1>5 DEF b

\* ResetDedup empties the dedup set and keeps the rest of what the worker knows.
LEMMA ResetEffect ==
  ASSUME TypeOK, NEW s \in Subs, ResetDedup(s)
  PROVE  \E v \in Worker :
           /\ worker' = [worker EXCEPT ![s] = v] /\ v.dedup = {} /\ v.pc \in {"loop", "tail"}
           /\ v.paused = worker[s].paused /\ v.bloom = worker[s].bloom
           /\ v.writes = worker[s].writes /\ worker[s].pc = "loop"
<1> DEFINE x == IF worker[s].paused THEN "loop" ELSE "tail"
           v == [worker[s] EXCEPT !.dedup = {}, !.pc = x]
<1>1. worker' = [worker EXCEPT ![s] = v] /\ worker[s].pc = "loop"
  BY DEF ResetDedup
<1>2. x \in {"loop", "tail"} /\ worker[s] \in Worker
  BY DEF TypeOK
<1> HIDE DEF x
<1>3. /\ v \in Worker /\ v.dedup = {} /\ v.pc = x /\ v.paused = worker[s].paused
      /\ v.bloom = worker[s].bloom /\ v.writes = worker[s].writes
  BY <1>2 DEF Worker, Labels
<1> HIDE DEF v
<1> QED BY <1>1, <1>2, <1>3

-----------------------------------------------------------------------------
(* What a step does to the queues and the history                          *)

\* The queues c become d, except for the control queue.
KeepsQueues(c, d) == /\ d.input = c.input /\ d.notify = c.notify
                     /\ d.out = c.out /\ d.drops = c.drops
\* The history g becomes h, except for what the caller wants.
KeepsLog(g, h) == /\ h.log = g.log /\ h.epoch = g.epoch
                  /\ h.received = g.received /\ h.noticed = g.noticed
                  /\ h.blind = g.blind

\* An assignment to a control queue changes no other queue.
LEMMA ControlPut ==
  ASSUME TypeOK, NEW s \in Subs, NEW q \in Seq(Signals),
         chan' = [chan EXCEPT ![s].control = q]
  PROVE  \E c \in Channels : /\ chan' = [chan EXCEPT ![s] = c]
                             /\ c.control = q /\ KeepsQueues(chan[s], c)
<1> DEFINE c == [chan[s] EXCEPT !.control = q]
<1>1. c \in Channels /\ c.control = q /\ KeepsQueues(chan[s], c)
  BY DEF TypeOK, Channels, KeepsQueues
<1>2. chan' = [chan EXCEPT ![s] = c]
  OBVIOUS
<1> QED BY <1>1, <1>2

\* A Shutdown goes to the end of the control queue.
LEMMA StopEffect ==
  ASSUME TypeOK, NEW s \in Subs, Stop(s)
  PROVE  \E c \in Channels : /\ chan' = [chan EXCEPT ![s] = c]
                             /\ c.control = Append(chan[s].control, "shutdown")
                             /\ KeepsQueues(chan[s], c)
<1> DEFINE q == Append(chan[s].control, "shutdown")
<1>1. chan' = [chan EXCEPT ![s].control = q]
  BY DEF Stop
<1>2. q \in Seq(Signals)
  <2>1. chan[s].control \in Seq(Signals) /\ "shutdown" \in Signals
    BY DEF TypeOK, Channels, Signals
  <2> QED BY <2>1
<1> QED BY <1>1, <1>2, ControlPut

\* The signal received is taken off the head of the control queue.
LEMMA ReceiveEffect ==
  ASSUME TypeOK, NEW s \in Subs, NEW sig \in Signals, Receive(s, sig)
  PROVE  /\ chan[s].control \in Seq(Signals) /\ chan[s].control # <<>>
         /\ Head(chan[s].control) = sig
         /\ \E c \in Channels : /\ chan' = [chan EXCEPT ![s] = c]
                                /\ c.control = Tail(chan[s].control)
                                /\ KeepsQueues(chan[s], c)
<1> DEFINE q == Tail(chan[s].control)
<1>1. chan' = [chan EXCEPT ![s].control = q]
  BY DEF Receive
<1>2. chan[s].control \in Seq(Signals) /\ chan[s].control # <<>>
  BY DEF TypeOK, Channels, Receive
<1>3. q \in Seq(Signals)
  BY <1>2
<1> QED BY <1>1, <1>2, <1>3, ControlPut DEF Receive

\* The caller's signal goes to the end of the control queue and sets what it wants.
LEMMA SignalEffect ==
  ASSUME TypeOK, NEW s \in Subs, NEW sig \in Signals, Signal(s, sig)
  PROVE  /\ \E c \in Channels : /\ chan' = [chan EXCEPT ![s] = c]
                                /\ c.control = Append(chan[s].control, sig)
                                /\ KeepsQueues(chan[s], c)
         /\ \E h \in Seen : /\ seen' = [seen EXCEPT ![s] = h] /\ KeepsLog(seen[s], h)
                            /\ h.wanted = (sig = "pause" \/ (sig # "resume" /\ seen[s].wanted))
<1> DEFINE q == Append(chan[s].control, sig)
           b == sig = "pause" \/ (sig # "resume" /\ seen[s].wanted)
           h == [seen[s] EXCEPT !.wanted = b]
<1>1. q \in Seq(Signals)
  <2>1. chan[s].control \in Seq(Signals)
    BY DEF TypeOK, Channels
  <2> QED BY <2>1
<1>2. chan' = [chan EXCEPT ![s].control = q] /\ seen' = [seen EXCEPT ![s] = h]
  BY DEF Signal
<1>3. b \in BOOLEAN
  BY DEF TypeOK, Seen
<1> HIDE DEF b
<1>4. h \in Seen /\ KeepsLog(seen[s], h) /\ h.wanted = b
  BY <1>3 DEF TypeOK, Seen, KeepsLog
<1> HIDE DEF h
<1> QED BY <1>1, <1>2, <1>4, ControlPut DEF b

\* A text that is accepted fits in the input queue.
LEMMA FeedEffect ==
  ASSUME TypeOK, NEW s \in Subs, NEW t \in Chunks, Feed(s, t)
  PROVE  \E c \in Channels : /\ chan' = [chan EXCEPT ![s] = c] /\ Len(c.input) <= InputCap
                             /\ c.control = chan[s].control /\ c.notify = chan[s].notify
                             /\ c.out = chan[s].out /\ c.drops = chan[s].drops
<1> DEFINE q == Append(chan[s].input, t)
           c == [chan[s] EXCEPT !.input = q]
<1>1. chan[s] \in Channels /\ chan[s].input \in Seq(Chunks)
  BY DEF TypeOK, Channels
<1>2. q \in Seq(Chunks) /\ Len(q) <= InputCap
  BY <1>1, Capacities DEF Feed
<1>3. chan' = [chan EXCEPT ![s] = c]
  BY DEF Feed
<1> HIDE DEF q
<1>4. /\ c \in Channels /\ c.input = q /\ c.control = chan[s].control
      /\ c.notify = chan[s].notify /\ c.out = chan[s].out /\ c.drops = chan[s].drops
  BY <1>1, <1>2 DEF Channels
<1> HIDE DEF c
<1> QED BY <1>2, <1>3, <1>4

\* A text is taken off the input queue.
LEMMA TakeTextEffect ==
  ASSUME TypeOK, NEW s \in Subs, TakeText(s)
  PROVE  \E c \in Channels : /\ chan' = [chan EXCEPT ![s] = c] /\ Len(c.input) <= InputCap
                             /\ c.control = chan[s].control /\ c.notify = chan[s].notify
                             /\ c.out = chan[s].out /\ c.drops = chan[s].drops
<1> DEFINE q == Tail(chan[s].input)
           c == [chan[s] EXCEPT !.input = q]
<1>1. /\ chan[s] \in Channels /\ chan[s].input \in Seq(Chunks) /\ chan[s].input # <<>>
      /\ Len(chan[s].input) <= InputCap
  BY DEF TypeOK, Channels, TakeText
<1>2. q \in Seq(Chunks) /\ Len(q) <= InputCap
  BY <1>1, SubscribeAssumption
<1>3. chan' = [chan EXCEPT ![s] = c]
  BY DEF TakeText
<1> HIDE DEF q
<1>4. /\ c \in Channels /\ c.input = q /\ c.control = chan[s].control
      /\ c.notify = chan[s].notify /\ c.out = chan[s].out /\ c.drops = chan[s].drops
  BY <1>1, <1>2 DEF Channels
<1> HIDE DEF c
<1> QED BY <1>2, <1>3, <1>4

\* The caller takes the oldest push of the ring.
LEMMA RecvEffect ==
  ASSUME TypeOK, NEW s \in Subs, Recv(s)
  PROVE  /\ \E c \in Channels : /\ chan' = [chan EXCEPT ![s] = c]
                                /\ chan[s].out # <<>> /\ c.out = Tail(chan[s].out)
                                /\ c.control = chan[s].control /\ c.input = chan[s].input
                                /\ c.notify = chan[s].notify /\ c.drops = chan[s].drops
         /\ \E h \in Seen : /\ seen' = [seen EXCEPT ![s] = h]
                            /\ h.received = seen[s].received + 1 /\ h.log = seen[s].log
                            /\ h.epoch = seen[s].epoch /\ h.noticed = seen[s].noticed
                            /\ h.wanted = seen[s].wanted /\ h.blind = seen[s].blind
<1> DEFINE q == Tail(chan[s].out)
           c == [chan[s] EXCEPT !.out = q]
           n == seen[s].received + 1
           h == [seen[s] EXCEPT !.received = n]
<1>1. /\ chan[s] \in Channels /\ chan[s].out \in Seq(Memories) /\ chan[s].out # <<>>
      /\ seen[s] \in Seen
  BY DEF TypeOK, Channels, Recv
<1>2. q \in Seq(Memories) /\ n \in Nat
  BY <1>1 DEF Seen
<1>3. chan' = [chan EXCEPT ![s] = c] /\ seen' = [seen EXCEPT ![s] = h]
  BY DEF Recv
<1> HIDE DEF q, n
<1>4. /\ c \in Channels /\ c.out = q /\ c.control = chan[s].control
      /\ c.input = chan[s].input /\ c.notify = chan[s].notify /\ c.drops = chan[s].drops
  BY <1>1, <1>2 DEF Channels
<1>5. /\ h \in Seen /\ h.received = n /\ h.log = seen[s].log /\ h.epoch = seen[s].epoch
      /\ h.noticed = seen[s].noticed /\ h.wanted = seen[s].wanted /\ h.blind = seen[s].blind
  BY <1>1, <1>2 DEF Seen
<1> HIDE DEF c, h
<1> QED BY <1>1, <1>3, <1>4, <1>5 DEF q, n

\* A reset starts a new epoch of the history.
LEMMA ResetHistory ==
  ASSUME TypeOK, NEW s \in Subs, ResetDedup(s)
  PROVE  \E h \in Seen : /\ seen' = [seen EXCEPT ![s] = h]
                         /\ h.epoch = Len(seen[s].log) /\ h.log = seen[s].log
                         /\ h.received = seen[s].received /\ h.noticed = seen[s].noticed
                         /\ h.wanted = seen[s].wanted /\ h.blind = seen[s].blind
<1> DEFINE n == Len(seen[s].log)
           h == [seen[s] EXCEPT !.epoch = n]
<1>1. seen[s] \in Seen /\ n \in Nat
  BY DEF TypeOK, Seen
<1>2. seen' = [seen EXCEPT ![s] = h]
  BY DEF ResetDedup
<1> HIDE DEF n
<1>3. /\ h \in Seen /\ h.epoch = n /\ h.log = seen[s].log /\ h.received = seen[s].received
      /\ h.noticed = seen[s].noticed /\ h.wanted = seen[s].wanted /\ h.blind = seen[s].blind
  BY <1>1 DEF Seen
<1> HIDE DEF h
<1> QED BY <1>2, <1>3 DEF n

\* A broadcast appends to queues of new writes that have room.
LEMMA NotifyEffect ==
  ASSUME TypeOK, NEW m \in Memories, Notify(m)
  PROVE  /\ chan' \in [Subs -> Channels]
         /\ \A s \in Subs :
              /\ chan'[s].control = chan[s].control /\ chan'[s].input = chan[s].input
              /\ chan'[s].out = chan[s].out /\ chan'[s].drops = chan[s].drops
              /\ Len(chan'[s].notify) <= NotifyCap
              /\ \/ chan'[s].notify = chan[s].notify
                 \/ chan'[s].notify = Append(chan[s].notify, m)
<1> DEFINE Room(s) == /\ s \in {r \in entries : worker[r].pc # "exited"}
                      /\ Len(chan[s].notify) < NotifyCap
           next(s) == IF Room(s) THEN [chan[s] EXCEPT !.notify = Append(@, m)] ELSE chan[s]
<1>1. chan' = [s \in Subs |-> next(s)]
  BY DEF Notify
<1>2. ASSUME NEW s \in Subs
      PROVE  /\ next(s) \in Channels
             /\ next(s).control = chan[s].control /\ next(s).input = chan[s].input
             /\ next(s).out = chan[s].out /\ next(s).drops = chan[s].drops
             /\ Len(next(s).notify) <= NotifyCap
             /\ \/ next(s).notify = chan[s].notify
                \/ next(s).notify = Append(chan[s].notify, m)
  <2> DEFINE q == Append(chan[s].notify, m)
             c == [chan[s] EXCEPT !.notify = q]
  <2>1. /\ chan[s] \in Channels /\ chan[s].notify \in Seq(Memories)
        /\ Len(chan[s].notify) <= NotifyCap
    BY DEF TypeOK, Channels
  <2>2. q \in Seq(Memories) /\ Len(q) = Len(chan[s].notify) + 1
    BY <2>1
  <2>3. next(s) = IF Room(s) THEN c ELSE chan[s]
    OBVIOUS
  <2>4. Room(s) => Len(q) <= NotifyCap
    BY <2>1, <2>2, Capacities
  <2> HIDE DEF q, Room
  <2>5. /\ c \in Channels /\ c.notify = q /\ c.control = chan[s].control
        /\ c.input = chan[s].input /\ c.out = chan[s].out /\ c.drops = chan[s].drops
    BY <2>1, <2>2 DEF Channels
  <2> HIDE DEF c, next
  <2> QED BY <2>1, <2>3, <2>4, <2>5 DEF q
<1> HIDE DEF next
<1> QED BY <1>1, <1>2

-----------------------------------------------------------------------------
(* What a push does                                                        *)

\* A push keeps the ring within its capacity.
LEMMA RingType ==
  ASSUME NEW out \in Seq(Memories), Len(out) <= OutCap, NEW m \in Memories
  PROVE  Ring(out, m) \in Seq(Memories) /\ Len(Ring(out, m)) <= OutCap
<1>1. CASE Len(out) >= OutCap
  <2>1. out # <<>>
    BY <1>1, SubscribeAssumption
  <2>2. Tail(out) \in Seq(Memories) /\ Len(Tail(out)) = Len(out) - 1
    BY <2>1
  <2> QED BY <1>1, <2>2, Capacities DEF Ring
<1>2. CASE ~(Len(out) >= OutCap)
  BY <1>2, Capacities DEF Ring
<1> QED BY <1>1, <1>2

\* A push changes the ring and the count of drops of one subscription.
LEMMA EmitEffect ==
  ASSUME NEW c \in [Subs -> Channels], NEW s \in Subs, NEW m \in Memories,
         Len(c[s].out) <= OutCap
  PROVE  \E d \in Channels :
           /\ Emit(c, s, m) = [c EXCEPT ![s] = d]
           /\ d.control = c[s].control /\ d.input = c[s].input /\ d.notify = c[s].notify
           /\ d.out = Ring(c[s].out, m) /\ Len(d.out) <= OutCap
           /\ d.drops = IF Len(c[s].out) >= OutCap THEN c[s].drops + 1 ELSE c[s].drops
<1> DEFINE ring == Ring(c[s].out, m)
           drops == IF Len(c[s].out) >= OutCap THEN c[s].drops + 1 ELSE c[s].drops
           one == [c[s] EXCEPT !.out = ring]
           two == [one EXCEPT !.drops = drops]
<1>1. ring \in Seq(Memories) /\ Len(ring) <= OutCap
  BY RingType DEF Channels
<1>2. drops \in Nat
  BY DEF Channels
<1>3. Emit(c, s, m) = [c EXCEPT ![s] = two]
  <2>1. Emit(c, s, m) = [[c EXCEPT ![s].out = ring] EXCEPT ![s].drops = drops]
    BY DEF Emit
  <2> HIDE DEF Emit, ring, drops
  <2>2. [c EXCEPT ![s].out = ring] = [c EXCEPT ![s] = one]
    OBVIOUS
  <2> QED BY <2>1, <2>2
<1> HIDE DEF ring, drops
<1>4. /\ one \in Channels /\ one.out = ring /\ one.input = c[s].input
      /\ one.notify = c[s].notify /\ one.control = c[s].control
  BY <1>1 DEF Channels
<1> HIDE DEF one
<1>5. /\ two \in Channels /\ two.out = ring /\ two.input = c[s].input
      /\ two.notify = c[s].notify /\ two.control = c[s].control /\ two.drops = drops
  BY <1>2, <1>4 DEF Channels
<1> HIDE DEF two
<1> QED BY <1>1, <1>3, <1>5 DEF ring, drops

\* A push of m onto the ring in c, or none: the dedup set of v and the history
\* h record it.
Sends(s, m, c, v, h) ==
  \/ chan' = c /\ v.dedup = worker[s].dedup /\ h.log = seen[s].log
  \/ /\ chan' = Emit(c, s, m) /\ m \notin worker[s].dedup
     /\ v.dedup = worker[s].dedup \cup {m} /\ h.log = Append(seen[s].log, m)

TakesResult(s, m, v, h) ==
  /\ worker' = [worker EXCEPT ![s] = v] /\ seen' = [seen EXCEPT ![s] = h]
  /\ worker[s].pc = "results" /\ v.pc = "results" /\ v.paused = worker[s].paused
  /\ v.bloom = worker[s].bloom /\ v.writes = worker[s].writes
  /\ h.epoch = seen[s].epoch /\ h.received = seen[s].received
  /\ h.noticed = seen[s].noticed /\ h.wanted = seen[s].wanted /\ h.blind = seen[s].blind
  /\ Sends(s, m, chan, v, h)

\* One search result leaves todo and is pushed or not; the filter and the counter stay.
LEMMA PushEffect ==
  ASSUME TypeOK, NEW s \in Subs, Push(s)
  PROVE  \E m \in Memories, v \in Worker, h \in Seen :
           TakesResult(s, m, v, h)
<1>1. worker[s] \in Worker /\ seen[s] \in Seen /\ worker[s].todo \in SUBSET Memories
  BY DEF TypeOK, Worker
<1>2. PICK m \in worker[s].todo :
        LET fits == Unsent(s, m) /\ InScope(m)
        IN  /\ worker' = [worker EXCEPT ![s].todo = @ \ {m},
                            ![s].dedup = IF fits THEN @ \cup {m} ELSE @]
            /\ chan' = IF fits THEN Emit(chan, s, m) ELSE chan
            /\ seen' = [seen EXCEPT ![s].log = IF fits THEN Append(@, m) ELSE @]
  BY DEF Push
<1> DEFINE fits == Unsent(s, m) /\ InScope(m)
           todo == worker[s].todo \ {m}
           dedup == IF fits THEN worker[s].dedup \cup {m} ELSE worker[s].dedup
           log == IF fits THEN Append(seen[s].log, m) ELSE seen[s].log
           v == [worker[s] EXCEPT !.todo = todo, !.dedup = dedup]
           h == [seen[s] EXCEPT !.log = log]
<1>3. worker' = [worker EXCEPT ![s] = v] /\ seen' = [seen EXCEPT ![s] = h]
  BY <1>2
<1>4. todo \in SUBSET Memories /\ dedup \in SUBSET Memories /\ log \in Seq(Memories)
  BY <1>1 DEF Worker, Seen
<1> HIDE DEF todo, dedup, log
<1>5. /\ v \in Worker /\ v.pc = worker[s].pc /\ v.paused = worker[s].paused
      /\ v.bloom = worker[s].bloom /\ v.writes = worker[s].writes /\ v.dedup = dedup
  BY <1>1, <1>4 DEF Worker
<1>6. /\ h \in Seen /\ h.log = log /\ h.epoch = seen[s].epoch
      /\ h.received = seen[s].received /\ h.noticed = seen[s].noticed
      /\ h.wanted = seen[s].wanted /\ h.blind = seen[s].blind
  BY <1>1, <1>4 DEF Seen
<1> HIDE DEF v, h
<1>7. Sends(s, m, chan, v, h)
  BY <1>2, <1>5, <1>6 DEF Sends, dedup, log, Unsent
<1>8. worker[s].pc = "results" /\ m \in Memories
  BY <1>1 DEF Push
<1> QED BY <1>3, <1>5, <1>6, <1>7, <1>8 DEF TakesResult

TakesNotice(s, m, c, v, h) ==
  /\ worker' = [worker EXCEPT ![s] = v] /\ seen' = [seen EXCEPT ![s] = h]
  /\ worker[s].pc = "loop" /\ v.pc = "tail"
  /\ v.paused = worker[s].paused /\ v.bloom = worker[s].bloom
  /\ h.epoch = seen[s].epoch /\ h.received = seen[s].received
  /\ h.wanted = seen[s].wanted /\ h.blind = seen[s].blind
  /\ chan[s].notify # <<>> /\ m = Head(chan[s].notify)
  /\ c.notify = Tail(chan[s].notify) /\ Len(c.notify) <= NotifyCap
  /\ c.control = chan[s].control /\ c.input = chan[s].input
  /\ c.out = chan[s].out /\ c.drops = chan[s].drops
  /\ \/ /\ InScope(m) /\ v.writes = worker[s].writes + 1
        /\ h.noticed = seen[s].noticed \cup {m}
     \/ v.writes = worker[s].writes /\ h.noticed = seen[s].noticed
  /\ Sends(s, m, [chan EXCEPT ![s] = c], v, h)

\* A notification is taken off its queue, counted and noticed if its memory is
\* in scope, and perhaps pushed.
LEMMA NotificationEffect ==
  ASSUME TypeOK, NEW s \in Subs, TakeNotification(s)
  PROVE  \E m \in Memories, c \in Channels, v \in Worker, h \in Seen :
           TakesNotice(s, m, c, v, h)
<1> DEFINE m == Head(chan[s].notify)
           q == Tail(chan[s].notify)
           c == [chan[s] EXCEPT !.notify = q]
           rest == [chan EXCEPT ![s].notify = Tail(@)]
           counted == InScope(m)
           fits == counted /\ Unsent(s, m) /\ Topic[m] \in worker[s].context
           count == IF counted THEN worker[s].writes + 1 ELSE worker[s].writes
           dedup == IF fits THEN worker[s].dedup \cup {m} ELSE worker[s].dedup
           noticed == IF counted THEN seen[s].noticed \cup {m} ELSE seen[s].noticed
           log == IF fits THEN Append(seen[s].log, m) ELSE seen[s].log
           v == [worker[s] EXCEPT !.pc = "tail", !.writes = count, !.dedup = dedup]
           h == [seen[s] EXCEPT !.noticed = noticed, !.log = log]
<1>1. /\ worker[s] \in Worker /\ seen[s] \in Seen /\ chan[s] \in Channels
      /\ chan[s].notify \in Seq(Memories) /\ chan[s].notify # <<>>
      /\ Len(chan[s].notify) <= NotifyCap /\ worker[s].pc = "loop"
  BY DEF TypeOK, Channels, TakeNotification, Selecting
<1>2. /\ m \in Memories /\ q \in Seq(Memories) /\ Len(q) <= NotifyCap
  BY <1>1, SubscribeAssumption
<1>3. /\ worker' = [worker EXCEPT ![s] = v] /\ seen' = [seen EXCEPT ![s] = h]
      /\ chan' = IF fits THEN Emit(rest, s, m) ELSE rest
  BY DEF TakeNotification
<1>4. rest = [chan EXCEPT ![s] = c]
  OBVIOUS
<1>5. /\ count \in Nat /\ dedup \in SUBSET Memories /\ noticed \in SUBSET Memories
      /\ log \in Seq(Memories)
  <2>1. /\ worker[s].writes \in Nat /\ worker[s].dedup \in SUBSET Memories
        /\ seen[s].noticed \in SUBSET Memories /\ seen[s].log \in Seq(Memories)
    BY <1>1 DEF Worker, Seen
  <2> HIDE DEF m
  <2>2. Append(seen[s].log, m) \in Seq(Memories)
    BY <1>2, <2>1
  <2> HIDE DEF counted, fits
  <2> QED BY <1>2, <2>1, <2>2
<1> HIDE DEF m, q, count, dedup, noticed, log, rest
<1>6. /\ c \in Channels /\ c.notify = q /\ c.control = chan[s].control
      /\ c.input = chan[s].input /\ c.out = chan[s].out /\ c.drops = chan[s].drops
  BY <1>1, <1>2 DEF Channels
<1>7. /\ v \in Worker /\ v.pc = "tail" /\ v.paused = worker[s].paused
      /\ v.bloom = worker[s].bloom /\ v.writes = count /\ v.dedup = dedup
  BY <1>1, <1>5 DEF Worker, Labels
<1>8. /\ h \in Seen /\ h.noticed = noticed /\ h.log = log /\ h.epoch = seen[s].epoch
      /\ h.received = seen[s].received /\ h.wanted = seen[s].wanted /\ h.blind = seen[s].blind
  BY <1>1, <1>5 DEF Seen
<1> HIDE DEF c, v, h
<1>9. Sends(s, m, [chan EXCEPT ![s] = c], v, h)
  BY <1>3, <1>4, <1>7, <1>8 DEF Sends, dedup, log, Unsent
<1>10. \/ InScope(m) /\ v.writes = worker[s].writes + 1 /\ h.noticed = seen[s].noticed \cup {m}
       \/ v.writes = worker[s].writes /\ h.noticed = seen[s].noticed
  BY <1>7, <1>8 DEF count, noticed
<1> QED BY <1>1, <1>2, <1>3, <1>6, <1>7, <1>8, <1>9, <1>10 DEF m, q, TakesNotice

-----------------------------------------------------------------------------
(* Types                                                                   *)

\* The initial state is well typed.
LEMMA TypeInit == Init => TypeOK
<1> SUFFICES ASSUME Init PROVE TypeOK
  OBVIOUS
<1>1. chan \in [Subs -> Channels] /\ \A s \in Subs : /\ chan[s].input = <<>>
                                                     /\ chan[s].out = <<>> /\ chan[s].notify = <<>>
  BY DEF Init, Channels
<1>2. worker \in [Subs -> Worker]
  BY DEF Init, Worker, Labels
<1>3. seen \in [Subs -> Seen]
  BY DEF Init, Seen
<1> QED BY <1>1, <1>2, <1>3, SubscribeAssumption DEF Init, TypeOK, Stages

\* Putting a well typed queue record or history in its place.
LEMMA Puts ==
  ASSUME TypeOK, NEW s \in Subs
  PROVE  /\ \A v \in Worker : [worker EXCEPT ![s] = v] \in [Subs -> Worker]
         /\ \A h \in Seen : [seen EXCEPT ![s] = h] \in [Subs -> Seen]
         /\ \A c \in Channels :
              Len(c.input) <= InputCap /\ Len(c.out) <= OutCap /\ Len(c.notify) <= NotifyCap
              => LET d == [chan EXCEPT ![s] = c]
                 IN  /\ d \in [Subs -> Channels]
                     /\ \A r \in Subs : /\ Len(d[r].input) <= InputCap
                                        /\ Len(d[r].out) <= OutCap
                                        /\ Len(d[r].notify) <= NotifyCap
BY DEF TypeOK

WorkerType == worker \in [Subs -> Worker]
SeenType == seen \in [Subs -> Seen]
ChanType == /\ chan \in [Subs -> Channels]
            /\ \A s \in Subs : /\ Len(chan[s].input) <= InputCap /\ Len(chan[s].out) <= OutCap
                               /\ Len(chan[s].notify) <= NotifyCap

\* What is not changed stays well typed.
LEMMA SameTypes ==
  ASSUME TypeOK
  PROVE  /\ UNCHANGED worker => WorkerType'
         /\ UNCHANGED seen => SeenType'
         /\ UNCHANGED chan => ChanType'
BY DEF TypeOK, WorkerType, SeenType, ChanType

\* A worker that moves stays a worker.
LEMMA MovesType ==
  ASSUME TypeOK, NEW s \in Subs, NEW P, Moves(s, P)
  PROVE  WorkerType'
BY Puts DEF Moves, WorkerType

\* A change of one control queue keeps all queues well typed.
LEMMA ControlType ==
  ASSUME TypeOK, NEW s \in Subs, NEW c \in Channels, chan' = [chan EXCEPT ![s] = c],
         KeepsQueues(chan[s], c)
  PROVE  ChanType'
<1>1. Len(c.input) <= InputCap /\ Len(c.out) <= OutCap /\ Len(c.notify) <= NotifyCap
  BY DEF TypeOK, KeepsQueues
<1> QED BY <1>1, Puts DEF ChanType

\* A push keeps all queues well typed.
LEMMA SendsType ==
  ASSUME TypeOK, NEW s \in Subs, NEW m \in Memories, NEW c \in Channels,
         NEW v \in Worker, NEW h \in Seen, Sends(s, m, [chan EXCEPT ![s] = c], v, h),
         Len(c.input) <= InputCap, Len(c.out) <= OutCap, Len(c.notify) <= NotifyCap
  PROVE  ChanType'
<1> DEFINE d == [chan EXCEPT ![s] = c]
<1>1. d \in [Subs -> Channels] /\ d[s] = c
  BY DEF TypeOK
<1>2. CASE chan' = d
  BY <1>2, Puts DEF ChanType
<1>3. CASE chan' = Emit(d, s, m)
  <2> HIDE DEF d
  <2>1. PICK e \in Channels :
          /\ Emit(d, s, m) = [d EXCEPT ![s] = e]
          /\ e.input = c.input /\ e.notify = c.notify /\ Len(e.out) <= OutCap
    BY <1>1, EmitEffect
  <2>2. chan' = [chan EXCEPT ![s] = e]
    BY <1>3, <2>1 DEF d, TypeOK
  <2> QED BY <2>1, <2>2, Puts DEF ChanType
<1> QED BY <1>2, <1>3 DEF Sends

\* Every step keeps every variable well typed.
LEMMA TypeStep == TypeOK /\ [Next]_vars => TypeOK'
<1> SUFFICES ASSUME TypeOK, [Next]_vars PROVE TypeOK'
  OBVIOUS
<1>1. ASSUME NEW s \in Subs, Register(s) PROVE TypeOK'
  BY <1>1 DEF TypeOK, registry, writes, Register, Stages
<1>2. ASSUME NEW s \in Subs, Spawn(s) PROVE TypeOK'
  <2>1. WorkerType'
    BY <1>2, SpawnMoves, MovesType
  <2> QED BY <2>1, <1>2
      DEF TypeOK, WorkerType, SeenType, ChanType, registry, writes, Spawn, Stages
<1>3. ASSUME NEW s \in Subs, SpawnFails(s) PROVE TypeOK'
  <2>1. WorkerType'
    BY <1>3, SpawnFailsMoves, MovesType
  <2> QED BY <2>1, <1>3
      DEF TypeOK, WorkerType, SeenType, ChanType, registry, writes, SpawnFails, Stages
<1>4. ASSUME NEW s \in Subs, SetThread(s) PROVE TypeOK'
  BY <1>4 DEF TypeOK, registry, writes, SetThread, Stages
<1>5. ASSUME NEW s \in Subs, NEW t \in Chunks, Feed(s, t) PROVE TypeOK'
  <2>1. PICK c \in Channels : /\ chan' = [chan EXCEPT ![s] = c] /\ Len(c.input) <= InputCap
                               /\ c.notify = chan[s].notify /\ c.out = chan[s].out
    BY <1>5, FeedEffect
  <2>2. Len(c.out) <= OutCap /\ Len(c.notify) <= NotifyCap
    BY <2>1 DEF TypeOK
  <2>3. ChanType'
    BY <2>1, <2>2, Puts DEF ChanType
  <2>4. used'.feeds \in Nat /\ used' \in [feeds : Nat, signals : Nat, fails : Nat]
    BY <1>5 DEF Feed, TypeOK
  <2> QED BY <2>1, <2>2, <2>3, <2>4, <1>5
      DEF TypeOK, WorkerType, SeenType, ChanType, registry, writes, Feed
<1>6. ASSUME NEW s \in Subs, Recv(s) PROVE TypeOK'
  <2>1. SeenType'
    BY <1>6, RecvEffect, Puts DEF SeenType
  <2>2. PICK c \in Channels :
          /\ chan' = [chan EXCEPT ![s] = c] /\ chan[s].out # <<>> /\ c.out = Tail(chan[s].out)
          /\ c.input = chan[s].input /\ c.notify = chan[s].notify
    BY <1>6, RecvEffect
  <2>3. chan[s].out \in Seq(Memories) /\ Len(chan[s].out) <= OutCap
    BY DEF TypeOK, Channels
  <2>4. Len(c.out) <= OutCap
    BY <2>2, <2>3, Capacities
  <2>5. Len(c.input) <= InputCap /\ Len(c.notify) <= NotifyCap
    BY <2>2 DEF TypeOK
  <2>6. ChanType'
    BY <2>2, <2>4, <2>5, Puts DEF ChanType
  <2> QED BY <2>1, <2>2, <2>3, <2>4, <2>5, <2>6, <1>6
      DEF TypeOK, WorkerType, SeenType, ChanType, registry, writes, Recv
<1>7. ASSUME NEW s \in Subs, NEW sig \in Signals, Signal(s, sig) PROVE TypeOK'
  <2>1. ChanType'
    BY <1>7, SignalEffect, ControlType
  <2>2. SeenType'
    BY <1>7, SignalEffect, Puts DEF SeenType
  <2>3. used' \in [feeds : Nat, signals : Nat, fails : Nat]
    BY <1>7 DEF Signal, TypeOK
  <2> QED BY <2>1, <2>2, <2>3, <1>7
      DEF TypeOK, WorkerType, SeenType, ChanType, registry, writes, Signal
<1>8. ASSUME NEW s \in Subs, Close(s) PROVE TypeOK'
  <2>1. ChanType'
    BY <1>8, StopEffect, ControlType, SameTypes DEF Close
  <2> QED BY <2>1, <1>8
      DEF TypeOK, WorkerType, SeenType, ChanType, registry, writes, Close, Stages
<1>9. ASSUME NEW s \in Subs, Joined(s) PROVE TypeOK'
  BY <1>9 DEF TypeOK, registry, writes, Joined, Stages
<1>10. ASSUME NEW s \in Subs, Build(s) PROVE TypeOK'
  <2>1. WorkerType'
    BY <1>10, BuildEffect, Puts DEF WorkerType
  <2>2. SeenType'
    BY <1>10, BuildEffect, Puts DEF SeenType
  <2>3. used' \in [feeds : Nat, signals : Nat, fails : Nat]
    BY <1>10, BuildEffect
  <2> QED BY <2>1, <2>2, <2>3, <1>10
      DEF TypeOK, WorkerType, SeenType, ChanType, registry, writes, Build
<1>11. ASSUME NEW s \in Subs, Shutdown(s) PROVE TypeOK'
  <2>1. WorkerType'
    BY <1>11, ShutdownMoves, MovesType
  <2>2. ChanType'
    BY <1>11, ReceiveEffect, ControlType DEF Signals, Shutdown
  <2> QED BY <2>1, <2>2, <1>11
      DEF TypeOK, WorkerType, SeenType, ChanType, registry, writes, Shutdown
<1>12. ASSUME NEW s \in Subs, PauseOrResume(s) PROVE TypeOK'
  <2>1. WorkerType'
    BY <1>12, PauseEffect, Puts DEF WorkerType
  <2>2. ChanType'
    BY <1>12, ReceiveEffect, ControlType DEF Signals, PauseOrResume
  <2> QED BY <2>1, <2>2, <1>12
      DEF TypeOK, WorkerType, SeenType, ChanType, registry, writes, PauseOrResume
<1>13. ASSUME NEW s \in Subs, ResetDedup(s) PROVE TypeOK'
  <2>1. WorkerType'
    BY <1>13, ResetEffect, Puts DEF WorkerType
  <2>2. ChanType'
    BY <1>13, ReceiveEffect, ControlType DEF Signals, ResetDedup
  <2>3. SeenType'
    BY <1>13, ResetHistory, Puts DEF SeenType
  <2> QED BY <2>1, <2>2, <2>3, <1>13
      DEF TypeOK, WorkerType, SeenType, ChanType, registry, writes, ResetDedup
<1>14. ASSUME NEW s \in Subs, Flush(s) PROVE TypeOK'
  <2>1. WorkerType'
    BY <1>14, FlushMoves, MovesType
  <2>2. ChanType'
    BY <1>14, ReceiveEffect, ControlType DEF Signals, Flush
  <2> QED BY <2>1, <2>2, <1>14
      DEF TypeOK, WorkerType, SeenType, ChanType, registry, writes, Flush
<1>15. ASSUME NEW s \in Subs, TakeText(s) PROVE TypeOK'
  <2>1. WorkerType'
    BY <1>15, TakeTextMoves, MovesType
  <2>2. ChanType'
    <3>1. PICK c \in Channels :
            /\ chan' = [chan EXCEPT ![s] = c] /\ Len(c.input) <= InputCap
            /\ c.notify = chan[s].notify /\ c.out = chan[s].out
      BY <1>15, TakeTextEffect, ZenonT(30)
    <3>2. Len(c.out) <= OutCap /\ Len(c.notify) <= NotifyCap
      BY <3>1 DEF TypeOK
    <3> QED BY <3>1, <3>2, Puts DEF ChanType
  <2> QED BY <2>1, <2>2, <1>15
      DEF TypeOK, WorkerType, SeenType, ChanType, registry, writes, TakeText
<1>16. ASSUME NEW s \in Subs, TakeNotification(s) PROVE TypeOK'
  <2>0. PICK m \in Memories, c \in Channels, v \in Worker, h \in Seen :
          TakesNotice(s, m, c, v, h)
    BY <1>16, NotificationEffect
  <2>1. /\ worker' = [worker EXCEPT ![s] = v] /\ seen' = [seen EXCEPT ![s] = h]
        /\ Len(c.notify) <= NotifyCap /\ c.input = chan[s].input /\ c.out = chan[s].out
        /\ Sends(s, m, [chan EXCEPT ![s] = c], v, h)
    BY <2>0 DEF TakesNotice
  <2>2. WorkerType' /\ SeenType'
    BY <2>1, Puts DEF WorkerType, SeenType
  <2>3. Len(c.input) <= InputCap /\ Len(c.out) <= OutCap
    BY <2>1 DEF TypeOK
  <2>4. ChanType'
    BY <2>1, <2>3, SendsType
  <2> QED BY <2>2, <2>4, <1>16
      DEF TypeOK, WorkerType, SeenType, ChanType, registry, writes,
       TakeNotification
<1>17. ASSUME NEW s \in Subs, Timeout(s) PROVE TypeOK'
  <2>1. WorkerType'
    BY <1>17, TimeoutMoves, MovesType
  <2> QED BY <2>1, <1>17
      DEF TypeOK, WorkerType, SeenType, ChanType, registry, writes, Timeout
<1>18. ASSUME NEW s \in Subs, Push(s) PROVE TypeOK'
  <2>0. PICK m \in Memories, v \in Worker, h \in Seen :
          TakesResult(s, m, v, h)
    BY <1>18, PushEffect
  <2>1. /\ worker' = [worker EXCEPT ![s] = v] /\ seen' = [seen EXCEPT ![s] = h]
        /\ Sends(s, m, chan, v, h)
    BY <2>0 DEF TakesResult
  <2>2. WorkerType' /\ SeenType'
    BY <2>1, Puts DEF WorkerType, SeenType
  <2>3. chan = [chan EXCEPT ![s] = chan[s]] /\ chan[s] \in Channels
    BY DEF TypeOK
  <2>4. /\ Len(chan[s].input) <= InputCap /\ Len(chan[s].out) <= OutCap
        /\ Len(chan[s].notify) <= NotifyCap
    BY DEF TypeOK
  <2>5. ChanType'
    BY <2>1, <2>3, <2>4, SendsType
  <2> QED BY <2>2, <2>5, <1>18
      DEF TypeOK, WorkerType, SeenType, ChanType, registry, writes, Push
<1>19. ASSUME NEW s \in Subs, Searched(s) PROVE TypeOK'
  <2>1. WorkerType'
    BY <1>19, SearchedMoves, MovesType
  <2> QED BY <2>1, <1>19
      DEF TypeOK, WorkerType, SeenType, ChanType, registry, writes, Searched
<1>20. ASSUME NEW s \in Subs, Refresh(s) PROVE TypeOK'
  <2>1. WorkerType'
    BY <1>20, RefreshEffect, Puts DEF WorkerType
  <2>2. SeenType'
    BY <1>20, RefreshEffect, Puts DEF SeenType
  <2>3. used' \in [feeds : Nat, signals : Nat, fails : Nat]
    BY <1>20, RefreshEffect
  <2> QED BY <2>1, <2>2, <2>3, <1>20
      DEF TypeOK, WorkerType, SeenType, ChanType, registry, writes, Refresh
<1>21. ASSUME NEW s \in Subs, DeadlinePasses(s) PROVE TypeOK'
  <2>1. WorkerType'
    BY <1>21, DeadlinePassesMoves, MovesType
  <2> QED BY <2>1, <1>21
      DEF TypeOK, WorkerType, SeenType, ChanType, registry, writes, DeadlinePasses
<1>22. ASSUME NEW s \in Subs, IntervalPasses(s) PROVE TypeOK'
  <2>1. WorkerType'
    BY <1>22, IntervalPassesMoves, MovesType
  <2> QED BY <2>1, <1>22
      DEF TypeOK, WorkerType, SeenType, ChanType, registry, writes, IntervalPasses
<1>23. ASSUME NEW m \in Memories, Remember(m) PROVE TypeOK'
  BY <1>23 DEF TypeOK, registry, writes, Remember
<1>24. ASSUME NEW m \in Memories, Delete(m) PROVE TypeOK'
  BY <1>24 DEF TypeOK, registry, writes, Delete
<1>25. ASSUME NEW m \in Memories, Notify(m) PROVE TypeOK'
  <2>1. ChanType'
    BY <1>25, NotifyEffect DEF ChanType, TypeOK
  <2> QED BY <2>1, <1>25
      DEF TypeOK, WorkerType, SeenType, ChanType, registry, writes, Notify
<1>26. ASSUME ShutdownAll PROVE TypeOK'
  BY <1>26 DEF TypeOK, registry, writes, ShutdownAll
<1>27. ASSUME ShutdownJoined PROVE TypeOK'
  BY <1>27 DEF TypeOK, registry, writes, ShutdownJoined
<1>28. ASSUME ShutdownDone PROVE TypeOK'
  BY <1>28 DEF TypeOK, registry, writes, ShutdownDone
<1>29. ASSUME ShutdownOne PROVE TypeOK'
  <2>1. ChanType'
    <3>1. PICK s \in drain.left : Stop(s)
      BY <1>29 DEF ShutdownOne
    <3>2. s \in Subs
      BY <3>1 DEF TypeOK
    <3> QED BY <3>1, <3>2, StopEffect, ControlType
  <2>2. PICK s \in drain.left :
          /\ joinable' = joinable \ {s}
          /\ drain' = [drain EXCEPT !.left = @ \ {s}, !.join = IF s \in joinable THEN s ELSE None]
    BY <1>29 DEF ShutdownOne
  <2>3. drain' \in [on : {"idle", "running", "done"}, left : SUBSET Subs,
                   join : Subs \cup {None}]
    BY <2>2 DEF TypeOK
  <2>4. UNCHANGED <<entries, stage, db, unwritten, pending, worker, seen, used>>
    BY <1>29 DEF ShutdownOne, writes
  <2> QED BY <2>1, <2>2, <2>3, <2>4 DEF TypeOK, ChanType
<1>30. ASSUME UNCHANGED vars PROVE TypeOK'
  BY <1>30 DEF TypeOK, registry, writes, vars
<1> QED
  BY <1>1, <1>2, <1>3, <1>4, <1>5, <1>6, <1>7, <1>8, <1>9, <1>10, <1>11, <1>12,
     <1>13, <1>14, <1>15, <1>16, <1>17, <1>18, <1>19, <1>20, <1>21, <1>22, <1>23,
     <1>24, <1>25, <1>26, <1>27, <1>28, <1>29, <1>30
  DEF Next, Internal, Create, Work, Time, Draining, Use

-----------------------------------------------------------------------------
(* What a step does to the history of one subscription                     *)

DedupSame(s) == worker'[s].dedup = worker[s].dedup
RingSame(s) == chan'[s].out = chan[s].out /\ chan'[s].drops = chan[s].drops
LogSame(s) == /\ seen'[s].log = seen[s].log /\ seen'[s].epoch = seen[s].epoch
              /\ seen'[s].received = seen[s].received
HistorySame(s) == DedupSame(s) /\ RingSame(s) /\ LogSame(s)
Receives(s) ==
  /\ chan[s].out # <<>> /\ chan'[s].out = Tail(chan[s].out) /\ chan'[s].drops = chan[s].drops
  /\ DedupSame(s) /\ seen'[s].log = seen[s].log /\ seen'[s].epoch = seen[s].epoch
  /\ seen'[s].received = seen[s].received + 1
Resets(s) == /\ RingSame(s) /\ worker'[s].dedup = {}
             /\ seen'[s].log = seen[s].log /\ seen'[s].epoch = Len(seen[s].log)
             /\ seen'[s].received = seen[s].received
Pushes(s, m) ==
  /\ m \notin worker[s].dedup /\ worker'[s].dedup = worker[s].dedup \cup {m}
  /\ seen'[s].log = Append(seen[s].log, m) /\ seen'[s].epoch = seen[s].epoch
  /\ seen'[s].received = seen[s].received
  /\ chan'[s].out = Ring(chan[s].out, m)
  /\ chan'[s].drops = IF Len(chan[s].out) >= OutCap THEN chan[s].drops + 1 ELSE chan[s].drops
HistoryStep(s) == \/ HistorySame(s) \/ Receives(s) \/ Resets(s)
                  \/ \E m \in Memories : Pushes(s, m)

\* A worker that moves keeps its dedup set.
LEMMA MovesHistory ==
  ASSUME TypeOK, NEW r \in Subs, NEW P, Moves(r, P)
  PROVE  \A s \in Subs : DedupSame(s)
BY DEF Moves, Keeps, TypeOK, DedupSame

\* A change of a control queue keeps the rings.
LEMMA ControlHistory ==
  ASSUME TypeOK, NEW r \in Subs, NEW c \in Channels, chan' = [chan EXCEPT ![r] = c],
         KeepsQueues(chan[r], c)
  PROVE  \A s \in Subs : RingSame(s)
BY DEF KeepsQueues, TypeOK, RingSame

\* A push extends the history of its subscription and of no other.
LEMMA SendsHistory ==
  ASSUME TypeOK, NEW r \in Subs, NEW m \in Memories, NEW c \in Channels,
         NEW v \in Worker, NEW h \in Seen, Sends(r, m, [chan EXCEPT ![r] = c], v, h),
         c.out = chan[r].out, c.drops = chan[r].drops,
         worker' = [worker EXCEPT ![r] = v], seen' = [seen EXCEPT ![r] = h],
         h.epoch = seen[r].epoch, h.received = seen[r].received
  PROVE  \A s \in Subs : HistoryStep(s)
<1> DEFINE d == [chan EXCEPT ![r] = c]
<1>1. d \in [Subs -> Channels] /\ d[r] = c /\ \A s \in Subs \ {r} : d[s] = chan[s]
  BY DEF TypeOK
<1>2. /\ worker'[r] = v /\ \A s \in Subs \ {r} : worker'[s] = worker[s]
      /\ seen'[r] = h /\ \A s \in Subs \ {r} : seen'[s] = seen[s]
  BY DEF TypeOK
<1>3. CASE chan' = d /\ v.dedup = worker[r].dedup /\ h.log = seen[r].log
  <2> HIDE DEF d
  <2>1. \A s \in Subs : HistorySame(s)
    BY <1>1, <1>2, <1>3 DEF HistorySame, DedupSame, RingSame, LogSame
  <2> QED BY <2>1 DEF HistoryStep
<1>4. CASE /\ chan' = Emit(d, r, m) /\ m \notin worker[r].dedup
           /\ v.dedup = worker[r].dedup \cup {m} /\ h.log = Append(seen[r].log, m)
  <2> HIDE DEF d
  <2>1. Len(d[r].out) <= OutCap
    BY <1>1 DEF TypeOK
  <2>2. PICK e \in Channels :
          /\ Emit(d, r, m) = [d EXCEPT ![r] = e] /\ e.out = Ring(d[r].out, m)
          /\ e.drops = IF Len(d[r].out) >= OutCap THEN d[r].drops + 1 ELSE d[r].drops
    BY <1>1, <2>1, EmitEffect
  <2>3. chan'[r] = e /\ \A s \in Subs \ {r} : chan'[s] = chan[s]
    BY <1>1, <1>4, <2>2
  <2>4. Pushes(r, m)
    BY <1>1, <1>2, <1>4, <2>2, <2>3 DEF Pushes
  <2>5. \A s \in Subs \ {r} : HistorySame(s)
    BY <1>2, <2>3 DEF HistorySame, DedupSame, RingSame, LogSame
  <2> QED BY <2>4, <2>5 DEF HistoryStep
<1> QED BY <1>3, <1>4 DEF Sends

\* Every step leaves each history alone, receives, resets or pushes.
LEMMA HistoryOfNext ==
  ASSUME TypeOK, [Next]_vars
  PROVE  \A s \in Subs : HistoryStep(s)
<1>1. ASSUME NEW r \in Subs, Register(r) PROVE \A s \in Subs : HistoryStep(s)
  BY <1>1 DEF HistoryStep, HistorySame, DedupSame, RingSame, LogSame, Register
<1>2. ASSUME NEW r \in Subs, SetThread(r) PROVE \A s \in Subs : HistoryStep(s)
  BY <1>2 DEF HistoryStep, HistorySame, DedupSame, RingSame, LogSame, SetThread
<1>3. ASSUME NEW r \in Subs, Joined(r) PROVE \A s \in Subs : HistoryStep(s)
  BY <1>3 DEF HistoryStep, HistorySame, DedupSame, RingSame, LogSame, Joined
<1>4. ASSUME NEW r \in Subs, Spawn(r) PROVE \A s \in Subs : HistoryStep(s)
  <2>1. \A s \in Subs : DedupSame(s)
    BY <1>4, SpawnMoves, MovesHistory
  <2> QED BY <2>1, <1>4 DEF HistoryStep, HistorySame, DedupSame, RingSame, LogSame, Spawn
<1>5. ASSUME NEW r \in Subs, SpawnFails(r) PROVE \A s \in Subs : HistoryStep(s)
  <2>1. \A s \in Subs : DedupSame(s)
    BY <1>5, SpawnFailsMoves, MovesHistory
  <2> QED BY <2>1, <1>5
      DEF HistoryStep, HistorySame, DedupSame, RingSame, LogSame, SpawnFails
<1>6. ASSUME NEW r \in Subs, Timeout(r) PROVE \A s \in Subs : HistoryStep(s)
  <2>1. \A s \in Subs : DedupSame(s)
    BY <1>6, TimeoutMoves, MovesHistory
  <2> QED BY <2>1, <1>6
      DEF HistoryStep, HistorySame, DedupSame, RingSame, LogSame, Timeout
<1>7. ASSUME NEW r \in Subs, Searched(r) PROVE \A s \in Subs : HistoryStep(s)
  <2>1. \A s \in Subs : DedupSame(s)
    BY <1>7, SearchedMoves, MovesHistory
  <2> QED BY <2>1, <1>7
      DEF HistoryStep, HistorySame, DedupSame, RingSame, LogSame, Searched
<1>8. ASSUME NEW r \in Subs, DeadlinePasses(r) PROVE \A s \in Subs : HistoryStep(s)
  <2>1. \A s \in Subs : DedupSame(s)
    BY <1>8, DeadlinePassesMoves, MovesHistory
  <2> QED BY <2>1, <1>8
      DEF HistoryStep, HistorySame, DedupSame, RingSame, LogSame, DeadlinePasses
<1>9. ASSUME NEW r \in Subs, IntervalPasses(r) PROVE \A s \in Subs : HistoryStep(s)
  <2>1. \A s \in Subs : DedupSame(s)
    BY <1>9, IntervalPassesMoves, MovesHistory
  <2> QED BY <2>1, <1>9
      DEF HistoryStep, HistorySame, DedupSame, RingSame, LogSame, IntervalPasses
<1>10. ASSUME NEW r \in Subs, Shutdown(r) PROVE \A s \in Subs : HistoryStep(s)
  <2>1. \A s \in Subs : DedupSame(s)
    BY <1>10, ShutdownMoves, MovesHistory
  <2>2. \A s \in Subs : RingSame(s)
    BY <1>10, ReceiveEffect, ControlHistory DEF Signals, Shutdown
  <2> QED BY <2>1, <2>2, <1>10
      DEF HistoryStep, HistorySame, DedupSame, RingSame, LogSame, Shutdown
<1>11. ASSUME NEW r \in Subs, Flush(r) PROVE \A s \in Subs : HistoryStep(s)
  <2>1. \A s \in Subs : DedupSame(s)
    BY <1>11, FlushMoves, MovesHistory
  <2>2. \A s \in Subs : RingSame(s)
    BY <1>11, ReceiveEffect, ControlHistory DEF Signals, Flush
  <2> QED BY <2>1, <2>2, <1>11
      DEF HistoryStep, HistorySame, DedupSame, RingSame, LogSame, Flush
<1>12. ASSUME NEW r \in Subs, NEW t \in Chunks, Feed(r, t) PROVE \A s \in Subs : HistoryStep(s)
  <2>1. \A s \in Subs : RingSame(s)
    BY <1>12, FeedEffect DEF RingSame, TypeOK
  <2> QED BY <2>1, <1>12 DEF HistoryStep, HistorySame, DedupSame, RingSame, LogSame, Feed
<1>13. ASSUME NEW r \in Subs, TakeText(r) PROVE \A s \in Subs : HistoryStep(s)
  <2>1. \A s \in Subs : DedupSame(s)
    BY <1>13, TakeTextMoves, MovesHistory
  <2>2. \A s \in Subs : RingSame(s)
    BY <1>13, TakeTextEffect DEF RingSame, TypeOK
  <2> QED BY <2>1, <2>2, <1>13
      DEF HistoryStep, HistorySame, DedupSame, RingSame, LogSame, TakeText
<1>14. ASSUME NEW r \in Subs, Build(r) PROVE \A s \in Subs : HistoryStep(s)
  <2>1. \A s \in Subs : DedupSame(s)
    BY <1>14, BuildEffect DEF DedupSame, TypeOK
  <2>2. \A s \in Subs : LogSame(s)
    BY <1>14, BuildEffect DEF LogSame, SameHistory, TypeOK
  <2> QED BY <2>1, <2>2, <1>14 DEF HistoryStep, HistorySame, DedupSame, RingSame, LogSame, Build
<1>15. ASSUME NEW r \in Subs, Refresh(r) PROVE \A s \in Subs : HistoryStep(s)
  <2>1. \A s \in Subs : DedupSame(s)
    BY <1>15, RefreshEffect DEF DedupSame, TypeOK
  <2>2. \A s \in Subs : LogSame(s)
    BY <1>15, RefreshEffect DEF LogSame, SameHistory, TypeOK
  <2> QED BY <2>1, <2>2, <1>15
      DEF HistoryStep, HistorySame, DedupSame, RingSame, LogSame, Refresh
<1>16. ASSUME NEW r \in Subs, PauseOrResume(r) PROVE \A s \in Subs : HistoryStep(s)
  <2>1. \A s \in Subs : DedupSame(s)
    BY <1>16, PauseEffect DEF DedupSame, TypeOK
  <2>2. \A s \in Subs : RingSame(s)
    BY <1>16, ReceiveEffect, ControlHistory DEF Signals, PauseOrResume
  <2> QED BY <2>1, <2>2, <1>16
      DEF HistoryStep, HistorySame, DedupSame, RingSame, LogSame, PauseOrResume
<1>17. ASSUME NEW r \in Subs, ResetDedup(r) PROVE \A s \in Subs : HistoryStep(s)
  <2>1. \A s \in Subs : RingSame(s)
    BY <1>17, ReceiveEffect, ControlHistory DEF Signals, ResetDedup
  <2>2. worker'[r].dedup = {} /\ \A s \in Subs \ {r} : worker'[s] = worker[s]
    BY <1>17, ResetEffect DEF TypeOK
  <2>3. /\ seen'[r].epoch = Len(seen[r].log) /\ seen'[r].log = seen[r].log
        /\ seen'[r].received = seen[r].received
        /\ \A s \in Subs \ {r} : seen'[s] = seen[s]
    BY <1>17, ResetHistory DEF TypeOK
  <2>4. Resets(r)
    BY <2>1, <2>2, <2>3 DEF Resets
  <2>5. \A s \in Subs \ {r} : HistorySame(s)
    BY <2>1, <2>2, <2>3 DEF HistorySame, DedupSame, LogSame
  <2> QED BY <2>4, <2>5 DEF HistoryStep
<1>18. ASSUME NEW r \in Subs, Recv(r) PROVE \A s \in Subs : HistoryStep(s)
  <2>1. /\ chan[r].out # <<>> /\ chan'[r].out = Tail(chan[r].out)
        /\ chan'[r].drops = chan[r].drops
        /\ \A s \in Subs \ {r} : chan'[s] = chan[s]
    BY <1>18, RecvEffect DEF TypeOK
  <2>2. /\ seen'[r].received = seen[r].received + 1 /\ seen'[r].log = seen[r].log
        /\ seen'[r].epoch = seen[r].epoch
        /\ \A s \in Subs \ {r} : seen'[s] = seen[s]
    BY <1>18, RecvEffect DEF TypeOK
  <2>3. \A s \in Subs : DedupSame(s)
    BY <1>18 DEF Recv, DedupSame
  <2>4. Receives(r)
    BY <2>1, <2>2, <2>3 DEF Receives
  <2>5. \A s \in Subs \ {r} : HistorySame(s)
    BY <2>1, <2>2, <2>3 DEF HistorySame, RingSame, LogSame
  <2> QED BY <2>4, <2>5 DEF HistoryStep
<1>19. ASSUME NEW r \in Subs, NEW sig \in Signals, Signal(r, sig) PROVE \A s \in Subs : HistoryStep(s)
  <2>1. \A s \in Subs : RingSame(s)
    BY <1>19, SignalEffect, ControlHistory
  <2>2. \A s \in Subs : LogSame(s)
    BY <1>19, SignalEffect DEF LogSame, KeepsLog, TypeOK
  <2> QED BY <2>1, <2>2, <1>19
      DEF HistoryStep, HistorySame, DedupSame, RingSame, LogSame, Signal
<1>20. ASSUME NEW r \in Subs, Close(r) PROVE \A s \in Subs : HistoryStep(s)
  <2>1. CASE Stop(r)
    <3>1. \A s \in Subs : RingSame(s)
      BY <2>1, StopEffect, ControlHistory
    <3> QED BY <3>1, <1>20
        DEF HistoryStep, HistorySame, DedupSame, RingSame, LogSame, Close
  <2>2. CASE UNCHANGED chan
    BY <2>2, <1>20 DEF HistoryStep, HistorySame, DedupSame, RingSame, LogSame, Close
  <2> QED BY <2>1, <2>2, <1>20 DEF Close
<1>21. ASSUME NEW r \in Subs, Push(r) PROVE \A s \in Subs : HistoryStep(s)
  <2>0. PICK m \in Memories, v \in Worker, h \in Seen :
          TakesResult(r, m, v, h)
    BY <1>21, PushEffect
  <2>1. /\ worker' = [worker EXCEPT ![r] = v] /\ seen' = [seen EXCEPT ![r] = h]
        /\ h.epoch = seen[r].epoch /\ h.received = seen[r].received
        /\ Sends(r, m, chan, v, h)
    BY <2>0 DEF TakesResult
  <2>2. chan = [chan EXCEPT ![r] = chan[r]] /\ chan[r] \in Channels
    BY DEF TypeOK
  <2>3. Sends(r, m, [chan EXCEPT ![r] = chan[r]], v, h)
    BY <2>1, <2>2
  <2> QED BY <2>1, <2>2, <2>3, SendsHistory
<1>22. ASSUME NEW r \in Subs, TakeNotification(r) PROVE \A s \in Subs : HistoryStep(s)
  <2>0. PICK m \in Memories, c \in Channels, v \in Worker, h \in Seen :
          TakesNotice(r, m, c, v, h)
    BY <1>22, NotificationEffect
  <2>1. /\ worker' = [worker EXCEPT ![r] = v] /\ seen' = [seen EXCEPT ![r] = h]
        /\ h.epoch = seen[r].epoch /\ h.received = seen[r].received
        /\ c.out = chan[r].out /\ c.drops = chan[r].drops
        /\ Sends(r, m, [chan EXCEPT ![r] = c], v, h)
    BY <2>0 DEF TakesNotice
  <2> QED BY <2>1, SendsHistory
<1>23. ASSUME NEW m \in Memories, Remember(m) PROVE \A s \in Subs : HistoryStep(s)
  BY <1>23 DEF HistoryStep, HistorySame, DedupSame, RingSame, LogSame, Remember
<1>24. ASSUME NEW m \in Memories, Delete(m) PROVE \A s \in Subs : HistoryStep(s)
  BY <1>24 DEF HistoryStep, HistorySame, DedupSame, RingSame, LogSame, Delete
<1>25. ASSUME NEW m \in Memories, Notify(m) PROVE \A s \in Subs : HistoryStep(s)
  <2>1. \A s \in Subs : RingSame(s)
    BY <1>25, NotifyEffect DEF RingSame
  <2> QED BY <2>1, <1>25
      DEF HistoryStep, HistorySame, DedupSame, RingSame, LogSame, Notify
<1>26. ASSUME ShutdownAll PROVE \A s \in Subs : HistoryStep(s)
  BY <1>26 DEF HistoryStep, HistorySame, DedupSame, RingSame, LogSame, ShutdownAll
<1>27. ASSUME ShutdownJoined PROVE \A s \in Subs : HistoryStep(s)
  BY <1>27 DEF HistoryStep, HistorySame, DedupSame, RingSame, LogSame, ShutdownJoined
<1>28. ASSUME ShutdownDone PROVE \A s \in Subs : HistoryStep(s)
  BY <1>28 DEF HistoryStep, HistorySame, DedupSame, RingSame, LogSame, ShutdownDone
<1>29. ASSUME ShutdownOne PROVE \A s \in Subs : HistoryStep(s)
  <2>1. PICK r \in drain.left : Stop(r)
    BY <1>29 DEF ShutdownOne
  <2>2. r \in Subs
    BY <2>1 DEF TypeOK
  <2>3. \A s \in Subs : RingSame(s)
    BY <2>1, <2>2, StopEffect, ControlHistory
  <2> QED BY <2>3, <1>29
      DEF HistoryStep, HistorySame, DedupSame, RingSame, LogSame, ShutdownOne
<1>30. ASSUME UNCHANGED vars PROVE \A s \in Subs : HistoryStep(s)
  BY <1>30 DEF HistoryStep, HistorySame, DedupSame, RingSame, LogSame, vars
<1> QED
  BY <1>1, <1>2, <1>3, <1>4, <1>5, <1>6, <1>7, <1>8, <1>9, <1>10, <1>11, <1>12,
     <1>13, <1>14, <1>15, <1>16, <1>17, <1>18, <1>19, <1>20, <1>21, <1>22, <1>23,
     <1>24, <1>25, <1>26, <1>27, <1>28, <1>29, <1>30
  DEF Next, Internal, Create, Work, Time, Draining, Use

-----------------------------------------------------------------------------
(* The theorems                                                            *)

\* Every variable keeps its type and no bounded queue outgrows its capacity:
\* whatever the threads do, in any order, for any number of them.
THEOREM TypeCorrect == Spec => []TypeOK
<1> USE TypeInit, TypeStep
<1> QED BY PTL DEF Spec

\* What was pushed since the last reset is in the set that Unsent consults,
\* which is why neither path pushes it again.
Remembered(s) ==
  /\ seen[s].epoch <= Len(seen[s].log)
  /\ \A i \in (seen[s].epoch + 1) .. Len(seen[s].log) : seen[s].log[i] \in worker[s].dedup
  /\ \A i, j \in (seen[s].epoch + 1) .. Len(seen[s].log) :
       seen[s].log[i] = seen[s].log[j] => i = j
RepeatInv == \A s \in Subs : Remembered(s)

\* Each of these keeps what was pushed in this epoch in the dedup set.
LEMMA RememberedStep ==
  ASSUME TypeOK, NEW s \in Subs, Remembered(s), HistoryStep(s)
  PROVE  Remembered(s)'
<1> USE DEF TypeOK, Seen
<1>1. CASE HistorySame(s)
  BY <1>1 DEF Remembered, HistorySame, DedupSame, LogSame
<1>2. CASE Receives(s)
  BY <1>2 DEF Remembered, Receives, DedupSame
<1>3. CASE Resets(s)
  BY <1>3 DEF Remembered, Resets
<1>4. ASSUME NEW m \in Memories, Pushes(s, m) PROVE Remembered(s)'
  <2> DEFINE log == seen[s].log
             e == seen[s].epoch
  <2>1. log \in Seq(Memories) /\ e \in Nat
    OBVIOUS
  <2>2. /\ seen'[s].log = Append(log, m) /\ seen'[s].epoch = e
        /\ worker'[s].dedup = worker[s].dedup \cup {m} /\ m \notin worker[s].dedup
    BY <1>4 DEF Pushes
  <2>3. /\ e <= Len(log) /\ \A i \in (e + 1) .. Len(log) : log[i] \in worker[s].dedup
        /\ \A i, j \in (e + 1) .. Len(log) : log[i] = log[j] => i = j
    BY DEF Remembered
  <2> HIDE DEF log, e
  <2>4. /\ Len(Append(log, m)) = Len(log) + 1 /\ Append(log, m)[Len(log) + 1] = m
        /\ \A i \in 1 .. Len(log) : Append(log, m)[i] = log[i]
    BY <2>1
  <2>5. \A i \in (e + 1) .. Len(log) : Append(log, m)[i] = log[i] /\ log[i] # m
    BY <2>1, <2>2, <2>3, <2>4
  <2>6. \A i \in (e + 1) .. (Len(log) + 1) : i \in (e + 1) .. Len(log) \/ i = Len(log) + 1
    BY <2>1
  <2>7. \A i \in (e + 1) .. (Len(log) + 1) :
          Append(log, m)[i] \in worker[s].dedup \cup {m}
    BY <2>3, <2>4, <2>5, <2>6
  <2>8. \A i, j \in (e + 1) .. (Len(log) + 1) :
          Append(log, m)[i] = Append(log, m)[j] => i = j
    BY <2>3, <2>4, <2>5, <2>6
  <2>9. e <= Len(log) + 1
    BY <2>1, <2>3
  <2> QED BY <2>2, <2>4, <2>7, <2>8, <2>9 DEF Remembered
<1> QED BY <1>1, <1>2, <1>3, <1>4 DEF HistoryStep

\* Between two resets of its dedup set a subscription pushes no memory twice,
\* by whichever of the two paths, whatever is deleted, fed or broadcast.
THEOREM NeverTwice == Spec => []NoRepeat
<1>1. Init => TypeOK /\ RepeatInv
  <2>1. Init => RepeatInv
    BY DEF Init, RepeatInv, Remembered
  <2> QED BY <2>1, TypeInit
<1>2. TypeOK /\ RepeatInv /\ [Next]_vars => TypeOK' /\ RepeatInv'
  <2>1. ASSUME TypeOK, RepeatInv, [Next]_vars PROVE RepeatInv'
    <3>1. \A s \in Subs : HistoryStep(s)
      BY <2>1, HistoryOfNext
    <3> QED BY <2>1, <3>1, RememberedStep DEF RepeatInv
  <2> QED BY <2>1, TypeStep
<1>3. RepeatInv => NoRepeat
  BY DEF RepeatInv, Remembered, NoRepeat
<1> QED BY <1>1, <1>2, <1>3, PTL DEF Spec

\* Every push is in the ring, was received or was dropped, and the ring holds
\* the last of them in order.
Accounted(s) ==
  LET gone == seen[s].received + chan[s].drops
  IN  /\ Len(chan[s].out) + gone = Len(seen[s].log)
      /\ \A i \in 1 .. Len(chan[s].out) : chan[s].out[i] = seen[s].log[gone + i]
AccountInv == \A s \in Subs : Accounted(s)

\* Each of these keeps every push in the ring, received or dropped.
LEMMA AccountedStep ==
  ASSUME TypeOK, NEW s \in Subs, Accounted(s), HistoryStep(s)
  PROVE  Accounted(s)'
<1> DEFINE log == seen[s].log
           out == chan[s].out
           r == seen[s].received
           d == chan[s].drops
<1>1. /\ log \in Seq(Memories) /\ out \in Seq(Memories) /\ r \in Nat /\ d \in Nat
      /\ Len(out) <= OutCap /\ OutCap \in Nat \ {0}
  BY Capacities DEF TypeOK, Seen, Channels
<1>2. \A i \in 1 .. Len(out) : out[i] = log[r + d + i]
  BY DEF Accounted
<1>n. /\ Len(out) + (r + d) = Len(log) /\ Len(out) \in Nat /\ Len(log) \in Nat
      /\ r \in Nat /\ d \in Nat
  BY <1>1 DEF Accounted
<1>3. CASE HistorySame(s)
  BY <1>3 DEF Accounted, HistorySame, RingSame, LogSame
<1>4. CASE Resets(s)
  BY <1>4 DEF Accounted, Resets, RingSame
<1>5. CASE Receives(s)
  <2>1. /\ out # <<>> /\ chan'[s].out = Tail(out) /\ chan'[s].drops = d
        /\ seen'[s].log = log /\ seen'[s].received = r + 1
    BY <1>5 DEF Receives
  <2> HIDE DEF log, out, r, d
  <2>2. /\ Len(Tail(out)) = Len(out) - 1
        /\ \A i \in 1 .. (Len(out) - 1) : Tail(out)[i] = out[i + 1]
    BY <1>1, <2>1
  <2>3. \A i \in 1 .. (Len(out) - 1) : Tail(out)[i] = log[r + 1 + d + i]
    <3> TAKE i \in 1 .. (Len(out) - 1)
    <3>1. i + 1 \in 1 .. Len(out) /\ r + d + (i + 1) = r + 1 + d + i
      BY <1>n
    <3> QED BY <1>2, <2>2, <3>1
  <2>4. Len(Tail(out)) + (r + 1 + d) = Len(log)
    <3>1. Len(Tail(out)) = Len(out) - 1
      BY <2>2
    <3>2. Len(out) - 1 + (r + 1 + d) = Len(log)
      BY <1>n
    <3> QED BY <3>1, <3>2
  <2> QED BY <2>1, <2>2, <2>3, <2>4 DEF Accounted
<1>6. ASSUME NEW m \in Memories, Pushes(s, m) PROVE Accounted(s)'
  <2>1. /\ chan'[s].out = Ring(out, m) /\ seen'[s].log = Append(log, m)
        /\ seen'[s].received = r
        /\ chan'[s].drops = IF Len(out) >= OutCap THEN d + 1 ELSE d
    BY <1>6 DEF Pushes
  <2> HIDE DEF log, out, r, d
  <2>2. /\ Len(Append(log, m)) = Len(log) + 1 /\ Append(log, m)[Len(log) + 1] = m
        /\ \A i \in 1 .. Len(log) : Append(log, m)[i] = log[i]
    BY <1>1
  <2>3. CASE Len(out) >= OutCap
    <3> DEFINE t == Tail(out)
    <3>1. Ring(out, m) = Append(t, m) /\ chan'[s].drops = d + 1
      BY <2>1, <2>3 DEF Ring
    <3>2. /\ t \in Seq(Memories) /\ Len(t) = Len(out) - 1 /\ Len(out) >= 1
          /\ \A i \in 1 .. (Len(out) - 1) : t[i] = out[i + 1]
      BY <1>1, <2>3
    <3> HIDE DEF t
    <3>3. /\ Len(Append(t, m)) = Len(out) /\ Append(t, m)[Len(out)] = m
          /\ \A i \in 1 .. (Len(out) - 1) : Append(t, m)[i] = out[i + 1]
      BY <1>1, <3>2
    <3>4. \A i \in 1 .. Len(out) : Append(t, m)[i] = Append(log, m)[r + (d + 1) + i]
      <4> TAKE i \in 1 .. Len(out)
      <4>1. CASE i = Len(out)
        <5>1. r + (d + 1) + i = Len(log) + 1
          BY <1>n, <4>1
        <5> QED BY <2>2, <3>3, <4>1, <5>1
      <4>2. CASE i \in 1 .. (Len(out) - 1)
        <5>1. /\ i + 1 \in 1 .. Len(out) /\ r + (d + 1) + i = r + d + (i + 1)
              /\ r + d + (i + 1) \in 1 .. Len(log)
          BY <1>n, <4>2
        <5> QED BY <1>2, <2>2, <3>3, <4>2, <5>1
      <4>3. i = Len(out) \/ i \in 1 .. (Len(out) - 1)
        BY <1>n
      <4> QED BY <4>1, <4>2, <4>3
    <3>5. Len(Append(t, m)) + (r + (d + 1)) = Len(Append(log, m))
      <4>1. Len(Append(t, m)) = Len(out) /\ Len(Append(log, m)) = Len(log) + 1
        BY <2>2, <3>3
      <4> QED BY <1>n, <4>1
    <3> QED BY <2>1, <3>1, <3>3, <3>4, <3>5 DEF Accounted
  <2>4. CASE Len(out) < OutCap
    <3>1. Ring(out, m) = Append(out, m) /\ chan'[s].drops = d
      BY <1>1, <2>1, <2>4 DEF Ring
    <3>2. /\ Len(Append(out, m)) = Len(out) + 1 /\ Append(out, m)[Len(out) + 1] = m
          /\ \A i \in 1 .. Len(out) : Append(out, m)[i] = out[i]
      BY <1>1
    <3>3. \A i \in 1 .. (Len(out) + 1) : Append(out, m)[i] = Append(log, m)[r + d + i]
      <4> TAKE i \in 1 .. (Len(out) + 1)
      <4>1. CASE i = Len(out) + 1
        <5>1. r + d + i = Len(log) + 1
          BY <1>n, <4>1
        <5> QED BY <2>2, <3>2, <4>1, <5>1
      <4>2. CASE i \in 1 .. Len(out)
        <5>1. r + d + i \in 1 .. Len(log)
          BY <1>n, <4>2
        <5> QED BY <1>2, <2>2, <3>2, <4>2, <5>1
      <4> QED BY <1>n, <4>1, <4>2
    <3>4. Len(Append(out, m)) + (r + d) = Len(Append(log, m))
      <4>1. Len(Append(out, m)) = Len(out) + 1 /\ Len(Append(log, m)) = Len(log) + 1
        BY <2>2, <3>2
      <4> QED BY <1>n, <4>1
    <3>5. \A i \in 1 .. Len(Append(out, m)) : Append(out, m)[i] = Append(log, m)[r + d + i]
      BY <3>2, <3>3
    <3> QED BY <2>1, <3>1, <3>4, <3>5 DEF Accounted
  <2>5. Len(out) >= OutCap \/ Len(out) < OutCap
    BY <1>n, Capacities
  <2> QED BY <2>3, <2>4, <2>5
<1> QED BY <1>3, <1>4, <1>5, <1>6 DEF HistoryStep

\* The ring is the end of the history that was neither received nor dropped,
\* for any capacity and any interleaving of the worker with its reader.
THEOREM RingKeepsNewest == Spec => []NewestKept
<1>1. Init => TypeOK /\ AccountInv
  <2>1. Init => AccountInv
    BY DEF Init, AccountInv, Accounted
  <2> QED BY <2>1, TypeInit
<1>2. TypeOK /\ AccountInv /\ [Next]_vars => TypeOK' /\ AccountInv'
  <2>1. ASSUME TypeOK, AccountInv, [Next]_vars PROVE AccountInv'
    <3>1. \A s \in Subs : HistoryStep(s)
      BY <2>1, HistoryOfNext
    <3> QED BY <2>1, <3>1, AccountedStep DEF AccountInv
  <2> QED BY <2>1, TypeStep
<1>3. TypeOK /\ AccountInv => NewestKept
  <2> SUFFICES ASSUME TypeOK, AccountInv, NEW s \in Subs
               PROVE  chan[s].out = SubSeq(seen[s].log,
                        seen[s].received + chan[s].drops + 1, Len(seen[s].log))
    BY DEF NewestKept
  <2> DEFINE log == seen[s].log
             out == chan[s].out
             gone == seen[s].received + chan[s].drops
             rest == SubSeq(log, gone + 1, Len(log))
  <2>1. /\ seen[s] \in Seen /\ chan[s] \in Channels
    BY DEF TypeOK
  <2>2. log \in Seq(Memories) /\ out \in Seq(Memories) /\ gone \in Nat
    <3>1. log \in Seq(Memories) /\ seen[s].received \in Nat
      BY <2>1 DEF Seen
    <3>2. out \in Seq(Memories) /\ chan[s].drops \in Nat
      BY <2>1 DEF Channels
    <3> QED BY <3>1, <3>2
  <2>3. Len(out) + gone = Len(log) /\ \A i \in 1 .. Len(out) : out[i] = log[gone + i]
    BY DEF AccountInv, Accounted
  <2> HIDE DEF log, out, gone
  <2>4. Len(log) - (gone + 1) + 1 = Len(out) /\ Len(log) \in Nat /\ Len(out) \in Nat
    BY <2>2, <2>3
  <2>5. /\ rest \in Seq(Memories)
        /\ Len(rest) = IF gone + 1 <= Len(log) THEN Len(log) - (gone + 1) + 1 ELSE 0
        /\ \A i \in 1 .. (Len(log) - (gone + 1) + 1) : rest[i] = log[gone + 1 + i - 1]
    <3>1. \A i \in (gone + 1) .. Len(log) : i \in 1 .. Len(log)
      BY <2>2, <2>4
    <3> QED BY <2>2, <2>4, <3>1, SubSeqProperties
  <2>6. Len(rest) = Len(out)
    BY <2>2, <2>3, <2>4, <2>5
  <2>7. \A i \in 1 .. Len(out) : rest[i] = out[i]
    <3> TAKE i \in 1 .. Len(out)
    <3>1. gone + 1 + i - 1 = gone + i
      BY <2>2, <2>4
    <3> QED BY <2>3, <2>4, <2>5, <3>1
  <2> HIDE DEF rest
  <2>8. rest = out
    BY <2>2, <2>5, <2>6, <2>7, SeqEqual
  <2> QED BY <2>8 DEF log, out, gone, rest
<1> QED BY <1>1, <1>2, <1>3, PTL DEF Spec

-----------------------------------------------------------------------------
(* No worker is left behind                                                *)

HasStop(s) == \E i \in 1 .. Len(chan[s].control) : chan[s].control[i] = "shutdown"
Told(s) == s \in entries \cup drain.left \/ HasStop(s)
\* A worker to come is watched as one that runs: the engine may shut down
\* between the registration and the start of the thread.
Watched(s) ==
  /\ stage[s] \in {"new", "registered"} => worker[s].pc = "none"
  /\ stage[s] = "registered" \/ worker[s].pc \notin {"none", "exited"} => Told(s)
OrphanInv == /\ drain.on = "idle" => drain.left = {}
             /\ \A s \in Subs : Watched(s)

StopKept(s) == HasStop(s) => HasStop(s)' \/ worker'[s].pc = "exited"
PlaceKept(s) == worker'[s].pc = worker[s].pc \/ worker[s].pc \notin {"none", "exited"}

\* A step that leaves the registry alone and loses no Shutdown keeps all watched.
LEMMA SteadyWatched ==
  ASSUME UNCHANGED <<entries, stage, drain>>, OrphanInv,
         \A s \in Subs : StopKept(s) /\ PlaceKept(s)
  PROVE  OrphanInv'
<1>1. (drain.on = "idle" => drain.left = {})'
  BY DEF OrphanInv
<1>2. ASSUME NEW s \in Subs PROVE Watched(s)'
  <2>1. Watched(s) /\ StopKept(s) /\ PlaceKept(s)
    BY <1>2 DEF OrphanInv
  <2>2. stage'[s] = stage[s] /\ entries' \cup drain'.left = entries \cup drain.left
    OBVIOUS
  <2> QED BY <2>1, <2>2 DEF Watched, StopKept, PlaceKept, Told
<1> QED BY <1>1, <1>2 DEF OrphanInv

\* A running worker that moves is no other worker's business.
LEMMA MovesPlace ==
  ASSUME TypeOK, NEW r \in Subs, NEW P, Moves(r, P),
         worker[r].pc \notin {"none", "exited"}
  PROVE  \A s \in Subs : PlaceKept(s)
BY DEF Moves, TypeOK, PlaceKept

\* A worker that moves nowhere keeps its place.
LEMMA MovesNowhere ==
  ASSUME TypeOK, NEW r \in Subs, Moves(r, {worker[r].pc})
  PROVE  \A s \in Subs : PlaceKept(s)
BY DEF Moves, TypeOK, PlaceKept

\* Where no control queue changes, no Shutdown is lost.
LEMMA SameControl ==
  ASSUME \A s \in Subs : chan'[s].control = chan[s].control
  PROVE  \A s \in Subs : StopKept(s)
BY DEF StopKept, HasStop

\* Sending a signal takes none away; after a Shutdown there is one.
LEMMA SendKeepsStop ==
  ASSUME TypeOK, NEW r \in Subs, NEW sig \in Signals, NEW c \in Channels,
         chan' = [chan EXCEPT ![r] = c], c.control = Append(chan[r].control, sig)
  PROVE  /\ \A s \in Subs : HasStop(s) => HasStop(s)'
         /\ sig = "shutdown" => HasStop(r)'
<1> DEFINE q == chan[r].control
<1>1. q \in Seq(Signals) /\ chan'[r].control = Append(q, sig)
  BY DEF TypeOK, Channels
<1>2. \A s \in Subs \ {r} : chan'[s] = chan[s]
  BY DEF TypeOK
<1> HIDE DEF q
<1>3. /\ Len(Append(q, sig)) = Len(q) + 1 /\ Append(q, sig)[Len(q) + 1] = sig
      /\ \A i \in 1 .. Len(q) : Append(q, sig)[i] = q[i]
  BY <1>1
<1>4. /\ Len(q) + 1 \in 1 .. (Len(q) + 1)
      /\ \A i \in 1 .. Len(q) : i \in 1 .. (Len(q) + 1)
  BY <1>1
<1>5. (\E i \in 1 .. Len(q) : q[i] = "shutdown") => HasStop(r)'
  BY <1>1, <1>3, <1>4 DEF HasStop
<1>6. HasStop(r) => HasStop(r)'
  BY <1>5 DEF HasStop, q
<1>7. \A s \in Subs \ {r} : HasStop(s) => HasStop(s)'
  BY <1>2 DEF HasStop
<1>8. sig = "shutdown" => HasStop(r)'
  BY <1>1, <1>3, <1>4 DEF HasStop
<1> QED BY <1>6, <1>7, <1>8

\* Taking another signal leaves a Shutdown in the queue.
LEMMA ReceiveKeepsStop ==
  ASSUME TypeOK, NEW r \in Subs, NEW sig \in Signals, Receive(r, sig),
         sig # "shutdown"
  PROVE  \A s \in Subs : StopKept(s)
<1> DEFINE q == chan[r].control
<1>1. /\ q \in Seq(Signals) /\ q # <<>> /\ Head(q) = sig /\ chan'[r].control = Tail(q)
      /\ \A s \in Subs \ {r} : chan'[s] = chan[s]
  BY ReceiveEffect DEF TypeOK
<1> HIDE DEF q
<1>2. /\ Len(Tail(q)) = Len(q) - 1 /\ q[1] = sig
      /\ \A i \in 1 .. (Len(q) - 1) : Tail(q)[i] = q[i + 1]
  BY <1>1
<1>3. ASSUME NEW i \in 1 .. Len(q), q[i] = "shutdown" PROVE HasStop(r)'
  <2>1. i - 1 \in 1 .. (Len(q) - 1) /\ (i - 1) + 1 = i
    BY <1>1, <1>2, <1>3
  <2>2. Tail(q)[i - 1] = "shutdown" /\ i - 1 \in 1 .. Len(Tail(q))
    BY <1>2, <1>3, <2>1
  <2> QED BY <1>1, <2>2 DEF HasStop
<1>4. HasStop(r) => HasStop(r)'
  BY <1>3 DEF HasStop, q
<1>5. \A s \in Subs \ {r} : HasStop(s) => HasStop(s)'
  BY <1>1 DEF HasStop
<1> QED BY <1>4, <1>5 DEF StopKept

\* A push leaves the control queues alone.
LEMMA SendsControl ==
  ASSUME TypeOK, NEW r \in Subs, NEW m \in Memories, NEW c \in Channels,
         NEW v \in Worker, NEW h \in Seen, Sends(r, m, [chan EXCEPT ![r] = c], v, h),
         c.control = chan[r].control, c.out = chan[r].out
  PROVE  \A s \in Subs : chan'[s].control = chan[s].control
<1> DEFINE d == [chan EXCEPT ![r] = c]
<1>1. d \in [Subs -> Channels] /\ \A s \in Subs : d[s].control = chan[s].control
  BY DEF TypeOK
<1>2. Len(d[r].out) <= OutCap
  BY DEF TypeOK
<1>3. CASE chan' = d
  BY <1>1, <1>3
<1>4. CASE chan' = Emit(d, r, m)
  <2> HIDE DEF d
  <2>1. PICK e \in Channels :
          Emit(d, r, m) = [d EXCEPT ![r] = e] /\ e.control = d[r].control
    BY <1>1, <1>2, EmitEffect
  <2> QED BY <1>1, <1>4, <2>1
<1> QED BY <1>3, <1>4 DEF Sends

\* Every step keeps every worker watched.
LEMMA OrphanStep == TypeOK /\ OrphanInv /\ [Next]_vars => OrphanInv'
<1> SUFFICES ASSUME TypeOK, OrphanInv, [Next]_vars PROVE OrphanInv'
  OBVIOUS
<1>1. ASSUME NEW r \in Subs, Timeout(r) PROVE OrphanInv'
  <2>1. \A s \in Subs : PlaceKept(s)
    BY <1>1, TimeoutMoves, MovesPlace DEF Timeout, Selecting
  <2>2. \A s \in Subs : StopKept(s)
    BY <1>1, SameControl DEF Timeout
  <2> QED BY <2>1, <2>2, <1>1, SteadyWatched DEF registry, Timeout
<1>2. ASSUME NEW r \in Subs, Searched(r) PROVE OrphanInv'
  <2>1. \A s \in Subs : PlaceKept(s)
    BY <1>2, SearchedMoves, MovesPlace DEF Searched
  <2>2. \A s \in Subs : StopKept(s)
    BY <1>2, SameControl DEF Searched
  <2> QED BY <2>1, <2>2, <1>2, SteadyWatched DEF registry, Searched
<1>3. ASSUME NEW r \in Subs, DeadlinePasses(r) PROVE OrphanInv'
  <2>1. \A s \in Subs : PlaceKept(s)
    BY <1>3, DeadlinePassesMoves, MovesNowhere
  <2>2. \A s \in Subs : StopKept(s)
    BY <1>3, SameControl DEF DeadlinePasses
  <2> QED BY <2>1, <2>2, <1>3, SteadyWatched DEF registry, DeadlinePasses
<1>4. ASSUME NEW r \in Subs, IntervalPasses(r) PROVE OrphanInv'
  <2>1. \A s \in Subs : PlaceKept(s)
    BY <1>4, IntervalPassesMoves, MovesNowhere
  <2>2. \A s \in Subs : StopKept(s)
    BY <1>4, SameControl DEF IntervalPasses
  <2> QED BY <2>1, <2>2, <1>4, SteadyWatched DEF registry, IntervalPasses
<1>5. ASSUME NEW r \in Subs, Build(r) PROVE OrphanInv'
  <2>1. \A s \in Subs : PlaceKept(s)
    BY <1>5, BuildEffect DEF PlaceKept, TypeOK, Build
  <2>2. \A s \in Subs : StopKept(s)
    BY <1>5, SameControl DEF Build
  <2> QED BY <2>1, <2>2, <1>5, SteadyWatched DEF registry, Build
<1>6. ASSUME NEW r \in Subs, Refresh(r) PROVE OrphanInv'
  <2>1. \A s \in Subs : PlaceKept(s)
    <3>1. worker[r].pc = "tail"
      BY <1>6 DEF Refresh
    <3>2. PICK v \in Worker : worker' = [worker EXCEPT ![r] = v]
      BY <1>6, RefreshEffect
    <3> QED BY <3>1, <3>2 DEF PlaceKept, TypeOK
  <2>2. \A s \in Subs : StopKept(s)
    BY <1>6, SameControl DEF Refresh
  <2> QED BY <2>1, <2>2, <1>6, SteadyWatched DEF registry, Refresh
<1>7. ASSUME NEW r \in Subs, TakeText(r) PROVE OrphanInv'
  <2>1. \A s \in Subs : PlaceKept(s)
    BY <1>7, TakeTextMoves, MovesPlace DEF TakeText, Selecting
  <2>2. \A s \in Subs : StopKept(s)
    BY <1>7, TakeTextEffect, SameControl DEF TypeOK
  <2> QED BY <2>1, <2>2, <1>7, SteadyWatched DEF registry, TakeText
<1>8. ASSUME NEW r \in Subs, NEW t \in Chunks, Feed(r, t) PROVE OrphanInv'
  <2>1. \A s \in Subs : PlaceKept(s)
    BY <1>8 DEF PlaceKept, Feed
  <2>2. \A s \in Subs : StopKept(s)
    BY <1>8, FeedEffect, SameControl DEF TypeOK
  <2> QED BY <2>1, <2>2, <1>8, SteadyWatched DEF registry, Feed
<1>9. ASSUME NEW r \in Subs, Recv(r) PROVE OrphanInv'
  <2>1. \A s \in Subs : PlaceKept(s)
    BY <1>9 DEF PlaceKept, Recv
  <2>2. \A s \in Subs : StopKept(s)
    BY <1>9, RecvEffect, SameControl DEF TypeOK
  <2> QED BY <2>1, <2>2, <1>9, SteadyWatched DEF registry, Recv
<1>10. ASSUME NEW r \in Subs, NEW sig \in Signals, Signal(r, sig) PROVE OrphanInv'
  <2>1. \A s \in Subs : PlaceKept(s)
    BY <1>10 DEF PlaceKept, Signal
  <2>2. \A s \in Subs : StopKept(s)
    BY <1>10, SignalEffect, SendKeepsStop DEF StopKept
  <2> QED BY <2>1, <2>2, <1>10, SteadyWatched DEF registry, Signal
<1>11. ASSUME NEW r \in Subs, Flush(r) PROVE OrphanInv'
  <2>1. \A s \in Subs : PlaceKept(s)
    BY <1>11, FlushMoves, MovesPlace DEF Flush
  <2>2. \A s \in Subs : StopKept(s)
    BY <1>11, ReceiveKeepsStop DEF Flush, Signals
  <2> QED BY <2>1, <2>2, <1>11, SteadyWatched DEF registry, Flush
<1>12. ASSUME NEW r \in Subs, ResetDedup(r) PROVE OrphanInv'
  <2>1. \A s \in Subs : PlaceKept(s)
    BY <1>12, ResetEffect DEF PlaceKept, TypeOK
  <2>2. \A s \in Subs : StopKept(s)
    BY <1>12, ReceiveKeepsStop DEF ResetDedup, Signals
  <2> QED BY <2>1, <2>2, <1>12, SteadyWatched DEF registry, ResetDedup
<1>13. ASSUME NEW r \in Subs, PauseOrResume(r) PROVE OrphanInv'
  <2>1. \A s \in Subs : PlaceKept(s)
    BY <1>13, PauseEffect DEF PlaceKept, TypeOK, PauseOrResume
  <2>2. \A s \in Subs : StopKept(s)
    BY <1>13, ReceiveKeepsStop DEF PauseOrResume, Signals
  <2> QED BY <2>1, <2>2, <1>13, SteadyWatched DEF registry, PauseOrResume
<1>14. ASSUME NEW r \in Subs, Shutdown(r) PROVE OrphanInv'
  <2>1. \A s \in Subs : PlaceKept(s)
    BY <1>14, ShutdownMoves, MovesPlace DEF Shutdown
  <2>2. worker'[r].pc = "exited"
    BY <1>14, ShutdownMoves DEF Moves, TypeOK
  <2>3. \A s \in Subs \ {r} : chan'[s] = chan[s]
    BY <1>14, ReceiveEffect DEF Shutdown, Signals, TypeOK
  <2>4. \A s \in Subs : StopKept(s)
    BY <2>2, <2>3 DEF StopKept, HasStop
  <2> QED BY <2>1, <2>4, <1>14, SteadyWatched DEF Shutdown, registry
<1>15. ASSUME NEW r \in Subs, Push(r) PROVE OrphanInv'
  <2>0. PICK m \in Memories, v \in Worker, h \in Seen :
          TakesResult(r, m, v, h)
    BY <1>15, PushEffect
  <2>1. /\ worker' = [worker EXCEPT ![r] = v]
        /\ worker[r].pc = "results" /\ Sends(r, m, chan, v, h)
    BY <2>0 DEF TakesResult
  <2>2. \A s \in Subs : PlaceKept(s)
    BY <2>1 DEF PlaceKept, TypeOK
  <2>3. chan = [chan EXCEPT ![r] = chan[r]] /\ chan[r] \in Channels
    BY DEF TypeOK
  <2>4. \A s \in Subs : chan'[s].control = chan[s].control
    BY <2>1, <2>3, SendsControl
  <2>5. \A s \in Subs : StopKept(s)
    BY <2>4, SameControl
  <2> QED BY <2>2, <2>5, <1>15, SteadyWatched DEF Push, registry
<1>16. ASSUME NEW r \in Subs, TakeNotification(r) PROVE OrphanInv'
  <2>0. PICK m \in Memories, c \in Channels, v \in Worker, h \in Seen :
          TakesNotice(r, m, c, v, h)
    BY <1>16, NotificationEffect
  <2>1. /\ worker' = [worker EXCEPT ![r] = v]
        /\ worker[r].pc = "loop" /\ c.control = chan[r].control /\ c.out = chan[r].out
        /\ Sends(r, m, [chan EXCEPT ![r] = c], v, h)
    BY <2>0 DEF TakesNotice
  <2>2. \A s \in Subs : PlaceKept(s)
    BY <2>1 DEF PlaceKept, TypeOK
  <2>4. \A s \in Subs : chan'[s].control = chan[s].control
    BY <2>1, SendsControl
  <2>5. \A s \in Subs : StopKept(s)
    BY <2>4, SameControl
  <2> QED BY <2>2, <2>5, <1>16, SteadyWatched DEF TakeNotification, registry
<1>17. ASSUME NEW m \in Memories, Remember(m) PROVE OrphanInv'
  BY <1>17, SteadyWatched, SameControl DEF PlaceKept, registry, Remember
<1>18. ASSUME NEW m \in Memories, Delete(m) PROVE OrphanInv'
  BY <1>18, SteadyWatched, SameControl DEF PlaceKept, registry, Delete
<1>19. ASSUME UNCHANGED vars PROVE OrphanInv'
  BY <1>19, SteadyWatched, SameControl DEF PlaceKept, registry, vars
<1>20. ASSUME NEW r \in Subs, Register(r) PROVE OrphanInv'
  <2>1. (drain.on = "idle" => drain.left = {})'
    BY <1>20 DEF OrphanInv, Register
  <2>9. ASSUME NEW s \in Subs PROVE Watched(s)'
    BY <1>20, <2>9
      DEF OrphanInv, Watched, Told, HasStop, TypeOK, registry, writes, Register
  <2> QED BY <2>1, <2>9 DEF OrphanInv
<1>21. ASSUME NEW r \in Subs, SetThread(r) PROVE OrphanInv'
  <2>1. (drain.on = "idle" => drain.left = {})'
    BY <1>21 DEF OrphanInv, SetThread
  <2>9. ASSUME NEW s \in Subs PROVE Watched(s)'
    BY <1>21, <2>9
      DEF OrphanInv, Watched, Told, HasStop, TypeOK, registry, writes, SetThread
  <2> QED BY <2>1, <2>9 DEF OrphanInv
<1>22. ASSUME NEW r \in Subs, Joined(r) PROVE OrphanInv'
  <2>1. (drain.on = "idle" => drain.left = {})'
    BY <1>22 DEF OrphanInv, Joined
  <2>9. ASSUME NEW s \in Subs PROVE Watched(s)'
    BY <1>22, <2>9 DEF OrphanInv, Watched, Told, HasStop, TypeOK, registry, writes, Joined
  <2> QED BY <2>1, <2>9 DEF OrphanInv
<1>23. ASSUME NEW r \in Subs, Spawn(r) PROVE OrphanInv'
  <2>1. (drain.on = "idle" => drain.left = {})'
    BY <1>23 DEF OrphanInv, Spawn
  <2>2. worker'[r].pc = "building" /\ \A s \in Subs \ {r} : worker'[s] = worker[s]
    BY <1>23, SpawnMoves DEF Moves, TypeOK
  <2>9. ASSUME NEW s \in Subs PROVE Watched(s)'
    BY <1>23, <2>9, <2>2
      DEF OrphanInv, Watched, Told, HasStop, TypeOK, registry, writes, Spawn
  <2> QED BY <2>1, <2>9 DEF OrphanInv
<1>24. ASSUME NEW r \in Subs, SpawnFails(r) PROVE OrphanInv'
  <2>1. (drain.on = "idle" => drain.left = {})'
    BY <1>24 DEF OrphanInv, SpawnFails
  <2>2. worker'[r].pc = "exited" /\ \A s \in Subs \ {r} : worker'[s] = worker[s]
    BY <1>24, SpawnFailsMoves DEF Moves, TypeOK
  <2>9. ASSUME NEW s \in Subs PROVE Watched(s)'
    BY <1>24, <2>9, <2>2
      DEF OrphanInv, Watched, Told, HasStop, TypeOK, registry, writes, SpawnFails
  <2> QED BY <2>1, <2>9 DEF OrphanInv
<1>25. ASSUME NEW m \in Memories, Notify(m) PROVE OrphanInv'
  <2>1. (drain.on = "idle" => drain.left = {})'
    BY <1>25 DEF OrphanInv, Notify
  <2>2. \A s \in Subs : chan'[s].control = chan[s].control
    BY <1>25, NotifyEffect
  <2>9. ASSUME NEW s \in Subs PROVE Watched(s)'
    BY <1>25, <2>9, <2>2
      DEF OrphanInv, Watched, Told, HasStop, TypeOK, registry, writes, Notify
  <2> QED BY <2>1, <2>9 DEF OrphanInv
<1>26. ASSUME ShutdownJoined PROVE OrphanInv'
  <2>1. (drain.on = "idle" => drain.left = {})'
    BY <1>26 DEF OrphanInv, ShutdownJoined
  <2>9. ASSUME NEW s \in Subs PROVE Watched(s)'
    BY <1>26, <2>9
      DEF OrphanInv, Watched, Told, HasStop, TypeOK, registry, writes, ShutdownJoined
  <2> QED BY <2>1, <2>9 DEF OrphanInv
<1>27. ASSUME ShutdownDone PROVE OrphanInv'
  <2>1. (drain.on = "idle" => drain.left = {})'
    BY <1>27 DEF OrphanInv, ShutdownDone
  <2>9. ASSUME NEW s \in Subs PROVE Watched(s)'
    BY <1>27, <2>9
      DEF OrphanInv, Watched, Told, HasStop, TypeOK, registry, writes, ShutdownDone
  <2> QED BY <2>1, <2>9 DEF OrphanInv
<1>28. ASSUME ShutdownAll PROVE OrphanInv'
  <2>1. (drain.on = "idle" => drain.left = {})'
    BY <1>28 DEF OrphanInv, ShutdownAll
  <2>9. ASSUME NEW s \in Subs PROVE Watched(s)'
    BY <1>28, <2>9
      DEF OrphanInv, Watched, Told, HasStop, TypeOK, registry, writes, ShutdownAll
  <2> QED BY <2>1, <2>9 DEF OrphanInv
<1>29. ASSUME NEW r \in Subs, Close(r) PROVE OrphanInv'
  <2>1. (drain.on = "idle" => drain.left = {})'
    BY <1>29 DEF OrphanInv, Close
  <2>2. \A s \in Subs : HasStop(s) => HasStop(s)'
    <3>1. CASE Stop(r)
      BY <3>1, StopEffect, SendKeepsStop DEF Signals
    <3>2. CASE UNCHANGED chan
      BY <3>2 DEF HasStop
    <3> QED BY <3>1, <3>2, <1>29 DEF Close
  <2>3. r \in entries => HasStop(r)'
    BY <1>29, StopEffect, SendKeepsStop DEF Signals, Close
  <2>4. ASSUME NEW s \in Subs PROVE Watched(s)'
    BY <1>29, <2>2, <2>3, <2>4 DEF OrphanInv, Watched, Told, TypeOK, writes, Close
  <2> QED BY <2>1, <2>4 DEF OrphanInv
<1>30. ASSUME ShutdownOne PROVE OrphanInv'
  <2>1. PICK r \in drain.left :
          Stop(r) /\ drain' = [drain EXCEPT !.left = drain.left \ {r},
                                 !.join = IF r \in joinable THEN r ELSE None]
    BY <1>30 DEF ShutdownOne
  <2>2. r \in Subs /\ drain'.left = drain.left \ {r} /\ drain'.on = drain.on
    BY <2>1 DEF TypeOK
  <2>3. HasStop(r)' /\ \A s \in Subs : HasStop(s) => HasStop(s)'
    BY <2>1, <2>2, StopEffect, SendKeepsStop DEF Signals
  <2>4. (drain.on = "idle" => drain.left = {})'
    BY <1>30, <2>2 DEF OrphanInv, ShutdownOne
  <2>5. ASSUME NEW s \in Subs PROVE Watched(s)'
    BY <1>30, <2>2, <2>3, <2>5 DEF OrphanInv, Watched, Told, writes, ShutdownOne
  <2> QED BY <2>4, <2>5 DEF OrphanInv
<1> QED
  BY <1>1, <1>2, <1>3, <1>4, <1>5, <1>6, <1>7, <1>8, <1>9, <1>10, <1>11, <1>12,
     <1>13, <1>14, <1>15, <1>16, <1>17, <1>18, <1>19, <1>20, <1>21, <1>22,
     <1>23, <1>24, <1>25, <1>26, <1>27, <1>28, <1>29, <1>30
  DEF Next, Internal, Create, Work, Time, Draining, Use

\* A worker that runs is in the registry, or the thread that shuts the engine
\* down has yet to reach it, or a Shutdown is on its way: whatever creation,
\* close, broadcast and shutdown do to one another.
THEOREM NoneLeftBehind == Spec => []NoOrphanWorker
<1>1. Init => TypeOK /\ OrphanInv
  <2>1. Init => OrphanInv
    BY DEF Init, OrphanInv, Watched
  <2> QED BY <2>1, TypeInit
<1>2. TypeOK /\ OrphanInv /\ [Next]_vars => TypeOK' /\ OrphanInv'
  BY TypeStep, OrphanStep
<1>3. OrphanInv => NoOrphanWorker
  BY DEF OrphanInv, Watched, Told, HasStop, NoOrphanWorker
<1> QED BY <1>1, <1>2, <1>3, PTL DEF Spec

-----------------------------------------------------------------------------
(* Signals, and what the filter lags behind by                             *)

Toggles == {"pause", "resume"}
SameSignals(s) == chan'[s].control = chan[s].control /\ worker'[s].paused = worker[s].paused
                    /\ seen'[s].wanted = seen[s].wanted
Sent(s, sig) ==
  /\ chan'[s].control = Append(chan[s].control, sig) /\ worker'[s].paused = worker[s].paused
  /\ sig \in Toggles => seen'[s].wanted = (sig = "pause")
  /\ sig \notin Toggles => seen'[s].wanted = seen[s].wanted
Taken(s, sig) ==
  /\ chan[s].control # <<>> /\ Head(chan[s].control) = sig
  /\ chan'[s].control = Tail(chan[s].control) /\ seen'[s].wanted = seen[s].wanted
  /\ sig \in Toggles => worker'[s].paused = (sig = "pause")
  /\ sig \notin Toggles => worker'[s].paused = worker[s].paused
SignalStep(s) == SameSignals(s) \/ \E sig \in Signals : Sent(s, sig) \/ Taken(s, sig)

SameFilter(s) == worker'[s].bloom = worker[s].bloom /\ worker'[s].writes = worker[s].writes
\* Where the counter of writes is below its limit.
Settled == {"none", "building", "loop"}
Waits(s) == worker'[s].pc \in Settled => worker[s].pc \in Settled
SameNotices(s) == seen'[s].noticed = seen[s].noticed /\ seen'[s].blind = seen[s].blind
Calm(s) == SameFilter(s) /\ SameNotices(s) /\ Waits(s)
Filters(s) == /\ seen'[s].noticed = seen[s].noticed
              /\ seen'[s].blind \/ worker'[s].bloom = Known(Window)
Rebuilds(s) == Filters(s) /\ worker'[s].writes = 0
Builds(s) == /\ worker[s].pc = "building" /\ Filters(s)
             /\ worker'[s].writes = worker[s].writes
Rearms(s) == /\ SameNotices(s) /\ SameFilter(s)
             /\ worker[s].writes < RefreshCount
Notes(s, m) == /\ InScope(m) /\ seen'[s].blind = seen[s].blind
               /\ seen'[s].noticed = seen[s].noticed \cup {m}
               /\ worker'[s].bloom = worker[s].bloom
               /\ worker'[s].writes = worker[s].writes + 1 /\ worker'[s].pc \notin Settled
FilterStep(s) == Calm(s) \/ Builds(s) \/ Rebuilds(s) \/ Rearms(s) \/ \E m \in Memories : Notes(s, m)
\* What becomes of the memories while the filters do this.
MemoryStep ==
  \/ UNCHANGED <<db, unwritten>> /\ \A s \in Subs : FilterStep(s)
  \/ db' \subseteq db /\ unwritten' = unwritten /\ \A s \in Subs : Calm(s)
  \/ /\ \E m \in unwritten : db' = db \cup {m} /\ unwritten' = unwritten \ {m}
     /\ \A s \in Subs : Calm(s)
Sides == MemoryStep /\ \A s \in Subs : SignalStep(s)

CalmWorker(s) == SameFilter(s) /\ Waits(s) /\ worker'[s].paused = worker[s].paused
CalmSeen(s) == SameNotices(s) /\ seen'[s].wanted = seen[s].wanted
CalmControl(s) == chan'[s].control = chan[s].control

\* A step that touches no signal and no filter is allowed.
LEMMA CalmSides ==
  ASSUME UNCHANGED <<db, unwritten>>,
         \A s \in Subs : CalmWorker(s) /\ CalmSeen(s) /\ CalmControl(s)
  PROVE  Sides
BY DEF Sides, MemoryStep, SignalStep, SameSignals, FilterStep, Calm, SameNotices, CalmWorker, CalmSeen, SameNotices,
       CalmControl

\* A step that touches signals only is allowed if it sends or takes one.
LEMMA SignalSides ==
  ASSUME UNCHANGED <<db, unwritten>>, \A s \in Subs : Calm(s), \A s \in Subs : SignalStep(s)
  PROVE  Sides
BY DEF Sides, MemoryStep, FilterStep

\* A worker that moves keeps its filter, its counter and whether it is paused.
LEMMA MovesCalm ==
  ASSUME TypeOK, NEW r \in Subs, NEW P, Moves(r, P),
         P \cap Settled # {} => worker[r].pc \in Settled
  PROVE  \A s \in Subs : CalmWorker(s)
BY DEF Moves, Keeps, TypeOK, CalmWorker, SameFilter, Waits

\* A signal other than pause and resume is taken off the queue.
LEMMA TakenSides ==
  ASSUME TypeOK, NEW r \in Subs, NEW sig \in Signals \ Toggles, Receive(r, sig),
         UNCHANGED <<db, unwritten>>,
         \A s \in Subs : CalmWorker(s) /\ CalmSeen(s)
  PROVE  Sides
<1>1. /\ chan[r].control # <<>> /\ Head(chan[r].control) = sig
      /\ chan'[r].control = Tail(chan[r].control)
      /\ \A s \in Subs \ {r} : chan'[s] = chan[s]
  BY ReceiveEffect DEF TypeOK
<1>2. Taken(r, sig)
  BY <1>1 DEF Taken, CalmWorker, CalmSeen, SameNotices
<1>3. \A s \in Subs \ {r} : SameSignals(s)
  BY <1>1 DEF SameSignals, CalmWorker, CalmSeen, SameNotices
<1>4. \A s \in Subs : SignalStep(s)
  BY <1>2, <1>3 DEF SignalStep
<1>5. \A s \in Subs : Calm(s)
  BY DEF Calm, SameNotices, CalmWorker, CalmSeen, SameNotices
<1> QED BY <1>4, <1>5, SignalSides

\* A Shutdown is sent.
LEMMA StopSides ==
  ASSUME TypeOK, NEW r \in Subs, Stop(r), UNCHANGED <<db, unwritten, worker, seen>>
  PROVE  Sides
<1>1. /\ chan'[r].control = Append(chan[r].control, "shutdown")
      /\ \A s \in Subs \ {r} : chan'[s] = chan[s]
  BY StopEffect DEF TypeOK
<1>2. Sent(r, "shutdown")
  BY <1>1 DEF Sent, Toggles
<1>3. \A s \in Subs \ {r} : SameSignals(s)
  BY <1>1 DEF SameSignals
<1>4. \A s \in Subs : SignalStep(s)
  BY <1>2, <1>3 DEF SignalStep, Signals
<1>5. \A s \in Subs : Calm(s)
  BY DEF Calm, SameNotices, SameFilter, Waits
<1> QED BY <1>4, <1>5, SignalSides

\* Every step sends, takes or ignores a signal, and rebuilds, counts or keeps.
LEMMA SidesOfNext ==
  ASSUME TypeOK, OrphanInv, [Next]_vars
  PROVE  Sides
<1>1. ASSUME NEW r \in Subs, Register(r) PROVE Sides
  BY <1>1, CalmSides
    DEF CalmWorker, SameFilter, Waits, CalmSeen, SameNotices, CalmControl, registry, writes, Register
<1>2. ASSUME NEW r \in Subs, SetThread(r) PROVE Sides
  BY <1>2, CalmSides
    DEF CalmWorker, SameFilter, Waits, CalmSeen, SameNotices, CalmControl, registry, writes, SetThread
<1>3. ASSUME NEW r \in Subs, Joined(r) PROVE Sides
  BY <1>3, CalmSides
    DEF CalmWorker, SameFilter, Waits, CalmSeen, SameNotices, CalmControl, registry, writes, Joined
<1>4. ASSUME ShutdownAll PROVE Sides
  BY <1>4, CalmSides
    DEF CalmWorker, SameFilter, Waits, CalmSeen, SameNotices, CalmControl, registry, writes, ShutdownAll
<1>5. ASSUME ShutdownJoined PROVE Sides
  BY <1>5, CalmSides
    DEF CalmWorker, SameFilter, Waits, CalmSeen, SameNotices, CalmControl, registry, writes, ShutdownJoined
<1>6. ASSUME ShutdownDone PROVE Sides
  BY <1>6, CalmSides
    DEF CalmWorker, SameFilter, Waits, CalmSeen, SameNotices, CalmControl, registry, writes, ShutdownDone
<1>7. ASSUME UNCHANGED vars PROVE Sides
  BY <1>7, CalmSides
    DEF CalmWorker, SameFilter, Waits, CalmSeen, SameNotices, CalmControl, registry, writes, vars
<1>8. ASSUME NEW r \in Subs, SpawnFails(r) PROVE Sides
  <2>1. \A s \in Subs : CalmWorker(s)
    BY <1>8, SpawnFailsMoves, MovesCalm DEF Settled
  <2> QED BY <2>1, <1>8, CalmSides DEF CalmSeen, SameNotices, CalmControl, registry, writes, SpawnFails
<1>9. ASSUME NEW r \in Subs, Timeout(r) PROVE Sides
  <2>1. \A s \in Subs : CalmWorker(s)
    BY <1>9, TimeoutMoves, MovesCalm DEF Settled
  <2> QED BY <2>1, <1>9, CalmSides DEF CalmSeen, SameNotices, CalmControl, registry, writes, Timeout
<1>10. ASSUME NEW r \in Subs, Searched(r) PROVE Sides
  <2>1. \A s \in Subs : CalmWorker(s)
    BY <1>10, SearchedMoves, MovesCalm DEF Settled
  <2> QED BY <2>1, <1>10, CalmSides DEF CalmSeen, SameNotices, CalmControl, registry, writes, Searched
<1>11. ASSUME NEW r \in Subs, DeadlinePasses(r) PROVE Sides
  <2>1. \A s \in Subs : CalmWorker(s)
    BY <1>11, DeadlinePassesMoves, MovesCalm DEF Settled
  <2> QED BY <2>1, <1>11, CalmSides
      DEF CalmSeen, SameNotices, CalmControl, registry, writes, DeadlinePasses
<1>12. ASSUME NEW r \in Subs, IntervalPasses(r) PROVE Sides
  <2>1. \A s \in Subs : CalmWorker(s)
    BY <1>12, IntervalPassesMoves, MovesCalm DEF Settled
  <2> QED BY <2>1, <1>12, CalmSides
      DEF CalmSeen, SameNotices, CalmControl, registry, writes, IntervalPasses
<1>13. ASSUME NEW r \in Subs, Spawn(r) PROVE Sides
  <2>0. worker[r].pc = "none"
    BY <1>13 DEF OrphanInv, Watched, Spawn
  <2>1. \A s \in Subs : CalmWorker(s)
    BY <1>13, SpawnMoves, MovesCalm, <2>0 DEF Settled
  <2> QED BY <2>1, <1>13, CalmSides DEF CalmSeen, SameNotices, CalmControl, registry, writes, Spawn
<1>14. ASSUME NEW r \in Subs, TakeText(r) PROVE Sides
  <2>1. \A s \in Subs : CalmWorker(s)
    BY <1>14, TakeTextMoves, MovesCalm DEF Settled
  <2>2. \A s \in Subs : CalmControl(s)
    BY <1>14, TakeTextEffect DEF CalmControl, TypeOK
  <2> QED BY <2>1, <2>2, <1>14, CalmSides DEF CalmSeen, SameNotices, writes, TakeText
<1>15. ASSUME NEW r \in Subs, NEW t \in Chunks, Feed(r, t) PROVE Sides
  <2>1. \A s \in Subs : CalmControl(s)
    BY <1>15, FeedEffect DEF CalmControl, TypeOK
  <2> QED BY <2>1, <1>15, CalmSides
      DEF CalmWorker, SameFilter, Waits, CalmSeen, SameNotices, writes, Feed
<1>16. ASSUME NEW r \in Subs, Recv(r) PROVE Sides
  <2>1. \A s \in Subs : CalmControl(s) /\ CalmSeen(s)
    BY <1>16, RecvEffect DEF CalmControl, CalmSeen, SameNotices, TypeOK
  <2> QED BY <2>1, <1>16, CalmSides DEF CalmWorker, SameFilter, Waits, writes, Recv
<1>17. ASSUME NEW m \in Memories, Notify(m) PROVE Sides
  <2>1. \A s \in Subs : CalmControl(s)
    BY <1>17, NotifyEffect DEF CalmControl
  <2> QED BY <2>1, <1>17, CalmSides DEF CalmWorker, SameFilter, Waits, CalmSeen, SameNotices, Notify
<1>18. ASSUME NEW r \in Subs, Shutdown(r) PROVE Sides
  <2>1. \A s \in Subs : CalmWorker(s)
    BY <1>18, ShutdownMoves, MovesCalm DEF Settled
  <2> QED BY <2>1, <1>18, TakenSides DEF CalmSeen, SameNotices, writes, Shutdown, Signals, Toggles
<1>19. ASSUME NEW r \in Subs, Flush(r) PROVE Sides
  <2>1. \A s \in Subs : CalmWorker(s)
    BY <1>19, FlushMoves, MovesCalm DEF Flush, Settled
  <2> QED BY <2>1, <1>19, TakenSides DEF CalmSeen, SameNotices, writes, Flush, Signals, Toggles
<1>20. ASSUME NEW r \in Subs, ResetDedup(r) PROVE Sides
  <2>1. \A s \in Subs : CalmWorker(s)
    BY <1>20, ResetEffect DEF CalmWorker, SameFilter, Waits, TypeOK, Settled
  <2>2. \A s \in Subs : CalmSeen(s)
    BY <1>20, ResetHistory DEF CalmSeen, SameNotices, TypeOK
  <2> QED BY <2>1, <2>2, <1>20, TakenSides DEF writes, ResetDedup, Signals, Toggles
<1>21. ASSUME NEW r \in Subs, PauseOrResume(r) PROVE Sides
  <2>0. worker[r].pc = "loop"
    BY <1>21 DEF PauseOrResume
  <2>1. PICK sig \in {"pause", "resume"}, v \in Worker :
           /\ Receive(r, sig) /\ worker' = [worker EXCEPT ![r] = v]
           /\ v.paused = (sig = "pause") /\ worker[r].pc = "loop"
           /\ v.bloom = worker[r].bloom /\ v.writes = worker[r].writes
    BY <2>0, <1>21, PauseEffect
  <2>2. /\ chan[r].control # <<>> /\ Head(chan[r].control) = sig
        /\ chan'[r].control = Tail(chan[r].control)
        /\ \A s \in Subs \ {r} : chan'[s] = chan[s]
    BY <2>1, ReceiveEffect DEF TypeOK, Signals
  <2>3. /\ worker'[r] = v /\ \A s \in Subs \ {r} : worker'[s] = worker[s]
        /\ UNCHANGED <<db, unwritten, seen>>
    BY <2>1, <1>21 DEF TypeOK, writes, PauseOrResume
  <2>4. Taken(r, sig)
    BY <2>1, <2>2, <2>3 DEF Taken, Toggles
  <2>5. \A s \in Subs \ {r} : SameSignals(s)
    BY <2>2, <2>3 DEF SameSignals
  <2>6. \A s \in Subs : SignalStep(s)
    BY <2>1, <2>4, <2>5 DEF SignalStep, Signals
  <2>7. \A s \in Subs : Calm(s)
    BY <2>1, <2>3 DEF Calm, SameNotices, SameFilter, Waits, Settled
  <2> QED BY <2>3, <2>6, <2>7, SignalSides
<1>22. ASSUME NEW r \in Subs, NEW sig \in Signals, Signal(r, sig) PROVE Sides
  <2>1. PICK h \in Seen :
          /\ seen' = [seen EXCEPT ![r] = h] /\ h.noticed = seen[r].noticed /\ h.blind = seen[r].blind
          /\ h.wanted = (sig = "pause" \/ (sig # "resume" /\ seen[r].wanted))
    BY <1>22, SignalEffect DEF KeepsLog
  <2>2. /\ chan'[r].control = Append(chan[r].control, sig)
        /\ \A s \in Subs \ {r} : chan'[s] = chan[s]
    BY <1>22, SignalEffect DEF TypeOK
  <2>3. /\ seen'[r] = h /\ \A s \in Subs \ {r} : seen'[s] = seen[s]
        /\ UNCHANGED <<db, unwritten, worker>> /\ seen[r].wanted \in BOOLEAN
    BY <2>1, <1>22 DEF TypeOK, Seen, writes, Signal
  <2>4. /\ sig = "pause" => h.wanted = (sig = "pause")
        /\ sig = "resume" => h.wanted = (sig = "pause")
        /\ sig \notin Toggles => h.wanted = seen[r].wanted
    BY <2>1, <2>3 DEF Toggles
  <2>5. Sent(r, sig)
    BY <2>2, <2>3, <2>4 DEF Sent, Toggles
  <2>6. \A s \in Subs \ {r} : SameSignals(s)
    BY <2>2, <2>3 DEF SameSignals
  <2>7. \A s \in Subs : SignalStep(s)
    BY <2>5, <2>6 DEF SignalStep
  <2>8. \A s \in Subs : Calm(s)
    BY <2>1, <2>3 DEF Calm, SameNotices, SameFilter, Waits
  <2> QED BY <2>3, <2>7, <2>8, SignalSides
<1>23. ASSUME NEW r \in Subs, Close(r) PROVE Sides
  <2>1. CASE Stop(r)
    BY <2>1, <1>23, StopSides DEF writes, Close
  <2>2. CASE UNCHANGED chan
    BY <2>2, <1>23, CalmSides
      DEF CalmWorker, SameFilter, Waits, CalmSeen, SameNotices, CalmControl, writes, Close
  <2> QED BY <2>1, <2>2, <1>23 DEF Close
<1>24. ASSUME ShutdownOne PROVE Sides
  <2>1. PICK r \in drain.left : Stop(r)
    BY <1>24 DEF ShutdownOne
  <2>2. r \in Subs
    BY <2>1 DEF TypeOK
  <2> QED BY <2>1, <2>2, <1>24, StopSides DEF writes, ShutdownOne
<1>25. ASSUME NEW r \in Subs, Build(r) PROVE Sides
  <2>1. PICK v \in Worker, h \in Seen :
          /\ worker' = [worker EXCEPT ![r] = v] /\ seen' = [seen EXCEPT ![r] = h]
          /\ v.paused = worker[r].paused /\ v.writes = worker[r].writes
          /\ h.blind \/ v.bloom = Known(Window)
          /\ SameHistory(seen[r], h)
    BY <1>25, BuildEffect
  <2>2. /\ worker'[r] = v /\ \A s \in Subs \ {r} : worker'[s] = worker[s]
        /\ seen'[r] = h /\ \A s \in Subs \ {r} : seen'[s] = seen[s]
        /\ UNCHANGED <<db, unwritten, chan>>
    BY <2>1, <1>25 DEF TypeOK, writes, Build
  <2>3. \A s \in Subs : SignalStep(s)
    BY <2>1, <2>2 DEF SignalStep, SameSignals, SameHistory
  <2>4. \A s \in Subs \ {r} : Calm(s)
    BY <2>2 DEF Calm, SameNotices, SameFilter, Waits
  <2>5. worker[r].pc = "building"
    BY <1>25 DEF Build
  <2>6. Builds(r)
    BY <2>1, <2>2, <2>5 DEF Builds, Filters, SameHistory
  <2> QED BY <2>2, <2>3, <2>4, <2>6 DEF Sides, MemoryStep, FilterStep
<1>26. ASSUME NEW r \in Subs, Refresh(r) PROVE Sides
  <2>1. PICK v \in Worker, h \in Seen :
          /\ worker' = [worker EXCEPT ![r] = v] /\ seen' = [seen EXCEPT ![r] = h]
          /\ v.paused = worker[r].paused
          /\ \/ (h.blind \/ v.bloom = Known(Window)) /\ v.writes = 0
             \/ /\ v.bloom = worker[r].bloom /\ v.writes = worker[r].writes
                /\ worker[r].writes < RefreshCount /\ h.blind = seen[r].blind
          /\ SameHistory(seen[r], h)
    BY <1>26, RefreshEffect
  <2>2. /\ worker'[r] = v /\ \A s \in Subs \ {r} : worker'[s] = worker[s]
        /\ seen'[r] = h /\ \A s \in Subs \ {r} : seen'[s] = seen[s]
        /\ UNCHANGED <<db, unwritten, chan>>
    BY <2>1, <1>26 DEF TypeOK, writes, Refresh
  <2>3. \A s \in Subs : SignalStep(s)
    BY <2>1, <2>2 DEF SignalStep, SameSignals, SameHistory
  <2>4. \A s \in Subs \ {r} : Calm(s)
    BY <2>2 DEF Calm, SameNotices, SameFilter, Waits
  <2>5. Rebuilds(r) \/ Rearms(r)
    BY <2>1, <2>2 DEF Rebuilds, Rearms, Filters, SameFilter, SameHistory, SameNotices
  <2> QED BY <2>2, <2>3, <2>4, <2>5 DEF Sides, MemoryStep, FilterStep
<1>27. ASSUME NEW r \in Subs, Push(r) PROVE Sides
  <2>0. PICK m \in Memories, v \in Worker, h \in Seen :
          TakesResult(r, m, v, h)
    BY <1>27, PushEffect
  <2>1. /\ worker' = [worker EXCEPT ![r] = v] /\ seen' = [seen EXCEPT ![r] = h]
        /\ v.pc = "results" /\ v.paused = worker[r].paused
        /\ v.bloom = worker[r].bloom /\ v.writes = worker[r].writes
        /\ h.noticed = seen[r].noticed /\ h.wanted = seen[r].wanted /\ h.blind = seen[r].blind
        /\ Sends(r, m, chan, v, h)
    BY <2>0 DEF TakesResult
  <2>2. \A s \in Subs : CalmWorker(s) /\ CalmSeen(s)
    BY <2>1 DEF CalmWorker, SameFilter, Waits, Settled, CalmSeen, SameNotices, TypeOK
  <2>3. chan = [chan EXCEPT ![r] = chan[r]] /\ chan[r] \in Channels
    BY DEF TypeOK
  <2>4. \A s \in Subs : CalmControl(s)
    BY <2>1, <2>3, SendsControl DEF CalmControl
  <2> QED BY <2>2, <2>4, <1>27, CalmSides DEF Push, writes
<1>28. ASSUME NEW r \in Subs, TakeNotification(r) PROVE Sides
  <2>0. PICK m \in Memories, c \in Channels, v \in Worker, h \in Seen :
          TakesNotice(r, m, c, v, h)
    BY <1>28, NotificationEffect
  <2>1. /\ worker' = [worker EXCEPT ![r] = v] /\ seen' = [seen EXCEPT ![r] = h]
        /\ v.pc = "tail" /\ v.paused = worker[r].paused /\ v.bloom = worker[r].bloom
        /\ h.wanted = seen[r].wanted /\ h.blind = seen[r].blind
        /\ c.control = chan[r].control /\ c.out = chan[r].out
        /\ \/ /\ InScope(m) /\ v.writes = worker[r].writes + 1
              /\ h.noticed = seen[r].noticed \cup {m}
           \/ v.writes = worker[r].writes /\ h.noticed = seen[r].noticed
        /\ Sends(r, m, [chan EXCEPT ![r] = c], v, h)
    BY <2>0 DEF TakesNotice
  <2>2. /\ worker'[r] = v /\ \A s \in Subs \ {r} : worker'[s] = worker[s]
        /\ seen'[r] = h /\ \A s \in Subs \ {r} : seen'[s] = seen[s]
    BY <2>1 DEF TypeOK
  <2>3. \A s \in Subs : chan'[s].control = chan[s].control
    BY <2>1, SendsControl
  <2>4. \A s \in Subs : SignalStep(s)
    BY <2>1, <2>2, <2>3 DEF SignalStep, SameSignals
  <2>5. \A s \in Subs \ {r} : Calm(s)
    BY <2>2 DEF Calm, SameNotices, SameFilter, Waits
  <2>6. Notes(r, m) \/ Calm(r)
    BY <2>1, <2>2 DEF Notes, Calm, SameNotices, SameFilter, Waits, Settled
  <2>7. UNCHANGED <<db, unwritten>>
    BY <1>28 DEF TakeNotification, writes
  <2> QED BY <2>4, <2>5, <2>6, <2>7 DEF Sides, MemoryStep, FilterStep
<1>29. ASSUME NEW m \in Memories, Remember(m) PROVE Sides
  <2>1. \A s \in Subs : Calm(s) /\ SignalStep(s)
    BY <1>29 DEF Calm, SameNotices, SameFilter, Waits, SignalStep, SameSignals, Remember
  <2> QED BY <2>1, <1>29 DEF Sides, MemoryStep, Remember
<1>30. ASSUME NEW m \in Memories, Delete(m) PROVE Sides
  <2>1. \A s \in Subs : Calm(s) /\ SignalStep(s)
    BY <1>30 DEF Calm, SameNotices, SameFilter, Waits, SignalStep, SameSignals, Delete
  <2> QED BY <2>1, <1>30 DEF Sides, MemoryStep, Delete
<1> QED
  BY <1>1, <1>2, <1>3, <1>4, <1>5, <1>6, <1>7, <1>8, <1>9, <1>10, <1>11, <1>12,
     <1>13, <1>14, <1>15, <1>16, <1>17, <1>18, <1>19, <1>20, <1>21, <1>22,
     <1>23, <1>24, <1>25, <1>26, <1>27, <1>28, <1>29, <1>30
  DEF Next, Internal, Create, Work, Time, Draining, Use

Asks(sig) == sig = "pause"
\* The queue q of signals takes a worker from paused to wanted.
Leads(q, paused, wanted) ==
  /\ (\A i \in 1 .. Len(q) : q[i] \notin Toggles) => paused = wanted
  /\ \A i \in 1 .. Len(q) :
       q[i] \in Toggles /\ (\A j \in (i + 1) .. Len(q) : q[j] \notin Toggles)
         => wanted = Asks(q[i])
SignalInv ==
  \A s \in Subs : Leads(chan[s].control, worker[s].paused, seen[s].wanted)

\* A signal sent leads to what it asks.
LEMMA LeadsAppend ==
  ASSUME NEW q \in Seq(Signals), NEW sig \in Signals, NEW p, NEW w, NEW u,
         Leads(q, p, w), sig \in Toggles => u = Asks(sig), sig \notin Toggles => u = w
  PROVE  Leads(Append(q, sig), p, u)
<1> DEFINE z == Append(q, sig)
<1>1. /\ z \in Seq(Signals) /\ Len(z) = Len(q) + 1 /\ z[Len(q) + 1] = sig
      /\ \A i \in 1 .. Len(q) : z[i] = q[i]
  OBVIOUS
<1>2. Len(q) \in Nat /\ Len(q) + 1 \in 1 .. (Len(q) + 1)
  OBVIOUS
<1> HIDE DEF z
<1>3. ASSUME \A i \in 1 .. Len(z) : z[i] \notin Toggles PROVE p = u
  <2>1. sig \notin Toggles
    BY <1>1, <1>2, <1>3
  <2>2. \A i \in 1 .. Len(q) : q[i] \notin Toggles
    BY <1>1, <1>2, <1>3
  <2> QED BY <2>1, <2>2 DEF Leads
<1>4. ASSUME NEW i \in 1 .. Len(z), z[i] \in Toggles,
             \A j \in (i + 1) .. Len(z) : z[j] \notin Toggles
      PROVE  u = Asks(z[i])
  <2>1. CASE i = Len(q) + 1
    BY <1>1, <1>4, <2>1
  <2>2. CASE i # Len(q) + 1
    <3>1. i \in 1 .. Len(q) /\ Len(q) + 1 \in (i + 1) .. Len(z)
      BY <1>1, <1>2, <2>2
    <3>2. sig \notin Toggles
      BY <1>1, <1>4, <3>1
    <3>3. \A j \in (i + 1) .. Len(q) : j \in (i + 1) .. Len(z) /\ j \in 1 .. Len(q)
      BY <1>1, <1>2, <3>1
    <3>4. \A j \in (i + 1) .. Len(q) : q[j] \notin Toggles
      BY <1>1, <1>4, <3>3
    <3>5. z[i] = q[i]
      BY <1>1, <3>1
    <3> QED BY <1>4, <3>1, <3>2, <3>4, <3>5 DEF Leads
  <2> QED BY <2>1, <2>2
<1>5. Leads(z, p, u)
  BY <1>3, <1>4 DEF Leads
<1> QED BY <1>5 DEF z

\* A signal taken does what it asks, and the rest of the queue leads on from there.
LEMMA LeadsTail ==
  ASSUME NEW q \in Seq(Signals), q # <<>>, NEW p, NEW w, NEW u, Leads(q, p, w),
         Head(q) \in Toggles => u = Asks(Head(q)), Head(q) \notin Toggles => u = p
  PROVE  Leads(Tail(q), u, w)
<1> DEFINE z == Tail(q)
           h == Head(q)
<1>1. /\ Len(z) = Len(q) - 1 /\ q[1] = h
      /\ \A i \in 1 .. (Len(q) - 1) : z[i] = q[i + 1]
  OBVIOUS
<1>2. Len(q) \in Nat /\ 1 \in 1 .. Len(q)
  OBVIOUS
<1> HIDE DEF z, h
<1>3. ASSUME \A i \in 1 .. Len(z) : z[i] \notin Toggles PROVE u = w
  <2>1. \A i \in (1 + 1) .. Len(q) : q[i] \notin Toggles
    <3> TAKE i \in (1 + 1) .. Len(q)
    <3>1. i - 1 \in 1 .. (Len(q) - 1) /\ (i - 1) + 1 = i
      BY <1>2
    <3> QED BY <1>1, <1>3, <3>1
  <2>2. CASE h \in Toggles
    <3>1. w = Asks(q[1])
      BY <1>1, <1>2, <2>1, <2>2 DEF Leads
    <3> QED BY <1>1, <2>2, <3>1 DEF h
  <2>3. CASE h \notin Toggles
    <3>1. \A i \in 1 .. Len(q) : i = 1 \/ i \in (1 + 1) .. Len(q)
      BY <1>2
    <3>2. \A i \in 1 .. Len(q) : q[i] \notin Toggles
      BY <1>1, <2>1, <2>3, <3>1
    <3> QED BY <2>3, <3>2 DEF Leads, h
  <2> QED BY <2>2, <2>3
<1>4. ASSUME NEW i \in 1 .. Len(z), z[i] \in Toggles,
             \A j \in (i + 1) .. Len(z) : z[j] \notin Toggles
      PROVE  w = Asks(z[i])
  <2>1. i + 1 \in 1 .. Len(q) /\ i \in 1 .. (Len(q) - 1)
    BY <1>1, <1>2
  <2>2. \A j \in ((i + 1) + 1) .. Len(q) : q[j] \notin Toggles
    <3> TAKE j \in ((i + 1) + 1) .. Len(q)
    <3>1. /\ j - 1 \in 1 .. (Len(q) - 1) /\ j - 1 \in (i + 1) .. (Len(q) - 1)
          /\ (j - 1) + 1 = j
      BY <1>2, <2>1
    <3> QED BY <1>1, <1>4, <3>1
  <2>3. z[i] = q[i + 1]
    BY <1>1, <2>1
  <2> QED BY <1>4, <2>1, <2>2, <2>3 DEF Leads
<1>5. Leads(z, u, w)
  BY <1>3, <1>4 DEF Leads
<1> QED BY <1>5 DEF z

\* The signals under way keep leading to what the caller wants.
LEMMA SignalInvStep ==
  ASSUME TypeOK, SignalInv, \A s \in Subs : SignalStep(s)
  PROVE  SignalInv'
<1> SUFFICES ASSUME NEW s \in Subs
             PROVE  Leads(chan'[s].control, worker'[s].paused, seen'[s].wanted)
  BY DEF SignalInv
<1>1. /\ Leads(chan[s].control, worker[s].paused, seen[s].wanted)
      /\ chan[s].control \in Seq(Signals) /\ SignalStep(s)
  BY DEF SignalInv, TypeOK, Channels
<1>2. CASE SameSignals(s)
  BY <1>1, <1>2 DEF SameSignals
<1>3. ASSUME NEW sig \in Signals, Sent(s, sig)
      PROVE  Leads(chan'[s].control, worker'[s].paused, seen'[s].wanted)
  <2>1. /\ sig \in Toggles => seen'[s].wanted = Asks(sig)
        /\ sig \notin Toggles => seen'[s].wanted = seen[s].wanted
        /\ chan'[s].control = Append(chan[s].control, sig)
        /\ worker'[s].paused = worker[s].paused
    BY <1>3 DEF Sent, Asks
  <2>2. Leads(Append(chan[s].control, sig), worker[s].paused, seen'[s].wanted)
    BY <1>1, <2>1, LeadsAppend
  <2> QED BY <2>1, <2>2
<1>4. ASSUME NEW sig \in Signals, Taken(s, sig)
      PROVE  Leads(chan'[s].control, worker'[s].paused, seen'[s].wanted)
  <2>1. /\ Head(chan[s].control) \in Toggles =>
             worker'[s].paused = Asks(Head(chan[s].control))
        /\ Head(chan[s].control) \notin Toggles => worker'[s].paused = worker[s].paused
        /\ chan[s].control # <<>> /\ chan'[s].control = Tail(chan[s].control)
        /\ seen'[s].wanted = seen[s].wanted
    BY <1>4 DEF Taken, Asks
  <2>2. Leads(Tail(chan[s].control), worker'[s].paused, seen[s].wanted)
    BY <1>1, <2>1, LeadsTail
  <2> QED BY <2>1, <2>2
<1> QED BY <1>1, <1>2, <1>3, <1>4 DEF SignalStep

\* No worker runs at the start.
LEMMA OrphanInit == Init => OrphanInv
BY DEF Init, OrphanInv, Watched

\* Pausing and resuming take effect in the order the caller asked, with any
\* number of signals under way and the other signals between them.
THEOREM LastToggleWins == Spec => []LastSignalWins
<1>1. Init => TypeOK /\ OrphanInv /\ SignalInv
  <2>1. ASSUME Init PROVE SignalInv
    <3>1. \A s \in Subs : /\ chan[s].control = <<>> /\ 1 .. Len(chan[s].control) = {}
                        /\ worker[s].paused = FALSE /\ seen[s].wanted = FALSE
      BY <2>1 DEF Init
    <3> QED BY <3>1 DEF SignalInv, Leads
  <2> QED BY <2>1, TypeInit, OrphanInit
<1>2. TypeOK /\ OrphanInv /\ SignalInv /\ [Next]_vars => TypeOK' /\ OrphanInv' /\ SignalInv'
  <2>1. ASSUME TypeOK, OrphanInv, SignalInv, [Next]_vars PROVE SignalInv'
    BY <2>1, SidesOfNext, SignalInvStep DEF Sides
  <2> QED BY <2>1, TypeStep, OrphanStep
<1>3. SignalInv => LastSignalWins
  <2> SUFFICES ASSUME SignalInv, NEW s \in Subs, chan[s].control = <<>>
               PROVE  worker[s].paused = seen[s].wanted
    BY DEF LastSignalWins
  <2>1. \A i \in 1 .. Len(chan[s].control) : chan[s].control[i] \notin Toggles
    OBVIOUS
  <2> QED BY <2>1 DEF SignalInv, Leads
<1> QED BY <1>1, <1>2, <1>3, PTL DEF Spec

\* The memories a worker was told of that every scan reads and its filter does
\* not know.
Missed(s) ==
  {m \in seen[s].noticed \cap db : Reachable(m) /\ Topic[m] \notin worker[s].bloom}
\* A deletion makes the counter an over-count; no memory is written twice, so
\* nothing makes it an under-count.
Counted(s) ==
  /\ seen[s].noticed \subseteq Scoped \ unwritten
  /\ seen[s].blind \/ Cardinality(Missed(s)) <= worker[s].writes
  /\ worker[s].pc \in Settled => worker[s].writes < RefreshCount
LagInv == db \cap unwritten = {} /\ \A s \in Subs : Counted(s)

\* A key that few of the keys in S precede is preceded by few in a part of S.
LEMMA FirstShrinks ==
  ASSUME NEW S \in SUBSET Memories, NEW R \in SUBSET S
  PROVE  First(S) \cap R \subseteq First(R)
<1> SUFFICES ASSUME NEW m \in First(S) \cap R PROVE m \in First(R)
  OBVIOUS
<1> DEFINE before(T) == {n \in T : Rank[n] < Rank[m]}
<1>1. IsFiniteSet(before(S)) /\ before(R) \subseteq before(S)
  BY SubscribeAssumption, FS_Subset
<1>2. IsFiniteSet(before(R)) /\ Cardinality(before(R)) <= Cardinality(before(S))
  BY <1>1, FS_Subset
<1>3. Cardinality(before(R)) \in Nat /\ Cardinality(before(S)) \in Nat
  BY <1>1, <1>2, FS_CardinalityType
<1>4. Cardinality(before(S)) < ScanCap /\ ScanCap \in Nat
  BY SubscribeAssumption DEF First
<1>5. Cardinality(before(R)) < ScanCap
  BY <1>2, <1>3, <1>4
<1> QED BY <1>5 DEF First

\* A key that few of those ever stored precede has always been one of the first.
LEMMA ReachableBefore ==
  ASSUME TypeOK, unwritten' \subseteq unwritten,
         NEW m \in Memories \ unwritten, Reachable(m)'
  PROVE  Reachable(m)
<1>1. Ranged \ unwritten' \in SUBSET Memories /\ Ranged \ unwritten \in SUBSET (Ranged \ unwritten')
  BY SubscribeAssumption
<1>2. First(Ranged \ unwritten') \cap (Ranged \ unwritten) \subseteq First(Ranged \ unwritten)
  BY <1>1, FirstShrinks
<1>3. m \in First(Ranged \ unwritten')
  BY DEF Reachable, First
<1>4. m \in Ranged
  BY <1>3 DEF First
<1> QED BY <1>2, <1>3, <1>4 DEF Reachable

\* A scan that meets no error reads the key.
LEMMA ReachableInWindow ==
  ASSUME TypeOK, db \cap unwritten = {}, NEW m \in db, Reachable(m)
  PROVE  m \in Window
<1>1. /\ Ranged \ unwritten \in SUBSET Memories
      /\ db \cap Ranged \in SUBSET (Ranged \ unwritten)
  BY SubscribeAssumption
<1>2. First(Ranged \ unwritten) \cap (db \cap Ranged) \subseteq First(db \cap Ranged)
  BY <1>1, FirstShrinks
<1>3. m \in First(Ranged \ unwritten) /\ m \in Ranged
  BY DEF Reachable, First
<1> QED BY <1>2, <1>3 DEF Window

\* Where no filter changes, a write that no one was told of adds nothing missed.
LEMMA LagCalm ==
  ASSUME TypeOK, NEW s \in Subs, Counted(s), Calm(s), unwritten' \subseteq unwritten,
         seen[s].noticed \cap db' \subseteq db
  PROVE  Counted(s)'
<1>1. IsFiniteSet(Missed(s)) /\ Missed(s)' \subseteq Missed(s)
  <2>1. Missed(s) \subseteq Memories
    BY DEF Missed, TypeOK
  <2>2. IsFiniteSet(Missed(s))
    BY <2>1, FS_Subset, SubscribeAssumption
  <2>3. /\ seen'[s].noticed = seen[s].noticed /\ worker'[s].bloom = worker[s].bloom
        /\ seen[s].noticed \subseteq Memories \ unwritten
    BY SubscribeAssumption DEF Calm, SameFilter, SameNotices, Counted
  <2>4. ASSUME NEW m \in Missed(s)' PROVE m \in Missed(s)
    <3>1. /\ m \in seen[s].noticed \cap db' /\ Reachable(m)'
          /\ Topic[m] \notin worker[s].bloom
      BY <2>3, <2>4 DEF Missed
    <3>2. Reachable(m)
      BY <2>3, <3>1, ReachableBefore
    <3> QED BY <3>1, <3>2 DEF Missed
  <2> QED BY <2>2, <2>4
<1>2. Cardinality(Missed(s)') <= Cardinality(Missed(s)) /\ IsFiniteSet(Missed(s)')
  BY <1>1, FS_Subset
<1>3. Cardinality(Missed(s)') \in Nat /\ Cardinality(Missed(s)) \in Nat
  BY <1>1, <1>2, FS_CardinalityType
<1>4. worker[s].writes \in Nat /\ worker'[s].writes = worker[s].writes
  BY DEF TypeOK, Worker, Calm, SameFilter
<1>5. seen'[s].blind \/ Cardinality(Missed(s)') <= worker'[s].writes
  BY <1>2, <1>3, <1>4 DEF Counted, Calm, SameNotices
<1>6. seen'[s].noticed \subseteq Scoped \ unwritten'
  BY DEF Counted, Calm, SameNotices
<1>7. worker'[s].pc \in Settled => worker'[s].writes < RefreshCount
  BY <1>4 DEF Counted, Calm, Waits
<1> QED BY <1>5, <1>6, <1>7 DEF Counted

\* A filter rebuilt from a scan misses nothing, unless the scan met an error.
LEMMA LagRebuilt ==
  ASSUME TypeOK, TypeOK', LagInv, NEW s \in Subs, UNCHANGED <<db, unwritten>>, Filters(s),
         worker'[s].writes < RefreshCount
  PROVE  Counted(s)'
<1>1. ASSUME worker'[s].bloom = Known(Window) PROVE Missed(s)' = {}
  <2> SUFFICES ASSUME NEW m \in Missed(s)' PROVE FALSE
    OBVIOUS
  <2>1. /\ m \in seen[s].noticed \cap db /\ Reachable(m)' /\ Topic[m] \notin worker'[s].bloom
    BY DEF Missed, Filters
  <2>2. Reachable(m)
    BY <2>1 DEF Reachable
  <2>3. m \in Window
    BY <2>1, <2>2, ReachableInWindow DEF LagInv
  <2>4. m \in Scoped
    BY <2>1 DEF LagInv, Counted
  <2> QED BY <1>1, <2>1, <2>3, <2>4 DEF Known
<1>2. seen'[s].blind \/ Cardinality(Missed(s)') = 0
  BY <1>1, FS_EmptySet DEF Filters
<1>3. worker'[s].writes \in Nat
  BY DEF TypeOK, Worker
<1>4. seen'[s].noticed \subseteq Scoped \ unwritten'
  BY DEF LagInv, Counted, Filters
<1>5. seen'[s].blind \/ Cardinality(Missed(s)') <= worker'[s].writes
  BY <1>2, <1>3
<1> QED BY <1>4, <1>5 DEF Counted

\* A notification adds one to the counter and at most one memory missed.
LEMMA LagNoted ==
  ASSUME TypeOK, NEW s \in Subs, NEW m \in Memories, LagInv, Notes(s, m),
         UNCHANGED <<db, unwritten>>
  PROVE  Counted(s)'
<1>1. Counted(s) /\ m \in db \cap Scoped /\ m \notin unwritten
  BY DEF LagInv, Notes, InScope
<1>2. IsFiniteSet(Missed(s)) /\ Missed(s)' \subseteq Missed(s) \cup {m}
  <2>1. Missed(s) \subseteq Memories
    BY DEF Missed, TypeOK
  <2>2. IsFiniteSet(Missed(s))
    BY <2>1, FS_Subset, SubscribeAssumption
  <2>3. /\ seen'[s].noticed = seen[s].noticed \cup {m} /\ worker'[s].bloom = worker[s].bloom
        /\ \A n : Reachable(n)' <=> Reachable(n)
    BY DEF Notes, Reachable, First
  <2> QED BY <2>2, <2>3 DEF Missed
<1>3. /\ IsFiniteSet(Missed(s) \cup {m})
      /\ Cardinality(Missed(s) \cup {m}) =
           IF m \in Missed(s) THEN Cardinality(Missed(s)) ELSE Cardinality(Missed(s)) + 1
  BY <1>2, FS_AddElement
<1>4. IsFiniteSet(Missed(s)') /\ Cardinality(Missed(s)') <= Cardinality(Missed(s) \cup {m})
  BY <1>2, <1>3, FS_Subset
<1>5. Cardinality(Missed(s)') \in Nat /\ Cardinality(Missed(s)) \in Nat
  BY <1>2, <1>4, FS_CardinalityType
<1>6. worker[s].writes \in Nat /\ worker'[s].writes = worker[s].writes + 1
  BY DEF TypeOK, Worker, Notes
<1>7. seen[s].blind \/ Cardinality(Missed(s)) <= worker[s].writes
  BY <1>1 DEF Counted
<1>8. seen'[s].blind \/ Cardinality(Missed(s)') <= worker'[s].writes
  BY <1>3, <1>4, <1>5, <1>6, <1>7 DEF Notes
<1>9. seen'[s].noticed \subseteq Scoped \ unwritten'
  BY <1>1 DEF Counted, Notes
<1> QED BY <1>8, <1>9 DEF Counted, Notes

\* An iteration ends without a rebuild only below the limit.
LEMMA LagRearmed ==
  ASSUME TypeOK, NEW s \in Subs, Counted(s), Rearms(s), UNCHANGED <<db, unwritten>>
  PROVE  Counted(s)'
<1>1. \A n : Reachable(n)' <=> Reachable(n)
  BY DEF Reachable, First
<1>2. Missed(s)' = Missed(s)
  BY <1>1 DEF Missed, Rearms, SameFilter, SameNotices
<1> QED BY <1>2 DEF Counted, Rearms, SameFilter, SameNotices

\* Every step keeps the counter at least the number of memories missed.
LEMMA LagInvStep ==
  ASSUME TypeOK, TypeOK', LagInv, MemoryStep
  PROVE  LagInv'
<1>1. \A s \in Subs : Counted(s)
  BY DEF LagInv
<1>2. CASE UNCHANGED <<db, unwritten>> /\ \A s \in Subs : FilterStep(s)
  <2>1. ASSUME NEW s \in Subs PROVE Counted(s)'
    <3>1. CASE Calm(s)
      BY <1>1, <1>2, <3>1, LagCalm
    <3>2. CASE Builds(s)
      <4>1. worker'[s].writes < RefreshCount
        BY <1>1, <3>2 DEF Builds, Counted, Settled
      <4> QED BY <1>2, <3>2, <4>1, LagRebuilt DEF Builds
    <3>3. CASE Rebuilds(s)
      <4>1. worker'[s].writes < RefreshCount
        BY <3>3, Capacities DEF Rebuilds
      <4> QED BY <1>2, <3>3, <4>1, LagRebuilt DEF Rebuilds
    <3>4. CASE Rearms(s)
      BY <1>1, <1>2, <3>4, LagRearmed
    <3>5. CASE \E m \in Memories : Notes(s, m)
      BY <1>2, <3>5, LagNoted
    <3> QED BY <1>2, <3>1, <3>2, <3>3, <3>4, <3>5 DEF FilterStep
  <2> QED BY <1>2, <2>1 DEF LagInv
<1>3. CASE db' \subseteq db /\ unwritten' = unwritten /\ \A s \in Subs : Calm(s)
  <2>1. ASSUME NEW s \in Subs PROVE Counted(s)'
    BY <1>1, <1>3, LagCalm
  <2> QED BY <1>3, <2>1 DEF LagInv
<1>4. CASE /\ \E m \in unwritten : db' = db \cup {m} /\ unwritten' = unwritten \ {m}
           /\ \A s \in Subs : Calm(s)
  <2>1. PICK m \in unwritten : db' = db \cup {m} /\ unwritten' = unwritten \ {m}
    BY <1>4
  <2>2. ASSUME NEW s \in Subs PROVE Counted(s)'
    <3>1. seen[s].noticed \cap db' \subseteq db
      BY <1>1, <2>1 DEF Counted
    <3> QED BY <1>1, <1>4, <2>1, <3>1, LagCalm
  <2> QED BY <2>1, <2>2 DEF LagInv
<1> QED BY <1>2, <1>3, <1>4 DEF MemoryStep

\* A worker that waits misses fewer than RefreshCount of the memories it was
\* told of, for any number of writers and any threshold.
THEOREM FilterNeverFarBehind == Spec => []FilterLag
<1>1. Init => TypeOK /\ OrphanInv /\ LagInv
  <2>1. ASSUME Init PROVE LagInv
    <3>1. ASSUME NEW s \in Subs PROVE Counted(s)
      <4>1. /\ seen[s].noticed = {} /\ worker[s].writes = 0 /\ Missed(s) = {}
        BY <2>1, <3>1 DEF Init, Missed
      <4> QED BY <4>1, FS_EmptySet, SubscribeAssumption DEF Counted
    <3> QED BY <2>1, <3>1 DEF Init, LagInv
  <2> QED BY <2>1, TypeInit, OrphanInit
<1>2. TypeOK /\ OrphanInv /\ LagInv /\ [Next]_vars => TypeOK' /\ OrphanInv' /\ LagInv'
  <2>1. ASSUME TypeOK, OrphanInv, LagInv, [Next]_vars PROVE LagInv'
    BY <2>1, SidesOfNext, TypeStep, LagInvStep DEF Sides
  <2> QED BY <2>1, TypeStep, OrphanStep
<1>3. TypeOK /\ LagInv => FilterLag
  <2> SUFFICES ASSUME TypeOK, LagInv, NEW s \in Subs, worker[s].pc = "loop", ~seen[s].blind
               PROVE  Cardinality(Missed(s)) < RefreshCount
    BY DEF FilterLag, Missed
  <2>1. /\ Cardinality(Missed(s)) <= worker[s].writes
        /\ worker[s].writes < RefreshCount
    BY DEF LagInv, Counted, Settled
  <2>2. IsFiniteSet(Missed(s))
    <3>1. Missed(s) \subseteq Memories
      BY DEF Missed, TypeOK
    <3> QED BY <3>1, FS_Subset, SubscribeAssumption
  <2>3. /\ Cardinality(Missed(s)) \in Nat /\ worker[s].writes \in Nat
        /\ RefreshCount \in Nat
    BY <2>2, FS_CardinalityType, SubscribeAssumption DEF TypeOK, Worker
  <2> QED BY <2>1, <2>3
<1> QED BY <1>1, <1>2, <1>3, PTL DEF Spec

=============================================================================
