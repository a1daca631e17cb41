------------------------------- MODULE Engine -------------------------------
(***************************************************************************)
(* The write paths of hebbs-core's Engine over hebbs-index's IndexManager, *)
(* for one tenant: remember, add_edge, revise, delete, forget, auto_forget,*)
(* gc_tombstones, the reinforcement that ends recall and prime, the decay  *)
(* sweep and the storing of an insight.  All of them take &self and run on *)
(* any number of threads with no lock of their own.  Each is split where   *)
(* the code lets another thread in: between its reads and its WriteBatch,  *)
(* and between the WriteBatch, the update of each in-memory graph, and the *)
(* put that persists the node once more.  A crash drops what is in memory; *)
(* opening the engine rebuilds it from the column families.                *)
(***************************************************************************)
EXTENDS Integers, FiniteSets

CONSTANTS
  Clients,          \* threads that call the engine
  Menu,             \* client |-> the operations it calls in this deployment
  MaxIds,           \* bound: ULIDs the generator hands out
  Stored,           \* memories the database holds when the engine is opened
  Entities, NoEntity,
  Texts,            \* contents; the embedding of a content is named by it
  UserEdgeTypes,    \* edge types callers attach to remember, revise, add_edge
  SnapshotTargets,  \* do callers ever name the id of a snapshot?
  SnapshotSources,  \* do reflections ever take up a snapshot?
  ClockSteps,       \* microseconds that pass between two operations
  MaxCalls,         \* bound: operations started
  MaxFaults,        \* bound: crashes and failed writes
  MaxSnaps,         \* Engine.max_snapshots_per_memory (0: no limit)
  MaxForget,        \* ForgetConfig.max_batch_size
  Ttl,              \* ForgetConfig.tombstone_ttl_us
  SweepBatch,       \* DecayConfig.batch_size
  RecallWidth,      \* top_k of a recall
  None

Ids == 1 .. MaxIds
Kinds == {"episode", "revision", "insight"}
EdgeTypes == {"related_to", "revised_from", "insight_from"}
Ops == {"remember", "add_edge", "revise", "delete", "forget", "forget_entity",
        "forget_scan", "auto_forget", "gc", "recall", "sweep", "insight"}
Labels == {"idle", "write", "reindex", "insert", "persist", "assoc",
           "assoc_persist", "tombstone", "mark", "clear", "candidates", "cursor", "rewind"}

Edge == Ids \X EdgeTypes \X Ids
TemporalKey == Entities \X Nat
TemporalEntry == TemporalKey \X Ids
Stamped == Nat \X Ids

\* The fields of Memory that an index or a property depends on.
Record == [entity : Entities \cup {NoEntity}, created : Nat,
           kind : Kinds, text : Texts]

\* A prepared WriteBatch.  Vectors and VectorsAssociative values are the
\* contents of the records the same batch puts into Default.
Batch == [put : [Ids -> Record \cup {None}],       \* Default
          del : SUBSET Ids,                        \* Default and both Vectors CFs
          tput : SUBSET TemporalEntry, tdel : SUBSET TemporalKey,
          vput : SUBSET Ids, aput : SUBSET Ids,    \* Vectors, VectorsAssociative
          eput : SUBSET Edge,                      \* Graph: both keys of an edge
          fdel : SUBSET Edge, rdel : SUBSET Edge,  \* Graph: keys to delete
          tombs : SUBSET Stamped]             \* Meta: forget tombstones

ASSUME EngineAssumption ==
  /\ MaxIds \in Nat /\ Stored \in 0 .. MaxIds /\ MaxCalls \in Nat /\ MaxFaults \in Nat
  /\ MaxSnaps \in Nat /\ MaxForget \in Nat \ {0} /\ Ttl \in Nat
  /\ SweepBatch \in Nat \ {0} /\ RecallWidth \in Nat \ {0}
  /\ NoEntity \notin Entities /\ Entities # {} /\ Texts # {}
  /\ None \notin Record /\ None \notin Ids /\ None \notin Texts
  /\ UserEdgeTypes \subseteq EdgeTypes
  /\ ClockSteps \subseteq Nat
  /\ SnapshotTargets \in BOOLEAN /\ SnapshotSources \in BOOLEAN
  /\ Menu \in [Clients -> SUBSET Ops]

VARIABLES
  mem,       \* Default CF
  temporal,  \* Temporal CF: <<<<entity, created>>, id>>
  vec,       \* Vectors CF: the content each node embeds
  avec,      \* VectorsAssociative CF: the ids it holds
  fwd, rev,  \* Graph CF: forward and reverse keys
  tombs,     \* Meta CF: tombstones
  cands,     \* Meta CF: auto-forget candidates
  marks,     \* Meta CF: insights marked stale
  cursor,    \* Meta CF: decay cursor (0: empty)
  hnsw,      \* in memory: live nodes of the main graph, with their content
  assoc,     \* in memory: live nodes of the associative graph
  nextId,    \* ulid_gen
  clock,     \* now_microseconds
  pc, task,  \* where each client is, and what its operation has prepared
  calls, faults,
  \* history variables
  snaps,     \* ids revise gave to snapshots
  acked,     \* ids whose remember has returned Ok
  doomed,    \* ids a delete or a forget resolved as its target
  outdated   \* <<op, e>>: op revised or forgot the source that insight edge e names
             \* when the edge was stored, or the edge was stored before op was done

store == <<mem, temporal, vec, avec, fwd, rev>>
meta == <<tombs, cands, marks, cursor>>
memory == <<hnsw, assoc>>
bounds == <<calls, faults>>
history == <<snaps, acked, doomed, outdated>>
vars == <<store, meta, memory, nextId, clock, pc, task, bounds, history>>

NoBatch == [put |-> [i \in Ids |-> None], del |-> {}, tput |-> {}, tdel |-> {},
            vput |-> {}, aput |-> {}, eput |-> {}, fdel |-> {}, rdel |-> {},
            tombs |-> {}]
\* todo: ids to tombstone in memory once the batch is written (of a sweep: the
\* ids of its batch).  touched: ids whose insights become stale (of a sweep:
\* the new auto-forget candidates).
Task == [op : Ops \cup {"none"}, id : Ids \cup {None}, batch : Batch,
         todo : SUBSET Ids, touched : SUBSET Ids]
NoTask == [op |-> "none", id |-> None, batch |-> NoBatch,
           todo |-> {}, touched |-> {}]

\* A memory of an earlier session.
Earlier(i) == [entity |-> CHOOSE e \in Entities : TRUE, created |-> i,
               kind |-> "episode", text |-> CHOOSE t \in Texts : TRUE]

\* The engine has just been opened on a database with Stored memories.
Init ==
  /\ mem = [i \in Ids |-> IF i <= Stored THEN Earlier(i) ELSE None]
  /\ vec = [i \in Ids |-> IF i <= Stored THEN Earlier(i).text ELSE None]
  /\ temporal = {<<<<Earlier(i).entity, i>>, i>> : i \in 1 .. Stored}
  /\ avec = 1 .. Stored /\ fwd = {} /\ rev = {}
  /\ tombs = {} /\ cands = {} /\ marks = {} /\ cursor = 0
  /\ hnsw = vec /\ assoc = avec
  /\ nextId = Stored + 1 /\ clock = Stored + 1 /\ calls = 0 /\ faults = 0
  /\ pc = [c \in Clients |-> "idle"] /\ task = [c \in Clients |-> NoTask]
  /\ snaps = {} /\ acked = 1 .. Stored /\ doomed = {} /\ outdated = {}

-----------------------------------------------------------------------------
(* Reading the store                                                       *)

Live == {i \in Ids : mem[i] # None}

\* Ids a caller can hold: remember returned them, or a listing shows them.
Known == {i \in acked \cup Live : SnapshotTargets \/ i \notin snaps}

FirstN(S, n) == {i \in S : Cardinality({j \in S : j < i}) < n}

SnapshotsOfAnyEdge(i) ==          \* mutant: the edge type is not looked at
  {j \in Ids : \E t \in EdgeTypes : <<i, t, j>> \in fwd}

\* find_revision_snapshots: targets of RevisedFrom edges that no edge of
\* another type points at.
SnapshotsOf(i) ==
  {j \in Ids : /\ <<i, "revised_from", j>> \in fwd
               /\ \A e \in rev : e[3] = j => e[2] = "revised_from"}

\* collect_edge_keys_for_delete: a forward scan from the memory and a
\* reverse scan to it; each key found brings its counterpart along.
Touching(i) == {e \in fwd : e[1] = i} \cup {e \in rev : e[3] = i}

KeyOf(m) == IF m.entity = NoEntity THEN {} ELSE {<<m.entity, m.created>>}

-----------------------------------------------------------------------------
(* Preparing a batch                                                       *)

InsertBatch(i, m, links) ==
  [NoBatch EXCEPT !.put = [NoBatch.put EXCEPT ![i] = m],
                  !.tput = {<<k, i>> : k \in KeyOf(m)}, !.vput = {i}, !.aput = {i},
                  !.eput = {<<i, l[1], l[2]>> : l \in links}]

DeleteOneWay(S) ==        \* mutant: the reverse scan leaves the forward keys
  [NoBatch EXCEPT !.del = S, !.tdel = UNION {KeyOf(mem[i]) : i \in S},
                  !.fdel = {e \in fwd : e[1] \in S},
                  !.rdel = UNION {Touching(i) : i \in S}]

DeleteBatch(S) ==
  LET edges == UNION {Touching(i) : i \in S}
  IN  [NoBatch EXCEPT !.del = S, !.tdel = UNION {KeyOf(mem[i]) : i \in S},
                      !.fdel = edges, !.rdel = edges]

\* Snapshots beyond the retention limit, oldest first; the one being
\* created counts.
Excess(i) ==
  LET found == SnapshotsOf(i)
      total == Cardinality(found) + 1
  IN  IF MaxSnaps = 0 \/ total <= MaxSnaps THEN {}
      ELSE FirstN(found, total - MaxSnaps)

UpdateKeepsVector(i, old, new, edges) ==    \* mutant: Vectors is left to the commit
  [NoBatch EXCEPT !.tdel = KeyOf(old), !.tput = {<<k, i>> : k \in KeyOf(new)},
                  !.eput = edges]

UpdateIndexesSnapshot(i, old, new, edges) ==    \* mutant: both records get a vector
  [NoBatch EXCEPT !.tdel = KeyOf(old), !.tput = {<<k, i>> : k \in KeyOf(new)},
                  !.vput = {i} \cup {e[3] : e \in edges}, !.eput = edges]

\* prepare_update: VectorsAssociative is not part of it.
UpdateBatch(i, old, new, edges) ==
  [NoBatch EXCEPT !.tdel = KeyOf(old), !.tput = {<<k, i>> : k \in KeyOf(new)},
                  !.vput = {i}, !.eput = edges]

ReviseSwapped(i, snap, text, entity, links) ==  \* mutant: the snapshot gets the new record
  LET old == mem[i]
      new == [old EXCEPT !.text = text, !.entity = entity, !.kind = "revision"]
      edges == {<<i, "revised_from", snap>>} \cup {<<i, l[1], l[2]>> : l \in links}
      pruned == UNION {Touching(j) : j \in Excess(i)}
  IN  [UpdateBatch(i, old, new, edges) EXCEPT
         !.put = [NoBatch.put EXCEPT ![snap] = new, ![i] = new],
         !.del = Excess(i), !.fdel = pruned, !.rdel = pruned]

\* The snapshot, the revised record, the index operations, and the deletion of
\* the excess snapshots, which passes no entity and so no temporal key.
ReviseBatch(i, snap, text, entity, links) ==
  LET old == mem[i]
      new == [old EXCEPT !.text = text, !.entity = entity, !.kind = "revision"]
      edges == {<<i, "revised_from", snap>>} \cup {<<i, l[1], l[2]>> : l \in links}
      pruned == UNION {Touching(j) : j \in Excess(i)}
  IN  [UpdateBatch(i, old, new, edges) EXCEPT
         !.put = [NoBatch.put EXCEPT ![snap] = old, ![i] = new],
         !.del = Excess(i), !.fdel = pruned, !.rdel = pruned]

\* Put back whole records, as they were when they were read.
WriteBackBatch(S) ==
  [NoBatch EXCEPT !.put = [i \in Ids |-> IF i \in S THEN mem[i] ELSE None]]

-----------------------------------------------------------------------------
(* Control                                                                 *)

\* Client c starts an operation of its menu; time passes.
Start(c, op) ==
  /\ pc[c] = "idle" /\ op \in Menu[c] /\ calls < MaxCalls
  /\ calls' = calls + 1
  /\ \E d \in ClockSteps : clock' = clock + d
  /\ UNCHANGED faults

Become(c, label, t) ==
  /\ pc' = [pc EXCEPT ![c] = label]
  /\ task' = [task EXCEPT ![c] = IF label = "idle" THEN NoTask ELSE t]

Prepared(op, i, b, todo, touched) ==
  [op |-> op, id |-> i, batch |-> b, todo |-> todo, touched |-> touched]

Goto(c, label) == Become(c, label, task[c])

\* The edges a caller may pass along: none, or one to an id it holds.
Links == {{}} \cup {{l} : l \in UserEdgeTypes \X Known}

-----------------------------------------------------------------------------
(* First steps: validate, read, build the batch                            *)

BeginRemember(c) ==
  /\ Start(c, "remember") /\ nextId \in Ids
  /\ \E e \in Entities \cup {NoEntity}, t \in Texts, links \in Links :
       LET m == [entity |-> e, created |-> clock', kind |-> "episode", text |-> t]
       IN  Become(c, "write",
             Prepared("remember", nextId, InsertBatch(nextId, m, links), {}, {}))
  /\ nextId' = nextId + 1
  /\ UNCHANGED <<store, meta, memory, history>>

\* What a reflection may take up: episodes, a scan of Default showing those that are
\* snapshots too.
Sources == {i \in Live : mem[i].kind = "episode" /\ (SnapshotSources \/ i \notin snaps)}

\* store_insight: links the insight to a memory the reflection saw.
BeginInsight(c) ==
  /\ Start(c, "insight") /\ nextId \in Ids
  /\ \E src \in Sources, e \in Entities \cup {NoEntity}, t \in Texts :
       LET m == [entity |-> e, created |-> clock', kind |-> "insight", text |-> t]
           b == InsertBatch(nextId, m, {<<"insight_from", src>>})
       IN  Become(c, "write", Prepared("insight", nextId, b, {}, {}))
  /\ nextId' = nextId + 1
  /\ UNCHANGED <<store, meta, memory, history>>

\* add_edge checks neither endpoint: one batch with the two keys.
AddEdge(c) ==
  /\ Start(c, "add_edge")
  /\ \E e \in Known \X UserEdgeTypes \X Known :
       fwd' = fwd \cup {e} /\ rev' = rev \cup {e}
  /\ UNCHANGED <<mem, temporal, vec, avec, meta, memory, nextId, pc, task, history>>

BeginRevise(c) ==
  /\ Start(c, "revise") /\ nextId \in Ids
  /\ \E i \in Known \cap Live, t \in Texts,
        e \in Entities \cup {NoEntity}, links \in Links :
       Become(c, "write",
         Prepared("revise", i, ReviseBatch(i, nextId, t, e, links), Excess(i), {i}))
  /\ nextId' = nextId + 1
  /\ snaps' = snaps \cup {nextId}
  /\ UNCHANGED <<store, meta, memory, acked, doomed, outdated>>

BeginDelete(c) ==
  /\ Start(c, "delete")
  /\ \E i \in Known \cap Live :
       /\ Become(c, "write", Prepared("delete", i, DeleteBatch({i}), {i}, {}))
       /\ doomed' = doomed \cup {i}
  /\ UNCHANGED <<store, meta, memory, nextId, snaps, acked, outdated>>

\* forget_for_tenant up to its WriteBatch, for the candidates S: every
\* candidate, its snapshots, and a tombstone per candidate.
PrepareForget(c, op, S) ==
  LET all == S \cup {j \in Live : \E i \in S : j \in SnapshotsOf(i)}
      b == [DeleteBatch(all) EXCEPT !.tombs = {<<clock', i>> : i \in S}]
  IN  /\ Become(c, "write", Prepared(op, None, b, all, all))
      /\ doomed' = doomed \cup S

BeginForget(c) ==
  /\ Start(c, "forget")
  /\ \E S \in SUBSET (Known \cap Live) :
       /\ S # {} /\ Cardinality(S) <= MaxForget
       /\ PrepareForget(c, "forget", S)
  /\ UNCHANGED <<store, meta, memory, nextId, snaps, acked, outdated>>

\* By entity: the temporal index gives the candidates.
BeginForgetEntity(c) ==
  /\ Start(c, "forget_entity")
  /\ \E e \in Entities :
       LET listed == FirstN({x[2] : x \in {y \in temporal : y[1][1] = e}},
                            2 * MaxForget)
           hit == {i \in listed \cap Live : mem[i].entity = e}
       IN  hit # {} /\ PrepareForget(c, "forget_entity", FirstN(hit, MaxForget))
  /\ UNCHANGED <<store, meta, memory, nextId, snaps, acked, outdated>>

\* By staleness, decay, access count or kind: a scan of the whole Default CF,
\* snapshots included; any subset may meet the criteria.
BeginForgetScan(c) ==
  /\ Start(c, "forget_scan")
  /\ \E hit \in SUBSET FirstN(Live, 2 * MaxForget) :
       hit # {} /\ PrepareForget(c, "forget_scan", FirstN(hit, MaxForget))
  /\ UNCHANGED <<store, meta, memory, nextId, snaps, acked, outdated>>

\* auto_forget: the recorded candidates that still exist; nothing but the
\* clearing is left to do when none does.
BeginAutoForget(c) ==
  /\ Start(c, "auto_forget") /\ cands # {}
  /\ LET found == FirstN(cands \cap Live, MaxForget)
     IN  \/ found # {} /\ PrepareForget(c, "auto_forget", found)
         \/ /\ found = {} /\ UNCHANGED doomed
            /\ Become(c, "clear", Prepared("auto_forget", None, NoBatch, {}, {}))
  /\ UNCHANGED <<store, meta, memory, nextId, snaps, acked, outdated>>

\* gc_tombstones; the cutoff is now saturating_sub ttl.
GcTombstones(c) ==
  /\ Start(c, "gc")
  /\ tombs' = {x \in tombs : x[1] >= clock' - Ttl}
  /\ UNCHANGED <<store, cands, marks, cursor, memory, nextId, pc, task, history>>

\* recall and prime: what an index returns and Default still holds is scored,
\* then each of those records is written back with its counters raised.
BeginRecall(c) ==
  /\ Start(c, "recall")
  /\ LET found == {i \in Live : hnsw[i] # None \/ i \in assoc
                                  \/ \E x \in temporal : x[2] = i}
     IN  \E S \in SUBSET found :
           /\ S # {} /\ Cardinality(S) <= RecallWidth
           /\ Become(c, "write", Prepared("recall", None, WriteBackBatch(S), {}, {}))
  /\ UNCHANGED <<store, meta, memory, nextId, history>>

\* run_decay_sweep with one batch to a sweep: the records after the cursor, snapshots
\* included; some scores moved by more than epsilon, some fell below the
\* threshold.  With nothing after the cursor the sweep wraps around.
BeginSweep(c) ==
  /\ Start(c, "sweep")
  /\ LET batch == FirstN({i \in Live : i > cursor}, SweepBatch)
     IN  \/ /\ batch = {} /\ cursor' = 0
            /\ UNCHANGED <<pc, task>>
         \/ /\ batch # {} /\ UNCHANGED cursor
            /\ \E moved \in SUBSET batch, low \in SUBSET batch :
                 Become(c, "write",
                   Prepared("sweep", None, WriteBackBatch(moved), batch, low))
  /\ UNCHANGED <<store, tombs, cands, marks, memory, nextId, history>>

-----------------------------------------------------------------------------
(* The WriteBatch                                                          *)

\* Column family contents once b is applied.  revise's puts and its pruning
\* deletes never name the same key of Default or Vectors.
ApplyBatch(b) ==
  /\ mem' = [i \in Ids |-> IF i \in b.del THEN None
                           ELSE IF b.put[i] # None THEN b.put[i] ELSE mem[i]]
  /\ vec' = [i \in Ids |-> IF i \in b.del THEN None
                           ELSE IF i \in b.vput THEN b.put[i].text ELSE vec[i]]
  /\ avec' = (avec \cup b.aput) \ b.del
  /\ temporal' = {x \in temporal : /\ x[1] \notin b.tdel
                                   /\ \A y \in b.tput : y[1] # x[1]} \cup b.tput
  /\ fwd' = (fwd \cup b.eput) \ b.fdel
  /\ rev' = (rev \cup b.eput) \ b.rdel
  /\ tombs' = tombs \cup b.tombs

AfterWrite(op) ==
  CASE op \in {"remember", "insight"} -> "insert"
    [] op = "revise" -> "reindex"
    [] op = "recall" -> "idle"
    [] op = "sweep" -> "candidates"
    [] OTHER -> "tombstone"

\* Has a revise of i written its batch, and not yet looked for i's insights?
Revising(i) == \E d \in Clients : /\ task[d].op = "revise" /\ i \in task[d].touched
                                 /\ pc[d] \in {"reindex", "insert", "persist", "tombstone", "mark"}

Write(c) ==
  /\ pc[c] = "write"
  /\ ApplyBatch(task[c].batch)
  /\ outdated' = outdated
       \cup {<<task[c].op, e>> :
               e \in {x \in fwd : x[2] = "insight_from" /\ x[3] \in task[c].touched}}
       \cup {<<"revise", e>> :
               e \in {x \in task[c].batch.eput : x[2] = "insight_from" /\ Revising(x[3])}}
  /\ Goto(c, AfterWrite(task[c].op))
  /\ UNCHANGED <<cands, marks, cursor, memory, nextId, clock, bounds,
                 snaps, acked, doomed>>

-----------------------------------------------------------------------------
(* After the WriteBatch: the in-memory graphs, and what is persisted again *)

\* revise: commit_delete of the revised id, in both in-memory graphs.
Reindex(c) ==
  /\ pc[c] = "reindex"
  /\ hnsw' = [hnsw EXCEPT ![task[c].id] = None]
  /\ assoc' = assoc \ {task[c].id}
  /\ Goto(c, "insert")
  /\ UNCHANGED <<store, meta, nextId, clock, bounds, history>>

Text(c) == task[c].batch.put[task[c].id].text

\* commit_insert, under the write lock of the graphs.
Insert(c) ==
  /\ pc[c] = "insert"
  /\ hnsw' = [hnsw EXCEPT ![task[c].id] = Text(c)]
  /\ Goto(c, "persist")
  /\ UNCHANGED <<store, meta, assoc, nextId, clock, bounds, history>>

AfterPersist(t) ==
  CASE t.op = "remember" -> "assoc"
    [] t.op = "insight" -> "idle"
    [] OTHER -> IF t.todo = {} THEN "mark" ELSE "tombstone"

\* commit_insert, the lock released: the node is put again with its neighbours.
Persist(c) ==
  /\ pc[c] = "persist"
  /\ vec' = [vec EXCEPT ![task[c].id] = Text(c)]
  /\ Goto(c, AfterPersist(task[c]))
  /\ UNCHANGED <<mem, temporal, avec, fwd, rev, meta, memory, nextId, clock,
                 bounds, history>>

Assoc(c) ==
  /\ pc[c] = "assoc"
  /\ assoc' = assoc \cup {task[c].id}
  /\ Goto(c, "assoc_persist")
  /\ UNCHANGED <<store, meta, hnsw, nextId, clock, bounds, history>>

\* The second put of the associative node; remember then returns.
AssocPersist(c) ==
  /\ pc[c] = "assoc_persist"
  /\ avec' = avec \cup {task[c].id}
  /\ acked' = acked \cup {task[c].id}
  /\ Goto(c, "idle")
  /\ UNCHANGED <<mem, temporal, vec, fwd, rev, meta, memory, nextId, clock,
                 bounds, snaps, doomed, outdated>>

\* commit_delete of one id that the batch deleted.
Tombstone(c) ==
  /\ pc[c] = "tombstone"
  /\ \E i \in task[c].todo :
       LET rest == task[c].todo \ {i}
       IN  /\ hnsw' = [hnsw EXCEPT ![i] = None]
           /\ assoc' = assoc \ {i}
           /\ Become(c, IF rest # {} THEN "tombstone"
                        ELSE IF task[c].op = "delete" THEN "idle" ELSE "mark",
                     [task[c] EXCEPT !.todo = rest])
  /\ UNCHANGED <<store, meta, nextId, clock, bounds, history>>

AfterMark(c, rest) ==
  IF rest # {} THEN "mark"
  ELSE IF task[c].op = "auto_forget" THEN "clear" ELSE "idle"

MarkSources(c) ==         \* mutant: follows the edge the wrong way
  /\ pc[c] = "mark"
  /\ \E i \in task[c].touched :
       LET rest == task[c].touched \ {i}
       IN  /\ marks' = marks \cup
                {e[3] : e \in {x \in fwd : x[2] = "insight_from" /\ x[1] = i}}
           /\ Become(c, AfterMark(c, rest), [task[c] EXCEPT !.touched = rest])
  /\ UNCHANGED <<store, tombs, cands, cursor, memory, nextId, clock, bounds, history>>

\* mark_insights_stale_for_source, for one id the operation touched.
Mark(c) ==
  /\ pc[c] = "mark"
  /\ \E i \in task[c].touched :
       LET rest == task[c].touched \ {i}
       IN  /\ marks' = marks \cup
                {e[1] : e \in {x \in rev : x[2] = "insight_from" /\ x[3] = i}}
           /\ Become(c, AfterMark(c, rest), [task[c] EXCEPT !.touched = rest])
  /\ UNCHANGED <<store, tombs, cands, cursor, memory, nextId, clock, bounds, history>>

\* auto_forget clears every candidate there is by now.
ClearCandidates(c) ==
  /\ pc[c] = "clear"
  /\ cands' = {}
  /\ Goto(c, "idle")
  /\ UNCHANGED <<store, tombs, marks, cursor, memory, nextId, clock, bounds, history>>

PutCandidates(c) ==
  /\ pc[c] = "candidates"
  /\ cands' = cands \cup task[c].touched
  /\ Goto(c, "cursor")
  /\ UNCHANGED <<store, tombs, marks, cursor, memory, nextId, clock, bounds, history>>

AfterCursor(t) == IF Cardinality(t.todo) < SweepBatch THEN "rewind" ELSE "idle"

PutCursor(c) ==
  /\ pc[c] = "cursor"
  /\ \E i \in task[c].todo : (\A j \in task[c].todo : j <= i) /\ cursor' = i
  /\ Goto(c, AfterCursor(task[c]))
  /\ UNCHANGED <<store, tombs, cands, marks, memory, nextId, clock, bounds, history>>

\* A short batch was the last one: a second put resets the cursor.
Rewind(c) ==
  /\ pc[c] = "rewind"
  /\ cursor' = 0
  /\ Goto(c, "idle")
  /\ UNCHANGED <<store, tombs, cands, marks, memory, nextId, clock, bounds, history>>

-----------------------------------------------------------------------------
(* Faults                                                                  *)

\* A write fails.  The operation returns the error with what it did so far in
\* place; the sweep logs it and goes on; mark and clear ignore it.
StorageError(c) ==
  /\ faults < MaxFaults /\ faults' = faults + 1
  /\ \/ pc[c] \in {"persist", "assoc_persist", "clear", "rewind"} /\ Goto(c, "idle")
     \/ pc[c] = "cursor" /\ Goto(c, AfterCursor(task[c]))
     \/ /\ pc[c] = "write"
        /\ Goto(c, IF task[c].op = "sweep" THEN "candidates" ELSE "idle")
     \/ pc[c] = "candidates" /\ Goto(c, "cursor")
     \/ /\ pc[c] = "mark"
        /\ \E i \in task[c].touched :
             LET rest == task[c].touched \ {i}
             IN  Become(c, AfterMark(c, rest), [task[c] EXCEPT !.touched = rest])
  /\ UNCHANGED <<store, meta, memory, nextId, clock, calls, history>>

\* The process dies and the engine is opened again: both graphs are rebuilt
\* from their column families.
Crash ==
  /\ faults < MaxFaults /\ faults' = faults + 1
  /\ pc' = [c \in Clients |-> "idle"] /\ task' = [c \in Clients |-> NoTask]
  /\ hnsw' = vec /\ assoc' = avec
  /\ UNCHANGED <<store, meta, nextId, clock, calls, history>>

Begin(c) ==
  \/ BeginRemember(c) \/ BeginInsight(c) \/ AddEdge(c) \/ BeginRevise(c)
  \/ BeginDelete(c) \/ BeginForget(c) \/ BeginForgetEntity(c)
  \/ BeginForgetScan(c) \/ BeginAutoForget(c) \/ GcTombstones(c)
  \/ BeginRecall(c) \/ BeginSweep(c)

Continue(c) ==
  \/ Write(c) \/ Reindex(c) \/ Insert(c) \/ Persist(c) \/ Assoc(c)
  \/ AssocPersist(c) \/ Tombstone(c) \/ Mark(c) \/ ClearCandidates(c)
  \/ PutCandidates(c) \/ PutCursor(c) \/ Rewind(c)

Next == Crash \/ \E c \in Clients : Begin(c) \/ Continue(c) \/ StorageError(c)

Spec == Init /\ [][Next]_vars

-----------------------------------------------------------------------------
(* Properties                                                              *)

TypeOK ==
  /\ mem \in [Ids -> Record \cup {None}]
  /\ temporal \subseteq TemporalEntry
  /\ vec \in [Ids -> Texts \cup {None}] /\ avec \subseteq Ids
  /\ fwd \subseteq Edge /\ rev \subseteq Edge
  /\ tombs \subseteq Stamped /\ cands \subseteq Ids /\ marks \subseteq Ids
  /\ cursor \in Ids \cup {0}
  /\ hnsw \in [Ids -> Texts \cup {None}] /\ assoc \subseteq Ids
  /\ nextId \in 1 .. MaxIds + 1 /\ clock \in Nat
  /\ calls \in 0 .. MaxCalls /\ faults \in 0 .. MaxFaults
  /\ pc \in [Clients -> Labels] /\ task \in [Clients -> Task]
  /\ snaps \subseteq Ids /\ acked \subseteq Ids
  /\ doomed \subseteq Ids /\ outdated \subseteq Ops \X Edge

Quiet == \A c \in Clients : pc[c] = "idle"

Primaries == Live \ snaps

\* However inserts, deletes, added edges and crashes interleave, the two keys
\* of an edge are in the Graph CF together or not at all: a walk along forward
\* keys and one along reverse keys see the same graph.
GraphSymmetric == fwd = rev

\* "Stored in default CF, not indexed": no interleaving, crash or write-back
\* makes a snapshot reachable through the temporal, the main or the
\* associative index.
SnapshotsNeverIndexed ==
  \A s \in snaps : /\ vec[s] = None /\ hnsw[s] = None
                   /\ s \notin avec /\ s \notin assoc
                   /\ \A x \in temporal : x[2] # s

\* A memory whose remember returned Ok, and which no delete or forget named,
\* stays in Default and in both Vectors CFs, and is in the main in-memory
\* graph except while a revise is between its tombstone and its insert.
NoAcknowledgedMemoryLost ==
  \A i \in acked \ doomed :
    /\ mem[i] # None /\ vec[i] # None /\ i \in avec
    /\ hnsw[i] # None \/ \E c \in Clients : pc[c] = "insert" /\ task[c].id = i

\* Default and the Vectors CFs agree in every state, a crash included: the
\* primaries, no snapshot and nothing else is indexed, under its own content.
DurableAgreement ==
  /\ avec = Primaries
  /\ \A i \in Ids : vec[i] = IF i \in Primaries THEN mem[i].text ELSE None

\* The temporal index lists exactly the primaries that have an entity, each
\* under the key its record gives.
TemporalAgreement ==
  temporal = UNION {{<<k, i>> : k \in KeyOf(mem[i])} : i \in Primaries}

\* Once no operation is under way the in-memory graph answers with exactly the
\* primaries and their present content.
SearchAgreement ==
  Quiet => \A i \in Ids : hnsw[i] = IF i \in Primaries THEN mem[i].text ELSE None

\* For one client, every store says the same of every memory, through every
\* crash and failed write.
StoresAgree == DurableAgreement /\ TemporalAgreement /\ SearchAgreement

\* Once no operation is under way, an insight is marked stale if it was stored
\* before its source was revised, or between that revise's batch and its last step,
\* unless a crash or a failed put took the mark.  (One stored after a revise
\* returned is not marked, even if it was made of the earlier text.)
RevisedSourcesMarked ==
  Quiet /\ faults = 0 =>
    \A x \in outdated : x[1] = "revise" /\ x[2] \in fwd => x[2][1] \in marks

\* Once no operation is under way, a live insight whose source was forgotten is
\* marked stale.
ForgottenSourcesMarked ==
  Quiet /\ faults = 0 =>
    \A x \in outdated : x[1] # "revise" /\ x[2][1] \in Live => x[2][1] \in marks

\* Once no operation is under way, a memory that was deleted or forgotten is
\* in no column family and no in-memory graph.
ForgottenLeavesNoTrace ==
  Quiet => \A i \in doomed :
    /\ mem[i] = None /\ vec[i] = None /\ hnsw[i] = None
    /\ i \notin avec /\ i \notin assoc
    /\ \A x \in temporal : x[2] # i

\* Once no operation is under way, the associative graph holds every memory.
AssocAgreement == Quiet => assoc = Primaries
=============================================================================
