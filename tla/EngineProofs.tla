---------------------------- MODULE EngineProofs ----------------------------
(***************************************************************************)
(* Proofs about Engine for any number of clients, any menu of operations,  *)
(* any bounds and every interleaving, crash and failed write.              *)
(***************************************************************************)
EXTENDS EngineService, FiniteSetTheorems, SequenceTheorems, TLAPS

-----------------------------------------------------------------------------
(* The batches the operations prepare are well typed, delete both keys of   *)
(* an edge or neither, and index only records they store.                   *)

Sound(b) == /\ b \in Batch /\ b.fdel = b.rdel
            /\ \A i \in b.vput : b.put[i] \in Record

\* An empty batch is sound.
LEMMA NoBatchSound == Sound(NoBatch)
BY DEF Sound, NoBatch, Batch

\* The key of a record is a key of the Temporal column family.
LEMMA KeyOfType ==
  ASSUME NEW m \in Record
  PROVE  KeyOf(m) \subseteq TemporalKey
BY EngineAssumption DEF KeyOf, Record, TemporalKey

\* The batch of a remember is sound and indexes what it stores.
LEMMA InsertBatchSound ==
  ASSUME NEW i \in Ids, NEW m \in Record, NEW links \in SUBSET (EdgeTypes \X Ids)
  PROVE  Sound(InsertBatch(i, m, links)) /\ i \in InsertBatch(i, m, links).vput
<1> DEFINE put == [NoBatch.put EXCEPT ![i] = m]
           tput == {<<k, i>> : k \in KeyOf(m)}
           eput == {<<i, l[1], l[2]>> : l \in links}
<1>1. put \in [Ids -> Record \cup {None}]
  BY DEF NoBatch
<1>2. tput \in SUBSET TemporalEntry
  BY KeyOfType DEF TemporalEntry
<1>3. eput \in SUBSET Edge
  BY DEF Edge
<1>4. NoBatch \in Batch /\ NoBatch.fdel = NoBatch.rdel
  BY NoBatchSound DEF Sound
<1> DEFINE b1 == [NoBatch EXCEPT !.put = put, !.tput = tput]
           b2 == [b1 EXCEPT !.vput = {i}, !.aput = {i}, !.eput = eput]
<1> HIDE DEF put, tput, eput
<1>5. b1 \in Batch /\ b1.fdel = b1.rdel
  BY <1>1, <1>2, <1>4 DEF Batch
<1>6. b2 \in Batch /\ b2.fdel = b2.rdel /\ b2.vput = {i} /\ b2.put = put
  <2>1. b1.put = put
    BY <1>4 DEF Batch
  <2> HIDE DEF b1
  <2> QED BY <1>3, <1>5, <2>1 DEF Batch
<1>7. InsertBatch(i, m, links) = b2
  BY DEF InsertBatch, put, tput, eput
<1>8. put[i] = m
  BY DEF put, NoBatch
<1> HIDE DEF b2
<1> QED
  BY <1>6, <1>7, <1>8 DEF Sound

\* A live memory has a record.
LEMMA LiveType ==
  ASSUME TypeOK, NEW i \in Live
  PROVE  i \in Ids /\ mem[i] \in Record
BY DEF TypeOK, Live

\* The edges at a memory are edges.
LEMMA TouchingType ==
  ASSUME TypeOK, NEW i
  PROVE  Touching(i) \subseteq Edge
BY DEF TypeOK, Touching

\* The batch of a delete removes both keys of each edge.
LEMMA DeleteBatchSound ==
  ASSUME TypeOK, NEW S \in SUBSET Live
  PROVE  Sound(DeleteBatch(S))
<1> DEFINE edges == UNION {Touching(i) : i \in S}
           tdel == UNION {KeyOf(mem[i]) : i \in S}
<1>1. DeleteBatch(S) =
        [NoBatch EXCEPT !.del = S, !.tdel = tdel, !.fdel = edges, !.rdel = edges]
  BY DEF DeleteBatch
<1>2. edges \in SUBSET Edge
  BY TouchingType
<1>3. tdel \in SUBSET TemporalKey
  BY LiveType, KeyOfType
<1>4. S \in SUBSET Ids
  BY LiveType
<1>5. NoBatch \in Batch /\ NoBatch.vput = {}
  BY NoBatchSound DEF Sound, NoBatch
<1> HIDE DEF edges, tdel
<1> QED
  BY <1>1, <1>2, <1>3, <1>4, <1>5 DEF Sound, Batch

\* The snapshots to prune are memories.
LEMMA ExcessType ==
  ASSUME NEW i
  PROVE  Excess(i) \subseteq Ids
BY DEF Excess, FirstN, SnapshotsOf

\* The batch of a revise is sound, the pruning of old snapshots included.
LEMMA ReviseBatchSound ==
  ASSUME TypeOK, NEW i \in Live, NEW snap \in Ids, NEW t \in Texts,
         NEW e \in Entities \cup {NoEntity},
         NEW links \in SUBSET (EdgeTypes \X Ids)
  PROVE  /\ Sound(ReviseBatch(i, snap, t, e, links))
         /\ i \in ReviseBatch(i, snap, t, e, links).vput
<1> DEFINE old == mem[i]
           new == [old EXCEPT !.text = t, !.entity = e, !.kind = "revision"]
           edges == {<<i, "revised_from", snap>>} \cup {<<i, l[1], l[2]>> : l \in links}
           pruned == UNION {Touching(j) : j \in Excess(i)}
           put == [NoBatch.put EXCEPT ![snap] = old, ![i] = new]
           tput == {<<k, i>> : k \in KeyOf(new)}
<1>1. ReviseBatch(i, snap, t, e, links) =
        [[NoBatch EXCEPT !.tdel = KeyOf(old), !.tput = tput, !.vput = {i},
                         !.eput = edges]
           EXCEPT !.put = put, !.del = Excess(i), !.fdel = pruned, !.rdel = pruned]
  BY DEF ReviseBatch, UpdateBatch
<1>2. old \in Record /\ i \in Ids
  BY LiveType
<1>3. new \in Record
  BY <1>2 DEF Record, Kinds
<1>4. pruned \in SUBSET Edge
  BY TouchingType
<1>5. edges \in SUBSET Edge
  BY <1>2 DEF Edge, EdgeTypes
<1>6. KeyOf(old) \in SUBSET TemporalKey /\ tput \in SUBSET TemporalEntry
  BY <1>2, <1>3, KeyOfType DEF TemporalEntry
<1>7. put \in [Ids -> Record \cup {None}]
  BY <1>2, <1>3 DEF NoBatch
<1>8. NoBatch \in Batch /\ Excess(i) \in SUBSET Ids
  BY NoBatchSound, ExcessType DEF Sound
<1> HIDE DEF old, new, edges, pruned, put, tput
<1> DEFINE b1 == [NoBatch EXCEPT !.tdel = KeyOf(old), !.tput = tput, !.vput = {i},
                                 !.eput = edges]
           b2 == [b1 EXCEPT !.put = put, !.del = Excess(i), !.fdel = pruned,
                            !.rdel = pruned]
<1>9. b1 \in Batch /\ b1.vput = {i}
  BY <1>2, <1>5, <1>6, <1>8 DEF Batch
<1>10. b2 \in Batch /\ b2.fdel = b2.rdel /\ b2.vput = {i} /\ b2.put = put
  <2> HIDE DEF b1
  <2> QED BY <1>4, <1>7, <1>8, <1>9 DEF Batch
<1>11. put[i] \in Record
  BY <1>2, <1>3 DEF put, NoBatch
<1> HIDE DEF b2
<1> QED
  BY <1>1, <1>10, <1>11 DEF Sound, b2

\* A write-back of records touches no index.
LEMMA WriteBackBatchSound ==
  ASSUME TypeOK, NEW S \in SUBSET Ids
  PROVE  Sound(WriteBackBatch(S))
<1> DEFINE put == [i \in Ids |-> IF i \in S THEN mem[i] ELSE None]
<1>1. put \in [Ids -> Record \cup {None}]
  BY DEF TypeOK
<1>2. WriteBackBatch(S) = [NoBatch EXCEPT !.put = put]
  BY DEF WriteBackBatch
<1>3. NoBatch \in Batch /\ NoBatch.fdel = NoBatch.rdel /\ NoBatch.vput = {}
  BY NoBatchSound DEF Sound, NoBatch
<1> HIDE DEF put
<1> QED
  BY <1>1, <1>2, <1>3 DEF Sound, Batch

Writers == {"remember", "insight", "revise"}

\* A task whose batch is sound and that indexes the memory it writes.
TaskOK(t) == /\ t \in Task /\ Sound(t.batch)
             /\ t.op \in Writers => t.id \in t.batch.vput

\* The labels each operation passes through, as far as its steps rely on them.
Phase(label, op) ==
  /\ label \in {"reindex", "insert", "persist", "assoc", "assoc_persist"} => op \in Writers
  /\ label # "idle" => op # "none"

Tasks == \A c \in Clients : TaskOK(task[c]) /\ Phase(pc[c], task[c].op)

IInv == TypeOK /\ GraphSymmetric /\ Tasks

\* An idle client holds a well-formed empty task.
LEMMA NoTaskType == TaskOK(NoTask) /\ Phase("idle", NoTask.op)
BY NoBatchSound DEF NoTask, Task, TaskOK, Phase, Writers, Sound

\* A task prepared with a sound batch is well formed.
LEMMA PreparedType ==
  ASSUME NEW op \in Ops, NEW i \in Ids \cup {None}, NEW b, Sound(b),
         NEW todo \in SUBSET Ids, NEW touched \in SUBSET Ids,
         op \in Writers => i \in b.vput
  PROVE  /\ TaskOK(Prepared(op, i, b, todo, touched))
         /\ Prepared(op, i, b, todo, touched).op = op
BY DEF Prepared, Task, TaskOK, Sound

\* A client that goes on with a well-formed task keeps all tasks well formed.
LEMMA BecomeType ==
  ASSUME IInv, NEW c \in Clients, NEW label \in Labels, NEW t, TaskOK(t),
         Phase(label, t.op), Become(c, label, t)
  PROVE  /\ pc' \in [Clients -> Labels] /\ task' \in [Clients -> Task]
         /\ Tasks'
<1>1. pc' \in [Clients -> Labels]
  BY DEF IInv, TypeOK, Become
<1>2. task' \in [Clients -> Task]
  BY NoTaskType DEF IInv, TypeOK, Become, TaskOK
<1>3. ASSUME NEW d \in Clients
      PROVE  TaskOK(task'[d]) /\ Phase(pc'[d], task'[d].op)
  <2>1. CASE d = c
    <3>1. task'[d] = IF label = "idle" THEN NoTask ELSE t
      BY <2>1 DEF IInv, TypeOK, Become
    <3>2. pc'[d] = label
      BY <2>1 DEF IInv, TypeOK, Become
    <3> QED BY <3>1, <3>2, NoTaskType
  <2>2. CASE d # c
    BY <2>2 DEF IInv, TypeOK, Become, Tasks
  <2> QED BY <2>1, <2>2
<1>4. ASSUME NEW d \in Clients
      PROVE  TaskOK(task[d])' /\ Phase(pc[d], task[d].op)'
  BY <1>3 DEF TaskOK, Phase, Sound
<1> QED BY <1>1, <1>2, <1>4 DEF Tasks

\* Starting a call keeps the clock and the counters typed.
LEMMA StartType ==
  ASSUME IInv, NEW c, NEW op, Start(c, op)
  PROVE  clock' \in Nat /\ calls' \in 0 .. MaxCalls /\ faults' \in 0 .. MaxFaults
BY EngineAssumption DEF IInv, TypeOK, Start

\* The links a caller may give are typed edges to memories.
LEMMA LinksType ==
  ASSUME TypeOK, NEW links \in Links
  PROVE  links \in SUBSET (EdgeTypes \X Ids)
BY EngineAssumption DEF Links, Known, Live, TypeOK

\* A task that a client already holds stays well formed as it advances.
LEMMA TaskType ==
  ASSUME IInv, NEW c \in Clients
  PROVE  /\ TaskOK(task[c]) /\ Phase(pc[c], task[c].op) /\ pc[c] \in Labels
         /\ \A rest \in SUBSET Ids :
              /\ TaskOK([task[c] EXCEPT !.touched = rest])
              /\ [task[c] EXCEPT !.touched = rest].op = task[c].op
              /\ TaskOK([task[c] EXCEPT !.todo = rest])
              /\ [task[c] EXCEPT !.todo = rest].op = task[c].op
BY DEF IInv, TypeOK, Tasks, TaskOK, Task

-----------------------------------------------------------------------------
(* Each group of actions keeps the invariant.                               *)

\* First steps leave the column families and the graphs alone.
LEMMA FrameType ==
  ASSUME IInv, UNCHANGED <<store, tombs, cands, marks, memory>>,
         cursor' \in Ids \cup {0}, nextId' \in 1 .. MaxIds + 1,
         clock' \in Nat, calls' \in 0 .. MaxCalls, faults' \in 0 .. MaxFaults,
         pc' \in [Clients -> Labels], task' \in [Clients -> Task], Tasks',
         snaps' \subseteq Ids, acked' \subseteq Ids, doomed' \subseteq Ids,
         outdated' \subseteq Ops \X Edge
  PROVE  IInv'
BY DEF IInv, TypeOK, GraphSymmetric, store, memory

\* remember prepares a well-formed task.
LEMMA BeginRememberOK ==
  ASSUME IInv, NEW c \in Clients, BeginRemember(c)
  PROVE  IInv'
<1>1. PICK e \in Entities \cup {NoEntity}, t \in Texts, links \in Links :
        LET m == [entity |-> e, created |-> clock', kind |-> "episode", text |-> t]
        IN  Become(c, "write",
              Prepared("remember", nextId, InsertBatch(nextId, m, links), {}, {}))
  BY DEF BeginRemember
<1> DEFINE m == [entity |-> e, created |-> clock', kind |-> "episode", text |-> t]
<1>2. clock' \in Nat /\ calls' \in 0 .. MaxCalls /\ faults' \in 0 .. MaxFaults
  BY StartType DEF BeginRemember
<1>3. m \in Record /\ nextId \in Ids /\ links \in SUBSET (EdgeTypes \X Ids)
  BY <1>2, LinksType DEF Record, Kinds, BeginRemember, IInv
<1> HIDE DEF m
<1>4. Sound(InsertBatch(nextId, m, links)) /\ nextId \in InsertBatch(nextId, m, links).vput
  BY <1>3, InsertBatchSound
<1>5. /\ pc' \in [Clients -> Labels] /\ task' \in [Clients -> Task] /\ Tasks'
  BY <1>1, <1>3, <1>4, PreparedType, BecomeType
     DEF m, Ops, Labels, Phase, Writers
<1>6. nextId' \in 1 .. MaxIds + 1
  BY EngineAssumption DEF BeginRemember, Ids
<1> QED
  BY <1>2, <1>5, <1>6, FrameType
     DEF BeginRemember, IInv, TypeOK, store, meta, memory, history

\* Storing an insight prepares a well-formed task.
LEMMA BeginInsightOK ==
  ASSUME IInv, NEW c \in Clients, BeginInsight(c)
  PROVE  IInv'
<1>1. PICK src \in Sources, e \in Entities \cup {NoEntity}, t \in Texts :
        LET m == [entity |-> e, created |-> clock', kind |-> "insight", text |-> t]
            b == InsertBatch(nextId, m, {<<"insight_from", src>>})
        IN  Become(c, "write", Prepared("insight", nextId, b, {}, {}))
  BY DEF BeginInsight
<1> DEFINE m == [entity |-> e, created |-> clock', kind |-> "insight", text |-> t]
<1>2. clock' \in Nat /\ calls' \in 0 .. MaxCalls /\ faults' \in 0 .. MaxFaults
  BY StartType DEF BeginInsight
<1>3. /\ m \in Record /\ nextId \in Ids
      /\ {<<"insight_from", src>>} \in SUBSET (EdgeTypes \X Ids)
  BY <1>2 DEF Record, Kinds, EdgeTypes, Live, Sources, BeginInsight
<1> HIDE DEF m
<1> DEFINE b == InsertBatch(nextId, m, {<<"insight_from", src>>})
<1>4. Sound(b) /\ nextId \in b.vput
  BY <1>3, InsertBatchSound
<1>5. /\ pc' \in [Clients -> Labels] /\ task' \in [Clients -> Task] /\ Tasks'
  BY <1>1, <1>3, <1>4, PreparedType, BecomeType
     DEF m, Ops, Labels, Phase, Writers
<1>6. nextId' \in 1 .. MaxIds + 1
  BY EngineAssumption DEF BeginInsight, Ids
<1> QED
  BY <1>2, <1>5, <1>6, FrameType
     DEF BeginInsight, IInv, TypeOK, store, meta, memory, history

\* add_edge writes both keys of the edge.
LEMMA AddEdgeOK ==
  ASSUME IInv, NEW c \in Clients, AddEdge(c)
  PROVE  IInv'
<1>1. PICK e \in Known \X UserEdgeTypes \X Known :
        fwd' = fwd \cup {e} /\ rev' = rev \cup {e}
  BY DEF AddEdge
<1>2. e \in Edge
  BY EngineAssumption DEF Edge, Known, Live, IInv, TypeOK
<1>3. clock' \in Nat /\ calls' \in 0 .. MaxCalls /\ faults' \in 0 .. MaxFaults
  BY StartType DEF AddEdge
<1> QED
  BY <1>1, <1>2, <1>3
     DEF AddEdge, IInv, TypeOK, GraphSymmetric, Tasks, meta, memory, history

\* revise prepares a well-formed task.
LEMMA BeginReviseOK ==
  ASSUME IInv, NEW c \in Clients, BeginRevise(c)
  PROVE  IInv'
<1>1. PICK i \in Known \cap Live, t \in Texts,
           e \in Entities \cup {NoEntity}, links \in Links :
        Become(c, "write",
          Prepared("revise", i, ReviseBatch(i, nextId, t, e, links), Excess(i), {i}))
  BY DEF BeginRevise
<1>2. clock' \in Nat /\ calls' \in 0 .. MaxCalls /\ faults' \in 0 .. MaxFaults
  BY StartType DEF BeginRevise
<1>3. i \in Ids /\ nextId \in Ids /\ links \in SUBSET (EdgeTypes \X Ids)
  BY LinksType DEF Live, BeginRevise, IInv
<1> DEFINE b == ReviseBatch(i, nextId, t, e, links)
<1>4. Sound(b) /\ i \in b.vput
  BY <1>3, ReviseBatchSound DEF IInv
<1>5. /\ pc' \in [Clients -> Labels] /\ task' \in [Clients -> Task] /\ Tasks'
  BY <1>1, <1>3, <1>4, PreparedType, BecomeType, ExcessType
     DEF Ops, Labels, Phase, Writers
<1>6. nextId' \in 1 .. MaxIds + 1
  BY EngineAssumption DEF BeginRevise, Ids
<1> QED
  BY <1>2, <1>3, <1>5, <1>6, FrameType
     DEF BeginRevise, IInv, TypeOK, store, meta, memory

\* delete prepares a well-formed task.
LEMMA BeginDeleteOK ==
  ASSUME IInv, NEW c \in Clients, BeginDelete(c)
  PROVE  IInv'
<1>1. PICK i \in Known \cap Live :
        /\ Become(c, "write", Prepared("delete", i, DeleteBatch({i}), {i}, {}))
        /\ doomed' = doomed \cup {i}
  BY DEF BeginDelete
<1>2. clock' \in Nat /\ calls' \in 0 .. MaxCalls /\ faults' \in 0 .. MaxFaults
  BY StartType DEF BeginDelete
<1>3. i \in Ids
  BY DEF Live
<1>4. Sound(DeleteBatch({i}))
  BY DeleteBatchSound DEF IInv
<1>5. /\ pc' \in [Clients -> Labels] /\ task' \in [Clients -> Task] /\ Tasks'
  BY <1>1, <1>3, <1>4, PreparedType, BecomeType
     DEF Ops, Labels, Phase, Writers
<1> QED
  BY <1>1, <1>2, <1>3, <1>5, FrameType
     DEF BeginDelete, IInv, TypeOK, store, meta, memory

\* Forgetting the memories of S prepares a well-formed task.
LEMMA PrepareForgetOK ==
  ASSUME IInv, NEW c \in Clients, NEW op \in Ops, op \notin Writers,
         NEW S \in SUBSET Live, PrepareForget(c, op, S), clock' \in Nat
  PROVE  /\ pc' \in [Clients -> Labels] /\ task' \in [Clients -> Task] /\ Tasks'
         /\ doomed' \subseteq Ids
<1> DEFINE all == S \cup {j \in Live : \E i \in S : j \in SnapshotsOf(i)}
           stamps == {<<clock', i>> : i \in S}
           b == [DeleteBatch(all) EXCEPT !.tombs = stamps]
<1>1. all \in SUBSET Live /\ all \in SUBSET Ids /\ S \in SUBSET Ids
  BY DEF Live
<1>2. Become(c, "write", Prepared(op, None, b, all, all)) /\ doomed' = doomed \cup S
  BY DEF PrepareForget
<1>3. stamps \in SUBSET Stamped
  BY <1>1 DEF Stamped
<1> HIDE DEF all, stamps
<1>4. Sound(DeleteBatch(all))
  BY <1>1, DeleteBatchSound DEF IInv
<1>5. Sound(b)
  BY <1>3, <1>4 DEF Sound, Batch
<1> HIDE DEF b
<1> DEFINE t == Prepared(op, None, b, all, all)
<1>6. TaskOK(t) /\ Phase("write", t.op)
  BY <1>1, <1>5, PreparedType DEF Phase, Ops
<1>7. /\ pc' \in [Clients -> Labels] /\ task' \in [Clients -> Task] /\ Tasks'
  <2> HIDE DEF t
  <2> QED BY <1>2, <1>6, BecomeType DEF Labels, t
<1> QED
  BY <1>1, <1>2, <1>7 DEF IInv, TypeOK

\* Each form of forget keeps the invariant as it starts.
LEMMA BeginForgetsOK ==
  ASSUME IInv, NEW c \in Clients,
         BeginForget(c) \/ BeginForgetEntity(c) \/ BeginForgetScan(c)
  PROVE  IInv'
<1>1. clock' \in Nat /\ calls' \in 0 .. MaxCalls /\ faults' \in 0 .. MaxFaults
  BY StartType DEF BeginForget, BeginForgetEntity, BeginForgetScan
<1>2. PICK op \in Ops \ Writers, S \in SUBSET Live :
        PrepareForget(c, op, S)
  <2>1. CASE BeginForget(c)
    BY <2>1 DEF BeginForget, Ops, Writers
  <2>2. CASE BeginForgetEntity(c)
    BY <2>2 DEF BeginForgetEntity, FirstN, Ops, Writers
  <2>3. CASE BeginForgetScan(c)
    BY <2>3 DEF BeginForgetScan, FirstN, Ops, Writers
  <2> QED BY <2>1, <2>2, <2>3
<1>3. /\ pc' \in [Clients -> Labels] /\ task' \in [Clients -> Task] /\ Tasks'
      /\ doomed' \subseteq Ids
  BY <1>1, <1>2, PrepareForgetOK
<1>4. UNCHANGED <<store, meta, memory, nextId, snaps, acked, outdated>>
  BY DEF BeginForget, BeginForgetEntity, BeginForgetScan
<1> QED
  BY <1>1, <1>3, <1>4, FrameType DEF IInv, TypeOK, store, meta, memory

\* auto_forget keeps the invariant as it starts on its candidates.
LEMMA BeginAutoForgetOK ==
  ASSUME IInv, NEW c \in Clients, BeginAutoForget(c)
  PROVE  IInv'
<1> DEFINE found == FirstN(cands \cap Live, MaxForget)
<1>1. clock' \in Nat /\ calls' \in 0 .. MaxCalls /\ faults' \in 0 .. MaxFaults
  BY StartType DEF BeginAutoForget
<1>2. /\ pc' \in [Clients -> Labels] /\ task' \in [Clients -> Task] /\ Tasks'
      /\ doomed' \subseteq Ids
  <2>1. CASE PrepareForget(c, "auto_forget", found)
    <3>1. found \in SUBSET Live
      BY DEF FirstN
    <3> QED BY <1>1, <2>1, <3>1, PrepareForgetOK DEF Ops, Writers
  <2>2. CASE /\ UNCHANGED doomed
             /\ Become(c, "clear", Prepared("auto_forget", None, NoBatch, {}, {}))
    <3> DEFINE t == Prepared("auto_forget", None, NoBatch, {}, {})
    <3>1. TaskOK(t) /\ Phase("clear", t.op)
      BY NoBatchSound, PreparedType DEF Ops, Phase, Writers
    <3> HIDE DEF t
    <3> QED BY <2>2, <3>1, BecomeType DEF Labels, IInv, TypeOK, t
  <2> QED BY <2>1, <2>2 DEF BeginAutoForget
<1> QED
  BY <1>1, <1>2, FrameType DEF BeginAutoForget, IInv, TypeOK, store, meta, memory

\* Collecting old tombstone records leaves the indexes alone.
LEMMA GcTombstonesOK ==
  ASSUME IInv, NEW c \in Clients, GcTombstones(c)
  PROVE  IInv'
<1>1. clock' \in Nat /\ calls' \in 0 .. MaxCalls /\ faults' \in 0 .. MaxFaults
  BY StartType DEF GcTombstones
<1>2. tombs' \subseteq Stamped
  BY DEF GcTombstones, IInv, TypeOK
<1> QED
  BY <1>1, <1>2
     DEF GcTombstones, IInv, TypeOK, GraphSymmetric, Tasks, store, memory, history

\* A recall prepares the write-back of what it reinforces.
LEMMA BeginRecallOK ==
  ASSUME IInv, NEW c \in Clients, BeginRecall(c)
  PROVE  IInv'
<1>1. clock' \in Nat /\ calls' \in 0 .. MaxCalls /\ faults' \in 0 .. MaxFaults
  BY StartType DEF BeginRecall
<1>2. PICK S \in SUBSET Ids :
        Become(c, "write", Prepared("recall", None, WriteBackBatch(S), {}, {}))
  BY DEF BeginRecall, Live
<1>3. /\ pc' \in [Clients -> Labels] /\ task' \in [Clients -> Task] /\ Tasks'
  BY <1>2, WriteBackBatchSound, PreparedType, BecomeType
     DEF IInv, Ops, Labels, Phase, Writers
<1> QED
  BY <1>1, <1>3, FrameType
     DEF BeginRecall, IInv, TypeOK, store, meta, memory, history

\* A decay sweep prepares the write-back of the records it rescored.
LEMMA BeginSweepOK ==
  ASSUME IInv, NEW c \in Clients, BeginSweep(c)
  PROVE  IInv'
<1> DEFINE batch == FirstN({i \in Live : i > cursor}, SweepBatch)
<1>1. clock' \in Nat /\ calls' \in 0 .. MaxCalls /\ faults' \in 0 .. MaxFaults
  BY StartType DEF BeginSweep
<1>2. batch \in SUBSET Ids
  BY DEF FirstN, Live
<1>3. /\ pc' \in [Clients -> Labels] /\ task' \in [Clients -> Task] /\ Tasks'
      /\ cursor' \in Ids \cup {0}
  <2>1. CASE batch = {} /\ cursor' = 0 /\ UNCHANGED <<pc, task>>
    BY <2>1 DEF IInv, TypeOK, Tasks
  <2>2. ASSUME UNCHANGED cursor,
               NEW moved \in SUBSET batch, NEW low \in SUBSET batch,
               Become(c, "write",
                 Prepared("sweep", None, WriteBackBatch(moved), batch, low))
        PROVE  /\ pc' \in [Clients -> Labels] /\ task' \in [Clients -> Task]
               /\ Tasks' /\ cursor' \in Ids \cup {0}
    <3> HIDE DEF batch
    <3>1. Sound(WriteBackBatch(moved))
      BY <1>2, WriteBackBatchSound DEF IInv
    <3> DEFINE t == Prepared("sweep", None, WriteBackBatch(moved), batch, low)
    <3>2. TaskOK(t) /\ Phase("write", t.op)
      BY <1>2, <2>2, <3>1, PreparedType DEF Ops, Phase, Writers
    <3> HIDE DEF t
    <3> QED BY <2>2, <3>2, BecomeType DEF Labels, IInv, TypeOK, t
  <2> QED BY <2>1, <2>2 DEF BeginSweep
<1> QED
  BY <1>1, <1>3, FrameType
     DEF BeginSweep, IInv, TypeOK, store, memory, history


\* Applying a sound batch keeps the column families well typed, and the two
\* keys of every edge together.
LEMMA ApplyBatchOK ==
  ASSUME IInv, NEW b, Sound(b), ApplyBatch(b)
  PROVE  /\ mem' \in [Ids -> Record \cup {None}]
         /\ vec' \in [Ids -> Texts \cup {None}]
         /\ avec' \subseteq Ids /\ temporal' \subseteq TemporalEntry
         /\ fwd' \subseteq Edge /\ rev' \subseteq Edge /\ fwd' = rev'
         /\ tombs' \subseteq Stamped
<1>1. /\ b.put \in [Ids -> Record \cup {None}] /\ b.tput \subseteq TemporalEntry
      /\ b.aput \subseteq Ids /\ b.eput \subseteq Edge /\ b.tombs \subseteq Stamped
      /\ b.fdel = b.rdel /\ \A i \in b.vput : b.put[i] \in Record
  BY DEF Sound, Batch
<1>2. mem' \in [Ids -> Record \cup {None}]
  BY <1>1 DEF ApplyBatch, IInv, TypeOK
<1>3. vec' \in [Ids -> Texts \cup {None}]
  <2>1. \A i \in b.vput : b.put[i].text \in Texts
    BY <1>1 DEF Record
  <2> QED BY <2>1 DEF ApplyBatch, IInv, TypeOK
<1>4. avec' \subseteq Ids /\ temporal' \subseteq TemporalEntry /\ tombs' \subseteq Stamped
  BY <1>1 DEF ApplyBatch, IInv, TypeOK
<1>5. fwd' \subseteq Edge /\ rev' \subseteq Edge /\ fwd' = rev'
  BY <1>1 DEF ApplyBatch, IInv, TypeOK, GraphSymmetric
<1> QED
  BY <1>2, <1>3, <1>4, <1>5

\* Applying a sound batch keeps the graph symmetric, whenever it was prepared.
LEMMA WriteOK ==
  ASSUME IInv, NEW c \in Clients, Write(c)
  PROVE  IInv'
<1>1. TaskOK(task[c]) /\ Phase(pc[c], task[c].op) /\ task[c].op \in Ops
  BY TaskType DEF Write, Phase, TaskOK, Task
<1>2. Phase(AfterWrite(task[c].op), task[c].op) /\ AfterWrite(task[c].op) \in Labels
  BY <1>1 DEF AfterWrite, Phase, Writers, Labels, Ops
<1>3. /\ pc' \in [Clients -> Labels] /\ task' \in [Clients -> Task] /\ Tasks'
  BY <1>1, <1>2, BecomeType DEF Write, Goto
<1>4. outdated' \subseteq Ops \X Edge
  <2>1. \A e \in fwd : <<task[c].op, e>> \in Ops \X Edge
    BY <1>1 DEF IInv, TypeOK
  <2>2. outdated \subseteq Ops \X Edge
    BY DEF IInv, TypeOK
  <2>3. outdated' = outdated
          \cup {<<task[c].op, e>> :
                  e \in {x \in fwd : x[2] = "insight_from" /\ x[3] \in task[c].touched}}
          \cup {<<"revise", e>> :
                  e \in {x \in task[c].batch.eput : x[2] = "insight_from" /\ Revising(x[3])}}
    BY DEF Write
  <2>4. task[c].batch.eput \in SUBSET Edge
    BY <1>1 DEF TaskOK, Sound, Batch
  <2>5. \A e \in task[c].batch.eput : <<"revise", e>> \in Ops \X Edge
    BY <2>4 DEF Ops
  <2> QED BY <2>1, <2>2, <2>3, <2>5
<1>5. /\ mem' \in [Ids -> Record \cup {None}]
      /\ vec' \in [Ids -> Texts \cup {None}]
      /\ avec' \subseteq Ids /\ temporal' \subseteq TemporalEntry
      /\ fwd' \subseteq Edge /\ rev' \subseteq Edge /\ fwd' = rev'
      /\ tombs' \subseteq Stamped
  BY <1>1, ApplyBatchOK DEF Write, TaskOK
<1> QED
  BY <1>3, <1>4, <1>5 DEF Write, IInv, TypeOK, GraphSymmetric, memory, bounds

\* What a client about to touch the in-memory graphs writes.
LEMMA WriterType ==
  ASSUME IInv, NEW c \in Clients,
         pc[c] \in {"reindex", "insert", "persist", "assoc", "assoc_persist"}
  PROVE  task[c].id \in Ids /\ Text(c) \in Texts /\ task[c].op \in Writers
<1>1. TaskOK(task[c]) /\ task[c].op \in Writers
  BY TaskType DEF Phase
<1>2. task[c].id \in task[c].batch.vput
  BY <1>1 DEF TaskOK
<1>3. task[c].id \in Ids /\ task[c].batch.put[task[c].id] \in Record
  BY <1>1, <1>2 DEF TaskOK, Sound, Batch
<1> QED BY <1>1, <1>3 DEF Text, Record

\* A step that moves client c to a label its operation passes through.
LEMMA GotoType ==
  ASSUME IInv, NEW c \in Clients, NEW label \in Labels, Goto(c, label),
         Phase(label, task[c].op)
  PROVE  /\ pc' \in [Clients -> Labels] /\ task' \in [Clients -> Task] /\ Tasks'
BY TaskType, BecomeType DEF Goto

\* The steps on the HNSW graphs after a write keep the invariant.
LEMMA GraphStepsOK ==
  ASSUME IInv, NEW c \in Clients,
         Reindex(c) \/ Insert(c) \/ Persist(c) \/ Assoc(c) \/ AssocPersist(c)
  PROVE  IInv'
<1>1. task[c].id \in Ids /\ Text(c) \in Texts /\ task[c].op \in Writers
  BY WriterType DEF Reindex, Insert, Persist, Assoc, AssocPersist
<1>2. PICK label \in Labels : Goto(c, label) /\ Phase(label, task[c].op)
  <2>1. CASE Reindex(c)
    BY <2>1, <1>1 DEF Reindex, Labels, Phase, Writers
  <2>2. CASE Insert(c)
    BY <2>2, <1>1 DEF Insert, Labels, Phase, Writers
  <2>3. CASE Persist(c)
    <3>1. AfterPersist(task[c]) \in Labels /\ Phase(AfterPersist(task[c]), task[c].op)
      BY <1>1 DEF AfterPersist, Labels, Phase, Writers
    <3> QED BY <2>3, <3>1 DEF Persist
  <2>4. CASE Assoc(c)
    BY <2>4, <1>1 DEF Assoc, Labels, Phase, Writers
  <2>5. CASE AssocPersist(c)
    BY <2>5, <1>1 DEF AssocPersist, Labels, Phase, Writers
  <2> QED BY <2>1, <2>2, <2>3, <2>4, <2>5
<1>3. /\ pc' \in [Clients -> Labels] /\ task' \in [Clients -> Task] /\ Tasks'
  BY <1>2, GotoType
<1>4. /\ hnsw' \in [Ids -> Texts \cup {None}] /\ vec' \in [Ids -> Texts \cup {None}]
      /\ assoc' \subseteq Ids /\ avec' \subseteq Ids /\ acked' \subseteq Ids
  BY <1>1 DEF Reindex, Insert, Persist, Assoc, AssocPersist, IInv, TypeOK,
              store, memory, history
<1>5. UNCHANGED <<mem, temporal, fwd, rev, meta, nextId, clock, bounds,
                  snaps, doomed, outdated>>
  BY DEF Reindex, Insert, Persist, Assoc, AssocPersist, store, history
<1> QED
  BY <1>3, <1>4, <1>5 DEF IInv, TypeOK, GraphSymmetric, meta, bounds

\* A deleted memory leaves the HNSW graphs.
LEMMA TombstoneOK ==
  ASSUME IInv, NEW c \in Clients, Tombstone(c)
  PROVE  IInv'
<1>1. PICK i \in task[c].todo :
        /\ hnsw' = [hnsw EXCEPT ![i] = None] /\ assoc' = assoc \ {i}
        /\ Become(c, IF task[c].todo \ {i} # {} THEN "tombstone"
                     ELSE IF task[c].op = "delete" THEN "idle" ELSE "mark",
                  [task[c] EXCEPT !.todo = task[c].todo \ {i}])
  BY DEF Tombstone
<1>2. /\ TaskOK(task[c]) /\ task[c].op # "none"
      /\ task[c].todo \ {i} \in SUBSET Ids
  BY TaskType DEF Tombstone, Phase, TaskOK, Task
<1> DEFINE t == [task[c] EXCEPT !.todo = task[c].todo \ {i}]
           label == IF task[c].todo \ {i} # {} THEN "tombstone"
                    ELSE IF task[c].op = "delete" THEN "idle" ELSE "mark"
<1>3. TaskOK(t) /\ t.op = task[c].op
  BY <1>2, TaskType
<1>4. label \in Labels /\ Phase(label, t.op)
  BY <1>2, <1>3 DEF Labels, Phase
<1> HIDE DEF t, label
<1>5. /\ pc' \in [Clients -> Labels] /\ task' \in [Clients -> Task] /\ Tasks'
  BY <1>1, <1>3, <1>4, BecomeType DEF t, label
<1> QED
  BY <1>1, <1>5
     DEF Tombstone, IInv, TypeOK, GraphSymmetric, store, meta, bounds, history

\* One id less to mark, whether the mark was written or its put failed.
LEMMA MarkStepType ==
  ASSUME IInv, NEW c \in Clients, pc[c] = "mark", NEW rest \in SUBSET Ids,
         Become(c, AfterMark(c, rest), [task[c] EXCEPT !.touched = rest])
  PROVE  /\ pc' \in [Clients -> Labels] /\ task' \in [Clients -> Task] /\ Tasks'
<1> DEFINE t == [task[c] EXCEPT !.touched = rest]
<1>1. TaskOK(t) /\ t.op = task[c].op /\ task[c].op # "none"
  BY TaskType DEF Phase
<1>2. AfterMark(c, rest) \in Labels /\ Phase(AfterMark(c, rest), t.op)
  BY <1>1 DEF AfterMark, Labels, Phase
<1> HIDE DEF t
<1> QED BY <1>1, <1>2, BecomeType DEF t

\* Marking the insights that lost a source keeps the invariant.
LEMMA MarkOK ==
  ASSUME IInv, NEW c \in Clients, Mark(c)
  PROVE  IInv'
<1>1. PICK i \in task[c].touched :
        /\ marks' = marks \cup {e[1] : e \in {x \in rev : x[2] = "insight_from" /\ x[3] = i}}
        /\ Become(c, AfterMark(c, task[c].touched \ {i}),
                  [task[c] EXCEPT !.touched = task[c].touched \ {i}])
  BY DEF Mark
<1>2. task[c].touched \ {i} \in SUBSET Ids
  BY TaskType DEF TaskOK, Task
<1>3. /\ pc' \in [Clients -> Labels] /\ task' \in [Clients -> Task] /\ Tasks'
  BY <1>1, <1>2, MarkStepType DEF Mark
<1>4. marks' \subseteq Ids
  BY <1>1 DEF IInv, TypeOK, Edge
<1> QED
  BY <1>3, <1>4 DEF Mark, IInv, TypeOK, GraphSymmetric, store, memory, bounds, history

\* The steps on the candidates and the cursor keep the invariant.
LEMMA MetaStepsOK ==
  ASSUME IInv, NEW c \in Clients,
         ClearCandidates(c) \/ PutCandidates(c) \/ PutCursor(c) \/ Rewind(c)
  PROVE  IInv'
<1>1. TaskOK(task[c]) /\ Phase(pc[c], task[c].op) /\ task[c].touched \in SUBSET Ids
      /\ task[c].todo \in SUBSET Ids
  BY TaskType DEF TaskOK, Task
<1>2. PICK label \in Labels : Goto(c, label) /\ Phase(label, task[c].op)
  BY <1>1 DEF ClearCandidates, PutCandidates, PutCursor, Rewind, AfterCursor, Labels, Phase
<1>3. /\ pc' \in [Clients -> Labels] /\ task' \in [Clients -> Task] /\ Tasks'
  BY <1>2, GotoType
<1>4. cands' \subseteq Ids
  BY <1>1 DEF ClearCandidates, PutCandidates, PutCursor, Rewind, IInv, TypeOK
<1>5. cursor' \in Ids \cup {0}
  <2>1. CASE PutCursor(c)
    BY <1>1, <2>1 DEF PutCursor
  <2>2. CASE ~PutCursor(c)
    BY <2>2 DEF ClearCandidates, PutCandidates, Rewind, IInv, TypeOK
  <2> QED BY <2>1, <2>2
<1>6. UNCHANGED <<store, tombs, marks, memory, nextId, clock, bounds, history>>
  BY DEF ClearCandidates, PutCandidates, PutCursor, Rewind
<1> QED
  BY <1>3, <1>4, <1>5, <1>6
     DEF IInv, TypeOK, GraphSymmetric, store, memory, bounds, history

\* A failed write leaves the column families alone and ends the call.
LEMMA StorageErrorOK ==
  ASSUME IInv, NEW c \in Clients, StorageError(c)
  PROVE  IInv'
<1>1. faults' \in 0 .. MaxFaults /\ UNCHANGED <<store, meta, memory, nextId, clock, calls, history>>
  BY EngineAssumption DEF StorageError, IInv, TypeOK
<1>2. /\ pc' \in [Clients -> Labels] /\ task' \in [Clients -> Task] /\ Tasks'
  <2>1. ASSUME NEW label \in Labels, Goto(c, label), Phase(label, task[c].op)
        PROVE  /\ pc' \in [Clients -> Labels] /\ task' \in [Clients -> Task] /\ Tasks'
    BY <2>1, GotoType
  <2>2. CASE pc[c] \in {"persist", "assoc_persist", "clear", "rewind"} /\ Goto(c, "idle")
    BY <2>2, <2>1 DEF Labels, Phase
  <2>6. CASE pc[c] = "cursor" /\ Goto(c, AfterCursor(task[c]))
    <3>1. task[c].op # "none"
      BY <2>6, TaskType DEF Phase
    <3> QED BY <2>6, <3>1, <2>1 DEF AfterCursor, Labels, Phase
  <2>3. CASE pc[c] = "write" /\ Goto(c, IF task[c].op = "sweep" THEN "candidates" ELSE "idle")
    <3>1. task[c].op # "none"
      BY <2>3, TaskType DEF Phase
    <3> QED BY <2>3, <3>1, <2>1 DEF Labels, Phase
  <2>4. CASE pc[c] = "candidates" /\ Goto(c, "cursor")
    <3>1. task[c].op # "none"
      BY <2>4, TaskType DEF Phase
    <3> QED BY <2>4, <3>1, <2>1 DEF Labels, Phase
  <2>5. CASE /\ pc[c] = "mark"
             /\ \E i \in task[c].touched :
                  LET rest == task[c].touched \ {i}
                  IN  Become(c, AfterMark(c, rest), [task[c] EXCEPT !.touched = rest])
    <3>1. \A i \in task[c].touched : task[c].touched \ {i} \in SUBSET Ids
      BY TaskType DEF TaskOK, Task
    <3> QED BY <2>5, <3>1, MarkStepType
  <2> QED BY <2>2, <2>3, <2>4, <2>5, <2>6 DEF StorageError
<1> QED
  BY <1>1, <1>2 DEF IInv, TypeOK, GraphSymmetric, store, meta, memory, history

\* A crash and the rebuild that follows keep the column families.
LEMMA CrashOK ==
  ASSUME IInv, Crash
  PROVE  IInv'
<1>1. /\ pc' = [c \in Clients |-> "idle"] /\ task' = [c \in Clients |-> NoTask]
      /\ hnsw' = vec /\ assoc' = avec /\ faults' = faults + 1 /\ faults < MaxFaults
      /\ UNCHANGED <<store, meta, nextId, clock, calls, history>>
  BY DEF Crash
<1>2. NoTask \in Task
  BY NoTaskType DEF TaskOK
<1>3. ASSUME NEW c \in Clients
      PROVE  TaskOK(task'[c]) /\ Phase(pc'[c], task'[c].op)
  BY <1>1, NoTaskType
<1>4. ASSUME NEW c \in Clients
      PROVE  TaskOK(task[c])' /\ Phase(pc[c], task[c].op)'
  BY <1>3 DEF TaskOK, Phase, Sound
<1>5. Tasks'
  BY <1>4 DEF Tasks
<1>6. faults' \in 0 .. MaxFaults /\ pc' \in [Clients -> Labels] /\ task' \in [Clients -> Task]
  BY <1>1, <1>2, EngineAssumption DEF IInv, TypeOK, Labels
<1> QED
  BY <1>1, <1>5, <1>6 DEF IInv, TypeOK, GraphSymmetric, store, meta, history

-----------------------------------------------------------------------------
(* The theorems                                                             *)

\* The engine is opened in a state that satisfies the invariant.
LEMMA InitOK == Init => IInv
<1> SUFFICES ASSUME Init PROVE IInv
  OBVIOUS
<1>1. \A i \in 1 .. Stored : i \in Ids
  BY EngineAssumption DEF Ids
<1>2. \A i \in Nat : Earlier(i) \in Record /\ Earlier(i).entity \in Entities
                      /\ Earlier(i).text \in Texts
  <2>1. (CHOOSE e \in Entities : TRUE) \in Entities /\ (CHOOSE t \in Texts : TRUE) \in Texts
    BY EngineAssumption
  <2> QED BY <2>1 DEF Earlier, Record, Kinds
<1>3. mem \in [Ids -> Record \cup {None}]
  BY <1>2 DEF Init, Ids
<1>4. vec \in [Ids -> Texts \cup {None}]
  BY <1>2 DEF Init, Ids
<1>5. temporal \subseteq TemporalEntry
  BY <1>1, <1>2, EngineAssumption DEF Init, TemporalEntry, TemporalKey, Ids
<1>6. nextId \in 1 .. MaxIds + 1 /\ clock \in Nat
  BY EngineAssumption DEF Init
<1>7. avec \subseteq Ids /\ acked \subseteq Ids
  BY <1>1 DEF Init
<1>8. pc \in [Clients -> Labels] /\ task \in [Clients -> Task] /\ Tasks
  BY NoTaskType DEF Init, Labels, Tasks, TaskOK
<1> QED
  BY <1>3, <1>4, <1>5, <1>6, <1>7, <1>8, EngineAssumption
     DEF Init, IInv, TypeOK, GraphSymmetric

\* Every step keeps the invariant.
LEMMA NextOK == IInv /\ [Next]_vars => IInv'
<1> SUFFICES ASSUME IInv, [Next]_vars PROVE IInv'
  OBVIOUS
<1>1. CASE UNCHANGED vars
  BY <1>1 DEF vars, store, meta, memory, bounds, history, IInv, TypeOK,
              GraphSymmetric, Tasks, TaskOK, Phase, Sound
<1>2. CASE Crash
  BY <1>2, CrashOK
<1>3. ASSUME NEW c \in Clients, Begin(c)
      PROVE  IInv'
  BY <1>3, BeginRememberOK, BeginInsightOK, AddEdgeOK, BeginReviseOK, BeginDeleteOK,
     BeginForgetsOK, BeginAutoForgetOK, GcTombstonesOK, BeginRecallOK, BeginSweepOK
     DEF Begin
<1>4. ASSUME NEW c \in Clients, Continue(c)
      PROVE  IInv'
  BY <1>4, WriteOK, GraphStepsOK, TombstoneOK, MarkOK, MetaStepsOK DEF Continue
<1>5. ASSUME NEW c \in Clients, StorageError(c)
      PROVE  IInv'
  BY <1>5, StorageErrorOK
<1> QED BY <1>1, <1>2, <1>3, <1>4, <1>5 DEF Next

\* Every column family, both in-memory graphs and every prepared batch stay
\* well typed through any interleaving of the operations of any number of
\* threads, with crashes and failed writes; in particular what is put into
\* Vectors is always the content of a record the operation stores.
THEOREM TypeCorrect == Spec => []TypeOK
<1>1. IInv => TypeOK
  BY DEF IInv
<1> QED BY <1>1, InitOK, NextOK, PTL DEF Spec

\* The Graph CF never holds one key of an edge without the other: insert,
\* add_edge, delete, the cascade of forget and the pruning of revise write or
\* delete both in one batch, whatever other threads did since it was prepared.
THEOREM GraphStaysSymmetric == Spec => []GraphSymmetric
<1>1. IInv => GraphSymmetric
  BY DEF IInv
<1> QED BY <1>1, InitOK, NextOK, PTL DEF Spec

-----------------------------------------------------------------------------
(* What the threads did earlier.  A task prepared long ago is still safe to  *)
(* write: the ids it uses are its own, and what it removes are snapshots or  *)
(* what a caller named.                                                      *)

\* The ids a batch puts into an index.
Named(b) == b.vput \cup b.aput \cup {x[2] : x \in b.tput}

Indexed == {i \in Ids : \/ mem[i] # None \/ vec[i] # None \/ hnsw[i] # None
                        \/ i \in avec \/ i \in assoc
                        \/ \E x \in temporal : x[2] = i}

\* Every edge of type revised_from leads to a snapshot of S.
Lineal(E, S) == \A e \in E : e[2] = "revised_from" => e[3] \in S

\* A task indexes only the memory it writes, and names only ids below n.
Numbered(t, n) ==
  /\ \A i \in Named(t.batch) : t.op \in Writers /\ i = t.id
  /\ t.op \in Writers => t.id \in 1 .. n - 1
  /\ \A i \in Ids : t.batch.put[i] # None => i \in 1 .. n - 1
  /\ t.op = "remember" => t.id \in t.batch.aput

\* A task removes only snapshots and what a caller asked to remove.
Removable(t, S, D) ==
  /\ t.batch.del \subseteq D \cup S
  /\ t.op # "sweep" => t.todo \subseteq D \cup S
  /\ Lineal(t.batch.eput, S)
  /\ t.op = "remember" => t.id \notin S

\* Only the task that stores an insight links it to a source.
LinksOwn(t) ==
  \A e \in t.batch.eput : e[2] = "insight_from" => t.op = "insight" /\ e[1] = t.id

\* What a prepared task satisfies when n is the next id, S the snapshots and D
\* the memories callers removed.
Fit(t, n, S, D) ==
  /\ Numbered(t, n)
  /\ ~SnapshotTargets /\ t.op \in Writers => t.id \notin S
  /\ "revised_from" \notin UserEdgeTypes => Removable(t, S, D)
  /\ "insight_from" \notin UserEdgeTypes => LinksOwn(t)

Path(label, t) ==
  /\ label = "reindex" => t.op = "revise"
  /\ label \in {"assoc", "assoc_persist"} => t.op = "remember"
  /\ label = "tombstone" => t.op # "sweep"

FitTasks == \A c \in Clients : Fit(task[c], nextId, snaps, doomed) /\ Path(pc[c], task[c])

Issued == 1 .. nextId - 1
Numbering == snaps \cup acked \cup doomed \cup Indexed \subseteq Issued

\* What an insert puts: one record, indexed under its own id.
LEMMA InsertBatchFields ==
  ASSUME NEW i \in Ids, NEW m, NEW links
  PROVE  LET b == InsertBatch(i, m, links)
         IN  /\ Named(b) = {i} /\ b.aput = {i} /\ b.del = {}
             /\ \A j \in Ids : b.put[j] # None => j = i
             /\ b.put[i] = m
             /\ \A x \in b.eput : \E l \in links : x = <<i, l[1], l[2]>>
BY DEF InsertBatch, NoBatch, Named

\* What a delete removes; it puts nothing.
LEMMA DeleteBatchFields ==
  ASSUME NEW S
  PROVE  LET b == DeleteBatch(S)
         IN  b.put = NoBatch.put /\ b.del = S /\ b.eput = {} /\ Named(b) = {}
BY DEF DeleteBatch, NoBatch, Named

\* What a revise puts: the record and its snapshot, of which it indexes the record.
LEMMA ReviseBatchFields ==
  ASSUME NEW i \in Ids, NEW snap, NEW t, NEW e, NEW links
  PROVE  LET b == ReviseBatch(i, snap, t, e, links)
         IN  /\ \A j \in Ids : b.put[j] # None => j \in {i, snap}
             /\ b.del = Excess(i) /\ Named(b) = {i}
             /\ b.eput = {<<i, "revised_from", snap>>} \cup {<<i, l[1], l[2]>> : l \in links}
BY DEF ReviseBatch, UpdateBatch, NoBatch, Named

\* A write-back puts only records of memories that live.
LEMMA WriteBackBatchFields ==
  ASSUME NEW S \in SUBSET Live
  PROVE  LET b == WriteBackBatch(S)
         IN  /\ \A j \in Ids : b.put[j] # None => j \in S
             /\ b.del = {} /\ b.eput = {} /\ Named(b) = {}
BY DEF WriteBackBatch, NoBatch, Named

\* A task stays fit as ids are issued, snapshots are made and memories removed.
LEMMA FitMonotone ==
  ASSUME NEW t, NEW n \in Nat, NEW m \in Nat, n <= m, NEW S, NEW D, NEW S2, NEW D2,
         S \subseteq S2, S2 \subseteq S \cup {n}, D \subseteq D2, Fit(t, n, S, D)
  PROVE  Fit(t, m, S2, D2)
<1>1. Numbered(t, m)
  BY DEF Fit, Numbered
<1>2. t.op \in Writers /\ t.id \notin S => t.id \notin S2
  BY DEF Fit, Numbered
<1>3. Removable(t, S, D) => Removable(t, S2, D2)
  BY <1>2 DEF Removable, Lineal, Writers
<1> QED BY <1>1, <1>2, <1>3 DEF Fit

\* The empty task is fit.
LEMMA NoTaskFit ==
  ASSUME NEW n, NEW S, NEW D
  PROVE  Fit(NoTask, n, S, D) /\ Path("idle", NoTask)
BY DEF Fit, Path, NoTask, Numbered, Named, NoBatch, Removable, Lineal, LinksOwn, Writers

\* A task with less left to do is as fit.
LEMMA FitLess ==
  ASSUME NEW t \in Task, NEW n, NEW S, NEW D, Fit(t, n, S, D), NEW rest
  PROVE  /\ Fit([t EXCEPT !.touched = rest], n, S, D)
         /\ rest \subseteq t.todo => Fit([t EXCEPT !.todo = rest], n, S, D)
<1>1. ASSUME NEW u, u.op = t.op, u.id = t.id, u.batch = t.batch, u.todo \subseteq t.todo
      PROVE  Fit(u, n, S, D)
  BY <1>1 DEF Fit, Numbered, Removable, LinksOwn
<1> QED BY <1>1 DEF Task

\* What a step that moves client c does to the others.
LEMMA BecomeOthers ==
  ASSUME IInv, NEW c \in Clients, NEW label, NEW t, Become(c, label, t)
  PROVE  /\ \A d \in Clients : d # c => pc'[d] = pc[d] /\ task'[d] = task[d]
         /\ pc'[c] = label
         /\ task'[c] = IF label = "idle" THEN NoTask ELSE t
BY DEF Become, IInv, TypeOK

\* What the ids issued, the snapshots and the removed memories may become.
Grows ==
  /\ nextId' \in Nat /\ nextId <= nextId'
  /\ snaps \subseteq snaps' /\ snaps' \subseteq snaps \cup {nextId}
  /\ doomed \subseteq doomed'

\* A client that goes on with a fit task keeps all tasks fit.
LEMMA BecomeFit ==
  ASSUME IInv, FitTasks, Grows, NEW c \in Clients, NEW label, NEW t,
         Become(c, label, t), Fit(t, nextId', snaps', doomed'), Path(label, t)
  PROVE  FitTasks'
<1>1. nextId \in Nat
  BY DEF IInv, TypeOK
<1>2. ASSUME NEW d \in Clients
      PROVE  Fit(task'[d], nextId', snaps', doomed') /\ Path(pc'[d], task'[d])
  <2>1. CASE d = c
    BY <2>1, BecomeOthers, NoTaskFit
  <2>2. CASE d # c
    BY <1>1, <2>2, BecomeOthers, FitMonotone DEF FitTasks, Grows
  <2> QED BY <2>1, <2>2
<1> QED BY <1>2 DEF FitTasks

-----------------------------------------------------------------------------
(* First steps prepare fit tasks.                                           *)

\* The edges a caller makes are of the types callers use.
LEMMA LinkTypes ==
  ASSUME NEW links \in Links, NEW l \in links
  PROVE  l[1] \in UserEdgeTypes
BY DEF Links

\* remember prepares a fit task.
LEMMA BeginRememberFit ==
  ASSUME IInv, FitTasks, Numbering, NEW c \in Clients, BeginRemember(c)
  PROVE  FitTasks' /\ Grows
<1>1. PICK e \in Entities \cup {NoEntity}, t \in Texts, links \in Links :
        LET m == [entity |-> e, created |-> clock', kind |-> "episode", text |-> t]
        IN  Become(c, "write",
              Prepared("remember", nextId, InsertBatch(nextId, m, links), {}, {}))
  BY DEF BeginRemember
<1> DEFINE m == [entity |-> e, created |-> clock', kind |-> "episode", text |-> t]
           b == InsertBatch(nextId, m, links)
           u == Prepared("remember", nextId, b, {}, {})
<1>2. nextId \in Nat \ {0} /\ nextId' = nextId + 1 /\ nextId \notin snaps
  BY DEF IInv, TypeOK, BeginRemember, Numbering, Issued
<1>3. Grows
  BY <1>2 DEF Grows, BeginRemember, history
<1>4. /\ Named(b) = {nextId} /\ b.aput = {nextId} /\ b.del = {}
      /\ \A j \in Ids : b.put[j] # None => j = nextId
      /\ \A x \in b.eput : x[1] = nextId /\ x[2] \in UserEdgeTypes
  <2> HIDE DEF m
  <2>1. /\ Named(b) = {nextId} /\ b.aput = {nextId} /\ b.del = {}
        /\ \A j \in Ids : b.put[j] # None => j = nextId
        /\ \A x \in b.eput : \E l \in links : x = <<nextId, l[1], l[2]>>
    BY InsertBatchFields DEF BeginRemember
  <2> QED
    BY <2>1, LinkTypes
<1> HIDE DEF b
<1>5. u.op = "remember" /\ u.id = nextId /\ u.batch = b /\ u.todo = {}
  BY DEF Prepared
<1> HIDE DEF u
<1>6. Numbered(u, nextId')
  BY <1>2, <1>4, <1>5 DEF Numbered, Writers
<1>7. Fit(u, nextId', snaps', doomed') /\ Path("write", u)
  BY <1>2, <1>4, <1>5, <1>6
     DEF Fit, Path, Removable, Lineal, LinksOwn, Writers, BeginRemember, history
<1>8. Become(c, "write", u)
  BY <1>1 DEF b, u
<1> QED BY <1>3, <1>7, <1>8, BecomeFit

\* Storing an insight prepares a fit task.
LEMMA BeginInsightFit ==
  ASSUME IInv, FitTasks, Numbering, NEW c \in Clients, BeginInsight(c)
  PROVE  FitTasks' /\ Grows
<1>1. PICK src \in Sources, e \in Entities \cup {NoEntity}, t \in Texts :
        LET m == [entity |-> e, created |-> clock', kind |-> "insight", text |-> t]
            b == InsertBatch(nextId, m, {<<"insight_from", src>>})
        IN  Become(c, "write", Prepared("insight", nextId, b, {}, {}))
  BY DEF BeginInsight
<1> DEFINE m == [entity |-> e, created |-> clock', kind |-> "insight", text |-> t]
           b == InsertBatch(nextId, m, {<<"insight_from", src>>})
           u == Prepared("insight", nextId, b, {}, {})
<1>2. nextId \in Nat \ {0} /\ nextId' = nextId + 1 /\ nextId \notin snaps
  BY DEF IInv, TypeOK, BeginInsight, Numbering, Issued
<1>3. Grows
  BY <1>2 DEF Grows, BeginInsight, history
<1>4. /\ Named(b) = {nextId} /\ b.aput = {nextId} /\ b.del = {}
      /\ \A j \in Ids : b.put[j] # None => j = nextId
      /\ \A x \in b.eput : x[1] = nextId /\ x[2] = "insight_from"
  <2> HIDE DEF m
  <2>1. /\ Named(b) = {nextId} /\ b.aput = {nextId} /\ b.del = {}
        /\ \A j \in Ids : b.put[j] # None => j = nextId
        /\ \A x \in b.eput : \E l \in {<<"insight_from", src>>} : x = <<nextId, l[1], l[2]>>
    BY InsertBatchFields DEF BeginInsight
  <2> HIDE DEF b
  <2>2. \A l \in {<<"insight_from", src>>} : l[1] = "insight_from"
    OBVIOUS
  <2> QED
    BY <2>1, <2>2
<1> HIDE DEF b
<1>5. u.op = "insight" /\ u.id = nextId /\ u.batch = b /\ u.todo = {}
  BY DEF Prepared
<1> HIDE DEF u
<1>6. Numbered(u, nextId')
  BY <1>2, <1>4, <1>5 DEF Numbered, Writers
<1>7. Fit(u, nextId', snaps', doomed') /\ Path("write", u)
  BY <1>2, <1>4, <1>5, <1>6
     DEF Fit, Path, Removable, Lineal, LinksOwn, Writers, BeginInsight, history
<1>8. Become(c, "write", u)
  BY <1>1 DEF b, u
<1> QED BY <1>3, <1>7, <1>8, BecomeFit

\* revise prepares a fit task: the id of the snapshot is new, and what it
\* prunes are snapshots.
LEMMA BeginReviseFit ==
  ASSUME IInv, FitTasks, Numbering, NEW c \in Clients, BeginRevise(c),
         "revised_from" \notin UserEdgeTypes => Lineal(fwd, snaps)
  PROVE  FitTasks' /\ Grows
<1>1. PICK i \in Known \cap Live, t \in Texts,
           e \in Entities \cup {NoEntity}, links \in Links :
        Become(c, "write",
          Prepared("revise", i, ReviseBatch(i, nextId, t, e, links), Excess(i), {i}))
  BY DEF BeginRevise
<1> DEFINE b == ReviseBatch(i, nextId, t, e, links)
           u == Prepared("revise", i, b, Excess(i), {i})
<1>2. /\ nextId \in Nat /\ nextId' = nextId + 1
      /\ snaps' = snaps \cup {nextId} /\ doomed' = doomed
  BY DEF IInv, TypeOK, BeginRevise
<1>3. Grows
  BY <1>2 DEF Grows
<1>4. i \in Ids /\ i \in Issued
  BY DEF Live, Numbering, Indexed
<1>5. ~SnapshotTargets => i \notin snaps'
  BY <1>2, <1>4 DEF Known, Issued
<1>6. "revised_from" \notin UserEdgeTypes => Excess(i) \subseteq snaps
  BY DEF Excess, FirstN, SnapshotsOf, Lineal
<1>7. /\ Named(b) = {i} /\ b.del = Excess(i)
      /\ \A j \in Ids : b.put[j] # None => j \in {i, nextId}
      /\ \A x \in b.eput : \/ x[2] = "revised_from" /\ x[3] = nextId
                           \/ x[2] \in UserEdgeTypes
  <2>1. b.eput = {<<i, "revised_from", nextId>>} \cup {<<i, l[1], l[2]>> : l \in links}
    BY <1>4, ReviseBatchFields
  <2> QED BY <1>4, <2>1, ReviseBatchFields, LinkTypes
<1> HIDE DEF b
<1>8. u.op = "revise" /\ u.id = i /\ u.batch = b /\ u.todo = Excess(i)
  BY DEF Prepared
<1> HIDE DEF u
<1>9. Numbered(u, nextId')
  BY <1>2, <1>4, <1>7, <1>8 DEF Numbered, Issued, Writers
<1>10. Fit(u, nextId', snaps', doomed') /\ Path("write", u)
  BY <1>2, <1>5, <1>6, <1>7, <1>8, <1>9
     DEF Fit, Path, Removable, Lineal, LinksOwn, Writers
<1>11. Become(c, "write", u)
  BY <1>1 DEF b, u
<1> QED BY <1>3, <1>10, <1>11, BecomeFit

\* delete prepares a fit task.
LEMMA BeginDeleteFit ==
  ASSUME IInv, FitTasks, Numbering, NEW c \in Clients, BeginDelete(c)
  PROVE  FitTasks' /\ Grows /\ doomed' \subseteq Issued
<1>1. PICK i \in Known \cap Live :
        /\ Become(c, "write", Prepared("delete", i, DeleteBatch({i}), {i}, {}))
        /\ doomed' = doomed \cup {i}
  BY DEF BeginDelete
<1> DEFINE b == DeleteBatch({i})
           u == Prepared("delete", i, b, {i}, {})
<1>2. nextId \in Nat /\ nextId' = nextId /\ snaps' = snaps
  BY DEF IInv, TypeOK, BeginDelete
<1>3. Grows
  BY <1>1, <1>2 DEF Grows
<1>4. \A j \in Ids : NoBatch.put[j] = None
  BY DEF NoBatch
<1>5. b.put = NoBatch.put /\ b.del = {i} /\ b.eput = {} /\ Named(b) = {}
  BY DeleteBatchFields
<1> HIDE DEF b
<1>6. u.op = "delete" /\ u.id = i /\ u.batch = b /\ u.todo = {i}
  BY DEF Prepared
<1> HIDE DEF u
<1>7. Fit(u, nextId', snaps', doomed') /\ Path("write", u)
  BY <1>1, <1>4, <1>5, <1>6
     DEF Fit, Path, Numbered, Removable, Lineal, LinksOwn, Writers
<1>8. Become(c, "write", u)
  BY <1>1 DEF b, u
<1>9. i \in Issued
  BY DEF Live, Numbering, Indexed
<1> QED BY <1>1, <1>3, <1>7, <1>8, <1>9, BecomeFit DEF Numbering

\* Forgetting the memories of S prepares a fit task: beside S it removes only
\* snapshots.
LEMMA PrepareForgetFit ==
  ASSUME IInv, FitTasks, Numbering, NEW c \in Clients,
         NEW op \in {"forget", "forget_entity", "forget_scan", "auto_forget"},
         NEW S \in SUBSET Live, PrepareForget(c, op, S),
         nextId' = nextId, snaps' = snaps,
         "revised_from" \notin UserEdgeTypes => Lineal(fwd, snaps)
  PROVE  FitTasks' /\ Grows /\ doomed' \subseteq Issued
<1> DEFINE all == S \cup {j \in Live : \E i \in S : j \in SnapshotsOf(i)}
           b == [DeleteBatch(all) EXCEPT !.tombs = {<<clock', i>> : i \in S}]
           u == Prepared(op, None, b, all, all)
<1>1. Become(c, "write", u) /\ doomed' = doomed \cup S
  BY DEF PrepareForget
<1>2. nextId \in Nat
  BY DEF IInv, TypeOK
<1>3. Grows
  BY <1>1, <1>2 DEF Grows
<1>4. \A j \in Ids : NoBatch.put[j] = None
  BY DEF NoBatch
<1>5. "revised_from" \notin UserEdgeTypes => all \subseteq doomed' \cup snaps
  BY <1>1 DEF SnapshotsOf, Lineal
<1> HIDE DEF all
<1>6. b.put = NoBatch.put /\ b.del = all /\ b.eput = {} /\ Named(b) = {}
  BY DEF DeleteBatch, NoBatch, Named
<1> HIDE DEF b
<1>7. u.op = op /\ u.batch = b /\ u.todo = all
  BY DEF Prepared
<1> HIDE DEF u
<1>8. Fit(u, nextId', snaps', doomed') /\ Path("write", u)
  BY <1>4, <1>5, <1>6, <1>7
     DEF Fit, Path, Numbered, Removable, Lineal, LinksOwn, Writers
<1>9. S \subseteq Issued
  BY DEF Live, Numbering, Indexed
<1> QED BY <1>1, <1>3, <1>8, <1>9, BecomeFit DEF Numbering

\* Every form of forget prepares a fit task.
LEMMA BeginForgetsFit ==
  ASSUME IInv, FitTasks, Numbering, NEW c \in Clients,
         "revised_from" \notin UserEdgeTypes => Lineal(fwd, snaps),
         BeginForget(c) \/ BeginForgetEntity(c) \/ BeginForgetScan(c) \/ BeginAutoForget(c)
  PROVE  FitTasks' /\ Grows /\ doomed' \subseteq Issued
<1>1. nextId' = nextId /\ snaps' = snaps
  BY DEF BeginForget, BeginForgetEntity, BeginForgetScan, BeginAutoForget
<1>2. CASE \E op \in {"forget", "forget_entity", "forget_scan", "auto_forget"},
              S \in SUBSET Live : PrepareForget(c, op, S)
  BY <1>1, <1>2, PrepareForgetFit
<1>3. CASE /\ UNCHANGED doomed
           /\ Become(c, "clear", Prepared("auto_forget", None, NoBatch, {}, {}))
  <2> DEFINE u == Prepared("auto_forget", None, NoBatch, {}, {})
  <2>1. Fit(u, nextId', snaps', doomed') /\ Path("clear", u)
    BY DEF Fit, Path, Prepared, Numbered, Named, NoBatch, Removable, Lineal, LinksOwn, Writers
  <2>2. Grows
    BY <1>1, <1>3 DEF Grows, IInv, TypeOK
  <2> HIDE DEF u
  <2> QED BY <1>3, <2>1, <2>2, BecomeFit DEF u, Numbering
<1>4. CASE BeginForget(c)
  BY <1>2, <1>4 DEF BeginForget
<1>5. CASE BeginForgetEntity(c)
  BY <1>2, <1>5 DEF BeginForgetEntity, FirstN
<1>6. CASE BeginForgetScan(c)
  BY <1>2, <1>6 DEF BeginForgetScan, FirstN
<1>7. CASE BeginAutoForget(c)
  <2>1. FirstN(cands \cap Live, MaxForget) \in SUBSET Live
    BY DEF FirstN
  <2> QED BY <1>2, <1>3, <1>7, <2>1 DEF BeginAutoForget
<1> QED BY <1>4, <1>5, <1>6, <1>7

\* recall and the decay sweep prepare fit tasks: they write back live records.
LEMMA WriteBacksFit ==
  ASSUME IInv, FitTasks, Numbering, NEW c \in Clients, BeginRecall(c) \/ BeginSweep(c)
  PROVE  FitTasks' /\ Grows /\ doomed' = doomed
<1>1. Grows /\ nextId' = nextId /\ snaps' = snaps /\ doomed' = doomed
  BY DEF BeginRecall, BeginSweep, history, Grows, IInv, TypeOK
<1>2. ASSUME NEW op \in {"recall", "sweep"}, NEW S \in SUBSET Live, NEW todo, NEW touched,
             op = "recall" => todo = {},
             Become(c, "write", Prepared(op, None, WriteBackBatch(S), todo, touched))
      PROVE  FitTasks'
  <2> DEFINE b == WriteBackBatch(S)
             u == Prepared(op, None, b, todo, touched)
  <2>1. /\ \A j \in Ids : b.put[j] # None => j \in S
        /\ b.del = {} /\ b.eput = {} /\ Named(b) = {}
    BY WriteBackBatchFields
  <2> HIDE DEF b
  <2>2. u.op = op /\ u.batch = b /\ u.todo = todo
    BY DEF Prepared
  <2> HIDE DEF u
  <2>3. S \subseteq Issued
    BY DEF Live, Numbering, Indexed
  <2>4. Fit(u, nextId', snaps', doomed') /\ Path("write", u)
    BY <1>1, <1>2, <2>1, <2>2, <2>3
       DEF Fit, Path, Numbered, Removable, Lineal, LinksOwn, Writers, Issued
  <2>5. Become(c, "write", u)
    BY <1>2 DEF b, u
  <2> QED BY <1>1, <2>4, <2>5, BecomeFit
<1>3. CASE BeginRecall(c)
  <2>1. PICK S \in SUBSET Live :
          Become(c, "write", Prepared("recall", None, WriteBackBatch(S), {}, {}))
    BY <1>3 DEF BeginRecall
  <2> QED BY <1>1, <1>2, <2>1
<1>4. CASE BeginSweep(c)
  <2> DEFINE batch == FirstN({i \in Live : i > cursor}, SweepBatch)
  <2>1. batch \subseteq Live
    BY DEF FirstN
  <2>2. CASE UNCHANGED <<pc, task>>
    BY <1>1, <2>2 DEF FitTasks
  <2>3. ASSUME NEW moved \in SUBSET batch, NEW low \in SUBSET batch,
               Become(c, "write",
                 Prepared("sweep", None, WriteBackBatch(moved), batch, low))
        PROVE  FitTasks'
    BY <1>2, <2>1, <2>3
  <2> QED BY <1>1, <1>4, <2>2, <2>3 DEF BeginSweep
<1> QED BY <1>3, <1>4

\* The later steps of an operation keep its task fit.
LEMMA ContinueFit ==
  ASSUME IInv, FitTasks, NEW c \in Clients, Continue(c) \/ StorageError(c)
  PROVE  FitTasks' /\ Grows /\ UNCHANGED <<nextId, snaps, doomed>>
<1>1. UNCHANGED <<nextId, snaps, doomed>>
  BY DEF Continue, Write, Reindex, Insert, Persist, Assoc, AssocPersist, Tombstone, Mark,
         ClearCandidates, PutCandidates, PutCursor, Rewind, StorageError, history
<1>2. Grows
  BY <1>1 DEF Grows, IInv, TypeOK
<1>3. /\ Fit(task[c], nextId, snaps, doomed) /\ Path(pc[c], task[c]) /\ task[c] \in Task
      /\ Phase(pc[c], task[c].op)
  BY DEF FitTasks, IInv, TypeOK, Tasks
<1>4. ASSUME NEW label, Goto(c, label), Path(label, task[c])
      PROVE  FitTasks'
  BY <1>1, <1>2, <1>3, <1>4, BecomeFit DEF Goto
<1>5. CASE Write(c)
  <2>1. Path(AfterWrite(task[c].op), task[c])
    BY DEF AfterWrite, Path
  <2> QED BY <1>1, <1>2, <1>4, <1>5, <2>1 DEF Write
<1>6. CASE Reindex(c) \/ Insert(c) \/ Assoc(c) \/ AssocPersist(c)
  <2>1. PICK label \in {"insert", "persist", "assoc_persist", "idle"} : Goto(c, label)
    BY <1>6 DEF Reindex, Insert, Assoc, AssocPersist
  <2>2. Path(label, task[c])
    BY <1>3, <1>6, <2>1, BecomeOthers
       DEF Path, Reindex, Insert, Assoc, AssocPersist, Goto
  <2> QED BY <1>1, <1>2, <1>4, <2>1, <2>2
<1>7. CASE Persist(c)
  <2>1. Path(AfterPersist(task[c]), task[c])
    BY <1>3, <1>7 DEF AfterPersist, Path, Phase, Writers, Persist
  <2> QED BY <1>1, <1>2, <1>4, <1>7, <2>1 DEF Persist
<1>8. CASE Tombstone(c)
  <2>1. PICK i \in task[c].todo :
          Become(c, IF task[c].todo \ {i} # {} THEN "tombstone"
                    ELSE IF task[c].op = "delete" THEN "idle" ELSE "mark",
                 [task[c] EXCEPT !.todo = task[c].todo \ {i}])
    BY <1>8 DEF Tombstone
  <2> DEFINE u == [task[c] EXCEPT !.todo = task[c].todo \ {i}]
             label == IF task[c].todo \ {i} # {} THEN "tombstone"
                      ELSE IF task[c].op = "delete" THEN "idle" ELSE "mark"
  <2>2. Fit(u, nextId, snaps, doomed) /\ u.op = task[c].op
    BY <1>3, FitLess DEF Task
  <2> HIDE DEF u
  <2>3. Path(label, u)
    BY <1>3, <1>8, <2>2 DEF Path, Tombstone
  <2> HIDE DEF label
  <2> QED BY <1>1, <1>2, <2>1, <2>2, <2>3, BecomeFit DEF u, label
<1>9. ASSUME NEW rest, Become(c, AfterMark(c, rest), [task[c] EXCEPT !.touched = rest])
      PROVE  FitTasks'
  <2> DEFINE u == [task[c] EXCEPT !.touched = rest]
  <2>1. Fit(u, nextId, snaps, doomed)
    BY <1>3, FitLess
  <2>2. Path(AfterMark(c, rest), u)
    BY DEF Path, AfterMark
  <2> HIDE DEF u
  <2> QED BY <1>1, <1>2, <1>9, <2>1, <2>2, BecomeFit DEF u
<1>10. CASE Mark(c)
  BY <1>1, <1>2, <1>9, <1>10 DEF Mark
<1>11. CASE ClearCandidates(c) \/ PutCandidates(c) \/ PutCursor(c) \/ Rewind(c)
  <2>1. PICK label \in {"idle", "cursor", "rewind"} : Goto(c, label)
    BY <1>11 DEF ClearCandidates, PutCandidates, PutCursor, Rewind, AfterCursor
  <2> QED BY <1>1, <1>2, <1>4, <2>1 DEF Path
<1>12. CASE StorageError(c)
  <2>1. \/ \E rest : Become(c, AfterMark(c, rest), [task[c] EXCEPT !.touched = rest])
        \/ \E label \in {"idle", "rewind", "candidates", "cursor"} : Goto(c, label)
    BY <1>12 DEF StorageError, AfterCursor
  <2> QED BY <1>1, <1>2, <1>4, <1>9, <2>1 DEF Path
<1> QED
  BY <1>1, <1>2, <1>5, <1>6, <1>7, <1>8, <1>10, <1>11, <1>12 DEF Continue

\* The first steps of the operations leave what is stored and indexed alone.
LEMMA BeginFrame ==
  ASSUME IInv, NEW c \in Clients, Begin(c)
  PROVE  /\ UNCHANGED <<mem, temporal, vec, avec, hnsw, assoc, acked, outdated, faults, marks>>
         /\ pc[c] = "idle"
         /\ \/ AddEdge(c)
            \/ UNCHANGED <<fwd, rev, pc, task>>
            \/ /\ UNCHANGED <<fwd, rev>>
               /\ \E label \in {"write", "clear"} : \E t : Become(c, label, t)
<1>1. UNCHANGED <<mem, temporal, vec, avec, hnsw, assoc, acked, outdated, faults, marks>>
  BY DEF Begin, BeginRemember, BeginInsight, AddEdge, BeginRevise, BeginDelete, BeginForget,
         BeginForgetEntity, BeginForgetScan, BeginAutoForget, GcTombstones, BeginRecall,
         BeginSweep, Start, store, memory, history, meta
<1>2. pc[c] = "idle"
  BY DEF Begin, BeginRemember, BeginInsight, AddEdge, BeginRevise, BeginDelete, BeginForget,
         BeginForgetEntity, BeginForgetScan, BeginAutoForget, GcTombstones, BeginRecall,
         BeginSweep, Start
<1>3. \/ AddEdge(c)
      \/ UNCHANGED <<fwd, rev, pc, task>>
      \/ UNCHANGED <<fwd, rev>> /\ \E label \in {"write", "clear"} : \E t : Become(c, label, t)
  BY DEF Begin, BeginRemember, BeginInsight, BeginRevise, BeginDelete, BeginForget,
         BeginForgetEntity, BeginForgetScan, BeginAutoForget, GcTombstones, BeginRecall,
         BeginSweep, PrepareForget, store
<1> QED BY <1>1, <1>2, <1>3

LineageOK == "revised_from" \notin UserEdgeTypes => Lineal(fwd, snaps)

\* The first steps of the operations prepare fit tasks.
LEMMA BeginFit ==
  ASSUME IInv, FitTasks, Numbering, LineageOK, NEW c \in Clients, Begin(c)
  PROVE  FitTasks' /\ Grows /\ doomed' \subseteq Issued
<1>1. CASE BeginRemember(c)
  BY <1>1, BeginRememberFit DEF BeginRemember, history, Numbering
<1>2. CASE BeginInsight(c)
  BY <1>2, BeginInsightFit DEF BeginInsight, history, Numbering
<1>3. CASE BeginRevise(c)
  BY <1>3, BeginReviseFit DEF BeginRevise, Numbering, LineageOK
<1>4. CASE BeginDelete(c)
  BY <1>4, BeginDeleteFit
<1>5. CASE BeginForget(c) \/ BeginForgetEntity(c) \/ BeginForgetScan(c) \/ BeginAutoForget(c)
  BY <1>5, BeginForgetsFit DEF LineageOK
<1>6. CASE BeginRecall(c) \/ BeginSweep(c)
  BY <1>6, WriteBacksFit DEF Numbering
<1>7. CASE AddEdge(c) \/ GcTombstones(c)
  BY <1>7 DEF AddEdge, GcTombstones, history, FitTasks, Grows, Numbering, IInv, TypeOK
<1> QED BY <1>1, <1>2, <1>3, <1>4, <1>5, <1>6, <1>7 DEF Begin

\* After a crash no task is left.
LEMMA CrashFit ==
  ASSUME IInv, FitTasks, Crash
  PROVE  FitTasks' /\ Grows /\ UNCHANGED <<nextId, snaps, doomed>>
BY NoTaskFit DEF Crash, FitTasks, Grows, history, IInv, TypeOK

Listed(i) == \/ vec[i] # None \/ hnsw[i] # None \/ i \in avec \/ i \in assoc
             \/ \E x \in temporal : x[2] = i

\* A step lists in an index only what is listed already and what a task writes,
\* and stores only the records a batch puts.
LEMMA IndexesGrow ==
  ASSUME IInv, FitTasks, [Next]_vars, NEW i \in Ids
  PROVE  /\ Listed(i)' => Listed(i) \/ \E c \in Clients : (task[c].op \in Writers /\ i = task[c].id)
         /\ mem'[i] # None => mem[i] # None \/ \E c \in Clients : task[c].batch.put[i] # None
<1>1. CASE UNCHANGED vars
  BY <1>1 DEF vars, store, memory, Listed
<1>2. CASE Crash
  BY <1>2 DEF Crash, store, Listed
<1>3. ASSUME NEW c \in Clients, Begin(c)
      PROVE  UNCHANGED <<mem, temporal, vec, avec, hnsw, assoc>>
  BY <1>3, BeginFrame
<1>4. ASSUME NEW c \in Clients, Write(c)
      PROVE  /\ Listed(i)' => Listed(i) \/ (task[c].op \in Writers /\ i = task[c].id)
             /\ mem'[i] # None => mem[i] # None \/ task[c].batch.put[i] # None
  <2>1. \A j \in Named(task[c].batch) : task[c].op \in Writers /\ j = task[c].id
    BY DEF FitTasks, Fit, Numbered
  <2>2. \A x \in temporal' : x \in temporal \/ x[2] \in Named(task[c].batch)
    BY <1>4 DEF Write, ApplyBatch, Named
  <2>3. vec'[i] # None => vec[i] # None \/ i \in Named(task[c].batch)
    BY <1>4 DEF Write, ApplyBatch, Named
  <2>4. i \in avec' => i \in avec \/ i \in Named(task[c].batch)
    BY <1>4 DEF Write, ApplyBatch, Named
  <2>5. mem'[i] # None => mem[i] # None \/ task[c].batch.put[i] # None
    BY <1>4 DEF Write, ApplyBatch
  <2>6. hnsw' = hnsw /\ assoc' = assoc
    BY <1>4 DEF Write, memory
  <2>7. Listed(i)' => Listed(i) \/ i \in Named(task[c].batch)
    BY <2>2, <2>3, <2>4, <2>6 DEF Listed
  <2> QED BY <2>1, <2>5, <2>7
<1>5. ASSUME NEW c \in Clients,
             Reindex(c) \/ Insert(c) \/ Persist(c) \/ Assoc(c) \/ AssocPersist(c)
      PROVE  /\ Listed(i)' => Listed(i) \/ (task[c].op \in Writers /\ i = task[c].id)
             /\ mem' = mem
  <2>1. task[c].op \in Writers
    BY <1>5, WriterType DEF Reindex, Insert, Persist, Assoc, AssocPersist
  <2> DEFINE id == task[c].id
  <2>2. mem' = mem /\ temporal' = temporal
    BY <1>5 DEF Reindex, Insert, Persist, Assoc, AssocPersist, store
  <2>3. vec'[i] = vec[i] \/ i = id
    BY <1>5 DEF Reindex, Insert, Persist, Assoc, AssocPersist, store, IInv, TypeOK
  <2>4. hnsw'[i] = hnsw[i] \/ hnsw'[i] = None \/ i = id
    BY <1>5 DEF Reindex, Insert, Persist, Assoc, AssocPersist, memory, IInv, TypeOK
  <2>5. avec' \subseteq avec \cup {id} /\ assoc' \subseteq assoc \cup {id}
    BY <1>5 DEF Reindex, Insert, Persist, Assoc, AssocPersist, memory, store
  <2> HIDE DEF id
  <2>6. Listed(i)' => Listed(i) \/ i = id
    BY <2>2, <2>3, <2>4, <2>5 DEF Listed
  <2> QED BY <2>1, <2>2, <2>6 DEF id
<1>6. ASSUME NEW c \in Clients, Tombstone(c)
      PROVE  (Listed(i)' => Listed(i)) /\ mem' = mem
  BY <1>6 DEF Tombstone, store, Listed, IInv, TypeOK
<1>7. ASSUME NEW c \in Clients,
             \/ Mark(c) \/ ClearCandidates(c) \/ PutCandidates(c) \/ PutCursor(c)
             \/ Rewind(c) \/ StorageError(c)
      PROVE  UNCHANGED <<mem, temporal, vec, avec, hnsw, assoc>>
  BY <1>7 DEF Mark, ClearCandidates, PutCandidates, PutCursor, Rewind, StorageError,
              store, memory
<1>8. ASSUME UNCHANGED <<mem, temporal, vec, avec, hnsw, assoc>>
      PROVE  (Listed(i)' => Listed(i)) /\ mem' = mem
  BY <1>8 DEF Listed
<1> QED
  BY <1>1, <1>2, <1>3, <1>4, <1>5, <1>6, <1>7, <1>8 DEF Next, Continue

\* An id stays issued.
LEMMA FirstIds ==
  ASSUME NEW n \in Nat, NEW m \in Nat, n <= m
  PROVE  1 .. n - 1 \subseteq 1 .. m - 1
OBVIOUS

\* Every step keeps the numbering and the tasks fit.
LEMMA NumberingOK ==
  ASSUME IInv, FitTasks, Numbering, LineageOK, [Next]_vars
  PROVE  FitTasks' /\ Grows /\ Numbering'
<1>1. FitTasks' /\ Grows /\ doomed' \subseteq Issued
  <2>1. CASE UNCHANGED vars
    BY <2>1 DEF vars, history, FitTasks, Grows, IInv, TypeOK, Numbering
  <2>2. CASE Crash
    BY <2>2, CrashFit DEF Numbering
  <2>3. ASSUME NEW c \in Clients, Continue(c) \/ StorageError(c)
        PROVE  FitTasks' /\ Grows /\ doomed' \subseteq Issued
    BY <2>3, ContinueFit DEF Numbering
  <2> QED BY <2>1, <2>2, <2>3, BeginFit DEF Next
<1>2. Issued \subseteq Issued' /\ nextId \in Nat
  <2>1. nextId \in Nat /\ nextId' \in Nat /\ nextId <= nextId'
    BY <1>1 DEF Grows, IInv, TypeOK
  <2> QED BY <2>1, FirstIds DEF Issued
<1>3. snaps' \subseteq Issued'
  <2>1. CASE snaps' = snaps
    BY <1>2, <2>1 DEF Numbering
  <2>2. CASE nextId' = nextId + 1 /\ nextId \in Ids
    BY <1>1, <1>2, <2>2 DEF Grows, Issued, Numbering, Ids
  <2>3. ASSUME NEW c \in Clients, Begin(c), ~BeginRevise(c)
        PROVE  snaps' = snaps
    BY <2>3 DEF Begin, BeginRemember, BeginInsight, AddEdge, BeginDelete, BeginForget,
         BeginForgetEntity, BeginForgetScan, BeginAutoForget, GcTombstones, BeginRecall,
         BeginSweep, history
  <2> QED BY <2>1, <2>2, <2>3, ContinueFit, CrashFit DEF Next, BeginRevise, vars, history
<1>4. acked' \subseteq Issued'
  <2>1. ASSUME NEW c \in Clients, Continue(c) \/ StorageError(c), ~AssocPersist(c)
        PROVE  acked' = acked
    BY <2>1 DEF Continue, Write, Reindex, Insert, Persist, Assoc, Tombstone, Mark,
         ClearCandidates, PutCandidates, PutCursor, Rewind, StorageError, history
  <2>2. ASSUME NEW c \in Clients, AssocPersist(c)
        PROVE  acked' \subseteq Issued
    <3>1. task[c].op \in Writers
      BY <2>2, WriterType DEF AssocPersist
    <3> QED BY <2>2, <3>1 DEF AssocPersist, Numbering, FitTasks, Fit, Numbered, Issued
  <2>3. acked' = acked \/ acked' \subseteq Issued
    BY <2>1, <2>2, BeginFrame DEF Next, Crash, vars, history
  <2> QED BY <1>2, <2>3 DEF Numbering
<1>5. Indexed' \subseteq Issued'
  <2> SUFFICES ASSUME NEW i \in Indexed' PROVE i \in Issued
    BY <1>2
  <2>1. i \in Ids /\ (Listed(i)' \/ mem'[i] # None)
    BY DEF Indexed, Listed
  <2>2. \A c \in Clients : /\ task[c].op \in Writers => task[c].id \in Issued
                           /\ task[c].batch.put[i] # None => i \in Issued
    BY <2>1 DEF FitTasks, Fit, Numbered, Issued
  <2>3. Listed(i) \/ mem[i] # None => i \in Issued
    BY <2>1 DEF Listed, Numbering, Indexed
  <2> QED BY <2>1, <2>2, <2>3, IndexesGrow
<1> QED BY <1>1, <1>2, <1>3, <1>4, <1>5 DEF Numbering

-----------------------------------------------------------------------------
(* No snapshot is indexed.                                                  *)

Out == ~SnapshotTargets => SnapshotsNeverIndexed

\* A snapshot's id is new, and no task writes it afterwards.
LEMMA OutOK ==
  ASSUME IInv, IInv', FitTasks, Numbering, Out, Grows, [Next]_vars
  PROVE  Out'
<1> SUFFICES ASSUME ~SnapshotTargets, NEW s \in snaps' PROVE ~Listed(s)'
  BY DEF Out, SnapshotsNeverIndexed, Listed
<1>1. s \in Ids
  BY DEF IInv, TypeOK
<1>2. s \in snaps \/ s = nextId
  BY DEF Grows
<1>3. CASE s \in snaps
  <2>1. ~Listed(s)
    BY <1>3 DEF Out, SnapshotsNeverIndexed, Listed
  <2>2. \A c \in Clients : task[c].op \in Writers => task[c].id # s
    BY <1>3 DEF FitTasks, Fit
  <2> QED BY <1>1, <2>1, <2>2, IndexesGrow
<1>4. CASE s = nextId
  <2>1. nextId \notin Issued
    BY DEF Issued, IInv, TypeOK
  <2>2. ~Listed(s)
    BY <1>1, <1>4, <2>1 DEF Listed, Numbering, Indexed
  <2>3. \A c \in Clients : task[c].op \in Writers => task[c].id # s
    BY <1>4, <2>1 DEF FitTasks, Fit, Numbered, Issued
  <2> QED BY <1>1, <2>2, <2>3, IndexesGrow
<1> QED BY <1>2, <1>3, <1>4

-----------------------------------------------------------------------------
(* No acknowledged memory is lost.                                          *)

\* A new edge is one a caller adds or one of a batch.
LEMMA EdgesGrow ==
  ASSUME IInv, [Next]_vars, NEW e \in fwd'
  PROVE  \/ e \in fwd \/ e[2] \in UserEdgeTypes
         \/ \E c \in Clients : Write(c) /\ e \in task[c].batch.eput
<1>1. ASSUME NEW c \in Clients, AddEdge(c)
      PROVE  e \in fwd \/ e[2] \in UserEdgeTypes
  BY <1>1 DEF AddEdge
<1>2. ASSUME NEW c \in Clients, Begin(c), ~AddEdge(c)
      PROVE  fwd' = fwd
  BY <1>2, BeginFrame
<1>3. ASSUME NEW c \in Clients, Write(c)
      PROVE  e \in fwd \/ e \in task[c].batch.eput
  BY <1>3 DEF Write, ApplyBatch
<1>4. ASSUME NEW c \in Clients, Continue(c) \/ StorageError(c), ~Write(c)
      PROVE  fwd' = fwd
  BY <1>4 DEF Continue, Reindex, Insert, Persist, Assoc, AssocPersist, Tombstone, Mark,
              ClearCandidates, PutCandidates, PutCursor, Rewind, StorageError, store
<1>5. Crash \/ UNCHANGED vars => fwd' = fwd
  BY DEF Crash, vars, store
<1> QED BY <1>1, <1>2, <1>3, <1>4, <1>5 DEF Next

\* Edges of type revised_from still lead to snapshots.
LEMMA LineageStays ==
  ASSUME IInv, FitTasks, LineageOK, Grows, [Next]_vars
  PROVE  LineageOK'
<1>1. \A c \in Clients : "revised_from" \notin UserEdgeTypes
                           => Lineal(task[c].batch.eput, snaps)
  BY DEF FitTasks, Fit, Removable
<1> QED BY <1>1, EdgesGrow DEF LineageOK, Lineal, Grows

\* A memory that is stored and indexed, save that a revise of it may be between
\* its tombstone and its insert.
Reinserted(i) == \E c \in Clients : pc[c] = "insert" /\ task[c].id = i
Kept(i) == /\ mem[i] # None /\ vec[i] # None /\ i \in avec
           /\ hnsw[i] # None \/ Reinserted(i)

\* A client at another label takes nothing from an insert that is due.
LEMMA ReinsertedStays ==
  ASSUME IInv, NEW c \in Clients, NEW label, NEW t, Become(c, label, t), NEW i,
         Reinserted(i), pc[c] # "insert"
  PROVE  Reinserted(i)'
BY BecomeOthers DEF Reinserted

\* No step takes away a memory that is no snapshot and that no caller removes.
LEMMA KeptStays ==
  ASSUME IInv, FitTasks, Grows, [Next]_vars, "revised_from" \notin UserEdgeTypes,
         NEW i \in Ids, Kept(i), i \notin doomed', i \notin snaps
  PROVE  Kept(i)'
<1>1. i \notin doomed \cup snaps
  BY DEF Grows
<1>2. None \notin Texts /\ None \notin Record
  BY EngineAssumption
<1>3. ASSUME UNCHANGED <<mem, vec, avec, hnsw>>, Reinserted(i) => Reinserted(i)'
      PROVE  Kept(i)'
  BY <1>3 DEF Kept
<1>4. CASE UNCHANGED vars
  BY <1>4 DEF vars, store, memory, Kept, Reinserted
<1>5. CASE Crash
  BY <1>5 DEF Crash, store, Kept
<1>6. ASSUME NEW c \in Clients, Begin(c)
      PROVE  Kept(i)'
  <2>1. /\ UNCHANGED <<mem, vec, avec, hnsw>> /\ pc[c] = "idle"
        /\ UNCHANGED <<pc, task>> \/ \E label \in {"write", "clear"} : \E t : Become(c, label, t)
    BY <1>6, BeginFrame DEF AddEdge
  <2>2. Reinserted(i) => Reinserted(i)'
    BY <2>1, ReinsertedStays DEF Reinserted
  <2> QED BY <1>3, <2>1, <2>2
<1>7. ASSUME NEW c \in Clients, Write(c)
      PROVE  Kept(i)'
  <2> DEFINE b == task[c].batch
  <2>1. i \notin b.del /\ Sound(b)
    BY <1>1 DEF FitTasks, Fit, Removable, IInv, Tasks, TaskOK
  <2>2. i \in b.vput => b.put[i].text # None
    BY <1>2, <2>1 DEF Sound, Record
  <2>3. mem'[i] # None /\ vec'[i] # None /\ i \in avec'
    <3> HIDE DEF b
    <3>1. ApplyBatch(b)
      BY <1>7 DEF Write, b
    <3> QED BY <2>1, <2>2, <3>1 DEF ApplyBatch, Kept
  <2>4. hnsw' = hnsw
    BY <1>7 DEF Write, memory
  <2>5. Reinserted(i) => Reinserted(i)'
    BY <1>7, ReinsertedStays DEF Write, Goto
  <2> QED BY <2>3, <2>4, <2>5 DEF Kept
<1>8. ASSUME NEW c \in Clients, Reindex(c)
      PROVE  Kept(i)'
  <2>1. Become(c, "insert", task[c]) /\ UNCHANGED <<mem, vec, avec>> /\ pc[c] = "reindex"
    BY <1>8 DEF Reindex, Goto, store
  <2>2. CASE task[c].id = i
    <3>1. Reinserted(i)'
      BY <2>1, <2>2, BecomeOthers DEF Reinserted
    <3> QED BY <2>1, <3>1 DEF Kept
  <2>3. CASE task[c].id # i
    <3>1. hnsw'[i] = hnsw[i]
      BY <1>8, <2>3 DEF Reindex, IInv, TypeOK
    <3> QED BY <2>1, <3>1, ReinsertedStays DEF Kept
  <2> QED BY <2>2, <2>3
<1>9. ASSUME NEW c \in Clients, Insert(c)
      PROVE  Kept(i)'
  <2>1. Become(c, "persist", task[c]) /\ UNCHANGED <<mem, vec, avec>>
    BY <1>9 DEF Insert, Goto, store
  <2>2. Text(c) # None /\ task[c].id \in Ids
    BY <1>2, <1>9, WriterType DEF Insert
  <2>3. CASE task[c].id = i
    BY <1>9, <2>1, <2>2, <2>3 DEF Insert, Kept, IInv, TypeOK
  <2>4. CASE task[c].id # i
    <3>1. hnsw'[i] = hnsw[i]
      BY <1>9, <2>4 DEF Insert, IInv, TypeOK
    <3>2. Reinserted(i) => Reinserted(i)'
      BY <2>1, <2>4, BecomeOthers DEF Reinserted
    <3> QED BY <2>1, <3>1, <3>2 DEF Kept
  <2> QED BY <2>3, <2>4
<1>10. ASSUME NEW c \in Clients, Persist(c) \/ Assoc(c) \/ AssocPersist(c)
       PROVE  Kept(i)'
  <2>1. /\ \E label, t : Become(c, label, t)
        /\ pc[c] # "insert" /\ mem' = mem /\ hnsw' = hnsw /\ avec \subseteq avec'
    BY <1>10 DEF Persist, Assoc, AssocPersist, Goto, store, memory
  <2>2. vec'[i] # None
    <3>1. Text(c) # None
      BY <1>2, <1>10, WriterType DEF Persist, Assoc, AssocPersist
    <3> QED BY <1>10, <3>1 DEF Persist, Assoc, AssocPersist, store, Kept, IInv, TypeOK
  <2> QED BY <2>1, <2>2, ReinsertedStays DEF Kept
<1>11. ASSUME NEW c \in Clients, Tombstone(c)
       PROVE  Kept(i)'
  <2>1. i \notin task[c].todo
    BY <1>1, <1>11 DEF FitTasks, Fit, Removable, Path, Tombstone
  <2>2. /\ hnsw'[i] = hnsw[i] /\ UNCHANGED <<mem, vec, avec>>
        /\ pc[c] # "insert" /\ \E label, t : Become(c, label, t)
    BY <1>11, <2>1 DEF Tombstone, store, IInv, TypeOK
  <2> QED BY <2>2, ReinsertedStays DEF Kept
<1>12. ASSUME NEW c \in Clients,
              \/ Mark(c) \/ ClearCandidates(c) \/ PutCandidates(c) \/ PutCursor(c)
              \/ Rewind(c) \/ StorageError(c)
       PROVE  Kept(i)'
  <2>1. /\ UNCHANGED <<mem, vec, avec, hnsw>>
        /\ pc[c] # "insert" /\ \E label, t : Become(c, label, t)
    BY <1>12 DEF Mark, ClearCandidates, PutCandidates, PutCursor, Rewind, StorageError,
                 Goto, store, memory
  <2> QED BY <1>3, <2>1, ReinsertedStays
<1> QED
  BY <1>4, <1>5, <1>6, <1>7, <1>8, <1>9, <1>10, <1>11, <1>12 DEF Next, Continue

\* A remember that has written its batch and not yet returned.
InFlight(c) == /\ task[c].op = "remember"
               /\ pc[c] \in {"insert", "persist", "assoc", "assoc_persist"}

Lossless ==
  "revised_from" \notin UserEdgeTypes =>
    /\ acked \cap snaps = {}
    /\ \A c \in Clients : InFlight(c) /\ task[c].id \notin doomed => Kept(task[c].id)
    /\ \A i \in acked \ doomed : Kept(i)

\* A remember is in flight because it just wrote its batch, or was before.
LEMMA InFlightFrom ==
  ASSUME IInv, FitTasks, [Next]_vars, NEW c \in Clients, InFlight(c)'
  PROVE  task'[c] = task[c] /\ (InFlight(c) \/ Write(c))
<1>1. ASSUME NEW d \in Clients, NEW label, NEW t, Become(d, label, t), c # d
      PROVE  task'[c] = task[c] /\ InFlight(c)
  BY <1>1, BecomeOthers DEF InFlight
<1>2. ASSUME UNCHANGED <<pc, task>>
      PROVE  task'[c] = task[c] /\ InFlight(c)
  BY <1>2 DEF InFlight
<1>3. ~Crash
  BY DEF Crash, InFlight
<1>4. ASSUME NEW d \in Clients, Begin(d)
      PROVE  task'[c] = task[c] /\ InFlight(c)
  <2>1. \/ UNCHANGED <<pc, task>>
        \/ \E label \in {"write", "clear"} : \E t : Become(d, label, t)
    BY <1>4, BeginFrame DEF AddEdge
  <2> QED BY <1>1, <1>2, <2>1, BecomeOthers DEF InFlight
<1>5. ASSUME NEW d \in Clients, Continue(d) \/ StorageError(d)
      PROVE  task'[c] = task[c] /\ (InFlight(c) \/ Write(c))
  <2>1. CASE c # d
    <3>1. \E label, t : Become(d, label, t)
      BY <1>5 DEF Continue, Write, Reindex, Insert, Persist, Assoc, AssocPersist, Tombstone,
             Mark, ClearCandidates, PutCandidates, PutCursor, Rewind, StorageError, Goto
    <3> QED BY <1>1, <2>1, <3>1
  <2>2. CASE c = d /\ Write(c)
    <3>1. Become(c, AfterWrite(task[c].op), task[c])
      BY <2>2 DEF Write, Goto
    <3> QED BY <2>2, <3>1, BecomeOthers DEF InFlight
  <2>3. CASE c = d /\ Reindex(c)
    <3>1. Become(c, "insert", task[c]) /\ task[c].op = "revise"
      BY <2>3 DEF Reindex, Goto, FitTasks, Path
    <3> QED BY <3>1, BecomeOthers DEF InFlight
  <2>4. CASE c = d /\ (Insert(c) \/ Persist(c) \/ Assoc(c) \/ AssocPersist(c))
    <3>1. PICK label : Become(c, label, task[c])
      BY <2>4 DEF Insert, Persist, Assoc, AssocPersist, Goto
    <3>2. label # "idle" /\ task'[c] = task[c]
      BY <3>1, BecomeOthers DEF InFlight
    <3> QED BY <2>4, <3>2 DEF InFlight, Insert, Persist, Assoc, AssocPersist
  <2>5. CASE c = d /\ (Tombstone(c) \/ Mark(c) \/ ClearCandidates(c) \/ PutCandidates(c)
                         \/ PutCursor(c) \/ Rewind(c) \/ StorageError(c))
    <3>1. PICK label \in {"idle", "tombstone", "mark", "clear", "cursor", "rewind", "candidates"} :
            \E t : Become(c, label, t)
      BY <2>5 DEF Tombstone, Mark, ClearCandidates, PutCandidates, PutCursor, Rewind,
                  StorageError, Goto, AfterMark, AfterCursor
    <3> QED BY <3>1, BecomeOthers DEF InFlight
  <2> QED BY <1>5, <2>1, <2>2, <2>3, <2>4, <2>5 DEF Continue
<1> QED BY <1>2, <1>3, <1>4, <1>5 DEF Next, vars

\* The batch of a remember stores and indexes its memory.
LEMMA RememberKept ==
  ASSUME IInv, FitTasks, "revised_from" \notin UserEdgeTypes,
         NEW c \in Clients, Write(c), task[c].op = "remember", task[c].id \notin doomed
  PROVE  Kept(task[c].id)'
<1> DEFINE b == task[c].batch
           i == task[c].id
<1>1. /\ i \in Ids /\ i \in b.vput /\ b.put[i] \in Record /\ i \in b.aput
      /\ i \notin b.del
  BY DEF FitTasks, Fit, Numbered, Removable, IInv, Tasks, TaskOK, Sound, Batch, Writers
<1>2. b.put[i] # None /\ b.put[i].text # None
  BY <1>1, EngineAssumption DEF Record
<1>3. Become(c, "insert", task[c])
  BY DEF Write, Goto, AfterWrite
<1>4. task'[c] = task[c] /\ pc'[c] = "insert"
  BY <1>3, BecomeOthers
<1>5. ApplyBatch(b)
  BY DEF Write
<1> HIDE DEF b
<1>6. mem'[i] # None /\ vec'[i] # None /\ i \in avec'
  <2> HIDE DEF i
  <2> QED BY <1>1, <1>2, <1>5 DEF ApplyBatch
<1> QED BY <1>4, <1>6 DEF Kept, Reinserted

\* Every step keeps what was acknowledged.
LEMMA LosslessOK ==
  ASSUME IInv, IInv', FitTasks, Numbering, Lossless, Grows, [Next]_vars
  PROVE  Lossless'
<1> SUFFICES ASSUME "revised_from" \notin UserEdgeTypes
             PROVE  /\ acked' \cap snaps' = {}
                    /\ \A c \in Clients :
                         InFlight(c)' /\ task'[c].id \notin doomed' => Kept(task[c].id)'
                    /\ \A i \in acked' \ doomed' : Kept(i)'
  BY DEF Lossless
<1>1. \A c \in Clients : task[c].op = "remember" => task[c].id \notin snaps
  BY DEF FitTasks, Fit, Removable
<1>2. \A i \in acked' : i \in acked \/ \E c \in Clients : AssocPersist(c) /\ i = task[c].id
  <2>1. ASSUME NEW c \in Clients, Continue(c) \/ StorageError(c), ~AssocPersist(c)
        PROVE  acked' = acked
    BY <2>1 DEF Continue, Write, Reindex, Insert, Persist, Assoc, Tombstone, Mark,
         ClearCandidates, PutCandidates, PutCursor, Rewind, StorageError, history
  <2>2. ASSUME NEW c \in Clients, AssocPersist(c)
        PROVE  acked' = acked \cup {task[c].id}
    BY <2>2 DEF AssocPersist
  <2> QED BY <2>1, <2>2, BeginFrame DEF Next, Crash, vars, history
<1>3. \A c \in Clients : AssocPersist(c) => /\ InFlight(c) /\ task[c].id \in Ids
                                            /\ snaps' = snaps /\ doomed' = doomed
  BY WriterType DEF AssocPersist, InFlight, FitTasks, Path
<1>4. acked' \cap snaps' = {}
  <2>1. nextId \notin acked
    BY DEF Numbering, Issued, IInv, TypeOK
  <2> QED BY <1>1, <1>2, <1>3, <2>1 DEF Lossless, Grows, InFlight
<1>5. ASSUME NEW c \in Clients, InFlight(c)', task'[c].id \notin doomed'
      PROVE  Kept(task[c].id)'
  <2>1. task'[c] = task[c] /\ (InFlight(c) \/ Write(c))
    BY <1>5, InFlightFrom
  <2>2. task[c].id \notin doomed /\ task[c].op = "remember"
    BY <1>5, <2>1 DEF Grows, InFlight
  <2>3. CASE Write(c)
    BY <2>2, <2>3, RememberKept
  <2>4. CASE InFlight(c)
    <3> DEFINE i == task[c].id
    <3>1. i \in Ids
      BY <2>4, WriterType DEF InFlight
    <3>2. Kept(i) /\ i \notin snaps /\ i \notin doomed'
      BY <1>1, <1>5, <2>1, <2>2, <2>4 DEF Lossless
    <3>3. ASSUME NEW j \in Ids, j = i
          PROVE  Kept(j)'
      BY <3>2, <3>3, KeptStays
    <3>4. task[c].id' = task[c].id
      BY <2>1
    <3> QED BY <3>1, <3>3, <3>4 DEF Kept, Reinserted
  <2> QED BY <2>1, <2>3, <2>4
<1>6. ASSUME NEW i \in acked' \ doomed'
      PROVE  Kept(i)'
  <2>1. i \in Ids
    BY DEF IInv, TypeOK
  <2>2. Kept(i) /\ i \notin snaps
    BY <1>1, <1>2, <1>3 DEF Lossless, Grows, InFlight
  <2> QED BY <2>1, <2>2, KeptStays
<1> QED BY <1>4, <1>5, <1>6

-----------------------------------------------------------------------------
(* The insights of a revised source are marked.                             *)

\* A task that is about to write an insight.
Storing(c) == pc[c] = "write" /\ task[c].op = "insight"

\* An edge that no prepared insight can bring again.
OldEdge(e) == /\ e[1] \in Issued
              /\ \A c \in Clients : Storing(c) => e[1] # task[c].id

\* Each insight is linked to its source once.
EdgesOnce ==
  /\ \A e \in fwd : e[2] = "insight_from" => OldEdge(e)
  /\ \A x \in outdated : x[2][2] = "insight_from" /\ OldEdge(x[2])
  /\ \A c, d \in Clients : Storing(c) /\ Storing(d) /\ c # d => task[c].id # task[d].id

\* A revise that has written its batch will mark the insight of edge e.
Owed(e) == \E c \in Clients :
             /\ task[c].op = "revise"
             /\ pc[c] \in {"reindex", "insert", "persist", "tombstone", "mark"}
             /\ e[3] \in task[c].touched

MarksOwed ==
  faults = 0 =>
    \A x \in outdated : x[1] = "revise" /\ x[2] \in fwd => x[2][1] \in marks \/ Owed(x[2])

Marked == "insight_from" \notin UserEdgeTypes => EdgesOnce /\ MarksOwed

\* An insight is about to be written because it was, or because it just began
\* and has a new id.
LEMMA StoringFrom ==
  ASSUME IInv, FitTasks, [Next]_vars, NEW c \in Clients, Storing(c)'
  PROVE  \/ Storing(c) /\ task'[c] = task[c] /\ ~Write(c)
         \/ /\ task'[c].id = nextId
            /\ \A d \in Clients : d # c => task'[d] = task[d]
<1> DEFINE Stays == Storing(c) /\ task'[c] = task[c] /\ ~Write(c)
           Fresh == /\ task'[c].id = nextId
                    /\ \A d \in Clients : d # c => task'[d] = task[d]
<1>1. ASSUME NEW d \in Clients, NEW label, NEW t, Become(d, label, t), c # d
      PROVE  Storing(c) /\ task'[c] = task[c]
  BY <1>1, BecomeOthers DEF Storing
<1>2. ~Crash
  BY DEF Crash, Storing
<1>3. ~Write(c)
  <2>1. ASSUME Write(c) PROVE FALSE
    <3>1. Become(c, AfterWrite(task[c].op), task[c]) /\ AfterWrite(task[c].op) # "write"
      BY <2>1 DEF Write, Goto, AfterWrite
    <3> QED BY <3>1, BecomeOthers DEF Storing
  <2> QED BY <2>1
<1>4. UNCHANGED <<pc, task>> => Stays
  BY <1>3 DEF Storing
<1>5. ASSUME NEW d \in Clients, Continue(d) \/ StorageError(d)
      PROVE  Stays
  <2>1. PICK label \in Labels \ {"write"} : \E t : Become(d, label, t)
    BY <1>5 DEF Continue, Write, Reindex, Insert, Persist, Assoc, AssocPersist, Tombstone,
             Mark, ClearCandidates, PutCandidates, PutCursor, Rewind, StorageError, Goto,
             AfterWrite, AfterPersist, AfterMark, AfterCursor, Labels
  <2>2. c # d
    BY <2>1, BecomeOthers DEF Storing
  <2> QED BY <1>1, <1>3, <2>1, <2>2
<1>6. ASSUME NEW d \in Clients, Begin(d), c # d
      PROVE  Stays
  BY <1>1, <1>3, <1>4, <1>6, BeginFrame DEF AddEdge
<1>7. ASSUME BeginInsight(c)
      PROVE  Fresh
  <2>1. PICK b : Become(c, "write", Prepared("insight", nextId, b, {}, {}))
    BY <1>7 DEF BeginInsight
  <2> QED BY <2>1, BecomeOthers DEF Prepared
<1>8. ASSUME Begin(c), ~BeginInsight(c)
      PROVE  Stays
  <2>1. \/ UNCHANGED <<pc, task>>
        \/ \E label, t : t.op # "insight" /\ Become(c, label, t)
    <3>1. BeginRemember(c) \/ BeginRevise(c) =>
            \E label, t : t.op # "insight" /\ Become(c, label, t)
      BY DEF BeginRemember, BeginRevise, Prepared
    <3>2. BeginDelete(c) \/ BeginRecall(c) =>
            \E label, t : t.op # "insight" /\ Become(c, label, t)
      BY DEF BeginDelete, BeginRecall, Prepared
    <3>3. ASSUME NEW op \in Ops \ {"insight"}, NEW S, PrepareForget(c, op, S)
          PROVE  \E label, t : t.op # "insight" /\ Become(c, label, t)
      BY <3>3 DEF PrepareForget, Prepared
    <3>4. BeginForget(c) \/ BeginForgetEntity(c) \/ BeginForgetScan(c) =>
            \E label, t : t.op # "insight" /\ Become(c, label, t)
      BY <3>3 DEF BeginForget, BeginForgetEntity, BeginForgetScan, Ops
    <3>5. BeginAutoForget(c) => \E label, t : t.op # "insight" /\ Become(c, label, t)
      BY <3>3 DEF BeginAutoForget, Ops, Prepared
    <3>6. AddEdge(c) \/ GcTombstones(c) => UNCHANGED <<pc, task>>
      BY DEF AddEdge, GcTombstones
    <3>7. BeginSweep(c) => \/ UNCHANGED <<pc, task>>
                           \/ \E label, t : t.op # "insight" /\ Become(c, label, t)
      BY DEF BeginSweep, Prepared
    <3> QED BY <1>8, <3>1, <3>2, <3>4, <3>5, <3>6, <3>7 DEF Begin
  <2>2. NoTask.op # "insight"
    BY DEF NoTask
  <2> QED BY <1>4, <2>1, <2>2, BecomeOthers DEF Storing
<1> QED BY <1>2, <1>4, <1>5, <1>6, <1>7, <1>8 DEF Next, vars

\* An id stays issued, and the next one is new.
LEMMA IssuedGrows ==
  ASSUME IInv, Grows
  PROVE  Issued \subseteq Issued' /\ nextId \notin Issued
<1>1. nextId \in Nat /\ nextId' \in Nat /\ nextId <= nextId'
  BY DEF Grows, IInv, TypeOK
<1>2. Issued \subseteq Issued'
  BY <1>1, FirstIds DEF Issued
<1>3. nextId \notin Issued
  BY <1>1 DEF Issued
<1> QED BY <1>2, <1>3

\* An old edge stays one.
LEMMA OldEdgeStays ==
  ASSUME IInv, FitTasks, Grows, [Next]_vars, NEW e, OldEdge(e)
  PROVE  OldEdge(e)'
<1>1. Issued \subseteq Issued' /\ nextId \notin Issued
  BY IssuedGrows
<1>2. ASSUME NEW c \in Clients, Storing(c)'
      PROVE  e[1] # task'[c].id
  BY <1>1, <1>2, StoringFrom DEF OldEdge
<1> QED BY <1>1, <1>2 DEF OldEdge

\* What a write adds to outdated.
LEMMA OutdatedGrows ==
  ASSUME IInv, [Next]_vars, NEW x \in outdated', x \notin outdated
  PROVE  \E c \in Clients, e \in Edge :
           /\ Write(c) /\ e[2] = "insight_from"
           /\ \/ e \in fwd /\ x = <<task[c].op, e>> /\ e[3] \in task[c].touched
              \/ e \in task[c].batch.eput /\ x = <<"revise", e>> /\ Revising(e[3])
<1>1. PICK c \in Clients : Write(c)
  <2>1. ASSUME NEW c \in Clients, Continue(c) \/ StorageError(c), ~Write(c)
        PROVE  outdated' = outdated
    BY <2>1 DEF Continue, Reindex, Insert, Persist, Assoc, AssocPersist, Tombstone, Mark,
                ClearCandidates, PutCandidates, PutCursor, Rewind, StorageError, history
  <2> QED BY <2>1, BeginFrame DEF Next, Crash, vars, history
<1>2. \E e \in fwd \cup task[c].batch.eput :
        /\ e[2] = "insight_from"
        /\ \/ e \in fwd /\ x = <<task[c].op, e>> /\ e[3] \in task[c].touched
           \/ e \in task[c].batch.eput /\ x = <<"revise", e>> /\ Revising(e[3])
  BY <1>1 DEF Write
<1>3. fwd \subseteq Edge /\ task[c].batch.eput \subseteq Edge
  <2>1. task[c] \in Task
    BY DEF IInv, TypeOK
  <2> QED BY <2>1 DEF IInv, TypeOK, Task, Batch
<1> QED BY <1>1, <1>2, <1>3

\* Every step keeps the links of insights unique.
LEMMA EdgesOnceOK ==
  ASSUME IInv, FitTasks, Numbering, EdgesOnce, Grows, [Next]_vars,
         "insight_from" \notin UserEdgeTypes
  PROVE  EdgesOnce'
<1>1. nextId \notin Issued
  BY DEF Issued, IInv, TypeOK
<1>2. \A c \in Clients : task[c].op \in Writers => task[c].id \in Issued
  BY DEF FitTasks, Fit, Numbered, Issued
<1>3. ASSUME NEW c \in Clients, Write(c), NEW e \in task[c].batch.eput, e[2] = "insight_from"
      PROVE  OldEdge(e)'
  <2>1. Storing(c) /\ e[1] = task[c].id
    BY <1>3 DEF FitTasks, Fit, LinksOwn, Storing, Write
  <2>2. e[1] \in Issued
    BY <1>2, <2>1 DEF Storing, Writers
  <2>3. Issued \subseteq Issued'
    BY IssuedGrows
  <2>4. ASSUME NEW d \in Clients, Storing(d)'
        PROVE  e[1] # task'[d].id
    BY <1>1, <1>3, <2>1, <2>2, <2>4, StoringFrom DEF EdgesOnce
  <2> QED BY <2>2, <2>3, <2>4 DEF OldEdge
<1>4. ASSUME NEW e \in fwd', e[2] = "insight_from"
      PROVE  OldEdge(e)'
  BY <1>3, <1>4, EdgesGrow, OldEdgeStays DEF EdgesOnce
<1>5. ASSUME NEW x \in outdated'
      PROVE  x[2][2] = "insight_from" /\ OldEdge(x[2])'
  <2>1. CASE x \in outdated \/ (\E d \in Clients, e \in fwd : x = <<task[d].op, e>> /\ e[2] = "insight_from")
    <3>1. x[2][2] = "insight_from" /\ OldEdge(x[2])
      BY <2>1 DEF EdgesOnce
    <3> QED BY <3>1, OldEdgeStays
  <2>2. CASE \E d \in Clients : \E e \in task[d].batch.eput :
               Write(d) /\ x = <<"revise", e>> /\ e[2] = "insight_from"
    BY <1>3, <2>2
  <2> QED BY <2>1, <2>2, OutdatedGrows
<1>6. ASSUME NEW c \in Clients, NEW d \in Clients, Storing(c)', Storing(d)', c # d
      PROVE  task'[c].id # task'[d].id
  <2>1. task'[c].op \in Writers /\ task'[d].op \in Writers
    BY <1>6 DEF Storing, Writers
  <2> QED BY <1>1, <1>2, <1>6, <2>1, StoringFrom DEF EdgesOnce
<1> QED BY <1>4, <1>5, <1>6 DEF EdgesOnce

\* Marks are never taken back.
LEMMA MarksGrow ==
  ASSUME IInv, [Next]_vars
  PROVE  marks \subseteq marks' /\ (faults' = 0 => faults = 0)
<1>1. faults \in Nat
  BY EngineAssumption DEF IInv, TypeOK
<1>2. ASSUME NEW c \in Clients, Continue(c)
      PROVE  marks \subseteq marks' /\ faults' = faults
  BY <1>2 DEF Continue, Write, Reindex, Insert, Persist, Assoc, AssocPersist, Tombstone, Mark,
              ClearCandidates, PutCandidates, PutCursor, Rewind, meta, bounds
<1>3. ASSUME NEW c \in Clients, StorageError(c)
      PROVE  marks' = marks /\ faults' = faults + 1
  BY <1>3 DEF StorageError, meta
<1> QED BY <1>1, <1>2, <1>3, BeginFrame DEF Next, Crash, vars, meta, bounds

\* A mark that is owed stays owed until it is put, unless something fails.
LEMMA OwedStays ==
  ASSUME IInv, FitTasks, [Next]_vars, faults' = 0,
         NEW e \in fwd, e[2] = "insight_from", Owed(e)
  PROVE  Owed(e)' \/ e[1] \in marks'
<1> DEFINE After == {"reindex", "insert", "persist", "tombstone", "mark"}
<1>1. PICK c \in Clients : /\ task[c].op = "revise" /\ pc[c] \in After
                           /\ e[3] \in task[c].touched
  BY DEF Owed
<1>2. ASSUME task'[c].op = "revise", pc'[c] \in After, e[3] \in task'[c].touched
      PROVE  Owed(e)'
  BY <1>2 DEF Owed
<1>3. ASSUME NEW d \in Clients, NEW label, NEW t, Become(d, label, t), c # d
      PROVE  Owed(e)'
  BY <1>1, <1>2, <1>3, BecomeOthers
<1>4. UNCHANGED <<pc, task>> => Owed(e)'
  BY <1>1, <1>2
<1>5. ~Crash /\ \A d \in Clients : ~StorageError(d)
  BY DEF Crash, StorageError, IInv, TypeOK
<1>6. ASSUME NEW d \in Clients, Begin(d)
      PROVE  Owed(e)'
  BY <1>1, <1>3, <1>4, <1>6, BeginFrame DEF AddEdge
<1>7. ASSUME NEW d \in Clients, Continue(d), c # d
      PROVE  Owed(e)'
  <2>1. \E label, t : Become(d, label, t)
    BY <1>7 DEF Continue, Write, Reindex, Insert, Persist, Assoc, AssocPersist, Tombstone,
             Mark, ClearCandidates, PutCandidates, PutCursor, Rewind, Goto
  <2> QED BY <1>3, <1>7, <2>1
<1>8. ASSUME Continue(c)
      PROVE  Owed(e)' \/ e[1] \in marks'
  <2>1. CASE Reindex(c) \/ Insert(c) \/ Persist(c)
    <3>1. PICK label \in After : Become(c, label, task[c])
      BY <1>1, <2>1 DEF Reindex, Insert, Persist, Goto, AfterPersist
    <3> QED BY <1>1, <1>2, <3>1, BecomeOthers
  <2>2. CASE Tombstone(c)
    <3>0. PICK label \in {"tombstone", "mark"} : \E rest : Become(c, label, [task[c] EXCEPT !.todo = rest])
      BY <1>1, <2>2 DEF Tombstone
    <3>1. PICK rest : Become(c, label, [task[c] EXCEPT !.todo = rest])
      BY <3>0
    <3>2. task[c] \in Task
      BY DEF IInv, TypeOK
    <3>3. task'[c] = [task[c] EXCEPT !.todo = rest] /\ pc'[c] = label
      BY <3>1, BecomeOthers
    <3>4. task'[c].op = task[c].op /\ task'[c].touched = task[c].touched
      BY <3>2, <3>3 DEF Task
    <3> QED BY <1>1, <1>2, <3>3, <3>4
  <2>3. CASE Mark(c)
    <3>1. PICK i \in task[c].touched :
            /\ marks' = marks \cup
                 {x[1] : x \in {y \in rev : y[2] = "insight_from" /\ y[3] = i}}
            /\ Become(c, AfterMark(c, task[c].touched \ {i}),
                      [task[c] EXCEPT !.touched = task[c].touched \ {i}])
      BY <2>3 DEF Mark
    <3>2. CASE e[3] = i
      BY <3>1, <3>2 DEF IInv, GraphSymmetric
    <3>3. CASE e[3] # i
      <4> DEFINE u == [task[c] EXCEPT !.touched = task[c].touched \ {i}]
      <4>1. task[c] \in Task
        BY DEF IInv, TypeOK
      <4>2. u.op = task[c].op /\ u.touched = task[c].touched \ {i}
        BY <4>1 DEF Task
      <4>3. AfterMark(c, task[c].touched \ {i}) = "mark"
        BY <1>1, <3>3 DEF AfterMark
      <4> HIDE DEF u
      <4>4. task'[c] = u /\ pc'[c] = "mark"
        BY <3>1, <4>3, BecomeOthers DEF u
      <4> QED BY <1>1, <1>2, <3>3, <4>2, <4>4
    <3> QED BY <3>2, <3>3
  <2> QED
    BY <1>1, <1>8, <2>1, <2>2, <2>3
       DEF Continue, Write, Assoc, AssocPersist, ClearCandidates, PutCandidates, PutCursor,
           Rewind
<1> QED BY <1>4, <1>5, <1>6, <1>7, <1>8 DEF Next, vars

\* Every step keeps the marks owed.
LEMMA MarksOwedOK ==
  ASSUME IInv, FitTasks, EdgesOnce, MarksOwed, [Next]_vars,
         "insight_from" \notin UserEdgeTypes
  PROVE  MarksOwed'
<1> SUFFICES ASSUME faults' = 0, NEW x \in outdated', x[1] = "revise", x[2] \in fwd'
             PROVE  x[2][1] \in marks' \/ Owed(x[2])'
  BY DEF MarksOwed
<1>1. CASE x \in outdated
  <2>1. x[2][2] = "insight_from" /\ OldEdge(x[2])
    BY <1>1 DEF EdgesOnce
  <2>2. ASSUME NEW c \in Clients, Write(c), x[2] \in task[c].batch.eput
        PROVE  FALSE
    <3>1. Storing(c) /\ x[2][1] = task[c].id
      BY <2>1, <2>2 DEF FitTasks, Fit, LinksOwn, Storing, Write
    <3> QED BY <2>1, <3>1 DEF OldEdge
  <2>3. x[2] \in fwd
    BY <2>1, <2>2, EdgesGrow
  <2>4. x[2][1] \in marks \/ Owed(x[2])
    BY <1>1, <2>3, MarksGrow DEF MarksOwed
  <2>5. Owed(x[2]) => Owed(x[2])' \/ x[2][1] \in marks'
    BY <2>1, <2>3, OwedStays
  <2> QED BY <2>4, <2>5, MarksGrow
<1>2. CASE x \notin outdated
  <2>1. PICK c \in Clients, e \in Edge :
          /\ Write(c)
          /\ \/ x = <<task[c].op, e>> /\ e[3] \in task[c].touched
             \/ x = <<"revise", e>> /\ Revising(e[3])
    BY <1>2, OutdatedGrows
  <2>2. x[2] = e /\ Become(c, AfterWrite(task[c].op), task[c]) /\ AfterWrite(task[c].op) \in Labels
    BY <2>1 DEF Write, Goto, AfterWrite, Labels
  <2>3. CASE x = <<task[c].op, e>> /\ e[3] \in task[c].touched
    <3>1. task[c].op = "revise" /\ AfterWrite(task[c].op) = "reindex"
      BY <2>3 DEF AfterWrite
    <3>2. pc'[c] = "reindex" /\ task'[c] = task[c]
      BY <2>2, <3>1, BecomeOthers
    <3> QED BY <2>2, <2>3, <3>1, <3>2 DEF Owed
  <2>4. CASE Revising(e[3])
    <3>1. PICK d \in Clients :
            /\ task[d].op = "revise" /\ e[3] \in task[d].touched
            /\ pc[d] \in {"reindex", "insert", "persist", "tombstone", "mark"}
      BY <2>4 DEF Revising
    <3>2. c # d
      BY <2>1, <3>1 DEF Write
    <3>3. pc'[d] = pc[d] /\ task'[d] = task[d]
      BY <2>2, <3>2, BecomeOthers
    <3> QED BY <2>2, <3>1, <3>3 DEF Owed
  <2> QED BY <2>1, <2>3, <2>4
<1> QED BY <1>1, <1>2

-----------------------------------------------------------------------------
(* The invariant and the theorems                                           *)

HInv == /\ IInv /\ FitTasks /\ Numbering
        /\ LineageOK /\ Out /\ Lossless /\ Marked

\* The engine is opened in a state that satisfies it.
LEMMA HistoryInit == Init => HInv
<1> SUFFICES ASSUME Init PROVE HInv
  OBVIOUS
<1>1. IInv
  BY InitOK
<1>2. FitTasks
  BY NoTaskFit DEF Init, FitTasks
<1>3. Numbering
  BY EngineAssumption DEF Init, Numbering, Indexed, Issued, Ids
<1>4. LineageOK /\ Out
  BY DEF Init, LineageOK, Lineal, Out, SnapshotsNeverIndexed
<1>5. Lossless
  <2>1. \A i \in 1 .. Stored : i \in Ids /\ i \in Nat
    BY EngineAssumption DEF Ids
  <2>2. \A i \in Nat : Earlier(i) # None /\ Earlier(i).text # None
    <3>1. (CHOOSE e \in Entities : TRUE) \in Entities /\ (CHOOSE t \in Texts : TRUE) \in Texts
      BY EngineAssumption
    <3> QED BY <3>1, EngineAssumption DEF Earlier, Record, Kinds
  <2>3. \A i \in 1 .. Stored : Kept(i)
    BY <2>1, <2>2 DEF Init, Kept
  <2>4. \A c \in Clients : ~InFlight(c)
    BY DEF Init, InFlight
  <2> QED BY <2>3, <2>4 DEF Init, Lossless
<1>6. Marked
  BY DEF Init, Marked, EdgesOnce, MarksOwed, Storing, OldEdge
<1> QED BY <1>1, <1>2, <1>3, <1>4, <1>5, <1>6 DEF HInv

\* Every step keeps it.
LEMMA HistoryNext == HInv /\ [Next]_vars => HInv'
<1> SUFFICES ASSUME HInv, [Next]_vars PROVE HInv'
  OBVIOUS
<1>1. IInv /\ FitTasks /\ Numbering /\ LineageOK
  BY DEF HInv
<1>2. IInv'
  BY <1>1, NextOK
<1>3. FitTasks' /\ Grows /\ Numbering'
  BY <1>1, NumberingOK
<1>4. LineageOK'
  BY <1>1, <1>3, LineageStays
<1>5. Out'
  BY <1>1, <1>2, <1>3, OutOK DEF HInv
<1>6. Lossless'
  BY <1>1, <1>2, <1>3, LosslessOK DEF HInv
<1>7. Marked'
  BY <1>1, <1>3, EdgesOnceOK, MarksOwedOK DEF HInv, Marked
<1> QED BY <1>2, <1>3, <1>4, <1>5, <1>6, <1>7 DEF HInv

\* The invariant holds throughout.
LEMMA HistoryAlways == Spec => []HInv
BY HistoryInit, HistoryNext, PTL DEF Spec

\* In a deployment whose callers name no snapshot, no interleaving of any
\* number of threads, no crash and no write-back ever makes a snapshot reachable
\* through the temporal, the main or the associative index.
THEOREM SnapshotsStayOut ==
  ASSUME ~SnapshotTargets
  PROVE  Spec => []SnapshotsNeverIndexed
<1>1. HInv => SnapshotsNeverIndexed
  BY DEF HInv, Out
<1> QED BY <1>1, HistoryAlways, PTL

\* As long as no caller makes an edge of type revised_from itself, a memory
\* whose remember returned is lost only when a delete or a forget named it:
\* the cascades of other threads' forgets and the pruning of revises, prepared
\* before and written after, reach only snapshots.
THEOREM AcknowledgedStay ==
  ASSUME "revised_from" \notin UserEdgeTypes
  PROVE  Spec => []NoAcknowledgedMemoryLost
<1>1. HInv => NoAcknowledgedMemoryLost
  BY DEF HInv, Lossless, NoAcknowledgedMemoryLost, Kept, Reinserted
<1> QED BY <1>1, HistoryAlways, PTL

\* As long as no caller makes an edge of type insight_from itself, an insight
\* that is stored before another thread writes a revise of its source, or between
\* that revise's batch and its last step, is marked stale once both have returned,
\* if nothing failed.
THEOREM RevisionsMarkInsights ==
  ASSUME "insight_from" \notin UserEdgeTypes
  PROVE  Spec => []RevisedSourcesMarked
<1>1. HInv => RevisedSourcesMarked
  BY DEF HInv, Marked, MarksOwed, RevisedSourcesMarked, Owed, Quiet
<1> QED BY <1>1, HistoryAlways, PTL

-----------------------------------------------------------------------------
(* One client: the stores agree.                                            *)

\* One thread calls the engine; callers make no revised_from edges and name no
\* snapshot, time passes between two operations, and no forget goes by the whole
\* column family or by candidates of a sweep, which may be snapshots.
Serial ==
  /\ \E c : Clients = {c}
  /\ ~SnapshotTargets /\ "revised_from" \notin UserEdgeTypes /\ 0 \notin ClockSteps
  /\ \A c \in Clients : Menu[c] \cap {"forget_scan", "auto_forget"} = {}

\* Memories differ in when they were made, a snapshot has its memory's time, and an
\* edge of type revised_from has both.
CreatedOnce ==
  /\ \A i \in Live : mem[i].created <= clock
  /\ \A i, j \in Primaries : mem[i].created = mem[j].created => i = j
Lined ==
  \A e \in fwd : e[2] = "revised_from" =>
    /\ e[1] \in Primaries /\ e[3] \in Live
    /\ mem[e[3]].created = mem[e[1]].created
Agrees(i) == hnsw[i] = IF i \in Primaries THEN mem[i].text ELSE None

\* What a batch puts, when S are the snapshots and it is n o'clock: the record it
\* indexes, a snapshot, or what is there.
PutsFit(b, S, n) ==
  /\ \A i \in Ids : b.put[i] # None =>
       /\ i \in b.vput \/ i \in S \/ b.put[i] = mem[i]
       /\ b.put[i].created <= n
       /\ mem[i] # None => b.put[i].created = mem[i].created
  /\ \A i \in b.vput : b.put[i] # None /\ i \notin S \cup b.del /\ i \in b.aput \cup avec
  /\ b.aput \subseteq b.vput
  /\ \A i \in b.vput : \A j \in Primaries : b.put[i].created = mem[j].created => i = j
\* It lists a memory under the key of its record, and unlists what it was under and
\* what it removes.
KeysFit(b) ==
  /\ b.tput = UNION {{<<k, i>> : k \in KeyOf(b.put[i])} : i \in b.vput}
  /\ \A i \in (b.vput \cup b.del) \cap Primaries : KeyOf(mem[i]) \subseteq b.tdel
  /\ \A j \in Primaries \ (b.vput \cup b.del) : KeyOf(mem[j]) \cap b.tdel = {}
\* It removes the edges of what it removes, and adds one to a snapshot with it.
EdgesFit(b) ==
  /\ \A e \in fwd : e[1] \in b.del \/ e[3] \in b.del => e \in b.fdel
  /\ \A e \in b.eput : e[2] = "revised_from" =>
       /\ e[1] \in b.vput \cap Primaries /\ e[3] \notin b.del
       /\ b.put[e[3]] # None /\ b.put[e[3]].created = b.put[e[1]].created
Coherent(t, S, n) ==
  /\ PutsFit(t.batch, S, n) /\ KeysFit(t.batch) /\ EdgesFit(t.batch)
  /\ t.op \in Writers => t.batch.vput = {t.id} /\ t.batch.del \cap Primaries = {}
  /\ t.op \notin Writers => t.batch.vput = {}
  /\ IF t.op = "sweep" THEN t.batch.del = {} ELSE t.todo = t.batch.del
  /\ t.op = "recall" => t.batch.del = {}

\* Where the client is, and what the in-memory graph has yet to be told.
Writing == {"reindex", "insert", "persist"}
Keeps(label, t) ==
  /\ label = "write" => Coherent(t, snaps, clock)
  /\ label \in Writing => t.batch.put[t.id] # None /\ t.batch.put[t.id].text = mem[t.id].text
  /\ label \in Writing \cup {"assoc", "assoc_persist"} => t.id \in Primaries
  /\ label \in Writing \cup {"tombstone"} => t.todo \cap Primaries = {}
  /\ \A i \in Ids : \/ Agrees(i)
                    \/ label \in {"reindex", "insert"} /\ i = t.id
                    \/ label = "tombstone" /\ i \in t.todo

SInv == /\ DurableAgreement /\ TemporalAgreement /\ CreatedOnce /\ Lined
        /\ \A c \in Clients : Keeps(pc[c], task[c])

\* A key has its record's time.
LEMMA KeyTime ==
  ASSUME NEW m, NEW k \in KeyOf(m)
  PROVE  k = <<m.entity, m.created>> /\ k[2] = m.created
BY DEF KeyOf

\* The temporal index, entry by entry.
LEMMA TemporalEntries ==
  TemporalAgreement <=> \A x : x \in temporal <=> \E i \in Primaries : \E k \in KeyOf(mem[i]) : x = <<k, i>>
BY DEF TemporalAgreement

\* A memory to be inserted is new.
LEMMA NextIsNew ==
  ASSUME IInv, Numbering
  PROVE  /\ nextId \notin snaps /\ nextId \notin Live /\ nextId \notin avec
         /\ Live \subseteq Ids /\ Primaries \subseteq Ids /\ clock \in Nat
<1>1. nextId \notin Issued
  BY DEF Issued, IInv, TypeOK
<1>2. Live \subseteq Indexed /\ avec \subseteq Indexed
  BY DEF Live, Indexed, IInv, TypeOK
<1> QED BY <1>1, <1>2 DEF Numbering, Live, Primaries, IInv, TypeOK

\* The batch of an insert is coherent.
LEMMA InsertCoherent ==
  ASSUME IInv, Numbering, SInv, NEW t, NEW m \in Record, NEW links, nextId \in Ids,
         t.batch = InsertBatch(nextId, m, links), t.id = nextId, t.op \in {"remember", "insight"}, t.todo = {},
         clock < m.created, \A l \in links : l[1] # "revised_from"
  PROVE  Coherent(t, snaps, m.created)
<1> DEFINE b == InsertBatch(nextId, m, links)
<1>1. /\ nextId \notin snaps /\ nextId \notin Live /\ Primaries \subseteq Live /\ Live \subseteq Ids
      /\ clock \in Nat /\ m.created \in Nat /\ m # None
  BY NextIsNew, EngineAssumption DEF Primaries, Record
<1>2. /\ b.put[nextId] = m /\ \A i \in Ids : b.put[i] # None => i = nextId
      /\ b.vput = {nextId} /\ b.aput = {nextId} /\ b.del = {} /\ b.tdel = {} /\ b.fdel = {}
      /\ b.tput = {<<k, nextId>> : k \in KeyOf(m)}
      /\ b.eput = {<<nextId, l[1], l[2]>> : l \in links}
  BY DEF InsertBatch, NoBatch
<1> HIDE DEF b
<1>3. \A j \in Primaries : mem[j].created \in Nat /\ mem[j].created <= clock
  BY <1>1 DEF SInv, CreatedOnce, IInv, TypeOK, Record, Live
<1>4. PutsFit(b, snaps, m.created)
  BY <1>1, <1>2, <1>3 DEF PutsFit, Live
<1>5. KeysFit(b)
  BY <1>1, <1>2 DEF KeysFit
<1>6. EdgesFit(b)
  BY <1>2 DEF EdgesFit
<1> QED BY <1>2, <1>4, <1>5, <1>6 DEF Coherent, Writers, b

\* Snapshots are not primaries, and are what lineage leads to.
LEMMA SnapshotFacts ==
  ASSUME IInv, SInv, LineageOK, "revised_from" \notin UserEdgeTypes, NEW i \in Ids, NEW j \in SnapshotsOf(i)
  PROVE  /\ j \in snaps /\ j \notin Primaries /\ j \in Live
         /\ i \in Primaries /\ mem[j].created = mem[i].created
<1>1. <<i, "revised_from", j>> \in fwd
  BY DEF SnapshotsOf
<1>2. PICK e \in fwd : e = <<i, "revised_from", j>>
  BY <1>1
<1>3. e[1] = i /\ e[2] = "revised_from" /\ e[3] = j
  BY <1>2
<1> QED BY <1>3 DEF LineageOK, Lineal, SInv, Lined, Primaries

\* What touches a removed memory is what a delete removes.
LEMMA TouchingOf ==
  ASSUME IInv, NEW i, NEW e \in fwd, e[1] = i \/ e[3] = i
  PROVE  e \in Touching(i)
BY DEF Touching, IInv, GraphSymmetric

\* The batch of a revise is coherent.
LEMMA ReviseCoherent ==
  ASSUME IInv, Numbering, SInv, LineageOK, "revised_from" \notin UserEdgeTypes, nextId \in Ids,
         NEW t, NEW i \in Primaries, NEW text \in Texts, NEW entity \in Entities \cup {NoEntity}, NEW links,
         NEW n \in Nat, clock <= n,
         t.batch = ReviseBatch(i, nextId, text, entity, links), t.id = i, t.op = "revise", t.todo = Excess(i),
         \A l \in links : l[1] # "revised_from"
  PROVE  Coherent(t, snaps \cup {nextId}, n)
<1> DEFINE b == ReviseBatch(i, nextId, text, entity, links)
           old == mem[i]
           new == [old EXCEPT !.text = text, !.entity = entity, !.kind = "revision"]
<1>1. /\ nextId \notin snaps /\ nextId \notin Live /\ Primaries \subseteq Live /\ Live \subseteq Ids
      /\ clock \in Nat /\ i # nextId /\ i \in Ids /\ i \in Live /\ i \notin snaps
  BY NextIsNew DEF Primaries
<1>2. old \in Record /\ old # None /\ new \in Record /\ new # None /\ new.created = old.created
  <2>1. old \in Record /\ old # None
    BY <1>1 DEF IInv, TypeOK, Live
  <2> HIDE DEF old
  <2>2. new \in Record /\ new.created = old.created
    BY <2>1 DEF Record, Kinds
  <2> QED BY <2>1, <2>2, EngineAssumption
<1>3. \A j \in Excess(i) : j \in snaps /\ j \notin Primaries /\ j \in Live
  <2>1. Excess(i) \subseteq SnapshotsOf(i)
    BY DEF Excess, FirstN
  <2> QED BY <1>1, <2>1, SnapshotFacts
<1>4. /\ b.put = [NoBatch.put EXCEPT ![nextId] = old, ![i] = new]
      /\ b.vput = {i} /\ b.aput = {} /\ b.del = Excess(i) /\ b.tdel = KeyOf(old)
      /\ b.fdel = UNION {Touching(j) : j \in Excess(i)}
      /\ b.tput = {<<k, i>> : k \in KeyOf(new)}
      /\ b.eput = {<<i, "revised_from", nextId>>} \cup {<<i, l[1], l[2]>> : l \in links}
  BY DEF ReviseBatch, UpdateBatch, NoBatch
<1>5. /\ b.put[i] = new /\ b.put[nextId] = old
      /\ \A j \in Ids : b.put[j] # None => j \in {i, nextId}
  BY <1>1, <1>4 DEF NoBatch
<1> HIDE DEF b, new
<1>6. i \in avec
  BY DEF SInv, DurableAgreement
<1>7. old.created <= clock /\ old.created \in Nat
  BY <1>1, <1>2 DEF SInv, CreatedOnce, Record
<1>8. \A j \in Primaries : mem[j].created = old.created => j = i
  BY DEF SInv, CreatedOnce
<1>9. PutsFit(b, snaps \cup {nextId}, n)
  <2>1. ASSUME NEW j \in Ids, b.put[j] # None
        PROVE  /\ j \in b.vput \/ j \in snaps \cup {nextId} \/ b.put[j] = mem[j]
               /\ b.put[j].created <= n
               /\ mem[j] # None => b.put[j].created = mem[j].created
    BY <1>1, <1>2, <1>4, <1>5, <1>7, <2>1 DEF Live
  <2>2. \A j \in b.vput : b.put[j] # None /\ j \notin snaps \cup {nextId} \cup b.del /\ j \in b.aput \cup avec
    BY <1>1, <1>2, <1>3, <1>4, <1>5, <1>6
  <2>3. \A j \in b.vput : \A o \in Primaries : b.put[j].created = mem[o].created => j = o
    BY <1>2, <1>4, <1>5, <1>8
  <2> QED BY <1>4, <2>1, <2>2, <2>3 DEF PutsFit
<1>10. KeysFit(b)
  <2>1. \A j \in (b.vput \cup b.del) \cap Primaries : KeyOf(mem[j]) \subseteq b.tdel
    BY <1>3, <1>4
  <2>2. ASSUME NEW j \in Primaries \ (b.vput \cup b.del) PROVE KeyOf(mem[j]) \cap b.tdel = {}
    BY <1>4, <1>8, <2>2, KeyTime
  <2>3. b.tput = UNION {{<<k, j>> : k \in KeyOf(b.put[j])} : j \in b.vput}
    BY <1>4, <1>5
  <2> QED BY <2>1, <2>2, <2>3 DEF KeysFit
<1>11. EdgesFit(b)
  <2>1. \A e \in fwd : e[1] \in b.del \/ e[3] \in b.del => e \in b.fdel
    BY <1>4, TouchingOf
  <2>2. ASSUME NEW e \in b.eput, e[2] = "revised_from" PROVE e = <<i, "revised_from", nextId>>
    BY <1>4, <2>2
  <2>3. \A e \in b.eput : e[2] = "revised_from" => e[1] = i /\ e[3] = nextId
    BY <2>2
  <2>4. nextId \notin b.del
    BY <1>1, <1>3, <1>4
  <2> QED BY <1>2, <1>4, <1>5, <2>1, <2>3, <2>4 DEF EdgesFit
<1>12. b.del \cap Primaries = {}
  BY <1>3, <1>4
<1> QED BY <1>4, <1>9, <1>10, <1>11, <1>12 DEF Coherent, Writers, b

\* The batch of a delete or a forget is coherent: what it removes beside primaries
\* are snapshots of theirs.
LEMMA DeleteCoherent ==
  ASSUME IInv, Numbering, SInv, NEW t, NEW S, NEW all \in SUBSET Live, NEW T, NEW n,
         S \subseteq Primaries \cap all,
         \A j \in all : \E i \in S : mem[j].created = mem[i].created,
         t.batch = DeleteBatch(all) \/ t.batch = [DeleteBatch(all) EXCEPT !.tombs = T], t.todo = all, t.op \notin Writers \cup {"sweep", "recall"}
  PROVE  Coherent(t, snaps, n)
<1> DEFINE b == t.batch
<1>1. /\ b.put = NoBatch.put /\ b.vput = {} /\ b.aput = {} /\ b.del = all /\ b.eput = {} /\ b.tput = {}
      /\ b.tdel = UNION {KeyOf(mem[i]) : i \in all}
      /\ b.fdel = UNION {Touching(i) : i \in all}
  <2>1. CASE t.batch = DeleteBatch(all)
    BY <2>1 DEF DeleteBatch, NoBatch
  <2>2. CASE t.batch = [DeleteBatch(all) EXCEPT !.tombs = T]
    BY <2>2 DEF DeleteBatch, NoBatch
  <2> QED BY <2>1, <2>2
<1>2. \A i \in Ids : b.put[i] = None
  BY <1>1 DEF NoBatch
<1> HIDE DEF b
<1>3. PutsFit(b, snaps, n)
  BY <1>1, <1>2 DEF PutsFit
<1>4. KeysFit(b)
  <2>1. ASSUME NEW j \in Primaries \ all, NEW k \in KeyOf(mem[j]), k \in b.tdel PROVE FALSE
    <3>1. PICK o \in all : k \in KeyOf(mem[o])
      BY <1>1, <2>1
    <3>2. PICK i \in S : mem[o].created = mem[i].created
      OBVIOUS
    <3>3. mem[j].created = mem[i].created
      BY <2>1, <3>1, <3>2, KeyTime
    <3>4. j = i
      BY <3>3 DEF SInv, CreatedOnce
    <3> QED BY <2>1, <3>4
  <2>2. \A j \in (b.vput \cup b.del) \cap Primaries : KeyOf(mem[j]) \subseteq b.tdel
    BY <1>1
  <2>3. b.tput = UNION {{<<k, i>> : k \in KeyOf(b.put[i])} : i \in b.vput}
    BY <1>1
  <2> QED BY <1>1, <2>1, <2>2, <2>3 DEF KeysFit
<1>5. EdgesFit(b)
  BY <1>1, TouchingOf DEF EdgesFit
<1> QED BY <1>1, <1>3, <1>4, <1>5 DEF Coherent, b

\* A write-back is coherent: it puts what is there.
LEMMA WriteBackCoherent ==
  ASSUME IInv, Numbering, SInv, NEW t, NEW S \in SUBSET Live, NEW n \in Nat, clock <= n,
         t.batch = WriteBackBatch(S), t.op = "sweep" \/ (t.op = "recall" /\ t.todo = {})
  PROVE  Coherent(t, snaps, n)
<1> DEFINE b == WriteBackBatch(S)
<1>1. /\ b.vput = {} /\ b.aput = {} /\ b.del = {} /\ b.eput = {} /\ b.tput = {} /\ b.tdel = {} /\ b.fdel = {}
      /\ \A i \in Ids : b.put[i] # None => i \in S /\ b.put[i] = mem[i]
  BY DEF WriteBackBatch, NoBatch
<1> HIDE DEF b
<1>2. ASSUME NEW i \in S PROVE mem[i].created <= n
  <2>1. mem[i].created \in Nat /\ mem[i].created <= clock /\ clock \in Nat
    BY DEF SInv, CreatedOnce, IInv, TypeOK, Record, Live
  <2> QED BY <2>1
<1>3. PutsFit(b, snaps, n)
  BY <1>1, <1>2 DEF PutsFit
<1>4. KeysFit(b) /\ EdgesFit(b)
  BY <1>1 DEF KeysFit, EdgesFit
<1> QED BY <1>1, <1>3, <1>4 DEF Coherent, Writers, b

\* What the client is about to do is coherent with a state in which only ids were
\* issued, time passed and an edge was added.
LEMMA CoherentLater ==
  ASSUME UNCHANGED <<mem, avec, fwd>>, Primaries' = Primaries, NEW t, Coherent(t, snaps', clock')
  PROVE  Coherent(t, snaps, clock)'
BY DEF Coherent, PutsFit, KeysFit, EdgesFit

\* The first step of an operation prepares a coherent batch, or nothing.
LEMMA BeginCoherent ==
  ASSUME HInv, SInv, Serial, NEW c \in Clients, Begin(c)
  PROVE  \/ UNCHANGED <<pc, task>>
         \/ \E t : Become(c, "write", t) /\ Coherent(t, snaps', clock')
<1>0. IInv /\ Numbering /\ LineageOK /\ "revised_from" \notin UserEdgeTypes
  BY DEF HInv, Serial
<1>1. /\ nextId \notin snaps /\ nextId \notin Live /\ Primaries \subseteq Live /\ Live \subseteq Ids
      /\ clock \in Nat
  BY <1>0, NextIsNew DEF Primaries
<1>2. ASSUME NEW op, Start(c, op)
      PROVE  clock' \in Nat /\ clock < clock' /\ op \in Menu[c]
  BY <1>1, <1>2, EngineAssumption DEF Start, Serial
<1>3. \A links \in Links : \A l \in links : l[1] # "revised_from"
  BY <1>0 DEF Links
<1>4. CASE BeginRemember(c)
  <2>1. PICK e \in Entities \cup {NoEntity}, t \in Texts, links \in Links :
          LET m == [entity |-> e, created |-> clock', kind |-> "episode", text |-> t]
          IN  Become(c, "write", Prepared("remember", nextId, InsertBatch(nextId, m, links), {}, {}))
    BY <1>4 DEF BeginRemember
  <2> DEFINE m == [entity |-> e, created |-> clock', kind |-> "episode", text |-> t]
             u == Prepared("remember", nextId, InsertBatch(nextId, m, links), {}, {})
  <2>2. clock' \in Nat /\ clock < clock' /\ nextId \in Ids /\ snaps' = snaps
    BY <1>2, <1>4 DEF BeginRemember, history
  <2>3. m \in Record /\ m.created = clock'
    BY <2>2 DEF Record, Kinds
  <2>4. Become(c, "write", u)
    BY <2>1
  <2> HIDE DEF m
  <2>5. u.batch = InsertBatch(nextId, m, links) /\ u.id = nextId /\ u.op = "remember" /\ u.todo = {}
    BY DEF Prepared
  <2> HIDE DEF u
  <2>6. Coherent(u, snaps, clock')
    BY <1>0, <1>3, <2>2, <2>3, <2>5, InsertCoherent
  <2> QED BY <2>2, <2>4, <2>6
<1>5. CASE BeginInsight(c)
  <2>1. PICK src \in Sources, e \in Entities \cup {NoEntity}, t \in Texts :
          LET m == [entity |-> e, created |-> clock', kind |-> "insight", text |-> t]
              b == InsertBatch(nextId, m, {<<"insight_from", src>>})
          IN  Become(c, "write", Prepared("insight", nextId, b, {}, {}))
    BY <1>5 DEF BeginInsight
  <2> DEFINE m == [entity |-> e, created |-> clock', kind |-> "insight", text |-> t]
             links == {<<"insight_from", src>>}
             u == Prepared("insight", nextId, InsertBatch(nextId, m, links), {}, {})
  <2>2. clock' \in Nat /\ clock < clock' /\ nextId \in Ids /\ snaps' = snaps
    BY <1>2, <1>5 DEF BeginInsight, history
  <2>3. m \in Record /\ m.created = clock'
    BY <2>2 DEF Record, Kinds
  <2>4. Become(c, "write", u)
    BY <2>1
  <2>5. \A l \in links : l[1] # "revised_from"
    OBVIOUS
  <2> HIDE DEF m, links
  <2>6. u.batch = InsertBatch(nextId, m, links) /\ u.id = nextId /\ u.op = "insight" /\ u.todo = {}
    BY DEF Prepared
  <2> HIDE DEF u
  <2>7. Coherent(u, snaps, clock')
    BY <1>0, <2>2, <2>3, <2>5, <2>6, InsertCoherent
  <2> QED BY <2>2, <2>4, <2>7
<1>6. CASE BeginRevise(c)
  <2>1. PICK i \in Known \cap Live, t \in Texts, e \in Entities \cup {NoEntity}, links \in Links :
          Become(c, "write", Prepared("revise", i, ReviseBatch(i, nextId, t, e, links), Excess(i), {i}))
    BY <1>6 DEF BeginRevise
  <2> DEFINE u == Prepared("revise", i, ReviseBatch(i, nextId, t, e, links), Excess(i), {i})
  <2>2. clock' \in Nat /\ clock < clock' /\ nextId \in Ids /\ snaps' = snaps \cup {nextId}
    BY <1>2, <1>6 DEF BeginRevise
  <2>3. i \in Primaries
    BY DEF Known, Primaries, Serial
  <2>4. u.batch = ReviseBatch(i, nextId, t, e, links) /\ u.id = i /\ u.op = "revise" /\ u.todo = Excess(i)
    BY DEF Prepared
  <2>5. Become(c, "write", u)
    BY <2>1
  <2> HIDE DEF u
  <2>6. clock <= clock'
    BY <1>1, <2>2
  <2>7. Coherent(u, snaps \cup {nextId}, clock')
    BY <1>0, <1>3, <2>2, <2>3, <2>4, <2>6, ReviseCoherent
  <2> QED BY <2>2, <2>5, <2>7
<1>7. CASE BeginDelete(c)
  <2>1. PICK i \in Known \cap Live : Become(c, "write", Prepared("delete", i, DeleteBatch({i}), {i}, {}))
    BY <1>7 DEF BeginDelete
  <2> DEFINE u == Prepared("delete", i, DeleteBatch({i}), {i}, {})
  <2>2. i \in Primaries /\ snaps' = snaps
    BY <1>7 DEF Known, Primaries, Serial, BeginDelete
  <2>3. u.batch = DeleteBatch({i}) /\ u.op = "delete" /\ u.todo = {i}
    BY DEF Prepared
  <2>4. Become(c, "write", u)
    BY <2>1
  <2> HIDE DEF u
  <2>5. {i} \in SUBSET Live
    BY <2>2 DEF Primaries
  <2>6. Coherent(u, snaps, clock')
    BY <1>0, <2>2, <2>3, <2>5, DeleteCoherent DEF Writers
  <2> QED BY <2>2, <2>4, <2>6
<1>8. ASSUME NEW S \in SUBSET Primaries, NEW op \in {"forget", "forget_entity"}, PrepareForget(c, op, S), snaps' = snaps
      PROVE  \E t : Become(c, "write", t) /\ Coherent(t, snaps', clock')
  <2> DEFINE all == S \cup {j \in Live : \E i \in S : j \in SnapshotsOf(i)}
             T == {<<clock', i>> : i \in S}
             b == [DeleteBatch(all) EXCEPT !.tombs = T]
             u == Prepared(op, None, b, all, all)
  <2>1. Become(c, "write", u)
    BY <1>8 DEF PrepareForget
  <2>2. all \in SUBSET Live /\ S \subseteq all
    BY <1>1
  <2>3. \A j \in all : \E i \in S : mem[j].created = mem[i].created
    BY <1>0, <1>1, SnapshotFacts
  <2> HIDE DEF all, T
  <2>4. u.batch = [DeleteBatch(all) EXCEPT !.tombs = T] /\ u.op = op /\ u.todo = all
    BY DEF Prepared
  <2> HIDE DEF u
  <2>5. Coherent(u, snaps, clock')
    BY <1>0, <2>2, <2>3, <2>4, DeleteCoherent DEF Writers
  <2> QED BY <1>8, <2>1, <2>5
<1>9. CASE BeginForget(c)
  <2>1. PICK S \in SUBSET (Known \cap Live) : PrepareForget(c, "forget", S)
    BY <1>9 DEF BeginForget
  <2>2. S \subseteq Primaries
    BY DEF Known, Primaries, Serial
  <2> QED BY <1>8, <1>9, <2>1, <2>2 DEF BeginForget
<1>10. CASE BeginForgetEntity(c)
  <2>1. PICK e \in Entities :
          LET listed == FirstN({x[2] : x \in {y \in temporal : y[1][1] = e}}, 2 * MaxForget)
              hit == {i \in listed \cap Live : mem[i].entity = e}
          IN  PrepareForget(c, "forget_entity", FirstN(hit, MaxForget))
    BY <1>10 DEF BeginForgetEntity
  <2> DEFINE listed == FirstN({x[2] : x \in {y \in temporal : y[1][1] = e}}, 2 * MaxForget)
             hit == {i \in listed \cap Live : mem[i].entity = e}
  <2>2. \A x \in temporal : x[2] \in Primaries
    BY TemporalEntries DEF SInv
  <2>3. listed \subseteq Primaries
    BY <2>2 DEF FirstN
  <2>4. FirstN(hit, MaxForget) \subseteq Primaries
    BY <2>3 DEF FirstN
  <2> QED BY <1>8, <1>10, <2>1, <2>4 DEF BeginForgetEntity
<1>11. ~BeginForgetScan(c) /\ ~BeginAutoForget(c)
  BY <1>2 DEF BeginForgetScan, BeginAutoForget, Serial
<1>12. ASSUME NEW op \in {"recall", "sweep"}, NEW S \in SUBSET Live, NEW todo, NEW low, op = "recall" => todo = {},
              Become(c, "write", Prepared(op, None, WriteBackBatch(S), todo, low)), snaps' = snaps, clock' \in Nat, clock < clock'
       PROVE  \E t : Become(c, "write", t) /\ Coherent(t, snaps', clock')
  <2> DEFINE u == Prepared(op, None, WriteBackBatch(S), todo, low)
  <2>1. u.batch = WriteBackBatch(S) /\ u.op = op /\ u.todo = todo /\ Become(c, "write", u)
    BY <1>12 DEF Prepared
  <2> HIDE DEF u
  <2>2. clock <= clock'
    BY <1>1, <1>12
  <2>3. Coherent(u, snaps, clock')
    BY <1>0, <1>12, <2>1, <2>2, WriteBackCoherent
  <2> QED BY <1>12, <2>1, <2>3
<1>13. CASE BeginRecall(c)
  <2>1. snaps' = snaps /\ clock' \in Nat /\ clock < clock'
    BY <1>2, <1>13 DEF BeginRecall, history
  <2> QED BY <1>12, <1>13, <2>1 DEF BeginRecall
<1>14. CASE BeginSweep(c)
  <2>1. snaps' = snaps /\ clock' \in Nat /\ clock < clock'
    BY <1>2, <1>14 DEF BeginSweep, history
  <2> DEFINE batch == FirstN({i \in Live : i > cursor}, SweepBatch)
  <2>2. batch \subseteq Live
    BY DEF FirstN
  <2>3. UNCHANGED <<pc, task>> \/ \E moved \in SUBSET batch, low \in SUBSET batch :
                 Become(c, "write", Prepared("sweep", None, WriteBackBatch(moved), batch, low))
    BY <1>14 DEF BeginSweep
  <2> HIDE DEF batch
  <2> QED BY <1>12, <2>1, <2>2, <2>3
<1>15. CASE AddEdge(c) \/ GcTombstones(c)
  BY <1>15 DEF AddEdge, GcTombstones
<1> QED BY <1>4, <1>5, <1>6, <1>7, <1>9, <1>10, <1>11, <1>13, <1>14, <1>15 DEF Begin

\* The first steps keep the stores as they agree.
LEMMA SerialBegin ==
  ASSUME HInv, SInv, Serial, NEW c \in Clients, Begin(c)
  PROVE  SInv'
<1>1. IInv /\ Numbering
  BY DEF HInv
<1>2. /\ nextId \notin Live /\ Primaries \subseteq Live /\ Live \subseteq Ids /\ clock \in Nat
  BY <1>1, NextIsNew DEF Primaries
<1>3. UNCHANGED <<mem, temporal, vec, avec, hnsw>> /\ pc[c] = "idle"
  BY <1>1, BeginFrame
<1>4. snaps \subseteq snaps' /\ snaps' \subseteq snaps \cup {nextId}
  BY BeginFit DEF HInv, Grows
<1>5. Live' = Live /\ Primaries' = Primaries
  BY <1>2, <1>3, <1>4 DEF Live, Primaries
<1>6. clock' \in Nat /\ clock <= clock'
  <2>1. \E op : Start(c, op)
    BY DEF Begin, BeginRemember, BeginInsight, AddEdge, BeginRevise, BeginDelete, BeginForget, BeginForgetEntity,
           BeginForgetScan, BeginAutoForget, GcTombstones, BeginRecall, BeginSweep
  <2>2. PICK d \in ClockSteps : clock' = clock + d
    BY <2>1 DEF Start
  <2>3. d \in Nat
    BY EngineAssumption
  <2> QED BY <1>2, <2>2, <2>3
<1>7. DurableAgreement' /\ TemporalAgreement'
  BY <1>3, <1>5 DEF SInv, DurableAgreement, TemporalAgreement
<1>8. CreatedOnce'
  <2>1. \A i \in Live : mem[i].created \in Nat
    BY <1>1 DEF IInv, TypeOK, Live, Record
  <2> QED BY <1>2, <1>3, <1>5, <1>6, <2>1 DEF SInv, CreatedOnce
<1>9. Lined'
  <2>1. ASSUME NEW e \in fwd', e \notin fwd PROVE e[2] # "revised_from"
    BY <1>1, <2>1, BeginFrame DEF AddEdge, Serial
  <2> QED BY <1>3, <1>5, <2>1 DEF SInv, Lined
<1>10. \A i \in Ids : Agrees(i)'
  BY <1>3, <1>5 DEF SInv, Keeps, Agrees
<1>11. ASSUME NEW d \in Clients PROVE Keeps(pc[d], task[d])'
  <2>1. d = c
    BY DEF Serial
  <2>2. CASE UNCHANGED <<pc, task>>
    BY <1>3, <1>10, <2>1, <2>2 DEF Keeps, Writing
  <2>3. ASSUME NEW t, Become(c, "write", t), Coherent(t, snaps', clock') PROVE Keeps(pc[d], task[d])'
    <3>1. pc'[d] = "write" /\ task'[d] = t
      BY <1>1, <2>1, <2>3, BecomeOthers
    <3>2. AddEdge(c) => pc' = pc
      BY DEF AddEdge
    <3>3. fwd' = fwd
      BY <1>1, <1>3, <2>1, <3>1, <3>2, BeginFrame
    <3>4. Coherent(t, snaps, clock)'
      BY <1>3, <1>5, <2>3, <3>3, CoherentLater
    <3> HIDE DEF Coherent
    <3>5. Coherent(task[d], snaps, clock)'
      BY <3>1, <3>4 DEF Coherent, PutsFit, KeysFit, EdgesFit
    <3> QED BY <1>10, <3>1, <3>5 DEF Keeps, Writing
  <2> QED BY <2>2, <2>3, BeginCoherent
<1> QED BY <1>7, <1>8, <1>9, <1>11 DEF SInv

\* What a coherent batch makes of the store.
LEMMA WrittenStore ==
  ASSUME IInv, SInv, NEW t, t \in Task, Coherent(t, snaps, clock), snaps' = snaps, ApplyBatch(t.batch)
  PROVE  /\ Primaries' = (Primaries \cup t.batch.vput) \ t.batch.del
         /\ \A i \in Primaries' : mem'[i] = IF i \in t.batch.vput THEN t.batch.put[i] ELSE mem[i]
         /\ \A i \in Live' : i \in Ids /\ i \notin t.batch.del /\ mem'[i] # None
                             /\ mem'[i] = IF t.batch.put[i] # None THEN t.batch.put[i] ELSE mem[i]
         /\ \A i \in Ids : i \notin t.batch.del /\ (mem[i] # None \/ t.batch.put[i] # None) => i \in Live'
<1> DEFINE b == t.batch
<1>1. b.del \subseteq Ids /\ b.vput \subseteq Ids
  BY DEF Task, Batch
<1>2. PutsFit(b, snaps, clock)
  BY DEF Coherent
<1>3. \A i \in Ids : mem'[i] = IF i \in b.del THEN None ELSE IF b.put[i] # None THEN b.put[i] ELSE mem[i]
  BY DEF ApplyBatch
<1> HIDE DEF b
<1>4. \A i \in Ids : i \in Live' <=> i \notin b.del /\ (b.put[i] # None \/ mem[i] # None)
  BY <1>3 DEF Live
<1>5. Live' \subseteq Ids
  BY DEF Live
<1>6. \A i \in b.vput : b.put[i] # None /\ i \notin snaps \cup b.del
  BY <1>2 DEF PutsFit
<1>7. \A i \in Ids \ snaps : b.put[i] # None => i \in b.vput \/ b.put[i] = mem[i]
  BY <1>2 DEF PutsFit
<1>8. \A i \in Ids \ snaps : i \in Live' <=> (i \in Live \cup b.vput /\ i \notin b.del)
  BY <1>1, <1>4, <1>6, <1>7 DEF Live
<1>9. Primaries' = (Primaries \cup b.vput) \ b.del
  <2>1. Live \subseteq Ids
    BY DEF Live
  <2> QED BY <1>1, <1>5, <1>6, <1>8, <2>1 DEF Primaries
<1>10. \A i \in Primaries' : mem'[i] = IF i \in b.vput THEN b.put[i] ELSE mem[i]
  <2>1. Primaries' \subseteq Live' \ snaps
    BY DEF Primaries
  <2> QED BY <1>3, <1>4, <1>5, <1>6, <1>7, <2>1
<1> QED BY <1>3, <1>4, <1>5, <1>9, <1>10 DEF b

\* After the WriteBatch the column families agree.
LEMMA WrittenAgrees ==
  ASSUME IInv, SInv, NEW t, t \in Task, Coherent(t, snaps, clock), UNCHANGED <<snaps, clock>>, ApplyBatch(t.batch),
         \A i, j \in t.batch.vput : i = j
  PROVE  DurableAgreement' /\ TemporalAgreement' /\ CreatedOnce' /\ Lined'
<1> DEFINE b == t.batch
<1>1. b.del \subseteq Ids /\ b.vput \subseteq Ids /\ b.eput \subseteq Edge
  BY DEF Task, Batch
<1>2. PutsFit(b, snaps, clock) /\ KeysFit(b) /\ EdgesFit(b) /\ Primaries \subseteq Live /\ Live \subseteq Ids
  BY DEF Coherent, Primaries, Live
<1>3. Primaries' = (Primaries \cup b.vput) \ b.del
  BY WrittenStore
<1>4. \A i \in Primaries' : mem'[i] = IF i \in b.vput THEN b.put[i] ELSE mem[i]
  BY WrittenStore
<1>5. \A i \in Live' : i \in Ids /\ i \notin b.del /\ mem'[i] = IF b.put[i] # None THEN b.put[i] ELSE mem[i]
  BY WrittenStore
<1>6. \A i \in Ids : i \notin b.del /\ (mem[i] # None \/ b.put[i] # None) => i \in Live'
  BY WrittenStore
<1>7. /\ vec' = [i \in Ids |-> IF i \in b.del THEN None ELSE IF i \in b.vput THEN b.put[i].text ELSE vec[i]]
      /\ avec' = (avec \cup b.aput) \ b.del
      /\ temporal' = {x \in temporal : x[1] \notin b.tdel /\ \A y \in b.tput : y[1] # x[1]} \cup b.tput
      /\ fwd' = (fwd \cup b.eput) \ b.fdel
  BY DEF ApplyBatch
<1>8. \A i, j \in b.vput : i = j
  OBVIOUS
<1> HIDE DEF b
<1>9. DurableAgreement'
  <2>1. avec = Primaries /\ \A i \in Ids : vec[i] = IF i \in Primaries THEN mem[i].text ELSE None
    BY DEF SInv, DurableAgreement
  <2>2. b.aput \subseteq b.vput /\ b.vput \subseteq b.aput \cup avec
    BY <1>2 DEF PutsFit
  <2>3. avec' = Primaries'
    BY <1>3, <1>7, <2>1, <2>2
  <2>4. \A i \in b.vput : i \notin b.del
    BY <1>2 DEF PutsFit
  <2>5. ASSUME NEW i \in Ids PROVE vec'[i] = IF i \in Primaries' THEN mem'[i].text ELSE None
    BY <1>3, <1>4, <1>7, <2>1, <2>4
  <2> QED BY <2>3, <2>5 DEF DurableAgreement
<1>10. TemporalAgreement'
  <2>1. \A x : x \in temporal <=> \E i \in Primaries : \E k \in KeyOf(mem[i]) : x = <<k, i>>
    BY TemporalEntries DEF SInv
  <2>2. \A x : x \in b.tput <=> \E i \in b.vput : \E k \in KeyOf(b.put[i]) : x = <<k, i>>
    BY <1>2 DEF KeysFit
  <2>3. \A i \in b.vput : i \in Primaries' /\ mem'[i] = b.put[i]
    BY <1>2, <1>3, <1>4 DEF PutsFit
  <2>4. ASSUME NEW x \in temporal' PROVE \E i \in Primaries' : \E k \in KeyOf(mem'[i]) : x = <<k, i>>
    <3>1. CASE x \in b.tput
      BY <2>2, <2>3, <3>1
    <3>2. CASE x \notin b.tput
      <4>0. PICK i \in Primaries : \E k \in KeyOf(mem[i]) : x = <<k, i>>
        BY <1>7, <2>1, <3>2
      <4>1. PICK k \in KeyOf(mem[i]) : x = <<k, i>>
        BY <4>0
      <4>2. k \notin b.tdel
        BY <1>7, <3>2, <4>1
      <4>3. i \notin b.vput \cup b.del
        BY <1>2, <4>1, <4>2 DEF KeysFit
      <4>4. i \in Primaries' /\ mem'[i] = mem[i]
        BY <1>3, <1>4, <4>3
      <4> QED BY <4>1, <4>4
    <3> QED BY <3>1, <3>2
  <2>5. ASSUME NEW i \in Primaries', NEW k \in KeyOf(mem'[i]) PROVE <<k, i>> \in temporal'
    <3>1. CASE i \in b.vput
      BY <1>7, <2>2, <2>3, <3>1
    <3>2. CASE i \notin b.vput
      <4>1. i \in Primaries /\ i \notin b.del /\ mem'[i] = mem[i]
        BY <1>3, <1>4, <3>2
      <4>2. <<k, i>> \in temporal
        BY <2>1, <4>1
      <4>3. k \notin b.tdel
        BY <1>2, <3>2, <4>1 DEF KeysFit
      <4>4. ASSUME NEW y \in b.tput, y[1] = k PROVE FALSE
        <5>0. PICK j \in b.vput : \E l \in KeyOf(b.put[j]) : y = <<l, j>>
          BY <2>2
        <5>1. PICK l \in KeyOf(b.put[j]) : y = <<l, j>>
          BY <5>0
        <5>2. l = k
          BY <4>4, <5>1
        <5>3. b.put[j].created = mem[i].created
          BY <4>1, <5>1, <5>2, KeyTime
        <5> QED BY <1>2, <3>2, <4>1, <5>3 DEF PutsFit
      <4>5. \A y \in b.tput : y[1] # <<k, i>>[1]
        BY <4>4
      <4> QED BY <1>7, <4>2, <4>3, <4>5
    <3> QED BY <3>1, <3>2
  <2>6. \A x : x \in temporal' <=> \E i \in Primaries' : \E k \in KeyOf(mem'[i]) : x = <<k, i>>
    BY <2>4, <2>5
  <2> QED BY <2>6 DEF TemporalAgreement, KeyOf
<1>11. CreatedOnce'
  <2>1. ASSUME NEW i \in Live' PROVE mem'[i].created <= clock
    BY <1>2, <1>5, <2>1 DEF SInv, CreatedOnce, Live, PutsFit
  <2>2. ASSUME NEW i \in Primaries', NEW j \in Primaries', mem'[i].created = mem'[j].created PROVE i = j
    BY <1>2, <1>3, <1>4, <1>8, <2>2 DEF SInv, CreatedOnce, PutsFit
  <2> QED BY <2>1, <2>2 DEF CreatedOnce
<1>12. Lined'
  <2> SUFFICES ASSUME NEW e \in fwd', e[2] = "revised_from"
               PROVE  e[1] \in Primaries' /\ e[3] \in Live' /\ mem'[e[3]].created = mem'[e[1]].created
    BY DEF Lined
  <2>1. CASE e \in fwd
    <3>1. e[1] \in Primaries /\ e[3] \in Live /\ mem[e[3]].created = mem[e[1]].created
      BY <2>1 DEF SInv, Lined
    <3>2. e[1] \notin b.del /\ e[3] \notin b.del
      BY <1>2, <1>7, <2>1 DEF EdgesFit
    <3>3. e[1] \in Primaries' /\ e[3] \in Live'
      BY <1>2, <1>3, <1>6, <3>1, <3>2 DEF Live
    <3>4. mem'[e[3]].created = mem[e[3]].created
      BY <1>2, <1>5, <3>1, <3>3 DEF PutsFit, Live
    <3>5. mem'[e[1]].created = mem[e[1]].created
      BY <1>2, <1>4, <3>1, <3>3 DEF PutsFit, Live
    <3> QED BY <3>1, <3>3, <3>4, <3>5
  <2>2. CASE e \in b.eput
    <3>1. /\ e[1] \in b.vput \cap Primaries /\ e[3] \notin b.del
          /\ b.put[e[3]] # None /\ b.put[e[3]].created = b.put[e[1]].created
      BY <1>2, <2>2 DEF EdgesFit
    <3>2. e[3] \in Ids
      BY <1>1, <2>2 DEF Edge
    <3>3. e[1] \in Primaries' /\ mem'[e[1]] = b.put[e[1]]
      BY <1>2, <1>3, <1>4, <3>1 DEF PutsFit
    <3>4. e[3] \in Live' /\ mem'[e[3]] = b.put[e[3]]
      BY <1>5, <1>6, <3>1, <3>2
    <3> QED BY <3>1, <3>3, <3>4
  <2> QED BY <1>7, <2>1, <2>2
<1> QED BY <1>9, <1>10, <1>11, <1>12

\* A write keeps the stores in agreement, and leaves to the graph what it has yet
\* to be told.
LEMMA SerialWrite ==
  ASSUME HInv, SInv, Serial, NEW c \in Clients, Write(c)
  PROVE  SInv'
<1> DEFINE t == task[c]
           b == t.batch
<1>1. IInv /\ FitTasks
  BY DEF HInv
<1>2. t \in Task /\ Coherent(t, snaps, clock)
  BY <1>1 DEF IInv, TypeOK, SInv, Keeps, Write
<1>3. ApplyBatch(b) /\ UNCHANGED <<snaps, clock, hnsw>> /\ Become(c, AfterWrite(t.op), t)
  BY DEF Write, Goto, memory
<1>4. /\ t.op \in Writers => b.vput = {t.id} /\ b.del \cap Primaries = {}
      /\ t.op \notin Writers => b.vput = {}
      /\ IF t.op = "sweep" THEN b.del = {} ELSE t.todo = b.del
      /\ t.op = "recall" => b.del = {}
  BY <1>2 DEF Coherent
<1>5. \A i, j \in b.vput : i = j
  BY <1>4
<1>6. DurableAgreement' /\ TemporalAgreement' /\ CreatedOnce' /\ Lined'
  BY <1>1, <1>2, <1>3, <1>5, WrittenAgrees
<1>7. /\ Primaries' = (Primaries \cup b.vput) \ b.del
      /\ \A i \in Primaries' : mem'[i] = IF i \in b.vput THEN b.put[i] ELSE mem[i]
  BY <1>1, <1>2, <1>3, WrittenStore
<1>8. \A i \in b.vput : b.put[i] # None /\ i \notin b.del
  BY <1>2 DEF Coherent, PutsFit
<1>9. \A i \in Ids : Agrees(i)
  BY DEF SInv, Keeps, Write
<1>10. \A i \in Ids : i \in b.vput \cup (b.del \cap Primaries) \/ Agrees(i)'
  BY <1>3, <1>7, <1>9 DEF Agrees
<1>11. t.op \in Ops
  BY <1>1 DEF IInv, Tasks, Phase, Write, TypeOK, Task
<1> DEFINE label == AfterWrite(t.op)
<1>12. /\ label \in {"reindex", "insert"} <=> t.op \in Writers
       /\ t.op \notin Writers => label \in {"idle", "candidates", "tombstone"}
       /\ label = "idle" <=> t.op = "recall"
       /\ label = "candidates" <=> t.op = "sweep"
       /\ label # "write"
  BY <1>11 DEF AfterWrite, Writers, Ops
<1>13. pc'[c] = label /\ task'[c] = IF label = "idle" THEN NoTask ELSE t
  BY <1>1, <1>3, BecomeOthers
<1> HIDE DEF label, b
<1>14. Keeps(pc[c], task[c])'
  <2>1. CASE t.op \in Writers
    <3>1. t.id \in Primaries' /\ mem'[t.id] = b.put[t.id] /\ b.put[t.id] # None
      BY <1>4, <1>7, <1>8, <2>1
    <3>2. \A i \in Ids : i = t.id \/ Agrees(i)'
      BY <1>4, <1>10, <2>1
    <3>3. t.todo \cap Primaries' = {}
      BY <1>4, <1>7, <1>8, <2>1 DEF Writers
    <3>4. task'[c] = t /\ pc'[c] \in {"reindex", "insert"}
      BY <1>12, <1>13, <2>1
    <3> QED BY <3>1, <3>2, <3>3, <3>4 DEF Keeps, Writing, b
  <2>2. CASE t.op \in {"recall", "sweep"}
    <3>1. \A i \in Ids : Agrees(i)'
      BY <1>4, <1>10, <2>2 DEF Writers
    <3>2. pc'[c] \in {"idle", "candidates"}
      BY <1>12, <1>13, <2>2
    <3> QED BY <3>1, <3>2 DEF Keeps, Writing
  <2>3. CASE t.op \notin Writers \cup {"recall", "sweep"}
    <3>1. pc'[c] = "tombstone" /\ task'[c] = t
      BY <1>12, <1>13, <2>3
    <3>2. \A i \in Ids : i \in t.todo \/ Agrees(i)'
      BY <1>4, <1>10, <2>3
    <3>3. t.todo \cap Primaries' = {}
      BY <1>4, <1>7, <2>3
    <3> QED BY <3>1, <3>2, <3>3 DEF Keeps, Writing
  <2> QED BY <2>1, <2>2, <2>3
<1>15. \A d \in Clients : d = c
  BY DEF Serial
<1> QED BY <1>6, <1>14, <1>15 DEF SInv

\* A step that leaves the column families and what a history remembers alone keeps
\* what they agree on.
LEMMA StoreStays ==
  ASSUME SInv, UNCHANGED <<mem, temporal, vec, avec, fwd, clock, snaps>>
  PROVE  /\ DurableAgreement' /\ TemporalAgreement' /\ CreatedOnce' /\ Lined'
         /\ Live' = Live /\ Primaries' = Primaries /\ \A i \in Ids : hnsw'[i] = hnsw[i] => (Agrees(i) => Agrees(i)')
<1>1. Live' = Live /\ Primaries' = Primaries
  BY DEF Live, Primaries
<1> QED BY <1>1 DEF SInv, DurableAgreement, TemporalAgreement, CreatedOnce, Lined, Agrees

\* Each further step of an operation keeps the stores in agreement.
LEMMA SerialGraph ==
  ASSUME HInv, SInv, Serial, NEW c \in Clients,
         Reindex(c) \/ Insert(c) \/ Persist(c) \/ Assoc(c) \/ AssocPersist(c) \/ Tombstone(c)
  PROVE  SInv'
<1> DEFINE t == task[c]
<1>1. IInv /\ FitTasks
  BY DEF HInv
<1>2. Keeps(pc[c], t) /\ t \in Task /\ Primaries \subseteq Ids
  BY <1>1 DEF SInv, IInv, TypeOK, Primaries, Live
<1>3. \A d \in Clients : d = c
  BY DEF Serial
<1>4. \A d \in Clients : Agrees(d) => Agrees(d)
  OBVIOUS
<1>5. hnsw \in [Ids -> Texts \cup {None}] /\ vec \in [Ids -> Texts \cup {None}]
  BY <1>1 DEF IInv, TypeOK
<1>6. CASE Reindex(c)
  <2>1. /\ pc[c] = "reindex" /\ hnsw' = [hnsw EXCEPT ![t.id] = None] /\ Become(c, "insert", t)
        /\ UNCHANGED <<mem, temporal, vec, avec, fwd, clock, snaps>>
    BY <1>6 DEF Reindex, Goto, store, history
  <2>2. pc'[c] = "insert" /\ task'[c] = t
    BY <1>1, <2>1, BecomeOthers
  <2>3. \A i \in Ids : i = t.id \/ Agrees(i)'
    BY <1>2, <1>5, <2>1, StoreStays DEF Keeps
  <2>4. Keeps(pc[c], task[c])'
    BY <1>2, <2>1, <2>2, <2>3, StoreStays DEF Keeps, Writing
  <2> QED BY <1>3, <2>1, <2>4, StoreStays DEF SInv
<1>7. CASE Insert(c)
  <2>1. /\ pc[c] = "insert" /\ hnsw' = [hnsw EXCEPT ![t.id] = t.batch.put[t.id].text] /\ Become(c, "persist", t)
        /\ UNCHANGED <<mem, temporal, vec, avec, fwd, clock, snaps>>
    BY <1>7 DEF Insert, Goto, store, history, Text
  <2>2. pc'[c] = "persist" /\ task'[c] = t
    BY <1>1, <2>1, BecomeOthers
  <2>3. t.id \in Primaries /\ t.batch.put[t.id].text = mem[t.id].text
    BY <1>2, <2>1 DEF Keeps, Writing
  <2>4. ASSUME NEW i \in Ids PROVE Agrees(i)'
    <3>1. CASE i = t.id
      BY <1>2, <1>5, <2>1, <2>3, <3>1, StoreStays DEF Agrees
    <3>2. CASE i # t.id
      BY <1>2, <1>5, <2>1, <3>2, StoreStays DEF Keeps
    <3> QED BY <3>1, <3>2
  <2>5. Keeps(pc[c], task[c])'
    BY <1>2, <2>1, <2>2, <2>4, StoreStays DEF Keeps, Writing
  <2> QED BY <1>3, <2>1, <2>5, StoreStays DEF SInv
<1>8. CASE Persist(c)
  <2>1. /\ pc[c] = "persist" /\ vec' = [vec EXCEPT ![t.id] = t.batch.put[t.id].text] /\ Become(c, AfterPersist(t), t)
        /\ UNCHANGED <<mem, temporal, avec, fwd, clock, snaps, hnsw>>
    BY <1>8 DEF Persist, Goto, history, Text, memory
  <2>2. t.id \in Primaries /\ t.batch.put[t.id].text = mem[t.id].text /\ t.todo \cap Primaries = {}
    BY <1>2, <2>1 DEF Keeps, Writing
  <2>3. vec[t.id] = mem[t.id].text
    BY <1>2, <2>2 DEF SInv, DurableAgreement
  <2>4. vec' = vec
    BY <1>5, <2>1, <2>2, <2>3
  <2>5. AfterPersist(t) \in {"assoc", "idle", "mark", "tombstone"}
    BY DEF AfterPersist
  <2>6. pc'[c] = AfterPersist(t) /\ (pc'[c] # "idle" => task'[c] = t)
    BY <1>1, <2>1, BecomeOthers
  <2>7. \A i \in Ids : Agrees(i)'
    BY <1>2, <2>1, <2>4, StoreStays DEF Keeps
  <2>8. Keeps(pc[c], task[c])'
    BY <2>1, <2>2, <2>4, <2>5, <2>6, <2>7, StoreStays DEF Keeps, Writing
  <2> QED BY <1>3, <2>1, <2>4, <2>8, StoreStays DEF SInv
<1>9. CASE Assoc(c)
  <2>1. /\ pc[c] = "assoc" /\ Become(c, "assoc_persist", t)
        /\ UNCHANGED <<mem, temporal, vec, avec, fwd, clock, snaps, hnsw>>
    BY <1>9 DEF Assoc, Goto, store, history
  <2>2. pc'[c] = "assoc_persist" /\ task'[c] = t
    BY <1>1, <2>1, BecomeOthers
  <2>3. Keeps(pc[c], task[c])'
    BY <1>2, <2>1, <2>2, StoreStays DEF Keeps, Writing
  <2> QED BY <1>3, <2>1, <2>3, StoreStays DEF SInv
<1>10. CASE AssocPersist(c)
  <2>1. /\ pc[c] = "assoc_persist" /\ avec' = avec \cup {t.id} /\ Become(c, "idle", t)
        /\ UNCHANGED <<mem, temporal, vec, fwd, clock, snaps, hnsw>>
    BY <1>10 DEF AssocPersist, Goto, memory
  <2>2. avec' = avec
    BY <1>2, <2>1 DEF Keeps, SInv, DurableAgreement
  <2>3. pc'[c] = "idle"
    BY <1>1, <2>1, BecomeOthers
  <2>4. Keeps(pc[c], task[c])'
    BY <1>2, <2>1, <2>2, <2>3, StoreStays DEF Keeps, Writing
  <2> QED BY <1>3, <2>1, <2>2, <2>4, StoreStays DEF SInv
<1>11. CASE Tombstone(c)
  <2>1. PICK i \in t.todo :
          /\ hnsw' = [hnsw EXCEPT ![i] = None]
          /\ Become(c, IF t.todo \ {i} # {} THEN "tombstone" ELSE IF t.op = "delete" THEN "idle" ELSE "mark",
                    [t EXCEPT !.todo = t.todo \ {i}])
    BY <1>11 DEF Tombstone
  <2>2. pc[c] = "tombstone" /\ UNCHANGED <<mem, temporal, vec, avec, fwd, clock, snaps>>
    BY <1>11 DEF Tombstone, store, history
  <2> DEFINE rest == t.todo \ {i}
             label == IF rest # {} THEN "tombstone" ELSE IF t.op = "delete" THEN "idle" ELSE "mark"
             u == [t EXCEPT !.todo = rest]
  <2>3. u.todo = rest
    BY <1>2 DEF Task
  <2>4. i \notin Primaries /\ t.todo \cap Primaries = {}
    BY <1>2, <2>1, <2>2 DEF Keeps
  <2>5. ASSUME NEW j \in Ids PROVE Agrees(j)' \/ j \in rest
    <3>1. CASE j = i
      BY <1>5, <2>1, <2>2, <2>4, <3>1, StoreStays DEF Agrees
    <3>2. CASE j # i
      BY <1>2, <1>5, <2>1, <2>2, <3>2, StoreStays DEF Keeps
    <3> QED BY <3>1, <3>2
  <2>6. pc'[c] = label /\ (label # "idle" => task'[c] = u)
    BY <1>1, <2>1, BecomeOthers
  <2>7. Keeps(pc[c], task[c])'
    <3>1. CASE rest # {}
      <4>1. pc'[c] = "tombstone" /\ task'[c] = u
        BY <2>6, <3>1
      <4> HIDE DEF u
      <4> QED BY <2>2, <2>3, <2>4, <2>5, <4>1, StoreStays DEF Keeps, Writing
    <3>2. CASE rest = {}
      <4>1. pc'[c] \in {"idle", "mark"}
        BY <2>6, <3>2
      <4> QED BY <2>5, <3>2, <4>1 DEF Keeps, Writing
    <3> QED BY <3>1, <3>2
  <2> QED BY <1>3, <2>2, <2>7, StoreStays DEF SInv
<1> QED BY <1>6, <1>7, <1>8, <1>9, <1>10, <1>11

\* What follows changes nothing the stores agree on, be it done or failed.
LEMMA SerialRest ==
  ASSUME HInv, SInv, Serial, NEW c \in Clients,
         Mark(c) \/ ClearCandidates(c) \/ PutCandidates(c) \/ PutCursor(c) \/ Rewind(c) \/ StorageError(c)
  PROVE  SInv'
<1>1. IInv /\ UNCHANGED <<mem, temporal, vec, avec, fwd, clock, snaps, hnsw>>
  BY DEF HInv, Mark, ClearCandidates, PutCandidates, PutCursor, Rewind, StorageError, store, memory, history
<1>2. pc[c] \notin {"reindex", "insert", "tombstone"}
  BY DEF Mark, ClearCandidates, PutCandidates, PutCursor, Rewind, StorageError
<1>3. \E label \in {"idle", "mark", "clear", "candidates", "cursor", "rewind"} : \E t : Become(c, label, t)
  BY DEF Mark, ClearCandidates, PutCandidates, PutCursor, Rewind, StorageError, Goto, AfterMark, AfterCursor
<1>4. pc'[c] \in {"idle", "mark", "clear", "candidates", "cursor", "rewind"}
  BY <1>1, <1>3, BecomeOthers
<1>5. \A i \in Ids : Agrees(i)'
  BY <1>1, <1>2, StoreStays DEF SInv, Keeps
<1>6. \A d \in Clients : d = c
  BY DEF Serial
<1>7. Keeps(pc[c], task[c])'
  BY <1>4, <1>5 DEF Keeps, Writing
<1> QED BY <1>1, <1>6, <1>7, StoreStays DEF SInv

\* A crash rebuilds the graph from what agrees.
LEMMA SerialCrash ==
  ASSUME HInv, SInv, Crash
  PROVE  SInv'
<1>1. UNCHANGED <<mem, temporal, vec, avec, fwd, clock, snaps>> /\ hnsw' = vec /\ pc' = [c \in Clients |-> "idle"]
  BY DEF Crash, store, history
<1>2. \A i \in Ids : Agrees(i)'
  BY <1>1, StoreStays DEF SInv, DurableAgreement, Agrees
<1>3. \A c \in Clients : Keeps(pc[c], task[c])'
  BY <1>1, <1>2 DEF Keeps, Writing
<1> QED BY <1>1, <1>3, StoreStays DEF SInv

\* The engine is opened with its stores in agreement.
LEMMA SerialInit == Init => SInv
<1> SUFFICES ASSUME Init PROVE SInv
  OBVIOUS
<1>1. (CHOOSE e \in Entities : TRUE) \in Entities /\ (CHOOSE t \in Texts : TRUE) \in Texts
  BY EngineAssumption
<1>2. \A i \in Ids : /\ Earlier(i) # None /\ Earlier(i).text # None /\ Earlier(i).created = i
                     /\ KeyOf(Earlier(i)) = {<<Earlier(i).entity, i>>}
  <2>1. \A i \in Nat : Earlier(i) \in Record
    BY <1>1 DEF Earlier, Record, Kinds
  <2>2. \A i \in Ids : i \in Nat
    BY EngineAssumption DEF Ids
  <2> QED BY <1>1, <2>1, <2>2, EngineAssumption DEF Earlier, KeyOf
<1>3. 1 .. Stored \subseteq Ids /\ \A i \in Ids : i \in 1 .. Stored <=> i <= Stored
  BY EngineAssumption DEF Ids
<1>4. Primaries = 1 .. Stored /\ Live = 1 .. Stored /\ \A i \in Primaries : mem[i] = Earlier(i)
  BY <1>2, <1>3 DEF Init, Primaries, Live
<1>5. DurableAgreement /\ \A i \in Ids : Agrees(i)
  BY <1>2, <1>3, <1>4 DEF Init, DurableAgreement, Agrees
<1>6. TemporalAgreement
  <2>1. temporal = {<<<<Earlier(i).entity, i>>, i>> : i \in 1 .. Stored}
    BY DEF Init
  <2>2. \A x : x \in temporal <=> \E i \in Primaries : \E k \in KeyOf(mem[i]) : x = <<k, i>>
    BY <1>2, <1>3, <1>4, <2>1
  <2> QED BY <2>2, TemporalEntries
<1>7. CreatedOnce /\ Lined
  <2>1. clock = Stored + 1 /\ fwd = {} /\ Stored \in Nat
    BY EngineAssumption DEF Init
  <2> QED BY <1>2, <1>3, <1>4, <2>1 DEF CreatedOnce, Lined
<1>8. \A c \in Clients : Keeps(pc[c], task[c])
  BY <1>5 DEF Init, Keeps, Writing
<1> QED BY <1>5, <1>6, <1>7, <1>8 DEF SInv

\* Every step of one client keeps them so.
LEMMA SerialNext ==
  ASSUME HInv, SInv, Serial, [Next]_vars
  PROVE  SInv'
<1>1. CASE UNCHANGED vars
  <2>1. UNCHANGED <<mem, temporal, vec, avec, fwd, clock, snaps, hnsw, pc, task>>
    BY <1>1 DEF vars, store, memory, history
  <2>2. Live' = Live /\ Primaries' = Primaries
    BY <2>1 DEF Live, Primaries
  <2> QED BY <2>1, <2>2 DEF SInv, DurableAgreement, TemporalAgreement, CreatedOnce, Lined, Keeps, Agrees,
                            Coherent, PutsFit, KeysFit, EdgesFit
<1>2. ASSUME NEW c \in Clients, Begin(c) PROVE SInv'
  BY <1>2, SerialBegin
<1>3. ASSUME NEW c \in Clients, Continue(c) \/ StorageError(c) PROVE SInv'
  BY <1>3, SerialWrite, SerialGraph, SerialRest DEF Continue
<1> QED BY <1>1, <1>2, <1>3, SerialCrash DEF Next

\* For one thread whose clock moves, whose callers make no revised_from edges and
\* name no snapshot, and whose forgets do not reach snapshots by themselves, every
\* store says the same of every memory: through every crash and failed write, and
\* for any number of memories.
THEOREM OneClientAgrees ==
  ASSUME Serial
  PROVE  Spec => []StoresAgree
<1>1. SInv => StoresAgree
  <2>1. ASSUME SInv, Quiet PROVE \A i \in Ids : Agrees(i)
    BY <2>1 DEF SInv, Keeps, Quiet, Serial
  <2> QED BY <2>1 DEF SInv, StoresAgree, SearchAgreement, Agrees
<1>2. SInv /\ HInv /\ [Next]_vars => SInv'
  BY SerialNext
<1> QED BY <1>1, <1>2, SerialInit, HistoryInit, HistoryNext, PTL DEF Spec

-----------------------------------------------------------------------------
(* The members of a set of ids in order.                                   *)

\* How many members of S are below j, and the members of S from the lowest up.
Rank(S, j) == Cardinality({k \in S : k < j})
Order(S) == [n \in 1 .. Cardinality(S) |-> CHOOSE j \in S : Rank(S, j) = n - 1]

\* A member's rank tells it from the others.
LEMMA RankGrows ==
  ASSUME NEW S \in SUBSET Nat, IsFiniteSet(S)
  PROVE  /\ \A j \in S : Rank(S, j) \in Nat /\ Rank(S, j) < Cardinality(S)
         /\ \A j, k \in S : j < k => Rank(S, j) < Rank(S, k)
         /\ \A j, k \in S : Rank(S, j) = Rank(S, k) => j = k
<1>1. Cardinality(S) \in Nat
  BY FS_CardinalityType
<1>2. ASSUME NEW j \in S PROVE Rank(S, j) \in Nat /\ Rank(S, j) < Cardinality(S) /\ IsFiniteSet({k \in S : k < j})
  <2> DEFINE T == {k \in S : k < j}
  <2>1. T \in SUBSET S /\ j \notin T
    OBVIOUS
  <2> HIDE DEF T
  <2>2. IsFiniteSet(T) /\ Cardinality(T) <= Cardinality(S) /\ Cardinality(T) # Cardinality(S)
    BY <2>1, FS_Subset
  <2>3. Cardinality(T) \in Nat
    BY <2>2, FS_CardinalityType
  <2>4. Cardinality(T) < Cardinality(S)
    BY <1>1, <2>2, <2>3
  <2> QED BY <2>2, <2>3, <2>4 DEF Rank, T
<1>3. ASSUME NEW j \in S, NEW k \in S, j < k PROVE Rank(S, j) < Rank(S, k)
  <2> DEFINE T == {i \in S : i < j}
             U == {i \in S : i < k}
  <2>0. j \in Nat /\ k \in Nat /\ \A i \in S : i \in Nat
    OBVIOUS
  <2>a. \A i \in S : i < j => i < k
    BY <1>3, <2>0
  <2>b. ~(j < j)
    BY <2>0
  <2>1. T \in SUBSET U /\ j \notin T /\ j \in U
    BY <1>3, <2>a, <2>b
  <2>2. IsFiniteSet(U)
    BY <1>2
  <2>3. Rank(S, j) = Cardinality(T) /\ Rank(S, k) = Cardinality(U)
    BY DEF Rank
  <2> HIDE DEF T, U
  <2>4. Cardinality(T) <= Cardinality(U) /\ Cardinality(T) # Cardinality(U)
    BY <2>1, <2>2, FS_Subset
  <2>5. Cardinality(T) \in Nat /\ Cardinality(U) \in Nat
    BY <1>2, <2>3
  <2> QED BY <2>3, <2>4, <2>5
<1>4. ASSUME NEW j \in S, NEW k \in S, Rank(S, j) = Rank(S, k) PROVE j = k
  <2>1. j \in Nat /\ k \in Nat /\ Rank(S, j) \in Nat /\ Rank(S, k) \in Nat
    BY <1>2
  <2>2. (j < k => Rank(S, j) < Rank(S, k)) /\ (k < j => Rank(S, k) < Rank(S, j))
    BY <1>3
  <2> QED BY <1>4, <2>1, <2>2
<1> QED BY <1>2, <1>3, <1>4

\* The order of a set lists each member at its rank.
LEMMA OrderRank ==
  ASSUME NEW S \in SUBSET Nat, IsFiniteSet(S)
  PROVE  /\ Cardinality(S) \in Nat
         /\ \A n \in 1 .. Cardinality(S) : Order(S)[n] \in S /\ Rank(S, Order(S)[n]) = n - 1
         /\ \A n \in 1 .. Cardinality(S) : \A j \in S : Rank(S, j) = n - 1 => Order(S)[n] = j
<1>1. Cardinality(S) \in Nat
  BY FS_CardinalityType
<1> DEFINE T == 0 .. Cardinality(S) - 1
           f == [j \in S |-> Rank(S, j)]
<1>2. IsFiniteSet(T) /\ Cardinality(T) = Cardinality(S)
  <2>1. CASE Cardinality(S) = 0
    BY <2>1, FS_Interval
  <2>2. CASE Cardinality(S) # 0
    BY <1>1, <2>2, FS_Interval
  <2> QED BY <2>1, <2>2
<1> HIDE DEF T
<1>3. f \in [S -> T]
  <2> SUFFICES ASSUME NEW j \in S PROVE Rank(S, j) \in 0 .. Cardinality(S) - 1
    BY DEF T
  <2>1. Rank(S, j) \in Nat /\ Rank(S, j) < Cardinality(S)
    BY RankGrows
  <2> QED BY <1>1, <2>1
<1>4. f \in Injection(S, T)
  BY <1>3, RankGrows DEF Injection, IsInjective
<1> HIDE DEF f
<1>5. f \in Surjection(S, T)
  BY <1>2, <1>4, FS_Injection
<1>6. ASSUME NEW n \in 1 .. Cardinality(S) PROVE \E j \in S : Rank(S, j) = n - 1
  <2>1. n - 1 \in T
    BY <1>1 DEF T
  <2> QED BY <1>5, <2>1 DEF Surjection, f
<1>7. ASSUME NEW n \in 1 .. Cardinality(S) PROVE Order(S)[n] \in S /\ Rank(S, Order(S)[n]) = n - 1
  <2>1. Order(S)[n] = CHOOSE j \in S : Rank(S, j) = n - 1
    BY DEF Order
  <2> QED BY <1>6, <2>1
<1>8. ASSUME NEW n \in 1 .. Cardinality(S), NEW j \in S, Rank(S, j) = n - 1 PROVE Order(S)[n] = j
  <2>1. PICK k : k = Order(S)[n]
    OBVIOUS
  <2>2. k \in S /\ Rank(S, k) = Rank(S, j)
    BY <1>7, <1>8, <2>1
  <2>3. k = j
    BY <2>2, RankGrows
  <2> QED BY <2>1, <2>3
<1> QED BY <1>1, <1>7, <1>8

\* A member above all others comes last.
LEMMA OrderAppend ==
  ASSUME NEW S \in SUBSET Nat, IsFiniteSet(S), NEW s \in Nat, \A j \in S : j < s
  PROVE  /\ IsFiniteSet(S \cup {s}) /\ Cardinality(S \cup {s}) = Cardinality(S) + 1
         /\ \A n \in 1 .. Cardinality(S) : Order(S \cup {s})[n] = Order(S)[n]
         /\ Order(S \cup {s})[Cardinality(S) + 1] = s
<1> DEFINE U == S \cup {s}
<1>1. s \notin S /\ U \in SUBSET Nat
  OBVIOUS
<1>2. IsFiniteSet(U) /\ Cardinality(U) = Cardinality(S) + 1 /\ Cardinality(S) \in Nat
  BY <1>1, FS_AddElement, FS_CardinalityType
<1>3. \A j \in S : {k \in U : k < j} = {k \in S : k < j}
  OBVIOUS
<1>4. {k \in U : k < s} = S
  <2>1. ~(s < s)
    OBVIOUS
  <2> QED BY <2>1
<1>5. (\A j \in S : Rank(U, j) = Rank(S, j)) /\ Rank(U, s) = Cardinality(S)
  BY <1>3, <1>4 DEF Rank
<1>6. S \subseteq U /\ s \in U
  OBVIOUS
<1> HIDE DEF U
<1>7. ASSUME NEW n \in 1 .. Cardinality(S) PROVE Order(U)[n] = Order(S)[n]
  <2>0. Order(S)[n] \in S /\ Rank(S, Order(S)[n]) = n - 1
    BY OrderRank
  <2>1. PICK j \in S : j = Order(S)[n] /\ Rank(S, j) = n - 1
    BY <2>0
  <2>2. j \in U /\ Rank(U, j) = n - 1
    BY <1>5, <1>6, <2>1
  <2>3. n \in 1 .. Cardinality(U)
    BY <1>2
  <2> QED BY <1>1, <1>2, <2>1, <2>2, <2>3, OrderRank
<1>8. Order(U)[Cardinality(S) + 1] = s
  <2>1. Cardinality(S) + 1 \in 1 .. Cardinality(U) /\ Rank(U, s) = (Cardinality(S) + 1) - 1
    BY <1>2, <1>5
  <2> QED BY <1>1, <1>2, <1>6, <2>1, OrderRank
<1> QED BY <1>2, <1>7, <1>8 DEF U

\* Without its first n members a set lists the others n places earlier.
LEMMA OrderDrop ==
  ASSUME NEW S \in SUBSET Nat, IsFiniteSet(S), NEW n \in 0 .. Cardinality(S)
  PROVE  LET T == S \ FirstN(S, n)
         IN  /\ IsFiniteSet(T) /\ Cardinality(T) = Cardinality(S) - n
             /\ \A m \in 1 .. Cardinality(S) - n : Order(T)[m] = Order(S)[m + n]
<1> DEFINE F == FirstN(S, n)
           T == S \ F
<1>1. F = {j \in S : Rank(S, j) < n}
  BY DEF FirstN, Rank
<1>2. Cardinality(S) \in Nat /\ n \in Nat /\ n <= Cardinality(S)
  BY FS_CardinalityType
<1> HIDE DEF F
<1>3. F \in SUBSET S /\ IsFiniteSet(F) /\ T \in SUBSET Nat
  BY <1>1, FS_Subset
<1>4. Cardinality(F) = n
  <2> DEFINE f == [j \in F |-> Rank(S, j)]
             N == 0 .. n - 1
  <2>1. IsFiniteSet(N) /\ Cardinality(N) = n
    <3>1. CASE n = 0
      BY <3>1, FS_Interval
    <3>2. CASE n # 0
      <4>1. 0 \in Int /\ n - 1 \in Int /\ ~(0 > n - 1) /\ (n - 1) - 0 + 1 = n
        BY <1>2, <3>2
      <4> QED BY <4>1, FS_Interval
    <3> QED BY <3>1, <3>2
  <2>2. ASSUME NEW j \in F PROVE Rank(S, j) \in 0 .. n - 1
    <3>1. j \in S /\ Rank(S, j) < n
      BY <1>1
    <3>2. Rank(S, j) \in Nat
      BY <3>1, RankGrows
    <3> QED BY <1>2, <3>1, <3>2
  <2>3. f \in Injection(F, N)
    BY <1>1, <2>2, RankGrows DEF Injection, IsInjective
  <2>4. ASSUME NEW m \in N PROVE \E j \in F : f[j] = m
    <3>1. m + 1 \in 1 .. Cardinality(S) /\ m < n /\ (m + 1) - 1 = m
      BY <1>2
    <3>2. Order(S)[m + 1] \in S /\ Rank(S, Order(S)[m + 1]) = m
      BY <3>1, OrderRank
    <3>3. Order(S)[m + 1] \in F
      BY <1>1, <3>1, <3>2
    <3> QED BY <3>2, <3>3
  <2> HIDE DEF N, f
  <2>5. f \in Surjection(F, N)
    BY <2>3, <2>4 DEF Surjection, Injection
  <2>6. Cardinality(F) = Cardinality(N)
    BY <2>1, <2>3, <2>5, FS_Injection
  <2> QED BY <2>1, <2>6
<1>5. IsFiniteSet(T) /\ Cardinality(T) = Cardinality(S) - n
  <2>1. S \cap F = F
    BY <1>3
  <2>2. IsFiniteSet(S \ F) /\ Cardinality(S \ F) = Cardinality(S) - Cardinality(S \cap F)
    BY FS_Difference
  <2> QED BY <1>4, <2>1, <2>2
<1>6. ASSUME NEW j \in T PROVE Rank(T, j) = Rank(S, j) - n
  <2> DEFINE B == {k \in S : k < j}
  <2>1. j \in S /\ j \in Nat /\ ~(Rank(S, j) < n)
    BY <1>1
  <2>2. \A k \in F : k < j
    <3> SUFFICES ASSUME NEW k \in F PROVE k < j
      OBVIOUS
    <3>1. k \in S /\ k \in Nat /\ Rank(S, k) < n /\ Rank(S, k) \in Int /\ Rank(S, j) \in Int
      BY <1>1, <1>2, <2>1, RankGrows
    <3>2. k # j /\ ~(j < k)
      BY <2>1, <3>1, <1>2, RankGrows
    <3> QED BY <2>1, <3>1, <3>2
  <2>3. {k \in T : k < j} = B \ F /\ B \cap F = F /\ B \in SUBSET S
    BY <1>3, <2>2
  <2> HIDE DEF B
  <2>4. IsFiniteSet(B)
    BY <2>3, FS_Subset
  <2>5. Cardinality(B \ F) = Cardinality(B) - n
    BY <1>4, <2>3, <2>4, FS_Difference
  <2> QED BY <2>3, <2>5 DEF Rank, B
<1>7. T \subseteq S /\ \A j \in S : j \in T <=> ~(Rank(S, j) < n)
  BY <1>1
<1> HIDE DEF T
<1>8. ASSUME NEW m \in 1 .. Cardinality(S) - n PROVE Order(T)[m] = Order(S)[m + n]
  <2>1. m + n \in 1 .. Cardinality(S) /\ m \in Nat /\ m >= 1 /\ m \in 1 .. Cardinality(T)
    BY <1>2, <1>5
  <2>0. \A i \in 1 .. Cardinality(S) : Order(S)[i] \in S /\ Rank(S, Order(S)[i]) = i - 1
    BY OrderRank
  <2>2. PICK j \in S : j = Order(S)[m + n] /\ Rank(S, j) = (m + n) - 1
    BY <2>0, <2>1
  <2>3. j \in T /\ Rank(T, j) = m - 1
    BY <1>2, <1>6, <1>7, <2>1, <2>2
  <2>4. Order(T)[m] = j
    BY <1>3, <1>5, <2>1, <2>3, OrderRank
  <2> QED BY <2>2, <2>4
<1> QED BY <1>5, <1>8 DEF T, F

-----------------------------------------------------------------------------
(* One client: each batch does one thing to the book.                      *)

\* The ids a batch puts, and the snapshots edges lead to from i.
Put(b) == {i \in Ids : b.put[i] # None}
Past(i) == {j \in Ids : <<i, "revised_from", j>> \in fwd}
\* The edges of E lead to ids below n, and to the snapshots S only by revised_from.
Pure(E, S, n) == \A e \in E : e[3] < n /\ (e[3] \in S => e[2] = "revised_from")

\* What a batch will do to the book when S are the snapshots and D the ids a delete or
\* forget named: add a memory, revise one, remove some, or nothing.
Stores(b, i, S, D) ==
  /\ i \in Ids /\ i \notin Live \cup S \cup D
  /\ Put(b) = {i} /\ b.del = {} /\ b.fdel = {} /\ \A e \in b.eput : e[2] # "revised_from"
Revises(b, i, s, S, D) ==
  /\ i \in Primaries /\ s \in S /\ s \notin Live \cup D /\ \A j \in Live : j < s
  /\ Put(b) = {i, s} /\ b.put[s] = mem[i]
  /\ b.del = Excess(i) /\ b.fdel = UNION {Touching(j) : j \in Excess(i)}
  /\ <<i, "revised_from", s>> \in b.eput
  /\ \A e \in b.eput : e[2] = "revised_from" => e[1] = i /\ e[3] = s
Removes(b, K, D) ==
  /\ K # {} /\ K \subseteq Primaries \cap D /\ Put(b) = {} /\ b.eput = {}
  /\ K \subseteq b.del /\ b.del \subseteq K \cup UNION {SnapshotsOf(i) : i \in K}
  /\ b.fdel = UNION {Touching(j) : j \in b.del}
Restores(b) ==
  /\ \A i \in Put(b) : b.put[i] = mem[i]
  /\ b.del = {} /\ b.eput = {} /\ b.fdel = {}
Ready(t, S, D, n) ==
  /\ Pure(t.batch.eput, S, n)
  /\ \/ Stores(t.batch, t.id, S, D)
     \/ \E s \in Ids : Revises(t.batch, t.id, s, S, D)
     \/ \E K \in SUBSET Ids : Removes(t.batch, K, D)
     \/ Restores(t.batch)

\* Between its first step and its WriteBatch an operation has a batch that does one thing
\* to the book; edges lead to ids issued, and nothing that is a snapshot was forgotten.
RInv ==
  /\ Pure(fwd, snaps, nextId) /\ doomed \cap snaps = {}
  /\ \A c \in Clients : pc[c] = "write" => Ready(task[c], snaps, doomed, nextId)


\* What is known of the ids there are.
LEMMA IdFacts ==
  ASSUME HInv, Serial
  PROVE  /\ nextId \in Nat /\ nextId \notin snaps \cup Live \cup doomed
         /\ Live \subseteq Ids /\ Primaries \subseteq Live /\ \A i \in Live : i \in Nat /\ i < nextId
         /\ \A i \in Known : i \in Nat /\ i < nextId /\ i \notin snaps
         /\ Known \cap Live \subseteq Primaries
<1>1. nextId \in Nat /\ Issued \subseteq Nat /\ \A i \in Issued : i < nextId
  BY DEF HInv, IInv, TypeOK, Issued
<1>2. Live \subseteq Indexed /\ Live \subseteq Ids
  BY DEF Live, Indexed, HInv, IInv, TypeOK
<1>3. snaps \cup acked \cup doomed \cup Indexed \subseteq Issued
  BY DEF HInv, Numbering
<1>4. \A i \in Known : i \in acked \cup Live /\ i \notin snaps
  BY DEF Known, Serial
<1>5. nextId \notin Issued
  BY <1>1
<1> QED BY <1>1, <1>2, <1>3, <1>4, <1>5 DEF Primaries

\* A batch that inserts is ready.
LEMMA InsertReady ==
  ASSUME HInv, Serial, NEW t, NEW m \in Record, NEW links, nextId \in Ids,
         t.batch = InsertBatch(nextId, m, links), t.id = nextId,
         \A l \in links : l[1] # "revised_from" /\ l[2] \notin snaps /\ l[2] < nextId /\ l[2] \in Nat
  PROVE  Ready(t, snaps, doomed, nextId + 1)
<1> DEFINE b == InsertBatch(nextId, m, links)
<1>1. /\ nextId \in Nat /\ nextId \notin snaps \cup Live \cup doomed
  BY IdFacts
<1>2. /\ b.put = [NoBatch.put EXCEPT ![nextId] = m] /\ b.del = {} /\ b.fdel = {}
      /\ b.eput = {<<nextId, l[1], l[2]>> : l \in links}
  BY DEF InsertBatch, NoBatch
<1> HIDE DEF b
<1>3. Put(b) = {nextId}
  BY <1>2, EngineAssumption DEF Put, NoBatch
<1>4. ASSUME NEW e \in b.eput PROVE e[2] # "revised_from" /\ e[3] < nextId + 1 /\ e[3] \notin snaps
  <2>1. PICK l \in links : e = <<nextId, l[1], l[2]>>
    BY <1>2
  <2> QED BY <1>1, <2>1
<1>5. Stores(b, nextId, snaps, doomed)
  BY <1>1, <1>2, <1>3, <1>4 DEF Stores
<1>6. Pure(b.eput, snaps, nextId + 1)
  BY <1>4 DEF Pure
<1> QED BY <1>5, <1>6 DEF Ready, b

\* A batch that revises is ready.
LEMMA ReviseReady ==
  ASSUME HInv, Serial, NEW t, NEW i \in Primaries, NEW text, NEW entity, NEW links, nextId \in Ids,
         t.batch = ReviseBatch(i, nextId, text, entity, links), t.id = i,
         text \in Texts, entity \in Entities \cup {NoEntity},
         \A l \in links : l[1] # "revised_from" /\ l[2] \notin snaps /\ l[2] < nextId /\ l[2] \in Nat
  PROVE  Ready(t, snaps \cup {nextId}, doomed, nextId + 1)
<1> DEFINE b == ReviseBatch(i, nextId, text, entity, links)
           old == mem[i]
           new == [old EXCEPT !.text = text, !.entity = entity, !.kind = "revision"]
<1>1. /\ nextId \in Nat /\ nextId \notin snaps \cup Live \cup doomed
      /\ i \in Live /\ i \in Ids /\ i # nextId /\ \A j \in Live : j < nextId
  BY IdFacts
<1>2. old \in Record /\ old # None /\ new # None
  <2>1. old \in Record /\ old # None
    BY <1>1 DEF HInv, IInv, TypeOK, Live
  <2> HIDE DEF old
  <2>2. new \in Record
    BY <2>1 DEF Record, Kinds
  <2> QED BY <2>1, <2>2, EngineAssumption
<1>3. /\ b.put = [NoBatch.put EXCEPT ![nextId] = old, ![i] = new]
      /\ b.del = Excess(i)
      /\ b.fdel = UNION {Touching(j) : j \in Excess(i)}
      /\ b.eput = {<<i, "revised_from", nextId>>} \cup {<<i, l[1], l[2]>> : l \in links}
  BY DEF ReviseBatch, UpdateBatch, NoBatch
<1> HIDE DEF b, new
<1>4. b.put[nextId] = old /\ Put(b) = {i, nextId}
  <2>1. /\ b.put[i] = new /\ b.put[nextId] = old
        /\ \A j \in Ids : b.put[j] # None => j \in {i, nextId}
    BY <1>1, <1>3 DEF NoBatch
  <2> QED BY <1>1, <1>2, <2>1 DEF Put
<1>5. ASSUME NEW e \in b.eput
      PROVE  /\ e[3] < nextId + 1
             /\ e[2] = "revised_from" => e[1] = i /\ e[3] = nextId
             /\ e[3] \in snaps \cup {nextId} => e[2] = "revised_from"
  <2>1. CASE e = <<i, "revised_from", nextId>>
    BY <1>1, <2>1
  <2>2. CASE \E l \in links : e = <<i, l[1], l[2]>>
    <3>1. PICK l \in links : e = <<i, l[1], l[2]>>
      BY <2>2
    <3> QED BY <1>1, <3>1
  <2> QED BY <1>3, <2>1, <2>2
<1>6. <<i, "revised_from", nextId>> \in b.eput
  BY <1>3
<1>7. Revises(b, i, nextId, snaps \cup {nextId}, doomed)
  BY <1>1, <1>3, <1>4, <1>5, <1>6 DEF Revises
<1>8. Pure(b.eput, snaps \cup {nextId}, nextId + 1)
  BY <1>5 DEF Pure
<1> QED BY <1>7, <1>8 DEF Ready, b

\* A batch that removes primaries, with snapshots of theirs or not, is ready.
LEMMA DeleteReady ==
  ASSUME HInv, Serial, NEW t, NEW K \in SUBSET Primaries, K # {}, NEW all, NEW T,
         K \subseteq all, all \subseteq K \cup UNION {SnapshotsOf(i) : i \in K},
         t.batch = DeleteBatch(all) \/ t.batch = [DeleteBatch(all) EXCEPT !.tombs = T]
  PROVE  Ready(t, snaps, doomed \cup K, nextId)
<1> DEFINE b == t.batch
<1>1. b.put = NoBatch.put /\ b.del = all /\ b.eput = {} /\ b.fdel = UNION {Touching(i) : i \in all}
  BY DEF DeleteBatch, NoBatch
<1> HIDE DEF b
<1>2. Put(b) = {}
  BY <1>1 DEF Put, NoBatch
<1>3. K \in SUBSET Ids
  BY IdFacts
<1>4. Removes(b, K, doomed \cup K)
  BY <1>1, <1>2 DEF Removes
<1>5. Pure(b.eput, snaps, nextId)
  BY <1>1 DEF Pure
<1> QED BY <1>3, <1>4, <1>5 DEF Ready, b

\* A write-back is ready.
LEMMA WriteBackReady ==
  ASSUME NEW t, NEW S, t.batch = WriteBackBatch(S)
  PROVE  Ready(t, snaps, doomed, nextId)
<1> DEFINE b == WriteBackBatch(S)
<1>1. /\ b.del = {} /\ b.eput = {} /\ b.fdel = {} /\ \A i \in Ids : b.put[i] # None => b.put[i] = mem[i]
  BY DEF WriteBackBatch, NoBatch
<1> HIDE DEF b
<1>2. Restores(b)
  BY <1>1 DEF Restores, Put
<1>3. Pure(b.eput, snaps, nextId)
  BY <1>1 DEF Pure
<1> QED BY <1>2, <1>3 DEF Ready, b

\* The first step of an operation prepares a ready batch, or nothing.
LEMMA BeginReady ==
  ASSUME HInv, SInv, Serial, ~SnapshotSources, NEW c \in Clients, Begin(c)
  PROVE  /\ \/ UNCHANGED <<pc, task>>
            \/ \E t : Become(c, "write", t) /\ Ready(t, snaps', doomed', nextId')
         /\ doomed' \subseteq doomed \cup Primaries
<1>0. /\ nextId \in Nat /\ Known \cap Live \subseteq Primaries
      /\ \A links \in Links : \A l \in links : l[1] # "revised_from" /\ l[2] \notin snaps /\ l[2] < nextId /\ l[2] \in Nat
  BY IdFacts, LinkTypes DEF Links, Serial
<1>1. ASSUME NEW op, Start(c, op)
      PROVE  clock' \in Nat /\ op \in Menu[c]
  BY <1>1, EngineAssumption DEF Start, Serial, HInv, IInv, TypeOK
<1>2. CASE BeginRemember(c)
  <2>1. PICK e \in Entities \cup {NoEntity}, t \in Texts, links \in Links :
          LET m == [entity |-> e, created |-> clock', kind |-> "episode", text |-> t]
          IN  Become(c, "write", Prepared("remember", nextId, InsertBatch(nextId, m, links), {}, {}))
    BY <1>2 DEF BeginRemember
  <2> DEFINE m == [entity |-> e, created |-> clock', kind |-> "episode", text |-> t]
             u == Prepared("remember", nextId, InsertBatch(nextId, m, links), {}, {})
  <2>2. clock' \in Nat /\ nextId \in Ids /\ UNCHANGED <<snaps, doomed>> /\ nextId' = nextId + 1
    BY <1>1, <1>2 DEF BeginRemember, history
  <2>3. m \in Record
    BY <2>2 DEF Record, Kinds
  <2>4. Become(c, "write", u)
    BY <2>1
  <2> HIDE DEF m
  <2>5. u.batch = InsertBatch(nextId, m, links) /\ u.id = nextId
    BY DEF Prepared
  <2> HIDE DEF u
  <2>6. Ready(u, snaps, doomed, nextId + 1)
    BY <1>0, <2>2, <2>3, <2>5, InsertReady
  <2> QED BY <2>2, <2>4, <2>6
<1>3. CASE BeginInsight(c)
  <2>1. PICK src \in Sources, e \in Entities \cup {NoEntity}, t \in Texts :
          LET m == [entity |-> e, created |-> clock', kind |-> "insight", text |-> t]
              b == InsertBatch(nextId, m, {<<"insight_from", src>>})
          IN  Become(c, "write", Prepared("insight", nextId, b, {}, {}))
    BY <1>3 DEF BeginInsight
  <2> DEFINE m == [entity |-> e, created |-> clock', kind |-> "insight", text |-> t]
             links == {<<"insight_from", src>>}
             u == Prepared("insight", nextId, InsertBatch(nextId, m, links), {}, {})
  <2>2. clock' \in Nat /\ nextId \in Ids /\ UNCHANGED <<snaps, doomed>> /\ nextId' = nextId + 1
    BY <1>1, <1>3 DEF BeginInsight, history
  <2>3. m \in Record
    BY <2>2 DEF Record, Kinds
  <2>4. Become(c, "write", u)
    BY <2>1
  <2>5. \A l \in links : l[1] # "revised_from" /\ l[2] \notin snaps /\ l[2] < nextId /\ l[2] \in Nat
    BY IdFacts DEF Sources
  <2> HIDE DEF m, links
  <2>6. u.batch = InsertBatch(nextId, m, links) /\ u.id = nextId
    BY DEF Prepared
  <2> HIDE DEF u
  <2>7. Ready(u, snaps, doomed, nextId + 1)
    BY <2>2, <2>3, <2>5, <2>6, InsertReady
  <2> QED BY <2>2, <2>4, <2>7
<1>4. CASE BeginRevise(c)
  <2>1. PICK i \in Known \cap Live, t \in Texts, e \in Entities \cup {NoEntity}, links \in Links :
          Become(c, "write", Prepared("revise", i, ReviseBatch(i, nextId, t, e, links), Excess(i), {i}))
    BY <1>4 DEF BeginRevise
  <2> DEFINE u == Prepared("revise", i, ReviseBatch(i, nextId, t, e, links), Excess(i), {i})
  <2>2. nextId \in Ids /\ snaps' = snaps \cup {nextId} /\ doomed' = doomed /\ nextId' = nextId + 1
    BY <1>4 DEF BeginRevise
  <2>3. u.batch = ReviseBatch(i, nextId, t, e, links) /\ u.id = i
    BY DEF Prepared
  <2>4. Become(c, "write", u)
    BY <2>1
  <2> HIDE DEF u
  <2>5. i \in Primaries
    BY <1>0
  <2>6. Ready(u, snaps \cup {nextId}, doomed, nextId + 1)
    BY <1>0, <2>2, <2>3, <2>5, ReviseReady
  <2> QED BY <2>2, <2>4, <2>6
<1>5. CASE BeginDelete(c)
  <2>1. PICK i \in Known \cap Live : /\ Become(c, "write", Prepared("delete", i, DeleteBatch({i}), {i}, {}))
                                     /\ doomed' = doomed \cup {i}
    BY <1>5 DEF BeginDelete
  <2> DEFINE u == Prepared("delete", i, DeleteBatch({i}), {i}, {})
  <2>2. UNCHANGED <<snaps, nextId>> /\ {i} \in SUBSET Primaries
    BY <1>0, <1>5 DEF BeginDelete
  <2>3. u.batch = DeleteBatch({i}) /\ Become(c, "write", u)
    BY <2>1 DEF Prepared
  <2> HIDE DEF u
  <2>4. Ready(u, snaps, doomed \cup {i}, nextId)
    BY <2>2, <2>3, DeleteReady
  <2> QED BY <2>1, <2>2, <2>3, <2>4
<1>6. ASSUME NEW K \in SUBSET Primaries, K # {}, NEW op, PrepareForget(c, op, K), UNCHANGED <<snaps, nextId>>
      PROVE  /\ \E t : Become(c, "write", t) /\ Ready(t, snaps', doomed', nextId')
             /\ doomed' \subseteq doomed \cup Primaries
  <2> DEFINE all == K \cup {j \in Live : \E i \in K : j \in SnapshotsOf(i)}
             T == {<<clock', i>> : i \in K}
             u == Prepared(op, None, [DeleteBatch(all) EXCEPT !.tombs = T], all, all)
  <2>1. Become(c, "write", u) /\ doomed' = doomed \cup K
    BY <1>6 DEF PrepareForget
  <2>2. K \subseteq all /\ all \subseteq K \cup UNION {SnapshotsOf(i) : i \in K}
    OBVIOUS
  <2> HIDE DEF all, T
  <2>3. u.batch = [DeleteBatch(all) EXCEPT !.tombs = T]
    BY DEF Prepared
  <2> HIDE DEF u
  <2>4. Ready(u, snaps, doomed \cup K, nextId)
    BY <1>6, <2>2, <2>3, DeleteReady
  <2> QED BY <1>6, <2>1, <2>4
<1>7. CASE BeginForget(c)
  <2>1. PICK S \in SUBSET (Known \cap Live) : S # {} /\ PrepareForget(c, "forget", S)
    BY <1>7 DEF BeginForget
  <2> QED BY <1>0, <1>6, <1>7, <2>1 DEF BeginForget
<1>8. CASE BeginForgetEntity(c)
  <2>1. PICK e \in Entities :
          LET listed == FirstN({x[2] : x \in {y \in temporal : y[1][1] = e}}, 2 * MaxForget)
              hit == {i \in listed \cap Live : mem[i].entity = e}
          IN  hit # {} /\ PrepareForget(c, "forget_entity", FirstN(hit, MaxForget))
    BY <1>8 DEF BeginForgetEntity
  <2> DEFINE listed == FirstN({x[2] : x \in {y \in temporal : y[1][1] = e}}, 2 * MaxForget)
             hit == {i \in listed \cap Live : mem[i].entity = e}
  <2>2. \A x \in temporal : x[2] \in Primaries
    BY TemporalEntries DEF SInv
  <2>3. listed \subseteq Primaries
    BY <2>2 DEF FirstN
  <2>4. hit \subseteq Primaries /\ hit # {} /\ PrepareForget(c, "forget_entity", FirstN(hit, MaxForget))
    BY <2>1, <2>3
  <2> HIDE DEF hit
  <2>5. FirstN(hit, MaxForget) \subseteq Primaries /\ FirstN(hit, MaxForget) # {}
    <3>1. Primaries \subseteq Ids /\ Ids \subseteq Nat
      BY IdFacts, EngineAssumption DEF Ids
    <3>2. hit \in SUBSET Nat /\ IsFiniteSet(hit)
      <4>1. IsFiniteSet(Ids)
        BY FS_Interval, EngineAssumption DEF Ids
      <4> QED BY <2>4, <3>1, <4>1, FS_Subset
    <3>3. Cardinality(hit) \in Nat /\ Cardinality(hit) # 0
      BY <2>4, <3>2, FS_EmptySet, FS_CardinalityType
    <3>4. 1 \in 1 .. Cardinality(hit) /\ 1 - 1 = 0
      BY <3>3
    <3>5. Order(hit)[1] \in hit /\ Rank(hit, Order(hit)[1]) = 0
      BY <3>2, <3>4, OrderRank
    <3>6. 0 < MaxForget
      BY EngineAssumption
    <3>7. Order(hit)[1] \in FirstN(hit, MaxForget)
      BY <3>5, <3>6 DEF FirstN, Rank
    <3> QED BY <2>4, <3>7 DEF FirstN
  <2> QED BY <1>6, <1>8, <2>4, <2>5 DEF BeginForgetEntity
<1>9. ~BeginForgetScan(c) /\ ~BeginAutoForget(c)
  BY <1>1 DEF BeginForgetScan, BeginAutoForget, Serial
<1>10. ASSUME NEW op, NEW S, NEW todo, NEW low, Become(c, "write", Prepared(op, None, WriteBackBatch(S), todo, low)),
              UNCHANGED <<snaps, doomed, nextId>>
       PROVE  \E t : Become(c, "write", t) /\ Ready(t, snaps', doomed', nextId')
  <2> DEFINE u == Prepared(op, None, WriteBackBatch(S), todo, low)
  <2>1. u.batch = WriteBackBatch(S) /\ Become(c, "write", u)
    BY <1>10 DEF Prepared
  <2> HIDE DEF u
  <2> QED BY <1>10, <2>1, WriteBackReady
<1>11. CASE BeginRecall(c)
  BY <1>10, <1>11 DEF BeginRecall, history
<1>12. CASE BeginSweep(c)
  BY <1>10, <1>12 DEF BeginSweep, history
<1>13. CASE AddEdge(c) \/ GcTombstones(c)
  BY <1>13 DEF AddEdge, GcTombstones, history
<1> QED BY <1>2, <1>3, <1>4, <1>5, <1>7, <1>8, <1>9, <1>11, <1>12, <1>13 DEF Begin

\* A prepared batch stays ready as ids are issued and calls begin.
LEMMA ReadyLater ==
  ASSUME UNCHANGED <<mem, fwd, rev>>, Primaries' = Primaries, NEW t, Ready(t, snaps', doomed', nextId')
  PROVE  Ready(t, snaps, doomed, nextId)'
<1>1. Live' = Live
  BY DEF Live
<1>2. \A i : SnapshotsOf(i)' = SnapshotsOf(i) /\ Touching(i)' = Touching(i)
  BY DEF SnapshotsOf, Touching
<1>3. \A i : Excess(i)' = Excess(i)
  BY <1>2 DEF Excess, FirstN
<1> DEFINE b == t.batch
<1>4. (Pure(b.eput, snaps, nextId))'
  BY DEF Ready, Pure
<1>5. CASE Stores(b, t.id, snaps', doomed')
  BY <1>1, <1>4, <1>5 DEF Ready, Stores, Put
<1>6. ASSUME NEW s \in Ids, Revises(b, t.id, s, snaps', doomed') PROVE Ready(t, snaps, doomed, nextId)'
  <2>1. Revises(b, t.id, s, snaps, doomed)'
    BY <1>1, <1>2, <1>3, <1>6 DEF Revises, Put
  <2> QED BY <1>4, <2>1 DEF Ready
<1>7. ASSUME NEW K \in SUBSET Ids, Removes(b, K, doomed') PROVE Ready(t, snaps, doomed, nextId)'
  <2>1. Removes(b, K, doomed)'
    BY <1>2, <1>7 DEF Removes, Put
  <2> QED BY <1>4, <2>1 DEF Ready
<1>8. CASE Restores(b)
  BY <1>4, <1>8 DEF Ready, Restores, Put
<1> QED BY <1>5, <1>6, <1>7, <1>8 DEF Ready

\* Where only one client calls, a step past the WriteBatch leaves nothing prepared.
LEMMA ReadyStays ==
  ASSUME HInv, SInv, Serial, RInv, NEW c \in Clients, UNCHANGED <<nextId, snaps, doomed>>,
         pc'[c] # "write", Pure(fwd', snaps, nextId)
  PROVE  RInv'
<1>1. \A d \in Clients : pc'[d] # "write"
  BY DEF Serial
<1> QED BY <1>1 DEF RInv, Pure

\* The first step of an operation keeps what is prepared ready.
LEMMA BeginBooked ==
  ASSUME HInv, SInv, Serial, ~SnapshotSources, RInv, NEW c \in Clients, Begin(c)
  PROVE  RInv'
<1>1. IInv /\ FitTasks /\ Numbering /\ LineageOK /\ nextId \in Nat
  BY DEF HInv, IInv, TypeOK
<1>2. /\ UNCHANGED mem /\ pc[c] = "idle" /\ Grows
      /\ AddEdge(c) \/ (UNCHANGED <<fwd, rev>>)
  BY <1>1, BeginFrame, BeginFit
<1>3. /\ \/ UNCHANGED <<pc, task>>
         \/ \E t : Become(c, "write", t) /\ Ready(t, snaps', doomed', nextId')
      /\ doomed' \subseteq doomed \cup Primaries
  BY BeginReady
<1>4. Live' = Live /\ nextId \notin Live \cup snaps \cup doomed
  BY <1>2, IdFacts DEF Live
<1>5. Primaries' = Primaries
  BY <1>2, <1>4 DEF Primaries, Grows
<1>6. \A d \in Clients : d = c
  BY DEF Serial
<1>7. \A e \in fwd : e[3] \in Ids
  BY <1>1 DEF IInv, TypeOK, Edge
<1>8. \A i \in Ids : i \in Nat
  BY EngineAssumption DEF Ids
<1>9. ASSUME NEW e \in fwd' PROVE e[3] < nextId' /\ (e[3] \in snaps' => e[2] = "revised_from")
  <2>1. CASE e \in fwd
    <3>1. PICK j \in Nat : j = e[3]
      BY <1>7, <1>8, <2>1
    <3>2. j < nextId /\ (j \in snaps => e[2] = "revised_from")
      BY <2>1, <3>1 DEF RInv, Pure
    <3>3. j # nextId /\ j < nextId'
      BY <1>1, <1>2, <3>2 DEF Grows
    <3> QED BY <1>2, <3>1, <3>2, <3>3 DEF Grows
  <2>2. CASE e \notin fwd
    <3>1. AddEdge(c) /\ UNCHANGED <<nextId, snaps>>
      BY <1>2, <2>2 DEF AddEdge, history
    <3>2. e \in Known \X UserEdgeTypes \X Known
      BY <2>2, <3>1 DEF AddEdge
    <3>3. e[3] \in Known
      BY <3>2
    <3> QED BY <3>1, <3>3, IdFacts
  <2> QED BY <2>1, <2>2
<1>10. (doomed \cap snaps = {})'
  BY <1>2, <1>3, <1>4 DEF RInv, Grows, Primaries
<1>11. ASSUME NEW d \in Clients, pc'[d] = "write" PROVE Ready(task[d], snaps, doomed, nextId)'
  <2>1. d = c
    BY <1>6
  <2>2. PICK t : Become(c, "write", t) /\ Ready(t, snaps', doomed', nextId')
    BY <1>2, <1>3, <1>11, <2>1
  <2>3. task'[d] = t
    BY <1>1, <2>1, <2>2, BecomeOthers
  <2>4. UNCHANGED <<fwd, rev>>
    <3>1. AddEdge(c) => pc' = pc
      BY DEF AddEdge
    <3> QED BY <1>2, <1>11, <2>1, <3>1
  <2>5. Ready(t, snaps, doomed, nextId)'
    BY <1>2, <1>5, <2>2, <2>4, ReadyLater
  <2> QED BY <2>3, <2>5
<1> QED BY <1>9, <1>10, <1>11 DEF RInv, Pure

\* So does every further step, and what a write adds to the graph leads to ids issued.
LEMMA ContinueBooked ==
  ASSUME HInv, SInv, Serial, RInv, NEW c \in Clients, Continue(c) \/ StorageError(c)
  PROVE  RInv'
<1>1. IInv /\ FitTasks
  BY DEF HInv
<1>2. UNCHANGED <<nextId, snaps, doomed>>
  BY <1>1, ContinueFit
<1>3. CASE Write(c)
  <2>1. Ready(task[c], snaps, doomed, nextId)
    BY <1>3 DEF RInv, Write
  <2>2. fwd' \subseteq fwd \cup task[c].batch.eput
    BY <1>3 DEF Write, ApplyBatch
  <2>3. Pure(fwd', snaps, nextId)
    BY <2>1, <2>2 DEF RInv, Ready, Pure
  <2>4. pc'[c] = AfterWrite(task[c].op)
    BY <1>1, <1>3, BecomeOthers DEF Write, Goto
  <2>5. AfterWrite(task[c].op) # "write"
    BY DEF AfterWrite
  <2> QED BY <1>2, <2>3, <2>4, <2>5, ReadyStays
<1>4. CASE ~Write(c)
  <2>1. fwd' = fwd
    BY <1>4 DEF Continue, Reindex, Insert, Persist, Assoc, AssocPersist, Tombstone, Mark,
                ClearCandidates, PutCandidates, PutCursor, Rewind, StorageError, store
  <2>2. \E label \in Labels \ {"write"} : \E t : Become(c, label, t)
    BY <1>4 DEF Continue, Reindex, Insert, Persist, Assoc, AssocPersist, Tombstone, Mark,
                ClearCandidates, PutCandidates, PutCursor, Rewind, StorageError, Goto,
                AfterPersist, AfterMark, AfterCursor, Labels
  <2>3. pc'[c] # "write"
    BY <1>1, <2>2, BecomeOthers
  <2> QED BY <1>2, <2>1, <2>3, ReadyStays DEF RInv
<1> QED BY <1>3, <1>4

\* Every step of one client keeps what is prepared ready.
LEMMA BookedNext ==
  ASSUME HInv, SInv, Serial, ~SnapshotSources, RInv, [Next]_vars
  PROVE  RInv'
<1>1. CASE UNCHANGED vars
  <2>1. UNCHANGED <<mem, fwd, rev, pc, task, snaps, doomed, nextId>>
    BY <1>1 DEF vars, store, history
  <2>2. Primaries' = Primaries
    BY <2>1 DEF Primaries, Live
  <2>3. ASSUME NEW d \in Clients, pc'[d] = "write" PROVE Ready(task[d], snaps, doomed, nextId)'
    <3>1. PICK t : t = task[d]
      OBVIOUS
    <3>2. Ready(t, snaps', doomed', nextId')
      BY <2>1, <2>3, <3>1 DEF RInv
    <3>3. Ready(t, snaps, doomed, nextId)'
      BY <2>1, <2>2, <3>2, ReadyLater
    <3> QED BY <2>1, <3>1, <3>3
  <2> QED BY <2>1, <2>3 DEF RInv, Pure
<1>2. CASE Crash
  BY <1>2 DEF Crash, RInv, Pure, store, history
<1> QED BY <1>1, <1>2, BeginBooked, ContinueBooked DEF Next

\* Nothing is prepared when the engine is opened.
LEMMA BookedInit == Init => RInv
BY DEF Init, RInv, Pure

-----------------------------------------------------------------------------
(* What a revision makes of a memory's past.                               *)

\* The contents that m has under the ids of S, oldest first.
Pages(S, m) == [n \in 1 .. Cardinality(S) |-> m[Order(S)[n]].text]
\* The snapshots of i.
Old(i) == {j \in Live : <<i, "revised_from", j>> \in fwd}

\* Pages are contents, one for each id.
LEMMA PagesType ==
  ASSUME NEW S \in SUBSET Nat, IsFiniteSet(S), NEW m, \A j \in S : m[j].text \in Texts
  PROVE  Cardinality(S) \in Nat /\ Pages(S, m) \in Seq(Texts) /\ Len(Pages(S, m)) = Cardinality(S)
<1>1. Cardinality(S) \in Nat /\ \A n \in 1 .. Cardinality(S) : Order(S)[n] \in S
  BY OrderRank
<1>2. \A n \in 1 .. Cardinality(S) : m[Order(S)[n]].text \in Texts
  BY <1>1
<1>3. Pages(S, m) \in [1 .. Cardinality(S) -> Texts]
  BY <1>2 DEF Pages
<1>4. Pages(S, m) \in Seq(Texts)
  BY <1>1, <1>3
<1>5. DOMAIN Pages(S, m) = 1 .. Cardinality(S)
  BY DEF Pages
<1> HIDE DEF Pages
<1> QED BY <1>1, <1>4, <1>5

\* Pages are the same as long as the contents are.
LEMMA PagesSame ==
  ASSUME NEW S \in SUBSET Nat, IsFiniteSet(S), NEW m, NEW o, \A j \in S : m[j].text = o[j].text
  PROVE  Pages(S, m) = Pages(S, o)
<1>1. \A n \in 1 .. Cardinality(S) : Order(S)[n] \in S
  BY OrderRank
<1> QED BY <1>1 DEF Pages

\* There are no pages without ids.
LEMMA NoPages ==
  ASSUME NEW m
  PROVE  Pages({}, m) = <<>>
<1>1. Cardinality({}) = 0 /\ IsFiniteSet({})
  BY FS_EmptySet
<1>2. Pages({}, m) \in Seq(Texts) /\ Len(Pages({}, m)) = 0
  BY <1>1, PagesType
<1> HIDE DEF Pages
<1> QED BY <1>2

\* The ids of lowest rank are no others when one is added above them.
LEMMA FirstAppend ==
  ASSUME NEW S \in SUBSET Nat, IsFiniteSet(S), NEW s \in Nat, \A j \in S : j < s, NEW n \in 0 .. Cardinality(S)
  PROVE  FirstN(S \cup {s}, n) = FirstN(S, n)
<1> DEFINE U == S \cup {s}
<1>1. Cardinality(S) \in Nat /\ n \in Nat /\ n <= Cardinality(S)
  BY FS_CardinalityType
<1>2. \A j \in S : {k \in U : k < j} = {k \in S : k < j}
  OBVIOUS
<1>3. {k \in U : k < s} = S
  <2>1. ~(s < s)
    OBVIOUS
  <2> QED BY <2>1
<1>4. ~(Cardinality(S) < n)
  BY <1>1
<1>5. \A j \in S : Cardinality({k \in U : k < j}) = Cardinality({k \in S : k < j})
  BY <1>2
<1>6. Cardinality({k \in U : k < s}) = Cardinality(S)
  BY <1>3
<1> QED BY <1>4, <1>5, <1>6 DEF FirstN

\* The oldest ids beyond the limit, once one more comes to S.
Dropped(S) ==
  IF MaxSnaps = 0 \/ Cardinality(S) + 1 <= MaxSnaps THEN {}
  ELSE FirstN(S, (Cardinality(S) + 1) - MaxSnaps)

\* The pages once the content text is added, as the service has them.
Grown(S, m, text) == Service!Retained(Append(Pages(S, m), text))

\* A revision appends the content it replaces, and drops the oldest beyond the limit.
LEMMA PagesRevised ==
  ASSUME NEW S \in SUBSET Nat, IsFiniteSet(S), NEW s \in Nat, \A j \in S : j < s,
         NEW m, NEW o, \A j \in S : m[j].text \in Texts, NEW text \in Texts,
         \A j \in S \ Dropped(S) : o[j].text = m[j].text, o[s].text = text
  PROVE  Pages((S \cup {s}) \ Dropped(S), o) = Grown(S, m, text)
<1> DEFINE U == S \cup {s}
           E == Dropped(S)
           N == Cardinality(S)
           p == Append(Pages(S, m), text)
<1>1. /\ IsFiniteSet(U) /\ Cardinality(U) = N + 1 /\ U \in SUBSET Nat
      /\ \A n \in 1 .. N : Order(U)[n] = Order(S)[n]
      /\ Order(U)[N + 1] = s
  BY OrderAppend
<1>2. N \in Nat /\ MaxSnaps \in Nat /\ s \notin S /\ s \notin E
  <2>1. s \notin S /\ (E = {} \/ E \subseteq S)
    BY DEF FirstN, Dropped
  <2> QED BY <2>1, FS_CardinalityType, EngineAssumption
<1>3. Pages(S, m) \in Seq(Texts) /\ Len(Pages(S, m)) = N
  BY PagesType
<1>4. /\ p \in Seq(Texts) /\ Len(p) = N + 1 /\ p[N + 1] = text
      /\ \A n \in 1 .. N : p[n] = Pages(S, m)[n]
  <2> HIDE DEF Pages, N
  <2> QED BY <1>2, <1>3
<1>5. \A n \in 1 .. N : p[n] = m[Order(S)[n]].text
  BY <1>4 DEF Pages
<1>6. \A n \in 1 .. N : Order(S)[n] \in S
  BY OrderRank
<1> HIDE DEF p, N, E
<1>7. \A n \in 1 .. N + 1 : Order(U)[n] \notin E => o[Order(U)[n]].text = p[n]
  <2> SUFFICES ASSUME NEW n \in 1 .. N + 1, Order(U)[n] \notin E PROVE o[Order(U)[n]].text = p[n]
    OBVIOUS
  <2>1. CASE n = N + 1
    BY <1>1, <1>4, <2>1
  <2>2. CASE n # N + 1
    <3>1. n \in 1 .. N
      BY <1>2, <2>2
    <3>2. PICK j \in S : j = Order(S)[n] /\ j = Order(U)[n]
      BY <1>1, <1>6, <3>1
    <3> QED BY <1>5, <3>1, <3>2 DEF E
  <2> QED BY <2>1, <2>2
<1>8. CASE MaxSnaps = 0 \/ N + 1 <= MaxSnaps
  <2>1. E = {}
    BY <1>8 DEF N, E, Dropped
  <2>2. Service!Retained(p) = p
    BY <1>2, <1>4, <1>8 DEF Service!Retained
  <2>3. Pages(U, o) = [n \in 1 .. N + 1 |-> o[Order(U)[n]].text]
    BY <1>1 DEF Pages
  <2>4. Pages(U, o) = [n \in 1 .. N + 1 |-> p[n]]
    BY <1>7, <2>1, <2>3
  <2>5. p = [n \in 1 .. N + 1 |-> p[n]]
    BY <1>4
  <2>6. U \ E = U
    BY <2>1
  <2> QED BY <2>2, <2>4, <2>5, <2>6 DEF p, E, Grown
<1>9. CASE ~(MaxSnaps = 0 \/ N + 1 <= MaxSnaps)
  <2> DEFINE x == (N + 1) - MaxSnaps
  <2>1. /\ x \in 0 .. N /\ x \in 0 .. N + 1 /\ (N + 1) - x = MaxSnaps /\ MaxSnaps \in Nat \ {0}
        /\ ((N + 1) - MaxSnaps) + 1 = x + 1 /\ Len(p) > MaxSnaps
    BY <1>2, <1>4, <1>9
  <2>2. E = FirstN(S, x)
    BY <1>9 DEF N, E, Dropped
  <2> HIDE DEF x
  <2>3. E = FirstN(U, x)
    BY <2>1, <2>2, FirstAppend DEF N
  <2> DEFINE T == U \ FirstN(U, x)
  <2>4. /\ IsFiniteSet(T) /\ Cardinality(T) = MaxSnaps
        /\ \A n \in 1 .. MaxSnaps : Order(T)[n] = Order(U)[n + x]
    BY <1>1, <2>1, OrderDrop
  <2>5. \A n \in 1 .. MaxSnaps : Order(T)[n] \in T
    BY <1>1, <2>4, OrderRank
  <2>6. T = U \ E
    BY <2>3
  <2> HIDE DEF T
  <2>7. ASSUME NEW n \in 1 .. MaxSnaps PROVE o[Order(T)[n]].text = p[n + x]
    <3>1. n + x \in 1 .. N + 1
      BY <1>2, <2>1
    <3>2. PICK j \in T : j = Order(T)[n] /\ j = Order(U)[n + x]
      BY <2>4, <2>5, <2>7
    <3>3. j \notin E
      BY <2>6, <3>2
    <3> QED BY <1>7, <3>1, <3>2, <3>3
  <2>8. Pages(T, o) = [n \in 1 .. MaxSnaps |-> p[n + x]]
    BY <2>4, <2>7 DEF Pages
  <2>9. Service!Retained(p) = SubSeq(p, x + 1, N + 1)
    BY <1>4, <2>1 DEF Service!Retained
  <2>10. SubSeq(p, x + 1, N + 1) = [n \in 1 .. MaxSnaps |-> p[n + x]]
    <3> DEFINE q == SubSeq(p, x + 1, N + 1)
    <3>1. /\ x + 1 \in Int /\ N + 1 \in Int /\ x + 1 <= N + 1 /\ (N + 1) - (x + 1) + 1 = MaxSnaps
          /\ \A n \in x + 1 .. N + 1 : n \in 1 .. N + 1
          /\ \A n \in 1 .. MaxSnaps : (x + 1) + n - 1 = n + x
      BY <1>2, <2>1
    <3>2. \A n \in 1 .. N + 1 : p[n] \in Texts
      BY <1>4
    <3>3. /\ q \in Seq(Texts) /\ Len(q) = MaxSnaps
          /\ \A n \in 1 .. MaxSnaps : q[n] = p[(x + 1) + n - 1]
      BY <3>1, <3>2, SubSeqProperties
    <3>4. q = [n \in 1 .. MaxSnaps |-> q[n]]
      <4> HIDE DEF q
      <4> QED BY <3>3
    <3> HIDE DEF q
    <3>5. q = [n \in 1 .. MaxSnaps |-> p[n + x]]
      BY <3>1, <3>3, <3>4
    <3> QED BY <3>5 DEF q
  <2> QED BY <2>6, <2>8, <2>9, <2>10 DEF p, E, Grown
<1> QED BY <1>8, <1>9

-----------------------------------------------------------------------------
(* The engine implements MemoryService.                                    *)

\* An entry of the book holds a primary's content and the contents of its snapshots.
Told(i) == [text |-> mem[i].text, past |-> Pages(Old(i), mem)]

\* The book, entry by entry, in both states of a step.
LEMMA BookEntries ==
  /\ Book = [i \in Ids |-> IF i \in Primaries THEN Told(i) ELSE None]
  /\ Book' = [i \in Ids |-> IF i \in Primaries' THEN Told(i)' ELSE None]
<1>1. \A i : Lineage(i) = Order(Old(i)) /\ Lineage(i)' = Order(Old(i)')
  BY DEF Lineage, Order, Old, Rank
<1>2. \A i : /\ Told(i) = [text |-> mem[i].text,
                           past |-> [n \in DOMAIN Lineage(i) |-> mem[Lineage(i)[n]].text]]
             /\ Told(i)' = [text |-> mem'[i].text,
                            past |-> [n \in DOMAIN Lineage(i)' |-> mem'[Lineage(i)'[n]].text]]
  <2>1. \A S : DOMAIN Order(S) = 1 .. Cardinality(S)
    BY DEF Order
  <2> QED BY <1>1, <2>1 DEF Told, Pages
<1> QED BY <1>2 DEF Book

\* What is known of the snapshots of memories.
LEMMA OldFacts ==
  ASSUME HInv, SInv, Serial, RInv
  PROVE  /\ \A i \in Ids : /\ Old(i) \in SUBSET Nat /\ IsFiniteSet(Old(i))
                           /\ Old(i) \subseteq snaps \cap Live /\ SnapshotsOf(i) = Old(i)
         /\ \A i, j \in Ids : \A k \in Old(i) \cap Old(j) : i = j
         /\ \A j \in Live : mem[j] \in Record /\ mem[j].text \in Texts /\ j \in Ids
         /\ \A i, j : <<i, "revised_from", j>> \in fwd => i \in Primaries /\ j \in Live /\ j \in Old(i)
<1>1. IInv /\ Lineal(fwd, snaps) /\ Lined /\ CreatedOnce
  BY DEF HInv, SInv, LineageOK, Serial
<1>2. \A j \in Live : mem[j] \in Record /\ mem[j].text \in Texts /\ j \in Ids
  BY <1>1 DEF IInv, TypeOK, Live, Record
<1>3. ASSUME NEW i, NEW j, <<i, "revised_from", j>> \in fwd
      PROVE  i \in Primaries /\ j \in Live /\ j \in Old(i) /\ j \in snaps /\ mem[j].created = mem[i].created
  <2>1. PICK e \in fwd : e = <<i, "revised_from", j>>
    BY <1>3
  <2>2. e[1] = i /\ e[2] = "revised_from" /\ e[3] = j
    BY <2>1
  <2> QED BY <1>1, <2>1, <2>2 DEF Lineal, Lined, Old
<1>4. ASSUME NEW i \in Ids
      PROVE  /\ Old(i) \in SUBSET Nat /\ IsFiniteSet(Old(i))
             /\ Old(i) \subseteq snaps \cap Live /\ SnapshotsOf(i) = Old(i)
  <2>1. Old(i) \subseteq snaps \cap Live /\ Old(i) \subseteq Ids
    BY <1>2, <1>3 DEF Old
  <2>2. Ids \in SUBSET Nat /\ IsFiniteSet(Ids)
    BY FS_Interval, EngineAssumption DEF Ids
  <2>3. IsFiniteSet(Old(i))
    BY <2>1, <2>2, FS_Subset
  <2>4. \A j \in Old(i) : \A e \in rev : e[3] = j => e[2] = "revised_from"
    BY <1>1, <2>1 DEF RInv, Pure, IInv, GraphSymmetric
  <2>5. SnapshotsOf(i) \subseteq Old(i)
    BY <1>3 DEF SnapshotsOf
  <2>6. Old(i) \subseteq SnapshotsOf(i)
    BY <2>1, <2>4 DEF SnapshotsOf, Old
  <2> QED BY <2>1, <2>2, <2>3, <2>5, <2>6
<1>5. ASSUME NEW i \in Ids, NEW j \in Ids, NEW k \in Old(i) \cap Old(j) PROVE i = j
  <2>1. /\ i \in Primaries /\ mem[k].created = mem[i].created
        /\ j \in Primaries /\ mem[k].created = mem[j].created
    BY <1>3 DEF Old
  <2> QED BY <1>1, <2>1 DEF CreatedOnce
<1> QED BY <1>2, <1>3, <1>4, <1>5

\* An entry stays as long as the contents it holds do.
LEMMA ToldStays ==
  ASSUME HInv, SInv, Serial, RInv, NEW i \in Ids, mem'[i] = mem[i], Old(i)' = Old(i),
         \A k \in Old(i) : mem'[k] = mem[k]
  PROVE  Told(i)' = Told(i)
<1>1. Old(i) \in SUBSET Nat /\ IsFiniteSet(Old(i))
  BY OldFacts
<1>2. Pages(Old(i), mem') = Pages(Old(i), mem)
  BY <1>1, PagesSame
<1> QED BY <1>2 DEF Told

\* The memories that are forgotten.
Gone == {i \in doomed : mem[i] = None}

\* A batch that adds a memory is a Remember.
LEMMA StoresBook ==
  ASSUME HInv, SInv, Serial, RInv, NEW b \in Batch, NEW i, Stores(b, i, snaps, doomed), ApplyBatch(b),
         UNCHANGED <<snaps, doomed>>
  PROVE  Service!Remember(i) /\ i \in Ids
<1>1. /\ i \in Ids /\ i \notin Live /\ i \notin snaps /\ i \notin doomed
      /\ b.put[i] # None /\ b.del = {} /\ \A j \in Ids : b.put[j] # None => j = i
      /\ b.fdel = {} /\ \A e \in b.eput : e[2] # "revised_from"
  BY DEF Stores, Put
<1>2. b.put[i] \in Record /\ b.put[i].text \in Texts
  BY <1>1 DEF Batch, Record
<1>3. mem'[i] = b.put[i] /\ \A j \in Ids : j # i => mem'[j] = mem[j]
  BY <1>1 DEF ApplyBatch
<1>4. Live' = Live \cup {i} /\ Primaries' = Primaries \cup {i} /\ i \notin Primaries
  BY <1>1, <1>3 DEF Live, Primaries
<1>5. \A j, k : <<j, "revised_from", k>> \in fwd' <=> <<j, "revised_from", k>> \in fwd
  <2>1. fwd' = fwd \cup b.eput
    BY <1>1 DEF ApplyBatch
  <2>2. \A j, k : <<j, "revised_from", k>> \notin b.eput
    BY <1>1
  <2> QED BY <2>1, <2>2
<1>6. \A j : Old(j)' = Old(j)
  BY <1>1, <1>4, <1>5, OldFacts DEF Old
<1>7. ASSUME NEW j \in Primaries PROVE Told(j)' = Told(j)
  <2>1. j \in Ids /\ j # i /\ \A k \in Old(j) : k \in Ids /\ k # i
    BY <1>1, OldFacts DEF Primaries, Live
  <2>2. mem'[j] = mem[j] /\ \A k \in Old(j) : mem'[k] = mem[k]
    BY <1>3, <2>1
  <2> QED BY <1>6, <2>1, <2>2, ToldStays
<1>8. Told(i)' = [text |-> b.put[i].text, past |-> <<>>]
  <2>1. Old(i) = {}
    BY <1>4, OldFacts DEF Old
  <2>2. Pages(Old(i)', mem') = <<>>
    BY <1>6, <2>1, NoPages
  <2> QED BY <1>3, <2>2 DEF Told
<1>9. Book' = [Book EXCEPT ![i] = [text |-> b.put[i].text, past |-> <<>>]]
  BY <1>1, <1>4, <1>7, <1>8, BookEntries
<1>10. Book[i] = None
  BY <1>1, <1>4, BookEntries
<1>11. UNCHANGED Gone /\ i \notin Gone
  <2>1. doomed \subseteq Ids
    BY DEF HInv, IInv, TypeOK
  <2> QED BY <1>1, <1>3, <2>1 DEF Gone
<1> QED BY <1>1, <1>2, <1>9, <1>10, <1>11 DEF Service!Remember, Gone

\* A batch that replaces a memory's content is a Revise.
LEMMA RevisesBook ==
  ASSUME HInv, SInv, Serial, RInv, NEW b \in Batch, NEW i, NEW s \in Ids, Revises(b, i, s, snaps, doomed),
         ApplyBatch(b), UNCHANGED <<snaps, doomed>>
  PROVE  Service!Revise(i) /\ i \in Ids
<1>1. /\ i \in Primaries /\ i \in Live /\ i \in Ids /\ i \notin snaps
      /\ s \in snaps /\ s \notin Live /\ s \notin doomed /\ \A j \in Live : j < s
      /\ b.put[i] # None /\ b.put[s] = mem[i] /\ b.put[s] # None
      /\ \A j \in Ids : b.put[j] # None => j \in {i, s}
      /\ b.del = Excess(i) /\ b.fdel = UNION {Touching(j) : j \in Excess(i)}
      /\ <<i, "revised_from", s>> \in b.eput
      /\ \A e \in b.eput : e[2] = "revised_from" => e[1] = i /\ e[3] = s
  BY DEF Revises, Put, Primaries, Live
<1> DEFINE S == Old(i)
           E == Excess(i)
<1>2. /\ S \in SUBSET Nat /\ IsFiniteSet(S) /\ S \subseteq snaps \cap Live
      /\ E = Dropped(S) /\ E \subseteq S
  <2>1. S \in SUBSET Nat /\ IsFiniteSet(S) /\ S \subseteq snaps \cap Live /\ SnapshotsOf(i) = S
    BY <1>1, OldFacts
  <2>2. E = Dropped(S)
    BY <2>1 DEF Excess, Dropped
  <2>3. E \subseteq S
    BY <2>2 DEF Dropped, FirstN
  <2> QED BY <2>1, <2>2, <2>3
<1>3. b.put[i] \in Record /\ b.put[i].text \in Texts
  BY <1>1 DEF Batch, Record
<1> HIDE DEF S, E
<1>4. /\ i # s /\ i \notin E /\ s \notin E /\ s \notin S
      /\ mem'[i] = b.put[i] /\ mem'[s] = mem[i]
      /\ \A j \in Ids : j \notin {i, s} => mem'[j] = IF j \in E THEN None ELSE mem[j]
  BY <1>1, <1>2 DEF ApplyBatch, E
<1>5. Live' = (Live \cup {s}) \ E /\ Primaries' = Primaries
  <2>1. Live' = (Live \cup {s}) \ E
    BY <1>1, <1>2, <1>4 DEF Live
  <2> QED BY <1>1, <1>2, <2>1 DEF Primaries
<1>6. \A e \in b.fdel : e[1] \in E \/ e[3] \in E
  BY <1>1 DEF Touching, E
<1>7. fwd' = (fwd \cup b.eput) \ b.fdel
  BY DEF ApplyBatch
<1>8. \A j, k : <<j, "revised_from", k>> \in b.eput <=> j = i /\ k = s
  BY <1>1
<1>9. ASSUME NEW j, NEW k, j \notin E, k \notin E
      PROVE  <<j, "revised_from", k>> \in fwd' <=> <<j, "revised_from", k>> \in fwd \/ (j = i /\ k = s)
  <2>1. <<j, "revised_from", k>> \notin b.fdel
    BY <1>6, <1>9
  <2> QED BY <1>7, <1>8, <2>1
<1>10. ASSUME NEW j \in Primaries, j # i PROVE Told(j)' = Told(j)
  <2>1. j \in Ids /\ j \notin E /\ j # s /\ Old(j) \cap E = {} /\ Old(j) \subseteq snaps \cap Live /\ Old(j) \subseteq Ids
    BY <1>1, <1>2, <1>10, OldFacts DEF Primaries, S
  <2>2. Old(j)' = Old(j)
    <3>1. \A k \in Live' : k \notin E
      BY <1>5
    <3>2. \A k \in Live' : k \in Old(j)' <=> <<j, "revised_from", k>> \in fwd
      BY <1>9, <1>10, <2>1, <3>1 DEF Old
    <3>3. \A k \in Old(j) : k \in Live' /\ <<j, "revised_from", k>> \in fwd
      BY <1>5, <2>1 DEF Old
    <3>4. \A k \in Live' : <<j, "revised_from", k>> \in fwd => k \in Old(j)
      BY OldFacts
    <3>5. Old(j)' \subseteq Live'
      BY DEF Old
    <3> QED BY <3>2, <3>3, <3>4, <3>5
  <2>3. \A k \in Old(j) : k \notin {i, s} /\ k \notin E /\ k \in Ids
    BY <1>1, <2>1
  <2>4. mem'[j] = mem[j] /\ \A k \in Old(j) : mem'[k] = mem[k]
    BY <1>4, <1>10, <2>1, <2>3
  <2> QED BY <2>1, <2>2, <2>4, ToldStays
<1>11. Old(i)' = (S \cup {s}) \ E
  <2>1. \A k \in Live' : k \in Old(i)' <=> <<i, "revised_from", k>> \in fwd \/ k = s
    BY <1>4, <1>5, <1>9 DEF Old
  <2>2. \A k : <<i, "revised_from", k>> \in fwd <=> k \in S
    BY OldFacts DEF Old, S
  <2>3. Old(i)' \subseteq Live' /\ (S \cup {s}) \ E \subseteq Live'
    BY <1>2, <1>5 DEF Old
  <2> QED BY <1>5, <2>1, <2>2, <2>3
<1>12. Pages(Old(i)', mem') = Grown(S, mem, mem[i].text)
  <2>1. \A j \in S : mem[j].text \in Texts /\ j < s
    BY <1>1, <1>2, OldFacts
  <2>2. mem[i].text \in Texts /\ mem'[s].text = mem[i].text /\ s \in Nat
    BY <1>1, <1>4, OldFacts, EngineAssumption DEF Ids
  <2>3. \A j \in S \ E : mem'[j].text = mem[j].text
    <3>1. \A j \in S \ E : j \in Ids /\ j \notin {i, s}
      BY <1>1, <1>2, <1>4, OldFacts
    <3> QED BY <1>4, <3>1
  <2>4. /\ \A j \in S \ Dropped(S) : mem'[j].text = mem[j].text
        /\ Old(i)' = (S \cup {s}) \ Dropped(S)
    BY <1>2, <1>11, <2>3
  <2>5. /\ S \in SUBSET Nat /\ IsFiniteSet(S)
        /\ (\A j \in S : j < s) /\ (\A j \in S : mem[j].text \in Texts)
    BY <1>2, <2>1
  <2>6. ASSUME NEW m, NEW o, NEW text \in Texts,
               \A j \in S : m[j].text \in Texts,
               \A j \in S \ Dropped(S) : o[j].text = m[j].text, o[s].text = text
        PROVE  Pages((S \cup {s}) \ Dropped(S), o) = Grown(S, m, text)
    BY <2>2, <2>5, <2>6, PagesRevised
  <2>7. PICK m, o, text : m = mem /\ o = mem' /\ text = mem[i].text
    OBVIOUS
  <2>8. Pages((S \cup {s}) \ Dropped(S), o) = Grown(S, m, text)
    BY <2>2, <2>4, <2>5, <2>6, <2>7
  <2> QED BY <2>4, <2>7, <2>8
<1>13. Told(i)' = [text |-> b.put[i].text,
                   past |-> Service!Retained(Append(Book[i].past, Book[i].text))]
  <2>1. Book[i] = Told(i)
    BY <1>1, BookEntries
  <2>2. Book[i].past = Pages(S, mem) /\ Book[i].text = mem[i].text
    BY <2>1 DEF Told, S
  <2> QED BY <1>4, <1>12, <2>2 DEF Told, Grown
<1>14. Book' = [Book EXCEPT ![i] = Told(i)']
  BY <1>1, <1>5, <1>10, BookEntries
<1>15. Book[i] # None
  <2>1. Pages(S, mem) \in Seq(Texts) /\ mem[i].text \in Texts
    BY <1>1, <1>2, PagesType, OldFacts
  <2>2. Told(i) \in [text : Texts, past : Seq(Texts)]
    BY <2>1 DEF Told, S
  <2> QED BY <1>1, <2>2, EntryAssumption, BookEntries
<1>16. UNCHANGED Gone
  <2>1. \A j \in doomed : j \in Ids /\ j \notin snaps
    BY DEF HInv, IInv, TypeOK, RInv
  <2>2. \A j \in doomed : mem'[j] = None <=> mem[j] = None
    BY <1>1, <1>2, <1>4, <2>1 DEF Live
  <2> QED BY <2>2 DEF Gone
<1> QED BY <1>1, <1>3, <1>13, <1>14, <1>15, <1>16 DEF Service!Revise, Gone

\* A batch that removes memories is a Forget: snapshots go with the memory they are of.
LEMMA RemovesBook ==
  ASSUME HInv, SInv, Serial, RInv, NEW b \in Batch, NEW K \in SUBSET Ids, Removes(b, K, doomed),
         ApplyBatch(b), UNCHANGED <<snaps, doomed>>
  PROVE  Service!Forget(K)
<1>1. /\ K # {} /\ K \subseteq Primaries /\ K \subseteq doomed
      /\ \A j \in Ids : b.put[j] = None
      /\ b.eput = {} /\ K \subseteq b.del /\ b.del \subseteq K \cup UNION {SnapshotsOf(i) : i \in K}
      /\ b.fdel = UNION {Touching(j) : j \in b.del}
  BY DEF Removes, Put
<1>2. ASSUME NEW k \in b.del PROVE k \in K \/ (k \in snaps /\ \E i \in K : k \in Old(i))
  <2>1. CASE k \in K
    BY <2>1
  <2>2. CASE k \notin K
    <3>1. PICK i \in K : k \in SnapshotsOf(i)
      BY <1>1, <2>2
    <3>2. SnapshotsOf(i) = Old(i) /\ Old(i) \subseteq snaps
      BY OldFacts
    <3> QED BY <3>1, <3>2
  <2> QED BY <2>1, <2>2
<1>3. \A j \in Ids : mem'[j] = IF j \in b.del THEN None ELSE mem[j]
  BY <1>1 DEF ApplyBatch
<1>4. Live' = Live \ b.del
  BY <1>3 DEF Live
<1>5. Primaries' = Primaries \ K
  BY <1>1, <1>2, <1>4 DEF Primaries
<1>6. /\ fwd' = fwd \ b.fdel
      /\ \A e \in b.fdel : e[1] \in b.del \/ e[3] \in b.del
  BY <1>1 DEF ApplyBatch, Touching
<1>7. ASSUME NEW j \in Primaries \ K PROVE Told(j)' = Told(j)
  <2>1. j \in Ids /\ j \notin b.del /\ j \notin snaps
    BY <1>2, OldFacts DEF Primaries
  <2>2. ASSUME NEW k \in Old(j) PROVE k \in Live /\ k \in Ids /\ k \notin b.del /\ <<j, "revised_from", k>> \in fwd
    <3>1. k \in snaps /\ k \in Live /\ k \in Ids /\ <<j, "revised_from", k>> \in fwd
      BY <2>1, OldFacts DEF Old
    <3>2. ASSUME NEW i \in K, k \in Old(i) PROVE FALSE
      <4>1. i = j
        BY <2>1, <3>2, OldFacts
      <4> QED BY <4>1
    <3>3. k \notin K
      BY <1>1, <3>1 DEF Primaries
    <3> QED BY <1>2, <3>1, <3>2, <3>3
  <2>3. \A k \in Old(j) : k \in Live' /\ <<j, "revised_from", k>> \in fwd'
    BY <1>4, <1>6, <2>1, <2>2
  <2>4. Old(j)' = Old(j)
    BY <1>4, <1>6, <2>3 DEF Old
  <2>5. mem'[j] = mem[j] /\ \A k \in Old(j) : mem'[k] = mem[k]
    BY <1>3, <2>1, <2>2
  <2> QED BY <2>1, <2>4, <2>5, ToldStays
<1>8. Book' = [i \in Ids |-> IF i \in K THEN None ELSE Book[i]]
  BY <1>1, <1>5, <1>7, BookEntries
<1>9. ASSUME NEW i \in K PROVE Book[i] # None
  <2>1. i \in Primaries /\ i \in Live /\ i \in Ids
    BY <1>1 DEF Primaries
  <2>2. \A j \in Old(i) : mem[j].text \in Texts
    BY <2>1, OldFacts
  <2>3. Pages(Old(i), mem) \in Seq(Texts) /\ mem[i].text \in Texts
    BY <2>1, <2>2, PagesType, OldFacts
  <2>4. Told(i) \in [text : Texts, past : Seq(Texts)]
    BY <2>3 DEF Told
  <2> QED BY <2>1, <2>4, EntryAssumption, BookEntries
<1>10. Gone' = Gone \cup K
  <2>1. \A j \in doomed : j \in Ids /\ j \notin snaps
    BY DEF HInv, IInv, TypeOK, RInv
  <2>2. \A j \in doomed : mem'[j] = None <=> mem[j] = None \/ j \in K
    BY <1>1, <1>2, <1>3, <2>1
  <2> QED BY <1>1, <2>2 DEF Gone
<1> QED BY <1>1, <1>8, <1>9, <1>10 DEF Service!Forget, Gone

\* A batch that puts back what is there changes nothing.
LEMMA RestoresBook ==
  ASSUME HInv, NEW b \in Batch, Restores(b), ApplyBatch(b), UNCHANGED <<snaps, doomed>>
  PROVE  UNCHANGED Service!vars
<1>1. mem' = mem
  <2>1. mem = [i \in Ids |-> mem[i]]
    BY DEF HInv, IInv, TypeOK
  <2>2. \A i \in Ids : i \notin b.del /\ (b.put[i] # None => b.put[i] = mem[i])
    BY DEF Restores, Put
  <2>3. mem' = [i \in Ids |-> mem[i]]
    BY <2>2 DEF ApplyBatch
  <2> QED BY <2>1, <2>3
<1>2. fwd' = fwd
  BY DEF Restores, ApplyBatch
<1>3. UNCHANGED Book
  BY <1>1, <1>2 DEF Book, Lineage, Primaries, Live
<1> QED BY <1>1, <1>3 DEF Service!vars

\* The WriteBatch is where an operation takes effect.
LEMMA WriteBook ==
  ASSUME HInv, SInv, Serial, RInv, NEW c \in Clients, Write(c)
  PROVE  [Service!Next]_(Service!vars)
<1> DEFINE b == task[c].batch
<1>1. b \in Batch /\ ApplyBatch(b) /\ UNCHANGED <<snaps, doomed>>
  BY DEF Write, HInv, IInv, TypeOK, Task
<1>2. Ready(task[c], snaps, doomed, nextId)
  BY DEF RInv, Write
<1>3. CASE Stores(b, task[c].id, snaps, doomed)
  BY <1>1, <1>3, StoresBook DEF Service!Next
<1>4. ASSUME NEW s \in Ids, Revises(b, task[c].id, s, snaps, doomed) PROVE Service!Next
  BY <1>1, <1>4, RevisesBook DEF Service!Next
<1>5. ASSUME NEW K \in SUBSET Ids, Removes(b, K, doomed) PROVE Service!Next
  BY <1>1, <1>5, RemovesBook DEF Service!Next
<1>6. CASE Restores(b)
  BY <1>1, <1>6, RestoresBook
<1> QED BY <1>2, <1>3, <1>4, <1>5, <1>6 DEF Ready

\* No other step changes the book.
LEMMA OtherStepsBook ==
  ASSUME HInv, SInv, Serial, ~SnapshotSources, RInv,
         NEW c \in Clients, Begin(c) \/ (Continue(c) /\ ~Write(c)) \/ StorageError(c)
  PROVE  UNCHANGED Service!vars
<1>1. IInv /\ FitTasks /\ Numbering /\ LineageOK
  BY DEF HInv
<1>2. CASE Begin(c)
  <2>1. UNCHANGED mem /\ Grows
    BY <1>1, <1>2, BeginFrame, BeginFit
  <2>2. AddEdge(c) \/ UNCHANGED fwd
    BY <1>1, <1>2, BeginFrame
  <2>3. doomed' \subseteq doomed \cup Primaries
    BY <1>2, BeginReady
  <2>4. Live' = Live /\ Primaries' = Primaries
    <3>1. Live' = Live
      BY <2>1 DEF Live
    <3>2. nextId \notin Live
      BY IdFacts
    <3> QED BY <2>1, <3>1, <3>2 DEF Primaries, Grows
  <2>5. \A i, j : <<i, "revised_from", j>> \in fwd' <=> <<i, "revised_from", j>> \in fwd
    BY <2>2 DEF AddEdge, Serial
  <2>6. \A i : Old(i)' = Old(i)
    BY <2>4, <2>5 DEF Old
  <2>7. \A i : Told(i)' = Told(i)
    BY <2>1, <2>6 DEF Told
  <2>8. Gone' = Gone
    BY <2>1, <2>3 DEF Gone, Grows, Primaries, Live
  <2>9. Book' = Book
    BY <2>4, <2>7, BookEntries
  <2> QED BY <2>8, <2>9 DEF Service!vars, Gone
<1>3. CASE (Continue(c) /\ ~Write(c)) \/ StorageError(c)
  <2>1. UNCHANGED <<mem, fwd, snaps, doomed>>
    BY <1>3 DEF Continue, Reindex, Insert, Persist, Assoc, AssocPersist, Tombstone, Mark,
                ClearCandidates, PutCandidates, PutCursor, Rewind, StorageError, store, history
  <2> QED BY <2>1 DEF Service!vars, Book, Lineage, Primaries, Live
<1> QED BY <1>2, <1>3

\* The book opens with the stored memories, none with a past.
LEMMA InitBook == Init => Service!Init
<1> SUFFICES ASSUME Init PROVE Service!Init
  OBVIOUS
<1>1. \A i \in Primaries : mem[i].text \in Texts
  BY InitOK DEF IInv, TypeOK, Primaries, Live, Record
<1>2. \A i : Old(i) = {}
  BY DEF Init, Old
<1>3. \A i : Told(i) = [text |-> mem[i].text, past |-> <<>>]
  BY <1>2, NoPages DEF Told
<1>4. Book \in [Ids -> {None} \cup [text : Texts, past : {<<>>}]]
  BY <1>1, <1>3, BookEntries
<1> QED BY <1>4 DEF Init, Service!Init

\* For one client, whatever writes fail and wherever it crashes, each operation of
\* the engine takes effect at its WriteBatch or not at all: it adds a memory, revises
\* one and keeps the newest MaxSnaps of its past contents in order, or removes some
\* for good, with their past and nothing else.
THEOREM OneClientImplements ==
  ASSUME Serial, ~SnapshotSources
  PROVE  Spec => ImplementsService
<1>1. SInv /\ HInv /\ [Next]_vars => SInv'
  BY SerialNext
<1>2. SInv /\ HInv /\ RInv /\ [Next]_vars => RInv'
  BY BookedNext
<1>3. SInv /\ HInv /\ RInv /\ [Next]_vars => [Service!Next]_(Service!vars)
  <2> SUFFICES ASSUME SInv, HInv, RInv, [Next]_vars PROVE [Service!Next]_(Service!vars)
    OBVIOUS
  <2>1. CASE UNCHANGED vars \/ Crash
    <3>1. UNCHANGED <<mem, fwd, snaps, doomed>>
      BY <2>1 DEF vars, Crash, store, history
    <3> QED BY <3>1 DEF Service!vars, Book, Lineage, Primaries, Live
  <2>2. ASSUME NEW c \in Clients, Begin(c) \/ Continue(c) \/ StorageError(c)
        PROVE  [Service!Next]_(Service!vars)
    <3>1. CASE Write(c)
      BY <3>1, WriteBook
    <3>2. CASE ~Write(c)
      BY <2>2, <3>2, OtherStepsBook
    <3> QED BY <3>1, <3>2
  <2> QED BY <2>1, <2>2 DEF Next
<1> QED BY <1>1, <1>2, <1>3, SerialInit, BookedInit, HistoryInit, HistoryNext, InitBook, PTL
        DEF Spec, ImplementsService, Service!Spec
=============================================================================
