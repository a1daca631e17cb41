-------------------------------- MODULE Hnsw --------------------------------
(***************************************************************************)
(* hebbs-index's HnswGraph under the calls the engine makes of it:         *)
(* inserting a new vector, tombstoning one, putting an id back with another*)
(* vector (revise), collecting tombstones after a forget, and rebuilding   *)
(* the graph when the index manager is opened.  The calls of several       *)
(* threads overlap, also on one id, for nothing is locked between a batch  *)
(* and the changes of the graph that follow.  The graph is modelled node   *)
(* by node and link by link, its neighbour lists being sequences in which  *)
(* an id may occur twice.  Vectors are points of a line: what the algorithm*)
(* looks at is which of two nodes is nearer.  The beam of a search is wider*)
(* than the graph (ef_construction and ef_search exceed |Ids|), so that a  *)
(* layer's search returns all that its entry points reach.                 *)
(***************************************************************************)
EXTENDS Integers, Sequences, FiniteSets

CONSTANTS
  MaxIds,     \* bound: memories ever stored
  Callers,    \* threads that remember, revise, delete or forget
  Points,     \* the vectors
  Layers,     \* the layers random_layer may draw
  M, MMax,    \* HnswParams.m and m_max
  MaxOps,     \* bound: operations started
  None

Ids == 1 .. MaxIds
\* HnswNode of layer l: links[k] are its neighbours on layer k.
NodeOf(l) == [layer : {l}, links : [0 .. l -> Seq(Ids)], deleted : BOOLEAN, at : Points]
\* A call: the id it is about, its new vector if there is one, what comes next.
Steps == {"batch", "unlink", "insert", "put"}
Call == [id : Ids, at : Points \cup {None}, step : Steps, forget : BOOLEAN]

ASSUME HnswAssumption ==
  /\ MaxIds \in Nat /\ MaxOps \in Nat /\ Points \subseteq Int /\ Points # {}
  /\ Layers \subseteq Nat /\ Layers # {} /\ M \in Nat \ {0} /\ MMax \in Nat \ {0}
  /\ None \notin Int /\ \A l \in Layers : None \notin NodeOf(l)
  /\ None \notin Call

VARIABLES
  nodes,    \* id |-> [layer, links, deleted, at], None: the id is not in the map
  entry, maxLayer, tombstones,  \* entry_point, max_layer, tombstone_count
  used,     \* how many ids were given out; they grow with time
  records,  \* ids with a record in the Default CF
  disk,     \* id |-> its vector in the Vectors CF
  calls,    \* caller |-> the call it is in, or None
  unloaded, \* ids the rebuild has yet to insert
  forgetting, \* has a forget yet to look whether to collect?
  again,    \* history: ids inserted over an earlier node of theirs
  replaced, \* history: those of them whose earlier node was live
  crossed,  \* history: ids that two calls were about at once
  ops

graph == <<nodes, entry, maxLayer, tombstones>>
vars == <<graph, used, records, disk, calls, unloaded, forgetting, again, replaced, crossed, ops>>

Stored(n) == {i \in Ids : n[i] # None}
Living(n) == {i \in Stored(n) : ~n[i].deleted}
MaxNeighbors(l) == IF l = 0 THEN MMax ELSE M
Distance(a, b) == IF a < b THEN b - a ELSE a - b

-----------------------------------------------------------------------------
(* Searching                                                               *)

Links(n, i, l) == IF l \in DOMAIN n[i].links THEN n[i].links[l] ELSE <<>>
Listed(s) == {s[k] : k \in 1 .. Len(s)}
Neighbors(n, i, l) == Listed(Links(n, i, l)) \cap Stored(n)

\* search_layer: with a beam that wide, everything the entry points reach, which
\* is what is in every closed set around them.
Closed(n, S, l) == \A i \in S : Neighbors(n, i, l) \subseteq S
Reached(n, from, l) ==
  {i \in Stored(n) : \A S \in SUBSET Stored(n) :
                       from \cap Stored(n) \subseteq S /\ Closed(n, S, l) => i \in S}

\* Nearer to the point q; ids settle ties (DistEntry::cmp).
Nearer(n, q, i, j) ==
  \/ Distance(q, n[i].at) < Distance(q, n[j].at)
  \/ Distance(q, n[i].at) = Distance(q, n[j].at) /\ i < j

\* One round of greedy_closest: the nearest neighbour, the first of equals, if
\* that is an improvement.
Hop(n, q, i, l) ==
  LET links == Links(n, i, l)
      Gap(k) == Distance(q, n[links[k]].at)
      closer == {k \in DOMAIN links : /\ links[k] \in Stored(n)
                                      /\ Gap(k) < Distance(q, n[i].at)}
      best == CHOOSE k \in closer : \A o \in closer : Gap(k) < Gap(o) \/ (Gap(k) = Gap(o) /\ k <= o)
  IN  IF closer = {} THEN i ELSE links[best]

\* greedy_closest: as every round but the last gets nearer, no walk is longer
\* than there are nodes.
Greedy(n, q, from, l) ==
  LET walk[k \in Nat] == IF k = 0 THEN from ELSE Hop(n, q, walk[k - 1], l)
  IN  walk[MaxIds]

\* The node at which the descent from the entry point leaves layer l + 1.
Descend(n, q, start, top, l) ==
  LET at[k \in Nat] == IF k = 0 THEN start ELSE Greedy(n, q, at[k - 1], top - k + 1)
  IN  IF l < top THEN at[top - l] ELSE start

\* HnswGraph::search, with a k that wants every result.
Search(q) ==
  IF entry = None THEN {}
  ELSE Reached(nodes, {Descend(nodes, q, entry, maxLayer, 0)}, 0) \cap Living(nodes)

-----------------------------------------------------------------------------
(* Inserting                                                               *)

\* The elements of C in a strict order of them.
Arranged(C, Before(_, _)) ==
  CHOOSE s \in [1 .. Cardinality(C) -> C] : \A a, b \in DOMAIN s : a < b => Before(s[a], s[b])
Truncate(s, max) == [k \in 1 .. (IF Len(s) < max THEN Len(s) ELSE max) |-> s[k]]

\* The candidates C from the nearest to the farthest.
Sorted(n, C, q) == Arranged(C, LAMBDA i, j : Nearer(n, q, i, j))

\* select_neighbors_heuristic, first round: of the candidates in their order
\* those that are nearer to q than to any one selected.
Diverse(n, sorted, q, max) ==
  LET Dominated(s, c) == \E k \in 1 .. Len(s) :
                           Distance(n[c].at, n[s[k]].at) < Distance(q, n[c].at)
      pick[k \in Nat] ==
        IF k = 0 THEN <<>>
        ELSE LET s == pick[k - 1]
                 c == sorted[k]
             IN  IF Len(s) < max /\ (~Dominated(s, c) \/ Len(s) < max \div 2)
                 THEN Append(s, c) ELSE s
  IN  pick[Len(sorted)]

\* All of them if they fit, or those and then the nearest of the others.
Select(n, C, q, max) ==
  LET sorted == Sorted(n, C, q)
      chosen == Diverse(n, sorted, q, max)
      others == Sorted(n, C \ Listed(chosen), q)
  IN  IF Len(sorted) <= max THEN sorted
      ELSE chosen \o Truncate(others, max - Len(chosen))

\* prune_neighbors_for: keep the nearest, in a stable order.
Prune(n, j, list, max) ==
  LET Gap(k) == Distance(n[j].at, n[list[k]].at)
      order == Arranged({k \in DOMAIN list : list[k] \in Stored(n)},
                        LAMBDA a, b : Gap(a) < Gap(b) \/ (Gap(a) = Gap(b) /\ a < b))
  IN  IF Len(list) <= max THEN list
      ELSE Truncate([k \in DOMAIN order |-> list[order[k]]], max)

NewNode(layer, links, q) == [layer |-> layer, links |-> links, deleted |-> FALSE, at |-> q]

OneWay(n, i, q, layer, chosen) ==      \* mutant: no link back to the new node
  [n EXCEPT ![i] = NewNode(layer, chosen, q)]
\* The graph after the links of a new node i have been made both ways.
Connect(n, i, q, layer, chosen) ==
  LET placed == [n EXCEPT ![i] = NewNode(layer, chosen, q)]
      Linked(j) == [l \in DOMAIN placed[j].links |->
                      IF l <= layer /\ j \in Listed(chosen[l])
                      THEN Prune(placed, j, Append(placed[j].links[l], i), MaxNeighbors(l))
                      ELSE placed[j].links[l]]
  IN  [j \in Ids |-> IF placed[j] = None THEN None ELSE [placed[j] EXCEPT !.links = Linked(j)]]

\* The candidates for a new node on layer l: the search starts below the layer that
\* was drawn, at most at the top, and what it finds enters the layer below.
Candidates(q, layer, l) ==
  LET top == IF layer < maxLayer THEN layer ELSE maxLayer
      found[k \in Nat] ==
        IF k = 0 THEN Reached(nodes, {Descend(nodes, q, entry, maxLayer, layer)}, top)
        ELSE Reached(nodes, found[k - 1], top - k)
  IN  IF l > top THEN {} ELSE found[top - l]

\* HnswGraph::insert of id i at point q with the layer that was drawn.
Insert(i, q, layer) ==
  LET chosen == [l \in 0 .. layer |-> Select(nodes, Candidates(q, layer, l), q, MaxNeighbors(l))]
  IN  IF entry = None
      THEN /\ nodes' = [nodes EXCEPT ![i] = NewNode(layer, [l \in 0 .. layer |-> <<>>], q)]
           /\ entry' = i /\ maxLayer' = layer
      ELSE /\ nodes' = Connect(nodes, i, q, layer, chosen)
           /\ entry' = IF layer > maxLayer THEN i ELSE entry
           /\ maxLayer' = IF layer > maxLayer THEN layer ELSE maxLayer

-----------------------------------------------------------------------------
(* Deleting                                                                *)

NewEntryPointAny(n) ==                 \* mutant: tombstones are not skipped
  IF Stored(n) = {} THEN entry' = None /\ maxLayer' = 0
  ELSE \E i \in Stored(n) :
         /\ \A j \in Stored(n) : n[j].layer <= n[i].layer
         /\ entry' = i /\ maxLayer' = n[i].layer
\* find_new_entry_point: any live node of the highest layer, in map order.
NewEntryPoint(n) ==
  IF Living(n) = {} THEN entry' = None /\ maxLayer' = 0
  ELSE \E i \in Living(n) :
         /\ \A j \in Living(n) : n[j].layer <= n[i].layer
         /\ entry' = i /\ maxLayer' = n[i].layer

Tombstoned(i) == [nodes EXCEPT ![i].deleted = TRUE]
MarkOthers(i) ==                       \* mutant: an entry point is replaced, not flagged
  IF i \in Living(nodes)
  THEN IF entry = i THEN NewEntryPoint(Tombstoned(i)) /\ UNCHANGED <<nodes, tombstones>>
       ELSE /\ nodes' = Tombstoned(i) /\ tombstones' = tombstones + 1
            /\ UNCHANGED <<entry, maxLayer>>
  ELSE UNCHANGED <<nodes, entry, maxLayer, tombstones>>
\* mark_deleted.
MarkDeleted(i) ==
  IF i \in Living(nodes)
  THEN /\ nodes' = Tombstoned(i) /\ tombstones' = tombstones + 1
       /\ IF entry = i THEN NewEntryPoint(Tombstoned(i)) ELSE UNCHANGED <<entry, maxLayer>>
  ELSE UNCHANGED <<nodes, entry, maxLayer, tombstones>>

\* Vec::retain: the entries of a list that are in S.
Retain(list, S) ==
  LET order == Arranged({k \in DOMAIN list : list[k] \in S}, LAMBDA a, b : a < b)
  IN  [k \in DOMAIN order |-> list[order[k]]]

\* cleanup_tombstones: remove the nodes and every link to them.
Without(n, gone) ==
  [i \in Ids |->
     IF n[i] = None \/ i \in gone THEN None
     ELSE [n[i] EXCEPT !.links =
             [l \in DOMAIN n[i].links |-> Retain(n[i].links[l], Ids \ gone)]]]

\* needs_cleanup(0.1).
NeedsCleanup(n, count) == Stored(n) # {} /\ count * 10 > Cardinality(Stored(n))

-----------------------------------------------------------------------------
(* The engine's use of the graph                                           *)

\* The ids that calls are about.
Busy == {calls[c].id : c \in {c \in Callers : calls[c] # None}}

Free(c) == calls[c] = None /\ unloaded = {} /\ ops < MaxOps
Started == ops' = ops + 1
Goto(c, call) == calls' = [calls EXCEPT ![c] = call]
At(c, step) == calls[c] # None /\ calls[c].step = step

\* remember, until its batch is on disk.
Remember(c, q) ==
  /\ Free(c) /\ used < MaxIds
  /\ LET i == used + 1
     IN  /\ used' = i /\ records' = records \cup {i} /\ disk' = [disk EXCEPT ![i] = q]
         /\ Goto(c, [id |-> i, at |-> q, step |-> "insert", forget |-> FALSE])
  /\ Started /\ UNCHANGED <<graph, unloaded, forgetting, again, replaced, crossed>>

\* revise, delete and forget read the record first.
Read(c, i, forget) ==
  /\ Free(c) /\ i \in records
  /\ Goto(c, [id |-> i, at |-> None, step |-> "batch", forget |-> forget])
  /\ crossed' = IF i \in Busy THEN crossed \cup {i} ELSE crossed
  /\ Started /\ UNCHANGED <<graph, used, records, disk, unloaded, forgetting, again, replaced>>

\* revise's batch.
Revise(c, q) ==
  /\ At(c, "batch") /\ ~calls[c].forget
  /\ records' = records \cup {calls[c].id} /\ disk' = [disk EXCEPT ![calls[c].id] = q]
  /\ Goto(c, [calls[c] EXCEPT !.at = q, !.step = "unlink"])
  /\ UNCHANGED <<graph, used, unloaded, forgetting, again, replaced, crossed, ops>>

\* The batch of a delete, or of one id of a forget.
Delete(c) ==
  /\ At(c, "batch")
  /\ records' = records \ {calls[c].id} /\ disk' = [disk EXCEPT ![calls[c].id] = None]
  /\ Goto(c, [calls[c] EXCEPT !.step = "unlink"])
  /\ UNCHANGED <<graph, used, unloaded, forgetting, again, replaced, crossed, ops>>

\* commit_delete; a revision goes on.
Unlink(c) ==
  /\ At(c, "unlink") /\ MarkDeleted(calls[c].id)
  /\ Goto(c, IF calls[c].at = None THEN None ELSE [calls[c] EXCEPT !.step = "insert"])
  /\ forgetting' = (forgetting \/ calls[c].forget)
  /\ UNCHANGED <<used, records, disk, unloaded, again, replaced, crossed, ops>>

\* The history of an insertion of i.
Recorded(i) ==
  /\ again' = IF i \in Stored(nodes) THEN again \cup {i} ELSE again
  /\ replaced' = IF i \in Living(nodes) THEN replaced \cup {i} ELSE replaced

\* commit_insert, under the lock of the graph.
Commit(c) ==
  /\ At(c, "insert") /\ \E layer \in Layers : Insert(calls[c].id, calls[c].at, layer)
  /\ Recorded(calls[c].id) /\ Goto(c, [calls[c] EXCEPT !.step = "put"])
  /\ UNCHANGED <<tombstones, used, records, disk, unloaded, forgetting, crossed, ops>>

\* Its end, without the lock: the node is put in Vectors again.
Persist(c) ==
  /\ At(c, "put") /\ disk' = [disk EXCEPT ![calls[c].id] = calls[c].at] /\ Goto(c, None)
  /\ UNCHANGED <<graph, used, records, unloaded, forgetting, again, replaced, crossed, ops>>

Cleanup(gone) ==
  /\ nodes' = Without(nodes, gone)
  /\ tombstones' = IF tombstones > Cardinality(gone) THEN tombstones - Cardinality(gone) ELSE 0
  /\ IF entry \in gone THEN NewEntryPoint(Without(nodes, gone)) ELSE UNCHANGED <<entry, maxLayer>>

\* The end of a forget.
Collect ==
  /\ forgetting /\ forgetting' = FALSE
  /\ IF NeedsCleanup(nodes, tombstones) THEN Cleanup(Stored(nodes) \ Living(nodes))
     ELSE UNCHANGED graph
  /\ UNCHANGED <<used, records, disk, calls, unloaded, again, replaced, crossed, ops>>

\* A crash takes the graph and the calls.
Restart ==
  /\ ops < MaxOps /\ Started
  /\ nodes' = [i \in Ids |-> None] /\ entry' = None /\ maxLayer' = 0 /\ tombstones' = 0
  /\ unloaded' = {i \in Ids : disk[i] # None} /\ calls' = [c \in Callers |-> None]
  /\ forgetting' = FALSE /\ again' = {} /\ replaced' = {} /\ crossed' = {}
  /\ UNCHANGED <<used, records, disk>>

\* One step of rebuild_hnsw, which goes by key order.
Load(i) ==
  /\ i \in unloaded /\ \A j \in unloaded : i <= j
  /\ \E layer \in Layers : Insert(i, disk[i], layer)
  /\ Recorded(i) /\ unloaded' = unloaded \ {i}
  /\ UNCHANGED <<tombstones, used, records, disk, calls, forgetting, crossed, ops>>

Init ==
  /\ nodes = [i \in Ids |-> None] /\ entry = None /\ maxLayer = 0 /\ tombstones = 0
  /\ used = 0 /\ records = {} /\ disk = [i \in Ids |-> None] /\ calls = [c \in Callers |-> None]
  /\ unloaded = {} /\ forgetting = FALSE
  /\ again = {} /\ replaced = {} /\ crossed = {} /\ ops = 0

Next ==
  \/ \E c \in Callers : \/ \E q \in Points : Remember(c, q) \/ Revise(c, q)
                        \/ \E i \in Ids, forget \in BOOLEAN : Read(c, i, forget)
                        \/ Delete(c) \/ Unlink(c) \/ Commit(c) \/ Persist(c)
  \/ Collect \/ Restart \/ \E i \in Ids : Load(i)

Spec == Init /\ [][Next]_vars

-----------------------------------------------------------------------------
(* Properties                                                              *)

\* Every variable keeps its type; a node has a list of links for each of its
\* layers, and no list outgrows the bound of its layer.
TypeOK ==
  /\ DOMAIN nodes = Ids
  /\ \A i \in Stored(nodes) :
       /\ \E l \in Layers : nodes[i] \in NodeOf(l)
       /\ \A l \in 0 .. nodes[i].layer : Len(nodes[i].links[l]) <= MaxNeighbors(l)
  /\ entry \in Ids \cup {None} /\ maxLayer \in Nat /\ tombstones \in Nat
  /\ used \in 0 .. MaxIds /\ records \subseteq Ids /\ disk \in [Ids -> Points \cup {None}]
  /\ calls \in [Callers -> Call \cup {None}] /\ unloaded \subseteq Ids /\ forgetting \in BOOLEAN
  /\ again \subseteq Ids /\ replaced \subseteq Ids /\ crossed \subseteq Ids /\ ops \in 0 .. MaxOps

\* Searches start at a live node as long as there is one, through every deletion,
\* revision and collection, and no live node is above the layer at which they
\* start.  That is the layer of the entry point, unless overlapping calls put
\* another node in its place while it was live.
EntryPointLive ==
  IF Living(nodes) = {} THEN entry = None
  ELSE /\ entry \in Living(nodes) /\ \A i \in Living(nodes) : nodes[i].layer <= maxLayer
       /\ entry \in replaced \/ nodes[entry].layer = maxLayer

\* No link leads to a node that was removed.
NoDanglingLinks ==
  \A i \in Stored(nodes) : \A l \in DOMAIN nodes[i].links :
    Listed(nodes[i].links[l]) \subseteq Stored(nodes)

\* The counter never misses a tombstone, and it is exact while no id was
\* inserted over its own tombstone.
TombstonesCounted ==
  LET dead == Cardinality(Stored(nodes) \ Living(nodes))
  IN  tombstones >= dead /\ (again = {} => tombstones = dead)

\* Every search of the graph can start, and follows links to nodes that exist; a
\* graph with tombstones to collect is known to have them.
GraphSound == EntryPointLive /\ NoDanglingLinks /\ TombstonesCounted

\* Once the graph is loaded, an id that no call is about, and that no two calls
\* were about at once, has a live node exactly if it has a vector on disk, and at
\* that vector: whatever calls about other ids, collections and crashes did.
GraphFollowsDisk ==
  unloaded = {} =>
    \A i \in Ids \ (Busy \cup crossed) :
      /\ i \in Living(nodes) <=> disk[i] # None
      /\ i \in Living(nodes) => nodes[i].at = disk[i]

\* While the graph holds no more nodes than a list of layer 0 has room for and
\* no id was inserted over an earlier node of its own, a search finds every live
\* node, from any query: through deletions, collections and rebuilds.
UnrevisedFound ==
  (again = {} /\ MaxIds <= MMax + 1) => \A q \in Points : Search(q) = Living(nodes)
=============================================================================
