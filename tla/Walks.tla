------------------------------- MODULE Walks -------------------------------
(***************************************************************************)
(* Two graph algorithms of hebbs-index, step by step.                      *)
(*                                                                         *)
(* GraphIndex::traverse walks the edges in the Graph column family breadth *)
(* first from a seed, with one storage scan per memory and edge type and   *)
(* no snapshot: edges come and go between the scans.                       *)
(*                                                                         *)
(* cluster_union_find groups the nodes of a neighborhood snapshot: links   *)
(* longer than a percentile of all lengths are cut, what is still          *)
(* connected is a cluster, and small clusters are noise.                   *)
(***************************************************************************)
EXTENDS Integers, FiniteSets, Sequences

CONSTANTS
  Nodes,             \* memories of the edge graph: 1 .. n
  Types,             \* edge types asked for, in order
  MaxDepth, MaxResults,
  MaxChanges,        \* edges added or removed during a walk
  FirstEdges,        \* the sets of edges a walk may start from
  Snapshots,         \* neighbor lists: functions from 0 .. n-1 to sequences
                     \* of [to, d]
  Percent,           \* cluster_threshold, in hundredths
  MinClusterSize

Seed == 1
IsEdge(x) == x = [from |-> x.from, type |-> x.type, to |-> x.to] /\ {x.from, x.to} \subseteq Nodes

ASSUME WalkConstants ==
  /\ Nodes \subseteq Nat /\ IsFiniteSet(Nodes) /\ Seed \in Nodes
  /\ Types \in Seq(STRING) /\ MaxDepth \in Nat /\ MaxResults \in Nat
  /\ \A E \in FirstEdges : \A x \in E : IsEdge(x)
ASSUME ClusterConstants ==
  /\ MinClusterSize \in Nat /\ Percent \in 0 .. 100
  /\ \A s \in Snapshots :
       LET n == Cardinality(DOMAIN s)
       IN n \in Nat /\ s \in [0 .. n - 1 -> Seq([to : 0 .. n - 1, d : Int])]

VARIABLES
  edges,     \* Graph column family, forward keys: [from, type, to]
  queue, visited, results, truncated,  \* the locals of traverse
  scan,      \* the memory being expanded: [id, depth, types left], or NoScan
  ever, lasting,  \* history: edges there at some moment of the walk, at each
  changes,   \* edges changed so far, against MaxChanges
  snapshot,  \* neighbors, the argument of cluster_union_find
  pairs,     \* its links [from, to, d], list after list
  threshold, \* the longest that is not cut
  parent, rank,  \* its union-find
  looked,    \* links looked at
  labels     \* its result, <<>> until it is there

walkVars == <<edges, queue, visited, results, truncated, scan, ever, lasting, changes>>
clusterVars == <<snapshot, pairs, threshold, parent, rank, looked, labels>>

Visit(n, depth) == [id |-> n, depth |-> depth]
NoScan == [id |-> Seed, depth |-> 0, types |-> <<>>]

----------------------------------------------------------------------------
(* traverse *)

WalkInit ==
  /\ edges \in FirstEdges
  /\ queue = <<Visit(Seed, 0)>> /\ visited = {Seed} /\ results = <<>>
  /\ truncated = FALSE /\ scan = NoScan
  /\ ever = edges /\ lasting = edges /\ changes = 0

\* Memories at the depth limit are not expanded.
Pop ==
  /\ queue # <<>> /\ scan.types = <<>> /\ ~truncated
  /\ LET next == Head(queue)
     IN scan' = IF next.depth >= MaxDepth THEN NoScan
                ELSE [id |-> next.id, depth |-> next.depth, types |-> Types]
  /\ queue' = Tail(queue)
  /\ UNCHANGED <<edges, visited, results, truncated, ever, lasting, changes>>

\* The ids of S as the storage gives them, in key order.
InOrder(S) ==
  CHOOSE s \in [1 .. Cardinality(S) -> S] : \A a, b \in DOMAIN s : a < b => s[a] < s[b]
Targets(n, type) == {x.to : x \in {x \in edges : x.from = n /\ x.type = type}}
\* Mutant: a memory counts as visited once it has been expanded.
ExpandLate ==
  /\ scan.types # <<>> /\ ~truncated
  /\ LET new == InOrder(Targets(scan.id, Head(scan.types)) \ visited)
         room == MaxResults - Len(results)
         found == [k \in 1 .. (IF Len(new) <= room THEN Len(new) ELSE room)
                     |-> Visit(new[k], scan.depth + 1)]
     IN /\ visited' = visited \cup {scan.id}
        /\ results' = results \o found
        /\ queue' = queue \o found
        /\ truncated' = (Len(new) > room)
  /\ scan' = [scan EXCEPT !.types = Tail(@)]
  /\ UNCHANGED <<edges, ever, lasting, changes>>

\* One prefix scan: the new targets, in key order, until the results are full.
Expand ==
  /\ scan.types # <<>> /\ ~truncated
  /\ LET targets == Targets(scan.id, Head(scan.types))
         new == InOrder(targets \ visited)
         room == MaxResults - Len(results)
         found == [k \in 1 .. (IF Len(new) <= room THEN Len(new) ELSE room)
                     |-> Visit(new[k], scan.depth + 1)]
     IN /\ visited' = visited \cup targets
        /\ results' = results \o found
        /\ queue' = queue \o found
        /\ truncated' = (Len(new) > room)
  /\ scan' = [scan EXCEPT !.types = Tail(@)]
  /\ UNCHANGED <<edges, ever, lasting, changes>>

WalkDone == truncated \/ (queue = <<>> /\ scan.types = <<>>)

\* Another thread commits an edge, or deletes one.
Change(x) ==
  /\ ~WalkDone /\ changes < MaxChanges
  /\ edges' = IF x \in edges THEN edges \ {x} ELSE edges \cup {x}
  /\ ever' = ever \cup edges' /\ lasting' = lasting \cap edges'
  /\ changes' = changes + 1
  /\ UNCHANGED <<queue, visited, results, truncated, scan>>

Asked == {Types[k] : k \in DOMAIN Types}

WalkNext ==
  \/ Pop \/ Expand
  \/ \E a, b \in Nodes, type \in Asked : Change([from |-> a, type |-> type, to |-> b])

WalkSpec == WalkInit /\ [][WalkNext]_walkVars

\* The reference: memories a number of hops away at most.
Ball(E) ==
  LET within[k \in Nat] ==
        IF k = 0 THEN {Seed}
        ELSE within[k - 1] \cup {x.to : x \in {x \in E : x.from \in within[k - 1] /\ x.type \in Asked}}
  IN within

\* A walk that ends has found each memory once and never the seed; every
\* result is as many hops away as it says through edges that were there
\* while it went on; no memory is missing that edges present all along lead
\* to within the depth, at a distance no greater than those edges give; and
\* a cut-off walk is full.
WalkExact ==
  WalkDone =>
    LET ids == {results[k].id : k \in DOMAIN results}
    IN /\ Cardinality(ids) = Len(results) /\ Seed \notin ids
       /\ \A k \in DOMAIN results :
            results[k].depth <= MaxDepth /\ results[k].id \in Ball(ever)[results[k].depth]
       /\ IF truncated THEN Len(results) = MaxResults
          ELSE \A d \in 0 .. MaxDepth : \A n \in Ball(lasting)[d] \ {Seed} :
                 \E k \in DOMAIN results : results[k].id = n /\ results[k].depth <= d

----------------------------------------------------------------------------
(* cluster_union_find *)

Members == DOMAIN snapshot
Size == Cardinality(Members)
\* The links in the order of the lists, one list after the other.
AllLinks ==
  LET of(i) == [m \in DOMAIN snapshot[i] |->
                  [from |-> i, to |-> snapshot[i][m].to, d |-> snapshot[i][m].d]]
      upto[k \in 0 .. Size] == IF k = 0 THEN <<>> ELSE upto[k - 1] \o of(k - 1)
  IN upto[Size]

\* The length at the given percentile of the sorted lengths.
Percentile ==
  LET all == AllLinks
      lengths == {all[k].d : k \in DOMAIN all}
      shorter(d) == Cardinality({k \in DOMAIN all : all[k].d < d})
      index == (Len(all) * Percent) \div 100
      at == IF index < Len(all) THEN index ELSE Len(all) - 1
  IN CHOOSE d \in lengths : shorter(d) <= at /\ \A e \in lengths : e > d => at < shorter(e)

ClusterInit ==
  /\ snapshot \in Snapshots
  /\ pairs = AllLinks /\ threshold = IF AllLinks = <<>> THEN 0 ELSE Percentile
  /\ parent = [i \in Members |-> i] /\ rank = [i \in Members |-> 0]
  /\ looked = 0 /\ labels = <<>>

\* uf_find: the members on the way to the root, the root, and the parents after the
\* way is compressed.
Way(p, i) ==
  LET way[k \in Nat] == IF k = 0 THEN i ELSE p[way[k - 1]]
  IN way
Root(p, i) == Way(p, i)[Cardinality(DOMAIN p)]
Compress(p, i) ==
  LET way == {Way(p, i)[k] : k \in 0 .. Cardinality(DOMAIN p)}
      root == Root(p, i)
  IN [j \in DOMAIN p |-> IF j \in way THEN root ELSE p[j]]

\* The next link, unless it is too long.
Short(k) == pairs[k].d <= threshold
Look == looked < Len(pairs) /\ looked' = looked + 1 /\ UNCHANGED <<snapshot, pairs, threshold, labels>>
Skip == Look /\ ~Short(looked + 1) /\ UNCHANGED <<parent, rank>>

\* Mutant: joins the members themselves, not their roots.
UnionOfMembers ==
  /\ Look /\ Short(looked + 1)
  /\ LET link == pairs[looked + 1]
     IN parent' = [parent EXCEPT ![link.to] = link.from]
  /\ UNCHANGED rank

\* uf_union of its ends.
Union ==
  /\ Look /\ Short(looked + 1)
  /\ LET a == pairs[looked + 1].from  b == pairs[looked + 1].to
         p == Compress(Compress(parent, a), b)
         ra == Root(parent, a)  rb == Root(parent, b)
     IN IF ra = rb THEN parent' = p /\ rank' = rank
        ELSE IF rank[ra] < rank[rb]
        THEN parent' = [p EXCEPT ![ra] = rb] /\ rank' = rank
        ELSE /\ parent' = [p EXCEPT ![rb] = ra]
             /\ rank' = IF rank[ra] = rank[rb] THEN [rank EXCEPT ![ra] = @ + 1] ELSE rank

\* Roots are numbered as they are met; small clusters become -1 and the rest
\* are numbered again.  Without links all are noise.
Label ==
  /\ looked = Len(pairs) /\ labels = <<>>
  /\ LET root(i) == Root(parent, i)
         members(r) == {i \in Members : root(i) = r}
         kept == {r \in {root(i) : i \in Members} :
                    pairs # <<>> /\ Cardinality(members(r)) >= MinClusterSize}
         first(r) == CHOOSE i \in members(r) : \A j \in members(r) : i <= j
         number(r) == Cardinality({q \in kept : first(q) < first(r)})
     IN labels' = [i \in Members |-> IF root(i) \in kept THEN number(root(i)) ELSE -1]
  /\ UNCHANGED <<snapshot, pairs, threshold, parent, rank, looked>>

ClusterNext == Skip \/ Union \/ Label

ClusterSpec == ClusterInit /\ [][ClusterNext]_clusterVars

\* The reference: what every set contains that has i and no short link leaves.
Component(i) ==
  LET uncut(S) == \A k \in DOMAIN pairs : Short(k) => (pairs[k].from \in S <=> pairs[k].to \in S)
  IN {j \in Members : \A S \in SUBSET Members : i \in S /\ uncut(S) => j \in S}

\* Two members have one label exactly when short links connect them, those of
\* small components have -1, and the labels in use are 0, 1, 2, ... in order
\* of appearance.
ClustersExact ==
  labels # <<>> =>
    /\ \A i \in Members : labels[i] = -1 <=> pairs = <<>> \/ Cardinality(Component(i)) < MinClusterSize
    /\ \A i, j \in Members : labels[i] # -1 => (labels[i] = labels[j] <=> j \in Component(i))
    /\ \A i \in Members : labels[i] > 0 => \E j \in Members : j < i /\ labels[j] = labels[i] - 1
============================================================================
