------------------------------ MODULE MCReads ------------------------------
(* Small instances of Reads and of the two graph algorithms of Walks.  A   *)
(* behavior is about one of the three.                                     *)
EXTENDS Reads, Walks
CONSTANTS default, acme, joe, x, y

VARIABLE part  \* "reads", "walk" or "cluster"

MCNear == [t \in Texts |-> IF t = x THEN 2 ELSE 1]
MCMenus == {<<"similarity", "temporal">>, <<"causal">>, <<"analogical">>}
TemporalMenu == {<<"temporal">>}
Draft(t, e, text) == [tenant |-> t, entity |-> e, text |-> text]
MCDrafts == {Draft(default, joe, x), Draft(default, None, y), Draft(acme, joe, x)}

----------------------------------------------------------------------------
\* Chains, a fork, a cycle and a shortcut over edges of two types.
MCNodes == 1 .. 4
MCTypes == <<"rel", "next">>
Edge(a, type, b) == [from |-> a, type |-> type, to |-> b]
WalkEdges ==
  SUBSET {Edge(1, "rel", 2), Edge(2, "rel", 3), Edge(2, "next", 4), Edge(3, "next", 4),
          Edge(1, "next", 3), Edge(4, "rel", 1)}

\* Four members on a line with gaps 1, 1 and 3, each listing at most
\* two others (those at the ends one), nearest first.
At(i) == IF i = 3 THEN 5 ELSE i
Length(i, j) == IF At(i) < At(j) THEN At(j) - At(i) ELSE At(i) - At(j)
Listing(i, S) ==
  LET near == SetToSortSeq(S, LAMBDA a, b : \/ Length(i, a) < Length(i, b)
                                            \/ Length(i, a) = Length(i, b) /\ a < b)
  IN [k \in DOMAIN near |-> [to |-> near[k], d |-> Length(i, near[k])]]
Listings(i) ==
  {Listing(i, S) :
     S \in {S \in SUBSET ((0 .. 3) \ {i}) : Cardinality(S) <= IF i \in {0, 3} THEN 1 ELSE 2}}
Neighborhoods ==
  {f \in [0 .. 3 -> UNION {Listings(i) : i \in 0 .. 3}] : \A i \in 0 .. 3 : f[i] \in Listings(i)}

\* The parts that do not act have one initial state.
MCInit ==
  /\ part \in {"reads", "walk", "cluster"}
  /\ edges \in IF part = "walk" THEN WalkEdges ELSE {{}}
  /\ snapshot \in IF part = "cluster" THEN Neighborhoods ELSE {[i \in 0 .. 3 |-> <<>>]}
  /\ Init /\ WalkInit /\ ClusterInit

MCNext ==
  /\ UNCHANGED part
  /\ \/ part = "reads" /\ Next /\ UNCHANGED <<walkVars, clusterVars>>
     \/ part = "walk" /\ WalkNext /\ UNCHANGED <<vars, clusterVars>>
     \/ part = "cluster" /\ ClusterNext /\ UNCHANGED <<vars, walkVars>>

MCSpec == MCInit /\ [][MCNext]_<<part, vars, walkVars, clusterVars>>
============================================================================
