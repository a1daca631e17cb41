-------------------------- MODULE MCConsolidation --------------------------
(* Reflection, contradiction detection and the graph of vectors share no    *)
(* variable; each initial state chooses the part that acts, so that one run *)
(* covers the three.                                                        *)
EXTENDS Reflection, Contradiction, Hnsw, TLC

CONSTANTS m1, m2, e1, e2, t1, t2
VARIABLE part

MCEntity == m1 :> e1 @@ m2 :> e2
MCTenant == [m \in Episodes |-> t1]
MCNone == <<>>
MCOtherTenant == [m \in Episodes |-> t2]

\* Memories whose lists of layer 0 have room for all of them.
MCPoints == {0, 1}

\* Calls are alike, and so are the ids of pending records.
MCSymmetry == Permutations(Calls) \cup Permutations(PendingIds)

MCInit == part \in {"reflection", "contradiction", "graph"} /\ ReflectInit /\ ReviewInit /\ Init

MCNext ==
  /\ UNCHANGED part
  /\ \/ part = "reflection" /\ ReflectNext /\ UNCHANGED <<reviewVars, vars>>
     \/ part = "contradiction" /\ ReviewNext /\ UNCHANGED <<reflectVars, vars>>
     \/ part = "graph" /\ Next /\ UNCHANGED <<reflectVars, reviewVars>>

MCSpec == MCInit /\ [][MCNext]_<<part, reflectVars, reviewVars, vars>>
============================================================================
