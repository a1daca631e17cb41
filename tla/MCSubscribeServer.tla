------------------------- MODULE MCSubscribeServer -------------------------
(* Streams of the service: opening, feeding, closing, leaving, writing and *)
(* shutting the engine down interleave.                                    *)
EXTENDS SubscribeServer, TLC

CONSTANTS s1, s2, m1, t1

MCTopic == m1 :> t1
MCRank == m1 :> 1
Symmetry == Permutations({s1, s2})
MCChunks == {[tokens |-> 2, topics |-> {t1}]}
=============================================================================
