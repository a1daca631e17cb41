---------------------------- MODULE MCSubscribe ----------------------------
(* One subscription: memories are written while texts are fed, signals are *)
(* sent and pushes are received; the queues are short.                    *)
EXTENDS Subscribe, TLC

CONSTANTS s1, m1, m2, m3, t1, t2

MCTopic == (m1 :> t1) @@ (m2 :> t2)
MCRank == (m1 :> 1) @@ (m2 :> 2)
MCChunks == {[tokens |-> 1, topics |-> {t1}], [tokens |-> 2, topics |-> {t1, t2}]}
\* Three memories of which a scan reads the first two, and no text: the filter
\* is all that changes.
FilterTopic == (m1 :> t1) @@ (m2 :> t1) @@ (m3 :> t2)
FilterRank == (m1 :> 1) @@ (m2 :> 2) @@ (m3 :> 3)

\* Bound: a behaviour in which the engine shuts down has one text or signal.
ShutdownBound == drain.on = "idle" \/ used.feeds + used.signals <= 1
=============================================================================
