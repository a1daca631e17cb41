------------------------- MODULE MCEngineConcurrent -------------------------
(* Two threads of one engine.                                              *)
EXTENDS Engine, TLC

CONSTANTS writer, keeper

\* A client that writes and recalls beside a thread that deletes, forgets, sweeps and
\* collects, at every interleaving of their steps, with a crash or a failing write.
MCMenu ==
  (writer :> {"remember", "revise", "recall", "insight", "add_edge"}) @@
  (keeper :> {"revise", "delete", "forget_entity", "forget_scan", "sweep",
              "auto_forget", "gc"})

\* A store while the entity it belongs to is forgotten.
StoreAndForget == (writer :> {"remember"}) @@ (keeper :> {"forget_entity"})

\* One caller: revisions, reflections, forgetting, the decay sweep and the
\* auto-forget that follows it.
OneByOne == (writer :> {"insight", "forget", "revise", "sweep", "auto_forget"}) @@ (keeper :> {})
=============================================================================
