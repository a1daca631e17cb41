------------------------------ MODULE Handlers ------------------------------
(***************************************************************************)
(* The handlers of hebbs-server, one definition each, by what they ask     *)
(* before they call the engine and what they call: gRPC services and REST  *)
(* routes.  Every handler makes its engine calls in one blocking task; an  *)
(* error of one ends the task.  What is left out is the conversion of      *)
(* arguments and answers, and the metrics.                                 *)
(***************************************************************************)

\* Stands for a permission, a limit or a tenant that a handler never asks for.
Nothing == "nothing"

\* A handler: whether the interceptor or the middleware wants a key for it,
\* the permission it asks of the key, the name it is counted under by the rate
\* limiter, the tenant it acts for - the one the request names as far as the
\* key lets it, the key's, or the default one -, whether it refuses arguments
\* by itself, and its engine calls.
Grpc(perm, limit, calls) ==
  [key |-> TRUE, perm |-> perm, limit |-> limit, tenant |-> "named", checks |-> TRUE, calls |-> calls]
Rest(limit, checks, calls) ==
  [key |-> TRUE, perm |-> Nothing, limit |-> limit, tenant |-> "key", checks |-> checks, calls |-> calls]
Open(calls) ==
  [key |-> FALSE, perm |-> Nothing, limit |-> Nothing, tenant |-> "default", checks |-> FALSE, calls |-> calls]

\* resolve_lineage_batch: the sources of every insight in an answer, read after
\* the task; errors leave them out.
Lineage == "lineage"
CountOrZero == "count_or_zero"
\* Closing a stream that is not there is no error.
CloseStream == "close"
Quiet == {Lineage, CountOrZero, CloseStream}

-----------------------------------------------------------------------------
(* gRPC: permission, limit, tenant, arguments, task *)

GrpcRemember == Grpc("write", "remember", <<"remember">>)
GrpcGet == Grpc("read", "get", <<"get">>)
GrpcRecall == Grpc("read", "recall", <<"recall", Lineage>>)
GrpcPrime == Grpc("read", "prime", <<"prime", Lineage>>)
GrpcRevise == Grpc("write", "revise", <<"revise">>)
GrpcForget == Grpc("write", "forget", <<"forget">>)
\* A stub: no limit is asked and nothing is called.
GrpcSetPolicy == [Grpc("admin", Nothing, <<>>) EXCEPT !.checks = FALSE]
GrpcReflect == Grpc("admin", "reflect", <<"reflect">>)
GrpcGetInsights == Grpc("read", "insights", <<"insights", Lineage>>)
GrpcReflectPrepare == Grpc("admin", "reflect", <<"reflect_prepare">>)
GrpcReflectCommit == Grpc("admin", "reflect", <<"reflect_commit">>)
GrpcContradictionPrepare == Grpc("read", "contradiction", <<"contradiction_prepare">>)
GrpcContradictionCommit == Grpc("write", "contradiction", <<"contradiction_commit">>)
\* The steps of a stream are SubscribeServer's.
GrpcSubscribe == Grpc("read", "subscribe", <<"subscribe">>)
GrpcFeed == [Grpc("read", "feed", <<"feed">>) EXCEPT !.checks = FALSE]
GrpcClose == [Grpc("read", Nothing, <<CloseStream>>) EXCEPT !.checks = FALSE]
\* The health service has no interceptor; a count that fails is 0.
GrpcHealth == Open(<<CountOrZero>>)

(* REST: the middleware counts a request by its method and path, the body or  *)
(* path is refused by the extractors or the handler.                          *)

RestRemember == Rest("remember", TRUE, <<"remember">>)
RestGet == Rest("get", TRUE, <<"get">>)
RestRecall == Rest("recall", TRUE, <<"recall", Lineage>>)
RestPrime == Rest("prime", TRUE, <<"prime", Lineage>>)
RestRevise == Rest("revise", TRUE, <<"revise">>)
\* Ids that do not parse are left out, never refused.
RestForget == Rest("forget", TRUE, <<"forget">>)
RestInsights == Rest("insights", TRUE, <<"insights", Lineage>>)
RestReflectPrepare == Rest("reflect", TRUE, <<"reflect_prepare">>)
\* The tenant of the key is not passed on.
RestReflectCommit == [Rest("reflect", TRUE, <<"reflect_commit">>) EXCEPT !.tenant = "default"]
RestContradictionPrepare == Rest("get", FALSE, <<"contradiction_prepare">>)
RestContradictionCommit == Rest("get", TRUE, <<"contradiction_commit">>)
RestListMemories == Rest("get", TRUE, <<"list_memories">>)
RestEdges == Rest("get", TRUE, <<"outgoing_edges", "incoming_edges">>)
\* A traversal, its memories, and the edges of each of them.
RestGraph == Rest("get", TRUE, <<"traverse_graph", "batch_get", "outgoing_edges">>)
RestEntities == Rest("get", FALSE, <<"list_entities">>)
\* At most 500 ids; a POST under /v1/memories, it is counted as a write.
RestBatchGet == Rest("remember", TRUE, <<"batch_get">>)
\* Streams are counted as reads.
RestSubscribe == Rest("get", TRUE, <<"subscribe">>)
RestFeed == Rest("get", TRUE, <<"feed">>)
RestClose == Rest("get", TRUE, <<CloseStream>>)
RestReady == Open(<<"count">>)
\* Metrics want a key and are not counted.
RestMetrics == [Open(<<>>) EXCEPT !.key = TRUE]

GrpcHandlers ==
  [remember |-> GrpcRemember, get |-> GrpcGet, recall |-> GrpcRecall, prime |-> GrpcPrime,
   revise |-> GrpcRevise, forget |-> GrpcForget, set_policy |-> GrpcSetPolicy,
   reflect |-> GrpcReflect, insights |-> GrpcGetInsights,
   reflect_prepare |-> GrpcReflectPrepare, reflect_commit |-> GrpcReflectCommit,
   contradiction_prepare |-> GrpcContradictionPrepare,
   contradiction_commit |-> GrpcContradictionCommit, subscribe |-> GrpcSubscribe,
   feed |-> GrpcFeed, close |-> GrpcClose, health |-> GrpcHealth]
RestRoutes ==
  [remember |-> RestRemember, get |-> RestGet, recall |-> RestRecall, prime |-> RestPrime,
   revise |-> RestRevise, forget |-> RestForget, insights |-> RestInsights,
   reflect_prepare |-> RestReflectPrepare, reflect_commit |-> RestReflectCommit,
   contradiction_prepare |-> RestContradictionPrepare,
   contradiction_commit |-> RestContradictionCommit,
   list_memories |-> RestListMemories, edges |-> RestEdges, graph |-> RestGraph,
   entities |-> RestEntities, batch_get |-> RestBatchGet,
   subscribe |-> RestSubscribe, feed |-> RestFeed, close |-> RestClose,
   ready |-> RestReady, metrics |-> RestMetrics]
Handler(via, op) == IF via = "grpc" THEN GrpcHandlers[op] ELSE RestRoutes[op]

-----------------------------------------------------------------------------
(* OperationClass::from_operation; any other name counts as a read. *)
OperationClass(name) ==
  CASE name \in {"remember", "revise", "forget"} -> "write"
    [] name \in {"reflect", "reflect_policy", "set_policy", "key_create", "key_revoke", "key_list"} -> "admin"
    [] OTHER -> "read"

\* hebbs_error_to_status and its HTTP counterpart, by what a client does next:
\* what the engine could not store or reach may be tried again.
StatusOf(error) ==
  CASE error \in {"storage", "reflect"} -> "unavailable"
    [] error = "input" -> "invalid"
    [] error = "missing" -> "missing"
    [] OTHER -> "internal"
EngineErrors == {"storage", "reflect", "input", "missing", "index"}

\* Engine calls that may store something: recall and prime reinforce what they
\* return, and reflect_prepare opens a session.
Storing == {"remember", "revise", "forget", "recall", "prime", "reflect", "reflect_prepare",
            "reflect_commit", "contradiction_commit"}
CanFail(h) == \E i \in DOMAIN h.calls : h.calls[i] \notin Quiet
CanStore(h) == \E i \in DOMAIN h.calls : h.calls[i] \in Storing
=============================================================================
