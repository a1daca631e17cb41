--------------------------- MODULE SubscribeServer ---------------------------
(***************************************************************************)
(* hebbs-server's subscription service over the engine's subscriptions.    *)
(* Each stream is a handle in a table behind one mutex, and a task that    *)
(* polls the handle and forwards its pushes to the client through a        *)
(* bounded channel.  The handlers of the feed and close calls use the same *)
(* table.  Closing a handle joins its worker while the mutex is held.      *)
(***************************************************************************)
EXTENDS Subscribe

CONSTANT StreamCap        \* capacity of the channel to the client

VARIABLES
  table,   \* subscriptions: the streams the service knows
  task,    \* what the task of each stream is doing
  rpc,     \* the close call on each stream
  stream,  \* pushes on their way to each client
  held,    \* the push a task holds, if any
  gone,    \* clients that have disconnected
  gauge,   \* metrics.active_subscriptions
  lock     \* who holds the mutex while it waits: <<"task" or "rpc", s>>

server == <<table, task, rpc, stream, held, gone, gauge, lock>>
all == <<vars, server>>

Tasks == {"none", "poll", "send", "stop", "joining", "dec", "ended"}
Free == <<>>

ServerInit ==
  /\ Init
  /\ table = {} /\ task = [s \in Subs |-> "none"] /\ rpc = [s \in Subs |-> "none"]
  /\ stream = [s \in Subs |-> <<>>] /\ held = [s \in Subs |-> <<>>] /\ gone = {}
  /\ gauge = 0 /\ lock = Free

Move(s, to) == task' = [task EXCEPT ![s] = to]

\* The subscribe call: count the stream, enter it, start its task.
Open(s) ==
  /\ stage[s] = "open" /\ task[s] = "none" /\ lock = Free
  /\ table' = table \cup {s} /\ gauge' = gauge + 1 /\ Move(s, "poll")
  /\ UNCHANGED <<vars, rpc, stream, held, gone, lock>>

\* One turn of the task: the stream may have been closed meanwhile.
Poll(s) ==
  /\ task[s] = "poll" /\ lock = Free
  /\ \/ /\ s \notin table /\ Move(s, "stop") /\ UNCHANGED <<vars, held>>
     \/ /\ s \in table /\ chan[s].out # <<>>
        /\ held' = [held EXCEPT ![s] = <<Head(chan[s].out)>>]
        /\ Recv(s) /\ Move(s, "send")
     \/ /\ s \in table /\ chan[s].out = <<>> /\ s \in gone
        /\ Move(s, "stop") /\ UNCHANGED <<vars, held>>
  /\ UNCHANGED <<table, rpc, stream, gone, gauge, lock>>

\* Waits while the channel is full; fails once the client is gone.
Send(s) ==
  /\ task[s] = "send"
  /\ \/ /\ s \in gone /\ Move(s, "stop") /\ UNCHANGED stream
     \/ /\ s \notin gone /\ Len(stream[s]) < StreamCap /\ Move(s, "poll")
        /\ stream' = [stream EXCEPT ![s] = @ \o held[s]]
  /\ held' = [held EXCEPT ![s] = <<>>]
  /\ UNCHANGED <<vars, table, rpc, gone, gauge, lock>>

\* After its loop the task closes the handle, if the stream is still there,
\* and counts the stream off in either case.
StopTask(s) ==
  /\ task[s] = "stop" /\ lock = Free
  /\ IF s \in table
     THEN Close(s) /\ table' = table \ {s} /\ Move(s, "joining") /\ lock' = <<"task", s>>
     ELSE Move(s, "dec") /\ UNCHANGED <<vars, table, lock>>
  /\ UNCHANGED <<rpc, stream, held, gone, gauge>>
CountOff(s) ==
  /\ \/ task[s] = "joining" /\ stage[s] = "closed" /\ lock' = Free
     \/ task[s] = "dec" /\ UNCHANGED lock
  /\ gauge' = gauge - 1 /\ Move(s, "ended")
  /\ UNCHANGED <<vars, table, rpc, stream, held, gone>>

\* The close call removes the stream, closes the handle, and counts it off.
CloseCall(s) ==
  /\ s \in table /\ lock = Free /\ Close(s)
  /\ table' = table \ {s} /\ rpc' = [rpc EXCEPT ![s] = "joining"] /\ lock' = <<"rpc", s>>
  /\ UNCHANGED <<task, stream, held, gone, gauge>>
CloseReturnsLocked(s) ==                  \* mutant
  /\ rpc[s] = "joining" /\ stage[s] = "closed"
  /\ gauge' = gauge - 1 /\ rpc' = [rpc EXCEPT ![s] = "done"]
  /\ UNCHANGED <<vars, table, task, stream, held, gone, lock>>
CloseReturns(s) ==
  /\ rpc[s] = "joining" /\ stage[s] = "closed"
  /\ gauge' = gauge - 1 /\ rpc' = [rpc EXCEPT ![s] = "done"] /\ lock' = Free
  /\ UNCHANGED <<vars, table, task, stream, held, gone>>

\* The feed call; it reports success whether the text was accepted or not.
FeedCall(s, c) ==
  /\ s \in table /\ lock = Free /\ Feed(s, c)
  /\ UNCHANGED server

ClientReads(s) ==
  /\ stream[s] # <<>> /\ s \notin gone
  /\ stream' = [stream EXCEPT ![s] = Tail(@)]
  /\ UNCHANGED <<vars, table, task, rpc, held, gone, gauge, lock>>
ClientLeaves(s) ==
  /\ task[s] # "none" /\ s \notin gone /\ gone' = gone \cup {s}
  /\ UNCHANGED <<vars, table, task, rpc, stream, held, gauge, lock>>

RunTask(s) == Poll(s) \/ Send(s) \/ StopTask(s) \/ CountOff(s)

ServerNext ==
  \/ Internal /\ UNCHANGED server
  \/ \E s \in Subs :
       \/ Joined(s) /\ UNCHANGED server
       \/ Open(s) \/ RunTask(s) \/ CloseCall(s) \/ CloseReturns(s)
       \/ \E c \in Chunks : FeedCall(s, c)
       \/ ClientReads(s) \/ ClientLeaves(s)

\* Tasks and handlers run on; clients owe nothing.
ServerFairness ==
  /\ InternalFairness
  /\ \A s \in Subs : /\ WF_all(Joined(s) /\ UNCHANGED server)
                     /\ WF_all(Open(s)) /\ SF_all(RunTask(s)) /\ WF_all(CloseReturns(s))

ServerSpec == ServerInit /\ [][ServerNext]_all /\ ServerFairness

-----------------------------------------------------------------------------
(* Properties                                                              *)

\* A handle that is being closed gets its worker's thread joined, which never
\* waits for the service: whoever closes a stream releases the mutex that all
\* streams need.  A stream whose client left gives its worker thread back, and
\* the shutdown of the engine ends.
StreamsEnd ==
  /\ \A s \in Subs : /\ stage[s] = "joining" ~> stage[s] = "closed"
                     /\ s \in gone ~> worker[s].pc = "exited"
  /\ lock # Free ~> lock = Free
  /\ drain.on = "running" ~> drain.on = "done"

\* "Currently active subscribe streams": when no stream is being opened or
\* closed, the gauge is the number of streams in the table.
GaugeCountsStreams ==
  (/\ lock = Free
   /\ \A s \in Subs : IF s \in table THEN task[s] \in {"poll", "send"}
                      ELSE task[s] \in {"none", "ended"})
  => gauge = Cardinality(table)
=============================================================================
