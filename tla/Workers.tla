------------------------------ MODULE Workers ------------------------------
(***************************************************************************)
(* The two background workers of hebbs-core, decay and reflect, and the     *)
(* engine's calls that start, pause, resume, reconfigure and stop them.     *)
(* Each worker is a thread that reads signals from a queue of its own; the  *)
(* engine keeps the handle of the current one behind a mutex, and dropping  *)
(* or stopping a handle joins the thread while the mutex is held.           *)
(***************************************************************************)
EXTENDS Naturals, Sequences

CONSTANTS
  Threads,       \* worker threads, over time
  MaxBatches,    \* max_batches_per_sweep
  MaxQueue,      \* bound on the signals waiting
  MaxSignals     \* bound on the signals sent by calls

Absent == "absent"

ASSUME WorkerConstants ==
  /\ {MaxBatches, MaxQueue, MaxSignals} \subseteq Nat \ {0}
  /\ Absent \notin Threads

VARIABLES
  kind,      \* "decay" or "reflect": which of the two loops the threads run
  queue,     \* signals sent and not yet read
  at,        \* where each thread is
  paused, enabled,
  polled,    \* decay: a signal was read since the wait began
  batches,   \* batches of the current sweep
  handle,    \* the thread whose handle the engine keeps, or Absent
  control,   \* the call that waits for a thread to end, holding the mutex
  starting,  \* threads that start calls have yet to hand to the engine
  storeUp,   \* the engine still owns the storage the threads hold weakly
  sent,      \* signals sent by calls
  \* history, read by the properties only
  word,      \* the last pause or resume asked of a thread
  offed,     \* a thread was ever configured as disabled
  ahead,     \* signals that were waiting when the pause was asked
  overrun    \* sweeps begun since the pause was asked

workerVars == <<kind, queue, at, paused, enabled, polled, batches, handle, control,
                starting, storeUp, sent, word, offed, ahead, overrun>>
history == <<word, offed, ahead, overrun>>
engine == <<kind, handle, control, starting, storeUp, sent>>

Alive == {w \in Threads : at[w] \notin {"unborn", "gone"}}

WorkersInit ==
  /\ kind \in {"decay", "reflect"}
  /\ queue = [w \in Threads |-> <<>>] /\ at = [w \in Threads |-> "unborn"]
  /\ paused = [w \in Threads |-> TRUE] /\ enabled = [w \in Threads |-> TRUE]
  /\ polled = [w \in Threads |-> FALSE] /\ batches = [w \in Threads |-> 0]
  /\ handle = Absent /\ control = Absent /\ starting = {} /\ storeUp = TRUE /\ sent = 0
  /\ word = [w \in Threads |-> "pause"] /\ offed = [w \in Threads |-> FALSE]
  /\ ahead = [w \in Threads |-> 0] /\ overrun = [w \in Threads |-> 0]

Goto(w, p) == at' = [at EXCEPT ![w] = p]
Read(w) == queue' = [queue EXCEPT ![w] = Tail(@)]

\* What a signal does to the loop's own state, wherever it is read.
Obey(w, sig) ==
  /\ paused' = [paused EXCEPT ![w] = IF sig \in {"pause", "resume"} THEN sig = "pause" ELSE @]
  /\ enabled' = [enabled EXCEPT ![w] = IF sig \in {"enable", "disable"} THEN sig = "enable" ELSE @]
BeginSweep(w) ==
  /\ Goto(w, IF storeUp THEN "sweep" ELSE "gone")
  /\ batches' = [batches EXCEPT ![w] = 0]
  /\ overrun' = [overrun EXCEPT ![w] = IF word[w] = "pause" /\ storeUp THEN @ + 1 ELSE @]
  /\ UNCHANGED <<word, offed, ahead>>

-----------------------------------------------------------------------------
(* The decay loop                                                          *)

\* Paused, it waits for signals without a timeout.
DecayIdle(w) ==
  /\ kind = "decay" /\ at[w] = "top" /\ paused[w] /\ queue[w] # <<>>
  /\ Read(w) /\ Obey(w, Head(queue[w]))
  /\ Goto(w, IF Head(queue[w]) = "shutdown" THEN "gone" ELSE "top")
  /\ UNCHANGED <<polled, batches, engine, history>>
\* Disabled, it pauses itself; enabling it later does not resume it.
DecayDisabled(w) ==
  /\ kind = "decay" /\ at[w] = "top" /\ ~paused[w] /\ ~enabled[w]
  /\ paused' = [paused EXCEPT ![w] = TRUE]
  /\ UNCHANGED <<queue, at, enabled, polled, batches, engine, history>>
DecaySweep(w) ==
  /\ kind = "decay" /\ at[w] = "top" /\ ~paused[w] /\ enabled[w]
  /\ BeginSweep(w)
  /\ UNCHANGED <<queue, paused, enabled, polled, engine>>
\* No signal is looked at between the batches of a sweep.
DecayBatch(w) ==
  /\ kind = "decay" /\ at[w] = "sweep"
  /\ batches' = [batches EXCEPT ![w] = @ + 1]
  /\ \/ batches[w] + 1 < MaxBatches /\ UNCHANGED <<at, polled>>
     \/ Goto(w, "wait") /\ polled' = [polled EXCEPT ![w] = FALSE]
  /\ UNCHANGED <<queue, paused, enabled, engine, history>>
DecayWaitDeaf(w) ==                       \* mutant: a pause does not end the wait
  /\ kind = "decay" /\ at[w] = "wait" /\ queue[w] # <<>>
  /\ Read(w) /\ Obey(w, IF Head(queue[w]) = "pause" THEN "resume" ELSE Head(queue[w]))
  /\ polled' = [polled EXCEPT ![w] = TRUE]
  /\ Goto(w, IF Head(queue[w]) = "shutdown" THEN "gone" ELSE "wait")
  /\ UNCHANGED <<batches, engine, history>>
\* Between sweeps: signals are read until the interval is over or one pauses it.
DecayWait(w) ==
  /\ kind = "decay" /\ at[w] = "wait" /\ queue[w] # <<>>
  /\ Read(w) /\ Obey(w, Head(queue[w]))
  /\ polled' = [polled EXCEPT ![w] = TRUE]
  /\ Goto(w, CASE Head(queue[w]) = "shutdown" -> "gone"
               [] Head(queue[w]) = "pause" -> "top"
               [] OTHER -> "wait")
  /\ UNCHANGED <<batches, engine, history>>
DecayWaitShort(w) ==                      \* mutant: straight to the next sweep
  /\ kind = "decay" /\ at[w] = "wait" /\ Goto(w, "top")
  /\ UNCHANGED <<queue, paused, enabled, polled, batches, engine, history>>
DecayWaitOver(w) ==
  /\ kind = "decay" /\ at[w] = "wait" /\ (queue[w] = <<>> \/ polled[w])
  /\ Goto(w, "tail")
  /\ UNCHANGED <<queue, paused, enabled, polled, batches, engine, history>>
DecayTailDeaf(w) ==                       \* mutant: a shutdown read here is lost
  /\ kind = "decay" /\ at[w] = "tail"
  /\ IF queue[w] = <<>>
     THEN Goto(w, "top") /\ UNCHANGED <<queue, paused, enabled>>
     ELSE Read(w) /\ Obey(w, Head(queue[w])) /\ Goto(w, "top")
  /\ UNCHANGED <<polled, batches, engine, history>>
\* One more signal, if there is one, before the next sweep.
DecayTail(w) ==
  /\ kind = "decay" /\ at[w] = "tail"
  /\ IF queue[w] = <<>>
     THEN Goto(w, "top") /\ UNCHANGED <<queue, paused, enabled>>
     ELSE /\ Read(w) /\ Obey(w, Head(queue[w]))
          /\ Goto(w, IF Head(queue[w]) = "shutdown" THEN "gone" ELSE "top")
  /\ UNCHANGED <<polled, batches, engine, history>>

-----------------------------------------------------------------------------
(* The reflect loop                                                        *)

ReflectSignal(w) ==
  /\ kind = "reflect" /\ at[w] = "top" /\ queue[w] # <<>>
  /\ Read(w) /\ Obey(w, Head(queue[w]))
  /\ IF Head(queue[w]) = "trigger" /\ ~paused[w] /\ enabled[w]
     THEN BeginSweep(w)
     ELSE /\ Goto(w, IF Head(queue[w]) = "shutdown" THEN "gone" ELSE "top")
          /\ UNCHANGED <<batches, history>>
  /\ UNCHANGED <<polled, engine>>
\* The interval passed with no signal and the schedule is due.  The counter of
\* writes is never raised, so the threshold is not a reason to run.
ReflectDue(w) ==
  /\ kind = "reflect" /\ at[w] = "top" /\ queue[w] = <<>> /\ ~paused[w] /\ enabled[w]
  /\ BeginSweep(w)
  /\ UNCHANGED <<queue, paused, enabled, polled, engine>>
ReflectRan(w) ==
  /\ kind = "reflect" /\ at[w] = "sweep" /\ Goto(w, "top")
  /\ UNCHANGED <<queue, paused, enabled, polled, batches, engine, history>>

Loop(w) ==
  \/ DecayIdle(w) \/ DecayDisabled(w) \/ DecaySweep(w) \/ DecayBatch(w) \/ DecayWait(w)
  \/ DecayWaitOver(w) \/ DecayTail(w)
  \/ ReflectSignal(w) \/ ReflectDue(w) \/ ReflectRan(w)

-----------------------------------------------------------------------------
(* The engine's calls                                                      *)

Send(w, sig) == queue' = [queue EXCEPT ![w] = Append(@, sig)]
Say(w, sig) ==
  /\ word' = [word EXCEPT ![w] = IF sig \in {"pause", "resume"} THEN sig ELSE @]
  /\ offed' = [offed EXCEPT ![w] = @ \/ sig = "disable"]
  /\ ahead' = [ahead EXCEPT ![w] = IF sig = "pause" THEN Len(queue[w]) ELSE @]
  /\ overrun' = [overrun EXCEPT ![w] = IF sig \in {"pause", "resume"} THEN 0 ELSE @]

\* pause, resume, reconfigure and trigger send a signal to the current handle.
Signal(sig) ==
  /\ control = Absent /\ handle # Absent /\ sent < MaxSignals
  /\ sig # "trigger" \/ kind = "reflect"
  /\ Len(queue[handle]) < MaxQueue
  /\ Send(handle, sig) /\ Say(handle, sig) /\ sent' = sent + 1
  /\ UNCHANGED <<kind, at, paused, enabled, polled, batches, handle, control, starting, storeUp>>

\* A start call makes the thread and resumes it before it takes the mutex, so that
\* other calls come in between: several threads may then run at once.
Spawn(w) ==
  /\ at[w] = "unborn" /\ storeUp
  /\ Goto(w, "top") /\ Send(w, "resume") /\ Say(w, "resume") /\ starting' = starting \cup {w}
  /\ UNCHANGED <<kind, paused, enabled, polled, batches, handle, control, storeUp, sent>>
InstallOver(w) ==                         \* mutant: the handle replaced is leaked
  /\ w \in starting /\ control = Absent
  /\ starting' = starting \ {w} /\ handle' = w
  /\ UNCHANGED <<kind, queue, at, paused, enabled, polled, batches, control, storeUp, sent, history>>
\* It then puts its handle in the place of another, which is dropped: that shuts the
\* other thread down and joins it.
Install(w) ==
  /\ w \in starting /\ control = Absent
  /\ starting' = starting \ {w} /\ handle' = w /\ control' = handle
  /\ IF handle = Absent THEN UNCHANGED queue ELSE Send(handle, "shutdown")
  /\ UNCHANGED <<kind, at, paused, enabled, polled, batches, storeUp, sent, history>>
\* stop, and each part of shutdown: shut the thread down and join it.
Stop ==
  /\ control = Absent /\ handle # Absent
  /\ Send(handle, "shutdown") /\ handle' = Absent /\ control' = handle
  /\ UNCHANGED <<kind, at, paused, enabled, polled, batches, starting, storeUp, sent, history>>
JoinedThread ==
  /\ control # Absent /\ at[control] = "gone" /\ control' = Absent
  /\ UNCHANGED <<kind, queue, at, paused, enabled, polled, batches, handle, starting, storeUp, sent,
                 history>>
\* The engine is dropped, which no call outlives: its storage goes first.
DropEngine ==
  /\ storeUp /\ starting = {} /\ storeUp' = FALSE
  /\ UNCHANGED <<kind, queue, at, paused, enabled, polled, batches, handle, control, starting, sent,
                 history>>

WorkersNext ==
  \/ \E w \in Threads : Loop(w) \/ Spawn(w) \/ Install(w)
  \/ \E sig \in {"pause", "resume", "enable", "disable", "trigger"} : Signal(sig)
  \/ Stop \/ JoinedThread \/ DropEngine

\* Threads run on, intervals pass, a join returns once its thread has ended.
WorkersFairness == (\A w \in Threads : WF_workerVars(Loop(w))) /\ WF_workerVars(JoinedThread)

WorkersSpec == WorkersInit /\ [][WorkersNext]_workerVars /\ WorkersFairness

-----------------------------------------------------------------------------
(* Properties                                                              *)

\* No thread runs but the one whose handle the engine keeps, the one a call waits
\* for, and those a start call still has in hand: however starts and stops overlap,
\* once they have returned no worker is left that the engine cannot reach.
NoStrayWorker == Alive \subseteq {handle, control} \cup starting

\* A thread that has read all its signals is paused exactly if a pause was the
\* last word, or, for decay, if it was ever told to be disabled.
LastWordHolds ==
  \A w \in Alive : queue[w] = <<>> =>
    /\ word[w] = "pause" => paused[w]
    /\ paused[w] => word[w] = "pause" \/ (kind = "decay" /\ offed[w])

\* A pause that waits behind other signals is overrun by few sweeps: a decay
\* thread reads at least two signals from one sweep to the next, a reflect thread
\* one.  It bounds the work done after the call that asked for it returned.
PauseOverrun ==
  \A w \in Threads :
    overrun[w] <= IF kind = "decay" THEN 1 + ahead[w] \div 2 ELSE ahead[w]

\* What a thread does is what the last pause or resume asked of it, soon.
SignalsObeyed == LastWordHolds /\ PauseOverrun

\* Stopping ends the thread, in whatever sweep or wait it was, and frees the mutex.
StopEnds ==
  /\ \A w \in Threads : (control = w) ~> (at[w] = "gone")
  /\ (control # Absent) ~> (control = Absent)
=============================================================================
