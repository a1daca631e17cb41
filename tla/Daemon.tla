------------------------------- MODULE Daemon -------------------------------
(***************************************************************************)
(* The hebbs daemon and the processes around it (hebbs-vault/daemon).  Any  *)
(* command that finds no daemon starts one; a daemon claims the machine by  *)
(* a PID file and a socket, keeps a bounded set of vaults open for its      *)
(* requests and its panel, and each open database holds a lock file.  The   *)
(* processes that make, remake and remove vaults are in Setup.              *)
(***************************************************************************)
EXTENDS Naturals, FiniteSets, Commands

CONSTANTS
  Daemons,       \* daemon processes, over time
  Programs,      \* processes of the command line, over time
  Casts,         \* sets of processes, one of which takes part in a behaviour
  Vaults,
  Clients,       \* connections and runs of the watch loop, over time
  CommandsAsked, \* the commands they ask, of DaemonCommands
  MaxOpen        \* MAX_OPEN_VAULTS

ASSUME DaemonConstants ==
  /\ MaxOpen \in Nat \ {0} /\ CommandsAsked \subseteq DOMAIN DaemonCommands
  /\ \A cast \in Casts : cast \subseteq Daemons \cup Programs

VARIABLES
  pidFile,   \* the daemon whose PID the file holds, or NoOne
  socket,    \* the daemon whose listener the socket path leads to, or NoOne
  proc,      \* how far each process is
  saw,       \* what a starting daemon found in the PID file
  dir,       \* dir[v]: the .hebbs of a vault: its database, its epoch, its manifest
  registry,  \* vaults.json
  manager,   \* manager[h]: the engines a process keeps open
  panel,     \* panel[d]: the engine of the panel's active vault, or NoEngine
  opening,   \* opening[d]: the engine that get_or_open is making, and for whom
  request,   \* what each connection or run is doing
  lock,      \* lock[v]: the process that took the database's lock file, or NoOne
  working,   \* engines whose background workers run
  filled,    \* databases that files were indexed into
  \* history, read by the properties only
  overrun,   \* a claim was replaced or removed by a process that had not seen it, or a
             \* daemon served a request after it had given up its own
  mixed      \* engines whose epoch was read from a directory that had replaced theirs

daemonVars == <<pidFile, socket, proc, saw, dir, registry, manager, panel, opening, request,
                lock, working, filled, overrun, mixed>>
claim == <<pidFile, socket, saw>>
disk == <<dir, registry, filled>>
engines == <<manager, panel, opening, lock, working, mixed>>

Hosts == Daemons \cup Programs
NoOne == "nobody"
NoEngine == [by |-> NoOne]
NoEpoch == "no epoch"
NoDir == [db |-> "none", epoch |-> NoEpoch, synced |-> FALSE]
NoOpening == [who |-> NoOne]
NoRequest == [pc |-> "idle"]
\* A directory that is there from the start, with its files indexed.
FirstDir == [db |-> "first", epoch |-> "first", synced |-> TRUE]

\* A process is named in its files and by what it makes.
ASSUME NamesDiffer ==
  /\ Daemons \cap Programs = {} /\ NoOne \notin Daemons \cup Programs
  /\ Programs \cap {"none", "first", NoEpoch} = {}
  /\ Clients \cap {NoOne, "watch", "panel"} = {}

DaemonInit ==
  /\ pidFile = NoOne /\ socket = NoOne
  /\ \E cast \in Casts : proc = [h \in Hosts |-> IF h \in cast THEN "unborn" ELSE "gone"]
  /\ saw = [d \in Daemons |-> NoOne] /\ registry \in SUBSET Vaults
  /\ dir = [v \in Vaults |-> IF v \in registry THEN FirstDir ELSE NoDir]
  /\ filled = {<<v, "first">> : v \in Vaults}
  /\ manager = [h \in Hosts |-> {}] /\ panel = [d \in Daemons |-> NoEngine]
  /\ opening = [d \in Daemons |-> NoOpening]
  /\ request = [c \in Clients |-> NoRequest] /\ lock = [v \in Vaults |-> NoOne]
  /\ working = {} /\ overrun = FALSE /\ mixed = {}

Alive(h) == h # NoOne /\ proc[h] \notin {"unborn", "gone"}
Claims(d) == proc[d] \in {"claimed", "bound", "serving", "closing", "closed"}
Enter(h, pc) == proc' = [proc EXCEPT ![h] = pc]

\* An engine is open as long as the manager, the panel or a request refers to it.
Referred(d) ==
  ({panel[d]} \ {NoEngine}) \cup
  UNION {request[c].got : c \in {x \in Clients : request[x].pc \in {"opening", "busy"} /\ request[x].to = d}}
InUse(h) ==
  manager[h] \cup
  (IF h \in Daemons THEN Referred(h) \cup (IF opening[h].who = NoOne THEN {} ELSE {opening[h].engine})
   ELSE {})
Open == UNION {InUse(h) : h \in Hosts}

-----------------------------------------------------------------------------
(* Start and stop                                                          *)

\* A daemon that made its claim after d looked.
Unseen(d, x) == x \notin {d, saw[d]} /\ Claims(x)

LookBlind(d) ==                           \* mutant: whether the PID lives is not asked
  /\ proc[d] = "unborn" /\ Enter(d, "clear") /\ saw' = [saw EXCEPT ![d] = pidFile]
  /\ UNCHANGED <<pidFile, socket, disk, engines, request, overrun>>
\* cleanup_stale: a live PID ends the start; a dead one and the socket are removed.
Look(d) ==
  /\ proc[d] = "unborn"
  /\ Enter(d, IF Alive(pidFile) THEN "gone" ELSE "clear")
  /\ saw' = [saw EXCEPT ![d] = pidFile]
  /\ UNCHANGED <<pidFile, socket, disk, engines, request, overrun>>
Clear(d) ==
  /\ proc[d] = "clear" /\ Enter(d, "starting")
  /\ socket' = NoOne
  /\ pidFile' = IF saw[d] = NoOne THEN pidFile ELSE NoOne
  /\ overrun' = (overrun \/ \E x \in {pidFile, socket} \ {NoOne} : Unseen(d, x))
  /\ UNCHANGED <<saw, disk, engines, request>>
Claim(d) ==
  /\ proc[d] = "starting" /\ Enter(d, "claimed") /\ pidFile' = d
  /\ overrun' = (overrun \/ (pidFile # NoOne /\ Unseen(d, pidFile)))
  /\ UNCHANGED <<socket, saw, disk, engines, request>>
\* The embedding model is loaded in between, which may fail and leave the PID file.
Bind(d) ==
  /\ proc[d] = "claimed"
  /\ \/ Enter(d, "bound") /\ socket' = d
     \/ Enter(d, "gone") /\ UNCHANGED socket
  /\ saw' = [saw EXCEPT ![d] = NoOne]
  /\ overrun' = (overrun \/ (socket # NoOne /\ Unseen(d, socket)))
  /\ UNCHANGED <<pidFile, disk, engines, request>>

\* A signal, the shutdown command, or the idle timer, which saw no connection a
\* moment ago.
Cancel(d) ==
  /\ proc[d] = "serving" /\ Enter(d, "closing")
  /\ UNCHANGED <<claim, disk, engines, request, overrun>>
\* The manager is one mutex: held by a request while it opens its vaults, and by
\* the watch loop and the panel for one.
Free(d) ==
  /\ opening[d] = NoOpening
  /\ \A c \in Clients : request[c].pc = "opening" => request[c].to # d
\* close_all stops the workers of every vault; requests keep their engines.
CloseAll(d) ==
  /\ proc[d] = "closing" /\ Free(d) /\ Enter(d, "closed")
  /\ manager' = [manager EXCEPT ![d] = {}] /\ working' = working \ manager[d]
  /\ UNCHANGED <<claim, disk, panel, opening, request, lock, overrun, mixed>>
\* The files go, whoever wrote them.
CleanUp(d) ==
  /\ proc[d] = "closed" /\ Enter(d, "exiting")
  /\ pidFile' = NoOne /\ socket' = NoOne
  /\ overrun' = (overrun \/ \E x \in Daemons \ {d} : x \in {pidFile, socket} /\ Claims(x))
  /\ UNCHANGED <<saw, disk, engines, request>>
Ended(d) ==
  /\ Enter(d, "gone") /\ working' = {e \in working : e.by # d}
  /\ manager' = [manager EXCEPT ![d] = {}] /\ panel' = [panel EXCEPT ![d] = NoEngine]
  /\ opening' = [opening EXCEPT ![d] = NoOpening]
  /\ request' = [c \in Clients |-> IF request[c].pc # "idle" /\ request[c].to = d
                                   THEN NoRequest ELSE request[c]]
  /\ lock' = [v \in Vaults |-> IF lock[v] = d THEN NoOne ELSE lock[v]]
  /\ mixed' = {e \in mixed : e.by # d}
  /\ UNCHANGED <<claim, disk, overrun>>
Exit(d) == proc[d] = "exiting" /\ Ended(d)
Crash(d) == Alive(d) /\ Ended(d)

-----------------------------------------------------------------------------
(* The vault manager                                                       *)

Opens(d, v) == [by |-> d, vault |-> v, db |-> dir[v].db, epoch |-> NoEpoch]
Epoch(v) == dir[v].epoch
Current(d, v) == {e \in manager[d] : e.vault = v /\ e.epoch = Epoch(v)}
Outdated(d, v) == {e \in manager[d] : e.vault = v /\ e.epoch # Epoch(v)}

\* A handle of another epoch is shut down; so is the least recently used one when
\* the manager is full, which this model takes to be any.
DroppedAnyway(d, v) == {Outdated(d, v)}   \* mutant: the capacity is not checked
Dropped(d, v) ==
  LET kept == manager[d] \ Outdated(d, v)
  IN  IF Cardinality(kept) < MaxOpen THEN {Outdated(d, v)}
      ELSE {Outdated(d, v) \cup {e} : e \in kept}

\* RocksDB refuses a path that its own process has open, whichever directory is
\* there now.  The lock file of another process is taken for stale if the PID file
\* is missing or names a dead one.
OwnHold(d, v, dropped) == \E e \in (manager[d] \ dropped) \cup Referred(d) : e.vault = v
Locked(v) == lock[v] # NoOne /\ \E e \in InUse(lock[v]) : e.vault = v /\ e.db = dir[v].db
Stale == ~Alive(pidFile)
Openable(d, v, dropped) ==
  dir[v] # NoDir /\ ~OwnHold(d, v, dropped) /\ (Locked(v) /\ lock[v] # d => Stale)

\* get_or_open until the storage is open, or is not.
BeginOpen(d, v, who, dropped) ==
  /\ manager' = [manager EXCEPT ![d] = @ \ dropped] /\ working' = working \ dropped
  /\ IF Openable(d, v, dropped)
     THEN /\ opening' = [opening EXCEPT ![d] = [who |-> who, engine |-> Opens(d, v)]]
          /\ lock' = [lock EXCEPT ![v] = d]
     ELSE /\ UNCHANGED opening
          /\ lock' = IF Stale THEN [lock EXCEPT ![v] = NoOne] ELSE lock
  /\ UNCHANGED mixed

\* The engine is made and its workers are started; its epoch is read last.
Made(d) == [opening[d].engine EXCEPT !.epoch = Epoch(opening[d].engine.vault)]
EndOpen(d) ==
  LET e == Made(d)
      who == opening[d].who
  IN  /\ opening[d] # NoOpening
      /\ manager' = [manager EXCEPT ![d] = @ \cup {e}] /\ working' = working \cup {e}
      /\ opening' = [opening EXCEPT ![d] = NoOpening]
      /\ mixed' = IF dir[e.vault] # NoDir /\ dir[e.vault].db # e.db THEN mixed \cup {e} ELSE mixed
      /\ panel' = IF who = "panel" THEN [panel EXCEPT ![d] = e] ELSE panel
      /\ Enter(d, IF who = "panel" /\ proc[d] = "bound" THEN "serving" ELSE proc[d])
      /\ request' = IF who \in Clients
                    THEN [request EXCEPT ![who].todo = @ \ {e.vault}, ![who].got = @ \cup {e}]
                    ELSE request
      /\ UNCHANGED <<claim, disk, lock, overrun>>

\* Vaults of the registry are opened at the start and when it changes.
Proactive(d, v) ==
  /\ proc[d] \in {"bound", "serving"} /\ Free(d)
  /\ v \in registry /\ dir[v] # NoDir /\ Current(d, v) = {}
  /\ \E dropped \in Dropped(d, v) : BeginOpen(d, v, "watch", dropped)
  /\ UNCHANGED <<claim, proc, disk, panel, request, overrun>>

\* The panel is there if its vault opens at the start; then any vault may be shown.
PanelStart(d, v) ==
  /\ proc[d] = "bound" /\ Free(d)
  /\ \/ \E e \in Current(d, v) :
          panel' = [panel EXCEPT ![d] = e] /\ Enter(d, "serving") /\ UNCHANGED <<manager, opening, lock, working, mixed>>
     \/ /\ Current(d, v) = {} /\ UNCHANGED panel
        /\ \E dropped \in Dropped(d, v) :
             /\ BeginOpen(d, v, "panel", dropped)
             /\ Enter(d, IF Openable(d, v, dropped) THEN "bound" ELSE "serving")
  /\ UNCHANGED <<claim, disk, request, overrun>>
PanelOff(d) ==
  /\ proc[d] = "bound" /\ Free(d) /\ Enter(d, "serving")
  /\ UNCHANGED <<claim, disk, engines, request, overrun>>
PanelSwitch(d, v) ==
  /\ panel[d] # NoEngine /\ Free(d)
  /\ \/ \E e \in Current(d, v) :
          panel' = [panel EXCEPT ![d] = e] /\ UNCHANGED <<manager, opening, lock, working, mixed>>
     \/ /\ Current(d, v) = {} /\ UNCHANGED panel
        /\ \E dropped \in Dropped(d, v) : BeginOpen(d, v, "panel", dropped)
  /\ overrun' = (overrun \/ proc[d] = "exiting")
  /\ UNCHANGED <<claim, proc, disk, request>>

EvictForgets(d, e) ==                     \* mutant: the workers are not stopped
  /\ proc[d] \in {"serving", "closing"} /\ Free(d) /\ e \in manager[d]
  /\ manager' = [manager EXCEPT ![d] = @ \ {e}]
  /\ UNCHANGED <<claim, proc, disk, panel, opening, request, lock, working, overrun, mixed>>
\* Idle for too long, or its directory has disappeared.
Evict(d, e) ==
  /\ proc[d] \in {"serving", "closing"} /\ Free(d) /\ e \in manager[d]
  /\ manager' = [manager EXCEPT ![d] = @ \ {e}] /\ working' = working \ {e}
  /\ UNCHANGED <<claim, proc, disk, panel, opening, request, lock, overrun, mixed>>

-----------------------------------------------------------------------------
(* Requests                                                                *)

Served(c) == proc[request[c].to] \in {"serving", "closing", "closed", "exiting"}
Asks(c) ==
  IF request[c].cmd = "watch" THEN OnVault("never", <<"phase2">>) ELSE DaemonCommands[request[c].cmd]
Becomes(c, r) == request' = [request EXCEPT ![c] = r]

Connect(c, cmd, vs) ==
  /\ request[c] = NoRequest /\ socket # NoOne /\ proc[socket] \in {"bound", "serving"}
  /\ DaemonCommands[cmd].vaults = "all" \/ Cardinality(vs) = 1
  /\ Becomes(c, [pc |-> "asked", to |-> socket, cmd |-> cmd, todo |-> vs, got |-> {}])
  /\ UNCHANGED <<claim, proc, disk, engines, overrun>>
\* The watch loop opens a vault for phase 2, closed or not, and holds its engine to
\* the end of the run, as a request would; it makes one run at a time.
WatchPhase2(c, d, v) ==
  /\ request[c] = NoRequest /\ Free(d)
  /\ proc[d] \in {"bound", "serving", "closing", "closed", "exiting"}
  /\ \A x \in Clients : request[x].pc = "busy" /\ request[x].to = d => request[x].cmd # "watch"
  /\ Becomes(c, [pc |-> "opening", to |-> d, cmd |-> "watch", todo |-> {v}, got |-> {}])
  /\ UNCHANGED <<claim, proc, disk, engines, overrun>>
\* Requests taken before the end are served up to the last moment.
Serve(c) ==
  /\ request[c].pc = "asked" /\ Served(c)
  /\ IF Asks(c).vaults = "none" THEN Becomes(c, [request[c] EXCEPT !.pc = "busy", !.todo = {}])
     ELSE \/ Asks(c).refuses = "first" /\ Becomes(c, NoRequest)
          \/ Free(request[c].to) /\ Becomes(c, [request[c] EXCEPT !.pc = "opening"])
  /\ UNCHANGED <<claim, proc, disk, engines, overrun>>
\* get_or_open of the next vault; one that does not open ends the request.
GetOrOpen(c, v) ==
  LET d == request[c].to
  IN  /\ request[c].pc = "opening" /\ opening[d] = NoOpening /\ v \in request[c].todo
      /\ \/ \E e \in Current(d, v) :
              /\ Becomes(c, [request[c] EXCEPT !.todo = @ \ {v}, !.got = @ \cup {e}])
              /\ UNCHANGED <<manager, opening, lock, working, mixed>>
         \/ /\ Current(d, v) = {}
            /\ \E dropped \in Dropped(d, v) :
                 /\ BeginOpen(d, v, c, dropped)
                 /\ IF Openable(d, v, dropped) THEN UNCHANGED request
                    ELSE Becomes(c, [pc |-> "refused", to |-> d, held |-> dir[v] # NoDir,
                                     own |-> OwnHold(d, v, dropped)])
      /\ overrun' = (overrun \/ proc[d] = "exiting")
      /\ UNCHANGED <<claim, proc, disk, panel>>
\* All vaults are open; the mutex is given back.
Got(c) ==
  /\ request[c].pc = "opening" /\ request[c].todo = {}
  /\ Becomes(c, [request[c] EXCEPT !.pc = "busy"])
  /\ UNCHANGED <<claim, proc, disk, engines, overrun>>

Indexes(calls) == "phase2" \in {calls[i] : i \in DOMAIN calls}
\* Files are indexed into the database an engine has open, and into the manifest of
\* the directory that is there.
Indexed(es, calls) ==
  LET into == IF Indexes(calls) THEN es ELSE {}
  IN  /\ filled' = filled \cup {<<e.vault, e.db>> : e \in into}
      /\ dir' = [v \in Vaults |-> IF dir[v] # NoDir /\ v \in {e.vault : e \in into}
                                  THEN [dir[v] EXCEPT !.synced = TRUE] ELSE dir[v]]
      /\ UNCHANGED registry
\* The calls are made, or fail.
Answer(c) ==
  /\ request[c].pc \in {"busy", "refused"}
  /\ \/ request[c].pc = "busy" /\ Indexed(request[c].got, Asks(c).calls)
     \/ UNCHANGED disk
  /\ Becomes(c, NoRequest)
  /\ UNCHANGED <<claim, proc, engines, overrun>>

DaemonNext ==
  \/ \E d \in Daemons :
       \/ Look(d) \/ Clear(d) \/ Claim(d) \/ Bind(d) \/ Cancel(d) \/ CloseAll(d)
       \/ CleanUp(d) \/ Exit(d) \/ Crash(d) \/ EndOpen(d) \/ PanelOff(d)
       \/ \E v \in Vaults : Proactive(d, v) \/ PanelStart(d, v) \/ PanelSwitch(d, v)
       \/ \E e \in manager[d] : Evict(d, e)
  \/ \E c \in Clients :
       \/ Serve(c) \/ Got(c) \/ Answer(c) \/ \E v \in Vaults : GetOrOpen(c, v)
       \/ \E cmd \in CommandsAsked, vs \in SUBSET Vaults \ {{}} : Connect(c, cmd, vs)
       \/ \E d \in Daemons, v \in Vaults : WatchPhase2(c, d, v)

-----------------------------------------------------------------------------
(* Properties                                                              *)

\* Unless one process took another's claim away in the moment between looking at
\* the PID file and writing it, or served on without its own, a serving daemon can
\* be reached and no database is open in two processes, however daemons crash, stop
\* and start over each other, and whatever is run beside them.
ClaimGuards ==
  ~overrun =>
    /\ \A d \in Daemons : proc[d] = "serving" => pidFile = d /\ socket = d
    /\ \A e, o \in Open : e.vault = o.vault /\ e.db = o.db => e.by = o.by

\* Background workers run only on vaults the manager holds, of which there are at
\* most MaxOpen: each way a vault is closed stops its workers.
WorkersOfOpenVaults ==
  /\ \A e \in working : e \in manager[e.by]
  /\ \A d \in Daemons : Cardinality(manager[d]) <= MaxOpen

\* A daemon goes on using a database only while it is the vault's: a handle of the
\* directory's epoch is a handle of the directory's database, save one that was
\* opened while the directory was replaced, and in the moment before it has an epoch.
HandlesCurrent ==
  \A d \in Daemons : \A e \in manager[d] \ mixed :
    dir[e.vault] # NoDir /\ e.epoch = Epoch(e.vault) /\ e.epoch # NoEpoch => e.db = dir[e.vault].db

\* A vault that is there and does not open is held by another daemon, as the error
\* says.
RefusedByAnother ==
  \A c \in Clients : request[c].pc = "refused" /\ request[c].held => ~request[c].own

\* What the manifest says is indexed is in the vault's database.
SyncedStored ==
  \A v \in Vaults : dir[v] # NoDir /\ dir[v].synced => <<v, dir[v].db>> \in filled
=============================================================================
