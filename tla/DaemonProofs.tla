---------------------------- MODULE DaemonProofs ----------------------------
(***************************************************************************)
(* Proofs about the processes and the vaults they hold (Daemon, Setup).     *)
(***************************************************************************)
EXTENDS Setup, FiniteSetTheorems, TLAPS

Stages ==
  {"unborn", "gone", "clear", "starting", "claimed", "bound", "serving", "closing", "closed",
   "exiting", "making", "made", "valid", "empty", "registering", "registered", "rebuilt",
   "asking", "ready", "removing"}
Dbs == {"none", "first"} \cup Programs
Epochs == {NoEpoch, "first"} \cup Programs
Engines == [by : Hosts, vault : Vaults, db : Dbs, epoch : Epochs]
\* For whom an engine is made.
Askers == Clients \cup {"watch", "panel"}
Asked == [pc : {"asked", "opening", "busy"}, to : Daemons, cmd : CommandsAsked \cup {"watch"},
          todo : SUBSET Vaults, got : SUBSET Engines]
Refused == [pc : {"refused"}, to : Daemons, held : BOOLEAN, own : BOOLEAN]

\* What the variables hold.
ProcessesTyped ==
  /\ {pidFile, socket} \subseteq Daemons \cup {NoOne}
  /\ proc \in [Hosts -> Stages] /\ saw \in [Daemons -> Daemons \cup {NoOne}]
  /\ task = [p \in Programs |-> task[p]]
VaultsTyped ==
  /\ dir \in [Vaults -> [db : Dbs, epoch : Epochs, synced : BOOLEAN]]
  /\ lock \in [Vaults -> Hosts \cup {NoOne}]
EnginesTyped ==
  /\ manager \in [Hosts -> SUBSET Engines] /\ panel \in [Daemons -> Engines \cup {NoEngine}]
  /\ opening \in [Daemons -> [who : Askers, engine : Engines] \cup {NoOpening}]
  /\ working \subseteq Engines
RequestsTyped == request \in [Clients -> {NoRequest} \cup Asked \cup Refused]
\* What is asked, and under way.
AskedOfVaults == \A p \in Programs : proc[p] = "asking" => task[p].vault \in Vaults
OpeningAsked ==
  \A d \in Daemons : opening[d] # NoOpening /\ opening[d].who \in Clients =>
    LET r == request[opening[d].who]
    IN  r.pc = "opening" /\ r.to = d /\ opening[d].engine.vault \in r.todo
TypeInv ==
  /\ ProcessesTyped /\ VaultsTyped /\ EnginesTyped /\ RequestsTyped
  /\ AskedOfVaults /\ OpeningAsked

\* The processes and the directories begin typed.
LEMMA TypedInit == SetupInit => TypeInv
<1> SUFFICES ASSUME SetupInit PROVE TypeInv
  OBVIOUS
<1> USE DaemonConstants, NamesDiffer DEF SetupInit, DaemonInit
<1>1. ProcessesTyped
  BY DEF ProcessesTyped, Hosts, Stages
<1>2. VaultsTyped
  BY DEF VaultsTyped, FirstDir, NoDir, Dbs, Epochs
<1>3. EnginesTyped
  BY DEF EnginesTyped
<1>4. RequestsTyped
  BY DEF RequestsTyped
<1>5. AskedOfVaults
  BY DEF AskedOfVaults, Hosts
<1>6. OpeningAsked
  BY DEF OpeningAsked
<1> QED BY <1>1, <1>2, <1>3, <1>4, <1>5, <1>6 DEF TypeInv

\* A step of a program is one of these.
ProgramStep(p) ==
  \/ MakeDir(p) \/ Validate(p) \/ WriteManifest(p) \/ WriteEpoch(p)
  \/ ReadRegistry(p) \/ WriteRegistry(p) \/ OpenLocal(p) \/ RemoveDir(p)
  \/ RestoreConfig(p) \/ Work(p) \/ KillProgram(p)
  \/ \E v \in Vaults : \/ \E force \in BOOLEAN : RunProgram(p, v, "init", force)
                       \/ \E cmd \in LocalAsked : RunProgram(p, v, cmd, FALSE)

\* The engine of a directory is typed, and so is a made one.
LEMMA EngineOfDir ==
  ASSUME TypeInv, NEW h \in Hosts, NEW v \in Vaults
  PROVE  Opens(h, v) \in Engines /\ Opens(h, v).by = h /\ Opens(h, v).vault = v /\ Opens(h, v).db = dir[v].db
BY DEF TypeInv, VaultsTyped, Opens, Engines, Epochs

\* The engine a finished open puts into the manager has the maker, vault and
\* database it was opened for, and the epoch the directory has at that moment.
LEMMA MadeEngine ==
  ASSUME TypeInv, NEW d \in Daemons, opening[d] # NoOpening
  PROVE  /\ Made(d) \in Engines /\ Made(d).by = opening[d].engine.by
         /\ Made(d).vault = opening[d].engine.vault /\ Made(d).db = opening[d].engine.db
         /\ Made(d).epoch = dir[Made(d).vault].epoch
<1>1. opening[d].engine \in Engines
  BY DEF TypeInv, EnginesTyped
<1>2. opening[d].engine.vault \in Vaults
  BY <1>1 DEF Engines
<1>3. dir[opening[d].engine.vault].epoch \in Epochs
  BY <1>2 DEF TypeInv, VaultsTyped
<1> QED BY <1>1, <1>2, <1>3 DEF Engines, Made, Epoch

\* What making room and opening does to the manager.
LEMMA RoomMade ==
  ASSUME TypeInv, NEW d \in Daemons, NEW v \in Vaults, NEW who \in Askers,
         NEW dropped \in Dropped(d, v), BeginOpen(d, v, who, dropped)
  PROVE  /\ manager' = [manager EXCEPT ![d] = @ \ dropped] /\ manager' \in [Hosts -> SUBSET Engines]
         /\ dropped \subseteq manager[d] /\ working' = working \ dropped /\ mixed' = mixed
         /\ opening' \in [Daemons -> [who : Askers, engine : Engines] \cup {NoOpening}]
         /\ lock' \in [Vaults -> Hosts \cup {NoOne}]
         /\ \/ /\ Openable(d, v, dropped) /\ lock' = [lock EXCEPT ![v] = d]
               /\ opening' = [opening EXCEPT ![d] = [who |-> who, engine |-> Opens(d, v)]]
            \/ /\ ~Openable(d, v, dropped) /\ opening' = opening
               /\ (lock' = lock \/ (Stale /\ lock' = [lock EXCEPT ![v] = NoOne]))
<1>1. manager' = [manager EXCEPT ![d] = @ \ dropped] /\ working' = working \ dropped /\ mixed' = mixed
  BY DEF BeginOpen
<1>2. dropped \subseteq manager[d]
  <2> DEFINE kept == manager[d] \ Outdated(d, v)
  <2>1. dropped = Outdated(d, v) \/ \E e \in kept : dropped = Outdated(d, v) \cup {e}
    BY DEF Dropped
  <2> QED BY <2>1 DEF Outdated
<1>3. d \in Hosts /\ manager \in [Hosts -> SUBSET Engines]
  BY DEF Hosts, TypeInv, EnginesTyped
<1>4. manager' \in [Hosts -> SUBSET Engines]
  BY <1>1, <1>3
<1>5. Opens(d, v) \in Engines
  BY <1>3, EngineOfDir
<1>6. CASE Openable(d, v, dropped)
  <2>1. lock' = [lock EXCEPT ![v] = d] /\ opening' = [opening EXCEPT ![d] = [who |-> who, engine |-> Opens(d, v)]]
    BY <1>6 DEF BeginOpen
  <2>2. lock' \in [Vaults -> Hosts \cup {NoOne}]
    BY <2>1, <1>3 DEF TypeInv, VaultsTyped
  <2>3. opening' \in [Daemons -> [who : Askers, engine : Engines] \cup {NoOpening}]
    BY <2>1, <1>5 DEF TypeInv, EnginesTyped
  <2> QED BY <1>1, <1>2, <1>4, <1>6, <2>1, <2>2, <2>3
<1>7. CASE ~Openable(d, v, dropped)
  <2>1. opening' = opening /\ (lock' = lock \/ (Stale /\ lock' = [lock EXCEPT ![v] = NoOne]))
    BY <1>7 DEF BeginOpen
  <2>2. lock' \in [Vaults -> Hosts \cup {NoOne}]
    BY <2>1 DEF TypeInv, VaultsTyped
  <2> QED BY <1>1, <1>2, <1>4, <1>7, <2>1, <2>2 DEF TypeInv, EnginesTyped
<1> QED BY <1>6, <1>7

\* A daemon goes on, or stays: no program does.
LEMMA DaemonsGoOn ==
  ASSUME TypeInv, NEW d \in Daemons, NEW s \in Stages, Enter(d, s) \/ proc' = proc, task' = task
  PROVE  /\ proc' \in [Hosts -> Stages] /\ task' = [p \in Programs |-> task'[p]]
         /\ \A p \in Programs : proc'[p] = proc[p]
         /\ AskedOfVaults'
<1> USE NamesDiffer DEF TypeInv, ProcessesTyped
<1>1. d \in Hosts /\ d \notin Programs /\ Programs \subseteq Hosts
  BY DEF Hosts
<1>2. proc' \in [Hosts -> Stages] /\ \A p \in Programs : proc'[p] = proc[p]
  BY <1>1 DEF Enter
<1>3. AskedOfVaults'
  BY <1>2 DEF AskedOfVaults
<1> QED BY <1>2, <1>3

\* A daemon's start and stop.
LEMMA TypedByStart ==
  ASSUME TypeInv, task' = task, NEW d \in Daemons,
         Look(d) \/ Clear(d) \/ Claim(d) \/ Bind(d) \/ Cancel(d) \/ CleanUp(d) \/ PanelOff(d)
  PROVE  TypeInv'
<1>1. \E s \in Stages : Enter(d, s)
  BY DEF Look, Clear, Claim, Bind, Cancel, CleanUp, PanelOff, Stages
<1>2. /\ UNCHANGED <<dir, lock, manager, panel, opening, working, request>>
      /\ {pidFile, socket}' \subseteq Daemons \cup {NoOne} /\ saw' \in [Daemons -> Daemons \cup {NoOne}]
  BY DEF Look, Clear, Claim, Bind, Cancel, CleanUp, PanelOff, TypeInv, ProcessesTyped, disk, engines, claim
<1>3. /\ proc' \in [Hosts -> Stages] /\ task' = [p \in Programs |-> task'[p]]
      /\ AskedOfVaults'
  BY <1>1, DaemonsGoOn
<1>4. ProcessesTyped'
  BY <1>2, <1>3 DEF ProcessesTyped
<1>5. VaultsTyped' /\ EnginesTyped' /\ RequestsTyped' /\ OpeningAsked'
  BY <1>2 DEF TypeInv, VaultsTyped, EnginesTyped, RequestsTyped, OpeningAsked
<1> QED BY <1>3, <1>4, <1>5 DEF TypeInv

\* Closing all vaults of a daemon, and evicting one, keep the state typed.
LEMMA TypedByClose ==
  ASSUME TypeInv, task' = task, NEW d \in Daemons, CloseAll(d) \/ \E e \in manager[d] : Evict(d, e)
  PROVE  TypeInv'
<1>1. (Enter(d, "closed") \/ proc' = proc) /\ "closed" \in Stages
  BY DEF CloseAll, Evict, Stages
<1>2. UNCHANGED <<pidFile, socket, saw, dir, lock, panel, opening, request>>
  BY DEF CloseAll, Evict, disk, claim
<1>3. d \in Hosts /\ \A e : manager[d] \ {e} \subseteq manager[d] /\ {} \subseteq manager[d]
  BY DEF Hosts
<1>4. manager' \in [Hosts -> SUBSET Engines] /\ working' \subseteq working
  BY <1>3 DEF CloseAll, Evict, TypeInv, EnginesTyped
<1>5. /\ proc' \in [Hosts -> Stages] /\ task' = [p \in Programs |-> task'[p]]
      /\ AskedOfVaults'
  BY <1>1, DaemonsGoOn
<1>6. ProcessesTyped'
  BY <1>2, <1>5 DEF TypeInv, ProcessesTyped
<1>7. VaultsTyped' /\ EnginesTyped' /\ RequestsTyped' /\ OpeningAsked'
  BY <1>2, <1>4 DEF TypeInv, VaultsTyped, EnginesTyped, RequestsTyped, OpeningAsked
<1> QED BY <1>5, <1>6, <1>7 DEF TypeInv

\* The exit and the crash of a daemon keep the state typed.
LEMMA TypedByEnd ==
  ASSUME TypeInv, task' = task, NEW d \in Daemons, Exit(d) \/ Crash(d)
  PROVE  TypeInv'
<1>1. Ended(d)
  BY DEF Exit, Crash
<1>2. Enter(d, "gone") /\ "gone" \in Stages /\ d \in Hosts
  BY <1>1 DEF Ended, Stages, Hosts
<1>3. UNCHANGED <<pidFile, socket, saw, dir>>
  BY <1>1 DEF Ended, disk, claim
<1>4. manager' \in [Hosts -> SUBSET Engines] /\ working' \subseteq working
  BY <1>1, <1>2 DEF Ended, TypeInv, EnginesTyped
<1>5. panel' \in [Daemons -> Engines \cup {NoEngine}]
  BY <1>1 DEF Ended, TypeInv, EnginesTyped
<1>6. opening' = [opening EXCEPT ![d] = NoOpening]
  BY <1>1 DEF Ended
<1>7. opening' \in [Daemons -> [who : Askers, engine : Engines] \cup {NoOpening}]
  BY <1>6 DEF TypeInv, EnginesTyped
<1>8. lock' \in [Vaults -> Hosts \cup {NoOne}]
  BY <1>1 DEF Ended, TypeInv, VaultsTyped
<1>9. request' \in [Clients -> {NoRequest} \cup Asked \cup Refused]
  BY <1>1 DEF Ended, TypeInv, RequestsTyped
<1>10. /\ proc' \in [Hosts -> Stages] /\ task' = [p \in Programs |-> task'[p]]
       /\ AskedOfVaults'
  BY <1>2, DaemonsGoOn
<1>11. OpeningAsked'
  <2> SUFFICES ASSUME NEW x \in Daemons, opening'[x] # NoOpening, opening'[x].who \in Clients
               PROVE  /\ request'[opening'[x].who].pc = "opening" /\ request'[opening'[x].who].to = x
                      /\ opening'[x].engine.vault \in request'[opening'[x].who].todo
    BY DEF OpeningAsked
  <2>1. x # d /\ opening'[x] = opening[x]
    BY <1>6 DEF TypeInv, EnginesTyped
  <2>2. PICK c \in Clients : c = opening[x].who
    BY <2>1
  <2>3. request[c].to = x /\ request[c].pc = "opening" /\ opening[x].engine.vault \in request[c].todo
    BY <2>1, <2>2 DEF TypeInv, OpeningAsked
  <2>4. request'[c] = request[c]
    BY <1>1, <2>1, <2>3 DEF Ended
  <2> QED BY <2>1, <2>2, <2>3, <2>4
<1> QED
  <2>1. ProcessesTyped'
    BY <1>3, <1>10 DEF TypeInv, ProcessesTyped
  <2>2. VaultsTyped' /\ EnginesTyped' /\ RequestsTyped'
    BY <1>3, <1>4, <1>5, <1>7, <1>8, <1>9 DEF TypeInv, VaultsTyped, EnginesTyped, RequestsTyped
  <2> QED BY <1>10, <1>11, <2>1, <2>2 DEF TypeInv

\* The panel and the watch loop open a vault, or show one that is open.
LEMMA TypedByPanel ==
  ASSUME TypeInv, task' = task, NEW d \in Daemons, NEW v \in Vaults,
         Proactive(d, v) \/ PanelStart(d, v) \/ PanelSwitch(d, v)
  PROVE  TypeInv'
<1>1. UNCHANGED <<pidFile, socket, saw, dir, request>>
  BY DEF Proactive, PanelStart, PanelSwitch, disk, claim
<1>2. \E s \in Stages : Enter(d, s) \/ proc' = proc
  BY DEF Proactive, PanelStart, PanelSwitch, Stages
<1>3. opening[d] = NoOpening
  BY DEF Proactive, PanelStart, PanelSwitch, Free
<1>4. /\ proc' \in [Hosts -> Stages] /\ task' = [p \in Programs |-> task'[p]]
      /\ AskedOfVaults'
  BY <1>2, DaemonsGoOn
<1>5. CASE \E who \in {"watch", "panel"}, dropped \in Dropped(d, v) : BeginOpen(d, v, who, dropped) /\ panel' = panel
  <2>1. PICK who \in {"watch", "panel"}, dropped \in Dropped(d, v) : BeginOpen(d, v, who, dropped) /\ panel' = panel
    BY <1>5
  <2>2. who \in Askers /\ who \notin Clients
    BY NamesDiffer DEF Askers
  <2>3. /\ manager' \in [Hosts -> SUBSET Engines] /\ working' \subseteq working
        /\ opening' \in [Daemons -> [who : Askers, engine : Engines] \cup {NoOpening}]
        /\ lock' \in [Vaults -> Hosts \cup {NoOne}]
        /\ opening' = opening \/ opening' = [opening EXCEPT ![d] = [who |-> who, engine |-> Opens(d, v)]]
    BY <2>1, <2>2, RoomMade
  <2>4. OpeningAsked'
    <3>1. \A x \in Daemons : opening'[x] = opening[x] \/ opening'[x].who = who
      BY <2>3 DEF TypeInv, EnginesTyped
    <3> QED BY <1>1, <2>2, <3>1 DEF TypeInv, OpeningAsked
  <2>5. ProcessesTyped' /\ VaultsTyped' /\ EnginesTyped' /\ RequestsTyped'
    BY <1>1, <1>4, <2>1, <2>3 DEF TypeInv, ProcessesTyped, VaultsTyped, EnginesTyped, RequestsTyped
  <2> QED BY <1>4, <2>4, <2>5 DEF TypeInv
<1>6. CASE \E e \in Current(d, v) : panel' = [panel EXCEPT ![d] = e] /\ UNCHANGED <<manager, opening, lock, working, mixed>>
  <2>1. panel' \in [Daemons -> Engines \cup {NoEngine}]
    <3>1. Current(d, v) \subseteq manager[d] /\ d \in Hosts
      BY DEF Current, Hosts
    <3>2. Current(d, v) \subseteq Engines
      BY <3>1 DEF TypeInv, EnginesTyped
    <3> QED BY <1>6, <3>2 DEF TypeInv, EnginesTyped
  <2>2. ProcessesTyped' /\ VaultsTyped' /\ EnginesTyped' /\ RequestsTyped' /\ OpeningAsked'
    BY <1>1, <1>4, <1>6, <2>1 DEF TypeInv, ProcessesTyped, VaultsTyped, EnginesTyped, RequestsTyped, OpeningAsked
  <2> QED BY <1>4, <2>2 DEF TypeInv
<1>7. Proactive(d, v) => \E dropped \in Dropped(d, v) : BeginOpen(d, v, "watch", dropped) /\ panel' = panel
  BY DEF Proactive
<1>8. (PanelStart(d, v) \/ PanelSwitch(d, v)) =>
        \/ \E dropped \in Dropped(d, v) : BeginOpen(d, v, "panel", dropped) /\ panel' = panel
        \/ \E e \in Current(d, v) : panel' = [panel EXCEPT ![d] = e] /\ UNCHANGED <<manager, opening, lock, working, mixed>>
  BY DEF PanelStart, PanelSwitch
<1> QED BY <1>5, <1>6, <1>7, <1>8

\* An engine that is being made is that of its asker.
LEMMA TypedByEndOpen ==
  ASSUME TypeInv, task' = task, NEW d \in Daemons, EndOpen(d)
  PROVE  TypeInv'
<1>1. /\ opening[d] # NoOpening /\ UNCHANGED <<pidFile, socket, saw, dir, lock>>
      /\ manager' = [manager EXCEPT ![d] = @ \cup {Made(d)}] /\ working' = working \cup {Made(d)}
      /\ opening' = [opening EXCEPT ![d] = NoOpening]
      /\ panel' = IF opening[d].who = "panel" THEN [panel EXCEPT ![d] = Made(d)] ELSE panel
  BY DEF EndOpen, disk, claim
<1>2. Made(d) \in Engines /\ Made(d).vault = opening[d].engine.vault /\ d \in Hosts
  BY <1>1, MadeEngine DEF Hosts
<1>3. (Enter(d, "serving") \/ proc' = proc) /\ "serving" \in Stages
  <2>1. Enter(d, IF opening[d].who = "panel" /\ proc[d] = "bound" THEN "serving" ELSE proc[d])
    BY DEF EndOpen
  <2> QED BY <1>2, <2>1 DEF Enter, TypeInv, ProcessesTyped, Stages
<1>4. /\ proc' \in [Hosts -> Stages] /\ task' = [p \in Programs |-> task'[p]]
      /\ AskedOfVaults'
  BY <1>3, DaemonsGoOn
<1>5. EnginesTyped'
  <2>1. manager' \in [Hosts -> SUBSET Engines] /\ working' \subseteq Engines
    BY <1>1, <1>2 DEF TypeInv, EnginesTyped
  <2>2. panel' \in [Daemons -> Engines \cup {NoEngine}]
    BY <1>1, <1>2 DEF TypeInv, EnginesTyped
  <2>3. opening' \in [Daemons -> [who : Askers, engine : Engines] \cup {NoOpening}]
    BY <1>1 DEF TypeInv, EnginesTyped
  <2> QED BY <2>1, <2>2, <2>3 DEF EnginesTyped
<1>6. CASE opening[d].who \in Clients
  <2>1. PICK c \in Clients : c = opening[d].who
    BY <1>6
  <2>2. request[c].pc = "opening" /\ request[c].to = d
    BY <1>1, <2>1 DEF TypeInv, OpeningAsked
  <2>3. request[c] \in Asked
    BY <2>2 DEF TypeInv, RequestsTyped, NoRequest, Refused
  <2>4. request' = [request EXCEPT ![c].todo = @ \ {Made(d).vault}, ![c].got = @ \cup {Made(d)}]
    BY <2>1 DEF EndOpen
  <2>5. request' = [request EXCEPT ![c] = [request[c] EXCEPT !.todo = @ \ {Made(d).vault}, !.got = @ \cup {Made(d)}]]
    BY <2>4 DEF TypeInv, RequestsTyped
  <2>6. [request[c] EXCEPT !.todo = @ \ {Made(d).vault}, !.got = @ \cup {Made(d)}] \in Asked
    <3> DEFINE r == request[c]
    <3>1. r.todo \ {Made(d).vault} \in SUBSET Vaults /\ r.got \cup {Made(d)} \in SUBSET Engines
      BY <1>2, <2>3 DEF Asked
    <3> HIDE DEF r
    <3> QED BY <2>3, <3>1 DEF Asked, r
  <2>7. RequestsTyped'
    BY <2>5, <2>6 DEF TypeInv, RequestsTyped
  <2>8. OpeningAsked'
    <3> SUFFICES ASSUME NEW x \in Daemons, opening'[x] # NoOpening, opening'[x].who \in Clients
                 PROVE  /\ request'[opening'[x].who].pc = "opening" /\ request'[opening'[x].who].to = x
                        /\ opening'[x].engine.vault \in request'[opening'[x].who].todo
      BY DEF OpeningAsked
    <3>1. x # d /\ opening'[x] = opening[x]
      BY <1>1 DEF TypeInv, EnginesTyped
    <3>2. request[opening[x].who].to = x /\ request[opening[x].who].pc = "opening"
          /\ opening[x].engine.vault \in request[opening[x].who].todo
      BY <3>1 DEF TypeInv, OpeningAsked
    <3>3. opening[x].who # c
      BY <2>2, <3>1, <3>2
    <3>4. request'[opening[x].who] = request[opening[x].who]
      BY <2>5, <3>1, <3>3 DEF TypeInv, RequestsTyped
    <3> QED BY <3>1, <3>2, <3>4
  <2> QED BY <1>1, <1>4, <1>5, <2>7, <2>8 DEF TypeInv, ProcessesTyped, VaultsTyped
<1>7. CASE opening[d].who \notin Clients
  <2>1. request' = request
    BY <1>7 DEF EndOpen
  <2>2. \A x \in Daemons : opening'[x] = NoOpening \/ opening'[x] = opening[x]
    BY <1>1 DEF TypeInv, EnginesTyped
  <2>3. OpeningAsked'
    BY <2>1, <2>2 DEF TypeInv, OpeningAsked
  <2> QED BY <1>1, <1>4, <1>5, <2>1, <2>3 DEF TypeInv, ProcessesTyped, VaultsTyped, RequestsTyped
<1> QED BY <1>6, <1>7

\* A request that is no one's opening changes alone.
LEMMA AnotherRequest ==
  ASSUME TypeInv, NEW c \in Clients, NEW r \in {NoRequest} \cup Asked \cup Refused, Becomes(c, r),
         \A d \in Daemons : opening[d] # NoOpening => opening[d].who # c, opening' = opening
  PROVE  RequestsTyped' /\ OpeningAsked'
<1>1. RequestsTyped'
  BY DEF Becomes, TypeInv, RequestsTyped
<1>2. OpeningAsked'
  BY DEF Becomes, TypeInv, RequestsTyped, OpeningAsked
<1> QED BY <1>1, <1>2

\* The steps of a connection, but for the opening of vaults.
LEMMA TypedByRequest ==
  ASSUME TypeInv, task' = task, NEW c \in Clients,
         \/ Serve(c) \/ Got(c) \/ Answer(c)
         \/ \E cmd \in CommandsAsked, vs \in SUBSET Vaults \ {{}} : Connect(c, cmd, vs)
         \/ \E d \in Daemons, v \in Vaults : WatchPhase2(c, d, v)
  PROVE  TypeInv'
<1>1. UNCHANGED <<pidFile, socket, saw, proc, lock, manager, panel, opening, working>>
  BY DEF Serve, Got, Answer, Connect, WatchPhase2, Indexed, disk, engines, claim
<1>2. \A d \in Daemons : opening[d] # NoOpening => opening[d].who # c
  <2>1. \/ request[c].pc \in {"asked", "busy", "refused"} \/ request[c] = NoRequest
        \/ (request[c].pc = "opening" /\ request[c].todo = {})
    BY DEF Serve, Got, Answer, Connect, WatchPhase2
  <2> QED BY <2>1 DEF TypeInv, OpeningAsked, NoRequest
<1>3. \E r \in {NoRequest} \cup Asked \cup Refused : Becomes(c, r)
  <2>0. request[c].pc \in {"asked", "busy", "opening"} => request[c] \in Asked
    BY DEF TypeInv, RequestsTyped, NoRequest, Refused
  <2>1. CASE Answer(c)
    BY <2>1 DEF Answer
  <2>2. CASE Got(c)
    <3>1. [request[c] EXCEPT !.pc = "busy"] \in Asked
      BY <2>0, <2>2 DEF Got, Asked
    <3> QED BY <2>2, <3>1 DEF Got
  <2>3. CASE Serve(c)
    <3>1. request[c] \in Asked
      BY <2>0, <2>3 DEF Serve
    <3>2. [request[c] EXCEPT !.pc = "busy", !.todo = {}] \in Asked /\ [request[c] EXCEPT !.pc = "opening"] \in Asked
      BY <3>1 DEF Asked
    <3> QED BY <2>3, <3>2 DEF Serve
  <2>4. ASSUME NEW cmd \in CommandsAsked, NEW vs \in SUBSET Vaults \ {{}}, Connect(c, cmd, vs)
        PROVE  \E r \in {NoRequest} \cup Asked \cup Refused : Becomes(c, r)
    <3>1. socket \in Daemons
      BY <2>4 DEF Connect, TypeInv, ProcessesTyped
    <3>2. [pc |-> "asked", to |-> socket, cmd |-> cmd, todo |-> vs, got |-> {}] \in Asked
      BY <3>1 DEF Asked
    <3> QED BY <2>4, <3>2 DEF Connect
  <2>5. ASSUME NEW d \in Daemons, NEW v \in Vaults, WatchPhase2(c, d, v)
        PROVE  \E r \in {NoRequest} \cup Asked \cup Refused : Becomes(c, r)
    <3>1. [pc |-> "opening", to |-> d, cmd |-> "watch", todo |-> {v}, got |-> {}] \in Asked
      BY DEF Asked
    <3> QED BY <2>5, <3>1 DEF WatchPhase2
  <2> QED BY <2>1, <2>2, <2>3, <2>4, <2>5
<1>4. RequestsTyped' /\ OpeningAsked'
  BY <1>1, <1>2, <1>3, AnotherRequest
<1>5. dir' \in [Vaults -> [db : Dbs, epoch : Epochs, synced : BOOLEAN]]
  <2>1. dir' = dir \/ \E es, calls : Indexed(es, calls)
    BY DEF Serve, Got, Answer, Connect, WatchPhase2, disk
  <2>2. \A v \in Vaults : dir'[v] = dir[v] \/ dir'[v] = [dir[v] EXCEPT !.synced = TRUE]
    BY <2>1 DEF Indexed
  <2>3. dir' = [v \in Vaults |-> dir'[v]]
    BY <2>1 DEF Indexed, TypeInv, VaultsTyped
  <2>4. \A v \in Vaults : dir'[v] \in [db : Dbs, epoch : Epochs, synced : BOOLEAN]
    BY <2>2 DEF TypeInv, VaultsTyped
  <2> QED BY <2>3, <2>4
<1> QED BY <1>1, <1>4, <1>5 DEF TypeInv, ProcessesTyped, VaultsTyped, EnginesTyped, AskedOfVaults

\* A request's get_or_open keeps the state typed.
LEMMA TypedByGetOrOpen ==
  ASSUME TypeInv, task' = task, NEW c \in Clients, NEW v \in Vaults, GetOrOpen(c, v)
  PROVE  TypeInv'
<1>0. PICK d : d = request[c].to
  OBVIOUS
<1>1. /\ request[c].pc = "opening" /\ opening[d] = NoOpening /\ v \in request[c].todo
      /\ UNCHANGED <<pidFile, socket, saw, proc, dir, panel>>
  BY <1>0 DEF GetOrOpen, disk, claim
<1>2. request[c] \in Asked
  BY <1>1 DEF TypeInv, RequestsTyped, NoRequest, Refused
<1>3. d \in Daemons /\ d \in Hosts
  BY <1>0, <1>2 DEF Asked, Hosts
<1>4. \A x \in Daemons : opening[x] # NoOpening => opening[x].who # c
  BY <1>0, <1>1 DEF TypeInv, OpeningAsked
<1>5. CASE \E e \in Current(d, v) :
             /\ Becomes(c, [request[c] EXCEPT !.todo = @ \ {v}, !.got = @ \cup {e}])
             /\ UNCHANGED <<manager, opening, lock, working, mixed>>
  <2>1. PICK e \in Current(d, v) :
             /\ Becomes(c, [request[c] EXCEPT !.todo = @ \ {v}, !.got = @ \cup {e}])
             /\ UNCHANGED <<manager, opening, lock, working, mixed>>
    BY <1>5
  <2>2. e \in Engines
    BY <1>3 DEF Current, TypeInv, EnginesTyped
  <2>3. [request[c] EXCEPT !.todo = @ \ {v}, !.got = @ \cup {e}] \in Asked
    <3> DEFINE r == request[c]
    <3>1. r.todo \ {v} \in SUBSET Vaults /\ r.got \cup {e} \in SUBSET Engines
      BY <1>2, <2>2 DEF Asked
    <3> HIDE DEF r
    <3> QED BY <1>2, <3>1 DEF Asked, r
  <2>4. RequestsTyped' /\ OpeningAsked'
    BY <1>4, <2>1, <2>3, AnotherRequest
  <2> QED BY <1>1, <2>1, <2>4 DEF TypeInv, ProcessesTyped, VaultsTyped, EnginesTyped, AskedOfVaults
<1>6. ASSUME NEW dropped \in Dropped(d, v), BeginOpen(d, v, c, dropped),
             IF Openable(d, v, dropped) THEN UNCHANGED request
             ELSE Becomes(c, [pc |-> "refused", to |-> d, held |-> dir[v] # NoDir, own |-> OwnHold(d, v, dropped)])
      PROVE  TypeInv'
  <2>1. /\ manager' \in [Hosts -> SUBSET Engines] /\ working' \subseteq working
        /\ opening' \in [Daemons -> [who : Askers, engine : Engines] \cup {NoOpening}]
        /\ lock' \in [Vaults -> Hosts \cup {NoOne}]
        /\ \/ Openable(d, v, dropped) /\ opening' = [opening EXCEPT ![d] = [who |-> c, engine |-> Opens(d, v)]]
           \/ ~Openable(d, v, dropped) /\ opening' = opening
    BY <1>3, <1>6, RoomMade DEF Askers
  <2>2. EnginesTyped'
    BY <1>1, <2>1 DEF TypeInv, EnginesTyped
  <2>3. CASE Openable(d, v, dropped)
    <3>1. request' = request /\ opening' = [opening EXCEPT ![d] = [who |-> c, engine |-> Opens(d, v)]]
      BY <1>6, <2>1, <2>3
    <3>2. Opens(d, v).vault = v
      BY DEF Opens
    <3>3. OpeningAsked'
      <4> SUFFICES ASSUME NEW x \in Daemons, opening'[x] # NoOpening, opening'[x].who \in Clients
                   PROVE  /\ request'[opening'[x].who].pc = "opening" /\ request'[opening'[x].who].to = x
                          /\ opening'[x].engine.vault \in request'[opening'[x].who].todo
        BY DEF OpeningAsked
      <4>1. CASE x = d
        <5>1. opening'[x] = [who |-> c, engine |-> Opens(d, v)]
          BY <3>1, <4>1 DEF TypeInv, EnginesTyped
        <5> QED BY <1>0, <1>1, <3>1, <3>2, <4>1, <5>1
      <4>2. CASE x # d
        <5>1. opening'[x] = opening[x]
          BY <3>1, <4>2 DEF TypeInv, EnginesTyped
        <5> QED BY <3>1, <5>1 DEF TypeInv, OpeningAsked
      <4> QED BY <4>1, <4>2
    <3> QED BY <1>1, <2>1, <2>2, <3>1, <3>3 DEF TypeInv, ProcessesTyped, VaultsTyped, RequestsTyped, AskedOfVaults
  <2>4. CASE ~Openable(d, v, dropped)
    <3>1. [pc |-> "refused", to |-> d, held |-> dir[v] # NoDir, own |-> OwnHold(d, v, dropped)] \in Refused
      <4>1. OwnHold(d, v, dropped) \in BOOLEAN
        BY DEF OwnHold
      <4> QED BY <1>3, <4>1 DEF Refused
    <3>2. opening' = opening
      BY <2>1, <2>4
    <3>3. RequestsTyped' /\ OpeningAsked'
      BY <1>4, <1>6, <2>4, <3>1, <3>2, AnotherRequest
    <3> QED BY <1>1, <2>1, <2>2, <3>3 DEF TypeInv, ProcessesTyped, VaultsTyped, AskedOfVaults
  <2> QED BY <2>3, <2>4
<1> QED BY <1>0, <1>5, <1>6 DEF GetOrOpen

\* A directory is put, or changed, as a whole.
LEMMA DirectoryTyped ==
  ASSUME TypeInv, NEW v, NEW made,
         v \in Vaults => made \in [db : Dbs, epoch : Epochs, synced : BOOLEAN], Directory(v, made)
  PROVE  dir' \in [Vaults -> [db : Dbs, epoch : Epochs, synced : BOOLEAN]]
<1>1. dir' = [dir EXCEPT ![v] = made] /\ dir \in [Vaults -> [db : Dbs, epoch : Epochs, synced : BOOLEAN]]
  BY DEF Directory, TypeInv, VaultsTyped
<1> QED BY <1>1

\* A program is done, or goes on.
LEMMA ProgramsGoOn ==
  ASSUME TypeInv, NEW p \in Programs, NEW s \in Stages \ {"asking"}, GoOn(p, s) \/ Done(p)
  PROVE  /\ proc' \in [Hosts -> Stages] /\ task' = [x \in Programs |-> task'[x]]
         /\ AskedOfVaults' /\ manager' \in [Hosts -> SUBSET Engines]
<1>1. p \in Hosts /\ "gone" \in Stages \ {"asking"} /\ Programs \subseteq Hosts
  BY DEF Hosts, Stages
<1>2. proc' \in [Hosts -> Stages] /\ proc'[p] # "asking" /\ \A x \in Hosts \ {p} : proc'[x] = proc[x]
  BY <1>1 DEF GoOn, Done, Enter, TypeInv, ProcessesTyped
<1>3. task' = [x \in Programs |-> task'[x]] /\ \A x \in Programs \ {p} : task'[x] = task[x]
  BY DEF GoOn, Done, TypeInv, ProcessesTyped
<1>4. manager' \in [Hosts -> SUBSET Engines]
  BY <1>1 DEF GoOn, Done, TypeInv, EnginesTyped
<1>5. AskedOfVaults'
  BY <1>1, <1>2, <1>3 DEF TypeInv, AskedOfVaults
<1> QED BY <1>2, <1>3, <1>4, <1>5

\* The programs' steps.
LEMMA TypedByMaking ==
  ASSUME TypeInv, NEW p \in Programs,
         \/ MakeDir(p) \/ Validate(p) \/ WriteManifest(p) \/ WriteEpoch(p)
         \/ RemoveDir(p) \/ RestoreConfig(p) \/ Work(p) \/ KillProgram(p)
  PROVE  TypeInv'
<1>1. UNCHANGED <<pidFile, socket, saw, panel, opening, working, request>>
  BY DEF MakeDir, Validate, WriteManifest, WriteEpoch, RemoveDir, RestoreConfig, Work, KillProgram,
         Indexed, others, disk, claim
<1>2. \E s \in Stages \ {"asking"} : GoOn(p, s) \/ Done(p)
  BY DEF MakeDir, Validate, WriteManifest, WriteEpoch, RemoveDir, RestoreConfig, Work, KillProgram, Stages
<1>3. /\ proc' \in [Hosts -> Stages] /\ task' = [x \in Programs |-> task'[x]]
      /\ AskedOfVaults' /\ manager' \in [Hosts -> SUBSET Engines]
  BY <1>2, ProgramsGoOn
<1> DEFINE Dirs == [db : Dbs, epoch : Epochs, synced : BOOLEAN]
<1>4. NoDir \in Dirs /\ [db |-> p, epoch |-> NoEpoch, synced |-> FALSE] \in Dirs
  BY DEF NoDir, Dbs, Epochs
<1>5. \A v \in Vaults : /\ dir[v] \in Dirs /\ [dir[v] EXCEPT !.synced = FALSE] \in Dirs
                        /\ [dir[v] EXCEPT !.synced = TRUE] \in Dirs /\ [dir[v] EXCEPT !.epoch = p] \in Dirs
  <2> SUFFICES ASSUME NEW v \in Vaults
               PROVE  /\ dir[v] \in Dirs /\ [dir[v] EXCEPT !.synced = FALSE] \in Dirs
                      /\ [dir[v] EXCEPT !.synced = TRUE] \in Dirs /\ [dir[v] EXCEPT !.epoch = p] \in Dirs
    OBVIOUS
  <2>1. dir[v] \in Dirs /\ p \in Epochs
    BY DEF TypeInv, VaultsTyped, Epochs
  <2> QED BY <2>1
<1>6. dir' \in [Vaults -> Dirs]
  <2>0. \A v, made : (v \in Vaults => made \in Dirs) /\ Directory(v, made) => dir' \in [Vaults -> Dirs]
    BY DirectoryTyped
  <2>1. dir' = dir => dir' \in [Vaults -> Dirs]
    BY DEF TypeInv, VaultsTyped
  <2>2. CASE MakeDir(p)
    <3> DEFINE v == task[p].vault
    <3>1. \/ dir' = dir
          \/ Directory(v, IF dir[v] # NoDir THEN dir[v] ELSE [db |-> p, epoch |-> NoEpoch, synced |-> FALSE])
      BY <2>2 DEF MakeDir
    <3>2. v \in Vaults => (IF dir[v] # NoDir THEN dir[v] ELSE [db |-> p, epoch |-> NoEpoch, synced |-> FALSE]) \in Dirs
      BY <1>4, <1>5
    <3> HIDE DEF v, Dirs
    <3> QED BY <2>0, <2>1, <3>1, <3>2
  <2>3. CASE Validate(p) \/ RemoveDir(p)
    <3>1. dir' = dir \/ Directory(task[p].vault, NoDir)
      BY <2>3 DEF Validate, RemoveDir, Remove
    <3> HIDE DEF Dirs
    <3> QED BY <1>4, <2>0, <2>1, <3>1
  <2>4. CASE WriteManifest(p)
    <3> DEFINE v == task[p].vault
    <3>1. dir' = dir \/ Directory(v, [dir[v] EXCEPT !.synced = FALSE])
      BY <2>4 DEF WriteManifest
    <3>2. v \in Vaults => [dir[v] EXCEPT !.synced = FALSE] \in Dirs
      BY <1>5
    <3> HIDE DEF v, Dirs
    <3> QED BY <2>0, <2>1, <3>1, <3>2
  <2>5. CASE WriteEpoch(p)
    <3> DEFINE v == task[p].vault
    <3>1. dir' = dir \/ Directory(v, [dir[v] EXCEPT !.epoch = p])
      BY <2>5 DEF WriteEpoch, NextEpoch
    <3>2. v \in Vaults => [dir[v] EXCEPT !.epoch = p] \in Dirs
      BY <1>5
    <3> HIDE DEF v, Dirs
    <3> QED BY <2>0, <2>1, <3>1, <3>2
  <2>6. CASE Work(p)
    <3>1. \A v \in Vaults : dir'[v] = dir[v] \/ dir'[v] = [dir[v] EXCEPT !.synced = TRUE]
      BY <2>6 DEF Work, Indexed
    <3>2. dir' = [v \in Vaults |-> dir'[v]]
      BY <2>6 DEF Work, Indexed
    <3>3. \A v \in Vaults : dir'[v] \in Dirs
      BY <1>5, <3>1
    <3> HIDE DEF Dirs
    <3> QED BY <3>2, <3>3
  <2>7. CASE RestoreConfig(p) \/ KillProgram(p)
    <3>1. dir' = dir
      BY <2>7 DEF RestoreConfig, KillProgram, disk
    <3> QED BY <2>1, <3>1
  <2> QED BY <2>2, <2>3, <2>4, <2>5, <2>6, <2>7
<1>7. lock' \in [Vaults -> Hosts \cup {NoOne}]
  BY DEF MakeDir, Validate, WriteManifest, WriteEpoch, RemoveDir, RestoreConfig, Work, KillProgram,
         Remove, others, TypeInv, VaultsTyped
<1>8. ProcessesTyped' /\ VaultsTyped' /\ EnginesTyped' /\ RequestsTyped' /\ OpeningAsked'
  BY <1>1, <1>3, <1>6, <1>7 DEF TypeInv, ProcessesTyped, VaultsTyped, EnginesTyped, RequestsTyped, OpeningAsked
<1> QED BY <1>3, <1>8 DEF TypeInv

\* The steps of a program that leave the directories alone keep the state typed.
LEMMA TypedByRegister ==
  ASSUME TypeInv, NEW p \in Programs,
         \/ ReadRegistry(p) \/ WriteRegistry(p) \/ OpenLocal(p)
         \/ \E v \in Vaults : \E cmd, force : RunProgram(p, v, cmd, force)
  PROVE  TypeInv'
<1>1. UNCHANGED <<pidFile, socket, saw, dir, panel, opening, working, request>>
  BY DEF ReadRegistry, WriteRegistry, OpenLocal, RunProgram, others, disk, claim
<1>2. p \in Hosts /\ Programs \subseteq Hosts /\ {"asking", "making", "gone", "registered", "removing", "ready"} \subseteq Stages
  BY DEF Hosts, Stages
<1>3. CASE OpenLocal(p)
  <2>1. proc[p] = "asking"
    BY <1>3 DEF OpenLocal
  <2>2. task[p].vault \in Vaults
    BY <2>1 DEF TypeInv, AskedOfVaults
  <2>3. Opens(p, task[p].vault) \in Engines
    BY <1>2, <2>2, EngineOfDir
  <2>5. CASE (GoOn(p, "ready") \/ Done(p)) /\ lock' = lock
    <3>0. "ready" \in Stages \ {"asking"}
      BY DEF Stages
    <3>1. /\ proc' \in [Hosts -> Stages] /\ task' = [x \in Programs |-> task'[x]]
          /\ AskedOfVaults' /\ manager' \in [Hosts -> SUBSET Engines]
      BY <2>5, <3>0, ProgramsGoOn
    <3> QED BY <1>1, <2>5, <3>1 DEF TypeInv, ProcessesTyped, VaultsTyped, EnginesTyped, RequestsTyped, OpeningAsked
  <2>6. CASE /\ manager' = [manager EXCEPT ![p] = {Opens(p, task[p].vault)}]
             /\ lock' = [lock EXCEPT ![task[p].vault] = p] /\ task' = task
             /\ Enter(p, IF task[p].cmd = "rebuild" THEN "removing" ELSE "ready")
    <3>1. manager' \in [Hosts -> SUBSET Engines] /\ lock' \in [Vaults -> Hosts \cup {NoOne}]
      BY <1>2, <2>3, <2>6 DEF TypeInv, EnginesTyped, VaultsTyped
    <3>2. proc' \in [Hosts -> Stages] /\ proc'[p] # "asking" /\ \A x \in Hosts \ {p} : proc'[x] = proc[x]
      BY <1>2, <2>6 DEF Enter, TypeInv, ProcessesTyped
    <3>3. AskedOfVaults'
      BY <1>2, <2>6, <3>2 DEF TypeInv, AskedOfVaults
    <3> QED BY <1>1, <2>6, <3>1, <3>2, <3>3
            DEF TypeInv, ProcessesTyped, VaultsTyped, EnginesTyped, RequestsTyped, OpeningAsked
  <2> QED BY <1>3, <2>5, <2>6 DEF OpenLocal
<1>4. CASE ReadRegistry(p)
  <2>1. /\ proc' \in [Hosts -> Stages] /\ proc'[p] # "asking" /\ \A x \in Hosts \ {p} : proc'[x] = proc[x]
        /\ manager' = manager /\ lock' = lock
    BY <1>2, <1>4 DEF ReadRegistry, Enter, TypeInv, ProcessesTyped, disk
  <2>2. task' = [x \in Programs |-> task'[x]] /\ \A x \in Programs \ {p} : task'[x] = task[x]
    BY <1>4 DEF ReadRegistry, TypeInv, ProcessesTyped
  <2>3. AskedOfVaults'
    BY <1>2, <2>1, <2>2 DEF TypeInv, AskedOfVaults
  <2> QED BY <1>1, <2>1, <2>2, <2>3
          DEF TypeInv, ProcessesTyped, VaultsTyped, EnginesTyped, RequestsTyped, OpeningAsked
<1>5. CASE WriteRegistry(p)
  <2>1. Done(p) /\ lock' = lock
    BY <1>5 DEF WriteRegistry, others
  <2>2. "ready" \in Stages \ {"asking"}
    BY DEF Stages
  <2>3. /\ proc' \in [Hosts -> Stages] /\ task' = [x \in Programs |-> task'[x]]
        /\ AskedOfVaults' /\ manager' \in [Hosts -> SUBSET Engines]
    BY <2>1, <2>2, ProgramsGoOn
  <2> QED BY <1>1, <2>1, <2>3
          DEF TypeInv, ProcessesTyped, VaultsTyped, EnginesTyped, RequestsTyped, OpeningAsked
<1>6. ASSUME NEW v \in Vaults, NEW cmd, NEW force, RunProgram(p, v, cmd, force)
      PROVE  TypeInv'
  <2>1. /\ proc' \in [Hosts -> Stages] /\ \A x \in Hosts \ {p} : proc'[x] = proc[x]
        /\ manager' = manager /\ lock' = lock
    BY <1>2, <1>6 DEF RunProgram, Enter, TypeInv, ProcessesTyped, disk
  <2>2. /\ task' = [x \in Programs |-> task'[x]] /\ \A x \in Programs \ {p} : task'[x] = task[x]
        /\ task'[p].vault = v
    BY <1>6 DEF RunProgram, TypeInv, ProcessesTyped
  <2>3. AskedOfVaults'
    BY <1>2, <2>1, <2>2 DEF TypeInv, AskedOfVaults
  <2> QED BY <1>1, <2>1, <2>2, <2>3
          DEF TypeInv, ProcessesTyped, VaultsTyped, EnginesTyped, RequestsTyped, OpeningAsked
<1> QED BY <1>3, <1>4, <1>5, <1>6

\* The removal of a vault's directory by anyone keeps the state typed.
LEMMA TypedByDelete ==
  ASSUME TypeInv, NEW v \in Vaults, Delete(v)
  PROVE  TypeInv'
<1>1. UNCHANGED <<pidFile, socket, saw, proc, task, manager, panel, opening, working, request>>
  BY DEF Delete, claim
<1>2. Directory(v, NoDir) /\ lock' = [lock EXCEPT ![v] = NoOne]
  BY DEF Delete, Remove
<1>3. NoDir \in [db : Dbs, epoch : Epochs, synced : BOOLEAN]
  BY DEF NoDir, Dbs, Epochs
<1>4. dir' \in [Vaults -> [db : Dbs, epoch : Epochs, synced : BOOLEAN]]
  BY <1>2, <1>3, DirectoryTyped
<1>5. lock' \in [Vaults -> Hosts \cup {NoOne}]
  BY <1>2 DEF TypeInv, VaultsTyped
<1> QED BY <1>1, <1>4, <1>5
        DEF TypeInv, ProcessesTyped, VaultsTyped, EnginesTyped, RequestsTyped, AskedOfVaults, OpeningAsked

\* A step is one of a daemon, a connection, a program or whoever deletes a vault.
DaemonStep(d) ==
  \/ Look(d) \/ Clear(d) \/ Claim(d) \/ Bind(d) \/ Cancel(d) \/ CleanUp(d) \/ PanelOff(d)
  \/ CloseAll(d) \/ (\E e \in manager[d] : Evict(d, e))
  \/ Exit(d) \/ Crash(d) \/ EndOpen(d)
  \/ \E v \in Vaults : Proactive(d, v) \/ PanelStart(d, v) \/ PanelSwitch(d, v)
ClientStep(c) ==
  \/ Serve(c) \/ Got(c) \/ Answer(c)
  \/ (\E cmd \in CommandsAsked, vs \in SUBSET Vaults \ {{}} : Connect(c, cmd, vs))
  \/ (\E d \in Daemons, v \in Vaults : WatchPhase2(c, d, v))
  \/ \E v \in Vaults : GetOrOpen(c, v)

\* A step is a daemon's, a client's, a program's, or the removal of a directory.
LEMMA StepsOfSetup ==
  ASSUME [SetupNext]_setupVars
  PROVE  \/ UNCHANGED setupVars
         \/ task' = task /\ (\E d \in Daemons : DaemonStep(d))
         \/ task' = task /\ (\E c \in Clients : ClientStep(c))
         \/ \E p \in Programs : ProgramStep(p)
         \/ \E v \in Vaults : Delete(v)
<1>1. DaemonNext /\ task' = task => (\E d \in Daemons : DaemonStep(d)) \/ (\E c \in Clients : ClientStep(c))
  BY DEF DaemonNext, DaemonStep, ClientStep
<1>2. (\E p \in Programs : ProgramStep(p)) \/ (\E v \in Vaults : Delete(v)) \/ (DaemonNext /\ task' = task)
      \/ UNCHANGED setupVars
  BY DEF SetupNext, ProgramStep
<1> QED BY <1>1, <1>2

\* Every step keeps the types.
LEMMA TypesKept == TypeInv /\ [SetupNext]_setupVars => TypeInv'
<1> SUFFICES ASSUME TypeInv, [SetupNext]_setupVars PROVE TypeInv'
  OBVIOUS
<1>1. CASE UNCHANGED setupVars
  BY <1>1 DEF setupVars, daemonVars, TypeInv, ProcessesTyped, VaultsTyped, EnginesTyped, RequestsTyped,
              AskedOfVaults, OpeningAsked
<1>2. ASSUME task' = task, NEW d \in Daemons, DaemonStep(d) PROVE TypeInv'
  BY <1>2, TypedByStart, TypedByClose, TypedByEnd, TypedByEndOpen, TypedByPanel DEF DaemonStep
<1>3. ASSUME task' = task, NEW c \in Clients, ClientStep(c) PROVE TypeInv'
  BY <1>3, TypedByRequest, TypedByGetOrOpen DEF ClientStep
<1>4. ASSUME NEW p \in Programs, ProgramStep(p) PROVE TypeInv'
  <2>1. CASE ReadRegistry(p) \/ WriteRegistry(p) \/ OpenLocal(p) \/ \E v \in Vaults : \E cmd, force : RunProgram(p, v, cmd, force)
    BY <2>1, TypedByRegister
  <2> QED BY <1>4, <2>1, TypedByMaking DEF ProgramStep
<1>5. ASSUME NEW v \in Vaults, Delete(v) PROVE TypeInv'
  BY <1>5, TypedByDelete
<1> QED BY <1>1, <1>2, <1>3, <1>4, <1>5, StepsOfSetup

----------------------------------------------------------------------------
(* What a process has open. *)

\* An engine a process has open, by where it holds it.
Uses(h, e) ==
  \/ e \in manager[h]
  \/ /\ h \in Daemons
     /\ \/ panel[h] # NoEngine /\ e = panel[h]
        \/ opening[h] # NoOpening /\ e = opening[h].engine
        \/ \E c \in Clients : request[c].pc \in {"opening", "busy"} /\ request[c].to = h /\ e \in request[c].got

\* An engine is in use exactly if a process, the panel, an opening or a request refers to it.
LEMMA UsesAreInUse ==
  ASSUME TypeInv, NEW h \in Hosts, NEW e
  PROVE  e \in InUse(h) <=> Uses(h, e)
<1>1. h \in Daemons => (opening[h].who = NoOne <=> opening[h] = NoOpening)
  BY NamesDiffer DEF TypeInv, EnginesTyped, Askers, NoOpening, NoOne
<1>2. h \in Daemons => (e \in Referred(h) <=>
         \/ panel[h] # NoEngine /\ e = panel[h]
         \/ \E c \in Clients : request[c].pc \in {"opening", "busy"} /\ request[c].to = h /\ e \in request[c].got)
  BY DEF Referred
<1> QED BY <1>1, <1>2 DEF InUse, Uses

\* No process has an engine it had not; or one of them has this one more.
Shrinks == \A h \in Hosts : \A e : Uses(h, e)' => Uses(h, e)
Grows(x, new) == \A h \in Hosts : \A e : Uses(h, e)' => Uses(h, e) \/ (h = x /\ e = new)

\* Starting, stopping and closing open nothing.
LEMMA ShrinksByStart ==
  ASSUME TypeInv, NEW d \in Daemons,
         \/ Look(d) \/ Clear(d) \/ Claim(d) \/ Bind(d) \/ Cancel(d) \/ CleanUp(d) \/ PanelOff(d)
         \/ CloseAll(d) \/ (\E e \in manager[d] : Evict(d, e))
  PROVE  Shrinks
<1>1. UNCHANGED <<panel, opening, request>>
  BY DEF Look, Clear, Claim, Bind, Cancel, CleanUp, PanelOff, CloseAll, Evict, engines
<1>2. \A h \in Hosts : manager'[h] \subseteq manager[h]
  BY DEF Look, Clear, Claim, Bind, Cancel, CleanUp, PanelOff, CloseAll, Evict, engines, TypeInv, EnginesTyped
<1> QED BY <1>1, <1>2 DEF Shrinks, Uses

\* A daemon that ends uses no engine afterwards, and no other uses more.
LEMMA ShrinksByEnd ==
  ASSUME TypeInv, NEW d \in Daemons, Exit(d) \/ Crash(d)
  PROVE  Shrinks /\ \A e : ~Uses(d, e)'
<1>1. Ended(d) /\ d \in Hosts
  BY DEF Exit, Crash, Hosts
<1>2. /\ manager'[d] = {} /\ panel'[d] = NoEngine /\ opening'[d] = NoOpening
      /\ \A h \in Hosts \ {d} : manager'[h] = manager[h]
      /\ \A h \in Daemons \ {d} : panel'[h] = panel[h] /\ opening'[h] = opening[h]
  BY <1>1 DEF Ended, TypeInv, EnginesTyped
<1>3. \A c \in Clients : IF request[c].pc # "idle" /\ request[c].to = d THEN request'[c] = NoRequest
                         ELSE request'[c] = request[c]
  BY <1>1 DEF Ended
<1>4. \A e : ~Uses(d, e)'
  BY <1>2, <1>3 DEF Uses, NoRequest
<1>5. Shrinks
  <2> SUFFICES ASSUME NEW h \in Hosts, NEW e, Uses(h, e)' PROVE Uses(h, e)
    BY DEF Shrinks
  <2>1. h # d
    BY <1>4
  <2>2. \A c \in Clients : request'[c].pc \in {"opening", "busy"} => request'[c] = request[c]
    BY <1>3 DEF NoRequest
  <2> QED BY <1>2, <2>1, <2>2 DEF Uses
<1> QED BY <1>4, <1>5

\* A request that has just been asked has got nothing.
NothingGot == \A c \in Clients : request[c].pc = "asked" => request[c].got = {}

\* A request that was only asked holds no engine yet, and every step keeps it so.
LEMMA NothingGotKept == TypeInv /\ NothingGot /\ [SetupNext]_setupVars => NothingGot'
<1> SUFFICES ASSUME TypeInv, NothingGot, [SetupNext]_setupVars PROVE NothingGot'
  OBVIOUS
<1> USE DEF NothingGot
<1>1. CASE request' = request
  BY <1>1
<1>2. ASSUME NEW c \in Clients, ClientStep(c) PROVE NothingGot'
  <2>1. CASE \E cmd \in CommandsAsked, vs \in SUBSET Vaults \ {{}} : Connect(c, cmd, vs)
    BY <2>1 DEF Connect, Becomes, TypeInv, RequestsTyped
  <2>3. CASE \E d \in Daemons, v \in Vaults : WatchPhase2(c, d, v)
    BY <2>3 DEF WatchPhase2, Becomes, TypeInv, RequestsTyped
  <2>2. CASE Serve(c) \/ Got(c) \/ Answer(c) \/ (\E v \in Vaults : GetOrOpen(c, v))
    <3>1. request' = request \/ \E r : Becomes(c, r) /\ r.pc # "asked"
      <4>1. request[c].pc \in {"asked", "opening", "busy"} => request[c] \in Asked
        BY DEF TypeInv, RequestsTyped, NoRequest, Refused
      <4>2. CASE Answer(c)
        BY <4>2 DEF Answer, NoRequest
      <4>3. CASE Got(c)
        BY <4>1, <4>3 DEF Got, Asked
      <4>4. CASE Serve(c)
        <5> DEFINE b == [request[c] EXCEPT !.pc = "busy", !.todo = {}]
                   o == [request[c] EXCEPT !.pc = "opening"]
        <5>1. Becomes(c, b) \/ Becomes(c, NoRequest) \/ Becomes(c, o)
          BY <4>4 DEF Serve
        <5>2. b.pc = "busy" /\ o.pc = "opening" /\ NoRequest.pc = "idle"
          BY <4>1, <4>4 DEF Serve, Asked, NoRequest
        <5> HIDE DEF b, o
        <5> QED BY <5>1, <5>2
      <4>5. ASSUME NEW v \in Vaults, GetOrOpen(c, v) PROVE request' = request \/ \E r : Becomes(c, r) /\ r.pc # "asked"
        <5>0. request[c] \in Asked
          BY <4>1, <4>5 DEF GetOrOpen
        <5>1. CASE \E e : Becomes(c, [request[c] EXCEPT !.todo = @ \ {v}, !.got = @ \cup {e}])
          <6>1. PICK e : Becomes(c, [request[c] EXCEPT !.todo = @ \ {v}, !.got = @ \cup {e}])
            BY <5>1
          <6> DEFINE r == [request[c] EXCEPT !.todo = @ \ {v}, !.got = @ \cup {e}]
          <6>2. r.pc = request[c].pc /\ Becomes(c, r) /\ request[c].pc = "opening"
            BY <4>5, <5>0, <6>1 DEF Asked, GetOrOpen
          <6> HIDE DEF r
          <6> QED BY <6>2
        <5>2. ASSUME NEW dropped, ~Openable(request[c].to, v, dropped) =>
                       Becomes(c, [pc |-> "refused", to |-> request[c].to, held |-> dir[v] # NoDir,
                                   own |-> OwnHold(request[c].to, v, dropped)]),
                     Openable(request[c].to, v, dropped) => request' = request
              PROVE  request' = request \/ \E r : Becomes(c, r) /\ r.pc # "asked"
          <6> DEFINE r == [pc |-> "refused", to |-> request[c].to, held |-> dir[v] # NoDir,
                           own |-> OwnHold(request[c].to, v, dropped)]
          <6>1. r.pc = "refused" /\ (Becomes(c, r) \/ request' = request)
            BY <5>2
          <6> HIDE DEF r
          <6> QED BY <6>1
        <5> QED BY <4>5, <5>1, <5>2 DEF GetOrOpen
      <4> QED BY <2>2, <4>2, <4>3, <4>4, <4>5
    <3> QED BY <3>1 DEF Becomes, TypeInv, RequestsTyped
  <2> QED BY <1>2, <2>1, <2>2, <2>3 DEF ClientStep
<1>3. ASSUME NEW d \in Daemons, DaemonStep(d) PROVE NothingGot'
  <2>1. CASE request' = request
    BY <2>1
  <2>2. CASE Exit(d) \/ Crash(d)
    BY <2>2 DEF Exit, Crash, Ended, NoRequest
  <2>3. CASE EndOpen(d)
    <3>1. CASE opening[d].who \in Clients
      <4>1. request[opening[d].who].pc = "opening"
        BY <2>3, <3>1 DEF EndOpen, TypeInv, OpeningAsked
      <4>2. request[opening[d].who] \in Asked
        BY <3>1, <4>1 DEF TypeInv, RequestsTyped, NoRequest, Refused
      <4>3. request' = [request EXCEPT ![opening[d].who].todo = @ \ {Made(d).vault},
                                       ![opening[d].who].got = @ \cup {Made(d)}]
        BY <2>3, <3>1 DEF EndOpen
      <4>4. request'[opening[d].who].pc = "opening"
        BY <3>1, <4>1, <4>2, <4>3 DEF TypeInv, RequestsTyped, Asked
      <4>5. \A c \in Clients : c # opening[d].who => request'[c] = request[c]
        BY <4>3 DEF TypeInv, RequestsTyped
      <4> QED BY <4>4, <4>5
    <3> QED BY <2>3, <3>1 DEF EndOpen
  <2>4. Exit(d) \/ Crash(d) \/ EndOpen(d) \/ request' = request
    BY <1>3 DEF DaemonStep, Look, Clear, Claim, Bind, Cancel, CleanUp, PanelOff, CloseAll, Evict,
                Proactive, PanelStart, PanelSwitch
  <2> QED BY <2>1, <2>2, <2>3, <2>4
<1>4. ASSUME NEW p \in Programs, ProgramStep(p) PROVE request' = request
  BY <1>4 DEF ProgramStep, MakeDir, Validate, WriteManifest, WriteEpoch, ReadRegistry, WriteRegistry,
              OpenLocal, RemoveDir, RestoreConfig, Work, KillProgram, RunProgram, others
<1> QED BY <1>1, <1>2, <1>3, <1>4, StepsOfSetup DEF Delete, setupVars, daemonVars

\* The steps of a request but get_or_open make no engine used that was not.
LEMMA ShrinksByRequest ==
  ASSUME TypeInv, NothingGot, NEW c \in Clients,
         \/ Serve(c) \/ Got(c) \/ Answer(c)
         \/ \E cmd \in CommandsAsked, vs \in SUBSET Vaults \ {{}} : Connect(c, cmd, vs)
         \/ \E d \in Daemons, v \in Vaults : WatchPhase2(c, d, v)
  PROVE  Shrinks
<1>1. UNCHANGED <<manager, panel, opening>>
  BY DEF Serve, Got, Answer, Connect, WatchPhase2, engines
<1>2. PICK r : Becomes(c, r) /\ (r.pc \in {"opening", "busy"} =>
                r.got = {} \/ (request[c].pc = "opening" /\ r.to = request[c].to /\ r.got = request[c].got))
  <2>0. request[c].pc \in {"asked", "opening"} => request[c] \in Asked
    BY DEF TypeInv, RequestsTyped, NoRequest, Refused
  <2>1. CASE Answer(c)
    BY <2>1 DEF Answer, NoRequest
  <2>2. CASE Got(c)
    BY <2>0, <2>2 DEF Got, Asked
  <2>3. CASE Serve(c)
    <3> DEFINE b == [request[c] EXCEPT !.pc = "busy", !.todo = {}]
               o == [request[c] EXCEPT !.pc = "opening"]
    <3>1. Becomes(c, b) \/ Becomes(c, NoRequest) \/ Becomes(c, o)
      BY <2>3 DEF Serve
    <3>2. b.got = {} /\ o.got = {} /\ NoRequest.pc = "idle"
      BY <2>0, <2>3 DEF Serve, Asked, NoRequest, NothingGot
    <3> HIDE DEF b, o
    <3> QED BY <3>1, <3>2
  <2>4. CASE \E cmd \in CommandsAsked, vs \in SUBSET Vaults \ {{}} : Connect(c, cmd, vs)
    BY <2>4 DEF Connect
  <2>5. CASE \E d \in Daemons, v \in Vaults : WatchPhase2(c, d, v)
    BY <2>5 DEF WatchPhase2
  <2> QED BY <2>1, <2>2, <2>3, <2>4, <2>5
<1>3. \A x \in Clients : request'[x] = IF x = c THEN r ELSE request[x]
  BY <1>2 DEF Becomes, TypeInv, RequestsTyped
<1> QED BY <1>1, <1>2, <1>3 DEF Shrinks, Uses

\* What is opened is one engine more; a refusal is none.
LEMMA UsesByBegin ==
  ASSUME TypeInv, NEW d \in Daemons, NEW v \in Vaults, NEW who \in Askers,
         NEW dropped \in Dropped(d, v), BeginOpen(d, v, who, dropped), panel' = panel,
         \A c \in Clients : request'[c] = request[c] \/ request'[c].pc = "refused"
  PROVE  (Openable(d, v, dropped) => Grows(d, Opens(d, v))) /\ (~Openable(d, v, dropped) => Shrinks)
<1>1. /\ \A h \in Hosts : manager'[h] \subseteq manager[h]
      /\ ~Openable(d, v, dropped) => opening' = opening
      /\ Openable(d, v, dropped) => opening' = [opening EXCEPT ![d] = [who |-> who, engine |-> Opens(d, v)]]
  BY RoomMade DEF TypeInv, EnginesTyped
<1>2. CASE ~Openable(d, v, dropped)
  BY <1>1, <1>2 DEF Shrinks, Uses
<1>3. CASE Openable(d, v, dropped)
  <2>1. \A x \in Daemons : opening'[x] = IF x = d THEN [who |-> who, engine |-> Opens(d, v)] ELSE opening[x]
    BY <1>1, <1>3 DEF TypeInv, EnginesTyped
  <2> HIDE DEF Opens
  <2> QED BY <1>1, <1>3, <2>1 DEF Grows, Uses
<1> QED BY <1>2, <1>3

\* The panel shows an engine the manager has, and so does a request get one.
LEMMA UsesByPanel ==
  ASSUME TypeInv, NEW d \in Daemons, NEW v \in Vaults, NEW e \in Current(d, v),
         panel' = [panel EXCEPT ![d] = e], UNCHANGED <<manager, opening, request>>
  PROVE  Shrinks
<1>1. e \in manager[d]
  BY DEF Current
<1>2. \A x \in Daemons : panel'[x] = IF x = d THEN e ELSE panel[x]
  BY DEF TypeInv, EnginesTyped
<1> QED BY <1>1, <1>2 DEF Shrinks, Uses

\* A request that takes an engine from the manager uses one the daemon used already.
LEMMA UsesByGetting ==
  ASSUME TypeInv, NEW c \in Clients, NEW d \in Daemons, d = request[c].to, request[c].pc = "opening", NEW v \in Vaults,
         NEW e \in Current(d, v), Becomes(c, [request[c] EXCEPT !.todo = @ \ {v}, !.got = @ \cup {e}]),
         UNCHANGED <<manager, opening, panel>>
  PROVE  Shrinks
<1>1. e \in manager[d]
  BY DEF Current
<1>2. request[c] \in Asked
  BY DEF TypeInv, RequestsTyped, NoRequest, Refused
<1>3. PICK r : r = [request[c] EXCEPT !.todo = @ \ {v}, !.got = @ \cup {e}]
  OBVIOUS
<1>4. r.to = d /\ r.got = request[c].got \cup {e}
  BY <1>2, <1>3 DEF Asked
<1>5. \A x \in Clients : request'[x] = IF x = c THEN r ELSE request[x]
  BY <1>3 DEF Becomes, TypeInv, RequestsTyped
<1> QED BY <1>1, <1>4, <1>5 DEF Shrinks, Uses

\* The end of an open makes one more engine used: the one that was made.
LEMMA UsesByEndOpen ==
  ASSUME TypeInv, NEW d \in Daemons, EndOpen(d)
  PROVE  Grows(d, Made(d))
<1>0. PICK e : e = Made(d)
  OBVIOUS
<1>1. /\ opening[d] # NoOpening /\ d \in Hosts
      /\ manager' = [manager EXCEPT ![d] = manager[d] \cup {e}]
      /\ \A x \in Daemons : opening'[x] = IF x = d THEN NoOpening ELSE opening[x]
      /\ \A x \in Daemons : panel'[x] = panel[x] \/ (x = d /\ panel'[x] = e)
  BY <1>0 DEF EndOpen, Hosts, TypeInv, EnginesTyped
<1>2. \A c \in Clients : request'[c] = request[c]
                         \/ (request[c].pc = "opening" /\ request[c].to = d /\ request'[c].to = d /\ request'[c].got = request[c].got \cup {e})
  <2>1. CASE opening[d].who \in Clients
    <3>1. PICK w : w = opening[d].who
      OBVIOUS
    <3>2. request[w].pc = "opening" /\ request[w].to = d /\ w \in Clients
      BY <1>1, <2>1, <3>1 DEF TypeInv, OpeningAsked
    <3>3. request[w] \in Asked
      BY <3>2 DEF TypeInv, RequestsTyped, NoRequest, Refused
    <3>4. request' = [request EXCEPT ![w].todo = @ \ {e.vault}, ![w].got = @ \cup {e}]
      BY <1>0, <2>1, <3>1 DEF EndOpen
    <3>5. request'[w].to = d /\ request'[w].got = request[w].got \cup {e}
      BY <3>2, <3>3, <3>4 DEF TypeInv, RequestsTyped, Asked
    <3>6. \A c \in Clients : c # w => request'[c] = request[c]
      BY <3>4 DEF TypeInv, RequestsTyped
    <3> QED BY <3>2, <3>5, <3>6
  <2>2. CASE opening[d].who \notin Clients
    BY <2>2 DEF EndOpen
  <2> QED BY <2>1, <2>2
<1>3. \A h \in Hosts : \A x : Uses(h, x)' => Uses(h, x) \/ (h = d /\ x = e)
  <2> SUFFICES ASSUME NEW h \in Hosts, NEW x, Uses(h, x)', ~(h = d /\ x = e) PROVE Uses(h, x)
    OBVIOUS
  <2>1. CASE x \in manager'[h]
    <3>0. manager' = [manager EXCEPT ![d] = manager[d] \cup {e}] /\ manager \in [Hosts -> SUBSET Engines]
      BY <1>1 DEF TypeInv, EnginesTyped
    <3>1. x \in manager[h]
      BY <2>1, <3>0
    <3> QED BY <3>1 DEF Uses
  <2>2. CASE h \in Daemons /\ panel'[h] # NoEngine /\ x = panel'[h]
    BY <1>1, <2>2 DEF Uses
  <2>3. CASE h \in Daemons /\ opening'[h] # NoOpening /\ x = opening'[h].engine
    BY <1>1, <2>3 DEF Uses
  <2>4. ASSUME h \in Daemons, NEW c \in Clients, request'[c].pc \in {"opening", "busy"}, request'[c].to = h, x \in request'[c].got
        PROVE  Uses(h, x)
    BY <1>2, <2>4 DEF Uses
  <2> QED BY <2>1, <2>2, <2>3, <2>4 DEF Uses
<1> QED BY <1>0, <1>3 DEF Grows

\* A program has its database open from one step to its end.
LEMMA UsesByProgram ==
  ASSUME TypeInv, NEW p \in Programs, ProgramStep(p)
  PROVE  \/ Shrinks
         \/ /\ OpenLocal(p) /\ Grows(p, Opens(p, task[p].vault)) /\ task[p].vault \in Vaults
            /\ dir[task[p].vault] # NoDir /\ ~Locked(task[p].vault)
            /\ lock' = [lock EXCEPT ![task[p].vault] = p]
<1>1. UNCHANGED <<panel, opening, request>>
  BY DEF ProgramStep, MakeDir, Validate, WriteManifest, WriteEpoch, ReadRegistry, WriteRegistry, OpenLocal,
         RemoveDir, RestoreConfig, Work, KillProgram, RunProgram, others
<1>2. p \in Hosts
  BY DEF Hosts
<1>3. CASE manager' = manager \/ manager' = [manager EXCEPT ![p] = {}]
  <2>1. \A h \in Hosts : manager'[h] \subseteq manager[h]
    BY <1>2, <1>3 DEF TypeInv, EnginesTyped
  <2> QED BY <1>1, <2>1 DEF Shrinks, Uses
<1>4. CASE OpenLocal(p) /\ ~(manager' = manager \/ manager' = [manager EXCEPT ![p] = {}])
  <2>1. task[p].vault \in Vaults
    BY <1>4 DEF OpenLocal, TypeInv, AskedOfVaults
  <2>2. /\ dir[task[p].vault] # NoDir /\ ~Locked(task[p].vault)
        /\ manager' = [manager EXCEPT ![p] = {Opens(p, task[p].vault)}]
        /\ lock' = [lock EXCEPT ![task[p].vault] = p]
    BY <1>4 DEF OpenLocal, GoOn, Done
  <2>3. \A h \in Hosts : \A e : e \in manager'[h] => e \in manager[h] \/ (h = p /\ e = Opens(p, task[p].vault))
    BY <1>2, <2>2 DEF TypeInv, EnginesTyped
  <2>4. Grows(p, Opens(p, task[p].vault))
    BY <1>1, <2>3 DEF Grows, Uses
  <2> QED BY <1>4, <2>1, <2>2, <2>4
<1>5. OpenLocal(p) \/ manager' = manager \/ manager' = [manager EXCEPT ![p] = {}]
  BY DEF ProgramStep, MakeDir, Validate, WriteManifest, WriteEpoch, ReadRegistry, WriteRegistry,
         RemoveDir, RestoreConfig, Work, KillProgram, RunProgram, GoOn, Done
<1> QED BY <1>3, <1>4, <1>5

\* A daemon opens a vault for its watch loop, its panel or a request of its.
Opened(d, v, who, dropped) ==
  /\ BeginOpen(d, v, who, dropped) /\ Openable(d, v, dropped) /\ opening[d] = NoOpening
  /\ Grows(d, Opens(d, v)) /\ dir' = dir /\ proc' = proc
  /\ \/ proc[d] \in {"bound", "serving"} \/ panel[d] # NoEngine
     \/ \E c \in Clients : request[c].pc = "opening" /\ request[c].to = d
  /\ overrun' \/ proc[d] # "exiting"

\* All the ways to have an engine more.
LEMMA UsesOfStep ==
  ASSUME TypeInv, NothingGot, [SetupNext]_setupVars
  PROVE  \/ Shrinks
         \/ \E d \in Daemons : EndOpen(d) /\ Grows(d, Made(d))
         \/ \E d \in Daemons, v \in Vaults, who \in Askers : \E dropped \in Dropped(d, v) : Opened(d, v, who, dropped)
         \/ \E p \in Programs : /\ OpenLocal(p) /\ Grows(p, Opens(p, task[p].vault)) /\ task[p].vault \in Vaults
                                /\ dir[task[p].vault] # NoDir /\ ~Locked(task[p].vault)
                                /\ lock' = [lock EXCEPT ![task[p].vault] = p]
<1> DEFINE Some == \E d \in Daemons, v \in Vaults, who \in Askers : \E dropped \in Dropped(d, v) : Opened(d, v, who, dropped)
<1>1. ASSUME UNCHANGED setupVars PROVE Shrinks
  BY <1>1 DEF setupVars, daemonVars, Shrinks, Uses
<1>2. ASSUME NEW d \in Daemons, NEW v \in Vaults, Proactive(d, v) \/ PanelStart(d, v) \/ PanelSwitch(d, v)
      PROVE  Shrinks \/ Some
  <2>1. CASE \E e \in Current(d, v) : panel' = [panel EXCEPT ![d] = e] /\ UNCHANGED <<manager, opening, request>>
    BY <2>1, UsesByPanel
  <2>2. CASE /\ proc[d] \in {"bound", "serving"} \/ panel[d] # NoEngine
             /\ opening[d] = NoOpening /\ request' = request /\ panel' = panel /\ dir' = dir
             /\ \E who \in {"watch", "panel"} : \E dropped \in Dropped(d, v) :
                  BeginOpen(d, v, who, dropped) /\ (~Openable(d, v, dropped) \/ proc' = proc)
             /\ overrun' \/ proc[d] # "exiting"
    <3>1. PICK who \in {"watch", "panel"} : \E dropped \in Dropped(d, v) :
                  BeginOpen(d, v, who, dropped) /\ (~Openable(d, v, dropped) \/ proc' = proc)
      BY <2>2
    <3>2. PICK dropped \in Dropped(d, v) : BeginOpen(d, v, who, dropped) /\ (~Openable(d, v, dropped) \/ proc' = proc)
      BY <3>1
    <3>3. who \in Askers
      BY DEF Askers
    <3>4. (Openable(d, v, dropped) => Grows(d, Opens(d, v))) /\ (~Openable(d, v, dropped) => Shrinks)
      BY <2>2, <3>2, <3>3, UsesByBegin
    <3>5. CASE Openable(d, v, dropped)
      <4>1. Opened(d, v, who, dropped)
        BY <2>2, <3>2, <3>4, <3>5 DEF Opened
      <4> QED BY <3>3, <4>1
    <3> QED BY <3>4, <3>5
  <2>3. CASE Proactive(d, v)
    BY <2>2, <2>3 DEF Proactive, Free, disk
  <2>4. CASE PanelStart(d, v)
    <3>1. proc[d] = "bound" => [proc EXCEPT ![d] = "bound"] = proc
      BY DEF TypeInv, ProcessesTyped, Hosts
    <3> QED BY <2>1, <2>2, <2>4, <3>1 DEF PanelStart, Free, disk, Enter
  <2>5. CASE PanelSwitch(d, v)
    BY <2>1, <2>2, <2>5 DEF PanelSwitch, Free, disk
  <2> QED BY <1>2, <2>3, <2>4, <2>5
<1>3. ASSUME NEW c \in Clients, NEW v \in Vaults, GetOrOpen(c, v)
      PROVE  Shrinks \/ Some
  <2>1. PICK d : d = request[c].to
    OBVIOUS
  <2>2. request[c].pc = "opening" /\ opening[d] = NoOpening /\ panel' = panel /\ dir' = dir /\ proc' = proc
    BY <1>3, <2>1 DEF GetOrOpen, disk
  <2>3. request[c] \in Asked
    BY <2>2 DEF TypeInv, RequestsTyped, NoRequest, Refused
  <2>4. d \in Daemons /\ c \in Askers
    BY <2>1, <2>3 DEF Asked, Askers
  <2>5. CASE \E e \in Current(d, v) :
              /\ Becomes(c, [request[c] EXCEPT !.todo = @ \ {v}, !.got = @ \cup {e}])
              /\ UNCHANGED <<manager, opening, lock, working, mixed>>
    BY <2>1, <2>2, <2>4, <2>5, UsesByGetting
  <2>6. ASSUME NEW dropped \in Dropped(d, v), BeginOpen(d, v, c, dropped),
               IF Openable(d, v, dropped) THEN UNCHANGED request
               ELSE Becomes(c, [pc |-> "refused", to |-> d, held |-> dir[v] # NoDir, own |-> OwnHold(d, v, dropped)])
        PROVE  Shrinks \/ Some
    <3>1. \A x \in Clients : request'[x] = request[x] \/ request'[x].pc = "refused"
      BY <2>6 DEF Becomes, TypeInv, RequestsTyped
    <3>2. (Openable(d, v, dropped) => Grows(d, Opens(d, v))) /\ (~Openable(d, v, dropped) => Shrinks)
      BY <2>2, <2>4, <2>6, <3>1, UsesByBegin
    <3>3. overrun' \/ proc[d] # "exiting"
      BY <1>3, <2>1 DEF GetOrOpen
    <3>4. CASE Openable(d, v, dropped)
      <4>1. Opened(d, v, c, dropped)
        BY <2>1, <2>2, <2>6, <3>2, <3>3, <3>4 DEF Opened
      <4> QED BY <2>4, <2>6, <4>1
    <3> QED BY <3>2, <3>4
  <2> QED BY <1>3, <2>1, <2>5, <2>6 DEF GetOrOpen
<1>4. ASSUME NEW d \in Daemons, DaemonStep(d) PROVE Shrinks \/ (EndOpen(d) /\ Grows(d, Made(d))) \/ Some
  BY <1>2, <1>4, ShrinksByStart, ShrinksByEnd, UsesByEndOpen DEF DaemonStep
<1>5. ASSUME NEW c \in Clients, ClientStep(c) PROVE Shrinks \/ Some
  BY <1>3, <1>5, ShrinksByRequest DEF ClientStep
<1>6. ASSUME NEW v \in Vaults, Delete(v) PROVE Shrinks
  BY <1>6 DEF Delete, Shrinks, Uses
<1> HIDE DEF Some
<1> DEFINE Ends == \E d \in Daemons : EndOpen(d) /\ Grows(d, Made(d))
<1>7. ASSUME NEW d \in Daemons, DaemonStep(d) PROVE Shrinks \/ Ends \/ Some
  BY <1>4, <1>7
<1> HIDE DEF Ends
<1>8. Shrinks \/ Some \/ Ends \/ \E p \in Programs : ProgramStep(p)
  BY <1>1, <1>5, <1>6, <1>7, StepsOfSetup
<1>9. CASE Ends
  BY <1>9 DEF Ends
<1>10. CASE Some
  BY <1>10 DEF Some
<1> QED BY <1>8, <1>9, <1>10, UsesByProgram

\* Every engine is its process's own.
Owned == \A h \in Hosts : \A e : Uses(h, e) => e.by = h

\* Every process uses only engines it made, and every step keeps it so.
LEMMA OwnedKept == TypeInv /\ NothingGot /\ Owned /\ [SetupNext]_setupVars => Owned'
<1> SUFFICES ASSUME TypeInv, NothingGot, Owned, [SetupNext]_setupVars PROVE Owned'
  OBVIOUS
<1>0. \A x, new : Grows(x, new) /\ new.by = x => Owned'
  BY DEF Grows, Owned
<1>1. CASE Shrinks
  BY <1>1 DEF Shrinks, Owned
<1>2. ASSUME NEW d \in Daemons, EndOpen(d), Grows(d, Made(d)) PROVE Owned'
  <2>1. opening[d] # NoOpening /\ d \in Hosts
    BY <1>2 DEF EndOpen, Hosts
  <2>2. Made(d).by = opening[d].engine.by /\ Uses(d, opening[d].engine)
    BY <2>1, MadeEngine DEF Uses
  <2> QED BY <1>0, <1>2, <2>1, <2>2 DEF Owned
<1>3. ASSUME NEW d, NEW v, Grows(d, Opens(d, v)) PROVE Owned'
  BY <1>0, <1>3 DEF Opens
<1>4. \A d, v, who, dropped : Opened(d, v, who, dropped) => Grows(d, Opens(d, v))
  BY DEF Opened
<1> QED BY <1>1, <1>2, <1>3, <1>4, UsesOfStep

----------------------------------------------------------------------------
(* The workers. *)

\* Every worker runs on an engine of its process's manager, which is never too
\* full and has room for the engine being made.
WorkersHeld == \A e \in working : e.by \in Daemons /\ e \in manager[e.by]
RoomFor ==
  \A d \in Daemons :
    /\ IsFiniteSet(manager[d]) /\ Cardinality(manager[d]) <= MaxOpen
    /\ opening[d] # NoOpening => Cardinality(manager[d]) < MaxOpen

\* A set stays finite and as large at most when elements leave.
LEMMA Fewer ==
  ASSUME NEW S, NEW T, IsFiniteSet(S), T \subseteq S
  PROVE  IsFiniteSet(T) /\ Cardinality(T) <= Cardinality(S) /\ Cardinality(S) \in Nat /\ Cardinality(T) \in Nat
BY FS_Subset, FS_CardinalityType

\* After the room is made there is a place.
LEMMA PlaceMade ==
  ASSUME RoomFor, NEW d \in Daemons, NEW v, NEW dropped \in Dropped(d, v)
  PROVE  IsFiniteSet(manager[d] \ dropped) /\ Cardinality(manager[d] \ dropped) < MaxOpen
<1> DEFINE kept == manager[d] \ Outdated(d, v)
<1>1. IsFiniteSet(manager[d]) /\ Cardinality(manager[d]) <= MaxOpen /\ MaxOpen \in Nat \ {0}
  BY DaemonConstants DEF RoomFor
<1>2. IsFiniteSet(kept) /\ Cardinality(kept) <= MaxOpen /\ Cardinality(kept) \in Nat
  <2>1. kept \subseteq manager[d]
    OBVIOUS
  <2> HIDE DEF kept
  <2> QED BY <1>1, <2>1, Fewer
<1>3. \/ Cardinality(kept) < MaxOpen /\ dropped = Outdated(d, v)
      \/ \E e \in kept : dropped = Outdated(d, v) \cup {e}
  BY DEF Dropped
<1>4. CASE Cardinality(kept) < MaxOpen /\ dropped = Outdated(d, v)
  BY <1>2, <1>4
<1>5. CASE \E e \in kept : dropped = Outdated(d, v) \cup {e}
  <2>1. PICK e \in kept : dropped = Outdated(d, v) \cup {e}
    BY <1>5
  <2>2. manager[d] \ dropped = kept \ {e}
    BY <2>1
  <2> HIDE DEF kept
  <2>3. IsFiniteSet(kept \ {e}) /\ Cardinality(kept \ {e}) = Cardinality(kept) - 1
    BY <1>2, <2>1, FS_RemoveElement
  <2>4. Cardinality(kept \ {e}) < MaxOpen
    BY <1>1, <1>2, <2>3
  <2> QED BY <2>2, <2>3, <2>4
<1> QED BY <1>3, <1>4, <1>5

\* Managers lose engines with their workers, and nothing is begun.
Closes ==
  /\ \A d \in Daemons : manager'[d] \subseteq manager[d] /\ (opening'[d] = opening[d] \/ opening'[d] = NoOpening)
  /\ \A e \in working' : e \in working /\ (e.by \in Daemons /\ e \in manager[e.by] => e \in manager'[e.by])
Begins == \E d \in Daemons, v \in Vaults, who \in Askers : \E dropped \in Dropped(d, v) : BeginOpen(d, v, who, dropped)

\* What a step does to the managers: closings only, the begin of an open, or its end.
LEMMA ManagerOfStep ==
  ASSUME TypeInv, [SetupNext]_setupVars
  PROVE  Closes \/ Begins \/ \E d \in Daemons : EndOpen(d)
<1>0. UNCHANGED <<manager, opening, working>> => Closes
  BY DEF Closes
<1>1. ASSUME NEW d \in Daemons, DaemonStep(d) PROVE Closes \/ Begins \/ EndOpen(d)
  <2>0. d \in Hosts /\ Daemons \subseteq Hosts
    BY DEF Hosts
  <2>1. CASE CloseAll(d)
    <3>1. /\ opening' = opening /\ working' = working \ manager[d]
          /\ \A x \in Daemons : manager'[x] = IF x = d THEN {} ELSE manager[x]
      BY <2>0, <2>1 DEF CloseAll, TypeInv, EnginesTyped
    <3> QED BY <3>1 DEF Closes
  <2>2. ASSUME NEW e \in manager[d], Evict(d, e) PROVE Closes
    <3>1. /\ opening' = opening /\ working' = working \ {e}
          /\ \A x \in Daemons : manager'[x] = IF x = d THEN manager[x] \ {e} ELSE manager[x]
      BY <2>0, <2>2 DEF Evict, TypeInv, EnginesTyped
    <3> QED BY <3>1 DEF Closes
  <2>3. CASE Exit(d) \/ Crash(d)
    <3>0. Ended(d)
      BY <2>3 DEF Exit, Crash
    <3>1. /\ working' = {e \in working : e.by # d}
          /\ \A x \in Daemons : manager'[x] = IF x = d THEN {} ELSE manager[x]
          /\ \A x \in Daemons : opening'[x] = IF x = d THEN NoOpening ELSE opening[x]
      BY <2>0, <3>0 DEF Ended, TypeInv, EnginesTyped
    <3> QED BY <3>1 DEF Closes
  <2>4. CASE \E v \in Vaults : Proactive(d, v) \/ PanelStart(d, v) \/ PanelSwitch(d, v)
    <3>1. {"watch", "panel"} \subseteq Askers
      BY DEF Askers
    <3> QED BY <1>0, <2>4, <3>1 DEF Proactive, PanelStart, PanelSwitch, Begins
  <2>5. CASE Look(d) \/ Clear(d) \/ Claim(d) \/ Bind(d) \/ Cancel(d) \/ CleanUp(d) \/ PanelOff(d)
    BY <1>0, <2>5 DEF Look, Clear, Claim, Bind, Cancel, CleanUp, PanelOff, engines
  <2> QED BY <1>1, <2>1, <2>2, <2>3, <2>4, <2>5 DEF DaemonStep
<1>2. ASSUME NEW c \in Clients, ClientStep(c) PROVE Closes \/ Begins
  <2>1. CASE \E v \in Vaults : GetOrOpen(c, v)
    <3>1. PICK v \in Vaults : GetOrOpen(c, v)
      BY <2>1
    <3>a. request[c].pc = "opening"
      BY <3>1 DEF GetOrOpen
    <3>2. request[c] \in Asked
      BY <3>a DEF TypeInv, RequestsTyped, NoRequest, Refused
    <3>3. request[c].to \in Daemons /\ c \in Askers
      BY <3>2 DEF Asked, Askers
    <3> QED BY <1>0, <3>1, <3>3 DEF GetOrOpen, Begins
  <2>2. CASE ~\E v \in Vaults : GetOrOpen(c, v)
    BY <1>0, <1>2, <2>2 DEF ClientStep, Serve, Got, Answer, Connect, WatchPhase2, engines
  <2> QED BY <2>1, <2>2
<1>3. ASSUME NEW p \in Programs, ProgramStep(p) PROVE Closes
  <2>1. UNCHANGED <<opening, working>>
    BY <1>3 DEF ProgramStep, MakeDir, Validate, WriteManifest, WriteEpoch, ReadRegistry, WriteRegistry,
                OpenLocal, RemoveDir, RestoreConfig, Work, KillProgram, RunProgram, others
  <2>2. manager' = manager \/ \E S : manager' = [manager EXCEPT ![p] = S]
    BY <1>3 DEF ProgramStep, MakeDir, Validate, WriteManifest, WriteEpoch, ReadRegistry, WriteRegistry,
                OpenLocal, RemoveDir, RestoreConfig, Work, KillProgram, RunProgram, GoOn, Done
  <2>3. \A d \in Daemons : manager'[d] = manager[d]
    BY <2>2, NamesDiffer DEF TypeInv, EnginesTyped, Hosts
  <2> QED BY <2>1, <2>3 DEF Closes
<1>4. ASSUME NEW v \in Vaults, Delete(v) PROVE Closes
  BY <1>0, <1>4 DEF Delete
<1>5. CASE UNCHANGED setupVars
  BY <1>0, <1>5 DEF setupVars, daemonVars
<1> QED BY <1>1, <1>2, <1>3, <1>4, <1>5, StepsOfSetup

\* Every step keeps the room and the workers.
LEMMA WorkersKept == TypeInv /\ Owned /\ WorkersHeld /\ RoomFor /\ [SetupNext]_setupVars => WorkersHeld' /\ RoomFor'
<1> SUFFICES ASSUME TypeInv, Owned, WorkersHeld, RoomFor, [SetupNext]_setupVars PROVE WorkersHeld' /\ RoomFor'
  OBVIOUS
<1>1. CASE Closes
  <2>1. WorkersHeld'
    BY <1>1 DEF Closes, WorkersHeld
  <2>2. ASSUME NEW d \in Daemons
        PROVE  /\ IsFiniteSet(manager'[d]) /\ Cardinality(manager'[d]) <= MaxOpen
               /\ opening'[d] # NoOpening => Cardinality(manager'[d]) < MaxOpen
    <3>1. IsFiniteSet(manager'[d]) /\ Cardinality(manager'[d]) <= Cardinality(manager[d])
          /\ Cardinality(manager[d]) \in Nat /\ Cardinality(manager'[d]) \in Nat
      BY <1>1, Fewer DEF Closes, RoomFor
    <3> QED BY <1>1, <3>1, DaemonConstants DEF Closes, RoomFor
  <2> QED BY <2>1, <2>2 DEF RoomFor
<1>2. CASE Begins
  <2>1. PICK d \in Daemons, v \in Vaults, who \in Askers : \E dropped \in Dropped(d, v) : BeginOpen(d, v, who, dropped)
    BY <1>2 DEF Begins
  <2>2. PICK dropped \in Dropped(d, v) : BeginOpen(d, v, who, dropped)
    BY <2>1
  <2>3. manager' = [manager EXCEPT ![d] = @ \ dropped] /\ working' = working \ dropped
        /\ \A x \in Daemons : x = d \/ opening'[x] = opening[x]
    BY <2>2, RoomMade DEF TypeInv, EnginesTyped
  <2>4. \A x \in Daemons : manager'[x] = IF x = d THEN manager[x] \ dropped ELSE manager[x]
    BY <2>3 DEF TypeInv, EnginesTyped, Hosts
  <2>5. WorkersHeld'
    BY <2>3, <2>4 DEF WorkersHeld
  <2>6. IsFiniteSet(manager[d] \ dropped) /\ Cardinality(manager[d] \ dropped) < MaxOpen
    BY <2>2, PlaceMade
  <2>7. Cardinality(manager[d] \ dropped) \in Nat
    BY <2>6, FS_CardinalityType
  <2>8. \A x \in Daemons : x # d => /\ IsFiniteSet(manager'[x]) /\ Cardinality(manager'[x]) <= MaxOpen
                                    /\ opening'[x] # NoOpening => Cardinality(manager'[x]) < MaxOpen
    BY <2>3, <2>4 DEF RoomFor
  <2>9. IsFiniteSet(manager'[d]) /\ Cardinality(manager'[d]) < MaxOpen /\ Cardinality(manager'[d]) <= MaxOpen
    BY <2>4, <2>6, <2>7, DaemonConstants
  <2>10. RoomFor'
    BY <2>8, <2>9 DEF RoomFor
  <2> QED BY <2>5, <2>10
<1>3. ASSUME NEW d \in Daemons, EndOpen(d) PROVE WorkersHeld' /\ RoomFor'
  <2>0. PICK e : e = Made(d)
    OBVIOUS
  <2>1. /\ opening[d] # NoOpening /\ d \in Hosts /\ working' = working \cup {e}
        /\ manager' = [manager EXCEPT ![d] = @ \cup {e}] /\ opening' = [opening EXCEPT ![d] = NoOpening]
    BY <1>3, <2>0 DEF EndOpen, Hosts
  <2>2. e.by = d
    BY <2>0, <2>1, MadeEngine DEF Owned, Uses
  <2>3. \A x \in Daemons : manager'[x] = IF x = d THEN manager[x] \cup {e} ELSE manager[x]
    BY <2>1 DEF TypeInv, EnginesTyped, Hosts
  <2>4. \A x \in Daemons : opening'[x] = IF x = d THEN NoOpening ELSE opening[x]
    BY <2>1 DEF TypeInv, EnginesTyped
  <2>5. WorkersHeld'
    BY <2>1, <2>2, <2>3 DEF WorkersHeld
  <2>6. IsFiniteSet(manager[d]) /\ Cardinality(manager[d]) < MaxOpen /\ Cardinality(manager[d]) \in Nat /\ MaxOpen \in Nat
    BY <2>1, FS_CardinalityType, DaemonConstants DEF RoomFor
  <2>7. /\ IsFiniteSet(manager[d] \cup {e})
        /\ Cardinality(manager[d] \cup {e}) \in {Cardinality(manager[d]), Cardinality(manager[d]) + 1}
    BY <2>6, FS_AddElement
  <2>8. Cardinality(manager[d] \cup {e}) <= MaxOpen
    BY <2>6, <2>7
  <2>9. RoomFor'
    BY <2>3, <2>4, <2>7, <2>8 DEF RoomFor
  <2> QED BY <2>5, <2>9
<1> QED BY <1>1, <1>2, <1>3, ManagerOfStep

\* Background workers run only on vaults their daemon's manager holds, of which
\* there are at most MAX_OPEN_VAULTS, whichever way a vault is closed.
THEOREM WorkersOnlyWhereOpen == SetupSpec => []WorkersOfOpenVaults
<1>1. SetupInit => TypeInv /\ NothingGot /\ Owned /\ WorkersHeld /\ RoomFor
  <2> SUFFICES ASSUME SetupInit PROVE TypeInv /\ NothingGot /\ Owned /\ WorkersHeld /\ RoomFor
    OBVIOUS
  <2>1. NothingGot /\ Owned /\ WorkersHeld
    BY DEF SetupInit, DaemonInit, NothingGot, NoRequest, Owned, Uses, WorkersHeld
  <2>2. RoomFor
    BY FS_EmptySet, DaemonConstants DEF SetupInit, DaemonInit, RoomFor, Hosts
  <2> QED BY <2>1, <2>2, TypedInit
<1>2. WorkersHeld /\ RoomFor => WorkersOfOpenVaults
  BY DEF WorkersHeld, RoomFor, WorkersOfOpenVaults
<1> QED BY <1>1, <1>2, TypesKept, NothingGotKept, OwnedKept, WorkersKept, PTL DEF SetupSpec

----------------------------------------------------------------------------
(* The handles. *)

\* A program that has not written its epoch yet; no directory and no handle has it.
Before == {"unborn", "asking", "removing", "making", "made", "valid", "empty"}
EpochOnce ==
  \A p \in Programs : proc[p] \in Before =>
    /\ \A v \in Vaults : dir[v].epoch # p
    /\ \A d \in Daemons : \A e \in manager[d] : e.epoch # p
\* A handle of the epoch of its directory is one of its database.
HandlesTrue ==
  \A d \in Daemons : \A e \in manager[d] \ mixed :
    dir[e.vault].epoch = e.epoch /\ e.epoch # NoEpoch => e.db = dir[e.vault].db

\* A directory keeps its database and its epoch or has none, unless a program
\* writes its epoch into it.
KeptOrNone == \A v \in Vaults : (dir'[v].db = dir[v].db /\ dir'[v].epoch = dir[v].epoch) \/ dir'[v].epoch = NoEpoch
Writes(p) ==
  /\ proc[p] = "empty" /\ proc'[p] \notin Before
  /\ \A v \in Vaults : dir'[v].db = dir[v].db /\ dir'[v].epoch \in {dir[v].epoch, p}

\* A program's step keeps the epochs of the directories, or removes some, or writes its own.
LEMMA DirOfProgram ==
  ASSUME TypeInv, NEW p \in Programs, ProgramStep(p)
  PROVE  KeptOrNone \/ Writes(p)
<1>0. dir' = dir => KeptOrNone
  BY DEF KeptOrNone
<1>1. CASE MakeDir(p)
  <2>1. /\ dir' = dir \/ Directory(task[p].vault, [db |-> p, epoch |-> NoEpoch, synced |-> FALSE])
                      \/ Directory(task[p].vault, dir[task[p].vault])
    BY <1>1 DEF MakeDir
  <2> QED BY <1>0, <2>1 DEF Directory, KeptOrNone, TypeInv, VaultsTyped
<1>2. CASE Validate(p) \/ RemoveDir(p)
  <2>1. dir' = dir \/ Directory(task[p].vault, NoDir)
    BY <1>2 DEF Validate, RemoveDir, Remove
  <2> QED BY <1>0, <2>1 DEF Directory, KeptOrNone, TypeInv, VaultsTyped, NoDir
<1>3. CASE WriteManifest(p)
  <2>1. dir' = dir \/ Directory(task[p].vault, [dir[task[p].vault] EXCEPT !.synced = FALSE])
    BY <1>3 DEF WriteManifest
  <2> QED BY <1>0, <2>1 DEF Directory, KeptOrNone, TypeInv, VaultsTyped
<1>4. CASE WriteEpoch(p)
  <2>0. p \in Hosts
    BY DEF Hosts
  <2>1. CASE dir' = dir
    BY <1>0, <2>1
  <2>2. CASE /\ Directory(task[p].vault, [dir[task[p].vault] EXCEPT !.epoch = p])
             /\ GoOn(p, IF task[p].cmd = "init" THEN "registering" ELSE "rebuilt")
    <3>1. proc'[p] \in {"registering", "rebuilt"}
      BY <2>0, <2>2 DEF GoOn, Enter, TypeInv, ProcessesTyped
    <3>2. \A v \in Vaults : dir'[v].db = dir[v].db /\ dir'[v].epoch \in {dir[v].epoch, p}
      BY <2>2 DEF Directory, TypeInv, VaultsTyped
    <3> QED BY <1>4, <3>1, <3>2 DEF Writes, WriteEpoch, Before
  <2> QED BY <1>4, <2>1, <2>2 DEF WriteEpoch, NextEpoch
<1>5. CASE Work(p)
  <2>1. \A v \in Vaults : dir'[v] = dir[v] \/ dir'[v] = [dir[v] EXCEPT !.synced = TRUE]
    BY <1>5 DEF Work, Indexed
  <2> QED BY <2>1 DEF KeptOrNone, TypeInv, VaultsTyped
<1>6. CASE ~(MakeDir(p) \/ Validate(p) \/ RemoveDir(p) \/ WriteManifest(p) \/ WriteEpoch(p) \/ Work(p))
  <2>1. dir' = dir
    BY <1>6 DEF ProgramStep, ReadRegistry, WriteRegistry, OpenLocal, RestoreConfig, KillProgram, RunProgram, disk
  <2> QED BY <1>0, <2>1
<1> QED BY <1>1, <1>2, <1>3, <1>4, <1>5, <1>6

\* Only programs write epochs; any other step keeps a directory or removes it.
LEMMA DirOfStep ==
  ASSUME TypeInv, [SetupNext]_setupVars
  PROVE  KeptOrNone \/ \E p \in Programs : Writes(p)
<1>0. dir' = dir => KeptOrNone
  BY DEF KeptOrNone
<1>1. ASSUME NEW d \in Daemons, DaemonStep(d) PROVE KeptOrNone
  <2>1. dir' = dir
    BY <1>1 DEF DaemonStep, Look, Clear, Claim, Bind, Cancel, CleanUp, PanelOff, CloseAll, Evict, Exit, Crash, Ended,
                EndOpen, Proactive, PanelStart, PanelSwitch, disk
  <2> QED BY <1>0, <2>1
<1>2. ASSUME NEW c \in Clients, ClientStep(c) PROVE KeptOrNone
  <2>1. dir' = dir \/ \E es, calls : Indexed(es, calls)
    BY <1>2 DEF ClientStep, Serve, Got, Answer, Connect, WatchPhase2, GetOrOpen, disk
  <2>2. \A v \in Vaults : dir'[v] = dir[v] \/ dir'[v] = [dir[v] EXCEPT !.synced = TRUE]
    BY <2>1 DEF Indexed
  <2> QED BY <2>2 DEF KeptOrNone, TypeInv, VaultsTyped
<1>3. ASSUME NEW v \in Vaults, Delete(v) PROVE KeptOrNone
  <2>1. dir' = [dir EXCEPT ![v] = NoDir]
    BY <1>3 DEF Delete, Remove, Directory
  <2> QED BY <2>1 DEF KeptOrNone, TypeInv, VaultsTyped, NoDir
<1>4. CASE UNCHANGED setupVars
  BY <1>0, <1>4 DEF setupVars, daemonVars
<1> QED BY <1>1, <1>2, <1>3, <1>4, DirOfProgram, StepsOfSetup

\* A program does not go back to before it wrote its epoch.
LEMMA BeforeOfStep ==
  ASSUME TypeInv, [SetupNext]_setupVars
  PROVE  \A p \in Programs : proc'[p] \in Before => proc[p] \in Before
<1>0. Programs \subseteq Hosts
  BY DEF Hosts
<1>1. ASSUME NEW d \in Daemons, DaemonStep(d) PROVE \A p \in Programs : proc'[p] = proc[p]
  <2>1. proc' = proc \/ \E s : Enter(d, s)
    BY <1>1 DEF DaemonStep, Look, Clear, Claim, Bind, Cancel, CleanUp, PanelOff, CloseAll, Evict, Exit, Crash, Ended,
                EndOpen, Proactive, PanelStart, PanelSwitch
  <2> QED BY <1>0, <2>1, NamesDiffer DEF Enter, TypeInv, ProcessesTyped
<1>2. ASSUME NEW c \in Clients, ClientStep(c) PROVE proc' = proc
  BY <1>2 DEF ClientStep, Serve, Got, Answer, Connect, WatchPhase2, GetOrOpen
<1>3. ASSUME NEW p \in Programs, ProgramStep(p) PROVE \A x \in Programs : proc'[x] \in Before => proc[x] \in Before
  <2>1. \E s \in Stages : Enter(p, s) /\ (s \in Before => proc[p] \in Before)
    BY <1>3 DEF ProgramStep, MakeDir, Validate, WriteManifest, WriteEpoch, ReadRegistry, WriteRegistry,
                OpenLocal, RemoveDir, RestoreConfig, Work, KillProgram, RunProgram, GoOn, Done, Before, Stages
  <2> QED BY <1>0, <2>1 DEF Enter, TypeInv, ProcessesTyped
<1>4. ASSUME NEW v \in Vaults, Delete(v) PROVE proc' = proc
  BY <1>4 DEF Delete
<1> QED BY <1>1, <1>2, <1>3, <1>4, StepsOfSetup DEF setupVars, daemonVars

\* What was opened while the directory was replaced stays known, until its
\* process has ended.
LEMMA MixedOfStep ==
  ASSUME TypeInv, Owned, [SetupNext]_setupVars
  PROVE  \A d \in Daemons : \A e \in manager'[d] : e \in manager[d] /\ e \in mixed => e \in mixed'
<1>0. mixed \subseteq mixed' => \A d \in Daemons : \A e \in manager'[d] : e \in mixed => e \in mixed'
  OBVIOUS
<1>1. ASSUME NEW x \in Daemons, DaemonStep(x)
      PROVE  \A d \in Daemons : \A e \in manager'[d] : e \in manager[d] /\ e \in mixed => e \in mixed'
  <2>1. CASE Exit(x) \/ Crash(x)
    <3>1. Ended(x)
      BY <2>1 DEF Exit, Crash
    <3>2. \A d \in Daemons : manager'[d] = IF d = x THEN {} ELSE manager[d]
      BY <3>1 DEF Ended, TypeInv, EnginesTyped, Hosts
    <3>3. mixed' = {e \in mixed : e.by # x}
      BY <3>1 DEF Ended
    <3>4. \A d \in Daemons : \A e \in manager[d] : e.by = d
      BY DEF Owned, Uses, Hosts
    <3> QED BY <3>2, <3>3, <3>4
  <2>2. CASE ~(Exit(x) \/ Crash(x))
    <3>1. mixed \subseteq mixed'
      BY <1>1, <2>2 DEF DaemonStep, Look, Clear, Claim, Bind, Cancel, CleanUp, PanelOff, CloseAll, Evict,
                        EndOpen, Proactive, PanelStart, PanelSwitch, BeginOpen, engines
    <3> QED BY <1>0, <3>1
  <2> QED BY <2>1, <2>2
<1>2. ASSUME NEW c \in Clients, ClientStep(c) PROVE mixed' = mixed
  BY <1>2 DEF ClientStep, Serve, Got, Answer, Connect, WatchPhase2, GetOrOpen, BeginOpen, engines
<1>3. ASSUME NEW p \in Programs, ProgramStep(p) PROVE mixed' = mixed
  BY <1>3 DEF ProgramStep, MakeDir, Validate, WriteManifest, WriteEpoch, ReadRegistry, WriteRegistry,
              OpenLocal, RemoveDir, RestoreConfig, Work, KillProgram, RunProgram, others
<1>4. ASSUME NEW v \in Vaults, Delete(v) PROVE mixed' = mixed
  BY <1>4 DEF Delete
<1>5. UNCHANGED setupVars => mixed' = mixed
  BY DEF setupVars, daemonVars
<1> QED BY <1>0, <1>1, <1>2, <1>3, <1>4, <1>5, StepsOfSetup

\* A daemon's handles after a step: those it had, and the one just made.
LEMMA HandlesOfStep ==
  ASSUME TypeInv, [SetupNext]_setupVars, NEW d \in Daemons, NEW e \in manager'[d]
  PROVE  e \in manager[d] \/ (opening[d] # NoOpening /\ e = Made(d) /\ dir' = dir
                              /\ (e \notin mixed' => dir[e.vault] = NoDir \/ dir[e.vault].db = e.db))
<1>1. CASE Closes
  BY <1>1 DEF Closes
<1>2. CASE Begins
  <2>1. PICK x \in Daemons, v \in Vaults, who \in Askers : \E dropped \in Dropped(x, v) : BeginOpen(x, v, who, dropped)
    BY <1>2 DEF Begins
  <2>2. PICK dropped : manager' = [manager EXCEPT ![x] = @ \ dropped]
    BY <2>1 DEF BeginOpen
  <2> QED BY <2>2 DEF TypeInv, EnginesTyped, Hosts
<1>3. ASSUME NEW x \in Daemons, EndOpen(x), e \notin manager[d]
      PROVE  opening[d] # NoOpening /\ e = Made(d) /\ dir' = dir
             /\ (e \notin mixed' => dir[e.vault] = NoDir \/ dir[e.vault].db = e.db)
  <2>0. PICK m : m = Made(x)
    OBVIOUS
  <2>1. /\ manager' = [manager EXCEPT ![x] = @ \cup {m}] /\ opening[x] # NoOpening /\ dir' = dir
        /\ mixed' = IF dir[m.vault] # NoDir /\ dir[m.vault].db # m.db THEN mixed \cup {m} ELSE mixed
    BY <1>3, <2>0 DEF EndOpen, disk
  <2>2. d = x /\ e = m
    BY <1>3, <2>1 DEF TypeInv, EnginesTyped, Hosts
  <2> QED BY <2>0, <2>1, <2>2
<1> QED BY <1>1, <1>2, <1>3, ManagerOfStep

\* Every step keeps the handles' epochs.
LEMMA HandlesKept == TypeInv /\ Owned /\ EpochOnce /\ HandlesTrue /\ [SetupNext]_setupVars => EpochOnce' /\ HandlesTrue'
<1> SUFFICES ASSUME TypeInv, Owned, EpochOnce, HandlesTrue, [SetupNext]_setupVars PROVE EpochOnce' /\ HandlesTrue'
  OBVIOUS
<1>0. \A d \in Daemons : \A e \in manager[d] : e.vault \in Vaults
  BY DEF TypeInv, EnginesTyped, Engines, Hosts
<1>1. \A d \in Daemons : opening[d] # NoOpening => Made(d).vault \in Vaults /\ Made(d).epoch = dir[Made(d).vault].epoch
  <2>1. \A d \in Daemons : opening[d] # NoOpening => Made(d) \in Engines /\ Made(d).epoch = dir[Made(d).vault].epoch
    BY MadeEngine
  <2> QED BY <2>1 DEF Engines
<1>2. EpochOnce'
  <2> SUFFICES ASSUME NEW p \in Programs, proc'[p] \in Before
               PROVE  /\ \A v \in Vaults : dir'[v].epoch # p
                      /\ \A d \in Daemons : \A e \in manager'[d] : e.epoch # p
    BY DEF EpochOnce
  <2>1. proc[p] \in Before
    BY BeforeOfStep
  <2>2. (\A v \in Vaults : dir[v].epoch # p) /\ \A d \in Daemons : \A e \in manager[d] : e.epoch # p
    BY <2>1 DEF EpochOnce
  <2>3. p # NoEpoch
    BY NamesDiffer
  <2>4. \A v \in Vaults : dir'[v].epoch # p
    <3>1. \A x \in Programs : Writes(x) => x # p
      BY DEF Writes
    <3> QED BY <2>2, <2>3, <3>1, DirOfStep DEF KeptOrNone, Writes
  <2>5. ASSUME NEW d \in Daemons, NEW e \in manager'[d] PROVE e.epoch # p
    BY <1>1, <2>2, HandlesOfStep
  <2> QED BY <2>4, <2>5
<1>3. HandlesTrue'
  <2> SUFFICES ASSUME NEW d \in Daemons, NEW e \in manager'[d], e \notin mixed', dir'[e.vault].epoch = e.epoch, e.epoch # NoEpoch
               PROVE  e.db = dir'[e.vault].db
    BY DEF HandlesTrue
  <2>1. CASE e \in manager[d]
    <3>1. e \notin mixed /\ e.vault \in Vaults
      BY <1>0, <2>1, MixedOfStep
    <3>2. CASE KeptOrNone
      BY <2>1, <3>1, <3>2 DEF KeptOrNone, HandlesTrue
    <3>3. ASSUME NEW p \in Programs, Writes(p) PROVE e.db = dir'[e.vault].db
      <4>1. e.epoch # p
        BY <2>1, <3>3 DEF EpochOnce, Writes, Before
      <4> QED BY <2>1, <3>1, <3>3, <4>1 DEF Writes, HandlesTrue
    <3> QED BY <3>2, <3>3, DirOfStep
  <2>2. CASE e \notin manager[d]
    <3>1. opening[d] # NoOpening /\ e = Made(d) /\ dir' = dir /\ (dir[e.vault] = NoDir \/ dir[e.vault].db = e.db)
      BY <2>2, HandlesOfStep
    <3>2. dir[e.vault] # NoDir
      BY <3>1 DEF NoDir
    <3> QED BY <3>1, <3>2
  <2> QED BY <2>1, <2>2
<1> QED BY <1>2, <1>3

\* A daemon goes on using a database only while it is the vault's: a handle of
\* the directory's epoch is a handle of its database, except for one opened
\* while the directory was replaced, and in the moment before it has an epoch.
THEOREM HandlesStayCurrent == SetupSpec => []HandlesCurrent
<1>1. SetupInit => TypeInv /\ NothingGot /\ Owned /\ EpochOnce /\ HandlesTrue
  <2> SUFFICES ASSUME SetupInit PROVE TypeInv /\ NothingGot /\ Owned /\ EpochOnce /\ HandlesTrue
    OBVIOUS
  <2>1. NothingGot /\ Owned /\ HandlesTrue
    BY DEF SetupInit, DaemonInit, NothingGot, NoRequest, Owned, Uses, HandlesTrue, Hosts
  <2>2. EpochOnce
    BY NamesDiffer DEF SetupInit, DaemonInit, EpochOnce, FirstDir, NoDir, Hosts
  <2> QED BY <2>1, <2>2, TypedInit
<1>2. HandlesTrue => HandlesCurrent
  BY DEF HandlesTrue, HandlesCurrent, Epoch
<1> QED BY <1>1, <1>2, TypesKept, NothingGotKept, OwnedKept, HandlesKept, PTL DEF SetupSpec

----------------------------------------------------------------------------
(* The claim. *)

\* A daemon that has a panel, makes an engine or has a request is up.
Up == {"bound", "serving", "closing", "closed", "exiting"}
Used(d) ==
  \/ panel[d] # NoEngine \/ opening[d] # NoOpening
  \/ \E c \in Clients : request[c].pc # "idle" /\ request[c].to = d
UpWhereUsed == \A d \in Daemons : Used(d) => proc[d] \in Up
\* What a starting daemon saw in the PID file is gone, and the file names no one
\* who is not born.
SeenGone ==
  /\ \A d \in Daemons : proc[d] \in {"clear", "starting", "claimed"} /\ saw[d] # NoOne => proc[saw[d]] = "gone"
  /\ pidFile # NoOne => proc[pidFile] # "unborn"
\* Who claims the machine is the one the files lead to.
ClaimHeld ==
  ~overrun => \A d \in Daemons : Claims(d) => pidFile = d /\ (proc[d] # "claimed" => socket = d)

\* A daemon's step changes no other daemon.
LEMMA SelfOnly ==
  ASSUME TypeInv, NEW d \in Daemons, NEW s \in Stages, Enter(d, s)
  PROVE  proc'[d] = s /\ \A x \in Daemons : x # d => proc'[x] = proc[x]
BY DEF Enter, TypeInv, ProcessesTyped, Hosts

\* A daemon stays, ends, or goes on from being bound.
GoesOn(d) ==
  \/ proc'[d] = proc[d] \/ proc'[d] = "gone"
  \/ proc[d] \in {"bound", "serving", "closing", "closed"} /\ proc'[d] \in {"serving", "closing", "closed"}

\* Only the five steps of start and end touch the PID file and the socket; any
\* other lets each daemon go on the way its stages lead.
LEMMA ClaimOfStep ==
  ASSUME TypeInv, [SetupNext]_setupVars
  PROVE  \/ \E d \in Daemons : Look(d) \/ Clear(d) \/ Claim(d) \/ Bind(d) \/ CleanUp(d)
         \/ UNCHANGED <<pidFile, socket, saw>> /\ (overrun => overrun') /\ \A d \in Daemons : GoesOn(d)
<1> DEFINE Rest == UNCHANGED <<pidFile, socket, saw>> /\ (overrun => overrun') /\ \A d \in Daemons : GoesOn(d)
<1>0. proc' = proc => \A d \in Daemons : GoesOn(d)
  BY DEF GoesOn
<1>1. ASSUME NEW d \in Daemons, DaemonStep(d), ~(Look(d) \/ Clear(d) \/ Claim(d) \/ Bind(d) \/ CleanUp(d))
      PROVE  Rest
  <2>0. CASE \E v \in Vaults : PanelSwitch(d, v)
    <3>1. UNCHANGED <<pidFile, socket, saw, proc>>
      BY <2>0 DEF PanelSwitch, claim
    <3>2. overrun => overrun'
      BY <2>0 DEF PanelSwitch
    <3> QED BY <1>0, <3>1, <3>2
  <2>1. CASE ~\E v \in Vaults : PanelSwitch(d, v)
    <3>1. UNCHANGED <<pidFile, socket, saw, overrun>>
      BY <1>1, <2>1 DEF DaemonStep, Cancel, PanelOff, CloseAll, Evict, Exit, Crash, Ended, EndOpen, Proactive,
                        PanelStart, claim
    <3>2. /\ proc[d] \in Stages /\ d \in Hosts
          /\ \A x \in {"serving", "closing", "closed", "gone", "bound"} : x \in Stages
      BY DEF TypeInv, ProcessesTyped, Hosts, Stages
    <3> DEFINE On(s) == s = proc[d] \/ s = "gone" \/
           (proc[d] \in {"bound", "serving", "closing", "closed"} /\ s \in {"serving", "closing", "closed"})
    <3>3. CASE EndOpen(d)
      <4>1. PICK s : s = IF opening[d].who = "panel" /\ proc[d] = "bound" THEN "serving" ELSE proc[d]
        OBVIOUS
      <4>2. Enter(d, s) /\ On(s) /\ s \in Stages
        BY <3>2, <3>3, <4>1 DEF EndOpen
      <4> QED BY <3>1, <4>2, SelfOnly DEF GoesOn
    <3>4. CASE ~EndOpen(d)
      <4>1. proc' = proc \/ \E s \in {"serving", "closing", "closed", "gone", "bound"} : Enter(d, s) /\ On(s)
        BY <1>1, <2>1, <3>4 DEF DaemonStep, Cancel, PanelOff, CloseAll, Evict, Exit, Crash, Ended, Proactive, PanelStart
      <4> QED BY <1>0, <3>1, <3>2, <4>1, SelfOnly DEF GoesOn
    <3> QED BY <3>3, <3>4
  <2> QED BY <2>0, <2>1
<1>2. ASSUME NEW c \in Clients, ClientStep(c) PROVE Rest
  <2>1. UNCHANGED <<pidFile, socket, saw, proc>>
    BY <1>2 DEF ClientStep, Serve, Got, Answer, Connect, WatchPhase2, GetOrOpen, claim
  <2>2. CASE \E v \in Vaults : GetOrOpen(c, v)
    <3>1. overrun' = (overrun \/ proc[request[c].to] = "exiting")
      BY <2>2 DEF GetOrOpen
    <3> QED BY <1>0, <2>1, <3>1
  <2>3. CASE ~\E v \in Vaults : GetOrOpen(c, v)
    <3>1. overrun' = overrun
      BY <1>2, <2>3 DEF ClientStep, Serve, Got, Answer, Connect, WatchPhase2
    <3> QED BY <1>0, <2>1, <3>1
  <2> QED BY <2>2, <2>3
<1>3. ASSUME NEW p \in Programs, ProgramStep(p) PROVE Rest
  <2>1. UNCHANGED <<pidFile, socket, saw, overrun>> /\ \E s : Enter(p, s)
    BY <1>3 DEF ProgramStep, MakeDir, Validate, WriteManifest, WriteEpoch, ReadRegistry, WriteRegistry,
                OpenLocal, RemoveDir, RestoreConfig, Work, KillProgram, RunProgram, GoOn, Done, others, claim
  <2>2. \A d \in Daemons : proc'[d] = proc[d]
    BY <2>1, NamesDiffer DEF Enter, TypeInv, ProcessesTyped, Hosts
  <2> QED BY <2>1, <2>2 DEF GoesOn
<1>4. ASSUME NEW v \in Vaults, Delete(v) PROVE Rest
  BY <1>0, <1>4 DEF Delete, claim
<1>5. UNCHANGED setupVars => Rest
  BY <1>0 DEF setupVars, daemonVars
<1> HIDE DEF Rest
<1>6. Rest \/ \E d \in Daemons : Look(d) \/ Clear(d) \/ Claim(d) \/ Bind(d) \/ CleanUp(d)
  BY <1>1, <1>2, <1>3, <1>4, <1>5, StepsOfSetup
<1> QED BY <1>6 DEF Rest

\* Every step keeps what was seen.
LEMMA SeenKept == TypeInv /\ SeenGone /\ [SetupNext]_setupVars => SeenGone'
<1> SUFFICES ASSUME TypeInv, SeenGone, [SetupNext]_setupVars PROVE SeenGone'
  OBVIOUS
<1>0. /\ \A d \in Daemons : saw[d] # NoOne => saw[d] \in Daemons
      /\ pidFile # NoOne => pidFile \in Daemons
  BY DEF TypeInv, ProcessesTyped
<1>1. CASE UNCHANGED <<pidFile, socket, saw>> /\ (overrun => overrun') /\ \A d \in Daemons : GoesOn(d)
  BY <1>0, <1>1 DEF SeenGone, GoesOn
<1>2. ASSUME NEW d \in Daemons, Look(d) PROVE SeenGone'
  <2>1. PICK s \in {"gone", "clear"} : Enter(d, s) /\ (s = "clear" => ~Alive(pidFile))
    BY <1>2 DEF Look
  <2>2. proc'[d] = s /\ \A x \in Daemons : x # d => proc'[x] = proc[x]
    BY <2>1, SelfOnly DEF Stages
  <2>3. saw' = [saw EXCEPT ![d] = pidFile] /\ pidFile' = pidFile /\ proc[d] = "unborn"
    BY <1>2 DEF Look
  <2>4. s = "clear" /\ pidFile # NoOne => proc[pidFile] = "gone"
    BY <2>1 DEF Alive, SeenGone
  <2> QED BY <1>0, <2>1, <2>2, <2>3, <2>4 DEF SeenGone, TypeInv, ProcessesTyped
<1>3. ASSUME NEW d \in Daemons, Clear(d) \/ Claim(d) PROVE SeenGone'
  <2>1. PICK s \in {"starting", "claimed"} : Enter(d, s)
    BY <1>3 DEF Clear, Claim
  <2>2. proc'[d] = s /\ \A x \in Daemons : x # d => proc'[x] = proc[x]
    BY <2>1, SelfOnly DEF Stages
  <2>3. saw' = saw /\ pidFile' \in {pidFile, NoOne, d} /\ proc[d] \in {"clear", "starting"}
    BY <1>3 DEF Clear, Claim
  <2> QED BY <1>0, <2>1, <2>2, <2>3 DEF SeenGone
<1>4. ASSUME NEW d \in Daemons, Bind(d) \/ CleanUp(d) PROVE SeenGone'
  <2>1. PICK s \in {"bound", "gone", "exiting"} : Enter(d, s)
    BY <1>4 DEF Bind, CleanUp
  <2>2. proc'[d] = s /\ \A x \in Daemons : x # d => proc'[x] = proc[x]
    BY <2>1, SelfOnly DEF Stages
  <2>3. saw' \in {saw, [saw EXCEPT ![d] = NoOne]} /\ pidFile' \in {pidFile, NoOne} /\ proc[d] \in {"claimed", "closed"}
    BY <1>4 DEF Bind, CleanUp
  <2> QED BY <1>0, <2>1, <2>2, <2>3 DEF SeenGone, TypeInv, ProcessesTyped
<1> QED BY <1>1, <1>2, <1>3, <1>4, ClaimOfStep

\* Every step keeps the claim, unless it takes another's away.
LEMMA ClaimKept == TypeInv /\ SeenGone /\ ClaimHeld /\ [SetupNext]_setupVars => ClaimHeld' /\ (overrun => overrun')
<1> SUFFICES ASSUME TypeInv, SeenGone, ClaimHeld, [SetupNext]_setupVars PROVE ClaimHeld' /\ (overrun => overrun')
  OBVIOUS
<1> USE DEF Claims
<1>0. NoOne \notin Daemons
  BY NamesDiffer
<1>1. CASE UNCHANGED <<pidFile, socket, saw>> /\ (overrun => overrun') /\ \A d \in Daemons : GoesOn(d)
  BY <1>1 DEF ClaimHeld, GoesOn
<1>2. ASSUME NEW d \in Daemons, Look(d) PROVE ClaimHeld' /\ (overrun => overrun')
  <2>1. PICK s \in {"gone", "clear"} : Enter(d, s)
    BY <1>2 DEF Look
  <2>2. proc'[d] = s /\ \A x \in Daemons : x # d => proc'[x] = proc[x]
    BY <2>1, SelfOnly DEF Stages
  <2> QED BY <1>2, <2>1, <2>2 DEF Look, ClaimHeld
<1>3. ASSUME NEW d \in Daemons, Clear(d) PROVE ClaimHeld' /\ (overrun => overrun')
  <2>1. Enter(d, "starting") /\ proc[d] = "clear"
    BY <1>3 DEF Clear
  <2>2. proc'[d] = "starting" /\ \A x \in Daemons : x # d => proc'[x] = proc[x]
    BY <2>1, SelfOnly DEF Stages
  <2>3. ASSUME ~overrun', NEW x \in Daemons, Claims(x) PROVE FALSE
    <3>1. pidFile = x /\ ~overrun
      BY <1>3, <2>3 DEF Clear, ClaimHeld
    <3>2. ~Unseen(d, x)
      BY <1>0, <1>3, <2>3, <3>1 DEF Clear
    <3>3. x = saw[d]
      BY <2>1, <2>3, <3>2 DEF Unseen
    <3> QED BY <1>0, <2>1, <2>3, <3>3 DEF SeenGone
  <2>4. overrun => overrun'
    BY <1>3 DEF Clear
  <2> QED BY <2>2, <2>3, <2>4 DEF ClaimHeld
<1>4. ASSUME NEW d \in Daemons, Claim(d) PROVE ClaimHeld' /\ (overrun => overrun')
  <2>1. Enter(d, "claimed") /\ proc[d] = "starting" /\ pidFile' = d
    BY <1>4 DEF Claim
  <2>2. proc'[d] = "claimed" /\ \A x \in Daemons : x # d => proc'[x] = proc[x]
    BY <2>1, SelfOnly DEF Stages
  <2>3. ASSUME ~overrun', NEW x \in Daemons, Claims(x) PROVE FALSE
    <3>1. pidFile = x /\ ~overrun
      BY <1>4, <2>3 DEF Claim, ClaimHeld
    <3>2. ~Unseen(d, x)
      BY <1>0, <1>4, <2>3, <3>1 DEF Claim
    <3>3. x = saw[d]
      BY <2>1, <2>3, <3>2 DEF Unseen
    <3> QED BY <1>0, <2>1, <2>3, <3>3 DEF SeenGone
  <2>4. overrun => overrun'
    BY <1>4 DEF Claim
  <2> QED BY <2>1, <2>2, <2>3, <2>4 DEF ClaimHeld
<1>5. ASSUME NEW d \in Daemons, Bind(d) PROVE ClaimHeld' /\ (overrun => overrun')
  <2>1. PICK s \in {"bound", "gone"} : Enter(d, s) /\ socket' = IF s = "bound" THEN d ELSE socket
    BY <1>5 DEF Bind
  <2>2. proc'[d] = s /\ \A x \in Daemons : x # d => proc'[x] = proc[x]
    BY <2>1, SelfOnly DEF Stages
  <2>3. proc[d] = "claimed" /\ pidFile' = pidFile /\ (overrun => overrun')
    BY <1>5 DEF Bind
  <2>4. ~overrun => \A x \in Daemons : Claims(x) => x = d
    BY <2>3 DEF ClaimHeld
  <2> QED BY <2>1, <2>2, <2>3, <2>4 DEF ClaimHeld
<1>6. ASSUME NEW d \in Daemons, CleanUp(d) PROVE ClaimHeld' /\ (overrun => overrun')
  <2>1. Enter(d, "exiting") /\ proc[d] = "closed" /\ (overrun => overrun')
    BY <1>6 DEF CleanUp
  <2>2. proc'[d] = "exiting" /\ \A x \in Daemons : x # d => proc'[x] = proc[x]
    BY <2>1, SelfOnly DEF Stages
  <2>3. ~overrun => \A x \in Daemons : Claims(x) => x = d
    BY <2>1 DEF ClaimHeld
  <2> QED BY <2>1, <2>2, <2>3 DEF ClaimHeld
<1> QED BY <1>1, <1>2, <1>3, <1>4, <1>5, <1>6, ClaimOfStep

\* What is used after a step was used before, or is used by one who serves.
LEMMA UsedOfDaemon ==
  ASSUME TypeInv, NEW x \in Daemons, DaemonStep(x), NEW d \in Daemons, Used(d)'
  PROVE  Used(d) \/ (d = x /\ proc[x] \in {"bound", "serving"})
<1>1. CASE EndOpen(x)
  <2>1. opening[x] # NoOpening /\ \A y \in Daemons : y # x => opening'[y] = opening[y] /\ panel'[y] = panel[y]
    BY <1>1 DEF EndOpen, TypeInv, EnginesTyped
  <2>2. \A c \in Clients : request'[c] = request[c] \/ (request[c].pc = "opening" /\ request[c].to = x /\ request'[c].to = x)
    <3>1. CASE opening[x].who \in Clients
      <4>1. PICK w \in Clients : w = opening[x].who
        BY <3>1
      <4>2. request[w].pc = "opening" /\ request[w].to = x
        BY <2>1, <4>1 DEF TypeInv, OpeningAsked
      <4>3. request[w] \in Asked
        BY <4>2 DEF TypeInv, RequestsTyped, NoRequest, Refused
      <4>4. request' = [request EXCEPT ![w].todo = @ \ {Made(x).vault}, ![w].got = @ \cup {Made(x)}]
        BY <1>1, <4>1 DEF EndOpen
      <4>5. request'[w].to = x
        BY <4>2, <4>3, <4>4 DEF TypeInv, RequestsTyped, Asked
      <4>6. \A c \in Clients : c # w => request'[c] = request[c]
        BY <4>4 DEF TypeInv, RequestsTyped
      <4> QED BY <4>2, <4>5, <4>6
    <3> QED BY <1>1, <3>1 DEF EndOpen
  <2> QED BY <2>1, <2>2 DEF Used
<1>2. CASE Exit(x) \/ Crash(x)
  <2>1. Ended(x)
    BY <1>2 DEF Exit, Crash
  <2>2. \A y \in Daemons : /\ panel'[y] = panel[y] \/ panel'[y] = NoEngine
                           /\ opening'[y] = opening[y] \/ opening'[y] = NoOpening
    BY <2>1 DEF Ended, TypeInv, EnginesTyped
  <2>3. \A c \in Clients : request'[c] = request[c] \/ request'[c].pc = "idle"
    BY <2>1 DEF Ended, NoRequest
  <2> QED BY <2>2, <2>3 DEF Used
<1>3. CASE \E v \in Vaults : Proactive(x, v) \/ PanelStart(x, v) \/ PanelSwitch(x, v)
  <2>1. request' = request /\ (proc[x] \in {"bound", "serving"} \/ panel[x] # NoEngine)
    BY <1>3 DEF Proactive, PanelStart, PanelSwitch
  <2>2. panel' = panel \/ \E e : panel' = [panel EXCEPT ![x] = e]
    BY <1>3 DEF Proactive, PanelStart, PanelSwitch
  <2>3. opening' = opening \/ \E o : opening' = [opening EXCEPT ![x] = o]
    BY <1>3 DEF Proactive, PanelStart, PanelSwitch, BeginOpen
  <2> QED BY <2>1, <2>2, <2>3 DEF Used, TypeInv, EnginesTyped
<1>4. CASE ~(EndOpen(x) \/ Exit(x) \/ Crash(x) \/ (\E v \in Vaults : Proactive(x, v) \/ PanelStart(x, v) \/ PanelSwitch(x, v)))
  <2>1. UNCHANGED <<panel, opening, request>>
    BY <1>4 DEF DaemonStep, Look, Clear, Claim, Bind, Cancel, CleanUp, PanelOff, CloseAll, Evict, engines
  <2> QED BY <2>1 DEF Used
<1> QED BY <1>1, <1>2, <1>3, <1>4

\* A client or the watch loop makes a daemon use an engine only while the daemon is up.
LEMMA UsedOfClient ==
  ASSUME TypeInv, NEW c \in Clients, ClientStep(c), NEW d \in Daemons, Used(d)'
  PROVE  Used(d) \/ proc[d] \in Up
<1>0. request[c].pc \in {"asked", "opening", "busy"} => request[c] \in Asked
  BY DEF TypeInv, RequestsTyped, NoRequest, Refused
<1>1. CASE \E v \in Vaults : GetOrOpen(c, v)
  <2>0. PICK v \in Vaults : GetOrOpen(c, v)
    BY <1>1
  <2>1. PICK x : x = request[c].to
    OBVIOUS
  <2>2. request[c].pc = "opening" /\ panel' = panel /\ (opening' = opening \/ \E o : opening' = [opening EXCEPT ![x] = o])
    BY <2>0, <2>1 DEF GetOrOpen, BeginOpen
  <2>3. x \in Daemons /\ Used(x)
    BY <1>0, <2>1, <2>2 DEF Used, Asked
  <2>4. \A y \in Clients : y # c => request'[y] = request[y]
    BY <2>0 DEF GetOrOpen, Becomes, TypeInv, RequestsTyped
  <2>5. request'[c].to = x
    <3>1. request' = request \/ (\E e : Becomes(c, [request[c] EXCEPT !.todo = @ \ {v}, !.got = @ \cup {e}]))
          \/ \E dropped : Becomes(c, [pc |-> "refused", to |-> x, held |-> dir[v] # NoDir, own |-> OwnHold(x, v, dropped)])
      <4> HIDE DEF OwnHold
      <4>1. ASSUME NEW dropped, ~Openable(x, v, dropped) => Becomes(c, [pc |-> "refused", to |-> x, held |-> dir[v] # NoDir,
                                own |-> OwnHold(x, v, dropped)]), Openable(x, v, dropped) => request' = request
            PROVE request' = request
                  \/ \E drop : Becomes(c, [pc |-> "refused", to |-> x, held |-> dir[v] # NoDir, own |-> OwnHold(x, v, drop)])
        BY <4>1
      <4> QED BY <2>0, <2>1, <4>1 DEF GetOrOpen
    <3>2. ASSUME NEW e, Becomes(c, [request[c] EXCEPT !.todo = @ \ {v}, !.got = @ \cup {e}]) PROVE request'[c].to = x
      BY <1>0, <2>1, <2>2, <3>2 DEF Becomes, Asked, TypeInv, RequestsTyped
    <3>3. ASSUME NEW dropped, Becomes(c, [pc |-> "refused", to |-> x, held |-> dir[v] # NoDir, own |-> OwnHold(x, v, dropped)])
          PROVE request'[c].to = x
      BY <3>3 DEF Becomes, TypeInv, RequestsTyped
    <3> QED BY <2>1, <3>1, <3>2, <3>3
  <2> QED BY <2>2, <2>3, <2>4, <2>5 DEF Used, TypeInv, EnginesTyped
<1>2. CASE \E cmd \in CommandsAsked, vs \in SUBSET Vaults \ {{}} : Connect(c, cmd, vs)
  <2>1. UNCHANGED <<panel, opening>> /\ proc[socket] \in Up
    BY <1>2 DEF Connect, engines, Up
  <2>2. \A y \in Clients : request'[y] = request[y] \/ request'[y].to = socket
    BY <1>2 DEF Connect, Becomes, TypeInv, RequestsTyped
  <2> QED BY <2>1, <2>2 DEF Used
<1>3. CASE Serve(c) \/ Got(c) \/ Answer(c)
  <2>1. UNCHANGED <<panel, opening>>
    BY <1>3 DEF Serve, Got, Answer, engines
  <2>2. PICK r : Becomes(c, r) /\ (r.pc = "idle" \/ (request[c].pc \in {"asked", "opening"} /\ r.to = request[c].to))
    <3>1. CASE Answer(c)
      BY <3>1 DEF Answer, NoRequest
    <3>2. CASE Got(c)
      BY <1>0, <3>2 DEF Got, Asked
    <3>3. CASE Serve(c)
      <4> DEFINE b == [request[c] EXCEPT !.pc = "busy", !.todo = {}]
                 o == [request[c] EXCEPT !.pc = "opening"]
      <4>1. Becomes(c, b) \/ Becomes(c, NoRequest) \/ Becomes(c, o)
        BY <3>3 DEF Serve
      <4>2. b.to = request[c].to /\ o.to = request[c].to /\ NoRequest.pc = "idle" /\ request[c].pc = "asked"
        BY <1>0, <3>3 DEF Serve, Asked, NoRequest
      <4> HIDE DEF b, o
      <4> QED BY <4>1, <4>2
    <3> QED BY <1>3, <3>1, <3>2, <3>3
  <2>3. \A y \in Clients : request'[y] = IF y = c THEN r ELSE request[y]
    BY <2>2 DEF Becomes, TypeInv, RequestsTyped
  <2> QED BY <2>1, <2>2, <2>3 DEF Used
<1>4. CASE \E x \in Daemons, v \in Vaults : WatchPhase2(c, x, v)
  <2>0. PICK x \in Daemons, v \in Vaults : WatchPhase2(c, x, v)
    BY <1>4
  <2>1. UNCHANGED <<panel, opening>> /\ proc[x] \in Up
    BY <2>0 DEF WatchPhase2, engines, Up
  <2>2. \A y \in Clients : request'[y] = request[y] \/ request'[y].to = x
    BY <2>0 DEF WatchPhase2, Becomes, TypeInv, RequestsTyped
  <2> QED BY <2>1, <2>2 DEF Used
<1> QED BY <1>1, <1>2, <1>3, <1>4 DEF ClientStep

\* Every step keeps a daemon up while it is used.
LEMMA UpKept == TypeInv /\ UpWhereUsed /\ [SetupNext]_setupVars => UpWhereUsed'
<1> SUFFICES ASSUME TypeInv, UpWhereUsed, [SetupNext]_setupVars, NEW d \in Daemons, Used(d)' PROVE proc'[d] \in Up
  BY DEF UpWhereUsed
<1>0. \A x \in Daemons : Used(x) => proc[x] \in Up
  BY DEF UpWhereUsed
<1>1. ASSUME NEW x \in Daemons, DaemonStep(x) PROVE proc'[d] \in Up
  <2>1. proc[d] \in Up
    BY <1>0, <1>1, UsedOfDaemon DEF Up
  <2>2. CASE Exit(x) \/ Crash(x)
    <3>1. Ended(x) /\ "gone" \in Stages
      BY <2>2 DEF Exit, Crash, Stages
    <3>2. ~Used(x)'
      <4>1. panel'[x] = NoEngine /\ opening'[x] = NoOpening
        BY <3>1 DEF Ended, TypeInv, EnginesTyped
      <4>2. \A c \in Clients : request'[c].pc = "idle" \/ request'[c].to # x
        BY <3>1 DEF Ended, NoRequest
      <4> QED BY <4>1, <4>2 DEF Used
    <3>3. Enter(x, "gone")
      BY <3>1 DEF Ended
    <3> QED BY <2>1, <3>1, <3>2, <3>3, SelfOnly
  <2>3. CASE Look(x) \/ Clear(x) \/ Claim(x) \/ Bind(x)
    <3>1. proc[x] \notin Up
      BY <2>3 DEF Look, Clear, Claim, Bind, Up
    <3>2. \E s \in Stages : Enter(x, s)
      BY <2>3 DEF Look, Clear, Claim, Bind, Stages
    <3> QED BY <2>1, <3>1, <3>2, SelfOnly
  <2>4. CASE ~(Exit(x) \/ Crash(x)) /\ ~(Look(x) \/ Clear(x) \/ Claim(x) \/ Bind(x))
    <3>1. proc' = proc \/ \E s \in Up : Enter(x, s) \/ EndOpen(x)
      BY <1>1, <2>4 DEF DaemonStep, Cancel, CleanUp, PanelOff, CloseAll, Evict, Proactive, PanelStart, PanelSwitch, Up
    <3>2. CASE EndOpen(x)
      <4>1. PICK s : s = IF opening[x].who = "panel" /\ proc[x] = "bound" THEN "serving" ELSE proc[x]
        OBVIOUS
      <4>2. Enter(x, s) /\ s \in Stages /\ (s = "serving" \/ s = proc[x])
        BY <3>2, <4>1 DEF EndOpen, TypeInv, ProcessesTyped, Stages, Hosts
      <4> QED BY <2>1, <4>2, SelfOnly DEF Up
    <3>3. Up \subseteq Stages
      BY DEF Up, Stages
    <3> QED BY <2>1, <3>1, <3>2, <3>3, SelfOnly
  <2> QED BY <2>2, <2>3, <2>4
<1>2. ASSUME NEW c \in Clients, ClientStep(c) PROVE proc'[d] \in Up
  <2>1. proc' = proc
    BY <1>2 DEF ClientStep, Serve, Got, Answer, Connect, WatchPhase2, GetOrOpen
  <2> QED BY <1>0, <1>2, <2>1, UsedOfClient DEF Up
<1>3. ASSUME NEW p \in Programs, ProgramStep(p) PROVE proc'[d] \in Up
  <2>1. UNCHANGED <<panel, opening, request>> /\ \E s : Enter(p, s)
    BY <1>3 DEF ProgramStep, MakeDir, Validate, WriteManifest, WriteEpoch, ReadRegistry, WriteRegistry,
                OpenLocal, RemoveDir, RestoreConfig, Work, KillProgram, RunProgram, GoOn, Done, others
  <2>2. proc'[d] = proc[d] /\ Used(d)
    BY <2>1, NamesDiffer DEF Enter, Used, TypeInv, ProcessesTyped, Hosts
  <2> QED BY <1>0, <2>2
<1>4. ASSUME UNCHANGED <<proc, panel, opening, request>> PROVE proc'[d] \in Up
  BY <1>0, <1>4 DEF Used
<1> QED BY <1>1, <1>2, <1>3, <1>4, StepsOfSetup DEF Delete, setupVars, daemonVars

----------------------------------------------------------------------------
(* The databases. *)

\* A database no program has made yet is in no directory, and open nowhere.
Unmade == {"unborn", "asking", "removing", "making"}
FreshDb ==
  \A p \in Programs : proc[p] \in Unmade =>
    /\ \A v \in Vaults : dir[v].db # p
    /\ \A h \in Hosts : \A e : Uses(h, e) => e.db # p
\* Unless a claim was taken away, the lock file of a database in use is its
\* user's, and its user is one.
LocksHeld ==
  ~overrun => \A h \in Hosts : \A e : Uses(h, e) /\ dir[e.vault] # NoDir /\ e.db = dir[e.vault].db => lock[e.vault] = h
OneUser ==
  ~overrun => \A g, h \in Hosts : \A e, o : Uses(g, e) /\ Uses(h, o) /\ e.vault = o.vault /\ e.db = o.db => g = h

\* What is in use is an engine.
LEMMA UsesTyped ==
  ASSUME TypeInv, NEW h \in Hosts, NEW e, Uses(h, e)
  PROVE  e \in Engines /\ e.vault \in Vaults
<1>1. \A c \in Clients : request[c].pc \in {"opening", "busy"} => request[c].got \subseteq Engines
  <2> SUFFICES ASSUME NEW c \in Clients, request[c].pc \in {"opening", "busy"} PROVE request[c].got \subseteq Engines
    OBVIOUS
  <2>1. request[c] \in Asked
    BY DEF TypeInv, RequestsTyped, NoRequest, Refused
  <2> QED BY <2>1 DEF Asked
<1>2. e \in Engines
  BY <1>1 DEF Uses, TypeInv, EnginesTyped
<1> QED BY <1>2 DEF Engines

\* A directory keeps its database, goes, or is made by a program.
DbKept == \A v \in Vaults : (dir'[v].db = dir[v].db /\ (dir[v] = NoDir => dir'[v] = NoDir)) \/ dir'[v] = NoDir
Makes(p) ==
  /\ proc[p] = "making" /\ proc'[p] = "made"
  /\ \A v \in Vaults : dir'[v] = dir[v] \/ dir'[v].db = p

\* A program's step keeps the databases of the directories, or makes its own.
LEMMA DbOfProgram ==
  ASSUME TypeInv, NEW p \in Programs, ProgramStep(p)
  PROVE  DbKept \/ Makes(p)
<1>0. dir' = dir => DbKept
  BY DEF DbKept
<1>1. CASE MakeDir(p)
  <2>1. \/ dir' = dir
        \/ GoOn(p, "made") /\ (Directory(task[p].vault, [db |-> p, epoch |-> NoEpoch, synced |-> FALSE])
                               \/ Directory(task[p].vault, dir[task[p].vault]))
    BY <1>1 DEF MakeDir
  <2>2. GoOn(p, "made") => proc'[p] = "made"
    BY DEF GoOn, Enter, TypeInv, ProcessesTyped, Hosts
  <2>3. proc[p] = "making"
    BY <1>1 DEF MakeDir
  <2> QED BY <1>0, <2>1, <2>2, <2>3 DEF Directory, Makes, TypeInv, VaultsTyped
<1>2. CASE Validate(p) \/ RemoveDir(p)
  <2>1. dir' = dir \/ Directory(task[p].vault, NoDir)
    BY <1>2 DEF Validate, RemoveDir, Remove
  <2> QED BY <1>0, <2>1 DEF Directory, DbKept, TypeInv, VaultsTyped
<1>3. CASE WriteManifest(p)
  <2>1. dir' = dir \/ (dir[task[p].vault] # NoDir /\ Directory(task[p].vault, [dir[task[p].vault] EXCEPT !.synced = FALSE]))
    BY <1>3 DEF WriteManifest
  <2> QED BY <1>0, <2>1 DEF Directory, DbKept, TypeInv, VaultsTyped
<1>4. CASE WriteEpoch(p)
  <2>1. dir' = dir \/ (dir[task[p].vault] # NoDir /\ Directory(task[p].vault, [dir[task[p].vault] EXCEPT !.epoch = p]))
    BY <1>4 DEF WriteEpoch, NextEpoch
  <2> QED BY <1>0, <2>1 DEF Directory, DbKept, TypeInv, VaultsTyped
<1>5. CASE Work(p)
  <2>1. \A v \in Vaults : dir'[v] = dir[v] \/ (dir[v] # NoDir /\ dir'[v] = [dir[v] EXCEPT !.synced = TRUE])
    BY <1>5 DEF Work, Indexed
  <2> QED BY <2>1 DEF DbKept, TypeInv, VaultsTyped
<1>6. CASE ~(MakeDir(p) \/ Validate(p) \/ RemoveDir(p) \/ WriteManifest(p) \/ WriteEpoch(p) \/ Work(p))
  <2>1. dir' = dir
    BY <1>6 DEF ProgramStep, ReadRegistry, WriteRegistry, OpenLocal, RestoreConfig, KillProgram, RunProgram, disk
  <2> QED BY <1>0, <2>1
<1> QED BY <1>1, <1>2, <1>3, <1>4, <1>5, <1>6

\* Only programs make databases; any other step keeps a directory or removes it.
LEMMA DbOfStep ==
  ASSUME TypeInv, [SetupNext]_setupVars
  PROVE  DbKept \/ \E p \in Programs : Makes(p)
<1>0. dir' = dir => DbKept
  BY DEF DbKept
<1>1. ASSUME NEW d \in Daemons, DaemonStep(d) PROVE DbKept
  <2>1. dir' = dir
    BY <1>1 DEF DaemonStep, Look, Clear, Claim, Bind, Cancel, CleanUp, PanelOff, CloseAll, Evict, Exit, Crash, Ended,
                EndOpen, Proactive, PanelStart, PanelSwitch, disk
  <2> QED BY <1>0, <2>1
<1>2. ASSUME NEW c \in Clients, ClientStep(c) PROVE DbKept
  <2>1. dir' = dir \/ \E es, calls : Indexed(es, calls)
    BY <1>2 DEF ClientStep, Serve, Got, Answer, Connect, WatchPhase2, GetOrOpen, disk
  <2>2. \A v \in Vaults : dir'[v] = dir[v] \/ (dir[v] # NoDir /\ dir'[v] = [dir[v] EXCEPT !.synced = TRUE])
    BY <2>1 DEF Indexed
  <2> QED BY <2>2 DEF DbKept, TypeInv, VaultsTyped
<1>3. ASSUME NEW v \in Vaults, Delete(v) PROVE DbKept
  <2>1. dir' = [dir EXCEPT ![v] = NoDir]
    BY <1>3 DEF Delete, Remove, Directory
  <2> QED BY <2>1 DEF DbKept, TypeInv, VaultsTyped
<1>4. CASE UNCHANGED setupVars
  BY <1>0, <1>4 DEF setupVars, daemonVars
<1> QED BY <1>1, <1>2, <1>3, <1>4, DbOfProgram, StepsOfSetup

\* A program does not go back to before it made its database.
LEMMA UnmadeOfStep ==
  ASSUME TypeInv, [SetupNext]_setupVars
  PROVE  \A p \in Programs : proc'[p] \in Unmade => proc[p] \in Unmade
<1>0. Programs \subseteq Hosts
  BY DEF Hosts
<1>1. ASSUME NEW d \in Daemons, DaemonStep(d) PROVE \A p \in Programs : proc'[p] = proc[p]
  <2>1. proc' = proc \/ \E s : Enter(d, s)
    BY <1>1 DEF DaemonStep, Look, Clear, Claim, Bind, Cancel, CleanUp, PanelOff, CloseAll, Evict, Exit, Crash, Ended,
                EndOpen, Proactive, PanelStart, PanelSwitch
  <2> QED BY <1>0, <2>1, NamesDiffer DEF Enter, TypeInv, ProcessesTyped
<1>2. ASSUME NEW c \in Clients, ClientStep(c) PROVE proc' = proc
  BY <1>2 DEF ClientStep, Serve, Got, Answer, Connect, WatchPhase2, GetOrOpen
<1>3. ASSUME NEW p \in Programs, ProgramStep(p) PROVE \A x \in Programs : proc'[x] \in Unmade => proc[x] \in Unmade
  <2>1. \E s \in Stages : Enter(p, s) /\ (s \in Unmade => proc[p] \in Unmade)
    BY <1>3 DEF ProgramStep, MakeDir, Validate, WriteManifest, WriteEpoch, ReadRegistry, WriteRegistry,
                OpenLocal, RemoveDir, RestoreConfig, Work, KillProgram, RunProgram, GoOn, Done, Unmade, Stages
  <2> QED BY <1>0, <2>1 DEF Enter, TypeInv, ProcessesTyped
<1>4. ASSUME NEW v \in Vaults, Delete(v) PROVE proc' = proc
  BY <1>4 DEF Delete
<1> QED BY <1>1, <1>2, <1>3, <1>4, StepsOfSetup DEF setupVars, daemonVars

\* Every engine in use after a step is of a database that was in use, or in a directory.
LEMMA DbInUse ==
  ASSUME TypeInv, NothingGot, [SetupNext]_setupVars, NEW h \in Hosts, NEW e, Uses(h, e)'
  PROVE  (\E o : Uses(h, o) /\ o.vault = e.vault /\ o.db = e.db) \/ \E v \in Vaults : e.vault = v /\ e.db = dir[v].db
<1>1. CASE Shrinks
  BY <1>1 DEF Shrinks
<1>2. ASSUME NEW d \in Daemons, EndOpen(d), Grows(d, Made(d)), ~Uses(h, e)
      PROVE  \E o : Uses(h, o) /\ o.vault = e.vault /\ o.db = e.db
  <2>1. h = d /\ e = Made(d)
    BY <1>2 DEF Grows
  <2>2. opening[d] # NoOpening
    BY <1>2 DEF EndOpen
  <2>3. Made(d).vault = opening[d].engine.vault /\ Made(d).db = opening[d].engine.db
    BY <2>2, MadeEngine
  <2>4. Uses(h, opening[d].engine)
    BY <2>1, <2>2 DEF Uses
  <2> QED BY <2>1, <2>3, <2>4
<1>3. ASSUME NEW x, NEW v \in Vaults, Grows(x, Opens(x, v)), ~Uses(h, e) PROVE e.vault = v /\ e.db = dir[v].db
  BY <1>3 DEF Grows, Opens
<1>4. \A d, v, who, dropped : Opened(d, v, who, dropped) => Grows(d, Opens(d, v))
  BY DEF Opened
<1> QED BY <1>1, <1>2, <1>3, <1>4, UsesOfStep

\* Until a program makes its database, no directory and no engine has it, and every step
\* keeps it so.
LEMMA FreshKept == TypeInv /\ NothingGot /\ FreshDb /\ [SetupNext]_setupVars => FreshDb'
<1> SUFFICES ASSUME TypeInv, NothingGot, FreshDb, [SetupNext]_setupVars, NEW p \in Programs, proc'[p] \in Unmade
             PROVE  /\ \A v \in Vaults : dir'[v].db # p
                    /\ \A h \in Hosts : \A e : Uses(h, e)' => e.db # p
  BY DEF FreshDb
<1>1. proc[p] \in Unmade
  BY UnmadeOfStep
<1>2. (\A v \in Vaults : dir[v].db # p) /\ \A h \in Hosts : \A e : Uses(h, e) => e.db # p
  BY <1>1 DEF FreshDb
<1>3. NoDir.db # p
  BY NamesDiffer DEF NoDir
<1>4. \A x \in Programs : Makes(x) => x # p
  BY DEF Makes, Unmade
<1>5. \A v \in Vaults : dir'[v].db # p
  BY <1>2, <1>3, <1>4, DbOfStep DEF DbKept, Makes
<1>6. \A h \in Hosts : \A e : Uses(h, e)' => e.db # p
  BY <1>2, DbInUse
<1> QED BY <1>5, <1>6

\* A daemon that opens a vault is up, and while no claim was taken away the PID file
\* names it.
LEMMA OpenerClaims ==
  ASSUME TypeInv, UpWhereUsed, ClaimHeld, ~overrun, NEW d \in Daemons, proc[d] # "exiting",
         \/ proc[d] \in {"bound", "serving"} \/ panel[d] # NoEngine
         \/ \E c \in Clients : request[c].pc = "opening" /\ request[c].to = d
  PROVE  ~Stale
<1>1. proc[d] \in Up
  BY DEF UpWhereUsed, Used, Up
<1>2. Claims(d) /\ Alive(d)
  BY <1>1, NamesDiffer DEF Up, Claims, Alive
<1> QED BY <1>1, <1>2 DEF ClaimHeld, Stale

\* A lock file in use changes hands only when its directory or its process goes.
LEMMA LockOfStep ==
  ASSUME TypeInv, NothingGot, UpWhereUsed, ClaimHeld, ~overrun, ~overrun', [SetupNext]_setupVars, NEW v \in Vaults
  PROVE  \/ dir'[v] = NoDir
         \/ \E d \in Daemons : lock[v] = d /\ \A e : ~Uses(d, e)'
         \/ Locked(v) => lock'[v] = lock[v]
<1> DEFINE Moves == \/ dir'[v] = NoDir
                    \/ \E d \in Daemons : lock[v] = d /\ \A e : ~Uses(d, e)'
                    \/ Locked(v) => lock'[v] = lock[v]
<1>0. lock' = lock => Moves
  OBVIOUS
<1>1. ASSUME NEW d \in Daemons, NEW w, NEW who, NEW dropped, BeginOpen(d, w, who, dropped), ~Stale PROVE Moves
  <2>1. CASE Openable(d, w, dropped)
    <3>1. lock' = [lock EXCEPT ![w] = d] /\ (Locked(w) => lock[w] = d)
      BY <1>1, <2>1 DEF BeginOpen, Openable
    <3> QED BY <3>1 DEF TypeInv, VaultsTyped
  <2>2. CASE ~Openable(d, w, dropped)
    BY <1>0, <1>1, <2>2 DEF BeginOpen
  <2> QED BY <2>1, <2>2
<1>2. ASSUME NEW t, Remove(t) PROVE Moves
  BY <1>2 DEF Remove, Directory, TypeInv, VaultsTyped
<1>3. ASSUME NEW d \in Daemons, DaemonStep(d) PROVE Moves
  <2>1. CASE Exit(d) \/ Crash(d)
    <3>1. \A e : ~Uses(d, e)'
      BY <2>1, ShrinksByEnd
    <3>2. lock' = [w \in Vaults |-> IF lock[w] = d THEN NoOne ELSE lock[w]]
      BY <2>1 DEF Exit, Crash, Ended
    <3> QED BY <3>1, <3>2
  <2>2. CASE \E w \in Vaults : Proactive(d, w) \/ PanelStart(d, w) \/ PanelSwitch(d, w)
    <3>1. \/ lock' = lock
          \/ \E w, who, dropped : BeginOpen(d, w, who, dropped)
      BY <2>2 DEF Proactive, PanelStart, PanelSwitch
    <3>2. proc[d] \in {"bound", "serving"} \/ panel[d] # NoEngine
      BY <2>2 DEF Proactive, PanelStart, PanelSwitch
    <3>3. proc[d] # "exiting"
      BY <2>2 DEF Proactive, PanelStart, PanelSwitch
    <3>4. ~Stale
      BY <3>2, <3>3, OpenerClaims
    <3> QED BY <1>0, <1>1, <3>1, <3>4
  <2>3. CASE ~(Exit(d) \/ Crash(d) \/ \E w \in Vaults : Proactive(d, w) \/ PanelStart(d, w) \/ PanelSwitch(d, w))
    <3>1. lock' = lock
      BY <1>3, <2>3 DEF DaemonStep, Look, Clear, Claim, Bind, Cancel, CleanUp, PanelOff, CloseAll, Evict, EndOpen, engines
    <3> QED BY <1>0, <3>1
  <2> QED BY <2>1, <2>2, <2>3
<1>4. ASSUME NEW c \in Clients, ClientStep(c) PROVE Moves
  <2>1. CASE \E w \in Vaults : GetOrOpen(c, w)
    <3>1. request[c].pc = "opening" /\ proc[request[c].to] # "exiting"
      BY <2>1 DEF GetOrOpen
    <3>2. request[c].to \in Daemons
      BY <3>1 DEF TypeInv, RequestsTyped, NoRequest, Refused, Asked
    <3>3. ~Stale
      BY <3>1, <3>2, OpenerClaims
    <3>4. lock' = lock \/ \E w, who, dropped : BeginOpen(request[c].to, w, who, dropped)
      BY <2>1 DEF GetOrOpen
    <3> QED BY <1>0, <1>1, <3>2, <3>3, <3>4
  <2>2. CASE ~\E w \in Vaults : GetOrOpen(c, w)
    <3>1. lock' = lock
      BY <1>4, <2>2 DEF ClientStep, Serve, Got, Answer, Connect, WatchPhase2, engines
    <3> QED BY <1>0, <3>1
  <2> QED BY <2>1, <2>2
<1>5. ASSUME NEW p \in Programs, ProgramStep(p) PROVE Moves
  <2>1. CASE OpenLocal(p)
    <3>1. lock' = lock \/ (~Locked(task[p].vault) /\ lock' = [lock EXCEPT ![task[p].vault] = p])
      BY <2>1 DEF OpenLocal
    <3> QED BY <1>0, <3>1 DEF TypeInv, VaultsTyped
  <2>2. CASE ~OpenLocal(p)
    <3>1. lock' = lock \/ Remove(task[p].vault)
      BY <1>5, <2>2 DEF ProgramStep, MakeDir, Validate, WriteManifest, WriteEpoch, ReadRegistry, WriteRegistry,
                        RemoveDir, RestoreConfig, Work, KillProgram, RunProgram
    <3> QED BY <1>0, <1>2, <3>1
  <2> QED BY <2>1, <2>2
<1>6. ASSUME NEW w \in Vaults, Delete(w) PROVE Moves
  BY <1>2, <1>6 DEF Delete
<1>7. ASSUME UNCHANGED setupVars PROVE Moves
  BY <1>0, <1>7 DEF setupVars, daemonVars
<1> HIDE DEF Moves
<1>8. Moves
  BY <1>3, <1>4, <1>5, <1>6, <1>7, StepsOfSetup
<1> QED BY <1>8 DEF Moves

\* An engine in use that has the directory's database locks it.
LEMMA UseLocks ==
  ASSUME TypeInv, LocksHeld, ~overrun, NEW h \in Hosts, NEW e, Uses(h, e), dir[e.vault] # NoDir, e.db = dir[e.vault].db
  PROVE  lock[e.vault] = h /\ Locked(e.vault)
<1>1. lock[e.vault] = h
  BY DEF LocksHeld
<1>2. e \in InUse(h) /\ h # NoOne
  BY UsesAreInUse, NamesDiffer DEF Hosts
<1> QED BY <1>1, <1>2 DEF Locked

\* What is opened is not locked by another process.
LEMMA OpenedAlone ==
  ASSUME TypeInv, NothingGot, UpWhereUsed, ClaimHeld, ~overrun, ~overrun', [SetupNext]_setupVars
  PROVE  \/ \A h \in Hosts : \A e : Uses(h, e)' => \E o : Uses(h, o) /\ o.vault = e.vault /\ o.db = e.db
         \/ \E x \in Hosts, v \in Vaults :
              /\ Grows(x, Opens(x, v)) /\ dir' = dir /\ dir[v] # NoDir /\ lock'[v] = x
              /\ Locked(v) => lock[v] = x
<1>1. ASSUME Shrinks
      PROVE  \A h \in Hosts : \A e : Uses(h, e)' => \E o : Uses(h, o) /\ o.vault = e.vault /\ o.db = e.db
  BY <1>1 DEF Shrinks
<1>2. ASSUME NEW d \in Daemons, EndOpen(d), Grows(d, Made(d)), NEW h \in Hosts, NEW e, Uses(h, e)'
      PROVE  \E o : Uses(h, o) /\ o.vault = e.vault /\ o.db = e.db
  <2>1. opening[d] # NoOpening
    BY <1>2 DEF EndOpen
  <2>2. Made(d).vault = opening[d].engine.vault /\ Made(d).db = opening[d].engine.db
    BY <2>1, MadeEngine
  <2>3. Uses(d, opening[d].engine)
    BY <2>1 DEF Uses
  <2>4. Uses(h, e) \/ (h = d /\ e = Made(d))
    BY <1>2 DEF Grows
  <2> QED BY <2>2, <2>3, <2>4
<1>3. ASSUME NEW d \in Daemons, NEW v \in Vaults, NEW who, NEW dropped, Opened(d, v, who, dropped)
      PROVE  /\ d \in Hosts /\ Grows(d, Opens(d, v)) /\ dir' = dir /\ dir[v] # NoDir /\ lock'[v] = d
             /\ Locked(v) => lock[v] = d
  <2>1. Openable(d, v, dropped) /\ BeginOpen(d, v, who, dropped) /\ Grows(d, Opens(d, v)) /\ dir' = dir
    BY <1>3 DEF Opened
  <2>2. ~Stale
    BY <1>3, OpenerClaims DEF Opened
  <2>3. lock' = [lock EXCEPT ![v] = d]
    BY <2>1 DEF BeginOpen
  <2>4. lock'[v] = d
    BY <2>3 DEF TypeInv, VaultsTyped
  <2> QED BY <2>1, <2>2, <2>4 DEF Openable, Hosts
<1>4. ASSUME NEW p \in Programs, NEW v \in Vaults, OpenLocal(p), lock' = [lock EXCEPT ![v] = p]
      PROVE  p \in Hosts /\ dir' = dir /\ lock'[v] = p
  BY <1>4 DEF OpenLocal, disk, Hosts, TypeInv, VaultsTyped
<1> QED BY <1>1, <1>2, <1>3, <1>4, UsesOfStep

\* A database in use stays its directory's, or its directory goes.
LEMMA DbStays ==
  ASSUME TypeInv, FreshDb, [SetupNext]_setupVars,
         NEW h \in Hosts, NEW e, Uses(h, e), dir'[e.vault] # NoDir, e.db = dir'[e.vault].db
  PROVE  dir[e.vault] # NoDir /\ e.db = dir[e.vault].db
<1>1. e.vault \in Vaults
  BY UsesTyped
<1>2. ASSUME NEW p \in Programs, Makes(p) PROVE dir'[e.vault] = dir[e.vault]
  <2>1. e.db # p
    BY <1>2 DEF Makes, FreshDb, Unmade
  <2> QED BY <1>1, <1>2, <2>1 DEF Makes
<1> QED BY <1>1, <1>2, DbOfStep DEF DbKept

\* Every step keeps the lock files with the users of their databases.
LEMMA LocksKept ==
  TypeInv /\ NothingGot /\ UpWhereUsed /\ SeenGone /\ ClaimHeld /\ FreshDb /\ LocksHeld /\ [SetupNext]_setupVars => LocksHeld'
<1> SUFFICES ASSUME TypeInv, NothingGot, UpWhereUsed, ClaimHeld, FreshDb, LocksHeld, ~overrun, ~overrun', [SetupNext]_setupVars,
                    NEW h \in Hosts, NEW e, Uses(h, e)', dir'[e.vault] # NoDir, e.db = dir'[e.vault].db
             PROVE  lock'[e.vault] = h
  BY ClaimKept DEF LocksHeld
<1>1. CASE \E o : Uses(h, o) /\ o.vault = e.vault /\ o.db = e.db
  <2>1. PICK o : Uses(h, o) /\ o.vault = e.vault /\ o.db = e.db
    BY <1>1
  <2>2. PICK v \in Vaults : v = e.vault
    BY <2>1, UsesTyped
  <2>3. dir[v] # NoDir /\ o.db = dir[v].db
    BY <2>1, <2>2, DbStays
  <2>4. lock[v] = h /\ Locked(v)
    BY <2>1, <2>2, <2>3, UseLocks
  <2>5. lock'[v] = lock[v] \/ \E d \in Daemons : lock[v] = d /\ \A x : ~Uses(d, x)'
    BY <2>2, <2>4, LockOfStep
  <2> QED BY <2>2, <2>4, <2>5
<1>2. CASE ~\E o : Uses(h, o) /\ o.vault = e.vault /\ o.db = e.db
  <2>1. PICK x \in Hosts, v \in Vaults : Grows(x, Opens(x, v)) /\ lock'[v] = x
    BY <1>2, OpenedAlone
  <2>2. h = x /\ e = Opens(x, v)
    BY <1>2, <2>1 DEF Grows
  <2> QED BY <2>1, <2>2 DEF Opens
<1> QED BY <1>1, <1>2

\* Every step keeps each database with one process.
LEMMA OneUserKept ==
  TypeInv /\ NothingGot /\ UpWhereUsed /\ SeenGone /\ ClaimHeld /\ LocksHeld /\ OneUser /\ [SetupNext]_setupVars => OneUser'
<1> SUFFICES ASSUME TypeInv, NothingGot, UpWhereUsed, ClaimHeld, LocksHeld, OneUser, ~overrun, ~overrun', [SetupNext]_setupVars,
                    NEW g \in Hosts, NEW h \in Hosts, NEW e, NEW o,
                    Uses(g, e)', Uses(h, o)', e.vault = o.vault, e.db = o.db
             PROVE  g = h
  BY ClaimKept DEF OneUser
<1>1. CASE \A j \in Hosts : \A i : Uses(j, i)' => \E k : Uses(j, k) /\ k.vault = i.vault /\ k.db = i.db
  <2>1. PICK k : Uses(g, k) /\ k.vault = e.vault /\ k.db = e.db
    BY <1>1
  <2>2. PICK l : Uses(h, l) /\ l.vault = o.vault /\ l.db = o.db
    BY <1>1
  <2> QED BY <2>1, <2>2 DEF OneUser
<1>2. ASSUME NEW x \in Hosts, NEW v \in Vaults, Grows(x, Opens(x, v)), dir[v] # NoDir, Locked(v) => lock[v] = x
      PROVE  g = h
  <2>1. Opens(x, v).vault = v /\ Opens(x, v).db = dir[v].db
    BY DEF Opens
  <2>2. \A j \in Hosts : \A i : Uses(j, i) /\ i.vault = v /\ i.db = dir[v].db => j = x
    BY <1>2, UseLocks
  <2> QED BY <1>2, <2>1, <2>2 DEF Grows, OneUser
<1> QED BY <1>1, <1>2, OpenedAlone

\* While no claim was taken away, a serving daemon is the one the PID file and the
\* socket lead to, and no database is open in two processes.
THEOREM ClaimsGuardVaults == SetupSpec => []ClaimGuards
<1>1. SetupInit => TypeInv /\ NothingGot /\ Owned /\ UpWhereUsed /\ SeenGone /\ ClaimHeld /\ FreshDb /\ LocksHeld /\ OneUser
  <2> SUFFICES ASSUME SetupInit
               PROVE  NothingGot /\ Owned /\ UpWhereUsed /\ SeenGone /\ ClaimHeld /\ FreshDb /\ LocksHeld /\ OneUser
    BY TypedInit
  <2>1. \A h \in Hosts : \A e : ~Uses(h, e)
    BY DEF SetupInit, DaemonInit, NoRequest, Uses, Hosts
  <2>2. NothingGot /\ UpWhereUsed /\ SeenGone
    BY DEF SetupInit, DaemonInit, NothingGot, NoRequest, UpWhereUsed, Used, SeenGone
  <2>3. ClaimHeld
    BY DEF SetupInit, DaemonInit, ClaimHeld, Claims, Hosts
  <2>4. FreshDb
    BY <2>1, NamesDiffer DEF SetupInit, DaemonInit, FreshDb, FirstDir, NoDir
  <2> QED BY <2>1, <2>2, <2>3, <2>4 DEF Owned, LocksHeld, OneUser
<1>2. TypeInv /\ Owned /\ ClaimHeld /\ OneUser => ClaimGuards
  <2> SUFFICES ASSUME TypeInv, Owned, ClaimHeld, OneUser, ~overrun PROVE ClaimGuards
    BY DEF ClaimGuards
  <2>1. \A d \in Daemons : proc[d] = "serving" => pidFile = d /\ socket = d
    BY DEF ClaimHeld, Claims
  <2>2. ASSUME NEW e \in Open, NEW o \in Open, e.vault = o.vault, e.db = o.db PROVE e.by = o.by
    <3>1. PICK g \in Hosts : Uses(g, e)
      BY UsesAreInUse DEF Open
    <3>2. PICK h \in Hosts : Uses(h, o)
      BY UsesAreInUse DEF Open
    <3> QED BY <2>2, <3>1, <3>2 DEF OneUser, Owned
  <2> QED BY <2>1, <2>2 DEF ClaimGuards
<1> QED BY <1>1, <1>2, TypesKept, NothingGotKept, OwnedKept, UpKept, SeenKept, ClaimKept, FreshKept, LocksKept,
           OneUserKept, PTL DEF SetupSpec
=============================================================================
