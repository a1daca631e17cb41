------------------------------- MODULE Setup -------------------------------
(***************************************************************************)
(* The commands that run in the process of the command line, beside any     *)
(* daemon: init makes a vault or makes it anew, rebuild removes it first    *)
(* and indexes it again, and in direct mode the other commands open the     *)
(* database themselves (bin/hebbs.rs, lib.rs).                              *)
(***************************************************************************)
EXTENDS Daemon, TLC

CONSTANT LocalAsked   \* the commands run in direct mode, of LocalCommands

ASSUME SetupConstants == LocalAsked \subseteq DOMAIN LocalCommands

VARIABLES
  task,     \* what each program was asked
  removed   \* a vault's directory was removed by its owner; once at most

setupVars == <<daemonVars, task, removed>>
others == <<claim, panel, opening, request, working, overrun, mixed, removed>>

NoTask == [cmd |-> "none"]

SetupInit == DaemonInit /\ task = [p \in Programs |-> NoTask] /\ removed = FALSE

Done(p) ==
  /\ Enter(p, "gone") /\ manager' = [manager EXCEPT ![p] = {}]
  /\ task' = [task EXCEPT ![p] = NoTask]
GoOn(p, pc) == Enter(p, pc) /\ UNCHANGED <<manager, task>>
Directory(v, made) == dir' = [dir EXCEPT ![v] = made]
\* The lock file goes with the directory.
Remove(v) == Directory(v, NoDir) /\ lock' = [lock EXCEPT ![v] = NoOne]

-----------------------------------------------------------------------------
(* init                                                                    *)

\* A directory that is there is kept with its database under --force; its config is
\* overwritten.
MakeDir(p) ==
  /\ proc[p] = "making"
  /\ LET v == task[p].vault
     IN  IF dir[v] # NoDir /\ ~task[p].force
         THEN Done(p) /\ UNCHANGED dir
         ELSE /\ GoOn(p, "made")
              /\ Directory(v, IF dir[v] # NoDir THEN dir[v]
                              ELSE [db |-> p, epoch |-> NoEpoch, synced |-> FALSE])
  /\ UNCHANGED <<others, registry, filled, lock>>
\* The model given on the command line is tried; if it fails the directory goes,
\* also one that was there before.
Validate(p) ==
  /\ proc[p] = "made"
  /\ \/ GoOn(p, "valid") /\ UNCHANGED <<dir, lock>>
     \/ task[p].cmd = "init" /\ Done(p) /\ Remove(task[p].vault)
  /\ UNCHANGED <<others, registry, filled>>
\* Each file is written into the directory, which may have gone.
WriteManifest(p) ==
  /\ proc[p] = "valid"
  /\ LET v == task[p].vault
     IN  IF dir[v] = NoDir THEN Done(p) /\ UNCHANGED dir
         ELSE GoOn(p, "empty") /\ Directory(v, [dir[v] EXCEPT !.synced = FALSE])
  /\ UNCHANGED <<others, registry, filled, lock>>
NextEpochSame(p) == "first"               \* mutant: the epoch does not change
NextEpoch(p) == p
WriteEpoch(p) ==
  /\ proc[p] = "empty"
  /\ LET v == task[p].vault
     IN  IF dir[v] = NoDir THEN Done(p) /\ UNCHANGED dir
         ELSE /\ Directory(v, [dir[v] EXCEPT !.epoch = NextEpoch(p)])
              /\ GoOn(p, IF task[p].cmd = "init" THEN "registering" ELSE "rebuilt")
  /\ UNCHANGED <<others, registry, filled, lock>>
\* vaults.json is read, and written whole if the vault is not in it.
ReadRegistry(p) ==
  /\ proc[p] = "registering" /\ Enter(p, "registered")
  /\ task' = [task EXCEPT ![p] = @ @@ [listed |-> registry]]
  /\ UNCHANGED <<others, manager, disk, lock>>
WriteRegistry(p) ==
  /\ proc[p] = "registered" /\ Done(p)
  /\ LET listed == task[p].listed
     IN  registry' = IF task[p].vault \in listed THEN registry ELSE listed \cup {task[p].vault}
  /\ UNCHANGED <<others, dir, filled, lock>>

-----------------------------------------------------------------------------
(* Direct mode and rebuild                                                 *)

\* setup_engine: the lock of another process is an error, whoever holds it.
OpenLocal(p) ==
  /\ proc[p] = "asking"
  /\ LET v == task[p].vault
     IN  \/ LocalCommands[task[p].cmd].vaults = "none" /\ GoOn(p, "ready") /\ UNCHANGED lock
         \/ /\ LocalCommands[task[p].cmd].vaults # "none"
            /\ IF dir[v] = NoDir \/ Locked(v) THEN Done(p) /\ UNCHANGED lock
               ELSE /\ manager' = [manager EXCEPT ![p] = {Opens(p, v)}]
                    /\ lock' = [lock EXCEPT ![v] = p]
                    /\ Enter(p, IF task[p].cmd = "rebuild" THEN "removing" ELSE "ready")
                    /\ UNCHANGED task
  /\ UNCHANGED <<others, disk>>
\* rebuild: the config is read, the directory goes with the database that is open in
\* it, and init makes a new one, unless another process did.
RemoveDir(p) ==
  /\ proc[p] = "removing" /\ GoOn(p, "making") /\ Remove(task[p].vault)
  /\ UNCHANGED <<others, registry, filled>>
\* The config is written back, if there is a place for it.
RestoreConfig(p) ==
  /\ proc[p] = "rebuilt"
  /\ IF dir[task[p].vault] = NoDir THEN Done(p) ELSE GoOn(p, "ready")
  /\ UNCHANGED <<others, disk, lock>>
\* The command's calls go to the engine that was opened.
Work(p) ==
  /\ proc[p] = "ready" /\ Done(p)
  /\ Indexed(manager[p], LocalCommands[task[p].cmd].calls)
  /\ UNCHANGED <<others, lock>>

-----------------------------------------------------------------------------
\* Without an endpoint, with or without HEBBS_NO_DAEMON; what goes to a daemon is a
\* request of Daemon's.
RunProgram(p, v, cmd, force) ==
  /\ proc[p] = "unborn" /\ \E alone \in BOOLEAN : WayOf(cmd, FALSE, alone, socket # NoOne) = "direct"
  /\ Enter(p, IF cmd = "init" THEN "making" ELSE "asking")
  /\ task' = [task EXCEPT ![p] = [cmd |-> cmd, vault |-> v, force |-> force]]
  /\ UNCHANGED <<others, manager, disk, lock>>
KillProgram(p) ==
  /\ Alive(p) /\ Done(p) /\ UNCHANGED <<others, disk, lock>>
\* Someone deletes the .hebbs of a vault.
Delete(v) ==
  /\ ~removed /\ removed' = TRUE /\ dir[v] # NoDir /\ Remove(v)
  /\ UNCHANGED <<claim, proc, registry, filled, manager, panel, opening, request, working, overrun, mixed, task>>

SetupNext ==
  \/ DaemonNext /\ UNCHANGED <<task, removed>>
  \/ \E p \in Programs :
       \/ MakeDir(p) \/ Validate(p) \/ WriteManifest(p) \/ WriteEpoch(p)
       \/ ReadRegistry(p) \/ WriteRegistry(p) \/ OpenLocal(p) \/ RemoveDir(p)
       \/ RestoreConfig(p) \/ Work(p) \/ KillProgram(p)
       \/ \E v \in Vaults : \/ \E force \in BOOLEAN : RunProgram(p, v, "init", force)
                            \/ \E cmd \in LocalAsked : RunProgram(p, v, cmd, FALSE)
  \/ \E v \in Vaults : Delete(v)

SetupSpec == SetupInit /\ [][SetupNext]_setupVars
=============================================================================
