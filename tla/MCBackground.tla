---------------------------- MODULE MCBackground ----------------------------
(* The loops that run behind a server's or a daemon's requests: the engine's *)
(* workers and the watch loop of a vault.  They share no variable; each      *)
(* initial state chooses the part that acts.                                 *)
EXTENDS Workers, TLC

CONSTANTS f1, h1, b1, Blank, Indexers

VARIABLES part, disk, events, saved, store, open, watch, locked, run, edits, runs,
          stops, excused, torn, found

Vault == INSTANCE Vault WITH
  Files <- {f1}, Texts <- {h1 :> b1}, Hollow <- {}, Large <- {h1 :> b1},
  MaxEdits <- 1, MaxRuns <- 2, MaxStops <- 1

vaultVars ==
  <<disk, events, saved, store, open, watch, locked, run, edits, runs, stops, excused, torn, found>>

\* The part that does not act has one initial state.
MCInit ==
  /\ part \in {"workers", "vault"} /\ WorkersInit /\ Vault!VaultInit
  /\ part = "workers" => disk[f1] = <<>>
  /\ part = "vault" => kind = "decay"

MCNext ==
  /\ UNCHANGED part
  /\ \/ part = "workers" /\ WorkersNext /\ UNCHANGED vaultVars
     \/ part = "vault" /\ Vault!VaultNext /\ UNCHANGED workerVars

\* Each part is scheduled fairly where it acts: WorkersFairness and VaultFairness.
MCFairness ==
  LET Works(A) == part = "workers" /\ A
      Follows(A) == part = "vault" /\ A
  IN  /\ \A w \in Threads : WF_workerVars(Works(Loop(w)))
      /\ WF_workerVars(Works(JoinedThread))
      /\ WF_vaultVars(Follows(Vault!CatchUp \/ \E f \in {f1} : Vault!Receive(f)))
      /\ WF_vaultVars(Follows(Vault!Phase1Tick))
      /\ WF_vaultVars(Follows(Vault!LoopPhase2)) /\ WF_vaultVars(Follows(Vault!LoopSave))
      /\ \A r \in {"watch"} \cup Indexers : WF_vaultVars(Follows(Vault!Extract(r, f1)))
      /\ \A i \in Indexers :
           WF_vaultVars(Follows(Vault!IndexPhase1(i) \/ Vault!IndexPhase2(i)
                                \/ Vault!IndexFails(i) \/ Vault!IndexSave(i)))

MCSpec == MCInit /\ [][MCNext]_<<part, workerVars, vaultVars>> /\ MCFairness

\* Pending work of a vault is taken up, and every run of phase 2 ends.
Settles == Vault!Settles
=============================================================================
