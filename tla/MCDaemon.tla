------------------------------ MODULE MCDaemon ------------------------------
(* The daemon's processes and vaults, and the panel's handlers; they share no *)
(* variable, and each initial state chooses the part that acts.               *)
EXTENDS Setup, Panel

CONSTANTS w1, w2

VARIABLE part

\* Two processes at a time, a daemon among them or not; none beside the panel.
MCCasts == {cast \in SUBSET (Daemons \cup Programs) : Cardinality(cast) \in {0, 2}}
\* Processes are alike, and so are vaults.
MCSymmetry ==
  Permutations(Daemons) \cup Permutations(Programs) \cup Permutations(Vaults)

\* The part that does not act has one initial state.
MCInit ==
  /\ part \in {"processes", "panel"} /\ SetupInit /\ PanelInit
  /\ part = "panel" => registry = {} /\ \A h \in Hosts : proc[h] = "gone"
  /\ part = "processes" => active = w1 /\ \E h \in Hosts : proc[h] # "gone"

MCNext ==
  /\ UNCHANGED part
  /\ \/ part = "processes" /\ SetupNext /\ UNCHANGED panelVars
     \/ part = "panel" /\ PanelNext /\ UNCHANGED setupVars

MCSpec == MCInit /\ [][MCNext]_<<part, setupVars, panelVars>>
=============================================================================
