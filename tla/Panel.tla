------------------------------- MODULE Panel -------------------------------
(***************************************************************************)
(* The panel's HTTP handlers (hebbs-vault/panel/routes.rs).  They share the *)
(* active vault, which may be switched at any time, and one cached          *)
(* projection of its memories, with the positions the user pinned.  Pages   *)
(* and answers are left out.                                                *)
(***************************************************************************)
EXTENDS Naturals, Sequences, FiniteSets

LOCAL INSTANCE SequencesExt

CONSTANTS
  VaultsShown,   \* vaults, open or not
  Requests,      \* requests, over time
  Memories,      \* per vault
  Listed,        \* those of them that the manifest lists
  MinNodes,      \* nodes from which a projection is made
  RoutesAsked,   \* routes asked, of Routes
  MaxChanges     \* bound on the memories that come and go, queries logged and restarts

VARIABLES
  active,    \* the vault shown: its engine and its root
  stored,    \* stored[v]: the memories in its database
  pins,      \* pins[v]: the pinned positions in its database
  cache,     \* the projection: the nodes it was made for and its pins, or NoCache
  req,       \* how far each request is
  log,       \* log[v]: the queries in its database, in the order of their times
  nextId,    \* the next id of a logged query, in this process
  changes,
  tainted    \* history: what the cache holds was written by a request that another
             \* pin or switch overtook

panelVars == <<active, stored, pins, cache, req, log, nextId, changes, tainted>>
queryLog == <<log, nextId>>

NoCache == [count |-> 0]
Unasked == [pc |-> "idle"]

-----------------------------------------------------------------------------
(* The routes: what a handler takes of the active vault, under one lock, and *)
(* what it reads and writes then                                            *)

Snapshot(calls) == [takes |-> {"engine", "root"}, calls |-> calls]
OfEngine(calls) == [takes |-> {"engine"}, calls |-> calls]
OfRoot(calls) == [takes |-> {"root"}, calls |-> calls]

ListVaults == OfRoot(<<"registry">>)
SwitchVault == [takes |-> {}, calls |-> <<"get_or_open">>]
ResyncStale == Snapshot(<<"config", "manifest", "phase2", "save manifest">>)
VaultStatus == Snapshot(<<"manifest", "get", "count">>)
GraphNodes == <<"manifest", "get">>
GraphEdges == <<"search_vector", "outgoing_edges">>
GraphData == Snapshot(GraphNodes \o GraphEdges \o <<"projection">>)
PinPosition == OfEngine(<<"put pin">>)
UnpinPosition == OfEngine(<<"delete pin">>)
MemoryDetail == Snapshot(<<"get", "edges", "neighbors", "manifest">>)
RecallSearch == Snapshot(<<"recall", "manifest">>)
HealthDetail == Snapshot(<<"manifest", "get", "forgotten">>)
Dismiss == OfEngine(<<"forget">>)
\* Not a reinforcement: the content is remembered again.
Reinforce == OfEngine(<<"get", "remember">>)
TimelineData == Snapshot(<<"manifest", "get">>)
TimelineSnapshot == Snapshot(<<"manifest", "get">>)
ForgottenTimeline == OfEngine(<<"forgotten">>)
GetConfig == OfRoot(<<"config">>)
\* What is read is merged with the global config, and is written so.
UpdateConfig == OfRoot(<<"config", "validate", "save config", "notify">>)
ResetConfig == OfRoot(<<"save config", "notify">>)
ExportConfig == OfRoot(<<"config">>)
Dashboard == Snapshot(<<"manifest", "config", "get", "insights">>)
ListMemories == Snapshot(<<"manifest", "get">>)
Events == [takes |-> {}, calls |-> <<"subscribe">>]
ListQueries == OfEngine(<<"log">>)
GetQuery == OfEngine(<<"log">>)
QueryStats == OfEngine(<<"log">>)
ListFiles == OfRoot(<<"manifest">>)
FileContent == Snapshot(<<"manifest", "file", "get">>)

Routes ==
  [vaults |-> ListVaults, switch |-> SwitchVault, resync |-> ResyncStale, status |-> VaultStatus,
   graph |-> GraphData, pin |-> PinPosition, unpin |-> UnpinPosition, memory |-> MemoryDetail,
   recall |-> RecallSearch, health |-> HealthDetail, dismiss |-> Dismiss, reinforce |-> Reinforce,
   timeline |-> TimelineData, snapshot |-> TimelineSnapshot, forgotten |-> ForgottenTimeline,
   config |-> GetConfig, update |-> UpdateConfig, reset |-> ResetConfig, export |-> ExportConfig,
   dashboard |-> Dashboard, memories |-> ListMemories, ws |-> Events, queries |-> ListQueries,
   query |-> GetQuery, query_stats |-> QueryStats, files |-> ListFiles, content |-> FileContent]

-----------------------------------------------------------------------------
PanelInit ==
  /\ active \in VaultsShown /\ stored \in [VaultsShown -> {Memories}]
  /\ pins = [v \in VaultsShown |-> {}] /\ cache = NoCache
  /\ req = [r \in Requests |-> Unasked] /\ log = [v \in VaultsShown |-> <<>>] /\ nextId = 1
  /\ changes = 0 /\ tainted = FALSE

\* A memory of v, as a key of the cache.
Key(v, m) == <<v, m>>
Nodes(v) == stored[v] \cap Listed

Step(r, q) == req' = [req EXCEPT ![r] = q]
\* A pin or a switch overtakes the requests that have yet to write the projection.
Writes(q) == q.pc \in {"saved", "place", "label"} \/ (q.pc = "asked" /\ q.route \in {"graph", "pin", "unpin"})
Overtake(r, q) ==
  req' = [x \in Requests |-> IF x = r THEN q
                             ELSE IF Writes(req[x]) THEN [req[x] EXCEPT !.late = TRUE] ELSE req[x]]
Placed == [pc |-> "placed"]

\* The vault is taken once; a later switch does not change it.
Ask(r, route, m) ==
  /\ req[r] = Unasked
  /\ Step(r, [pc |-> "asked", route |-> route, m |-> m, vault |-> active, late |-> FALSE,
             count |-> 0, pinned |-> {}])
  /\ UNCHANGED <<active, stored, pins, cache, queryLog, changes, tainted>>
Asked(r, route) == req[r].pc = "asked" /\ req[r].route = route
\* Routes that read; memories that are gone meanwhile are left out of the answer.
Reply(r) ==
  /\ req[r].pc = "asked" /\ Step(r, Unasked)
  /\ req[r].route \notin {"switch", "graph", "pin", "unpin", "dismiss", "reinforce"}
  /\ UNCHANGED <<active, stored, pins, cache, queryLog, changes, tainted>>

SwitchSwap(r, v) ==
  /\ Asked(r, "switch") /\ active' = v /\ Overtake(r, [pc |-> "swapped"])
  /\ UNCHANGED <<stored, pins, cache, queryLog, changes, tainted>>
SwitchKeeps(r) ==                         \* mutant: the projection is not dropped
  /\ req[r].pc = "swapped" /\ Step(r, Unasked)
  /\ UNCHANGED <<active, stored, pins, cache, queryLog, changes, tainted>>
SwitchInvalidate(r) ==
  /\ req[r].pc = "swapped" /\ Step(r, Unasked) /\ cache' = NoCache /\ tainted' = FALSE
  /\ UNCHANGED <<active, stored, pins, queryLog, changes>>

\* Pin and unpin: the database first, then the projection that is there.
Toggled(s, x, on) == IF on THEN s \cup {x} ELSE s \ {x}
SavePin(r) ==
  /\ Asked(r, "pin") \/ Asked(r, "unpin")
  /\ pins' = [pins EXCEPT ![req[r].vault] = Toggled(@, Key(req[r].vault, req[r].m), req[r].route = "pin")]
  /\ Overtake(r, [req[r] EXCEPT !.pc = "saved"])
  /\ UNCHANGED <<active, stored, cache, queryLog, changes, tainted>>
CachePin(r) ==
  /\ req[r].pc = "saved" /\ Step(r, Unasked)
  /\ IF cache = NoCache THEN UNCHANGED <<cache, tainted>>
     ELSE /\ cache' = [cache EXCEPT !.pinned = Toggled(@, Key(req[r].vault, req[r].m), req[r].route = "pin")]
          /\ tainted' = (tainted \/ req[r].late)
  /\ UNCHANGED <<active, stored, pins, queryLog, changes>>

\* The graph: a cached projection is used if it was made of as many nodes.
GraphLook(r) ==
  /\ Asked(r, "graph")
  /\ LET n == Cardinality(Nodes(req[r].vault))
     IN  Step(r, IF n < MinNodes THEN Unasked
                 ELSE IF cache # NoCache /\ cache.count = n THEN Placed
                 ELSE [req[r] EXCEPT !.pc = "place", !.count = n])
  /\ UNCHANGED <<active, stored, pins, cache, queryLog, changes, tainted>>
\* The projection is made of all memories in the index.
GraphPlace(r) ==
  /\ req[r].pc = "place"
  /\ LET v == req[r].vault
     IN  Step(r, IF stored[v] = {} THEN Placed
                 ELSE [req[r] EXCEPT !.pc = "label", !.pinned = pins[v]])
  /\ UNCHANGED <<active, stored, pins, cache, queryLog, changes, tainted>>
\* The clusters are labelled, by a model if one is configured; then it is cached.
GraphStore(r) ==
  /\ req[r].pc = "label" /\ Step(r, Placed)
  /\ cache' = [count |-> req[r].count, pinned |-> req[r].pinned]
  /\ tainted' = req[r].late
  /\ UNCHANGED <<active, stored, pins, queryLog, changes>>
\* Whatever projection is cached now is applied to the nodes.
GraphApply(r) ==
  /\ req[r].pc = "placed" /\ Step(r, Unasked)
  /\ UNCHANGED <<active, stored, pins, cache, queryLog, changes, tainted>>

\* A memory that is not there is not remembered again.
HealthActed(s, route, m) ==
  IF route = "dismiss" THEN s \ {m} ELSE IF m \in s THEN s \cup (Memories \ Listed) ELSE s
HealthAction(r) ==
  /\ Asked(r, "dismiss") \/ Asked(r, "reinforce")
  /\ stored' = [stored EXCEPT ![req[r].vault] = HealthActed(@, req[r].route, req[r].m)]
  /\ Step(r, Unasked)
  /\ UNCHANGED <<active, pins, cache, queryLog, changes, tainted>>
\* Elsewhere files are indexed and memories forgotten.
Ingest(v, m) ==
  /\ changes < MaxChanges /\ changes' = changes + 1
  /\ stored' = [stored EXCEPT ![v] = Toggled(@, m, m \notin @)]
  /\ UNCHANGED <<active, pins, cache, req, queryLog, tainted>>

-----------------------------------------------------------------------------
(* The query log                                                           *)

\* A recall or prime of the daemon logs itself; ids are counted in memory.
LogQuery(v) ==
  /\ changes < MaxChanges /\ changes' = changes + 1
  /\ log' = [log EXCEPT ![v] = Append(@, [id |-> nextId, time |-> changes])]
  /\ nextId' = nextId + 1
  /\ UNCHANGED <<active, stored, pins, cache, req, tainted>>
\* Newest first; and the first in order of time that has the id.
ListLog(v) == Reverse(log[v])
GetLog(v, id) == SelectSeq(log[v], LAMBDA entry : entry.id = id)[1]

\* The daemon ends and starts again, with some vault in its panel.
Restart(v) ==
  /\ changes < MaxChanges /\ changes' = changes + 1
  /\ active' = v /\ nextId' = 1 /\ cache' = NoCache /\ tainted' = FALSE
  /\ req' = [r \in Requests |-> Unasked]
  /\ UNCHANGED <<stored, pins, log>>

PanelNext ==
  \/ \E r \in Requests :
       \/ \E route \in RoutesAsked, m \in Listed : Ask(r, route, m)
       \/ Reply(r) \/ SwitchInvalidate(r) \/ SavePin(r) \/ CachePin(r) \/ HealthAction(r)
       \/ GraphLook(r) \/ GraphPlace(r) \/ GraphStore(r) \/ GraphApply(r)
       \/ \E v \in VaultsShown : SwitchSwap(r, v)
  \/ \E v \in VaultsShown : LogQuery(v) \/ Restart(v) \/ \E m \in Memories : Ingest(v, m)

PanelSpec == PanelInit /\ [][PanelNext]_panelVars

-----------------------------------------------------------------------------
(* Properties                                                              *)

\* Between requests, a projection that a graph of the active vault would use pins
\* what is pinned in that vault's database, and nothing else, whatever vaults,
\* positions and memories changed since it was made; unless a pin or a switch ran
\* during the request that wrote it.
PinsShown ==
  ~tainted /\ cache # NoCache /\ cache.count = Cardinality(Nodes(active))
    /\ (\A r \in Requests : req[r].pc \notin {"saved", "swapped"}) =>
  LET shown == {Key(active, m) : m \in Nodes(active)}
  IN  shown \cap cache.pinned = shown \cap pins[active]

\* The id of a query that is listed leads to it: an id is unique, as query_log.rs:27
\* says.
QueriesFound ==
  \A v \in VaultsShown : \A entry \in ToSet(ListLog(v)) : GetLog(v, entry.id) = entry
=============================================================================
