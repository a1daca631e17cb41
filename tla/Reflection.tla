----------------------------- MODULE Reflection -----------------------------
(***************************************************************************)
(* Reflection in hebbs-core: the direct run (which the background worker    *)
(* shares) and the two calls an agent makes instead, prepare and commit,    *)
(* over episodes that are remembered and forgotten meanwhile.  A cursor per *)
(* scope remembers how far reflection has come; a session carries what a    *)
(* prepare offered to the commit that answers it.                           *)
(***************************************************************************)
EXTENDS Naturals, FiniteSets

CONSTANTS
  Episodes,      \* memories of kind Episode that may be remembered
  Entity,        \* Entity[m]: the entity of an episode, or NoEntity
  NoEntity,
  Tenant,        \* Tenant[m]: the tenant that remembers it
  Tenants, Default,
  SessionIds,
  Calls,         \* calls of run and commit in progress
  MinMemories, MaxMemories, MinCluster,
  Ttl,           \* SESSION_TTL_US, in ticks of the clock
  Scopes,        \* scopes asked for: entities, and the string "global"
  Sinces,        \* the since_us a caller may give; 0 stands for none
  MaxClock, MaxInsights

ASSUME ReflectionConstants ==
  /\ Default \in Tenants
  /\ Entity \in [Episodes -> {Entity[m] : m \in Episodes}]
  /\ Tenant \in [Episodes -> Tenants]
  /\ {MinMemories, MaxMemories, MinCluster, Ttl, MaxClock, MaxInsights} \subseteq Nat \ {0}
  /\ Sinces \subseteq Nat /\ Scopes # {} /\ IsFiniteSet(Episodes)

Global == "global"

VARIABLES
  clock,
  live,      \* episodes in the store
  born,      \* created_at, 0 before
  cursor,    \* cursor[t][sc]: reflect_cursor of the scope in the tenant's store
  session,   \* the session store; NoSession when absent
  call,      \* what each call of run or commit is doing
  insights,  \* stored insights, with the call and the session they come from
  \* history, read by the properties only
  given,     \* session ids given out
  taken,     \* how often each session was taken for a commit
  offered,   \* offered[k]: what a session, or a run of the call k, could cite
  seen,      \* episodes a run or a session took up, by tenant and scope
  missed     \* episodes passed over by a cursor that a since, the cap or the
             \* time between reading and committing left out

reflectVars == <<clock, live, born, cursor, session, call, insights, given, taken, offered, seen, missed>>

NoSession == [at |-> 0]
Idle == [pc |-> "idle"]

ReflectInit ==
  /\ clock = 1 /\ live = {} /\ born = [m \in Episodes |-> 0]
  /\ cursor = [t \in Tenants |-> [sc \in Scopes |-> 0]]
  /\ session = [s \in SessionIds |-> NoSession] /\ call = [c \in Calls |-> Idle]
  /\ insights = {} /\ given = {} /\ taken = [s \in SessionIds |-> 0]
  /\ offered = [k \in SessionIds \cup Calls |-> {}]
  /\ seen = [t \in Tenants |-> [sc \in Scopes |-> {}]] /\ missed = seen

-----------------------------------------------------------------------------
(* Scoping and clustering                                                  *)

\* The default tenant's store is the backend itself: it sees every key.
Visible(t) == {m \in live : t = Default \/ Tenant[m] = t}
InScope(t, sc) == {m \in Visible(t) : sc = Global \/ Entity[m] = sc}

Due(t, sc) == {m \in InScope(t, sc) : born[m] >= cursor[t][sc]}

\* The store is read in the order of its keys, which follow time, up to the cap.
Takes(S) ==
  {T \in SUBSET S : /\ Cardinality(T) = IF Cardinality(S) < MaxMemories
                                        THEN Cardinality(S) ELSE MaxMemories
                    /\ \A m \in T, n \in S \ T : born[m] <= born[n]}
ScopeMemories(t, sc, since) == Takes({m \in Due(t, sc) : born[m] >= since})

\* cluster_embeddings: an error below the minimum, one cluster while two cannot
\* be formed, else the parts of a partition that are large enough.
Clusterings(S) ==
  IF Cardinality(S) < MinCluster THEN {}
  ELSE IF Cardinality(S) < 2 * MinCluster THEN {{S}}
  ELSE {P \in SUBSET {T \in SUBSET S : Cardinality(T) >= MinCluster} :
          \A X, Y \in P : X = Y \/ X \cap Y = {}}

\* What a reader at this moment leaves out although the cursor has not passed it.
LeftOut(t, sc, S) == Due(t, sc) \ S
Window(t, sc, from) == {m \in InScope(t, sc) : born[m] >= from}

InferredFirst(sources, known) ==          \* mutant: the first source decides
  LET names == {Entity[m] : m \in sources \cap known} \ {NoEntity}
  IN  IF names = {} THEN NoEntity ELSE CHOOSE e \in names : TRUE
\* The entity that all sources with one agree on, or none.
Inferred(sources, known) ==
  LET names == {Entity[m] : m \in sources \cap known} \ {NoEntity}
  IN  IF Cardinality(names) = 1 THEN CHOOSE e \in names : TRUE ELSE NoEntity
InsightEntity(sc, sources, known) ==
  IF sc # Global THEN sc ELSE Inferred(sources, known)

-----------------------------------------------------------------------------
(* Prepare: offer clusters under a session                                 *)

Unexpired == [s \in SessionIds |->
  IF session[s] # NoSession /\ clock - session[s].at >= Ttl THEN NoSession ELSE session[s]]

Prepare(t, sc, since, s) ==
  /\ s \notin given /\ given' = given \cup {s}
  /\ \E S \in ScopeMemories(t, sc, since) :
     \E P \in IF Cardinality(S) < MinMemories THEN {{}} ELSE Clusterings(S) :
       /\ session' = [Unexpired EXCEPT ![s] =
            [at |-> clock, tenant |-> t, scope |-> sc, valid |-> UNION P,
             took |-> S, out |-> LeftOut(t, sc, S)]]
       /\ offered' = [offered EXCEPT ![s] = @ \cup {UNION P}]
  /\ UNCHANGED <<clock, live, born, cursor, call, insights, taken, seen, missed>>

\* An insight is kept if it cites only what the session offered; from here on
\* the commit works in the default tenant's store.
Begin(c, s) ==
  \E batch \in SUBSET (SUBSET Episodes \ {{}}) :
    /\ Cardinality(batch) <= 1
    /\ call' = [call EXCEPT ![c] =
         [pc |-> "store", key |-> s, tenant |-> Default, asked |-> session[s].tenant, scope |-> session[s].scope,
          todo |-> {src \in batch : src \subseteq session[s].valid}, from |-> session[s].at,
          known |-> session[s].valid \cap Visible(Default),
          took |-> session[s].took, out |-> session[s].out]]
TakeCopy(c, s) ==                         \* mutant: the session stays in the store
  /\ call[c] = Idle /\ Unexpired[s] # NoSession
  /\ session' = Unexpired /\ taken' = [taken EXCEPT ![s] = @ + 1]
  /\ Begin(c, s)
  /\ UNCHANGED <<clock, live, born, cursor, insights, given, offered, seen, missed>>
\* Commit takes the session away before anything is stored.
Take(c, s) ==
  /\ call[c] = Idle /\ Unexpired[s] # NoSession
  /\ session' = [Unexpired EXCEPT ![s] = NoSession]
  /\ taken' = [taken EXCEPT ![s] = @ + 1]
  /\ Begin(c, s)
  /\ UNCHANGED <<clock, live, born, cursor, insights, given, offered, seen, missed>>

-----------------------------------------------------------------------------
(* The direct run                                                          *)

\* Too few memories: nothing happens, the cursor stays.
RunScope(c, t, sc, since) ==
  /\ call[c] = Idle
  /\ \E S \in ScopeMemories(t, sc, since) :
       /\ Cardinality(S) >= MinMemories
       /\ \E P \in Clusterings(S) :
            /\ call' = [call EXCEPT ![c] =
                 [pc |-> "propose", key |-> c, tenant |-> t, asked |-> t, scope |-> sc, clusters |-> P,
                  from |-> clock, known |-> S, took |-> S, out |-> LeftOut(t, sc, S)]]
            /\ offered' = [offered EXCEPT ![c] = @ \cup {UNION P}]
  /\ UNCHANGED <<clock, live, born, cursor, session, insights, given, taken, seen, missed>>

\* Proposal and validation, cluster by cluster.  A cluster whose model calls
\* fail yields nothing; sources outside the cluster are dropped, and an insight
\* left with none is given the whole cluster.
Propose(c) ==
  /\ call[c].pc = "propose"
  /\ \E yield \in SUBSET call[c].clusters :
     \E cites \in [yield -> SUBSET call[c].known] :
       LET Sources(k) == IF cites[k] \cap k = {} THEN k ELSE cites[k] \cap k
       IN  call' = [call EXCEPT ![c] =
             [pc |-> "store", key |-> c, tenant |-> call[c].tenant, asked |-> call[c].asked, scope |-> call[c].scope,
              todo |-> {Sources(k) : k \in yield}, from |-> call[c].from,
              known |-> call[c].known, took |-> call[c].took, out |-> call[c].out]]
  /\ UNCHANGED <<clock, live, born, cursor, session, insights, given, taken, offered, seen, missed>>

-----------------------------------------------------------------------------
(* Shared by both: store the insights one by one, then move the cursor     *)

\* An insight that cannot be embedded or stored is skipped.
StoreInsight(c) ==
  /\ call[c].pc = "store"
  /\ \E src \in call[c].todo :
       /\ call' = [call EXCEPT ![c].todo = @ \ {src}]
       /\ \/ /\ Cardinality(insights) < MaxInsights
             /\ insights' = insights \cup
                  {[key |-> call[c].key, tenant |-> call[c].tenant, asked |-> call[c].asked, sources |-> src,
                    entity |-> InsightEntity(call[c].scope, src, call[c].known),
                    known |-> call[c].known, scope |-> call[c].scope]}
          \/ UNCHANGED insights
  /\ UNCHANGED <<clock, live, born, cursor, session, given, taken, offered, seen, missed>>

StampAhead(c) ==                         \* mutant: past what was just read
  /\ call[c].pc = "store" /\ call[c].todo = {}
  /\ call' = [call EXCEPT ![c] = [pc |-> "put", tenant |-> call[c].tenant,
       scope |-> call[c].scope, stamp |-> clock + 1, took |-> call[c].took,
       out |-> call[c].out \cup Window(call[c].tenant, call[c].scope, call[c].from)]]
  /\ UNCHANGED <<clock, live, born, cursor, session, insights, given, taken, offered, seen, missed>>
\* The cursor will be the time of the commit, not of the read.
Stamp(c) ==
  /\ call[c].pc = "store" /\ call[c].todo = {}
  /\ call' = [call EXCEPT ![c] = [pc |-> "put", tenant |-> call[c].tenant,
       scope |-> call[c].scope, stamp |-> clock, took |-> call[c].took,
       out |-> call[c].out \cup Window(call[c].tenant, call[c].scope, call[c].from)]]
  /\ UNCHANGED <<clock, live, born, cursor, session, insights, given, taken, offered, seen, missed>>

\* Writing the cursor may fail: the insights stay, the cursor does not move.
PutCursor(c) ==
  /\ call[c].pc = "put"
  /\ call' = [call EXCEPT ![c] = Idle]
  /\ LET t == call[c].tenant
         sc == call[c].scope
     IN  \/ /\ cursor' = [cursor EXCEPT ![t][sc] = call[c].stamp]
            /\ seen' = [seen EXCEPT ![t][sc] = @ \cup call[c].took]
            /\ missed' = [missed EXCEPT ![t][sc] = @ \cup call[c].out]
         \/ UNCHANGED <<cursor, seen, missed>>
  /\ UNCHANGED <<clock, live, born, session, insights, given, taken, offered>>

-----------------------------------------------------------------------------
(* The rest of the engine                                                  *)

NewEpisode(m) ==
  /\ born[m] = 0 /\ born' = [born EXCEPT ![m] = clock] /\ live' = live \cup {m}
  /\ UNCHANGED <<clock, cursor, session, call, insights, given, taken, offered, seen, missed>>
Forget(m) ==
  /\ m \in live /\ live' = live \ {m}
  /\ UNCHANGED <<clock, born, cursor, session, call, insights, given, taken, offered, seen, missed>>
Tick ==
  /\ clock < MaxClock /\ clock' = clock + 1
  /\ UNCHANGED <<live, born, cursor, session, call, insights, given, taken, offered, seen, missed>>

ReflectNext ==
  \/ Tick
  \/ \E m \in Episodes : NewEpisode(m) \/ Forget(m)
  \/ \E t \in Tenants, sc \in Scopes, since \in Sinces :
       \/ \E s \in SessionIds : Prepare(t, sc, since, s)
       \/ \E c \in Calls : RunScope(c, t, sc, since)
  \/ \E c \in Calls : \/ \E s \in SessionIds : Take(c, s)
                      \/ Propose(c) \/ StoreInsight(c) \/ Stamp(c) \/ PutCursor(c)

ReflectSpec == ReflectInit /\ [][ReflectNext]_reflectVars

-----------------------------------------------------------------------------
(* Properties                                                              *)

\* A session answers one commit, however many ask for it at once.
SessionOnce == \A s \in SessionIds : taken[s] <= 1

\* Every stored insight cites episodes that one reflect offered together with
\* the session or run it comes from: nothing of another session gets in.
SourcesOffered == \A i \in insights : \E O \in offered[i.key] : i.sources \subseteq O

\* A session answers one commit, and with nothing but what it offered.
SessionsHonest == SessionOnce /\ SourcesOffered

\* An insight of a global reflect carries an entity only if none of its sources
\* that could still be read at the time belongs to another one.
EntityAgrees ==
  \A i \in insights : i.scope = Global /\ i.entity # NoEntity =>
    \A m \in i.sources \cap i.known : Entity[m] \in {NoEntity, i.entity}

\* An episode behind the cursor of its scope was taken up by a reflect that went
\* through, whether or not its insights could be stored, or was left out for a stated reason: the caller's since, the cap, or
\* being remembered between a read and its commit.  A commit that fails, expires
\* or is never sent loses nothing.
BehindCursorAccounted ==
  \A t \in Tenants, sc \in Scopes : \A m \in InScope(t, sc) :
    born[m] < cursor[t][sc] => m \in seen[t][sc] \cup missed[t][sc]

\* The insights of a tenant's session are stored for that tenant.
InsightsStayInTenant ==
  \A i \in insights : i.tenant = i.asked
=============================================================================
