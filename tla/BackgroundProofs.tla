-------------------------- MODULE BackgroundProofs --------------------------
(***************************************************************************)
(* Proofs about what runs behind the requests: Reflection, for any         *)
(* episodes, tenants, sessions, calls, limits and lifetimes of a session;  *)
(* Contradiction, for any memories, any number of concurrent checks,       *)
(* commits and forgets, and any number of verdicts in a commit; Workers.   *)
(* The three share no variable.                                            *)
(***************************************************************************)
EXTENDS Reflection, Contradiction, Workers, FiniteSetTheorems, TLAPS

-----------------------------------------------------------------------------
(* Reflection                                                              *)

Keys == SessionIds \cup Calls
Sets == SUBSET Episodes

Sessions == [at : Nat, tenant : Tenants, scope : Scopes, valid : Sets, took : Sets, out : Sets]

\* What a call may be doing.
Proposing == [pc : {"propose"}, key : Keys, tenant : Tenants, asked : Tenants, scope : Scopes,
              clusters : SUBSET Sets, from : Nat, known : Sets, took : Sets, out : Sets]
Storing == [pc : {"store"}, key : Keys, tenant : Tenants, asked : Tenants, scope : Scopes,
            todo : SUBSET Sets, from : Nat, known : Sets, took : Sets, out : Sets]
Putting == [pc : {"put"}, tenant : Tenants, scope : Scopes, stamp : Nat, took : Sets, out : Sets]
CallStates == {Idle} \cup Proposing \cup Storing \cup Putting

\* The part of an insight that names something of this module.
Insights == {i \in [key : Keys, tenant : Tenants, asked : Tenants, sources : Sets,
                    entity : {InsightEntity(sc, src, known) : sc \in Scopes, src \in Sets, known \in Sets},
                    known : Sets, scope : Scopes] :
               i.entity = InsightEntity(i.scope, i.sources, i.known)}

ReflectTypeOK ==
  /\ clock \in Nat /\ live \in Sets /\ born \in [Episodes -> Nat]
  /\ cursor \in [Tenants -> [Scopes -> Nat]]
  /\ session \in [SessionIds -> {NoSession} \cup Sessions]
  /\ call \in [Calls -> CallStates]
  /\ insights \subseteq Insights
  /\ given \in SUBSET SessionIds /\ taken \in [SessionIds -> Nat]
  /\ offered \in [Keys -> SUBSET Sets]
  /\ seen \in [Tenants -> [Scopes -> Sets]] /\ missed \in [Tenants -> [Scopes -> Sets]]

\* A session is there only from the prepare that gave its id out to the take.
Untaken ==
  \A s \in SessionIds : /\ s \notin given => session[s] = NoSession /\ taken[s] = 0
                        /\ session[s] # NoSession => taken[s] = 0
                        /\ taken[s] <= 1

\* What sessions and calls may still cite was offered under their key.
Citing(c, r, offers) ==
  /\ r.pc = "propose" => r.key = c /\ UNION r.clusters \in offers[c]
  /\ r.pc = "store" => \A src \in r.todo : \E O \in offers[r.key] : src \subseteq O
Citable ==
  /\ \A s \in SessionIds : session[s] # NoSession => session[s].valid \in offered[s]
  /\ \A c \in Calls : Citing(c, call[c], offered)

ReflectInv == ReflectTypeOK /\ Untaken /\ Citable /\ SourcesOffered

-----------------------------------------------------------------------------
(* What stays as it was                                                     *)

\* What the pc of a call says of its record.
LEMMA CallType ==
  ASSUME ReflectTypeOK, NEW c \in Calls
  PROVE  /\ call[c].pc = "propose" => call[c] \in Proposing
         /\ call[c].pc = "store" => call[c] \in Storing
         /\ call[c].pc = "put" => call[c] \in Putting
BY DEF ReflectTypeOK, CallStates, Idle, Proposing, Storing, Putting

\* An idle call cites nothing.
LEMMA IdleState == Idle \in CallStates /\ Idle.pc \notin {"propose", "store", "put"}
BY DEF Idle, CallStates

\* An expired session is gone; any other is as it was.
LEMMA Expires ==
  ASSUME ReflectTypeOK
  PROVE  /\ Unexpired \in [SessionIds -> {NoSession} \cup Sessions]
         /\ \A s \in SessionIds : Unexpired[s] \in {NoSession, session[s]}
BY DEF ReflectTypeOK, Unexpired

\* What could be cited once still can when more is offered.
LEMMA CitingGrows ==
  ASSUME ReflectTypeOK, NEW d \in Calls, Citing(d, call[d], offered),
         \A k \in Keys : offered[k] \subseteq offered'[k]
  PROVE  Citing(d, call[d], offered')
<1>1. CASE call[d].pc = "propose"
  BY <1>1 DEF Citing, Keys
<1>2. CASE call[d].pc = "store"
  <2>1. call[d].key \in Keys
    BY <1>2, CallType DEF Storing
  <2> QED BY <1>2, <2>1 DEF Citing
<1> QED BY <1>1, <1>2 DEF Citing

\* A call that moves on to a state that cites what was offered keeps the rest.
LEMMA CallMoves ==
  ASSUME ReflectInv, NEW c \in Calls, NEW r \in CallStates,
         call' = [call EXCEPT ![c] = r],
         offered' \in [Keys -> SUBSET Sets], \A k \in Keys : offered[k] \subseteq offered'[k],
         Citing(c, r, offered')
  PROVE  /\ call' \in [Calls -> CallStates]
         /\ \A d \in Calls : Citing(d, call'[d], offered')
<1>1. call' \in [Calls -> CallStates] /\ call'[c] = r /\ \A d \in Calls \ {c} : call'[d] = call[d]
  BY DEF ReflectInv, ReflectTypeOK
<1>2. ASSUME NEW d \in Calls PROVE Citing(d, call[d], offered')
  BY CitingGrows DEF ReflectInv, Citable
<1> QED BY <1>1, <1>2

\* The episodes read for a scope, and those left out.
LEMMA ReadsType ==
  ASSUME ReflectTypeOK, NEW t \in Tenants, NEW sc \in Scopes, NEW since,
         NEW S \in ScopeMemories(t, sc, since)
  PROVE  S \in Sets /\ LeftOut(t, sc, S) \in Sets
BY DEF ReflectTypeOK, ScopeMemories, Takes, LeftOut, Due, InScope, Visible, Sets

\* Clusters are made of the episodes read.
LEMMA ClustersType ==
  ASSUME NEW S \in Sets, NEW P \in Clusterings(S)
  PROVE  P \in SUBSET Sets /\ UNION P \in Sets
BY DEF Clusterings, Sets

-----------------------------------------------------------------------------
(* Each action keeps the invariant.                                         *)

\* Prepare gives a fresh id out, with the clusters it offers.
LEMMA PrepareOK ==
  ASSUME ReflectInv, NEW t \in Tenants, NEW sc \in Scopes, NEW since, NEW s \in SessionIds,
         Prepare(t, sc, since, s)
  PROVE  ReflectInv'
<1>1. PICK S \in ScopeMemories(t, sc, since) :
        \E P \in IF Cardinality(S) < MinMemories THEN {{}} ELSE Clusterings(S) :
          /\ session' = [Unexpired EXCEPT ![s] =
               [at |-> clock, tenant |-> t, scope |-> sc, valid |-> UNION P,
                took |-> S, out |-> LeftOut(t, sc, S)]]
          /\ offered' = [offered EXCEPT ![s] = @ \cup {UNION P}]
  BY DEF Prepare
<1>2. PICK P \in IF Cardinality(S) < MinMemories THEN {{}} ELSE Clusterings(S) :
        /\ session' = [Unexpired EXCEPT ![s] =
             [at |-> clock, tenant |-> t, scope |-> sc, valid |-> UNION P,
              took |-> S, out |-> LeftOut(t, sc, S)]]
        /\ offered' = [offered EXCEPT ![s] = @ \cup {UNION P}]
  BY <1>1
<1> DEFINE v == UNION P
           r == [at |-> clock, tenant |-> t, scope |-> sc, valid |-> v,
                 took |-> S, out |-> LeftOut(t, sc, S)]
<1>3. S \in Sets /\ LeftOut(t, sc, S) \in Sets
  BY ReadsType DEF ReflectInv
<1>4. v \in Sets
  BY <1>3, ClustersType DEF Sets
<1>5. session' = [Unexpired EXCEPT ![s] = r] /\ offered' = [offered EXCEPT ![s] = @ \cup {v}]
  BY <1>2
<1> HIDE DEF v
<1>6. r \in Sessions /\ r.valid = v
  BY <1>3, <1>4 DEF Sessions, ReflectInv, ReflectTypeOK
<1> HIDE DEF r
<1>7. s \notin given /\ given' = given \cup {s}
  BY DEF Prepare
<1>8. Expires!2 /\ Unexpired \in [SessionIds -> {NoSession} \cup Sessions]
  BY Expires DEF ReflectInv
<1>9. session' \in [SessionIds -> {NoSession} \cup Sessions]
  BY <1>5, <1>6, <1>8
<1>10. offered' \in [Keys -> SUBSET Sets] /\ \A k \in Keys : offered[k] \subseteq offered'[k]
  BY <1>4, <1>5 DEF ReflectInv, ReflectTypeOK, Keys
<1>11. v \in offered'[s]
  BY <1>5 DEF ReflectInv, ReflectTypeOK, Keys
<1>12. Untaken'
  BY <1>5, <1>7, <1>8 DEF ReflectInv, Untaken, Prepare
<1>13. Citable'
  <2>1. \A d \in Calls : Citing(d, call[d], offered')
    BY <1>10, CitingGrows DEF ReflectInv, Citable
  <2>2. \A x \in SessionIds : session'[x] # NoSession => session'[x].valid \in offered'[x]
    BY <1>5, <1>6, <1>8, <1>10, <1>11 DEF ReflectInv, Citable, Keys
  <2> QED BY <2>1, <2>2 DEF Citable, Prepare
<1>14. SourcesOffered'
  BY <1>10 DEF ReflectInv, ReflectTypeOK, SourcesOffered, Insights, Prepare
<1> QED
  BY <1>7, <1>9, <1>10, <1>12, <1>13, <1>14 DEF ReflectInv, ReflectTypeOK, Prepare

\* A session is taken once: it leaves the store as it is counted.
LEMMA TakeOK ==
  ASSUME ReflectInv, NEW c \in Calls, NEW s \in SessionIds, Take(c, s)
  PROVE  ReflectInv'
<1>1. Unexpired[s] = session[s] /\ session[s] # NoSession /\ session[s] \in Sessions
  BY Expires DEF Take, ReflectInv, ReflectTypeOK
<1>2. session' = [Unexpired EXCEPT ![s] = NoSession] /\ taken' = [taken EXCEPT ![s] = @ + 1]
  BY DEF Take
<1>3. Expires!2 /\ Unexpired \in [SessionIds -> {NoSession} \cup Sessions]
  BY Expires DEF ReflectInv
<1>4. session' \in [SessionIds -> {NoSession} \cup Sessions]
  BY <1>2, <1>3
<1>5. taken[s] = 0 /\ taken'[s] = 1 /\ taken' \in [SessionIds -> Nat]
  BY <1>1, <1>2 DEF ReflectInv, ReflectTypeOK, Untaken
<1>6. Untaken'
  BY <1>1, <1>2, <1>3, <1>5 DEF ReflectInv, ReflectTypeOK, Untaken, Take
<1>7. PICK batch \in SUBSET (SUBSET Episodes \ {{}}) :
        call' = [call EXCEPT ![c] =
          [pc |-> "store", key |-> s, tenant |-> Default, asked |-> session[s].tenant,
           scope |-> session[s].scope,
           todo |-> {src \in batch : src \subseteq session[s].valid}, from |-> session[s].at,
           known |-> session[s].valid \cap Visible(Default),
           took |-> session[s].took, out |-> session[s].out]]
  BY DEF Take, Begin
<1> DEFINE todo == {src \in batch : src \subseteq session[s].valid}
           r == [pc |-> "store", key |-> s, tenant |-> Default, asked |-> session[s].tenant,
                 scope |-> session[s].scope, todo |-> todo, from |-> session[s].at,
                 known |-> session[s].valid \cap Visible(Default),
                 took |-> session[s].took, out |-> session[s].out]
<1>8. todo \subseteq Sets /\ \A src \in todo : src \subseteq session[s].valid
  BY DEF Sets
<1>9. call' = [call EXCEPT ![c] = r]
  BY <1>7
<1> HIDE DEF todo
<1>10. session[s].valid \cap Visible(Default) \in Sets
  BY <1>1 DEF Sessions, Sets
<1>11. r \in Storing /\ r.pc = "store" /\ r.todo = todo /\ r.key = s
  BY <1>1, <1>8, <1>10, ReflectionConstants DEF Sessions, Storing, Keys
<1> HIDE DEF r
<1>12. session[s].valid \in offered[s]
  BY <1>1 DEF ReflectInv, Citable
<1>13. Citing(c, r, offered')
  BY <1>8, <1>11, <1>12 DEF Citing, Take
<1>14. call' \in [Calls -> CallStates] /\ \A d \in Calls : Citing(d, call'[d], offered')
  BY <1>9, <1>11, <1>13, CallMoves DEF ReflectInv, ReflectTypeOK, CallStates, Take
<1>15. \A x \in SessionIds : session'[x] # NoSession => session'[x].valid \in offered[x]
  BY <1>2, <1>3 DEF ReflectInv, Citable
<1>16. Citable'
  BY <1>14, <1>15 DEF Citable, Take
<1> QED
  BY <1>4, <1>5, <1>6, <1>14, <1>16 DEF ReflectInv, ReflectTypeOK, SourcesOffered, Take

\* A run offers the model what it read.
LEMMA RunScopeOK ==
  ASSUME ReflectInv, NEW c \in Calls, NEW t \in Tenants, NEW sc \in Scopes, NEW since,
         RunScope(c, t, sc, since)
  PROVE  ReflectInv'
<1>1. PICK S \in ScopeMemories(t, sc, since) : \E P \in Clusterings(S) :
        /\ call' = [call EXCEPT ![c] =
             [pc |-> "propose", key |-> c, tenant |-> t, asked |-> t, scope |-> sc, clusters |-> P,
              from |-> clock, known |-> S, took |-> S, out |-> LeftOut(t, sc, S)]]
        /\ offered' = [offered EXCEPT ![c] = @ \cup {UNION P}]
  BY DEF RunScope
<1>2. PICK P \in Clusterings(S) :
        /\ call' = [call EXCEPT ![c] =
             [pc |-> "propose", key |-> c, tenant |-> t, asked |-> t, scope |-> sc, clusters |-> P,
              from |-> clock, known |-> S, took |-> S, out |-> LeftOut(t, sc, S)]]
        /\ offered' = [offered EXCEPT ![c] = @ \cup {UNION P}]
  BY <1>1
<1> DEFINE r == [pc |-> "propose", key |-> c, tenant |-> t, asked |-> t, scope |-> sc, clusters |-> P,
                 from |-> clock, known |-> S, took |-> S, out |-> LeftOut(t, sc, S)]
<1>3. S \in Sets /\ LeftOut(t, sc, S) \in Sets /\ P \in SUBSET Sets /\ UNION P \in Sets
  BY ReadsType, ClustersType DEF ReflectInv
<1>4. r \in Proposing /\ r.pc = "propose" /\ r.clusters = P /\ r.key = c
  BY <1>3 DEF Proposing, ReflectInv, ReflectTypeOK, Keys
<1>5. call' = [call EXCEPT ![c] = r]
  BY <1>2
<1> HIDE DEF r
<1>7. /\ offered' \in [Keys -> SUBSET Sets] /\ UNION P \in offered'[c]
      /\ \A k \in Keys : offered[k] \subseteq offered'[k]
  BY <1>2, <1>3 DEF ReflectInv, ReflectTypeOK, Keys
<1>8. Citing(c, r, offered')
  BY <1>4, <1>7 DEF Citing
<1>6. call' \in [Calls -> CallStates] /\ \A d \in Calls : Citing(d, call'[d], offered')
  BY <1>4, <1>5, <1>7, <1>8, CallMoves DEF CallStates
<1>9. Citable'
  BY <1>6, <1>7 DEF ReflectInv, Citable, RunScope, Keys
<1>10. SourcesOffered'
  BY <1>7 DEF ReflectInv, ReflectTypeOK, SourcesOffered, Insights, RunScope
<1> QED
  BY <1>6, <1>7, <1>9, <1>10 DEF ReflectInv, ReflectTypeOK, Untaken, RunScope

\* A model's sources outside their cluster are dropped.
LEMMA ProposeOK ==
  ASSUME ReflectInv, NEW c \in Calls, Propose(c)
  PROVE  ReflectInv'
<1>1. call[c] \in Proposing /\ UNION call[c].clusters \in offered[c]
  BY CallType DEF Propose, ReflectInv, Citable, Citing
<1>2. PICK yield \in SUBSET call[c].clusters : \E cites \in [yield -> SUBSET call[c].known] :
        call' = [call EXCEPT ![c] =
          [pc |-> "store", key |-> c, tenant |-> call[c].tenant, asked |-> call[c].asked, scope |-> call[c].scope,
           todo |-> {IF cites[k] \cap k = {} THEN k ELSE cites[k] \cap k : k \in yield}, from |-> call[c].from,
           known |-> call[c].known, took |-> call[c].took, out |-> call[c].out]]
  BY DEF Propose
<1>3. PICK cites \in [yield -> SUBSET call[c].known] :
        call' = [call EXCEPT ![c] =
          [pc |-> "store", key |-> c, tenant |-> call[c].tenant, asked |-> call[c].asked, scope |-> call[c].scope,
           todo |-> {IF cites[k] \cap k = {} THEN k ELSE cites[k] \cap k : k \in yield}, from |-> call[c].from,
           known |-> call[c].known, took |-> call[c].took, out |-> call[c].out]]
  BY <1>2
<1> DEFINE todo == {IF cites[k] \cap k = {} THEN k ELSE cites[k] \cap k : k \in yield}
           r == [pc |-> "store", key |-> c, tenant |-> call[c].tenant, asked |-> call[c].asked,
                 scope |-> call[c].scope, todo |-> todo, from |-> call[c].from,
                 known |-> call[c].known, took |-> call[c].took, out |-> call[c].out]
<1>4. \A src \in todo : \E k \in call[c].clusters : src \subseteq k
  OBVIOUS
<1>5. call' = [call EXCEPT ![c] = r]
  BY <1>3
<1> HIDE DEF todo
<1>6. todo \in SUBSET Sets /\ \A src \in todo : src \subseteq UNION call[c].clusters
  BY <1>1, <1>4 DEF Proposing, Sets
<1>7. r \in Storing /\ r.pc = "store" /\ r.todo = todo /\ r.key = c
  BY <1>1, <1>6 DEF Proposing, Storing, Keys
<1> HIDE DEF r
<1>8. Citing(c, r, offered')
  BY <1>1, <1>6, <1>7 DEF Citing, Propose
<1>9. call' \in [Calls -> CallStates] /\ \A d \in Calls : Citing(d, call'[d], offered')
  BY <1>5, <1>7, <1>8, CallMoves DEF ReflectInv, ReflectTypeOK, CallStates, Propose
<1> QED
  BY <1>9 DEF ReflectInv, ReflectTypeOK, Untaken, Citable, SourcesOffered, Propose

\* An insight is stored with sources its call may cite, and the entity they agree on.
LEMMA StoreInsightOK ==
  ASSUME ReflectInv, NEW c \in Calls, StoreInsight(c)
  PROVE  ReflectInv'
<1>1. call[c] \in Storing /\ Citing(c, call[c], offered)
  BY CallType DEF StoreInsight, ReflectInv, Citable
<1>2. PICK src \in call[c].todo :
        /\ call' = [call EXCEPT ![c].todo = @ \ {src}]
        /\ \/ insights' = insights \cup
                  {[key |-> call[c].key, tenant |-> call[c].tenant, asked |-> call[c].asked,
                    sources |-> src, entity |-> InsightEntity(call[c].scope, src, call[c].known),
                    known |-> call[c].known, scope |-> call[c].scope]}
           \/ UNCHANGED insights
  BY DEF StoreInsight
<1> DEFINE r == [call[c] EXCEPT !.todo = @ \ {src}]
           e == InsightEntity(call[c].scope, src, call[c].known)
           i == [key |-> call[c].key, tenant |-> call[c].tenant, asked |-> call[c].asked,
                 sources |-> src, entity |-> e, known |-> call[c].known, scope |-> call[c].scope]
<1>3. r \in Storing /\ r.pc = "store" /\ r.todo \subseteq call[c].todo /\ r.key = call[c].key
  BY <1>1 DEF Storing
<1>4. call' = [call EXCEPT ![c] = r]
  BY <1>2
<1> HIDE DEF r, e
<1>5. Citing(c, r, offered')
  BY <1>1, <1>3 DEF Citing, StoreInsight
<1>6. call' \in [Calls -> CallStates] /\ \A d \in Calls : Citing(d, call'[d], offered')
  BY <1>3, <1>4, <1>5, CallMoves DEF ReflectInv, ReflectTypeOK, CallStates, StoreInsight
<1>7. /\ call[c].key \in Keys /\ call[c].tenant \in Tenants /\ call[c].asked \in Tenants
      /\ src \in Sets /\ call[c].known \in Sets /\ call[c].scope \in Scopes
  BY <1>1 DEF Storing
<1>8. i \in Insights
  BY <1>7 DEF Insights, e
<1>9. \E O \in offered[i.key] : i.sources \subseteq O
  BY <1>1 DEF Citing, StoreInsight
<1>10. insights' \subseteq insights \cup {i}
  BY <1>2 DEF e
<1> HIDE DEF i
<1>11. insights' \subseteq Insights /\ SourcesOffered'
  BY <1>8, <1>9, <1>10 DEF ReflectInv, ReflectTypeOK, SourcesOffered, StoreInsight
<1> QED
  BY <1>6, <1>11 DEF ReflectInv, ReflectTypeOK, Untaken, Citable, StoreInsight

\* A commit stamps the time of its end.
LEMMA StampOK ==
  ASSUME ReflectInv, NEW c \in Calls, Stamp(c)
  PROVE  ReflectInv'
<1> DEFINE w == call[c].out \cup Window(call[c].tenant, call[c].scope, call[c].from)
           r == [pc |-> "put", tenant |-> call[c].tenant, scope |-> call[c].scope, stamp |-> clock,
                 took |-> call[c].took, out |-> w]
<1>1. call[c] \in Storing
  BY CallType DEF Stamp, ReflectInv
<1>2. w \in Sets
  BY <1>1 DEF Storing, Window, InScope, Visible, Sets, ReflectInv, ReflectTypeOK
<1>3. call' = [call EXCEPT ![c] = r]
  BY DEF Stamp
<1> HIDE DEF w
<1>4. r \in Putting /\ r.pc = "put"
  BY <1>1, <1>2 DEF Storing, Putting, ReflectInv, ReflectTypeOK
<1> HIDE DEF r
<1>5. Citing(c, r, offered')
  BY <1>4 DEF Citing
<1>6. call' \in [Calls -> CallStates] /\ \A d \in Calls : Citing(d, call'[d], offered')
  BY <1>3, <1>4, <1>5, CallMoves DEF ReflectInv, ReflectTypeOK, CallStates, Stamp
<1> QED
  BY <1>6 DEF ReflectInv, ReflectTypeOK, Untaken, Citable, SourcesOffered, Stamp

\* The cursor is put last, or not at all.
LEMMA PutCursorOK ==
  ASSUME ReflectInv, NEW c \in Calls, PutCursor(c)
  PROVE  ReflectInv'
<1>1. call[c] \in Putting
  BY CallType DEF PutCursor, ReflectInv
<1>2. /\ call[c].tenant \in Tenants /\ call[c].scope \in Scopes /\ call[c].stamp \in Nat
      /\ call[c].took \in Sets /\ call[c].out \in Sets
  BY <1>1 DEF Putting
<1>3. Citing(c, Idle, offered')
  BY IdleState DEF Citing
<1>4. call' \in [Calls -> CallStates] /\ \A d \in Calls : Citing(d, call'[d], offered')
  BY <1>3, IdleState, CallMoves DEF ReflectInv, ReflectTypeOK, PutCursor
<1>5. CASE UNCHANGED <<cursor, seen, missed>>
  BY <1>4, <1>5 DEF ReflectInv, ReflectTypeOK, Untaken, Citable, SourcesOffered, PutCursor
<1>6. CASE /\ cursor' = [cursor EXCEPT ![call[c].tenant][call[c].scope] = call[c].stamp]
           /\ seen' = [seen EXCEPT ![call[c].tenant][call[c].scope] = @ \cup call[c].took]
           /\ missed' = [missed EXCEPT ![call[c].tenant][call[c].scope] = @ \cup call[c].out]
  <2>1. cursor' \in [Tenants -> [Scopes -> Nat]]
    BY <1>2, <1>6 DEF ReflectInv, ReflectTypeOK
  <2>2. \A S, T \in Sets : S \cup T \in Sets
    BY DEF Sets
  <2>3. \A t \in Tenants, sc \in Scopes : seen[t][sc] \in Sets /\ missed[t][sc] \in Sets
    BY DEF ReflectInv, ReflectTypeOK
  <2> HIDE DEF Sets
  <2>4. seen' \in [Tenants -> [Scopes -> Sets]]
    BY <1>2, <1>6, <2>2, <2>3 DEF ReflectInv, ReflectTypeOK
  <2>5. missed' \in [Tenants -> [Scopes -> Sets]]
    BY <1>2, <1>6, <2>2, <2>3 DEF ReflectInv, ReflectTypeOK
  <2> QED
    BY <1>4, <2>1, <2>4, <2>5 DEF ReflectInv, ReflectTypeOK, Untaken, Citable, SourcesOffered, PutCursor
<1> QED
  BY <1>5, <1>6 DEF PutCursor

\* The rest of the engine touches neither sessions nor calls.
LEMMA OthersOK ==
  ASSUME ReflectInv, Tick \/ \E m \in Episodes : NewEpisode(m) \/ Forget(m)
  PROVE  ReflectInv'
<1>1. UNCHANGED <<cursor, session, call, insights, given, taken, offered, seen, missed>>
  BY DEF Tick, NewEpisode, Forget
<1>2. clock' \in Nat /\ live' \in Sets /\ born' \in [Episodes -> Nat]
  BY DEF Tick, NewEpisode, Forget, ReflectInv, ReflectTypeOK, Sets
<1> QED
  BY <1>1, <1>2 DEF ReflectInv, ReflectTypeOK, Untaken, Citable, SourcesOffered

\* Nothing has been offered, taken or stored at first.
LEMMA ReflectInitOK == ReflectInit => ReflectInv
<1> SUFFICES ASSUME ReflectInit PROVE ReflectInv
  OBVIOUS
<1>1. ReflectTypeOK
  BY IdleState DEF ReflectInit, ReflectTypeOK, Keys, Sets
<1> QED
  BY <1>1, IdleState DEF ReflectInit, ReflectInv, Untaken, Citable, Citing, SourcesOffered

\* Every step keeps the invariant.
LEMMA ReflectNextOK == ReflectInv /\ [ReflectNext]_reflectVars => ReflectInv'
<1> SUFFICES ASSUME ReflectInv, [ReflectNext]_reflectVars PROVE ReflectInv'
  OBVIOUS
<1>1. CASE UNCHANGED reflectVars
  BY <1>1 DEF reflectVars, ReflectInv, ReflectTypeOK, Untaken, Citable, SourcesOffered
<1>2. CASE ReflectNext
  BY <1>2, OthersOK, PrepareOK, RunScopeOK, TakeOK, ProposeOK, StoreInsightOK, StampOK,
     PutCursorOK DEF ReflectNext
<1> QED BY <1>1, <1>2

-----------------------------------------------------------------------------
(* The theorems                                                             *)

\* However many commits ask for a session at once, before or after it expires,
\* one takes it: it leaves the store before anything is stored for it.  And every
\* stored insight cites episodes of one offer made under its session or run,
\* whatever the model or the agent answers.
THEOREM SessionsStayHonest == ReflectSpec => []SessionsHonest
<1>1. ReflectInv => SessionsHonest
  BY DEF ReflectInv, Untaken, SessionOnce, SessionsHonest
<1> QED BY <1>1, ReflectInitOK, ReflectNextOK, PTL DEF ReflectSpec

\* Sources that agree on an entity, or have none, are all that an insight of a
\* global reflect with an entity has.
LEMMA AgreedEntity ==
  ASSUME NEW src \in Sets, NEW known \in Sets, Inferred(src, known) # NoEntity
  PROVE  \A m \in src \cap known : Entity[m] \in {NoEntity, Inferred(src, known)}
<1> DEFINE names == {Entity[m] : m \in src \cap known} \ {NoEntity}
<1>1. IsFiniteSet({Entity[m] : m \in src \cap known})
  <2>1. IsFiniteSet(src \cap known)
    BY ReflectionConstants, FS_Subset, src \cap known \in SUBSET Episodes DEF Sets
  <2>2. [m \in src \cap known |-> Entity[m]]
           \in Surjection(src \cap known, {Entity[m] : m \in src \cap known})
    BY DEF Surjection
  <2> QED BY <2>1, <2>2, FS_Surjection
<1>2. IsFiniteSet(names)
  BY <1>1, FS_Subset
<1>3. Cardinality(names) = 1 /\ Inferred(src, known) = CHOOSE e \in names : TRUE
  BY DEF Inferred
<1>4. PICK e : names = {e}
  BY <1>2, <1>3, FS_Singleton
<1> QED
  BY <1>3, <1>4

\* An insight without a scope of its own is filed under an entity only if no
\* source that could be read belongs to another.
THEOREM InsightEntitiesAgree == ReflectSpec => []EntityAgrees
<1>1. ReflectInv => EntityAgrees
  <2> SUFFICES ASSUME ReflectInv, NEW i \in insights, i.scope = Global, i.entity # NoEntity
               PROVE  \A m \in i.sources \cap i.known : Entity[m] \in {NoEntity, i.entity}
    BY DEF EntityAgrees
  <2>1. i.sources \in Sets /\ i.known \in Sets /\ i.entity = Inferred(i.sources, i.known)
    BY DEF ReflectInv, ReflectTypeOK, Insights, InsightEntity
  <2> QED BY <2>1, AgreedEntity
<1> QED BY <1>1, ReflectInitOK, ReflectNextOK, PTL DEF ReflectSpec

-----------------------------------------------------------------------------
(* A store with one tenant loses no episode behind a cursor.  (With more, a *)
(* commit moves the default tenant's cursor for a session of another one.)  *)

\* By the time now, what of a scope was born before from has been dealt with.
Accounted(now, L, B, done, sc, from) ==
  from <= now /\ \A m \in L : (sc = Global \/ Entity[m] = sc) /\ B[m] < from => m \in done
Done == [sc \in Scopes |-> seen[Default][sc] \cup missed[Default][sc]]

\* That is so behind every cursor, and behind every cursor that a session or a
\* call may still put, counting what it took and what it leaves out.
Carried(now, L, B, done, r, from) ==
  Accounted(now, L, B, done[r.scope] \cup r.took \cup r.out, r.scope, from)
CarriedBy(now, L, B, done, r) ==
  /\ r.pc \in {"propose", "store"} => Carried(now, L, B, done, r, r.from)
  /\ r.pc = "put" => Carried(now, L, B, done, r, r.stamp)
NothingLost ==
  /\ \A sc \in Scopes : Accounted(clock, live, born, Done[sc], sc, cursor[Default][sc])
  /\ \A s \in SessionIds : session[s] # NoSession =>
       Carried(clock, live, born, Done, session[s], session[s].at)
  /\ \A c \in Calls : CarriedBy(clock, live, born, Done, call[c])

\* Time passes, an episode is born now or an episode goes: what was behind a
\* point in the past still is.
LEMMA AccountedStays ==
  ASSUME ReflectTypeOK, Tick \/ \E m \in Episodes : NewEpisode(m) \/ Forget(m),
         NEW sc \in Scopes, NEW from \in Nat, NEW done,
         Accounted(clock, live, born, done, sc, from)
  PROVE  Accounted(clock', live', born', done, sc, from)
<1>1. CASE Tick
  BY <1>1 DEF Tick, Accounted, ReflectTypeOK
<1>2. CASE \E m \in Episodes : Forget(m)
  BY <1>2 DEF Forget, Accounted
<1>3. ASSUME NEW m \in Episodes, NewEpisode(m)
      PROVE  Accounted(clock', live', born', done, sc, from)
  <2>1. born'[m] = clock /\ \A n \in Episodes \ {m} : born'[n] = born[n]
    BY <1>3 DEF NewEpisode, ReflectTypeOK
  <2>2. clock' = clock /\ live' = live \cup {m} /\ live \subseteq Episodes /\ clock \in Nat
    BY <1>3 DEF NewEpisode, ReflectTypeOK, Sets
  <2> QED BY <2>1, <2>2 DEF Accounted
<1> QED BY <1>1, <1>2, <1>3

\* A read leaves out only what its call remembers to have left out.
LEMMA ReadAccounts ==
  ASSUME ReflectTypeOK, NothingLost, NEW sc \in Scopes, NEW S
  PROVE  Accounted(clock, live, born, Done[sc] \cup S \cup LeftOut(Default, sc, S), sc, clock)
<1> SUFFICES ASSUME NEW m \in live, sc = Global \/ Entity[m] = sc
             PROVE  m \in Done[sc] \cup S \cup LeftOut(Default, sc, S)
  BY DEF Accounted, ReflectTypeOK
<1>1. m \in InScope(Default, sc)
  BY DEF InScope, Visible
<1>2. born[m] \in Nat /\ cursor[Default][sc] \in Nat
  BY ReflectionConstants DEF ReflectTypeOK, Sets
<1>3. CASE born[m] < cursor[Default][sc]
  BY <1>3 DEF NothingLost, Accounted
<1>4. CASE born[m] >= cursor[Default][sc]
  BY <1>1, <1>4 DEF LeftOut, Due
<1> QED BY <1>2, <1>3, <1>4

\* Prepare.
LEMMA PrepareAccounts ==
  ASSUME Tenants = {Default}, ReflectInv, NothingLost, NEW t \in Tenants, NEW sc \in Scopes,
         NEW since, NEW s \in SessionIds, Prepare(t, sc, since, s)
  PROVE  NothingLost'
<1>1. PICK S \in ScopeMemories(t, sc, since) : \E v : session' = [Unexpired EXCEPT ![s] =
        [at |-> clock, tenant |-> t, scope |-> sc, valid |-> v,
         took |-> S, out |-> LeftOut(t, sc, S)]]
  BY DEF Prepare
<1>2. PICK v : session' = [Unexpired EXCEPT ![s] =
        [at |-> clock, tenant |-> t, scope |-> sc, valid |-> v,
         took |-> S, out |-> LeftOut(t, sc, S)]]
  BY <1>1
<1>3. Expires!2 /\ Unexpired \in [SessionIds -> {NoSession} \cup Sessions]
  BY Expires DEF ReflectInv
<1>4. Accounted(clock, live, born, Done[sc] \cup S \cup LeftOut(t, sc, S), sc, clock)
  BY ReadAccounts DEF ReflectInv
<1>5. session'[s] = [at |-> clock, tenant |-> t, scope |-> sc, valid |-> v,
                     took |-> S, out |-> LeftOut(t, sc, S)]
  BY <1>2, <1>3
<1>6. Carried(clock, live, born, Done, session'[s], session'[s].at)
  BY <1>4, <1>5 DEF Carried
<1>7. \A x \in SessionIds \ {s} : session'[x] \in {NoSession, session[x]}
  BY <1>2, <1>3
<1>8. UNCHANGED <<clock, live, born, cursor, call, Done>>
  BY DEF Prepare, Done
<1> QED BY <1>6, <1>7, <1>8 DEF NothingLost

\* Take.
LEMMA TakeAccounts ==
  ASSUME Tenants = {Default}, ReflectInv, NothingLost, NEW c \in Calls, NEW s \in SessionIds,
         Take(c, s)
  PROVE  NothingLost'
<1>1. Expires!2 /\ Unexpired \in [SessionIds -> {NoSession} \cup Sessions]
  BY Expires DEF ReflectInv
<1>2. Carried(clock, live, born, Done, session[s], session[s].at)
  BY <1>1 DEF Take, NothingLost
<1>3. PICK batch \in SUBSET (SUBSET Episodes \ {{}}) :
        call' = [call EXCEPT ![c] =
          [pc |-> "store", key |-> s, tenant |-> Default, asked |-> session[s].tenant,
           scope |-> session[s].scope,
           todo |-> {src \in batch : src \subseteq session[s].valid}, from |-> session[s].at,
           known |-> session[s].valid \cap Visible(Default),
           took |-> session[s].took, out |-> session[s].out]]
  BY DEF Take, Begin
<1> DEFINE todo == {src \in batch : src \subseteq session[s].valid}
<1> HIDE DEF todo
<1>4. call'[c] = [pc |-> "store", key |-> s, tenant |-> Default, asked |-> session[s].tenant,
           scope |-> session[s].scope, todo |-> todo, from |-> session[s].at,
           known |-> session[s].valid \cap Visible(Default),
           took |-> session[s].took, out |-> session[s].out]
  BY <1>3 DEF ReflectInv, ReflectTypeOK, todo
<1>5. CarriedBy(clock, live, born, Done, call'[c])
  BY <1>2, <1>4 DEF CarriedBy, Carried
<1>6. \A d \in Calls \ {c} : call'[d] = call[d]
  BY <1>3 DEF ReflectInv, ReflectTypeOK
<1>7. \A x \in SessionIds : session'[x] \in {NoSession, session[x]}
  BY <1>1 DEF Take
<1>8. UNCHANGED <<clock, live, born, cursor, Done>>
  BY DEF Take, Done
<1> QED BY <1>5, <1>6, <1>7, <1>8 DEF NothingLost

\* The run.
LEMMA RunScopeAccounts ==
  ASSUME Tenants = {Default}, ReflectInv, NothingLost, NEW c \in Calls, NEW t \in Tenants,
         NEW sc \in Scopes, NEW since, RunScope(c, t, sc, since)
  PROVE  NothingLost'
<1>1. PICK S \in ScopeMemories(t, sc, since) : \E P \in Clusterings(S) :
        call' = [call EXCEPT ![c] =
          [pc |-> "propose", key |-> c, tenant |-> t, asked |-> t, scope |-> sc, clusters |-> P,
           from |-> clock, known |-> S, took |-> S, out |-> LeftOut(t, sc, S)]]
  BY DEF RunScope
<1>2. PICK P \in Clusterings(S) :
        call' = [call EXCEPT ![c] =
          [pc |-> "propose", key |-> c, tenant |-> t, asked |-> t, scope |-> sc, clusters |-> P,
           from |-> clock, known |-> S, took |-> S, out |-> LeftOut(t, sc, S)]]
  BY <1>1
<1>3. Accounted(clock, live, born, Done[sc] \cup S \cup LeftOut(t, sc, S), sc, clock)
  BY ReadAccounts DEF ReflectInv
<1>4. call'[c] = [pc |-> "propose", key |-> c, tenant |-> t, asked |-> t, scope |-> sc, clusters |-> P,
           from |-> clock, known |-> S, took |-> S, out |-> LeftOut(t, sc, S)]
  BY <1>2 DEF ReflectInv, ReflectTypeOK
<1>5. CarriedBy(clock, live, born, Done, call'[c])
  BY <1>3, <1>4 DEF CarriedBy, Carried
<1>6. \A d \in Calls \ {c} : call'[d] = call[d]
  BY <1>2 DEF ReflectInv, ReflectTypeOK
<1>7. UNCHANGED <<clock, live, born, cursor, session, Done>>
  BY DEF RunScope, Done
<1> QED BY <1>5, <1>6, <1>7 DEF NothingLost

\* Proposing and storing carry what was read along.
LEMMA ProposeAccounts ==
  ASSUME ReflectInv, NothingLost, NEW c \in Calls, Propose(c) \/ StoreInsight(c)
  PROVE  NothingLost'
<1>1. PICK k, todo, known : call' = [call EXCEPT ![c] =
        [pc |-> "store", key |-> k, tenant |-> call[c].tenant, asked |-> call[c].asked,
         scope |-> call[c].scope, todo |-> todo, from |-> call[c].from,
         known |-> known, took |-> call[c].took, out |-> call[c].out]]
  <2>1. CASE Propose(c)
    BY <2>1 DEF Propose
  <2>2. CASE StoreInsight(c)
    <3>1. call[c] \in Storing
      BY <2>2, CallType DEF StoreInsight, ReflectInv
    <3>2. PICK src : call' = [call EXCEPT ![c].todo = @ \ {src}]
      BY <2>2 DEF StoreInsight
    <3>3. [call[c] EXCEPT !.todo = @ \ {src}] =
            [pc |-> "store", key |-> call[c].key, tenant |-> call[c].tenant, asked |-> call[c].asked,
             scope |-> call[c].scope, todo |-> call[c].todo \ {src}, from |-> call[c].from,
             known |-> call[c].known, took |-> call[c].took, out |-> call[c].out]
      BY <3>1 DEF Storing
    <3> QED BY <3>2, <3>3
  <2> QED BY <2>1, <2>2
<1>2. call[c].pc \in {"propose", "store"}
  BY DEF Propose, StoreInsight
<1>3. /\ call'[c].pc = "store" /\ call'[c].scope = call[c].scope /\ call'[c].from = call[c].from
      /\ call'[c].took = call[c].took /\ call'[c].out = call[c].out
  BY <1>1 DEF ReflectInv, ReflectTypeOK
<1>4. CarriedBy(clock, live, born, Done, call'[c])
  BY <1>2, <1>3 DEF NothingLost, CarriedBy, Carried
<1>5. \A d \in Calls \ {c} : call'[d] = call[d]
  BY <1>1 DEF ReflectInv, ReflectTypeOK
<1>6. UNCHANGED <<clock, live, born, cursor, session, Done>>
  BY DEF Propose, StoreInsight, Done
<1> QED BY <1>4, <1>5, <1>6 DEF NothingLost

\* Stamping counts what was born since the read as left out.
LEMMA StampAccounts ==
  ASSUME Tenants = {Default}, ReflectInv, NothingLost, NEW c \in Calls, Stamp(c)
  PROVE  NothingLost'
<1> DEFINE sc == call[c].scope
           w == call[c].out \cup Window(call[c].tenant, sc, call[c].from)
<1>1. call[c] \in Storing
  BY CallType DEF Stamp, ReflectInv
<1>2. sc \in Scopes /\ call[c].from \in Nat /\ call[c].tenant = Default
  BY <1>1 DEF Storing
<1>3. Carried(clock, live, born, Done, call[c], call[c].from)
  BY DEF Stamp, NothingLost, CarriedBy
<1>4. Accounted(clock, live, born, Done[sc] \cup call[c].took \cup w, sc, clock)
  <2> SUFFICES ASSUME NEW m \in live, sc = Global \/ Entity[m] = sc
               PROVE  m \in Done[sc] \cup call[c].took \cup w
    BY DEF Accounted, ReflectInv, ReflectTypeOK
  <2>1. m \in InScope(Default, sc)
    BY DEF InScope, Visible
  <2>2. born[m] \in Nat
    BY DEF ReflectInv, ReflectTypeOK, Sets
  <2>3. CASE born[m] < call[c].from
    BY <1>3, <2>3 DEF Carried, Accounted
  <2>4. CASE born[m] >= call[c].from
    BY <1>2, <2>1, <2>4 DEF Window
  <2> QED BY <1>2, <2>2, <2>3, <2>4
<1>5. call' = [call EXCEPT ![c] = [pc |-> "put", tenant |-> call[c].tenant, scope |-> sc,
        stamp |-> clock, took |-> call[c].took, out |-> w]]
  BY DEF Stamp
<1> HIDE DEF w, sc
<1>6. call'[c] = [pc |-> "put", tenant |-> call[c].tenant, scope |-> sc,
        stamp |-> clock, took |-> call[c].took, out |-> w]
  BY <1>5 DEF ReflectInv, ReflectTypeOK
<1>7. CarriedBy(clock, live, born, Done, call'[c])
  BY <1>4, <1>6 DEF CarriedBy, Carried
<1>8. \A d \in Calls \ {c} : call'[d] = call[d]
  BY <1>5 DEF ReflectInv, ReflectTypeOK
<1>9. UNCHANGED <<clock, live, born, cursor, session, Done>>
  BY DEF Stamp, Done
<1> QED BY <1>7, <1>8, <1>9 DEF NothingLost

\* The cursor moves to where its call has accounted for everything.
LEMMA PutCursorAccounts ==
  ASSUME Tenants = {Default}, ReflectInv, NothingLost, NEW c \in Calls, PutCursor(c)
  PROVE  NothingLost'
<1> DEFINE sc == call[c].scope
<1>1. call[c] \in Putting
  BY CallType DEF PutCursor, ReflectInv
<1>2. sc \in Scopes /\ call[c].tenant = Default
  BY <1>1 DEF Putting
<1>3. Carried(clock, live, born, Done, call[c], call[c].stamp)
  BY DEF PutCursor, NothingLost, CarriedBy
<1>4. CarriedBy(clock, live, born, Done', call'[c])
  BY IdleState DEF PutCursor, ReflectInv, ReflectTypeOK, CarriedBy
<1>5. \A d \in Calls \ {c} : call'[d] = call[d]
  BY DEF PutCursor, ReflectInv, ReflectTypeOK
<1>6. UNCHANGED <<clock, live, born, session>>
  BY DEF PutCursor
<1>7. CASE UNCHANGED <<cursor, seen, missed>>
  BY <1>4, <1>5, <1>6, <1>7 DEF NothingLost, Done
<1>8. CASE /\ cursor' = [cursor EXCEPT ![Default][sc] = call[c].stamp]
           /\ seen' = [seen EXCEPT ![Default][sc] = @ \cup call[c].took]
           /\ missed' = [missed EXCEPT ![Default][sc] = @ \cup call[c].out]
  <2> HIDE DEF sc
  <2>1. /\ Done'[sc] = Done[sc] \cup call[c].took \cup call[c].out
        /\ \A x \in Scopes \ {sc} : Done'[x] = Done[x]
    BY <1>2, <1>8, ReflectionConstants DEF Done, ReflectInv, ReflectTypeOK
  <2>2. /\ cursor'[Default][sc] = call[c].stamp
        /\ \A x \in Scopes \ {sc} : cursor'[Default][x] = cursor[Default][x]
    BY <1>2, <1>8, ReflectionConstants DEF ReflectInv, ReflectTypeOK
  <2>3. Accounted(clock, live, born, Done'[sc], sc, cursor'[Default][sc])
    BY <1>3, <2>1, <2>2 DEF Carried, sc
  <2>4. \A x \in Scopes : Accounted(clock, live, born, Done'[x], x, cursor'[Default][x])
    BY <2>1, <2>2, <2>3 DEF NothingLost
  <2>5. \A x \in Scopes : Done[x] \subseteq Done'[x]
    BY <2>1
  <2>6. ASSUME NEW s \in SessionIds, session[s] # NoSession
        PROVE  Carried(clock, live, born, Done', session[s], session[s].at)
    <3>1. session[s].scope \in Scopes
      BY <2>6 DEF ReflectInv, ReflectTypeOK, Sessions
    <3> QED BY <2>5, <2>6, <3>1 DEF NothingLost, Carried, Accounted
  <2>7. ASSUME NEW d \in Calls
        PROVE  CarriedBy(clock, live, born, Done', call[d])
    <3>1. call[d].pc \in {"propose", "store", "put"} => call[d].scope \in Scopes
      BY CallType DEF ReflectInv, Proposing, Storing, Putting
    <3> QED BY <2>5, <3>1 DEF NothingLost, CarriedBy, Carried, Accounted
  <2> QED
    BY <1>4, <1>5, <1>6, <2>4, <2>6, <2>7 DEF NothingLost
<1> QED
  BY <1>2, <1>7, <1>8 DEF PutCursor

\* The rest of the engine.
LEMMA OthersAccount ==
  ASSUME Tenants = {Default}, ReflectInv, NothingLost,
         Tick \/ \E m \in Episodes : NewEpisode(m) \/ Forget(m)
  PROVE  NothingLost'
<1>1. UNCHANGED <<cursor, session, call, Done>>
  BY DEF Tick, NewEpisode, Forget, Done
<1>2. \A sc \in Scopes, from \in Nat : \A done :
        Accounted(clock, live, born, done, sc, from) => Accounted(clock', live', born', done, sc, from)
  BY AccountedStays DEF ReflectInv
<1>3. \A sc \in Scopes : Accounted(clock', live', born', Done[sc], sc, cursor[Default][sc])
  BY <1>2, ReflectionConstants DEF NothingLost, ReflectInv, ReflectTypeOK
<1>4. ASSUME NEW s \in SessionIds, session[s] # NoSession
      PROVE  Carried(clock', live', born', Done, session[s], session[s].at)
  <2>1. session[s].scope \in Scopes /\ session[s].at \in Nat
    BY <1>4 DEF ReflectInv, ReflectTypeOK, Sessions
  <2> QED BY <1>2, <1>4, <2>1 DEF NothingLost, Carried
<1>5. ASSUME NEW d \in Calls
      PROVE  CarriedBy(clock', live', born', Done, call[d])
  <2>1. /\ call[d].pc \in {"propose", "store"} => call[d].scope \in Scopes /\ call[d].from \in Nat
        /\ call[d].pc = "put" => call[d].scope \in Scopes /\ call[d].stamp \in Nat
    BY CallType DEF ReflectInv, Proposing, Storing, Putting
  <2> QED BY <1>2, <2>1 DEF NothingLost, CarriedBy, Carried
<1> QED BY <1>1, <1>3, <1>4, <1>5 DEF NothingLost

\* An episode behind the cursor of its scope was taken up or left out for a
\* stated reason, whatever runs, sessions and commits overlap, expire or fail.
THEOREM NoEpisodeSkipped ==
  ASSUME Tenants = {Default}
  PROVE  ReflectSpec => []BehindCursorAccounted
<1>1. ReflectInit => NothingLost
  BY IdleState, ReflectionConstants
     DEF ReflectInit, NothingLost, Accounted, CarriedBy, Idle
<1>2. ReflectInv /\ NothingLost /\ [ReflectNext]_reflectVars => NothingLost'
  <2> SUFFICES ASSUME ReflectInv, NothingLost, [ReflectNext]_reflectVars PROVE NothingLost'
    OBVIOUS
  <2>1. CASE UNCHANGED reflectVars
    BY <2>1 DEF reflectVars, NothingLost, Done
  <2>2. CASE ReflectNext
    BY <2>2, OthersAccount, PrepareAccounts, RunScopeAccounts, TakeAccounts, ProposeAccounts,
       StampAccounts, PutCursorAccounts DEF ReflectNext
  <2> QED BY <2>1, <2>2
<1>3. ReflectInv /\ NothingLost => BehindCursorAccounted
  <2> SUFFICES ASSUME ReflectInv, NothingLost, NEW sc \in Scopes, NEW m \in InScope(Default, sc),
                      born[m] < cursor[Default][sc]
               PROVE  m \in seen[Default][sc] \cup missed[Default][sc]
    BY DEF BehindCursorAccounted
  <2> QED BY DEF NothingLost, Accounted, InScope, Visible, Done
<1> QED BY <1>1, <1>2, <1>3, ReflectInitOK, ReflectNextOK, PTL DEF ReflectSpec

-----------------------------------------------------------------------------
(* Contradictions                                                          *)

Edges == Memories \X {"contradicts", "revised_from"} \X Memories
Records == PendingIds \X Memories \X Memories

\* What a call may be doing.
Classifying == [pc : {"settle", "flag"}, of : Memories,
                verdict : UNION {[S -> Verdicts] : S \in SUBSET Memories}]
Applying == [pc : {"apply"}, found : SUBSET (Records \X Verdicts)]
Scanning == [pc : {"scan"}, of : Memories, cascades : BOOLEAN, hit : SUBSET Edges]
Deleting == [pc : {"cascade", "delete"}, of : Memories, goes : SUBSET Memories,
             hit : SUBSET Edges]
ReviewStates == {Quiet} \cup Classifying \cup Applying \cup Scanning \cup Deleting

ReviewTypeOK ==
  /\ stored \subseteq Memories /\ edge \subseteq Edges
  /\ pending \subseteq Records /\ flagged \subseteq Records /\ judged \subseteq Records
  /\ review \in [Reviewers -> ReviewStates]
  /\ confirmed \subseteq SUBSET Memories /\ named \subseteq Memories

\* A forget will remove only edges at the memories it removes.
HitsOwn ==
  \A c \in Reviewers :
    /\ review[c].pc = "scan" => \A e \in review[c].hit : review[c].of \in {e[1], e[3]}
    /\ review[c].pc \in {"cascade", "delete"} =>
         \A e \in review[c].hit : review[c].goes \cap {e[1], e[3]} # {}
    /\ review[c].pc = "cascade" => review[c].goes = {review[c].of}

ReviewInv == ReviewTypeOK /\ HitsOwn /\ ConfirmedLinked /\ FlaggedAccounted

-----------------------------------------------------------------------------
(* What the reads and the batches name                                      *)

\* The edges of a verdict are edges.
LEMMA EdgesForType ==
  ASSUME NEW a \in Memories, NEW b \in Memories, NEW v
  PROVE  EdgesFor(a, b, v) \subseteq Edges
BY DEF EdgesFor, Edges

\* What the pc of a call says of its record.
LEMMA ReviewCallType ==
  ASSUME ReviewTypeOK, NEW c \in Reviewers
  PROVE  /\ review[c].pc \in {"settle", "flag"} => review[c] \in Classifying
         /\ review[c].pc = "apply" => review[c] \in Applying
         /\ review[c].pc = "scan" => review[c] \in Scanning
         /\ review[c].pc \in {"cascade", "delete"} => review[c] \in Deleting
BY DEF ReviewTypeOK, ReviewStates, Classifying, Applying, Scanning, Deleting, Quiet

\* A call that takes a typed state that hits nothing foreign keeps the calls well formed.
LEMMA ReviewMoves ==
  ASSUME ReviewTypeOK, HitsOwn, NEW c \in Reviewers, NEW r \in ReviewStates,
         r.pc = "scan" => \A e \in r.hit : r.of \in {e[1], e[3]},
         r.pc \in {"cascade", "delete"} => \A e \in r.hit : r.goes \cap {e[1], e[3]} # {},
         r.pc = "cascade" => r.goes = {r.of},
         review' = [review EXCEPT ![c] = r]
  PROVE  review' \in [Reviewers -> ReviewStates] /\ HitsOwn'
BY DEF ReviewTypeOK, HitsOwn

\* An idle call hits nothing.
LEMMA QuietState == /\ Quiet \in ReviewStates
                    /\ Quiet.pc \notin {"scan", "cascade", "delete"}
BY DEF Quiet, ReviewStates

\* More edges keep confirmed pairs linked.
LEMMA LinkedStays ==
  ASSUME ReviewInv, stored' \subseteq stored, edge \subseteq edge', confirmed' = confirmed
  PROVE  ConfirmedLinked'
BY DEF ReviewInv, ConfirmedLinked

-----------------------------------------------------------------------------
(* Each action keeps the invariant.                                         *)

\* A check reads.
LEMMA StartCheckOK ==
  ASSUME ReviewInv, NEW c \in Reviewers, NEW m \in Memories, NEW llm \in BOOLEAN,
         StartCheck(c, m, llm)
  PROVE  ReviewInv'
<1>1. PICK near \in SUBSET (stored \ ({m} \cup Classified(m))) :
        \E verdict \in [near -> IF llm THEN {"contradiction", "revision"} ELSE {"contradiction"}] :
          review' = [review EXCEPT ![c] =
            [pc |-> IF llm THEN "settle" ELSE "flag", of |-> m, verdict |-> verdict]]
  BY DEF StartCheck
<1>0. PICK verdict \in [near -> IF llm THEN {"contradiction", "revision"} ELSE {"contradiction"}] :
        review' = [review EXCEPT ![c] =
          [pc |-> IF llm THEN "settle" ELSE "flag", of |-> m, verdict |-> verdict]]
  BY <1>1
<1> DEFINE r == [pc |-> IF llm THEN "settle" ELSE "flag", of |-> m, verdict |-> verdict]
<1>2. near \in SUBSET Memories /\ verdict \in [near -> Verdicts]
  BY DEF ReviewInv, ReviewTypeOK, Verdicts
<1>3. r \in Classifying /\ r.pc \in {"settle", "flag"}
  BY <1>2 DEF Classifying
<1>4. r \in ReviewStates
  BY <1>3 DEF ReviewStates
<1> HIDE DEF r
<1>5. review' \in [Reviewers -> ReviewStates] /\ HitsOwn'
  BY <1>0, <1>3, <1>4, ReviewMoves DEF ReviewInv, r
<1> QED
  BY <1>5, LinkedStays DEF StartCheck, ReviewInv, ReviewTypeOK, FlaggedAccounted

\* A language model's verdicts are linked as they are confirmed.
LEMMA SettleOK ==
  ASSUME ReviewInv, NEW c \in Reviewers, Settle(c)
  PROVE  ReviewInv'
<1> DEFINE m == review[c].of
           v == review[c].verdict
<1>1. review[c] \in Classifying
  BY ReviewCallType DEF Settle, ReviewInv
<1>2. m \in Memories /\ DOMAIN v \subseteq Memories
  BY <1>1 DEF Classifying
<1>3. edge' = edge \cup UNION {EdgesFor(m, b, v[b]) : b \in DOMAIN v}
  BY DEF Settle
<1>4. confirmed' = confirmed \cup {{m, b} : b \in {x \in DOMAIN v : v[x] = "contradiction"}}
  BY DEF Settle
<1> HIDE DEF m, v
<1>5. edge' \subseteq Edges
  BY <1>2, <1>3, EdgesForType DEF ReviewInv, ReviewTypeOK
<1>6. confirmed' \subseteq SUBSET Memories
  BY <1>2, <1>4 DEF ReviewInv, ReviewTypeOK
<1>7. ConfirmedLinked'
  <2> SUFFICES ASSUME NEW a \in stored, NEW b \in stored, {a, b} \in confirmed'
               PROVE  {<<a, "contradicts", b>>, <<b, "contradicts", a>>} \subseteq edge'
    BY DEF Settle, ConfirmedLinked
  <2>1. CASE {a, b} \in confirmed
    BY <1>3, <2>1 DEF ReviewInv, ConfirmedLinked
  <2>2. ASSUME NEW x \in DOMAIN v, v[x] = "contradiction", {a, b} = {m, x}
        PROVE  {<<a, "contradicts", b>>, <<b, "contradicts", a>>} \subseteq edge'
    <3>1. EdgesFor(m, x, v[x]) = {<<m, "contradicts", x>>, <<x, "contradicts", m>>}
      BY <2>2 DEF EdgesFor
    <3>2. (a = m /\ b = x) \/ (a = x /\ b = m)
      BY <2>2
    <3> QED BY <1>3, <3>1, <3>2
  <2> QED BY <1>4, <2>1, <2>2
<1>8. review' \in [Reviewers -> ReviewStates] /\ HitsOwn'
  BY QuietState, ReviewMoves DEF Settle, ReviewInv
<1> QED
  BY <1>5, <1>6, <1>7, <1>8 DEF Settle, ReviewInv, ReviewTypeOK, FlaggedAccounted

\* The heuristic's pairs become pending records.
LEMMA FlagOK ==
  ASSUME ReviewInv, NEW c \in Reviewers, Flag(c)
  PROVE  ReviewInv'
<1> DEFINE hit == DOMAIN review[c].verdict
           m == review[c].of
<1>1. review[c] \in Classifying
  BY ReviewCallType DEF Flag, ReviewInv
<1>2. m \in Memories /\ hit \subseteq Memories
  BY <1>1 DEF Classifying
<1>3. PICK id \in [hit -> PendingIds \ {p[1] : p \in flagged}] :
        LET new == {<<id[b], m, b>> : b \in hit}
        IN  pending' = pending \cup new /\ flagged' = flagged \cup new
  BY DEF Flag
<1> HIDE DEF hit, m
<1>4. {<<id[b], m, b>> : b \in hit} \subseteq Records
  BY <1>2 DEF Records
<1>5. review' \in [Reviewers -> ReviewStates] /\ HitsOwn'
  BY QuietState, ReviewMoves DEF Flag, ReviewInv
<1> QED
  BY <1>3, <1>4, <1>5, LinkedStays DEF Flag, ReviewInv, ReviewTypeOK, FlaggedAccounted

\* A commit looks its verdicts up.
LEMMA ReadVerdictsOK ==
  ASSUME ReviewInv, NEW c \in Reviewers, NEW called \in SUBSET (PendingIds \X Verdicts),
         ReadVerdicts(c, called)
  PROVE  ReviewInv'
<1> DEFINE found == {f \in pending \X Verdicts : <<f[1][1], f[2]>> \in called}
           r == [pc |-> "apply", found |-> found]
<1>1. found \subseteq Records \X Verdicts
  BY DEF ReviewInv, ReviewTypeOK
<1> HIDE DEF found
<1>2. r \in Applying /\ r.pc = "apply"
  BY <1>1 DEF Applying
<1>3. review' = [review EXCEPT ![c] = r] /\ r \in ReviewStates
  BY <1>2 DEF ReadVerdicts, ReviewStates, found
<1> HIDE DEF r
<1>4. review' \in [Reviewers -> ReviewStates] /\ HitsOwn'
  BY <1>2, <1>3, ReviewMoves DEF ReviewInv
<1> QED
  BY <1>4, LinkedStays DEF ReadVerdicts, ReviewInv, ReviewTypeOK, FlaggedAccounted

\* A commit's batch links what it confirms, and takes away only what it judged.
LEMMA ApplyVerdictsOK ==
  ASSUME ReviewInv, NEW c \in Reviewers, ApplyVerdicts(c)
  PROVE  ReviewInv'
<1> DEFINE found == review[c].found
<1>1. review[c] \in Applying
  BY ReviewCallType DEF ApplyVerdicts, ReviewInv
<1>2. found \subseteq Records \X Verdicts
  BY <1>1 DEF Applying
<1>3. /\ pending' = pending \ {f[1] : f \in found}
      /\ judged' = judged \cup {f[1] : f \in found}
      /\ edge' = edge \cup UNION {EdgesFor(f[1][2], f[1][3], f[2]) : f \in found}
      /\ confirmed' = confirmed \cup
           {{f[1][2], f[1][3]} : f \in {x \in found : x[2] = "contradiction"}}
  BY DEF ApplyVerdicts
<1> HIDE DEF found
<1>4. \A f \in found : f[1] \in Records /\ f[1][2] \in Memories /\ f[1][3] \in Memories
  BY <1>2 DEF Records
<1>5. edge' \subseteq Edges
  BY <1>3, <1>4, EdgesForType DEF ReviewInv, ReviewTypeOK
<1>6. /\ confirmed' \subseteq SUBSET Memories /\ pending' \subseteq Records
      /\ judged' \subseteq Records
  BY <1>3, <1>4 DEF ReviewInv, ReviewTypeOK
<1>7. ConfirmedLinked'
  <2> SUFFICES ASSUME NEW a \in stored, NEW b \in stored, {a, b} \in confirmed'
               PROVE  {<<a, "contradicts", b>>, <<b, "contradicts", a>>} \subseteq edge'
    BY DEF ApplyVerdicts, ConfirmedLinked
  <2>1. CASE {a, b} \in confirmed
    BY <1>3, <2>1 DEF ReviewInv, ConfirmedLinked
  <2>2. ASSUME NEW f \in found, f[2] = "contradiction", {a, b} = {f[1][2], f[1][3]}
        PROVE  {<<a, "contradicts", b>>, <<b, "contradicts", a>>} \subseteq edge'
    <3>1. EdgesFor(f[1][2], f[1][3], f[2]) =
            {<<f[1][2], "contradicts", f[1][3]>>, <<f[1][3], "contradicts", f[1][2]>>}
      BY <2>2 DEF EdgesFor
    <3>2. (a = f[1][2] /\ b = f[1][3]) \/ (a = f[1][3] /\ b = f[1][2])
      BY <2>2
    <3> QED BY <1>3, <3>1, <3>2
  <2> QED BY <1>3, <2>1, <2>2
<1>8. FlaggedAccounted'
  BY <1>3 DEF ApplyVerdicts, ReviewInv, FlaggedAccounted
<1>9. review' \in [Reviewers -> ReviewStates] /\ HitsOwn'
  BY QuietState, ReviewMoves DEF ApplyVerdicts, ReviewInv
<1> QED
  BY <1>5, <1>6, <1>7, <1>8, <1>9 DEF ApplyVerdicts, ReviewInv, ReviewTypeOK

\* A forget scans the outgoing edges of its memory.
LEMMA StartForgetOK ==
  ASSUME ReviewInv, NEW c \in Reviewers, NEW m \in Memories, NEW cascades \in BOOLEAN,
         StartForget(c, m, cascades)
  PROVE  ReviewInv'
<1> DEFINE hit == {e \in edge : e[1] = m}
           r == [pc |-> "scan", of |-> m, cascades |-> cascades, hit |-> hit]
<1>1. hit \subseteq Edges /\ \A e \in hit : m \in {e[1], e[3]}
  BY DEF ReviewInv, ReviewTypeOK
<1> HIDE DEF hit
<1>2. r \in Scanning /\ r.pc = "scan" /\ r.hit = hit /\ r.of = m
  BY <1>1 DEF Scanning
<1>3. review' = [review EXCEPT ![c] = r] /\ r \in ReviewStates
  BY <1>2 DEF StartForget, ReviewStates, hit
<1> HIDE DEF r
<1>4. review' \in [Reviewers -> ReviewStates] /\ HitsOwn'
  BY <1>1, <1>2, <1>3, ReviewMoves DEF ReviewInv
<1> QED
  BY <1>4, LinkedStays DEF StartForget, ReviewInv, ReviewTypeOK, FlaggedAccounted

\* Then the incoming ones.
LEMMA ScanIncomingOK ==
  ASSUME ReviewInv, NEW c \in Reviewers, ScanIncoming(c)
  PROVE  ReviewInv'
<1> DEFINE m == review[c].of
           hit == review[c].hit \cup {e \in edge : e[3] = m}
           label == IF review[c].cascades THEN "cascade" ELSE "delete"
           r == [pc |-> label, of |-> m, goes |-> {m}, hit |-> hit]
<1>1. review[c] \in Scanning
  BY ReviewCallType DEF ScanIncoming, ReviewInv
<1>2. m \in Memories /\ hit \subseteq Edges /\ \A e \in hit : m \in {e[1], e[3]}
  BY <1>1 DEF Scanning, ScanIncoming, ReviewInv, ReviewTypeOK, HitsOwn
<1>3. review' = [review EXCEPT ![c] = r]
  BY DEF ScanIncoming
<1> HIDE DEF hit, m
<1>4. r \in Deleting /\ r.pc \in {"cascade", "delete"} /\ r.hit = hit /\ r.goes = {m} /\ r.of = m
  BY <1>2 DEF Deleting
<1>5. r \in ReviewStates
  BY <1>4 DEF ReviewStates
<1> HIDE DEF r
<1>6. review' \in [Reviewers -> ReviewStates] /\ HitsOwn'
  BY <1>2, <1>3, <1>4, <1>5, ReviewMoves DEF ReviewInv
<1> QED
  BY <1>6, LinkedStays DEF ScanIncoming, ReviewInv, ReviewTypeOK, FlaggedAccounted

\* Then those of what it takes along.
LEMMA CascadeOK ==
  ASSUME ReviewInv, NEW c \in Reviewers, Cascade(c)
  PROVE  ReviewInv'
<1> DEFINE m == review[c].of
           more == Predecessors(m) \cap stored
           goes == {m} \cup more
           hit == review[c].hit \cup UNION {Touching(b) : b \in more}
           r == [pc |-> "delete", of |-> m, goes |-> goes, hit |-> hit]
<1>1. review[c] \in Deleting
  BY ReviewCallType DEF Cascade, ReviewInv
<1>2. m \in Memories /\ more \subseteq Memories
  BY <1>1 DEF Deleting, Predecessors
<1>3. hit \subseteq Edges
  BY <1>1 DEF Deleting, Touching, ReviewInv, ReviewTypeOK
<1>4. \A e \in hit : goes \cap {e[1], e[3]} # {}
  <2>1. \A e \in review[c].hit : m \in {e[1], e[3]}
    BY DEF Cascade, ReviewInv, HitsOwn
  <2>2. \A b \in more : b \in goes /\ \A e \in Touching(b) : b \in {e[1], e[3]}
    BY DEF Touching
  <2>3. m \in goes
    OBVIOUS
  <2>4. \A e \in hit : e \in review[c].hit \/ \E b \in more : e \in Touching(b)
    OBVIOUS
  <2> HIDE DEF hit, goes, more, m
  <2> QED BY <2>1, <2>2, <2>3, <2>4
<1>5. review' = [review EXCEPT ![c] = r]
  BY DEF Cascade
<1> HIDE DEF hit, m, more, goes
<1>6. r \in Deleting /\ r.pc = "delete" /\ r.hit = hit /\ r.goes = goes
  BY <1>2, <1>3 DEF Deleting, goes
<1>7. r \in ReviewStates
  BY <1>6 DEF ReviewStates
<1> HIDE DEF r
<1>8. review' \in [Reviewers -> ReviewStates] /\ HitsOwn'
  BY <1>4, <1>5, <1>6, <1>7, ReviewMoves DEF ReviewInv
<1> QED
  BY <1>8, LinkedStays DEF Cascade, ReviewInv, ReviewTypeOK, FlaggedAccounted

\* The batch of a forget unlinks only what it removes.
LEMMA DeleteOK ==
  ASSUME ReviewInv, NEW c \in Reviewers, DeleteBatch(c)
  PROVE  ReviewInv'
<1>1. review[c] \in Deleting
  BY ReviewCallType DEF DeleteBatch, ReviewInv
<1>2. \A e \in review[c].hit : review[c].goes \cap {e[1], e[3]} # {}
  BY DEF DeleteBatch, ReviewInv, HitsOwn
<1>3. ConfirmedLinked'
  <2> SUFFICES ASSUME NEW a \in stored', NEW b \in stored', {a, b} \in confirmed
               PROVE  {<<a, "contradicts", b>>, <<b, "contradicts", a>>} \subseteq edge'
    BY DEF DeleteBatch, ConfirmedLinked
  <2>1. {<<a, "contradicts", b>>, <<b, "contradicts", a>>} \subseteq edge
    BY DEF DeleteBatch, ReviewInv, ConfirmedLinked
  <2>2. a \notin review[c].goes /\ b \notin review[c].goes
    BY DEF DeleteBatch
  <2>3. <<a, "contradicts", b>> \notin review[c].hit /\ <<b, "contradicts", a>> \notin review[c].hit
    BY <1>2, <2>2
  <2> QED BY <2>1, <2>3 DEF DeleteBatch
<1>4. review' \in [Reviewers -> ReviewStates] /\ HitsOwn'
  BY QuietState, ReviewMoves DEF DeleteBatch, ReviewInv
<1>5. named' \subseteq Memories
  BY <1>1 DEF DeleteBatch, Deleting, ReviewInv, ReviewTypeOK
<1> QED
  BY <1>3, <1>4, <1>5 DEF DeleteBatch, ReviewInv, ReviewTypeOK, FlaggedAccounted

-----------------------------------------------------------------------------
(* The theorems                                                             *)

\* The store starts without edges or records.
LEMMA ReviewInitOK == ReviewInit => ReviewInv
BY QuietState DEF ReviewInit, ReviewInv, ReviewTypeOK, HitsOwn, ConfirmedLinked, FlaggedAccounted

\* Every step keeps the invariant.
LEMMA ReviewNextOK == ReviewInv /\ [ReviewNext]_reviewVars => ReviewInv'
<1> SUFFICES ASSUME ReviewInv, [ReviewNext]_reviewVars PROVE ReviewInv'
  OBVIOUS
<1>1. CASE UNCHANGED reviewVars
  BY <1>1 DEF reviewVars, ReviewInv, ReviewTypeOK, HitsOwn, ConfirmedLinked, FlaggedAccounted
<1>2. CASE ReviewNext
  BY <1>2, StartCheckOK, StartForgetOK, SettleOK, FlagOK, ApplyVerdictsOK, ScanIncomingOK,
     CascadeOK, DeleteOK, ReadVerdictsOK DEF ReviewNext
<1> QED BY <1>1, <1>2

\* A contradiction once confirmed stays linked both ways while both memories
\* are stored: a forget that scanned the edges before the link was written, or
\* after, removes only edges at the memories it removes.
THEOREM ConfirmedStayLinked == ReviewSpec => []ConfirmedLinked
<1>1. ReviewInv => ConfirmedLinked
  BY DEF ReviewInv
<1> QED BY <1>1, ReviewInitOK, ReviewNextOK, PTL DEF ReviewSpec

\* No record of a flagged pair disappears without a verdict, however commits
\* over the same records overlap, fail or are repeated.
THEOREM FlaggedStayAccounted == ReviewSpec => []FlaggedAccounted
<1>1. ReviewInv => FlaggedAccounted
  BY DEF ReviewInv
<1> QED BY <1>1, ReviewInitOK, ReviewNextOK, PTL DEF ReviewSpec

-----------------------------------------------------------------------------
(* Workers                                                                 *)

Words == {"pause", "resume"}
Signals == Words \cup {"enable", "disable", "trigger", "shutdown"}
Places == {"unborn", "top", "sweep", "wait", "tail", "gone"}

\* The place of the last pause or resume in a queue, if there is one.
LastAt(q, i) == i \in 1..Len(q) /\ q[i] \in Words /\ \A j \in 1..Len(q) : j > i => q[j] \notin Words
NoWord(q) == \A i \in 1..Len(q) : q[i] \notin Words

WorkersTypeOK ==
  /\ kind \in {"decay", "reflect"}
  /\ queue \in [Threads -> Seq(Signals)]
  /\ at \in [Threads -> Places]
  /\ paused \in [Threads -> BOOLEAN] /\ enabled \in [Threads -> BOOLEAN]
  /\ polled \in [Threads -> BOOLEAN]
  /\ handle \in Threads \cup {Absent} /\ control \in Threads \cup {Absent}
  /\ starting \subseteq Threads
  /\ word \in [Threads -> Words] /\ offed \in [Threads -> BOOLEAN]
  /\ ahead \in [Threads -> Nat] /\ overrun \in [Threads -> Nat]

\* Signals that a decay thread may still leave unread before its next sweep.
Slack(p, pause, poll) ==
  CASE p = "top" -> IF pause THEN 1 ELSE 2
    [] p = "wait" -> IF poll THEN 1 ELSE 0
    [] p = "tail" -> 1
    [] OTHER -> 0

\* The sweeps begun since the pause at place i was asked, and those that may
\* still begin before it is read, are within what was waiting then.
Within(k, a, n) == IF k = "decay" THEN 2 * n <= 2 + a ELSE n <= a
Budget(k, i, slack, a, n) ==
  IF k = "decay" THEN 2 * n + (i - 1) + slack <= 2 + a ELSE n + (i - 1) <= a

\* The invariant of a thread: its queue, pause, switch and slack against the
\* last word v, whether it was ever switched off, what was ahead and the overrun.
Heeds(k, q, pause, on, slack, v, o, a, n) ==
  /\ NoWord(q) \/ \E i : LastAt(q, i)
  /\ \A i : LastAt(q, i) => q[i] = v /\ (v = "pause" => Budget(k, i, slack, a, n))
  /\ NoWord(q) => /\ v = "pause" => pause
                  /\ pause => v = "pause" \/ (k = "decay" /\ o)
  /\ ~on \/ (\E i \in 1..Len(q) : q[i] = "disable") => o
  /\ Within(k, a, n)
  /\ v # "pause" => n = 0
Heeding(w) ==
  Heeds(kind, queue[w], paused[w], enabled[w], Slack(at[w], paused[w], polled[w]),
        word[w], offed[w], ahead[w], overrun[w])

\* A thread runs only if the engine can reach it, waits for it to end, or is about
\* to be given it.
Reachable ==
  /\ Alive \subseteq {handle, control} \cup starting
  /\ handle # Absent => at[handle] # "unborn"
  /\ handle \notin starting /\ \A w \in starting : at[w] # "unborn"

WorkersInv == WorkersTypeOK /\ Reachable /\ \A w \in Threads : Heeding(w)

-----------------------------------------------------------------------------
(* Queues                                                                   *)

\* What reading the first signal leaves.
LEMMA TailWords ==
  ASSUME NEW q \in Seq(Signals), q # <<>>
  PROVE  /\ Tail(q) \in Seq(Signals) /\ Head(q) \in Signals
         /\ \A i : LastAt(Tail(q), i) => LastAt(q, i + 1) /\ Tail(q)[i] = q[i + 1] /\ i \in Nat
         /\ \A i : LastAt(q, i) => NoWord(Tail(q)) \/ LastAt(Tail(q), i - 1)
         /\ NoWord(q) => NoWord(Tail(q)) /\ Head(q) \notin Words
         /\ NoWord(Tail(q)) /\ Head(q) \in Words => LastAt(q, 1) /\ q[1] = Head(q)
         /\ NoWord(Tail(q)) /\ Head(q) \notin Words => NoWord(q)
         /\ \A i \in 1..Len(Tail(q)) : \E j \in 1..Len(q) : Tail(q)[i] = q[j]
         /\ \E j \in 1..Len(q) : q[j] = Head(q)
<1>1. /\ Tail(q) \in Seq(Signals) /\ Head(q) = q[1] /\ Len(q) \in Nat \ {0}
      /\ Len(Tail(q)) = Len(q) - 1
      /\ \A i \in 1..Len(q) : q[i] \in Signals
      /\ \A i \in 1..Len(Tail(q)) : Tail(q)[i] = q[i + 1]
  OBVIOUS
<1> DEFINE t == Tail(q)
           h == Head(q)
<1> HIDE DEF t, h
<1>2. /\ t \in Seq(Signals) /\ h = q[1] /\ Len(q) \in Nat \ {0} /\ Len(t) = Len(q) - 1
      /\ \A i \in 1..Len(q) : q[i] \in Signals
      /\ \A i \in 1..Len(t) : t[i] = q[i + 1]
  BY <1>1 DEF t, h
<1>0. \A j \in 1..Len(q) : j > 1 => j - 1 \in 1..Len(t) /\ t[j - 1] = q[j]
  BY <1>2
<1>3. \A i : LastAt(t, i) => LastAt(q, i + 1) /\ t[i] = q[i + 1] /\ i \in Nat
  <2> SUFFICES ASSUME NEW i, LastAt(t, i) PROVE LastAt(q, i + 1) /\ t[i] = q[i + 1] /\ i \in Nat
    OBVIOUS
  <2>1. i \in 1..Len(t) /\ t[i] \in Words /\ \A j \in 1..Len(t) : j > i => t[j] \notin Words
    BY DEF LastAt
  <2>2. i \in Nat /\ i + 1 \in 1..Len(q) /\ t[i] = q[i + 1]
    BY <1>2, <2>1
  <2>3. ASSUME NEW j \in 1..Len(q), j > i + 1 PROVE q[j] \notin Words
    <3>1. j > 1 /\ j - 1 > i
      BY <2>2, <2>3, <1>2
    <3> QED BY <1>0, <2>1, <3>1
  <2> QED BY <2>1, <2>2, <2>3 DEF LastAt
<1>4. \A i : LastAt(q, i) => NoWord(t) \/ LastAt(t, i - 1)
  <2> SUFFICES ASSUME NEW i, LastAt(q, i) PROVE NoWord(t) \/ LastAt(t, i - 1)
    OBVIOUS
  <2>1. i \in 1..Len(q) /\ q[i] \in Words /\ \A j \in 1..Len(q) : j > i => q[j] \notin Words
    BY DEF LastAt
  <2>2. ASSUME NEW j \in 1..Len(t), j > i - 1 PROVE t[j] \notin Words
    <3>1. j + 1 \in 1..Len(q) /\ t[j] = q[j + 1] /\ j + 1 > i
      BY <1>2, <2>1, <2>2
    <3> QED BY <2>1, <3>1
  <2>3. CASE i = 1
    BY <2>2, <2>3, <1>2 DEF NoWord
  <2>4. CASE i # 1
    <3>1. i - 1 \in 1..Len(t) /\ t[i - 1] = q[i]
      BY <1>0, <2>1, <2>4, <1>2
    <3> QED BY <2>1, <2>2, <3>1 DEF LastAt
  <2> QED BY <2>3, <2>4
<1>5. NoWord(q) => NoWord(t) /\ h \notin Words
  BY <1>2 DEF NoWord
<1>6. NoWord(t) /\ h \in Words => LastAt(q, 1) /\ q[1] = h
  <2> SUFFICES ASSUME NoWord(t), h \in Words, NEW j \in 1..Len(q), j > 1 PROVE q[j] \notin Words
    BY <1>2 DEF LastAt
  <2>1. j - 1 \in 1..Len(t) /\ t[j - 1] = q[j]
    BY <1>2
  <2> QED BY <2>1 DEF NoWord
<1>7. NoWord(t) /\ h \notin Words => NoWord(q)
  <2> SUFFICES ASSUME NoWord(t), h \notin Words, NEW j \in 1..Len(q) PROVE q[j] \notin Words
    BY DEF NoWord
  <2>1. j # 1 => j - 1 \in 1..Len(t) /\ t[j - 1] = q[j]
    BY <1>2
  <2> QED BY <1>2, <2>1 DEF NoWord
<1>8. \A i \in 1..Len(t) : i + 1 \in 1..Len(q) /\ t[i] = q[i + 1]
  BY <1>2
<1>9. 1 \in 1..Len(q) /\ h \in Signals
  BY <1>2
<1> QED
  BY <1>2, <1>3, <1>4, <1>5, <1>6, <1>7, <1>8, <1>9 DEF t, h

\* What a signal more at the end adds.
LEMMA AppendWords ==
  ASSUME NEW q \in Seq(Signals), NEW s \in Signals
  PROVE  /\ Append(q, s) \in Seq(Signals) /\ Len(q) \in Nat
         /\ s \in Words => \A i : LastAt(Append(q, s), i) <=> i = Len(q) + 1
         /\ s \in Words => Append(q, s)[Len(q) + 1] = s
         /\ s \notin Words => \A i : /\ LastAt(Append(q, s), i) <=> LastAt(q, i)
                                     /\ LastAt(q, i) => Append(q, s)[i] = q[i]
         /\ NoWord(Append(q, s)) <=> NoWord(q) /\ s \notin Words
         /\ \A i \in 1..Len(Append(q, s)) : Append(q, s)[i] = s \/ (i \in 1..Len(q) /\ Append(q, s)[i] = q[i])
<1> DEFINE r == Append(q, s)
<1>1. /\ r \in Seq(Signals) /\ Len(q) \in Nat /\ Len(r) = Len(q) + 1
      /\ r[Len(q) + 1] = s /\ \A i \in 1..Len(q) : r[i] = q[i]
  OBVIOUS
<1> HIDE DEF r
<1>2. s \in Words => \A i : LastAt(r, i) <=> i = Len(q) + 1
  BY <1>1 DEF LastAt
<1>3. s \notin Words => \A i : (LastAt(r, i) <=> LastAt(q, i)) /\ (LastAt(q, i) => r[i] = q[i])
  BY <1>1 DEF LastAt
<1>4. NoWord(r) <=> NoWord(q) /\ s \notin Words
  <2>1. ASSUME NoWord(r) PROVE NoWord(q) /\ s \notin Words
    BY <1>1, <2>1 DEF NoWord
  <2>2. ASSUME NoWord(q), s \notin Words PROVE NoWord(r)
    <3>1. \A i \in 1..Len(r) : i = Len(q) + 1 \/ i \in 1..Len(q)
      BY <1>1
    <3> QED BY <1>1, <2>2, <3>1 DEF NoWord
  <2> QED BY <2>1, <2>2
<1>5. \A i \in 1..Len(r) : r[i] = s \/ (i \in 1..Len(q) /\ r[i] = q[i])
  <2>1. \A i \in 1..Len(r) : i = Len(q) + 1 \/ i \in 1..Len(q)
    BY <1>1
  <2>2. ASSUME NEW i \in 1..Len(r), i \in 1..Len(q) PROVE r[i] = q[i]
    BY <1>1, <2>2
  <2>3. ASSUME NEW i \in 1..Len(r), i = Len(q) + 1 PROVE r[i] = s
    BY <1>1, <2>3
  <2> QED BY <2>1, <2>2, <2>3
<1> QED BY <1>1, <1>2, <1>3, <1>4, <1>5 DEF r

-----------------------------------------------------------------------------
(* What a thread's own steps and the calls do to its budget                 *)

\* What a signal does to the pause and the switch of the thread that reads it.
Obeyed(h, pause, on, pause2, on2) ==
  /\ pause2 = IF h \in Words THEN h = "pause" ELSE pause
  /\ on2 = IF h \in {"enable", "disable"} THEN h = "enable" ELSE on

\* What these are, and how far the slack of a decay thread may grow over a signal read.
Terms(k, q, pause, slack, v, a, n) ==
  /\ k \in {"decay", "reflect"} /\ q \in Seq(Signals) /\ pause \in BOOLEAN /\ slack \in 0..2
  /\ v \in Words /\ a \in Nat /\ n \in Nat
Slackens(k, slack, slack2) == slack2 \in 0..2 /\ (k = "decay" => slack2 <= slack + 1)
Steadies(k, slack, slack2) == slack2 \in 0..2 /\ (k = "decay" => slack2 <= slack)

\* What saying s over a queue q makes of the last word, the switch and the counts.
Said(s, q, v, o, a, n, v2, o2, a2, n2) ==
  /\ v2 = IF s \in Words THEN s ELSE v
  /\ o2 = (o \/ s = "disable")
  /\ a2 = IF s = "pause" THEN Len(q) ELSE a
  /\ n2 = IF s \in Words THEN 0 ELSE n

\* The slack is a small number.
LEMMA SlackType == \A p, pause, poll : Slack(p, pause, poll) \in 0..2
BY DEF Slack

\* Reading a signal: the thread obeys it, and its slack grows by at most the one.
LEMMA ReadHeeds ==
  ASSUME NEW k, NEW q, NEW pause, NEW on, NEW slack, NEW v, NEW o, NEW a, NEW n,
         NEW pause2, NEW on2, NEW slack2, q # <<>>,
         Terms(k, q, pause, slack, v, a, n), Heeds(k, q, pause, on, slack, v, o, a, n),
         Obeyed(Head(q), pause, on, pause2, on2), Slackens(k, slack, slack2)
  PROVE  Heeds(k, Tail(q), pause2, on2, slack2, v, o, a, n)
<1> USE DEF Terms
<1> DEFINE t == Tail(q)
           h == Head(q)
<1>1. /\ t \in Seq(Signals) /\ h \in Signals
      /\ \A i : LastAt(t, i) => LastAt(q, i + 1) /\ t[i] = q[i + 1] /\ i \in Nat
      /\ \A i : LastAt(q, i) => NoWord(t) \/ LastAt(t, i - 1)
      /\ NoWord(q) => NoWord(t) /\ h \notin Words
      /\ NoWord(t) /\ h \in Words => LastAt(q, 1) /\ q[1] = h
      /\ NoWord(t) /\ h \notin Words => NoWord(q)
      /\ \A i \in 1..Len(t) : \E j \in 1..Len(q) : t[i] = q[j]
      /\ \E j \in 1..Len(q) : q[j] = h
  BY TailWords
<1> HIDE DEF t, h
<1>2. NoWord(t) \/ \E i : LastAt(t, i)
  BY <1>1 DEF Heeds
<1>3. ASSUME NEW i, LastAt(t, i)
      PROVE  t[i] = v /\ (v = "pause" => Budget(k, i, slack2, a, n))
  <2>1. LastAt(q, i + 1) /\ t[i] = q[i + 1] /\ i \in Nat
    BY <1>1, <1>3
  <2>2. q[i + 1] = v /\ (v = "pause" => Budget(k, i + 1, slack, a, n))
    BY <2>1 DEF Heeds
  <2> QED BY <2>1, <2>2 DEF Budget, Slackens
<1>4. ASSUME NoWord(t)
      PROVE  (v = "pause" => pause2) /\ (pause2 => v = "pause" \/ (k = "decay" /\ o))
  <2>1. CASE h \in Words
    <3>1. h = v
      BY <1>1, <1>4, <2>1 DEF Heeds
    <3>2. pause2 = (h = "pause")
      BY <2>1 DEF h, Obeyed
    <3> QED BY <3>1, <3>2
  <2>2. CASE h \notin Words
    <3>1. pause2 = pause
      BY <2>2 DEF h, Obeyed
    <3> QED BY <1>1, <1>4, <2>2, <3>1 DEF Heeds
  <2> QED BY <2>1, <2>2
<1>5. ~on2 \/ (\E i \in 1..Len(t) : t[i] = "disable") => o
  <2>1. ASSUME ~on2 PROVE o
    <3>1. h = "disable" \/ ~on
      BY <2>1, <1>1 DEF h, Obeyed
    <3> QED BY <1>1, <3>1 DEF Heeds
  <2>2. ASSUME NEW i \in 1..Len(t), t[i] = "disable" PROVE o
    BY <1>1, <2>2 DEF Heeds
  <2> QED BY <2>1, <2>2
<1> QED
  BY <1>2, <1>3, <1>4, <1>5 DEF Heeds, t

\* A signal sent: the last word is the newest, and a new pause has its whole budget.
LEMMA SendHeeds ==
  ASSUME NEW k, NEW q, NEW s \in Signals, NEW pause, NEW on, NEW slack, NEW v, NEW o, NEW a, NEW n,
         NEW v2, NEW o2, NEW a2, NEW n2, Said(s, q, v, o, a, n, v2, o2, a2, n2),
         Terms(k, q, pause, slack, v, a, n), Heeds(k, q, pause, on, slack, v, o, a, n)
  PROVE  Heeds(k, Append(q, s), pause, on, slack, v2, o2, a2, n2)
<1> USE DEF Terms, Said
<1> DEFINE r == Append(q, s)
<1>1. /\ r \in Seq(Signals) /\ Len(q) \in Nat
      /\ s \in Words => \A i : LastAt(r, i) <=> i = Len(q) + 1
      /\ s \in Words => r[Len(q) + 1] = s
      /\ s \notin Words => \A i : (LastAt(r, i) <=> LastAt(q, i)) /\ (LastAt(q, i) => r[i] = q[i])
      /\ NoWord(r) <=> NoWord(q) /\ s \notin Words
      /\ \A i \in 1..Len(r) : r[i] = s \/ (i \in 1..Len(q) /\ r[i] = q[i])
  BY AppendWords
<1> HIDE DEF r
<1>2. CASE s \in Words
  <2>1. LastAt(r, Len(q) + 1) /\ ~NoWord(r)
    BY <1>1, <1>2
  <2>2. \A i : LastAt(r, i) => r[i] = s /\ (s = "pause" => Budget(k, i, slack, Len(q), 0))
    BY <1>1, <1>2 DEF Budget
  <2>3. \A i \in 1..Len(r) : r[i] = "disable" => o
    BY <1>1, <1>2 DEF Heeds, Words
  <2>4. v2 = s /\ n2 = 0 /\ (o => o2) /\ (s = "pause" => a2 = Len(q))
    BY <1>2
  <2>5. Within(k, a2, 0)
    BY <1>1 DEF Within
  <2>6. ~on => o2
    BY <2>4 DEF Heeds
  <2>7. \A i : LastAt(r, i) => r[i] = v2 /\ (v2 = "pause" => Budget(k, i, slack, a2, n2))
    BY <2>2, <2>4
  <2> HIDE DEF Said, Terms
  <2> QED
    BY <2>1, <2>3, <2>4, <2>5, <2>6, <2>7 DEF Heeds, r
<1>3. CASE s \notin Words
  <2>1. NoWord(r) \/ \E i : LastAt(r, i)
    BY <1>1, <1>3 DEF Heeds
  <2>2. \A i : LastAt(r, i) => r[i] = v /\ (v = "pause" => Budget(k, i, slack, a, n))
    BY <1>1, <1>3 DEF Heeds
  <2>3. NoWord(r) => (v = "pause" => pause) /\ (pause => v = "pause" \/ (k = "decay" /\ o))
    BY <1>1, <1>3 DEF Heeds
  <2>4. ~on \/ (\E i \in 1..Len(r) : r[i] = "disable") => o \/ s = "disable"
    BY <1>1, <1>3 DEF Heeds
  <2>5. v2 = v /\ n2 = n /\ a2 = a /\ o2 = (o \/ s = "disable")
    BY <1>3 DEF Words
  <2>6. o => o2
    BY <2>5
  <2> HIDE DEF Said, Terms
  <2> QED
    BY <2>1, <2>2, <2>3, <2>4, <2>5, <2>6 DEF Heeds, r
<1> QED BY <1>2, <1>3

\* A step that reads nothing and does not raise the slack.
LEMMA IdleHeeds ==
  ASSUME NEW k, NEW q, NEW pause, NEW on, NEW slack, NEW v, NEW o, NEW a, NEW n, NEW slack2,
         Terms(k, q, pause, slack, v, a, n), Steadies(k, slack, slack2),
         Heeds(k, q, pause, on, slack, v, o, a, n)
  PROVE  Heeds(k, q, pause, on, slack2, v, o, a, n)
<1>1. \A i : LastAt(q, i) => i \in Nat
  BY DEF LastAt
<1>2. \A i : LastAt(q, i) => q[i] = v /\ (v = "pause" => Budget(k, i, slack2, a, n))
  BY <1>1 DEF Heeds, Budget, Terms, Steadies
<1> QED BY <1>2 DEF Heeds

\* A sweep begins, while a pause may still be waiting to be read.
LEMMA SweepHeeds ==
  ASSUME NEW q, NEW on, NEW v, NEW o, NEW a, NEW n,
         Terms("decay", q, FALSE, 2, v, a, n), Heeds("decay", q, FALSE, on, 2, v, o, a, n)
  PROVE  Heeds("decay", q, FALSE, on, 0, v, o, a, IF v = "pause" THEN n + 1 ELSE n)
<1> USE DEF Terms
<1>1. \A i : LastAt(q, i) => i \in Nat /\ i >= 1
  BY DEF LastAt
<1>2. CASE v = "pause"
  <2>1. PICK i : LastAt(q, i)
    BY <1>2 DEF Heeds
  <2>2. Budget("decay", i, 2, a, n) /\ i \in Nat /\ i >= 1
    BY <1>1, <1>2, <2>1 DEF Heeds
  <2>3. Within("decay", a, n + 1)
    BY <2>2 DEF Budget, Within
  <2>4. \A j : LastAt(q, j) => q[j] = v /\ Budget("decay", j, 0, a, n + 1)
    BY <1>1, <1>2 DEF Heeds, Budget
  <2> QED BY <1>2, <2>3, <2>4 DEF Heeds
<1>3. CASE v # "pause"
  BY <1>3 DEF Heeds
<1> QED BY <1>2, <1>3

\* A triggered run begins after a signal was read that is not the pause.
LEMMA TriggerHeeds ==
  ASSUME NEW q, q # <<>>, Head(q) = "trigger",
         NEW on, NEW slack, NEW slack2, NEW v, NEW o, NEW a, NEW n,
         Terms("reflect", q, FALSE, slack, v, a, n), Slackens("reflect", slack, slack2),
         Heeds("reflect", q, FALSE, on, slack, v, o, a, n)
  PROVE  Heeds("reflect", Tail(q), FALSE, on, slack2, v, o, a, IF v = "pause" THEN n + 1 ELSE n)
<1>1. Heeds("reflect", Tail(q), FALSE, on, slack2, v, o, a, n)
  <2>1. Obeyed(Head(q), FALSE, on, FALSE, on)
    BY DEF Obeyed, Words
  <2> QED BY <2>1, ReadHeeds, Zenon
<1> USE DEF Terms
<1>2. CASE v = "pause"
  <2>1. PICK i : LastAt(q, i)
    BY <1>2 DEF Heeds
  <2>2. i \in Nat /\ i >= 1 /\ i # 1
    BY <2>1, TailWords DEF LastAt, Words
  <2>3. Budget("reflect", i, slack, a, n)
    BY <1>2, <2>1 DEF Heeds
  <2>4. Within("reflect", a, n + 1)
    BY <2>2, <2>3 DEF Budget, Within
  <2>5. \A j : LastAt(Tail(q), j) => Tail(q)[j] = v /\ Budget("reflect", j, slack2, a, n + 1)
    <3> SUFFICES ASSUME NEW j, LastAt(Tail(q), j)
                 PROVE  Tail(q)[j] = v /\ Budget("reflect", j, slack2, a, n + 1)
      OBVIOUS
    <3>1. LastAt(q, j + 1) /\ j \in Nat
      BY TailWords
    <3>2. Budget("reflect", j + 1, slack, a, n)
      BY <1>2, <3>1 DEF Heeds
    <3>3. Tail(q)[j] = v
      BY <1>1 DEF Heeds
    <3>4. Budget("reflect", j, slack2, a, n + 1)
      BY <3>1, <3>2 DEF Budget
    <3> QED BY <3>3, <3>4
  <2> QED BY <1>1, <1>2, <2>4, <2>5 DEF Heeds
<1>3. CASE v # "pause"
  BY <1>1, <1>3
<1> QED BY <1>2, <1>3

-----------------------------------------------------------------------------
(* Each action keeps the invariant.                                         *)

\* What the invariant says of a thread's variables.
LEMMA ThreadType ==
  ASSUME WorkersInv, NEW w \in Threads
  PROVE  /\ queue[w] \in Seq(Signals) /\ paused[w] \in BOOLEAN /\ enabled[w] \in BOOLEAN
         /\ polled[w] \in BOOLEAN /\ word[w] \in Words /\ offed[w] \in BOOLEAN
         /\ ahead[w] \in Nat /\ overrun[w] \in Nat /\ at[w] \in Places
         /\ Slack(at[w], paused[w], polled[w]) \in 0..2
         /\ Heeding(w)
BY SlackType DEF WorkersInv, WorkersTypeOK

\* A step of one thread that keeps it as it should be keeps the invariant.
LEMMA OneThread ==
  ASSUME WorkersInv, NEW w \in Threads, at[w] \notin {"unborn", "gone"},
         UNCHANGED <<engine, word, offed, ahead>>, WorkersTypeOK', Heeding(w)',
         at'[w] # "unborn",
         \A x \in Threads \ {w} :
           /\ queue'[x] = queue[x] /\ at'[x] = at[x] /\ paused'[x] = paused[x]
           /\ enabled'[x] = enabled[x] /\ polled'[x] = polled[x] /\ overrun'[x] = overrun[x]
  PROVE  WorkersInv'
<1>1. \A x \in Threads \ {w} : Heeding(x)'
  BY DEF WorkersInv, Heeding, engine
<1>2. Alive' \subseteq Alive
  BY DEF Alive
<1>3. Reachable'
  BY <1>2 DEF WorkersInv, WorkersTypeOK, Reachable, engine
<1> QED BY <1>1, <1>3 DEF WorkersInv

\* Reading and obeying a signal, without beginning a sweep.
LEMMA ReadOK ==
  ASSUME WorkersInv, NEW w \in Threads, at[w] \notin {"unborn", "gone"}, queue[w] # <<>>,
         Read(w), Obey(w, Head(queue[w])), UNCHANGED <<engine, history>>,
         NEW p \in Places \ {"unborn"}, Goto(w, p), NEW poll \in BOOLEAN,
         polled' = [polled EXCEPT ![w] = poll],
         kind = "decay" => Slack(p, paused'[w], poll) <= Slack(at[w], paused[w], polled[w]) + 1
  PROVE  WorkersInv'
<1> DEFINE q == queue[w]
<1>1. /\ queue'[w] = Tail(q) /\ at'[w] = p /\ polled'[w] = poll
      /\ Obeyed(Head(q), paused[w], enabled[w], paused'[w], enabled'[w])
      /\ UNCHANGED <<kind, word, offed, ahead, overrun>>
  BY DEF WorkersInv, WorkersTypeOK, Read, Obey, Obeyed, Goto, engine, history, Words
<1>2. WorkersTypeOK'
  <2>1. Tail(q) \in Seq(Signals)
    BY ThreadType, TailWords
  <2>2. queue' \in [Threads -> Seq(Signals)]
    BY <2>1 DEF Read, WorkersInv, WorkersTypeOK
  <2>3. at' \in [Threads -> Places] /\ polled' \in [Threads -> BOOLEAN]
    BY DEF Goto, WorkersInv, WorkersTypeOK
  <2>4. paused' \in [Threads -> BOOLEAN] /\ enabled' \in [Threads -> BOOLEAN]
    BY DEF Obey, WorkersInv, WorkersTypeOK
  <2> QED
    BY <2>2, <2>3, <2>4 DEF WorkersInv, WorkersTypeOK, engine, history
<1>3. paused'[w] \in BOOLEAN /\ enabled'[w] \in BOOLEAN
  BY <1>2 DEF WorkersTypeOK
<1>4. Heeding(w)'
  <2>1. Heeds(kind, Tail(q), paused'[w], enabled'[w], Slack(p, paused'[w], poll),
              word[w], offed[w], ahead[w], overrun[w])
    <3>1. Heeds(kind, q, paused[w], enabled[w], Slack(at[w], paused[w], polled[w]),
                word[w], offed[w], ahead[w], overrun[w])
      BY DEF WorkersInv, Heeding
    <3>2. Slackens(kind, Slack(at[w], paused[w], polled[w]), Slack(p, paused'[w], poll))
      BY SlackType DEF Slackens
    <3>3. Terms(kind, q, paused[w], Slack(at[w], paused[w], polled[w]), word[w], ahead[w], overrun[w])
      BY ThreadType DEF Terms, WorkersInv, WorkersTypeOK
    <3>4. Obeyed(Head(q), paused[w], enabled[w], paused'[w], enabled'[w]) /\ q # <<>>
      BY <1>1
    <3> QED BY <1>3, <3>1, <3>2, <3>3, <3>4, ReadHeeds, Zenon
  <2> QED BY <1>1, <2>1 DEF Heeding
<1>5. \A x \in Threads \ {w} :
        /\ queue'[x] = queue[x] /\ at'[x] = at[x] /\ paused'[x] = paused[x]
        /\ enabled'[x] = enabled[x] /\ polled'[x] = polled[x] /\ overrun'[x] = overrun[x]
  BY DEF WorkersInv, WorkersTypeOK, Read, Obey, Goto, history
<1> QED BY <1>1, <1>2, <1>4, <1>5, OneThread DEF history

\* A step of one thread that reads nothing.
Stepped(w, p, poll, pause, n) ==
  /\ at[w] \notin {"unborn", "gone"} /\ UNCHANGED <<queue, enabled, word, offed, ahead>>
  /\ UNCHANGED kind /\ UNCHANGED <<handle, control, starting, storeUp, sent>>
  /\ p \in Places \ {"unborn"} /\ at' = [at EXCEPT ![w] = p]
  /\ poll \in BOOLEAN /\ polled' = [polled EXCEPT ![w] = poll]
  /\ pause \in BOOLEAN /\ paused' = [paused EXCEPT ![w] = pause]
  /\ n \in Nat /\ overrun' = [overrun EXCEPT ![w] = n]

\* Such a step keeps the invariant if its thread stays within its budget.
LEMMA StepOK ==
  ASSUME WorkersInv, NEW w \in Threads, NEW p, NEW poll, NEW pause, NEW n,
         Stepped(w, p, poll, pause, n),
         Heeds(kind, queue[w], pause, enabled[w], Slack(p, pause, poll),
               word[w], offed[w], ahead[w], n)
  PROVE  WorkersInv'
<1>1. at'[w] = p /\ polled'[w] = poll /\ paused'[w] = pause /\ overrun'[w] = n /\ kind' = kind
  BY DEF WorkersInv, WorkersTypeOK, Stepped, engine
<1>2. WorkersTypeOK'
  BY DEF WorkersInv, WorkersTypeOK, Stepped, engine
<1>3. Heeding(w)'
  <2>1. UNCHANGED <<queue, enabled, word, offed, ahead>>
    BY DEF Stepped
  <2> QED BY <1>1, <2>1 DEF Heeding
<1>4. \A x \in Threads \ {w} :
        /\ queue'[x] = queue[x] /\ at'[x] = at[x] /\ paused'[x] = paused[x]
        /\ enabled'[x] = enabled[x] /\ polled'[x] = polled[x] /\ overrun'[x] = overrun[x]
  BY DEF WorkersInv, WorkersTypeOK, Stepped
<1> QED BY <1>1, <1>2, <1>3, <1>4, OneThread DEF Stepped, engine

\* An empty queue leaves no slack to count.
LEMMA EmptyHeeds ==
  ASSUME NEW k, NEW pause, NEW on, NEW slack, NEW slack2, NEW v, NEW o, NEW a, NEW n,
         Heeds(k, <<>>, pause, on, slack, v, o, a, n)
  PROVE  Heeds(k, <<>>, pause, on, slack2, v, o, a, n)
<1>1. NoWord(<<>>) /\ \A i : ~LastAt(<<>>, i)
  BY DEF NoWord, LastAt
<1> QED BY <1>1 DEF Heeds

\* A decay thread that is switched off pauses itself.
LEMMA DisabledHeeds ==
  ASSUME NEW q, NEW v, NEW o, NEW a \in Nat, NEW n \in Nat,
         Heeds("decay", q, FALSE, FALSE, 2, v, o, a, n)
  PROVE  Heeds("decay", q, TRUE, FALSE, 1, v, o, a, n)
<1>1. \A i : LastAt(q, i) => i \in Nat
  BY DEF LastAt
<1>2. \A i : LastAt(q, i) => q[i] = v /\ (v = "pause" => Budget("decay", i, 1, a, n))
  BY <1>1 DEF Heeds, Budget
<1>3. o
  BY DEF Heeds
<1> QED BY <1>2, <1>3 DEF Heeds

\* What has not changed of a thread, as an assignment.
LEMMA Same ==
  ASSUME WorkersInv, NEW w \in Threads
  PROVE  /\ polled = [polled EXCEPT ![w] = polled[w]] /\ paused = [paused EXCEPT ![w] = paused[w]]
         /\ overrun = [overrun EXCEPT ![w] = overrun[w]] /\ at = [at EXCEPT ![w] = at[w]]
BY DEF WorkersInv, WorkersTypeOK

\* The decay loop while it is paused or switched off.
LEMMA DecayIdleOK ==
  ASSUME WorkersInv, NEW w \in Threads, DecayIdle(w) \/ DecayDisabled(w)
  PROVE  WorkersInv'
<1>1. CASE DecayIdle(w)
  <2> DEFINE p == IF Head(queue[w]) = "shutdown" THEN "gone" ELSE "top"
  <2>1. Goto(w, p) /\ p \in Places \ {"unborn"}
    BY <1>1 DEF DecayIdle, Places
  <2>2. Slack(p, paused'[w], polled[w]) <= Slack(at[w], paused[w], polled[w]) + 1
    BY <1>1 DEF DecayIdle, Slack
  <2>3. polled' = [polled EXCEPT ![w] = polled[w]] /\ polled[w] \in BOOLEAN
    BY <1>1, Same, ThreadType DEF DecayIdle
  <2> HIDE DEF p
  <2> QED BY <1>1, <2>1, <2>2, <2>3, ReadOK DEF DecayIdle
<1>2. CASE DecayDisabled(w)
  <2>1. /\ kind = "decay" /\ at[w] = "top" /\ paused[w] = FALSE /\ enabled[w] = FALSE
        /\ paused' = [paused EXCEPT ![w] = TRUE]
        /\ UNCHANGED <<queue, at, enabled, polled, batches, engine, history>>
    BY <1>2, ThreadType DEF DecayDisabled
  <2>2. Heeds("decay", queue[w], FALSE, FALSE, 2, word[w], offed[w], ahead[w], overrun[w])
    BY <2>1, ThreadType DEF Heeding, Slack
  <2>3. Heeds("decay", queue[w], TRUE, FALSE, 1, word[w], offed[w], ahead[w], overrun[w])
    BY <2>2, ThreadType, DisabledHeeds
  <2>4. Slack("top", TRUE, polled[w]) = 1
    BY DEF Slack
  <2>5. /\ Goto(w, "top") /\ polled' = [polled EXCEPT ![w] = polled[w]]
        /\ overrun' = [overrun EXCEPT ![w] = overrun[w]] /\ "top" \in Places \ {"unborn"}
    BY <2>1, Same DEF Goto, history, Places
  <2>6. polled[w] \in BOOLEAN /\ overrun[w] \in Nat
    BY ThreadType
  <2>7. Stepped(w, "top", polled[w], TRUE, overrun[w])
    BY <2>1, <2>5, <2>6 DEF Stepped, Goto, engine, history
  <2> QED BY <2>1, <2>3, <2>4, <2>7, StepOK
<1> QED BY <1>1, <1>2

\* A sweep of decay begins, or finds the storage gone.
LEMMA DecaySweepOK ==
  ASSUME WorkersInv, NEW w \in Threads, DecaySweep(w)
  PROVE  WorkersInv'
<1> DEFINE p == IF storeUp THEN "sweep" ELSE "gone"
           n == IF word[w] = "pause" /\ storeUp THEN overrun[w] + 1 ELSE overrun[w]
<1>1. /\ kind = "decay" /\ at[w] = "top" /\ paused[w] = FALSE /\ enabled[w] = TRUE
      /\ Goto(w, p) /\ overrun' = [overrun EXCEPT ![w] = n]
      /\ UNCHANGED <<queue, paused, enabled, polled, engine, word, offed, ahead>>
  BY ThreadType DEF DecaySweep, BeginSweep
<1>2. p \in Places \ {"unborn"} /\ n \in Nat /\ polled[w] \in BOOLEAN
  BY ThreadType DEF Places
<1>3. Slack(p, FALSE, polled[w]) = 0
  BY DEF Slack
<1>4. Heeds("decay", queue[w], FALSE, TRUE, 2, word[w], offed[w], ahead[w], overrun[w])
  BY <1>1, ThreadType DEF Heeding, Slack
<1>6. Terms("decay", queue[w], FALSE, 2, word[w], ahead[w], overrun[w])
  BY ThreadType DEF Terms
<1>5. Heeds("decay", queue[w], FALSE, TRUE, 0, word[w], offed[w], ahead[w], n)
  <2>1. CASE storeUp
    <3>1. Heeds("decay", queue[w], FALSE, TRUE, 0, word[w], offed[w], ahead[w],
                IF word[w] = "pause" THEN overrun[w] + 1 ELSE overrun[w])
      BY <1>4, <1>6, SweepHeeds
    <3> QED BY <2>1, <3>1
  <2>2. CASE ~storeUp
    <3>1. Steadies("decay", 2, 0)
      BY DEF Steadies
    <3> QED BY <1>4, <1>6, <2>2, <3>1, IdleHeeds
  <2> QED BY <2>1, <2>2
<1> HIDE DEF p, n
<1>7. Stepped(w, p, polled[w], FALSE, n)
  BY <1>1, <1>2, Same DEF Stepped, Goto, engine
<1> QED BY <1>1, <1>3, <1>5, <1>7, StepOK

\* The batches of a sweep look at no signal.
LEMMA DecayBatchOK ==
  ASSUME WorkersInv, NEW w \in Threads, DecayBatch(w)
  PROVE  WorkersInv'
<1>1. /\ kind = "decay" /\ at[w] = "sweep"
      /\ UNCHANGED <<queue, paused, enabled, engine, word, offed, ahead, overrun>>
  BY DEF DecayBatch, history
<1>2. PICK p \in {"sweep", "wait"}, poll \in BOOLEAN :
        /\ Goto(w, p) /\ polled' = [polled EXCEPT ![w] = poll] /\ (p = "wait" => ~poll)
  BY <1>1, Same, ThreadType DEF DecayBatch, Goto
<1>3. Slack(p, paused[w], poll) = Slack(at[w], paused[w], polled[w]) /\ p \in Places \ {"unborn"}
  BY <1>1, <1>2 DEF Slack, Places
<1>4. Heeds(kind, queue[w], paused[w], enabled[w], Slack(p, paused[w], poll),
            word[w], offed[w], ahead[w], overrun[w])
  BY <1>3, ThreadType DEF Heeding
<1>5. Stepped(w, p, poll, paused[w], overrun[w])
  BY <1>1, <1>2, <1>3, Same, ThreadType DEF Stepped, Goto, engine
<1> QED BY <1>4, <1>5, StepOK

\* Between sweeps a decay thread reads until the wait is over.
LEMMA DecayWaitOK ==
  ASSUME WorkersInv, NEW w \in Threads, DecayWait(w) \/ DecayWaitOver(w)
  PROVE  WorkersInv'
<1>1. CASE DecayWait(w)
  <2> DEFINE p == CASE Head(queue[w]) = "shutdown" -> "gone"
                    [] Head(queue[w]) = "pause" -> "top"
                    [] OTHER -> "wait"
  <2>1. Goto(w, p) /\ p \in Places \ {"unborn"}
    BY <1>1 DEF DecayWait, Places
  <2>2. Head(queue[w]) = "pause" => paused'[w]
    BY <1>1 DEF DecayWait, Obey, WorkersInv, WorkersTypeOK
  <2>3. Slack(p, paused'[w], TRUE) <= Slack(at[w], paused[w], polled[w]) + 1
    BY <1>1, <2>2 DEF DecayWait, Slack
  <2>4. polled' = [polled EXCEPT ![w] = TRUE]
    BY <1>1 DEF DecayWait
  <2> HIDE DEF p
  <2> QED BY <1>1, <2>1, <2>3, <2>4, ReadOK DEF DecayWait
<1>2. CASE DecayWaitOver(w)
  <2>1. /\ kind = "decay" /\ at[w] = "wait" /\ (queue[w] = <<>> \/ polled[w]) /\ Goto(w, "tail")
        /\ UNCHANGED <<queue, paused, enabled, polled, engine, word, offed, ahead, overrun>>
    BY <1>2 DEF DecayWaitOver, history
  <2>2. Heeds(kind, queue[w], paused[w], enabled[w], Slack("tail", paused[w], polled[w]),
              word[w], offed[w], ahead[w], overrun[w])
    <3>1. CASE queue[w] = <<>>
      BY <3>1, ThreadType, EmptyHeeds DEF Heeding
    <3>2. CASE polled[w]
      <4>1. Slack("tail", paused[w], polled[w]) = Slack(at[w], paused[w], polled[w])
        BY <2>1, <3>2 DEF Slack
      <4> QED BY <4>1, ThreadType DEF Heeding
    <3> QED BY <2>1, <3>1, <3>2
  <2>3. Stepped(w, "tail", polled[w], paused[w], overrun[w])
    BY <2>1, Same, ThreadType DEF Stepped, Goto, engine, Places
  <2> QED BY <2>2, <2>3, StepOK
<1> QED BY <1>1, <1>2

\* And once more before the next sweep.
LEMMA DecayTailOK ==
  ASSUME WorkersInv, NEW w \in Threads, DecayTail(w)
  PROVE  WorkersInv'
<1>0. kind = "decay" /\ at[w] = "tail" /\ UNCHANGED <<polled, batches, engine, history>>
  BY DEF DecayTail
<1>1. CASE queue[w] = <<>>
  <2>1. Goto(w, "top") /\ UNCHANGED <<queue, paused, enabled>>
    BY <1>1 DEF DecayTail
  <2>2. Heeds(kind, queue[w], paused[w], enabled[w], Slack("top", paused[w], polled[w]),
              word[w], offed[w], ahead[w], overrun[w])
    BY <1>1, ThreadType, EmptyHeeds DEF Heeding
  <2>3. Stepped(w, "top", polled[w], paused[w], overrun[w])
    BY <1>0, <2>1, Same, ThreadType DEF Stepped, Goto, engine, history, Places
  <2> QED BY <2>2, <2>3, StepOK
<1>2. CASE queue[w] # <<>>
  <2> DEFINE p == IF Head(queue[w]) = "shutdown" THEN "gone" ELSE "top"
  <2>1. Read(w) /\ Obey(w, Head(queue[w])) /\ Goto(w, p) /\ p \in Places \ {"unborn"}
    BY <1>2 DEF DecayTail, Places
  <2>2. Slack(p, paused'[w], polled[w]) <= Slack(at[w], paused[w], polled[w]) + 1
    BY <1>0 DEF Slack
  <2> HIDE DEF p
  <2> QED BY <1>0, <1>2, <2>1, <2>2, Same, ThreadType, ReadOK
<1> QED BY <1>1, <1>2

\* The reflect loop.
LEMMA ReflectSignalOK ==
  ASSUME WorkersInv, NEW w \in Threads, ReflectSignal(w)
  PROVE  WorkersInv'
<1>0. /\ kind = "reflect" /\ at[w] = "top" /\ queue[w] # <<>> /\ Read(w)
      /\ Obey(w, Head(queue[w])) /\ UNCHANGED <<polled, engine>>
  BY DEF ReflectSignal
<1>1. CASE ~(Head(queue[w]) = "trigger" /\ ~paused[w] /\ enabled[w])
  <2> DEFINE p == IF Head(queue[w]) = "shutdown" THEN "gone" ELSE "top"
  <2>1. Goto(w, p) /\ UNCHANGED history /\ p \in Places \ {"unborn"}
    BY <1>1 DEF ReflectSignal, Places
  <2> HIDE DEF p
  <2> QED BY <1>0, <2>1, Same, ThreadType, ReadOK
<1>2. CASE Head(queue[w]) = "trigger" /\ ~paused[w] /\ enabled[w] /\ ~storeUp
  <2>1. Goto(w, "gone") /\ UNCHANGED <<word, offed, ahead>> /\ overrun' = [overrun EXCEPT ![w] = overrun[w]]
    BY <1>2 DEF ReflectSignal, BeginSweep
  <2>2. UNCHANGED history /\ "gone" \in Places \ {"unborn"}
    BY <2>1, Same DEF history, Places
  <2> QED BY <1>0, <2>1, <2>2, Same, ThreadType, ReadOK
<1>3. CASE Head(queue[w]) = "trigger" /\ ~paused[w] /\ enabled[w] /\ storeUp
  <2> DEFINE n == IF word[w] = "pause" THEN overrun[w] + 1 ELSE overrun[w]
  <2>1. /\ Goto(w, "sweep") /\ UNCHANGED <<word, offed, ahead>>
        /\ overrun' = [overrun EXCEPT ![w] = n]
    BY <1>3 DEF ReflectSignal, BeginSweep
  <2>2. UNCHANGED <<paused, enabled>>
    BY <1>0, <1>3 DEF Obey, WorkersInv, WorkersTypeOK
  <2>3. paused[w] = FALSE /\ queue'[w] = Tail(queue[w]) /\ overrun'[w] = n /\ at'[w] = "sweep"
    BY <1>0, <1>3, <2>1, ThreadType DEF Read, Goto, WorkersInv, WorkersTypeOK
  <2>4. Heeds("reflect", Tail(queue[w]), FALSE, enabled[w], Slack("sweep", FALSE, polled[w]),
              word[w], offed[w], ahead[w], n)
    <3>1. Heeds("reflect", queue[w], FALSE, enabled[w], Slack("top", FALSE, polled[w]),
                word[w], offed[w], ahead[w], overrun[w])
      BY <1>0, <2>3, ThreadType DEF Heeding
    <3>2. Terms("reflect", queue[w], FALSE, Slack("top", FALSE, polled[w]),
                word[w], ahead[w], overrun[w])
      BY SlackType, ThreadType DEF Terms
    <3>3. Slackens("reflect", Slack("top", FALSE, polled[w]), Slack("sweep", FALSE, polled[w]))
      BY SlackType DEF Slackens
    <3> QED BY <1>0, <1>3, <3>1, <3>2, <3>3, TriggerHeeds
  <2>5. Heeding(w)'
    BY <1>0, <2>1, <2>2, <2>3, <2>4 DEF Heeding, engine
  <2>6. n \in Nat /\ Tail(queue[w]) \in Seq(Signals)
    BY <1>0, ThreadType, TailWords
  <2> HIDE DEF n
  <2>7. WorkersTypeOK'
    BY <1>0, <2>1, <2>2, <2>6 DEF WorkersInv, WorkersTypeOK, Read, Goto, engine, Places
  <2>8. \A x \in Threads \ {w} :
          /\ queue'[x] = queue[x] /\ at'[x] = at[x] /\ paused'[x] = paused[x]
          /\ enabled'[x] = enabled[x] /\ polled'[x] = polled[x] /\ overrun'[x] = overrun[x]
    BY <1>0, <2>1, <2>2 DEF WorkersInv, WorkersTypeOK, Read, Goto
  <2> QED BY <1>0, <2>1, <2>3, <2>5, <2>7, <2>8, OneThread
<1> QED BY <1>1, <1>2, <1>3

\* A run that is due begins only if no pause is waiting.
LEMMA ReflectDueOK ==
  ASSUME WorkersInv, NEW w \in Threads, ReflectDue(w) \/ ReflectRan(w)
  PROVE  WorkersInv'
<1>1. CASE ReflectDue(w)
  <2> DEFINE p == IF storeUp THEN "sweep" ELSE "gone"
  <2>1. /\ at[w] = "top" /\ queue[w] = <<>> /\ ~paused[w] /\ Goto(w, p)
        /\ UNCHANGED <<queue, paused, enabled, polled, engine, word, offed, ahead>>
    BY <1>1 DEF ReflectDue, BeginSweep
  <2>2. NoWord(queue[w])
    BY <2>1 DEF NoWord
  <2>3. word[w] # "pause"
    BY <2>1, <2>2, ThreadType DEF Heeding, Heeds
  <2>4. overrun' = [overrun EXCEPT ![w] = overrun[w]]
    BY <1>1, <2>3 DEF ReflectDue, BeginSweep
  <2>5. Heeds(kind, queue[w], paused[w], enabled[w], Slack(p, paused[w], polled[w]),
              word[w], offed[w], ahead[w], overrun[w])
    BY <2>1, ThreadType, EmptyHeeds DEF Heeding
  <2>6. p \in Places \ {"unborn"}
    BY DEF Places
  <2> HIDE DEF p
  <2>7. Stepped(w, p, polled[w], paused[w], overrun[w])
    BY <2>1, <2>4, <2>6, Same, ThreadType DEF Stepped, Goto, engine
  <2> QED BY <2>5, <2>7, StepOK
<1>2. CASE ReflectRan(w)
  <2>1. /\ kind = "reflect" /\ at[w] = "sweep" /\ Goto(w, "top")
        /\ UNCHANGED <<queue, paused, enabled, polled, engine, word, offed, ahead, overrun>>
    BY <1>2 DEF ReflectRan, history
  <2>2. Heeds(kind, queue[w], paused[w], enabled[w], Slack("top", paused[w], polled[w]),
              word[w], offed[w], ahead[w], overrun[w])
    <3>1. Steadies(kind, Slack(at[w], paused[w], polled[w]), Slack("top", paused[w], polled[w]))
      BY <2>1, SlackType DEF Steadies
    <3>2. Terms(kind, queue[w], paused[w], Slack(at[w], paused[w], polled[w]), word[w], ahead[w], overrun[w])
      BY <2>1, ThreadType DEF Terms
    <3> QED BY <3>1, <3>2, ThreadType, IdleHeeds DEF Heeding
  <2>3. Stepped(w, "top", polled[w], paused[w], overrun[w])
    BY <2>1, Same, ThreadType DEF Stepped, Goto, engine, Places
  <2> QED BY <2>2, <2>3, StepOK
<1> QED BY <1>1, <1>2

\* The loop of a thread.
LEMMA LoopOK ==
  ASSUME WorkersInv, NEW w \in Threads, Loop(w)
  PROVE  WorkersInv'
BY DecayIdleOK, DecaySweepOK, DecayBatchOK, DecayWaitOK, DecayTailOK, ReflectSignalOK, ReflectDueOK
   DEF Loop

\* A signal to the current handle.
LEMMA SignalOK ==
  ASSUME WorkersInv, NEW sig \in {"pause", "resume", "enable", "disable", "trigger"}, Signal(sig)
  PROVE  WorkersInv'
<1>1. PICK w \in Threads : w = handle
  BY DEF Signal, WorkersInv, WorkersTypeOK
<1>2. /\ queue' = [queue EXCEPT ![w] = Append(@, sig)]
      /\ word' = [word EXCEPT ![w] = IF sig \in Words THEN sig ELSE @]
      /\ offed' = [offed EXCEPT ![w] = @ \/ sig = "disable"]
      /\ ahead' = [ahead EXCEPT ![w] = IF sig = "pause" THEN Len(queue[w]) ELSE @]
      /\ overrun' = [overrun EXCEPT ![w] = IF sig \in Words THEN 0 ELSE @]
      /\ UNCHANGED <<kind, at, paused, enabled, polled, handle, control, starting>>
  BY <1>1 DEF Signal, Send, Say, Words
<1>3. sig \in Signals /\ Append(queue[w], sig) \in Seq(Signals) /\ Len(queue[w]) \in Nat
  <2>1. sig \in Signals
    BY DEF Signals, Words
  <2> QED BY <1>1, <2>1, ThreadType, AppendWords
<1>4. WorkersTypeOK'
  <2>1. queue' \in [Threads -> Seq(Signals)]
    BY <1>1, <1>2, <1>3 DEF WorkersInv, WorkersTypeOK
  <2>2. word' \in [Threads -> Words]
    BY <1>1, <1>2 DEF WorkersInv, WorkersTypeOK
  <2>3. offed' \in [Threads -> BOOLEAN]
    BY <1>1, <1>2 DEF WorkersInv, WorkersTypeOK
  <2>4. ahead' \in [Threads -> Nat] /\ overrun' \in [Threads -> Nat]
    BY <1>1, <1>2, <1>3 DEF WorkersInv, WorkersTypeOK
  <2> QED BY <1>2, <2>1, <2>2, <2>3, <2>4 DEF WorkersInv, WorkersTypeOK
<1>5. /\ queue'[w] = Append(queue[w], sig) /\ word'[w] = (IF sig \in Words THEN sig ELSE word[w])
      /\ offed'[w] = (offed[w] \/ sig = "disable")
      /\ ahead'[w] = (IF sig = "pause" THEN Len(queue[w]) ELSE ahead[w])
      /\ overrun'[w] = (IF sig \in Words THEN 0 ELSE overrun[w])
  BY <1>1, <1>2 DEF WorkersInv, WorkersTypeOK
<1>6. Heeding(w)'
  <2>1. Terms(kind, queue[w], paused[w], Slack(at[w], paused[w], polled[w]), word[w], ahead[w], overrun[w])
    BY <1>1, ThreadType DEF Terms, WorkersInv, WorkersTypeOK
  <2>2. Said(sig, queue[w], word[w], offed[w], ahead[w], overrun[w],
             word'[w], offed'[w], ahead'[w], overrun'[w])
    BY <1>5 DEF Said
  <2>3. Heeds(kind, Append(queue[w], sig), paused[w], enabled[w], Slack(at[w], paused[w], polled[w]),
              word'[w], offed'[w], ahead'[w], overrun'[w])
    BY <1>1, <1>3, <2>1, <2>2, ThreadType, SendHeeds DEF Heeding
  <2> QED BY <1>2, <1>5, <2>3 DEF Heeding
<1>7. ASSUME NEW x \in Threads \ {w} PROVE Heeding(x)'
  <2>1. /\ queue'[x] = queue[x] /\ word'[x] = word[x] /\ offed'[x] = offed[x]
        /\ ahead'[x] = ahead[x] /\ overrun'[x] = overrun[x]
    BY <1>2 DEF WorkersInv, WorkersTypeOK
  <2> QED BY <1>2, <2>1, ThreadType DEF Heeding
<1>8. Reachable'
  BY <1>2 DEF WorkersInv, Reachable, Alive
<1> QED BY <1>4, <1>6, <1>7, <1>8 DEF WorkersInv

\* The shutdown that is sent with a handle dropped or stopped.
LEMMA ShutdownHeeds ==
  ASSUME WorkersInv, NEW w \in Threads
  PROVE  /\ Append(queue[w], "shutdown") \in Seq(Signals)
         /\ Heeds(kind, Append(queue[w], "shutdown"), paused[w], enabled[w],
                  Slack(at[w], paused[w], polled[w]), word[w], offed[w], ahead[w], overrun[w])
<1>1. "shutdown" \in Signals /\ "shutdown" \notin Words
  BY DEF Signals, Words
<1>2. Terms(kind, queue[w], paused[w], Slack(at[w], paused[w], polled[w]), word[w], ahead[w], overrun[w])
  BY ThreadType DEF Terms, WorkersInv, WorkersTypeOK
<1>3. Said("shutdown", queue[w], word[w], offed[w], ahead[w], overrun[w],
           word[w], offed[w], ahead[w], overrun[w])
  BY <1>1, ThreadType DEF Said
<1>4. Heeds(kind, queue[w], paused[w], enabled[w], Slack(at[w], paused[w], polled[w]),
            word[w], offed[w], ahead[w], overrun[w])
  BY ThreadType DEF Heeding
<1>5. Append(queue[w], "shutdown") \in Seq(Signals)
  BY <1>1, ThreadType, AppendWords
<1> QED BY <1>1, <1>2, <1>3, <1>4, <1>5, SendHeeds

\* A handle stopped.
LEMMA StopOK ==
  ASSUME WorkersInv, Stop
  PROVE  WorkersInv'
<1> DEFINE w == handle
<1>1. w \in Threads
  BY DEF Stop, WorkersInv, WorkersTypeOK
<1>2. /\ queue' = [queue EXCEPT ![w] = Append(@, "shutdown")]
      /\ handle' = Absent /\ control' = w /\ control = Absent
      /\ UNCHANGED <<kind, at, paused, enabled, polled, starting, word, offed, ahead, overrun>>
  BY DEF Stop, Send, history
<1> HIDE DEF w
<1>3. WorkersTypeOK'
  BY <1>1, <1>2, ShutdownHeeds DEF WorkersInv, WorkersTypeOK
<1>4. queue'[w] = Append(queue[w], "shutdown") /\ \A x \in Threads \ {w} : queue'[x] = queue[x]
  BY <1>1, <1>2 DEF WorkersInv, WorkersTypeOK
<1>5. \A x \in Threads : Heeding(x)'
  BY <1>1, <1>2, <1>4, ShutdownHeeds DEF WorkersInv, Heeding
<1>6. Reachable'
  <2>1. Alive' = Alive /\ Absent \notin Alive /\ Absent \notin starting
    BY <1>2, WorkerConstants DEF Alive, WorkersInv, WorkersTypeOK
  <2> QED BY <1>1, <1>2, <2>1 DEF WorkersInv, Reachable, w
<1> QED BY <1>3, <1>5, <1>6 DEF WorkersInv

\* A new thread.
LEMMA SpawnOK ==
  ASSUME WorkersInv, NEW w \in Threads, Spawn(w)
  PROVE  WorkersInv'
<1>1. /\ at[w] = "unborn" /\ at' = [at EXCEPT ![w] = "top"] /\ starting' = starting \cup {w}
      /\ UNCHANGED <<kind, paused, enabled, polled, handle, control>>
      /\ queue' = [queue EXCEPT ![w] = Append(@, "resume")]
      /\ word' = [word EXCEPT ![w] = "resume"] /\ offed' = [offed EXCEPT ![w] = @ \/ FALSE]
      /\ ahead' = [ahead EXCEPT ![w] = @] /\ overrun' = [overrun EXCEPT ![w] = 0]
  BY DEF Spawn, Send, Say, Goto
<1>2. UNCHANGED <<offed, ahead>>
  BY <1>1 DEF WorkersInv, WorkersTypeOK
<1>3. /\ "resume" \in Signals /\ "resume" \in Words /\ "resume" \notin {"pause", "disable"}
      /\ Append(queue[w], "resume") \in Seq(Signals)
  <2>1. "resume" \in Signals /\ "resume" \in Words
    BY DEF Signals, Words
  <2> QED BY <2>1, ThreadType, AppendWords
<1>4. WorkersTypeOK'
  <2>1. queue' \in [Threads -> Seq(Signals)]
    BY <1>1, <1>3 DEF WorkersInv, WorkersTypeOK
  <2> QED BY <1>1, <1>2, <1>3, <2>1 DEF WorkersInv, WorkersTypeOK, Places
<1>5. /\ queue'[w] = Append(queue[w], "resume") /\ word'[w] = "resume" /\ overrun'[w] = 0
      /\ at'[w] = "top"
      /\ \A x \in Threads \ {w} : /\ queue'[x] = queue[x] /\ word'[x] = word[x]
                                  /\ overrun'[x] = overrun[x] /\ at'[x] = at[x]
  BY <1>1 DEF WorkersInv, WorkersTypeOK
<1>6. Heeding(w)'
  <2> DEFINE slack == Slack(at[w], paused[w], polled[w])
             slack2 == Slack("top", paused[w], polled[w])
  <2>1. Terms(kind, queue[w], paused[w], slack, word[w], ahead[w], overrun[w])
    BY ThreadType DEF Terms, WorkersInv, WorkersTypeOK
  <2>2. Said("resume", queue[w], word[w], offed[w], ahead[w], overrun[w],
             "resume", offed[w], ahead[w], 0)
    BY <1>3, ThreadType DEF Said
  <2>3. Heeds(kind, queue[w], paused[w], enabled[w], slack, word[w], offed[w], ahead[w], overrun[w])
    BY ThreadType DEF Heeding
  <2>4. Heeds(kind, Append(queue[w], "resume"), paused[w], enabled[w], slack,
              "resume", offed[w], ahead[w], 0)
    BY <1>3, <2>1, <2>2, <2>3, SendHeeds
  <2>5. Heeds(kind, Append(queue[w], "resume"), paused[w], enabled[w], slack2,
              "resume", offed[w], ahead[w], 0)
    BY <1>3, <2>4 DEF Heeds
  <2> QED BY <1>1, <1>2, <1>5, <2>5 DEF Heeding
<1>7. ASSUME NEW x \in Threads \ {w} PROVE Heeding(x)'
  BY <1>1, <1>2, <1>5, ThreadType DEF Heeding
<1>8. Reachable'
  <2>1. Alive' \subseteq Alive \cup {w}
    BY <1>5 DEF Alive
  <2>2. handle # w /\ handle \notin starting
    BY <1>1, WorkerConstants DEF WorkersInv, Reachable
  <2>3. starting \subseteq Threads /\ handle \in Threads \cup {Absent}
    BY DEF WorkersInv, WorkersTypeOK
  <2> QED BY <1>1, <1>5, <2>1, <2>2, <2>3 DEF WorkersInv, Reachable
<1> QED BY <1>4, <1>6, <1>7, <1>8 DEF WorkersInv

\* A new handle, and the one it replaces.
LEMMA InstallOK ==
  ASSUME WorkersInv, NEW w \in Threads, Install(w)
  PROVE  WorkersInv'
<1>1. /\ w \in starting /\ starting' = starting \ {w} /\ handle' = w /\ control' = handle
      /\ control = Absent
      /\ UNCHANGED <<kind, at, paused, enabled, polled, word, offed, ahead, overrun>>
  BY DEF Install, history
<1>2. handle # Absent => handle \in Threads
  BY DEF WorkersInv, WorkersTypeOK
<1>3. \A x \in Threads : queue'[x] = IF x = handle THEN Append(queue[x], "shutdown") ELSE queue[x]
  BY <1>2, WorkerConstants DEF Install, Send, WorkersInv, WorkersTypeOK
<1>4. \A x \in Threads : queue'[x] \in Seq(Signals)
  BY <1>3, ThreadType, ShutdownHeeds
<1>5. WorkersTypeOK'
  <2>1. queue' \in [Threads -> Seq(Signals)]
    BY <1>4 DEF Install, Send, WorkersInv, WorkersTypeOK
  <2> QED BY <1>1, <2>1 DEF WorkersInv, WorkersTypeOK
<1>6. ASSUME NEW x \in Threads PROVE Heeding(x)'
  <2>1. CASE x = handle
    BY <1>1, <1>3, <2>1, ShutdownHeeds DEF Heeding
  <2>2. CASE x # handle
    BY <1>1, <1>3, <2>2, ThreadType DEF Heeding
  <2> QED BY <2>1, <2>2
<1>7. Reachable'
  <2>1. Alive' = Alive /\ Absent \notin Alive
    BY <1>1, WorkerConstants DEF Alive
  <2> QED BY <1>1, <2>1 DEF WorkersInv, Reachable
<1> QED BY <1>5, <1>6, <1>7 DEF WorkersInv

\* A thread joined, or the storage gone.
LEMMA JoinedOK ==
  ASSUME WorkersInv, JoinedThread \/ DropEngine
  PROVE  WorkersInv'
<1>1. /\ UNCHANGED <<kind, queue, at, paused, enabled, polled, handle, starting, word, offed, ahead, overrun>>
      /\ control' = control \/ (control' = Absent /\ control \notin Alive)
  BY DEF JoinedThread, DropEngine, history, Alive
<1>2. WorkersTypeOK' /\ \A w \in Threads : Heeding(w)'
  BY <1>1 DEF WorkersInv, WorkersTypeOK, Heeding
<1>3. Alive' = Alive /\ Absent \notin Alive
  BY <1>1, WorkerConstants DEF Alive
<1>4. Reachable'
  BY <1>1, <1>3 DEF WorkersInv, Reachable
<1> QED BY <1>2, <1>4 DEF WorkersInv

-----------------------------------------------------------------------------
(* The theorems                                                             *)

\* No thread has been started.
LEMMA WorkersInitOK == WorkersInit => WorkersInv
<1> SUFFICES ASSUME WorkersInit PROVE WorkersInv
  OBVIOUS
<1>1. WorkersTypeOK
  BY DEF WorkersInit, WorkersTypeOK, Words, Places
<1>2. Alive = {}
  BY DEF WorkersInit, Alive
<1>3. NoWord(<<>>) /\ \A i : ~LastAt(<<>>, i)
  BY DEF NoWord, LastAt
<1>4. ASSUME NEW w \in Threads PROVE Heeding(w)
  <2>1. /\ queue[w] = <<>> /\ paused[w] = TRUE /\ enabled[w] = TRUE /\ word[w] = "pause"
        /\ offed[w] = FALSE /\ ahead[w] = 0 /\ overrun[w] = 0
    BY DEF WorkersInit
  <2>2. Within(kind, 0, 0)
    BY DEF Within
  <2> QED BY <1>3, <2>1, <2>2 DEF Heeding, Heeds
<1> QED
  BY <1>1, <1>2, <1>4 DEF WorkersInv, Reachable, WorkersInit

\* Every step keeps the invariant.
LEMMA WorkersNextOK == WorkersInv /\ [WorkersNext]_workerVars => WorkersInv'
<1> SUFFICES ASSUME WorkersInv, [WorkersNext]_workerVars PROVE WorkersInv'
  OBVIOUS
<1>1. CASE UNCHANGED workerVars
  BY <1>1 DEF workerVars, WorkersInv, WorkersTypeOK, Reachable, Alive, Heeding
<1>2. CASE WorkersNext
  BY <1>2, LoopOK, SpawnOK, InstallOK, SignalOK, StopOK, JoinedOK DEF WorkersNext
<1> QED BY <1>1, <1>2

\* However calls that start, replace and stop a worker overlap, and in whatever state
\* it is, no thread runs that the engine cannot reach, except one whose start call has
\* not returned.
THEOREM NoWorkerAstray == WorkersSpec => []NoStrayWorker
<1>1. WorkersInv => NoStrayWorker
  BY DEF WorkersInv, Reachable, NoStrayWorker
<1> QED BY <1>1, WorkersInitOK, WorkersNextOK, PTL DEF WorkersSpec

\* A thread that has read its signals is paused as the last word says, and a
\* pause is overrun by no more sweeps than the signals ahead of it allow.
THEOREM SignalsAreObeyed == WorkersSpec => []SignalsObeyed
<1>1. WorkersInv => SignalsObeyed
  <2> SUFFICES ASSUME WorkersInv PROVE SignalsObeyed
    OBVIOUS
  <2>1. NoWord(<<>>)
    BY DEF NoWord
  <2>2. LastWordHolds
    BY <2>1, ThreadType DEF LastWordHolds, Heeding, Heeds, Alive
  <2>3. ASSUME NEW w \in Threads
        PROVE  overrun[w] <= IF kind = "decay" THEN 1 + ahead[w] \div 2 ELSE ahead[w]
    <3>1. Within(kind, ahead[w], overrun[w]) /\ ahead[w] \in Nat /\ overrun[w] \in Nat
      BY ThreadType DEF Heeding, Heeds
    <3>2. \A a, n \in Nat : 2 * n <= 2 + a => n <= 1 + a \div 2
      OBVIOUS
    <3> QED BY <3>1, <3>2 DEF Within
  <2> QED BY <2>2, <2>3 DEF SignalsObeyed, PauseOverrun
<1> QED BY <1>1, WorkersInitOK, WorkersNextOK, PTL DEF WorkersSpec
=============================================================================
