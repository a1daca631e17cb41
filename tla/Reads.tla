------------------------------- MODULE Reads -------------------------------
(***************************************************************************)
(* The read side of the engine (hebbs-core/src/engine.rs): recall with its *)
(* four strategies, prime, and the listings, against stores that other     *)
(* threads go on writing.  A call takes no lock over its steps: each       *)
(* strategy asks an index for ids and then loads the memories one by one,  *)
(* strategies run side by side, and the answer is merged, ranked and       *)
(* written back ("reinforced") at the end.                                 *)
(*                                                                         *)
(* The stores are kept as the readers see them, with the part that tenants *)
(* share: a tenant's memories and temporal entries carry its prefix, but   *)
(* one vector graph holds the vectors of all of them, and the temporal     *)
(* index is only ever read without a prefix.  Writes are single steps here *)
(* (Engine.tla takes them apart).  Vectors are reduced to how near a text  *)
(* is to the cue; graph searches are exact (Hnsw.tla has their misses).    *)
(***************************************************************************)
EXTENDS Integers, FiniteSets, Sequences, SequencesExt, FiniteSetsExt

CONSTANTS
  Tenants, Default,   \* tenant names; the one that has no prefix
  Entities, Texts,
  Near,               \* [Texts -> Nat]: relevance of a text to the cue
  MaxIds,             \* memories ever created
  MaxWrites,          \* writes besides creations during the calls
  TopK,               \* input.top_k
  Oversample,         \* ENTITY_OVERSAMPLE
  PrimeMax,           \* input.max_memories of prime
  Window,             \* input.recency_window_us of prime, in ids
  Menus,              \* the sequences of strategies callers ask for
  Drafts,             \* what callers write: [tenant, entity, text]
  None

ASSUME DefaultIsTenant == Default \in Tenants /\ None \notin Tenants \cup Entities \cup Texts
ASSUME NearIsRelevance == Near \in [Texts -> Nat]
ASSUME DraftsAreMemories == Drafts \subseteq [tenant : Tenants, entity : Entities \cup {None}, text : Texts]
ASSUME MenusListStrategies == Menus \subseteq Seq({"similarity", "temporal", "causal", "analogical"})
ASSUME LimitsPositive == MaxIds \in Nat /\ {TopK, Oversample, PrimeMax, Window} \subseteq Nat \ {0}

VARIABLES
  db,        \* Default column family: id -> memory, or None
  temporal,  \* temporal column family: [tenant, entity, at, id]
  graph,     \* the vector graph in memory: id -> text, or None (dead)
  vectors,   \* Vectors column family, unprefixed: id -> text, or None
  assoc,     \* tenant -> ids live in its associative graph
  assocKeys, \* VectorsAssociative column family, unprefixed: ids
  created,   \* ids handed out (ULIDs: in order of creation)
  writes,    \* writes so far, against MaxWrites
  call,      \* the read in progress
  during,    \* history: every version of a memory stored while it runs
  always,    \* history: ids stored with one tenant and entity all that time
  undone     \* history: ids whose later state a recall has overwritten

stores == <<db, temporal, graph, vectors, assoc, assocKeys, created, writes>>
vars == <<stores, call, during, always, undone>>

Ids == 1 .. MaxIds
Memory == [tenant : Tenants, entity : Entities \cup {None}, text : Texts, at : Ids]
ASSUME NoneIsNoMemory == None \notin Memory \cup Ids
Stored(d) == {i \in Ids : d[i] # None}
Versions(d) == {<<i, d[i]>> : i \in Stored(d)}
Snapshot(i) == db[i] # None /\ db[i].at # i
Idle == [kind |-> "none"]

Init ==
  /\ db = [i \in Ids |-> None] /\ temporal = {}
  /\ graph = [i \in Ids |-> None] /\ vectors = [i \in Ids |-> None]
  /\ assoc = [t \in Tenants |-> {}] /\ assocKeys = {}
  /\ created = 0 /\ writes = 0
  /\ call = Idle /\ during = {} /\ always = {} /\ undone = {}

----------------------------------------------------------------------------
(* Sets put in an order and lists cut, as sort, retain and truncate do. *)

\* The members of S in a strict order of them: each comes after as many as are
\* before it.
Arranged(S, Before(_, _)) ==
  [k \in 1 .. Cardinality(S) |-> CHOOSE x \in S : Cardinality({y \in S : Before(y, x)}) = k - 1]

Ascending(S) == Arranged(S, LAMBDA a, b : a < b)
Descending(S) == Arranged(S, LAMBDA a, b : a > b)

\* Entries of s at the positions that order lists.
Picked(s, order) == [k \in DOMAIN order |-> s[order[k]]]

Truncate(s, max) == [k \in 1 .. (IF Len(s) < max THEN Len(s) ELSE max) |-> s[k]]

----------------------------------------------------------------------------
(* Writes, as far as a reader can tell. *)

Watch ==
  /\ during' = IF call = Idle THEN {} ELSE during \cup Versions(db')
  /\ always' = {i \in always :
                  /\ db'[i] # None
                  /\ db'[i].tenant = db[i].tenant /\ db'[i].entity = db[i].entity}

Entry(i, m) == [tenant |-> m.tenant, entity |-> m.entity, at |-> m.at, id |-> i]
EntriesOf(i, m) == IF m.entity = None THEN {} ELSE {Entry(i, m)}

\* The batch goes through the tenant's storage; the graphs and their column
\* families get the bare id.
Remember(d) ==
  LET i == created + 1
      m == [tenant |-> d.tenant, entity |-> d.entity, text |-> d.text, at |-> i]
  IN /\ i <= MaxIds
     /\ created' = i
     /\ db' = [db EXCEPT ![i] = m]
     /\ temporal' = temporal \cup EntriesOf(i, m)
     /\ graph' = [graph EXCEPT ![i] = d.text]
     /\ vectors' = [vectors EXCEPT ![i] = d.text]
     /\ assoc' = [assoc EXCEPT ![d.tenant] = @ \cup {i}]
     /\ assocKeys' = assocKeys \cup {i}
     /\ Watch
     /\ UNCHANGED <<writes, call, undone>>

\* In-place update; what the memory was is kept under a new id that no
\* index knows.  Callers name no such snapshot here, nor to forget it
\* (Engine.tla has what happens if they do).
Revise(i, d) ==
  LET old == db[i]
      m == [old EXCEPT !.entity = d.entity, !.text = d.text]
  IN /\ writes < MaxWrites /\ created < MaxIds
     /\ db[i] # None /\ db[i].tenant = d.tenant /\ ~Snapshot(i)
     /\ db' = [db EXCEPT ![i] = m, ![created + 1] = old]
     /\ temporal' = (temporal \ EntriesOf(i, old)) \cup EntriesOf(i, m)
     /\ graph' = [graph EXCEPT ![i] = d.text]
     /\ vectors' = [vectors EXCEPT ![i] = d.text]
     /\ created' = created + 1 /\ writes' = writes + 1
     /\ Watch
     /\ UNCHANGED <<assoc, assocKeys, call, undone>>

\* Snapshots go with their memory.  The deletes of a tenant other than
\* Default name prefixed vector keys, which do not exist: its vectors stay
\* on disk.  The graphs of Default lose the id whoever forgets.
Forget(t, i) ==
  LET gone == {j \in Stored(db) : db[j].at = i}
  IN
  /\ writes < MaxWrites /\ i \in gone /\ db[i].tenant = t
  /\ db' = [j \in Ids |-> IF j \in gone THEN None ELSE db[j]]
  /\ temporal' = temporal \ UNION {EntriesOf(i, db[j]) : j \in gone}
  /\ graph' = [graph EXCEPT ![i] = None]
  /\ vectors' = IF t = Default THEN [vectors EXCEPT ![i] = None] ELSE vectors
  /\ assocKeys' = IF t = Default THEN assocKeys \ {i} ELSE assocKeys
  /\ assoc' = [assoc EXCEPT ![Default] = @ \ {i}]
  /\ writes' = writes + 1
  /\ Watch
  /\ UNCHANGED <<created, call, undone>>

\* Both graphs are rebuilt from the unprefixed keys, for Default.
Restart ==
  /\ writes < MaxWrites /\ call = Idle
  /\ graph' = vectors
  /\ assoc' = [t \in Tenants |-> IF t = Default THEN assocKeys ELSE {}]
  /\ writes' = writes + 1
  /\ UNCHANGED <<db, temporal, vectors, assocKeys, created, call, during, always, undone>>

----------------------------------------------------------------------------
(* What the indexes answer. *)

\* search_vector: the k nearest live nodes; equal ones in any order, for
\* which the older stands here.
SearchVector(k) ==
  Truncate(Arranged({i \in Ids : graph[i] # None},
             LAMBDA i, j : \/ Near[graph[i]] > Near[graph[j]]
                           \/ Near[graph[i]] = Near[graph[j]] /\ i < j),
           k)

\* The entries of an entity without a prefix, which are Default's, whose
\* times are in a range; its end is exclusive.
InRange(e, from, to) ==
  {r.id : r \in {r \in temporal : r.tenant = Default /\ r.entity = e /\ from <= r.at /\ r.at < to}}

\* Mutant: the entries are cut to the limit before their order is reversed.
QueryThenReverse(e, from, to, newestFirst, limit) ==
  LET oldest == Truncate(Ascending(InRange(e, from, to)), limit)
  IN  IF newestFirst THEN Reverse(oldest) ELSE oldest

\* query_temporal: as many as asked, the newest or the oldest first.
QueryTemporal(e, from, to, newestFirst, limit) ==
  LET hits == InRange(e, from, to)
  IN  Truncate(IF newestFirst THEN Descending(hits) ELSE Ascending(hits), limit)

\* search_assoc: the nearest nodes of the tenant's graph to a computed
\* point; which those are is vector arithmetic, so any.
SearchAssoc(t, k) ==
  LET n == IF Cardinality(assoc[t]) < k THEN Cardinality(assoc[t]) ELSE k
  IN kSubset(n, assoc[t])

\* Mutant: loads past the tenant's prefix.
LoadUnscoped(t, i) == db[i]

Load(t, i) == IF db[i] # None /\ db[i].tenant = t THEN db[i] ELSE None

----------------------------------------------------------------------------
(* recall_for_tenant *)

NeedsEmbedding(s) == s \in {"similarity", "causal", "analogical"}
Scale == 2
TemporalRelevance(rank, total) == (Scale * (total - rank)) \div total
Hit(i, relevance) == [id |-> i, relevance |-> relevance]
Fetch(e) == IF e = None THEN TopK ELSE TopK * Oversample

NewCall(kind, t, e, menu) ==
  [kind |-> kind, tenant |-> t, entity |-> e, menu |-> menu, phase |-> "running",
   embedded |-> TRUE, seed |-> None, pair |-> FALSE, now |-> 0, known |-> 0, cursor |-> 0,
   job |-> [n \in DOMAIN menu |-> "todo"], found |-> [n \in DOMAIN menu |-> <<>>],
   loaded |-> [n \in DOMAIN menu |-> <<>>], answer |-> <<>>]

Begin(c) ==
  /\ call = Idle
  /\ call' = c
  /\ during' = Versions(db)
  /\ always' = Stored(db)
  /\ UNCHANGED <<stores, undone>>

\* Validation and the cue's embedding.  Without one, the call fails unless
\* the temporal strategy is asked for; the others then fail on their own.
Recall(t, e, menu, embeds, seed, pair) ==
  /\ embeds \/ \E n \in DOMAIN menu : ~NeedsEmbedding(menu[n])
  /\ seed # None => \E n \in DOMAIN menu : menu[n] = "causal"
  /\ pair => \E n \in DOMAIN menu : menu[n] = "analogical"
  /\ Begin([NewCall("recall", t, e, menu) EXCEPT !.embedded = embeds,
                                                 !.seed = seed, !.pair = pair])

SetJob(n, state, hits) ==
  call' = [call EXCEPT !.job[n] = state, !.found[n] = hits]

Matches(m) == m # None /\ (call.entity = None \/ m.entity = call.entity)

SearchSimilar(n) ==
  /\ call.menu[n] = "similarity"
  /\ IF call.embedded
     THEN LET ids == SearchVector(Fetch(call.entity))
          IN SetJob(n, "loading", [k \in DOMAIN ids |-> Hit(ids[k], Near[graph[ids[k]]])])
     ELSE SetJob(n, "failed", <<>>)

SearchTemporal(n) ==
  /\ call.menu[n] = "temporal"
  /\ IF call.entity = None
     THEN SetJob(n, "failed", <<>>)
     ELSE LET ids == QueryTemporal(call.entity, 0, MaxIds + 1, TRUE, TopK)
          IN SetJob(n, "loading",
               [k \in DOMAIN ids |-> Hit(ids[k], TemporalRelevance(k - 1, Len(ids)))])

\* The seed: the one named, or the nearest node, or the nearest of a few
\* that belongs to the entity.
CausalSeed ==
  LET candidates == SearchVector(IF call.entity = None THEN 1 ELSE Oversample)
      ours == {k \in DOMAIN candidates : \/ call.entity = None
                                         \/ Matches(Load(call.tenant, candidates[k]))}
  IN IF call.seed # None THEN call.seed
     ELSE IF call.embedded /\ ours # {} THEN candidates[Min(ours)] ELSE None

\* Forward and backward hits, the seed left out; none when no edge type asked
\* for has a learned offset.  A seed that cannot be loaded is an error.
SearchCausal(n) ==
  /\ call.menu[n] = "causal"
  /\ LET seed == CausalSeed
         m == IF seed = None THEN None ELSE Load(call.tenant, seed)
     IN IF seed = None /\ call.embedded THEN SetJob(n, "done", <<>>)
        ELSE IF ~Matches(m) THEN SetJob(n, "failed", <<>>)
        ELSE \E fwd, bwd \in SearchAssoc(call.tenant, TopK), learned \in BOOLEAN :
               LET ids == IF learned THEN SetToSeq((fwd \cup bwd) \ {seed}) ELSE <<>>
               IN SetJob(n, "loading", [k \in DOMAIN ids |-> Hit(ids[k], 1)])

\* With a pair A : B to transfer, the tenant's associative graph; otherwise
\* a search so wide that here it returns the whole graph.
SearchAnalogical(n) ==
  /\ call.menu[n] = "analogical"
  /\ IF ~call.embedded THEN SetJob(n, "failed", <<>>)
     ELSE IF call.pair
     THEN \E hits \in SearchAssoc(call.tenant, Fetch(call.entity)) :
            LET ids == SetToSeq(hits)
            IN SetJob(n, "loading", [k \in DOMAIN ids |-> Hit(ids[k], 1)])
     ELSE LET ids == SearchVector(MaxIds)
          IN SetJob(n, "loading", [k \in DOMAIN ids |-> Hit(ids[k], Near[graph[ids[k]]])])

Search(n) ==
  /\ call.kind = "recall" /\ call.phase = "running" /\ call.job[n] = "todo"
  /\ SearchSimilar(n) \/ SearchTemporal(n) \/ SearchCausal(n) \/ SearchAnalogical(n)
  /\ UNCHANGED <<stores, during, always, undone>>

\* The temporal strategy and prime take a loaded memory as it is; the others
\* look at its entity again.
Wanted(n, m) ==
  IF call.kind = "recall" /\ call.menu[n] # "temporal" THEN Matches(m) ELSE m # None

\* One get_from_storage of a load loop: a hit that is gone, or not the
\* caller's, is passed over.
LoadHit(n) ==
  /\ call # Idle /\ call.phase = "running" /\ n \in DOMAIN call.job /\ call.job[n] = "loading"
  /\ call.found[n] # <<>>
  /\ LET hit == Head(call.found[n])
         m == Load(call.tenant, hit.id)
         got == IF Wanted(n, m)
                THEN Append(call.loaded[n],
                            [id |-> hit.id, memory |-> m, relevance |-> hit.relevance])
                ELSE call.loaded[n]
     IN call' = [call EXCEPT !.found[n] = Tail(@), !.loaded[n] = got]
  /\ UNCHANGED <<stores, during, always, undone>>

\* Vec::sort_by: from the heaviest to the lightest, equal ones as they were.
Sorted(s, weight) ==
  Picked(s, Arranged(DOMAIN s, LAMBDA a, b : \/ weight[a] > weight[b]
                                             \/ weight[a] = weight[b] /\ a < b))

\* The end of a load loop: similarity stops at top_k, causal and analogical
\* sort and truncate.
LoadDone(n) ==
  /\ call # Idle /\ call.phase = "running" /\ n \in DOMAIN call.job /\ call.job[n] = "loading"
  /\ \/ call.found[n] = <<>>
     \/ call.menu[n] = "similarity" /\ Len(call.loaded[n]) >= TopK
  /\ call' = [call EXCEPT !.job[n] = "done", !.found[n] = <<>>,
       !.loaded[n] = IF call.menu[n] \in {"causal", "analogical"}
                     THEN Truncate(Sorted(@, [k \in DOMAIN @ |-> @[k].relevance]), TopK)
                     ELSE @]
  /\ UNCHANGED <<stores, during, always, undone>>

\* compute_composite_score: relevance weighs most, then recency.
Score(r) == (MaxIds + 1) * r.relevance + r.memory.at

\* merge_and_rank.  First one result per id: the memory as the first strategy
\* loaded it, the best relevance.  Then one per text: HashMap::retain keeps
\* the copy it happens to visit first.
Results == UNION {{<<n, k>> : k \in DOMAIN call.loaded[n]} : n \in DOMAIN call.loaded}
Result(p) == call.loaded[p[1]][p[2]]
MergeById(ps) ==
  LET Of(i) == {p \in ps : Result(p).id = i}
      First(i) == CHOOSE p \in Of(i) : \A o \in Of(i) : p[1] < o[1] \/ (p[1] = o[1] /\ p[2] <= o[2])
  IN  {[id |-> i, memory |-> Result(First(i)).memory,
        relevance |-> Max({Result(p).relevance : p \in Of(i)})] : i \in {Result(p).id : p \in ps}}
\* Mutant: copies of a text all stay.
KeepAll(S) == {S}
OnePerText(S) ==
  {K \in SUBSET S : \A r \in S : Cardinality({q \in K : q.memory.text = r.memory.text}) = 1}
Ranked(S) == Truncate(Arranged(S, LAMBDA a, b : Score(a) > Score(b)), TopK)

\* reinforce_memories writes the records back as they were read, whatever
\* has become of them.
Reinforce(answer) ==
  LET last(i) == Max({k \in DOMAIN answer : answer[k].id = i})
      ids == {answer[k].id : k \in DOMAIN answer}
  IN /\ db' = [i \in Ids |-> IF i \in ids THEN answer[last(i)].memory ELSE db[i]]
     /\ undone' = undone \cup {i \in ids : db[i] # answer[last(i)].memory}

Answer(rs) ==
  /\ Reinforce(rs)
  /\ call' = [call EXCEPT !.phase = "answered", !.answer = rs]
  /\ UNCHANGED <<temporal, graph, vectors, assoc, assocKeys, created, writes,
                 during, always>>

Rank ==
  /\ call.kind = "recall" /\ call.phase = "running"
  /\ \A n \in DOMAIN call.job : call.job[n] \in {"done", "failed"}
  /\ \E K \in OnePerText(MergeById(Results)) : Answer(Ranked(K))

Return ==
  /\ call # Idle /\ call.phase \in {"answered", "failed"}
  /\ call' = Idle /\ during' = {} /\ always' = {}
  /\ UNCHANGED <<stores, undone>>

----------------------------------------------------------------------------
(* prime_for_tenant: recent memories of an entity first, then those most   *)
(* like a cue.  Both queries end, exclusively, at the time the call began. *)

TemporalLimit == PrimeMax \div 2
SimilarLimit == PrimeMax - TemporalLimit

\* now is the microsecond of the last creation or a later one.
Prime(t, e, now) ==
  /\ now \in {created, created + 1}
  /\ LET ids == QueryTemporal(e, now - Window, now, TRUE, TemporalLimit)
         c == NewCall("prime", t, e, <<"recent", "whole">>)
     IN Begin([c EXCEPT !.now = now, !.known = created, !.job[1] = "loading",
                        !.found[1] = [k \in DOMAIN ids |-> Hit(ids[k], k)]])

\* An embedding error ends the call.
PrimeScan(embeds) ==
  /\ call.kind = "prime" /\ call.phase = "running" /\ call.job = <<"done", "todo">>
  /\ IF embeds
     THEN LET ids == QueryTemporal(call.entity, 0, call.now, TRUE, MaxIds)
          IN SetJob(2, "loading", [k \in DOMAIN ids |-> Hit(ids[k], 0)])
     ELSE call' = [call EXCEPT !.phase = "failed"]
  /\ UNCHANGED <<stores, during, always, undone>>

\* Recent ones oldest first; then the rest by relevance, where the limit is
\* applied before those already given are left out.
PrimeRecent == Reverse(call.loaded[1])
PrimeSimilar ==
  LET scored == [k \in DOMAIN call.loaded[2] |->
                   [call.loaded[2][k] EXCEPT !.relevance = Near[call.loaded[2][k].memory.text]]]
      nearest == Truncate(Sorted(scored, [k \in DOMAIN scored |-> Score(scored[k])]), SimilarLimit)
      given == {PrimeRecent[k].id : k \in DOMAIN PrimeRecent}
  IN Picked(nearest, Ascending({k \in DOMAIN nearest : nearest[k].id \notin given}))

PrimeAnswer ==
  /\ call.kind = "prime" /\ call.phase = "running" /\ call.job = <<"done", "done">>
  /\ Answer(PrimeRecent \o PrimeSimilar)

----------------------------------------------------------------------------
(* Listings.  None of them reinforces. *)

\* list_by_entity: the oldest of an entity.  batch_get: ids as given.
List(t, e) ==
  LET ids == QueryTemporal(e, 0, MaxIds + 1, FALSE, TopK)
  IN Begin([NewCall("list", t, e, <<"oldest">>) EXCEPT
              !.job[1] = "loading", !.found[1] = [k \in DOMAIN ids |-> Hit(ids[k], k)]])
Batch(t, ids) ==
  Begin([NewCall("list", t, None, <<"given">>) EXCEPT
           !.job[1] = "loading", !.found[1] = [k \in DOMAIN ids |-> Hit(ids[k], k)]])

Listed ==
  /\ call.kind = "list" /\ call.phase = "running" /\ call.job = <<"done">>
  /\ call' = [call EXCEPT !.phase = "answered", !.answer = call.loaded[1]]
  /\ UNCHANGED <<stores, during, always, undone>>

Page(t, e) == Begin(NewCall("page", t, e, <<>>))
\* Mutant: the cursor's own memory is on the next page too.
PageAgain(limit) ==
  LET rest == {i \in Ids : i >= call.cursor /\ Matches(Load(call.tenant, i))}
      page == Truncate(Ascending(rest), limit)
      rows == [k \in DOMAIN page |-> [id |-> page[k], memory |-> db[page[k]], relevance |-> 0]]
  IN /\ call.kind = "page" /\ call.phase = "running" /\ Len(call.answer) < MaxIds + 1
     /\ call' = [call EXCEPT !.answer = @ \o rows,
                   !.cursor = IF page = <<>> THEN @ ELSE Last(page),
                   !.phase = IF Len(page) < limit THEN "answered" ELSE @]
     /\ UNCHANGED <<stores, during, always, undone>>

\* list_memories: one page is one scan, past the cursor.  The caller asks on
\* with the last id it got until a page is short.
NextPage(limit) ==
  LET rest == {i \in Ids : i > call.cursor /\ Matches(Load(call.tenant, i))}
      page == Truncate(Ascending(rest), limit)
      rows == [k \in DOMAIN page |-> [id |-> page[k], memory |-> db[page[k]], relevance |-> 0]]
  IN /\ call.kind = "page" /\ call.phase = "running"
     /\ call' = [call EXCEPT !.answer = @ \o rows,
                   !.cursor = IF page = <<>> THEN @ ELSE Last(page),
                   !.phase = IF Len(page) < limit THEN "answered" ELSE @]
     /\ UNCHANGED <<stores, during, always, undone>>

----------------------------------------------------------------------------
Write ==
  \/ \E d \in Drafts : Remember(d)
  \/ \E i \in Ids, d \in Drafts : Revise(i, d)
  \/ \E t \in Tenants, i \in Ids : Forget(t, i)
  \/ Restart

Ask ==
  \/ \E t \in Tenants, e \in Entities \cup {None}, menu \in Menus, embeds, pair \in BOOLEAN,
        seed \in Ids \cup {None} :
       Recall(t, e, menu, embeds, seed, pair)
  \/ \E t \in Tenants, e \in Entities, now \in 1 .. MaxIds + 1 : Prime(t, e, now)
  \/ \E t \in Tenants, e \in Entities : List(t, e)
  \/ \E t \in Tenants : Batch(t, Reverse([i \in Ids |-> i]))
  \/ \E t \in Tenants, e \in Entities \cup {None} : Page(t, e)

Reading ==
  \/ \E n \in DOMAIN call.job : Search(n) \/ LoadHit(n) \/ LoadDone(n)
  \/ Rank \/ (\E embeds \in BOOLEAN : PrimeScan(embeds)) \/ PrimeAnswer \/ Listed
  \/ \E limit \in {1, TopK} : NextPage(limit)

Next == Write \/ Ask \/ (call # Idle /\ Reading) \/ Return
Spec == Init /\ [][Next]_vars

----------------------------------------------------------------------------
(* Properties. *)

Answered(kinds) == call # Idle /\ call.phase = "answered" /\ call.kind \in kinds
AnswerIds == {call.answer[k].id : k \in DOMAIN call.answer}

\* What a call returns is the caller's, in a form it really had at some
\* moment of the call, and was the entity's at some moment of it, however the
\* shared indexes and the writers move under the steps of the call.  (Where a
\* recall's write-back undid a revision, the index keeps the revised entity.)
AnswerWasTrue ==
  Answered({"recall", "prime", "list", "page"}) =>
    \A k \in DOMAIN call.answer :
      LET r == call.answer[k]
      IN /\ r.memory.tenant = call.tenant
         /\ <<r.id, r.memory>> \in during
         /\ call.entity # None /\ r.id \notin undone =>
              \E v \in during : v[1] = r.id /\ v[2].entity = call.entity

\* The answer of a recall is what the merge comment of the code promises of
\* several strategies that saw several states: no memory and no text twice,
\* best first, and a hit is missing only for better ones or for a copy of it.
AnswerRanked ==
  Answered({"recall"}) =>
    LET a == call.answer
    IN /\ Len(a) <= TopK
       /\ \A j, k \in DOMAIN a : j < k =>
            /\ a[j].id # a[k].id /\ a[j].memory.text # a[k].memory.text
            /\ Score(a[j]) >= Score(a[k])
       /\ \A r \in MergeById(Results) :
            \/ r.id \in AnswerIds
            \/ \E q \in MergeById(Results) : q.id # r.id /\ q.memory.text = r.memory.text
            \/ Len(a) = TopK /\ Score(r) <= Score(a[TopK])

\* What is returned is true, and it is what should be.
AnswersTrue == AnswerWasTrue /\ AnswerRanked

\* Prime, for Default: nothing twice, recent memories oldest first, and one
\* of the window that was the entity's all along is left out of an answer only
\* for a full share of newer ones.
PrimeNewest ==
  Answered({"prime"}) /\ call.tenant = Default =>
    /\ IsInjective([k \in DOMAIN call.answer |-> call.answer[k].id])
    /\ \A j, k \in DOMAIN PrimeRecent : j < k => PrimeRecent[j].memory.at < PrimeRecent[k].memory.at
    /\ \A i \in always :
         /\ db[i].tenant = Default /\ db[i].entity = call.entity /\ ~Snapshot(i)
         /\ call.now - Window <= i /\ i < call.now
         /\ i \notin undone
         => \/ \E k \in DOMAIN PrimeRecent : PrimeRecent[k].id = i
            \/ Cardinality({j \in Ids : /\ i < j /\ j < call.now
                                        /\ \/ j \in undone
                                           \/ \E v \in during : v[1] = j /\ v[2].entity = call.entity})
                 >= TemporalLimit

\* Pages read while others write: every memory that matched from the first
\* page to the last is on exactly one of them.
PagesComplete ==
  Answered({"page"}) =>
    /\ IsInjective([k \in DOMAIN call.answer |-> call.answer[k].id])
    /\ {i \in always : Matches(Load(call.tenant, i))} \subseteq AnswerIds

\* engine.rs:3090: "if two memories have identical content, keep the one with
\* the highest relevance".  Which copy a HashMap visits first says nothing of
\* its relevance: the weaker one may be kept (README, section 4).
BestCopyKept ==
  Answered({"recall"}) =>
    \A k \in DOMAIN call.answer : \A q \in MergeById(Results) :
      q.memory.text = call.answer[k].memory.text => q.relevance <= call.answer[k].relevance
============================================================================
