--------------------------- MODULE Contradiction ---------------------------
(***************************************************************************)
(* Contradiction detection in hebbs-core: a check classifies a memory's     *)
(* neighbours, either with a language model, which settles each pair at     *)
(* once, or with a heuristic, which leaves pending records; a commit of     *)
(* reviewed verdicts consumes those.  Checks, commits and forgets run       *)
(* concurrently: each reads first and writes one batch later.              *)
(***************************************************************************)
EXTENDS Naturals, FiniteSets

CONSTANTS
  Memories,
  PendingIds,
  Reviewers,     \* calls in progress: of check, of commit, of forget
  MaxVerdicts    \* verdicts in one commit

ASSUME ContradictionConstants == MaxVerdicts \in Nat

VARIABLES
  stored,     \* memories in the store
  edge,       \* graph edges <<from, type, to>>; one stands for both of its keys
  pending,    \* pending records in the store: <<id, a, b>>
  review,     \* what each call is doing
  \* history, read by the properties only
  flagged,    \* records that checks have made
  judged,     \* records a completed commit passed a verdict on
  confirmed,  \* pairs a completed check or commit called a contradiction
  named       \* memories a completed delete or forget was asked for

reviewVars == <<stored, edge, pending, review, flagged, judged, confirmed, named>>

Quiet == [pc |-> "idle"]
Verdicts == {"contradiction", "revision", "dismiss"}

ReviewInit ==
  /\ stored = Memories /\ edge = {} /\ pending = {} /\ review = [c \in Reviewers |-> Quiet]
  /\ flagged = {} /\ judged = {} /\ confirmed = {} /\ named = {}

\* B supersedes A in a revision; a contradiction goes both ways.
OneDirection(a, b, verdict) ==                  \* mutant: one direction of the pair
  CASE verdict = "contradiction" -> {<<a, "contradicts", b>>}
    [] verdict = "revision"      -> {<<b, "revised_from", a>>}
    [] OTHER                     -> {}
EdgesFor(a, b, verdict) ==
  CASE verdict = "contradiction" -> {<<a, "contradicts", b>>, <<b, "contradicts", a>>}
    [] verdict = "revision"      -> {<<b, "revised_from", a>>}
    [] OTHER                     -> {}

-----------------------------------------------------------------------------
(* Check: detect                                                           *)

\* Targets of the memory's own edges are left alone; those of the other
\* direction are not looked at.
Classified(m) == {b \in Memories : \E ty \in {"contradicts", "revised_from"} : <<m, ty, b>> \in edge}

\* The search may come back with any of the memories; one that is gone is skipped,
\* and so, in effect, is one classified as neither or with too little confidence.
StartCheck(c, m, llm) ==
  /\ review[c] = Quiet /\ m \in stored
  /\ \E near \in SUBSET (stored \ ({m} \cup Classified(m))) :
     \E verdict \in [near -> IF llm THEN {"contradiction", "revision"} ELSE {"contradiction"}] :
       review' = [review EXCEPT ![c] =
         [pc |-> IF llm THEN "settle" ELSE "flag", of |-> m, verdict |-> verdict]]
  /\ UNCHANGED <<stored, edge, pending, flagged, judged, confirmed, named>>

\* With a language model the edges are written at once.
Settle(c) ==
  /\ review[c].pc = "settle"
  /\ LET m == review[c].of
         v == review[c].verdict
     IN  /\ edge' = edge \cup UNION {EdgesFor(m, b, v[b]) : b \in DOMAIN v}
         /\ confirmed' = confirmed \cup
              {{m, b} : b \in {x \in DOMAIN v : v[x] = "contradiction"}}
  /\ review' = [review EXCEPT ![c] = Quiet]
  /\ UNCHANGED <<stored, pending, flagged, judged, named>>

\* Without one, each likely contradiction becomes a record of its own.
Flag(c) ==
  /\ review[c].pc = "flag"
  /\ LET hit == DOMAIN review[c].verdict
     IN  \E id \in [hit -> PendingIds \ {p[1] : p \in flagged}] :
           LET new == {<<id[b], review[c].of, b>> : b \in hit}
           IN  /\ \A x, y \in hit : id[x] = id[y] => x = y
               /\ pending' = pending \cup new /\ flagged' = flagged \cup new
  /\ review' = [review EXCEPT ![c] = Quiet]
  /\ UNCHANGED <<stored, edge, judged, confirmed, named>>

-----------------------------------------------------------------------------
(* Commit: the reviewed verdicts                                           *)

\* Every verdict is looked up before anything is written.  An id that is no
\* longer pending fails the call, whatever the others say.
ReadVerdictsEager(c, given) ==            \* mutant: records go as they are read
  /\ review[c] = Quiet /\ given # {} /\ Cardinality(given) <= MaxVerdicts
  /\ IF {g[1] : g \in given} \subseteq {p[1] : p \in pending}
     THEN /\ review' = [review EXCEPT ![c] = [pc |-> "apply",
               found |-> {f \in pending \X Verdicts : <<f[1][1], f[2]>> \in given}]]
          /\ UNCHANGED pending
     ELSE /\ UNCHANGED review
          /\ pending' = {p \in pending : p[1] \notin {g[1] : g \in given}}
  /\ UNCHANGED <<stored, edge, flagged, judged, confirmed, named>>
ReadVerdicts(c, given) ==
  /\ review[c] = Quiet /\ given # {} /\ Cardinality(given) <= MaxVerdicts
  /\ {g[1] : g \in given} \subseteq {p[1] : p \in pending}
  /\ review' = [review EXCEPT ![c] = [pc |-> "apply",
       found |-> {f \in pending \X Verdicts : <<f[1][1], f[2]>> \in given}]]
  /\ UNCHANGED <<stored, edge, pending, flagged, judged, confirmed, named>>

\* One batch: the records read go, the edges come, whether or not the memories
\* are still there.
ApplyVerdicts(c) ==
  /\ review[c].pc = "apply"
  /\ LET found == review[c].found
     IN  /\ pending' = pending \ {f[1] : f \in found}
         /\ edge' = edge \cup UNION {EdgesFor(f[1][2], f[1][3], f[2]) : f \in found}
         /\ judged' = judged \cup {f[1] : f \in found}
         /\ confirmed' = confirmed \cup
              {{f[1][2], f[1][3]} : f \in {x \in found : x[2] = "contradiction"}}
  /\ review' = [review EXCEPT ![c] = Quiet]
  /\ UNCHANGED <<stored, flagged, named>>

-----------------------------------------------------------------------------
(* Delete and forget: edges are scanned, outgoing then incoming, before the batch *)

Touching(m) == {e \in edge : m \in {e[1], e[3]}}
\* find_revision_snapshots: what a memory was revised from, if nothing but
\* revisions leads there.  No memory of this module is a snapshot.
Predecessors(m) ==
  {b \in Memories : /\ <<m, "revised_from", b>> \in edge
                    /\ \A e \in edge : e[3] = b => e[2] = "revised_from"}

StartForget(c, m, cascades) ==
  /\ review[c] = Quiet /\ m \in stored
  /\ review' = [review EXCEPT ![c] =
       [pc |-> "scan", of |-> m, cascades |-> cascades, hit |-> {e \in edge : e[1] = m}]]
  /\ UNCHANGED <<stored, edge, pending, flagged, judged, confirmed, named>>
ScanIncoming(c) ==
  /\ review[c].pc = "scan"
  /\ review' = [review EXCEPT ![c] =
       [pc |-> IF review[c].cascades THEN "cascade" ELSE "delete", of |-> review[c].of,
        goes |-> {review[c].of},
        hit |-> review[c].hit \cup {e \in edge : e[3] = review[c].of}]]
  /\ UNCHANGED <<stored, edge, pending, flagged, judged, confirmed, named>>
\* Forget, and not delete, takes the predecessors along.
Cascade(c) ==
  /\ review[c].pc = "cascade"
  /\ LET more == Predecessors(review[c].of) \cap stored
     IN  review' = [review EXCEPT ![c] =
           [pc |-> "delete", of |-> review[c].of, goes |-> {review[c].of} \cup more,
            hit |-> review[c].hit \cup UNION {Touching(b) : b \in more}]]
  /\ UNCHANGED <<stored, edge, pending, flagged, judged, confirmed, named>>
DeleteBatch(c) ==
  /\ review[c].pc = "delete"
  /\ stored' = stored \ review[c].goes /\ edge' = edge \ review[c].hit
  /\ named' = named \cup {review[c].of}
  /\ review' = [review EXCEPT ![c] = Quiet]
  /\ UNCHANGED <<pending, flagged, judged, confirmed>>

ReviewNext ==
  \E c \in Reviewers :
    \/ \E m \in Memories : \/ \E llm \in BOOLEAN : StartCheck(c, m, llm)
                           \/ \E cascades \in BOOLEAN : StartForget(c, m, cascades)
    \/ Settle(c) \/ Flag(c) \/ ApplyVerdicts(c) \/ ScanIncoming(c) \/ Cascade(c) \/ DeleteBatch(c)
    \/ \E given \in SUBSET (PendingIds \X Verdicts) : ReadVerdicts(c, given)

ReviewSpec == ReviewInit /\ [][ReviewNext]_reviewVars

-----------------------------------------------------------------------------
(* Properties                                                              *)

\* A contradiction that a check or a commit confirmed is linked both ways for as
\* long as both memories are stored, whatever is forgotten or judged meanwhile.
ConfirmedLinked ==
  \A a, b \in stored : {a, b} \in confirmed =>
    {<<a, "contradicts", b>>, <<b, "contradicts", a>>} \subseteq edge

\* A pair the heuristic flagged is never lost: its record is pending until a commit
\* that went through has judged it, even when commits overlap or fail.
FlaggedAccounted == flagged \subseteq judged \cup pending

\* Only what a delete or forget names, and its snapshots, leaves the store.
OnlyNamedForgotten == Memories \ stored \subseteq named
=============================================================================
