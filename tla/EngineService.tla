--------------------------- MODULE EngineService ----------------------------
(***************************************************************************)
(* The engine seen as a MemoryService: a memory's past is its snapshots in *)
(* the order of their ULIDs, and an operation takes effect at its          *)
(* WriteBatch.                                                             *)
(***************************************************************************)
EXTENDS Engine, Sequences

\* No entry of the book is the constant that stands for none.
ASSUME EntryAssumption == None \notin [text : Texts, past : Seq(Texts)]

\* The snapshots of i, oldest first.
Lineage(i) ==
  LET S == {j \in Live : <<i, "revised_from", j>> \in fwd}
  IN  [n \in 1 .. Cardinality(S) |->
         CHOOSE j \in S : Cardinality({k \in S : k < j}) = n - 1]

Book == [i \in Ids |->
           IF i \in Primaries
           THEN [text |-> mem[i].text,
                 past |-> [n \in DOMAIN Lineage(i) |-> mem[Lineage(i)[n]].text]]
           ELSE None]

Service == INSTANCE MemoryService
             WITH book <- Book, gone <- {i \in doomed : mem[i] = None}

\* For one client at a time, whatever writes fail and wherever it crashes,
\* the engine implements the service: every operation takes effect at once or
\* not at all, a revision keeps the newest MaxSnaps past contents in order, and
\* no forgotten memory comes back.
ImplementsService == Service!Spec
=============================================================================
