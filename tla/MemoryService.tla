--------------------------- MODULE MemoryService ----------------------------
(***************************************************************************)
(* What the engine promises a client, each operation one step: a book of   *)
(* memories with stable ids, each with its present content and its past    *)
(* contents, oldest first, of which at most MaxSnaps are kept; a memory    *)
(* that was forgotten does not come back.                                  *)
(***************************************************************************)
EXTENDS Integers, Sequences

CONSTANTS Ids, Texts, MaxSnaps, None

VARIABLES book,  \* id |-> [text, past], or None
          gone   \* ids that were forgotten

vars == <<book, gone>>

Entry == [text : Texts, past : Seq(Texts)]

Init ==
  /\ book \in [Ids -> {None} \cup [text : Texts, past : {<<>>}]]
  /\ gone = {}

Remember(i) ==
  /\ book[i] = None /\ i \notin gone
  /\ \E t \in Texts : book' = [book EXCEPT ![i] = [text |-> t, past |-> <<>>]]
  /\ UNCHANGED gone

Retained(past) ==
  IF MaxSnaps > 0 /\ Len(past) > MaxSnaps
  THEN SubSeq(past, Len(past) - MaxSnaps + 1, Len(past)) ELSE past

Revise(i) ==
  /\ book[i] # None
  /\ \E t \in Texts :
       book' = [book EXCEPT ![i] =
                 [text |-> t, past |-> Retained(Append(book[i].past, book[i].text))]]
  /\ UNCHANGED gone

Forget(S) ==
  /\ S # {} /\ \A i \in S : book[i] # None
  /\ book' = [i \in Ids |-> IF i \in S THEN None ELSE book[i]]
  /\ gone' = gone \cup S

Next == \/ \E i \in Ids : Remember(i) \/ Revise(i)
        \/ \E S \in SUBSET Ids : Forget(S)

Spec == Init /\ [][Next]_vars
=============================================================================
