----------------------------- MODULE VaultProofs -----------------------------
(***************************************************************************)
(* What a vault's manifest says is true, for any files, any texts and any  *)
(* number of index commands: proofs of SyncedRepresented and SettledCurrent*)
(* of Vault.tla.                                                           *)
(*                                                                         *)
(* SyncedRepresented.  Several writers hold copies of the manifest: the    *)
(* loop, its runs, the index commands, the file itself.  A copy may be     *)
(* written back long after it was read, and an extraction deletes the      *)
(* memories its own copy names.  The invariant therefore speaks of every   *)
(* copy: a synced section is shown by a memory that no copy with stale     *)
(* sections still names, and so that no extraction will delete (Backed),   *)
(* or by an extraction of its text that found nothing to store.            *)
(*                                                                         *)
(* SettledCurrent.  A file that is not excused is accounted for: its last  *)
(* change is still to be received, or received and filed for phase 1, or   *)
(* in the manifest (Accounted).  A run keeps what its own manifest says of *)
(* a file's text and sections, so that what it writes over an unchanged    *)
(* entry is as current as the entry was (Faithful).                        *)
(*                                                                         *)
(* The module ends with PinsShown of Panel.tla, which shares nothing with  *)
(* Vault.tla: a request that has yet to write either is late, or speaks of *)
(* the vault that is active and of what its pins are now (OnTime).         *)
(***************************************************************************)
EXTENDS Vault, Panel, TLAPS

States == {"stale", "synced", "orphaned"}

\* An entry of a manifest: no section that is not orphaned is missing from the text.
IsEntry(e) ==
  \/ e = NoEntry
  \/ /\ e = [sum |-> e.sum, doc |-> e.doc, props |-> e.props, sec |-> e.sec]
     /\ e.sum \in Texts /\ e.sec = [h \in DOMAIN e.sec |-> e.sec[h]]
     /\ Live(e) \subseteq DOMAIN e.sum
IsManifest(man) == man = [f \in Files |-> man[f]] /\ \A f \in Files : IsEntry(man[f])

IsRun(p) ==
  \/ p = Resting
  \/ p = [pc |-> "load", n |-> p.n, man |-> p.man]
  \/ p = [pc |-> "parsed", n |-> p.n, man |-> p.man, base |-> p.base] /\ p.base = p.man
  \/ /\ p = [pc |-> "extract", n |-> p.n, man |-> p.man, base |-> p.base, todo |-> p.todo,
             text |-> p.text, bare |-> p.bare, gone |-> p.gone]
     /\ IsManifest(p.base) /\ p.todo \subseteq Files

\* The state is well formed, and so are the copies of the manifest.
TypeInv ==
  /\ disk \in [Files -> Texts \cup {Gone}]
  /\ events \in [Files -> Seq({"write", "access", "remove"})]
  /\ IsManifest(saved)
  /\ DOMAIN watch = {"caught", "creates", "deletes", "armed", "stale", "copy"}
  /\ IsManifest(watch.copy)
  /\ (~watch.caught => watch.creates = {} /\ watch.deletes = {})
  /\ run = [r \in Runners |-> run[r]] /\ runs \in Nat
  /\ \A r \in Runners :
       IsRun(run[r]) /\ (run[r] # Resting => IsManifest(run[r].man) /\ run[r].n \in Nat /\ run[r].n < runs)

-----------------------------------------------------------------------------
(* SyncedRepresented                                                       *)

Busy == {r \in Runners : run[r] # Resting}
\* Every manifest that is kept anywhere.
Copies == {saved, watch.copy} \cup {run[r].man : r \in Busy}
Stale(e) == In(e, "stale")

\* An extraction of an entry with stale sections deletes the memory it names.
Doomed(m) == \E man \in Copies : \E f \in Files : Stale(man[f]) # {} /\ man[f].doc = m
Shows(m, f, body) == m.of = f /\ body \in Bodies(m.from)
\* A body of a file is shown by a memory that will stay, or by an extraction that
\* found nothing to store.
Shown(f, body) ==
  \/ \E m \in store : Shows(m, f, body) /\ ~Doomed(m)
  \/ \E m \in found : Shows(m, f, body)
Backed(f, e) == \A h \in In(e, "synced") : e.sum[h] # Blank => Shown(f, e.sum[h])
AllBacked == \A man \in Copies : \A f \in Files \ torn : Backed(f, man[f])

\* An entry with stale sections names no propositions.
NoneKept == \A man \in Copies : \A f \in Files : Stale(man[f]) # {} => man[f].props = {}

\* Runs have different numbers, and a memory that carries the number of a run is of
\* a file that run has done.
Counted(m) ==
  /\ m.made \in Nat /\ m.made < runs
  /\ \A r \in Busy : m.made = run[r].n => run[r].pc = "extract" /\ m.of \notin run[r].todo
Numbered ==
  /\ \A r, s \in Busy : run[r].n = run[s].n => r = s
  /\ NoDoc \notin store /\ \A m \in store : Counted(m)
  /\ \A man \in Copies : \A f \in Files :
       man[f] = NoEntry \/ man[f].doc = NoDoc \/ Counted(man[f].doc)

\* What a run takes up has stale sections, and was read as it was parsed; what it
\* found blank is.
Planned ==
  \A r \in Runners : run[r].pc = "extract" =>
    \A f \in Files :
      /\ f \in run[r].todo => Stale(run[r].man[f]) # {}
      /\ f \in run[r].todo \ torn => run[r].text[f] = run[r].man[f].sum
      /\ f \notin torn => \A h \in run[r].bare[f] : run[r].man[f].sum[h] = Blank

-----------------------------------------------------------------------------
(* SettledCurrent                                                          *)

Kind(f) == IF disk[f] = Gone THEN "remove" ELSE "write"
Quiet(s, k) == \A j \in k + 1 .. Len(s) : s[j] = "access"
\* The last change of f is still to be received.
Reported(f) == \E k \in 1 .. Len(events[f]) : events[f][k] = Kind(f) /\ Quiet(events[f], k)
\* It was received, and the next phase 1 will see it.
Filed(f) ==
  IF disk[f] = Gone THEN f \in watch.deletes ELSE f \in watch.creates /\ f \notin watch.deletes
Current(f, e) ==
  IF disk[f] = Gone THEN Live(e) = {} ELSE e.sum = disk[f] /\ Live(e) = DOMAIN disk[f]
Accounted(f) ==
  \/ Reported(f)
  \/ Quiet(events[f], 0) /\ Filed(f)
  \/ Quiet(events[f], 0) /\ (disk[f] # Gone => f \notin watch.deletes) /\ Current(f, saved[f])
AllAccounted == \A f \in Files \ excused : Accounted(f)

\* A run changes neither the text of an entry nor its sections, orphans aside.
Alike(e, b, gone) ==
  /\ (e = NoEntry <=> b = NoEntry) /\ e.sum = b.sum /\ Live(e) = Live(b)
  /\ gone = In(e, "orphaned")
Faithful ==
  \A r \in Runners : run[r].pc = "extract" =>
    \A f \in Files : Alike(run[r].man[f], run[r].base[f], run[r].gone[f])

-----------------------------------------------------------------------------
(* Entries                                                                 *)

\* A file that is gone has no text.
LEMMA GoneIsNoText == Gone \notin Texts
<1>1. DOMAIN Gone = {}  BY DEF Gone
<1> QED  BY <1>1, TextsHaveSections

\* An entry made of a text is an entry and not the lack of one.
LEMMA MadeEntry ==
  ASSUME NEW t \in Texts, NEW d, NEW p, NEW s, s = [h \in DOMAIN s |-> s[h]],
         \A h \in DOMAIN s : s[h] # "orphaned" => h \in DOMAIN t,
         NEW e, e = [sum |-> t, doc |-> d, props |-> p, sec |-> s]
  PROVE  /\ IsEntry(e) /\ e # NoEntry
         /\ e.sum = t /\ e.doc = d /\ e.props = p /\ e.sec = s
<1>1. e.sum = t /\ e.doc = d /\ e.props = p /\ e.sec = s  OBVIOUS
<1>2. e # NoEntry  BY <1>1, GoneIsNoText DEF NoEntry
<1> QED  BY <1>1, <1>2 DEF IsEntry, Live

\* What the entry of a parsed text says: its sections are the text's, one that
\* counts as synced did so before with the same content, and no memory is named.
LEMMA ParsedEntry ==
  ASSUME NEW e, IsEntry(e), NEW text \in Texts
  PROVE  LET p == Parsed(e, text)
         IN  /\ IsEntry(p) /\ p # NoEntry /\ p.sum = text /\ p.doc = NoDoc /\ p.props = {}
             /\ Live(p) = DOMAIN text
             /\ \A h \in In(p, "synced") : h \in In(e, "synced") /\ e.sum[h] = text[h]
<1> DEFINE p == Parsed(e, text)
           s == [h \in DOMAIN text \cup Live(e) |->
              CASE h \notin DOMAIN text -> "orphaned"
                [] h \in DOMAIN text \cap Live(e) /\ e.sum[h] = text[h] -> e.sec[h]
                [] OTHER -> "stale"]
<1>1. p = [sum |-> text, doc |-> NoDoc, props |-> {}, sec |-> s]  BY DEF Parsed
<1>2. \A h \in DOMAIN s : s[h] # "orphaned" <=> h \in DOMAIN text
  BY DEF Live
<1>3. \A h \in DOMAIN s : s[h] = "synced" => h \in In(e, "synced") /\ e.sum[h] = text[h]
  BY DEF Live, In
<1>4. s = [h \in DOMAIN s |-> s[h]] /\ DOMAIN text \subseteq DOMAIN s  OBVIOUS
<1> HIDE DEF s, p
<1>5. /\ IsEntry(p) /\ p # NoEntry
      /\ p.sum = text /\ p.doc = NoDoc /\ p.props = {} /\ p.sec = s
  BY <1>1, <1>2, <1>4, MadeEntry
<1>6. Live(p) = DOMAIN text  BY <1>2, <1>4, <1>5 DEF Live
<1>7. \A h \in In(p, "synced") : h \in In(e, "synced") /\ e.sum[h] = text[h]
  BY <1>3, <1>5 DEF In
<1> QED  BY <1>5, <1>6, <1>7 DEF p

\* An entry that comes of another: it names the same memory or none, nothing if it
\* is newly stale, and what it calls synced the other did.
Comes(e2, e, sure) ==
  /\ e2 # NoEntry => e2.doc = NoDoc \/ (e # NoEntry /\ e2.doc = e.doc)
  /\ Stale(e2) # {} => \/ e2.props = {} /\ e2.doc = NoDoc
                       \/ Stale(e) # {} /\ e2.props = e.props
  /\ sure => \A h \in In(e2, "synced") :
       e2.sum[h] # Blank => \E g \in In(e, "synced") : e.sum[g] = e2.sum[h]

\* The empty entry, the entry itself and what comes of what comes of it do.
LEMMA ComesNone == ASSUME NEW e, NEW b PROVE Comes(NoEntry, e, b) /\ Comes(e, e, b)
BY DEF Comes, In, Stale

\* What comes from an entry that comes from another comes from that one.
LEMMA ComesTwice ==
  ASSUME NEW a, NEW b, NEW c, NEW sure, Comes(c, b, TRUE), Comes(b, a, sure) PROVE Comes(c, a, sure)
<1>1. c # NoEntry => c.doc = NoDoc \/ (a # NoEntry /\ c.doc = a.doc)  BY DEF Comes
<1>2. Stale(c) # {} => \/ c.props = {} /\ c.doc = NoDoc
                       \/ Stale(a) # {} /\ c.props = a.props
  <2> SUFFICES ASSUME Stale(c) # {}, ~(c.props = {} /\ c.doc = NoDoc)
               PROVE  Stale(a) # {} /\ c.props = a.props
    OBVIOUS
  <2>1. Stale(b) # {} /\ c.props = b.props  BY DEF Comes
  <2>2. b # NoEntry /\ c # NoEntry  BY <2>1 DEF Stale, In
  <2>3. c.doc = NoDoc \/ c.doc = b.doc  BY <2>2 DEF Comes
  <2> QED  BY <2>1, <2>3 DEF Comes
<1>3. sure => \A h \in In(c, "synced") :
       c.sum[h] # Blank => \E g \in In(a, "synced") : a.sum[g] = c.sum[h]
  BY DEF Comes
<1> QED  BY <1>1, <1>2, <1>3 DEF Comes

\* Phase 1 over a manifest: every entry is one, comes of what it was, and describes
\* its file if the file is there, was looked at and is not a restored one.
LEMMA Phase1Entries ==
  ASSUME NEW man, IsManifest(man), NEW paths, disk \in [Files -> Texts \cup {Gone}]
  PROVE  LET new == Phase1(man, paths)
         IN  /\ IsManifest(new)
             /\ \A f \in Files :
                  /\ Comes(new[f], man[f], TRUE)
                  /\ f \notin paths \/ disk[f] = Gone => new[f] = man[f]
                  /\ f \notin Restored(man, paths) /\ Current(f, man[f]) => Current(f, new[f])
                  /\ f \in paths \ Restored(man, paths) /\ disk[f] # Gone => Current(f, new[f])
<1> DEFINE new == Phase1(man, paths)
<1>1. new = [f \in Files |-> IF f \in paths \cap Changed(man) THEN Parsed(man[f], disk[f]) ELSE man[f]]
  BY DEF Phase1
<1>2. ASSUME NEW f \in Files, f \in paths \cap Changed(man)
      PROVE  /\ IsEntry(new[f]) /\ new[f] # NoEntry /\ new[f].sum = disk[f] /\ new[f].doc = NoDoc
             /\ new[f].props = {} /\ Live(new[f]) = DOMAIN disk[f] /\ disk[f] # Gone
             /\ \A h \in In(new[f], "synced") : h \in In(man[f], "synced") /\ man[f].sum[h] = disk[f][h]
  <2>1. disk[f] \in Texts /\ disk[f] # Gone  BY <1>2, GoneIsNoText DEF Changed, Present
  <2>2. new[f] = Parsed(man[f], disk[f])  BY <1>1, <1>2
  <2> QED  BY <2>1, <2>2, ParsedEntry DEF IsManifest
<1>3. \A f \in Files : f \notin paths \cap Changed(man) => new[f] = man[f]  BY <1>1
<1>4. new = [f \in Files |-> new[f]]  BY <1>1
<1> HIDE DEF new
<1>5. IsManifest(new)
  BY <1>2, <1>3, <1>4 DEF IsManifest
<1>6. ASSUME NEW f \in Files PROVE Comes(new[f], man[f], TRUE)
  <2>1. CASE f \in paths \cap Changed(man)  BY <1>2, <2>1 DEF Comes
  <2>2. CASE f \notin paths \cap Changed(man)  BY <1>3, <2>2, ComesNone
  <2> QED  BY <2>1, <2>2
<1>7. ASSUME NEW f \in Files, f \notin paths \/ disk[f] = Gone PROVE new[f] = man[f]
  BY <1>3, <1>7 DEF Changed, Present
<1>8. ASSUME NEW f \in Files, Current(f, man[f]) PROVE Current(f, new[f])
  <2>1. CASE f \in paths \cap Changed(man)  BY <1>2, <2>1 DEF Current
  <2>2. CASE f \notin paths \cap Changed(man)  BY <1>3, <1>8, <2>2
  <2> QED  BY <2>1, <2>2
<1>9. ASSUME NEW f \in Files, f \in paths \ Restored(man, paths), disk[f] # Gone
      PROVE  Current(f, new[f])
  <2>1. CASE f \in Changed(man)  BY <1>2, <1>9, <2>1 DEF Current
  <2>2. CASE f \notin Changed(man)
    <3>1. man[f].sum = disk[f] /\ Live(man[f]) = DOMAIN disk[f]
      BY <1>9, <2>2 DEF Changed, Present, Restored
    <3> QED  BY <1>3, <1>9, <2>2, <3>1 DEF Current
  <2> QED  BY <2>1, <2>2
<1> QED  BY <1>5, <1>6, <1>7, <1>8, <1>9 DEF new

\* Phase 1 of deleted files orphans their sections and leaves the other entries.
LEMMA DeletedEntries ==
  ASSUME NEW man, IsManifest(man), NEW paths
  PROVE  LET new == Phase1Delete(man, paths)
         IN  /\ IsManifest(new)
             /\ \A f \in Files :
                  /\ Comes(new[f], man[f], TRUE)
                  /\ f \in paths => Live(new[f]) = {}
                  /\ f \notin paths => new[f] = man[f]
<1> DEFINE new == Phase1Delete(man, paths)
<1>1. new = [f \in Files |-> IF f \in paths /\ man[f] # NoEntry
                   THEN [man[f] EXCEPT !.sec = [h \in DOMAIN man[f].sec |-> "orphaned"]]
                   ELSE man[f]]
  BY DEF Phase1Delete
<1>2. ASSUME NEW f \in Files, f \in paths, man[f] # NoEntry
      PROVE  IsEntry(new[f]) /\ Live(new[f]) = {} /\ Comes(new[f], man[f], TRUE)
  <2> DEFINE e == man[f]
             s == [h \in DOMAIN e.sec |-> "orphaned"]
  <2>1. IsEntry(e) /\ e # NoEntry  BY <1>2 DEF IsManifest
  <2>2. e = [sum |-> e.sum, doc |-> e.doc, props |-> e.props, sec |-> e.sec] /\ e.sum \in Texts
    BY <2>1 DEF IsEntry
  <2>3. new[f] = [e EXCEPT !.sec = s]  BY <1>1, <1>2
  <2>4. new[f] = [sum |-> e.sum, doc |-> e.doc, props |-> e.props, sec |-> s]  BY <2>2, <2>3
  <2>5. s = [h \in DOMAIN s |-> s[h]] /\ \A h \in DOMAIN s : s[h] = "orphaned"  OBVIOUS
  <2> HIDE DEF e, s
  <2>6. IsEntry(new[f]) /\ new[f] # NoEntry /\ new[f].doc = e.doc /\ new[f].sec = s
    BY <2>2, <2>4, <2>5, MadeEntry
  <2>7. Live(new[f]) = {} /\ In(new[f], "synced") = {} /\ Stale(new[f]) = {}
    BY <2>5, <2>6 DEF Live, In, Stale
  <2> QED  BY <2>1, <2>6, <2>7 DEF Comes, e
<1>3. \A f \in Files : ~(f \in paths /\ man[f] # NoEntry) => new[f] = man[f]  BY <1>1
<1>4. new = [f \in Files |-> new[f]]  BY <1>1
<1> HIDE DEF new
<1>5. IsManifest(new)  BY <1>2, <1>3, <1>4 DEF IsManifest
<1>6. \A f \in Files : Comes(new[f], man[f], TRUE)  BY <1>2, <1>3, ComesNone
<1>7. \A f \in Files : f \in paths => Live(new[f]) = {}  BY <1>2, <1>3 DEF Live
<1> QED  BY <1>3, <1>5, <1>6, <1>7 DEF new

-----------------------------------------------------------------------------
(* Runs                                                                    *)

ExtractOf(p) ==
  [pc |-> "extract", n |-> p.n, man |-> p.man, base |-> p.base, todo |-> p.todo,
   text |-> p.text, bare |-> p.bare, gone |-> p.gone]

\* A run with another plan and another manifest is otherwise the same run.
LEMMA ExtractChanged ==
  ASSUME NEW p, p = ExtractOf(p), NEW t, NEW m
  PROVE  [p EXCEPT !.todo = t, !.man = m] = ExtractOf([p EXCEPT !.todo = t, !.man = m])
<1> DEFINE q == [p EXCEPT !.todo = t, !.man = m]
           z == [pc |-> "extract", n |-> p.n, man |-> m, base |-> p.base, todo |-> t,
                 text |-> p.text, bare |-> p.bare, gone |-> p.gone]
<1>1. p = [pc |-> "extract", n |-> p.n, man |-> p.man, base |-> p.base, todo |-> p.todo,
           text |-> p.text, bare |-> p.bare, gone |-> p.gone]
  <2> HIDE DEF q, z
  <2> QED  BY DEF ExtractOf
<1>2. q = z
  <2>1. DOMAIN p = {"pc", "n", "man", "base", "todo", "text", "bare", "gone"}
    <3> HIDE DEF q, z
    <3> QED  BY <1>1
  <2>2. q = [x \in {"pc", "n", "man", "base", "todo", "text", "bare", "gone"} |-> q[x]]
    BY <2>1
  <2>3. /\ q.pc = p.pc /\ q.n = p.n /\ q.man = m /\ q.base = p.base /\ q.todo = t
        /\ q.text = p.text /\ q.bare = p.bare /\ q.gone = p.gone
    BY <2>1
  <2>4. p.pc = "extract"  BY <1>1
  <2> HIDE DEF q
  <2> QED  BY <2>2, <2>3, <2>4
<1>3. z = ExtractOf(z)  BY DEF ExtractOf
<1> QED  BY <1>2, <1>3

\* What a run is, by where it is.
LEMMA RunShape ==
  ASSUME TypeInv, NEW r \in Runners
  PROVE  /\ run[r] # Resting =>
              IsManifest(run[r].man) /\ run[r].n \in Nat /\ run[r].n < runs /\ run[r].pc # "idle"
         /\ run[r] = Resting => run[r].pc = "idle"
         /\ run[r].pc = "load" => run[r] = [pc |-> "load", n |-> run[r].n, man |-> run[r].man]
         /\ run[r].pc = "parsed" =>
              /\ run[r] = [pc |-> "parsed", n |-> run[r].n, man |-> run[r].man, base |-> run[r].base]
              /\ run[r].base = run[r].man
         /\ run[r].pc = "extract" =>
              run[r] = ExtractOf(run[r]) /\ IsManifest(run[r].base) /\ run[r].todo \subseteq Files
<1>1. IsRun(run[r])  BY DEF TypeInv
<1>2. CASE run[r] = Resting  BY <1>2 DEF Resting
<1>3. CASE run[r] = [pc |-> "load", n |-> run[r].n, man |-> run[r].man]
  <2>1. run[r].pc = "load"  BY <1>3
  <2>2. run[r] # Resting  BY <2>1 DEF Resting
  <2> QED  BY <1>3, <2>1, <2>2 DEF TypeInv
<1>4. CASE /\ run[r] = [pc |-> "parsed", n |-> run[r].n, man |-> run[r].man, base |-> run[r].base]
           /\ run[r].base = run[r].man
  <2>1. run[r].pc = "parsed"  BY <1>4
  <2>2. run[r] # Resting  BY <2>1 DEF Resting
  <2> QED  BY <1>4, <2>1, <2>2 DEF TypeInv
<1>5. CASE /\ run[r] = ExtractOf(run[r])
           /\ IsManifest(run[r].base) /\ run[r].todo \subseteq Files
  <2>1. run[r].pc = "extract"  BY <1>5 DEF ExtractOf
  <2>2. run[r] # Resting  BY <2>1 DEF Resting
  <2> QED  BY <1>5, <2>1, <2>2 DEF TypeInv
<1> QED  BY <1>1, <1>2, <1>3, <1>4, <1>5 DEF IsRun, ExtractOf

\* A run with what it plans.
RunBegins(r, n, man, base) ==
  /\ run' = [run EXCEPT ![r] = run'[r]]
  /\ run'[r] = ExtractOf(run'[r])
  /\ run'[r].n = n /\ run'[r].man = man /\ run'[r].base = base
  /\ run'[r].todo \subseteq Files /\ torn \subseteq torn'
  /\ \A f \in run'[r].todo :
       Stale(man[f]) # {} /\ (f \notin torn' => run'[r].text[f] = man[f].sum)
  /\ \A f \in Files :
       /\ f \notin torn' => \A h \in run'[r].bare[f] : man[f].sum[h] = Blank
       /\ run'[r].gone[f] = In(man[f], "orphaned")

\* What the beginning of phase 2 plans.
LEMMA Begun ==
  ASSUME TypeInv, NEW r \in Runners, NEW man, IsManifest(man), NEW n, NEW base, IsManifest(base),
         NEW unread, Phase2Begin(r, man, n, base, unread)
  PROVE  RunBegins(r, n, man, base)
<1> USE DEF Stale
<1>1. PICK blank \in SUBSET Changed(man) :
        LET Bare(f) == {h \in In(man[f], "stale") : f \in blank \/ man[f].sum[h] = Blank}
            todo == {f \in Present \ unread : In(man[f], "stale") \ Bare(f) # {}}
        IN  /\ run' = [run EXCEPT ![r] =
                 [pc |-> "extract", n |-> n, man |-> man, base |-> base, todo |-> todo,
                  text |-> [f \in todo |-> disk[f]],
                  bare |-> [f \in Files |-> IF f \in Present \ unread THEN Bare(f) ELSE {}],
                  gone |-> [f \in Files |-> In(man[f], "orphaned")]]]
            /\ torn' = torn \cup {f \in Changed(man) : In(man[f], "stale") # {}}
  BY DEF Phase2Begin
<1> DEFINE Bare(f) == {h \in In(man[f], "stale") : f \in blank \/ man[f].sum[h] = Blank}
           todo == {f \in Present \ unread : In(man[f], "stale") \ Bare(f) # {}}
           text == [f \in todo |-> disk[f]]
           bare == [f \in Files |-> IF f \in Present \ unread THEN Bare(f) ELSE {}]
           gone == [f \in Files |-> In(man[f], "orphaned")]
           p == [pc |-> "extract", n |-> n, man |-> man, base |-> base, todo |-> todo,
                 text |-> text, bare |-> bare, gone |-> gone]
<1>2. run' = [run EXCEPT ![r] = p] /\ torn' = torn \cup {f \in Changed(man) : In(man[f], "stale") # {}}
  BY <1>1
<1>3. todo \subseteq Present /\ Present \subseteq Files  BY DEF Present
<1>4. \A f \in todo : In(man[f], "stale") # {} /\ text[f] = disk[f]  OBVIOUS
<1>5. \A f \in Files \ torn' : \A h \in bare[f] : man[f].sum[h] = Blank
  BY <1>2
<1>6. \A f \in Files : gone[f] = In(man[f], "orphaned")  OBVIOUS
<1> HIDE DEF todo, text, bare, gone
<1>7. r \in DOMAIN run  BY DEF TypeInv
<1>8. run'[r] = p  BY <1>2, <1>7
<1>9. /\ p.n = n /\ p.man = man /\ p.base = base /\ p.todo = todo /\ p.text = text
      /\ p.bare = bare /\ p.gone = gone /\ p = ExtractOf(p)
  BY DEF ExtractOf
<1> HIDE DEF p
<1>10. \A f \in todo : f \notin torn' => text[f] = man[f].sum
  BY <1>2, <1>3, <1>4 DEF Changed
<1>11. run' = [run EXCEPT ![r] = run'[r]] /\ run'[r] = ExtractOf(run'[r])
  BY <1>2, <1>8, <1>9
<1>12. /\ run'[r].n = n /\ run'[r].man = man /\ run'[r].base = base /\ run'[r].todo = todo
       /\ run'[r].text = text /\ run'[r].bare = bare /\ run'[r].gone = gone
  BY <1>8, <1>9
<1>13. torn \subseteq torn' /\ todo \subseteq Files  BY <1>2, <1>3
<1> QED  BY <1>4, <1>5, <1>6, <1>10, <1>11, <1>12, <1>13 DEF RunBegins

\* A run goes on from file f, with another entry for it.
GoesOn(r, f, x) == run' = [run EXCEPT ![r].todo = @ \ {f}, ![r].man[f] = x]
Goes(r, f, x) == run' = [run EXCEPT ![r] = [run[r] EXCEPT !.todo = @ \ {f}, !.man = [@ EXCEPT ![f] = x]]]

\* It is the same run otherwise, and no other run changes.
LEMMA GoesOnMeans ==
  ASSUME run = [s \in Runners |-> run[s]], NEW r \in Runners, NEW f, NEW x, GoesOn(r, f, x)
  PROVE  Goes(r, f, x)
BY DEF GoesOn, Goes

\* What a run notes of a file it has done.
RunNotesOf(r, f, doc, props, ok) ==
  LET e == run[r].man[f]
      e2 == run'[r].man[f]
  IN  /\ run' = [run EXCEPT ![r] = run'[r]]
      /\ run'[r] = ExtractOf([run[r] EXCEPT !.todo = @ \ {f}, !.man = [@ EXCEPT ![f] = e2]])
      /\ IsEntry(e2) /\ e2 # NoEntry /\ e2.sum = e.sum /\ Live(e2) = Live(e)
      /\ In(e2, "orphaned") = In(e, "orphaned") /\ e2.doc = doc /\ e2.props = props
      /\ \/ ~ok /\ Stale(e2) # {} /\ In(e2, "synced") = In(e, "synced")
         \/ ok /\ Stale(e2) = {} /\ In(e2, "synced") = In(e, "synced") \cup Stale(e)

\* The entry of a file that run r has done: its text and sections are the same, the
\* stale sections count as synced if the extraction succeeded.
LEMMA RunNotes ==
  ASSUME TypeInv, NEW r \in Runners, NEW f \in Files, run[r].pc = "extract",
         Stale(run[r].man[f]) # {}, NEW doc, NEW props, NEW ok \in BOOLEAN,
         GoesOn(r, f, Noted(run[r].man[f], doc, props, ok))
  PROVE  RunNotesOf(r, f, doc, props, ok)
<1> DEFINE e == run[r].man[f]
           sec == SyncedIf(e, ok)
           x == [sum |-> e.sum, doc |-> doc, props |-> props, sec |-> sec]
<1>3. GoesOn(r, f, x)  BY DEF Noted
<1>4. IsEntry(e) /\ e # NoEntry
  BY RunShape DEF IsManifest, Stale, In, Resting
<1>5. e.sum \in Texts /\ Live(e) \subseteq DOMAIN e.sum /\ e.sec = [h \in DOMAIN e.sec |-> e.sec[h]]
  BY <1>4 DEF IsEntry
<1>6. /\ sec = [h \in DOMAIN sec |-> sec[h]] /\ DOMAIN sec = DOMAIN e.sec
      /\ \A h \in DOMAIN sec : sec[h] = IF e.sec[h] = "stale" /\ ok THEN "synced" ELSE e.sec[h]
  BY DEF SyncedIf
<1> HIDE DEF sec
<1>12. IsEntry(x) /\ x # NoEntry /\ x.sum = e.sum /\ x.doc = doc /\ x.props = props /\ x.sec = sec
  <2>1. \A h \in DOMAIN sec : sec[h] # "orphaned" => h \in DOMAIN e.sum
    BY <1>4, <1>5, <1>6 DEF Live
  <2> HIDE DEF e
  <2> QED  BY <1>5, <1>6, <2>1, MadeEntry
<1>13. Live(x) = Live(e) /\ In(x, "orphaned") = In(e, "orphaned")
  <2> HIDE DEF x, e
  <2> QED  BY <1>4, <1>6, <1>12 DEF Live, In
<1>14. \/ ~ok /\ Stale(x) = Stale(e) /\ In(x, "synced") = In(e, "synced")
       \/ ok /\ Stale(x) = {} /\ In(x, "synced") = In(e, "synced") \cup Stale(e)
  <2> HIDE DEF x, e
  <2> QED  BY <1>4, <1>6, <1>12 DEF In, Stale
<1>15. /\ run[r] = ExtractOf(run[r]) /\ IsManifest(run[r].man)
  BY RunShape DEF Resting
<1> DEFINE q == ExtractOf([run[r] EXCEPT !.todo = @ \ {f}, !.man = [@ EXCEPT ![f] = x]])
<1>16. run' = [run EXCEPT ![r] = q]
  <2>1. run' = [run EXCEPT ![r] = [run[r] EXCEPT !.todo = @ \ {f}, !.man = [@ EXCEPT ![f] = x]]]
    <3> HIDE DEF x
    <3>1. run = [s \in Runners |-> run[s]]  BY DEF TypeInv
    <3>2. Goes(r, f, x)  BY <1>3, <3>1, GoesOnMeans
    <3> QED  BY <3>2 DEF Goes
  <2>2. [run[r] EXCEPT !.todo = @ \ {f}, !.man = [@ EXCEPT ![f] = x]] = q
    <3> DEFINE a == [run[r] EXCEPT !.todo = @ \ {f}, !.man = [@ EXCEPT ![f] = x]]
    <3> HIDE DEF x
    <3>1. \A t, m : [run[r] EXCEPT !.todo = t, !.man = m]
                    = ExtractOf([run[r] EXCEPT !.todo = t, !.man = m])
      <4> DEFINE p == run[r]
      <4>1. p = ExtractOf(p)  BY <1>15
      <4> HIDE DEF p
      <4>2. \A t, m : [p EXCEPT !.todo = t, !.man = m] = ExtractOf([p EXCEPT !.todo = t, !.man = m])
        BY <4>1, ExtractChanged
      <4> QED  BY <4>2 DEF p
    <3>2. a = ExtractOf(a)  BY <3>1
    <3> QED  BY <3>2
  <2> QED  BY <2>1, <2>2
<1>17. run'[r] = q /\ run' = [run EXCEPT ![r] = run'[r]]
  <2> HIDE DEF q
  <2> QED  BY <1>16 DEF TypeInv
<1>18. q.man[f] = x
  <2>1. q.man = [run[r].man EXCEPT ![f] = x]
    <3> HIDE DEF x
    <3> QED  BY <1>15 DEF ExtractOf
  <2>2. f \in DOMAIN run[r].man  BY <1>15 DEF IsManifest
  <2> HIDE DEF q, x
  <2> QED  BY <2>1, <2>2
<1> HIDE DEF x, q
<1>19. run'[r].man[f] = x  BY <1>17, <1>18
<1>25. run'[r] = ExtractOf([run[r] EXCEPT !.todo = @ \ {f}, !.man = [@ EXCEPT ![f] = run'[r].man[f]]])
  BY <1>17, <1>19 DEF q
<1> QED  BY <1>12, <1>13, <1>14, <1>17, <1>19, <1>25 DEF RunNotesOf

\* A memory that run r makes of file f.
MadeBy(m, r, f) == m # NoDoc /\ m.of = f /\ m.made = run[r].n

\* What a run has done with a file.
RunExtracts(r, f) ==
  LET e == run[r].man[f]
      e2 == run'[r].man[f]
  IN  /\ run' = [run EXCEPT ![r] = run'[r]]
      /\ run'[r] = ExtractOf([run[r] EXCEPT !.todo = @ \ {f}, !.man = [@ EXCEPT ![f] = e2]])
      /\ IsEntry(e2) /\ e2 # NoEntry /\ e2.sum = e.sum /\ Live(e2) = Live(e)
      /\ In(e2, "orphaned") = In(e, "orphaned")
      /\ store \ {e.doc} \subseteq store' /\ found \subseteq found'
      /\ \A m \in store' : m \in store \/ MadeBy(m, r, f)
      /\ e2.doc = e.doc \/ MadeBy(e2.doc, r, f)
      /\ \/ Stale(e2) # {} /\ e2.props = {} /\ In(e2, "synced") = In(e, "synced")
         \/ /\ Stale(e2) = {} /\ In(e2, "synced") = In(e, "synced") \cup Stale(e)
            /\ \/ \E m \in store' : MadeBy(m, r, f) /\ m.from = run[r].text[f]
               \/ \E m \in found' : m.of = f /\ m.from = run[r].text[f]

\* What the extraction of a file leaves: the entry keeps its text and its sections,
\* the store loses at most the memory the entry named, and the stale sections count
\* as synced only if a memory of the run's text is stored or it had nothing to store.
LEMMA Extracted ==
  ASSUME TypeInv, NEW r \in Runners, NEW f \in Files, Extract(r, f),
         Stale(run[r].man[f]) # {}, run[r].man[f].props = {}
  PROVE  RunExtracts(r, f)
<1> DEFINE e == run[r].man[f]
           text == run[r].text[f]
           n == run[r].n
           doc == [kind |-> "doc", of |-> f, from |-> text, made |-> n]
           Prop(b) == [kind |-> "prop", of |-> f, from |-> text, says |-> b, made |-> n]
<1>0. run[r].pc = "extract"  BY DEF Extract
<1>a. Stores(r, f) \/ StoresNothing(r, f)  BY DEF Extract
<1>b. CASE StoresNothing(r, f)
  <2> DEFINE x == [of |-> f, from |-> text]
  <2>1. /\ store' = store \ {e.doc} /\ found' = found \cup {x}
        /\ run' = [run EXCEPT ![r].todo = @ \ {f}, ![r].man[f] = Noted(e, e.doc, {}, TRUE)]
    BY <1>b DEF StoresNothing
  <2>2. x \in found' /\ x.of = f /\ x.from = text  BY <2>1
  <2> HIDE DEF x
  <2> DEFINE d == e.doc
  <2>3. GoesOn(r, f, Noted(run[r].man[f], d, {}, TRUE))  BY <2>1 DEF GoesOn
  <2> HIDE DEF d
  <2>4. /\ run' = [run EXCEPT ![r] = run'[r]]
        /\ run'[r] = ExtractOf([run[r] EXCEPT !.todo = @ \ {f}, !.man = [@ EXCEPT ![f] = run'[r].man[f]]])
        /\ IsEntry(run'[r].man[f]) /\ run'[r].man[f] # NoEntry /\ run'[r].man[f].sum = run[r].man[f].sum
        /\ Live(run'[r].man[f]) = Live(run[r].man[f])
        /\ In(run'[r].man[f], "orphaned") = In(run[r].man[f], "orphaned") /\ run'[r].man[f].doc = d
        /\ Stale(run'[r].man[f]) = {}
        /\ In(run'[r].man[f], "synced") = In(run[r].man[f], "synced") \cup Stale(run[r].man[f])
    <3>1. RunNotesOf(r, f, d, {}, TRUE)  BY <1>0, <2>3, RunNotes
    <3> QED  BY <3>1 DEF RunNotesOf
  <2> QED  BY <2>1, <2>2, <2>4 DEF d, RunExtracts
<1>c. CASE Stores(r, f)
  <2>1. PICK docOk \in BOOLEAN, said \in SUBSET Bodies(text) :
        \E failed \in SUBSET said :
          LET kept == {m \in e.props : m.says \in said}
              new == {Prop(b) : b \in (said \ failed) \ {m.says : m \in kept}}
              props == kept \cup new
          IN  /\ store' = ((store \ ({e.doc} \cup (e.props \ kept))) \cup new)
                             \cup IF docOk THEN {doc} ELSE {}
              /\ run' = [run EXCEPT ![r].todo = @ \ {f},
                   ![r].man[f] = Noted(e, IF docOk THEN doc ELSE e.doc, props,
                                       props # {} \/ (docOk /\ failed = {}))]
              /\ found' = found
    BY <1>c DEF Stores
  <2>2. PICK failed \in SUBSET said :
          LET kept == {m \in e.props : m.says \in said}
              new == {Prop(b) : b \in (said \ failed) \ {m.says : m \in kept}}
              props == kept \cup new
          IN  /\ store' = ((store \ ({e.doc} \cup (e.props \ kept))) \cup new)
                             \cup IF docOk THEN {doc} ELSE {}
              /\ run' = [run EXCEPT ![r].todo = @ \ {f},
                   ![r].man[f] = Noted(e, IF docOk THEN doc ELSE e.doc, props,
                                       props # {} \/ (docOk /\ failed = {}))]
              /\ found' = found
    BY <2>1
  <2> DEFINE new == {Prop(b) : b \in said \ failed}
             ok == new # {} \/ (docOk /\ failed = {})
             named == IF docOk THEN doc ELSE e.doc
  <2>3. /\ store' = ((store \ {e.doc}) \cup new) \cup IF docOk THEN {doc} ELSE {}
        /\ run' = [run EXCEPT ![r].todo = @ \ {f}, ![r].man[f] = Noted(e, named, new, ok)]
        /\ found' = found
    <3> DEFINE kept == {m \in e.props : m.says \in said}
               says == {m.says : m \in kept}
               said2 == (said \ failed) \ says
               new2 == {Prop(b) : b \in said2}
               rest == store \ ({e.doc} \cup (e.props \ kept))
               props == kept \cup new2
    <3>1. kept = {}  OBVIOUS
    <3>2. said2 = said \ failed  BY <3>1
    <3>3. props = new
      <4> HIDE DEF said2, kept
      <4> QED  BY <3>1, <3>2
    <3>4. new2 = new  BY <3>1, <3>3
    <3>5. rest = store \ {e.doc}  BY <3>1
    <3>6. /\ store' = (rest \cup new2) \cup IF docOk THEN {doc} ELSE {}
          /\ run' = [run EXCEPT ![r].todo = @ \ {f},
                 ![r].man[f] = Noted(e, named, props, props # {} \/ (docOk /\ failed = {}))]
          /\ found' = found
      BY <2>2
    <3> HIDE DEF rest, new2, props, new
    <3> QED  BY <3>3, <3>4, <3>5, <3>6
  <2>4. doc # NoDoc /\ doc.of = f /\ doc.made = n /\ doc.from = text
    <3>1. doc.kind = "doc" /\ NoDoc.kind = "none"  BY DEF NoDoc
    <3> QED  BY <3>1
  <2>5. \A b : Prop(b) # NoDoc /\ Prop(b).of = f /\ Prop(b).made = n /\ Prop(b).from = text
    <3> TAKE b
    <3>1. Prop(b).kind = "prop" /\ NoDoc.kind = "none"  BY DEF NoDoc
    <3> QED  BY <3>1
  <2>6. \A m \in new : m # NoDoc /\ m.of = f /\ m.made = n /\ m.from = text
    BY <2>5
  <2>7. (ok => new # {} \/ docOk) /\ (~ok => new = {}) /\ ok \in BOOLEAN  OBVIOUS
  <2> HIDE DEF doc, Prop, new, ok
  <2>8. \A m \in store' : m \in store \/ MadeBy(m, r, f)
    BY <2>3, <2>4, <2>6 DEF MadeBy
  <2>9. store \ {e.doc} \subseteq store'  BY <2>3
  <2>10. named = e.doc \/ MadeBy(named, r, f)  BY <2>4 DEF MadeBy
  <2>11. ok => \E m \in store' : MadeBy(m, r, f) /\ m.from = text
    <3>1. CASE new # {}
      <4>1. PICK m \in new : TRUE  BY <3>1
      <4>2. m \in store' /\ m # NoDoc /\ m.of = f /\ m.made = n /\ m.from = text  BY <2>3, <2>6, <4>1
      <4> QED  BY <4>2 DEF MadeBy
    <3>2. CASE docOk
      <4>1. doc \in store'  BY <2>3, <3>2
      <4> QED  BY <2>4, <4>1 DEF MadeBy
    <3> QED  BY <2>7, <3>1, <3>2
  <2> DEFINE d == named
  <2>12. GoesOn(r, f, Noted(run[r].man[f], d, new, ok))  BY <2>3 DEF GoesOn
  <2> HIDE DEF d
  <2>13. /\ run' = [run EXCEPT ![r] = run'[r]]
         /\ run'[r] = ExtractOf([run[r] EXCEPT !.todo = @ \ {f}, !.man = [@ EXCEPT ![f] = run'[r].man[f]]])
         /\ IsEntry(run'[r].man[f]) /\ run'[r].man[f] # NoEntry /\ run'[r].man[f].sum = run[r].man[f].sum
         /\ Live(run'[r].man[f]) = Live(run[r].man[f])
         /\ In(run'[r].man[f], "orphaned") = In(run[r].man[f], "orphaned")
         /\ run'[r].man[f].doc = d /\ run'[r].man[f].props = new
         /\ \/ ~ok /\ Stale(run'[r].man[f]) # {} /\ In(run'[r].man[f], "synced") = In(run[r].man[f], "synced")
            \/ /\ ok /\ Stale(run'[r].man[f]) = {}
               /\ In(run'[r].man[f], "synced") = In(run[r].man[f], "synced") \cup Stale(run[r].man[f])
    <3>1. RunNotesOf(r, f, d, new, ok)  BY <1>0, <2>7, <2>12, RunNotes
    <3> QED  BY <3>1 DEF RunNotesOf
  <2> QED  BY <2>3, <2>7, <2>8, <2>9, <2>10, <2>11, <2>13 DEF d, RunExtracts
<1> QED  BY <1>a, <1>b, <1>c

\* What is written at the end of a run.
LEMMA SettledEntries ==
  ASSUME TypeInv, NEW r \in Runners, run[r].pc = "extract"
  PROVE  LET p == run[r]
             new == Settled(p)
         IN  /\ IsManifest(new)
             /\ \A f \in Files :
                  LET e == p.man[f]
                  IN  /\ (\A h \in p.bare[f] : e.sum[h] = Blank) => Comes(new[f], e, TRUE)
                      /\ Comes(new[f], e, FALSE)
                      /\ p.gone[f] = In(e, "orphaned") =>
                           Live(new[f]) = Live(e) /\ (Live(e) # {} => new[f].sum = e.sum)
<1> DEFINE p == run[r]
           new == Settled(p)
           Keep(f) == DOMAIN p.man[f].sec \ p.gone[f]
           Sec(f) == [h \in Keep(f) |->
             IF h \in p.bare[f] /\ p.man[f].sec[h] = "stale" THEN "synced" ELSE p.man[f].sec[h]]
<1>0. IsManifest(p.man)  BY RunShape DEF Resting
<1>1. new = [f \in Files |->
     IF p.man[f] = NoEntry THEN NoEntry
     ELSE IF Keep(f) = {} THEN NoEntry ELSE [p.man[f] EXCEPT !.sec = Sec(f)]]
  BY DEF Settled
<1>2. new = [f \in Files |-> new[f]]  BY <1>1
<1> HIDE DEF new
<1>3. ASSUME NEW f \in Files
      PROVE  LET e == p.man[f]
             IN  /\ IsEntry(new[f])
                 /\ (\A h \in p.bare[f] : e.sum[h] = Blank) => Comes(new[f], e, TRUE)
                 /\ Comes(new[f], e, FALSE)
                 /\ p.gone[f] = In(e, "orphaned") =>
                      Live(new[f]) = Live(e) /\ (Live(e) # {} => new[f].sum = e.sum)
  <2> DEFINE e == p.man[f]
  <2>0. IsEntry(e)  BY <1>0 DEF IsManifest
  <2>1. CASE e = NoEntry
    <3>1. new[f] = NoEntry  BY <1>1, <2>1
    <3> QED  BY <2>1, <3>1, ComesNone DEF IsEntry, Live
  <2>2. CASE e # NoEntry /\ Keep(f) = {}
    <3>1. new[f] = NoEntry  BY <1>1, <2>2
    <3>2. p.gone[f] = In(e, "orphaned") => Live(e) = {}
      BY <2>2 DEF In, Live
    <3> QED  BY <3>1, <3>2, ComesNone DEF IsEntry, Live
  <2>3. CASE e # NoEntry /\ Keep(f) # {}
    <3> DEFINE s == Sec(f)
    <3>1. new[f] = [e EXCEPT !.sec = s]  BY <1>1, <2>3
    <3>2. /\ e = [sum |-> e.sum, doc |-> e.doc, props |-> e.props, sec |-> e.sec]
          /\ e.sum \in Texts /\ Live(e) \subseteq DOMAIN e.sum
      BY <2>0, <2>3 DEF IsEntry
    <3>3. /\ s = [h \in DOMAIN s |-> s[h]] /\ DOMAIN s = DOMAIN e.sec \ p.gone[f]
          /\ \A h \in DOMAIN s : s[h] = IF h \in p.bare[f] /\ e.sec[h] = "stale"
                                        THEN "synced" ELSE e.sec[h]
      OBVIOUS
    <3> HIDE DEF s, e
    <3>4. new[f] = [sum |-> e.sum, doc |-> e.doc, props |-> e.props, sec |-> s]  BY <3>1, <3>2
    <3>5. \A h \in DOMAIN s : s[h] # "orphaned" => h \in DOMAIN e.sum
      BY <2>3, <3>2, <3>3 DEF Live
    <3>6. /\ IsEntry(new[f]) /\ new[f] # NoEntry /\ new[f].sum = e.sum /\ new[f].doc = e.doc
          /\ new[f].props = e.props /\ new[f].sec = s
      BY <3>2, <3>3, <3>4, <3>5, MadeEntry
    <3>7. Stale(new[f]) \subseteq Stale(e)
      BY <2>3, <3>3, <3>6 DEF Stale, In
    <3>8. ASSUME \A h \in p.bare[f] : e.sum[h] = Blank, NEW h \in In(new[f], "synced"),
                 new[f].sum[h] # Blank
          PROVE  h \in In(e, "synced")
      BY <2>3, <3>3, <3>6, <3>8 DEF In
    <3>9. p.gone[f] = In(e, "orphaned") => Live(new[f]) = Live(e)
      BY <2>3, <3>3, <3>6 DEF In, Live
    <3>10. Comes(new[f], e, FALSE)
      BY <2>3, <3>6, <3>7 DEF Comes
    <3>11. (\A h \in p.bare[f] : e.sum[h] = Blank) => Comes(new[f], e, TRUE)
      BY <2>3, <3>6, <3>7, <3>8 DEF Comes
    <3> QED  BY <3>6, <3>9, <3>10, <3>11 DEF e
  <2> QED  BY <2>1, <2>2, <2>3
<1>4. IsManifest(new)  BY <1>2, <1>3 DEF IsManifest
<1> QED  BY <1>3, <1>4 DEF new

-----------------------------------------------------------------------------
(* Types                                                                   *)

Fields == {"caught", "creates", "deletes", "armed", "stale", "copy"}

\* The empty manifest is one, and so is every manifest a run carries.
LEMMA EmptyManifest == IsManifest([f \in Files |-> NoEntry])
BY DEF IsManifest, IsEntry

\* A loop that has received nothing has an empty manifest and nothing pending.
LEMMA Untouched == /\ DOMAIN Untracked = Fields /\ IsManifest(Untracked.copy)
                   /\ Untracked.creates = {} /\ Untracked.deletes = {} /\ ~Untracked.caught
<1>1. Untracked = [caught |-> FALSE, creates |-> {}, deletes |-> {}, armed |-> FALSE,
              stale |-> FALSE, copy |-> [f \in Files |-> NoEntry]]
  BY DEF Untracked
<1> DEFINE m == [f \in Files |-> NoEntry]
<1>2. IsManifest(m)  BY EmptyManifest
<1> HIDE DEF m
<1> QED  BY <1>1, <1>2 DEF Fields, m

\* The change of one run leaves the others what they are.
LEMMA RunsTyped ==
  ASSUME TypeInv, NEW r \in Runners, run' = [run EXCEPT ![r] = run'[r]],
         runs' \in Nat, runs <= runs', IsRun(run'[r]),
         run'[r] # Resting => IsManifest(run'[r].man) /\ run'[r].n \in Nat /\ run'[r].n < runs'
  PROVE  /\ run' = [s \in Runners |-> run'[s]]
         /\ \A s \in Runners :
              /\ IsRun(run'[s])
              /\ run'[s] # Resting => IsManifest(run'[s].man) /\ run'[s].n \in Nat /\ run'[s].n < runs'
         /\ \A s \in Runners \ {r} : run'[s] = run[s]
<1>1. \A s \in Runners \ {r} : run'[s] = run[s]  BY DEF TypeInv
<1>2. run' = [s \in Runners |-> run'[s]]  BY DEF TypeInv
<1>3. ASSUME NEW s \in Runners \ {r}
      PROVE  /\ IsRun(run'[s])
             /\ run'[s] # Resting => IsManifest(run'[s].man) /\ run'[s].n \in Nat /\ run'[s].n < runs'
  <2>1. /\ IsRun(run[s]) /\ runs \in Nat
        /\ run[s] # Resting => IsManifest(run[s].man) /\ run[s].n \in Nat /\ run[s].n < runs
    BY DEF TypeInv
  <2> QED  BY <1>1, <1>3, <2>1
<1> QED  BY <1>1, <1>2, <1>3

\* The kinds of run.
LEMMA RestingIsRun == IsRun(Resting) /\ Resting.pc = "idle"
BY DEF Resting, IsRun
\* A command that has loaded the manifest.
LEMMA LoadIsRun ==
  ASSUME NEW n, NEW man, NEW p, p = [pc |-> "load", n |-> n, man |-> man]
  PROVE  IsRun(p) /\ p.n = n /\ p.man = man /\ p.pc = "load" /\ p # Resting
<1>1. p.n = n /\ p.man = man /\ p.pc = "load"  OBVIOUS
<1>2. p # Resting  BY <1>1, RestingIsRun
<1> QED  BY <1>1, <1>2 DEF IsRun
\* One that has saved what phase 1 made of it.
LEMMA ParsedIsRun ==
  ASSUME NEW n, NEW man, NEW p, p = [pc |-> "parsed", n |-> n, man |-> man, base |-> man]
  PROVE  IsRun(p) /\ p.n = n /\ p.man = man /\ p.base = man /\ p.pc = "parsed" /\ p # Resting
<1>1. p.n = n /\ p.man = man /\ p.base = man /\ p.pc = "parsed"  OBVIOUS
<1>2. p # Resting  BY <1>1, RestingIsRun
<1> QED  BY <1>1, <1>2 DEF IsRun
\* One that extracts.
LEMMA ExtractIsRun ==
  ASSUME NEW p, p = ExtractOf(p), IsManifest(p.base), p.todo \subseteq Files
  PROVE  IsRun(p) /\ p.pc = "extract" /\ p # Resting
<1>1. p.pc = "extract"  BY DEF ExtractOf
<1>2. p # Resting  BY <1>1, RestingIsRun
<1> QED  BY <1>1, <1>2 DEF IsRun, ExtractOf

\* What the loop makes of an event.
LEMMA Received ==
  ASSUME TypeInv, NEW f \in Files, Receive(f)
  PROVE  LET ev == Head(events[f])
             add == ev = "write" /\ disk[f] # Gone
             del == ev = "remove" \/ (ev = "write" /\ disk[f] = Gone)
         IN  /\ DOMAIN watch' = Fields /\ watch'.caught /\ watch'.copy = watch.copy
             /\ watch'.creates = IF add THEN watch.creates \cup {f}
                                 ELSE IF ev = "remove" THEN watch.creates \ {f} ELSE watch.creates
             /\ watch'.deletes = IF del THEN watch.deletes \cup {f}
                                 ELSE IF add THEN watch.deletes \ {f} ELSE watch.deletes
<1> DEFINE ev == Head(events[f])
           add == ev = "write" /\ disk[f] # Gone
           del == ev = "remove" \/ (ev = "write" /\ disk[f] = Gone)
           creates == IF add THEN watch.creates \cup {f}
                      ELSE IF ev = "remove" THEN watch.creates \ {f} ELSE watch.creates
           deletes == IF del THEN watch.deletes \cup {f}
                      ELSE IF add THEN watch.deletes \ {f} ELSE watch.deletes
<1>1. watch.caught /\ watch' = [watch EXCEPT !.armed = TRUE, !.creates = creates, !.deletes = deletes]
  BY DEF Receive
<1>2. DOMAIN watch = Fields  BY DEF TypeInv, Fields
<1>3. /\ DOMAIN watch' = Fields /\ watch'.caught /\ watch'.copy = watch.copy
      /\ watch'.creates = creates /\ watch'.deletes = deletes
  <2> HIDE DEF creates, deletes
  <2> QED  BY <1>1, <1>2 DEF Fields
<1> QED  BY <1>3

\* What the loop knows once it has caught up with every file it could read.
LEMMA CaughtUpWatch ==
  ASSUME TypeInv, NEW unread
  PROVE  /\ DOMAIN CaughtUp(unread) = Fields /\ CaughtUp(unread).caught
         /\ CaughtUp(unread).creates = watch.creates /\ CaughtUp(unread).deletes = watch.deletes
         /\ CaughtUp(unread).copy = Phase1(saved, Changed(saved) \ unread)
<1> DEFINE changed == Changed(saved) \ unread
           man == Phase1(saved, changed)
           modified == \E g \in changed : \E h \in DOMAIN disk[g] :
                  h \in Live(saved[g]) /\ saved[g].sum[h] # disk[g][h]
           partial == /\ \E g \in Files : In(man[g], "stale") # {}
                      /\ \E g \in Files : In(man[g], "synced") # {}
           late == modified \/ partial
           w == CaughtUp(unread)
<1>1. w = [watch EXCEPT !.caught = TRUE, !.copy = man, !.stale = late]
  BY DEF CaughtUp
<1>2. DOMAIN watch = Fields  BY DEF TypeInv, Fields
<1> HIDE DEF late, man, w
<1>3. DOMAIN w = Fields  BY <1>1, <1>2
<1>4. /\ w.caught = TRUE /\ w.creates = watch.creates
      /\ w.deletes = watch.deletes /\ w.copy = man
  BY <1>1, <1>2 DEF Fields
<1> QED  BY <1>3, <1>4 DEF man, w

\* A vault that is not caught up with is followed all the same.
LEMMA CaughtUpNot ==
  ASSUME TypeInv, CatchUpFails
  PROVE  /\ DOMAIN watch' = Fields /\ watch'.caught /\ watch'.copy = watch.copy
         /\ watch'.creates = watch.creates /\ watch'.deletes = watch.deletes
<1>1. DOMAIN watch = Fields  BY DEF TypeInv, Fields
<1>2. watch' = [watch EXCEPT !.caught = TRUE]  BY DEF CatchUpFails
<1> QED  BY <1>1, <1>2 DEF Fields

\* Every copy is a manifest.
LEMMA CopiesAreManifests ==
  ASSUME TypeInv, NEW man \in Copies PROVE IsManifest(man)
BY DEF TypeInv, Copies, Busy

\* The manifest of a run is a copy.
LEMMA RunIsCopy ==
  ASSUME TypeInv, NEW r \in Runners, run[r].pc # "idle" PROVE r \in Busy /\ run[r].man \in Copies
BY RunShape DEF Copies, Busy

\* What an extraction of the invariant's states needs of its entry.
LEMMA Extractable ==
  ASSUME TypeInv, Planned, NoneKept, NEW r \in Runners, NEW f \in Files, Extract(r, f)
  PROVE  Stale(run[r].man[f]) # {} /\ run[r].man[f].props = {}
<1>1. run[r].pc = "extract" /\ f \in run[r].todo  BY DEF Extract
<1>2. Stale(run[r].man[f]) # {}  BY <1>1 DEF Planned
<1>3. run[r].man \in Copies  BY <1>1, RunIsCopy
<1> QED  BY <1>2, <1>3 DEF NoneKept

EventsTyped == events \in [Files -> Seq({"write", "access", "remove"})]
WatchTyped ==
  /\ DOMAIN watch = Fields /\ IsManifest(watch.copy)
  /\ (~watch.caught => watch.creates = {} /\ watch.deletes = {})
RunTyped ==
  /\ run = [r \in Runners |-> run[r]] /\ runs \in Nat
  /\ \A r \in Runners :
       IsRun(run[r]) /\ (run[r] # Resting => IsManifest(run[r].man) /\ run[r].n \in Nat /\ run[r].n < runs)

\* The type invariant by its parts.
LEMMA TypeParts ==
  TypeInv <=> /\ disk \in [Files -> Texts \cup {Gone}] /\ EventsTyped
              /\ IsManifest(saved) /\ WatchTyped /\ RunTyped
BY DEF TypeInv, EventsTyped, WatchTyped, RunTyped, Fields

\* The same of the next state.
LEMMA TypePartsNext ==
  TypeInv' <=> /\ disk' \in [Files -> Texts \cup {Gone}] /\ EventsTyped'
               /\ IsManifest(saved') /\ WatchTyped' /\ RunTyped'
BY DEF TypeInv, EventsTyped, WatchTyped, RunTyped, Fields, IsManifest

\* The loop's record with another copy, or another copy and flag, is one.
LEMMA WatchCopied ==
  ASSUME WatchTyped, NEW man, IsManifest(man), NEW stale,
         watch' = [watch EXCEPT !.copy = man] \/ watch' = [watch EXCEPT !.copy = man, !.stale = stale]
  PROVE  /\ WatchTyped' /\ watch'.copy = man /\ watch'.caught = watch.caught
         /\ watch'.creates = watch.creates /\ watch'.deletes = watch.deletes
<1>1. DOMAIN watch' = Fields  BY DEF WatchTyped
<1>2. /\ watch'.copy = man /\ watch'.caught = watch.caught
      /\ watch'.creates = watch.creates /\ watch'.deletes = watch.deletes
  BY DEF WatchTyped, Fields
<1> QED  BY <1>1, <1>2 DEF WatchTyped

\* What phase 1 of the loop makes of a manifest.
Ticks(old, unread) == Phase1Delete(Phase1(old, watch.creates \ unread), watch.deletes)

\* Phase 1 of the loop.
LEMMA Ticked ==
  ASSUME Phase1Tick
  PROVE  \E old \in {saved, watch.copy}, unread \in SUBSET Present :
           /\ saved' \in {saved, Ticks(old, unread)} /\ watch'.copy = Ticks(old, unread)
           /\ DOMAIN watch' = Fields /\ watch'.caught = watch.caught
           /\ watch'.creates = {} /\ watch'.deletes = {}
           /\ excused' = excused \cup Restored(old, watch.creates)
                            \cup (unread \cap watch.creates \cap Changed(old))
                            \cup {f \in Files : old[f] # saved[f] \/ Ticks(old, unread)[f] # saved'[f]}
<1>1. PICK old \in {saved, watch.copy}, unread \in SUBSET Present, lost \in BOOLEAN :
        LET man == Phase1Delete(Phase1(old, watch.creates \ unread), watch.deletes)
        IN  /\ saved' = IF lost THEN saved ELSE man
            /\ watch' = [caught |-> watch.caught, creates |-> {}, deletes |-> {}, armed |-> FALSE,
                         stale |-> TRUE, copy |-> man]
            /\ excused' = excused \cup Restored(old, watch.creates)
                             \cup (unread \cap watch.creates \cap Changed(old))
                             \cup {f \in Files : old[f] # saved[f] \/ man[f] # saved'[f]}
  BY DEF Phase1Tick
<1> DEFINE man == Ticks(old, unread)
           w == [caught |-> watch.caught, creates |-> {}, deletes |-> {}, armed |-> FALSE,
                 stale |-> TRUE, copy |-> man]
<1>2. /\ saved' \in {saved, man} /\ watch' = w
      /\ excused' = excused \cup Restored(old, watch.creates)
                       \cup (unread \cap watch.creates \cap Changed(old))
                       \cup {f \in Files : old[f] # saved[f] \/ man[f] # saved'[f]}
  BY <1>1 DEF Ticks
<1> HIDE DEF man
<1>3. /\ DOMAIN w = Fields /\ w.caught = watch.caught
      /\ w.creates = {} /\ w.deletes = {} /\ w.copy = man
  BY DEF Fields
<1> HIDE DEF w
<1> QED  BY <1>2, <1>3 DEF man

\* A daemon that stops leaves the manifest it saves, and no run.
LEMMA Halted ==
  ASSUME NEW man, Halt(man)
  PROVE  /\ saved' = man /\ watch' = Untracked
         /\ \A r \in Runners : run'[r] = Resting
         /\ run' = [r \in Runners |-> Resting] /\ events' = [f \in Files |-> <<>>]
BY DEF Halt

\* A run at the end is the only thing that changes.
LEMMA RunEnds ==
  ASSUME TypeInv, NEW r \in Runners, run' = [run EXCEPT ![r] = Resting], runs' = runs
  PROVE  RunTyped' /\ run'[r] = Resting /\ \A s \in Runners \ {r} : run'[s] = run[s]
<1>1. run'[r] = Resting  BY DEF TypeInv
<1>2. run' = [run EXCEPT ![r] = run'[r]]  BY <1>1
<1>3. runs \in Nat /\ IsRun(run'[r])  BY <1>1, RestingIsRun DEF TypeInv
<1>4. /\ run' = [s \in Runners |-> run'[s]]
      /\ \A s \in Runners :
           /\ IsRun(run'[s])
           /\ run'[s] # Resting => IsManifest(run'[s].man) /\ run'[s].n \in Nat /\ run'[s].n < runs'
      /\ \A s \in Runners \ {r} : run'[s] = run[s]
  <2>1. runs' \in Nat /\ runs <= runs'  BY <1>3
  <2> QED  BY <1>1, <1>2, <1>3, <2>1, RunsTyped
<1> QED  BY <1>1, <1>3, <1>4 DEF RunTyped

\* A new or changed run.
LEMMA RunSet ==
  ASSUME TypeInv, NEW r \in Runners, NEW p, run' = [run EXCEPT ![r] = p], IsRun(p),
         runs' \in Nat, runs <= runs', IsManifest(p.man), p.n \in Nat, p.n < runs'
  PROVE  RunTyped' /\ run'[r] = p /\ \A s \in Runners \ {r} : run'[s] = run[s]
<1>1. run'[r] = p  BY DEF TypeInv
<1>2. run' = [run EXCEPT ![r] = run'[r]]  BY <1>1
<1>3. IsRun(run'[r]) /\ IsManifest(run'[r].man) /\ run'[r].n \in Nat /\ run'[r].n < runs'
  BY <1>1
<1>4. /\ run' = [s \in Runners |-> run'[s]]
      /\ \A s \in Runners :
           /\ IsRun(run'[s])
           /\ run'[s] # Resting => IsManifest(run'[s].man) /\ run'[s].n \in Nat /\ run'[s].n < runs'
      /\ \A s \in Runners \ {r} : run'[s] = run[s]
  BY <1>2, <1>3, RunsTyped
<1> QED  BY <1>1, <1>4 DEF RunTyped

\* Every step keeps the state well formed.
LEMMA TypeKept ==
  ASSUME TypeInv, Planned, NoneKept, [VaultNext]_vaultVars PROVE TypeInv'
<1>0. /\ disk \in [Files -> Texts \cup {Gone}] /\ EventsTyped
      /\ IsManifest(saved) /\ WatchTyped /\ RunTyped
  BY TypeParts
<1> USE DEF Idle
<1>1. ASSUME NEW f \in Files, Receive(f) PROVE TypeInv'
  <2>1. DOMAIN watch' = Fields /\ watch'.caught /\ watch'.copy = watch.copy  BY <1>1, Received
  <2>2. saved' = saved /\ disk' = disk /\ EventsTyped' /\ RunTyped'
    BY <1>0, <1>1 DEF Receive, EventsTyped, RunTyped
  <2>3. WatchTyped'  BY <1>0, <2>1 DEF WatchTyped
  <2> QED  BY <1>0, <2>2, <2>3, TypePartsNext
<1>15. ASSUME CatchUp PROVE TypeInv'
  <2>1. PICK unread \in SUBSET Present, lost \in BOOLEAN :
          watch' = CaughtUp(unread) /\ saved' = IF lost THEN saved ELSE watch'.copy
    BY <1>15 DEF CatchUp
  <2> DEFINE man == Phase1(saved, Changed(saved) \ unread)
  <2>2. DOMAIN watch' = Fields /\ watch'.caught /\ watch'.copy = man  BY <2>1, CaughtUpWatch
  <2>3. IsManifest(man)  BY <1>0, Phase1Entries
  <2> HIDE DEF man
  <2>4. IsManifest(saved') /\ IsManifest(watch'.copy)  BY <1>0, <2>1, <2>2, <2>3
  <2>5. disk' = disk /\ EventsTyped' /\ RunTyped'
    BY <1>0, <1>15 DEF CatchUp, EventsTyped, RunTyped
  <2>6. WatchTyped'  BY <2>2, <2>4 DEF WatchTyped
  <2> QED  BY <1>0, <2>4, <2>5, <2>6, TypePartsNext
<1>16. ASSUME CatchUpFails PROVE TypeInv'
  <2>1. WatchTyped'  BY <1>0, <1>16, CaughtUpNot DEF WatchTyped
  <2>2. disk' = disk /\ EventsTyped' /\ saved' = saved /\ RunTyped'
    BY <1>0, <1>16 DEF CatchUpFails, EventsTyped, RunTyped
  <2> QED  BY <1>0, <2>1, <2>2, TypePartsNext
<1>2. ASSUME NEW f \in Files, NEW text \in Texts \cup {Gone}, Edit(f, text) PROVE TypeInv'
  <2>1. disk' \in [Files -> Texts \cup {Gone}]  BY <1>0, <1>2 DEF Edit
  <2>2. <<"remove">> \in Seq({"write", "access", "remove"})
        /\ <<"write", "access">> \in Seq({"write", "access", "remove"})
    OBVIOUS
  <2>3. EventsTyped'
    <3>1. PICK s \in Seq({"write", "access", "remove"}) :
            events' = [events EXCEPT ![f] = @ \o s] \/ events' = events
      BY <1>2, <2>2 DEF Edit
    <3>2. events[f] \o s \in Seq({"write", "access", "remove"})  BY <1>0 DEF EventsTyped
    <3> QED  BY <1>0, <3>1, <3>2 DEF EventsTyped
  <2>4. IsManifest(saved') /\ WatchTyped' /\ RunTyped'
    BY <1>0, <1>2 DEF Edit, WatchTyped, RunTyped
  <2> QED  BY <2>1, <2>3, <2>4, TypePartsNext
<1>3. ASSUME NEW r \in Runners, NEW f \in Files, Extract(r, f) PROVE TypeInv'
  <2>1. run[r].pc = "extract" /\ f \in run[r].todo  BY <1>3 DEF Extract
  <2>2. Stale(run[r].man[f]) # {} /\ run[r].man[f].props = {}  BY <1>3, Extractable
  <2> DEFINE e2 == run'[r].man[f]
             man2 == [run[r].man EXCEPT ![f] = e2]
             p == [run[r] EXCEPT !.todo = @ \ {f}, !.man = [@ EXCEPT ![f] = e2]]
  <2>3. run' = [run EXCEPT ![r] = run'[r]] /\ run'[r] = ExtractOf(p) /\ IsEntry(e2)
    <3>1. RunExtracts(r, f)  BY <1>3, <2>2, Extracted
    <3> QED  BY <3>1 DEF RunExtracts
  <2>4. run[r] = ExtractOf(run[r]) /\ IsManifest(run[r].base) /\ run[r].todo \subseteq Files
        /\ IsManifest(run[r].man) /\ run[r].n \in Nat /\ run[r].n < runs
    BY <2>1, RunShape DEF Resting
  <2>5. /\ ExtractOf(p).n = run[r].n /\ ExtractOf(p).man = man2
        /\ ExtractOf(p).base = run[r].base /\ ExtractOf(p).todo = run[r].todo \ {f}
    <3> DEFINE m == man2
    <3> HIDE DEF m
    <3>1. DOMAIN run[r] = {"pc", "n", "man", "base", "todo", "text", "bare", "gone"}
      BY <2>4 DEF ExtractOf
    <3> DEFINE q == [run[r] EXCEPT !.todo = @ \ {f}, !.man = m]
    <3>2. q.n = run[r].n /\ q.man = m /\ q.base = run[r].base /\ q.todo = run[r].todo \ {f}
      BY <3>1
    <3>3. p = q  BY DEF m
    <3> HIDE DEF q, p
    <3> QED  BY <3>2, <3>3 DEF ExtractOf, m
  <2>6. ExtractOf(p) = ExtractOf(ExtractOf(p))
    <3> HIDE DEF p
    <3> QED  BY DEF ExtractOf
  <2>7. IsManifest(man2)  BY <2>3, <2>4 DEF IsManifest
  <2>8. runs' = runs /\ runs \in Nat  BY <1>0, <1>3 DEF Extract, RunTyped
  <2> HIDE DEF p, man2
  <2>9. IsRun(run'[r])  BY <2>3, <2>4, <2>5, <2>6, ExtractIsRun
  <2>10. RunTyped'  BY <2>3, <2>4, <2>5, <2>7, <2>8, <2>9, RunsTyped DEF RunTyped
  <2>11. disk' = disk /\ EventsTyped' /\ saved' = saved /\ WatchTyped'
    BY <1>0, <1>3 DEF Extract, EventsTyped, WatchTyped
  <2> QED  BY <1>0, <2>10, <2>11, TypePartsNext
<1>4. ASSUME Phase1Tick PROVE TypeInv'
  <2>0. PICK old \in {saved, watch.copy}, unread \in SUBSET Present :
          /\ saved' \in {saved, Ticks(old, unread)} /\ watch'.copy = Ticks(old, unread)
          /\ DOMAIN watch' = Fields /\ watch'.creates = {} /\ watch'.deletes = {}
    BY <1>4, Ticked
  <2> DEFINE m1 == Phase1(old, watch.creates \ unread)
             m2 == Ticks(old, unread)
  <2>a. IsManifest(m1)  BY <1>0, Phase1Entries DEF WatchTyped
  <2>b. IsManifest(m2)
    <3> HIDE DEF m1
    <3> QED  BY <2>a, DeletedEntries DEF Ticks, m1
  <2> HIDE DEF m2
  <2>1. IsManifest(saved') /\ IsManifest(watch'.copy)  BY <1>0, <2>0, <2>b DEF m2
  <2>2. WatchTyped'  BY <2>0, <2>1 DEF WatchTyped
  <2>3. disk' = disk /\ EventsTyped' /\ RunTyped'
    BY <1>0, <1>4 DEF Phase1Tick, EventsTyped, RunTyped
  <2> QED  BY <1>0, <2>1, <2>2, <2>3, TypePartsNext
<1>5. ASSUME LoopPhase2 PROVE TypeInv'
  <2>0. PICK man \in {saved, watch.copy}, unread \in SUBSET Present :
          watch' = [watch EXCEPT !.copy = man] /\ Phase2Begin(Loop, man, runs, man, unread)
    BY <1>5 DEF LoopPhase2
  <2>a. IsManifest(man)  BY <1>0 DEF WatchTyped
  <2>1. Phase2Begin(Loop, man, runs, man, unread) /\ runs' = runs + 1 /\ Loop \in Runners
    BY <1>5, <2>0 DEF LoopPhase2, Runners
  <2>2. /\ run' = [run EXCEPT ![Loop] = run'[Loop]] /\ run'[Loop] = ExtractOf(run'[Loop])
        /\ run'[Loop].n = runs /\ run'[Loop].man = man /\ run'[Loop].base = man
        /\ run'[Loop].todo \subseteq Files
    <3>1. RunBegins(Loop, runs, man, man)  BY <2>1, <2>a, Begun
    <3> QED  BY <3>1 DEF RunBegins
  <2>3. runs \in Nat /\ runs' \in Nat /\ runs <= runs' /\ runs < runs'  BY <1>0, <2>1 DEF RunTyped
  <2>4. IsRun(run'[Loop])  BY <2>a, <2>2, ExtractIsRun
  <2>5. RunTyped'  BY <2>a, <2>1, <2>2, <2>3, <2>4, RunsTyped DEF RunTyped
  <2>6. WatchTyped'  BY <1>0, <2>0, <2>a, WatchCopied
  <2>7. disk' = disk /\ EventsTyped' /\ saved' = saved
    BY <1>0, <1>5 DEF LoopPhase2, EventsTyped
  <2> QED  BY <1>0, <2>5, <2>6, <2>7, TypePartsNext
<1>6. ASSUME LoopPhase2Fails PROVE TypeInv'
  <2>0. PICK man \in {saved, watch.copy} : watch' = [watch EXCEPT !.copy = man, !.stale = FALSE]
    BY <1>6 DEF LoopPhase2Fails
  <2>a. IsManifest(man)  BY <1>0 DEF WatchTyped
  <2>1. WatchTyped'  BY <1>0, <2>0, <2>a, WatchCopied
  <2>2. disk' = disk /\ EventsTyped' /\ saved' = saved /\ RunTyped'
    BY <1>0, <1>6 DEF LoopPhase2Fails, EventsTyped, RunTyped
  <2> QED  BY <1>0, <2>1, <2>2, TypePartsNext
<1>7. ASSUME LoopSave PROVE TypeInv'
  <2>1. Loop \in Runners /\ run[Loop].pc = "extract"  BY <1>7 DEF LoopSave, Runners
  <2> DEFINE man == Settled(run[Loop])
  <2>a. saved' \in {saved, man} /\ watch' = [watch EXCEPT !.copy = man, !.stale = FALSE]
    BY <1>7 DEF LoopSave
  <2>b. IsManifest(man)  BY <2>1, SettledEntries
  <2> HIDE DEF man
  <2>2. IsManifest(saved')  BY <1>0, <2>a, <2>b
  <2>3. WatchTyped'  BY <1>0, <2>a, <2>b, WatchCopied
  <2>4. RunTyped'  BY <1>7, <2>1, RunEnds DEF LoopSave
  <2>5. disk' = disk /\ EventsTyped'  BY <1>0, <1>7 DEF LoopSave, EventsTyped
  <2> QED  BY <1>0, <2>2, <2>3, <2>4, <2>5, TypePartsNext
<1>8. ASSUME NEW i \in Indexers, IndexAsk(i) PROVE TypeInv'
  <2>1. i \in Runners /\ runs' = runs + 1  BY <1>8 DEF IndexAsk, Runners
  <2> DEFINE p == [pc |-> "load", n |-> runs, man |-> saved]
  <2>2. run' = [run EXCEPT ![i] = p]  BY <1>8 DEF IndexAsk
  <2>3. IsRun(p) /\ p.n = runs /\ p.man = saved  BY LoadIsRun
  <2>4. runs \in Nat /\ runs' \in Nat /\ runs <= runs' /\ runs < runs'  BY <1>0, <2>1 DEF RunTyped
  <2> HIDE DEF p
  <2>5. RunTyped'  BY <1>0, <2>1, <2>2, <2>3, <2>4, RunSet
  <2>6. disk' = disk /\ EventsTyped' /\ saved' = saved /\ WatchTyped'
    BY <1>0, <1>8 DEF IndexAsk, EventsTyped, WatchTyped
  <2> QED  BY <1>0, <2>5, <2>6, TypePartsNext
<1>9. ASSUME NEW i \in Indexers, IndexPhase1(i) PROVE TypeInv'
  <2>1. i \in Runners /\ run[i].pc = "load"  BY <1>9 DEF IndexPhase1, Runners
  <2>2. IsManifest(run[i].man) /\ run[i].n \in Nat /\ run[i].n < runs
    BY <2>1, RunShape DEF Resting
  <2>0. PICK unread \in SUBSET Present :
          LET man == Phase1(run[i].man, Present \ unread)
          IN  /\ saved' \in {saved, man}
              /\ run' = [run EXCEPT ![i] = [pc |-> "parsed", n |-> run[i].n, man |-> man, base |-> man]]
    BY <1>9 DEF IndexPhase1
  <2> DEFINE man == Phase1(run[i].man, Present \ unread)
             p == [pc |-> "parsed", n |-> run[i].n, man |-> man, base |-> man]
  <2>a. IsManifest(man)  BY <1>0, <2>2, Phase1Entries
  <2>4. saved' \in {saved, man} /\ run' = [run EXCEPT ![i] = p]  BY <2>0
  <2> HIDE DEF man
  <2>3. IsManifest(saved')  BY <1>0, <2>4, <2>a
  <2>5. IsRun(p) /\ p.n = run[i].n /\ p.man = man  BY ParsedIsRun
  <2>6. runs \in Nat /\ runs' = runs  BY <1>0, <1>9 DEF RunTyped, IndexPhase1
  <2> HIDE DEF p
  <2>7. IsManifest(p.man) /\ p.n \in Nat /\ p.n < runs' /\ runs <= runs' /\ runs' \in Nat
    BY <2>2, <2>a, <2>5, <2>6
  <2>9. RunTyped'  BY <2>1, <2>4, <2>5, <2>7, RunSet
  <2>8. disk' = disk /\ EventsTyped' /\ WatchTyped'
    BY <1>0, <1>9 DEF IndexPhase1, EventsTyped, WatchTyped
  <2> QED  BY <1>0, <2>3, <2>8, <2>9, TypePartsNext
<1>10. ASSUME NEW i \in Indexers, IndexPhase2(i) PROVE TypeInv'
  <2>1. i \in Runners /\ run[i].pc = "parsed" /\ runs' = runs  BY <1>10 DEF IndexPhase2, Runners
  <2>2. IsManifest(run[i].man) /\ run[i].n \in Nat /\ run[i].n < runs /\ run[i].base = run[i].man
    BY <2>1, RunShape DEF Resting
  <2>3. PICK unread : Phase2Begin(i, run[i].man, run[i].n, run[i].base, unread)
    BY <1>10 DEF IndexPhase2
  <2>4. /\ run' = [run EXCEPT ![i] = run'[i]] /\ run'[i] = ExtractOf(run'[i])
        /\ run'[i].n = run[i].n /\ run'[i].man = run[i].man /\ run'[i].base = run[i].base
        /\ run'[i].todo \subseteq Files
    <3>1. RunBegins(i, run[i].n, run[i].man, run[i].base)  BY <2>1, <2>2, <2>3, Begun
    <3> QED  BY <3>1 DEF RunBegins
  <2>5. runs \in Nat  BY <1>0 DEF RunTyped
  <2>6. IsRun(run'[i])  BY <2>2, <2>4, ExtractIsRun
  <2>7. RunTyped'  BY <2>1, <2>2, <2>4, <2>5, <2>6, RunsTyped DEF RunTyped
  <2>8. disk' = disk /\ EventsTyped' /\ saved' = saved /\ WatchTyped'
    BY <1>0, <1>10 DEF IndexPhase2, EventsTyped, WatchTyped
  <2> QED  BY <1>0, <2>7, <2>8, TypePartsNext
<1>11. ASSUME NEW i \in Indexers, IndexFails(i) PROVE TypeInv'
  <2>1. i \in Runners  BY DEF Runners
  <2>2. RunTyped'  BY <1>11, <2>1, RunEnds DEF IndexFails
  <2>3. disk' = disk /\ EventsTyped' /\ saved' = saved /\ WatchTyped'
    BY <1>0, <1>11 DEF IndexFails, EventsTyped, WatchTyped
  <2> QED  BY <1>0, <2>2, <2>3, TypePartsNext
<1>12. ASSUME NEW i \in Indexers, IndexSave(i) PROVE TypeInv'
  <2>1. i \in Runners /\ run[i].pc = "extract"  BY <1>12 DEF IndexSave, Runners
  <2> DEFINE man == Settled(run[i])
  <2>a. saved' \in {saved, man}  BY <1>12 DEF IndexSave
  <2>b. IsManifest(man)  BY <2>1, SettledEntries
  <2> HIDE DEF man
  <2>2. IsManifest(saved')  BY <1>0, <2>a, <2>b
  <2>3. RunTyped'  BY <1>12, <2>1, RunEnds DEF IndexSave
  <2>4. disk' = disk /\ EventsTyped' /\ WatchTyped'
    BY <1>0, <1>12 DEF IndexSave, EventsTyped, WatchTyped
  <2> QED  BY <1>0, <2>2, <2>3, <2>4, TypePartsNext
<1>13. ASSUME Evict \/ Reopen \/ UNCHANGED vaultVars PROVE TypeInv'
  <2>1. UNCHANGED <<disk, events, saved, watch, run, runs>>
    BY <1>13 DEF Evict, Reopen, vaultVars
  <2>2. disk' = disk /\ EventsTyped' /\ saved' = saved /\ WatchTyped' /\ RunTyped'
    BY <1>0, <2>1 DEF EventsTyped, WatchTyped, RunTyped
  <2> QED  BY <1>0, <2>2, TypePartsNext
<1>14. ASSUME Crash \/ Shutdown PROVE TypeInv'
  <2>1. PICK man \in {saved, watch.copy} : Halt(man)  BY <1>14 DEF Crash, Shutdown
  <2>2. disk' = disk /\ runs' = runs  BY <2>1 DEF Halt
  <2>3. IsManifest(saved')  BY <1>0, <2>1, Halted DEF WatchTyped
  <2>4. WatchTyped'  BY <2>1, Halted, Untouched DEF WatchTyped
  <2>5. EventsTyped'
    <3>1. events' = [f \in Files |-> <<>>]  BY <2>1, Halted
    <3> QED  BY <3>1 DEF EventsTyped
  <2>6. RunTyped'
    <3>1. run' = [r \in Runners |-> Resting]  BY <2>1, Halted
    <3>2. run' = [r \in Runners |-> run'[r]] /\ \A r \in Runners : run'[r] = Resting
      BY <3>1
    <3> QED  BY <1>0, <2>2, <3>2, RestingIsRun DEF RunTyped
  <2> QED  BY <1>0, <2>2, <2>3, <2>4, <2>5, <2>6, TypePartsNext
<1> QED  BY <1>1, <1>2, <1>3, <1>4, <1>5, <1>6, <1>7, <1>8, <1>9, <1>10, <1>11, <1>12,
            <1>13, <1>14, <1>15, <1>16 DEF VaultNext

-----------------------------------------------------------------------------
(* SyncedRepresented: the steps that extract nothing                       *)

\* Copies that come of copies are as well backed, and doom nothing new.
LEMMA DerivedCopies ==
  ASSUME AllBacked, NoneKept, Numbered, UNCHANGED <<store, found>>, torn \subseteq torn',
         \A man2 \in Copies' : \E man \in Copies : \A f \in Files :
           Comes(man2[f], man[f], f \notin torn')
  PROVE  /\ AllBacked' /\ NoneKept'
         /\ \A man2 \in Copies' : \A f \in Files :
              \/ man2[f] = NoEntry \/ man2[f].doc = NoDoc
              \/ \E man \in Copies : man[f] # NoEntry /\ man2[f].doc = man[f].doc
<1>1. ASSUME NEW m \in store, Doomed(m)' PROVE Doomed(m)
  <2>1. PICK man2 \in Copies' : \E f \in Files : Stale(man2[f]) # {} /\ man2[f].doc = m
    BY <1>1 DEF Doomed
  <2>2. PICK f \in Files : Stale(man2[f]) # {} /\ man2[f].doc = m  BY <2>1
  <2>3. PICK man \in Copies : \A g \in Files : Comes(man2[g], man[g], g \notin torn')  BY <2>1
  <2>4. Comes(man2[f], man[f], f \notin torn')  BY <2>3
  <2>5. m # NoDoc  BY DEF Numbered
  <2>6. man2[f] # NoEntry  BY <2>2 DEF Stale, In
  <2>7. Stale(man[f]) # {} /\ man[f].doc = m  BY <2>2, <2>4, <2>5, <2>6 DEF Comes
  <2> QED  BY <2>7 DEF Doomed
<1>2. ASSUME NEW man2 \in Copies', NEW f \in Files \ torn' PROVE Backed(f, man2[f])'
  <2>1. PICK man \in Copies : \A g \in Files : Comes(man2[g], man[g], g \notin torn')  BY <1>2
  <2>2. Comes(man2[f], man[f], TRUE)  BY <2>1, <1>2
  <2>3. Backed(f, man[f])  BY <1>2 DEF AllBacked
  <2>4. ASSUME NEW h \in In(man2[f], "synced"), man2[f].sum[h] # Blank
        PROVE  Shown(f, man2[f].sum[h])'
    <3>1. PICK g \in In(man[f], "synced") : man[f].sum[g] = man2[f].sum[h]
      BY <2>2, <2>4 DEF Comes
    <3>2. PICK body : body = man2[f].sum[h]  OBVIOUS
    <3>3. Shown(f, body)  BY <2>3, <2>4, <3>1, <3>2 DEF Backed
    <3>4. Shown(f, body)'  BY <1>1, <3>3 DEF Shown, Shows
    <3> QED  BY <3>2, <3>4
  <2> QED  BY <2>4 DEF Backed
<1>3. ASSUME NEW man2 \in Copies', NEW f \in Files, Stale(man2[f]) # {} PROVE man2[f].props = {}
  <2>1. PICK man \in Copies : \A g \in Files : Comes(man2[g], man[g], g \notin torn')  BY <1>3
  <2>2. Comes(man2[f], man[f], f \notin torn')  BY <2>1
  <2> QED  BY <1>3, <2>2 DEF Comes, NoneKept
<1>4. ASSUME NEW man2 \in Copies', NEW f \in Files, man2[f] # NoEntry, man2[f].doc # NoDoc
      PROVE  \E man \in Copies : man[f] # NoEntry /\ man2[f].doc = man[f].doc
  <2>1. PICK man \in Copies : \A g \in Files : Comes(man2[g], man[g], g \notin torn')  BY <1>4
  <2>2. Comes(man2[f], man[f], f \notin torn')  BY <2>1
  <2> QED  BY <1>4, <2>2 DEF Comes
<1>5. AllBacked'  BY <1>2 DEF AllBacked
<1>6. NoneKept'
  <2> SUFFICES ASSUME NEW man2 \in Copies' PROVE \A f \in Files : Stale(man2[f]) # {} => man2[f].props = {}
    BY DEF NoneKept
  <2> QED  BY <1>3
<1> QED  BY <1>4, <1>5, <1>6

\* Runs that stay or end keep the numbers, and a run that begins or goes on to
\* another phase of its own does.
LEMMA NumbersKept ==
  ASSUME TypeInv, Numbered, runs' \in Nat, runs <= runs', NEW r \in Runners,
         \A s \in Runners \ {r} : run'[s] = run[s],
         \/ run'[r] = Resting \/ run'[r] = run[r]
         \/ run'[r].n = runs /\ runs < runs'
         \/ r \in Busy /\ run'[r].n = run[r].n /\ run[r].pc # "extract"
  PROVE  /\ \A s, t \in Busy' : run'[s].n = run'[t].n => s = t
         /\ \A m : Counted(m) => Counted(m)'
<1>1. runs \in Nat  BY DEF TypeInv
<1>2. \A s \in Busy : run[s].n \in Nat /\ run[s].n < runs  BY DEF TypeInv, Busy
<1>3. Busy' \subseteq Runners /\ Busy \subseteq Runners /\ \A s \in Busy' \ {r} : s \in Busy
  BY DEF Busy
<1>4. \A s \in Busy' : \/ s \in Busy /\ run'[s] = run[s]
                       \/ s = r /\ run'[r].n = runs /\ runs < runs'
                       \/ s = r /\ r \in Busy /\ run'[r].n = run[r].n /\ run[r].pc # "extract"
  BY <1>3 DEF Busy
<1>5. ASSUME NEW s \in Busy', NEW t \in Busy', run'[s].n = run'[t].n PROVE s = t
  BY <1>1, <1>2, <1>4, <1>5 DEF Numbered
<1>6. ASSUME NEW m, Counted(m) PROVE Counted(m)'
  <2>1. m.made \in Nat /\ m.made < runs /\ \A s \in Busy : m.made = run[s].n => run[s].pc = "extract" /\ m.of \notin run[s].todo
    BY <1>6 DEF Counted
  <2>2. ASSUME NEW s \in Busy', m.made = run'[s].n
        PROVE  run'[s].pc = "extract" /\ m.of \notin run'[s].todo
    <3>1. CASE s \in Busy /\ run'[s] = run[s]  BY <2>1, <2>2, <3>1
    <3>2. CASE s = r /\ run'[r].n = runs  BY <1>1, <2>1, <2>2, <3>2
    <3>3. CASE s = r /\ r \in Busy /\ run'[r].n = run[r].n /\ run[r].pc # "extract"
      BY <2>1, <2>2, <3>3
    <3> QED  BY <1>4, <3>1, <3>2, <3>3
  <2>3. m.made \in Nat /\ m.made < runs'  BY <1>1, <2>1
  <2> QED  BY <2>2, <2>3 DEF Counted
<1> QED  BY <1>5, <1>6

ShownInv == AllBacked /\ NoneKept /\ Numbered /\ Planned

\* A step that extracts nothing: its copies come of copies, its runs keep the
\* numbers, and what a run newly plans is sound.
LEMMA StepShown ==
  ASSUME TypeInv, ShownInv, UNCHANGED <<store, found>>, torn \subseteq torn', runs' \in Nat, runs <= runs',
         NEW r \in Runners, \A s \in Runners \ {r} : run'[s] = run[s],
         \A man2 \in Copies' : \E man \in Copies : \A f \in Files :
           Comes(man2[f], man[f], f \notin torn'),
         \/ run'[r].pc # "extract" \/ run'[r] = run[r]
         \/ \A f \in Files :
              /\ f \in run'[r].todo => Stale(run'[r].man[f]) # {}
              /\ f \in run'[r].todo \ torn' => run'[r].text[f] = run'[r].man[f].sum
              /\ f \notin torn' => \A h \in run'[r].bare[f] : run'[r].man[f].sum[h] = Blank,
         \/ run'[r] = Resting \/ run'[r] = run[r]
         \/ run'[r].n = runs /\ runs < runs'
         \/ r \in Busy /\ run'[r].n = run[r].n /\ run[r].pc # "extract"
  PROVE  ShownInv'
<1> USE DEF ShownInv
<1>1. /\ AllBacked' /\ NoneKept'
      /\ \A man2 \in Copies' : \A f \in Files :
           \/ man2[f] = NoEntry \/ man2[f].doc = NoDoc
           \/ \E man \in Copies : man[f] # NoEntry /\ man2[f].doc = man[f].doc
  BY DerivedCopies
<1>2. /\ \A s, t \in Busy' : run'[s].n = run'[t].n => s = t
      /\ \A m : Counted(m) => Counted(m)'
  BY NumbersKept
<1>3. \A man2 \in Copies' : \A f \in Files :
        man2[f] = NoEntry \/ man2[f].doc = NoDoc \/ Counted(man2[f].doc)'
  <2> SUFFICES ASSUME NEW man2 \in Copies', NEW f \in Files, man2[f] # NoEntry, man2[f].doc # NoDoc
               PROVE  Counted(man2[f].doc)'
    OBVIOUS
  <2>1. PICK man \in Copies : man[f] # NoEntry /\ man2[f].doc = man[f].doc  BY <1>1
  <2>2. Counted(man[f].doc)  BY <2>1 DEF Numbered
  <2>3. PICK d : d = man[f].doc  OBVIOUS
  <2>4. Counted(d)'  BY <1>2, <2>2, <2>3
  <2> QED  BY <2>1, <2>3, <2>4
<1>4. NoDoc \notin store' /\ \A m \in store' : Counted(m)'
  BY <1>2 DEF Numbered
<1>5. Numbered'  BY <1>2, <1>3, <1>4 DEF Numbered
<1>6. Planned'
  <2> SUFFICES ASSUME NEW s \in Runners, run'[s].pc = "extract", NEW f \in Files
               PROVE  /\ f \in run'[s].todo => Stale(run'[s].man[f]) # {}
                      /\ f \in run'[s].todo \ torn' => run'[s].text[f] = run'[s].man[f].sum
                      /\ f \notin torn' => \A h \in run'[s].bare[f] : run'[s].man[f].sum[h] = Blank
    BY DEF Planned
  <2>1. CASE run'[s] = run[s]
    <3>1. /\ f \in run[s].todo => Stale(run[s].man[f]) # {}
          /\ f \in run[s].todo \ torn => run[s].text[f] = run[s].man[f].sum
          /\ f \notin torn => \A h \in run[s].bare[f] : run[s].man[f].sum[h] = Blank
      BY <2>1 DEF Planned
    <3> QED  BY <2>1, <3>1
  <2>2. CASE s = r /\ run'[r] # run[r]  BY <2>2
  <2> QED  BY <2>1, <2>2
<1> QED  BY <1>1, <1>5, <1>6

\* Every copy after a step that changes one run is the file's, the loop's or that
\* run's, or was one before.
LEMMA CopiesAfter ==
  ASSUME NEW r \in Runners, \A s \in Runners \ {r} : run'[s] = run[s], NEW man2 \in Copies'
  PROVE  \/ man2 = saved' \/ man2 = watch'.copy
         \/ run'[r] # Resting /\ man2 = run'[r].man
         \/ man2 \in Copies
BY DEF Copies, Busy

\* A copy comes of itself, and the empty manifest of any.
LEMMA SelfComes ==
  ASSUME NEW man, NEW b
  PROVE  \A f \in Files : /\ Comes(man[f], man[f], f \notin b)
                          /\ Comes([g \in Files |-> NoEntry][f], man[f], f \notin b)
BY ComesNone

\* Every step but an extraction.
LEMMA OthersShown ==
  ASSUME TypeInv, ShownInv, [VaultNext]_vaultVars,
         ~ \E r \in Runners, f \in Files : Extract(r, f)
  PROVE  ShownInv'
<1>0. /\ disk \in [Files -> Texts \cup {Gone}] /\ runs \in Nat /\ Loop \in Runners
      /\ saved \in Copies /\ watch.copy \in Copies
      /\ IsManifest(saved) /\ IsManifest(watch.copy) /\ WatchTyped
  BY TypeParts DEF TypeInv, Copies, Runners
<1> USE DEF Idle
<1> DEFINE Derived == \A man2 \in Copies' : \E man \in Copies : \A f \in Files :
                        Comes(man2[f], man[f], f \notin torn')
<1>a. ASSUME NEW man2 \in Copies PROVE \E man \in Copies : \A f \in Files : Comes(man2[f], man[f], f \notin torn')
  BY <1>a, SelfComes
\* A step that leaves the runs and what was extracted alone.
<1>b. ASSUME UNCHANGED <<store, found, torn, run, runs>>,
             \E man \in Copies : \A f \in Files : Comes(saved'[f], man[f], f \notin torn'),
             \E man \in Copies : \A f \in Files : Comes(watch'.copy[f], man[f], f \notin torn')
      PROVE  ShownInv'
  <2>1. Derived
    <3> SUFFICES ASSUME NEW man2 \in Copies'
                 PROVE  \E man \in Copies : \A f \in Files : Comes(man2[f], man[f], f \notin torn')
      OBVIOUS
    <3>1. man2 = saved' \/ man2 = watch'.copy \/ man2 \in Copies  BY <1>b DEF Copies, Busy
    <3> QED  BY <1>a, <1>b, <3>1
  <2>2. torn \subseteq torn' /\ runs' \in Nat /\ runs <= runs' /\ UNCHANGED <<store, found>>
    BY <1>0, <1>b
  <2>3. run'[Loop] = run[Loop] /\ \A s \in Runners \ {Loop} : run'[s] = run[s]  BY <1>b
  <2> HIDE DEF Derived
  <2> QED  BY <1>0, <2>1, <2>2, <2>3, StepShown DEF Derived
<1> HIDE DEF Derived
<1>1. ASSUME NEW f \in Files, Receive(f) PROVE ShownInv'
  <2>1. UNCHANGED <<store, found, torn, run, runs, saved>>  BY <1>1 DEF Receive
  <2>2. watch'.copy = watch.copy  BY <1>1, Received
  <2> QED  BY <1>0, <1>a, <1>b, <2>1, <2>2
<1>15. ASSUME CatchUp PROVE ShownInv'
  <2>1. UNCHANGED <<store, found, torn, run, runs>>  BY <1>15 DEF CatchUp
  <2>2. PICK unread : watch' = CaughtUp(unread) /\ (saved' = saved \/ saved' = watch'.copy)
    BY <1>15 DEF CatchUp
  <2> DEFINE man2 == Phase1(saved, Changed(saved) \ unread)
  <2>3. \A g \in Files : Comes(man2[g], saved[g], TRUE)  BY <1>0, Phase1Entries
  <2>4. \A g \in Files : Comes(man2[g], saved[g], g \notin torn')
    <3> HIDE DEF man2
    <3> QED  BY <2>3 DEF Comes
  <2>5. watch'.copy = man2  BY <2>2, CaughtUpWatch
  <2> HIDE DEF man2
  <2>6. saved' = saved \/ saved' = man2  BY <2>2, <2>5
  <2> QED  BY <1>0, <1>a, <1>b, <2>1, <2>4, <2>5, <2>6
<1>16. ASSUME CatchUpFails PROVE ShownInv'
  <2>1. UNCHANGED <<store, found, torn, run, runs, saved>>  BY <1>16 DEF CatchUpFails
  <2>2. watch'.copy = watch.copy  BY <1>16, CaughtUpNot
  <2> QED  BY <1>0, <1>a, <1>b, <2>1, <2>2
<1>2. ASSUME NEW f \in Files, NEW text, Edit(f, text) PROVE ShownInv'
  <2>1. UNCHANGED <<store, found, torn, run, runs, saved, watch>>  BY <1>2 DEF Edit
  <2> QED  BY <1>0, <1>a, <1>b, <2>1
<1>4. ASSUME Phase1Tick PROVE ShownInv'
  <2>1. UNCHANGED <<store, found, torn, run, runs>>  BY <1>4 DEF Phase1Tick
  <2>2. PICK old \in {saved, watch.copy}, unread \in SUBSET Present :
          saved' \in {saved, Ticks(old, unread)} /\ watch'.copy = Ticks(old, unread)
    BY <1>4, Ticked
  <2> DEFINE m1 == Phase1(old, watch.creates \ unread)
             m2 == Ticks(old, unread)
  <2>3. IsManifest(m1) /\ \A g \in Files : Comes(m1[g], old[g], TRUE)  BY <1>0, Phase1Entries
  <2>4. \A g \in Files : Comes(m2[g], m1[g], TRUE)
    <3> HIDE DEF m1
    <3> QED  BY <2>3, DeletedEntries DEF Ticks, m1
  <2> HIDE DEF m1, m2
  <2>5. \A g \in Files : Comes(m2[g], old[g], TRUE)  BY <2>3, <2>4, ComesTwice
  <2>6. \A g \in Files : Comes(m2[g], old[g], g \notin torn')  BY <2>5 DEF Comes
  <2>7. old \in Copies /\ watch'.copy = m2 /\ (saved' = saved \/ saved' = m2)
    BY <1>0, <2>2 DEF m2
  <2> QED  BY <1>0, <1>a, <1>b, <2>1, <2>6, <2>7
<1>5. ASSUME LoopPhase2 PROVE ShownInv'
  <2>0. PICK man1 \in {saved, watch.copy}, unread \in SUBSET Present :
          watch' = [watch EXCEPT !.copy = man1] /\ Phase2Begin(Loop, man1, runs, man1, unread)
    BY <1>5 DEF LoopPhase2
  <2>a. IsManifest(man1) /\ man1 \in Copies  BY <1>0
  <2>1. runs' = runs + 1 /\ UNCHANGED <<store, found>> /\ saved' = saved
    BY <1>5 DEF LoopPhase2
  <2>2. /\ run' = [run EXCEPT ![Loop] = run'[Loop]]
        /\ run'[Loop].n = runs /\ run'[Loop].man = man1 /\ torn \subseteq torn'
        /\ run'[Loop].todo \subseteq Files
        /\ \A f \in run'[Loop].todo :
              Stale(man1[f]) # {} /\ (f \notin torn' => run'[Loop].text[f] = man1[f].sum)
        /\ \A f \in Files : f \notin torn' => \A h \in run'[Loop].bare[f] : man1[f].sum[h] = Blank
    <3>1. RunBegins(Loop, runs, man1, man1)  BY <1>0, <2>0, <2>a, Begun
    <3> QED  BY <3>1 DEF RunBegins
  <2>3. \A s \in Runners \ {Loop} : run'[s] = run[s]  BY <2>2 DEF TypeInv
  <2>4. watch'.copy = man1  BY <1>0, <2>0, <2>a, WatchCopied
  <2>5. Derived
    <3> SUFFICES ASSUME NEW man2 \in Copies'
                 PROVE  \E man \in Copies : \A f \in Files : Comes(man2[f], man[f], f \notin torn')
      BY DEF Derived
    <3>1. man2 \in Copies  BY <1>0, <2>a, <2>1, <2>2, <2>3, <2>4, CopiesAfter
    <3> QED  BY <1>a, <3>1
  <2>6. runs' \in Nat /\ runs <= runs' /\ runs < runs'  BY <1>0, <2>1
  <2>7. \A f \in Files :
              /\ f \in run'[Loop].todo => Stale(run'[Loop].man[f]) # {}
              /\ f \in run'[Loop].todo \ torn' => run'[Loop].text[f] = run'[Loop].man[f].sum
              /\ f \notin torn' => \A h \in run'[Loop].bare[f] : run'[Loop].man[f].sum[h] = Blank
    BY <2>2
  <2> QED  BY <1>0, <2>1, <2>2, <2>3, <2>5, <2>6, <2>7, StepShown DEF Derived
<1>6. ASSUME LoopPhase2Fails PROVE ShownInv'
  <2>1. UNCHANGED <<store, found, torn, run, runs, saved>>  BY <1>6 DEF LoopPhase2Fails
  <2>2. PICK man \in {saved, watch.copy} : watch' = [watch EXCEPT !.copy = man, !.stale = FALSE]
    BY <1>6 DEF LoopPhase2Fails
  <2>3. watch'.copy = man /\ man \in Copies  BY <1>0, <2>2, WatchCopied
  <2> QED  BY <1>0, <1>a, <1>b, <2>1, <2>3
\* The end of a run, with or without its manifest.
<1>c. ASSUME NEW r \in Runners, run[r].pc = "extract", run' = [run EXCEPT ![r] = Resting],
             UNCHANGED <<store, found, torn, runs>>, saved' \in {saved, Settled(run[r])},
             watch'.copy \in {watch.copy, Settled(run[r])}
      PROVE  ShownInv'
  <2> DEFINE new == Settled(run[r])
  <2>0. saved' \in {saved, new} /\ watch'.copy \in {watch.copy, new}  BY <1>c
  <2>1. run[r].man \in Copies  BY <1>c, RunIsCopy
  <2>2. \A f \in Files : Comes(new[f], run[r].man[f], f \notin torn')
    <3> SUFFICES ASSUME NEW f \in Files PROVE Comes(new[f], run[r].man[f], f \notin torn')
      OBVIOUS
    <3>1. CASE f \in torn
      <4>1. Comes(new[f], run[r].man[f], FALSE)  BY <1>c, SettledEntries
      <4> QED  BY <1>c, <3>1, <4>1 DEF Comes
    <3>2. CASE f \notin torn
      <4>1. \A h \in run[r].bare[f] : run[r].man[f].sum[h] = Blank
        BY <1>c, <3>2 DEF ShownInv, Planned
      <4>2. Comes(new[f], run[r].man[f], TRUE)  BY <1>c, <4>1, SettledEntries
      <4> QED  BY <1>c, <3>2, <4>2 DEF Comes
    <3> QED  BY <3>1, <3>2
  <2> HIDE DEF new
  <2>3. run'[r] = Resting /\ \A s \in Runners \ {r} : run'[s] = run[s]  BY <1>c, RunEnds
  <2>4. Derived
    <3> SUFFICES ASSUME NEW man2 \in Copies'
                 PROVE  \E man \in Copies : \A f \in Files : Comes(man2[f], man[f], f \notin torn')
      BY DEF Derived
    <3>1. man2 = new \/ man2 \in Copies  BY <1>0, <2>0, <2>3, CopiesAfter
    <3> QED  BY <1>a, <2>1, <2>2, <3>1
  <2>5. run'[r].pc # "extract"  BY <2>3, RestingIsRun
  <2>6. UNCHANGED <<store, found>> /\ torn \subseteq torn' /\ runs' \in Nat /\ runs <= runs'  BY <1>0, <1>c
  <2> QED  BY <2>3, <2>4, <2>5, <2>6, StepShown DEF Derived
<1>7. ASSUME LoopSave PROVE ShownInv'
  <2>1. run[Loop].pc = "extract" /\ run' = [run EXCEPT ![Loop] = Resting]
        /\ UNCHANGED <<store, found, torn, runs>> /\ saved' \in {saved, Settled(run[Loop])}
        /\ watch' = [watch EXCEPT !.copy = Settled(run[Loop]), !.stale = FALSE]
    BY <1>7 DEF LoopSave
  <2>2. IsManifest(Settled(run[Loop]))  BY <1>0, <2>1, SettledEntries
  <2>3. watch'.copy = Settled(run[Loop])  BY <1>0, <2>1, <2>2, WatchCopied
  <2> QED  BY <1>0, <1>c, <2>1, <2>3
<1>8. ASSUME NEW i \in Indexers, IndexAsk(i) PROVE ShownInv'
  <2> DEFINE p == [pc |-> "load", n |-> runs, man |-> saved]
  <2>1. i \in Runners /\ runs' = runs + 1 /\ UNCHANGED <<store, found, torn, saved, watch>>
        /\ run' = [run EXCEPT ![i] = p]
    BY <1>8 DEF IndexAsk, Runners
  <2>2. p.n = runs /\ p.man = saved /\ p.pc = "load"  BY LoadIsRun
  <2> HIDE DEF p
  <2>3. run'[i] = p /\ \A s \in Runners \ {i} : run'[s] = run[s]  BY <2>1 DEF TypeInv
  <2>4. Derived
    <3> SUFFICES ASSUME NEW man2 \in Copies'
                 PROVE  \E man \in Copies : \A f \in Files : Comes(man2[f], man[f], f \notin torn')
      BY DEF Derived
    <3>1. man2 \in Copies  BY <1>0, <2>1, <2>2, <2>3, CopiesAfter
    <3> QED  BY <1>a, <3>1
  <2>5. runs' \in Nat /\ runs <= runs' /\ runs < runs' /\ torn \subseteq torn' /\ UNCHANGED <<store, found>>
    BY <1>0, <2>1
  <2> QED  BY <2>1, <2>2, <2>3, <2>4, <2>5, StepShown DEF Derived
<1>9. ASSUME NEW i \in Indexers, IndexPhase1(i) PROVE ShownInv'
  <2>0. PICK unread \in SUBSET Present :
          LET man == Phase1(run[i].man, Present \ unread)
          IN  /\ saved' \in {saved, man}
              /\ run' = [run EXCEPT ![i] = [pc |-> "parsed", n |-> run[i].n, man |-> man, base |-> man]]
    BY <1>9 DEF IndexPhase1
  <2> DEFINE new == Phase1(run[i].man, Present \ unread)
             p == [pc |-> "parsed", n |-> run[i].n, man |-> new, base |-> new]
  <2>1. i \in Runners /\ run[i].pc = "load" /\ UNCHANGED <<store, found, torn, runs, watch>>
        /\ run' = [run EXCEPT ![i] = p] /\ saved' \in {saved, new}
    BY <1>9, <2>0 DEF IndexPhase1, Runners
  <2>2. p.n = run[i].n /\ p.man = new /\ p.pc = "parsed"  BY ParsedIsRun
  <2> HIDE DEF p
  <2>3. run'[i] = p /\ \A s \in Runners \ {i} : run'[s] = run[s]  BY <2>1 DEF TypeInv
  <2>4. run[i].man \in Copies /\ i \in Busy /\ IsManifest(run[i].man)
    BY <2>1, RunIsCopy, RunShape DEF Resting
  <2>5. \A f \in Files : Comes(new[f], run[i].man[f], TRUE)  BY <1>0, <2>4, Phase1Entries
  <2> HIDE DEF new
  <2>6. \A f \in Files : Comes(new[f], run[i].man[f], f \notin torn')  BY <2>5 DEF Comes
  <2>7. Derived
    <3> SUFFICES ASSUME NEW man2 \in Copies'
                 PROVE  \E man \in Copies : \A f \in Files : Comes(man2[f], man[f], f \notin torn')
      BY DEF Derived
    <3>1. man2 = new \/ man2 \in Copies  BY <1>0, <2>1, <2>2, <2>3, CopiesAfter
    <3> QED  BY <1>a, <2>4, <2>6, <3>1
  <2>8. runs' \in Nat /\ runs <= runs' /\ torn \subseteq torn' /\ UNCHANGED <<store, found>>
    BY <1>0, <2>1
  <2>9. run[i].pc # "extract" /\ run'[i].pc # "extract" /\ run'[i].n = run[i].n
    BY <2>1, <2>2, <2>3
  <2> QED  BY <2>1, <2>3, <2>4, <2>7, <2>8, <2>9, StepShown DEF Derived
<1>10. ASSUME NEW i \in Indexers, IndexPhase2(i) PROVE ShownInv'
  <2>1. i \in Runners /\ run[i].pc = "parsed" /\ UNCHANGED <<store, found, runs, saved, watch>>
    BY <1>10 DEF IndexPhase2, Runners
  <2>0. PICK unread : Phase2Begin(i, run[i].man, run[i].n, run[i].base, unread)
    BY <1>10 DEF IndexPhase2
  <2>2. IsManifest(run[i].man) /\ IsManifest(run[i].base) /\ i \in Busy /\ run[i].man \in Copies
    BY <2>1, RunShape, RunIsCopy DEF Resting
  <2> DEFINE man1 == run[i].man
  <2>3. /\ run' = [run EXCEPT ![i] = run'[i]]
        /\ run'[i].n = run[i].n /\ run'[i].man = man1 /\ torn \subseteq torn'
        /\ run'[i].todo \subseteq Files
        /\ \A f \in run'[i].todo :
              Stale(man1[f]) # {} /\ (f \notin torn' => run'[i].text[f] = man1[f].sum)
        /\ \A f \in Files : f \notin torn' => \A h \in run'[i].bare[f] : man1[f].sum[h] = Blank
    <3>1. RunBegins(i, run[i].n, man1, run[i].base)  BY <2>0, <2>1, <2>2, Begun
    <3> QED  BY <3>1 DEF RunBegins
  <2>4. \A s \in Runners \ {i} : run'[s] = run[s]  BY <2>3 DEF TypeInv
  <2>5. Derived
    <3> SUFFICES ASSUME NEW man2 \in Copies'
                 PROVE  \E man \in Copies : \A f \in Files : Comes(man2[f], man[f], f \notin torn')
      BY DEF Derived
    <3>1. man2 \in Copies  BY <1>0, <2>1, <2>2, <2>3, <2>4, CopiesAfter
    <3> QED  BY <1>a, <3>1
  <2>6. runs' \in Nat /\ runs <= runs' /\ UNCHANGED <<store, found>>  BY <1>0, <2>1
  <2>7. \A f \in Files :
              /\ f \in run'[i].todo => Stale(run'[i].man[f]) # {}
              /\ f \in run'[i].todo \ torn' => run'[i].text[f] = run'[i].man[f].sum
              /\ f \notin torn' => \A h \in run'[i].bare[f] : run'[i].man[f].sum[h] = Blank
    BY <2>3
  <2>8. run[i].pc # "extract"  BY <2>1
  <2> QED  BY <2>1, <2>2, <2>3, <2>4, <2>5, <2>6, <2>7, <2>8, StepShown DEF Derived
<1>11. ASSUME NEW i \in Indexers, IndexFails(i) PROVE ShownInv'
  <2>1. i \in Runners /\ run' = [run EXCEPT ![i] = Resting]
        /\ UNCHANGED <<store, found, torn, runs, saved, watch>>
    BY <1>11 DEF IndexFails, Runners
  <2>2. run'[i] = Resting /\ \A s \in Runners \ {i} : run'[s] = run[s]  BY <2>1, RunEnds
  <2>3. Derived
    <3> SUFFICES ASSUME NEW man2 \in Copies'
                 PROVE  \E man \in Copies : \A f \in Files : Comes(man2[f], man[f], f \notin torn')
      BY DEF Derived
    <3>1. man2 \in Copies  BY <1>0, <2>1, <2>2, CopiesAfter
    <3> QED  BY <1>a, <3>1
  <2>4. run'[i].pc # "extract"  BY <2>2, RestingIsRun
  <2>5. UNCHANGED <<store, found>> /\ torn \subseteq torn' /\ runs' \in Nat /\ runs <= runs'  BY <1>0, <2>1
  <2> QED  BY <2>1, <2>2, <2>3, <2>4, <2>5, StepShown DEF Derived
<1>12. ASSUME NEW i \in Indexers, IndexSave(i) PROVE ShownInv'
  <2>1. i \in Runners /\ run[i].pc = "extract" /\ run' = [run EXCEPT ![i] = Resting]
        /\ UNCHANGED <<store, found, torn, runs, watch>> /\ saved' \in {saved, Settled(run[i])}
    BY <1>12 DEF IndexSave, Runners
  <2> QED  BY <1>c, <2>1
<1>13. ASSUME Evict \/ Reopen \/ UNCHANGED vaultVars PROVE ShownInv'
  <2>1. UNCHANGED <<store, found, torn, run, runs, saved, watch>>  BY <1>13 DEF Evict, Reopen, vaultVars
  <2> QED  BY <1>0, <1>a, <1>b, <2>1
<1>14. ASSUME Crash \/ Shutdown PROVE ShownInv'
  <2>1. PICK man \in {saved, watch.copy} : Halt(man)  BY <1>14 DEF Crash, Shutdown
  <2>2. UNCHANGED <<store, found, torn, runs>>  BY <2>1 DEF Halt
  <2>3. saved' \in Copies /\ watch' = Untracked /\ \A r \in Runners : run'[r] = Resting
    BY <1>0, <2>1, Halted
  <2>4. watch'.copy = [f \in Files |-> NoEntry]  BY <2>3 DEF Untracked
  <2>5. \A f \in Files : Comes(watch'.copy[f], saved[f], f \notin torn')  BY <2>4, SelfComes
  <2>6. Copies' \subseteq {saved', watch'.copy} /\ Busy' = {}  BY <2>3 DEF Copies, Busy
  <2>7. Derived
    <3> SUFFICES ASSUME NEW man2 \in Copies'
                 PROVE  \E m \in Copies : \A f \in Files : Comes(man2[f], m[f], f \notin torn')
      BY DEF Derived
    <3> QED  BY <1>0, <1>a, <2>3, <2>5, <2>6
  <2>8. /\ AllBacked' /\ NoneKept'
        /\ \A man2 \in Copies' : \A f \in Files :
             \/ man2[f] = NoEntry \/ man2[f].doc = NoDoc
             \/ \E m \in Copies : m[f] # NoEntry /\ man2[f].doc = m[f].doc
    BY <2>2, <2>7, DerivedCopies DEF ShownInv, Derived
  <2>9. \A m : Counted(m) => Counted(m)'  BY <2>2, <2>6 DEF Counted
  <2>10. \A man2 \in Copies' : \A f \in Files :
          man2[f] = NoEntry \/ man2[f].doc = NoDoc \/ Counted(man2[f].doc)'
    <3> SUFFICES ASSUME NEW man2 \in Copies', NEW f \in Files, man2[f] # NoEntry, man2[f].doc # NoDoc
                 PROVE  Counted(man2[f].doc)'
      OBVIOUS
    <3>1. PICK m \in Copies : m[f] # NoEntry /\ man2[f].doc = m[f].doc  BY <2>8
    <3>2. Counted(m[f].doc)  BY <3>1 DEF ShownInv, Numbered
    <3>3. PICK d : d = m[f].doc  OBVIOUS
    <3>4. Counted(d)'  BY <2>9, <3>2, <3>3
    <3> QED  BY <3>1, <3>3, <3>4
  <2>11. Numbered'  BY <2>2, <2>6, <2>9, <2>10 DEF ShownInv, Numbered
  <2>12. Planned'  BY <2>3, RestingIsRun DEF Planned
  <2> QED  BY <2>8, <2>11, <2>12 DEF ShownInv
<1> QED  BY <1>1, <1>2, <1>4, <1>5, <1>6, <1>7, <1>8, <1>9, <1>10, <1>11, <1>12,
            <1>13, <1>14, <1>15, <1>16 DEF VaultNext

-----------------------------------------------------------------------------
(* SyncedRepresented: an extraction, and the theorem                       *)

\* An extraction deletes no memory that shows a synced section of any copy, and
\* what it newly calls synced is shown by a memory it has stored.
LEMMA ExtractShown ==
  ASSUME TypeInv, ShownInv, NEW r \in Runners, NEW f \in Files, Extract(r, f)
  PROVE  ShownInv'
<1> USE DEF ShownInv
<1> DEFINE man == run[r].man
           e == man[f]
           e2 == run'[r].man[f]
           man2 == [man EXCEPT ![f] = e2]
           text == run[r].text[f]
<1>1. /\ run[r].pc = "extract" /\ f \in run[r].todo
      /\ UNCHANGED <<saved, watch, runs, torn>>
  BY DEF Extract
<1>2. /\ man \in Copies /\ r \in Busy /\ IsManifest(man)
      /\ run[r] = ExtractOf(run[r]) /\ run[r].todo \subseteq Files /\ run[r].n \in Nat /\ run[r].n < runs
  BY <1>1, RunIsCopy, RunShape DEF Resting
<1>3. Stale(e) # {} /\ e.props = {}  BY Extractable
<1>4. /\ run' = [run EXCEPT ![r] = run'[r]]
      /\ run'[r] = ExtractOf([run[r] EXCEPT !.todo = @ \ {f}, !.man = [@ EXCEPT ![f] = e2]])
      /\ IsEntry(e2) /\ e2 # NoEntry /\ e2.sum = e.sum /\ Live(e2) = Live(e)
      /\ store \ {e.doc} \subseteq store' /\ found \subseteq found'
      /\ \A m \in store' : m \in store \/ MadeBy(m, r, f)
      /\ e2.doc = e.doc \/ MadeBy(e2.doc, r, f)
      /\ \/ Stale(e2) # {} /\ e2.props = {} /\ In(e2, "synced") = In(e, "synced")
         \/ /\ Stale(e2) = {} /\ In(e2, "synced") = In(e, "synced") \cup Stale(e)
            /\ \/ \E m \in store' : MadeBy(m, r, f) /\ m.from = text
               \/ \E m \in found' : m.of = f /\ m.from = text
  <2>1. RunExtracts(r, f)  BY <1>3, Extracted
  <2> QED  BY <2>1 DEF RunExtracts
<1>5. /\ run'[r].pc = "extract" /\ run'[r].n = run[r].n /\ run'[r].man = man2
      /\ run'[r].todo = run[r].todo \ {f} /\ run'[r].text = run[r].text /\ run'[r].bare = run[r].bare
  <2> DEFINE m == man2
             q == [run[r] EXCEPT !.todo = @ \ {f}, !.man = m]
  <2>1. run'[r] = ExtractOf(q)  BY <1>4
  <2> HIDE DEF m
  <2>2. DOMAIN run[r] = {"pc", "n", "man", "base", "todo", "text", "bare", "gone"}
    BY <1>2 DEF ExtractOf
  <2>3. q.n = run[r].n /\ q.man = m /\ q.todo = run[r].todo \ {f} /\ q.text = run[r].text
        /\ q.bare = run[r].bare
    BY <2>2
  <2> HIDE DEF q
  <2> QED  BY <2>1, <2>3 DEF ExtractOf, m
<1>6. \A s \in Runners \ {r} : run'[s] = run[s]  BY <1>4 DEF TypeInv
<1>7. man2[f] = e2 /\ \A g \in Files \ {f} : man2[g] = man[g]  BY <1>2 DEF IsManifest
<1>8. run'[r] # Resting  BY <1>5, RestingIsRun
<1>9. Busy' = Busy /\ \A s \in Busy : run'[s].n = run[s].n
  BY <1>2, <1>5, <1>6, <1>8 DEF Busy
<1>10. e # NoEntry  BY <1>3 DEF Stale, In
<1> HIDE DEF man2
<1>11. ASSUME NEW c \in Copies' PROVE c \in Copies \/ c = man2
  <2>1. \/ c = saved' \/ c = watch'.copy \/ c = run'[r].man \/ c \in Copies
    BY <1>6, <1>11, CopiesAfter
  <2> QED  BY <1>1, <1>5, <2>1 DEF Copies
<1> HIDE DEF man, e, e2
\* A memory that was stored and is not of this run is doomed now if it was before.
<1>12. \A m : Counted(m) => ~MadeBy(m, r, f)  BY <1>1, <1>2 DEF Counted, MadeBy
<1>13. \A m \in store : Counted(m)  BY DEF Numbered
<1>14. ASSUME NEW m, m # NoDoc, Doomed(m)' PROVE Doomed(m) \/ (MadeBy(m, r, f) /\ Stale(e2) # {})
  <2>1. PICK c \in Copies' : \E g \in Files : Stale(c[g]) # {} /\ c[g].doc = m
    BY <1>14 DEF Doomed
  <2>2. PICK g \in Files : Stale(c[g]) # {} /\ c[g].doc = m  BY <2>1
  <2>3. CASE c \in Copies  BY <2>2, <2>3 DEF Doomed
  <2>4. CASE c = man2 /\ g # f
    <3>1. Stale(man[g]) # {} /\ man[g].doc = m  BY <1>7, <2>2, <2>4
    <3> QED  BY <1>2, <3>1 DEF Doomed, man
  <2>5. CASE c = man2 /\ g = f
    <3>1. Stale(e2) # {} /\ e2.doc = m  BY <1>7, <2>2, <2>5
    <3>2. CASE e2.doc = e.doc  BY <1>2, <1>3, <3>1, <3>2 DEF Doomed, e, man
    <3>3. CASE MadeBy(e2.doc, r, f)  BY <3>1, <3>3
    <3> QED  BY <1>4, <3>2, <3>3
  <2> QED  BY <1>11, <2>3, <2>4, <2>5
<1>15. ASSUME NEW m \in store, ~Doomed(m) PROVE m \in store' /\ ~Doomed(m)'
  <2>1. m # e.doc  BY <1>2, <1>3, <1>15 DEF Doomed, e, man
  <2>2. m # NoDoc /\ ~MadeBy(m, r, f)  BY <1>12, <1>13 DEF Numbered
  <2> QED  BY <1>4, <1>14, <1>15, <2>1, <2>2
<1>16. ASSUME NEW c, NEW g \in Files, c \in Copies, g \notin torn,
              NEW h \in In(c[g], "synced"), c[g].sum[h] # Blank
       PROVE  Shown(g, c[g].sum[h])'
  <2>1. PICK body : body = c[g].sum[h]  OBVIOUS
  <2>2. Shown(g, body)  BY <1>16, <2>1 DEF AllBacked, Backed
  <2>3. Shown(g, body)'  BY <1>4, <1>15, <2>2 DEF Shown, Shows
  <2> QED  BY <2>1, <2>3
<1>17. ASSUME f \notin torn, NEW h \in In(e2, "synced"), e2.sum[h] # Blank,
              NEW body, body = e2.sum[h]
       PROVE  Shown(f, body)'
  <2>0. body = e.sum[h]  BY <1>4, <1>17
  <2>1. CASE h \in In(e, "synced")
    <3>1. man \in Copies /\ e.sum[h] # Blank  BY <1>2, <1>17, <2>0
    <3>2. PICK c : c = man  OBVIOUS
    <3>3. Shown(f, c[f].sum[h])'  BY <1>16, <1>17, <2>1, <3>1, <3>2 DEF e
    <3>4. body = c[f].sum[h]  BY <2>0, <3>2 DEF e
    <3> QED  BY <3>3, <3>4
  <2>2. CASE h \notin In(e, "synced")
    <3>1. Stale(e2) = {} /\ h \in Stale(e)  BY <1>4, <1>17, <2>2
    <3>2. text = e.sum  BY <1>1, <1>17 DEF Planned, e, man
    <3>3. h \in DOMAIN e.sum
      <4>1. IsEntry(e)  BY <1>2 DEF IsManifest, e
      <4>2. h \in Live(e)  BY <1>10, <3>1 DEF Stale, In, Live
      <4> QED  BY <1>10, <4>1, <4>2 DEF IsEntry
    <3>4. body \in Bodies(text)  BY <1>17, <2>0, <3>2, <3>3 DEF Bodies
    <3>5. CASE \E m \in store' : MadeBy(m, r, f) /\ m.from = text
      <4>1. PICK m \in store' : MadeBy(m, r, f) /\ m.from = text  BY <3>5
      <4>2. Shows(m, f, body)  BY <3>4, <4>1 DEF Shows, MadeBy
      <4>3. ~Doomed(m)'
        <5>1. SUFFICES ASSUME Doomed(m)' PROVE FALSE
          OBVIOUS
        <5>2. m # NoDoc  BY <4>1 DEF MadeBy
        <5>3. Doomed(m)  BY <1>14, <3>1, <5>1, <5>2
        <5>4. PICK c \in Copies : \E g \in Files : Stale(c[g]) # {} /\ c[g].doc = m
          BY <5>3 DEF Doomed
        <5>5. PICK g \in Files : Stale(c[g]) # {} /\ c[g].doc = m  BY <5>4
        <5>6. c[g] # NoEntry  BY <5>5 DEF Stale, In
        <5>7. Counted(m)  BY <5>2, <5>5, <5>6 DEF Numbered
        <5> QED  BY <1>12, <4>1, <5>7
      <4> QED  BY <4>1, <4>2, <4>3 DEF Shown, Shows
    <3>6. CASE \E m \in found' : m.of = f /\ m.from = text
      BY <3>4, <3>6 DEF Shown, Shows
    <3> QED  BY <1>4, <3>1, <3>5, <3>6
  <2> QED  BY <2>1, <2>2
<1>18. AllBacked'
  <2> SUFFICES ASSUME NEW c \in Copies', NEW g \in Files \ torn' PROVE Backed(g, c[g])'
    BY DEF AllBacked
  <2>0. g \notin torn  BY <1>1
  <2>1. CASE c \in Copies  BY <1>16, <2>0, <2>1 DEF Backed
  <2>2. CASE c = man2 /\ g # f
    <3>1. c[g] = man[g] /\ man \in Copies  BY <1>2, <1>7, <2>2
    <3>2. \A h \in In(c[g], "synced") : c[g].sum[h] # Blank =>
            Shown(g, c[g].sum[h])'
      BY <1>16, <2>0, <3>1
    <3> QED  BY <3>1, <3>2 DEF Backed
  <2>3. CASE c = man2 /\ g = f
    <3>1. c[g] = e2  BY <1>7, <2>3
    <3>2. ASSUME NEW h \in In(c[g], "synced"), c[g].sum[h] # Blank PROVE Shown(g, c[g].sum[h])'
      <4>1. PICK body : body = c[g].sum[h]  OBVIOUS
      <4>2. Shown(g, body)'  BY <1>17, <2>0, <2>3, <3>1, <3>2, <4>1
      <4> QED  BY <4>1, <4>2
    <3> QED  BY <3>2 DEF Backed
  <2> QED  BY <1>11, <2>1, <2>2, <2>3
<1>19. NoneKept'
  <2> SUFFICES ASSUME NEW c \in Copies', NEW g \in Files, Stale(c[g]) # {} PROVE c[g].props = {}
    BY DEF NoneKept
  <2>1. CASE c \in Copies  BY <2>1 DEF NoneKept
  <2>2. CASE c = man2 /\ g # f  BY <1>2, <1>7, <2>2 DEF NoneKept
  <2>3. CASE c = man2 /\ g = f  BY <1>4, <1>7, <2>3
  <2> QED  BY <1>11, <2>1, <2>2, <2>3
<1>20. ASSUME NEW m, Counted(m) \/ MadeBy(m, r, f) PROVE Counted(m)'
  <2>1. CASE Counted(m)
    <3>1. ASSUME NEW s \in Busy', m.made = run'[s].n
          PROVE  run'[s].pc = "extract" /\ m.of \notin run'[s].todo
      <4>1. s \in Busy /\ m.made = run[s].n  BY <1>9, <3>1
      <4>2. run[s].pc = "extract" /\ m.of \notin run[s].todo  BY <2>1, <4>1 DEF Counted
      <4> QED  BY <1>5, <1>6, <4>1, <4>2 DEF Busy
    <3> QED  BY <1>1, <2>1, <3>1 DEF Counted
  <2>2. CASE MadeBy(m, r, f)
    <3>1. m.made = run[r].n /\ m.of = f  BY <2>2 DEF MadeBy
    <3>2. ASSUME NEW s \in Busy', m.made = run'[s].n
          PROVE  run'[s].pc = "extract" /\ m.of \notin run'[s].todo
      <4>1. s \in Busy /\ run[s].n = run[r].n  BY <1>9, <3>1, <3>2
      <4>2. s = r  BY <1>2, <4>1 DEF Numbered
      <4> QED  BY <1>5, <3>1, <4>2
    <3> QED  BY <1>1, <1>2, <3>1, <3>2 DEF Counted
  <2> QED  BY <1>20, <2>1, <2>2
<1>21. Numbered'
  <2>1. \A s, t \in Busy' : run'[s].n = run'[t].n => s = t  BY <1>9 DEF Numbered
  <2>2. NoDoc \notin store'  BY <1>4 DEF Numbered, MadeBy
  <2>3. \A m \in store' : Counted(m)'  BY <1>4, <1>13, <1>20
  <2>4. \A c \in Copies' : \A g \in Files : c[g] = NoEntry \/ c[g].doc = NoDoc \/ Counted(c[g].doc)'
    <3> SUFFICES ASSUME NEW c \in Copies', NEW g \in Files, c[g] # NoEntry, c[g].doc # NoDoc
                 PROVE  Counted(c[g].doc)'
      OBVIOUS
    <3> PICK d : d = c[g].doc  OBVIOUS
    <3> SUFFICES Counted(d) \/ MadeBy(d, r, f)  BY <1>20
    <3>1. CASE c \in Copies  BY <3>1 DEF Numbered
    <3>2. CASE c = man2 /\ g # f  BY <1>2, <1>7, <3>2 DEF Numbered
    <3>3. CASE c = man2 /\ g = f
      <4>1. d = e2.doc  BY <1>7, <3>3
      <4>2. e2.doc = e.doc => Counted(d)  BY <1>2, <1>10, <4>1 DEF Numbered, e, man
      <4> QED  BY <1>4, <4>1, <4>2
    <3> QED  BY <1>11, <3>1, <3>2, <3>3
  <2> QED  BY <2>1, <2>2, <2>3, <2>4 DEF Numbered
<1>22. Planned'
  <2> SUFFICES ASSUME NEW s \in Runners, run'[s].pc = "extract", NEW g \in Files
               PROVE  /\ g \in run'[s].todo => Stale(run'[s].man[g]) # {}
                      /\ g \in run'[s].todo \ torn' => run'[s].text[g] = run'[s].man[g].sum
                      /\ g \notin torn' => \A h \in run'[s].bare[g] : run'[s].man[g].sum[h] = Blank
    BY DEF Planned
  <2>0. run[s].pc = "extract" =>
          /\ g \in run[s].todo => Stale(run[s].man[g]) # {}
          /\ g \in run[s].todo \ torn => run[s].text[g] = run[s].man[g].sum
          /\ g \notin torn => \A h \in run[s].bare[g] : run[s].man[g].sum[h] = Blank
    BY DEF Planned
  <2>1. CASE s # r  BY <1>1, <1>6, <2>0, <2>1
  <2>2. CASE s = r /\ g # f  BY <1>1, <1>5, <1>7, <2>0, <2>2 DEF man
  <2>3. CASE s = r /\ g = f
    <3>1. g \notin run'[s].todo  BY <1>5, <2>3
    <3>2. run'[s].man[g] = e2 /\ e2.sum = e.sum /\ run'[s].bare = run[s].bare  BY <1>4, <1>5, <1>7, <2>3
    <3>3. g \notin torn => \A h \in run[s].bare[g] : e.sum[h] = Blank  BY <1>1, <2>0, <2>3 DEF e, man
    <3> QED  BY <1>1, <3>1, <3>2, <3>3
  <2> QED  BY <2>1, <2>2, <2>3
<1> QED  BY <1>18, <1>19, <1>21, <1>22

\* At the start there is no entry and no run.
LEMMA VaultStarts == VaultInit => TypeInv /\ ShownInv
<1> SUFFICES ASSUME VaultInit PROVE TypeInv /\ ShownInv
  OBVIOUS
<1>1. /\ saved = [f \in Files |-> NoEntry] /\ store = {} /\ watch = Untracked /\ runs = 0
      /\ run = [r \in Runners |-> Resting] /\ disk \in [Files -> Texts \cup {Gone}]
      /\ events = [f \in Files |-> <<>>]
  BY DEF VaultInit
<1>2. WatchTyped /\ IsManifest(saved)  BY <1>1, EmptyManifest, Untouched DEF WatchTyped
<1>3. RunTyped
  <2>1. run = [r \in Runners |-> run[r]] /\ \A r \in Runners : run[r] = Resting  BY <1>1
  <2> QED  BY <1>1, <2>1, RestingIsRun DEF RunTyped
<1>4. EventsTyped  BY <1>1 DEF EventsTyped
<1>5. Busy = {} /\ \A r \in Runners : run[r].pc # "extract"  BY <1>1, RestingIsRun DEF Busy
<1>6. watch.copy = saved  BY <1>1 DEF Untracked
<1>7. \A man \in Copies : \A f \in Files : man[f] = NoEntry  BY <1>1, <1>5, <1>6 DEF Copies
<1>8. AllBacked /\ NoneKept  BY <1>7 DEF AllBacked, Backed, NoneKept, Stale, In
<1>9. Numbered  BY <1>1, <1>5, <1>7 DEF Numbered
<1>10. Planned  BY <1>5 DEF Planned
<1> QED  BY <1>1, <1>2, <1>3, <1>4, <1>8, <1>9, <1>10, TypeParts DEF ShownInv

\* Every step keeps the copies backed.
LEMMA ShownKept == TypeInv /\ ShownInv /\ [VaultNext]_vaultVars => TypeInv' /\ ShownInv'
<1> SUFFICES ASSUME TypeInv, ShownInv, [VaultNext]_vaultVars PROVE TypeInv' /\ ShownInv'
  OBVIOUS
<1>1. TypeInv'  BY TypeKept DEF ShownInv
<1>2. ShownInv'  BY ExtractShown, OthersShown
<1> QED  BY <1>1, <1>2

\* Every synced section of the saved manifest is shown by a memory in the store,
\* its file not having changed under a run: for any files, texts and index commands,
\* any interleaving of their runs with the loop's, and crashes, shutdowns and failed
\* requests between any two of their steps (ingest.rs, extract.rs, daemon/mod.rs).
THEOREM SyncedStayRepresented == VaultSpec => []SyncedRepresented
<1>1. TypeInv /\ ShownInv => SyncedRepresented
  <2> SUFFICES ASSUME ShownInv, NEW f \in Files \ torn, NEW h \in In(saved[f], "synced"),
                      saved[f].sum[h] # Blank
               PROVE  \E m \in store \cup found : m.of = f /\ saved[f].sum[h] \in Bodies(m.from)
    BY DEF SyncedRepresented
  <2>1. saved \in Copies  BY DEF Copies
  <2>2. Backed(f, saved[f])  BY <2>1 DEF ShownInv, AllBacked
  <2> QED  BY <2>2 DEF Backed, Shown, Shows
<1> QED  BY <1>1, VaultStarts, ShownKept, PTL DEF VaultSpec

-----------------------------------------------------------------------------
(* SettledCurrent                                                          *)

SettledInv == AllAccounted /\ Faithful

\* A file stays accounted for while neither it nor what is known of its changes
\* changes, and its entry stays as current as it is.
LEMMA StaysAccounted ==
  ASSUME NEW f \in Files, Accounted(f), disk'[f] = disk[f], events'[f] = events[f],
         f \in watch'.creates <=> f \in watch.creates,
         f \in watch'.deletes <=> f \in watch.deletes,
         Current(f, saved[f]) => Current(f, saved[f])'
  PROVE  Accounted(f)'
<1>1. Kind(f)' = Kind(f)  BY DEF Kind
<1>2. CASE Reported(f)  BY <1>1, <1>2 DEF Accounted, Reported
<1>3. CASE Quiet(events[f], 0) /\ Filed(f)  BY <1>3 DEF Accounted, Filed
<1>4. CASE Quiet(events[f], 0) /\ (disk[f] # Gone => f \notin watch.deletes) /\ Current(f, saved[f])
  BY <1>4 DEF Accounted
<1> QED  BY <1>2, <1>3, <1>4 DEF Accounted

\* Runs stay faithful if the one that changes does.
LEMMA StayFaithful ==
  ASSUME Faithful, NEW r \in Runners, \A s \in Runners \ {r} : run'[s] = run[s],
         run'[r].pc = "extract" =>
           \A f \in Files : Alike(run'[r].man[f], run'[r].base[f], run'[r].gone[f])
  PROVE  Faithful'
<1> SUFFICES ASSUME NEW s \in Runners, run'[s].pc = "extract", NEW f \in Files
             PROVE  Alike(run'[s].man[f], run'[s].base[f], run'[s].gone[f])
  BY DEF Faithful, Alike, Live, In, NoEntry, Gone
<1>1. CASE s = r  BY <1>1
<1>2. CASE s # r
  <2>1. run'[s] = run[s]  BY <1>2
  <2> QED  BY <2>1 DEF Faithful
<1> QED  BY <1>1, <1>2

\* A run that begins is faithful to the manifest it read.
LEMMA BegunFaithful ==
  ASSUME NEW e PROVE Alike(e, e, In(e, "orphaned"))
BY DEF Alike

\* What a run writes over an entry that is as it read it is as current.
LEMMA SettledStaysCurrent ==
  ASSUME TypeInv, Faithful, NEW r \in Runners, run[r].pc = "extract", NEW f \in Files,
         saved' = Settled(run[r]), saved[f] = run[r].base[f], disk' = disk,
         Current(f, saved[f])
  PROVE  Current(f, saved[f])'
<1> DEFINE e == run[r].man[f]
<1>1. Alike(e, saved[f], run[r].gone[f])  BY DEF Faithful
<1>2. Live(saved'[f]) = Live(e) /\ (Live(e) # {} => saved'[f].sum = e.sum)
  BY <1>1, SettledEntries DEF Alike
<1>3. Live(e) = Live(saved[f]) /\ e.sum = saved[f].sum  BY <1>1 DEF Alike
<1>4. disk[f] # Gone => disk[f] \in Texts /\ DOMAIN disk[f] # {}
  BY TextsHaveSections DEF TypeInv
<1> HIDE DEF e
<1>5. CASE disk[f] = Gone  BY <1>2, <1>3, <1>5 DEF Current
<1>6. CASE disk[f] # Gone
  <2>1. saved[f].sum = disk[f] /\ Live(saved[f]) = DOMAIN disk[f]  BY <1>6 DEF Current
  <2>2. saved'[f].sum = disk[f] /\ Live(saved'[f]) = DOMAIN disk[f]  BY <1>2, <1>3, <1>4, <1>6, <2>1
  <2> QED  BY <1>6, <2>2 DEF Current
<1> QED  BY <1>5, <1>6

\* Receiving an event accounts for its file.
LEMMA ReceiveAccounts ==
  ASSUME TypeInv, AllAccounted, NEW f \in Files, Receive(f) PROVE AllAccounted'
<1> SUFFICES ASSUME NEW g \in Files \ excused' PROVE Accounted(g)'
  BY DEF AllAccounted
<1> DEFINE ev == Head(events[f])
           add == ev = "write" /\ disk[f] # Gone
           del == ev = "remove" \/ (ev = "write" /\ disk[f] = Gone)
<1>0. /\ disk' = disk /\ saved' = saved /\ excused' = excused
      /\ events' = [events EXCEPT ![f] = Tail(@)] /\ events[f] # <<>>
      /\ events \in [Files -> Seq({"write", "access", "remove"})]
  BY DEF TypeInv, Receive
<1>1. /\ watch'.creates = IF add THEN watch.creates \cup {f}
                          ELSE IF ev = "remove" THEN watch.creates \ {f} ELSE watch.creates
      /\ watch'.deletes = IF del THEN watch.deletes \cup {f}
                          ELSE IF add THEN watch.deletes \ {f} ELSE watch.deletes
  BY Received
<1>2. Accounted(g)  BY <1>0 DEF AllAccounted
<1>5. Current(g, saved[g]) => Current(g, saved[g])'  BY <1>0 DEF Current
<1>6. CASE g # f
  <2>1. events'[g] = events[g] /\ disk'[g] = disk[g]  BY <1>0, <1>6
  <2>2. (g \in watch'.creates <=> g \in watch.creates) /\ (g \in watch'.deletes <=> g \in watch.deletes)
    BY <1>1, <1>6
  <2> QED  BY <1>2, <1>5, <2>1, <2>2, StaysAccounted
<1>7. CASE g = f
  <2>2. Accounted(f)  BY <1>2, <1>7
  <2> DEFINE s == events[f]
  <2>3. s \in Seq({"write", "access", "remove"}) /\ s # <<>> /\ events'[f] = Tail(s)  BY <1>0
  <2>4. /\ Len(s) \in Nat /\ Len(s) > 0 /\ ev = s[1] /\ Len(Tail(s)) = Len(s) - 1
        /\ \A k \in 1 .. Len(s) - 1 : Tail(s)[k] = s[k + 1]
    BY <2>3
  <2> HIDE DEF s, ev
  <2>5. CASE Reported(f)
    <3>1. PICK k \in 1 .. Len(s) : s[k] = Kind(f) /\ Quiet(s, k)  BY <2>5 DEF Reported, s
    <3>2. CASE k = 1
      <4>1. Quiet(Tail(s), 0)  BY <2>4, <3>1, <3>2 DEF Quiet
      <4>2. ev = Kind(f)  BY <2>4, <3>1, <3>2
      <4>3. Filed(f)'  BY <1>0, <1>1, <4>2 DEF Filed, Kind
      <4> QED  BY <1>7, <2>3, <4>1, <4>3 DEF Accounted
    <3>3. CASE k # 1
      <4>1. k - 1 \in 1 .. Len(Tail(s)) /\ Tail(s)[k - 1] = Kind(f)
        <5>1. k - 1 \in 1 .. Len(s) - 1 /\ (k - 1) + 1 = k  BY <2>4, <3>3
        <5> QED  BY <2>4, <3>1, <5>1
      <4>2. Quiet(Tail(s), k - 1)
        <5> SUFFICES ASSUME NEW j \in (k - 1) + 1 .. Len(Tail(s)) PROVE Tail(s)[j] = "access"
          BY DEF Quiet
        <5>1. j \in 1 .. Len(s) - 1 /\ j + 1 \in k + 1 .. Len(s)  BY <2>4
        <5> QED  BY <2>4, <3>1, <5>1 DEF Quiet
      <4>3. Kind(f)' = Kind(f)  BY <1>0 DEF Kind
      <4>4. Reported(f)'  BY <2>3, <4>1, <4>2, <4>3 DEF Reported
      <4> QED  BY <1>7, <4>4 DEF Accounted
    <3> QED  BY <3>2, <3>3
  <2>6. CASE Quiet(s, 0)
    <3>1. ev = "access" /\ Quiet(Tail(s), 0)  BY <2>4, <2>6 DEF Quiet
    <3>2. ~add /\ ~del /\ ev # "remove"  BY <3>1
    <3>3. watch'.creates = watch.creates /\ watch'.deletes = watch.deletes  BY <1>1, <3>2
    <3>4. CASE Filed(f)
      <4>1. Filed(f)'  BY <1>0, <3>3, <3>4 DEF Filed
      <4> QED  BY <1>7, <2>3, <3>1, <4>1 DEF Accounted
    <3>5. CASE (disk[f] # Gone => f \notin watch.deletes) /\ Current(f, saved[f])
      BY <1>0, <1>5, <1>7, <2>3, <3>1, <3>3, <3>5 DEF Accounted
    <3>6. CASE Reported(f)  BY <2>5, <3>6
    <3> QED  BY <2>2, <3>4, <3>5, <3>6 DEF Accounted
  <2> QED  BY <2>2, <2>5, <2>6 DEF Accounted, s
<1> QED  BY <1>6, <1>7

\* Catching up accounts for every file that could be read and has no event to come.
LEMMA CatchUpAccounts ==
  ASSUME TypeInv, AllAccounted, CatchUp PROVE AllAccounted'
<1> SUFFICES ASSUME NEW g \in Files \ excused' PROVE Accounted(g)'
  BY DEF AllAccounted
<1>1. PICK unread \in SUBSET Present, lost \in BOOLEAN :
        /\ watch' = CaughtUp(unread) /\ saved' = IF lost THEN saved ELSE watch'.copy
        /\ excused' = IF lost THEN excused
                      ELSE {h \in excused : disk[h] = Gone \/ events[h] # <<>> \/ h \in unread}
                             \cup Restored(saved, Present)
  BY DEF CatchUp
<1> DEFINE new == Phase1(saved, Changed(saved) \ unread)
<1>2. /\ disk' = disk /\ disk \in [Files -> Texts \cup {Gone}] /\ IsManifest(saved)
      /\ watch.creates = {} /\ watch.deletes = {} /\ events' = events
  BY DEF TypeInv, CatchUp
<1>3. watch'.creates = watch.creates /\ watch'.deletes = watch.deletes /\ watch'.copy = new
  BY <1>1, CaughtUpWatch
<1>4. Restored(saved, Changed(saved) \ unread) = {}  BY DEF Restored, Changed
<1>5. \A h \in Files : Current(h, saved[h]) => Current(h, new[h])
  BY <1>2, <1>4, Phase1Entries
<1>6. \A h \in Files : h \in Changed(saved) \ unread => Current(h, new[h])
  <2> TAKE h \in Files
  <2>1. h \in Changed(saved) => disk[h] # Gone  BY DEF Changed, Present
  <2> QED  BY <1>2, <1>4, <2>1, Phase1Entries
<1> HIDE DEF new
<1>7. Current(g, saved[g]) => Current(g, saved[g])'
  <2>1. Current(g, saved[g]) => Current(g, saved'[g])  BY <1>1, <1>3, <1>5
  <2> QED  BY <1>2, <2>1 DEF Current
<1>8. CASE g \notin excused
  <2>1. Accounted(g)  BY <1>8 DEF AllAccounted
  <2> QED  BY <1>2, <1>3, <1>7, <2>1, StaysAccounted
<1>9. CASE g \in excused
  <2>1. disk[g] # Gone /\ events[g] = <<>> /\ g \notin unread /\ g \notin Restored(saved, Present)
        /\ saved' = new
    BY <1>1, <1>3, <1>9
  <2>2. Current(g, saved'[g])
    <3>1. CASE g \in Changed(saved)  BY <1>6, <2>1, <3>1
    <3>2. CASE g \notin Changed(saved)
      <4>1. saved[g].sum = disk[g] /\ Live(saved[g]) = DOMAIN disk[g]
        BY <2>1, <3>2 DEF Changed, Present, Restored
      <4>2. Current(g, saved[g])  BY <2>1, <4>1 DEF Current
      <4> QED  BY <1>5, <2>1, <4>2
    <3> QED  BY <3>1, <3>2
  <2>3. Current(g, saved[g])'  BY <1>2, <2>2 DEF Current
  <2>4. events'[g] = <<>> /\ g \notin watch'.deletes  BY <1>2, <1>3, <2>1
  <2>5. Quiet(events'[g], 0)  BY <2>4 DEF Quiet
  <2> QED  BY <2>3, <2>4, <2>5 DEF Accounted
<1> QED  BY <1>8, <1>9

\* A change is reported, or its file excused.
LEMMA EditAccounts ==
  ASSUME TypeInv, AllAccounted, NEW f \in Files, NEW text \in Texts \cup {Gone}, Edit(f, text)
  PROVE  AllAccounted'
<1> SUFFICES ASSUME NEW g \in Files \ excused' PROVE Accounted(g)'
  BY DEF AllAccounted
<1>0. /\ disk' = [disk EXCEPT ![f] = text] /\ saved' = saved /\ watch' = watch
      /\ disk \in [Files -> Texts \cup {Gone}]
      /\ events \in [Files -> Seq({"write", "access", "remove"})]
  BY DEF TypeInv, Edit
<1>a. PICK heard \in BOOLEAN :
      /\ events' = IF heard THEN [events EXCEPT ![f] = @ \o
                 IF text = Gone THEN <<"remove">> ELSE <<"write", "access">>] ELSE events
      /\ excused' = IF heard THEN excused \ {f} ELSE excused \cup {f}
  BY DEF Edit
<1>1. CASE g # f
  <2>1. g \notin excused /\ disk'[g] = disk[g] /\ events'[g] = events[g]  BY <1>0, <1>a, <1>1
  <2>2. Accounted(g)  BY <2>1 DEF AllAccounted
  <2>3. Current(g, saved[g]) => Current(g, saved[g])'  BY <1>0, <2>1 DEF Current
  <2> QED  BY <1>0, <2>1, <2>2, <2>3, StaysAccounted
<1>2. CASE g = f
  <2> DEFINE s == events[f]
             k == Len(s) + 1
  <2>1. heard /\ disk'[f] = text  BY <1>0, <1>a, <1>2
  <2>2. s \in Seq({"write", "access", "remove"}) /\ Len(s) \in Nat  BY <1>0
  <2>3. CASE text = Gone
    <3> DEFINE t == s \o <<"remove">>
    <3>1. events'[f] = t  BY <1>0, <1>a, <2>1, <2>3
    <3>2. Len(t) = k /\ t[k] = "remove"  BY <2>2
    <3>3. k \in 1 .. Len(t) /\ Quiet(t, k)
      <4> HIDE DEF t
      <4> QED  BY <2>2, <3>2 DEF Quiet
    <3>4. Kind(f)' = "remove"  BY <2>1, <2>3 DEF Kind
    <3> HIDE DEF t
    <3>5. Reported(f)'  BY <3>1, <3>2, <3>3, <3>4 DEF Reported
    <3> QED  BY <1>2, <3>5 DEF Accounted
  <2>4. CASE text # Gone
    <3> DEFINE t == s \o <<"write", "access">>
    <3>1. events'[f] = t  BY <1>0, <1>a, <2>1, <2>4
    <3>2. Len(t) = k + 1 /\ t[k] = "write" /\ t[k + 1] = "access"  BY <2>2
    <3>3. k \in 1 .. Len(t) /\ Quiet(t, k)
      <4> HIDE DEF t
      <4>1. \A j \in k + 1 .. Len(t) : j = k + 1  BY <2>2, <3>2
      <4> QED  BY <2>2, <3>2, <4>1 DEF Quiet
    <3>4. Kind(f)' = "write"  BY <2>1, <2>4 DEF Kind
    <3> HIDE DEF t, k
    <3>5. Reported(f)'  BY <3>1, <3>2, <3>3, <3>4 DEF Reported
    <3> QED  BY <1>2, <3>5 DEF Accounted
  <2> QED  BY <2>3, <2>4
<1> QED  BY <1>1, <1>2

\* Phase 1 of the loop puts what was filed into the manifest.
LEMMA TickAccounts ==
  ASSUME TypeInv, AllAccounted, Phase1Tick PROVE AllAccounted'
<1> SUFFICES ASSUME NEW g \in Files \ excused' PROVE Accounted(g)'
  BY DEF AllAccounted
<1>1. PICK old \in {saved, watch.copy}, unread \in SUBSET Present :
        /\ saved' \in {saved, Ticks(old, unread)} /\ watch'.creates = {} /\ watch'.deletes = {}
        /\ excused' = excused \cup Restored(old, watch.creates)
                         \cup (unread \cap watch.creates \cap Changed(old))
                         \cup {f \in Files : old[f] # saved[f] \/ Ticks(old, unread)[f] # saved'[f]}
  BY Ticked
<1> DEFINE m1 == Phase1(old, watch.creates \ unread)
           m2 == Ticks(old, unread)
<1>0. /\ disk' = disk /\ disk \in [Files -> Texts \cup {Gone}] /\ IsManifest(old)
      /\ events' = events /\ saved'[g] = m2[g] /\ old[g] = saved[g]
      /\ g \notin excused /\ g \notin Restored(old, watch.creates)
      /\ ~(g \in unread /\ g \in watch.creates /\ g \in Changed(old))
  BY <1>1 DEF TypeInv, Phase1Tick
<1>a. g \notin Restored(old, watch.creates \ unread)  BY <1>0 DEF Restored
<1>b. /\ IsManifest(m1)
      /\ Current(g, old[g]) => Current(g, m1[g])
      /\ g \in watch.creates \ unread /\ disk[g] # Gone => Current(g, m1[g])
  BY <1>0, <1>a, Phase1Entries
<1>c. ASSUME g \in watch.creates, g \in unread, disk[g] # Gone PROVE Current(g, old[g])
  <2>1. old[g].sum = disk[g] /\ Live(old[g]) = DOMAIN disk[g]
    BY <1>0, <1>c DEF Changed, Present, Restored
  <2> QED  BY <1>c, <2>1 DEF Current
<1>2. /\ IsManifest(m1)
      /\ Current(g, saved[g]) => Current(g, m1[g])
      /\ g \in watch.creates /\ disk[g] # Gone => Current(g, m1[g])
  BY <1>0, <1>b, <1>c
<1> HIDE DEF m1
<1>3. (g \in watch.deletes => Live(m2[g]) = {}) /\ (g \notin watch.deletes => m2[g] = m1[g])
  BY <1>2, DeletedEntries DEF Ticks, m1
<1> HIDE DEF m2
<1>4. Accounted(g)  BY <1>0 DEF AllAccounted
<1>5. CASE Reported(g)
  <2>1. Kind(g)' = Kind(g)  BY <1>0 DEF Kind
  <2> QED  BY <1>0, <1>5, <2>1 DEF Accounted, Reported
<1>6. CASE /\ Quiet(events[g], 0)
           /\ \/ Filed(g)
              \/ (disk[g] # Gone => g \notin watch.deletes) /\ Current(g, saved[g])
  <2>1. Current(g, m2[g])
    <3>1. CASE Filed(g)  BY <1>2, <1>3, <3>1 DEF Filed, Current
    <3>2. CASE (disk[g] # Gone => g \notin watch.deletes) /\ Current(g, saved[g])
      <4>1. CASE g \in watch.deletes  BY <1>3, <3>2, <4>1 DEF Current
      <4>2. CASE g \notin watch.deletes  BY <1>2, <1>3, <3>2, <4>2
      <4> QED  BY <4>1, <4>2
    <3> QED  BY <1>6, <3>1, <3>2
  <2>2. Current(g, saved[g])'  BY <1>0, <2>1 DEF Current
  <2> QED  BY <1>0, <1>1, <1>6, <2>2 DEF Accounted
<1> QED  BY <1>4, <1>5, <1>6 DEF Accounted

\* A file that a stop does not excuse was settled.
LEMMA HaltAccounts ==
  ASSUME TypeInv, AllAccounted, NEW man, Halt(man) PROVE AllAccounted'
<1> SUFFICES ASSUME NEW g \in Files \ excused' PROVE Accounted(g)'
  BY DEF AllAccounted
<1>0. /\ disk' = disk /\ saved' = man /\ watch' = Untracked /\ events'[g] = <<>>
      /\ g \notin excused /\ g \notin InFlight /\ saved[g] = man[g]
  BY DEF Halt
<1>1. events[g] = <<>> /\ g \notin watch.creates /\ g \notin watch.deletes  BY <1>0 DEF InFlight
<1>2. Accounted(g)  BY <1>0 DEF AllAccounted
<1>3. ~Reported(g)
  <2>1. Len(events[g]) = 0  BY <1>1
  <2> QED  BY <2>1 DEF Reported
<1>4. ~Filed(g)  BY <1>1 DEF Filed
<1>5. Current(g, saved[g])  BY <1>2, <1>3, <1>4 DEF Accounted
<1>6. Current(g, saved[g])'  BY <1>0, <1>5 DEF Current
<1>7. Quiet(events'[g], 0)  BY <1>0 DEF Quiet
<1>8. g \notin watch'.deletes  BY <1>0, Untouched
<1> QED  BY <1>6, <1>7, <1>8 DEF Accounted

\* Every file is accounted for while what is known of it stays as it is.
LEMMA NothingNew ==
  ASSUME AllAccounted, disk' = disk, events' = events, excused \subseteq excused',
         watch'.creates = watch.creates, watch'.deletes = watch.deletes,
         \A f \in Files \ excused' : Current(f, saved[f]) => Current(f, saved[f])'
  PROVE  AllAccounted'
<1> SUFFICES ASSUME NEW f \in Files \ excused' PROVE Accounted(f)'
  BY DEF AllAccounted
<1>1. Accounted(f)  BY DEF AllAccounted
<1> QED  BY <1>1, StaysAccounted

\* Every step keeps every file accounted for and every run faithful.
LEMMA SettledKept ==
  ASSUME TypeInv, ShownInv, SettledInv, [VaultNext]_vaultVars PROVE SettledInv'
<1> USE DEF SettledInv, Idle
<1>0. /\ disk \in [Files -> Texts \cup {Gone}] /\ Loop \in Runners
      /\ IsManifest(saved) /\ IsManifest(watch.copy) /\ WatchTyped /\ saved = [f \in Files |-> saved[f]]
  BY TypeParts DEF TypeInv, Runners, IsManifest
\* The entries are as they were.
<1>a. ASSUME saved' = saved, disk' = disk
      PROVE  \A f \in Files \ excused' : Current(f, saved[f]) => Current(f, saved[f])'
  BY <1>a DEF Current
<1>b. ASSUME run' = run PROVE Faithful'
  BY <1>b, <1>0, StayFaithful DEF Faithful
<1>1. ASSUME NEW f \in Files, Receive(f) PROVE SettledInv'
  <2>1. run' = run  BY <1>1 DEF Receive
  <2> QED  BY <1>1, <1>b, <2>1, ReceiveAccounts
<1>15. ASSUME CatchUp PROVE SettledInv'
  <2>1. run' = run  BY <1>15 DEF CatchUp
  <2> QED  BY <1>15, <1>b, <2>1, CatchUpAccounts
<1>16. ASSUME CatchUpFails PROVE SettledInv'
  <2>1. UNCHANGED <<disk, events, saved, excused, run>>  BY <1>16 DEF CatchUpFails
  <2> QED  BY <1>16, <1>a, <1>b, <2>1, CaughtUpNot, NothingNew
<1>2. ASSUME NEW f \in Files, NEW text \in Texts \cup {Gone}, Edit(f, text) PROVE SettledInv'
  <2>1. run' = run  BY <1>2 DEF Edit
  <2> QED  BY <1>2, <1>b, <2>1, EditAccounts
<1>3. ASSUME NEW r \in Runners, NEW f \in Files, Extract(r, f) PROVE SettledInv'
  <2>1. UNCHANGED <<disk, events, saved, watch, excused>> /\ run[r].pc = "extract"  BY <1>3 DEF Extract
  <2>2. AllAccounted'  BY <1>a, <2>1, NothingNew
  <2>3. Stale(run[r].man[f]) # {} /\ run[r].man[f].props = {}  BY <1>3, Extractable DEF ShownInv
  <2> DEFINE e == run[r].man[f]
             e2 == run'[r].man[f]
             m == [run[r].man EXCEPT ![f] = e2]
  <2>4. /\ run' = [run EXCEPT ![r] = run'[r]]
        /\ run'[r] = ExtractOf([run[r] EXCEPT !.todo = @ \ {f}, !.man = m])
        /\ e2 # NoEntry /\ e2.sum = e.sum /\ Live(e2) = Live(e)
        /\ In(e2, "orphaned") = In(e, "orphaned")
    <3>1. RunExtracts(r, f)  BY <1>3, <2>3, Extracted
    <3> QED  BY <3>1 DEF RunExtracts
  <2>5. run[r] = ExtractOf(run[r]) /\ IsManifest(run[r].man)  BY <2>1, RunShape DEF Resting
  <2>6. run'[r].man = m /\ run'[r].base = run[r].base /\ run'[r].gone = run[r].gone
    <3> DEFINE q == [run[r] EXCEPT !.todo = @ \ {f}, !.man = m]
    <3> HIDE DEF m
    <3>1. DOMAIN run[r] = {"pc", "n", "man", "base", "todo", "text", "bare", "gone"}
      BY <2>5 DEF ExtractOf
    <3>2. q.man = m /\ q.base = run[r].base /\ q.gone = run[r].gone  BY <3>1
    <3>3. run'[r] = ExtractOf(q)  BY <2>4
    <3> HIDE DEF q
    <3> QED  BY <3>2, <3>3 DEF ExtractOf
  <2>7. m[f] = e2 /\ \A g \in Files \ {f} : m[g] = run[r].man[g]  BY <2>5 DEF IsManifest
  <2>8. e # NoEntry  BY <2>3 DEF Stale, In
  <2>9. \A g \in Files : Alike(run[r].man[g], run[r].base[g], run[r].gone[g])
    BY <2>1 DEF Faithful
  <2> HIDE DEF m, e, e2
  <2>10. \A g \in Files : Alike(run'[r].man[g], run'[r].base[g], run'[r].gone[g])
    <3> TAKE g \in Files
    <3>1. CASE g = f
      <4>1. Alike(e, run[r].base[f], run[r].gone[f])  BY <2>9 DEF e
      <4>2. Alike(e2, run[r].base[f], run[r].gone[f])  BY <2>4, <2>8, <4>1 DEF Alike
      <4> QED  BY <2>6, <2>7, <3>1, <4>2
    <3>2. CASE g # f
      <4>1. Alike(run[r].man[g], run[r].base[g], run[r].gone[g])  BY <2>9
      <4> QED  BY <2>6, <2>7, <3>2, <4>1
    <3> QED  BY <3>1, <3>2
  <2>11. \A s \in Runners \ {r} : run'[s] = run[s]  BY <2>4 DEF TypeInv
  <2> QED  BY <2>2, <2>10, <2>11, StayFaithful
<1>4. ASSUME Phase1Tick PROVE SettledInv'
  <2>1. run' = run  BY <1>4 DEF Phase1Tick
  <2> QED  BY <1>4, <1>b, <2>1, TickAccounts
\* A run begins with the manifest it read.
<1>c. ASSUME NEW r \in Runners, NEW man, IsManifest(man), NEW n, NEW unread,
             Phase2Begin(r, man, n, man, unread)
      PROVE  Faithful'
  <2>1. /\ run' = [run EXCEPT ![r] = run'[r]] /\ run'[r].man = man /\ run'[r].base = man
        /\ \A f \in Files : run'[r].gone[f] = In(man[f], "orphaned")
    <3>1. RunBegins(r, n, man, man)  BY <1>c, Begun
    <3> QED  BY <3>1 DEF RunBegins
  <2>2. \A f \in Files : Alike(run'[r].man[f], run'[r].base[f], run'[r].gone[f])
    BY <2>1, BegunFaithful
  <2>3. \A s \in Runners \ {r} : run'[s] = run[s]  BY <2>1 DEF TypeInv
  <2> QED  BY <2>2, <2>3, StayFaithful
<1>5. ASSUME LoopPhase2 PROVE SettledInv'
  <2>0. PICK man \in {saved, watch.copy}, unread \in SUBSET Present :
          watch' = [watch EXCEPT !.copy = man] /\ Phase2Begin(Loop, man, runs, man, unread)
    BY <1>5 DEF LoopPhase2
  <2>a. IsManifest(man)  BY <1>0
  <2>1. UNCHANGED <<disk, events, saved, excused>>  BY <1>5 DEF LoopPhase2
  <2>2. watch'.creates = watch.creates /\ watch'.deletes = watch.deletes
    BY <1>0, <2>0, <2>a, WatchCopied
  <2>3. AllAccounted'  BY <1>a, <2>1, <2>2, NothingNew
  <2>4. Faithful'  BY <1>0, <1>c, <2>0, <2>a
  <2> QED  BY <2>3, <2>4
<1>6. ASSUME LoopPhase2Fails PROVE SettledInv'
  <2>1. UNCHANGED <<disk, events, saved, excused, run>>  BY <1>6 DEF LoopPhase2Fails
  <2>2. PICK man \in {saved, watch.copy} : watch' = [watch EXCEPT !.copy = man, !.stale = FALSE]
    BY <1>6 DEF LoopPhase2Fails
  <2>3. watch'.creates = watch.creates /\ watch'.deletes = watch.deletes
    BY <1>0, <2>2, WatchCopied
  <2> QED  BY <1>a, <1>b, <2>1, <2>3, NothingNew
\* What a run saves is as current as what it overwrites.
<1>d. ASSUME NEW r \in Runners, run[r].pc = "extract", run' = [run EXCEPT ![r] = Resting],
             UNCHANGED <<disk, events, runs>>,
             \/ saved' = saved /\ excused' = excused
             \/ saved' = Settled(run[r]) /\ excused' = excused \cup Overwritten(run[r].base),
             watch'.creates = watch.creates, watch'.deletes = watch.deletes
      PROVE  SettledInv'
  <2>1. ASSUME saved' = saved /\ excused' = excused PROVE AllAccounted'
    BY <1>a, <1>d, <2>1, NothingNew
  <2>2. ASSUME saved' = Settled(run[r]) /\ excused' = excused \cup Overwritten(run[r].base)
        PROVE  AllAccounted'
    <3>1. \A f \in Files \ excused' : saved[f] = run[r].base[f]  BY <2>2 DEF Overwritten
    <3>2. \A f \in Files \ excused' : Current(f, saved[f]) => Current(f, saved[f])'
      BY <1>d, <2>2, <3>1, SettledStaysCurrent
    <3> QED  BY <1>d, <2>2, <3>2, NothingNew
  <2>3. AllAccounted'  BY <1>d, <2>1, <2>2
  <2>4. run'[r] = Resting /\ \A s \in Runners \ {r} : run'[s] = run[s]  BY <1>d, RunEnds
  <2>5. Faithful'  BY <2>4, RestingIsRun, StayFaithful
  <2> QED  BY <2>3, <2>5
<1>7. ASSUME LoopSave PROVE SettledInv'
  <2> DEFINE man == Settled(run[Loop])
  <2>1. /\ run[Loop].pc = "extract" /\ run' = [run EXCEPT ![Loop] = Resting]
        /\ UNCHANGED <<disk, events, runs>>
        /\ \/ saved' = saved /\ excused' = excused
           \/ saved' = man /\ excused' = excused \cup Overwritten(run[Loop].base)
        /\ watch' = [watch EXCEPT !.copy = man, !.stale = FALSE]
    BY <1>7 DEF LoopSave
  <2>2. IsManifest(man)  BY <1>0, <2>1, SettledEntries
  <2> HIDE DEF man
  <2>3. watch'.creates = watch.creates /\ watch'.deletes = watch.deletes
    BY <1>0, <2>1, <2>2, WatchCopied
  <2> QED  BY <1>0, <1>d, <2>1, <2>3 DEF man
<1>8. ASSUME NEW i \in Indexers, IndexAsk(i) PROVE SettledInv'
  <2> DEFINE p == [pc |-> "load", n |-> runs, man |-> saved]
  <2>1. /\ i \in Runners /\ UNCHANGED <<disk, events, saved, watch, excused>>
        /\ run' = [run EXCEPT ![i] = p]
    BY <1>8 DEF IndexAsk, Runners
  <2>2. p.pc # "extract"  OBVIOUS
  <2> HIDE DEF p
  <2>3. run'[i] = p /\ \A s \in Runners \ {i} : run'[s] = run[s]  BY <2>1 DEF TypeInv
  <2>4. Faithful'  BY <2>1, <2>2, <2>3, StayFaithful
  <2> QED  BY <1>a, <2>1, <2>4, NothingNew
<1>9. ASSUME NEW i \in Indexers, IndexPhase1(i) PROVE SettledInv'
  <2>0. PICK unread \in SUBSET Present :
          LET man == Phase1(run[i].man, Present \ unread)
          IN  /\ saved' \in {saved, man}
              /\ run' = [run EXCEPT ![i] = [pc |-> "parsed", n |-> run[i].n, man |-> man, base |-> man]]
    BY <1>9 DEF IndexPhase1
  <2> DEFINE man == run[i].man
             new == Phase1(man, Present \ unread)
             p == [pc |-> "parsed", n |-> run[i].n, man |-> new, base |-> new]
  <2>1. /\ i \in Runners /\ UNCHANGED <<disk, events, watch>> /\ run[i].pc = "load"
        /\ run' = [run EXCEPT ![i] = p] /\ saved' \in {saved, new}
        /\ excused' = IF saved' = saved THEN excused
                      ELSE excused \cup Overwritten(man) \cup Restored(man, Present)
    BY <1>9, <2>0 DEF IndexPhase1, Runners
  <2>2. p.pc # "extract"  OBVIOUS
  <2> HIDE DEF p
  <2>3. run'[i] = p /\ \A s \in Runners \ {i} : run'[s] = run[s]  BY <2>1 DEF TypeInv
  <2>4. Faithful'  BY <2>1, <2>2, <2>3, StayFaithful
  <2>5. IsManifest(man)  BY <2>1, RunShape DEF Resting
  <2> HIDE DEF man
  <2>6. ASSUME NEW f \in Files \ excused', Current(f, saved[f]) PROVE Current(f, saved[f])'
    <3>1. CASE saved' = saved  BY <1>a, <2>1, <2>6, <3>1
    <3>2. CASE saved' # saved
      <4>1. saved[f] = man[f] /\ f \notin Restored(man, Present) /\ saved' = new
        BY <2>1, <3>2 DEF Overwritten
      <4>2. Current(f, man[f]) /\ f \notin Restored(man, Present \ unread)
        BY <2>6, <4>1 DEF Restored
      <4>3. Current(f, new[f])  BY <1>0, <2>5, <4>1, <4>2, Phase1Entries
      <4> QED  BY <2>1, <4>1, <4>3 DEF Current
    <3> QED  BY <3>1, <3>2
  <2>7. excused \subseteq excused'  BY <2>1
  <2>8. AllAccounted'  BY <2>1, <2>6, <2>7, NothingNew
  <2> QED  BY <2>4, <2>8
<1>10. ASSUME NEW i \in Indexers, IndexPhase2(i) PROVE SettledInv'
  <2>1. /\ i \in Runners /\ UNCHANGED <<disk, events, saved, watch, excused>> /\ run[i].pc = "parsed"
    BY <1>10 DEF IndexPhase2, Runners
  <2>0. PICK unread : Phase2Begin(i, run[i].man, run[i].n, run[i].base, unread)
    BY <1>10 DEF IndexPhase2
  <2>2. IsManifest(run[i].man) /\ run[i].base = run[i].man  BY <2>1, RunShape DEF Resting
  <2>3. Faithful'  BY <1>c, <2>0, <2>1, <2>2
  <2> QED  BY <1>a, <2>1, <2>3, NothingNew
<1>11. ASSUME NEW i \in Indexers, IndexFails(i) PROVE SettledInv'
  <2>1. /\ i \in Runners /\ run' = [run EXCEPT ![i] = Resting]
        /\ UNCHANGED <<disk, events, runs, saved, watch, excused>>
    BY <1>11 DEF IndexFails, Runners
  <2>2. run'[i] = Resting /\ \A s \in Runners \ {i} : run'[s] = run[s]  BY <2>1, RunEnds
  <2>3. Faithful'  BY <2>1, <2>2, RestingIsRun, StayFaithful
  <2> QED  BY <1>a, <2>1, <2>3, NothingNew
<1>12. ASSUME NEW i \in Indexers, IndexSave(i) PROVE SettledInv'
  <2>1. /\ i \in Runners /\ run[i].pc = "extract" /\ run' = [run EXCEPT ![i] = Resting]
        /\ UNCHANGED <<disk, events, runs, watch>>
        /\ \/ saved' = saved /\ excused' = excused
           \/ saved' = Settled(run[i]) /\ excused' = excused \cup Overwritten(run[i].base)
    BY <1>12 DEF IndexSave, Runners
  <2> QED  BY <1>d, <2>1
<1>13. ASSUME Evict \/ Reopen \/ UNCHANGED vaultVars PROVE SettledInv'
  <2>1. UNCHANGED <<disk, events, saved, watch, run, excused>>
    BY <1>13 DEF Evict, Reopen, vaultVars
  <2> QED  BY <1>a, <1>b, <2>1, NothingNew
<1>14. ASSUME Crash \/ Shutdown PROVE SettledInv'
  <2>1. PICK man \in {saved, watch.copy} : Halt(man)  BY <1>14 DEF Crash, Shutdown
  <2>2. \A r \in Runners : run'[r] = Resting  BY <2>1, Halted
  <2>3. Faithful'  BY <2>2, RestingIsRun DEF Faithful
  <2> QED  BY <2>1, <2>3, HaltAccounts
<1> QED  BY <1>1, <1>2, <1>3, <1>4, <1>5, <1>6, <1>7, <1>8, <1>9, <1>10, <1>11, <1>12,
            <1>13, <1>14, <1>15, <1>16 DEF VaultNext

\* At rest, the saved manifest describes every file as it is, and no section of one
\* that is gone, but for files a known gap has left behind: for any files, texts
\* and index commands, whatever was edited, evicted, stopped or lost before.
THEOREM ManifestStaysCurrent == VaultSpec => []SettledCurrent
<1>1. VaultInit => SettledInv
  <2> SUFFICES ASSUME VaultInit PROVE SettledInv
    OBVIOUS
  <2>1. \A r \in Runners : run[r] = Resting  BY DEF VaultInit
  <2>2. Faithful  BY <2>1, RestingIsRun DEF Faithful
  <2>3. ASSUME NEW f \in Files \ excused PROVE Accounted(f)
    <3>1. disk[f] = Gone /\ events[f] = <<>> /\ saved[f] = NoEntry  BY DEF VaultInit
    <3>2. Quiet(events[f], 0)  BY <3>1 DEF Quiet
    <3>3. Current(f, saved[f])  BY <3>1 DEF Current, Live
    <3> QED  BY <3>1, <3>2, <3>3 DEF Accounted
  <2> QED  BY <2>2, <2>3 DEF SettledInv, AllAccounted
<1>2. TypeInv /\ ShownInv /\ SettledInv /\ [VaultNext]_vaultVars => SettledInv'
  BY SettledKept
<1>3. SettledInv => SettledCurrent
  <2> SUFFICES ASSUME SettledInv, AtRest, NEW f \in Files \ excused
               PROVE  IF disk[f] = Gone THEN Live(saved[f]) = {}
                      ELSE saved[f].sum = disk[f] /\ Live(saved[f]) = DOMAIN disk[f]
    BY DEF SettledCurrent
  <2>1. Accounted(f) /\ events[f] = <<>>  BY DEF SettledInv, AllAccounted, AtRest
  <2>2. ~Reported(f)
    <3>1. Len(events[f]) = 0  BY <2>1
    <3> QED  BY <3>1 DEF Reported
  <2>3. ~Filed(f)  BY DEF Filed, AtRest
  <2> QED  BY <2>1, <2>2, <2>3 DEF Accounted, Current
<1> QED  BY <1>1, <1>2, <1>3, VaultStarts, ShownKept, PTL DEF VaultSpec

-----------------------------------------------------------------------------
(* The panel: pins and the cached projection                               *)

\* A request is one of the forms the handlers give it.
IsRequest(q) ==
  \/ q \in {Unasked, Placed, [pc |-> "swapped"]}
  \/ /\ q = [pc |-> q.pc, route |-> q.route, m |-> q.m, vault |-> q.vault, late |-> q.late,
             count |-> q.count, pinned |-> q.pinned]
     /\ q.pc \in {"asked", "saved", "place", "label"}

PanelFormed ==
  /\ active \in VaultsShown /\ pins = [v \in VaultsShown |-> pins[v]]
  /\ req = [r \in Requests |-> req[r]] /\ \A r \in Requests : IsRequest(req[r])
  /\ cache # NoCache => cache = [count |-> cache.count, pinned |-> cache.pinned]

\* What nothing has overtaken since it was asked is of the active vault, and
\* what it saved or took of the pins there is so still.
OnTime(q) ==
  Writes(q) /\ ~q.late =>
    /\ q.vault = active
    /\ q.pc = "saved" => (Key(active, q.m) \in pins[active] <=> q.route = "pin")
    /\ q.pc = "label" => q.pinned = pins[active]

\* A pin that is saved and not cached yet.
Unshown(m) ==
  \E r \in Requests : req[r].pc = "saved" /\ req[r].vault = active /\ req[r].m = m

\* The cached pins are those of the active vault, but for the positions saved alone.
CacheShows ==
  ~tainted /\ cache # NoCache /\ (\A r \in Requests : req[r].pc # "swapped") =>
    \A m \in Listed : \/ Key(active, m) \in cache.pinned <=> Key(active, m) \in pins[active]
                      \/ Unshown(m)

PinInv == PanelFormed /\ (\A r \in Requests : OnTime(req[r])) /\ CacheShows

\* At first nothing is asked or cached.
LEMMA PinInvInit == PanelInit => PinInv
  BY DEF PanelInit, PinInv, PanelFormed, OnTime, CacheShows, Writes, Unasked, IsRequest

\* Requests that do nothing to the pins or the cache.
Steady(r, q) ==
  /\ Step(r, q) /\ IsRequest(q) /\ OnTime(q)
  /\ req[r].pc \notin {"saved", "swapped"} /\ q.pc \notin {"saved", "swapped"}
  /\ UNCHANGED <<active, pins, cache, tainted>>

\* A step that does nothing to the pins or the cache keeps the invariant.
LEMMA SteadyKeeps ==
  ASSUME PinInv, NEW r \in Requests, NEW q, Steady(r, q)
  PROVE  PinInv'
<1> USE DEF Steady, Step
<1>1. req' = [x \in Requests |-> IF x = r THEN q ELSE req[x]]
  BY DEF PinInv, PanelFormed
<1>2. PanelFormed'
  <2>1. \A x \in Requests : IsRequest(req'[x])
    BY <1>1 DEF PinInv, PanelFormed
  <2> QED BY <1>1, <2>1 DEF PinInv, PanelFormed, IsRequest, Unasked, Placed, NoCache
<1>3. \A x \in Requests : OnTime(req[x])'
  BY <1>1 DEF PinInv, OnTime, Writes, Key
<1>4. \A m \in Listed : Unshown(m)' <=> Unshown(m)
  BY <1>1 DEF Unshown
<1>5. CacheShows'
  <2> SUFFICES ASSUME ~tainted, cache # NoCache, \A x \in Requests : req'[x].pc # "swapped"
      PROVE  \A m \in Listed : \/ Key(active, m) \in cache.pinned <=> Key(active, m) \in pins[active]
                               \/ Unshown(m)
    BY <1>4 DEF CacheShows, Key, NoCache
  <2>1. \A x \in Requests : req[x].pc # "swapped"
    BY <1>1
  <2> QED BY <2>1 DEF PinInv, CacheShows
<1> QED BY <1>2, <1>3, <1>5 DEF PinInv

\* A request is a record, and so it is when it goes on.
LEMMA RequestMoved ==
  ASSUME NEW q, NEW pc, NEW count, NEW pinned,
         q = [pc |-> q.pc, route |-> q.route, m |-> q.m, vault |-> q.vault, late |-> q.late,
              count |-> q.count, pinned |-> q.pinned]
  PROVE  /\ [q EXCEPT !.pc = pc, !.count = count]
              = [pc |-> pc, route |-> q.route, m |-> q.m, vault |-> q.vault, late |-> q.late,
                 count |-> count, pinned |-> q.pinned]
         /\ [q EXCEPT !.pc = pc, !.pinned = pinned]
              = [pc |-> pc, route |-> q.route, m |-> q.m, vault |-> q.vault, late |-> q.late,
                 count |-> q.count, pinned |-> pinned]
<1> DEFINE y == [q EXCEPT !.pc = pc, !.count = count]
             z == [q EXCEPT !.pc = pc, !.pinned = pinned]
             Parts == {"pc", "route", "m", "vault", "late", "count", "pinned"}
<1>2. /\ y = [f \in Parts |-> y[f]] /\ y.pc = pc /\ y.route = q.route /\ y.m = q.m
      /\ y.vault = q.vault /\ y.late = q.late /\ y.count = count /\ y.pinned = q.pinned
  OBVIOUS
<1>3. /\ z = [f \in Parts |-> z[f]] /\ z.pc = pc /\ z.route = q.route /\ z.m = q.m
      /\ z.vault = q.vault /\ z.late = q.late /\ z.count = q.count /\ z.pinned = pinned
  OBVIOUS
<1> HIDE DEF y, z
<1>4. y = [pc |-> pc, route |-> q.route, m |-> q.m, vault |-> q.vault, late |-> q.late,
           count |-> count, pinned |-> q.pinned]
  BY <1>2
<1>5. z = [pc |-> pc, route |-> q.route, m |-> q.m, vault |-> q.vault, late |-> q.late,
           count |-> q.count, pinned |-> pinned]
  BY <1>3
<1> QED BY <1>4, <1>5 DEF y, z

\* Steps of a request that has not touched the pins or the cache yet, or no longer will.
LEMMA SteadyActions ==
  ASSUME PinInv, NEW r \in Requests,
         \/ \E route \in RoutesAsked, m \in Listed : Ask(r, route, m)
         \/ Reply(r) \/ HealthAction(r) \/ GraphLook(r) \/ GraphPlace(r) \/ GraphApply(r)
  PROVE  PinInv'
<1> USE DEF Step
<1>1. SUFFICES \E q : Steady(r, q)
  BY SteadyKeeps
<1>2. IsRequest(req[r]) /\ OnTime(req[r]) /\ active \in VaultsShown
  BY DEF PinInv, PanelFormed
<1>3. \A q \in {Unasked, Placed} : IsRequest(q) /\ OnTime(q) /\ q.pc \notin {"saved", "swapped"}
  BY DEF IsRequest, OnTime, Writes, Unasked, Placed
<1>4. ASSUME NEW route \in RoutesAsked, NEW m \in Listed, Ask(r, route, m)
      PROVE  \E q : Steady(r, q)
  <2> DEFINE q == [pc |-> "asked", route |-> route, m |-> m, vault |-> active, late |-> FALSE,
                   count |-> 0, pinned |-> {}]
  <2>1. IsRequest(q) /\ OnTime(q) /\ q.pc = "asked"
    BY DEF IsRequest, OnTime
  <2>2. Step(r, q) /\ req[r].pc = "idle" /\ UNCHANGED <<active, pins, cache, tainted>>
    BY <1>4 DEF Ask, Unasked
  <2> HIDE DEF q
  <2> QED BY <2>1, <2>2 DEF Steady
<1>5. CASE Reply(r)
  BY <1>3, <1>5 DEF Reply, Steady
<1>6. CASE HealthAction(r)
  BY <1>3, <1>6 DEF HealthAction, Asked, Steady
<1>7. CASE GraphApply(r)
  BY <1>3, <1>7 DEF GraphApply, Steady
<1>8. CASE GraphLook(r)
  <2> DEFINE n == Cardinality(Nodes(req[r].vault))
             q == [req[r] EXCEPT !.pc = "place", !.count = n]
  <2>1. /\ req[r].pc = "asked" /\ req[r].route = "graph"
        /\ req[r] = [pc |-> "asked", route |-> req[r].route, m |-> req[r].m, vault |-> req[r].vault,
                     late |-> req[r].late, count |-> req[r].count, pinned |-> req[r].pinned]
    BY <1>2, <1>8 DEF GraphLook, Asked, IsRequest, Unasked, Placed
  <2>3. q = [pc |-> "place", route |-> req[r].route, m |-> req[r].m, vault |-> req[r].vault,
             late |-> req[r].late, count |-> n, pinned |-> req[r].pinned]
    BY <2>1, RequestMoved
  <2>4. IsRequest(q) /\ q.pc = "place"
    BY <2>3 DEF IsRequest
  <2>5. OnTime(q)
    BY <1>2, <2>1, <2>3 DEF OnTime, Writes
  <2>2. Step(r, q) \/ Step(r, Unasked) \/ Step(r, Placed)
    BY <1>8 DEF GraphLook
  <2> HIDE DEF q
  <2> QED BY <1>3, <1>8, <2>1, <2>2, <2>4, <2>5 DEF GraphLook, Asked, Steady
<1>9. CASE GraphPlace(r)
  <2> DEFINE q == [req[r] EXCEPT !.pc = "label", !.pinned = pins[req[r].vault]]
  <2>1. /\ req[r].pc = "place"
        /\ req[r] = [pc |-> "place", route |-> req[r].route, m |-> req[r].m, vault |-> req[r].vault,
                     late |-> req[r].late, count |-> req[r].count, pinned |-> req[r].pinned]
    BY <1>2, <1>9 DEF GraphPlace, IsRequest, Unasked, Placed
  <2>3. q = [pc |-> "label", route |-> req[r].route, m |-> req[r].m, vault |-> req[r].vault,
             late |-> req[r].late, count |-> req[r].count, pinned |-> pins[req[r].vault]]
    BY <2>1, RequestMoved
  <2>4. IsRequest(q) /\ q.pc = "label"
    BY <2>3 DEF IsRequest
  <2>5. OnTime(q)
    BY <1>2, <2>1, <2>3 DEF OnTime, Writes
  <2>2. Step(r, q) \/ Step(r, Placed)
    BY <1>9 DEF GraphPlace
  <2> HIDE DEF q
  <2> QED BY <1>3, <1>9, <2>1, <2>2, <2>4, <2>5 DEF GraphPlace, Steady
<1> QED BY <1>4, <1>5, <1>6, <1>7, <1>8, <1>9

\* What a pin or a switch makes of the requests that have yet to write.
Belated(q) == IF Writes(q) THEN [q EXCEPT !.late = TRUE] ELSE q

\* They are as they were, but late.
LEMMA BelatedRequest ==
  ASSUME NEW q, IsRequest(q)
  PROVE  /\ IsRequest(Belated(q)) /\ ~(Writes(Belated(q)) /\ ~Belated(q).late)
         /\ Belated(q).pc = q.pc /\ (q.pc = "saved" => Belated(q).vault = q.vault /\ Belated(q).m = q.m)
<1>1. CASE ~Writes(q)
  BY <1>1 DEF Belated
<1>2. CASE Writes(q)
  <2>1. q = [pc |-> q.pc, route |-> q.route, m |-> q.m, vault |-> q.vault, late |-> q.late,
             count |-> q.count, pinned |-> q.pinned]
        /\ q.pc \in {"asked", "saved", "place", "label"}
    BY <1>2 DEF IsRequest, Writes, Unasked, Placed
  <2>2. Belated(q) = [pc |-> q.pc, route |-> q.route, m |-> q.m, vault |-> q.vault, late |-> TRUE,
                      count |-> q.count, pinned |-> q.pinned]
    BY <1>2, <2>1 DEF Belated
  <2> QED BY <2>1, <2>2 DEF IsRequest
<1> QED BY <1>1, <1>2

\* A switch: until it drops the projection, nothing is said of it.
LEMMA SwapKeeps ==
  ASSUME PinInv, NEW r \in Requests, NEW v \in VaultsShown, SwitchSwap(r, v)
  PROVE  PinInv'
<1> DEFINE q == [pc |-> "swapped"]
<1>1. req' = [x \in Requests |-> IF x = r THEN q ELSE Belated(req[x])]
  BY DEF SwitchSwap, Overtake, Belated
<1>2. \A x \in Requests : IsRequest(req'[x]) /\ ~(Writes(req'[x]) /\ ~req'[x].late)
  <2>1. IsRequest(q) /\ ~Writes(q)
    BY DEF IsRequest, Writes
  <2> QED BY <1>1, <2>1, BelatedRequest DEF PinInv, PanelFormed
<1>3. req'[r].pc = "swapped"
  BY <1>1
<1>4. active' \in VaultsShown /\ UNCHANGED <<pins, cache>>
  BY DEF SwitchSwap
<1>5. PanelFormed'
  BY <1>1, <1>2, <1>4 DEF PinInv, PanelFormed, IsRequest, NoCache, Unasked, Placed
<1>6. \A x \in Requests : OnTime(req[x])'
  BY <1>2 DEF OnTime, Writes
<1> QED BY <1>3, <1>5, <1>6 DEF PinInv, CacheShows

\* A pin is saved: the position is unshown until it is cached.
LEMMA SaveKeeps ==
  ASSUME PinInv, NEW r \in Requests, SavePin(r)
  PROVE  PinInv'
<1> DEFINE q == [req[r] EXCEPT !.pc = "saved"]
           k == Key(req[r].vault, req[r].m)
<1>1. req' = [x \in Requests |-> IF x = r THEN q ELSE Belated(req[x])]
  BY DEF SavePin, Overtake, Belated
<1>2. IsRequest(req[r]) /\ OnTime(req[r]) /\ active \in VaultsShown
  BY DEF PinInv, PanelFormed
<1>3. /\ IsRequest(q) /\ q.pc = "saved" /\ q.vault = req[r].vault /\ q.m = req[r].m
      /\ q.late = req[r].late /\ q.route = req[r].route
  BY <1>2 DEF SavePin, Asked, IsRequest, Unasked, Placed
<1>4. \A x \in Requests : IsRequest(req'[x])
  BY <1>1, <1>3, BelatedRequest DEF PinInv, PanelFormed
<1>5. UNCHANGED <<active, cache, tainted>>
  BY DEF SavePin
<1>6. pins' = [pins EXCEPT ![req[r].vault] = Toggled(@, k, req[r].route = "pin")]
  BY DEF SavePin
<1>7. pins' = [v \in VaultsShown |-> pins'[v]]
  BY <1>6 DEF PinInv, PanelFormed
<1>8. PanelFormed'
  BY <1>1, <1>4, <1>5, <1>7 DEF PinInv, PanelFormed, IsRequest, NoCache, Unasked, Placed
<1>9. \A x \in Requests \ {r} : ~(Writes(req'[x]) /\ ~req'[x].late)
  BY <1>1, BelatedRequest DEF PinInv, PanelFormed
<1>10. pins'[active] = IF req[r].vault = active THEN Toggled(pins[active], k, req[r].route = "pin")
                       ELSE pins[active]
  BY <1>2, <1>6 DEF PinInv, PanelFormed
<1>11. OnTime(req[r])'
  <2> SUFFICES ASSUME ~req[r].late
      PROVE  req[r].vault = active /\ (k \in pins'[active] <=> req[r].route = "pin")
    BY <1>1, <1>3, <1>5 DEF OnTime, Key
  <2>1. req[r].vault = active
    BY <1>2 DEF SavePin, Asked, OnTime, Writes
  <2> QED BY <2>1, <1>10 DEF Toggled
<1>12. \A x \in Requests : OnTime(req[x])'
  BY <1>9, <1>11 DEF OnTime, Writes
<1>13. ASSUME NEW m \in Listed, Unshown(m) PROVE Unshown(m)'
  <2>1. PICK x \in Requests : req[x].pc = "saved" /\ req[x].vault = active /\ req[x].m = m
    BY <1>13 DEF Unshown
  <2>2. IsRequest(req[x]) /\ x # r
    BY <2>1 DEF PinInv, PanelFormed, SavePin, Asked
  <2>3. req'[x] = Belated(req[x])
    BY <1>1, <2>2
  <2> QED BY <1>5, <2>1, <2>2, <2>3, BelatedRequest DEF Unshown
<1>14. CacheShows'
  <2> SUFFICES ASSUME ~tainted, cache # NoCache, \A x \in Requests : req'[x].pc # "swapped",
                      NEW m \in Listed, ~Unshown(m)'
      PROVE  Key(active, m) \in cache.pinned <=> Key(active, m) \in pins'[active]
    BY <1>5 DEF CacheShows, Key, NoCache
  <2>1. \A x \in Requests : req[x].pc # "swapped"
    BY <1>1, BelatedRequest DEF PinInv, PanelFormed, SavePin, Asked
  <2>2. Key(active, m) \in cache.pinned <=> Key(active, m) \in pins[active]
    BY <2>1, <1>13 DEF PinInv, CacheShows
  <2>3. ~(req[r].vault = active /\ req[r].m = m)
    BY <1>1, <1>3, <1>5 DEF Unshown
  <2> QED BY <1>10, <2>2, <2>3 DEF Toggled, Key
<1> QED BY <1>8, <1>12, <1>14 DEF PinInv

\* The saved position is cached: it agrees now, unless it is late.
LEMMA CachePinKeeps ==
  ASSUME PinInv, NEW r \in Requests, CachePin(r)
  PROVE  PinInv'
<1> DEFINE k == Key(req[r].vault, req[r].m)
<1>1. req' = [x \in Requests |-> IF x = r THEN Unasked ELSE req[x]]
  BY DEF CachePin, Step, PinInv, PanelFormed
<1>2. IsRequest(Unasked) /\ ~Writes(Unasked) /\ Unasked.pc = "idle"
  BY DEF IsRequest, Writes, Unasked
<1>3. UNCHANGED <<active, pins>> /\ req[r].pc = "saved"
  BY DEF CachePin
<1>4. /\ cache' # NoCache => cache # NoCache /\ tainted' = (tainted \/ req[r].late)
      /\ cache' # NoCache => cache' = [count |-> cache.count,
                                       pinned |-> Toggled(cache.pinned, k, req[r].route = "pin")]
  <2>1. CASE cache = NoCache
    BY <2>1 DEF CachePin
  <2>2. CASE cache # NoCache
    <3>1. cache = [count |-> cache.count, pinned |-> cache.pinned]
      BY <2>2 DEF PinInv, PanelFormed
    <3>2. cache' = [cache EXCEPT !.pinned = Toggled(@, k, req[r].route = "pin")]
          /\ tainted' = (tainted \/ req[r].late)
      BY <2>2 DEF CachePin
    <3> QED BY <2>2, <3>1, <3>2
  <2> QED BY <2>1, <2>2
<1>5. PanelFormed'
  <2>1. \A x \in Requests : IsRequest(req'[x])
    BY <1>1, <1>2 DEF PinInv, PanelFormed
  <2>2. req' = [x \in Requests |-> req'[x]]
    BY <1>1
  <2>3. cache' # NoCache => cache' = [count |-> cache'.count, pinned |-> cache'.pinned]
    BY <1>4
  <2> QED BY <1>3, <2>1, <2>2, <2>3 DEF PinInv, PanelFormed, IsRequest, NoCache, Unasked, Placed
<1>6. \A x \in Requests : OnTime(req[x])'
  BY <1>1, <1>2, <1>3 DEF PinInv, OnTime, Writes, Key
<1>7. CacheShows'
  <2> SUFFICES ASSUME ~tainted', cache' # NoCache, \A x \in Requests : req'[x].pc # "swapped",
                      NEW m \in Listed, ~Unshown(m)'
      PROVE  Key(active, m) \in cache'.pinned <=> Key(active, m) \in pins[active]
    BY <1>3 DEF CacheShows, Key, NoCache
  <2>0. cache # NoCache /\ ~tainted /\ ~req[r].late
    BY <1>4, Zenon
  <2>1. cache # NoCache /\ ~tainted /\ ~req[r].late
        /\ cache'.pinned = Toggled(cache.pinned, k, req[r].route = "pin")
    BY <1>4, <2>0, SMT
  <2>2. \A x \in Requests : req[x].pc # "swapped"
    BY <1>1, <1>3
  <2>3. req[r].vault = active /\ (k \in pins[active] <=> req[r].route = "pin")
    BY <1>3, <2>1 DEF PinInv, OnTime, Writes
  <2>4. CASE m = req[r].m
    BY <2>1, <2>3, <2>4 DEF Toggled
  <2>5. CASE m # req[r].m
    <3>1. ~Unshown(m)
      BY <1>1, <1>3, <2>5 DEF Unshown
    <3>2. Key(active, m) \in cache.pinned <=> Key(active, m) \in pins[active]
      BY <2>1, <2>2, <3>1 DEF PinInv, CacheShows
    <3> QED BY <2>1, <2>5, <3>2 DEF Toggled, Key
  <2> QED BY <2>4, <2>5
<1> QED BY <1>5, <1>6, <1>7 DEF PinInv

\* A projection is stored with the pins it took: those of the active vault, unless it is late.
LEMMA StoreKeeps ==
  ASSUME PinInv, NEW r \in Requests, GraphStore(r)
  PROVE  PinInv'
<1>1. req' = [x \in Requests |-> IF x = r THEN Placed ELSE req[x]]
  BY DEF GraphStore, Step, PinInv, PanelFormed
<1>2. IsRequest(Placed) /\ ~Writes(Placed) /\ Placed.pc = "placed"
  BY DEF IsRequest, Writes, Placed
<1>3. UNCHANGED <<active, pins>> /\ req[r].pc = "label" /\ tainted' = req[r].late
      /\ cache' = [count |-> req[r].count, pinned |-> req[r].pinned]
  BY DEF GraphStore
<1>4. PanelFormed'
  <2>1. \A x \in Requests : IsRequest(req'[x])
    BY <1>1, <1>2 DEF PinInv, PanelFormed
  <2>2. req' = [x \in Requests |-> req'[x]]
    BY <1>1
  <2>3. cache' = [count |-> cache'.count, pinned |-> cache'.pinned]
    BY <1>3
  <2> QED BY <1>3, <2>1, <2>2, <2>3 DEF PinInv, PanelFormed, IsRequest, NoCache, Unasked, Placed
<1>5. \A x \in Requests : OnTime(req[x])'
  BY <1>1, <1>2, <1>3 DEF PinInv, OnTime, Writes, Key
<1>6. ~req[r].late => req[r].pinned = pins[active]
  BY <1>3 DEF PinInv, OnTime, Writes
<1>7. CacheShows'
  BY <1>3, <1>6 DEF CacheShows, Key
<1> QED BY <1>4, <1>5, <1>7 DEF PinInv

\* A switch or a restart that drops the projection.
LEMMA DropKeeps ==
  ASSUME PinInv, (\E r \in Requests : SwitchInvalidate(r)) \/ (\E v \in VaultsShown : Restart(v))
  PROVE  PinInv'
<1>1. /\ cache' = NoCache /\ active' \in VaultsShown /\ pins' = pins
      /\ req' = [x \in Requests |-> req'[x]]
      /\ \A x \in Requests : req'[x] = Unasked \/ (req'[x] = req[x] /\ active' = active)
  BY DEF SwitchInvalidate, Restart, Step, PinInv, PanelFormed
<1>2. IsRequest(Unasked) /\ ~Writes(Unasked)
  BY DEF IsRequest, Writes, Unasked
<1>3. \A x \in Requests : IsRequest(req'[x])
  BY <1>1, <1>2 DEF PinInv, PanelFormed
<1>4. PanelFormed'
  BY <1>1, <1>3 DEF PinInv, PanelFormed, IsRequest, NoCache, Unasked, Placed
<1>5. \A x \in Requests : OnTime(req[x])'
  BY <1>1, <1>2 DEF PinInv, OnTime, Writes, Key
<1> QED BY <1>1, <1>4, <1>5 DEF PinInv, CacheShows, NoCache

\* Nothing else touches what the invariant speaks of.
LEMMA PinStep == PinInv /\ [PanelNext]_panelVars => PinInv'
<1> SUFFICES ASSUME PinInv, [PanelNext]_panelVars PROVE PinInv'
  OBVIOUS
<1>1. CASE UNCHANGED <<active, pins, cache, req, tainted>>
  BY <1>1 DEF PinInv, PanelFormed, OnTime, CacheShows, Unshown, Writes, Key, NoCache, IsRequest,
              Unasked, Placed
<1>2. ASSUME NEW r \in Requests,
             \/ \E route \in RoutesAsked, m \in Listed : Ask(r, route, m)
             \/ Reply(r) \/ HealthAction(r) \/ GraphLook(r) \/ GraphPlace(r) \/ GraphApply(r)
      PROVE  PinInv'
  BY <1>2, SteadyActions
<1>3. ASSUME NEW r \in Requests,
             \/ SwitchInvalidate(r) \/ SavePin(r) \/ CachePin(r) \/ GraphStore(r)
             \/ \E v \in VaultsShown : SwitchSwap(r, v)
      PROVE  PinInv'
  BY <1>3, DropKeeps, SaveKeeps, CachePinKeeps, StoreKeeps, SwapKeeps
<1>4. ASSUME NEW v \in VaultsShown, LogQuery(v) \/ Restart(v) \/ \E m \in Memories : Ingest(v, m)
      PROVE  PinInv'
  BY <1>1, <1>4, DropKeeps DEF LogQuery, Ingest
<1> QED BY <1>1, <1>2, <1>3, <1>4 DEF PanelNext, panelVars

\* Between requests a projection that is used pins what the active vault's database pins,
\* unless a pin or a switch overtook the request that wrote it: PinsShown of Panel.
THEOREM PinsStayShown == PanelSpec => []PinsShown
<1>1. PinInv => PinsShown
  <2> SUFFICES ASSUME PinInv, ~tainted, cache # NoCache,
                      \A r \in Requests : req[r].pc \notin {"saved", "swapped"},
                      NEW m \in Nodes(active)
      PROVE  Key(active, m) \in cache.pinned <=> Key(active, m) \in pins[active]
    BY DEF PinsShown
  <2> QED BY DEF PinInv, CacheShows, Unshown, Nodes
<1> QED BY <1>1, PinInvInit, PinStep, PTL DEF PanelSpec

=============================================================================
