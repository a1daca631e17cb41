-------------------------------- MODULE Vault --------------------------------
(***************************************************************************)
(* How a vault follows its markdown files (hebbs-vault).  A watcher reports *)
(* changes; the daemon's watch loop parses them into a manifest (phase 1)   *)
(* and later has a language model extract memories from what is stale       *)
(* (phase 2).  The index command does both over the whole vault, beside the *)
(* loop.  The manifest is read and written whole, by rename; the daemon may *)
(* stop or crash between any two steps.                                     *)
(***************************************************************************)
EXTENDS Naturals, Sequences, FiniteSets

CONSTANTS
  Files,
  Texts,         \* contents of a file: functions from headings to bodies
  Blank,         \* the body of a section without content
  Hollow,        \* texts of which nothing is left without placeholder lines
  Large,         \* texts so long that their document memory is a summary
  Indexers,      \* index commands, over time
  MaxEdits,      \* bound on changes made to the files
  MaxRuns,       \* bound on runs of phase 2
  MaxStops       \* bound on evictions, shutdowns, crashes and failures of the file system

ASSUME VaultConstants == {MaxEdits, MaxRuns, MaxStops} \subseteq Nat
\* A file without sections would leave the manifest again at the end of phase 2.
ASSUME TextsHaveSections == \A t \in Texts : t = [h \in DOMAIN t |-> t[h]] /\ DOMAIN t # {}

VARIABLES
  disk,      \* disk[f]: the file's text, or Gone
  events,    \* events[f]: changes reported and not yet received
  saved,     \* .hebbs/manifest.json
  store,     \* document and proposition memories that extractions stored and have not
             \* deleted; those that decay later lets the engine forget still count
  open,      \* whether the vault manager has the vault open: "closed", "watched", or
             \* "blind", open without the watcher it could not start
  watch,     \* the loop's state for the vault
  locked,    \* the vault has an entry in the indexing locks
  run,       \* the extraction each of the loop and the indexers is doing
  edits, runs, stops,
  \* history, read by the properties only
  excused,   \* files a known gap may have left behind: no watcher reported the change,
             \* the file could not be read when its turn came, its entry was not saved or
             \* was overwritten by another writer, or it is a restored file
  torn,      \* files whose text changed between a phase 1 and its phase 2
  found      \* extractions that found nothing to store, of which file and text

vaultVars == <<disk, events, saved, store, open, watch, locked, run, edits, runs, stops, excused, torn, found>>

Gone == <<>>
NoEntry == [sum |-> Gone]
NoDoc == [kind |-> "none"]
Loop == "watch"
Runners == {Loop} \cup Indexers
Resting == [pc |-> "idle"]
Untracked == [caught |-> FALSE, creates |-> {}, deletes |-> {}, armed |-> FALSE,
              stale |-> FALSE, copy |-> [f \in Files |-> NoEntry]]

VaultInit ==
  /\ disk \in [Files -> Texts \cup {Gone}] /\ events = [f \in Files |-> <<>>]
  /\ saved = [f \in Files |-> NoEntry] /\ store = {} /\ open = "closed" /\ watch = Untracked
  /\ locked = FALSE /\ run = [r \in Runners |-> Resting]
  /\ edits = 0 /\ runs = 0 /\ stops = 0
  /\ excused = {f \in Files : disk[f] # Gone} /\ torn = {} /\ found = {}

\* A step that may go wrong: reading or parsing a file, loading or saving the
\* manifest, starting or reading a watcher.
Mishap(wrong) == IF wrong THEN stops < MaxStops /\ stops' = stops + 1 ELSE stops' = stops

-----------------------------------------------------------------------------
(* The manifest.  An entry holds the checksum of the text it was made from, *)
(* the state of each section, and the memories extracted.                   *)

Live(e) == IF e = NoEntry THEN {} ELSE {h \in DOMAIN e.sec : e.sec[h] # "orphaned"}
In(e, st) == IF e = NoEntry THEN {} ELSE {h \in DOMAIN e.sec : e.sec[h] = st}

ParsedByHeading(e, text) ==               \* mutant: the content is not compared
  [sum |-> text, doc |-> NoDoc, props |-> {},
   sec |-> [h \in DOMAIN text \cup Live(e) |->
              CASE h \notin DOMAIN text -> "orphaned"
                [] h \in DOMAIN text \cap Live(e) -> e.sec[h]
                [] OTHER -> "stale"]]
\* The entry of a text: a section keeps its state if heading and content do, one
\* whose heading is gone is orphaned, the rest is stale.  The memories are not
\* carried over.
Parsed(e, text) ==
  [sum |-> text, doc |-> NoDoc, props |-> {},
   sec |-> [h \in DOMAIN text \cup Live(e) |->
              CASE h \notin DOMAIN text -> "orphaned"
                [] h \in DOMAIN text \cap Live(e) /\ e.sum[h] = text[h] -> e.sec[h]
                [] OTHER -> "stale"]]

Present == {f \in Files : disk[f] # Gone}
Changed(man) == {f \in Present : man[f].sum # disk[f]}

\* phase1_ingest of the paths it can read and parse: it skips the others, and a file
\* whose checksum it has.
Phase1(man, paths) ==
  [f \in Files |-> IF f \in paths \cap Changed(man) THEN Parsed(man[f], disk[f]) ELSE man[f]]
Phase1Delete(man, paths) ==
  [f \in Files |-> IF f \in paths /\ man[f] # NoEntry
                   THEN [man[f] EXCEPT !.sec = [h \in DOMAIN man[f].sec |-> "orphaned"]]
                   ELSE man[f]]
\* A restored file: its checksum is known, so its orphaned sections stay orphaned.
Restored(man, paths) ==
  {f \in paths \cap Present : man[f].sum = disk[f] /\ Live(man[f]) # DOMAIN disk[f]}

-----------------------------------------------------------------------------
(* Phase 2, in the loop or in an index command                             *)

\* What is stale is read from the files as they are now, and stays stale where that
\* fails.  Where the text is no longer the one parsed, a section may read as blank.
Phase2Begin(r, man, n, base, unread) ==
  \E blank \in SUBSET Changed(man) :
    LET Bare(f) == {h \in In(man[f], "stale") : f \in blank \/ man[f].sum[h] = Blank}
        todo == {f \in Present \ unread : In(man[f], "stale") \ Bare(f) # {}}
    IN  /\ run' = [run EXCEPT ![r] =
             [pc |-> "extract", n |-> n, man |-> man, base |-> base, todo |-> todo,
              text |-> [f \in todo |-> disk[f]],
              bare |-> [f \in Files |-> IF f \in Present \ unread THEN Bare(f) ELSE {}],
              gone |-> [f \in Files |-> In(man[f], "orphaned")]]]
        /\ torn' = torn \cup {f \in Changed(man) : In(man[f], "stale") # {}}

Bodies(text) == {text[h] : h \in DOMAIN text} \ {Blank}

SyncedAnyway(e, ok) == [h \in DOMAIN e.sec |-> IF e.sec[h] = "stale" THEN "synced" ELSE e.sec[h]]
SyncedIf(e, ok) ==
  [h \in DOMAIN e.sec |-> IF e.sec[h] = "stale" /\ ok THEN "synced" ELSE e.sec[h]]

Noted(e, doc, props, ok) == [sum |-> e.sum, doc |-> doc, props |-> props, sec |-> SyncedIf(e, ok)]

\* One file of a run, whose old document memory goes in any case.  The model's answer
\* is any set of facts; a request that failed was replaced by an empty answer, which
\* is one of them.  Each memory may fail to be stored; facts the entry already names
\* are kept, others it names go.
Stores(r, f) ==
  \E docOk \in BOOLEAN, said \in SUBSET Bodies(run[r].text[f]) :
  \E failed \in SUBSET said :
    LET e == run[r].man[f]
        text == run[r].text[f]
        kept == {m \in e.props : m.says \in said}
        new == {[kind |-> "prop", of |-> f, from |-> text, says |-> b, made |-> run[r].n] :
                  b \in (said \ failed) \ {m.says : m \in kept}}
        doc == [kind |-> "doc", of |-> f, from |-> text, made |-> run[r].n]
        props == kept \cup new
    IN  /\ store' = ((store \ ({e.doc} \cup (e.props \ kept))) \cup new)
                      \cup IF docOk THEN {doc} ELSE {}
        /\ run' = [run EXCEPT ![r].todo = @ \ {f},
             ![r].man[f] = Noted(e, IF docOk THEN doc ELSE e.doc, props,
                                 props # {} \/ (docOk /\ failed = {}))]
        /\ found' = found
\* Nothing is left of the text, or the summary of a large one is blank: that is no
\* error, the sections count as done, and the entry forgets what memories it had.
StoresNothing(r, f) ==
  LET e == run[r].man[f] IN
  /\ store' = store \ {e.doc}
  /\ run' = [run EXCEPT ![r].todo = @ \ {f}, ![r].man[f] = Noted(e, e.doc, {}, TRUE)]
  /\ found' = found \cup {[of |-> f, from |-> run[r].text[f]]}
Extract(r, f) ==
  /\ run[r].pc = "extract" /\ f \in run[r].todo
  /\ \/ run[r].text[f] \notin Hollow /\ Stores(r, f)
     \/ run[r].text[f] \in Hollow \cup Large /\ StoresNothing(r, f)
  /\ UNCHANGED <<disk, events, saved, open, watch, locked, edits, runs, stops, excused, torn>>

\* At the end blank sections count as synced, orphaned ones leave the entry, and
\* an entry without sections leaves the manifest.
Settled(p) ==
  [f \in Files |->
     IF p.man[f] = NoEntry THEN NoEntry
     ELSE LET e == p.man[f]
              keep == DOMAIN e.sec \ p.gone[f]
          IN  IF keep = {} THEN NoEntry
              ELSE [e EXCEPT !.sec = [h \in keep |->
                      IF h \in p.bare[f] /\ e.sec[h] = "stale" THEN "synced" ELSE e.sec[h]]]]

Overwritten(base) == {f \in Files : saved[f] # base[f]}

-----------------------------------------------------------------------------
(* The watch loop                                                          *)

Idle(r) == run[r] = Resting
\* Whoever works on the vault opens it, if it is not open.
Opened == open' \in IF open = "closed" THEN {"watched", "blind"} ELSE {open}
Unwatched == open = "closed" /\ open' = "blind"

\* The first event of a vault first catches up with what changed while no daemon
\* ran; only a vault that was indexed before goes on to phase 2.
CaughtUp(unread) ==
  LET changed == Changed(saved) \ unread
      man == Phase1(saved, changed)
      modified == \E f \in changed : \E h \in DOMAIN disk[f] :
                    h \in Live(saved[f]) /\ saved[f].sum[h] # disk[f][h]
      partial == /\ \E f \in Files : In(man[f], "stale") # {}
                 /\ \E f \in Files : In(man[f], "synced") # {}
  IN  [watch EXCEPT !.caught = TRUE, !.copy = man, !.stale = modified \/ partial]
CatchUp ==
  /\ ~watch.caught /\ Idle(Loop) /\ \E f \in Files : events[f] # <<>>
  /\ \E unread \in SUBSET Present, lost \in BOOLEAN :
       /\ Mishap(unread # {} \/ lost) /\ watch' = CaughtUp(unread)
       /\ saved' = IF lost THEN saved ELSE watch'.copy
       /\ excused' = IF lost THEN excused
                     ELSE {g \in excused : disk[g] = Gone \/ events[g] # <<>> \/ g \in unread}
                            \cup Restored(saved, Present)
  /\ UNCHANGED <<disk, events, store, open, locked, run, edits, runs, torn, found>>
\* A vault whose config or manifest does not load is followed without catching up.
CatchUpFails ==
  /\ ~watch.caught /\ Idle(Loop) /\ \E f \in Files : events[f] # <<>>
  /\ Mishap(TRUE) /\ watch' = [watch EXCEPT !.caught = TRUE]
  /\ UNCHANGED <<disk, events, saved, store, open, locked, run, edits, runs, excused, torn, found>>

ReceiveNoRemove(f) ==                     \* mutant: a removal only cancels a write
  /\ watch.caught /\ events[f] # <<>> /\ Idle(Loop)
  /\ LET ev == Head(events[f])
         add == ev = "write" /\ disk[f] # Gone
     IN  watch' = [watch EXCEPT
           !.armed = TRUE,
           !.creates = IF add THEN @ \cup {f} ELSE IF ev = "remove" THEN @ \ {f} ELSE @]
  /\ events' = [events EXCEPT ![f] = Tail(@)]
  /\ UNCHANGED <<disk, saved, store, open, locked, run, edits, runs, stops, excused, torn, found>>
\* An event is filed by what the file is like when it is received; an access
\* changes nothing but arms phase 1.
Receive(f) ==
  /\ watch.caught /\ events[f] # <<>> /\ Idle(Loop)
  /\ LET ev == Head(events[f])
         add == ev = "write" /\ disk[f] # Gone
         del == ev = "remove" \/ (ev = "write" /\ disk[f] = Gone)
     IN  watch' = [watch EXCEPT
           !.armed = TRUE,
           !.creates = IF add THEN @ \cup {f} ELSE IF ev = "remove" THEN @ \ {f} ELSE @,
           !.deletes = IF del THEN @ \cup {f} ELSE IF add THEN @ \ {f} ELSE @]
  /\ events' = [events EXCEPT ![f] = Tail(@)]
  /\ UNCHANGED <<disk, saved, store, open, locked, run, edits, runs, stops, excused, torn, found>>

\* A tick: the manifest is read again, or the loop's copy kept where that fails,
\* changed and saved, and phase 2 is armed.  Nothing that fails is tried again.
Phase1Tick ==
  /\ Idle(Loop) /\ watch.armed /\ watch.creates \cup watch.deletes # {}
  /\ \E old \in {saved, watch.copy}, unread \in SUBSET Present, lost \in BOOLEAN :
       LET man == Phase1Delete(Phase1(old, watch.creates \ unread), watch.deletes)
       IN  /\ Mishap(old # saved \/ unread # {} \/ lost)
           /\ saved' = IF lost THEN saved ELSE man
           /\ watch' = [caught |-> watch.caught, creates |-> {}, deletes |-> {}, armed |-> FALSE,
                        stale |-> TRUE, copy |-> man]
           /\ excused' = excused \cup Restored(old, watch.creates)
                            \cup (unread \cap watch.creates \cap Changed(old))
                            \cup {f \in Files : old[f] # saved[f] \/ man[f] # saved'[f]}
  /\ UNCHANGED <<disk, events, store, open, locked, run, edits, runs, torn, found>>

\* A later tick, once no index command holds the lock, which the loop itself
\* never takes.  The vault is opened if it is not.
LoopPhase2 ==
  /\ Idle(Loop) /\ watch.stale /\ ~locked /\ runs < MaxRuns /\ runs' = runs + 1
  /\ Opened
  /\ \E man \in {saved, watch.copy}, unread \in SUBSET Present :
       /\ Mishap(Unwatched \/ man # saved \/ unread # {}) /\ watch' = [watch EXCEPT !.copy = man]
       /\ Phase2Begin(Loop, man, runs, man, unread)
  /\ UNCHANGED <<disk, events, saved, store, locked, edits, excused, found>>
\* No model configured, or the vault does not open: nothing is tried again.
LoopPhase2Fails ==
  /\ Idle(Loop) /\ watch.stale /\ ~locked
  /\ \E man \in {saved, watch.copy} :
       Mishap(man # saved) /\ watch' = [watch EXCEPT !.copy = man, !.stale = FALSE]
  /\ UNCHANGED <<disk, events, saved, store, open, locked, run, edits, runs, excused, torn, found>>
LoopSave ==
  /\ run[Loop].pc = "extract" /\ run[Loop].todo = {}
  /\ \E lost \in BOOLEAN :
       /\ Mishap(lost) /\ saved' = IF lost THEN saved ELSE Settled(run[Loop])
       /\ excused' = IF lost THEN excused ELSE excused \cup Overwritten(run[Loop].base)
  /\ watch' = [watch EXCEPT !.copy = Settled(run[Loop]), !.stale = FALSE]
  /\ run' = [run EXCEPT ![Loop] = Resting]
  /\ UNCHANGED <<disk, events, store, open, locked, edits, runs, torn, found>>

-----------------------------------------------------------------------------
(* The index command                                                       *)

\* The lock is looked at first and taken later, once the manifest is loaded.
IndexAsk(i) ==
  /\ Idle(i) /\ ~locked /\ Opened /\ Mishap(Unwatched) /\ runs < MaxRuns /\ runs' = runs + 1
  /\ run' = [run EXCEPT ![i] = [pc |-> "load", n |-> runs, man |-> saved]]
  /\ UNCHANGED <<disk, events, saved, store, watch, locked, edits, excused, torn, found>>
\* A save that fails goes unnoticed.
IndexPhase1(i) ==
  /\ run[i].pc = "load" /\ locked' = TRUE
  /\ \E unread \in SUBSET Present, lost \in BOOLEAN :
       LET man == Phase1(run[i].man, Present \ unread)
       IN  /\ Mishap(unread # {} \/ lost) /\ saved' = IF lost THEN saved ELSE man
           /\ run' = [run EXCEPT ![i] = [pc |-> "parsed", n |-> run[i].n, man |-> man, base |-> man]]
  /\ excused' = IF saved' = saved THEN excused
                ELSE excused \cup Overwritten(run[i].man) \cup Restored(run[i].man, Present)
  /\ UNCHANGED <<disk, events, store, open, watch, edits, runs, torn, found>>
IndexPhase2(i) ==
  /\ run[i].pc = "parsed"
  /\ \E unread \in SUBSET Present :
       Mishap(unread # {}) /\ Phase2Begin(i, run[i].man, run[i].n, run[i].base, unread)
  /\ UNCHANGED <<disk, events, saved, store, open, watch, locked, edits, runs, excused, found>>
IndexLeaves(i) ==                         \* mutant: the lock stays
  /\ run[i].pc = "parsed" /\ run' = [run EXCEPT ![i] = Resting]
  /\ UNCHANGED <<disk, events, saved, store, open, watch, locked, edits, runs, stops, excused, torn, found>>
IndexFails(i) ==
  /\ run[i].pc = "parsed" /\ run' = [run EXCEPT ![i] = Resting] /\ locked' = FALSE
  /\ UNCHANGED <<disk, events, saved, store, open, watch, edits, runs, stops, excused, torn, found>>
IndexSave(i) ==
  /\ run[i].pc = "extract" /\ run[i].todo = {} /\ locked' = FALSE
  /\ \E lost \in BOOLEAN :
       /\ Mishap(lost) /\ saved' = IF lost THEN saved ELSE Settled(run[i])
       /\ excused' = IF lost THEN excused ELSE excused \cup Overwritten(run[i].base)
  /\ run' = [run EXCEPT ![i] = Resting]
  /\ UNCHANGED <<disk, events, store, open, watch, edits, runs, torn, found>>

-----------------------------------------------------------------------------
(* The files, and the daemon around the vault                              *)

\* Writing a file is reported as a modification and then as an access, unless the
\* vault has no watcher or the watcher reports an error instead.
Edit(f, text) ==
  /\ edits < MaxEdits /\ edits' = edits + 1 /\ text # disk[f]
  /\ disk' = [disk EXCEPT ![f] = text]
  /\ \E heard \in BOOLEAN :
       /\ heard => open = "watched"
       /\ Mishap(~heard /\ open = "watched")
       /\ events' = IF heard THEN [events EXCEPT ![f] = @ \o
                      IF text = Gone THEN <<"remove">> ELSE <<"write", "access">>] ELSE events
       /\ excused' = IF heard THEN excused \ {f} ELSE excused \cup {f}
  /\ UNCHANGED <<saved, store, open, watch, locked, run, runs, torn, found>>

\* An idle vault, or the least recently used one, is closed; the loop goes on.
Evict ==
  /\ open # "closed" /\ stops < MaxStops /\ stops' = stops + 1 /\ open' = "closed"
  /\ UNCHANGED <<disk, events, saved, store, watch, locked, run, edits, runs, excused, torn, found>>
\* Any command opens the vault again, starting a daemon if there is none.
Reopen ==
  /\ open = "closed" /\ Opened /\ Mishap(Unwatched)
  /\ UNCHANGED <<disk, events, saved, store, watch, locked, run, edits, runs, excused, torn, found>>

InFlight == {f \in Files : events[f] # <<>> \/ f \in watch.creates \cup watch.deletes}
Halt(man) ==
  /\ stops < MaxStops /\ stops' = stops + 1
  /\ saved' = man /\ watch' = Untracked /\ open' = "closed" /\ locked' = FALSE
  /\ events' = [f \in Files |-> <<>>] /\ run' = [r \in Runners |-> Resting]
  /\ excused' = excused \cup InFlight \cup {f \in Files : saved[f] # man[f]}
  /\ UNCHANGED <<disk, store, edits, runs, torn, found>>
Crash == Halt(saved)
\* On a shutdown the loop saves its own copy if it holds pending work, unless the
\* process is gone first.
Shutdown == (watch.armed \/ watch.stale) /\ Idle(Loop) /\ Halt(watch.copy)

VaultNext ==
  \/ \E f \in Files : Receive(f) \/ \E text \in Texts \cup {Gone} : Edit(f, text)
  \/ \E r \in Runners, f \in Files : Extract(r, f)
  \/ CatchUp \/ CatchUpFails \/ Phase1Tick \/ LoopPhase2 \/ LoopPhase2Fails \/ LoopSave
  \/ \E i \in Indexers : IndexAsk(i) \/ IndexPhase1(i) \/ IndexPhase2(i) \/ IndexFails(i) \/ IndexSave(i)
  \/ Evict \/ Reopen \/ Crash \/ Shutdown

\* Ticks come, events are received, and a run that has begun goes on.
VaultFairness ==
  /\ WF_vaultVars(CatchUp \/ \E f \in Files : Receive(f)) /\ WF_vaultVars(Phase1Tick)
  /\ WF_vaultVars(LoopPhase2) /\ WF_vaultVars(LoopSave)
  /\ \A r \in Runners : WF_vaultVars(\E f \in Files : Extract(r, f))
  /\ \A i \in Indexers :
       WF_vaultVars(IndexPhase1(i) \/ IndexPhase2(i) \/ IndexFails(i) \/ IndexSave(i))

VaultSpec == VaultInit /\ [][VaultNext]_vaultVars /\ VaultFairness

-----------------------------------------------------------------------------
(* Properties                                                              *)

AtRest ==
  /\ open # "closed" /\ watch.caught /\ watch.creates \cup watch.deletes = {}
  /\ \A f \in Files : events[f] = <<>>
  /\ \A r \in Runners : Idle(r)

\* When the pipeline is at rest, the manifest describes every file as it is now and
\* no section of one that is gone, unless one of the known gaps left it behind.
SettledCurrent ==
  AtRest => \A f \in Files \ excused :
    IF disk[f] = Gone THEN Live(saved[f]) = {}
    ELSE saved[f].sum = disk[f] /\ Live(saved[f]) = DOMAIN disk[f]

\* A section the saved manifest calls synced has been read by an extraction that
\* left a memory of its text in the store, or found nothing in that text to store: no
\* crash, failure or second writer marks a section done that was never done, unless
\* its file changed under a run.
SyncedRepresented ==
  \A f \in Files \ torn : \A h \in In(saved[f], "synced") :
    saved[f].sum[h] # Blank =>
      \E m \in store \cup found : m.of = f /\ saved[f].sum[h] \in Bodies(m.from)

\* Pending work is taken up: phase 2 is not put off for ever by index commands that
\* have come and gone, and every run ends.
Settles ==
  /\ watch.stale ~> (~watch.stale \/ runs = MaxRuns)
  /\ \A r \in Runners : ~Idle(r) ~> Idle(r)

\* A shutdown undoes nothing an index command has finished.
ShutdownKeepsIndex ==
  [][watch' = Untracked =>
       \A f \in Files : In(saved[f], "synced") \subseteq In(saved'[f], "synced")]_vaultVars

\* A fact that the file of a fully synced entry no longer states is not kept.
MissingDeleted ==
  AtRest => \A f \in Files \ (excused \cup torn) :
    disk[f] # Gone /\ In(saved[f], "stale") = {} =>
      \A m \in store : m.of = f /\ m.kind = "prop" => m.says \in Bodies(disk[f])
==============================================================================
