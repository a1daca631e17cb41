------------------------------ MODULE Commands ------------------------------
(***************************************************************************)
(* The commands of hebbs in the three ways they are run: by the daemon      *)
(* (daemon/mod.rs), by the program itself ("direct mode", bin/hebbs.rs),    *)
(* and by a server (hebbs-cli/commands.rs): when arguments are refused,     *)
(* which vaults are opened, and what is then called.  Arguments, answers    *)
(* and their formats are left out.                                          *)
(***************************************************************************)
Server == INSTANCE Handlers

\* Arguments are refused before a vault is opened, after it, or never.
OnVault(refuses, calls) == [refuses |-> refuses, vaults |-> "one", calls |-> calls]
\* The vault of the request and the others it names, under one hold of the manager.
OnVaults(refuses, calls) == [refuses |-> refuses, vaults |-> "all", calls |-> calls]
\* The files of a vault are read, whether it is open or not.
OnFiles(calls) == [refuses |-> "never", vaults |-> "none", calls |-> calls]
\* Calls of a server, none of which is undone; the first that fails ends most commands.
OnServer(refuses, calls) == [refuses |-> refuses, vaults |-> "none", calls |-> calls]

-----------------------------------------------------------------------------
(* The daemon                                                              *)

Ping == OnFiles(<<>>)
Remember == OnVault("opened", <<"remember">>)
Get == OnVault("opened", <<"get">>)
\* Every vault is asked, the first that fails ends it; then the query log and the
\* contradictions among the answers, both of the first vault only.
Recall == OnVaults("never", <<"recall", "log", "contradictions", "manifest">>)
Forget == OnVault("opened", <<"forget">>)
Prime == OnVaults("first", <<"prime", "log">>)
Inspect == OnVault("opened", <<"get", "outgoing_edges">>)
Export == OnVault("never", <<"recall">>)
Status == OnFiles(<<"manifest">>)
List == OnFiles(<<"manifest">>)
\* The steps of an index command and its lock are Vault's.
Index == OnVault("first", <<"config", "manifest", "files", "phase1", "phase2">>)
ReflectPrepare == OnVault("never", <<"reflect_prepare">>)
ReflectCommit == OnVault("opened", <<"reflect_commit">>)
ContradictionPrepare == OnVault("never", <<"contradiction_prepare">>)
\* What was confirmed is also written into files beside the documents.
ContradictionCommit == OnVault("opened", <<"contradiction_commit", "config", "manifest", "get", "files">>)
Insights == OnVault("never", <<"insights">>)
Queries == OnVault("never", <<"log">>)

DaemonCommands ==
  [ping |-> Ping, remember |-> Remember, get |-> Get, recall |-> Recall, forget |-> Forget,
   prime |-> Prime, inspect |-> Inspect, export |-> Export, status |-> Status, list |-> List,
   index |-> Index, reflect_prepare |-> ReflectPrepare, reflect_commit |-> ReflectCommit,
   contradiction_prepare |-> ContradictionPrepare,
   contradiction_commit |-> ContradictionCommit, insights |-> Insights, queries |-> Queries]

-----------------------------------------------------------------------------
(* Direct mode: the program opens the one vault itself                     *)

LocalRemember == OnVault("opened", <<"remember">>)
LocalGet == OnVault("opened", <<"get">>)
LocalRecall == OnVault("opened", <<"recall">>)
LocalForget == OnVault("opened", <<"forget">>)
LocalPrime == OnVault("opened", <<"prime">>)
LocalInspect == OnVault("opened", <<"get", "outgoing_edges">>)
LocalExport == OnVault("never", <<"recall">>)
LocalStatus == OnFiles(<<"manifest">>)
LocalList == OnFiles(<<"manifest">>)
LocalIndex == OnVault("never", <<"config", "manifest", "files", "phase1", "phase2">>)
\* The session that is opened ends with the process.
LocalReflectPrepare == OnVault("never", <<"reflect_prepare">>)
LocalReflectCommit == OnVault("opened", <<"reflect_commit">>)
LocalReflect == OnVault("opened", <<"reflect">>)
LocalContradictionPrepare == OnVault("never", <<"contradiction_prepare">>)
LocalContradictionCommit == OnVault("opened", <<"contradiction_commit">>)
LocalInsights == OnVault("never", <<"insights">>)
\* Rebuild has steps of its own, in Setup.
LocalRebuild == OnVault("never", <<"phase1", "phase2">>)
\* The watch loop in this process, until it is interrupted.
LocalWatch == OnVault("never", <<"phase1", "phase2">>)
\* Set reads what the file itself says, changes one key and writes it whole.
LocalConfig == OnFiles(<<"config", "save config">>)
\* A daemon is started if none answers; one that does is told the vault to show.
LocalPanel == OnFiles(<<"ensure_daemon", "switch">>)
\* This process becomes the daemon.
LocalServe == OnFiles(<<"run_daemon">>)
LocalStop == OnFiles(<<"shutdown">>)
\* Revise, subscribe, feed and metrics need a server, queries a daemon.
LocalNone == [OnFiles(<<>>) EXCEPT !.refuses = "first"]

LocalCommands ==
  [remember |-> LocalRemember, get |-> LocalGet, recall |-> LocalRecall, forget |-> LocalForget,
   prime |-> LocalPrime, inspect |-> LocalInspect, export |-> LocalExport,
   status |-> LocalStatus, list |-> LocalList, index |-> LocalIndex,
   reflect_prepare |-> LocalReflectPrepare, reflect_commit |-> LocalReflectCommit,
   reflect |-> LocalReflect, contradiction_prepare |-> LocalContradictionPrepare,
   contradiction_commit |-> LocalContradictionCommit, insights |-> LocalInsights,
   rebuild |-> LocalRebuild, watch |-> LocalWatch, config |-> LocalConfig,
   panel |-> LocalPanel, serve |-> LocalServe, stop |-> LocalStop, revise |-> LocalNone,
   subscribe |-> LocalNone, feed |-> LocalNone, metrics |-> LocalNone, queries |-> LocalNone]

-----------------------------------------------------------------------------
(* Remote mode: calls of hebbs-server                                      *)

RemoteRemember == OnServer("first", <<"remember">>)
RemoteGet == OnServer("first", <<"get">>)
RemoteRecall == OnServer("first", <<"recall">>)
RemoteRevise == OnServer("first", <<"revise">>)
RemoteForget == OnServer("first", <<"forget">>)
RemotePrime == OnServer("first", <<"prime">>)
\* Pushes are printed until the stream ends.
RemoteSubscribe == OnServer("never", <<"subscribe">>)
RemoteFeed == OnServer("never", <<"feed">>)
RemoteReflect == OnServer("never", <<"reflect">>)
RemoteReflectPrepare == OnServer("never", <<"reflect_prepare">>)
RemoteReflectCommit == OnServer("first", <<"reflect_commit">>)
RemoteContradictionPrepare == OnServer("never", <<"contradiction_prepare">>)
RemoteContradictionCommit == OnServer("first", <<"contradiction_commit">>)
RemoteInsights == OnServer("never", <<"insights">>)
RemoteStatus == OnServer("never", <<"health">>)
\* Its neighbours by edge and by vector are recalled; either may fail.
RemoteInspect == OnServer("first", <<"get", "recall", "recall">>)
RemoteExport == OnServer("never", <<"recall">>)
\* One HTTP request without a key.
RemoteMetrics == OnServer("never", <<"metrics">>)

RemoteCommands ==
  [remember |-> RemoteRemember, get |-> RemoteGet, recall |-> RemoteRecall,
   revise |-> RemoteRevise, forget |-> RemoteForget, prime |-> RemotePrime,
   subscribe |-> RemoteSubscribe, feed |-> RemoteFeed, reflect |-> RemoteReflect,
   reflect_prepare |-> RemoteReflectPrepare, reflect_commit |-> RemoteReflectCommit,
   contradiction_prepare |-> RemoteContradictionPrepare,
   contradiction_commit |-> RemoteContradictionCommit, insights |-> RemoteInsights,
   status |-> RemoteStatus, inspect |-> RemoteInspect, export |-> RemoteExport,
   metrics |-> RemoteMetrics]

-----------------------------------------------------------------------------
(* Which of them runs                                                      *)

\* Commands that never go to a daemon.
Bypassing == {"init", "config", "version", "serve", "panel", "stop"}
\* Commands with a request for the daemon; that of watch is a ping.
Carried == (DOMAIN DaemonCommands \ {"ping"}) \cup {"watch"}
\* Commands that hebbs takes to a server; hebbs-cli has all of them.
Mapped == DOMAIN RemoteCommands \ {"contradiction_prepare", "contradiction_commit"}

\* A command that the daemon does not know, or that finds none it can start, is run
\* directly.
DaemonWay(cmd, up) == IF up /\ cmd \in Carried THEN "daemon" ELSE "direct"
RemoteWay(cmd) == IF cmd \in Mapped THEN "remote" ELSE "refused"
WayOf(cmd, endpoint, alone, up) ==
  IF endpoint THEN RemoteWay(cmd)
  ELSE IF cmd \in Bypassing \/ alone THEN "direct" ELSE DaemonWay(cmd, up)

\* What a command calls does not depend on the way it is run, save that the daemon
\* logs recalls and primes, looks for contradictions, and writes them into files.
ASSUME WaysAgree ==
  {cmd \in DOMAIN DaemonCommands \cap DOMAIN LocalCommands :
     DaemonCommands[cmd].calls # LocalCommands[cmd].calls}
  = {"recall", "prime", "contradiction_commit", "queries"}
\* A server answers every call of a remote command.
ASSUME ServerAnswers ==
  \A cmd \in DOMAIN RemoteCommands :
    LET calls == RemoteCommands[cmd].calls
    IN  {calls[i] : i \in DOMAIN calls} \subseteq DOMAIN Server!GrpcHandlers \cup DOMAIN Server!RestRoutes
=============================================================================
