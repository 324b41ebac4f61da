--------------------------------- MODULE Daemon ---------------------------------
(*****************************************************************************)
(* The commands start, stop and restart and the daemon processes they make   *)
(* and end: cmd/anthropic-proxy/main.go and internal/daemon (Unix).  The     *)
(* commands run in several terminals and share one PID file with the         *)
(* daemons; nothing locks it, a daemon never removes it, and no command      *)
(* waits for a daemon.  Writing and removing the file may fail, and both are *)
(* passed over.  `status` only reads and is left out.                        *)
(*****************************************************************************)
EXTENDS Naturals, FiniteSets

CONSTANTS Pids, Terminals, NoPid

ASSUME DaemonAssumption == NoPid \notin Pids

VARIABLES
  life,       \* how far each process has got
  signalled,  \* daemons that were sent SIGTERM
  pidFile,    \* what ReadPID finds; NoPid for no file and for an empty one
  pc,         \* where the command of each terminal is
  restart,    \* whether it is a restart
  found,      \* the PID it has read
  mishaps     \* history: what happened that the commands do not provide for

vars == <<life, signalled, pidFile, pc, restart, found, mishaps>>

\* "written" is a daemon past WritePIDFile, whatever became of the file.
Running == {"born", "truncated", "written", "opened", "serving"}
Ended   == {"dead", "crashed", "refused"}

Daemons == {p \in Pids : life[p] \in Running}

\* The daemons that are to stay.
Kept == Daemons \ signalled

Note(mishap, happened) == IF happened THEN {mishap} ELSE {}

Init ==
  /\ life = [p \in Pids |-> "free"]
  /\ signalled = {}
  /\ pidFile = NoPid
  /\ pc = [t \in Terminals |-> "idle"]
  /\ restart = [t \in Terminals |-> FALSE]
  /\ found = [t \in Terminals |-> NoPid]
  /\ mishaps = {}

(*****************************************************************************)
(* Commands.                                                                 *)
(*****************************************************************************)
Goto(t, label) == pc' = [pc EXCEPT ![t] = label]

\* A restart goes on to start whatever became of its stop.
StopEnds(t) ==
  /\ Goto(t, IF restart[t] THEN "fork" ELSE "idle")
  /\ found' = [found EXCEPT ![t] = NoPid]

Begin(t) ==
  /\ pc[t] = "idle"
  /\ \E first \in {"fork", "read"}, again \in BOOLEAN :
       /\ again => first = "read"
       /\ Goto(t, first)
       /\ restart' = [restart EXCEPT ![t] = again]
  /\ mishaps' = mishaps \cup Note("race", \E u \in Terminals : pc[u] # "idle")
  /\ UNCHANGED <<life, signalled, pidFile, found>>

ReadPID(t) ==
  /\ pc[t] = "read"
  /\ IF pidFile = NoPid THEN StopEnds(t)
     ELSE Goto(t, "signal") /\ found' = [found EXCEPT ![t] = pidFile]
  /\ UNCHANGED <<life, signalled, pidFile, restart, mishaps>>

\* Seeded fault: a failed stop removes the file too.
KillProcessRemoving(t) ==
  /\ pc[t] = "signal"
  /\ IF found[t] \in Daemons
     THEN signalled' = signalled \cup {found[t]}
     ELSE UNCHANGED signalled
  /\ Goto(t, "remove")
  /\ UNCHANGED <<life, pidFile, restart, found, mishaps>>

\* Seeded fault: stop only probes the process, as status does.
KillProcessProbing(t) ==
  /\ pc[t] = "signal"
  /\ IF found[t] \in Daemons THEN Goto(t, "remove") /\ UNCHANGED found ELSE StopEnds(t)
  /\ UNCHANGED <<life, signalled, pidFile, restart, mishaps>>

\* killProcess: without a process of that PID, stop fails and the file stays.
\* A process that is not a daemon ends as well.
KillProcess(t) ==
  /\ pc[t] = "signal"
  /\ IF found[t] \in Daemons \/ life[found[t]] = "foreign"
     THEN /\ signalled' = signalled \cup ({found[t]} \cap Daemons)
          /\ life' = [life EXCEPT ![found[t]] = IF @ = "foreign" THEN "dead" ELSE @]
          /\ Goto(t, "remove") /\ UNCHANGED found
     ELSE StopEnds(t) /\ UNCHANGED <<life, signalled>>
  /\ UNCHANGED <<pidFile, restart, mishaps>>

\* Stop does not look whether os.Remove failed.
RemovePIDFile(t) ==
  /\ pc[t] = "remove"
  /\ \/ pidFile' = NoPid /\ UNCHANGED mishaps
     \/ UNCHANGED pidFile /\ mishaps' = mishaps \cup {"unremoved"}
  /\ StopEnds(t)
  /\ UNCHANGED <<life, signalled, restart>>

\* Daemonize: the child starts; nobody looks whether a daemon runs already.
Daemonize(t) ==
  /\ pc[t] = "fork"
  /\ \E p \in Pids :
       /\ life[p] = "free"
       /\ life' = [life EXCEPT ![p] = "born"]
  /\ mishaps' = mishaps \cup Note("second", Kept # {})
                        \cup Note("hasty", Daemons \cap signalled # {})
  /\ Goto(t, "idle")
  /\ restart' = [restart EXCEPT ![t] = FALSE]
  /\ UNCHANGED <<signalled, pidFile, found>>

\* The configuration cannot be loaded, or no child be started.
FailStart(t) ==
  /\ pc[t] = "fork"
  /\ Goto(t, "idle")
  /\ restart' = [restart EXCEPT ![t] = FALSE]
  /\ UNCHANGED <<life, signalled, pidFile, found, mishaps>>

(*****************************************************************************)
(* A daemon: runServer.                                                      *)
(*****************************************************************************)
Reach(p, from, to) ==
  /\ life[p] = from
  /\ life' = [life EXCEPT ![p] = to]

\* WritePIDFile: os.WriteFile truncates, then writes.
TruncatePIDFile(p) ==
  /\ Reach(p, "born", "truncated")
  /\ pidFile' = NoPid
  /\ UNCHANGED <<signalled, pc, restart, found, mishaps>>

WritePIDFile(p) ==
  /\ Reach(p, "truncated", "written")
  /\ pidFile' = p
  /\ UNCHANGED <<signalled, pc, restart, found, mishaps>>

\* os.WriteFile cannot open the file, which stays as it is, or cannot write,
\* and it stays empty; the daemon logs that and goes on.
FailToWritePIDFile(p) ==
  /\ Reach(p, "born", "written") \/ Reach(p, "truncated", "written")
  /\ mishaps' = mishaps \cup {"unwritten"}
  /\ UNCHANGED <<signalled, pidFile, pc, restart, found>>

\* Seeded fault: a daemon that crashed has left the store locked.
OpenStoreLocked(p) ==
  /\ \A q \in Pids : life[q] # "crashed"
  /\ Reach(p, "written", "opened")
  /\ UNCHANGED <<signalled, pidFile, pc, restart, found, mishaps>>

OpenStore(p) ==
  /\ Reach(p, "written", "opened")
  /\ UNCHANGED <<signalled, pidFile, pc, restart, found, mishaps>>

\* The port is free or the process ends, leaving its PID in the file.
Listen(p) ==
  /\ Reach(p, "opened",
       IF \E q \in Pids : life[q] = "serving" THEN "refused" ELSE "serving")
  /\ UNCHANGED <<signalled, pidFile, pc, restart, found, mishaps>>

\* SIGTERM ends the process some time after it was sent; no handler runs.
Terminate(p) ==
  /\ p \in Daemons \cap signalled
  /\ life' = [life EXCEPT ![p] = "dead"]
  /\ UNCHANGED <<signalled, pidFile, pc, restart, found, mishaps>>

\* Any other end: the store cannot be opened, a panic, SIGKILL.
Crash(p) ==
  /\ p \in Daemons
  /\ life' = [life EXCEPT ![p] = "crashed"]
  /\ UNCHANGED <<signalled, pidFile, pc, restart, found, mishaps>>

\* The PID of a daemon that ended goes to another program's process.
Reuse(p) ==
  /\ life[p] \in Ended
  /\ life' = [life EXCEPT ![p] = "foreign"]
  /\ mishaps' = mishaps \cup {"reuse"}
  /\ UNCHANGED <<signalled, pidFile, pc, restart, found>>

CommandStep(t) ==
  \/ ReadPID(t) \/ KillProcess(t) \/ RemovePIDFile(t)
  \/ Daemonize(t) \/ FailStart(t)

DaemonStep(p) ==
  \/ TruncatePIDFile(p) \/ WritePIDFile(p) \/ FailToWritePIDFile(p)
  \/ OpenStore(p) \/ Listen(p) \/ Terminate(p)

Next ==
  \/ \E t \in Terminals : Begin(t) \/ CommandStep(t)
  \/ \E p \in Pids : DaemonStep(p) \/ Crash(p) \/ Reuse(p)

Spec == Init /\ [][Next]_vars

\* A process that can go on does; nobody has to type a command.
FairSpec ==
  /\ Spec
  /\ \A t \in Terminals : WF_vars(CommandStep(t))
  /\ \A p \in Pids : WF_vars(DaemonStep(p))

-------------------------------------------------------------------------------
TypeOK ==
  /\ life \in [Pids -> Running \cup Ended \cup {"free", "foreign"}]
  /\ signalled \subseteq Pids
  /\ pidFile \in Pids \cup {NoPid}
  /\ pc \in [Terminals -> {"idle", "read", "signal", "remove", "fork"}]
  /\ restart \in [Terminals -> BOOLEAN]
  /\ found \in [Terminals -> Pids \cup {NoPid}]
  /\ mishaps \subseteq {"race", "second", "hasty", "reuse", "unwritten", "unremoved"}

\* No start came while a daemon ran, no two commands ran at a time, no PID was
\* used again, and the PID file could be written and removed.
Calm == mishaps \subseteq {"hasty"}

\* Who has its PID in the file, in the hands of a stop, or got a signal, is
\* past WritePIDFile, also where some writes failed.
WroteIt ==
  \A p \in Pids :
    p = pidFile \/ p \in signalled \/ (\E t \in Terminals : p = found[t])
    => life[p] \notin {"free", "born", "truncated"}

HoldsPid == \A t \in Terminals : pc[t] = "signal" => found[t] \in Pids

\* At most one daemon is to stay, and the file names it once it has written it.
OneKept == \A p, q \in Kept : p = q
NamedOnceWritten ==
  \A p \in Kept : life[p] \in {"written", "opened", "serving"} => pidFile = p

OneCommand == \A t, u \in Terminals : pc[t] # "idle" /\ pc[u] # "idle" => t = u
NoStranger == \A p \in Pids : life[p] # "foreign"

\* A stop that will remove the file has left no daemon to stay, only then does
\* the file name a daemon that is on its way out, and what a stop has read is
\* the daemon that is to stay or one that ended.
RemovesNone == \A t \in Terminals : pc[t] = "remove" => Kept = {}
NamedIsKept ==
  pidFile \in Daemons \cap signalled => \E t \in Terminals : pc[t] = "remove"
FoundIsKept ==
  \A t \in Terminals : pc[t] = "signal" => found[t] \in Kept \/ life[found[t]] \in Ended

\* Unless a mishap happens, the daemon that is to stay is the only one and the
\* PID file names it, whatever crashed, stale files, failed stops and starts
\* before the last daemon is gone do in between (main.go:132-134, stop.go).
Inv ==
  /\ TypeOK /\ WroteIt /\ HoldsPid
  /\ Calm => /\ OneKept /\ NamedOnceWritten /\ OneCommand /\ NoStranger
             /\ RemovesNone /\ NamedIsKept /\ FoundIsKept

\* A stop or restart that begins while a daemon serves ends that daemon, unless
\* a mishap happens: no history of crashes, stale PID files and failed stops
\* leaves a daemon that stop passes by (stop.go:43-59, daemon.go:51-63).
StopReaches ==
  \A t \in Terminals, p \in Pids :
    pc[t] = "read" /\ life[p] = "serving" ~> life[p] # "serving" \/ ~Calm

\* A daemon that is started when no other is left serves, unless it is stopped,
\* crashes or another is started in the meantime: what earlier daemons left, a
\* stale PID file or a crash, does not hold it up, and only `hasty` and `second`
\* starts meet a port in use (main.go:118-149, 241-243).
StartServes ==
  \A p \in Pids :
    life[p] = "born" ~> \/ life[p] \in {"serving", "crashed"}
                        \/ p \in signalled
                        \/ mishaps \cap {"hasty", "second"} # {}

===============================================================================
