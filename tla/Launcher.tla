------------------------------- MODULE Launcher -------------------------------
(***************************************************************************)
(* server/run.sh: shells that start, stop, restart or query the service in *)
(* the background, and the processes they leave behind.  A start launches  *)
(* server/log_tee.py (the writer), whose pid goes to the pid file; the     *)
(* writer launches uvicorn (its child), forwards SIGTERM to it, rotates    *)
(* its log and ends when it has ended.  The shells share the pid file and  *)
(* nothing locks it.                                                       *)
(*                                                                         *)
(* A writer is named by its pid, and so is its child.  The kernel (pids,   *)
(* signals, ports) and uvicorn are external.                               *)
(***************************************************************************)
EXTENDS Naturals, FiniteSets

CONSTANTS Shells,   \* concurrent uses of run.sh
          MaxPids   \* bound on the writers ever launched

ASSUME LauncherAssumption == MaxPids \in Nat

Pids == 1..MaxPids
NoPid == 0

VARIABLES
  pc,       \* of each shell
  command,  \* what the shell was asked to do
  pid,      \* its local variable pid
  said,     \* what its command reported last
  pidFile,  \* content of $PID_FILE, NoPid when there is none
  writer,   \* of each pid, the log_tee.py process
  child,    \* of each pid, the uvicorn process under it
  upset     \* a shell overtook another, or a writer met what it cannot handle

shellVars == <<pc, command, pid, said>>
processVars == <<writer, child>>
vars == <<shellVars, pidFile, processVars, upset>>

Commands == {"start", "stop", "restart", "status"}
WriterStates == {"free", "booting", "spawned", "watching", "dead"}
ChildStates == {"none", "importing", "serving", "draining", "down"}
Labels == {"idle", "ensure", "unlink", "check", "record", "settle",
           "stop", "drop", "kill", "wait", "status", "tidy"}
Words == {"none", "failed", "already running", "started", "not running",
          "aborted", "stopped", "did not stop", "running"}

\* kill -0: there is a process.  Every writer is reaped when it ends.
Running(p) == p # NoPid /\ writer[p] \in {"booting", "spawned", "watching"}
Up(p) == child[p] \in {"importing", "serving", "draining"}

Init ==
  /\ pc = [s \in Shells |-> "idle"]
  /\ command = [s \in Shells |-> "status"]
  /\ pid = [s \in Shells |-> NoPid]
  /\ said = [s \in Shells |-> "none"]
  /\ pidFile = NoPid
  /\ writer = [p \in Pids |-> "free"]
  /\ child = [p \in Pids |-> "none"]
  /\ upset = FALSE

-----------------------------------------------------------------------------
(* The shells.                                                             *)

Goto(s, label) == pc' = [pc EXCEPT ![s] = label] /\ UNCHANGED said

Report(s, word) ==
  /\ pc' = [pc EXCEPT ![s] = "idle"]
  /\ said' = [said EXCEPT ![s] = word]

\* Writers that may still be launched, one for each shell on its way to it.
Starting == {s \in Shells : pc[s] # "idle" /\ command[s] \in {"start", "restart"}}
Free == {p \in Pids : writer[p] = "free"}

\* main "$@"
Begin(s, c) ==
  /\ pc[s] = "idle"
  /\ c \in {"start", "restart"} => Cardinality(Starting) < Cardinality(Free)
  /\ pc' = [pc EXCEPT ![s] = [start |-> "ensure", stop |-> "stop",
                              restart |-> "stop", status |-> "status"][c]]
  /\ command' = [command EXCEPT ![s] = c]
  /\ said' = [said EXCEPT ![s] = "none"]
  /\ upset' = (upset \/ \E x \in Shells : pc[x] # "idle")
  /\ UNCHANGED <<pid, pidFile, processVars>>

\* ensure_dependencies returns 1, and set -e ends the script ...
EnsureFails(s) ==
  /\ pc[s] = "ensure"
  /\ Report(s, "failed")
  /\ UNCHANGED <<command, pid, pidFile, processVars, upset>>

\* ... or it does not; clear_stale_pid looks at the file.
ReadStale(s) ==
  /\ pc[s] = "ensure"
  /\ Goto(s, IF pidFile # NoPid /\ ~Running(pidFile) THEN "unlink" ELSE "check")
  /\ UNCHANGED <<command, pid, pidFile, processVars, upset>>

\* clear_stale_pid: rm -f, whatever the file says by now.
Unlink(s) ==
  /\ pc[s] = "unlink"
  /\ pidFile' = NoPid
  /\ Goto(s, "check")
  /\ UNCHANGED <<command, pid, processVars, upset>>

Refuse(s) ==
  /\ pc[s] = "check"
  /\ Running(pidFile)
  /\ Report(s, "already running")
  /\ UNCHANGED <<command, pid, pidFile, processVars, upset>>

\* nohup log_tee.py ... &
Launch(s) ==
  /\ pc[s] = "check"
  /\ ~Running(pidFile)
  /\ \E p \in Free :
       /\ \A q \in Free : p <= q
       /\ writer' = [writer EXCEPT ![p] = "booting"]
       /\ pid' = [pid EXCEPT ![s] = p]
  /\ Goto(s, "record")
  /\ UNCHANGED <<command, pidFile, child, upset>>

Record(s) ==
  /\ pc[s] = "record"
  /\ pidFile' = pid[s]
  /\ Goto(s, "settle")
  /\ UNCHANGED <<command, pid, processVars, upset>>

\* Mutation of Settle: nobody looks whether the writer is still there.
SettleBlind(s) ==
  /\ pc[s] = "settle"
  /\ Report(s, "started")
  /\ upset' = (upset \/ writer[pid[s]] \in {"booting", "spawned"})
  /\ UNCHANGED <<command, pid, pidFile, processVars>>

\* sleep 1 is over.  It is meant to outlast the writer's own start.
Settle(s) ==
  /\ pc[s] = "settle"
  /\ IF Running(pid[s])
     THEN Report(s, "started") /\ UNCHANGED pidFile
     ELSE Report(s, "failed") /\ pidFile' = NoPid
  /\ upset' = (upset \/ writer[pid[s]] \in {"booting", "spawned"})
  /\ UNCHANGED <<command, pid, processVars>>

\* stop_server is over with status 0: restart goes on to start_server.
AfterStop(s, word) ==
  IF command[s] = "restart" THEN Goto(s, "ensure") ELSE Report(s, word)

\* stop_server: read_pid and process_running.
ReadPid(s) ==
  /\ pc[s] = "stop"
  /\ pid' = [pid EXCEPT ![s] = pidFile]
  /\ IF pidFile = NoPid THEN AfterStop(s, "not running")
     ELSE Goto(s, IF Running(pidFile) THEN "kill" ELSE "drop")
  /\ UNCHANGED <<command, pidFile, processVars, upset>>

\* "Removed stale server PID file"
DropStale(s) ==
  /\ pc[s] = "drop"
  /\ pidFile' = NoPid
  /\ AfterStop(s, "not running")
  /\ UNCHANGED <<command, pid, processVars, upset>>

\* Mutation of Signal: the writer does not forward the signal.
SignalUnforwarded(p) ==
  /\ writer' = [writer EXCEPT ![p] = "dead"]
  /\ UNCHANGED <<child, upset>>

\* SIGTERM to a writer: it forwards it once its handler is installed, and dies
\* of it before.  uvicorn drains, or dies of it while it still imports.
Signal(p) ==
  IF writer[p] = "watching"
  THEN /\ child' = [child EXCEPT ![p] = IF @ = "importing" THEN "down"
                                        ELSE IF @ = "serving" THEN "draining" ELSE @]
       /\ UNCHANGED <<writer, upset>>
  ELSE /\ writer' = [writer EXCEPT ![p] = "dead"]
       /\ upset' = TRUE
       /\ UNCHANGED child

\* kill "$pid"; it fails when the process has just ended, and set -e ends the
\* script with the pid file in place.
Kill(s) ==
  /\ pc[s] = "kill"
  /\ IF Running(pid[s]) THEN Signal(pid[s]) /\ Goto(s, "wait")
     ELSE Report(s, "aborted") /\ UNCHANGED <<processVars, upset>>
  /\ UNCHANGED <<command, pid, pidFile>>

\* The loop saw the writer end.
Stopped(s) ==
  /\ pc[s] = "wait"
  /\ ~Running(pid[s])
  /\ pidFile' = NoPid
  /\ AfterStop(s, "stopped")
  /\ UNCHANGED <<command, pid, processVars, upset>>

\* Mutation of Stuck: the file goes although the process stays.
StuckUntracked(s) ==
  /\ pc[s] = "wait"
  /\ Running(pid[s])
  /\ Report(s, "did not stop")
  /\ pidFile' = NoPid
  /\ UNCHANGED <<command, pid, processVars, upset>>

\* Thirty rounds of 0.2 s were not enough: status 1, and no restart.
Stuck(s) ==
  /\ pc[s] = "wait"
  /\ Running(pid[s])
  /\ Report(s, "did not stop")
  /\ UNCHANGED <<command, pid, pidFile, processVars, upset>>

\* status_server: a running process, no file, or a stale file, ...
Status(s) ==
  /\ pc[s] = "status"
  /\ IF Running(pidFile) THEN Report(s, "running")
     ELSE IF pidFile = NoPid THEN Report(s, "not running") ELSE Goto(s, "tidy")
  /\ UNCHANGED <<command, pid, pidFile, processVars, upset>>

\* ... which it removes.
Tidy(s) ==
  /\ pc[s] = "tidy"
  /\ pidFile' = NoPid
  /\ Report(s, "not running")
  /\ UNCHANGED <<command, pid, processVars, upset>>

ShellStep(s) ==
  \/ EnsureFails(s) \/ ReadStale(s) \/ Unlink(s) \/ Refuse(s) \/ Launch(s)
  \/ Record(s) \/ Settle(s) \/ ReadPid(s) \/ DropStale(s) \/ Kill(s)
  \/ Stopped(s) \/ Stuck(s) \/ Status(s) \/ Tidy(s)

-----------------------------------------------------------------------------
(* The processes.                                                          *)

\* log_tee.py opens the log and launches the child ...
Popen(p) ==
  /\ writer[p] = "booting"
  /\ writer' = [writer EXCEPT ![p] = "spawned"]
  /\ child' = [child EXCEPT ![p] = "importing"]
  /\ UNCHANGED <<shellVars, pidFile, upset>>

\* ... or cannot open it.
OpenFails(p) ==
  /\ writer[p] = "booting"
  /\ writer' = [writer EXCEPT ![p] = "dead"]
  /\ UNCHANGED <<shellVars, pidFile, child, upset>>

\* signal.signal
Handle(p) ==
  /\ writer[p] = "spawned"
  /\ writer' = [writer EXCEPT ![p] = "watching"]
  /\ UNCHANGED <<shellVars, pidFile, child, upset>>

\* Mutation of Reap: nobody waits for the writer that ended.
ReapZombie(p) ==
  /\ writer[p] = "watching"
  /\ child[p] = "down"
  /\ writer' = [writer EXCEPT ![p] = "zombie"]
  /\ UNCHANGED <<shellVars, pidFile, child, upset>>

\* child.poll() is not None: leave the loop and return its status.
Reap(p) ==
  /\ writer[p] = "watching"
  /\ child[p] = "down"
  /\ writer' = [writer EXCEPT ![p] = "dead"]
  /\ UNCHANGED <<shellVars, pidFile, child, upset>>

\* _shift_backups raises (no space left): the exception leaves main(), and the
\* child stays behind.
RotationFails(p) ==
  /\ writer[p] = "watching"
  /\ child[p] # "down"
  /\ writer' = [writer EXCEPT ![p] = "dead"]
  /\ upset' = TRUE
  /\ UNCHANGED <<shellVars, pidFile, child>>

\* uvicorn binds the port unless another one has it.
Bind(p) ==
  /\ child[p] = "importing"
  /\ child' = [child EXCEPT ![p] =
       IF \E q \in Pids : child[q] = "serving" THEN "down" ELSE "serving"]
  /\ UNCHANGED <<shellVars, pidFile, writer, upset>>

\* It fails to import the application, or crashes.
Crash(p) ==
  /\ child[p] \in {"importing", "serving"}
  /\ child' = [child EXCEPT ![p] = "down"]
  /\ UNCHANGED <<shellVars, pidFile, writer, upset>>

\* The last request in flight has ended.
Drained(p) ==
  /\ child[p] = "draining"
  /\ child' = [child EXCEPT ![p] = "down"]
  /\ UNCHANGED <<shellVars, pidFile, writer, upset>>

Progress(p) == Popen(p) \/ Handle(p) \/ Reap(p) \/ Bind(p) \/ Drained(p)

Next ==
  \/ \E s \in Shells : ShellStep(s) \/ (\E c \in Commands : Begin(s, c))
  \/ \E p \in Pids : Progress(p) \/ OpenFails(p) \/ RotationFails(p) \/ Crash(p)

\* Shells and processes run; a request in flight ends.  Nobody has to type a
\* command, and nothing has to fail.
Spec == Init /\ [][Next]_vars
FairSpec ==
  /\ Spec
  /\ \A s \in Shells : WF_vars(ShellStep(s))
  /\ \A p \in Pids : WF_vars(Progress(p))

-----------------------------------------------------------------------------
(* Properties.  upset marks the runs that left the conditions run.sh relies *)
(* on: one shell at a time, a writer that is up within the second start     *)
(* sleeps, a log that can be copied.                                        *)

\* Type invariant.
TypeOK ==
  /\ pc \in [Shells -> Labels]
  /\ command \in [Shells -> Commands]
  /\ pid \in [Shells -> {NoPid} \cup Pids]
  /\ said \in [Shells -> Words]
  /\ pidFile \in {NoPid} \cup Pids
  /\ writer \in [Pids -> WriterStates]
  /\ child \in [Pids -> ChildStates]
  /\ upset \in BOOLEAN

Quiet == \A s \in Shells : pc[s] = "idle"

\* Between commands whatever still runs is named by the pid file, so that there
\* is one service at most and stop can reach it, after any sequence of starts,
\* stops that gave up, crashes and failed starts (run.sh:134-191).
ServerIsTracked ==
  ~upset /\ Quiet => \A p \in Pids : Running(p) \/ Up(p) => pidFile = p

\* A command that reports that nothing runs is right, and one that reports a
\* running service has its writer in the pid file (run.sh:158-164, 168-207).
ReportsTruth ==
  [][\A s \in Shells :
       ~upset' /\ pc[s] # "idle" /\ pc'[s] = "idle" =>
         /\ said'[s] \in {"stopped", "not running"} =>
              \A p \in Pids : ~Running(p)' /\ ~Up(p)'
         /\ said'[s] \in {"started", "running", "already running"} =>
              Running(pidFile)']_vars

\* A stop takes effect even if it gave up waiting for it: uvicorn drains for as
\* long as its requests take, which may be longer than six seconds.
StopTakesEffect ==
  \A s \in Shells, p \in Pids :
    pc[s] = "wait" /\ pid[s] = p ~> upset \/ (~Running(p) /\ ~Up(p))

\* "SIGTERM/SIGINT are forwarded to the child, so stopping this wrapper's PID
\* (the one run.sh tracks) also stops the server" (server/log_tee.py:14-15):
\* when stop has seen the wrapper end, its child has ended too.
StopStopsServer ==
  \A s \in Shells : said[s] = "stopped" => ~Up(pid[s])

=============================================================================
