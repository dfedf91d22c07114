---------------------------- MODULE Launcher_proofs ----------------------------
(***************************************************************************)
(* Proofs about Launcher, for every set of shells and number of launches.  *)
(***************************************************************************)
EXTENDS Launcher, TLAPS

-----------------------------------------------------------------------------
(* The inductive invariant, in parts: it speaks of the runs that are not   *)
(* upset.                                                                  *)

\* One shell at a time.
Alone == \A s, t \in Shells : pc[s] # "idle" /\ pc[t] # "idle" => s = t

\* A child lives under its writer, and only after the writer launched it.
ChildHasWriter ==
  \A p \in Pids : /\ Up(p) => Running(p)
                  /\ writer[p] \in {"free", "booting"} => child[p] = "none"

\* A running writer is the one of the pid file, or the one that a shell has just
\* launched and is about to record.
Tracked ==
  \A p \in Pids : Running(p) =>
    /\ \A s \in Shells : pc[s] = "record" => p = pid[s]
    /\ (\A s \in Shells : pc[s] # "record") => p = pidFile

\* What a shell has read from the pid file, or found out about it, is still so.
ShellKnows ==
  \A s \in Shells :
    /\ pc[s] \in {"settle", "kill", "wait"} => pid[s] = pidFile
    /\ pc[s] \in {"record", "settle"} => pid[s] \in Pids
    /\ pc[s] \in {"unlink", "drop", "tidy"} => ~Running(pidFile)

Calm == Alone /\ ChildHasWriter /\ Tracked /\ ShellKnows

IInv == TypeOK /\ (~upset => Calm)

-----------------------------------------------------------------------------
(* The types.                                                              *)

LEMMA InitIInv == Init => IInv
<1> SUFFICES ASSUME Init PROVE IInv
  OBVIOUS
<1>1. TypeOK
  <2>1. upset \in BOOLEAN
    BY Zenon DEF Init
  <2>2. /\ command \in [Shells -> Commands] /\ writer \in [Pids -> WriterStates]
        /\ child \in [Pids -> ChildStates]
    BY DEF Init, Commands, WriterStates, ChildStates
  <2>4. pc \in [Shells -> Labels] /\ said \in [Shells -> Words]
    BY DEF Init, Labels, Words
  <2>3. pid \in [Shells -> {NoPid} \cup Pids] /\ pidFile \in {NoPid} \cup Pids
    BY DEF Init
  <2> QED BY <2>1, <2>2, <2>3, <2>4 DEF TypeOK
<1>2. Calm
  BY DEF Init, Calm, Alone, ChildHasWriter, Tracked, ShellKnows, Running, Up
<1> QED BY <1>1, <1>2 DEF IInv

LEMMA TypeStep == TypeOK /\ [Next]_vars => TypeOK'
<1> SUFFICES ASSUME TypeOK, [Next]_vars PROVE TypeOK'
  OBVIOUS
<1>0. /\ pc \in [Shells -> Labels] /\ said \in [Shells -> Words]
      /\ command \in [Shells -> Commands]
      /\ pid \in [Shells -> {NoPid} \cup Pids] /\ pidFile \in {NoPid} \cup Pids
      /\ writer \in [Pids -> WriterStates] /\ child \in [Pids -> ChildStates]
      /\ upset \in BOOLEAN
  BY DEF TypeOK
<1>1. CASE UNCHANGED vars
  BY <1>1 DEF TypeOK, vars, shellVars, processVars
<1>2. ASSUME NEW s \in Shells, ShellStep(s) PROVE TypeOK'
  <2>1. pc' \in [Shells -> Labels] /\ said' \in [Shells -> Words]
    <3>1. \/ \E label \in Labels : Goto(s, label)
          \/ \E word \in Words : Report(s, word)
      BY <1>2 DEF ShellStep, EnsureFails, ReadStale, Unlink, Refuse, Launch,
         Record, Settle, ReadPid, DropStale, Kill, Stopped, Stuck, Status, Tidy,
         AfterStop, Labels, Words
    <3> QED BY <1>0, <3>1 DEF Goto, Report, Labels
  <2>2. command' \in [Shells -> Commands] /\ pid' \in [Shells -> {NoPid} \cup Pids]
        /\ pidFile' \in {NoPid} \cup Pids
    <3>1. CASE Launch(s)
      <4>1. /\ UNCHANGED <<command, pidFile>>
            /\ \E p \in Pids : pid' = [pid EXCEPT ![s] = p]
        BY <3>1, Zenon DEF Launch, Free
      <4> QED BY <1>0, <4>1
    <3>2. CASE ReadPid(s) \/ Record(s)
      BY <1>0, <1>2, <3>2 DEF ReadPid, Record
    <3>3. CASE ~Launch(s) /\ ~ReadPid(s) /\ ~Record(s)
      <4>1. UNCHANGED <<command, pid>> /\ pidFile' \in {pidFile, NoPid}
        BY <1>2, <3>3 DEF ShellStep, EnsureFails, ReadStale, Unlink, Refuse,
           Settle, DropStale, Kill, Stopped, Stuck, Status, Tidy
      <4> QED BY <1>0, <4>1
    <3> QED BY <3>1, <3>2, <3>3
  <2>3. writer' \in [Pids -> WriterStates] /\ child' \in [Pids -> ChildStates]
    <3>1. CASE Launch(s)
      BY <1>0, <1>2, <3>1 DEF Launch, Free, WriterStates
    <3>2. CASE Kill(s) /\ Running(pid[s])
      BY <1>0, <1>2, <3>2 DEF Kill, Signal, Running, WriterStates, ChildStates
    <3>3. CASE ~Launch(s) /\ ~(Kill(s) /\ Running(pid[s]))
      BY <1>0, <1>2, <3>3 DEF ShellStep, EnsureFails, ReadStale, Unlink, Refuse,
         Record, Settle, ReadPid, DropStale, Kill, Stopped, Stuck, Status, Tidy,
         processVars
    <3> QED BY <3>1, <3>2, <3>3
  <2>4. upset' \in BOOLEAN
    <3>1. CASE Settle(s)
      BY <3>1, Zenon DEF Settle
    <3>2. CASE Kill(s)
      BY <1>0, <3>2, Zenon DEF Kill, Signal
    <3>3. CASE ~Settle(s) /\ ~Kill(s)
      <4>1. upset' = upset
        BY <1>2, <3>3 DEF ShellStep, EnsureFails, ReadStale, Unlink, Refuse, Launch,
           Record, ReadPid, DropStale, Stopped, Stuck, Status, Tidy
      <4> QED BY <1>0, <4>1
    <3> QED BY <3>1, <3>2, <3>3
  <2> QED BY <2>1, <2>2, <2>3, <2>4 DEF TypeOK
<1>3. ASSUME NEW s \in Shells, NEW c \in Commands, Begin(s, c) PROVE TypeOK'
  <2>1. pc' \in [Shells -> Labels] /\ said' \in [Shells -> Words]
    <3>1. [start |-> "ensure", stop |-> "stop",
           restart |-> "stop", status |-> "status"][c] \in Labels
      BY <1>3 DEF Commands, Labels
    <3> QED BY <1>0, <1>3, <3>1 DEF Begin, Words
  <2>2. upset' \in BOOLEAN
    BY <1>3, Zenon DEF Begin
  <2>3. command' \in [Shells -> Commands]
    BY <1>0, <1>3 DEF Begin
  <2>4. UNCHANGED <<pid, pidFile, writer, child>>
    BY <1>3 DEF Begin, processVars
  <2> QED BY <2>1, <2>2, <2>3, <2>4 DEF TypeOK
<1>4. ASSUME NEW p \in Pids, Progress(p) \/ OpenFails(p) \/ RotationFails(p) \/ Crash(p)
      PROVE  TypeOK'
  <2>1. writer' \in [Pids -> WriterStates] /\ child' \in [Pids -> ChildStates]
    BY <1>0, <1>4 DEF Progress, Popen, Handle, Reap, Bind, Drained, OpenFails,
       RotationFails, Crash, WriterStates, ChildStates
  <2>2. upset' \in BOOLEAN
    BY <1>0, <1>4 DEF Progress, Popen, Handle, Reap, Bind, Drained, OpenFails,
       RotationFails, Crash
  <2>3. UNCHANGED <<pc, command, pid, said, pidFile>>
    BY <1>4 DEF Progress, Popen, Handle, Reap, Bind, Drained, OpenFails,
       RotationFails, Crash, shellVars
  <2> QED BY <1>0, <2>1, <2>2, <2>3 DEF TypeOK
<1> QED BY <1>1, <1>2, <1>3, <1>4 DEF Next

-----------------------------------------------------------------------------
(* The steps of the shells.                                                *)

\* What a shell reports is so.
Truth(s) ==
  /\ said[s] \in {"stopped", "not running"} => \A p \in Pids : ~Running(p) /\ ~Up(p)
  /\ said[s] \in {"started", "running", "already running"} => Running(pidFile)

\* A shell moves itself and, in a calm run, all others are idle.
LEMMA OthersIdle ==
  ASSUME TypeOK, Alone, NEW s \in Shells, ShellStep(s)
  PROVE  /\ pc[s] # "idle"
         /\ \A t \in Shells : t # s => pc[t] = "idle" /\ pc'[t] = "idle"
<1>1. pc[s] # "idle"
  BY DEF ShellStep, EnsureFails, ReadStale, Unlink, Refuse, Launch, Record,
     Settle, ReadPid, DropStale, Kill, Stopped, Stuck, Status, Tidy
<1>2. (\E label : Goto(s, label)) \/ (\E word : Report(s, word))
  BY DEF ShellStep, EnsureFails, ReadStale, Unlink, Refuse, Launch, Record,
     Settle, ReadPid, DropStale, Kill, Stopped, Stuck, Status, Tidy, AfterStop
<1>3. \A t \in Shells : t # s => pc'[t] = pc[t]
  BY <1>2 DEF Goto, Report, TypeOK
<1> QED BY <1>1, <1>3 DEF Alone

\* What runs, seen by the only active shell.
LEMMA OnlyOneRuns ==
  ASSUME Calm, NEW s \in Shells, pc[s] # "idle"
  PROVE  \A p \in Pids : Running(p) => p = IF pc[s] = "record" THEN pid[s] ELSE pidFile
<1>1. \A t \in Shells : t # s => pc[t] = "idle"
  BY DEF Calm, Alone
<1> QED BY <1>1 DEF Calm, Tracked

\* What one shell needs for the run to stay calm when the others are idle.
LEMMA CalmAgain ==
  ASSUME NEW s \in Shells, \A t \in Shells : t # s => pc'[t] = "idle",
         ChildHasWriter',
         \A p \in Pids : Running(p)' =>
           p = IF pc'[s] = "record" THEN pid'[s] ELSE pidFile',
         pc'[s] \in {"settle", "kill", "wait"} => pid'[s] = pidFile',
         pc'[s] \in {"record", "settle"} => pid'[s] \in Pids,
         pc'[s] \in {"unlink", "drop", "tidy"} => ~Running(pidFile)'
  PROVE  Calm'
<1>1. Alone'
  BY DEF Alone
<1>2. Tracked'
  BY DEF Tracked
<1>3. ShellKnows'
  <2>1. ASSUME NEW t \in Shells
        PROVE  /\ pc'[t] \in {"settle", "kill", "wait"} => pid'[t] = pidFile'
               /\ pc'[t] \in {"record", "settle"} => pid'[t] \in Pids
               /\ pc'[t] \in {"unlink", "drop", "tidy"} => ~Running(pidFile)'
    <3>1. CASE t = s
      BY <3>1
    <3>2. CASE t # s
      BY <3>2
    <3> QED BY <3>1, <3>2
  <2> QED BY <2>1 DEF ShellKnows
<1> QED BY <1>1, <1>2, <1>3 DEF Calm

\* The steps that leave the processes alone.
LEMMA QuietShellStep ==
  ASSUME TypeOK, Calm, NEW s \in Shells, ShellStep(s), UNCHANGED processVars
  PROVE  Calm' /\ (pc'[s] = "idle" => Truth(s)')
<1>1. /\ pc[s] # "idle"
      /\ \A t \in Shells : t # s => pc'[t] = "idle"
  BY OthersIdle DEF Calm
<1>2. \A p \in Pids : Running(p) => p = IF pc[s] = "record" THEN pid[s] ELSE pidFile
  BY <1>1, OnlyOneRuns
<1>3. /\ pc \in [Shells -> Labels] /\ said \in [Shells -> Words]
      /\ pid \in [Shells -> {NoPid} \cup Pids] /\ pidFile \in {NoPid} \cup Pids
  BY DEF TypeOK
<1>4. /\ \A p : Running(p)' <=> Running(p)
      /\ \A p : Up(p)' <=> Up(p)
      /\ ~Running(NoPid)
  BY DEF processVars, Running, Up
<1>5. ChildHasWriter' /\ \A p \in Pids : Up(p) => Running(p)
  BY DEF processVars, ChildHasWriter, Running, Up, Calm
<1>6. /\ pc[s] \in {"settle", "kill", "wait"} => pid[s] = pidFile
      /\ pc[s] \in {"record", "settle"} => pid[s] \in Pids
      /\ pc[s] \in {"unlink", "drop", "tidy"} => ~Running(pidFile)
  BY DEF Calm, ShellKnows
<1>7. Running(pidFile)' <=> Running(pidFile')
  BY <1>4 DEF Running
<1> DEFINE Next1 ==
      /\ \A p \in Pids : Running(p) =>
           p = IF pc'[s] = "record" THEN pid'[s] ELSE pidFile'
      /\ pc'[s] \in {"settle", "kill", "wait"} => pid'[s] = pidFile'
      /\ pc'[s] \in {"record", "settle"} => pid'[s] \in Pids
      /\ pc'[s] \in {"unlink", "drop", "tidy"} => ~Running(pidFile')
<1>8. ASSUME Next1 PROVE Calm'
  BY <1>1, <1>4, <1>5, <1>7, <1>8, CalmAgain
<1>9. ASSUME NEW label, Goto(s, label)
      PROVE  pc'[s] = label
  BY <1>3, <1>9 DEF Goto
<1>10. ASSUME NEW word, Report(s, word)
       PROVE  pc'[s] = "idle" /\ said'[s] = word
  BY <1>3, <1>10 DEF Report
<1> DEFINE Truth1 ==
      /\ said'[s] \in {"stopped", "not running"} => \A p \in Pids : ~Running(p) /\ ~Up(p)
      /\ said'[s] \in {"started", "running", "already running"} => Running(pidFile')
<1>11. ASSUME Truth1 PROVE Truth(s)'
  BY <1>4, <1>7, <1>11 DEF Truth
<1> SUFFICES Next1 /\ (pc'[s] = "idle" => Truth1)
  BY <1>8, <1>11
<1> HIDE DEF Next1, Truth1
<1>12. CASE EnsureFails(s) \/ Refuse(s) \/ Stuck(s)
  <2>1. /\ UNCHANGED pidFile /\ pc'[s] = "idle" /\ pc[s] # "record"
        /\ said'[s] \in {"failed", "already running", "did not stop"}
        /\ said'[s] = "already running" => Running(pidFile)
    BY <1>3, <1>12 DEF EnsureFails, Refuse, Stuck, Report
  <2> QED BY <1>2, <2>1 DEF Next1, Truth1
<1>13. CASE ReadStale(s)
  <2>1. /\ UNCHANGED pidFile /\ pc'[s] \in {"unlink", "check"} /\ pc[s] # "record"
        /\ pc'[s] = "unlink" => ~Running(pidFile)
    BY <1>9, <1>13 DEF ReadStale
  <2> QED BY <1>2, <2>1 DEF Next1, Truth1
<1>14. CASE Unlink(s)
  <2>1. pidFile' = NoPid /\ pc'[s] = "check" /\ pc[s] = "unlink"
    BY <1>9, <1>14 DEF Unlink
  <2> QED BY <1>2, <1>6, <2>1 DEF Next1, Truth1
<1>15. CASE Record(s)
  <2>1. /\ pidFile' = pid[s] /\ pc'[s] = "settle" /\ pc[s] = "record"
        /\ UNCHANGED pid
    BY <1>9, <1>15 DEF Record
  <2> QED BY <1>2, <1>6, <2>1 DEF Next1, Truth1
<1>16. CASE Settle(s)
  <2>1. /\ pc[s] = "settle" /\ pc'[s] = "idle"
        /\ IF Running(pid[s]) THEN said'[s] = "started" /\ pidFile' = pidFile
           ELSE said'[s] = "failed" /\ pidFile' = NoPid
    BY <1>10, <1>16 DEF Settle
  <2> QED BY <1>2, <1>6, <2>1 DEF Next1, Truth1
<1>17. ASSUME NEW word, AfterStop(s, word)
       PROVE  \/ pc'[s] = "ensure"
              \/ pc'[s] = "idle" /\ said'[s] = word
  BY <1>3, <1>17 DEF AfterStop, Goto, Report
<1>18. CASE ReadPid(s)
  <2>1. /\ pid'[s] = pidFile /\ pidFile' = pidFile /\ pc[s] = "stop"
        /\ IF pidFile = NoPid
           THEN pc'[s] = "ensure" \/ (pc'[s] = "idle" /\ said'[s] = "not running")
           ELSE pc'[s] = IF Running(pidFile) THEN "kill" ELSE "drop"
    <3>1. CASE pidFile = NoPid
      BY <1>3, <1>17, <1>18, <3>1 DEF ReadPid
    <3>2. CASE pidFile # NoPid
      BY <1>3, <1>18, <3>2 DEF ReadPid, Goto
    <3> QED BY <3>1, <3>2
  <2> QED BY <1>2, <1>3, <1>4, <1>5, <2>1 DEF Next1, Truth1
<1>19. CASE DropStale(s) \/ Stopped(s)
  <2>1. /\ pidFile' = NoPid /\ pc[s] \in {"drop", "wait"}
        /\ pc[s] = "wait" => ~Running(pid[s])
        /\ \/ pc'[s] = "ensure"
           \/ pc'[s] = "idle" /\ said'[s] \in {"not running", "stopped"}
    <3>1. CASE DropStale(s)
      BY <1>17, <3>1 DEF DropStale
    <3>2. CASE Stopped(s)
      BY <1>17, <3>2 DEF Stopped
    <3> QED BY <1>19, <3>1, <3>2
  <2> QED BY <1>2, <1>3, <1>4, <1>5, <1>6, <2>1 DEF Next1, Truth1
<1>20. CASE Kill(s)
  <2>1. /\ UNCHANGED <<pid, pidFile>> /\ pc[s] = "kill"
        /\ \/ pc'[s] = "wait"
           \/ pc'[s] = "idle" /\ said'[s] = "aborted"
    BY <1>3, <1>20 DEF Kill, Goto, Report
  <2> QED BY <1>2, <1>6, <2>1 DEF Next1, Truth1
<1>21. CASE Status(s)
  <2>1. /\ UNCHANGED pidFile /\ pc[s] = "status"
        /\ \/ Running(pidFile) /\ pc'[s] = "idle" /\ said'[s] = "running"
           \/ pidFile = NoPid /\ pc'[s] = "idle" /\ said'[s] = "not running"
           \/ ~Running(pidFile) /\ pc'[s] = "tidy"
    BY <1>9, <1>10, <1>21 DEF Status
  <2> QED BY <1>2, <1>3, <1>4, <1>5, <2>1 DEF Next1, Truth1
<1>22. CASE Tidy(s)
  <2>1. /\ pidFile' = NoPid /\ pc[s] = "tidy"
        /\ pc'[s] = "idle" /\ said'[s] = "not running"
    BY <1>10, <1>22 DEF Tidy
  <2> QED BY <1>2, <1>3, <1>4, <1>5, <1>6, <2>1 DEF Next1, Truth1
<1>23. ~Launch(s)
  <2> SUFFICES ASSUME Launch(s) PROVE FALSE
    OBVIOUS
  <2>1. PICK p \in Free : writer' = [writer EXCEPT ![p] = "booting"]
    BY DEF Launch
  <2> QED BY <2>1 DEF Free, processVars, TypeOK
<1> QED BY <1>12, <1>13, <1>14, <1>15, <1>16, <1>18, <1>19, <1>20, <1>21, <1>22,
           <1>23 DEF ShellStep

\* A launch gives the shell a writer to record, and there was none.
LEMMA LaunchStep ==
  ASSUME TypeOK, Calm, NEW s \in Shells, Launch(s)
  PROVE  Calm' /\ pc'[s] # "idle"
<1>1. /\ pc[s] = "check"
      /\ \A t \in Shells : t # s => pc'[t] = "idle"
  BY OthersIdle DEF Calm, ShellStep, Launch
<1>2. PICK p \in Pids : /\ writer[p] = "free"
                        /\ writer' = [writer EXCEPT ![p] = "booting"]
                        /\ pid' = [pid EXCEPT ![s] = p]
  BY Zenon DEF Launch, Free
<1>3. UNCHANGED <<child, pidFile>> /\ pc'[s] = "record"
  BY DEF Launch, Goto, TypeOK
<1>4. ~Running(pidFile) /\ pid'[s] = p
  BY <1>2 DEF Launch, TypeOK
<1>5. \A q \in Pids : ~Running(q)
  BY <1>1, <1>4, OnlyOneRuns
<1>6. \A q \in Pids : Running(q)' => q = p
  BY <1>2, <1>5 DEF Running, TypeOK
<1>7. ChildHasWriter'
  <2>1. ASSUME NEW q \in Pids
        PROVE  /\ Up(q)' => Running(q)'
               /\ writer'[q] \in {"free", "booting"} => child'[q] = "none"
    BY <1>2, <1>3, <1>5 DEF Up, Running, Calm, ChildHasWriter, TypeOK
  <2> QED BY <2>1 DEF ChildHasWriter
<1> QED BY <1>1, <1>3, <1>4, <1>6, <1>7, CalmAgain

\* A signal that the writer can forward takes its child down, and nothing else.
LEMMA KillStep ==
  ASSUME TypeOK, Calm, NEW s \in Shells, Kill(s), Running(pid[s]), ~upset'
  PROVE  Calm' /\ pc'[s] # "idle"
<1>1. /\ pc[s] = "kill" /\ pid[s] = pidFile
      /\ \A t \in Shells : t # s => pc'[t] = "idle"
  BY OthersIdle DEF Calm, ShellStep, ShellKnows, Kill
<1>2. /\ writer[pid[s]] = "watching"
      /\ child' = [child EXCEPT ![pid[s]] =
                     IF @ = "importing" THEN "down"
                     ELSE IF @ = "serving" THEN "draining" ELSE @]
      /\ UNCHANGED writer
  BY DEF Kill, Signal
<1>3. UNCHANGED <<pid, pidFile>> /\ pc'[s] = "wait"
  BY DEF Kill, Goto, TypeOK
<1>4. \A q \in Pids : Running(q)' <=> Running(q)
  BY <1>2 DEF Running
<1>5. ChildHasWriter'
  <2>1. ASSUME NEW q \in Pids
        PROVE  /\ Up(q)' => Running(q)'
               /\ writer'[q] \in {"free", "booting"} => child'[q] = "none"
    BY <1>2, <1>4 DEF Up, Calm, ChildHasWriter, TypeOK
  <2> QED BY <2>1 DEF ChildHasWriter
<1>6. \A q \in Pids : Running(q) => q = pidFile
  BY <1>1, OnlyOneRuns
<1> QED BY <1>1, <1>3, <1>4, <1>5, <1>6, CalmAgain

-----------------------------------------------------------------------------
(* The other steps.                                                        *)

LEMMA BeginStep ==
  ASSUME TypeOK, Calm, NEW s \in Shells, NEW c \in Commands, Begin(s, c), ~upset'
  PROVE  Calm'
<1>1. \A t \in Shells : pc[t] = "idle"
  BY DEF Begin
<1>2. /\ \A t \in Shells : t # s => pc'[t] = "idle"
      /\ pc'[s] \in {"ensure", "stop", "status"}
      /\ UNCHANGED <<pid, pidFile, writer, child>>
  <2>1. [start |-> "ensure", stop |-> "stop",
         restart |-> "stop", status |-> "status"][c] \in {"ensure", "stop", "status"}
    BY DEF Commands
  <2> QED BY <1>1, <2>1 DEF Begin, TypeOK, processVars
<1>3. \A p \in Pids : Running(p) => p = pidFile
  BY <1>1 DEF Calm, Tracked
<1>4. ChildHasWriter' /\ \A p \in Pids : Running(p)' <=> Running(p)
  BY <1>2 DEF Calm, ChildHasWriter, Running, Up
<1> QED BY <1>2, <1>3, <1>4, CalmAgain

\* A process that moves neither appears nor outlives its writer.
LEMMA ProcessStep ==
  ASSUME TypeOK, Calm, NEW p \in Pids, ~upset',
         Progress(p) \/ OpenFails(p) \/ RotationFails(p) \/ Crash(p)
  PROVE  Calm'
<1>1. /\ writer \in [Pids -> WriterStates] /\ child \in [Pids -> ChildStates]
      /\ Up(p) => Running(p)
      /\ writer[p] \in {"free", "booting"} => child[p] = "none"
  BY DEF TypeOK, Calm, ChildHasWriter
<1>2. UNCHANGED <<pc, pid, pidFile>>
  BY DEF Progress, Popen, Handle, Reap, Bind, Drained, OpenFails, RotationFails,
     Crash, shellVars
<1>3. ~RotationFails(p)
  BY DEF RotationFails
<1>4. \A q \in Pids : q # p => writer'[q] = writer[q] /\ child'[q] = child[q]
  BY <1>1, <1>3 DEF Progress, Popen, Handle, Reap, Bind, Drained, OpenFails, Crash
<1>5. /\ Running(p)' => Running(p)
      /\ Up(p)' => Running(p)'
      /\ writer'[p] \in {"free", "booting"} => child'[p] = "none"
  <2>1. CASE Popen(p)
    <3>1. p # NoPid
      BY LauncherAssumption DEF Pids, NoPid
    <3> QED BY <1>1, <2>1, <3>1 DEF Popen, Running, Up
  <2>2. CASE Handle(p)
    BY <1>1, <2>2 DEF Handle, Running, Up
  <2>3. CASE Reap(p)
    BY <1>1, <2>3 DEF Reap, Running, Up
  <2>4. CASE Bind(p)
    BY <1>1, <2>4 DEF Bind, Running, Up
  <2>5. CASE Drained(p)
    BY <1>1, <2>5 DEF Drained, Running, Up
  <2>6. CASE OpenFails(p)
    BY <1>1, <2>6 DEF OpenFails, Running, Up
  <2>7. CASE Crash(p)
    BY <1>1, <2>7 DEF Crash, Running, Up
  <2> QED BY <1>3, <2>1, <2>2, <2>3, <2>4, <2>5, <2>6, <2>7 DEF Progress
<1>6. \A q \in Pids : Running(q)' => Running(q)
  BY <1>4, <1>5 DEF Running
<1>7. ChildHasWriter'
  <2>1. ASSUME NEW q \in Pids
        PROVE  /\ Up(q)' => Running(q)'
               /\ writer'[q] \in {"free", "booting"} => child'[q] = "none"
    <3>1. CASE q = p
      BY <1>5, <3>1
    <3>2. CASE q # p
      BY <1>4, <3>2 DEF Calm, ChildHasWriter, Running, Up
    <3> QED BY <3>1, <3>2
  <2> QED BY <2>1 DEF ChildHasWriter
<1>8. Alone' /\ Tracked'
  BY <1>2, <1>6 DEF Calm, Alone, Tracked
<1>9. ShellKnows'
  <2>1. Running(pidFile)' => Running(pidFile)
    BY <1>2, <1>6 DEF Running, TypeOK
  <2> QED BY <1>2, <2>1 DEF Calm, ShellKnows
<1> QED BY <1>7, <1>8, <1>9 DEF Calm

\* No step makes a run calm again.
LEMMA UpsetStays == TypeOK /\ [Next]_vars /\ ~upset' => ~upset
<1> SUFFICES ASSUME TypeOK, [Next]_vars, upset PROVE upset'
  OBVIOUS
<1>1. CASE UNCHANGED vars
  BY <1>1 DEF vars
<1>2. ASSUME NEW s \in Shells, ShellStep(s) PROVE upset'
  BY <1>2 DEF ShellStep, EnsureFails, ReadStale, Unlink, Refuse, Launch, Record,
     Settle, ReadPid, DropStale, Kill, Signal, Stopped, Stuck, Status, Tidy
<1>3. ASSUME NEW s \in Shells, NEW c \in Commands, Begin(s, c) PROVE upset'
  BY <1>3 DEF Begin
<1>4. ASSUME NEW p \in Pids, Progress(p) \/ OpenFails(p) \/ RotationFails(p) \/ Crash(p)
      PROVE  upset'
  BY <1>4 DEF Progress, Popen, Handle, Reap, Bind, Drained, OpenFails,
     RotationFails, Crash
<1> QED BY <1>1, <1>2, <1>3, <1>4 DEF Next

LEMMA ShellStepCalm ==
  ASSUME TypeOK, Calm, NEW s \in Shells, ShellStep(s), ~upset'
  PROVE  Calm' /\ (pc'[s] = "idle" => Truth(s)')
<1>1. CASE Launch(s)
  BY <1>1, LaunchStep
<1>2. CASE Kill(s) /\ Running(pid[s])
  BY <1>2, KillStep
<1>3. CASE ~Launch(s) /\ ~(Kill(s) /\ Running(pid[s]))
  <2>1. UNCHANGED processVars
    BY <1>3 DEF ShellStep, EnsureFails, ReadStale, Unlink, Refuse, Record, Settle,
       ReadPid, DropStale, Kill, Stopped, Stuck, Status, Tidy
  <2> QED BY <2>1, QuietShellStep
<1> QED BY <1>1, <1>2, <1>3

LEMMA StepIInv == IInv /\ [Next]_vars => IInv'
<1> SUFFICES ASSUME IInv, [Next]_vars, ~upset' PROVE Calm'
  BY TypeStep DEF IInv
<1>1. TypeOK /\ Calm
  BY UpsetStays DEF IInv
<1>2. CASE UNCHANGED vars
  BY <1>1, <1>2 DEF vars, shellVars, processVars, Calm, Alone, ChildHasWriter,
     Tracked, ShellKnows, Running, Up
<1> QED BY <1>1, <1>2, ShellStepCalm, BeginStep, ProcessStep DEF Next

-----------------------------------------------------------------------------
(* The theorems.                                                           *)

\* The invariant holds in every reachable state.
THEOREM Invariance == Spec => []IInv
BY InitIInv, StepIInv, PTL DEF Spec

\* Every variable stays within its type (run.sh:109-207, log_tee.py:45-94).
THEOREM Typing == Spec => []TypeOK
<1>1. IInv => TypeOK
  BY DEF IInv
<1> QED BY <1>1, Invariance, PTL

\* Between commands, whatever runs is in the pid file, for any number of shells
\* and launches (run.sh:134-191).
THEOREM ServersAreTracked == Spec => []ServerIsTracked
<1>1. IInv => ServerIsTracked
  <2> SUFFICES ASSUME Calm, Quiet, NEW p \in Pids, Running(p) \/ Up(p)
               PROVE  pidFile = p
    BY DEF IInv, ServerIsTracked
  <2>1. Running(p)
    BY DEF Calm, ChildHasWriter
  <2> QED BY <2>1 DEF Calm, Tracked, Quiet
<1> QED BY <1>1, Invariance, PTL

\* What a command reports when it ends is so (run.sh:158-164, 168-207).
THEOREM ReportsAreTrue == Spec => ReportsTruth
<1> DEFINE Ends(s) == ~upset' /\ pc[s] # "idle" /\ pc'[s] = "idle"
<1>1. ASSUME IInv, [Next]_vars, NEW s \in Shells, Ends(s) PROVE Truth(s)'
  <2>1. TypeOK /\ Calm
    BY <1>1, UpsetStays DEF IInv
  <2>2. CASE UNCHANGED vars
    BY <1>1, <2>2 DEF vars, shellVars
  <2>3. ASSUME NEW t \in Shells, ShellStep(t) PROVE Truth(s)'
    <3>1. s = t
      BY <1>1, <2>1, <2>3, OthersIdle DEF Calm
    <3> QED BY <1>1, <2>1, <2>3, <3>1, ShellStepCalm
  <2>4. ASSUME NEW t \in Shells, NEW c \in Commands, Begin(t, c) PROVE FALSE
    BY <1>1, <2>1, <2>4 DEF Begin, TypeOK
  <2>5. ASSUME NEW p \in Pids,
               Progress(p) \/ OpenFails(p) \/ RotationFails(p) \/ Crash(p)
        PROVE  FALSE
    BY <1>1, <2>5 DEF Progress, Popen, Handle, Reap, Bind, Drained, OpenFails,
       RotationFails, Crash, shellVars
  <2> QED BY <1>1, <2>2, <2>3, <2>4, <2>5 DEF Next
<1>2. IInv /\ [Next]_vars =>
        [\A s \in Shells : Ends(s) =>
           /\ said'[s] \in {"stopped", "not running"} =>
                \A p \in Pids : ~Running(p)' /\ ~Up(p)'
           /\ said'[s] \in {"started", "running", "already running"} =>
                Running(pidFile)']_vars
  BY <1>1 DEF Truth
<1> QED BY <1>2, Invariance, PTL DEF Spec, ReportsTruth

=============================================================================
