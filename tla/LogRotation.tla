----------------------------- MODULE LogRotation -----------------------------
(***************************************************************************)
(* The log that server/log_tee.py keeps for the service it launched: the   *)
(* child appends to the log file through a descriptor of its own, and the  *)
(* supervisor looks at its size once a second.  Above a limit it copies    *)
(* each backup to the next, the log to the first, and truncates the log in *)
(* place, while the child goes on writing.                                 *)
(*                                                                         *)
(* A line is the number of its writing and the measure of size; a copy     *)
(* that is cut within a line counts as cut before it.  The supervisor may  *)
(* be killed, or raise, between any two system calls and within a copy;    *)
(* its child does not end with it.  run.sh start then opens the files as   *)
(* they are and launches a child beside the one that is left.  The child   *)
(* and the file system are external; what a power failure leaves of files  *)
(* that were not yet on disk is not modelled.                              *)
(***************************************************************************)
EXTENDS Integers, Sequences

CONSTANTS B,        \* backup_count
          Max,      \* max_bytes, in lines
          Burst,    \* lines written between two looks, at most
          MaxLines, MaxStarts   \* bounds on what is counted

ASSUME RotationAssumption ==
  /\ B \in Nat \ {0}
  /\ Max \in Nat /\ Burst \in Nat /\ MaxLines \in Nat
  /\ MaxStarts \in Nat \ {0}

VARIABLES
  log,      \* the live file
  backup,   \* the backups there are, .1 first
  pc,       \* of the supervisor
  index,    \* of the backup to be copied, 0 for the log itself
  child,    \* the supervisor's child runs
  orphan,   \* so does one whose supervisor is gone
  next,     \* the line that is written next
  budget,   \* lines that may be written until the next look
  alone,    \* lines that were written without a supervisor
  starts    \* supervisors launched so far

files == <<log, backup>>
clock == <<next, budget, alone, starts>>
vars == <<files, pc, index, child, orphan, clock>>

Init ==
  /\ log = <<>> /\ backup = <<>>
  /\ pc = "watch" /\ index = 0
  /\ child = TRUE /\ orphan = FALSE
  /\ next = 1 /\ budget = Burst /\ alone = 0 /\ starts = 1

\* The child, or one that was left behind: one line, appended wherever the file
\* ends by now.  Nobody looks while there is no supervisor.
WriteLine ==
  /\ child \/ orphan
  /\ next <= MaxLines
  /\ IF pc = "down" THEN alone' = alone + 1 /\ UNCHANGED budget
     ELSE budget > 0 /\ budget' = budget - 1 /\ UNCHANGED alone
  /\ log' = Append(log, next)
  /\ next' = next + 1
  /\ UNCHANGED <<backup, pc, index, child, orphan, starts>>

\* Mutation of Look: the range starts with backup_count.
LookFromLast ==
  /\ pc = "watch" /\ child
  /\ budget' = Burst
  /\ IF Len(log) > Max THEN pc' = "shift" /\ index' = B
     ELSE UNCHANGED <<pc, index>>
  /\ UNCHANGED <<files, child, orphan, next, alone, starts>>

\* The child has not ended: one look at the size.
Look ==
  /\ pc = "watch" /\ child
  /\ budget' = Burst
  /\ IF Len(log) > Max THEN pc' = "shift" /\ index' = B - 1
     ELSE UNCHANGED <<pc, index>>
  /\ UNCHANGED <<files, child, orphan, next, alone, starts>>

-----------------------------------------------------------------------------
(* _shift_backups: range(backup_count - 1, 0, -1), then the log, here as   *)
(* index 0.                                                                *)

Source == IF index = 0 THEN log ELSE backup[index]
Exists == IF index = 0 THEN log # <<>> ELSE index <= Len(backup)

\* The backups once file i holds s.
Put(i, s) ==
  IF i <= Len(backup) THEN [backup EXCEPT ![i] = s] ELSE Append(backup, s)

\* Mutation of Onward: the range ends before its last index.
OnwardTooShort ==
  IF index = 0 THEN pc' = "truncate" /\ UNCHANGED index
  ELSE pc' = "shift" /\ index' = IF index = 2 THEN 0 ELSE index - 1

Onward ==
  IF index = 0 THEN pc' = "truncate" /\ UNCHANGED index
  ELSE pc' = "shift" /\ index' = index - 1

Skip ==
  /\ pc = "shift" /\ ~Exists
  /\ Onward
  /\ UNCHANGED <<files, child, orphan, clock>>

\* Mutation of OpenCopy: a file that is there is not emptied, and the copy goes
\* on where it ends.
OpenCopyOn ==
  /\ pc = "shift" /\ Exists
  /\ backup' = IF index < Len(backup) THEN backup ELSE Append(backup, <<>>)
  /\ pc' = "copy"
  /\ UNCHANGED <<log, index, child, orphan, clock>>

\* shutil.copyfile empties the file it copies to ...
OpenCopy ==
  /\ pc = "shift" /\ Exists
  /\ backup' = Put(index + 1, <<>>)
  /\ pc' = "copy"
  /\ UNCHANGED <<log, index, child, orphan, clock>>

\* ... fills it piece by piece ...
Copied == Len(backup[index + 1])

CopyLine ==
  /\ pc = "copy" /\ Copied < Len(Source)
  /\ backup' = Put(index + 1, Append(backup[index + 1], Source[Copied + 1]))
  /\ UNCHANGED <<log, pc, index, child, orphan, clock>>

\* ... and is done when it finds no more, what was appended meanwhile included.
EndCopy ==
  /\ pc = "copy" /\ Copied >= Len(Source)
  /\ Onward
  /\ UNCHANGED <<files, child, orphan, clock>>

\* Mutation of Truncate: the log is left as it is.
TruncateNot ==
  /\ pc = "truncate"
  /\ pc' = "watch"
  /\ UNCHANGED <<files, index, child, orphan, clock>>

\* os.ftruncate(log_fd, 0): all that is in the log, copied or not.
Truncate ==
  /\ pc = "truncate"
  /\ log' = <<>>
  /\ pc' = "watch"
  /\ UNCHANGED <<backup, index, child, orphan, clock>>

-----------------------------------------------------------------------------
(* Ends and starts.                                                        *)

\* A child ends, by a signal or by itself.
ChildEnds ==
  /\ \/ child /\ child' = FALSE /\ UNCHANGED orphan
     \/ orphan /\ orphan' = FALSE /\ UNCHANGED child
  /\ UNCHANGED <<files, pc, index, clock>>

\* The loop finds the child ended before it looks at the size.
Stop ==
  /\ pc = "watch" /\ ~child
  /\ pc' = "down"
  /\ UNCHANGED <<files, index, child, orphan, clock>>

\* The supervisor is killed, or a copy or the truncation raises; the child has
\* the descriptor and goes on.
Crash ==
  /\ pc # "down"
  /\ pc' = "down"
  /\ child' = FALSE
  /\ orphan' = (orphan \/ child)
  /\ UNCHANGED <<files, index, clock>>

\* O_WRONLY | O_CREAT | O_APPEND, and a child, even beside one that was left.
Start ==
  /\ pc = "down" /\ starts < MaxStarts
  /\ pc' = "watch"
  /\ child' = TRUE
  /\ starts' = starts + 1
  /\ budget' = Burst
  /\ UNCHANGED <<files, index, orphan, next, alone>>

Next ==
  \/ WriteLine \/ Look
  \/ Skip \/ OpenCopy \/ CopyLine \/ EndCopy \/ Truncate
  \/ ChildEnds \/ Stop \/ Crash \/ Start

Spec == Init /\ [][Next]_vars

-----------------------------------------------------------------------------
(* Properties.                                                             *)

Lines(f) == {f[i] : i \in DOMAIN f}
Kept == Lines(log) \cup UNION {Lines(backup[i]) : i \in DOMAIN backup}

\* Type invariant.  There are never more than B backups.
TypeOK ==
  /\ log \in Seq(1..MaxLines)
  /\ backup \in Seq(Seq(1..MaxLines)) /\ Len(backup) <= B
  /\ pc \in {"watch", "shift", "copy", "truncate", "down"}
  /\ index \in 0..(B - 1)
  /\ child \in BOOLEAN /\ orphan \in BOOLEAN
  /\ next \in 1..(MaxLines + 1)
  /\ budget \in 0..Burst
  /\ alone \in 0..MaxLines
  /\ starts \in 1..MaxStarts

\* Whenever the supervisor is interrupted, a line is gone from all files only
\* if it was in the oldest backup, or if it was written after the log had been
\* copied, since when nothing else was (log_tee.py:37-42, 83-84).
OnlyOldestLost ==
  [][\A l \in Kept \ Kept' :
       \/ Len(backup) = B /\ l \in Lines(backup[B])
       \/ pc = "truncate" /\ \A k \in Lines(backup[1]) : k < l]_vars

\* A file is an unbroken run of lines, be it a copy that was cut short, and what
\* it has that a later backup has not is newer than all of that backup: whoever
\* reads the files from the last to the first, and passes over what he has met,
\* reads the lines in the order they were written (log_tee.py:30-42).
FilesAreRuns ==
  LET all == <<log>> \o backup
  IN  /\ \A i \in DOMAIN all : \A k \in 1..(Len(all[i]) - 1) :
           all[i][k + 1] = all[i][k] + 1
      /\ \A i, j \in DOMAIN all : i < j =>
           \A l \in Lines(all[i]) \ Lines(all[j]) : \A k \in Lines(all[j]) : k < l

\* What is left of "the local .run/ log is bounded" (log_tee.py:16-17): each file
\* has at most the limit and two bursts for each supervisor that was launched,
\* whose copies may all have been interrupted, or whose child may have ended
\* before the first look; and what was written while there was none, which has
\* no bound.
Bounded ==
  \A f \in {log} \cup {backup[i] : i \in DOMAIN backup} :
    Len(f) <= Max + 2 * Burst * starts + alone

=============================================================================
