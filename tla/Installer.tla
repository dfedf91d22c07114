------------------------------ MODULE Installer ------------------------------
(***************************************************************************)
(* install.sh: the skill's files are linked or copied into one place, or   *)
(* into the default place of every harness in turn.  A place that is taken *)
(* is refused, or with --force first moved to a name that has the second   *)
(* in it.  Under set -e the first command that fails ends the script; so   *)
(* does a signal or a crash, at any point.                                 *)
(*                                                                         *)
(* A tree is known by the run that made it (0: it was there before) and by *)
(* how many of the files, in the order of SKILL_FILES, it has and was      *)
(* begun to get.  ln and rename are atomic, cp is not.  mv and the file    *)
(* system are external.                                                    *)
(***************************************************************************)
EXTENDS Integers

CONSTANTS NFiles,     \* length of SKILL_FILES
          NTargets,   \* the default places are 1..NTargets
          NPlaces,    \* and these with what --prefix may name 1..NPlaces
          MaxRuns, MaxSeconds   \* bounds on what is counted

ASSUME InstallerAssumption ==
  /\ NFiles \in Nat \ {0} /\ NPlaces \in Nat /\ NTargets \in 1..NPlaces
  /\ MaxRuns \in Nat /\ MaxSeconds \in Nat \ {0}

VARIABLES
  at,       \* the tree in each place
  bak,      \* the backup of a place and a second
  nested,   \* what was moved into that backup
  now,      \* date, in seconds
  runs,     \* of the script
  pc, place, todo, force, mode, stamp,   \* of the present run
  said      \* the installs it announced: place and run

files == <<at, bak, nested>>
args == <<runs, place, todo, force, mode>>
vars == <<files, now, pc, stamp, args, said>>

Places == 1..NPlaces
Seconds == 1..MaxSeconds
Tree == [by : 0..MaxRuns, have : 0..NFiles, begun : 0..NFiles]
None == [by |-> -1, have |-> 0, begun |-> 0]
IsEmpty(t) == t.begun = 0
IsWhole(t) == t.have = NFiles

Init ==
  /\ at \in [Places -> {None} \cup
               {[by |-> 0, have |-> n, begun |-> n] : n \in 0..NFiles}]
  /\ bak = [b \in Places \X Seconds |-> None]
  /\ nested = [b \in Places \X Seconds |-> None]
  /\ now = 1 /\ runs = 0
  /\ pc = "idle" /\ place = 1 /\ todo = {}
  /\ force = FALSE /\ mode = "symlink" /\ stamp = 1
  /\ said = {}

Tick ==
  /\ now < MaxSeconds
  /\ now' = now + 1
  /\ UNCHANGED <<files, pc, stamp, args, said>>

\* The loop of main over the places: the next of those in t, or the end.
Turn(t) ==
  IF t = {} THEN pc' = "idle" /\ todo' = {} /\ UNCHANGED place
  ELSE \E p \in t : /\ \A q \in t : p <= q
                    /\ place' = p /\ todo' = t \ {p} /\ pc' = "look"

\* parse_args: one place, or each default place whatever the prefix.
Main ==
  /\ pc = "idle" /\ runs < MaxRuns
  /\ runs' = runs + 1
  /\ \E t \in {{p} : p \in Places} \cup {1..NTargets} : Turn(t)
  /\ force' \in BOOLEAN
  /\ mode' \in {"symlink", "copy"}
  /\ UNCHANGED <<files, now, stamp, said>>

Exists == at[place] # None

\* Any end but the last: die, a command that fails, a signal, a crash.
Die ==
  /\ pc # "idle"
  /\ pc' = "idle" /\ todo' = {}
  /\ UNCHANGED <<files, now, runs, place, force, mode, stamp, said>>

-----------------------------------------------------------------------------
(* install_skill.                                                          *)

\* Mutation of Look: --force writes over what is there.
LookOver ==
  /\ pc = "look"
  /\ Exists => force
  /\ pc' = IF Exists THEN "put" ELSE "make"
  /\ stamp' = IF Exists THEN now ELSE stamp
  /\ UNCHANGED <<files, now, args, said>>

\* [[ -e "$target_dir" ]]: without --force a place that is taken leaves only Die.
Look ==
  /\ pc = "look"
  /\ Exists => force
  /\ pc' = IF Exists THEN "move" ELSE "make"
  /\ stamp' = IF Exists THEN now ELSE stamp
  /\ UNCHANGED <<files, now, args, said>>

\* mv d b: b is free; or it is a directory, and d goes into it by its own name,
\* unless a directory of that name is there and holds something.
Mv(d, b) ==
  IF bak[b] = None THEN bak' = [bak EXCEPT ![b] = d] /\ UNCHANGED nested
  ELSE IsEmpty(nested[b]) /\ nested' = [nested EXCEPT ![b] = d] /\ UNCHANGED bak

Backup ==
  /\ pc = "move"
  /\ Mv(at[place], <<place, stamp>>)
  /\ at' = [at EXCEPT ![place] = None]
  /\ pc' = "make"
  /\ UNCHANGED <<now, stamp, args, said>>

MakeDir ==
  /\ pc = "make"
  /\ at' = [at EXCEPT ![place] = [by |-> runs, have |-> 0, begun |-> 0]]
  /\ pc' = "put"
  /\ UNCHANGED <<bak, nested, now, stamp, args, said>>

\* ln -sfn
Link ==
  /\ pc = "put" /\ mode = "symlink" /\ at[place].have < NFiles
  /\ at' = [at EXCEPT ![place].have = @ + 1, ![place].begun = @ + 1]
  /\ UNCHANGED <<bak, nested, now, pc, stamp, args, said>>

\* cp -R, which may be interrupted.
OpenCopy ==
  /\ pc = "put" /\ mode = "copy" /\ at[place].have < NFiles
  /\ at' = [at EXCEPT ![place].begun = @ + 1]
  /\ pc' = "copy"
  /\ UNCHANGED <<bak, nested, now, stamp, args, said>>

CloseCopy ==
  /\ pc = "copy"
  /\ at' = [at EXCEPT ![place].have = @ + 1]
  /\ pc' = "put"
  /\ UNCHANGED <<bak, nested, now, stamp, args, said>>

\* Mutation of Installed: it is said of every directory that is there.
InstalledEarly ==
  /\ pc = "put"
  /\ said' = said \cup {<<place, runs>>}
  /\ Turn(todo)
  /\ UNCHANGED <<files, now, runs, force, mode, stamp>>

\* The last line, and the next place of main's loop.
Installed ==
  /\ pc = "put" /\ at[place].have = NFiles
  /\ said' = said \cup {<<place, runs>>}
  /\ Turn(todo)
  /\ UNCHANGED <<files, now, runs, force, mode, stamp>>

Next ==
  \/ Main \/ Look \/ Backup \/ MakeDir \/ Link \/ OpenCopy \/ CloseCopy
  \/ Installed \/ Die \/ Tick

Spec == Init /\ [][Next]_vars

-----------------------------------------------------------------------------
(* Properties.                                                             *)

\* The trees that came from place p: there, or in one of its backups.
Stored(p) ==
  {at[p]} \cup {bak[<<p, s>>] : s \in Seconds} \cup {nested[<<p, s>>] : s \in Seconds}

\* "--force overwrite existing install; backs up" (INSTALL.md:20, install.sh:75):
\* whatever was interrupted, and however soon the next run follows, what an
\* earlier run or the user put into a place is still there or in a backup of
\* it, unchanged, and what this run put there is not taken back.
NothingIsLost ==
  [][\A p \in Places : \A t \in Stored(p) :
       ~IsEmpty(t) =>
         \E u \in Stored(p)' :
           \/ u = t
           \/ t.by = runs /\ u.by = runs /\ u.have >= t.have]_vars

\* A tree of which the script said "installed" has all the files, and keeps
\* them when it is moved away (install.sh:78-88).
InstalledIsWhole ==
  \A p \in Places : \A t \in Stored(p) :
    <<p, t.by>> \in said => IsWhole(t)

=============================================================================
