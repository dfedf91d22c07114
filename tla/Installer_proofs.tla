--------------------------- MODULE Installer_proofs ---------------------------
(***************************************************************************)
(* Proofs about Installer, for every number of files, places, runs and     *)
(* seconds.                                                                *)
(***************************************************************************)
EXTENDS Installer, TLAPS

-----------------------------------------------------------------------------
(* The inductive invariant, in parts.                                      *)

TypeOK ==
  /\ at \in [Places -> Tree \cup {None}]
  /\ bak \in [Places \X Seconds -> Tree \cup {None}]
  /\ nested \in [Places \X Seconds -> Tree \cup {None}]
  /\ now \in Seconds /\ stamp \in Seconds
  /\ runs \in 0..MaxRuns
  /\ pc \in {"idle", "look", "move", "make", "put", "copy"}
  /\ place \in Places /\ todo \subseteq Places
  /\ said \subseteq Places \X (1..MaxRuns)

\* The tree of the present run, while it is being filled.
InPlace ==
  /\ pc \in {"put", "copy"} => at[place] \in Tree /\ at[place].by = runs
  /\ pc = "put" => at[place].begun = at[place].have
  /\ pc = "copy" => at[place].have < NFiles /\ at[place].begun = at[place].have + 1
  /\ pc = "make" => at[place] = None
  /\ pc # "idle" => runs # 0
  /\ place \notin todo

\* No other tree is of this run, in the places that are still to be finished.
OthersArePast ==
  /\ \A p \in Places : at[p].by <= runs
  /\ \A b \in Places \X Seconds : bak[b].by <= runs /\ nested[b].by <= runs
  /\ pc # "idle" =>
       \A p \in todo \cup {place} :
         /\ \A s \in Seconds : bak[<<p, s>>].by # runs /\ nested[<<p, s>>].by # runs
         /\ at[p].by = runs => p = place /\ pc \in {"put", "copy"}

\* What was announced is of earlier runs, or of places that are finished.
SaidIsPast ==
  /\ \A x \in said : x[2] <= runs
  /\ pc # "idle" => \A p \in todo \cup {place} : <<p, runs>> \notin said

\* InstalledIsWhole, for one tree of place p.
Fine(p, t) == <<p, t.by>> \in said => IsWhole(t)
AllFine ==
  /\ \A p \in Places : Fine(p, at[p])
  /\ \A p \in Places, s \in Seconds : Fine(p, bak[<<p, s>>]) /\ Fine(p, nested[<<p, s>>])

IInv == TypeOK /\ InPlace /\ OthersArePast /\ SaidIsPast /\ AllFine

-----------------------------------------------------------------------------
(* Facts about the steps.                                                  *)

LEMMA Constants ==
  /\ NFiles \in Nat \ {0} /\ MaxRuns \in Nat /\ MaxSeconds \in Nat \ {0}
  /\ 1 \in Places /\ 1 \in Seconds /\ 1..NTargets \subseteq Places
  /\ None.by = -1 /\ None.have = 0 /\ None.begun = 0 /\ IsEmpty(None)
BY InstallerAssumption DEF Places, Seconds, None, IsEmpty

\* A tree or none has the fields of its kind.
LEMMA Fields ==
  ASSUME NEW t \in Tree \cup {None}
  PROVE  t.by \in Int /\ t.by >= -1 /\ t.have \in Nat /\ t.begun \in Nat
BY InstallerAssumption DEF Tree, None

\* The loop goes to a place of t, and does not come to it again.
LEMMA TurnTo ==
  ASSUME TypeOK, NEW t \in SUBSET Places, Turn(t)
  PROVE  /\ place' \in Places /\ todo' \in SUBSET Places /\ place' \notin todo'
         /\ pc' \in {"idle", "look"}
         /\ pc' = "look" => todo' \cup {place'} \subseteq t
BY DEF Turn, TypeOK

LEMMA InitIInv == Init => IInv
<1> SUFFICES ASSUME Init PROVE IInv
  OBVIOUS
<1>1. \A p \in Places : at[p] \in Tree \cup {None} /\ at[p].by <= 0
  BY InstallerAssumption DEF Init, Tree, None
<1>2. TypeOK
  BY <1>1, Constants DEF Init, TypeOK
<1>3. OthersArePast
  BY <1>1, Constants DEF Init, OthersArePast
<1> QED BY <1>2, <1>3 DEF Init, IInv, InPlace, SaidIsPast, AllFine, Fine

\* A new run is past all that is there.
LEMMA MainKeeps == ASSUME IInv, Main PROVE IInv'
<1> USE DEF IInv
<1>1. /\ runs' = runs + 1 /\ runs \in Nat /\ runs' \in 1..MaxRuns
      /\ UNCHANGED <<files, now, stamp, said>>
  BY Constants DEF Main, TypeOK
<1>2. PICK t \in {{p} : p \in Places} \cup {1..NTargets} : Turn(t)
  BY DEF Main
<1>3. t \in SUBSET Places
  BY Constants
<1>4. /\ place' \in Places /\ todo' \in SUBSET Places /\ place' \notin todo'
      /\ pc' \in {"idle", "look"}
  BY <1>2, <1>3, TurnTo DEF TypeOK, InPlace
<1>5. TypeOK'
  BY <1>1, <1>4 DEF TypeOK, files
<1>6. InPlace'
  BY <1>1, <1>4 DEF InPlace
<1>7. \A p \in Places : at[p].by \in Int /\ at[p].by <= runs
  BY Fields DEF TypeOK, OthersArePast
<1>8. \A b \in Places \X Seconds :
        /\ bak[b].by \in Int /\ bak[b].by <= runs
        /\ nested[b].by \in Int /\ nested[b].by <= runs
  BY Fields DEF TypeOK, OthersArePast
<1>9. OthersArePast'
  BY <1>1, <1>4, <1>7, <1>8 DEF OthersArePast, files
<1>10. SaidIsPast'
  BY <1>1, <1>4 DEF SaidIsPast, TypeOK
<1>11. AllFine'
  BY <1>1 DEF AllFine, Fine, files
<1> QED BY <1>5, <1>6, <1>9, <1>10, <1>11

\* The end of a run, its look at the place, the clock.
LEMMA QuietKeeps == ASSUME IInv, Die \/ Look \/ Tick \/ UNCHANGED vars PROVE IInv'
<1> USE DEF IInv
<1>1. UNCHANGED <<files, runs, place, said>>
  BY DEF Die, Look, Tick, vars, args
<1>2. (todo' = {} /\ pc' = "idle") \/ UNCHANGED todo
  BY DEF Die, Look, Tick, vars, args
<1>3. \/ pc' = "idle" /\ UNCHANGED <<now, stamp>>
      \/ pc = "look" /\ pc' \in {"move", "make"} /\ (pc' = "make" => at[place] = None)
         /\ now' = now /\ stamp' \in {now, stamp}
      \/ UNCHANGED <<pc, stamp>> /\ now' \in {now, now + 1} /\ now' \in Seconds
  BY Constants DEF Die, Look, Tick, vars, Exists, Seconds, TypeOK
<1>4. TypeOK'
  BY <1>1, <1>2, <1>3 DEF TypeOK, files
<1>5. InPlace'
  BY <1>1, <1>2, <1>3 DEF InPlace, files
<1>6. OthersArePast'
  BY <1>1, <1>2, <1>3 DEF OthersArePast, files
<1>7. SaidIsPast'
  BY <1>1, <1>2, <1>3 DEF SaidIsPast
<1>8. AllFine'
  BY <1>1 DEF AllFine, Fine, files
<1> QED BY <1>4, <1>5, <1>6, <1>7, <1>8

\* What is moved is of an earlier run, and what it is moved over is empty.
LEMMA BackupKeeps == ASSUME IInv, Backup PROVE IInv'
<1> USE DEF IInv
<1> DEFINE b == <<place, stamp>>
           t == at[place]
<1>1. /\ pc = "move" /\ pc' = "make" /\ at' = [at EXCEPT ![place] = None]
      /\ UNCHANGED <<now, stamp, runs, place, todo, said>>
  BY DEF Backup, args
<1>2. /\ place \in Places /\ b \in Places \X Seconds /\ t \in Tree \cup {None}
      /\ t.by <= runs /\ t.by # runs /\ Fine(place, t) /\ runs \in Nat
  BY <1>1, Constants DEF TypeOK, OthersArePast, AllFine
<1>3. \/ bak' = [bak EXCEPT ![b] = t] /\ nested' = nested
      \/ bak' = bak /\ nested' = [nested EXCEPT ![b] = t]
  BY DEF Backup, Mv
<1> HIDE DEF b, t
<1>4. /\ bak' \in [Places \X Seconds -> Tree \cup {None}]
      /\ nested' \in [Places \X Seconds -> Tree \cup {None}]
      /\ at' \in [Places -> Tree \cup {None}]
      /\ at'[place] = None /\ \A p \in Places : at'[p] = at[p] \/ p = place
  BY <1>1, <1>2, <1>3 DEF TypeOK
<1>5. \A c \in Places \X Seconds :
        /\ bak'[c] = bak[c] \/ (c = b /\ bak'[c] = t)
        /\ nested'[c] = nested[c] \/ (c = b /\ nested'[c] = t)
  BY <1>2, <1>3 DEF TypeOK
<1>6. TypeOK' /\ InPlace'
  BY <1>1, <1>4 DEF TypeOK, InPlace
<1>7. OthersArePast'
  <2>1. \A p \in Places : at'[p].by <= runs /\ (at'[p].by = runs => at'[p] = at[p])
    BY <1>2, <1>4, Constants DEF OthersArePast
  <2>2. \A c \in Places \X Seconds : bak'[c].by <= runs /\ nested'[c].by <= runs
    BY <1>2, <1>5 DEF OthersArePast
  <2>3. \A p \in todo \cup {place}, s \in Seconds :
          bak'[<<p, s>>].by # runs /\ nested'[<<p, s>>].by # runs
    BY <1>1, <1>2, <1>5 DEF OthersArePast, TypeOK
  <2>4. \A p \in todo \cup {place} : at'[p].by # runs
    BY <1>1, <1>2, <1>4, Constants DEF OthersArePast, TypeOK
  <2> QED BY <1>1, <2>1, <2>2, <2>3, <2>4 DEF OthersArePast
<1>8. SaidIsPast'
  BY <1>1 DEF SaidIsPast
<1>9. AllFine'
  <2>1. \A p \in Places : Fine(p, at'[p])
    BY <1>2, <1>4, Constants DEF AllFine, Fine, TypeOK
  <2>2. \A p \in Places, s \in Seconds : Fine(p, bak'[<<p, s>>]) /\ Fine(p, nested'[<<p, s>>])
    BY <1>2, <1>5 DEF AllFine, b
  <2> QED BY <1>1, <2>1, <2>2 DEF AllFine, Fine
<1> QED BY <1>6, <1>7, <1>8, <1>9

\* A step that changes the tree of this run in its place, and no other: the run
\* has not announced it yet.
LEMMA FillKeeps ==
  ASSUME IInv, NEW t \in Tree, t.by = runs,
         pc \in {"make", "put", "copy"}, pc' \in {"put", "copy"},
         at' = [at EXCEPT ![place] = t],
         UNCHANGED <<bak, nested, now, stamp, args, said>>,
         pc' = "put" => t.begun = t.have,
         pc' = "copy" => t.have < NFiles /\ t.begun = t.have + 1
  PROVE  IInv'
<1> USE DEF IInv
<1>1. /\ place \in Places /\ UNCHANGED <<runs, place, todo>> /\ runs \in Nat
      /\ at' \in [Places -> Tree \cup {None}]
      /\ at'[place] = t /\ \A p \in Places : at'[p] = at[p] \/ p = place
  BY Constants DEF TypeOK, args
<1>2. TypeOK' /\ InPlace'
  BY <1>1 DEF TypeOK, InPlace
<1>3. OthersArePast'
  BY <1>1 DEF OthersArePast, TypeOK
<1>4. SaidIsPast'
  BY <1>1 DEF SaidIsPast
<1>5. AllFine'
  BY <1>1 DEF AllFine, Fine, SaidIsPast
<1> QED BY <1>2, <1>3, <1>4, <1>5

\* Each of the four steps fills the tree, and takes nothing from it.
LEMMA FillSteps ==
  ASSUME IInv, MakeDir \/ Link \/ OpenCopy \/ CloseCopy
  PROVE  \E t \in Tree :
           /\ t.by = runs
           /\ at[place] = None \/ (at[place].by = runs /\ t.have >= at[place].have)
           /\ pc \in {"make", "put", "copy"} /\ pc' \in {"put", "copy"}
           /\ at' = [at EXCEPT ![place] = t]
           /\ UNCHANGED <<bak, nested, now, stamp, args, said>>
           /\ pc' = "put" => t.begun = t.have
           /\ pc' = "copy" => t.have < NFiles /\ t.begun = t.have + 1
<1> USE DEF IInv
<1> DEFINE o == at[place]
<1>1. runs \in 0..MaxRuns /\ place \in Places /\ NFiles \in Nat
      /\ at \in [Places -> Tree \cup {None}]
  BY Constants DEF TypeOK
<1>2. CASE MakeDir
  <2>1. [by |-> runs, have |-> 0, begun |-> 0] \in Tree
    BY <1>1 DEF Tree
  <2> QED BY <1>2, <2>1 DEF MakeDir, InPlace
<1>3. ASSUME pc \in {"put", "copy"}
      PROVE  /\ o.by = runs /\ o.have \in 0..NFiles /\ o.begun \in 0..NFiles
             /\ o = [by |-> runs, have |-> o.have, begun |-> o.begun]
  BY <1>1, <1>3 DEF InPlace, Tree
<1>4. CASE Link
  <2>1. pc = "put" /\ pc' = "put" /\ o.have < NFiles /\ o.begun = o.have
    BY <1>4 DEF Link, InPlace
  <2> DEFINE n == [by |-> runs, have |-> o.have + 1, begun |-> o.begun + 1]
  <2>2. at' = [at EXCEPT ![place] = n]
    BY <1>1, <1>3, <1>4, <2>1 DEF Link
  <2>3. n \in Tree /\ n.have >= o.have
    BY <1>1, <1>3, <2>1 DEF Tree
  <2> QED BY <1>3, <1>4, <2>1, <2>2, <2>3 DEF Link
<1>5. CASE OpenCopy
  <2>1. pc = "put" /\ pc' = "copy" /\ o.have < NFiles /\ o.begun = o.have
    BY <1>5 DEF OpenCopy, InPlace
  <2> DEFINE n == [by |-> runs, have |-> o.have, begun |-> o.begun + 1]
  <2>2. at' = [at EXCEPT ![place] = n]
    <3>1. at' = [at EXCEPT ![place] = [o EXCEPT !.begun = o.begun + 1]]
      BY <1>1, <1>5 DEF OpenCopy
    <3>2. [o EXCEPT !.begun = o.begun + 1] = n
      BY <1>3, <2>1
    <3> QED BY <3>1, <3>2
  <2>3. n \in Tree /\ n.have >= o.have
    BY <1>1, <1>3, <2>1 DEF Tree
  <2> QED BY <1>3, <1>5, <2>1, <2>2, <2>3 DEF OpenCopy
<1>6. CASE CloseCopy
  <2>1. pc = "copy" /\ pc' = "put" /\ o.have < NFiles /\ o.begun = o.have + 1
    BY <1>6 DEF CloseCopy, InPlace
  <2> DEFINE n == [by |-> runs, have |-> o.have + 1, begun |-> o.begun]
  <2>2. at' = [at EXCEPT ![place] = n]
    <3>1. at' = [at EXCEPT ![place] = [o EXCEPT !.have = o.have + 1]]
      BY <1>1, <1>6 DEF CloseCopy
    <3>2. [o EXCEPT !.have = o.have + 1] = n
      BY <1>3, <2>1
    <3> QED BY <3>1, <3>2
  <2>3. n \in Tree /\ n.have >= o.have
    BY <1>1, <1>3, <2>1 DEF Tree
  <2> QED BY <1>3, <1>6, <2>1, <2>2, <2>3 DEF CloseCopy
<1> QED BY <1>2, <1>4, <1>5, <1>6

\* What is announced is the tree in place, and no other of this run is there.
LEMMA InstalledKeeps == ASSUME IInv, Installed PROVE IInv'
<1> USE DEF IInv
<1>1. /\ pc = "put" /\ at[place].have = NFiles /\ said' = said \cup {<<place, runs>>}
      /\ Turn(todo) /\ UNCHANGED <<files, now, runs, stamp>>
  BY DEF Installed
<1>2. /\ place \in Places /\ runs \in 1..MaxRuns /\ todo \in SUBSET Places
      /\ place \notin todo
  BY <1>1, Constants DEF TypeOK, InPlace
<1>3. /\ place' \in Places /\ todo' \in SUBSET Places /\ place' \notin todo'
      /\ pc' \in {"idle", "look"}
      /\ pc' = "look" => todo' \cup {place'} \subseteq todo
  BY <1>1, <1>2, TurnTo
<1>4. TypeOK' /\ InPlace'
  BY <1>1, <1>2, <1>3 DEF TypeOK, InPlace, files
<1>5. OthersArePast'
  <2>1. \A p \in todo : at[p].by # runs
    BY <1>1, <1>2 DEF OthersArePast
  <2> QED BY <1>1, <1>3, <2>1 DEF OthersArePast, files
<1>6. SaidIsPast'
  BY <1>1, <1>2, <1>3 DEF SaidIsPast
<1>7. IsWhole(at[place])
  BY <1>1 DEF IsWhole, InPlace
<1>8. AllFine'
  <2>1. \A p \in Places : <<p, at[p].by>> \in said' => p = place \/ <<p, at[p].by>> \in said
    BY <1>1
  <2>2. ASSUME NEW p \in Places, NEW s \in Seconds
        PROVE  /\ <<p, bak[<<p, s>>].by>> \in said' => <<p, bak[<<p, s>>].by>> \in said
               /\ <<p, nested[<<p, s>>].by>> \in said' => <<p, nested[<<p, s>>].by>> \in said
    BY <1>1 DEF OthersArePast
  <2>3. \A p \in Places : <<p, at[p].by>> \in said' => IsWhole(at[p])
    BY <1>7, <2>1 DEF AllFine, Fine
  <2> QED BY <1>1, <2>2, <2>3 DEF AllFine, Fine, files
<1> QED BY <1>4, <1>5, <1>6, <1>8

LEMMA StepKeeps == IInv /\ [Next]_vars => IInv'
<1> SUFFICES ASSUME IInv, [Next]_vars PROVE IInv'
  OBVIOUS
<1>1. CASE MakeDir \/ Link \/ OpenCopy \/ CloseCopy
  BY <1>1, FillSteps, FillKeeps
<1> QED BY <1>1, MainKeeps, QuietKeeps, BackupKeeps, InstalledKeeps DEF Next

THEOREM Invariance == Spec => []IInv
BY InitIInv, StepKeeps, PTL DEF Spec

-----------------------------------------------------------------------------
(* The properties.                                                         *)

\* What the script called installed is complete, in its place or in a backup,
\* however many runs followed and wherever they ended (install.sh:78-88).
THEOREM AnnouncedIsWhole == Spec => []InstalledIsWhole
<1>1. IInv => InstalledIsWhole
  BY DEF IInv, AllFine, Fine, InstalledIsWhole, Stored
<1> QED BY <1>1, Invariance, PTL

\* The condition of NothingIsLost, for one tree of place p.
Survives(p, t) ==
  \E u \in Stored(p)' : u = t \/ (t.by = runs /\ u.by = runs /\ u.have >= t.have)

LEMMA BackupLosesNothing ==
  ASSUME TypeOK, Backup, NEW p \in Places, NEW t \in Stored(p), ~IsEmpty(t)
  PROVE  t \in Stored(p)'
<1> DEFINE b == <<place, stamp>>
<1>1. place \in Places /\ stamp \in Seconds /\ b \in Places \X Seconds
  BY DEF TypeOK
<1>2. \/ bak[b] = None /\ bak' = [bak EXCEPT ![b] = at[place]] /\ nested' = nested
      \/ /\ IsEmpty(nested[b]) /\ bak' = bak
         /\ nested' = [nested EXCEPT ![b] = at[place]]
  BY DEF Backup, Mv
<1>3. \A c \in Places \X Seconds :
        /\ bak'[c] = bak[c] \/ IsEmpty(bak[c])
        /\ nested'[c] = nested[c] \/ IsEmpty(nested[c])
  BY <1>1, <1>2, Constants DEF TypeOK
<1>4. bak'[b] = at[place] \/ nested'[b] = at[place]
  BY <1>1, <1>2 DEF TypeOK
<1>5. \A q \in Places : at'[q] = at[q] \/ q = place
  BY DEF Backup, TypeOK
<1>6. CASE t = at[p] /\ p = place
  BY <1>1, <1>4, <1>6 DEF Stored
<1>7. CASE t = at[p] /\ p # place
  BY <1>5, <1>7 DEF Stored
<1>8. CASE \E s \in Seconds : t = bak[<<p, s>>] \/ t = nested[<<p, s>>]
  BY <1>3, <1>8 DEF Stored
<1> QED BY <1>6, <1>7, <1>8 DEF Stored

LEMMA StepLosesNothing ==
  ASSUME IInv, [Next]_vars, NEW p \in Places, NEW t \in Stored(p), ~IsEmpty(t)
  PROVE  Survives(p, t)
<1>1. TypeOK
  BY DEF IInv
<1>2. CASE Backup
  BY <1>1, <1>2, BackupLosesNothing DEF Survives
<1>3. CASE MakeDir \/ Link \/ OpenCopy \/ CloseCopy
  <2>1. PICK n \in Tree :
          /\ n.by = runs
          /\ at[place] = None \/ (at[place].by = runs /\ n.have >= at[place].have)
          /\ at' = [at EXCEPT ![place] = n] /\ UNCHANGED <<bak, nested>>
    BY <1>3, FillSteps
  <2>2. at'[place] = n /\ \A q \in Places : at'[q] = at[q] \/ q = place
    BY <1>1, <2>1 DEF TypeOK
  <2>3. CASE t = at[p] /\ p = place
    BY <2>1, <2>2, <2>3, Constants DEF Survives, Stored
  <2>4. CASE t \in Stored(p)'
    BY <2>4 DEF Survives
  <2> QED BY <2>1, <2>2, <2>3, <2>4 DEF Stored
<1>4. CASE UNCHANGED files
  BY <1>4 DEF files, Stored, Survives
<1> QED
  BY <1>2, <1>3, <1>4
  DEF Next, Main, Look, Installed, Die, Tick, vars

\* Nothing that the user or an earlier run put into a place is lost or altered,
\* and nothing that this run put there is taken back (install.sh:68-87).
THEOREM NoTreeIsLost == Spec => NothingIsLost
<1>1. IInv /\ [Next]_vars =>
        [\A p \in Places : \A t \in Stored(p) :
           ~IsEmpty(t) =>
             \E u \in Stored(p)' :
               \/ u = t
               \/ t.by = runs /\ u.by = runs /\ u.have >= t.have]_vars
  BY StepLosesNothing DEF Survives
<1> QED BY <1>1, Invariance, PTL DEF Spec, NothingIsLost

=============================================================================
