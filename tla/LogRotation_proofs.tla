-------------------------- MODULE LogRotation_proofs --------------------------
(***************************************************************************)
(* Proofs about LogRotation, for every number of backups, limit, burst and *)
(* number of launches.                                                     *)
(***************************************************************************)
EXTENDS LogRotation, TLAPS, SequenceTheorems

-----------------------------------------------------------------------------
(* The inductive invariant, in parts.                                      *)

\* Every line on disk was written before the next one.
WrittenBefore == \A l \in Kept : l < next

\* What was written alone was written.
CountedAlone == alone < next

\* While a copy is under way, its source is there, its destination holds what the
\* source begins with, and the log is not empty.
CopyReady ==
  /\ pc \in {"shift", "copy"} => log # <<>>
  /\ pc = "copy" =>
       /\ index <= Len(backup) /\ index + 1 <= Len(backup)
       /\ Copied <= Len(Source)
       /\ \A k \in 1..Copied : backup[index + 1][k] = Source[k]

\* The backup that the next copy will overwrite is the last one, or has been
\* copied to the one behind it.
SavedBehind ==
  pc = "shift" /\ index + 1 < B /\ index + 1 <= Len(backup) =>
    /\ index + 2 <= Len(backup)
    /\ Lines(backup[index + 1]) \subseteq Lines(backup[index + 2])

\* What the log holds beyond the first backup is newer than all of it.
TailIsNewer ==
  pc = "truncate" =>
    /\ Len(backup) >= 1
    /\ \A l \in Lines(log) \ Lines(backup[1]) : \A k \in Lines(backup[1]) : k < l

IInv ==
  TypeOK /\ WrittenBefore /\ CountedAlone /\ CopyReady /\ SavedBehind /\ TailIsNewer

-----------------------------------------------------------------------------
(* Facts about the files.                                                  *)

\* Writing one file leaves the others.
LEMMA PutOne ==
  ASSUME TypeOK, NEW i \in 1..(Len(backup) + 1), NEW s \in Seq(1..MaxLines)
  PROVE  /\ Put(i, s) \in Seq(Seq(1..MaxLines))
         /\ Len(Put(i, s)) = IF i <= Len(backup) THEN Len(backup) ELSE i
         /\ \A j \in 1..Len(Put(i, s)) :
              Put(i, s)[j] = IF j = i THEN s ELSE backup[j]
<1> DEFINE T == Seq(1..MaxLines)
<1>0. backup \in Seq(T) /\ Len(backup) \in Nat
  BY DEF TypeOK
<1>1. CASE i <= Len(backup)
  <2>1. Put(i, s) = [backup EXCEPT ![i] = s]
    BY <1>1 DEF Put
  <2> QED BY <1>0, <1>1, <2>1, ExceptSeq
<1>2. CASE ~(i <= Len(backup))
  <2>1. Put(i, s) = Append(backup, s) /\ i = Len(backup) + 1
    BY <1>2 DEF Put
  <2> QED BY <1>0, <1>2, <2>1, AppendProperties
<1> QED BY <1>1, <1>2

LEMMA Sources ==
  ASSUME TypeOK, CopyReady, (pc = "shift" /\ Exists) \/ pc = "copy"
  PROVE  /\ Source \in Seq(1..MaxLines)
         /\ index + 1 \in 1..(Len(backup) + 1)
         /\ index + 1 <= B
         /\ Lines(Source) \subseteq Kept
<1>1. index \in Nat /\ index + 1 <= B /\ Len(backup) \in Nat
  BY RotationAssumption DEF TypeOK
<1>2. CASE index = 0
  BY <1>1, <1>2 DEF Source, TypeOK, Kept
<1>3. CASE index # 0
  <2>1. index \in 1..Len(backup)
    BY <1>1, <1>3 DEF Exists, CopyReady
  <2> QED BY <1>1, <1>3, <2>1 DEF Source, TypeOK, Kept
<1> QED BY <1>2, <1>3

\* The files when file i is replaced by s.
LEMMA PutKept ==
  ASSUME TypeOK, NEW i \in 1..(Len(backup) + 1), NEW s \in Seq(1..MaxLines),
         backup' = Put(i, s), log' = log
  PROVE  /\ Kept' \subseteq Kept \cup Lines(s)
         /\ \A l \in Kept \ Kept' : i <= Len(backup) /\ l \in Lines(backup[i])
         /\ \A j \in 1..Len(backup) : j # i => Lines(backup[j]) \subseteq Kept'
<1>1. /\ backup' \in Seq(Seq(1..MaxLines))
      /\ Len(backup') = IF i <= Len(backup) THEN Len(backup) ELSE i
      /\ \A j \in 1..Len(backup') : backup'[j] = IF j = i THEN s ELSE backup[j]
  <2>1. /\ Put(i, s) \in Seq(Seq(1..MaxLines))
        /\ Len(Put(i, s)) = IF i <= Len(backup) THEN Len(backup) ELSE i
        /\ \A j \in 1..Len(Put(i, s)) :
             Put(i, s)[j] = IF j = i THEN s ELSE backup[j]
    BY PutOne
  <2> QED BY <2>1
<1>2. DOMAIN backup = 1..Len(backup) /\ DOMAIN backup' = 1..Len(backup')
      /\ Len(backup) \in Nat
  BY <1>1 DEF TypeOK
<1>3. Kept' \subseteq Kept \cup Lines(s)
  <2> SUFFICES ASSUME NEW l \in Kept', l \notin Lines(log), l \notin Lines(s)
               PROVE  l \in Kept
    BY DEF Kept
  <2>1. PICK j \in 1..Len(backup') : l \in Lines(backup'[j])
    BY <1>2 DEF Kept
  <2>2. j # i /\ j \in 1..Len(backup) /\ backup'[j] = backup[j]
    BY <1>1, <1>2, <2>1
  <2> QED BY <1>2, <2>1, <2>2 DEF Kept
<1>4. \A j \in 1..Len(backup) : j # i => Lines(backup[j]) \subseteq Kept'
  <2> SUFFICES ASSUME NEW j \in 1..Len(backup), j # i
               PROVE  Lines(backup[j]) \subseteq Kept'
    OBVIOUS
  <2>1. j \in 1..Len(backup') /\ backup'[j] = backup[j]
    BY <1>1, <1>2
  <2> QED BY <1>2, <2>1 DEF Kept
<1>5. ASSUME NEW l \in Kept, l \notin Kept'
      PROVE  i <= Len(backup) /\ l \in Lines(backup[i])
  <2>1. l \notin Lines(log)
    BY <1>5 DEF Kept
  <2>2. PICK j \in 1..Len(backup) : l \in Lines(backup[j])
    BY <1>2, <2>1 DEF Kept
  <2>3. j = i
    BY <1>4, <1>5, <2>2
  <2> QED BY <2>2, <2>3
<1> QED BY <1>3, <1>4, <1>5

\* An appended line.
LEMMA AppendLines ==
  ASSUME NEW s \in Seq(1..MaxLines), NEW l
  PROVE  Lines(Append(s, l)) = Lines(s) \cup {l}
<1>1. /\ DOMAIN s = 1..Len(s) /\ Len(s) \in Nat
      /\ DOMAIN Append(s, l) = 1..(Len(s) + 1)
      /\ Append(s, l)[Len(s) + 1] = l
      /\ \A i \in 1..Len(s) : Append(s, l)[i] = s[i]
  OBVIOUS
<1>2. Lines(s) \cup {l} \subseteq Lines(Append(s, l))
  BY <1>1 DEF Lines
<1>3. ASSUME NEW i \in 1..(Len(s) + 1)
      PROVE  Append(s, l)[i] \in Lines(s) \cup {l}
  BY <1>1 DEF Lines
<1> QED BY <1>1, <1>2, <1>3 DEF Lines

\* What a step of a copy does to the files.
LEMMA CopyLineIs ==
  ASSUME TypeOK, CopyReady, CopyLine
  PROVE  /\ pc = "copy" /\ index + 1 \in 1..Len(backup) /\ index \in Nat
         /\ Copied \in Nat /\ Copied + 1 \in 1..Len(Source)
         /\ Source \in Seq(1..MaxLines)
         /\ Source[Copied + 1] \in 1..MaxLines
         /\ backup[index + 1] \in Seq(1..MaxLines)
         /\ backup' \in Seq(Seq(1..MaxLines)) /\ Len(backup') = Len(backup)
         /\ backup'[index + 1] = Append(backup[index + 1], Source[Copied + 1])
         /\ backup'[index + 1] \in Seq(1..MaxLines)
         /\ \A j \in 1..Len(backup) : j # index + 1 => backup'[j] = backup[j]
<1>1. pc = "copy" /\ Copied < Len(Source)
      /\ backup' = Put(index + 1, Append(backup[index + 1], Source[Copied + 1]))
  BY DEF CopyLine
<1>2. Source \in Seq(1..MaxLines) /\ index \in Nat /\ Len(backup) \in Nat
      /\ index + 1 \in 1..Len(backup)
  <2>1. Source \in Seq(1..MaxLines)
    BY <1>1, Sources
  <2> QED BY <1>1, <2>1 DEF CopyReady, TypeOK
<1>3. backup[index + 1] \in Seq(1..MaxLines)
  BY <1>2 DEF TypeOK
<1>4. Copied \in Nat
  BY <1>3 DEF Copied
<1>5. Copied + 1 \in 1..Len(Source)
  BY <1>1, <1>2, <1>4
<1>6. Source[Copied + 1] \in 1..MaxLines
  BY <1>2, <1>5, ElementOfSeq
<1> DEFINE s == Append(backup[index + 1], Source[Copied + 1])
<1>7. s \in Seq(1..MaxLines)
  BY <1>3, <1>6
<1>8. index + 1 \in 1..(Len(backup) + 1)
  BY <1>2
<1>9. /\ Put(index + 1, s) \in Seq(Seq(1..MaxLines))
      /\ Len(Put(index + 1, s)) =
           IF index + 1 <= Len(backup) THEN Len(backup) ELSE index + 1
      /\ \A j \in 1..Len(Put(index + 1, s)) :
           Put(index + 1, s)[j] = IF j = index + 1 THEN s ELSE backup[j]
  <2> HIDE DEF s
  <2> QED BY <1>7, <1>8, PutOne
<1>10. backup' = Put(index + 1, s)
  BY <1>1
<1>11. Len(backup') = Len(backup)
  BY <1>2, <1>9, <1>10
<1>12. backup'[index + 1] = s
       /\ \A j \in 1..Len(backup) : j # index + 1 => backup'[j] = backup[j]
  <2> HIDE DEF s
  <2> QED BY <1>2, <1>9, <1>10, <1>11
<1> QED BY <1>1, <1>2, <1>3, <1>4, <1>5, <1>6, <1>7, <1>9, <1>10, <1>11, <1>12

-----------------------------------------------------------------------------
(* The invariant.                                                          *)

LEMMA InitIInv == Init => IInv
<1> SUFFICES ASSUME Init PROVE IInv
  OBVIOUS
<1>1. TypeOK
  <2>1. 0 \in 0..(B - 1) /\ 1 \in 1..(MaxLines + 1) /\ Burst \in 0..Burst
        /\ 0 \in 0..MaxLines /\ 1 \in 1..MaxStarts /\ 0 <= B
    BY RotationAssumption
  <2>2. <<>> \in Seq(1..MaxLines) /\ <<>> \in Seq(Seq(1..MaxLines)) /\ Len(<<>>) = 0
    OBVIOUS
  <2> QED BY <2>1, <2>2 DEF Init, TypeOK
<1>2. WrittenBefore /\ CountedAlone /\ CopyReady /\ SavedBehind /\ TailIsNewer
  BY DEF Init, WrittenBefore, Kept, Lines, CountedAlone, CopyReady, SavedBehind,
         TailIsNewer
<1> QED BY <1>1, <1>2 DEF IInv

LEMMA WriteLineKeeps == ASSUME IInv, WriteLine PROVE IInv'
<1> USE DEF IInv
<1>1. /\ log' = Append(log, next) /\ next' = next + 1 /\ next \in 1..MaxLines
      /\ UNCHANGED <<backup, pc, index, child, orphan, starts>>
  BY RotationAssumption DEF WriteLine, TypeOK
<1>2. TypeOK' /\ CountedAlone'
  <2>1. log' \in Seq(1..MaxLines)
    BY <1>1 DEF TypeOK
  <2>2. /\ next' \in 1..(MaxLines + 1) /\ budget' \in 0..Burst
        /\ alone' \in 0..MaxLines /\ alone' < next'
    BY <1>1, RotationAssumption DEF WriteLine, TypeOK, CountedAlone
  <2> QED BY <1>1, <2>1, <2>2 DEF TypeOK, CountedAlone
<1>3. Lines(log') = Lines(log) \cup {next}
  BY <1>1, AppendLines DEF TypeOK
<1>4. Kept' = Kept \cup {next}
  BY <1>1, <1>3 DEF Kept
<1>5. Kept \subseteq 1..MaxLines
  <2>1. \A i \in DOMAIN backup : backup[i] \in Seq(1..MaxLines)
    BY DEF TypeOK
  <2>2. ASSUME NEW f \in Seq(1..MaxLines) PROVE Lines(f) \subseteq 1..MaxLines
    <3>1. ASSUME NEW i \in DOMAIN f PROVE f[i] \in 1..MaxLines
      <4>1. i \in 1..Len(f)
        OBVIOUS
      <4> QED BY <4>1, ElementOfSeq
    <3> QED BY <3>1 DEF Lines
  <2> QED BY <2>1, <2>2 DEF Kept, TypeOK
<1>6. WrittenBefore'
  <2> SUFFICES ASSUME NEW l \in Kept' PROVE l < next + 1
    BY <1>1 DEF WrittenBefore
  <2>1. CASE l = next
    BY <2>1, <1>1
  <2>2. CASE l \in Kept
    BY <2>2, <1>1, <1>5 DEF WrittenBefore
  <2> QED BY <2>1, <2>2, <1>4
<1>7. CopyReady' /\ SavedBehind'
  <2>1. SavedBehind' /\ log' # <<>>
    <3>1. log' # <<>>
      BY <1>1, AppendProperties, EmptySeq DEF TypeOK
    <3> QED BY <1>1, <3>1 DEF SavedBehind
  <2>2. CASE pc = "copy"
    <3>1. Len(log) \in Nat /\ Len(log') = Len(log) + 1
          /\ \A k \in 1..Len(log) : log'[k] = log[k]
      BY <1>1 DEF TypeOK
    <3>2. /\ index \in Nat /\ index + 1 \in 1..Len(backup)
          /\ index <= Len(backup) /\ Len(backup) \in Nat
      BY <2>2 DEF CopyReady, TypeOK
    <3>3. backup[index + 1] \in Seq(1..MaxLines)
      BY <3>2 DEF TypeOK
    <3>4. Copied \in Nat /\ Copied' = Copied
      BY <1>1, <3>3 DEF Copied
    <3>5. Copied' <= Len(Source') /\ \A k \in 1..Copied : Source'[k] = Source[k]
      <4>1. CASE index = 0
        <5>1. Source = log /\ Source' = log'
          BY <1>1, <4>1 DEF Source
        <5>2. Copied <= Len(log)
          BY <2>2, <5>1 DEF CopyReady
        <5> QED BY <3>1, <3>4, <5>1, <5>2
      <4>2. CASE index # 0
        <5>1. Source' = Source
          BY <1>1, <4>2 DEF Source
        <5> QED BY <2>2, <3>4, <5>1 DEF CopyReady
      <4> QED BY <4>1, <4>2
    <3> QED BY <1>1, <2>1, <2>2, <3>2, <3>4, <3>5 DEF CopyReady
  <2>3. CASE pc # "copy"
    BY <1>1, <2>1, <2>3 DEF CopyReady
  <2> QED BY <2>1, <2>2, <2>3
<1>8. TailIsNewer'
  <2> SUFFICES ASSUME pc = "truncate", NEW k \in Lines(backup[1]),
                      NEW l \in Lines(log') \ Lines(backup[1])
               PROVE  k < l
    BY <1>1 DEF TailIsNewer
  <2>1. k \in Kept
    BY DEF TailIsNewer, Kept, TypeOK
  <2>2. CASE l = next
    BY <2>1, <2>2 DEF WrittenBefore
  <2>3. CASE l \in Lines(log)
    BY <2>3 DEF TailIsNewer
  <2> QED BY <1>3, <2>2, <2>3
<1> QED BY <1>2, <1>6, <1>7, <1>8

LEMMA LookKeeps == ASSUME IInv, Look PROVE IInv'
<1> USE DEF IInv, files
<1>1. TypeOK'
  <2>1. B - 1 \in 0..(B - 1) /\ Burst \in 0..Burst
    BY RotationAssumption
  <2> QED BY <2>1 DEF Look, TypeOK
<1>2. WrittenBefore' /\ CountedAlone' /\ TailIsNewer'
  BY DEF Look, WrittenBefore, Kept, CountedAlone, TailIsNewer
<1>3. CopyReady' /\ SavedBehind'
  <2>1. pc' = "shift" => index' + 1 = B /\ log # <<>>
    BY RotationAssumption DEF Look, TypeOK
  <2>2. pc' # "copy"
    BY DEF Look
  <2> QED BY <2>1, <2>2, RotationAssumption DEF Look, CopyReady, SavedBehind
<1> QED BY <1>1, <1>2, <1>3

LEMMA SkipKeeps == ASSUME IInv, Skip PROVE IInv'
<1> USE DEF IInv
<1>1. index \in Nat /\ index # 0 /\ index > Len(backup) /\ Len(backup) \in Nat
  BY RotationAssumption DEF Skip, Exists, CopyReady, TypeOK
<1>2. pc' = "shift" /\ index' = index - 1
  BY <1>1 DEF Skip, Onward
<1>3. TypeOK'
  BY <1>1, <1>2, RotationAssumption DEF Skip, clock, files, TypeOK
<1>4. WrittenBefore' /\ CountedAlone' /\ TailIsNewer' /\ CopyReady'
  BY <1>2 DEF Skip, clock, files, WrittenBefore, Kept, CountedAlone, TailIsNewer,
              CopyReady
<1>5. SavedBehind'
  BY <1>1, <1>2 DEF Skip, clock, files, SavedBehind
<1> QED BY <1>3, <1>4, <1>5

LEMMA OpenCopyKeeps == ASSUME IInv, OpenCopy PROVE IInv'
<1> USE DEF IInv
<1>1. /\ index + 1 \in 1..(Len(backup) + 1) /\ index + 1 <= B
      /\ <<>> \in Seq(1..MaxLines)
  BY Sources DEF OpenCopy
<1>2. /\ backup' = Put(index + 1, <<>>) /\ pc' = "copy"
      /\ UNCHANGED <<log, index, child, orphan, clock>>
  BY DEF OpenCopy
<1>3. backup \in Seq(Seq(1..MaxLines)) /\ Len(backup) \in Nat /\ index \in Nat
  BY DEF TypeOK
<1>4. /\ backup' \in Seq(Seq(1..MaxLines))
      /\ Len(backup') = IF index + 1 <= Len(backup) THEN Len(backup) ELSE index + 1
      /\ backup'[index + 1] = <<>>
      /\ index \in 1..Len(backup) => backup'[index] = backup[index]
  <2>1. /\ Put(index + 1, <<>>) \in Seq(Seq(1..MaxLines))
        /\ Len(Put(index + 1, <<>>)) =
             IF index + 1 <= Len(backup) THEN Len(backup) ELSE index + 1
        /\ \A j \in 1..Len(Put(index + 1, <<>>)) :
             Put(index + 1, <<>>)[j] = IF j = index + 1 THEN <<>> ELSE backup[j]
    BY <1>1, <1>3, PutOne
  <2>2. index + 1 \in 1..Len(Put(index + 1, <<>>))
    BY <1>1, <1>3, <2>1
  <2>3. index \in 1..Len(backup) => index \in 1..Len(backup')
                                   /\ index # index + 1
    BY <1>1, <1>2, <1>3, <2>1
  <2> QED BY <1>2, <2>1, <2>2, <2>3
<1>5. TypeOK' /\ CountedAlone'
  BY <1>1, <1>2, <1>3, <1>4 DEF TypeOK, clock, CountedAlone
<1>6. Kept' \subseteq Kept
  <2>1. Kept' \subseteq Kept \cup Lines(<<>>)
    BY <1>1, <1>2, PutKept
  <2> QED BY <2>1 DEF Lines
<1>7. WrittenBefore'
  BY <1>2, <1>6 DEF WrittenBefore, clock
<1>8. CopyReady'
  <2>1. Copied' = 0 /\ 1..Copied' = {}
    BY <1>2, <1>4 DEF Copied
  <2>2. index <= Len(backup') /\ index + 1 <= Len(backup') /\ log # <<>>
    BY <1>1, <1>3, <1>4 DEF CopyReady, OpenCopy
  <2>3. Source' \in Seq(1..MaxLines)
    <3>1. CASE index = 0
      BY <1>2, <3>1 DEF Source, TypeOK
    <3>2. CASE index # 0
      <4>1. index \in 1..Len(backup')
        BY <1>3, <2>2, <3>2
      <4>2. backup'[index] \in Seq(1..MaxLines)
        BY <1>4, <4>1
      <4> QED BY <1>2, <3>2, <4>2 DEF Source
    <3> QED BY <3>1, <3>2
  <2> QED BY <1>2, <2>1, <2>2, <2>3 DEF CopyReady
<1>9. SavedBehind' /\ TailIsNewer'
  BY <1>2 DEF SavedBehind, TailIsNewer
<1> QED BY <1>5, <1>7, <1>8, <1>9

LEMMA CopyLineKeeps == ASSUME IInv, CopyLine PROVE IInv'
<1> USE DEF IInv
<1>1. /\ pc = "copy" /\ index + 1 \in 1..Len(backup) /\ index \in Nat
      /\ Copied \in Nat /\ Copied + 1 \in 1..Len(Source)
      /\ Source \in Seq(1..MaxLines)
      /\ Source[Copied + 1] \in 1..MaxLines
      /\ backup[index + 1] \in Seq(1..MaxLines)
      /\ backup' \in Seq(Seq(1..MaxLines)) /\ Len(backup') = Len(backup)
      /\ backup'[index + 1] = Append(backup[index + 1], Source[Copied + 1])
      /\ backup'[index + 1] \in Seq(1..MaxLines)
      /\ \A j \in 1..Len(backup) : j # index + 1 => backup'[j] = backup[j]
  BY CopyLineIs
<1>2. UNCHANGED <<log, pc, index, child, orphan, clock>> /\ Len(backup) \in Nat
  BY DEF CopyLine, TypeOK
<1>3. TypeOK' /\ CountedAlone'
  BY <1>1, <1>2 DEF TypeOK, clock, CountedAlone
<1>4. Lines(backup'[index + 1]) = Lines(backup[index + 1]) \cup {Source[Copied + 1]}
  BY <1>1, AppendLines
<1>5. Source[Copied + 1] \in Kept
  <2>1. Lines(Source) \subseteq Kept
    BY <1>1, Sources
  <2>2. Source[Copied + 1] \in Lines(Source)
    BY <1>1 DEF Lines
  <2> QED BY <2>1, <2>2
<1>6. WrittenBefore'
  <2>1. Kept' \subseteq Kept
    <3> SUFFICES ASSUME NEW l \in Kept', l \notin Lines(log) PROVE l \in Kept
      BY DEF Kept
    <3>0. /\ DOMAIN backup = 1..Len(backup) /\ DOMAIN backup' = 1..Len(backup)
          /\ log' = log
      BY <1>1, <1>2 DEF TypeOK
    <3>1. PICK j \in 1..Len(backup) : l \in Lines(backup'[j])
      BY <3>0 DEF Kept
    <3>2. CASE j = index + 1
      BY <1>1, <1>4, <1>5, <3>0, <3>1, <3>2 DEF Kept
    <3>3. CASE j # index + 1
      <4>1. l \in Lines(backup[j]) /\ j \in DOMAIN backup
        BY <1>1, <1>2, <3>1, <3>3 DEF TypeOK
      <4> QED BY <4>1 DEF Kept
    <3> QED BY <3>2, <3>3
  <2> QED BY <1>2, <2>1 DEF WrittenBefore, clock
<1>7. CopyReady'
  <2>1. Source' = Source
    <3>1. CASE index = 0
      BY <1>2, <3>1 DEF Source
    <3>2. CASE index # 0
      <4>1. index \in 1..Len(backup) /\ index # index + 1
        BY <1>1, <1>2, <3>2
      <4> QED BY <1>1, <1>2, <3>2, <4>1 DEF Source
    <3> QED BY <3>1, <3>2
  <2>2. Copied' = Copied + 1
    <3>1. Len(Append(backup[index + 1], Source[Copied + 1])) = Len(backup[index + 1]) + 1
      BY <1>1
    <3> QED BY <1>1, <1>2, <3>1 DEF Copied
  <2>3. ASSUME NEW k \in 1..(Copied + 1)
        PROVE  backup'[index + 1][k] = Source[k]
    <3>1. CASE k = Copied + 1
      BY <1>1, <3>1 DEF Copied
    <3>2. CASE k # Copied + 1
      <4>1. k \in 1..Copied
        BY <1>1, <3>2
      <4>2. backup[index + 1][k] = Source[k]
        BY <1>1, <4>1 DEF CopyReady
      <4>3. k \in 1..Len(backup[index + 1])
        BY <4>1 DEF Copied
      <4> QED BY <1>1, <4>2, <4>3
    <3> QED BY <3>1, <3>2
  <2>4. log # <<>> /\ index <= Len(backup) /\ index + 1 <= Len(backup)
    BY <1>1 DEF CopyReady
  <2>5. Copied + 1 <= Len(Source)
    BY <1>1
  <2> QED BY <1>1, <1>2, <2>1, <2>2, <2>3, <2>4, <2>5 DEF CopyReady
<1>8. SavedBehind' /\ TailIsNewer'
  BY <1>1, <1>2 DEF SavedBehind, TailIsNewer
<1> QED BY <1>3, <1>6, <1>7, <1>8

LEMMA EndCopyKeeps == ASSUME IInv, EndCopy PROVE IInv'
<1> USE DEF IInv
<1>1. /\ pc = "copy" /\ UNCHANGED <<log, backup, child, orphan, clock>>
      /\ Copied >= Len(Source)
  BY DEF EndCopy, files
<1>2. /\ Source \in Seq(1..MaxLines) /\ index \in Nat
      /\ index + 1 \in 1..Len(backup) /\ Len(backup) \in Nat
  <2>1. Source \in Seq(1..MaxLines)
    BY <1>1, Sources
  <2> QED BY <1>1, <2>1 DEF CopyReady, TypeOK
<1>3. IF index = 0 THEN pc' = "truncate" /\ index' = index
      ELSE pc' = "shift" /\ index' = index - 1
  BY DEF EndCopy, Onward
<1>4. TypeOK' /\ CountedAlone'
  <2>1. index' \in 0..(B - 1) /\ pc' \in {"shift", "truncate"}
    BY <1>2, <1>3, RotationAssumption DEF TypeOK
  <2> QED BY <1>1, <2>1 DEF TypeOK, clock, CountedAlone
<1>5. WrittenBefore'
  BY <1>1 DEF WrittenBefore, Kept, clock
<1>6. CopyReady'
  BY <1>1, <1>3 DEF CopyReady
\* The destination holds all of its source.
<1>7. Lines(Source) \subseteq Lines(backup[index + 1])
  <2> SUFFICES ASSUME NEW k \in 1..Len(Source)
               PROVE  Source[k] \in Lines(backup[index + 1])
    BY <1>2 DEF Lines
  <2>1. backup[index + 1] \in Seq(1..MaxLines)
    BY <1>2 DEF TypeOK
  <2>2. Copied = Len(Source) /\ Copied = Len(backup[index + 1])
    BY <1>1, <1>2, <2>1 DEF CopyReady, Copied
  <2>3. backup[index + 1][k] = Source[k]
    BY <1>1, <2>2 DEF CopyReady
  <2>4. k \in DOMAIN backup[index + 1]
    BY <2>1, <2>2
  <2> QED BY <2>3, <2>4 DEF Lines
<1>8. SavedBehind'
  <2> SUFFICES ASSUME index # 0
               PROVE  /\ index + 1 <= Len(backup)
                      /\ Lines(backup[index]) \subseteq Lines(backup[index + 1])
    BY <1>1, <1>2, <1>3 DEF SavedBehind
  <2> QED BY <1>2, <1>7 DEF Source
<1>9. TailIsNewer'
  <2> SUFFICES ASSUME index = 0
               PROVE  Len(backup) >= 1 /\ Lines(log) \subseteq Lines(backup[1])
    BY <1>1, <1>3 DEF TailIsNewer
  <2> QED BY <1>2, <1>7 DEF Source
<1> QED BY <1>4, <1>5, <1>6, <1>8, <1>9

LEMMA TruncateKeeps == ASSUME IInv, Truncate PROVE IInv'
<1> USE DEF IInv
<1>1. TypeOK' /\ CountedAlone'
  BY DEF Truncate, clock, TypeOK, CountedAlone
<1>2. Kept' \subseteq Kept
  BY DEF Truncate, Kept, Lines
<1>3. WrittenBefore'
  BY <1>2 DEF Truncate, clock, WrittenBefore
<1>4. CopyReady' /\ SavedBehind' /\ TailIsNewer'
  BY DEF Truncate, CopyReady, SavedBehind, TailIsNewer
<1> QED BY <1>1, <1>3, <1>4

LEMMA ChildEndsKeeps == ASSUME IInv, ChildEnds PROVE IInv'
<1> USE DEF IInv, ChildEnds, files, clock
<1>1. TypeOK' /\ CountedAlone'
  BY DEF TypeOK, CountedAlone
<1>2. WrittenBefore' /\ SavedBehind' /\ TailIsNewer'
  BY DEF WrittenBefore, Kept, SavedBehind, TailIsNewer
<1>3. CopyReady'
  BY DEF CopyReady, Copied, Source
<1> QED BY <1>1, <1>2, <1>3

LEMMA EndsKeep == ASSUME IInv, Stop \/ Crash \/ Start PROVE IInv'
<1> USE DEF IInv, files, clock
<1>1. TypeOK' /\ CountedAlone'
  <2>1. CASE Stop \/ Crash
    BY <2>1 DEF Stop, Crash, TypeOK, CountedAlone
  <2>2. CASE Start
    <3>1. starts + 1 \in 1..MaxStarts /\ Burst \in 0..Burst
      BY <2>2, RotationAssumption DEF Start, TypeOK
    <3> QED BY <2>2, <3>1 DEF Start, TypeOK, CountedAlone
  <2> QED BY <2>1, <2>2
<1>2. WrittenBefore'
  BY DEF Stop, Crash, Start, WrittenBefore, Kept
<1>3. CopyReady' /\ SavedBehind' /\ TailIsNewer'
  <2>1. pc' \in {"down", "watch"}
    BY DEF Stop, Crash, Start
  <2> QED BY <2>1 DEF CopyReady, SavedBehind, TailIsNewer
<1> QED BY <1>1, <1>2, <1>3

LEMMA StepKeeps == IInv /\ [Next]_vars => IInv'
<1> SUFFICES ASSUME IInv, [Next]_vars PROVE IInv'
  OBVIOUS
<1>1. CASE UNCHANGED vars
  <2>1. UNCHANGED <<log, backup, pc, index, child, orphan, next, budget, alone, starts>>
    BY <1>1 DEF vars, files, clock
  <2> QED BY <2>1 DEF IInv, TypeOK, WrittenBefore, Kept, CountedAlone, CopyReady, Copied,
                      Source, SavedBehind, TailIsNewer
<1>2. CASE Next
  BY <1>2, WriteLineKeeps, LookKeeps, SkipKeeps, OpenCopyKeeps, CopyLineKeeps,
     EndCopyKeeps, TruncateKeeps, ChildEndsKeeps, EndsKeep DEF Next
<1> QED BY <1>1, <1>2

-----------------------------------------------------------------------------
(* The properties.                                                         *)

THEOREM Invariance == Spec => []IInv
  BY InitIInv, StepKeeps, PTL DEF Spec

\* Type correctness; there are never more backups than asked for.
THEOREM Typing == Spec => []TypeOK
<1>1. IInv => TypeOK
  BY DEF IInv
<1> QED BY <1>1, Invariance, PTL

LEMMA OpenCopyLoses ==
  ASSUME IInv, OpenCopy, NEW l \in Kept \ Kept'
  PROVE  Len(backup) = B /\ l \in Lines(backup[B])
<1> USE DEF IInv
<1>1. /\ index + 1 \in 1..(Len(backup) + 1) /\ index + 1 <= B /\ index \in Nat
      /\ Len(backup) \in Nat /\ Len(backup) <= B /\ <<>> \in Seq(1..MaxLines)
  BY Sources DEF OpenCopy, TypeOK
<1>2. pc = "shift" /\ backup' = Put(index + 1, <<>>) /\ log' = log
  BY DEF OpenCopy
<1>3. index + 1 <= Len(backup) /\ l \in Lines(backup[index + 1])
  BY <1>1, <1>2, PutKept
<1>4. ASSUME index + 1 < B PROVE FALSE
  <2>1. /\ index + 2 \in 1..Len(backup)
        /\ l \in Lines(backup[index + 2])
    BY <1>1, <1>2, <1>3, <1>4 DEF SavedBehind
  <2>2. index + 2 # index + 1
    BY <1>1
  <2>3. Lines(backup[index + 2]) \subseteq Kept'
    BY <1>1, <1>2, <2>1, <2>2, PutKept
  <2> QED BY <2>1, <2>3
<1>5. index + 1 = B
  BY <1>1, <1>4, RotationAssumption
<1> QED BY <1>1, <1>3, <1>5

\* Lines are lost at the old end, and in the gap between copy and truncation,
\* and nowhere else, wherever a crash falls.
THEOREM LossIsAtTheEnds == Spec => OnlyOldestLost
<1> DEFINE Loss(l) ==
      \/ Len(backup) = B /\ l \in Lines(backup[B])
      \/ pc = "truncate" /\ \A k \in Lines(backup[1]) : k < l
<1>1. IInv /\ [Next]_vars => [\A l \in Kept \ Kept' : Loss(l)]_vars
  <2> SUFFICES ASSUME IInv, Next, NEW l \in Kept \ Kept' PROVE Loss(l)
    OBVIOUS
  <2>1. CASE WriteLine
    <3>1. Lines(log') = Lines(log) \cup {next}
      BY <2>1, AppendLines DEF IInv, TypeOK, WriteLine
    <3> QED BY <2>1, <3>1 DEF WriteLine, Kept
  <2>2. CASE Look \/ Skip \/ EndCopy \/ ChildEnds \/ Stop \/ Crash \/ Start
    BY <2>2 DEF Look, Skip, EndCopy, ChildEnds, Stop, Crash, Start, files, Kept
  <2>3. CASE OpenCopy
    BY <2>3, OpenCopyLoses
  <2>4. CASE CopyLine
    <3>1. /\ index + 1 \in 1..Len(backup)
          /\ backup[index + 1] \in Seq(1..MaxLines)
          /\ Len(backup') = Len(backup) /\ backup' \in Seq(Seq(1..MaxLines))
          /\ backup'[index + 1] = Append(backup[index + 1], Source[Copied + 1])
          /\ \A j \in 1..Len(backup) : j # index + 1 => backup'[j] = backup[j]
      BY <2>4, CopyLineIs DEF IInv
    <3>2. Lines(backup[index + 1]) \subseteq Lines(backup'[index + 1])
      BY <3>1, AppendLines
    <3>3. ASSUME NEW j \in 1..Len(backup)
          PROVE  Lines(backup[j]) \subseteq Lines(backup'[j])
      BY <3>1, <3>2
    <3>4. /\ DOMAIN backup = 1..Len(backup) /\ DOMAIN backup' = 1..Len(backup)
          /\ log' = log
      BY <2>4, <3>1 DEF CopyLine, IInv, TypeOK
    <3> QED BY <3>3, <3>4 DEF Kept
  <2>5. CASE Truncate
    <3>1. pc = "truncate" /\ backup' = backup /\ Len(backup) >= 1
      BY <2>5 DEF Truncate, IInv, TailIsNewer
    <3>2. DOMAIN backup = 1..Len(backup) /\ Len(backup) \in Nat
      BY DEF IInv, TypeOK
    <3>3. l \notin Lines(backup[1]) /\ l \in Lines(log)
      BY <3>1, <3>2 DEF Kept
    <3> QED BY <3>1, <3>3 DEF IInv, TailIsNewer
  <2> QED BY <2>1, <2>2, <2>3, <2>4, <2>5 DEF Next
<1> QED BY <1>1, Invariance, PTL DEF Spec, OnlyOldestLost

-----------------------------------------------------------------------------
(* Size.                                                                   *)

\* What a file may hold of what was written beside n supervisors.
Room(n) == Max + 2 * Burst * n

\* A supervisor that watches is a burst short of what it may leave behind; nothing
\* but its own burst is written until it looks again.
SizeInv ==
  /\ pc = "watch" => Len(log) + budget + Burst <= Room(starts) + alone
  /\ Len(log) + (IF pc = "down" THEN 0 ELSE budget) <= Room(starts) + alone
  /\ \A i \in DOMAIN backup : Len(backup[i]) <= Room(starts) + alone

LEMMA RoomGrows ==
  ASSUME NEW n \in Nat
  PROVE  /\ Room(n) \in Nat /\ Room(n + 1) = Room(n) + 2 * Burst
         /\ n > 0 => Room(n) >= Max + 2 * Burst
<1> DEFINE D == 2 * Burst
<1>1. D \in Nat /\ Max \in Nat
  BY RotationAssumption
<1> HIDE DEF D
<1>2. D * (n + 1) = D * n + D /\ D * n \in Nat
  BY <1>1
<1>3. ASSUME n > 0 PROVE D * n >= D
  <2>1. n - 1 \in Nat
    BY <1>3
  <2>2. D * (n - 1) \in Nat /\ D * n = D * (n - 1) + D
    BY <1>1, <2>1
  <2> QED BY <1>1, <2>2
<1>4. Room(n) = Max + D * n /\ Room(n + 1) = Max + D * (n + 1)
  BY DEF Room, D
<1>5. Room(n) \in Nat /\ Room(n + 1) = Room(n) + D
  BY <1>1, <1>2, <1>4
<1>6. n > 0 => Room(n) >= Max + D
  BY <1>1, <1>2, <1>3, <1>4
<1> QED BY <1>5, <1>6 DEF D

LEMMA StepSize == TypeOK /\ CopyReady /\ SizeInv /\ [Next]_vars => SizeInv'
<1> SUFFICES ASSUME TypeOK, CopyReady, SizeInv, [Next]_vars PROVE SizeInv'
  OBVIOUS
<1>1. /\ starts \in Nat /\ starts > 0 /\ alone \in Nat
      /\ budget \in 0..Burst /\ Burst \in Nat /\ Max \in Nat
      /\ Len(log) \in Nat /\ log \in Seq(1..MaxLines)
  BY RotationAssumption DEF TypeOK
<1>2. /\ Room(starts) \in Nat /\ Room(starts + 1) = Room(starts) + 2 * Burst
      /\ Room(starts) >= Max + 2 * Burst
  BY <1>1, RoomGrows
<1>3. ASSUME NEW i \in DOMAIN backup
      PROVE  Len(backup[i]) \in Nat /\ Len(backup[i]) <= Room(starts) + alone
  BY <1>3 DEF SizeInv, TypeOK
<1>4. CASE WriteLine
  <2>1. Len(log') = Len(log) + 1 /\ UNCHANGED <<backup, pc, starts>>
    BY <1>1, <1>4 DEF WriteLine
  <2>2. CASE pc = "down"
    <3>1. alone' = alone + 1
      BY <1>4, <2>2 DEF WriteLine
    <3>2. Len(log') <= Room(starts') + alone'
      BY <1>1, <1>2, <2>1, <2>2, <3>1 DEF SizeInv
    <3>3. \A i \in DOMAIN backup' : Len(backup'[i]) <= Room(starts') + alone'
      BY <1>1, <1>2, <1>3, <2>1, <3>1
    <3> QED BY <1>1, <2>1, <2>2, <3>2, <3>3 DEF SizeInv
  <2>3. CASE pc # "down"
    <3>1. alone' = alone /\ budget' = budget - 1
      BY <1>4, <2>3 DEF WriteLine
    <3> QED BY <1>1, <1>2, <2>1, <2>3, <3>1 DEF SizeInv
  <2> QED BY <2>2, <2>3
<1>5. CASE Look
  <2>1. /\ budget' = Burst /\ UNCHANGED <<log, backup, alone, starts>> /\ pc = "watch"
        /\ pc' = IF Len(log) > Max THEN "shift" ELSE "watch"
    BY <1>5 DEF Look, files
  <2>2. Len(log) + Burst <= Room(starts) + alone
    BY <1>1, <1>2, <2>1 DEF SizeInv
  <2>3. Len(log) <= Max => Len(log) + Burst + Burst <= Room(starts) + alone
    BY <1>1, <1>2
  <2> QED BY <1>1, <1>3, <2>1, <2>2, <2>3 DEF SizeInv
<1>6. CASE Skip \/ EndCopy
  <2>1. /\ UNCHANGED <<log, backup, budget, alone, starts>>
        /\ pc # "down" /\ pc' \in {"shift", "truncate"}
    BY <1>6 DEF Skip, EndCopy, Onward, files, clock
  <2> QED BY <2>1 DEF SizeInv
<1>7. CASE OpenCopy \/ CopyLine
  <2>1. /\ UNCHANGED <<log, budget, alone, starts>> /\ pc # "down" /\ pc' = "copy"
    BY <1>7 DEF OpenCopy, CopyLine, clock
  <2>2. \A i \in DOMAIN backup' : Len(backup'[i]) <= Room(starts) + alone
    <3>1. CASE OpenCopy
      <4>1. /\ index + 1 \in 1..(Len(backup) + 1) /\ backup' = Put(index + 1, <<>>)
            /\ <<>> \in Seq(1..MaxLines)
        BY <3>1, Sources DEF OpenCopy
      <4>2. /\ backup' \in Seq(Seq(1..MaxLines))
            /\ Len(backup') = IF index + 1 <= Len(backup) THEN Len(backup) ELSE index + 1
            /\ \A j \in 1..Len(backup') :
                 backup'[j] = IF j = index + 1 THEN <<>> ELSE backup[j]
        BY <4>1, PutOne
      <4>3. /\ DOMAIN backup' = 1..Len(backup') /\ DOMAIN backup = 1..Len(backup)
            /\ Len(backup) \in Nat
        BY <4>2 DEF TypeOK
      <4>4. ASSUME NEW i \in 1..Len(backup')
            PROVE  Len(backup'[i]) <= Room(starts) + alone
        <5>1. CASE i = index + 1
          BY <1>1, <1>2, <4>2, <5>1
        <5>2. CASE i # index + 1
          <6>1. i \in 1..Len(backup) /\ backup'[i] = backup[i]
            BY <4>1, <4>2, <4>3, <5>2
          <6> QED BY <1>3, <4>3, <6>1
        <5> QED BY <5>1, <5>2
      <4> QED BY <4>3, <4>4
    <3>2. CASE CopyLine
      <4>1. /\ index + 1 \in 1..Len(backup) /\ index \in Nat
            /\ Copied \in Nat /\ Copied + 1 \in 1..Len(Source)
            /\ Source \in Seq(1..MaxLines)
            /\ backup[index + 1] \in Seq(1..MaxLines)
            /\ backup' \in Seq(Seq(1..MaxLines)) /\ Len(backup') = Len(backup)
            /\ backup'[index + 1] = Append(backup[index + 1], Source[Copied + 1])
            /\ \A j \in 1..Len(backup) : j # index + 1 => backup'[j] = backup[j]
        BY <3>2, CopyLineIs
      <4>2. DOMAIN backup = 1..Len(backup) /\ DOMAIN backup' = 1..Len(backup)
        BY <4>1 DEF TypeOK
      <4>3. Len(Source) <= Room(starts) + alone
        <5>1. CASE index = 0
          BY <1>1, <1>2, <2>1, <5>1 DEF SizeInv, Source
        <5>2. CASE index # 0
          <6>1. index \in DOMAIN backup
            BY <4>1, <4>2, <5>2
          <6> QED BY <1>3, <5>2, <6>1 DEF Source
        <5> QED BY <5>1, <5>2
      <4>4. Len(backup'[index + 1]) = Copied + 1
        BY <4>1 DEF Copied
      <4>5. Len(backup'[index + 1]) <= Room(starts) + alone
        <5>1. Len(Source) \in Nat
          BY <4>1
        <5> QED BY <1>1, <1>2, <4>1, <4>3, <4>4, <5>1
      <4> QED BY <1>3, <4>1, <4>2, <4>5
    <3> QED BY <1>7, <3>1, <3>2
  <2> QED BY <2>1, <2>2 DEF SizeInv
<1>8. CASE Truncate
  <2>1. Len(log') = 0 /\ UNCHANGED <<backup, budget, alone, starts>> /\ pc' = "watch"
    BY <1>8 DEF Truncate, clock
  <2> QED BY <1>1, <1>2, <1>3, <2>1 DEF SizeInv
<1>9. CASE ChildEnds
  <2>1. UNCHANGED <<log, backup, pc, budget, alone, starts>>
    BY <1>9 DEF ChildEnds, files, clock
  <2> QED BY <2>1 DEF SizeInv
<1>10. CASE Stop \/ Crash
  <2>1. UNCHANGED <<log, backup, budget, alone, starts>> /\ pc # "down" /\ pc' = "down"
    BY <1>10 DEF Stop, Crash, files, clock
  <2> QED BY <1>1, <1>2, <2>1 DEF SizeInv
<1>11. CASE Start
  <2>1. /\ UNCHANGED <<log, backup, alone>> /\ pc = "down" /\ pc' = "watch"
        /\ starts' = starts + 1 /\ budget' = Burst
    BY <1>11 DEF Start, files
  <2>2. Len(log) <= Room(starts) + alone
    BY <1>1, <2>1 DEF SizeInv
  <2> QED BY <1>1, <1>2, <1>3, <2>1, <2>2 DEF SizeInv
<1>12. CASE UNCHANGED vars
  BY <1>12 DEF SizeInv, vars, files, clock
<1> QED BY <1>4, <1>5, <1>6, <1>7, <1>8, <1>9, <1>10, <1>11, <1>12 DEF Next

\* No file grows beyond the limit by more than two bursts for each supervisor that
\* was launched, and what a child wrote while there was none.
THEOREM SizeIsBounded == Spec => []Bounded
<1>1. Init => SizeInv
  <2> SUFFICES ASSUME Init PROVE SizeInv
    OBVIOUS
  <2>1. Room(1) \in Nat /\ Room(1) >= Max + 2 * Burst
    BY RoomGrows
  <2> QED BY <2>1, RotationAssumption DEF Init, SizeInv
<1>2. IInv => TypeOK /\ CopyReady
  BY DEF IInv
<1>3. TypeOK /\ SizeInv => Bounded
  <2> SUFFICES ASSUME TypeOK, SizeInv PROVE Bounded
    OBVIOUS
  <2>1. /\ starts \in Nat /\ alone \in Nat /\ budget \in Nat /\ Len(log) \in Nat
    BY RotationAssumption DEF TypeOK
  <2>2. Room(starts) \in Nat
    BY <2>1, RoomGrows
  <2>3. Len(log) <= Room(starts) + alone
    BY <2>1, <2>2 DEF SizeInv
  <2>4. \A i \in DOMAIN backup : Len(backup[i]) <= Room(starts) + alone
    BY DEF SizeInv
  <2> QED BY <2>3, <2>4 DEF Bounded, Room
<1> QED BY <1>1, <1>2, <1>3, StepSize, Invariance, PTL DEF Spec

-----------------------------------------------------------------------------
(* Unbroken runs, in order.                                                *)

IsRun(f) == \A k \in 1..Len(f) : f[k] = f[1] + (k - 1)

\* File g begins no later than file f.
NoLater(g, f) == f # <<>> /\ g # <<>> => g[1] <= f[1]

\* Every file is a run, the later ones begin no later, and the log ends with the
\* line written last, so that the child goes on with the run.
RunsInv ==
  /\ IsRun(log)
  /\ \A i \in 1..Len(backup) : IsRun(backup[i]) /\ NoLater(backup[i], log)
  /\ \A i, j \in 1..Len(backup) : i < j => NoLater(backup[j], backup[i])
  /\ log # <<>> => log[Len(log)] = next - 1

\* Only the backups change, and one of them becomes s.
LEMMA PutRuns ==
  ASSUME TypeOK, RunsInv, NEW i \in 1..(Len(backup) + 1), NEW s \in Seq(1..MaxLines),
         IsRun(s), NoLater(s, log),
         \A j \in 1..Len(backup) : j < i => NoLater(s, backup[j]),
         \A j \in 1..Len(backup) : i < j => NoLater(backup[j], s),
         backup' = Put(i, s), UNCHANGED <<log, next>>
  PROVE  RunsInv'
<1>1. /\ Len(backup') = IF i <= Len(backup) THEN Len(backup) ELSE i
      /\ \A j \in 1..Len(backup') : backup'[j] = IF j = i THEN s ELSE backup[j]
  BY PutOne
<1>2. Len(backup) \in Nat
  BY DEF TypeOK
<1>3. \A j \in 1..Len(backup') : j = i \/ j \in 1..Len(backup)
  BY <1>1, <1>2
<1>4. ASSUME NEW j \in 1..Len(backup')
      PROVE  IsRun(backup'[j]) /\ NoLater(backup'[j], log)
  BY <1>1, <1>3, <1>4 DEF RunsInv
<1>5. ASSUME NEW j \in 1..Len(backup'), NEW k \in 1..Len(backup'), j < k
      PROVE  NoLater(backup'[k], backup'[j])
  <2>1. CASE j = i
    BY <1>1, <1>2, <1>3, <1>5, <2>1
  <2>2. CASE k = i
    BY <1>1, <1>2, <1>3, <1>5, <2>2
  <2>3. CASE j # i /\ k # i
    BY <1>1, <1>2, <1>3, <1>5, <2>3 DEF RunsInv
  <2> QED BY <2>1, <2>2, <2>3
<1>6. IsRun(log') /\ (log' # <<>> => log'[Len(log')] = next' - 1)
  BY DEF RunsInv
<1> QED BY <1>4, <1>5, <1>6 DEF RunsInv

\* The source of a copy is a run, and so is what has been copied of it; both begin
\* with the same line, which fits between what stands before the copy and behind.
LEMMA SourceFits ==
  ASSUME TypeOK, CopyReady, RunsInv, pc = "copy"
  PROVE  /\ IsRun(Source) /\ NoLater(Source, log)
         /\ \A j \in 1..Len(backup) : j < index + 1 => NoLater(Source, backup[j])
         /\ \A j \in 1..Len(backup) : index + 1 < j => NoLater(backup[j], Source)
<1>1. index \in Nat /\ index + 1 <= Len(backup) /\ Len(backup) \in Nat
  BY RotationAssumption DEF TypeOK, CopyReady
<1>2. ASSUME NEW f \in Seq(1..MaxLines) PROVE NoLater(f, f)
  <2> SUFFICES ASSUME f # <<>> PROVE f[1] \in 1..MaxLines
    BY DEF NoLater
  <2>1. Len(f) \in Nat /\ Len(f) # 0
    BY EmptySeq
  <2>2. 1 \in 1..Len(f)
    BY <2>1
  <2> QED BY <2>2, ElementOfSeq
<1>3. CASE index = 0
  BY <1>1, <1>2, <1>3 DEF Source, RunsInv, TypeOK
<1>4. CASE index # 0
  <2>1. index \in 1..Len(backup) /\ Source = backup[index]
    BY <1>1, <1>4 DEF Source
  <2>2. Source \in Seq(1..MaxLines)
    BY <2>1 DEF TypeOK
  <2> QED BY <1>1, <1>2, <2>1, <2>2 DEF RunsInv
<1> QED BY <1>3, <1>4

LEMMA CopyRuns == ASSUME IInv, RunsInv, CopyLine PROVE RunsInv'
<1> DEFINE d == backup[index + 1]
           s == Append(d, Source[Copied + 1])
<1>1. TypeOK /\ CopyReady /\ pc = "copy"
  BY DEF IInv, CopyLine
<1>2. /\ index + 1 \in 1..Len(backup) /\ index \in Nat
      /\ Copied \in Nat /\ Copied + 1 \in 1..Len(Source)
      /\ Source \in Seq(1..MaxLines)
      /\ d \in Seq(1..MaxLines) /\ s \in Seq(1..MaxLines)
  BY <1>1, CopyLineIs
<1>3. backup' = Put(index + 1, s) /\ UNCHANGED <<log, next>>
  BY DEF CopyLine, clock
<1>4. /\ IsRun(Source) /\ NoLater(Source, log)
      /\ \A j \in 1..Len(backup) : j < index + 1 => NoLater(Source, backup[j])
      /\ \A j \in 1..Len(backup) : index + 1 < j => NoLater(backup[j], Source)
  BY <1>1, SourceFits
<1>5. Len(d) = Copied /\ Len(s) = Copied + 1
  BY <1>2 DEF Copied
<1>6. ASSUME NEW k \in 1..Len(s) PROVE s[k] = Source[k]
  <2>1. CASE k = Copied + 1
    BY <1>2, <1>5, <2>1
  <2>2. CASE k # Copied + 1
    <3>1. k \in 1..Copied /\ k \in 1..Len(d)
      BY <1>2, <1>5, <2>2
    <3>2. d[k] = Source[k]
      BY <1>1, <3>1 DEF CopyReady
    <3> QED BY <1>2, <3>1, <3>2
  <2> QED BY <2>1, <2>2
<1>7. Len(s) <= Len(Source) /\ 1 \in 1..Len(s) /\ Len(Source) \in Nat
  BY <1>2, <1>5
<1> HIDE DEF s, d
<1>8. IsRun(s) /\ s[1] = Source[1]
  BY <1>4, <1>6, <1>7 DEF IsRun
<1>9. Source # <<>>
  BY <1>2, EmptySeq
<1>10. \A f : (NoLater(Source, f) => NoLater(s, f)) /\ (NoLater(f, Source) => NoLater(f, s))
  BY <1>8, <1>9 DEF NoLater
<1>11. index + 1 \in 1..(Len(backup) + 1)
  BY <1>1, <1>2 DEF TypeOK
<1> QED BY <1>1, <1>2, <1>3, <1>4, <1>8, <1>10, <1>11, PutRuns

LEMMA WriteRuns == ASSUME IInv, RunsInv, WriteLine PROVE RunsInv'
<1>1. /\ log' = Append(log, next) /\ next' = next + 1 /\ next \in 1..MaxLines
      /\ UNCHANGED backup
  BY RotationAssumption DEF WriteLine, IInv, TypeOK
<1>2. /\ log \in Seq(1..MaxLines) /\ Len(log) \in Nat /\ Len(backup) \in Nat
      /\ \A i \in 1..Len(backup) : backup[i] \in Seq(1..MaxLines)
  BY DEF IInv, TypeOK
<1>3. /\ Len(log') = Len(log) + 1 /\ log'[Len(log) + 1] = next
      /\ \A k \in 1..Len(log) : log'[k] = log[k]
  BY <1>1, <1>2, AppendProperties
<1>4. log # <<>> <=> Len(log) # 0
  BY <1>2, EmptySeq
<1>5. IsRun(log')
  <2> SUFFICES ASSUME NEW k \in 1..(Len(log) + 1) PROVE log'[k] = log'[1] + (k - 1)
    BY <1>3 DEF IsRun
  <2>1. CASE log = <<>>
    BY <1>1, <1>2, <1>3, <1>4, <2>1
  <2>2. CASE log # <<>> /\ k \in 1..Len(log)
    <3>1. 1 \in 1..Len(log) /\ IsRun(log)
      BY <1>2, <2>2 DEF RunsInv
    <3> QED BY <1>3, <2>2, <3>1 DEF IsRun
  <2>3. CASE log # <<>> /\ k = Len(log) + 1
    <3>1. 1 \in 1..Len(log) /\ Len(log) \in 1..Len(log)
      BY <1>2, <1>4, <2>3
    <3>2. log[Len(log)] = log[1] + (Len(log) - 1) /\ log[Len(log)] = next - 1
      BY <2>3, <3>1 DEF RunsInv, IsRun
    <3>3. log'[1] = log[1] /\ log'[k] = next
      BY <1>3, <2>3, <3>1
    <3>4. log[1] \in 1..MaxLines
      BY <1>2, <3>1, ElementOfSeq
    <3>5. next \in Int /\ Len(log) \in Int /\ k - 1 = Len(log)
      BY <1>1, <1>2, <2>3
    <3>6. log[1] \in Int
      BY <3>4
    <3>7. next = log[1] + (k - 1)
      BY <3>2, <3>5, <3>6
    <3> QED BY <3>3, <3>7
  <2> QED BY <1>2, <2>1, <2>2, <2>3
<1>6. ASSUME NEW i \in 1..Len(backup) PROVE NoLater(backup[i], log')
  <2> SUFFICES ASSUME backup[i] # <<>> PROVE backup[i][1] <= log'[1]
    BY DEF NoLater
  <2>1. 1 \in 1..Len(backup[i])
    <3>1. Len(backup[i]) \in Nat /\ Len(backup[i]) # 0
      BY <1>2, EmptySeq
    <3> QED BY <3>1
  <2>2. backup[i][1] \in 1..MaxLines
    BY <1>2, <2>1, ElementOfSeq
  <2>3. backup[i][1] \in Kept
    BY <2>1 DEF Kept, Lines
  <2>4. backup[i][1] < next
    BY <2>3 DEF IInv, WrittenBefore
  <2>5. CASE log = <<>>
    BY <1>1, <1>2, <1>3, <1>4, <2>2, <2>4, <2>5
  <2>6. CASE log # <<>>
    <3>1. log'[1] = log[1]
      BY <1>2, <1>3, <1>4, <2>6
    <3> QED BY <2>6, <3>1 DEF RunsInv, NoLater
  <2> QED BY <2>5, <2>6
<1>7. log'[Len(log')] = next' - 1
  BY <1>1, <1>3
<1> QED BY <1>1, <1>5, <1>6, <1>7 DEF RunsInv

LEMMA StepRuns == IInv /\ RunsInv /\ [Next]_vars => RunsInv'
<1> SUFFICES ASSUME IInv, RunsInv, [Next]_vars PROVE RunsInv'
  OBVIOUS
<1>1. TypeOK /\ CopyReady
  BY DEF IInv
<1>2. <<>> \in Seq(1..MaxLines) /\ IsRun(<<>>)
      /\ \A f : NoLater(<<>>, f) /\ NoLater(f, <<>>)
  BY DEF IsRun, NoLater
<1>3. CASE WriteLine
  BY <1>3, WriteRuns
<1>4. CASE OpenCopy
  <2>1. index + 1 \in 1..(Len(backup) + 1)
    BY <1>1, <1>4, Sources DEF OpenCopy
  <2>2. backup' = Put(index + 1, <<>>) /\ UNCHANGED <<log, next>>
    BY <1>4 DEF OpenCopy, clock
  <2> QED BY <1>1, <1>2, <2>1, <2>2, PutRuns
<1>5. CASE CopyLine
  BY <1>5, CopyRuns
<1>6. CASE Truncate
  BY <1>2, <1>6 DEF Truncate, clock, RunsInv
<1>7. CASE Look \/ Skip \/ EndCopy \/ ChildEnds \/ Stop \/ Crash \/ Start \/ UNCHANGED vars
  <2>1. UNCHANGED <<log, backup, next>>
    BY <1>7 DEF Look, Skip, EndCopy, ChildEnds, Stop, Crash, Start, vars, files, clock
  <2> QED BY <2>1 DEF RunsInv
<1> QED BY <1>3, <1>4, <1>5, <1>6, <1>7 DEF Next

\* What one run has that another, which begins no later, has not, is newer than
\* all of it.
LEMMA BeyondIsNewer ==
  ASSUME NEW f \in Seq(1..MaxLines), NEW g \in Seq(1..MaxLines),
         IsRun(f), IsRun(g), NoLater(g, f),
         NEW l \in Lines(f) \ Lines(g), NEW k \in Lines(g)
  PROVE  k < l
<1>1. PICK m \in 1..Len(f) : l = f[m]
  BY DEF Lines
<1>2. PICK n \in 1..Len(g) : k = g[n]
  BY DEF Lines
<1>3. /\ Len(f) \in Nat /\ Len(g) \in Nat
      /\ 1 \in 1..Len(f) /\ 1 \in 1..Len(g) /\ f # <<>> /\ g # <<>>
  BY <1>1, <1>2, EmptySeq
<1>4. f[1] \in Nat /\ g[1] \in Nat /\ g[1] <= f[1]
  <2>1. f[1] \in 1..MaxLines /\ g[1] \in 1..MaxLines
    BY <1>3, ElementOfSeq
  <2> QED BY <1>3, <2>1 DEF NoLater
<1>5. l = f[1] + (m - 1) /\ k = g[1] + (n - 1)
  BY <1>1, <1>2 DEF IsRun
<1>6. l >= g[1] + Len(g)
  <2> SUFFICES ASSUME l < g[1] + Len(g) PROVE FALSE
    BY <1>3, <1>4, <1>5
  <2> DEFINE p == l - g[1] + 1
  <2>1. p \in 1..Len(g) /\ g[1] + (p - 1) = l
    BY <1>3, <1>4, <1>5
  <2> HIDE DEF p
  <2>2. g[p] = l
    BY <2>1 DEF IsRun
  <2> QED BY <2>1, <2>2 DEF Lines
<1> QED BY <1>2, <1>3, <1>4, <1>5, <1>6

LEMMA RunsMeanFiles == ASSUME TypeOK, RunsInv PROVE FilesAreRuns
<1> DEFINE all == <<log>> \o backup
<1>1. /\ backup \in Seq(Seq(1..MaxLines)) /\ log \in Seq(1..MaxLines)
      /\ Len(backup) \in Nat
  BY DEF TypeOK
<1>2. DOMAIN all = 1..(Len(backup) + 1) /\ all[1] = log
      /\ \A i \in 1..Len(backup) : all[i + 1] = backup[i]
  BY <1>1
<1> HIDE DEF all
<1>3. ASSUME NEW i \in DOMAIN all, i # 1
      PROVE  i - 1 \in 1..Len(backup) /\ all[i] = backup[i - 1]
  <2>1. i - 1 \in 1..Len(backup) /\ (i - 1) + 1 = i
    BY <1>1, <1>2, <1>3
  <2> QED BY <1>2, <2>1
<1>4. ASSUME NEW i \in DOMAIN all
      PROVE  all[i] \in Seq(1..MaxLines) /\ IsRun(all[i])
  BY <1>1, <1>2, <1>3, <1>4 DEF RunsInv
<1>5. ASSUME NEW i \in DOMAIN all, NEW k \in 1..(Len(all[i]) - 1)
      PROVE  all[i][k + 1] = all[i][k] + 1
  <2>1. Len(all[i]) \in Nat /\ IsRun(all[i])
    BY <1>4
  <2>2. k \in 1..Len(all[i]) /\ k + 1 \in 1..Len(all[i]) /\ 1 \in 1..Len(all[i])
    BY <2>1
  <2>3. all[i][1] \in 1..MaxLines
    BY <1>4, <2>2, ElementOfSeq
  <2>4. /\ all[i][k + 1] = all[i][1] + ((k + 1) - 1)
        /\ all[i][k] = all[i][1] + (k - 1)
    BY <2>1, <2>2 DEF IsRun
  <2> QED BY <2>2, <2>3, <2>4
<1>6. ASSUME NEW i \in DOMAIN all, NEW j \in DOMAIN all, i < j
      PROVE  NoLater(all[j], all[i])
  <2>1. j # 1 /\ i \in Nat /\ j \in Nat
    BY <1>1, <1>2, <1>6
  <2>2. j - 1 \in 1..Len(backup) /\ all[j] = backup[j - 1]
    BY <1>3, <2>1
  <2>3. CASE i = 1
    BY <1>2, <2>2, <2>3 DEF RunsInv
  <2>4. CASE i # 1
    <3>1. i - 1 \in 1..Len(backup) /\ all[i] = backup[i - 1] /\ i - 1 < j - 1
      BY <1>3, <1>6, <2>1, <2>4
    <3> QED BY <2>2, <3>1 DEF RunsInv
  <2> QED BY <2>3, <2>4
<1>7. ASSUME NEW i \in DOMAIN all, NEW j \in DOMAIN all, i < j,
             NEW l \in Lines(all[i]) \ Lines(all[j]), NEW k \in Lines(all[j])
      PROVE  k < l
  BY <1>4, <1>6, <1>7, BeyondIsNewer
<1> QED BY <1>5, <1>7 DEF FilesAreRuns, all

\* Wherever a supervisor is interrupted, within a copy too, every file is an
\* unbroken run of lines, and what it has beyond a later backup is newer than
\* all of that.
THEOREM RunsInOrder == Spec => []FilesAreRuns
<1>1. Init => RunsInv
  BY DEF Init, RunsInv, IsRun, NoLater
<1>2. IInv => TypeOK
  BY DEF IInv
<1> QED BY <1>1, <1>2, StepRuns, RunsMeanFiles, Invariance, PTL DEF Spec

=============================================================================
