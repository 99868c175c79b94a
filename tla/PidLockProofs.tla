---------------------------- MODULE PidLockProofs ----------------------------
(***************************************************************************)
(* The pid file keeps its promise for any number of instances, whatever    *)
(* -k says and in whatever order they start, crash and exit.               *)
(***************************************************************************)
EXTENDS PidLock, FiniteSetTheorems, TLAPS

\* The instances that may still create the file.
Unopened == {p \in Procs : pc[p] \in {"unborn", "setup"}}

\* Each instance opens the file once, so there are no more files than instances.
FilesAreFew == files + Cardinality(Unopened) <= Cardinality(Procs)

\* The types without the texts, whose lengths no lock depends on.
Shapes ==
  /\ platform \in Platforms
  /\ mode \in [Procs -> Modes]
  /\ pc \in [Procs -> Places]
  /\ fd \in [Procs -> 0..files]
  /\ path \in 0..files
  /\ files \in Nat
  /\ holder \in [FileIds -> Procs \cup {Nobody}]
  /\ forced \subseteq Procs

\* An instance on its way through the lock has the file open.
HasFile(p) ==
  pc[p] \in {"opened", "busy", "locked"} \/ (pc[p] = "running" /\ mode[p] # "off") => fd[p] # 0
EveryoneHasFile == \A p \in Procs : HasFile(p)

\* With --pid-file none an instance does not come to the lock.
LockersHaveMode ==
  \A p \in Procs : pc[p] \in {"opened", "busy", "locked"} => mode[p] # "off"

\* Whoever runs without having been let go on has the lock of its file.
LockIsHeld == \A p \in Procs : Active(p) /\ p \notin forced => holder[fd[p]] = p

\* On Windows the file that is open is the one the name refers to.
NameIsKept == Windows => \A p \in Procs : fd[p] # 0 => fd[p] = path

\* The inductive invariant.  Two instances with locks have different files, and
\* on Windows there is only one file to have; FilesAreFew is needed for a file
\* to be one that can be locked.
Locking == Shapes /\ FilesAreFew /\ EveryoneHasFile /\ LockersHaveMode /\ LockIsHeld
           /\ NameIsKept

----------------------------------------------------------------------------

\* The instances that may still open the file can be counted.
LEMMA UnopenedFinite ==
  /\ IsFiniteSet(Unopened) /\ Cardinality(Unopened) \in Nat
  /\ Cardinality(Procs) \in Nat
  <1>1. IsFiniteSet(Unopened) /\ Cardinality(Procs) \in Nat
    BY ProcsAssumption, FS_Subset, FS_CardinalityType DEF Unopened
  <1> QED
    BY <1>1, FS_CardinalityType

\* So there is always a number left for the file of one that has not.
LEMMA FilesAreIds == Shapes /\ FilesAreFew => files \in 0..Cardinality(Procs)
  BY UnopenedFinite DEF Shapes, FilesAreFew

\* An instance that has yet to open the file leaves a number for the one it makes.
LEMMA RoomForAnother ==
  ASSUME Shapes, FilesAreFew, NEW p \in Procs, pc[p] = "setup"
  PROVE  files + 1 \in FileIds
  <1>1. p \in Unopened
    BY DEF Unopened
  <1>2. Cardinality(Unopened) # 0
    BY <1>1, UnopenedFinite, FS_EmptySet
  <1> QED
    BY <1>2, UnopenedFinite DEF FilesAreFew, Shapes, FileIds

\* A file an instance has open is one that can be locked.
LEMMA OpenIsId ==
  ASSUME Shapes, FilesAreFew, NEW p \in Procs, fd[p] # 0
  PROVE  fd[p] \in FileIds
  BY FilesAreIds, UnopenedFinite DEF Shapes, FileIds

\* No file is there at first, so nobody holds a lock.
LEMMA InitLocking == Init => Locking
  <1> SUFFICES ASSUME Init PROVE Locking
    OBVIOUS
  <1>1. Shapes
    BY DEF Init, Shapes, Places
  <1>2. Unopened \subseteq Procs
    BY DEF Unopened
  <1>3. FilesAreFew
    BY <1>2, UnopenedFinite, ProcsAssumption, FS_Subset DEF Init, FilesAreFew
  <1>4. EveryoneHasFile /\ LockersHaveMode /\ LockIsHeld /\ NameIsKept
    BY DEF Init, LockersHaveMode, EveryoneHasFile, HasFile, LockIsHeld, Active, NameIsKept
  <1> QED
    BY <1>1, <1>3, <1>4 DEF Locking

\* Every step keeps the shapes.
LEMMA ShapesStep ==
  ASSUME Locking, NEW p \in Procs, Start(p) \/ End(p)
  PROVE  Shapes'
  <1> USE DEF Locking, Shapes, Places, FileIds
  <1>1. CASE Launch(p)
    BY <1>1 DEF Launch, Goto, Quiet, fs
  <1>2. CASE ConfigFails(p)
    BY <1>2 DEF ConfigFails, Goto, Quiet, fs
  <1>3. CASE OpenFile(p)
    BY <1>3 DEF OpenFile, Goto, Quiet
  <1>4. CASE SkipLock(p)
    BY <1>4 DEF SkipLock, Goto, Quiet, fs
  <1>5. CASE Lock(p)
    BY <1>5 DEF Lock, Goto, Quiet
  <1>6. CASE Unknown(p)
    BY <1>6 DEF Unknown, GiveUp, CloseFile, Goto, Quiet
  <1>7. CASE Report(p)
    BY <1>7 DEF Report, GiveUp, CloseFile, Goto, Quiet
  <1>8. CASE \E hits \in SUBSET Procs : KillOnly(p, hits)
    BY <1>8 DEF KillOnly, GiveUp, CloseFile, Goto, Quiet
  <1>9. CASE \E hits \in SUBSET Procs : KillAndStart(p, hits)
    BY <1>9 DEF KillAndStart, Goto, fs
  <1>10. CASE \E n \in 0..Digits[p] : SavePid(p, n)
    BY <1>10 DEF SavePid, Goto, Quiet
  <1>11. CASE ExitCloses(p)
    BY <1>11 DEF ExitCloses, CloseFile, Goto, Quiet
  <1>12. CASE ExitUnlinks(p)
    BY <1>12 DEF ExitUnlinks, Goto, Quiet
  <1>13. CASE Crash(p)
    BY <1>13 DEF Crash, CloseFile, Goto, Quiet
  <1> QED
    BY <1>1, <1>2, <1>3, <1>4, <1>5, <1>6, <1>7, <1>8, <1>9, <1>10, <1>11, <1>12, <1>13 DEF Start, End

\* An instance that opens the file stops being counted among those that may.
LEMMA FilesStep ==
  ASSUME Locking, NEW p \in Procs, Start(p) \/ End(p)
  PROVE  FilesAreFew'
  <1> DEFINE Left == Unopened'
  <1>1. CASE OpenFile(p)
    <2>1. p \in Unopened /\ Left = Unopened \ {p} /\ files' <= files + 1 /\ files' \in Nat
      BY <1>1 DEF OpenFile, Goto, Unopened, Locking, Shapes
    <2>2. Cardinality(Left) = Cardinality(Unopened) - 1
      BY <2>1, UnopenedFinite, FS_RemoveElement
    <2> HIDE DEF Left
    <2>3. files' + Cardinality(Left) <= Cardinality(Procs)
      BY <2>1, <2>2, UnopenedFinite DEF Locking, FilesAreFew, Shapes
    <2> QED
      BY <2>3 DEF FilesAreFew, Left
  <1>2. CASE ~OpenFile(p)
    <2>1. files' = files
      BY <1>2 DEF Start, End, Launch, ConfigFails, SkipLock, Lock, Unknown, Report, KillOnly,
                  KillAndStart, SavePid, ExitCloses, ExitUnlinks, Crash, fs
    <2>2. Left \subseteq Unopened
      BY <1>2 DEF Start, End, Launch, ConfigFails, SkipLock, Lock, Unknown, Report, KillOnly,
                  KillAndStart, SavePid, ExitCloses, ExitUnlinks, Crash, Goto, GiveUp, Unopened,
                  Locking, Shapes
    <2> HIDE DEF Left
    <2>3. Cardinality(Left) <= Cardinality(Unopened) /\ Cardinality(Left) \in Nat
      BY <2>2, UnopenedFinite, FS_Subset, FS_CardinalityType
    <2>4. files' + Cardinality(Left) <= Cardinality(Procs)
      BY <2>1, <2>3, UnopenedFinite DEF Locking, FilesAreFew, Shapes
    <2> QED
      BY <2>4 DEF FilesAreFew, Left
  <1> QED
    BY <1>1, <1>2

\* Whoever is on its way through the lock keeps the file open.
LEMMA EveryoneHasFileStep ==
  ASSUME Locking, NEW p \in Procs, Start(p) \/ End(p)
  PROVE  EveryoneHasFile'
  <1> USE DEF Locking, Shapes, EveryoneHasFile, HasFile
  <1>1. CASE Launch(p)
    BY <1>1 DEF Launch, Goto, Quiet, fs
  <1>2. CASE ConfigFails(p)
    BY <1>2 DEF ConfigFails, Goto, Quiet, fs
  <1>3. CASE OpenFile(p)
    BY <1>3 DEF OpenFile, Goto, Quiet
  <1>4. CASE SkipLock(p)
    BY <1>4 DEF SkipLock, Goto, Quiet, fs
  <1>5. CASE Lock(p)
    BY <1>5 DEF Lock, Goto, Quiet
  <1>6. CASE Unknown(p)
    BY <1>6 DEF Unknown, GiveUp, CloseFile, Goto, Quiet
  <1>7. CASE Report(p)
    BY <1>7 DEF Report, GiveUp, CloseFile, Goto, Quiet
  <1>8. CASE \E hits \in SUBSET Procs : KillOnly(p, hits)
    BY <1>8 DEF KillOnly, GiveUp, CloseFile, Goto, Quiet
  <1>9. CASE \E hits \in SUBSET Procs : KillAndStart(p, hits)
    BY <1>9 DEF KillAndStart, Goto, fs
  <1>10. CASE \E n \in 0..Digits[p] : SavePid(p, n)
    BY <1>10 DEF SavePid, Goto, Quiet
  <1>11. CASE ExitCloses(p)
    BY <1>11 DEF ExitCloses, CloseFile, Goto, Quiet
  <1>12. CASE ExitUnlinks(p)
    BY <1>12 DEF ExitUnlinks, Goto, Quiet
  <1>13. CASE Crash(p)
    BY <1>13 DEF Crash, CloseFile, Goto, Quiet
  <1> QED
    BY <1>1, <1>2, <1>3, <1>4, <1>5, <1>6, <1>7, <1>8, <1>9, <1>10, <1>11, <1>12, <1>13 DEF Start, End

\* Without a pid file an instance goes round the lock in every step.
LEMMA LockersHaveModeStep ==
  ASSUME Locking, NEW p \in Procs, Start(p) \/ End(p)
  PROVE  LockersHaveMode'
  <1> USE DEF Locking, Shapes, LockersHaveMode
  <1>1. CASE Launch(p)
    BY <1>1 DEF Launch, Goto, Quiet, fs
  <1>2. CASE ConfigFails(p)
    BY <1>2 DEF ConfigFails, Goto, Quiet, fs
  <1>3. CASE OpenFile(p)
    BY <1>3 DEF OpenFile, Goto, Quiet
  <1>4. CASE SkipLock(p)
    BY <1>4 DEF SkipLock, Goto, Quiet, fs
  <1>5. CASE Lock(p)
    BY <1>5 DEF Lock, Goto, Quiet
  <1>6. CASE Unknown(p)
    BY <1>6 DEF Unknown, GiveUp, CloseFile, Goto, Quiet
  <1>7. CASE Report(p)
    BY <1>7 DEF Report, GiveUp, CloseFile, Goto, Quiet
  <1>8. CASE \E hits \in SUBSET Procs : KillOnly(p, hits)
    BY <1>8 DEF KillOnly, GiveUp, CloseFile, Goto, Quiet
  <1>9. CASE \E hits \in SUBSET Procs : KillAndStart(p, hits)
    BY <1>9 DEF KillAndStart, Goto, fs
  <1>10. CASE \E n \in 0..Digits[p] : SavePid(p, n)
    BY <1>10 DEF SavePid, Goto, Quiet
  <1>11. CASE ExitCloses(p)
    BY <1>11 DEF ExitCloses, CloseFile, Goto, Quiet
  <1>12. CASE ExitUnlinks(p)
    BY <1>12 DEF ExitUnlinks, Goto, Quiet
  <1>13. CASE Crash(p)
    BY <1>13 DEF Crash, CloseFile, Goto, Quiet
  <1> QED
    BY <1>1, <1>2, <1>3, <1>4, <1>5, <1>6, <1>7, <1>8, <1>9, <1>10, <1>11, <1>12, <1>13 DEF Start, End

\* A lock is only taken from whoever closes the file.
LEMMA LockIsHeldStep ==
  ASSUME Locking, NEW p \in Procs, Start(p) \/ End(p)
  PROVE  LockIsHeld'
  <1>0. \A q \in Procs : fd[q] # 0 => fd[q] \in FileIds
    BY OpenIsId DEF Locking
  <1> USE <1>0, ProcsAssumption DEF Locking, Shapes, EveryoneHasFile, HasFile, LockIsHeld, Active
  <1>1. CASE Launch(p)
    BY <1>1 DEF Launch, Goto, Quiet, fs
  <1>2. CASE ConfigFails(p)
    BY <1>2 DEF ConfigFails, Goto, Quiet, fs
  <1>3. CASE OpenFile(p)
    BY <1>3 DEF OpenFile, Goto, Quiet
  <1>4. CASE SkipLock(p)
    BY <1>4 DEF SkipLock, Goto, Quiet, fs
  <1>5. CASE Lock(p)
    BY <1>5 DEF Lock, Goto, Quiet
  <1>6. CASE Unknown(p)
    BY <1>6 DEF Unknown, GiveUp, CloseFile, Goto, Quiet
  <1>7. CASE Report(p)
    BY <1>7 DEF Report, GiveUp, CloseFile, Goto, Quiet
  <1>8. CASE \E hits \in SUBSET Procs : KillOnly(p, hits)
    BY <1>8 DEF KillOnly, GiveUp, CloseFile, Goto, Quiet
  <1>9. CASE \E hits \in SUBSET Procs : KillAndStart(p, hits)
    BY <1>9 DEF KillAndStart, Goto, fs
  <1>10. CASE \E n \in 0..Digits[p] : SavePid(p, n)
    BY <1>10 DEF SavePid, Goto, Quiet
  <1>11. CASE ExitCloses(p)
    BY <1>11 DEF ExitCloses, CloseFile, Goto, Quiet
  <1>12. CASE ExitUnlinks(p)
    BY <1>12 DEF ExitUnlinks, Goto, Quiet
  <1>13. CASE Crash(p)
    BY <1>13 DEF Crash, CloseFile, Goto, Quiet
  <1> QED
    BY <1>1, <1>2, <1>3, <1>4, <1>5, <1>6, <1>7, <1>8, <1>9, <1>10, <1>11, <1>12, <1>13 DEF Start, End

\* On Windows a name is only made when nobody has a file, and only taken away
\* when nobody has it open.
LEMMA NameIsKeptStep ==
  ASSUME Locking, NEW p \in Procs, Start(p) \/ End(p)
  PROVE  NameIsKept'
  <1> USE DEF Locking, Shapes, NameIsKept, Windows
  <1>1. CASE Launch(p)
    BY <1>1 DEF Launch, Goto, Quiet, fs
  <1>2. CASE ConfigFails(p)
    BY <1>2 DEF ConfigFails, Goto, Quiet, fs
  <1>3. CASE OpenFile(p)
    BY <1>3 DEF OpenFile, Goto, Quiet
  <1>4. CASE SkipLock(p)
    BY <1>4 DEF SkipLock, Goto, Quiet, fs
  <1>5. CASE Lock(p)
    BY <1>5 DEF Lock, Goto, Quiet
  <1>6. CASE Unknown(p)
    BY <1>6 DEF Unknown, GiveUp, CloseFile, Goto, Quiet
  <1>7. CASE Report(p)
    BY <1>7 DEF Report, GiveUp, CloseFile, Goto, Quiet
  <1>8. CASE \E hits \in SUBSET Procs : KillOnly(p, hits)
    BY <1>8 DEF KillOnly, GiveUp, CloseFile, Goto, Quiet
  <1>9. CASE \E hits \in SUBSET Procs : KillAndStart(p, hits)
    BY <1>9 DEF KillAndStart, Goto, fs
  <1>10. CASE \E n \in 0..Digits[p] : SavePid(p, n)
    BY <1>10 DEF SavePid, Goto, Quiet
  <1>11. CASE ExitCloses(p)
    BY <1>11 DEF ExitCloses, CloseFile, Goto, Quiet
  <1>12. CASE ExitUnlinks(p)
    BY <1>12 DEF ExitUnlinks, Goto, Quiet
  <1>13. CASE Crash(p)
    BY <1>13 DEF Crash, CloseFile, Goto, Quiet
  <1> QED
    BY <1>1, <1>2, <1>3, <1>4, <1>5, <1>6, <1>7, <1>8, <1>9, <1>10, <1>11, <1>12, <1>13 DEF Start, End

\* Every step of every instance keeps who holds what.
LEMMA LockingStep == Locking /\ [Next]_vars => Locking'
  <1> SUFFICES ASSUME Locking, [Next]_vars PROVE Locking'
    OBVIOUS
  <1>1. CASE Next
    <2>1. PICK p \in Procs : Start(p) \/ End(p)
      BY <1>1 DEF Next
    <2> QED
      BY <2>1, ShapesStep, FilesStep, EveryoneHasFileStep, LockersHaveModeStep, LockIsHeldStep,
         NameIsKeptStep
      DEF Locking
  <1>2. CASE UNCHANGED vars
    BY <1>2 DEF vars, fs, Locking, Shapes, FilesAreFew, Unopened, EveryoneHasFile, HasFile,
                LockersHaveMode,
                LockIsHeld, Active, NameIsKept, Windows, FileIds
  <1> QED
    BY <1>1, <1>2

\* So it holds always.
LEMMA LockingHolds == Spec => []Locking
  BY InitLocking, LockingStep, PTL DEF Spec

\* However many instances there are: two that have the lock and were not let go
\* on without it have two files, so the name of at least one of them is gone,
\* which does not happen on Windows (pid_lock_lock, pid_lock_destroy).
THEOREM OneInstancePerName == Spec => []SingleInstance
  <1>1. Locking => SingleInstance
    <2> SUFFICES ASSUME Locking, NEW p \in Procs, NEW q \in Procs, Active(p), Active(q), p # q,
                        p \notin forced, q \notin forced
                 PROVE  ~Windows /\ {fd[p], fd[q]} # {path}
      BY DEF SingleInstance
    <2>1. fd[p] # fd[q]
      BY DEF Locking, LockIsHeld
    <2>2. fd[p] # 0 /\ fd[q] # 0
      BY DEF Locking, EveryoneHasFile, HasFile, Active
    <2>3. ~Windows
      BY <2>1, <2>2 DEF Locking, NameIsKept
    <2> QED
      BY <2>1, <2>3
  <1> QED
    BY <1>1, LockingHolds, PTL

----------------------------------------------------------------------------
(* Types, with the texts of the files. *)

Char == Procs \X Nat

\* What is not about the lock.
TextTypes ==
  /\ offset \in [Procs -> Nat]
  /\ term \in [Procs -> BOOLEAN]
  /\ text \in [FileIds -> Seq(Char)]
  /\ saved \subseteq Procs

\* On POSIX no file becomes shorter, so no instance stands beyond the end of
\* its file; one that has yet to open it stands at the start.
OffsetsInFile ==
  \A p \in Procs : /\ pc[p] \in {"unborn", "setup"} => offset[p] = 0
                   /\ fd[p] # 0 /\ ~Windows => offset[p] <= Len(text[fd[p]])

Contents == Locking /\ TextTypes /\ OffsetsInFile

\* Writing into a text leaves a text, no shorter than it was.
LEMMA WriteAtFacts ==
  ASSUME NEW s \in Seq(Char), NEW t \in Seq(Char), NEW pos \in 0..Len(s)
  PROVE  WriteAt(s, pos, t) \in Seq(Char) /\ Len(s) <= Len(WriteAt(s, pos, t))
  <1> DEFINE n == IF Len(s) > pos + Len(t) THEN Len(s) ELSE pos + Len(t)
             At(k) == IF k > pos /\ k <= pos + Len(t) THEN t[k - pos] ELSE s[k]
  <1>1. n \in Nat /\ Len(s) <= n
    OBVIOUS
  <1>2. ASSUME NEW k \in 1..n PROVE At(k) \in Char
    <2>1. CASE k > pos /\ k <= pos + Len(t)
      <3>1. k - pos \in 1..Len(t)
        BY <2>1
      <3> QED
        BY <2>1, <3>1
    <2>2. CASE ~(k > pos /\ k <= pos + Len(t))
      <3>1. k \in 1..Len(s)
        BY <2>2
      <3> QED
        BY <2>2, <3>1
    <2> QED
      BY <2>1, <2>2
  <1>3. WriteAt(s, pos, t) = [k \in 1..n |-> At(k)]
    BY DEF WriteAt
  <1> HIDE DEF n, At
  <1>4. [k \in 1..n |-> At(k)] \in Seq(Char) /\ Len([k \in 1..n |-> At(k)]) = n
    BY <1>1, <1>2
  <1> QED
    BY <1>1, <1>3, <1>4

\* A pid is a text.
LEMMA PidType == ASSUME NEW p \in Procs PROVE Pid(p) \in Seq(Char)
  <1>1. Digits[p] \in Nat
    BY DigitsAssumption
  <1> QED
    BY <1>1 DEF Pid, Char

\* So is what a write leaves of one.
LEMMA PrefixFacts ==
  ASSUME NEW p \in Procs, NEW n \in 0..Digits[p]
  PROVE  /\ SubSeq(Pid(p), 1, n) \in Seq(Char) /\ Len(SubSeq(Pid(p), 1, n)) = n
         /\ \A k \in 1..n : SubSeq(Pid(p), 1, n)[k] = <<p, k>>
         /\ n = Digits[p] => SubSeq(Pid(p), 1, n) = Pid(p)
  <1>1. Digits[p] \in Nat /\ n \in Nat /\ n <= Digits[p]
    BY DigitsAssumption
  <1>2. Pid(p) \in Seq(Char) /\ Len(Pid(p)) = Digits[p]
    BY <1>1, PidType DEF Pid
  <1>3. SubSeq(Pid(p), 1, n) \in Seq(Char) /\ Len(SubSeq(Pid(p), 1, n)) = n
    BY <1>1, <1>2
  <1>4. ASSUME NEW k \in 1..n PROVE SubSeq(Pid(p), 1, n)[k] = <<p, k>>
    <2>1. SubSeq(Pid(p), 1, n)[k] = Pid(p)[k] /\ k \in 1..Digits[p]
      BY <1>1, <1>2
    <2> QED
      BY <2>1 DEF Pid
  <1>5. n = Digits[p] => SubSeq(Pid(p), 1, n) = Pid(p)
    BY <1>2
  <1> QED
    BY <1>3, <1>4, <1>5

\* The files are empty at first.
LEMMA InitContents == Init => Contents
  <1> SUFFICES ASSUME Init PROVE Contents
    OBVIOUS
  <1>1. TextTypes
    BY DEF Init, TextTypes
  <1>2. OffsetsInFile
    BY DEF Init, OffsetsInFile
  <1> QED
    BY <1>1, <1>2, InitLocking DEF Contents

\* What a step of an instance does to the texts and to what it is sent.
LEMMA TextTypesStep ==
  ASSUME Contents, NEW p \in Procs, Start(p) \/ End(p)
  PROVE  TextTypes'
  <1>0. \A q \in Procs : fd[q] # 0 => fd[q] \in FileIds
    BY OpenIsId DEF Contents, Locking
  <1> USE DEF Contents, TextTypes
  <1>1. CASE Launch(p)
    BY <1>1 DEF Launch, Goto, Quiet, fs, FileIds
  <1>2. CASE ConfigFails(p)
    BY <1>2 DEF ConfigFails, Goto, Quiet, fs, FileIds
  <1>3. CASE OpenFile(p)
    BY <1>3 DEF OpenFile, Goto, Quiet, FileIds
  <1>4. CASE SkipLock(p)
    BY <1>4 DEF SkipLock, Goto, Quiet, fs, FileIds
  <1>5. CASE Lock(p)
    BY <1>5 DEF Lock, Goto, Quiet, FileIds
  <1>6. CASE Unknown(p)
    BY <1>6 DEF Unknown, GiveUp, CloseFile, Goto, Quiet, FileIds
  <1>7. CASE Report(p)
    BY <1>7 DEF Report, GiveUp, CloseFile, Goto, Quiet, FileIds
  <1>8. CASE \E hits \in SUBSET Procs : KillOnly(p, hits)
    BY <1>8 DEF KillOnly, GiveUp, CloseFile, Goto, Quiet, Signal, FileIds
  <1>9. CASE \E hits \in SUBSET Procs : KillAndStart(p, hits)
    <2>1. fd[p] \in FileIds
      BY <1>9, <1>0 DEF KillAndStart, Locking, EveryoneHasFile, HasFile
    <2>2. Len(text[fd[p]]) \in Nat
      BY <2>1
    <2> QED
      BY <1>9, <2>2 DEF KillAndStart, Goto, fs, Signal, FileIds
  <1>10. CASE \E n \in 0..Digits[p] : SavePid(p, n)
    <2>1. fd[p] \in FileIds /\ fd[p] # 0
      BY <1>10, <1>0 DEF SavePid, Locking, EveryoneHasFile, HasFile
    <2>2. PICK n \in 0..Digits[p] : SavePid(p, n)
      BY <1>10
    <2> DEFINE pid == SubSeq(Pid(p), 1, n)
    <2>3. pid \in Seq(Char)
      BY PrefixFacts
    <2> HIDE DEF pid
    <2>4. ~Windows => WriteAt(text[fd[p]], offset[p], pid) \in Seq(Char)
      BY <2>1, <2>3, WriteAtFacts DEF OffsetsInFile
    <2>5. text' \in [FileIds -> Seq(Char)]
      BY <2>1, <2>2, <2>3, <2>4 DEF SavePid, pid, FileIds
    <2>6. UNCHANGED <<offset, term, FileIds>> /\ saved' \subseteq Procs
      BY <2>2 DEF SavePid, FileIds
    <2> QED
      BY <2>5, <2>6
  <1>11. CASE ExitCloses(p)
    BY <1>11 DEF ExitCloses, CloseFile, Goto, Quiet, FileIds
  <1>12. CASE ExitUnlinks(p)
    BY <1>12 DEF ExitUnlinks, Goto, Quiet, FileIds
  <1>13. CASE Crash(p)
    BY <1>13 DEF Crash, CloseFile, Goto, Quiet, FileIds
  <1> QED
    BY <1>1, <1>2, <1>3, <1>4, <1>5, <1>6, <1>7, <1>8, <1>9, <1>10, <1>11, <1>12, <1>13 DEF Start, End

\* No instance reads or writes beyond the end of its file.
LEMMA OffsetsStep ==
  ASSUME Contents, NEW p \in Procs, Start(p) \/ End(p)
  PROVE  OffsetsInFile'
  <1>0. \A q \in Procs : fd[q] # 0 => fd[q] \in FileIds
    BY OpenIsId DEF Contents, Locking
  <1> USE <1>0 DEF Contents, TextTypes, OffsetsInFile, Locking, Shapes, Windows
  <1>1. CASE Launch(p)
    BY <1>1 DEF Launch, Goto, Quiet, fs
  <1>2. CASE ConfigFails(p)
    BY <1>2 DEF ConfigFails, Goto, Quiet, fs
  <1>3. CASE OpenFile(p)
    <2>1. files + 1 \in FileIds
      BY <1>3, RoomForAnother DEF OpenFile
    <2>2. fd'[p] # 0 => Len(text[fd'[p]]) >= 0
      <3>1. fd'[p] # 0 => fd'[p] \in FileIds
        BY <1>3, <2>1, FilesAreIds, UnopenedFinite DEF OpenFile, FileIds
      <3> QED
        BY <3>1
    <2> QED
      BY <1>3, <2>2 DEF OpenFile, Goto, Quiet
  <1>4. CASE SkipLock(p)
    BY <1>4 DEF SkipLock, Goto, Quiet, fs
  <1>5. CASE Lock(p)
    BY <1>5 DEF Lock, Goto, Quiet
  <1>6. CASE Unknown(p)
    BY <1>6 DEF Unknown, GiveUp, CloseFile, Goto, Quiet
  <1>7. CASE Report(p)
    BY <1>7 DEF Report, GiveUp, CloseFile, Goto, Quiet
  <1>8. CASE \E hits \in SUBSET Procs : KillOnly(p, hits)
    BY <1>8 DEF KillOnly, GiveUp, CloseFile, Goto, Quiet
  <1>9. CASE \E hits \in SUBSET Procs : KillAndStart(p, hits)
    BY <1>9 DEF KillAndStart, Goto, fs
  <1>10. CASE \E n \in 0..Digits[p] : SavePid(p, n)
    <2>1. fd[p] \in FileIds /\ fd[p] # 0
      BY <1>10 DEF SavePid, EveryoneHasFile, HasFile
    <2> PICK n \in 0..Digits[p] : SavePid(p, n)
      BY <1>10
    <2> DEFINE pid == SubSeq(Pid(p), 1, n)
    <2>0. pid \in Seq(Char)
      BY PrefixFacts
    <2>7. ~Windows => text' = [text EXCEPT ![fd[p]] = WriteAt(text[fd[p]], offset[p], pid)]
      BY DEF SavePid
    <2> HIDE DEF pid
    <2>2. ~Windows => Len(text[fd[p]]) <= Len(WriteAt(text[fd[p]], offset[p], pid))
      BY <2>0, <2>1, WriteAtFacts
    <2>3. ~Windows => /\ WriteAt(text[fd[p]], offset[p], pid) \in Seq(Char)
                      /\ text' = [text EXCEPT ![fd[p]] = WriteAt(text[fd[p]], offset[p], pid)]
      BY <2>0, <2>1, <2>7, WriteAtFacts
    <2>4. \A f \in FileIds : ~Windows => Len(text[f]) <= Len(text'[f]) /\ Len(text'[f]) \in Nat
      <3> SUFFICES ASSUME NEW f \in FileIds, ~Windows
                   PROVE  Len(text[f]) <= Len(text'[f]) /\ Len(text'[f]) \in Nat
        OBVIOUS
      <3>1. text'[f] = IF f = fd[p] THEN WriteAt(text[fd[p]], offset[p], pid) ELSE text[f]
        BY <2>3
      <3>2. Len(text[f]) \in Nat /\ Len(text[f]) <= Len(text[f])
        OBVIOUS
      <3> QED
        BY <2>2, <2>3, <3>1, <3>2
    <2>5. UNCHANGED <<fd, offset, platform>> /\ pc' = [pc EXCEPT ![p] = "running"]
      BY DEF SavePid, Goto
    <2>6. ASSUME NEW q \in Procs, fd[q] # 0, ~Windows PROVE offset[q] <= Len(text'[fd[q]])
      <3>1. fd[q] \in FileIds /\ offset[q] <= Len(text[fd[q]]) /\ Len(text[fd[q]]) \in Nat
        BY <2>6
      <3> QED
        BY <2>4, <2>6, <3>1
    <2> QED
      BY <2>5, <2>6
  <1>11. CASE ExitCloses(p)
    BY <1>11 DEF ExitCloses, CloseFile, Goto, Quiet
  <1>12. CASE ExitUnlinks(p)
    BY <1>12 DEF ExitUnlinks, Goto, Quiet
  <1>13. CASE Crash(p)
    BY <1>13 DEF Crash, CloseFile, Goto, Quiet
  <1> QED
    BY <1>1, <1>2, <1>3, <1>4, <1>5, <1>6, <1>7, <1>8, <1>9, <1>10, <1>11, <1>12, <1>13 DEF Start, End

\* What files hold, and where instances are in them, is sound always.
LEMMA ContentsHold == Spec => []Contents
  <1>1. Contents /\ [Next]_vars => Contents'
    <2> SUFFICES ASSUME Contents, [Next]_vars PROVE Contents'
      OBVIOUS
    <2>1. Locking'
      BY LockingStep DEF Contents
    <2>2. CASE Next
      <3>1. PICK p \in Procs : Start(p) \/ End(p)
        BY <2>2 DEF Next
      <3> QED
        BY <2>1, <3>1, TextTypesStep, OffsetsStep DEF Contents
    <2>3. CASE UNCHANGED vars
      BY <2>1, <2>3 DEF vars, fs, Contents, TextTypes, OffsetsInFile, Windows, FileIds
    <2> QED
      BY <2>2, <2>3
  <1> QED
    BY <1>1, InitContents, PTL DEF Spec

\* The types, for any number of instances: no instance makes a second file, and
\* what is written to a file is written inside it or at its end.
THEOREM PidLockTypes == Spec => []TypeOK
  <1>1. Contents => TypeOK
    BY FilesAreIds DEF Contents, Locking, Shapes, TextTypes, TypeOK
  <1> QED
    BY <1>1, ContentsHold, PTL

----------------------------------------------------------------------------
(* Whom -k signals. *)

\* A lock is held by an instance that has passed it with the file open.
HoldersAreActive ==
  \A f \in FileIds : \A p \in Procs :
    holder[f] = p => Active(p) /\ fd[p] = f

\* Only an instance past the lock has written its pid.
SaversRan == \A p \in saved : pc[p] \in {"running", "closed", "gone"}

\* The rest holds until an instance goes on without the lock: a pid is written
\* from the start of the file,
Rewound == \A p \in Procs : offset[p] = 0

\* a file that begins like a pid was written by that instance, which still has
\* it open if it runs,
WritersAreKnown ==
  \A f \in FileIds : \A q \in Procs :
    text[f] # << >> /\ text[f][1] = <<q, 1>> =>
      /\ pc[q] \in {"running", "closed", "gone"}
      /\ pc[q] = "running" => mode[q] # "off" /\ fd[q] = f

\* the pid of a running holder, once written, is what its file begins with,
HoldersAreNamed ==
  \A f \in FileIds : \A p \in Procs :
    holder[f] = p /\ pc[p] = "running" /\ p \in saved =>
      /\ Digits[p] <= Len(text[f])
      /\ \A k \in 1..Digits[p] : text[f][k] = <<p, k>>

\* and what is behind it was left by a longer pid.
NoLongerThanAPid ==
  \A f \in FileIds : text[f] # << >> => \E q \in Procs : Len(text[f]) <= Digits[q]

Naming ==
  /\ Contents
  /\ HoldersAreActive
  /\ SaversRan
  /\ forced = {} => Rewound /\ WritersAreKnown /\ HoldersAreNamed /\ NoLongerThanAPid

\* The digits of a pid tell whose it is, from the first one on.
LEMMA PidFacts ==
  ASSUME NEW p \in Procs
  PROVE  /\ Digits[p] \in Nat \ {0} /\ Len(Pid(p)) = Digits[p]
         /\ Pid(p)[1] = <<p, 1>> /\ Pid(p) # << >>
         /\ \A k \in 1..Digits[p] : Pid(p)[k] = <<p, k>>
  <1>1. Digits[p] \in Nat \ {0}
    BY DigitsAssumption
  <1>2. Len(Pid(p)) = Digits[p] /\ \A k \in 1..Digits[p] : Pid(p)[k] = <<p, k>>
    BY <1>1 DEF Pid
  <1> QED
    BY <1>1, <1>2

\* What is written over the start of a file begins it, and lengthens it only to
\* its own length; writing nothing changes nothing.
LEMMA WriteAtStart ==
  ASSUME NEW s \in Seq(Char), NEW t \in Seq(Char)
  PROVE  LET w == WriteAt(s, 0, t) IN
         /\ Len(t) <= Len(w)
         /\ \A k \in 1..Len(t) : w[k] = t[k]
         /\ Len(w) = Len(s) \/ Len(w) = Len(t)
         /\ Len(t) = 0 => w = s
  <1> DEFINE n == IF Len(s) > 0 + Len(t) THEN Len(s) ELSE 0 + Len(t)
             At(k) == IF k > 0 /\ k <= 0 + Len(t) THEN t[k - 0] ELSE s[k]
             w == WriteAt(s, 0, t)
  <1>1. n \in Nat /\ Len(t) <= n /\ (n = Len(s) \/ n = Len(t)) /\ (Len(t) = 0 => n = Len(s))
    OBVIOUS
  <1>2. w = [k \in 1..n |-> At(k)]
    BY DEF WriteAt
  <1>3. Len(w) = n
    BY <1>1, <1>2
  <1>4. ASSUME NEW k \in 1..Len(t) PROVE w[k] = t[k]
    <2>1. k \in 1..n /\ k > 0 /\ k <= 0 + Len(t) /\ k - 0 = k
      BY <1>1
    <2> QED
      BY <1>2, <2>1
  <1>5. ASSUME Len(t) = 0 PROVE w = s
    <2>1. \A k \in 1..n : At(k) = s[k]
      BY <1>1, <1>5
    <2>2. n = Len(s)
      BY <1>1, <1>5
    <2>3. w = [k \in 1..Len(s) |-> s[k]]
      BY <1>2, <2>1, <2>2
    <2> QED
      BY <2>3
  <1> QED
    BY <1>1, <1>3, <1>4, <1>5

\* Nobody has written at first.
LEMMA InitNaming == Init => Naming
  <1> SUFFICES ASSUME Init PROVE Naming
    OBVIOUS
  <1>1. HoldersAreActive
    BY ProcsAssumption DEF Init, HoldersAreActive
  <1>2. Rewound /\ WritersAreKnown /\ NoLongerThanAPid
    BY DEF Init, Rewound, WritersAreKnown, NoLongerThanAPid
  <1>3. HoldersAreNamed /\ SaversRan
    BY ProcsAssumption DEF Init, HoldersAreNamed, SaversRan
  <1> QED
    BY <1>1, <1>2, <1>3, InitContents DEF Naming

\* Only an instance that runs is the one a lock is held by.
LEMMA HoldersAreActiveStep ==
  ASSUME Naming, NEW p \in Procs, Start(p) \/ End(p)
  PROVE  HoldersAreActive'
  <1>0. \A q \in Procs : fd[q] # 0 => fd[q] \in FileIds
    BY OpenIsId DEF Naming, Contents, Locking
  <1> USE <1>0, ProcsAssumption
      DEF Naming, Contents, Locking, Shapes, EveryoneHasFile, HasFile, Active, FileIds,
          HoldersAreActive
  <1>1. CASE Launch(p)
    BY <1>1 DEF Launch, Goto, Quiet, fs
  <1>2. CASE ConfigFails(p)
    BY <1>2 DEF ConfigFails, Goto, Quiet, fs
  <1>3. CASE OpenFile(p)
    BY <1>3 DEF OpenFile, Goto, Quiet
  <1>4. CASE SkipLock(p)
    BY <1>4 DEF SkipLock, Goto, Quiet, fs
  <1>5. CASE Lock(p)
    <2> SUFFICES ASSUME NEW f \in FileIds, NEW q \in Procs, holder'[f] = q
                 PROVE  Active(q)' /\ fd'[q] = f
      OBVIOUS
    <2>0. UNCHANGED <<fd, mode>> /\ pc[p] = "opened" /\ \A r \in Procs : r # p => pc'[r] = pc[r]
      BY <1>5 DEF Lock, Goto, Quiet
    <2>1. CASE holder[f] = q
      <3>1. q # p
        BY <2>0, <2>1
      <3> QED
        BY <2>0, <2>1, <3>1
    <2>2. CASE holder[f] # q
      <3>1. f = fd[p] /\ q = p /\ pc'[p] = "locked"
        <4>1. holder[fd[p]] = Nobody
          BY <1>5, <2>2 DEF Lock
        <4>2. holder' = [holder EXCEPT ![fd[p]] = p] /\ pc' = [pc EXCEPT ![p] = "locked"]
          BY <1>5, <4>1 DEF Lock, Goto
        <4>3. holder'[f] = IF f = fd[p] THEN p ELSE holder[f]
          BY <4>2
        <4> QED
          BY <2>2, <4>2, <4>3
      <3>2. mode[p] # "off"
        BY <2>0 DEF LockersHaveMode
      <3> QED
        BY <2>0, <3>1, <3>2
    <2> QED
      BY <2>1, <2>2
  <1>6. CASE Unknown(p)
    BY <1>6 DEF Unknown, GiveUp, CloseFile, Goto, Quiet
  <1>7. CASE Report(p)
    BY <1>7 DEF Report, GiveUp, CloseFile, Goto, Quiet
  <1>8. CASE \E hits \in SUBSET Procs : KillOnly(p, hits)
    BY <1>8 DEF KillOnly, GiveUp, CloseFile, Goto, Quiet
  <1>9. CASE \E hits \in SUBSET Procs : KillAndStart(p, hits)
    BY <1>9 DEF KillAndStart, Goto, fs
  <1>10. CASE \E n \in 0..Digits[p] : SavePid(p, n)
    BY <1>10 DEF SavePid, Goto, Quiet
  <1>11. CASE ExitCloses(p)
    BY <1>11 DEF ExitCloses, CloseFile, Goto, Quiet
  <1>12. CASE ExitUnlinks(p)
    BY <1>12 DEF ExitUnlinks, Goto, Quiet
  <1>13. CASE Crash(p)
    BY <1>13 DEF Crash, CloseFile, Goto, Quiet
  <1> QED
    BY <1>1, <1>2, <1>3, <1>4, <1>5, <1>6, <1>7, <1>8, <1>9, <1>10, <1>11, <1>12, <1>13 DEF Start, End

\* An instance that has written its pid does not go back to the lock.
LEMMA SaversRanStep ==
  ASSUME Naming, NEW p \in Procs, Start(p) \/ End(p)
  PROVE  SaversRan'
  <1> USE DEF Naming, Contents, Locking, Shapes, SaversRan
  <1>1. CASE \E n \in 0..Digits[p] : SavePid(p, n)
    BY <1>1 DEF SavePid, Goto
  <1>2. CASE ~\E n \in 0..Digits[p] : SavePid(p, n)
    <2>1. UNCHANGED saved
      BY <1>2 DEF Start, End, Launch, ConfigFails, OpenFile, SkipLock, Lock, Unknown, Report,
                  KillOnly, KillAndStart, ExitCloses, ExitUnlinks, Crash, Quiet
    <2>2. pc[p] \in {"running", "closed", "gone"} => pc'[p] \in {"running", "closed", "gone"}
      BY <1>2 DEF Start, End, Launch, ConfigFails, OpenFile, SkipLock, Lock, Unknown, Report,
                  KillOnly, KillAndStart, ExitCloses, ExitUnlinks, Crash, GiveUp, Goto
    <2>3. \A q \in Procs : q # p => pc'[q] = pc[q]
      BY <1>2 DEF Start, End, Launch, ConfigFails, OpenFile, SkipLock, Lock, Unknown, Report,
                  KillOnly, KillAndStart, ExitCloses, ExitUnlinks, Crash, GiveUp, Goto
    <2> QED
      BY <2>1, <2>2, <2>3 DEF TextTypes
  <1> QED
    BY <1>1, <1>2

\* As long as nobody goes on without the lock, everybody writes from the start.
LEMMA RewoundStep ==
  ASSUME Naming, forced' = {}, NEW p \in Procs, Start(p) \/ End(p)
  PROVE  forced = {} /\ Rewound'
  <1> USE DEF Naming, Contents, TextTypes, Rewound
  <1>1. CASE Launch(p)
    BY <1>1 DEF Launch, Goto, Quiet, fs, Rewound
  <1>2. CASE ConfigFails(p)
    BY <1>2 DEF ConfigFails, Goto, Quiet, fs
  <1>3. CASE OpenFile(p)
    BY <1>3 DEF OpenFile, Goto, Quiet
  <1>4. CASE SkipLock(p)
    BY <1>4 DEF SkipLock, Goto, Quiet, fs
  <1>5. CASE Lock(p)
    BY <1>5 DEF Lock, Goto, Quiet
  <1>6. CASE Unknown(p)
    BY <1>6 DEF Unknown, GiveUp, CloseFile, Goto, Quiet
  <1>7. CASE Report(p)
    BY <1>7 DEF Report, GiveUp, CloseFile, Goto, Quiet
  <1>8. CASE \E hits \in SUBSET Procs : KillOnly(p, hits)
    BY <1>8 DEF KillOnly, GiveUp, CloseFile, Goto, Quiet
  <1>9. CASE \E hits \in SUBSET Procs : KillAndStart(p, hits)
    BY <1>9 DEF KillAndStart, Goto, fs
  <1>10. CASE \E n \in 0..Digits[p] : SavePid(p, n)
    BY <1>10 DEF SavePid, Goto, Quiet
  <1>11. CASE ExitCloses(p)
    BY <1>11 DEF ExitCloses, CloseFile, Goto, Quiet
  <1>12. CASE ExitUnlinks(p)
    BY <1>12 DEF ExitUnlinks, Goto, Quiet
  <1>13. CASE Crash(p)
    BY <1>13 DEF Crash, CloseFile, Goto, Quiet
  <1> QED
    BY <1>1, <1>2, <1>3, <1>4, <1>5, <1>6, <1>7, <1>8, <1>9, <1>10, <1>11, <1>12, <1>13 DEF Start, End

\* What SavePid does while nobody goes without the lock: the instance has the
\* lock of its file, which begins with what it has written of its pid, and the
\* other files stay as they are.
LEMMA SaveFacts ==
  ASSUME Naming, forced = {}, NEW p \in Procs, NEW n \in 0..Digits[p], SavePid(p, n)
  PROVE  /\ fd[p] \in FileIds /\ holder[fd[p]] = p /\ mode[p] # "off"
         /\ \A f \in FileIds : f # fd[p] => text'[f] = text[f]
         /\ n = 0 => text'[fd[p]] \in {text[fd[p]], << >>}
         /\ n > 0 => text'[fd[p]] # << >> /\ text'[fd[p]][1] = <<p, 1>>
         /\ p \in saved' => /\ Digits[p] <= Len(text'[fd[p]])
                           /\ \A k \in 1..Digits[p] : text'[fd[p]][k] = <<p, k>>
         /\ text'[fd[p]] \in Seq(Char)
         /\ Len(text'[fd[p]]) = Len(text[fd[p]]) \/ Len(text'[fd[p]]) <= Digits[p]
         /\ \A q \in Procs : q # p /\ q \in saved' => q \in saved
  <1> DEFINE pid == SubSeq(Pid(p), 1, n)
             now == text'[fd[p]]
  <1>1. pc[p] = "locked" /\ fd[p] # 0
    BY DEF SavePid, Naming, Contents, Locking, EveryoneHasFile, HasFile
  <1>2. fd[p] \in FileIds
    BY <1>1, OpenIsId DEF Naming, Contents, Locking
  <1>3. mode[p] # "off" /\ holder[fd[p]] = p
    <2>1. mode[p] # "off"
      BY <1>1 DEF Naming, Contents, Locking, LockersHaveMode
    <2> QED
      BY <1>1, <2>1 DEF Naming, Contents, Locking, LockIsHeld, Active
  <1>4. text[fd[p]] \in Seq(Char) /\ text \in [FileIds -> Seq(Char)]
    BY <1>2 DEF Naming, Contents, TextTypes
  <1>5. offset[p] = 0
    BY DEF Naming, Rewound
  <1>6. /\ pid \in Seq(Char) /\ Len(pid) = n /\ \A k \in 1..n : pid[k] = <<p, k>>
        /\ Digits[p] \in Nat /\ n \in Nat /\ n <= Digits[p]
    BY PrefixFacts, PidFacts
  <1>7. /\ \A f \in FileIds : f # fd[p] => text'[f] = text[f]
        /\ now = pid \/ now = WriteAt(text[fd[p]], 0, pid)
    <2>1. CASE Windows
      <3>1. text' = [text EXCEPT ![fd[p]] = pid]
        BY <1>3, <2>1 DEF SavePid, Readable
      <3> HIDE DEF pid
      <3> QED
        BY <1>2, <1>4, <3>1
    <2>2. CASE ~Windows
      <3>1. text' = [text EXCEPT ![fd[p]] = WriteAt(text[fd[p]], 0, pid)]
        BY <1>5, <2>2 DEF SavePid
      <3> HIDE DEF pid
      <3> QED
        BY <1>2, <1>4, <3>1
    <2> QED
      BY <2>1, <2>2
  <1>8. p \in saved' => n = Digits[p]
    BY <1>1 DEF SavePid, Naming, SaversRan
  <1>9. \A q \in Procs : q # p /\ q \in saved' => q \in saved
    BY DEF SavePid
  <1> HIDE DEF pid, now
  <1>10. WriteAt(text[fd[p]], 0, pid) \in Seq(Char)
    BY <1>4, <1>6, WriteAtFacts
  <1>11. /\ n <= Len(now) /\ \A k \in 1..n : now[k] = <<p, k>>
         /\ now \in Seq(Char)
         /\ Len(now) = Len(text[fd[p]]) \/ Len(now) <= Digits[p]
         /\ n = 0 => now \in {text[fd[p]], << >>}
    <2>1. CASE now = pid
      <3>1. n = 0 => pid = << >>
        BY <1>6
      <3> QED
        BY <1>6, <2>1, <3>1
    <2>2. CASE now = WriteAt(text[fd[p]], 0, pid)
      <3>1. /\ Len(pid) <= Len(now) /\ \A k \in 1..Len(pid) : now[k] = pid[k]
            /\ Len(now) = Len(text[fd[p]]) \/ Len(now) = Len(pid)
            /\ Len(pid) = 0 => now = text[fd[p]]
        BY <1>4, <1>6, <2>2, WriteAtStart
      <3> QED
        BY <1>6, <1>10, <2>2, <3>1
    <2> QED
      BY <1>7, <2>1, <2>2
  <1>12. n > 0 => now # << >> /\ now[1] = <<p, 1>>
    <2> SUFFICES ASSUME n > 0 PROVE now # << >> /\ now[1] = <<p, 1>>
      OBVIOUS
    <2>1. 1 \in 1..n /\ 1 <= Len(now)
      BY <1>6, <1>11
    <2> QED
      BY <1>11, <2>1
  <1> QED
    BY <1>2, <1>3, <1>7, <1>8, <1>9, <1>11, <1>12 DEF now

\* Who a file begins with has come that far, whatever step is taken.
LEMMA WritersAreKnownStep ==
  ASSUME Naming, forced = {}, NEW p \in Procs, Start(p) \/ End(p)
  PROVE  WritersAreKnown'
  <1> USE DEF Naming, Contents, Locking, Shapes, FileIds, WritersAreKnown
  <1>1. CASE Launch(p)
    BY <1>1 DEF Launch, Goto, Quiet, fs, fs
  <1>2. CASE ConfigFails(p)
    BY <1>2 DEF ConfigFails, Goto, Quiet, fs
  <1>3. CASE OpenFile(p)
    BY <1>3 DEF OpenFile, Goto, Quiet
  <1>4. CASE SkipLock(p)
    BY <1>4 DEF SkipLock, Goto, Quiet, fs
  <1>5. CASE Lock(p)
    BY <1>5 DEF Lock, Goto, Quiet
  <1>6. CASE Unknown(p)
    BY <1>6 DEF Unknown, GiveUp, CloseFile, Goto, Quiet
  <1>7. CASE Report(p)
    BY <1>7 DEF Report, GiveUp, CloseFile, Goto, Quiet
  <1>8. CASE \E hits \in SUBSET Procs : KillOnly(p, hits)
    <2>1. /\ UNCHANGED <<text, mode>> /\ pc' = [pc EXCEPT ![p] = "gone"]
          /\ fd' = [fd EXCEPT ![p] = 0]
      BY <1>8 DEF KillOnly, GiveUp, CloseFile, Goto, Quiet
    <2> QED
      BY <2>1
  <1>9. CASE \E hits \in SUBSET Procs : KillAndStart(p, hits)
    BY <1>9 DEF KillAndStart, Goto, fs
  <1>10. CASE \E n \in 0..Digits[p] : SavePid(p, n)
    <2> PICK n \in 0..Digits[p] : SavePid(p, n)
      BY <1>10
    <2> SUFFICES ASSUME NEW f \in FileIds, NEW q \in Procs, text'[f] # << >>, text'[f][1] = <<q, 1>>
                 PROVE  /\ pc'[q] \in {"running", "closed", "gone"}
                        /\ pc'[q] = "running" => mode'[q] # "off" /\ fd'[q] = f
      BY DEF SavePid
    <2>0. pc[p] = "locked" /\ pc' = [pc EXCEPT ![p] = "running"] /\ UNCHANGED <<fd, mode>>
      BY DEF SavePid, Goto
    <2>1. CASE f = fd[p] /\ n > 0
      <3>1. q = p
        BY <2>1, SaveFacts
      <3> QED
        BY <2>0, <2>1, <3>1, SaveFacts
    <2>2. CASE ~(f = fd[p] /\ n > 0)
      <3>1. text'[f] = text[f]
        <4>1. n = 0 \/ f # fd[p]
          BY <2>2, PidFacts
        <4> QED
          BY <4>1, SaveFacts
      <3>2. pc[q] \in {"running", "closed", "gone"}
        BY <3>1
      <3>3. q # p
        BY <2>0, <3>2
      <3> QED
        BY <2>0, <3>1, <3>2, <3>3
    <2> QED
      BY <2>1, <2>2
  <1>11. CASE ExitCloses(p)
    BY <1>11 DEF ExitCloses, CloseFile, Goto, Quiet
  <1>12. CASE ExitUnlinks(p)
    BY <1>12 DEF ExitUnlinks, Goto, Quiet
  <1>13. CASE Crash(p)
    BY <1>13 DEF Crash, CloseFile, Goto, Quiet
  <1> QED
    BY <1>1, <1>2, <1>3, <1>4, <1>5, <1>6, <1>7, <1>8, <1>9, <1>10, <1>11, <1>12, <1>13 DEF Start, End

\* The pid of a holder that runs stays what its file begins with.
LEMMA HoldersAreNamedStep ==
  ASSUME Naming, forced = {}, NEW p \in Procs, Start(p) \/ End(p)
  PROVE  HoldersAreNamed'
  <1> USE ProcsAssumption DEF Naming, Contents, Locking, Shapes, FileIds, HoldersAreNamed
  <1>1. CASE Launch(p)
    BY <1>1 DEF Launch, Goto, Quiet, fs
  <1>2. CASE ConfigFails(p)
    BY <1>2 DEF ConfigFails, Goto, Quiet, fs
  <1>3. CASE OpenFile(p)
    BY <1>3 DEF OpenFile, Goto, Quiet
  <1>4. CASE SkipLock(p)
    BY <1>4 DEF SkipLock, Goto, Quiet, fs, HoldersAreActive, Active
  <1>5. CASE Lock(p)
    <2>1. UNCHANGED <<text, saved>> /\ pc'[p] # "running"
      BY <1>5 DEF Lock, Goto, Quiet
    <2>2. \A q \in Procs : q # p => pc'[q] = pc[q]
      BY <1>5 DEF Lock, Goto
    <2>3. \A f \in FileIds : \A q \in Procs : q # p /\ holder'[f] = q => holder[f] = q
      BY <1>5 DEF Lock
    <2> SUFFICES ASSUME NEW f \in FileIds, NEW q \in Procs, holder'[f] = q, pc'[q] = "running",
                        q \in saved'
                 PROVE  /\ Digits[q] <= Len(text'[f])
                        /\ \A k \in 1..Digits[q] : text'[f][k] = <<q, k>>
      OBVIOUS
    <2> QED
      BY <2>1, <2>2, <2>3
  <1>6. CASE Unknown(p)
    BY <1>6 DEF Unknown, GiveUp, CloseFile, Goto, Quiet
  <1>7. CASE Report(p)
    BY <1>7 DEF Report, GiveUp, CloseFile, Goto, Quiet
  <1>8. CASE \E hits \in SUBSET Procs : KillOnly(p, hits)
    <2>1. UNCHANGED <<text, saved>> /\ \A q \in Procs : pc'[q] = "running" => pc[q] = "running"
      BY <1>8 DEF KillOnly, GiveUp, Goto, Quiet
    <2>2. \A f \in FileIds : \A q \in Procs : holder'[f] = q => holder[f] = q
      BY <1>8 DEF KillOnly, GiveUp, CloseFile
    <2> SUFFICES ASSUME NEW f \in FileIds, NEW q \in Procs, holder'[f] = q, pc'[q] = "running",
                        q \in saved'
                 PROVE  /\ Digits[q] <= Len(text'[f])
                        /\ \A k \in 1..Digits[q] : text'[f][k] = <<q, k>>
      OBVIOUS
    <2>3. holder[f] = q /\ pc[q] = "running" /\ q \in saved /\ text'[f] = text[f]
      BY <2>1, <2>2
    <2> QED
      BY <2>3
  <1>9. CASE \E hits \in SUBSET Procs : KillAndStart(p, hits)
    BY <1>9 DEF KillAndStart, Goto, fs
  <1>10. CASE \E n \in 0..Digits[p] : SavePid(p, n)
    <2> PICK n \in 0..Digits[p] : SavePid(p, n)
      BY <1>10
    <2> SUFFICES ASSUME NEW f \in FileIds, NEW q \in Procs, holder'[f] = q, pc'[q] = "running",
                        q \in saved'
                 PROVE  /\ Digits[q] <= Len(text'[f])
                        /\ \A k \in 1..Digits[q] : text'[f][k] = <<q, k>>
      BY DEF SavePid
    <2>0. pc' = [pc EXCEPT ![p] = "running"] /\ UNCHANGED holder
      BY DEF SavePid, Goto
    <2>1. CASE f = fd[p]
      BY <2>0, <2>1, SaveFacts
    <2>2. CASE f # fd[p]
      <3>1. text'[f] = text[f]
        BY <2>2, SaveFacts
      <3>2. holder[f] = q /\ q # p
        BY <2>0, <2>2 DEF HoldersAreActive
      <3>3. q \in saved
        BY <3>2, SaveFacts
      <3>4. pc[q] = "running"
        BY <2>0, <3>2
      <3>5. Digits[q] <= Len(text[f]) /\ \A k \in 1..Digits[q] : text[f][k] = <<q, k>>
        BY <3>2, <3>3, <3>4
      <3> QED
        BY <3>1, <3>5
    <2> QED
      BY <2>1, <2>2
  <1>11. CASE ExitCloses(p)
    <2>1. UNCHANGED <<text, saved>>
      BY <1>11 DEF ExitCloses, Quiet
    <2>2. \A q \in Procs : pc'[q] = "running" => pc[q] = "running"
      BY <1>11 DEF ExitCloses, Goto
    <2>3. \A f \in FileIds : \A q \in Procs : holder'[f] = q => holder[f] = q
      BY <1>11 DEF ExitCloses, CloseFile
    <2> QED
      BY <2>1, <2>2, <2>3
  <1>12. CASE ExitUnlinks(p)
    BY <1>12 DEF ExitUnlinks, Goto, Quiet
  <1>13. CASE Crash(p)
    BY <1>13 DEF Crash, CloseFile, Goto, Quiet
  <1> QED
    BY <1>1, <1>2, <1>3, <1>4, <1>5, <1>6, <1>7, <1>8, <1>9, <1>10, <1>11, <1>12, <1>13 DEF Start, End

\* A text grows no longer than some pid.
LEMMA NoLongerThanAPidStep ==
  ASSUME Naming, forced = {}, NEW p \in Procs, Start(p) \/ End(p)
  PROVE  NoLongerThanAPid'
  <1>1. CASE \E n \in 0..Digits[p] : SavePid(p, n)
    <2> PICK n \in 0..Digits[p] : SavePid(p, n)
      BY <1>1
    <2> SUFFICES ASSUME NEW f \in FileIds, text'[f] # << >>
                 PROVE  \E q \in Procs : Len(text'[f]) <= Digits[q]
      BY DEF NoLongerThanAPid, SavePid, FileIds
    <2>1. CASE f # fd[p]
      BY <2>1, SaveFacts DEF Naming, NoLongerThanAPid
    <2>2. CASE f = fd[p] /\ Len(text'[f]) <= Digits[p]
      BY <2>2
    <2>3. CASE f = fd[p] /\ Len(text'[f]) = Len(text[f])
      <3>1. text[f] # << >>
        <4>1. text'[f] \in Seq(Char)
          BY <2>3, SaveFacts
        <4>2. Len(text'[f]) # 0
          BY <4>1
        <4> QED
          BY <2>3, <4>2
      <3> QED
        BY <2>3, <3>1 DEF Naming, NoLongerThanAPid
    <2> QED
      BY <2>1, <2>2, <2>3, SaveFacts
  <1>2. CASE ~\E n \in 0..Digits[p] : SavePid(p, n)
    <2>1. UNCHANGED text
      BY <1>2 DEF Start, End, Launch, ConfigFails, OpenFile, SkipLock, Lock, Unknown, Report,
                  KillOnly, KillAndStart, ExitCloses, ExitUnlinks, Crash, fs
    <2> QED
      BY <2>1 DEF Naming, NoLongerThanAPid, FileIds
  <1> QED
    BY <1>1, <1>2

\* So a file names its holder always.
LEMMA NamingHolds == Spec => []Naming
  <1>1. Naming /\ [Next]_vars /\ Contents' => Naming'
    <2> SUFFICES ASSUME Naming, [Next]_vars, Contents' PROVE Naming'
      OBVIOUS
    <2>1. CASE Next
      <3>1. PICK p \in Procs : Start(p) \/ End(p)
        BY <2>1 DEF Next
      <3>2. HoldersAreActive' /\ SaversRan'
        BY <3>1, HoldersAreActiveStep, SaversRanStep
      <3>3. forced' = {} => Rewound' /\ WritersAreKnown' /\ HoldersAreNamed' /\ NoLongerThanAPid'
        BY <3>1, RewoundStep, WritersAreKnownStep, HoldersAreNamedStep, NoLongerThanAPidStep
      <3> QED
        BY <3>2, <3>3 DEF Naming
    <2>2. CASE UNCHANGED vars
      BY <2>2 DEF vars, fs, Naming, HoldersAreActive, Active, FileIds, Rewound, WritersAreKnown,
                  HoldersAreNamed, NoLongerThanAPid, SaversRan
    <2> QED
      BY <2>1, <2>2
  <1> QED
    BY <1>1, InitNaming, ContentsHold, PTL DEF Spec

\* For any number of instances and pids of any length, as long as no instance
\* was let go on without the lock and the number ends where the file does: if
\* the file has the pid of one instance, -k signals no running instance but the
\* holder of the lock; if the holder has written its pid and no pid is longer,
\* -k signals the holder and no one else (pid_lock_handle_multiple_instance,
\* pid_lock_save_pid).
THEOREM KillFindsHolder == Spec => KillHitsHolder
  <1>1. Naming /\ [Next]_vars => [\A p \in Procs : KillHitsHolderStep(p)]_vars
    <2> SUFFICES ASSUME Naming, forced = {}, NEW p \in Procs, pc[p] = "busy",
                        NEW hits \in InFile(p), KillOnly(p, hits) \/ KillAndStart(p, hits)
                 PROVE  LET h == holder[fd[p]] IN
                        /\ Named(text[fd[p]]) # {} =>
                             \A q \in Procs : term'[q] /\ ~term[q] /\ pc[q] = "running" => q = h
                        /\ h # Nobody /\ pc[h] = "running" /\ h \in saved /\ Overwrites(h) =>
                             \A q \in Procs : term'[q] <=> term[q] \/ q = h
      BY DEF KillHitsHolderStep
    <2> DEFINE f == fd[p]
               h == holder[f]
    <2>1. f \in FileIds
      <3>1. f # 0
        BY DEF Naming, Contents, Locking, EveryoneHasFile, HasFile
      <3> QED
        BY <3>1, OpenIsId DEF Naming, Contents, Locking
    <2>2. text[f] \in Seq(Char) /\ h \in Procs \cup {Nobody} /\ term \in [Procs -> BOOLEAN]
      BY <2>1 DEF Naming, Contents, Locking, Shapes, TextTypes
    <2>3. Signal(hits)
      BY DEF KillOnly, KillAndStart
    <2>4. \A q, r \in Named(text[f]) : q = r
      <3> SUFFICES ASSUME NEW q \in Procs, NEW r \in Procs, Pid(q) = Pid(r) PROVE q = r
        BY DEF Named
      <3>1. Pid(q)[1] = <<q, 1>> /\ Pid(r)[1] = <<r, 1>>
        BY PidFacts
      <3>2. <<q, 1>> = <<r, 1>>
        BY <3>1
      <3> QED
        BY <3>2
    <2>5. Named(text[f]) # {} => hits = Named(text[f])
      BY DEF InFile
    <2>6. ASSUME Named(text[f]) # {}, NEW q \in Procs, term'[q], ~term[q], pc[q] = "running"
          PROVE  q = h
      <3>1. q \in hits
        BY <2>3, <2>6 DEF Signal
      <3>2. text[f] = Pid(q)
        BY <2>5, <2>6, <3>1 DEF Named
      <3>3. text[f] # << >> /\ text[f][1] = <<q, 1>>
        BY <3>2, PidFacts
      <3>4. mode[q] # "off" /\ fd[q] = f
        BY <2>1, <2>6, <3>3 DEF Naming, WritersAreKnown
      <3> QED
        BY <2>6, <3>4 DEF Naming, Contents, Locking, LockIsHeld, Active
    <2>7. ASSUME h # Nobody, pc[h] = "running", h \in saved, Overwrites(h), NEW q \in Procs
          PROVE  term'[q] <=> term[q] \/ q = h
      <3>1. h \in Procs /\ Digits[h] \in Nat \ {0}
        BY <2>2, <2>7, PidFacts
      <3>2. Digits[h] <= Len(text[f]) /\ \A k \in 1..Digits[h] : text[f][k] = <<h, k>>
        BY <2>1, <2>7, <3>1 DEF Naming, HoldersAreNamed
      <3>3. Len(text[f]) = Digits[h]
        <4>1. text[f] # << >>
          BY <3>1, <3>2
        <4>2. PICK r \in Procs : Len(text[f]) <= Digits[r]
          BY <2>1, <4>1 DEF Naming, NoLongerThanAPid
        <4>3. Digits[r] <= Digits[h] /\ Digits[r] \in Nat /\ Len(text[f]) \in Nat
          BY <2>2, <2>7, PidFacts DEF Overwrites
        <4> QED
          BY <3>1, <3>2, <4>2, <4>3
      <3>4. text[f] = Pid(h)
        <4>1. text[f] = [k \in 1..Digits[h] |-> text[f][k]]
          BY <2>2, <3>3
        <4> QED
          BY <3>2, <4>1 DEF Pid
      <3>5. hits = {h}
        <4>1. h \in Named(text[f])
          BY <3>1, <3>4 DEF Named
        <4>2. Named(text[f]) = {h}
          BY <2>4, <4>1
        <4> QED
          BY <2>5, <4>2
      <3>6. Alive(h)
        BY <2>7 DEF Alive
      <3>7. term'[q] = (term[q] \/ (q \in hits /\ Alive(q)))
        BY <2>3 DEF Signal
      <3> QED
        BY <3>5, <3>6, <3>7
    <2> QED
      BY <2>6, <2>7
  <1> QED
    BY <1>1, NamingHolds, PTL DEF Spec, KillHitsHolder

=============================================================================
