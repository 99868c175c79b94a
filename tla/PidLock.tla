------------------------------ MODULE PidLock ------------------------------
(***************************************************************************)
(* Several instances of MiniEAP and the pid file that is to keep all but   *)
(* one of them from running: both halves of util/pid_lock.c, in the order  *)
(* in which main and the exit handler call them.                           *)
(*                                                                         *)
(* The file system is a path that names one file or none, files that live  *)
(* on while somebody has them open, and one exclusive lock on each.  Every *)
(* system call is a step.  An instance that goes into the background keeps *)
(* its open file and writes the pid of the child, so it is one process     *)
(* here.  No two instances have the same pid.                              *)
(***************************************************************************)
EXTENDS Integers, Sequences, FiniteSets

CONSTANTS
  Procs,     \* the instances that are started, each once
  Nobody,    \* holder of a lock that is free
  Digits,    \* how long the pid of an instance is, written down
  Platforms, \* "posix", "windows"
  Modes      \* what -k and --pid-file say: "none", "only", "start", "off"

ASSUME ProcsAssumption == IsFiniteSet(Procs) /\ Nobody \notin Procs
ASSUME DigitsAssumption == Digits \in [Procs -> 1..11]
ASSUME ChoicesAssumption ==
  /\ Platforms \subseteq {"posix", "windows"}
  /\ Modes \subseteq {"none", "only", "start", "off"}

VARIABLES
  platform, \* the half of pid_lock.c that was built
  mode,     \* PROG_CONFIG.kill_type, or "off" when pidfile is "none"
  pc,       \* where the instance is in main or in its exit handler
  fd,       \* the file pid_lock_fd refers to, 0 for 0 and for -1
  offset,   \* the position of pid_lock_fd in its file
  term,     \* the instance has been sent a SIGTERM it has not acted upon
  path,     \* the file the name of the pid file refers to, 0 for none
  files,    \* the number of files created so far
  text,     \* the contents of each file
  holder,   \* who has the lock on each file
  forced,   \* history: instances that went on without the lock
  saved     \* history: instances that wrote all of their pid

fs == <<path, files, text, holder>>
vars == <<platform, mode, pc, fd, offset, term, fs, forced, saved>>

FileIds == 1..Cardinality(Procs)
Windows == platform = "windows"

\* A pid as it is written down: digits, of which only the first is told from
\* the others.
Pid(p) == [k \in 1..Digits[p] |-> <<p, k>>]

\* Overwriting s with t from a position that is not beyond its end.
WriteAt(s, pos, t) ==
  [k \in 1..(IF Len(s) > pos + Len(t) THEN Len(s) ELSE pos + Len(t)) |->
     IF k > pos /\ k <= pos + Len(t) THEN t[k - pos] ELSE s[k]]

\* The instance whose pid s is.
Named(s) == {p \in Procs : s = Pid(p)}

Alive(p) == pc[p] \notin {"unborn", "gone"}
Active(p) == pc[p] \in {"locked", "running"} /\ mode[p] # "off"

Places == {"unborn", "setup", "opened", "busy", "locked", "running", "closed", "gone"}

TypeOK ==
  /\ platform \in Platforms
  /\ mode \in [Procs -> Modes]
  /\ pc \in [Procs -> Places]
  /\ fd \in [Procs -> 0..files]
  /\ offset \in [Procs -> Nat]
  /\ term \in [Procs -> BOOLEAN]
  /\ path \in 0..files
  /\ files \in 0..Cardinality(Procs)
  /\ DOMAIN text = FileIds
  /\ holder \in [FileIds -> Procs \cup {Nobody}]
  /\ forced \subseteq Procs
  /\ saved \subseteq Procs

----------------------------------------------------------------------------
(* Effects shared by the steps. *)

Goto(p, place) == pc' = [pc EXCEPT ![p] = place]

\* close(): the position and the lock go with the open file.
CloseFile(p) ==
  /\ fd' = [fd EXCEPT ![p] = 0]
  /\ offset' = [offset EXCEPT ![p] = 0]
  /\ holder' = [f \in FileIds |-> IF holder[f] = p THEN Nobody ELSE holder[f]]

Quiet == UNCHANGED <<platform, mode, forced, saved>>

----------------------------------------------------------------------------
(* main up to the lock. *)

Launch(p) ==
  /\ pc[p] = "unborn"
  /\ Goto(p, "setup")
  /\ Quiet
  /\ UNCHANGED <<fd, offset, term, fs>>

\* Configuration fails before the pid file is touched.
ConfigFails(p) ==
  /\ pc[p] = "setup"
  /\ Goto(p, "gone")
  /\ Quiet
  /\ UNCHANGED <<fd, offset, term, fs>>

\* Bug: nobody looks whether the file could be opened.
OpenFileUnchecked(p) ==
  /\ pc[p] = "setup"
  /\ mode[p] # "off"
  /\ Goto(p, "opened")
  /\ fd' = [fd EXCEPT ![p] = IF path = 0 THEN -1 ELSE path]
  /\ Quiet
  /\ UNCHANGED <<offset, term, fs>>

\* pid_lock_init: the file is created when there is none; it may fail to open.
OpenFile(p) ==
  /\ pc[p] = "setup"
  /\ mode[p] # "off"
  /\ Goto(p, "opened")
  /\ IF path = 0
       THEN /\ files' = files + 1
            /\ path' = files + 1
            /\ fd' = [fd EXCEPT ![p] = files + 1]
       ELSE /\ fd' = [fd EXCEPT ![p] = path]
            /\ UNCHANGED <<files, path>>
  /\ Quiet
  /\ UNCHANGED <<offset, term, text, holder>>

\* With --pid-file none every function of the lock does nothing.
SkipLock(p) ==
  /\ pc[p] = "setup"
  /\ mode[p] = "off"
  /\ Goto(p, "running")
  /\ Quiet
  /\ UNCHANGED <<fd, offset, term, fs>>

\* flock(LOCK_EX | LOCK_NB), LockFileEx
Lock(p) ==
  /\ pc[p] = "opened"
  /\ IF holder[fd[p]] = Nobody
       THEN Goto(p, "locked") /\ holder' = [holder EXCEPT ![fd[p]] = p]
       ELSE Goto(p, "busy") /\ UNCHANGED holder
  /\ Quiet
  /\ UNCHANGED <<fd, offset, term, path, files, text>>

----------------------------------------------------------------------------
(* pid_lock_handle_multiple_instance. *)

\* On Windows the lock keeps others from reading the file.
Readable(p) == Windows => holder[fd[p]] \in {Nobody, p}

\* The caller closes the file and forgets it; main returns.
GiveUp(p) ==
  /\ Goto(p, "gone")
  /\ CloseFile(p)

\* The pid cannot be read, for the lock or for any other reason, or what was
\* read begins with a zero.
Unknown(p) ==
  /\ pc[p] = "busy"
  /\ GiveUp(p)
  /\ Quiet
  /\ UNCHANGED <<term, path, files, text>>

\* Whom the number in the file hits: the instance it names; a mixture of the
\* digits of several pids is the pid of some other instance or of none.
InFile(p) ==
  LET number == text[fd[p]] IN
  CASE Named(number) # {} -> {Named(number)}
    [] number = <<>> -> {}
    [] OTHER -> {{}} \cup {{q} : q \in {r \in Procs : Digits[r] = Len(number)}}

\* Whom it hits with what is behind it: on POSIX nothing clears the buffer or
\* ends the text in it, so digits may follow, or be all there is if the file
\* is empty, and zero or a negative number hits many.
InBuffer(p) == InFile(p) \cup (IF Windows THEN {} ELSE SUBSET Procs)

\* SIGTERM is answered by exit(0), TerminateProcess by nothing: ExitCloses and
\* Crash, which an instance may meet at any time anyway.
Signal(hits) == term' = [q \in Procs |-> term[q] \/ (q \in hits /\ Alive(q))]

\* Without -k the instance only says that there is another one.
Report(p) ==
  /\ pc[p] = "busy"
  /\ mode[p] = "none"
  /\ Readable(p)
  /\ GiveUp(p)
  /\ Quiet
  /\ UNCHANGED <<term, path, files, text>>

KillOnly(p, hits) ==
  /\ pc[p] = "busy"
  /\ mode[p] = "only"
  /\ Readable(p)
  /\ hits \in InBuffer(p)
  /\ Signal(hits)
  /\ GiveUp(p)
  /\ Quiet
  /\ UNCHANGED <<path, files, text>>

\* The lock is not asked for again, and the file stays where reading left it.
KillAndStart(p, hits) ==
  /\ pc[p] = "busy"
  /\ mode[p] = "start"
  /\ Readable(p)
  /\ hits \in InBuffer(p)
  /\ Signal(hits)
  /\ Goto(p, "locked")
  /\ offset' = [offset EXCEPT ![p] = Len(text[fd[p]])]
  /\ forced' = forced \cup {p}
  /\ UNCHANGED <<platform, mode, fd, fs, saved>>

\* Bug: the pid is written after whatever the file holds.
SavePidAtEnd(p, n) ==
  /\ pc[p] = "locked"
  /\ Goto(p, "running")
  /\ text' = [text EXCEPT ![fd[p]] = @ \o SubSeq(Pid(p), 1, n)]
  /\ saved' = IF n = Digits[p] THEN saved \cup {p} ELSE saved
  /\ UNCHANGED <<platform, mode, forced, fd, offset, term, path, files, holder>>

\* pid_lock_save_pid: POSIX writes where the file stands and leaves the rest
\* of it, Windows truncates it first but cannot write past another's lock.  The
\* write may fail, or end after n characters; main goes on all the same.
SavePid(p, n) ==
  /\ pc[p] = "locked"
  /\ Windows /\ ~Readable(p) => n = 0
  /\ Goto(p, "running")
  /\ text' = IF ~Windows
               THEN [text EXCEPT ![fd[p]] = WriteAt(@, offset[p], SubSeq(Pid(p), 1, n))]
               ELSE IF Readable(p) THEN [text EXCEPT ![fd[p]] = SubSeq(Pid(p), 1, n)] ELSE text
  /\ saved' = IF n = Digits[p] THEN saved \cup {p} ELSE saved
  /\ UNCHANGED <<platform, mode, forced, fd, offset, term, path, files, holder>>

----------------------------------------------------------------------------
(* The ends of an instance. *)

\* exit() from any place, by a failure or by a signal: pid_lock_destroy closes
\* the file it has open and then removes the name.
ExitCloses(p) ==
  /\ pc[p] \in {"setup", "opened", "busy", "locked", "running"}
  /\ IF fd[p] = 0 THEN Goto(p, "gone") ELSE Goto(p, "closed")
  /\ CloseFile(p)
  /\ Quiet
  /\ UNCHANGED <<term, path, files, text>>

\* Bug: the name is removed although the file is in use.
ExitUnlinksAlways(p) ==
  /\ pc[p] = "closed"
  /\ Goto(p, "gone")
  /\ path' = 0
  /\ Quiet
  /\ UNCHANGED <<fd, offset, term, files, text, holder>>

\* Windows does not delete a file that somebody has open.
ExitUnlinks(p) ==
  /\ pc[p] = "closed"
  /\ Goto(p, "gone")
  /\ path' = IF Windows /\ \E q \in Procs : fd[q] = path THEN path ELSE 0
  /\ Quiet
  /\ UNCHANGED <<fd, offset, term, files, text, holder>>

\* SIGKILL, TerminateProcess or power loss: the system closes the file.
Crash(p) ==
  /\ Alive(p)
  /\ Goto(p, "gone")
  /\ CloseFile(p)
  /\ Quiet
  /\ UNCHANGED <<term, path, files, text>>

Init ==
  /\ platform \in Platforms
  /\ mode \in [Procs -> Modes]
  /\ pc = [p \in Procs |-> "unborn"]
  /\ fd = [p \in Procs |-> 0]
  /\ offset = [p \in Procs |-> 0]
  /\ term = [p \in Procs |-> FALSE]
  /\ path = 0
  /\ files = 0
  /\ text = [f \in FileIds |-> <<>>]
  /\ holder = [f \in FileIds |-> Nobody]
  /\ forced = {}
  /\ saved = {}

Start(p) ==
  \/ Launch(p)
  \/ ConfigFails(p)
  \/ OpenFile(p)
  \/ SkipLock(p)
  \/ Lock(p)
  \/ Unknown(p)
  \/ Report(p)
  \/ \E hits \in SUBSET Procs : KillOnly(p, hits)
  \/ \E hits \in SUBSET Procs : KillAndStart(p, hits)
  \/ \E n \in 0..Digits[p] : SavePid(p, n)

End(p) == ExitCloses(p) \/ ExitUnlinks(p) \/ Crash(p)

Next == \E p \in Procs : Start(p) \/ End(p)

Spec == Init /\ [][Next]_vars

\* At most one instance runs with the lock.  On POSIX two can, but only after
\* the name of the file was taken from one of them; on Windows a file in use
\* keeps its name.  An instance that -k let go on without the lock is not
\* counted.
SingleInstance ==
  \A p, q \in Procs :
    Active(p) /\ Active(q) /\ p # q /\ {p, q} \cap forced = {} =>
      ~Windows /\ {fd[p], fd[q]} # {path}

\* No pid is longer, so none leaves digits behind when it is overwritten.
Overwrites(p) == \A q \in Procs : Digits[q] <= Digits[p]

\* One reader of the number in the file against the holder of its lock.
KillHitsHolderStep(p) ==
  pc[p] = "busy" /\ forced = {} =>
    LET h == holder[fd[p]] IN
    \A hits \in InFile(p) : KillOnly(p, hits) \/ KillAndStart(p, hits) =>
      /\ Named(text[fd[p]]) # {} =>
           \A q \in Procs : term'[q] /\ ~term[q] /\ pc[q] = "running" => q = h
      /\ h # Nobody /\ pc[h] = "running" /\ h \in saved /\ Overwrites(h) =>
           \A q \in Procs : term'[q] <=> term[q] \/ q = h

\* When what was read from the file ends where the file does, -k signals the
\* instance that holds the lock, or nobody that runs, if the file has the pid
\* of one instance; and when the holder has written its pid over all there
\* was, it signals the holder and no one else.  (While an earlier -k has let an
\* instance write to the file of another, nothing holds.)
KillHitsHolder == [][\A p \in Procs : KillHitsHolderStep(p)]_vars

=============================================================================
