------------------------------ MODULE LogFile ------------------------------
(***************************************************************************)
(* The log that all KuGou processes append to (src/logging.cpp).  The      *)
(* threads of a process take turns by its std::mutex, processes by a named *)
(* mutex, which a process may have failed to create.  A file that has      *)
(* grown too long becomes the archive and a new one is begun.              *)
(***************************************************************************)
EXTENDS Integers, FiniteSets

CONSTANTS
    Processes,
    Threads,
    ProcessOf,      \* the process of a thread
    None,           \* no thread
    LineSizes,      \* the sizes of lines
    LongestLine,    \* a bound of them
    MaximumLogSize, \* kMaximumLogSize, in the unit of the line sizes
    WriteBudget,    \* bound: calls of Write
    FaultBudget,    \* bound: opens, size checks, moves and writes that fail
    DeathBudget     \* bound: processes that die, and processes that hang

ASSUME LogAssumption ==
    /\ ProcessOf \in [Threads -> Processes]
    /\ None \notin Threads
    /\ {MaximumLogSize, LongestLine} \subseteq Nat \ {0}
    /\ LineSizes \subseteq 1..LongestLine
    /\ {WriteBudget, FaultBudget, DeathBudget} \subseteq Nat

VARIABLES
    named,          \* the processes that have the named mutex
    process,        \* whether a process runs, hangs or is dead
    pc,             \* a thread's place in Write
    local,          \* the owner of each process' g_log_mutex
    owner,          \* the owner of the named mutex
    handle,         \* the file a thread has open
    exists,         \* whether there is a file at g_log_path
    log, archive,   \* the bytes in the files, numbered as they are appended
    written,        \* the bytes appended
    calls, faults, deaths   \* counted against the budgets

vars == <<named, process, pc, local, owner, handle, exists, log, archive, written,
          calls, faults, deaths>>

TypeOK ==
    /\ named \subseteq Processes
    /\ process \in [Processes -> {"runs", "hangs", "dead"}]
    /\ pc \in [Threads -> {"idle", "lock", "wait", "open", "size", "move", "reopen",
                           "append", "release"}]
    /\ local \in [Processes -> Threads \cup {None}]
    /\ owner \in Threads \cup {None}
    /\ handle \in [Threads -> {"none", "log", "archive", "lost"}]
    /\ exists \in BOOLEAN
    /\ log \subseteq 1..written /\ archive \subseteq 1..written
    /\ calls \in 0..WriteBudget /\ written \in 0..(LongestLine * calls)
    /\ faults \in 0..FaultBudget /\ deaths \in 0..DeathBudget

\* Initialize has been called by every process.
Init ==
    /\ named \in SUBSET Processes
    /\ process = [p \in Processes |-> "runs"]
    /\ pc = [t \in Threads |-> "idle"]
    /\ local = [p \in Processes |-> None] /\ owner = None
    /\ handle = [t \in Threads |-> "none"]
    /\ exists = FALSE /\ log = {} /\ archive = {} /\ written = 0
    /\ calls = 0 /\ faults = 0 /\ deaths = 0

Step(t, from, to) ==
    /\ pc[t] = from /\ process[ProcessOf[t]] = "runs"
    /\ pc' = [pc EXCEPT ![t] = to]
lockVars == <<local, owner>>
fileVars == <<handle, exists, log, archive, written>>
countVars == <<calls, faults, deaths>>

Fails == faults < FaultBudget /\ faults' = faults + 1

-----------------------------------------------------------------------------
(* Write, by thread t.                                                     *)

Write(t) ==
    /\ Step(t, "idle", "lock")
    /\ calls < WriteBudget /\ calls' = calls + 1
    /\ UNCHANGED <<named, process, lockVars, fileVars, faults, deaths>>

Lock(t) ==
    /\ local[ProcessOf[t]] = None
    /\ local' = [local EXCEPT ![ProcessOf[t]] = t]
    /\ Step(t, "lock", IF ProcessOf[t] \in named THEN "wait" ELSE "open")
    /\ UNCHANGED <<named, process, owner, fileVars, countVars>>

\* WaitForSingleObject; a dead owner's mutex is given as abandoned.
Acquire(t) ==
    /\ Step(t, "wait", "open")
    /\ owner = None
    /\ owner' = t
    /\ UNCHANGED <<named, process, local, fileVars, countVars>>

\* After a second the line is given up.
TimeoutIgnored(t) ==
    /\ Step(t, "wait", "open") /\ owner # None
    /\ UNCHANGED <<named, process, lockVars, fileVars, countVars>>
TimeoutInfinite(t) == FALSE /\ UNCHANGED vars
Timeout(t) ==
    /\ Step(t, "wait", "release") /\ owner # None
    /\ UNCHANGED <<named, process, lockVars, fileVars, countVars>>

\* OpenLogFile, at first and after the rotation.
OpenLogFile(t) ==
    /\ \/ /\ Step(t, "open", "size") \/ Step(t, "reopen", "append")
          /\ handle' = [handle EXCEPT ![t] = "log"]
          /\ exists' = TRUE
          /\ UNCHANGED faults
       \/ /\ Step(t, "open", "release") \/ Step(t, "reopen", "release")
          /\ Fails /\ UNCHANGED <<handle, exists>>
    /\ UNCHANGED <<named, process, lockVars, log, archive, written, calls, deaths>>

Content(t) == IF handle[t] = "log" THEN log ELSE archive

\* RotateLogIfNeeded compares the size before the line is appended; that of a
\* log that was replaced twice is not known.
FullLate(t) == Cardinality(Content(t)) > MaximumLogSize
Full(t) == Cardinality(Content(t)) >= MaximumLogSize

\* GetFileSizeEx may fail, and the log be full all the same.
SmallEnough(t) ==
    /\ Step(t, "size", "append")
    /\ \/ handle[t] = "lost" /\ UNCHANGED faults
       \/ ~Full(t) /\ UNCHANGED faults
       \/ Fails
    /\ UNCHANGED <<named, process, lockVars, fileVars, calls, deaths>>

CloseFull(t) ==
    /\ Step(t, "size", "move")
    /\ handle[t] = "lost" \/ Full(t)
    /\ handle' = [handle EXCEPT ![t] = "none"]
    /\ UNCHANGED <<named, process, lockVars, exists, log, archive, written, countVars>>

\* MoveFileEx replaces the archive; who has the files open keeps them open.
Moved(h) ==
    CASE h = "log" -> "archive" [] h = "archive" -> "lost" [] OTHER -> h

MoveLog(t) ==
    /\ Step(t, "move", "reopen")
    /\ \/ /\ exists
          /\ archive' = log /\ log' = {} /\ exists' = FALSE
          /\ handle' = [u \in Threads |-> Moved(handle[u])]
          /\ UNCHANGED faults
       \/ /\ (~exists /\ UNCHANGED faults) \/ Fails
          /\ UNCHANGED <<exists, log, archive, handle>>
    /\ UNCHANGED <<named, process, lockVars, written, calls, deaths>>

\* The n bytes that come next.
Line(n) == (written + 1)..(written + n)

AppendTwice(t) ==
    /\ Step(t, "append", "release")
    /\ handle' = [handle EXCEPT ![t] = "none"]
    /\ \E n \in LineSizes :
          /\ written' = written + 2 * n
          /\ log' = IF handle[t] = "log" THEN log \cup Line(2 * n) ELSE log
    /\ UNCHANGED <<named, process, lockVars, exists, archive, countVars>>

\* FILE_APPEND_DATA: the line goes to the end of the file at once.
Append(t) ==
    /\ Step(t, "append", "release")
    /\ handle' = [handle EXCEPT ![t] = "none"]
    /\ \/ \E n \in LineSizes :
             /\ written' = written + n
             /\ log' = IF handle[t] = "log" THEN log \cup Line(n) ELSE log
             /\ archive' = IF handle[t] = "archive" THEN archive \cup Line(n) ELSE archive
             /\ UNCHANGED faults
       \/ Fails /\ UNCHANGED <<written, log, archive>>
    /\ UNCHANGED <<named, process, lockVars, exists, calls, deaths>>

\* The destructors of NamedMutexLock and of lock_guard.
Release(t) ==
    /\ Step(t, "release", "idle")
    /\ owner' = IF owner = t THEN None ELSE owner
    /\ local' = [local EXCEPT ![ProcessOf[t]] = None]
    /\ UNCHANGED <<named, process, fileVars, countVars>>

WriterStep(t) ==
    \/ Lock(t) \/ Acquire(t) \/ Timeout(t) \/ OpenLogFile(t) \/ SmallEnough(t)
    \/ CloseFull(t) \/ MoveLog(t) \/ Append(t) \/ Release(t)

-----------------------------------------------------------------------------
(* A process hangs for good, or dies and is started again.                 *)

Hang(p) ==
    /\ process[p] = "runs"
    /\ deaths < DeathBudget /\ deaths' = deaths + 1
    /\ process' = [process EXCEPT ![p] = "hangs"]
    /\ UNCHANGED <<named, pc, lockVars, fileVars, calls, faults>>

Die(p) ==
    /\ process[p] # "dead"
    /\ deaths < DeathBudget /\ deaths' = deaths + 1
    /\ process' = [process EXCEPT ![p] = "dead"]
    /\ owner' = IF owner # None /\ ProcessOf[owner] = p THEN None ELSE owner
    /\ local' = [local EXCEPT ![p] = None]
    /\ pc' = [t \in Threads |-> IF ProcessOf[t] = p THEN "idle" ELSE pc[t]]
    /\ handle' = [t \in Threads |-> IF ProcessOf[t] = p THEN "none" ELSE handle[t]]
    /\ UNCHANGED <<named, exists, log, archive, written, calls, faults>>

\* Initialize: CreateMutex may fail.  A process that once ran without the
\* mutex counts as one without it.
Initialize(p) ==
    /\ process[p] = "dead"
    /\ process' = [process EXCEPT ![p] = "runs"]
    /\ named' \in {named, named \ {p}}
    /\ UNCHANGED <<pc, lockVars, fileVars, countVars>>

Next ==
    \/ \E t \in Threads : Write(t) \/ WriterStep(t)
    \/ \E p \in Processes : Hang(p) \/ Die(p) \/ Initialize(p)

Spec == Init /\ [][Next]_vars

\* Every thread of a running process goes on.
Fairness == \A t \in Threads : WF_vars(WriterStep(t))

FairSpec == Spec /\ Fairness

-----------------------------------------------------------------------------
(* Properties.                                                             *)

\* The last lines, as much of them as the maximum size, are in the log or its
\* archive, however the threads of all processes interleave, hang, give up and
\* die, as long as every process has the named mutex.
RecentLinesKept ==
    named = Processes =>
        \A n \in 1..written : n > written - MaximumLogSize => n \in log \cup archive

\* Neither file outgrows its maximum by a whole line while every process has the
\* named mutex and no file operation fails: the size is compared before the
\* line is appended, by one thread at a time.
LogBounded ==
    named = Processes /\ faults = 0 =>
        /\ Cardinality(log) < MaximumLogSize + LongestLine
        /\ Cardinality(archive) < MaximumLogSize + LongestLine

\* Write returns, although another process hangs while it holds the log.
WriteEnds ==
    \A t \in Threads :
        pc[t] # "idle" ~> pc[t] = "idle" \/ process[ProcessOf[t]] = "hangs"

=============================================================================
