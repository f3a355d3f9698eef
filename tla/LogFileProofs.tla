--------------------------- MODULE LogFileProofs ---------------------------
(***************************************************************************)
(* Proofs about LogFile, for any processes, threads, lines and maximum     *)
(* size.  The inductive invariant IInv says how far the log reaches back:  *)
(* it holds the bytes after the k-th, and the archive the last of those up *)
(* to it.                                                                  *)
(***************************************************************************)
EXTENDS LogFile, FiniteSetTheorems, TLAPS

Types ==
    /\ named \subseteq Processes
    /\ pc \in [Threads -> {"idle", "lock", "wait", "open", "size", "move", "reopen",
                           "append", "release"}]
    /\ owner \in Threads \cup {None}
    /\ handle \in [Threads -> {"none", "log", "archive", "lost"}]
    /\ exists \in BOOLEAN
    /\ written \in Nat /\ faults \in Nat

Inside == {"open", "size", "move", "reopen", "append"}

\* Who works on the files owns the named mutex.
Owned == \A t \in Threads : pc[t] \in Inside => owner = t

\* A thread has the log open from its size check to its append, and nothing
\* else open ever.
Opened ==
    \A t \in Threads :
        handle[t] = IF pc[t] \in {"size", "append"} THEN "log" ELSE "none"

\* The log begins after byte k; the last ones up to k are in the archive.
Begins(k) ==
    /\ k <= written
    /\ log = (k + 1)..written
    /\ \A n \in 1..k : n > k - MaximumLogSize => n \in archive
    /\ exists \/ k = written
    /\ \A t \in Threads :
          /\ pc[t] \in {"size", "append"} => exists
          /\ pc[t] = "move" => written - k >= MaximumLogSize

\* The sizes, while no file operation has failed.
Bounded(k) ==
    /\ written - k < MaximumLogSize + LongestLine
    /\ Cardinality(archive) < MaximumLogSize + LongestLine
    /\ \A t \in Threads :
          /\ pc[t] = "append" => written - k < MaximumLogSize
          /\ pc[t] = "reopen" => written = k

Guarded ==
    /\ Owned
    /\ Opened
    /\ \E k \in Nat : Begins(k) /\ (faults = 0 => Bounded(k))

IInv == Types /\ (named = Processes => Guarded)

-----------------------------------------------------------------------------

\* The invariant holds before the first line is written.
LEMMA InitInv == Init => IInv
<1> SUFFICES ASSUME Init PROVE IInv
    OBVIOUS
<1>1. Types
    BY DEF Init, Types
<1>2. Owned /\ Opened
    BY DEF Init, Owned, Opened, Inside
<1>3. Begins(0)
    BY DEF Init, Begins
<1>4. Bounded(0)
    BY FS_EmptySet, LogAssumption DEF Init, Bounded
<1>. QED
    BY <1>1, <1>2, <1>3, <1>4 DEF IInv, Guarded

\* The size of the log.
LEMMA LogSize ==
    ASSUME NEW k \in Nat, written \in Nat, Begins(k)
    PROVE  Cardinality(log) = written - k
<1>1. k <= written /\ log = (k + 1)..written
    BY DEF Begins
<1>2. Cardinality((k + 1)..written) = IF k + 1 > written THEN 0 ELSE written - (k + 1) + 1
    BY FS_Interval
<1>. QED
    BY <1>1, <1>2

\* Every step keeps the types; the mutex, once missing, stays missing.
LEMMA TypesStep == IInv /\ [Next]_vars => Types' /\ named' \subseteq named
<1> SUFFICES ASSUME IInv, [Next]_vars PROVE Types' /\ named' \subseteq named
    OBVIOUS
<1> USE DEF Types, IInv
<1>1. ASSUME NEW t \in Threads, Write(t) \/ WriterStep(t) PROVE Types' /\ named' \subseteq named
    <2> USE DEF Step
    <2>1. CASE Write(t)
        BY <2>1 DEF Write, lockVars, fileVars
    <2>2. CASE Lock(t)
        BY <2>2 DEF Lock, fileVars, countVars
    <2>3. CASE Acquire(t)
        BY <2>3 DEF Acquire, fileVars, countVars
    <2>4. CASE Timeout(t)
        BY <2>4 DEF Timeout, lockVars, fileVars, countVars
    <2>5. CASE OpenLogFile(t)
        <3>1. handle' \in [Threads -> {"none", "log", "archive", "lost"}]
            BY <2>5 DEF OpenLogFile
        <3>2. pc' \in [Threads -> {"idle", "lock", "wait", "open", "size", "move",
                                   "reopen", "append", "release"}]
            BY <2>5 DEF OpenLogFile
        <3>3. exists' \in BOOLEAN
            BY <2>5 DEF OpenLogFile
        <3>4. faults' \in Nat
            BY <2>5 DEF OpenLogFile, Fails
        <3>. QED
            BY <2>5, <3>1, <3>2, <3>3, <3>4 DEF OpenLogFile, lockVars
    <2>6. CASE SmallEnough(t)
        BY <2>6 DEF SmallEnough, lockVars, fileVars, Fails
    <2>7. CASE CloseFull(t)
        BY <2>7 DEF CloseFull, lockVars, countVars
    <2>8. CASE MoveLog(t)
        <3>1. \A h \in {"none", "log", "archive", "lost"} :
                  Moved(h) \in {"none", "log", "archive", "lost"}
            BY DEF Moved
        <3>2. handle' \in [Threads -> {"none", "log", "archive", "lost"}]
            BY <2>8, <3>1 DEF MoveLog
        <3>3. exists' \in BOOLEAN
            BY <2>8 DEF MoveLog
        <3>4. faults' \in Nat
            BY <2>8 DEF MoveLog, Fails
        <3>. QED
            BY <2>8, <3>2, <3>3, <3>4 DEF MoveLog, lockVars
    <2>9. CASE Append(t)
        <3>1. written' \in Nat
            BY <2>9, LogAssumption DEF Append
        <3>2. faults' \in Nat
            BY <2>9 DEF Append, Fails
        <3>3. handle' \in [Threads -> {"none", "log", "archive", "lost"}]
            BY <2>9 DEF Append
        <3>. QED
            BY <2>9, <3>1, <3>2, <3>3 DEF Append, lockVars
    <2>10. CASE Release(t)
        BY <2>10 DEF Release, fileVars, countVars
    <2>. QED
        BY <1>1, <2>1, <2>2, <2>3, <2>4, <2>5, <2>6, <2>7, <2>8, <2>9, <2>10 DEF WriterStep
<1>2. ASSUME NEW p \in Processes, Hang(p) \/ Die(p) \/ Initialize(p)
      PROVE  Types' /\ named' \subseteq named
    BY <1>2 DEF Hang, Die, Initialize, lockVars, fileVars, countVars
<1>3. CASE UNCHANGED vars
    BY <1>3 DEF vars
<1>. QED
    BY <1>1, <1>2, <1>3 DEF Next

-----------------------------------------------------------------------------

\* Whoever enters finds nobody inside, and leaves before it lets go.
LEMMA OwnedStep ==
    ASSUME IInv, Next, named = Processes, Types'
    PROVE  Owned'
<1> USE DEF Types, IInv, Guarded, Owned, Inside
<1>1. ASSUME NEW t \in Threads, Write(t) \/ WriterStep(t) PROVE Owned'
    <2> USE DEF Step
    <2>1. CASE Write(t)
        BY <2>1 DEF Write, lockVars
    <2>2. CASE Lock(t)
        <3>1. ProcessOf[t] \in named
            BY LogAssumption
        <3>. QED
            BY <2>2, <3>1 DEF Lock
    <2>3. CASE Acquire(t)
        BY <2>3, LogAssumption DEF Acquire
    <2>4. CASE Timeout(t)
        BY <2>4 DEF Timeout, lockVars
    <2>5. CASE OpenLogFile(t)
        BY <2>5 DEF OpenLogFile, lockVars
    <2>6. CASE SmallEnough(t)
        BY <2>6 DEF SmallEnough, lockVars
    <2>7. CASE CloseFull(t)
        BY <2>7 DEF CloseFull, lockVars
    <2>8. CASE MoveLog(t)
        BY <2>8 DEF MoveLog, lockVars
    <2>9. CASE Append(t)
        BY <2>9 DEF Append, lockVars
    <2>10. CASE Release(t)
        BY <2>10 DEF Release
    <2>. QED
        BY <1>1, <2>1, <2>2, <2>3, <2>4, <2>5, <2>6, <2>7, <2>8, <2>9, <2>10 DEF WriterStep
<1>2. ASSUME NEW p \in Processes, Hang(p) PROVE Owned'
    BY <1>2 DEF Hang, lockVars
<1>3. ASSUME NEW p \in Processes, Die(p) PROVE Owned'
    BY <1>3 DEF Die
<1>4. ASSUME NEW p \in Processes, Initialize(p) PROVE Owned'
    BY <1>4 DEF Initialize, lockVars
<1>. QED
    BY <1>1, <1>2, <1>3, <1>4 DEF Next

\* A thread at another place has no file open; who renames the log is the only
\* one inside, and has closed it.
LEMMA OpenedStep ==
    ASSUME IInv, Next, named = Processes, Types'
    PROVE  Opened'
<1> USE DEF Types, IInv, Guarded, Opened
<1>1. ASSUME NEW t \in Threads, Write(t) \/ WriterStep(t) PROVE Opened'
    <2> USE DEF Step
    <2>1. CASE Write(t)
        BY <2>1 DEF Write, fileVars
    <2>2. CASE Lock(t)
        BY <2>2 DEF Lock, fileVars
    <2>3. CASE Acquire(t)
        BY <2>3 DEF Acquire, fileVars
    <2>4. CASE Timeout(t)
        BY <2>4 DEF Timeout, fileVars
    <2>5. CASE OpenLogFile(t)
        BY <2>5 DEF OpenLogFile
    <2>6. CASE SmallEnough(t)
        BY <2>6 DEF SmallEnough, fileVars
    <2>7. CASE CloseFull(t)
        BY <2>7 DEF CloseFull
    <2>8. CASE MoveLog(t)
        <3>1. \A u \in Threads \ {t} : pc[u] \notin Inside
            BY <2>8 DEF Owned, MoveLog, Inside
        <3>2. \A u \in Threads : handle[u] = "none"
            BY <2>8, <3>1 DEF MoveLog, Inside
        <3>3. \A u \in Threads : handle'[u] = "none"
            BY <2>8, <3>2 DEF MoveLog, Moved
        <3>4. \A u \in Threads : pc'[u] \notin {"size", "append"}
            BY <2>8, <3>1 DEF MoveLog, Inside
        <3>. QED
            BY <3>3, <3>4
    <2>9. CASE Append(t)
        BY <2>9 DEF Append
    <2>10. CASE Release(t)
        BY <2>10 DEF Release, fileVars
    <2>. QED
        BY <1>1, <2>1, <2>2, <2>3, <2>4, <2>5, <2>6, <2>7, <2>8, <2>9, <2>10 DEF WriterStep
<1>2. ASSUME NEW p \in Processes, Hang(p) PROVE Opened'
    BY <1>2 DEF Hang, fileVars
<1>3. ASSUME NEW p \in Processes, Die(p) PROVE Opened'
    BY <1>3 DEF Die
<1>4. ASSUME NEW p \in Processes, Initialize(p) PROVE Opened'
    BY <1>4 DEF Initialize, fileVars
<1>. QED
    BY <1>1, <1>2, <1>3, <1>4 DEF Next

\* Only the rotation moves k, up to the last byte, when the log is full; an
\* append makes the log longer by a line.
LEMMA BeginsStep ==
    ASSUME IInv, Next, named = Processes, Types',
           NEW k \in Nat, Begins(k), faults = 0 => Bounded(k)
    PROVE  \E m \in Nat : Begins(m)' /\ (faults' = 0 => Bounded(m)')
<1> USE DEF Types, IInv
<1> DEFINE Same == log' = log /\ archive' = archive /\ written' = written
<1>0. /\ MaximumLogSize \in Nat /\ MaximumLogSize > 0
      /\ LongestLine \in Nat /\ LongestLine > 0
      /\ LineSizes \subseteq 1..LongestLine
    BY LogAssumption
<1>1. ASSUME NEW t \in Threads, Write(t) \/ WriterStep(t)
      PROVE  \E m \in Nat : Begins(m)' /\ (faults' = 0 => Bounded(m)')
    <2> USE DEF Step
    <2>1. ASSUME Same, exists' = exists, faults' = faults, NEW to, to \notin {"append", "move"},
                 to = "size" => pc[t] = "size", to = "reopen" => pc[t] = "reopen",
                 pc' = [pc EXCEPT ![t] = to]
          PROVE  Begins(k)' /\ (faults' = 0 => Bounded(k)')
        BY <2>1 DEF Begins, Bounded
    <2>2. CASE Write(t)
        BY <2>1, <2>2 DEF Write, fileVars
    <2>3. CASE Lock(t)
        BY <2>1, <2>3 DEF Lock, fileVars, countVars
    <2>4. CASE Acquire(t)
        BY <2>1, <2>4 DEF Acquire, fileVars, countVars
    <2>5. CASE Timeout(t)
        BY <2>1, <2>5 DEF Timeout, fileVars, countVars
    <2>6. CASE Release(t)
        BY <2>1, <2>6 DEF Release, fileVars, countVars
    <2>7. CASE OpenLogFile(t)
        <3>1. Begins(k)'
            BY <2>7 DEF OpenLogFile, Begins
        <3>2. faults' = 0 => Bounded(k)'
            BY <2>7, <1>0 DEF OpenLogFile, Bounded, Fails
        <3>. QED
            BY <3>1, <3>2
    <2>8. CASE SmallEnough(t)
        <3>1. handle[t] = "log"
            BY <2>8 DEF SmallEnough, Guarded, Opened
        <3>2. Begins(k)'
            BY <2>8 DEF SmallEnough, Begins, fileVars
        <3>3. ASSUME faults' = 0 PROVE Bounded(k)'
            <4>1. ~Full(t) /\ UNCHANGED faults
                BY <2>8, <3>1, <3>3 DEF SmallEnough, Fails
            <4>2. written - k < MaximumLogSize
                BY <3>1, <4>1, <1>0, LogSize DEF Full, Content
            <4>. QED
                BY <2>8, <3>3, <4>1, <4>2 DEF SmallEnough, Bounded, fileVars
        <3>. QED
            BY <3>2, <3>3
    <2>9. CASE CloseFull(t)
        <3>1. handle[t] = "log"
            BY <2>9 DEF CloseFull, Guarded, Opened
        <3>2. written - k >= MaximumLogSize
            BY <2>9, <3>1, <1>0, LogSize DEF CloseFull, Full, Content
        <3>3. Begins(k)'
            BY <2>9, <3>2 DEF CloseFull, Begins
        <3>4. faults' = 0 => Bounded(k)'
            BY <2>9 DEF CloseFull, Bounded, countVars
        <3>. QED
            BY <3>3, <3>4
    <2>10. CASE MoveLog(t)
        <3>1. pc[t] = "move" /\ written - k >= MaximumLogSize
            BY <2>10 DEF MoveLog, Begins
        <3>2. exists
            BY <3>1, <1>0 DEF Begins
        <3>3. \A u \in Threads : pc[u] \in Inside => u = t
            BY <3>1 DEF Guarded, Owned, Inside
        <3>4. CASE archive' = log /\ log' = {} /\ exists' = FALSE /\ UNCHANGED faults
            <4>1. Begins(written)'
                <5>1. log' = ((written + 1)..written)'
                    BY <2>10, <3>4 DEF MoveLog
                <5>2. \A n \in 1..written : n > written - MaximumLogSize => n \in archive'
                    BY <3>1, <3>4, <1>0 DEF Begins
                <5>3. \A u \in Threads : pc'[u] \notin {"size", "append", "move"}
                    BY <2>10, <3>3 DEF MoveLog, Inside
                <5>. QED
                    BY <2>10, <5>1, <5>2, <5>3 DEF MoveLog, Begins
            <4>2. ASSUME faults' = 0 PROVE Bounded(written)'
                <5>1. Cardinality(log) < MaximumLogSize + LongestLine
                    BY <4>2, <3>4, LogSize DEF Bounded
                <5>2. \A u \in Threads : pc'[u] # "append"
                    BY <2>10, <3>3 DEF MoveLog, Inside
                <5>. QED
                    BY <2>10, <3>4, <5>1, <5>2, <1>0 DEF MoveLog, Bounded
            <4>. QED
                BY <4>1, <4>2
        <3>5. CASE Fails /\ UNCHANGED <<exists, log, archive, handle>>
            <4>1. Begins(k)'
                BY <2>10, <3>5 DEF MoveLog, Begins
            <4>. QED
                <5>1. faults' # 0
                    BY <3>5 DEF Fails
                <5>. QED
                    BY <4>1, <5>1
        <3>. QED
            BY <2>10, <3>2, <3>4, <3>5 DEF MoveLog
    <2>11. CASE Append(t)
        <3>1. handle[t] = "log" /\ exists
            BY <2>11 DEF Append, Guarded, Opened, Begins
        <3>2. ASSUME NEW n \in LineSizes, written' = written + n, log' = log \cup Line(n),
                     archive' = archive, UNCHANGED faults
              PROVE  Begins(k)' /\ (faults' = 0 => Bounded(k)')
            <4>0. n \in Nat /\ n > 0 /\ n <= LongestLine
                BY <1>0
            <4>1. log' = ((k + 1)..written)'
                <5>1. k <= written /\ log = (k + 1)..written /\ written \in Nat
                    BY DEF Begins
                <5>2. ((k + 1)..written) \cup ((written + 1)..(written + n))
                          = (k + 1)..(written + n)
                    BY <4>0, <5>1
                <5>. QED
                    BY <3>2, <5>1, <5>2 DEF Line
            <4>2. Begins(k)'
                BY <2>11, <3>1, <3>2, <4>0, <4>1, <1>0 DEF Append, Begins
            <4>3. \A u \in Threads : pc[u] \in Inside => u = t
                BY <2>11 DEF Append, Guarded, Owned, Inside
            <4>4. ASSUME faults' = 0 PROVE Bounded(k)'
                <5>1. written - k < MaximumLogSize
                    BY <2>11, <3>2, <4>4 DEF Append, Bounded
                <5>2. \A u \in Threads : pc'[u] \notin {"append", "reopen"}
                    BY <2>11, <4>3 DEF Append, Inside
                <5>. QED
                    BY <3>2, <4>0, <4>4, <5>1, <5>2, <1>0 DEF Bounded
            <4>. QED
                BY <4>2, <4>4
        <3>3. CASE Fails /\ UNCHANGED <<written, log, archive>>
            <4>1. Begins(k)'
                BY <2>11, <3>3 DEF Append, Begins
            <4>. QED
                <5>1. faults' # 0
                    BY <3>3 DEF Fails
                <5>. QED
                    BY <4>1, <5>1
        <3>. QED
            BY <2>11, <3>1, <3>2, <3>3 DEF Append
    <2>. QED
        BY <1>1, <2>2, <2>3, <2>4, <2>5, <2>6, <2>7, <2>8, <2>9, <2>10, <2>11 DEF WriterStep
<1>2. ASSUME NEW p \in Processes, Hang(p) \/ Die(p) \/ Initialize(p)
      PROVE  Begins(k)' /\ (faults' = 0 => Bounded(k)')
    BY <1>2 DEF Hang, Die, Initialize, fileVars, countVars, Begins, Bounded
<1>. QED
    BY <1>1, <1>2 DEF Next

\* No step leaves the invariant.
LEMMA Inductive == IInv /\ [Next]_vars => IInv'
<1> SUFFICES ASSUME IInv, [Next]_vars PROVE IInv'
    OBVIOUS
<1>1. Types' /\ named' \subseteq named
    BY TypesStep
<1>2. ASSUME named' = Processes PROVE Guarded'
    <2>1. named = Processes
        BY <1>1, <1>2 DEF IInv, Types
    <2>2. CASE Next
        <3>1. Owned' /\ Opened'
            BY <1>1, <2>1, <2>2, OwnedStep, OpenedStep
        <3>2. PICK k \in Nat : Begins(k) /\ (faults = 0 => Bounded(k))
            BY <2>1 DEF IInv, Guarded
        <3>3. \E m \in Nat : Begins(m)' /\ (faults' = 0 => Bounded(m)')
            BY <1>1, <2>1, <2>2, <3>2, BeginsStep
        <3>. QED
            BY <3>1, <3>3 DEF Guarded
    <2>3. CASE UNCHANGED vars
        BY <2>1, <2>3 DEF vars, IInv, Guarded, Owned, Opened, Begins, Bounded
    <2>. QED
        BY <2>2, <2>3
<1>. QED
    BY <1>1, <1>2 DEF IInv

\* The invariant holds throughout.
LEMMA Invariant == Spec => []IInv
BY InitInv, Inductive, PTL DEF Spec

-----------------------------------------------------------------------------

\* For any processes and threads that write, hang, die and start again: as
\* long as all have the named mutex, the last lines, as much of them as the
\* maximum size, are on disk (NamedMutexLock, RotateLogIfNeeded).
THEOREM RecentLinesAreKept == Spec => []RecentLinesKept
<1>1. IInv => RecentLinesKept
    <2> SUFFICES ASSUME IInv, named = Processes, NEW n \in 1..written,
                        n > written - MaximumLogSize
                 PROVE  n \in log \cup archive
        BY DEF RecentLinesKept
    <2>1. PICK k \in Nat : Begins(k)
        BY DEF IInv, Guarded
    <2>2. written \in Nat /\ MaximumLogSize \in Nat
        BY LogAssumption DEF IInv, Types
    <2>3. CASE n <= k
        BY <2>1, <2>2, <2>3 DEF Begins
    <2>4. CASE n > k
        BY <2>1, <2>2, <2>4 DEF Begins
    <2>. QED
        BY <2>2, <2>3, <2>4
<1>. QED
    BY <1>1, Invariant, PTL

\* Under the same mutex, and while no file operation fails, neither the log nor
\* its archive outgrows the maximum by a whole line, for lines of any size:
\* no two threads find the same log small enough and append to it.
THEOREM FilesStayBounded == Spec => []LogBounded
<1>1. IInv => LogBounded
    <2> SUFFICES ASSUME IInv, named = Processes, faults = 0
                 PROVE  /\ Cardinality(log) < MaximumLogSize + LongestLine
                        /\ Cardinality(archive) < MaximumLogSize + LongestLine
        BY DEF LogBounded
    <2>1. PICK k \in Nat : Begins(k) /\ Bounded(k)
        BY DEF IInv, Guarded
    <2>2. written \in Nat
        BY DEF IInv, Types
    <2>. QED
        BY <2>1, <2>2, LogSize DEF Bounded
<1>. QED
    BY <1>1, Invariant, PTL

-----------------------------------------------------------------------------

\* Whose line is yet to be appended.
Pending == {t \in Threads : pc[t] \in {"lock", "wait"} \cup Inside}

\* Every line appended, and every one still to come, is of a call of its own.
Counted ==
    /\ IsFiniteSet(Pending)
    /\ written + LongestLine * Cardinality(Pending) <= LongestLine * calls

\* The arithmetic of it.
LEMMA OneMore ==
    ASSUME NEW a \in Nat, NEW n \in Nat
    PROVE  a * n \in Nat /\ a * (n + 1) = a * n + a
OBVIOUS

LEMMA Fewer ==
    ASSUME NEW a \in Nat, NEW m \in Nat, NEW n \in Nat, m <= n
    PROVE  a * m <= a * n
<1>1. PICK d \in Nat : n = m + d
    <2>1. n - m \in Nat /\ n = m + (n - m)
        OBVIOUS
    <2>. QED
        BY <2>1
<1>2. a * (m + d) = a * m + a * d /\ a * d \in Nat /\ a * m \in Nat
    OBVIOUS
<1>3. a * n = a * m + a * d
    BY <1>1, <1>2
<1>. QED
    BY <1>2, <1>3

\* A step that appends nothing and lets nobody begin keeps the count.
LEMMA CountKept ==
    ASSUME TypeOK, Counted, Pending' \subseteq Pending, written' = written, calls' = calls
    PROVE  Counted'
<1>1. IsFiniteSet(Pending') /\ Cardinality(Pending') <= Cardinality(Pending)
    BY FS_Subset DEF Counted
<1>2. Cardinality(Pending) \in Nat /\ Cardinality(Pending') \in Nat
    BY <1>1, FS_CardinalityType DEF Counted
<1>3. written \in Nat /\ calls \in Nat /\ LongestLine \in Nat
    BY LogAssumption DEF TypeOK
<1>4. LongestLine * Cardinality(Pending') <= LongestLine * Cardinality(Pending)
    BY <1>1, <1>2, <1>3, Fewer
<1>5. /\ LongestLine * Cardinality(Pending) \in Nat /\ LongestLine * calls \in Nat
      /\ LongestLine * Cardinality(Pending') \in Nat
    BY <1>2, <1>3, OneMore
<1>. QED
    BY <1>1, <1>3, <1>4, <1>5 DEF Counted

\* A call adds a line to come, an append takes one away.
LEMMA CountStep == TypeOK /\ Counted /\ Next => Counted'
<1> SUFFICES ASSUME TypeOK, Counted, Next PROVE Counted'
    OBVIOUS
<1>1. /\ written \in Nat /\ calls \in Nat /\ LongestLine \in Nat
      /\ LineSizes \subseteq 1..LongestLine
    BY LogAssumption DEF TypeOK
<1>2. IsFiniteSet(Pending) /\ Cardinality(Pending) \in Nat
    BY FS_CardinalityType DEF Counted
<1> DEFINE due == LongestLine * Cardinality(Pending)
           limit == LongestLine * calls
<1>8. due \in Nat /\ limit \in Nat /\ written + due <= limit
    BY <1>1, <1>2, OneMore DEF Counted
<1>3. pc \in [Threads -> {"idle", "lock", "wait", "open", "size", "move", "reopen",
                          "append", "release"}]
    BY DEF TypeOK
<1>4. ASSUME NEW t \in Threads, Write(t) PROVE Counted'
    <2>1. t \notin Pending /\ Pending' = Pending \cup {t}
        BY <1>3, <1>4 DEF Pending, Inside, Write, Step
    <2>2. IsFiniteSet(Pending') /\ Cardinality(Pending') = Cardinality(Pending) + 1
        BY <1>2, <2>1, FS_AddElement
    <2>3. written' = written /\ calls' = calls + 1
        BY <1>4 DEF Write, fileVars
    <2>4. /\ LongestLine * (Cardinality(Pending) + 1) = due + LongestLine
          /\ LongestLine * (calls + 1) = limit + LongestLine
        BY <1>1, <1>2, OneMore
    <2>5. /\ LongestLine * Cardinality(Pending') = due + LongestLine
          /\ LongestLine * calls' = limit + LongestLine
        BY <2>2, <2>3, <2>4
    <2> HIDE DEF due, limit
    <2>. QED
        BY <1>1, <1>8, <2>2, <2>3, <2>5 DEF Counted
<1>5. ASSUME NEW t \in Threads, Append(t) PROVE Counted'
    <2>1. t \in Pending /\ Pending' = Pending \ {t}
        BY <1>3, <1>5 DEF Pending, Inside, Append, Step
    <2>2. IsFiniteSet(Pending') /\ Cardinality(Pending') = Cardinality(Pending) - 1
        BY <1>2, <2>1, FS_RemoveElement
    <2>3. written' \in Nat /\ written' <= written + LongestLine /\ calls' = calls
        BY <1>1, <1>5 DEF Append
    <2>4. Cardinality(Pending') \in Nat /\ Cardinality(Pending) = Cardinality(Pending') + 1
        BY <1>2, <2>2, FS_CardinalityType
    <2>5. /\ LongestLine * Cardinality(Pending') \in Nat
          /\ LongestLine * (Cardinality(Pending') + 1)
                 = LongestLine * Cardinality(Pending') + LongestLine
        BY <1>1, <2>4, OneMore
    <2>6. due = LongestLine * Cardinality(Pending') + LongestLine
        BY <2>4, <2>5
    <2>7. LongestLine * calls' = limit
        BY <2>3
    <2> HIDE DEF due, limit
    <2>. QED
        BY <1>1, <1>8, <2>2, <2>3, <2>5, <2>6, <2>7 DEF Counted
<1>6. ASSUME NEW t \in Threads,
             \/ Lock(t) \/ Acquire(t) \/ Timeout(t) \/ SmallEnough(t)
             \/ CloseFull(t) \/ Release(t) \/ OpenLogFile(t) \/ MoveLog(t)
      PROVE  Counted'
    <2>1. written' = written /\ calls' = calls
        BY <1>6 DEF Lock, Acquire, Timeout, SmallEnough, CloseFull, Release,
                    OpenLogFile, MoveLog, fileVars, countVars
    <2>2. \A u \in Threads : pc'[u] \in {"lock", "wait"} \cup Inside
              => pc[u] \in {"lock", "wait"} \cup Inside
        BY <1>3, <1>6 DEF Lock, Acquire, Timeout, SmallEnough, CloseFull, Release,
                          OpenLogFile, MoveLog, Step, Inside
    <2>3. Pending' \subseteq Pending
        BY <2>2 DEF Pending
    <2>. QED
        BY <2>1, <2>3, CountKept
<1>7. ASSUME NEW p \in Processes, Hang(p) \/ Die(p) \/ Initialize(p) PROVE Counted'
    <2>1. written' = written /\ calls' = calls
        BY <1>7 DEF Hang, Die, Initialize, fileVars, countVars
    <2>2. Pending' \subseteq Pending
        BY <1>3, <1>7 DEF Hang, Die, Initialize, Pending, Inside
    <2>. QED
        BY <2>1, <2>2, CountKept
<1>. QED
    BY <1>4, <1>5, <1>6, <1>7 DEF Next, WriterStep

\* A step of a writing thread keeps the types.
LEMMA WriterTypes ==
    ASSUME TypeOK, Counted', NEW t \in Threads, Write(t) \/ WriterStep(t)
    PROVE  TypeOK'
<1> USE LogAssumption DEF Step
<1>0. /\ WriteBudget \in Nat /\ FaultBudget \in Nat /\ DeathBudget \in Nat
      /\ ProcessOf[t] \in Processes /\ LongestLine \in Nat
    OBVIOUS
<1>1. pc' \in [Threads -> {"idle", "lock", "wait", "open", "size", "move", "reopen",
                           "append", "release"}]
    BY DEF TypeOK, WriterStep, Write, Lock, Acquire, Timeout, OpenLogFile, SmallEnough,
           CloseFull, MoveLog, Append, Release
<1>2. named' \subseteq Processes /\ process' \in [Processes -> {"runs", "hangs", "dead"}]
    BY DEF TypeOK, WriterStep, Write, Lock, Acquire, Timeout, OpenLogFile, SmallEnough,
           CloseFull, MoveLog, Append, Release
<1>3. local' \in [Processes -> Threads \cup {None}] /\ owner' \in Threads \cup {None}
    BY <1>0 DEF TypeOK, WriterStep, Write, Lock, Acquire, Timeout, OpenLogFile, SmallEnough,
           CloseFull, MoveLog, Append, Release, lockVars
<1>4. handle' \in [Threads -> {"none", "log", "archive", "lost"}] /\ exists' \in BOOLEAN
    <2>1. \A h \in {"none", "log", "archive", "lost"} :
              Moved(h) \in {"none", "log", "archive", "lost"}
        BY DEF Moved
    <2>2. CASE MoveLog(t)
        <3>1. handle \in [Threads -> {"none", "log", "archive", "lost"}] /\ exists \in BOOLEAN
            BY DEF TypeOK
        <3>2. handle' \in [Threads -> {"none", "log", "archive", "lost"}]
            BY <2>1, <2>2, <3>1 DEF MoveLog
        <3>3. exists' \in BOOLEAN
            BY <2>2, <3>1 DEF MoveLog
        <3>. QED
            BY <3>2, <3>3
    <2>3. CASE OpenLogFile(t)
        BY <2>3 DEF TypeOK, OpenLogFile
    <2>. QED
        BY <2>2, <2>3 DEF TypeOK, WriterStep, Write, Lock, Acquire, Timeout, SmallEnough,
               CloseFull, Append, Release, fileVars
<1>5. /\ calls' \in 0..WriteBudget /\ faults' \in 0..FaultBudget /\ deaths' \in 0..DeathBudget
    BY <1>0 DEF TypeOK, WriterStep, Write, Lock, Acquire, Timeout, OpenLogFile, SmallEnough,
           CloseFull, MoveLog, Append, Release, countVars, Fails
<1>6. written' \in Nat /\ written <= written'
    <2>1. written \in Nat
        BY <1>0, OneMore DEF TypeOK
    <2>2. CASE Append(t)
        BY <2>1, <2>2, <1>0 DEF Append
    <2>3. CASE UNCHANGED written
        BY <2>1, <2>3
    <2>. QED
        BY <2>2, <2>3 DEF WriterStep, Write, Lock, Acquire, Timeout, OpenLogFile,
           SmallEnough, CloseFull, MoveLog, Release, fileVars
<1>7. written' \in 0..(LongestLine * calls')
    <2>1. Cardinality(Pending') \in Nat /\ calls' \in Nat
        BY <1>0, <1>5, FS_CardinalityType DEF Counted
    <2>2. LongestLine * Cardinality(Pending') \in Nat /\ LongestLine * calls' \in Nat
        BY <1>0, <2>1, OneMore
    <2>. QED
        BY <1>6, <2>2 DEF Counted
<1>8. log' \subseteq 1..written' /\ archive' \subseteq 1..written'
    <2>1. log \subseteq 1..written /\ archive \subseteq 1..written /\ written \in Nat
        BY <1>0, OneMore DEF TypeOK
    <2>2. CASE Append(t)
        <3>2. ASSUME NEW n \in LineSizes, written' = written + n,
                     log' \subseteq log \cup Line(n), archive' \subseteq archive \cup Line(n)
              PROVE  log' \subseteq 1..written' /\ archive' \subseteq 1..written'
            <4>1. n \in Nat
                OBVIOUS
            <4>2. 1..written \subseteq 1..(written + n) /\ Line(n) \subseteq 1..(written + n)
                BY <2>1, <4>1 DEF Line
            <4>. QED
                BY <2>1, <3>2, <4>2
        <3>3. CASE UNCHANGED <<written, log, archive>>
            BY <2>1, <3>3
        <3>. QED
            BY <2>2, <3>2, <3>3 DEF Append
    <2>3. CASE MoveLog(t)
        BY <2>1, <2>3 DEF MoveLog
    <2>4. CASE UNCHANGED <<log, archive, written>>
        BY <2>1, <2>4
    <2>. QED
        BY <2>2, <2>3, <2>4 DEF WriterStep, Write, Lock, Acquire, Timeout, OpenLogFile,
               SmallEnough, CloseFull, Release, fileVars
<1>. QED
    BY <1>0, <1>1, <1>2, <1>3, <1>4, <1>5, <1>6, <1>7, <1>8 DEF TypeOK

\* What a process can do keeps the types.
LEMMA ProcessTypes ==
    ASSUME TypeOK, NEW p \in Processes, Hang(p) \/ Die(p) \/ Initialize(p)
    PROVE  TypeOK'
<1>1. DeathBudget \in Nat
    BY LogAssumption
<1>2. CASE Hang(p)
    BY <1>1, <1>2 DEF TypeOK, Hang, lockVars, fileVars
<1>3. CASE Die(p)
    BY <1>1, <1>3 DEF TypeOK, Die
<1>4. CASE Initialize(p)
    BY <1>4 DEF TypeOK, Initialize, lockVars, fileVars, countVars
<1>. QED
    BY <1>2, <1>3, <1>4

\* Whatever fails and whoever dies, what is in the files was written, and no more
\* is written than a line for every call of Write: no line is made up
\* by the rotation, and none appended twice (Write).
THEOREM LogTypes == Spec => []TypeOK
<1>1. Init => TypeOK /\ Counted
    <2> SUFFICES ASSUME Init PROVE TypeOK /\ Counted
        OBVIOUS
    <2>1. TypeOK
        <3>1. WriteBudget \in Nat /\ FaultBudget \in Nat /\ DeathBudget \in Nat
            BY LogAssumption
        <3>2. log = {} /\ archive = {} /\ calls \in 0..WriteBudget
              /\ faults \in 0..FaultBudget /\ deaths \in 0..DeathBudget
            BY <3>1 DEF Init
        <3>3. written \in 0..(LongestLine * calls)
            BY LogAssumption DEF Init
        <3>. QED
            BY <3>2, <3>3 DEF Init, TypeOK
    <2>2. Pending = {}
        BY DEF Init, Pending, Inside
    <2>. QED
        BY <2>1, <2>2, FS_EmptySet, LogAssumption DEF Init, Counted
<1>2. TypeOK /\ Counted /\ [Next]_vars => (TypeOK /\ Counted)'
    <2> SUFFICES ASSUME TypeOK, Counted, [Next]_vars PROVE TypeOK' /\ Counted'
        OBVIOUS
    <2>1. CASE Next
        BY <2>1, CountStep, WriterTypes, ProcessTypes DEF Next
    <2>2. CASE UNCHANGED vars
        BY <2>2 DEF vars, TypeOK, Counted, Pending
    <2>. QED
        BY <2>1, <2>2
<1>. QED
    BY <1>1, <1>2, PTL DEF Spec

=============================================================================
