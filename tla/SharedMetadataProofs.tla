----------------------- MODULE SharedMetadataProofs -----------------------
(***************************************************************************)
(* Theorems about SharedMetadata for every number of writers and readers,  *)
(* every capacity and every set of titles.                                 *)
(***************************************************************************)
EXTENDS SharedMetadata, WellFoundedInduction, TLAPS

-----------------------------------------------------------------------------
(* Lemmas about the operators.                                             *)

\* One increment turns an even counter odd and an odd one even.
LEMMA OddStep ==
    ASSUME NEW n \in Nat
    PROVE  Odd(n + 1) <=> ~Odd(n)
BY DEF Odd

\* After any attempt but the last there is another.
LEMMA AttemptStep ==
    ASSUME NEW n \in 0..(MaxAttempts - 1), n + 1 # MaxAttempts
    PROVE  n + 1 \in 0..(MaxAttempts - 1)
BY AttemptAssumption

\* A title leaves room for its terminating NUL (the min of Publish).
LEMMA CountType ==
    ASSUME NEW t \in Titles \cup {<<>>}
    PROVE  /\ t \in Seq(Char)
           /\ Count(t) \in 0..(TitleCapacity - 1)
           /\ Count(t) <= Len(t)
           /\ Count(t) + 1 \in Cells
           /\ 1..Count(t) \subseteq Cells
           /\ \A i \in 1..Count(t) : t[i] \in Char
<1>1. t \in Seq(Char)
  <2>1. <<>> \in Seq(Char)
    OBVIOUS
  <2> QED
    BY <2>1, CharAssumption
<1>2. Len(t) \in Nat /\ \A i \in 1..Len(t) : t[i] \in Char
  BY <1>1
<1>3. Count(t) \in 0..(TitleCapacity - 1) /\ Count(t) <= Len(t)
  BY <1>2, CapacityAssumption DEF Count
<1> QED
  BY <1>1, <1>2, <1>3, CapacityAssumption DEF Cells

\* The position at which Decode stops exists: the last character is NUL.
LEMMA FirstNul ==
    ASSUME NEW z, z[TitleCapacity] = NUL
    PROVE  \E n \in Cells : z[n] = NUL /\ \A m \in Cells : m < n => z[m] # NUL
<1> DEFINE T == {n \in Cells : z[n] = NUL}
<1>1. T \subseteq Nat /\ T # {}
  BY CapacityAssumption DEF Cells
<1>2. PICK n \in T : \A m \in T : ~ (<<m, n>> \in OpToRel(<, Nat))
  BY <1>1, NatLessThanWellFounded, WFMin
<1>3. \A m \in T : ~ (m < n)
  BY <1>1, <1>2 DEF OpToRel
<1> QED
  BY <1>3

\* Decode returns characters only, fewer than the capacity.
LEMMA DecodeType ==
    ASSUME NEW b \in Block
    PROVE  Decode(b) \in Readable
<1> DEFINE z == [b EXCEPT ![TitleCapacity] = NUL]
           First(n) == z[n] = NUL /\ \A m \in Cells : m < n => z[m] # NUL
           end == CHOOSE n \in Cells : First(n)
<1>1. z[TitleCapacity] = NUL
  BY CapacityAssumption DEF Block, Cells
<1>2. end \in Cells /\ First(end)
  <2> HIDE DEF z
  <2> QED
    BY <1>1, FirstNul
<1>3. end - 1 \in 0..(TitleCapacity - 1)
  BY <1>2, CapacityAssumption DEF Cells
<1>4. ASSUME NEW i \in 1..(end - 1)
      PROVE  b[i] \in Char
  <2>1. i \in Cells /\ i < end /\ i # TitleCapacity
    BY <1>2, CapacityAssumption DEF Cells
  <2> QED
    BY <1>2, <2>1 DEF Block
<1>5. Decode(b) = [i \in 1..(end - 1) |-> b[i]]
  BY DEF Decode
<1> HIDE DEF end
<1>6. Decode(b) \in [1..(end - 1) -> Char]
  BY <1>4, <1>5
<1> QED
  BY <1>3, <1>6 DEF Readable

\* A block that holds a title decodes to what was stored of it.
LEMMA DecodeHolds ==
    ASSUME NEW b \in Block, NEW t \in Titles \cup {<<>>}, Holds(b, t)
    PROVE  Decode(b) = Stored(t)
<1> DEFINE z == [b EXCEPT ![TitleCapacity] = NUL]
           First(n) == z[n] = NUL /\ \A m \in Cells : m < n => z[m] # NUL
           end == CHOOSE n \in Cells : First(n)
<1>1. z[TitleCapacity] = NUL
  BY CapacityAssumption DEF Block, Cells
<1>2. end \in Cells /\ First(end)
  <2> HIDE DEF z
  <2> QED
    BY <1>1, FirstNul
<1>3. Count(t) + 1 \in Cells /\ z[Count(t) + 1] = NUL
  BY CountType, CapacityAssumption DEF Holds, Block, Cells
<1>4. \A i \in 1..Count(t) : i \in Cells /\ z[i] # NUL
  BY CountType, CharAssumption, CapacityAssumption DEF Holds, Block, Cells
<1>5. end = Count(t) + 1
  <2> HIDE DEF z, end
  <2>1. ~ (end < Count(t) + 1)
    BY <1>2, <1>4, CountType DEF Cells
  <2>2. ~ (Count(t) + 1 < end)
    BY <1>2, <1>3
  <2> QED
    BY <1>2, <1>3, <2>1, <2>2, CapacityAssumption DEF Cells
<1>6. Decode(b) = [i \in 1..(end - 1) |-> b[i]]
  BY DEF Decode
<1> HIDE DEF end
<1>7. end - 1 = Count(t)
  BY <1>5, CountType
<1> QED
  BY <1>6, <1>7 DEF Stored, Holds

-----------------------------------------------------------------------------
(* What holds whatever crashes.                                            *)

\* Every variable keeps its type, in particular no write and no read leaves
\* the block (CountType) and no Read makes more than MaxAttempts attempts.
LEMMA TypeStep ==
    ASSUME TypeOK, [Next]_vars
    PROVE  TypeOK'
<1> USE DEF TypeOK
<1>1. ASSUME NEW w \in Writers, NEW t \in Titles, Publish(w, t)
      PROVE  TypeOK'
  BY <1>1, BudgetAssumption DEF Publish, At, readerVars
<1>2. ASSUME NEW w \in Writers, AcquireMutex(w)
      PROVE  TypeOK'
  BY <1>2 DEF AcquireMutex, At, readerVars
<1>3. ASSUME NEW w \in Writers, LockTimeout(w)
      PROVE  TypeOK'
  BY <1>3 DEF LockTimeout, At, readerVars
<1>4. ASSUME NEW w \in Writers, RepairSequence(w)
      PROVE  TypeOK'
  BY <1>4 DEF RepairSequence, At, readerVars
<1>5. ASSUME NEW w \in Writers, BeginWrite(w)
      PROVE  TypeOK'
  BY <1>5 DEF BeginWrite, MarkWriting, readerVars
<1>6. ASSUME NEW w \in Writers, WriteCharacter(w)
      PROVE  TypeOK'
  <2>1. PICK i \in (1..Count(arg[w])) \ written[w] :
            /\ title' = [title EXCEPT ![i] = arg[w][i]]
            /\ written' = [written EXCEPT ![w] = @ \cup {i}]
    BY <1>6 DEF WriteCharacter
  <2>2. i \in Cells /\ arg[w][i] \in Char
    BY CountType
  <2> QED
    BY <1>6, <2>1, <2>2 DEF WriteCharacter, readerVars, Block
<1>7. ASSUME NEW w \in Writers, TerminateTitle(w)
      PROVE  TypeOK'
  <2>1. Count(arg[w]) + 1 \in Cells
    BY CountType
  <2> QED
    BY <1>7, <2>1 DEF TerminateTitle, At, readerVars, Block
<1>8. ASSUME NEW w \in Writers, EndWrite(w)
      PROVE  TypeOK'
  BY <1>8 DEF EndWrite, At, readerVars
<1>9. ASSUME NEW w \in Writers, ReleaseMutex(w)
      PROVE  TypeOK'
  BY <1>9 DEF ReleaseMutex, At, readerVars
<1>10. ASSUME NEW w \in Writers, Crash(w)
      PROVE  TypeOK'
  BY <1>10, BudgetAssumption DEF Crash, readerVars
<1>11. ASSUME NEW w \in Writers, Restart(w)
      PROVE  TypeOK'
  BY <1>11 DEF Restart, At, readerVars
<1>12. ASSUME NEW r \in Readers, FailAttempt(r)
      PROVE  attempt' \in [Readers -> 0..(MaxAttempts - 1)]
             /\ result' \in [Readers -> Results]
             /\ (rpc \in [Readers -> {"idle", "loading", "copying"}] =>
                   rpc' \in [Readers -> {"idle", "loading", "copying"}])
  <2>1. Nothing \in Results
    BY DEF Results
  <2>2. attempt[r] \in 0..(MaxAttempts - 1)
    OBVIOUS
  <2>3. attempt[r] + 1 # MaxAttempts => attempt[r] + 1 \in 0..(MaxAttempts - 1)
    BY <2>2, AttemptStep
  <2> QED
    BY <1>12, <2>1, <2>2, <2>3 DEF FailAttempt, LastAttempt
<1>13. ASSUME NEW r \in Readers, Read(r)
      PROVE  TypeOK'
  BY <1>13, AttemptAssumption DEF Read, writerVars, Block, Blank
<1>14. ASSUME NEW r \in Readers, LoadOdd(r)
      PROVE  TypeOK'
  BY <1>14, <1>12 DEF LoadOdd, FailAttempt, writerVars
<1>15. ASSUME NEW r \in Readers, LoadEven(r)
      PROVE  TypeOK'
  BY <1>15 DEF LoadEven, writerVars
<1>16. ASSUME NEW r \in Readers, ReadCharacter(r)
      PROVE  TypeOK'
  BY <1>16 DEF ReadCharacter, writerVars, Block
<1>17. ASSUME NEW r \in Readers, Accept(r)
      PROVE  TypeOK'
  <2>1. Decode(snapshot[r]) \in Results
    BY DecodeType DEF Results
  <2> QED
    BY <1>17, <2>1 DEF Accept, writerVars
<1>18. ASSUME NEW r \in Readers, Reject(r)
      PROVE  TypeOK'
  BY <1>18, <1>12 DEF Reject, FailAttempt, writerVars
<1>19. CASE UNCHANGED vars
  BY <1>19 DEF vars, writerVars, readerVars
<1> QED
  BY <1>1, <1>2, <1>3, <1>4, <1>5, <1>6, <1>7, <1>8, <1>9, <1>10, <1>11, <1>13, <1>14, <1>15, <1>16, <1>17, <1>18, <1>19
     DEF Next, WriterNext, ReaderStep

\* A new block satisfies the invariant that survives crashes.
LEMMA InitInv == Init => CrashProofInv
<1> SUFFICES ASSUME Init PROVE CrashProofInv
  OBVIOUS
<1>1. TypeOK
  BY BudgetAssumption, AttemptAssumption
     DEF Init, TypeOK, Block, Blank, Results
<1>2. LockInv
  BY WriterAssumption DEF Init, LockInv, Holding
<1>3. WriteInv
  BY DEF Init, WriteInv, WriterInv, Unfinished
<1> QED
  BY <1>1, <1>2, <1>3 DEF CrashProofInv

\* A reader changes nothing that a writer looks at.
LEMMA ReaderQuiet ==
    ASSUME NEW r \in Readers, Read(r) \/ ReaderStep(r)
    PROVE  UNCHANGED <<sequence, title, owner, wpc, arg, written>>
BY DEF Read, ReaderStep, LoadOdd, LoadEven, ReadCharacter, Accept, Reject,
       FailAttempt, writerVars

\* The mutex has one holder: the writer between its wait and its release.
LEMMA LockStep ==
    ASSUME TypeOK, LockInv, [Next]_vars
    PROVE  LockInv'
<1>1. ASSUME NEW w \in Writers, WriterNext(w)
      PROVE  LockInv'
  <2> SUFFICES ASSUME NEW v \in Writers
               PROVE  wpc'[v] \in Holding <=> owner' = v
    BY DEF LockInv
  <2> USE DEF TypeOK, LockInv, Holding
  <2>1. CASE \E t \in Titles : Publish(w, t)
    BY <2>1 DEF Publish, At
  <2>2. CASE AcquireMutex(w)
    BY <2>2, WriterAssumption DEF AcquireMutex, At
  <2>3. CASE LockTimeout(w)
    BY <2>3, WriterAssumption DEF LockTimeout, At
  <2>4. CASE RepairSequence(w)
    BY <2>4, WriterAssumption DEF RepairSequence, At
  <2>5. CASE BeginWrite(w)
    BY <2>5, WriterAssumption DEF BeginWrite, MarkWriting
  <2>6. CASE WriteCharacter(w)
    BY <2>6, WriterAssumption DEF WriteCharacter
  <2>7. CASE TerminateTitle(w)
    BY <2>7, WriterAssumption DEF TerminateTitle, At
  <2>8. CASE EndWrite(w)
    BY <2>8, WriterAssumption DEF EndWrite, At
  <2>9. CASE ReleaseMutex(w)
    BY <2>9, WriterAssumption DEF ReleaseMutex, At
  <2>10. CASE Crash(w)
    BY <2>10, WriterAssumption DEF Crash
  <2>11. CASE Restart(w)
    BY <2>11, WriterAssumption DEF Restart, At
  <2> QED
    BY <1>1, <2>1, <2>2, <2>3, <2>4, <2>5, <2>6, <2>7, <2>8, <2>9, <2>10, <2>11 DEF WriterNext
<1>2. ASSUME NEW r \in Readers, Read(r) \/ ReaderStep(r)
      PROVE  LockInv'
  BY <1>2, ReaderQuiet DEF LockInv
<1>3. CASE UNCHANGED vars
  BY <1>3 DEF vars, writerVars, LockInv
<1> QED
  BY <1>1, <1>2, <1>3 DEF Next

\* Each writer finds the counter and the block as its last step left them.
LEMMA WriteStep ==
    ASSUME CrashProofInv, [Next]_vars
    PROVE  WriteInv'
<1> USE DEF CrashProofInv
<1>1. ASSUME NEW w \in Writers, WriterNext(w)
      PROVE  WriteInv'
  <2> SUFFICES ASSUME NEW v \in Writers
               PROVE  WriterInv(v)'
    BY DEF WriteInv
  <2>0. /\ wpc[w] \in Holding /\ v # w => wpc[v] \notin Holding
        /\ WriterInv(v)
    BY DEF LockInv, WriteInv
  <2> USE DEF TypeOK, Holding, Unfinished, WriterInv
  <2>1. CASE \E t \in Titles : Publish(w, t)
    BY <2>0, <2>1 DEF Publish, At
  <2>2. CASE AcquireMutex(w)
    BY <2>0, <2>2 DEF AcquireMutex, At
  <2>3. CASE LockTimeout(w)
    BY <2>0, <2>3 DEF LockTimeout, At, Holds
  <2>4. CASE RepairSequence(w)
    BY <2>0, <2>4, OddStep DEF RepairSequence, At
  <2>5. CASE BeginWrite(w)
    BY <2>0, <2>5, OddStep DEF BeginWrite, MarkWriting
  <2>6. CASE WriteCharacter(w)
    <3>1. CASE v = w
      <4>1. PICK i \in (1..Count(arg[w])) \ written[w] :
                /\ title' = [title EXCEPT ![i] = arg[w][i]]
                /\ written' = [written EXCEPT ![w] = @ \cup {i}]
        BY <2>6 DEF WriteCharacter
      <4>2. i \in Cells
        BY CountType
      <4> QED
        BY <2>0, <2>6, <3>1, <4>1, <4>2 DEF WriteCharacter, Block
    <3>2. CASE v # w
      BY <2>0, <2>6, <3>2 DEF WriteCharacter
    <3> QED
      BY <3>1, <3>2
  <2>7. CASE TerminateTitle(w)
    <3>1. CASE v = w
      <4>1. Count(arg[w]) + 1 \in Cells /\ Count(arg[w]) \in Nat
        BY CountType
      <4>2. ASSUME NEW i \in 1..Count(arg[w])
            PROVE  i \in Cells /\ i # Count(arg[w]) + 1
        <5>1. 1..Count(arg[w]) \subseteq Cells
          BY CountType
        <5> QED
          BY <4>1, <5>1
      <4>3. \A i \in 1..Count(arg[w]) : title[i] = arg[w][i]
        BY <2>0, <2>7, <3>1 DEF TerminateTitle, At
      <4>4. Holds(title', arg[w])
        BY <2>7, <4>1, <4>2, <4>3 DEF TerminateTitle, Block, Holds
      <4>5. wpc'[w] = "terminated" /\ arg' = arg /\ sequence' = sequence
        BY <2>7 DEF TerminateTitle, At
      <4> QED
        BY <2>0, <2>7, <3>1, <4>4, <4>5 DEF TerminateTitle, At, Holds
    <3>2. CASE v # w
      BY <2>0, <2>7, <3>2 DEF TerminateTitle, At
    <3> QED
      BY <3>1, <3>2
  <2>8. CASE EndWrite(w)
    BY <2>0, <2>8, OddStep DEF EndWrite, At
  <2>9. CASE ReleaseMutex(w)
    BY <2>0, <2>9 DEF ReleaseMutex, At
  <2>10. CASE Crash(w)
    BY <2>0, <2>10 DEF Crash
  <2>11. CASE Restart(w)
    BY <2>0, <2>11 DEF Restart, At
  <2> QED
    BY <1>1, <2>1, <2>2, <2>3, <2>4, <2>5, <2>6, <2>7, <2>8, <2>9, <2>10, <2>11 DEF WriterNext
<1>2. ASSUME NEW r \in Readers, Read(r) \/ ReaderStep(r)
      PROVE  WriteInv'
  BY <1>2, ReaderQuiet DEF WriteInv, WriterInv, Holds
<1>3. CASE UNCHANGED vars
  BY <1>3 DEF vars, writerVars, WriteInv, WriterInv, Holds
<1> QED
  BY <1>1, <1>2, <1>3 DEF Next

\* The invariant of the writers holds throughout, whoever dies and whenever.
LEMMA CrashProof == Spec => []CrashProofInv
<1>1. Init => CrashProofInv
  BY InitInv
<1>2. CrashProofInv /\ [Next]_vars => CrashProofInv'
  BY TypeStep, LockStep, WriteStep DEF CrashProofInv
<1> QED
  BY <1>1, <1>2, PTL DEF Spec

\* Type correctness of every variable: Publish never writes past the block and
\* Read never starts an attempt too many, for any capacity and any titles.
THEOREM TypeCorrect == Spec => []TypeOK
<1>1. CrashProofInv => TypeOK
  BY DEF CrashProofInv
<1> QED
  BY <1>1, CrashProof, PTL

\* However many writers died before and wherever they died, a writer that
\* reaches the end of Publish leaves an even counter and exactly its title.
THEOREM CompletedWrite == Spec => CompletedWriteReadable
<1> DEFINE A == \A w \in Writers :
                  EndWrite(w) => ~Odd(sequence') /\ Decode(title') = Stored(arg[w])
<1>1. ASSUME CrashProofInv PROVE A
  <2> SUFFICES ASSUME NEW w \in Writers, EndWrite(w)
               PROVE  ~Odd(sequence') /\ Decode(title') = Stored(arg[w])
    OBVIOUS
  <2> USE <1>1 DEF CrashProofInv
  <2>1. Odd(sequence) /\ Holds(title, arg[w])
    BY DEF EndWrite, At, WriteInv, WriterInv, Unfinished
  <2>2. ~Odd(sequence')
    BY <2>1, OddStep DEF EndWrite, TypeOK
  <2>3. Decode(title) = Stored(arg[w])
    BY <2>1, DecodeHolds DEF TypeOK
  <2> QED
    BY <2>2, <2>3 DEF EndWrite
<1>2. CrashProofInv => [A]_vars
  BY <1>1
<1> QED
  BY <1>2, CrashProof, PTL DEF CompletedWriteReadable

\* A Read that accepts its copy does so at an instant when no writer is inside
\* its write, even while the block is being repaired after a crash.
THEOREM AcceptOutsideWrites == Spec => NoAcceptDuringWrite
<1> DEFINE A == \A r \in Readers : Accept(r) =>
                  \A w \in Writers : wpc[w] \notin {"writing", "terminated"}
<1>1. CrashProofInv => A
  BY DEF CrashProofInv, WriteInv, WriterInv, Unfinished, Accept, Unchanged
<1>2. CrashProofInv => [A]_vars
  BY <1>1
<1> QED
  BY <1>2, CrashProof, PTL DEF NoAcceptDuringWrite

-----------------------------------------------------------------------------
(* What holds as long as no writer has died.                               *)

\* Nobody dies, so nobody finds the counter odd and repairs it.
LEMMA NobodyDiedStep ==
    ASSUME CrashProofInv, WholeInv, crashes' = 0, [Next]_vars
    PROVE  NobodyDiedInv'
<1> USE DEF WholeInv, CrashProofInv
<1>1. ASSUME NEW w \in Writers, WriterNext(w)
      PROVE  NobodyDiedInv'
  <2>1. ~Crash(w)
    BY DEF Crash, TypeOK
  <2>2. ~RepairSequence(w)
    <3> SUFFICES ASSUME RepairSequence(w) PROVE FALSE
      OBVIOUS
    <3>1. PICK v \in Writers : wpc[v] \in Unfinished
      BY DEF RepairSequence, BlockInv
    <3> QED
      BY <3>1 DEF RepairSequence, At, LockInv, Holding, Unfinished
  <2> QED
    BY <1>1, <2>1, <2>2
       DEF WriterNext, Publish, AcquireMutex, LockTimeout, BeginWrite,
           MarkWriting, WriteCharacter, TerminateTitle, EndWrite,
           ReleaseMutex, Restart, At, NobodyDiedInv, TypeOK
<1>2. ASSUME NEW r \in Readers, Read(r) \/ ReaderStep(r)
      PROVE  NobodyDiedInv'
  BY <1>2, ReaderQuiet DEF NobodyDiedInv
<1>3. CASE UNCHANGED vars
  BY <1>3 DEF vars, writerVars, NobodyDiedInv
<1> QED
  BY <1>1, <1>2, <1>3 DEF Next

\* Between two writes the block holds a whole title.
LEMMA BlockStep ==
    ASSUME CrashProofInv, WholeInv, NobodyDiedInv', [Next]_vars
    PROVE  BlockInv'
<1> USE DEF WholeInv, CrashProofInv
<1>1. ASSUME NEW w \in Writers, WriterNext(w)
      PROVE  BlockInv'
  <2>1. ASSUME sequence' = sequence, title' = title,
               \A u \in Writers : wpc[u] \in Unfinished => wpc'[u] = wpc[u]
        PROVE  BlockInv'
    BY <2>1 DEF BlockInv, Holds
  <2>2. CASE (\E t \in Titles : Publish(w, t)) \/ AcquireMutex(w)
             \/ LockTimeout(w) \/ ReleaseMutex(w) \/ Restart(w)
    BY <2>1, <2>2 DEF Publish, AcquireMutex, LockTimeout, ReleaseMutex,
                      Restart, At, Unfinished, TypeOK
  <2>3. CASE RepairSequence(w) \/ Crash(w)
    BY <2>3 DEF RepairSequence, Crash, At, NobodyDiedInv, TypeOK
  <2>4. CASE BeginWrite(w)
    <3>1. ~Odd(sequence) /\ sequence' = sequence + 1 /\ wpc'[w] \in Unfinished
      BY <2>4 DEF BeginWrite, MarkWriting, NobodyDiedInv, Unfinished, TypeOK
    <3> QED
      BY <3>1, OddStep DEF BlockInv, TypeOK
  <2>5. CASE WriteCharacter(w) \/ TerminateTitle(w)
    <3>1. Odd(sequence) /\ sequence' = sequence /\ wpc'[w] \in Unfinished
      BY <2>5 DEF WriteCharacter, TerminateTitle, At, WriteInv, WriterInv,
                  Unfinished, TypeOK
    <3> QED
      BY <3>1 DEF BlockInv
  <2>6. CASE EndWrite(w)
    <3>1. Odd(sequence) /\ sequence' = sequence + 1 /\ Holds(title, arg[w])
      BY <2>6 DEF EndWrite, At, WriteInv, WriterInv, Unfinished
    <3>2. ~Odd(sequence') /\ Holds(title', arg[w])
      BY <2>6, <3>1, OddStep DEF EndWrite, TypeOK, Holds
    <3> QED
      BY <3>2 DEF BlockInv, TypeOK
  <2> QED
    BY <1>1, <2>2, <2>3, <2>4, <2>5, <2>6 DEF WriterNext
<1>2. ASSUME NEW r \in Readers, Read(r) \/ ReaderStep(r)
      PROVE  BlockInv'
  BY <1>2, ReaderQuiet DEF BlockInv, Holds
<1>3. CASE UNCHANGED vars
  BY <1>3 DEF vars, writerVars, BlockInv, Holds
<1> QED
  BY <1>1, <1>2, <1>3 DEF Next

\* What a reader has copied is the block as long as the counter stands still.
LEMMA ReadStep ==
    ASSUME CrashProofInv, ReadInv, [Next]_vars
    PROVE  ReadInv'
<1> USE DEF CrashProofInv
<1>1. ASSUME NEW w \in Writers, WriterNext(w)
      PROVE  ReadInv'
  <2>1. UNCHANGED readerVars
    BY <1>1 DEF WriterNext, Publish, AcquireMutex, LockTimeout,
                RepairSequence, BeginWrite, WriteCharacter, TerminateTitle,
                EndWrite, ReleaseMutex, Crash, Restart
  <2>2. \/ sequence' = sequence /\ title' = title
        \/ sequence' = sequence + 1
        \/ sequence' = sequence /\ Odd(sequence)
    BY <1>1 DEF WriterNext, Publish, AcquireMutex, LockTimeout,
                RepairSequence, BeginWrite, WriteCharacter, TerminateTitle,
                EndWrite, ReleaseMutex, Crash, Restart, At, WriteInv,
                WriterInv, Unfinished
  <2> SUFFICES ASSUME NEW r \in Readers, rpc[r] = "copying"
               PROVE  /\ ~Odd(before[r])
                      /\ before[r] <= sequence'
                      /\ before[r] = sequence' =>
                            \A i \in copied[r] : snapshot[r][i] = title'[i]
    BY <2>1 DEF ReadInv, readerVars
  <2> QED
    BY <2>2 DEF ReadInv, TypeOK
<1>2. ASSUME NEW r \in Readers, Read(r) \/ ReaderStep(r)
      PROVE  ReadInv'
  <2> SUFFICES ASSUME NEW q \in Readers, rpc'[q] = "copying"
               PROVE  /\ ~Odd(before'[q])
                      /\ before'[q] <= sequence
                      /\ before'[q] = sequence =>
                            \A i \in copied'[q] : snapshot'[q][i] = title[i]
    BY <1>2, ReaderQuiet DEF ReadInv
  <2>1. CASE q # r
    BY <1>2, <2>1 DEF Read, ReaderStep, LoadOdd, LoadEven, ReadCharacter,
                      Accept, Reject, FailAttempt, ReadInv, TypeOK
  <2>2. CASE q = r /\ LoadEven(r)
    BY <2>2 DEF LoadEven, TypeOK
  <2>3. CASE q = r /\ ReadCharacter(r)
    <3>1. PICK i \in Cells \ copied[r] :
              /\ snapshot' = [snapshot EXCEPT ![r] = [@ EXCEPT ![i] = title[i]]]
              /\ copied' = [copied EXCEPT ![r] = @ \cup {i}]
      BY <2>3 DEF ReadCharacter
    <3> QED
      BY <2>3, <3>1 DEF ReadCharacter, ReadInv, TypeOK, Block
  <2>4. CASE q = r /\ (Read(r) \/ LoadOdd(r) \/ Accept(r) \/ Reject(r))
    BY <2>4 DEF Read, LoadOdd, Accept, Reject, FailAttempt, TypeOK
  <2> QED
    BY <1>2, <2>1, <2>2, <2>3, <2>4 DEF ReaderStep
<1>3. CASE UNCHANGED vars
  BY <1>3 DEF vars, readerVars, ReadInv
<1> QED
  BY <1>1, <1>2, <1>3 DEF Next

\* An accepted copy is the block, which no writer is changing.
LEMMA AcceptedCopy ==
    ASSUME CrashProofInv, ReadInv, NEW r \in Readers, Accept(r)
    PROVE  /\ ~Odd(sequence)
           /\ snapshot[r] = title
           /\ \A w \in Writers : wpc[w] \notin Unfinished
<1> USE DEF CrashProofInv
<1>1. ~Odd(sequence) /\ before[r] = sequence /\ copied[r] = Cells
  BY DEF Accept, Unchanged
<1>2. \A i \in Cells : snapshot[r][i] = title[i]
  BY <1>1 DEF Accept, ReadInv
<1>3. snapshot[r] = title
  BY <1>2 DEF TypeOK, Block
<1> QED
  BY <1>1, <1>3 DEF WriteInv, WriterInv

\* Before the first death, no read that ends returns anything but nothing or a
\* title: an accepted copy is the block as a whole write left it.
LEMMA TornStep ==
    ASSUME CrashProofInv, ReadInv, WholeInv, [Next]_vars
    PROVE  NoTornRead'
<1> USE DEF WholeInv, CrashProofInv
<1>1. ASSUME NEW r \in Readers, Accept(r)
      PROVE  NoTornRead'
  <2>1. ~Odd(sequence) /\ snapshot[r] = title
    BY <1>1, AcceptedCopy
  <2>2. PICK t \in Titles \cup {<<>>} : Holds(title, t)
    BY <2>1 DEF BlockInv
  <2>3. Decode(title) = Stored(t)
    BY <2>2, DecodeHolds DEF TypeOK
  <2>4. Decode(snapshot[r]) \in Values
    BY <2>1, <2>3 DEF Values
  <2> QED
    BY <1>1, <2>4 DEF Accept, NoTornRead, TypeOK
<1>2. ASSUME NEW r \in Readers, FailAttempt(r)
      PROVE  NoTornRead'
  BY <1>2 DEF FailAttempt, NoTornRead, TypeOK
<1>3. ASSUME UNCHANGED result
      PROVE  NoTornRead'
  BY <1>3 DEF NoTornRead
<1> QED
  BY <1>1, <1>2, <1>3
     DEF Next, WriterNext, ReaderStep, Publish, AcquireMutex, LockTimeout,
         RepairSequence, BeginWrite, WriteCharacter, TerminateTitle, EndWrite,
         ReleaseMutex, Crash, Restart, Read, LoadOdd, LoadEven, ReadCharacter,
         Reject, readerVars, vars

\* A new block satisfies the whole invariant.
LEMMA WholeInit == Init => Inv
<1> SUFFICES ASSUME Init PROVE Inv
  OBVIOUS
<1>1. CrashProofInv
  BY InitInv
<1>2. NobodyDiedInv /\ ReadInv /\ NoTornRead
  BY DEF Init, NobodyDiedInv, ReadInv, NoTornRead
<1>3. BlockInv
  <2>1. Count(<<>>) = 0
    BY CapacityAssumption DEF Count
  <2>2. Holds(title, <<>>) /\ ~Odd(sequence)
    BY <2>1, CapacityAssumption DEF Init, Holds, Odd, Blank, Cells
  <2> QED
    BY <2>2 DEF BlockInv
<1> QED
  BY <1>1, <1>2, <1>3 DEF Inv, WholeInv

\* A death is counted and never forgotten.
LEMMA DeathsCounted ==
    ASSUME TypeOK, [Next]_vars, crashes' = 0
    PROVE  crashes = 0
BY BudgetAssumption
   DEF TypeOK, Next, WriterNext, ReaderStep, Publish, AcquireMutex, LockTimeout,
       RepairSequence, BeginWrite, WriteCharacter, TerminateTitle, EndWrite,
       ReleaseMutex, Crash, Restart, Read, LoadOdd, LoadEven, ReadCharacter,
       Accept, Reject, FailAttempt, vars

\* Copies agree with the block whoever dies; until the first death block and
\* results are whole titles.
LEMMA Invariance == Spec => []Inv
<1>1. Init => Inv
  BY WholeInit
<1>2. Inv /\ [Next]_vars => Inv'
  <2> SUFFICES ASSUME Inv, [Next]_vars PROVE Inv'
    OBVIOUS
  <2>1. CrashProofInv' /\ ReadInv'
    BY TypeStep, LockStep, WriteStep, ReadStep DEF Inv, CrashProofInv
  <2>2. ASSUME crashes' = 0 PROVE WholeInv'
    <3>1. WholeInv
      BY <2>2, DeathsCounted DEF Inv, CrashProofInv
    <3>2. NobodyDiedInv'
      BY <2>2, <3>1, NobodyDiedStep DEF Inv
    <3> QED
      BY <3>1, <3>2, BlockStep, TornStep DEF Inv, WholeInv
  <2> QED
    BY <2>1, <2>2 DEF Inv
<1> QED
  BY <1>1, <1>2, PTL DEF Spec

\* Until a writer dies, no Read ever returns a mixture of two titles, for any
\* number of processes, any capacity and any titles.
THEOREM NoTornReadBeforeDeath == Spec => []TornOnlyByDeath
<1>1. Inv => TornOnlyByDeath
  BY DEF Inv, WholeInv, TornOnlyByDeath
<1> QED
  BY <1>1, Invariance, PTL

-----------------------------------------------------------------------------
(* The atomic register.                                                    *)

value == IF \E w \in Writers : wpc[w] \in {"writing", "terminated"}
           THEN Stored(arg[owner]) ELSE Decode(title)
pending == [w \in Writers |->
              IF wpc[w] \in {"waiting", "locked", "repaired"}
                THEN Stored(arg[w]) ELSE Nothing]
registerVars == <<value, pending, result, crashes>>

\* Only the holder of the mutex is inside its write.
LEMMA WriterIsOwner ==
    ASSUME CrashProofInv, NEW w \in Writers
    PROVE  /\ wpc[w] \in Unfinished => owner = w
           /\ owner = w => \A v \in Writers : v # w => wpc[v] \notin Unfinished
BY DEF CrashProofInv, LockInv, Holding, Unfinished

\* The step of a writer is its call, its effect, its being dropped, its death
\* or nothing.
LEMMA WriterRefines ==
    ASSUME CrashProofInv, NEW w \in Writers, WriterNext(w)
    PROVE  \/ Register!Publish(w)
           \/ Register!Store(w)
           \/ Register!Drop(w)
           \/ Register!Die(w)
           \/ UNCHANGED registerVars
<1> USE DEF CrashProofInv, registerVars
<1>0. /\ wpc \in [Writers -> {"idle", "waiting", "locked", "repaired",
                             "writing", "terminated", "written", "dead"}]
      /\ arg \in [Writers -> Titles \cup {<<>>}]
      /\ \A v \in Writers : Stored(arg[v]) \in Values /\ Stored(arg[v]) # Nothing
  BY NothingAssumption DEF TypeOK, Values
<1>a. ASSUME UNCHANGED <<title, owner>>,
             \A v \in Writers : wpc'[v] \in Unfinished <=> wpc[v] \in Unfinished,
             \A v \in Writers : wpc[v] \in Unfinished => arg'[v] = arg[v]
      PROVE  value' = value
  BY <1>a, WriterIsOwner DEF value, Unfinished
<1>2. ASSUME NEW t \in Titles, Publish(w, t)
      PROVE  Register!Publish(w)
  <2>1. pending[w] = Nothing
    BY <1>2 DEF Publish, At, pending
  <2>2. pending' = [pending EXCEPT ![w] = Stored(t)]
    BY <1>0, <1>2 DEF Publish, At, pending
  <2>3. UNCHANGED <<value, result, crashes>>
    BY <1>0, <1>2, <1>a DEF Publish, At, readerVars, Unfinished
  <2>4. Stored(t) \in Values
    BY DEF Values
  <2> QED
    BY <2>1, <2>2, <2>3, <2>4 DEF Register!Publish, value, pending
<1>3. ASSUME AcquireMutex(w) \/ ReleaseMutex(w) \/ Restart(w) \/ RepairSequence(w)
      PROVE  UNCHANGED registerVars
  <2>1. UNCHANGED pending
    BY <1>0, <1>3
       DEF AcquireMutex, ReleaseMutex, Restart, RepairSequence, At, pending
  <2>2. /\ \A v \in Writers : wpc'[v] \in Unfinished <=> wpc[v] \in Unfinished
        /\ UNCHANGED <<title, arg>>
    BY <1>0, <1>3
       DEF AcquireMutex, ReleaseMutex, Restart, RepairSequence, At, Unfinished
  <2>3. (\E v \in Writers : wpc[v] \in Unfinished) => UNCHANGED owner
    BY <1>0, <1>3, WriterIsOwner, WriterAssumption
       DEF AcquireMutex, ReleaseMutex, Restart, RepairSequence, At, LockInv,
           Holding, Unfinished
  <2>4. UNCHANGED value
    BY <2>2, <2>3 DEF value, Unfinished
  <2> QED
    BY <1>3, <2>1, <2>4
       DEF AcquireMutex, ReleaseMutex, Restart, RepairSequence, readerVars
<1>4. ASSUME LockTimeout(w)
      PROVE  Register!Drop(w)
  <2>1. pending[w] # Nothing /\ pending' = [pending EXCEPT ![w] = Nothing]
    BY <1>0, <1>4 DEF LockTimeout, At, pending
  <2>2. UNCHANGED <<value, result, crashes>>
    BY <1>0, <1>4, <1>a DEF LockTimeout, At, readerVars, Unfinished
  <2> QED
    BY <2>1, <2>2 DEF Register!Drop, value, pending
<1>5. ASSUME BeginWrite(w)
      PROVE  Register!Store(w)
  <2>1. pending[w] = Stored(arg[w]) /\ pending[w] # Nothing
    BY <1>0, <1>5 DEF BeginWrite, MarkWriting, pending
  <2>2. pending' = [pending EXCEPT ![w] = Nothing]
    BY <1>0, <1>5 DEF BeginWrite, MarkWriting, pending
  <2>3. owner = w /\ wpc'[w] = "writing" /\ UNCHANGED <<arg, owner>>
    BY <1>0, <1>5 DEF BeginWrite, MarkWriting, LockInv, Holding
  <2>4. value' = Stored(arg[w])
    BY <2>3 DEF value
  <2>5. UNCHANGED <<result, crashes>>
    BY <1>5 DEF BeginWrite, readerVars
  <2> QED
    BY <2>1, <2>2, <2>4, <2>5 DEF Register!Store, value, pending
<1>6. ASSUME WriteCharacter(w) \/ TerminateTitle(w)
      PROVE  UNCHANGED registerVars
  <2>1. wpc[w] = "writing" /\ wpc'[w] \in Unfinished /\ UNCHANGED <<arg, owner>>
    BY <1>0, <1>6 DEF WriteCharacter, TerminateTitle, At, Unfinished
  <2>2. UNCHANGED value
    BY <2>1 DEF value, Unfinished
  <2> QED
    BY <1>0, <1>6, <2>2 DEF WriteCharacter, TerminateTitle, At, readerVars, pending
<1>7. ASSUME EndWrite(w)
      PROVE  UNCHANGED registerVars
  <2>1. owner = w /\ Holds(title, arg[w]) /\ wpc[w] = "terminated"
    BY <1>7 DEF EndWrite, At, WriteInv, WriterInv, LockInv, Holding
  <2>2. value = Decode(title)
    BY <1>0, <2>1, DecodeHolds DEF value, TypeOK
  <2>3. \A v \in Writers : wpc'[v] \notin Unfinished
    BY <1>0, <1>7, <2>1, WriterIsOwner DEF EndWrite, At, Unfinished
  <2>4. value' = Decode(title)
    BY <1>7, <2>3 DEF EndWrite, value, Unfinished
  <2> QED
    BY <1>0, <1>7, <2>2, <2>4 DEF EndWrite, At, readerVars, pending
<1>8. ASSUME Crash(w)
      PROVE  Register!Die(w)
  <2>1. pending' = [pending EXCEPT ![w] = Nothing]
    BY <1>0, <1>8 DEF Crash, pending
  <2>2. CASE wpc[w] \in Unfinished
    <3>1. \A v \in Writers : wpc'[v] \notin Unfinished
      BY <1>0, <1>8, <2>2, WriterIsOwner DEF Crash, Unfinished
    <3>2. value' = Decode(title)
      BY <1>8, <3>1 DEF Crash, value, Unfinished
    <3>3. value' \in Readable
      BY <3>2, DecodeType DEF TypeOK
    <3> QED
      BY <1>8, <2>1, <3>3 DEF Crash, readerVars, Register!Die, value, pending
  <2>3. CASE wpc[w] \notin Unfinished
    <3>1. \A v \in Writers : wpc'[v] \in Unfinished <=> wpc[v] \in Unfinished
      BY <1>0, <1>8, <2>3 DEF Crash, Unfinished
    <3>2. (\E v \in Writers : wpc[v] \in Unfinished) => owner # w
      BY <2>3, WriterIsOwner
    <3>3. value' = value
      BY <1>8, <3>1, <3>2 DEF Crash, value, Unfinished
    <3> QED
      BY <1>8, <2>1, <3>3 DEF Crash, readerVars, Register!Die, value, pending
  <2> QED
    BY <2>2, <2>3
<1> QED
  BY <1>2, <1>3, <1>4, <1>5, <1>6, <1>7, <1>8 DEF WriterNext

\* The step of a reader is its load, its miss or nothing.
LEMMA ReaderRefines ==
    ASSUME CrashProofInv, ReadInv, NEW r \in Readers, Read(r) \/ ReaderStep(r)
    PROVE  \/ Register!Load(r)
           \/ Register!Miss(r)
           \/ UNCHANGED registerVars
<1> USE DEF registerVars
<1>1. UNCHANGED <<value, pending>>
  BY ReaderQuiet DEF value, pending
<1>2. UNCHANGED crashes
  BY DEF Read, ReaderStep, LoadOdd, LoadEven, ReadCharacter, Accept, Reject,
         FailAttempt
<1>3. CASE Accept(r)
  <2>1. result' = [result EXCEPT ![r] = value]
    BY <1>3, AcceptedCopy DEF Accept, value, Unfinished
  <2> QED
    BY <1>1, <1>2, <2>1 DEF Register!Load, value, pending
<1>4. CASE FailAttempt(r)
  BY <1>1, <1>2, <1>4 DEF FailAttempt, Register!Miss, value, pending
<1>5. CASE Read(r) \/ LoadEven(r) \/ ReadCharacter(r)
  BY <1>1, <1>2, <1>5 DEF Read, LoadEven, ReadCharacter
<1> QED
  BY <1>3, <1>4, <1>5 DEF ReaderStep, LoadOdd, Reject

\* Whoever dies and whenever, the counter, the mutex and the block together
\* implement one atomic register of titles, which a death may damage at its
\* own instant only.
THEOREM SeqlockIsRegister == Spec => RegisterSpec
<1>1. Init => Register!Init
  <2> SUFFICES ASSUME Init PROVE Register!Init
    OBVIOUS
  <2>1. Holds(title, <<>>) /\ title \in Block
    <3>1. Count(<<>>) = 0
      BY CapacityAssumption DEF Count
    <3> QED
      BY <3>1, CapacityAssumption DEF Init, Holds, Blank, Block, Cells
  <2>2. Decode(title) = Stored(<<>>)
    BY <2>1, DecodeHolds
  <2>3. Stored(<<>>) = <<>>
    BY CapacityAssumption DEF Stored, Count
  <2> QED
    BY <2>2, <2>3 DEF Init, Register!Init
<1>2. Inv /\ [Next]_vars => [Register!Next]_(Register!vars)
  <2> SUFFICES ASSUME Inv, [Next]_vars
               PROVE  [Register!Next]_(Register!vars)
    OBVIOUS
  <2> USE DEF Inv
  <2>1. ASSUME NEW w \in Writers, WriterNext(w)
        PROVE  [Register!Next]_(Register!vars)
    BY <2>1, WriterRefines
       DEF Register!Next, Register!vars, registerVars, value, pending
  <2>2. ASSUME NEW r \in Readers, Read(r) \/ ReaderStep(r)
        PROVE  [Register!Next]_(Register!vars)
    BY <2>2, ReaderRefines
       DEF Register!Next, Register!vars, registerVars, value, pending
  <2>3. CASE UNCHANGED vars
    BY <2>3 DEF vars, writerVars, readerVars, Register!vars
  <2> QED
    BY <2>1, <2>2, <2>3 DEF Next
<1> QED
  BY <1>1, <1>2, Invariance, PTL DEF Spec, RegisterSpec, Register!Spec

=============================================================================
