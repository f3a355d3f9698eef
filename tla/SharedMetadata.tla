--------------------------- MODULE SharedMetadata ---------------------------
(***************************************************************************)
(* The named shared-memory block that carries the song title between the   *)
(* KuGou processes (src/shared_metadata.cpp): a sequence counter and a     *)
(* title of TitleCapacity wide characters, written under a named mutex and *)
(* read without it.  Every access to the block that another process can    *)
(* observe is a step: one interlocked operation, or one character of a     *)
(* wmemcpy, whose order is left open.                                      *)
(***************************************************************************)
EXTENDS Integers, Sequences

CONSTANTS
    Writers,         \* the threads that call Publish
    Readers,         \* the threads that call Read
    Char,            \* the characters of titles
    NUL,             \* L'\0'
    Titles,          \* the titles handed to Publish
    TitleCapacity,   \* kTitleCapacity
    MaxAttempts,     \* the attempts of one Read
    PublishBudget,   \* bound: calls of Publish
    CrashBudget,     \* bound: deaths of writer processes
    NoWriter,        \* the mutex is free
    Nothing          \* std::nullopt

ASSUME CharAssumption == NUL \notin Char /\ Titles \subseteq Seq(Char)
ASSUME CapacityAssumption == TitleCapacity \in Nat \ {0}
ASSUME AttemptAssumption == MaxAttempts \in Nat \ {0}
ASSUME WriterAssumption == NoWriter \notin Writers
\* Each call adds at most three to the 32-bit counter: it never wraps here.
ASSUME BudgetAssumption ==
    /\ PublishBudget \in Nat /\ CrashBudget \in Nat
    /\ 3 * PublishBudget < 2147483647

VARIABLES
    sequence,   \* Block::sequence
    title,      \* Block::title
    owner,      \* the holder of the writer mutex
    wpc,        \* wpc[w]: where w stands in Publish
    arg,        \* arg[w]: the title w publishes
    written,    \* written[w]: the positions w has copied into the block
    published,  \* calls of Publish so far
    crashes,    \* writer deaths so far
    rpc,        \* rpc[r]: where r stands in Read
    attempt,    \* attempt[r]: failed attempts of this Read
    before,     \* before[r]: the counter loaded first
    snapshot,   \* snapshot[r]: r's private copy of the title
    copied,     \* copied[r]: the positions r has copied in this attempt
    result      \* result[r]: what the last Read of r returned

writerVars == <<wpc, arg, written, published>>
readerVars == <<rpc, attempt, before, snapshot, copied, result>>
vars == <<sequence, title, owner, writerVars, crashes, readerVars>>

Cells == 1..TitleCapacity
Block == [Cells -> Char \cup {NUL}]
Blank == [i \in Cells |-> NUL]

Odd(n) == n % 2 = 1

\* (std::min)(title.size(), kTitleCapacity - 1)
Count(t) == IF Len(t) < TitleCapacity THEN Len(t) ELSE TitleCapacity - 1

\* What a completed Publish(t) makes readable.
Stored(t) == [i \in 1..Count(t) |-> t[i]]

Values == {Stored(t) : t \in Titles \cup {<<>>}}
ASSUME NothingAssumption == Nothing \notin Values

\* title.back() = L'\0' and the std::wstring built up to the first NUL.
Decode(b) ==
    LET z == [b EXCEPT ![TitleCapacity] = NUL]
        end == CHOOSE n \in Cells :
                  z[n] = NUL /\ \A m \in Cells : m < n => z[m] # NUL
    IN  [i \in 1..(end - 1) |-> b[i]]

\* What Read can return.
Readable == UNION {[1..n -> Char] : n \in 0..(TitleCapacity - 1)}
Results == {Nothing} \cup Readable

TypeOK ==
    /\ sequence \in Nat
    /\ title \in Block
    /\ owner \in Writers \cup {NoWriter}
    /\ wpc \in [Writers -> {"idle", "waiting", "locked", "repaired",
                            "writing", "terminated", "written", "dead"}]
    /\ arg \in [Writers -> Titles \cup {<<>>}]
    /\ written \in [Writers -> SUBSET Cells]
    /\ published \in 0..PublishBudget
    /\ crashes \in 0..CrashBudget
    /\ rpc \in [Readers -> {"idle", "loading", "copying"}]
    /\ attempt \in [Readers -> 0..(MaxAttempts - 1)]
    /\ before \in [Readers -> Nat]
    /\ snapshot \in [Readers -> Block]
    /\ copied \in [Readers -> SUBSET Cells]
    /\ result \in [Readers -> Results]

\* A fresh page-file mapping is zeroed.
Init ==
    /\ sequence = 0
    /\ title = Blank
    /\ owner = NoWriter
    /\ wpc = [w \in Writers |-> "idle"]
    /\ arg = [w \in Writers |-> <<>>]
    /\ written = [w \in Writers |-> {}]
    /\ published = 0
    /\ crashes = 0
    /\ rpc = [r \in Readers |-> "idle"]
    /\ attempt = [r \in Readers |-> 0]
    /\ before = [r \in Readers |-> 0]
    /\ snapshot = [r \in Readers |-> Blank]
    /\ copied = [r \in Readers |-> {}]
    /\ result = [r \in Readers |-> Nothing]

-----------------------------------------------------------------------------
(* Publish.                                                                *)

At(w, from, to) ==
    /\ wpc[w] = from
    /\ wpc' = [wpc EXCEPT ![w] = to]

Publish(w, t) ==
    /\ published < PublishBudget
    /\ At(w, "idle", "waiting")
    /\ published' = published + 1
    /\ arg' = [arg EXCEPT ![w] = t]
    /\ written' = [written EXCEPT ![w] = {}]
    /\ UNCHANGED <<sequence, title, owner, crashes, readerVars>>

\* WAIT_OBJECT_0, or WAIT_ABANDONED after the holder died: the code goes on
\* alike.
AcquireMutex(w) ==
    /\ owner = NoWriter
    /\ At(w, "waiting", "locked")
    /\ owner' = w
    /\ UNCHANGED <<sequence, title, arg, written, published, crashes,
                   readerVars>>

LockPatient(w) == FALSE /\ UNCHANGED vars

\* WAIT_TIMEOUT: somebody held the mutex for kWriterLockTimeoutMs.  Publish
\* returns and its title is dropped.
LockTimeout(w) ==
    /\ owner # NoWriter
    /\ At(w, "waiting", "idle")
    /\ UNCHANGED <<sequence, title, owner, arg, written, published, crashes,
                   readerVars>>

\* Only the holder of the mutex writes the counter, so its load and the test
\* of the loaded value belong to the step that acts on it.
RepairSequence(w) ==
    /\ Odd(sequence)
    /\ At(w, "locked", "repaired")
    /\ sequence' = sequence + 1
    /\ UNCHANGED <<title, owner, arg, written, published, crashes, readerVars>>

MarkWriting(w) ==
    /\ wpc[w] = "repaired" \/ (wpc[w] = "locked" /\ ~Odd(sequence))
    /\ wpc' = [wpc EXCEPT ![w] = "writing"]
BeginWriteUnmarked(w) ==
    /\ MarkWriting(w)
    /\ UNCHANGED <<sequence, title, owner, arg, written, published, crashes,
                   readerVars>>
BeginWrite(w) ==
    /\ MarkWriting(w)
    /\ sequence' = sequence + 1
    /\ UNCHANGED <<title, owner, arg, written, published, crashes, readerVars>>

WriteCharacter(w) ==
    /\ wpc[w] = "writing"
    /\ \E i \in (1..Count(arg[w])) \ written[w] :
          /\ title' = [title EXCEPT ![i] = arg[w][i]]
          /\ written' = [written EXCEPT ![w] = @ \cup {i}]
    /\ UNCHANGED <<sequence, owner, wpc, arg, published, crashes, readerVars>>

TerminateTitleSkipped(w) ==
    /\ written[w] = 1..Count(arg[w])
    /\ At(w, "writing", "terminated")
    /\ UNCHANGED <<sequence, title, owner, arg, written, published, crashes,
                   readerVars>>
TerminateTitle(w) ==
    /\ written[w] = 1..Count(arg[w])
    /\ At(w, "writing", "terminated")
    /\ title' = [title EXCEPT ![Count(arg[w]) + 1] = NUL]
    /\ UNCHANGED <<sequence, owner, arg, written, published, crashes,
                   readerVars>>

EndWrite(w) ==
    /\ At(w, "terminated", "written")
    /\ sequence' = sequence + 1
    /\ UNCHANGED <<title, owner, arg, written, published, crashes, readerVars>>

ReleaseMutex(w) ==
    /\ At(w, "written", "idle")
    /\ owner' = NoWriter
    /\ UNCHANGED <<sequence, title, arg, written, published, crashes,
                   readerVars>>

\* The process of w dies anywhere in Publish: the system abandons its mutex
\* and the block, which other processes map too, stays as it is.
Crash(w) ==
    /\ crashes < CrashBudget
    /\ wpc[w] # "dead"
    /\ wpc' = [wpc EXCEPT ![w] = "dead"]
    /\ owner' = IF owner = w THEN NoWriter ELSE owner
    /\ crashes' = crashes + 1
    /\ UNCHANGED <<sequence, title, arg, written, published, readerVars>>

\* The player starts that process again.
Restart(w) ==
    /\ At(w, "dead", "idle")
    /\ UNCHANGED <<sequence, title, owner, arg, written, published, crashes,
                   readerVars>>

-----------------------------------------------------------------------------
(* Read.                                                                   *)

Read(r) ==
    /\ rpc[r] = "idle"
    /\ rpc' = [rpc EXCEPT ![r] = "loading"]
    /\ attempt' = [attempt EXCEPT ![r] = 0]
    /\ snapshot' = [snapshot EXCEPT ![r] = Blank]
    /\ copied' = [copied EXCEPT ![r] = {}]
    /\ UNCHANGED <<sequence, title, owner, writerVars, crashes, before, result>>

\* attempt < 4
OneTooMany(r) == attempt[r] = MaxAttempts
LastAttempt(r) == attempt[r] + 1 = MaxAttempts

\* An attempt failed: the next one, or std::nullopt after the last.
FailAttempt(r) ==
    /\ UNCHANGED <<sequence, title, owner, writerVars, crashes, before,
                   snapshot, copied>>
    /\ \/ /\ ~LastAttempt(r)
          /\ attempt' = [attempt EXCEPT ![r] = @ + 1]
          /\ rpc' = [rpc EXCEPT ![r] = "loading"]
          /\ UNCHANGED result
       \/ /\ LastAttempt(r)
          /\ rpc' = [rpc EXCEPT ![r] = "idle"]
          /\ result' = [result EXCEPT ![r] = Nothing]
          /\ UNCHANGED attempt

LoadOddUncounted(r) ==
    /\ rpc[r] = "loading"
    /\ Odd(sequence)
    /\ UNCHANGED vars
LoadOdd(r) ==
    /\ rpc[r] = "loading"
    /\ Odd(sequence)
    /\ FailAttempt(r)

LoadEven(r) ==
    /\ rpc[r] = "loading"
    /\ ~Odd(sequence)
    /\ before' = [before EXCEPT ![r] = sequence]
    /\ copied' = [copied EXCEPT ![r] = {}]
    /\ rpc' = [rpc EXCEPT ![r] = "copying"]
    /\ UNCHANGED <<sequence, title, owner, writerVars, crashes, attempt,
                   snapshot, result>>

ReadCharacter(r) ==
    /\ rpc[r] = "copying"
    /\ \E i \in Cells \ copied[r] :
          /\ snapshot' = [snapshot EXCEPT ![r] = [@ EXCEPT ![i] = title[i]]]
          /\ copied' = [copied EXCEPT ![r] = @ \cup {i}]
    /\ UNCHANGED <<sequence, title, owner, writerVars, crashes, rpc, attempt,
                   before, result>>

\* before == after && (after & 1) == 0
EvenIsEnough(r) == ~Odd(sequence)
Unchanged(r) == before[r] = sequence /\ ~Odd(sequence)

Accept(r) ==
    /\ rpc[r] = "copying"
    /\ copied[r] = Cells
    /\ Unchanged(r)
    /\ result' = [result EXCEPT ![r] = Decode(snapshot[r])]
    /\ rpc' = [rpc EXCEPT ![r] = "idle"]
    /\ UNCHANGED <<sequence, title, owner, writerVars, crashes, attempt,
                   before, snapshot, copied>>

Reject(r) ==
    /\ rpc[r] = "copying"
    /\ copied[r] = Cells
    /\ ~Unchanged(r)
    /\ FailAttempt(r)

-----------------------------------------------------------------------------

WriterNext(w) ==
    \/ \E t \in Titles : Publish(w, t)
    \/ AcquireMutex(w)
    \/ LockTimeout(w)
    \/ RepairSequence(w)
    \/ BeginWrite(w)
    \/ WriteCharacter(w)
    \/ TerminateTitle(w)
    \/ EndWrite(w)
    \/ ReleaseMutex(w)
    \/ Crash(w)
    \/ Restart(w)

ReaderStep(r) ==
    LoadOdd(r) \/ LoadEven(r) \/ ReadCharacter(r) \/ Accept(r) \/ Reject(r)

Next ==
    \/ \E w \in Writers : WriterNext(w)
    \/ \E r \in Readers : Read(r) \/ ReaderStep(r)

Spec == Init /\ [][Next]_vars

\* A reader that has started goes on, and a waiting writer is woken by the
\* mutex or by its timeout.  Nothing is assumed of the holder of the mutex:
\* its process may be suspended for ever.
Fairness ==
    /\ \A r \in Readers : WF_vars(ReaderStep(r))
    /\ \A w \in Writers : WF_vars(AcquireMutex(w) \/ LockTimeout(w))

FairSpec == Spec /\ Fairness

-----------------------------------------------------------------------------
(* Properties.                                                             *)

\* Every title a Read returns is one that somebody published, whole (or the
\* empty title of a fresh block): characters of two titles are never mixed
\* (Read's check of the counter against the steps of Publish).
NoTornRead == \A r \in Readers : result[r] # Nothing => result[r] \in Values

\* Without a death there is no torn read; a death alone can damage a title.
TornOnlyByDeath == crashes = 0 => NoTornRead

\* The block is an atomic register, whoever dies: a publication takes effect at
\* most once, at one instant of its Publish, a successful Read returns the title
\* current at an instant of that Read, never an older one, and a death damages
\* the title at that instant only, never by the repair that follows.
Register ==
    INSTANCE TitleRegister WITH
        Empty <- <<>>,
        Damaged <- Readable,
        deaths <- crashes,
        value <- IF \E w \in Writers : wpc[w] \in {"writing", "terminated"}
                   THEN Stored(arg[owner]) ELSE Decode(title),
        pending <- [w \in Writers |->
                      IF wpc[w] \in {"waiting", "locked", "repaired"}
                        THEN Stored(arg[w]) ELSE Nothing]
RegisterSpec == Register!Spec

\* Whatever crashes came before, the end of a write leaves the block readable
\* and holding exactly the title written (the repair of the counter in
\* Publish and the terminating NUL).
CompletedWriteReadable ==
    [][\A w \in Writers :
          EndWrite(w) => ~Odd(sequence') /\ Decode(title') = Stored(arg[w])]_vars

\* Whatever crashes came before, Read accepts no copy while some writer is
\* inside its write: the counter is odd all through a write.
NoAcceptDuringWrite ==
    [][\A r \in Readers :
          Accept(r) => \A w \in Writers : wpc[w] \notin {"writing", "terminated"}]_vars

\* The worker thread is never held up in the block, although a writer may hang
\* inside the mutex or die and leave the counter odd: a Read returns after its
\* attempts, and a Publish stops waiting for the mutex.
NobodyHeldUp ==
    /\ \A r \in Readers : rpc[r] # "idle" ~> rpc[r] = "idle"
    /\ \A w \in Writers : wpc[w] = "waiting" ~> wpc[w] # "waiting"

-----------------------------------------------------------------------------
(* The inductive invariant.  CrashProofInv and ReadInv hold whatever        *)
(* crashes; WholeInv describes the block as long as no writer has died.     *)

Holding == {"locked", "repaired", "writing", "terminated", "written"}
Unfinished == {"writing", "terminated"}

\* Block b holds title t, as a completed write leaves it.
Holds(b, t) == (\A i \in 1..Count(t) : b[i] = t[i]) /\ b[Count(t) + 1] = NUL

LockInv == \A w \in Writers : wpc[w] \in Holding <=> owner = w

WriterInv(w) ==
    /\ wpc[w] \in {"waiting", "locked", "repaired"} => written[w] = {}
    /\ wpc[w] \in Unfinished => Odd(sequence)
    /\ wpc[w] = "repaired" => ~Odd(sequence)
    /\ wpc[w] = "writing" =>
          /\ written[w] \subseteq 1..Count(arg[w])
          /\ \A i \in written[w] : title[i] = arg[w][i]
    /\ wpc[w] = "terminated" => Holds(title, arg[w])
WriteInv == \A w \in Writers : WriterInv(w)

CrashProofInv == TypeOK /\ LockInv /\ WriteInv

NobodyDiedInv == \A w \in Writers : wpc[w] \notin {"dead", "repaired"}

BlockInv ==
    IF Odd(sequence)
      THEN \E w \in Writers : wpc[w] \in Unfinished
      ELSE \E t \in Titles \cup {<<>>} : Holds(title, t)

ReadInv ==
    \A r \in Readers : rpc[r] = "copying" =>
        /\ ~Odd(before[r])
        /\ before[r] <= sequence
        /\ before[r] = sequence =>
              \A i \in copied[r] : snapshot[r][i] = title[i]

WholeInv == NobodyDiedInv /\ BlockInv /\ NoTornRead

Inv == CrashProofInv /\ ReadInv /\ (crashes = 0 => WholeInv)

=============================================================================
