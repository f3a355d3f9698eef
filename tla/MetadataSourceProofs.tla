------------------------ MODULE MetadataSourceProofs ------------------------
(***************************************************************************)
(* Proofs about MetadataSource, for any size of the region that is         *)
(* scanned, of the chunks, of their overlap and of a control's head.       *)
(***************************************************************************)
EXTENDS MetadataSource, TLAPS

\* Division with a remainder, for a divisor of any size.
LEMMA Divide ==
    ASSUME NEW n \in Nat, NEW d \in Nat, d > 0
    PROVE  \E q \in Nat : q * d <= n /\ n < (q + 1) * d
<1>1. (n \div d) \in Nat
    OBVIOUS
<1>2. (n \div d) * d <= n /\ n < ((n \div d) + 1) * d
    OBVIOUS
<1>. QED
    BY <1>1, <1>2

\* The products of the proof below, as linear facts.
LEMMA Products ==
    ASSUME NEW k \in Nat, NEW S \in Nat, S > 0
    PROVE  /\ k * S \in Nat /\ k <= k * S
           /\ (k + 1) * S = k * S + S
           /\ k > 0 => (k - 1) * S = k * S - S
<1>1. (k + 1) * S = k * S + S /\ (k - 1) * S = k * S - S /\ k * S \in Nat
    OBVIOUS
<1>2. k <= k * S
    OBVIOUS
<1>. QED
    BY <1>1, <1>2

\* A chunk that is read and reaches over the head at p shows the control.
LEMMA ChunkShows ==
    ASSUME NEW p \in Nat, p + HeadSize <= RegionSize,
           NEW k \in Nat, ChunkRead(k), ChunkStart(k) <= p,
           p + HeadSize <= ChunkStart(k) + ScanChunk + ChunkOverlap
    PROVE  InChunk(p)
<1>1. ChunkStart(k) \in Nat /\ k <= ChunkStart(k)
    BY Products, SourceAssumption DEF ChunkStart
<1>2. k \in 0..RegionSize
    BY <1>1, SourceAssumption DEF ChunkRead
<1>3. p + HeadSize <= ChunkEnd(k)
    BY <1>1, SourceAssumption DEF ChunkEnd
<1>. QED
    BY <1>2, <1>3 DEF InChunk

\* The chunks overlap by more than a control's head and go on to the end of the
\* region, so a control is seen wherever it lies (FindNamedControlAddress).
THEOREM ScanMissesNoControl ==
    ASSUME NEW p \in Nat, p + HeadSize <= RegionSize
    PROVE  InChunk(p)
<1> DEFINE S == ScanChunk - ChunkOverlap
<1>1. /\ S \in Nat /\ S > 0
      /\ RegionSize \in Nat /\ ScanChunk \in Nat /\ ChunkOverlap \in Nat
      /\ HeadSize \in 1..ChunkOverlap
    BY SourceAssumption
<1>2. \A k : ChunkStart(k) = k * S
    BY DEF ChunkStart
<1> HIDE DEF S
<1>3. CASE RegionSize <= ScanChunk 
    <2>1. ChunkStart(0) = 0
        BY <1>1, <1>2
    <2>2. ChunkRead(0)
        BY <1>1, <1>3, <2>1 DEF ChunkRead
    <2>. QED
        BY <1>1, <1>3, <2>1, <2>2, ChunkShows
<1>4. CASE RegionSize > ScanChunk
    <2>1. RegionSize - ScanChunk - 1 \in Nat
        BY <1>1, <1>4
    <2>2. PICK q \in Nat : /\ q * S <= RegionSize - ScanChunk - 1
                           /\ RegionSize - ScanChunk - 1 < (q + 1) * S
        BY <1>1, <2>1, Divide
    <2>3. /\ ChunkStart(q) = q * S /\ ChunkStart(q + 1) = q * S + S
          /\ q * S \in Nat
        BY <1>1, <1>2, Products
    <2>4. ChunkRead(q + 1)
        BY <1>1, <2>2, <2>3, SourceAssumption DEF ChunkRead, S
    <2>5. CASE p >= q * S + S
        <3>1. p + HeadSize <= ChunkStart(q + 1) + ScanChunk + ChunkOverlap
            BY <1>1, <2>2, <2>3, Products
        <3>. QED
            BY <2>3, <2>4, <2>5, <3>1, ChunkShows
    <2>6. CASE p < q * S + S
        <3>1. PICK k \in Nat : k * S <= p /\ p < (k + 1) * S
            BY <1>1, Divide
        <3>2. /\ ChunkStart(k) = k * S /\ k * S \in Nat /\ (k + 1) * S = k * S + S
              /\ k > 0 => ChunkStart(k - 1) = k * S - S
            BY <1>1, <1>2, Products
        <3>3. ChunkRead(k)
            BY <1>1, <2>2, <2>3, <2>6, <3>1, <3>2 DEF ChunkRead, S
        <3>4. p + HeadSize <= ChunkStart(k) + ScanChunk + ChunkOverlap
            BY <1>1, <3>1, <3>2 DEF S
        <3>. QED
            BY <3>1, <3>2, <3>3, <3>4, ChunkShows
    <2>. QED
        BY <1>1, <2>3, <2>5, <2>6
<1>. QED
    BY <1>1, <1>3, <1>4

-----------------------------------------------------------------------------
(* Types.                                                                  *)

\* The longest delay is one of the delays, and none is longer.
LEMMA LongestDelay ==
    /\ Longest \in Nat \ {0}
    /\ \A n \in 1..6 : Delay[n] \in 1..Longest
<1> DEFINE max(a, b) == IF a <= b THEN b ELSE a
           m3 == max(max(Delay[1], Delay[2]), Delay[3])
           m6 == max(max(max(m3, Delay[4]), Delay[5]), Delay[6])
<1>1. \A n \in 1..6 : Delay[n] \in Nat \ {0}
    BY SourceAssumption
<1>2. \A n \in 1..6 : n = 1 \/ n = 2 \/ n = 3 \/ n = 4 \/ n = 5 \/ n = 6
    OBVIOUS
<1>3. \A n \in 1..6 : Delay[n] <= m6
    BY <1>1, <1>2
<1>4. \E n \in 1..6 : m6 = Delay[n]
    BY <1>1
<1> HIDE DEF m6
<1>5. /\ Longest \in {Delay[n] : n \in 1..6}
      /\ \A n \in 1..6 : Delay[n] <= Longest
    BY <1>3, <1>4 DEF Longest
<1>. QED
    BY <1>1, <1>5

\* Faults stay within their budget, and begin the count of ticks again.
LEMMA FaultType ==
    ASSUME TypeOK, NEW kind, NoFault \/ Fault(kind)
    PROVE  faults' \in 0..FaultBudget /\ visible' \in 0..(Longest + 1)
BY SourceAssumption, LongestDelay DEF TypeOK, NoFault, Fault

\* A failure on record comes with its delay.
LEMMA FailureType ==
    ASSUME NEW n \in 0..6
    PROVE  /\ RecordFailure(n) \in 1..6
           /\ Delay[RecordFailure(n)] \in 1..Longest
<1>1. RecordFailure(n) \in 1..6
    BY DEF RecordFailure
<1>. QED
    BY <1>1, LongestDelay

\* The parts of TypeOK, for steps that leave some of them alone.
MemoryTypes ==
    /\ memory \in [Places -> Panel]
    /\ panel \in Places \cup {None} /\ song \in Songs
    /\ songs \in 0..SongBudget /\ panels \in 0..PanelBudget

TitleTypes ==
    /\ control \in Places \cup {None}
    /\ titleIn \in 0..Longest /\ titleFailures \in 0..6

TimeTypes ==
    /\ timeControl \in Places \cup {None}
    /\ timeIn \in 0..Longest /\ timeFailures \in 0..6

ReadTypes ==
    /\ pc \in {"due", "timeline", "ask", "find", "total", "elapsed", "recheck",
              "confirm", "idle"}
    /\ {title, expected} \subseteq Titles /\ total \in Text
    /\ candidate \in Times \cup {None} /\ sample \in Times \cup {None}

CountTypes == faults \in 0..FaultBudget /\ visible \in 0..(Longest + 1)

LEMMA TypeParts ==
    /\ TypeOK <=> /\ MemoryTypes /\ TitleTypes /\ TimeTypes /\ ReadTypes
                  /\ CountTypes /\ settled \in BOOLEAN
    /\ TypeOK' <=> /\ MemoryTypes' /\ TitleTypes' /\ TimeTypes' /\ ReadTypes'
                   /\ CountTypes' /\ settled' \in BOOLEAN
BY DEF TypeOK, MemoryTypes, TitleTypes, TimeTypes, ReadTypes, CountTypes

LEMMA TimeFailureType ==
    ASSUME TimeTypes, TimeNotFound
    PROVE  timeIn' \in 0..Longest /\ timeFailures' \in 0..6
<1> DEFINE n == IF timeControl = None THEN timeFailures ELSE 0
<1>1. n \in 0..6
    BY DEF TimeTypes
<1>2. timeFailures' = RecordFailure(n) /\ timeIn' = Delay[timeFailures']
    BY DEF TimeNotFound
<1>. QED
    BY <1>1, <1>2, FailureType, LongestDelay

LEMMA SameTypes ==
    /\ MemoryTypes /\ UNCHANGED memoryVars => MemoryTypes'
    /\ TitleTypes /\ UNCHANGED titleVars => TitleTypes'
    /\ TimeTypes /\ UNCHANGED timeVars => TimeTypes'
    /\ ReadTypes /\ UNCHANGED readVars => ReadTypes'
BY DEF MemoryTypes, memoryVars, TitleTypes, titleVars, TimeTypes, timeVars,
   ReadTypes, readVars

LEMMA ReadTitleType ==
    ASSUME TypeOK, NEW t, ReadTitle(t)
    PROVE  /\ control' \in Places \cup {None}
           /\ titleIn' \in 0..Longest /\ titleFailures' \in 0..6
           /\ faults' \in 0..FaultBudget /\ visible' \in 0..(Longest + 1)
<1>1. NoFault \/ \E kind \in {"modules", "scan", "torn"} : Fault(kind)
    BY DEF ReadTitle, TitleCached, TitleNotYet, TitleFound, TitleNotFound, DecodedTitle
<1>2. faults' \in 0..FaultBudget /\ visible' \in 0..(Longest + 1)
    BY <1>1, FaultType
<1>3. CASE TitleCached(t) \/ TitleNotYet(t)
    BY <1>2, <1>3, TypeParts DEF TitleCached, TitleNotYet, titleVars, TitleTypes
<1>4. CASE TitleFound(t)
    BY <1>2, <1>4, LongestDelay DEF TitleFound, Seen
<1>5. CASE TitleNotFound(t)
    <2> DEFINE n == FailuresBefore
    <2>1. n \in 0..6
        BY TypeParts DEF FailuresBefore, TitleTypes
    <2>2. /\ control' = None
          /\ titleFailures' = RecordFailure(n) /\ titleIn' = Delay[titleFailures']
        BY <1>5 DEF TitleNotFound, FailureRecorded
    <2> HIDE DEF n
    <2>. QED
        BY <1>2, <2>1, <2>2, FailureType, LongestDelay
<1>. QED
    BY <1>2, <1>3, <1>4, <1>5 DEF ReadTitle

\* The texts are read at a place.
PlaceInv == pc \in {"total", "elapsed", "recheck"} => timeControl # None

LEMMA TypePoll == ASSUME TypeOK, PlaceInv, Poll PROVE TypeOK'
<1>0. /\ MemoryTypes /\ TitleTypes /\ TimeTypes /\ ReadTypes /\ CountTypes
      /\ settled \in BOOLEAN
    BY TypeParts
<1>1. CASE ObserveTitle
    <2>1. PICK t \in Titles : ReadTitle(t) /\ title' = t
        BY <1>1 DEF ObserveTitle
    <2>2. TitleTypes' /\ CountTypes'
        BY <2>1, ReadTitleType DEF TitleTypes, CountTypes
    <2>3. ReadTypes'
        BY <1>0, <1>1, <2>1 DEF ObserveTitle, ReadTypes
    <2>. QED
        BY <1>0, <1>1, <2>2, <2>3, SameTypes, TypeParts DEF ObserveTitle
<1>2. CASE ExpectTitle
    <2>1. CountTypes'
        BY <1>2, FaultType DEF ExpectTitle, CountTypes
    <2>2. ReadTypes'
        BY <1>0, <1>2 DEF ExpectTitle, ReadTypes, NoSample, Titles, Text
    <2>3. settled' \in BOOLEAN
        BY <1>2 DEF ExpectTitle, Alone, Showing
    <2>. QED
        BY <1>0, <1>2, <2>1, <2>2, <2>3, SameTypes, TypeParts DEF ExpectTitle
<1>3. CASE AskTitle
    <2>1. TitleTypes' /\ CountTypes'
        BY <1>3, ReadTitleType DEF AskTitle, TitleTypes, CountTypes
    <2>2. ReadTypes'
        BY <1>0, <1>3 DEF AskTitle, ReadTypes, NoSample
    <2>. QED
        BY <1>0, <1>3, <2>1, <2>2, SameTypes, TypeParts DEF AskTitle
<1>4. CASE FindTimes
    <2>1. CountTypes'
        BY <1>4, FaultType DEF FindTimes, TimeNotYet, TimeNotFound, TimeCached,
           TimeFound, CountTypes
    <2>2. ReadTypes'
        BY <1>0, <1>4 DEF FindTimes, ReadTypes, NoSample
    <2>3. TimeTypes'
        <3>1. CASE TimeNotYet \/ TimeCached
            BY <1>0, <3>1, SameTypes DEF TimeNotYet, TimeCached
        <3>2. CASE TimeFound
            BY <3>2, LongestDelay DEF TimeFound, TimeTypes, Seen
        <3>3. CASE TimeNotFound
            BY <1>0, <3>3, TimeFailureType DEF TimeNotFound, TimeTypes
        <3>. QED
            BY <1>4, <3>1, <3>2, <3>3 DEF FindTimes
    <2>. QED
        BY <1>0, <1>4, <2>1, <2>2, <2>3, SameTypes, TypeParts DEF FindTimes
<1>5. CASE ReadTotal
    <2>1. CountTypes'
        BY <1>0, <1>5 DEF ReadTotal, NoFault, CountTypes
    <2>2. ReadTypes'
        <3>1. memory[timeControl].named => total' \in Text
            BY <1>0, <1>5 DEF ReadTotal, MemoryTypes, TimeTypes, Panel, PlaceInv
        <3>. QED
            BY <1>0, <1>5, <3>1 DEF ReadTotal, ReadTypes, Text
    <2>. QED
        BY <1>0, <1>5, <2>1, <2>2, SameTypes, TypeParts DEF ReadTotal
<1>6. CASE ReadElapsed
    <2>1. CountTypes'
        BY <1>0, <1>6 DEF ReadElapsed, NoFault, CountTypes
    <2>2. ReadTypes'
        BY <1>0, <1>6 DEF ReadElapsed, ReadTypes, Times
    <2>. QED
        BY <1>0, <1>6, <2>1, <2>2, SameTypes, TypeParts DEF ReadElapsed
<1>7. CASE Recheck
    <2>1. CountTypes'
        BY <1>0, <1>7 DEF Recheck, NoFault, CountTypes
    <2>2. ReadTypes'
        BY <1>0, <1>7 DEF Recheck, ReadTypes
    <2>. QED
        BY <1>0, <1>7, <2>1, <2>2, SameTypes, TypeParts DEF Recheck
<1>8. CASE Confirm
    <2>1. TitleTypes' /\ CountTypes'
        BY <1>8, ReadTitleType DEF Confirm, TitleTypes, CountTypes
    <2>2. ReadTypes'
        BY <1>0, <1>8 DEF Confirm, ReadTypes, Text
    <2>. QED
        BY <1>0, <1>8, <2>1, <2>2, SameTypes, TypeParts DEF Confirm
<1>. QED
    BY <1>1, <1>2, <1>3, <1>4, <1>5, <1>6, <1>7, <1>8 DEF Poll

LEMMA TypePlayer == ASSUME TypeOK, KuGou \/ Tick \/ UNCHANGED vars PROVE TypeOK'
<1>0. /\ MemoryTypes /\ TitleTypes /\ TimeTypes /\ ReadTypes /\ CountTypes
      /\ settled \in BOOLEAN
    BY TypeParts
<1>1. CASE NextSong
    <2>1. MemoryTypes'
        BY <1>0, <1>1, SourceAssumption DEF NextSong, MemoryTypes
    <2>. QED
        BY <1>0, <1>1, <2>1, SameTypes, TypeParts DEF NextSong, ui, CountTypes
<1>2. CASE ShowText
    <2>1. PICK f \in {"title", "total", "elapsed"} :
                 memory' = [memory EXCEPT ![panel][f] = song]
        BY <1>2 DEF ShowText
    <2>2. panel \in Places /\ song \in Text
        BY <1>0, <1>2 DEF ShowText, MemoryTypes, Text
    <2>3. [memory[panel] EXCEPT ![f] = song] \in Panel
        BY <1>0, <2>1, <2>2 DEF MemoryTypes, Panel
    <2>4. MemoryTypes'
        BY <1>0, <1>2, <2>1, <2>2, <2>3 DEF ShowText, MemoryTypes
    <2>. QED
        BY <1>0, <1>2, <2>4, SameTypes, TypeParts DEF ShowText, ui, CountTypes
<1>3. CASE BuildPanel
    <2>1. [Reused EXCEPT !.named = TRUE] \in Panel
        BY DEF Reused, Panel, Text
    <2>2. MemoryTypes'
        BY <1>0, <1>3, <2>1, SourceAssumption DEF BuildPanel, MemoryTypes
    <2>3. CountTypes'
        BY <1>0, <1>3, LongestDelay DEF BuildPanel, CountTypes, ui
    <2>. QED
        BY <1>0, <1>3, <2>2, <2>3, SameTypes, TypeParts DEF BuildPanel, ui
<1>4. CASE ReuseMemory
    <2>1. Reused \in Panel
        BY DEF Reused, Panel, Text
    <2>2. MemoryTypes'
        BY <1>0, <1>4, <2>1 DEF ReuseMemory, MemoryTypes
    <2>3. CountTypes'
        BY <1>0, <1>4, LongestDelay DEF ReuseMemory, CountTypes, ui
    <2>. QED
        BY <1>0, <1>4, <2>2, <2>3, SameTypes, TypeParts DEF ReuseMemory, ui
<1>5. CASE Tick
    <2>1. TitleTypes' /\ TimeTypes'
        BY <1>0, <1>5, LongestDelay DEF Tick, Down, TitleTypes, TimeTypes
    <2>2. CountTypes'
        BY <1>0, <1>5, LongestDelay DEF Tick, Up, CountTypes
    <2>3. ReadTypes'
        BY <1>0, <1>5 DEF Tick, ReadTypes
    <2>. QED
        BY <1>0, <1>5, <2>1, <2>2, <2>3, SameTypes, TypeParts DEF Tick
<1>6. CASE UNCHANGED vars
    BY <1>0, <1>6, SameTypes, TypeParts DEF vars, CountTypes
<1>. QED
    BY <1>1, <1>2, <1>3, <1>4, <1>5, <1>6 DEF KuGou

LEMMA PlaceStep == ASSUME PlaceInv, [Next]_vars PROVE PlaceInv'
<1>1. CASE FindTimes
    <2>1. ASSUME TimeCached \/ TimeFound PROVE timeControl' # None
        BY <2>1, SourceAssumption DEF TimeCached, TimeFound, Named, Seen, timeVars
    <2>. QED
        BY <1>1, <2>1 DEF FindTimes, NoSample, PlaceInv
<1>2. CASE ReadTotal \/ ReadElapsed \/ Recheck
    BY <1>2 DEF ReadTotal, ReadElapsed, Recheck, PlaceInv, timeVars
<1>3. CASE ObserveTitle \/ ExpectTitle \/ AskTitle \/ Confirm
    BY <1>3 DEF ObserveTitle, ExpectTitle, AskTitle, Confirm, NoSample, PlaceInv
<1>4. CASE KuGou
    BY <1>4 DEF KuGou, NextSong, ShowText, BuildPanel, ReuseMemory, ui, readVars,
       timeVars, PlaceInv
<1>5. CASE Tick \/ UNCHANGED vars
    BY <1>5 DEF Tick, vars, readVars, timeVars, PlaceInv
<1>. QED
    BY <1>1, <1>2, <1>3, <1>4, <1>5 DEF Next, Poll

LEMMA TypeInvariant == Spec => [](TypeOK /\ PlaceInv)
<1>1. ASSUME Init PROVE TypeOK /\ PlaceInv
    <2>1. MemoryTypes
        BY <1>1, SourceAssumption DEF Init, MemoryTypes, Reused, Panel, Text
    <2>2. ReadTypes /\ PlaceInv
        BY <1>1 DEF Init, ReadTypes, Titles, Text, PlaceInv
    <2>3. TitleTypes /\ TimeTypes
        BY <1>1, LongestDelay DEF Init, TitleTypes, TimeTypes
    <2>4. CountTypes
        BY <1>1, SourceAssumption, LongestDelay DEF Init, CountTypes
    <2>5. settled \in BOOLEAN
        BY <1>1, Zenon DEF Init
    <2>. QED
        BY <2>1, <2>2, <2>3, <2>4, <2>5, TypeParts
<1>2. ASSUME TypeOK, PlaceInv, [Next]_vars PROVE (TypeOK /\ PlaceInv)'
    BY <1>2, TypePoll, TypePlayer, PlaceStep DEF Next
<1>. QED
    BY <1>1, <1>2, PTL DEF Spec

\* The reader keeps its types: both countdowns within the longest delay, both
\* counts of failures within the table of the delays.
THEOREM SourceTypes == Spec => []TypeOK
BY TypeInvariant, PTL

-----------------------------------------------------------------------------
(* KuGou's panel.                                                          *)

\* The panel bears its name, and ticks are counted once there is one; while
\* settled, nothing but the panel and its song is in sight.
PanelInv ==
    /\ panel # None => memory[panel].named
    /\ panel = None => visible = 0
    /\ settled => Showing(panel) /\ Alone

\* A poll leaves KuGou's memory alone, and a fault restarts the count of ticks.
LEMMA PollFrame ==
    ASSUME Poll
    PROVE  /\ UNCHANGED memoryVars
           /\ visible' = visible \/ visible' = 0
           /\ ~ExpectTitle => settled' = settled
<1> USE DEF NoFault, Fault
<1>1. CASE \E t \in Titles : ReadTitle(t) /\ ObserveTitle
    BY <1>1 DEF ObserveTitle, ReadTitle, TitleCached, TitleNotYet, TitleFound,
       TitleNotFound, DecodedTitle
<1>2. CASE AskTitle \/ Confirm
    <2>1. PICK t \in Titles : ReadTitle(t)
        BY <1>2 DEF AskTitle, Confirm
    <2>2. visible' = visible \/ visible' = 0
        BY <2>1 DEF ReadTitle, TitleCached, TitleNotYet, TitleFound, TitleNotFound,
           DecodedTitle
    <2>. QED
        BY <1>2, <2>2 DEF AskTitle, Confirm
<1>3. CASE FindTimes
    BY <1>3 DEF FindTimes, TimeNotYet, TimeNotFound, TimeCached, TimeFound
<1>4. CASE ExpectTitle \/ ReadTotal \/ ReadElapsed \/ Recheck
    BY <1>4 DEF ExpectTitle, ReadTotal, ReadElapsed, Recheck
<1>5. ObserveTitle => \E t \in Titles : ReadTitle(t) /\ ObserveTitle
    BY DEF ObserveTitle
<1>. QED
    BY <1>1, <1>2, <1>3, <1>4, <1>5 DEF Poll

LEMMA PanelStep ==
    ASSUME TypeOK, PanelInv, [Next]_vars
    PROVE  PanelInv'
<1>0. MemoryTypes
    BY TypeParts
<1>1. CASE Poll
    <2>1. UNCHANGED <<memory, panel, song>> /\ (visible' = visible \/ visible' = 0)
        BY <1>1, PollFrame DEF memoryVars
    <2>2. settled' => Showing(panel) /\ Alone
        <3>1. CASE ExpectTitle
            BY <3>1 DEF ExpectTitle
        <3>2. CASE ~ExpectTitle
            BY <1>1, <3>2, PollFrame DEF PanelInv
        <3>. QED
            BY <3>1, <3>2
    <2>. QED
        BY <2>1, <2>2 DEF PanelInv, Showing, Alone
<1>2. CASE NextSong
    BY <1>2 DEF NextSong, PanelInv
<1>3. CASE ShowText
    <2>1. PICK f \in {"title", "total", "elapsed"} :
              /\ memory[panel][f] # song
              /\ memory' = [memory EXCEPT ![panel][f] = song]
        BY <1>3 DEF ShowText
    <2>2. UNCHANGED <<panel, song, settled, visible>> /\ panel \in Places
        BY <1>0, <1>3 DEF ShowText, MemoryTypes
    <2>3. ~settled
        BY <2>1 DEF PanelInv, Showing
    <2>4. memory[panel] \in Panel /\ memory'[panel] = [memory[panel] EXCEPT ![f] = song]
        BY <1>0, <2>1, <2>2 DEF MemoryTypes
    <2>5. memory'[panel].named = memory[panel].named
        BY <2>1, <2>4 DEF Panel
    <2>. QED
        BY <2>2, <2>3, <2>5 DEF PanelInv
<1>4. CASE BuildPanel
    <2>1. panel' \in Places /\ memory'[panel'].named
        BY <1>0, <1>4 DEF BuildPanel, MemoryTypes, Reused
    <2>. QED
        BY <1>4, <2>1, SourceAssumption DEF BuildPanel, PanelInv
<1>5. CASE ReuseMemory
    <2>1. PICK p \in Places \ {panel} :
              memory[p].named /\ memory' = [memory EXCEPT ![p] = Reused]
        BY <1>5 DEF ReuseMemory
    <2>2. ~settled
        BY <2>1 DEF PanelInv, Alone
    <2>3. panel # None => memory'[panel] = memory[panel]
        BY <1>0, <2>1 DEF MemoryTypes
    <2>. QED
        BY <1>5, <2>2, <2>3 DEF ReuseMemory, PanelInv
<1>6. CASE Tick
    <2>1. UNCHANGED <<memory, panel, song, settled>> /\ (panel = None => visible' = 0)
        BY <1>6 DEF Tick, memoryVars
    <2>. QED
        BY <2>1 DEF PanelInv, Showing, Alone
<1>7. CASE UNCHANGED vars
    BY <1>7 DEF vars, memoryVars, PanelInv, Showing, Alone
<1>. QED
    BY <1>1, <1>2, <1>3, <1>4, <1>5, <1>6, <1>7 DEF Next, KuGou

LEMMA PanelInvariant == Spec => []PanelInv
<1>1. Init => PanelInv
    BY Zenon DEF Init, PanelInv
<1>. QED
    BY <1>1, PanelStep, SourceTypes, PTL DEF Spec

\* A panel that is there is seen by every scan that does not fail.
LEMMA PanelSeen == ASSUME TypeOK, PanelInv, panel # None PROVE panel \in Seen
<1>1. panel \in Places
    BY TypeParts DEF MemoryTypes
<1>2. InChunk(panel)
    BY <1>1, SourceAssumption, ScanMissesNoControl
<1>. QED
    BY <1>1, <1>2 DEF Seen, Named, PanelInv

-----------------------------------------------------------------------------
(* Reading the title.                                                      *)

\* A read of the title either meets no fault, or one that counts.
LEMMA ReadFaults ==
    ASSUME TypeOK, NEW t, ReadTitle(t)
    PROVE  /\ \/ faults' = faults /\ visible' = visible
              \/ faults' = faults + 1 /\ visible' = 0
           /\ t = Torn => faults' = faults + 1
<1>1. NoFault \/ \E kind \in {"modules", "scan", "torn"} : Fault(kind)
    BY DEF ReadTitle, TitleCached, TitleNotYet, TitleFound, TitleNotFound, DecodedTitle
<1>2. ASSUME t = Torn PROVE \E p \in Places : DecodedTitle(p, Torn)
    <2>1. \/ Cached /\ DecodedTitle(control, Torn)
          \/ \E p \in Seen : DecodedTitle(p, Torn)
        BY <1>2, SourceAssumption
           DEF ReadTitle, TitleCached, TitleNotYet, TitleFound, TitleNotFound
    <2>2. Cached => control \in Places
        BY TypeParts DEF Cached, Named, TitleTypes
    <2>. QED
        BY <2>1, <2>2 DEF Seen
<1>3. ASSUME NEW p \in Places, DecodedTitle(p, Torn) PROVE Fault("torn")
    <2>1. memory[p].title \in Text
        BY TypeParts DEF MemoryTypes, Panel
    <2>. QED
        BY <1>3, <2>1, SourceAssumption DEF DecodedTitle, Text
<1>. QED
    BY <1>1, <1>2, <1>3 DEF NoFault, Fault

\* Where only the panel looks like one and all its texts are the song's, no
\* other title is read.
LEMMA ReadSettled ==
    ASSUME TypeOK, Showing(panel), Alone, NEW t, ReadTitle(t), t # None
    PROVE  t = song
<1>1. \E p \in Places : Named(p) /\ DecodedTitle(p, t)
    <2>1. \/ Cached /\ DecodedTitle(control, t)
          \/ \E p \in Seen : DecodedTitle(p, t)
        BY DEF ReadTitle, TitleCached, TitleNotYet, TitleFound, TitleNotFound
    <2>2. Cached => control \in Places
        BY TypeParts DEF Cached, Named, TitleTypes
    <2>. QED
        BY <2>1, <2>2 DEF Seen, Cached
<1>2. \A p \in Places : Named(p) => memory[p].title = song
    BY DEF Named, Alone, Showing
<1>. QED
    BY <1>1, <1>2 DEF DecodedTitle

-----------------------------------------------------------------------------
(* No scan is put off beyond the longest delay.                            *)

\* What a read of the title leaves: the control is known, or will be looked for
\* before the count of ticks passes the longest delay.
LookedFor ==
    /\ control = None => titleIn + visible <= Longest
    /\ control # None => memory[control].named \/ visible = 0

\* Between the tick and that read, the delay may just have run out.
ControlInv ==
    \/ LookedFor
    \/ /\ pc = "due"
       /\ control = None => titleIn = 0
       /\ control # None => visible = 1

TimeControlInv ==
    timeControl = None => timeIn = 0 \/ timeIn + visible <= Longest

LEMMA DelayAtOnce ==
    ASSUME NEW n \in 0..Longest, NEW m, m = 0
    PROVE  n + m <= Longest
BY LongestDelay

\* A tick takes one from the delay for the one it adds.
LEMMA DelayRuns ==
    ASSUME NEW n \in Nat, NEW m \in Nat, n + m <= Longest, n # 0
    PROVE  n - 1 + (m + 1) <= Longest /\ n - 1 + m <= Longest /\ n - 1 + 0 <= Longest
BY LongestDelay

LEMMA ReadLooksFor ==
    ASSUME TypeOK, PanelInv, ControlInv, NEW t, ReadTitle(t), UNCHANGED memory
    PROVE  LookedFor'
<1>0. /\ titleIn \in Nat /\ visible \in Nat /\ Longest \in Nat
      /\ visible' = visible \/ visible' = 0
    BY TypeParts, ReadFaults, LongestDelay DEF TitleTypes, CountTypes
<1>1. CASE TitleCached(t)
    BY <1>1 DEF TitleCached, Cached, Named, titleVars, LookedFor
<1>2. CASE TitleNotYet(t)
    <2>1. control = None /\ titleIn > 0 /\ UNCHANGED <<control, titleIn, visible>>
        BY <1>2 DEF TitleNotYet, WaitsFor, titleVars, NoFault
    <2>. QED
        BY <2>1, <1>0 DEF ControlInv, LookedFor
<1>3. CASE TitleFound(t)
    BY <1>3, SourceAssumption DEF TitleFound, Seen, Named, LookedFor
<1>4. CASE TitleNotFound(t)
    <2>1. visible' = 0
        BY <1>4, PanelSeen DEF TitleNotFound, Fault, NoFault, PanelInv
    <2>2. control' = None /\ titleIn' \in 0..Longest
        BY <1>4, ReadTitleType DEF TitleNotFound
    <2>3. titleIn' + visible' <= Longest
        BY <2>1, <2>2, DelayAtOnce
    <2>. QED
        BY <2>1, <2>2, <2>3 DEF LookedFor
<1>. QED
    BY <1>1, <1>2, <1>3, <1>4 DEF ReadTitle

LEMMA ControlStep ==
    ASSUME TypeOK, PanelInv, ControlInv, TimeControlInv, [Next]_vars
    PROVE  ControlInv' /\ TimeControlInv'
<1>0. /\ MemoryTypes /\ TitleTypes /\ TimeTypes /\ CountTypes
      /\ Longest \in Nat \ {0}
    BY TypeParts, LongestDelay
<1>1. CASE ObserveTitle \/ AskTitle \/ Confirm
    <2>1. PICK t \in Titles : ReadTitle(t)
        BY <1>1 DEF ObserveTitle, AskTitle, Confirm
    <2>2. UNCHANGED <<memory, timeControl, timeIn>>
        BY <1>1 DEF ObserveTitle, AskTitle, Confirm, memoryVars, timeVars
    <2>3. LookedFor'
        BY <2>1, <2>2, ReadLooksFor
    <2>4. visible' = visible \/ visible' = 0
        BY <2>1, ReadFaults
    <2>. QED
        BY <1>0, <2>2, <2>3, <2>4 DEF ControlInv, TimeControlInv, TimeTypes, CountTypes
<1>2. CASE ExpectTitle \/ ReadTotal \/ ReadElapsed \/ Recheck
    <2>1. UNCHANGED <<memory, titleVars, timeVars>> /\ pc # "due"
        BY <1>2 DEF ExpectTitle, ReadTotal, ReadElapsed, Recheck, memoryVars
    <2>2. visible' = visible \/ visible' = 0
        BY <1>2, PollFrame DEF Poll
    <2>. QED
        BY <1>0, <2>1, <2>2 DEF ControlInv, LookedFor, TimeControlInv, titleVars,
           timeVars, TitleTypes, TimeTypes, CountTypes
<1>3. CASE FindTimes
    <2>1. UNCHANGED <<memory, titleVars>> /\ pc # "due"
        BY <1>3 DEF FindTimes, memoryVars
    <2>2. visible' = visible \/ visible' = 0
        BY <1>3, PollFrame DEF Poll
    <2>3. ControlInv'
        BY <1>0, <2>1, <2>2 DEF ControlInv, LookedFor, titleVars, TitleTypes, CountTypes
    <2>4. CASE TimeNotYet \/ TimeCached
        BY <1>0, <2>2, <2>3, <2>4 DEF TimeNotYet, TimeCached, timeVars, TimeControlInv,
           TimeTypes, CountTypes
    <2>5. CASE TimeFound
        BY <2>3, <2>5 DEF TimeFound, TimeControlInv
    <2>6. CASE TimeNotFound
        <3>1. visible' = 0
            BY <2>6, PanelSeen DEF TimeNotFound, Fault, NoFault, PanelInv
        <3>2. timeIn' \in 0..Longest
            BY <1>0, <2>6, TimeFailureType
        <3>3. timeIn' + visible' <= Longest
            BY <3>1, <3>2, DelayAtOnce
        <3>. QED
            BY <2>3, <3>3 DEF TimeControlInv
    <2>. QED
        BY <1>3, <2>4, <2>5, <2>6 DEF FindTimes
<1>4. CASE KuGou
    <2>1. UNCHANGED <<titleVars, timeVars, pc>>
        BY <1>4 DEF KuGou, NextSong, ShowText, BuildPanel, ReuseMemory, ui, readVars
    <2>2. \/ visible' = visible /\ \A p \in Places : memory'[p].named = memory[p].named
          \/ visible' = 0
        <3>1. CASE ShowText
            <4>1. PICK f \in {"title", "total", "elapsed"} :
                      memory' = [memory EXCEPT ![panel][f] = song]
                BY <3>1 DEF ShowText
            <4>. QED
                BY <1>0, <3>1, <4>1 DEF ShowText, MemoryTypes, Panel
        <3>. QED
            BY <1>4, <3>1 DEF KuGou, NextSong, BuildPanel, ReuseMemory
    <2>. QED
        BY <1>0, <2>1, <2>2 DEF ControlInv, LookedFor, TimeControlInv, titleVars,
           timeVars, TitleTypes, TimeTypes, CountTypes
<1>5. CASE Tick
    <2>1. /\ UNCHANGED <<memory, control, timeControl>> /\ pc = "idle" /\ pc' = "due"
          /\ titleIn' = Down(titleIn) /\ timeIn' = Down(timeIn)
          /\ visible' \in {0, visible, visible + 1}
        BY <1>5 DEF Tick, memoryVars, Up
    <2>2. titleIn \in Nat /\ timeIn \in Nat /\ visible \in Nat /\ Longest \in Nat
        BY <1>0 DEF TitleTypes, TimeTypes, CountTypes
    <2>3. LookedFor
        BY <2>1 DEF ControlInv
    <2>4. control = None => titleIn' = 0 \/ titleIn' + visible' <= Longest
        BY <2>1, <2>2, <2>3, DelayRuns DEF Down, LookedFor
    <2>5. timeControl = None => timeIn' = 0 \/ timeIn' + visible' <= Longest
        BY <2>1, <2>2, DelayRuns DEF Down, TimeControlInv
    <2>6. control # None => \/ memory[control].named
                            \/ visible' \in {0, 1}
        BY <2>1, <2>3 DEF LookedFor
    <2>. QED
        BY <2>1, <2>4, <2>5, <2>6 DEF ControlInv, LookedFor, TimeControlInv
<1>6. CASE UNCHANGED vars
    BY <1>6 DEF vars, memoryVars, titleVars, timeVars, readVars, ControlInv, LookedFor,
       TimeControlInv
<1>. QED
    BY <1>1, <1>2, <1>3, <1>4, <1>5, <1>6 DEF Next, Poll

LEMMA ControlInvariant == Spec => [](ControlInv /\ TimeControlInv)
<1>1. Init => ControlInv /\ TimeControlInv
    BY LongestDelay DEF Init, ControlInv, LookedFor, TimeControlInv
<1>. QED
    BY <1>1, ControlStep, SourceTypes, PanelInvariant, PTL DEF Spec

\* A panel in sight is found within the longest delay: wherever it lies a scan
\* sees it, old memory is not read for longer than a poll, and no failure puts
\* the next scan off beyond its delay.
THEOREM PanelIsFound == Spec => []PanelFound
<1>1. ASSUME TypeOK, PanelInv, ControlInv PROVE PanelFound
    <2>1. SUFFICES ASSUME pc = "idle", visible > Longest, Alone
                   PROVE  control = panel
        BY DEF PanelFound
    <2>2. titleIn \in Nat /\ visible \in Nat /\ Longest \in Nat
        BY <1>1, TypeParts, LongestDelay DEF TitleTypes, CountTypes
    <2>3. LookedFor /\ control \in Places \cup {None}
        BY <1>1, <2>1, TypeParts DEF ControlInv, TitleTypes
    <2>. QED
        BY <2>1, <2>2, <2>3 DEF LookedFor, Alone
<1>. QED
    BY <1>1, SourceTypes, PanelInvariant, ControlInvariant, PTL

-----------------------------------------------------------------------------
(* The times.                                                              *)

SongTimes == [total |-> song, elapsed |-> song]

\* While settled, the worker holds nothing of another song from the moment the
\* title it read is the expected one.
OwnInv ==
    /\ pc = "ask" => expected # None
    /\ settled =>
         /\ pc \in {"find", "total", "elapsed", "recheck", "confirm"} => expected = song
         /\ pc \in {"total", "elapsed", "recheck"} => timeControl = panel
         /\ pc \in {"elapsed", "recheck"} => total = song
         /\ pc \in {"recheck", "confirm"} => candidate = SongTimes
    /\ SettledSampleOwn

\* KuGou keeps the song and its texts while settled, and reads nothing.
LEMMA SettledFrame ==
    ASSUME PanelInv, KuGou \/ UNCHANGED vars
    PROVE  /\ UNCHANGED readVars /\ UNCHANGED timeVars
           /\ settled' => settled /\ UNCHANGED <<song, panel>>
           /\ visible' = visible \/ visible' = 0
BY DEF KuGou, NextSong, ShowText, BuildPanel, ReuseMemory, ui, vars, memoryVars, readVars

\* Where only the panel looks like one, whatever has the name is the panel.
LEMMA SeenSettled ==
    ASSUME Showing(panel), Alone, NEW p \in Places, memory[p].named
    PROVE  p = panel /\ memory[p].total = song /\ memory[p].elapsed = song
BY DEF Showing, Alone

LEMMA OwnStep ==
    ASSUME TypeOK, PlaceInv, PanelInv, OwnInv, [Next]_vars
    PROVE  OwnInv'
<1>0. /\ song \in Songs /\ None \notin Songs
      /\ settled => Showing(panel) /\ Alone
      /\ timeControl \in Places \cup {None}
      /\ settled /\ pc \in {"total", "elapsed", "recheck"} =>
            /\ memory[timeControl].named
            /\ memory[timeControl].total = song /\ memory[timeControl].elapsed = song
    <2>1. settled /\ pc \in {"total", "elapsed", "recheck"} =>
              timeControl = panel /\ Showing(panel)
        BY DEF OwnInv, PanelInv
    <2>. QED
        BY <2>1, TypeParts, SourceAssumption
           DEF MemoryTypes, TimeTypes, PanelInv, Showing
<1>1. CASE KuGou \/ UNCHANGED vars
    BY <1>1, SettledFrame DEF readVars, timeVars, OwnInv, SongTimes, SettledSampleOwn
<1>2. CASE Tick \/ ObserveTitle
    <2>1. pc' \in {"due", "timeline"}
        BY <1>2 DEF Tick, ObserveTitle
    <2>. QED
        BY <2>1 DEF OwnInv, SettledSampleOwn
<1>3. CASE ExpectTitle
    <2>1. \/ pc' = "idle" /\ sample' = None
          \/ pc' = "ask" /\ expected' # None
        BY <1>3 DEF ExpectTitle, NoSample
    <2>. QED
        BY <2>1 DEF OwnInv, SettledSampleOwn
<1>4. CASE AskTitle
    <2>1. PICK t \in Titles :
              /\ ReadTitle(t)
              /\ IF Asked(t) THEN pc' = "find" /\ UNCHANGED sample ELSE NoSample
        BY <1>4 DEF AskTitle
    <2>2. UNCHANGED <<song, settled, expected>> /\ expected # None
        BY <1>4 DEF AskTitle, memoryVars, OwnInv
    <2>3. pc' = "find" /\ settled => expected = song
        BY <1>0, <2>1, <2>2, ReadSettled DEF Asked, NoSample
    <2>4. pc' = "find" \/ (pc' = "idle" /\ sample' = None)
        BY <2>1 DEF NoSample
    <2>. QED
        BY <2>2, <2>3, <2>4 DEF OwnInv, SettledSampleOwn
<1>5. CASE FindTimes
    <2>1. \/ pc' = "idle" /\ sample' = None
          \/ (TimeCached \/ TimeFound) /\ pc' = "total"
        BY <1>5 DEF FindTimes, NoSample
    <2>2. UNCHANGED <<song, panel, settled, expected>> /\ settled => expected = song
        BY <1>5 DEF FindTimes, memoryVars, OwnInv
    <2>3. ASSUME TimeCached \/ TimeFound, settled PROVE timeControl' = panel
        BY <1>0, <2>3, SeenSettled DEF TimeCached, TimeFound, Named, Seen, timeVars
    <2>. QED
        BY <1>5, <2>1, <2>2, <2>3 DEF FindTimes, memoryVars, OwnInv, SettledSampleOwn
<1>6. CASE ReadTotal
    <2>1. UNCHANGED <<song, panel, settled, expected, timeControl>>
        BY <1>6 DEF ReadTotal, memoryVars, timeVars
    <2>2. pc = "total" /\ pc' \in {"elapsed", "confirm"}
        BY <1>6 DEF ReadTotal
    <2>3. settled => pc' = "elapsed" /\ total' = song
        BY <1>0, <1>6 DEF ReadTotal
    <2>. QED
        BY <2>1, <2>2, <2>3 DEF OwnInv, SettledSampleOwn
<1>7. CASE ReadElapsed
    <2>1. UNCHANGED <<song, panel, settled, expected, timeControl, total>>
        BY <1>7 DEF ReadElapsed, memoryVars, timeVars
    <2>2. pc = "elapsed" /\ pc' = "recheck"
        BY <1>7 DEF ReadElapsed
    <2>3. settled => candidate' = SongTimes
        BY <1>0, <1>7 DEF ReadElapsed, OwnInv, SongTimes
    <2>. QED
        BY <2>1, <2>2, <2>3 DEF OwnInv, SettledSampleOwn, SongTimes
<1>8. CASE Recheck
    <2>1. UNCHANGED <<song, panel, settled, expected>>
        BY <1>8 DEF Recheck, memoryVars
    <2>2. pc = "recheck" /\ pc' = "confirm"
        BY <1>8 DEF Recheck
    <2>3. settled => candidate' = SongTimes
        BY <1>0, <1>8 DEF Recheck, OwnInv
    <2>. QED
        BY <2>1, <2>2, <2>3 DEF OwnInv, SettledSampleOwn, SongTimes
<1>9. CASE Confirm
    <2>1. UNCHANGED <<song, panel, settled, expected>> /\ sample' \in {candidate, None}
        BY <1>9 DEF Confirm, memoryVars
    <2>2. pc = "confirm" /\ pc' = "idle"
        BY <1>9 DEF Confirm
    <2>3. settled => candidate = [total |-> expected, elapsed |-> expected]
        BY <2>2 DEF OwnInv, SongTimes
    <2>. QED
        BY <2>1, <2>2, <2>3 DEF OwnInv, SettledSampleOwn
<1>. QED
    BY <1>1, <1>2, <1>3, <1>4, <1>5, <1>6, <1>7, <1>8, <1>9 DEF Next, Poll

LEMMA OwnInvariant == Spec => []OwnInv
<1>1. Init => OwnInv
    BY DEF Init, OwnInv, SettledSampleOwn
<1>. QED
    BY <1>1, OwnStep, TypeInvariant, PanelInvariant, PTL DEF Spec

\* While KuGou shows one song everywhere, the times belong to the title they are
\* returned for, whatever was cached, torn or expected before.
THEOREM SettledSampleIsOwn == Spec => []SettledSampleOwn
BY OwnInvariant, PTL DEF OwnInv

\* Past the longest delay nothing keeps a read from the song's title.
LEMMA ReadInTime ==
    ASSUME TypeOK, PanelInv, ControlInv, NEW t, ReadTitle(t), pc # "due",
           settled, visible' > Longest
    PROVE  t = song /\ visible' = visible
<1>1. /\ visible' = visible /\ visible \in Nat /\ titleIn \in Nat
      /\ Longest \in Nat /\ visible > Longest
    BY ReadFaults, TypeParts, LongestDelay DEF TitleTypes, CountTypes
<1>2. LookedFor
    BY DEF ControlInv
<1>3. control # None /\ memory[control].named
    BY <1>1, <1>2 DEF LookedFor
<1>4. control = panel /\ memory[control].title = song
    BY <1>3, TypeParts DEF TitleTypes, PanelInv, Alone, Showing
<1>5. TitleCached(t)
    BY <1>3 DEF ReadTitle, TitleNotYet, TitleFound, TitleNotFound, Cached, Named
<1>. QED
    BY <1>1, <1>4, <1>5 DEF TitleCached, DecodedTitle

LEMMA InTimeStep ==
    ASSUME TypeOK, PanelInv, ControlInv, TimeControlInv, OwnInv, TimesInTime, [Next]_vars
    PROVE  TimesInTime'
<1> SUFFICES ASSUME pc' = "idle", visible' > Longest, settled', expected' = song'
             PROVE  sample' = SongTimes'
    BY DEF TimesInTime, SongTimes
<1>0. /\ song \in Songs /\ None \notin Songs
      /\ visible \in Nat /\ timeIn \in Nat /\ Longest \in Nat
      /\ ~(0 > Longest)
    BY TypeParts, SourceAssumption, LongestDelay DEF MemoryTypes, CountTypes, TimeTypes
<1>1. CASE KuGou \/ UNCHANGED vars
    <2>1. UNCHANGED <<pc, expected, sample>> /\ settled /\ UNCHANGED song
          /\ visible' = visible
        BY <1>0, <1>1, SettledFrame DEF readVars
    <2>. QED
        BY <2>1 DEF TimesInTime, SongTimes
<1>2. CASE ExpectTitle
    <2>1. expected' = None
        BY <1>2 DEF ExpectTitle
    <2>. QED
        BY <1>0, <1>2, <2>1 DEF ExpectTitle, memoryVars
<1>3. CASE AskTitle
    <2>1. PICK t \in Titles : ReadTitle(t) /\ ~Asked(t)
        BY <1>3 DEF AskTitle
    <2>2. settled /\ pc = "ask" /\ expected = song
        BY <1>3 DEF AskTitle, memoryVars
    <2>. QED
        BY <2>1, <2>2, ReadInTime DEF Asked
<1>4. CASE FindTimes
    <2>1. /\ settled /\ (TimeNotYet \/ TimeNotFound)
          /\ visible' = visible \/ visible' = 0
        BY <1>4, PollFrame DEF FindTimes, Poll
    <2>2. visible' = visible /\ panel # None
        BY <1>0, <2>1 DEF PanelInv, Showing
    <2>3. CASE TimeNotYet
        BY <1>0, <2>2, <2>3 DEF TimeNotYet, TimeControlInv
    <2>4. CASE TimeNotFound
        BY <1>0, <2>2, <2>4, PanelSeen DEF TimeNotFound, Fault
    <2>. QED
        BY <2>1, <2>3, <2>4
<1>5. CASE Confirm
    <2>1. PICK t \in Titles :
              ReadTitle(t) /\ sample' = IF Asked(t) THEN candidate ELSE None
        BY <1>5 DEF Confirm
    <2>2. settled /\ pc = "confirm" /\ expected = song /\ UNCHANGED song
        BY <1>5 DEF Confirm, memoryVars
    <2>3. Asked(t)
        BY <2>1, <2>2, ReadInTime DEF Asked
    <2>. QED
        BY <2>1, <2>2, <2>3 DEF OwnInv, SongTimes
<1>6. CASE ObserveTitle \/ ReadTotal \/ ReadElapsed \/ Recheck \/ Tick
    BY <1>6 DEF ObserveTitle, ReadTotal, ReadElapsed, Recheck, Tick
<1>. QED
    BY <1>1, <1>2, <1>3, <1>4, <1>5, <1>6 DEF Next, Poll

\* A poll that asks for the times of the song KuGou shows gets them, as soon as
\* the panel has been in sight for the longest delay.
THEOREM TimesAreInTime == Spec => []TimesInTime
<1>1. Init => TimesInTime
    BY DEF Init, TimesInTime
<1>. QED
    BY <1>1, InTimeStep, SourceTypes, PanelInvariant, ControlInvariant, OwnInvariant,
       PTL DEF Spec

-----------------------------------------------------------------------------
(* Torn titles.                                                            *)

\* Each use of a torn title takes a read of its own that was torn.
TornInv ==
    /\ title = Torn \/ expected = Torn => faults > 0
    /\ pc \in {"find", "total", "elapsed", "recheck", "confirm"} /\ expected = Torn =>
           faults > 1
    /\ TornTitleUntimed

LEMMA TornStep ==
    ASSUME TypeOK, TornInv, [Next]_vars
    PROVE  TornInv'
<1>0. faults \in Nat /\ None # Torn
    BY TypeParts, SourceAssumption DEF CountTypes
<1>1. CASE KuGou \/ UNCHANGED vars \/ Tick
    <2>1. /\ UNCHANGED <<title, expected, sample, faults>>
          /\ pc' = pc \/ pc' = "due"
        BY <1>1 DEF KuGou, NextSong, ShowText, BuildPanel, ReuseMemory, ui, vars,
           readVars, Tick
    <2>. QED
        BY <2>1 DEF TornInv, TornTitleUntimed
<1>2. CASE ObserveTitle
    <2>1. PICK t \in Titles : ReadTitle(t) /\ title' = t
        BY <1>2 DEF ObserveTitle
    <2>2. /\ faults' \in Nat /\ faults' >= faults
          /\ title' = Torn => faults' > 0
        BY <1>0, <2>1, ReadFaults
    <2>. QED
        BY <1>0, <1>2, <2>2 DEF ObserveTitle, TornInv, TornTitleUntimed
<1>3. CASE ExpectTitle
    <2>1. faults' \in {faults, faults + 1}
        BY <1>3 DEF ExpectTitle, NoFault, Fault
    <2>2. /\ expected' \in {title, expected} /\ title' = None
          /\ (pc' = "idle" /\ sample' = None) \/ pc' = "ask"
        BY <1>3 DEF ExpectTitle, NoSample
    <2>3. expected' = Torn => faults' > 0
        BY <1>0, <2>1, <2>2 DEF TornInv
    <2>. QED
        BY <1>0, <2>2, <2>3 DEF TornInv, TornTitleUntimed
<1>4. CASE AskTitle
    <2>1. PICK t \in Titles :
              /\ ReadTitle(t)
              /\ IF Asked(t) THEN pc' = "find" /\ UNCHANGED sample ELSE NoSample
        BY <1>4 DEF AskTitle
    <2>2. UNCHANGED <<title, expected>>
        BY <1>4 DEF AskTitle
    <2>3. /\ title = Torn \/ expected = Torn => faults' > 0
          /\ t = Torn /\ expected = Torn => faults' > 1
        BY <1>0, <2>1, ReadFaults DEF TornInv
    <2>. QED
        BY <2>1, <2>2, <2>3 DEF Asked, NoSample, TornInv, TornTitleUntimed
<1>5. CASE FindTimes
    <2>1. faults' \in {faults, faults + 1} /\ UNCHANGED <<title, expected>>
        BY <1>5 DEF FindTimes, TimeNotYet, TimeNotFound, TimeCached, TimeFound,
           NoFault, Fault
    <2>2. pc = "find" /\ ((pc' = "idle" /\ sample' = None) \/ pc' = "total")
        BY <1>5 DEF FindTimes, NoSample
    <2>. QED
        BY <1>0, <2>1, <2>2 DEF TornInv, TornTitleUntimed
<1>6. CASE ReadTotal \/ ReadElapsed \/ Recheck
    <2>1. /\ UNCHANGED <<title, expected, faults>>
          /\ pc \in {"total", "elapsed", "recheck"}
          /\ pc' \in {"elapsed", "recheck", "confirm"}
        BY <1>6 DEF ReadTotal, ReadElapsed, Recheck, NoFault
    <2>. QED
        BY <2>1 DEF TornInv, TornTitleUntimed
<1>7. CASE Confirm
    <2>1. PICK t \in Titles :
              ReadTitle(t) /\ sample' = IF Asked(t) THEN candidate ELSE None
        BY <1>7 DEF Confirm
    <2>2. UNCHANGED <<title, expected>> /\ pc = "confirm" /\ pc' = "idle"
        BY <1>7 DEF Confirm
    <2>3. /\ title = Torn \/ expected = Torn => faults' > 0
          /\ t = Torn /\ expected = Torn => faults' > 2
        BY <1>0, <2>1, <2>2, ReadFaults DEF TornInv
    <2>. QED
        BY <2>1, <2>2, <2>3 DEF Asked, TornInv, TornTitleUntimed
<1>. QED
    BY <1>1, <1>2, <1>3, <1>4, <1>5, <1>6, <1>7 DEF Next, Poll

\* Less than three torn reads never bring times to a torn title.
THEOREM TornIsUntimed == Spec => []TornTitleUntimed
<1>1. Init => TornInv
    BY SourceAssumption DEF Init, TornInv, TornTitleUntimed
<1>2. TornInv => TornTitleUntimed
    BY DEF TornInv
<1>. QED
    BY <1>1, <1>2, TornStep, SourceTypes, PTL DEF Spec

=============================================================================
