------------------------- MODULE MetadataFlowProofs -------------------------
(***************************************************************************)
(* Theorems about MetadataFlow for any number of processes and any titles. *)
(***************************************************************************)
EXTENDS MetadataFlow, TLAPS

\* The cut titles are what can be stored.
LEMMA CutStored == ASSUME NEW t \in Titles PROVE Cut[t] \in Stored /\ Cut[t] # None
BY FlowAssumption DEF Stored

\* The invariant holds before the first poll.
LEMMA FlowInit == Init => FlowInv
<1> SUFFICES ASSUME Init PROVE FlowInv
  OBVIOUS
<1>1. TypeOK
  <2>1. SongBudget \in Nat /\ DeathBudget \in Nat /\ FaultBudget \in Nat
    BY FlowAssumption
  <2>2. songs \in 0..SongBudget /\ deaths \in 0..DeathBudget /\ faults \in 0..FaultBudget
    BY <2>1 DEF Init, Channel!Init
  <2>3. dropped \in BOOLEAN
    BY DEF Init
  <2> QED
    BY <2>2, <2>3 DEF Init, Channel!Init, TypeOK
<1>2. PendingInv
  BY DEF Init, Channel!Init, PendingInv
<1>3. Answers(Publisher)
  BY FlowAssumption DEF Init, Answers
<1> QED
  BY <1>1, <1>2, <1>3, FlowAssumption DEF FlowInv

\* The steps of a worker, one by one: types and pending publications stay right,
\* and some process goes on answering for the block.
LEMMA WorkerStep ==
    ASSUME FlowInv, NEW p \in Processes, Worker(p)
    PROVE  FlowInv'
<1> USE DEF FlowInv
<1>1. ASSUME ObserveOld(p) PROVE FlowInv'
  BY <1>1 DEF ObserveOld, Step, AfterPublish, TypeOK, PendingInv, Answers,
              playerVars, channelVars
<1>2. ASSUME ObserveNew(p) PROVE FlowInv'
  <2>1. /\ control[p] \in Titles /\ Cut[control[p]] \in Stored /\ Cut[control[p]] # None
        /\ pending' = [pending EXCEPT ![p] = Cut[control[p]]]
    <3>1. control[p] \in Titles
      BY <1>2 DEF ObserveNew, NewTitle, TypeOK
    <3>2. PICK v \in Stored : pending' = [pending EXCEPT ![p] = v]
      BY <1>2 DEF ObserveNew, Channel!Publish
    <3>3. v = Cut[control[p]]
      BY <1>2, <3>2 DEF ObserveNew, TypeOK
    <3> QED
      BY <3>1, <3>2, <3>3, CutStored
  <2>2. TypeOK'
    BY <1>2, <2>1
       DEF ObserveNew, Step, TypeOK, Channel!Publish, playerVars
  <2>3. PendingInv'
    BY <1>2, <2>1, FlowAssumption
       DEF ObserveNew, Step, TypeOK, PendingInv, NewTitle
  <2>4. Answers(p)'
    BY <1>2 DEF ObserveNew, Step, TypeOK, Answers
  <2> QED
    BY <2>2, <2>3, <2>4
<1>3. ASSUME Store(p) PROVE FlowInv'
  <2>1. /\ lastObserved[p] \in Titles /\ pending[p] = Cut[lastObserved[p]]
        /\ value' = pending[p] /\ pending' = [pending EXCEPT ![p] = None]
    BY <1>3 DEF Store, Step, PendingInv, TypeOK, Channel!Store
  <2>2. TypeOK'
    BY <1>3, <2>1, CutStored
       DEF Store, Step, AfterPublish, TypeOK, Channel!Store, playerVars
  <2>3. PendingInv'
    BY <1>3, <2>1 DEF Store, Step, AfterPublish, TypeOK, PendingInv
  <2>4. Answers(p)'
    BY <1>3, <2>1 DEF Store, Answers
  <2> QED
    BY <2>2, <2>3, <2>4
<1>4. ASSUME Drop(p) PROVE FlowInv'
  BY <1>4, FlowAssumption
     DEF Drop, Step, AfterPublish, Fault, TypeOK, PendingInv, Channel!Drop,
         playerVars
<1>5. ASSUME ReadBlock PROVE FlowInv'
  <2>1. /\ UNCHANGED <<value, pending, deaths>>
        /\ result' \in [{Publisher} -> Stored \cup {Torn, Empty, None}]
        /\ faults' \in 0..FaultBudget
    BY <1>5, FlowAssumption
       DEF ReadBlock, TypeOK, Channel!Load, Channel!Miss, Fault
  <2> QED
    BY <1>5, <2>1, FlowAssumption
       DEF ReadBlock, Step, TypeOK, PendingInv, Answers, playerVars
<1>6. ASSUME Show PROVE FlowInv'
  BY <1>6, FlowAssumption
     DEF Show, Step, TypeOK, PendingInv, Answers, playerVars, channelVars
<1> QED
  BY <1>1, <1>2, <1>3, <1>4, <1>5, <1>6 DEF Worker

\* A process that dies has nothing observed and so answers for a block that is
\* damaged or gone.
LEMMA ExitStep ==
    ASSUME FlowInv, NEW p \in Processes, Exit(p)
    PROVE  FlowInv'
<1> USE DEF FlowInv
<1>1. /\ pc' = [pc EXCEPT ![p] = "dead"]
      /\ lastObserved' = [lastObserved EXCEPT ![p] = None]
      /\ pending' = [pending EXCEPT ![p] = None]
      /\ value' \in {value} \cup {Torn, Empty}
      /\ deaths' = deaths + 1 /\ deaths < DeathBudget
      /\ UNCHANGED result
  BY DEF Exit, FilterGone, Channel!Die
<1>2. TypeOK'
  BY <1>1, FlowAssumption DEF Exit, TypeOK
<1>3. PendingInv'
  BY <1>1 DEF TypeOK, PendingInv
<1>4. Answers(p)'
  BY <1>1 DEF TypeOK, Answers
<1> QED
  BY <1>2, <1>3, <1>4

\* Every step keeps the invariant.
LEMMA FlowStep ==
    ASSUME FlowInv, [Next]_vars
    PROVE  FlowInv'
<1>1. ASSUME SongChanges PROVE FlowInv'
  BY <1>1, FlowAssumption
     DEF SongChanges, FlowInv, TypeOK, PendingInv, Answers, channelVars
<1>2. ASSUME NEW p \in Processes,
             ControlFollows(p) \/ ControlTransient(p) \/ Start(p)
      PROVE  FlowInv'
  BY <1>2 DEF ControlFollows, ControlTransient, Start, Step, FlowInv, TypeOK,
              PendingInv, Answers, channelVars, playerVars
<1>3. CASE UNCHANGED vars
  BY <1>3 DEF vars, playerVars, channelVars, FlowInv, TypeOK, PendingInv, Answers
<1> QED
  BY <1>1, <1>2, <1>3, WorkerStep, ExitStep DEF Next

\* The invariant holds throughout.
THEOREM FlowInvariant == Spec => []FlowInv
BY FlowInit, FlowStep, PTL DEF Spec

\* However many processes publish, die and start again, in whatever order their
\* publications reach the block: once all have observed one title, it is there.
THEOREM AgreedTitle == Spec => []AgreedTitleStored
<1>1. FlowInv => AgreedTitleStored
  <2> SUFFICES ASSUME FlowInv, ~dropped, NEW t \in Titles,
                      \A p \in Processes : lastObserved[p] = t /\ pc[p] # "publish"
               PROVE  value = Cut[t]
    BY DEF AgreedTitleStored
  <2>1. PICK p \in Processes : Answers(p)
    BY DEF FlowInv
  <2> QED
    BY <2>1, FlowAssumption DEF Answers
<1> QED
  BY <1>1, FlowInvariant, PTL

\* A publication is the store of a whole title, as the register promises it: the
\* processes use the block only through the operations of TitleRegister.
THEOREM FlowUsesRegister == Spec => Channel!Spec
<1>1. Init => Channel!Init
  BY DEF Init
<1>2. [Next]_vars => [Channel!Next]_(Channel!vars)
  <2> SUFFICES ASSUME [Next]_vars PROVE [Channel!Next]_(Channel!vars)
    OBVIOUS
  <2> USE DEF Channel!Next, Channel!vars
  <2>1. ASSUME NEW p \in Processes, Worker(p) PROVE [Channel!Next]_(Channel!vars)
    BY <2>1 DEF Worker, ObserveOld, ObserveNew, Store, Drop, ReadBlock, Show,
                channelVars
  <2>2. ASSUME NEW p \in Processes, Exit(p) PROVE [Channel!Next]_(Channel!vars)
    BY <2>2 DEF Exit
  <2>3. CASE \/ SongChanges
             \/ \E p \in Processes : ControlFollows(p) \/ ControlTransient(p) \/ Start(p)
    BY <2>3 DEF SongChanges, ControlFollows, ControlTransient, Start, channelVars
  <2>4. CASE UNCHANGED vars
    BY <2>4 DEF vars, channelVars
  <2> QED
    BY <2>1, <2>2, <2>3, <2>4 DEF Next
<1> QED
  BY <1>1, <1>2, PTL DEF Spec, Channel!Spec

=============================================================================
