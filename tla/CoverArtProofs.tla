--------------------------- MODULE CoverArtProofs ---------------------------
(***************************************************************************)
(* Proofs about CoverArt, for any songs and places: types, the prepared    *)
(* covers, the names, and the search.                                      *)
(***************************************************************************)
EXTENDS CoverArt, SequenceTheorems, TLAPS

\* The parts of TypeOK, for steps that leave some of them alone.
FileTypes ==
    /\ file \in [Places -> Picture \cup {None}]
    /\ steady \subseteq Places /\ replaced \subseteq Places

DiskTypes ==
    /\ prepared \in [Prepared -> Picture \cup {None}]
    /\ temporary \in [Prepared -> Picture \cup {None}]

SearchTypes ==
    /\ song \in Songs /\ root \in {"album", "singer"} /\ left \subseteq Places
    /\ best \in Candidate \cup {None}

PrepareTypes ==
    /\ format \in Formats /\ target \in Prepared \cup {None}
    /\ result \in Original \cup Prepared \cup {None}

CountTypes ==
    /\ stores \in 0..StoreBudget /\ removals \in 0..RemoveBudget
    /\ faults \in 0..FaultBudget /\ crashes \in 0..CrashBudget

PlaceTypes ==
    /\ pc \in {"idle", "search", "detect", "prepare", "encode", "move", "copying", "done"}
    /\ doubtful \subseteq Prepared

LEMMA TypeParts ==
    /\ TypeOK <=> /\ FileTypes /\ DiskTypes /\ SearchTypes /\ PrepareTypes
                  /\ CountTypes /\ PlaceTypes
    /\ TypeOK' <=> /\ FileTypes' /\ DiskTypes' /\ SearchTypes' /\ PrepareTypes'
                   /\ CountTypes' /\ PlaceTypes'
BY DEF TypeOK, FileTypes, DiskTypes, SearchTypes, PrepareTypes, CountTypes, PlaceTypes

LEMMA SameTypes ==
    /\ FileTypes /\ UNCHANGED kugouVars => FileTypes'
    /\ DiskTypes /\ UNCHANGED diskVars => DiskTypes'
    /\ SearchTypes /\ UNCHANGED searchVars => SearchTypes'
    /\ PrepareTypes /\ UNCHANGED prepareVars => PrepareTypes'
    /\ CountTypes /\ UNCHANGED countVars => CountTypes'
BY DEF FileTypes, kugouVars, DiskTypes, diskVars, SearchTypes, searchVars,
   PrepareTypes, prepareVars, CountTypes, countVars

LEMMA Budgets ==
    {StoreBudget, RemoveBudget, FaultBudget, CrashBudget} \subseteq Nat
BY CoverAssumption

\* A fault stays within its budget.
LEMMA FaultType == ASSUME CountTypes, Fails, UNCHANGED otherCounts PROVE CountTypes'
BY Budgets DEF CountTypes, Fails, otherCounts

\* A prepared cover is called by its source and one of two extensions.
LEMMA PreparedPath ==
    ASSUME NEW p \in Places, NEW f
    PROVE  /\ PreparedName(p, f) \in Prepared /\ PreparedName(p, f)[1] = p
           /\ PreparedName(p, f)[2] = IF f = "jpeg" THEN ".jpg" ELSE ".png"
BY DEF PreparedName, Prepared

LEMMA PathsApart ==
    /\ Prepared \cap Original = {}
    /\ \A k \in Prepared : k[1] \in Places /\ k # None
    /\ \A k \in Original : k[1] \in Places /\ k # None
BY CoverAssumption DEF Prepared, Original

\* What is found are files of the directories of that root.
LEMMA FoundType ==
    ASSUME NEW r, NEW s
    PROVE  Found(r, s) \subseteq Places /\ \A p \in Found(r, s) : p.root = r
BY DEF Found

-----------------------------------------------------------------------------
(* What the resolver works on.                                             *)

Preparing == {"prepare", "encode", "move", "copying"}

\* The source of the cover, the name and the format it is prepared under, and
\* what is written so far.
SourceInv ==
    /\ pc \in Preparing \cup {"detect"} => best # None
    /\ pc \in Preparing =>
         /\ target = PreparedName(best.place, format) /\ format # "unknown"
         /\ best.place \in steady => Source.format = format
    /\ pc \in {"encode", "move"} =>
         /\ format = "webp"
         /\ temporary[target] # None /\ temporary[target].format = "png"
         /\ best.place \notin replaced =>
              Source # None /\ temporary[target].number = Source.number
    /\ pc = "move" => temporary[target].whole
    /\ pc = "copying" => prepared[target] # None

\* A picture that was whole when Resolve began, and was not touched, is whole.
SteadyInv == \A p \in steady : file[p] # None /\ file[p].whole

\* KuGou ends what is steady when it touches it, and replaces no picture
\* without a trace.
LEMMA KuGouStep ==
    ASSUME TypeOK, KuGou
    PROVE  /\ UNCHANGED <<diskVars, searchVars, prepareVars, doubtful, pc>>
           /\ \A p \in steady' : p \in steady /\ file'[p] = file[p]
           /\ \A p \in Places \ replaced' : file[p] # None =>
                 /\ p \notin replaced
                 /\ file'[p] # None /\ file'[p].number = file[p].number
           /\ FileTypes' /\ CountTypes'
<1>0. FileTypes /\ CountTypes
    BY TypeParts
<1>1. ASSUME NEW p \in Places, BeginStore(p) PROVE FileTypes' /\ CountTypes'
    <2>1. PICK f \in Formats :
              file' = [file EXCEPT ![p] = [format |-> f, number |-> stores', whole |-> FALSE]]
        BY <1>1 DEF BeginStore
    <2>2. stores' \in 1..StoreBudget /\ UNCHANGED <<removals, faults, crashes>>
        BY <1>0, <1>1, Budgets DEF BeginStore, CountTypes
    <2>3. [format |-> f, number |-> stores', whole |-> FALSE] \in Picture
        BY <2>2 DEF Picture
    <2>4. CountTypes'
        BY <1>0, <2>2 DEF CountTypes
    <2>. QED
        BY <1>0, <1>1, <2>1, <2>3, <2>4 DEF BeginStore, FileTypes, Touched
<1>2. ASSUME NEW p \in Places, EndStore(p) PROVE FileTypes' /\ CountTypes'
    <2>1. file[p] \in Picture
        BY <1>0, <1>2 DEF EndStore, FileTypes
    <2>2. [file[p] EXCEPT !.whole = TRUE] \in Picture
        BY <2>1 DEF Picture
    <2>. QED
        BY <1>0, <1>2, <2>2, SameTypes DEF EndStore, FileTypes, Touched
<1>3. ASSUME NEW p \in Places, RemovePicture(p) PROVE FileTypes' /\ CountTypes'
    <2>1. CountTypes'
        BY <1>0, <1>3, Budgets DEF RemovePicture, CountTypes
    <2>. QED
        BY <1>0, <1>3, <2>1 DEF RemovePicture, FileTypes, Touched
<1>4. ASSUME NEW p \in Places, BeginStore(p) \/ EndStore(p) \/ RemovePicture(p)
      PROVE  /\ steady' = steady \ {p} /\ replaced \subseteq replaced'
             /\ \A q \in Places : q # p => file'[q] = file[q]
             /\ \/ p \in replaced' \/ file[p] = None
                \/ file'[p] # None /\ file'[p].number = file[p].number
    <2>1. CASE BeginStore(p)
        BY <1>0, <2>1 DEF BeginStore, Touched, FileTypes
    <2>2. CASE EndStore(p)
        <3>1. file[p] \in Picture /\ file'[p] = [file[p] EXCEPT !.whole = TRUE]
            BY <1>0, <2>2 DEF EndStore, FileTypes
        <3>2. file'[p] \in Picture /\ file'[p].number = file[p].number
            BY <3>1 DEF Picture
        <3>3. file'[p] # None
            BY <3>2, CoverAssumption
        <3>. QED
            BY <1>0, <2>2, <3>2, <3>3 DEF EndStore, Touched, FileTypes
    <2>3. CASE RemovePicture(p)
        BY <1>0, <2>3 DEF RemovePicture, Touched, FileTypes
    <2>. QED
        BY <1>4, <2>1, <2>2, <2>3
<1>5. UNCHANGED <<diskVars, searchVars, prepareVars, doubtful, pc>>
    BY DEF KuGou, BeginStore, EndStore, RemovePicture
<1>. QED
    BY <1>0, <1>1, <1>2, <1>3, <1>4, <1>5 DEF KuGou, FileTypes

-----------------------------------------------------------------------------
(* Types, and what the resolver works on.                                  *)

ResolverInv == TypeOK /\ SteadyInv /\ SourceInv

LEMMA SearchStep ==
    ASSUME ResolverInv,
           \/ \E s \in Songs : Resolve(s)
           \/ \E p \in Places : VisitFile(p)
           \/ FallBackToSinger \/ NothingFound \/ SourceFound
    PROVE  ResolverInv'
<1>0. /\ FileTypes /\ DiskTypes /\ SearchTypes /\ PrepareTypes
      /\ CountTypes /\ PlaceTypes /\ SteadyInv
    BY TypeParts DEF ResolverInv
<1>1. ASSUME NEW s \in Songs, Resolve(s) PROVE ResolverInv'
    <2>1. FileTypes' /\ SteadyInv'
        BY <1>0, <1>1 DEF Resolve, FileTypes, SteadyInv
    <2>2. SearchTypes' /\ PrepareTypes' /\ PlaceTypes'
        BY <1>0, <1>1, FoundType DEF Resolve, SearchTypes, PrepareTypes, PlaceTypes
    <2>3. SourceInv'
        BY <1>1 DEF Resolve, SourceInv, Preparing
    <2>. QED
        BY <1>0, <1>1, <2>1, <2>2, <2>3, SameTypes, TypeParts DEF Resolve, ResolverInv
<1>2. ASSUME NEW p \in Places, VisitFile(p) PROVE ResolverInv'
    <2>1. file[p] # None => [place |-> p, access |-> file[p].number] \in Candidate
        BY <1>0 DEF FileTypes, Picture, Candidate
    <2>2. SearchTypes' /\ PlaceTypes'
        BY <1>0, <1>2, <2>1 DEF VisitFile, SearchTypes, PlaceTypes
    <2>3. SourceInv'
        BY <1>2 DEF VisitFile, SourceInv, Preparing
    <2>4. SteadyInv'
        BY <1>0, <1>2 DEF VisitFile, kugouVars, SteadyInv
    <2>. QED
        BY <1>0, <1>2, <2>2, <2>3, <2>4, SameTypes, TypeParts DEF VisitFile, ResolverInv
<1>3. CASE FallBackToSinger
    <2>1. SearchTypes' /\ PlaceTypes'
        BY <1>0, <1>3, FoundType DEF FallBackToSinger, SearchTypes, PlaceTypes
    <2>2. SourceInv' /\ SteadyInv'
        BY <1>0, <1>3 DEF FallBackToSinger, SourceInv, Preparing, kugouVars, SteadyInv
    <2>. QED
        BY <1>0, <1>3, <2>1, <2>2, SameTypes, TypeParts DEF FallBackToSinger, ResolverInv
<1>4. CASE NothingFound
    <2>1. PrepareTypes' /\ PlaceTypes'
        BY <1>0, <1>4 DEF NothingFound, Return, PrepareTypes, PlaceTypes
    <2>2. SourceInv' /\ SteadyInv'
        BY <1>0, <1>4 DEF NothingFound, Return, SourceInv, Preparing, kugouVars, SteadyInv
    <2>. QED
        BY <1>0, <1>4, <2>1, <2>2, SameTypes, TypeParts DEF NothingFound, ResolverInv
<1>5. CASE SourceFound
    <2>1. PlaceTypes'
        BY <1>0, <1>5 DEF SourceFound, PlaceTypes
    <2>2. SourceInv' /\ SteadyInv'
        BY <1>0, <1>5 DEF SourceFound, SourceInv, Preparing, kugouVars, searchVars,
           SteadyInv
    <2>. QED
        BY <1>0, <1>5, <2>1, <2>2, SameTypes, TypeParts DEF SourceFound, ResolverInv
<1>. QED
    BY <1>1, <1>2, <1>3, <1>4, <1>5

\* What PrepareCover leaves alone in all its steps.
LEMMA PrepareFrame ==
    ASSUME PrepareCover
    PROVE  UNCHANGED <<kugouVars, searchVars, stores, removals, crashes>>
BY DEF PrepareCover, DetectFormatFails, DetectFormat, NoDirectory, AlreadyPrepared,
   DecodeFails, BeginConversion, EndConversion, MovePrepared, ConversionFails, BeginCopy,
   EndCopy, CopyFails, countVars, otherCounts

\* A return leaves nothing in the works.
LEMMA ReturnStep ==
    ASSUME NEW r, Return(r), SteadyInv, UNCHANGED kugouVars PROVE SourceInv' /\ SteadyInv'
BY DEF Return, SourceInv, Preparing, SteadyInv, kugouVars

LEMMA PrepareStep == ASSUME ResolverInv, PrepareCover PROVE ResolverInv'
<1>0. /\ FileTypes /\ DiskTypes /\ SearchTypes /\ PrepareTypes
      /\ CountTypes /\ PlaceTypes /\ SteadyInv /\ SourceInv
      /\ UNCHANGED kugouVars /\ UNCHANGED searchVars
      /\ FileTypes' /\ SearchTypes'
    BY TypeParts, PrepareFrame, SameTypes DEF ResolverInv
<1>1. /\ pc \in Preparing \cup {"detect"} => best.place \in Places
      /\ pc \in Preparing \cup {"detect"} => Source \in Picture \cup {None}
      /\ pc \in Preparing => target \in Prepared
    BY <1>0, PreparedPath DEF SourceInv, SearchTypes, Candidate, Source, FileTypes
<1>2. CountTypes'
    BY <1>0, FaultType, SameTypes
       DEF PrepareCover, DetectFormatFails, DetectFormat, NoDirectory, AlreadyPrepared,
       DecodeFails, BeginConversion, EndConversion, MovePrepared, ConversionFails,
       BeginCopy, EndCopy, CopyFails, CountTypes, countVars, otherCounts
<1>3. CASE DetectFormatFails \/ NoDirectory
    <2>1. DiskTypes' /\ PrepareTypes' /\ PlaceTypes'
        BY <1>0, <1>3, SameTypes DEF DetectFormatFails, NoDirectory, Return, PrepareTypes,
           PlaceTypes
    <2>2. SourceInv' /\ SteadyInv'
        BY <1>0, <1>3, ReturnStep DEF DetectFormatFails, NoDirectory
    <2>. QED
        BY <1>0, <1>2, <2>1, <2>2, TypeParts DEF ResolverInv
<1>4. CASE DetectFormat
    <2>1. /\ Source \in Picture /\ best.place \in Places
          /\ format' = Source.format /\ format' \in Formats \ {"unknown"}
        BY <1>0, <1>1, <1>4 DEF DetectFormat, Picture
    <2>2. UNCHANGED diskVars /\ UNCHANGED doubtful
        BY <1>4 DEF DetectFormat
    <2>3. CASE Return(<<best.place, "own">>) /\ UNCHANGED target
        <3>1. <<best.place, "own">> \in Original
            BY <2>1 DEF Original
        <3>2. PrepareTypes' /\ PlaceTypes'
            BY <1>0, <2>1, <2>2, <2>3, <3>1 DEF Return, PrepareTypes, PlaceTypes
        <3>. QED
            BY <1>0, <1>2, <2>2, <2>3, <3>2, ReturnStep, SameTypes, TypeParts
               DEF ResolverInv
    <2>4. CASE /\ pc' = "prepare" /\ target' = PreparedName(best.place, format')
               /\ UNCHANGED result
        <3>1. PrepareTypes' /\ PlaceTypes'
            BY <1>0, <2>1, <2>2, <2>4, PreparedPath DEF PrepareTypes, PlaceTypes
        <3>2. SourceInv' /\ SteadyInv'
            BY <1>0, <1>4, <2>1, <2>4 DEF DetectFormat, SourceInv, SteadyInv, Preparing,
               kugouVars, searchVars, Source
        <3>. QED
            BY <1>0, <1>2, <2>2, <3>1, <3>2, SameTypes, TypeParts DEF ResolverInv
    <2>. QED
        BY <1>4, <2>3, <2>4 DEF DetectFormat
<1>5. CASE AlreadyPrepared
    <2>1. target \in Prepared
        BY <1>1, <1>5 DEF AlreadyPrepared, Preparing
    <2>2. DiskTypes' /\ PrepareTypes' /\ PlaceTypes'
        BY <1>0, <1>5, <2>1, SameTypes DEF AlreadyPrepared, Return, PrepareTypes,
           PlaceTypes
    <2>3. SourceInv' /\ SteadyInv'
        BY <1>0, <1>5, ReturnStep DEF AlreadyPrepared
    <2>. QED
        BY <1>0, <1>2, <2>2, <2>3, TypeParts DEF ResolverInv
<1>6. CASE DecodeFails \/ ConversionFails \/ CopyFails
    <2>1. DiskTypes' /\ PrepareTypes' /\ PlaceTypes'
        BY <1>0, <1>6 DEF DecodeFails, ConversionFails, CopyFails, Return, DiskTypes,
           PrepareTypes, PlaceTypes
    <2>2. SourceInv' /\ SteadyInv'
        BY <1>0, <1>6, ReturnStep DEF DecodeFails, ConversionFails, CopyFails
    <2>. QED
        BY <1>0, <1>2, <2>1, <2>2, TypeParts DEF ResolverInv
<1>7. CASE BeginConversion
    <2>1. /\ target \in Prepared /\ Source \in Picture /\ format = "webp"
          /\ pc = "prepare" /\ pc' = "encode"
        BY <1>1, <1>7 DEF BeginConversion, Converting, Decodes, Preparing
    <2>2. Encoded(FALSE) \in Picture
        BY <2>1 DEF Encoded, Picture, Formats
    <2>3. temporary'[target] = Encoded(FALSE) /\ DiskTypes'
        BY <1>0, <1>7, <2>1, <2>2 DEF BeginConversion, DiskTypes
    <2>4. UNCHANGED prepareVars /\ UNCHANGED doubtful
        BY <1>7 DEF BeginConversion
    <2>5. SourceInv' /\ SteadyInv'
        BY <1>0, <2>1, <2>2, <2>3, <2>4, CoverAssumption DEF SourceInv, SteadyInv,
           Preparing, kugouVars, searchVars, prepareVars, Source, Encoded
    <2>6. PlaceTypes'
        BY <1>0, <2>1, <2>4 DEF PlaceTypes
    <2>. QED
        BY <1>0, <1>2, <2>3, <2>4, <2>5, <2>6, SameTypes, TypeParts DEF ResolverInv
<1>8. CASE EndConversion
    <2>1. /\ target \in Prepared /\ temporary[target] \in Picture
          /\ pc = "encode" /\ pc' = "move"
        BY <1>0, <1>1, <1>8 DEF EndConversion, SourceInv, Preparing, DiskTypes
    <2>2. [temporary[target] EXCEPT !.whole = TRUE] \in Picture
        BY <2>1 DEF Picture
    <2>3. temporary'[target] = [temporary[target] EXCEPT !.whole = TRUE] /\ DiskTypes'
        BY <1>0, <1>8, <2>1, <2>2 DEF EndConversion, DiskTypes
    <2>4. /\ temporary'[target].whole /\ temporary'[target] # None
          /\ temporary'[target].format = temporary[target].format
          /\ temporary'[target].number = temporary[target].number
        BY <2>1, <2>2, <2>3, CoverAssumption DEF Picture
    <2>5. UNCHANGED prepareVars /\ UNCHANGED doubtful
        BY <1>8 DEF EndConversion
    <2>6. SourceInv' /\ SteadyInv'
        BY <1>0, <2>1, <2>4, <2>5 DEF SourceInv, SteadyInv, Preparing, kugouVars,
           searchVars, prepareVars, Source
    <2>7. PlaceTypes'
        BY <1>0, <2>1, <2>5 DEF PlaceTypes
    <2>. QED
        BY <1>0, <1>2, <2>3, <2>5, <2>6, <2>7, SameTypes, TypeParts DEF ResolverInv
<1>9. CASE MovePrepared
    <2>1. target \in Prepared /\ temporary[target] \in Picture
        BY <1>0, <1>1, <1>9 DEF MovePrepared, SourceInv, Preparing, DiskTypes
    <2>2. DiskTypes' /\ PrepareTypes' /\ PlaceTypes'
        BY <1>0, <1>9, <2>1 DEF MovePrepared, Return, DiskTypes, PrepareTypes, PlaceTypes
    <2>3. SourceInv' /\ SteadyInv'
        BY <1>0, <1>9, ReturnStep DEF MovePrepared
    <2>. QED
        BY <1>0, <1>2, <2>2, <2>3, TypeParts DEF ResolverInv
<1>10. CASE BeginCopy
    <2>1. /\ target \in Prepared /\ Source \in Picture /\ pc = "prepare"
          /\ pc' = "copying"
        BY <1>1, <1>10 DEF BeginCopy, Copying, Preparing
    <2>2. [Source EXCEPT !.whole = FALSE] \in Picture
        BY <2>1 DEF Picture
    <2>3. prepared'[target] = [Source EXCEPT !.whole = FALSE] /\ DiskTypes'
        BY <1>0, <1>10, <2>1, <2>2 DEF BeginCopy, DiskTypes
    <2>4. UNCHANGED prepareVars
        BY <1>10 DEF BeginCopy
    <2>5. SourceInv' /\ SteadyInv'
        BY <1>0, <2>1, <2>2, <2>3, <2>4, CoverAssumption DEF SourceInv, SteadyInv,
           Preparing, kugouVars, searchVars, prepareVars, Source
    <2>6. PlaceTypes'
        BY <1>0, <1>10, <2>1 DEF BeginCopy, PlaceTypes
    <2>. QED
        BY <1>0, <1>2, <2>3, <2>4, <2>5, <2>6, SameTypes, TypeParts DEF ResolverInv
<1>11. CASE EndCopy
    <2>1. /\ target \in Prepared /\ prepared[target] \in Picture
          /\ Source \in Picture \cup {None}
        BY <1>0, <1>1, <1>11 DEF EndCopy, SourceInv, Preparing, DiskTypes
    <2> DEFINE w == Source # None /\ Source.whole
    <2>2. [prepared[target] EXCEPT !.whole = w] \in Picture
        BY <2>1 DEF Picture
    <2>3. DiskTypes'
        BY <1>0, <1>11, <2>1, <2>2 DEF EndCopy, DiskTypes
    <2>4. PrepareTypes' /\ PlaceTypes'
        BY <1>0, <1>11, <2>1 DEF EndCopy, Return, PrepareTypes, PlaceTypes
    <2>5. SourceInv' /\ SteadyInv'
        BY <1>0, <1>11, ReturnStep DEF EndCopy
    <2>. QED
        BY <1>0, <1>2, <2>3, <2>4, <2>5, TypeParts DEF ResolverInv
<1>. QED
    BY <1>3, <1>4, <1>5, <1>6, <1>7, <1>8, <1>9, <1>10, <1>11 DEF PrepareCover

LEMMA OutsideStep ==
    ASSUME ResolverInv, KuGou \/ Crash \/ UNCHANGED vars PROVE ResolverInv'
<1>0. /\ FileTypes /\ DiskTypes /\ SearchTypes /\ PrepareTypes
      /\ CountTypes /\ PlaceTypes /\ SteadyInv /\ SourceInv
    BY TypeParts DEF ResolverInv
<1>1. CASE KuGou
    <2>1. /\ UNCHANGED <<diskVars, searchVars, prepareVars, doubtful, pc>>
          /\ \A p \in steady' : p \in steady /\ file'[p] = file[p]
          /\ \A p \in Places \ replaced' : file[p] # None =>
                /\ p \notin replaced
                /\ file'[p] # None /\ file'[p].number = file[p].number
          /\ FileTypes' /\ CountTypes'
        BY <1>1, KuGouStep DEF ResolverInv
    <2>2. SteadyInv'
        BY <1>0, <2>1 DEF SteadyInv
    <2>3. pc \in Preparing \cup {"detect"} => best.place \in Places
        BY <1>0 DEF SourceInv, SearchTypes, Candidate
    <2>4. replaced \subseteq replaced'
        BY <1>1 DEF KuGou, BeginStore, EndStore, RemovePicture
    <2>5. SourceInv'
        BY <1>0, <2>1, <2>3, <2>4 DEF SourceInv, Source, Preparing, diskVars, searchVars,
           prepareVars
    <2>6. PlaceTypes'
        BY <1>0, <2>1 DEF PlaceTypes
    <2>. QED
        BY <1>0, <2>1, <2>2, <2>5, <2>6, SameTypes, TypeParts DEF ResolverInv
<1>2. CASE Crash
    <2>1. CountTypes'
        BY <1>0, <1>2, Budgets DEF Crash, CountTypes
    <2>2. SearchTypes' /\ PrepareTypes'
        BY <1>0, <1>2 DEF Crash, SearchTypes, PrepareTypes, Formats
    <2>3. PlaceTypes'
        <3>1. pc = "copying" => target \in Prepared
            BY <1>0, PreparedPath DEF SourceInv, Preparing, SearchTypes, Candidate
        <3>. QED
            BY <1>0, <1>2, <3>1 DEF Crash, PlaceTypes
    <2>4. SourceInv' /\ SteadyInv'
        BY <1>0, <1>2 DEF Crash, SourceInv, Preparing, SteadyInv, kugouVars
    <2>. QED
        BY <1>0, <1>2, <2>1, <2>2, <2>3, <2>4, SameTypes, TypeParts DEF Crash, ResolverInv
<1>3. CASE UNCHANGED vars
    <2>1. /\ UNCHANGED kugouVars /\ UNCHANGED diskVars /\ UNCHANGED searchVars
          /\ UNCHANGED prepareVars /\ UNCHANGED countVars /\ UNCHANGED <<doubtful, pc>>
        BY <1>3 DEF vars
    <2>2. PlaceTypes' /\ SourceInv' /\ SteadyInv'
        BY <1>0, <2>1 DEF PlaceTypes, SourceInv, SteadyInv, Source, Preparing, kugouVars,
           diskVars, searchVars, prepareVars
    <2>. QED
        BY <1>0, <2>1, <2>2, SameTypes, TypeParts DEF ResolverInv
<1>. QED
    BY <1>1, <1>2, <1>3

LEMMA ResolverInvariant == Spec => []ResolverInv
<1>1. ASSUME Init PROVE ResolverInv
    <2>1. FileTypes /\ DiskTypes
        BY <1>1 DEF Init, FileTypes, DiskTypes
    <2>2. SearchTypes /\ PrepareTypes /\ CountTypes /\ PlaceTypes
        BY <1>1, Budgets
           DEF Init, SearchTypes, PrepareTypes, CountTypes, PlaceTypes, Formats
    <2>3. SourceInv /\ SteadyInv
        BY <1>1 DEF Init, SourceInv, SteadyInv, Preparing
    <2>. QED
        BY <2>1, <2>2, <2>3, TypeParts DEF ResolverInv
<1>2. ASSUME ResolverInv, [Next]_vars PROVE ResolverInv'
    BY <1>2, SearchStep, PrepareStep, OutsideStep DEF Next, Resolver
<1>. QED
    BY <1>1, <1>2, PTL DEF Spec

\* The resolver keeps its types: nothing but pictures and prepared names, in
\* whatever order files, crashes and failures come.
THEOREM CoverTypes == Spec => []TypeOK
BY ResolverInvariant, PTL DEF ResolverInv

-----------------------------------------------------------------------------
(* The prepared covers.                                                    *)

\* A prepared cover that is not doubtful is whole unless it is being copied, of
\* the format its name promises, and the picture that lies at its source unless
\* KuGou has replaced that one.
PreparedInv ==
    \A k \in Prepared \ doubtful : prepared[k] # None =>
        /\ prepared[k].whole \/ (pc = "copying" /\ k = target)
        /\ k[2] \in Extensions(prepared[k].format)
        /\ k[1] \notin replaced =>
             file[k[1]] # None /\ prepared[k].number = file[k[1]].number

\* What was returned is there, or has the format that was detected.
ResultInv ==
    pc = "done" =>
        /\ result \in Prepared =>
             prepared[result] # None /\ best # None /\ result[1] = best.place
        /\ result \in Original /\ result[1] \in steady =>
             result[1].ext \in Extensions(file[result[1]].format)

\* Steps that write no prepared cover while none is being copied.
LEMMA PreparedFrame ==
    ASSUME PreparedInv, UNCHANGED <<prepared, doubtful, kugouVars>>, pc # "copying"
    PROVE  PreparedInv'
BY DEF PreparedInv, kugouVars

\* The format of a prepared cover is that of its name.
LEMMA PreparedFormat ==
    ASSUME NEW p \in Places, NEW f \in Formats \ {"unknown"}
    PROVE  PreparedName(p, f)[2] \in Extensions(IF f = "webp" THEN "png" ELSE f)
<1>1. PreparedName(p, f)[2] = IF f = "jpeg" THEN ".jpg" ELSE ".png"
    BY PreparedPath
<1>2. Extensions("jpeg") = {".jpg", ".jpeg"} /\ Extensions("png") = {".png"}
    BY DEF Extensions
<1>3. f \in {"jpeg", "png", "webp"}
    BY DEF Formats
<1>. QED
    BY <1>1, <1>2, <1>3

\* A step that writes one prepared cover, and that one well or in doubt.
LEMMA PreparedWritten ==
    ASSUME TypeOK, PreparedInv, NEW k \in Prepared, NEW c,
           prepared' = [prepared EXCEPT ![k] = c], UNCHANGED kugouVars,
           doubtful \subseteq doubtful',
           pc = "copying" => k = target,
           k \notin doubtful' /\ c # None =>
               /\ c.whole \/ (pc' = "copying" /\ k = target')
               /\ k[2] \in Extensions(c.format)
               /\ k[1] \notin replaced =>
                    file[k[1]] # None /\ c.number = file[k[1]].number
    PROVE  PreparedInv'
<1>1. /\ \A j \in Prepared : prepared'[j] = IF j = k THEN c ELSE prepared[j]
      /\ file' = file /\ replaced' = replaced
    BY TypeParts DEF DiskTypes, kugouVars
<1> SUFFICES ASSUME NEW j \in Prepared \ doubtful', prepared'[j] # None
             PROVE  /\ prepared'[j].whole \/ (pc' = "copying" /\ j = target')
                    /\ j[2] \in Extensions(prepared'[j].format)
                    /\ j[1] \notin replaced' =>
                         /\ file'[j[1]] # None
                         /\ prepared'[j].number = file'[j[1]].number
    BY DEF PreparedInv
<1>2. CASE j = k
    BY <1>1, <1>2
<1>3. CASE j # k
    <2>1. /\ prepared[j].whole
          /\ j[2] \in Extensions(prepared[j].format)
          /\ j[1] \notin replaced =>
               file[j[1]] # None /\ prepared[j].number = file[j[1]].number
        BY <1>1, <1>3 DEF PreparedInv
    <2>. QED
        BY <1>1, <1>3, <2>1
<1>. QED
    BY <1>2, <1>3

LEMMA PreparedStep ==
    ASSUME ResolverInv, PreparedInv, [Next]_vars
    PROVE  PreparedInv'
<1>0. TypeOK /\ SearchTypes /\ DiskTypes /\ FileTypes /\ PrepareTypes /\ SourceInv
      /\ SteadyInv
    BY TypeParts DEF ResolverInv
<1>1. pc \in Preparing =>
         /\ best # None /\ best.place \in Places
         /\ target \in Prepared /\ target[1] = best.place
         /\ format \in Formats \ {"unknown"}
         /\ target[2] \in Extensions(IF format = "webp" THEN "png" ELSE format)
    BY <1>0, PreparedPath, PreparedFormat DEF SourceInv, SearchTypes, Candidate,
       PrepareTypes
<1>2. CASE \/ \E s \in Songs : Resolve(s)
           \/ \E p \in Places : VisitFile(p)
           \/ FallBackToSinger \/ NothingFound \/ SourceFound
    <2>1. UNCHANGED <<prepared, doubtful, file, replaced>> /\ pc # "copying"
        BY <1>2 DEF Resolve, VisitFile, FallBackToSinger, NothingFound, SourceFound,
           diskVars, kugouVars
    <2>. QED
        BY <2>1 DEF PreparedInv
<1>3. CASE \/ DetectFormatFails \/ DetectFormat \/ NoDirectory \/ AlreadyPrepared
           \/ DecodeFails \/ BeginConversion \/ EndConversion \/ ConversionFails
    <2>1. UNCHANGED <<prepared, doubtful, kugouVars>> /\ pc # "copying"
        BY <1>3 DEF DetectFormatFails, DetectFormat, NoDirectory, AlreadyPrepared,
           DecodeFails, BeginConversion, EndConversion, ConversionFails, Converting,
           diskVars
    <2>. QED
        BY <2>1, PreparedFrame
<1>4. CASE MovePrepared
    <2> DEFINE c == temporary[target]
    <2>1. /\ target \in Prepared /\ target[1] = best.place
          /\ target[2] \in Extensions("png")
          /\ c.format = "png" /\ c.whole
          /\ best.place \notin replaced => Source # None /\ c.number = Source.number
        BY <1>0, <1>1, <1>4 DEF MovePrepared, SourceInv, Preparing
    <2>2. /\ prepared' = [prepared EXCEPT ![target] = c] /\ UNCHANGED kugouVars
          /\ doubtful' = doubtful /\ pc # "copying"
        BY <1>4 DEF MovePrepared
    <2> HIDE DEF c
    <2>. QED
        BY <1>0, <2>1, <2>2, PreparedWritten DEF Source
<1>5. CASE BeginCopy
    <2> DEFINE c == [Source EXCEPT !.whole = FALSE]
    <2>1. /\ pc = "prepare" /\ pc' = "copying" /\ format # "webp"
          /\ Source \in Picture /\ target' = target
        BY <1>0, <1>1, <1>5 DEF BeginCopy, Copying, Preparing, prepareVars, Source,
           FileTypes
    <2>2. c.format = Source.format /\ c.number = Source.number
        BY <2>1 DEF Picture
    <2>3. /\ target \in Prepared /\ target[1] = best.place
          /\ target[2] \in Extensions(format)
        BY <1>1, <2>1 DEF Preparing
    <2>4. target \notin doubtful' => Source.format = format
        BY <1>0, <1>5, <2>1 DEF BeginCopy, SourceInv, Preparing
    <2>5. /\ prepared' = [prepared EXCEPT ![target] = c] /\ UNCHANGED kugouVars
          /\ doubtful \subseteq doubtful' /\ Source # None
        BY <1>5 DEF BeginCopy
    <2> HIDE DEF c
    <2>. QED
        BY <1>0, <2>1, <2>2, <2>3, <2>4, <2>5, PreparedWritten DEF Source
<1>6. CASE EndCopy
    <2> DEFINE c == [prepared[target] EXCEPT !.whole = Source # None /\ Source.whole]
    <2>1. /\ target \in Prepared /\ target[1] = best.place /\ pc = "copying"
          /\ prepared[target] # None /\ prepared[target] \in Picture
        BY <1>0, <1>1, <1>6 DEF EndCopy, SourceInv, Preparing, DiskTypes
    <2>2. /\ c.format = prepared[target].format /\ c.number = prepared[target].number
          /\ c.whole = (Source # None /\ Source.whole)
        BY <2>1 DEF Picture
    <2>3. target \notin doubtful' => target \notin doubtful /\ best.place \in steady
        BY <1>6 DEF EndCopy
    <2>4. best.place \in steady => Source # None /\ Source.whole
        BY <1>0 DEF SteadyInv, Source
    <2>5. /\ prepared' = [prepared EXCEPT ![target] = c] /\ UNCHANGED kugouVars
          /\ doubtful \subseteq doubtful'
        BY <1>0, <1>6, <2>1 DEF EndCopy, DiskTypes
    <2>6. target \notin doubtful' =>
              /\ c.whole
              /\ target[2] \in Extensions(c.format)
              /\ target[1] \notin replaced =>
                   file[target[1]] # None /\ c.number = file[target[1]].number
        BY <2>1, <2>2, <2>3, <2>4 DEF PreparedInv
    <2> HIDE DEF c
    <2>. QED
        BY <1>0, <2>1, <2>5, <2>6, PreparedWritten
<1>7. CASE CopyFails
    <2>1. target \in Prepared
        BY <1>1, <1>7 DEF CopyFails, Copying, Preparing
    <2>2. /\ prepared' = [prepared EXCEPT ![target] = None] /\ UNCHANGED kugouVars
          /\ doubtful' = doubtful
        BY <1>7 DEF CopyFails
    <2>. QED
        BY <1>0, <2>1, <2>2, PreparedWritten
<1>8. CASE KuGou
    <2>1. /\ UNCHANGED <<diskVars, prepareVars, doubtful, pc>>
          /\ \A p \in Places \ replaced' : file[p] # None =>
                /\ p \notin replaced
                /\ file'[p] # None /\ file'[p].number = file[p].number
          /\ replaced \subseteq replaced'
        BY <1>0, <1>8, KuGouStep DEF KuGou, BeginStore, EndStore, RemovePicture
    <2>2. \A k \in Prepared : k[1] \in Places
        BY PathsApart
    <2>. QED
        BY <2>1, <2>2 DEF PreparedInv, diskVars, prepareVars
<1>9. CASE Crash
    <2>1. /\ UNCHANGED <<prepared, file, replaced>>
          /\ doubtful' = IF pc = "copying" THEN doubtful \cup {target} ELSE doubtful
        BY <1>9 DEF Crash, kugouVars, diskVars
    <2>. QED
        BY <2>1 DEF PreparedInv
<1>10. CASE UNCHANGED vars
    BY <1>10 DEF vars, diskVars, kugouVars, prepareVars, PreparedInv
<1>. QED
    BY <1>2, <1>3, <1>4, <1>5, <1>6, <1>7, <1>8, <1>9, <1>10
       DEF Next, Resolver, PrepareCover

LEMMA ResultStep ==
    ASSUME ResolverInv, ResultInv, [Next]_vars
    PROVE  ResultInv'
<1>0. TypeOK /\ SearchTypes /\ FileTypes /\ DiskTypes /\ PrepareTypes /\ SourceInv
    BY TypeParts DEF ResolverInv
<1>1. pc \in Preparing =>
         best # None /\ target \in Prepared /\ target[1] = best.place
    BY <1>0, PreparedPath DEF SourceInv, SearchTypes, Candidate
<1>2. CASE \/ \E s \in Songs : Resolve(s)
           \/ \E p \in Places : VisitFile(p)
           \/ FallBackToSinger \/ SourceFound \/ BeginConversion \/ EndConversion
           \/ BeginCopy \/ Crash
    <2>1. pc' # "done"
        BY <1>2 DEF Resolve, VisitFile, FallBackToSinger, SourceFound, BeginConversion,
           EndConversion, BeginCopy, Crash
    <2>. QED
        BY <2>1 DEF ResultInv
<1>3. CASE Return(None)
    BY <1>3, PathsApart DEF Return, ResultInv
<1>4. CASE DetectFormat
    <2>1. CASE pc' = "prepare"
        BY <2>1 DEF ResultInv
    <2>2. CASE Return(<<best.place, "own">>)
        <3>1. /\ <<best.place, "own">> \in Original
              /\ best.place.ext \in Extensions(Source.format)
              /\ UNCHANGED <<file, steady>>
            BY <1>0, <1>4, <2>2
               DEF DetectFormat, SourceInv, SearchTypes, Candidate, Original, kugouVars,
                   Return
        <3>2. result' = <<best.place, "own">> /\ result' \notin Prepared
            BY <2>2, <3>1, PathsApart DEF Return
        <3>. QED
            BY <3>1, <3>2 DEF ResultInv, Source
    <2>. QED
        BY <1>4, <2>1, <2>2 DEF DetectFormat
<1>5. CASE AlreadyPrepared \/ MovePrepared \/ EndCopy
    <2>1. /\ pc \in Preparing /\ UNCHANGED searchVars /\ Return(target)
          /\ prepared'[target] # None
        <3>1. CASE AlreadyPrepared
            BY <3>1 DEF AlreadyPrepared, Preparing, diskVars
        <3>2. CASE MovePrepared
            BY <1>0, <1>1, <3>2 DEF MovePrepared, Preparing, SourceInv, DiskTypes
        <3>3. CASE EndCopy
            <4>1. target \in Prepared /\ prepared[target] \in Picture
                BY <1>0, <1>1, <3>3 DEF EndCopy, Preparing, SourceInv, DiskTypes
            <4>2. prepared'[target] = [prepared[target] EXCEPT !.whole =
                                          Source # None /\ Source.whole]
                BY <1>0, <3>3, <4>1 DEF EndCopy, DiskTypes
            <4>3. [prepared[target] EXCEPT !.whole = Source # None /\ Source.whole]
                      \in Picture
                BY <4>1 DEF Picture
            <4>. QED
                BY <3>3, <4>2, <4>3, CoverAssumption DEF EndCopy, Preparing
        <3>. QED
            BY <1>5, <3>1, <3>2, <3>3
    <2>2. result' = target /\ best' = best
        BY <2>1 DEF Return, searchVars
    <2>3. target \notin Original
        BY <1>1, <2>1, PathsApart
    <2>. QED
        BY <1>1, <2>1, <2>2, <2>3 DEF ResultInv
<1>6. CASE KuGou \/ UNCHANGED vars
    <2>1. /\ UNCHANGED <<prepared, best, result, pc>>
          /\ \A p \in steady' : p \in steady /\ file'[p] = file[p]
        BY <1>0, <1>6, KuGouStep DEF vars, diskVars, searchVars, prepareVars, kugouVars
    <2>. QED
        BY <2>1 DEF ResultInv
<1>7. NothingFound \/ DetectFormatFails \/ NoDirectory \/ DecodeFails
        \/ ConversionFails \/ CopyFails => Return(None)
    BY DEF NothingFound, DetectFormatFails, NoDirectory, DecodeFails, ConversionFails,
       CopyFails
<1>. QED
    BY <1>2, <1>3, <1>4, <1>5, <1>6, <1>7 DEF Next, Resolver, PrepareCover

LEMMA PreparedInvariant == Spec => [](PreparedInv /\ ResultInv)
<1>1. Init => PreparedInv /\ ResultInv
    BY DEF Init, PreparedInv, ResultInv
<1>. QED
    BY <1>1, PreparedStep, ResultStep, ResolverInvariant, PTL DEF Spec

\* What is returned is whole and of the format its name promises, but for the
\* doubtful copies: through deaths in any step, failures of any, and whatever
\* KuGou stores and removes meanwhile.
THEOREM ReturnedIsSound == Spec => []ReturnedSound
<1>1. ASSUME ResolverInv, PreparedInv, ResultInv PROVE ReturnedSound
    <2>1. CASE pc = "done" /\ result \in steady \X {"own"}
        <3>1. result \in Original /\ result[1] \in steady
            BY <1>1, <2>1, TypeParts DEF ResolverInv, FileTypes, Original
        <3>2. result \notin Prepared \ doubtful
            BY <3>1, PathsApart
        <3>. QED
            BY <1>1, <2>1, <3>1 DEF ResolverInv, SteadyInv, ResultInv, ReturnedSound,
               Content, Extension
    <2>2. CASE pc = "done" /\ result \in Prepared \ doubtful
        <3>1. result \notin Original
            BY <2>2, PathsApart
        <3>. QED
            BY <1>1, <2>2, <3>1 DEF ResultInv, PreparedInv, ReturnedSound, Content,
               Extension
    <2>. QED
        BY <2>1, <2>2 DEF ReturnedSound
<1>. QED
    BY <1>1, ResolverInvariant, PreparedInvariant, PTL

\* A prepared cover that is returned is the picture of the file it was chosen
\* for, whichever search and whichever life of the process prepared it.
THEOREM ReturnedIsOwnPicture == Spec => []ReturnedOwnPicture
<1>1. ASSUME PreparedInv, ResultInv PROVE ReturnedOwnPicture
    BY <1>1 DEF PreparedInv, ResultInv, ReturnedOwnPicture, Source
<1>. QED
    BY <1>1, PreparedInvariant, PTL

-----------------------------------------------------------------------------
(* The names of directories and songs.                                     *)

LOCAL INSTANCE SequencesExt

\* The beginning of a sequence, as far as its elements are known.
LEMMA Beginning ==
    ASSUME NEW S, NEW n, NEW k \in Nat, \A i \in 1..k : n[i] \in S
    PROVE  /\ SubSeq(n, 1, k) \in Seq(S) /\ Len(SubSeq(n, 1, k)) = k
           /\ \A i \in 1..k : SubSeq(n, 1, k)[i] = n[i]
OBVIOUS

\* What is before, at and after a character in the middle of a name.
LEMMA Around ==
    ASSUME NEW S, NEW a \in Seq(S), NEW x \in S, NEW b \in Seq(S)
    PROVE  LET n == a \o <<x>> \o b
               k == Len(a)
           IN  /\ n \in Seq(S) /\ Len(n) = k + 1 + Len(b) /\ n[k + 1] = x
               /\ \A i \in 1..k : n[i] = a[i]
               /\ \A i \in (k + 2)..Len(n) : i - k - 1 \in 1..Len(b) /\ n[i] = b[i - k - 1]
               /\ SubSeq(n, 1, k) = a
<1> DEFINE n == a \o <<x>> \o b
           one == <<x>>
           ax == a \o one
           k == Len(a)
           l == Len(b)
<1>1. one \in Seq(S) /\ Len(one) = 1 /\ one[1] = x
    OBVIOUS
<1>2. k \in Nat /\ l \in Nat
    BY LenProperties
<1> HIDE DEF one
<1>3. /\ ax \in Seq(S) /\ Len(ax) = k + 1
      /\ \A i \in 1..(k + 1) : ax[i] = IF i <= k THEN a[i] ELSE one[i - k]
    BY <1>1, ConcatProperties
<1>4. n = ax \o b
    BY DEF one
<1> HIDE DEF ax
<1>5. /\ n \in Seq(S) /\ Len(n) = k + 1 + l
      /\ \A i \in 1..(k + 1 + l) : n[i] = IF i <= k + 1 THEN ax[i] ELSE b[i - (k + 1)]
    BY <1>3, <1>4, ConcatProperties
<1> HIDE DEF k, l, n
<1>6. n[k + 1] = x
    BY <1>1, <1>2, <1>3, <1>5
<1>7. \A i \in 1..k : n[i] = a[i]
    BY <1>2, <1>3, <1>5
<1>8. \A i \in (k + 2)..(k + 1 + l) : i - k - 1 \in 1..l /\ n[i] = b[i - k - 1]
    <2> SUFFICES ASSUME NEW i \in (k + 2)..(k + 1 + l)
                 PROVE  i - k - 1 \in 1..l /\ n[i] = b[i - k - 1]
        OBVIOUS
    <2>1. i \in 1..(k + 1 + l) /\ ~(i <= k + 1) /\ i - (k + 1) = i - k - 1
        BY <1>2
    <2>. QED
        BY <1>2, <1>5, <2>1
<1>9. SubSeq(n, 1, k) = a
    <2>1. \A i \in 1..k : n[i] \in S
        BY <1>7, ElementOfSeq DEF k
    <2>2. /\ SubSeq(n, 1, k) \in Seq(S) /\ Len(SubSeq(n, 1, k)) = k
          /\ \A i \in 1..k : SubSeq(n, 1, k)[i] = n[i]
        BY <1>2, <2>1, Beginning
    <2>. QED
        BY <1>7, <2>2, SeqEqual DEF k
<1>. QED
    BY <1>5, <1>6, <1>7, <1>8, <1>9 DEF k, l, n

\* The greatest of a set of numbers.
LEMMA MaxOf ==
    ASSUME NEW I, I \subseteq Int, NEW m \in I, \A i \in I : i <= m
    PROVE  Max(I) = m
<1> DEFINE z == CHOOSE x \in I : \A y \in I : x >= y
<1>1. z \in I /\ \A y \in I : z >= y
    OBVIOUS
<1>2. Max(I) = z
    BY DEF Max
<1> HIDE DEF z
<1>. QED
    BY <1>1, <1>2

\* A sequence over fewer characters.
LEMMA SeqOfMore ==
    ASSUME NEW S, NEW T, S \subseteq T, NEW s \in Seq(S)
    PROVE  s \in Seq(T)
<1>1. Len(s) \in Nat /\ \A i \in 1..Len(s) : s[i] \in S
    BY LenProperties, ElementOfSeq
<1> DEFINE t == SubSeq(s, 1, Len(s))
<1>2. t \in Seq(S) /\ Len(t) = Len(s) /\ \A i \in 1..Len(s) : t[i] = s[i]
    BY <1>1, Beginning
<1>3. t \in Seq(T)
    <2>1. \A i \in 1..Len(s) : s[i] \in T
        BY <1>1
    <2>. QED
        BY <1>1, <2>1, Beginning
<1>4. t = s
    BY <1>2, SeqEqual
<1>. QED
    BY <1>3, <1>4

\* Where a sequence has an element for the last time.
LastAt(n, x) ==
    LET I == {i \in 1..Len(n) : n[i] = x} IN IF I # {} THEN Max(I) ELSE 0

\* The last place of a character is where others follow only.
LEMMA LastPlace ==
    ASSUME NEW S, NEW a \in Seq(S), NEW x \in S, NEW b \in Seq(S \ {x})
    PROVE  LastAt(a \o <<x>> \o b, x) = Len(a) + 1
<1> DEFINE n == a \o <<x>> \o b
           k == Len(a)
           I == {i \in 1..Len(n) : n[i] = x}
<1>1. b \in Seq(S) /\ k \in Nat /\ Len(b) \in Nat
    BY SeqOfMore, LenProperties
<1>2. /\ Len(n) = k + 1 + Len(b) /\ n[k + 1] = x
      /\ \A i \in (k + 2)..Len(n) : i - k - 1 \in 1..Len(b) /\ n[i] = b[i - k - 1]
    BY <1>1, Around
<1>3. \A i \in 1..Len(b) : b[i] # x
    BY ElementOfSeq
<1> HIDE DEF n, k
<1>4. k + 1 \in I /\ I \subseteq Int
    BY <1>1, <1>2
<1>5. \A i \in I : i <= k + 1
    <2> SUFFICES ASSUME NEW i \in 1..Len(n), n[i] = x, i > k + 1 PROVE FALSE
        BY <1>1, <1>2
    <2>1. i \in (k + 2)..Len(n)
        BY <1>1, <1>2
    <2>. QED
        BY <1>2, <1>3, <2>1
<1>6. Max(I) = k + 1
    BY <1>4, <1>5, MaxOf
<1>7. LastAt(n, x) = k + 1
    BY <1>4, <1>6 DEF LastAt
<1>. QED
    BY <1>7 DEF n, k

\* Where others follow the character's last place, it parts them from what is
\* before it.
LEMMA Parted ==
    ASSUME NEW S, NEW x \in S, NEW D, D \subseteq S \ {x},
           NEW a \in Seq(S), NEW b \in Seq(D), b # <<>>
    PROVE  LET n == a \o <<x>> \o b
               last == LastAt(n, x)
           IN  /\ last \in 1..(Len(n) - 1) /\ SubSeq(n, 1, last - 1) = a
               /\ \A i \in (last + 1)..Len(n) : n[i] \in D
<1> DEFINE n == a \o <<x>> \o b
           last == LastAt(n, x)
           k == Len(a)
           l == Len(b)
<1>1. k \in Nat /\ l \in Nat /\ l # 0
    BY EmptySeq, LenProperties
<1>2. b \in Seq(S) /\ b \in Seq(S \ {x})
    BY SeqOfMore
<1>3. /\ Len(n) = k + 1 + l /\ SubSeq(n, 1, k) = a
      /\ \A i \in (k + 2)..Len(n) : i - k - 1 \in 1..l /\ n[i] = b[i - k - 1]
    BY <1>2, Around
<1>4. last = k + 1
    BY <1>2, LastPlace
<1>5. \A i \in 1..l : b[i] \in D
    BY ElementOfSeq
<1> HIDE DEF n, k, l, last
<1>6. last - 1 = k /\ last + 1 = k + 2
    BY <1>1, <1>4
<1>7. last \in 1..(Len(n) - 1)
    BY <1>1, <1>3, <1>4
<1>8. \A i \in (k + 2)..Len(n) : n[i] \in D
    BY <1>3, <1>5
<1>9. SubSeq(n, 1, last - 1) = a /\ \A i \in (last + 1)..Len(n) : n[i] \in D
    BY <1>3, <1>6, <1>8
<1>. QED
    BY <1>7, <1>9 DEF n, last

\* The number of a directory is cut off, whatever the name before it, and
\* underscores in that name too (DirectoryKey).
THEOREM NumberIsIgnored ==
    ASSUME NEW Char, Digits \cup {"_"} \subseteq Char,
           NEW name \in Seq(Char), NEW number \in Seq(Digits), number # <<>>
    PROVE  DirectoryKey(name \o <<"_">> \o number) = name
<1> DEFINE x == "_"
           d == name \o <<x>> \o number
           last == LastAt(d, x)
<1>1. x \in Char /\ Digits \subseteq Char \ {x}
    BY DEF Digits
<1> HIDE DEF x
<1>2. /\ last \in 1..(Len(d) - 1) /\ SubSeq(d, 1, last - 1) = name
      /\ \A i \in (last + 1)..Len(d) : d[i] \in Digits
    BY <1>1, Parted
<1> HIDE DEF d
<1>3. DirectoryKey(d) = name
    <2>1. SelectLastInSeq(d, LAMBDA c : c = "_") = last
        BY DEF SelectLastInSeq, LastAt, x
    <2>. QED
        BY <1>2, <2>1 DEF DirectoryKey
<1>. QED
    BY <1>3 DEF d, x

\* What a sequence begins with.
LEMMA Prefix ==
    ASSUME NEW S, NEW a \in Seq(S), NEW b \in Seq(S)
    PROVE  SubSeq(a \o b, 1, Len(a)) = a
<1> DEFINE n == a \o b
           k == Len(a)
<1>1. k \in Nat /\ Len(b) \in Nat
    BY LenProperties
<1>2. \A i \in 1..(k + Len(b)) : n[i] = IF i <= k THEN a[i] ELSE b[i - k]
    BY ConcatProperties
<1>3. \A i \in 1..k : a[i] \in S
    BY ElementOfSeq
<1> HIDE DEF n, k
<1>4. \A i \in 1..k : n[i] = a[i]
    BY <1>1, <1>2
<1>5. /\ SubSeq(n, 1, k) \in Seq(S) /\ Len(SubSeq(n, 1, k)) = k
      /\ \A i \in 1..k : SubSeq(n, 1, k)[i] = n[i]
    <2>1. \A i \in 1..k : n[i] \in S
        BY <1>3, <1>4
    <2>. QED
        BY <1>1, <2>1, Beginning
<1>6. SubSeq(n, 1, k) = a
    BY <1>4, <1>5, SeqEqual DEF k
<1>. QED
    BY <1>6 DEF n, k

\* TrimRight leaves what is before the spaces at the end.
LEMMA Trimmed ==
    ASSUME NEW S, Spaces \subseteq S, NEW a \in Seq(S), NEW x \in S \ Spaces,
           NEW b \in Seq(Spaces)
    PROVE  TrimRight(a \o <<x>> \o b) = a \o <<x>>
<1> DEFINE n == a \o <<x>> \o b
           ax == a \o <<x>>
           k == Len(a)
           l == Len(b)
           I == {i \in 1..Len(n) : n[i] \notin Spaces}
<1>1. k \in Nat /\ l \in Nat
    BY LenProperties
<1>2. b \in Seq(S)
    BY SeqOfMore
<1>3. /\ Len(n) = k + 1 + l /\ n[k + 1] = x
      /\ \A i \in (k + 2)..Len(n) : i - k - 1 \in 1..l /\ n[i] = b[i - k - 1]
    BY <1>2, Around
<1>4. \A i \in 1..l : b[i] \in Spaces
    BY ElementOfSeq
<1>5. SubSeq(n, 1, k + 1) = ax
    <2>1. ax \in Seq(S) /\ Len(ax) = k + 1
        <3>1. <<x>> \in Seq(S) /\ Len(<<x>>) = 1
            OBVIOUS
        <3>. QED
            BY <3>1, ConcatProperties
    <2>. QED
        BY <1>2, <2>1, Prefix
<1> HIDE DEF n, k, l, ax
<1>6. k + 1 \in I /\ I \subseteq Int
    BY <1>1, <1>3
<1>7. \A i \in I : i <= k + 1
    <2> SUFFICES ASSUME NEW i \in 1..Len(n), n[i] \notin Spaces, i > k + 1 PROVE FALSE
        BY <1>1, <1>3
    <2>1. i \in (k + 2)..Len(n)
        BY <1>1, <1>3
    <2>. QED
        BY <1>3, <1>4, <2>1
<1>8. Max(I) = k + 1
    BY <1>6, <1>7, MaxOf
<1>9. SelectLastInSeq(n, LAMBDA c : c \notin Spaces) = k + 1
    BY <1>6, <1>8 DEF SelectLastInSeq
<1>10. TrimRight(n) = ax
    BY <1>5, <1>9 DEF TrimRight
<1>. QED
    BY <1>10 DEF n, ax

\* A description after a title is taken off, with spaces around it, in both
\* kinds of parentheses: the song is looked for under the title before it too
\* (RemoveTrailingDescription).
THEOREM DescriptionIsIgnored ==
    ASSUME NEW Char, Spaces \subseteq Char, DOMAIN Opening \subseteq Char \ Spaces,
           NEW title \in Seq(Char), NEW close \in DOMAIN Opening, Opening[close] \in Char,
           NEW description \in Seq(Char \ {Opening[close]}), NEW tail \in Seq(Spaces)
    PROVE  LET described == title \o <<Opening[close]>> \o description \o <<close>> \o tail
           IN  /\ RemoveTrailingDescription(described) = TrimRight(title)
               /\ {Normalize(TrimRight(title))} \ {<<>>} \subseteq TitleKeys(described)
<1> DEFINE o == Opening[close]
           one == <<close>>
           k == Len(title)
           before == title \o <<o>> \o description
           after == description \o one
           n == before \o one
           described == n \o tail
<1>1. close \in Char /\ close \notin Spaces /\ close # o
    BY DEF Opening
<1>2. o \in Char /\ description \in Seq(Char \ {o}) /\ k \in Nat
    BY LenProperties
<1> HIDE DEF o
<1>3. description \in Seq(Char) /\ <<o>> \in Seq(Char)
    <2>1. Char \ {o} \subseteq Char
        OBVIOUS
    <2>. QED
        BY <1>2, <2>1, SeqOfMore
<1>4. one \in Seq(Char \ {o}) /\ one \in Seq(Char) /\ Len(one) = 1 /\ one[1] = close
    BY <1>1
<1>5. before \in Seq(Char) /\ Len(before) \in Nat
    <2>1. before \in Seq(Char)
        BY <1>2, <1>3, Around
    <2>. QED
        BY <2>1, LenProperties
<1>6. TrimRight(described) = n
    <2> HIDE DEF before
    <2>. QED
        BY <1>1, <1>5, Trimmed
<1>7. after \in Seq(Char \ {o}) /\ after \in Seq(Char)
    <2> HIDE DEF one
    <2>. QED
        BY <1>2, <1>3, <1>4, ConcatProperties
<1>8. n = title \o <<o>> \o after
    <2> DEFINE ao == title \o <<o>>
    <2>1. ao \in Seq(Char)
        BY <1>3, ConcatProperties
    <2> HIDE DEF ao, one
    <2>2. (ao \o description) \o one = ao \o (description \o one)
        BY <1>3, <1>4, <2>1, ConcatAssociative
    <2>. QED
        BY <2>2 DEF ao
<1>9. LastAt(n, o) = k + 1 /\ SubSeq(n, 1, k) = title
    <2> HIDE DEF n, after
    <2>1. LastAt(title \o <<o>> \o after, o) = k + 1
        BY <1>2, <1>7, LastPlace
    <2>2. SubSeq(title \o <<o>> \o after, 1, k) = title
        BY <1>2, <1>7, Around
    <2>. QED
        BY <1>8, <2>1, <2>2
<1>10. n # <<>> /\ Last(n) = close
    <2> HIDE DEF before, one
    <2>1. /\ n \in Seq(Char) /\ Len(n) = Len(before) + Len(one)
          /\ \A i \in 1..(Len(before) + Len(one)) :
                 n[i] = IF i <= Len(before) THEN before[i] ELSE one[i - Len(before)]
        BY <1>4, <1>5, ConcatProperties
    <2> HIDE DEF n
    <2>2. Len(n) = Len(before) + 1 /\ n[Len(before) + 1] = close
        <3> DEFINE j == Len(before)
        <3>1. j \in Nat
            BY <1>5
        <3> HIDE DEF j
        <3>2. j + 1 \in 1..(j + 1) /\ ~(j + 1 <= j) /\ (j + 1) - j = 1
            BY <3>1
        <3>. QED
            BY <1>4, <2>1, <3>2 DEF j
    <2>. QED
        BY <1>5, <2>1, <2>2, EmptySeq DEF Last
<1> HIDE DEF n, described
<1>11. RemoveTrailingDescription(described) = TrimRight(title)
    <2> DEFINE m == TrimRight(described)
    <2>1. m # <<>> /\ Last(m) \in DOMAIN Opening /\ SubSeq(m, 1, k) = title
          /\ LastAt(m, Opening[Last(m)]) = k + 1
        BY <1>6, <1>9, <1>10 DEF o
    <2> HIDE DEF m
    <2>2. SelectLastInSeq(m, LAMBDA c : c = Opening[Last(m)]) = k + 1
        BY <2>1 DEF SelectLastInSeq, LastAt
    <2>3. k + 1 > 0 /\ (k + 1) - 1 = k
        BY <1>2
    <2> HIDE DEF k
    <2>. QED
        BY <2>1, <2>2, <2>3 DEF RemoveTrailingDescription, m
<1>12. {Normalize(TrimRight(title))} \ {<<>>} \subseteq TitleKeys(described)
    BY <1>11 DEF TitleKeys
<1>. QED
    BY <1>11, <1>12 DEF n, described, o

\* Where directories bear the names of a song's albums and singers, the search
\* comes to their pictures.
LEMMA FoundByName ==
    ASSUME NamesMatch, NEW s \in Songs, NEW p \in Places, p.name \in s[p.root]
    PROVE  p \in Found(p.root, s)
<1> DEFINE Char == STRING \cup Digits \cup {"_"}
<1>1. /\ Normalize(p.name) \in Keys(p.root, s)
      /\ p.number \in Seq(Digits) /\ p.number # <<>>
      /\ p.depth <= MaximumTraversalDepth /\ p.ext \in ImageExtensions
    BY DEF NamesMatch
<1>2. p.name \in Seq(STRING)
    BY CoverAssumption
<1>3. Digits \cup {"_"} \subseteq Char /\ STRING \subseteq Char
    OBVIOUS
<1> HIDE DEF Char
<1>4. p.name \in Seq(Char)
    BY <1>2, <1>3, SeqOfMore
<1>5. DirectoryKey(Directory(p)) = p.name
    BY <1>1, <1>3, <1>4, NumberIsIgnored DEF Directory
<1>. QED
    BY <1>1, <1>5 DEF Found

-----------------------------------------------------------------------------
(* The search.                                                             *)

\* Of the files that were there all the time, those the search has come to do
\* not beat the best; there is none among the albums once it turns to the
\* singers, nor any it has not come to once it is over.
FoundInv ==
    pc # "idle" =>
        /\ left \subseteq Found(root, song)
        /\ best # None => best.place.root = root
        /\ \A p \in (Found(root, song) \ left) \cap steady : best # None /\ ~Better(p)
        /\ root = "singer" => Found("album", song) \cap steady = {}
        /\ pc # "search" => left = {} /\ (best = None => root = "singer")

\* The new best is not beaten by what the old one beat, nor by itself.
LEMMA PreferTransitive ==
    ASSUME NEW p \in Places, NEW n \in Nat, NEW q \in Places, NEW m \in Nat,
           NEW b \in Candidate, Prefer(p, n, b),
           ~(q.hint > b.place.hint), ~(q.hint = b.place.hint /\ m > b.access)
    PROVE  ~(q.hint > p.hint) /\ ~(q.hint = p.hint /\ m > n)
<1>1. /\ p.hint \in Nat /\ q.hint \in Nat /\ b.place.hint \in Nat /\ b.access \in Nat
    BY CoverAssumption DEF Candidate
<1>. QED
    BY <1>1 DEF Prefer

LEMMA FoundVisit ==
    ASSUME ResolverInv, FoundInv, NEW p \in Places, VisitFile(p)
    PROVE  FoundInv'
<1> DEFINE c == [place |-> p, access |-> file[p].number]
<1>0. /\ SearchTypes /\ FileTypes /\ SteadyInv
      /\ pc = "search" /\ pc' = "search" /\ p \in left /\ left' = left \ {p}
      /\ UNCHANGED <<file, steady, song, root>>
      /\ p \in Found(root, song) /\ p.root = root
    BY TypeParts, FoundType DEF ResolverInv, VisitFile, kugouVars, FoundInv
<1>1. \A q \in steady : q \in Places /\ q.hint \in Nat /\ file[q].number \in Nat
    BY <1>0, CoverAssumption DEF SteadyInv, FileTypes, Picture
<1>2. best # None => /\ best \in Candidate /\ best.place.hint \in Nat
                     /\ best.access \in Nat
    BY <1>0, CoverAssumption DEF SearchTypes, Candidate
<1>3. CASE p \notin steady /\ best' = best
    BY <1>0, <1>3 DEF FoundInv, Better
<1>4. CASE file[p] # None /\ (best = None \/ Prefer(p, file[p].number, best)) /\ best' = c
    <2>1. file[p].number \in Nat /\ p.hint \in Nat /\ c \in Candidate
        BY <1>0, <1>4, CoverAssumption DEF FileTypes, Picture, Candidate
    <2>2. best'.place = p /\ best'.access = file[p].number /\ best' # None
        BY <1>4, <2>1, CoverAssumption
    <2>3. ASSUME NEW q \in (Found(root, song) \ left') \cap steady PROVE ~Better(q)'
        <3>1. CASE q = p
            BY <1>0, <2>1, <2>2, <3>1 DEF Better
        <3>2. CASE q # p
            <4>1. best # None /\ ~Better(q)
                BY <1>0, <2>3, <3>2 DEF FoundInv
            <4>2. ~(q.hint > p.hint) /\ ~(q.hint = p.hint /\ file[q].number > file[p].number)
                BY <1>1, <1>2, <1>4, <2>1, <2>3, <4>1, PreferTransitive DEF Better
            <4>. QED
                BY <1>0, <2>2, <4>2 DEF Better
        <3>. QED
            BY <3>1, <3>2
    <2>. QED
        BY <1>0, <2>2, <2>3 DEF FoundInv
<1>5. CASE /\ file[p] # None /\ best # None /\ ~Prefer(p, file[p].number, best)
           /\ best' = best
    <2>1. file[p].number \in Nat /\ p.hint \in Nat
        BY <1>0, <1>5, CoverAssumption DEF FileTypes, Picture
    <2>2. ~Better(p)
        BY <1>2, <1>5, <2>1 DEF Better, Prefer
    <2>. QED
        BY <1>0, <1>5, <2>2 DEF FoundInv, Better
<1>. QED
    BY <1>3, <1>4, <1>5 DEF VisitFile

LEMMA FoundStep ==
    ASSUME ResolverInv, FoundInv, [Next]_vars
    PROVE  FoundInv'
<1>1. ASSUME NEW s \in Songs, Resolve(s) PROVE FoundInv'
    BY <1>1 DEF Resolve, FoundInv
<1>2. CASE FallBackToSinger
    BY <1>2 DEF FallBackToSinger, FoundInv, kugouVars
<1>3. CASE NothingFound \/ SourceFound
    <2>1. /\ UNCHANGED <<file, steady, song, root, left, best>>
          /\ pc = "search" /\ left = {} /\ (best = None => root = "singer")
        BY <1>3 DEF NothingFound, SourceFound, kugouVars, searchVars
    <2>. QED
        BY <2>1 DEF FoundInv, Better
<1>4. CASE PrepareCover
    <2>1. UNCHANGED <<file, steady, song, root, left, best>>
        BY <1>4, PrepareFrame DEF kugouVars, searchVars
    <2>2. pc \notin {"idle", "search"}
        BY <1>4 DEF PrepareCover, DetectFormatFails, DetectFormat, NoDirectory,
           AlreadyPrepared, DecodeFails, BeginConversion, EndConversion, MovePrepared,
           ConversionFails, BeginCopy, EndCopy, CopyFails, Converting, Copying
    <2>. QED
        BY <2>1, <2>2 DEF FoundInv, Better
<1>5. CASE KuGou \/ UNCHANGED vars
    <2>1. /\ UNCHANGED <<song, root, left, best, pc>>
          /\ \A p \in steady' : p \in steady /\ file'[p] = file[p]
        BY <1>5, KuGouStep DEF ResolverInv, vars, kugouVars, searchVars
    <2>. QED
        BY <2>1 DEF FoundInv, Better
<1>6. CASE Crash
    BY <1>6 DEF Crash, FoundInv
<1>. QED
    BY <1>1, <1>2, <1>3, <1>4, <1>5, <1>6, FoundVisit DEF Next, Resolver

\* However KuGou stores and removes pictures under the search, it ends with one
\* that none that stayed beats, where directories bear the names of the albums
\* and singers and a number (NamesMatch, a fact of the songs and places only).
THEOREM BestIsFound ==
    ASSUME NamesMatch
    PROVE  Spec => []BestFound
<1>1. Init => FoundInv
    BY DEF Init, FoundInv
<1>2. ASSUME ResolverInv, FoundInv PROVE BestFound
    <2> SUFFICES ASSUME pc \notin {"idle", "search"},
                        NEW p \in steady, Belongs(p)
                 PROVE  /\ best # None
                        /\ p.root = "album" => best.place.root = "album"
                        /\ p.root = best.place.root => ~Better(p)
        BY DEF BestFound
    <2>1. /\ p \in Places /\ p.root \in {"album", "singer"}
          /\ root \in {"album", "singer"} /\ song \in Songs
        BY <1>2, TypeParts, CoverAssumption DEF ResolverInv, FileTypes, SearchTypes
    <2>2. p \in Found(p.root, song)
        BY <2>1, FoundByName DEF Belongs
    <2>. QED
        BY <1>2, <2>1, <2>2 DEF FoundInv
<1>. QED
    BY <1>1, <1>2, FoundStep, ResolverInvariant, PTL DEF Spec

=============================================================================
