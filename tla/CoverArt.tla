------------------------------ MODULE CoverArt ------------------------------
(***************************************************************************)
(* CoverArtResolver (src/cover_art.cpp): looks for the picture of a song   *)
(* among those KuGou stores, and prepares a copy of it where its format    *)
(* does not suit its name or is WebP.  KuGou goes on storing and removing  *)
(* pictures meanwhile, and the process may die anywhere and be started     *)
(* again; what is on disk stays.                                           *)
(***************************************************************************)
EXTENDS CoverNames

CONSTANTS
    Songs,              \* artist and title that are looked for, and the
                        \* names of the albums and singers they stand for
    Places,             \* the paths at which KuGou stores pictures: root,
                        \* name and number of the directory below it, depth
                        \* below that, number the parent's name starts
                        \* with, extension
    None,               \* no file, no result
    StoreBudget,        \* bound: pictures KuGou stores
    RemoveBudget,       \* bound: pictures KuGou removes
    FaultBudget,        \* bound: encoders, moves and copies that fail
    CrashBudget         \* bound: deaths of the process

MaximumTraversalDepth == 4
ImageExtensions == {".jpg", ".jpeg", ".png", ".webp"}
Formats == {"jpeg", "png", "webp", "unknown"}
Prepared == Places \X {".jpg", ".png"}     \* the paths of prepared covers,
Original == Places \X {"own"}              \* and those of KuGou's files

\* The number of a picture also orders the times of last access.
Picture == [format : Formats, number : 1..StoreBudget, whole : BOOLEAN]
Candidate == [place : Places, access : 1..StoreBudget]

ASSUME CoverAssumption ==
    /\ \A s \in Songs : {s.artist, s.title} \cup s.album \cup s.singer \subseteq Seq(STRING)
    /\ \A p \in Places : p.root \in {"album", "singer"} /\ {p.depth, p.hint} \subseteq Nat
    /\ None \notin Picture \cup Candidate \cup Prepared \cup Original
    /\ {StoreBudget, RemoveBudget, FaultBudget, CrashBudget} \subseteq Nat

VARIABLES
    file,               \* what KuGou stores at a place
    prepared,           \* the prepared covers
    temporary,          \* the ".tmp" files beside them
    pc,                 \* the resolver's place
    song, root,         \* what it looks for, and where
    left,               \* the files FindNextFile still comes to
    best,               \* the best candidate, with its access time
    format,             \* what DetectFormat found
    target,             \* the path of the cover being prepared
    result,             \* the path Resolve returned
    stores, removals, faults, crashes,  \* counted against the budgets
    steady,             \* history: the places whose picture was whole when
                        \* Resolve began and has not been touched since
    replaced,           \* history: the places that lost a picture
    doubtful            \* history: the covers whose copy was interrupted, or
                        \* made from a picture not steady

diskVars == <<prepared, temporary>>
searchVars == <<song, root, left, best>>
prepareVars == <<format, target, result>>
countVars == <<stores, removals, faults, crashes>>
kugouVars == <<file, steady, replaced>>
vars == <<kugouVars, diskVars, searchVars, prepareVars, countVars, doubtful, pc>>

TypeOK ==
    /\ file \in [Places -> Picture \cup {None}]
    /\ prepared \in [Prepared -> Picture \cup {None}]
    /\ temporary \in [Prepared -> Picture \cup {None}]
    /\ pc \in {"idle", "search", "detect", "prepare", "encode", "move", "copying", "done"}
    /\ song \in Songs /\ root \in {"album", "singer"} /\ left \subseteq Places
    /\ best \in Candidate \cup {None}
    /\ format \in Formats /\ target \in Prepared \cup {None}
    /\ result \in Original \cup Prepared \cup {None}
    /\ stores \in 0..StoreBudget /\ removals \in 0..RemoveBudget
    /\ faults \in 0..FaultBudget /\ crashes \in 0..CrashBudget
    /\ steady \subseteq Places /\ replaced \subseteq Places /\ doubtful \subseteq Prepared

Init ==
    /\ file = [p \in Places |-> None]
    /\ prepared = [k \in Prepared |-> None] /\ temporary = prepared
    /\ pc = "idle" /\ song \in Songs /\ root = "album" /\ left = {} /\ best = None
    /\ format = "unknown" /\ target = None /\ result = None
    /\ stores = 0 /\ removals = 0 /\ faults = 0 /\ crashes = 0
    /\ steady = {} /\ replaced = {} /\ doubtful = {}

-----------------------------------------------------------------------------
(* The search: KuGou's album pictures by title, then the singer pictures.   *)

\* KuGou's name of the directory.
Directory(p) == p.name \o <<"_">> \o p.number

Keys(r, s) == IF r = "album" THEN TitleKeys(s.title) ELSE ArtistKeys(s.artist)

\* The image files of the matching directories that the traversal comes to.
Found(r, s) ==
    {p \in Places : /\ p.root = r
                    /\ Normalize(DirectoryKey(Directory(p))) \in Keys(r, s)
                    /\ p.depth <= MaximumTraversalDepth
                    /\ p.ext \in ImageExtensions}

\* PreferDetailedCandidate
PreferRecent(p, access, current) == access > current.access
Prefer(p, access, current) ==
    IF p.hint # current.place.hint THEN p.hint > current.place.hint
                                   ELSE access > current.access

Resolve(s) ==
    /\ pc \in {"idle", "done"}
    /\ pc' = "search" /\ song' = s /\ root' = "album" /\ left' = Found("album", s)
    /\ best' = None /\ target' = None /\ result' = None
    /\ steady' = {p \in Places : file[p] # None /\ file[p].whole}
    /\ UNCHANGED <<file, replaced, diskVars, format, countVars, doubtful>>

\* SearchDirectory: the directories are walked in the order of the file
\* system.  A file that KuGou touches meanwhile may be passed over.
VisitFile(p) ==
    /\ pc = "search" /\ p \in left
    /\ left' = left \ {p}
    /\ LET better == best = None \/ Prefer(p, file[p].number, best)
           candidate == [place |-> p, access |-> file[p].number]
       IN  \/ file[p] # None /\ best' = IF better THEN candidate ELSE best
           \/ p \notin steady /\ UNCHANGED best
    /\ UNCHANGED <<kugouVars, diskVars, song, root, prepareVars, countVars, doubtful, pc>>

Return(r) == pc' = "done" /\ result' = r

FallBackToSinger ==
    /\ pc = "search" /\ left = {} /\ best = None /\ root = "album"
    /\ root' = "singer" /\ left' = Found("singer", song)
    /\ UNCHANGED <<kugouVars, diskVars, song, best, prepareVars, countVars, doubtful, pc>>

NothingFound ==
    /\ pc = "search" /\ left = {} /\ best = None /\ root = "singer"
    /\ Return(None)
    /\ UNCHANGED <<kugouVars, diskVars, searchVars, format, target, countVars, doubtful>>

SourceFound ==
    /\ pc = "search" /\ left = {} /\ best # None
    /\ pc' = "detect"
    /\ UNCHANGED <<kugouVars, diskVars, searchVars, prepareVars, countVars, doubtful>>

-----------------------------------------------------------------------------
(* PrepareCover.                                                           *)

\* ExtensionMatches
Extensions(f) ==
    CASE f = "jpeg" -> {".jpg", ".jpeg"} [] f = "png" -> {".png"} [] f = "webp" -> {".webp"}

\* The name of a prepared cover: a hash of its source's path, taken for
\* unique here, and the extension of what it will hold.
PreparedInFormat(p, f) == <<p, CHOOSE e \in {".jpg", ".png", ".webp"} : e \in Extensions(f)>>
PreparedForRoot(p, f) ==
    <<CHOOSE q \in Places : q.root = p.root, IF f = "jpeg" THEN ".jpg" ELSE ".png">>
PreparedName(p, f) == <<p, IF f = "jpeg" THEN ".jpg" ELSE ".png">>

Source == file[best.place]

\* No file, too little of it, or the header of no format known.
DetectFormatFails ==
    /\ pc = "detect"
    /\ ~(Source # None /\ Source.whole /\ Source.format # "unknown")
    /\ Return(None)
    /\ UNCHANGED <<kugouVars, diskVars, searchVars, format, target, countVars, doubtful>>

DetectFormat ==
    /\ pc = "detect" /\ Source # None /\ Source.format # "unknown"
    /\ format' = Source.format
    /\ IF format' # "webp" /\ best.place.ext \in Extensions(format')
         THEN Return(<<best.place, "own">>) /\ UNCHANGED target
         ELSE /\ pc' = "prepare" /\ target' = PreparedName(best.place, format')
              /\ UNCHANGED result
    /\ UNCHANGED <<kugouVars, diskVars, searchVars, countVars, doubtful>>

Fails == faults < FaultBudget /\ faults' = faults + 1
otherCounts == <<stores, removals, crashes>>

\* The directory of the prepared covers cannot be made.
NoDirectory ==
    /\ pc = "prepare" /\ Fails
    /\ Return(None)
    /\ UNCHANGED <<kugouVars, diskVars, searchVars, format, target, otherCounts, doubtful>>

AlreadyPrepared ==
    /\ pc = "prepare" /\ prepared[target] # None
    /\ Return(target)
    /\ UNCHANGED <<kugouVars, diskVars, searchVars, format, target, countVars, doubtful>>

\* ConvertWebPToPng, up to the creation of the file it encodes to; a source
\* that is no WebP picture any more, or not a whole one, is not decoded.
Decodes == Source # None /\ Source.whole /\ Source.format = "webp"
Converting == pc = "prepare" /\ format = "webp" /\ prepared[target] = None
Encoded(whole) == [format |-> "png", number |-> Source.number, whole |-> whole]

DecodeFails ==
    /\ Converting /\ ~Decodes
    /\ temporary' = [temporary EXCEPT ![target] = None]
    /\ Return(None)
    /\ UNCHANGED <<kugouVars, prepared, searchVars, format, target, countVars, doubtful>>

ConvertInPlace ==
    /\ Converting /\ Decodes
    /\ prepared' = [prepared EXCEPT ![target] = Encoded(FALSE)]
    /\ temporary' = [temporary EXCEPT ![target] = Encoded(FALSE)]
    /\ pc' = "encode"
    /\ UNCHANGED <<kugouVars, searchVars, prepareVars, countVars, doubtful>>

BeginConversion ==
    /\ Converting /\ Decodes
    /\ temporary' = [temporary EXCEPT ![target] = Encoded(FALSE)]
    /\ pc' = "encode"
    /\ UNCHANGED <<kugouVars, prepared, searchVars, prepareVars, countVars, doubtful>>

EndConversion ==
    /\ pc = "encode"
    /\ temporary' = [temporary EXCEPT ![target].whole = TRUE]
    /\ pc' = "move"
    /\ UNCHANGED <<kugouVars, prepared, searchVars, prepareVars, countVars, doubtful>>

\* MoveFileEx is atomic.
MovePrepared ==
    /\ pc = "move"
    /\ prepared' = [prepared EXCEPT ![target] = temporary[target]]
    /\ temporary' = [temporary EXCEPT ![target] = None]
    /\ Return(target)
    /\ UNCHANGED <<kugouVars, searchVars, format, target, countVars, doubtful>>

\* The encoder or the move fails: the temporary file is deleted.
ConversionFails ==
    /\ pc \in {"encode", "move"} /\ Fails
    /\ temporary' = [temporary EXCEPT ![target] = None]
    /\ Return(None)
    /\ UNCHANGED <<kugouVars, prepared, searchVars, format, target, otherCounts, doubtful>>

Copying == pc = "prepare" /\ format # "webp" /\ prepared[target] = None

\* CopyFile is not atomic: the prepared file exists before it is whole.
BeginCopy ==
    /\ Copying /\ Source # None
    /\ prepared' = [prepared EXCEPT ![target] = [Source EXCEPT !.whole = FALSE]]
    /\ doubtful' = IF best.place \in steady THEN doubtful ELSE doubtful \cup {target}
    /\ pc' = "copying"
    /\ UNCHANGED <<kugouVars, temporary, searchVars, prepareVars, countVars>>

\* The copy is whole if its source was and is.
EndCopy ==
    /\ pc = "copying"
    /\ prepared' = [prepared EXCEPT ![target].whole = Source # None /\ Source.whole]
    /\ doubtful' = IF best.place \in steady THEN doubtful ELSE doubtful \cup {target}
    /\ Return(target)
    /\ UNCHANGED <<kugouVars, temporary, searchVars, format, target, countVars>>

\* No file to copy, or CopyFile fails: it removes what it wrote.
CopyFails ==
    /\ \/ Copying /\ Source = None /\ UNCHANGED faults
       \/ pc = "copying" /\ Fails
    /\ prepared' = [prepared EXCEPT ![target] = None]
    /\ Return(None)
    /\ UNCHANGED <<kugouVars, temporary, searchVars, format, target, otherCounts, doubtful>>

-----------------------------------------------------------------------------
(* The process dies; KuGou stores and removes pictures.                    *)

Crash ==
    /\ crashes < CrashBudget /\ crashes' = crashes + 1
    /\ pc \notin {"idle", "done"} /\ pc' = "idle"
    /\ root' = "album" /\ left' = {} /\ best' = None
    /\ format' = "unknown" /\ target' = None /\ result' = None
    /\ doubtful' = IF pc = "copying" THEN doubtful \cup {target} ELSE doubtful
    /\ UNCHANGED <<kugouVars, diskVars, song, stores, removals, faults>>

Touched(p) == steady' = steady \ {p}

BeginStore(p) ==
    /\ stores < StoreBudget /\ stores' = stores + 1
    /\ \E f \in Formats :
          file' = [file EXCEPT ![p] = [format |-> f, number |-> stores', whole |-> FALSE]]
    /\ replaced' = IF file[p] # None THEN replaced \cup {p} ELSE replaced
    /\ Touched(p)
    /\ UNCHANGED <<diskVars, searchVars, prepareVars, removals, faults, crashes, doubtful, pc>>

EndStore(p) ==
    /\ file[p] # None /\ ~file[p].whole
    /\ file' = [file EXCEPT ![p].whole = TRUE]
    /\ Touched(p)
    /\ UNCHANGED <<replaced, diskVars, searchVars, prepareVars, countVars, doubtful, pc>>

RemovePicture(p) ==
    /\ file[p] # None /\ removals < RemoveBudget /\ removals' = removals + 1
    /\ file' = [file EXCEPT ![p] = None]
    /\ replaced' = replaced \cup {p}
    /\ Touched(p)
    /\ UNCHANGED <<diskVars, searchVars, prepareVars, stores, faults, crashes,
                   doubtful, pc>>

-----------------------------------------------------------------------------

PrepareCover ==
    \/ DetectFormatFails \/ DetectFormat \/ NoDirectory \/ AlreadyPrepared
    \/ DecodeFails \/ BeginConversion \/ EndConversion \/ MovePrepared \/ ConversionFails
    \/ BeginCopy \/ EndCopy \/ CopyFails

Resolver ==
    \/ \E s \in Songs : Resolve(s)
    \/ \E p \in Places : VisitFile(p)
    \/ FallBackToSinger \/ NothingFound \/ SourceFound
    \/ PrepareCover

KuGou == \E p \in Places : BeginStore(p) \/ EndStore(p) \/ RemovePicture(p)

Next == Resolver \/ KuGou \/ Crash

Spec == Init /\ [][Next]_vars

-----------------------------------------------------------------------------
(* Properties.                                                             *)

\* The pictures of a song's albums and singers are image files, at no great
\* depth, in directories called by a number and a name that the song is looked
\* for under: a fact of the songs and places of an instance.
NamesMatch ==
    \A s \in Songs, p \in Places : p.name \in s[p.root] =>
        /\ Normalize(p.name) \in Keys(p.root, s)
        /\ p.number \in Seq(Digits) /\ p.number # <<>>
        /\ p.depth <= MaximumTraversalDepth /\ p.ext \in ImageExtensions

Belongs(p) == p.name \in song[p.root]
Better(p) ==
    \/ p.hint > best.place.hint
    \/ p.hint = best.place.hint /\ file[p].number > best.access

\* Among the pictures of the song's album, or else of its singers, Resolve
\* takes one that none beats that was there all the time: not in detail, and
\* of the same detail not in being used later.  Neither the number in a
\* directory's name nor a description after the title, spaces, capitals or
\* further artists keep it from a picture.
BestFound ==
    pc \notin {"idle", "search"} =>
        \A p \in {q \in steady : Belongs(q)} :
            /\ best # None
            /\ p.root = "album" => best.place.root = "album"
            /\ p.root = best.place.root => ~Better(p)

Content(path) == IF path \in Original THEN file[path[1]] ELSE prepared[path]
Extension(path) == IF path \in Original THEN path[1].ext ELSE path[2]

\* A cover that Resolve returns is a whole picture of the format its name
\* promises, whatever KuGou and failures did before, and although a process
\* died while it converted.  The exceptions are a copy that was interrupted
\* or made of a picture not steady: nothing tells it from a whole one later.
ReturnedSound ==
    pc = "done" /\ result \in (steady \X {"own"}) \cup (Prepared \ doubtful) =>
        LET c == Content(result) IN c.whole /\ Extension(result) \in Extensions(c.format)

\* A prepared cover is the picture of the file that was chosen, as long as
\* KuGou has not put another one there: the prepared names never mix up two
\* files, nor two formats of one.
ReturnedOwnPicture ==
    pc = "done" /\ result \in Prepared \ doubtful /\ best.place \notin replaced =>
        prepared[result].number = Source.number

=============================================================================
