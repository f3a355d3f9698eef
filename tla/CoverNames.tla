----------------------------- MODULE CoverNames -----------------------------
(***************************************************************************)
(* The names by which covers are found (src/cover_art.cpp).  KuGou keeps   *)
(* the pictures of an album or a singer in a directory called by the name  *)
(* and a number ("Target Song_2").  A name is a sequence of characters;    *)
(* the model needs only a few of them, "w(" and "w)" stand for the         *)
(* full-width parentheses.                                                 *)
(***************************************************************************)
EXTENDS Integers, Sequences
LOCAL INSTANCE SequencesExt

CONSTANT Lower          \* the capital letters with their small ones

Spaces == {" "}
Forbidden == {"\\", "/", ":", "*", "?", "\"", "<", ">", "|"}
Digits == {"0", "1", "2", "3", "4", "5", "6", "7", "8", "9"}
Separators == {",", "w,", "&", ";", "w;", "enum,"}
Opening == [c \in {")", "w)"} |-> IF c = ")" THEN "(" ELSE "w("]

Normalize(name) ==
    LET kept == SelectSeq(name, LAMBDA c : c \notin Spaces \cup Forbidden)
    IN  [i \in DOMAIN kept |->
            IF kept[i] \in DOMAIN Lower THEN Lower[kept[i]] ELSE kept[i]]

\* The directory's name without the number after its last underscore.
DirectoryKey(name) ==
    LET separator == SelectLastInSeq(name, LAMBDA c : c = "_")
        numeric == \A i \in (separator + 1)..Len(name) : name[i] \in Digits
    IN  IF separator \in 1..(Len(name) - 1) /\ numeric
          THEN SubSeq(name, 1, separator - 1) ELSE name

TrimRight(name) ==
    SubSeq(name, 1, SelectLastInSeq(name, LAMBDA c : c \notin Spaces))

\* "Song (Live)" without its description.
RemoveTrailingDescription(name) ==
    LET trimmed == TrimRight(name)
        opening == SelectLastInSeq(trimmed,
                       LAMBDA c : c = Opening[Last(trimmed)])
    IN  IF trimmed # <<>> /\ Last(trimmed) \in DOMAIN Opening /\ opening > 0
          THEN TrimRight(SubSeq(trimmed, 1, opening - 1)) ELSE trimmed

TitleKeys(title) ==
    {Normalize(title), Normalize(RemoveTrailingDescription(title))} \ {<<>>}

\* Every artist of a list is looked for.
ArtistKeys(artist) ==
    LET cuts == {0, Len(artist) + 1}
                \cup {i \in DOMAIN artist : artist[i] \in Separators}
        parts == {ij \in cuts \X cuts : ij[1] < ij[2]}
    IN  {Normalize(SubSeq(artist, ij[1] + 1, ij[2] - 1)) :
            ij \in {p \in parts : \A k \in cuts : ~(p[1] < k /\ k < p[2])}} \ {<<>>}

=============================================================================
