----------------------------- MODULE MCCoverArt -----------------------------
(***************************************************************************)
(* CoverArt for model checking: a song of two artists with a description   *)
(* after its title, and one without; their pictures in three directories.  *)
(***************************************************************************)
EXTENDS CoverArt, TLC

MCLower == "A" :> "a" @@ "B" :> "b" @@ "C" :> "c"

Live == [artist |-> <<"D", "&", " ", "C">>, title |-> <<"A", " ", "(", "x", ")">>,
         album |-> {<<"a">>, <<"a", "(", "x", ")">>}, singer |-> {<<"C">>}]
Plain == [artist |-> <<"C">>, title |-> <<"B", "?">>,
          album |-> {<<"B">>}, singer |-> {<<"C">>}]
MCSongs == {Live, Plain}

Place(r, name, hint, ext) ==
    [root |-> r, name |-> name, number |-> <<"1", "2">>, depth |-> 1,
     hint |-> hint, ext |-> ext]
MCPlaces ==
    {Place("album", <<"a", "(", "x", ")">>, 120, ".jpg"), Place("album", <<"a">>, 480, ".jpg"),
     Place("album", <<"B">>, 120, ".png"), Place("singer", <<"C">>, 480, ".jpg")}

\* Neither capitals, spaces, a description nor further artists keep a song from
\* its pictures.
ASSUME MCNamesMatch == NamesMatch

=============================================================================
