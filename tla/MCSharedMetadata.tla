-------------------------- MODULE MCSharedMetadata --------------------------
(***************************************************************************)
(* Small instances of SharedMetadata: titles over two characters, one      *)
(* shorter than the block, one that fills it and one that is cut.          *)
(***************************************************************************)
EXTENDS SharedMetadata

CONSTANTS a, b

MCChar == {a, b}
MCTitles == {<<b>>, <<a, a>>, <<b, b, b>>}
MCTwoTitles == {<<b>>, <<a, a>>}

=============================================================================
