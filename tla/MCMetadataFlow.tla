--------------------------- MODULE MCMetadataFlow ---------------------------
(***************************************************************************)
(* A small instance of MetadataFlow: a title that the block keeps whole    *)
(* and one that it cuts.                                                   *)
(***************************************************************************)
EXTENDS MetadataFlow

CONSTANTS short, long, longCut

MCTitles == {short, long}
MCCut == [t \in MCTitles |-> IF t = short THEN short ELSE longCut]

=============================================================================
