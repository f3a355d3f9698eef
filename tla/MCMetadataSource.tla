-------------------------- MODULE MCMetadataSource --------------------------
(***************************************************************************)
(* Small instances of MetadataSource: the delays 2, 2, 2, 5, 10 and 30     *)
(* seconds, scaled down to ticks that keep their order.                    *)
(***************************************************************************)
EXTENDS MetadataSource

MCDelay == [n \in 1..6 |-> CASE n <= 3 -> 1 [] n = 4 -> 2 [] n = 5 -> 3 [] n = 6 -> 4]

=============================================================================
