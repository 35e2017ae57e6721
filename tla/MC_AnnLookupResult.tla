------------------------- MODULE MC_AnnLookupResult -------------------------
(* A uint8 snapshot of Dimension 2 and TopCount 2; keys of the right size  *)
(* (2 bytes) and of a wrong one; requests of up to three keys, with a     *)
(* repeat; an index of three points over a Mapping of two records, so an  *)
(* answer can hold a label the Mapping lacks.                              *)
EXTENDS AnnLookupResult

CONSTANTS ka, kb, kc

MCKeys == {ka, kb, kc}
MCKeyLen == (ka :> 2) @@ (kb :> 2) @@ (kc :> 3)
MCRequests == {NoList, <<>>, <<ka>>, <<kc>>, <<ka, kb>>, <<ka, kc, ka>>, <<kc, kb, ka>>}
MCStorage == <<"s0", "s1">>
=============================================================================
