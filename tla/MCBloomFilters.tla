---------------------------- MODULE MCBloomFilters ----------------------------
EXTENDS Bloom, TLC

\* Two hash functions on three addresses, with collisions, and values beyond
\* the size of the filter.
MCFuncs == {(0 :> 4) @@ (1 :> 7) @@ (2 :> 9), (0 :> 2) @@ (1 :> 5) @@ (2 :> 4)}
===============================================================================
