-------------------------- MODULE MCDocumentStore --------------------------
(* Values for the constants of DocumentStore: two keys, "doc" and "doc2",   *)
(* the first a prefix of the second.                                         *)
EXTENDS DocumentStoreRefinement, TLC

MCKeys      == {"doc", "doc2"}
MCLonger    == {<<"doc2", "doc">>}

SeedEmpty   == <<>>
SeedOne     == <<"doc">>
SeedTwice   == <<"doc", "doc">>
SeedThree   == <<"doc", "doc2", "doc">>

Symmetry    == Permutations(Requests)
=============================================================================
