-------------------------- MODULE MCConfigBuilder --------------------------
(* Two clients, the id of one a prefix of the other's; homes and buckets are *)
(* interchangeable.                                                          *)
EXTENDS ConfigBuilder

MCBegins == [x \in Fragments |-> IF x = "ab" THEN {"ab", "abc"} ELSE {"abc"}]
MCRoutes == <<[path |-> "/get_file", action |-> "GET"]>>
MCRecommended == <<[name |-> "extensions", arg |-> "given"]>>
NamesAlike == {h @@ b : h \in Permutations(Homes), b \in Permutations(Buckets)}
MCDeployments == {d \in SUBSET Paths : Cardinality(d) <= 1}
MCAllFilters == <<[name |-> "size", arg |-> None]>>
=============================================================================
