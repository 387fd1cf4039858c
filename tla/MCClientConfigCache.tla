------------------------ MODULE MCClientConfigCache ------------------------
(* Two callers with two buckets; one can be moved, removed or misconfigured. *)
EXTENDS ClientConfigCache, TLC

Of(u, b) == [id |-> u, bucket |-> b]

(* The first caller's file is one that was edited by hand and holds the other *)
(* caller's id, or is doubled, so that the environment's config counts; the  *)
(* second caller's file is broken and put right.                             *)
MCDeployable ==
  [u \in Users |->
     CASE u = "app"   -> {<<Of("other", "b1")>>, <<Of("app", "b1"), Of("app", "b2")>>}
       [] u = "other" -> {<<Of("other", "b2")>>, <<Broken>>}
       [] OTHER       -> {<<>>}]

MCEnvConfig == Of("app", "b3")

(* The caller that is reconfigured, alone. *)
MCOnlyApp == [u \in Users |-> {<<Of("app", "b1")>>, <<Of("app", "b2")>>, <<>>}]

Symmetry == Permutations(Requests) \cup Permutations(Replicas)

=============================================================================
