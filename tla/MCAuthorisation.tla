-------------------------- MODULE MCAuthorisation --------------------------
(* A file of routes and a file of a client, either of which may hold both    *)
(* rules, one, a line that cannot be decoded, or be missing.                 *)
EXTENDS Authorisation

MCRules == {"route", "delete"}
MCDeployable ==
  [f \in Files |->
     IF f = "routes" THEN {<<"route">>, <<Garbled, "route">>, <<"delete", "route">>}
                     ELSE {<<"delete">>, <<"route", Garbled>>, Absent}]

=============================================================================
