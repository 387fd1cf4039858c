---------------------------- MODULE MCEventLoop ----------------------------
(* Nothing stored at first. *)
EXTENDS EventLoop

SeedEmpty == <<>>
=============================================================================
