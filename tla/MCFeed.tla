------------------------------- MODULE MCFeed -------------------------------
(* Instances of Feed for TLC, on the names of MCRegistry. *)
EXTENDS Feed, MCRegistry

=============================================================================
