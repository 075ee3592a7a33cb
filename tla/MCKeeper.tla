------------------------------ MODULE MCKeeper ------------------------------
(* Instances of Keeper for TLC.  Names are interchangeable. *)
EXTENDS Keeper

T == INSTANCE TLC

Symmetry == T!Permutations(Names)

=============================================================================
