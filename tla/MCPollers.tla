------------------------------ MODULE MCPollers ------------------------------
(* Instances of Pollers for TLC. *)
EXTENDS Pollers, TLC

\* No property names a particular channel.
MCSymmetry == Permutations(Channels)

=============================================================================
