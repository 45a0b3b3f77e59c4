------------------------------ MODULE MCBuffer ------------------------------
(* Instances of Buffer small enough for TLC. *)
EXTENDS Buffer, TLC

CONSTANTS a, b

\* 0 is what vector::resize fills with.
MCBytes == {0, a, b}
MCChunksTwo == {<<>>, <<a>>, <<a, b>>}
MCChunks == {<<>>, <<a>>, <<b>>, <<a, b>>, <<a, b, a>>}

\* No property names a particular buffer.
MCSymmetry == Permutations(Buffers)

=============================================================================
