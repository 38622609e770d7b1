-------------------------- MODULE MCSessionArchive --------------------------
EXTENDS SessionArchive, TLC

CONSTANTS root, kid, grandkid

(* A child; and a child with a child of its own.                           *)
Pair      == [c \in {kid} |-> root]
Lineage   == [c \in {kid, grandkid} |-> IF c = kid THEN root ELSE kid]

Symmetry == Permutations(Processes)
=============================================================================
