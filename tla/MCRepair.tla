------------------------------ MODULE MCRepair ------------------------------
(***************************************************************************)
(* Three contents, two of which have the same identity, so that a digest   *)
(* can match although the bytes differ.                                    *)
(***************************************************************************)
EXTENDS Repair, TLC

CONSTANTS old, new, lookalike

MCBytes == {old, new, lookalike}
MCIdentity == [b \in MCBytes \cup {Absent, Link} |-> CASE b = Absent -> 0
                                                 [] b = new -> 2
                                                 [] OTHER -> 1]
Interchangeable == Permutations(Attempts)
=============================================================================
