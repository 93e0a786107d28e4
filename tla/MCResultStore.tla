---------------------------- MODULE MCResultStore ----------------------------
(***************************************************************************)
(* A store of two entries and four bytes.  Any two of a, b and d fit, all  *)
(* three exceed the entry limit only, b and big exceed the byte limit      *)
(* only, empty and huge are refused, and twin has the address of a, so the *)
(* collision branch is reached.                                            *)
(***************************************************************************)
EXTENDS ResultStore

CONSTANTS a, b, d, big, twin, empty, huge, ida, idb, idd, idbig, idother

MCContents == {a, b, d, big, twin, empty, huge}
MCIds == {ida, idb, idd, idbig, idother}
MCDigest == [c \in MCContents |-> CASE c \in {a, twin} -> ida
                                    [] c = b -> idb
                                    [] c = d -> idd
                                    [] c = big -> idbig
                                    [] OTHER -> idother]
MCSize == [c \in MCContents |-> CASE c \in {a, d, twin} -> 1
                                  [] c = b -> 2
                                  [] c = big -> 3
                                  [] c = empty -> 0
                                  [] OTHER -> 5]
MCTicks == 0 .. 2
MCPayloads == {<<>>, <<a, b>>, <<a, twin>>, <<b, empty>>, <<big, b>>, <<b, a, big>>, <<a, b, d>>}
=============================================================================
