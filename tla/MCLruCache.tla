----------------------------- MODULE MCLruCache -----------------------------
(***************************************************************************)
(* LruCache on a few keys, with its history variable.                      *)
(***************************************************************************)
EXTENDS LruHistory

CONSTANTS short, long

\* Sizes that differ, so that an overwrite changes the byte count.
MCKeySize == [k \in Keys |-> 1]
MCValueSize == (short :> 1) @@ (long :> 3)
MCTtls == {0, 1}
=============================================================================
