----------------------------- MODULE MCKVStore -----------------------------
(* KVStore on two keys of different sizes and half-second clock ticks. *)
EXTENDS KVStore

CONSTANTS k1, k2

MCKeySize == (k1 :> 1) @@ (k2 :> 2)
MCValueSize == [v \in Values |-> 1]
MCTtls == {1}
=============================================================================
