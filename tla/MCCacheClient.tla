--------------------------- MODULE MCCacheClient ---------------------------
(***************************************************************************)
(* CacheClient with a few calls on two keys.                               *)
(***************************************************************************)
EXTENDS CacheClient

CONSTANTS k1, k2, v1, v2

Set(k, v) == [cmd |-> "set", key |-> k, value |-> v]
Get(k) == [cmd |-> "get", key |-> k]
Del(k) == [cmd |-> "del", key |-> k]
Listing == [cmd |-> "keys"]
Stats == [cmd |-> "stats"]

\* Two keys make a listing of two lines, the second of which may be too long.
MCMenu == {Set(k1, v1), Set(k2, v2), Get(k1), Listing}

\* For the questions about single calls.
MCShortMenu == {Set(k1, v1), Get(k1), Del(k1), Listing, Stats}
=============================================================================
