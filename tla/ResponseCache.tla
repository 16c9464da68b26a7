---------------------------- MODULE ResponseCache ---------------------------
(***************************************************************************)
(* What resp_cache is to its users: a map from keys to the response stored *)
(* last.  Storing is all that ever changes it.                             *)
(***************************************************************************)
CONSTANTS Keys, Values, NoEntry

VARIABLE cache

Init == cache = [k \in Keys |-> NoEntry]

Store(k, v) == cache' = [cache EXCEPT ![k] = v]

Next == \E k \in Keys, v \in Values : Store(k, v)

Spec == Init /\ [][Next]_cache
=============================================================================
