------------------------------ MODULE MCServer ------------------------------
(***************************************************************************)
(* Server for TLC: both clients use one key; the first, who may ask again, *)
(* wants content x.                                                        *)
(***************************************************************************)
EXTENDS Server

CONSTANTS c1, k, x

OneKey == {w \in [Client -> [key: Key, content: Content]] : w[c1] = [key |-> k, content |-> x]}
OneRetry == [c \in Client |-> IF c = c1 THEN 2 ELSE 1]
=============================================================================
