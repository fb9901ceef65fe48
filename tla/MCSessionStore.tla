--------------------------- MODULE MCSessionStore ---------------------------
(* Instances of SessionStore for TLC: two messages and a /new, of a session*)
(* with up to two earlier turns.                                           *)
EXTENDS SessionStore, TLC

CONSTANTS a, b, n, p, q, MaxTrouble

MCPast == <<p, q>>
Symmetry == Permutations({a, b})

(* Bound: how many kinds of trouble one behaviour has.                     *)
FewTroubles == Cardinality(trouble) <= MaxTrouble
=============================================================================
