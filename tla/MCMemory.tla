------------------------------- MODULE MCMemory -------------------------------
(* Instances of the two stores of what the agent remembers, in one run: the *)
(* first state says which of them moves, and the other rests in an initial  *)
(* state.  The conversation of LCM has two messages and a /new of a session *)
(* that may have one turn from before LCM was switched on; the curated      *)
(* memory has two calls of the tool, a pass of the maintainer and an audit, *)
(* over entries of which two have the same fold, and a text that is read as *)
(* two of them.                                                             *)
EXTENDS CuratedMemory, FiniteSets, TLC

CONSTANTS
    c1, c2, v1, a1, tx, TX, ty, txy,
    msgA, msgB, slashNew, oldTurn, Runs, News, Past, FreshTail, LeafMinFanout, CondensedMinFanout,
    IncrementalMaxDepth, MaxTrouble

VARIABLES
    part,
    session, diary, conv, ids, run, mishaps

Lcm == INSTANCE LcmStore WITH file <- diary, trouble <- mishaps

lcmVars == <<session, diary, conv, ids, run, mishaps>>

ASSUME MemoryAssumption == Lcm!LcmAssumption

MCFold == (tx :> "x") @@ (TX :> "x") @@ (ty :> "y") @@ (txy :> "x y")
MCParts == [t \in {tx, TX, ty} |-> <<t>>] @@ (txy :> <<tx, ty>>)
MCPast == <<oldTurn, oldTurn>>
MCOlds == {{"x"}, {"x", "y"}}
MCOriginals == {<<>>, <<tx, ty, tx>>}

MCInit ==
    /\ part \in {"lcm", "curated"}
    /\ Init /\ Lcm!Init
    /\ part # "lcm" => session = <<>>
    /\ part # "curated" => file = <<>>

MCNext ==
    /\ UNCHANGED part
    /\ \/ part = "curated" /\ Next /\ UNCHANGED lcmVars
       \/ part = "lcm" /\ Lcm!Next /\ UNCHANGED vars

MCSpec == MCInit /\ [][MCNext]_<<part, vars, lcmVars>>

(* Bound: how many kinds of trouble one behaviour has.                      *)
FewTroubles ==
    Cardinality(mishaps) <= MaxTrouble /\ Cardinality(trouble) <= MaxTrouble

Symmetry == Permutations({c1, c2})

LcmTypeOK == Lcm!TypeOK
ContextInOrder == Lcm!ContextInOrder
NothingDropped == Lcm!NothingDropped
PromptIsSession == Lcm!PromptIsSession
FreshTailKept == Lcm!FreshTailKept
=============================================================================
