------------------------------ MODULE Cutover ------------------------------
(***************************************************************************)
(* What indexing promises to questions.  They read one generation.  It is  *)
(* replaced in a single step by one that has just been finished and that   *)
(* questions never read before; a generation that was replaced is never    *)
(* read again, since no generation is built twice; a build that ends       *)
(* without finishing changes nothing they see.                             *)
(***************************************************************************)
CONSTANTS Generations, Nothing

VARIABLES
    reading,    \* the generation questions read
    building,   \* the generations that may still be finished
    begun       \* every generation a build was ever begun for

abstractVars == <<reading, building, begun>>

CutoverInit ==
    /\ reading = Nothing
    /\ building = {}
    /\ begun = {}

Begin(g) ==
    /\ g \notin begun
    /\ begun' = begun \cup {g}
    /\ building' = building \cup {g}
    /\ UNCHANGED reading

\* Builds are given up one or, by a reset, many at a time.
GiveUp(S) ==
    /\ building' = building \ S
    /\ UNCHANGED <<reading, begun>>

CutOver(g) ==
    /\ g \in building
    /\ reading' = g
    /\ building' = building \ {g}
    /\ UNCHANGED begun

CutoverNext ==
    \/ \E g \in Generations : Begin(g) \/ CutOver(g)
    \/ \E S \in SUBSET building : GiveUp(S)

CutoverSpec == CutoverInit /\ [][CutoverNext]_abstractVars
=============================================================================
