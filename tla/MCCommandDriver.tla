--------------------------- MODULE MCCommandDriver ---------------------------
(***************************************************************************)
(* Instances of CommandDriver: an insight p and its split child k, each    *)
(* with a submission and a cleanup command, and a spare submission that an *)
(* insight entering twice would use.                                       *)
(***************************************************************************)
EXTENDS CommandDriver

CONSTANTS p, k, sp, sp2, xp, sk, sk2, xk

ParentAndChild == [i \in Insights |-> IF i = k THEN p ELSE None]
TheCommands == {sp, sp2, xp, sk, sk2, xk}
TheOwner == [c \in TheCommands |-> IF c \in {sp, sp2, xp} THEN p ELSE k]
TheKind == [c \in TheCommands |-> IF c \in {xp, xk} THEN "cancel" ELSE "submit"]

Instance(insights, budgets, nCrashes, nSurprises, kinds, stream, stops) ==
    [insights |-> insights, budgets |-> budgets, crashes |-> nCrashes,
     surprises |-> nSurprises, kinds |-> kinds, stream |-> stream, stops |-> stops]

\* One insight, with everything that can happen to it once: a crash, a surprise,
\* acceptances in the stream, a stop.  A turn either finishes its walk, or suspends it
\* between the template of the child and p, where the commit of that row may fail.
Alone == Instance({p}, {3, 9}, 1, 1, Surprising, TRUE, TRUE)
\* The pair in turns short enough to suspend a walk between child and parent,
\* across a crash, and across a stop.
PairCrashing == Instance({p, k}, {3}, 1, 0, {}, FALSE, FALSE)
PairStopping == Instance({p, k}, {3}, 0, 0, {}, FALSE, TRUE)
\* The pair in turns that suspend a walk on its way to the child, across a crash, with
\* an order that ends: its insight may be pruned before the walk comes to it.
PairPruning == Instance({p, k}, {2}, 1, 1, {"end"}, FALSE, FALSE)
DriverSettings == {Alone, PairCrashing, PairStopping, PairPruning}

\* The pair in such turns, or in turns that finish their walks, whatever surprises.
WalkSettings == {Instance({p, k}, {2, 9}, 0, 1, Surprising, FALSE, FALSE)}
=============================================================================
