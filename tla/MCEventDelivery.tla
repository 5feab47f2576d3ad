-------------------------- MODULE MCEventDelivery --------------------------
(***************************************************************************)
(* Small instances of EventDelivery.                                       *)
(***************************************************************************)
EXTENDS EventDelivery, TLC

CONSTANTS e1, e2, e3

\* Events published independently of each other, or one after the other.
AnyOrder == [e \in Events |-> {}]
InOrder == (e1 :> {}) @@ (e2 :> {e1}) @@ (e3 :> {e2})

\* A behaviour with every publish call has no crash and no fault, the others
\* may have one of each.
Budget == offers = MaxOffers => crashes + faults = 0

\* Events the cloud treats alike, and the contents, are interchangeable.
Symmetry == Permutations(Events \ Poison) \cup Permutations(Bodies)
=============================================================================
