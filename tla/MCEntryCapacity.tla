-------------------------- MODULE MCEntryCapacity --------------------------
(***************************************************************************)
(* Small instances of EntryCapacity.  Every setting makes one or two of    *)
(* the three limits tight for the two commands.                            *)
(***************************************************************************)
EXTENDS EntryCapacity, TLC

CONSTANTS a, b, x, y

\* One strategy, or a second one that owns the last command.
OneOwner == [e \in Submits |-> x]
TwoOwners == [e \in Submits |-> IF e = b THEN y ELSE x]
Ones == [e \in Submits |-> 1]
Twos == [e \in Submits |-> 2]

\* Two strategies, room for one order, or funds for one order.
TightOrders ==
    [limits |-> {"orders"}, maxOrders |-> 1, maxQuantity |-> 2, buyingPower |-> 2,
     owner |-> TwoOwners, quantity |-> Ones, moves |-> {"fill", "cancel"}]
TightMargin ==
    [limits |-> {"margin"}, maxOrders |-> 2, maxQuantity |-> 2, buyingPower |-> 1,
     owner |-> TwoOwners, quantity |-> Twos, moves |-> OrderMoves]
\* One strategy, room for an order and a half, no order fills completely.
TightSymbol ==
    [limits |-> {"orders", "symbol"}, maxOrders |-> 2, maxQuantity |-> 3, buyingPower |-> 2,
     owner |-> OneOwner, quantity |-> Twos, moves |-> {"partial fill", "cancel"}]
EveryLimit == {TightOrders, TightMargin, TightSymbol}

\* One strategy, room for one order of the symbol, orders fill completely.
CompleteFills ==
    {[limits |-> {"symbol"}, maxOrders |-> 2, maxQuantity |-> 1, buyingPower |-> 2,
      owner |-> OneOwner, quantity |-> Ones, moves |-> {"fill"}]}
=============================================================================
