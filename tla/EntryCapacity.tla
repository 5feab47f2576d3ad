--------------------------- MODULE EntryCapacity ---------------------------
(***************************************************************************)
(* Local admission of entries against what the broker allows: the number   *)
(* of pending orders, the aggregate quantity of a symbol and the margin    *)
(* (the capacity ledgers of src/core/broker/command_worker/account_lane.rs *)
(* and the first poll in command_worker.rs), judged from snapshots that    *)
(* independent pollers take for each strategy                              *)
(* (src/core/broker/snapshots.rs, snapshots/worker.rs).                    *)
(*                                                                         *)
(* The lane serialises mutations of one account, so one command at a time  *)
(* is between reserve_entry and finish_entry; a command whose answer is    *)
(* lost stays uncertain and may still be executed later.  `now` stands for *)
(* Instant::now(): any number of steps may share an instant.  All orders   *)
(* are of one symbol, and they are the only ones of the account.           *)
(***************************************************************************)
EXTENDS Integers, Sequences, FiniteSets, FiniteSetsExt, Functions

CONSTANTS
    Submits,          \* entry commands
    None,             \* no command
    Margin,           \* the authoritative margin estimate of each command
    MaxReservations,  \* MAX_CAPACITY_RESERVATIONS
    Settings,         \* the accounts and venues the ledgers are checked against
    MaxTime           \* bound on the clock

LimitKinds == {"orders", "symbol", "margin"}
Sources == {"orders", "positions", "account"}
OrderMoves == {"partial fill", "fill", "cancel", "cancel rest", "close"}

ASSUME CapacityAssumption ==
    /\ IsFiniteSet(Submits) /\ None \notin Submits
    /\ Margin \in [Submits -> Nat]
    /\ {MaxReservations, MaxTime} \subseteq Nat
    /\ \A s \in Settings :
          /\ DOMAIN s.owner = Submits
          /\ s.quantity \in [Submits -> Nat \ {0}]
          /\ s.limits \subseteq LimitKinds /\ s.moves \subseteq OrderMoves
          /\ {s.maxOrders, s.maxQuantity, s.buyingPower} \subseteq Nat

VARIABLES
    setting,    \* the one in force, which nothing changes
    now,        \* the monotonic clock
    order,      \* order[c]: what the broker has made of c
    wire,       \* wire[c]: whether a transmission of c can still be acted on
    poll,       \* poll[s][source]: the poller's request, its answer once read
    snap,       \* snap[s][source]: the cached snapshot
    ledger,     \* ledger[kind]: PendingCapacity, SymbolCapacity, MarginCapacity
    holder,     \* the command between its reservation and its completion
    outcome     \* outcome[c]: what the journal holds

vars == <<setting, now, order, wire, poll, snap, ledger, holder, outcome>>

Limits == setting.limits            \* the limits in force
MaxOrders == setting.maxOrders      \* account.max_total_orders
MaxQuantity == setting.maxQuantity  \* dispatch_constraints.max_total_symbol_quantity
BuyingPower == setting.buyingPower  \* the account's funds before any order
Owner == setting.owner              \* the strategy of each command
Strategies == Range(Owner)          \* each has a snapshot cache of its own
Quantity == setting.quantity        \* the quantity each command asks for
Moves == setting.moves              \* what may happen to orders at the venue

-----------------------------------------------------------------------------
(***************************************************************************)
(* The broker's books.  An order is active until it is completely filled   *)
(* or ended; its filled part is an open position until that is closed.     *)
(***************************************************************************)
Unknown == [status |-> "none", filled |-> 0]
Active == {c \in Submits : order[c].status = "active"}
Live == {c \in Submits : order[c].status \in {"active", "open"}}
Exposure ==
    SumFunctionOnSet([c \in Submits |-> IF c \in Active THEN Quantity[c] ELSE order[c].filled],
                     Live)

\* What a read of each source returns: the active orders with their filled
\* quantities, the open quantities, the buying power that is left.
Answer(source) ==
    CASE source = "orders"    -> [c \in Active |-> order[c].filled]
      [] source = "positions" -> [c \in Submits |-> order[c].filled]
      [] source = "account"   -> BuyingPower - SumFunctionOnSet(Margin, Live)

Snapshot(at, value) == [at |-> at, value |-> value]
Idle == Snapshot(0, {})

(***************************************************************************)
(* A ledger: the newest observation, the commands that reserve capacity    *)
(* until there is proof, and the completion watermarks in their order.     *)
(***************************************************************************)
EmptyLedger == [at |-> 0, value |-> 0, awaiting |-> {}, completed |-> <<>>]
Confirmed(l) == {l.completed[i].id : i \in DOMAIN l.completed}
Held(l) == l.awaiting \union Confirmed(l)

\* PendingCapacity and MarginCapacity pop watermarks older than the observation
\* from the front; SymbolCapacity filters them.
RetireFront(completed, at) ==
    LET n == Max({0} \union {i \in DOMAIN completed : \A j \in 1..i : completed[j].at < at})
    IN  SubSeq(completed, n + 1, Len(completed))
RetireAll(completed, at) ==
    LET kept[n \in 0..Len(completed)] ==
            IF n = 0 THEN <<>>
            ELSE IF completed[n].at >= at THEN Append(kept[n - 1], completed[n])
            ELSE kept[n - 1]
    IN  kept[Len(completed)]

\* observe: only a newer observation replaces the value and retires watermarks.
Observe(kind, l, value, at) ==
    IF at > l.at
    THEN [l EXCEPT !.at = at, !.value = value,
                   !.completed = IF kind = "symbol" THEN RetireAll(@, at) ELSE RetireFront(@, at)]
    ELSE l

Amount(kind) ==
    CASE kind = "orders" -> [c \in Submits |-> 1]
      [] kind = "symbol" -> Quantity
      [] kind = "margin" -> Margin

\* Variant of Available with a mistake: the margin of reservations is not held.
AvailableUnheld(kind, l, c) ==
    LET reserved == SumFunctionOnSet(Amount(kind), Held(l)) + Amount(kind)[c] IN
    /\ c \notin Held(l)
    /\ Cardinality(Held(l)) < MaxReservations
    /\ CASE kind = "orders" -> l.value + reserved <= MaxOrders
         [] kind = "symbol" -> l.value + reserved <= MaxQuantity
         [] kind = "margin" -> Margin[c] <= l.value

\* available: the observed use (for margin, the observed buying power), what is
\* reserved and the request fit together.
Available(kind, l, c) ==
    LET reserved == SumFunctionOnSet(Amount(kind), Held(l)) + Amount(kind)[c] IN
    /\ c \notin Held(l)
    /\ Cardinality(Held(l)) < MaxReservations
    /\ CASE kind = "orders" -> l.value + reserved <= MaxOrders
         [] kind = "symbol" -> l.value + reserved <= MaxQuantity
         [] kind = "margin" -> reserved <= l.value

Insert(l, c) == [l EXCEPT !.awaiting = @ \union {c}]

\* finish: a refusal frees the capacity, an order keeps it until a snapshot
\* requested later, an uncertain answer keeps it.
Settled(l, c, result) ==
    IF c \notin l.awaiting \/ result = "ambiguous" THEN l
    ELSE IF result = "declined" THEN [l EXCEPT !.awaiting = @ \ {c}]
    ELSE [l EXCEPT !.awaiting = @ \ {c}, !.completed = Append(@, [id |-> c, at |-> now])]

Init ==
    /\ setting \in Settings
    /\ now = 1
    /\ order = [c \in Submits |-> Unknown]
    /\ wire = [c \in Submits |-> "none"]
    /\ poll = [s \in Strategies |-> [source \in Sources |-> [phase |-> "idle", got |-> Idle]]]
    /\ snap = [s \in Strategies |-> [source \in Sources |-> Idle]]
    /\ ledger = [kind \in Limits |-> EmptyLedger]
    /\ holder = None
    /\ outcome = [c \in Submits |-> "none"]

-----------------------------------------------------------------------------
(***************************************************************************)
(* The pollers.  A snapshot carries the instant its request was sent; the  *)
(* broker answers from its books at some later moment, and the answer is   *)
(* published later still, or not at all.                                   *)
(***************************************************************************)
PollRequest(s, source) ==
    /\ poll[s][source].phase = "idle"
    /\ poll' = [poll EXCEPT ![s][source] = [phase |-> "asked", got |-> Snapshot(now, {})]]
    /\ UNCHANGED <<now, order, wire, snap, ledger, holder, outcome>>

PollAnswer(s, source) ==
    /\ poll[s][source].phase = "asked"
    /\ poll' = [poll EXCEPT ![s][source] =
                   [phase |-> "read", got |-> Snapshot(@.got.at, Answer(source))]]
    /\ UNCHANGED <<now, order, wire, snap, ledger, holder, outcome>>

\* publish_orders, publish_positions, publish_account
Publish(s, source) ==
    /\ poll[s][source].phase = "read"
    /\ snap' = [snap EXCEPT ![s][source] = poll[s][source].got]
    /\ poll' = [poll EXCEPT ![s][source] = [phase |-> "idle", got |-> Idle]]
    /\ UNCHANGED <<now, order, wire, ledger, holder, outcome>>

\* The request times out or fails.
PollFails(s, source) ==
    /\ poll[s][source].phase # "idle"
    /\ poll' = [poll EXCEPT ![s][source] = [phase |-> "idle", got |-> Idle]]
    /\ UNCHANGED <<now, order, wire, snap, ledger, holder, outcome>>

\* The strategy's cache is emptied (BrokerSnapshotCache::invalidate); answers to
\* requests made before are refused by the generation check.
Invalidate(s) ==
    /\ snap' = [snap EXCEPT ![s] = [source \in Sources |-> Idle]]
    /\ poll' = [poll EXCEPT ![s] = [source \in Sources |-> [phase |-> "idle", got |-> Idle]]]
    /\ UNCHANGED <<now, order, wire, ledger, holder, outcome>>

(***************************************************************************)
(* Admission of an entry at its first poll.                                *)
(***************************************************************************)
Needs(kind) ==
    CASE kind = "orders" -> {"orders"}
      [] kind = "symbol" -> {"orders", "positions"}
      [] kind = "margin" -> {"account"}

\* The other sources are polled too, but nothing here reads them.
Polled == UNION {Needs(kind) : kind \in Limits}

\* Variant of ActiveQuantity with a mistake: only what is still unfilled counts.
RemainingQuantity(orders) ==
    SumFunctionOnSet(Quantity, DOMAIN orders) - SumFunctionOnSet(orders, DOMAIN orders)

\* order_capacity: the complete quantity of every active order.
ActiveQuantity(orders) == SumFunctionOnSet(Quantity, DOMAIN orders)

\* Variant of Observed with a mistake: only the strategy's own orders count.
ObservedOwn(s, kind) ==
    LET seen == snap[s] IN
    CASE kind = "orders" ->
            Snapshot(seen["orders"].at,
                     Cardinality({c \in DOMAIN seen["orders"].value : Owner[c] = s}))
      [] kind = "symbol" ->
            Snapshot(Min({seen["orders"].at, seen["positions"].at}),
                     ActiveQuantity(seen["orders"].value)
                         + SumFunctionOnSet(seen["positions"].value, Submits))
      [] kind = "margin" -> seen["account"]

\* with_fresh_entry_capacity: the value and the instant handed to the ledger.
Observed(s, kind) ==
    LET seen == snap[s] IN
    CASE kind = "orders" -> Snapshot(seen["orders"].at, Cardinality(DOMAIN seen["orders"].value))
      [] kind = "symbol" ->
            Snapshot(Min({seen["orders"].at, seen["positions"].at}),
                     ActiveQuantity(seen["orders"].value)
                         + SumFunctionOnSet(seen["positions"].value, Submits))
      [] kind = "margin" -> seen["account"]

\* Variant of ReserveEntry with a mistake: the limits that do admit the entry
\* reserve it although another one refuses.
ReserveSomeEntry(c) ==
    LET s == Owner[c]
        seen == [kind \in Limits |->
                    Observe(kind, ledger[kind], Observed(s, kind).value, Observed(s, kind).at)]
        fits == {kind \in Limits : Available(kind, seen[kind], c)}
    IN  /\ holder = None /\ outcome[c] = "none"
        /\ \A kind \in Limits : \A source \in Needs(kind) : snap[s][source].at > 0
        /\ ledger' = [kind \in Limits |-> IF kind \in fits THEN Insert(seen[kind], c) ELSE seen[kind]]
        /\ IF fits = Limits
           THEN holder' = c /\ wire' = [wire EXCEPT ![c] = "flying"] /\ UNCHANGED outcome
           ELSE outcome' = [outcome EXCEPT ![c] = "declined"] /\ UNCHANGED <<holder, wire>>
        /\ UNCHANGED <<now, order, poll, snap>>

\* reserve_entry under the lane's permit, then the transport is started; an
\* entry that does not fit any one limit is declined and reserves nothing.
ReserveEntry(c) ==
    LET s == Owner[c]
        seen == [kind \in Limits |->
                    Observe(kind, ledger[kind], Observed(s, kind).value, Observed(s, kind).at)]
    IN  /\ holder = None /\ outcome[c] = "none"
        /\ \A kind \in Limits : \A source \in Needs(kind) : snap[s][source].at > 0
        /\ IF \A kind \in Limits : Available(kind, seen[kind], c)
           THEN /\ ledger' = [kind \in Limits |-> Insert(seen[kind], c)]
                /\ holder' = c /\ wire' = [wire EXCEPT ![c] = "flying"] /\ UNCHANGED outcome
           ELSE /\ ledger' = seen
                /\ outcome' = [outcome EXCEPT ![c] = "declined"] /\ UNCHANGED <<holder, wire>>
        /\ UNCHANGED <<now, order, poll, snap>>

\* finish_entry with the broker's answer, or with none in time.
FinishEntry(result) ==
    /\ holder # None
    /\ \/ result = "ambiguous"
       \/ result = "order" /\ wire[holder] = "done"
       \/ result = "declined" /\ wire[holder] = "refused"
    /\ ledger' = [kind \in Limits |-> Settled(ledger[kind], holder, result)]
    /\ outcome' = [outcome EXCEPT ![holder] = result]
    /\ holder' = None
    /\ UNCHANGED <<now, order, wire, poll, snap>>

\* settle_entry: the reconciliation timer confirms an uncertain submission; it
\* does not hold the permit.
SettleEntry(c) ==
    /\ outcome[c] = "ambiguous" /\ order[c] # Unknown
    /\ ledger' = [kind \in Limits |-> Settled(ledger[kind], c, "order")]
    /\ outcome' = [outcome EXCEPT ![c] = "order"]
    /\ UNCHANGED <<now, order, wire, poll, snap, holder>>

(***************************************************************************)
(* The broker, and time.                                                   *)
(***************************************************************************)
BrokerExecutes(c) ==
    /\ wire[c] = "flying"
    /\ wire' = [wire EXCEPT ![c] = "done"]
    /\ order' = [order EXCEPT ![c] = [status |-> "active", filled |-> 0]]
    /\ UNCHANGED <<now, poll, snap, ledger, holder, outcome>>
BrokerRefuses(c) ==
    /\ wire[c] = "flying"
    /\ wire' = [wire EXCEPT ![c] = "refused"]
    /\ UNCHANGED <<now, order, poll, snap, ledger, holder, outcome>>
BrokerMoves(c, move) ==
    /\ LET o == order[c] IN
       order' = [order EXCEPT ![c] =
           CASE move = "partial fill" -> [o EXCEPT !.filled = @ + 1]
             [] move = "fill"         -> [status |-> "open", filled |-> Quantity[c]]
             [] move = "cancel rest"  -> [o EXCEPT !.status = "open"]
             [] OTHER                 -> [status |-> "ended", filled |-> 0]]
    /\ CASE move = "partial fill" -> c \in Active /\ order[c].filled + 1 < Quantity[c]
         [] move = "fill"         -> c \in Active
         [] move = "cancel"       -> c \in Active /\ order[c].filled = 0
         [] move = "cancel rest"  -> c \in Active /\ order[c].filled > 0
         [] move = "close"        -> order[c].status = "open"
    /\ UNCHANGED <<now, wire, poll, snap, ledger, holder, outcome>>

Tick ==
    /\ now < MaxTime
    /\ now' = now + 1
    /\ UNCHANGED <<order, wire, poll, snap, ledger, holder, outcome>>

Next ==
    /\ \/ \E s \in Strategies :
             \/ Invalidate(s)
             \/ \E source \in Polled :
                   PollRequest(s, source) \/ PollAnswer(s, source) \/ Publish(s, source)
                   \/ PollFails(s, source)
       \/ \E c \in Submits :
             \/ ReserveEntry(c) \/ SettleEntry(c)
             \/ BrokerExecutes(c) \/ BrokerRefuses(c)
             \/ \E move \in Moves : BrokerMoves(c, move)
       \/ \E result \in {"order", "declined", "ambiguous"} : FinishEntry(result)
       \/ Tick
    /\ UNCHANGED setting

Spec == Init /\ [][Next]_vars

-----------------------------------------------------------------------------
\* The account never has more pending orders than max_total_orders allows,
\* although snapshots are old, belong to different strategies, are answered out
\* of step with the orders, and answers to submissions get lost.
OrdersWithinLimit == "orders" \in Limits => Cardinality(Active) <= MaxOrders

\* The margin of the live orders never exceeds the account's funds.
MarginWithinFunds == "margin" \in Limits => SumFunctionOnSet(Margin, Live) <= BuyingPower

\* The quantity of the symbol, pending and open, stays within the limit.
ExposureWithinLimit == "symbol" \in Limits => Exposure <= MaxQuantity

\* Capacity is reserved for exactly the submissions in flight or uncertain, in
\* every ledger or in none: a refused combined admission leaves nothing behind,
\* and no snapshot, however new, frees an uncertain send.
UncertainStaysReserved ==
    \A kind \in Limits :
        ledger[kind].awaiting = {c \in Submits : c = holder \/ outcome[c] = "ambiguous"}
=============================================================================
