----------------------------- MODULE OrderReducer -----------------------------
(***************************************************************************)
(* One insight, the order it placed and the evidence about that order.      *)
(*                                                                          *)
(* The strategy learns what happened at the venue from four places that are *)
(* not ordered with respect to each other: the venue's own events (native), *)
(* the events the broker adapter makes out of an RPC answer (local), the    *)
(* answer to the submission, and the venue's history, read again and again  *)
(* while the insight is active.  Each of them may be late; stream events    *)
(* may be lost (a full queue drops its oldest event, a terminal may be      *)
(* disconnected) and delivered again (a new session has new event keys).    *)
(* All of them pass through reduce_broker_order, modelled by Reduce.        *)
(*                                                                          *)
(* Prices, commissions and the correction of a closed trade's economics are *)
(* left out.  Every event carries the identity of the insight, as both      *)
(* adapters of the repository send it, so the entry-order test of the code  *)
(* (the alias rule) holds in the states in which it is asked.               *)
(***************************************************************************)
EXTENDS Integers, Sequences, FiniteSets, Functions

CONSTANTS
    Quantity,       \* the quantity of the entry
    Exits,          \* identities of orders that reduce the position
    Settings        \* the adapters and faults the reducer is checked with

Adapters == {"stream", "mt5"}

ASSUME ReducerAssumption ==
    /\ Quantity \in Nat \ {0}
    /\ IsFiniteSet(Exits) /\ "entry" \notin Exits
    /\ \A s \in Settings :
          /\ s.adapter \in Adapters /\ s.exits \subseteq Exits
          /\ {s.partialEntries, s.partialExits} \subseteq BOOLEAN
          /\ {s.maxLost, s.maxRepeats} \subseteq Nat

VARIABLES
    setting,        \* the one in force, which nothing changes
    insight,        \* what the strategy believes
    venue,          \* what is true: the order and the position
    native,         \* events of the venue on their way to the strategy
    local,          \* events the adapter made from RPC answers
    sent,           \* native events sent so far, for redelivery
    answer,         \* the answer to the submission
    history,        \* the single history read in flight
    asked,          \* cancel and close commands without an answer yet
    lost,
    repeats

vars == <<setting, insight, venue, native, local, sent, answer, history, asked, lost, repeats>>

\* "stream": cumulative reports in one queue, as the paper broker sends them;
\* "mt5": the bridge and its terminal.
Adapter == setting.adapter
PartialEntries == setting.partialEntries  \* whether an entry may fill in parts
PartialExits == setting.partialExits      \* whether a position may be reduced in parts
MaxLost == setting.maxLost                \* bound on lost stream events
MaxRepeats == setting.maxRepeats          \* bound on redelivered stream events

-----------------------------------------------------------------------------
\* Events.  An event is about the entry order or about an order of the other
\* side; qty is Order.filled_qty, and Order.qty in a Replaced event.

Kinds == {"Accepted", "Filled", "PartialFilled", "Cancelled", "Rejected", "Replaced", "Closed"}
Event(kind, order, qty) == [kind |-> kind, order |-> order, qty |-> qty]
EntrySide(e) == e.order = "entry"

InsightStates == {"New", "Executed", "Filled", "Cancelled", "Rejected", "Closed"}
Inactive == {"Cancelled", "Rejected", "Closed"}

\* What is open at the venue.
Position == venue.filled - SumFunctionOnSet(venue.exited, Exits)
EntryOver == venue.entry \in {"filled", "cancelled", "rejected"}
Flat == EntryOver /\ Position = 0

-----------------------------------------------------------------------------
\* The insight's own transitions.

\* update_state, with the Filled guard it applies to every caller.  The mutant
\* leaves the flags of a trade that ended as they are.
UpdateStateKeepsFlags(i, s) ==
    IF i.state = "Filled" /\ s \in {"Cancelled", "Rejected"} THEN i ELSE [i EXCEPT !.state = s]

UpdateState(i, s) ==
    IF i.state = "Filled" /\ s \in {"Cancelled", "Rejected"}
    THEN i
    ELSE [i EXCEPT !.state = s,
                   !.cancelling = @ /\ s \notin Inactive \cup {"Filled"},
                   !.closing = @ /\ s \notin Inactive]

\* remaining_quantity
Remaining(i) ==
    LET whole == IF i.state \in {"Filled", "Closed"} /\ i.filled > 0 THEN i.filled ELSE i.quantity
        rest == whole - SumFunctionOnSet(i.closes, Exits)
    IN  IF rest > 0 THEN rest ELSE 0

OrderAccepted(i) == UpdateState([i EXCEPT !.known = TRUE], "Executed")

\* filled_at is the time of the reduction; the only thing the model keeps of it
\* is whether the position had been closed at the venue by then.
PositionFilled(i, qty) ==
    UpdateState([i EXCEPT !.known = TRUE, !.filled = qty, !.filledLate = Flat], "Filled")

PartialEntry(i, qty) == UpdateState([i EXCEPT !.known = TRUE, !.filled = qty], "Executed")

\* partial_closed.  The mutant closes the trade with the first exit.
PartialEndsTrade(i, order, qty) == UpdateState(i, "Closed")
PartialClosed(i, order, qty) ==
    UpdateState([i EXCEPT !.closing = FALSE, !.closes[order] = @ + qty], "Filled")

PositionClosed(i) == UpdateState(i, "Closed")

-----------------------------------------------------------------------------
\* reduce_broker_order: one guard per arm, then the arms.

Pending(i) == i.state \in {"New", "Executed"}
EndsEntry(e) == e.kind \in {"Cancelled", "Rejected"}

\* The remainder of a partly filled entry ended: the part is a position.  The
\* mutant takes the end of the order for the end of the trade.
NoPart(i, e) == FALSE
KeepsPart(i, e) == Pending(i) /\ EndsEntry(e) /\ i.filled > 0

\* A fill of the entry after a cancellation or rejection is a position too.  The
\* mutant lets it reopen a closed trade.
LateFillReopens(i, e) == i.state \in Inactive /\ e.kind = "Filled" /\ EntrySide(e)
LateFill(i, e) == i.state \in {"Cancelled", "Rejected"} /\ e.kind = "Filled" /\ EntrySide(e)

\* A cumulative exit quantity, less what was already taken from it.  The mutant
\* takes every report for a new execution.
ExitQuantity(i, e) == e.qty
NewlyClosed(i, e) == e.qty - i.closes[e.order]

\* The working order has a new size.
Replaced(i, e) == [i EXCEPT !.quantity = e.qty]

\* Confirmed history ends the trade without inventing an entry fill.  The mutant
\* expects the fill first.
EndsFilledOnly(i, e, source) ==
    source = "TerminalHistory" /\ e.kind = "Closed" /\ i.state = "Filled" /\ i.known
EndsByHistory(i, e, source) ==
    source = "TerminalHistory" /\ e.kind = "Closed" /\ i.state \notin Inactive /\ i.known

\* An event that no arm takes is Ignored: the insight does not change.
Reduce(i, e, source) ==
    CASE EndsByHistory(i, e, source) -> PositionClosed([i EXCEPT !.suppressed = TRUE])
      [] KeepsPart(i, e) ->
            PositionFilled([i EXCEPT !.suppressed = TRUE, !.quantity = i.filled], i.filled)
      [] i.state = "New" /\ e.kind = "Accepted" -> OrderAccepted(i)
      [] Pending(i) /\ e.kind = "Filled" /\ EntrySide(e) -> PositionFilled(i, e.qty)
      [] Pending(i) /\ e.kind = "PartialFilled" /\ EntrySide(e) /\ e.qty > i.filled ->
            PartialEntry(i, e.qty)
      [] /\ i.state = "Filled" /\ e.kind = "PartialFilled" /\ ~EntrySide(e)
         /\ source = "TradeStream"
         /\ NewlyClosed(i, e) \in 1..Remaining(i) ->
            PartialClosed(i, e.order, NewlyClosed(i, e))
      [] Pending(i) /\ EndsEntry(e) /\ ~KeepsPart(i, e) -> UpdateState(i, e.kind)
      [] i.state = "Executed" /\ e.kind = "Replaced" /\ source = "TradeStream" ->
            Replaced(i, e)
      [] /\ i.state = "Filled" /\ source = "TradeStream"
         /\ e.kind = "Closed" \/ (e.kind = "Filled" /\ ~EntrySide(e)) ->
            PositionClosed(i)
      [] LateFill(i, e) -> PositionFilled([i EXCEPT !.suppressed = TRUE], e.qty)
      [] OTHER -> i

-----------------------------------------------------------------------------
\* The venue, and how each adapter reports what happens there.

\* What an execution may take of the n that are left.
Parts(partial, n) == IF partial THEN 1..n ELSE {n} \ {0}

Emit(e) == native' = Append(native, e) /\ sent' = sent \cup {e}

\* A stream adapter reports an entry with its cumulative quantity and an exit
\* that leaves a position under an identity of its own; the MT5 terminal reports
\* every deal that opens a position as Filled and every deal that reduces it as
\* Closed, with the volume of the deal.
EntryReport(qty, total) ==
    IF Adapter = "mt5" THEN Event("Filled", "entry", qty)
    ELSE Event(IF total = venue.size THEN "Filled" ELSE "PartialFilled", "entry", total)

ExitReport(x, qty, left) ==
    IF Adapter = "mt5" THEN Event("Closed", x, qty)
    ELSE IF left = 0 THEN Event("Closed", "entry", qty)
    ELSE Event("PartialFilled", x, venue.exited[x] + qty)

VenueAccepts ==
    /\ venue.entry = "none"
    /\ venue' = [venue EXCEPT !.entry = "working"]
    /\ Emit(Event("Accepted", "entry", 0))
    /\ UNCHANGED <<insight, local, answer, history, asked, lost, repeats>>

VenueRejects ==
    /\ venue.entry \in {"none", "working"}
    /\ venue.filled = 0
    /\ venue' = [venue EXCEPT !.entry = "rejected"]
    /\ Emit(Event("Rejected", "entry", 0))
    /\ UNCHANGED <<insight, local, answer, history, asked, lost, repeats>>

\* A smaller order takes the place of a working one.
VenueReplaces ==
    /\ venue.entry = "working"
    /\ venue.filled = 0
    /\ \E n \in 1..(venue.size - 1) :
          /\ venue' = [venue EXCEPT !.size = n]
          /\ Emit(Event("Replaced", "entry", n))
    /\ UNCHANGED <<insight, local, answer, history, asked, lost, repeats>>

VenueFills ==
    /\ venue.entry = "working"
    /\ \E qty \in Parts(PartialEntries, venue.size - venue.filled) :
          LET total == venue.filled + qty IN
          /\ venue' = [venue EXCEPT !.filled = total,
                                    !.entry = IF total = venue.size THEN "filled" ELSE @]
          /\ Emit(EntryReport(qty, total))
    /\ UNCHANGED <<insight, local, answer, history, asked, lost, repeats>>

\* The remainder expires or is cancelled; the answer to a cancel command may
\* come before or after this.
VenueCancels ==
    /\ venue.entry = "working"
    /\ venue' = [venue EXCEPT !.entry = "cancelled"]
    /\ Emit(Event("Cancelled", "entry", 0))
    /\ UNCHANGED <<insight, local, answer, history, asked, lost, repeats>>

\* A protective order, somebody at the terminal, or the close command reduces
\* the position.  A close command that did it is answered: the MT5 adapter makes
\* an event out of that answer as well.
VenueExits(x) ==
    /\ Adapter = "mt5" \/ EntryOver
    /\ \E qty \in Parts(PartialExits, Position) :
          LET e == ExitReport(x, qty, Position - qty) IN
          /\ venue' = [venue EXCEPT !.exited[x] = @ + qty]
          /\ Emit(e)
          /\ \/ UNCHANGED <<local, asked>>
             \/ /\ "close" \in asked
                /\ asked' = asked \ {"close"}
                /\ local' = IF Adapter = "mt5" THEN Append(local, e) ELSE local
    /\ UNCHANGED <<insight, answer, history, lost, repeats>>

\* The answer to a cancel command.  MT5 acknowledges the deletion of a working
\* order, which the adapter reports as Cancelled although the order may still
\* fill; an order that is over declines it.
CancelAcknowledged ==
    /\ "cancel" \in asked
    /\ venue.entry = IF Adapter = "mt5" THEN "working" ELSE "cancelled"
    /\ asked' = asked \ {"cancel"}
    /\ local' = IF Adapter = "mt5" THEN Append(local, Event("Cancelled", "entry", 0)) ELSE local
    /\ UNCHANGED <<insight, venue, native, sent, answer, history, lost, repeats>>

CancelDeclined ==
    /\ "cancel" \in asked
    /\ EntryOver
    /\ asked' = asked \ {"cancel"}
    /\ insight' = [insight EXCEPT !.cancelling = FALSE]
    /\ UNCHANGED <<venue, native, local, sent, answer, history, lost, repeats>>

CloseDeclined ==
    /\ "close" \in asked
    /\ asked' = asked \ {"close"}
    /\ insight' = [insight EXCEPT !.closing = FALSE]
    /\ UNCHANGED <<venue, native, local, sent, answer, history, lost, repeats>>

\* The submission is answered with the order as it was accepted or filled; the
\* answer may come much later, looked up by its correlation after a restart.
SubmitAnswered ==
    /\ answer.state = "none"
    /\ venue.entry # "none"
    /\ answer' = [state |-> "ready",
                  event |-> CASE venue.entry = "rejected" -> Event("Rejected", "entry", 0)
                              [] venue.entry = "filled" -> Event("Filled", "entry", venue.filled)
                              [] OTHER -> Event("Accepted", "entry", 0)]
    /\ UNCHANGED <<insight, venue, native, local, sent, history, asked, lost, repeats>>

-----------------------------------------------------------------------------
\* The strategy.

\* The submission's receipt is settled by the reducer's evidence: the ticket is
\* bound, the trade is known to have filled, or a rejection never had a ticket.
Settles(i, e) ==
    \/ i.known
    \/ i.state \in {"Filled", "Closed"}
    \/ i.state = "Rejected" /\ e.kind = "Rejected"

\* A retained receipt is looked at again when evidence leaves the insight inactive.
Repoll(i) ==
    answer' = IF answer.state = "retained" /\ i.state \in Inactive /\ Settles(i, answer.event)
              THEN [answer EXCEPT !.state = "consumed"] ELSE answer

\* process_trade_update, for the event at the head of either lane.
TakeNative ==
    /\ native # <<>>
    /\ insight' = Reduce(insight, Head(native), "TradeStream")
    /\ Repoll(insight')
    /\ native' = Tail(native)
    /\ UNCHANGED <<venue, local, sent, history, asked, lost, repeats>>

TakeLocal ==
    /\ local # <<>>
    /\ insight' = Reduce(insight, Head(local), "TradeStream")
    /\ Repoll(insight')
    /\ local' = Tail(local)
    /\ UNCHANGED <<venue, native, sent, history, asked, lost, repeats>>

\* The event queue is full and drops its oldest event, or the terminal was away.
Lose ==
    /\ lost < MaxLost
    /\ \/ native # <<>> /\ native' = Tail(native) /\ UNCHANGED local
       \/ local # <<>> /\ local' = Tail(local) /\ UNCHANGED native
    /\ lost' = lost + 1
    /\ UNCHANGED <<insight, venue, sent, answer, history, asked, repeats>>

\* An event is posted again under a new session, whose keys have not been seen.
Redeliver ==
    /\ repeats < MaxRepeats
    /\ \E e \in sent : native' = Append(native, e)
    /\ repeats' = repeats + 1
    /\ UNCHANGED <<insight, venue, local, sent, answer, history, asked, lost>>

\* reduce_ready_commands for the submission; an acknowledged submission lets
\* cleanup issue the real cancellation.
TakeAnswer ==
    /\ answer.state = "ready"
    /\ LET i == Reduce(insight, answer.event, "SubmitResponse")
           settled == Settles(i, answer.event)
       IN  /\ insight' = IF settled /\ i.state \notin Inactive /\ "cancel" \notin asked
                         THEN [i EXCEPT !.cancelling = FALSE] ELSE i
           /\ answer' = [answer EXCEPT !.state = IF settled THEN "consumed" ELSE "retained"]
    /\ UNCHANGED <<venue, native, local, sent, history, asked, lost, repeats>>

\* cancel().  While the submission is unsettled only the entry is gated; then the
\* order itself is cancelled.
Cancel ==
    /\ Pending(insight)
    /\ insight' = [insight EXCEPT !.cancelling = TRUE, !.suppressed = TRUE]
    /\ \/ /\ answer.state # "consumed"
          /\ UNCHANGED asked
       \/ /\ answer.state = "consumed"
          /\ insight.known
          /\ ~insight.cancelling
          /\ "cancel" \notin asked
          /\ asked' = asked \cup {"cancel"}
    /\ UNCHANGED <<venue, native, local, sent, answer, history, lost, repeats>>

\* close() and close_partial() of a position.
Close ==
    /\ insight.state = "Filled"
    /\ ~insight.closing
    /\ "close" \notin asked
    /\ Remaining(insight) > 0
    /\ insight' = [insight EXCEPT !.closing = TRUE]
    /\ asked' = asked \cup {"close"}
    /\ UNCHANGED <<venue, native, local, sent, answer, history, lost, repeats>>

\* What the venue's history says of a ticket that is over, if anything.
HistoryRow ==
    CASE venue.entry = "rejected" -> {Event("Rejected", "entry", 0)}
      [] venue.entry = "cancelled" /\ venue.filled = 0 -> {Event("Cancelled", "entry", 0)}
      [] Flat /\ venue.filled > 0 -> {Event("Closed", "entry", 0)}
      [] OTHER -> {}

\* One read at a time, about an active insight whose ticket is known.
HistoryRead ==
    /\ history = {}
    /\ insight.state \notin Inactive
    /\ insight.known
    /\ HistoryRow # {}
    /\ history' = HistoryRow
    /\ UNCHANGED <<insight, venue, native, local, sent, answer, asked, lost, repeats>>

\* terminal_order: a close that is older than the fill the insight has seen is
\* not believed.
Believed(i, e) ==
    /\ i.state \notin Inactive
    /\ i.known
    /\ e.kind = "Closed" => ~i.filledLate

HistoryApply ==
    /\ \E e \in history :
          insight' = IF Believed(insight, e) THEN Reduce(insight, e, "TerminalHistory") ELSE insight
    /\ Repoll(insight')
    /\ history' = {}
    /\ UNCHANGED <<venue, native, local, sent, asked, lost, repeats>>

-----------------------------------------------------------------------------
Init ==
    /\ setting \in Settings
    /\ insight = [state |-> "New", known |-> FALSE, quantity |-> Quantity, filled |-> 0,
                  closes |-> [x \in Exits |-> 0], cancelling |-> FALSE, closing |-> FALSE,
                  suppressed |-> FALSE, filledLate |-> FALSE]
    /\ venue = [entry |-> "none", size |-> Quantity, filled |-> 0, exited |-> [x \in Exits |-> 0]]
    /\ native = <<>>
    /\ local = <<>>
    /\ sent = {}
    /\ answer = [state |-> "none", event |-> Event("Accepted", "entry", 0)]
    /\ history = {}
    /\ asked = {}
    /\ lost = 0
    /\ repeats = 0

Venue ==
    \/ VenueAccepts \/ VenueRejects \/ VenueReplaces \/ VenueFills \/ VenueCancels
    \/ \E x \in setting.exits : VenueExits(x)
    \/ CancelAcknowledged \/ CancelDeclined \/ CloseDeclined \/ SubmitAnswered

Strategy ==
    \/ TakeNative \/ TakeLocal \/ TakeAnswer \/ Cancel \/ Close \/ HistoryRead \/ HistoryApply

Next == (Venue \/ Strategy \/ Lose \/ Redeliver) /\ UNCHANGED setting

Spec == Init /\ [][Next]_vars

\* The strategy's loop drains its queues; the history is read on a timer for as
\* long as the insight is active, and a read that fails is repeated.
Fairness ==
    /\ WF_vars(TakeNative /\ UNCHANGED setting)
    /\ WF_vars(TakeLocal /\ UNCHANGED setting)
    /\ WF_vars(TakeAnswer /\ UNCHANGED setting)
    /\ SF_vars(HistoryRead /\ UNCHANGED setting)
    /\ WF_vars(HistoryApply /\ UNCHANGED setting)

FairSpec == Spec /\ Fairness

-----------------------------------------------------------------------------
\* Everything that was reported has been reduced and nothing was lost.
Quiet ==
    /\ EntryOver
    /\ native = <<>> /\ local = <<>>
    /\ answer.state # "ready"
    /\ lost = 0

\* No fill and no exit is counted twice: however often and in whatever order the
\* reports arrive, reduce_broker_order never believes more than the venue did.
BeliefFollowsVenue ==
    /\ insight.filled <= venue.filled
    /\ \A x \in Exits : insight.closes[x] <= venue.exited[x]

\* A trade the strategy calls Closed has no position left at the venue.
ClosedIsFlat == insight.state = "Closed" => Flat

\* Once every report has been reduced the belief is the truth: a position is
\* Filled with its exact remaining quantity, anything else is inactive, whether
\* the order filled late, in parts, or after its cancellation was reported.
SettledAgrees ==
    Quiet => IF Position > 0
             THEN insight.state = "Filled" /\ Remaining(insight) = Position
             ELSE insight.state \in Inactive

\* The flags that keep a second cancel or close from being sent are never left
\* behind: when all is reduced, a set flag has a command without an answer, and
\* the submission's answer, before or after the stream's evidence, is consumed.
FlagsAreOutstanding ==
    Quiet => /\ insight.closing => "close" \in asked
             /\ insight.cancelling => "cancel" \in asked \/ answer.state # "consumed"
             /\ answer.state # "retained"

\* A closed trade never changes again, and a position only ever becomes closed:
\* no late report takes an insight back.
TradesOnlyAdvance ==
    [][/\ insight.state = "Closed" => insight' = insight
       /\ insight.state = "Filled" => insight'.state \in {"Filled", "Closed"}]_vars

\* An active insight whose ticket is known and whose trade is over ends, even
\* when the reports about it were lost, unless it was filled late: then the
\* history is not believed.
EndIsNoticed ==
    (insight.state \notin Inactive /\ insight.known /\ Flat)
        ~> (insight.state \in Inactive \/ insight.filledLate)
=============================================================================
