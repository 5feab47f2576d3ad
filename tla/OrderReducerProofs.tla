------------------------- MODULE OrderReducerProofs -------------------------
(***************************************************************************)
(* Proofs about OrderReducer, for any quantity, exit orders, adapters and  *)
(* any number of lost and repeated reports: the reducer never believes     *)
(* more than the venue did, never takes a trade back, and calls a trade    *)
(* closed only when nothing of it is left at the venue.                    *)
(***************************************************************************)
EXTENDS OrderReducer, FiniteSums

(***************************************************************************)
(* The inductive invariant.                                                *)
(***************************************************************************)

Insights ==
    [state : InsightStates, known : BOOLEAN, quantity : Int, filled : Nat, closes : [Exits -> Nat],
     cancelling : BOOLEAN, closing : BOOLEAN, suppressed : BOOLEAN, filledLate : BOOLEAN]
Venues ==
    [entry : {"none", "working", "filled", "cancelled", "rejected"}, size : Nat, filled : Nat,
     exited : [Exits -> Nat]]
Reports == [kind : Kinds, order : Exits \cup {"entry"}, qty : Nat]

Answers == [state : {"none", "ready", "retained", "consumed"}, event : Reports]

\* MT5 calls every deal a fill or a close of its own: the reducer follows it where
\* positions are opened and closed in one deal each.
WholeDeals == Adapter = "mt5" => PartialEntries = FALSE /\ PartialExits = FALSE

\* What a report says was so when it was made, and still is.
Holds(e) ==
    /\ EntrySide(e) /\ e.kind \in {"Filled", "PartialFilled"} => e.qty <= venue.filled
    /\ ~EntrySide(e) => e.kind \in {"PartialFilled", "Closed"}
    /\ ~EntrySide(e) /\ e.kind = "PartialFilled" => e.qty <= venue.exited[e.order]
    /\ WholeDeals /\ e.kind = "Closed" => Flat

\* Every report there is or may be again.
Evidence ==
    sent \cup {answer.event} \cup history \cup Range(native) \cup Range(local)

Shapes ==
    /\ setting \in Settings
    /\ insight \in Insights
    /\ venue \in Venues
    /\ answer \in Answers
    /\ native \in Seq(Reports) /\ local \in Seq(Reports)
    /\ Evidence \subseteq Reports

\* The venue never opens more than the order asks for, nor closes more than is
\* open; an entry that fills at once is over when it has filled.
Books ==
    /\ venue.filled <= venue.size
    /\ Position >= 0
    /\ PartialEntries = FALSE /\ venue.filled > 0 => venue.entry = "filled"

RInv ==
    /\ Shapes
    /\ Books
    /\ \A e \in Evidence : Holds(e)
    /\ BeliefFollowsVenue
    /\ insight.state = "Closed" => ~insight.cancelling /\ ~insight.closing
    /\ WholeDeals => ClosedIsFlat

(***************************************************************************)
(* The reducer.                                                            *)
(***************************************************************************)

\* What a transition of i to s makes of it.
Updates(j, i, s) ==
    /\ j \in Insights /\ j.filled = i.filled /\ j.closes = i.closes /\ j.known = i.known
    /\ (j.cancelling => i.cancelling) /\ (j.closing => i.closing)
    /\ i.state # "Filled" \/ s \notin {"Cancelled", "Rejected"} =>
          /\ j.state = s
          /\ s \in Inactive => ~j.cancelling /\ ~j.closing
          /\ s = "Filled" => ~j.cancelling

\* update_state changes the state and the flags only.
LEMMA UpdateFacts ==
    ASSUME NEW i \in Insights, NEW s \in InsightStates
    PROVE  Updates(UpdateState(i, s), i, s)
<1>0. PICK j : j = UpdateState(i, s)
      BY Zenon
<1>. SUFFICES Updates(j, i, s)
     BY Zenon, <1>0
<1>1. CASE i.state = "Filled" /\ s \in {"Cancelled", "Rejected"}
  <2>1. j = i
        BY Zenon, <1>0, <1>1 DEF UpdateState
  <2>. QED  BY Zenon, <1>1, <2>1 DEF Updates
<1>2. CASE ~(i.state = "Filled" /\ s \in {"Cancelled", "Rejected"})
  <2>1. PICK p \in BOOLEAN, q \in BOOLEAN :
           /\ p = (i.cancelling /\ s \notin Inactive \cup {"Filled"})
           /\ q = (i.closing /\ s \notin Inactive)
        BY Zenon
  <2>2. j = [i EXCEPT !.state = s, !.cancelling = p, !.closing = q]
        BY Zenon, <1>0, <1>2, <2>1 DEF UpdateState
  <2>3. /\ j \in Insights /\ j.filled = i.filled /\ j.closes = i.closes /\ j.state = s
        /\ j.known = i.known /\ j.cancelling = p /\ j.closing = q
        BY Zenon, <2>2 DEF Insights
  <2>4. /\ p => i.cancelling /\ s \notin Inactive /\ s # "Filled"
        /\ q => i.closing /\ s \notin Inactive
        BY Zenon, <2>1
  <2>. QED  BY Zenon, <2>3, <2>4 DEF Updates
<1>. QED  BY Zenon, <1>1, <1>2

\* What a fill makes of i.
Fills(j, i, qty) ==
    /\ j \in Insights /\ j.filled = qty /\ j.closes = i.closes /\ j.state = "Filled"
    /\ j.known /\ ~j.cancelling /\ (j.closing => i.closing)

\* A fill makes the insight a position of that quantity.
LEMMA FilledFacts ==
    ASSUME NEW i \in Insights, NEW qty \in Nat
    PROVE  Fills(PositionFilled(i, qty), i, qty)
<1>1. PICK late \in BOOLEAN : late = Flat
      BY Zenon DEF Flat
<1>2. PICK k : k = [i EXCEPT !.known = TRUE, !.filled = qty, !.filledLate = late]
      BY Zenon
<1>3. k \in Insights /\ k.filled = qty /\ k.closes = i.closes /\ k.known = TRUE /\ k.closing = i.closing
      BY Zenon, <1>2 DEF Insights
<1>4. PositionFilled(i, qty) = UpdateState(k, "Filled")
      BY Zenon, <1>1, <1>2 DEF PositionFilled
<1>5. "Filled" \in InsightStates /\ "Filled" \notin {"Cancelled", "Rejected"}
      BY Zenon DEF InsightStates
<1>6. Updates(PositionFilled(i, qty), k, "Filled")
      BY Zenon, <1>3, <1>4, <1>5, UpdateFacts
<1>. QED  BY Zenon, <1>3, <1>5, <1>6 DEF Updates, Fills

\* The reports that fill the entry, in whole or in part, or reduce the position.
Fill(e) == e.kind = "Filled" /\ EntrySide(e)
Part(e) == e.kind = "PartialFilled" /\ EntrySide(e)
Reduction(e) == e.kind = "PartialFilled" /\ ~EntrySide(e)
Exit(e) == e.kind = "Closed" \/ Reduction(e)

\* What e makes of i, an operator per outcome: the trade ends, the position opens,
\* the order works, the position is reduced, the order ends, or nothing happens
\* that matters.
Ends(j, i, e) ==
    /\ j.state = "Closed" /\ ~j.cancelling /\ ~j.closing
    /\ j.filled = i.filled /\ j.closes = i.closes /\ j.known = i.known
    /\ \/ e.kind = "Closed" /\ i.state \notin Inactive /\ i.known
       \/ i.state = "Filled" /\ (e.kind = "Closed" \/ (e.kind = "Filled" /\ ~EntrySide(e)))
Opens(j, i, e) ==
    /\ j.state = "Filled" /\ j.known /\ ~j.cancelling /\ (j.closing => i.closing)
    /\ j.closes = i.closes
    /\ \/ Pending(i) /\ EndsEntry(e) /\ i.filled > 0 /\ j.filled = i.filled
       \/ i.state \notin {"Filled", "Closed"} /\ Fill(e) /\ j.filled = e.qty
Works(j, i, e) ==
    /\ Pending(i) /\ j.state = "Executed" /\ j.known /\ j.closes = i.closes
    /\ (j.closing => i.closing) /\ (j.cancelling => i.cancelling)
    /\ \/ e.kind = "Accepted" /\ j.filled = i.filled
       \/ Part(e) /\ e.qty > i.filled /\ j.filled = e.qty
Shrinks(j, i, e) ==
    /\ i.state = "Filled" /\ Reduction(e) /\ NewlyClosed(i, e) \in 1..Remaining(i)
    /\ j.state = "Filled" /\ j.filled = i.filled /\ j.closes = [i.closes EXCEPT ![e.order] = e.qty]
    /\ j.known = i.known /\ ~j.cancelling /\ ~j.closing
Drops(j, i, e) ==
    /\ Pending(i) /\ EndsEntry(e) /\ i.filled = 0
    /\ j.state = e.kind /\ j.filled = i.filled /\ j.closes = i.closes /\ j.known = i.known
    /\ ~j.cancelling /\ ~j.closing
Stays(j, i, e, source) ==
    /\ j.state = i.state /\ j.filled = i.filled /\ j.closes = i.closes /\ j.known = i.known
    /\ j.cancelling = i.cancelling /\ j.closing = i.closing
    /\ i.state = "Executed" \/ j = i
    /\ ~(i.state = "New" /\ e.kind = "Accepted") /\ ~(Pending(i) /\ EndsEntry(e))
    /\ ~(i.state \notin {"Filled", "Closed"} /\ Fill(e))
    /\ ~(Pending(i) /\ Part(e) /\ e.qty > i.filled)
    /\ source = "TradeStream" /\ i.state = "Filled" =>
          e.kind # "Closed" /\ ~(Reduction(e) /\ NewlyClosed(i, e) \in 1..Remaining(i))
Becomes(j, i, e, source) ==
    /\ j \in Insights
    /\ \/ Ends(j, i, e) \/ Opens(j, i, e) \/ Works(j, i, e) \/ Shrinks(j, i, e)
       \/ Drops(j, i, e) \/ Stays(j, i, e, source)

\* That is what reduce_broker_order does, arm by arm.
LEMMA BecomesFacts ==
    ASSUME NEW i \in Insights, NEW e \in Reports, NEW source
    PROVE  Becomes(Reduce(i, e, source), i, e, source)
<1>1. PICK j, v1, v2, v3, v4, v5, v6, v7, v8, v9, v10 :
         /\ j = Reduce(i, e, source)
         /\ v1 = PositionClosed([i EXCEPT !.suppressed = TRUE])
         /\ v2 = PositionFilled([i EXCEPT !.suppressed = TRUE, !.quantity = i.filled], i.filled)
         /\ v3 = OrderAccepted(i)
         /\ v4 = PositionFilled(i, e.qty)
         /\ v5 = PartialEntry(i, e.qty)
         /\ v6 = PartialClosed(i, e.order, NewlyClosed(i, e))
         /\ v7 = UpdateState(i, e.kind)
         /\ v8 = Replaced(i, e)
         /\ v9 = PositionClosed(i)
         /\ v10 = PositionFilled([i EXCEPT !.suppressed = TRUE], e.qty)
      BY Zenon
<1>. DEFINE c1 == EndsByHistory(i, e, source)
            c2 == KeepsPart(i, e)
            c3 == i.state = "New" /\ e.kind = "Accepted"
            c4 == Pending(i) /\ e.kind = "Filled" /\ EntrySide(e)
            c5 == Pending(i) /\ e.kind = "PartialFilled" /\ EntrySide(e) /\ e.qty > i.filled
            c6 == /\ i.state = "Filled" /\ e.kind = "PartialFilled" /\ ~EntrySide(e)
                  /\ source = "TradeStream"
                  /\ NewlyClosed(i, e) \in 1..Remaining(i)
            c7 == Pending(i) /\ EndsEntry(e) /\ ~KeepsPart(i, e)
            c8 == i.state = "Executed" /\ e.kind = "Replaced" /\ source = "TradeStream"
            c9 == /\ i.state = "Filled" /\ source = "TradeStream"
                  /\ e.kind = "Closed" \/ (e.kind = "Filled" /\ ~EntrySide(e))
            c10 == LateFill(i, e)
<1>2. j = CASE c1 -> v1 [] c2 -> v2 [] c3 -> v3 [] c4 -> v4 [] c5 -> v5
            [] c6 -> v6 [] c7 -> v7 [] c8 -> v8 [] c9 -> v9 [] c10 -> v10 [] OTHER -> i
      BY ZenonT(30), <1>1 DEF Reduce
<1>3. \/ j = v1 /\ EndsByHistory(i, e, source)
      \/ j = v2 /\ KeepsPart(i, e)
      \/ j = v3 /\ i.state = "New" /\ e.kind = "Accepted"
      \/ j = v4 /\ Pending(i) /\ e.kind = "Filled" /\ EntrySide(e)
      \/ j = v5 /\ Pending(i) /\ e.kind = "PartialFilled" /\ EntrySide(e) /\ e.qty > i.filled
      \/ j = v6 /\ i.state = "Filled" /\ e.kind = "PartialFilled" /\ ~EntrySide(e)
                /\ NewlyClosed(i, e) \in 1..Remaining(i)
      \/ j = v7 /\ Pending(i) /\ EndsEntry(e) /\ ~KeepsPart(i, e)
      \/ j = v8 /\ i.state = "Executed" /\ e.kind = "Replaced"
      \/ j = v9 /\ i.state = "Filled" /\ (e.kind = "Closed" \/ (e.kind = "Filled" /\ ~EntrySide(e)))
      \/ j = v10 /\ LateFill(i, e)
      \/ /\ j = i
         /\ ~KeepsPart(i, e) /\ ~(i.state = "New" /\ e.kind = "Accepted")
         /\ ~(Pending(i) /\ e.kind = "Filled" /\ EntrySide(e))
         /\ ~(Pending(i) /\ e.kind = "PartialFilled" /\ EntrySide(e) /\ e.qty > i.filled)
         /\ ~(/\ i.state = "Filled" /\ e.kind = "PartialFilled" /\ ~EntrySide(e)
              /\ source = "TradeStream" /\ NewlyClosed(i, e) \in 1..Remaining(i))
         /\ ~(Pending(i) /\ EndsEntry(e) /\ ~KeepsPart(i, e))
         /\ ~(/\ i.state = "Filled" /\ source = "TradeStream"
              /\ e.kind = "Closed" \/ (e.kind = "Filled" /\ ~EntrySide(e)))
         /\ ~LateFill(i, e)
  <2>1. \/ (j = v1 /\ c1) \/ (j = v2 /\ c2) \/ (j = v3 /\ c3) \/ (j = v4 /\ c4) \/ (j = v5 /\ c5)
        \/ (j = v6 /\ c6) \/ (j = v7 /\ c7) \/ (j = v8 /\ c8) \/ (j = v9 /\ c9) \/ (j = v10 /\ c10)
        \/ j = i /\ ~c2 /\ ~c3 /\ ~c4 /\ ~c5 /\ ~c6 /\ ~c7 /\ ~c9 /\ ~c10
    <3>. HIDE DEF c1, c2, c3, c4, c5, c6, c7, c8, c9, c10
    <3>. QED  BY SMTT(30), <1>2
  <2>. QED  BY SMTT(30), <2>1
<1>4. /\ i.state \in InsightStates /\ i.filled \in Nat /\ i.closes \in [Exits -> Nat]
      /\ e.qty \in Nat /\ e.kind \in Kinds /\ e.order \in Exits \cup {"entry"}
      BY Zenon DEF Insights, Reports
<1>5. \A s \in {"Closed", "Filled", "Executed"} : s \in InsightStates /\ s \notin {"Cancelled", "Rejected"}
      BY Zenon DEF InsightStates
<1>6. ASSUME j = v1, EndsByHistory(i, e, source) PROVE Becomes(j, i, e, source)
  <2>1. PICK k : k = [i EXCEPT !.suppressed = TRUE]
        BY Zenon
  <2>2. k \in Insights /\ k.filled = i.filled /\ k.closes = i.closes /\ k.known = i.known
        BY Zenon, <2>1 DEF Insights
  <2>3. Updates(j, k, "Closed")
        BY Zenon, <1>1, <1>5, <1>6, <2>1, <2>2, UpdateFacts DEF PositionClosed
  <2>4. "Closed" \in Inactive /\ e.kind = "Closed" /\ i.state \notin Inactive /\ i.known
        BY Zenon, <1>6 DEF EndsByHistory, Inactive
  <2>5. Ends(j, i, e) /\ j \in Insights
        BY Zenon, <1>5, <2>2, <2>3, <2>4 DEF Updates, Ends
  <2>. QED  BY Zenon, <2>5 DEF Becomes
<1>7. ASSUME j = v2, KeepsPart(i, e) PROVE Becomes(j, i, e, source)
  <2>1. PICK k : k = [i EXCEPT !.suppressed = TRUE, !.quantity = i.filled]
        BY Zenon
  <2>2. k \in Insights /\ k.closes = i.closes /\ k.closing = i.closing
    <3>1. i.filled \in Int
          BY SMTT(30), <1>4
    <3>. QED  BY Zenon, <2>1, <3>1 DEF Insights
  <2>3. Fills(j, k, i.filled)
        BY Zenon, <1>1, <1>4, <1>7, <2>1, <2>2, FilledFacts
  <2>4. Opens(j, i, e) /\ j \in Insights
        BY Zenon, <1>7, <2>2, <2>3 DEF Fills, Opens, KeepsPart
  <2>. QED  BY Zenon, <2>4 DEF Becomes
<1>8. ASSUME j = v3, i.state = "New", e.kind = "Accepted" PROVE Becomes(j, i, e, source)
  <2>1. PICK k : k = [i EXCEPT !.known = TRUE]
        BY Zenon
  <2>2. /\ k \in Insights /\ k.filled = i.filled /\ k.closes = i.closes /\ k.known = TRUE
        /\ k.closing = i.closing /\ k.cancelling = i.cancelling
        BY Zenon, <2>1 DEF Insights
  <2>3. Updates(j, k, "Executed")
        BY Zenon, <1>1, <1>5, <1>8, <2>1, <2>2, UpdateFacts DEF OrderAccepted
  <2>4. Works(j, i, e) /\ j \in Insights
        BY Zenon, <1>5, <1>8, <2>2, <2>3 DEF Updates, Works, Pending
  <2>. QED  BY Zenon, <2>4 DEF Becomes
<1>9. ASSUME j = v4, Pending(i), e.kind = "Filled", EntrySide(e) PROVE Becomes(j, i, e, source)
  <2>1. Fills(j, i, e.qty)
        BY Zenon, <1>1, <1>4, <1>9, FilledFacts
  <2>2. i.state \notin {"Filled", "Closed"}
        BY Zenon, <1>9 DEF Pending
  <2>3. Opens(j, i, e) /\ j \in Insights
        BY Zenon, <1>9, <2>1, <2>2 DEF Fills, Opens, Fill
  <2>. QED  BY Zenon, <2>3 DEF Becomes
<1>10. ASSUME j = v5, Pending(i), e.kind = "PartialFilled", EntrySide(e), e.qty > i.filled
       PROVE  Becomes(j, i, e, source)
  <2>1. PICK k : k = [i EXCEPT !.known = TRUE, !.filled = e.qty]
        BY Zenon
  <2>2. /\ k \in Insights /\ k.filled = e.qty /\ k.closes = i.closes /\ k.known = TRUE
        /\ k.closing = i.closing /\ k.cancelling = i.cancelling
        BY Zenon, <1>4, <2>1 DEF Insights
  <2>3. Updates(j, k, "Executed")
        BY Zenon, <1>1, <1>5, <1>10, <2>1, <2>2, UpdateFacts DEF PartialEntry
  <2>4. Works(j, i, e) /\ j \in Insights
        BY Zenon, <1>5, <1>10, <2>2, <2>3 DEF Updates, Works, Part
  <2>. QED  BY Zenon, <2>4 DEF Becomes
<1>11. ASSUME j = v6, i.state = "Filled", e.kind = "PartialFilled", ~EntrySide(e),
              NewlyClosed(i, e) \in 1..Remaining(i)
       PROVE  Becomes(j, i, e, source)
  <2>1. e.order \in Exits
        BY Zenon, <1>4, <1>11 DEF EntrySide
  <2>2. i.closes[e.order] + NewlyClosed(i, e) = e.qty
        BY SMTT(30), <1>4, <2>1 DEF NewlyClosed
  <2>3. PICK k : k = [i EXCEPT !.closing = FALSE, !.closes = [i.closes EXCEPT ![e.order] = e.qty]]
        BY Zenon
  <2>4. /\ k \in Insights /\ k.filled = i.filled /\ k.known = i.known /\ k.closing = FALSE
        /\ k.closes = [i.closes EXCEPT ![e.order] = e.qty]
        BY Zenon, <1>4, <2>3 DEF Insights
  <2>5. j = UpdateState(k, "Filled")
    <3>1. [i EXCEPT !.closing = FALSE, !.closes[e.order] = @ + NewlyClosed(i, e)] = k
          BY Zenon, <2>2, <2>3 DEF Insights
    <3>. QED  BY Zenon, <1>1, <1>11, <3>1 DEF PartialClosed
  <2>6. Updates(j, k, "Filled")
        BY Zenon, <1>5, <2>4, <2>5, UpdateFacts
  <2>7. Shrinks(j, i, e) /\ j \in Insights
        BY Zenon, <1>5, <1>11, <2>4, <2>6 DEF Updates, Shrinks, Reduction
  <2>. QED  BY Zenon, <2>7 DEF Becomes
<1>12. ASSUME j = v7, Pending(i), EndsEntry(e), ~KeepsPart(i, e) PROVE Becomes(j, i, e, source)
  <2>1. e.kind \in {"Cancelled", "Rejected"} /\ e.kind \in InsightStates /\ e.kind \in Inactive
        BY Zenon, <1>12 DEF EndsEntry, InsightStates, Inactive
  <2>2. i.state # "Filled"
        BY Zenon, <1>12 DEF Pending
  <2>3. i.filled = 0
    <3>1. ~(i.filled > 0)
          BY Zenon, <1>12 DEF KeepsPart
    <3>. QED  BY SMTT(30), <1>4, <3>1
  <2>4. Updates(j, i, e.kind)
        BY Zenon, <1>1, <1>12, <2>1, UpdateFacts
  <2>5. Drops(j, i, e) /\ j \in Insights
        BY Zenon, <1>12, <2>1, <2>2, <2>3, <2>4 DEF Updates, Drops
  <2>. QED  BY Zenon, <2>5 DEF Becomes
<1>13. ASSUME j = v8, i.state = "Executed", e.kind = "Replaced" PROVE Becomes(j, i, e, source)
  <2>1. j = [i EXCEPT !.quantity = e.qty] /\ e.qty \in Int
    <3>1. e.qty \in Int
          BY SMTT(30), <1>4
    <3>. QED  BY Zenon, <1>1, <1>13, <3>1 DEF Replaced
  <2>2. /\ j \in Insights /\ j.filled = i.filled /\ j.closes = i.closes /\ j.state = i.state
        /\ j.known = i.known /\ j.cancelling = i.cancelling /\ j.closing = i.closing
        BY Zenon, <2>1 DEF Insights
  <2>3. Stays(j, i, e, source)
        BY Zenon, <1>13, <2>2 DEF Stays, EndsEntry, Fill, Part
  <2>. QED  BY Zenon, <2>2, <2>3 DEF Becomes
<1>14. ASSUME j = v9, i.state = "Filled", e.kind = "Closed" \/ (e.kind = "Filled" /\ ~EntrySide(e))
       PROVE  Becomes(j, i, e, source)
  <2>1. Updates(j, i, "Closed")
        BY Zenon, <1>1, <1>5, <1>14, UpdateFacts DEF PositionClosed
  <2>2. "Closed" \in Inactive /\ i.state \notin Inactive
        BY Zenon, <1>14 DEF Inactive
  <2>3. Ends(j, i, e) /\ j \in Insights
        BY Zenon, <1>5, <1>14, <2>1, <2>2 DEF Updates, Ends
  <2>. QED  BY Zenon, <2>3 DEF Becomes
<1>15. ASSUME j = v10, LateFill(i, e) PROVE Becomes(j, i, e, source)
  <2>1. PICK k : k = [i EXCEPT !.suppressed = TRUE]
        BY Zenon
  <2>2. k \in Insights /\ k.closes = i.closes /\ k.closing = i.closing
        BY Zenon, <2>1 DEF Insights
  <2>3. Fills(j, k, e.qty)
        BY Zenon, <1>1, <1>4, <1>15, <2>1, <2>2, FilledFacts
  <2>4. i.state \notin {"Filled", "Closed"} /\ Fill(e)
        BY Zenon, <1>15 DEF LateFill, Fill
  <2>5. Opens(j, i, e) /\ j \in Insights
        BY Zenon, <2>2, <2>3, <2>4 DEF Fills, Opens
  <2>. QED  BY Zenon, <2>5 DEF Becomes
<1>16. ASSUME j = i, ~KeepsPart(i, e), ~(i.state = "New" /\ e.kind = "Accepted"),
              ~(Pending(i) /\ e.kind = "Filled" /\ EntrySide(e)),
              ~(Pending(i) /\ e.kind = "PartialFilled" /\ EntrySide(e) /\ e.qty > i.filled),
              ~(/\ i.state = "Filled" /\ e.kind = "PartialFilled" /\ ~EntrySide(e)
                /\ source = "TradeStream" /\ NewlyClosed(i, e) \in 1..Remaining(i)),
              ~(Pending(i) /\ EndsEntry(e) /\ ~KeepsPart(i, e)),
              ~(/\ i.state = "Filled" /\ source = "TradeStream"
                /\ e.kind = "Closed" \/ (e.kind = "Filled" /\ ~EntrySide(e))),
              ~LateFill(i, e)
       PROVE  Becomes(j, i, e, source)
  <2>1. ~(Pending(i) /\ EndsEntry(e))
        BY Zenon, <1>16
  <2>2. ~(i.state \notin {"Filled", "Closed"} /\ Fill(e))
        BY Zenon, <1>4, <1>16 DEF LateFill, Fill, Pending, InsightStates
  <2>3. ~(Pending(i) /\ Part(e) /\ e.qty > i.filled)
        BY Zenon, <1>16 DEF Part
  <2>4. source = "TradeStream" /\ i.state = "Filled" =>
           e.kind # "Closed" /\ ~(Reduction(e) /\ NewlyClosed(i, e) \in 1..Remaining(i))
        BY Zenon, <1>16 DEF Reduction
  <2>5. Stays(j, i, e, source)
        BY Zenon, <1>16, <2>1, <2>2, <2>3, <2>4 DEF Stays
  <2>. QED  BY Zenon, <1>16, <2>5 DEF Becomes
<1>17. Becomes(j, i, e, source)
       BY ZenonT(30), <1>3, <1>6, <1>7, <1>8, <1>9, <1>10, <1>11, <1>12, <1>13, <1>14, <1>15, <1>16
<1>. QED  BY Zenon, <1>1, <1>17

\* What a reduction of e may make of i.
Reduces(j, i, e) ==
    /\ j \in Insights
    /\ j.filled = i.filled \/ (j.filled = e.qty /\ EntrySide(e) /\ e.kind \in {"Filled", "PartialFilled"})
    /\ \A x \in Exits :
          \/ j.closes[x] = i.closes[x]
          \/ j.closes[x] = e.qty /\ e.order = x /\ e.kind = "PartialFilled" /\ ~EntrySide(e)
    /\ i.state = "Closed" => j = i
    /\ i.state = "Filled" => j.state \in {"Filled", "Closed"}
    /\ j.state = "Closed" =>
          \/ i.state = "Closed"
          \/ ~j.cancelling /\ ~j.closing /\ (e.kind = "Closed" \/ (e.kind = "Filled" /\ ~EntrySide(e)))

\* Whatever the source, an insight takes no more from e than e says, and none
\* goes back.
LEMMA ReduceFacts ==
    ASSUME NEW i \in Insights, NEW e \in Reports, NEW source
    PROVE  Reduces(Reduce(i, e, source), i, e)
<1>1. PICK j : j = Reduce(i, e, source) /\ Becomes(j, i, e, source)
      BY Zenon, BecomesFacts
<1>2. j \in Insights /\ i.closes \in [Exits -> Nat]
      BY Zenon, <1>1 DEF Becomes, Insights
<1>3. ASSUME Ends(j, i, e) PROVE Reduces(j, i, e)
      BY Zenon, <1>2, <1>3 DEF Ends, Reduces, Inactive
<1>4. ASSUME Opens(j, i, e) PROVE Reduces(j, i, e)
      BY Zenon, <1>2, <1>4 DEF Opens, Reduces, Pending, Fill
<1>5. ASSUME Works(j, i, e) PROVE Reduces(j, i, e)
      BY Zenon, <1>2, <1>5 DEF Works, Reduces, Pending, Part
<1>6. ASSUME Shrinks(j, i, e) PROVE Reduces(j, i, e)
  <2>1. \A x \in Exits : j.closes[x] = i.closes[x] \/ (j.closes[x] = e.qty /\ e.order = x)
        BY Zenon, <1>2, <1>6 DEF Shrinks
  <2>. QED  BY Zenon, <1>2, <1>6, <2>1 DEF Shrinks, Reduces, Reduction
<1>7. ASSUME Drops(j, i, e) PROVE Reduces(j, i, e)
  <2>1. j.state # "Closed" /\ i.state \notin {"Filled", "Closed"}
        BY Zenon, <1>7 DEF Drops, EndsEntry, Pending
  <2>. QED  BY Zenon, <1>2, <1>7, <2>1 DEF Drops, Reduces
<1>8. ASSUME Stays(j, i, e, source) PROVE Reduces(j, i, e)
  <2>1. i.state = "Closed" => j = i
        BY Zenon, <1>8 DEF Stays
  <2>2. i.state = "Filled" => j.state \in {"Filled", "Closed"}
        BY Zenon, <1>8 DEF Stays
  <2>. QED  BY Zenon, <1>2, <1>8, <2>1, <2>2 DEF Stays, Reduces
<1>9. Reduces(j, i, e)
      BY Zenon, <1>1, <1>3, <1>4, <1>5, <1>6, <1>7, <1>8 DEF Becomes
<1>. QED  BY Zenon, <1>1, <1>9

(***************************************************************************)
(* Steps that leave the venue alone.                                       *)
(***************************************************************************)

\* The reports in a queue that was shortened or prolonged.
LEMMA QueueFacts ==
    ASSUME NEW R, NEW q \in Seq(R)
    PROVE  /\ q # <<>> => /\ Head(q) \in Range(q)
                          /\ Tail(q) \in Seq(R) /\ Range(Tail(q)) \subseteq Range(q)
           /\ \A e \in R : Append(q, e) \in Seq(R) /\ Range(Append(q, e)) \subseteq Range(q) \cup {e}
<1>1. ASSUME q # <<>>
      PROVE  Head(q) \in Range(q) /\ Tail(q) \in Seq(R) /\ Range(Tail(q)) \subseteq Range(q)
  <2>1. Head(q) = q[1] /\ 1 \in DOMAIN q
        BY SMTT(30), <1>1
  <2>2. Tail(q) \in Seq(R) /\ \A n \in DOMAIN Tail(q) : n + 1 \in DOMAIN q /\ Tail(q)[n] = q[n + 1]
        BY SMTT(30), <1>1
  <2>3. Range(Tail(q)) \subseteq Range(q)
        BY Zenon, <2>2 DEF Range
  <2>4. Head(q) \in Range(q)
        BY Zenon, <2>1 DEF Range
  <2>. QED  BY Zenon, <2>2, <2>3, <2>4
<1>2. ASSUME NEW e \in R
      PROVE  Append(q, e) \in Seq(R) /\ Range(Append(q, e)) \subseteq Range(q) \cup {e}
  <2>1. /\ Append(q, e) \in Seq(R)
        /\ \A n \in DOMAIN Append(q, e) : Append(q, e)[n] = e \/ (n \in DOMAIN q /\ Append(q, e)[n] = q[n])
        BY SMTT(30)
  <2>. QED  BY Zenon, <2>1, Zenon DEF Range
<1>. QED  BY Zenon, <1>1, <1>2

\* What the strategy may come to believe.
Follows(j) ==
    /\ j \in Insights
    /\ j.filled <= venue.filled
    /\ \A x \in Exits : j.closes[x] <= venue.exited[x]
    /\ j.state = "Closed" => ~j.cancelling /\ ~j.closing
    /\ WholeDeals /\ j.state = "Closed" => Flat

\* What it believes it may believe, and nothing it is told takes that away.
LEMMA ReducedFollows ==
    ASSUME RInv
    PROVE  Follows(insight) /\ \A e \in Evidence : \A source : Follows(Reduce(insight, e, source))
<1>1. insight \in Insights /\ venue \in Venues
      BY Zenon DEF RInv, Shapes
<1>2. Follows(insight)
      BY Zenon, <1>1 DEF RInv, Follows, BeliefFollowsVenue, ClosedIsFlat
<1>3. ASSUME NEW e \in Evidence, NEW source PROVE Follows(Reduce(insight, e, source))
  <2>1. e \in Reports /\ Holds(e)
        BY Zenon DEF RInv, Shapes
  <2>2. PICK j : j = Reduce(insight, e, source) /\ Reduces(j, insight, e)
        BY Zenon, <1>1, <2>1, ReduceFacts
  <2>3. j.filled <= venue.filled
    <3>1. insight.filled <= venue.filled
          BY Zenon, <1>2 DEF Follows
    <3>. QED  BY Zenon, <2>1, <2>2, <3>1 DEF Reduces, Holds
  <2>4. ASSUME NEW x \in Exits PROVE j.closes[x] <= venue.exited[x]
    <3>1. insight.closes[x] <= venue.exited[x]
          BY Zenon, <1>2 DEF Follows
    <3>. QED  BY Zenon, <2>1, <2>2, <3>1 DEF Reduces, Holds
  <2>5. j.state = "Closed" => ~j.cancelling /\ ~j.closing
        BY Zenon, <1>2, <2>2 DEF Reduces, Follows
  <2>6. ASSUME WholeDeals, j.state = "Closed" PROVE Flat
    <3>1. CASE insight.state = "Closed"
          BY Zenon, <1>2, <2>6, <3>1 DEF Follows
    <3>2. CASE e.kind = "Closed"
          BY Zenon, <2>1, <2>6, <3>2 DEF Holds
    <3>3. CASE e.kind = "Filled" /\ ~EntrySide(e)
          BY Zenon, <2>1, <3>3 DEF Holds
    <3>. QED  BY Zenon, <2>2, <2>6, <3>1, <3>2, <3>3 DEF Reduces
  <2>7. Follows(j)
        BY Zenon, <2>2, <2>3, <2>4, <2>5, <2>6 DEF Reduces, Follows
  <2>. QED  BY Zenon, <2>2, <2>7
<1>. QED  BY Zenon, <1>2, <1>3

\* A step that leaves the venue alone keeps the invariant if it believes what it
\* may and every report is still true.
LEMMA StrategyFrame ==
    ASSUME RInv, UNCHANGED <<setting, venue>>, Follows(insight'),
           answer' \in Answers, native' \in Seq(Reports), local' \in Seq(Reports),
           \A e \in Evidence' : e \in Reports /\ Holds(e)
    PROVE  RInv'
<1>1. UNCHANGED <<Position, Flat, Adapter, PartialEntries, PartialExits>>
      BY Zenon DEF Position, Flat, EntryOver, Adapter, PartialEntries, PartialExits
<1>2. WholeDeals' = WholeDeals
      BY Zenon, <1>1 DEF WholeDeals
<1>3. Shapes'
      BY Zenon DEF RInv, Shapes, Follows
<1>4. Books'
      BY Zenon, <1>1 DEF RInv, Books
<1>5. \A e \in Evidence' : Holds(e)'
      BY Zenon, <1>1, <1>2 DEF Holds
<1>6. BeliefFollowsVenue' /\ (insight'.state = "Closed" => ~insight'.cancelling /\ ~insight'.closing)
      BY Zenon DEF Follows, BeliefFollowsVenue
<1>7. (WholeDeals => ClosedIsFlat)'
      BY Zenon, <1>1, <1>2 DEF Follows, ClosedIsFlat
<1>. QED  BY Zenon, <1>3, <1>4, <1>5, <1>6, <1>7 DEF RInv

\* Clearing a flag changes nothing that matters, nor does raising one before the
\* trade is closed.
LEMMA FlagsFollow ==
    ASSUME NEW j, Follows(j)
    PROVE  /\ Follows([j EXCEPT !.cancelling = FALSE]) /\ Follows([j EXCEPT !.closing = FALSE])
           /\ j.state # "Closed" => /\ Follows([j EXCEPT !.cancelling = TRUE, !.suppressed = TRUE])
                                    /\ Follows([j EXCEPT !.closing = TRUE])
<1>1. ASSUME NEW k, k \in Insights, k.filled = j.filled, k.closes = j.closes, k.state = j.state,
             k.state = "Closed" => ~k.cancelling /\ ~k.closing
      PROVE  Follows(k)
      BY Zenon, <1>1 DEF Follows
<1>2. j \in Insights /\ (j.state = "Closed" => j.cancelling = FALSE /\ j.closing = FALSE)
  <2>1. j \in Insights /\ (j.state = "Closed" => ~j.cancelling /\ ~j.closing)
        BY Zenon DEF Follows
  <2>2. j.cancelling \in BOOLEAN /\ j.closing \in BOOLEAN
        BY Zenon, <2>1 DEF Insights
  <2>. QED  BY Zenon, <2>1, <2>2
<1>3. PICK a, b, c, d : /\ a = [j EXCEPT !.cancelling = FALSE] /\ b = [j EXCEPT !.closing = FALSE]
                        /\ c = [j EXCEPT !.cancelling = TRUE, !.suppressed = TRUE]
                        /\ d = [j EXCEPT !.closing = TRUE]
      BY Zenon
<1>4. /\ a \in Insights /\ a.filled = j.filled /\ a.closes = j.closes /\ a.state = j.state
      /\ a.cancelling = FALSE /\ a.closing = j.closing
      BY Zenon, <1>2, <1>3 DEF Insights
<1>5. /\ b \in Insights /\ b.filled = j.filled /\ b.closes = j.closes /\ b.state = j.state
      /\ b.cancelling = j.cancelling /\ b.closing = FALSE
      BY Zenon, <1>2, <1>3 DEF Insights
<1>6. /\ c \in Insights /\ c.filled = j.filled /\ c.closes = j.closes /\ c.state = j.state
      BY Zenon, <1>2, <1>3 DEF Insights
<1>7. /\ d \in Insights /\ d.filled = j.filled /\ d.closes = j.closes /\ d.state = j.state
      BY Zenon, <1>2, <1>3 DEF Insights
<1>8. Follows(a) /\ Follows(b)
      BY Zenon, <1>1, <1>2, <1>4, <1>5
<1>9. j.state # "Closed" => Follows(c) /\ Follows(d)
      BY Zenon, <1>1, <1>6, <1>7
<1>. QED  BY Zenon, <1>3, <1>8, <1>9

\* A retained receipt that is looked at again keeps its answer.
LEMMA RepollFacts ==
    ASSUME RInv, NEW i, Repoll(i)
    PROVE  answer' \in Answers /\ answer'.event = answer.event
      BY Zenon DEF Repoll, RInv, Shapes, Answers

\* The strategy takes an event of the stream.
LEMMA TakeStep == ASSUME RInv, UNCHANGED setting, TakeNative \/ TakeLocal PROVE RInv'
<1>1. native \in Seq(Reports) /\ local \in Seq(Reports)
      BY Zenon DEF RInv, Shapes
<1>2. ASSUME TakeNative PROVE RInv'
  <2>1. /\ native # <<>> /\ native' = Tail(native) /\ UNCHANGED <<venue, local, sent, history>>
        /\ insight' = Reduce(insight, Head(native), "TradeStream") /\ Repoll(insight')
        BY Zenon, <1>2 DEF TakeNative
  <2>2. Head(native) \in Range(native) /\ Tail(native) \in Seq(Reports) /\ Range(Tail(native)) \subseteq Range(native)
        BY Zenon, <1>1, <2>1, QueueFacts
  <2>3. answer' \in Answers /\ answer'.event = answer.event
        BY Zenon, <2>1, RepollFacts
  <2>4. Evidence' \subseteq Evidence
        BY Zenon, <2>1, <2>2, <2>3 DEF Evidence
  <2>5. Follows(insight')
        BY Zenon, <2>1, <2>2, ReducedFollows DEF Evidence
  <2>. QED  BY Zenon, <1>1, <2>1, <2>2, <2>3, <2>4, <2>5, StrategyFrame DEF RInv, Shapes
<1>3. ASSUME TakeLocal PROVE RInv'
  <2>1. /\ local # <<>> /\ local' = Tail(local) /\ UNCHANGED <<venue, native, sent, history>>
        /\ insight' = Reduce(insight, Head(local), "TradeStream") /\ Repoll(insight')
        BY Zenon, <1>3 DEF TakeLocal
  <2>2. Head(local) \in Range(local) /\ Tail(local) \in Seq(Reports) /\ Range(Tail(local)) \subseteq Range(local)
        BY Zenon, <1>1, <2>1, QueueFacts
  <2>3. answer' \in Answers /\ answer'.event = answer.event
        BY Zenon, <2>1, RepollFacts
  <2>4. Evidence' \subseteq Evidence
        BY Zenon, <2>1, <2>2, <2>3 DEF Evidence
  <2>5. Follows(insight')
        BY Zenon, <2>1, <2>2, ReducedFollows DEF Evidence
  <2>. QED  BY ZenonT(30), <1>1, <2>1, <2>2, <2>3, <2>4, <2>5, StrategyFrame DEF RInv, Shapes
<1>. QED  BY Zenon, <1>2, <1>3

\* An event is lost, or posted again.
LEMMA FaultStep == ASSUME RInv, UNCHANGED setting, Lose \/ Redeliver PROVE RInv'
<1>1. native \in Seq(Reports) /\ local \in Seq(Reports) /\ answer \in Answers
      BY Zenon DEF RInv, Shapes
<1>2. UNCHANGED <<insight, venue, sent, answer, history>>
      BY Zenon DEF Lose, Redeliver
<1>3. /\ native' \in Seq(Reports) /\ local' \in Seq(Reports)
      /\ Range(native') \subseteq Range(native) \cup sent /\ Range(local') \subseteq Range(local)
  <2>1. sent \subseteq Reports
        BY Zenon DEF RInv, Shapes, Evidence
  <2>2. \/ native # <<>> /\ native' = Tail(native) /\ UNCHANGED local
        \/ local # <<>> /\ local' = Tail(local) /\ UNCHANGED native
        \/ (\E e \in sent : native' = Append(native, e)) /\ UNCHANGED local
        BY Zenon DEF Lose, Redeliver
  <2>3. CASE native # <<>> /\ native' = Tail(native) /\ UNCHANGED local
    <3>1. Tail(native) \in Seq(Reports) /\ Range(Tail(native)) \subseteq Range(native)
          BY Zenon, <1>1, <2>3, QueueFacts
    <3>. QED  BY Zenon, <1>1, <2>3, <3>1
  <2>4. CASE local # <<>> /\ local' = Tail(local) /\ UNCHANGED native
    <3>1. Tail(local) \in Seq(Reports) /\ Range(Tail(local)) \subseteq Range(local)
          BY Zenon, <1>1, <2>4, QueueFacts
    <3>. QED  BY Zenon, <1>1, <2>4, <3>1
  <2>5. CASE (\E e \in sent : native' = Append(native, e)) /\ UNCHANGED local
    <3>1. PICK e \in sent : native' = Append(native, e)
          BY Zenon, <2>5
    <3>2. e \in Reports
          BY Zenon, <2>1
    <3>3. Append(native, e) \in Seq(Reports) /\ Range(Append(native, e)) \subseteq Range(native) \cup {e}
          BY Zenon, <1>1, <3>2, QueueFacts
    <3>. QED  BY Zenon, <1>1, <2>5, <3>1, <3>3
  <2>. QED  BY Zenon, <2>2, <2>3, <2>4, <2>5
<1>4. Evidence' \subseteq Evidence
      BY Zenon, <1>2, <1>3 DEF Evidence
<1>5. Follows(insight')
      BY Zenon, <1>2, ReducedFollows
<1>. QED  BY Zenon, <1>1, <1>2, <1>3, <1>4, <1>5, StrategyFrame DEF RInv, Shapes

\* The answer to the submission is made, and taken.
LEMMA AnswerStep == ASSUME RInv, UNCHANGED setting, SubmitAnswered \/ TakeAnswer PROVE RInv'
<1>1. native \in Seq(Reports) /\ local \in Seq(Reports) /\ answer \in Answers /\ venue.filled \in Nat
      BY Zenon DEF RInv, Shapes, Venues
<1>2. UNCHANGED <<venue, native, local, sent, history>>
      BY Zenon DEF SubmitAnswered, TakeAnswer
<1>3. ASSUME SubmitAnswered PROVE RInv'
  <2>1. PICK e : /\ answer' = [state |-> "ready", event |-> e] /\ UNCHANGED insight
                 /\ e \in {Event("Rejected", "entry", 0), Event("Filled", "entry", venue.filled),
                           Event("Accepted", "entry", 0)}
    <3>1. PICK a, b, c, e : /\ a = Event("Rejected", "entry", 0) /\ b = Event("Filled", "entry", venue.filled)
                            /\ c = Event("Accepted", "entry", 0)
                            /\ e = CASE venue.entry = "rejected" -> a [] venue.entry = "filled" -> b [] OTHER -> c
          BY Zenon
    <3>2. e \in {a, b, c}
          BY SMT, <3>1
    <3>3. answer' = [state |-> "ready", event |-> e] /\ UNCHANGED insight
          BY Zenon, <1>3, <3>1 DEF SubmitAnswered
    <3>. QED  BY Zenon, <3>1, <3>2, <3>3
  <2>2. e \in Reports /\ EntrySide(e) /\ e.kind # "Closed" /\ e.qty <= venue.filled
        BY SMTT(30), <1>1, <2>1 DEF Event, Reports, Kinds, EntrySide
  <2>3. Holds(e)
        BY Zenon, <2>2 DEF Holds
  <2>4. answer' \in Answers /\ answer'.event = e
        BY Zenon, <2>1, <2>2 DEF Answers
  <2>5. \A f \in Evidence' : f \in Evidence \/ f = e
        BY Zenon, <1>2, <2>4 DEF Evidence
  <2>6. Follows(insight')
        BY Zenon, <2>1, ReducedFollows
  <2>. QED  BY Zenon, <1>1, <1>2, <2>2, <2>3, <2>4, <2>5, <2>6, StrategyFrame DEF RInv, Shapes
<1>4. ASSUME TakeAnswer PROVE RInv'
  <2>1. PICK i : i = Reduce(insight, answer.event, "SubmitResponse") /\ Follows(i)
        BY Zenon, ReducedFollows DEF Evidence
  <2>2. insight' = [i EXCEPT !.cancelling = FALSE] \/ insight' = i
        BY Zenon, <1>4, <2>1 DEF TakeAnswer
  <2>3. Follows(insight')
        BY Zenon, <2>1, <2>2, FlagsFollow
  <2>4. answer' \in Answers /\ answer'.event = answer.event
        BY Zenon, <1>1, <1>4 DEF TakeAnswer, Answers
  <2>5. Evidence' = Evidence
        BY Zenon, <1>2, <2>4 DEF Evidence
  <2>. QED  BY Zenon, <1>1, <1>2, <2>3, <2>4, <2>5, StrategyFrame DEF RInv, Shapes
<1>. QED  BY Zenon, <1>3, <1>4

\* A command is sent, or answered without an event of the venue.
LEMMA CommandStep ==
    ASSUME RInv, UNCHANGED setting,
           Cancel \/ Close \/ CancelAcknowledged \/ CancelDeclined \/ CloseDeclined
    PROVE  RInv'
<1>1. native \in Seq(Reports) /\ local \in Seq(Reports) /\ answer \in Answers
      BY Zenon DEF RInv, Shapes
<1>2. UNCHANGED <<venue, native, sent, answer, history>>
      BY Zenon DEF Cancel, Close, CancelAcknowledged, CancelDeclined, CloseDeclined
<1>3. PICK e : e = Event("Cancelled", "entry", 0) /\ e \in Reports /\ Holds(e)
  <2>1. PICK e : e = Event("Cancelled", "entry", 0)
        BY Zenon
  <2>2. e \in Reports /\ EntrySide(e) /\ e.kind = "Cancelled"
        BY Zenon, <2>1 DEF Event, Reports, Kinds, EntrySide
  <2>3. Holds(e)
        BY Zenon, <2>2 DEF Holds
  <2>. QED  BY Zenon, <2>1, <2>2, <2>3
<1>4. local' = local \/ local' = Append(local, e)
      BY Zenon, <1>3 DEF Cancel, Close, CancelAcknowledged, CancelDeclined, CloseDeclined
<1>5. local' \in Seq(Reports) /\ Range(local') \subseteq Range(local) \cup {e}
  <2>1. Append(local, e) \in Seq(Reports) /\ Range(Append(local, e)) \subseteq Range(local) \cup {e}
    <3>1. e \in Reports
          BY Zenon, <1>3
    <3>. QED  BY Zenon, <1>1, <3>1, QueueFacts
  <2>. QED  BY Zenon, <1>1, <1>4, <2>1
<1>6. \A f \in Evidence' : f \in Evidence \/ f = e
      BY Zenon, <1>2, <1>5 DEF Evidence
<1>7. Follows(insight')
  <2>1. \/ insight' = insight
        \/ insight' = [insight EXCEPT !.cancelling = FALSE]
        \/ insight' = [insight EXCEPT !.closing = FALSE]
        \/ /\ insight.state # "Closed"
           /\ \/ insight' = [insight EXCEPT !.cancelling = TRUE, !.suppressed = TRUE]
              \/ insight' = [insight EXCEPT !.closing = TRUE]
        BY Zenon DEF Cancel, Close, CancelAcknowledged, CancelDeclined, CloseDeclined, Pending
  <2>. QED  BY Zenon, <2>1, ReducedFollows, FlagsFollow
<1>. QED  BY Zenon, <1>1, <1>2, <1>3, <1>5, <1>6, <1>7, StrategyFrame DEF RInv, Shapes

\* The history is read, and what it says is believed or not.
LEMMA HistoryStep == ASSUME RInv, UNCHANGED setting, HistoryRead \/ HistoryApply PROVE RInv'
<1>1. native \in Seq(Reports) /\ local \in Seq(Reports) /\ answer \in Answers
      BY Zenon DEF RInv, Shapes
<1>2. UNCHANGED <<venue, native, local, sent>>
      BY Zenon DEF HistoryRead, HistoryApply
<1>3. ASSUME HistoryRead PROVE RInv'
  <2>1. history' = HistoryRow /\ UNCHANGED <<insight, answer>>
        BY Zenon, <1>3 DEF HistoryRead
  <2>2. \A e \in HistoryRow : e \in Reports /\ Holds(e)
    <3>1. PICK a, b, c : /\ a = Event("Rejected", "entry", 0) /\ b = Event("Cancelled", "entry", 0)
                         /\ c = Event("Closed", "entry", 0)
          BY Zenon
    <3>2. HistoryRow = CASE venue.entry = "rejected" -> {a}
                         [] venue.entry = "cancelled" /\ venue.filled = 0 -> {b}
                         [] Flat /\ venue.filled > 0 -> {c}
                         [] OTHER -> {}
          BY Zenon, <3>1 DEF HistoryRow
    <3>3. \A e \in HistoryRow : e = a \/ e = b \/ (e = c /\ Flat)
          BY SMT, <3>2
    <3>4. {a, b, c} \subseteq Reports /\ \A e \in {a, b, c} : EntrySide(e) /\ e.kind \notin {"Filled", "PartialFilled"}
          BY SMTT(30), <3>1 DEF Event, Reports, Kinds, EntrySide
    <3>5. a.kind # "Closed" /\ b.kind # "Closed"
          BY Zenon, <3>1 DEF Event
    <3>. QED  BY Zenon, <3>3, <3>4, <3>5 DEF Holds
  <2>3. \A e \in Evidence' : e \in Evidence \/ e \in HistoryRow
        BY Zenon, <1>2, <2>1 DEF Evidence
  <2>4. Follows(insight')
        BY Zenon, <2>1, ReducedFollows
  <2>. QED  BY Zenon, <1>1, <1>2, <2>1, <2>2, <2>3, <2>4, StrategyFrame DEF RInv, Shapes
<1>4. ASSUME HistoryApply PROVE RInv'
  <2>1. PICK e \in history : insight' = Reduce(insight, e, "TerminalHistory") \/ insight' = insight
        BY Zenon, <1>4 DEF HistoryApply
  <2>2. history' = {} /\ Repoll(insight')
        BY Zenon, <1>4 DEF HistoryApply
  <2>3. Follows(insight')
        BY Zenon, <2>1, ReducedFollows DEF Evidence
  <2>4. answer' \in Answers /\ answer'.event = answer.event
        BY Zenon, <2>2, RepollFacts
  <2>5. Evidence' \subseteq Evidence
        BY Zenon, <1>2, <2>2, <2>4 DEF Evidence
  <2>. QED  BY ZenonT(30), <1>1, <1>2, <2>3, <2>4, <2>5, StrategyFrame DEF RInv, Shapes
<1>. QED  BY Zenon, <1>3, <1>4

(***************************************************************************)
(* The venue.                                                              *)
(***************************************************************************)

\* A new exit adds its quantity to what was closed.
LEMMA SumBump ==
    ASSUME NEW f \in [Exits -> Nat], NEW x \in Exits, NEW q \in Nat
    PROVE  SumFunctionOnSet([f EXCEPT ![x] = @ + q], Exits) = SumFunctionOnSet(f, Exits) + q
<1>0. IsFiniteSet(Exits)
      BY Zenon, ReducerAssumption
<1>1. PICK g, rest : g = [f EXCEPT ![x] = @ + q] /\ rest = Exits \ {x}
      BY Zenon
<1>2. /\ \A y \in Exits : g[y] \in Nat /\ f[y] \in Nat
      /\ \A y \in rest : f[y] = g[y] /\ f[y] \in Nat
      /\ g[x] = f[x] + q
      BY SMTT(30), <1>1
<1>3. IsFiniteSet(rest)
      BY Zenon, <1>0, <1>1, FS_Subset
<1>4. /\ SumFunctionOnSet(g, Exits) = g[x] + SumFunctionOnSet(g, rest)
      /\ SumFunctionOnSet(f, Exits) = f[x] + SumFunctionOnSet(f, rest)
      BY ZenonT(30), <1>0, <1>1, <1>2, SumRemove
<1>5. SumFunctionOnSet(f, rest) = SumFunctionOnSet(g, rest)
      BY Zenon, <1>2, <1>3, SumSame
<1>6. SumFunctionOnSet(f, rest) \in Nat
      BY Zenon, <1>2, <1>3, SumType
<1>7. PICK a, b, c : /\ a = SumFunctionOnSet(g, Exits) /\ b = SumFunctionOnSet(f, Exits)
                     /\ c = SumFunctionOnSet(f, rest)
      BY Zenon
<1>8. a = g[x] + c /\ b = f[x] + c /\ c \in Nat /\ f[x] \in Nat
      BY Zenon, <1>2, <1>4, <1>5, <1>6, <1>7
<1>9. a = b + q
      BY SMTT(30), <1>2, <1>8
<1>. QED  BY Zenon, <1>1, <1>7, <1>9

\* The position is a number.
LEMMA PositionType ==
    ASSUME RInv PROVE Position \in Nat /\ Position <= venue.filled /\ venue \in Venues
<1>1. venue \in Venues /\ Position >= 0
      BY Zenon DEF RInv, Shapes, Books
<1>2. \A x \in Exits : venue.exited[x] \in Nat
      BY Zenon, <1>1 DEF Venues
<1>3. PICK n : n = SumFunctionOnSet(venue.exited, Exits) /\ n \in Nat
      BY Zenon, <1>2, SumType, ReducerAssumption
<1>4. Position = venue.filled - n /\ venue.filled \in Nat
      BY Zenon, <1>1, <1>3 DEF Position, Venues
<1>. QED  BY SMTT(30), <1>1, <1>3, <1>4

\* A step of the venue keeps the invariant if nothing is taken back and what it
\* reports is so.
LEMMA VenueFrame ==
    ASSUME RInv, UNCHANGED <<setting, insight>>, venue' \in Venues, Books',
           venue.filled <= venue'.filled, \A x \in Exits : venue.exited[x] <= venue'.exited[x],
           Flat => Flat', answer' \in Answers, native' \in Seq(Reports), local' \in Seq(Reports),
           \A e \in Evidence' : e \in Evidence \/ (e \in Reports /\ Holds(e)')
    PROVE  RInv'
<1>0. insight \in Insights /\ venue \in Venues
      BY Zenon DEF RInv, Shapes
<1>1. UNCHANGED <<Adapter, PartialEntries, PartialExits>>
      BY Zenon DEF Adapter, PartialEntries, PartialExits
<1>2. WholeDeals' = WholeDeals
      BY Zenon, <1>1 DEF WholeDeals
<1>3. \A e \in Evidence' : e \in Reports
      BY Zenon DEF RInv, Shapes
<1>4. Shapes'
      BY Zenon, <1>3 DEF RInv, Shapes
<1>5. ASSUME NEW e \in Evidence PROVE Holds(e)'
  <2>1. Holds(e) /\ e \in Reports
        BY Zenon DEF RInv, Shapes
  <2>2. EntrySide(e) /\ e.kind \in {"Filled", "PartialFilled"} => e.qty <= venue'.filled
    <3>1. e.qty \in Nat /\ venue.filled \in Nat /\ venue'.filled \in Nat
          BY Zenon, <1>0, <2>1 DEF Reports, Venues
    <3>2. EntrySide(e) /\ e.kind \in {"Filled", "PartialFilled"} => e.qty <= venue.filled
          BY Zenon, <2>1 DEF Holds
    <3>. QED  BY SMTT(30), <3>1, <3>2
  <2>3. ~EntrySide(e) /\ e.kind = "PartialFilled" => e.qty <= venue'.exited[e.order]
    <3>1. ~EntrySide(e) /\ e.kind = "PartialFilled" => e.qty <= venue.exited[e.order]
          BY Zenon, <2>1 DEF Holds
    <3>2. e.qty \in Nat /\ (~EntrySide(e) => e.order \in Exits)
          BY Zenon, <2>1 DEF Reports, EntrySide
    <3>3. \A x \in Exits : venue.exited[x] \in Nat /\ venue'.exited[x] \in Nat
          BY Zenon, <1>0 DEF Venues
    <3>. QED  BY SMTT(30), <3>1, <3>2, <3>3
  <2>4. WholeDeals /\ e.kind = "Closed" => Flat'
        BY Zenon, <2>1 DEF Holds
  <2>5. ~EntrySide(e) => e.kind \in {"PartialFilled", "Closed"}
        BY Zenon, <2>1 DEF Holds
  <2>. QED  BY ZenonT(30), <1>2, <2>2, <2>3, <2>4, <2>5 DEF Holds, EntrySide
<1>6. \A e \in Evidence' : Holds(e)'
      BY Zenon, <1>5
<1>7. BeliefFollowsVenue'
  <2>1. /\ insight.filled \in Nat /\ venue.filled \in Nat /\ venue'.filled \in Nat
        /\ \A x \in Exits : insight.closes[x] \in Nat /\ venue.exited[x] \in Nat /\ venue'.exited[x] \in Nat
        BY Zenon, <1>0 DEF Insights, Venues
  <2>2. insight.filled <= venue.filled /\ \A x \in Exits : insight.closes[x] <= venue.exited[x]
        BY Zenon DEF RInv, BeliefFollowsVenue
  <2>3. insight.filled <= venue'.filled
        BY SMTT(30), <2>1, <2>2
  <2>4. \A x \in Exits : insight.closes[x] <= venue'.exited[x]
        BY SMTT(30), <2>1, <2>2
  <2>. QED  BY Zenon, <2>3, <2>4 DEF BeliefFollowsVenue
<1>8. (WholeDeals => ClosedIsFlat)'
      BY Zenon, <1>2 DEF RInv, ClosedIsFlat
<1>9. insight'.state = "Closed" => ~insight'.cancelling /\ ~insight'.closing
      BY Zenon DEF RInv
<1>. QED  BY ZenonT(30), <1>4, <1>6, <1>7, <1>8, <1>9 DEF RInv

\* A report joins the evidence.
LEMMA EmitFacts ==
    ASSUME RInv, NEW e \in Reports, Emit(e), UNCHANGED <<answer, history>>,
           local' = local \/ local' = Append(local, e)
    PROVE  /\ answer' \in Answers /\ native' \in Seq(Reports) /\ local' \in Seq(Reports)
           /\ \A f \in Evidence' : f \in Evidence \/ f = e
<1>1. native \in Seq(Reports) /\ local \in Seq(Reports) /\ answer \in Answers
      BY Zenon DEF RInv, Shapes
<1>2. /\ Append(local, e) \in Seq(Reports) /\ Range(Append(local, e)) \subseteq Range(local) \cup {e}
      /\ Append(native, e) \in Seq(Reports) /\ Range(Append(native, e)) \subseteq Range(native) \cup {e}
      BY Zenon, <1>1, QueueFacts
<1>3. native' = Append(native, e) /\ sent' = sent \cup {e}
      BY Zenon DEF Emit
<1>4. local' \in Seq(Reports) /\ Range(local') \subseteq Range(local) \cup {e}
      BY Zenon, <1>1, <1>2
<1>5. ASSUME NEW f \in Evidence' PROVE f \in Evidence \/ f = e
  <2>1. f \in sent \cup {e} \/ f = answer.event \/ f \in history \/ f \in Range(native') \/ f \in Range(local')
        BY Zenon, <1>3 DEF Evidence
  <2>2. Range(native') \subseteq Range(native) \cup {e}
        BY Zenon, <1>2, <1>3
  <2>. QED  BY Zenon, <1>4, <2>1, <2>2 DEF Evidence
<1>. QED  BY Zenon, <1>1, <1>2, <1>3, <1>4, <1>5

\* The order is accepted, rejected, replaced or cancelled: nothing is executed.
LEMMA OrderStep ==
    ASSUME RInv, UNCHANGED setting, VenueAccepts \/ VenueRejects \/ VenueReplaces \/ VenueCancels
    PROVE  RInv'
<1>1. venue \in Venues /\ Books
      BY Zenon DEF RInv, Shapes
<1>2. UNCHANGED <<insight, local, answer, history>>
      BY Zenon DEF VenueAccepts, VenueRejects, VenueReplaces, VenueCancels
<1>3. PICK e : /\ Emit(e) /\ e \in Reports /\ EntrySide(e)
               /\ e.kind \in {"Accepted", "Rejected", "Replaced", "Cancelled"}
  <2>1. CASE VenueReplaces
    <3>1. PICK n \in 1..(venue.size - 1) : Emit(Event("Replaced", "entry", n))
          BY Zenon, <2>1 DEF VenueReplaces
    <3>2. n \in Nat
          BY SMTT(30), <3>1
    <3>3. PICK e : e = Event("Replaced", "entry", n)
          BY Zenon
    <3>4. e \in Reports /\ EntrySide(e) /\ e.kind = "Replaced"
          BY Zenon, <3>2, <3>3 DEF Event, Reports, Kinds, EntrySide
    <3>. QED  BY Zenon, <3>1, <3>3, <3>4
  <2>2. CASE ~VenueReplaces
    <3>1. PICK k \in {"Accepted", "Rejected", "Cancelled"} : Emit(Event(k, "entry", 0))
          BY Zenon, <2>2 DEF VenueAccepts, VenueRejects, VenueCancels
    <3>2. PICK e : e = Event(k, "entry", 0)
          BY Zenon
    <3>3. e \in Reports /\ EntrySide(e) /\ e.kind = k
          BY Zenon, <3>2 DEF Event, Reports, Kinds, EntrySide
    <3>. QED  BY Zenon, <3>1, <3>2, <3>3
  <2>. QED  BY Zenon, <2>1, <2>2
<1>4. /\ venue' \in Venues /\ venue'.filled = venue.filled /\ venue'.exited = venue.exited
      /\ venue.entry \in {"none", "working"} /\ venue'.filled <= venue'.size
      /\ venue.filled > 0 /\ PartialEntries = FALSE => venue.entry = "filled"
  <2>1. venue.filled \in Nat /\ venue.filled <= venue.size
        BY Zenon, <1>1 DEF Venues, Books
  <2>2. venue.filled > 0 /\ PartialEntries = FALSE => venue.entry = "filled"
        BY Zenon, <1>1 DEF Books
  <2>3. CASE VenueAccepts
    <3>1. venue.entry = "none" /\ venue' = [venue EXCEPT !.entry = "working"]
          BY Zenon, <2>3 DEF VenueAccepts
    <3>. QED  BY Zenon, <1>1, <2>1, <2>2, <3>1 DEF Venues
  <2>4. CASE VenueRejects
    <3>1. /\ venue.entry \in {"none", "working"} /\ venue' = [venue EXCEPT !.entry = "rejected"]
          /\ venue.filled = 0
          BY Zenon, <2>4 DEF VenueRejects
    <3>. QED  BY Zenon, <1>1, <2>1, <2>2, <3>1 DEF Venues
  <2>5. CASE VenueCancels
    <3>1. venue.entry = "working" /\ venue' = [venue EXCEPT !.entry = "cancelled"]
          BY Zenon, <2>5 DEF VenueCancels
    <3>. QED  BY Zenon, <1>1, <2>1, <2>2, <3>1 DEF Venues
  <2>6. CASE VenueReplaces
    <3>1. PICK n \in 1..(venue.size - 1) : venue' = [venue EXCEPT !.size = n]
          BY Zenon, <2>6 DEF VenueReplaces
    <3>2. venue.entry = "working" /\ venue.filled = 0
          BY Zenon, <2>6 DEF VenueReplaces
    <3>3. n \in Nat
          BY SMTT(30), <3>1
    <3>. QED  BY SMTT(30), <1>1, <2>1, <2>2, <3>1, <3>2, <3>3 DEF Venues
  <2>. QED  BY Zenon, <2>3, <2>4, <2>5, <2>6
<1>5. Position' = Position
      BY Zenon, <1>4 DEF Position
<1>6. PartialEntries' = PartialEntries
      BY Zenon DEF PartialEntries
<1>7. Books'
  <2>1. PartialEntries = FALSE /\ venue.filled > 0 => venue'.entry = "filled"
        BY Zenon, <1>4
  <2>. QED  BY Zenon, <1>1, <1>4, <1>5, <1>6, <2>1 DEF Books
<1>8. Flat => Flat'
      BY Zenon, <1>4 DEF Flat, EntryOver
<1>9. Holds(e)'
      BY Zenon, <1>3 DEF Holds, EntrySide
<1>10. /\ answer' \in Answers /\ native' \in Seq(Reports) /\ local' \in Seq(Reports)
       /\ \A f \in Evidence' : f \in Evidence \/ f = e
      BY Zenon, <1>2, <1>3, EmitFacts
<1>11. venue.filled <= venue'.filled /\ \A x \in Exits : venue.exited[x] <= venue'.exited[x]
      BY SMTT(30), <1>1, <1>4 DEF Venues
<1>12. \A f \in Evidence' : f \in Evidence \/ (f \in Reports /\ Holds(f)')
      BY Zenon, <1>3, <1>9, <1>10
<1>. QED  BY ZenonT(30), <1>2, <1>4, <1>7, <1>8, <1>10, <1>11, <1>12, VenueFrame

\* What an execution takes is something, and no more than there is.
LEMMA PartsFacts ==
    ASSUME NEW partial \in BOOLEAN, NEW n \in Nat, NEW qty \in Parts(partial, n)
    PROVE  qty \in 1..n /\ (partial = FALSE => qty = n)
<1>1. CASE partial = TRUE
      BY Zenon, <1>1 DEF Parts
<1>2. CASE partial = FALSE
      BY SMTT(30), <1>2 DEF Parts
<1>. QED  BY Zenon, <1>1, <1>2

\* The settings are of the kinds the model says.
LEMMA SettingType ==
    ASSUME RInv
    PROVE  /\ PartialEntries \in BOOLEAN /\ PartialExits \in BOOLEAN /\ setting.exits \subseteq Exits
           /\ UNCHANGED setting => UNCHANGED <<Adapter, PartialEntries, PartialExits, WholeDeals>>
      BY Zenon, ReducerAssumption DEF RInv, Shapes, PartialEntries, PartialExits, Adapter, WholeDeals

\* The entry fills, in part or whole.
LEMMA FillStep == ASSUME RInv, UNCHANGED setting, VenueFills PROVE RInv'
<1>1. venue \in Venues /\ Books /\ Position \in Nat
      BY Zenon, PositionType DEF RInv, Shapes
<1>2. UNCHANGED <<insight, local, answer, history>> /\ venue.entry = "working"
      BY Zenon DEF VenueFills
<1>3. PICK qty \in Parts(PartialEntries, venue.size - venue.filled) :
         /\ venue' = [venue EXCEPT !.filled = venue.filled + qty,
                                   !.entry = IF venue.filled + qty = venue.size THEN "filled" ELSE @]
         /\ Emit(EntryReport(qty, venue.filled + qty))
      BY Zenon DEF VenueFills
<1>4. venue.size - venue.filled \in Nat /\ venue.filled \in Nat /\ venue.size \in Nat
      BY SMTT(30), <1>1 DEF Books, Venues
<1>5. qty \in 1..(venue.size - venue.filled) /\ (PartialEntries = FALSE => qty = venue.size - venue.filled)
      BY Zenon, <1>4, PartsFacts, SettingType
<1>6. PICK total : total = venue.filled + qty
      BY Zenon
<1>7. /\ total \in Nat /\ qty \in Nat /\ qty <= total /\ venue.filled <= total /\ total <= venue.size
      /\ PartialEntries = FALSE => total = venue.size
      BY SMTT(30), <1>4, <1>5, <1>6
<1>8. /\ venue' \in Venues /\ venue'.filled = total /\ venue'.exited = venue.exited
      /\ venue'.size = venue.size /\ (total = venue.size => venue'.entry = "filled")
  <2>1. PICK en \in {"filled", "working"} : venue' = [venue EXCEPT !.filled = total, !.entry = en]
                                            /\ (total = venue.size => en = "filled")
    <3>1. venue' = [venue EXCEPT !.filled = total, !.entry = IF total = venue.size THEN "filled" ELSE @]
          BY Zenon, <1>3, <1>6
    <3>2. CASE total = venue.size
      <4>1. venue' = [venue EXCEPT !.filled = total, !.entry = "filled"]
            BY Zenon, <3>1, <3>2
      <4>. QED  BY Zenon, <4>1
    <3>3. CASE total # venue.size
      <4>1. venue' = [venue EXCEPT !.filled = total, !.entry = "working"]
            BY Zenon, <1>1, <1>2, <3>1, <3>3 DEF Venues
      <4>. QED  BY Zenon, <3>3, <4>1
    <3>. QED  BY Zenon, <3>2, <3>3
  <2>. QED  BY Zenon, <1>1, <1>7, <2>1 DEF Venues
<1>9. PICK e : /\ e = EntryReport(qty, total) /\ e \in Reports /\ EntrySide(e)
               /\ e.kind \in {"Filled", "PartialFilled"} /\ e.qty <= total
  <2>1. PICK k \in {"Filled", "PartialFilled"}, n \in {qty, total} : EntryReport(qty, total) = Event(k, "entry", n)
        BY Zenon DEF EntryReport
  <2>2. PICK e : e = Event(k, "entry", n)
        BY Zenon
  <2>3. e \in Reports /\ EntrySide(e) /\ e.kind = k /\ e.qty = n
        BY Zenon, <1>7, <2>1, <2>2 DEF Event, Reports, Kinds, EntrySide
  <2>4. n <= total
        BY SMTT(30), <1>7
  <2>. QED  BY Zenon, <2>1, <2>2, <2>3, <2>4
<1>10. Holds(e)'
  <2>1. e.kind # "Closed"
        BY Zenon, <1>9
  <2>. QED  BY Zenon, <1>8, <1>9, <2>1 DEF Holds, EntrySide
<1>11. Books'
  <2>1. Position' >= 0
    <3>1. PICK n : n = SumFunctionOnSet(venue.exited, Exits)
          BY Zenon
    <3>2. Position = venue.filled - n /\ Position' = total - n
          BY Zenon, <1>8, <3>1 DEF Position
    <3>3. n \in Nat
      <4>1. \A x \in Exits : venue.exited[x] \in Nat
            BY Zenon, <1>1 DEF Venues
      <4>. QED  BY Zenon, <3>1, <4>1, SumType, ReducerAssumption
    <3>. QED  BY SMTT(30), <1>1, <1>4, <1>7, <3>2, <3>3
  <2>. QED  BY ZenonT(30), <1>7, <1>8, <2>1, SettingType DEF Books
<1>12. Flat => Flat'
      BY Zenon, <1>2 DEF Flat, EntryOver
<1>13. /\ answer' \in Answers /\ native' \in Seq(Reports) /\ local' \in Seq(Reports)
       /\ \A f \in Evidence' : f \in Evidence \/ f = e
  <2>1. Emit(e) /\ e \in Reports
        BY Zenon, <1>3, <1>6, <1>9
  <2>. QED  BY Zenon, <1>2, <2>1, EmitFacts
<1>14. venue.filled <= venue'.filled /\ \A x \in Exits : venue.exited[x] <= venue'.exited[x]
      BY SMTT(30), <1>1, <1>7, <1>8 DEF Venues
<1>15. \A f \in Evidence' : f \in Evidence \/ (f \in Reports /\ Holds(f)')
      BY Zenon, <1>9, <1>10, <1>13
<1>. QED  BY Zenon, <1>2, <1>8, <1>11, <1>12, <1>13, <1>14, <1>15, VenueFrame

\* The position is reduced.
LEMMA ExitStep == ASSUME RInv, UNCHANGED setting, NEW x \in setting.exits, VenueExits(x) PROVE RInv'
<1>1. venue \in Venues /\ Books /\ Position \in Nat /\ Position <= venue.filled /\ x \in Exits
      BY Zenon, PositionType, SettingType DEF RInv
<1>2. UNCHANGED <<insight, answer, history>> /\ (Adapter = "mt5" \/ EntryOver)
      BY Zenon DEF VenueExits
<1>3. PICK qty \in Parts(PartialExits, Position) :
         LET e == ExitReport(x, qty, Position - qty) IN
         /\ venue' = [venue EXCEPT !.exited[x] = @ + qty]
         /\ Emit(e)
         /\ local' = local \/ local' = Append(local, e)
      BY Zenon DEF VenueExits
<1>4. qty \in 1..Position /\ (PartialExits = FALSE => qty = Position)
      BY Zenon, <1>1, PartsFacts, SettingType
<1>5. PICK left, more : left = Position - qty /\ more = venue.exited[x] + qty
      BY Zenon
<1>6. /\ qty \in Nat /\ left \in Nat /\ more \in Nat /\ venue.exited[x] <= more
      /\ (PartialExits = FALSE => left = 0) /\ venue.filled > 0 /\ Position # 0
  <2>1. venue.exited[x] \in Nat /\ venue.filled \in Nat
        BY Zenon, <1>1 DEF Venues
  <2>2. qty = Position => left = 0
        BY SMTT(30), <1>1, <1>5
  <2>3. qty \in Nat /\ left \in Nat /\ more \in Nat /\ venue.exited[x] <= more /\ venue.filled > 0 /\ Position # 0
        BY SMTT(30), <1>1, <1>4, <1>5, <2>1
  <2>. QED  BY Zenon, <1>4, <2>2, <2>3
<1>7. /\ venue' \in Venues /\ venue'.filled = venue.filled /\ venue'.size = venue.size
      /\ venue'.entry = venue.entry /\ venue'.exited = [venue.exited EXCEPT ![x] = @ + qty]
      /\ venue'.exited[x] = more /\ \A y \in Exits : venue.exited[y] <= venue'.exited[y]
  <2>1. venue.exited \in [Exits -> Nat] /\ \A y \in Exits : venue.exited[y] \in Nat
        BY Zenon, <1>1 DEF Venues
  <2>2. PICK f : f = [venue.exited EXCEPT ![x] = more]
        BY Zenon
  <2>3. /\ f \in [Exits -> Nat] /\ f[x] = more /\ \A y \in Exits : venue.exited[y] <= f[y]
        /\ f = [venue.exited EXCEPT ![x] = @ + qty]
        BY SMTT(30), <1>1, <1>5, <1>6, <2>1, <2>2
  <2>4. venue' = [venue EXCEPT !.exited = f]
        BY Zenon, <1>1, <1>3, <1>5, <2>2 DEF Venues
  <2>5. /\ venue' \in Venues /\ venue'.filled = venue.filled /\ venue'.size = venue.size
        /\ venue'.entry = venue.entry /\ venue'.exited = f
        BY Zenon, <1>1, <2>3, <2>4 DEF Venues
  <2>. QED  BY Zenon, <2>3, <2>5
<1>8. Position' = left
  <2>1. PICK f : f = venue.exited /\ f \in [Exits -> Nat]
        BY Zenon, <1>1 DEF Venues
  <2>2. SumFunctionOnSet([f EXCEPT ![x] = @ + qty], Exits) = SumFunctionOnSet(f, Exits) + qty
        BY Zenon, <1>1, <1>6, <2>1, SumBump
  <2>3. PICK n : n = SumFunctionOnSet(f, Exits) /\ n \in Nat
    <3>1. \A y \in Exits : f[y] \in Nat
          BY Zenon, <2>1
    <3>. QED  BY Zenon, <3>1, SumType, ReducerAssumption
  <2>4. Position = venue.filled - n /\ Position' = venue.filled - (n + qty)
        BY Zenon, <1>7, <2>1, <2>2, <2>3 DEF Position
  <2>5. venue.filled \in Nat
        BY Zenon, <1>1 DEF Venues
  <2>. QED  BY SMTT(30), <1>5, <1>6, <2>3, <2>4, <2>5
<1>9. EntryOver' = EntryOver
      BY Zenon, <1>7 DEF EntryOver
<1>10. PICK e : e = ExitReport(x, qty, left) /\ e \in Reports /\ Holds(e)'
  <2>0. x # "entry"
        BY Zenon, <1>1, ReducerAssumption
  <2>1. CASE Adapter = "mt5"
    <3>1. PICK e : e = Event("Closed", x, qty)
          BY Zenon
    <3>2. e \in Reports /\ ~EntrySide(e) /\ e.kind = "Closed"
          BY Zenon, <1>1, <1>6, <2>0, <3>1 DEF Event, Reports, Kinds, EntrySide
    <3>3. e = ExitReport(x, qty, left)
          BY Zenon, <2>1, <3>1 DEF ExitReport
    <3>4. WholeDeals => Flat'
      <4>1. WholeDeals => left = 0 /\ venue.entry = "filled"
            BY Zenon, <1>1, <1>6, <2>1 DEF WholeDeals, Books
      <4>. QED  BY Zenon, <1>8, <1>9, <4>1 DEF Flat, EntryOver
    <3>5. "Closed" # "PartialFilled" /\ WholeDeals' = WholeDeals
          BY Zenon, SettingType
    <3>6. Holds(e)'
          BY Zenon, <3>2, <3>4, <3>5 DEF Holds, EntrySide
    <3>. QED  BY Zenon, <3>2, <3>3, <3>6
  <2>2. CASE Adapter # "mt5" /\ left = 0
    <3>1. PICK e : e = Event("Closed", "entry", qty)
          BY Zenon
    <3>2. e \in Reports /\ EntrySide(e) /\ e.kind = "Closed"
          BY Zenon, <1>6, <3>1 DEF Event, Reports, Kinds, EntrySide
    <3>3. e = ExitReport(x, qty, left)
          BY Zenon, <2>2, <3>1 DEF ExitReport
    <3>4. Flat'
          BY Zenon, <1>2, <1>8, <1>9, <2>2 DEF Flat
    <3>5. "Closed" \notin {"Filled", "PartialFilled"}
          BY Zenon
    <3>6. Holds(e)'
          BY Zenon, <3>2, <3>4, <3>5 DEF Holds, EntrySide
    <3>. QED  BY Zenon, <3>2, <3>3, <3>6
  <2>3. CASE Adapter # "mt5" /\ left # 0
    <3>1. PICK e : e = Event("PartialFilled", x, more)
          BY Zenon
    <3>2. e \in Reports /\ ~EntrySide(e) /\ e.kind = "PartialFilled" /\ e.order = x /\ e.qty = more
          BY Zenon, <1>1, <1>6, <2>0, <3>1 DEF Event, Reports, Kinds, EntrySide
    <3>3. e = ExitReport(x, qty, left)
          BY Zenon, <1>5, <2>3, <3>1 DEF ExitReport
    <3>4. "PartialFilled" # "Closed" /\ more <= venue'.exited[x]
          BY SMTT(30), <1>6, <1>7
    <3>5. Holds(e)'
          BY Zenon, <3>2, <3>4 DEF Holds, EntrySide
    <3>. QED  BY Zenon, <3>2, <3>3, <3>5
  <2>. QED  BY Zenon, <2>1, <2>2, <2>3
<1>11. Books'
  <2>1. left >= 0 /\ venue'.filled <= venue'.size
        BY SMTT(30), <1>1, <1>6, <1>7 DEF Books
  <2>. QED  BY Zenon, <1>1, <1>7, <1>8, <2>1, SettingType DEF Books
<1>12. Flat => Flat'
      BY Zenon, <1>6 DEF Flat
<1>13. /\ answer' \in Answers /\ native' \in Seq(Reports) /\ local' \in Seq(Reports)
       /\ \A f \in Evidence' : f \in Evidence \/ f = e
  <2>1. Emit(e) /\ (local' = local \/ local' = Append(local, e)) /\ e \in Reports
        BY ZenonT(30), <1>3, <1>5, <1>10
  <2>. QED  BY Zenon, <1>2, <2>1, EmitFacts
<1>14. venue.filled <= venue'.filled
      BY SMTT(30), <1>1, <1>7 DEF Venues
<1>15. \A f \in Evidence' : f \in Evidence \/ (f \in Reports /\ Holds(f)')
      BY Zenon, <1>10, <1>13
<1>. QED  BY ZenonT(30), <1>2, <1>7, <1>11, <1>12, <1>13, <1>14, <1>15, VenueFrame

(***************************************************************************)
(* The theorems.                                                           *)
(***************************************************************************)

\* The invariant holds before anything is submitted.
LEMMA ReducerInit == Init => RInv
<1>. SUFFICES ASSUME Init PROVE RInv
     BY Zenon
<1>1. PICK zero : zero = [x \in Exits |-> 0] /\ zero \in [Exits -> Nat] /\ \A x \in Exits : zero[x] = 0
  <2>1. PICK zero : zero = [x \in Exits |-> 0]
        BY Zenon
  <2>2. zero \in [Exits -> Nat] /\ \A x \in Exits : zero[x] = 0
        BY Zenon, <2>1
  <2>. QED  BY Zenon, <2>1, <2>2
<1>2. insight \in Insights /\ insight.filled = 0 /\ insight.closes = zero /\ insight.state = "New"
      BY SMTT(30), ReducerAssumption, <1>1 DEF Init, Insights, InsightStates
<1>3. /\ venue \in Venues /\ venue.filled = 0 /\ venue.size = Quantity /\ venue.exited = zero
      BY Zenon, ReducerAssumption, <1>1 DEF Init, Venues
<1>4. PICK e : e = Event("Accepted", "entry", 0) /\ e \in Reports /\ Holds(e)
  <2>1. PICK e : e = Event("Accepted", "entry", 0)
        BY Zenon
  <2>2. e \in Reports /\ EntrySide(e) /\ e.kind = "Accepted"
        BY Zenon, <2>1 DEF Event, Reports, Kinds, EntrySide
  <2>3. Holds(e)
        BY Zenon, <2>2 DEF Holds
  <2>. QED  BY Zenon, <2>1, <2>2, <2>3
<1>5. answer \in Answers /\ answer.event = e /\ native = <<>> /\ local = <<>>
      BY Zenon, <1>4 DEF Init, Answers
<1>6. native \in Seq(Reports) /\ local \in Seq(Reports) /\ Range(native) = {} /\ Range(local) = {}
  <2>1. DOMAIN native = {} /\ DOMAIN local = {} /\ native \in Seq(Reports) /\ local \in Seq(Reports)
        BY SMTT(30), <1>5
  <2>. QED  BY Zenon, <2>1 DEF Range
<1>7. Evidence = {e}
      BY Zenon, <1>5, <1>6 DEF Init, Evidence
<1>8. Shapes
      BY ZenonT(30), <1>2, <1>3, <1>4, <1>5, <1>6, <1>7 DEF Init, Shapes
<1>9. Books
  <2>1. SumFunctionOnSet(zero, Exits) = 0
        BY Zenon, <1>1, SumOfZeros, ReducerAssumption
  <2>2. Position = 0 - 0
        BY Zenon, <1>3, <2>1 DEF Position
  <2>. QED  BY SMTT(30), <1>3, <2>2, ReducerAssumption DEF Books
<1>10. BeliefFollowsVenue
      BY SMTT(30), <1>1, <1>2, <1>3 DEF BeliefFollowsVenue
<1>11. insight.state # "Closed"
      BY Zenon, <1>2
<1>. QED  BY ZenonT(30), <1>4, <1>7, <1>8, <1>9, <1>10, <1>11 DEF RInv, ClosedIsFlat

\* Every step keeps the invariant.
LEMMA ReducerStep == RInv /\ [Next]_vars => RInv'
<1>. SUFFICES ASSUME RInv, [Next]_vars PROVE RInv'
     BY Zenon
<1>1. CASE UNCHANGED vars
  <2>1. UNCHANGED <<setting, venue, insight, answer, native, local, sent, history>>
        BY Zenon, <1>1 DEF vars
  <2>2. Evidence' = Evidence
        BY Zenon, <2>1 DEF Evidence
  <2>3. Follows(insight')
        BY Zenon, <2>1, ReducedFollows
  <2>4. answer' \in Answers /\ native' \in Seq(Reports) /\ local' \in Seq(Reports)
        BY Zenon, <2>1 DEF RInv, Shapes
  <2>. QED  BY ZenonT(30), <2>1, <2>2, <2>3, <2>4, StrategyFrame DEF RInv, Shapes
<1>2. CASE Next
  <2>1. UNCHANGED setting
        BY Zenon, <1>2 DEF Next
  <2>2. CASE Venue
    <3>1. CASE \E x \in setting.exits : VenueExits(x)
          BY Zenon, <2>1, <3>1, ExitStep
    <3>. QED  BY ZenonT(30), <2>1, <2>2, <3>1, OrderStep, FillStep, CommandStep, AnswerStep DEF Venue
  <2>3. CASE Strategy
        BY ZenonT(30), <2>1, <2>3, TakeStep, AnswerStep, CommandStep, HistoryStep DEF Strategy
  <2>4. CASE Lose \/ Redeliver
        BY Zenon, <2>1, <2>4, FaultStep
  <2>. QED  BY Zenon, <1>2, <2>2, <2>3, <2>4 DEF Next
<1>. QED  BY Zenon, <1>1, <1>2

\* The inductive invariant of the reducer and the venue holds in every state.
THEOREM ReducerInvariant == Spec => []RInv
      BY ReducerInit, ReducerStep, PTL DEF Spec

\* No fill and no exit is counted twice by reduce_broker_order, whichever adapter
\* reports it and however often, for any quantity and any exit orders.
THEOREM BeliefAlwaysFollows == Spec => []BeliefFollowsVenue
<1>1. RInv => BeliefFollowsVenue
      BY Zenon DEF RInv
<1>. QED  BY ReducerInvariant, <1>1, PTL

\* A trade the strategy calls Closed has no position left at the venue, if MT5
\* opens and closes the position in one deal each.
THEOREM ClosedIsAlwaysFlat == Spec => [](WholeDeals => ClosedIsFlat)
<1>1. RInv => (WholeDeals => ClosedIsFlat)
      BY Zenon DEF RInv
<1>. QED  BY ReducerInvariant, <1>1, PTL

\* What a report or an answer may make of a trade that filled or ended.
Advances(j, i) ==
    /\ i.state = "Closed" => j = i
    /\ i.state = "Filled" => j.state \in {"Filled", "Closed"}

\* Clearing or raising a flag takes no trade back: a closed one has none to clear.
LEMMA FlagsAdvance ==
    ASSUME NEW i \in Insights, i.state = "Closed" => ~i.cancelling /\ ~i.closing
    PROVE  /\ Advances([i EXCEPT !.cancelling = FALSE], i)
           /\ Advances([i EXCEPT !.closing = FALSE], i)
           /\ i.state # "Closed" => /\ Advances([i EXCEPT !.cancelling = TRUE, !.suppressed = TRUE], i)
                                    /\ Advances([i EXCEPT !.closing = TRUE], i)
<1>1. i.cancelling \in BOOLEAN /\ i.closing \in BOOLEAN
      BY Zenon DEF Insights
<1>2. i.state = "Closed" => i.cancelling = FALSE /\ i.closing = FALSE
      BY Zenon, <1>1
<1>3. PICK a, b, c, d : /\ a = [i EXCEPT !.cancelling = FALSE] /\ b = [i EXCEPT !.closing = FALSE]
                        /\ c = [i EXCEPT !.cancelling = TRUE, !.suppressed = TRUE]
                        /\ d = [i EXCEPT !.closing = TRUE]
      BY Zenon
<1>4. /\ a.state = i.state /\ b.state = i.state /\ c.state = i.state /\ d.state = i.state
      /\ i.cancelling = FALSE => a = i
      /\ i.closing = FALSE => b = i
      BY Zenon, <1>3 DEF Insights
<1>5. Advances(a, i) /\ Advances(b, i) /\ (i.state # "Closed" => Advances(c, i) /\ Advances(d, i))
      BY Zenon, <1>2, <1>4 DEF Advances
<1>. QED  BY Zenon, <1>3, <1>5

\* No step takes a trade back.
LEMMA StepAdvances == RInv /\ [Next]_vars => Advances(insight', insight)
<1>. SUFFICES ASSUME RInv, [Next]_vars PROVE Advances(insight', insight)
     BY Zenon
<1>1. insight \in Insights /\ (insight.state = "Closed" => ~insight.cancelling /\ ~insight.closing)
      BY Zenon DEF RInv, Shapes
<1>2. ASSUME UNCHANGED insight PROVE Advances(insight', insight)
      BY Zenon, <1>2 DEF Advances
<1>3. ASSUME NEW e \in Evidence, NEW source PROVE Reduces(Reduce(insight, e, source), insight, e)
      BY Zenon, <1>1, ReduceFacts DEF RInv, Shapes
<1>4. ASSUME NEW e \in Evidence, NEW source, insight' = Reduce(insight, e, source)
      PROVE  Advances(insight', insight)
      BY Zenon, <1>3, <1>4 DEF Reduces, Advances
<1>5. ASSUME TakeNative PROVE Advances(insight', insight)
  <2>1. Head(native) \in Range(native)
        BY Zenon, <1>5, QueueFacts DEF TakeNative, RInv, Shapes
  <2>. QED  BY Zenon, <1>4, <1>5, <2>1 DEF TakeNative, Evidence
<1>6. ASSUME TakeLocal PROVE Advances(insight', insight)
  <2>1. Head(local) \in Range(local)
        BY Zenon, <1>6, QueueFacts DEF TakeLocal, RInv, Shapes
  <2>. QED  BY Zenon, <1>4, <1>6, <2>1 DEF TakeLocal, Evidence
<1>7. ASSUME TakeAnswer PROVE Advances(insight', insight)
  <2>1. PICK i : i = Reduce(insight, answer.event, "SubmitResponse") /\ Reduces(i, insight, answer.event)
        BY Zenon, <1>3 DEF Evidence
  <2>2. insight' = i \/ (insight' = [i EXCEPT !.cancelling = FALSE] /\ i.state \notin Inactive)
        BY Zenon, <1>7, <2>1 DEF TakeAnswer
  <2>3. CASE insight' = i
        BY Zenon, <2>1, <2>3 DEF Reduces, Advances
  <2>4. CASE insight' = [i EXCEPT !.cancelling = FALSE] /\ i.state \notin Inactive
    <3>1. i \in Insights /\ i.state # "Closed"
          BY Zenon, <2>1, <2>4 DEF Reduces, Inactive
    <3>2. insight'.state = i.state
          BY Zenon, <2>4, <3>1 DEF Insights
    <3>. QED  BY Zenon, <2>1, <3>1, <3>2 DEF Reduces, Advances
  <2>. QED  BY Zenon, <2>2, <2>3, <2>4
<1>8. ASSUME HistoryApply PROVE Advances(insight', insight)
  <2>1. PICK e \in history : insight' = Reduce(insight, e, "TerminalHistory") \/ insight' = insight
        BY Zenon, <1>8 DEF HistoryApply
  <2>. QED  BY Zenon, <1>2, <1>4, <2>1 DEF Evidence
<1>9. ASSUME Cancel \/ Close \/ CancelDeclined \/ CloseDeclined PROVE Advances(insight', insight)
  <2>1. \/ insight' = [insight EXCEPT !.cancelling = FALSE]
        \/ insight' = [insight EXCEPT !.closing = FALSE]
        \/ /\ insight.state # "Closed"
           /\ \/ insight' = [insight EXCEPT !.cancelling = TRUE, !.suppressed = TRUE]
              \/ insight' = [insight EXCEPT !.closing = TRUE]
        BY Zenon, <1>9 DEF Cancel, Close, CancelDeclined, CloseDeclined, Pending
  <2>. QED  BY Zenon, <1>1, <2>1, FlagsAdvance
<1>10. CASE UNCHANGED vars
       BY Zenon, <1>2, <1>10 DEF vars
<1>11. ASSUME Venue PROVE Advances(insight', insight)
  <2>1. CancelDeclined \/ CloseDeclined \/ UNCHANGED insight
        BY Zenon, <1>11 DEF Venue, VenueAccepts, VenueRejects, VenueReplaces, VenueFills, VenueCancels,
                            VenueExits, CancelAcknowledged, SubmitAnswered
  <2>. QED  BY Zenon, <1>2, <1>9, <2>1
<1>12. ASSUME Strategy PROVE Advances(insight', insight)
  <2>1. HistoryRead => UNCHANGED insight
        BY Zenon DEF HistoryRead
  <2>. QED  BY ZenonT(30), <1>2, <1>5, <1>6, <1>7, <1>8, <1>9, <1>12, <2>1 DEF Strategy
<1>13. ASSUME Lose \/ Redeliver PROVE Advances(insight', insight)
       BY Zenon, <1>2, <1>13 DEF Lose, Redeliver
<1>. QED  BY Zenon, <1>10, <1>11, <1>12, <1>13 DEF Next

\* A closed trade never changes again and a position only ever becomes closed,
\* whatever is reported late, twice or out of order: no reduction takes an
\* insight back.
THEOREM TradesAlwaysAdvance == Spec => TradesOnlyAdvance
<1>1. RInv /\ [Next]_vars =>
         [/\ insight.state = "Closed" => insight' = insight
          /\ insight.state = "Filled" => insight'.state \in {"Filled", "Closed"}]_vars
      BY Zenon, StepAdvances DEF Advances
<1>. QED  BY ReducerInvariant, <1>1, PTL DEF Spec, TradesOnlyAdvance
=============================================================================
