------------------------ MODULE OrderReducerSettles ------------------------
(***************************************************************************)
(* Proofs that the reducer catches up: if no report was lost, then once    *)
(* all were reduced the belief is the truth, and no flag waits for         *)
(* anything.                                                               *)
(***************************************************************************)
EXTENDS OrderReducerProofs

(***************************************************************************)
(* The inductive invariant: what the belief lacks is in the trade stream.  *)
(***************************************************************************)

\* The reports that the belief may still lack.
AcceptReports == {e \in Reports : e.kind = "Accepted"}
FillReports == {e \in Reports : Fill(e)}
EndReports == {e \in Reports : EndsEntry(e)}
CloseReports == {e \in Reports : e.kind = "Closed"}
\* The reports with the latest quantity of the entry, and of an exit order.
LastParts == {e \in Reports : Part(e) /\ e.qty = venue.filled}
LastExits(x) == {e \in Reports : e.kind = "PartialFilled" /\ e.order = x /\ e.qty = venue.exited[x]}

\* A report that leaves a pending entry pending, unless it fills it.
Early(e) == ~Exit(e) /\ ~EndsEntry(e)

\* A report of R is in the queue; one of R is there with nothing but early ones
\* before it; one of R is, with one of P before it.
Has(q, R) == \E n \in DOMAIN q : q[n] \in R
Comes(q, R) == \E n \in DOMAIN q : q[n] \in R /\ \A m \in 1..(n - 1) : Early(q[m])
Follow(q, P, R) ==
    \E n \in DOMAIN q : /\ q[n] \in R /\ \A m \in 1..(n - 1) : Early(q[m])
                        /\ \E k \in 1..(n - 1) : q[k] \in P

\* What was reported: a fill is the whole entry, an exit follows the end of the
\* entry, and the entry ended as the venue says it did.  Only the MT5 adapter
\* reports a cancellation that the venue has not made, of an order it knows.
Told(e) ==
    /\ Fill(e) => venue.entry = "filled" /\ e.qty = venue.filled
    /\ Exit(e) => EntryOver /\ venue.filled > 0
    /\ Part(e) => Adapter # "mt5"
Ended(e) ==
    /\ e.kind = "Cancelled" => venue.entry = "cancelled"
    /\ e.kind = "Rejected" => venue.entry = "rejected"
Dated == sent \cup {answer.event} \cup history \cup Range(native)
Reported ==
    /\ \A e \in Evidence : Told(e)
    /\ \A e \in Dated : Ended(e)
    /\ \A e \in history : EndsEntry(e) => venue.filled = 0
    /\ \A e \in Range(local) : EndsEntry(e) => Adapter = "mt5" /\ insight.known

\* The venue's books, as far as they say how an entry ended.
Ending ==
    /\ venue.size > 0
    /\ venue.entry = "filled" => venue.filled = venue.size
    /\ venue.entry \in {"none", "rejected"} => venue.filled = 0
    /\ EntryOver \/ \A x \in Exits : venue.exited[x] = 0

\* What belief i still lacks is in the queue q, in the order in which it is needed.
Opened(i) == i.state = "Filled" => EntryOver /\ i.filled = venue.filled /\ venue.filled > 0
Dropped(i, q) ==
    i.state \in {"Cancelled", "Rejected"} =>
        (Adapter = "mt5" \/ EntryOver) /\ (venue.filled = 0 \/ Comes(q, FillReports))
EndIn(i, q) ==
    \/ i.filled = venue.filled /\ Comes(q, EndReports)
    \/ Follow(q, LastParts, EndReports)
Awaits(i, q) ==
    Pending(i) =>
        /\ Adapter = "mt5" => i.filled = 0
        /\ EntryOver \/ i.filled = venue.filled \/ Has(q, LastParts)
        /\ venue.entry = "filled" => Comes(q, FillReports)
        /\ venue.entry \in {"cancelled", "rejected"} => EndIn(i, q)
ExitsIn(i, q) ==
    Position = 0 \/ \A x \in Exits : i.closes[x] = venue.exited[x] \/ Has(q, LastExits(x))
CloseIn(i, q) ==
    Position = 0 /\ venue.filled > 0 => i.state = "Closed" \/ Has(q, CloseReports)
Lacks(i, q) == Opened(i) /\ Dropped(i, q) /\ Awaits(i, q) /\ ExitsIn(i, q) /\ CloseIn(i, q)

\* A flag that is set has its reason.
Flagged(i) ==
    /\ i.closing =>
          /\ i.state = "Filled"
          /\ "close" \in asked \/ Position = 0 \/ \E x \in Exits : i.closes[x] < venue.exited[x]
    /\ i.cancelling => Pending(i)
    /\ "cancel" \in asked => i.known

\* The order was never accepted.
Unaccepted == \A e \in sent : e.kind # "Accepted"
\* The receipt is settled when it is taken: before, either the acceptance is
\* still to come, or the order was rejected at once.
Receipt ==
    /\ answer.state # "retained"
    /\ answer.event.kind \in {"Accepted", "Filled", "Rejected"} /\ EntrySide(answer.event)
    /\ answer.state # "none" => venue.entry # "none"
    /\ Unaccepted => /\ venue.entry \in {"none", "rejected"}
                     /\ answer.state # "none" => answer.event.kind = "Rejected"
Unbound(i, q) ==
    \/ i.known \/ answer.state = "consumed"
    \/ i.state = "New" /\ Comes(q, AcceptReports)
    \/ /\ Unaccepted
       /\ i.state = "New" \/ (i.state = "Rejected" /\ venue.entry = "rejected")

Agreeing ==
    /\ Reported /\ Ending
    /\ Lacks(insight, native)
    /\ Flagged(insight)
    /\ Receipt /\ Unbound(insight, native)
SInv == lost \in Nat /\ (lost = 0 /\ WholeDeals => Agreeing)

\* What a queue says stays true when a report joins it.
LEMMA Later ==
    ASSUME NEW S, NEW q \in Seq(S), NEW e \in S, NEW P, NEW R
    PROVE  /\ Has(q, R) => Has(Append(q, e), R)
           /\ Comes(q, R) => Comes(Append(q, e), R)
           /\ Follow(q, P, R) => Follow(Append(q, e), P, R)
           /\ e \in R => Has(Append(q, e), R)
           /\ e \in R /\ (\A f \in Range(q) : Early(f)) =>
                 Comes(Append(q, e), R) /\ (Has(q, P) => Follow(Append(q, e), P, R))
<1>1. PICK a, l : a = Append(q, e) /\ l = Len(q) + 1
      BY Zenon
<1>2. \A n \in DOMAIN q : /\ n \in DOMAIN a /\ a[n] = q[n]
                          /\ \A m \in 1..(n - 1) : m \in DOMAIN q /\ a[m] = q[m]
      BY SMTT(30), <1>1
<1>3. /\ l \in DOMAIN a /\ a[l] = e
      /\ \A m \in 1..(l - 1) : m \in DOMAIN q /\ a[m] = q[m]
      /\ \A k \in DOMAIN q : k \in 1..(l - 1)
      BY SMTT(30), <1>1
<1>4. Has(q, R) => Has(a, R)
      BY Zenon, <1>2 DEF Has
<1>5. Comes(q, R) => Comes(a, R)
      BY Zenon, <1>2 DEF Comes
<1>6. Follow(q, P, R) => Follow(a, P, R)
      BY Zenon, <1>2 DEF Follow
<1>7. e \in R => Has(a, R)
      BY Zenon, <1>3 DEF Has
<1>8. ASSUME e \in R, \A f \in Range(q) : Early(f)
      PROVE  Comes(a, R) /\ (Has(q, P) => Follow(a, P, R))
  <2>1. \A m \in 1..(l - 1) : Early(a[m])
        BY Zenon, <1>3, <1>8 DEF Range
  <2>2. Comes(a, R)
        BY Zenon, <1>3, <1>8, <2>1 DEF Comes
  <2>3. ASSUME Has(q, P) PROVE Follow(a, P, R)
    <3>1. PICK k \in 1..(l - 1) : a[k] \in P
          BY Zenon, <1>3, <2>3 DEF Has
    <3>. QED  BY Zenon, <1>3, <1>8, <2>1, <3>1 DEF Follow
  <2>. QED  BY Zenon, <2>2, <2>3
<1>. QED  BY Zenon, <1>1, <1>4, <1>5, <1>6, <1>7, <1>8

\* When the first report leaves the queue, it was the one or the rest has it.
LEMMA Sooner ==
    ASSUME NEW S, NEW q \in Seq(S), q # <<>>, NEW P, NEW R
    PROVE  /\ Has(q, R) => Head(q) \in R \/ Has(Tail(q), R)
           /\ Comes(q, R) => Head(q) \in R \/ (Early(Head(q)) /\ Comes(Tail(q), R))
           /\ Follow(q, P, R) => /\ Early(Head(q))
                                 /\ Follow(Tail(q), P, R) \/ (Head(q) \in P /\ Comes(Tail(q), R))
<1>1. PICK h, t : h = Head(q) /\ t = Tail(q)
      BY Zenon
<1>2. q[1] = h /\ DOMAIN q = 1..Len(q) /\ DOMAIN t = 1..(Len(q) - 1) /\ Len(q) \in Nat
      /\ \A n \in 1..(Len(q) - 1) : t[n] = q[n + 1]
      BY SMTT(30), <1>1
<1>3. ASSUME NEW n \in DOMAIN q, n # 1
      PROVE  /\ n - 1 \in DOMAIN t /\ t[n - 1] = q[n] /\ 1 \in 1..(n - 1)
             /\ \A m \in 1..((n - 1) - 1) : m + 1 \in 1..(n - 1) /\ t[m] = q[m + 1]
             /\ \A k \in 1..(n - 1) : k = 1 \/ (k - 1 \in 1..((n - 1) - 1) /\ t[k - 1] = q[k])
      BY SMTT(30), <1>2, <1>3
<1>4. Has(q, R) => h \in R \/ Has(t, R)
      BY Zenon, <1>2, <1>3 DEF Has
<1>5. Comes(q, R) => h \in R \/ (Early(h) /\ Comes(t, R))
  <2>. SUFFICES ASSUME NEW n \in DOMAIN q, q[n] \in R, \A m \in 1..(n - 1) : Early(q[m]), n # 1
                PROVE  Early(h) /\ Comes(t, R)
       BY Zenon, <1>2 DEF Comes
  <2>1. Early(h)
        BY Zenon, <1>2, <1>3
  <2>2. \A m \in 1..((n - 1) - 1) : Early(t[m])
        BY Zenon, <1>3
  <2>. QED  BY Zenon, <1>3, <2>1, <2>2 DEF Comes
<1>6. ASSUME Follow(q, P, R)
      PROVE  Early(h) /\ (Follow(t, P, R) \/ (h \in P /\ Comes(t, R)))
  <2>1. PICK n \in DOMAIN q : /\ q[n] \in R /\ \A m \in 1..(n - 1) : Early(q[m])
                              /\ \E k \in 1..(n - 1) : q[k] \in P
        BY Zenon, <1>6 DEF Follow
  <2>2. PICK k \in 1..(n - 1) : q[k] \in P
        BY Zenon, <2>1
  <2>3. n # 1
        BY SMTT(30), <2>2
  <2>4. Early(h)
        BY Zenon, <1>2, <1>3, <2>1, <2>3
  <2>5. \A m \in 1..((n - 1) - 1) : Early(t[m])
        BY Zenon, <1>3, <2>1, <2>3
  <2>6. Comes(t, R)
        BY Zenon, <1>3, <2>1, <2>3, <2>5 DEF Comes
  <2>7. CASE k = 1
        BY Zenon, <1>2, <2>2, <2>4, <2>6, <2>7
  <2>8. CASE k # 1
    <3>1. k - 1 \in 1..((n - 1) - 1) /\ t[k - 1] = q[k]
          BY Zenon, <1>3, <2>2, <2>3, <2>8
    <3>2. n - 1 \in DOMAIN t /\ t[n - 1] \in R
          BY Zenon, <1>3, <2>1, <2>3
    <3>3. Follow(t, P, R)
          BY Zenon, <2>2, <2>5, <3>1, <3>2 DEF Follow
    <3>. QED  BY Zenon, <2>4, <3>3
  <2>. QED  BY Zenon, <2>7, <2>8
<1>. QED  BY Zenon, <1>1, <1>4, <1>5, <1>6

\* The report at the head of the queue is true; it is about an exit only when the
\* position is known, and it ends the entry only when the rest of it is.
LEMMA FirstReport ==
    ASSUME RInv, Agreeing, native # <<>>, NEW e, e = Head(native)
    PROVE  /\ e \in Reports /\ Holds(e) /\ Told(e) /\ Ended(e)
           /\ Exit(e) => insight.state \in {"Filled", "Closed"}
           /\ EndsEntry(e) /\ Pending(insight) => EntryOver /\ insight.filled = venue.filled
<1>1. native \in Seq(Reports) /\ insight.state \in InsightStates
      BY Zenon DEF RInv, Shapes, Insights
<1>2. e \in Range(native)
      BY Zenon, <1>1, QueueFacts
<1>3. e \in Reports /\ Holds(e) /\ Told(e) /\ Ended(e)
      BY Zenon, <1>2 DEF RInv, Shapes, Evidence, Agreeing, Reported, Dated
<1>4. /\ \A R : Comes(native, R) => e \in R \/ Early(e)
      /\ \A P, R : Follow(native, P, R) => Early(e)
      BY Zenon, <1>1, Sooner
<1>5. Dropped(insight, native) /\ Awaits(insight, native)
      BY Zenon DEF Agreeing, Lacks
<1>6. ASSUME Exit(e) PROVE insight.state \in {"Filled", "Closed"}
  <2>1. EntryOver /\ venue.filled # 0
    <3>1. EntryOver /\ venue.filled > 0
          BY Zenon, <1>3, <1>6 DEF Told
    <3>. QED  BY SMTT(30), <3>1
  <2>2. ~Early(e) /\ e \notin FillReports /\ e \notin EndReports
        BY Zenon, <1>6 DEF Early, Exit, Reduction, FillReports, EndReports, Fill, EndsEntry
  <2>3. /\ \A R \in {FillReports, EndReports} : ~Comes(native, R)
        /\ ~Follow(native, LastParts, EndReports)
        BY Zenon, <1>4, <2>2
  <2>4. insight.state \notin {"Cancelled", "Rejected"}
        BY Zenon, <1>5, <2>1, <2>3 DEF Dropped
  <2>5. ~Pending(insight)
        BY Zenon, <1>5, <2>1, <2>3 DEF Awaits, EndIn, EntryOver
  <2>. QED  BY Zenon, <1>1, <2>4, <2>5 DEF Pending, InsightStates
<1>7. ASSUME EndsEntry(e), Pending(insight) PROVE EntryOver /\ insight.filled = venue.filled
  <2>1. venue.entry \in {"cancelled", "rejected"}
        BY Zenon, <1>3, <1>7 DEF Ended, EndsEntry
  <2>2. ~Early(e)
        BY Zenon, <1>7 DEF Early
  <2>3. insight.filled = venue.filled
        BY Zenon, <1>4, <1>5, <1>7, <2>1, <2>2 DEF Awaits, EndIn
  <2>. QED  BY Zenon, <2>1, <2>3 DEF EntryOver
<1>. QED  BY Zenon, <1>3, <1>6, <1>7

\* A position with its exact quantity has room for every exit that is reported,
\* and with all of them it is the venue's.
LEMMA ExitFits ==
    ASSUME RInv, insight.state = "Filled", insight.filled = venue.filled, venue.filled > 0
    PROVE  /\ Remaining(insight) \in Nat
           /\ \A e \in Reports : Reduction(e) /\ Holds(e) => NewlyClosed(insight, e) <= Remaining(insight)
           /\ (\A x \in Exits : insight.closes[x] = venue.exited[x]) => Remaining(insight) = Position
<1>1. /\ venue.filled \in Nat /\ venue.exited \in [Exits -> Nat] /\ insight.closes \in [Exits -> Nat]
      /\ \A x \in Exits : insight.closes[x] <= venue.exited[x]
      /\ Position \in Nat
      BY Zenon, PositionType DEF RInv, Shapes, Venues, Insights, BeliefFollowsVenue
<1>2. PICK c, d, a, b : /\ c = insight.closes /\ d = venue.exited
                        /\ a = SumFunctionOnSet(c, Exits) /\ b = SumFunctionOnSet(d, Exits)
      BY Zenon
<1>3. c \in [Exits -> Nat] /\ d \in [Exits -> Nat] /\ \A x \in Exits : c[x] \in Nat /\ d[x] \in Nat /\ c[x] <= d[x]
      BY Zenon, <1>1, <1>2
<1>4. a \in Nat /\ b \in Nat
      BY Zenon, <1>2, <1>3, SumType, ReducerAssumption
<1>5. Position = venue.filled - b
      BY Zenon, <1>2 DEF Position
<1>6. Remaining(insight) = IF venue.filled - a > 0 THEN venue.filled - a ELSE 0
  <2>1. (IF insight.state \in {"Filled", "Closed"} /\ insight.filled > 0
         THEN insight.filled ELSE insight.quantity) = venue.filled
        BY Zenon
  <2>. QED  BY Zenon, <1>2, <2>1 DEF Remaining
<1>7. Remaining(insight) \in Nat
      BY SMTT(30), <1>1, <1>4, <1>6
<1>8. ASSUME NEW e \in Reports, Reduction(e), Holds(e)
      PROVE  NewlyClosed(insight, e) <= Remaining(insight)
  <2>1. PICK x \in Exits, n \in Nat : x = e.order /\ n = e.qty /\ n <= d[x]
        BY Zenon, <1>2, <1>8 DEF Reports, Reduction, EntrySide, Holds
  <2>2. NewlyClosed(insight, e) = n - c[x]
        BY Zenon, <1>2, <2>1 DEF NewlyClosed
  <2>3. CASE n <= c[x]
    <3>1. n - c[x] <= 0
          BY SMTT(30), <1>3, <2>1, <2>3
    <3>. QED  BY SMTT(30), <1>3, <1>7, <2>1, <2>2, <3>1
  <2>4. CASE n > c[x]
    <3>1. PICK k \in Nat : k = n - c[x]
          BY SMTT(30), <1>3, <2>1, <2>4
    <3>2. PICK g : g = [c EXCEPT ![x] = @ + k]
          BY Zenon
    <3>3. SumFunctionOnSet(g, Exits) = a + k
          BY Zenon, <1>2, <1>3, <3>2, SumBump
    <3>4. \A y \in Exits : g[y] \in Nat /\ d[y] \in Nat /\ g[y] <= d[y]
          BY SMTT(30), <1>3, <2>1, <2>4, <3>1, <3>2
    <3>5. SumFunctionOnSet(g, Exits) <= SumFunctionOnSet(d, Exits)
          BY Zenon, <3>4, SumDominated, ReducerAssumption
    <3>6. a + k <= b
          BY Zenon, <1>2, <3>3, <3>5
    <3>. QED  BY SMTT(30), <1>1, <1>4, <1>5, <1>6, <2>2, <3>1, <3>6
  <2>. QED  BY SMTT(30), <1>3, <2>1, <2>3, <2>4
<1>9. ASSUME \A x \in Exits : insight.closes[x] = venue.exited[x] PROVE Remaining(insight) = Position
  <2>1. \A x \in Exits : c[x] = d[x]
        BY Zenon, <1>2, <1>9
  <2>2. a = b
    <3>1. IsFiniteSet(Exits) /\ \A x \in Exits : c[x] \in Nat
          BY Zenon, <1>3, ReducerAssumption
    <3>2. SumFunctionOnSet(c, Exits) = SumFunctionOnSet(d, Exits)
          BY Zenon, <2>1, <3>1, SumSame
    <3>. QED  BY Zenon, <1>2, <3>2
  <2>. QED  BY SMTT(30), <1>1, <1>4, <1>5, <1>6, <2>2
<1>. QED  BY Zenon, <1>8, <1>9, <1>7

\* The queue goes on as t when e is reduced: e was its first report, or e came from
\* elsewhere and it is as it was.
Leaves(t, e, first) ==
    /\ \A R : Has(native, R) => Has(t, R) \/ (first /\ e \in R)
    /\ \A R : Comes(native, R) => (Comes(t, R) /\ (first => Early(e))) \/ (first /\ e \in R)
    /\ \A P, R : Follow(native, P, R) => Follow(t, P, R) \/ (first /\ e \in P /\ Comes(t, R))

\* What must be so for e to end a pending entry.
MayEnd(e, t) ==
    EndsEntry(e) /\ Pending(insight) =>
        /\ Adapter = "mt5" \/ EntryOver
        /\ insight.filled > 0 => EntryOver /\ insight.filled = venue.filled
        /\ insight.filled = 0 => venue.filled = 0 \/ Comes(t, FillReports)

\* A true report leaves nothing lacking that was not.
LEMMA HearLacks ==
    ASSUME RInv, Agreeing, NEW e \in Reports, Holds(e), Told(e),
           NEW first, NEW source, NEW t, NEW j,
           first => source = "TradeStream" /\ (Exit(e) => insight.state \in {"Filled", "Closed"}),
           Leaves(t, e, first), MayEnd(e, t), WholeDeals, Becomes(j, insight, e, source)
    PROVE  Lacks(j, t)
<1>1. /\ insight \in Insights /\ venue \in Venues /\ insight.filled <= venue.filled
      /\ \A x \in Exits : insight.closes[x] <= venue.exited[x]
      BY Zenon DEF RInv, Shapes, BeliefFollowsVenue
<1>2. /\ insight.filled \in Nat /\ venue.filled \in Nat /\ e.qty \in Nat
      /\ \A x \in Exits : insight.closes[x] \in Nat /\ venue.exited[x] \in Nat
      /\ insight.closes \in [Exits -> Nat]
      BY Zenon, <1>1 DEF Insights, Venues, Reports
<1>3. /\ Opened(insight) /\ Dropped(insight, native) /\ Awaits(insight, native)
      /\ ExitsIn(insight, native) /\ CloseIn(insight, native) /\ Ending
      BY Zenon DEF Agreeing, Lacks
<1>4. \/ Ends(j, insight, e) \/ Opens(j, insight, e) \/ Works(j, insight, e)
      \/ Shrinks(j, insight, e) \/ Drops(j, insight, e) \/ Stays(j, insight, e, source)
      BY Zenon DEF Becomes
<1>5. Opened(j)
  <2>. SUFFICES ASSUME j.state = "Filled" PROVE EntryOver /\ j.filled = venue.filled /\ venue.filled > 0
       BY Zenon DEF Opened
  <2>1. CASE Opens(j, insight, e) /\ Fill(e) /\ j.filled = e.qty
    <3>1. venue.entry = "filled" /\ e.qty = venue.filled /\ venue.filled = venue.size /\ venue.size > 0
          BY Zenon, <1>3, <2>1 DEF Told, Ending
    <3>. QED  BY Zenon, <2>1, <3>1 DEF EntryOver
  <2>2. CASE Pending(insight) /\ EndsEntry(e) /\ insight.filled > 0 /\ j.filled = insight.filled
        BY Zenon, <2>2 DEF MayEnd
  <2>3. CASE insight.state = "Filled" /\ j.filled = insight.filled
        BY Zenon, <1>3, <2>3 DEF Opened
  <2>4. Opens(j, insight, e) \/ (insight.state = "Filled" /\ j.filled = insight.filled)
        BY Zenon, <1>4 DEF Ends, Works, Shrinks, Drops, Stays, EndsEntry
  <2>. QED  BY Zenon, <2>1, <2>2, <2>3, <2>4 DEF Opens
<1>6. Dropped(j, t)
  <2>. SUFFICES ASSUME j.state \in {"Cancelled", "Rejected"}
                PROVE  (Adapter = "mt5" \/ EntryOver) /\ (venue.filled = 0 \/ Comes(t, FillReports))
       BY Zenon DEF Dropped
  <2>1. Drops(j, insight, e) \/ Stays(j, insight, e, source)
        BY Zenon, <1>4 DEF Ends, Opens, Works, Shrinks
  <2>2. CASE Drops(j, insight, e)
        BY Zenon, <2>2 DEF Drops, MayEnd
  <2>3. CASE Stays(j, insight, e, source)
    <3>1. insight.state \in {"Cancelled", "Rejected"} /\ ~Fill(e)
          BY Zenon, <2>3 DEF Stays
    <3>2. e \notin FillReports
          BY Zenon, <3>1 DEF FillReports
    <3>. QED  BY Zenon, <1>3, <3>1, <3>2 DEF Dropped, Leaves
  <2>. QED  BY Zenon, <2>1, <2>2, <2>3
<1>7. Awaits(j, t)
  <2>. SUFFICES ASSUME Pending(j)
                PROVE  /\ Adapter = "mt5" => j.filled = 0
                       /\ EntryOver \/ j.filled = venue.filled \/ Has(t, LastParts)
                       /\ venue.entry = "filled" => Comes(t, FillReports)
                       /\ venue.entry \in {"cancelled", "rejected"} => EndIn(j, t)
       BY Zenon DEF Awaits
  <2>1. Works(j, insight, e) \/ Stays(j, insight, e, source)
        BY Zenon, <1>4 DEF Ends, Opens, Shrinks, Drops, Pending, EndsEntry
  <2>2. /\ Pending(insight) /\ ~Fill(e) /\ ~EndsEntry(e)
        /\ j.filled = insight.filled \/ (Part(e) /\ e.qty > insight.filled /\ j.filled = e.qty)
        /\ j.filled = insight.filled /\ Part(e) => ~(e.qty > insight.filled)
    <3>1. CASE Works(j, insight, e)
      <4>1. e.qty > insight.filled => e.qty # insight.filled
            BY SMTT(30), <1>2
      <4>. QED  BY Zenon, <3>1, <4>1 DEF Works, Fill, Part, EndsEntry
    <3>2. CASE Stays(j, insight, e, source)
      <4>1. Pending(insight) /\ insight.state \notin {"Filled", "Closed"}
            BY Zenon, <3>2 DEF Stays, Pending
      <4>. QED  BY Zenon, <3>2, <4>1 DEF Stays
    <3>. QED  BY Zenon, <2>1, <3>1, <3>2
  <2>3. e \notin FillReports /\ e \notin EndReports
        BY Zenon, <2>2 DEF FillReports, EndReports
  <2>4. Part(e) => e.qty <= venue.filled
        BY Zenon DEF Holds, Part
  <2>5. insight.filled = venue.filled \/ e \in LastParts => j.filled = venue.filled
    <3>1. e \in LastParts => Part(e) /\ e.qty = venue.filled
          BY Zenon DEF LastParts
    <3>. QED  BY SMTT(30), <1>1, <1>2, <2>2, <2>4, <3>1
  <2>6. Adapter = "mt5" => j.filled = 0
        BY Zenon, <1>3, <2>2 DEF Awaits, Told
  <2>7. EntryOver \/ j.filled = venue.filled \/ Has(t, LastParts)
        BY Zenon, <1>3, <2>2, <2>5 DEF Awaits, Leaves
  <2>8. venue.entry = "filled" => Comes(t, FillReports)
        BY Zenon, <1>3, <2>2, <2>3 DEF Awaits, Leaves
  <2>9. ASSUME venue.entry \in {"cancelled", "rejected"} PROVE EndIn(j, t)
    <3>1. EndIn(insight, native)
          BY Zenon, <1>3, <2>2, <2>9 DEF Awaits
    <3>2. CASE insight.filled = venue.filled /\ Comes(native, EndReports)
          BY Zenon, <2>3, <2>5, <3>2 DEF Leaves, EndIn
    <3>3. CASE Follow(native, LastParts, EndReports)
          BY Zenon, <2>5, <3>3 DEF Leaves, EndIn
    <3>. QED  BY Zenon, <3>1, <3>2, <3>3 DEF EndIn
  <2>. QED  BY Zenon, <2>6, <2>7, <2>8, <2>9
<1>8. ExitsIn(j, t)
  <2>. SUFFICES ASSUME Position # 0, NEW x \in Exits
                PROVE  j.closes[x] = venue.exited[x] \/ Has(t, LastExits(x))
       BY Zenon DEF ExitsIn
  <2>1. j.closes[x] = insight.closes[x] \/ (Shrinks(j, insight, e) /\ e.order = x /\ j.closes[x] = e.qty)
        BY Zenon, <1>2, <1>4 DEF Ends, Opens, Works, Shrinks, Drops, Stays
  <2>2. Shrinks(j, insight, e) /\ e.order = x => e.qty > insight.closes[x] /\ e.qty <= venue.exited[x]
    <3>1. ASSUME Shrinks(j, insight, e), e.order = x PROVE NewlyClosed(insight, e) \in 1..Remaining(insight)
          BY Zenon, <3>1 DEF Shrinks
    <3>2. ASSUME Shrinks(j, insight, e), e.order = x PROVE e.qty > insight.closes[x]
      <4>1. e.qty - insight.closes[x] >= 1
            BY SMTT(30), <3>1, <3>2 DEF NewlyClosed
      <4>. QED  BY SMTT(30), <1>2, <4>1
    <3>3. Shrinks(j, insight, e) /\ e.order = x => e.qty <= venue.exited[x]
          BY Zenon DEF Shrinks, Reduction, Holds
    <3>. QED  BY Zenon, <3>2, <3>3
  <2>3. CASE insight.closes[x] = venue.exited[x]
    <3>1. ~(Shrinks(j, insight, e) /\ e.order = x)
          BY SMTT(30), <1>2, <2>2, <2>3
    <3>. QED  BY Zenon, <2>1, <2>3, <3>1
  <2>4. CASE first /\ e \in LastExits(x)
    <3>1. e.kind = "PartialFilled" /\ e.order = x /\ e.qty = venue.exited[x] /\ Reduction(e)
      <4>1. x # "entry"
            BY Zenon, ReducerAssumption
      <4>. QED  BY Zenon, <2>4, <4>1 DEF LastExits, Reduction, EntrySide
    <3>2. insight.state # "Closed"
          BY Zenon DEF RInv, ClosedIsFlat, Flat
    <3>3. insight.state = "Filled" /\ source = "TradeStream"
          BY Zenon, <2>4, <3>1, <3>2 DEF Exit
    <3>4. CASE Shrinks(j, insight, e)
          BY Zenon, <1>2, <3>1, <3>4 DEF Shrinks
    <3>5. CASE Stays(j, insight, e, source)
      <4>1. NewlyClosed(insight, e) \notin 1..Remaining(insight) /\ j.closes[x] = insight.closes[x]
            BY Zenon, <3>1, <3>3, <3>5 DEF Stays
      <4>2. NewlyClosed(insight, e) <= Remaining(insight)
            BY Zenon, <1>3, <3>1, <3>3, ExitFits DEF Opened
      <4>3. NewlyClosed(insight, e) = venue.exited[x] - insight.closes[x]
            BY Zenon, <3>1 DEF NewlyClosed
      <4>4. insight.closes[x] = venue.exited[x]
        <5>1. PICK n, r : n = NewlyClosed(insight, e) /\ r = Remaining(insight)
              BY Zenon
        <5>2. n \notin 1..r /\ n <= r /\ n = venue.exited[x] - insight.closes[x]
              BY Zenon, <4>1, <4>2, <4>3, <5>1
        <5>3. r \in Nat
              BY Zenon, <1>3, <3>3, <5>1, ExitFits DEF Opened
        <5>. QED  BY SMTT(30), <1>1, <1>2, <5>2, <5>3
      <4>. QED  BY Zenon, <4>1, <4>4
    <3>6. Shrinks(j, insight, e) \/ Stays(j, insight, e, source)
          BY Zenon, <1>4, <3>1, <3>3 DEF Ends, Opens, Works, Drops, Pending, Fill
    <3>. QED  BY Zenon, <3>4, <3>5, <3>6
  <2>5. insight.closes[x] = venue.exited[x] \/ Has(native, LastExits(x))
        BY Zenon, <1>3 DEF ExitsIn
  <2>. QED  BY Zenon, <2>3, <2>4, <2>5 DEF Leaves
<1>9. CloseIn(j, t)
  <2>. SUFFICES ASSUME Position = 0, venue.filled > 0 PROVE j.state = "Closed" \/ Has(t, CloseReports)
       BY Zenon DEF CloseIn
  <2>1. CASE insight.state = "Closed"
        BY Zenon, <1>4, <2>1 DEF Ends, Opens, Works, Shrinks, Drops, Stays, Pending, Inactive
  <2>2. CASE first /\ e \in CloseReports
    <3>1. e.kind = "Closed" /\ source = "TradeStream" /\ insight.state \in {"Filled", "Closed"}
          BY Zenon, <2>2 DEF CloseReports, Exit
    <3>2. CASE insight.state = "Filled"
          BY Zenon, <1>4, <3>1, <3>2 DEF Ends, Opens, Works, Shrinks, Drops, Stays, Pending, Fill, Reduction
    <3>. QED  BY Zenon, <2>1, <3>1, <3>2
  <2>3. insight.state = "Closed" \/ Has(native, CloseReports)
        BY Zenon, <1>3 DEF CloseIn
  <2>. QED  BY Zenon, <2>1, <2>2, <2>3 DEF Leaves
<1>. QED  BY Zenon, <1>5, <1>6, <1>7, <1>8, <1>9 DEF Lacks

\* A report leaves no flag behind.
LEMMA HearFlagged ==
    ASSUME Flagged(insight), NEW e, NEW source, NEW j, Becomes(j, insight, e, source)
    PROVE  Flagged(j) /\ (insight.known => j.known)
<1>1. \/ Ends(j, insight, e) \/ Opens(j, insight, e) \/ Works(j, insight, e)
      \/ Shrinks(j, insight, e) \/ Drops(j, insight, e) \/ Stays(j, insight, e, source)
      BY Zenon DEF Becomes
<1>2. insight.known => j.known
      BY Zenon, <1>1 DEF Ends, Opens, Works, Shrinks, Drops, Stays
<1>3. j.closing => insight.closing /\ Stays(j, insight, e, source)
  <2>1. insight.closing => insight.state = "Filled"
        BY Zenon DEF Flagged
  <2>2. Opens(j, insight, e) => insight.state # "Filled" /\ (j.closing => insight.closing)
        BY Zenon DEF Opens, Pending
  <2>3. Works(j, insight, e) => insight.state # "Filled" /\ (j.closing => insight.closing)
        BY Zenon DEF Works, Pending
  <2>4. Stays(j, insight, e, source) => (j.closing => insight.closing)
        BY Zenon DEF Stays
  <2>. QED  BY Zenon, <1>1, <2>1, <2>2, <2>3, <2>4 DEF Ends, Shrinks, Drops
<1>4. j.cancelling => Pending(j)
  <2>1. Works(j, insight, e) => Pending(j)
        BY Zenon DEF Works, Pending
  <2>2. Stays(j, insight, e, source) => (j.cancelling => Pending(j))
        BY Zenon DEF Stays, Flagged, Pending
  <2>. QED  BY Zenon, <1>1, <2>1, <2>2 DEF Ends, Opens, Shrinks, Drops
<1>5. Stays(j, insight, e, source) => j.state = insight.state /\ j.closes = insight.closes
      BY Zenon DEF Stays
<1>. QED  BY Zenon, <1>2, <1>3, <1>4, <1>5 DEF Flagged

\* A report leaves the receipt something to settle it.
LEMMA HearUnbound ==
    ASSUME Agreeing, NEW e, NEW first, NEW source, NEW t, NEW j, Leaves(t, e, first),
           EndsEntry(e) /\ Pending(insight) => insight.known \/ (first /\ Ended(e)),
           Becomes(j, insight, e, source)
    PROVE  Unbound(j, t)
<1>. SUFFICES ASSUME ~j.known, answer.state # "consumed" PROVE Unbound(j, t)
     BY Zenon DEF Unbound
<1>1. \/ Ends(j, insight, e) \/ Opens(j, insight, e) \/ Works(j, insight, e)
      \/ Shrinks(j, insight, e) \/ Drops(j, insight, e) \/ Stays(j, insight, e, source)
      BY Zenon DEF Becomes
<1>2. ~insight.known
      BY Zenon, <1>1 DEF Ends, Opens, Works, Shrinks, Drops, Stays
<1>3. CASE insight.state = "New" /\ Comes(native, AcceptReports)
  <2>1. Drops(j, insight, e) \/ Stays(j, insight, e, source)
        BY Zenon, <1>1, <1>2, <1>3 DEF Ends, Opens, Works, Shrinks
  <2>2. ASSUME Drops(j, insight, e) PROVE FALSE
    <3>1. EndsEntry(e) /\ first
          BY Zenon, <1>2, <2>2 DEF Drops
    <3>2. ~Early(e) /\ e \notin AcceptReports
          BY Zenon, <3>1 DEF Early, AcceptReports, EndsEntry
    <3>. QED  BY Zenon, <1>3, <3>1, <3>2 DEF Leaves
  <2>3. ASSUME Stays(j, insight, e, source) PROVE j.state = "New" /\ Comes(t, AcceptReports)
    <3>1. j.state = "New" /\ e.kind # "Accepted"
          BY Zenon, <1>3, <2>3 DEF Stays
    <3>2. e \notin AcceptReports
          BY Zenon, <3>1 DEF AcceptReports
    <3>. QED  BY Zenon, <1>3, <3>1, <3>2 DEF Leaves
  <2>. QED  BY Zenon, <2>1, <2>2, <2>3 DEF Unbound
<1>4. CASE Unaccepted /\ (insight.state = "New" \/ (insight.state = "Rejected" /\ venue.entry = "rejected"))
  <2>1. Drops(j, insight, e) \/ Stays(j, insight, e, source)
        BY Zenon, <1>1, <1>2, <1>4 DEF Ends, Opens, Works, Shrinks, Inactive
  <2>2. ASSUME Drops(j, insight, e) PROVE j.state = "Rejected" /\ venue.entry = "rejected"
    <3>1. EndsEntry(e) /\ Ended(e) /\ j.state = e.kind
          BY Zenon, <1>2, <2>2 DEF Drops
    <3>2. venue.entry \in {"none", "rejected"}
          BY Zenon, <1>4 DEF Agreeing, Receipt
    <3>. QED  BY Zenon, <3>1, <3>2 DEF EndsEntry, Ended
  <2>3. Stays(j, insight, e, source) => j.state = insight.state
        BY Zenon DEF Stays
  <2>. QED  BY Zenon, <1>4, <2>1, <2>2, <2>3 DEF Unbound
<1>. QED  BY Zenon, <1>2, <1>3, <1>4 DEF Agreeing, Unbound

\* A step that leaves the venue alone keeps what was reported if what it adds is true.
LEMMA ReportedFrame ==
    ASSUME Reported, UNCHANGED <<setting, venue>>, insight.known => insight'.known,
           \A e \in Evidence' : e \in Evidence \/ Told(e),
           \A e \in Dated' : e \in Dated \/ Ended(e),
           \A e \in history' : e \in history \/ (EndsEntry(e) => venue.filled = 0),
           \A e \in Range(local') : e \in Range(local) \/ (EndsEntry(e) => Adapter = "mt5" /\ insight'.known)
    PROVE  Reported'
<1>1. UNCHANGED <<Adapter, EntryOver>>
      BY Zenon DEF Adapter, EntryOver
<1>2. ASSUME NEW e \in Evidence' PROVE Told(e)'
  <2>1. Told(e)
        BY Zenon DEF Reported
  <2>. QED  BY Zenon, <1>1, <2>1 DEF Told, Fill, Exit, Part, Reduction, EntrySide
<1>3. ASSUME NEW e \in Dated' PROVE Ended(e)'
  <2>1. Ended(e)
        BY Zenon DEF Reported
  <2>. QED  BY Zenon, <2>1 DEF Ended
<1>4. \A e \in history' : EndsEntry(e) => venue'.filled = 0
      BY Zenon DEF Reported
<1>5. \A e \in Range(local') : EndsEntry(e) => Adapter' = "mt5" /\ insight'.known
      BY Zenon, <1>1 DEF Reported
<1>. QED  BY Zenon, <1>2, <1>3, <1>4, <1>5 DEF Reported, EndsEntry

\* It keeps all the rest if the belief lacks no more than is on its way.
LEMMA AgreeFrame ==
    ASSUME Agreeing, UNCHANGED <<setting, venue>>, Reported', Lacks(insight', native'),
           Flagged(insight)', Receipt', Unbound(insight, native)'
    PROVE  Agreeing'
<1>1. UNCHANGED <<Adapter, EntryOver, Position, LastParts>> /\ \A x : LastExits(x)' = LastExits(x)
      BY Zenon DEF Adapter, EntryOver, Position, LastParts, LastExits
<1>2. Ending'
      BY Zenon, <1>1 DEF Agreeing, Ending
<1>3. UNCHANGED <<FillReports, EndReports, CloseReports>>
      BY Zenon DEF FillReports, EndReports, CloseReports
<1>4. Opened(insight)' /\ Dropped(insight, native)'
      BY Zenon, <1>1, <1>3 DEF Lacks, Opened, Dropped
<1>5. Awaits(insight, native)'
      BY Zenon, <1>1, <1>3 DEF Lacks, Awaits, EndIn, Pending
<1>6. ExitsIn(insight, native)' /\ CloseIn(insight, native)'
      BY Zenon, <1>1, <1>3 DEF Lacks, ExitsIn, CloseIn
<1>7. Lacks(insight, native)'
      BY Zenon, <1>4, <1>5, <1>6 DEF Lacks
<1>. QED  BY Zenon, <1>2, <1>7 DEF Agreeing

\* Only the state and the quantities matter to what is lacking.
LEMMA SameLacks ==
    ASSUME NEW i, NEW j, NEW q, j.state = i.state, j.filled = i.filled, j.closes = i.closes, Lacks(i, q)
    PROVE  Lacks(j, q)
<1>1. Opened(j) /\ Dropped(j, q)
      BY Zenon DEF Lacks, Opened, Dropped
<1>2. Awaits(j, q)
      BY Zenon DEF Lacks, Awaits, EndIn, Pending
<1>3. ExitsIn(j, q) /\ CloseIn(j, q)
      BY Zenon DEF Lacks, ExitsIn, CloseIn
<1>. QED  BY Zenon, <1>1, <1>2, <1>3 DEF Lacks

\* A receipt that is settled at once is never looked at again.
LEMMA Repolled ==
    ASSUME Receipt, NEW i, Repoll(i) PROVE UNCHANGED answer
    BY Zenon DEF Receipt, Repoll

\* A step that reduces true evidence, e, and changes nothing else of importance.
LEMMA HearAgrees ==
    ASSUME RInv, Agreeing, WholeDeals, UNCHANGED <<setting, venue, sent, asked, answer>>,
           NEW e \in Reports, Holds(e), Told(e), NEW first, NEW source,
           first => source = "TradeStream" /\ (Exit(e) => insight.state \in {"Filled", "Closed"}),
           Leaves(native', e, first), MayEnd(e, native'),
           EndsEntry(e) /\ Pending(insight) => insight.known \/ (first /\ Ended(e)),
           Becomes(insight', insight, e, source),
           history' \subseteq history, Range(native') \subseteq Range(native),
           Range(local') \subseteq Range(local)
    PROVE  Agreeing'
<1>1. Lacks(insight', native')
      BY ZenonT(30), HearLacks
<1>2. Flagged(insight') /\ (insight.known => insight'.known)
      BY Zenon, HearFlagged DEF Agreeing
<1>3. Unbound(insight', native')
      BY Zenon, HearUnbound
<1>4. Evidence' \subseteq Evidence /\ Dated' \subseteq Dated
      BY Zenon DEF Evidence, Dated
<1>5. Reported'
      BY Zenon, <1>2, <1>4, ReportedFrame DEF Agreeing
<1>6. UNCHANGED <<Position, Unaccepted, AcceptReports>>
      BY Zenon DEF Position, Unaccepted, AcceptReports
<1>7. Flagged(insight)'
      BY Zenon, <1>2, <1>6 DEF Flagged, Pending
<1>8. Receipt'
      BY Zenon, <1>6 DEF Agreeing, Receipt, EntrySide
<1>9. Unbound(insight, native)'
      BY Zenon, <1>3, <1>6 DEF Unbound
<1>. QED  BY Zenon, <1>1, <1>5, <1>7, <1>8, <1>9, AgreeFrame

\* The strategy takes the first event of the venue's own lane.
LEMMA NativeAgrees ==
    ASSUME RInv, Agreeing, WholeDeals, UNCHANGED setting, TakeNative PROVE Agreeing'
<1>1. /\ native # <<>> /\ native' = Tail(native) /\ UNCHANGED <<venue, local, sent, history, asked>>
      /\ insight' = Reduce(insight, Head(native), "TradeStream") /\ Repoll(insight')
      BY Zenon DEF TakeNative
<1>2. PICK e : e = Head(native)
      BY Zenon
<1>3. /\ e \in Reports /\ Holds(e) /\ Told(e) /\ Ended(e)
      /\ Exit(e) => insight.state \in {"Filled", "Closed"}
      /\ EndsEntry(e) /\ Pending(insight) => EntryOver /\ insight.filled = venue.filled
      BY Zenon, <1>1, <1>2, FirstReport
<1>4. native \in Seq(Reports) /\ insight \in Insights
      BY Zenon DEF RInv, Shapes
<1>5. Becomes(insight', insight, e, "TradeStream")
      BY Zenon, <1>1, <1>2, <1>3, <1>4, BecomesFacts
<1>6. Leaves(native', e, TRUE)
  <2>1. /\ \A R : Has(native, R) => e \in R \/ Has(native', R)
        /\ \A R : Comes(native, R) => e \in R \/ (Early(e) /\ Comes(native', R))
        /\ \A P, R : Follow(native, P, R) => Follow(native', P, R) \/ (e \in P /\ Comes(native', R))
        BY Zenon, <1>1, <1>2, <1>4, Sooner
  <2>. QED  BY Zenon, <2>1 DEF Leaves
<1>7. MayEnd(e, native')
      BY Zenon, <1>3 DEF MayEnd
<1>8. Range(native') \subseteq Range(native)
      BY Zenon, <1>1, <1>4, QueueFacts
<1>9. UNCHANGED answer
      BY Zenon, <1>1, Repolled DEF Agreeing
<1>. QED  BY ZenonT(30), <1>1, <1>3, <1>5, <1>6, <1>7, <1>8, <1>9, HearAgrees

\* A queue that nothing was taken from goes on as it is.
LEMMA Remains == ASSUME NEW e PROVE Leaves(native, e, FALSE)
    BY Zenon DEF Leaves

\* The strategy takes an event that the adapter made from an answer.
LEMMA LocalAgrees ==
    ASSUME RInv, Agreeing, WholeDeals, UNCHANGED setting, TakeLocal PROVE Agreeing'
<1>1. /\ local # <<>> /\ local' = Tail(local) /\ UNCHANGED <<venue, native, sent, history, asked>>
      /\ insight' = Reduce(insight, Head(local), "TradeStream") /\ Repoll(insight')
      BY Zenon DEF TakeLocal
<1>2. PICK e : e = Head(local)
      BY Zenon
<1>3. local \in Seq(Reports) /\ insight \in Insights /\ venue \in Venues
      BY Zenon DEF RInv, Shapes
<1>4. e \in Range(local) /\ Range(local') \subseteq Range(local)
      BY Zenon, <1>1, <1>2, <1>3, QueueFacts
<1>5. e \in Reports /\ Holds(e) /\ Told(e) /\ (EndsEntry(e) => Adapter = "mt5" /\ insight.known)
      BY Zenon, <1>4 DEF RInv, Shapes, Evidence, Agreeing, Reported
<1>6. Becomes(insight', insight, e, "TradeStream")
      BY Zenon, <1>1, <1>2, <1>3, <1>5, BecomesFacts
<1>7. MayEnd(e, native)
  <2>. SUFFICES ASSUME EndsEntry(e), Pending(insight)
                PROVE  /\ Adapter = "mt5" /\ ~(insight.filled > 0)
                       /\ venue.filled = 0 \/ Comes(native, FillReports)
       BY Zenon DEF MayEnd
  <2>1. Adapter = "mt5" /\ insight.filled = 0 /\ (venue.entry = "filled" => Comes(native, FillReports))
        BY Zenon, <1>5 DEF Agreeing, Lacks, Awaits
  <2>2. venue.filled > 0 => venue.entry = "filled"
        BY Zenon, <2>1 DEF WholeDeals, RInv, Books
  <2>3. ~(insight.filled > 0) /\ (venue.filled = 0 \/ venue.filled > 0)
        BY SMTT(30), <1>3, <2>1 DEF Venues
  <2>. QED  BY Zenon, <2>1, <2>2, <2>3
<1>8. UNCHANGED answer
      BY Zenon, <1>1, Repolled DEF Agreeing
<1>9. Leaves(native', e, FALSE) /\ MayEnd(e, native')
      BY Zenon, <1>1, <1>7, Remains
<1>. QED  BY ZenonT(30), <1>1, <1>4, <1>5, <1>6, <1>8, <1>9, HearAgrees

\* A step that changes neither the state, the quantities nor the ticket of the
\* insight, and at most posts a report again.
LEMMA StillAgrees ==
    ASSUME RInv, Agreeing, UNCHANGED <<setting, venue, sent, answer>>,
           insight'.state = insight.state, insight'.filled = insight.filled,
           insight'.closes = insight.closes, insight'.known = insight.known, Flagged(insight)',
           native' = native \/ (\E e \in sent : native' = Append(native, e)),
           Range(local') \subseteq Range(local), history' \subseteq history
    PROVE  Agreeing'
<1>1. native \in Seq(Reports) /\ sent \subseteq Reports
      BY Zenon DEF RInv, Shapes, Evidence
<1>2. /\ Range(native') \subseteq Range(native) \cup sent
      /\ \A R : (Has(native, R) => Has(native', R)) /\ (Comes(native, R) => Comes(native', R))
      /\ \A P, R : Follow(native, P, R) => Follow(native', P, R)
  <2>1. CASE native' = native
        BY Zenon, <2>1
  <2>2. CASE \E e \in sent : native' = Append(native, e)
    <3>1. PICK e \in sent : native' = Append(native, e)
          BY Zenon, <2>2
    <3>2. e \in Reports
          BY Zenon, <1>1
    <3>3. Range(native') \subseteq Range(native) \cup {e}
          BY Zenon, <1>1, <3>1, <3>2, QueueFacts
    <3>4. \A P, R : /\ Has(native, R) => Has(native', R)
                    /\ Comes(native, R) => Comes(native', R)
                    /\ Follow(native, P, R) => Follow(native', P, R)
          BY Zenon, <1>1, <3>1, <3>2, Later
    <3>. QED  BY Zenon, <3>3, <3>4
  <2>. QED  BY Zenon, <2>1, <2>2
<1>3. Lacks(insight, native')
  <2>1. Opened(insight) /\ Dropped(insight, native')
        BY Zenon, <1>2 DEF Agreeing, Lacks, Dropped
  <2>2. Awaits(insight, native')
        BY Zenon, <1>2 DEF Agreeing, Lacks, Awaits, EndIn
  <2>3. ExitsIn(insight, native') /\ CloseIn(insight, native')
        BY Zenon, <1>2 DEF Agreeing, Lacks, ExitsIn, CloseIn
  <2>. QED  BY Zenon, <2>1, <2>2, <2>3 DEF Lacks
<1>4. Lacks(insight', native')
      BY Zenon, <1>3, SameLacks
<1>5. Evidence' \subseteq Evidence /\ Dated' \subseteq Dated
      BY Zenon, <1>2 DEF Evidence, Dated
<1>6. Reported'
      BY Zenon, <1>5, ReportedFrame DEF Agreeing
<1>7. UNCHANGED <<Unaccepted, AcceptReports>>
      BY Zenon DEF Unaccepted, AcceptReports
<1>8. Receipt'
      BY Zenon, <1>7 DEF Agreeing, Receipt, EntrySide
<1>9. Unbound(insight, native)'
      BY Zenon, <1>2, <1>7 DEF Agreeing, Unbound
<1>. QED  BY Zenon, <1>4, <1>6, <1>8, <1>9, AgreeFrame

\* The history is believed, or not.
LEMMA ApplyAgrees ==
    ASSUME RInv, Agreeing, WholeDeals, UNCHANGED setting, HistoryApply PROVE Agreeing'
<1>1. PICK e \in history :
         insight' = IF Believed(insight, e) THEN Reduce(insight, e, "TerminalHistory") ELSE insight
      BY Zenon DEF HistoryApply
<1>2. history' = {} /\ Repoll(insight') /\ UNCHANGED <<venue, native, local, sent, asked>>
      BY Zenon DEF HistoryApply
<1>3. UNCHANGED answer
      BY Zenon, <1>2, Repolled DEF Agreeing
<1>4. CASE Believed(insight, e)
  <2>1. /\ e \in Reports /\ Holds(e) /\ Told(e) /\ Ended(e)
        /\ EndsEntry(e) => venue.filled = 0
        BY Zenon DEF RInv, Shapes, Evidence, Agreeing, Reported, Dated
  <2>2. insight \in Insights /\ insight.known
        BY Zenon, <1>4 DEF RInv, Shapes, Believed
  <2>3. Becomes(insight', insight, e, "TerminalHistory")
        BY Zenon, <1>1, <1>4, <2>1, <2>2, BecomesFacts
  <2>4. MayEnd(e, native')
    <3>1. insight.filled \in Nat /\ insight.filled <= venue.filled
          BY Zenon, <2>2 DEF Insights, RInv, BeliefFollowsVenue
    <3>2. venue.filled = 0 => ~(insight.filled > 0)
          BY SMTT(30), <3>1
    <3>3. EndsEntry(e) => EntryOver
          BY Zenon, <2>1 DEF EndsEntry, Ended, EntryOver
    <3>. QED  BY Zenon, <2>1, <3>2, <3>3 DEF MayEnd
  <2>5. Leaves(native', e, FALSE)
        BY Zenon, <1>2, Remains
  <2>. QED  BY ZenonT(30), <1>2, <1>3, <2>1, <2>2, <2>3, <2>4, <2>5, HearAgrees
<1>5. CASE ~Believed(insight, e)
  <2>1. UNCHANGED <<setting, venue, native, local, sent, asked, answer, insight>>
        BY Zenon, <1>1, <1>2, <1>3, <1>5
  <2>2. Flagged(insight)'
    <3>1. Position' = Position
          BY Zenon, <2>1 DEF Position
    <3>. QED  BY Zenon, <2>1, <3>1 DEF Agreeing, Flagged, Pending
  <2>. QED  BY ZenonT(30), <1>2, <2>1, <2>2, StillAgrees
<1>. QED  BY Zenon, <1>4, <1>5

\* A report is posted again.
LEMMA RedeliverAgrees ==
    ASSUME RInv, Agreeing, UNCHANGED setting, Redeliver PROVE Agreeing'
<1>1. /\ UNCHANGED <<insight, venue, local, sent, answer, history, asked>>
      /\ \E e \in sent : native' = Append(native, e)
      BY Zenon DEF Redeliver
<1>2. Flagged(insight)'
  <2>1. Position' = Position
        BY Zenon, <1>1 DEF Position
  <2>. QED  BY Zenon, <1>1, <2>1 DEF Agreeing, Flagged, Pending
<1>. QED  BY ZenonT(30), <1>1, <1>2, StillAgrees

\* A command is sent, or declined.
LEMMA CommandAgrees ==
    ASSUME RInv, Agreeing, UNCHANGED setting, Cancel \/ Close \/ CancelDeclined \/ CloseDeclined
    PROVE  Agreeing'
<1>1. UNCHANGED <<venue, native, local, sent, answer, history>>
      BY Zenon DEF Cancel, Close, CancelDeclined, CloseDeclined
<1>2. insight \in Insights /\ Flagged(insight)
      BY Zenon DEF RInv, Shapes, Agreeing
<1>3. Position' = Position
      BY Zenon, <1>1 DEF Position
<1>4. ASSUME Cancel PROVE Agreeing'
  <2>1. /\ Pending(insight) /\ insight' = [insight EXCEPT !.cancelling = TRUE, !.suppressed = TRUE]
        /\ asked' = asked \/ (insight.known /\ asked' = asked \cup {"cancel"})
        BY Zenon, <1>4 DEF Cancel
  <2>2. /\ insight'.state = insight.state /\ insight'.filled = insight.filled
        /\ insight'.closes = insight.closes /\ insight'.known = insight.known
        /\ insight'.closing = insight.closing
        BY Zenon, <1>2, <2>1 DEF Insights
  <2>3. Flagged(insight)'
    <3>1. "close" \in asked => "close" \in asked'
          BY Zenon, <2>1
    <3>2. "cancel" \in asked' => insight'.known
          BY Zenon, <1>2, <2>1, <2>2 DEF Flagged
    <3>. QED  BY Zenon, <1>1, <1>2, <1>3, <2>1, <2>2, <3>1, <3>2 DEF Flagged, Pending
  <2>. QED  BY ZenonT(30), <1>1, <2>2, <2>3, StillAgrees
<1>5. ASSUME Close PROVE Agreeing'
  <2>1. /\ insight.state = "Filled" /\ insight' = [insight EXCEPT !.closing = TRUE]
        /\ asked' = asked \cup {"close"}
        BY Zenon, <1>5 DEF Close
  <2>2. /\ insight'.state = insight.state /\ insight'.filled = insight.filled
        /\ insight'.closes = insight.closes /\ insight'.known = insight.known
        /\ insight'.cancelling = insight.cancelling
        BY Zenon, <1>2, <2>1 DEF Insights
  <2>3. Flagged(insight)'
        BY Zenon, <1>2, <2>1, <2>2 DEF Flagged, Pending
  <2>. QED  BY ZenonT(30), <1>1, <2>2, <2>3, StillAgrees
<1>6. ASSUME CancelDeclined PROVE Agreeing'
  <2>1. insight' = [insight EXCEPT !.cancelling = FALSE] /\ asked' = asked \ {"cancel"}
        BY Zenon, <1>6 DEF CancelDeclined
  <2>2. /\ insight'.state = insight.state /\ insight'.filled = insight.filled
        /\ insight'.closes = insight.closes /\ insight'.known = insight.known
        /\ insight'.closing = insight.closing /\ insight'.cancelling = FALSE
        BY Zenon, <1>2, <2>1 DEF Insights
  <2>3. Flagged(insight)'
    <3>1. "cancel" \notin asked' /\ ("close" \in asked => "close" \in asked')
          BY Zenon, <2>1
    <3>. QED  BY Zenon, <1>1, <1>2, <1>3, <2>2, <3>1 DEF Flagged
  <2>. QED  BY ZenonT(30), <1>1, <2>2, <2>3, StillAgrees
<1>7. ASSUME CloseDeclined PROVE Agreeing'
  <2>1. insight' = [insight EXCEPT !.closing = FALSE] /\ asked' = asked \ {"close"}
        BY Zenon, <1>7 DEF CloseDeclined
  <2>2. /\ insight'.state = insight.state /\ insight'.filled = insight.filled
        /\ insight'.closes = insight.closes /\ insight'.known = insight.known
        /\ insight'.cancelling = insight.cancelling /\ insight'.closing = FALSE
        BY Zenon, <1>2, <2>1 DEF Insights
  <2>3. Flagged(insight)'
        BY Zenon, <1>2, <2>1, <2>2 DEF Flagged, Pending
  <2>. QED  BY ZenonT(30), <1>1, <2>2, <2>3, StillAgrees
<1>. QED  BY Zenon, <1>4, <1>5, <1>6, <1>7

\* A cancel command is acknowledged; the MT5 adapter makes an event of that.
LEMMA AcknowledgeAgrees ==
    ASSUME RInv, Agreeing, UNCHANGED setting, CancelAcknowledged PROVE Agreeing'
<1>1. /\ UNCHANGED <<insight, venue, native, sent, answer, history>>
      /\ "cancel" \in asked /\ asked' = asked \ {"cancel"}
      BY Zenon DEF CancelAcknowledged
<1>2. PICK e : e = Event("Cancelled", "entry", 0)
      BY Zenon
<1>3. e \in Reports /\ EntrySide(e) /\ e.kind = "Cancelled"
      BY Zenon, <1>2 DEF Event, Reports, Kinds, EntrySide
<1>4. local' = local \/ (local' = Append(local, e) /\ Adapter = "mt5")
      BY Zenon, <1>2 DEF CancelAcknowledged
<1>5. Range(local') \subseteq Range(local) \/ (Range(local') \subseteq Range(local) \cup {e} /\ Adapter = "mt5")
  <2>1. local \in Seq(Reports)
        BY Zenon DEF RInv, Shapes
  <2>2. Range(Append(local, e)) \subseteq Range(local) \cup {e}
        BY Zenon, <1>3, <2>1, QueueFacts
  <2>. QED  BY Zenon, <1>4, <2>2
<1>6. Told(e)
      BY Zenon, <1>3 DEF Told, Fill, Exit, Reduction, Part
<1>7. \A f \in Evidence' : f \in Evidence \/ f = e
      BY Zenon, <1>1, <1>5 DEF Evidence
<1>8. Dated' = Dated
      BY Zenon, <1>1 DEF Dated
<1>9. insight.known
      BY Zenon, <1>1 DEF Agreeing, Flagged
<1>10. Reported'
  <2>1. \A f \in Range(local') : f \in Range(local) \/ (EndsEntry(f) => Adapter = "mt5" /\ insight'.known)
        BY Zenon, <1>1, <1>5, <1>9
  <2>2. \A f \in Evidence' : f \in Evidence \/ Told(f)
        BY Zenon, <1>6, <1>7
  <2>. QED  BY Zenon, <1>1, <1>8, <2>1, <2>2, ReportedFrame DEF Agreeing
<1>11. UNCHANGED <<Unaccepted, AcceptReports, Position>>
      BY Zenon, <1>1 DEF Unaccepted, AcceptReports, Position
<1>12. Flagged(insight)'
  <2>1. "cancel" \notin asked' /\ ("close" \in asked => "close" \in asked')
        BY Zenon, <1>1
  <2>. QED  BY Zenon, <1>1, <1>11, <2>1 DEF Agreeing, Flagged, Pending
<1>13. Receipt' /\ Unbound(insight, native)'
      BY Zenon, <1>1, <1>11 DEF Agreeing, Receipt, Unbound, EntrySide
<1>14. Lacks(insight', native')
      BY Zenon, <1>1 DEF Agreeing
<1>. QED  BY Zenon, <1>1, <1>10, <1>12, <1>13, <1>14, AgreeFrame

\* The history is read.
LEMMA ReadAgrees ==
    ASSUME RInv, Agreeing, UNCHANGED setting, HistoryRead PROVE Agreeing'
<1>1. UNCHANGED <<insight, venue, native, local, sent, answer, asked>> /\ history' = HistoryRow
      BY Zenon DEF HistoryRead
<1>2. PICK a, b, c : /\ a = Event("Rejected", "entry", 0) /\ b = Event("Cancelled", "entry", 0)
                     /\ c = Event("Closed", "entry", 0)
      BY Zenon
<1>3. HistoryRow = CASE venue.entry = "rejected" -> {a}
                     [] venue.entry = "cancelled" /\ venue.filled = 0 -> {b}
                     [] Flat /\ venue.filled > 0 -> {c}
                     [] OTHER -> {}
      BY Zenon, <1>2 DEF HistoryRow
<1>4. \A e \in HistoryRow : \/ e = a /\ venue.entry = "rejected"
                            \/ e = b /\ venue.entry = "cancelled" /\ venue.filled = 0
                            \/ e = c /\ Flat /\ venue.filled > 0
      BY SMTT(30), <1>3
<1>5. /\ a.kind = "Rejected" /\ b.kind = "Cancelled" /\ c.kind = "Closed"
      BY Zenon, <1>2 DEF Event
<1>6. ASSUME NEW e \in HistoryRow PROVE Told(e) /\ Ended(e) /\ (EndsEntry(e) => venue.filled = 0)
  <2>1. CASE e = a /\ venue.entry = "rejected"
    <3>1. venue.filled = 0
          BY Zenon, <2>1 DEF Agreeing, Ending
    <3>. QED  BY Zenon, <1>5, <2>1, <3>1 DEF Told, Ended, Fill, Exit, Reduction, Part
  <2>2. CASE e = b /\ venue.entry = "cancelled" /\ venue.filled = 0
        BY Zenon, <1>5, <2>2 DEF Told, Ended, Fill, Exit, Reduction, Part
  <2>3. CASE e = c /\ Flat /\ venue.filled > 0
        BY Zenon, <1>5, <2>3 DEF Told, Ended, Fill, Exit, Reduction, Part, EndsEntry, Flat
  <2>. QED  BY Zenon, <1>4, <2>1, <2>2, <2>3
<1>7. Reported'
  <2>1. \A e \in Evidence' : e \in Evidence \/ e \in HistoryRow
        BY Zenon, <1>1 DEF Evidence
  <2>2. \A e \in Dated' : e \in Dated \/ e \in HistoryRow
        BY Zenon, <1>1 DEF Dated
  <2>3. \A e \in Range(local') : e \in Range(local)
        BY Zenon, <1>1
  <2>. QED  BY ZenonT(30), <1>1, <1>6, <2>1, <2>2, <2>3, ReportedFrame DEF Agreeing
<1>8. UNCHANGED <<Unaccepted, AcceptReports, Position>>
      BY Zenon, <1>1 DEF Unaccepted, AcceptReports, Position
<1>9. Flagged(insight)' /\ Receipt' /\ Unbound(insight, native)'
      BY Zenon, <1>1, <1>8 DEF Agreeing, Flagged, Pending, Receipt, Unbound, EntrySide
<1>10. Lacks(insight', native')
      BY Zenon, <1>1 DEF Agreeing
<1>. QED  BY Zenon, <1>1, <1>7, <1>9, <1>10, AgreeFrame

\* The submission is answered.
LEMMA SubmitAgrees ==
    ASSUME RInv, Agreeing, UNCHANGED setting, SubmitAnswered PROVE Agreeing'
<1>1. /\ UNCHANGED <<insight, venue, native, local, sent, history, asked>>
      /\ answer.state = "none" /\ venue.entry # "none"
      BY Zenon DEF SubmitAnswered
<1>2. PICK a, b, c, e : /\ a = Event("Rejected", "entry", 0) /\ b = Event("Filled", "entry", venue.filled)
                        /\ c = Event("Accepted", "entry", 0)
                        /\ e = CASE venue.entry = "rejected" -> a [] venue.entry = "filled" -> b [] OTHER -> c
      BY Zenon
<1>3. /\ venue.entry = "rejected" => e = a
      /\ venue.entry # "rejected" => (e = b /\ venue.entry = "filled") \/ e = c
      BY SMTT(30), <1>2
<1>4. /\ a.kind = "Rejected" /\ b.kind = "Filled" /\ c.kind = "Accepted" /\ b.qty = venue.filled
      /\ EntrySide(a) /\ EntrySide(b) /\ EntrySide(c)
      BY Zenon, <1>2 DEF Event, EntrySide
<1>5. answer'.event = e /\ answer'.state = "ready"
  <2>1. answer' = [state |-> "ready", event |-> e]
        BY Zenon, <1>2 DEF SubmitAnswered
  <2>. QED  BY Zenon, <2>1
<1>6. /\ EntrySide(e) /\ e.kind \in {"Accepted", "Filled", "Rejected"}
      /\ e.kind = "Rejected" <=> venue.entry = "rejected"
      /\ e.kind = "Filled" => venue.entry = "filled" /\ e.qty = venue.filled
      BY Zenon, <1>3, <1>4
<1>7. Told(e) /\ Ended(e)
  <2>1. ~Exit(e) /\ ~Part(e)
        BY Zenon, <1>6 DEF Exit, Reduction, Part
  <2>2. Told(e)
        BY Zenon, <1>6, <2>1 DEF Told, Fill
  <2>3. Ended(e)
        BY Zenon, <1>6 DEF Ended
  <2>. QED  BY Zenon, <2>2, <2>3
<1>8. Reported'
  <2>1. \A f \in Evidence' : f \in Evidence \/ f = e
        BY Zenon, <1>1, <1>5 DEF Evidence
  <2>2. \A f \in Dated' : f \in Dated \/ f = e
        BY Zenon, <1>1, <1>5 DEF Dated
  <2>3. (\A f \in Evidence' : f \in Evidence \/ Told(f)) /\ (\A f \in Dated' : f \in Dated \/ Ended(f))
        BY Zenon, <1>7, <2>1, <2>2
  <2>. QED  BY Zenon, <1>1, <2>3, ReportedFrame DEF Agreeing
<1>9. UNCHANGED <<Unaccepted, AcceptReports, Position>>
      BY Zenon, <1>1 DEF Unaccepted, AcceptReports, Position
<1>10. Flagged(insight)'
      BY Zenon, <1>1, <1>9 DEF Agreeing, Flagged, Pending
<1>11. Receipt'
  <2>1. Unaccepted => e.kind = "Rejected" /\ venue.entry \in {"none", "rejected"}
        BY Zenon, <1>1, <1>6 DEF Agreeing, Receipt
  <2>. QED  BY Zenon, <1>1, <1>5, <1>6, <1>9, <2>1 DEF Receipt, EntrySide
<1>12. Unbound(insight, native)'
      BY Zenon, <1>1, <1>9 DEF Agreeing, Unbound
<1>13. Lacks(insight', native')
      BY Zenon, <1>1 DEF Agreeing
<1>. QED  BY ZenonT(30), <1>1, <1>8, <1>10, <1>11, <1>12, <1>13, AgreeFrame

\* The answer is taken, which settles the receipt.
LEMMA AnswerAgrees ==
    ASSUME RInv, Agreeing, WholeDeals, UNCHANGED setting, TakeAnswer PROVE Agreeing'
<1>1. UNCHANGED <<venue, native, local, sent, history, asked>> /\ answer.state = "ready"
      BY Zenon DEF TakeAnswer
<1>2. PICK e, i : e = answer.event /\ i = Reduce(insight, e, "SubmitResponse")
      BY Zenon
<1>3. /\ e \in Reports /\ Holds(e) /\ Told(e) /\ Ended(e)
      /\ e.kind \in {"Accepted", "Filled", "Rejected"} /\ EntrySide(e)
      BY Zenon, <1>2 DEF RInv, Shapes, Evidence, Agreeing, Reported, Dated, Receipt
<1>4. insight \in Insights /\ answer \in Answers /\ Flagged(insight)
      BY Zenon DEF RInv, Shapes, Agreeing
<1>5. Becomes(i, insight, e, "SubmitResponse")
      BY Zenon, <1>2, <1>3, <1>4, BecomesFacts
<1>6. Flagged(i) /\ (insight.known => i.known) /\ i \in Insights
      BY Zenon, <1>4, <1>5, HearFlagged DEF Becomes
<1>7. MayEnd(e, native)
  <2>. SUFFICES ASSUME EndsEntry(e) PROVE EntryOver /\ ~(insight.filled > 0) /\ venue.filled = 0
       BY Zenon DEF MayEnd
  <2>1. venue.entry = "rejected" /\ venue.filled = 0
        BY Zenon, <1>3 DEF EndsEntry, Ended, Agreeing, Ending
  <2>2. insight.filled \in Nat /\ insight.filled <= venue.filled
        BY Zenon, <1>4 DEF Insights, RInv, BeliefFollowsVenue
  <2>3. ~(insight.filled > 0)
        BY SMTT(30), <2>1, <2>2
  <2>. QED  BY Zenon, <2>1, <2>3 DEF EntryOver
<1>8. Lacks(i, native)
  <2>1. PICK no \in BOOLEAN : no = FALSE
        BY Zenon
  <2>2. Leaves(native, e, no)
        BY Zenon, <2>1, Remains
  <2>. QED  BY ZenonT(30), <1>3, <1>5, <1>7, <2>1, <2>2, HearLacks
<1>9. Settles(i, e)
  <2>. SUFFICES ASSUME ~i.known PROVE i.state = "Rejected" /\ e.kind = "Rejected"
       BY Zenon DEF Settles
  <2>1. ~insight.known /\ answer.state # "consumed" /\ answer.state # "none"
        BY Zenon, <1>1, <1>6
  <2>2. insight.state = "New" \/ (e.kind = "Rejected" /\ insight.state = "Rejected")
        BY Zenon, <1>2, <2>1 DEF Agreeing, Unbound, Receipt
  <2>3. Drops(i, insight, e) \/ Stays(i, insight, e, "SubmitResponse")
        BY Zenon, <1>5, <2>1, <2>2 DEF Becomes, Ends, Opens, Works, Shrinks, Inactive
  <2>4. CASE Drops(i, insight, e)
        BY Zenon, <1>3, <2>4 DEF Drops, EndsEntry
  <2>5. CASE Stays(i, insight, e, "SubmitResponse")
    <3>1. i.state = insight.state
          BY Zenon, <2>5 DEF Stays
    <3>2. insight.state # "New"
      <4>1. insight.state = "New" => e.kind # "Accepted" /\ ~EndsEntry(e) /\ ~Fill(e)
            BY Zenon, <2>5 DEF Stays, Pending
      <4>. QED  BY Zenon, <1>3, <4>1 DEF EndsEntry, Fill
    <3>. QED  BY Zenon, <2>2, <3>1, <3>2
  <2>. QED  BY Zenon, <2>3, <2>4, <2>5
<1>10. /\ insight' = i \/ insight' = [i EXCEPT !.cancelling = FALSE]
       /\ answer' = [answer EXCEPT !.state = "consumed"]
      BY Zenon, <1>2, <1>9 DEF TakeAnswer
<1>11. answer'.state = "consumed" /\ answer'.event = e
      BY Zenon, <1>2, <1>4, <1>10 DEF Answers
<1>12. /\ insight'.state = i.state /\ insight'.filled = i.filled /\ insight'.closes = i.closes
       /\ insight'.known = i.known /\ insight'.closing = i.closing
       /\ insight'.cancelling => i.cancelling
      BY Zenon, <1>6, <1>10 DEF Insights
<1>13. Lacks(insight', native')
      BY Zenon, <1>1, <1>8, <1>12, SameLacks
<1>14. Reported'
  <2>1. Evidence' = Evidence /\ Dated' = Dated
        BY Zenon, <1>1, <1>2, <1>11 DEF Evidence, Dated
  <2>2. insight.known => insight'.known
        BY Zenon, <1>6, <1>12
  <2>. QED  BY Zenon, <1>1, <2>1, <2>2, ReportedFrame DEF Agreeing
<1>15. UNCHANGED <<Unaccepted, Position>>
      BY Zenon, <1>1 DEF Unaccepted, Position
<1>16. Flagged(insight)'
      BY Zenon, <1>1, <1>6, <1>12, <1>15 DEF Flagged, Pending
<1>17. Receipt'
  <2>1. /\ Unaccepted => venue.entry \in {"none", "rejected"} /\ e.kind = "Rejected"
        /\ venue.entry # "none"
        BY Zenon, <1>1, <1>2 DEF Agreeing, Receipt
  <2>. QED  BY Zenon, <1>1, <1>3, <1>11, <1>15, <2>1 DEF Receipt, EntrySide
<1>18. Unbound(insight, native)'
      BY Zenon, <1>11 DEF Unbound
<1>. QED  BY Zenon, <1>1, <1>13, <1>14, <1>16, <1>17, <1>18, AgreeFrame

\* While the order may still fill nothing else has been reported or believed.
LEMMA Unreported ==
    ASSUME RInv, Agreeing, WholeDeals, ~EntryOver
    PROVE  /\ \A f \in Evidence : ~Fill(f) /\ ~Exit(f)
           /\ \A f \in Dated : ~EndsEntry(f)
           /\ \A f \in Range(native) : Early(f)
           /\ insight.state \notin {"Filled", "Closed"} /\ ~insight.closing
           /\ insight.state \in {"Cancelled", "Rejected"} => Adapter = "mt5" /\ venue.filled = 0
           /\ \A x \in Exits : insight.closes[x] = 0 /\ venue.exited[x] = 0
<1>1. venue.entry \notin {"filled", "cancelled", "rejected"}
      BY Zenon DEF EntryOver
<1>2. \A f \in Evidence : ~Fill(f) /\ ~Exit(f)
      BY Zenon, <1>1 DEF Agreeing, Reported, Told
<1>3. \A f \in Dated : ~EndsEntry(f)
      BY Zenon, <1>1 DEF Agreeing, Reported, Ended, EndsEntry
<1>4. Range(native) \subseteq Evidence /\ Range(native) \subseteq Dated
      BY Zenon DEF Evidence, Dated
<1>5. \A f \in Range(native) : Early(f)
      BY Zenon, <1>2, <1>3, <1>4 DEF Early
<1>6. insight.state # "Filled"
      BY Zenon DEF Agreeing, Lacks, Opened
<1>7. insight.state # "Closed"
      BY Zenon DEF RInv, ClosedIsFlat, Flat
<1>8. ~insight.closing
      BY Zenon, <1>6 DEF Agreeing, Flagged
<1>9. ~Comes(native, FillReports)
  <2>1. \A n \in DOMAIN native : native[n] \in Evidence
        BY Zenon, <1>4 DEF Range
  <2>. QED  BY Zenon, <1>2, <2>1 DEF Comes, FillReports
<1>10. insight.state \in {"Cancelled", "Rejected"} => Adapter = "mt5" /\ venue.filled = 0
      BY Zenon, <1>9 DEF Agreeing, Lacks, Dropped
<1>11. ASSUME NEW x \in Exits PROVE insight.closes[x] = 0 /\ venue.exited[x] = 0
  <2>1. venue.exited[x] = 0
        BY Zenon DEF Agreeing, Ending
  <2>2. insight.closes[x] \in Nat /\ insight.closes[x] <= venue.exited[x]
        BY Zenon DEF RInv, Shapes, Insights, BeliefFollowsVenue
  <2>. QED  BY SMTT(30), <2>1, <2>2
<1>. QED  BY ZenonT(30), <1>2, <1>3, <1>5, <1>6, <1>7, <1>8, <1>10, <1>11

\* What joins the queue keeps what it says.
LEMMA Emitted ==
    ASSUME RInv, NEW e \in Reports, Emit(e)
    PROVE  /\ \A R : /\ Has(native, R) => Has(native', R)
                     /\ Comes(native, R) => Comes(native', R)
                     /\ e \in R => Has(native', R)
                     /\ e \in R /\ (\A f \in Range(native) : Early(f)) => Comes(native', R)
           /\ \A P, R : /\ Follow(native, P, R) => Follow(native', P, R)
                        /\ e \in R /\ (\A f \in Range(native) : Early(f)) /\ Has(native, P) =>
                              Follow(native', P, R)
<1>1. native \in Seq(Reports) /\ native' = Append(native, e)
      BY Zenon DEF RInv, Shapes, Emit
<1>2. \A P, R : /\ Has(native, R) => Has(native', R)
                /\ Comes(native, R) => Comes(native', R)
                /\ Follow(native, P, R) => Follow(native', P, R)
                /\ e \in R => Has(native', R)
                /\ e \in R /\ (\A f \in Range(native) : Early(f)) =>
                      Comes(native', R) /\ (Has(native, P) => Follow(native', P, R))
      BY Zenon, <1>1, Later
<1>. QED  BY Zenon, <1>2

\* A step of the venue before the order is over.
LEMMA OrderAgrees ==
    ASSUME RInv, Agreeing, WholeDeals, ~EntryOver, UNCHANGED <<setting, insight, local, answer, history, asked>>,
           NEW e \in Reports, Emit(e), venue' \in Venues, venue'.exited = venue.exited,
           Told(e)', Ended(e)', Ending', Awaits(insight, native)', Receipt',
           insight.state \in {"Cancelled", "Rejected"} => venue'.filled = venue.filled \/ e \in FillReports,
           venue'.entry = "working" /\ venue.entry = "none" => e \in AcceptReports,
           venue'.entry = "rejected" => e \notin AcceptReports, venue'.entry \in {"working", "rejected"} \/ ~Unaccepted
    PROVE  Agreeing'
<1>1. /\ \A f \in Evidence : ~Fill(f) /\ ~Exit(f)
      /\ \A f \in Dated : ~EndsEntry(f)
      /\ \A f \in Range(native) : Early(f)
      /\ insight.state \notin {"Filled", "Closed"} /\ ~insight.closing
      /\ insight.state \in {"Cancelled", "Rejected"} => Adapter = "mt5" /\ venue.filled = 0
      /\ \A x \in Exits : insight.closes[x] = 0 /\ venue.exited[x] = 0
      BY Zenon, Unreported
<1>2. UNCHANGED <<Adapter, FillReports, EndReports, CloseReports, AcceptReports>>
      BY Zenon DEF Adapter, FillReports, EndReports, CloseReports, AcceptReports
<1>3. native \in Seq(Reports) /\ native' = Append(native, e) /\ sent' = sent \cup {e}
      BY Zenon DEF RInv, Shapes, Emit
<1>4. Range(native') \subseteq Range(native) \cup {e}
      BY Zenon, <1>3, QueueFacts
<1>5. Reported'
  <2>1. \A f \in Evidence' : f \in Evidence \/ f = e
        BY Zenon, <1>3, <1>4 DEF Evidence
  <2>2. \A f \in Dated' : f \in Dated \/ f = e
        BY Zenon, <1>3, <1>4 DEF Dated
  <2>3. ASSUME NEW f \in Evidence PROVE Told(f)'
    <3>1. ~Fill(f) /\ ~Exit(f) /\ (Part(f) => Adapter' # "mt5")
          BY Zenon, <1>1, <1>2 DEF Agreeing, Reported, Told
    <3>. QED  BY Zenon, <3>1 DEF Told, Fill, Exit, Part, Reduction, EntrySide
  <2>4. ASSUME NEW f \in Dated PROVE Ended(f)'
    <3>1. ~EndsEntry(f)
          BY Zenon, <1>1
    <3>. QED  BY Zenon, <3>1 DEF Ended, EndsEntry
  <2>5. \A f \in history' : EndsEntry(f) => venue'.filled = 0
        BY Zenon, <1>1 DEF Dated
  <2>6. \A f \in Range(local') : EndsEntry(f) => Adapter' = "mt5" /\ insight'.known
        BY Zenon, <1>2 DEF Agreeing, Reported
  <2>7. (\A f \in Evidence' : Told(f)') /\ (\A f \in Dated' : Ended(f)')
        BY Zenon, <2>1, <2>2, <2>3, <2>4
  <2>. QED  BY Zenon, <2>5, <2>6, <2>7 DEF Reported, EndsEntry
<1>6. Opened(insight)' /\ Flagged(insight)'
      BY Zenon, <1>1 DEF Agreeing, Opened, Flagged, Pending
<1>7. Dropped(insight, native)'
  <2>1. ASSUME insight.state \in {"Cancelled", "Rejected"}
        PROVE  Adapter' = "mt5" /\ (venue'.filled = 0 \/ Comes(native', FillReports'))
        BY Zenon, <1>1, <1>2, <2>1, Emitted
  <2>. QED  BY Zenon, <2>1 DEF Dropped
<1>8. ExitsIn(insight, native)'
      BY Zenon, <1>1 DEF ExitsIn
<1>9. CloseIn(insight, native)'
  <2>1. SumFunctionOnSet(venue'.exited, Exits) = 0
    <3>1. PICK zeros : zeros = venue'.exited /\ \A x \in Exits : zeros[x] = 0
          BY Zenon, <1>1
    <3>2. SumFunctionOnSet(zeros, Exits) = 0
          BY Zenon, <3>1, SumOfZeros, ReducerAssumption
    <3>. QED  BY Zenon, <3>1, <3>2
  <2>2. Position' = venue'.filled - 0
        BY Zenon, <2>1 DEF Position
  <2>3. ~(Position' = 0 /\ venue'.filled > 0)
        BY SMTT(30), <2>2 DEF Venues
  <2>. QED  BY Zenon, <2>3 DEF CloseIn
<1>10. Lacks(insight, native)'
      BY Zenon, <1>6, <1>7, <1>8, <1>9 DEF Lacks
<1>11. Unbound(insight, native)'
  <2>. SUFFICES ASSUME ~insight.known, answer.state # "consumed" PROVE Unbound(insight, native)'
       BY Zenon DEF Unbound
  <2>1. CASE insight.state = "New" /\ Comes(native, AcceptReports)
    <3>1. Comes(native', AcceptReports')
          BY Zenon, <1>2, <2>1, Emitted
    <3>. QED  BY Zenon, <2>1, <3>1 DEF Unbound
  <2>2. CASE Unaccepted /\ insight.state = "New"
    <3>1. venue.entry = "none"
          BY Zenon, <2>2 DEF Agreeing, Receipt, EntryOver
    <3>2. CASE venue'.entry = "working"
      <4>1. Comes(native', AcceptReports')
            BY Zenon, <1>1, <1>2, <3>1, <3>2, Emitted
      <4>. QED  BY Zenon, <2>2, <4>1 DEF Unbound
    <3>3. CASE venue'.entry = "rejected"
      <4>1. e.kind # "Accepted"
            BY Zenon, <3>3 DEF AcceptReports
      <4>2. Unaccepted'
            BY Zenon, <1>3, <2>2, <4>1 DEF Unaccepted
      <4>. QED  BY Zenon, <2>2, <4>2 DEF Unbound
    <3>. QED  BY Zenon, <2>2, <3>2, <3>3
  <2>3. venue.entry # "rejected"
        BY Zenon DEF EntryOver
  <2>. QED  BY Zenon, <2>1, <2>2, <2>3 DEF Agreeing, Unbound
<1>. QED  BY Zenon, <1>5, <1>6, <1>10, <1>11 DEF Agreeing

\* What is lacking of the quantity before the order is over.
LEMMA Awaited ==
    ASSUME RInv, Agreeing, ~EntryOver, Pending(insight)
    PROVE  /\ Adapter = "mt5" => insight.filled = 0
           /\ insight.filled = venue.filled \/ Has(native, LastParts)
    BY Zenon DEF Agreeing, Lacks, Awaits

\* The order is accepted.
LEMMA AcceptAgrees ==
    ASSUME RInv, Agreeing, WholeDeals, UNCHANGED setting, VenueAccepts PROVE Agreeing'
<1>1. /\ venue.entry = "none" /\ venue' = [venue EXCEPT !.entry = "working"] /\ venue \in Venues
      /\ UNCHANGED <<insight, local, answer, history, asked>> /\ Emit(Event("Accepted", "entry", 0))
      BY Zenon DEF VenueAccepts, RInv, Shapes
<1>2. PICK e : e = Event("Accepted", "entry", 0)
      BY Zenon
<1>3. e \in Reports /\ e.kind = "Accepted"
      BY Zenon, <1>2 DEF Event, Reports, Kinds
<1>4. /\ venue' \in Venues /\ venue'.entry = "working" /\ venue'.size = venue.size
      /\ venue'.filled = venue.filled /\ venue'.exited = venue.exited
      BY Zenon, <1>1 DEF Venues
<1>5. ~EntryOver /\ LastParts' = LastParts /\ Adapter' = Adapter
      BY Zenon, <1>1, <1>4 DEF EntryOver, LastParts, Adapter
<1>6. Told(e)' /\ Ended(e)'
      BY Zenon, <1>3 DEF Told, Ended, Fill, Exit, Part, Reduction
<1>7. Ending'
      BY Zenon, <1>4, <1>5 DEF Agreeing, Ending
<1>8. Awaits(insight, native)'
  <2>1. ASSUME Pending(insight)
        PROVE  /\ Adapter = "mt5" => insight.filled = 0
               /\ insight.filled = venue'.filled \/ Has(native', LastParts')
        BY ZenonT(30), <1>1, <1>2, <1>3, <1>4, <1>5, <2>1, Awaited, Emitted
  <2>. QED  BY Zenon, <1>1, <1>4, <1>5, <2>1 DEF Awaits, Pending
<1>9. Receipt'
  <2>1. ~Unaccepted'
        BY Zenon, <1>1, <1>2, <1>3 DEF Unaccepted, Emit
  <2>. QED  BY Zenon, <1>1, <1>4, <2>1 DEF Agreeing, Receipt, EntrySide
<1>10. e \in AcceptReports
      BY Zenon, <1>3 DEF AcceptReports
<1>. QED  BY ZenonT(30), <1>1, <1>2, <1>3, <1>4, <1>5, <1>6, <1>7, <1>8, <1>9, <1>10, OrderAgrees

\* The order is rejected, or cancelled with or without a part of it filled.
LEMMA EndAgrees ==
    ASSUME RInv, Agreeing, WholeDeals, UNCHANGED setting, VenueRejects \/ VenueCancels PROVE Agreeing'
<1>1. PICK k \in {"Rejected", "Cancelled"}, en \in {"rejected", "cancelled"} :
         /\ venue' = [venue EXCEPT !.entry = en] /\ Emit(Event(k, "entry", 0))
         /\ k = "Rejected" => en = "rejected" /\ venue.filled = 0 /\ venue.entry \in {"none", "working"}
         /\ k = "Cancelled" => en = "cancelled" /\ venue.entry = "working"
      BY Zenon DEF VenueRejects, VenueCancels
<1>2. UNCHANGED <<insight, local, answer, history, asked>> /\ venue \in Venues
      BY Zenon DEF VenueRejects, VenueCancels, RInv, Shapes
<1>3. PICK e : e = Event(k, "entry", 0)
      BY Zenon
<1>4. e \in Reports /\ e.kind = k
      BY Zenon, <1>3 DEF Event, Reports, Kinds
<1>5. /\ venue' \in Venues /\ venue'.entry = en /\ venue'.size = venue.size
      /\ venue'.filled = venue.filled /\ venue'.exited = venue.exited
      BY Zenon, <1>1, <1>2 DEF Venues
<1>6. ~EntryOver /\ EntryOver' /\ LastParts' = LastParts /\ Adapter' = Adapter /\ EndReports' = EndReports
      BY Zenon, <1>1, <1>5 DEF EntryOver, LastParts, Adapter, EndReports
<1>7. Told(e)' /\ Ended(e)'
      BY Zenon, <1>1, <1>4, <1>5 DEF Told, Ended, Fill, Exit, Part, Reduction
<1>8. Ending'
      BY Zenon, <1>1, <1>5, <1>6 DEF Agreeing, Ending
<1>9. Awaits(insight, native)'
  <2>1. ASSUME Pending(insight) PROVE (Adapter = "mt5" => insight.filled = 0) /\ EndIn(insight, native)'
    <3>1. /\ Adapter = "mt5" => insight.filled = 0
          /\ insight.filled = venue.filled \/ Has(native, LastParts)
          BY Zenon, <1>6, <2>1, Awaited
    <3>2. e \in EndReports
          BY Zenon, <1>1, <1>4 DEF EndReports, EndsEntry
    <3>3. \A f \in Range(native) : Early(f)
          BY Zenon, <1>6, Unreported
    <3>4. Comes(native', EndReports) /\ (Has(native, LastParts) => Follow(native', LastParts, EndReports))
          BY ZenonT(30), <1>1, <1>3, <1>4, <3>2, <3>3, Emitted
    <3>. QED  BY Zenon, <1>2, <1>5, <1>6, <3>1, <3>4 DEF EndIn
  <2>. QED  BY Zenon, <1>2, <1>5, <1>6, <2>1 DEF Awaits, Pending
<1>10. Receipt' /\ (en = "cancelled" => ~Unaccepted)
  <2>1. sent' = sent \cup {e}
        BY Zenon, <1>1, <1>3 DEF Emit
  <2>2. Unaccepted' => Unaccepted
        BY Zenon, <2>1 DEF Unaccepted
  <2>3. Unaccepted => en = "rejected" /\ (answer.state # "none" => answer.event.kind = "Rejected")
        BY Zenon, <1>1 DEF Agreeing, Receipt
  <2>4. Receipt'
        BY Zenon, <1>2, <1>5, <2>2, <2>3 DEF Agreeing, Receipt, EntrySide
  <2>. QED  BY Zenon, <2>3, <2>4
<1>11. e \notin AcceptReports
      BY Zenon, <1>4 DEF AcceptReports
<1>. QED  BY ZenonT(30), <1>1, <1>2, <1>3, <1>4, <1>5, <1>6, <1>7, <1>8, <1>9, <1>10, <1>11, OrderAgrees

\* A smaller order takes the place of a working one.
LEMMA ReplaceAgrees ==
    ASSUME RInv, Agreeing, WholeDeals, UNCHANGED setting, VenueReplaces PROVE Agreeing'
<1>1. PICK n \in 1..(venue.size - 1) :
         venue' = [venue EXCEPT !.size = n] /\ Emit(Event("Replaced", "entry", n))
      BY Zenon DEF VenueReplaces
<1>2. /\ venue.entry = "working" /\ UNCHANGED <<insight, local, answer, history, asked>>
      /\ venue \in Venues
      BY Zenon DEF VenueReplaces, RInv, Shapes
<1>3. n \in Nat /\ n > 0
      BY SMTT(30), <1>1
<1>4. PICK e : e = Event("Replaced", "entry", n)
      BY Zenon
<1>5. e \in Reports /\ e.kind = "Replaced"
      BY Zenon, <1>3, <1>4 DEF Event, Reports, Kinds
<1>6. /\ venue' \in Venues /\ venue'.entry = "working" /\ venue'.size = n
      /\ venue'.filled = venue.filled /\ venue'.exited = venue.exited
      BY Zenon, <1>1, <1>2, <1>3 DEF Venues
<1>7. ~EntryOver /\ LastParts' = LastParts /\ Adapter' = Adapter
      BY Zenon, <1>2, <1>6 DEF EntryOver, LastParts, Adapter
<1>8. Told(e)' /\ Ended(e)'
      BY Zenon, <1>5 DEF Told, Ended, Fill, Exit, Part, Reduction
<1>9. Ending'
      BY Zenon, <1>3, <1>6, <1>7 DEF Agreeing, Ending
<1>10. Awaits(insight, native)'
  <2>1. ASSUME Pending(insight)
        PROVE  /\ Adapter = "mt5" => insight.filled = 0
               /\ insight.filled = venue'.filled \/ Has(native', LastParts')
        BY ZenonT(30), <1>1, <1>4, <1>5, <1>6, <1>7, <2>1, Awaited, Emitted
  <2>. QED  BY Zenon, <1>2, <1>6, <1>7, <2>1 DEF Awaits, Pending
<1>11. Receipt' /\ ~Unaccepted
  <2>1. ~Unaccepted
        BY Zenon, <1>2 DEF Agreeing, Receipt
  <2>2. ~Unaccepted'
        BY Zenon, <1>1, <2>1 DEF Unaccepted, Emit
  <2>. QED  BY Zenon, <1>2, <1>6, <2>1, <2>2 DEF Agreeing, Receipt, EntrySide
<1>. QED  BY ZenonT(30), <1>1, <1>2, <1>4, <1>5, <1>6, <1>7, <1>8, <1>9, <1>10, <1>11, OrderAgrees

\* The entry fills, in part or whole: MT5 reports the deal, the others what is filled by now.
LEMMA FillAgrees ==
    ASSUME RInv, Agreeing, WholeDeals, UNCHANGED setting, VenueFills PROVE Agreeing'
<1>1. venue \in Venues /\ Books /\ WholeDeals
      BY Zenon DEF RInv, Shapes
<1>2. UNCHANGED <<insight, local, answer, history, asked>> /\ venue.entry = "working"
      BY Zenon DEF VenueFills
<1>3. PICK qty \in Parts(PartialEntries, venue.size - venue.filled) :
         /\ venue' = [venue EXCEPT !.filled = venue.filled + qty,
                                   !.entry = IF venue.filled + qty = venue.size THEN "filled" ELSE @]
         /\ Emit(EntryReport(qty, venue.filled + qty))
      BY Zenon DEF VenueFills
<1>4. venue.size - venue.filled \in Nat /\ venue.filled \in Nat /\ venue.size \in Nat
      BY SMTT(30), <1>1 DEF Books, Venues
<1>5. qty \in 1..(venue.size - venue.filled) /\ (PartialEntries = FALSE => qty = venue.size - venue.filled)
      BY Zenon, <1>4, PartsFacts, SettingType
<1>6. PICK total : total = venue.filled + qty
      BY Zenon
<1>7. /\ total \in Nat /\ qty \in Nat /\ total > 0
      /\ PartialEntries = FALSE => total = venue.size
      BY SMTT(30), <1>4, <1>5, <1>6
<1>8. PICK en \in {"filled", "working"} : /\ venue' = [venue EXCEPT !.filled = total, !.entry = en]
                                          /\ en = "filled" <=> total = venue.size
  <2>1. venue' = [venue EXCEPT !.filled = total, !.entry = IF total = venue.size THEN "filled" ELSE @]
        BY Zenon, <1>3, <1>6
  <2>2. CASE total = venue.size
    <3>1. venue' = [venue EXCEPT !.filled = total, !.entry = "filled"]
          BY Zenon, <2>1, <2>2
    <3>. QED  BY Zenon, <2>2, <3>1
  <2>3. CASE total # venue.size
    <3>1. venue' = [venue EXCEPT !.filled = total, !.entry = "working"]
          BY Zenon, <1>1, <1>2, <2>1, <2>3 DEF Venues
    <3>. QED  BY Zenon, <2>3, <3>1
  <2>. QED  BY Zenon, <2>2, <2>3
<1>9. /\ venue' \in Venues /\ venue'.entry = en /\ venue'.size = venue.size
      /\ venue'.filled = total /\ venue'.exited = venue.exited
      BY Zenon, <1>1, <1>7, <1>8 DEF Venues
<1>10. ~EntryOver /\ Adapter' = Adapter /\ UNCHANGED <<FillReports>>
      BY Zenon, <1>2 DEF EntryOver, Adapter, FillReports
<1>11. Adapter = "mt5" => venue.filled = 0 /\ qty = total /\ en = "filled"
  <2>1. Adapter = "mt5" => PartialEntries = FALSE
        BY Zenon, <1>1 DEF WholeDeals
  <2>2. Adapter = "mt5" => ~(venue.filled > 0)
        BY Zenon, <1>1, <1>2, <2>1 DEF Books
  <2>3. Adapter = "mt5" => venue.filled = 0 /\ qty = total
        BY SMTT(30), <1>4, <1>6, <1>7, <2>2
  <2>. QED  BY Zenon, <1>7, <1>8, <2>1, <2>3
<1>12. PICK e : /\ e = EntryReport(qty, total) /\ e \in Reports /\ EntrySide(e) /\ e.qty = total
                /\ e.kind = IF en = "filled" THEN "Filled" ELSE "PartialFilled"
  <2>1. PICK k : k = IF en = "filled" THEN "Filled" ELSE "PartialFilled"
        BY Zenon
  <2>2. PICK e : e = Event(k, "entry", total)
        BY Zenon
  <2>3. EntryReport(qty, total) = e
        BY Zenon, <1>8, <1>11, <2>1, <2>2 DEF EntryReport
  <2>4. k \in {"Filled", "PartialFilled"}
        BY Zenon, <2>1
  <2>5. e \in Reports /\ EntrySide(e) /\ e.qty = total /\ e.kind = k
        BY Zenon, <1>7, <2>2, <2>4 DEF Event, Reports, Kinds, EntrySide
  <2>. QED  BY Zenon, <2>1, <2>3, <2>5
<1>13. Emit(e)
      BY Zenon, <1>3, <1>6, <1>12
<1>14. /\ en = "filled" => e \in FillReports /\ e.kind = "Filled"
       /\ en = "working" => e \in LastParts' /\ Adapter # "mt5" /\ e.kind = "PartialFilled"
  <2>1. en = "filled" => e \in FillReports /\ e.kind = "Filled"
        BY Zenon, <1>12 DEF FillReports, Fill
  <2>2. ASSUME en = "working" PROVE e.kind = "PartialFilled" /\ Adapter # "mt5"
        BY Zenon, <1>11, <1>12, <2>2
  <2>3. en = "working" => e \in LastParts'
        BY Zenon, <1>9, <1>12, <2>2 DEF LastParts, Part, EntrySide
  <2>. QED  BY Zenon, <2>1, <2>2, <2>3
<1>15. Told(e)' /\ Ended(e)'
  <2>1. Told(e)'
        BY Zenon, <1>9, <1>10, <1>12, <1>14 DEF Told, Fill, Exit, Part, Reduction, EntrySide
  <2>2. Ended(e)'
        BY Zenon, <1>14 DEF Ended
  <2>. QED  BY Zenon, <2>1, <2>2
<1>16. Ending'
  <2>1. venue.size > 0 /\ \A x \in Exits : venue.exited[x] = 0
        BY Zenon, <1>10 DEF Agreeing, Ending
  <2>. QED  BY Zenon, <1>8, <1>9, <2>1 DEF Ending
<1>17. Awaits(insight, native)'
  <2>1. ASSUME Pending(insight) PROVE Adapter = "mt5" => insight.filled = 0
        BY Zenon, <1>10, <2>1, Awaited
  <2>2. en = "filled" => Comes(native', FillReports')
        BY ZenonT(30), <1>10, <1>12, <1>13, <1>14, Unreported, Emitted
  <2>3. en = "working" => Has(native', LastParts')
        BY Zenon, <1>12, <1>13, <1>14, Emitted
  <2>4. EntryOver' <=> en = "filled"
        BY Zenon, <1>9 DEF EntryOver
  <2>. QED  BY ZenonT(30), <1>2, <1>9, <1>10, <2>1, <2>2, <2>3, <2>4 DEF Awaits, Pending
<1>18. Receipt' /\ ~Unaccepted
  <2>1. ~Unaccepted
        BY Zenon, <1>2 DEF Agreeing, Receipt
  <2>2. ~Unaccepted'
        BY Zenon, <1>13, <2>1 DEF Unaccepted, Emit
  <2>3. venue'.entry # "none"
        BY Zenon, <1>9
  <2>. QED  BY Zenon, <1>2, <2>1, <2>2, <2>3 DEF Agreeing, Receipt, EntrySide
<1>19. insight.state \in {"Cancelled", "Rejected"} => e \in FillReports
  <2>1. insight.state \in {"Cancelled", "Rejected"} => Adapter = "mt5"
        BY Zenon, <1>10, Unreported
  <2>. QED  BY Zenon, <1>11, <1>14, <2>1
<1>20. venue'.entry # "rejected" /\ venue.entry # "none"
      BY Zenon, <1>2, <1>9
<1>. QED  BY ZenonT(30), <1>2, <1>9, <1>10, <1>12, <1>13, <1>15, <1>16, <1>17, <1>18, <1>19, <1>20, OrderAgrees

\* The position is reduced.
LEMMA ExitAgrees ==
    ASSUME RInv, Agreeing, WholeDeals, UNCHANGED setting, NEW x \in setting.exits, VenueExits(x)
    PROVE  Agreeing'
<1>1. venue \in Venues /\ Books /\ Position \in Nat /\ Position <= venue.filled /\ x \in Exits
      BY Zenon, PositionType, SettingType DEF RInv
<1>2. UNCHANGED <<insight, answer, history>> /\ (Adapter = "mt5" \/ EntryOver)
      BY Zenon DEF VenueExits
<1>3. PICK qty \in Parts(PartialExits, Position) :
         LET e == ExitReport(x, qty, Position - qty) IN
         /\ venue' = [venue EXCEPT !.exited[x] = @ + qty]
         /\ Emit(e)
         /\ local' = local \/ local' = Append(local, e)
         /\ asked' = asked \/ asked' = asked \ {"close"}
      BY Zenon DEF VenueExits
<1>4. qty \in 1..Position /\ (PartialExits = FALSE => qty = Position)
      BY Zenon, <1>1, PartsFacts, SettingType
<1>5. PICK left, more : left = Position - qty /\ more = venue.exited[x] + qty
      BY Zenon
<1>6. /\ qty \in Nat /\ left \in Nat /\ more \in Nat /\ venue.exited[x] < more
      /\ (PartialExits = FALSE => left = 0) /\ venue.filled > 0 /\ Position # 0
  <2>1. venue.exited[x] \in Nat /\ venue.filled \in Nat
        BY Zenon, <1>1 DEF Venues
  <2>2. qty = Position => left = 0
        BY SMTT(30), <1>1, <1>5
  <2>3. qty \in Nat /\ left \in Nat /\ more \in Nat /\ venue.exited[x] < more /\ venue.filled > 0 /\ Position # 0
        BY SMTT(30), <1>1, <1>4, <1>5, <2>1
  <2>. QED  BY Zenon, <1>4, <2>2, <2>3
<1>7. /\ venue'.filled = venue.filled /\ venue'.size = venue.size /\ venue'.entry = venue.entry
      /\ venue'.exited = [venue.exited EXCEPT ![x] = @ + qty]
      /\ venue'.exited[x] = more /\ \A y \in Exits : y # x => venue'.exited[y] = venue.exited[y]
  <2>1. PICK f : f = venue.exited /\ f \in [Exits -> Nat]
        BY Zenon, <1>1 DEF Venues
  <2>2. PICK g : g = [f EXCEPT ![x] = @ + qty]
        BY Zenon
  <2>3. g[x] = more /\ \A y \in Exits : y # x => g[y] = f[y]
        BY Zenon, <1>1, <1>5, <2>1, <2>2
  <2>4. venue' = [venue EXCEPT !.exited = g]
        BY Zenon, <1>1, <1>3, <2>1, <2>2 DEF Venues
  <2>5. /\ venue'.filled = venue.filled /\ venue'.size = venue.size /\ venue'.entry = venue.entry
        /\ venue'.exited = g
        BY Zenon, <1>1, <2>4 DEF Venues
  <2>. QED  BY Zenon, <2>1, <2>2, <2>3, <2>5
<1>8. Position' = left
  <2>1. PICK f : f = venue.exited /\ f \in [Exits -> Nat]
        BY Zenon, <1>1 DEF Venues
  <2>2. SumFunctionOnSet([f EXCEPT ![x] = @ + qty], Exits) = SumFunctionOnSet(f, Exits) + qty
        BY Zenon, <1>1, <1>6, <2>1, SumBump
  <2>3. PICK n : n = SumFunctionOnSet(f, Exits) /\ n \in Nat
    <3>1. \A y \in Exits : f[y] \in Nat
          BY Zenon, <2>1
    <3>. QED  BY Zenon, <3>1, SumType, ReducerAssumption
  <2>4. Position = venue.filled - n /\ Position' = venue.filled - (n + qty)
        BY ZenonT(30), <1>7, <2>1, <2>2, <2>3 DEF Position
  <2>5. venue.filled \in Nat
        BY Zenon, <1>1 DEF Venues
  <2>. QED  BY SMTT(30), <1>5, <1>6, <2>3, <2>4, <2>5
<1>9. EntryOver /\ EntryOver' /\ Adapter' = Adapter /\ LastParts' = LastParts
      /\ UNCHANGED <<FillReports, EndReports, AcceptReports, CloseReports>>
  <2>1. EntryOver
        BY Zenon, <1>1, <1>2, <1>6 DEF WholeDeals, Books, EntryOver
  <2>. QED  BY Zenon, <1>7, <2>1 DEF EntryOver, Adapter, LastParts, FillReports, EndReports, AcceptReports, CloseReports
<1>10. PICK e : /\ e = ExitReport(x, qty, left) /\ e \in Reports /\ Exit(e)
                /\ left = 0 => e \in CloseReports
                /\ left # 0 => e \in LastExits(x)'
  <2>0. x # "entry"
        BY Zenon, <1>1, ReducerAssumption
  <2>1. CASE left = 0
    <3>1. PICK o \in {x, "entry"} : ExitReport(x, qty, left) = Event("Closed", o, qty)
          BY Zenon, <2>1 DEF ExitReport
    <3>2. PICK e : e = Event("Closed", o, qty)
          BY Zenon
    <3>3. e \in Reports /\ e.kind = "Closed"
          BY Zenon, <1>1, <1>6, <3>1, <3>2 DEF Event, Reports, Kinds
    <3>. QED  BY Zenon, <2>1, <3>1, <3>2, <3>3 DEF Exit, CloseReports
  <2>2. CASE left # 0
    <3>1. Adapter # "mt5"
          BY Zenon, <1>6, <2>2 DEF WholeDeals
    <3>2. PICK e : e = Event("PartialFilled", x, more)
          BY Zenon
    <3>3. e \in Reports /\ ~EntrySide(e) /\ e.kind = "PartialFilled" /\ e.order = x /\ e.qty = more
          BY ZenonT(30), <1>1, <1>6, <2>0, <3>2 DEF Event, Reports, Kinds, EntrySide
    <3>4. e = ExitReport(x, qty, left)
          BY ZenonT(30), <1>5, <2>2, <3>1, <3>2 DEF ExitReport
    <3>5. e \in LastExits(x)'
          BY Zenon, <1>7, <3>3 DEF LastExits
    <3>. QED  BY ZenonT(30), <2>2, <3>3, <3>4, <3>5 DEF Exit, Reduction
  <2>. QED  BY Zenon, <2>1, <2>2
<1>11. /\ Emit(e) /\ (local' = local \/ local' = Append(local, e))
       /\ asked' = asked \/ asked' = asked \ {"close"}
      BY ZenonT(30), <1>3, <1>5, <1>10
<1>12. /\ e.kind \in {"Closed", "PartialFilled"} /\ ~Fill(e) /\ ~Part(e) /\ ~EndsEntry(e)
       /\ e.kind # "Accepted"
      BY Zenon, <1>10 DEF Exit, Reduction, Fill, Part, EndsEntry
<1>13. /\ Range(native') \subseteq Range(native) \cup {e} /\ Range(local') \subseteq Range(local) \cup {e}
       /\ sent' = sent \cup {e}
  <2>1. native \in Seq(Reports) /\ local \in Seq(Reports)
        BY Zenon DEF RInv, Shapes
  <2>2. /\ Range(Append(native, e)) \subseteq Range(native) \cup {e}
        /\ Range(Append(local, e)) \subseteq Range(local) \cup {e}
        BY ZenonT(30), <1>10, <2>1, QueueFacts
  <2>. QED  BY Zenon, <1>11, <2>2 DEF Emit
<1>14. Reported'
  <2>1. \A f \in Evidence' : f \in Evidence \/ f = e
        BY Zenon, <1>2, <1>13 DEF Evidence
  <2>2. \A f \in Dated' : f \in Dated \/ f = e
        BY Zenon, <1>2, <1>13 DEF Dated
  <2>3. ASSUME NEW f \in Evidence \cup {e} PROVE Told(f)'
    <3>1. Told(f)
          BY Zenon, <1>6, <1>9, <1>12 DEF Agreeing, Reported, Told
    <3>. QED  BY Zenon, <1>7, <1>9, <3>1 DEF Told, Fill, Exit, Part, Reduction, EntrySide
  <2>4. ASSUME NEW f \in Dated \cup {e} PROVE Ended(f)'
    <3>1. Ended(f)
          BY Zenon, <1>12 DEF Agreeing, Reported, Ended, EndsEntry
    <3>. QED  BY Zenon, <1>7, <3>1 DEF Ended
  <2>5. \A f \in history' : EndsEntry(f) => venue'.filled = 0
        BY Zenon, <1>2, <1>7 DEF Agreeing, Reported
  <2>6. \A f \in Range(local') : EndsEntry(f) => Adapter' = "mt5" /\ insight'.known
        BY ZenonT(30), <1>2, <1>9, <1>12, <1>13 DEF Agreeing, Reported
  <2>7. (\A f \in Evidence' : Told(f)') /\ (\A f \in Dated' : Ended(f)')
        BY ZenonT(30), <2>1, <2>2, <2>3, <2>4
  <2>. QED  BY Zenon, <2>5, <2>6, <2>7 DEF Reported, EndsEntry
<1>15. Ending'
      BY Zenon, <1>7, <1>9 DEF Agreeing, Ending
<1>16. /\ \A R : (Has(native, R) => Has(native', R)) /\ (Comes(native, R) => Comes(native', R))
       /\ \A P, R : Follow(native, P, R) => Follow(native', P, R)
       /\ \A R : e \in R => Has(native', R)
      BY Zenon, <1>10, <1>11, Emitted
<1>17. Opened(insight)' /\ Dropped(insight, native)'
      BY Zenon, <1>2, <1>7, <1>9, <1>16 DEF Agreeing, Lacks, Opened, Dropped
<1>18. Awaits(insight, native)'
      BY ZenonT(30), <1>2, <1>7, <1>9, <1>16 DEF Agreeing, Lacks, Awaits, EndIn, Pending
<1>19. ExitsIn(insight, native)'
  <2>. SUFFICES ASSUME left # 0, NEW y \in Exits
                PROVE  insight.closes[y] = venue'.exited[y] \/ Has(native', LastExits(y)')
       BY Zenon, <1>2, <1>8 DEF ExitsIn
  <2>1. CASE y = x
        BY Zenon, <1>10, <1>16, <2>1
  <2>2. CASE y # x
    <3>1. LastExits(y)' = LastExits(y) /\ venue'.exited[y] = venue.exited[y]
          BY Zenon, <1>7, <2>2 DEF LastExits
    <3>. QED  BY Zenon, <1>6, <1>16, <3>1 DEF Agreeing, Lacks, ExitsIn
  <2>. QED  BY Zenon, <2>1, <2>2
<1>20. CloseIn(insight, native)'
      BY ZenonT(30), <1>8, <1>9, <1>10, <1>16 DEF CloseIn
<1>21. Flagged(insight)'
  <2>1. insight.closes[x] < venue'.exited[x]
    <3>1. insight.closes[x] \in Nat /\ venue.exited[x] \in Nat /\ insight.closes[x] <= venue.exited[x]
          BY Zenon, <1>1 DEF RInv, Shapes, Insights, Venues, BeliefFollowsVenue
    <3>. QED  BY SMTT(30), <1>6, <1>7, <3>1
  <2>2. "cancel" \in asked' => "cancel" \in asked
        BY Zenon, <1>11
  <2>. QED  BY ZenonT(30), <1>1, <1>2, <2>1, <2>2 DEF Agreeing, Flagged, Pending
<1>22. Unaccepted' <=> Unaccepted
      BY Zenon, <1>12, <1>13 DEF Unaccepted
<1>23. Receipt'
      BY Zenon, <1>2, <1>7, <1>22 DEF Agreeing, Receipt, EntrySide
<1>24. Unbound(insight, native)'
      BY ZenonT(30), <1>2, <1>7, <1>9, <1>16, <1>22 DEF Agreeing, Unbound
<1>25. Lacks(insight, native)'
      BY Zenon, <1>17, <1>18, <1>19, <1>20 DEF Lacks
<1>. QED  BY ZenonT(30), <1>14, <1>15, <1>21, <1>23, <1>24, <1>25 DEF Agreeing

\* In the beginning there is nothing to lack.
LEMMA SettleInit == Init => SInv
<1>. SUFFICES ASSUME Init PROVE lost \in Nat /\ Agreeing
     BY Zenon DEF SInv
<1>0. RInv /\ lost \in Nat
  <2>1. lost = 0
        BY Zenon DEF Init
  <2>. QED  BY SMTT(30), <2>1, ReducerInit
<1>1. PICK zero : zero = [x \in Exits |-> 0] /\ \A x \in Exits : zero[x] = 0
  <2>1. PICK zero : zero = [x \in Exits |-> 0]
        BY Zenon
  <2>2. \A x \in Exits : zero[x] = 0
        BY Zenon, <2>1
  <2>. QED  BY Zenon, <2>1, <2>2
<1>2. /\ insight.state = "New" /\ insight.known = FALSE /\ insight.filled = 0 /\ insight.closes = zero
      /\ insight.cancelling = FALSE /\ insight.closing = FALSE
      BY Zenon, <1>1 DEF Init
<1>3. venue.entry = "none" /\ venue.filled = 0 /\ venue.size = Quantity /\ venue.exited = zero
      BY Zenon, <1>1 DEF Init
<1>4. PICK e : e = Event("Accepted", "entry", 0) /\ EntrySide(e) /\ e.kind = "Accepted"
  <2>1. PICK e : e = Event("Accepted", "entry", 0)
        BY Zenon
  <2>2. EntrySide(e) /\ e.kind = "Accepted"
        BY Zenon, <2>1 DEF Event, EntrySide
  <2>. QED  BY Zenon, <2>1, <2>2
<1>5. answer.event = e /\ answer.state = "none" /\ sent = {} /\ history = {} /\ asked = {}
      BY Zenon, <1>4 DEF Init
<1>6. Range(native) = {} /\ Range(local) = {}
  <2>1. native = <<>> /\ local = <<>>
        BY Zenon DEF Init
  <2>2. DOMAIN native = {} /\ DOMAIN local = {}
        BY SMTT(30), <2>1
  <2>. QED  BY Zenon, <2>2 DEF Range
<1>7. Reported
  <2>1. Evidence = {e} /\ Dated = {e}
        BY Zenon, <1>5, <1>6 DEF Evidence, Dated
  <2>2. Told(e) /\ Ended(e)
        BY Zenon, <1>4 DEF Told, Ended, Fill, Exit, Part, Reduction
  <2>. QED  BY Zenon, <1>5, <1>6, <2>1, <2>2 DEF Reported
<1>8. Ending
  <2>1. Quantity > 0
        BY SMTT(30), ReducerAssumption
  <2>. QED  BY Zenon, <1>1, <1>3, <2>1 DEF Ending
<1>9. Lacks(insight, native)
  <2>1. ~(venue.filled > 0)
        BY SMTT(30), <1>3
  <2>. QED  BY Zenon, <1>1, <1>2, <1>3, <2>1 DEF Lacks, Opened, Dropped, Awaits, ExitsIn, CloseIn
<1>10. Flagged(insight)
      BY Zenon, <1>2, <1>5 DEF Flagged
<1>11. Receipt
      BY Zenon, <1>3, <1>4, <1>5 DEF Receipt
<1>12. Unbound(insight, native)
      BY Zenon, <1>2, <1>5 DEF Unbound, Unaccepted
<1>. QED  BY ZenonT(30), <1>0, <1>7, <1>8, <1>9, <1>10, <1>11, <1>12 DEF Agreeing

\* Every step keeps it, unless a report is lost.
LEMMA SettleStep == RInv /\ SInv /\ [Next]_vars => SInv'
<1>. SUFFICES ASSUME RInv, SInv, [Next]_vars PROVE SInv'
     BY Zenon
<1>1. CASE UNCHANGED vars
  <2>1. UNCHANGED <<setting, insight, venue, native, local, sent, answer, history, asked, lost>>
        BY Zenon, <1>1 DEF vars
  <2>2. WholeDeals' = WholeDeals
        BY Zenon, <2>1, SettingType
  <2>3. ASSUME Agreeing PROVE Agreeing'
    <3>1. Flagged(insight)'
      <4>1. Position' = Position
            BY Zenon, <2>1 DEF Position
      <4>. QED  BY Zenon, <2>1, <2>3, <4>1 DEF Agreeing, Flagged, Pending
    <3>. QED  BY ZenonT(30), <2>1, <2>3, <3>1, StillAgrees
  <2>. QED  BY Zenon, <2>1, <2>2, <2>3 DEF SInv
<1>2. CASE Next
  <2>1. UNCHANGED setting
        BY Zenon, <1>2 DEF Next
  <2>2. WholeDeals' = WholeDeals
        BY Zenon, <2>1, SettingType
  <2>3. lost \in Nat
        BY Zenon DEF SInv
  <2>4. CASE Lose
    <3>1. lost' = lost + 1
          BY Zenon, <2>4 DEF Lose
    <3>2. lost' \in Nat /\ lost' # 0
          BY SMTT(30), <2>3, <3>1
    <3>. QED  BY Zenon, <3>2 DEF SInv
  <2>5. CASE Venue \/ Strategy \/ Redeliver
    <3>1. UNCHANGED lost
      <4>1. CASE Venue
            BY Zenon, <4>1 DEF Venue, VenueAccepts, VenueRejects, VenueReplaces, VenueFills, VenueCancels,
                               VenueExits, CancelAcknowledged, CancelDeclined, CloseDeclined, SubmitAnswered
      <4>2. CASE Strategy
            BY Zenon, <4>2 DEF Strategy, TakeNative, TakeLocal, TakeAnswer, Cancel, Close, HistoryRead,
                               HistoryApply
      <4>3. CASE Redeliver
            BY Zenon, <4>3 DEF Redeliver
      <4>. QED  BY ZenonT(30), <2>5, <4>1, <4>2, <4>3
    <3>2. ASSUME Agreeing, WholeDeals PROVE Agreeing'
      <4>1. CASE \E x \in setting.exits : VenueExits(x)
            BY Zenon, <2>1, <3>2, <4>1, ExitAgrees
      <4>2. CASE Venue /\ ~(\E x \in setting.exits : VenueExits(x))
            BY ZenonT(30), <2>1, <3>2, <4>2, AcceptAgrees, EndAgrees, ReplaceAgrees, FillAgrees,
                           AcknowledgeAgrees, CommandAgrees, SubmitAgrees DEF Venue
      <4>3. CASE Strategy
            BY ZenonT(30), <2>1, <3>2, <4>3, NativeAgrees, LocalAgrees, AnswerAgrees, CommandAgrees,
                           ReadAgrees, ApplyAgrees DEF Strategy
      <4>4. CASE Redeliver
            BY Zenon, <2>1, <3>2, <4>4, RedeliverAgrees
      <4>. QED  BY ZenonT(30), <2>5, <4>1, <4>2, <4>3, <4>4
    <3>. QED  BY Zenon, <2>2, <3>1, <3>2 DEF SInv
  <2>. QED  BY Zenon, <1>2, <2>4, <2>5 DEF Next
<1>. QED  BY Zenon, <1>1, <1>2

\* With nothing left in the queues the belief lacks nothing.
LEMMA Settled == RInv /\ SInv => (WholeDeals => SettledAgrees /\ FlagsAreOutstanding)
<1>. SUFFICES ASSUME RInv, SInv, WholeDeals, Quiet
              PROVE  /\ Position > 0 => insight.state = "Filled" /\ Remaining(insight) = Position
                     /\ ~(Position > 0) => insight.state \in Inactive
                     /\ insight.closing => "close" \in asked
                     /\ insight.cancelling => "cancel" \in asked \/ answer.state # "consumed"
                     /\ answer.state # "retained"
     BY Zenon DEF SettledAgrees, FlagsAreOutstanding
<1>1. EntryOver /\ native = <<>> /\ Agreeing
      BY Zenon DEF Quiet, SInv
<1>2. /\ \A R : ~Has(native, R) /\ ~Comes(native, R)
      /\ \A P, R : ~Follow(native, P, R)
  <2>1. DOMAIN native = {}
        BY SMTT(30), <1>1
  <2>. QED  BY Zenon, <2>1 DEF Has, Comes, Follow
<1>3. insight \in Insights /\ insight.state \in InsightStates
      BY Zenon DEF RInv, Shapes, Insights
<1>4. ~Pending(insight)
      BY Zenon, <1>1, <1>2 DEF Agreeing, Lacks, Awaits, EndIn, EntryOver
<1>5. insight.state \in {"Cancelled", "Rejected"} => venue.filled = 0
      BY Zenon, <1>1, <1>2 DEF Agreeing, Lacks, Dropped
<1>6. insight.state = "Closed" => Position = 0
      BY Zenon DEF RInv, ClosedIsFlat, Flat
<1>7. insight.state = "Filled" => insight.filled = venue.filled /\ venue.filled > 0
      BY Zenon, <1>1 DEF Agreeing, Lacks, Opened
<1>8. Position = 0 \/ \A x \in Exits : insight.closes[x] = venue.exited[x]
      BY Zenon, <1>1, <1>2 DEF Agreeing, Lacks, ExitsIn
<1>9. Position = 0 /\ venue.filled > 0 => insight.state = "Closed"
      BY Zenon, <1>1, <1>2 DEF Agreeing, Lacks, CloseIn
<1>10. Position \in Nat /\ Position <= venue.filled /\ venue.filled \in Nat
      BY Zenon, PositionType DEF Venues
<1>11. insight.state \in {"Filled", "Cancelled", "Rejected", "Closed"}
      BY Zenon, <1>3, <1>4 DEF InsightStates, Pending
<1>12. ASSUME Position > 0 PROVE insight.state = "Filled" /\ Remaining(insight) = Position
  <2>1. Position # 0 /\ venue.filled # 0
        BY SMTT(30), <1>10, <1>12
  <2>2. insight.state = "Filled"
        BY Zenon, <1>5, <1>6, <1>11, <2>1
  <2>. QED  BY Zenon, <1>7, <1>8, <2>1, <2>2, ExitFits
<1>13. ASSUME ~(Position > 0) PROVE insight.state \in Inactive
  <2>1. Position = 0
        BY SMTT(30), <1>10, <1>13
  <2>2. insight.state # "Filled"
        BY Zenon, <1>7, <1>9, <2>1
  <2>. QED  BY Zenon, <1>11, <2>2 DEF Inactive
<1>14. ASSUME insight.closing PROVE "close" \in asked
  <2>1. /\ insight.state = "Filled"
        /\ "close" \in asked \/ Position = 0 \/ \E x \in Exits : insight.closes[x] < venue.exited[x]
        BY Zenon, <1>1, <1>14 DEF Agreeing, Flagged
  <2>2. Position # 0
        BY Zenon, <1>7, <1>9, <2>1
  <2>3. \A x \in Exits : venue.exited[x] \in Nat
        BY Zenon DEF RInv, Shapes, Venues
  <2>4. ~(\E x \in Exits : insight.closes[x] < venue.exited[x])
        BY SMTT(30), <1>8, <2>2, <2>3
  <2>. QED  BY Zenon, <2>1, <2>2, <2>4
<1>15. ~insight.cancelling /\ answer.state # "retained"
      BY Zenon, <1>1, <1>4 DEF Agreeing, Flagged, Receipt
<1>. QED  BY Zenon, <1>12, <1>13, <1>14, <1>15

\* The two inductive invariants together hold in every state.
LEMMA SettleInvariant == Spec => [](RInv /\ SInv)
      BY ReducerInit, ReducerStep, SettleInit, SettleStep, PTL DEF Spec

\* When everything reported has been reduced and no report was lost, what the
\* strategy believes is what is so at the venue, in whatever order the stream, the
\* answers and the history told it, if MT5 opens and closes the position in one
\* deal each.
THEOREM SettledAlwaysAgrees == Spec => [](WholeDeals => SettledAgrees)
<1>1. RInv /\ SInv => (WholeDeals => SettledAgrees)
      BY Zenon, Settled
<1>. QED  BY SettleInvariant, <1>1, PTL

\* Then no flag is left behind that would keep a command from being sent, and the
\* submission's answer is never retained for good, if MT5 opens and closes the
\* position in one deal each.
THEOREM FlagsAlwaysOutstanding == Spec => [](WholeDeals => FlagsAreOutstanding)
<1>1. RInv /\ SInv => (WholeDeals => FlagsAreOutstanding)
      BY Zenon, Settled
<1>. QED  BY SettleInvariant, <1>1, PTL

=============================================================================
