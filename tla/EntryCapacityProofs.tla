------------------------ MODULE EntryCapacityProofs ------------------------
(***************************************************************************)
(* Proofs about EntryCapacity, for any commands, margins, quantities,      *)
(* limits and strategies: entries that were admitted from old, partial and *)
(* unordered snapshots never use more of a limit than there is.            *)
(***************************************************************************)
EXTENDS EntryCapacity, FiniteSums

(***************************************************************************)
(* What the proofs use of sequences.                                       *)
(***************************************************************************)

\* A part of a sequence.
LEMMA Cut ==
    ASSUME NEW S, NEW s \in Seq(S), NEW m \in 1 .. Len(s) + 1, NEW n \in m - 1 .. Len(s)
    PROVE  /\ SubSeq(s, m, n) \in Seq(S) /\ Len(SubSeq(s, m, n)) = n - m + 1
           /\ \A i \in 1 .. n - m + 1 : SubSeq(s, m, n)[i] = s[m + i - 1]
BY SMTT(30)

\* One more element.
LEMMA Extended ==
    ASSUME NEW S, NEW s \in Seq(S), NEW x \in S
    PROVE  /\ Append(s, x) \in Seq(S) /\ Len(Append(s, x)) = Len(s) + 1
           /\ \A i \in 1 .. Len(s) : Append(s, x)[i] = s[i]
           /\ Append(s, x)[Len(s) + 1] = x
BY SMTT(30)

(***************************************************************************)
(* The inductive invariant.                                                *)
(***************************************************************************)

\* The orders that use up a limit, the use that an observed value reports, and
\* the limit.
Counted(kind) == IF kind = "margin" THEN Live ELSE Active
Used(kind, value) == IF kind = "margin" THEN BuyingPower - value ELSE value
Ceiling(kind) ==
    CASE kind = "orders" -> MaxOrders [] kind = "symbol" -> MaxQuantity [] kind = "margin" -> BuyingPower

\* What a ledger still holds after an observation of instant `at`.
Kept(l, at) ==
    {c \in Submits : \/ c \in l.awaiting
                     \/ \E i \in DOMAIN l.completed : l.completed[i].id = c /\ l.completed[i].at >= at}

Watermark == [id : Submits, at : Nat]
Ledgers == [at : Nat, value : Int, awaiting : SUBSET Submits, completed : Seq(Watermark)]

Shapes ==
    /\ setting \in Settings
    /\ now \in Nat /\ now > 0
    /\ order \in [Submits -> [status : {"none", "active", "open", "ended"}, filled : Nat]]
    /\ wire \in [Submits -> {"none", "flying", "done", "refused"}]
    /\ holder \in Submits \union {None}
    /\ outcome \in [Submits -> {"none", "order", "declined", "ambiguous"}]
    /\ ledger \in [Limits -> Ledgers]
    /\ \A kind \in Limits : ledger[kind].at <= now
    /\ DOMAIN poll = Strategies /\ DOMAIN snap = Strategies
    /\ \A s \in Strategies : DOMAIN poll[s] = Sources /\ DOMAIN snap[s] = Sources
    /\ \A s \in Strategies, source \in Sources :
          poll[s][source].got.at \in Nat /\ poll[s][source].got.at <= now

\* A transmission that may still be acted on belongs to the command being sent
\* or to an uncertain one; the broker has an order only where it acted.
Flights ==
    /\ holder # None => outcome[holder] = "none"
    /\ \A c \in Submits :
          /\ wire[c] = "flying" => c = holder \/ outcome[c] = "ambiguous"
          /\ wire[c] # "done" => order[c] = Unknown
          /\ outcome[c] = "none" /\ c # holder => wire[c] = "none"

\* A reading that counts D, requested at `at`: unless the ledger has seen a newer
\* one, what it misses is still held when it is observed.
Covers(kind, D, at) == at > ledger[kind].at => Counted(kind) \subseteq D \union Kept(ledger[kind], at)

Reads(source, D, value) ==
    CASE source = "orders"    -> value \in [D -> Nat]
      [] source = "positions" -> value \in [Submits -> Nat]
      [] source = "account"   -> value = BuyingPower - SumFunctionOnSet(Margin, D)

\* The reading that says which orders use the limit.
Telling(kind) == IF kind = "margin" THEN "account" ELSE "orders"

Sound(source, view) ==
    \E D \in SUBSET Submits :
        /\ Reads(source, D, view.value)
        /\ \A kind \in Limits : source = Telling(kind) => Covers(kind, D, view.at)

\* The readings of a source that were published or may still be.
ViewsOf(source) ==
    {snap[s][source] : s \in Strategies}
        \union {poll[s][source].got : s \in {s \in Strategies : poll[s][source].phase = "read"}}

Views ==
    \A source \in Sources : \A view \in ViewsOf(source) :
        /\ view.at \in Nat /\ view.at <= now
        /\ view.at > 0 => Sound(source, view)

\* What a ledger has observed and what it holds cover the orders together.
Covered(kind, l) ==
    l.at > 0 => \E D \in SUBSET Submits :
                   /\ Counted(kind) \subseteq D \union Held(l)
                   /\ SumFunctionOnSet(Amount(kind), D) <= Used(kind, l.value)

Budgets ==
    \A kind \in Limits :
        /\ Covered(kind, ledger[kind])
        /\ SumFunctionOnSet(Amount(kind), Counted(kind) \union ledger[kind].awaiting) <= Ceiling(kind)

CapInv == Shapes /\ Flights /\ UncertainStaysReserved /\ Views /\ Budgets

\* What the constants and the setting are.
LEMMA SettingFacts ==
    ASSUME setting \in Settings
    PROVE  /\ IsFiniteSet(Submits) /\ None \notin Submits
           /\ Limits \subseteq LimitKinds /\ Moves \subseteq OrderMoves
           /\ Margin \in [Submits -> Nat] /\ Quantity \in [Submits -> Nat]
           /\ MaxOrders \in Nat /\ MaxQuantity \in Nat /\ BuyingPower \in Nat
           /\ \A c \in Submits : Owner[c] \in Strategies
           /\ \A kind \in LimitKinds : Amount(kind) \in [Submits -> Nat] /\ Ceiling(kind) \in Nat
<1>1. /\ IsFiniteSet(Submits) /\ None \notin Submits
      /\ Limits \subseteq LimitKinds /\ Moves \subseteq OrderMoves
      /\ Margin \in [Submits -> Nat] /\ Quantity \in [Submits -> Nat \ {0}]
      /\ MaxOrders \in Nat /\ MaxQuantity \in Nat /\ BuyingPower \in Nat
      /\ DOMAIN Owner = Submits
      BY Zenon, CapacityAssumption
         DEF Limits, Moves, Quantity, MaxOrders, MaxQuantity, BuyingPower, Owner
<1>2. Quantity \in [Submits -> Nat]
      BY Zenon, <1>1
<1>3. \A c \in Submits : Owner[c] \in Strategies
      BY Zenon, <1>1 DEF Strategies, Range
<1>4. Amount("orders") = [c \in Submits |-> 1] /\ Amount("symbol") = Quantity /\ Amount("margin") = Margin
      BY Zenon DEF Amount
<1>5. Ceiling("orders") = MaxOrders /\ Ceiling("symbol") = MaxQuantity /\ Ceiling("margin") = BuyingPower
      BY Zenon DEF Ceiling
<1>6. [c \in Submits |-> 1] \in [Submits -> Nat]
      BY Zenon
<1>7. \A kind \in LimitKinds : Amount(kind) \in [Submits -> Nat] /\ Ceiling(kind) \in Nat
      BY Zenon, <1>1, <1>2, <1>4, <1>5, <1>6 DEF LimitKinds
<1>. QED  BY Zenon, <1>1, <1>2, <1>3, <1>7

(***************************************************************************)
(* Retiring watermarks.                                                    *)
(***************************************************************************)

\* A bounded set of numbers that is not empty has a greatest element, and Max is it.
LEMMA GreatestElement ==
    ASSUME NEW n \in Nat, NEW T, T \subseteq 0 .. n, T # {}
    PROVE  Max(T) \in T /\ \A y \in T : y <= Max(T)
<1>. DEFINE U == {k \in 0 .. n : n - k \in T}
<1>1. U \subseteq Nat /\ U # {}
  <2>1. PICK t \in T : t \in 0 .. n
        BY ZenonT(30)
  <2>2. n - t \in U
    <3>1. n - t \in 0 .. n /\ n - (n - t) = t
          BY SMTT(30), <2>1
    <3>. QED  BY Zenon, <3>1
  <2>. QED  BY SMTT(30), <2>2
<1>2. PICK k \in U : \A m \in U : k <= m
  <2>. HIDE DEF U
  <2>. QED  BY ZenonT(30), <1>1, LeastElement
<1>3. n - k \in T /\ \A y \in T : n - k >= y
  <2>1. \A y \in T : n - y \in U
    <3>. SUFFICES ASSUME NEW y \in T PROVE n - y \in U
         BY Zenon
    <3>1. n - y \in 0 .. n /\ n - (n - y) = y
          BY SMTT(30)
    <3>. QED  BY Zenon, <3>1
  <2>2. \A y \in T : k <= n - y
        BY Zenon, <1>2, <2>1
  <2>. QED  BY SMTT(30), <1>2, <2>2
<1>4. \E x \in T : \A y \in T : x >= y
      BY Zenon, <1>3
<1>5. Max(T) \in T /\ \A y \in T : Max(T) >= y
      BY Zenon, <1>4, Zenon DEF Max
<1>. QED  BY Zenon, <1>5

Retires(R, completed, at) ==
    /\ R \in Seq(Watermark)
    /\ \A i \in DOMAIN completed : completed[i].at >= at => \E j \in DOMAIN R : R[j] = completed[i]

\* Popping old watermarks from the front leaves every one that is not old.
LEMMA RetireFrontKeeps ==
    ASSUME NEW completed \in Seq(Watermark), NEW at \in Nat
    PROVE  Retires(RetireFront(completed, at), completed, at)
<1>. DEFINE Old == {i \in DOMAIN completed : \A j \in 1 .. i : completed[j].at < at}
            n == Max({0} \union Old)
<1>1. n \in {0} \union Old /\ n \in 0 .. Len(completed)
  <2>1. {0} \union Old \subseteq 0 .. Len(completed) /\ Len(completed) \in Nat
        BY SMTT(30)
  <2>2. {0} \union Old # {}
        BY Zenon
  <2>. HIDE DEF Old
  <2>3. n \in {0} \union Old
        BY Zenon, <2>1, <2>2, GreatestElement
  <2>. QED  BY Zenon, <2>1, <2>3
<1>2. RetireFront(completed, at) = SubSeq(completed, n + 1, Len(completed))
      BY Zenon DEF RetireFront
<1>3. \A i \in DOMAIN completed : i \in 1 .. Len(completed) /\ completed[i].at \in Nat
  <2>1. \A i \in DOMAIN completed : i \in 1 .. Len(completed) /\ completed[i] \in Watermark
        BY SMTT(30)
  <2>. QED  BY Zenon, <2>1 DEF Watermark
<1>4. PICK k : k = n /\ k \in 0 .. Len(completed) /\ (k # 0 => \A j \in 1 .. k : completed[j].at < at)
      BY Zenon, <1>1, Zenon
<1>. HIDE DEF n
<1>5. ASSUME NEW i \in DOMAIN completed, completed[i].at >= at PROVE k < i
  <2>. SUFFICES ASSUME i <= k PROVE FALSE
       BY SMTT(30), <1>3, <1>4
  <2>1. i \in 1 .. k /\ k # 0
        BY SMTT(30), <1>3, <1>4
  <2>2. completed[i].at < at
        BY Zenon, <1>4, <2>1
  <2>. QED  BY SMTT(30), <1>3, <1>5, <2>2
<1>6. PICK R : R = SubSeq(completed, k + 1, Len(completed))
      BY ZenonT(30)
<1>7. R \in Seq(Watermark) /\ Len(R) = Len(completed) - k
      /\ \A j \in 1 .. Len(completed) - k : R[j] = completed[k + j]
  <2>1. k + 1 \in 1 .. Len(completed) + 1 /\ Len(completed) \in (k + 1) - 1 .. Len(completed)
        BY SMTT(30), <1>4
  <2>. QED  BY SMTT(30), <1>4, <1>6, <2>1, Cut
<1>8. ASSUME NEW i \in DOMAIN completed, completed[i].at >= at
      PROVE  \E j \in DOMAIN R : R[j] = completed[i]
  <2>1. i - k \in 1 .. Len(R) /\ k + (i - k) = i
        BY SMTT(30), <1>3, <1>4, <1>5, <1>7, <1>8
  <2>. QED  BY SMTT(30), <1>7, <2>1
<1>. QED  BY SMTT(30), <1>2, <1>4, <1>6, <1>7, <1>8 DEF Retires

\* One step of the filter, and a function that filters the first n watermarks.
FilterStep(g, completed, at, n) ==
    IF n = 0 THEN <<>>
    ELSE IF completed[n].at >= at THEN Append(g[n - 1], completed[n])
    ELSE g[n - 1]
Filters(g, completed, at, n) == g = [m \in 0 .. n |-> FilterStep(g, completed, at, m)]

\* Filtering the watermarks leaves every one that is not old.
LEMMA RetireAllKeeps ==
    ASSUME NEW completed \in Seq(Watermark), NEW at \in Nat
    PROVE  Retires(RetireAll(completed, at), completed, at)
<1>. DEFINE Good == {n \in Nat : \E g : Filters(g, completed, at, n)}
<1>1. 0 \in Good
  <2>1. Filters([m \in 0 .. 0 |-> <<>>], completed, at, 0)
        BY SMTT(30) DEF Filters, FilterStep
  <2>. QED  BY Zenon, <2>1
<1>2. ASSUME NEW n \in Nat, n \in Good PROVE n + 1 \in Good
  <2>1. PICK g : Filters(g, completed, at, n)
        BY Zenon, <1>2
  <2>. DEFINE h == [m \in 0 .. n + 1 |-> FilterStep(g, completed, at, m)]
  <2>2. \A m \in 0 .. n : h[m] = g[m] /\ m \in 0 .. n + 1
        BY SMTT(30), <2>1 DEF Filters
  <2>3. ASSUME NEW m \in 0 .. n + 1
        PROVE  FilterStep(h, completed, at, m) = FilterStep(g, completed, at, m)
    <3>1. m # 0 => m - 1 \in 0 .. n
          BY SMTT(30)
    <3>2. m # 0 => h[m - 1] = g[m - 1]
          BY Zenon, <2>2, <3>1, Zenon
    <3>. HIDE DEF h
    <3>. QED  BY Zenon, <3>2 DEF FilterStep
  <2>4. Filters(h, completed, at, n + 1)
        BY Zenon, <2>3 DEF Filters
  <2>5. \E k : Filters(k, completed, at, n + 1)
        BY Zenon, <2>4, Zenon
  <2>. QED  BY SMTT(30), <2>5
<1>3. Len(completed) \in Good
  <2>1. \A n \in Nat : n \in Good => n + 1 \in Good
        BY Zenon, <1>2
  <2>2. Len(completed) \in Nat
        BY SMTT(30)
  <2>. HIDE DEF Good
  <2>. QED  BY Zenon, <1>1, <2>1, <2>2, NumberInduction
<1>4. PICK g : Filters(g, completed, at, Len(completed)) /\ RetireAll(completed, at) = g[Len(completed)]
  <2>. DEFINE h == CHOOSE g : Filters(g, completed, at, Len(completed))
  <2>1. Filters(h, completed, at, Len(completed))
        BY Zenon, <1>3
  <2>2. RetireAll(completed, at) = h[Len(completed)]
        BY Zenon DEF RetireAll, Filters, FilterStep
  <2>. QED  BY Zenon, <2>1, <2>2, Zenon
<1>5. \A n \in 0 .. Len(completed) : g[n] = FilterStep(g, completed, at, n)
      BY Zenon, <1>4 DEF Filters
<1>6. \A i \in 1 .. Len(completed) : completed[i] \in Watermark
      BY SMTT(30)
<1>. DEFINE Kind == {n \in Nat : n <= Len(completed) =>
                       /\ g[n] \in Seq(Watermark)
                       /\ \A i \in 1 .. n : completed[i].at >= at
                             => \E j \in DOMAIN g[n] : g[n][j] = completed[i]}
<1>7. 0 \in Kind
  <2>1. g[0] = <<>>
    <3>1. 0 \in 0 .. Len(completed)
          BY SMTT(30)
    <3>. QED  BY Zenon, <1>5, <3>1 DEF FilterStep
  <2>2. g[0] \in Seq(Watermark) /\ \A i \in 1 .. 0 : FALSE
        BY SMTT(30), <2>1
  <2>. QED  BY Zenon, <2>2
<1>8. ASSUME NEW n \in Nat, n \in Kind, n + 1 <= Len(completed)
      PROVE  /\ g[n + 1] \in Seq(Watermark)
             /\ \A i \in 1 .. n + 1 : completed[i].at >= at
                   => \E j \in DOMAIN g[n + 1] : g[n + 1][j] = completed[i]
  <2>1. /\ g[n] \in Seq(Watermark)
        /\ \A i \in 1 .. n : completed[i].at >= at => \E j \in DOMAIN g[n] : g[n][j] = completed[i]
        BY SMTT(30), <1>8
  <2>2. g[n + 1] = IF completed[n + 1].at >= at THEN Append(g[n], completed[n + 1]) ELSE g[n]
    <3>1. g[n + 1] = FilterStep(g, completed, at, n + 1)
          BY SMTT(30), <1>5, <1>8
    <3>2. n + 1 # 0 /\ (n + 1) - 1 = n
          BY SMTT(30)
    <3>. QED  BY Zenon, <3>1, <3>2 DEF FilterStep
  <2>3. completed[n + 1] \in Watermark
        BY SMTT(30), <1>6, <1>8
  <2>. HIDE DEF Kind
  <2>4. CASE completed[n + 1].at >= at
    <3>1. PICK a, b : a = g[n] /\ b = g[n + 1] /\ b = Append(a, completed[n + 1])
          BY ZenonT(30), <2>2, <2>4
    <3>2. b \in Seq(Watermark) /\ Len(b) = Len(a) + 1 /\ b[Len(a) + 1] = completed[n + 1]
          /\ \A j \in 1 .. Len(a) : b[j] = a[j]
          BY SMTT(30), <2>1, <2>3, <3>1, Extended
    <3>3. DOMAIN a = 1 .. Len(a) /\ DOMAIN b = 1 .. Len(b) /\ Len(a) \in Nat
          BY SMTT(30), <2>1, <3>1, <3>2
    <3>4. ASSUME NEW i \in 1 .. n + 1, completed[i].at >= at
          PROVE  \E j \in DOMAIN b : b[j] = completed[i]
      <4>1. CASE i = n + 1
            BY SMTT(30), <3>2, <3>3, <4>1
      <4>2. CASE i \in 1 .. n
        <5>1. PICK j \in DOMAIN a : a[j] = completed[i]
              BY Zenon, <2>1, <3>1, <3>4, <4>2
        <5>. QED  BY SMTT(30), <3>2, <3>3, <5>1
      <4>. QED  BY SMTT(30), <4>1, <4>2
    <3>. QED  BY Zenon, <3>1, <3>2, <3>4
  <2>5. CASE ~(completed[n + 1].at >= at)
    <3>1. g[n + 1] = g[n]
          BY Zenon, <2>2, <2>5
    <3>2. \A i \in 1 .. n + 1 : i \in 1 .. n \/ i = n + 1
          BY SMTT(30)
    <3>. QED  BY Zenon, <2>1, <2>5, <3>1, <3>2
  <2>. QED  BY Zenon, <2>4, <2>5
<1>9. Len(completed) \in Kind
  <2>1. \A n \in Nat : n \in Kind => n + 1 \in Kind
        BY SMTT(30), <1>8
  <2>2. Len(completed) \in Nat
        BY SMTT(30)
  <2>. HIDE DEF Kind
  <2>. QED  BY Zenon, <1>7, <2>1, <2>2, NumberInduction
<1>10. DOMAIN completed = 1 .. Len(completed) /\ Len(completed) <= Len(completed)
       BY SMTT(30)
<1>. QED  BY Zenon, <1>4, <1>9, <1>10 DEF Retires

(***************************************************************************)
(* An observation.                                                         *)
(***************************************************************************)

\* m is what an observation leaves of l: it holds on to the commands that wait,
\* and of the confirmed ones to those that may be missing from it or from a newer
\* reading.
Observes(m, l, value, at) ==
    /\ m \in Ledgers /\ m.awaiting = l.awaiting /\ l.at <= m.at
    /\ at > l.at => m.at = at /\ m.value = value /\ Kept(l, at) \subseteq Held(m)
    /\ ~(at > l.at) => m = l
    /\ \A t \in Nat : t > m.at => Kept(l, t) \subseteq Kept(m, t)

\* That is what Observe leaves, whichever way it retires watermarks.
LEMMA ObserveFacts ==
    ASSUME NEW kind, NEW l \in Ledgers, NEW value \in Int, NEW at \in Nat
    PROVE  Observes(Observe(kind, l, value, at), l, value, at)
<1>0. PICK m : m = Observe(kind, l, value, at)
      BY Zenon
<1>1. /\ l.at \in Nat /\ l.value \in Int /\ l.awaiting \in SUBSET Submits
      /\ l.completed \in Seq(Watermark)
      BY Zenon DEF Ledgers
<1>2. ASSUME ~(at > l.at) PROVE Observes(m, l, value, at)
  <2>1. m = l
        BY Zenon, <1>0, <1>2 DEF Observe
  <2>2. m \in Ledgers /\ m.awaiting = l.awaiting /\ l.at <= m.at
        BY SMTT(30), <1>1, <2>1
  <2>3. \A t \in Nat : Kept(l, t) \subseteq Kept(m, t)
        BY Zenon, <2>1
  <2>. QED  BY Zenon, <1>2, <2>1, <2>2, <2>3 DEF Observes
<1>3. ASSUME at > l.at PROVE Observes(m, l, value, at)
  <2>1. PICK R : /\ R = IF kind = "symbol" THEN RetireAll(l.completed, at)
                                          ELSE RetireFront(l.completed, at)
                 /\ Retires(R, l.completed, at)
        BY Zenon, <1>1, RetireAllKeeps, RetireFrontKeeps
  <2>2. m = [l EXCEPT !.at = at, !.value = value, !.completed = R]
        BY Zenon, <1>0, <1>3, <2>1 DEF Observe
  <2>3. /\ m.at = at /\ m.value = value /\ m.awaiting = l.awaiting /\ m.completed = R
        /\ m \in Ledgers
    <3>1. R \in Seq(Watermark)
          BY Zenon, <2>1 DEF Retires
    <3>. QED  BY ZenonT(30), <2>2, <3>1 DEF Ledgers
  <2>4. ASSUME NEW t \in Nat, t >= at, NEW c \in Kept(l, t)
        PROVE  c \in Kept(m, t) /\ c \in Held(m)
    <3>1. CASE c \in l.awaiting
          BY Zenon, <1>1, <2>3, <3>1 DEF Kept, Held
    <3>2. CASE c \notin l.awaiting
      <4>1. PICK i \in DOMAIN l.completed : l.completed[i].id = c /\ l.completed[i].at >= t
            BY Zenon, <2>4, <3>2 DEF Kept
      <4>2. l.completed[i] \in Watermark
            BY SMTT(30), <1>1
      <4>3. l.completed[i].at \in Nat /\ c \in Submits
            BY Zenon, <4>1, <4>2 DEF Watermark
      <4>4. PICK j \in DOMAIN R : R[j] = l.completed[i]
        <5>1. l.completed[i].at >= at
              BY SMTT(30), <2>4, <4>1, <4>3
        <5>. QED  BY Zenon, <2>1, <5>1 DEF Retires
      <4>5. c \in Kept(m, t)
            BY Zenon, <2>3, <4>1, <4>3, <4>4 DEF Kept
      <4>6. c \in Held(m)
            BY Zenon, <2>3, <4>1, <4>4 DEF Held, Confirmed
      <4>. QED  BY Zenon, <4>5, <4>6
    <3>. QED  BY Zenon, <3>1, <3>2
  <2>5. Kept(l, at) \subseteq Held(m)
        BY SMTT(30), <2>4
  <2>6. \A t \in Nat : t > m.at => Kept(l, t) \subseteq Kept(m, t)
        BY SMTT(30), <2>3, <2>4
  <2>7. l.at <= m.at
        BY SMTT(30), <1>1, <1>3, <2>3
  <2>. QED  BY Zenon, <1>3, <2>3, <2>5, <2>6, <2>7 DEF Observes
<1>4. Observes(m, l, value, at)
      BY Zenon, <1>2, <1>3
<1>. QED  BY Zenon, <1>0, <1>4

(***************************************************************************)
(* What a step must do to keep the readings sound.                         *)
(***************************************************************************)

\* A step that lets go only of commands without an order, and adds only orders of
\* commands that wait.
Keeps ==
    /\ UNCHANGED setting
    /\ \A kind \in Limits :
          /\ (Counted(kind))' \subseteq Counted(kind) \union ledger'[kind].awaiting
          /\ ledger[kind].at <= ledger'[kind].at
          /\ \A t \in Nat : t > ledger'[kind].at /\ t <= now =>
                \A c \in (Counted(kind))' : c \in Kept(ledger[kind], t) => c \in Kept(ledger'[kind], t)

\* Such a step keeps every reading sound.
LEMMA KeepsSound ==
    ASSUME CapInv, Shapes', Keeps
    PROVE  \A source \in Sources : \A view : view.at \in Nat /\ view.at <= now /\ Sound(source, view)
                                         => Sound(source, view)'
<1>1. ASSUME NEW kind \in Limits, NEW D \in SUBSET Submits, NEW t \in Nat, t <= now,
             Covers(kind, D, t)
      PROVE  Covers(kind, D, t)'
  <2>. SUFFICES ASSUME t > ledger'[kind].at, NEW c \in (Counted(kind))'
                PROVE  c \in D \union Kept(ledger'[kind], t)
       BY Zenon DEF Covers, Kept
  <2>1. ledger[kind].at \in Nat /\ ledger'[kind].at \in Nat /\ ledger'[kind].awaiting \in SUBSET Submits
        BY Zenon DEF Keeps, CapInv, Shapes, Ledgers, Limits
  <2>2. t > ledger[kind].at
        BY SMTT(30), <2>1 DEF Keeps
  <2>3. CASE c \in ledger'[kind].awaiting
        BY Zenon, <2>1, <2>3 DEF Kept
  <2>4. CASE c \in Counted(kind)
    <3>1. c \in D \union Kept(ledger[kind], t)
          BY Zenon, <1>1, <2>2, <2>4 DEF Covers
    <3>. QED  BY Zenon, <1>1, <3>1 DEF Keeps
  <2>. QED  BY Zenon, <2>3, <2>4 DEF Keeps
<1>. SUFFICES ASSUME NEW source \in Sources, NEW view, view.at \in Nat, view.at <= now,
                     Sound(source, view)
              PROVE  Sound(source, view)'
     BY Zenon
<1>2. PICK D \in SUBSET Submits :
         /\ Reads(source, D, view.value)
         /\ \A kind \in Limits : source = Telling(kind) => Covers(kind, D, view.at)
      BY Zenon DEF Sound
<1>3. Reads(source, D, view.value)'
      BY Zenon, <1>2 DEF Keeps, Reads, BuyingPower
<1>4. Limits' = Limits
      BY Zenon DEF Keeps, Limits
<1>5. \A kind \in Limits : source = Telling(kind) => Covers(kind, D, view.at)'
      BY Zenon, <1>1, <1>2
<1>. QED  BY Zenon, <1>3, <1>4, <1>5 DEF Sound, Telling

\* It keeps the readings there are, if it makes no new ones.
LEMMA ViewsKept ==
    ASSUME CapInv, Shapes', Keeps, now <= now',
           \A source \in Sources : \A view \in (ViewsOf(source))' : view \in ViewsOf(source) \/ view = Idle
    PROVE  Views'
<1>. SUFFICES ASSUME NEW source \in Sources, NEW view \in (ViewsOf(source))'
              PROVE  /\ view.at \in Nat /\ view.at <= now'
                     /\ view.at > 0 => Sound(source, view)'
     BY Zenon DEF Views
<1>1. now \in Nat /\ now' \in Nat
      BY Zenon DEF CapInv, Shapes
<1>2. CASE view = Idle
      BY SMTT(30), <1>1, <1>2 DEF Idle, Snapshot
<1>3. CASE view \in ViewsOf(source)
  <2>1. view.at \in Nat /\ view.at <= now /\ (view.at > 0 => Sound(source, view))
        BY Zenon, <1>3 DEF CapInv, Views
  <2>2. view.at > 0 => Sound(source, view)'
        BY Zenon, <2>1, KeepsSound
  <2>. QED  BY SMTT(30), <1>1, <2>1, <2>2
<1>. QED  BY Zenon, <1>2, <1>3

\* A ledger that lets go only of commands without an order still covers the rest.
LEMMA BudgetsKept ==
    ASSUME CapInv, Shapes', UNCHANGED setting,
           \A kind \in Limits :
              /\ ledger'[kind].at = ledger[kind].at /\ ledger'[kind].value = ledger[kind].value
              /\ \A c \in (Counted(kind))' : c \in Counted(kind) \/ c \in ledger'[kind].awaiting
              /\ \A c \in (Counted(kind))' : c \in Held(ledger[kind]) => c \in Held(ledger'[kind])
              /\ (Counted(kind))' \union ledger'[kind].awaiting \subseteq Counted(kind) \union ledger[kind].awaiting
    PROVE  Budgets'
<1>1. UNCHANGED <<Limits, BuyingPower, MaxOrders, MaxQuantity, Quantity>>
      BY Zenon DEF Limits, BuyingPower, MaxOrders, MaxQuantity, Quantity
<1>2. \A kind \in Limits : Amount(kind)' = Amount(kind) /\ Ceiling(kind)' = Ceiling(kind)
      BY Zenon, <1>1 DEF Amount, Ceiling
<1>. SUFFICES ASSUME NEW kind \in Limits
              PROVE  /\ Covered(kind, ledger[kind])'
                     /\ SumFunctionOnSet(Amount(kind), (Counted(kind))' \union ledger'[kind].awaiting)
                           <= Ceiling(kind)
     BY Zenon, <1>1, <1>2 DEF Budgets
<1>3. Covered(kind, ledger[kind])'
  <2>. SUFFICES ASSUME ledger'[kind].at > 0
                PROVE  \E D \in SUBSET Submits :
                          /\ (Counted(kind))' \subseteq D \union Held(ledger'[kind])
                          /\ SumFunctionOnSet(Amount(kind), D) <= Used(kind, ledger[kind].value)
       BY Zenon, <1>1, <1>2 DEF Covered, Used, Held, Confirmed
  <2>1. PICK D \in SUBSET Submits : /\ Counted(kind) \subseteq D \union Held(ledger[kind])
                                    /\ SumFunctionOnSet(Amount(kind), D) <= Used(kind, ledger[kind].value)
        BY Zenon DEF CapInv, Budgets, Covered
  <2>2. (Counted(kind))' \subseteq D \union Held(ledger'[kind])
        BY Zenon, <2>1 DEF Held
  <2>. QED  BY Zenon, <2>1, <2>2
<1>4. SumFunctionOnSet(Amount(kind), (Counted(kind))' \union ledger'[kind].awaiting) <= Ceiling(kind)
  <2>1. PICK S, T : /\ S = (Counted(kind))' \union ledger'[kind].awaiting
                    /\ T = Counted(kind) \union ledger[kind].awaiting
        BY Zenon
  <2>2. S \subseteq T /\ SumFunctionOnSet(Amount(kind), T) <= Ceiling(kind)
        BY Zenon, <2>1 DEF CapInv, Budgets
  <2>3. T \subseteq Submits
        BY Zenon, <2>1 DEF CapInv, Shapes, Ledgers, Counted, Active, Live
  <2>4. IsFiniteSet(T) /\ Amount(kind) \in [Submits -> Nat] /\ Ceiling(kind) \in Nat
        BY Zenon, <2>3, SettingFacts, FS_Subset DEF CapInv, Shapes
  <2>5. IsFiniteSet(S) /\ \A x \in T : Amount(kind)[x] \in Nat
        BY Zenon, <2>2, <2>3, <2>4, FS_Subset
  <2>6. SumFunctionOnSet(Amount(kind), S) <= SumFunctionOnSet(Amount(kind), T)
        BY Zenon, <2>2, <2>4, <2>5, SumMonotone
  <2>7. SumFunctionOnSet(Amount(kind), S) \in Nat /\ SumFunctionOnSet(Amount(kind), T) \in Nat
        BY Zenon, <2>2, <2>4, <2>5, SumType
  <2>8. SumFunctionOnSet(Amount(kind), S) <= Ceiling(kind)
        BY SMTT(30), <2>2, <2>4, <2>6, <2>7
  <2>. QED  BY Zenon, <2>1, <2>8
<1>. QED  BY Zenon, <1>3, <1>4

(***************************************************************************)
(* The pollers.                                                            *)
(***************************************************************************)

\* What the pollers leave alone.
LEMMA PollFrame ==
    ASSUME CapInv, Shapes', UNCHANGED <<setting, now, order, wire, ledger, holder, outcome>>
    PROVE  Keeps /\ Flights' /\ UncertainStaysReserved' /\ Budgets'
<1>1. UNCHANGED <<Limits, BuyingPower, MaxOrders, MaxQuantity, Quantity, Active, Live>>
      BY Zenon DEF Limits, BuyingPower, MaxOrders, MaxQuantity, Quantity, Active, Live
<1>2. \A kind : UNCHANGED <<Amount(kind), Ceiling(kind), Counted(kind)>>
      BY Zenon, <1>1 DEF Amount, Ceiling, Counted
<1>3. Flights' /\ UncertainStaysReserved'
      BY Zenon, <1>1 DEF CapInv, Flights, UncertainStaysReserved
<1>4. Budgets'
      BY Zenon, <1>2, BudgetsKept
<1>5. Keeps
  <2>1. \A kind \in Limits : ledger[kind].at \in Nat
        BY Zenon DEF CapInv, Shapes, Ledgers
  <2>2. \A kind \in Limits : ledger[kind].at <= ledger'[kind].at
        BY SMTT(30), <2>1
  <2>. QED  BY Zenon, <1>2, <2>2 DEF Keeps
<1>. QED  BY Zenon, <1>3, <1>4, <1>5

\* A request, its end without an answer, a publication and an invalidation make no
\* new reading.
LEMMA PollStep ==
    ASSUME CapInv, UNCHANGED setting, NEW s \in Strategies, NEW source \in Sources,
           PollRequest(s, source) \/ Publish(s, source) \/ PollFails(s, source) \/ Invalidate(s)
    PROVE  CapInv'
<1>1. UNCHANGED <<setting, now, order, wire, ledger, holder, outcome>>
      BY Zenon DEF PollRequest, Publish, PollFails, Invalidate
<1>2. Strategies' = Strategies /\ Limits' = Limits
      BY Zenon DEF Strategies, Owner, Limits
<1>3. /\ DOMAIN poll = Strategies /\ DOMAIN snap = Strategies
      /\ \A r \in Strategies : DOMAIN poll[r] = Sources /\ DOMAIN snap[r] = Sources
      /\ now \in Nat
      BY Zenon DEF CapInv, Shapes
<1>4. /\ DOMAIN poll' = Strategies /\ DOMAIN snap' = Strategies
      /\ \A r \in Strategies : DOMAIN poll'[r] = Sources /\ DOMAIN snap'[r] = Sources
      BY Zenon, <1>3 DEF PollRequest, Publish, PollFails, Invalidate
<1>5. \A r \in Strategies, z \in Sources :
         \/ poll'[r][z] = poll[r][z]
         \/ poll'[r][z] = [phase |-> "idle", got |-> Idle]
         \/ poll'[r][z] = [phase |-> "asked", got |-> Snapshot(now, {})]
      BY SMTT(30), <1>3 DEF PollRequest, Publish, PollFails, Invalidate
<1>6. \A r \in Strategies, z \in Sources :
         \/ snap'[r][z] = snap[r][z] \/ snap'[r][z] = Idle
         \/ snap'[r][z] = poll[r][z].got /\ poll[r][z].phase = "read"
      BY SMTT(30), <1>3 DEF PollRequest, Publish, PollFails, Invalidate
<1>7. \A r \in Strategies, z \in Sources : poll'[r][z].got.at \in Nat /\ poll'[r][z].got.at <= now
  <2>. SUFFICES ASSUME NEW r \in Strategies, NEW z \in Sources
                PROVE  poll'[r][z].got.at \in Nat /\ poll'[r][z].got.at <= now
       BY Zenon
  <2>1. CASE poll'[r][z] = poll[r][z]
        BY Zenon, <2>1 DEF CapInv, Shapes
  <2>2. CASE poll'[r][z] = [phase |-> "idle", got |-> Idle]
        BY SMTT(30), <1>3, <2>2 DEF Idle, Snapshot
  <2>3. CASE poll'[r][z] = [phase |-> "asked", got |-> Snapshot(now, {})]
        BY SMTT(30), <1>3, <2>3 DEF Snapshot
  <2>. QED  BY Zenon, <1>5, <2>1, <2>2, <2>3
<1>8. Shapes'
      BY Zenon, <1>1, <1>2, <1>4, <1>7 DEF CapInv, Shapes
<1>9. \A z \in Sources : \A view \in (ViewsOf(z))' : view \in ViewsOf(z) \/ view = Idle
  <2>. SUFFICES ASSUME NEW z \in Sources, NEW view \in (ViewsOf(z))' PROVE view \in ViewsOf(z) \/ view = Idle
       BY Zenon
  <2>1. PICK r \in Strategies : view = snap'[r][z] \/ (view = poll'[r][z].got /\ poll'[r][z].phase = "read")
        BY Zenon, <1>2 DEF ViewsOf
  <2>2. CASE view = snap'[r][z]
        BY ZenonT(30), <1>6, <2>2 DEF ViewsOf
  <2>3. CASE view = poll'[r][z].got /\ poll'[r][z].phase = "read"
    <3>1. poll'[r][z] = poll[r][z]
          BY SMTT(30), <1>5, <2>3
    <3>. QED  BY Zenon, <2>3, <3>1 DEF ViewsOf
  <2>. QED  BY Zenon, <2>1, <2>2, <2>3
<1>10. now <= now'
       BY SMTT(30), <1>1, <1>3
<1>. QED  BY Zenon, <1>1, <1>8, <1>9, <1>10, PollFrame, ViewsKept DEF CapInv

\* The broker answers from its books: every order is in the answer.
LEMMA AnswerStep ==
    ASSUME CapInv, UNCHANGED setting, NEW s \in Strategies, NEW source \in Sources,
           PollAnswer(s, source)
    PROVE  CapInv'
<1>1. UNCHANGED <<setting, now, order, wire, ledger, holder, outcome, snap>>
      BY Zenon DEF PollAnswer
<1>2. Strategies' = Strategies /\ Limits' = Limits
      BY Zenon DEF Strategies, Owner, Limits
<1>3. /\ DOMAIN poll = Strategies /\ \A r \in Strategies : DOMAIN poll[r] = Sources
      /\ now \in Nat
      /\ poll[s][source].got.at \in Nat /\ poll[s][source].got.at <= now
      BY Zenon DEF CapInv, Shapes
<1>4. PICK new : new = Snapshot(poll[s][source].got.at, Answer(source))
      BY Zenon
<1>5. /\ DOMAIN poll' = Strategies /\ \A r \in Strategies : DOMAIN poll'[r] = Sources
      /\ \A r \in Strategies, z \in Sources :
            \/ poll'[r][z] = poll[r][z]
            \/ z = source /\ poll'[r][z] = [phase |-> "read", got |-> new]
      BY Zenon, <1>3, <1>4 DEF PollAnswer
<1>6. new.at \in Nat /\ new.at <= now /\ new.value = Answer(source)
      BY Zenon, <1>3, <1>4 DEF Snapshot
<1>7. \A r \in Strategies, z \in Sources : poll'[r][z].got.at \in Nat /\ poll'[r][z].got.at <= now
  <2>. SUFFICES ASSUME NEW r \in Strategies, NEW z \in Sources
                PROVE  poll'[r][z].got.at \in Nat /\ poll'[r][z].got.at <= now
       BY Zenon
  <2>1. CASE poll'[r][z] = poll[r][z]
        BY Zenon, <2>1 DEF CapInv, Shapes
  <2>2. CASE poll'[r][z] = [phase |-> "read", got |-> new]
        BY SMTT(30), <1>6, <2>2
  <2>. QED  BY Zenon, <1>5, <2>1, <2>2
<1>8. Shapes'
      BY Zenon, <1>1, <1>2, <1>5, <1>7 DEF CapInv, Shapes
<1>9. Sound(source, new)
  <2>1. CASE source = "orders"
    <3>1. new.value \in [Active -> Nat]
      <4>1. new.value = [c \in Active |-> order[c].filled]
            BY Zenon, <1>6, <2>1 DEF Answer
      <4>2. \A c \in Active : order[c].filled \in Nat
            BY Zenon DEF Active, CapInv, Shapes
      <4>. QED  BY Zenon, <4>1, <4>2
    <3>2. Active \in SUBSET Submits
          BY Zenon DEF Active
    <3>3. \A kind \in Limits : source = Telling(kind) => Counted(kind) = Active
          BY Zenon, <2>1 DEF Telling, Counted
    <3>. QED  BY Zenon, <2>1, <3>1, <3>2, <3>3 DEF Sound, Reads, Covers
  <2>2. CASE source = "positions"
    <3>1. new.value \in [Submits -> Nat]
      <4>1. new.value = [c \in Submits |-> order[c].filled]
            BY Zenon, <1>6, <2>2 DEF Answer
      <4>2. \A c \in Submits : order[c].filled \in Nat
            BY Zenon DEF CapInv, Shapes
      <4>. QED  BY Zenon, <4>1, <4>2
    <3>2. \A kind \in Limits : source # Telling(kind)
          BY Zenon, <2>2 DEF Telling
    <3>. QED  BY Zenon, <2>2, <3>1, <3>2 DEF Sound, Reads
  <2>3. CASE source = "account"
    <3>1. new.value = BuyingPower - SumFunctionOnSet(Margin, Live)
          BY Zenon, <1>6, <2>3 DEF Answer
    <3>2. Live \in SUBSET Submits
          BY Zenon DEF Live
    <3>3. \A kind \in Limits : source = Telling(kind) => Counted(kind) = Live
          BY Zenon, <2>3 DEF Telling, Counted
    <3>. QED  BY Zenon, <2>3, <3>1, <3>2, <3>3 DEF Sound, Reads, Covers
  <2>. QED  BY Zenon, <2>1, <2>2, <2>3 DEF Sources
<1>10. Keeps /\ Flights' /\ UncertainStaysReserved' /\ Budgets'
       BY Zenon, <1>1, <1>8, PollFrame
<1>11. Views'
  <2>. SUFFICES ASSUME NEW z \in Sources, NEW view \in (ViewsOf(z))'
                PROVE  /\ view.at \in Nat /\ view.at <= now'
                       /\ view.at > 0 => Sound(z, view)'
       BY Zenon DEF Views
  <2>1. view \in ViewsOf(z) \/ (z = source /\ view = new)
    <3>1. PICK r \in Strategies : view = snap[r][z] \/ (view = poll'[r][z].got /\ poll'[r][z].phase = "read")
          BY Zenon, <1>1, <1>2 DEF ViewsOf
    <3>2. CASE view = snap[r][z]
          BY Zenon, <3>2 DEF ViewsOf
    <3>3. CASE poll'[r][z] = poll[r][z] /\ view = poll'[r][z].got /\ poll'[r][z].phase = "read"
          BY Zenon, <3>3 DEF ViewsOf
    <3>4. CASE z = source /\ poll'[r][z] = [phase |-> "read", got |-> new] /\ view = poll'[r][z].got
          BY SMTT(30), <3>4
    <3>. QED  BY Zenon, <1>5, <3>1, <3>2, <3>3, <3>4
  <2>2. view.at \in Nat /\ view.at <= now /\ (view.at > 0 => Sound(z, view))
        BY Zenon, <1>6, <1>9, <2>1 DEF CapInv, Views
  <2>3. view.at > 0 => Sound(z, view)'
        BY Zenon, <1>8, <1>10, <2>2, KeepsSound
  <2>. QED  BY Zenon, <1>1, <2>2, <2>3
<1>. QED  BY Zenon, <1>8, <1>10, <1>11 DEF CapInv

(***************************************************************************)
(* The broker, and time.                                                   *)
(***************************************************************************)

\* A step that makes no reading and leaves the ledgers alone.
LEMMA BrokerFrame ==
    ASSUME CapInv, Shapes', UNCHANGED <<setting, poll, snap, ledger>>, now <= now',
           \A kind \in Limits : \A c \in (Counted(kind))' :
              c \in Counted(kind) \/ c \in ledger[kind].awaiting
    PROVE  Views' /\ Budgets'
<1>1. \A kind \in Limits : ledger[kind].at <= ledger'[kind].at
  <2>1. \A kind \in Limits : ledger[kind].at \in Nat
        BY Zenon DEF CapInv, Shapes, Ledgers
  <2>. QED  BY SMTT(30), <2>1
<1>2. Keeps
      BY Zenon, <1>1 DEF Keeps
<1>3. Strategies' = Strategies
      BY Zenon DEF Strategies, Owner
<1>4. \A source \in Sources : (ViewsOf(source))' = ViewsOf(source)
      BY Zenon, <1>3 DEF ViewsOf
<1>5. Views'
      BY Zenon, <1>2, <1>4, ViewsKept
<1>6. Budgets'
      BY Zenon, BudgetsKept
<1>. QED  BY Zenon, <1>5, <1>6

\* The broker acts on a transmission or refuses it.
LEMMA TransmissionStep ==
    ASSUME CapInv, UNCHANGED setting, NEW c \in Submits, BrokerExecutes(c) \/ BrokerRefuses(c)
    PROVE  CapInv'
<1>1. UNCHANGED <<setting, now, poll, snap, ledger, holder, outcome>> /\ wire[c] = "flying"
      BY Zenon DEF BrokerExecutes, BrokerRefuses
<1>2. Strategies' = Strategies /\ Limits' = Limits
      BY Zenon DEF Strategies, Owner, Limits
<1>3. wire' \in [Submits -> {"none", "flying", "done", "refused"}]
      /\ \A d \in Submits : d # c => wire'[d] = wire[d]
      /\ wire'[c] \in {"done", "refused"}
      BY ZenonT(30) DEF BrokerExecutes, BrokerRefuses, CapInv, Shapes
<1>4. /\ order' \in [Submits -> [status : {"none", "active", "open", "ended"}, filled : Nat]]
      /\ \A d \in Submits : d # c => order'[d] = order[d]
      /\ wire'[c] # "done" => order'[c] = order[c]
      BY SMTT(30) DEF BrokerExecutes, BrokerRefuses, CapInv, Shapes
<1>5. Shapes'
      BY Zenon, <1>1, <1>2, <1>3, <1>4 DEF CapInv, Shapes
<1>6. c = holder \/ outcome[c] = "ambiguous"
      BY Zenon, <1>1 DEF CapInv, Flights
<1>7. Flights'
      BY Zenon, <1>1, <1>3, <1>4, <1>6 DEF CapInv, Flights
<1>8. UncertainStaysReserved'
      BY Zenon, <1>1, <1>2 DEF CapInv, UncertainStaysReserved
<1>9. \A kind \in Limits : c \in ledger[kind].awaiting
      BY Zenon, <1>6 DEF CapInv, UncertainStaysReserved
<1>10. \A kind \in Limits : \A d \in (Counted(kind))' : d \in Counted(kind) \/ d = c
       BY Zenon, <1>4 DEF Counted, Active, Live
<1>11. Views' /\ Budgets'
  <2>1. now <= now'
        BY SMTT(30), <1>1 DEF CapInv, Shapes
  <2>2. \A kind \in Limits : \A d \in (Counted(kind))' : d \in Counted(kind) \/ d \in ledger[kind].awaiting
        BY Zenon, <1>9, <1>10
  <2>. QED  BY Zenon, <1>1, <1>5, <2>1, <2>2, BrokerFrame
<1>. QED  BY Zenon, <1>5, <1>7, <1>8, <1>11 DEF CapInv

\* What happens to an order at the venue: it stays active, or is not active again.
LEMMA MoveFacts ==
    ASSUME CapInv, NEW c \in Submits, NEW move \in Moves, BrokerMoves(c, move)
    PROVE  \E new \in [status : {"none", "active", "open", "ended"}, filled : Nat] :
              /\ order' = [order EXCEPT ![c] = new]
              /\ order[c].status \in {"active", "open"}
              /\ new.status = "active" => order[c].status = "active"
<1>. DEFINE Order == [status : {"none", "active", "open", "ended"}, filled : Nat]
            o == order[c]
<1>1. o \in Order /\ Quantity[c] \in Nat
      BY Zenon, SettingFacts DEF CapInv, Shapes
<1>. SUFFICES \E new \in Order : /\ order' = [order EXCEPT ![c] = new]
                                 /\ o.status \in {"active", "open"}
                                 /\ new.status = "active" => o.status = "active"
     BY ZenonT(30)
<1>2. CASE move = "partial fill"
  <2>1. order' = [order EXCEPT ![c] = [o EXCEPT !.filled = @ + 1]] /\ c \in Active
        BY Zenon, <1>2 DEF BrokerMoves
  <2>2. [o EXCEPT !.filled = @ + 1] \in Order /\ o.status = "active"
        BY SMTT(30), <1>1, <2>1 DEF Active
  <2>. QED  BY ZenonT(30), <2>1, <2>2
<1>3. CASE move = "fill"
  <2>1. order' = [order EXCEPT ![c] = [status |-> "open", filled |-> Quantity[c]]] /\ c \in Active
        BY Zenon, <1>3 DEF BrokerMoves
  <2>2. [status |-> "open", filled |-> Quantity[c]] \in Order /\ o.status = "active"
        BY Zenon, <1>1, <2>1 DEF Active
  <2>. QED  BY ZenonT(30), <2>1, <2>2
<1>4. CASE move = "cancel rest"
  <2>1. order' = [order EXCEPT ![c] = [o EXCEPT !.status = "open"]] /\ c \in Active
        BY Zenon, <1>4 DEF BrokerMoves
  <2>2. [o EXCEPT !.status = "open"] \in Order /\ o.status = "active"
        BY Zenon, <1>1, <2>1 DEF Active
  <2>. QED  BY ZenonT(30), <2>1, <2>2
<1>5. CASE move \in {"cancel", "close"}
  <2>1. order' = [order EXCEPT ![c] = [status |-> "ended", filled |-> 0]]
        BY Zenon, <1>5 DEF BrokerMoves
  <2>2. c \in Active \/ o.status = "open"
        BY Zenon, <1>5 DEF BrokerMoves
  <2>3. [status |-> "ended", filled |-> 0] \in Order /\ o.status \in {"active", "open"}
        BY Zenon, <2>2 DEF Active
  <2>. QED  BY ZenonT(30), <2>1, <2>3
<1>6. move \in OrderMoves
      BY Zenon, SettingFacts DEF CapInv, Shapes
<1>. QED  BY ZenonT(30), <1>2, <1>3, <1>4, <1>5, <1>6 DEF OrderMoves

\* Orders fill and end.
LEMMA MoveStep ==
    ASSUME CapInv, UNCHANGED setting, NEW c \in Submits, NEW move \in Moves, BrokerMoves(c, move)
    PROVE  CapInv'
<1>1. UNCHANGED <<setting, now, wire, poll, snap, ledger, holder, outcome>>
      BY Zenon DEF BrokerMoves
<1>2. Strategies' = Strategies /\ Limits' = Limits
      BY Zenon DEF Strategies, Owner, Limits
<1>3. PICK new \in [status : {"none", "active", "open", "ended"}, filled : Nat] :
         /\ order' = [order EXCEPT ![c] = new]
         /\ order[c].status \in {"active", "open"}
         /\ new.status = "active" => order[c].status = "active"
      BY Zenon, MoveFacts
<1>4. /\ order' \in [Submits -> [status : {"none", "active", "open", "ended"}, filled : Nat]]
      /\ order'[c] = new /\ \A d \in Submits : d # c => order'[d] = order[d]
      BY Zenon, <1>3 DEF CapInv, Shapes
<1>5. Shapes'
      BY Zenon, <1>1, <1>2, <1>4 DEF CapInv, Shapes
<1>6. wire[c] = "done"
      BY SMTT(30), <1>3 DEF CapInv, Flights, Unknown
<1>7. Flights'
      BY Zenon, <1>1, <1>4, <1>6 DEF CapInv, Flights
<1>8. UncertainStaysReserved'
      BY Zenon, <1>1, <1>2 DEF CapInv, UncertainStaysReserved
<1>9. Active' \subseteq Active /\ Live' \subseteq Live
      BY Zenon, <1>3, <1>4 DEF Active, Live
<1>10. Views' /\ Budgets'
  <2>1. now <= now'
        BY SMTT(30), <1>1 DEF CapInv, Shapes
  <2>2. \A kind \in Limits : \A d \in (Counted(kind))' : d \in Counted(kind) \/ d \in ledger[kind].awaiting
        BY Zenon, <1>9 DEF Counted
  <2>. QED  BY ZenonT(30), <1>1, <1>5, <2>1, <2>2, BrokerFrame
<1>. QED  BY Zenon, <1>5, <1>7, <1>8, <1>10 DEF CapInv

\* Time passes.
LEMMA TickStep == ASSUME CapInv, UNCHANGED setting, Tick PROVE CapInv'
<1>1. UNCHANGED <<setting, order, wire, poll, snap, ledger, holder, outcome>> /\ now' = now + 1
      BY Zenon DEF Tick
<1>2. Strategies' = Strategies /\ Limits' = Limits
      BY Zenon DEF Strategies, Owner, Limits
<1>3. now \in Nat /\ now' \in Nat /\ now' > 0 /\ now <= now'
      BY SMTT(30), <1>1 DEF CapInv, Shapes
<1>4. Shapes'
  <2>1. \A kind \in Limits : ledger[kind].at <= now'
    <3>1. \A kind \in Limits : ledger[kind].at \in Nat /\ ledger[kind].at <= now
          BY Zenon DEF CapInv, Shapes, Ledgers
    <3>. QED  BY SMTT(30), <1>3, <3>1
  <2>2. \A s \in Strategies, source \in Sources :
           poll[s][source].got.at \in Nat /\ poll[s][source].got.at <= now'
    <3>1. \A s \in Strategies, source \in Sources :
             poll[s][source].got.at \in Nat /\ poll[s][source].got.at <= now
          BY Zenon DEF CapInv, Shapes
    <3>. QED  BY SMTT(30), <1>3, <3>1
  <2>. QED  BY ZenonT(30), <1>1, <1>2, <1>3, <2>1, <2>2 DEF CapInv, Shapes
<1>5. Flights'
      BY Zenon, <1>1 DEF CapInv, Flights
<1>6. UncertainStaysReserved'
      BY Zenon, <1>1, <1>2 DEF CapInv, UncertainStaysReserved
<1>7. Active' = Active /\ Live' = Live
      BY Zenon, <1>1 DEF Active, Live
<1>8. Views' /\ Budgets'
  <2>1. \A kind \in Limits : \A d \in (Counted(kind))' : d \in Counted(kind) \/ d \in ledger[kind].awaiting
        BY ZenonT(30), <1>7 DEF Counted
  <2>. QED  BY Zenon, <1>1, <1>3, <1>4, <2>1, BrokerFrame
<1>. QED  BY Zenon, <1>4, <1>5, <1>6, <1>8 DEF CapInv

(***************************************************************************)
(* Admission.                                                              *)
(***************************************************************************)

\* What admission reads for a limit: it reports the orders it counts, and what it
\* misses the ledger still holds.
LEMMA ObservedFacts ==
    ASSUME CapInv, NEW s \in Strategies, NEW kind \in Limits,
           \A source \in Needs(kind) : snap[s][source].at > 0
    PROVE  /\ Observed(s, kind).at \in Nat /\ Observed(s, kind).at > 0 /\ Observed(s, kind).at <= now
           /\ Observed(s, kind).value \in Int
           /\ \E D \in SUBSET Submits :
                 /\ SumFunctionOnSet(Amount(kind), D) <= Used(kind, Observed(s, kind).value)
                 /\ Covers(kind, D, Observed(s, kind).at)
<1>. DEFINE o == Observed(s, kind)
<1>1. /\ kind \in LimitKinds /\ IsFiniteSet(Submits) /\ Quantity \in [Submits -> Nat]
      /\ Margin \in [Submits -> Nat] /\ BuyingPower \in Nat
      BY Zenon, SettingFacts DEF CapInv, Shapes
<1>2. ASSUME NEW source \in Sources, snap[s][source].at > 0
      PROVE  /\ snap[s][source].at \in Nat /\ snap[s][source].at <= now
             /\ Sound(source, snap[s][source])
  <2>1. snap[s][source] \in ViewsOf(source)
        BY Zenon DEF ViewsOf
  <2>. QED  BY Zenon, <1>2, <2>1 DEF CapInv, Views
<1>3. now \in Nat
      BY Zenon DEF CapInv, Shapes
<1>4. CASE kind = "orders"
  <2>1. PICK v : v = snap[s]["orders"]
        BY SMTT(30)
  <2>2. o.at = v.at /\ o.value = Cardinality(DOMAIN v.value)
    <3>1. o = Snapshot(v.at, Cardinality(DOMAIN v.value))
          BY Zenon, <1>4, <2>1 DEF Observed
    <3>. QED  BY SMTT(30), <3>1 DEF Snapshot
  <2>3. v.at \in Nat /\ v.at > 0 /\ v.at <= now /\ Sound("orders", v)
    <3>1. "orders" \in Needs(kind) /\ "orders" \in Sources
          BY Zenon, <1>4 DEF Needs, Sources
    <3>. QED  BY Zenon, <1>2, <2>1, <3>1
  <2>4. PICK D \in SUBSET Submits : v.value \in [D -> Nat] /\ Covers(kind, D, v.at)
    <3>1. "orders" = Telling(kind)
          BY Zenon, <1>4 DEF Telling
    <3>. QED  BY Zenon, <2>3, <3>1 DEF Sound, Reads
  <2>5. IsFiniteSet(D) /\ Cardinality(D) \in Nat
        BY Zenon, <1>1, FS_Subset, FS_CardinalityType
  <2>6. DOMAIN v.value = D
        BY Zenon, <2>4
  <2>7. SumFunctionOnSet(Amount(kind), D) = Cardinality(D)
    <3>1. Amount(kind) = [c \in Submits |-> 1]
          BY Zenon, <1>4 DEF Amount
    <3>2. PICK f : f = Amount(kind) /\ \A x \in D : f[x] = 1
          BY Zenon, <3>1
    <3>3. SumFunctionOnSet(f, D) = Cardinality(D)
          BY Zenon, <2>5, <3>2, SumOfOnes
    <3>. QED  BY Zenon, <3>2, <3>3
  <2>8. Used(kind, o.value) = o.value
        BY Zenon, <1>4 DEF Used
  <2>. HIDE DEF o
  <2>9. o.value \in Int /\ SumFunctionOnSet(Amount(kind), D) <= Used(kind, o.value)
        BY SMTT(30), <2>2, <2>5, <2>6, <2>7, <2>8
  <2>. QED  BY Zenon, <2>2, <2>3, <2>4, <2>9 DEF o
<1>5. CASE kind = "symbol"
  <2>1. PICK v, p : v = snap[s]["orders"] /\ p = snap[s]["positions"]
        BY Zenon
  <2>2. o.at = Min({v.at, p.at}) /\ o.value = ActiveQuantity(v.value) + SumFunctionOnSet(p.value, Submits)
    <3>1. o = Snapshot(Min({v.at, p.at}), ActiveQuantity(v.value) + SumFunctionOnSet(p.value, Submits))
          BY Zenon, <1>5, <2>1 DEF Observed
    <3>. QED  BY SMTT(30), <3>1 DEF Snapshot
  <2>3. /\ v.at \in Nat /\ v.at > 0 /\ v.at <= now /\ Sound("orders", v)
        /\ p.at \in Nat /\ p.at > 0 /\ p.at <= now /\ Sound("positions", p)
    <3>1. {"orders", "positions"} = Needs(kind) /\ {"orders", "positions"} \subseteq Sources
          BY Zenon, <1>5 DEF Needs, Sources
    <3>. QED  BY Zenon, <1>2, <2>1, <3>1
  <2>4. PICK D \in SUBSET Submits : v.value \in [D -> Nat] /\ Covers(kind, D, v.at)
    <3>1. "orders" = Telling(kind)
          BY Zenon, <1>5 DEF Telling
    <3>. QED  BY Zenon, <2>3, <3>1 DEF Sound, Reads
  <2>5. p.value \in [Submits -> Nat]
        BY Zenon, <2>3 DEF Sound, Reads
  <2>6. PICK at \in {v.at, p.at} : at = Min({v.at, p.at}) /\ at <= v.at
    <3>1. \E x \in {v.at, p.at} : \A y \in {v.at, p.at} : x <= y
          BY SMTT(30), <2>3
    <3>2. Min({v.at, p.at}) \in {v.at, p.at} /\ \A y \in {v.at, p.at} : Min({v.at, p.at}) <= y
          BY Zenon, <3>1 DEF Min
    <3>. QED  BY Zenon, <3>2
  <2>7. at \in Nat /\ at > 0 /\ at <= now
        BY Zenon, <2>3, <2>6
  <2>8. Covers(kind, D, at)
    <3>. SUFFICES ASSUME at > ledger[kind].at, NEW c \in Counted(kind)
                  PROVE  c \in D \union Kept(ledger[kind], at)
         BY Zenon DEF Covers
    <3>1. ledger[kind] \in Ledgers
          BY Zenon DEF CapInv, Shapes
    <3>2. ledger[kind].at \in Nat /\ ledger[kind].completed \in Seq(Watermark)
          BY Zenon, <3>1 DEF Ledgers
    <3>3. v.at > ledger[kind].at
          BY SMTT(30), <2>3, <2>6, <2>7, <3>2
    <3>4. c \in D \union Kept(ledger[kind], v.at)
          BY Zenon, <2>4, <3>3 DEF Covers
    <3>5. ASSUME NEW i \in DOMAIN ledger[kind].completed, ledger[kind].completed[i].at >= v.at
          PROVE  ledger[kind].completed[i].at >= at
      <4>1. ledger[kind].completed[i] \in Watermark
            BY SMTT(30), <3>2
      <4>. QED  BY SMTT(30), <2>3, <2>6, <2>7, <3>5, <4>1 DEF Watermark
    <3>. QED  BY Zenon, <3>4, <3>5 DEF Kept
  <2>9. IsFiniteSet(D) /\ \A x \in Submits : Quantity[x] \in Nat /\ p.value[x] \in Nat
        BY Zenon, <1>1, <2>5, FS_Subset
  <2>10. SumFunctionOnSet(Quantity, D) \in Nat /\ SumFunctionOnSet(p.value, Submits) \in Nat
         BY Zenon, <1>1, <2>9, SumType
  <2>11. Amount(kind) = Quantity /\ Used(kind, o.value) = o.value /\ DOMAIN v.value = D
    <3>1. Amount(kind) = Quantity
          BY Zenon, <1>5 DEF Amount
    <3>. HIDE DEF o
    <3>. QED  BY Zenon, <1>5, <2>4, <3>1 DEF Used
  <2>. HIDE DEF o
  <2>12. o.value = SumFunctionOnSet(Quantity, D) + SumFunctionOnSet(p.value, Submits)
         BY Zenon, <2>2, <2>11 DEF ActiveQuantity
  <2>13. o.value \in Int /\ SumFunctionOnSet(Amount(kind), D) <= Used(kind, o.value)
         BY SMTT(30), <2>10, <2>11, <2>12
  <2>. QED  BY ZenonT(30), <2>2, <2>6, <2>7, <2>8, <2>13 DEF o
<1>6. CASE kind = "margin"
  <2>1. o = snap[s]["account"]
        BY Zenon, <1>6 DEF Observed
  <2>2. o.at \in Nat /\ o.at > 0 /\ o.at <= now /\ Sound("account", o)
    <3>1. "account" \in Needs(kind) /\ "account" \in Sources
          BY Zenon, <1>6 DEF Needs, Sources
    <3>. QED  BY Zenon, <1>2, <2>1, <3>1
  <2>. HIDE DEF o
  <2>3. PICK D \in SUBSET Submits : o.value = BuyingPower - SumFunctionOnSet(Margin, D) /\ Covers(kind, D, o.at)
    <3>1. "account" = Telling(kind)
          BY Zenon, <1>6 DEF Telling
    <3>. QED  BY Zenon, <2>2, <3>1 DEF Sound, Reads
  <2>4. SumFunctionOnSet(Margin, D) \in Nat
    <3>1. IsFiniteSet(D) /\ \A x \in D : Margin[x] \in Nat
          BY Zenon, <1>1, FS_Subset
    <3>. QED  BY Zenon, <3>1, SumType
  <2>5. Amount(kind) = Margin
        BY Zenon, <1>6 DEF Amount
  <2>6. o.value \in Int /\ SumFunctionOnSet(Amount(kind), D) <= Used(kind, o.value)
        BY SMTT(30), <1>1, <1>6, <2>3, <2>4, <2>5 DEF Used
  <2>. QED  BY Zenon, <2>2, <2>3, <2>6 DEF o
<1>. QED  BY Zenon, <1>1, <1>4, <1>5, <1>6 DEF LimitKinds

\* An entry that fits what is observed and what is held fits what is in use.
LEMMA Admitted ==
    ASSUME CapInv, NEW kind \in Limits, NEW l \in Ledgers, l.at > 0, Covered(kind, l),
           NEW c \in Submits, Available(kind, l, c)
    PROVE  SumFunctionOnSet(Amount(kind), Counted(kind) \union (l.awaiting \union {c})) <= Ceiling(kind)
<1>1. /\ kind \in LimitKinds /\ IsFiniteSet(Submits) /\ BuyingPower \in Nat
      /\ MaxOrders \in Nat /\ MaxQuantity \in Nat
      /\ Amount(kind) \in [Submits -> Nat] /\ Ceiling(kind) \in Nat
      BY Zenon, SettingFacts DEF CapInv, Shapes
<1>2. PICK f : f = Amount(kind) /\ f \in [Submits -> Nat]
      BY Zenon, <1>1
<1>3. l.value \in Int /\ l.awaiting \subseteq Submits /\ l.completed \in Seq(Watermark)
      BY Zenon DEF Ledgers
<1>4. Held(l) \subseteq Submits
  <2>1. \A i \in DOMAIN l.completed : l.completed[i] \in Watermark
        BY SMTT(30), <1>3
  <2>. QED  BY Zenon, <1>3, <2>1 DEF Held, Confirmed, Watermark
<1>5. PICK D \in SUBSET Submits : /\ Counted(kind) \subseteq D \union Held(l)
                                  /\ SumFunctionOnSet(f, D) <= Used(kind, l.value)
      BY Zenon, <1>2 DEF Covered
<1>6. PICK H, T, S : /\ H = Held(l) /\ T = H \union {c}
                     /\ S = Counted(kind) \union (l.awaiting \union {c})
      BY ZenonT(30)
<1>7. S \subseteq D \union T /\ T \subseteq Submits /\ H \subseteq Submits
      BY Zenon, <1>4, <1>5, <1>6 DEF Held
<1>8. IsFiniteSet(D) /\ IsFiniteSet(T) /\ IsFiniteSet(D \union T) /\ IsFiniteSet(H) /\ IsFiniteSet(S)
      BY Zenon, <1>1, <1>7, FS_Subset, FS_Union
<1>9. /\ SumFunctionOnSet(f, S) <= SumFunctionOnSet(f, D \union T)
      /\ SumFunctionOnSet(f, D \union T) <= SumFunctionOnSet(f, D) + SumFunctionOnSet(f, T)
      /\ SumFunctionOnSet(f, S) \in Nat /\ SumFunctionOnSet(f, D \union T) \in Nat
      /\ SumFunctionOnSet(f, D) \in Nat /\ SumFunctionOnSet(f, T) \in Nat /\ SumFunctionOnSet(f, H) \in Nat
  <2>1. \A x \in Submits : f[x] \in Nat
        BY Zenon, <1>2
  <2>2. /\ \A x \in D : f[x] \in Nat
        /\ \A x \in T : f[x] \in Nat
        /\ \A x \in D \union T : f[x] \in Nat
        /\ \A x \in H : f[x] \in Nat
        /\ \A x \in S : f[x] \in Nat
        BY Zenon, <1>7, <2>1
  <2>3. SumFunctionOnSet(f, S) <= SumFunctionOnSet(f, D \union T)
        BY Zenon, <1>7, <1>8, <2>2, SumMonotone
  <2>4. SumFunctionOnSet(f, D \union T) <= SumFunctionOnSet(f, D) + SumFunctionOnSet(f, T)
        BY Zenon, <1>8, <2>2, SumUnion
  <2>. QED  BY Zenon, <1>8, <2>2, <2>3, <2>4, SumType
<1>10. SumFunctionOnSet(f, T) = SumFunctionOnSet(f, H) + f[c] /\ f[c] \in Nat
  <2>1. c \notin H
        BY Zenon, <1>6 DEF Available
  <2>2. \A x \in H \cup {c} : f[x] \in Nat
        BY Zenon, <1>2, <1>7
  <2>. QED  BY Zenon, <1>6, <1>8, <2>1, <2>2, SumAdd
<1>11. SumFunctionOnSet(f, D) + (SumFunctionOnSet(f, H) + f[c]) <= Ceiling(kind)
  <2>1. CASE kind = "orders"
    <3>1. l.value + (SumFunctionOnSet(f, H) + f[c]) <= MaxOrders
          BY Zenon, <1>2, <1>6, <2>1 DEF Available
    <3>2. Ceiling(kind) = MaxOrders /\ Used(kind, l.value) = l.value
          BY ZenonT(30), <2>1 DEF Ceiling, Used
    <3>. QED  BY SMTT(30), <1>1, <1>3, <1>5, <1>9, <1>10, <3>1, <3>2
  <2>2. CASE kind = "symbol"
    <3>1. l.value + (SumFunctionOnSet(f, H) + f[c]) <= MaxQuantity
          BY Zenon, <1>2, <1>6, <2>2 DEF Available
    <3>2. Ceiling(kind) = MaxQuantity /\ Used(kind, l.value) = l.value
          BY ZenonT(30), <2>2 DEF Ceiling, Used
    <3>. QED  BY SMTT(30), <1>1, <1>3, <1>5, <1>9, <1>10, <3>1, <3>2
  <2>3. CASE kind = "margin"
    <3>1. SumFunctionOnSet(f, H) + f[c] <= l.value
          BY Zenon, <1>2, <1>6, <2>3 DEF Available
    <3>2. Ceiling(kind) = BuyingPower /\ Used(kind, l.value) = BuyingPower - l.value
          BY ZenonT(30), <2>3 DEF Ceiling, Used
    <3>. QED  BY SMTT(30), <1>1, <1>3, <1>5, <1>9, <1>10, <3>1, <3>2
  <2>. QED  BY ZenonT(30), <1>1, <2>1, <2>2, <2>3 DEF LimitKinds
<1>12. SumFunctionOnSet(f, S) <= Ceiling(kind)
       BY SMTT(30), <1>1, <1>9, <1>10, <1>11
<1>. QED  BY Zenon, <1>2, <1>6, <1>12

\* What an observation leaves of a ledger covers the orders.
LEMMA SeenFacts ==
    ASSUME CapInv, NEW s \in Strategies, NEW kind \in Limits,
           \A source \in Needs(kind) : snap[s][source].at > 0,
           NEW m, m = Observe(kind, ledger[kind], Observed(s, kind).value, Observed(s, kind).at)
    PROVE  /\ m \in Ledgers /\ m.awaiting = ledger[kind].awaiting
           /\ ledger[kind].at <= m.at /\ m.at > 0 /\ m.at <= now
           /\ \A t \in Nat : t > m.at => Kept(ledger[kind], t) \subseteq Kept(m, t)
           /\ Covered(kind, m)
<1>1. PICK l, at, value : l = ledger[kind] /\ at = Observed(s, kind).at /\ value = Observed(s, kind).value
      BY Zenon
<1>2. at \in Nat /\ at > 0 /\ at <= now /\ value \in Int
      BY Zenon, <1>1, ObservedFacts
<1>3. PICK D \in SUBSET Submits : /\ SumFunctionOnSet(Amount(kind), D) <= Used(kind, value)
                                  /\ Covers(kind, D, at)
      BY ZenonT(30), <1>1, ObservedFacts
<1>4. l \in Ledgers /\ l.at <= now
      BY Zenon, <1>1 DEF CapInv, Shapes
<1>5. /\ m \in Ledgers /\ m.awaiting = l.awaiting /\ l.at <= m.at
      /\ at > l.at => m.at = at /\ m.value = value /\ Kept(l, at) \subseteq Held(m)
      /\ ~(at > l.at) => m = l
      /\ \A t \in Nat : t > m.at => Kept(l, t) \subseteq Kept(m, t)
  <2>1. m = Observe(kind, l, value, at)
        BY Zenon, <1>1
  <2>2. Observes(m, l, value, at)
        BY Zenon, <1>2, <1>4, <2>1, ObserveFacts
  <2>. QED  BY Zenon, <2>2 DEF Observes
<1>6. CASE at > l.at
  <2>1. Counted(kind) \subseteq D \union Held(m)
    <3>1. Counted(kind) \subseteq D \union Kept(l, at)
          BY Zenon, <1>1, <1>3, <1>6 DEF Covers
    <3>. QED  BY Zenon, <1>5, <1>6, <3>1
  <2>2. Covered(kind, m)
        BY Zenon, <1>3, <1>5, <1>6, <2>1 DEF Covered
  <2>3. m.at > 0 /\ m.at <= now
        BY ZenonT(30), <1>2, <1>5, <1>6
  <2>. QED  BY Zenon, <1>1, <1>5, <2>2, <2>3
<1>7. CASE ~(at > l.at)
  <2>1. m = l
        BY Zenon, <1>5, <1>7
  <2>2. Covered(kind, m)
        BY ZenonT(30), <1>1, <2>1 DEF CapInv, Budgets
  <2>3. l.at \in Nat
        BY Zenon, <1>4 DEF Ledgers
  <2>4. m.at > 0 /\ m.at <= now
        BY SMTT(30), <1>2, <1>4, <1>7, <2>1, <2>3
  <2>. QED  BY Zenon, <1>1, <1>5, <2>2, <2>4
<1>. QED  BY ZenonT(30), <1>6, <1>7

\* An entry is admitted and sent, or declined and leaves no reservation behind.
LEMMA ReserveStep ==
    ASSUME CapInv, UNCHANGED setting, NEW c \in Submits, ReserveEntry(c)
    PROVE  CapInv'
<1>. DEFINE s == Owner[c]
            new == [kind \in Limits |->
                      Observe(kind, ledger[kind], Observed(s, kind).value, Observed(s, kind).at)]
<1>1. /\ UNCHANGED <<setting, now, order, poll, snap>>
      /\ holder = None /\ outcome[c] = "none"
      /\ \A kind \in Limits : \A source \in Needs(kind) : snap[s][source].at > 0
      BY Zenon DEF ReserveEntry
<1>2. /\ Strategies' = Strategies /\ Limits' = Limits
      /\ UNCHANGED <<BuyingPower, MaxOrders, MaxQuantity, Quantity, Active, Live>>
      BY Zenon, <1>1 DEF Strategies, Owner, Limits, BuyingPower, MaxOrders, MaxQuantity, Quantity, Active, Live
<1>3. \A kind : UNCHANGED <<Amount(kind), Ceiling(kind), Counted(kind)>>
      BY Zenon, <1>2 DEF Amount, Ceiling, Counted
<1>4. PICK seen :
         /\ seen = new /\ seen = [kind \in Limits |-> seen[kind]]
         /\ \A kind \in Limits :
               seen[kind] = Observe(kind, ledger[kind], Observed(s, kind).value, Observed(s, kind).at)
  <2>1. new = [kind \in Limits |-> new[kind]]
        BY Zenon
  <2>2. \A kind \in Limits :
           new[kind] = Observe(kind, ledger[kind], Observed(s, kind).value, Observed(s, kind).at)
        BY Zenon
  <2>. HIDE DEF new
  <2>. QED  BY Zenon, <2>1, <2>2
<1>5. s \in Strategies /\ None \notin Submits /\ setting \in Settings
      BY Zenon, SettingFacts DEF CapInv, Shapes
<1>6. \A kind \in Limits :
         /\ seen[kind] \in Ledgers /\ seen[kind].awaiting = ledger[kind].awaiting
         /\ ledger[kind].at <= seen[kind].at /\ seen[kind].at > 0 /\ seen[kind].at <= now
         /\ \A t \in Nat : t > seen[kind].at => Kept(ledger[kind], t) \subseteq Kept(seen[kind], t)
         /\ Covered(kind, seen[kind])
      BY Zenon, <1>1, <1>4, <1>5, SeenFacts
<1>7. \/ /\ \A kind \in Limits : Available(kind, seen[kind], c)
         /\ ledger' = [kind \in Limits |-> Insert(seen[kind], c)]
         /\ holder' = c /\ wire' = [wire EXCEPT ![c] = "flying"] /\ UNCHANGED outcome
      \/ /\ ledger' = seen
         /\ outcome' = [outcome EXCEPT ![c] = "declined"] /\ UNCHANGED <<holder, wire>>
      BY Zenon, <1>4 DEF ReserveEntry
<1>. HIDE DEF new
<1>8. wire[c] = "none"
      BY SMTT(30), <1>1, <1>5 DEF CapInv, Flights
<1>9. /\ holder \in Submits \union {None}
      /\ wire \in [Submits -> {"none", "flying", "done", "refused"}]
      /\ outcome \in [Submits -> {"none", "order", "declined", "ambiguous"}]
      BY Zenon DEF CapInv, Shapes
<1>10. \A kind \in Limits :
          /\ ledger'[kind] \in Ledgers
          /\ ledger'[kind].at = seen[kind].at /\ ledger'[kind].value = seen[kind].value
          /\ ledger'[kind].completed = seen[kind].completed
          /\ ledger'[kind].awaiting = seen[kind].awaiting \/ ledger'[kind].awaiting = seen[kind].awaiting \union {c}
  <2>. SUFFICES ASSUME NEW kind \in Limits
                PROVE  /\ ledger'[kind] \in Ledgers
                       /\ ledger'[kind].at = seen[kind].at /\ ledger'[kind].value = seen[kind].value
                       /\ ledger'[kind].completed = seen[kind].completed
                       /\ \/ ledger'[kind].awaiting = seen[kind].awaiting
                          \/ ledger'[kind].awaiting = seen[kind].awaiting \union {c}
       BY Zenon
  <2>1. ledger'[kind] = seen[kind] \/ ledger'[kind] = Insert(seen[kind], c)
        BY Zenon, <1>7
  <2>. QED  BY SMTT(30), <1>6, <2>1 DEF Insert, Ledgers
<1>11. ledger' = [kind \in Limits |-> ledger'[kind]]
  <2>1. CASE ledger' = seen
        BY Zenon, <1>4, <2>1
  <2>2. CASE ledger' = [kind \in Limits |-> Insert(seen[kind], c)]
        BY Zenon, <2>2
  <2>. QED  BY Zenon, <1>7, <2>1, <2>2
<1>12. Shapes'
  <2>1. ledger' \in [Limits -> Ledgers] /\ \A kind \in Limits : ledger'[kind].at <= now
        BY Zenon, <1>6, <1>10, <1>11
  <2>2. /\ holder' \in Submits \union {None}
        /\ wire' \in [Submits -> {"none", "flying", "done", "refused"}]
        /\ outcome' \in [Submits -> {"none", "order", "declined", "ambiguous"}]
        BY SMTT(30), <1>7, <1>9
  <2>. QED  BY ZenonT(30), <1>1, <1>2, <2>1, <2>2 DEF CapInv, Shapes
<1>13. Flights'
       BY Zenon, <1>1, <1>5, <1>7, <1>8, <1>9 DEF CapInv, Flights
<1>14. UncertainStaysReserved'
  <2>. SUFFICES ASSUME NEW kind \in Limits
                PROVE  ledger'[kind].awaiting = {d \in Submits : d = holder' \/ outcome'[d] = "ambiguous"}
       BY Zenon, <1>2 DEF UncertainStaysReserved
  <2>1. seen[kind].awaiting = {d \in Submits : d = holder \/ outcome[d] = "ambiguous"}
        BY ZenonT(30), <1>6 DEF CapInv, UncertainStaysReserved
  <2>2. CASE ledger' = seen /\ outcome' = [outcome EXCEPT ![c] = "declined"] /\ UNCHANGED holder
        BY SMTT(30), <1>1, <1>9, <2>1, <2>2
  <2>3. CASE /\ ledger' = [k \in Limits |-> Insert(seen[k], c)]
             /\ holder' = c /\ UNCHANGED outcome
    <3>1. ledger'[kind].awaiting = seen[kind].awaiting \union {c}
          BY Zenon, <1>6, <2>3 DEF Insert, Ledgers
    <3>. QED  BY Zenon, <1>1, <1>5, <2>1, <2>3, <3>1
  <2>. QED  BY Zenon, <1>7, <2>2, <2>3
<1>15. ASSUME NEW kind \in Limits
       PROVE  /\ \A t \in Nat : Kept(seen[kind], t) \subseteq Kept(ledger'[kind], t)
              /\ Held(seen[kind]) \subseteq Held(ledger'[kind])
       BY ZenonT(30), <1>10 DEF Kept, Held, Confirmed
<1>16. Views'
  <2>1. Keeps
    <3>1. \A kind \in Limits : ledger[kind].at <= ledger'[kind].at
          BY Zenon, <1>6, <1>10
    <3>. QED  BY Zenon, <1>3, <1>6, <1>10, <1>15, <3>1 DEF Keeps
  <2>2. \A source \in Sources : (ViewsOf(source))' = ViewsOf(source)
        BY ZenonT(30), <1>1, <1>2 DEF ViewsOf
  <2>3. now <= now'
        BY SMTT(30), <1>1 DEF CapInv, Shapes
  <2>. QED  BY Zenon, <1>12, <2>1, <2>2, <2>3, ViewsKept
<1>17. Budgets'
  <2>. SUFFICES ASSUME NEW kind \in Limits
                PROVE  /\ Covered(kind, ledger[kind])'
                       /\ SumFunctionOnSet(Amount(kind), Counted(kind) \union ledger'[kind].awaiting)
                             <= Ceiling(kind)
       BY Zenon, <1>2, <1>3 DEF Budgets
  <2>1. Covered(kind, ledger[kind])'
    <3>. SUFFICES ASSUME ledger'[kind].at > 0
                  PROVE  \E D \in SUBSET Submits :
                            /\ Counted(kind) \subseteq D \union Held(ledger'[kind])
                            /\ SumFunctionOnSet(Amount(kind), D) <= Used(kind, ledger'[kind].value)
         BY Zenon, <1>2, <1>3 DEF Covered, Used, Held, Confirmed
    <3>1. PICK D \in SUBSET Submits : /\ Counted(kind) \subseteq D \union Held(seen[kind])
                                      /\ SumFunctionOnSet(Amount(kind), D) <= Used(kind, seen[kind].value)
          BY Zenon, <1>6 DEF Covered
    <3>. QED  BY Zenon, <1>10, <1>15, <3>1
  <2>2. SumFunctionOnSet(Amount(kind), Counted(kind) \union ledger[kind].awaiting) <= Ceiling(kind)
        BY Zenon DEF CapInv, Budgets
  <2>3. CASE ledger' = seen
        BY Zenon, <1>6, <2>1, <2>2, <2>3
  <2>4. CASE (\A k \in Limits : Available(k, seen[k], c)) /\ ledger' = [k \in Limits |-> Insert(seen[k], c)]
    <3>1. ledger'[kind].awaiting = seen[kind].awaiting \union {c}
          BY Zenon, <1>6, <2>4 DEF Insert, Ledgers
    <3>. QED  BY ZenonT(30), <1>6, <2>1, <2>4, <3>1, Admitted
  <2>. QED  BY Zenon, <1>7, <2>3, <2>4
<1>. QED  BY Zenon, <1>12, <1>13, <1>14, <1>16, <1>17 DEF CapInv

(***************************************************************************)
(* Completion.                                                             *)
(***************************************************************************)

\* m is what a completion of c leaves of l: it holds on to every command but one
\* that was declined.
Completes(m, l, c, result) ==
    /\ m \in Ledgers /\ m.at = l.at /\ m.value = l.value
    /\ m.awaiting = IF result = "ambiguous" THEN l.awaiting ELSE l.awaiting \ {c}
    /\ \A d \in Submits : d # c \/ result # "declined" =>
          /\ \A t \in Nat : t <= now => (d \in Kept(l, t) => d \in Kept(m, t))
          /\ d \in Held(l) => d \in Held(m)

\* That is what Settled leaves.
LEMMA SettledFacts ==
    ASSUME CapInv, NEW kind \in Limits, NEW c \in Submits,
           NEW result \in {"order", "declined", "ambiguous"}
    PROVE  Completes(Settled(ledger[kind], c, result), ledger[kind], c, result)
<1>0. PICK m : m = Settled(ledger[kind], c, result)
      BY Zenon
<1>1. PICK l : l = ledger[kind] /\ l \in Ledgers
      BY Zenon DEF CapInv, Shapes
<1>2. l.at \in Nat /\ l.value \in Int /\ l.awaiting \in SUBSET Submits /\ l.completed \in Seq(Watermark)
      BY Zenon, <1>1 DEF Ledgers
<1>3. now \in Nat
      BY Zenon DEF CapInv, Shapes
<1>4. ASSUME c \notin l.awaiting \/ result = "ambiguous" PROVE Completes(m, l, c, result)
  <2>1. m = l
        BY Zenon, <1>0, <1>1, <1>4 DEF Settled
  <2>2. m.awaiting = IF result = "ambiguous" THEN l.awaiting ELSE l.awaiting \ {c}
        BY Zenon, <1>4, <2>1
  <2>. QED  BY Zenon, <1>1, <2>1, <2>2 DEF Completes
<1>5. ASSUME c \in l.awaiting, result = "declined" PROVE Completes(m, l, c, result)
  <2>1. m = [l EXCEPT !.awaiting = @ \ {c}]
        BY Zenon, <1>0, <1>1, <1>5 DEF Settled
  <2>2. /\ m \in Ledgers /\ m.at = l.at /\ m.value = l.value /\ m.completed = l.completed
        /\ m.awaiting = l.awaiting \ {c}
        BY Zenon, <1>1, <2>1 DEF Ledgers
  <2>3. \A d \in Submits : d # c => /\ \A t \in Nat : d \in Kept(l, t) => d \in Kept(m, t)
                                    /\ d \in Held(l) => d \in Held(m)
        BY Zenon, <2>2 DEF Kept, Held, Confirmed
  <2>. QED  BY Zenon, <1>5, <2>2, <2>3 DEF Completes
<1>6. ASSUME c \in l.awaiting, result = "order" PROVE Completes(m, l, c, result)
  <2>. DEFINE w == [id |-> c, at |-> now]
              R == Append(l.completed, w)
  <2>1. w \in Watermark /\ w.id = c /\ w.at = now
        BY Zenon, <1>3 DEF Watermark
  <2>2. m = [l EXCEPT !.awaiting = @ \ {c}, !.completed = Append(@, w)]
        BY ZenonT(30), <1>0, <1>1, <1>6 DEF Settled
  <2>. HIDE DEF w
  <2>3. /\ R \in Seq(Watermark)
        /\ \E i \in DOMAIN R : R[i] = w
        /\ \A i \in DOMAIN l.completed : i \in DOMAIN R /\ R[i] = l.completed[i]
        BY SMTT(30), <1>2, <2>1, Extended
  <2>. HIDE DEF R
  <2>4. /\ m \in Ledgers /\ m.at = l.at /\ m.value = l.value /\ m.completed = R
        /\ m.awaiting = l.awaiting \ {c}
    <3>1. m = [l EXCEPT !.awaiting = @ \ {c}, !.completed = R]
          BY Zenon, <2>2 DEF R
    <3>. QED  BY ZenonT(30), <1>1, <2>3, <3>1 DEF Ledgers
  <2>5. ASSUME NEW t \in Nat, t <= now, NEW d \in Kept(l, t) PROVE d \in Kept(m, t)
    <3>1. CASE d = c
      <4>1. w.at >= t
            BY Zenon, <1>3, <2>1, <2>5
      <4>2. \E i \in DOMAIN m.completed : m.completed[i].id = c /\ m.completed[i].at >= t
            BY Zenon, <2>1, <2>3, <2>4, <4>1
      <4>. QED  BY Zenon, <3>1, <4>2 DEF Kept
    <3>2. CASE d # c
          BY Zenon, <2>3, <2>4, <3>2 DEF Kept
    <3>. QED  BY Zenon, <3>1, <3>2
  <2>6. ASSUME NEW d \in Held(l) PROVE d \in Held(m)
    <3>1. \E i \in DOMAIN m.completed : m.completed[i].id = c
          BY Zenon, <2>1, <2>3, <2>4
    <3>. QED  BY ZenonT(30), <2>3, <2>4, <3>1 DEF Held, Confirmed
  <2>. QED  BY Zenon, <1>6, <2>4, <2>5, <2>6 DEF Completes
<1>7. Completes(m, l, c, result)
      BY Zenon, <1>4, <1>5, <1>6
<1>. QED  BY Zenon, <1>0, <1>1, <1>7

\* A completion of a command keeps the readings sound and the budgets, if a
\* declined command has no order.
LEMMA CompletionFrame ==
    ASSUME CapInv, UNCHANGED <<setting, now, order, wire, poll, snap>>,
           NEW c \in Submits, NEW result \in {"order", "declined", "ambiguous"},
           result = "declined" => order[c].status = "none",
           ledger' = [kind \in Limits |-> Settled(ledger[kind], c, result)],
           outcome' \in [Submits -> {"none", "order", "declined", "ambiguous"}],
           holder' \in Submits \union {None}
    PROVE  Shapes' /\ Views' /\ Budgets'
<1>1. /\ Strategies' = Strategies /\ Limits' = Limits
      /\ UNCHANGED <<Active, Live>>
      BY Zenon DEF Strategies, Owner, Limits, Active, Live
<1>2. \A kind : UNCHANGED Counted(kind)
      BY Zenon, <1>1 DEF Counted
<1>3. \A kind \in Limits : Completes(ledger'[kind], ledger[kind], c, result)
  <2>1. \A kind \in Limits : ledger'[kind] = Settled(ledger[kind], c, result)
        BY Zenon
  <2>. QED  BY Zenon, <2>1, SettledFacts
<1>4. \A kind \in Limits : \A d \in Counted(kind) : d \in Submits /\ (d # c \/ result # "declined")
      BY Zenon DEF Counted, Active, Live
<1>5. Shapes'
  <2>1. \A kind \in Limits : ledger'[kind] \in Ledgers /\ ledger'[kind].at = ledger[kind].at
        BY Zenon, <1>3 DEF Completes
  <2>2. ledger' \in [Limits -> Ledgers]
        BY Zenon, <2>1
  <2>. QED  BY Zenon, <1>1, <2>1, <2>2 DEF CapInv, Shapes
<1>6. \A kind \in Limits : ledger[kind].at <= ledger'[kind].at
  <2>1. \A kind \in Limits : ledger[kind].at \in Nat /\ ledger'[kind].at = ledger[kind].at
        BY ZenonT(30), <1>3 DEF CapInv, Shapes, Ledgers, Completes
  <2>. QED  BY SMTT(30), <2>1
<1>7. Keeps
      BY Zenon, <1>2, <1>3, <1>4, <1>6 DEF Keeps, Completes
<1>8. Views'
  <2>1. \A source \in Sources : (ViewsOf(source))' = ViewsOf(source)
        BY Zenon, <1>1 DEF ViewsOf
  <2>2. now <= now'
        BY SMTT(30) DEF CapInv, Shapes
  <2>. QED  BY Zenon, <1>5, <1>7, <2>1, <2>2, ViewsKept
<1>9. Budgets'
  <2>1. \A kind \in Limits : ledger'[kind].awaiting \subseteq ledger[kind].awaiting
        BY Zenon, <1>3 DEF Completes
  <2>. QED  BY Zenon, <1>2, <1>3, <1>4, <1>5, <2>1, BudgetsKept DEF Completes
<1>. QED  BY Zenon, <1>5, <1>8, <1>9

\* The transmission is over: the broker answered or the time was up.
LEMMA FinishStep ==
    ASSUME CapInv, UNCHANGED setting, NEW result \in {"order", "declined", "ambiguous"},
           FinishEntry(result)
    PROVE  CapInv'
<1>1. PICK c \in Submits : c = holder
      BY Zenon DEF FinishEntry, CapInv, Shapes
<1>2. /\ UNCHANGED <<setting, now, order, wire, poll, snap>> /\ holder' = None
      /\ ledger' = [kind \in Limits |-> Settled(ledger[kind], c, result)]
      /\ outcome' = [outcome EXCEPT ![c] = result]
      /\ \/ result = "ambiguous"
         \/ result = "order" /\ wire[c] = "done"
         \/ result = "declined" /\ wire[c] = "refused"
      BY Zenon, <1>1 DEF FinishEntry
<1>3. outcome' \in [Submits -> {"none", "order", "declined", "ambiguous"}]
      BY Zenon, <1>2 DEF CapInv, Shapes
<1>4. result = "declined" => order[c].status = "none"
      BY SMTT(30), <1>2 DEF CapInv, Flights, Unknown
<1>5. Shapes' /\ Views' /\ Budgets'
      BY ZenonT(30), <1>2, <1>3, <1>4, CompletionFrame
<1>6. None \notin Submits /\ outcome[c] = "none" /\ outcome \in [Submits -> {"none", "order", "declined", "ambiguous"}]
      BY Zenon, SettingFacts, <1>1 DEF CapInv, Shapes, Flights
<1>7. Flights'
  <2>1. \A d \in Submits :
           /\ wire[d] = "flying" => d = c \/ outcome[d] = "ambiguous"
           /\ wire[d] # "done" => order[d] = Unknown
           /\ outcome[d] = "none" /\ d # c => wire[d] = "none"
        BY Zenon, <1>1 DEF CapInv, Flights
  <2>. QED  BY Zenon, <1>2, <1>6, <2>1 DEF Flights
<1>8. UncertainStaysReserved'
  <2>. SUFFICES ASSUME NEW kind \in Limits
                PROVE  ledger'[kind].awaiting = {d \in Submits : d = None \/ outcome'[d] = "ambiguous"}
       BY Zenon, <1>2 DEF UncertainStaysReserved, Limits
  <2>1. ledger[kind].awaiting = {d \in Submits : d = c \/ outcome[d] = "ambiguous"}
        BY Zenon, <1>1 DEF CapInv, UncertainStaysReserved
  <2>2. ledger'[kind].awaiting = IF result = "ambiguous" THEN ledger[kind].awaiting ELSE ledger[kind].awaiting \ {c}
    <3>1. ledger'[kind] = Settled(ledger[kind], c, result)
          BY Zenon, <1>2
    <3>2. Completes(ledger'[kind], ledger[kind], c, result)
          BY Zenon, <3>1, SettledFacts
    <3>. QED  BY Zenon, <3>2 DEF Completes
  <2>. QED  BY Zenon, <1>2, <1>6, <2>1, <2>2
<1>. QED  BY SMTT(30), <1>5, <1>7, <1>8 DEF CapInv

\* Reconciliation confirms an uncertain submission.
LEMMA SettleStep ==
    ASSUME CapInv, UNCHANGED setting, NEW c \in Submits, SettleEntry(c)
    PROVE  CapInv'
<1>1. /\ UNCHANGED <<setting, now, order, wire, poll, snap, holder>>
      /\ outcome[c] = "ambiguous" /\ order[c] # Unknown
      /\ ledger' = [kind \in Limits |-> Settled(ledger[kind], c, "order")]
      /\ outcome' = [outcome EXCEPT ![c] = "order"]
      BY ZenonT(30) DEF SettleEntry
<1>2. /\ outcome' \in [Submits -> {"none", "order", "declined", "ambiguous"}]
      /\ outcome \in [Submits -> {"none", "order", "declined", "ambiguous"}]
      /\ holder \in Submits \union {None}
      BY Zenon, <1>1 DEF CapInv, Shapes
<1>3. Shapes' /\ Views' /\ Budgets'
  <2>1. "order" \in {"order", "declined", "ambiguous"} /\ "order" # "declined"
        BY SMTT(30)
  <2>. QED  BY Zenon, <1>1, <1>2, <2>1, CompletionFrame
<1>4. c # holder /\ None \notin Submits
      BY SMTT(30), SettingFacts, <1>1 DEF CapInv, Shapes, Flights
<1>5. wire[c] # "flying"
      BY Zenon, <1>1 DEF CapInv, Shapes, Flights
<1>6. Flights'
      BY SMTT(30), <1>1, <1>2, <1>4, <1>5 DEF CapInv, Flights
<1>7. UncertainStaysReserved'
  <2>. SUFFICES ASSUME NEW kind \in Limits
                PROVE  ledger'[kind].awaiting = {d \in Submits : d = holder \/ outcome'[d] = "ambiguous"}
       BY Zenon, <1>1 DEF UncertainStaysReserved, Limits
  <2>1. ledger[kind].awaiting = {d \in Submits : d = holder \/ outcome[d] = "ambiguous"}
        BY Zenon DEF CapInv, UncertainStaysReserved
  <2>2. ledger'[kind].awaiting = ledger[kind].awaiting \ {c}
    <3>1. "order" \in {"order", "declined", "ambiguous"} /\ "order" # "ambiguous"
          BY Zenon
    <3>2. ledger'[kind] = Settled(ledger[kind], c, "order")
          BY Zenon, <1>1
    <3>3. Completes(ledger'[kind], ledger[kind], c, "order")
          BY Zenon, <3>1, <3>2, SettledFacts
    <3>. QED  BY Zenon, <3>1, <3>3 DEF Completes
  <2>. QED  BY Zenon, <1>1, <1>2, <1>4, <2>1, <2>2
<1>. QED  BY Zenon, <1>3, <1>6, <1>7 DEF CapInv

(***************************************************************************)
(* The theorems.                                                           *)
(***************************************************************************)

\* The invariant holds before anything was sent.
LEMMA InitCapInv == Init => CapInv
<1>. SUFFICES ASSUME Init PROVE CapInv
     BY Zenon
<1>1. /\ setting \in Settings /\ now = 1 /\ holder = None
      /\ order = [c \in Submits |-> Unknown] /\ wire = [c \in Submits |-> "none"]
      /\ outcome = [c \in Submits |-> "none"]
      /\ ledger = [kind \in Limits |-> EmptyLedger]
      BY Zenon DEF Init
<1>2. EmptyLedger \in Ledgers /\ EmptyLedger.at = 0 /\ EmptyLedger.awaiting = {}
      BY SMTT(30) DEF EmptyLedger, Ledgers
<1>3. /\ \A kind \in Limits : ledger[kind] = EmptyLedger
      /\ ledger \in [Limits -> Ledgers]
      BY Zenon, <1>1, <1>2
<1>4. /\ DOMAIN poll = Strategies /\ DOMAIN snap = Strategies
      /\ \A s \in Strategies : DOMAIN poll[s] = Sources /\ DOMAIN snap[s] = Sources
      /\ \A s \in Strategies, source \in Sources :
            poll[s][source] = [phase |-> "idle", got |-> Idle] /\ snap[s][source] = Idle
      BY Zenon DEF Init
<1>5. Idle.at = 0
      BY Zenon DEF Idle, Snapshot
<1>6. Shapes
  <2>1. \A s \in Strategies, source \in Sources : poll[s][source].got.at = 0
        BY SMTT(30), <1>4, <1>5
  <2>2. \A s \in Strategies, source \in Sources :
           poll[s][source].got.at \in Nat /\ poll[s][source].got.at <= now
        BY SMTT(30), <1>1, <2>1
  <2>3. order \in [Submits -> [status : {"none", "active", "open", "ended"}, filled : Nat]]
        BY Zenon, <1>1 DEF Unknown
  <2>4. /\ wire \in [Submits -> {"none", "flying", "done", "refused"}]
        /\ outcome \in [Submits -> {"none", "order", "declined", "ambiguous"}]
        /\ now \in Nat /\ now > 0
        BY SMTT(30), <1>1
  <2>5. \A kind \in Limits : ledger[kind].at <= now
        BY SMTT(30), <1>1, <1>2, <1>3
  <2>. QED  BY ZenonT(30), <1>1, <1>3, <1>4, <2>2, <2>3, <2>4, <2>5 DEF Shapes
<1>7. None \notin Submits
      BY Zenon, <1>1, SettingFacts
<1>8. Flights
      BY Zenon, <1>1, <1>7 DEF Flights
<1>9. UncertainStaysReserved
  <2>1. {c \in Submits : c = holder \/ outcome[c] = "ambiguous"} = {}
        BY Zenon, <1>1, <1>7
  <2>. QED  BY Zenon, <1>2, <1>3, <2>1 DEF UncertainStaysReserved
<1>10. Views
  <2>1. \A source \in Sources : \A view \in ViewsOf(source) : view = Idle
    <3>1. \A s \in Strategies, source \in Sources : poll[s][source].phase = "idle"
          BY SMTT(30), <1>4
    <3>. QED  BY Zenon, <1>4, <3>1 DEF ViewsOf
  <2>. QED  BY SMTT(30), <1>1, <1>5, <2>1 DEF Views
<1>11. Budgets
  <2>. SUFFICES ASSUME NEW kind \in Limits
                PROVE  /\ Covered(kind, ledger[kind])
                       /\ SumFunctionOnSet(Amount(kind), Counted(kind) \union ledger[kind].awaiting)
                             <= Ceiling(kind)
       BY Zenon DEF Budgets
  <2>1. Covered(kind, ledger[kind])
        BY SMTT(30), <1>2, <1>3 DEF Covered
  <2>2. Counted(kind) \union ledger[kind].awaiting = {}
        BY Zenon, <1>1, <1>2, <1>3 DEF Counted, Active, Live, Unknown
  <2>3. SumFunctionOnSet(Amount(kind), {}) = 0
    <3>1. IsFiniteSet({})
          BY Zenon, FS_EmptySet
    <3>. QED  BY Zenon, <3>1, SumUnfold
  <2>4. Ceiling(kind) \in Nat
        BY Zenon, <1>1, SettingFacts
  <2>5. 0 <= Ceiling(kind)
        BY SMTT(30), <2>4
  <2>. QED  BY Zenon, <2>1, <2>2, <2>3, <2>5
<1>. QED  BY Zenon, <1>6, <1>8, <1>9, <1>10, <1>11 DEF CapInv

\* Nothing but the variables matters.
LEMMA StutterCapInv == ASSUME CapInv, UNCHANGED vars PROVE CapInv'
<1>1. UNCHANGED <<setting, now, order, wire, poll, snap, ledger, holder, outcome>>
      BY Zenon DEF vars
<1>2. Strategies' = Strategies /\ Limits' = Limits
      BY Zenon, <1>1 DEF Strategies, Owner, Limits
<1>3. Shapes'
      BY Zenon, <1>1, <1>2 DEF CapInv, Shapes
<1>4. Keeps /\ Flights' /\ UncertainStaysReserved' /\ Budgets'
      BY Zenon, <1>1, <1>3, PollFrame
<1>5. \A source \in Sources : (ViewsOf(source))' = ViewsOf(source)
      BY ZenonT(30), <1>1, <1>2 DEF ViewsOf
<1>6. now <= now'
      BY SMTT(30), <1>1 DEF CapInv, Shapes
<1>7. Views'
      BY Zenon, <1>3, <1>4, <1>5, <1>6, ViewsKept
<1>. QED  BY Zenon, <1>3, <1>4, <1>7 DEF CapInv

\* Every step keeps it.
LEMMA StepCapInv == CapInv /\ [Next]_vars => CapInv'
<1>. SUFFICES ASSUME CapInv, [Next]_vars PROVE CapInv'
     BY Zenon
<1>1. CASE UNCHANGED vars
      BY Zenon, <1>1, StutterCapInv
<1>2. CASE Next
  <2>. USE <1>2 DEF Next
  <2>1. UNCHANGED setting
        BY Zenon
  <2>2. ASSUME NEW s \in Strategies, Invalidate(s) PROVE CapInv'
    <3>1. "orders" \in Sources
          BY Zenon DEF Sources
    <3>. QED  BY ZenonT(30), <2>1, <2>2, <3>1, PollStep
  <2>3. ASSUME NEW s \in Strategies, NEW source \in Polled,
               PollRequest(s, source) \/ PollAnswer(s, source) \/ Publish(s, source) \/ PollFails(s, source)
        PROVE  CapInv'
    <3>1. source \in Sources
      <4>1. PICK kind \in LimitKinds : source \in Needs(kind)
            BY SMTT(30), SettingFacts DEF Polled, CapInv, Shapes
      <4>2. Needs("orders") \subseteq Sources /\ Needs("symbol") \subseteq Sources /\ Needs("margin") \subseteq Sources
            BY Zenon DEF Needs, Sources
      <4>. QED  BY ZenonT(30), <4>1, <4>2 DEF LimitKinds
    <3>. QED  BY Zenon, <2>1, <2>3, <3>1, PollStep, AnswerStep
  <2>4. ASSUME NEW c \in Submits, ReserveEntry(c) PROVE CapInv'
        BY Zenon, <2>1, <2>4, ReserveStep
  <2>5. ASSUME NEW c \in Submits, SettleEntry(c) PROVE CapInv'
        BY Zenon, <2>1, <2>5, SettleStep
  <2>6. ASSUME NEW c \in Submits, BrokerExecutes(c) \/ BrokerRefuses(c) PROVE CapInv'
        BY Zenon, <2>1, <2>6, TransmissionStep
  <2>7. ASSUME NEW c \in Submits, NEW move \in Moves, BrokerMoves(c, move) PROVE CapInv'
        BY Zenon, <2>1, <2>7, MoveStep
  <2>8. ASSUME NEW result \in {"order", "declined", "ambiguous"}, FinishEntry(result) PROVE CapInv'
        BY Zenon, <2>1, <2>8, FinishStep
  <2>9. CASE Tick
        BY Zenon, <2>1, <2>9, TickStep
  <2>. QED  BY ZenonT(30), <2>2, <2>3, <2>4, <2>5, <2>6, <2>7, <2>8, <2>9
<1>. QED  BY Zenon, <1>1, <1>2

\* What the invariant says of each limit: the orders that use it fit.
LEMMA WithinCeiling ==
    ASSUME CapInv, NEW kind \in Limits
    PROVE  SumFunctionOnSet(Amount(kind), Counted(kind)) <= Ceiling(kind)
<1>1. PICK S, T : S = Counted(kind) /\ T = Counted(kind) \union ledger[kind].awaiting
      BY ZenonT(30)
<1>2. IsFiniteSet(Submits) /\ Amount(kind) \in [Submits -> Nat] /\ Ceiling(kind) \in Nat
      BY Zenon, SettingFacts DEF CapInv, Shapes
<1>3. PICK f : f = Amount(kind) /\ f \in [Submits -> Nat]
      BY Zenon, <1>2
<1>4. S \subseteq T /\ T \subseteq Submits
      BY Zenon, <1>1 DEF CapInv, Shapes, Ledgers, Counted, Active, Live
<1>5. IsFiniteSet(T) /\ IsFiniteSet(S) /\ \A x \in T : f[x] \in Nat
      BY Zenon, <1>2, <1>3, <1>4, FS_Subset
<1>6. SumFunctionOnSet(f, S) <= SumFunctionOnSet(f, T)
      BY Zenon, <1>4, <1>5, SumMonotone
<1>7. SumFunctionOnSet(f, S) \in Nat /\ SumFunctionOnSet(f, T) \in Nat
      BY Zenon, <1>4, <1>5, SumType
<1>8. SumFunctionOnSet(f, T) <= Ceiling(kind)
      BY Zenon, <1>1, <1>3 DEF CapInv, Budgets
<1>9. SumFunctionOnSet(f, S) <= Ceiling(kind)
      BY SMTT(30), <1>2, <1>6, <1>7, <1>8
<1>. QED  BY Zenon, <1>1, <1>3, <1>9

\* CapInv is an invariant of the entry capacity specification.
THEOREM CapacityInvariant == Spec => []CapInv
BY InitCapInv, StepCapInv, PTL DEF Spec

\* Whatever the commands, limits, strategies and the order of snapshots and
\* answers: the account never has more pending orders than max_total_orders allows.
THEOREM OrdersStayWithinLimit == Spec => []OrdersWithinLimit
<1>1. CapInv => OrdersWithinLimit
  <2>. SUFFICES ASSUME CapInv, "orders" \in Limits PROVE Cardinality(Active) <= MaxOrders
       BY Zenon DEF OrdersWithinLimit
  <2>1. /\ Amount("orders") = [c \in Submits |-> 1] /\ Ceiling("orders") = MaxOrders
        /\ Counted("orders") = Active
        BY Zenon DEF Amount, Ceiling, Counted
  <2>2. SumFunctionOnSet([c \in Submits |-> 1], Active) <= MaxOrders
        BY ZenonT(30), <2>1, WithinCeiling
  <2>3. IsFiniteSet(Active) /\ \A x \in Active : [c \in Submits |-> 1][x] = 1
        BY Zenon, SettingFacts, FS_Subset DEF CapInv, Shapes, Active
  <2>4. SumFunctionOnSet([c \in Submits |-> 1], Active) = Cardinality(Active)
        BY ZenonT(30), <2>3, SumOfOnes
  <2>. QED  BY Zenon, <2>2, <2>4
<1>. QED  BY <1>1, CapacityInvariant, PTL

\* The margin of the live orders never exceeds the account's funds.
THEOREM MarginStaysWithinFunds == Spec => []MarginWithinFunds
<1>1. CapInv => MarginWithinFunds
  <2>. SUFFICES ASSUME CapInv, "margin" \in Limits PROVE SumFunctionOnSet(Margin, Live) <= BuyingPower
       BY Zenon DEF MarginWithinFunds
  <2>1. Amount("margin") = Margin /\ Ceiling("margin") = BuyingPower /\ Counted("margin") = Live
        BY Zenon DEF Amount, Ceiling, Counted
  <2>. QED  BY Zenon, <2>1, WithinCeiling
<1>. QED  BY <1>1, CapacityInvariant, PTL

\* Every ledger reserves capacity for exactly the submissions in flight or
\* uncertain.
THEOREM UncertainIsAlwaysReserved == Spec => []UncertainStaysReserved
<1>1. CapInv => UncertainStaysReserved
      BY Zenon DEF CapInv
<1>. QED  BY <1>1, CapacityInvariant, PTL

(***************************************************************************)
(* The symbol's exposure.  An order that leaves the active set with a      *)
(* filled part is in neither reading when the positions were read before   *)
(* it filled, so the limit is kept only where that does not happen.        *)
(***************************************************************************)

OrdersRest == Moves \subseteq {"partial fill", "cancel", "close"}

NothingOpens == OrdersRest => \A c \in Submits : order[c].status # "open"

\* Where orders do not leave the active set with a filled part, none is open.
LEMMA StepNothingOpens == CapInv /\ NothingOpens /\ [Next]_vars => NothingOpens'
<1>. SUFFICES ASSUME CapInv, NothingOpens, [Next]_vars PROVE NothingOpens'
     BY Zenon
<1>1. UNCHANGED setting
      BY Zenon DEF Next, vars
<1>2. OrdersRest' = OrdersRest /\ Moves' = Moves
      BY Zenon, <1>1 DEF OrdersRest, Moves
<1>3. CASE UNCHANGED order
      BY Zenon, <1>2, <1>3 DEF NothingOpens
<1>. DEFINE Order == [status : {"none", "active", "open", "ended"}, filled : Nat]
<1>4. order \in [Submits -> Order]
      BY Zenon DEF CapInv, Shapes
<1>5. ASSUME NEW c \in Submits, NEW new, order' = [order EXCEPT ![c] = new],
             OrdersRest => new.status # "open"
      PROVE  NothingOpens'
      BY Zenon, <1>2, <1>4, <1>5 DEF NothingOpens
<1>6. ASSUME NEW c \in Submits, BrokerExecutes(c) PROVE NothingOpens'
  <2>1. order' = [order EXCEPT ![c] = [status |-> "active", filled |-> 0]]
        BY Zenon, <1>6 DEF BrokerExecutes
  <2>. QED  BY ZenonT(30), <1>5, <2>1
<1>7. ASSUME NEW c \in Submits, NEW move \in Moves, BrokerMoves(c, move) PROVE NothingOpens'
  <2>1. CASE move = "partial fill"
    <3>1. order' = [order EXCEPT ![c] = [order[c] EXCEPT !.filled = @ + 1]] /\ c \in Active
          BY Zenon, <1>7, <2>1 DEF BrokerMoves
    <3>2. [order[c] EXCEPT !.filled = @ + 1].status # "open"
          BY Zenon, <1>4, <3>1 DEF Active
    <3>. QED  BY ZenonT(30), <1>5, <3>1, <3>2
  <2>2. CASE move \in {"cancel", "close"}
    <3>1. order' = [order EXCEPT ![c] = [status |-> "ended", filled |-> 0]]
          BY Zenon, <1>7, <2>2 DEF BrokerMoves
    <3>. QED  BY ZenonT(30), <1>5, <3>1
  <2>3. CASE move \in {"fill", "cancel rest"}
    <3>1. ~OrdersRest
          BY ZenonT(30), <2>3, <1>7 DEF OrdersRest
    <3>. QED  BY Zenon, <1>2, <3>1 DEF NothingOpens
  <2>4. move \in OrderMoves
        BY Zenon, SettingFacts DEF CapInv, Shapes
  <2>. QED  BY Zenon, <2>1, <2>2, <2>3, <2>4 DEF OrderMoves
<1>8. CASE UNCHANGED vars
      BY Zenon, <1>3, <1>8 DEF vars
<1>9. CASE Next
      BY ZenonT(30), <1>3, <1>6, <1>7, <1>9
         DEF Next, Invalidate, PollRequest, PollAnswer, Publish, PollFails, ReserveEntry, SettleEntry,
             BrokerRefuses, FinishEntry, Tick
<1>. QED  BY Zenon, <1>8, <1>9

\* Where no order leaves the active set with a filled part, the quantity of the
\* symbol stays within max_total_symbol_quantity.
THEOREM ExposureStaysWithinLimit == Spec => [](OrdersRest => ExposureWithinLimit)
<1>1. Init => NothingOpens
      BY SMTT(30) DEF Init, NothingOpens, Unknown
<1>2. CapInv /\ NothingOpens => (OrdersRest => ExposureWithinLimit)
  <2>. SUFFICES ASSUME CapInv, NothingOpens, OrdersRest, "symbol" \in Limits
                PROVE  Exposure <= MaxQuantity
       BY Zenon DEF ExposureWithinLimit
  <2>1. Amount("symbol") = Quantity /\ Ceiling("symbol") = MaxQuantity /\ Counted("symbol") = Active
        BY Zenon DEF Amount, Ceiling, Counted
  <2>2. SumFunctionOnSet(Quantity, Active) <= MaxQuantity
        BY Zenon, <2>1, WithinCeiling
  <2>3. Live = Active
        BY SMTT(30) DEF Live, Active, NothingOpens
  <2>4. IsFiniteSet(Active) /\ \A c \in Active : c \in Submits /\ Quantity[c] \in Nat
        BY Zenon, SettingFacts, FS_Subset DEF CapInv, Shapes, Active
  <2>. DEFINE f == [c \in Submits |-> IF c \in Active THEN Quantity[c] ELSE order[c].filled]
  <2>5. \A c \in Active : Quantity[c] = f[c]
        BY Zenon, <2>4
  <2>6. Exposure = SumFunctionOnSet(f, Active)
        BY Zenon, <2>3 DEF Exposure
  <2>. HIDE DEF f
  <2>7. SumFunctionOnSet(Quantity, Active) = SumFunctionOnSet(f, Active)
        BY Zenon, <2>4, <2>5, SumSame
  <2>. QED  BY Zenon, <2>2, <2>6, <2>7
<1>. QED  BY <1>1, <1>2, StepNothingOpens, CapacityInvariant, PTL DEF Spec

=============================================================================
