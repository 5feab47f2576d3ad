------------------------ MODULE EventDeliverySteps ------------------------
(***************************************************************************)
(* The inductive invariant of EventDelivery, and that every step of the    *)
(* publisher, the bus, the agent and the cloud preserves it, but for the   *)
(* reservation.  That one, and the theorems, are in EventDeliveryProofs.   *)
(***************************************************************************)
EXTENDS EventDelivery, TLAPS

(***************************************************************************)
(* What the proofs use of sequences.                                       *)
(***************************************************************************)

\* The empty sequence.
LEMMA NoElements == \A S : <<>> \in Seq(S)
BY SMTT(30)

\* One after the other.
LEMMA Joined ==
    ASSUME NEW S, NEW a \in Seq(S), NEW b \in Seq(S)
    PROVE  /\ a \o b \in Seq(S) /\ Len(a \o b) = Len(a) + Len(b)
           /\ \A i \in 1 .. Len(a) + Len(b) : (a \o b)[i] = IF i <= Len(a) THEN a[i] ELSE b[i - Len(a)]
BY SMTT(30)

\* A part of a sequence.
LEMMA Cut ==
    ASSUME NEW S, NEW s \in Seq(S), NEW m \in 1 .. Len(s) + 1, NEW n \in m - 1 .. Len(s)
    PROVE  /\ SubSeq(s, m, n) \in Seq(S) /\ Len(SubSeq(s, m, n)) = n - m + 1
           /\ \A i \in 1 .. n - m + 1 : SubSeq(s, m, n)[i] = s[m + i - 1]
BY SMTT(30)
\* The order of the numbers.
LEMMA AtMost == ASSUME NEW a \in Nat, NEW b \in Nat, NEW c \in Nat, a <= b, b <= c PROVE a <= c
BY SMTT(30)

(***************************************************************************)
(* The inductive invariant.                                                *)
(***************************************************************************)
Message == [id : Events, seq : Nat, body : Bodies \cup {NoBody}, live : BOOLEAN]
Entry == [id : Events, body : Bodies \cup {NoBody}]
AgentRow == [state : {"none", "pending", "committed", "dead_letter"},
             seq : Nat, body : Bodies \cup {NoBody}, due : BOOLEAN]

\* The part of the type invariant that the argument needs.
Shapes ==
    /\ held \in Seq(Copies) /\ queue \in Seq(Copies)
    /\ batch \in Seq(Copies) /\ groups \in Seq(Seq(Copies))
    /\ sequence \in [Events -> Nat] /\ cursor \in Nat
    /\ fingerprint \in [Events -> Bodies \cup {NoBody}]
    /\ prow \in [Events -> {"none", "pending", "committed"}]
    /\ bus \in Seq(Message)
    /\ calls \in Seq(SUBSET Events)
    /\ row \in [Events -> AgentRow]
    /\ through \in Nat
    /\ cloud \in Seq(Entry)

\* The numbers given out are 1 .. cursor, each to one event.
Numbered ==
    /\ \A e \in Events : sequence[e] <= cursor
    /\ \A e, f \in Reserved : sequence[e] = sequence[f] => e = f
    /\ \A n \in 1 .. cursor : \E e \in Events : sequence[e] = n

\* What the publisher is about to publish is reserved.
Owned ==
    /\ \A e \in Events : prow[e] = "pending" => e \in Reserved
    /\ fresh \subseteq Reserved /\ todo \subseteq Reserved

\* Every copy of the batch is rejected, reserved with its body, or still to be
\* looked at.
Kept(c) == c.id \in Reserved /\ fingerprint[c.id] = c.body
Within(c, gs) == \E j \in DOMAIN gs : \E n \in DOMAIN gs[j] : gs[j][n] = c
Batched ==
    \A i \in DOMAIN batch :
        \/ batch[i].id \in rejected
        \/ Kept(batch[i])
        \/ Within(batch[i], groups)

\* The cloud has the first Stored reservations.
CloudIsPrefix ==
    \A n \in 1 .. Len(cloud) :
        sequence[cloud[n].id] = n /\ fingerprint[cloud[n].id] = cloud[n].body

\* A row that does not exist has no number.
RowsNumbered == \A e \in Events : row[e].state = "none" => row[e].seq = 0

\* An event of a batch that is being sent has a row, unless its row was pruned
\* because it was delivered; a batch answered with ok is delivered.
CallsKnown ==
    /\ apc \in {"call", "reply"} => calls # <<>>
    /\ \A i \in DOMAIN calls : \A e \in calls[i] : row[e].state # "none" \/ e \in Delivered
    /\ apc = "reply" /\ reply = "ok" => \A e \in Head(calls) : e \in Delivered

\* The agent or the cloud has the event.
Safe(e) == row[e].state \in {"pending", "dead_letter"} \/ e \in Delivered
AckedSafe == \A e \in Events : e \in acked => Safe(e)

DInv ==
    /\ Shapes /\ Numbered /\ Owned /\ Batched /\ ReceiptIsDurable
    /\ HandoffConsistent /\ CloudIsPrefix /\ RowsNumbered
    /\ CommittedIsDelivered /\ CallsKnown /\ AckedSafe /\ NothingLost

\* Nothing is reserved, on its way or stored at the start.
LEMMA InitDInv == Init => DInv
<1>. SUFFICES ASSUME Init PROVE DInv
     BY Zenon
<1>1. Shapes
      BY SMTT(30) DEF Init, Shapes, NoRow, AgentRow, Message
<1>2. Reserved = {} /\ Stored = 0 /\ \A e \in Events : row[e].state = "none" /\ row[e].seq = 0
      BY Zenon DEF Init, Reserved, Stored, NoRow
<1>3. Numbered /\ Owned /\ Batched /\ ReceiptIsDurable
      BY SMTT(30), <1>2 DEF Init, Numbered, Owned, Batched, ReceiptIsDurable
<1>4. HandoffConsistent /\ CloudIsPrefix /\ RowsNumbered
      BY SMTT(30), <1>2 DEF Init, HandoffConsistent, CloudIsPrefix, RowsNumbered
<1>5. CommittedIsDelivered /\ CallsKnown /\ AckedSafe /\ NothingLost
      BY SMTT(30), <1>2 DEF Init, CommittedIsDelivered, CallsKnown, AckedSafe, NothingLost
<1>. QED  BY Zenon, <1>1, <1>3, <1>4, <1>5 DEF DInv

\* A step that leaves the reservations and the cloud alone.
LEMMA SameLog ==
    ASSUME DInv, UNCHANGED <<sequence, fingerprint, cursor, cloud>>
    PROVE  /\ Reserved' = Reserved /\ Delivered' = Delivered /\ Stored' = Stored
           /\ Numbered' /\ CloudIsPrefix'
<1>1. Reserved' = Reserved /\ Delivered' = Delivered /\ Stored' = Stored
      BY Zenon DEF Reserved, Delivered, Stored
<1>2. Numbered' /\ CloudIsPrefix'
      BY Zenon, <1>1 DEF DInv, Numbered, CloudIsPrefix
<1>. QED  BY Zenon, <1>1, <1>2

\* The agent's part of the invariant after a step of the publisher.
LEMMA PublisherFrame ==
    ASSUME DInv, UNCHANGED <<sequence, fingerprint, cursor, cloud>>,
           UNCHANGED <<apc, calls, reply, row, through>>
    PROVE  RowsNumbered' /\ CommittedIsDelivered' /\ CallsKnown'
<1>1. Delivered' = Delivered /\ Stored' = Stored
      BY Zenon, SameLog
<1>. QED  BY Zenon, <1>1 DEF DInv, RowsNumbered, CommittedIsDelivered, CallsKnown

\* The publisher's part of the invariant after a step of the agent.
LEMMA AgentFrame ==
    ASSUME DInv, UNCHANGED <<sequence, fingerprint, cursor, cloud>>,
           UNCHANGED <<prow, fresh, todo, batch, groups, rejected, receipts>>
    PROVE  Owned' /\ Batched' /\ ReceiptIsDurable'
<1>1. Reserved' = Reserved
      BY Zenon, SameLog
<1>. QED  BY Zenon, <1>1 DEF DInv, Owned, Batched, Kept, ReceiptIsDurable

\* A message carries the number and the body of its reservation.
Faithful(m) == m.id \in Reserved /\ m.seq = sequence[m.id] /\ m.body = fingerprint[m.id]

\* A step of the publisher or of the bus that reserves nothing: payloads are
\* retired only once acknowledged.
LEMMA PublisherKeeps ==
    ASSUME DInv, UNCHANGED <<sequence, fingerprint, cursor, cloud>>,
           UNCHANGED <<apc, calls, reply, row, through>>,
           prow' \in [Events -> {"none", "pending", "committed"}],
           \A e \in Events : prow'[e] = "pending" => prow[e] = "pending",
           \A e \in Events : prow[e] = "pending" => prow'[e] = "pending" \/ e \in acked,
           bus' \in Seq(Message), \A i \in DOMAIN bus' : Faithful(bus'[i]),
           acked' \subseteq acked, fresh' \subseteq Reserved, todo' \subseteq Reserved,
           (held \in Seq(Copies) /\ queue \in Seq(Copies))',
           (batch \in Seq(Copies) /\ groups \in Seq(Seq(Copies)))',
           Batched', ReceiptIsDurable'
    PROVE  DInv'
<1>1. Reserved' = Reserved /\ Delivered' = Delivered /\ Numbered' /\ CloudIsPrefix'
      BY Zenon, SameLog
<1>2. RowsNumbered' /\ CommittedIsDelivered' /\ CallsKnown'
      BY Zenon, PublisherFrame
<1>3. Shapes'
      BY SMTT(30) DEF DInv, Shapes
<1>4. Owned'
      BY Zenon, <1>1 DEF DInv, Owned
<1>5. HandoffConsistent'
      BY Zenon, <1>1 DEF DInv, HandoffConsistent, Faithful
<1>6. \A e \in Events : Safe(e)' = Safe(e)
      BY Zenon, <1>1 DEF Safe
<1>7. AckedSafe'
      BY Zenon, <1>6 DEF DInv, AckedSafe
<1>8. NothingLost'
  <2>. SUFFICES ASSUME NEW e \in Reserved PROVE prow'[e] = "pending" \/ Safe(e)
       BY Zenon, <1>1, <1>6 DEF NothingLost, Safe, Reserved
  <2>1. e \in Events
        BY Zenon DEF Reserved
  <2>2. prow[e] = "pending" \/ Safe(e)
        BY Zenon DEF DInv, NothingLost, Safe
  <2>. QED  BY Zenon, <2>1, <2>2 DEF DInv, AckedSafe
<1>. QED  BY Zenon, <1>1, <1>2, <1>3, <1>4, <1>5, <1>7, <1>8 DEF DInv

\* What is on the bus, and what stays there when the waits for it have ended.
LEMMA BusFacts ==
    ASSUME DInv
    PROVE  /\ bus \in Seq(Message) /\ \A i \in DOMAIN bus : Faithful(bus[i])
           /\ Abandoned(bus) \in Seq(Message)
           /\ \A i \in DOMAIN Abandoned(bus) : Faithful(Abandoned(bus)[i])
<1>1. bus \in Seq(Message) /\ \A i \in DOMAIN bus : Faithful(bus[i])
      BY Zenon DEF DInv, Shapes, HandoffConsistent, Faithful
<1>2. \A m \in Message : [m EXCEPT !.live = FALSE] \in Message
      BY Zenon DEF Message
<1>3. Abandoned(bus) \in Seq(Message)
  <2>1. Len(bus) \in Nat /\ DOMAIN bus = 1 .. Len(bus)
        BY SMTT(30), <1>1
  <2>2. \A i \in 1 .. Len(bus) : [bus[i] EXCEPT !.live = FALSE] \in Message
        BY SMTT(30), <1>1, <1>2
  <2>. QED  BY SMTT(30), <2>1, <2>2 DEF Abandoned
<1>4. \A i \in DOMAIN bus : Faithful([bus[i] EXCEPT !.live = FALSE])
      BY SMTT(30), <1>1 DEF Faithful, Message
<1>. QED  BY Zenon, <1>1, <1>3, <1>4 DEF Abandoned

\* A step that touches only the queue, the worker's life or a flag.
LEMMA QuietFrame ==
    ASSUME DInv, UNCHANGED <<sequence, fingerprint, cursor, cloud>>,
           UNCHANGED <<apc, calls, reply, row, through>>,
           UNCHANGED <<prow, bus, acked, fresh, todo, batch, groups, rejected, receipts>>,
           held' \in Seq(Copies), queue' \in Seq(Copies)
    PROVE  DInv'
<1>1. Batched' /\ ReceiptIsDurable' /\ Owned'
      BY Zenon, AgentFrame
<1>2. Reserved' = Reserved
      BY Zenon, SameLog
<1>3. fresh' \subseteq Reserved /\ todo' \subseteq Reserved
      BY Zenon, <1>1, <1>2 DEF Owned
<1>. QED  BY SMTT(30), <1>1, <1>3, BusFacts, PublisherKeeps DEF DInv, Shapes

\* The calls of the strategy.
LEMMA OfferStep == ASSUME DInv, NEW c \in Copies, Offer(c) \/ OfferRefused(c) PROVE DInv'
<1>1. /\ UNCHANGED <<sequence, fingerprint, cursor, cloud>>
      /\ UNCHANGED <<apc, calls, reply, row, through>>
      /\ UNCHANGED <<prow, bus, acked, fresh, todo, batch, groups, rejected, receipts>>
      BY Zenon DEF Offer, OfferRefused, workerVars, attemptVars, storeVars, agentVars, agentStore,
             cloudVars
<1>2. held' \in Seq(Copies) /\ queue' \in Seq(Copies)
  <2>1. held \in Seq(Copies) /\ queue \in Seq(Copies)
        BY Zenon DEF DInv, Shapes
  <2>2. queue' = queue /\ (held' = held \/ held' = Append(held, c))
        BY Zenon DEF Offer, OfferRefused
  <2>. QED  BY SMTT(30), <2>1, <2>2
<1>. QED  BY Zenon, <1>1, <1>2, QuietFrame

\* A producer with a permit sends its copy.
LEMMA SendStep == ASSUME DInv, NEW i \in DOMAIN held, Send(i) PROVE DInv'
<1>1. /\ UNCHANGED <<sequence, fingerprint, cursor, cloud>>
      /\ UNCHANGED <<apc, calls, reply, row, through>>
      /\ UNCHANGED <<prow, bus, acked, fresh, todo, batch, groups, rejected, receipts>>
      BY Zenon DEF Send, workerVars, attemptVars, storeVars, agentVars, agentStore, cloudVars
<1>2. queue' \in Seq(Copies)
      BY SMTT(30) DEF Send, DInv, Shapes
<1>3. held' \in Seq(Copies)
  <2>1. \A j \in 1 .. Len(held) - 1 : (IF j < i THEN held[j] ELSE held[j + 1]) \in Copies
        BY SMTT(30) DEF DInv, Shapes
  <2>2. Len(held) - 1 \in Nat
        BY SMTT(30) DEF DInv, Shapes
  <2>. QED  BY SMTT(30), <2>1, <2>2 DEF Send
<1>. QED  BY Zenon, <1>1, <1>2, <1>3, QuietFrame

\* The end of the worker, the seal, and the end of a pause.
LEMMA QuietStep == ASSUME DInv, Finish \/ Seal \/ Resume PROVE DInv'
<1>1. /\ UNCHANGED <<sequence, fingerprint, cursor, cloud>>
      /\ UNCHANGED <<apc, calls, reply, row, through>>
      /\ UNCHANGED <<prow, bus, acked, fresh, todo, batch, groups, rejected, receipts>>
      /\ UNCHANGED <<held, queue>>
      BY Zenon DEF Finish, Seal, Resume, producerVars, workerVars, attemptVars, storeVars, agentVars,
             agentStore, cloudVars
<1>. QED  BY SMTT(30), <1>1, QuietFrame DEF DInv, Shapes

\* What is chosen from a set by number is part of it.
LEMMA LowestSubset == ASSUME NEW S, NEW seqs, NEW n PROVE Lowest(S, seqs, n) \subseteq S
BY SMTT(30) DEF Lowest

\* Receipts and the batch after a step that leaves them and the reservations alone.
LEMMA BatchFrame ==
    ASSUME DInv, UNCHANGED <<sequence, fingerprint, cursor, cloud>>
    PROVE  /\ UNCHANGED receipts => ReceiptIsDurable'
           /\ UNCHANGED <<batch, groups, rejected>> => Batched'
           /\ batch' = <<>> => Batched'
<1>1. Reserved' = Reserved
      BY Zenon, SameLog
<1>. QED  BY SMTT(30), <1>1 DEF DInv, Batched, Kept, ReceiptIsDurable

\* Collecting a batch, splitting a group and rejecting a copy account for every
\* copy of the batch.
LEMMA CollectStep == ASSUME DInv, Collect PROVE DInv'
<1>1. /\ UNCHANGED <<sequence, fingerprint, cursor, cloud>>
      /\ UNCHANGED <<apc, calls, reply, row, through>>
      /\ UNCHANGED <<prow, bus, acked, todo, receipts, held>> /\ fresh' = {}
      BY Zenon DEF Collect, attemptVars, storeVars, agentVars, agentStore, cloudVars
<1>2. PICK n \in 1 .. Len(queue) : /\ batch' = SubSeq(queue, 1, n)
                                   /\ groups' = <<SubSeq(queue, 1, n)>>
                                   /\ queue' = SubSeq(queue, n + 1, Len(queue))
      BY Zenon DEF Collect
<1>3. /\ queue' \in Seq(Copies) /\ batch' \in Seq(Copies)
      /\ groups' \in Seq(Seq(Copies))
      BY SMTT(30), <1>2 DEF DInv, Shapes
<1>4. Batched'
  <2>1. DOMAIN groups' = {1} /\ groups'[1] = batch'
        BY SMTT(30), <1>2
  <2>. QED  BY Zenon, <2>1 DEF Batched, Within
<1>5. ReceiptIsDurable'
      BY Zenon, <1>1, BatchFrame
<1>. QED  BY Zenon, <1>1, <1>3, <1>4, <1>5, BusFacts, PublisherKeeps DEF DInv, Shapes, Owned

\* What a sequence of groups contains is in its head or in its tail, ...
LEMMA HeadOrTail ==
    ASSUME NEW S, NEW gs \in Seq(Seq(S)), gs # <<>>, NEW c, Within(c, gs)
    PROVE  Within(c, Tail(gs)) \/ \E n \in DOMAIN Head(gs) : Head(gs)[n] = c
<1>1. PICK j \in DOMAIN gs : \E n \in DOMAIN gs[j] : gs[j][n] = c
      BY Zenon DEF Within
<1>2. /\ Tail(gs) \in Seq(Seq(S)) /\ Len(Tail(gs)) = Len(gs) - 1
      /\ \A i \in 1 .. Len(Tail(gs)) : Tail(gs)[i] = gs[i + 1]
      BY SMTT(30)
<1>3. CASE j = 1
      BY SMTT(30), <1>1, <1>3
<1>4. CASE j # 1
  <2>1. j - 1 \in DOMAIN Tail(gs) /\ Tail(gs)[j - 1] = gs[j]
        BY SMTT(30), <1>2, <1>4
  <2>. QED  BY Zenon, <1>1, <2>1 DEF Within
<1>. QED  BY Zenon, <1>3, <1>4

\* ... and stays there when the head is split.
LEMMA SplitCovers ==
    ASSUME NEW S, NEW left \in Seq(S), NEW right \in Seq(S), NEW rest \in Seq(Seq(S)), NEW c,
           Within(c, rest) \/ (\E n \in DOMAIN left : left[n] = c)
                           \/ (\E n \in DOMAIN right : right[n] = c)
    PROVE  Within(c, <<left, right>> \o rest)
<1>. DEFINE all == <<left, right>> \o rest
<1>1. <<left, right>> \in Seq(Seq(S)) /\ Len(<<left, right>>) = 2
      BY SMTT(30)
<1>2. /\ all \in Seq(Seq(S)) /\ Len(all) = 2 + Len(rest)
      /\ \A i \in 1 .. 2 + Len(rest) :
            all[i] = IF i <= 2 THEN <<left, right>>[i] ELSE rest[i - 2]
      BY SMTT(30), <1>1, Joined
<1>3. Len(rest) \in Nat /\ DOMAIN rest = 1 .. Len(rest) /\ DOMAIN all = 1 .. 2 + Len(rest)
      BY SMTT(30), <1>2
<1>4. all[1] = left /\ all[2] = right
      BY SMTT(30), <1>2, <1>3
<1>5. \A i \in DOMAIN rest : i + 2 \in DOMAIN all /\ all[i + 2] = rest[i]
      BY SMTT(30), <1>2, <1>3
<1>6. 1 \in DOMAIN all /\ 2 \in DOMAIN all
      BY SMTT(30), <1>3
<1>. HIDE DEF all
<1>7. Within(c, all)
      BY Zenon, <1>4, <1>5, <1>6 DEF Within
<1>. QED  BY Zenon, <1>7 DEF all

\* Where a refused group is cut.
LEMMA HalfBounds == \A n \in Nat : n \div 2 \in 0 .. n
BY SMTT(30)

\* The two halves of a sequence have its elements.
LEMMA Halves ==
    ASSUME NEW S, NEW g \in Seq(S), NEW h \in 0 .. Len(g)
    PROVE  /\ SubSeq(g, 1, h) \in Seq(S) /\ SubSeq(g, h + 1, Len(g)) \in Seq(S)
           /\ \A n \in DOMAIN g :
                \/ \E i \in DOMAIN SubSeq(g, 1, h) : SubSeq(g, 1, h)[i] = g[n]
                \/ \E i \in DOMAIN SubSeq(g, h + 1, Len(g)) :
                      SubSeq(g, h + 1, Len(g))[i] = g[n]
<1>. DEFINE left == SubSeq(g, 1, h)
            right == SubSeq(g, h + 1, Len(g))
<1>1. Len(g) \in Nat /\ DOMAIN g = 1 .. Len(g) /\ \A i \in 1 .. Len(g) : g[i] \in S
      BY SMTT(30)
<1>2. left \in Seq(S) /\ Len(left) = h /\ \A i \in 1 .. h : left[i] = g[i]
      BY SMTT(30)
<1>3. /\ right \in Seq(S) /\ Len(right) = Len(g) - h
      /\ \A i \in 1 .. Len(g) - h : right[i] = g[h + i]
      BY SMTT(30)
<1>. HIDE DEF left, right
<1>4. ASSUME NEW n \in DOMAIN g
      PROVE  (\E i \in DOMAIN left : left[i] = g[n]) \/ (\E i \in DOMAIN right : right[i] = g[n])
  <2>1. CASE n <= h
        BY SMTT(30), <1>1, <1>2, <2>1
  <2>2. CASE n > h
    <3>1. n - h \in DOMAIN right /\ right[n - h] = g[n]
          BY SMTT(30), <1>1, <1>3, <2>2
    <3>. QED  BY Zenon, <3>1
  <2>. QED  BY SMTT(30), <1>1, <2>1, <2>2
<1>. QED  BY Zenon, <1>2, <1>3, <1>4 DEF left, right

\* Cutting a group keeps its copies.
LEMMA SplitKeeps == ASSUME DInv, SplitGroup, NEW c, Within(c, groups) PROVE Within(c, groups')
<1>1. PICK g : g = Head(groups)
      BY Zenon
<1>2. groups \in Seq(Seq(Copies)) /\ groups # <<>>
      BY Zenon DEF DInv, Shapes, SplitGroup
<1>3. g \in Seq(Copies) /\ Len(g) \in Nat /\ Tail(groups) \in Seq(Seq(Copies))
      BY SMTT(30), <1>1, <1>2
<1>4. PICK h \in 0 .. Len(g) : groups' = <<SubSeq(g, 1, h), SubSeq(g, h + 1, Len(g))>> \o Tail(groups)
      BY Zenon, <1>1, <1>3, HalfBounds DEF SplitGroup
<1>5. SubSeq(g, 1, h) \in Seq(Copies) /\ SubSeq(g, h + 1, Len(g)) \in Seq(Copies)
      BY Zenon, <1>3, Halves
<1>6. Within(c, Tail(groups)) \/ \E n \in DOMAIN g : g[n] = c
      BY Zenon, <1>1, <1>2, HeadOrTail
<1>7. \A n \in DOMAIN g :
         \/ \E i \in DOMAIN SubSeq(g, 1, h) : SubSeq(g, 1, h)[i] = g[n]
         \/ \E i \in DOMAIN SubSeq(g, h + 1, Len(g)) : SubSeq(g, h + 1, Len(g))[i] = g[n]
      BY Zenon, <1>3, Halves
<1>8. \/ Within(c, Tail(groups))
      \/ \E n \in DOMAIN SubSeq(g, 1, h) : SubSeq(g, 1, h)[n] = c
      \/ \E n \in DOMAIN SubSeq(g, h + 1, Len(g)) : SubSeq(g, h + 1, Len(g))[n] = c
      BY Zenon, <1>6, <1>7, ZenonT(30)
<1>. QED  BY Zenon, <1>3, <1>4, <1>5, <1>8, SplitCovers

\* A refused group is cut in two: each of its copies is in one of the halves.
LEMMA SplitStep == ASSUME DInv, SplitGroup PROVE DInv'
<1>1. /\ UNCHANGED <<sequence, fingerprint, cursor, cloud>>
      /\ UNCHANGED <<apc, calls, reply, row, through>>
      /\ UNCHANGED <<prow, bus, acked, todo, receipts, fresh, batch, rejected, held, queue>>
      BY Zenon DEF SplitGroup, producerVars, attemptVars, storeVars, agentVars, agentStore, cloudVars
<1>2. groups' \in Seq(Seq(Copies))
  <2>1. PICK g : g = Head(groups)
        BY Zenon
  <2>2. groups \in Seq(Seq(Copies)) /\ groups # <<>>
        BY Zenon DEF DInv, Shapes, SplitGroup
  <2>3. g \in Seq(Copies) /\ Len(g) \in Nat /\ Tail(groups) \in Seq(Seq(Copies))
        BY SMTT(30), <2>1, <2>2
  <2>4. PICK h \in 0 .. Len(g) : groups' = <<SubSeq(g, 1, h), SubSeq(g, h + 1, Len(g))>> \o Tail(groups)
        BY Zenon, <2>1, <2>3, HalfBounds DEF SplitGroup
  <2>5. SubSeq(g, 1, h) \in Seq(Copies) /\ SubSeq(g, h + 1, Len(g)) \in Seq(Copies)
        BY Zenon, <2>3, Halves
  <2>. QED  BY SMTT(30), <2>3, <2>4, <2>5
<1>3. \A c : Within(c, groups) => Within(c, groups')
      BY Zenon, SplitKeeps
<1>4. Batched'
  <2>1. Reserved' = Reserved
        BY Zenon, <1>1, SameLog
  <2>. QED  BY Zenon, <1>1, <1>3, <2>1 DEF DInv, Batched, Kept
<1>5. ReceiptIsDurable'
      BY Zenon, <1>1, BatchFrame
<1>. QED  BY ZenonT(30), <1>1, <1>2, <1>4, <1>5, BusFacts, PublisherKeeps DEF DInv, Shapes, Owned

\* The only copy of a group is refused and its identity rejected.
LEMMA RejectStep == ASSUME DInv, RejectCopy PROVE DInv'
<1>1. /\ UNCHANGED <<sequence, fingerprint, cursor, cloud>>
      /\ UNCHANGED <<apc, calls, reply, row, through>>
      /\ UNCHANGED <<prow, bus, acked, todo, receipts, fresh, batch, held, queue>>
      BY Zenon DEF RejectCopy, producerVars, attemptVars, storeVars, agentVars, agentStore, cloudVars
<1>2. PICK g : g = Head(groups)
      BY Zenon
<1>3. groups \in Seq(Seq(Copies)) /\ groups # <<>> /\ g \in Seq(Copies)
      BY SMTT(30), <1>2 DEF DInv, Shapes, RejectCopy
<1>4. Len(g) = 1 /\ rejected' = rejected \cup {g[1].id} /\ groups' = Tail(groups)
      BY Zenon, <1>2 DEF RejectCopy
<1>5. groups' \in Seq(Seq(Copies))
      BY SMTT(30), <1>3, <1>4
<1>6. ASSUME NEW c, Within(c, groups) PROVE Within(c, groups') \/ c.id \in rejected'
  <2>1. Within(c, Tail(groups)) \/ \E n \in DOMAIN g : g[n] = c
        BY Zenon, <1>2, <1>3, <1>6, HeadOrTail
  <2>2. \A n \in DOMAIN g : n = 1
        BY SMTT(30), <1>3, <1>4
  <2>. QED  BY Zenon, <1>4, <2>1, <2>2
<1>7. Batched'
  <2>1. Reserved' = Reserved
        BY Zenon, <1>1, SameLog
  <2>. QED  BY Zenon, <1>1, <1>4, <1>6, <2>1 DEF DInv, Batched, Kept
<1>8. ReceiptIsDurable'
      BY SMTT(30), <1>1, BatchFrame
<1>. QED  BY ZenonT(30), <1>1, <1>5, <1>7, <1>8, BusFacts, PublisherKeeps DEF DInv, Shapes, Owned

\* The end of a batch: every receipt that is sent is backed by a reservation.
LEMMA DispatchStep == ASSUME DInv, Dispatch PROVE DInv'
<1>1. /\ UNCHANGED <<sequence, fingerprint, cursor, cloud>>
      /\ UNCHANGED <<apc, calls, reply, row, through>>
      /\ UNCHANGED <<prow, bus, groups, held, queue>>
      /\ batch' = <<>> /\ fresh' = {}
      BY Zenon DEF Dispatch, producerVars, storeVars, agentVars, agentStore, cloudVars
<1>2. todo' \subseteq Reserved /\ acked' \subseteq acked
  <2>1. CASE ~emergency
        BY Zenon, <2>1 DEF Dispatch, DInv, Owned, ReadyToPublish
  <2>2. CASE emergency /\ phase = "open"
    <3>1. todo' \subseteq PubPending /\ acked' = {}
          BY Zenon, <2>2, LowestSubset DEF Dispatch, BeginReplay
    <3>. QED  BY Zenon, <3>1 DEF DInv, Owned, PubPending
  <2>3. CASE emergency /\ phase = "closing"
        BY Zenon, <2>3 DEF Dispatch, DInv, Owned, attemptVars
  <2>. QED  BY Zenon, <2>1, <2>2, <2>3 DEF Dispatch
<1>3. ReceiptIsDurable'
  <2>1. Reserved' = Reserved
        BY Zenon, <1>1, SameLog
  <2>2. groups = <<>> /\ \A c : ~Within(c, groups)
        BY SMTT(30) DEF Dispatch, Within
  <2>3. \A i \in DOMAIN batch : batch[i].id \in rejected \/ Kept(batch[i])
        BY Zenon, <2>2 DEF DInv, Batched
  <2>4. \A c \in receipts' : c \in receipts \/ Kept(c)
        BY Zenon, <2>3 DEF Dispatch
  <2>. QED  BY Zenon, <1>1, <2>1, <2>4 DEF DInv, ReceiptIsDurable, Kept
<1>4. Batched'
      BY Zenon, <1>1, BatchFrame
<1>5. (held \in Seq(Copies) /\ queue \in Seq(Copies))' /\ batch' \in Seq(Copies)
      /\ (groups \in Seq(Seq(Copies)))' /\ prow' \in [Events -> {"none", "pending", "committed"}]
      BY SMTT(30), <1>1 DEF DInv, Shapes
<1>6. fresh' \subseteq Reserved
      BY Zenon, <1>1
<1>. QED  BY ZenonT(30), <1>1, <1>2, <1>3, <1>4, <1>5, <1>6, BusFacts, PublisherKeeps

\* Beginning a replay, and a publication that fails.
LEMMA ReplayStep == ASSUME DInv, ReplayTick \/ Close \/ PublishFails PROVE DInv'
<1>1. /\ UNCHANGED <<sequence, fingerprint, cursor, cloud>>
      /\ UNCHANGED <<apc, calls, reply, row, through>>
      /\ UNCHANGED <<prow, bus, batch, groups, fresh, rejected, receipts, held, queue>>
      BY Zenon DEF ReplayTick, Close, PublishFails, producerVars, workerVars, storeVars, agentVars,
             agentStore, cloudVars
<1>2. todo' \subseteq Reserved /\ acked' \subseteq acked
  <2>1. CASE BeginReplay
    <3>1. todo' \subseteq PubPending /\ acked' = {}
          BY Zenon, <2>1, LowestSubset DEF BeginReplay
    <3>. QED  BY Zenon, <3>1 DEF DInv, Owned, PubPending
  <2>2. CASE UNCHANGED attemptVars
        BY Zenon, <2>2 DEF attemptVars, DInv, Owned
  <2>3. CASE PublishFails
        BY Zenon, <2>3 DEF PublishFails, DInv, Owned
  <2>. QED  BY Zenon, <2>1, <2>2, <2>3 DEF ReplayTick, Close
<1>3. Batched' /\ ReceiptIsDurable'
      BY Zenon, <1>1, BatchFrame
<1>. QED  BY ZenonT(30), <1>1, <1>2, <1>3, BusFacts, PublisherKeeps DEF DInv, Shapes, Owned

\* A message that is published is taken from the reservation.
LEMMA PublishStep == ASSUME DInv, Publish PROVE DInv'
<1>1. /\ UNCHANGED <<sequence, fingerprint, cursor, cloud>>
      /\ UNCHANGED <<apc, calls, reply, row, through>>
      /\ UNCHANGED <<prow, acked, batch, groups, fresh, rejected, receipts, held, queue>>
      BY Zenon DEF Publish, producerVars, workerVars, storeVars, agentVars, agentStore, cloudVars
<1>2. PICK e \in Lowest(todo, sequence, 1) :
         /\ todo' = todo \ {e}
         /\ bus' = IF apc = "stopped" THEN bus
                   ELSE Append(bus, [id |-> e, seq |-> sequence[e], body |-> fingerprint[e],
                                     live |-> TRUE])
      BY Zenon DEF Publish
<1>3. e \in Reserved /\ e \in Events
      BY SMTT(30), LowestSubset DEF DInv, Owned, Reserved
<1>. DEFINE m == [id |-> e, seq |-> sequence[e], body |-> fingerprint[e], live |-> TRUE]
<1>4. m \in Message /\ Faithful(m)
      BY Zenon, <1>3 DEF DInv, Shapes, Message, Faithful
<1>. HIDE DEF m
<1>5. bus' \in Seq(Message) /\ \A i \in DOMAIN bus' : Faithful(bus'[i])
  <2>1. CASE bus' = bus
        BY Zenon, <2>1, BusFacts
  <2>2. CASE bus' = Append(bus, m)
    <3>1. bus \in Seq(Message) /\ \A i \in DOMAIN bus : Faithful(bus[i])
          BY Zenon, BusFacts
    <3>2. /\ bus' \in Seq(Message) /\ Len(bus') = Len(bus) + 1
          /\ \A i \in 1 .. Len(bus) : bus'[i] = bus[i]
          /\ bus'[Len(bus) + 1] = m
          BY SMTT(30), <1>4, <2>2, <3>1
    <3>. QED  BY SMTT(30), <1>4, <3>1, <3>2
  <2>. QED  BY ZenonT(30), <1>2, <2>1, <2>2 DEF m
<1>6. Batched' /\ ReceiptIsDurable'
      BY Zenon, <1>1, BatchFrame
<1>7. fresh' \subseteq Reserved /\ todo' \subseteq Reserved
      BY Zenon, <1>1, <1>2 DEF DInv, Owned
<1>. QED  BY ZenonT(30), <1>1, <1>5, <1>6, <1>7, PublisherKeeps DEF DInv, Shapes

\* The waits are over: what is retired was acknowledged.
LEMMA SettleStep ==
    ASSUME DInv, SettleLive \/ SettleReplay \/ RetireFails \/ PrunePublisher
    PROVE  DInv'
<1>1. /\ UNCHANGED <<sequence, fingerprint, cursor, cloud>>
      /\ UNCHANGED <<apc, calls, reply, row, through>>
      /\ UNCHANGED <<todo, batch, groups, fresh, rejected, receipts, held, queue>>
  <2>1. CASE SettleLive
        BY Zenon, <2>1 DEF SettleLive, EndAttempt, SettledVars, producerVars, workerVars, attemptVars, agentVars,
                    agentStore, cloudVars
  <2>2. CASE SettleReplay
        BY Zenon, <2>2 DEF SettleReplay, EndAttempt, SettledVars, producerVars, workerVars, attemptVars, agentVars,
                    agentStore, cloudVars
  <2>3. CASE RetireFails
        BY Zenon, <2>3 DEF RetireFails, EndAttempt, SettledVars, producerVars, workerVars, attemptVars, agentVars,
                    agentStore, cloudVars
  <2>4. CASE PrunePublisher
        BY Zenon, <2>4 DEF PrunePublisher, producerVars, workerVars, attemptVars, agentVars,
                    agentStore, cloudVars
  <2>. QED  BY Zenon, <2>1, <2>2, <2>3, <2>4
<1>2. /\ acked' \subseteq acked
      /\ bus' \in Seq(Message) /\ \A i \in DOMAIN bus' : Faithful(bus'[i])
      BY Zenon, BusFacts DEF SettleLive, SettleReplay, RetireFails, PrunePublisher, EndAttempt, attemptVars
<1>3. \A e \in Events : e \in AcceptedPrefix => e \in acked
  <2>. SUFFICES ASSUME NEW e \in Events, e \in AcceptedPrefix PROVE e \in acked
       BY Zenon
  <2>1. e \in awaiting /\ \A f \in awaiting : sequence[f] <= sequence[e] => f \in acked
        BY Zenon DEF AcceptedPrefix
  <2>2. sequence[e] <= sequence[e]
        BY SMTT(30) DEF DInv, Shapes
  <2>. QED  BY Zenon, <2>1, <2>2
<1>4. /\ prow' \in [Events -> {"none", "pending", "committed"}]
      /\ \A e \in Events : prow'[e] = "pending" => prow[e] = "pending"
      /\ \A e \in Events : prow[e] = "pending" => prow'[e] = "pending" \/ e \in acked
  <2>1. CASE SettleLive
        BY Zenon, <2>1 DEF SettleLive, Retire, DInv, Shapes
  <2>2. CASE SettleReplay
        BY Zenon, <1>3, <2>2 DEF SettleReplay, Retire, DInv, Shapes
  <2>3. CASE RetireFails
        BY SMTT(30), <2>3 DEF RetireFails, DInv, Shapes
  <2>4. CASE PrunePublisher
        BY Zenon, <2>4 DEF PrunePublisher, DInv, Shapes
  <2>. QED  BY Zenon, <2>1, <2>2, <2>3, <2>4
<1>5. Batched' /\ ReceiptIsDurable'
      BY Zenon, <1>1, BatchFrame
<1>. QED  BY ZenonT(30), <1>1, <1>2, <1>4, <1>5, PublisherKeeps DEF DInv, Shapes, Owned

\* A crash of the publisher keeps its database, and a message may be lost.
LEMMA PublisherRestartStep == ASSUME DInv, PublisherRestart PROVE DInv'
<1>1. /\ UNCHANGED <<sequence, fingerprint, cursor, cloud>>
      /\ UNCHANGED <<apc, calls, reply, row, through>> /\ UNCHANGED <<prow, receipts>>
      /\ batch' = <<>> /\ groups' = <<>> /\ held' = <<>> /\ queue' = <<>>
      /\ fresh' = {} /\ todo' = {} /\ acked' = {} /\ bus' = Abandoned(bus)
      BY Zenon DEF PublisherRestart, storeVars, agentVars, agentStore
<1>2. Batched' /\ ReceiptIsDurable'
      BY Zenon, <1>1, BatchFrame
<1>3. (held \in Seq(Copies) /\ queue \in Seq(Copies))'
      BY SMTT(30), <1>1
<1>4. (batch \in Seq(Copies) /\ groups \in Seq(Seq(Copies)))'
      BY SMTT(30), <1>1
<1>. QED  BY ZenonT(30), <1>1, <1>2, <1>3, <1>4, BusFacts, PublisherKeeps DEF DInv, Shapes

\* The bus loses a message: the others are unchanged.
LEMMA LoseStep == ASSUME DInv, NEW i \in DOMAIN bus, LoseMessage(i) PROVE DInv'
<1>1. /\ UNCHANGED <<sequence, fingerprint, cursor, cloud>>
      /\ UNCHANGED <<apc, calls, reply, row, through>>
      /\ UNCHANGED <<prow, acked, todo, batch, groups, fresh, rejected, receipts, held, queue>>
      /\ bus' = [j \in 1 .. Len(bus) - 1 |-> IF j < i THEN bus[j] ELSE bus[j + 1]]
      BY Zenon DEF LoseMessage, producerVars, workerVars, attemptVars, storeVars, agentVars,
             agentStore, cloudVars
<1>2. bus \in Seq(Message) /\ \A j \in DOMAIN bus : Faithful(bus[j])
      BY Zenon, BusFacts
<1>3. Len(bus) - 1 \in Nat /\ DOMAIN bus = 1 .. Len(bus)
      BY SMTT(30), <1>2
<1>4. \A j \in 1 .. Len(bus) - 1 : (IF j < i THEN bus[j] ELSE bus[j + 1]) \in {bus[n] : n \in DOMAIN bus}
      BY SMTT(30), <1>3
<1>5. bus' \in Seq(Message) /\ \A j \in DOMAIN bus' : Faithful(bus'[j])
  <2>1. \A j \in 1 .. Len(bus) - 1 : (IF j < i THEN bus[j] ELSE bus[j + 1]) \in Message
        BY SMTT(30), <1>2, <1>3
  <2>2. bus' \in Seq(Message)
        BY SMTT(30), <1>1, <1>3, <2>1
  <2>3. \A j \in 1 .. Len(bus) - 1 : bus'[j] \in {bus[n] : n \in DOMAIN bus}
        BY Zenon, <1>1, <1>4
  <2>4. DOMAIN bus' = 1 .. Len(bus) - 1
        BY Zenon, <1>1
  <2>. QED  BY Zenon, <1>2, <2>2, <2>3, <2>4
<1>6. Batched' /\ ReceiptIsDurable'
      BY Zenon, <1>1, BatchFrame
<1>. QED  BY ZenonT(30), <1>1, <1>5, <1>6, PublisherKeeps DEF DInv, Shapes, Owned

-----------------------------------------------------------------------------
(***************************************************************************)
(* Steps of the agent.                                                     *)
(***************************************************************************)

\* A row keeps its identity and content, becomes committed only if the cloud has
\* the event, and is dropped only then.
RowKept(old, new, e) ==
    /\ new \in AgentRow
    /\ \/ new.state # "none" /\ old.state # "none" /\ new.seq = old.seq /\ new.body = old.body
       \/ new.state = "none" /\ new.seq = 0
    /\ \/ new.state = old.state
       \/ new.state = "dead_letter"
       \/ new.state \in {"none", "committed"} /\ e \in Delivered

\* A step of the agent that leaves the cloud alone and keeps its rows.
LEMMA AgentKeeps ==
    ASSUME DInv, UNCHANGED <<sequence, fingerprint, cursor, cloud>>,
           UNCHANGED <<prow, fresh, todo, acked, held, queue, batch, groups, rejected, receipts>>,
           bus' \in {bus, <<>>},
           row' \in [Events -> AgentRow], \A e \in Events : RowKept(row[e], row'[e], e),
           through' \in Nat, through' <= Stored,
           calls' \in Seq(SUBSET Events), CallsKnown'
    PROVE  DInv'
<1>1. /\ Reserved' = Reserved /\ Delivered' = Delivered /\ Stored' = Stored
      /\ Numbered' /\ CloudIsPrefix'
      BY Zenon, SameLog
<1>2. Owned' /\ Batched' /\ ReceiptIsDurable'
      BY Zenon, AgentFrame
<1>3. Shapes'
  <2>1. bus' \in Seq(Message)
        BY Zenon, NoElements DEF DInv, Shapes
  <2>. QED  BY Zenon, <2>1 DEF DInv, Shapes
<1>4. HandoffConsistent' /\ RowsNumbered'
  <2>1. \A i \in DOMAIN bus' : bus'[i].id \in Reserved /\ bus'[i].seq = sequence[bus'[i].id]
                                /\ bus'[i].body = fingerprint[bus'[i].id]
        BY SMTT(30) DEF DInv, HandoffConsistent
  <2>2. \A e \in Events : row'[e].state # "none" =>
            e \in Reserved /\ row'[e].seq = sequence[e] /\ row'[e].body = fingerprint[e]
        BY Zenon DEF DInv, HandoffConsistent, RowKept
  <2>3. RowsNumbered'
        BY Zenon DEF RowsNumbered, RowKept
  <2>. QED  BY Zenon, <1>1, <2>1, <2>2, <2>3 DEF HandoffConsistent
<1>5. CommittedIsDelivered'
      BY Zenon, <1>1 DEF DInv, CommittedIsDelivered, RowKept
<1>6. \A e \in Events : Safe(e) => Safe(e)'
      BY Zenon, <1>1 DEF Safe, RowKept
<1>7. AckedSafe'
      BY Zenon, <1>6 DEF DInv, AckedSafe
<1>8. NothingLost'
  <2>. SUFFICES ASSUME NEW e \in Reserved PROVE prow[e] = "pending" \/ Safe(e)'
       BY Zenon, <1>1 DEF NothingLost, Safe, Reserved
  <2>1. e \in Events /\ (prow[e] = "pending" \/ Safe(e))
        BY Zenon DEF DInv, NothingLost, Safe, Reserved
  <2>. QED  BY Zenon, <1>6, <2>1
<1>. QED  BY Zenon, <1>1, <1>2, <1>3, <1>4, <1>5, <1>7, <1>8 DEF DInv

\* What a batch being sent knows stays known while rows are kept.
LEMMA KnownKept ==
    ASSUME DInv, UNCHANGED <<sequence, fingerprint, cursor, cloud>>,
           \A e \in Events : RowKept(row[e], row'[e], e),
           NEW S \in SUBSET Events, \A e \in S : row[e].state # "none" \/ e \in Delivered
    PROVE  \A e \in S : row'[e].state # "none" \/ e \in Delivered'
<1>1. Delivered' = Delivered
      BY Zenon, SameLog
<1>. QED  BY Zenon, <1>1 DEF RowKept

\* Rows that do not change are kept; backoff, commitment and dead letters keep them.
LEMMA SameRows ==
    ASSUME DInv
    PROVE  \A e \in Events : row[e] \in AgentRow /\ RowKept(row[e], row[e], e)
BY Zenon DEF DInv, Shapes, RowsNumbered, RowKept, AgentRow

\* Putting rows into backoff keeps them.
LEMMA BackoffKeeps ==
    ASSUME DInv, NEW S
    PROVE  Backoff(S) \in [Events -> AgentRow] /\ \A e \in Events : RowKept(row[e], Backoff(S)[e], e)
<1>1. \A e \in Events : RowKept(row[e], row[e], e)
      BY Zenon, SameRows
<1>2. \A e \in Events : row[e].state = "pending" => RowKept(row[e], [row[e] EXCEPT !.due = FALSE], e)
      BY ZenonT(30) DEF DInv, Shapes, RowKept, AgentRow
<1>3. \A e \in Events : RowKept(row[e], Backoff(S)[e], e)
      BY Zenon, <1>1, <1>2 DEF Backoff
<1>. QED  BY Zenon, <1>3 DEF Backoff, RowKept

\* Marking delivered rows as committed keeps what the rows promise.
LEMMA CommitKeeps ==
    ASSUME DInv, NEW S, \A e \in S : e \in Events /\ row[e].state # "none" => e \in Delivered
    PROVE  Commit(S) \in [Events -> AgentRow] /\ \A e \in Events : RowKept(row[e], Commit(S)[e], e)
<1>1. \A e \in Events : RowKept(row[e], row[e], e)
      BY Zenon, SameRows
<1>2. \A e \in Events : row[e].state # "none" /\ e \in Delivered
                            => RowKept(row[e], [row[e] EXCEPT !.state = "committed"], e)
      BY ZenonT(30) DEF DInv, Shapes, RowKept, AgentRow
<1>3. \A e \in Events : RowKept(row[e], Commit(S)[e], e)
      BY Zenon, <1>1, <1>2 DEF Commit
<1>. QED  BY Zenon, <1>3 DEF Commit, RowKept

\* The batches that are still to be sent.
LEMMA NextCallKnown ==
    ASSUME DInv, UNCHANGED <<sequence, fingerprint, cursor, cloud>>,
           \A e \in Events : RowKept(row[e], row'[e], e),
           NEW rest \in Seq(SUBSET Events),
           \A i \in DOMAIN rest : \A e \in rest[i] : row[e].state # "none" \/ e \in Delivered,
           NextCall(rest)
    PROVE  calls' \in Seq(SUBSET Events) /\ CallsKnown'
<1>1. calls' = rest \/ calls' = <<>>
      BY Zenon DEF NextCall
<1>2. calls' \in Seq(SUBSET Events)
      BY Zenon, <1>1, NoElements
<1>3. \A i \in DOMAIN rest : \A e \in rest[i] : row'[e].state # "none" \/ e \in Delivered'
      BY SMTT(30), KnownKept
<1>4. \A i \in DOMAIN calls' : \A e \in calls'[i] : row'[e].state # "none" \/ e \in Delivered'
      BY SMTT(30), <1>1, <1>3
<1>5. apc' # "reply" /\ (apc' = "call" => calls' # <<>>)
      BY Zenon DEF NextCall
<1>. QED  BY Zenon, <1>2, <1>4, <1>5 DEF CallsKnown

\* The batch that was answered and those after it.
LEMMA CallsFacts ==
    ASSUME DInv, apc = "reply"
    PROVE  /\ calls \in Seq(SUBSET Events) /\ calls # <<>>
           /\ Head(calls) \subseteq Events
           /\ \A e \in Head(calls) : row[e].state # "none" \/ e \in Delivered
           /\ \A i \in DOMAIN calls : \A e \in calls[i] : row[e].state # "none" \/ e \in Delivered
           /\ Tail(calls) \in Seq(SUBSET Events)
           /\ \A i \in DOMAIN Tail(calls) : \A e \in Tail(calls)[i] :
                row[e].state # "none" \/ e \in Delivered
<1>1. calls \in Seq(SUBSET Events) /\ calls # <<>>
      BY Zenon DEF DInv, Shapes, CallsKnown
<1>2. \A i \in DOMAIN calls : \A e \in calls[i] : row[e].state # "none" \/ e \in Delivered
      BY Zenon DEF DInv, CallsKnown
<1>3. Head(calls) = calls[1] /\ 1 \in DOMAIN calls /\ calls[1] \subseteq Events
      BY SMTT(30), <1>1
<1>4. Tail(calls) \in Seq(SUBSET Events) /\ \A i \in DOMAIN Tail(calls) :
         i + 1 \in DOMAIN calls /\ Tail(calls)[i] = calls[i + 1]
      BY SMTT(30), <1>1
<1>. QED  BY Zenon, <1>1, <1>2, <1>3, <1>4

\* The variables a step of the agent leaves alone.
LEMMA OffAgentFrame ==
    ASSUME UNCHANGED OffAgent
    PROVE  /\ UNCHANGED <<sequence, fingerprint, cursor, cloud, bus>>
           /\ UNCHANGED <<prow, fresh, todo, acked, held, queue, batch, groups, rejected, receipts>>
BY Zenon DEF OffAgent, producerVars, workerVars, attemptVars, storeVars, cloudVars

\* A batch the cloud has stored is committed.
LEMMA CommittedStep == ASSUME DInv, Committed PROVE DInv'
<1>1. /\ UNCHANGED <<sequence, fingerprint, cursor, cloud, bus>>
      /\ UNCHANGED <<prow, fresh, todo, acked, held, queue, batch, groups, rejected, receipts>>
      BY Zenon, OffAgentFrame DEF Committed
<1>2. apc = "reply" /\ reply = "ok" /\ row' = Commit(Head(calls)) /\ through' = Higher(Stored)
      BY Zenon DEF Committed
<1>3. row' \in [Events -> AgentRow] /\ \A e \in Events : RowKept(row[e], row'[e], e)
  <2>1. \A e \in Head(calls) : e \in Delivered
        BY Zenon, <1>2 DEF DInv, CallsKnown
  <2>. QED  BY Zenon, <1>2, <2>1, CommitKeeps
<1>4. through' \in Nat /\ through' <= Stored
      BY SMTT(30), <1>2 DEF Higher, Stored, DInv, Shapes, CommittedIsDelivered
<1>5. calls' \in Seq(SUBSET Events) /\ CallsKnown'
      BY Zenon, <1>1, <1>2, <1>3, CallsFacts, NextCallKnown DEF Committed
<1>. QED  BY Zenon, <1>1, <1>3, <1>4, <1>5, AgentKeeps

\* After a sequence conflict only what the remote cursor covers is committed.
LEMMA ReconciledStep == ASSUME DInv, Reconciled PROVE DInv'
<1>1. /\ UNCHANGED <<sequence, fingerprint, cursor, cloud, bus>>
      /\ UNCHANGED <<prow, fresh, todo, acked, held, queue, batch, groups, rejected, receipts>>
      BY Zenon, OffAgentFrame DEF Reconciled
<1>. DEFINE done == Covered(Head(calls))
<1>2. /\ apc = "reply"
      /\ row' = [e \in Events |-> IF e \in done THEN Commit(done)[e] ELSE Backoff(Head(calls))[e]]
      /\ through' = IF done = {} THEN through ELSE Higher(Stored)
      BY Zenon DEF Reconciled
<1>3. row' \in [Events -> AgentRow] /\ \A e \in Events : RowKept(row[e], row'[e], e)
  <2>1. \A e \in done : e \in Events /\ row[e].state # "none" => e \in Delivered
        BY Zenon DEF Covered, DInv, HandoffConsistent, Delivered
  <2>. HIDE DEF done
  <2>2. \A e \in Events : RowKept(row[e], Commit(done)[e], e)
        BY Zenon, <2>1, CommitKeeps
  <2>3. \A e \in Events : RowKept(row[e], Backoff(Head(calls))[e], e)
        BY Zenon, BackoffKeeps
  <2>4. \A e \in Events : RowKept(row[e], row'[e], e)
        BY Zenon, <1>2, <2>2, <2>3
  <2>5. \A e \in Events : row'[e] \in AgentRow
        BY ZenonT(30), <2>4 DEF RowKept
  <2>. QED  BY Zenon, <1>2, <2>4, <2>5
<1>4. through' \in Nat /\ through' <= Stored
      BY SMTT(30), <1>2 DEF Higher, Stored, DInv, Shapes, CommittedIsDelivered
<1>5. calls' \in Seq(SUBSET Events) /\ CallsKnown'
      BY ZenonT(30), <1>1, <1>2, <1>3, CallsFacts, NextCallKnown DEF Reconciled
<1>. QED  BY Zenon, <1>1, <1>3, <1>4, <1>5, AgentKeeps

\* The same batch again, a batch put into backoff, one split, one given up.
LEMMA RefreshedStep == ASSUME DInv, Refreshed PROVE DInv'
<1>1. /\ UNCHANGED <<sequence, fingerprint, cursor, cloud, bus>>
      /\ UNCHANGED <<prow, fresh, todo, acked, held, queue, batch, groups, rejected, receipts>>
      BY Zenon, OffAgentFrame DEF Refreshed
<1>2. apc = "reply" /\ row' = row /\ through' = through
      BY Zenon DEF Refreshed, agentStore
<1>3. row' \in [Events -> AgentRow] /\ \A e \in Events : RowKept(row[e], row'[e], e)
      BY Zenon, <1>2, SameRows DEF DInv, Shapes
<1>4. through' \in Nat /\ through' <= Stored
      BY Zenon, <1>2 DEF DInv, Shapes, CommittedIsDelivered
<1>5. calls' \in Seq(SUBSET Events) /\ CallsKnown'
      BY ZenonT(30), <1>1, <1>2, <1>3, CallsFacts, NextCallKnown DEF Refreshed
<1>. QED  BY Zenon, <1>1, <1>3, <1>4, <1>5, AgentKeeps

\* A transient answer: the rows of the batch wait and are sent again.
LEMMA RetriedStep == ASSUME DInv, Retried PROVE DInv'
<1>1. /\ UNCHANGED <<sequence, fingerprint, cursor, cloud, bus>>
      /\ UNCHANGED <<prow, fresh, todo, acked, held, queue, batch, groups, rejected, receipts>>
      BY Zenon, OffAgentFrame DEF Retried
<1>2. apc = "reply" /\ row' = Backoff(Head(calls)) /\ through' = through
      BY Zenon DEF Retried
<1>3. row' \in [Events -> AgentRow] /\ \A e \in Events : RowKept(row[e], row'[e], e)
      BY Zenon, <1>2, BackoffKeeps
<1>4. through' \in Nat /\ through' <= Stored
      BY Zenon, <1>2 DEF DInv, Shapes, CommittedIsDelivered
<1>5. calls' \in Seq(SUBSET Events) /\ CallsKnown'
      BY Zenon, <1>1, <1>2, <1>3, CallsFacts, NextCallKnown DEF Retried
<1>. QED  BY Zenon, <1>1, <1>3, <1>4, <1>5, AgentKeeps

\* An invalid batch of several events is cut in two.
LEMMA BisectedStep == ASSUME DInv, Bisected PROVE DInv'
<1>1. /\ UNCHANGED <<sequence, fingerprint, cursor, cloud, bus>>
      /\ UNCHANGED <<prow, fresh, todo, acked, held, queue, batch, groups, rejected, receipts>>
      BY Zenon, OffAgentFrame DEF Bisected
<1>2. apc = "reply" /\ row' = row /\ through' = through
      BY Zenon DEF Bisected, agentStore
<1>3. row' \in [Events -> AgentRow] /\ \A e \in Events : RowKept(row[e], row'[e], e)
      BY Zenon, <1>2, SameRows DEF DInv, Shapes
<1>4. through' \in Nat /\ through' <= Stored
      BY Zenon, <1>2 DEF DInv, Shapes, CommittedIsDelivered
<1>5. PICK left : /\ left \subseteq Head(calls)
                  /\ NextCall(<<left, Head(calls) \ left>> \o Tail(calls))
      BY Zenon, LowestSubset DEF Bisected
<1>. DEFINE right == Head(calls) \ left
            rest == <<left, right>> \o Tail(calls)
<1>6. /\ left \in SUBSET Events /\ right \in SUBSET Events /\ Tail(calls) \in Seq(SUBSET Events)
      /\ \A e \in left \cup right : row[e].state # "none" \/ e \in Delivered
      BY Zenon, <1>2, <1>5, CallsFacts
<1>7. \A i \in DOMAIN Tail(calls) : \A e \in Tail(calls)[i] : row[e].state # "none" \/ e \in Delivered
      BY Zenon, <1>2, CallsFacts
<1>. HIDE DEF right
<1>8. rest \in Seq(SUBSET Events)
      BY SMTT(30), <1>6
<1>9. \A i \in DOMAIN rest : \/ rest[i] = left \/ rest[i] = right
                             \/ \E j \in DOMAIN Tail(calls) : rest[i] = Tail(calls)[j]
  <2>1. <<left, right>> \in Seq(SUBSET Events) /\ Len(<<left, right>>) = 2
        BY SMTT(30), <1>6
  <2>2. /\ Len(rest) = 2 + Len(Tail(calls))
        /\ \A i \in 1 .. 2 + Len(Tail(calls)) :
              rest[i] = IF i <= 2 THEN <<left, right>>[i] ELSE Tail(calls)[i - 2]
        BY SMTT(30), <1>6, <2>1, Joined
  <2>3. \A i \in DOMAIN rest : i \in 1 .. 2 + Len(Tail(calls))
        BY SMTT(30), <1>8, <2>2
  <2>4. Len(Tail(calls)) \in Nat /\ DOMAIN Tail(calls) = 1 .. Len(Tail(calls))
        BY SMTT(30), <1>6
  <2>. HIDE DEF rest
  <2>. SUFFICES ASSUME NEW i \in DOMAIN rest
                PROVE  \/ rest[i] = left \/ rest[i] = right
                       \/ \E j \in DOMAIN Tail(calls) : rest[i] = Tail(calls)[j]
       BY Zenon
  <2>5. CASE i = 1 \/ i = 2
        BY SMTT(30), <2>2, <2>3, <2>5
  <2>6. CASE ~(i = 1 \/ i = 2)
    <3>1. i - 2 \in DOMAIN Tail(calls) /\ rest[i] = Tail(calls)[i - 2]
          BY SMTT(30), <2>2, <2>3, <2>4, <2>6
    <3>. QED  BY Zenon, <3>1
  <2>. QED  BY Zenon, <2>5, <2>6
<1>10. \A i \in DOMAIN rest : \A e \in rest[i] : row[e].state # "none" \/ e \in Delivered
  <2>. HIDE DEF rest
  <2>. QED  BY Zenon, <1>6, <1>7, <1>9
<1>11. NextCall(rest)
       BY Zenon, <1>5 DEF right
<1>12. calls' \in Seq(SUBSET Events) /\ CallsKnown'
  <2>. HIDE DEF rest
  <2>. QED  BY Zenon, <1>1, <1>3, <1>8, <1>10, <1>11, NextCallKnown
<1>. QED  BY Zenon, <1>1, <1>3, <1>4, <1>12, AgentKeeps

\* An invalid event on its own becomes a dead letter, which is kept.
LEMMA DeadLetteredStep == ASSUME DInv, DeadLettered PROVE DInv'
<1>1. /\ UNCHANGED <<sequence, fingerprint, cursor, cloud, bus>>
      /\ UNCHANGED <<prow, fresh, todo, acked, held, queue, batch, groups, rejected, receipts>>
      BY Zenon, OffAgentFrame DEF DeadLettered
<1>2. /\ apc = "reply" /\ through' = through
      /\ row' = [e \in Events |-> IF e \in Head(calls) /\ row[e].state # "none"
                                  THEN [row[e] EXCEPT !.state = "dead_letter"] ELSE row[e]]
      BY Zenon DEF DeadLettered
<1>3. row' \in [Events -> AgentRow] /\ \A e \in Events : RowKept(row[e], row'[e], e)
  <2>1. \A e \in Events : row[e].state # "none"
                            => RowKept(row[e], [row[e] EXCEPT !.state = "dead_letter"], e)
        BY ZenonT(30) DEF DInv, Shapes, RowKept, AgentRow
  <2>2. \A e \in Events : RowKept(row[e], row'[e], e)
        BY Zenon, <1>2, <2>1, SameRows
  <2>. QED  BY Zenon, <1>2, <2>2 DEF RowKept
<1>4. through' \in Nat /\ through' <= Stored
      BY Zenon, <1>2 DEF DInv, Shapes, CommittedIsDelivered
<1>5. calls' \in Seq(SUBSET Events) /\ CallsKnown'
      BY Zenon, <1>1, <1>2, <1>3, CallsFacts, NextCallKnown DEF DeadLettered
<1>. QED  BY Zenon, <1>1, <1>3, <1>4, <1>5, AgentKeeps

\* The worker between two flushes, and the end of the agent's process.
LEMMA AgentQuietStep ==
    ASSUME DInv, Arm \/ ReadDeadline \/ Wake \/ AgentRestart \/ AgentStop
    PROVE  DInv'
<1>1. /\ UNCHANGED <<sequence, fingerprint, cursor, cloud>> /\ bus' \in {bus, <<>>}
      /\ UNCHANGED <<prow, fresh, todo, acked, held, queue, batch, groups, rejected, receipts>>
      /\ UNCHANGED <<row, through>>
      BY Zenon DEF Arm, ReadDeadline, Wake, AgentRestart, AgentStop, producerVars, workerVars,
             attemptVars, storeVars, agentStore, cloudVars
<1>2. apc' \notin {"call", "reply"} /\ calls' \in {calls, <<>>}
      BY Zenon DEF Arm, ReadDeadline, Wake, AgentRestart, AgentStop
<1>3. row' \in [Events -> AgentRow] /\ \A e \in Events : RowKept(row[e], row'[e], e)
      BY Zenon, <1>1, SameRows DEF DInv, Shapes
<1>4. through' \in Nat /\ through' <= Stored
      BY Zenon, <1>1 DEF DInv, Shapes, CommittedIsDelivered
<1>5. calls' \in Seq(SUBSET Events)
      BY Zenon, <1>2, NoElements DEF DInv, Shapes
<1>6. CallsKnown'
  <2>1. Delivered' = Delivered
        BY Zenon, <1>1, SameLog
  <2>2. \A i \in DOMAIN calls' : \A e \in calls'[i] : row[e].state # "none" \/ e \in Delivered
        BY SMTT(30), <1>2 DEF DInv, CallsKnown
  <2>. QED  BY Zenon, <1>1, <1>2, <2>1, <2>2 DEF CallsKnown
<1>. QED  BY Zenon, <1>1, <1>3, <1>4, <1>5, <1>6, AgentKeeps

\* A flush sends pending rows.
LEMMA FlushStep == ASSUME DInv, Flush PROVE DInv'
<1>1. /\ UNCHANGED <<sequence, fingerprint, cursor, cloud, bus>>
      /\ UNCHANGED <<prow, fresh, todo, acked, held, queue, batch, groups, rejected, receipts>>
      /\ UNCHANGED through
      BY Zenon DEF Flush, producerVars, workerVars, attemptVars, storeVars, cloudVars
<1>2. PICK records : /\ records \subseteq Pending
                     /\ \/ row' = Backoff(records) /\ apc' = "deadline" /\ calls' = calls
                        \/ row' = row /\ apc' = "call" /\ calls' = <<records>>
  <2>1. Lowest(DueRows, RowSeq, AgentBatch) \subseteq Pending
        BY Zenon, LowestSubset DEF DueRows
  <2>. QED  BY Zenon, <2>1 DEF Flush
<1>3. row' \in [Events -> AgentRow] /\ \A e \in Events : RowKept(row[e], row'[e], e)
      BY Zenon, <1>2, SameRows, BackoffKeeps DEF DInv, Shapes
<1>4. through' \in Nat /\ through' <= Stored
      BY Zenon, <1>1 DEF DInv, Shapes, CommittedIsDelivered
<1>5. CASE row' = Backoff(records) /\ apc' = "deadline" /\ calls' = calls
  <2>1. calls' \in Seq(SUBSET Events)
        BY Zenon, <1>5 DEF DInv, Shapes
  <2>2. \A i \in DOMAIN calls : calls[i] \in SUBSET Events
        BY SMTT(30) DEF DInv, Shapes
  <2>3. \A i \in DOMAIN calls : \A e \in calls[i] : row'[e].state # "none" \/ e \in Delivered'
        BY Zenon, <1>1, <1>3, <2>2, KnownKept DEF DInv, CallsKnown
  <2>4. CallsKnown'
        BY Zenon, <1>5, <2>3 DEF CallsKnown
  <2>. QED  BY Zenon, <1>1, <1>3, <1>4, <2>1, <2>4, AgentKeeps
<1>6. CASE row' = row /\ apc' = "call" /\ calls' = <<records>>
  <2>1. records \in SUBSET Events /\ \A e \in records : row[e].state # "none"
        BY Zenon, <1>2 DEF Pending
  <2>2. calls' \in Seq(SUBSET Events)
        BY SMTT(30), <1>6, <2>1
  <2>3. calls' # <<>> /\ \A i \in DOMAIN calls' : calls'[i] = records
        BY SMTT(30), <1>6
  <2>4. CallsKnown'
        BY Zenon, <1>6, <2>1, <2>3 DEF CallsKnown
  <2>. QED  BY Zenon, <1>1, <1>3, <1>4, <2>2, <2>4, AgentKeeps
<1>. QED  BY Zenon, <1>2, <1>5, <1>6

\* Time, and the pruning of a row the cloud has.
LEMMA RowStep == ASSUME DInv, NEW f \in Events, RetryDue(f) \/ PruneAgent(f) PROVE DInv'
<1>1. /\ UNCHANGED <<sequence, fingerprint, cursor, cloud, bus>>
      /\ UNCHANGED <<prow, fresh, todo, acked, held, queue, batch, groups, rejected, receipts>>
      /\ UNCHANGED <<through, apc, calls, reply>>
      BY Zenon DEF RetryDue, PruneAgent, producerVars, workerVars, attemptVars, storeVars, agentVars,
             cloudVars
<1>2. row' \in [Events -> AgentRow] /\ \A e \in Events : RowKept(row[e], row'[e], e)
  <2>1. CASE RetryDue(f)
    <3>1. row[f].state = "pending" /\ row' = [row EXCEPT ![f] = [row[f] EXCEPT !.due = TRUE]]
          BY Zenon, <2>1 DEF RetryDue
    <3>2. RowKept(row[f], [row[f] EXCEPT !.due = TRUE], f)
          BY ZenonT(30), <3>1 DEF DInv, Shapes, RowKept, AgentRow
    <3>3. \A e \in Events : RowKept(row[e], row'[e], e)
          BY Zenon, <3>1, <3>2, SameRows DEF DInv, Shapes
    <3>. QED  BY Zenon, <3>1, <3>3 DEF RowKept, DInv, Shapes
  <2>2. CASE PruneAgent(f)
    <3>1. row[f].state = "committed" /\ row' = [row EXCEPT ![f] = NoRow]
          BY Zenon, <2>2 DEF PruneAgent
    <3>2. RowKept(row[f], NoRow, f)
          BY Zenon, <3>1 DEF DInv, CommittedIsDelivered, RowKept, AgentRow, NoRow
    <3>3. \A e \in Events : RowKept(row[e], row'[e], e)
          BY Zenon, <3>1, <3>2, SameRows DEF DInv, Shapes
    <3>. QED  BY Zenon, <3>1, <3>3 DEF RowKept, DInv, Shapes
  <2>. QED  BY Zenon, <2>1, <2>2
<1>3. through' \in Nat /\ through' <= Stored
      BY ZenonT(30), <1>1 DEF DInv, Shapes, CommittedIsDelivered
<1>4. calls' \in Seq(SUBSET Events) /\ \A i \in DOMAIN calls : calls[i] \in SUBSET Events
      BY SMTT(30), <1>1 DEF DInv, Shapes
<1>5. CallsKnown'
  <2>1. \A i \in DOMAIN calls : \A e \in calls[i] : row'[e].state # "none" \/ e \in Delivered'
        BY Zenon, <1>1, <1>2, <1>4, KnownKept DEF DInv, CallsKnown
  <2>2. Delivered' = Delivered
        BY Zenon, <1>1, SameLog
  <2>. QED  BY Zenon, <1>1, <2>1, <2>2 DEF DInv, CallsKnown
<1>. QED  BY Zenon, <1>1, <1>2, <1>3, <1>4, <1>5, AgentKeeps

(***************************************************************************)
(* The cloud stores a batch.                                               *)
(***************************************************************************)

\* What is stored extends what was stored, and every new entry is a row of the
\* batch.
LEMMA StoreFacts ==
    ASSUME DInv, NEW S \in SUBSET Events, CloudStores(S),
           \A e \in S : row[e].state # "none" \/ e \in Delivered
    PROVE  /\ cloud' \in Seq(Entry)
           /\ Len(cloud') >= Len(cloud)
           /\ \A n \in 1 .. Len(cloud) : cloud'[n] = cloud[n]
           /\ \A n \in 1 .. Len(cloud') : n > Len(cloud) =>
                  \E e \in S : /\ row[e].state # "none" /\ sequence[e] = n
                               /\ cloud'[n] = [id |-> e, body |-> fingerprint[e]]
           /\ \A e \in S : e \in Reserved /\ sequence[e] <= Len(cloud')
<1>1. /\ Len(cloud) \in Nat /\ cloud \in Seq(Entry)
      /\ \A e \in Events : row[e].seq \in Nat /\ fingerprint[e] \in Bodies \cup {NoBody}
      BY SMTT(30) DEF DInv, Shapes, AgentRow
<1>2. PICK last \in {row[e].seq : e \in S} \cup {Stored} :
         /\ Stored <= last /\ \A e \in S : row[e].seq <= last
         /\ cloud' = [n \in 1 .. last |->
                        IF n <= Stored THEN cloud[n]
                        ELSE LET e == CHOOSE f \in S : row[f].seq = n
                             IN [id |-> e, body |-> row[e].body]]
      BY Zenon DEF CloudStores
<1>3. last \in Nat /\ Stored = Len(cloud)
      BY Zenon, <1>1, <1>2 DEF Stored
<1>4. ASSUME NEW n \in 1 .. last, n > Len(cloud)
      PROVE  \E e \in S : /\ row[e].state # "none" /\ sequence[e] = n
                          /\ cloud'[n] = [id |-> e, body |-> fingerprint[e]]
  <2>1. PICK d \in S : row[d].seq = last
        BY SMTT(30), <1>2, <1>3, <1>4
  <2>2. \E f \in S : row[f].seq = n
        BY SMTT(30), <1>1, <1>3, <1>4, <2>1 DEF CloudStores, Continues
  <2>3. PICK e \in S : row[e].seq = n /\ e = CHOOSE f \in S : row[f].seq = n
        BY Zenon, <2>2
  <2>4. cloud'[n] = [id |-> e, body |-> row[e].body]
        BY SMTT(30), <1>2, <1>3, <1>4, <2>3
  <2>5. row[e].state # "none"
        BY SMTT(30), <1>4, <2>3 DEF DInv, RowsNumbered
  <2>6. sequence[e] = n /\ row[e].body = fingerprint[e]
        BY ZenonT(30), <2>3, <2>5 DEF DInv, HandoffConsistent
  <2>. QED  BY Zenon, <2>4, <2>5, <2>6
<1>5. \A n \in 1 .. Len(cloud) : n \in 1 .. last /\ cloud'[n] = cloud[n]
      BY SMTT(30), <1>1, <1>2, <1>3
<1>6. \A n \in 1 .. last : cloud'[n] \in Entry
  <2>. SUFFICES ASSUME NEW n \in 1 .. last
                PROVE  cloud'[n] \in Entry
       BY Zenon
  <2>1. CASE n <= Len(cloud)
    <3>1. n \in 1 .. Len(cloud) /\ cloud'[n] = cloud[n]
          BY SMTT(30), <1>1, <1>3, <1>5, <2>1
    <3>. QED  BY SMTT(30), <1>1, <3>1
  <2>2. CASE n > Len(cloud)
    <3>1. PICK e \in S : cloud'[n] = [id |-> e, body |-> fingerprint[e]]
          BY ZenonT(30), <1>4, <2>2
    <3>. QED  BY SMTT(30), <1>1, <3>1 DEF Entry
  <2>. QED  BY SMTT(30), <1>1, <1>3, <2>1, <2>2
<1>7. DOMAIN cloud' = 1 .. last /\ cloud' = [n \in 1 .. last |-> cloud'[n]]
      BY Zenon, <1>2
<1>8. cloud' \in Seq(Entry) /\ Len(cloud') = last
  <2>1. cloud' \in Seq(Entry)
        BY SMTT(30), <1>3, <1>6, <1>7
  <2>2. DOMAIN cloud' = 1 .. Len(cloud') /\ Len(cloud') \in Nat
        BY SMTT(30), <2>1
  <2>. QED  BY SMTT(30), <1>3, <1>7, <2>1, <2>2
<1>9. \A e \in S : e \in Reserved /\ sequence[e] <= last
  <2>. SUFFICES ASSUME NEW e \in S PROVE e \in Reserved /\ sequence[e] <= last
       BY Zenon
  <2>1. CASE row[e].state # "none"
        BY ZenonT(30), <1>2, <2>1 DEF DInv, HandoffConsistent
  <2>2. CASE e \in Delivered
        BY SMTT(30), <1>1, <1>2, <1>3, <2>2 DEF Delivered, Reserved, DInv, Shapes
  <2>. QED  BY Zenon, <2>1, <2>2
<1>10. Len(cloud') >= Len(cloud)
       BY ZenonT(30), <1>1, <1>2, <1>3, <1>8
<1>11. \A n \in 1 .. Len(cloud') : n > Len(cloud) =>
          \E e \in S : /\ row[e].state # "none" /\ sequence[e] = n
                       /\ cloud'[n] = [id |-> e, body |-> fingerprint[e]]
       BY Zenon, <1>4, <1>8
<1>. QED  BY Zenon, <1>5, <1>8, <1>9, <1>10, <1>11

\* The answer to a call extends what is stored, or leaves it alone.
LEMMA CloudGrows ==
    ASSUME DInv, NEW answer, CloudAnswers(answer)
    PROVE  /\ cloud' \in Seq(Entry) /\ Len(cloud') >= Len(cloud)
           /\ \A n \in 1 .. Len(cloud) : cloud'[n] = cloud[n]
           /\ \A n \in 1 .. Len(cloud') : n > Len(cloud) =>
                  \E e \in Head(calls) : /\ row[e].state # "none" /\ sequence[e] = n
                                         /\ cloud'[n] = [id |-> e, body |-> fingerprint[e]]
           /\ calls # <<>>
           /\ answer = "ok" => \A e \in Head(calls) : e \in Reserved /\ sequence[e] <= Len(cloud')
<1>1. calls \in Seq(SUBSET Events) /\ calls # <<>>
      BY Zenon DEF CloudAnswers, DInv, Shapes, CallsKnown
<1>2. Head(calls) = calls[1] /\ 1 \in DOMAIN calls /\ calls[1] \in SUBSET Events
      BY SMTT(30), <1>1
<1>3. PICK S \in SUBSET Events : /\ S = Head(calls)
                                 /\ \A e \in S : row[e].state # "none" \/ e \in Delivered
      BY Zenon, <1>2 DEF DInv, CallsKnown
<1>4. /\ cloud' = cloud \/ CloudStores(S)
      /\ answer = "ok" => CloudStores(S)
  <2>1. "ok" \notin CloudErrors
        BY Zenon, DeliveryAssumption
  <2>. QED  BY Zenon, <1>3, <2>1 DEF CloudAnswers
<1>5. CASE CloudStores(S)
      BY ZenonT(30), <1>1, <1>3, <1>5, StoreFacts
<1>6. CASE cloud' = cloud /\ answer # "ok"
  <2>1. cloud \in Seq(Entry) /\ Len(cloud) \in Nat
        BY SMTT(30) DEF DInv, Shapes
  <2>. QED  BY SMTT(30), <1>1, <1>6, <2>1
<1>. QED  BY Zenon, <1>4, <1>5, <1>6

\* Only what is stored changes, and it grows.
LEMMA CloudStep == ASSUME DInv, NEW answer, CloudAnswers(answer) PROVE DInv'
<1>1. /\ UNCHANGED <<sequence, fingerprint, cursor>>
      /\ UNCHANGED <<prow, fresh, todo, acked, held, queue, batch, groups, rejected, receipts>>
      /\ UNCHANGED <<bus, row, through, calls>>
      /\ apc = "call" /\ apc' = "reply" /\ reply' = answer
      BY Zenon DEF CloudAnswers, producerVars, workerVars, attemptVars, storeVars, agentStore
<1>2. PICK S : /\ S = Head(calls) /\ calls # <<>>
               /\ answer = "ok" => \A e \in S : e \in Reserved /\ sequence[e] <= Len(cloud')
      BY Zenon, CloudGrows
<1>3. cloud' \in Seq(Entry) /\ Len(cloud) \in Nat /\ Len(cloud') \in Nat
  <2>1. cloud' \in Seq(Entry)
        BY Zenon, CloudGrows
  <2>. QED  BY SMTT(30), <2>1 DEF DInv, Shapes
<1>4. /\ Len(cloud') >= Len(cloud)
      /\ \A n \in 1 .. Len(cloud) : cloud'[n] = cloud[n]
      /\ \A n \in 1 .. Len(cloud') : n > Len(cloud) =>
             \E e \in S : /\ row[e].state # "none" /\ sequence[e] = n
                          /\ cloud'[n] = [id |-> e, body |-> fingerprint[e]]
      BY Zenon, <1>2, CloudGrows
<1>5. Reserved' = Reserved /\ Delivered \subseteq Delivered' /\ Stored <= Stored'
  <2>1. Reserved' = Reserved
        BY Zenon, <1>1 DEF Reserved
  <2>2. Stored <= Stored' /\ Stored \in Nat /\ Stored' \in Nat
    <3>. DEFINE m == Len(cloud)  n == Len(cloud')
    <3>1. n >= m /\ m \in Nat /\ n \in Nat
          BY Zenon, <1>3, <1>4
    <3>. HIDE DEF m, n
    <3>2. m <= n
          BY SMTT(30), <3>1
    <3>. QED  BY Zenon, <1>3, <3>2 DEF Stored, m, n
  <2>3. Delivered \subseteq Delivered'
    <3>. SUFFICES ASSUME NEW e \in Reserved, sequence[e] <= Stored PROVE sequence[e] <= Stored'
         BY ZenonT(30), <1>1, <2>1 DEF Delivered
    <3>1. sequence[e] \in Nat
          BY Zenon DEF DInv, Shapes, Reserved
    <3>. QED  BY Zenon, <2>2, <3>1, AtMost
  <2>. QED  BY Zenon, <2>1, <2>2, <2>3
<1>6. answer = "ok" => \A e \in S : e \in Delivered'
      BY Zenon, <1>1, <1>2, <1>5 DEF Delivered, Stored
<1>7. Shapes' /\ Numbered'
      BY Zenon, <1>1, <1>3, <1>5 DEF DInv, Shapes, Numbered
<1>8. Owned' /\ Batched' /\ ReceiptIsDurable'
      BY Zenon, <1>1, <1>5 DEF DInv, Owned, Batched, Kept, ReceiptIsDurable
<1>9. HandoffConsistent' /\ RowsNumbered'
      BY Zenon, <1>1, <1>5 DEF DInv, HandoffConsistent, RowsNumbered
<1>10. CloudIsPrefix'
  <2>. SUFFICES ASSUME NEW n \in 1 .. Len(cloud')
                PROVE  sequence[cloud'[n].id] = n /\ fingerprint[cloud'[n].id] = cloud'[n].body
       BY Zenon, <1>1 DEF CloudIsPrefix
  <2>1. CASE n <= Len(cloud)
    <3>1. n \in 1 .. Len(cloud)
          BY SMTT(30), <1>3, <2>1
    <3>. QED  BY Zenon, <1>4, <3>1 DEF DInv, CloudIsPrefix
  <2>2. CASE n > Len(cloud)
    <3>1. PICK e \in S : sequence[e] = n /\ cloud'[n] = [id |-> e, body |-> fingerprint[e]]
          BY Zenon, <1>4, <2>2
    <3>2. cloud'[n].id = e /\ cloud'[n].body = fingerprint[e]
          BY SMTT(30), <3>1
    <3>. QED  BY Zenon, <3>1, <3>2
  <2>. QED  BY SMTT(30), <1>3, <2>1, <2>2
<1>11. CommittedIsDelivered'
       BY SMTT(30), <1>1, <1>3, <1>4, <1>5 DEF DInv, Shapes, CommittedIsDelivered, Stored
<1>12. CallsKnown'
       BY Zenon, <1>1, <1>2, <1>5, <1>6 DEF DInv, CallsKnown
<1>13. AckedSafe' /\ NothingLost'
       BY Zenon, <1>1, <1>5 DEF DInv, AckedSafe, Safe, NothingLost
<1>. QED  BY Zenon, <1>7, <1>8, <1>9, <1>10, <1>11, <1>12, <1>13 DEF DInv

=============================================================================
