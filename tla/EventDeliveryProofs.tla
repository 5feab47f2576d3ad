------------------------ MODULE EventDeliveryProofs ------------------------
(***************************************************************************)
(* Proofs about EventDelivery, for any events, bodies, batch sizes, queue  *)
(* limits and any number of crashes and faults: nothing that was reserved  *)
(* is lost, every copy agrees with its reservation, what the agent commits *)
(* the cloud has, the pipeline implements the ordered log, a sealed run is *)
(* complete, and no pending payload is forgotten.                          *)
(***************************************************************************)
EXTENDS EventDeliverySteps, FiniteSums

(***************************************************************************)
(* The publisher reserves a group.                                         *)
(***************************************************************************)

\* Numbers that cover an interval as long as the set are given out once each.
LEMMA NumbersDiffer ==
    ASSUME NEW S, IsFiniteSet(S), NEW c \in Nat,
           NEW number \in [S -> (c + 1) .. (c + Cardinality(S))],
           {number[e] : e \in S} = (c + 1) .. (c + Cardinality(S))
    PROVE  \A e, f \in S : number[e] = number[f] => e = f
<1>. DEFINE T == (c + 1) .. (c + Cardinality(S))
<1>1. Cardinality(S) \in Nat
      BY Zenon, FS_CardinalityType
<1>2. PICK a \in Int, b \in Int : a = c + 1 /\ b = c + Cardinality(S)
      BY SMTT(30), <1>1
<1>3. Cardinality(T) = Cardinality(S)
  <2>1. Cardinality(a .. b) = IF a > b THEN 0 ELSE b - a + 1
        BY Zenon, FS_Interval
  <2>2. (IF a > b THEN 0 ELSE b - a + 1) = Cardinality(S)
        BY SMTT(30), <1>1, <1>2
  <2>. QED  BY Zenon, <1>2, <2>1, <2>2
<1>. HIDE DEF T
<1>4. number \in Surjection(S, T)
  <2>1. \A t \in T : \E e \in S : number[e] = t
        BY Zenon DEF T
  <2>. QED  BY Zenon, <2>1 DEF Surjection, T
<1>5. number \in Injection(S, T)
      BY Zenon, <1>3, <1>4, FS_SurjSameCardinalityImpliesInj
<1>. QED  BY Zenon, <1>5 DEF Injection, IsInjective

\* What the transaction on group g does to the reservations.
Reserves(g, new) ==
    /\ new \subseteq Events /\ \A e \in new : sequence[e] = 0
    /\ cursor' \in Nat /\ cursor <= cursor'
    /\ sequence' \in [Events -> Nat]
    /\ \A e \in Events \ new : sequence'[e] = sequence[e] /\ fingerprint'[e] = fingerprint[e]
                               /\ prow'[e] = prow[e]
    /\ \A e \in new : sequence'[e] \in (cursor + 1) .. cursor' /\ prow'[e] = "pending"
    /\ \A e, f \in new : sequence'[e] = sequence'[f] => e = f
    /\ \A n \in (cursor + 1) .. cursor' : \E e \in new : sequence'[e] = n
    /\ fingerprint' \in [Events -> Bodies \cup {NoBody}]
    /\ prow' \in [Events -> {"none", "pending", "committed"}]
    /\ fresh' = fresh \cup new
    /\ \A i \in DOMAIN g : /\ g[i].id \in new \/ sequence[g[i].id] # 0
                           /\ fingerprint'[g[i].id] = g[i].body

\* What a reservation changes, in the terms of Reserves.
LEMMA ReserveFacts ==
    ASSUME DInv, ReserveGroup
    PROVE  Reserves(Head(groups), Unreserved(Head(groups)))
<1>. DEFINE g == Head(groups)
            new == Unreserved(g)
            last == cursor + Cardinality(new)
<1>1. PICK number \in [new -> (cursor + 1) .. last] :
         /\ {number[e] : e \in new} = (cursor + 1) .. last
         /\ sequence' = [e \in Events |-> IF e \in new THEN number[e] ELSE sequence[e]]
      BY Zenon DEF ReserveGroup
<1>2. /\ fingerprint' = [e \in Events |-> IF e \in new THEN BodyFor(g, e) ELSE fingerprint[e]]
      /\ cursor' = last
      /\ prow' = [e \in Events |-> IF e \in new THEN "pending" ELSE prow[e]]
      /\ fresh' = fresh \cup new
      /\ ~Conflicts(g)
      BY ZenonT(30) DEF ReserveGroup
<1>3. groups \in Seq(Seq(Copies)) /\ groups # <<>> /\ g \in Seq(Copies)
      BY SMTT(30) DEF ReserveGroup, DInv, Shapes
<1>4. \A i \in DOMAIN g : g[i] \in Copies
      BY SMTT(30), <1>3
<1>. HIDE DEF g
<1>5. /\ new \subseteq Events /\ \A e \in new : sequence[e] = 0 /\ \E i \in DOMAIN g : g[i].id = e
      /\ \A i \in DOMAIN g : g[i].id \in Events /\ g[i].body \in Bodies
                             /\ (g[i].id \in new \/ sequence[g[i].id] # 0)
  <2>1. \A c \in Copies : c.id \in Events /\ c.body \in Bodies
        BY Zenon DEF Copies
  <2>. QED  BY Zenon, <1>4, <2>1 DEF Unreserved
<1>6. \A i \in DOMAIN g : g[i].body = BodyFor(g, g[i].id)
      BY Zenon, <1>2 DEF Conflicts
<1>. HIDE DEF new
<1>7. IsFiniteSet(new) /\ Cardinality(new) \in Nat
      BY ZenonT(30), <1>5, DeliveryAssumption, FS_Subset, FS_CardinalityType
<1>8. cursor \in Nat /\ sequence \in [Events -> Nat] /\ fingerprint \in [Events -> Bodies \cup {NoBody}]
      /\ prow \in [Events -> {"none", "pending", "committed"}]
      BY Zenon DEF DInv, Shapes
<1>9. \A e, f \in new : number[e] = number[f] => e = f
      BY ZenonT(30), <1>1, <1>7, <1>8, NumbersDiffer
<1>10. last \in Nat /\ cursor <= last
       BY SMTT(30), <1>7, <1>8
<1>. HIDE DEF last
<1>11. \A e \in new : sequence'[e] = number[e] /\ number[e] \in (cursor + 1) .. last
       BY Zenon, <1>1, <1>5
<1>12. sequence' \in [Events -> Nat]
  <2>1. \A e \in Events : (IF e \in new THEN number[e] ELSE sequence[e]) \in Nat
        BY SMTT(30), <1>8, <1>10, <1>11
  <2>. QED  BY Zenon, <1>1, <2>1
<1>13. \A n \in (cursor + 1) .. last : \E e \in new : sequence'[e] = n
       BY Zenon, <1>1, <1>11
<1>14. \A e \in new : BodyFor(g, e) \in Bodies
       BY SMTT(30), <1>5, <1>6
<1>15. fingerprint' \in [Events -> Bodies \cup {NoBody}]
       BY ZenonT(30), <1>2, <1>8, <1>14
<1>16. \A i \in DOMAIN g : fingerprint'[g[i].id] = g[i].body
  <2>. SUFFICES ASSUME NEW i \in DOMAIN g PROVE fingerprint'[g[i].id] = g[i].body
       BY Zenon
  <2>1. CASE g[i].id \in new
        BY ZenonT(30), <1>2, <1>5, <1>6, <2>1
  <2>2. CASE g[i].id \notin new
        BY ZenonT(30), <1>2, <1>5, <1>6, <2>2 DEF BodyFor
  <2>. QED  BY Zenon, <2>1, <2>2
<1>17. \A e \in Events \ new : sequence'[e] = sequence[e] /\ fingerprint'[e] = fingerprint[e]
                               /\ prow'[e] = prow[e]
       BY ZenonT(30), <1>1, <1>2
<1>18. prow' \in [Events -> {"none", "pending", "committed"}] /\ \A e \in new : prow'[e] = "pending"
       BY ZenonT(30), <1>2, <1>5, <1>8
<1>19. \A e, f \in new : sequence'[e] = sequence'[f] => e = f
       BY ZenonT(30), <1>9, <1>11
<1>. QED  BY ZenonT(30), <1>2, <1>5, <1>10, <1>11, <1>12, <1>13, <1>15, <1>16, <1>17, <1>18, <1>19
             DEF Reserves, g, new

\* A group is reserved: new events get the next numbers and their payload rows.
LEMMA ReserveStep == ASSUME DInv, ReserveGroup PROVE DInv'
<1>1. PICK g, new : g = Head(groups) /\ Reserves(g, new)
      BY Zenon, ReserveFacts
<1>2. /\ UNCHANGED <<todo, acked, held, queue, batch, rejected, receipts>>
      /\ UNCHANGED <<bus, row, through, calls, apc, reply, cloud>>
      /\ groups # <<>> /\ groups' = Tail(groups)
      BY Zenon DEF ReserveGroup, producerVars, attemptVars, agentVars, agentStore, cloudVars
<1>3. cursor \in Nat /\ sequence \in [Events -> Nat] /\ groups \in Seq(Seq(Copies))
      BY Zenon DEF DInv, Shapes
<1>4. /\ Reserved \subseteq Events /\ new \subseteq Reserved' /\ Reserved \subseteq Reserved'
      /\ Reserved' \subseteq Reserved \cup new
      /\ \A e \in Reserved : e \notin new /\ sequence'[e] = sequence[e]
                             /\ fingerprint'[e] = fingerprint[e] /\ prow'[e] = prow[e]
      BY SMTT(30), <1>1, <1>3 DEF Reserved, Reserves
<1>5. Delivered \subseteq Delivered' /\ Stored' = Stored
      BY Zenon, <1>2, <1>4 DEF Delivered, Stored
<1>6. Shapes'
  <2>1. groups' \in Seq(Seq(Copies))
        BY SMTT(30), <1>2, <1>3
  <2>. QED  BY ZenonT(30), <1>1, <1>2, <2>1 DEF DInv, Shapes, Reserves
<1>7. Numbered'
  <2>1. \A e \in Events : sequence'[e] <= cursor'
        BY SMTT(30), <1>1, <1>3 DEF DInv, Numbered, Reserves
  <2>2. \A e, f \in Reserved' : sequence'[e] = sequence'[f] => e = f
    <3>. SUFFICES ASSUME NEW e \in Reserved', NEW f \in Reserved', sequence'[e] = sequence'[f]
                  PROVE  e = f
         BY Zenon
    <3>1. \A d \in Reserved : sequence'[d] <= cursor
          BY Zenon, <1>4 DEF DInv, Numbered
    <3>2. \A d \in new : sequence'[d] \in (cursor + 1) .. cursor'
          BY Zenon, <1>1 DEF Reserves
    <3>3. CASE e \in new /\ f \in new
          BY ZenonT(30), <1>1, <3>3 DEF Reserves
    <3>4. CASE e \in Reserved /\ f \in Reserved
          BY ZenonT(30), <1>4, <3>4 DEF DInv, Numbered
    <3>5. CASE (e \in new /\ f \in Reserved) \/ (e \in Reserved /\ f \in new)
          BY SMTT(30), <1>1, <1>3, <3>1, <3>2, <3>5 DEF Reserves
    <3>. QED  BY ZenonT(30), <1>4, <3>3, <3>4, <3>5
  <2>3. \A n \in 1 .. cursor' : \E e \in Events : sequence'[e] = n
    <3>. SUFFICES ASSUME NEW n \in 1 .. cursor' PROVE \E e \in Events : sequence'[e] = n
         BY Zenon
    <3>1. CASE n <= cursor
      <4>1. PICK e \in Events : sequence[e] = n
            BY SMTT(30), <1>3, <3>1 DEF DInv, Numbered
      <4>2. e \in Reserved
            BY SMTT(30), <4>1 DEF Reserved
      <4>. QED  BY ZenonT(30), <1>4, <4>1, <4>2
    <3>2. CASE n > cursor
      <4>1. n \in (cursor + 1) .. cursor'
            BY SMTT(30), <1>1, <1>3, <3>2 DEF Reserves
      <4>. QED  BY ZenonT(30), <1>1, <4>1 DEF Reserves
    <3>. QED  BY SMTT(30), <1>1, <1>3, <3>1, <3>2 DEF Reserves
  <2>. QED  BY ZenonT(30), <2>1, <2>2, <2>3 DEF Numbered
<1>8. Owned'
      BY ZenonT(30), <1>1, <1>2, <1>4 DEF DInv, Owned, Reserves
<1>9. Batched'
  <2>. SUFFICES ASSUME NEW i \in DOMAIN batch
                PROVE  batch[i].id \in rejected \/ Kept(batch[i])' \/ Within(batch[i], groups')
       BY ZenonT(30), <1>2 DEF Batched, Kept
  <2>1. CASE Within(batch[i], groups)
    <3>1. Within(batch[i], Tail(groups)) \/ \E n \in DOMAIN g : g[n] = batch[i]
          BY ZenonT(30), <1>1, <1>2, <1>3, <2>1, HeadOrTail
    <3>2. \A n \in DOMAIN g : g[n].id \in Reserved' /\ fingerprint'[g[n].id] = g[n].body
      <4>1. g \in Seq(Copies)
            BY SMTT(30), <1>1, <1>2, <1>3
      <4>2. \A n \in DOMAIN g : g[n].id \in Events
        <5>1. \A n \in DOMAIN g : g[n] \in Copies
              BY SMTT(30), <4>1
        <5>. QED  BY Zenon, <5>1 DEF Copies
      <4>3. \A n \in DOMAIN g : g[n].id \in new \/ g[n].id \in Reserved
            BY ZenonT(30), <1>1, <4>2 DEF Reserves, Reserved
      <4>. QED  BY ZenonT(30), <1>1, <1>4, <4>3 DEF Reserves
    <3>. QED  BY ZenonT(30), <1>2, <3>1, <3>2 DEF Kept
  <2>2. CASE batch[i].id \in rejected \/ Kept(batch[i])
        BY ZenonT(30), <1>2, <1>4, <2>2 DEF Kept
  <2>. QED  BY ZenonT(30), <2>1, <2>2 DEF DInv, Batched
<1>10. ReceiptIsDurable'
       BY ZenonT(30), <1>2, <1>4 DEF DInv, ReceiptIsDurable
<1>11. HandoffConsistent'
       BY ZenonT(30), <1>2, <1>4 DEF DInv, HandoffConsistent
<1>12. CloudIsPrefix'
  <2>. SUFFICES ASSUME NEW n \in 1 .. Len(cloud)
                PROVE  sequence'[cloud[n].id] = n /\ fingerprint'[cloud[n].id] = cloud[n].body
       BY Zenon, <1>2 DEF CloudIsPrefix
  <2>1. sequence[cloud[n].id] = n /\ fingerprint[cloud[n].id] = cloud[n].body
        BY Zenon DEF DInv, CloudIsPrefix
  <2>2. cloud[n].id \in Events
    <3>1. cloud[n] \in Entry
          BY SMTT(30) DEF DInv, Shapes
    <3>. QED  BY ZenonT(30), <3>1 DEF Entry
  <2>3. cloud[n].id \in Reserved
        BY SMTT(30), <2>1, <2>2 DEF Reserved
  <2>. QED  BY Zenon, <1>4, <2>1, <2>3
<1>13. RowsNumbered' /\ CommittedIsDelivered'
       BY SMTT(30), <1>2, <1>5 DEF DInv, RowsNumbered, CommittedIsDelivered
<1>14. CallsKnown'
       BY ZenonT(30), <1>2, <1>5 DEF DInv, CallsKnown
<1>15. AckedSafe'
       BY Zenon, <1>2, <1>5 DEF DInv, AckedSafe, Safe
<1>16. NothingLost'
  <2>. SUFFICES ASSUME NEW e \in Reserved'
                PROVE  prow'[e] = "pending" \/ row[e].state \in {"pending", "dead_letter"}
                                            \/ e \in Delivered'
       BY ZenonT(30), <1>2 DEF NothingLost
  <2>1. CASE e \in new
        BY ZenonT(30), <1>1, <2>1 DEF Reserves
  <2>2. CASE e \in Reserved
        BY ZenonT(30), <1>4, <1>5, <2>2 DEF DInv, NothingLost
  <2>. QED  BY ZenonT(30), <1>4, <2>1, <2>2
<1>. QED  BY SMTT(30), <1>6, <1>7, <1>8, <1>9, <1>10, <1>11, <1>12, <1>13, <1>14, <1>15, <1>16 DEF DInv

(***************************************************************************)
(* The agent takes messages from the bus.                                  *)
(***************************************************************************)

FirstOn(k, e) == CHOOSE i \in 1 .. k : bus[i].id = e /\ \A j \in 1 .. i - 1 : bus[j].id # e
NewOn(k) == {e \in Events : row[e].state = "none" /\ \E i \in 1 .. k : bus[i].id = e}

\* The first message of an event exists.
LEMMA FirstOnBus ==
    ASSUME NEW k \in Nat, NEW e, \E i \in 1 .. k : bus[i].id = e
    PROVE  FirstOn(k, e) \in 1 .. k /\ bus[FirstOn(k, e)].id = e
<1>. DEFINE T == {i \in 1 .. k : bus[i].id = e}
<1>. HIDE DEF T
<1>1. PICK x \in T : \A y \in T : x <= y
  <2>1. T \subseteq Nat /\ T # {}
        BY SMTT(30) DEF T
  <2>. QED  BY Zenon, <2>1, LeastElement
<1>. USE DEF T
<1>2. x \in 1 .. k /\ bus[x].id = e /\ \A j \in 1 .. x - 1 : bus[j].id # e
      BY SMTT(30), <1>1
<1>. QED  BY Zenon, <1>2 DEF FirstOn

\* The agent stores a message, or recognises it, and acknowledges it: from then on
\* the event is safe with the agent or the cloud.
LEMMA AcceptStep == ASSUME DInv, NEW k \in DOMAIN bus, Accept(k) PROVE DInv'
<1>1. /\ UNCHANGED <<sequence, fingerprint, cursor, cloud>>
      /\ UNCHANGED <<prow, fresh, todo, held, queue, batch, groups, rejected, receipts>>
      /\ UNCHANGED <<through, apc, calls, reply>>
      BY Zenon DEF Accept, producerVars, workerVars, storeVars, cloudVars
<1>2. /\ Reserved' = Reserved /\ Delivered' = Delivered /\ Stored' = Stored
      /\ Numbered' /\ CloudIsPrefix'
      BY SMTT(30), <1>1, SameLog
<1>3. bus \in Seq(Message) /\ k \in 1 .. Len(bus) /\ Len(bus) \in Nat /\ k \in Nat
      /\ \A i \in 1 .. Len(bus) : Faithful(bus[i])
      BY SMTT(30), BusFacts
<1>4. /\ row' = [e \in Events |->
                   IF e \in NewOn(k)
                   THEN [state |-> "pending", seq |-> bus[FirstOn(k, e)].seq,
                         body |-> bus[FirstOn(k, e)].body, due |-> TRUE]
                   ELSE row[e]]
      /\ bus' = SubSeq(bus, k + 1, Len(bus))
      BY Zenon DEF Accept, NewOn, FirstOn
<1>5. \A e \in Events : e \in acked' => e \in acked \/ \E i \in 1 .. k : bus[i].id = e
      BY ZenonT(30) DEF Accept
<1>6. ASSUME NEW e \in NewOn(k)
      PROVE  /\ e \in Events /\ e \in Reserved /\ row[e].state = "none"
             /\ row'[e].state = "pending" /\ row'[e].seq = sequence[e]
             /\ row'[e].body = fingerprint[e] /\ row'[e] \in AgentRow
  <2>1. e \in Events /\ row[e].state = "none" /\ \E i \in 1 .. k : bus[i].id = e
        BY Zenon DEF NewOn
  <2>2. FirstOn(k, e) \in 1 .. Len(bus) /\ bus[FirstOn(k, e)].id = e
        BY SMTT(30), <1>3, <2>1, FirstOnBus
  <2>3. /\ e \in Reserved /\ bus[FirstOn(k, e)].seq = sequence[e]
        /\ bus[FirstOn(k, e)].body = fingerprint[e]
        BY Zenon, <1>3, <2>2 DEF Faithful
  <2>4. row'[e] = [state |-> "pending", seq |-> sequence[e], body |-> fingerprint[e], due |-> TRUE]
        BY ZenonT(30), <1>4, <2>1, <2>3
  <2>. QED  BY SMTT(30), <2>1, <2>3, <2>4 DEF AgentRow, DInv, Shapes
<1>7. \A e \in Events : e \notin NewOn(k) => row'[e] = row[e]
      BY Zenon, <1>4
<1>8. row' \in [Events -> AgentRow]
  <2>1. \A e \in Events : row'[e] \in AgentRow
        BY ZenonT(30), <1>6, <1>7, SameRows
  <2>. QED  BY ZenonT(30), <1>4, <2>1
<1>9. bus' \in Seq(Message) /\ \A i \in DOMAIN bus' : \E j \in 1 .. Len(bus) : bus'[i] = bus[j]
  <2>1. /\ bus' \in Seq(Message)
        /\ \A i \in 1 .. Len(bus) - (k + 1) + 1 : bus'[i] = bus[(k + 1) + i - 1]
        /\ Len(bus') = IF k + 1 <= Len(bus) THEN Len(bus) - (k + 1) + 1 ELSE 0
    <3>1. \A i \in k + 1 .. Len(bus) : bus[i] \in Message
          BY SMTT(30), <1>3
    <3>. QED  BY SMTT(30), <1>3, <1>4, <3>1, Cut
  <2>2. ASSUME NEW i \in DOMAIN bus' PROVE \E j \in 1 .. Len(bus) : bus'[i] = bus[j]
    <3>1. i \in 1 .. Len(bus')
          BY SMTT(30), <2>1
    <3>2. i \in 1 .. Len(bus) - (k + 1) + 1 /\ (k + 1) + i - 1 \in 1 .. Len(bus)
          BY SMTT(30), <1>3, <2>1, <3>1
    <3>. QED  BY ZenonT(30), <2>1, <3>2
  <2>. QED  BY ZenonT(30), <2>1, <2>2
<1>10. Shapes'
       BY ZenonT(30), <1>1, <1>8, <1>9 DEF DInv, Shapes
<1>11. Owned' /\ Batched' /\ ReceiptIsDurable'
       BY Zenon, <1>1, AgentFrame
<1>12. HandoffConsistent'
  <2>1. \A i \in DOMAIN bus' : Faithful(bus'[i])
        BY Zenon, <1>3, <1>9
  <2>2. \A e \in Events : row'[e].state # "none" =>
            e \in Reserved /\ row'[e].seq = sequence[e] /\ row'[e].body = fingerprint[e]
        BY ZenonT(30), <1>6, <1>7 DEF DInv, HandoffConsistent
  <2>. QED  BY ZenonT(30), <1>1, <1>2, <2>1, <2>2 DEF HandoffConsistent, Faithful
<1>13. RowsNumbered' /\ CommittedIsDelivered'
       BY ZenonT(30), <1>1, <1>2, <1>6, <1>7 DEF DInv, RowsNumbered, CommittedIsDelivered
<1>14. \A e \in Events : row[e].state # "none" => row'[e].state # "none"
       BY Zenon, <1>6, <1>7
<1>15. CallsKnown'
  <2>1. \A i \in DOMAIN calls : \A e \in calls[i] : e \in Events
        BY SMTT(30) DEF DInv, Shapes
  <2>. QED  BY ZenonT(30), <1>1, <1>2, <1>14, <2>1 DEF DInv, CallsKnown
<1>16. \A e \in Events : Safe(e) => Safe(e)'
       BY SMTT(30), <1>2, <1>6, <1>7 DEF Safe
<1>17. AckedSafe'
  <2>. SUFFICES ASSUME NEW e \in Events, e \in acked' PROVE Safe(e)'
       BY Zenon DEF AckedSafe
  <2>1. CASE e \in acked
        BY Zenon, <1>16, <2>1 DEF DInv, AckedSafe
  <2>2. CASE e \in NewOn(k)
        BY ZenonT(30), <1>6, <2>2 DEF Safe
  <2>3. CASE e \notin acked /\ e \notin NewOn(k)
    <3>1. row[e].state # "none"
          BY Zenon, <1>5, <2>3 DEF NewOn
    <3>2. row[e].state \in {"pending", "dead_letter", "committed"}
          BY ZenonT(30), <3>1, SameRows DEF AgentRow
    <3>3. Safe(e)
          BY Zenon, <3>2 DEF Safe, DInv, CommittedIsDelivered
    <3>. QED  BY Zenon, <1>16, <3>3
  <2>. QED  BY SMTT(30), <2>1, <2>2, <2>3
<1>18. NothingLost'
  <2>. SUFFICES ASSUME NEW e \in Reserved PROVE prow[e] = "pending" \/ Safe(e)'
       BY SMTT(30), <1>1, <1>2 DEF NothingLost, Safe, Reserved
  <2>1. e \in Events /\ (prow[e] = "pending" \/ Safe(e))
        BY Zenon DEF DInv, NothingLost, Safe, Reserved
  <2>. QED  BY SMTT(30), <1>16, <2>1
<1>. QED  BY SMTT(30), <1>2, <1>10, <1>11, <1>12, <1>13, <1>15, <1>17, <1>18 DEF DInv

(***************************************************************************)
(* The theorems.                                                           *)
(***************************************************************************)

\* Every step of the pipeline preserves the inductive invariant.
LEMMA StepDInv == DInv /\ [Next]_vars => DInv'
<1>. SUFFICES ASSUME DInv, [Next]_vars PROVE DInv'
     BY Zenon
<1>1. CASE \E c \in Copies : Offer(c) \/ OfferRefused(c)
      BY Zenon, <1>1, OfferStep
<1>2. CASE \E i \in DOMAIN held : Send(i)
      BY Zenon, <1>2, SendStep
<1>3. CASE Finish \/ Seal \/ Resume
      BY Zenon, <1>3, QuietStep
<1>4. CASE PublisherStep
      BY SMTT(30), <1>4, CollectStep, ReserveStep, SplitStep, RejectStep, DispatchStep, ReplayStep,
         PublishStep, SettleStep DEF PublisherStep
<1>5. CASE PublishFails \/ Close
      BY Zenon, <1>5, ReplayStep
<1>6. CASE RetireFails \/ PrunePublisher
      BY Zenon, <1>6, SettleStep
<1>7. CASE PublisherRestart
      BY Zenon, <1>7, PublisherRestartStep
<1>8. CASE \E i \in DOMAIN bus : LoseMessage(i) \/ Accept(i)
      BY SMTT(30), <1>8, LoseStep, AcceptStep
<1>9. CASE AgentStep
      BY SMTT(30), <1>9, AgentQuietStep, FlushStep, CommittedStep, ReconciledStep, RefreshedStep,
         RetriedStep, BisectedStep, DeadLetteredStep DEF AgentStep
<1>10. CASE \E answer \in Answers : CloudAnswers(answer)
       BY Zenon, <1>10, CloudStep
<1>11. CASE \E e \in Events : RetryDue(e) \/ PruneAgent(e)
       BY Zenon, <1>11, RowStep
<1>12. CASE AgentRestart \/ AgentStop
       BY ZenonT(30), <1>12, AgentQuietStep
<1>13. CASE UNCHANGED vars
  <2>1. /\ UNCHANGED <<sequence, fingerprint, cursor, cloud>>
        /\ UNCHANGED <<prow, fresh, todo, acked, held, queue, batch, groups, rejected, receipts>>
        /\ UNCHANGED <<bus, row, through, apc, calls, reply>>
        BY Zenon, <1>13 DEF vars, producerVars, workerVars, attemptVars, storeVars, agentVars,
                     agentStore, cloudVars
  <2>2. Batched' /\ ReceiptIsDurable'
        BY Zenon, <2>1, BatchFrame
  <2>. QED  BY ZenonT(30), <2>1, <2>2, BusFacts, PublisherKeeps DEF DInv, Shapes, Owned
<1>. QED  BY SMTT(30), <1>1, <1>2, <1>3, <1>4, <1>5, <1>6, <1>7, <1>8, <1>9, <1>10, <1>11, <1>12, <1>13
             DEF Next

\* The invariant holds at all times.
LEMMA Invariance == Spec => []DInv
BY InitDInv, StepDInv, PTL DEF Spec

\* For every set of events and contents, every batch size and any number of
\* losses, errors and crashes of either process: an event that got its
\* reservation is never lost (publisher.db, sync.db or the cloud has it).
THEOREM ReservedIsKept == Spec => []NothingLost
<1>1. DInv => NothingLost
      BY ZenonT(30) DEF DInv
<1>. QED  BY Invariance, <1>1, PTL

\* Whatever is on the bus or in sync.db has the number and the content of its
\* reservation, so a repeated handoff never fails the agent's identity check.
THEOREM HandoffsAgree == Spec => []HandoffConsistent
<1>1. DInv => HandoffConsistent
      BY ZenonT(30) DEF DInv
<1>. QED  BY Invariance, <1>1, PTL

\* What the agent marks as committed is in the cloud, and its cursor never runs
\* ahead of the cloud's (mark_remote_committed after answers, conflicts and retries).
THEOREM CommitsAreReal == Spec => []CommittedIsDelivered
<1>1. DInv => CommittedIsDelivered
      BY ZenonT(30) DEF DInv
<1>. QED  BY Invariance, <1>1, PTL

\* A receipt that was Ok stays true: the reservation exists with that content,
\* however the batch was split and whatever crashed or was pruned afterwards.
THEOREM ReceiptsAreDurable == Spec => []ReceiptIsDurable
<1>1. DInv => ReceiptIsDurable
      BY Zenon DEF DInv
<1>. QED  BY Invariance, <1>1, PTL

(***************************************************************************)
(* The pipeline implements the ordered log.                                *)
(***************************************************************************)

\* The reservations form a log without gaps and without duplicates, and the
\* cloud has its beginning.
IsALog ==
    /\ Log!Distinct(Entries) /\ Log!Contiguous(Entries)
    /\ CloudEntries \subseteq Entries /\ Log!Contiguous(CloudEntries)

\* Under the invariant the reservations form a log with the cloud as its beginning.
LEMMA EntriesAreALog == DInv => IsALog
<1>. SUFFICES ASSUME DInv PROVE IsALog
     BY Zenon
<1>1. /\ \A e \in Reserved : e \in Events /\ sequence[e] \in Nat /\ sequence[e] # 0
      /\ \A e \in Reserved : sequence[e] <= cursor
      /\ cursor \in Nat
      BY Zenon DEF DInv, Shapes, Numbered, Reserved
<1>2. \A x \in Entries : /\ x.id \in Reserved /\ x.seq = sequence[x.id]
                         /\ x = [seq |-> sequence[x.id], id |-> x.id, body |-> fingerprint[x.id]]
      BY SMTT(30) DEF Entries
<1>3. Log!Distinct(Entries)
  <2>. SUFFICES ASSUME NEW x \in Entries, NEW y \in Entries, x.seq = y.seq \/ x.id = y.id
                PROVE  x = y
       BY Zenon DEF Log!Distinct
  <2>1. x.id = y.id
        BY SMTT(30), <1>2 DEF DInv, Numbered
  <2>. QED  BY ZenonT(30), <1>2, <2>1
<1>4. Log!Contiguous(Entries)
  <2>. SUFFICES ASSUME NEW x \in Entries, NEW n \in 1 .. x.seq PROVE \E y \in Entries : y.seq = n
       BY Zenon DEF Log!Contiguous
  <2>1. n \in 1 .. cursor
        BY SMTT(30), <1>1, <1>2
  <2>2. PICK e \in Events : sequence[e] = n
        BY Zenon, <2>1 DEF DInv, Numbered
  <2>3. e \in Reserved
        BY SMTT(30), <2>2 DEF Reserved
  <2>4. [seq |-> sequence[e], id |-> e, body |-> fingerprint[e]] \in Entries
        BY ZenonT(30), <2>3 DEF Entries
  <2>. QED  BY ZenonT(30), <2>2, <2>4
<1>5. DOMAIN cloud = 1 .. Len(cloud) /\ Len(cloud) \in Nat
      BY SMTT(30) DEF DInv, Shapes
<1>6. CloudEntries \subseteq Entries
  <2>. SUFFICES ASSUME NEW n \in 1 .. Len(cloud)
                PROVE  [seq |-> n, id |-> cloud[n].id, body |-> cloud[n].body] \in Entries
       BY SMTT(30), <1>5 DEF CloudEntries
  <2>1. sequence[cloud[n].id] = n /\ fingerprint[cloud[n].id] = cloud[n].body
        BY Zenon DEF DInv, CloudIsPrefix
  <2>2. cloud[n] \in Entry
        BY SMTT(30) DEF DInv, Shapes
  <2>3. cloud[n].id \in Reserved
        BY SMTT(30), <2>1, <2>2 DEF Entry, Reserved
  <2>. QED  BY ZenonT(30), <2>1, <2>3 DEF Entries
<1>7. Log!Contiguous(CloudEntries)
  <2>. SUFFICES ASSUME NEW x \in CloudEntries, NEW n \in 1 .. x.seq
                PROVE  \E y \in CloudEntries : y.seq = n
       BY Zenon DEF Log!Contiguous
  <2>1. x.seq \in 1 .. Len(cloud)
        BY SMTT(30), <1>5 DEF CloudEntries
  <2>2. n \in 1 .. Len(cloud)
        BY SMTT(30), <1>5, <2>1
  <2>3. [seq |-> n, id |-> cloud[n].id, body |-> cloud[n].body] \in CloudEntries
        BY ZenonT(30), <1>5, <2>2 DEF CloudEntries
  <2>. QED  BY SMTT(30), <2>3
<1>. QED  BY SMTT(30), <1>3, <1>4, <1>6, <1>7 DEF IsALog

\* The same after a step.
LEMMA EntriesStayALog == DInv' => IsALog'
BY EntriesAreALog, PTL

\* Only a reservation and an answer of the cloud touch what the log sees.
LEMMA OtherSteps ==
    ASSUME [Next]_vars
    PROVE  \/ ReserveGroup \/ \E answer \in Answers : CloudAnswers(answer)
           \/ UNCHANGED <<sequence, fingerprint, cloud>>
<1>. USE DEF storeVars, cloudVars
<1>1. CASE \/ \E c \in Copies : Offer(c) \/ OfferRefused(c)
           \/ \E i \in DOMAIN held : Send(i)
      BY Zenon, <1>1 DEF Offer, OfferRefused, Send
<1>2. CASE PublisherStep \/ PublishFails
  <2>1. CASE Collect \/ SplitGroup \/ RejectCopy \/ Dispatch
        BY Zenon, <2>1 DEF Collect, SplitGroup, RejectCopy, Dispatch
  <2>2. CASE ReplayTick \/ Publish \/ PublishFails
        BY ZenonT(30), <2>2 DEF ReplayTick, Publish, PublishFails
  <2>3. CASE SettleLive \/ SettleReplay
        BY Zenon, <2>3 DEF SettleLive, SettleReplay, EndAttempt, SettledVars
  <2>. QED  BY SMTT(30), <1>2, <2>1, <2>2, <2>3 DEF PublisherStep
<1>3. CASE RetireFails \/ PrunePublisher \/ Close \/ Finish \/ PublisherRestart
      BY Zenon, <1>3 DEF RetireFails, EndAttempt, SettledVars, PrunePublisher, Close, Finish,
                  PublisherRestart
<1>4. CASE \E i \in DOMAIN bus : LoseMessage(i) \/ Accept(i)
      BY ZenonT(30), <1>4 DEF LoseMessage, Accept
<1>5. CASE AgentStep
  <2>1. CASE Arm \/ Flush \/ ReadDeadline \/ Wake
        BY ZenonT(30), <2>1 DEF Arm, Flush, ReadDeadline, Wake
  <2>2. CASE Committed \/ Reconciled \/ Refreshed \/ Retried \/ Bisected \/ DeadLettered
        BY Zenon, <2>2 DEF Committed, Reconciled, Refreshed, Retried, Bisected, DeadLettered, OffAgent
  <2>. QED  BY ZenonT(30), <1>5, <2>1, <2>2 DEF AgentStep
<1>6. CASE \E e \in Events : RetryDue(e) \/ PruneAgent(e)
      BY ZenonT(30), <1>6 DEF RetryDue, PruneAgent
<1>7. CASE Resume \/ AgentRestart \/ AgentStop \/ Seal
      BY Zenon, <1>7 DEF Resume, AgentRestart, AgentStop, Seal
<1>8. CASE UNCHANGED vars
      BY SMTT(30), <1>8 DEF vars
<1>. QED  BY SMTT(30), <1>1, <1>2, <1>3, <1>4, <1>5, <1>6, <1>7, <1>8 DEF Next

\* The initial states are those of the log, and every step is one of its steps
\* or changes nothing it sees.
LEMMA InitImplements == Init => Log!Init
BY SMTT(30) DEF Init, Log!Init, Entries, CloudEntries, Reserved

\* Every step of the pipeline is a step of the log, or leaves it alone.
LEMMA StepImplements == DInv /\ DInv' /\ [Next]_vars => [Log!Next]_(Log!vars)
<1>. SUFFICES ASSUME DInv, DInv', [Next]_vars PROVE [Log!Next]_(Log!vars)
     BY Zenon
<1>1. /\ Log!Distinct(Entries)' /\ Log!Contiguous(Entries)'
      /\ (CloudEntries \subseteq Entries)' /\ Log!Contiguous(CloudEntries)'
      BY Zenon, EntriesStayALog DEF IsALog
<1>2. CASE ReserveGroup
  <2>1. UNCHANGED cloud
        BY Zenon, <1>2 DEF ReserveGroup, cloudVars
  <2>2. \A e \in Reserved : /\ e \in Reserved' /\ sequence'[e] = sequence[e]
                            /\ fingerprint'[e] = fingerprint[e]
        BY ZenonT(30), <1>2, ReserveFacts DEF Reserved, Reserves
  <2>3. Entries \subseteq Entries'
        BY SMTT(30), <2>2 DEF Entries
  <2>4. CloudEntries' = CloudEntries
        BY Zenon, <2>1 DEF CloudEntries
  <2>5. Log!Accept
        BY ZenonT(30), <1>1, <2>3, <2>4 DEF Log!Accept, Log!Distinct, Log!Contiguous
  <2>. QED  BY Zenon, <2>5 DEF Log!Next
<1>3. CASE \E answer \in Answers : CloudAnswers(answer)
  <2>1. PICK answer : CloudAnswers(answer)
        BY SMTT(30), <1>3
  <2>2. UNCHANGED <<sequence, fingerprint>>
        BY SMTT(30), <2>1 DEF CloudAnswers, storeVars
  <2>3. Entries' = Entries
        BY SMTT(30), <2>2 DEF Entries, Reserved
  <2>4. /\ cloud' \in Seq(Entry) /\ Len(cloud') >= Len(cloud)
        /\ \A n \in 1 .. Len(cloud) : cloud'[n] = cloud[n]
        BY SMTT(30), <2>1, CloudGrows
  <2>5. DOMAIN cloud = 1 .. Len(cloud) /\ Len(cloud) \in Nat
        BY SMTT(30) DEF DInv, Shapes
  <2>6. \A n \in DOMAIN cloud : n \in DOMAIN cloud' /\ cloud'[n] = cloud[n]
        BY SMTT(30), <2>4, <2>5
  <2>7. CloudEntries \subseteq CloudEntries'
        BY Zenon, <2>6 DEF CloudEntries
  <2>8. Log!Deliver
        BY ZenonT(30), <1>1, <2>3, <2>7 DEF Log!Deliver, Log!Contiguous
  <2>. QED  BY Zenon, <2>8 DEF Log!Next
<1>4. CASE UNCHANGED <<sequence, fingerprint, cloud>>
      BY Zenon, <1>4 DEF Log!vars, Entries, CloudEntries, Reserved
<1>5. ReserveGroup \/ (\E answer \in Answers : CloudAnswers(answer))
        \/ UNCHANGED <<sequence, fingerprint, cloud>>
      BY Zenon, OtherSteps
<1>. QED  BY SMTT(30), <1>2, <1>3, <1>4, <1>5

\* For every instance: the reservations are the accepted entries of a log that
\* never loses, repeats or renumbers an entry, and what the cloud has stored is
\* at all times an initial part of it.
THEOREM PipelineImplementsLog == Spec => ImplementsLog
<1>1. Init => Log!Init
      BY Zenon, InitImplements
<1>2. DInv /\ DInv' /\ [Next]_vars => [Log!Next]_(Log!vars)
      BY Zenon, StepImplements
<1>. QED  BY Invariance, <1>1, <1>2, PTL DEF Spec, ImplementsLog, Log!Spec

(***************************************************************************)
(* A sealed run is complete.                                               *)
(***************************************************************************)

\* Copy c is with a producer, in the queue, or in a group still to be reserved.
Waiting(c) ==
    \/ \E i \in DOMAIN held : held[i] = c
    \/ \E i \in DOMAIN queue : queue[i] = c
    \/ Within(c, groups)

\* What was offered is reserved or on its way there, unless it was refused; a
\* worker that has finished left nothing behind.
Accounted ==
    \A e \in offered : \/ refused \/ e \in Reserved
                       \/ \E c \in Copies : c.id = e /\ Waiting(c)
SealInv ==
    /\ Accounted
    /\ pc # "prepare" => groups = <<>>
    /\ phase = "finished" => pc = "idle" /\ held = <<>> /\ queue = <<>>
    /\ sealed => phase = "finished"
    /\ SealedIsComplete

\* A step that moves no copy and reserves nothing keeps account.
LEMMA AccountFrame ==
    ASSUME Accounted, UNCHANGED <<offered, refused, held, queue, groups>>, Reserved' = Reserved
    PROVE  Accounted'
<1>1. \A d : Waiting(d) => Waiting(d)'
      BY Zenon DEF Waiting, Within
<1>. QED  BY Zenon, <1>1 DEF Accounted

\* A step that leaves the offers and the reservations alone.
LEMMA SealFrame ==
    ASSUME DInv, SealInv, UNCHANGED <<offered, refused, held, queue, groups>>,
           UNCHANGED <<sequence, phase, sealed>>, Len(cloud') \in Nat, Len(cloud') >= Len(cloud),
           pc' = pc \/ (groups = <<>> /\ phase # "finished")
    PROVE  SealInv'
<1>1. Reserved' = Reserved
      BY Zenon DEF Reserved
<1>2. Delivered \subseteq Delivered'
      BY SMTT(30), <1>1 DEF Delivered, Stored, Reserved, DInv, Shapes
<1>3. Accounted'
      BY ZenonT(30), <1>1, AccountFrame DEF SealInv
<1>4. SealedIsComplete'
      BY ZenonT(30), <1>1, <1>2 DEF SealInv, SealedIsComplete
<1>. QED  BY Zenon, <1>3, <1>4 DEF SealInv

\* A step that moves copies or reserves them before the worker has finished.
LEMMA MovingSteps ==
    ASSUME DInv, SealInv, ~sealed', Accounted',
           pc' # "prepare" => groups' = <<>>, phase' # "finished"
    PROVE  SealInv'
BY Zenon DEF SealInv, SealedIsComplete

\* The producers' steps keep account of what was offered.
LEMMA ProducersAccount ==
    ASSUME DInv, SealInv,
           \/ \E c \in Copies : Offer(c) \/ OfferRefused(c)
           \/ \E i \in DOMAIN held : Send(i)
    PROVE  SealInv'
<1>1. /\ UNCHANGED <<groups, sequence, phase, pc, sealed>>
      /\ Reserved' = Reserved
      BY Zenon DEF Offer, OfferRefused, Send, workerVars, storeVars, cloudVars, Reserved
<1>2. held \in Seq(Copies) /\ queue \in Seq(Copies)
      BY Zenon DEF DInv, Shapes
<1>3. phase # "finished"
  <2>1. CASE \E c \in Copies : Offer(c) \/ OfferRefused(c)
        BY Zenon, <2>1 DEF Offer, OfferRefused
  <2>2. CASE \E i \in DOMAIN held : Send(i)
        BY SMTT(30), <2>2 DEF SealInv
  <2>. QED  BY ZenonT(30), <2>1, <2>2
<1>4. ASSUME NEW c \in Copies, Offer(c) PROVE Accounted'
  <2>1. /\ offered' = offered \cup {c.id} /\ held' = Append(held, c)
        /\ UNCHANGED <<queue, refused>>
        BY ZenonT(30), <1>4 DEF Offer
  <2>2. /\ \A i \in DOMAIN held : i \in DOMAIN held' /\ held'[i] = held[i]
        /\ Len(held) + 1 \in DOMAIN held' /\ held'[Len(held) + 1] = c
        BY SMTT(30), <1>2, <2>1
  <2>3. \A d : Waiting(d) => Waiting(d)'
        BY ZenonT(30), <1>1, <2>1, <2>2 DEF Waiting, Within
  <2>4. Waiting(c)'
        BY Zenon, <2>2 DEF Waiting
  <2>. QED  BY ZenonT(30), <1>1, <2>1, <2>3, <2>4 DEF SealInv, Accounted
<1>5. ASSUME NEW c \in Copies, OfferRefused(c) PROVE Accounted'
  <2>1. refused' = TRUE
        BY Zenon, <1>5 DEF OfferRefused
  <2>. QED  BY Zenon, <2>1 DEF Accounted
<1>6. ASSUME NEW i \in DOMAIN held, Send(i) PROVE Accounted'
  <2>1. /\ queue' = Append(queue, held[i]) /\ UNCHANGED <<offered, refused>>
        /\ held' = [j \in 1 .. Len(held) - 1 |-> IF j < i THEN held[j] ELSE held[j + 1]]
        BY Zenon, <1>6 DEF Send
  <2>2. held[i] \in Copies /\ Len(held) \in Nat /\ DOMAIN held = 1 .. Len(held)
        BY SMTT(30), <1>2
  <2>3. /\ \A n \in DOMAIN queue : n \in DOMAIN queue' /\ queue'[n] = queue[n]
        /\ Len(queue) + 1 \in DOMAIN queue' /\ queue'[Len(queue) + 1] = held[i]
        BY SMTT(30), <1>2, <2>1, <2>2
  <2>4. ASSUME NEW n \in DOMAIN held, n # i PROVE \E j \in DOMAIN held' : held'[j] = held[n]
    <3>1. CASE n < i
      <4>1. n \in DOMAIN held' /\ held'[n] = held[n]
            BY SMTT(30), <2>1, <2>2, <3>1
      <4>. QED  BY ZenonT(30), <4>1
    <3>2. CASE n > i
      <4>1. n - 1 \in DOMAIN held' /\ held'[n - 1] = held[n]
            BY SMTT(30), <2>1, <2>2, <3>2
      <4>. QED  BY ZenonT(30), <4>1
    <3>. QED  BY SMTT(30), <2>2, <2>4, <3>1, <3>2
  <2>5. \A d : Waiting(d) => Waiting(d)'
        BY ZenonT(30), <1>1, <2>3, <2>4 DEF Waiting, Within
  <2>. QED  BY ZenonT(30), <1>1, <2>1, <2>5 DEF SealInv, Accounted
<1>. QED  BY ZenonT(30), <1>1, <1>3, <1>4, <1>5, <1>6, MovingSteps DEF SealInv

\* The only copy of a rejected group conflicts with its identity's reservation.
LEMMA RejectedIsReserved ==
    ASSUME DInv, RejectCopy
    PROVE  LET c == Head(groups)[1] IN c \in Copies /\ c.id \in Reserved /\ c.body # fingerprint[c.id]
<1>1. PICK g : g = Head(groups)
      BY ZenonT(30)
<1>2. g \in Seq(Copies) /\ Len(g) = 1 /\ Conflicts(g)
      BY SMTT(30), <1>1 DEF DInv, Shapes, RejectCopy
<1>3. DOMAIN g = {1} /\ g[1] \in Copies
      BY SMTT(30), <1>2
<1>4. g[1].body # BodyFor(g, g[1].id)
      BY ZenonT(30), <1>2, <1>3 DEF Conflicts
<1>5. FirstIn(g, g[1].id) = 1
  <2>1. 1 \in DOMAIN g /\ g[1].id = g[1].id /\ \A j \in 1 .. 1 - 1 : g[j].id # g[1].id
        BY SMTT(30), <1>3
  <2>2. \E i \in DOMAIN g : g[i].id = g[1].id /\ \A j \in 1 .. i - 1 : g[j].id # g[1].id
        BY Zenon, <2>1
  <2>3. FirstIn(g, g[1].id) \in DOMAIN g
        BY Zenon, <2>2 DEF FirstIn
  <2>. QED  BY ZenonT(30), <1>3, <2>3
<1>6. sequence[g[1].id] # 0 /\ g[1].body # fingerprint[g[1].id]
      BY ZenonT(30), <1>4, <1>5 DEF BodyFor
<1>7. g[1].id \in Events
      BY Zenon, <1>3 DEF Copies
<1>. QED  BY Zenon, <1>1, <1>3, <1>6, <1>7 DEF Reserved

\* The worker takes copies from the queue, splits and reserves them.
LEMMA WorkerAccounts ==
    ASSUME DInv, SealInv, Collect \/ ReserveGroup \/ SplitGroup \/ RejectCopy
    PROVE  SealInv'
<1>0. /\ held \in Seq(Copies) /\ queue \in Seq(Copies) /\ groups \in Seq(Seq(Copies))
      BY Zenon DEF DInv, Shapes
<1>1. /\ UNCHANGED <<offered, refused, held, phase, sealed>> /\ pc' = "prepare"
      BY Zenon DEF Collect, ReserveGroup, SplitGroup, RejectCopy, producerVars, cloudVars
<1>2. phase # "finished" /\ ~sealed
      BY Zenon DEF SealInv, Collect, ReserveGroup, SplitGroup, RejectCopy
<1>3. CASE Collect
  <2>1. UNCHANGED sequence /\ groups = <<>>
        BY Zenon, <1>3 DEF Collect, storeVars, SealInv
  <2>2. PICK k \in 1 .. Len(queue) : /\ groups' = <<SubSeq(queue, 1, k)>>
                                     /\ queue' = SubSeq(queue, k + 1, Len(queue))
        BY Zenon, <1>3 DEF Collect
  <2>3. k \in 0 .. Len(queue)
        BY SMTT(30), <1>0
  <2>4. \A n \in DOMAIN queue :
           \/ \E i \in DOMAIN SubSeq(queue, 1, k) : SubSeq(queue, 1, k)[i] = queue[n]
           \/ \E i \in DOMAIN SubSeq(queue, k + 1, Len(queue)) :
                 SubSeq(queue, k + 1, Len(queue))[i] = queue[n]
        BY ZenonT(30), <1>0, <2>3, Halves
  <2>5. 1 \in DOMAIN groups' /\ groups'[1] = SubSeq(queue, 1, k)
        BY SMTT(30), <2>2
  <2>6. \A d : ~Within(d, groups)
        BY SMTT(30), <2>1 DEF Within
  <2>7. \A d : Waiting(d) => Waiting(d)'
        BY ZenonT(30), <1>1, <2>2, <2>4, <2>5, <2>6 DEF Waiting, Within
  <2>8. Reserved' = Reserved
        BY Zenon, <2>1 DEF Reserved
  <2>9. Accounted'
        BY Zenon, <1>1, <2>7, <2>8 DEF SealInv, Accounted
  <2>. QED  BY ZenonT(30), <1>1, <1>2, <2>9, MovingSteps
<1>4. ASSUME UNCHANGED queue, Reserved \subseteq Reserved',
             \A d \in Copies : Within(d, groups) => Within(d, groups') \/ d.id \in Reserved'
      PROVE  SealInv'
  <2>1. Accounted'
    <3>1. \A d \in Copies : Waiting(d) => Waiting(d)' \/ d.id \in Reserved'
          BY ZenonT(30), <1>1, <1>4 DEF Waiting
    <3>. QED  BY Zenon, <1>1, <1>4, <3>1 DEF SealInv, Accounted
  <2>. QED  BY Zenon, <1>1, <1>2, <2>1, MovingSteps
<1>5. CASE ReserveGroup
  <2>1. PICK g, new : g = Head(groups) /\ Reserves(g, new)
        BY ZenonT(30), <1>5, ReserveFacts
  <2>2. UNCHANGED queue /\ groups # <<>> /\ groups' = Tail(groups)
        BY ZenonT(30), <1>5 DEF ReserveGroup, producerVars
  <2>3. g \in Seq(Copies)
        BY SMTT(30), <1>0, <2>1, <2>2
  <2>4. \A e \in Events : sequence[e] # 0 \/ e \in new => sequence'[e] # 0
        BY SMTT(30), <2>1 DEF Reserves, DInv, Shapes
  <2>5. Reserved \subseteq Reserved'
        BY Zenon, <2>4 DEF Reserved
  <2>6. \A i \in DOMAIN g : g[i].id \in Reserved'
    <3>1. \A i \in DOMAIN g : g[i].id \in Events
      <4>1. \A i \in DOMAIN g : g[i] \in Copies
            BY SMTT(30), <2>3
      <4>. QED  BY Zenon, <4>1 DEF Copies
    <3>2. \A i \in DOMAIN g : g[i].id \in new \/ sequence[g[i].id] # 0
          BY Zenon, <2>1 DEF Reserves
    <3>. QED  BY ZenonT(30), <2>4, <3>1, <3>2 DEF Reserved
  <2>7. \A d \in Copies : Within(d, groups) => Within(d, groups') \/ d.id \in Reserved'
        BY ZenonT(30), <1>0, <2>1, <2>2, <2>6, HeadOrTail
  <2>. QED  BY ZenonT(30), <1>4, <2>2, <2>5, <2>7
<1>6. CASE SplitGroup
  <2>1. UNCHANGED <<queue, sequence>> /\ groups # <<>>
        BY Zenon, <1>6 DEF SplitGroup, producerVars, storeVars
  <2>2. Reserved' = Reserved
        BY Zenon, <2>1 DEF Reserved
  <2>3. \A d \in Copies : Within(d, groups) => Within(d, groups')
        BY ZenonT(30), <1>6, SplitKeeps
  <2>. QED  BY ZenonT(30), <1>4, <2>1, <2>2, <2>3
<1>7. CASE RejectCopy
  <2>1. UNCHANGED <<queue, sequence>> /\ groups # <<>> /\ groups' = Tail(groups)
        BY Zenon, <1>7 DEF RejectCopy, producerVars, storeVars
  <2>2. PICK g : g = Head(groups)
        BY Zenon
  <2>3. Reserved' = Reserved /\ g[1].id \in Reserved
        BY ZenonT(30), <1>7, <2>1, <2>2, RejectedIsReserved DEF Reserved
  <2>4. \A n \in DOMAIN g : n = 1
    <3>1. Len(g) = 1
          BY Zenon, <1>7, <2>2 DEF RejectCopy
    <3>2. g \in Seq(Copies)
          BY SMTT(30), <1>0, <2>1, <2>2
    <3>. QED  BY SMTT(30), <3>1, <3>2
  <2>5. \A d \in Copies : Within(d, groups) => Within(d, groups') \/ d.id \in Reserved'
        BY ZenonT(30), <1>0, <2>1, <2>2, <2>3, <2>4, HeadOrTail
  <2>. QED  BY ZenonT(30), <1>4, <2>1, <2>3, <2>5
<1>. QED  BY ZenonT(30), <1>3, <1>5, <1>6, <1>7

\* The worker stops, the process restarts, and the run is sealed.
LEMMA EndSteps ==
    ASSUME DInv, SealInv, Close \/ Finish \/ PublisherRestart \/ Seal
    PROVE  SealInv'
<1>1. CASE Close
  <2>1. UNCHANGED <<offered, refused, held, queue, groups, sequence, sealed>> /\ phase' = "closing"
        BY Zenon, <1>1 DEF Close, producerVars, storeVars, cloudVars
  <2>2. groups = <<>> /\ ~sealed
        BY Zenon, <1>1 DEF Close, SealInv
  <2>3. Accounted'
        BY ZenonT(30), <2>1, AccountFrame DEF SealInv, Reserved
  <2>4. phase' # "finished"
        BY Zenon, <2>1
  <2>. QED  BY ZenonT(30), <2>1, <2>2, <2>3, <2>4, MovingSteps
<1>2. CASE Finish
  <2>1. /\ UNCHANGED <<offered, refused, held, queue, groups, sequence, pc, sealed, cloud>>
        /\ phase' = "finished" /\ pc = "idle" /\ queue = <<>> /\ held = <<>> /\ phase = "closing"
        BY Zenon, <1>2 DEF Finish, producerVars, storeVars, cloudVars
  <2>2. groups = <<>> /\ ~sealed
        BY Zenon, <2>1 DEF SealInv
  <2>3. Accounted'
        BY ZenonT(30), <2>1, AccountFrame DEF SealInv, Reserved
  <2>. QED  BY ZenonT(30), <2>1, <2>2, <2>3 DEF SealInv, SealedIsComplete
<1>3. CASE PublisherRestart
  <2>1. offered' = {} /\ groups' = <<>> /\ phase' = "open" /\ sealed' = FALSE
        BY Zenon, <1>3 DEF PublisherRestart
  <2>2. Accounted' /\ ~sealed' /\ phase' # "finished"
        BY Zenon, <2>1 DEF Accounted
  <2>. QED  BY ZenonT(30), <2>1, <2>2, MovingSteps
<1>4. CASE Seal
  <2>1. /\ UNCHANGED <<offered, refused, held, queue, groups, sequence, phase, pc, cloud>>
        /\ phase = "finished" /\ ~refused
        BY Zenon, <1>4 DEF Seal, producerVars, workerVars, storeVars
  <2>2. held = <<>> /\ queue = <<>> /\ groups = <<>>
        BY ZenonT(30), <2>1 DEF SealInv
  <2>3. \A d : ~Waiting(d)
        BY SMTT(30), <2>2 DEF Waiting, Within
  <2>4. offered \subseteq Reserved
        BY Zenon, <2>1, <2>3 DEF SealInv, Accounted
  <2>5. \A e \in Events : prow[e] # "pending" /\ row[e].state \notin {"pending", "dead_letter"}
        BY Zenon, <1>4 DEF Seal
  <2>6. Reserved \subseteq Delivered
        BY Zenon, <2>5 DEF DInv, NothingLost, Reserved
  <2>7. Reserved' = Reserved /\ Delivered' = Delivered
        BY Zenon, <2>1 DEF Reserved, Delivered, Stored
  <2>8. SealedIsComplete'
        BY ZenonT(30), <2>1, <2>4, <2>6, <2>7 DEF SealedIsComplete
  <2>9. Accounted'
        BY ZenonT(30), <2>1, <2>7, AccountFrame DEF SealInv
  <2>. QED  BY ZenonT(30), <2>1, <2>8, <2>9 DEF SealInv
<1>. QED  BY ZenonT(30), <1>1, <1>2, <1>3, <1>4

\* What the steps of the publication, the agent and the cloud leave alone.
Untouched ==
    /\ UNCHANGED <<offered, refused, held, queue, groups>>
    /\ UNCHANGED <<sequence, phase, sealed>>
    /\ pc' = pc \/ (groups = <<>> /\ phase # "finished")

\* The steps that publish, settle and prune.
LEMMA PublishingUntouched ==
    ASSUME SealInv,
           \/ Dispatch \/ ReplayTick \/ Publish \/ SettleLive \/ SettleReplay
           \/ PublishFails \/ RetireFails \/ PrunePublisher
    PROVE  Untouched /\ UNCHANGED cloud
<1>. USE DEF producerVars, workerVars, storeVars, cloudVars
<1>1. CASE Dispatch
  <2>1. /\ UNCHANGED <<offered, refused, held, queue, groups, sequence, phase, sealed, cloud>>
        /\ groups = <<>> /\ pc = "prepare"
        BY Zenon, <1>1 DEF Dispatch
  <2>. QED  BY Zenon, <2>1 DEF Untouched, SealInv
<1>2. CASE ReplayTick
  <2>1. /\ UNCHANGED <<offered, refused, held, queue, groups, sequence, phase, sealed, cloud>>
        /\ phase = "open" /\ pc = "idle"
        BY Zenon, <1>2 DEF ReplayTick
  <2>. QED  BY Zenon, <2>1 DEF Untouched, SealInv
<1>3. CASE Publish \/ PublishFails \/ PrunePublisher
      BY Zenon, <1>3 DEF Publish, PublishFails, PrunePublisher, Untouched
<1>4. CASE SettleLive \/ SettleReplay \/ RetireFails
  <2>1. EndAttempt /\ pc = "publish"
        BY Zenon, <1>4 DEF SettleLive, SettleReplay, RetireFails, WaitsOver
  <2>2. UNCHANGED <<offered, refused, held, queue, groups, sequence, phase, sealed, cloud>>
        BY ZenonT(30), <2>1 DEF EndAttempt, SettledVars
  <2>. QED  BY ZenonT(30), <2>1, <2>2 DEF Untouched, SealInv
<1>. QED  BY ZenonT(30), <1>1, <1>2, <1>3, <1>4

\* The steps of the bus, the agent and the cloud.
LEMMA AgentUntouched ==
    ASSUME \/ \E i \in DOMAIN bus : LoseMessage(i) \/ Accept(i)
           \/ AgentStep \/ \E answer \in Answers : CloudAnswers(answer)
           \/ \E e \in Events : RetryDue(e) \/ PruneAgent(e)
           \/ Resume \/ AgentRestart \/ AgentStop \/ UNCHANGED vars
    PROVE  Untouched /\ UNCHANGED <<workerVars, storeVars, todo, awaiting, failed>>
<1>. USE DEF attemptVars, cloudVars
<1>0. UNCHANGED <<producerVars, workerVars, storeVars, sealed>> => Untouched
      BY Zenon DEF Untouched, producerVars, workerVars, storeVars
<1>1. CASE \E i \in DOMAIN bus : LoseMessage(i) \/ Accept(i)
      BY ZenonT(30), <1>0, <1>1 DEF LoseMessage, Accept
<1>2. CASE Arm \/ Flush \/ ReadDeadline \/ Wake
      BY ZenonT(30), <1>0, <1>2 DEF Arm, Flush, ReadDeadline, Wake
<1>3. CASE Committed \/ Reconciled \/ Refreshed \/ Retried \/ Bisected \/ DeadLettered
      BY ZenonT(30), <1>0, <1>3 DEF Committed, Reconciled, Refreshed, Retried, Bisected, DeadLettered, OffAgent
<1>4. CASE \E answer \in Answers : CloudAnswers(answer)
      BY ZenonT(30), <1>0, <1>4 DEF CloudAnswers
<1>5. CASE \E e \in Events : RetryDue(e) \/ PruneAgent(e)
      BY ZenonT(30), <1>0, <1>5 DEF RetryDue, PruneAgent
<1>6. CASE Resume \/ AgentRestart \/ AgentStop \/ UNCHANGED vars
      BY ZenonT(30), <1>0, <1>6 DEF Resume, AgentRestart, AgentStop, vars
<1>. QED  BY ZenonT(30), <1>1, <1>2, <1>3, <1>4, <1>5, <1>6 DEF AgentStep

\* A sealed run stays complete in every step.
LEMMA StepSealInv == DInv /\ DInv' /\ SealInv /\ [Next]_vars => SealInv'
<1>. SUFFICES ASSUME DInv, DInv', SealInv, [Next]_vars PROVE SealInv'
     BY ZenonT(30)
<1>1. Len(cloud) \in Nat /\ Len(cloud') \in Nat
      BY SMTT(30) DEF DInv, Shapes
<1>2. CASE \/ \E c \in Copies : Offer(c) \/ OfferRefused(c)
           \/ \E i \in DOMAIN held : Send(i)
      BY Zenon, <1>2, ProducersAccount
<1>3. CASE Collect \/ ReserveGroup \/ SplitGroup \/ RejectCopy
      BY ZenonT(30), <1>3, WorkerAccounts
<1>4. CASE Close \/ Finish \/ PublisherRestart \/ Seal
      BY ZenonT(30), <1>4, EndSteps
<1>5. CASE \/ Dispatch \/ ReplayTick \/ Publish \/ SettleLive \/ SettleReplay
           \/ PublishFails \/ RetireFails \/ PrunePublisher
  <2>1. Untouched /\ UNCHANGED cloud
        BY ZenonT(30), <1>5, PublishingUntouched
  <2>2. Len(cloud') >= Len(cloud)
        BY SMTT(30), <1>1, <2>1
  <2>. QED  BY ZenonT(30), <1>1, <2>1, <2>2, SealFrame DEF Untouched
<1>6. CASE \/ \E i \in DOMAIN bus : LoseMessage(i) \/ Accept(i)
           \/ AgentStep \/ \E answer \in Answers : CloudAnswers(answer)
           \/ \E e \in Events : RetryDue(e) \/ PruneAgent(e)
           \/ Resume \/ AgentRestart \/ AgentStop \/ UNCHANGED vars
  <2>1. Untouched
        BY ZenonT(30), <1>6, AgentUntouched
  <2>2. Len(cloud') >= Len(cloud)
    <3>1. CASE ReserveGroup
      <4>1. UNCHANGED cloud
            BY Zenon, <3>1 DEF ReserveGroup, cloudVars
      <4>. QED  BY SMTT(30), <1>1, <4>1
    <3>2. CASE \E answer \in Answers : CloudAnswers(answer)
          BY ZenonT(30), <3>2, CloudGrows
    <3>3. CASE UNCHANGED <<sequence, fingerprint, cloud>>
          BY SMTT(30), <1>1, <3>3
    <3>. QED  BY ZenonT(30), <3>1, <3>2, <3>3, OtherSteps
  <2>. QED  BY ZenonT(30), <1>1, <2>1, <2>2, SealFrame DEF Untouched
<1>. QED  BY ZenonT(30), <1>2, <1>3, <1>4, <1>5, <1>6 DEF Next, PublisherStep

\* Nothing is offered or sealed at the start.
LEMMA InitSealInv == Init => SealInv
BY Zenon DEF Init, SealInv, Accounted, SealedIsComplete

\* For every instance: once EmbeddedHostedSync::shutdown seals the run, all that
\* the strategy published since it started and all that was ever reserved is in
\* the cloud, however batches were split, lost, retried or dead-lettered before.
THEOREM SealedRunsAreComplete == Spec => []SealedIsComplete
<1>1. SealInv => SealedIsComplete
      BY Zenon DEF SealInv
<1>. QED  BY Invariance, InitSealInv, StepSealInv, <1>1, PTL DEF Spec

(***************************************************************************)
(* No payload is stranded while identities are not reused.                 *)
(***************************************************************************)

\* An identity is published with one content only.
OneBody == \A a, b \in Bodies : a = b

\* Outside emergency mode the worker knows of every pending payload: it is one of
\* the batch being prepared, or is being published, or a failure was noted.
StrandInv ==
    /\ \A e \in Reserved : fingerprint[e] \in Bodies
    /\ rejected = {}
    /\ NothingStranded
    /\ pc = "prepare" /\ ~emergency => PubPending \subseteq fresh
    /\ pc = "publish" /\ mode = "live" => failed \/ PubPending \subseteq todo \cup awaiting

\* A step that concerns neither the worker nor its database.
LEMMA StrandFrame ==
    ASSUME StrandInv, UNCHANGED <<sequence, fingerprint, prow, rejected, fresh>>,
           UNCHANGED <<pc, mode, emergency, todo, awaiting, failed>>
    PROVE  StrandInv'
<1>1. Reserved' = Reserved /\ PubPending' = PubPending
      BY Zenon DEF Reserved, PubPending
<1>. QED  BY Zenon, <1>1 DEF StrandInv, NothingStranded

\* What a step of the worker owes outside the reservation and the collection.
LEMMA StrandSteps ==
    ASSUME StrandInv, UNCHANGED <<sequence, fingerprint>>, rejected' = {},
           pc' = "idle" /\ ~emergency' => PubPending' = {}, pc' # "prepare",
           pc' = "publish" /\ mode' = "live" => failed' \/ PubPending' \subseteq todo' \cup awaiting'
    PROVE  StrandInv'
<1>1. Reserved' = Reserved
      BY Zenon DEF Reserved
<1>. QED  BY Zenon, <1>1 DEF StrandInv, NothingStranded

\* With one content per identity no copy conflicts with its reservation.
LEMMA NoRejection == ASSUME DInv, OneBody, StrandInv, RejectCopy PROVE FALSE
<1>1. PICK c \in Copies : c.id \in Reserved /\ c.body # fingerprint[c.id]
      BY Zenon, RejectedIsReserved
<1>2. c.body \in Bodies
      BY Zenon, <1>1 DEF Copies
<1>. QED  BY ZenonT(30), <1>1, <1>2 DEF OneBody, StrandInv

\* Collecting, reserving and splitting: what becomes pending is fresh.
LEMMA PreparingSteps ==
    ASSUME DInv, OneBody, StrandInv, Collect \/ ReserveGroup \/ SplitGroup \/ RejectCopy
    PROVE  StrandInv'
<1>1. CASE Collect
  <2>1. /\ UNCHANGED <<sequence, fingerprint, prow, emergency>>
        /\ pc = "idle" /\ pc' = "prepare" /\ rejected' = {}
        BY Zenon, <1>1 DEF Collect, storeVars
  <2>2. Reserved' = Reserved /\ PubPending' = PubPending
        BY ZenonT(30), <2>1 DEF Reserved, PubPending
  <2>3. ~emergency => PubPending = {}
        BY ZenonT(30), <2>1 DEF StrandInv, NothingStranded
  <2>4. pc' # "idle" /\ pc' # "publish"
        BY ZenonT(30), <2>1
  <2>. QED  BY ZenonT(30), <2>1, <2>2, <2>3, <2>4 DEF StrandInv, NothingStranded
<1>2. CASE ReserveGroup
  <2>1. PICK g, new : g = Head(groups) /\ new = Unreserved(g) /\ Reserves(g, new)
        BY ZenonT(30), <1>2, ReserveFacts
  <2>2. UNCHANGED <<rejected, emergency, pc>> /\ pc = "prepare" /\ groups # <<>>
        BY ZenonT(30), <1>2 DEF ReserveGroup
  <2>3. \A i \in DOMAIN g : g[i].body \in Bodies
    <3>1. g \in Seq(Copies)
          BY SMTT(30), <2>1, <2>2 DEF DInv, Shapes
    <3>2. \A i \in DOMAIN g : g[i] \in Copies
          BY SMTT(30), <3>1
    <3>. QED  BY ZenonT(30), <3>2 DEF Copies
  <2>4. \A e \in new : fingerprint'[e] \in Bodies
    <3>1. \A e \in new : \E i \in DOMAIN g : g[i].id = e
          BY Zenon, <2>1 DEF Unreserved
    <3>2. \A i \in DOMAIN g : fingerprint'[g[i].id] = g[i].body
          BY ZenonT(30), <2>1 DEF Reserves
    <3>. QED  BY ZenonT(30), <2>3, <3>1, <3>2
  <2>5. \A e \in Reserved' : fingerprint'[e] \in Bodies
    <3>1. \A e \in Reserved' : e \in new \/ (e \in Reserved /\ fingerprint'[e] = fingerprint[e])
          BY Zenon, <2>1 DEF Reserves, Reserved
    <3>. QED  BY ZenonT(30), <2>4, <3>1 DEF StrandInv
  <2>6. PubPending' \subseteq PubPending \cup new /\ fresh' = fresh \cup new
        BY ZenonT(30), <2>1 DEF Reserves, PubPending
  <2>7. pc' # "idle" /\ pc' # "publish"
        BY ZenonT(30), <2>2
  <2>. QED  BY ZenonT(30), <2>2, <2>5, <2>6, <2>7 DEF StrandInv, NothingStranded
<1>3. CASE SplitGroup
  <2>1. /\ UNCHANGED <<sequence, fingerprint, prow, rejected, fresh>>
        /\ UNCHANGED <<pc, mode, emergency, todo, awaiting, failed>>
        BY ZenonT(30), <1>3 DEF SplitGroup, storeVars, attemptVars
  <2>. QED  BY ZenonT(30), <2>1, StrandFrame
<1>. QED  BY ZenonT(30), <1>1, <1>2, <1>3, NoRejection

\* An attempt begins: a replay in emergency mode, else with all that is fresh.
LEMMA BeginningSteps ==
    ASSUME DInv, StrandInv, Dispatch \/ ReplayTick \/ Close \/ PublisherRestart
    PROVE  StrandInv'
<1>1. UNCHANGED <<sequence, fingerprint, prow>>
      BY Zenon DEF Dispatch, ReplayTick, Close, PublisherRestart, storeVars
<1>2. PubPending' = PubPending
      BY Zenon, <1>1 DEF PubPending
<1>3. CASE Dispatch
  <2>1. pc = "prepare" /\ emergency' = emergency /\ rejected' = {} /\ rejected = {}
        BY ZenonT(30), <1>3 DEF Dispatch, StrandInv
  <2>2. CASE ~emergency
    <3>1. pc' = "publish" /\ todo' = fresh \ rejected
          BY ZenonT(30), <1>3, <2>2 DEF Dispatch, ReadyToPublish
    <3>2. PubPending \subseteq todo'
          BY ZenonT(30), <2>1, <2>2, <3>1 DEF StrandInv
    <3>3. pc' # "idle" /\ pc' # "prepare"
          BY Zenon, <3>1
    <3>. QED  BY ZenonT(30), <1>1, <1>2, <2>1, <3>2, <3>3, StrandSteps
  <2>3. CASE emergency
    <3>1. (pc' = "publish" /\ mode' = "replay") \/ pc' = "idle"
          BY ZenonT(30), <1>3, <2>3 DEF Dispatch, BeginReplay
    <3>2. pc' # "prepare" /\ ~(pc' = "publish" /\ mode' = "live")
          BY Zenon, <3>1
    <3>. QED  BY ZenonT(30), <1>1, <2>1, <2>3, <3>2, StrandSteps
  <2>. QED  BY ZenonT(30), <2>2, <2>3
<1>4. CASE ReplayTick \/ (Close /\ emergency)
  <2>1. pc' = "publish" /\ mode' = "replay" /\ rejected' = rejected
        BY Zenon, <1>4 DEF ReplayTick, Close, BeginReplay
  <2>2. pc' # "prepare" /\ pc' # "idle" /\ mode' # "live"
        BY Zenon, <2>1
  <2>. QED  BY ZenonT(30), <1>1, <2>1, <2>2, StrandSteps DEF StrandInv
<1>5. CASE Close /\ ~emergency
  <2>1. /\ UNCHANGED <<rejected, fresh>>
        /\ UNCHANGED <<pc, mode, emergency, todo, awaiting, failed>>
        BY Zenon, <1>5 DEF Close, attemptVars
  <2>. QED  BY ZenonT(30), <1>1, <2>1, StrandFrame
<1>6. CASE PublisherRestart
  <2>1. pc' = "idle" /\ rejected' = {} /\ emergency' = (PubPending # {})
        BY Zenon, <1>6 DEF PublisherRestart
  <2>2. pc' # "prepare" /\ pc' # "publish"
        BY Zenon, <2>1
  <2>. QED  BY ZenonT(30), <1>1, <1>2, <2>1, <2>2, StrandSteps
<1>. QED  BY ZenonT(30), <1>3, <1>4, <1>5, <1>6

\* An attempt proceeds and ends: a payload that stays pending leaves the worker
\* in emergency mode.
LEMMA SettlingSteps ==
    ASSUME DInv, StrandInv,
           \/ Publish \/ PublishFails \/ SettleLive \/ SettleReplay
           \/ RetireFails \/ PrunePublisher
    PROVE  StrandInv'
<1>1. CASE Publish \/ PublishFails
  <2>1. /\ UNCHANGED <<sequence, fingerprint, prow, rejected, mode>> /\ pc' = pc /\ pc = "publish"
        /\ failed' = TRUE \/ (failed' = failed /\ todo \cup awaiting \subseteq todo' \cup awaiting')
        BY ZenonT(30), <1>1 DEF Publish, PublishFails, storeVars, workerVars
  <2>2. PubPending' = PubPending
        BY Zenon, <2>1 DEF PubPending
  <2>3. pc' # "idle" /\ pc' # "prepare"
        BY ZenonT(30), <2>1
  <2>. QED  BY ZenonT(30), <2>1, <2>2, <2>3, StrandSteps DEF StrandInv
<1>2. CASE SettleLive \/ SettleReplay \/ RetireFails
  <2>1. EndAttempt /\ pc = "publish" /\ todo = {}
        BY ZenonT(30), <1>2 DEF SettleLive, SettleReplay, RetireFails, WaitsOver
  <2>2. UNCHANGED <<sequence, fingerprint, rejected>> /\ pc' = "idle"
        BY Zenon, <2>1 DEF EndAttempt, SettledVars
  <2>3. ~emergency' => PubPending' = {}
    <3>1. CASE SettleLive
      <4>1. /\ prow' = [e \in Events |-> IF e \in acked THEN "committed" ELSE prow[e]]
            /\ emergency' = (failed \/ ~(awaiting \subseteq acked)) /\ mode = "live"
            BY ZenonT(30), <3>1 DEF SettleLive, Retire
      <4>2. failed \/ PubPending \subseteq awaiting
            BY ZenonT(30), <2>1, <4>1 DEF StrandInv
      <4>3. PubPending' \subseteq PubPending \ acked
            BY ZenonT(30), <4>1 DEF PubPending
      <4>. QED  BY ZenonT(30), <4>1, <4>2, <4>3
    <3>2. CASE SettleReplay
      <4>1. CASE AcceptedPrefix = awaiting /\ ~failed
        <5>1. /\ prow' = [e \in Events |-> IF e \in AcceptedPrefix \/ prow[e] = "committed"
                                            THEN "none" ELSE prow[e]]
              /\ emergency' = (PubPending \ AcceptedPrefix # {})
              BY ZenonT(30), <3>2, <4>1 DEF SettleReplay
        <5>2. PubPending' \subseteq PubPending \ AcceptedPrefix
              BY Zenon, <5>1 DEF PubPending
        <5>. QED  BY ZenonT(30), <5>1, <5>2
      <4>2. CASE ~(AcceptedPrefix = awaiting /\ ~failed)
            BY ZenonT(30), <3>2, <4>2 DEF SettleReplay
      <4>. QED  BY ZenonT(30), <4>1, <4>2
    <3>3. CASE RetireFails
          BY Zenon, <3>3 DEF RetireFails
    <3>. QED  BY ZenonT(30), <1>2, <3>1, <3>2, <3>3
  <2>4. pc' # "prepare" /\ pc' # "publish"
        BY Zenon, <2>2
  <2>. QED  BY ZenonT(30), <2>2, <2>3, <2>4, StrandSteps DEF StrandInv
<1>3. CASE PrunePublisher
  <2>1. /\ UNCHANGED <<sequence, fingerprint, rejected, emergency, pc>> /\ pc = "idle"
        /\ prow' = [e \in Events |-> IF prow[e] = "committed" THEN "none" ELSE prow[e]]
        BY Zenon, <1>3 DEF PrunePublisher, workerVars
  <2>2. PubPending' \subseteq PubPending
        BY Zenon, <2>1 DEF PubPending
  <2>3. ~emergency => PubPending = {}
        BY Zenon, <2>1 DEF StrandInv, NothingStranded
  <2>4. pc' # "prepare" /\ pc' # "publish" /\ (~emergency' => PubPending' = {})
        BY ZenonT(30), <2>1, <2>2, <2>3
  <2>. QED  BY ZenonT(30), <2>1, <2>4, StrandSteps DEF StrandInv
<1>. QED  BY ZenonT(30), <1>1, <1>2, <1>3

\* Every step keeps the pending payloads in sight.
LEMMA StepStrandInv == DInv /\ OneBody /\ StrandInv /\ [Next]_vars => StrandInv'
<1>. SUFFICES ASSUME DInv, OneBody, StrandInv, [Next]_vars PROVE StrandInv'
     BY Zenon
<1>1. CASE \/ \E c \in Copies : Offer(c) \/ OfferRefused(c)
           \/ \E i \in DOMAIN held : Send(i)
           \/ Finish \/ Seal
  <2>1. /\ UNCHANGED <<sequence, fingerprint, prow, rejected, fresh>>
        /\ UNCHANGED <<pc, mode, emergency, todo, awaiting, failed>>
        BY ZenonT(30), <1>1 DEF Offer, OfferRefused, Send, Finish, Seal, storeVars, workerVars, attemptVars
  <2>. QED  BY ZenonT(30), <2>1, StrandFrame
<1>2. CASE Collect \/ ReserveGroup \/ SplitGroup \/ RejectCopy
      BY ZenonT(30), <1>2, PreparingSteps
<1>3. CASE Dispatch \/ ReplayTick \/ Close \/ PublisherRestart
      BY ZenonT(30), <1>3, BeginningSteps
<1>4. CASE \/ Publish \/ PublishFails \/ SettleLive \/ SettleReplay
           \/ RetireFails \/ PrunePublisher
      BY ZenonT(30), <1>4, SettlingSteps
<1>5. CASE \/ \E i \in DOMAIN bus : LoseMessage(i) \/ Accept(i)
           \/ AgentStep \/ \E answer \in Answers : CloudAnswers(answer)
           \/ \E e \in Events : RetryDue(e) \/ PruneAgent(e)
           \/ Resume \/ AgentRestart \/ AgentStop \/ UNCHANGED vars
  <2>1. UNCHANGED <<workerVars, storeVars, todo, awaiting, failed>>
        BY ZenonT(30), <1>5, AgentUntouched
  <2>2. /\ UNCHANGED <<sequence, fingerprint, prow, rejected, fresh>>
        /\ UNCHANGED <<pc, mode, emergency, todo, awaiting, failed>>
        BY Zenon, <2>1 DEF workerVars, storeVars
  <2>. QED  BY ZenonT(30), <2>2, StrandFrame
<1>. QED  BY ZenonT(30), <1>1, <1>2, <1>3, <1>4, <1>5 DEF Next, PublisherStep

\* Nothing is pending at the start.
LEMMA InitStrandInv == Init => StrandInv
BY Zenon DEF Init, StrandInv, NothingStranded, PubPending, Reserved

\* For every instance in which an identity has one content: a worker that is idle
\* outside emergency mode has no pending payload, whatever was lost, refused or
\* crashed.  The condition is needed: two contents for one identity in a batch
\* strand the one that was reserved (see the delivery_conflict run).
THEOREM NothingIsStranded == Spec => [](OneBody => NothingStranded)
<1>1. CASE OneBody
  <2>1. Init /\ [][Next]_vars => [](DInv /\ StrandInv)
    <3>1. DInv /\ StrandInv /\ [Next]_vars => StrandInv'
          BY Zenon, <1>1, StepStrandInv
    <3>. QED  BY InitDInv, StepDInv, InitStrandInv, <3>1, PTL
  <2>2. StrandInv => NothingStranded
        BY Zenon DEF StrandInv
  <2>. QED  BY <2>1, <2>2, PTL DEF Spec
<1>2. CASE ~OneBody
      BY <1>2, PTL
<1>. QED  BY ZenonT(30), <1>1, <1>2
=============================================================================
