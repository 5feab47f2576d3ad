----------------------------- MODULE OrderedLog -----------------------------
(***************************************************************************)
(* What the live-sync pipeline promises for the critical events of one     *)
(* runtime scope: a numbered log of accepted entries in which no event     *)
(* occurs twice, and a cloud copy that is always an initial part of it.    *)
(* Events are accepted by the strategy's publisher and reach the cloud in  *)
(* that order, each once and with the body that was accepted.              *)
(***************************************************************************)
EXTENDS Naturals

VARIABLES
    accepted,     \* entries [seq, id, body] with a durable reservation
    delivered     \* entries the cloud has stored

vars == <<accepted, delivered>>

\* No number and no identity belongs to two entries.
Distinct(S) == \A x, y \in S : x.seq = y.seq \/ x.id = y.id => x = y

\* The numbers start at one and leave nothing out.
Contiguous(S) == \A x \in S : \A n \in 1 .. x.seq : \E y \in S : y.seq = n

Init ==
    /\ accepted = {}
    /\ delivered = {}

\* New entries are appended; an entry never moves, changes or disappears.
Accept ==
    /\ accepted \subseteq accepted'
    /\ Distinct(accepted') /\ Contiguous(accepted')
    /\ UNCHANGED delivered

\* The cloud copy grows along the accepted log.
Deliver ==
    /\ delivered \subseteq delivered'
    /\ delivered' \subseteq accepted /\ Contiguous(delivered')
    /\ UNCHANGED accepted

Next == Accept \/ Deliver

Spec == Init /\ [][Next]_vars
=============================================================================
