-------------------------- MODULE MCCommandWorker --------------------------
(***************************************************************************)
(* Small instances of CommandWorker: an entry and the cancellation of its  *)
(* order, or an entry and an amendment of its order or the close of its    *)
(* position.                                                               *)
(***************************************************************************)
EXTENDS CommandWorker, TLC

CONSTANTS s1, k1, m1, c1

AllKinds == s1 :> "submit" @@ k1 :> "cancel" @@ m1 :> "amend" @@ c1 :> "close"
EntryAndCancel == s1 :> "submit" @@ k1 :> "cancel"
OneOrder == [c \in Commands |-> s1]

\* Which commands an owner uses together.  Every failure is explored for the
\* cancelled entry, with a stop or a withdrawal; the others keep entries open.
Used == {c \in Commands : journal[c].state # "absent"} \union admitted
CancelledOrManaged ==
    \/ Used \subseteq {s1, k1} /\ (gate.stopped => gate.cancelled = {})
    \/ /\ ~gate.stopped /\ gate.cancelled = {}
       /\ Used \subseteq {s1, m1} \/ Used \subseteq {s1, c1}

\* The same worker in a process that does not fail, whose owner keeps listening
\* and withdraws no entry; it may be stopped at any time.
LivingNext == Next /\ Up' /\ ~closed' /\ gate'.cancelled = {} /\ result' # "changed"
LivingSpec == Init /\ [][LivingNext]_vars /\ Fairness
=============================================================================
