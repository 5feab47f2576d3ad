---------------------------- MODULE AccountLane ----------------------------
(***************************************************************************)
(* Process-wide admission to the broker mutation slot of one account       *)
(* (src/core/broker/command_worker/account_lane.rs).  Every command worker *)
(* of the process that trades the account asks the same lane for a permit  *)
(* before it mutates the broker.  The lane holds one permit, two queues of *)
(* waiters (cleanup before normal, first come first served inside each)    *)
(* and one stored wakeup per waiter (tokio::sync::Notify).                 *)
(*                                                                         *)
(* Every step below is one critical section of the lane's mutex, or the    *)
(* part of `acquire` between two of them.  A queue is a map ordered by an  *)
(* ever growing u64 key; only the order of the keys matters, so the model  *)
(* keeps for each waiter the set of older waiters of its class instead.    *)
(***************************************************************************)
EXTENDS Naturals, FiniteSets

CONSTANTS
    Workers,      \* tasks that ask for the permit
    MaxWaiters    \* MAX_WAITERS: bound of each waiting queue

ASSUME LaneAssumption == IsFiniteSet(Workers) /\ MaxWaiters \in Nat

VARIABLES
    active,       \* Admission.active: a permit is outstanding
    waiting,      \* Admission.waiting: the workers queued in each class
    older,        \* the waiters of its class with a smaller key than w's
    notified,     \* waiters whose Notify stores a wakeup not yet consumed
    task          \* what each worker is doing with the lane

vars == <<active, waiting, older, notified, task>>

Classes == {"cleanup", "normal"}

\* A worker is outside the lane, suspended in `acquire`, or owns the permit.
Idle == [pc |-> "idle", class |-> "normal"]
Waiting(class) == [pc |-> "waiting", class |-> class]
Holding(class) == [pc |-> "holding", class |-> class]

Waits(w, class) == task[w] = Waiting(class)
Holds(w) == task[w].pc = "holding"

(***************************************************************************)
(* Admission::next: the oldest cleanup waiter, else the oldest normal one. *)
(***************************************************************************)
IsNext(w, queues, before) ==
    /\ before[w] = {}
    /\ \/ w \in queues["cleanup"]
       \/ w \in queues["normal"] /\ queues["cleanup"] = {}

(***************************************************************************)
(* Admission::wake: if no permit is outstanding, store a wakeup for the    *)
(* next waiter (notify_one keeps at most one per Notify).                  *)
(***************************************************************************)
Woken(isActive, queues, before) ==
    IF isActive THEN {} ELSE {w \in Workers : IsNext(w, queues, before)}

\* BTreeMap::remove of w's key.
Dequeue(w) ==
    /\ waiting' = [waiting EXCEPT ![task[w].class] = @ \ {w}]
    /\ older' = [v \in Workers |-> IF v = w THEN {} ELSE older[v] \ {w}]

Init ==
    /\ active = FALSE
    /\ waiting = [class \in Classes |-> {}]
    /\ older = [w \in Workers |-> {}]
    /\ notified = {}
    /\ task = [w \in Workers |-> Idle]

\* Variants of MayTakeAtOnce with a mistake: an outstanding permit, or the
\* queues, are not looked at.
TakeWhileActive(class) ==
    waiting["cleanup"] = {} /\ (class = "cleanup" \/ waiting["normal"] = {})
TakeWhileQueued(class) == ~active

\* The uncontended path of `acquire`: nobody it must queue behind.
MayTakeAtOnce(class) ==
    /\ ~active
    /\ waiting["cleanup"] = {}
    /\ class = "cleanup" \/ waiting["normal"] = {}

AcquireNow(w, class) ==
    /\ task[w].pc = "idle"
    /\ MayTakeAtOnce(class)
    /\ active' = TRUE
    /\ task' = [task EXCEPT ![w] = Holding(class)]
    /\ UNCHANGED <<waiting, older, notified>>

\* Variant of AcquireQueue with a mistake: the bound is off by one.
AcquireQueuePastBound(w, class) ==
    /\ task[w].pc = "idle"
    /\ ~MayTakeAtOnce(class)
    /\ Cardinality(waiting[class]) <= MaxWaiters
    /\ waiting' = [waiting EXCEPT ![class] = @ \union {w}]
    /\ older' = [older EXCEPT ![w] = waiting[class]]
    /\ notified' = notified \union Woken(active, waiting', older')
    /\ task' = [task EXCEPT ![w] = Waiting(class)]
    /\ UNCHANGED active

\* The contended path: queue under a fresh key, then wake the next waiter.
\* QueueFull (the class is full) leaves the lane as it was.
AcquireQueue(w, class) ==
    /\ task[w].pc = "idle"
    /\ ~MayTakeAtOnce(class)
    /\ Cardinality(waiting[class]) < MaxWaiters
    /\ waiting' = [waiting EXCEPT ![class] = @ \union {w}]
    /\ older' = [older EXCEPT ![w] = waiting[class]]
    /\ notified' = notified \union Woken(active, waiting', older')
    /\ task' = [task EXCEPT ![w] = Waiting(class)]
    /\ UNCHANGED active

\* Variants of Notified with a mistake: a woken waiter applies the uncontended
\* test although it is itself queued, or waits until it is alone in its queue.
NotifiedIfUncontended(w) ==
    /\ task[w].pc = "waiting" /\ w \in notified
    /\ MayTakeAtOnce(task[w].class)
    /\ notified' = notified \ {w} /\ active' = TRUE
    /\ Dequeue(w)
    /\ task' = [task EXCEPT ![w] = Holding(task[w].class)]
NotifiedIfAlone(w) ==
    /\ task[w].pc = "waiting" /\ w \in notified
    /\ ~active /\ IsNext(w, waiting, older) /\ waiting[task[w].class] = {w}
    /\ notified' = notified \ {w} /\ active' = TRUE
    /\ Dequeue(w)
    /\ task' = [task EXCEPT ![w] = Holding(task[w].class)]

\* notified().await returns: the wakeup is consumed, and the waiter takes the
\* permit only if it is free and the waiter is next; otherwise it loops.
Notified(w) ==
    /\ task[w].pc = "waiting"
    /\ w \in notified
    /\ notified' = notified \ {w}
    /\ IF ~active /\ IsNext(w, waiting, older)
       THEN /\ active' = TRUE
            /\ Dequeue(w)
            /\ task' = [task EXCEPT ![w] = Holding(task[w].class)]
       ELSE UNCHANGED <<active, waiting, older, task>>

\* Variants of WaiterDrop with a mistake: nobody else is woken, or the key stays
\* in the queue.
WaiterDropSilent(w) ==
    /\ task[w].pc = "waiting"
    /\ Dequeue(w)
    /\ notified' = notified \ {w}
    /\ task' = [task EXCEPT ![w] = Idle]
    /\ UNCHANGED active
WaiterDropKeepsKey(w) ==
    /\ task[w].pc = "waiting"
    /\ notified' = (notified \ {w}) \union Woken(active, waiting, older)
    /\ task' = [task EXCEPT ![w] = Idle]
    /\ UNCHANGED <<active, waiting, older>>

\* Drop of an armed Waiter: the caller gave up (its future was dropped).
WaiterDrop(w) ==
    /\ task[w].pc = "waiting"
    /\ Dequeue(w)
    /\ notified' = (notified \ {w}) \union Woken(active, waiting', older')
    /\ task' = [task EXCEPT ![w] = Idle]
    /\ UNCHANGED active

\* Drop of the AccountPermit.
PermitDrop(w) ==
    /\ Holds(w)
    /\ active' = FALSE
    /\ notified' = notified \union Woken(FALSE, waiting, older)
    /\ task' = [task EXCEPT ![w] = Idle]
    /\ UNCHANGED <<waiting, older>>

Next ==
    \E w \in Workers :
        \/ \E class \in Classes : AcquireNow(w, class) \/ AcquireQueue(w, class)
        \/ Notified(w)
        \/ WaiterDrop(w)
        \/ PermitDrop(w)

(***************************************************************************)
(* A woken task is eventually polled by the runtime, and every permit      *)
(* holder finishes: the worker bounds each broker call with a timeout.     *)
(***************************************************************************)
Fairness ==
    \A w \in Workers : WF_vars(Notified(w)) /\ WF_vars(PermitDrop(w))

Spec == Init /\ [][Next]_vars
FairSpec == Spec /\ Fairness

-----------------------------------------------------------------------------
\* Type invariant; neither queue grows past its bound.
TypeOK ==
    /\ active \in BOOLEAN
    /\ waiting \in [Classes -> SUBSET Workers]
    /\ older \in [Workers -> SUBSET Workers]
    /\ \A class \in Classes : Cardinality(waiting[class]) <= MaxWaiters
    /\ notified \subseteq Workers
    /\ task \in [Workers -> [pc : {"idle", "waiting", "holding"}, class : Classes]]

\* One account never has two outstanding permits, and `active` is set exactly
\* while somebody owns one: no path of acquire or drop forgets to set it.
OnePermit ==
    /\ \A v, w \in Workers : Holds(v) /\ Holds(w) => v = w
    /\ active <=> \E w \in Workers : Holds(w)

\* No lost wakeup: whenever the permit is free and somebody is queued, the
\* waiter that must go next has a wakeup stored, whatever interleaving of
\* releases, new requests and abandoned waits led there.
NextIsWoken ==
    ~active => \A w \in Workers : IsNext(w, waiting, older) => w \in notified

\* The queues hold exactly the suspended requests, in one order per class: a
\* request that was granted or abandoned leaves nothing behind, and no two
\* waiters of a class are unordered.
QueuesMatchTasks ==
    /\ \A class \in Classes : waiting[class] = {w \in Workers : Waits(w, class)}
    /\ \A w \in Workers : older[w] \subseteq waiting[task[w].class] \ {w}
    /\ \A w \in Workers : task[w].pc # "waiting" => older[w] = {}
    /\ \A class \in Classes : \A v, w \in waiting[class] :
          v # w => (v \in older[w] <=> w \notin older[v])

Granted(w) == ~Holds(w) /\ Holds(w)'
Precedes(w, v) == task[w] = task[v] /\ w \in older[v]

GrantsInOrder ==
    \A w, v \in Workers : Granted(w) /\ v # w =>
        /\ Waits(v, "cleanup") => Precedes(w, v)
        /\ Waits(v, "normal") /\ task'[w].class = "normal" => Precedes(w, v)

\* Teardown is never stuck behind entries and nobody barges: a step grants the
\* permit past a queued cleanup only to an older cleanup, and grants a normal
\* request past a queued normal one only if it queued earlier.
GrantOrder == [][GrantsInOrder]_vars

\* Every cleanup that queues gets the permit or withdraws, however many normal
\* requests arrive and however many wakeups go to waiters that are overtaken.
CleanupIsServed ==
    \A w \in Workers : Waits(w, "cleanup") ~> ~Waits(w, "cleanup")

\* A normal waiter is served too, unless cleanups keep overtaking it for ever.
NormalIsServed ==
    \A w \in Workers :
        <>[](\A v \in Workers : task[v].class = "normal") => []<>(~Waits(w, "normal"))
=============================================================================
