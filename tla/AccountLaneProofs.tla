------------------------- MODULE AccountLaneProofs -------------------------
(***************************************************************************)
(* Proofs, for any finite set of workers and any queue bound, of the       *)
(* safety properties of AccountLane.  The inductive invariant is the       *)
(* conjunction of the checked invariants: mutual exclusion needs nothing   *)
(* else, but "the next waiter is woken" and the grant order rest on the    *)
(* queues holding exactly the suspended requests.                          *)
(***************************************************************************)
EXTENDS AccountLane, FiniteSetTheorems, TLAPS

LaneInv == TypeOK /\ OnePermit /\ QueuesMatchTasks /\ NextIsWoken

\* The initial state satisfies the invariant.
LEMMA InitLaneInv == Init => LaneInv
  <1> SUFFICES ASSUME Init PROVE LaneInv
    BY Zenon
  <1>1. TypeOK
    <2>1. \A class \in Classes : Cardinality(waiting[class]) <= MaxWaiters
      BY SMTT(30), FS_EmptySet, LaneAssumption DEF Init
    <2> QED
      BY Zenon, <2>1 DEF Init, TypeOK, Idle, Classes
  <1>2. OnePermit
    BY Zenon DEF Init, OnePermit, Holds, Idle
  <1>3. QueuesMatchTasks
    BY Zenon DEF Init, QueuesMatchTasks, Waits, Waiting, Idle, Classes
  <1>4. NextIsWoken
    BY Zenon DEF Init, NextIsWoken, IsNext, Classes
  <1> QED
    BY Zenon, <1>1, <1>2, <1>3, <1>4 DEF LaneInv

\* Queues are finite, so their sizes are numbers.
LEMMA FiniteQueue ==
    ASSUME TypeOK, NEW class \in Classes
    PROVE  IsFiniteSet(waiting[class]) /\ Cardinality(waiting[class]) \in Nat
  <1>1. waiting[class] \subseteq Workers
    BY Zenon DEF TypeOK
  <1> QED
    BY Zenon, <1>1, LaneAssumption, FS_Subset, FS_CardinalityType

\* A worker is in a queue exactly while its request is suspended there.
LEMMA InQueue ==
    ASSUME TypeOK, QueuesMatchTasks, NEW w \in Workers, NEW c \in Classes
    PROVE  w \in waiting[c] <=> task[w].pc = "waiting" /\ task[w].class = c
  <1>1. w \in waiting[c] <=> task[w] = Waiting(c)
    BY SMTT(30) DEF QueuesMatchTasks, Waits
  <1>2. task[w] \in [pc : {"idle", "waiting", "holding"}, class : Classes]
    BY Zenon DEF TypeOK
  <1>3. task[w] = [pc |-> task[w].pc, class |-> task[w].class]
    BY Zenon, <1>2
  <1> QED
    BY SMTT(30), <1>1, <1>3 DEF Waiting

\* AcquireNow keeps the invariant.
LEMMA AcquireNowStep ==
    ASSUME LaneInv, NEW w \in Workers, NEW class \in Classes, AcquireNow(w, class)
    PROVE  LaneInv'
  <1>1. TypeOK'
    BY Zenon DEF LaneInv, TypeOK, AcquireNow, Holding, Classes
  <1>2. OnePermit'
    BY Zenon DEF LaneInv, TypeOK, OnePermit, AcquireNow, MayTakeAtOnce, Holds, Holding
  <1>3. QueuesMatchTasks'
    <2>1. \A v \in Workers, c \in Classes : Waits(v, c)' <=> Waits(v, c)
      BY SMTT(30) DEF LaneInv, TypeOK, AcquireNow, Waits, Waiting, Holding
    <2>2. older[w] = {}
      BY Zenon DEF LaneInv, TypeOK, QueuesMatchTasks, AcquireNow
    <2> QED
      BY SMTT(30), <2>1, <2>2 DEF LaneInv, TypeOK, QueuesMatchTasks, AcquireNow, Holding
  <1>4. NextIsWoken'
    BY Zenon DEF NextIsWoken, AcquireNow
  <1> QED
    BY Zenon, <1>1, <1>2, <1>3, <1>4 DEF LaneInv

\* AcquireQueue keeps the invariant: the new waiter is the youngest of its
\* class, and if it is next (an empty queue behind an idle permit cannot be) the
\* wake that follows covers it.
LEMMA AcquireQueueStep ==
    ASSUME LaneInv, NEW w \in Workers, NEW class \in Classes, AcquireQueue(w, class)
    PROVE  LaneInv'
  <1> USE DEF LaneInv
  <1>1. \A c \in Classes : w \notin waiting[c]
    BY Zenon, InQueue DEF AcquireQueue
  <1>2. \A v \in Workers, c \in Classes :
           Waits(v, c)' <=> Waits(v, c) \/ (v = w /\ c = class)
    BY SMTT(30) DEF TypeOK, AcquireQueue, Waits, Waiting
  <1>3. \A v \in Workers : w \notin older[v]
    BY SMTT(30), <1>1 DEF TypeOK, QueuesMatchTasks
  <1>4. TypeOK'
    <2>1. Cardinality(waiting'[class]) <= MaxWaiters
      <3>1. waiting'[class] = waiting[class] \union {w}
        BY Zenon DEF TypeOK, AcquireQueue
      <3>2. Cardinality(waiting[class] \union {w}) = Cardinality(waiting[class]) + 1
        BY Zenon, <1>1, FiniteQueue, FS_AddElement
      <3> QED
        BY SMTT(30), <3>1, <3>2, FiniteQueue, LaneAssumption DEF AcquireQueue
    <2>2. \A c \in Classes : c # class => waiting'[c] = waiting[c]
      BY Zenon DEF TypeOK, AcquireQueue
    <2>3. waiting' \in [Classes -> SUBSET Workers]
      BY Zenon DEF TypeOK, AcquireQueue
    <2>4. older' \in [Workers -> SUBSET Workers] /\ notified' \subseteq Workers
      BY Zenon DEF TypeOK, AcquireQueue, Woken
    <2>5. task' \in [Workers -> [pc : {"idle", "waiting", "holding"}, class : Classes]]
      BY Zenon DEF TypeOK, AcquireQueue, Waiting
    <2> QED
      BY Zenon, <2>1, <2>2, <2>3, <2>4, <2>5 DEF TypeOK, AcquireQueue
  <1>5. OnePermit'
    BY Zenon DEF TypeOK, OnePermit, AcquireQueue, Holds, Waiting
  <1>6. QueuesMatchTasks'
    <2>1. \A c \in Classes : waiting'[c] = {v \in Workers : Waits(v, c)'}
      BY SMTT(30), <1>2 DEF TypeOK, QueuesMatchTasks, AcquireQueue
    <2>2. \A v \in Workers : older'[v] \subseteq waiting'[task'[v].class] \ {v}
      BY SMTT(30), <1>1 DEF TypeOK, QueuesMatchTasks, AcquireQueue, Waiting
    <2>3. \A v \in Workers : task'[v].pc # "waiting" => older'[v] = {}
      BY Zenon DEF TypeOK, QueuesMatchTasks, AcquireQueue, Waiting
    <2>4. \A c \in Classes : \A u, v \in waiting'[c] :
             u # v => (u \in older'[v] <=> v \notin older'[u])
      BY SMTT(30), <1>1, <1>3 DEF TypeOK, QueuesMatchTasks, AcquireQueue
    <2> QED
      BY Zenon, <2>1, <2>2, <2>3, <2>4 DEF QueuesMatchTasks
  <1>7. NextIsWoken'
    BY Zenon DEF NextIsWoken, AcquireQueue, Woken, IsNext
  <1> QED
    BY Zenon, <1>4, <1>5, <1>6, <1>7

\* Removing a waiter's key leaves the rest of the queues as they were.
LEMMA DequeueFacts ==
    ASSUME TypeOK, QueuesMatchTasks, NEW w \in Workers, task[w].pc = "waiting", Dequeue(w)
    PROVE  /\ waiting' \in [Classes -> SUBSET Workers]
           /\ \A class \in Classes : waiting'[class] = waiting[class] \ {w}
           /\ \A class \in Classes : Cardinality(waiting'[class]) <= MaxWaiters
           /\ older' \in [Workers -> SUBSET Workers]
           /\ \A v \in Workers : older'[v] = IF v = w THEN {} ELSE older[v] \ {w}
           /\ \A class \in Classes : \A u, v \in waiting'[class] :
                 u # v => (u \in older'[v] <=> v \notin older'[u])
  <1>1. waiting' \in [Classes -> SUBSET Workers]
    BY Zenon DEF TypeOK, Dequeue
  <1>2. \A class \in Classes : waiting'[class] = waiting[class] \ {w}
    <2> SUFFICES ASSUME NEW class \in Classes PROVE waiting'[class] = waiting[class] \ {w}
      BY Zenon
    <2>1. CASE class = task[w].class
      BY Zenon, <2>1 DEF TypeOK, Dequeue
    <2>2. CASE class # task[w].class
      BY SMTT(30), <2>2, InQueue DEF TypeOK, Dequeue
    <2> QED
      BY Zenon, <2>1, <2>2
  <1>3. \A class \in Classes : Cardinality(waiting'[class]) <= MaxWaiters
    <2> SUFFICES ASSUME NEW class \in Classes
                 PROVE  Cardinality(waiting'[class]) <= MaxWaiters
      BY Zenon
    <2>1. Cardinality(waiting[class] \ {w}) <= Cardinality(waiting[class])
      BY Zenon, FiniteQueue, FS_Subset
    <2>2. Cardinality(waiting[class] \ {w}) \in Nat
      BY Zenon, FiniteQueue, FS_Subset, FS_CardinalityType
    <2>3. Cardinality(waiting[class]) <= MaxWaiters /\ Cardinality(waiting[class]) \in Nat
      BY Zenon, FiniteQueue DEF TypeOK
    <2>4. waiting'[class] = waiting[class] \ {w}
      BY Zenon, <1>2
    <2> QED
      BY SMTT(30), <2>1, <2>2, <2>3, <2>4, LaneAssumption
  <1>4. /\ older' \in [Workers -> SUBSET Workers]
        /\ \A v \in Workers : older'[v] = IF v = w THEN {} ELSE older[v] \ {w}
    BY Zenon DEF TypeOK, Dequeue
  <1>5. \A class \in Classes : \A u, v \in waiting'[class] :
           u # v => (u \in older'[v] <=> v \notin older'[u])
    BY SMTT(30), <1>2, <1>4 DEF TypeOK, QueuesMatchTasks
  <1> QED
    BY Zenon, <1>1, <1>2, <1>3, <1>4, <1>5

\* What a step that takes w out of its queue does to the queues' invariant,
\* whatever w becomes.
LEMMA DequeueKeepsQueues ==
    ASSUME TypeOK, QueuesMatchTasks, NEW w \in Workers, task[w].pc = "waiting", Dequeue(w),
           NEW t, t.pc # "waiting", t.class \in Classes,
           task' = [task EXCEPT ![w] = t]
    PROVE  QueuesMatchTasks'
  <1>1. \A v \in Workers, c \in Classes : Waits(v, c)' <=> Waits(v, c) /\ v # w
    BY SMTT(30) DEF TypeOK, Waits, Waiting
  <1>2. \A c \in Classes : waiting'[c] = {v \in Workers : Waits(v, c)'}
    BY SMTT(30), <1>1, DequeueFacts DEF QueuesMatchTasks
  <1>3. \A v \in Workers : /\ older'[v] \subseteq waiting'[task'[v].class] \ {v}
                           /\ task'[v].pc # "waiting" => older'[v] = {}
    <2> SUFFICES ASSUME NEW v \in Workers
                 PROVE  /\ older'[v] \subseteq waiting'[task'[v].class] \ {v}
                        /\ task'[v].pc # "waiting" => older'[v] = {}
      BY Zenon
    <2>1. CASE v = w
      BY Zenon, <2>1, DequeueFacts
    <2>2. CASE v # w
      <3>1. task'[v] = task[v] /\ task[v].class \in Classes
        BY Zenon, <2>2 DEF TypeOK
      <3>2. older'[v] = older[v] \ {w}
        BY Zenon, <2>2, DequeueFacts
      <3>3. waiting'[task[v].class] = waiting[task[v].class] \ {w}
        BY SMTT(30), <3>1, DequeueFacts
      <3> QED
        BY Zenon, <3>1, <3>2, <3>3 DEF QueuesMatchTasks
    <2> QED
      BY Zenon, <2>1, <2>2
  <1> QED
    BY Zenon, <1>2, <1>3, DequeueFacts DEF QueuesMatchTasks

\* Notified keeps the invariant: a waiter that finds itself overtaken gives its
\* wakeup back only when it is not the next one or the permit is taken.
LEMMA NotifiedStep ==
    ASSUME LaneInv, NEW w \in Workers, Notified(w)
    PROVE  LaneInv'
  <1> USE DEF LaneInv
  <1>1. CASE ~active /\ IsNext(w, waiting, older)
    <2>1. Dequeue(w) /\ active' = TRUE /\ task' = [task EXCEPT ![w] = Holding(task[w].class)]
      BY Zenon, <1>1 DEF Notified
    <2>2. TypeOK'
      BY Zenon, <2>1, DequeueFacts DEF TypeOK, Notified, Holding
    <2>3. OnePermit'
      BY Zenon, <1>1, <2>1 DEF TypeOK, OnePermit, Holds, Holding
    <2>4. QueuesMatchTasks'
      BY Zenon, <2>1, DequeueKeepsQueues DEF TypeOK, Notified, Holding
    <2>5. NextIsWoken'
      BY Zenon, <2>1 DEF NextIsWoken
    <2> QED
      BY Zenon, <2>2, <2>3, <2>4, <2>5
  <1>2. CASE ~(~active /\ IsNext(w, waiting, older))
    <2>1. UNCHANGED <<active, waiting, older, task>> /\ notified' = notified \ {w}
      BY Zenon, <1>2 DEF Notified
    <2>2. TypeOK' /\ OnePermit'
      BY Zenon, <2>1 DEF TypeOK, OnePermit, Holds
    <2>3. QueuesMatchTasks'
      BY SMTT(30), <2>1 DEF QueuesMatchTasks, Waits
    <2>4. NextIsWoken'
      BY Zenon, <1>2, <2>1 DEF NextIsWoken, IsNext
    <2> QED
      BY Zenon, <2>2, <2>3, <2>4
  <1> QED
    BY Zenon, <1>1, <1>2

\* WaiterDrop keeps the invariant: an abandoned wakeup passes to the new next.
LEMMA WaiterDropStep ==
    ASSUME LaneInv, NEW w \in Workers, WaiterDrop(w)
    PROVE  LaneInv'
  <1> USE DEF LaneInv
  <1>1. TypeOK'
    BY Zenon, DequeueFacts DEF TypeOK, WaiterDrop, Idle, Woken, Classes
  <1>2. OnePermit'
    BY Zenon DEF TypeOK, OnePermit, WaiterDrop, Holds, Idle
  <1>3. QueuesMatchTasks'
    BY Zenon, DequeueKeepsQueues DEF WaiterDrop, Idle, Classes
  <1>4. NextIsWoken'
    BY Zenon DEF NextIsWoken, WaiterDrop, Woken, IsNext
  <1> QED
    BY Zenon, <1>1, <1>2, <1>3, <1>4

\* PermitDrop keeps the invariant.
LEMMA PermitDropStep ==
    ASSUME LaneInv, NEW w \in Workers, PermitDrop(w)
    PROVE  LaneInv'
  <1> USE DEF LaneInv
  <1>1. TypeOK'
    BY Zenon DEF TypeOK, PermitDrop, Idle, Woken, Classes
  <1>2. OnePermit'
    BY Zenon DEF TypeOK, OnePermit, PermitDrop, Holds, Idle
  <1>3. QueuesMatchTasks'
    <2>1. \A v \in Workers, c \in Classes : Waits(v, c)' <=> Waits(v, c)
      BY SMTT(30) DEF TypeOK, PermitDrop, Waits, Waiting, Holds, Idle
    <2>2. older[w] = {}
      BY Zenon DEF QueuesMatchTasks, PermitDrop, Holds
    <2> QED
      BY SMTT(30), <2>1, <2>2 DEF TypeOK, QueuesMatchTasks, PermitDrop, Idle
  <1>4. NextIsWoken'
    BY Zenon DEF NextIsWoken, PermitDrop, Woken, IsNext
  <1> QED
    BY Zenon, <1>1, <1>2, <1>3, <1>4

\* Every step of the lane keeps the invariant.
LEMMA NextLaneInv == LaneInv /\ [Next]_vars => LaneInv'
  <1> SUFFICES ASSUME LaneInv, [Next]_vars PROVE LaneInv'
    BY Zenon
  <1>1. CASE Next
    BY Zenon, <1>1, AcquireNowStep, AcquireQueueStep, NotifiedStep, WaiterDropStep, PermitDropStep DEF Next
  <1>2. CASE UNCHANGED vars
    BY SMTT(30), <1>2 DEF vars, LaneInv, TypeOK, OnePermit, QueuesMatchTasks, NextIsWoken, Holds, Waits, IsNext
  <1> QED
    BY Zenon, <1>1, <1>2

\* For any number of workers: the account has at most one permit out, and the
\* flag `active` is set exactly while somebody owns it.
THEOREM MutualExclusion == Spec => []OnePermit
  BY InitLaneInv, NextLaneInv, PTL DEF Spec, LaneInv

\* For any number of workers: the permit is never free while the waiter that
\* must go next sleeps without a wakeup.
THEOREM NoLostWakeup == Spec => []NextIsWoken
  BY InitLaneInv, NextLaneInv, PTL DEF Spec, LaneInv

\* For any number of workers: the queues hold exactly the suspended requests,
\* each in one order.
THEOREM QueuesCorrect == Spec => []QueuesMatchTasks
  BY InitLaneInv, NextLaneInv, PTL DEF Spec, LaneInv

\* For any number of workers: neither queue of acquire grows past MAX_WAITERS.
THEOREM QueuesBounded == Spec => []TypeOK
  BY InitLaneInv, NextLaneInv, PTL DEF Spec, LaneInv

\* Only the uncontended path and a consumed wakeup grant the permit.
LEMMA GrantedBy ==
    ASSUME LaneInv, Next, NEW w \in Workers, Granted(w)
    PROVE  \/ \E class \in Classes : AcquireNow(w, class)
           \/ Notified(w) /\ ~active /\ IsNext(w, waiting, older)
  <1> USE DEF LaneInv
  <1>1. ASSUME NEW u \in Workers, NEW class \in Classes, AcquireNow(u, class)
        PROVE  u = w
    BY Zenon, <1>1 DEF TypeOK, AcquireNow, Granted, Holds
  <1>2. ASSUME NEW u \in Workers, NEW class \in Classes, AcquireQueue(u, class)
        PROVE  FALSE
    BY Zenon, <1>2 DEF TypeOK, AcquireQueue, Granted, Holds, Waiting
  <1>3. ASSUME NEW u \in Workers, Notified(u)
        PROVE  u = w /\ ~active /\ IsNext(w, waiting, older)
    BY Zenon, <1>3 DEF TypeOK, Notified, Granted, Holds
  <1>4. ASSUME NEW u \in Workers, WaiterDrop(u)
        PROVE  FALSE
    BY Zenon, <1>4 DEF TypeOK, WaiterDrop, Granted, Holds, Idle
  <1>5. ASSUME NEW u \in Workers, PermitDrop(u)
        PROVE  FALSE
    BY Zenon, <1>5 DEF TypeOK, PermitDrop, Granted, Holds, Idle
  <1> QED
    BY Zenon, <1>1, <1>2, <1>3, <1>4, <1>5 DEF Next

\* A queued cleanup is overtaken by nobody but an older cleanup, and a queued
\* normal request by no later normal one.
LEMMA GrantStep ==
    ASSUME LaneInv, Next
    PROVE  GrantsInOrder
  <1> USE DEF LaneInv
  <1> SUFFICES ASSUME NEW w \in Workers, NEW v \in Workers, v # w, Granted(w),
                      NEW c \in Classes, Waits(v, c), c = "normal" => task'[w].class = "normal"
               PROVE  Precedes(w, v)
    BY Zenon DEF GrantsInOrder, Classes
  <1>1. v \in waiting[c]
    BY SMTT(30) DEF QueuesMatchTasks
  <1>2. CASE \E class \in Classes : AcquireNow(w, class)
    <2>1. PICK class \in Classes : AcquireNow(w, class)
      BY Zenon, <1>2
    <2>2. task'[w].class = class
      BY Zenon, <2>1 DEF TypeOK, AcquireNow, Holding
    <2> QED
      BY Zenon, <1>1, <2>1, <2>2 DEF AcquireNow, MayTakeAtOnce, Classes
  <1>3. CASE Notified(w) /\ ~active /\ IsNext(w, waiting, older)
    <2>1. task'[w].class = task[w].class /\ task[w].pc = "waiting" /\ task[w].class \in Classes
      BY SMTT(30), <1>3 DEF TypeOK, Notified, Holding
    <2>2. w \in waiting[c]
      <3>1. CASE c = "cleanup"
        BY Zenon, <1>1, <1>3, <3>1 DEF IsNext
      <3>2. CASE c = "normal"
        BY Zenon, <2>1, <3>2, InQueue
      <3> QED
        BY Zenon, <3>1, <3>2 DEF Classes
    <2>3. w \in older[v]
      BY Zenon, <1>1, <1>3, <2>2 DEF QueuesMatchTasks, IsNext
    <2> QED
      BY SMTT(30), <2>2, <2>3 DEF Precedes, QueuesMatchTasks, Waits
  <1> QED
    BY Zenon, <1>2, <1>3, GrantedBy

\* For any number of workers: the permit is granted in the lane's order.
THEOREM GrantedInOrder == Spec => GrantOrder
  <1>1. LaneInv /\ [Next]_vars => [GrantsInOrder]_vars
    BY Zenon, GrantStep
  <1> QED
    BY <1>1, InitLaneInv, NextLaneInv, PTL DEF Spec, GrantOrder
=============================================================================
