--------------------------- MODULE EventDelivery ---------------------------
(***************************************************************************)
(* Delivery of the critical (lifecycle) events of one runtime scope, from  *)
(* the strategy that publishes them to the cloud                           *)
(* (src/core/live_sync: publisher.rs, outbox.rs,                           *)
(* outbox/publisher_reservations.rs, bus.rs, sync_agent.rs, embedded.rs).  *)
(*                                                                         *)
(*   strategy --queue--> publisher worker --bus--> sync agent --> cloud    *)
(*                        publisher.db             sync.db                 *)
(*                                                                         *)
(* The publisher worker reserves a sequence number for every identity and  *)
(* stores the payload, in one transaction of its own database, before it   *)
(* publishes on the local bus; it retires the payload when the agent       *)
(* acknowledges that its database has it.  The agent sends its rows to the *)
(* cloud in sequence order and marks them committed.  The bus may lose a   *)
(* message or an acknowledgement, the cloud may fail before or after it    *)
(* stored a batch, and either process may crash between any two steps.     *)
(*                                                                         *)
(* A body stands for the immutable content that `fingerprint` hashes.      *)
(* Deadlines are abstract: a row in backoff may become due at any time.    *)
(* Local capture limits, background priorities and volatile publishers     *)
(* (no outbox) are outside this module.                                    *)
(***************************************************************************)
EXTENDS Naturals, Sequences, FiniteSets

CONSTANTS
    Events,         \* event identities
    Bodies,         \* contents an event can be published with
    NoBody,
    Before,         \* the events the strategy publishes before an event
    Poison,         \* events the cloud refuses as an invalid batch
    CloudErrors,    \* error answers the cloud may give (transient, paused, auth, terminal)
    GraceCovers,    \* TRUE: no event is re-sent once its agent row was pruned
    QueueLimit,     \* critical_queue_events
    BatchEvents,    \* critical_batch_events of the publisher
    AgentBatch,     \* critical_batch_events of the agent
    MayStop,        \* TRUE: the runtime may be shut down
    MaxHeld,        \* bound: producers between permit and send
    MaxOffers,      \* bound: publish calls
    MaxCrashes,     \* bound: process crashes
    MaxFaults       \* bound: losses, early timeouts and errors

ASSUME DeliveryAssumption ==
    /\ IsFiniteSet(Events)
    /\ NoBody \notin Bodies
    /\ Before \in [Events -> SUBSET Events]
    /\ Poison \subseteq Events
    /\ QueueLimit \in Nat \ {0} /\ BatchEvents \in Nat \ {0} /\ AgentBatch \in Nat \ {0}
    /\ MayStop \in BOOLEAN /\ MaxHeld \in Nat
    /\ MaxOffers \in Nat /\ MaxCrashes \in Nat /\ MaxFaults \in Nat
    /\ GraceCovers \in BOOLEAN
    /\ CloudErrors \subseteq {"transient", "paused", "auth", "terminal"}

VARIABLES
    \* the strategy's side of the publisher
    offered,        \* events the strategy published since the publisher started
    held,           \* copies whose producer owns a queue permit and has not sent
    queue,          \* critical_receiver: copies admitted and not collected
    refused,        \* admission_failed
    receipts,       \* copies whose durable receipt was Ok
    \* run_publisher
    phase,          \* open, closing (receiver closed), finished
    pc,             \* idle, prepare, publish
    mode,           \* what `publish` is doing: a live batch or a replay
    emergency,      \* emergency_pending
    batch,          \* copies of the batch being prepared
    groups,         \* parts of it still to be reserved, in order
    fresh,          \* identities this batch reserved
    rejected,       \* identities this batch rejected
    todo,           \* events still to be published
    awaiting,       \* events published and waited for
    acked,          \* those acknowledged as LocalAccepted
    failed,         \* a publication of this attempt failed
    \* publisher.db
    sequence,       \* publisher_event_reservations.critical_sequence, 0: none
    fingerprint,    \* publisher_event_reservations.fingerprint
    cursor,         \* publisher_sequence_cursors.critical_through
    prow,           \* state of the payload row
    \* the bus, in subject order
    bus,
    \* the agent's critical worker
    apc,            \* arm, flush, call, reply, deadline, wait, stopped
    woken,          \* its registered Notified has fired
    timer,          \* the row whose deadline it sleeps for, if any
    calls,          \* batches of this flush still to be sent
    reply,          \* answer to the current call
    refreshed,      \* authentication_refreshed
    paused,         \* cloud_pause_until lies ahead
    \* sync.db
    row,            \* outbox_events of the agent
    through,        \* sync_cursors.critical_through
    \* the cloud
    cloud,          \* entries stored, in sequence order
    sealed,         \* the run was sealed
    \* bounds
    offers, crashes, faults

producerVars == <<offered, held, queue, refused, offers>>
workerVars   == <<phase, pc, mode, emergency, batch, groups, fresh, rejected>>
attemptVars  == <<todo, awaiting, acked, failed>>
storeVars    == <<sequence, fingerprint, cursor, prow>>
agentVars    == <<apc, woken, timer, calls, reply, refreshed, paused>>
agentStore   == <<row, through>>
cloudVars    == <<cloud, sealed>>

vars == <<producerVars, receipts, workerVars, attemptVars, storeVars, bus,
          agentVars, agentStore, cloudVars, crashes, faults>>

Copies == [id : Events, body : Bodies]
NoRow == [state |-> "none", seq |-> 0, body |-> NoBody, due |-> FALSE]

\* Type invariant; only events that are waited for count as acknowledged, and
\* the worker sleeps only for a deadline it has read.
TypeOK ==
    /\ offered \subseteq Events /\ refused \in BOOLEAN
    /\ held \in Seq(Copies) /\ queue \in Seq(Copies)
    /\ receipts \subseteq Copies
    /\ phase \in {"open", "closing", "finished"}
    /\ pc \in {"idle", "prepare", "publish"} /\ mode \in {"live", "replay"}
    /\ emergency \in BOOLEAN /\ failed \in BOOLEAN
    /\ batch \in Seq(Copies) /\ groups \in Seq(Seq(Copies))
    /\ fresh \subseteq Events /\ rejected \subseteq Events
    /\ todo \subseteq Events /\ awaiting \subseteq Events /\ acked \subseteq awaiting
    /\ sequence \in [Events -> Nat]
    /\ fingerprint \in [Events -> Bodies \cup {NoBody}]
    /\ cursor \in Nat
    /\ prow \in [Events -> {"none", "pending", "committed"}]
    /\ bus \in Seq([id : Events, seq : Nat, body : Bodies \cup {NoBody}, live : BOOLEAN])
    /\ apc \in {"arm", "flush", "call", "reply", "deadline", "wait", "stopped"}
    /\ timer \subseteq Events /\ (timer # {} => apc = "wait")
    /\ woken \in BOOLEAN /\ refreshed \in BOOLEAN /\ paused \in BOOLEAN
    /\ calls \in Seq(SUBSET Events)
    /\ reply \in {"none", "ok", "conflict", "invalid"} \cup CloudErrors
    /\ row \in [Events -> [state : {"none", "pending", "committed", "dead_letter"},
                           seq : Nat, body : Bodies \cup {NoBody}, due : BOOLEAN]]
    /\ through \in Nat
    /\ cloud \in Seq([id : Events, body : Bodies \cup {NoBody}])
    /\ sealed \in BOOLEAN
    /\ offers \in Nat /\ crashes \in Nat /\ faults \in Nat

Init ==
    /\ offered = {} /\ held = <<>> /\ queue = <<>> /\ refused = FALSE
    /\ receipts = {}
    /\ phase = "open" /\ pc = "idle" /\ mode = "live" /\ emergency = FALSE
    /\ batch = <<>> /\ groups = <<>> /\ fresh = {} /\ rejected = {}
    /\ todo = {} /\ awaiting = {} /\ acked = {} /\ failed = FALSE
    /\ sequence = [e \in Events |-> 0]
    /\ fingerprint = [e \in Events |-> NoBody]
    /\ cursor = 0
    /\ prow = [e \in Events |-> "none"]
    /\ bus = <<>>
    /\ apc = "arm" /\ woken = FALSE /\ timer = {} /\ calls = <<>> /\ reply = "none"
    /\ refreshed = FALSE /\ paused = FALSE
    /\ row = [e \in Events |-> NoRow]
    /\ through = 0
    /\ cloud = <<>> /\ sealed = FALSE
    /\ offers = 0 /\ crashes = 0 /\ faults = 0

Fault(n) ==
    /\ faults + n <= MaxFaults
    /\ faults' = faults + n

(***************************************************************************)
(* The strategy: enqueue_critical.                                         *)
(***************************************************************************)

\* The producer passes the shutdown check and takes a queue permit.  The
\* durable publisher deduplicates in the worker, not here.
Offer(c) ==
    /\ phase = "open"
    /\ \A e \in Before[c.id] : e \in offered \/ sequence[e] # 0
    /\ offers < MaxOffers
    /\ Len(held) < MaxHeld
    /\ Len(queue) + Len(held) < QueueLimit
    /\ held' = Append(held, c)
    /\ offered' = offered \cup {c.id}
    /\ offers' = offers + 1
    /\ UNCHANGED <<queue, refused, receipts, workerVars, attemptVars, storeVars, bus,
                   agentVars, agentStore, cloudVars, crashes, faults>>

\* No permit is left: publish_critical reports PublisherCapacity and marks
\* the publisher's admission as failed.
OfferRefused(c) ==
    /\ phase = "open"
    /\ \A e \in Before[c.id] : e \in offered \/ sequence[e] # 0
    /\ offers < MaxOffers
    /\ Len(queue) + Len(held) = QueueLimit
    /\ refused' = TRUE
    /\ offered' = offered \cup {c.id}
    /\ offers' = offers + 1
    /\ UNCHANGED <<held, queue, receipts, workerVars, attemptVars, storeVars, bus,
                   agentVars, agentStore, cloudVars, crashes, faults>>

\* permit.send: any producer that owns a permit, also after close().
Send(i) ==
    /\ i \in DOMAIN held
    /\ queue' = Append(queue, held[i])
    /\ held' = [j \in 1 .. Len(held) - 1 |-> IF j < i THEN held[j] ELSE held[j + 1]]
    /\ UNCHANGED <<offered, refused, offers, receipts, workerVars, attemptVars, storeVars,
                   bus, agentVars, agentStore, cloudVars, crashes, faults>>

(***************************************************************************)
(* The publisher worker: run_publisher.                                    *)
(***************************************************************************)
PubPending == {e \in Events : prow[e] = "pending"}

\* The n events of S with the lowest sequence numbers: pending_batch's
\* ORDER BY critical_sequence LIMIT n.
Lowest(S, seqs, n) ==
    {e \in S : Cardinality({f \in S : seqs[f] < seqs[e]}) < n}

\* recv and collect_critical_batch: what is queued, up to the batch size and
\* the batch delay.
Collect ==
    /\ pc = "idle"
    /\ phase # "finished"
    /\ \E k \in 1 .. Len(queue) :
        /\ k <= BatchEvents
        /\ batch' = SubSeq(queue, 1, k)
        /\ groups' = <<SubSeq(queue, 1, k)>>
        /\ queue' = SubSeq(queue, k + 1, Len(queue))
    /\ pc' = "prepare"
    /\ fresh' = {}
    /\ rejected' = {}
    /\ UNCHANGED <<offered, held, refused, offers, receipts, phase, mode, emergency,
                   attemptVars, storeVars, bus, agentVars, agentStore, cloudVars,
                   crashes, faults>>

\* The position of the first copy of e in group g.
FirstIn(g, e) ==
    CHOOSE i \in DOMAIN g : g[i].id = e /\ \A j \in 1 .. i - 1 : g[j].id # e

\* Variant of BodyFor with a mistake: the reservation's body is not consulted.
BodyInGroup(g, e) == g[FirstIn(g, e)].body

\* The body a copy of e is compared with: the reservation's, else that of
\* the copy the same transaction reserves.
BodyFor(g, e) ==
    IF sequence[e] # 0 THEN fingerprint[e] ELSE g[FirstIn(g, e)].body

Conflicts(g) == \E i \in DOMAIN g : g[i].body # BodyFor(g, g[i].id)

\* Variant of Unreserved with a mistake: the payload rows, which are pruned,
\* decide what is new.
WithoutPayload(g) == {e \in Events : prow[e] = "none" /\ \E i \in DOMAIN g : g[i].id = e}

\* The identities of g without a reservation.
Unreserved(g) == {e \in Events : sequence[e] = 0 /\ \E i \in DOMAIN g : g[i].id = e}

(***************************************************************************)
(* reserve_publisher_events on the next group, without a conflict: one     *)
(* transaction gives the unreserved identities the next sequence numbers,  *)
(* in the order of their first copies, and stores their payloads.          *)
(***************************************************************************)
ReserveGroup ==
    /\ pc = "prepare"
    /\ groups # <<>>
    /\ LET g == Head(groups)
           new == Unreserved(g)
           last == cursor + Cardinality(new)
       IN /\ ~Conflicts(g)
          /\ \E number \in [new -> (cursor + 1) .. last] :
              /\ {number[e] : e \in new} = (cursor + 1) .. last
              /\ \A e, f \in new : FirstIn(g, e) < FirstIn(g, f) => number[e] < number[f]
              /\ sequence' = [e \in Events |-> IF e \in new THEN number[e] ELSE sequence[e]]
          /\ fingerprint' = [e \in Events |-> IF e \in new THEN BodyFor(g, e)
                                              ELSE fingerprint[e]]
          /\ cursor' = last
          /\ prow' = [e \in Events |-> IF e \in new THEN "pending" ELSE prow[e]]
          /\ fresh' = fresh \cup new
    /\ groups' = Tail(groups)
    /\ UNCHANGED <<producerVars, receipts, phase, pc, mode, emergency, batch, rejected,
                   attemptVars, bus, agentVars, agentStore, cloudVars, crashes, faults>>

\* A conflict rolls the whole group back; it is split and its left half
\* reserved first.
SplitGroup ==
    /\ pc = "prepare"
    /\ groups # <<>>
    /\ LET g == Head(groups)
           half == Len(g) \div 2
       IN /\ Conflicts(g)
          /\ Len(g) > 1
          /\ groups' = <<SubSeq(g, 1, half), SubSeq(g, half + 1, Len(g))>> \o Tail(groups)
    /\ UNCHANGED <<producerVars, receipts, phase, pc, mode, emergency, batch, fresh, rejected,
                   attemptVars, storeVars, bus, agentVars, agentStore, cloudVars,
                   crashes, faults>>

\* A single conflicting copy goes to the dead letters under an identity of
\* its own (reject_publisher_event).
RejectCopy ==
    /\ pc = "prepare"
    /\ groups # <<>>
    /\ LET g == Head(groups)
       IN /\ Conflicts(g)
          /\ Len(g) = 1
          /\ rejected' = rejected \cup {g[1].id}
    /\ groups' = Tail(groups)
    /\ UNCHANGED <<producerVars, receipts, phase, pc, mode, emergency, batch, fresh,
                   attemptVars, storeVars, bus, agentVars, agentStore, cloudVars,
                   crashes, faults>>

\* replay_emergency_outbox reads the oldest pending payloads and publishes
\* them in order.
BeginReplay ==
    /\ pc' = "publish"
    /\ mode' = "replay"
    /\ todo' = Lowest(PubPending, sequence, BatchEvents)
    /\ awaiting' = {} /\ acked' = {} /\ failed' = FALSE

\* The identities that are published: those this batch reserved, unless a
\* copy with the same identity was rejected (both sets are keyed by id).
ReadyToPublish == fresh \ rejected

(***************************************************************************)
(* The end of prepare_durable_batch: receipts are sent and the fresh       *)
(* events are published, or left to a replay while older payloads wait.    *)
(* Their payload rows exist, so persist_queued_batch_to_emergency inserts  *)
(* nothing.  Batch order is sequence order: groups are reserved from left  *)
(* to right.                                                               *)
(***************************************************************************)
Dispatch ==
    /\ pc = "prepare"
    /\ groups = <<>>
    /\ receipts' = receipts \cup {c \in Copies : /\ c.id \notin rejected
                                                 /\ \E i \in DOMAIN batch : batch[i] = c}
    /\ batch' = <<>>
    /\ fresh' = {} /\ rejected' = {}
    /\ \/ /\ ~emergency
          /\ pc' = "publish" /\ mode' = "live"
          /\ todo' = ReadyToPublish
          /\ awaiting' = {} /\ acked' = {} /\ failed' = FALSE
       \/ emergency /\ phase = "open" /\ BeginReplay
       \/ /\ emergency /\ phase = "closing"
          /\ pc' = "idle"
          /\ UNCHANGED <<mode, attemptVars>>
    /\ UNCHANGED <<producerVars, phase, emergency, groups, storeVars, bus,
                   agentVars, agentStore, cloudVars, crashes, faults>>

\* emergency_replay_interval.
ReplayTick ==
    /\ pc = "idle"
    /\ phase = "open"
    /\ emergency
    /\ BeginReplay
    /\ UNCHANGED <<producerVars, receipts, phase, emergency, batch, groups, fresh, rejected,
                   storeVars, bus, agentVars, agentStore, cloudVars, crashes, faults>>

\* bus.publish_critical of the next event in order.
Publish ==
    /\ pc = "publish"
    /\ \E e \in Lowest(todo, sequence, 1) :
        /\ todo' = todo \ {e}
        /\ awaiting' = awaiting \cup {e}
        /\ bus' = IF apc = "stopped" THEN bus
                  ELSE Append(bus, [id |-> e, seq |-> sequence[e], body |-> fingerprint[e],
                                    live |-> TRUE])
    /\ UNCHANGED <<producerVars, receipts, workerVars, acked, failed, storeVars,
                   agentVars, agentStore, cloudVars, crashes, faults>>

\* The bus refuses it: a live batch goes on with the next event, a replay
\* stops publishing.
PublishFails ==
    /\ pc = "publish"
    /\ \E e \in Lowest(todo, sequence, 1) :
        todo' = IF mode = "live" THEN todo \ {e} ELSE {}
    /\ failed' = TRUE
    /\ Fault(1)
    /\ UNCHANGED <<producerVars, receipts, workerVars, awaiting, acked, storeVars, bus,
                   agentVars, agentStore, cloudVars, crashes>>

\* Replies that arrive after the wait has ended go to a closed inbox.
Abandoned(b) == [i \in DOMAIN b |-> [b[i] EXCEPT !.live = FALSE]]

OnBus(e) == \E i \in DOMAIN bus : bus[i].id = e /\ bus[i].live

\* Every wait has ended: the event is acknowledged or no answer can come.
Answered == awaiting \subseteq acked \/ \E e \in awaiting \ acked : ~OnBus(e)

\* join_all over the waits.  A timeout that an answer could still have beaten
\* counts as a fault.
WaitsOver ==
    /\ pc = "publish"
    /\ todo = {}
    /\ \/ Answered /\ UNCHANGED faults
       \/ ~Answered /\ Fault(1)

SettledVars == <<producerVars, receipts, phase, batch, groups, fresh, rejected, sequence,
                 fingerprint, cursor, agentVars, agentStore, cloudVars, crashes>>

EndAttempt ==
    /\ pc' = "idle" /\ mode' = "live"
    /\ awaiting' = {} /\ acked' = {} /\ failed' = FALSE
    /\ bus' = Abandoned(bus)
    /\ UNCHANGED todo
    /\ UNCHANGED SettledVars

\* Variant of Retire with a mistake: everything that was sent is retired.
RetireSent(S) ==
    prow' = [e \in Events |-> IF e \in S \cup awaiting THEN "committed" ELSE prow[e]]

\* retire_publisher_payloads
Retire(S) == prow' = [e \in Events |-> IF e \in S THEN "committed" ELSE prow[e]]

(***************************************************************************)
(* persist_or_publish_critical_batch after its waits: the acknowledged     *)
(* payloads are retired, the others stay pending for a replay.             *)
(***************************************************************************)
SettleLive ==
    /\ mode = "live"
    /\ WaitsOver
    /\ Retire(acked)
    /\ emergency' = (failed \/ ~(awaiting \subseteq acked))
    /\ EndAttempt

\* The acknowledged events before the first that is not.
AcceptedPrefix ==
    {e \in awaiting : \A f \in awaiting : sequence[f] <= sequence[e] => f \in acked}

(***************************************************************************)
(* replay_emergency_outbox after its waits: the accepted prefix is         *)
(* retired.  If that was the whole batch, retired payloads are pruned and  *)
(* the emergency lasts while others are pending.                           *)
(***************************************************************************)
SettleReplay ==
    /\ mode = "replay"
    /\ WaitsOver
    /\ IF AcceptedPrefix = awaiting /\ ~failed
       THEN /\ prow' = [e \in Events |-> IF e \in AcceptedPrefix \/ prow[e] = "committed"
                                         THEN "none" ELSE prow[e]]
            /\ emergency' = (PubPending \ AcceptedPrefix # {})
       ELSE /\ Retire(AcceptedPrefix)
            /\ emergency' = TRUE
    /\ EndAttempt

\* Variant of RetireFails with a mistake: nobody is told.
RetireFailsQuietly ==
    /\ pc = "publish"
    /\ todo = {}
    /\ Answered
    /\ acked # {}
    /\ Fault(1)
    /\ EndAttempt
    /\ UNCHANGED <<emergency, prow>>

\* The retirement transaction fails: every payload stays pending.
RetireFails ==
    /\ pc = "publish"
    /\ todo = {}
    /\ Answered
    /\ acked # {}
    /\ Fault(1)
    /\ emergency' = TRUE
    /\ EndAttempt
    /\ UNCHANGED prow

\* Maintenance of publisher.db: prune_committed drops payloads, never
\* reservations.
PrunePublisher ==
    /\ pc = "idle"
    /\ phase = "open"
    /\ \E e \in Events : prow[e] = "committed"
    /\ prow' = [e \in Events |-> IF prow[e] = "committed" THEN "none" ELSE prow[e]]
    /\ UNCHANGED <<producerVars, receipts, workerVars, attemptVars, sequence, fingerprint,
                   cursor, bus, agentVars, agentStore, cloudVars, crashes, faults>>

\* Shutdown: the receiver is closed, and one replay is tried.
Close ==
    /\ MayStop
    /\ pc = "idle"
    /\ phase = "open"
    /\ phase' = "closing"
    /\ \/ emergency /\ BeginReplay
       \/ ~emergency /\ UNCHANGED <<pc, mode, attemptVars>>
    /\ UNCHANGED <<producerVars, receipts, emergency, batch, groups, fresh, rejected,
                   storeVars, bus, agentVars, agentStore, cloudVars, crashes, faults>>

\* recv() returns None: the queue is empty and no permit is outstanding.
Finish ==
    /\ pc = "idle"
    /\ phase = "closing"
    /\ queue = <<>> /\ held = <<>>
    /\ phase' = "finished"
    /\ UNCHANGED <<producerVars, receipts, pc, mode, emergency, batch, groups, fresh, rejected,
                   attemptVars, storeVars, bus, agentVars, agentStore, cloudVars,
                   crashes, faults>>

(***************************************************************************)
(* The strategy process dies and starts again: memory is lost, the         *)
(* database is not, and pending payloads make the new worker start in      *)
(* emergency mode (emergency_outbox_has_pending).                          *)
(***************************************************************************)
PublisherRestart ==
    /\ crashes < MaxCrashes
    /\ crashes' = crashes + 1
    /\ offered' = {} /\ held' = <<>> /\ queue' = <<>> /\ refused' = FALSE
    /\ phase' = "open" /\ pc' = "idle" /\ mode' = "live"
    /\ emergency' = (PubPending # {})
    /\ batch' = <<>> /\ groups' = <<>> /\ fresh' = {} /\ rejected' = {}
    /\ todo' = {} /\ awaiting' = {} /\ acked' = {} /\ failed' = FALSE
    /\ bus' = Abandoned(bus)
    /\ sealed' = FALSE
    /\ UNCHANGED <<offers, receipts, storeVars, agentVars, agentStore, cloud, faults>>

(***************************************************************************)
(* The bus and the agent's ingestion.                                      *)
(***************************************************************************)

\* A full or dropped subscription loses a message.
LoseMessage(i) ==
    /\ i \in DOMAIN bus
    /\ bus' = [j \in 1 .. Len(bus) - 1 |-> IF j < i THEN bus[j] ELSE bus[j + 1]]
    /\ Fault(1)
    /\ UNCHANGED <<producerVars, receipts, workerVars, attemptVars, storeVars, agentVars,
                   agentStore, cloudVars, crashes>>

(***************************************************************************)
(* accept_critical_batch: the first k deliveries are inserted in one       *)
(* transaction (INSERT OR IGNORE), the critical worker is notified if a    *)
(* row is new, and each delivery is acknowledged; acknowledgements in lost *)
(* do not arrive.                                                          *)
(***************************************************************************)
Accept(k) ==
    /\ apc # "stopped"
    /\ k \in 1 .. Len(bus)
    /\ LET new == {e \in Events : row[e].state = "none" /\ \E i \in 1 .. k : bus[i].id = e}
           asked == {e \in Events : \E i \in 1 .. k : bus[i].id = e /\ bus[i].live}
           first(e) == CHOOSE i \in 1 .. k : bus[i].id = e /\ \A j \in 1 .. i - 1 : bus[j].id # e
       IN /\ row' = [e \in Events |->
                       IF e \in new
                       THEN [state |-> "pending", seq |-> bus[first(e)].seq,
                             body |-> bus[first(e)].body, due |-> TRUE]
                       ELSE row[e]]
          /\ woken' = (woken \/ (new # {} /\ apc # "arm"))
          /\ \E lost \in SUBSET asked :
              /\ Fault(Cardinality(lost))
              /\ acked' = acked \cup (asked \ lost)
    /\ bus' = SubSeq(bus, k + 1, Len(bus))
    /\ UNCHANGED <<producerVars, receipts, workerVars, todo, awaiting, failed, storeVars,
                   apc, timer, calls, reply, refreshed, paused, through, cloudVars, crashes>>

(***************************************************************************)
(* The agent's critical worker.                                            *)
(***************************************************************************)
RowSeq == [e \in Events |-> row[e].seq]
Pending == {e \in Events : row[e].state = "pending"}

\* Once the cloud is not paused, register for the next notification.
Arm ==
    /\ apc = "arm"
    /\ ~paused
    /\ apc' = "flush"
    /\ woken' = FALSE
    /\ UNCHANGED <<producerVars, receipts, workerVars, attemptVars, storeVars, bus, timer,
                   calls, reply, refreshed, paused, agentStore, cloudVars, crashes, faults>>

\* pending_batch_query: rows that are due and not behind a row in backoff.
DueRows ==
    {e \in Pending : /\ row[e].due
                     /\ \A b \in Pending : row[b].seq < row[e].seq => row[b].due}

\* first_internal_critical_gap.
Gap(S) ==
    \E e, f \in S : \E n \in (row[e].seq + 1) .. (row[f].seq - 1) :
        \A g \in S : row[g].seq # n

Backoff(S) == [e \in Events |-> IF e \in S /\ row[e].state = "pending"
                                THEN [row[e] EXCEPT !.due = FALSE] ELSE row[e]]

(***************************************************************************)
(* flush_priority: read a batch.  One with a gap is not sent; all of it    *)
(* goes into backoff.                                                      *)
(***************************************************************************)
Flush ==
    /\ apc = "flush"
    /\ LET records == Lowest(DueRows, RowSeq, AgentBatch)
       IN \/ /\ records = {} \/ Gap(records)
             /\ row' = Backoff(records)
             /\ apc' = "deadline"
             /\ UNCHANGED calls
          \/ /\ records # {} /\ ~Gap(records)
             /\ calls' = <<records>>
             /\ apc' = "call"
             /\ UNCHANGED row
    /\ refreshed' = FALSE
    /\ UNCHANGED <<producerVars, receipts, workerVars, attemptVars, storeVars, bus, woken,
                   timer, reply, paused, through, cloudVars, crashes, faults>>

\* next_pending_deadline reads the row with the lowest sequence: go on at once
\* if it is due, else sleep until then, or without a limit if there is none.
ReadDeadline ==
    /\ apc = "deadline"
    /\ LET first == Lowest(Pending, RowSeq, 1)
           ready == \E e \in first : row[e].due
       IN /\ apc' = IF ready THEN "arm" ELSE "wait"
          /\ timer' = IF ready THEN {} ELSE first
    /\ UNCHANGED <<producerVars, receipts, workerVars, attemptVars, storeVars, bus, woken,
                   calls, reply, refreshed, paused, agentStore, cloudVars, crashes, faults>>

\* Variant of Wake with a mistake: only a notification ends the sleep.
WakeOnNotice ==
    /\ apc = "wait"
    /\ woken
    /\ apc' = "arm"
    /\ timer' = {}
    /\ UNCHANGED <<producerVars, receipts, workerVars, attemptVars, storeVars, bus, woken,
                   calls, reply, refreshed, paused, agentStore, cloudVars, crashes, faults>>

\* The notification fired, or the deadline passed.
Wake ==
    /\ apc = "wait"
    /\ woken \/ \E e \in timer : row[e].due
    /\ apc' = "arm"
    /\ timer' = {}
    /\ UNCHANGED <<producerVars, receipts, workerVars, attemptVars, storeVars, bus, woken,
                   calls, reply, refreshed, paused, agentStore, cloudVars, crashes, faults>>

\* Time passes a row's next_attempt_at_us.
RetryDue(e) ==
    /\ row[e].state = "pending" /\ ~row[e].due
    /\ row' = [row EXCEPT ![e].due = TRUE]
    /\ UNCHANGED <<producerVars, receipts, workerVars, attemptVars, storeVars, bus, agentVars,
                   through, cloudVars, crashes, faults>>

\* Time passes cloud_pause_until.
Resume ==
    /\ paused
    /\ paused' = FALSE
    /\ UNCHANGED <<producerVars, receipts, workerVars, attemptVars, storeVars, bus, apc, woken, timer,
                   calls, reply, refreshed, agentStore, cloudVars, crashes, faults>>

(***************************************************************************)
(* The cloud's answer to the batch of the current call.  It stores entries *)
(* contiguously, ignores those it has, answers a batch beyond its cursor   *)
(* with a sequence conflict (which it may also do for one it has seen),    *)
(* and refuses a batch with a poison event.                                *)
(***************************************************************************)
Stored == Len(cloud)

\* The entries of S continue what is stored without a gap, or repeat it.
Continues(S) ==
    \A e \in S : \A n \in (Stored + 1) .. row[e].seq : \E f \in S : row[f].seq = n

CloudStores(S) ==
    /\ S \cap Poison = {}
    /\ Continues(S)
    /\ \E last \in {row[e].seq : e \in S} \cup {Stored} :
        /\ Stored <= last /\ \A e \in S : row[e].seq <= last
        /\ cloud' = [n \in 1 .. last |->
                       IF n <= Stored THEN cloud[n]
                       ELSE LET e == CHOOSE f \in S : row[f].seq = n
                            IN [id |-> e, body |-> row[e].body]]

CloudAnswers(answer) ==
    /\ apc = "call"
    /\ LET S == Head(calls)
       IN \/ answer = "ok" /\ CloudStores(S) /\ UNCHANGED faults
          \/ answer = "transient" /\ answer \in CloudErrors /\ CloudStores(S) /\ Fault(1)
          \/ answer \in CloudErrors /\ Fault(1) /\ UNCHANGED cloud
          \/ /\ answer = "conflict"
             /\ ~Continues(S) \/ \A e \in S : row[e].seq <= Stored
             /\ UNCHANGED <<cloud, faults>>
          \/ answer = "invalid" /\ S \cap Poison # {} /\ UNCHANGED <<cloud, faults>>
    /\ reply' = answer
    /\ apc' = "reply"
    /\ UNCHANGED <<producerVars, receipts, workerVars, attemptVars, storeVars, bus, woken,
                   timer, calls, refreshed, paused, agentStore, sealed, crashes>>

\* persist_with_bisection goes on with the next batch unless delivery is
\* paused.
NextCall(rest) ==
    /\ calls' = IF paused' THEN <<>> ELSE rest
    /\ apc' = IF rest = <<>> \/ paused' THEN "deadline" ELSE "call"
    /\ reply' = "none"

OffAgent == <<producerVars, receipts, workerVars, attemptVars, storeVars, bus, woken, timer,
              cloudVars, crashes>>

\* mark_remote_committed: the rows, and the cursor, which only grows.
Commit(S) ==
    [e \in Events |-> IF e \in S /\ row[e].state # "none"
                      THEN [row[e] EXCEPT !.state = "committed"] ELSE row[e]]

Higher(n) == IF n > through THEN n ELSE through

\* The batch was stored.
Committed ==
    /\ apc = "reply" /\ reply = "ok"
    /\ row' = Commit(Head(calls))
    /\ through' = Higher(Stored)
    /\ UNCHANGED <<refreshed, paused, faults, OffAgent>>
    /\ NextCall(Tail(calls))

\* Variant of Covered with a mistake: a conflict counts as stored already.
CoveredAll(S) == S

\* What the remote cursor covers.
Covered(S) == {e \in S : row[e].seq <= Stored}

\* A sequence conflict, and the remote cursor could be read: what it covers
\* is committed, the rest is retried.
Reconciled ==
    /\ apc = "reply" /\ reply = "conflict"
    /\ LET S == Head(calls)
           done == Covered(S)
       IN /\ row' = [e \in Events |-> IF e \in done THEN Commit(done)[e]
                                      ELSE Backoff(S)[e]]
          /\ through' = IF done = {} THEN through ELSE Higher(Stored)
    /\ UNCHANGED <<refreshed, paused, faults, OffAgent>>
    /\ NextCall(Tail(calls))

\* Authentication failed for the first time in this flush and the refreshed
\* credential is accepted: the same batch is sent again.
Refreshed ==
    /\ apc = "reply" /\ reply = "auth"
    /\ ~refreshed
    /\ refreshed' = TRUE
    /\ UNCHANGED <<agentStore, paused, faults, OffAgent>>
    /\ NextCall(calls)

\* A sequence conflict whose cursor could not be read, an authentication
\* failure that a refresh did not cure, a transient error or a pause.
Retried ==
    /\ apc = "reply"
    /\ \/ reply = "conflict" /\ Fault(1)
       \/ reply \in {"transient", "paused"} /\ UNCHANGED faults
       \/ reply = "auth" /\ UNCHANGED faults
    /\ row' = Backoff(Head(calls))
    /\ paused' = (paused \/ reply = "paused")
    /\ refreshed' = (refreshed \/ reply = "auth")
    /\ UNCHANGED <<through, OffAgent>>
    /\ NextCall(Tail(calls))

\* An invalid batch is split in two halves, lower sequences first.
Bisected ==
    /\ apc = "reply" /\ reply = "invalid"
    /\ LET S == Head(calls)
           left == Lowest(S, RowSeq, Cardinality(S) \div 2)
       IN /\ Cardinality(S) > 1
          /\ UNCHANGED <<agentStore, refreshed, paused, faults, OffAgent>>
          /\ NextCall(<<left, S \ left>> \o Tail(calls))

\* A single invalid event, or a terminal refusal, goes to the dead letters.
DeadLettered ==
    /\ apc = "reply"
    /\ reply = "terminal" \/ (reply = "invalid" /\ Cardinality(Head(calls)) = 1)
    /\ row' = [e \in Events |-> IF e \in Head(calls) /\ row[e].state # "none"
                                THEN [row[e] EXCEPT !.state = "dead_letter"] ELSE row[e]]
    /\ UNCHANGED <<through, refreshed, paused, faults, OffAgent>>
    /\ NextCall(Tail(calls))

(***************************************************************************)
(* Maintenance, crash and shutdown of the agent.                           *)
(***************************************************************************)

\* prune_committed and enforce_storage_policy: committed rows only.
PruneAgent(e) ==
    /\ row[e].state = "committed"
    /\ GraceCovers => prow[e] # "pending" /\ \A i \in DOMAIN bus : bus[i].id # e
    /\ row' = [row EXCEPT ![e] = NoRow]
    /\ UNCHANGED <<producerVars, receipts, workerVars, attemptVars, storeVars, bus, agentVars,
                   through, cloudVars, crashes, faults>>

\* The agent dies (or stops on an error) and runs again: its subscription
\* and its calls in flight are lost.
AgentRestart ==
    /\ crashes < MaxCrashes
    /\ crashes' = crashes + 1
    /\ bus' = <<>>
    /\ apc' = "arm" /\ woken' = FALSE /\ timer' = {} /\ calls' = <<>> /\ reply' = "none"
    /\ refreshed' = FALSE /\ paused' = FALSE
    /\ UNCHANGED <<producerVars, receipts, workerVars, attemptVars, storeVars, agentStore,
                   cloudVars, faults>>

\* EmbeddedHostedSync::shutdown stops the agent once the publisher has
\* drained, or has used up its time.
AgentStop ==
    /\ phase # "open"
    /\ apc # "stopped"
    /\ apc' = "stopped"
    /\ timer' = {}
    /\ bus' = <<>>
    /\ calls' = <<>> /\ reply' = "none"
    /\ UNCHANGED <<producerVars, receipts, workerVars, attemptVars, storeVars, woken, refreshed,
                   paused, agentStore, cloudVars, crashes, faults>>

\* Variant of Seal with a mistake: a dead letter does not keep the run open.
SealWithDeadLetters ==
    /\ apc = "stopped" /\ ~sealed
    /\ phase = "finished" /\ ~refused
    /\ Pending = {} /\ PubPending = {}
    /\ sealed' = TRUE
    /\ UNCHANGED <<producerVars, receipts, workerVars, attemptVars, storeVars, bus, agentVars,
                   agentStore, cloud, crashes, faults>>

\* ... and seals the run only if neither store owns uncommitted work.
Seal ==
    /\ apc = "stopped" /\ ~sealed
    /\ phase = "finished" /\ ~refused
    /\ \A e \in Events : row[e].state \in {"none", "committed"}
    /\ \A e \in Events : prow[e] \in {"none", "committed"}
    /\ sealed' = TRUE
    /\ UNCHANGED <<producerVars, receipts, workerVars, attemptVars, storeVars, bus, agentVars,
                   agentStore, cloud, crashes, faults>>

PublisherStep ==
    \/ Collect \/ ReserveGroup \/ SplitGroup \/ RejectCopy \/ Dispatch \/ ReplayTick
    \/ Publish \/ SettleLive \/ SettleReplay

AgentStep ==
    \/ Arm \/ Flush \/ ReadDeadline \/ Wake
    \/ Committed \/ Reconciled \/ Refreshed \/ Retried \/ Bisected \/ DeadLettered

Answers == {"ok", "conflict", "invalid"} \cup CloudErrors

Next ==
    \/ \E c \in Copies : Offer(c) \/ OfferRefused(c)
    \/ \E i \in DOMAIN held : Send(i)
    \/ PublisherStep \/ PublishFails \/ RetireFails \/ PrunePublisher
    \/ Close \/ Finish \/ PublisherRestart
    \/ \E i \in DOMAIN bus : LoseMessage(i) \/ Accept(i)
    \/ AgentStep
    \/ \E answer \in Answers : CloudAnswers(answer)
    \/ \E e \in Events : RetryDue(e) \/ PruneAgent(e)
    \/ Resume \/ AgentRestart \/ AgentStop \/ Seal

Spec == Init /\ [][Next]_vars

(***************************************************************************)
(* The tasks of both processes keep running, timers fire, and the cloud    *)
(* request ends (it has a timeout).  Faults and crashes are bounded, never *)
(* fair.                                                                   *)
(***************************************************************************)
Fairness ==
    /\ WF_vars(\E i \in DOMAIN held : Send(i))
    /\ WF_vars(PublisherStep)
    /\ WF_vars(\E k \in DOMAIN bus : Accept(k))
    /\ WF_vars(AgentStep)
    /\ WF_vars(\E answer \in Answers : CloudAnswers(answer))
    /\ WF_vars(Resume)
    /\ \A e \in Events : WF_vars(RetryDue(e))

FairSpec == Spec /\ Fairness

(***************************************************************************)
(* Properties.                                                             *)
(***************************************************************************)
Reserved == {e \in Events : sequence[e] # 0}
Delivered == {e \in Reserved : sequence[e] <= Stored}

\* A reserved event is never lost: it waits in publisher.db, waits or is a
\* dead letter in sync.db, or the cloud has it, whatever was lost, retried,
\* pruned or crashed on the way (retire_publisher_payloads,
\* mark_remote_committed and prune_committed together).
NothingLost ==
    \A e \in Reserved :
        \/ prow[e] = "pending"
        \/ row[e].state \in {"pending", "dead_letter"}
        \/ e \in Delivered

\* Every copy of an event that is on its way carries the sequence number and
\* the body of the one durable reservation, so the agent's identity check
\* (InvalidRecord in insert_events_in_transaction, which stops the agent)
\* never fails on a retry.
HandoffConsistent ==
    /\ \A i \in DOMAIN bus : /\ bus[i].id \in Reserved
                             /\ bus[i].seq = sequence[bus[i].id]
                             /\ bus[i].body = fingerprint[bus[i].id]
    /\ \A e \in Events : row[e].state # "none" =>
            e \in Reserved /\ row[e].seq = sequence[e] /\ row[e].body = fingerprint[e]

\* What the agent holds as committed, and may therefore prune, the cloud has;
\* its cursor never runs ahead of the cloud's.
CommittedIsDelivered ==
    /\ \A e \in Events : row[e].state = "committed" => e \in Delivered
    /\ through <= Stored

\* An Ok receipt of queue_durable is kept: the event is reserved with exactly
\* that body, also after restarts and pruning.
ReceiptIsDurable ==
    \A c \in receipts : c.id \in Reserved /\ fingerprint[c.id] = c.body

\* A sealed run is complete: everything the strategy published since the
\* start, and everything ever reserved, is in the cloud ("Never seal after a
\* timed-out publisher flush, or while any lane/DLQ still owns work").
SealedIsComplete ==
    sealed => offered \cup Reserved \subseteq Delivered

\* An idle worker outside emergency mode owns no pending payload: nothing
\* would publish it before the next restart.
NothingStranded ==
    pc = "idle" /\ ~emergency => PubPending = {}

\* A reserved event reaches the cloud.
EventuallyDelivered ==
    \A e \in Events : e \in Reserved ~> e \in Delivered

Entries == {[seq |-> sequence[e], id |-> e, body |-> fingerprint[e]] : e \in Reserved}
CloudEntries == {[seq |-> n, id |-> cloud[n].id, body |-> cloud[n].body] : n \in DOMAIN cloud}

Log == INSTANCE OrderedLog WITH accepted <- Entries, delivered <- CloudEntries

\* The pipeline implements the ordered log: the reservations are its accepted
\* entries, what the cloud has stored its delivered ones, and every step of the
\* publisher, the bus, the agent and the cloud is one of its steps or none.
ImplementsLog == Log!Spec
=============================================================================
