--------------------------- MODULE CommandWorker ---------------------------
(***************************************************************************)
(* The broker command worker (src/core/broker/command_worker.rs): the one  *)
(* task that owns a strategy's command journal and is allowed to poll the  *)
(* broker.  The module models the task `run` step by step, the sender API  *)
(* through which the strategy owner reaches it, the durable journal, the   *)
(* execution lifecycle, crashes and restarts, and the broker behind it.    *)
(*                                                                         *)
(* A step ends where the source awaits something another party can see or  *)
(* change: a journal commit, a broker answer, the gate, a channel.  The    *)
(* owner is left open here (it may do anything the sender API allows);     *)
(* CommandDriver models the owner and reduces the worker instead.          *)
(***************************************************************************)
EXTENDS Naturals, Sequences, FiniteSets, CommandJournal

CONSTANTS
    Commands,            \* immutable command identities
    None,                \* no command
    Kind,                \* what each command asks of the broker
    Target,              \* the submit command whose order it is about
    EntryCapacity,       \* config.entry_capacity
    ControlCapacity,     \* config.control_capacity
    CompletionCapacity,  \* config.completion_capacity
    MaxAttempts,         \* MAX_CANCEL_RECOVERY_ATTEMPTS
    MaxReconciliations,  \* MAX_COMMAND_RECONCILIATIONS
    Delays               \* the length of COMMAND_RECONCILIATION_DELAYS

ASSUME WorkerAssumption ==
    /\ None \notin Commands
    /\ Kind \in [Commands -> Kinds]
    /\ Target \in [Commands -> Commands]
    /\ EntryCapacity \in Nat \ {0}
    /\ ControlCapacity \in Nat \ {0}
    /\ CompletionCapacity \in Nat \ {0}
    /\ MaxAttempts \in Nat
    /\ MaxReconciliations \in Nat
    /\ Delays \in Nat \ {0}

VARIABLES
    \* durable
    journal,       \* journal[c]: the record of c
    phase,         \* ExecutionLifecycle.phase
    \* the worker task
    pc,            \* where `run` is
    cmd,           \* the command it works on
    recovered,     \* the record's state when `prepare` read it
    retry,         \* cancellation_proof / cancellation_attempt is set
    result,        \* the outcome it is about to save or deliver
    entries,       \* the entry channel (everything that is not teardown)
    controls,      \* the control channel (cancel and close)
    parkedEntry,   \* parked_entry
    parkedControl, \* parked_control
    timers,        \* command_reconciliations: 0, or 1 + item.attempt
    attempts,      \* cancellation_attempts
    \* shared with the owner
    events,        \* the completion channel: <<command, outcome>>
    closed,        \* the owner dropped the completion receiver
    gate,          \* EntryGate: stopped, cancelled
    stop,          \* StopFence: requested, persisted
    admitted,      \* commands the owner enqueued in this process life
    \* the broker
    polled,        \* how often the transport of c's own dispatch was polled
    wire,          \* what the broker did with the last transmission of c
    order          \* the order each submit produced at the broker

durable == <<journal, phase>>
task    == <<cmd, recovered, retry, result>>
queues  == <<entries, controls, parkedEntry, parkedControl>>
recon   == <<timers, attempts>>
shared  == <<events, closed, gate, stop, admitted>>
broker  == <<polled, wire, order>>
vars    == <<durable, pc, task, queues, recon, shared, broker>>

Entry(c) == IsEntry(Kind[c])
Teardown(c) == IsTeardown(Kind[c])
Save(c, r) == journal' = [journal EXCEPT ![c] = r]

\* EntryGate::cancels_entry.  `expired` is the deadline test: the clock may
\* have passed c's deadline at any evaluation, so callers choose it freely.
CancelsEntry(c, expired) == Entry(c) /\ (gate.stopped \/ c \in gate.cancelled \/ expired)

Phases == {"running", "stopping", "stopped"}
Orders == {"none", "pending", "filled", "Cancelled", "Closed"}

Init ==
    /\ journal = [c \in Commands |-> Record("absent", "none")]
    /\ phase = "running"
    /\ pc = "idle" /\ cmd = None /\ recovered = "absent" /\ retry = FALSE /\ result = "none"
    /\ entries = <<>> /\ controls = <<>> /\ parkedEntry = None /\ parkedControl = None
    /\ timers = [c \in Commands |-> 0]
    /\ attempts = [c \in Commands |-> 0]
    /\ events = <<>> /\ closed = FALSE
    /\ gate = [stopped |-> FALSE, cancelled |-> {}]
    /\ stop = [requested |-> FALSE, persisted |-> FALSE]
    /\ admitted = {}
    /\ polled = [c \in Commands |-> 0]
    /\ wire = [c \in Commands |-> "none"]
    /\ order = [c \in Commands |-> "none"]

-----------------------------------------------------------------------------
(***************************************************************************)
(* Pieces of `run`.                                                        *)
(***************************************************************************)
GoIdle ==
    /\ pc' = "idle"
    /\ cmd' = None /\ recovered' = "absent" /\ retry' = FALSE /\ result' = "none"

GoTo(label, c, outcome) ==
    /\ pc' = label /\ cmd' = c /\ result' = outcome
    /\ UNCHANGED <<recovered, retry>>

\* Put the current command back into the one slot of its class.
Park ==
    /\ IF Teardown(cmd)
       THEN parkedControl' = cmd /\ UNCHANGED parkedEntry
       ELSE parkedEntry' = cmd /\ UNCHANGED parkedControl
    /\ UNCHANGED <<entries, controls>>
    /\ GoIdle

\* StopFence::persist and the journal's request_execution_stop.
StopPending == stop.requested /\ ~stop.persisted

\* Variant of PersistStop with a mistake: only the flag in memory is set.
PersistStopInMemory(requested) ==
    stop' = [requested |-> requested, persisted |-> requested] /\ UNCHANGED phase

PersistStop(requested) ==
    /\ stop' = [requested |-> requested, persisted |-> requested]
    /\ phase' = IF requested /\ phase = "running" THEN "stopping" ELSE phase

\* The end of `run`: entries stay gated, and a stop that is still pending is
\* saved first.  With `changed` the account behind the connection is another
\* one, which is itself a reason to stop.
Exit(changed) ==
    /\ gate' = [gate EXCEPT !.stopped = TRUE]
    /\ PersistStop(changed \/ stop.requested)
    /\ pc' = "exited"
    /\ cmd' = None /\ recovered' = "absent" /\ retry' = FALSE /\ result' = "none"

\* schedule_command_reconciliation
Schedule(c) ==
    IF /\ Cardinality({d \in Commands : timers[d] > 0}) < MaxReconciliations
       /\ timers[c] = 0
       /\ Kind[c] \in {"submit", "cancel"}
    THEN [timers EXCEPT ![c] = 1]
    ELSE timers
ScheduleIfAmbiguous(c, outcome, tries) ==
    timers' = IF outcome = "ambiguous" /\ tries[c] < MaxAttempts
              THEN Schedule(c) ELSE timers

\* reschedule_command_reconciliation, of an item just removed from the queue
Reschedule(c) ==
    [timers EXCEPT ![c] = IF timers[c] < Delays THEN timers[c] + 1 ELSE 0]

-----------------------------------------------------------------------------
(***************************************************************************)
(* The select at the top of the loop.  Its branches are biased, but they   *)
(* are polled one after the other while the owner keeps sending, so all    *)
(* that the bias guarantees is that a closed receiver is seen first.  The  *)
(* readiness tests on a parked command read snapshot freshness, which may  *)
(* change at any time: any selection may happen.                           *)
(***************************************************************************)
Taken(c) ==
    /\ pc = "idle" /\ ~closed
    /\ \/ /\ parkedControl = c
          /\ parkedControl' = None /\ UNCHANGED <<entries, controls, parkedEntry>>
       \/ /\ parkedControl = None /\ controls # <<>> /\ c = Head(controls)
          /\ controls' = Tail(controls) /\ UNCHANGED <<entries, parkedEntry, parkedControl>>
       \/ /\ parkedEntry = c
          /\ parkedEntry' = None /\ UNCHANGED <<entries, controls, parkedControl>>
       \/ /\ parkedEntry = None /\ entries # <<>> /\ c = Head(entries)
          /\ entries' = Tail(entries) /\ UNCHANGED <<controls, parkedEntry, parkedControl>>

\* reconcile_ambiguous_submission: what the completion may become.
Reconciled(c, outcome) ==
    {outcome} \union
    (IF outcome = "ambiguous" /\ Kind[c] = "submit" /\ order[c] # "none" THEN {"order"} ELSE {})
\* Variant of SaveReconciled with a mistake: the confirmation is not saved.
ReconciledNotSaved(c, before, after) == UNCHANGED journal

SaveReconciled(c, before, after) ==
    IF after = before THEN UNCHANGED journal ELSE Save(c, ConfirmAmbiguousSubmission(journal[c]))

\* An uncertain cancellation is looked up at the broker before it is replayed.
MayProve(c) ==
    /\ journal[c].outcome = "ambiguous"
    /\ Kind[c] = "cancel"
    /\ attempts[c] < MaxAttempts
    /\ \/ attempts[c] > 0
       \/ Cardinality({d \in Commands : attempts[d] > 0}) < MaxReconciliations

\* A command whose result is already saved: replay it.
TakeCompleted(c) ==
    /\ Taken(c)
    /\ journal[c].outcome # "none"
    /\ ~MayProve(c)
    /\ \E outcome \in Reconciled(c, journal[c].outcome) :
          /\ SaveReconciled(c, journal[c].outcome, outcome)
          /\ ScheduleIfAmbiguous(c, outcome, attempts)
          /\ GoTo("deliver", c, outcome)
    /\ UNCHANGED <<phase, attempts, shared, broker>>

TakeForProof(c) ==
    /\ Taken(c)
    /\ MayProve(c)
    /\ GoTo("proofread", c, "ambiguous")
    /\ UNCHANGED <<durable, recon, shared, broker>>

\* A command without a result: make it durable and decide what to do with it.
TakePrepared(c) ==
    /\ Taken(c)
    /\ journal[c].outcome = "none"
    /\ Save(c, Prepare(journal[c]))
    /\ pc' = "preflight" /\ cmd' = c /\ recovered' = Prepare(journal[c]).state
    /\ UNCHANGED <<phase, retry, result, recon, shared, broker>>

\* pending_cancellation_recovery: the broker looks the order up ...
ProofSeen ==
    /\ pc = "proofread" /\ ~retry
    /\ order[Target[cmd]] = "pending"
    /\ retry' = TRUE
    /\ UNCHANGED <<durable, pc, cmd, recovered, result, queues, recon, shared, broker>>

\* ... and its answer arrives.  No answer in time, an error, any other status
\* and a closed receiver all count as no proof: the saved completion, as it was
\* read before the lookup, is delivered.
ProofFound ==
    /\ pc = "proofread" /\ retry /\ ~closed
    /\ pc' = "preflight" /\ recovered' = "completed" /\ result' = "none"
    /\ UNCHANGED <<durable, cmd, retry, queues, recon, shared, broker>>
NoProof ==
    /\ pc = "proofread"
    /\ ScheduleIfAmbiguous(cmd, "ambiguous", attempts)
    /\ pc' = "deliver" /\ retry' = FALSE
    /\ UNCHANGED <<durable, cmd, recovered, result, queues, attempts, shared, broker>>

-----------------------------------------------------------------------------
(***************************************************************************)
(* Preflight: decide without the broker, or go for the account lane.       *)
(***************************************************************************)
\* Owner loss gates entries before the decision.
GateIfClosed == gate' = [gate EXCEPT !.stopped = @ \/ closed]

\* What stops c from being dispatched now.  A closed receiver has just stopped
\* the gate; otherwise an entry's deadline may have passed.
\* The margin estimate of a submit may fail or be refused.
LocalOutcomes(c) ==
    IF recovered = "dispatching" THEN {"ambiguous"}
    ELSE IF CancelsEntry(c, closed) THEN {"cancelled_before_dispatch"}
    ELSE IF Entry(c) THEN {"cancelled_before_dispatch", "declined"}
    ELSE {}

PreflightDecides ==
    /\ pc = "preflight"
    /\ GateIfClosed
    /\ \E outcome \in LocalOutcomes(cmd) : GoTo("save", cmd, outcome)
    /\ UNCHANGED <<durable, queues, recon, events, closed, stop, admitted, broker>>

\* Variant of MayDispatch with a mistake: a recovered dispatch is sent again.
DispatchRecovered(c) == ~CancelsEntry(c, closed)

MayDispatch(c) == recovered # "dispatching" /\ ~CancelsEntry(c, closed)

\* The account snapshot is fresh, stale, or of another account.
PreflightFresh ==
    /\ pc = "preflight"
    /\ GateIfClosed
    /\ MayDispatch(cmd)
    /\ GoTo("lane", cmd, "none")
    /\ UNCHANGED <<durable, queues, recon, events, closed, stop, admitted, broker>>
PreflightStale ==
    /\ pc = "preflight"
    /\ GateIfClosed
    /\ MayDispatch(cmd)
    /\ Park
    /\ UNCHANGED <<durable, recon, events, closed, stop, admitted, broker>>
PreflightChanged ==
    /\ pc = "preflight"
    /\ MayDispatch(cmd)
    /\ Exit(TRUE)
    /\ UNCHANGED <<journal, queues, recon, events, closed, admitted, broker>>

(***************************************************************************)
(* Waiting for the account lane, then for the host lock.  Whatever ends    *)
(* the wait early puts the command back into its slot.                     *)
(***************************************************************************)
LaneClosed ==
    /\ pc = "lane" /\ closed
    /\ gate' = [gate EXCEPT !.stopped = TRUE]
    /\ Park
    /\ UNCHANGED <<durable, recon, events, closed, stop, admitted, broker>>

\* A stop is saved here, and takes an entry out of the wait.
LaneStop ==
    /\ pc = "lane" /\ StopPending
    /\ PersistStop(TRUE)
    /\ IF Entry(cmd) THEN Park ELSE UNCHANGED <<pc, task, queues>>
    /\ UNCHANGED <<journal, recon, events, closed, gate, admitted, broker>>

\* Cleanup of this strategy overtakes its waiting entry.
LaneYield ==
    /\ pc = "lane" /\ ~Teardown(cmd) /\ parkedControl = None /\ controls # <<>>
    /\ parkedControl' = Head(controls) /\ controls' = Tail(controls)
    /\ parkedEntry' = cmd /\ UNCHANGED entries
    /\ GoIdle
    /\ UNCHANGED <<durable, recon, shared, broker>>

\* Variant of LaneHostBusy with a mistake: the command is not put back.
LaneHostBusyDrops ==
    /\ pc = "lane"
    /\ GoIdle
    /\ UNCHANGED <<durable, queues, recon, shared, broker>>

LaneHostBusy ==
    /\ pc = "lane"
    /\ Park
    /\ UNCHANGED <<durable, recon, shared, broker>>

\* Both locks are held: the dispatch becomes durable before the transport is
\* polled (mark_dispatched).
LaneDispatch ==
    /\ pc = "lane" /\ ~retry
    /\ CanMarkDispatched(journal[cmd])
    /\ Save(cmd, MarkDispatched(journal[cmd]))
    /\ pc' = "poll"
    /\ UNCHANGED <<phase, task, queues, recon, shared, broker>>

\* begin_cancellation_recovery, unless the journal has settled meanwhile.
LaneRetry ==
    /\ pc = "lane" /\ retry
    /\ IF StillAmbiguous(journal[cmd])
       THEN /\ attempts' = [attempts EXCEPT ![cmd] = @ + 1]
            /\ pc' = "poll" /\ UNCHANGED task
       ELSE attempts' = [attempts EXCEPT ![cmd] = 0] /\ GoIdle
    /\ UNCHANGED <<durable, queues, timers, shared, broker>>

(***************************************************************************)
(* The first poll, under the gate's lock, and what it decides before it    *)
(* starts the transport.                                                   *)
(***************************************************************************)
\* An entry may meet the gate, its deadline, or a local risk limit; anything
\* may meet a stale snapshot, a lost connection or another account.
Refusals(c) ==
    (IF Entry(c) THEN {"cancelled_before_dispatch"} ELSE {}) \union
    (IF CancelsEntry(c, closed) THEN {} ELSE
        {"stale", "changed"} \union (IF Entry(c) THEN {"declined"} ELSE {}))

PollRefused ==
    /\ pc = "poll"
    /\ \E why \in Refusals(cmd) : GoTo("unpolled", cmd, why)
    /\ UNCHANGED <<durable, queues, recon, shared, broker>>

PollStarts ==
    /\ pc = "poll"
    /\ ~CancelsEntry(cmd, closed)
    /\ wire' = [wire EXCEPT ![cmd] = "flying"]
    /\ polled' = IF retry THEN polled ELSE [polled EXCEPT ![cmd] = @ + 1]
    /\ pc' = "inflight"
    /\ UNCHANGED <<durable, task, queues, recon, shared, order>>

\* The transport was never polled: restore the journal's evidence, then
\* complete, park or leave.
UnpolledJournal ==
    IF retry
    THEN UNCHANGED journal
    ELSE /\ CanDeferUnpolledDispatch(journal[cmd])
         /\ Save(cmd, DeferUnpolledDispatch(journal[cmd]))
UnpolledDecided ==
    /\ pc = "unpolled" /\ result \in Outcomes
    /\ UnpolledJournal
    /\ pc' = "save"
    /\ UNCHANGED <<phase, task, queues, recon, shared, broker>>
UnpolledStale ==
    /\ pc = "unpolled" /\ result = "stale"
    /\ UnpolledJournal
    /\ Park
    /\ UNCHANGED <<phase, recon, shared, broker>>
UnpolledChanged ==
    /\ pc = "unpolled" /\ result = "changed"
    /\ UnpolledJournal
    /\ Exit(TRUE)
    /\ UNCHANGED <<queues, recon, events, closed, admitted, broker>>

(***************************************************************************)
(* In flight: the broker's answer, or mutation_timeout, ends the wait.     *)
(***************************************************************************)
\* Variant of Answers with a mistake: a timeout counts as a refusal.
TimeoutDeclines(c) ==
    IF wire[c] = "done" THEN {IF Kind[c] = "submit" THEN "order" ELSE "acknowledged"}
    ELSE {"declined"}

Answers(c) ==
    {"ambiguous"} \union
    (IF wire[c] = "done" THEN {IF Kind[c] = "submit" THEN "order" ELSE "acknowledged"} ELSE {})
    \union (IF wire[c] = "refused" /\ ~retry THEN {"declined"} ELSE {})

Answered ==
    /\ pc = "inflight"
    /\ \E outcome \in Answers(cmd) : GoTo("save", cmd, outcome)
    /\ UNCHANGED <<durable, queues, recon, shared, broker>>

\* Journal::complete
SaveCompletion ==
    /\ pc = "save" /\ ~retry
    /\ CanComplete(journal[cmd])
    /\ Save(cmd, Complete(journal[cmd], result))
    /\ pc' = "settle"
    /\ UNCHANGED <<phase, task, queues, recon, shared, broker>>

\* Journal::finish_cancellation_recovery: a command that was applied meanwhile
\* is dropped without an event.
SaveRecovery ==
    /\ pc = "save" /\ retry
    /\ CanFinishCancellationRecovery(journal[cmd])
    /\ LET r == FinishCancellationRecovery(journal[cmd], result) IN
       /\ Save(cmd, r)
       /\ attempts' = IF r.outcome = "ambiguous" /\ r.state # "applied"
                      THEN attempts ELSE [attempts EXCEPT ![cmd] = 0]
       /\ IF r.state = "applied" THEN GoIdle ELSE GoTo("settle", cmd, r.outcome)
    /\ UNCHANGED <<phase, queues, timers, shared, broker>>

\* Reconcile an uncertain submit, schedule what stays uncertain, and release
\* the account before delivering.
Settle ==
    /\ pc = "settle"
    /\ \E outcome \in Reconciled(cmd, result) :
          /\ SaveReconciled(cmd, result, outcome)
          /\ ScheduleIfAmbiguous(cmd, outcome, attempts)
          /\ pc' = "deliver" /\ result' = outcome /\ recovered' = "absent" /\ retry' = FALSE
    /\ UNCHANGED <<phase, cmd, queues, attempts, shared, broker>>

\* deliver_event: wait for room in the completion channel.
Deliver ==
    /\ pc = "deliver" /\ ~closed
    /\ Len(events) < CompletionCapacity
    /\ events' = Append(events, <<cmd, result>>)
    /\ GoIdle
    /\ UNCHANGED <<durable, queues, recon, closed, gate, stop, admitted, broker>>

\* The owner dropped the receiver: the loop ends.
Leave ==
    /\ pc \in {"idle", "deliver"} /\ closed
    /\ Exit(FALSE)
    /\ UNCHANGED <<journal, queues, recon, events, closed, admitted, broker>>

(***************************************************************************)
(* The reconciliation timer.                                               *)
(***************************************************************************)
TimerSettled(c) ==
    /\ pc = "idle" /\ ~closed /\ timers[c] > 0
    /\ ~StillAmbiguous(journal[c])
    /\ timers' = [timers EXCEPT ![c] = 0]
    /\ attempts' = [attempts EXCEPT ![c] = 0]
    /\ UNCHANGED <<durable, pc, task, queues, shared, broker>>

TimerCancel(c) ==
    /\ pc = "idle" /\ ~closed /\ timers[c] > 0
    /\ StillAmbiguous(journal[c]) /\ Kind[c] = "cancel"
    /\ parkedControl' = IF parkedControl = None THEN c ELSE parkedControl
    /\ timers' = Reschedule(c)
    /\ UNCHANGED <<durable, pc, task, entries, controls, parkedEntry, attempts, shared, broker>>

\* reconcile_submission confirms the order, cannot tell, or is not supported.
TimerSubmit(c) ==
    /\ pc = "idle" /\ ~closed /\ timers[c] > 0
    /\ StillAmbiguous(journal[c]) /\ Kind[c] = "submit"
    /\ \/ /\ order[c] # "none"
          /\ Save(c, ConfirmAmbiguousSubmission(journal[c]))
          /\ timers' = [timers EXCEPT ![c] = 0]
          /\ GoTo("deliver", c, "order")
       \/ /\ timers' \in {Reschedule(c), [timers EXCEPT ![c] = 0]}
          /\ UNCHANGED <<journal, pc, task>>
    /\ UNCHANGED <<phase, queues, attempts, shared, broker>>

-----------------------------------------------------------------------------
(***************************************************************************)
(* What the task does for the owner while it waits: save a coalesced stop  *)
(* and serve journal requests.                                             *)
(***************************************************************************)
Serving == pc \in {"idle", "proofread", "lane", "inflight", "deliver"}
Up == pc \notin {"exited", "down"}

StopSaved ==
    /\ pc \in {"idle", "proofread", "poll", "inflight", "deliver"} /\ StopPending
    /\ PersistStop(TRUE)
    /\ UNCHANGED <<journal, pc, task, queues, recon, events, closed, gate, admitted, broker>>

\* StrategyCommandDriver::stop saves a stop that found no worker to save it.
StopSavedAfterExit ==
    /\ pc = "exited" /\ StopPending
    /\ PersistStop(TRUE)
    /\ UNCHANGED <<journal, pc, task, queues, recon, events, closed, gate, admitted, broker>>

\* persist_execution_batch: the intents become durable together with the
\* owner's rows, and the receipts the rows consume become applied.  `settled`
\* are the commands whose own order is final in those rows.
ServeCheckpoint(intents, applied, settled) ==
    /\ Serving
    /\ \A c \in applied : CanApply(journal[c], c \in settled)
    /\ journal' = [c \in Commands |->
                      IF c \in intents THEN Prepare(journal[c])
                      ELSE IF c \in applied THEN Apply(journal[c])
                      ELSE journal[c]]
    /\ UNCHANGED <<phase, pc, task, queues, recon, shared, broker>>

Settled == \A c \in Commands : ~Unapplied(journal[c])

\* Journal::complete_execution_stop
ServeCompleteStop ==
    /\ Serving
    /\ phase # "running" /\ Settled
    /\ phase' = "stopped"
    /\ UNCHANGED <<journal, pc, task, queues, recon, shared, broker>>

-----------------------------------------------------------------------------
(***************************************************************************)
(* The sender API.                                                         *)
(***************************************************************************)
\* try_enqueue and, for a checkpointed command, try_enqueue_prepared.
TryEnqueue(c, prepared) ==
    /\ Up
    /\ gate.stopped /\ Entry(c) => prepared
    /\ IF Teardown(c)
       THEN Len(controls) < ControlCapacity /\ controls' = Append(controls, c) /\ UNCHANGED entries
       ELSE Len(entries) < EntryCapacity /\ entries' = Append(entries, c) /\ UNCHANGED controls
    /\ admitted' = admitted \union {c}
    /\ UNCHANGED <<durable, pc, task, parkedEntry, parkedControl, recon,
                   events, closed, gate, stop, broker>>

CancelPendingEntry(c) ==
    /\ gate' = [gate EXCEPT !.cancelled = @ \union {c}]
    /\ UNCHANGED <<durable, pc, task, queues, recon, events, closed, stop, admitted, broker>>

ReleaseEntryIdentity(c) ==
    /\ gate' = [gate EXCEPT !.cancelled = @ \ {c}]
    /\ UNCHANGED <<durable, pc, task, queues, recon, events, closed, stop, admitted, broker>>

StopEntries ==
    /\ gate' = [gate EXCEPT !.stopped = TRUE]
    /\ UNCHANGED <<durable, pc, task, queues, recon, events, closed, stop, admitted, broker>>

RequestExecutionStop ==
    /\ gate' = [gate EXCEPT !.stopped = TRUE]
    /\ stop' = [stop EXCEPT !.requested = TRUE]
    /\ UNCHANGED <<durable, pc, task, queues, recon, events, closed, admitted, broker>>

Receive ==
    /\ events # <<>>
    /\ events' = Tail(events)
    /\ UNCHANGED <<durable, pc, task, queues, recon, closed, gate, stop, admitted, broker>>

CloseEvents ==
    /\ Up /\ ~closed
    /\ closed' = TRUE /\ gate' = [gate EXCEPT !.stopped = TRUE]
    /\ UNCHANGED <<durable, pc, task, queues, recon, events, stop, admitted, broker>>

-----------------------------------------------------------------------------
(***************************************************************************)
(* Failure, restart, and the broker.                                       *)
(***************************************************************************)
\* A journal, lane or host-lock error returns from `run`: nothing is saved.
WorkerFails ==
    /\ Up
    /\ pc' = "exited"
    /\ cmd' = None /\ recovered' = "absent" /\ retry' = FALSE /\ result' = "none"
    /\ UNCHANGED <<durable, queues, recon, shared, broker>>

\* The process dies at any point; only the journal survives.
Crash ==
    /\ pc # "down"
    /\ pc' = "down"
    /\ cmd' = None /\ recovered' = "absent" /\ retry' = FALSE /\ result' = "none"
    /\ entries' = <<>> /\ controls' = <<>> /\ parkedEntry' = None /\ parkedControl' = None
    /\ timers' = [c \in Commands |-> 0] /\ attempts' = [c \in Commands |-> 0]
    /\ events' = <<>> /\ closed' = FALSE /\ admitted' = {}
    /\ gate' = [stopped |-> FALSE, cancelled |-> {}]
    /\ stop' = [requested |-> FALSE, persisted |-> FALSE]
    /\ UNCHANGED <<durable, broker>>

\* Variants of Restart with a mistake: the gate does not follow the saved phase,
\* or cleanup that was being dispatched is queued again.
RestartUngated ==
    /\ pc = "down"
    /\ phase = "stopped" => Settled
    /\ phase' = IF phase = "stopped" THEN "running" ELSE phase
    /\ pc' = "idle"
    /\ UNCHANGED <<journal, task, queues, recon, shared, broker>>

RestartRequeuesCleanup ==
    /\ pc = "down"
    /\ phase = "stopped" => Settled
    /\ phase' = IF phase = "stopped" THEN "running" ELSE phase
    /\ pc' = "idle"
    /\ gate' = [gate EXCEPT !.stopped = phase' # "running"]
    /\ stop' = [requested |-> phase' # "running", persisted |-> phase' # "running"]
    /\ journal' = [c \in Commands |->
                      IF Teardown(c) /\ CanDeferUnpolledDispatch(journal[c])
                      THEN DeferUnpolledDispatch(journal[c]) ELSE journal[c]]
    /\ UNCHANGED <<task, queues, recon, events, closed, admitted, broker>>

\* begin_execution_epoch, then start_executor_with_lane with fresh channels.
Restart ==
    /\ pc = "down"
    /\ phase = "stopped" => Settled
    /\ phase' = IF phase = "stopped" THEN "running" ELSE phase
    /\ pc' = "idle"
    /\ gate' = [gate EXCEPT !.stopped = phase' # "running"]
    /\ stop' = [requested |-> phase' # "running", persisted |-> phase' # "running"]
    /\ UNCHANGED <<journal, task, queues, recon, events, closed, admitted, broker>>

\* The broker acts on a transmission whether or not anybody still waits.
BrokerExecutes(c) ==
    /\ wire[c] = "flying"
    /\ wire' = [wire EXCEPT ![c] = "done"]
    /\ LET o == Target[c] IN
       \/ Kind[c] = "submit" /\ order[c] = "none" /\ order' = [order EXCEPT ![c] = "pending"]
       \/ Kind[c] = "cancel" /\ order[o] = "pending" /\ order' = [order EXCEPT ![o] = "Cancelled"]
       \/ Kind[c] = "close"  /\ order[o] = "filled" /\ order' = [order EXCEPT ![o] = "Closed"]
       \/ Kind[c] \in {"amend", "protect"} /\ order[o] \in {"pending", "filled"} /\ UNCHANGED order
    /\ UNCHANGED <<durable, pc, task, queues, recon, shared, polled>>
BrokerRefuses(c) ==
    /\ wire[c] = "flying"
    /\ wire' = [wire EXCEPT ![c] = "refused"]
    /\ UNCHANGED <<durable, pc, task, queues, recon, shared, polled, order>>

\* A pending order fills or is cancelled at the venue; a position is closed there.
BrokerMoves(c) ==
    /\ \/ order[c] = "pending" /\ order' = [order EXCEPT ![c] = "filled"]
       \/ order[c] = "pending" /\ order' = [order EXCEPT ![c] = "Cancelled"]
       \/ order[c] = "filled" /\ order' = [order EXCEPT ![c] = "Closed"]
    /\ UNCHANGED <<durable, pc, task, queues, recon, shared, polled, wire>>

-----------------------------------------------------------------------------
\* One step of the task `run`.
WorkerStep ==
    \/ \E c \in Commands :
          TakeCompleted(c) \/ TakeForProof(c) \/ TakePrepared(c)
          \/ TimerSettled(c) \/ TimerCancel(c) \/ TimerSubmit(c)
    \/ ProofSeen \/ ProofFound \/ NoProof
    \/ PreflightDecides \/ PreflightFresh \/ PreflightStale \/ PreflightChanged
    \/ LaneClosed \/ LaneStop \/ LaneYield \/ LaneHostBusy \/ LaneDispatch \/ LaneRetry
    \/ PollRefused \/ PollStarts
    \/ UnpolledDecided \/ UnpolledStale \/ UnpolledChanged
    \/ Answered \/ SaveCompletion \/ SaveRecovery \/ Settle \/ Deliver \/ Leave
    \/ StopSaved

\* Any owner that keeps to the driver's rules: it enqueues a command once per
\* process life, checkpoints and enqueues only before the stop is complete, and
\* completes the stop with nothing left pending.
OwnerStep ==
    \/ \E c \in Commands :
          \/ phase # "stopped" /\ Up /\ ServeCheckpoint({c}, {}, {})
          \/ ServeCheckpoint({}, {c}, IF order[Target[c]] \in SettledByTerminal(Kind[c])
                                      THEN {c} ELSE {})
          \/ /\ c \notin admitted /\ journal[c].state # "applied" /\ phase # "stopped"
             /\ TryEnqueue(c, Unapplied(journal[c]))
          \/ Up /\ Entry(c) /\ CancelPendingEntry(c)
          \/ Up /\ journal[c].state = "applied" /\ ReleaseEntryIdentity(c)
    \/ (\A c \in admitted : journal[c].state = "applied") /\ ServeCompleteStop
    \/ pc # "down" /\ (StopEntries \/ RequestExecutionStop)
    \/ Receive \/ CloseEvents \/ StopSavedAfterExit

Environment ==
    \/ WorkerFails \/ Crash \/ Restart
    \/ \E c \in Commands : BrokerExecutes(c) \/ BrokerRefuses(c) \/ BrokerMoves(c)

Next == WorkerStep \/ OwnerStep \/ Environment

Spec == Init /\ [][Next]_vars

(***************************************************************************)
(* The runtime polls the task, a broker call ends at mutation_timeout and  *)
(* the owner drains its events (weak fairness).  Whenever the task comes   *)
(* back to a select with a stop notified, that branch is polled before the *)
(* others; and a command cannot miss for ever the account snapshot, the    *)
(* lane, the host lock and the first poll, each of which is offered again  *)
(* whenever it was parked (strong fairness).                               *)
(***************************************************************************)
Fairness ==
    /\ WF_vars(WorkerStep)
    /\ WF_vars(Receive)
    /\ SF_vars(StopSaved \/ LaneStop)
    /\ \A c \in Commands :
          /\ SF_vars(TakePrepared(c))
          /\ SF_vars(cmd = c /\ PreflightFresh)
          /\ SF_vars(cmd = c /\ LaneDispatch)
          /\ SF_vars(cmd = c /\ PollStarts)

FairSpec == Spec /\ Fairness

-----------------------------------------------------------------------------
(***************************************************************************)
(* Safety.                                                                 *)
(***************************************************************************)
DurableType ==
    journal \in [Commands -> Records] /\ phase \in Phases
TaskType ==
    /\ pc \in {"idle", "proofread", "preflight", "lane", "poll", "unpolled", "inflight",
               "save", "settle", "deliver", "exited", "down"}
    /\ cmd \in Commands \union {None}
    /\ recovered \in JournalStates
    /\ retry \in BOOLEAN
    /\ result \in Outcomes \union {"none", "stale", "changed"}
QueuesType ==
    /\ entries \in Seq(Commands) /\ controls \in Seq(Commands)
    /\ parkedEntry \in Commands \union {None} /\ parkedControl \in Commands \union {None}
ReconType ==
    timers \in [Commands -> 0..Delays] /\ attempts \in [Commands -> 0..MaxAttempts]
SharedType ==
    /\ events \in Seq(Commands \X Outcomes)
    /\ closed \in BOOLEAN
    /\ gate \in [stopped : BOOLEAN, cancelled : SUBSET Commands]
    /\ stop \in [requested : BOOLEAN, persisted : BOOLEAN]
    /\ admitted \subseteq Commands
BrokerType ==
    /\ polled \in [Commands -> Nat]
    /\ wire \in [Commands -> {"none", "flying", "done", "refused"}]
    /\ order \in [Commands -> Orders]

\* Type invariant; the reconciliations of an uncertain command are bounded by the
\* delays, and the retransmissions of a cancellation by its attempts.
TypeOK == DurableType /\ TaskType /\ QueuesType /\ ReconType /\ SharedType /\ BrokerType

\* The broker is asked at most once to carry out a command, however often the
\* process crashes and the command is recovered: mark_dispatched is durable
\* before the first poll, and a recovered "dispatching" record is never polled.
\* Only a cancellation proved to be still pending is transmitted again.
AtMostOnce == \A c \in Commands : polled[c] <= 1

\* What the journal says about a submit is true at the broker: a refusal or a
\* cancellation before dispatch means there is no order and none can appear, a
\* recorded order exists, and an order exists only for a recorded dispatch.
JournalTellsTruth ==
    \A c \in Commands : Kind[c] = "submit" =>
        /\ journal[c].outcome \in {"declined", "cancelled_before_dispatch"} =>
              order[c] = "none" /\ wire[c] # "flying"
        /\ journal[c].outcome = "order" => order[c] # "none"
        /\ order[c] # "none" => journal[c].state \in {"dispatching", "completed", "applied"}

\* The journal never refuses a transition the worker asks for: each `await?` on
\* the journal could end the task with an error, and would leave a broker
\* effect without a result.
JournalAccepts ==
    /\ pc = "lane" /\ ~retry => CanMarkDispatched(journal[cmd])
    /\ pc = "unpolled" /\ ~retry => CanDeferUnpolledDispatch(journal[cmd])
    /\ pc = "save" /\ ~retry => CanComplete(journal[cmd])
    /\ pc = "save" /\ retry => CanFinishCancellationRecovery(journal[cmd])
    /\ pc = "settle" /\ result = "ambiguous" => journal[cmd].outcome = "ambiguous"

\* Every copy of c the running worker holds.
Copies(c) ==
    {<<"entries", i>> : i \in {j \in DOMAIN entries : entries[j] = c}} \union
    {<<"controls", i>> : i \in {j \in DOMAIN controls : controls[j] = c}} \union
    {<<place, 0>> : place \in {p \in {"parkedEntry", "parkedControl", "cmd"} :
        \/ p = "parkedEntry" /\ parkedEntry = c
        \/ p = "parkedControl" /\ parkedControl = c
        \/ p = "cmd" /\ cmd = c}}

\* No command is lost or doubled inside the worker: parking never overwrites the
\* one slot of its class, and an accepted command without a result stays in
\* exactly one place until the task ends.
NothingLost ==
    Up => \A c \in Commands :
        /\ Cardinality(Copies(c)) <= 1
        /\ c \in admitted /\ journal[c].outcome = "none" => Copies(c) # {}

\* The owner never sees a result the journal does not have: a delivered outcome
\* is the saved one, unless it was uncertain and has been settled since.
DeliveredIsSaved ==
    \A i \in DOMAIN events :
        events[i][2] # "ambiguous" => journal[events[i][1]].outcome = events[i][2]

\* Once the stop is durable no entry reaches the broker in this execution epoch,
\* across crashes and restarts, even one accepted before the stop.
NoEntryAfterStop ==
    [][\A c \in Commands : Entry(c) /\ polled'[c] # polled[c] => phase = "running"]_vars

\* A definite outcome is final, and an applied command is never touched again.
OutcomeIsFinal ==
    [][\A c \in Commands :
        /\ journal[c].outcome \in Definite => journal'[c].outcome = journal[c].outcome
        /\ journal[c].state = "applied" => journal'[c] = journal[c]]_vars

(***************************************************************************)
(* Liveness.                                                               *)
(***************************************************************************)
\* A requested stop becomes durable while the worker lives, whatever broker
\* call, lane wait or full completion channel it is suspended in.
StopBecomesDurable == (Up /\ stop.requested) ~> (phase # "running" \/ ~Up)

\* Every accepted command gets a durable result while the worker lives and its
\* owner listens: neither parking, nor cleanup overtaking it, nor the recovery
\* of an uncertain cancellation postpones it for ever.
AcceptedIsAnswered ==
    \A c \in Commands :
        (Up /\ c \in admitted) ~> (journal[c].outcome # "none" \/ ~Up \/ closed)
=============================================================================
