---------------------------- MODULE CommandDriver ----------------------------
(***************************************************************************)
(* The strategy's side of broker commands: how an insight's intent becomes *)
(* durable, is dispatched, answered, applied and forgotten, and how all of *)
(* it is taken up again after a crash.                                     *)
(*                                                                         *)
(* The owner task keeps the insights (src/core/insight), the pending       *)
(* commands and their receipts (strategy/command_driver.rs), and a bounded *)
(* walk that checkpoints insight rows, children before parents             *)
(* (strategy/execution_persistence.rs).  A batch of rows, new intents and  *)
(* applied receipts commits in one transaction of the journal              *)
(* (broker/command_journal/checkpoints.rs).  Recovery rebuilds the owner   *)
(* from those rows (command_journal/recovery.rs, execution_recovery.rs).   *)
(*                                                                         *)
(* The worker is reduced to what it does with the journal and with events; *)
(* its interleavings are the subject of CommandWorker.  An insight has its *)
(* ticket, its two cleanup flags and its pending mutations; a position and *)
(* a working order are both "Live", and one cleanup command ends either.   *)
(* Revisions, byte budgets, deadlines and pipeline cursors are left out.   *)
(***************************************************************************)
EXTENDS Naturals, Sequences, FiniteSets, SequencesExt, CommandJournal

CONSTANTS
    Insights,     \* insight identities
    Parent,       \* the insight whose template embeds each one, or None
    Commands,     \* command identities
    Owner,        \* the insight of each command
    Kind,         \* "submit" or "cancel"
    None,         \* no insight, no command, nothing
    CompletionCapacity, \* of the completion channel
    Settings      \* the instances checked together, see Setting

\* The bounds of an instance: the insights there may be, how many walk steps a
\* turn may have time for, how many crashes and surprises there may be and which,
\* and whether acceptances arrive in the trade stream and a stop is ever requested.
\* Surprises are answers that are lost, reconciliations that are given up, commands
\* that are refused, commits that fail, cancellations nothing calls for, and orders
\* that end by themselves.
Surprising == {"lose", "lapse", "refuse", "fail", "cancel", "end"}
Setting ==
    [insights : SUBSET Insights, budgets : SUBSET (1 .. 9), crashes : 0 .. 2,
     surprises : 0 .. 3, kinds : SUBSET Surprising, stream : BOOLEAN, stops : BOOLEAN]

\* An insight as the owner sees it and as a row saves it, a saved row, and a command
\* the owner waits for.
Views ==
    [state : {"New", "Live", "Ended"}, ticket : Commands \union {None}, cancelling : BOOLEAN,
     suppressed : BOOLEAN, muts : SUBSET Commands]
Rows == [view : Views, materialized : BOOLEAN, owners : SUBSET Commands]
Pendings ==
    [progress : {"queued"} \union Outcomes, reduced : BOOLEAN, applying : BOOLEAN,
     durable : BOOLEAN, sent : BOOLEAN, replay : BOOLEAN]

ASSUME DriverAssumption ==
    /\ IsFiniteSet(Insights)
    /\ None \notin Insights \union Commands \union Views \union Rows \union Pendings
    /\ Parent \in [Insights -> Insights \union {None}]
    /\ Owner \in [Commands -> Insights]
    /\ Kind \in [Commands -> {"submit", "cancel"}]
    /\ CompletionCapacity \in Nat \ {0}
    /\ Settings \subseteq Setting

VARIABLES
    \* durable
    journal,    \* journal[c]: the record of c
    row,        \* row[i]: the checkpoint of i, or None
    phase,      \* ExecutionLifecycle.phase
    admitted,   \* commands in admission order
    \* the owner task
    up,         \* the process runs and recovery is installed
    ins,        \* ins[i]: the insight in the collection, or None
    known,      \* materialized_insight_ids
    dirty,      \* execution_dirty
    pins,       \* execution_pins
    pend,       \* pend[c]: PendingCommand, or None
    saved,      \* saved[i]: SavedExecutionRow, or None
    roots,      \* ExecutionPersistence.roots
    walk,       \* the suspended CheckpointWalk, or None
    persisting, \* the batch the journal has been given, or None
    stopping,   \* a stop was requested
    error,      \* the first error the driver returned to the strategy
    \* the worker
    gate,       \* EntryGate.cancelled; EntryGate.stopped is `stopping`
    job,        \* job[c]: where c is in the worker
    events,     \* the completion channel: <<command, outcome>>
    \* the broker
    wire,       \* wire[c]: whether a transmission can still be acted on
    venue,      \* venue[c]: the order of the submit c
    accepts,    \* submits whose acceptance is on its way in the trade stream
    setting,    \* the instance, chosen once
    crashes,
    surprises,
    interrupted \* history: what has fallen in a suspended walk, see Suspended

durable == <<journal, row, phase, admitted>>
belief  == <<ins, known, dirty, pins>>
driver  == <<pend, saved, persisting>>
walking == <<roots, walk>>
status  == <<up, stopping, error>>
worker  == <<gate, job, events>>
broker  == <<wire, venue, accepts>>
history == <<crashes, interrupted>>
bounds  == <<history, surprises>>
vars    == <<durable, belief, driver, walking, status, worker, broker, bounds, setting>>

-----------------------------------------------------------------------------
(***************************************************************************)
(* Insights and pending commands.                                          *)
(***************************************************************************)
NewInsight ==
    [state |-> "New", ticket |-> None, cancelling |-> FALSE, suppressed |-> FALSE, muts |-> {}]

Children(i) == {k \in Insights : Parent[k] = i}
\* An insight and its ancestors: the least set with i and with every parent.
Chain ==
    [i \in Insights |->
        {j \in Insights : \A S \in SUBSET Insights :
            i \in S /\ (\A k \in S : Parent[k] # None => Parent[k] \in S) => j \in S}]

Submits(i) == {c \in Commands : Owner[c] = i /\ Kind[c] = "submit"}
Cancels(i) == {c \in Commands : Owner[c] = i /\ Kind[c] = "cancel"}
Mine(i) == {c \in Commands : Owner[c] = i /\ pend[c] # None}
Pending(v, kind) == \E c \in v.muts : Kind[c] = kind

Active(v) == v # None /\ v.state # "Ended"
Open(v) == Active(v) /\ ~v.cancelling /\ ~v.suppressed

\* Variant of Started with a mistake: an uncertain submission counts as not made.
StartedForSure(v) ==
    v # None /\ (v.ticket # None \/ \E c \in v.muts : Kind[c] = "submit" /\ pend[c] # None
                                                     /\ pend[c].progress # "ambiguous")

Started(v) == v # None /\ (v.ticket # None \/ Pending(v, "submit"))

\* insight_entry_permission over the insights f: Ready for an entry of i, or
\* Blocked for good.
Ready(f, i) ==
    \A j \in Chain[i] : Open(f[j]) /\ (Parent[j] # None => Started(f[Parent[j]]))
Blocked(i) == \E j \in Chain[i] : ~Open(ins[j])

NewPending ==
    [progress |-> "queued", reduced |-> FALSE, applying |-> FALSE,
     durable |-> FALSE, sent |-> FALSE, replay |-> FALSE]
Unknown == [c \in Commands |-> None]
NoRows == [i \in Insights |-> None]

Running == up /\ ~stopping

Init ==
    /\ journal = [c \in Commands |-> Record("absent", "none")]
    /\ row = NoRows /\ phase = "running" /\ admitted = <<>>
    /\ ins = NoRows /\ known = {} /\ dirty = {} /\ pins = {}
    /\ pend = Unknown /\ saved = NoRows /\ persisting = None
    /\ roots = <<>> /\ walk = None
    /\ up = TRUE /\ stopping = FALSE /\ error = "none"
    /\ gate = {}
    /\ job = [c \in Commands |-> "none"] /\ events = <<>>
    /\ wire = [c \in Commands |-> "none"]
    /\ venue = [c \in Commands |-> "none"]
    /\ accepts = {} /\ crashes = 0 /\ surprises = 0 /\ interrupted = {}
    /\ setting \in Settings

\* A step the rest of the system does not call for, out of a bounded number.
Surprise(kind) ==
    kind \in setting.kinds /\ surprises < setting.surprises /\ surprises' = surprises + 1
Expected == UNCHANGED surprises

-----------------------------------------------------------------------------
(***************************************************************************)
(* Insights act: new insights, children, submissions and cleanup.          *)
(***************************************************************************)
Add(i) ==
    /\ i \in setting.insights
    /\ ins' = [ins EXCEPT ![i] = NewInsight]
    /\ known' = known \union {i}
    /\ dirty' = dirty \union {i}
    /\ UNCHANGED <<durable, pins, driver, walking, status, worker, broker, bounds>>

Generate(i) ==
    /\ Running
    /\ Parent[i] = None /\ i \notin known
    /\ \A j \in Insights : i \in Chain[j] => row[j] = None
    /\ Add(i)

\* The child cursor of process_insight_work: a template becomes an insight once.
Materialise(i) ==
    /\ Running
    /\ Parent[i] # None /\ i \notin known
    /\ Ready(ins, Parent[i]) /\ Started(ins[Parent[i]])
    /\ Add(i)

\* enqueue_command and the pin of enqueue_broker_command: the intent is staged in
\* memory, with an identity not used before, as a pending mutation of the insight.
Fresh(ids) == {c \in ids : pend[c] = None /\ journal[c].state = "absent"}
Enqueue(ids, i, v) ==
    /\ Fresh(ids) # {}
    /\ LET c == CHOOSE d \in Fresh(ids) : TRUE IN
       /\ pend' = [pend EXCEPT ![c] = NewPending]
       /\ admitted' = Append(admitted, c)
       /\ ins' = [ins EXCEPT ![i] = [v EXCEPT !.muts = @ \union {c}]]
    /\ dirty' = dirty \union {i}
    /\ pins' = pins \union {i}
    /\ UNCHANGED <<journal, row, phase, known, saved, persisting, walking, status,
                   worker, broker, history>>

\* Insight::submit
Submit(i) ==
    /\ Running
    /\ ins[i] # None /\ ins[i].state = "New" /\ ~Started(ins[i])
    /\ Ready(ins, i)
    /\ Enqueue(Submits(i), i, ins[i])
    /\ Expected

\* Cleanup is due once the strategy stops or the entry is blocked; a user may ask
\* for it at any time.
Due(i) == IF stopping \/ Blocked(i) THEN Expected ELSE Surprise("cancel")

\* Insight::cancel with the submission still open: the entry is gated.
CancelEntry(i) ==
    /\ up /\ Active(ins[i])
    /\ \E c \in ins[i].muts :
          /\ Kind[c] = "submit"
          /\ ~ins[i].cancelling \/ c \notin gate
          /\ gate' = gate \union {c}
    /\ ins' = [ins EXCEPT ![i] = [@ EXCEPT !.cancelling = TRUE, !.suppressed = TRUE]]
    /\ dirty' = dirty \union {i}
    /\ Due(i)
    /\ UNCHANGED <<durable, known, pins, driver, walking, status, job, events, broker, history>>

\* Insight::cancel, or close, of an order whose ticket is known.
CancelOrder(i) ==
    /\ up /\ Active(ins[i])
    /\ ins[i].muts = {} /\ ~ins[i].cancelling /\ ins[i].ticket # None
    /\ Enqueue(Cancels(i), i, [ins[i] EXCEPT !.cancelling = TRUE, !.suppressed = TRUE])
    /\ Due(i)

\* Cleanup of an insight that never asked for an order.
CleanupNew(i) ==
    /\ up /\ Active(ins[i])
    /\ ins[i].state = "New" /\ ~Started(ins[i])
    /\ stopping \/ Blocked(i)
    /\ ins' = [ins EXCEPT ![i] = [@ EXCEPT !.state = "Ended", !.cancelling = FALSE]]
    /\ dirty' = dirty \union {i}
    /\ UNCHANGED <<durable, known, pins, driver, walking, status, worker, broker, bounds>>

-----------------------------------------------------------------------------
(***************************************************************************)
(* Evidence.                                                               *)
(***************************************************************************)
Progress(p, c) == p[c] # None /\ p[c].progress # "queued"
DefiniteIn(p, c) == Progress(p, c) /\ p[c].progress # "ambiguous"

\* Variant of Consumed with a mistake: the order's end settles no uncertain cleanup.
ConsumedDefinite(p, v) ==
    IF v.state = "Ended" THEN {c \in v.muts : DefiniteIn(p, c)} ELSE {}

\* reduce_terminal_command_receipts and poll_terminal_mutations: an insight that
\* has ended consumes its definite answers, and an uncertain cleanup of its own
\* order, which its end settles.
Consumed(p, v) ==
    IF v.state = "Ended"
    THEN {c \in v.muts : DefiniteIn(p, c)
             \/ (Progress(p, c) /\ "Closed" \in SettledByTerminal(Kind[c]) /\ v.ticket # None)}
    ELSE {}

\* The insight i becomes v: whatever it consumes now has been reduced.
Reduced(p, S) == [c \in Commands |-> IF c \in S THEN [p[c] EXCEPT !.reduced = TRUE] ELSE p[c]]
Becomes(i, v, p, extra) ==
    LET gone == extra \union Consumed(p, v) IN
    /\ ins' = [ins EXCEPT ![i] = [v EXCEPT !.muts = @ \ gone]]
    /\ pend' = Reduced(p, gone)
    /\ dirty' = IF ins'[i] = ins[i] THEN dirty ELSE dirty \union {i}

\* process_trade_update: the acceptance binds the ticket, unless the answer of
\* the submission has; later the order is seen to have ended.
TakeAcceptance(c) ==
    /\ up /\ c \in accepts
    /\ accepts' = accepts \ {c}
    /\ LET i == Owner[c] IN
       IF ins[i] # None /\ ins[i].state = "New"
       THEN Becomes(i, [ins[i] EXCEPT !.state = "Live", !.ticket = c], pend, {})
       ELSE UNCHANGED <<ins, pend, dirty>>
    /\ UNCHANGED <<durable, known, pins, saved, persisting, walking, status, worker,
                   wire, venue, bounds>>

TakeEnd(i) ==
    /\ up /\ Active(ins[i]) /\ ins[i].ticket # None
    /\ venue[ins[i].ticket] = "ended"
    /\ Becomes(i, [ins[i] EXCEPT !.state = "Ended", !.cancelling = FALSE], pend, {})
    /\ UNCHANGED <<durable, known, pins, saved, persisting, walking, status, worker,
                   broker, bounds>>

\* What the answer of a submission makes of its insight.
Answered(v, c, outcome) ==
    CASE outcome = "order" ->
            LET w == IF v.state = "New" THEN [v EXCEPT !.state = "Live", !.ticket = c] ELSE v
            IN  IF Active(w) /\ ~Pending(w, "cancel") THEN [w EXCEPT !.cancelling = FALSE] ELSE w
      [] outcome \in {"declined", "cancelled_before_dispatch"} /\ v.state = "New" ->
            [v EXCEPT !.state = "Ended", !.cancelling = FALSE]
      [] OTHER -> v

\* request_execution_stop after an error; the strategy then shuts down.
Fail(what) ==
    /\ error' = IF error = "none" THEN what ELSE error
    /\ stopping' = TRUE

\* next_ready and reduce_ready_commands.  A submission's definite answer is
\* consumed at once; cleanup waits for its insight to look at it.  A receipt
\* that is no longer pending is an error, and a reason to stop.
NextReady ==
    /\ up /\ events # <<>>
    /\ events' = Tail(events)
    /\ LET c == Head(events)[1]
           outcome == Head(events)[2]
           i == Owner[c]
       IN  IF pend[c] = None
           THEN Fail("conflict") /\ UNCHANGED <<ins, pend, dirty>>
           ELSE /\ LET seen == [pend EXCEPT ![c].progress = outcome]
                       entry == Kind[c] = "submit" /\ outcome # "ambiguous"
                   IN  IF ins[i] = None
                       THEN pend' = seen /\ UNCHANGED <<ins, dirty>>
                       ELSE Becomes(i, IF entry THEN Answered(ins[i], c, outcome) ELSE ins[i],
                                    seen, IF entry THEN {c} ELSE {})
                /\ UNCHANGED <<error, stopping>>
    /\ UNCHANGED <<durable, known, pins, saved, persisting, walking, up, gate, job, broker, bounds>>

\* poll_mutation of an active insight for its cleanup command.
PollCancel(i) ==
    /\ up /\ Active(ins[i])
    /\ \E c \in ins[i].muts :
          /\ Kind[c] = "cancel" /\ DefiniteIn(pend, c)
          /\ Becomes(i, [ins[i] EXCEPT !.cancelling = @ /\ pend[c].progress # "declined"],
                     pend, {c})
    /\ UNCHANGED <<durable, known, pins, saved, persisting, walking, status, worker,
                   broker, bounds>>

\* The insights a suspended walk has descended into and not yet captured.  Two things
\* that may befall such a walk are kept in `interrupted`, which restricts no step: one
\* of these insights is pruned, or the batch with what was captured so far fails.
Suspended == IF walk = None THEN {} ELSE {walk.stack[n].id : n \in DOMAIN walk.stack}
Interrupts(what, happens) ==
    interrupted' = IF happens THEN interrupted \union {what} ELSE interrupted

\* prune_terminal_insight
Prune(i) ==
    /\ up
    /\ ins[i] # None /\ ins[i].state = "Ended"
    /\ i \notin dirty \union pins
    /\ ins' = [ins EXCEPT ![i] = None]
    /\ Interrupts("prune", i \in Suspended)
    /\ UNCHANGED <<durable, known, dirty, pins, driver, walking, status, worker, broker,
                   crashes, surprises>>

-----------------------------------------------------------------------------
(***************************************************************************)
(* Checkpoint turns (advance_execution_persistence_with_budget).  A turn   *)
(* scans the changed insights, then steps a walk over one root at a time,  *)
(* children first, until its budget of steps is spent; the walk is kept    *)
(* for the next turn.  What it captured goes to the journal as one batch.  *)
(* A turn starts only with no batch in flight.                             *)
(***************************************************************************)
Unpersisted(i) == {c \in Mine(i) : ~pend[c].durable}
Consumable(i, v) ==
    {c \in Mine(i) : pend[c].reduced /\ ~pend[c].applying /\ Progress(pend, c) /\ c \notin v.muts}

\* checkpoint_execution_matches, with nothing to add to the journal.
Unchanged(i, v, materialized) ==
    /\ saved[i] = [view |-> v, materialized |-> materialized]
    /\ Unpersisted(i) = {} /\ Consumable(i, v) = {}

PendingOwners == {i \in Insights : Unpersisted(i) # {}
                     \/ \E c \in Mine(i) : pend[c].reduced /\ ~pend[c].applying}

Frame(i) == [id |-> i, left |-> Children(i)]
Queued == Range(roots) \union (IF walk = None THEN {} ELSE {walk.root})

\* A turn t: the queue and walk it advances, the rows and receipts it captured,
\* the insights it found saved (execution_saved).
StartWalk(t) ==
    LET i == Head(t.roots) IN
    [t EXCEPT !.roots = Tail(@),
              !.walk = IF ins[i] = None THEN None ELSE [root |-> i, stack |-> <<Frame(i)>>]]

\* Variant of WalkVisit with a mistake: templates are passed over.
WalkVisitCanonical(t) ==
    LET top == Len(t.walk.stack)
        i == CHOOSE j \in t.walk.stack[top].left : TRUE
        rest == [t.walk.stack EXCEPT ![top].left = @ \ {i}]
    IN  [t EXCEPT !.walk.stack = IF ins[i] = None THEN rest ELSE Append(rest, Frame(i))]

\* Descend into the next child, unless it was materialised and is gone.
WalkVisit(t) ==
    LET top == Len(t.walk.stack)
        i == CHOOSE j \in t.walk.stack[top].left : TRUE
        rest == [t.walk.stack EXCEPT ![top].left = @ \ {i}]
    IN  [t EXCEPT !.walk.stack =
            IF i \in known /\ ins[i] = None THEN rest ELSE Append(rest, Frame(i))]

\* Capture one row.  A child that is not in the collection is read from the
\* template its parent embeds (resolve).
WalkRow(t) ==
    LET i == Last(t.walk.stack).id
        materialized == ins[i] # None
        v == IF materialized THEN ins[i] ELSE NewInsight
        u == [t EXCEPT !.walk.stack = Front(@), !.done = @ \union {i}]
    IN  CASE i \in t.done -> u
          [] i \notin t.done /\ Unchanged(i, v, materialized) ->
                [u EXCEPT !.saved = IF materialized THEN @ \union {i} ELSE @]
          [] OTHER ->
                [u EXCEPT !.rows[i] = [view |-> v, materialized |-> materialized],
                          !.applied = @ \union Consumable(i, v)]

WalkStep(t) ==
    CASE t.walk = None /\ t.roots = <<>> -> t
      [] t.walk = None /\ t.roots # <<>> -> StartWalk(t)
      [] t.walk # None /\ t.walk.stack = <<>> -> [t EXCEPT !.walk = None]
      [] OTHER -> IF Last(t.walk.stack).left # {} THEN WalkVisit(t) ELSE WalkRow(t)

\* The turn begun as t after so many steps, as a set of one element.
Walked(t, budget) ==
    LET after[n \in 0 .. budget] ==
            IF n = 0 THEN {t} ELSE {WalkStep(u) : u \in after[n - 1]}
    IN  after[budget]

\* persist_execution_checkpoints: the rows go to the journal together with the
\* intents of their insights and the receipts they no longer need.
Persist(t) ==
    LET ids == {i \in Insights : t.rows[i] # None} IN
    IF ids = {}
    THEN UNCHANGED <<pend, persisting>>
    ELSE /\ persisting' =
               [rows |-> [i \in Insights |->
                            IF i \in ids
                            THEN [view |-> t.rows[i].view,
                                  materialized |-> t.rows[i].materialized,
                                  owners |-> Mine(i) \ t.applied]
                            ELSE None],
                applied |-> t.applied,
                prepared |-> UNION {Unpersisted(i) : i \in ids},
                reply |-> "none"]
         /\ pend' = [c \in Commands |->
                       IF c \in t.applied THEN [pend[c] EXCEPT !.applying = TRUE] ELSE pend[c]]

Turn ==
    /\ up /\ persisting = None
    /\ LET scanned == {i \in (dirty \union PendingOwners) \ Queued : ins[i] # None}
           clean == {i \in scanned : Unchanged(i, ins[i], TRUE)}
       IN  /\ scanned # {} \/ Queued # {}
           /\ \E order \in SetToSeqs(scanned \ clean), budget \in setting.budgets :
                 \E t \in Walked([roots |-> roots \o order, walk |-> walk, rows |-> NoRows,
                                  done |-> {}, applied |-> {}, saved |-> clean], budget) :
                    /\ roots' = t.roots /\ walk' = t.walk
                    /\ dirty' = dirty \ t.saved
                    /\ pins' = pins \ {i \in t.saved : Mine(i) = {}}
                    /\ Persist(t)
    /\ UNCHANGED <<durable, ins, known, saved, status, worker, broker, bounds>>

-----------------------------------------------------------------------------
(***************************************************************************)
(* The journal answers, the driver dispatches.                             *)
(***************************************************************************)
Batch == {i \in Insights : persisting.rows[i] # None}

\* What persist_execution_batch requires: each row continues the revision the
\* journal has, and each applied receipt is answered, or settled by its row.
BatchAccepted ==
    /\ \A i \in Batch : row[i] # None => saved[i] # None
    /\ \A c \in persisting.applied :
          LET r == persisting.rows[Owner[c]] IN
          /\ journal[c].state # "absent" \/ c \in persisting.prepared
          /\ CanApply(journal[c], r # None /\ r.view.state = "Ended" /\ r.view.ticket # None)

Commit ==
    /\ journal' = [c \in Commands |->
                     IF c \in persisting.prepared THEN Prepare(journal[c])
                     ELSE IF c \in persisting.applied THEN Apply(journal[c]) ELSE journal[c]]
    /\ row' = [i \in Insights |-> IF i \in Batch THEN persisting.rows[i] ELSE row[i]]

JournalCommits ==
    /\ persisting # None /\ persisting.reply = "none" /\ BatchAccepted
    /\ Commit
    /\ persisting' = [persisting EXCEPT !.reply = "ok"]
    /\ UNCHANGED <<phase, admitted, belief, pend, saved, walking, status, worker, broker, bounds>>

JournalFails ==
    /\ persisting # None /\ persisting.reply = "none"
    /\ IF BatchAccepted THEN Surprise("fail") ELSE Expected
    /\ persisting' = [persisting EXCEPT !.reply = "err"]
    /\ Interrupts("failure", walk # None)
    /\ UNCHANGED <<durable, belief, pend, saved, walking, status, worker, broker, crashes>>

\* checkpoint_chain_ready, for the pending commands q and the saved rows f.
ChainReady(q, f, c) ==
    /\ q[c].durable
    /\ \/ q[c].replay
       \/ Kind[c] = "cancel" /\ f[Owner[c]] # None /\ f[Owner[c]].materialized
       \/ Kind[c] = "submit" /\ \A j \in Chain[Owner[c]] : f[j] # None

\* dispatch_prepared: control_admission and entry_admission are each served in
\* admission order, up to the first command that is not ready.  A stop gates every
\* entry, so entries may always go on to the worker, to be cancelled there.
Dispatchable(q, f) ==
    LET waiting(c) == q[c] # None /\ ~q[c].sent
        at(c) == CHOOSE n \in DOMAIN admitted : admitted[n] = c
    IN  {c \in Range(admitted) :
            waiting(c) /\ \A d \in Range(admitted) :
                waiting(d) /\ Kind[d] = Kind[c] /\ at(d) <= at(c) => ChainReady(q, f, d)}

Dispatch(q, f) ==
    LET S == Dispatchable(q, f) IN
    /\ pend' = [c \in Commands |-> IF c \in S THEN [q[c] EXCEPT !.sent = TRUE] ELSE q[c]]
    /\ job' = [c \in Commands |-> IF c \in S THEN "queued" ELSE job[c]]

\* poll_acknowledgements and dispatch_prepared, the first half of a turn.
Acknowledged(c) ==
    IF c \in persisting.applied THEN None
    ELSE IF c \in persisting.prepared THEN [pend[c] EXCEPT !.durable = TRUE]
    ELSE pend[c]

SavedRows ==
    [i \in Insights |-> IF i \in Batch
                        THEN [view |-> persisting.rows[i].view,
                              materialized |-> persisting.rows[i].materialized]
                        ELSE saved[i]]

PollAcknowledgements ==
    /\ up /\ persisting # None /\ persisting.reply = "ok"
    /\ persisting' = None
    /\ saved' = SavedRows
    /\ Dispatch([c \in Commands |-> Acknowledged(c)], SavedRows)
    /\ gate' = gate \ persisting.applied
    /\ UNCHANGED <<durable, belief, walking, status, events, broker, bounds>>

PollFailure ==
    /\ up /\ persisting # None /\ persisting.reply = "err"
    /\ persisting' = None
    /\ pend' = [c \in Commands |->
                  IF c \in persisting.applied THEN [pend[c] EXCEPT !.applying = FALSE] ELSE pend[c]]
    /\ Fail("journal")
    /\ UNCHANGED <<durable, belief, saved, walking, up, worker, broker, bounds>>

\* After recovery there is nothing to acknowledge.
DispatchRecovered ==
    /\ up /\ persisting = None /\ Dispatchable(pend, saved) # {}
    /\ Dispatch(pend, saved)
    /\ UNCHANGED <<durable, belief, saved, persisting, walking, status, gate, events, broker, bounds>>

-----------------------------------------------------------------------------
(***************************************************************************)
(* The worker takes one command at a time.                                 *)
(***************************************************************************)
WorkerFree == up /\ \A c \in Commands : job[c] \notin {"flying", "lookup"}
Send(c, outcome) ==
    /\ Len(events) < CompletionCapacity
    /\ events' = Append(events, <<c, outcome>>)
OnlyWorker == UNCHANGED <<row, phase, admitted, belief, driver, walking, status, gate>>

\* entry_is_gated
Gated(c) == Kind[c] = "submit" /\ (stopping \/ c \in gate)

\* Finish c without, or instead of, a transmission.
Finish(c, outcome) ==
    /\ journal' = [journal EXCEPT ![c] = IF CanComplete(@) THEN Complete(@, outcome) ELSE @]
    /\ Send(c, journal'[c].outcome)
    /\ job' = [job EXCEPT ![c] = IF journal'[c].outcome = "ambiguous" THEN "timer" ELSE "none"]

\* A saved answer is replayed, a transmission found in the journal is uncertain,
\* a gated entry is cancelled, and an entry the account cannot carry is declined.
TakeWithout(c) ==
    /\ WorkerFree /\ job[c] = "queued"
    /\ \/ journal[c].state = "completed" /\ Finish(c, journal[c].outcome) /\ Expected
       \/ journal[c].state = "dispatching" /\ Finish(c, "ambiguous") /\ Expected
       \/ /\ journal[c].state = "queued" /\ Kind[c] = "submit"
          /\ \/ Gated(c) /\ Finish(c, "cancelled_before_dispatch") /\ Expected
             \/ ~Gated(c) /\ Finish(c, "declined") /\ Surprise("refuse")
    /\ OnlyWorker /\ UNCHANGED <<broker, history>>

Transmit(c) ==
    /\ WorkerFree /\ job[c] = "queued"
    /\ CanMarkDispatched(journal[c]) /\ ~Gated(c)
    /\ journal' = [journal EXCEPT ![c] = MarkDispatched(@)]
    /\ wire' = [wire EXCEPT ![c] = "flying"]
    /\ job' = [job EXCEPT ![c] = "flying"]
    /\ OnlyWorker /\ UNCHANGED <<events, venue, accepts, bounds>>

\* The order of the submission, or the one the cleanup names, as the venue has it.
Order(c) ==
    IF Kind[c] = "submit" THEN venue[c]
    ELSE IF \E d \in Submits(Owner[c]) : venue[d] = "working" THEN "working" ELSE "ended"

\* The reconciliation timer of an uncertain submission finds its order, or of an
\* uncertain cancellation begins a lookup; once the answer is known it lapses.  After
\* the last of COMMAND_RECONCILIATION_DELAYS, or MAX_CANCEL_RECOVERY_ATTEMPTS, the
\* worker gives up, and the command is as uncertain as before.
Reconciles(c) ==
    /\ WorkerFree /\ job[c] = "timer"
    /\ \/ /\ IF StillAmbiguous(journal[c]) THEN Surprise("lapse") ELSE Expected
          /\ job' = [job EXCEPT ![c] = "none"]
          /\ UNCHANGED <<journal, events>>
       \/ /\ StillAmbiguous(journal[c]) /\ Kind[c] = "submit" /\ Order(c) # "none"
          /\ journal' = [journal EXCEPT ![c] = ConfirmAmbiguousSubmission(@)]
          /\ Send(c, "order")
          /\ job' = [job EXCEPT ![c] = "none"]
          /\ Expected
       \/ /\ StillAmbiguous(journal[c]) /\ Kind[c] = "cancel"
          /\ job' = [job EXCEPT ![c] = "lookup"]
          /\ Expected /\ UNCHANGED <<journal, events>>
    /\ OnlyWorker /\ UNCHANGED <<broker, history>>

\* retry_cancellation of the order that is proved to work.  It is acknowledged, or it
\* is as uncertain as the first, whether the broker acted on it or not.
Repeats(c) ==
    LET ended == [d \in Commands |-> IF d \in Submits(Owner[c]) /\ venue[d] = "working"
                                     THEN "ended" ELSE venue[d]]
        finish(outcome) ==
            /\ journal' = [journal EXCEPT ![c] = FinishCancellationRecovery(@, outcome)]
            /\ Send(c, outcome)
    IN  /\ StillAmbiguous(journal[c])
        /\ \/ /\ finish("acknowledged") /\ venue' = ended /\ Expected
              /\ job' = [job EXCEPT ![c] = "none"]
           \/ /\ finish("ambiguous") /\ venue' \in {venue, ended} /\ Surprise("lose")
              /\ job' = [job EXCEPT ![c] = "timer"]

\* The lookup ends.  Without proof that the order still works, the completion read
\* before the lookup is delivered once more; with it the cancellation is repeated.
Looked(c) ==
    /\ up /\ job[c] = "lookup"
    /\ \/ /\ Order(c) # "working" /\ Expected
          /\ Send(c, "ambiguous")
          /\ job' = [job EXCEPT ![c] = "timer"]
          /\ UNCHANGED <<journal, venue>>
       \/ Order(c) = "working" /\ Repeats(c)
    /\ OnlyWorker /\ UNCHANGED <<wire, accepts, history>>

-----------------------------------------------------------------------------
(***************************************************************************)
(* The broker, outside the process: it acts on a transmission at any later *)
(* time, also after a crash, and ends orders of its own accord.            *)
(***************************************************************************)
Execute(c) ==
    /\ wire[c] = "flying"
    /\ wire' = [wire EXCEPT ![c] = "executed"]
    /\ \/ /\ Kind[c] = "submit"
          /\ venue' = [venue EXCEPT ![c] = "working"]
          /\ accepts' = IF up /\ setting.stream THEN accepts \union {c} ELSE accepts
       \/ \E d \in Submits(Owner[c]) :
             /\ Kind[c] = "cancel" /\ venue[d] = "working"
             /\ venue' = [venue EXCEPT ![d] = "ended"]
             /\ UNCHANGED accepts

Refuse(c) ==
    /\ wire[c] = "flying"
    /\ wire' = [wire EXCEPT ![c] = "refused"]
    /\ IF Kind[c] = "submit" \/ Order(c) = "working" THEN Surprise("refuse") ELSE Expected
    /\ UNCHANGED <<venue, accepts>>

\* The broker acts and its answer arrives.
Answers(c) ==
    /\ up /\ job[c] = "flying"
    /\ \/ /\ Execute(c) /\ Expected
          /\ Finish(c, IF Kind[c] = "submit" THEN "order" ELSE "acknowledged")
       \/ Refuse(c) /\ Finish(c, "declined")
    /\ OnlyWorker /\ UNCHANGED history

\* Variant of AnswerLost with a mistake: no answer is taken for a refusal.
AnswerLostDeclined(c) ==
    /\ up /\ job[c] = "flying" /\ Surprise("lose")
    /\ Finish(c, "declined")
    /\ OnlyWorker /\ UNCHANGED <<broker, history>>

\* The worker gives up waiting, whatever became of the transmission.
AnswerLost(c) ==
    /\ up /\ job[c] = "flying" /\ Surprise("lose")
    /\ Finish(c, "ambiguous")
    /\ OnlyWorker /\ UNCHANGED <<broker, history>>

\* With nobody waiting any more, the transmission is still acted on.
ActsLate(c) ==
    /\ job[c] # "flying"
    /\ (Execute(c) /\ Expected) \/ Refuse(c)
    /\ UNCHANGED <<durable, belief, driver, walking, status, worker, history>>

OrderEnds(c) ==
    /\ venue[c] = "working" /\ Surprise("end")
    /\ venue' = [venue EXCEPT ![c] = "ended"]
    /\ UNCHANGED <<durable, belief, driver, walking, status, worker, wire, accepts, history>>

-----------------------------------------------------------------------------
(***************************************************************************)
(* Stop, crash and recovery.                                               *)
(***************************************************************************)
RequestStop ==
    /\ Running /\ setting.stops
    /\ stopping' = TRUE
    /\ UNCHANGED <<durable, belief, driver, walking, up, error, worker, broker, bounds>>

\* The worker saves the stop request.
StopSaved ==
    /\ up /\ stopping /\ phase = "running"
    /\ phase' = "stopping"
    /\ UNCHANGED <<journal, row, admitted, belief, driver, walking, status, worker, broker, bounds>>

\* recovery_seed of a saved row
Retained(r) == r.owners \union r.view.muts
Seed(r) == r # None /\ r.materialized /\ (r.view.state # "Ended" \/ Retained(r) # {})

\* settled: no unresolved command and no materialised exposure is in the journal.
Settled ==
    /\ \A c \in Commands : ~Unapplied(journal[c])
    /\ \A i \in Insights : ~Seed(row[i])

\* What a process leaves when it ends: the journal, and the broker.
Ends ==
    /\ admitted' = SelectSeq(admitted, LAMBDA c : journal[c].state # "absent")
    /\ up' = FALSE /\ stopping' = FALSE /\ error' = "none"
    /\ ins' = NoRows /\ known' = {} /\ dirty' = {} /\ pins' = {}
    /\ pend' = Unknown /\ saved' = NoRows /\ persisting' = None
    /\ roots' = <<>> /\ walk' = None
    /\ gate' = {} /\ job' = [c \in Commands |-> "none"] /\ events' = <<>>
    /\ accepts' = {}
    /\ UNCHANGED <<wire, venue>>

\* finish_live_execution, complete_execution_stop
CompleteStop ==
    /\ up /\ stopping /\ phase # "running" /\ error = "none"
    /\ pend = Unknown /\ persisting = None /\ events = <<>> /\ accepts = {}
    /\ \A i \in Insights : ~Active(ins[i])
    /\ Settled
    /\ phase' = "stopped"
    /\ Ends
    /\ UNCHANGED <<journal, row, bounds>>

\* Teardown leaves the stop unfinished after an error, and at its deadline when it
\* waits for a command the worker has given up.  (A deadline that passes for another
\* reason leaves what a crash leaves.)
GivenUp ==
    \E c \in Commands :
       pend[c] # None /\ pend[c].sent /\ StillAmbiguous(journal[c]) /\ job[c] = "none"
ExitWithError ==
    /\ up /\ phase # "running" /\ (error # "none" \/ (stopping /\ GivenUp))
    /\ Ends
    /\ UNCHANGED <<journal, row, phase, bounds>>

Crash ==
    /\ up /\ crashes < setting.crashes
    /\ crashes' = crashes + 1
    /\ Ends
    /\ UNCHANGED <<journal, row, phase, surprises, interrupted>>

\* load_execution_recovery: the rows that seed recovery and the owners of pending
\* commands, with every row their links lead to.
Seeds == {i \in Insights : Seed(row[i])
             \/ (row[i] # None /\ \E c \in Commands : Owner[c] = i /\ Unapplied(journal[c]))}
Linked(i, j) == Parent[i] = j \/ Parent[j] = i
Closed(S) == \A i \in S, j \in Insights : Linked(i, j) /\ row[j] # None => j \in S
Recovered == {j \in Insights : \A S \in SUBSET Insights : Seeds \subseteq S /\ Closed(S) => j \in S}

\* What load_execution_recovery and rebuild_insights refuse to go on without.
Recoverable ==
    /\ phase = "stopped" => Settled
    /\ \A c \in Commands : Unapplied(journal[c]) =>
          LET r == row[Owner[c]] IN r # None /\ r.materialized /\ c \in Retained(r)
    /\ \A i \in Recovered :
          /\ \A c \in Retained(row[i]) : Unapplied(journal[c])
          /\ \A k \in Children(i) : row[k] # None
          /\ IF row[i].materialized
             THEN Parent[i] # None /\ row[Parent[i]] # None => row[Parent[i]].materialized
             ELSE Parent[i] # None /\ row[Parent[i]] # None

\* Variant of CanDispatchEntry with a mistake: only the state of the row is looked at.
CanDispatchNew(c) ==
    LET r == row[Owner[c]]
    IN  phase # "stopping" /\ r # None /\ r.materialized /\ r.view.state = "New"

\* can_dispatch_entry over the saved rows
CanDispatchEntry(c) ==
    LET f == [i \in Insights |-> IF row[i] # None /\ row[i].materialized
                                 THEN row[i].view ELSE None]
        v == f[Owner[c]]
    IN  phase # "stopping" /\ v # None /\ v.state = "New" /\ Ready(f, Owner[c])

\* start_recovering, install_execution_recovery and start_command_driver: the
\* owner takes its rows and every unapplied command back; entries that may no
\* longer be dispatched are gated, answers and transmissions are replayed.
Restart ==
    /\ ~up /\ Recoverable
    /\ up' = TRUE
    /\ phase' = IF phase = "stopped" THEN "running" ELSE phase
    /\ stopping' = (phase = "stopping")
    /\ LET held == {i \in Recovered : row[i].materialized}
           mine == {c \in Commands : Unapplied(journal[c])}
           cancelled == {c \in mine : Kind[c] = "submit" /\ ~CanDispatchEntry(c)}
       IN  /\ ins' = [i \in Insights |-> IF i \in held THEN row[i].view ELSE None]
           /\ known' = held /\ dirty' = held
           /\ saved' = [i \in Insights |->
                          IF i \in Recovered
                          THEN [view |-> row[i].view, materialized |-> row[i].materialized]
                          ELSE None]
           /\ pend' = [c \in Commands |->
                         IF c \in mine
                         THEN [NewPending EXCEPT !.durable = TRUE,
                                  !.replay = c \in cancelled \/ journal[c].state # "queued"]
                         ELSE None]
           /\ pins' = {Owner[c] : c \in mine}
           /\ gate' = cancelled
    /\ UNCHANGED <<journal, row, admitted, persisting, walking, error, job, events, broker, bounds>>

-----------------------------------------------------------------------------
InsightStep ==
    \E i \in Insights :
       \/ Generate(i) \/ Materialise(i) \/ Submit(i)
       \/ CancelEntry(i) \/ CancelOrder(i) \/ CleanupNew(i)
       \/ TakeEnd(i) \/ PollCancel(i) \/ Prune(i)

DriverStep ==
    \/ NextReady \/ Turn \/ PollAcknowledgements \/ PollFailure \/ DispatchRecovered
    \/ \E c \in Commands : TakeAcceptance(c)

WorkerStep ==
    \/ JournalCommits \/ JournalFails
    \/ \E c \in Commands :
          TakeWithout(c) \/ Transmit(c) \/ AnswerLost(c) \/ Reconciles(c) \/ Looked(c)

BrokerStep ==
    \E c \in Commands : Answers(c) \/ ActsLate(c) \/ OrderEnds(c)

Lifecycle ==
    RequestStop \/ StopSaved \/ CompleteStop \/ ExitWithError \/ Crash \/ Restart

Next ==
    /\ InsightStep \/ DriverStep \/ WorkerStep \/ BrokerStep \/ Lifecycle
    /\ UNCHANGED setting

Spec == Init /\ [][Next]_vars

\* The owner, its worker and the broker go on with a stop that was saved; a process
\* that ended is started again.  Whatever happens at most so often, or need not
\* happen, has no fairness: new insights, requests to stop, lost answers, failed
\* commits, crashes, pruning.  The reconciliation timer waits longer each time, so
\* the worker comes to every command it was given, although not at every moment.
Cleanup(i) == CancelEntry(i) \/ CancelOrder(i) \/ CleanupNew(i) \/ TakeEnd(i) \/ PollCancel(i)
Reconciling(kind) == \E c \in Commands : Kind[c] = kind /\ (Reconciles(c) \/ Looked(c))
StopSteps(A) == phase = "stopping" /\ A /\ UNCHANGED setting
Fairness ==
    /\ WF_vars(StopSteps(NextReady))
    /\ WF_vars(StopSteps(PollAcknowledgements \/ PollFailure \/ DispatchRecovered))
    /\ WF_vars(StopSteps(Turn \/ JournalCommits))
    /\ WF_vars(StopSteps(CompleteStop \/ ExitWithError \/ Restart))
    /\ WF_vars(StopSteps(\E i \in Insights : Cleanup(i)))
    /\ WF_vars(StopSteps(\E c \in Commands : TakeAcceptance(c) \/ Answers(c) \/ ActsLate(c)))
    /\ WF_vars(StopSteps(Reconciling("submit")))
    /\ WF_vars(StopSteps(Reconciling("cancel")))
    /\ SF_vars(StopSteps(\E c \in Commands : TakeWithout(c) \/ Transmit(c)))

FairSpec == Spec /\ Fairness

-----------------------------------------------------------------------------
(***************************************************************************)
(* Properties.                                                             *)
(***************************************************************************)
\* Every state the journal can be left in can be recovered from: each pending
\* command is retained by the saved row of its insight and by no other, every
\* saved row has the rows of its children, and a finished stop owes nothing.
\* (load_execution_recovery refuses to start the strategy otherwise.)  With two
\* exceptions: a batch that fails while its walk is suspended takes rows along that
\* the walk does not capture again, and under three generations a turn may end
\* between the row of a materialised insight and the one of its materialised parent,
\* which until then is saved as a template.
TwoGenerations == \A i \in Insights : Parent[i] = None \/ Parent[Parent[i]] = None
RecoveryNeverRefused == TwoGenerations /\ "failure" \notin interrupted => Recoverable

\* The journal accepts every batch the driver sends: no row skips a revision, no
\* receipt is applied before its answer or terminal evidence is durable.
BatchesAreAccepted ==
    persisting # None /\ persisting.reply = "none" => BatchAccepted

\* However often the process crashes, answers are lost and commands are replayed,
\* an insight never has two entries at the broker.  Except after an insight was pruned
\* that a suspended walk had yet to capture (NoResurrection): the walk then saves it as
\* a template, and the next process materialises and enters it again.
OneEntryEach ==
    "prune" \notin interrupted =>
    \A i \in Insights :
       Cardinality({c \in Submits(i) : wire[c] \in {"flying", "executed"}}) <= 1

\* An entry is transmitted only when its insight and all its ancestors are saved,
\* and its insight is saved as owning it and as not cancelled: a crash right after
\* finds an owner for whatever the broker does, and a cancellation that was saved
\* before the transmission holds, also across restarts.
EntriesAreCovered ==
    [][\A c \in Commands :
          Kind[c] = "submit" /\ wire[c] = "none" /\ wire'[c] = "flying" =>
             LET r == row[Owner[c]] IN
             /\ \A j \in Chain[Owner[c]] : row[j] # None
             /\ c \in Retained(r) /\ r.view.state = "New" /\ ~r.view.suppressed]_vars

\* Once an insight is in the collection its row is never again that of the template
\* its parent embeds: the comment in CheckpointWalk::step reads "Never resurrect a
\* canonical child from an old embedded template."
NoResurrection ==
    [][\A i \in Insights :
          row[i] # None /\ row[i].materialized => row'[i].materialized]_vars

\* A stop is reported complete only when the broker holds no order of the strategy
\* and nothing in flight could become one.
StoppedIsFlat ==
    phase = "stopped" =>
       \A c \in Commands : Kind[c] = "submit" => venue[c] # "working" /\ wire[c] # "flying"

\* An uncertain entry the broker turned down without anybody hearing of it, an order
\* whose every cleanup command was turned down, and a recovery that is refused: these
\* need an operator.
NeedsOperator ==
    \/ ~up /\ ~Recoverable
    \/ \E c \in Commands : Kind[c] = "submit" /\
          \/ StillAmbiguous(journal[c]) /\ wire[c] = "refused"
          \/ venue[c] = "working" /\ \A x \in Cancels(Owner[c]) : wire[x] = "refused"

\* A stop that was saved completes, through crashes, errors and lost answers,
\* unless an operator is needed.
StopCompletes == (phase = "stopping") ~> (phase = "stopped" \/ NeedsOperator)
=============================================================================
