--------------------------- MODULE CommandJournal ---------------------------
(***************************************************************************)
(* The durable record of one broker command and the transitions the        *)
(* journal allows on it (src/core/broker/command_journal.rs and its        *)
(* submodules), and the vocabulary of commands and outcomes                *)
(* (src/core/broker/commands.rs).                                          *)
(*                                                                         *)
(* A record is its `state` column and the outcome inside completion_json.  *)
(* Identities, payloads and timestamps are left out: the journal compares  *)
(* them only to refuse a different command under the same id.  Each        *)
(* transition is an operator on the record, guarded by CanX where the      *)
(* source refuses it with an error.                                        *)
(***************************************************************************)

\* BrokerCommandAction: what a command asks of the broker.  "amend" stands for
\* AmendEntry and Replace, "protect" for TakeProfit and StopLoss.
Kinds == {"submit", "amend", "protect", "cancel", "close"}
IsEntry(kind) == kind = "submit"
IsTeardown(kind) == kind \in {"cancel", "close"}

\* settled_by_terminal: the final states of the command's own order that make
\* up for a lost answer.  Nothing settles a submit or an amendment this way.
SettledByTerminal(kind) ==
    CASE kind = "close"   -> {"Closed"}
      [] kind = "cancel"  -> {"Cancelled", "Rejected", "Closed"}
      [] kind = "protect" -> {"Closed", "Cancelled"}
      [] OTHER            -> {}

\* BrokerCommandOutcome, with "none" for a record without a completion.
Definite == {"order", "acknowledged", "declined", "cancelled_before_dispatch"}
Outcomes == Definite \union {"ambiguous"}

JournalStates == {"absent", "queued", "dispatching", "completed", "applied"}

Record(state, outcome) == [state |-> state, outcome |-> outcome]
Records == [state : JournalStates, outcome : Outcomes \union {"none"}]

\* Commands a restarted owner must take over (recovery_page).
Unapplied(r) == r.state \in {"queued", "dispatching", "completed"}

\* Variant of Prepare with a mistake: an existing record is replaced.
PrepareReplaces(r) == Record("queued", "none")

\* prepare, and the intent rows of persist_execution_batch: insert the intent
\* unless the id is already there; an identical retry never resets the state.
Prepare(r) == IF r.state = "absent" THEN Record("queued", "none") ELSE r

CanMarkDispatched(r) == r.state = "queued"
MarkDispatched(r) == Record("dispatching", r.outcome)

CanDeferUnpolledDispatch(r) == r.state = "dispatching" /\ r.outcome = "none"
DeferUnpolledDispatch(r) == Record("queued", "none")

CanComplete(r) == r.state \in {"queued", "dispatching"} /\ r.outcome = "none"
Complete(r, outcome) == Record("completed", outcome)

StillAmbiguous(r) == r.state = "completed" /\ r.outcome = "ambiguous"

\* confirm_ambiguous_submission: exact evidence that the submit was executed
\* replaces the uncertain completion.
ConfirmAmbiguousSubmission(r) == Record("completed", "order")

\* finish_cancellation_recovery: an applied record is never touched again, and
\* only an acknowledgement replaces the uncertain completion.
CanFinishCancellationRecovery(r) == r.state = "applied" \/ StillAmbiguous(r)
FinishCancellationRecovery(r, outcome) ==
    IF StillAmbiguous(r) /\ outcome = "acknowledged"
    THEN Record("completed", "acknowledged")
    ELSE r

\* The applied receipts of persist_execution_batch.  `terminal` says that the
\* checkpointed insight row settles the command (settled_by_terminal).
CanApply(r, terminal) ==
    /\ r.outcome # "none"
    /\ r.outcome = "ambiguous" => terminal
Apply(r) == IF r.state = "completed" THEN Record("applied", r.outcome) ELSE r
=============================================================================
