------------------------ MODULE CommandWorkerProofs ------------------------
(***************************************************************************)
(* Proofs, for any set of commands and any bounds, of the safety           *)
(* properties of CommandWorker.  None of them is inductive as it stands:   *)
(* what the worker may do next depends on what the journal said when it    *)
(* read it, so the inductive invariant records, for every place `run` can  *)
(* be suspended in, what the current command's record must be.  That no    *)
(* command is lost or doubled has an invariant of its own, which says      *)
(* where each accepted command is, and which slot must be empty at each    *)
(* place for the command in hand to be put back.                           *)
(***************************************************************************)
EXTENDS CommandWorker, Functions, FiniteSetTheorems, TLAPS

\* A record has an outcome exactly when it is completed, and an uncertain
\* submit is never applied.
RecordsOK ==
    \A c \in Commands :
        /\ journal[c].outcome = "none" <=>
               journal[c].state \in {"absent", "queued", "dispatching"}
        /\ Kind[c] = "submit" /\ journal[c].state = "applied" =>
               journal[c].outcome # "ambiguous"

\* What was sent, as far as the record tells.
SentOK ==
    \A c \in Commands :
        /\ polled[c] \in {0, 1}
        /\ journal[c].state \in {"absent", "queued"} => polled[c] = 0 /\ wire[c] = "none"
        /\ Kind[c] = "submit" =>
              /\ order[c] # "none" <=> wire[c] = "done"
              /\ journal[c].outcome = "order" => wire[c] = "done"
              /\ journal[c].outcome \in {"declined", "cancelled_before_dispatch"} =>
                     wire[c] \in {"none", "refused"}

\* The command in hand at each place the task can be in: a first dispatch ...
FirstOK ==
    /\ pc = "preflight" /\ ~retry => recovered = journal[cmd].state
    /\ pc = "preflight" /\ ~retry => journal[cmd].state \in {"queued", "dispatching"}
    /\ pc = "lane" /\ ~retry => journal[cmd].state = "queued"
    /\ pc \in {"poll", "unpolled", "inflight"} /\ ~retry => journal[cmd].state = "dispatching"
    /\ pc \in {"poll", "unpolled"} /\ ~retry => polled[cmd] = 0 /\ wire[cmd] = "none"
    /\ pc = "save" /\ ~retry => journal[cmd].state \in {"queued", "dispatching"}
    /\ pc = "save" /\ ~retry /\ Kind[cmd] = "submit" =>
          /\ result = "order" => wire[cmd] = "done"
          /\ result \in {"declined", "cancelled_before_dispatch"} =>
                 wire[cmd] \in {"none", "refused"}

\* ... or the recovery of an uncertain cancellation.
RetryOK ==
    /\ retry => pc \in {"proofread", "preflight", "lane", "poll", "unpolled", "inflight",
                        "save", "settle"}
    /\ (retry /\ pc # "settle") \/ pc = "proofread" =>
          /\ Kind[cmd] = "cancel"
          /\ journal[cmd].state \in {"completed", "applied"}
          /\ journal[cmd].outcome = "ambiguous"
    /\ pc = "proofread" => result = "ambiguous"
    /\ (retry /\ pc \in {"preflight", "lane"}) \/ pc = "proofread" => attempts[cmd] < MaxAttempts
    /\ retry /\ pc = "preflight" => recovered = "completed"
    /\ retry /\ pc = "unpolled" => result \in {"stale", "changed"}
    /\ retry /\ pc = "save" => result \in {"ambiguous", "acknowledged"}

\* What is about to be delivered is what was saved.
ResultOK ==
    /\ pc \notin {"idle", "exited", "down"} <=> cmd \in Commands
    /\ pc = "unpolled" /\ result \in Outcomes =>
          result \in {"declined", "cancelled_before_dispatch"}
    /\ pc \in {"save", "settle", "deliver"} => result \in Outcomes
    /\ pc = "settle" => journal[cmd].state = "completed" /\ journal[cmd].outcome = result
    /\ pc = "deliver" /\ result # "ambiguous" => journal[cmd].outcome = result

\* While a process runs, entries are gated from the request of a stop on.
GateOK ==
    pc # "down" =>
        /\ stop.requested => gate.stopped
        /\ phase # "running" => gate.stopped

WorkerInv ==
    TypeOK /\ RecordsOK /\ SentOK /\ FirstOK /\ RetryOK /\ ResultOK /\ GateOK

-----------------------------------------------------------------------------
(***************************************************************************)
(* Frames: what an action leaves alone keeps its part of the invariant.    *)
(***************************************************************************)
\* Groups of variables that do not change keep their types.
LEMMA TypeFrames ==
    ASSUME TypeOK
    PROVE  /\ UNCHANGED durable => DurableType'
           /\ UNCHANGED <<pc, task>> => TaskType'
           /\ UNCHANGED queues => QueuesType'
           /\ UNCHANGED recon => ReconType'
           /\ UNCHANGED shared => SharedType'
           /\ UNCHANGED broker => BrokerType'
  <1>1. UNCHANGED durable => DurableType'
    BY Zenon DEF TypeOK, DurableType, durable
  <1>2. UNCHANGED <<pc, task>> => TaskType'
    BY Zenon DEF TypeOK, TaskType, task
  <1>3. UNCHANGED queues => QueuesType'
    BY Zenon DEF TypeOK, QueuesType, queues
  <1>4. UNCHANGED recon => ReconType'
    BY Zenon DEF TypeOK, ReconType, recon
  <1>5. UNCHANGED shared => SharedType'
    BY Zenon DEF TypeOK, SharedType, shared
  <1>6. UNCHANGED broker => BrokerType'
    BY Zenon DEF TypeOK, BrokerType, broker
  <1> QED
    BY Zenon, <1>1, <1>2, <1>3, <1>4, <1>5, <1>6

\* The records and the broker's books, the task, and the gate.
LEMMA RecordFrame ==
    ASSUME WorkerInv, UNCHANGED <<journal, broker>>
    PROVE  RecordsOK' /\ SentOK'
  BY Zenon DEF WorkerInv, RecordsOK, SentOK, broker

\* What is to be shown of the record that changes when only one does.
RecordFits(c) ==
    /\ journal'[c].outcome = "none" <=> journal'[c].state \in {"absent", "queued", "dispatching"}
    /\ Kind[c] = "submit" /\ journal'[c].state = "applied" => journal'[c].outcome # "ambiguous"
    /\ journal'[c].state \in {"absent", "queued"} => polled[c] = 0 /\ wire[c] = "none"
    /\ Kind[c] = "submit" =>
          /\ journal'[c].outcome = "order" => wire[c] = "done"
          /\ journal'[c].outcome \in {"declined", "cancelled_before_dispatch"} =>
                 wire[c] \in {"none", "refused"}
\* A step that changes one record, with the broker's books left alone.
LEMMA OneRecord ==
    ASSUME RecordsOK, SentOK, NEW c \in Commands, UNCHANGED broker, RecordFits(c),
           \A d \in Commands : d # c => journal'[d] = journal[d]
    PROVE  RecordsOK' /\ SentOK'
  <1>1. UNCHANGED <<polled, wire, order>>
    BY Zenon DEF broker
  <1>2. RecordsOK'
    <2> SUFFICES ASSUME NEW d \in Commands
                 PROVE  /\ journal'[d].outcome = "none" <=>
                               journal'[d].state \in {"absent", "queued", "dispatching"}
                        /\ Kind[d] = "submit" /\ journal'[d].state = "applied" =>
                               journal'[d].outcome # "ambiguous"
      BY Zenon DEF RecordsOK
    <2>1. CASE d = c
      BY Zenon, <2>1 DEF RecordFits
    <2>2. CASE d # c
      BY Zenon, <2>2 DEF RecordsOK
    <2> QED
      BY Zenon, <2>1, <2>2
  <1>3. SentOK'
    <2> SUFFICES ASSUME NEW d \in Commands
                 PROVE  /\ polled[d] \in {0, 1}
                        /\ journal'[d].state \in {"absent", "queued"} =>
                               polled[d] = 0 /\ wire[d] = "none"
                        /\ Kind[d] = "submit" =>
                              /\ order[d] # "none" <=> wire[d] = "done"
                              /\ journal'[d].outcome = "order" => wire[d] = "done"
                              /\ journal'[d].outcome \in {"declined", "cancelled_before_dispatch"} =>
                                     wire[d] \in {"none", "refused"}
      BY Zenon, <1>1 DEF SentOK
    <2>1. CASE d = c
      BY Zenon, <2>1 DEF RecordFits, SentOK
    <2>2. CASE d # c
      BY Zenon, <2>2 DEF SentOK
    <2> QED
      BY Zenon, <2>1, <2>2
  <1> QED
    BY Zenon, <1>2, <1>3

\* A step that leaves the task, its record and the broker alone keeps the facts
\* about the command in hand.
LEMMA TaskFrame ==
    ASSUME WorkerInv, UNCHANGED <<pc, task, journal, attempts, broker>>
    PROVE  FirstOK' /\ RetryOK' /\ ResultOK'
  BY SMTT(30) DEF WorkerInv, FirstOK, RetryOK, ResultOK, task, broker
\* A step that leaves the phase, the gate and the stop alone keeps the gate shut.
LEMMA GateFrame ==
    ASSUME WorkerInv, pc # "down", UNCHANGED <<phase, gate, stop>>
    PROVE  GateOK'
  BY Zenon DEF WorkerInv, GateOK

\* The task has put its command down.
Resting ==
    /\ pc' \in {"idle", "exited", "down"}
    /\ cmd' = None /\ recovered' = "absent" /\ retry' = FALSE /\ result' = "none"
\* A task that holds no command satisfies what is said of the one in hand.
LEMMA Rests ==
    ASSUME Resting
    PROVE  TaskType' /\ FirstOK' /\ RetryOK' /\ ResultOK'
  BY Zenon, WorkerAssumption
     DEF Resting, TaskType, FirstOK, RetryOK, ResultOK, JournalStates

(***************************************************************************)
(* Updates.                                                                *)
(***************************************************************************)
\* What a saved record changes.
LEMMA SaveRecord ==
    ASSUME TypeOK, NEW c \in Commands, NEW state \in JournalStates,
           NEW outcome \in Outcomes \union {"none"}, Save(c, Record(state, outcome))
    PROVE  /\ journal' \in [Commands -> Records]
           /\ journal'[c].state = state /\ journal'[c].outcome = outcome
           /\ \A d \in Commands : d # c => journal'[d] = journal[d]
  BY Zenon DEF TypeOK, DurableType, Save, Record, Records

\* The timers stay within the delays.
LEMMA TimersTyped ==
    ASSUME TypeOK, NEW c \in Commands
    PROVE  /\ Schedule(c) \in [Commands -> 0..Delays]
           /\ Reschedule(c) \in [Commands -> 0..Delays]
           /\ [timers EXCEPT ![c] = 0] \in [Commands -> 0..Delays]
  BY SMTT(30), WorkerAssumption DEF TypeOK, ReconType, Schedule, Reschedule

\* Taking a command from a channel or a slot leaves the others in place.
LEMMA TakenTyped ==
    ASSUME TypeOK, NEW c \in Commands, Taken(c)
    PROVE  QueuesType'
  <1>1. \A q \in Seq(Commands) : q # <<>> => Tail(q) \in Seq(Commands)
    BY SMTT(30)
  <1> QED
    BY Zenon, <1>1 DEF TypeOK, QueuesType, Taken
\* Parking a command puts it in its slot and leaves the task at rest.
LEMMA ParkTyped ==
    ASSUME TypeOK, cmd \in Commands, Park
    PROVE  QueuesType' /\ Resting
  BY Zenon DEF TypeOK, QueuesType, Park, GoIdle, Resting

\* Leaving `run`, with or without a changed account, keeps the gate shut.
LEMMA ExitKeeps ==
    ASSUME WorkerInv, NEW changed \in BOOLEAN, Exit(changed), UNCHANGED <<events, closed, admitted>>
    PROVE  Resting /\ SharedType' /\ phase' \in Phases /\ GateOK'
  BY Zenon DEF WorkerInv, TypeOK, DurableType, SharedType, Exit, PersistStop, Resting, GateOK, Phases

-----------------------------------------------------------------------------
(***************************************************************************)
(* One lemma per stage of the task, one step per action.                   *)
(***************************************************************************)

\* Before the lane: decided without the broker, sent on, parked, or left.
LEMMA PreflightStep ==
    ASSUME WorkerInv,
           PreflightDecides \/ PreflightFresh \/ PreflightStale \/ PreflightChanged
    PROVE  WorkerInv'
  <1> USE DEF WorkerInv
  <1>0. cmd \in Commands /\ pc = "preflight" /\ UNCHANGED <<journal, recon, broker>>
    BY Zenon DEF ResultOK, PreflightDecides, PreflightFresh, PreflightStale, PreflightChanged, durable
  <1>1. ReconType' /\ BrokerType' /\ RecordsOK' /\ SentOK'
    BY Zenon, <1>0, TypeFrames, RecordFrame
  <1>2. GateIfClosed /\ UNCHANGED <<phase, stop, events, closed, admitted>> => SharedType' /\ GateOK'
    BY Zenon, <1>0 DEF GateIfClosed, TypeOK, SharedType, GateOK
  <1>3. CASE PreflightDecides
    <2>1. DurableType' /\ QueuesType' /\ SharedType' /\ GateOK'
      BY Zenon, <1>2, <1>3, TypeFrames DEF PreflightDecides, durable
    <2>2. TaskType' /\ ResultOK'
      BY Zenon, <1>0, <1>3 DEF PreflightDecides, GoTo, LocalOutcomes, Outcomes, Definite, TypeOK, TaskType,
                        ResultOK
    <2>3. FirstOK' /\ RetryOK'
      BY Zenon, <1>0, <1>3 DEF PreflightDecides, GoTo, LocalOutcomes, CancelsEntry, Entry, IsEntry, broker,
                        FirstOK, RetryOK, SentOK
    <2> QED
      BY Zenon, <1>1, <2>1, <2>2, <2>3 DEF TypeOK
  <1>4. CASE PreflightFresh
    <2>1. DurableType' /\ QueuesType' /\ SharedType' /\ GateOK'
      BY Zenon, <1>2, <1>4, TypeFrames DEF PreflightFresh, durable
    <2>2. TaskType' /\ ResultOK' /\ FirstOK' /\ RetryOK'
      BY Zenon, <1>0, <1>4 DEF PreflightFresh, GoTo, MayDispatch, recon, broker, TypeOK, TaskType, ResultOK,
                        FirstOK, RetryOK
    <2> QED
      BY Zenon, <1>1, <2>1, <2>2 DEF TypeOK
  <1>5. CASE PreflightStale
    <2>1. DurableType' /\ SharedType' /\ GateOK'
      BY Zenon, <1>2, <1>5, TypeFrames DEF PreflightStale, durable
    <2>2. QueuesType' /\ Resting
      BY Zenon, <1>0, <1>5, ParkTyped DEF PreflightStale
    <2> QED
      BY Zenon, <1>1, <2>1, <2>2, Rests DEF TypeOK
  <1>6. CASE PreflightChanged
    <2>1. DurableType' /\ QueuesType'
      BY Zenon, <1>0, <1>6, TypeFrames, ExitKeeps DEF PreflightChanged, TypeOK, DurableType
    <2>2. Resting /\ SharedType' /\ GateOK'
      BY Zenon, <1>6, ExitKeeps DEF PreflightChanged
    <2> QED
      BY Zenon, <1>1, <2>1, <2>2, Rests DEF TypeOK
  <1> QED
    BY Zenon, <1>3, <1>4, <1>5, <1>6

\* The wait for the lane ends early, or a dispatch becomes durable.
LEMMA LaneStep ==
    ASSUME WorkerInv,
           LaneClosed \/ LaneStop \/ LaneYield \/ LaneHostBusy \/ LaneDispatch \/ LaneRetry
    PROVE  WorkerInv'
  <1> USE DEF WorkerInv
  <1>0. cmd \in Commands /\ pc = "lane" /\ UNCHANGED <<timers, broker>>
    BY Zenon DEF ResultOK, LaneClosed, LaneStop, LaneYield, LaneHostBusy, LaneDispatch, LaneRetry, recon
  <1>1. BrokerType'
    BY Zenon, <1>0, TypeFrames
  <1>2. CASE LaneClosed
    <2>1. DurableType' /\ ReconType' /\ RecordsOK' /\ SentOK'
      BY Zenon, <1>2, TypeFrames, RecordFrame DEF LaneClosed, durable
    <2>2. SharedType' /\ GateOK'
      BY Zenon, <1>2 DEF LaneClosed, TypeOK, SharedType, GateOK, durable
    <2>3. QueuesType' /\ Resting
      BY Zenon, <1>0, <1>2, ParkTyped DEF LaneClosed
    <2> QED
      BY Zenon, <1>1, <2>1, <2>2, <2>3, Rests DEF TypeOK
  <1>3. CASE LaneStop
    <2>1. ReconType' /\ RecordsOK' /\ SentOK'
      BY Zenon, <1>3, TypeFrames, RecordFrame DEF LaneStop
    <2>2. DurableType' /\ SharedType' /\ GateOK'
      BY Zenon, <1>3 DEF LaneStop, StopPending, PersistStop, TypeOK, DurableType, SharedType, GateOK, Phases
    <2>3. CASE Entry(cmd)
      BY Zenon, <1>0, <1>1, <1>3, <2>1, <2>2, <2>3, ParkTyped, Rests DEF LaneStop, TypeOK
    <2>4. CASE ~Entry(cmd)
      BY Zenon, <1>0, <1>1, <1>3, <2>1, <2>2, <2>4, TypeFrames, TaskFrame DEF LaneStop, TypeOK, recon
    <2> QED
      BY Zenon, <2>3, <2>4
  <1>4. CASE LaneYield
    <2>1. DurableType' /\ ReconType' /\ SharedType' /\ RecordsOK' /\ SentOK' /\ GateOK'
      BY Zenon, <1>0, <1>4, TypeFrames, RecordFrame, GateFrame DEF LaneYield, durable, shared
    <2>2. Resting
      BY Zenon, <1>4 DEF LaneYield, GoIdle, Resting
    <2>3. QueuesType'
      BY SMTT(30), <1>0, <1>4 DEF LaneYield, TypeOK, QueuesType
    <2> QED
      BY Zenon, <1>1, <2>1, <2>2, <2>3, Rests DEF TypeOK
  <1>5. CASE LaneHostBusy
    <2>1. DurableType' /\ ReconType' /\ SharedType' /\ RecordsOK' /\ SentOK' /\ GateOK'
      BY Zenon, <1>0, <1>5, TypeFrames, RecordFrame, GateFrame DEF LaneHostBusy, durable, shared
    <2> QED
      BY Zenon, <1>0, <1>1, <1>5, <2>1, ParkTyped, Rests DEF LaneHostBusy, TypeOK
  <1>6. CASE LaneDispatch
    <2>1. /\ journal' \in [Commands -> Records]
          /\ journal'[cmd].state = "dispatching" /\ journal'[cmd].outcome = "none"
          /\ \A d \in Commands : d # cmd => journal'[d] = journal[d]
      <3>1. MarkDispatched(journal[cmd]) = Record("dispatching", "none")
        BY Zenon, <1>0, <1>6 DEF LaneDispatch, MarkDispatched, CanMarkDispatched, RecordsOK
      <3> QED
        BY Zenon, <1>0, <1>6, <3>1, SaveRecord DEF LaneDispatch, JournalStates
    <2>2. QueuesType' /\ ReconType' /\ SharedType' /\ GateOK'
      BY Zenon, <1>0, <1>6, TypeFrames, GateFrame DEF LaneDispatch, shared
    <2>3. DurableType' /\ TaskType' /\ ResultOK'
      BY Zenon, <1>0, <1>6, <2>1 DEF LaneDispatch, TypeOK, DurableType, TaskType, ResultOK, task
    <2>4. RecordsOK' /\ SentOK'
      <3>1. RecordFits(cmd)
        BY Zenon, <2>1 DEF RecordFits
      <3>2. UNCHANGED broker
        BY Zenon, <1>6 DEF LaneDispatch
      <3> QED
        BY Zenon, <1>0, <2>1, <3>1, <3>2, OneRecord
    <2>5. FirstOK' /\ RetryOK'
      BY Zenon, <1>0, <1>6, <2>1 DEF LaneDispatch, CanMarkDispatched, FirstOK, RetryOK, SentOK, task, recon,
                              broker
    <2> QED
      BY Zenon, <1>1, <2>2, <2>3, <2>4, <2>5 DEF TypeOK
  <1>7. CASE LaneRetry
    <2>1. /\ DurableType' /\ QueuesType' /\ SharedType' /\ RecordsOK' /\ SentOK' /\ GateOK'
      BY Zenon, <1>0, <1>7, TypeFrames, RecordFrame, GateFrame DEF LaneRetry, durable, shared
    <2>2. ReconType'
      BY SMTT(30), <1>0, <1>7, WorkerAssumption DEF LaneRetry, TypeOK, ReconType, RetryOK
    <2>3. CASE StillAmbiguous(journal[cmd])
      BY Zenon, <1>0, <1>1, <1>7, <2>1, <2>2, <2>3
         DEF LaneRetry, TypeOK, TaskType, FirstOK, RetryOK, ResultOK, task, durable
    <2>4. CASE ~StillAmbiguous(journal[cmd])
      BY Zenon, <1>1, <1>7, <2>1, <2>2, <2>4, Rests DEF LaneRetry, GoIdle, Resting, TypeOK
    <2> QED
      BY Zenon, <2>3, <2>4
  <1> QED
    BY Zenon, <1>2, <1>3, <1>4, <1>5, <1>6, <1>7

\* The first poll starts the transport or refuses; an unpolled dispatch is
\* taken back; an answer, or none in time, ends the flight.
LEMMA PollStep ==
    ASSUME WorkerInv,
           PollRefused \/ PollStarts \/ UnpolledDecided \/ UnpolledStale \/ UnpolledChanged
           \/ Answered
    PROVE  WorkerInv'
  <1> USE DEF WorkerInv
  <1>0. /\ cmd \in Commands /\ pc \in {"poll", "unpolled", "inflight"}
        /\ UNCHANGED <<recon, events, closed, admitted>>
    BY Zenon DEF ResultOK, PollRefused, PollStarts, UnpolledDecided, UnpolledStale, UnpolledChanged,
           Answered, shared
  <1>1. ReconType'
    BY Zenon, <1>0, TypeFrames
  <1>2. CASE PollRefused
    <2>1. /\ DurableType' /\ QueuesType' /\ SharedType' /\ BrokerType'
          /\ RecordsOK' /\ SentOK' /\ GateOK'
      BY Zenon, <1>0, <1>2, TypeFrames, RecordFrame, GateFrame DEF PollRefused, durable, shared
    <2>2. TaskType' /\ ResultOK'
      BY Zenon, <1>0, <1>2 DEF PollRefused, Refusals, GoTo, TypeOK, TaskType, ResultOK, Outcomes, Definite
    <2>3. FirstOK' /\ RetryOK'
      BY Zenon, <1>0, <1>2 DEF PollRefused, Refusals, GoTo, Entry, IsEntry, FirstOK, RetryOK, durable, broker,
                        recon
    <2> QED
      BY Zenon, <1>1, <2>1, <2>2, <2>3 DEF TypeOK
  <1>3. CASE PollStarts
    <2>1. DurableType' /\ QueuesType' /\ SharedType' /\ GateOK'
      BY Zenon, <1>0, <1>3, TypeFrames, GateFrame DEF PollStarts, durable, shared
    <2>2. TaskType' /\ BrokerType' /\ ResultOK'
      BY SMTT(30), <1>0, <1>3 DEF PollStarts, TypeOK, TaskType, BrokerType, ResultOK, durable, task
    <2>3. RecordsOK' /\ SentOK'
      BY SMTT(30), <1>0, <1>3 DEF PollStarts, TypeOK, BrokerType, RecordsOK, SentOK, FirstOK, RetryOK, durable
    <2>4. FirstOK' /\ RetryOK'
      BY Zenon, <1>0, <1>3 DEF PollStarts, TypeOK, BrokerType, FirstOK, RetryOK, durable, task, recon
    <2> QED
      BY Zenon, <1>1, <2>1, <2>2, <2>3, <2>4 DEF TypeOK
  <1>4. CASE UnpolledDecided \/ UnpolledStale \/ UnpolledChanged
    <2>0. pc = "unpolled" /\ UNCHANGED broker
      BY Zenon, <1>4 DEF UnpolledDecided, UnpolledStale, UnpolledChanged
    <2>1. /\ journal' \in [Commands -> Records] /\ RecordsOK' /\ SentOK'
          /\ ~retry => journal'[cmd].state = "queued"
      <3>1. CASE retry
        BY Zenon, <1>4, <3>1, RecordFrame, <2>0
           DEF UnpolledDecided, UnpolledStale, UnpolledChanged, UnpolledJournal, TypeOK, DurableType
      <3>2. CASE ~retry
        <4>1. /\ journal' \in [Commands -> Records]
              /\ journal'[cmd].state = "queued" /\ journal'[cmd].outcome = "none"
              /\ \A d \in Commands : d # cmd => journal'[d] = journal[d]
          BY Zenon, <1>0, <1>4, <3>2, SaveRecord
             DEF UnpolledDecided, UnpolledStale, UnpolledChanged, UnpolledJournal,
                 DeferUnpolledDispatch, JournalStates
        <4> QED
          <5>1. RecordFits(cmd)
            BY Zenon, <1>0, <2>0, <3>2, <4>1 DEF RecordFits, FirstOK
          <5>2. RecordsOK' /\ SentOK'
            BY Zenon, <1>0, <2>0, <4>1, <5>1, OneRecord
          <5> QED
            BY Zenon, <4>1, <5>2
      <3> QED
        BY Zenon, <3>1, <3>2
    <2>2. BrokerType'
      BY Zenon, <2>0, TypeFrames
    <2>3. CASE UnpolledDecided
      <3>1. QueuesType' /\ SharedType' /\ GateOK'
        BY Zenon, <1>0, <2>3, TypeFrames, GateFrame DEF UnpolledDecided, shared
      <3>2. DurableType' /\ TaskType' /\ ResultOK'
        BY Zenon, <1>0, <2>1, <2>3 DEF UnpolledDecided, TypeOK, DurableType, TaskType, ResultOK, task
      <3>3. ~retry
        BY Zenon, <2>0, <2>3 DEF UnpolledDecided, RetryOK, Outcomes, Definite
      <3>4. FirstOK' /\ RetryOK'
        BY Zenon, <1>0, <2>0, <2>1, <2>3, <3>3 DEF UnpolledDecided, FirstOK, RetryOK, ResultOK, task, broker
      <3> QED
        BY Zenon, <1>1, <2>1, <2>2, <3>1, <3>2, <3>4 DEF TypeOK
    <2>4. CASE UnpolledStale
      <3>1. DurableType' /\ SharedType' /\ GateOK'
        BY Zenon, <1>0, <2>1, <2>4, TypeFrames, GateFrame DEF UnpolledStale, TypeOK, DurableType, shared
      <3> QED
        BY Zenon, <1>0, <1>1, <2>1, <2>2, <2>4, <3>1, ParkTyped, Rests DEF UnpolledStale, TypeOK
    <2>5. CASE UnpolledChanged
      <3>1. Resting /\ SharedType' /\ GateOK' /\ DurableType' /\ QueuesType'
        BY Zenon, <2>1, <2>5, ExitKeeps, TypeFrames DEF UnpolledChanged, DurableType
      <3> QED
        BY Zenon, <1>1, <2>1, <2>2, <3>1, Rests DEF TypeOK
    <2> QED
      BY Zenon, <1>4, <2>3, <2>4, <2>5
  <1>5. CASE Answered
    <2>1. /\ DurableType' /\ QueuesType' /\ SharedType' /\ BrokerType'
          /\ RecordsOK' /\ SentOK' /\ GateOK'
      BY Zenon, <1>0, <1>5, TypeFrames, RecordFrame, GateFrame DEF Answered, durable, shared
    <2>2. TaskType' /\ ResultOK'
      BY Zenon, <1>0, <1>5 DEF Answered, Answers, GoTo, TypeOK, TaskType, ResultOK, Outcomes, Definite
    <2>3. FirstOK' /\ RetryOK'
      BY Zenon, <1>0, <1>5 DEF Answered, Answers, GoTo, FirstOK, RetryOK, durable, broker, recon
    <2> QED
      BY Zenon, <1>1, <2>1, <2>2, <2>3 DEF TypeOK
  <1> QED
    BY Zenon, <1>2, <1>3, <1>4, <1>5

\* Reconciliation confirms an uncertain submit or changes nothing.
LEMMA ReconciledKeeps ==
    ASSUME WorkerInv, NEW c \in Commands, NEW before \in Outcomes, NEW after \in Reconciled(c, before),
           journal[c].outcome = before, journal[c].state \in {"completed", "applied"},
           SaveReconciled(c, before, after), UNCHANGED broker
    PROVE  /\ after \in Outcomes
           /\ journal' \in [Commands -> Records]
           /\ journal'[c].outcome = after
           /\ journal'[c].state = journal[c].state
           /\ \A d \in Commands : d # c => journal'[d] = journal[d]
           /\ RecordsOK' /\ SentOK'
  <1> USE DEF WorkerInv
  <1>1. CASE after = before
    BY Zenon, <1>1, RecordFrame DEF SaveReconciled, TypeOK, DurableType
  <1>2. CASE after # before
    <2>1. /\ after = "order" /\ before = "ambiguous" /\ Kind[c] = "submit" /\ order[c] # "none"
          /\ journal[c].state = "completed"
      BY Zenon, <1>2 DEF Reconciled, RecordsOK
    <2>2. /\ journal' \in [Commands -> Records]
          /\ journal'[c].state = "completed" /\ journal'[c].outcome = "order"
          /\ \A d \in Commands : d # c => journal'[d] = journal[d]
      BY Zenon, <1>2, SaveRecord
         DEF SaveReconciled, ConfirmAmbiguousSubmission, JournalStates, Outcomes, Definite
    <2>3. RecordFits(c)
      BY Zenon, <2>1, <2>2 DEF RecordFits, SentOK
    <2>4. RecordsOK' /\ SentOK'
      BY Zenon, <2>2, <2>3, OneRecord
    <2> QED
      BY Zenon, <2>1, <2>2, <2>4 DEF Outcomes, Definite
  <1> QED
    BY Zenon, <1>1, <1>2

\* A result is saved, reconciled and delivered.
LEMMA SaveStep ==
    ASSUME WorkerInv, SaveCompletion \/ SaveRecovery \/ Settle \/ Deliver \/ Leave
    PROVE  WorkerInv'
  <1> USE DEF WorkerInv
  <1>0. /\ pc \in {"save", "settle", "deliver"} => cmd \in Commands
        /\ UNCHANGED <<queues, broker>>
    BY Zenon DEF ResultOK, SaveCompletion, SaveRecovery, Settle, Deliver, Leave
  <1>1. QueuesType' /\ BrokerType'
    BY Zenon, <1>0, TypeFrames
  <1>2. CASE SaveCompletion
    <2>0. pc = "save" /\ cmd \in Commands /\ ~retry /\ result \in Outcomes
      BY Zenon, <1>0, <1>2 DEF SaveCompletion, ResultOK
    <2>1. /\ journal' \in [Commands -> Records]
          /\ journal'[cmd].state = "completed" /\ journal'[cmd].outcome = result
          /\ \A d \in Commands : d # cmd => journal'[d] = journal[d]
      BY Zenon, <1>2, <2>0, SaveRecord DEF SaveCompletion, Complete, JournalStates
    <2>2. ReconType' /\ SharedType' /\ GateOK'
      BY Zenon, <1>2, <2>0, TypeFrames, GateFrame DEF SaveCompletion, shared
    <2>3. DurableType' /\ TaskType' /\ ResultOK'
      BY Zenon, <1>2, <2>0, <2>1 DEF SaveCompletion, TypeOK, DurableType, TaskType, ResultOK, task
    <2>4. RecordsOK' /\ SentOK'
      <3>1. RecordFits(cmd)
        BY Zenon, <2>0, <2>1 DEF RecordFits, FirstOK, Outcomes, Definite
      <3> QED
        BY Zenon, <1>0, <2>0, <2>1, <3>1, OneRecord
    <2>5. FirstOK' /\ RetryOK'
      BY Zenon, <1>2, <2>0 DEF SaveCompletion, FirstOK, RetryOK, task
    <2> QED
      BY Zenon, <1>1, <2>2, <2>3, <2>4, <2>5 DEF TypeOK
  <1>3. CASE SaveRecovery
    <2> DEFINE r == FinishCancellationRecovery(journal[cmd], result)
    <2>0. pc = "save" /\ cmd \in Commands /\ retry /\ Kind[cmd] = "cancel"
      BY Zenon, <1>0, <1>3 DEF SaveRecovery, RetryOK
    <2>1. /\ r.state = journal[cmd].state
          /\ r.outcome \in {"ambiguous", "acknowledged"}
          /\ r = journal[cmd] \/ r = Record("completed", "acknowledged")
      BY Zenon, <2>0 DEF FinishCancellationRecovery, StillAmbiguous, Record, RetryOK
    <2>2. /\ journal' \in [Commands -> Records]
          /\ journal'[cmd] = r
          /\ \A d \in Commands : d # cmd => journal'[d] = journal[d]
      <3>1. r \in Records
        BY Zenon, <2>0, <2>1 DEF TypeOK, DurableType, Record, Records, JournalStates, Outcomes, Definite
      <3> QED
        BY Zenon, <1>3, <2>0, <3>1 DEF SaveRecovery, Save, TypeOK, DurableType
    <2>3. SharedType' /\ GateOK'
      BY Zenon, <1>3, <2>0, TypeFrames, GateFrame DEF SaveRecovery, shared
    <2>4. DurableType' /\ ReconType'
      BY SMTT(30), <1>3, <2>0, <2>2, WorkerAssumption DEF SaveRecovery, TypeOK, DurableType, ReconType
    <2>5. RecordsOK' /\ SentOK'
      <3>1. RecordFits(cmd)
        BY Zenon, <2>0, <2>1, <2>2 DEF RecordFits, RecordsOK, SentOK, RetryOK
      <3> QED
        BY Zenon, <1>0, <2>0, <2>2, <3>1, OneRecord
    <2>6. CASE r.state = "applied"
      BY Zenon, <1>1, <1>3, <2>3, <2>4, <2>5, <2>6, Rests DEF SaveRecovery, GoIdle, Resting, TypeOK
    <2>7. CASE r.state # "applied"
      <3>1. pc' = "settle" /\ cmd' = cmd /\ result' = r.outcome /\ UNCHANGED <<recovered, retry>>
        BY Zenon, <1>3, <2>7 DEF SaveRecovery, GoTo
      <3>2. r.state = "completed"
        BY Zenon, <2>0, <2>1, <2>7 DEF RetryOK
      <3>3. TaskType' /\ ResultOK'
        BY Zenon, <2>0, <2>1, <2>2, <3>1, <3>2 DEF TypeOK, TaskType, ResultOK, Outcomes, Definite
      <3>4. FirstOK' /\ RetryOK'
        BY Zenon, <3>1 DEF FirstOK, RetryOK
      <3> QED
        BY Zenon, <1>1, <2>3, <2>4, <2>5, <3>3, <3>4 DEF TypeOK
    <2> QED
      BY Zenon, <2>6, <2>7
  <1>4. CASE Settle
    <2>0. /\ pc = "settle" /\ cmd \in Commands /\ result \in Outcomes
          /\ journal[cmd].state = "completed" /\ journal[cmd].outcome = result
      BY Zenon, <1>0, <1>4 DEF Settle, ResultOK
    <2>1. PICK outcome \in Reconciled(cmd, result) :
              /\ SaveReconciled(cmd, result, outcome)
              /\ ScheduleIfAmbiguous(cmd, outcome, attempts)
              /\ pc' = "deliver" /\ result' = outcome /\ recovered' = "absent" /\ retry' = FALSE
      BY Zenon, <1>4 DEF Settle
    <2>2. /\ outcome \in Outcomes /\ journal' \in [Commands -> Records]
          /\ journal'[cmd].outcome = outcome /\ RecordsOK' /\ SentOK'
      BY Zenon, <1>0, <2>0, <2>1, ReconciledKeeps
    <2>3. SharedType' /\ GateOK'
      BY Zenon, <1>4, <2>0, TypeFrames, GateFrame DEF Settle, shared
    <2>4. DurableType' /\ ReconType'
      BY Zenon, <1>4, <2>0, <2>1, <2>2, TimersTyped
         DEF Settle, ScheduleIfAmbiguous, TypeOK, DurableType, ReconType
    <2>5. TaskType' /\ ResultOK' /\ FirstOK' /\ RetryOK'
      BY Zenon, <1>4, <2>0, <2>1, <2>2 DEF Settle, TypeOK, TaskType, ResultOK, FirstOK, RetryOK, JournalStates
    <2> QED
      BY Zenon, <1>1, <2>2, <2>3, <2>4, <2>5 DEF TypeOK
  <1>5. CASE Deliver
    <2>0. pc = "deliver" /\ cmd \in Commands /\ result \in Outcomes
      BY Zenon, <1>0, <1>5 DEF Deliver, ResultOK
    <2>1. DurableType' /\ ReconType' /\ RecordsOK' /\ SentOK' /\ GateOK'
      BY Zenon, <1>5, <2>0, TypeFrames, RecordFrame, GateFrame DEF Deliver, durable
    <2>2. SharedType'
      BY SMTT(30), <1>5, <2>0 DEF Deliver, TypeOK, SharedType
    <2> QED
      BY Zenon, <1>1, <1>5, <2>1, <2>2, Rests DEF Deliver, GoIdle, Resting, TypeOK
  <1>6. CASE Leave
    <2>1. ReconType' /\ RecordsOK' /\ SentOK'
      BY Zenon, <1>6, TypeFrames, RecordFrame DEF Leave
    <2>2. Resting /\ SharedType' /\ GateOK' /\ DurableType'
      BY Zenon, <1>6, ExitKeeps DEF Leave, TypeOK, DurableType
    <2> QED
      BY Zenon, <1>1, <2>1, <2>2, Rests DEF TypeOK
  <1> QED
    BY Zenon, <1>2, <1>3, <1>4, <1>5, <1>6

\* A command is taken: replayed, looked up, or made durable.
LEMMA TakeStep ==
    ASSUME WorkerInv, NEW c \in Commands, TakeCompleted(c) \/ TakeForProof(c) \/ TakePrepared(c)
    PROVE  WorkerInv'
  <1> USE DEF WorkerInv
  <1>0. /\ pc = "idle" /\ ~retry /\ Taken(c)
        /\ UNCHANGED <<phase, attempts, shared, broker>>
    BY Zenon DEF TakeCompleted, TakeForProof, TakePrepared, Taken, durable, recon, RetryOK
  <1>1. QueuesType' /\ SharedType' /\ BrokerType' /\ GateOK'
    BY Zenon, <1>0, TakenTyped, TypeFrames, GateFrame DEF shared
  <1>2. CASE TakeCompleted(c)
    <2>0. /\ journal[c].outcome \in Outcomes
          /\ journal[c].state \in {"completed", "applied"}
      BY Zenon, <1>2 DEF TakeCompleted, TypeOK, DurableType, Records, RecordsOK, JournalStates
    <2>1. PICK outcome \in Reconciled(c, journal[c].outcome) :
              /\ SaveReconciled(c, journal[c].outcome, outcome)
              /\ ScheduleIfAmbiguous(c, outcome, attempts)
              /\ GoTo("deliver", c, outcome)
      BY Zenon, <1>2 DEF TakeCompleted
    <2>2. /\ outcome \in Outcomes /\ journal' \in [Commands -> Records]
          /\ journal'[c].outcome = outcome /\ RecordsOK' /\ SentOK'
      BY Zenon, <1>0, <2>0, <2>1, ReconciledKeeps
    <2>3. DurableType' /\ ReconType'
      BY Zenon, <1>0, <2>1, <2>2, TimersTyped DEF ScheduleIfAmbiguous, TypeOK, DurableType, ReconType
    <2>4. TaskType' /\ ResultOK' /\ FirstOK' /\ RetryOK'
      BY Zenon, <1>0, <2>1, <2>2 DEF GoTo, TypeOK, TaskType, ResultOK, FirstOK, RetryOK
    <2> QED
      BY Zenon, <1>1, <2>2, <2>3, <2>4 DEF TypeOK
  <1>3. CASE TakeForProof(c)
    <2>1. DurableType' /\ ReconType' /\ RecordsOK' /\ SentOK'
      BY Zenon, <1>0, <1>3, TypeFrames, RecordFrame DEF TakeForProof, durable
    <2>2. TaskType' /\ ResultOK' /\ FirstOK'
      BY Zenon, <1>0, <1>3 DEF TakeForProof, GoTo, TypeOK, TaskType, ResultOK, FirstOK, Outcomes
    <2>3. RetryOK'
      BY Zenon, <1>0, <1>3 DEF TakeForProof, MayProve, GoTo, TypeOK, DurableType, Records, JournalStates,
                        RecordsOK, RetryOK, durable
    <2> QED
      BY Zenon, <1>1, <2>1, <2>2, <2>3 DEF TypeOK
  <1>4. CASE TakePrepared(c)
    <2>0. journal[c].state \in {"absent", "queued", "dispatching"} /\ journal[c].outcome = "none"
      BY Zenon, <1>4 DEF TakePrepared, RecordsOK
    <2>1. /\ Prepare(journal[c]).state \in {"queued", "dispatching"}
          /\ Prepare(journal[c]).outcome = "none"
          /\ Prepare(journal[c]).state = "dispatching" => journal[c].state = "dispatching"
          /\ Prepare(journal[c]) \in Records
      BY Zenon, <2>0 DEF Prepare, Record, Records, JournalStates, TypeOK, DurableType
    <2>2. /\ journal' \in [Commands -> Records]
          /\ journal'[c] = Prepare(journal[c])
          /\ \A d \in Commands : d # c => journal'[d] = journal[d]
      BY Zenon, <1>4, <2>1 DEF TakePrepared, Save, TypeOK, DurableType
    <2>3. RecordsOK' /\ SentOK'
      <3>1. Prepare(journal[c]).state = "queued" => polled[c] = 0 /\ wire[c] = "none"
        BY Zenon, <2>0 DEF Prepare, Record, SentOK
      <3>2. RecordFits(c)
        BY Zenon, <2>1, <2>2, <3>1 DEF RecordFits
      <3> QED
        BY Zenon, <1>0, <2>2, <3>2, OneRecord
    <2>4. DurableType' /\ ReconType'
      BY Zenon, <1>0, <1>4, <2>2, TypeFrames DEF TakePrepared, TypeOK, DurableType
    <2>5. TaskType' /\ ResultOK' /\ FirstOK' /\ RetryOK'
      BY Zenon, <1>0, <1>4, <2>1, <2>2 DEF TakePrepared, TypeOK, TaskType, ResultOK, FirstOK, RetryOK,
                                    JournalStates
    <2> QED
      BY Zenon, <1>1, <2>3, <2>4, <2>5 DEF TypeOK
  <1> QED
    BY Zenon, <1>2, <1>3, <1>4

\* The lookup of an uncertain cancellation.
LEMMA ProofStep ==
    ASSUME WorkerInv, ProofSeen \/ ProofFound \/ NoProof
    PROVE  WorkerInv'
  <1> USE DEF WorkerInv
  <1>0. /\ pc = "proofread" /\ cmd \in Commands
        /\ UNCHANGED <<durable, queues, attempts, shared, broker>>
    BY Zenon DEF ProofSeen, ProofFound, NoProof, recon, ResultOK
  <1>1. /\ DurableType' /\ QueuesType' /\ SharedType' /\ BrokerType'
        /\ RecordsOK' /\ SentOK' /\ GateOK'
    BY Zenon, <1>0, TypeFrames, RecordFrame, GateFrame DEF durable, shared
  <1>2. ReconType'
    BY Zenon, <1>0, TypeFrames, TimersTyped
       DEF ProofSeen, ProofFound, NoProof, ScheduleIfAmbiguous, TypeOK, ReconType
  <1>3. TaskType' /\ ResultOK'
    BY Zenon, <1>0 DEF ProofSeen, ProofFound, NoProof, TypeOK, TaskType, ResultOK, JournalStates, RetryOK,
                Outcomes
  <1>4. FirstOK' /\ RetryOK'
    BY Zenon, <1>0 DEF ProofSeen, ProofFound, NoProof, FirstOK, RetryOK, durable
  <1> QED
    BY Zenon, <1>1, <1>2, <1>3, <1>4 DEF TypeOK

\* The reconciliation timer.
LEMMA TimerStep ==
    ASSUME WorkerInv, NEW c \in Commands, TimerSettled(c) \/ TimerCancel(c) \/ TimerSubmit(c)
    PROVE  WorkerInv'
  <1> USE DEF WorkerInv
  <1>0. pc = "idle" /\ ~retry /\ UNCHANGED <<phase, shared, broker>>
    BY Zenon DEF TimerSettled, TimerCancel, TimerSubmit, durable, RetryOK
  <1>1. SharedType' /\ BrokerType' /\ GateOK'
    BY Zenon, <1>0, TypeFrames, GateFrame DEF shared
  <1>2. CASE TimerSettled(c)
    <2>1. DurableType' /\ TaskType' /\ QueuesType' /\ RecordsOK' /\ SentOK'
      BY Zenon, <1>0, <1>2, TypeFrames, RecordFrame DEF TimerSettled, durable
    <2>2. ReconType'
      BY SMTT(30), <1>2, WorkerAssumption DEF TimerSettled, TypeOK, ReconType
    <2>3. FirstOK' /\ RetryOK' /\ ResultOK'
      BY Zenon, <1>0, <1>2 DEF TimerSettled, FirstOK, RetryOK, ResultOK, task
    <2> QED
      BY Zenon, <1>1, <2>1, <2>2, <2>3 DEF TypeOK
  <1>3. CASE TimerCancel(c)
    <2>1. DurableType' /\ TaskType' /\ RecordsOK' /\ SentOK' /\ FirstOK' /\ RetryOK' /\ ResultOK'
      BY Zenon, <1>0, <1>3, TypeFrames, RecordFrame, TaskFrame DEF TimerCancel, durable
    <2>2. QueuesType' /\ ReconType'
      BY Zenon, <1>3, TimersTyped DEF TimerCancel, TypeOK, QueuesType, ReconType
    <2> QED
      BY Zenon, <1>1, <2>1, <2>2 DEF TypeOK
  <1>4. CASE TimerSubmit(c)
    <2>1. QueuesType' /\ ReconType'
      BY Zenon, <1>4, TypeFrames, TimersTyped DEF TimerSubmit, TypeOK, ReconType
    <2>2. CASE UNCHANGED <<journal, pc, task>>
      <3>1. DurableType' /\ TaskType' /\ RecordsOK' /\ SentOK' /\ FirstOK' /\ RetryOK' /\ ResultOK'
        BY Zenon, <1>0, <1>4, <2>2, TypeFrames, RecordFrame, TaskFrame DEF TimerSubmit, durable
      <3> QED
        BY Zenon, <1>1, <2>1, <3>1 DEF TypeOK
    <2>3. CASE /\ order[c] # "none"
               /\ Save(c, ConfirmAmbiguousSubmission(journal[c]))
               /\ GoTo("deliver", c, "order")
      <3>1. /\ journal' \in [Commands -> Records]
            /\ journal'[c].state = "completed" /\ journal'[c].outcome = "order"
            /\ \A d \in Commands : d # c => journal'[d] = journal[d]
        BY Zenon, <2>3, SaveRecord DEF ConfirmAmbiguousSubmission, JournalStates, Outcomes, Definite
      <3>2. RecordsOK' /\ SentOK'
        <4>1. RecordFits(c)
          BY Zenon, <1>4, <2>3, <3>1 DEF TimerSubmit, RecordFits, SentOK
        <4> QED
          BY Zenon, <1>0, <3>1, <4>1, OneRecord
      <3>3. DurableType' /\ TaskType' /\ ResultOK' /\ FirstOK' /\ RetryOK'
        BY Zenon, <1>0, <2>3, <3>1 DEF GoTo, TypeOK, DurableType, TaskType, ResultOK, FirstOK, RetryOK,
                                Outcomes, Definite
      <3> QED
        BY Zenon, <1>1, <2>1, <3>2, <3>3 DEF TypeOK
    <2> QED
      BY Zenon, <1>4, <2>2, <2>3 DEF TimerSubmit
  <1> QED
    BY Zenon, <1>2, <1>3, <1>4

\* A stop is saved from a suspension point, or after the task has ended.
LEMMA StopStep ==
    ASSUME WorkerInv, StopSaved \/ StopSavedAfterExit
    PROVE  WorkerInv'
  <1> USE DEF WorkerInv
  <1>0. /\ pc # "down" /\ stop.requested /\ PersistStop(TRUE)
        /\ UNCHANGED <<journal, pc, task, queues, recon, events, closed, gate, admitted, broker>>
    BY Zenon DEF StopSaved, StopSavedAfterExit, StopPending
  <1>1. /\ TaskType' /\ QueuesType' /\ ReconType' /\ BrokerType'
        /\ RecordsOK' /\ SentOK' /\ FirstOK' /\ RetryOK' /\ ResultOK'
    BY Zenon, <1>0, TypeFrames, RecordFrame, TaskFrame DEF recon
  <1>2. DurableType' /\ SharedType' /\ GateOK'
    BY Zenon, <1>0 DEF PersistStop, TypeOK, DurableType, SharedType, GateOK, Phases
  <1> QED
    BY Zenon, <1>1, <1>2 DEF TypeOK

\* A checkpoint prepares intents and applies receipts; it never touches the
\* record of a command in flight, and applies no uncertain submit.
LEMMA CheckpointStep ==
    ASSUME WorkerInv, NEW c \in Commands,
           \/ ServeCheckpoint({c}, {}, {})
           \/ ServeCheckpoint({}, {c}, IF order[Target[c]] \in SettledByTerminal(Kind[c])
                                       THEN {c} ELSE {})
    PROVE  WorkerInv'
  <1> USE DEF WorkerInv
  <1>0. /\ Serving
        /\ \A d \in Commands : d # c => journal'[d] = journal[d]
        /\ \/ journal'[c] = Prepare(journal[c])
           \/ /\ journal'[c] = Apply(journal[c]) /\ journal[c].outcome # "none"
              /\ journal[c].outcome = "ambiguous" => Kind[c] # "submit"
        /\ journal' = [d \in Commands |-> journal'[d]]
        /\ UNCHANGED <<phase, pc, task, queues, recon, shared, broker>>
    BY Zenon DEF ServeCheckpoint, CanApply, SettledByTerminal
  <1>1. TaskType' /\ QueuesType' /\ ReconType' /\ SharedType' /\ BrokerType' /\ GateOK'
    BY Zenon, <1>0, TypeFrames, GateFrame DEF shared, Serving
  <1>2. /\ journal[c].state = "absent" => journal'[c].state = "queued"
        /\ journal[c].state = "completed" => journal'[c].state \in {"completed", "applied"}
        /\ journal[c].state \notin {"absent", "completed"} => journal'[c].state = journal[c].state
        /\ journal'[c].outcome = journal[c].outcome
        /\ journal'[c].state # journal[c].state /\ journal'[c].state = "applied" =>
              (journal[c].outcome = "ambiguous" => Kind[c] # "submit")
        /\ journal'[c] \in Records
    BY SMTT(30), <1>0 DEF Prepare, Apply, Record, Records, JournalStates, TypeOK, DurableType, RecordsOK
  <1>3. DurableType'
    BY Zenon, <1>0, <1>2 DEF TypeOK, DurableType
  <1>4. RecordsOK' /\ SentOK'
    BY SMTT(30), <1>0, <1>2, SMTT(20) DEF RecordsOK, SentOK, broker
  <1>5. FirstOK' /\ RetryOK' /\ ResultOK'
    BY SMTT(30), <1>0, <1>2 DEF Serving, FirstOK, RetryOK, ResultOK, task, recon, broker
  <1> QED
    BY Zenon, <1>1, <1>3, <1>4, <1>5 DEF TypeOK

\* The empty channel, and what is left of a channel, keep its type.
LEMMA EventsTyped ==
    /\ <<>> \in Seq(Commands \X Outcomes)
    /\ \A q \in Seq(Commands \X Outcomes) : q # <<>> => Tail(q) \in Seq(Commands \X Outcomes)
  BY SMTT(30)

\* The sender API moves only what the owner shares with the worker.
LEMMA SenderFrame ==
    ASSUME WorkerInv, UNCHANGED <<durable, pc, task, recon, broker>>, QueuesType', SharedType',
           pc # "down" =>
              /\ gate'.stopped = gate.stopped \/ gate'.stopped
              /\ stop'.requested => stop.requested \/ gate'.stopped
    PROVE  WorkerInv'
  <1> USE DEF WorkerInv
  <1>1. /\ DurableType' /\ TaskType' /\ ReconType' /\ BrokerType'
        /\ RecordsOK' /\ SentOK' /\ FirstOK' /\ RetryOK' /\ ResultOK'
    BY Zenon, TypeFrames, RecordFrame, TaskFrame DEF durable, recon
  <1>2. GateOK'
    BY Zenon DEF TypeOK, SharedType, GateOK, durable
  <1> QED
    BY Zenon, <1>1, <1>2 DEF TypeOK
\* try_enqueue appends within the capacity of the channel.
LEMMA EnqueueStep ==
    ASSUME WorkerInv, NEW c \in Commands, TryEnqueue(c, Unapplied(journal[c]))
    PROVE  WorkerInv'
  <1>1. QueuesType'
    <2>1. \A q \in Seq(Commands) : Append(q, c) \in Seq(Commands)
      BY SMTT(30)
    <2> QED
      BY Zenon, <2>1 DEF TryEnqueue, WorkerInv, TypeOK, QueuesType
  <1>2. SharedType'
    BY Zenon DEF TryEnqueue, WorkerInv, TypeOK, SharedType
  <1> QED
    BY Zenon, <1>1, <1>2, SenderFrame DEF TryEnqueue
\* The other calls of the sender API touch only the gate, the stop and the events.
LEMMA SenderStep ==
    ASSUME WorkerInv,
           \/ \E c \in Commands : CancelPendingEntry(c) \/ ReleaseEntryIdentity(c)
           \/ StopEntries \/ RequestExecutionStop \/ Receive \/ CloseEvents
    PROVE  WorkerInv'
  <1> USE DEF CancelPendingEntry, ReleaseEntryIdentity, StopEntries, RequestExecutionStop, Receive,
              CloseEvents
  <1>1. UNCHANGED <<durable, pc, task, queues, recon, broker>>
    BY Zenon
  <1>2. QueuesType'
    BY Zenon, <1>1, TypeFrames DEF WorkerInv
  <1>3. events' \in Seq(Commands \X Outcomes) /\ closed' \in BOOLEAN /\ admitted' \subseteq Commands
    BY Zenon, EventsTyped DEF WorkerInv, TypeOK, SharedType
  <1>4. /\ gate' \in [stopped : BOOLEAN, cancelled : SUBSET Commands]
        /\ stop' \in [requested : BOOLEAN, persisted : BOOLEAN]
        /\ gate'.stopped = gate.stopped \/ gate'.stopped
        /\ stop'.requested => stop.requested \/ gate'.stopped
    <2>0. /\ gate \in [stopped : BOOLEAN, cancelled : SUBSET Commands]
          /\ stop \in [requested : BOOLEAN, persisted : BOOLEAN]
      BY Zenon DEF WorkerInv, TypeOK, SharedType
    <2>1. CASE \E c \in Commands : CancelPendingEntry(c) \/ ReleaseEntryIdentity(c)
      BY SMTT(30), <2>0, <2>1
    <2>2. CASE StopEntries \/ RequestExecutionStop \/ CloseEvents
      BY Zenon, <2>0, <2>2
    <2>3. CASE Receive
      BY Zenon, <2>0, <2>3
    <2> QED
      BY Zenon, <2>1, <2>2, <2>3
  <1> QED
    BY Zenon, <1>1, <1>2, <1>3, <1>4, SenderFrame DEF SharedType

\* Completing a stop changes the phase of a gated execution.
LEMMA CompleteStopStep ==
    ASSUME WorkerInv, ServeCompleteStop
    PROVE  WorkerInv'
  <1> USE DEF WorkerInv
  <1>1. /\ TaskType' /\ QueuesType' /\ ReconType' /\ SharedType' /\ BrokerType'
        /\ RecordsOK' /\ SentOK' /\ FirstOK' /\ RetryOK' /\ ResultOK'
    BY Zenon, TypeFrames, RecordFrame, TaskFrame DEF ServeCompleteStop, recon
  <1>2. DurableType' /\ GateOK'
    BY Zenon DEF ServeCompleteStop, TypeOK, DurableType, GateOK, Phases, shared
  <1> QED
    BY Zenon, <1>1, <1>2 DEF TypeOK

\* The task ends, the process dies, or a new process starts from the journal.
LEMMA LifeStep ==
    ASSUME WorkerInv, WorkerFails \/ Crash \/ Restart
    PROVE  WorkerInv'
  <1> USE DEF WorkerInv
  <1>1. CASE WorkerFails
    <2>1. /\ DurableType' /\ QueuesType' /\ ReconType' /\ SharedType' /\ BrokerType'
          /\ RecordsOK' /\ SentOK'
      BY Zenon, <1>1, TypeFrames, RecordFrame DEF WorkerFails, durable
    <2>2. GateOK'
      BY Zenon, <1>1, GateFrame DEF WorkerFails, Up, durable, shared
    <2> QED
      BY Zenon, <1>1, <2>1, <2>2, Rests DEF WorkerFails, Resting, TypeOK
  <1>2. CASE Crash
    <2>1. DurableType' /\ BrokerType' /\ RecordsOK' /\ SentOK'
      BY Zenon, <1>2, TypeFrames, RecordFrame DEF Crash, durable
    <2>2. QueuesType'
      <3>1. entries' = <<>> /\ controls' = <<>> /\ parkedEntry' = None /\ parkedControl' = None
        BY Zenon, <1>2 DEF Crash
      <3> QED
        BY SMTT(30), <3>1 DEF QueuesType
    <2>4. ReconType'
      <3>1. timers' = [c \in Commands |-> 0] /\ attempts' = [c \in Commands |-> 0]
        BY Zenon, <1>2 DEF Crash
      <3> QED
        BY SMTT(30), <3>1, WorkerAssumption DEF ReconType
    <2>3. SharedType' /\ GateOK'
      BY Zenon, <1>2, EventsTyped DEF Crash, SharedType, GateOK
    <2> QED
      BY Zenon, <1>2, <2>1, <2>2, <2>3, <2>4, Rests DEF Crash, Resting, TypeOK
  <1>3. CASE Restart
    <2>1. QueuesType' /\ ReconType' /\ BrokerType' /\ RecordsOK' /\ SentOK'
      BY Zenon, <1>3, TypeFrames, RecordFrame DEF Restart
    <2>2. DurableType' /\ SharedType' /\ GateOK'
      BY Zenon, <1>3 DEF Restart, TypeOK, DurableType, SharedType, GateOK, Phases
    <2>3. TaskType' /\ FirstOK' /\ RetryOK' /\ ResultOK'
      BY Zenon, <1>3 DEF Restart, TypeOK, TaskType, FirstOK, RetryOK, ResultOK, task
    <2> QED
      BY Zenon, <2>1, <2>2, <2>3 DEF TypeOK
  <1> QED
    BY Zenon, <1>1, <1>2, <1>3

\* The broker acts: an order appears only for a submission on its way.
LEMMA BrokerStep ==
    ASSUME WorkerInv, NEW c \in Commands, BrokerExecutes(c) \/ BrokerRefuses(c) \/ BrokerMoves(c)
    PROVE  WorkerInv'
  <1> USE DEF WorkerInv
  <1>0. UNCHANGED <<durable, pc, task, queues, recon, shared, polled>>
    BY Zenon DEF BrokerExecutes, BrokerRefuses, BrokerMoves
  <1>1. DurableType' /\ TaskType' /\ QueuesType' /\ ReconType' /\ SharedType'
    BY Zenon, <1>0, TypeFrames
  <1>2. GateOK'
    BY Zenon, <1>0 DEF GateOK, durable, shared
  <1>3. BrokerType'
    BY Zenon, <1>0, WorkerAssumption
       DEF BrokerExecutes, BrokerRefuses, BrokerMoves, TypeOK, BrokerType, Orders
  <1>4. /\ \A d \in Commands : wire'[d] # wire[d] => wire[d] = "flying" /\ wire'[d] \in {"done", "refused"}
        /\ \A d \in Commands : Kind[d] = "submit" =>
              (order'[d] # "none" <=> (order[d] # "none" \/ (wire'[d] # wire[d] /\ wire'[d] = "done")))
    BY SMTT(30), WorkerAssumption DEF BrokerExecutes, BrokerRefuses, BrokerMoves, TypeOK, BrokerType
  <1>5. RecordsOK' /\ SentOK'
    <2>1. UNCHANGED <<journal, polled>>
      BY Zenon, <1>0 DEF durable
    <2>2. RecordsOK'
      BY Zenon, <2>1 DEF RecordsOK
    <2>3. SentOK'
      <3> SUFFICES ASSUME NEW d \in Commands
                   PROVE  /\ polled[d] \in {0, 1}
                          /\ journal[d].state \in {"absent", "queued"} =>
                                 polled[d] = 0 /\ wire'[d] = "none"
                          /\ Kind[d] = "submit" =>
                                /\ order'[d] # "none" <=> wire'[d] = "done"
                                /\ journal[d].outcome = "order" => wire'[d] = "done"
                                /\ journal[d].outcome \in {"declined", "cancelled_before_dispatch"} =>
                                       wire'[d] \in {"none", "refused"}
        BY Zenon, <2>1 DEF SentOK
      <3>1. CASE wire'[d] = wire[d]
        BY Zenon, <1>4, <3>1 DEF SentOK
      <3>2. CASE wire'[d] # wire[d]
        BY Zenon, <1>4, <3>2 DEF SentOK
      <3> QED
        BY Zenon, <3>1, <3>2
    <2> QED
      BY Zenon, <2>2, <2>3
  <1>6. RetryOK' /\ ResultOK'
    BY Zenon, <1>0 DEF RetryOK, ResultOK, durable, task, recon
  <1>7. FirstOK'
    BY Zenon, <1>0, <1>4 DEF FirstOK, ResultOK, durable, task
  <1> QED
    BY Zenon, <1>1, <1>2, <1>3, <1>5, <1>6, <1>7 DEF TypeOK

-----------------------------------------------------------------------------
\* The initial state satisfies the invariant.
LEMMA InitWorkerInv == Init => WorkerInv
  <1> SUFFICES ASSUME Init PROVE WorkerInv
    BY Zenon
  <1>1. DurableType /\ TaskType /\ BrokerType
    BY Zenon, WorkerAssumption
       DEF Init, Record, DurableType, TaskType, BrokerType, Records, JournalStates, Phases, Orders
  <1>2. QueuesType /\ ReconType
    <2>1. /\ entries = <<>> /\ controls = <<>> /\ parkedEntry = None /\ parkedControl = None
          /\ timers = [c \in Commands |-> 0] /\ attempts = [c \in Commands |-> 0]
      BY Zenon DEF Init
    <2>2. QueuesType
      BY SMTT(30), <2>1 DEF QueuesType
    <2>3. ReconType
      BY SMTT(30), <2>1, WorkerAssumption DEF ReconType
    <2> QED
      BY Zenon, <2>2, <2>3
  <1>3. SharedType
    <2>1. /\ events = <<>> /\ closed = FALSE /\ admitted = {}
          /\ gate = [stopped |-> FALSE, cancelled |-> {}]
          /\ stop = [requested |-> FALSE, persisted |-> FALSE]
      BY Zenon DEF Init
    <2> QED
      BY Zenon, <2>1, EventsTyped DEF SharedType
  <1> USE WorkerAssumption DEF Init, Record
  <1>4. RecordsOK /\ SentOK /\ FirstOK /\ RetryOK /\ ResultOK /\ GateOK
    BY Zenon DEF RecordsOK, SentOK, FirstOK, RetryOK, ResultOK, GateOK
  <1> QED
    BY Zenon, <1>1, <1>2, <1>3, <1>4 DEF WorkerInv, TypeOK

\* Every step keeps the invariant.
LEMMA NextWorkerInv == WorkerInv /\ [Next]_vars => WorkerInv'
  <1> SUFFICES ASSUME WorkerInv, [Next]_vars PROVE WorkerInv'
    BY Zenon
  <1>1. CASE WorkerStep
    BY Zenon, <1>1, TakeStep, TimerStep, ProofStep, PreflightStep, LaneStep, PollStep, SaveStep, StopStep
       DEF WorkerStep
  <1>2. CASE OwnerStep
    BY Zenon, <1>2, CheckpointStep, EnqueueStep, SenderStep, CompleteStopStep, StopStep DEF OwnerStep
  <1>3. CASE Environment
    BY Zenon, <1>3, LifeStep, BrokerStep DEF Environment
  <1>4. CASE UNCHANGED vars
    <2>1. TypeOK'
      BY Zenon, <1>4, TypeFrames DEF WorkerInv, TypeOK, vars
    <2>2. RecordsOK' /\ SentOK' /\ FirstOK' /\ RetryOK' /\ ResultOK'
      BY Zenon, <1>4, RecordFrame, TaskFrame DEF vars, durable, recon
    <2>3. GateOK'
      BY Zenon, <1>4 DEF WorkerInv, GateOK, vars, durable, shared
    <2> QED
      BY Zenon, <2>1, <2>2, <2>3 DEF WorkerInv
  <1> QED
    BY Zenon, <1>1, <1>2, <1>3, <1>4 DEF Next

\* The inductive invariant holds throughout.
LEMMA AlwaysWorkerInv == Spec => []WorkerInv
  BY InitWorkerInv, NextWorkerInv, PTL DEF Spec

\* The state of the worker, the journal and the channels keeps its type, and
\* reconciliations and retransmissions stay within their bounds.
THEOREM WorkerTyped == Spec => []TypeOK
  <1>1. WorkerInv => TypeOK
    BY Zenon DEF WorkerInv
  <1> QED
    BY <1>1, AlwaysWorkerInv, PTL

\* For any number of commands, crashes and restarts the transport of a
\* command's dispatch is polled at most once (mark_dispatched in `run`).
THEOREM DispatchedAtMostOnce == Spec => []AtMostOnce
  <1>1. WorkerInv => AtMostOnce
    BY SMTT(30) DEF WorkerInv, SentOK, AtMostOnce
  <1> QED
    BY <1>1, AlwaysWorkerInv, PTL

\* The journal's word about a submit is true at the broker, whatever answers
\* are lost and wherever the process dies.
THEOREM JournalIsTrue == Spec => []JournalTellsTruth
  <1>1. WorkerInv => JournalTellsTruth
    BY SMTT(20) DEF WorkerInv, TypeOK, DurableType, Records, JournalStates, RecordsOK, SentOK, JournalTellsTruth
  <1> QED
    BY <1>1, AlwaysWorkerInv, PTL

\* No journal transition that `run` asks for is refused.
THEOREM JournalNeverRefuses == Spec => []JournalAccepts
  <1>1. WorkerInv => JournalAccepts
    BY Zenon DEF WorkerInv, RecordsOK, FirstOK, RetryOK, ResultOK, JournalAccepts, CanMarkDispatched,
           CanDeferUnpolledDispatch, CanComplete, CanFinishCancellationRecovery, StillAmbiguous
  <1> QED
    BY <1>1, AlwaysWorkerInv, PTL

-----------------------------------------------------------------------------
(***************************************************************************)
(* What a step may never do.                                               *)
(***************************************************************************)
\* Only PollStarts hands a command's own dispatch to the broker.
LEMMA OnlyPollStarts ==
    ASSUME [Next]_vars, polled' # polled
    PROVE  PollStarts
  <1>1. CASE WorkerStep
    BY Zenon, <1>1 DEF WorkerStep, TakeCompleted, TakeForProof, TakePrepared, TimerSettled, TimerCancel,
        TimerSubmit, ProofSeen, ProofFound, NoProof, PreflightDecides, PreflightFresh, PreflightStale,
        PreflightChanged, LaneClosed, LaneStop, LaneYield, LaneHostBusy, LaneDispatch, LaneRetry,
        PollRefused, UnpolledDecided, UnpolledStale, UnpolledChanged, Answered, SaveCompletion,
        SaveRecovery, Settle, Deliver, Leave, StopSaved, broker
  <1>2. CASE OwnerStep
    BY Zenon, <1>2 DEF OwnerStep, ServeCheckpoint, TryEnqueue, CancelPendingEntry, ReleaseEntryIdentity,
        ServeCompleteStop, StopEntries, RequestExecutionStop, Receive, CloseEvents,
        StopSavedAfterExit, broker
  <1>3. CASE Environment
    BY Zenon, <1>3 DEF Environment, WorkerFails, Crash, Restart, BrokerExecutes, BrokerRefuses, BrokerMoves,
        broker
  <1>4. CASE UNCHANGED vars
    BY Zenon, <1>4 DEF vars, broker
  <1> QED
    BY Zenon, <1>1, <1>2, <1>3, <1>4 DEF Next

\* Once a stop is saved, no later poll of this epoch carries an entry: the gate
\* is shut in every process that runs while the phase is not "running".
THEOREM StopIsFinal == Spec => NoEntryAfterStop
  <1>1. WorkerInv /\ [Next]_vars =>
            [\A c \in Commands : Entry(c) /\ polled'[c] # polled[c] => phase = "running"]_vars
    <2> SUFFICES ASSUME WorkerInv, [Next]_vars, NEW c \in Commands, Entry(c), polled'[c] # polled[c]
                 PROVE  phase = "running"
      BY Zenon
    <2>1. PollStarts
      BY Zenon, OnlyPollStarts
    <2>2. c = cmd
      BY Zenon, <2>1 DEF PollStarts, WorkerInv, TypeOK, BrokerType
    <2>3. ~gate.stopped /\ pc # "down"
      BY Zenon, <2>1, <2>2 DEF PollStarts, CancelsEntry
    <2> QED
      BY Zenon, <2>3 DEF WorkerInv, GateOK
  <1> QED
    BY <1>1, AlwaysWorkerInv, PTL DEF Spec, NoEntryAfterStop

Final(c) ==
    /\ journal[c].outcome \in Definite => journal'[c].outcome = journal[c].outcome
    /\ journal[c].state = "applied" => journal'[c] = journal[c]
    /\ journal[c].outcome # "none" => journal'[c].outcome # "none"

\* The steps that save a record, and what they make of it.
LEMMA WorkerKeepsFinal ==
    ASSUME WorkerInv, NEW c \in Commands, WorkerStep
    PROVE  Final(c)
  <1> USE DEF WorkerInv, Final
  <1>1. ASSUME NEW d \in Commands, TakeCompleted(d)
        PROVE  Final(c)
    <2>1. journal[d].outcome \in Outcomes /\ journal[d].state \in {"completed", "applied"}
      BY Zenon, <1>1 DEF TakeCompleted, TypeOK, DurableType, Records, RecordsOK, JournalStates
    <2>2. PICK outcome \in Reconciled(d, journal[d].outcome) :
              SaveReconciled(d, journal[d].outcome, outcome)
      BY Zenon, <1>1 DEF TakeCompleted
    <2>3. CASE outcome = journal[d].outcome
      BY Zenon, <2>2, <2>3 DEF SaveReconciled
    <2>4. CASE outcome # journal[d].outcome
      BY SMTT(30), <2>1, <2>2, <2>4
         DEF Reconciled, SaveReconciled, ConfirmAmbiguousSubmission, Record, Save, RecordsOK, TypeOK,
             DurableType, Definite
    <2> QED
      BY Zenon, <2>3, <2>4
  <1>2. ASSUME NEW d \in Commands, TakePrepared(d)
        PROVE  Final(c)
    BY Zenon, <1>2, SMTT(20) DEF TakePrepared, Save, Prepare, RecordsOK, TypeOK, DurableType, Definite
  <1>3. ASSUME NEW d \in Commands, TimerSubmit(d)
        PROVE  Final(c)
    BY SMTT(30), <1>3 DEF TimerSubmit, StillAmbiguous, ConfirmAmbiguousSubmission, Record, Save, TypeOK,
                DurableType, Definite
  <1>4. CASE LaneDispatch
    BY Zenon, <1>4 DEF LaneDispatch, CanMarkDispatched, Save, RecordsOK, TypeOK, DurableType, Definite
  <1>5. CASE UnpolledDecided \/ UnpolledStale \/ UnpolledChanged
    BY Zenon, <1>5 DEF UnpolledDecided, UnpolledStale, UnpolledChanged, UnpolledJournal,
                CanDeferUnpolledDispatch, Save, TypeOK, DurableType, Definite
  <1>6. CASE SaveCompletion
    BY Zenon, <1>6 DEF SaveCompletion, CanComplete, Save, TypeOK, DurableType, Definite
  <1>7. CASE SaveRecovery
    BY Zenon, <1>7 DEF SaveRecovery, FinishCancellationRecovery, StillAmbiguous, Record, Save, TypeOK,
                DurableType, Definite
  <1>8. CASE Settle
    BY SMTT(30), <1>8 DEF Settle, Reconciled, SaveReconciled, ConfirmAmbiguousSubmission, Record, ResultOK, Save,
                TypeOK, DurableType, Definite
  <1>9. CASE UNCHANGED journal
    BY Zenon, <1>9
  <1> QED
    BY ZenonT(30), <1>1, <1>2, <1>3, <1>4, <1>5, <1>6, <1>7, <1>8, <1>9
       DEF WorkerStep, TakeForProof, TimerSettled, TimerCancel, ProofSeen, ProofFound, NoProof,
           PreflightDecides, PreflightFresh, PreflightStale, PreflightChanged, LaneClosed, LaneStop,
           LaneYield, LaneHostBusy, LaneRetry, PollRefused, PollStarts, Answered, Deliver, Leave,
           StopSaved, durable
\* No step of any actor replaces a conclusive result.
LEMMA StepKeepsFinal ==
    ASSUME WorkerInv, [Next]_vars, NEW c \in Commands
    PROVE  Final(c)
  <1> USE DEF Final
  <1>1. CASE WorkerStep
    BY Zenon, <1>1, WorkerKeepsFinal
  <1>2. CASE UNCHANGED journal
    BY Zenon, <1>2
  <1>3. ASSUME NEW intents, NEW applied, NEW settled, ServeCheckpoint(intents, applied, settled)
        PROVE  Final(c)
    BY Zenon, <1>3 DEF ServeCheckpoint, Prepare, Apply, Record, WorkerInv, RecordsOK, TypeOK, DurableType,
                Definite
  <1> QED
    BY Zenon, <1>1, <1>2, <1>3
       DEF Next, OwnerStep, TryEnqueue, CancelPendingEntry, ReleaseEntryIdentity, ServeCompleteStop,
           StopEntries, RequestExecutionStop, Receive, CloseEvents, StopSavedAfterExit, Environment,
           WorkerFails, Crash, Restart, BrokerExecutes, BrokerRefuses, BrokerMoves, vars, durable

\* A definite outcome and an applied record never change, in spite of retries,
\* replays after a restart and the two ways an uncertain record is settled.
THEOREM OutcomesAreFinal == Spec => OutcomeIsFinal
  <1>1. WorkerInv /\ [Next]_vars =>
            [\A c \in Commands :
                /\ journal[c].outcome \in Definite => journal'[c].outcome = journal[c].outcome
                /\ journal[c].state = "applied" => journal'[c] = journal[c]]_vars
    BY Zenon, StepKeepsFinal DEF Final
  <1> QED
    BY <1>1, AlwaysWorkerInv, PTL DEF Spec, OutcomeIsFinal

\* What the owner reads from the completion channel is what the journal holds.
THEOREM DeliveriesAreSaved == Spec => []DeliveredIsSaved
  <1>1. Init => DeliveredIsSaved
    <2>1. Init => events = <<>>
      BY Zenon DEF Init
    <2>2. events = <<>> => DeliveredIsSaved
      BY SMTT(30) DEF DeliveredIsSaved
    <2> QED
      BY Zenon, <2>1, <2>2
  <1>2. WorkerInv /\ DeliveredIsSaved /\ [Next]_vars => DeliveredIsSaved'
    <2> SUFFICES ASSUME WorkerInv, DeliveredIsSaved, [Next]_vars,
                        NEW i \in DOMAIN events', events'[i][2] # "ambiguous"
                 PROVE  journal'[events'[i][1]].outcome = events'[i][2]
      BY Zenon DEF DeliveredIsSaved
    <2>0. events \in Seq(Commands \X Outcomes)
      BY Zenon DEF WorkerInv, TypeOK, SharedType
    <2>1. ASSUME NEW j \in DOMAIN events, events'[i] = events[j]
          PROVE  journal'[events'[i][1]].outcome = events'[i][2]
      BY SMTT(30), <2>0, <2>1, StepKeepsFinal DEF DeliveredIsSaved, Final, Outcomes
    <2>2. CASE events' = events
      BY Zenon, <2>1, <2>2
    <2>3. CASE Receive
      BY SMTT(30), <2>0, <2>1, <2>3 DEF Receive
    <2>4. CASE Crash
      <3>1. events' = <<>>
        BY Zenon, <2>4 DEF Crash
      <3> QED
        BY SMTT(30), <3>1
    <2>5. CASE Deliver
      <3>1. CASE i \in DOMAIN events
        BY SMTT(30), <2>0, <2>1, <2>5, <3>1 DEF Deliver
      <3>2. CASE i \notin DOMAIN events
        BY SMTT(30), <2>0, <2>5, <3>2 DEF Deliver, WorkerInv, ResultOK, durable
      <3> QED
        BY Zenon, <3>1, <3>2
    <2> QED
      BY ZenonT(30), <2>2, <2>3, <2>4, <2>5
         DEF Next, WorkerStep, TakeCompleted, TakeForProof, TakePrepared, TimerSettled, TimerCancel,
             TimerSubmit, ProofSeen, ProofFound, NoProof, PreflightDecides, PreflightFresh,
             PreflightStale, PreflightChanged, LaneClosed, LaneStop, LaneYield, LaneHostBusy,
             LaneDispatch, LaneRetry, PollRefused, PollStarts, UnpolledDecided, UnpolledStale,
             UnpolledChanged, Answered, SaveCompletion, SaveRecovery, Settle, Leave, StopSaved,
             OwnerStep, ServeCheckpoint, TryEnqueue, CancelPendingEntry, ReleaseEntryIdentity,
             ServeCompleteStop, StopEntries, RequestExecutionStop, CloseEvents, StopSavedAfterExit,
             Environment, WorkerFails, Restart, BrokerExecutes, BrokerRefuses, BrokerMoves, vars, shared
  <1> QED
    BY <1>1, <1>2, AlwaysWorkerInv, PTL DEF Spec

(***************************************************************************)
(* Where the worker keeps the commands it accepted.                        *)
(***************************************************************************)
Kept == Range(entries) \union Range(controls) \union {parkedEntry, parkedControl, cmd}

\* The places share no command, and each class of commands has its own.
ApartOK ==
    /\ IsInjective(entries) /\ IsInjective(controls)
    /\ \A c \in Range(entries) : c \in Commands /\ ~Teardown(c) /\ c # parkedEntry /\ c # cmd
    /\ \A c \in Range(controls) : c \in Commands /\ Teardown(c) /\ c # parkedControl /\ c # cmd
    /\ parkedEntry # None => ~Teardown(parkedEntry) /\ parkedEntry # cmd
    /\ parkedControl # None => Teardown(parkedControl) /\ parkedControl # cmd

\* A command that may still be put back finds the slot of its class empty.
InHand == pc \in {"proofread", "preflight", "lane", "poll", "unpolled"}
SlotOK ==
    InHand => /\ Teardown(cmd) => parkedControl = None
              /\ ~Teardown(cmd) => parkedEntry = None

\* A command waits for its reconciliation timer only after it had a result, and
\* no longer in a channel.
TimersOK ==
    \A c \in Commands : timers[c] > 0 =>
        /\ c \in admitted /\ journal[c].outcome # "none"
        /\ c \notin Range(entries) /\ c \notin Range(controls) /\ c # parkedEntry

\* What is kept was accepted, and what was accepted is kept until it has a result.
HeldOK ==
    /\ \A c \in Kept : c \in admitted \/ c = None
    /\ pc = "down" => admitted = {}
    /\ pc = "deliver" => journal[cmd].outcome # "none"
    /\ Up => \A c \in admitted : journal[c].outcome = "none" => c \in Kept

PlacesInv == ApartOK /\ SlotOK /\ TimersOK /\ HeldOK

OutcomesStay == \A c \in Commands : journal[c].outcome # "none" => journal'[c].outcome # "none"

\* A command with a timer keeps it, or got it from the step that settled it.
TimersFor(c) ==
    \A d \in Commands : timers'[d] > 0 => timers[d] > 0 \/ (d = c /\ journal'[c].outcome # "none")

\* Steps that move no command between places.
LEMMA PlacesFrame ==
    ASSUME WorkerInv, PlacesInv, OutcomesStay, UNCHANGED <<queues, cmd, admitted>>, TimersFor(cmd),
           pc' = "down" => pc = "down", Up' => Up \/ pc = "down", InHand' => InHand,
           pc' = "deliver" => pc = "deliver" \/ journal'[cmd].outcome # "none"
    PROVE  PlacesInv'
  <1>0. UNCHANGED <<entries, controls, parkedEntry, parkedControl, cmd, admitted>>
    BY Zenon DEF queues
  <1>1. admitted \subseteq Commands /\ (pc = "deliver" => cmd \in Commands)
    BY Zenon DEF WorkerInv, TypeOK, SharedType, ResultOK
  <1>2. ApartOK' /\ SlotOK'
    BY Zenon, <1>0 DEF PlacesInv, ApartOK, SlotOK
  <1>3. TimersOK'
    BY Zenon, <1>0, <1>1, WorkerAssumption DEF PlacesInv, ApartOK, TimersOK, HeldOK, Kept, TimersFor, OutcomesStay
  <1>4. Kept' = Kept
    BY Zenon, <1>0 DEF Kept
  <1>5. HeldOK'
    BY Zenon, <1>0, <1>1, <1>4 DEF PlacesInv, HeldOK, OutcomesStay
  <1> QED
    BY Zenon, <1>2, <1>3, <1>5 DEF PlacesInv

\* Steps that drop the command in hand: it has a result, or the task ends.
LEMMA PutDown ==
    ASSUME WorkerInv, PlacesInv, OutcomesStay, UNCHANGED <<queues, timers, admitted>>, cmd' = None,
           pc' \in {"idle", "exited"},
           pc' = "idle" => Up /\ cmd \in Commands /\ journal'[cmd].outcome # "none"
    PROVE  PlacesInv'
  <1>0. UNCHANGED <<entries, controls, parkedEntry, parkedControl, timers, admitted>>
    BY Zenon DEF queues
  <1>1. admitted \subseteq Commands
    BY Zenon DEF WorkerInv, TypeOK, SharedType
  <1>2. ApartOK' /\ SlotOK'
    BY Zenon, <1>0, WorkerAssumption DEF PlacesInv, ApartOK, SlotOK, InHand
  <1>3. TimersOK'
    BY Zenon, <1>0 DEF PlacesInv, TimersOK, OutcomesStay
  <1>4. \A c \in Kept' : c \in Kept \/ c = None
    BY Zenon, <1>0 DEF Kept
  <1>5. \A c \in Kept : c # cmd => c \in Kept'
    BY Zenon, <1>0 DEF Kept
  <1>6. HeldOK'
    BY Zenon, <1>0, <1>1, <1>4, <1>5 DEF PlacesInv, HeldOK, OutcomesStay, Up
  <1> QED
    BY Zenon, <1>2, <1>3, <1>6 DEF PlacesInv

\* An entry or an amendment in hand has no result yet.
LEMMA FreshInHand ==
    ASSUME WorkerInv, InHand, ~Teardown(cmd)
    PROVE  cmd \in Commands /\ journal[cmd].outcome = "none"
  <1>1. cmd \in Commands
    BY Zenon DEF WorkerInv, ResultOK, InHand
  <1>2. ~retry /\ pc # "proofread"
    BY Zenon DEF WorkerInv, RetryOK, InHand, Teardown, IsTeardown
  <1> QED
    BY Zenon, <1>1, <1>2 DEF WorkerInv, FirstOK, RecordsOK, InHand

\* Putting the command in hand back finds its slot empty.
LEMMA ParkPlaces ==
    ASSUME WorkerInv, PlacesInv, OutcomesStay, InHand, Park, UNCHANGED <<timers, admitted>>
    PROVE  PlacesInv'
  <1>0. /\ UNCHANGED <<entries, controls, timers, admitted>> /\ cmd' = None /\ pc' = "idle"
        /\ Teardown(cmd) => parkedControl' = cmd /\ parkedEntry' = parkedEntry
        /\ ~Teardown(cmd) => parkedEntry' = cmd /\ parkedControl' = parkedControl
    BY Zenon DEF Park, GoIdle
  <1>1. admitted \subseteq Commands /\ cmd \in Commands /\ Up
    BY Zenon DEF WorkerInv, TypeOK, SharedType, ResultOK, InHand, Up
  <1>2. ApartOK' /\ SlotOK'
    BY Zenon, <1>0, <1>1, WorkerAssumption DEF PlacesInv, ApartOK, SlotOK, InHand
  <1>3. TimersOK'
    BY Zenon, <1>0, <1>1, FreshInHand DEF PlacesInv, TimersOK, OutcomesStay
  <1>4. \A c \in Kept' : c \in Kept \/ c = None
    BY Zenon, <1>0 DEF Kept
  <1>5. \A c \in Kept : c # None => c \in Kept'
    BY Zenon, <1>0, <1>1 DEF Kept, PlacesInv, SlotOK
  <1>6. HeldOK'
    BY Zenon, <1>0, <1>1, <1>4, <1>5, WorkerAssumption DEF PlacesInv, HeldOK, OutcomesStay, Up
  <1> QED
    BY Zenon, <1>2, <1>3, <1>6 DEF PlacesInv

\* Taking the first element of a channel without repetitions removes it.
LEMMA TailRange ==
    ASSUME NEW q \in Seq(Commands), q # <<>>, IsInjective(q)
    PROVE  /\ Head(q) \in Range(q) /\ IsInjective(Tail(q))
           /\ \A c : c \in Range(Tail(q)) <=> c \in Range(q) /\ c # Head(q)
  <1>1. /\ DOMAIN q = 1..Len(q) /\ Len(q) \in Nat /\ Len(q) > 0 /\ Head(q) = q[1]
        /\ DOMAIN Tail(q) = 1..(Len(q) - 1) /\ \A i \in 1..(Len(q) - 1) : Tail(q)[i] = q[i + 1]
    BY SMTT(30)
  <1>2. Head(q) \in Range(q)
    BY SMTT(30), <1>1 DEF Range
  <1>3. IsInjective(Tail(q))
    BY SMTT(30), <1>1 DEF IsInjective
  <1>4. ASSUME NEW c, c \in Range(Tail(q)) PROVE c \in Range(q) /\ c # Head(q)
    <2>1. PICK i \in 1..(Len(q) - 1) : c = q[i + 1]
      BY Zenon, <1>1, <1>4 DEF Range
    <2>2. i + 1 \in DOMAIN q /\ 1 \in DOMAIN q /\ i + 1 # 1
      BY SMTT(30), <1>1
    <2> QED
      BY Zenon, <1>1, <2>1, <2>2 DEF Range, IsInjective
  <1>5. ASSUME NEW c, c \in Range(q), c # Head(q) PROVE c \in Range(Tail(q))
    <2>1. PICK i \in 1..Len(q) : c = q[i]
      BY Zenon, <1>1, <1>5 DEF Range
    <2>2. i - 1 \in 1..(Len(q) - 1) /\ Tail(q)[i - 1] = c
      BY SMTT(30), <1>1, <1>5, <2>1
    <2> QED
      BY Zenon, <1>1, <2>2 DEF Range
  <1> QED
    BY Zenon, <1>2, <1>3, <1>4, <1>5

\* Appending a command that is not there keeps a channel free of repetitions.
LEMMA AppendRange ==
    ASSUME NEW q \in Seq(Commands), NEW c \in Commands, c \notin Range(q), IsInjective(q)
    PROVE  /\ IsInjective(Append(q, c))
           /\ \A d : d \in Range(Append(q, c)) <=> d \in Range(q) \/ d = c
  <1>1. /\ DOMAIN q = 1..Len(q) /\ Len(q) \in Nat
        /\ DOMAIN Append(q, c) = 1..(Len(q) + 1)
        /\ \A i \in 1..Len(q) : Append(q, c)[i] = q[i]
        /\ Append(q, c)[Len(q) + 1] = c
    BY SMTT(30)
  <1>2. \A i \in 1..Len(q) : q[i] # c
    BY Zenon, <1>1 DEF Range
  <1>3. IsInjective(Append(q, c))
    <2> SUFFICES ASSUME NEW i \in 1..(Len(q) + 1), NEW j \in 1..(Len(q) + 1),
                        Append(q, c)[i] = Append(q, c)[j]
                 PROVE  i = j
      BY Zenon, <1>1 DEF IsInjective
    <2>1. (i \in 1..Len(q) \/ i = Len(q) + 1) /\ (j \in 1..Len(q) \/ j = Len(q) + 1)
      BY SMTT(30), <1>1
    <2> QED
      BY Zenon, <1>1, <1>2, <2>1 DEF IsInjective
  <1>4. ASSUME NEW d, d \in Range(Append(q, c)) PROVE d \in Range(q) \/ d = c
    <2>1. PICK i \in 1..(Len(q) + 1) : d = Append(q, c)[i]
      BY Zenon, <1>1, <1>4 DEF Range
    <2>2. i \in 1..Len(q) \/ i = Len(q) + 1
      BY SMTT(30), <1>1
    <2> QED
      BY Zenon, <1>1, <2>1, <2>2 DEF Range
  <1>5. ASSUME NEW d, d \in Range(q) \/ d = c PROVE d \in Range(Append(q, c))
    <2>1. CASE d = c
      BY SMTT(30), <1>1, <2>1 DEF Range
    <2>2. CASE d \in Range(q)
      <3>1. PICK i \in 1..Len(q) : d = q[i]
        BY Zenon, <1>1, <2>2 DEF Range
      <3>2. i \in 1..(Len(q) + 1) /\ d = Append(q, c)[i]
        BY SMTT(30), <1>1, <3>1
      <3> QED
        BY Zenon, <1>1, <3>2 DEF Range
    <2> QED
      BY Zenon, <1>5, <2>1, <2>2
  <1> QED
    BY Zenon, <1>3, <1>4, <1>5

\* A command that is taken leaves its place, and the slot of its class is empty.
Removed(c) ==
    /\ IsInjective(entries') /\ IsInjective(controls')
    /\ \A d : d \in Range(entries') => d \in Range(entries) /\ d # c
    /\ \A d : d \in Range(controls') => d \in Range(controls) /\ d # c
    /\ parkedEntry' = None \/ (parkedEntry' = parkedEntry /\ parkedEntry # c)
    /\ parkedControl' = None \/ (parkedControl' = parkedControl /\ parkedControl # c)
    /\ Teardown(c) => parkedControl' = None
    /\ ~Teardown(c) => parkedEntry' = None
    /\ c \in admitted
    /\ \A d \in Kept : d = None \/ d = c \/ d \in Range(entries') \union Range(controls')
                                              \union {parkedEntry', parkedControl'}
\* Taking a command from any of its four sources removes it there.
LEMMA TakenRemoves ==
    ASSUME WorkerInv, PlacesInv, NEW c \in Commands, Taken(c)
    PROVE  Removed(c)
  <1>0. /\ entries \in Seq(Commands) /\ controls \in Seq(Commands)
        /\ cmd = None /\ c # None
    BY Zenon, WorkerAssumption DEF WorkerInv, TypeOK, QueuesType, TaskType, ResultOK, Taken
  <1>1. CASE parkedControl = c /\ parkedControl' = None /\ UNCHANGED <<entries, controls, parkedEntry>>
    BY Zenon, <1>0, <1>1 DEF Removed, PlacesInv, ApartOK, HeldOK, Kept
  <1>2. CASE /\ parkedControl = None /\ controls # <<>> /\ c = Head(controls)
             /\ controls' = Tail(controls) /\ UNCHANGED <<entries, parkedEntry, parkedControl>>
    <2>1. /\ c \in Range(controls) /\ IsInjective(controls')
          /\ \A d : d \in Range(controls') <=> d \in Range(controls) /\ d # c
      BY Zenon, <1>0, <1>2, TailRange DEF PlacesInv, ApartOK
    <2> QED
      BY Zenon, <1>0, <1>2, <2>1 DEF Removed, PlacesInv, ApartOK, HeldOK, Kept
  <1>3. CASE parkedEntry = c /\ parkedEntry' = None /\ UNCHANGED <<entries, controls, parkedControl>>
    BY Zenon, <1>0, <1>3 DEF Removed, PlacesInv, ApartOK, HeldOK, Kept
  <1>4. CASE /\ parkedEntry = None /\ entries # <<>> /\ c = Head(entries)
             /\ entries' = Tail(entries) /\ UNCHANGED <<controls, parkedEntry, parkedControl>>
    <2>1. /\ c \in Range(entries) /\ IsInjective(entries')
          /\ \A d : d \in Range(entries') <=> d \in Range(entries) /\ d # c
      BY Zenon, <1>0, <1>4, TailRange DEF PlacesInv, ApartOK
    <2> QED
      BY Zenon, <1>0, <1>4, <2>1 DEF Removed, PlacesInv, ApartOK, HeldOK, Kept
  <1> QED
    BY Zenon, <1>1, <1>2, <1>3, <1>4 DEF Taken

\* Steps that take a command in hand.
LEMMA TakenPlaces ==
    ASSUME WorkerInv, PlacesInv, OutcomesStay, NEW c \in Commands, Taken(c), cmd' = c,
           UNCHANGED admitted, TimersFor(c), pc' \in {"proofread", "preflight", "deliver"},
           pc' = "deliver" => journal'[c].outcome # "none"
    PROVE  PlacesInv'
  <1>0. Removed(c) /\ c # None /\ admitted \subseteq Commands /\ Up
    BY Zenon, TakenRemoves, WorkerAssumption DEF WorkerInv, TypeOK, SharedType, Taken, Up
  <1>1. ApartOK'
    BY Zenon, <1>0, WorkerAssumption DEF PlacesInv, ApartOK, Removed
  <1>2. SlotOK'
    BY Zenon, <1>0 DEF SlotOK, Removed
  <1>3. TimersOK'
    BY Zenon, <1>0, WorkerAssumption DEF PlacesInv, TimersOK, TimersFor, OutcomesStay, Removed
  <1>4. \A d \in Kept' : d \in Kept \/ d = c \/ d = None
    BY Zenon, <1>0 DEF Kept, Removed
  <1>5. \A d \in Kept : d = None \/ d \in Kept'
    BY Zenon, <1>0 DEF Kept, Removed
  <1>6. c \in admitted
    BY Zenon, <1>0 DEF Removed
  <1>7. HeldOK'
    BY Zenon, <1>0, <1>4, <1>5, <1>6, WorkerAssumption DEF PlacesInv, HeldOK, OutcomesStay, Up
  <1> QED
    BY Zenon, <1>1, <1>2, <1>3, <1>7 DEF PlacesInv

\* A new timer is the one of the command that was just settled.
LEMMA TimersFollow ==
    ASSUME TypeOK, NEW c \in Commands
    PROVE  /\ \A d \in Commands : Schedule(c)[d] > 0 => timers[d] > 0 \/ d = c
           /\ timers[c] > 0 => \A d \in Commands : Reschedule(c)[d] > 0 => timers[d] > 0
           /\ \A d \in Commands : [timers EXCEPT ![c] = 0][d] > 0 => timers[d] > 0
  BY SMTT(30) DEF TypeOK, ReconType, Schedule, Reschedule

\* Taking a command, with or without a result.
LEMMA TakePlaces ==
    ASSUME WorkerInv, PlacesInv, OutcomesStay, NEW c \in Commands,
           TakeCompleted(c) \/ TakeForProof(c) \/ TakePrepared(c)
    PROVE  PlacesInv'
  <1>1. CASE TakeCompleted(c)
    <2>1. PICK outcome : ScheduleIfAmbiguous(c, outcome, attempts) /\ GoTo("deliver", c, outcome)
      BY Zenon, <1>1 DEF TakeCompleted
    <2>2. Taken(c) /\ UNCHANGED admitted /\ journal'[c].outcome # "none"
      BY Zenon, <1>1 DEF TakeCompleted, shared, OutcomesStay
    <2>3. TimersFor(c)
      BY Zenon, <2>1, <2>2, TimersFollow DEF WorkerInv, ScheduleIfAmbiguous, TimersFor
    <2> QED
      BY Zenon, <2>1, <2>2, <2>3, TakenPlaces DEF GoTo
  <1>2. CASE TakeForProof(c)
    <2>1. /\ Taken(c) /\ UNCHANGED <<admitted, timers>> /\ cmd' = c /\ pc' = "proofread"
      BY Zenon, <1>2 DEF TakeForProof, GoTo, shared, recon
    <2>2. TimersFor(c)
      BY Zenon, <2>1 DEF TimersFor
    <2> QED
      BY Zenon, <2>1, <2>2, TakenPlaces
  <1>3. CASE TakePrepared(c)
    <2>1. /\ Taken(c) /\ UNCHANGED <<admitted, timers>> /\ cmd' = c /\ pc' = "preflight"
      BY Zenon, <1>3 DEF TakePrepared, shared, recon
    <2>2. TimersFor(c)
      BY Zenon, <2>1 DEF TimersFor
    <2> QED
      BY Zenon, <2>1, <2>2, TakenPlaces
  <1> QED
    BY Zenon, <1>1, <1>2, <1>3

\* A timer that fires gives up, or brings its command back into hand or into the
\* control slot, where no other copy of it can be.
LEMMA TimerPlaces ==
    ASSUME WorkerInv, PlacesInv, OutcomesStay, NEW c \in Commands,
           TimerSettled(c) \/ TimerCancel(c) \/ TimerSubmit(c)
    PROVE  PlacesInv'
  <1>0. /\ pc = "idle" /\ timers[c] > 0 /\ UNCHANGED <<entries, controls, parkedEntry, admitted>>
        /\ cmd = None /\ c # None /\ admitted \subseteq Commands
    BY Zenon, WorkerAssumption DEF WorkerInv, TypeOK, TaskType, SharedType, ResultOK, TimerSettled, TimerCancel,
                            TimerSubmit, queues, shared
  <1>1. /\ c \in admitted /\ journal[c].outcome # "none"
        /\ c \notin Range(entries) /\ c \notin Range(controls) /\ c # parkedEntry
    BY Zenon, <1>0 DEF PlacesInv, TimersOK
  <1>2. \A d \in Commands : timers'[d] > 0 => timers[d] > 0
    BY Zenon, <1>0, TimersFollow DEF WorkerInv, TimerSettled, TimerCancel, TimerSubmit
  <1>3. CASE UNCHANGED <<pc, cmd, queues>>
    BY Zenon, <1>0, <1>2, <1>3, PlacesFrame DEF TimersFor, Up, InHand
  <1>4. CASE TimerCancel(c) /\ parkedControl = None
    <2>1. parkedControl' = c /\ UNCHANGED <<pc, cmd>> /\ Teardown(c)
      BY Zenon, <1>4 DEF TimerCancel, task, Teardown, IsTeardown
    <2>2. ApartOK' /\ SlotOK'
      BY Zenon, <1>0, <1>1, <2>1 DEF PlacesInv, ApartOK, SlotOK, InHand
    <2>3. TimersOK'
      BY Zenon, <1>0, <1>2 DEF PlacesInv, TimersOK, OutcomesStay
    <2>4. (\A d \in Kept' : d \in Kept \/ d = c) /\ (\A d \in Kept : d \in Kept' \/ d = None)
      BY Zenon, <1>0, <1>4, <2>1 DEF Kept
    <2>5. HeldOK'
      BY ZenonT(30), <1>0, <1>1, <2>1, <2>4, WorkerAssumption DEF PlacesInv, HeldOK, OutcomesStay, Up
    <2> QED
      BY Zenon, <2>2, <2>3, <2>5 DEF PlacesInv
  <1>5. CASE TimerSubmit(c) /\ cmd' = c /\ pc' = "deliver"
    <2>1. UNCHANGED parkedControl /\ ~Teardown(c)
      BY Zenon, <1>5 DEF TimerSubmit, queues, Teardown, IsTeardown
    <2>2. ApartOK' /\ SlotOK'
      BY Zenon, <1>0, <1>1, <1>5, <2>1 DEF PlacesInv, ApartOK, SlotOK, InHand
    <2>3. TimersOK'
      BY Zenon, <1>0, <1>2 DEF PlacesInv, TimersOK, OutcomesStay
    <2>4. (\A d \in Kept' : d \in Kept \/ d = c) /\ (\A d \in Kept : d \in Kept' \/ d = None)
      BY Zenon, <1>0, <1>5, <2>1 DEF Kept
    <2>5. HeldOK'
      BY Zenon, <1>0, <1>1, <1>5, <2>4, WorkerAssumption DEF PlacesInv, HeldOK, OutcomesStay, Up
    <2> QED
      BY Zenon, <2>2, <2>3, <2>5 DEF PlacesInv
  <1> QED
    BY Zenon, <1>3, <1>4, <1>5 DEF TimerSettled, TimerCancel, TimerSubmit, GoTo, task, queues

\* Cleanup overtakes the entry in hand: one slot for each of the two.
LEMMA YieldPlaces ==
    ASSUME WorkerInv, PlacesInv, OutcomesStay, LaneYield
    PROVE  PlacesInv'
  <1> DEFINE h == Head(controls)
  <1>0. /\ UNCHANGED <<entries, timers, admitted>> /\ cmd' = None /\ pc' = "idle" /\ pc = "lane"
        /\ ~Teardown(cmd) /\ parkedControl = None /\ parkedControl' = h /\ parkedEntry' = cmd
        /\ controls # <<>> /\ controls' = Tail(controls)
    BY Zenon DEF LaneYield, GoIdle, recon, shared
  <1>1. cmd \in Commands /\ InHand /\ controls \in Seq(Commands) /\ admitted \subseteq Commands
    BY Zenon, <1>0 DEF WorkerInv, TypeOK, QueuesType, SharedType, ResultOK, InHand
  <1>2. /\ h \in Range(controls) /\ IsInjective(controls')
        /\ \A d : d \in Range(controls') <=> d \in Range(controls) /\ d # h
    BY Zenon, <1>0, <1>1, TailRange DEF PlacesInv, ApartOK
  <1>3. journal[cmd].outcome = "none"
    BY Zenon, <1>0, <1>1, FreshInHand
  <1> HIDE DEF h
  <1>4. ApartOK' /\ SlotOK'
    BY Zenon, <1>0, <1>1, <1>2, WorkerAssumption DEF PlacesInv, ApartOK, SlotOK, InHand
  <1>5. TimersOK'
    BY Zenon, <1>0, <1>1, <1>2, <1>3 DEF PlacesInv, TimersOK, OutcomesStay
  <1>6. parkedEntry = None
    BY Zenon, <1>0, <1>1 DEF PlacesInv, SlotOK
  <1>7. (\A d \in Kept' : d \in Kept \/ d = None) /\ (\A d \in Kept : d \in Kept' \/ d = None)
    BY Zenon, <1>0, <1>2, <1>6 DEF Kept
  <1>8. HeldOK'
    BY Zenon, <1>0, <1>1, <1>7, WorkerAssumption DEF PlacesInv, HeldOK, OutcomesStay, Up
  <1> QED
    BY Zenon, <1>4, <1>5, <1>8 DEF PlacesInv

\* Accepting a command that was not accepted before.
LEMMA EnqueuePlaces ==
    ASSUME WorkerInv, PlacesInv, OutcomesStay, NEW c \in Commands, NEW prepared,
           c \notin admitted, TryEnqueue(c, prepared)
    PROVE  PlacesInv'
  <1>0. /\ Up /\ Up' /\ UNCHANGED <<pc, cmd, parkedEntry, parkedControl, timers>>
        /\ admitted' = admitted \union {c}
        /\ Teardown(c) => controls' = Append(controls, c) /\ entries' = entries
        /\ ~Teardown(c) => entries' = Append(entries, c) /\ controls' = controls
    BY Zenon DEF TryEnqueue, task, recon, Up
  <1>1. /\ entries \in Seq(Commands) /\ controls \in Seq(Commands) /\ admitted \subseteq Commands
        /\ c # None /\ (pc = "deliver" => cmd \in Commands)
    BY Zenon, WorkerAssumption DEF WorkerInv, TypeOK, QueuesType, SharedType, ResultOK
  <1>2. c \notin Kept /\ c \notin Range(entries) /\ c \notin Range(controls)
    BY Zenon, <1>1 DEF PlacesInv, HeldOK, Kept
  <1>3. /\ IsInjective(entries') /\ IsInjective(controls')
        /\ \A d : d \in Range(entries') <=> d \in Range(entries) \/ (d = c /\ ~Teardown(c))
        /\ \A d : d \in Range(controls') <=> d \in Range(controls) \/ (d = c /\ Teardown(c))
    <2>0. IsInjective(entries) /\ IsInjective(controls)
      BY Zenon DEF PlacesInv, ApartOK
    <2>1. CASE Teardown(c)
      <3>1. /\ IsInjective(Append(controls, c))
            /\ \A d : d \in Range(Append(controls, c)) <=> d \in Range(controls) \/ d = c
        BY Zenon, <1>1, <1>2, <2>0, AppendRange
      <3> QED
        BY Zenon, <1>0, <2>0, <2>1, <3>1
    <2>2. CASE ~Teardown(c)
      <3>1. /\ IsInjective(Append(entries, c))
            /\ \A d : d \in Range(Append(entries, c)) <=> d \in Range(entries) \/ d = c
        BY Zenon, <1>1, <1>2, <2>0, AppendRange
      <3> QED
        BY Zenon, <1>0, <2>0, <2>2, <3>1
    <2> QED
      BY Zenon, <2>1, <2>2
  <1>4. ApartOK' /\ SlotOK'
    BY Zenon, <1>0, <1>2, <1>3 DEF PlacesInv, ApartOK, SlotOK, InHand, Kept
  <1>5. TimersOK'
    BY Zenon, <1>0, <1>3 DEF PlacesInv, TimersOK, OutcomesStay
  <1>6. \A d : d \in Kept' <=> d \in Kept \/ d = c
    BY SMTT(30), <1>0, <1>3 DEF Kept
  <1>7. HeldOK'
    BY Zenon, <1>0, <1>1, <1>6 DEF PlacesInv, HeldOK, OutcomesStay, Up
  <1> QED
    BY Zenon, <1>4, <1>5, <1>7 DEF PlacesInv

\* Before and in the lane.
LEMMA LanePlaces ==
    ASSUME WorkerInv, PlacesInv, OutcomesStay,
           \/ ProofSeen \/ ProofFound \/ NoProof
           \/ PreflightDecides \/ PreflightFresh \/ PreflightStale \/ PreflightChanged
           \/ LaneClosed \/ LaneStop \/ LaneHostBusy \/ LaneDispatch \/ LaneRetry
    PROVE  PlacesInv'
  <1>0. /\ cmd \in Commands /\ InHand /\ Up /\ pc \notin {"down", "deliver"} /\ UNCHANGED admitted
    BY Zenon DEF WorkerInv, ResultOK, InHand, Up, ProofSeen, ProofFound, NoProof, PreflightDecides,
           PreflightFresh, PreflightStale, PreflightChanged, LaneClosed, LaneStop, LaneHostBusy,
           LaneDispatch, LaneRetry, shared
  <1>1. CASE ProofSeen \/ ProofFound \/ PreflightDecides \/ PreflightFresh \/ LaneDispatch
    <2>1. UNCHANGED <<queues, cmd, timers>> /\ pc' \in {"proofread", "preflight", "save", "lane", "poll"}
      BY Zenon, <1>1 DEF ProofSeen, ProofFound, PreflightDecides, PreflightFresh, LaneDispatch, GoTo, recon,
                  task
    <2> QED
      BY Zenon, <1>0, <2>1, PlacesFrame DEF TimersFor, Up
  <1>2. CASE NoProof
    <2>1. UNCHANGED <<queues, cmd>> /\ pc' = "deliver" /\ journal'[cmd].outcome # "none"
      BY Zenon, <1>0, <1>2 DEF NoProof, WorkerInv, RetryOK, OutcomesStay
    <2>2. TimersFor(cmd)
      BY Zenon, <1>0, <1>2, <2>1, TimersFollow DEF NoProof, WorkerInv, ScheduleIfAmbiguous, TimersFor
    <2> QED
      BY Zenon, <1>0, <2>1, <2>2, PlacesFrame DEF Up, InHand
  <1>3. CASE Park /\ UNCHANGED timers
    BY Zenon, <1>0, <1>3, ParkPlaces
  <1>4. CASE PreflightChanged
    BY Zenon, <1>0, <1>4, PutDown DEF PreflightChanged, Exit, recon
  <1>5. CASE LaneStop /\ UNCHANGED <<pc, task, queues>>
    BY Zenon, <1>0, <1>5, PlacesFrame DEF LaneStop, recon, task, TimersFor, Up, InHand
  <1>6. CASE LaneRetry
    <2>1. UNCHANGED <<queues, timers>> /\ journal'[cmd].outcome # "none"
      BY Zenon, <1>0, <1>6 DEF LaneRetry, WorkerInv, RetryOK, OutcomesStay
    <2>2. CASE StillAmbiguous(journal[cmd])
      BY Zenon, <1>0, <1>6, <2>1, <2>2, PlacesFrame DEF LaneRetry, task, TimersFor, Up
    <2>3. CASE ~StillAmbiguous(journal[cmd])
      BY Zenon, <1>0, <1>6, <2>1, <2>3, PutDown DEF LaneRetry, GoIdle
    <2> QED
      BY Zenon, <2>2, <2>3
  <1> QED
    BY Zenon, <1>1, <1>2, <1>3, <1>4, <1>5, <1>6
       DEF PreflightStale, LaneClosed, LaneStop, LaneHostBusy, recon

\* From the first poll to the delivery of the result.
LEMMA PollPlaces ==
    ASSUME WorkerInv, PlacesInv, OutcomesStay,
           \/ PollRefused \/ PollStarts \/ UnpolledDecided \/ UnpolledStale \/ UnpolledChanged
           \/ Answered \/ SaveCompletion \/ SaveRecovery \/ Settle \/ Deliver \/ Leave
    PROVE  PlacesInv'
  <1>0. Up /\ pc # "down" /\ UNCHANGED admitted
    BY Zenon DEF Up, PollRefused, PollStarts, UnpolledDecided, UnpolledStale, UnpolledChanged, Answered,
           SaveCompletion, SaveRecovery, Settle, Deliver, Leave, shared
  <1>1. CASE PollRefused \/ PollStarts \/ UnpolledDecided \/ Answered \/ SaveCompletion
    <2>1. /\ UNCHANGED <<queues, cmd, timers>> /\ pc' \in {"unpolled", "inflight", "save", "settle"}
          /\ pc' = "unpolled" => pc = "poll"
      BY Zenon, <1>1 DEF PollRefused, PollStarts, UnpolledDecided, Answered, SaveCompletion, GoTo, recon, task
    <2> QED
      BY Zenon, <1>0, <2>1, PlacesFrame DEF TimersFor, Up, InHand
  <1>2. CASE UnpolledStale
    BY Zenon, <1>0, <1>2, ParkPlaces DEF UnpolledStale, InHand, recon
  <1>3. CASE UnpolledChanged \/ Leave
    BY Zenon, <1>0, <1>3, PutDown DEF UnpolledChanged, Leave, Exit, recon
  <1>4. CASE SaveRecovery
    <2>1. /\ cmd \in Commands /\ UNCHANGED <<queues, timers>> /\ journal'[cmd].outcome # "none"
          /\ \/ pc' = "idle" /\ cmd' = None
             \/ pc' = "settle" /\ cmd' = cmd
      BY Zenon, <1>4 DEF SaveRecovery, WorkerInv, ResultOK, RetryOK, OutcomesStay, GoIdle, GoTo
    <2>2. CASE pc' = "idle" /\ cmd' = None
      BY Zenon, <1>0, <2>1, <2>2, PutDown
    <2>3. CASE pc' = "settle" /\ cmd' = cmd
      BY Zenon, <1>0, <2>1, <2>3, PlacesFrame DEF TimersFor, Up, InHand
    <2> QED
      BY Zenon, <2>1, <2>2, <2>3
  <1>5. CASE Settle
    <2>1. PICK outcome : ScheduleIfAmbiguous(cmd, outcome, attempts)
      BY Zenon, <1>5 DEF Settle
    <2>2. /\ cmd \in Commands /\ UNCHANGED <<queues, cmd>> /\ pc' = "deliver"
          /\ journal'[cmd].outcome # "none"
      BY Zenon, <1>5 DEF Settle, WorkerInv, ResultOK, OutcomesStay, Outcomes, Definite
    <2>3. TimersFor(cmd)
      BY Zenon, <2>1, <2>2, TimersFollow DEF WorkerInv, ScheduleIfAmbiguous, TimersFor
    <2> QED
      BY Zenon, <1>0, <2>2, <2>3, PlacesFrame DEF Up, InHand
  <1>6. CASE Deliver
    <2>1. cmd \in Commands /\ journal'[cmd].outcome # "none"
      BY Zenon, <1>6 DEF Deliver, WorkerInv, ResultOK, PlacesInv, HeldOK, OutcomesStay
    <2> QED
      BY Zenon, <1>0, <1>6, <2>1, PutDown DEF Deliver, GoIdle, recon
  <1> QED
    BY Zenon, <1>1, <1>2, <1>3, <1>4, <1>5, <1>6

\* A process that starts anew holds nothing.
Empty == /\ entries = <<>> /\ controls = <<>> /\ parkedEntry = None /\ parkedControl = None
         /\ cmd = None /\ admitted = {} /\ pc \in {"idle", "down"} /\ timers = [c \in Commands |-> 0]
\* An empty worker has every command in its place.
LEMMA EmptyPlaces == Empty => PlacesInv
  <1> SUFFICES ASSUME Empty PROVE PlacesInv
    BY Zenon
  <1>1. IsInjective(entries) /\ Range(entries) = {} /\ IsInjective(controls) /\ Range(controls) = {}
    BY SMTT(30) DEF Empty, IsInjective, Range
  <1>2. ApartOK /\ SlotOK
    BY Zenon, <1>1 DEF Empty, ApartOK, SlotOK, InHand
  <1>3. TimersOK
    BY SMTT(30) DEF Empty, TimersOK
  <1>4. HeldOK
    BY Zenon, <1>1 DEF Empty, HeldOK, Kept
  <1> QED
    BY Zenon, <1>2, <1>3, <1>4 DEF PlacesInv

\* What the owner, the process and the broker do to the places.
LEMMA OtherPlaces ==
    ASSUME WorkerInv, PlacesInv, OutcomesStay, StopSaved \/ OwnerStep \/ Environment \/ UNCHANGED vars
    PROVE  PlacesInv'
  <1>1. ASSUME NEW c \in Commands, c \notin admitted, TryEnqueue(c, Unapplied(journal[c]))
        PROVE  PlacesInv'
    BY Zenon, <1>1, EnqueuePlaces
  <1>2. CASE WorkerFails
    BY Zenon, <1>2, PutDown DEF WorkerFails, recon, shared
  <1>3. CASE Crash
    <2>1. Empty'
      BY Zenon, <1>3 DEF Crash, Empty
    <2>2. (Empty => PlacesInv)'
      BY EmptyPlaces, PTL
    <2> QED
      BY Zenon, <2>1, <2>2
  <1>4. CASE Restart
    BY Zenon, <1>4, PlacesFrame DEF Restart, task, recon, TimersFor, Up, InHand
  <1>5. CASE UNCHANGED <<pc, cmd, queues, timers, admitted>>
    BY Zenon, <1>5, PlacesFrame DEF TimersFor, Up, InHand
  <1> QED
    BY ZenonT(30), <1>1, <1>2, <1>3, <1>4, <1>5
       DEF StopSaved, OwnerStep, ServeCheckpoint, CancelPendingEntry, ReleaseEntryIdentity,
           ServeCompleteStop, StopEntries, RequestExecutionStop, Receive, CloseEvents,
           StopSavedAfterExit, Environment, BrokerExecutes, BrokerRefuses, BrokerMoves, vars, task,
           recon, shared

\* Commands stay in their places, and results are not withdrawn.
LEMMA NextPlacesInv == WorkerInv /\ PlacesInv /\ [Next]_vars => PlacesInv'
  <1> SUFFICES ASSUME WorkerInv, PlacesInv, [Next]_vars PROVE PlacesInv'
    BY Zenon
  <1>1. OutcomesStay
    BY Zenon, StepKeepsFinal DEF Final, OutcomesStay
  <1>2. CASE WorkerStep
    BY Zenon, <1>1, <1>2, TakePlaces, TimerPlaces, LanePlaces, YieldPlaces, PollPlaces, OtherPlaces
       DEF WorkerStep
  <1>3. CASE OwnerStep \/ Environment \/ UNCHANGED vars
    BY Zenon, <1>1, <1>3, OtherPlaces
  <1> QED
    BY Zenon, <1>2, <1>3 DEF Next

\* A command is in at most one place, and in one when it is kept.
LEMMA OneCopy ==
    ASSUME WorkerInv, PlacesInv, NEW c \in Commands
    PROVE  Cardinality(Copies(c)) <= 1 /\ (c \in Kept => Copies(c) # {})
  <1>0. /\ entries \in Seq(Commands) /\ controls \in Seq(Commands) /\ c # None
        /\ \A i \in DOMAIN entries : entries[i] \in Range(entries)
        /\ \A i \in DOMAIN controls : controls[i] \in Range(controls)
    BY Zenon, WorkerAssumption DEF WorkerInv, TypeOK, QueuesType, Range
  <1>1. \A x : x \in Copies(c) <=>
            \/ \E i \in DOMAIN entries : entries[i] = c /\ x = <<"entries", i>>
            \/ \E i \in DOMAIN controls : controls[i] = c /\ x = <<"controls", i>>
            \/ parkedEntry = c /\ x = <<"parkedEntry", 0>>
            \/ parkedControl = c /\ x = <<"parkedControl", 0>>
            \/ cmd = c /\ x = <<"cmd", 0>>
    BY Zenon DEF Copies
  <1>2. ASSUME NEW x \in Copies(c), NEW y \in Copies(c) PROVE x = y
    BY SMTT(30), <1>0, <1>1 DEF PlacesInv, ApartOK, IsInjective
  <1>3. Cardinality(Copies(c)) <= 1
    <2>1. CASE Copies(c) = {}
      BY SMTT(30), <2>1, FS_EmptySet
    <2>2. ASSUME NEW x \in Copies(c) PROVE Cardinality(Copies(c)) <= 1
      <3>1. Copies(c) = {x}
        BY Zenon, <1>2
      <3>2. Cardinality({x}) = 1
        BY Zenon, FS_Singleton
      <3> QED
        BY SMTT(30), <3>1, <3>2
    <2> QED
      BY Zenon, <2>1, <2>2
  <1>4. ASSUME c \in Kept PROVE Copies(c) # {}
    <2>1. \/ \E i \in DOMAIN entries : entries[i] = c
          \/ \E i \in DOMAIN controls : controls[i] = c
          \/ parkedEntry = c \/ parkedControl = c \/ cmd = c
      BY Zenon, <1>4 DEF Kept, Range
    <2> QED
      BY Zenon, <1>1, <2>1
  <1> QED
    BY Zenon, <1>3, <1>4

\* No command is lost or held twice inside the worker: parking finds its slot
\* empty, a retried cancellation never meets a second copy of itself, and what
\* was accepted stays in one place until the journal has its result.
THEOREM NoCommandLost == Spec => []NothingLost
  <1>1. Init => PlacesInv
    BY Zenon, EmptyPlaces DEF Init, Empty
  <1>2. WorkerInv /\ PlacesInv => NothingLost
    BY Zenon, OneCopy DEF NothingLost, PlacesInv, HeldOK
  <1> QED
    BY <1>1, <1>2, NextPlacesInv, AlwaysWorkerInv, PTL DEF Spec
=============================================================================
