------------------------------ MODULE StepTimeline ------------------------------
(***************************************************************************)
(* The step log of a scan (scanner/steps.go) and the timeline the scan     *)
(* page draws from it (scan-runtime.tsx).                                  *)
(*                                                                         *)
(* The worker, a process that queues the scan again, and whoever ends it   *)
(* append to the log.  Each reads the last entry, closes it, moves the     *)
(* scan's current step and inserts its own entry, in statements of their   *)
(* own; no index keeps two from using the same position.                   *)
(***************************************************************************)
EXTENDS Naturals, Sequences

CONSTANTS
    WorkerSteps,        \* the steps of a worker, in their order
    StepWorker, Requeuer, StepEnders,
    MaxStepFaults

TerminalSteps == {"completed", "failed", "cancelled"}
StepsTaken    == {WorkerSteps[i] : i \in DOMAIN WorkerSteps}

ASSUME StepConstants ==
    /\ WorkerSteps \in Seq(StepsTaken) /\ StepsTaken \cap TerminalSteps = {}
    /\ Requeuer # StepWorker
    /\ {StepWorker, Requeuer} \cap StepEnders = {}
    /\ MaxStepFaults \in Nat

StepWriters == {StepWorker, Requeuer} \cup StepEnders

VARIABLES
    stepLog,        \* in the order of insertion: step, position and open
    scanRow,        \* status and current_step; an end sets both, and completed_at
    stepWriter,     \* writer -> what it does, for which step, after which entry
    nextStep,       \* of the worker
    stepFaults

stepVars == <<stepLog, scanRow, stepWriter, nextStep, stepFaults>>

Quiet == [at |-> "idle"]

StepInit ==
    /\ stepLog = <<[step |-> "queued", position |-> 0, open |-> TRUE]>>
    /\ scanRow = [status |-> "pending", step |-> "queued"]
    /\ stepWriter = [w \in StepWriters |-> Quiet]
    /\ nextStep = 1
    /\ stepFaults = 0

RowEnded == scanRow.status \in TerminalSteps

WriterAt(w, at) == stepWriter[w].at = at

WriterGoes(w, at) == stepWriter' = [stepWriter EXCEPT ![w].at = at]

WriterStops(w) == stepWriter' = [stepWriter EXCEPT ![w] = Quiet]

-----------------------------------------------------------------------------
(* setScanStepByID *)

ClaimForSteps ==
    /\ scanRow.status = "pending"
    /\ scanRow' = [scanRow EXCEPT !.status = "running"]
    /\ UNCHANGED <<stepLog, stepWriter, nextStep, stepFaults>>

(* The worker takes its next step; another process, which has seen the     *)
(* scan pending, queues it, and may be late.                               *)
BeginStep(w, step) ==
    /\ WriterAt(w, "idle")
    /\ \/ /\ w = StepWorker /\ scanRow.status # "pending" /\ nextStep <= Len(WorkerSteps)
          /\ step = WorkerSteps[nextStep] /\ nextStep' = nextStep + 1
       \/ w = Requeuer /\ scanRow.status = "pending" /\ step = "queued" /\ UNCHANGED nextStep
    /\ stepWriter' = [stepWriter EXCEPT ![w] = [at |-> "read", step |-> step]]
    /\ UNCHANGED <<stepLog, scanRow, stepFaults>>

(* An entry with the highest position. *)
LatestEntries ==
    {i \in DOMAIN stepLog : \A j \in DOMAIN stepLog : stepLog[j].position <= stepLog[i].position}

(* updateScanCurrentStep for the steps its callers name, none terminal *)
MoveRow(step) ==
    /\ ~ RowEnded
    /\ scanRow' = [scanRow EXCEPT !.step = step]

(* The same step again moves the row, and is appended if it was closed.    *)
ReadLatest(w) ==
    /\ WriterAt(w, "read")
    /\ \E i \in LatestEntries :
          stepWriter' = [stepWriter EXCEPT ![w] =
             [at |-> IF stepLog[i].step = @.step THEN "again"
                     ELSE IF stepLog[i].open THEN "close" ELSE "move",
              step |-> @.step, after |-> stepLog[i].position, entry |-> i,
              stay |-> stepLog[i].open]]
    /\ UNCHANGED <<stepLog, scanRow, nextStep, stepFaults>>

MoveAgain(w) ==
    /\ WriterAt(w, "again")
    /\ IF RowEnded
       THEN WriterStops(w) /\ UNCHANGED scanRow
       ELSE /\ MoveRow(stepWriter[w].step)
            /\ IF stepWriter[w].stay THEN WriterStops(w) ELSE WriterGoes(w, "move")
    /\ UNCHANGED <<stepLog, nextStep, stepFaults>>

CloseLatest(w) ==
    /\ WriterAt(w, "close")
    /\ stepLog' = [stepLog EXCEPT ![stepWriter[w].entry].open = FALSE]
    /\ WriterGoes(w, IF stepWriter[w].step \in TerminalSteps THEN "insert" ELSE "move")
    /\ UNCHANGED <<scanRow, nextStep, stepFaults>>

(* A terminal writer won the race: ErrScanStateFinalized. *)
MoveCurrentStep(w) ==
    /\ WriterAt(w, "move")
    /\ IF RowEnded
       THEN WriterStops(w) /\ UNCHANGED scanRow
       ELSE MoveRow(stepWriter[w].step) /\ WriterGoes(w, "insert")
    /\ UNCHANGED <<stepLog, nextStep, stepFaults>>

InsertEntry(w) ==
    /\ WriterAt(w, "insert")
    /\ LET step == stepWriter[w].step
       IN  stepLog' = Append(stepLog, [step |-> step, position |-> stepWriter[w].after + 1,
                                       open |-> step \notin TerminalSteps])
    /\ WriterStops(w)
    /\ UNCHANGED <<scanRow, nextStep, stepFaults>>

(* A statement fails or the process dies; setScanStep is not repeated. *)
StepWriterFails(w) ==
    /\ stepFaults < MaxStepFaults
    /\ ~ WriterAt(w, "idle")
    /\ WriterStops(w)
    /\ stepFaults' = stepFaults + 1
    /\ UNCHANGED <<stepLog, scanRow, nextStep>>

-----------------------------------------------------------------------------
(* The end: status, step and completed_at in one conditional update, and   *)
(* then appendTerminalScanStepLog.                                         *)
EndScan(w, status) ==
    /\ WriterAt(w, "idle")
    /\ IF status = "completed"
       THEN w = StepWorker /\ nextStep > Len(WorkerSteps) /\ scanRow.status = "running"
       ELSE w \in StepEnders /\ ~ RowEnded
    /\ scanRow' = [status |-> status, step |-> status]
    /\ stepWriter' = [stepWriter EXCEPT ![w] = [at |-> "read end", step |-> status]]
    /\ UNCHANGED <<stepLog, nextStep, stepFaults>>

ReadBeforeEnd(w) ==
    /\ WriterAt(w, "read end")
    /\ \E i \in LatestEntries :
          IF stepLog[i].step = stepWriter[w].step /\ ~ stepLog[i].open
          THEN WriterStops(w)
          ELSE stepWriter' = [stepWriter EXCEPT ![w] =
                 [at |-> IF stepLog[i].open THEN "close" ELSE "insert", step |-> @.step,
                  after |-> stepLog[i].position, entry |-> i]]
    /\ UNCHANGED <<stepLog, scanRow, nextStep, stepFaults>>

(* After a restart an interrupted scan is failed, and nothing is appended. *)
FailInterrupted ==
    /\ stepFaults < MaxStepFaults
    /\ scanRow.status = "running"
    /\ scanRow' = [status |-> "failed", step |-> "failed"]
    /\ stepFaults' = stepFaults + 1
    /\ UNCHANGED <<stepLog, stepWriter, nextStep>>

-----------------------------------------------------------------------------
StepNext ==
    \/ ClaimForSteps \/ FailInterrupted
    \/ \E w \in StepWriters :
          \/ \E step \in {"queued"} \cup StepsTaken : BeginStep(w, step)
          \/ ReadLatest(w) \/ MoveAgain(w) \/ CloseLatest(w) \/ MoveCurrentStep(w) \/ InsertEntry(w)
          \/ StepWriterFails(w) \/ ReadBeforeEnd(w)
          \/ \E status \in TerminalSteps : EndScan(w, status)

StepSpec == StepInit /\ [][StepNext]_stepVars

-----------------------------------------------------------------------------
(* resolveTimelinePipelineSteps: the entries by position, those of one     *)
(* position as they come.                                                  *)

ShownAfter(i, j) ==
    \/ stepLog[j].position > stepLog[i].position
    \/ stepLog[j].position = stepLog[i].position /\ j > i

(* Mutant: the start of the next entry does not end an entry. *)
OwnEndOnly(i) == ~ stepLog[i].open \/ RowEnded

(* resolveStepLogEnd *)
HasEnd(i) ==
    \/ ~ stepLog[i].open
    \/ \E j \in DOMAIN stepLog : ShownAfter(i, j)
    \/ RowEnded

ShownRunning == {i \in DOMAIN stepLog : ~ HasEnd(i)}

-----------------------------------------------------------------------------
(* Properties *)

StepTypeOK ==
    /\ \A i \in DOMAIN stepLog :
          stepLog[i].position < Len(stepLog) /\ stepLog[i].open \in BOOLEAN
    /\ scanRow.status \in {"pending", "running"} \cup TerminalSteps
    /\ RowEnded => scanRow.step = scanRow.status
    /\ nextStep \in 1 .. Len(WorkerSteps) + 1

(* However the writers of the log meet, the timeline shows one running     *)
(* step at most, and none of a scan that has ended, though several entries *)
(* may have been left open.                                                *)
OneShownRunning ==
    /\ \A i, j \in ShownRunning : i = j
    /\ RowEnded => ShownRunning = {}

(* The step the scan is in has an entry, or a writer is about to insert    *)
(* it; only a failure leaves it without one.                               *)
StepIsLogged ==
    \/ \E i \in DOMAIN stepLog : stepLog[i].step = scanRow.step
    \/ \E w \in StepWriters : ~ WriterAt(w, "idle") /\ stepWriter[w].step = scanRow.step
    \/ stepFaults > 0

TimelineIsTrue == StepTypeOK /\ OneShownRunning /\ StepIsLogged

(* Does not hold: a worker that has read the log before the end appends    *)
(* its step after the terminal one, or beside it.                          *)
EndIsLast ==
    (RowEnded /\ stepFaults = 0 /\ \A w \in StepWriters : WriterAt(w, "idle")) =>
      \E i \in DOMAIN stepLog :
        stepLog[i].step = scanRow.status /\ \A j \in DOMAIN stepLog : ~ ShownAfter(i, j)
=============================================================================
