-------------------------- MODULE OperationWorkers --------------------------
(***************************************************************************)
(* The tasks that carry one operation through its life                     *)
(* (FirstOperationService of navigator-core), on every host that owns the  *)
(* session in turn.  A worker works on a snapshot it loaded earlier; each  *)
(* Store call is one step.  The registry of a host remembers that a worker *)
(* is active, its join handle and whether it must run again.  Waiting for  *)
(* an execution permit is FairCapacity, delivering the input is Delivery:  *)
(* here only what they answer matters.                                     *)
(***************************************************************************)
EXTENDS Naturals, FiniteSets

-----------------------------------------------------------------------------
(***************************************************************************)
(* One operation of a participant, as the Store keeps it: its state and    *)
(* revision, the delivery state of its input message, and the request      *)
(* ledger that every transition goes through.  A transition's request id   *)
(* is derived from the operation, the action and an ordinal                *)
(* (DriverTransitionContexts), so <<action, ordinal>> stands for it; the   *)
(* rest of the command is what its digest covers.  Ownership is the        *)
(* current owner and epoch, as FencedLease presents them.                  *)
(***************************************************************************)
CONSTANTS
  Hosts,
  None,
  Scenarios  \* the instances a behaviour may belong to: see WorkersAssumption

VARIABLES
  scenario,  \* the instance this behaviour belongs to; it never changes
  owner,     \* the session's effective owner, or None
  epoch,     \* the fencing epoch of the latest tenure
  op,        \* the operation's row: [state, rev]
  input,     \* delivery state of the input message
  launched,  \* whether a launch attempt of the participant exists
  ledger,    \* request_ledger: [cmd, ok, snap], at most one per request id
  asked      \* the question to the parent, and who asked it: [st, by]

MaxEpoch == scenario.epochs

storeVars == <<owner, epoch, op, input, launched, ledger, asked>>

Unfinished == {"queued", "starting", "running", "waiting", "cancelling"}

Terminal == {"succeeded", "failed", "cancelled", "blocked", "uncertain"}

Current(h, e) == owner = h /\ epoch = e

\* The state an action leads to, None when the action is not allowed.
NextState(state, action) ==
  CASE state = "queued" /\ action = "BeginStart" -> "starting"
    [] state = "starting" /\ action = "ReportRunning" -> "running"
    [] state = "waiting" /\ action = "Resume" -> "running"
    [] state = "running" /\ action = "Wait" -> "waiting"
    [] state \in Unfinished \ {"cancelling"} /\ action = "RequestCancel" -> "cancelling"
    [] state \in {"queued", "cancelling"} /\ action = "ReportCancelled" -> "cancelled"
    [] state \in Unfinished /\ action = "ReportFailure" -> "failed"
    [] state = "running" /\ action = "ReportSuccess" -> "succeeded"
    [] state \in {"running", "waiting"} /\ action = "ReportBlocked" -> "blocked"
    [] state \in Unfinished \ {"queued"} /\ action = "ReportUncertain" -> "uncertain"
    [] OTHER -> None

\* The message a command cites.  A driver's report cites the input message,
\* which must be accepted; a failure before the operation runs cites nothing.
ValidReport(c) ==
  CASE c.action = "Wait" -> c.cites = "question" /\ op.state # "waiting"
    [] c.action = "Resume" -> c.cites = "question" /\ op.state = "waiting"
    [] c.action \in {"BeginStart", "RequestCancel"} -> c.cites = "none"
    [] OTHER -> \/ /\ c.cites = "none"
                   /\ c.action \in {"ReportFailure", "ReportUncertain"}
                   /\ op.state \in {"queued", "starting"}
                \/ c.cites = "input" /\ input = "accepted"

\* A terminal outcome retires the messages still on their way.
Retired == CASE input = "doubt" -> "uncertain"
             [] input = "queued" -> "dead"
             [] OTHER -> input

Recorded(c) == {e \in ledger : e.cmd.action = c.action /\ e.cmd.ord = c.ord}

\* What transition_operation answers: a recorded request is answered from the
\* ledger, or is a conflict when anything in the command differs.
Commits(c) ==
  /\ Recorded(c) = {}
  /\ Current(c.host, c.epoch)
  /\ op.rev = c.rev
  /\ ValidReport(c)
  /\ NextState(op.state, c.action) # None

Replays(c) == \E e \in Recorded(c) : e.cmd = c /\ e.ok

Answered(c) == Commits(c) \/ Replays(c)

Snapshot(c) ==
  IF Commits(c)
  THEN [state |-> NextState(op.state, c.action), rev |-> op.rev + 1]
  ELSE (CHOOSE e \in Recorded(c) : TRUE).snap

\* transition_operation.  A refusal is recorded too.
TransitionOperation(c) ==
  /\ IF Commits(c)
     THEN /\ op' = Snapshot(c)
          /\ input' = IF op'.state \in Terminal THEN Retired ELSE input
     ELSE UNCHANGED <<op, input>>
  /\ ledger' = IF Recorded(c) # {} THEN ledger
               ELSE ledger \cup {[cmd |-> c, ok |-> Commits(c), snap |-> op']}
  /\ UNCHANGED <<owner, epoch, launched, asked>>

\* start_operation, for a participant with no unfinished operation.
StartOperation(h, e) ==
  /\ Current(h, e)
  /\ op.state = "absent"
  /\ op' = [state |-> "queued", rev |-> 1]
  /\ input' = "queued"
  /\ UNCHANGED <<owner, epoch, launched, ledger, asked>>

\* cancel_subtree, as it meets this operation.  Without a driver the operation
\* is cancelled at once; its input message is not retired.
CancelSubtree(h, e) ==
  /\ Current(h, e)
  /\ op.state # "absent"
  /\ IF op.state \in Unfinished \ {"cancelling"}
     THEN op' = [state |-> IF op.state = "queued" \/ (op.state = "starting" /\ ~launched)
                           THEN "cancelled" ELSE "cancelling",
                 rev |-> op.rev + 1]
     ELSE UNCHANGED op
  /\ UNCHANGED <<owner, epoch, input, launched, ledger, asked>>

\* QuestionUpward: the question and the wait are one transaction.  Repeating
\* it is answered from the ledger, unless the message has changed since.
AskAnswered(h, e) ==
  IF asked.st = "no"
  THEN Current(h, e) /\ op.state = "running"
  ELSE asked = [st |-> "sent", by |-> <<h, e>>]

QuestionUpward(h, e) ==
  /\ IF asked.st # "no"
     THEN UNCHANGED <<op, asked>>
     ELSE IF AskAnswered(h, e)
     THEN /\ op' = [state |-> "waiting", rev |-> op.rev + 1]
          /\ asked' = [st |-> "sent", by |-> <<h, e>>]
     ELSE /\ asked' = [st |-> "denied", by |-> <<h, e>>]
          /\ UNCHANGED op
  /\ UNCHANGED <<owner, epoch, input, launched, ledger>>

\* The parent's driver takes the question out of its mailbox.
QuestionTaken ==
  /\ asked.st = "sent"
  /\ asked' = [asked EXCEPT !.st = "taken"]
  /\ UNCHANGED <<owner, epoch, op, input, launched, ledger>>

\* The feedback message is accepted by the participant's driver.  The same
\* transaction resumes the operation if it still waits for this answer.
FeedbackAccepted(h) ==
  /\ owner = h
  /\ asked.st = "taken"
  /\ asked' = [asked EXCEPT !.st = "answered"]
  /\ op' = IF op.state = "waiting" THEN [state |-> "running", rev |-> op.rev + 1] ELSE op
  /\ UNCHANGED <<owner, epoch, input, launched, ledger>>

\* The lease ends: it is released, or it expires unrenewed.
LoseOwnership ==
  /\ owner # None
  /\ epoch < MaxEpoch
  /\ owner' = None
  /\ UNCHANGED <<epoch, op, input, launched, ledger, asked>>

AcquireOwnership(h) ==
  /\ owner = None
  /\ epoch < MaxEpoch
  /\ owner' = h
  /\ epoch' = epoch + 1
  /\ UNCHANGED <<op, input, launched, ledger, asked>>

StoreInit ==
  /\ scenario \in Scenarios
  /\ owner = None
  /\ epoch = 0
  /\ op = [state |-> "absent", rev |-> 0]
  /\ input = "none"
  /\ launched = FALSE
  /\ ledger = {}
  /\ asked = [st |-> "no", by |-> None]

-----------------------------------------------------------------------------
(* The workers. *)
CONSTANTS
  Tasks,     \* slots for worker tasks
  MaxTries   \* MAX_PRE_START_RETRIES

\* What a driver may report in the end: an outcome, or one whose payload exceeds
\* the bound of its kind.  The executor passes payloads on as they are.
TerminalReports == Terminal \cup {"oversized"}

\* Which of the behaviours below an instance has, and the bounds of the rest:
\*   hosts       hosts that take the session
\*   epochs      tenures of the session
\*   faults      calls to the executor that fail or time out
\*   calls       resume_existing calls nothing in the model requires
\*   cancels     cancellations requested
\*   reports     terminal reports a driver may make of its own accord
\*   asks        the driver asks its parent before it finishes
\*   pumps       the mailbox pump sweeps
\*   late        a command may reach the Store before its host notices that
\*               the tenure has ended
\*   early       an answer may arrive before the worker has looked at its
\*               committed question
\*   reacquires  a host may take the session again while a worker of its
\*               earlier tenure is still active
ScenarioRecords ==
  [hosts : SUBSET Hosts, epochs : Nat, faults : Nat, calls : Nat, cancels : Nat,
   reports : SUBSET TerminalReports, asks : BOOLEAN, pumps : BOOLEAN, late : BOOLEAN, early : BOOLEAN, reacquires : BOOLEAN]

ASSUME WorkersAssumption ==
  /\ \A r \in Scenarios : r \in ScenarioRecords
  /\ MaxTries \in Nat
  /\ None \notin Hosts \cup Tasks

VARIABLES
  registry,   \* WorkerRegistry of each host
  task,       \* what each task is doing
  call,       \* an outstanding resume_existing of each host
  canceller,  \* an outstanding cancel_subtree of each host
  pump,       \* what the mailbox pump of each host is doing
  report,     \* the driver's first event that is not acknowledged
  driver,     \* "idle", "working", "asking", "told" to cancel, "done"
  acked,      \* history: the terminal reports acknowledged
  faults, calls,
  cancels     \* cancel_subtree commits so far; the participant's tombstone

system == <<storeVars, registry, task, call, canceller, pump, report, driver, acked,
            faults, calls, cancels>>

vars == <<system, scenario>>

hostVars == <<registry, call, canceller, pump>>

driverVars == <<report, driver, acked>>

bounds == <<faults, calls, cancels>>

NoCommand == [action |-> "none"]

Idle == [pc |-> "idle"]

Live(t) == task[t].pc # "idle"

Victims == {canceller[h].victim : h \in {g \in Hosts : canceller[g].pc = "abort"}}

\* A slot a join handle still refers to is not used for another task.
Free(t) == ~Live(t) /\ t \notin Victims

LiveOn(h) == {t \in Tasks : Live(t) /\ task[t].host = h}

EmptyRegistry == [accepting |-> TRUE, active |-> FALSE, wake |-> FALSE, handle |-> None]

NewTask(h, e, kind, pc, snap) ==
  [pc |-> pc, host |-> h, epoch |-> e, kind |-> kind, tries |-> 0, snap |-> snap,
   cmd |-> NoCommand, ok |-> TRUE]

Set(t, r) == task' = [task EXCEPT ![t] = r]

Go(t, pc) == Set(t, [task[t] EXCEPT !.pc = pc])

Finish(t, ok) == Set(t, [task[t] EXCEPT !.pc = "finish", !.ok = ok])

Fault == faults < scenario.faults /\ faults' = faults + 1

Init ==
  /\ StoreInit
  /\ registry = [h \in Hosts |-> EmptyRegistry]
  /\ task = [t \in Tasks |-> Idle]
  /\ call = [h \in Hosts |-> Idle]
  /\ canceller = [h \in Hosts |-> Idle]
  /\ pump = [h \in Hosts |-> Idle]
  /\ report = "none" /\ driver = "idle" /\ acked = {}
  /\ faults = 0 /\ calls = 0 /\ cancels = 0

\* AdmissionPermit::check.  The host closes the gate of a tenure that ended,
\* but not in the same instant.
Permitted(h, e) == Current(h, e) \/ scenario.late

(***************************************************************************)
(* Worker::transition and the helpers that build its command.              *)
(***************************************************************************)
Command(t, action, ord, cites, detail) ==
  [action |-> action, ord |-> ord, host |-> task[t].host, epoch |-> task[t].epoch,
   rev |-> task[t].snap.rev, cites |-> cites, detail |-> detail]

Submit(t, c) == Set(t, [task[t] EXCEPT !.pc = "commit", !.cmd = c])

SystemReport(t) ==
  IF task[t].snap.state \in {"running", "waiting", "cancelling"} THEN "input" ELSE "none"

Fail(t, code, ord) == Submit(t, Command(t, "ReportFailure", ord, SystemReport(t), code))

Uncertain(t, why, ord) == Submit(t, Command(t, "ReportUncertain", ord, SystemReport(t), why))

MutCommit(t) ==
  LET c == task[t].cmd IN
  /\ task[t].pc = "commit"
  /\ TransitionOperation(c)
  /\ Set(t, [task[t] EXCEPT
       !.snap = IF Answered(c) THEN Snapshot(c) ELSE @,
       !.ok = Answered(c),
       !.pc = CASE c.detail \in TerminalReports -> "ack"
                [] ~Answered(c) -> "finish"
                [] c.action = "BeginStart" -> "reload"
                [] c.action = "ReportRunning" -> "observe"
                [] OTHER -> "finish"])
  /\ UNCHANGED <<hostVars, driverVars, bounds>>

\* The permit is checked, then the command is one transaction.  Only the
\* driver's own terminal report is acknowledged once it is committed.
Commit(t) ==
  LET c == task[t].cmd IN
  /\ task[t].pc = "commit"
  /\ \/ /\ ~Current(c.host, c.epoch)
        /\ Finish(t, FALSE)
        /\ UNCHANGED storeVars
     \/ /\ Permitted(c.host, c.epoch)
        /\ TransitionOperation(c)
        /\ IF ~Answered(c)
           THEN Finish(t, FALSE)
           ELSE Set(t, [task[t] EXCEPT
                  !.snap = Snapshot(c),
                  !.ok = TRUE,
                  !.pc = CASE c.action = "BeginStart" -> "reload"
                           [] c.action = "ReportRunning" -> "observe"
                           [] c.detail \in TerminalReports -> "ack"
                           [] OTHER -> "finish"])
  /\ UNCHANGED <<hostVars, driverVars, bounds>>

(***************************************************************************)
(* Worker::run, Worker::execute                                            *)
(***************************************************************************)
\* FirstOperationService::start registers the task before it commits.
Start(h, t) ==
  /\ owner = h
  /\ op.state = "absent"
  /\ registry[h].accepting /\ ~registry[h].active
  /\ Free(t)
  /\ Set(t, NewTask(h, epoch, "start", "start", op))
  /\ registry' = [registry EXCEPT ![h].active = TRUE, ![h].handle = t]
  /\ UNCHANGED <<storeVars, call, canceller, pump, driverVars, bounds>>

Run(t) ==
  /\ task[t].pc = "start"
  /\ \/ /\ StartOperation(task[t].host, task[t].epoch)
        /\ Set(t, [task[t] EXCEPT !.pc = "execute", !.snap = op'])
     \/ /\ ~Current(task[t].host, task[t].epoch) \/ op.state # "absent"
        /\ Finish(t, FALSE)
        /\ UNCHANGED storeVars
  /\ UNCHANGED <<hostVars, driverVars, bounds>>

\* The capacity wait ends with a permit or at its deadline.
Execute(t) ==
  /\ task[t].pc = "execute"
  /\ IF task[t].snap.state \in Terminal
     THEN Finish(t, TRUE) /\ UNCHANGED faults
     ELSE \/ /\ IF task[t].snap.state = "queued"
                THEN Submit(t, Command(t, "BeginStart", 1, "none", "none"))
                ELSE Go(t, "reload")
             /\ UNCHANGED faults
          \/ Fault /\ Fail(t, "capacity", 1)
  /\ UNCHANGED <<storeVars, hostVars, driverVars, calls, cancels>>

Reload(t) ==
  /\ task[t].pc = "reload"
  /\ Set(t, [task[t] EXCEPT !.snap = op, !.ok = TRUE,
                            !.pc = IF op.state = "cancelled" THEN "finish" ELSE "ready"])
  /\ UNCHANGED <<storeVars, hostVars, driverVars, bounds>>

\* The executor reads the current ownership: a host that has lost the session
\* gets no instance.  A launch attempt is recorded before anything runs, and
\* is refused once the participant's cancellation has been requested.
EnsureReady(t) ==
  /\ task[t].pc = "ready"
  /\ \/ /\ owner = task[t].host
        /\ launched \/ cancels = 0
        /\ launched' = TRUE
        /\ Go(t, IF task[t].snap.state \in {"running", "waiting", "cancelling"}
                 THEN "observe" ELSE "deliver")
        /\ UNCHANGED faults
     \/ /\ IF owner = task[t].host /\ (launched \/ cancels = 0) THEN Fault ELSE UNCHANGED faults
        /\ Fail(t, "executor_unavailable", 2)
        /\ UNCHANGED launched
  /\ UNCHANGED <<owner, epoch, op, input, ledger, asked, hostVars, driverVars, calls, cancels>>

\* MailboxBackedOperationExecutor::deliver: one attempt of the delivery worker
\* after another until the input has settled or the budget is spent.
Deliver(t) ==
  /\ task[t].pc = "deliver"
  /\ \/ /\ input = "accepted"
        /\ Submit(t, Command(t, "ReportRunning", 2, "input", "none"))
        /\ UNCHANGED <<input, driver, faults>>
     \/ /\ input = "dead"
        /\ Fail(t, "delivery_rejected", 2)
        /\ UNCHANGED <<input, driver, faults>>
     \/ /\ input = "uncertain"
        /\ Uncertain(t, "unknown", 2)
        /\ UNCHANGED <<input, driver, faults>>
     \/ /\ input \in {"queued", "doubt"}
        /\ Current(task[t].host, task[t].epoch)
        /\ \/ /\ input' = "accepted"
              /\ driver' = "working"
              /\ UNCHANGED <<task, faults>>
           \/ /\ Fault
              /\ input' \in IF input = "queued" THEN {"doubt", "dead"} ELSE {"uncertain"}
              /\ UNCHANGED <<task, driver>>
     \/ /\ input \in {"queued", "doubt"}
        /\ IF Current(task[t].host, task[t].epoch) THEN Fault ELSE UNCHANGED faults
        /\ Uncertain(t, "delivery failed", 2)
        /\ UNCHANGED <<input, driver>>
  /\ UNCHANGED <<owner, epoch, op, launched, ledger, asked, hostVars, report, acked, calls,
                 cancels>>

(***************************************************************************)
(* Worker::observe                                                         *)
(***************************************************************************)
\* The stream of reports breaks: while the operation is being cancelled the
\* worker only gives up, otherwise the outcome is uncertain.
Broken(t, why) ==
  IF task[t].snap.state = "cancelling" THEN Finish(t, FALSE) ELSE Uncertain(t, why, 3)

ObserveFails(t) ==
  /\ task[t].pc = "observe"
  /\ IF owner = task[t].host THEN Fault ELSE UNCHANGED faults
  /\ Broken(t, "observe")
  /\ UNCHANGED <<storeVars, hostVars, driverVars, calls, cancels>>

\* The report deadline passes, or the driver is idle again after a reminder.
ObserveTimesOut(t) ==
  /\ task[t].pc = "observe"
  /\ owner = task[t].host
  /\ report = "none"
  /\ Fault
  /\ IF task[t].snap.state = "cancelling" THEN Finish(t, FALSE)
     ELSE Fail(t, "result_deadline", 3)
  /\ UNCHANGED <<storeVars, hostVars, driverVars, calls, cancels>>

\* next_report commits a question before it returns it.
ObserveQuestion(t) ==
  /\ task[t].pc = "observe"
  /\ owner = task[t].host
  /\ report = "question"
  /\ QuestionUpward(task[t].host, task[t].epoch)
  /\ IF AskAnswered(task[t].host, task[t].epoch)
     THEN Go(t, "waiting")
     ELSE Broken(t, "observe")
  /\ UNCHANGED <<hostVars, driverVars, bounds>>

\* Acknowledging moves the sequence of the worker's own instance; a stale
\* tenure's instance is no longer the one that reports.
Acks(t) ==
  report' = IF Current(task[t].host, task[t].epoch) THEN "none" ELSE report

\* The worker looks whether its question is what the operation waits for.
CheckWaiting(t) ==
  /\ task[t].pc = "waiting"
  /\ IF op.state = "waiting"
     THEN Set(t, [task[t] EXCEPT !.pc = "finish", !.ok = TRUE]) /\ Acks(t)
     ELSE Fail(t, "invalid_question", 3) /\ UNCHANGED report
  /\ UNCHANGED <<storeVars, hostVars, driver, acked, bounds>>

\* A report is refused: a progress payload over its bound, one report too many,
\* or a report that names another operation.
ObserveRejects(t) ==
  /\ task[t].pc = "observe"
  /\ owner = task[t].host
  /\ Fault
  /\ Fail(t, "invalid_report", 3)
  /\ UNCHANGED <<storeVars, hostVars, driverVars, calls, cancels>>

\* terminal: the transition a report asks for.  A payload over its bound becomes
\* a failure, whatever it was to report.
ReportAction ==
  [succeeded |-> "ReportSuccess", failed |-> "ReportFailure", cancelled |-> "ReportCancelled",
   blocked |-> "ReportBlocked", uncertain |-> "ReportUncertain", oversized |-> "ReportFailure"]

Becomes(r) == IF r = "oversized" THEN "failed" ELSE r

ObserveTerminal(t) ==
  /\ task[t].pc = "observe"
  /\ owner = task[t].host
  /\ report \in TerminalReports
  /\ Go(t, report)
  /\ UNCHANGED <<storeVars, hostVars, driverVars, bounds>>

\* The operation is loaded again, and its terminal report submitted.
CommitTerminal(t) ==
  /\ task[t].pc \in TerminalReports
  /\ Set(t, [task[t] EXCEPT
       !.pc = "commit", !.snap = op,
       !.cmd = [Command(t, ReportAction[task[t].pc], 3, "input", task[t].pc)
                EXCEPT !.rev = op.rev]])
  /\ UNCHANGED <<storeVars, hostVars, driverVars, bounds>>

Acknowledge(t) ==
  /\ task[t].pc = "ack"
  /\ \/ /\ Acks(t)
        /\ acked' = acked \cup {task[t].cmd.detail}
        /\ Go(t, "finish")
        /\ UNCHANGED faults
     \/ /\ Fault
        /\ Finish(t, FALSE)
        /\ UNCHANGED <<report, acked>>
  /\ UNCHANGED <<storeVars, hostVars, driver, calls, cancels>>

(***************************************************************************)
(* The end of a worker, and the registry                                   *)
(***************************************************************************)
\* execute_existing_with_retry: only what has not started is tried again.
Retries(t) ==
  /\ task[t].kind = "resume" /\ ~task[t].ok
  /\ op.state = "queued"
  /\ task[t].tries + 1 < MaxTries

Settle(t) ==
  /\ task[t].pc = "finish"
  /\ \/ /\ Retries(t) /\ Permitted(task[t].host, task[t].epoch)
        /\ Set(t, [task[t] EXCEPT !.pc = "execute", !.snap = op, !.tries = @ + 1])
     \/ /\ ~Retries(t) \/ ~Current(task[t].host, task[t].epoch)
        /\ Go(t, "leave")
  /\ UNCHANGED <<storeVars, hostVars, driverVars, bounds>>

MutLeave(t) ==
  LET h == task[t].host IN
  /\ task[t].pc = "leave"
  /\ registry' = [registry EXCEPT ![h].active = FALSE, ![h].handle = None]
  /\ Set(t, Idle)
  /\ UNCHANGED <<storeVars, call, canceller, pump, driverVars, bounds>>

\* Under the registry's lock: run again if asked to, else sign off.
Leave(t) ==
  LET h == task[t].host IN
  /\ task[t].pc = "leave"
  /\ IF registry[h].wake
     THEN /\ registry' = [registry EXCEPT ![h].wake = FALSE]
          /\ Go(t, "rerun")
     ELSE /\ registry' = [registry EXCEPT ![h].active = FALSE, ![h].handle = None]
          /\ Set(t, Idle)
  /\ UNCHANGED <<storeVars, call, canceller, pump, driverVars, bounds>>

Rerun(t) ==
  /\ task[t].pc = "rerun"
  /\ Set(t, [task[t] EXCEPT !.pc = "execute", !.snap = op, !.tries = 0])
  /\ UNCHANGED <<storeVars, hostVars, driverVars, bounds>>

(***************************************************************************)
(* FirstOperationService::resume_existing                                  *)
(***************************************************************************)
\* Somebody asks: a consumer repeats a start, a scheduler sweeps.
Call(h) ==
  /\ owner = h
  /\ op.state # "absent"
  /\ call[h] = Idle
  /\ calls < scenario.calls
  /\ calls' = calls + 1
  /\ call' = [call EXCEPT ![h] = [pc |-> "load", epoch |-> epoch]]
  /\ UNCHANGED <<storeVars, registry, task, canceller, pump, driverVars, faults, cancels>>

ResumeLoad(h) ==
  /\ call[h].pc = "load"
  /\ call' = [call EXCEPT ![h] =
       IF op.state \in Terminal \/ ~Current(h, call[h].epoch) THEN Idle
       ELSE [pc |-> "register", epoch |-> call[h].epoch, snap |-> op]]
  /\ UNCHANGED <<storeVars, registry, task, canceller, pump, driverVars, bounds>>

MutResumeRegister(h) ==
  /\ call[h].pc = "register"
  /\ call' = [call EXCEPT ![h] = Idle]
  /\ IF ~registry[h].accepting
     THEN UNCHANGED <<registry, task>>
     ELSE \E t \in Tasks :
            /\ Free(t)
            /\ Set(t, NewTask(h, call[h].epoch, "resume", "execute", call[h].snap))
            /\ registry' = [registry EXCEPT ![h].active = TRUE, ![h].handle = t]
  /\ UNCHANGED <<storeVars, canceller, pump, driverVars, bounds>>

ResumeRegister(h) ==
  /\ call[h].pc = "register"
  /\ call' = [call EXCEPT ![h] = Idle]
  /\ IF ~registry[h].accepting
     THEN UNCHANGED <<registry, task>>
     ELSE IF registry[h].active
     THEN registry' = [registry EXCEPT ![h].wake = TRUE] /\ UNCHANGED task
     ELSE \E t \in Tasks :
            /\ Free(t)
            /\ Set(t, NewTask(h, call[h].epoch, "resume", "execute", call[h].snap))
            /\ registry' = [registry EXCEPT ![h].active = TRUE, ![h].handle = t]
  /\ UNCHANGED <<storeVars, canceller, pump, driverVars, bounds>>

(***************************************************************************)
(* FirstOperationService::cancel_subtree                                   *)
(***************************************************************************)
CancelCommit(h) ==
  /\ canceller[h] = Idle
  /\ registry[h].accepting
  /\ cancels < scenario.cancels
  /\ cancels' = cancels + 1
  /\ CancelSubtree(h, epoch)
  /\ canceller' = [canceller EXCEPT ![h] = [pc |-> "unregister", epoch |-> epoch,
                                            told |-> op'.state = "cancelling"]]
  /\ UNCHANGED <<registry, task, call, pump, driverVars, faults, calls>>

CancelUnregister(h) ==
  /\ canceller[h].pc = "unregister"
  /\ registry' = [registry EXCEPT ![h].active = FALSE, ![h].handle = None]
  /\ canceller' = [canceller EXCEPT ![h] =
       [pc |-> "abort", epoch |-> @.epoch, told |-> @.told, victim |-> registry[h].handle]]
  /\ UNCHANGED <<storeVars, task, call, pump, driverVars, bounds>>

CancelAbort(h) ==
  /\ canceller[h].pc = "abort"
  /\ IF canceller[h].victim = None THEN UNCHANGED task ELSE Set(canceller[h].victim, Idle)
  /\ canceller' = [canceller EXCEPT ![h] =
       [pc |-> IF @.told THEN "drive" ELSE "resume", epoch |-> @.epoch]]
  /\ UNCHANGED <<storeVars, registry, call, pump, driverVars, bounds>>

\* The driver accepts the cancel message; failing that, the call ends here.
CancelDrive(h) ==
  /\ canceller[h].pc = "drive"
  /\ \/ /\ Current(h, canceller[h].epoch)
        /\ driver' = IF driver \in {"working", "asking"} THEN "told" ELSE driver
        /\ canceller' = [canceller EXCEPT ![h].pc = "resume"]
        /\ UNCHANGED faults
     \/ /\ IF Current(h, canceller[h].epoch) THEN Fault ELSE UNCHANGED faults
        /\ canceller' = [canceller EXCEPT ![h] = Idle]
        /\ UNCHANGED driver
  /\ UNCHANGED <<storeVars, registry, task, call, pump, report, acked, calls, cancels>>

CancelResume(h) ==
  /\ canceller[h].pc = "resume"
  /\ call[h] = Idle
  /\ canceller' = [canceller EXCEPT ![h] = Idle]
  /\ call' = IF op.state = "cancelling"
             THEN [call EXCEPT ![h] = [pc |-> "load", epoch |-> canceller[h].epoch]]
             ELSE call
  /\ UNCHANGED <<storeVars, registry, task, pump, driverVars, bounds>>

(***************************************************************************)
(* The mailbox pump of a tenure                                            *)
(***************************************************************************)
\* A sweep finds the input due, whatever the operation has reached, and gets
\* a ready instance for it: it neither waits for BeginStart nor takes a permit.
PumpSweep(h) ==
  /\ scenario.pumps
  /\ owner = h
  /\ pump[h] = Idle
  /\ op.state \in Unfinished
  /\ input \in {"queued", "doubt"}
  /\ launched \/ cancels = 0
  /\ launched' = TRUE
  /\ pump' = [pump EXCEPT ![h] = [pc |-> "deliver", epoch |-> epoch]]
  /\ UNCHANGED <<owner, epoch, op, input, ledger, asked, registry, task, call, canceller,
                 driverVars, bounds>>

PumpDeliver(h) ==
  /\ pump[h].pc = "deliver"
  /\ pump' = [pump EXCEPT ![h] = Idle]
  /\ IF Current(h, pump[h].epoch) /\ input \in {"queued", "doubt"}
     THEN \/ input' = "accepted" /\ driver' = "working" /\ UNCHANGED faults
          \/ /\ Fault
             /\ input' \in IF input = "queued" THEN {"doubt", "dead"} ELSE {"uncertain"}
             /\ UNCHANGED driver
     ELSE UNCHANGED <<input, driver, faults>>
  /\ UNCHANGED <<owner, epoch, op, launched, ledger, asked, registry, task, call, canceller,
                 report, acked, calls, cancels>>

(***************************************************************************)
(* The driver, the parent, and the host's life                             *)
(***************************************************************************)
DriverReports ==
  /\ report = "none"
  /\ \/ /\ driver = "working" /\ scenario.asks /\ asked.st = "no"
        /\ report' = "question" /\ driver' = "asking"
     \/ /\ \/ driver = "working" /\ (scenario.asks => asked.st = "answered")
           \/ driver = "told"
        /\ report' \in scenario.reports /\ driver' = "done"
     \/ /\ driver = "told"
        /\ report' = "cancelled" /\ driver' = "done"
  /\ UNCHANGED <<storeVars, registry, task, call, canceller, pump, acked, bounds>>

ParentReads ==
  /\ QuestionTaken
  /\ UNCHANGED <<registry, task, call, canceller, pump, driverVars, bounds>>

\* schedule_feedback: the answer is dispatched, then the operation resumed.
Feedback(h) ==
  /\ FeedbackAccepted(h)
  /\ scenario.early \/ \A t \in Tasks : task[t].pc # "waiting"
  /\ call[h] = Idle
  /\ call' = [call EXCEPT ![h] = [pc |-> "load", epoch |-> epoch]]
  /\ driver' = IF driver = "asking" THEN "working" ELSE driver
  /\ UNCHANGED <<registry, task, canceller, pump, report, acked, bounds>>

\* shutdown_until: the registry is drained under its lock, then every handle
\* it held is aborted and awaited.
Shutdown(h) ==
  /\ registry[h].accepting
  /\ epoch < MaxEpoch
  /\ registry' = [registry EXCEPT ![h] = [accepting |-> FALSE, active |-> FALSE,
                                          wake |-> FALSE, handle |-> None]]
  /\ IF registry[h].handle = None THEN UNCHANGED task ELSE Set(registry[h].handle, Idle)
  /\ UNCHANGED <<storeVars, call, canceller, pump, driverVars, bounds>>

\* The process ends, by a crash or after its shutdown, its lease runs out and
\* another process starts.
Restart(h) ==
  /\ epoch < MaxEpoch
  /\ \/ registry[h] # EmptyRegistry
     \/ {call[h], canceller[h], pump[h]} # {Idle}
  /\ IF owner = h THEN LoseOwnership ELSE UNCHANGED storeVars
  /\ registry' = [registry EXCEPT ![h] = EmptyRegistry]
  /\ task' = [t \in Tasks |-> IF t \in LiveOn(h) THEN Idle ELSE task[t]]
  /\ call' = [call EXCEPT ![h] = Idle]
  /\ canceller' = [canceller EXCEPT ![h] = Idle]
  /\ pump' = [pump EXCEPT ![h] = Idle]
  /\ UNCHANGED <<driverVars, bounds>>

Lose ==
  /\ LoseOwnership
  /\ UNCHANGED <<registry, task, call, canceller, pump, driverVars, bounds>>

\* Taking the session over.  Reconciliation schedules an operation that is
\* still queued; one that had begun waits for somebody's decision.
Acquire(h) ==
  /\ h \in scenario.hosts
  /\ registry[h].accepting
  /\ call[h] = Idle
  /\ scenario.reacquires \/ LiveOn(h) = {}
  /\ AcquireOwnership(h)
  /\ call' = IF op.state = "queued"
             THEN [call EXCEPT ![h] = [pc |-> "load", epoch |-> epoch']]
             ELSE call
  /\ UNCHANGED <<registry, task, canceller, pump, driverVars, bounds>>

Step(t) ==
  \/ Run(t) \/ Execute(t) \/ Reload(t) \/ EnsureReady(t) \/ Deliver(t) \/ Commit(t)
  \/ ObserveQuestion(t) \/ CheckWaiting(t) \/ ObserveTerminal(t) \/ CommitTerminal(t)
  \/ Acknowledge(t) \/ Settle(t) \/ Leave(t) \/ Rerun(t)
  \/ (ObserveFails(t) /\ owner # task[t].host)

ServiceStep(h) ==
  \/ ResumeLoad(h) \/ ResumeRegister(h)
  \/ CancelUnregister(h) \/ CancelAbort(h) \/ CancelDrive(h) \/ CancelResume(h)
  \/ PumpDeliver(h)

Next ==
  /\ \/ \E t \in Tasks : \/ Step(t) \/ ObserveFails(t) \/ ObserveTimesOut(t) \/ ObserveRejects(t)
                         \/ \E h \in Hosts : Start(h, t)
     \/ \E h \in Hosts : \/ ServiceStep(h) \/ Call(h) \/ CancelCommit(h) \/ Feedback(h)
                         \/ PumpSweep(h) \/ Shutdown(h) \/ Restart(h) \/ Acquire(h)
     \/ DriverReports \/ ParentReads \/ Lose
  /\ UNCHANGED scenario

Spec == Init /\ [][Next]_vars

\* The runtime polls every task that can run, drivers report and parents
\* answer in the end, a host that was shut down is started again, and a
\* session without an owner is taken over.
Fairness ==
  /\ \A t \in Tasks : WF_system(Step(t))
  /\ \A h \in Hosts : WF_system(ServiceStep(h)) /\ WF_system(Feedback(h))
  /\ WF_system(DriverReports) /\ WF_system(ParentReads)
  /\ \A h \in Hosts : WF_system(Restart(h) /\ ~registry[h].accepting)
  /\ SF_system(\E h \in Hosts : Acquire(h))

FairSpec == Spec /\ Fairness

\* The operation has ended with report r: its row is what the transition that
\* carried r left, and that is what r reports, or a failure for one too large.
EndedWith(r) ==
  /\ op.state = Becomes(r)
  /\ \E e \in ledger : e.ok /\ e.cmd.detail = r /\ e.snap = op

\* A driver's terminal report is acknowledged, and so forgotten by the driver,
\* only when the operation has durably ended with it: with the outcome it reports,
\* or, when its payload exceeds the bound, as failed (Worker::observe,
\* commit_terminal).  No failure of the worker's own, no other report and no
\* cancellation takes its place, before or after.
AckedIsCommitted == \A r \in acked : EndedWith(r)

\* At most one worker of a host drives the operation, and none once the host has
\* shut its service down, beside one that a cancellation has taken out of the
\* registry and is about to abort (WorkerRegistry::active, shutdown_until).  A
\* cancellation that meets a resumption may leave a worker the registry does not
\* know, hence the condition.
OneWorker ==
  cancels = 0 => \A h \in Hosts : \A t, u \in LiveOn(h) \ Victims :
    t = u /\ registry[h].accepting

\* A tenure ends cleanly: no command of it reaches the Store afterwards, and
\* its workers are gone before the host takes the session again.  Nothing is
\* cancelled, and no driver reports that it was.
Orderly ==
  /\ ~(scenario.late \/ scenario.early \/ scenario.reacquires)
  /\ scenario.cancels = 0 /\ "cancelled" \notin scenario.reports

\* Every operation that is started comes to a terminal outcome, unless the
\* tenure ends while it is being executed: no wake-up is lost between a worker
\* that signs off and an answer that arrives, and a later owner takes up what
\* is still queued (resume_existing, WorkerRegistry::wake_requested,
\* schedule_existing_operation).
Settles ==
  (Orderly /\ op.state = "queued") ~>
    (op.state \in Terminal \/ (owner = None /\ op.state # "queued"))

=============================================================================
