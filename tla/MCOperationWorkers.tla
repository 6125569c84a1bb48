------------------------- MODULE MCOperationWorkers -------------------------
(* Small instances of OperationWorkers for TLC. *)
EXTENDS OperationWorkers

CONSTANTS h1, h2, t1, t2

MCHosts == {h1, h2}

MCTasks == {t1, t2}

Base ==
  [hosts |-> {h1}, epochs |-> 1, faults |-> 0, calls |-> 0, cancels |-> 0,
   reports |-> {"succeeded"}, asks |-> FALSE, pumps |-> FALSE, late |-> FALSE, early |-> FALSE, reacquires |-> FALSE]

\* Two hosts in turn, one failure, a crash or a shutdown anywhere.
Takeover == [Base EXCEPT !.hosts = MCHosts, !.epochs = 2, !.faults = 1, !.calls = 1]

\* A question to the parent, and calls that race the worker that asked it.
Question == [Base EXCEPT !.asks = TRUE, !.calls = 2, !.faults = 1]

\* The pump delivers the input beside the worker.
Pumped == [Base EXCEPT !.pumps = TRUE, !.faults = 1, !.calls = 1]

\* Stale workers whose commands reach the Store, and a cancellation.
Fencing == [Base EXCEPT !.hosts = MCHosts, !.epochs = 2, !.faults = 1, !.cancels = 1,
                        !.late = TRUE, !.reacquires = TRUE]

\* Everything one host can meet in two tenures, but for cancellations.
Registry == [Base EXCEPT !.epochs = 2, !.faults = 1, !.calls = 2, !.asks = TRUE,
                         !.early = TRUE, !.reacquires = TRUE]

\* Any terminal report, by a driver that may be told to cancel.
Reports == [Base EXCEPT !.epochs = 2, !.faults = 1, !.cancels = 1, !.reports = TerminalReports]

\* Any report a driver makes that was not told to cancel.
Endings == [Base EXCEPT !.epochs = 2, !.faults = 1,
                        !.reports = TerminalReports \ {"cancelled"}]

AllScenarios == {Takeover, Question, Pumped, Fencing, Registry, Reports, Endings}

=============================================================================
