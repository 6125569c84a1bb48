-------------------------- MODULE MCDriverExecutor --------------------------
(* Small instances of DriverExecutor for TLC. *)
EXTENDS DriverExecutor

Base ==
  [configs |-> {"c1"}, epochs |-> 2, faults |-> 0, descendants |-> FALSE,
   stubborn |-> FALSE, drops |-> 0, crashes |-> 0]

\* Futures dropped at any await, and a change of tenure.
Dropped == [Base EXCEPT !.drops = 1]

\* Drivers with descendants that resist being stopped, and a crash.
Crashed == [Base EXCEPT !.descendants = TRUE, !.stubborn = TRUE, !.crashes = 1]

DroppedGroups == [Base EXCEPT !.descendants = TRUE, !.stubborn = TRUE, !.drops = 1]

\* A failing Store call or spawn, or an expired wait.
Faulty == [Base EXCEPT !.faults = 1, !.stubborn = TRUE]

FaultyGroups == [Base EXCEPT !.faults = 1, !.descendants = TRUE, !.stubborn = TRUE]

\* Two configurations replace each other.
Replaced == [Base EXCEPT !.configs = {"c1", "c2"}]

ReplacedStubborn == [Base EXCEPT !.configs = {"c1", "c2"}, !.epochs = 1, !.stubborn = TRUE]

AllScenarios ==
  {Dropped, Crashed, DroppedGroups, Faulty, FaultyGroups, Replaced, ReplacedStubborn}

=============================================================================
