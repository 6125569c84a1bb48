---------------------------- MODULE MCDriverLink ----------------------------
(***************************************************************************)
(* A driver instance and the host's end of it, for TLC: scenarios of one   *)
(* or two operations, their agent's script and the faults that may happen. *)
(***************************************************************************)
EXTENDS DriverLink, TLC

Says(x) == [do |-> "report", x |-> x]
Commands(q) == [do |-> "hier", x |-> q]
Uses(q) == [do |-> "tool", x |-> q]

None == [m \in {"m1", "m2", "chat"} |-> <<>>]
Base == [op |-> [m \in {"m1", "m2"} |-> IF m = "m1" THEN "o1" ELSE "o2"],
         script |-> None, MaxFaults |-> 0, faulty |-> {}, MaxBoots |-> 1,
         work |-> <<"m1">>, sweep |-> "", MaxAttempts |-> 2, varying |-> {}, side |-> {},
         implicit |-> FALSE, MaxDeliveries |-> 2]

\* One operation with a command, a tool call and reports, and two slow answers.
Slow == [Base EXCEPT
    !.script = [None EXCEPT !["m1"] = <<Commands("h1"), Uses("t1"), Says("succeeded")>>],
    !.MaxFaults = 3, !.faulty = {"late", "observe", "remind"}]

\* Two operations behind each other; the first one meets its deadline.
Behind == [Base EXCEPT
    !.script = [None EXCEPT !["m1"] = <<Uses("t1"), Says("succeeded")>>,
                            !["m2"] = <<>>],
    !.implicit = TRUE,
    !.work = <<"m1", "m2">>, !.MaxFaults = 1, !.faulty = {"late", "remind", "deadline"}]

\* A status command applied again answers differently, and the stream is closed.
Varying == [Base EXCEPT
    !.script = [None EXCEPT !["m1"] = <<Commands("h1"), Says("succeeded")>>,
                            !["m2"] = <<Says("succeeded")>>],
    !.work = <<"m1", "m2">>, !.MaxFaults = 1, !.faulty = {"remind", "observe"},
    !.varying = {"h1"}, !.side = {"stop"}]

\* The sweep delivers a second message of the operation, and a question is asked;
\* the first turn may fail with the second one behind it.
Swept == [Base EXCEPT
    !.op = [m \in {"m1", "m2"} |-> "o1"],
    !.script = [None EXCEPT !["m1"] = <<Says("progress"), Says("question")>>,
                            !["m2"] = <<Says("progress")>>],
    !.sweep = "m2", !.MaxFaults = 2, !.faulty = {"late", "observe", "session"}]

\* A delivery given up on is served after another attempt has taken its place and
\* its turn has failed.
Replaced == [Base EXCEPT !.MaxFaults = 3, !.faulty = {"late", "session"}]

\* The process dies and is started again with its journal.
Restart == [Base EXCEPT
    !.script = [None EXCEPT !["m1"] = <<Says("progress"), Says("succeeded")>>],
    !.MaxFaults = 2, !.faulty = {"crash", "append", "late"}, !.MaxBoots = 2]

\* The same with a turn that failed, and a journal of more messages than a
\* process schedules.
Crowded == [Base EXCEPT
    !.op = [m \in {"m1", "m2"} |-> "o1"],
    !.sweep = "m2", !.MaxFaults = 2, !.faulty = {"crash", "session"}, !.MaxBoots = 2,
    !.MaxDeliveries = 1]

\* The same with a command and a tool call in flight.
RestartCommand == [Base EXCEPT
    !.script = [None EXCEPT !["m1"] = <<Commands("h1"), Uses("t1"), Says("succeeded")>>],
    !.MaxFaults = 2, !.faulty = {"crash", "append", "eof"}, !.MaxBoots = 2,
    !.varying = {"h1"}]

\* Cancellation and stop from the side, a terminal line, a message without an
\* operation, a failing prompt and a command published twice.
Sides == [Base EXCEPT
    !.op = [m \in {"m1", "m2"} |-> IF m = "m1" THEN "o1" ELSE ""],
    !.script = [None EXCEPT !["m1"] = <<Commands("h1"), Commands("h1"), Says("succeeded")>>,
                            !["chat"] = <<Says("succeeded")>>],
    !.sweep = "m2", !.MaxFaults = 1, !.faulty = {"session"}, !.side = {"cancel", "stop"}]

MCScenarios == {Slow, Behind, Varying, Swept, Replaced, Restart, Crowded, RestartCommand, Sides}

=============================================================================
