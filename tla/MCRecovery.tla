----------------------------- MODULE MCRecovery -----------------------------
(* Small instances of Recovery for TLC. *)
EXTENDS Recovery

CONSTANTS r1, r2

Base ==
  [requests |-> {r1}, kinds |-> {"resume"}, pump |-> FALSE, others |-> FALSE, epochs |-> 2,
   crashes |-> 1, faults |-> 0]

\* Two calls overlap and share an installed epoch.
Overlap == [Base EXCEPT !.requests = {r1, r2}]

\* Every kind of call, retried after a failing Store call.
Calls == [Base EXCEPT !.kinds = Kinds, !.faults = 1, !.epochs = 3]

\* The mailbox pump works beside the call.
Pumped == [Base EXCEPT !.pump = TRUE]

\* A consumer that keeps calling ResumeSession over three tenures.
Insists == [Base EXCEPT !.epochs = 3]

\* The same beside the recovery of another session.
Beside == [Insists EXCEPT !.others = TRUE]

AllScenarios == {Overlap, Calls, Pumped, Insists, Beside}

=============================================================================
