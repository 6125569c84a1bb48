----------------------- MODULE OperationWorkersProofs -----------------------
(***************************************************************************)
(* Theorems about the operation workers, for any number of hosts and       *)
(* tasks, any number of tenures, failures, calls and cancellations; and    *)
(* about the catalogs of tools that their drivers are launched with, for   *)
(* any registrations, provider streams, operations and tenures.            *)
(***************************************************************************)
EXTENDS OperationWorkers, ToolCatalog, TLAPS

\* A leaf is tried with SMT, with Zenon, and then with SMT and more time.
USE SMT, Zenon, SMTT(10), SMTT(20), SMTT(30)

States == {"absent"} \cup Unfinished \cup Terminal

Snaps == [state : States, rev : Nat]

Actions == {"BeginStart", "ReportRunning", "ReportFailure", "ReportUncertain", "ReportSuccess",
            "ReportCancelled", "ReportBlocked"}

Details == {"none", "capacity", "executor_unavailable", "delivery_rejected", "unknown",
            "delivery failed", "observe", "result_deadline", "invalid_question", "invalid_report"}
           \cup TerminalReports

Commands ==
  [action : Actions, ord : Nat, host : Hosts, epoch : Nat, rev : Nat, cites : {"none", "input"},
   detail : Details]

Places == {"start", "execute", "reload", "ready", "deliver", "observe", "waiting", "commit",
           "ack", "finish", "leave", "rerun"} \cup TerminalReports

Workers ==
  [pc : Places, host : Hosts, epoch : Nat, kind : {"start", "resume"}, tries : Nat, snap : Snaps,
   cmd : {NoCommand} \cup Commands, ok : BOOLEAN]

Registries == [accepting : BOOLEAN, active : BOOLEAN, wake : BOOLEAN, handle : Tasks \cup {None}]

Calls == {Idle} \cup [pc : {"load"}, epoch : Nat] \cup [pc : {"register"}, epoch : Nat, snap : Snaps]

Cancellers ==
  {Idle} \cup [pc : {"unregister"}, epoch : Nat, told : BOOLEAN]
         \cup [pc : {"abort"}, epoch : Nat, told : BOOLEAN, victim : Tasks \cup {None}]
         \cup [pc : {"drive", "resume"}, epoch : Nat]

TypeInv ==
  /\ epoch \in Nat /\ op \in Snaps
  /\ ledger \subseteq [cmd : Commands, ok : BOOLEAN, snap : Snaps]
  /\ task \in [Tasks -> {Idle} \cup Workers]
  /\ registry \in [Hosts -> Registries]
  /\ call \in [Hosts -> Calls]
  /\ canceller \in [Hosts -> Cancellers]
  /\ cancels \in Nat
  /\ report \in {"none", "question"} \cup TerminalReports

\* A command that carries a driver's report is the one whose action leads to it.
Honest(c) ==
  /\ c \in Commands
  /\ c.detail \in TerminalReports => c.action = ReportAction[c.detail]

\* What a task in r may be about to do.
Truthful(r) ==
  /\ r.pc = "commit" => Honest(r.cmd)
  /\ r.pc = "ack" => r.cmd \in Commands /\ r.cmd.detail \in TerminalReports /\ EndedWith(r.cmd.detail)

\* A positive answer of the ledger: to a report it is what the report leads to,
\* and when the operation has ended with it the row is still the same.
Stands(e) ==
  e.ok => /\ e.cmd.detail \in TerminalReports => e.snap.state = Becomes(e.cmd.detail)
          /\ e.snap.state \in Terminal => e.snap = op

\* The ledger's positive answers, and the acknowledged reports, still stand.
OutcomeInv ==
  /\ \A t \in Tasks : Truthful(task[t])
  /\ \A e \in ledger : Stands(e)
  /\ \A r \in acked : r \in TerminalReports /\ EndedWith(r)

\* Until something is cancelled the registry knows every live worker.
RegistryInv ==
  cancels = 0 =>
    /\ \A h \in Hosts : canceller[h] = Idle
    /\ \A t \in Tasks : Live(t) => LET g == registry[task[t].host]
                                   IN g.accepting /\ g.active /\ g.handle = t

WInv == TypeInv /\ OutcomeInv /\ RegistryInv

-----------------------------------------------------------------------------
(* The Store.                                                              *)

OpMoves == op' \in Snaps /\ (op.state \in Terminal => op' = op)

LedgerKept ==
  /\ ledger' \subseteq [cmd : Commands, ok : BOOLEAN, snap : Snaps]
  /\ ledger \subseteq ledger'
  /\ \A e \in ledger' : Stands(e)'

StoreKept == epoch' \in Nat /\ OpMoves /\ LedgerKept

LEMMA LoadEpoch == \A c \in Calls : c.pc = "load" => c.epoch \in Nat
  BY DEF Calls, Idle

\* A canceller on its way has the epoch it cancels under.
LEMMA CancellerRuns == \A c \in Cancellers : c.pc \in {"drive", "resume"} => c.epoch \in Nat /\ c # Idle
  BY DEF Cancellers, Idle

LEMMA NextStates ==
  ASSUME NEW s, NEW a
  PROVE  /\ NextState(s, a) # None => NextState(s, a) \in States
         /\ s \in Terminal => NextState(s, a) = None
  <1>1. NextState(s, a) # None => NextState(s, a) \in States
    BY DEF NextState, States, Unfinished, Terminal
  <1>2. s \in Terminal => NextState(s, a) = None
    BY DEF NextState, Terminal, Unfinished
  <1> QED BY <1>1, <1>2

\* An allowed report leads to the outcome it reports.
LEMMA ReportLeads ==
  ASSUME NEW s, NEW r \in TerminalReports, NextState(s, ReportAction[r]) # None
  PROVE  NextState(s, ReportAction[r]) = Becomes(r)
  <1>1. CASE r = "succeeded"
    BY <1>1 DEF ReportAction, Becomes, NextState
  <1>2. CASE r = "failed"
    BY <1>2 DEF ReportAction, Becomes, NextState
  <1>3. CASE r = "cancelled"
    BY <1>3 DEF ReportAction, Becomes, NextState
  <1>4. CASE r = "blocked"
    BY <1>4 DEF ReportAction, Becomes, NextState
  <1>5. CASE r = "uncertain"
    BY <1>5 DEF ReportAction, Becomes, NextState
  <1>6. CASE r = "oversized"
    BY <1>6 DEF ReportAction, Becomes, NextState
  <1> QED BY <1>1, <1>2, <1>3, <1>4, <1>5, <1>6 DEF TerminalReports, Terminal

LEMMA BecomesTerminal == \A r \in TerminalReports : Becomes(r) \in Terminal
  BY DEF TerminalReports, Becomes, Terminal

\* How an operation has ended is not undone.
LEMMA EndStays ==
  ASSUME StoreKept, NEW r \in TerminalReports, EndedWith(r)
  PROVE  EndedWith(r)'
  BY BecomesTerminal DEF StoreKept, OpMoves, LedgerKept, EndedWith

LEMMA OpOnly ==
  ASSUME WInv, OpMoves, ledger' = ledger, epoch' \in Nat
  PROVE  StoreKept
  BY DEF WInv, TypeInv, OutcomeInv, OpMoves, StoreKept, LedgerKept, Stands

LEMMA StoreRests ==
  ASSUME WInv, UNCHANGED <<op, ledger>>, epoch' \in Nat
  PROVE  StoreKept
  BY OpOnly DEF WInv, TypeInv, OpMoves

\* A command that is answered has its effect, now or since it was recorded.
LEMMA Transitions ==
  ASSUME WInv, NEW c, Honest(c), TransitionOperation(c)
  PROVE  /\ StoreKept
         /\ Answered(c) => /\ Snapshot(c) \in Snaps
                           /\ c.detail \in TerminalReports => EndedWith(c.detail)'
  <1>0. c \in Commands
    BY DEF Honest
  <1>1. epoch' \in Nat
    BY DEF TransitionOperation, WInv, TypeInv
  <1>2. ASSUME Commits(c)
        PROVE  /\ op' = Snapshot(c) /\ op' \in Snaps /\ op.state \notin Terminal
               /\ c.detail \in TerminalReports => op'.state = Becomes(c.detail)
    <2>1. op' = Snapshot(c) /\ NextState(op.state, c.action) # None
      BY <1>2 DEF TransitionOperation, Commits
    <2>2. op' = [state |-> NextState(op.state, c.action), rev |-> op.rev + 1]
      BY <1>2, <2>1 DEF Snapshot
    <2>3. op.rev + 1 \in Nat
      BY DEF WInv, TypeInv, Snaps
    <2>4. op' \in Snaps /\ op.state \notin Terminal
      BY <2>1, <2>2, <2>3, NextStates DEF Snaps
    <2>5. ASSUME c.detail \in TerminalReports PROVE op'.state = Becomes(c.detail)
      <3>1. c.action = ReportAction[c.detail]
        BY <2>5 DEF Honest
      <3>2. op'.state = NextState(op.state, c.action)
        BY <2>2
      <3> QED BY <2>1, <2>5, <3>1, <3>2, ReportLeads, Zenon
    <2> QED BY <2>1, <2>4, <2>5
  <1>3. ~Commits(c) => op' = op
    BY DEF TransitionOperation
  <1>4. OpMoves
    BY <1>2, <1>3 DEF OpMoves, WInv, TypeInv
  <1>5. Recorded(c) \subseteq ledger
    BY DEF Recorded
  <1>n. PICK new : new = [cmd |-> c, ok |-> Commits(c), snap |-> op']
    OBVIOUS
  <1>6. \/ ~Commits(c) /\ ledger' = ledger
        \/ ledger' = ledger \cup {new}
    BY <1>n DEF TransitionOperation, Commits
  <1>7. /\ new \in [cmd : Commands, ok : BOOLEAN, snap : Snaps]
        /\ new.cmd = c /\ new.ok = Commits(c) /\ new.snap = op'
    BY <1>n, <1>0, <1>4 DEF OpMoves, Commits
  <1>8. LedgerKept
    <2>1. CASE ledger' = ledger
      BY <1>1, <1>4, <2>1, OpOnly DEF StoreKept
    <2>2. CASE ledger' = ledger \cup {new}
      <3>1. Stands(new)'
        BY <1>2, <1>7 DEF Stands
      <3>2. \A e \in ledger : Stands(e)'
        BY <1>4 DEF WInv, OutcomeInv, OpMoves, Stands
      <3> QED BY <1>7, <2>2, <3>1, <3>2 DEF LedgerKept, WInv, TypeInv
    <2> QED BY <1>6, <2>1, <2>2
  <1>9. ASSUME Commits(c), c.detail \in TerminalReports PROVE EndedWith(c.detail)'
    BY <1>2, <1>6, <1>7, <1>9 DEF EndedWith
  <1>10. ASSUME ~Commits(c), Answered(c)
         PROVE  /\ Snapshot(c) \in Snaps
                /\ c.detail \in TerminalReports => EndedWith(c.detail)'
    <2>1. PICK e \in Recorded(c) : e.cmd = c /\ e.ok
      BY <1>10 DEF Answered, Replays
    <2>2. c.detail \in TerminalReports => e.snap.state = Becomes(c.detail) /\ e.snap = op
      BY <1>5, <2>1, BecomesTerminal DEF WInv, OutcomeInv, Stands
    <2>3. Snapshot(c) = (CHOOSE x \in Recorded(c) : TRUE).snap
      BY <1>10 DEF Snapshot
    <2>4. (CHOOSE x \in Recorded(c) : TRUE) \in Recorded(c)
      BY <2>1
    <2>5. Snapshot(c) \in Snaps
      BY <1>5, <2>3, <2>4 DEF WInv, TypeInv
    <2>6. c.detail \in TerminalReports => EndedWith(c.detail)
      BY <1>5, <2>1, <2>2 DEF EndedWith
    <2>7. StoreKept
      BY <1>1, <1>4, <1>8 DEF StoreKept
    <2> QED BY <2>5, <2>6, <2>7, EndStays
  <1> QED BY <1>1, <1>2, <1>4, <1>8, <1>9, <1>10 DEF StoreKept

-----------------------------------------------------------------------------
(* The tasks.                                                              *)

TypeRest ==
  /\ registry \in [Hosts -> Registries]
  /\ call \in [Hosts -> Calls]
  /\ canceller \in [Hosts -> Cancellers]
  /\ cancels \in Nat
  /\ report \in {"none", "question"} \cup TerminalReports

LEMMA Keeps ==
  ASSUME WInv, StoreKept, TypeRest', RegistryInv',
         task' \in [Tasks -> {Idle} \cup Workers],
         \A t \in Tasks : task'[t] \in {task[t], Idle} \/ Truthful(task[t])',
         \A r \in acked' : r \in acked \/ (r \in TerminalReports /\ EndedWith(r)')
  PROVE  WInv'
  <1>1. TypeInv'
    BY DEF TypeInv, TypeRest, StoreKept, OpMoves, LedgerKept
  <1>2. ASSUME NEW t \in Tasks PROVE Truthful(task[t])'
    <2>1. CASE task'[t] = task[t]
      <3>1. Truthful(task[t])
        BY DEF WInv, OutcomeInv
      <3>2. CASE task[t].pc = "ack"
        BY <2>1, <3>1, <3>2, EndStays DEF Truthful
      <3>3. CASE task[t].pc # "ack"
        BY <2>1, <3>1, <3>3 DEF Truthful
      <3> QED BY <3>2, <3>3
    <2>2. CASE task'[t] = Idle
      BY <2>2 DEF Truthful, Idle
    <2> QED BY <2>1, <2>2
  <1>3. ASSUME NEW r \in acked' PROVE r \in TerminalReports /\ EndedWith(r)'
    BY <1>3, EndStays DEF WInv, OutcomeInv
  <1>4. OutcomeInv'
    BY <1>2, <1>3 DEF OutcomeInv, StoreKept, LedgerKept
  <1> QED BY <1>1, <1>4 DEF WInv

\* A live worker takes a step of its own.
LEMMA WorkerMoves ==
  ASSUME WInv, StoreKept, NEW t \in Tasks, NEW r \in Workers, Live(t),
         Set(t, r), r.host = task[t].host, Truthful(r)',
         UNCHANGED <<registry, call, canceller, cancels>>,
         report' \in {"none", "question"} \cup TerminalReports,
         \A x \in acked' : x \in acked \/ (x \in TerminalReports /\ EndedWith(x)')
  PROVE  WInv'
  <1>1. /\ task' \in [Tasks -> {Idle} \cup Workers] /\ task'[t] = r
        /\ \A u \in Tasks \ {t} : task'[u] = task[u]
    BY DEF Set, WInv, TypeInv
  <1>2. TypeRest'
    BY DEF TypeRest, WInv, TypeInv
  <1>3. RegistryInv'
    BY <1>1 DEF WInv, RegistryInv, Live
  <1> QED BY <1>1, <1>2, <1>3, Keeps

\* Tasks are only ended.
LEMMA TasksEnd ==
  ASSUME WInv, StoreKept, TypeRest', RegistryInv', acked' = acked,
         task' \in [Tasks -> {Idle} \cup Workers],
         \A t \in Tasks : task'[t] \in {task[t], Idle}
  PROVE  WInv'
  BY Keeps

LEMMA LiveWorker ==
  ASSUME WInv, NEW t \in Tasks, Live(t)
  PROVE  /\ task[t] \in Workers
         /\ op \in Snaps /\ report \in {"none", "question"} \cup TerminalReports /\ epoch \in Nat
         /\ Truthful(task[t])
  BY DEF WInv, TypeInv, OutcomeInv, Live, Idle

WorkerFrame ==
  /\ UNCHANGED <<registry, call, canceller, cancels>>
  /\ report' \in {"none", "question"} \cup TerminalReports
  /\ acked' = acked

Moves(t, pc) ==
  \/ Go(t, pc)
  \/ \E ok \in BOOLEAN : Set(t, [task[t] EXCEPT !.pc = pc, !.ok = ok])
  \/ \E sn \in Snaps :
       \/ Set(t, [task[t] EXCEPT !.pc = pc, !.snap = sn])
       \/ \E ok \in BOOLEAN : Set(t, [task[t] EXCEPT !.snap = sn, !.ok = ok, !.pc = pc])
       \/ \E n \in Nat : Set(t, [task[t] EXCEPT !.pc = pc, !.snap = sn, !.tries = n])

\* A worker goes on without a command.
LEMMA GoesOn ==
  ASSUME WInv, StoreKept, WorkerFrame, NEW t \in Tasks, Live(t),
         NEW pc \in Places \ {"commit", "ack"}, Moves(t, pc)
  PROVE  WInv'
  <1>0. PICK ok \in BOOLEAN, sn \in Snaps, n \in Nat :
          \/ Go(t, pc)
          \/ Set(t, [task[t] EXCEPT !.pc = pc, !.ok = ok])
          \/ Set(t, [task[t] EXCEPT !.pc = pc, !.snap = sn])
          \/ Set(t, [task[t] EXCEPT !.snap = sn, !.ok = ok, !.pc = pc])
          \/ Set(t, [task[t] EXCEPT !.pc = pc, !.snap = sn, !.tries = n])
    <2>1. op \in Snaps /\ TRUE \in BOOLEAN /\ 0 \in Nat
      BY DEF WInv, TypeInv
    <2> QED BY <2>1, Zenon DEF Moves
  <1>1. PICK w \in Workers : w = task[t]
    BY LiveWorker
  <1>2. PICK r : /\ Set(t, r)
                 /\ \/ r = [w EXCEPT !.pc = pc]
                    \/ r = [w EXCEPT !.pc = pc, !.ok = ok]
                    \/ r = [w EXCEPT !.pc = pc, !.snap = sn]
                    \/ r = [w EXCEPT !.snap = sn, !.ok = ok, !.pc = pc]
                    \/ r = [w EXCEPT !.pc = pc, !.snap = sn, !.tries = n]
    BY <1>0, <1>1, Zenon DEF Go
  <1>3. r \in Workers /\ r.host = w.host /\ r.pc = pc
    <2> DEFINE a == [w EXCEPT !.pc = pc]
               s1 == [a EXCEPT !.snap = sn]
    <2>1. a \in Workers /\ a.host = w.host /\ a.pc = pc /\ a.cmd = w.cmd
      BY <1>1 DEF Workers
    <2>2. [w EXCEPT !.snap = sn, !.ok = ok, !.pc = pc] = [s1 EXCEPT !.ok = ok]
      BY <1>0, <1>1, Zenon DEF Workers
    <2>3. r \in {a, [a EXCEPT !.ok = ok], s1, [s1 EXCEPT !.ok = ok], [s1 EXCEPT !.tries = n]}
      BY <1>2, <2>2
    <2> HIDE DEF a
    <2>4. s1 \in Workers /\ s1.host = w.host /\ s1.pc = pc /\ s1.cmd = w.cmd
      BY <1>0, <2>1 DEF Workers
    <2>5. CASE r = [a EXCEPT !.ok = ok]
      BY <1>0, <2>1, <2>5 DEF Workers
    <2> HIDE DEF s1
    <2>6. CASE r = [s1 EXCEPT !.ok = ok]
      BY <1>0, <2>4, <2>6 DEF Workers
    <2>7. CASE r = [s1 EXCEPT !.tries = n]
      BY <1>0, <2>4, <2>7 DEF Workers
    <2> QED BY <2>1, <2>3, <2>4, <2>5, <2>6, <2>7
  <1>4. Truthful(r)'
    BY <1>3 DEF Truthful
  <1> QED BY <1>1, <1>2, <1>3, <1>4, WorkerMoves DEF WorkerFrame

\* A worker makes a command, with what it last read or what it reads now.
LEMMA Submits ==
  ASSUME WInv, StoreKept, WorkerFrame, NEW t \in Tasks, Live(t), NEW sn \in Snaps, NEW c, Honest(c),
         \/ Submit(t, c)
         \/ Set(t, [task[t] EXCEPT !.pc = "commit", !.snap = sn, !.cmd = c])
  PROVE  WInv'
  <1>1. PICK w \in Workers : w = task[t]
    BY LiveWorker
  <1>2. PICK r : /\ Set(t, r)
                 /\ \/ r = [w EXCEPT !.pc = "commit", !.cmd = c]
                    \/ r = [w EXCEPT !.pc = "commit", !.snap = sn, !.cmd = c]
    BY <1>1, Zenon DEF Submit
  <1>3. c \in Commands
    BY DEF Honest
  <1>4. r \in Workers /\ r.host = w.host /\ r.pc = "commit" /\ r.cmd = c
    <2> DEFINE a == [w EXCEPT !.pc = "commit"]
               s1 == [a EXCEPT !.snap = sn]
    <2>1. a \in Workers /\ a.host = w.host /\ a.pc = "commit"
      BY <1>1 DEF Workers, Places
    <2>2. r \in {[a EXCEPT !.cmd = c], [s1 EXCEPT !.cmd = c]}
      BY <1>2
    <2> HIDE DEF a
    <2>3. s1 \in Workers /\ s1.host = w.host /\ s1.pc = "commit"
      BY <2>1 DEF Workers
    <2>4. CASE r = [a EXCEPT !.cmd = c]
      BY <1>3, <2>1, <2>4 DEF Workers
    <2> HIDE DEF s1
    <2>5. CASE r = [s1 EXCEPT !.cmd = c]
      BY <1>3, <2>3, <2>5 DEF Workers
    <2> QED BY <2>2, <2>4, <2>5
  <1>5. Truthful(r)'
    BY <1>4 DEF Truthful
  <1> QED BY <1>1, <1>2, <1>4, <1>5, WorkerMoves DEF WorkerFrame

LEMMA ReportActions == \A r \in TerminalReports : ReportAction[r] \in Actions
  BY DEF ReportAction, TerminalReports, Terminal, Actions

\* What a worker says of its own accord is no report of the driver.
LEMMA OwnDetails ==
  {"none", "capacity", "executor_unavailable", "delivery_rejected", "unknown", "delivery failed",
   "observe", "result_deadline", "invalid_question", "invalid_report"} \subseteq Details \ TerminalReports
  BY DEF Details, TerminalReports, Terminal

\* The commands the worker makes for itself report no outcome of the driver.
LEMMA Commanded ==
  ASSUME WInv, NEW t \in Tasks, Live(t), NEW action \in Actions, NEW ord \in Nat,
         NEW cites \in {"none", "input"}, NEW detail \in Details \ TerminalReports
  PROVE  Honest(Command(t, action, ord, cites, detail))
  <1>1. task[t].host \in Hosts /\ task[t].epoch \in Nat /\ task[t].snap.rev \in Nat
    BY LiveWorker DEF Workers, Snaps
  <1> QED BY <1>1 DEF Honest, Command, Commands

LEMMA GivesUp ==
  ASSUME WInv, StoreKept, WorkerFrame, NEW t \in Tasks, Live(t), NEW ord \in Nat,
         NEW detail \in Details \ TerminalReports,
         Fail(t, detail, ord) \/ Uncertain(t, detail, ord) \/ Broken(t, detail)
         \/ \E ok \in BOOLEAN : Finish(t, ok)
  PROVE  WInv'
  <1>0. op \in Snaps /\ 3 \in Nat
    BY DEF WInv, TypeInv
  <1>1. ASSUME NEW ok \in BOOLEAN, Finish(t, ok) PROVE WInv'
    BY <1>1, GoesOn, Zenon DEF Finish, Moves, Places
  <1>2. ASSUME NEW n \in Nat, Fail(t, detail, n) PROVE WInv'
    <2>1. PICK c : c = Command(t, "ReportFailure", n, SystemReport(t), detail)
      OBVIOUS
    <2>2. Honest(c)
      BY <1>2, <2>1, Commanded DEF SystemReport, Actions
    <2> QED BY <1>0, <1>2, <2>1, <2>2, Submits, Zenon DEF Fail
  <1>3. ASSUME NEW n \in Nat, Uncertain(t, detail, n) PROVE WInv'
    <2>1. PICK c : c = Command(t, "ReportUncertain", n, SystemReport(t), detail)
      OBVIOUS
    <2>2. Honest(c)
      BY <1>3, <2>1, Commanded DEF SystemReport, Actions
    <2> QED BY <1>0, <1>3, <2>1, <2>2, Submits, Zenon DEF Uncertain
  <1>4. CASE Broken(t, detail)
    BY <1>0, <1>1, <1>3, <1>4, Zenon DEF Broken
  <1> QED BY <1>1, <1>2, <1>3, <1>4

LEMMA CommitKeeps ==
  ASSUME WInv, NEW t \in Tasks, Commit(t)
  PROVE  WInv'
  <1>1. Live(t) /\ task[t].pc = "commit"
    BY DEF Commit, Live
  <1>2. PICK w \in Workers : w = task[t] /\ Honest(w.cmd)
    BY <1>1, LiveWorker DEF Truthful
  <1>3. PICK c \in Commands : c = w.cmd
    BY <1>2 DEF Honest
  <1>4. WorkerFrame
    BY LiveWorker, <1>1 DEF Commit, WorkerFrame, hostVars, driverVars, bounds
  <1>5. CASE Finish(t, FALSE) /\ UNCHANGED storeVars
    <2>1. StoreKept
      BY <1>5, StoreRests DEF storeVars, WInv, TypeInv
    <2> QED BY <1>1, <1>4, <1>5, <2>1, GoesOn, Zenon DEF Finish, Moves, Places
  <1>6. CASE TransitionOperation(c) /\ ~Answered(c) /\ Finish(t, FALSE)
    <2>1. StoreKept
      BY <1>2, <1>3, <1>6, Transitions
    <2> QED BY <1>1, <1>4, <1>6, <2>1, GoesOn, Zenon DEF Finish, Moves, Places
  <1>7. ASSUME TransitionOperation(c), Answered(c), NEW pc \in {"reload", "observe", "ack", "finish"},
               Set(t, [task[t] EXCEPT !.snap = Snapshot(c), !.ok = TRUE, !.pc = pc]),
               pc = "ack" => c.detail \in TerminalReports
        PROVE  WInv'
    <2>1. /\ StoreKept /\ Snapshot(c) \in Snaps
          /\ c.detail \in TerminalReports => EndedWith(c.detail)'
      BY <1>2, <1>3, <1>7, Transitions
    <2>2. PICK sn \in Snaps : sn = Snapshot(c)
      BY <2>1
    <2>3. CASE pc # "ack"
      <3>1. pc \in Places \ {"commit", "ack"}
        BY <1>7, <2>3 DEF Places
      <3>2. Moves(t, pc)
        BY <1>7, <2>1, Zenon DEF Moves
      <3> QED BY <1>1, <1>4, <2>1, <3>1, <3>2, GoesOn
    <2>4. CASE pc = "ack"
      <3>1. PICK r : r = [w EXCEPT !.snap = sn, !.ok = TRUE, !.pc = "ack"]
        OBVIOUS
      <3>2. Set(t, r)
        BY <1>2, <1>7, <2>2, <2>4, <3>1
      <3>3. r \in Workers /\ r.host = w.host /\ r.pc = "ack" /\ r.cmd = c
        BY <1>2, <1>3, <2>2, <3>1, Zenon DEF Workers, Places
      <3>4. c.detail \in TerminalReports /\ EndedWith(c.detail)'
        BY <1>7, <2>1, <2>4
      <3>5. Truthful(r)'
        BY <1>3, <3>3, <3>4 DEF Truthful
      <3> QED BY <1>1, <1>2, <1>4, <2>1, <3>2, <3>3, <3>5, WorkerMoves DEF WorkerFrame
    <2> QED BY <2>3, <2>4
  <1>8. CASE TransitionOperation(c) /\ Answered(c)
             /\ Set(t, [task[t] EXCEPT
                  !.snap = Snapshot(c),
                  !.ok = TRUE,
                  !.pc = CASE c.action = "BeginStart" -> "reload"
                           [] c.action = "ReportRunning" -> "observe"
                           [] c.detail \in TerminalReports -> "ack"
                           [] OTHER -> "finish"])
    <2>1. PICK pc : pc = CASE c.action = "BeginStart" -> "reload"
                           [] c.action = "ReportRunning" -> "observe"
                           [] c.detail \in TerminalReports -> "ack"
                           [] OTHER -> "finish"
      OBVIOUS
    <2>2. pc \in {"reload", "observe", "ack", "finish"} /\ (pc = "ack" => c.detail \in TerminalReports)
      BY <2>1
    <2> QED BY <1>7, <1>8, <2>1, <2>2, Zenon
  <1> QED BY <1>2, <1>3, <1>5, <1>6, <1>8, Zenon DEF Commit

\* One step of a worker, whatever has become of its host's tenure.
LEMMA StepKeeps ==
  ASSUME WInv, NEW t \in Tasks, Step(t) \/ ObserveFails(t) \/ ObserveTimesOut(t) \/ ObserveRejects(t)
  PROVE  WInv'
  <1>0. /\ op \in Snaps /\ epoch \in Nat /\ report \in {"none", "question"} \cup TerminalReports
        /\ TRUE \in BOOLEAN /\ FALSE \in BOOLEAN /\ 0 \in Nat /\ 1 \in Nat /\ 2 \in Nat /\ 3 \in Nat
    BY DEF WInv, TypeInv
  <1>s. UNCHANGED storeVars => StoreKept
    BY <1>0, StoreRests DEF storeVars
  <1>f. UNCHANGED <<hostVars, cancels, report, acked>> => WorkerFrame
    BY <1>0 DEF WorkerFrame, hostVars
  <1>1. CASE Run(t)
    <2>1. Live(t) /\ WorkerFrame
      BY <1>f, <1>1 DEF Run, Live, driverVars, bounds
    <2>2. CASE Finish(t, FALSE) /\ UNCHANGED storeVars
      BY <1>s, <2>1, <2>2, GoesOn, Zenon DEF Finish, Moves, Places
    <2>3. CASE StartOperation(task[t].host, task[t].epoch)
               /\ Set(t, [task[t] EXCEPT !.pc = "execute", !.snap = op'])
      <3>1. op' \in Snaps /\ op.state \notin Terminal
        BY <2>3 DEF StartOperation, Snaps, States, Unfinished, Terminal
      <3>2. StoreKept
        BY <1>0, <2>3, <3>1, OpOnly DEF StartOperation, OpMoves
      <3> QED BY <2>1, <2>3, <3>1, <3>2, GoesOn, Zenon DEF Moves, Places
    <2> QED BY <1>1, <2>2, <2>3, Zenon DEF Run
  <1>2. CASE Execute(t)
    <2>1. Live(t) /\ WorkerFrame /\ StoreKept
      BY <1>s, <1>f, <1>2 DEF Execute, Live, driverVars
    <2>2. CASE Finish(t, TRUE) \/ Go(t, "reload")
      BY <2>1, <2>2, GoesOn, Zenon DEF Finish, Moves, Places
    <2>3. CASE Submit(t, Command(t, "BeginStart", 1, "none", "none"))
      <3>1. PICK c : c = Command(t, "BeginStart", 1, "none", "none")
        OBVIOUS
      <3>2. Honest(c)
        BY <2>1, <3>1, Commanded, OwnDetails, Zenon DEF Actions
      <3> QED BY <1>0, <2>1, <2>3, <3>1, <3>2, Submits, Zenon
    <2>4. CASE Fail(t, "capacity", 1)
      BY <2>1, <2>4, GivesUp, OwnDetails, Zenon
    <2> QED BY <1>2, <2>2, <2>3, <2>4, Zenon DEF Execute
  <1>3. CASE Reload(t)
    <2>1. Live(t) /\ WorkerFrame /\ StoreKept
      BY <1>s, <1>f, <1>3 DEF Reload, Live, driverVars, bounds
    <2>2. PICK pc : pc = IF op.state = "cancelled" THEN "finish" ELSE "ready"
      OBVIOUS
    <2>3. pc \in Places \ {"commit", "ack"}
      BY <2>2 DEF Places
    <2>4. PICK w \in Workers : w = task[t]
      BY <2>1, LiveWorker
    <2>5. Set(t, [w EXCEPT !.snap = op, !.ok = TRUE, !.pc = pc])
      BY <1>3, <2>2, <2>4 DEF Reload
    <2>6. Moves(t, pc)
      BY <1>0, <2>4, <2>5, Zenon DEF Moves
    <2> QED BY <2>1, <2>3, <2>6, GoesOn
  <1>4. CASE EnsureReady(t)
    <2>1. Live(t) /\ WorkerFrame /\ StoreKept
      BY <1>0, <1>f, <1>4, StoreRests DEF EnsureReady, Live, driverVars
    <2>2. CASE \E pc \in {"observe", "deliver"} : Go(t, pc)
      BY <2>1, <2>2, GoesOn, Zenon DEF Moves, Places
    <2>3. CASE Fail(t, "executor_unavailable", 2)
      BY <1>0, <2>1, <2>3, GivesUp, OwnDetails, Zenon
    <2> QED BY <1>4, <2>2, <2>3 DEF EnsureReady
  <1>5. CASE Deliver(t)
    <2>1. Live(t) /\ WorkerFrame /\ StoreKept
      BY <1>0, <1>f, <1>5, StoreRests, Zenon DEF Deliver, Live
    <2>2. CASE Submit(t, Command(t, "ReportRunning", 2, "input", "none"))
      <3>1. PICK c : c = Command(t, "ReportRunning", 2, "input", "none")
        OBVIOUS
      <3>2. Honest(c)
        BY <1>0, <2>1, <3>1, Commanded, OwnDetails, Zenon DEF Actions
      <3> QED BY <1>0, <2>1, <2>2, <3>1, <3>2, Submits, Zenon
    <2>3. CASE Fail(t, "delivery_rejected", 2)
      BY <1>0, <2>1, <2>3, GivesUp, OwnDetails, Zenon
    <2>4. CASE Uncertain(t, "unknown", 2) \/ Uncertain(t, "delivery failed", 2)
      BY <1>0, <2>1, <2>4, GivesUp, OwnDetails, Zenon
    <2>5. CASE UNCHANGED task
      <3>1. TypeRest' /\ RegistryInv' /\ task' \in [Tasks -> {Idle} \cup Workers]
        BY <2>1, <2>5 DEF TypeRest, RegistryInv, WorkerFrame, WInv, TypeInv, Live
      <3> QED BY <2>1, <2>5, <3>1, TasksEnd DEF WorkerFrame
    <2> QED BY <1>5, <2>2, <2>3, <2>4, <2>5, Zenon DEF Deliver
  <1>6. CASE Commit(t)
    BY <1>6, CommitKeeps
  <1>7. CASE ObserveQuestion(t)
    <2>1. Live(t) /\ WorkerFrame
      BY <1>f, <1>7 DEF ObserveQuestion, Live, driverVars, bounds
    <2>2. OpMoves
      <3>1. CASE op' = op
        BY <1>0, <3>1 DEF OpMoves
      <3>2. CASE op.state = "running" /\ op' = [state |-> "waiting", rev |-> op.rev + 1]
        BY <1>0, <3>2 DEF OpMoves, Snaps, States, Unfinished, Terminal
      <3> QED BY <1>7, <3>1, <3>2 DEF ObserveQuestion, QuestionUpward, AskAnswered
    <2>3. StoreKept
      BY <1>0, <1>7, <2>2, OpOnly DEF ObserveQuestion, QuestionUpward
    <2>4. CASE Go(t, "waiting")
      BY <2>1, <2>3, <2>4, GoesOn, Zenon DEF Moves, Places
    <2>5. CASE Broken(t, "observe")
      BY <1>0, <2>1, <2>3, <2>5, GivesUp, OwnDetails, Zenon
    <2> QED BY <1>7, <2>4, <2>5 DEF ObserveQuestion
  <1>8. CASE CheckWaiting(t)
    <2>1. Live(t) /\ WorkerFrame /\ StoreKept
      BY <1>0, <1>s, <1>8 DEF CheckWaiting, Live, Acks, bounds, hostVars, WorkerFrame
    <2>2. CASE Set(t, [task[t] EXCEPT !.pc = "finish", !.ok = TRUE])
      BY <2>1, <2>2, GoesOn, Zenon DEF Moves, Places
    <2>3. CASE Fail(t, "invalid_question", 3)
      BY <1>0, <2>1, <2>3, GivesUp, OwnDetails, Zenon
    <2> QED BY <1>8, <2>2, <2>3 DEF CheckWaiting
  <1>9. CASE ObserveTerminal(t)
    <2>1. Live(t) /\ WorkerFrame /\ StoreKept
      BY <1>s, <1>f, <1>9 DEF ObserveTerminal, Live, driverVars, bounds
    <2>2. PICK pc : pc = report
      OBVIOUS
    <2>3. pc \in Places \ {"commit", "ack"} /\ Go(t, pc)
      BY <1>9, <2>2 DEF ObserveTerminal, Places, TerminalReports, Terminal
    <2> QED BY <2>1, <2>3, GoesOn, Zenon DEF Moves
  <1>10. CASE CommitTerminal(t)
    <2>1. Live(t) /\ WorkerFrame /\ StoreKept /\ task[t].pc \in TerminalReports
      <3>1. task[t].pc # "idle"
        BY <1>10 DEF CommitTerminal, TerminalReports, Terminal
      <3> QED BY <1>s, <1>f, <1>10, <3>1 DEF CommitTerminal, Live, driverVars, bounds
    <2>2. PICK d \in TerminalReports : d = task[t].pc
      BY <2>1
    <2>3. PICK c : c = [Command(t, ReportAction[d], 3, "input", d) EXCEPT !.rev = op.rev]
      BY Zenon
    <2>4. Honest(c)
      <3>1. task[t].host \in Hosts /\ task[t].epoch \in Nat /\ op.rev \in Nat
        BY <1>0, <2>1, LiveWorker DEF Workers, Snaps
      <3>2. ReportAction[d] \in Actions /\ d \in Details
        BY <2>2, ReportActions DEF Details
      <3>3. c = [action |-> ReportAction[d], ord |-> 3, host |-> task[t].host,
                 epoch |-> task[t].epoch, rev |-> op.rev, cites |-> "input", detail |-> d]
        BY <2>3 DEF Command
      <3> HIDE DEF ReportAction
      <3>4. c.detail = d /\ c.action = ReportAction[d]
        BY <3>3
      <3>5. c \in Commands
        BY <3>1, <3>2, <3>3 DEF Commands
      <3> QED BY <3>4, <3>5 DEF Honest
    <2>5. Set(t, [task[t] EXCEPT !.pc = "commit", !.snap = op, !.cmd = c])
      BY <1>10, <2>2, <2>3 DEF CommitTerminal
    <2> QED BY <1>0, <2>1, <2>4, <2>5, Submits, Zenon
  <1>11. CASE Acknowledge(t)
    <2>1. /\ Live(t) /\ StoreKept /\ task[t].pc = "ack" /\ UNCHANGED <<op, ledger>>
          /\ UNCHANGED <<registry, call, canceller, cancels>>
          /\ report' \in {"none", "question"} \cup TerminalReports
      BY <1>0, <1>s, <1>11 DEF Acknowledge, Live, Acks, hostVars, storeVars
    <2>2. PICK w \in Workers : /\ w = task[t] /\ w.cmd.detail \in TerminalReports
                              /\ EndedWith(w.cmd.detail)
      BY <2>1, LiveWorker DEF Truthful
    <2>3. CASE acked' = acked \cup {w.cmd.detail} /\ Go(t, "finish")
      <3>1. PICK r : r = [w EXCEPT !.pc = "finish"]
        BY Zenon
      <3>2. r \in Workers /\ r.host = task[t].host /\ Truthful(r)'
        BY <2>2, <3>1 DEF Workers, Places, Truthful
      <3>3. Set(t, r)
        BY <2>2, <2>3, <3>1 DEF Go
      <3>4. EndedWith(w.cmd.detail)'
        BY <2>1, <2>2 DEF EndedWith
      <3> QED BY <2>1, <2>2, <2>3, <3>2, <3>3, <3>4, WorkerMoves
    <2>4. CASE Finish(t, FALSE) /\ acked' = acked
      BY <1>0, <2>1, <2>4, GoesOn, Zenon DEF Finish, Moves, Places, WorkerFrame
    <2> QED BY <1>11, <2>2, <2>3, <2>4, Zenon DEF Acknowledge
  <1>12. CASE Settle(t)
    <2>1. Live(t) /\ WorkerFrame /\ StoreKept
      BY <1>s, <1>f, <1>12 DEF Settle, Live, driverVars, bounds
    <2>2. CASE Go(t, "leave")
      BY <2>1, <2>2, GoesOn, Zenon DEF Moves, Places
    <2>3. CASE Set(t, [task[t] EXCEPT !.pc = "execute", !.snap = op, !.tries = @ + 1])
      <3>1. PICK n \in Nat : n = task[t].tries + 1
        BY <2>1, LiveWorker DEF Workers
      <3>2. PICK w \in Workers : w = task[t]
        BY <2>1, LiveWorker
      <3>3. Set(t, [w EXCEPT !.pc = "execute", !.snap = op, !.tries = n])
        BY <2>3, <3>1, <3>2 DEF Workers
      <3>4. Moves(t, "execute")
        BY <1>0, <3>1, <3>2, <3>3, Zenon DEF Moves
      <3> QED BY <2>1, <3>4, GoesOn DEF Places
    <2> QED BY <1>12, <2>2, <2>3 DEF Settle
  <1>13. CASE Rerun(t)
    <2>1. Live(t) /\ WorkerFrame /\ StoreKept
      BY <1>s, <1>f, <1>13 DEF Rerun, Live, driverVars, bounds
    <2>2. Moves(t, "execute")
      BY <1>0, <1>13, Zenon DEF Moves, Rerun
    <2> QED BY <2>1, <2>2, GoesOn DEF Places
  <1>14. CASE ObserveFails(t)
    <2>1. Live(t) /\ WorkerFrame /\ StoreKept
      BY <1>s, <1>f, <1>14 DEF ObserveFails, Live, driverVars
    <2> QED BY <1>0, <1>14, <2>1, GivesUp, OwnDetails, Zenon DEF ObserveFails
  <1>15. CASE ObserveTimesOut(t)
    <2>1. Live(t) /\ WorkerFrame /\ StoreKept
      BY <1>s, <1>f, <1>15 DEF ObserveTimesOut, Live, driverVars
    <2> QED BY <1>0, <1>15, <2>1, GivesUp, OwnDetails, Zenon DEF ObserveTimesOut
  <1>17. CASE ObserveRejects(t)
    <2>1. Live(t) /\ WorkerFrame /\ StoreKept
      BY <1>s, <1>f, <1>17 DEF ObserveRejects, Live, driverVars
    <2> QED BY <1>0, <1>17, <2>1, GivesUp, OwnDetails, Zenon DEF ObserveRejects
  <1>16. CASE Leave(t)
    <2>1. /\ Live(t) /\ StoreKept /\ TypeRest
          /\ UNCHANGED <<call, canceller, cancels, report, acked>>
      BY <1>s, <1>16 DEF Leave, Live, driverVars, bounds, TypeRest, WInv, TypeInv
    <2>2. PICK w \in Workers : w = task[t]
      BY <2>1, LiveWorker
    <2>3. w.host \in Hosts /\ registry[w.host] \in Registries
      BY <2>1, <2>2 DEF Workers, TypeRest
    <2>4. PICK g \in Registries : g = registry[w.host]
      BY <2>3
    <2>5. CASE /\ registry' = [registry EXCEPT ![w.host].wake = FALSE] /\ Go(t, "rerun")
      <3>1. PICK r : r = [w EXCEPT !.pc = "rerun"]
        BY Zenon
      <3>2. r \in Workers /\ r.host = w.host /\ Truthful(r)'
        BY <2>2, <3>1 DEF Workers, Places, Truthful
      <3>3. PICK x : x = [g EXCEPT !.wake = FALSE]
        BY Zenon
      <3>4. /\ x \in Registries /\ x.accepting = g.accepting /\ x.active = g.active
            /\ x.handle = g.handle
        BY <2>4, <3>3, Zenon DEF Registries
      <3>5. registry' = [registry EXCEPT ![w.host] = x]
        BY <2>3, <2>4, <2>5, <3>3
      <3>6. /\ task' \in [Tasks -> {Idle} \cup Workers] /\ task'[t] = r
            /\ \A u \in Tasks \ {t} : task'[u] = task[u]
        BY <2>2, <2>5, <3>1, <3>2 DEF Go, Set, WInv, TypeInv
      <3>7. TypeRest' /\ registry'[w.host] = x /\ \A h \in Hosts \ {w.host} : registry'[h] = registry[h]
        BY <2>1, <2>3, <3>4, <3>5 DEF TypeRest
      <3>8. ASSUME cancels' = 0, NEW u \in Tasks, Live(u)'
            PROVE  LET q == registry'[task'[u].host] IN q.accepting /\ q.active /\ q.handle = u
        <4>1. Live(u) /\ task'[u].host = task[u].host
          BY <2>1, <2>2, <3>2, <3>6, <3>8 DEF Live
        <4>2. LET q == registry[task[u].host] IN q.accepting /\ q.active /\ q.handle = u
          BY <2>1, <3>8, <4>1 DEF WInv, RegistryInv
        <4>3. task[u].host \in Hosts
          BY <4>1, LiveWorker DEF Workers
        <4> QED BY <2>4, <3>4, <3>7, <4>1, <4>2, <4>3
      <3>9. RegistryInv'
        BY <2>1, <3>8, Zenon DEF RegistryInv, WInv
      <3> QED BY <2>1, <3>2, <3>6, <3>7, <3>9, Keeps
    <2>6. CASE /\ registry' = [registry EXCEPT ![w.host].active = FALSE, ![w.host].handle = None]
               /\ Set(t, Idle)
      <3>1. PICK x : x = [g EXCEPT !.active = FALSE, !.handle = None]
        OBVIOUS
      <3>2. x \in Registries
        BY <2>4, <3>1, Zenon DEF Registries
      <3>3. registry' = [registry EXCEPT ![w.host] = x]
        BY <2>1, <2>3, <2>4, <2>6, <3>1, Zenon DEF TypeRest
      <3>4. /\ task' \in [Tasks -> {Idle} \cup Workers] /\ task'[t] = Idle
            /\ \A u \in Tasks \ {t} : task'[u] = task[u]
        BY <2>6 DEF Set, WInv, TypeInv
      <3>5. TypeRest' /\ \A h \in Hosts \ {w.host} : registry'[h] = registry[h]
        BY <2>1, <2>3, <3>2, <3>3 DEF TypeRest
      <3>6. ASSUME cancels' = 0, NEW u \in Tasks, Live(u)'
            PROVE  LET q == registry'[task'[u].host] IN q.accepting /\ q.active /\ q.handle = u
        <4>1. u # t /\ task'[u] = task[u] /\ Live(u)
          BY <3>4, <3>6 DEF Live, Idle
        <4>2. LET q == registry[task[u].host] IN q.accepting /\ q.active /\ q.handle = u
          BY <2>1, <3>6, <4>1 DEF WInv, RegistryInv
        <4>3. LET q == registry[task[t].host] IN q.handle = t
          BY <2>1, <3>6 DEF WInv, RegistryInv
        <4>4. task[u].host \in Hosts /\ task[u].host # w.host
          BY <2>2, <4>1, <4>2, <4>3, LiveWorker DEF Workers
        <4> QED BY <3>5, <4>1, <4>2, <4>4
      <3>7. RegistryInv'
        BY <2>1, <3>6, Zenon DEF RegistryInv, WInv
      <3>8. \A u \in Tasks : task'[u] \in {task[u], Idle}
        BY <3>4
      <3> QED BY <2>1, <3>4, <3>5, <3>7, <3>8, TasksEnd, Zenon
    <2> QED BY <1>16, <2>2, <2>5, <2>6 DEF Leave
  <1> QED BY <1>1, <1>2, <1>3, <1>4, <1>5, <1>6, <1>7, <1>8, <1>9, <1>10, <1>11, <1>12, <1>13,
             <1>14, <1>15, <1>16, <1>17 DEF Step

-----------------------------------------------------------------------------
(* The hosts.                                                              *)

\* Nothing happens to the workers.
LEMMA WorkersRest ==
  ASSUME WInv, StoreKept, UNCHANGED <<task, registry, acked>>,
         call' \in [Hosts -> Calls], canceller' \in [Hosts -> Cancellers], cancels' \in Nat,
         report' \in {"none", "question"} \cup TerminalReports,
         cancels' = 0 => cancels = 0 /\ canceller' = canceller
  PROVE  WInv'
  <1>1. TypeRest' /\ task' \in [Tasks -> {Idle} \cup Workers]
    BY DEF TypeRest, WInv, TypeInv
  <1>2. RegistryInv'
    BY DEF RegistryInv, WInv, Live
  <1> QED BY <1>1, <1>2, TasksEnd

\* A worker is registered where none is active.
LEMMA Registers ==
  ASSUME WInv, StoreKept, NEW h \in Hosts, NEW t \in Tasks, NEW r \in Workers,
         r.pc \in {"start", "execute"}, r.host = h, Set(t, r),
         registry[h].accepting, ~registry[h].active, ~Live(t),
         registry' = [registry EXCEPT ![h].active = TRUE, ![h].handle = t],
         call' \in [Hosts -> Calls], UNCHANGED <<canceller, cancels, report, acked>>
  PROVE  WInv'
  <1>1. PICK g \in Registries : g = registry[h]
    BY DEF WInv, TypeInv
  <1>2. PICK x : x = [g EXCEPT !.active = TRUE, !.handle = t]
    OBVIOUS
  <1>3. x \in Registries /\ x.accepting = g.accepting /\ x.active = TRUE /\ x.handle = t
    BY <1>1, <1>2, Zenon DEF Registries
  <1>4. registry' = [registry EXCEPT ![h] = x]
    BY <1>1, <1>2, Zenon DEF WInv, TypeInv
  <1>a. /\ registry' \in [Hosts -> Registries]
        /\ registry'[h] = x /\ \A k \in Hosts \ {h} : registry'[k] = registry[k]
    <2>1. registry \in [Hosts -> Registries]
      BY DEF WInv, TypeInv
    <2>2. registry' \in [Hosts -> Registries]
      BY <1>3, <1>4, <2>1, Zenon
    <2>3. registry'[h] = x /\ \A k \in Hosts \ {h} : registry'[k] = registry[k]
      BY <1>4, <2>1, Zenon
    <2> QED BY <2>2, <2>3
  <1>b. TypeRest'
    BY <1>a DEF TypeRest, WInv, TypeInv
  <1>c. /\ task' \in [Tasks -> {Idle} \cup Workers] /\ task'[t] = r
        /\ \A u \in Tasks \ {t} : task'[u] = task[u]
    BY DEF WInv, TypeInv, Set
  <1>5. /\ TypeRest' /\ registry'[h] = x /\ \A k \in Hosts \ {h} : registry'[k] = registry[k]
        /\ task' \in [Tasks -> {Idle} \cup Workers] /\ task'[t] = r
        /\ \A u \in Tasks \ {t} : task'[u] = task[u]
    BY <1>a, <1>b, <1>c
  <1>6. ASSUME cancels' = 0, NEW u \in Tasks, Live(u)'
        PROVE  LET q == registry'[task'[u].host] IN q.accepting /\ q.active /\ q.handle = u
    <2>1. CASE u = t
      BY <1>1, <1>3, <1>5, <2>1, Zenon
    <2>2. CASE u # t
      <3>1. task'[u] = task[u] /\ Live(u)
        BY <1>5, <1>6, <2>2 DEF Live
      <3>2. LET q == registry[task[u].host] IN q.accepting /\ q.active /\ q.handle = u
        BY <1>6, <3>1 DEF WInv, RegistryInv
      <3>3. task[u].host \in Hosts /\ task[u].host # h
        BY <3>1, <3>2, LiveWorker DEF Workers
      <3>4. registry'[task'[u].host] = registry[task[u].host]
        BY <1>5, <3>1, <3>3, Zenon
      <3> QED BY <3>2, <3>4, Zenon
    <2> QED BY <2>1, <2>2
  <1>7. RegistryInv'
    BY <1>6, Zenon DEF RegistryInv, WInv
  <1>8. Truthful(r)'
    BY DEF Truthful
  <1>9. \A u \in Tasks : task'[u] \in {task[u], Idle} \/ Truthful(task[u])'
    BY <1>5, <1>8
  <1> QED BY <1>5, <1>7, <1>9, Keeps

LEMMA NewWorker ==
  ASSUME NEW h \in Hosts, NEW e \in Nat, NEW kind \in {"start", "resume"},
         NEW pc \in {"start", "execute"}, NEW sn \in Snaps
  PROVE  /\ NewTask(h, e, kind, pc, sn) \in Workers
         /\ NewTask(h, e, kind, pc, sn).pc = pc /\ NewTask(h, e, kind, pc, sn).host = h
  BY DEF NewTask, Workers, Places

LEMMA NewExecution ==
  ASSUME NEW h \in Hosts, NEW e \in Nat, NEW sn \in Snaps
  PROVE  LET r == NewTask(h, e, "resume", "execute", sn)
         IN r \in Workers /\ r.pc \in {"start", "execute"} /\ r.host = h
  BY NewWorker

\* The workers of some hosts are ended, and their registries reset.
LEMMA HostsEnd ==
  ASSUME WInv, StoreKept, NEW h \in Hosts, NEW g \in Registries,
         registry' = [registry EXCEPT ![h] = g],
         task' \in [Tasks -> {Idle} \cup Workers],
         \A t \in Tasks : task'[t] \in {task[t], Idle},
         cancels = 0 => \A t \in Tasks : Live(t) /\ task[t].host = h => task'[t] = Idle,
         call' \in [Hosts -> Calls], canceller' \in [Hosts -> Cancellers],
         cancels = 0 => \A k \in Hosts : canceller'[k] = Idle,
         UNCHANGED <<cancels, report, acked>>
  PROVE  WInv'
  <1>1. TypeRest' /\ \A k \in Hosts \ {h} : registry'[k] = registry[k]
    BY Zenon DEF TypeRest, WInv, TypeInv
  <1>2. ASSUME cancels' = 0, NEW u \in Tasks, Live(u)'
        PROVE  LET q == registry'[task'[u].host] IN q.accepting /\ q.active /\ q.handle = u
    <2>1. task'[u] = task[u] /\ Live(u) /\ task[u].host # h
      BY <1>2 DEF Live, Idle
    <2>2. LET q == registry[task[u].host] IN q.accepting /\ q.active /\ q.handle = u
      BY <1>2, <2>1 DEF WInv, RegistryInv
    <2>3. task[u].host \in Hosts
      BY <2>1, LiveWorker DEF Workers
    <2> QED BY <1>1, <2>1, <2>2, <2>3
  <1>3. RegistryInv'
    BY <1>2 DEF RegistryInv
  <1> QED BY <1>1, <1>3, TasksEnd

LEMMA HostStepKeeps ==
  ASSUME WInv, NEW h \in Hosts,
         \/ ServiceStep(h) \/ Call(h) \/ CancelCommit(h) \/ Feedback(h)
         \/ PumpSweep(h) \/ Shutdown(h) \/ Restart(h) \/ Acquire(h)
         \/ \E t \in Tasks : Start(h, t)
  PROVE  WInv'
  <1>0. /\ op \in Snaps /\ epoch \in Nat /\ report \in {"none", "question"} \cup TerminalReports
        /\ call \in [Hosts -> Calls] /\ canceller \in [Hosts -> Cancellers] /\ cancels \in Nat
        /\ registry \in [Hosts -> Registries] /\ task \in [Tasks -> {Idle} \cup Workers]
    BY DEF WInv, TypeInv
  <1>i. Idle \in Calls /\ Idle \in Cancellers
    BY Zenon DEF Calls, Cancellers
  <1>s. UNCHANGED storeVars => StoreKept
    BY <1>0, StoreRests DEF storeVars
  <1>k. call[h] \in Calls /\ canceller[h] \in Cancellers /\ registry[h] \in Registries
    BY <1>0
  <1>l. \A e \in Nat : [pc |-> "load", epoch |-> e] \in Calls
    BY DEF Calls
  <1>1. ASSUME NEW t \in Tasks, Start(h, t) PROVE WInv'
    <2>1. PICK r : r = NewTask(h, epoch, "start", "start", op)
      OBVIOUS
    <2>2. r \in Workers /\ r.pc \in {"start", "execute"} /\ r.host = h
      BY <1>0, <2>1, NewWorker
    <2> QED BY <1>0, <1>s, <1>1, <2>1, <2>2, Registers, Zenon DEF Start, Free, driverVars, bounds
  <1>2. CASE ResumeLoad(h)
    <2>1. call[h].pc = "load" /\ call[h] \in Calls
      BY <1>k, <1>2, Zenon DEF ResumeLoad
    <2>2. call[h].epoch \in Nat
      BY <2>1, LoadEpoch, Zenon
    <2>3. [pc |-> "register", epoch |-> call[h].epoch, snap |-> op] \in Calls
      BY <1>0, <2>2 DEF Calls
    <2>4. call' \in [Hosts -> Calls]
      BY <1>0, <1>i, <1>2, <2>3 DEF ResumeLoad
    <2> QED BY <1>0, <1>s, <1>2, <2>4, WorkersRest, Zenon DEF ResumeLoad, driverVars, bounds
  <1>3. CASE ResumeRegister(h)
    <2>1. call[h].epoch \in Nat /\ call[h].snap \in Snaps
      BY <1>k, <1>3 DEF ResumeRegister, Calls, Idle
    <2>2. call' \in [Hosts -> Calls] /\ StoreKept /\ UNCHANGED <<canceller, cancels, report, acked>>
      BY <1>0, <1>i, <1>s, <1>3 DEF ResumeRegister, driverVars, bounds
    <2>3. CASE UNCHANGED <<registry, task>>
      BY <1>0, <2>2, <2>3, WorkersRest
    <2>4. CASE registry' = [registry EXCEPT ![h].wake = TRUE] /\ UNCHANGED task
      <3>1. PICK g \in Registries : g = registry[h]
        BY <1>k, Zenon
      <3>2. PICK x : x = [g EXCEPT !.wake = TRUE]
        BY Zenon
      <3>3. /\ x \in Registries /\ x.accepting = g.accepting /\ x.active = g.active
            /\ x.handle = g.handle
        BY <3>1, <3>2, Zenon DEF Registries
      <3>4. registry' = [registry EXCEPT ![h] = x]
        BY <2>4, <3>1, <3>2
      <3>5. /\ registry' \in [Hosts -> Registries]
            /\ \A k \in Hosts : /\ registry'[k].accepting = registry[k].accepting
                                /\ registry'[k].active = registry[k].active
                                /\ registry'[k].handle = registry[k].handle
        BY <1>0, <3>1, <3>3, <3>4
      <3>6. TypeRest'
        BY <1>0, <2>2, <3>5 DEF TypeRest
      <3>7. ASSUME cancels' = 0, NEW u \in Tasks, Live(u)'
            PROVE  LET q == registry'[task'[u].host] IN q.accepting /\ q.active /\ q.handle = u
        <4>1. task'[u] = task[u] /\ Live(u)
          BY <2>4, <3>7 DEF Live
        <4>2. LET q == registry[task[u].host] IN q.accepting /\ q.active /\ q.handle = u
          BY <2>2, <3>7, <4>1, Zenon DEF WInv, RegistryInv
        <4>3. task[u].host \in Hosts
          BY <4>1, LiveWorker, Zenon DEF Workers
        <4> QED BY <3>5, <4>1, <4>2, <4>3, Zenon
      <3>8. RegistryInv'
        BY <2>2, <3>7, Zenon DEF RegistryInv, WInv
      <3> QED BY <1>0, <2>2, <2>4, <3>6, <3>8, TasksEnd
    <2>5. ASSUME registry[h].accepting, ~registry[h].active, NEW t \in Tasks, Free(t),
                 Set(t, NewTask(h, call[h].epoch, "resume", "execute", call[h].snap)),
                 registry' = [registry EXCEPT ![h].active = TRUE, ![h].handle = t]
          PROVE  WInv'
      <3>1. PICK r : r = NewTask(h, call[h].epoch, "resume", "execute", call[h].snap)
        OBVIOUS
      <3>2. r \in Workers /\ r.pc \in {"start", "execute"} /\ r.host = h
        BY <2>1, <3>1, NewExecution, Zenon
      <3> QED BY <2>2, <2>5, <3>1, <3>2, Registers, Zenon DEF Free
    <2> QED BY <1>3, <2>3, <2>4, <2>5, Zenon DEF ResumeRegister
  <1>4. CASE CancelUnregister(h)
    <2>1. canceller[h].epoch \in Nat /\ canceller[h].told \in BOOLEAN /\ canceller[h] # Idle
      BY <1>k, <1>4 DEF CancelUnregister, Cancellers, Idle
    <2>2. PICK g \in Registries : g = registry[h]
      BY <1>k
    <2>3. PICK x : x = [g EXCEPT !.active = FALSE, !.handle = None]
      OBVIOUS
    <2>4. x \in Registries /\ g.handle \in Tasks \cup {None}
      BY <2>2, <2>3, Zenon DEF Registries
    <2>5. registry' = [registry EXCEPT ![h] = x]
      BY <1>0, <1>4, <2>2, <2>3, Zenon DEF CancelUnregister
    <2>6. PICK y : y = [pc |-> "abort", epoch |-> canceller[h].epoch, told |-> canceller[h].told,
                        victim |-> g.handle]
      BY Zenon
    <2>7. y \in Cancellers
      BY <2>1, <2>4, <2>6 DEF Cancellers
    <2>8. canceller' = [canceller EXCEPT ![h] = y]
      BY <1>4, <2>2, <2>6 DEF CancelUnregister
    <2>9. canceller' \in [Hosts -> Cancellers] /\ cancels # 0
      BY <1>0, <2>1, <2>7, <2>8 DEF WInv, RegistryInv
    <2> QED BY <1>0, <1>s, <1>4, <2>4, <2>5, <2>9, HostsEnd, Zenon DEF CancelUnregister, driverVars, bounds
  <1>5. CASE CancelAbort(h)
    <2>1. canceller[h].epoch \in Nat /\ canceller[h] # Idle
      BY <1>k, <1>5 DEF CancelAbort, Cancellers, Idle
    <2>2. PICK y : y = [pc |-> IF canceller[h].told THEN "drive" ELSE "resume", epoch |-> canceller[h].epoch]
      BY Zenon
    <2>3. y \in Cancellers
      BY <2>1, <2>2, Zenon DEF Cancellers
    <2>4. canceller' \in [Hosts -> Cancellers] /\ cancels # 0
      BY <1>0, <1>5, <2>1, <2>2, <2>3 DEF CancelAbort, WInv, RegistryInv
    <2>5. /\ task' \in [Tasks -> {Idle} \cup Workers]
          /\ \A t \in Tasks : task'[t] \in {task[t], Idle}
      BY <1>0, <1>5 DEF CancelAbort, Set
    <2>6. registry' = [registry EXCEPT ![h] = registry[h]]
      BY <1>0, <1>5 DEF CancelAbort
    <2> QED BY <1>0, <1>k, <1>s, <1>5, <2>4, <2>5, <2>6, HostsEnd, Zenon
            DEF CancelAbort, driverVars, bounds
  <1>6. CASE CancelDrive(h)
    <2>1. canceller[h].epoch \in Nat /\ canceller[h] # Idle
      BY <1>k, <1>6, CancellerRuns, Zenon DEF CancelDrive
    <2>2. [canceller[h] EXCEPT !.pc = "resume"] \in Cancellers
      BY <1>k, <1>6 DEF CancelDrive, Cancellers, Idle
    <2>3. canceller' \in [Hosts -> Cancellers] /\ cancels # 0
      BY <1>0, <1>i, <1>6, <2>1, <2>2 DEF CancelDrive, WInv, RegistryInv
    <2> QED BY <1>0, <1>s, <1>6, <2>3, WorkersRest DEF CancelDrive
  <1>7. CASE CancelResume(h)
    <2>1. canceller[h].epoch \in Nat /\ canceller[h] # Idle
      BY <1>k, <1>7, CancellerRuns, Zenon DEF CancelResume
    <2>2. canceller' \in [Hosts -> Cancellers] /\ cancels # 0 /\ call' \in [Hosts -> Calls]
      BY <1>0, <1>i, <1>l, <1>7, <2>1 DEF CancelResume, WInv, RegistryInv
    <2> QED BY <1>0, <1>s, <1>7, <2>2, WorkersRest DEF CancelResume, driverVars, bounds
  <1>8. CASE PumpDeliver(h) \/ PumpSweep(h)
    <2>1. UNCHANGED <<op, ledger, epoch, task, registry, acked, call, canceller, cancels, report>>
      BY <1>8 DEF PumpDeliver, PumpSweep, driverVars, bounds
    <2> QED BY <1>0, <2>1, StoreRests, WorkersRest
  <1>9. CASE Call(h)
    <2>1. call' \in [Hosts -> Calls]
      BY <1>0, <1>l, <1>9 DEF Call
    <2> QED BY <1>0, <1>s, <1>9, <2>1, WorkersRest, Zenon DEF Call, driverVars
  <1>10. CASE CancelCommit(h)
    <2>1. OpMoves /\ ledger' = ledger /\ epoch' = epoch
      <3>1. CASE op' = op
        BY <1>0, <1>10, <3>1, Zenon DEF OpMoves, CancelCommit, CancelSubtree
      <3>2. ASSUME NEW st \in {"cancelled", "cancelling"}, op.state \in Unfinished,
                   op' = [state |-> st, rev |-> op.rev + 1]
            PROVE  OpMoves
        BY <1>0, <3>2 DEF OpMoves, Snaps, States, Unfinished, Terminal
      <3>3. OpMoves
        BY <1>10, <3>1, <3>2, Zenon DEF CancelCommit, CancelSubtree
      <3> QED BY <1>10, <3>3, Zenon DEF CancelCommit, CancelSubtree
    <2>2. StoreKept
      BY <1>0, <2>1, OpOnly
    <2>3. PICK y : y = [pc |-> "unregister", epoch |-> epoch, told |-> op'.state = "cancelling"]
      BY Zenon
    <2>4. y \in Cancellers
      BY <1>0, <2>3, Zenon DEF Cancellers
    <2>5. canceller' = [canceller EXCEPT ![h] = y] /\ cancels' = cancels + 1
      BY <1>10, <2>3, Zenon DEF CancelCommit
    <2>6. canceller' \in [Hosts -> Cancellers]
      BY <1>0, <2>4, <2>5, Zenon
    <2>7. cancels' \in Nat /\ cancels' # 0
      BY <1>0, <2>5
    <2> QED BY <1>0, <1>10, <2>2, <2>6, <2>7, WorkersRest DEF CancelCommit, driverVars
  <1>11. CASE Feedback(h)
    <2>1. OpMoves
      <3>1. CASE op' = op
        BY <1>0, <3>1 DEF OpMoves
      <3>2. CASE op.state = "waiting" /\ op' = [state |-> "running", rev |-> op.rev + 1]
        BY <1>0, <3>2 DEF OpMoves, Snaps, States, Unfinished, Terminal
      <3> QED BY <1>11, <3>1, <3>2 DEF Feedback, FeedbackAccepted
    <2>2. StoreKept
      BY <1>0, <1>11, <2>1, OpOnly DEF Feedback, FeedbackAccepted
    <2>3. call' \in [Hosts -> Calls]
      BY <1>0, <1>l, <1>11 DEF Feedback
    <2> QED BY <1>0, <1>11, <2>2, <2>3, WorkersRest, Zenon DEF Feedback, bounds
  <1>12. CASE Shutdown(h)
    <2>1. PICK g : g = [accepting |-> FALSE, active |-> FALSE, wake |-> FALSE, handle |-> None]
      BY Zenon
    <2>2. g \in Registries /\ registry' = [registry EXCEPT ![h] = g]
      BY <1>12, <2>1 DEF Shutdown, Registries
    <2>3. /\ task' \in [Tasks -> {Idle} \cup Workers]
          /\ \A t \in Tasks : task'[t] \in {task[t], Idle}
      BY <1>0, <1>12 DEF Shutdown, Set
    <2>4. ASSUME cancels = 0, NEW t \in Tasks, Live(t), task[t].host = h PROVE task'[t] = Idle
      <3>1. registry[h].handle = t
        BY <2>4, Zenon DEF WInv, RegistryInv
      <3>2. registry[h].handle # None
        BY <3>1, WorkersAssumption, Zenon
      <3> QED BY <1>0, <1>12, <3>1, <3>2 DEF Shutdown, Set
    <2>5. cancels = 0 => \A k \in Hosts : canceller'[k] = Idle
      BY <1>12, Zenon DEF Shutdown, WInv, RegistryInv
    <2> QED BY <1>0, <1>s, <1>12, <2>2, <2>3, <2>4, <2>5, HostsEnd, Zenon DEF Shutdown, driverVars, bounds
  <1>13. CASE Restart(h)
    <2>1. EmptyRegistry \in Registries
      BY DEF EmptyRegistry, Registries
    <2>2. StoreKept
      BY <1>0, <1>s, <1>13, StoreRests, Zenon DEF Restart, LoseOwnership
    <2>3. /\ task' \in [Tasks -> {Idle} \cup Workers]
          /\ \A t \in Tasks : task'[t] \in {task[t], Idle}
          /\ \A t \in Tasks : Live(t) /\ task[t].host = h => task'[t] = Idle
      BY <1>0, <1>13, Zenon DEF Restart, LiveOn
    <2>4. call' \in [Hosts -> Calls] /\ canceller' \in [Hosts -> Cancellers]
      BY <1>0, <1>i, <1>13 DEF Restart
    <2>5. cancels = 0 => \A k \in Hosts : canceller'[k] = Idle
      BY <1>0, <1>13 DEF Restart, WInv, RegistryInv
    <2> QED BY <1>13, <2>1, <2>2, <2>3, <2>4, <2>5, HostsEnd, Zenon DEF Restart, driverVars, bounds
  <1>14. CASE Acquire(h)
    <2>1. epoch' \in Nat
      <3>1. epoch' = epoch + 1
        BY <1>14, Zenon DEF Acquire, AcquireOwnership
      <3>2. epoch \in Nat
        BY <1>0
      <3> QED BY <3>1, <3>2
    <2>2. StoreKept
      BY <1>14, <2>1, StoreRests, Zenon DEF Acquire, AcquireOwnership
    <2>3. call' \in [Hosts -> Calls]
      BY <1>0, <1>l, <1>14, <2>1, Zenon DEF Acquire
    <2> QED BY <1>0, <1>14, <2>2, <2>3, WorkersRest, Zenon DEF Acquire, driverVars, bounds
  <1> QED BY <1>1, <1>2, <1>3, <1>4, <1>5, <1>6, <1>7, <1>8, <1>9, <1>10, <1>11, <1>12, <1>13,
             <1>14 DEF ServiceStep

LEMMA WStep ==
  ASSUME WInv, scenario \in Scenarios, [Next]_vars
  PROVE  WInv'
  <1>0. /\ op \in Snaps /\ epoch \in Nat /\ report \in {"none", "question"} \cup TerminalReports
        /\ call \in [Hosts -> Calls] /\ canceller \in [Hosts -> Cancellers] /\ cancels \in Nat
    BY DEF WInv, TypeInv
  <1>1. CASE UNCHANGED vars
    <2>1. UNCHANGED <<op, ledger, epoch, task, registry, acked, call, canceller, cancels, report>>
      BY <1>1 DEF vars, system, storeVars
    <2> QED BY <1>0, <2>1, StoreRests, WorkersRest
  <1>2. CASE DriverReports
    <2>1. /\ UNCHANGED <<op, ledger, epoch, task, registry, acked, call, canceller, cancels>>
          /\ report' \in {"none", "question"} \cup TerminalReports
      <3>1. scenario.reports \subseteq TerminalReports /\ "cancelled" \in TerminalReports
        BY WorkersAssumption DEF ScenarioRecords, TerminalReports, Terminal
      <3> QED BY <1>2, <3>1 DEF DriverReports, storeVars, bounds
    <2> QED BY <1>0, <2>1, StoreRests, WorkersRest
  <1>3. CASE ParentReads \/ Lose
    <2>1. UNCHANGED <<op, ledger, epoch, task, registry, acked, call, canceller, cancels, report>>
      BY <1>3 DEF ParentReads, Lose, QuestionTaken, LoseOwnership, driverVars, bounds
    <2> QED BY <1>0, <2>1, StoreRests, WorkersRest
  <1> QED BY <1>1, <1>2, <1>3, StepKeeps, HostStepKeeps DEF Next

LEMMA WInit ==
  ASSUME Init
  PROVE  WInv
  <1>1. op \in Snaps /\ ledger = {} /\ epoch = 0 /\ acked = {} /\ cancels = 0 /\ report = "none"
    BY DEF Init, StoreInit, Snaps, States
  <1>2. /\ registry = [h \in Hosts |-> EmptyRegistry] /\ task = [t \in Tasks |-> Idle]
        /\ call = [h \in Hosts |-> Idle] /\ canceller = [h \in Hosts |-> Idle]
    BY DEF Init
  <1>3. EmptyRegistry \in Registries /\ Idle \in Calls /\ Idle \in Cancellers
    BY DEF EmptyRegistry, Registries, Calls, Cancellers
  <1>4. TypeInv
    BY <1>1, <1>2, <1>3 DEF TypeInv
  <1>5. OutcomeInv
    BY <1>1, <1>2 DEF OutcomeInv, Truthful, Idle
  <1>6. RegistryInv
    BY <1>2 DEF RegistryInv, Live, Idle
  <1> QED BY <1>4, <1>5, <1>6 DEF WInv

LEMMA Invariance == Spec => []WInv
  <1>1. Init => WInv /\ scenario \in Scenarios
    BY WInit DEF Init, StoreInit
  <1>2. WInv /\ scenario \in Scenarios /\ [Next]_vars => WInv' /\ (scenario \in Scenarios)'
    BY WStep DEF Next, vars
  <1> QED BY <1>1, <1>2, PTL DEF Spec

-----------------------------------------------------------------------------
(***************************************************************************)
(* A driver is told that its terminal report was received only once the    *)
(* operation has durably ended with that report: as what it says, or, when *)
(* its payload is over the bound, as failed; and so it stays               *)
(* (Worker::observe, commit_terminal, transition_operation,                *)
(* cancel_subtree), whatever stale workers, takeovers, repeated commands,  *)
(* failures of the worker's own and cancellations meet there.              *)
(***************************************************************************)
THEOREM AcknowledgedIsDurable == Spec => []AckedIsCommitted
  <1>1. WInv => AckedIsCommitted
    BY DEF WInv, OutcomeInv, AckedIsCommitted
  <1> QED BY <1>1, Invariance, PTL

(***************************************************************************)
(* A host never has two workers on the operation, nor one that outlives    *)
(* the shutdown of its service, as long as nothing is cancelled            *)
(* (WorkerRegistry, resume_existing, shutdown_until): for any number of    *)
(* tenures, calls that race, restarts and retries.                         *)
(***************************************************************************)
THEOREM OneWorkerEach == Spec => []OneWorker
  <1>1. WInv => OneWorker
    <2>1. ASSUME WInv, cancels = 0, NEW h \in Hosts
          PROVE  \A t \in LiveOn(h) : registry[h].accepting /\ registry[h].handle = t
      BY <2>1 DEF WInv, RegistryInv, LiveOn
    <2> QED BY <2>1 DEF OneWorker
  <1> QED BY <1>1, Invariance, PTL

-----------------------------------------------------------------------------
(***************************************************************************)
(* The catalog.  Registrations stay, so what was true of the registry when *)
(* a command was recorded, a stream connected or a catalog read is true    *)
(* when it is used; the invariant carries those facts along the ledger,    *)
(* the streams, the launch in progress and the cached driver.              *)
(***************************************************************************)
RegisterRecord(n, e) ==
  [id |-> StableRegistrationId(DefinitionFromWire(n).name, DefinitionFromWire(n).version),
   consumer |-> RegisterCalls[n].consumer, definition |-> DefinitionFromWire(n), epoch |-> e]

ConnectRecord(s, e) ==
  [provider |-> Streams[s].provider, conn |-> Streams[s].conn, tools |-> Streams[s].tools,
   epoch |-> e]

IsRegistered(n) == \E r \in regrows : r.definition = DefinitionFromWire(n)

AllRegistered(ids) == \A t \in ids : \E r \in regrows : r.id = t

\* A catalog that was made of registrations that still stand.
SoundCatalog(cat) == cat.entries = BuildCatalog(cat.work, cat.rows) /\ cat.rows \subseteq regrows

ShapeInv ==
  /\ DOMAIN regcalls = DOMAIN RegisterCalls
  /\ DOMAIN provides = DOMAIN Streams
  /\ DOMAIN routing = Providers

LedgerInv ==
  \A l \in regledger :
    \/ \E n \in DOMAIN RegisterCalls : IsRegistered(n) /\ \E e : l.command = RegisterRecord(n, e)
    \/ \E s \in DOMAIN Streams :
         AllRegistered(Streams[s].tools) /\ \E e : l.command = ConnectRecord(s, e)

RegisterInv ==
  \A n \in DOMAIN RegisterCalls :
    regcalls[n].pc = "answered" /\ regcalls[n].out = "registered" => IsRegistered(n)

ProvideInv ==
  /\ \A s \in DOMAIN Streams :
       provides[s].pc \in {"connected", "serving"} => AllRegistered(Streams[s].tools)
  /\ \A p \in Providers : routing[p] # NoOne => AllRegistered(routing[p].tools)

LaunchInv ==
  /\ fetch.pc # "idle" => fetch.catalog.work = fetch.work /\ SoundCatalog(fetch.catalog)
  /\ shown # NoOne => SoundCatalog(shown.catalog)
  /\ served # NoOne =>
       /\ served.wants # {} => served.shows = served.wants /\ served.of = served.work
       /\ served.shows \subseteq BuildCatalog(served.of, regrows)

CatInv == ShapeInv /\ LedgerInv /\ RegisterInv /\ ProvideInv /\ LaunchInv

\* Registrations stay.
LEMMA Stays ==
  ASSUME regrows \subseteq regrows'
  PROVE  /\ \A n : IsRegistered(n) => IsRegistered(n)'
         /\ \A ids : AllRegistered(ids) => AllRegistered(ids)'
         /\ \A cat : SoundCatalog(cat) => SoundCatalog(cat)'
         /\ \A o : BuildCatalog(o, regrows) \subseteq BuildCatalog(o, regrows')
  BY DEF IsRegistered, AllRegistered, SoundCatalog, BuildCatalog

LEMMA LedgerStays ==
  ASSUME LedgerInv, regrows \subseteq regrows', regledger' = regledger
  PROVE  LedgerInv'
  BY Stays, Zenon DEF LedgerInv, RegisterRecord, ConnectRecord

LEMMA ProvideStays ==
  ASSUME ProvideInv, regrows \subseteq regrows', UNCHANGED <<provides, routing>>
  PROVE  ProvideInv'
  BY Stays DEF ProvideInv

LEMMA LaunchStays ==
  ASSUME LaunchInv, regrows \subseteq regrows', UNCHANGED <<fetch, shown, served>>
  PROVE  LaunchInv'
  <1>1. /\ \A cat : SoundCatalog(cat) => SoundCatalog(cat)'
        /\ \A o : BuildCatalog(o, regrows) \subseteq BuildCatalog(o, regrows')
    BY Stays
  <1> QED BY <1>1 DEF LaunchInv

LEMMA RegisterStays ==
  ASSUME RegisterInv, regrows \subseteq regrows', UNCHANGED regcalls
  PROVE  RegisterInv'
  BY Stays DEF RegisterInv

LEMMA RegisterRpcKeeps ==
  ASSUME CatInv, NEW n \in DOMAIN RegisterCalls, RegisterToolRpc(n)
  PROVE  CatInv'
  <1>1. UNCHANGED <<regrows, regledger, provides, routing, fetch, shown, served>>
    BY DEF RegisterToolRpc
  <1>2. PICK x : /\ regcalls' = [regcalls EXCEPT ![n] = x]
                 /\ ~(x.pc = "answered" /\ x.out = "registered")
    <2>1. PICK x : x = IF AuthenticatedConsumer(RegisterCalls[n].consumer)
                       THEN [pc |-> "called", epoch |-> holder.epoch]
                       ELSE [pc |-> "answered", out |-> "unauthorized"]
      BY Zenon
    <2>2. ~(x.pc = "answered" /\ x.out = "registered")
      BY <2>1
    <2> QED BY <2>1, <2>2, Zenon DEF RegisterToolRpc
  <1>3. ShapeInv'
    BY <1>1, <1>2 DEF CatInv, ShapeInv
  <1>4. RegisterInv'
    BY <1>1, <1>2 DEF CatInv, ShapeInv, RegisterInv, IsRegistered
  <1> QED BY <1>1, <1>3, <1>4, LedgerStays, ProvideStays, LaunchStays DEF CatInv

LEMMA RecordFields ==
  /\ \A n, e : RegisterRecord(n, e).definition = DefinitionFromWire(n)
  /\ \A s, e : ConnectRecord(s, e).tools = Streams[s].tools
  BY Zenon DEF RegisterRecord, ConnectRecord

LEMMA RecordsDiffer == \A n, s, e, f : RegisterRecord(n, e) # ConnectRecord(s, f)
  BY DEF RegisterRecord, ConnectRecord

\* A recorded registration is that of the call that finds it.
LEMMA LedgerTells ==
  ASSUME CatInv, NEW n \in DOMAIN RegisterCalls, NEW l \in regledger, l.command = RegisterCommand(n)
  PROVE  IsRegistered(n)
  <1>1. PICK e : l.command = RegisterRecord(n, e)
    BY Zenon DEF RegisterCommand, RegisterRecord
  <1>2. ASSUME NEW m \in DOMAIN RegisterCalls, IsRegistered(m), NEW f, l.command = RegisterRecord(m, f)
        PROVE  IsRegistered(n)
    <2>1. l.command.definition = DefinitionFromWire(n)
      BY <1>1, RecordFields, Zenon
    <2>2. l.command.definition = DefinitionFromWire(m)
      BY <1>2, RecordFields, Zenon
    <2> QED BY <1>2, <2>1, <2>2, Zenon DEF IsRegistered
  <1>3. ASSUME NEW s \in DOMAIN Streams, NEW f, l.command = ConnectRecord(s, f)
        PROVE  FALSE
    BY <1>1, <1>3, RecordsDiffer, Zenon
  <1> QED BY <1>2, <1>3 DEF CatInv, LedgerInv

LEMMA RegisterKeeps ==
  ASSUME CatInv, NEW n \in DOMAIN RegisterCalls, RegisterTool(n)
  PROVE  CatInv'
  <1>1. UNCHANGED <<provides, routing, fetch, shown, served>>
    BY DEF RegisterTool
  <1>2. PICK c : c = RegisterCommand(n)
    OBVIOUS
  <1>3. PICK e : c = RegisterRecord(n, e)
    BY <1>2, Zenon DEF RegisterCommand, RegisterRecord
  <1>4. PICK row : row = [id |-> c.id, definition |-> c.definition]
    BY Zenon
  <1>5. row.definition = DefinitionFromWire(n)
    BY <1>3, <1>4 DEF RegisterRecord
  <1>6. PICK out \in {"registered", "conflict", "refused"} :
          /\ RegAnswer(n, out)
          /\ \/ UNCHANGED <<regrows, regledger>> /\ (out = "registered" => IsRegistered(n))
             \/ /\ regrows' = regrows \/ regrows' = regrows \cup {row}
                /\ row \in regrows'
                /\ regledger' = regledger \cup {[request |-> RegisterCalls[n].request, command |-> c]}
    <2>1. CASE InLedger(RegisterCalls[n].request) # {}
      <3>1. PICK out \in {"registered", "conflict"} :
              /\ out = "registered" <=> \A l \in InLedger(RegisterCalls[n].request) : l.command = c
              /\ RegAnswer(n, out)
        BY <1>2, <2>1 DEF RegisterTool
      <3>2. UNCHANGED <<regrows, regledger>>
        BY <2>1 DEF RegisterTool
      <3>3. out = "registered" => IsRegistered(n)
        BY <1>2, <2>1, <3>1, LedgerTells, Zenon DEF InLedger
      <3> QED BY <3>1, <3>2, <3>3
    <2>2. CASE InLedger(RegisterCalls[n].request) = {} /\ (~Owns(c.epoch) \/ c.consumer # Consumer)
      <3>1. RegAnswer(n, "refused") /\ UNCHANGED <<regrows, regledger>>
        BY <1>2, <2>2 DEF RegisterTool
      <3> QED BY <3>1
    <2>3. CASE /\ InLedger(RegisterCalls[n].request) = {} /\ Owns(c.epoch) /\ c.consumer = Consumer
               /\ LoadToolRegistration(c.definition.name, c.definition.version) # {}
      <3>1. \/ /\ LoadToolRegistration(c.definition.name, c.definition.version) = {row}
               /\ RegAnswer(n, "registered") /\ UNCHANGED regrows
               /\ regledger' = regledger \cup {[request |-> RegisterCalls[n].request, command |-> c]}
            \/ RegAnswer(n, "conflict") /\ UNCHANGED <<regrows, regledger>>
        BY <1>2, <1>4, <2>3 DEF RegisterTool
      <3> QED BY <3>1 DEF LoadToolRegistration
    <2>4. CASE /\ InLedger(RegisterCalls[n].request) = {} /\ Owns(c.epoch) /\ c.consumer = Consumer
               /\ LoadToolRegistration(c.definition.name, c.definition.version) = {}
      <3>1. \/ /\ RegAnswer(n, "registered") /\ regrows' = regrows \cup {row}
               /\ regledger' = regledger \cup {[request |-> RegisterCalls[n].request, command |-> c]}
            \/ RegAnswer(n, "refused") /\ UNCHANGED <<regrows, regledger>>
        BY <1>2, <1>4, <2>4 DEF RegisterTool
      <3> QED BY <3>1
    <2> QED BY <2>1, <2>2, <2>3, <2>4
  <1>7. regrows \subseteq regrows' /\ (out = "registered" => IsRegistered(n)')
    BY <1>5, <1>6 DEF IsRegistered
  <1>8. ShapeInv'
    BY <1>1, <1>6 DEF CatInv, ShapeInv, RegAnswer
  <1>9. RegisterInv'
    <2>1. regcalls'[n].pc = "answered" /\ regcalls'[n].out = out
      BY <1>6, Zenon DEF RegAnswer, CatInv, ShapeInv
    <2>2. \A m \in DOMAIN RegisterCalls \ {n} : regcalls'[m] = regcalls[m]
      BY <1>6 DEF RegAnswer, CatInv, ShapeInv
    <2> QED BY <1>7, <2>1, <2>2, Stays, Zenon DEF CatInv, RegisterInv
  <1>10. LedgerInv'
    <2>1. CASE regledger' = regledger
      BY <1>7, <2>1, LedgerStays DEF CatInv
    <2>2. CASE /\ row \in regrows'
               /\ regledger' = regledger \cup {[request |-> RegisterCalls[n].request, command |-> c]}
      <3>1. IsRegistered(n)'
        BY <1>5, <2>2 DEF IsRegistered
      <3>2. \A l \in regledger :
              \/ \E m \in DOMAIN RegisterCalls : IsRegistered(m)' /\ \E f : l.command = RegisterRecord(m, f)
              \/ \E s \in DOMAIN Streams :
                   AllRegistered(Streams[s].tools)' /\ \E f : l.command = ConnectRecord(s, f)
        BY <1>7, Stays DEF CatInv, LedgerInv
      <3> QED BY <1>3, <2>2, <3>1, <3>2 DEF LedgerInv
    <2> QED BY <1>6, <2>1, <2>2
  <1> QED BY <1>1, <1>7, <1>8, <1>9, <1>10, ProvideStays, LaunchStays DEF CatInv

\* A recorded connection is that of the stream that finds it.
LEMMA LedgerConnects ==
  ASSUME CatInv, NEW s \in DOMAIN Streams, NEW l \in regledger, l.command = ConnectCommand(s)
  PROVE  AllRegistered(Streams[s].tools)
  <1>1. PICK e : l.command = ConnectRecord(s, e)
    BY Zenon DEF ConnectCommand, ConnectRecord
  <1>2. ASSUME NEW t \in DOMAIN Streams, AllRegistered(Streams[t].tools), NEW f,
               l.command = ConnectRecord(t, f)
        PROVE  AllRegistered(Streams[s].tools)
    <2>1. l.command.tools = Streams[s].tools
      BY <1>1, RecordFields, Zenon
    <2>2. l.command.tools = Streams[t].tools
      BY <1>2, RecordFields, Zenon
    <2> QED BY <1>2, <2>1, <2>2, Zenon
  <1>3. ASSUME NEW m \in DOMAIN RegisterCalls, NEW f, l.command = RegisterRecord(m, f)
        PROVE  FALSE
    BY <1>1, <1>3, RecordsDiffer, Zenon
  <1> QED BY <1>2, <1>3 DEF CatInv, LedgerInv

\* A step of stream s to x that leaves the registry alone.
LEMMA StreamSteps ==
  ASSUME CatInv, NEW s \in DOMAIN Streams, NEW x, ProvideStep(s, x), UNCHANGED <<regrows, regcalls>>,
         x.pc \in {"connected", "serving"} => AllRegistered(Streams[s].tools)
  PROVE  /\ DOMAIN provides' = DOMAIN Streams
         /\ \A t \in DOMAIN Streams :
              provides'[t].pc \in {"connected", "serving"} => AllRegistered(Streams[t].tools)'
  <1>1. provides' = [provides EXCEPT ![s] = x] /\ DOMAIN provides = DOMAIN Streams
    BY DEF ProvideStep, CatInv, ShapeInv
  <1>2. \A t \in DOMAIN Streams :
          provides[t].pc \in {"connected", "serving"} => AllRegistered(Streams[t].tools)'
    BY DEF CatInv, ProvideInv, AllRegistered
  <1> QED BY <1>1, <1>2 DEF AllRegistered

LEMMA ConnectKeeps ==
  ASSUME CatInv, NEW s \in DOMAIN Streams, ConnectProvider(s)
  PROVE  CatInv'
  <1>1. UNCHANGED <<regrows, regcalls, routing, fetch, shown, served>>
    BY DEF ConnectProvider
  <1>2. PICK c : c = ConnectCommand(s)
    OBVIOUS
  <1>3. PICK x :
          /\ ProvideStep(s, x)
          /\ x.pc \in {"connected", "serving"} => AllRegistered(Streams[s].tools)
          /\ \/ regledger' = regledger
             \/ /\ AllRegistered(Streams[s].tools)
                /\ \E l : l.command = c /\ regledger' = regledger \cup {l}
    <2>1. CASE InLedger(<<c.provider, c.conn>>) # {}
      <3>1. PICK x :
              /\ x = IF \A l \in InLedger(<<c.provider, c.conn>>) : l.command = c
                     THEN [pc |-> "connected", gen |-> (CHOOSE l \in InLedger(<<c.provider, c.conn>>) : TRUE).gen]
                     ELSE [pc |-> "ended"]
              /\ ProvideStep(s, x) /\ regledger' = regledger
        BY <1>2, <2>1, Zenon DEF ConnectProvider
      <3>2. x.pc \in {"connected", "serving"} => \A l \in InLedger(<<c.provider, c.conn>>) : l.command = c
        BY <3>1
      <3>3. x.pc \in {"connected", "serving"} => AllRegistered(Streams[s].tools)
        BY <1>2, <2>1, <3>2, LedgerConnects DEF InLedger
      <3> QED BY <3>1, <3>3
    <2>2. CASE InLedger(<<c.provider, c.conn>>) = {} /\ ConnectAdmits(c)
      <3>1. PICK gen : /\ regledger' = regledger \cup
                            {[request |-> <<c.provider, c.conn>>, command |-> c, gen |-> gen]}
                       /\ ProvideStep(s, [pc |-> "connected", gen |-> gen])
        BY <1>2, <2>2, Zenon DEF ConnectProvider
      <3>2. AllRegistered(Streams[s].tools)
        BY <1>2, <2>2, Zenon DEF ConnectAdmits, ConnectCommand, AllRegistered
      <3>3. PICK l : l = [request |-> <<c.provider, c.conn>>, command |-> c, gen |-> gen]
        BY Zenon
      <3>4. l.command = c /\ regledger' = regledger \cup {l}
        BY <3>1, <3>3
      <3> QED BY <3>1, <3>2, <3>4
    <2>3. CASE InLedger(<<c.provider, c.conn>>) = {} /\ ~ConnectAdmits(c)
      <3>1. ProvideStep(s, [pc |-> "ended"]) /\ regledger' = regledger
        BY <1>2, <2>3 DEF ConnectProvider
      <3> QED BY <3>1
    <2> QED BY <2>1, <2>2, <2>3
  <1>4. /\ DOMAIN provides' = DOMAIN Streams
        /\ \A t \in DOMAIN Streams :
             provides'[t].pc \in {"connected", "serving"} => AllRegistered(Streams[t].tools)'
    BY <1>1, <1>3, StreamSteps, Zenon
  <1>5. \A ids : AllRegistered(ids) <=> AllRegistered(ids)'
    BY <1>1 DEF AllRegistered
  <1>6. ShapeInv' /\ ProvideInv'
    BY <1>1, <1>4, <1>5, Zenon DEF CatInv, ShapeInv, ProvideInv
  <1>7. LedgerInv'
    <2>1. CASE regledger' = regledger
      BY <1>1, <2>1, LedgerStays DEF CatInv
    <2>2. ASSUME AllRegistered(Streams[s].tools), NEW l, l.command = c, regledger' = regledger \cup {l}
          PROVE  LedgerInv'
      <3>1. \E e : l.command = ConnectRecord(s, e)
        BY <1>2, <2>2, Zenon DEF ConnectCommand, ConnectRecord
      <3>2. \A m : IsRegistered(m) <=> IsRegistered(m)'
        BY <1>1 DEF IsRegistered
      <3>3. \A k \in regledger :
              \/ \E m \in DOMAIN RegisterCalls : IsRegistered(m)' /\ \E f : k.command = RegisterRecord(m, f)
              \/ \E t \in DOMAIN Streams :
                   AllRegistered(Streams[t].tools)' /\ \E f : k.command = ConnectRecord(t, f)
        BY <1>5, <3>2 DEF CatInv, LedgerInv
      <3> QED BY <1>5, <2>2, <3>1, <3>3 DEF LedgerInv
    <2> QED BY <1>3, <2>1, <2>2
  <1> QED BY <1>1, <1>6, <1>7, RegisterStays, LaunchStays DEF CatInv

LEMMA ProvidersKeep ==
  ASSUME CatInv, NEW s \in DOMAIN Streams,
         ProvideToolsRpc(s) \/ InstallProviderRoute(s) \/ ProviderLeaves(s)
  PROVE  CatInv'
  <1>1. UNCHANGED <<regrows, regledger, regcalls, fetch, shown, served>>
    BY DEF ProvideToolsRpc, InstallProviderRoute, ProviderLeaves
  <1>2. Streams[s].provider \in Providers /\ DOMAIN routing = Providers
    BY DEF Providers, CatInv, ShapeInv
  <1>3. PICK x :
          /\ ProvideStep(s, x)
          /\ x.pc \in {"connected", "serving"} => AllRegistered(Streams[s].tools)
          /\ \/ routing' = routing
             \/ \E y : /\ routing' = [routing EXCEPT ![Streams[s].provider] = y]
                       /\ y = NoOne \/ (AllRegistered(Streams[s].tools) /\ y.tools = Streams[s].tools)
    <2>1. CASE ProvideToolsRpc(s)
      <3>1. PICK x : x = IF AuthenticatedConsumer(Streams[s].consumer)
                         THEN [pc |-> "called", epoch |-> holder.epoch] ELSE [pc |-> "ended"]
        BY Zenon
      <3>2. ProvideStep(s, x) /\ routing' = routing
        BY <2>1, <3>1, Zenon DEF ProvideToolsRpc
      <3>3. x.pc \in {"called", "ended"}
        BY <3>1
      <3> QED BY <3>2, <3>3, Zenon
    <2>2. CASE InstallProviderRoute(s)
      <3>1. AllRegistered(Streams[s].tools)
        BY <2>2 DEF InstallProviderRoute, CatInv, ProvideInv
      <3>2. CASE ProvideStep(s, [pc |-> "ended"]) /\ UNCHANGED routing
        BY <3>1, <3>2
      <3>3. CASE /\ ProvideStep(s, [provides[s] EXCEPT !.pc = "serving"])
                 /\ routing' = [routing EXCEPT ![Streams[s].provider] =
                      [conn |-> Streams[s].conn, gen |-> provides[s].gen, tools |-> Streams[s].tools]]
        <4>1. PICK y : y = [conn |-> Streams[s].conn, gen |-> provides[s].gen, tools |-> Streams[s].tools]
          BY Zenon
        <4>2. y.tools = Streams[s].tools /\ routing' = [routing EXCEPT ![Streams[s].provider] = y]
          BY <3>3, <4>1
        <4> QED BY <3>1, <3>3, <4>2, Zenon
      <3> QED BY <2>2, <3>2, <3>3 DEF InstallProviderRoute
    <2>3. CASE ProviderLeaves(s)
      <3>1. ProvideStep(s, [pc |-> "ended"])
        BY <2>3, Zenon DEF ProviderLeaves
      <3>2. routing' = routing \/ routing' = [routing EXCEPT ![Streams[s].provider] = NoOne]
        BY <2>3, Zenon DEF ProviderLeaves
      <3> QED BY <3>1, <3>2
    <2> QED BY <2>1, <2>2, <2>3, Zenon
  <1>4. /\ DOMAIN provides' = DOMAIN Streams
        /\ \A t \in DOMAIN Streams :
             provides'[t].pc \in {"connected", "serving"} => AllRegistered(Streams[t].tools)'
    BY <1>1, <1>3, StreamSteps, Zenon
  <1>5. \A ids : AllRegistered(ids) <=> AllRegistered(ids)'
    BY <1>1 DEF AllRegistered
  <1>6. /\ DOMAIN routing' = Providers
        /\ \A p \in Providers : routing'[p] # NoOne => AllRegistered(routing'[p].tools)
    BY <1>2, <1>3, Zenon DEF CatInv, ProvideInv
  <1>7. ShapeInv' /\ ProvideInv'
    BY <1>1, <1>4, <1>5, <1>6, Zenon DEF CatInv, ShapeInv, ProvideInv
  <1> QED BY <1>1, <1>7, LedgerStays, RegisterStays, LaunchStays DEF CatInv

LEMMA LaunchesKeep ==
  ASSUME CatInv, Catalogued
  PROVE  CatInv'
  <1>1. UNCHANGED <<regrows, regledger, regcalls, provides, routing>>
    BY DEF Catalogued, DriverFor, ReconnectOrigin, ReuseDriver, SnapshotUnchanged, LaunchWithCatalog
  <1>2. \A cat : SoundCatalog(cat) <=> SoundCatalog(cat)'
    BY <1>1 DEF SoundCatalog
  <1>3. \A cat : SoundCatalog(cat) => cat.entries \subseteq BuildCatalog(cat.work, regrows)
    BY DEF SoundCatalog, BuildCatalog
  <1>4. LaunchInv
    BY DEF CatInv
  <1>5. LaunchInv'
    <2>1. ASSUME NEW o \in DOMAIN Works, DriverFor(o) PROVE LaunchInv'
      <3>1. fetch'.work = o /\ fetch'.catalog = Catalog(o) /\ UNCHANGED <<shown, served>>
        BY <2>1 DEF DriverFor
      <3>2. Catalog(o).work = o /\ SoundCatalog(Catalog(o))
        BY DEF Catalog, SoundCatalog
      <3> QED BY <1>1, <1>2, <1>4, <3>1, <3>2 DEF LaunchInv
    <2>2. ASSUME NEW o \in DOMAIN Works, ReconnectOrigin(o) PROVE LaunchInv'
      <3>1. /\ shown # NoOne /\ shown.catalog.work = o /\ Catalog(o) = shown.catalog
            /\ served' = [work |-> o, wants |-> Catalog(o).entries,
                          shows |-> shown.catalog.entries, of |-> o]
            /\ UNCHANGED <<fetch, shown>>
        BY <2>2 DEF ReconnectOrigin
      <3>2. /\ served'.work = o /\ served'.of = o /\ served'.wants = shown.catalog.entries
            /\ served'.shows = shown.catalog.entries
        BY <3>1, Zenon
      <3>3. SoundCatalog(shown.catalog)
        BY <1>4, <3>1, Zenon DEF LaunchInv
      <3> QED BY <1>1, <1>2, <1>3, <1>4, <3>1, <3>2, <3>3, Zenon DEF LaunchInv
    <2>3. CASE ReuseDriver
      <3>1. /\ fetch.pc = "read" /\ shown # NoOne
            /\ fetch.catalog.entries = {} \/ shown.catalog = fetch.catalog
            /\ served' = [work |-> fetch.work, wants |-> fetch.catalog.entries,
                          shows |-> shown.catalog.entries, of |-> shown.catalog.work]
            /\ fetch'.pc = "idle" /\ UNCHANGED shown
        BY <2>3, Zenon DEF ReuseDriver, Reusable, Serve
      <3>2. /\ served'.work = fetch.work /\ served'.of = shown.catalog.work
            /\ served'.wants = fetch.catalog.entries /\ served'.shows = shown.catalog.entries
        BY <3>1, Zenon
      <3>3. SoundCatalog(shown.catalog) /\ fetch.catalog.work = fetch.work
        BY <1>4, <3>1 DEF LaunchInv
      <3> QED BY <1>1, <1>2, <1>3, <1>4, <3>1, <3>2, <3>3, Zenon DEF LaunchInv
    <2>4. CASE SnapshotUnchanged
      <3>1. UNCHANGED served /\ fetch.pc = "read"
        BY <2>4 DEF SnapshotUnchanged
      <3>2. CASE fetch' = [fetch EXCEPT !.pc = "admitted"] /\ shown' = NoOne
        <4>1. fetch'.work = fetch.work /\ fetch'.catalog = fetch.catalog
          BY <3>2
        <4> QED BY <1>1, <1>2, <1>4, <3>1, <3>2, <4>1 DEF LaunchInv
      <3>3. CASE fetch' = [pc |-> "idle"] /\ UNCHANGED shown
        <4>1. fetch'.pc = "idle"
          BY <3>3
        <4> QED BY <1>1, <1>2, <1>4, <3>1, <3>3, <4>1 DEF LaunchInv
      <3> QED BY <2>4, <3>2, <3>3 DEF SnapshotUnchanged
    <2>5. CASE LaunchWithCatalog
      <3>1. fetch.pc = "admitted" /\ fetch'.pc = "idle"
        BY <2>5 DEF LaunchWithCatalog
      <3>2. CASE UNCHANGED <<shown, served>>
        BY <1>1, <1>2, <1>4, <3>1, <3>2 DEF LaunchInv
      <3>3. CASE /\ shown' = [epoch |-> fetch.epoch, catalog |-> fetch.catalog]
                 /\ Serve(fetch.catalog, shown')
        <4>1. shown'.catalog = fetch.catalog
          BY <3>3
        <4>2. /\ served'.work = fetch.work /\ served'.of = fetch.catalog.work
              /\ served'.wants = fetch.catalog.entries /\ served'.shows = fetch.catalog.entries
          BY <3>3, <4>1 DEF Serve
        <4>3. SoundCatalog(fetch.catalog) /\ fetch.catalog.work = fetch.work
          BY <1>4, <3>1 DEF LaunchInv
        <4> QED BY <1>1, <1>2, <1>3, <3>1, <4>1, <4>2, <4>3 DEF LaunchInv
      <3> QED BY <2>5, <3>2, <3>3 DEF LaunchWithCatalog
    <2> QED BY <2>1, <2>2, <2>3, <2>4, <2>5 DEF Catalogued
  <1>6. ShapeInv'
    BY <1>1 DEF CatInv, ShapeInv
  <1> QED BY <1>1, <1>5, <1>6, LedgerStays, RegisterStays, ProvideStays DEF CatInv

LEMMA CatalogStart == CatalogInit => CatInv
  <1> SUFFICES ASSUME CatalogInit PROVE CatInv
    OBVIOUS
  <1>2. ShapeInv /\ LedgerInv
    BY DEF CatalogInit, ShapeInv, LedgerInv
  <1>3. RegisterInv
    BY DEF CatalogInit, RegisterInv
  <1>4. ProvideInv
    BY DEF CatalogInit, ProvideInv
  <1>5. LaunchInv
    BY DEF CatalogInit, LaunchInv
  <1> QED BY <1>2, <1>3, <1>4, <1>5 DEF CatInv

LEMMA CatalogStep ==
  ASSUME CatInv, [CatalogNext]_catalogVars
  PROVE  CatInv'
  <1>1. CASE Registration
    <2>1. CASE ToolTenureChanges
      <3>1. UNCHANGED <<regrows, regledger, regcalls, provides, routing, fetch, shown, served>>
        BY <2>1 DEF ToolTenureChanges
      <3> QED BY <3>1, LedgerStays, RegisterStays, ProvideStays, LaunchStays
              DEF CatInv, ShapeInv
    <2> QED BY <1>1, <2>1, RegisterRpcKeeps, RegisterKeeps DEF Registration
  <1>2. CASE Provision
    BY <1>2, ConnectKeeps, ProvidersKeep DEF Provision
  <1>3. CASE Catalogued
    BY <1>3, LaunchesKeep
  <1>4. CASE UNCHANGED catalogVars
    <2>1. UNCHANGED <<regrows, regledger, regcalls, provides, routing, fetch, shown, served>>
      BY <1>4 DEF catalogVars
    <2> QED BY <2>1, LedgerStays, RegisterStays, ProvideStays, LaunchStays
            DEF CatInv, ShapeInv
  <1> QED BY <1>1, <1>2, <1>3, <1>4 DEF CatalogNext

LEMMA CatalogKept == CatInv => OffersStand
  BY DEF CatInv, LaunchInv, ProvideInv, RegisterInv, OffersStand, Routed, AllRegistered, IsRegistered

\* Whatever is registered, served and launched, in any order and under any
\* tenures: an operation with tools is shown the tools of its own catalog,
\* each registered as it is shown, a routed provider serves registered tools
\* only, and a registration that was acknowledged stands (driver_for,
\* build_catalog, register_tool, connect_tool_provider).
THEOREM OffersAreKept == CatalogSpec => []OffersStand
  <1>1. CatalogInit => CatInv
    BY CatalogStart
  <1>2. CatInv /\ [CatalogNext]_catalogVars => CatInv'
    BY CatalogStep
  <1> QED BY <1>1, <1>2, CatalogKept, PTL DEF CatalogSpec
=============================================================================
