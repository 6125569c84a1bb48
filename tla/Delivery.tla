------------------------------ MODULE Delivery ------------------------------
(***************************************************************************)
(* Delivery of one mailbox's messages to the participant's driver: the     *)
(* delivery loop of each host (DeliveryLoop::drive_once and reconcile),    *)
(* the mailbox it shares with the other hosts, and the driver instances    *)
(* with their durable acceptance journals.  A host runs one loop at a time *)
(* for a participant (participant_locks); between two awaits of a loop     *)
(* anything else may happen.  A request written to a driver's socket stays *)
(* on the wire until the driver reads it, which may be after the call that *)
(* sent it timed out, or never.                                            *)
(***************************************************************************)
EXTENDS Mailbox

CONSTANT
  Cancels      \* control messages that are handed over as driver cancel calls

ASSUME DeliveryAssumption ==
  /\ Cancels \subseteq Controls
  /\ \A s \in Scenarios : s.faults \in Nat /\ s.punctual \in BOOLEAN

VARIABLES
  loops,     \* the delivery loop of each host
  wire,      \* deliver and cancel requests sent and not yet read by a driver
  up,        \* whether the instance's driver process runs
  journal,   \* the driver's durable record of each message
  effects,   \* how often an instance acted on a message
  cancelled, \* cancel requests an instance has performed
  faults     \* crashes and abandoned loops so far

driver == <<wire, up, journal, effects, cancelled>>
system == <<owner, epoch, launch, msgs, nextSeq, queued, opDone,
            loops, wire, up, journal, effects, cancelled, faults>>
vars == <<system, scenario>>

Punctual == scenario.punctual   \* a host commits a call's result before its lease lapses
MaxFaults == scenario.faults    \* bound: crashes and abandoned loops explored

Idle == [pc |-> "idle"]

NoRecord == [attempt |-> 0, stage |-> "none"]

Requests == [inst : Instances, msg : Messages, attempt : 1..MaxAttempts]

Init ==
  /\ MailboxInit
  /\ loops = [h \in Hosts |-> Idle]
  /\ wire = {}
  /\ up = [i \in Instances |-> FALSE]
  /\ journal = [i \in Instances |-> [m \in Messages |-> NoRecord]]
  /\ effects = [i \in Instances |-> [m \in Messages |-> 0]]
  /\ cancelled = {}
  /\ faults = 0

-----------------------------------------------------------------------------
(* Driver instances. *)

Launch(h, i) ==
  /\ LaunchReady(h, i)
  /\ up' = [up EXCEPT ![i] = TRUE]
  /\ UNCHANGED <<loops, wire, journal, effects, cancelled, faults>>

\* The process dies, and what was on its sockets with it.
InstanceCrash(i) ==
  /\ up[i]
  /\ faults < MaxFaults
  /\ up' = [up EXCEPT ![i] = FALSE]
  /\ wire' = {r \in wire : r.inst # i}
  /\ faults' = faults + 1
  /\ UNCHANGED <<owner, epoch, launch, msgs, nextSeq, queued, opDone,
                 loops, journal, effects, cancelled>>

\* A replacement process of the same instance reads the journal back.
InstanceRestart(i) ==
  /\ launch[i].state = "ready"
  /\ ~up[i]
  /\ up' = [up EXCEPT ![i] = TRUE]
  /\ UNCHANGED <<owner, epoch, launch, msgs, nextSeq, queued, opDone,
                 loops, wire, journal, effects, cancelled, faults>>

\* The owner stops an instance that no longer answers and records it.
InstanceStopped(h, i) ==
  /\ ~up[i]
  /\ LaunchStopped(h, i)
  /\ UNCHANGED <<loops, wire, up, journal, effects, cancelled, faults>>

\* The first request for a message is journaled and acted on; the same
\* attempt again is answered from the journal, another one is a conflict.
DriverDeliver(r) ==
  /\ r \in wire
  /\ r.msg \notin Cancels
  /\ up[r.inst]
  /\ wire' = wire \ {r}
  /\ IF journal[r.inst][r.msg] = NoRecord
     THEN /\ journal' = [journal EXCEPT ![r.inst][r.msg] =
                           [attempt |-> r.attempt, stage |-> "accepted"]]
          /\ effects' = [effects EXCEPT ![r.inst][r.msg] = @ + 1]
     ELSE UNCHANGED <<journal, effects>>
  /\ UNCHANGED <<owner, epoch, launch, msgs, nextSeq, queued, opDone,
                 loops, up, cancelled, faults>>

\* A crash between the persisted intent and the persisted acceptance.
DriverCrashInDelivery(r) ==
  /\ r \in wire
  /\ r.msg \notin Cancels
  /\ up[r.inst]
  /\ journal[r.inst][r.msg] = NoRecord
  /\ faults < MaxFaults
  /\ journal' = [journal EXCEPT ![r.inst][r.msg] =
                   [attempt |-> r.attempt, stage |-> "uncertain"]]
  /\ effects' = [effects EXCEPT ![r.inst][r.msg] = @ + 1]
  /\ up' = [up EXCEPT ![r.inst] = FALSE]
  /\ wire' = {q \in wire : q.inst # r.inst}
  /\ faults' = faults + 1
  /\ UNCHANGED <<owner, epoch, launch, msgs, nextSeq, queued, opDone, loops, cancelled>>

DriverCancel(r) ==
  /\ r \in wire
  /\ r.msg \in Cancels
  /\ up[r.inst]
  /\ wire' = wire \ {r}
  /\ cancelled' = cancelled \cup {r}
  /\ UNCHANGED <<owner, epoch, launch, msgs, nextSeq, queued, opDone,
                 loops, up, journal, effects, faults>>

\* Whether the driver has accepted a request it was sent.
Performed(r) ==
  IF r.msg \in Cancels THEN r \in cancelled
  ELSE journal[r.inst][r.msg] = [attempt |-> r.attempt, stage |-> "accepted"]

\* The acceptance query reads the journal, where a cancel leaves no record.
MutQueryAnswer(i, m, attempt) ==
  IF journal[i][m] = NoRecord THEN "refused" ELSE "accepted"

QueryAnswer(i, m, attempt) ==
  CASE journal[i][m] = NoRecord -> "refused"
    [] journal[i][m] = [attempt |-> attempt, stage |-> "accepted"] -> "accepted"
    [] OTHER -> "unknown"

-----------------------------------------------------------------------------
(* The delivery loop.  A permit revoked at one of its checks, a failed      *)
(* store call and a crash of the host all abandon the loop (LoopAbort).     *)

RequestOf(l) == [inst |-> l.inst, msg |-> l.msg, attempt |-> l.attempt]

Goto(h, pc) == loops' = [loops EXCEPT ![h].pc = pc]

Finish(h) == loops' = [loops EXCEPT ![h] = Idle]

\* A lapsed delivery in doubt is leased again: its acceptance is queried.
LoopRecover(h, m) ==
  /\ loops[h] = Idle
  /\ LeaseRecovery(h, epoch, m)
  /\ loops' = [loops EXCEPT ![h] =
       [pc |-> "query", tenure |-> epoch, msg |-> m, rev |-> msgs[m].rev + 1,
        attempt |-> msgs[m].attempts, inst |-> msgs[m].inst, recon |-> TRUE]]
  /\ UNCHANGED <<wire, up, journal, effects, cancelled, faults>>

LoopExhausted(h, m, i) ==
  /\ loops[h] = Idle
  /\ LeaseExhausted(h, epoch, m, i)
  /\ UNCHANGED <<loops, wire, up, journal, effects, cancelled, faults>>

LoopLease(h, m, i) ==
  /\ loops[h] = Idle
  /\ LeaseFresh(h, epoch, m, i)
  /\ loops' = [loops EXCEPT ![h] =
       [pc |-> "leased", tenure |-> epoch, msg |-> m, rev |-> msgs[m].rev + 1,
        attempt |-> msgs[m].attempts + 1, inst |-> i, recon |-> FALSE]]
  /\ UNCHANGED <<wire, up, journal, effects, cancelled, faults>>

\* The loop's next store transition, with the snapshot's revision.
Commit(h, new) ==
  LET l == loops[h] IN Transition(h, l.tenure, l.msg, l.attempt, l.rev, new)

CommitPending(h) ==
  /\ loops[h].pc = "leased"
  /\ Commit(h, "pending")
  /\ loops' = [loops EXCEPT ![h].pc = "send", ![h].rev = @ + 1]
  /\ UNCHANGED <<wire, up, journal, effects, cancelled, faults>>

\* The request reaches the driver's socket if its process runs.
Send(h) ==
  /\ loops[h].pc = "send"
  /\ wire' = IF up[loops[h].inst] THEN wire \cup {RequestOf(loops[h])} ELSE wire
  /\ Goto(h, "await")
  /\ UNCHANGED <<owner, epoch, launch, msgs, nextSeq, queued, opDone,
                 up, journal, effects, cancelled, faults>>

ObserveAccepted(h) ==
  /\ loops[h].pc = "await"
  /\ Performed(RequestOf(loops[h]))
  /\ Goto(h, "accepted")
  /\ UNCHANGED <<owner, epoch, launch, msgs, nextSeq, queued, opDone,
                 wire, up, journal, effects, cancelled, faults>>

\* The call failed, timed out, or was answered with a conflict or Unknown.
ObserveDoubt(h) ==
  /\ loops[h].pc = "await"
  /\ Goto(h, "doubt")
  /\ UNCHANGED <<owner, epoch, launch, msgs, nextSeq, queued, opDone,
                 wire, up, journal, effects, cancelled, faults>>

CommitUnknown(h) ==
  /\ loops[h].pc = "doubt"
  /\ Commit(h, "unknown")
  /\ loops' = [loops EXCEPT ![h].pc = "query", ![h].rev = @ + 1]
  /\ UNCHANGED <<wire, up, journal, effects, cancelled, faults>>

\* The instance that got the request is asked what became of it.
QueryAnswered(h) ==
  LET l == loops[h]
  IN  /\ l.pc = "query"
      /\ up[l.inst]
      /\ LET answer == QueryAnswer(l.inst, l.msg, l.attempt)
         IN  /\ answer # "unknown"
             /\ Goto(h, answer)
      /\ UNCHANGED <<owner, epoch, launch, msgs, nextSeq, queued, opDone,
                     wire, up, journal, effects, cancelled, faults>>

\* No answer, or Unknown: the first time the message is left for a later
\* reconciliation (ReconciliationRequired), the second time it is given up.
QueryInconclusive(h) ==
  /\ loops[h].pc = "query"
  /\ IF loops[h].recon THEN Goto(h, "lost") ELSE Finish(h)
  /\ UNCHANGED <<owner, epoch, launch, msgs, nextSeq, queued, opDone,
                 wire, up, journal, effects, cancelled, faults>>

\* Only a reconciliation looks at the budget; otherwise the next lease does.
RefusedState(l) == IF l.recon /\ l.attempt >= MaxAttempts THEN "dead" ELSE "retry"

CommitOutcome(h) ==
  /\ \/ loops[h].pc = "accepted" /\ Commit(h, "accepted")
     \/ loops[h].pc = "refused" /\ Commit(h, RefusedState(loops[h]))
     \/ loops[h].pc = "lost" /\ Commit(h, "uncertain")
  /\ Finish(h)
  /\ UNCHANGED <<wire, up, journal, effects, cancelled, faults>>

\* The store refuses the transition and the loop ends with its error.
CommitRefused(h) ==
  LET l == loops[h]
  IN  /\ l.pc \in {"leased", "doubt", "accepted", "refused", "lost"}
      /\ ~TransitionAllowed(h, l.tenure, l.msg, l.attempt, l.rev)
      /\ Finish(h)
      /\ UNCHANGED <<owner, epoch, launch, msgs, nextSeq, queued, opDone,
                     wire, up, journal, effects, cancelled, faults>>

LoopAbort(h) ==
  /\ loops[h] # Idle
  /\ faults < MaxFaults
  /\ Finish(h)
  /\ faults' = faults + 1
  /\ UNCHANGED <<owner, epoch, launch, msgs, nextSeq, queued, opDone,
                 wire, up, journal, effects, cancelled>>

\* delivery_deadlines_are_valid: a call ends before its lease lapses.  With
\* Punctual the result of the call is also committed before that.
LeaseLapse(m) ==
  /\ Punctual => \A h \in Hosts : ~(/\ loops[h] # Idle
                                     /\ loops[h].pc \in {"send", "await", "doubt"}
                                     /\ loops[h].msg = m
                                     /\ Authorized(h, loops[h].tenure))
  /\ Lapse(m)
  /\ UNCHANGED <<loops, wire, up, journal, effects, cancelled, faults>>

-----------------------------------------------------------------------------
LoopStep(h) ==
  \/ \E m \in Messages : LoopRecover(h, m)
  \/ \E m \in Messages, i \in Instances : LoopExhausted(h, m, i) \/ LoopLease(h, m, i)
  \/ CommitPending(h) \/ Send(h) \/ ObserveAccepted(h) \/ ObserveDoubt(h)
  \/ CommitUnknown(h) \/ QueryAnswered(h) \/ QueryInconclusive(h)
  \/ CommitOutcome(h) \/ CommitRefused(h)

DriverStep ==
  \/ \E r \in wire : DriverDeliver(r) \/ DriverCrashInDelivery(r) \/ DriverCancel(r)
  \/ \E i \in Instances : InstanceCrash(i) \/ InstanceRestart(i)

StoreStep ==
  /\ \/ Expire
     \/ \E h \in scenario.hosts : AcquireOwnership(h) \/ Retire(h)
     \/ \E h \in scenario.hosts, m \in scenario.messages : Enqueue(h, m)
  /\ UNCHANGED <<loops, wire, up, journal, effects, cancelled, faults>>

Next ==
  /\ \/ StoreStep
     \/ DriverStep
     \/ \E h \in Hosts : LoopStep(h) \/ LoopAbort(h)
     \/ \E h \in Hosts, i \in scenario.instances : Launch(h, i) \/ InstanceStopped(h, i)
     \/ \E m \in Messages : LeaseLapse(m)
  /\ UNCHANGED scenario

Spec == Init /\ [][Next]_vars

(* The tenure is taken up again after it ends, an instance is started for   *)
(* it, time passes, and a loop that can take a step takes one: each host    *)
(* polls due work (load_due_session_delivery_work) and every await of a     *)
(* loop ends by its timeout.  A driver is under no obligation to answer.    *)
Fairness ==
  /\ \A h \in Hosts : WF_system(LoopStep(h))
  /\ WF_system(\E m \in Messages : LeaseLapse(m))
  /\ WF_system(StoreStep /\ \E h \in scenario.hosts : AcquireOwnership(h))
  /\ WF_system(\E h \in Hosts, i \in scenario.instances : Launch(h, i))

FairSpec == Spec /\ Fairness

-----------------------------------------------------------------------------
(* Properties. *)

Acted(m) ==
  \/ \E i \in Instances : effects[i][m] > 0
  \/ \E r \in cancelled : r.msg = m

(* A message is Accepted only if a driver instance has accepted the very    *)
(* attempt the row names: a proof from another attempt never settles it.    *)
AcceptedIsPerformed ==
  \A m \in Messages : msgs[m].state = "accepted" =>
    \E i \in Instances : Performed([inst |-> i, msg |-> m, attempt |-> msgs[m].attempts])

(* An instance acts on a message at most once, although requests for        *)
(* several attempts of it may reach the instance, and in mailbox order:     *)
(* when any instance has acted on a message, every earlier one of its       *)
(* priority is settled, whatever was retried, recovered or arrived late.    *)
ActedOnceInOrder ==
  /\ \A i \in Instances, m \in Messages : effects[i][m] <= 1
  /\ \A m, n \in Messages :
       /\ Open(m) /\ msgs[n].state # "absent"
       /\ m \in Controls <=> n \in Controls
       /\ msgs[m].seq < msgs[n].seq
       => ~Acted(n)

(* Where hosts commit the result of a call before its lease lapses, the     *)
(* mailbox drains: every queued message is accepted, uncertain or dead in   *)
(* the end, although drivers may crash and never answer.                    *)
EventuallySettled ==
  Punctual ~> \A m \in Messages : ~Open(m)
=============================================================================
