------------------------------ MODULE Recovery ------------------------------
(***************************************************************************)
(* How a restarted or re-owning host reconciles a session: ResumeSession,  *)
(* OpenSession in resume mode and ResolveUncertainty of LocalNavigator,    *)
(* the Reconciler of navigator-core behind them, its StoreRecoveryBackend, *)
(* and the inventory and classification transactions of the SQLite store.  *)
(*                                                                         *)
(* The session holds one operation with its input message and one          *)
(* non-idempotent effect of it; drivers are launched once per epoch.       *)
(* What workers, deliveries and launches do in detail is the subject of    *)
(* OperationWorkers, Delivery and DriverExecutor: here they only move the  *)
(* durable states that recovery reads.  One host is modelled; its process  *)
(* may crash and its lease may lapse.  A slot of Requests stands for the   *)
(* request id of a call; a fresh call takes a new id.  Of the sessions the *)
(* host recovers beside this one, the epoch under which one is installed   *)
(* is kept: the backend finds the session of a classification by epoch.    *)
(***************************************************************************)
EXTENDS Naturals, FiniteSets

CONSTANTS
  Requests,   \* slots for calls of the consumer, each with its request id
  MaxEpoch,   \* bound: ownership epochs
  Scenarios   \* the instances a behaviour may belong to

Kinds == {"resume", "open", "resolve"}

\* Which of the behaviours below an instance has, and the bounds of the rest:
\*   requests  calls that may overlap
\*   kinds     the calls the consumer makes
\*   pump      the service has a mailbox dispatcher
\*   others    the host recovers another session too
\*   epochs    tenures of the session
\*   crashes   crashes of the host process
\*   faults    Store calls and inspections that fail
ASSUME RecoveryAssumption ==
  /\ MaxEpoch \in Nat
  /\ \A r \in Scenarios :
       r \in [requests : SUBSET Requests, kinds : SUBSET Kinds, pump : BOOLEAN,
             others : BOOLEAN, epochs : 1 .. MaxEpoch, crashes : Nat, faults : Nat]

Epochs == 1 .. MaxEpoch

VARIABLES
  scenario,     \* the instance this behaviour belongs to; it never changes
  held, epoch,  \* whether the lease of the latest epoch is in force
  sup,          \* the epoch of the active supervisor of the host, or 0
  installed,    \* InstalledRecovery: the epoch last acquired by recovery
  other,        \* the same for another session of the host, 0 for none
  op, msg, eff, \* durable states of operation, input message and effect
  launch,       \* durable state of the launch of each epoch
  proc,         \* the process behind it: "none", "up" or "gone"
  handle,       \* the launches whose Child handle the host retains
  worker,       \* the epoch of the operation's worker, or 0
  run,          \* what each call is doing
  ledger,       \* request ids the request ledger holds
  acquired,     \* the epoch acquire_ownership granted under the id derived from
                \* each request id, 0 for none
  refused,      \* the request ids whose acquisition was refused for good
  recorded,     \* recovery_classifications: [e, rows] of each request id
  clean,        \* history: epochs with a recorded, barrier-free classification
  continued,    \* history: epochs in which recovery continued work
  delivered,    \* history: epochs in which a message was handed to a driver
  crashes, faults

lease == <<held, epoch>>
host == <<sup, installed, other, handle, worker>>
work == <<op, msg, eff, launch, proc, delivered>>
ids == <<ledger, acquired, refused, recorded>>
system == <<lease, host, work, ids, run, clean, continued, crashes, faults>>

vars == <<system, scenario>>

NoRun == [pc |-> "none"]

RowsOf(ent, epochs, states, observations) ==
  [ent : {ent}, of : epochs, state : states, obs : observations]

\* The candidates of a reconciliation.
Rows ==
  RowsOf("op", {0}, {"queued", "starting", "running", "cancelling"}, {"none"})
    \cup RowsOf("msg", {0}, {"queued", "leased", "expired", "pending", "unknown"}, {"none"})
    \cup RowsOf("eff", {0}, {"reserved", "retryable", "unsafe"}, {"none"})
    \cup RowsOf("launch", Epochs, {"prepared", "attached", "ready", "stopping", "cleanup"},
                {"none", "absent", "different", "same"})

Owns(e) == held /\ epoch = e

\* The host may act under its supervisor's admission, and the Store agrees.
Admitted(e) == sup = e /\ Owns(e)

\* start_operation committed the operation with its input under epoch 1.
Init ==
  /\ scenario \in Scenarios
  /\ held = TRUE /\ epoch = 1 /\ sup = 1 /\ installed = 0 /\ other = 0
  /\ op = "queued" /\ msg = "queued" /\ eff = "none"
  /\ launch = [e \in Epochs |-> "none"]
  /\ proc = [e \in Epochs |-> "none"]
  /\ handle = {} /\ worker = 0
  /\ run = [r \in Requests |-> NoRun]
  /\ ledger = {} /\ recorded = [r \in Requests |-> {}]
  /\ acquired = [r \in Requests |-> 0] /\ refused = {}
  /\ clean = {} /\ continued = {} /\ delivered = {}
  /\ crashes = 0 /\ faults = 0

(***************************************************************************)
(* classify_recovery and planned_status.                                   *)
(***************************************************************************)
Unfinished == {"starting", "running", "cancelling"}

Safe(action) == [class |-> "safe", action |-> action]
Uncertain == [class |-> "uncertain", action |-> "await"]
Cleanup == [class |-> "cleanup", action |-> "cleanup"]

\* An executing operation counts as safe.
MutClassify(row) ==
  CASE row.ent = "op" -> Safe("schedule")
    [] row.ent = "msg" /\ row.state \in {"queued", "expired"} -> Safe("redeliver")
    [] row.ent = "msg" /\ row.state = "leased" -> Safe("continue")
    [] row.ent = "msg" /\ row.state \in {"pending", "unknown"} -> Uncertain
    [] row.ent = "eff" -> Safe("continue")
    [] row.ent = "launch" -> Safe("continue")

Classify(row) ==
  CASE row.ent = "op" -> IF row.state = "queued" THEN Safe("schedule") ELSE Uncertain
    [] row.ent = "msg" /\ row.state \in {"queued", "expired"} -> Safe("redeliver")
    [] row.ent = "msg" /\ row.state = "leased" -> Safe("continue")
    [] row.ent = "msg" /\ row.state \in {"pending", "unknown"} -> Uncertain
    [] row.ent = "eff" ->
         IF row.state \in {"reserved", "retryable"} THEN Safe("continue") ELSE Uncertain
    [] row.ent = "launch" /\ row.obs = "absent" ->
         IF row.state = "prepared" THEN Safe("continue") ELSE Cleanup
    [] row.ent = "launch" /\ row.obs # "absent" ->
         IF row.obs = "same" /\ row.state \in {"stopping", "cleanup"} THEN Cleanup
         ELSE Uncertain

Blocks(rows, class) == \E row \in rows : Classify(row).class = class

\* The rows whose action is executed.
Pending(rows) ==
  {row \in rows :
    /\ ~Blocks(rows, "uncertain")
    /\ \/ Classify(row).action = "cleanup"
       \/ Classify(row).action \in {"schedule", "redeliver"} /\ ~Blocks(rows, "cleanup")}

(***************************************************************************)
(* The durable states as load_recovery_inventory presents them: launches   *)
(* that are not stopped, an operation without outcome, a message that is   *)
(* not settled and an effect that is not resolved.                         *)
(***************************************************************************)
Row(ent, e, state) == [ent |-> ent, of |-> e, state |-> state, obs |-> "none"]

EffectState == IF eff \in {"started", "uncertain"} THEN "unsafe" ELSE eff

Inventory ==
  {Row("launch", e, launch[e]) : e \in {d \in Epochs : launch[d] \notin {"none", "stopped"}}}
    \cup {Row("op", 0, s) : s \in {op} \cap (Unfinished \cup {"queued"})}
    \cup {Row("msg", 0, s) : s \in {msg} \ {"accepted"}}
    \cup {Row("eff", 0, EffectState) : s \in {eff} \ {"none", "completed", "failed"}}

\* InstanceSupervisor::inspect_for_recovery; a process that this host process
\* did not spawn has no handle and cannot be identified.
Observe(row) ==
  CASE row.ent # "launch" -> "none"
    [] row.ent = "launch" /\ launch[row.of] \in {"prepared", "stopped"} -> "absent"
    [] row.ent = "launch" /\ launch[row.of] \notin {"prepared", "stopped"} ->
         IF row.of \notin handle THEN "different"
         ELSE IF proc[row.of] = "up" THEN "same" ELSE "absent"

\* validate_recovery_classifications
StillTrue(rows) ==
  \A row \in rows :
    row.state = CASE row.ent = "op" -> op
                  [] row.ent = "msg" -> msg
                  [] row.ent = "eff" -> EffectState
                  [] row.ent = "launch" -> launch[row.of]

(***************************************************************************)
(* A call.  Its first step is the check the service makes, and for an open *)
(* in resume mode the transaction that enters the call's request id in the *)
(* ledger; a refused call changes nothing.                                 *)
(***************************************************************************)
Preflight == eff # "none"

Begin(r, kind) ==
  /\ kind = "resume" => sup = 0
  /\ kind = "resolve" => Preflight
  /\ run' = [run EXCEPT ![r] = [pc |-> "acquire", kind |-> kind, e |-> 0, rows |-> {},
                               resolves |-> kind = "resolve"]]
  /\ ledger' = IF kind = "open" THEN ledger \cup {r} ELSE ledger
  /\ UNCHANGED <<lease, host, work, clean, continued, crashes, faults>>

Idle(r) == run[r].pc \in {"none", "failed", "done"}

\* A call with a request id that was never used.
Call(r, kind) ==
  /\ r \in scenario.requests /\ kind \in scenario.kinds
  /\ Idle(r)
  /\ r \notin ledger \cup refused /\ acquired[r] = 0 /\ recorded[r] = {}
  /\ Begin(r, kind)
  /\ UNCHANGED <<acquired, refused, recorded>>

\* The slot's id will not be used again.
Forget(r) ==
  /\ run[r].pc \in {"failed", "done"}
  /\ run' = [run EXCEPT ![r] = NoRun]
  /\ ledger' = ledger \ {r} /\ refused' = refused \ {r}
  /\ acquired' = [acquired EXCEPT ![r] = 0]
  /\ recorded' = [recorded EXCEPT ![r] = {}]
  /\ UNCHANGED <<lease, host, work, clean, continued, crashes, faults>>

\* The consumer repeats a call whose answer was a failure or was lost.
Retry(r) ==
  /\ run[r].pc = "failed"
  /\ Begin(r, run[r].kind)
  /\ UNCHANGED <<acquired, refused, recorded>>

Ends(r, pc) == run' = [run EXCEPT ![r].pc = pc]

Fails(r) ==
  /\ Ends(r, "failed")
  /\ UNCHANGED <<lease, host, work, ids, clean, continued, crashes, faults>>

\* A Store call or an inspection of the call fails for a reason that passes.
Fault(r) ==
  /\ run[r].pc \in {"acquire", "resolve", "inventory", "inspect", "record"}
  /\ faults < scenario.faults
  /\ faults' = faults + 1
  /\ Ends(r, "failed")
  /\ UNCHANGED <<lease, host, work, ids, clean, continued, crashes>>

\* acquire_epoch and acquire_and_install
Acquires(r, e) ==
  run' = [run EXCEPT ![r].e = e,
                    ![r].pc = IF run[r].resolves THEN "resolve" ELSE "inventory"]

\* The permit of the installed recovery is not looked at.
MutReuse(r) ==
  /\ run[r].pc = "acquire" /\ installed # 0
  /\ Acquires(r, installed)
  /\ UNCHANGED <<lease, host, work, ids, clean, continued, crashes, faults>>

Reuse(r) ==
  /\ run[r].pc = "acquire" /\ installed # 0 /\ sup = installed
  /\ Acquires(r, installed)
  /\ UNCHANGED <<lease, host, work, ids, clean, continued, crashes, faults>>

Acquire(r) ==
  /\ run[r].pc = "acquire" /\ (installed = 0 \/ sup # installed)
  /\ acquired[r] = 0 /\ r \notin refused
  /\ ~held /\ epoch < scenario.epochs
  /\ held' = TRUE /\ epoch' = epoch + 1
  /\ acquired' = [acquired EXCEPT ![r] = epoch']
  /\ sup' = epoch' /\ installed' = epoch'
  /\ worker' = 0
  /\ Acquires(r, epoch')
  /\ UNCHANGED <<other, handle, work, ledger, refused, recorded, clean, continued, crashes, faults>>

\* An effective lease, even this host's own, refuses the request for good.
Refused(r) ==
  /\ run[r].pc = "acquire" /\ (installed = 0 \/ sup # installed)
  /\ acquired[r] = 0
  /\ r \in refused \/ held
  /\ refused' = refused \cup {r}
  /\ Ends(r, "failed")
  /\ UNCHANGED <<lease, host, work, ledger, acquired, recorded, clean, continued, crashes,
                 faults>>

\* The acquisition is replayed: its lease can be supervised again while it lasts.
Replay(r) ==
  /\ run[r].pc = "acquire" /\ (installed = 0 \/ sup # installed)
  /\ acquired[r] # 0
  /\ IF Owns(acquired[r])
     THEN /\ sup' = acquired[r] /\ installed' = acquired[r]
          /\ Acquires(r, acquired[r])
          /\ UNCHANGED <<other, handle, worker>>
     ELSE Ends(r, "failed") /\ UNCHANGED host
  /\ UNCHANGED <<lease, work, ids, clean, continued, crashes, faults>>

\* resolve_authorized_effect, for an effect and an operation that are uncertain;
\* a resolution on record is answered again.  The classification that follows
\* goes through acquire_epoch once more.
Resolvable(r) == Owns(run[r].e) /\ op = "uncertain" /\ eff = "uncertain"

Resolve(r) ==
  /\ run[r].pc = "resolve"
  /\ IF r \in ledger THEN UNCHANGED eff
     ELSE Resolvable(r) /\ eff' \in {"completed", "failed", "retryable"}
  /\ ledger' = ledger \cup {r}
  /\ run' = [run EXCEPT ![r].pc = "acquire", ![r].resolves = FALSE]
  /\ UNCHANGED <<lease, host, op, msg, launch, proc, delivered, acquired, refused,
                 recorded, clean, continued, crashes, faults>>

NotResolved(r) ==
  /\ run[r].pc = "resolve" /\ r \notin ledger /\ ~Resolvable(r)
  /\ Fails(r)

\* load_recovery_inventory
Load(r) ==
  /\ run[r].pc = "inventory" /\ Owns(run[r].e)
  /\ run' = [run EXCEPT ![r].pc = "inspect", ![r].rows = Inventory]
  /\ UNCHANGED <<lease, host, work, ids, clean, continued, crashes, faults>>

\* Every launch of the inventory is inspected under the call's epoch.
Inspect(r) ==
  /\ run[r].pc = "inspect" /\ Owns(run[r].e)
  /\ run' = [run EXCEPT ![r].pc = "record",
                        ![r].rows = {[row EXCEPT !.obs = Observe(row)] : row \in @}]
  /\ UNCHANGED <<lease, host, work, ids, clean, continued, crashes, faults>>

Fenced(r) ==
  /\ run[r].pc \in {"inventory", "inspect", "record"} /\ ~Owns(run[r].e)
  /\ Fails(r)

\* record_recovery_classifications.  The request id must not be one of the
\* ledger's, and what was inspected must still be so.
Recordable(r) ==
  IF recorded[r] # {} THEN recorded[r] = {[e |-> run[r].e, rows |-> run[r].rows]}
  ELSE StillTrue(run[r].rows)

\* record_classifications takes any installed session with the call's epoch.
\* The Store refuses what was inspected if that is another session.
NotRecorded(r) ==
  /\ run[r].pc = "record" /\ Owns(run[r].e)
  /\ \/ r \in ledger /\ run[r].kind # "resolve"
     \/ ~Recordable(r)
     \/ installed # run[r].e
     \/ other = run[r].e
  /\ Fails(r)

Record(r) ==
  /\ run[r].pc = "record" /\ Owns(run[r].e)
  /\ installed = run[r].e
  /\ run[r].kind = "resolve" \/ r \notin ledger
  /\ Recordable(r)
  /\ recorded' = [recorded EXCEPT ![r] = {[e |-> run[r].e, rows |-> run[r].rows]}]
  /\ clean' = IF Blocks(run[r].rows, "uncertain") \/ Blocks(run[r].rows, "cleanup")
              THEN clean ELSE clean \cup {run[r].e}
  /\ run' = [run EXCEPT ![r].pc = IF run[r].kind = "resolve" THEN "done" ELSE "execute",
                        ![r].rows = Pending(@)]
  /\ UNCHANGED <<lease, host, work, ledger, acquired, refused, continued, crashes, faults>>

(***************************************************************************)
(* execute_actions, in the order of the inventory: launches, operation,    *)
(* message.  The backend supports neither reconnecting nor cleaning up.    *)
(***************************************************************************)
First(r, ent) ==
  /\ run[r].pc = "execute"
  /\ \E row \in run[r].rows : row.ent = ent
  /\ ent = "msg" => \A row \in run[r].rows : row.ent # "op"
  /\ ent \in {"op", "msg"} => \A row \in run[r].rows : row.ent # "launch"

Without(r, ent) == {row \in run[r].rows : row.ent # ent}

CleanUp(r) ==
  /\ First(r, "launch")
  /\ run' = [run EXCEPT ![r].rows = Without(r, "launch")]
  /\ UNCHANGED <<lease, host, work, ids, clean, continued, crashes, faults>>

\* schedule_existing_operation.  resume_existing leaves an active worker alone.
Schedule(r) ==
  /\ First(r, "op")
  /\ op = "queued" /\ installed = run[r].e /\ sup = installed
  /\ worker' = IF worker = 0 THEN run[r].e ELSE worker
  /\ continued' = continued \cup {run[r].e}
  /\ run' = [run EXCEPT ![r].rows = Without(r, "op")]
  /\ UNCHANGED <<lease, sup, installed, other, handle, work, ids, clean, crashes, faults>>

\* redeliver_exact_message: dispatch_message runs until the message is settled.
Redeliver(r) ==
  /\ First(r, "msg")
  /\ installed = run[r].e /\ sup = installed
  /\ continued' = continued \cup {run[r].e}
  /\ run' = [run EXCEPT ![r].pc = "redeliver", ![r].rows = {}]
  /\ UNCHANGED <<lease, host, work, ids, clean, crashes, faults>>

NotExecuted(r) ==
  /\ \/ First(r, "op") /\ ~(op = "queued" /\ installed = run[r].e /\ sup = installed)
     \/ First(r, "msg") /\ ~(installed = run[r].e /\ sup = installed)
     \/ run[r].pc = "redeliver" /\ ~Admitted(run[r].e)
  /\ Fails(r)

Finish(r) ==
  /\ \/ run[r].pc = "execute" /\ run[r].rows = {}
     \/ run[r].pc = "redeliver" /\ msg = "accepted"
  /\ Ends(r, "done")
  /\ UNCHANGED <<lease, host, work, ids, clean, continued, crashes, faults>>

(***************************************************************************)
(* What goes on around recovery: the operation's worker, deliveries and    *)
(* launches under the admission of the current epoch, the passage of time, *)
(* processes that end, and the host's own end.                             *)
(***************************************************************************)
control == <<lease, ids, run, clean, continued, crashes, faults>>

\* FirstOperationService::start schedules what it has committed.
ScheduleStart ==
  /\ op = "queued" /\ worker = 0 /\ Admitted(1) /\ crashes = 0
  /\ worker' = 1
  /\ UNCHANGED <<control, sup, installed, other, handle, work>>

OpStep(from, to) ==
  /\ worker # 0 /\ Admitted(worker)
  /\ op = from /\ op' = to
  /\ worker' = IF to \in Unfinished THEN worker ELSE 0
  /\ UNCHANGED <<control, sup, installed, other, handle, msg, eff, launch, proc, delivered>>

Work ==
  \/ OpStep("queued", "starting")
  \/ msg = "accepted" /\ OpStep("starting", "running")
  \/ eff \in {"none", "completed"} /\ OpStep("running", "succeeded")
  \/ OpStep("running", "uncertain")

EffectStep(from, to) ==
  /\ eff \in from /\ eff' = to
  /\ UNCHANGED <<control, host, op, msg, launch, proc, delivered>>

\* The driver's effect, guarded by the journal.
Effect ==
  \/ op = "running" /\ Owns(epoch) /\ EffectStep({"none"}, "reserved")
  \/ op = "running" /\ Owns(epoch) /\ EffectStep({"reserved", "retryable"}, "started")
  \/ op = "running" /\ EffectStep({"started"}, "completed")
  \/ op # "running" /\ EffectStep({"started"}, "uncertain")

Dispatching == scenario.pump \/ worker = sup \/ \E r \in Requests : run[r].pc = "redeliver"

LaunchStep(from, to) ==
  /\ Dispatching /\ sup # 0 /\ Admitted(sup)
  /\ launch[sup] = from
  /\ launch' = [launch EXCEPT ![sup] = to]
  /\ UNCHANGED <<control, sup, installed, other, worker, op, msg, eff, delivered>>

Launch ==
  \/ msg # "accepted" /\ LaunchStep("none", "prepared") /\ UNCHANGED <<proc, handle>>
  \/ /\ sup # 0 /\ proc[sup] = "none" /\ LaunchStep("prepared", "prepared")
     /\ proc' = [proc EXCEPT ![sup] = "up"] /\ handle' = handle \cup {sup}
  \/ sup \in handle /\ LaunchStep("prepared", "attached") /\ UNCHANGED <<proc, handle>>
  \/ LaunchStep("attached", "ready") /\ UNCHANGED <<proc, handle>>

\* A driver with no work left is shut down by the host that spawned it.
StopDriver(e) ==
  /\ worker = 0 /\ op \notin Unfinished \cup {"queued"}
  /\ launch[e] = "ready" /\ e \in handle /\ Admitted(e)
  /\ launch' = [launch EXCEPT ![e] = "stopped"]
  /\ proc' = [proc EXCEPT ![e] = "gone"]
  /\ handle' = handle \ {e}
  /\ UNCHANGED <<control, sup, installed, other, worker, op, msg, eff, delivered>>

MsgStep(from, to) ==
  /\ Dispatching /\ sup # 0 /\ Admitted(sup) /\ launch[sup] = "ready"
  /\ msg \in from /\ msg' = to
  /\ UNCHANGED <<control, host, op, eff, launch, proc>>

Deliver ==
  \/ MsgStep({"queued", "expired"}, "leased") /\ UNCHANGED delivered
  \/ MsgStep({"leased"}, "pending") /\ delivered' = delivered \cup {sup}
  \/ MsgStep({"pending"}, "accepted") /\ UNCHANGED delivered

LeaseLapses ==
  /\ msg = "leased" /\ msg' = "expired"
  /\ UNCHANGED <<control, host, op, eff, launch, proc, delivered>>

ProcessEnds(e) ==
  /\ proc[e] = "up" /\ ~Admitted(e)
  /\ proc' = [proc EXCEPT ![e] = "gone"]
  /\ UNCHANGED <<control, host, op, msg, eff, launch, delivered>>

\* The host does not renew its lease in time; under a supervisor only while an
\* epoch is left for this and for every crash to come.
Lapse ==
  /\ held
  /\ sup = 0 \/ epoch + (scenario.crashes - crashes) < scenario.epochs
  /\ held' = FALSE
  /\ UNCHANGED <<epoch, host, work, ids, run, clean, continued, crashes, faults>>

Notice ==
  /\ sup # 0 /\ ~Owns(sup)
  /\ sup' = 0 /\ worker' = 0
  /\ UNCHANGED <<control, installed, other, handle, work>>

\* The host recovers another session: its entry has that session's epoch.
InstallOther ==
  /\ scenario.others
  /\ other' \in {e \in Epochs : e > other}
  /\ UNCHANGED <<control, sup, installed, handle, worker, work>>

Crash ==
  /\ crashes < scenario.crashes
  /\ crashes' = crashes + 1
  /\ sup' = 0 /\ installed' = 0 /\ other' = 0 /\ worker' = 0 /\ handle' = {}
  /\ run' = [r \in Requests |-> IF Idle(r) THEN run[r] ELSE [run[r] EXCEPT !.pc = "failed"]]
  /\ UNCHANGED <<lease, work, ids, clean, continued, faults>>

Step(r) ==
  \/ Reuse(r) \/ Acquire(r) \/ Refused(r) \/ Replay(r)
  \/ Resolve(r) \/ NotResolved(r)
  \/ Load(r) \/ Inspect(r) \/ Fenced(r) \/ Record(r) \/ NotRecorded(r)
  \/ CleanUp(r) \/ Schedule(r) \/ Redeliver(r) \/ NotExecuted(r) \/ Finish(r)

World ==
  \/ ScheduleStart \/ Work \/ Effect \/ Launch \/ Deliver
  \/ \E e \in Epochs : StopDriver(e) \/ ProcessEnds(e)
  \/ LeaseLapses \/ Lapse \/ Notice \/ Crash \/ InstallOther

Next ==
  /\ \/ \E r \in Requests :
          \/ Step(r) \/ Retry(r) \/ Forget(r) \/ Fault(r)
          \/ \E kind \in Kinds : Call(r, kind)
     \/ World
  /\ UNCHANGED scenario

Spec == Init /\ [][Next]_vars

(***************************************************************************)
(* A call runs on; what start committed is scheduled; a lease that nobody  *)
(* renews lapses and its supervisor notices; a consumer whose session is   *)
(* not served keeps calling, with new request ids.                         *)
(***************************************************************************)
Fairness ==
  /\ \A r \in Requests :
       /\ WF_system(Step(r))
       /\ SF_system(Forget(r) \/ \E kind \in Kinds : Call(r, kind))
  /\ WF_system(ScheduleStart)
  /\ WF_system((Lapse /\ sup = 0) \/ Notice)

FairSpec == Spec /\ Fairness

\* [NAV-RECOVERY-001] When a tenure first continues work, by scheduling an
\* operation or redelivering a message, a classification with neither
\* uncertainty nor required cleanup is on record for it, no effect that may have
\* happened is open, and of the drivers of earlier tenures none is left that was
\* attached and not stopped: what was classified is still so when it is acted on.
ContinuesSafely ==
  [][continued' # continued =>
       /\ continued' \subseteq clean'
       /\ eff \in {"none", "reserved", "retryable", "completed", "failed"}
       /\ \A e \in Epochs : e < epoch => launch[e] \in {"none", "prepared", "stopped"}]_vars

NothingStarted == op = "queued" /\ msg = "queued" /\ \A e \in Epochs : launch[e] = "none"

\* A committed operation of which nothing has begun gets a worker after any
\* crash or loss of ownership, once the consumer calls ResumeSession for it, one
\* call at a time, and no Store call fails; unless the host has at some time
\* installed the recovery of another session under the same epoch number, which
\* may be taken for it (record_classifications, resume_session).
ResumeContinues ==
  [](installed = 0 \/ other # installed) =>
    ((/\ scenario.kinds = {"resume"} /\ Cardinality(scenario.requests) = 1
      /\ scenario.faults = 0 /\ NothingStarted)
       ~> (worker # 0 \/ ~NothingStarted))
=============================================================================
