--------------------------- MODULE DriverExecutor ---------------------------
(***************************************************************************)
(* SupervisedDriverExecutor of navigator-local: how a host obtains the one *)
(* ready driver of a participant, keeps it under a watchdog while it owns  *)
(* the session, replaces it when epoch or configuration change, and shuts  *)
(* it down.  Launches and shutdowns exclude each other (launch_lock); the  *)
(* watchdogs run beside them.                                              *)
(***************************************************************************)
EXTENDS Launch

VARIABLES
  active,    \* drivers in the cache, keyed in the code by their epoch
  pending,   \* pending_launches
  closed,    \* drivers whose lifecycle fence is closed
  task,      \* the holder of launch_lock
  dog,       \* the watchdog of each attempt
  kept,      \* drivers that still hold the join handle of their watchdog
  inflight,  \* spawns whose caller is gone
  drops, crashes

system == <<launchVars, active, pending, closed, task, dog, kept, inflight, drops,
            crashes>>

vars == <<system, scenario>>

others == <<closed, dog, kept, inflight, drops, crashes>>

IdleTask == [pc |-> "idle"]

\* a is the attempt to launch; "end" marks a launch that failed and only has
\* its own attempt to reconcile.
NewTask(goal, a, todo) ==
  [pc |-> "drain", goal |-> goal, a |-> a, todo |-> todo, s |-> a, still |-> FALSE,
   cur |-> 0, out |-> "none", gone |-> FALSE, again |-> FALSE]

Finished == {"stopped", "cleanup", "error", "aborted"}

Init ==
  /\ LaunchInit
  /\ active = {} /\ pending = {} /\ closed = {} /\ kept = {} /\ inflight = {}
  /\ task = IdleTask
  /\ dog = [a \in Attempts |-> "none"]
  /\ drops = 0 /\ crashes = 0

Go(pc) == task' = [task EXCEPT !.pc = pc]

End == task' = IdleTask

\* A subject that could not be stopped ends a launch; a shutdown goes on.
GiveUp(x) ==
  IF task.goal = "shutdown"
  THEN task' = [task EXCEPT !.pc = IF @ \in {"drain", "drainStop"} THEN "drain" ELSE "retire",
                            !.todo = @ \ {x}]
  ELSE End

CallStop(a, e, path) == stop' = [stop EXCEPT ![Task] = Stopping(a, e, path)]

Stopped == stop[Task].pc = "done" /\ stop[Task].result = "stopped"

StopReturned == stop[Task].pc = "done" /\ stop' = [stop EXCEPT ![Task] = NoStop]

(***************************************************************************)
(* driver_for and shutdown_matching                                        *)
(***************************************************************************)
\* A launch is needed unless the cached driver has this configuration.
Ask(c) ==
  /\ c \in scenario.configs
  /\ task.pc = "idle" /\ owned
  /\ <<epoch, c>> \notin active
  /\ task' = NewTask("launch", <<epoch, c>>, pending)
  /\ UNCHANGED <<launchVars, active, pending, others>>

Shutdown ==
  /\ task.pc = "idle" /\ active \cup pending # {}
  /\ task' = NewTask("shutdown", Task, pending)
  /\ UNCHANGED <<launchVars, active, pending, others>>

\* A pending launch proved to be over leaves the registry; a launch also
\* forgets the driver cached under its epoch.
Drained(p) ==
  /\ pending' = pending \ {p}
  /\ active' = IF task.goal = "launch" THEN {x \in active : x[1] # p[1]} ELSE active
  /\ task' = [task EXCEPT !.pc = "drain", !.todo = @ \ {p}]

\* pending_launch_was_never_prepared: under the lock, nothing can still prepare it.
NeverPrepared(p) == launch[p].state = "absent"

\* reconcile_launch.  A prepared attempt may have spawned a process that nothing
\* identifies; any later one is stopped.
Reconcile(p) ==
  \/ /\ launch[p].state = "stopped"
     /\ Drained(p)
     /\ UNCHANGED launchVars
  \/ /\ launch[p].state = "prepared"
     /\ \E m \in Mutations(p, p[1], <<"pending", "cleanup">>, "cleanup", launch[p].rev) :
          Commit(m)
     /\ GiveUp(p)
     /\ UNCHANGED <<owned, epoch, leader, group, handle, binding, stop, active, pending>>
  \/ /\ launch[p].state \in {"attached", "ready", "stopping", "cleanup"}
     /\ CallStop(p, p[1], "pending")
     /\ task' = [task EXCEPT !.pc = "drainStop", !.s = p]
     /\ UNCHANGED <<owned, epoch, launch, ledger, leader, group, handle, binding, faults,
                    active, pending>>

\* reconcile_pending_launch_locked; the record may fail to load.
Drain ==
  /\ task.pc = "drain"
  /\ \E p \in task.todo :
     \/ NeverPrepared(p) /\ Drained(p) /\ UNCHANGED launchVars
     \/ ~NeverPrepared(p) /\ Reconcile(p)
     \/ /\ Failure /\ faults' = faults + 1
        /\ GiveUp(p)
        /\ UNCHANGED <<owned, epoch, launch, ledger, leader, group, handle, binding, stop, active,
                       pending>>
  /\ UNCHANGED others

DrainStopped ==
  /\ task.pc = "drainStop" /\ StopReturned
  /\ IF Stopped THEN Drained(task.s) ELSE GiveUp(task.s) /\ UNCHANGED <<active, pending>>
  /\ UNCHANGED <<owned, epoch, launch, ledger, leader, group, handle, binding, faults, others>>

Retires(drivers) == task' = [task EXCEPT !.pc = "retire", !.todo = drivers]

\* The drivers a shutdown stops, level by level: all of them are at the depth of
\* the participant.  When a depth cannot be read, none is touched.
Inventory ==
  \/ Retires(active) /\ UNCHANGED launchVars
  \/ /\ active # {} /\ Failure /\ faults' = faults + 1
     /\ End
     /\ UNCHANGED <<owned, epoch, launch, ledger, leader, group, handle, binding, stop>>

MutDrainDoneOld ==
  /\ task.pc = "drain" /\ task.todo = {}
  /\ \/ task.goal = "shutdown" /\ Inventory
     \/ /\ task.goal # "shutdown"
        /\ IF task.goal = "launch" /\ Authority(task.a[1])
           THEN Retires({x \in active : x[1] = epoch}) ELSE End
        /\ UNCHANGED launchVars
  /\ UNCHANGED <<active, pending, others>>

\* Ownership is read again before anything is retired.
DrainDone ==
  /\ task.pc = "drain" /\ task.todo = {}
  /\ \/ task.goal = "shutdown" /\ Inventory
     \/ /\ task.goal # "shutdown"
        /\ IF task.goal = "launch" /\ Authority(task.a[1]) THEN Retires(active) ELSE End
        /\ UNCHANGED launchVars
  /\ UNCHANGED <<active, pending, others>>

\* shutdown_driver: close the fence and take the watchdog.  It is aborted
\* under its own epoch and awaited under another one.
Retire ==
  /\ task.pc = "retire"
  /\ \E s \in task.todo :
       LET still == Authority(s[1])
           t == [task EXCEPT !.s = s, !.still = still, !.cur = IF owned THEN epoch ELSE 0]
       IN
       /\ closed' = closed \cup {s}
       /\ kept' = kept \ {s}
       /\ IF s \notin kept
          THEN task' = [t EXCEPT !.pc = "decide", !.out = "none"] /\ UNCHANGED <<dog, stop>>
          ELSE IF ~still
          THEN task' = [t EXCEPT !.pc = "await"] /\ UNCHANGED <<dog, stop>>
          ELSE /\ task' = [t EXCEPT !.pc = "decide", !.out = dog[s]]
               /\ dog' = [dog EXCEPT ![s] = IF @ \in Finished THEN @ ELSE "aborted"]
               /\ stop' = [stop EXCEPT ![s] = NoStop]
  /\ UNCHANGED <<owned, epoch, launch, ledger, leader, group, handle, binding, faults, active,
                 pending, inflight, drops, crashes>>

\* The time the code allows covers the wait of a watchdog that has fired.
Await ==
  /\ task.pc = "await"
  /\ \/ /\ dog[task.s] \in Finished
        /\ task' = [task EXCEPT !.pc = "decide", !.out = dog[task.s]]
        /\ UNCHANGED <<dog, stop, faults>>
     \/ /\ dog[task.s] \notin Finished \cup {"watching"} /\ Failure
        /\ faults' = faults + 1
        /\ task' = [task EXCEPT !.pc = "decide", !.out = "none"]
        /\ dog' = [dog EXCEPT ![task.s] = "aborted"]
        /\ stop' = [stop EXCEPT ![task.s] = NoStop]
  /\ UNCHANGED <<owned, epoch, launch, ledger, leader, group, handle, binding, active, pending,
                 closed, kept, inflight, drops, crashes>>

Retired(s) ==
  /\ active' = active \ {s}
  /\ task' = [task EXCEPT !.pc = "retire", !.todo = @ \ {s}]

\* stale_watchdog_proves_identity_gone
IdentityGone(s) ==
  /\ ~task.still /\ task.out = "cleanup" /\ task.cur # 0
  /\ Observed(s) \in {"absent", "different"}

\* The rest of shutdown_driver.
Decide ==
  LET s == task.s
      lost == ~task.still /\ task.out = "cleanup" /\ task.cur # 0 /\ ~Authority(task.cur)
      none == task.out \notin {"stopped", "cleanup"}
      over == \/ task.out = "stopped"
              \/ none /\ launch[s].state = "stopped"
              \/ IdentityGone(s) /\ ~lost
  IN
  /\ task.pc = "decide"
  /\ \/ /\ Failure
        /\ faults' = faults + 1
        /\ GiveUp(s)
        /\ UNCHANGED <<stop, active>>
     \/ /\ over
        /\ Retired(s)
        /\ UNCHANGED <<stop, faults>>
     \/ /\ ~over /\ task.out = "cleanup"
        /\ GiveUp(s)
        /\ UNCHANGED <<stop, active, faults>>
     \/ /\ ~over /\ none
        /\ CallStop(s, s[1], "shutdown")
        /\ Go("retireStop")
        /\ UNCHANGED <<active, faults>>
  /\ UNCHANGED <<owned, epoch, launch, ledger, leader, group, handle, binding, pending, others>>

RetireStopped ==
  /\ task.pc = "retireStop" /\ StopReturned
  /\ IF Stopped THEN Retired(task.s) ELSE GiveUp(task.s) /\ UNCHANGED active
  /\ UNCHANGED <<owned, epoch, launch, ledger, leader, group, handle, binding, faults, pending,
                 others>>

\* The launch may still be refused: a cancelled participant, a full cache, a
\* changed artifact.  From here on the attempt is pending.
RetireDone ==
  /\ task.pc = "retire" /\ task.todo = {}
  /\ \/ End /\ UNCHANGED pending
     \/ /\ task.goal = "launch"
        /\ pending' = pending \cup {task.a}
        /\ Go("prepare")
  /\ UNCHANGED <<launchVars, active, others>>

(***************************************************************************)
(* InstanceSupervisor::launch and connect_start_ready                      *)
(***************************************************************************)
\* A launch that failed reconciles its own attempt.
Undo == task' = NewTask("end", task.a, {task.a})

Prepare ==
  /\ task.pc = "prepare"
  /\ \E m \in Preparations(task.a) : Commit(m) /\ IF m.ok THEN Go("spawn") ELSE Undo
  /\ UNCHANGED <<owned, epoch, leader, group, handle, binding, stop, active, pending, others>>

SpawnDriver ==
  /\ task.pc = "spawn"
  /\ \/ /\ Spawn(task.a)
        /\ binding' = binding \cup {task.a}
        /\ Go("attach")
        /\ UNCHANGED faults
     \/ /\ Failure /\ faults' = faults + 1
        /\ Undo
        /\ UNCHANGED <<leader, group, handle, binding>>
  /\ UNCHANGED <<owned, epoch, launch, ledger, stop, active, pending, others>>

Attach ==
  LET a == task.a IN
  /\ task.pc = "attach"
  /\ \E m \in Mutations(a, a[1], <<"attach", "attach">>, "attached", 1) :
       Commit(m) /\ Go(IF m.ok THEN "bootstrap" ELSE "compensate")
  /\ UNCHANGED <<owned, epoch, leader, group, handle, binding, stop, active, pending, others>>

\* compensate_launch stops the process and then records that.
Compensate ==
  LET a == task.a IN
  /\ task.pc = "compensate"
  /\ \E x \in Kills(a) :
       /\ leader' = x.leader /\ group' = x.group
       /\ handle' = IF x.stopped /\ Cleans(a, x) THEN handle \ {a} ELSE handle
       /\ binding' = IF x.stopped THEN binding \ {a} ELSE binding
       /\ task' = [task EXCEPT !.pc = "record", !.gone = x.stopped]
  /\ UNCHANGED <<owned, epoch, launch, ledger, stop, faults, active, pending, others>>

Record ==
  LET a == task.a
      step == IF task.again THEN <<"compensate", "terminal">> ELSE <<"compensate", "cleanup">>
      to == IF task.again THEN "stopped" ELSE "cleanup"
  IN
  /\ task.pc = "record"
  /\ \E m \in Mutations(a, a[1], step, to, launch[a].rev) :
       /\ Commit(m)
       /\ IF m.ok /\ task.gone /\ ~task.again
          THEN task' = [task EXCEPT !.again = TRUE] ELSE Undo
  /\ UNCHANGED <<owned, epoch, leader, group, handle, binding, stop, active, pending, others>>

\* open_authenticated_driver: a driver that runs may describe itself as expected
\* and start; whatever else it does is BootstrapFails.
Authenticated(a) == leader[a] = "up"

\* InstanceSupervisor::ready: with the credential of the binding, for the process
\* that was spawned.
Ready(a, m) ==
  /\ a \in binding
  /\ a \in handle /\ leader[a] = "up"
  /\ m \in Mutations(a, a[1], <<"driver", "ready">>, "ready", launch[a].rev)
  /\ Commit(m)

\* The socket appears, the driver authenticates and the record becomes ready.
Bootstrap ==
  LET a == task.a IN
  /\ task.pc = "bootstrap"
  /\ Authenticated(a)
  /\ \E m \in Mutations(a, a[1], <<"driver", "ready">>, "ready", launch[a].rev) :
       /\ Ready(a, m)
       /\ IF m.ok THEN Go("ready") /\ UNCHANGED stop
          ELSE /\ task' = [task EXCEPT !.pc = "failing", !.again = TRUE]
               /\ CallStop(a, a[1], "bootstrap")
  /\ UNCHANGED <<owned, epoch, leader, group, handle, binding, active, pending, others>>

\* No socket in time, a refused handshake, a shutdown that interrupts the
\* wait.  connect_start_ready stops the driver itself before its caller does.
BootstrapFails ==
  LET a == task.a IN
  /\ task.pc = "bootstrap"
  /\ \E twice \in BOOLEAN : task' = [task EXCEPT !.pc = "failing", !.again = twice]
  /\ CallStop(a, a[1], "bootstrap")
  /\ UNCHANGED <<owned, epoch, launch, ledger, leader, group, handle, binding, faults, active,
                 pending, others>>

\* stop_failed_bootstrap, cleanup_launched_driver
Failing ==
  LET a == task.a IN
  /\ task.pc = "failing" /\ stop[Task].pc = "done"
  /\ \/ /\ Stopped
        /\ pending' = pending \ {a}
        /\ End
        /\ stop' = [stop EXCEPT ![Task] = NoStop]
     \/ /\ ~Stopped /\ task.again
        /\ task' = [task EXCEPT !.again = FALSE]
        /\ CallStop(a, a[1], "bootstrap")
        /\ UNCHANGED pending
     \/ /\ ~Stopped /\ ~task.again
        /\ End
        /\ stop' = [stop EXCEPT ![Task] = NoStop]
        /\ UNCHANGED pending
  /\ UNCHANGED <<owned, epoch, launch, ledger, leader, group, handle, binding, faults, active,
                 others>>

\* The watchdog is spawned and the driver enters the cache.
Cache ==
  LET a == task.a IN
  /\ task.pc = "ready"
  /\ dog' = [dog EXCEPT ![a] = "watching"]
  /\ kept' = kept \cup {a}
  /\ active' = active \cup {a}
  /\ Go("cached")
  /\ UNCHANGED <<launchVars, pending, closed, inflight, drops, crashes>>

Cached ==
  /\ task.pc = "cached"
  /\ pending' = pending \ {task.a}
  /\ End
  /\ UNCHANGED <<launchVars, active, others>>

\* The future is dropped at an await: the lock is free again.  A spawn that
\* was under way completes in its own task.
Drop ==
  /\ task.pc # "idle" /\ drops < scenario.drops
  /\ drops' = drops + 1
  /\ End
  /\ stop' = [stop EXCEPT ![Task] = NoStop]
  /\ inflight' = IF task.pc = "spawn" THEN inflight \cup {task.a} ELSE inflight
  /\ UNCHANGED <<owned, epoch, launch, ledger, leader, group, handle, binding, faults, active,
                 pending, closed, dog, kept, crashes>>

SpawnCompletes(a) ==
  /\ a \in inflight
  /\ Spawn(a)
  /\ inflight' = inflight \ {a}
  /\ UNCHANGED <<owned, epoch, launch, ledger, binding, stop, faults, active, pending, closed,
                 task, dog, kept, drops, crashes>>

(***************************************************************************)
(* watch_ownership_with_fence and ownership_lost                           *)
(***************************************************************************)
Watch(a, s) == dog' = [dog EXCEPT ![a] = s]

DogSeesEnd(a) ==
  /\ dog[a] = "watching" /\ launch[a].state \in {"stopped", "cleanup"}
  /\ Watch(a, launch[a].state)
  /\ closed' = closed \cup {a}
  /\ UNCHANGED <<launchVars, active, pending, task, kept, inflight, drops, crashes>>

\* authority_uncertainty_requires_revocation: the authority is lost, or could
\* not be validated for too long.
RequiresRevocation(a) ==
  \/ ~Authority(a[1]) /\ UNCHANGED faults
  \/ Authority(a[1]) /\ Failure /\ faults' = faults + 1

DogFires(a) ==
  /\ dog[a] = "watching" /\ launch[a].state \notin {"stopped", "cleanup"}
  /\ RequiresRevocation(a)
  /\ closed' = closed \cup {a}
  /\ Watch(a, IF a \in handle THEN "waiting" ELSE "error")
  /\ UNCHANGED <<owned, epoch, launch, ledger, leader, group, handle, binding, stop, active,
                 pending, task, kept, inflight, drops, crashes>>

\* finish_already_exited, one Store call at a time.  When a call is refused
\* only the local remains of the process are removed.
DogFinish(a) ==
  LET step == IF dog[a] = "waiting" THEN "stopping" ELSE "terminal"
      to == IF dog[a] = "waiting" THEN "stopping" ELSE "stopped"
  IN
  /\ dog[a] \in {"waiting", "exited"} /\ Exited(a)
  /\ \E m \in Mutations(a, a[1], <<"lost", step>>, to, launch[a].rev) :
       /\ Commit(m)
       /\ IF m.ok /\ dog[a] = "waiting"
          THEN Watch(a, "exited") /\ UNCHANGED <<handle, binding>>
          ELSE /\ Watch(a, IF m.ok THEN "stopped" ELSE "cleanup")
               /\ handle' = handle \ {a} /\ binding' = binding \ {a}
  /\ UNCHANGED <<owned, epoch, leader, group, stop, active, pending, closed, task, kept,
                 inflight, drops, crashes>>

\* The driver did not end within ownership_loss_timeout.
DogStops(a) ==
  /\ dog[a] = "waiting" /\ ~Exited(a)
  /\ Watch(a, "stopping")
  /\ stop' = [stop EXCEPT ![a] = Stopping(a, a[1], "lost")]
  /\ UNCHANGED <<owned, epoch, launch, ledger, leader, group, handle, binding, faults, active,
                 pending, closed, task, kept, inflight, drops, crashes>>

MutDogStopped(a) ==
  /\ dog[a] = "stopping" /\ stop[a].pc = "done"
  /\ stop' = [stop EXCEPT ![a] = NoStop]
  /\ Watch(a, stop[a].result)
  /\ UNCHANGED <<owned, epoch, launch, ledger, leader, group, handle, binding, faults, active,
                 pending, closed, task, kept, inflight, drops, crashes>>

\* A stop the Store refuses is carried out on the local evidence.
DogStopped(a) ==
  /\ dog[a] = "stopping" /\ stop[a].pc = "done"
  /\ stop' = [stop EXCEPT ![a] = NoStop]
  /\ IF stop[a].result # "error"
     THEN Watch(a, stop[a].result) /\ UNCHANGED <<leader, group, handle, binding>>
     ELSE /\ Watch(a, "cleanup")
          /\ \E x \in Kills(a) :
               /\ leader' = x.leader /\ group' = x.group
               /\ handle' = IF Cleans(a, x) THEN handle \ {a} ELSE handle
          /\ binding' = binding \ {a}
  /\ UNCHANGED <<owned, epoch, launch, ledger, faults, active, pending, closed, task,
                 kept, inflight, drops, crashes>>

(***************************************************************************)
(* The environment.                                                        *)
(***************************************************************************)
\* Every Child handle dies with the host, and with it the ownership channel of
\* its drivers.  The next incarnation owns nothing.
Crash ==
  /\ crashes < scenario.crashes
  /\ crashes' = crashes + 1
  /\ owned' = FALSE
  /\ handle' = {} /\ binding' = {} /\ active' = {} /\ pending' = {} /\ closed' = {}
  /\ kept' = {} /\ inflight' = {}
  /\ stop' = [k \in Stoppers |-> NoStop]
  /\ dog' = [a \in Attempts |-> "none"]
  /\ End
  /\ UNCHANGED <<epoch, launch, ledger, leader, group, faults, drops>>

Holder ==
  \/ Drain \/ DrainStopped \/ DrainDone \/ Retire \/ Await \/ Decide \/ RetireStopped
  \/ RetireDone \/ Prepare \/ SpawnDriver \/ Attach \/ Compensate \/ Record \/ Bootstrap
  \/ BootstrapFails \/ Failing \/ Cache \/ Cached

Dog(a) == DogSeesEnd(a) \/ DogFires(a) \/ DogFinish(a) \/ DogStops(a) \/ DogStopped(a)

StopStep(k) ==
  /\ Stop(k)
  /\ UNCHANGED <<active, pending, closed, task, dog, kept, inflight, drops, crashes>>

World ==
  /\ \/ Lapse \/ Regain
     \/ \E a \in Attempts : LeaderExits(a) \/ GroupExits(a)
  /\ UNCHANGED <<active, pending, closed, task, dog, kept, inflight, drops, crashes>>

Next ==
  /\ \/ \E c \in Configs : Ask(c)
     \/ Shutdown \/ Holder \/ Drop \/ Crash \/ World
     \/ \E a \in Attempts : Dog(a) \/ SpawnCompletes(a)
     \/ \E k \in Stoppers : StopStep(k)
  /\ UNCHANGED scenario

Spec == Init /\ [][Next]_vars

\* The tasks of the host keep running: the holder of the lock, and each
\* watchdog.  Nothing forces a launch to succeed.
Fairness ==
  /\ WF_system(Holder \/ StopStep(Task))
  /\ \A a \in Attempts : WF_system(Dog(a) \/ StopStep(a))

FairSpec == Spec /\ Fairness

(***************************************************************************)
(* Properties.                                                             *)
(***************************************************************************)
\* A record says stopped only when the process is gone, and its whole group
\* too: termination and backend cleanup precede a Stopped commit.  Compensating
\* an attach the Store failed does not look at the group, hence the condition.
StoppedIsGone ==
  \A a \in Attempts : launch[a].state = "stopped" =>
    leader[a] # "up" /\ (a \in group => faults > 0)

\* The host never runs two drivers of the participant at once, whatever was
\* dropped, fenced or replaced before; and the one it runs is in the cache or in
\* the pending registry, so that a later launch or shutdown finds it.
OneDriver ==
  /\ \A a, b \in handle : leader[a] = "up" /\ leader[b] = "up" => a = b
  /\ \A a \in handle : leader[a] = "up" => a \in active \cup pending

\* A ready driver under a watchdog ends once its host lost the session, even
\* if it does not react to the closed ownership channel, as long as the host
\* runs and the driver can be killed.
FencedDriverEnds ==
  \A a \in Attempts :
    (/\ ~scenario.stubborn /\ scenario.faults = 0 /\ scenario.crashes = 0
     /\ dog[a] = "watching" /\ launch[a].state = "ready" /\ ~Authority(a[1]))
      ~> leader[a] # "up"
=============================================================================
