------------------------------- MODULE Launch -------------------------------
(***************************************************************************)
(* Launch attempts of one participant: their durable records               *)
(* (InstanceStore of navigator-store-sqlite), the processes behind them    *)
(* (UnixProcessBackend) and the procedure that stops one                   *)
(* (InstanceSupervisor::stop).  One host process is modelled; the session  *)
(* may pass to another host and come back under a later epoch.             *)
(*                                                                         *)
(* An attempt is identified by the epoch and the resolved configuration it *)
(* was launched for, and every request about it by a purpose: the code     *)
(* derives both identities by hashing.                                     *)
(***************************************************************************)
EXTENDS Naturals, FiniteSets

CONSTANTS
  Configs,    \* resolved driver configurations
  MaxEpoch,   \* bound: ownership epochs
  Scenarios   \* the instances a behaviour may belong to

\* Which of the behaviours below an instance has, and the bounds of the rest:
\*   configs      configurations asked for
\*   epochs       tenures of the host
\*   faults       Store calls and spawns that fail, waits that expire
\*   descendants  a driver may have other processes in its group
\*   stubborn     a process may outlive the time allowed to stop it
\*   drops        launch or shutdown futures dropped half way
\*   crashes      crashes of the host process
ASSUME LaunchAssumption ==
  /\ MaxEpoch \in Nat
  /\ \A r \in Scenarios :
       r \in [configs : SUBSET Configs, epochs : 1 .. MaxEpoch, faults : Nat,
             descendants : BOOLEAN, stubborn : BOOLEAN, drops : Nat, crashes : Nat]

Attempts == (1 .. MaxEpoch) \X Configs

\* The launch task of the host and the watchdog of each attempt stop processes.
Task == <<0, "task">>

Stoppers == Attempts \cup {Task}

VARIABLES
  scenario,  \* the instance this behaviour belongs to; it never changes
  owned,     \* whether this host holds the session
  epoch,     \* the epoch of the latest tenure of this host
  launch,    \* the record of each attempt
  ledger,    \* the requests answered so far
  leader,    \* the process each attempt spawned: "none", "up" or "down"
  group,     \* the attempts with other live processes in their group
  handle,    \* the attempts whose Child handle the backend retains
  binding,   \* the attempts the supervisor holds a credential for
  stop,      \* the stop procedure each stopper is executing
  faults

launchVars == <<owned, epoch, launch, ledger, leader, group, handle, binding, stop, faults>>

Authority(e) == owned /\ epoch = e

NoStop == [pc |-> "idle"]

LaunchInit ==
  /\ scenario \in Scenarios
  /\ owned = TRUE /\ epoch = 1
  /\ launch = [a \in Attempts |-> [state |-> "absent", rev |-> 0, evidence |-> FALSE]]
  /\ ledger = {}
  /\ leader = [a \in Attempts |-> "none"]
  /\ group = {} /\ handle = {} /\ binding = {}
  /\ stop = [k \in Stoppers |-> NoStop]
  /\ faults = 0

(***************************************************************************)
(* The Store.                                                              *)
(***************************************************************************)
\* valid_launch_transition, with attach_launch.
Allowed(from, to) ==
  CASE to = "attached" -> from = "prepared"
    [] to = "ready"    -> from = "attached"
    [] to = "stopping" -> from \in {"attached", "ready"}
    [] to = "cleanup"  -> from \notin {"absent", "stopped"}
    [] to = "stopped"  -> from \in {"stopping", "cleanup"}

Answered(a, id) == {x \in ledger : x.a = a /\ x.id = id}

Failure == faults < scenario.faults

\* What a request to change the record of a may do.  A request identity that
\* was used is answered from the ledger, and refused when its content differs.
Mutations(a, e, id, to, rev) ==
  LET used == Answered(a, id)
      entry(ok) == [a |-> a, id |-> id, to |-> to, rev |-> rev, ok |-> ok]
      good == Authority(e) /\ launch[a].rev = rev /\ Allowed(launch[a].state, to)
      next == [state |-> to, rev |-> rev + 1,
               evidence |-> launch[a].evidence \/ to = "attached"]
      answer == [ok |-> entry(TRUE) \in used, launch |-> launch, ledger |-> ledger,
                 faults |-> faults]
      commit == [ok |-> good,
                 launch |-> IF good THEN [launch EXCEPT ![a] = next] ELSE launch,
                 ledger |-> ledger \cup {entry(good)},
                 faults |-> faults]
      failed == [ok |-> FALSE, launch |-> launch, ledger |-> ledger, faults |-> faults + 1]
  IN {IF used # {} THEN answer ELSE commit} \cup (IF Failure THEN {failed} ELSE {})

Commit(m) == launch' = m.launch /\ ledger' = m.ledger /\ faults' = m.faults

\* prepare_launch.  Every call brings a fresh credential, so a second one for
\* the same attempt is a different request under a used identity.
Preparations(a) ==
  LET good == Authority(a[1])
      row == [state |-> "prepared", rev |-> 1, evidence |-> FALSE]
      id == <<"prepare", "prepare">>
      refused == [ok |-> FALSE, launch |-> launch, ledger |-> ledger, faults |-> faults]
      commit == [ok |-> good,
                 launch |-> IF good THEN [launch EXCEPT ![a] = row] ELSE launch,
                 ledger |-> ledger \cup
                   {[a |-> a, id |-> id, to |-> "prepared", rev |-> 0, ok |-> good]},
                 faults |-> faults]
  IN {IF Answered(a, id) # {} THEN refused ELSE commit}
     \cup (IF Failure THEN {[refused EXCEPT !.faults = @ + 1]} ELSE {})

(***************************************************************************)
(* The process backend.                                                    *)
(***************************************************************************)
\* complete_spawn.
Spawn(a) ==
  /\ leader' = [leader EXCEPT ![a] = "up"]
  /\ group' \in {group} \cup (IF scenario.descendants THEN {group \cup {a}} ELSE {})
  /\ handle' = handle \cup {a}

\* wait_for_exit: the leader and its whole group.
Exited(a) == a \in handle /\ leader[a] = "down" /\ a \notin group

\* stop_verified_until.  Only a process whose handle is retained is signalled.
\* A leader that is gone counts as stopped, and its group can no longer be
\* signalled; a leader that ignores SIGTERM is killed with its group.
Kills(a) ==
  LET as(stopped, l, g) == [stopped |-> stopped, leader |-> l, group |-> g]
      down == [leader EXCEPT ![a] = "down"]
  IN IF a \notin handle THEN {as(FALSE, leader, group)}
     ELSE IF leader[a] = "down" THEN {as(TRUE, leader, group)}
     ELSE {as(TRUE, down, group \ {a}), as(TRUE, down, group)}
          \cup (IF scenario.stubborn THEN {as(FALSE, leader, group)} ELSE {})

\* UnixProcessBackend::cleanup succeeds once leader and group are gone.
MutCleans(a, x) == a \in handle /\ x.leader[a] = "down"

Cleans(a, x) == a \in handle /\ x.leader[a] = "down" /\ a \notin x.group

\* inspect_for_recovery under the current epoch.
Observed(a) ==
  CASE launch[a].state = "stopped" -> "absent"
    [] launch[a].state # "stopped" /\ ~launch[a].evidence ->
         IF launch[a].state = "prepared" THEN "absent" ELSE "unreachable"
    [] launch[a].state # "stopped" /\ launch[a].evidence ->
         IF a \notin handle THEN "different"
         ELSE IF leader[a] = "down" THEN "absent" ELSE "same"

(***************************************************************************)
(* InstanceSupervisor::stop_with_deadline, executed by stopper k.          *)
(***************************************************************************)
\* A call with the identities derived for the given purpose.
Stopping(a, e, path) == [pc |-> "begin", a |-> a, e |-> e, path |-> path]

Return(k, result) == stop' = [stop EXCEPT ![k] = [pc |-> "done", a |-> @.a, result |-> result]]

\* Load the record, validate the authority and announce the stop.
StopBegin(k) ==
  LET s == stop[k]
      a == s.a
      l == launch[a]
      proceed(rev) == stop' = [stop EXCEPT ![k] =
        [pc |-> "kill", a |-> a, e |-> s.e, path |-> s.path, rev |-> rev,
         was |-> l.state, gone |-> FALSE]]
  IN
  /\ s.pc = "begin"
  /\ \/ /\ l.state = "stopped"
        /\ Return(k, "stopped")
        /\ UNCHANGED <<launch, ledger, faults>>
     \/ /\ l.state # "stopped" /\ (~Authority(s.e) \/ ~l.evidence)
        /\ Return(k, "error")
        /\ UNCHANGED <<launch, ledger, faults>>
     \/ /\ l.state \in {"stopping", "cleanup"} /\ Authority(s.e) /\ l.evidence
        /\ proceed(l.rev)
        /\ UNCHANGED <<launch, ledger, faults>>
     \/ /\ l.state \in {"attached", "ready"} /\ Authority(s.e)
        /\ \E m \in Mutations(a, s.e, <<s.path, "stopping">>, "stopping", l.rev) :
             /\ Commit(m)
             /\ IF m.ok THEN proceed(l.rev + 1) ELSE Return(k, "error")
  /\ UNCHANGED <<owned, epoch, leader, group, handle, binding>>

\* The time allowed for the stop has passed before any signal.
StopExpires(k) ==
  LET s == stop[k]
      l == launch[s.a]
  IN
  /\ s.pc = "begin" /\ Failure
  /\ l.state # "stopped"
  /\ \/ /\ l.state = "cleanup"
        /\ Return(k, "cleanup")
        /\ faults' = faults + 1
        /\ UNCHANGED <<launch, ledger>>
     \/ /\ l.state # "cleanup" /\ Authority(s.e) /\ l.evidence
        /\ \E m \in Mutations(s.a, s.e, <<s.path, "terminal">>, "cleanup", l.rev) :
             /\ m.faults = faults
             /\ launch' = m.launch /\ ledger' = m.ledger /\ faults' = faults + 1
             /\ Return(k, IF m.ok THEN "cleanup" ELSE "error")
  /\ UNCHANGED <<owned, epoch, leader, group, handle, binding>>

\* Signal, wait, escalate; then remove what belongs to the process.
StopKill(k) ==
  LET s == stop[k] IN
  /\ s.pc = "kill"
  /\ \E x \in Kills(s.a), removed \in (IF Failure THEN BOOLEAN ELSE {TRUE}) :
       LET gone == removed /\ Cleans(s.a, x) IN
       /\ leader' = x.leader /\ group' = x.group
       /\ handle' = IF gone THEN handle \ {s.a} ELSE handle
       /\ faults' = IF removed THEN faults ELSE faults + 1
       /\ IF ~gone /\ s.was = "cleanup"
          THEN Return(k, "cleanup")
          ELSE stop' = [stop EXCEPT ![k].pc = "finish", ![k].gone = gone]
  /\ UNCHANGED <<owned, epoch, launch, ledger, binding>>

\* Record what became of it.
StopFinish(k) ==
  LET s == stop[k]
      to == IF s.gone THEN "stopped" ELSE "cleanup"
  IN
  /\ s.pc = "finish"
  /\ \E m \in Mutations(s.a, s.e, <<s.path, "terminal">>, to, s.rev) :
       /\ Commit(m)
       /\ Return(k, IF m.ok THEN to ELSE "error")
       /\ binding' = IF m.ok /\ s.gone THEN binding \ {s.a} ELSE binding
  /\ UNCHANGED <<owned, epoch, leader, group, handle>>

Stop(k) == StopBegin(k) \/ StopExpires(k) \/ StopKill(k) \/ StopFinish(k)

(***************************************************************************)
(* The environment.                                                        *)
(***************************************************************************)
\* The lease lapses or another host takes the session.
Lapse ==
  /\ owned
  /\ owned' = FALSE
  /\ UNCHANGED <<epoch, launch, ledger, leader, group, handle, binding, stop, faults>>

\* This host acquires the session again.
Regain ==
  /\ ~owned /\ epoch < scenario.epochs
  /\ owned' = TRUE /\ epoch' = epoch + 1
  /\ UNCHANGED <<launch, ledger, leader, group, handle, binding, stop, faults>>

\* A driver ends by itself, on a closed ownership channel or by a failure.
LeaderExits(a) ==
  /\ leader[a] = "up"
  /\ leader' = [leader EXCEPT ![a] = "down"]
  /\ UNCHANGED <<owned, epoch, launch, ledger, group, handle, binding, stop, faults>>

GroupExits(a) ==
  /\ a \in group /\ leader[a] = "down"
  /\ group' = group \ {a}
  /\ UNCHANGED <<owned, epoch, launch, ledger, leader, handle, binding, stop, faults>>
=============================================================================
