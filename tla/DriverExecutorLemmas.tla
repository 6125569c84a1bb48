----------------------- MODULE DriverExecutorLemmas -----------------------
(***************************************************************************)
(* The inductive invariant of DriverExecutor, and what keeps it beside the *)
(* holder of the launch lock: the Store, the stop procedures, the          *)
(* watchdogs, the processes, a crash; and the holder draining the registry *)
(* of pending launches.  DriverExecutorProofs has the rest of the holder   *)
(* and the theorems.                                                       *)
(*                                                                         *)
(* The argument has three strands.  A launch is prepared once, because its *)
(* request is answered once, and so spawned at most once: from then on its *)
(* process can only end (RecordInv).  Whoever reports "stopped" (a stop    *)
(* procedure, a watchdog, the ledger) read it from a record that stays so  *)
(* (StopInv, DogInv, LedgerInv).  And the holder of the launch lock has    *)
(* emptied registry and cache before it adds an attempt (TaskInv).         *)
(***************************************************************************)
EXTENDS DriverExecutor, TLAPS

\* A leaf is tried with SMT, with Zenon, and then with SMT and more time.
USE SMT, Zenon, SMTT(10), SMTT(20), SMTT(30)

States == {"absent", "prepared", "attached", "ready", "stopping", "cleanup", "stopped"}

Draining == {"drain", "drainStop"}
Retiring == {"retire", "await", "decide", "retireStop"}
Launching == {"prepare", "spawn", "attach", "compensate", "record", "bootstrap", "failing", "ready"}

Prep == <<"prepare", "prepare">>
Att == <<"attach", "attach">>

TypeInv ==
  /\ scenario \in Scenarios
  /\ owned \in BOOLEAN /\ epoch \in 1 .. MaxEpoch
  /\ launch \in [Attempts -> [state : States, rev : Nat, evidence : BOOLEAN]]
  /\ leader \in [Attempts -> {"none", "up", "down"}]
  /\ group \subseteq Attempts /\ handle \subseteq Attempts
  /\ active \subseteq Attempts /\ pending \subseteq Attempts
  /\ faults \in Nat
  /\ DOMAIN dog = Attempts /\ DOMAIN stop = Stoppers

\* What the record of attempt a says about its process.
RecordOk(a) ==
  /\ launch[a].state = "absent" => leader[a] = "none" /\ a \notin inflight
  /\ launch[a].state # "absent" => Answered(a, Prep) # {}
  /\ launch[a].state \in {"absent", "prepared"} => ~launch[a].evidence
  /\ launch[a].state \in {"attached", "ready", "stopping"} => launch[a].evidence
  /\ launch[a].evidence => leader[a] # "none"
  /\ launch[a].state = "stopped" => leader[a] = "down" /\ (a \in group => faults > 0)
  /\ a \in inflight => leader[a] = "none" /\ a \in pending
  /\ Answered(a, Att) # {} => leader[a] # "none"

RecordInv == \A a \in Attempts : RecordOk(a)

LedgerInv ==
  \A x \in ledger : x.a \in Attempts /\ (x.ok =>
    /\ x.to = "stopped" => launch[x.a].state = "stopped"
    /\ x.to = "attached" => launch[x.a].evidence)

\* What stopper k knows.
StopOk(k) ==
  \/ stop[k] = NoStop
  \/ /\ stop[k].a \in Attempts /\ (k \in Attempts => stop[k].a = k)
     /\ \/ stop[k].pc = "begin" /\ DOMAIN stop[k] = {"pc", "a", "e", "path"}
        \/ /\ stop[k].pc \in {"kill", "finish"}
           /\ DOMAIN stop[k] = {"pc", "a", "e", "path", "rev", "was", "gone"}
           /\ stop[k].gone \in BOOLEAN
           /\ launch[stop[k].a].evidence
           /\ (stop[k].pc = "finish" /\ stop[k].gone) =>
                leader[stop[k].a] = "down" /\ stop[k].a \notin group
        \/ /\ stop[k].pc = "done" /\ DOMAIN stop[k] = {"pc", "a", "result"}
           /\ stop[k].result = "stopped" => launch[stop[k].a].state = "stopped"

StopInv == \A k \in Stoppers : StopOk(k)

DogInv ==
  \A a \in Attempts : dog[a] # "none" =>
    launch[a].evidence /\ (dog[a] = "stopped" => launch[a].state = "stopped")

\* A process that runs under a handle is known, and only one attempt is.
KnownInv ==
  /\ \A a \in handle : leader[a] = "up" => a \in active \cup pending
  /\ \A a, b \in active \cup pending : a = b
  /\ \A a \in active : launch[a].evidence

\* Where the holder t of the launch lock is, and what it has established.
TaskOk(t) ==
  \/ t = IdleTask
  \/ /\ DOMAIN t = {"pc", "goal", "a", "todo", "s", "still", "cur", "out", "gone", "again"}
     /\ t.goal \in {"launch", "shutdown", "end"}
     /\ t.goal # "shutdown" => t.a \in Attempts /\ t.a[1] <= epoch
     /\ t.todo \subseteq Attempts
     /\ \/ t.pc \in Draining /\ t.todo \subseteq pending /\ (t.goal = "launch" => pending = t.todo)
        \/ /\ t.pc \in Retiring /\ t.goal # "end" /\ t.todo \subseteq active
           /\ t.goal = "launch" => pending = {} /\ active = t.todo
        \/ t.pc \in Launching /\ t.goal = "launch" /\ pending = {t.a} /\ active = {}
        \/ t.pc = "cached" /\ t.goal = "launch" /\ pending = {t.a} /\ active = {t.a}
     /\ t.pc \in {"drainStop", "await", "decide", "retireStop"} => t.s \in t.todo
     /\ t.pc \in {"drainStop", "retireStop"} => stop[Task] # NoStop /\ stop[Task].a = t.s
     /\ t.pc = "failing" => stop[Task] # NoStop /\ stop[Task].a = t.a
     /\ (t.pc = "decide" /\ t.out = "stopped") => launch[t.s].state = "stopped"
     /\ t.pc = "spawn" => leader[t.a] = "none" /\ t.a \notin inflight
     /\ t.pc \in {"spawn", "attach"} => launch[t.a].state = "prepared" /\ launch[t.a].rev = 1
     /\ t.pc = "attach" => Answered(t.a, Att) = {}
     /\ t.pc \in Launching \ {"prepare", "spawn"} => leader[t.a] # "none"
     /\ t.pc \in {"bootstrap", "failing", "ready"} => launch[t.a].evidence
     /\ t.pc \in {"compensate", "record"} => faults > 0 \/ ~Authority(t.a[1])
     /\ t.pc = "record" =>
          /\ t.gone \in BOOLEAN /\ t.again \in BOOLEAN /\ (t.again => t.gone)
          /\ t.gone => leader[t.a] = "down"
     /\ t.pc \in Draining \cup Retiring \cup {"prepare", "spawn", "attach", "compensate"} =>
          t.again = FALSE

TaskInv == TaskOk(task)

IInv == TypeInv /\ RecordInv /\ LedgerInv /\ StopInv /\ DogInv /\ KnownInv /\ TaskInv

-----------------------------------------------------------------------------
(* Names. *)

LEMMA Names ==
  /\ Task \notin Attempts /\ Task \in Stoppers /\ Attempts \subseteq Stoppers
  /\ \A a \in Attempts : a[1] \in 1 .. MaxEpoch
  /\ \A c \in Configs, e \in 1 .. MaxEpoch : <<e, c>> \in Attempts /\ <<e, c>>[1] = e
<1>1. \A a \in Attempts : a[1] \in 1 .. MaxEpoch  BY DEF Attempts
<1>2. Task[1] = 0  BY DEF Task
<1>3. Task \notin Attempts  BY <1>1, <1>2, LaunchAssumption
<1>4. QED  BY <1>1, <1>3 DEF Stoppers, Attempts

\* The task that is about to spawn an attempt has not sent the spawn.
LEMMA SpawnsOnce ==
  ASSUME TaskInv
  PROVE  task.pc = "spawn" => task.a \in Attempts /\ task.a \notin inflight
<1>1. CASE task = IdleTask  BY <1>1 DEF IdleTask
<1>2. CASE task # IdleTask
  <2>1. SUFFICES ASSUME task.pc = "spawn" PROVE task.a \in Attempts /\ task.a \notin inflight
    OBVIOUS
  <2>2. task.goal = "launch"  BY <1>2, <2>1 DEF TaskInv, TaskOk, Draining, Retiring
  <2>3. QED  BY <1>2, <2>1, <2>2 DEF TaskInv, TaskOk
<1>3. QED  BY <1>1, <1>2

-----------------------------------------------------------------------------
(* The Store: what a mutation may do. *)

Entry(a, id, to, rev, ok) == [a |-> a, id |-> id, to |-> to, rev |-> rev, ok |-> ok]

Moved(a, to, rev) ==
  [launch EXCEPT ![a] = [state |-> to, rev |-> rev + 1,
                         evidence |-> launch[a].evidence \/ to = "attached"]]

LEMMA MutationCases ==
  ASSUME NEW a, NEW e, NEW id, NEW to, NEW rev, NEW m \in Mutations(a, e, id, to, rev)
  PROVE  \/ /\ Answered(a, id) # {} /\ m.ok = (Entry(a, id, to, rev, TRUE) \in Answered(a, id))
            /\ m.launch = launch /\ m.ledger = ledger /\ m.faults = faults
         \/ /\ Answered(a, id) = {} /\ m.ok = FALSE
            /\ ~(Authority(e) /\ launch[a].rev = rev /\ Allowed(launch[a].state, to))
            /\ m.launch = launch /\ m.faults = faults
            /\ m.ledger = ledger \cup {Entry(a, id, to, rev, FALSE)}
         \/ /\ Answered(a, id) = {} /\ m.ok = TRUE
            /\ Authority(e) /\ launch[a].rev = rev /\ Allowed(launch[a].state, to)
            /\ m.launch = Moved(a, to, rev) /\ m.faults = faults
            /\ m.ledger = ledger \cup {Entry(a, id, to, rev, TRUE)}
         \/ /\ m.ok = FALSE /\ m.launch = launch /\ m.ledger = ledger /\ m.faults = faults + 1
<1> DEFINE good == Authority(e) /\ launch[a].rev = rev /\ Allowed(launch[a].state, to)
           answer == [ok |-> Entry(a, id, to, rev, TRUE) \in Answered(a, id), launch |-> launch,
                      ledger |-> ledger, faults |-> faults]
           commit == [ok |-> good, launch |-> IF good THEN Moved(a, to, rev) ELSE launch,
                      ledger |-> ledger \cup {Entry(a, id, to, rev, good)}, faults |-> faults]
           failed == [ok |-> FALSE, launch |-> launch, ledger |-> ledger, faults |-> faults + 1]
<1>1. m \in {IF Answered(a, id) # {} THEN answer ELSE commit} \cup (IF Failure THEN {failed} ELSE {})
  BY Zenon DEF Mutations, Entry, Moved
<1>2. CASE m = failed  BY <1>2
<1>3. CASE m = answer /\ Answered(a, id) # {}  BY <1>3, Zenon
<1>4. CASE m = commit /\ Answered(a, id) = {}
  <2>1. CASE good
    <3>1. commit.ok = TRUE /\ commit.launch = Moved(a, to, rev)
      BY <2>1, Zenon
    <3>2. commit.ledger = ledger \cup {Entry(a, id, to, rev, TRUE)} /\ commit.faults = faults
      BY <2>1, Zenon
    <3>3. QED  BY <1>4, <2>1, <3>1, <3>2, Zenon
  <2>2. CASE ~good
    <3>1. commit.ok = FALSE /\ commit.launch = launch
      BY <2>2, Zenon
    <3>2. commit.ledger = ledger \cup {Entry(a, id, to, rev, FALSE)} /\ commit.faults = faults
      BY <2>2, Zenon
    <3>3. QED  BY <1>4, <2>2, <3>1, <3>2, Zenon
  <2>3. QED  BY <2>1, <2>2, Zenon
<1>5. QED  BY <1>1, <1>2, <1>3, <1>4, Zenon

\* The ways the record may go.
LEMMA AllowedMoves ==
  ASSUME NEW from \in States, NEW to \in States, Allowed(from, to)
  PROVE  /\ to = "attached" => from = "prepared"
         /\ to = "ready" => from = "attached"
         /\ to = "stopping" => from \in {"attached", "ready"}
         /\ to = "cleanup" => from \notin {"absent", "stopped"}
         /\ to = "stopped" => from \in {"stopping", "cleanup"}
         /\ to \notin {"absent", "prepared"} => from \notin {"absent", "stopped"}
  BY Zenon DEF Allowed, States

-----------------------------------------------------------------------------
(* Every step moves records and processes forward only. *)

Progress ==
  /\ \A a \in Attempts :
       /\ launch[a].evidence => launch'[a].evidence
       /\ launch[a].state = "stopped" => launch'[a].state = "stopped"
       /\ leader[a] # "none" => leader'[a] # "none"
       /\ leader[a] = "down" => leader'[a] = "down"
       /\ a \in group' => a \in group \/ leader[a] = "none"
  /\ faults' \in Nat /\ faults' >= faults
  /\ epoch' \in Nat /\ epoch' >= epoch
  /\ \A e \in Nat : e <= epoch /\ ~Authority(e) => ~Authority(e)'

\* The authority of a tenure that ended does not come back.
LEMMA SameTenure ==
  ASSUME TypeInv, UNCHANGED <<owned, epoch>>
  PROVE  /\ epoch' \in Nat /\ epoch' >= epoch
         /\ \A e \in Nat : e <= epoch /\ ~Authority(e) => ~Authority(e)'
  BY LaunchAssumption DEF TypeInv, Authority

\* Nothing happens to the records and the processes.
LEMMA StillProgress ==
  ASSUME TypeInv, UNCHANGED <<owned, epoch, launch, leader, group>>, faults' \in {faults, faults + 1}
  PROVE  Progress
<1>1. faults' \in Nat /\ faults' >= faults  BY DEF TypeInv
<1>2. QED  BY <1>1, SameTenure DEF Progress

LEMMA StopStays ==
  ASSUME StopInv, RecordInv, Progress, NEW k \in Stoppers, stop'[k] = stop[k]
  PROVE  StopOk(k)'
<1>1. PICK s : s = stop[k]  BY Zenon
<1>2. CASE s = NoStop  BY <1>1, <1>2 DEF StopOk
<1>3. CASE s # NoStop
  <2>1. PICK a \in Attempts : a = s.a  BY <1>1, <1>3 DEF StopInv, StopOk
  <2>2. /\ launch[a].evidence => launch'[a].evidence /\ leader[a] # "none"
        /\ launch[a].state = "stopped" => launch'[a].state = "stopped"
        /\ leader[a] = "down" => leader'[a] = "down"
        /\ a \in group' => a \in group \/ leader[a] = "none"
    BY DEF Progress, RecordInv, RecordOk
  <2>3. StopOk(k)  BY DEF StopInv
  <2>4. QED  BY <1>1, <1>3, <2>1, <2>2, <2>3 DEF StopOk
<1>4. QED  BY <1>2, <1>3

LEMMA DogStays ==
  ASSUME DogInv, Progress, UNCHANGED dog
  PROVE  DogInv'
  BY DEF DogInv, Progress

\* The holder of the lock does not move; nobody else touches what it knows.
LEMMA CachedFacts ==
  ASSUME TaskInv, task.pc = "cached"
  PROVE  task.a \in Attempts /\ pending = {task.a} /\ active = {task.a}
  BY DEF TaskInv, TaskOk, IdleTask, Draining, Retiring, Launching

LEMMA TaskStays ==
  ASSUME TypeInv, TaskInv, Progress, UNCHANGED <<task, active, pending>>, inflight' \subseteq inflight,
         stop[Task] # NoStop => stop'[Task] # NoStop /\ stop'[Task].a = stop[Task].a,
         task.pc = "spawn" => leader'[task.a] = leader[task.a],
         task.pc \in {"spawn", "attach"} => launch'[task.a] = launch[task.a],
         task.pc = "attach" => Answered(task.a, Att)' = Answered(task.a, Att)
  PROVE  TaskInv'
<1>1. PICK t : t = task  BY Zenon
<1>2. CASE t = IdleTask  BY <1>1, <1>2 DEF TaskInv, TaskOk
<1>3. CASE t # IdleTask
  <2>1. TaskOk(t) /\ t = task'  BY <1>1 DEF TaskInv
  <2>2. t.goal # "shutdown" => t.a \in Attempts /\ t.a[1] \in Nat /\ t.a[1] <= epoch /\ t.a[1] <= epoch'
    <3>1. epoch \in Nat /\ epoch' \in Nat /\ epoch <= epoch'  BY LaunchAssumption DEF Progress, TypeInv
    <3>2. t.goal # "shutdown" => t.a \in Attempts /\ t.a[1] <= epoch  BY <1>3, <2>1 DEF TaskOk
    <3>3. t.a \in Attempts => t.a[1] \in Nat  BY Names, LaunchAssumption
    <3>4. QED  BY <3>1, <3>2, <3>3
  <2>3. t.pc \in {"compensate", "record"} => faults' > 0 \/ ~Authority(t.a[1])'
    <3>1. t.pc \in {"compensate", "record"} =>
            t.goal # "shutdown" /\ (faults > 0 \/ ~Authority(t.a[1]))
      BY <1>3, <2>1 DEF TaskOk, Draining, Retiring
    <3>2. faults \in Nat /\ faults' \in Nat /\ faults' >= faults  BY DEF Progress, TypeInv
    <3>3. \A e \in Nat : e <= epoch /\ ~Authority(e) => ~Authority(e)'  BY DEF Progress
    <3>4. QED  BY <2>2, <3>1, <3>2, <3>3
  <2>4. (t.pc = "decide" /\ t.out = "stopped") => launch'[t.s].state = "stopped"
    BY <1>3, <2>1 DEF TaskOk, Progress
  <2>5. t.pc \in Launching => t.goal # "shutdown" /\ t.a \in Attempts
    BY <1>3, <2>1 DEF TaskOk, Draining, Retiring, Launching
  <2>6. /\ t.pc \in Launching \ {"prepare", "spawn"} => leader'[t.a] # "none"
        /\ t.pc \in {"bootstrap", "failing", "ready"} => launch'[t.a].evidence
        /\ t.pc = "record" /\ t.gone => leader'[t.a] = "down"
    BY <1>3, <2>1, <2>5 DEF TaskOk, Progress, Launching
  <2>7. TaskOk(t)'  BY <1>1, <1>3, <2>1, <2>2, <2>3, <2>4, <2>6 DEF TaskOk
  <2>8. QED  BY <2>1, <2>7 DEF TaskInv
<1>4. QED  BY <1>2, <1>3

-----------------------------------------------------------------------------
(* A request about attempt a changes its record, or nothing but the ledger. *)

\* The answer m is taken over; time may run out beside it.
Writes(m) == launch' = m.launch /\ ledger' = m.ledger /\ faults' \in {faults, faults + 1}

\* No request to attach is answered in this step.
AnswersKept == \A b : Answered(b, Att)' = Answered(b, Att)

LEMMA RecordMoves ==
  ASSUME TypeInv, RecordInv, LedgerInv, NEW a \in Attempts, NEW e, NEW id,
         NEW to \in {"attached", "ready", "stopping", "cleanup", "stopped"}, NEW rev,
         NEW m \in Mutations(a, e, id, to, rev), Writes(m),
         UNCHANGED <<owned, epoch, leader, group, inflight, pending>>, id # Prep,
         (id = Att \/ to = "attached") => leader[a] # "none",
         to = "stopped" => leader[a] = "down" /\ (a \in group => faults > 0 \/ ~Authority(e))
  PROVE  /\ RecordInv' /\ LedgerInv' /\ Progress
         /\ launch' \in [Attempts -> [state : States, rev : Nat, evidence : BOOLEAN]]
         /\ \A b \in Attempts : b # a => launch'[b] = launch[b]
         /\ m.ok => /\ to = "stopped" => launch'[a].state = "stopped"
                    /\ to = "attached" => launch'[a].evidence
<1>0. faults \in Nat /\ launch \in [Attempts -> [state : States, rev : Nat, evidence : BOOLEAN]]
  BY DEF TypeInv
<1>f. /\ faults' \in {faults, faults + 1} /\ faults' \in Nat /\ faults' >= faults
      /\ faults > 0 => faults' > 0
  BY <1>0 DEF Writes
<1>1. CASE launch' = launch /\ ledger' = ledger /\ (m.ok => Entry(a, id, to, rev, TRUE) \in ledger)
  <2>1. Progress  BY <1>f, <1>1, StillProgress
  <2>2. \A b, i : Answered(b, i)' = Answered(b, i)  BY <1>1 DEF Answered
  <2>4. RecordInv'  BY <1>f, <1>1, <2>2 DEF RecordInv, RecordOk
  <2>5. LedgerInv'  BY <1>1 DEF LedgerInv
  <2>6. m.ok => /\ to = "stopped" => launch'[a].state = "stopped"
                /\ to = "attached" => launch'[a].evidence
    <3>1. PICK x : x = Entry(a, id, to, rev, TRUE)  BY Zenon
    <3>2. x.a = a /\ x.to = to /\ x.ok = TRUE  BY <3>1 DEF Entry
    <3>3. QED  BY <1>1, <3>1, <3>2, Zenon DEF LedgerInv
  <2>7. QED  BY <1>0, <1>1, <2>1, <2>2, <2>4, <2>5, <2>6
<1>2. ASSUME NEW o \in BOOLEAN, ledger' = ledger \cup {Entry(a, id, to, rev, o)}
      PROVE  /\ \A b, i : Answered(b, i) # {} => Answered(b, i)' # {}
             /\ \A b : Answered(b, Prep)' = Answered(b, Prep)
             /\ \A b : Answered(b, Att)' # {} => Answered(b, Att) # {} \/ (b = a /\ id = Att)
  <2>1. PICK x : x = Entry(a, id, to, rev, o)  BY Zenon
  <2>2. x.a = a /\ x.id = id  BY <2>1 DEF Entry
  <2>3. \A b, i : (b # a \/ i # id) => Answered(b, i)' = Answered(b, i)
    BY <1>2, <2>1, <2>2 DEF Answered
  <2>4. \A b, i : Answered(b, i) \subseteq Answered(b, i)'  BY <1>2 DEF Answered
  <2>5. QED  BY <2>3, <2>4
<1>3. CASE /\ launch' = launch
           /\ ledger' = ledger \cup {Entry(a, id, to, rev, FALSE)} /\ ~m.ok
  <2>1. Progress  BY <1>f, <1>3, StillProgress
  <2>2. RecordInv'  BY <1>f, <1>2, <1>3, Zenon DEF RecordInv, RecordOk
  <2>3. LedgerInv'
    <3>1. PICK x : x = Entry(a, id, to, rev, FALSE)  BY Zenon
    <3>2. x.a = a /\ x.ok = FALSE  BY <3>1 DEF Entry
    <3>3. QED  BY <1>3, <3>1, <3>2, Zenon DEF LedgerInv
  <2>4. QED  BY <1>0, <1>2, <1>3, <2>1, <2>2, <2>3
<1>4. CASE /\ Authority(e) /\ launch[a].rev = rev /\ Allowed(launch[a].state, to)
           /\ launch' = Moved(a, to, rev)
           /\ ledger' = ledger \cup {Entry(a, id, to, rev, TRUE)}
  <2>1. PICK r : r = [state |-> to, rev |-> rev + 1, evidence |-> launch[a].evidence \/ to = "attached"]
    BY Zenon
  <2>2. r.state = to /\ r.evidence = (launch[a].evidence \/ to = "attached")  BY <2>1
  <2>3. launch' = [launch EXCEPT ![a] = r]  BY <1>4, <2>1 DEF Moved
  <2>4. r \in [state : States, rev : Nat, evidence : BOOLEAN]
    <3>1. launch[a].rev \in Nat /\ launch[a].evidence \in BOOLEAN  BY <1>0
    <3>2. rev + 1 \in Nat /\ to \in States  BY <1>4, <3>1 DEF States
    <3>3. (launch[a].evidence \/ to = "attached") \in BOOLEAN  OBVIOUS
    <3>4. QED  BY <2>1, <3>2, <3>3, Zenon
  <2>5. /\ launch'[a] = r /\ \A b \in Attempts : b # a => launch'[b] = launch[b]
        /\ launch' \in [Attempts -> [state : States, rev : Nat, evidence : BOOLEAN]]
    BY <1>0, <2>3, <2>4
  <2>6. /\ to = "attached" => launch[a].state = "prepared"
        /\ to = "ready" => launch[a].state = "attached"
        /\ to = "stopping" => launch[a].state \in {"attached", "ready"}
        /\ launch[a].state \notin {"absent", "stopped"}
    <3>1. launch[a].state \in States /\ to \in States  BY <1>0 DEF States
    <3>2. QED  BY <1>4, <3>1, AllowedMoves
  <2>7. Progress
    <3>1. \A b \in Attempts : /\ launch[b].evidence => launch'[b].evidence
                              /\ launch[b].state = "stopped" => launch'[b].state = "stopped"
      BY <2>2, <2>5, <2>6
    <3>2. QED  BY <1>f, <3>1, SameTenure DEF Progress
  <2>8. ASSUME NEW b \in Attempts PROVE RecordOk(b)'
    <3>1. RecordOk(b)  BY DEF RecordInv
    <3>2. CASE b # a  BY <1>f, <1>2, <1>4, <2>5, <3>1, <3>2, Zenon DEF RecordOk
    <3>3. CASE b = a
      <4>1. /\ launch'[a].state = to /\ launch'[a].evidence = (launch[a].evidence \/ to = "attached")
        BY <2>2, <2>5
      <4>2. to \in {"attached", "ready", "stopping"} => launch'[a].evidence
        BY <2>6, <3>1, <3>3, <4>1, Zenon DEF RecordOk
      <4>3. launch'[a].evidence => leader[a] # "none"  BY <3>1, <3>3, <4>1, Zenon DEF RecordOk
      <4>4. Answered(a, Prep)' # {}  BY <1>2, <1>4, <2>6, <3>1, <3>3, Zenon DEF RecordOk
      <4>5. Answered(a, Att)' # {} => leader[a] # "none"  BY <1>2, <1>4, <3>1, <3>3, Zenon DEF RecordOk
      <4>6. a \in inflight => leader[a] = "none" /\ a \in pending  BY <3>1, <3>3 DEF RecordOk
      <4>7. QED  BY <1>f, <1>4, <3>3, <4>1, <4>2, <4>3, <4>4, <4>5, <4>6 DEF RecordOk
    <3>4. QED  BY <3>2, <3>3
  <2>9. LedgerInv'
    <3>1. PICK x : x = Entry(a, id, to, rev, TRUE)  BY Zenon
    <3>2. x.a = a /\ x.to = to  BY <3>1 DEF Entry
    <3>3. /\ to = "stopped" => launch'[a].state = "stopped"
          /\ to = "attached" => launch'[a].evidence
      BY <2>2, <2>5
    <3>4. ASSUME NEW y \in ledger
          PROVE  y.a \in Attempts /\ (y.ok => /\ y.to = "stopped" => launch'[y.a].state = "stopped"
                                              /\ y.to = "attached" => launch'[y.a].evidence)
      BY <2>7 DEF LedgerInv, Progress
    <3>5. QED  BY <1>4, <3>1, <3>2, <3>3, <3>4, Zenon DEF LedgerInv
  <2>10. RecordInv'  BY <2>8 DEF RecordInv
  <2>11. m.ok => /\ to = "stopped" => launch'[a].state = "stopped"
                 /\ to = "attached" => launch'[a].evidence
    BY <2>2, <2>5
  <2>12. QED  BY <1>2, <1>4, <2>5, <2>7, <2>9, <2>10, <2>11
<1>5. QED
  <2>1. Entry(a, id, to, rev, TRUE) \in Answered(a, id) => Entry(a, id, to, rev, TRUE) \in ledger
    BY Zenon DEF Answered
  <2>2. launch' = m.launch /\ ledger' = m.ledger  BY DEF Writes
  <2>3. \/ /\ Answered(a, id) # {} /\ m.ok = (Entry(a, id, to, rev, TRUE) \in Answered(a, id))
           /\ m.launch = launch /\ m.ledger = ledger /\ m.faults = faults
        \/ /\ Answered(a, id) = {} /\ m.ok = FALSE
           /\ ~(Authority(e) /\ launch[a].rev = rev /\ Allowed(launch[a].state, to))
           /\ m.launch = launch /\ m.faults = faults
           /\ m.ledger = ledger \cup {Entry(a, id, to, rev, FALSE)}
        \/ /\ Answered(a, id) = {} /\ m.ok = TRUE
           /\ Authority(e) /\ launch[a].rev = rev /\ Allowed(launch[a].state, to)
           /\ m.launch = Moved(a, to, rev) /\ m.faults = faults
           /\ m.ledger = ledger \cup {Entry(a, id, to, rev, TRUE)}
        \/ /\ m.ok = FALSE /\ m.launch = launch /\ m.ledger = ledger /\ m.faults = faults + 1
    BY MutationCases, Zenon
  <2>4. CASE /\ m.ok = (Entry(a, id, to, rev, TRUE) \in Answered(a, id))
             /\ m.launch = launch /\ m.ledger = ledger
    <3>1. m.ok => Entry(a, id, to, rev, TRUE) \in ledger  BY <2>1, <2>4, Zenon
    <3>2. QED  BY <1>1, <2>2, <2>4, <3>1, Zenon
  <2>5. CASE /\ m.ok = FALSE /\ m.launch = launch
             /\ m.ledger = ledger \cup {Entry(a, id, to, rev, FALSE)}
    BY <1>3, <2>2, <2>5, Zenon
  <2>6. CASE /\ m.ok = TRUE
             /\ Authority(e) /\ launch[a].rev = rev /\ Allowed(launch[a].state, to)
             /\ m.launch = Moved(a, to, rev)
             /\ m.ledger = ledger \cup {Entry(a, id, to, rev, TRUE)}
    BY <1>4, <2>2, <2>6, Zenon
  <2>7. CASE m.ok = FALSE /\ m.launch = launch /\ m.ledger = ledger
    BY <1>1, <2>2, <2>7, Zenon
  <2>8. QED  BY <2>3, <2>4, <2>5, <2>6, <2>7, Zenon

LEMMA CommitWrites ==
  ASSUME NEW a, NEW e, NEW id, NEW to, NEW rev, NEW m \in Mutations(a, e, id, to, rev), Commit(m)
  PROVE  Writes(m)
<1>1. m.faults \in {faults, faults + 1}  BY MutationCases, Zenon
<1>2. QED  BY <1>1 DEF Commit, Writes

\* No request but a launch's own has the identity of its preparation or attachment.
LEMMA OtherIds ==
  ASSUME NEW p, NEW q \in {"stopping", "terminal", "cleanup", "ready"}
  PROVE  <<p, q>> # Prep /\ <<p, q>> # Att
<1>1. <<p, q>>[2] = q /\ Prep[2] = "prepare" /\ Att[2] = "attach"  BY DEF Prep, Att
<1>2. QED  BY <1>1

LEMMA AnswersStay ==
  ASSUME NEW a, NEW e, NEW id, id # Att, NEW to, NEW rev, NEW m \in Mutations(a, e, id, to, rev),
         ledger' = m.ledger
  PROVE  AnswersKept
<1>1. m.ledger = ledger \/ \E o : m.ledger = ledger \cup {Entry(a, id, to, rev, o)}
  BY MutationCases, Zenon
<1>2. \A o : Entry(a, id, to, rev, o).id = id  BY DEF Entry
<1>3. QED  BY <1>1, <1>2 DEF AnswersKept, Answered

\* The requests of a launch that is under way or being stopped.
LEMMA RequestMoves ==
  ASSUME TypeInv, RecordInv, LedgerInv, NEW a \in Attempts, NEW e, NEW id, id # Prep, id # Att,
         NEW to \in {"ready", "stopping", "cleanup", "stopped"}, NEW rev,
         NEW m \in Mutations(a, e, id, to, rev), Writes(m),
         UNCHANGED <<owned, epoch, leader, group, inflight, pending>>,
         to = "stopped" => leader[a] = "down" /\ (a \in group => faults > 0 \/ ~Authority(e))
  PROVE  /\ RecordInv' /\ LedgerInv' /\ Progress
         /\ launch' \in [Attempts -> [state : States, rev : Nat, evidence : BOOLEAN]]
         /\ \A b \in Attempts : b # a => launch'[b] = launch[b]
         /\ m.ok /\ to = "stopped" => launch'[a].state = "stopped"
         /\ AnswersKept
<1>1. to \in {"attached", "ready", "stopping", "cleanup", "stopped"}  OBVIOUS
<1>2. (id = Att \/ to = "attached") => leader[a] # "none"  OBVIOUS
<1>3. AnswersKept  BY AnswersStay DEF Writes
<1>4. QED  BY <1>1, <1>2, <1>3, RecordMoves, Zenon

-----------------------------------------------------------------------------
(* Processes that end. *)

LEMMA KillFacts ==
  ASSUME TypeInv, NEW a \in Attempts, NEW x \in Kills(a)
  PROVE  /\ x.leader \in [Attempts -> {"none", "up", "down"}] /\ x.group \subseteq group
         /\ \A b \in Attempts : x.leader[b] = leader[b] \/ (b = a /\ x.leader[b] = "down")
         /\ x.stopped \in BOOLEAN /\ (x.stopped => x.leader[a] = "down")
<1>1. leader \in [Attempts -> {"none", "up", "down"}]  BY DEF TypeInv
<1>2. PICK down : down = [leader EXCEPT ![a] = "down"]  BY Zenon
<1>3. /\ down \in [Attempts -> {"none", "up", "down"}] /\ down[a] = "down"
      /\ \A b \in Attempts : b # a => down[b] = leader[b]
  BY <1>1, <1>2
<1>4. \/ x = [stopped |-> FALSE, leader |-> leader, group |-> group]
      \/ x = [stopped |-> TRUE, leader |-> leader, group |-> group] /\ leader[a] = "down"
      \/ x = [stopped |-> TRUE, leader |-> down, group |-> group \ {a}]
      \/ x = [stopped |-> TRUE, leader |-> down, group |-> group]
  BY <1>2 DEF Kills
<1>5. CASE x = [stopped |-> FALSE, leader |-> leader, group |-> group]  BY <1>1, <1>5
<1>6. CASE x = [stopped |-> TRUE, leader |-> leader, group |-> group] /\ leader[a] = "down"
  BY <1>1, <1>6
<1>7. CASE x = [stopped |-> TRUE, leader |-> down, group |-> group \ {a}]  BY <1>3, <1>7
<1>8. CASE x = [stopped |-> TRUE, leader |-> down, group |-> group]  BY <1>3, <1>8
<1>9. QED  BY <1>4, <1>5, <1>6, <1>7, <1>8

\* Processes end, and nothing else happens to them and their records.
LEMMA ProcessesEnd ==
  ASSUME TypeInv, RecordInv, LedgerInv, UNCHANGED <<owned, epoch, launch, ledger>>,
         inflight' \subseteq inflight, pending \subseteq pending',
         faults' \in {faults, faults + 1}, group' \subseteq group,
         \A b \in Attempts : \/ leader'[b] = leader[b]
                             \/ leader[b] # "none" /\ leader'[b] = "down"
  PROVE  RecordInv' /\ LedgerInv' /\ Progress
<1>1. faults' \in Nat /\ faults' >= faults /\ (faults > 0 => faults' > 0)  BY DEF TypeInv
<1>2. Progress  BY <1>1, SameTenure DEF Progress
<1>3. \A b, i : Answered(b, i)' = Answered(b, i)  BY DEF Answered
<1>4. ASSUME NEW a \in Attempts PROVE RecordOk(a)'
  <2>1. RecordOk(a)  BY DEF RecordInv
  <2>2. launch[a].state = "absent" => leader'[a] = "none"  BY <2>1 DEF RecordOk
  <2>3. a \in inflight' => leader'[a] = "none" /\ a \in pending'  BY <2>1 DEF RecordOk
  <2>4. QED  BY <1>1, <1>3, <2>1, <2>2, <2>3 DEF RecordOk
<1>5. QED  BY <1>2, <1>4 DEF RecordInv, LedgerInv

LEMMA KnownStays ==
  ASSUME TypeInv, KnownInv, Progress, UNCHANGED <<active, pending>>, handle' \subseteq handle,
         \A b \in Attempts : leader'[b] = "up" => leader[b] = "up"
  PROVE  KnownInv'
  BY DEF KnownInv, TypeInv, Progress

-----------------------------------------------------------------------------
(* The stop procedure. *)

\* One stopper moves on.
LEMMA StopperMoves ==
  ASSUME IInv, NEW k \in Stoppers, stop[k] # NoStop, NEW v, stop' = [stop EXCEPT ![k] = v],
         v.pc # "idle", v.a = stop[k].a, StopOk(k)', RecordInv', LedgerInv', Progress,
         launch' \in [Attempts -> [state : States, rev : Nat, evidence : BOOLEAN]],
         \A b \in Attempts : b # stop[k].a => launch'[b] = launch[b],
         launch' = launch \/ launch[stop[k].a].state # "prepared",
         AnswersKept,
         leader' \in [Attempts -> {"none", "up", "down"}],
         \A b \in Attempts : leader[b] = "none" => leader'[b] = "none",
         \A b \in Attempts : leader'[b] = "up" => leader[b] = "up",
         handle' \subseteq handle, group' \subseteq group,
         UNCHANGED <<owned, epoch, active, pending, task, dog, inflight, scenario>>
  PROVE  IInv'
<1>0. TypeInv /\ StopInv /\ RecordInv /\ KnownInv /\ DogInv /\ TaskInv  BY DEF IInv
<1>1. DOMAIN stop = Stoppers /\ Task \in Stoppers  BY <1>0, Names DEF TypeInv
<1>2. stop'[k] = v /\ \A j \in Stoppers : j # k => stop'[j] = stop[j]  BY <1>1
<1>3. v # NoStop  BY DEF NoStop
<1>4. TypeInv'  BY <1>0, <1>1 DEF TypeInv, Progress
<1>5. StopInv'
  <2>1. ASSUME NEW j \in Stoppers, j # k PROVE StopOk(j)'  BY <1>0, <1>2, <2>1, StopStays
  <2>2. QED  BY <2>1 DEF StopInv
<1>6. DogInv'  BY <1>0, DogStays
<1>7. KnownInv'  BY <1>0, KnownStays
<1>8. TaskInv'
  <2>1. stop[Task] # NoStop => stop'[Task] # NoStop /\ stop'[Task].a = stop[Task].a
    BY <1>1, <1>2, <1>3
  <2>2. task.pc \in {"spawn", "attach"} => task.a \in Attempts /\ launch[task.a].state = "prepared"
    BY <1>0 DEF TaskInv, TaskOk, IdleTask, Draining, Retiring
  <2>3. task.pc = "spawn" => leader'[task.a] = leader[task.a]
    BY <1>0, <2>2 DEF TaskInv, TaskOk, IdleTask
  <2>4. task.pc \in {"spawn", "attach"} => launch'[task.a] = launch[task.a]
    BY <2>2
  <2>5. task.pc = "attach" => Answered(task.a, Att)' = Answered(task.a, Att)  BY DEF AnswersKept
  <2>6. QED  BY <1>0, <2>1, <2>3, <2>4, <2>5, TaskStays
<1>9. QED  BY <1>4, <1>5, <1>6, <1>7, <1>8 DEF IInv

\* The two forms in which it goes on, and the one in which it ends.
LEMMA ReturnOk ==
  ASSUME NEW k \in Stoppers, NEW a \in Attempts, NEW r, k \in Attempts => a = k,
         stop'[k] = [pc |-> "done", a |-> a, result |-> r],
         r = "stopped" => launch'[a].state = "stopped"
  PROVE  StopOk(k)'
<1>1. PICK v : v = [pc |-> "done", a |-> a, result |-> r]  BY Zenon
<1>2. v.pc = "done" /\ v.a = a /\ v.result = r /\ DOMAIN v = {"pc", "a", "result"}  BY <1>1
<1>3. QED  BY <1>1, <1>2 DEF StopOk

LEMMA GoOnOk ==
  ASSUME NEW k \in Stoppers, NEW v, stop'[k] = v, v.a \in Attempts, k \in Attempts => v.a = k,
         v.pc \in {"kill", "finish"}, DOMAIN v = {"pc", "a", "e", "path", "rev", "was", "gone"},
         v.gone \in BOOLEAN, launch'[v.a].evidence,
         v.pc = "finish" /\ v.gone => leader'[v.a] = "down" /\ v.a \notin group'
  PROVE  StopOk(k)'
  BY DEF StopOk

LEMMA StopBeginKeeps ==
  ASSUME IInv, NEW k \in Stoppers, StopBegin(k),
         UNCHANGED <<active, pending, task, dog, inflight, scenario>>
  PROVE  IInv'
<1>0. TypeInv /\ StopInv /\ RecordInv /\ LedgerInv  BY DEF IInv
<1>s. PICK s : s = stop[k]  BY Zenon
<1>a. PICK a : a = s.a  BY Zenon
<1>1. s.pc = "begin"  BY <1>s DEF StopBegin
<1>2. s # NoStop  BY <1>1 DEF NoStop
<1>3. a \in Attempts /\ (k \in Attempts => a = k)  BY <1>0, <1>s, <1>a, <1>2 DEF StopInv, StopOk
<1>4. UNCHANGED <<owned, epoch, leader, group, handle>>  BY DEF StopBegin
<1>5. /\ leader \in [Attempts -> {"none", "up", "down"}] /\ DOMAIN stop = Stoppers
      /\ launch \in [Attempts -> [state : States, rev : Nat, evidence : BOOLEAN]]
  BY <1>0 DEF TypeInv
<1>6. PICK l : l = launch[a]  BY Zenon
<1>7. RecordOk(a)  BY <1>0, <1>3 DEF RecordInv
<1>r. ASSUME NEW r PROVE /\ [pc |-> "done", a |-> a, result |-> r].pc # "idle"
                         /\ [pc |-> "done", a |-> a, result |-> r].a = a
  OBVIOUS
<1>8. ASSUME NEW r, stop' = [stop EXCEPT ![k] = [pc |-> "done", a |-> a, result |-> r]],
             UNCHANGED <<launch, ledger, faults>>, r = "stopped" => l.state = "stopped"
      PROVE  IInv'
  <2>1. RecordInv' /\ LedgerInv' /\ Progress  BY <1>0, <1>4, <1>8, ProcessesEnd
  <2>2. stop'[k] = [pc |-> "done", a |-> a, result |-> r]  BY <1>5, <1>8
  <2>3. StopOk(k)'  BY <1>3, <1>6, <1>8, <2>2, ReturnOk
  <2>4. AnswersKept  BY <1>8 DEF AnswersKept, Answered
  <2>5. QED  BY <1>s, <1>a, <1>2, <1>4, <1>5, <1>r, <1>8, <2>1, <2>3, <2>4, StopperMoves, Zenon
<1>p. ASSUME NEW rev, NEW v, v = [pc |-> "kill", a |-> a, e |-> s.e, path |-> s.path, rev |-> rev,
                                  was |-> l.state, gone |-> FALSE]
      PROVE  /\ v.pc = "kill" /\ v.pc # "idle" /\ v.a = a /\ v.gone = FALSE
             /\ DOMAIN v = {"pc", "a", "e", "path", "rev", "was", "gone"}
  BY <1>p
<1>9. ASSUME NEW rev, launch'[a].evidence,
             stop' = [stop EXCEPT ![k] =
               [pc |-> "kill", a |-> a, e |-> s.e, path |-> s.path, rev |-> rev,
                was |-> l.state, gone |-> FALSE]]
      PROVE  StopOk(k)'
  <2>1. PICK v : v = [pc |-> "kill", a |-> a, e |-> s.e, path |-> s.path, rev |-> rev,
                      was |-> l.state, gone |-> FALSE]
    BY Zenon
  <2>2. stop'[k] = v  BY <1>5, <1>9, <2>1
  <2>3. /\ v.pc = "kill" /\ v.a = a /\ v.gone = FALSE
        /\ DOMAIN v = {"pc", "a", "e", "path", "rev", "was", "gone"}
    BY <1>p, <2>1
  <2>4. QED  BY <1>3, <1>9, <2>2, <2>3, GoOnOk, Zenon
<1>10. CASE l.state = "stopped" /\ Return(k, "stopped") /\ UNCHANGED <<launch, ledger, faults>>
  BY <1>s, <1>a, <1>8, <1>10, Zenon DEF Return
<1>11. CASE Return(k, "error") /\ UNCHANGED <<launch, ledger, faults>>
  <2>1. stop' = [stop EXCEPT ![k] = [pc |-> "done", a |-> a, result |-> "error"]]
    BY <1>s, <1>a, <1>11 DEF Return
  <2>2. "error" = "stopped" => l.state = "stopped"  OBVIOUS
  <2>3. QED  BY <1>8, <1>11, <2>1, <2>2, Zenon
<1>12. CASE /\ l.evidence /\ UNCHANGED <<launch, ledger, faults>>
            /\ stop' = [stop EXCEPT ![k] =
                 [pc |-> "kill", a |-> a, e |-> s.e, path |-> s.path, rev |-> l.rev,
                  was |-> l.state, gone |-> FALSE]]
  <2>1. RecordInv' /\ LedgerInv' /\ Progress  BY <1>0, <1>4, <1>12, ProcessesEnd
  <2>2. StopOk(k)'  BY <1>6, <1>9, <1>12, Zenon
  <2>3. AnswersKept  BY <1>12 DEF AnswersKept, Answered
  <2>4. PICK v : v = [pc |-> "kill", a |-> a, e |-> s.e, path |-> s.path, rev |-> l.rev,
                      was |-> l.state, gone |-> FALSE]
    BY Zenon
  <2>5. v.pc # "idle" /\ v.a = a  BY <1>p, <2>4
  <2>6. QED  BY <1>s, <1>a, <1>2, <1>4, <1>5, <1>12, <2>1, <2>2, <2>3, <2>4, <2>5, StopperMoves, Zenon
<1>13. ASSUME l.state \in {"attached", "ready"},
              NEW m \in Mutations(a, s.e, <<s.path, "stopping">>, "stopping", l.rev), Commit(m),
              IF m.ok THEN stop' = [stop EXCEPT ![k] =
                             [pc |-> "kill", a |-> a, e |-> s.e, path |-> s.path, rev |-> l.rev + 1,
                              was |-> l.state, gone |-> FALSE]]
              ELSE Return(k, "error")
       PROVE  IInv'
  <2>1. UNCHANGED <<owned, epoch, leader, group, inflight, pending>>  BY <1>4
  <2>i. <<s.path, "stopping">> # Prep /\ <<s.path, "stopping">> # Att /\ Writes(m)
    BY <1>13, OtherIds, CommitWrites
  <2>2. /\ RecordInv' /\ LedgerInv' /\ Progress
        /\ launch' \in [Attempts -> [state : States, rev : Nat, evidence : BOOLEAN]]
        /\ \A b \in Attempts : b # a => launch'[b] = launch[b]
        /\ AnswersKept
    BY <1>0, <1>3, <1>13, <2>1, <2>i, RequestMoves, Zenon
  <2>3. launch'[a].evidence  BY <1>3, <1>6, <1>7, <1>13, <2>2, Zenon DEF Progress, RecordOk
  <2>4. \E v : stop' = [stop EXCEPT ![k] = v] /\ v.pc # "idle" /\ v.a = a
    <3>1. CASE m.ok
      <4>1. PICK v : v = [pc |-> "kill", a |-> a, e |-> s.e, path |-> s.path, rev |-> l.rev + 1,
                          was |-> l.state, gone |-> FALSE]
        BY Zenon
      <4>2. v.pc # "idle" /\ v.a = a  BY <1>p, <4>1
      <4>3. stop' = [stop EXCEPT ![k] = v]  BY <1>13, <3>1, <4>1
      <4>4. QED  BY <4>2, <4>3, Zenon
    <3>2. CASE ~m.ok
      <4>1. stop' = [stop EXCEPT ![k] = [pc |-> "done", a |-> a, result |-> "error"]]
        BY <1>s, <1>a, <1>13, <3>2 DEF Return
      <4>2. QED  BY <1>r, <4>1, Zenon
    <3>3. QED  BY <3>1, <3>2
  <2>5. StopOk(k)'
    <3>1. CASE m.ok  BY <1>9, <1>13, <2>3, <3>1, Zenon
    <3>2. CASE ~m.ok
      <4>1. stop'[k] = [pc |-> "done", a |-> a, result |-> "error"]
        BY <1>s, <1>a, <1>5, <1>13, <3>2 DEF Return
      <4>2. QED  BY <1>3, <4>1, ReturnOk
    <3>3. QED  BY <3>1, <3>2
  <2>6. launch[stop[k].a].state # "prepared"  BY <1>s, <1>a, <1>6, <1>13
  <2>7. QED  BY <1>s, <1>a, <1>2, <1>4, <1>5, <2>2, <2>4, <2>5, <2>6, StopperMoves, Zenon
<1>14. QED  BY <1>s, <1>a, <1>6, <1>10, <1>11, <1>12, <1>13, Zenon DEF StopBegin

\* A stop that returns.
LEMMA ReturnKeeps ==
  ASSUME IInv, NEW k \in Stoppers, stop[k] # NoStop, NEW r, Return(k, r),
         r = "stopped" => launch'[stop[k].a].state = "stopped", RecordInv', LedgerInv', Progress,
         launch' \in [Attempts -> [state : States, rev : Nat, evidence : BOOLEAN]],
         \A b \in Attempts : b # stop[k].a => launch'[b] = launch[b],
         launch' = launch \/ launch[stop[k].a].state # "prepared",
         AnswersKept,
         leader' \in [Attempts -> {"none", "up", "down"}],
         \A b \in Attempts : leader[b] = "none" => leader'[b] = "none",
         \A b \in Attempts : leader'[b] = "up" => leader[b] = "up",
         handle' \subseteq handle, group' \subseteq group,
         UNCHANGED <<owned, epoch, active, pending, task, dog, inflight, scenario>>
  PROVE  IInv'
<1>0. TypeInv /\ StopInv  BY DEF IInv
<1>1. PICK a : a = stop[k].a  BY Zenon
<1>2. a \in Attempts /\ (k \in Attempts => a = k)  BY <1>0, <1>1 DEF StopInv, StopOk
<1>3. PICK v : v = [pc |-> "done", a |-> a, result |-> r]  BY Zenon
<1>4. stop' = [stop EXCEPT ![k] = v]  BY <1>1, <1>3 DEF Return
<1>5. stop'[k] = v  BY <1>0, <1>4 DEF TypeInv
<1>6. StopOk(k)'  BY <1>1, <1>2, <1>3, <1>5, ReturnOk
<1>7. v.pc # "idle" /\ v.a = stop[k].a  BY <1>1, <1>3
<1>8. QED  BY <1>4, <1>6, <1>7, StopperMoves, Zenon

LEMMA StopExpiresKeeps ==
  ASSUME IInv, NEW k \in Stoppers, StopExpires(k),
         UNCHANGED <<active, pending, task, dog, inflight, scenario>>
  PROVE  IInv'
<1>0. TypeInv /\ StopInv /\ RecordInv /\ LedgerInv  BY DEF IInv
<1>s. PICK s : s = stop[k]  BY Zenon
<1>a. PICK a : a = s.a  BY Zenon
<1>1. s.pc = "begin"  BY <1>s DEF StopExpires
<1>2. s # NoStop  BY <1>1 DEF NoStop
<1>3. a \in Attempts  BY <1>0, <1>s, <1>a, <1>2 DEF StopInv, StopOk
<1>4. UNCHANGED <<owned, epoch, leader, group, handle>>  BY DEF StopExpires
<1>5. /\ leader \in [Attempts -> {"none", "up", "down"}]
      /\ launch \in [Attempts -> [state : States, rev : Nat, evidence : BOOLEAN]]
  BY <1>0 DEF TypeInv
<1>6. CASE Return(k, "cleanup") /\ faults' = faults + 1 /\ UNCHANGED <<launch, ledger>>
  <2>1. RecordInv' /\ LedgerInv' /\ Progress  BY <1>0, <1>4, <1>6, ProcessesEnd
  <2>2. AnswersKept  BY <1>6 DEF AnswersKept, Answered
  <2>3. QED  BY <1>s, <1>2, <1>4, <1>5, <1>6, <2>1, <2>2, ReturnKeeps
<1>7. ASSUME launch[a].evidence,
             NEW m \in Mutations(a, s.e, <<s.path, "terminal">>, "cleanup", launch[a].rev),
             launch' = m.launch, ledger' = m.ledger, faults' = faults + 1,
             Return(k, IF m.ok THEN "cleanup" ELSE "error")
      PROVE  IInv'
  <2>1. UNCHANGED <<owned, epoch, leader, group, inflight, pending>>  BY <1>4
  <2>2. <<s.path, "terminal">> # Prep /\ <<s.path, "terminal">> # Att /\ Writes(m)
    BY <1>7, OtherIds DEF Writes
  <2>3. /\ RecordInv' /\ LedgerInv' /\ Progress
        /\ launch' \in [Attempts -> [state : States, rev : Nat, evidence : BOOLEAN]]
        /\ \A b \in Attempts : b # a => launch'[b] = launch[b]
        /\ AnswersKept
    BY <1>0, <1>3, <1>7, <2>1, <2>2, RequestMoves, Zenon
  <2>4. launch[a].state # "prepared"  BY <1>0, <1>3, <1>7, Zenon DEF RecordInv, RecordOk
  <2>5. PICK r : r = (IF m.ok THEN "cleanup" ELSE "error") /\ r # "stopped"  OBVIOUS
  <2>6. QED  BY <1>s, <1>a, <1>2, <1>4, <1>5, <1>7, <2>3, <2>4, <2>5, ReturnKeeps
<1>8. QED  BY <1>s, <1>a, <1>6, <1>7 DEF StopExpires

LEMMA StopFinishKeeps ==
  ASSUME IInv, NEW k \in Stoppers, StopFinish(k),
         UNCHANGED <<active, pending, task, dog, inflight, scenario>>
  PROVE  IInv'
<1>0. TypeInv /\ StopInv /\ RecordInv /\ LedgerInv  BY DEF IInv
<1>s. PICK s : s = stop[k]  BY Zenon
<1>a. PICK a : a = s.a  BY Zenon
<1>1. s.pc = "finish"  BY <1>s, Zenon DEF StopFinish
<1>2. s # NoStop  BY <1>1 DEF NoStop
<1>3. /\ a \in Attempts /\ s.gone \in BOOLEAN /\ launch[a].evidence
      /\ s.gone => leader[a] = "down" /\ a \notin group
  BY <1>0, <1>s, <1>a, <1>1, <1>2 DEF StopInv, StopOk
<1>4. UNCHANGED <<owned, epoch, leader, group, handle>>  BY DEF StopFinish
<1>5. /\ leader \in [Attempts -> {"none", "up", "down"}]
      /\ launch \in [Attempts -> [state : States, rev : Nat, evidence : BOOLEAN]]
  BY <1>0 DEF TypeInv
<1>6. PICK to \in {"ready", "stopping", "cleanup", "stopped"} :
        to = (IF s.gone THEN "stopped" ELSE "cleanup") /\ (to = "stopped" => s.gone)
  BY <1>3
<1>7. PICK m \in Mutations(a, s.e, <<s.path, "terminal">>, to, s.rev) :
        Commit(m) /\ Return(k, IF m.ok THEN to ELSE "error")
  BY <1>s, <1>a, <1>6 DEF StopFinish
<1>8. UNCHANGED <<owned, epoch, leader, group, inflight, pending>>  BY <1>4
<1>9. <<s.path, "terminal">> # Prep /\ <<s.path, "terminal">> # Att /\ Writes(m)
  BY <1>7, OtherIds, CommitWrites
<1>10. /\ RecordInv' /\ LedgerInv' /\ Progress
       /\ launch' \in [Attempts -> [state : States, rev : Nat, evidence : BOOLEAN]]
       /\ \A b \in Attempts : b # a => launch'[b] = launch[b]
       /\ m.ok /\ to = "stopped" => launch'[a].state = "stopped"
       /\ AnswersKept
  BY <1>0, <1>3, <1>6, <1>7, <1>8, <1>9, RequestMoves, Zenon
<1>11. launch[a].state # "prepared"  BY <1>0, <1>3, Zenon DEF RecordInv, RecordOk
<1>12. PICK r : r = (IF m.ok THEN to ELSE "error")  BY Zenon
<1>13. r = "stopped" => launch'[a].state = "stopped"  BY <1>10, <1>12
<1>14. QED  BY <1>s, <1>a, <1>2, <1>4, <1>5, <1>7, <1>10, <1>11, <1>12, <1>13, ReturnKeeps

\* A process that was spawned is signalled.
LEMMA Killing ==
  ASSUME TypeInv, RecordInv, LedgerInv, NEW a \in Attempts, leader[a] # "none", NEW x \in Kills(a),
         leader' = x.leader, group' = x.group, faults' \in {faults, faults + 1},
         UNCHANGED <<owned, epoch, launch, ledger, inflight, pending>>
  PROVE  /\ RecordInv' /\ LedgerInv' /\ Progress /\ AnswersKept
         /\ leader' \in [Attempts -> {"none", "up", "down"}] /\ group' \subseteq group
         /\ \A b \in Attempts : leader[b] = "none" => leader'[b] = "none"
         /\ \A b \in Attempts : leader'[b] = "up" => leader[b] = "up"
         /\ x.stopped \in BOOLEAN /\ (x.stopped => leader'[a] = "down")
<1>1. /\ x.leader \in [Attempts -> {"none", "up", "down"}] /\ x.group \subseteq group
      /\ \A b \in Attempts : x.leader[b] = leader[b] \/ (b = a /\ x.leader[b] = "down")
      /\ x.stopped \in BOOLEAN /\ (x.stopped => x.leader[a] = "down")
  BY KillFacts
<1>2. RecordInv' /\ LedgerInv' /\ Progress  BY <1>1, ProcessesEnd
<1>3. AnswersKept  BY DEF AnswersKept, Answered
<1>4. QED  BY <1>1, <1>2, <1>3, Zenon

LEMMA StopKillKeeps ==
  ASSUME IInv, NEW k \in Stoppers, StopKill(k),
         UNCHANGED <<active, pending, task, dog, inflight, scenario>>
  PROVE  IInv'
<1>0. TypeInv /\ StopInv /\ RecordInv /\ LedgerInv  BY DEF IInv
<1>s. PICK s : s = stop[k]  BY Zenon
<1>a. PICK a : a = s.a  BY Zenon
<1>1. s.pc = "kill"  BY <1>s DEF StopKill
<1>2. s # NoStop  BY <1>1 DEF NoStop
<1>3. /\ a \in Attempts /\ launch[a].evidence /\ (k \in Attempts => a = k)
      /\ DOMAIN s = {"pc", "a", "e", "path", "rev", "was", "gone"}
  BY <1>0, <1>s, <1>a, <1>1, <1>2 DEF StopInv, StopOk
<1>4. leader[a] # "none"  BY <1>0, <1>3 DEF RecordInv, RecordOk
<1>5. UNCHANGED <<owned, epoch, launch, ledger, inflight, pending>>  BY DEF StopKill
<1>6. launch \in [Attempts -> [state : States, rev : Nat, evidence : BOOLEAN]] /\ DOMAIN stop = Stoppers
  BY <1>0 DEF TypeInv
<1>7. PICK x \in Kills(a), removed \in BOOLEAN :
        LET gone == removed /\ Cleans(a, x) IN
        /\ leader' = x.leader /\ group' = x.group
        /\ handle' = IF gone THEN handle \ {a} ELSE handle
        /\ faults' = IF removed THEN faults ELSE faults + 1
        /\ IF ~gone /\ s.was = "cleanup"
           THEN Return(k, "cleanup")
           ELSE stop' = [stop EXCEPT ![k].pc = "finish", ![k].gone = gone]
  BY <1>s, <1>a, Zenon DEF StopKill
<1>8. PICK gone \in BOOLEAN : gone = (removed /\ Cleans(a, x))  BY Zenon
<1>9. /\ faults' \in {faults, faults + 1} /\ handle' \subseteq handle
      /\ leader' = x.leader /\ group' = x.group
  BY <1>7
<1>10. /\ RecordInv' /\ LedgerInv' /\ Progress /\ AnswersKept
       /\ leader' \in [Attempts -> {"none", "up", "down"}] /\ group' \subseteq group
       /\ \A b \in Attempts : leader[b] = "none" => leader'[b] = "none"
       /\ \A b \in Attempts : leader'[b] = "up" => leader[b] = "up"
  BY <1>0, <1>3, <1>4, <1>5, <1>9, Killing, Zenon
<1>11. gone => leader'[a] = "down" /\ a \notin group'  BY <1>8, <1>9, Zenon DEF Cleans
<1>12. CASE Return(k, "cleanup")
  BY <1>s, <1>2, <1>5, <1>6, <1>9, <1>10, <1>12, ReturnKeeps
<1>13. CASE stop' = [stop EXCEPT ![k].pc = "finish", ![k].gone = gone]
  <2>1. PICK v : v = [s EXCEPT !.pc = "finish", !.gone = gone]  BY Zenon
  <2>2. stop' = [stop EXCEPT ![k] = v]  BY <1>s, <1>13, <2>1, Zenon
  <2>3. /\ v.pc = "finish" /\ v.gone = gone /\ v.a = a /\ v.pc # "idle"
        /\ DOMAIN v = {"pc", "a", "e", "path", "rev", "was", "gone"}
    BY <1>a, <1>3, <2>1
  <2>4. stop'[k] = v  BY <1>6, <2>2
  <2>5. launch'[a].evidence  BY <1>3, <1>5
  <2>6. StopOk(k)'  BY <1>3, <1>8, <1>11, <2>3, <2>4, <2>5, GoOnOk, Zenon
  <2>7. QED  BY <1>s, <1>a, <1>2, <1>5, <1>6, <1>9, <1>10, <2>2, <2>3, <2>6, StopperMoves, Zenon
<1>14. QED  BY <1>7, <1>8, <1>12, <1>13

LEMMA StopKeeps ==
  ASSUME IInv, UNCHANGED scenario, NEW k \in Stoppers, StopStep(k)
  PROVE  IInv'
  BY StopBeginKeeps, StopExpiresKeeps, StopKillKeeps, StopFinishKeeps DEF StopStep, Stop

-----------------------------------------------------------------------------
(* Whatever goes on beside the holder of the launch lock. *)

LEMMA BesideTask ==
  ASSUME IInv, TypeInv', RecordInv', LedgerInv', StopInv', DogInv', Progress, AnswersKept,
         \A b \in Attempts : launch[b].state = "prepared" => launch'[b] = launch[b],
         \A b \in Attempts : leader[b] = "none" => leader'[b] = "none",
         \A b \in Attempts : leader'[b] = "up" => leader[b] = "up",
         handle' \subseteq handle, stop'[Task] = stop[Task],
         UNCHANGED <<active, pending, task, inflight>>
  PROVE  IInv'
<1>0. TypeInv /\ KnownInv /\ TaskInv  BY DEF IInv
<1>1. KnownInv'  BY <1>0, KnownStays
<1>2. task.pc \in {"spawn", "attach"} => task.a \in Attempts /\ launch[task.a].state = "prepared"
  BY <1>0 DEF TaskInv, TaskOk, IdleTask, Draining, Retiring
<1>3. task.pc = "spawn" => leader'[task.a] = leader[task.a]
  BY <1>0, <1>2 DEF TaskInv, TaskOk, IdleTask
<1>4. task.pc \in {"spawn", "attach"} => launch'[task.a] = launch[task.a]  BY <1>2
<1>5. task.pc = "attach" => Answered(task.a, Att)' = Answered(task.a, Att)  BY DEF AnswersKept
<1>6. TaskInv'  BY <1>0, <1>3, <1>4, <1>5, TaskStays
<1>7. QED  BY <1>1, <1>6, Zenon DEF IInv

\* Nothing but the dogs and their stop procedures.
LEMMA RecordsStay ==
  ASSUME IInv, UNCHANGED <<owned, epoch, launch, ledger, leader, group, inflight, pending>>,
         faults' \in {faults, faults + 1}
  PROVE  RecordInv' /\ LedgerInv' /\ Progress /\ AnswersKept
<1>1. TypeInv /\ RecordInv /\ LedgerInv  BY DEF IInv
<1>2. RecordInv' /\ LedgerInv' /\ Progress  BY <1>1, ProcessesEnd
<1>3. AnswersKept  BY DEF AnswersKept, Answered
<1>4. QED  BY <1>2, <1>3

\* A dog moves to state d.
LEMMA DogMoves ==
  ASSUME TypeInv, DogInv, Progress, NEW a \in Attempts, NEW d, Watch(a, d), dog[a] # "none",
         d = "stopped" => launch'[a].state = "stopped"
  PROVE  DogInv' /\ DOMAIN dog' = Attempts
<1>1. DOMAIN dog = Attempts  BY DEF TypeInv
<1>2. dog'[a] = d /\ DOMAIN dog' = Attempts /\ \A b \in Attempts : b # a => dog'[b] = dog[b]
  BY <1>1 DEF Watch
<1>3. launch'[a].evidence  BY DEF DogInv, Progress
<1>4. QED  BY <1>2, <1>3 DEF DogInv, Progress

LEMMA StopsStay ==
  ASSUME IInv, Progress, UNCHANGED stop
  PROVE  StopInv'
<1>1. StopInv /\ RecordInv  BY DEF IInv
<1>2. ASSUME NEW k \in Stoppers PROVE StopOk(k)'  BY <1>1, StopStays
<1>3. QED  BY <1>2 DEF StopInv

\* A dog looks at its record, or at the ownership.
LEMMA DogLooks ==
  ASSUME IInv, UNCHANGED scenario, NEW a \in Attempts, DogSeesEnd(a) \/ DogFires(a)
  PROVE  IInv'
<1>0. TypeInv /\ DogInv  BY DEF IInv
<1>1. /\ UNCHANGED <<owned, epoch, launch, ledger, leader, group, inflight, pending>>
      /\ UNCHANGED <<active, pending, task, inflight, handle, stop>>
  BY DEF DogSeesEnd, DogFires, launchVars
<1>2. faults' \in {faults, faults + 1}
  BY DEF DogSeesEnd, DogFires, launchVars, RequiresRevocation
<1>3. RecordInv' /\ LedgerInv' /\ Progress /\ AnswersKept  BY <1>1, <1>2, RecordsStay
<1>4. dog[a] # "none"  BY Zenon DEF DogSeesEnd, DogFires
<1>5. PICK d : Watch(a, d) /\ (d = "stopped" => launch[a].state = "stopped")
  <2>1. CASE DogSeesEnd(a)  BY <2>1, Zenon DEF DogSeesEnd
  <2>2. CASE DogFires(a)
    <3>1. Watch(a, "waiting") \/ Watch(a, "error")  BY <2>2, Zenon DEF DogFires
    <3>2. "waiting" # "stopped" /\ "error" # "stopped"  OBVIOUS
    <3>3. QED  BY <3>1, <3>2, Zenon
  <2>3. QED  BY <2>1, <2>2
<1>6. DogInv' /\ DOMAIN dog' = Attempts  BY <1>0, <1>1, <1>3, <1>4, <1>5, DogMoves, Zenon
<1>7. StopInv'  BY <1>1, <1>3, StopsStay
<1>8. TypeInv'  BY <1>0, <1>1, <1>3, <1>6, Zenon DEF TypeInv, Progress
<1>9. QED  BY <1>1, <1>3, <1>6, <1>7, <1>8, BesideTask

LEMMA DogFinishKeeps ==
  ASSUME IInv, UNCHANGED scenario, NEW a \in Attempts, DogFinish(a)
  PROVE  IInv'
<1>0. TypeInv /\ RecordInv /\ LedgerInv /\ DogInv  BY DEF IInv
<1>1. /\ UNCHANGED <<owned, epoch, leader, group, inflight, pending>>
      /\ UNCHANGED <<active, pending, task, inflight, stop>>
      /\ dog[a] \in {"waiting", "exited"} /\ leader[a] = "down" /\ a \notin group
  BY DEF DogFinish, Exited
<1>2. launch[a].evidence  BY <1>0, <1>1 DEF DogInv
<1>3. PICK step \in {"stopping", "terminal"}, to \in {"ready", "stopping", "cleanup", "stopped"} :
        /\ step = (IF dog[a] = "waiting" THEN "stopping" ELSE "terminal")
        /\ to = (IF dog[a] = "waiting" THEN "stopping" ELSE "stopped")
  OBVIOUS
<1>4. PICK m \in Mutations(a, a[1], <<"lost", step>>, to, launch[a].rev) :
        /\ Commit(m)
        /\ IF m.ok /\ dog[a] = "waiting"
           THEN Watch(a, "exited") /\ UNCHANGED <<handle, binding>>
           ELSE /\ Watch(a, IF m.ok THEN "stopped" ELSE "cleanup")
                /\ handle' = handle \ {a} /\ binding' = binding \ {a}
  BY <1>3, Zenon DEF DogFinish
<1>5. <<"lost", step>> # Prep /\ <<"lost", step>> # Att /\ Writes(m)
  BY <1>4, OtherIds, CommitWrites
<1>6. /\ RecordInv' /\ LedgerInv' /\ Progress
      /\ launch' \in [Attempts -> [state : States, rev : Nat, evidence : BOOLEAN]]
      /\ \A b \in Attempts : b # a => launch'[b] = launch[b]
      /\ m.ok /\ to = "stopped" => launch'[a].state = "stopped"
      /\ AnswersKept
  BY <1>0, <1>1, <1>3, <1>4, <1>5, RequestMoves, Zenon
<1>7. PICK d : Watch(a, d) /\ (d = "stopped" => m.ok /\ to = "stopped")
  <2>1. CASE m.ok /\ dog[a] = "waiting"  BY <1>4, <2>1
  <2>2. CASE m.ok /\ dog[a] # "waiting"  BY <1>3, <1>4, <2>2
  <2>3. CASE ~m.ok  BY <1>4, <2>3
  <2>4. QED  BY <2>1, <2>2, <2>3, Zenon
<1>8. DogInv' /\ DOMAIN dog' = Attempts  BY <1>0, <1>1, <1>6, <1>7, DogMoves
<1>9. StopInv'  BY <1>1, <1>6, StopsStay
<1>10. handle' \subseteq handle  BY <1>4
<1>11. TypeInv'  BY <1>0, <1>1, <1>6, <1>8, <1>10, Zenon DEF TypeInv, Progress
<1>12. \A b \in Attempts : launch[b].state = "prepared" => launch'[b] = launch[b]
  BY <1>0, <1>2, <1>6, Zenon DEF RecordInv, RecordOk
<1>13. QED  BY <1>1, <1>6, <1>8, <1>9, <1>10, <1>11, <1>12, BesideTask, Zenon

\* The stop procedure of a dog starts or ends.
LEMMA DogStopChanges ==
  ASSUME IInv, Progress, NEW a \in Attempts, NEW v, stop' = [stop EXCEPT ![a] = v],
         v = NoStop \/ \E e, p : v = Stopping(a, e, p)
  PROVE  StopInv' /\ DOMAIN stop' = Stoppers /\ stop'[Task] = stop[Task]
<1>0. TypeInv /\ StopInv /\ RecordInv  BY DEF IInv
<1>1. a \in Stoppers /\ a # Task /\ Task \in Stoppers /\ DOMAIN stop = Stoppers
  BY <1>0, Names, Zenon DEF TypeInv
<1>2. stop'[a] = v /\ \A j \in Stoppers : j # a => stop'[j] = stop[j]  BY <1>1
<1>3. StopOk(a)'
  <2>1. CASE v = NoStop  BY <1>2, <2>1 DEF StopOk
  <2>2. ASSUME NEW e, NEW p, v = Stopping(a, e, p) PROVE StopOk(a)'
    <3>1. v.pc = "begin" /\ v.a = a /\ DOMAIN v = {"pc", "a", "e", "path"}  BY <2>2 DEF Stopping
    <3>2. QED  BY <1>2, <3>1 DEF StopOk
  <2>3. QED  BY <2>1, <2>2
<1>4. ASSUME NEW j \in Stoppers, j # a PROVE StopOk(j)'  BY <1>0, <1>2, <1>4, StopStays
<1>5. QED  BY <1>1, <1>2, <1>3, <1>4 DEF StopInv

LEMMA DogStopsKeeps ==
  ASSUME IInv, UNCHANGED scenario, NEW a \in Attempts, DogStops(a)
  PROVE  IInv'
<1>0. TypeInv /\ DogInv  BY DEF IInv
<1>1. /\ UNCHANGED <<owned, epoch, launch, ledger, leader, group, inflight, pending>>
      /\ UNCHANGED <<active, pending, task, inflight, handle, faults>>
      /\ dog[a] # "none" /\ Watch(a, "stopping")
      /\ stop' = [stop EXCEPT ![a] = Stopping(a, a[1], "lost")]
  BY Zenon DEF DogStops
<1>2. RecordInv' /\ LedgerInv' /\ Progress /\ AnswersKept  BY <1>1, RecordsStay, Zenon
<1>3. DogInv' /\ DOMAIN dog' = Attempts  BY <1>0, <1>1, <1>2, DogMoves, Zenon
<1>4. StopInv' /\ DOMAIN stop' = Stoppers /\ stop'[Task] = stop[Task]
  BY <1>1, <1>2, DogStopChanges, Zenon
<1>5. TypeInv'  BY <1>0, <1>1, <1>3, <1>4, Zenon DEF TypeInv
<1>6. QED  BY <1>1, <1>2, <1>3, <1>4, <1>5, BesideTask, Zenon

LEMMA DogStoppedKeeps ==
  ASSUME IInv, UNCHANGED scenario, NEW a \in Attempts, DogStopped(a)
  PROVE  IInv'
<1>0. TypeInv /\ RecordInv /\ LedgerInv /\ DogInv /\ StopInv  BY DEF IInv
<1>1. /\ UNCHANGED <<owned, epoch, launch, ledger, inflight, pending>>
      /\ UNCHANGED <<active, pending, task, inflight, faults>>
      /\ dog[a] # "none" /\ stop[a].pc = "done" /\ stop' = [stop EXCEPT ![a] = NoStop]
  BY Zenon DEF DogStopped
<1>2. launch[a].evidence /\ leader[a] # "none"
  BY <1>0, <1>1, Zenon DEF DogInv, RecordInv, RecordOk
<1>3. stop[a].result = "stopped" => launch[a].state = "stopped"
  <2>1. stop[a] # NoStop /\ a \in Stoppers  BY <1>1, Names DEF NoStop
  <2>2. QED  BY <1>0, <1>1, <2>1 DEF StopInv, StopOk
<1>4. /\ RecordInv' /\ LedgerInv' /\ Progress /\ AnswersKept
      /\ leader' \in [Attempts -> {"none", "up", "down"}] /\ group' \subseteq group
      /\ \A b \in Attempts : leader[b] = "none" => leader'[b] = "none"
      /\ \A b \in Attempts : leader'[b] = "up" => leader[b] = "up"
  <2>1. CASE UNCHANGED <<leader, group>>
    <3>1. UNCHANGED <<owned, epoch, launch, ledger, leader, group, inflight, pending>>
      BY <1>1, <2>1
    <3>2. RecordInv' /\ LedgerInv' /\ Progress /\ AnswersKept  BY <1>1, <3>1, RecordsStay
    <3>3. QED  BY <1>0, <2>1, <3>2 DEF TypeInv
  <2>2. ASSUME NEW x \in Kills(a), leader' = x.leader, group' = x.group
        PROVE  /\ RecordInv' /\ LedgerInv' /\ Progress /\ AnswersKept
               /\ leader' \in [Attempts -> {"none", "up", "down"}] /\ group' \subseteq group
               /\ \A b \in Attempts : leader[b] = "none" => leader'[b] = "none"
               /\ \A b \in Attempts : leader'[b] = "up" => leader[b] = "up"
    BY <1>0, <1>1, <1>2, <2>2, Killing
  <2>3. UNCHANGED <<leader, group>> \/ \E x \in Kills(a) : leader' = x.leader /\ group' = x.group
    BY Zenon DEF DogStopped
  <2>4. QED  BY <2>1, <2>2, <2>3
<1>5. PICK d : Watch(a, d) /\ (d = "stopped" => launch[a].state = "stopped")
  BY <1>3 DEF DogStopped
<1>6. DogInv' /\ DOMAIN dog' = Attempts
  BY <1>0, <1>1, <1>4, <1>5, DogMoves
<1>7. StopInv' /\ DOMAIN stop' = Stoppers /\ stop'[Task] = stop[Task]
  BY <1>1, <1>4, DogStopChanges, Zenon
<1>8. handle' \subseteq handle  BY DEF DogStopped
<1>9. TypeInv'  BY <1>0, <1>1, <1>4, <1>6, <1>7, <1>8 DEF TypeInv
<1>10. QED  BY <1>1, <1>4, <1>6, <1>7, <1>8, <1>9, BesideTask, Zenon

LEMMA WorldKeeps ==
  ASSUME IInv, UNCHANGED scenario, World
  PROVE  IInv'
<1>0. TypeInv /\ RecordInv /\ LedgerInv /\ DogInv  BY DEF IInv
<1>1. /\ UNCHANGED <<launch, ledger, handle, stop, faults, active, pending, task, dog, inflight>>
      /\ UNCHANGED <<active, pending, task, inflight>>
  BY DEF World, Lapse, Regain, LeaderExits, GroupExits
<1>2. ASSUME RecordInv', LedgerInv', Progress, TypeInv',
             \A b \in Attempts : leader[b] = "none" => leader'[b] = "none",
             \A b \in Attempts : leader'[b] = "up" => leader[b] = "up"
      PROVE  IInv'
  <2>1. DogInv'  BY <1>0, <1>1, <1>2, DogStays
  <2>2. StopInv'  BY <1>1, <1>2, StopsStay, Zenon
  <2>3. AnswersKept  BY <1>1 DEF AnswersKept, Answered
  <2>4. QED  BY <1>1, <1>2, <2>1, <2>2, <2>3, BesideTask, Zenon
<1>3. CASE (Lapse \/ Regain) /\ UNCHANGED <<leader, group>>
  <2>1. owned' \in BOOLEAN /\ epoch' \in 1 .. MaxEpoch /\ epoch' >= epoch
    <3>1. epoch \in 1 .. MaxEpoch /\ scenario.epochs \in 1 .. MaxEpoch
      BY <1>0, LaunchAssumption DEF TypeInv
    <3>2. owned' \in BOOLEAN  BY <1>3, Zenon DEF Lapse, Regain
    <3>3. epoch' = epoch \/ (epoch < scenario.epochs /\ epoch' = epoch + 1)
      BY <1>3 DEF Lapse, Regain
    <3>4. PICK n, x \in 1 .. MaxEpoch : n = scenario.epochs /\ x = epoch  BY <3>1
    <3>5. MaxEpoch \in Nat  BY LaunchAssumption
    <3>6. epoch' \in 1 .. MaxEpoch /\ epoch' >= epoch  BY <3>3, <3>4, <3>5
    <3>7. QED  BY <3>2, <3>6
  <2>2. \A e \in Nat : e <= epoch /\ ~Authority(e) => ~Authority(e)'
    BY <1>0, <1>3, LaunchAssumption DEF Lapse, Regain, Authority, TypeInv
  <2>3. \A b, i : Answered(b, i)' = Answered(b, i)  BY <1>1 DEF Answered
  <2>4. RecordInv'  BY <1>0, <1>1, <1>3, <2>3, Zenon DEF RecordInv, RecordOk
  <2>5. LedgerInv'  BY <1>0, <1>1 DEF LedgerInv
  <2>6. faults \in Nat /\ epoch' \in Nat  BY <1>0, <2>1, LaunchAssumption DEF TypeInv
  <2>7. Progress  BY <1>1, <1>3, <2>1, <2>2, <2>6 DEF Progress
  <2>8. TypeInv'  BY <1>0, <1>1, <1>3, <2>1 DEF TypeInv
  <2>9. QED  BY <1>2, <1>3, <2>4, <2>5, <2>7, <2>8
<1>4. ASSUME NEW a \in Attempts, LeaderExits(a) \/ GroupExits(a) PROVE IInv'
  <2>1. UNCHANGED <<owned, epoch, launch, ledger>>  BY <1>4 DEF LeaderExits, GroupExits
  <2>2. leader \in [Attempts -> {"none", "up", "down"}]  BY <1>0 DEF TypeInv
  <2>3. /\ leader' \in [Attempts -> {"none", "up", "down"}] /\ group' \subseteq group
        /\ \A b \in Attempts : leader'[b] = leader[b] \/ (leader[b] # "none" /\ leader'[b] = "down")
    BY <1>4, <2>2 DEF LeaderExits, GroupExits
  <2>4. RecordInv' /\ LedgerInv' /\ Progress  BY <1>0, <1>1, <2>1, <2>3, ProcessesEnd
  <2>5. TypeInv'  BY <1>0, <1>1, <2>1, <2>3 DEF TypeInv
  <2>6. QED  BY <1>2, <2>3, <2>4, <2>5
<1>5. QED  BY <1>3, <1>4, Zenon DEF World, Lapse, Regain

LEMMA CrashKeeps ==
  ASSUME IInv, UNCHANGED scenario, Crash
  PROVE  IInv'
<1>0. TypeInv /\ RecordInv /\ LedgerInv  BY DEF IInv
<1>1. /\ UNCHANGED <<epoch, launch, ledger, leader, group, faults>> /\ owned' = FALSE
      /\ handle' = {} /\ active' = {} /\ pending' = {} /\ inflight' = {}
      /\ stop' = [k \in Stoppers |-> NoStop] /\ dog' = [a \in Attempts |-> "none"]
      /\ task' = IdleTask
  BY DEF Crash, End
<1>2. \A b, i : Answered(b, i)' = Answered(b, i)  BY <1>1 DEF Answered
<1>3. RecordInv'  BY <1>0, <1>1, <1>2, Zenon DEF RecordInv, RecordOk
<1>4. LedgerInv'  BY <1>0, <1>1 DEF LedgerInv
<1>5. TypeInv'  BY <1>0, <1>1, Zenon DEF TypeInv
<1>6. StopInv'  BY <1>1 DEF StopInv, StopOk
<1>7. DogInv'  BY <1>1 DEF DogInv
<1>8. KnownInv'  BY <1>1 DEF KnownInv
<1>9. TaskInv'  BY <1>1, Zenon DEF TaskInv, TaskOk
<1>10. QED  BY <1>3, <1>4, <1>5, <1>6, <1>7, <1>8, <1>9 DEF IInv

-----------------------------------------------------------------------------
(* A spawn. *)

LEMMA SpawnMoves ==
  ASSUME TypeInv, RecordInv, LedgerInv, NEW a \in Attempts, leader[a] = "none",
         launch[a].state # "absent", Spawn(a), inflight' \subseteq inflight, a \notin inflight',
         UNCHANGED <<owned, epoch, launch, ledger, faults, pending>>
  PROVE  /\ RecordInv' /\ LedgerInv' /\ Progress
         /\ leader' \in [Attempts -> {"none", "up", "down"}] /\ group' \subseteq Attempts
         /\ leader'[a] = "up" /\ \A b \in Attempts : b # a => leader'[b] = leader[b]
<1>1. leader \in [Attempts -> {"none", "up", "down"}] /\ group \subseteq Attempts /\ faults \in Nat
  BY DEF TypeInv
<1>2. /\ leader' \in [Attempts -> {"none", "up", "down"}]
      /\ leader'[a] = "up" /\ \A b \in Attempts : b # a => leader'[b] = leader[b]
  BY <1>1 DEF Spawn
<1>3. group' \subseteq group \cup {a}  BY DEF Spawn
<1>4. \A b, i : Answered(b, i)' = Answered(b, i)  BY DEF Answered
<1>5. ASSUME NEW b \in Attempts PROVE RecordOk(b)'
  <2>1. RecordOk(b) /\ RecordOk(a)  BY DEF RecordInv
  <2>2. CASE b # a
    <3>1. b \in group' => b \in group  BY <1>3, <2>2, Zenon
    <3>2. leader'[b] = leader[b]  BY <1>2, <2>2
    <3>3. QED  BY <1>4, <2>1, <3>1, <3>2, Zenon DEF RecordOk
  <2>3. CASE b = a  BY <1>2, <1>4, <2>1, <2>3, Zenon DEF RecordOk
  <2>4. QED  BY <2>2, <2>3
<1>6. RecordInv'  BY <1>5, Zenon DEF RecordInv
<1>7. LedgerInv'  BY DEF LedgerInv
<1>8. Progress
  <2>1. \A b \in Attempts : leader[b] # "none" => leader'[b] = leader[b]  BY <1>2
  <2>2. \A b \in Attempts : b \in group' => b \in group \/ leader[b] = "none"  BY <1>3
  <2>3. faults' \in Nat /\ faults' >= faults  BY <1>1
  <2>4. QED  BY <2>1, <2>2, <2>3, SameTenure DEF Progress
<1>9. QED  BY <1>1, <1>2, <1>3, <1>6, <1>7, <1>8

LEMMA SpawnCompletesKeeps ==
  ASSUME IInv, UNCHANGED scenario, NEW a \in Attempts, SpawnCompletes(a)
  PROVE  IInv'
<1>0. TypeInv /\ RecordInv /\ LedgerInv /\ DogInv /\ KnownInv /\ TaskInv  BY DEF IInv
<1>1. /\ a \in inflight /\ Spawn(a) /\ inflight' \subseteq inflight /\ a \notin inflight'
      /\ UNCHANGED <<owned, epoch, launch, ledger, faults, pending>>
      /\ UNCHANGED <<stop, active, task, dog>>
      /\ handle' = handle \cup {a}
  BY DEF SpawnCompletes, Spawn
<1>2. leader[a] = "none" /\ launch[a].state # "absent" /\ a \in pending
  BY <1>0, <1>1 DEF RecordInv, RecordOk
<1>3. /\ RecordInv' /\ LedgerInv' /\ Progress
      /\ leader' \in [Attempts -> {"none", "up", "down"}] /\ group' \subseteq Attempts
      /\ leader'[a] = "up" /\ \A b \in Attempts : b # a => leader'[b] = leader[b]
  BY <1>0, <1>1, <1>2, SpawnMoves
<1>4. TypeInv'  BY <1>0, <1>1, <1>3 DEF TypeInv
<1>5. StopInv'  BY <1>1, <1>3, StopsStay
<1>6. DogInv'  BY <1>0, <1>1, <1>3, DogStays
<1>7. KnownInv'  BY <1>0, <1>1, <1>2, <1>3 DEF KnownInv, TypeInv
<1>8. TaskInv'
  <2>1. task.pc = "spawn" => task.a \in Attempts /\ task.a # a
    BY <1>0, <1>1, SpawnsOnce, Zenon
  <2>2. task.pc = "spawn" => leader'[task.a] = leader[task.a]  BY <1>3, <2>1
  <2>3. Answered(task.a, Att)' = Answered(task.a, Att)  BY <1>1, Zenon DEF Answered
  <2>4. QED  BY <1>0, <1>1, <1>3, <2>2, <2>3, TaskStays, Zenon
<1>9. QED  BY <1>3, <1>4, <1>5, <1>6, <1>7, <1>8 DEF IInv

-----------------------------------------------------------------------------
(* The holder of the launch lock: steps that leave records and processes     *)
(* alone.                                                                    *)

LEMMA QuietRecords ==
  ASSUME IInv, UNCHANGED <<owned, epoch, launch, ledger, leader, group, inflight>>,
         faults' \in {faults, faults + 1}, \A b \in Attempts : b \in inflight => b \in pending'
  PROVE  RecordInv' /\ LedgerInv' /\ Progress
<1>0. TypeInv /\ RecordInv /\ LedgerInv  BY DEF IInv
<1>1. faults > 0 => faults' > 0  BY <1>0 DEF TypeInv
<1>2. \A b, i : Answered(b, i)' = Answered(b, i)  BY DEF Answered
<1>3. RecordInv'  BY <1>0, <1>1, <1>2 DEF RecordInv, RecordOk
<1>4. LedgerInv'  BY <1>0 DEF LedgerInv
<1>5. QED  BY <1>0, <1>3, <1>4, StillProgress

\* Only what does not run leaves the cache and the registry.
LEMMA HolderQuiet ==
  ASSUME IInv, UNCHANGED <<scenario, owned, epoch, launch, ledger, leader, group, inflight, handle>>,
         faults' \in {faults, faults + 1}, active' \subseteq active, pending' \subseteq pending,
         \A b \in Attempts : b \in inflight => b \in pending',
         \A b \in active \cup pending : b \in active' \cup pending' \/ leader[b] # "up" \/ b \notin handle,
         DogInv', DOMAIN dog' = Attempts, StopInv', DOMAIN stop' = Stoppers, TaskInv'
  PROVE  IInv'
<1>0. TypeInv /\ KnownInv  BY DEF IInv
<1>1. RecordInv' /\ LedgerInv' /\ Progress  BY QuietRecords
<1>2. TypeInv'  BY <1>0, <1>1 DEF TypeInv, Progress
<1>3. KnownInv'  BY <1>0 DEF KnownInv
<1>4. QED  BY <1>1, <1>2, <1>3 DEF IInv

LEMMA DogsStay ==
  ASSUME IInv, Progress, UNCHANGED dog
  PROVE  DogInv' /\ DOMAIN dog' = Attempts
<1>1. DogInv /\ TypeInv  BY DEF IInv
<1>2. QED  BY <1>1, DogStays DEF TypeInv

\* The stop procedure of the holder starts or ends.
LEMMA HolderStops ==
  ASSUME IInv, Progress, NEW v, stop' = [stop EXCEPT ![Task] = v],
         v = NoStop \/ \E a \in Attempts : \E e, p : v = Stopping(a, e, p)
  PROVE  StopInv' /\ DOMAIN stop' = Stoppers /\ stop'[Task] = v
<1>0. TypeInv /\ StopInv /\ RecordInv  BY DEF IInv
<1>1. Task \notin Attempts /\ Task \in Stoppers /\ DOMAIN stop = Stoppers
  BY <1>0, Names DEF TypeInv
<1>2. stop'[Task] = v /\ \A j \in Stoppers : j # Task => stop'[j] = stop[j]  BY <1>1
<1>3. StopOk(Task)'
  <2>1. CASE v = NoStop  BY <1>2, <2>1 DEF StopOk
  <2>2. ASSUME NEW a \in Attempts, NEW e, NEW p, v = Stopping(a, e, p) PROVE StopOk(Task)'
    <3>1. v.pc = "begin" /\ v.a = a /\ DOMAIN v = {"pc", "a", "e", "path"}  BY <2>2, Zenon DEF Stopping
    <3>2. QED  BY <1>1, <1>2, <3>1 DEF StopOk
  <2>3. QED  BY <2>1, <2>2
<1>4. ASSUME NEW j \in Stoppers, j # Task PROVE StopOk(j)'  BY <1>0, <1>2, <1>4, StopStays
<1>5. QED  BY <1>1, <1>2, <1>3, <1>4 DEF StopInv

LEMMA CalledStop ==
  ASSUME NEW a, NEW e, NEW p
  PROVE  Stopping(a, e, p) # NoStop /\ Stopping(a, e, p).a = a
<1>1. Stopping(a, e, p).pc = "begin" /\ Stopping(a, e, p).a = a  BY DEF Stopping
<1>2. QED  BY <1>1 DEF NoStop

\* The fields that every phase of the holder has.
Fields == {"pc", "goal", "a", "todo", "s", "still", "cur", "out", "gone", "again"}

Shape(t) ==
  /\ DOMAIN t = Fields
  /\ t.goal \in {"launch", "shutdown", "end"}
  /\ t.goal # "shutdown" => t.a \in Attempts /\ t.a[1] <= epoch
  /\ t.todo \subseteq Attempts

LEMMA HasShape ==
  ASSUME TaskInv, task.pc # "idle"
  PROVE  Shape(task) /\ task # IdleTask
  BY DEF TaskInv, TaskOk, IdleTask, Shape, Fields

LEMMA ToDrain ==
  ASSUME NEW t, Shape(t)', t.again = FALSE, t.pc = "drain", t.todo \subseteq pending',
         t.goal = "launch" => pending' = t.todo
  PROVE  TaskOk(t)'
  BY Zenon DEF TaskOk, Shape, Fields, Draining, Launching

LEMMA ToRetire ==
  ASSUME NEW t, Shape(t)', t.again = FALSE, t.pc = "retire", t.goal # "end", t.todo \subseteq active',
         t.goal = "launch" => pending' = {} /\ active' = t.todo
  PROVE  TaskOk(t)'
  BY Zenon DEF TaskOk, Shape, Fields, Draining, Retiring, Launching

LEMMA Ends ==
  ASSUME task' = IdleTask
  PROVE  TaskInv'
  BY Zenon DEF TaskInv, TaskOk

LEMMA GiveUpDrains ==
  ASSUME TaskInv, task.pc \in Draining, NEW x, GiveUp(x), UNCHANGED <<epoch, pending>>
  PROVE  TaskInv'
<1>1. Shape(task) /\ task # IdleTask /\ task.again = FALSE  BY HasShape, Zenon DEF Draining, TaskInv, TaskOk
<1>2. CASE task.goal = "shutdown"
  <2>1. PICK t : t = [task EXCEPT !.pc = "drain", !.todo = @ \ {x}]  BY Zenon
  <2>2. task' = t  BY <1>2, <2>1 DEF GiveUp, Draining
  <2>3. /\ t.pc = "drain" /\ t.todo = task.todo \ {x} /\ t.goal = "shutdown" /\ t.again = FALSE
        /\ DOMAIN t = Fields
    BY <1>1, <1>2, <2>1 DEF Shape, Fields
  <2>4. Shape(t)'  BY <1>1, <2>3, Zenon DEF Shape
  <2>5. task.todo \subseteq pending
    BY <1>1, Zenon DEF TaskInv, TaskOk, Draining, Retiring, Launching
  <2>6. TaskOk(t)'  BY <2>3, <2>4, <2>5, ToDrain, Zenon
  <2>7. QED  BY <2>2, <2>6 DEF TaskInv
<1>3. CASE task.goal # "shutdown"  BY <1>3, Ends DEF GiveUp, End
<1>4. QED  BY <1>2, <1>3

LEMMA GiveUpRetires ==
  ASSUME TaskInv, task.pc \in Retiring, NEW x, GiveUp(x), UNCHANGED <<epoch, pending, active>>
  PROVE  TaskInv'
<1>1. Shape(task) /\ task # IdleTask /\ task.again = FALSE  BY HasShape, Zenon DEF Retiring, TaskInv, TaskOk
<1>2. CASE task.goal = "shutdown"
  <2>1. PICK t : t = [task EXCEPT !.pc = "retire", !.todo = @ \ {x}]  BY Zenon
  <2>2. task' = t  BY <1>2, <2>1, Zenon DEF GiveUp, Retiring
  <2>3. /\ t.pc = "retire" /\ t.todo = task.todo \ {x} /\ t.goal = "shutdown" /\ t.again = FALSE
        /\ DOMAIN t = Fields
    BY <1>1, <1>2, <2>1 DEF Shape, Fields
  <2>4. Shape(t)'  BY <1>1, <2>3 DEF Shape
  <2>5. task.todo \subseteq active
    BY <1>1, Zenon DEF TaskInv, TaskOk, Draining, Retiring, Launching
  <2>6. TaskOk(t)'  BY <2>3, <2>4, <2>5, ToRetire, Zenon
  <2>7. QED  BY <2>2, <2>6 DEF TaskInv
<1>3. CASE task.goal # "shutdown"  BY <1>3, Ends DEF GiveUp, End
<1>4. QED  BY <1>2, <1>3

\* The holder starts, with everything pending to be reconciled first.
LEMMA NewTaskOk ==
  ASSUME NEW goal \in {"launch", "shutdown", "end"}, NEW a, NEW todo, todo \subseteq Attempts,
         goal # "shutdown" => a \in Attempts /\ a[1] <= epoch', todo \subseteq pending',
         goal = "launch" => pending' = todo, task' = NewTask(goal, a, todo)
  PROVE  TaskInv'
<1>1. PICK t : t = NewTask(goal, a, todo)  BY Zenon
<1>2. /\ t.pc = "drain" /\ t.goal = goal /\ t.a = a /\ t.todo = todo /\ t.again = FALSE
      /\ DOMAIN t = Fields
  BY <1>1, Zenon DEF NewTask, Fields
<1>3. Shape(t)'  BY <1>2 DEF Shape
<1>4. TaskOk(t)'  BY <1>2, <1>3, ToDrain, Zenon
<1>5. QED  BY <1>1, <1>4 DEF TaskInv

\* The holder moves, and nothing else.
LEMMA OnlyTask ==
  ASSUME IInv, UNCHANGED <<scenario, launchVars, active, pending, others>>, TaskInv'
  PROVE  IInv'
<1>1. /\ UNCHANGED <<scenario, owned, epoch, launch, ledger, leader, group, inflight, handle>>
      /\ UNCHANGED <<active, pending, dog, stop, faults>>
  BY DEF launchVars, others
<1>2. TypeInv /\ RecordInv  BY DEF IInv
<1>3. \A b \in Attempts : b \in inflight => b \in pending'  BY <1>1, <1>2, Zenon DEF RecordInv, RecordOk
<1>4. Progress  BY <1>1, <1>3, QuietRecords
<1>5. DogInv' /\ DOMAIN dog' = Attempts  BY <1>1, <1>4, DogsStay
<1>6. StopInv' /\ DOMAIN stop' = Stoppers  BY <1>1, <1>2, <1>4, StopsStay DEF TypeInv
<1>7. QED  BY <1>1, <1>3, <1>5, <1>6, HolderQuiet, Zenon

LEMMA AskKeeps ==
  ASSUME IInv, UNCHANGED scenario, NEW c \in Configs, Ask(c)
  PROVE  IInv'
<1>0. TypeInv  BY DEF IInv
<1>1. UNCHANGED <<scenario, launchVars, active, pending, others>>  BY DEF Ask
<1>2. PICK a : a = <<epoch, c>>  BY Zenon
<1>3. a \in Attempts /\ a[1] = epoch /\ epoch \in Nat /\ epoch' = epoch
  BY <1>0, <1>1, <1>2, Names, LaunchAssumption DEF TypeInv, launchVars
<1>4. task' = NewTask("launch", a, pending)  BY <1>2 DEF Ask
<1>5. a[1] <= epoch'  BY <1>3
<1>6. pending \subseteq Attempts /\ pending' = pending  BY <1>0, <1>1 DEF TypeInv
<1>7. TaskInv'  BY <1>3, <1>4, <1>5, <1>6, NewTaskOk
<1>8. QED  BY <1>1, <1>7, OnlyTask

LEMMA ShutdownKeeps ==
  ASSUME IInv, UNCHANGED scenario, Shutdown
  PROVE  IInv'
<1>0. TypeInv  BY DEF IInv
<1>1. UNCHANGED <<scenario, launchVars, active, pending, others>>  BY DEF Shutdown
<1>2. pending \subseteq Attempts /\ pending' = pending  BY <1>0, <1>1 DEF TypeInv
<1>3. TaskInv'  BY <1>2, NewTaskOk DEF Shutdown
<1>4. QED  BY <1>1, <1>3, OnlyTask

\* A pending launch that is over leaves the registry.
LEMMA DrainedKeeps ==
  ASSUME IInv, UNCHANGED <<scenario, owned, epoch, launch, ledger, leader, group, inflight, handle>>,
         UNCHANGED dog, faults' \in {faults, faults + 1}, task.pc \in Draining,
         NEW p \in task.todo, Drained(p), leader[p] # "up", p \notin inflight,
         StopInv', DOMAIN stop' = Stoppers
  PROVE  IInv'
<1>0. TypeInv /\ TaskInv /\ KnownInv /\ RecordInv  BY DEF IInv
<1>1. Shape(task) /\ task # IdleTask /\ task.again = FALSE
  BY <1>0, HasShape, Zenon DEF Draining, TaskInv, TaskOk
<1>2. task.todo \subseteq pending /\ (task.goal = "launch" => pending = task.todo)
  BY <1>0, <1>1, Zenon DEF TaskInv, TaskOk, Draining, Retiring, Launching
<1>3. pending' = pending \ {p} /\ active' \subseteq active  BY DEF Drained
<1>4. \A b \in active \cup pending : b = p  BY <1>0, <1>2, Zenon DEF KnownInv
<1>5. \A b \in Attempts : b \in inflight => b \in pending'
  BY <1>0, <1>3, Zenon DEF RecordInv, RecordOk
<1>6. Progress  BY <1>5, QuietRecords
<1>7. DogInv' /\ DOMAIN dog' = Attempts  BY <1>6, DogsStay
<1>8. TaskInv'
  <2>1. PICK t : t = [task EXCEPT !.pc = "drain", !.todo = @ \ {p}]  BY Zenon
  <2>2. task' = t  BY <2>1 DEF Drained
  <2>3. /\ t.pc = "drain" /\ t.todo = task.todo \ {p} /\ t.goal = task.goal /\ t.a = task.a
        /\ t.again = FALSE /\ DOMAIN t = Fields
    BY <1>1, <2>1 DEF Shape, Fields
  <2>4. Shape(t)'  BY <1>1, <2>3 DEF Shape
  <2>5. TaskOk(t)'  BY <1>2, <1>3, <2>3, <2>4, ToDrain, Zenon
  <2>6. QED  BY <2>2, <2>5 DEF TaskInv
<1>9. QED  BY <1>3, <1>4, <1>5, <1>7, <1>8, HolderQuiet, Zenon

\* The holder writes a record or signals a process.
LEMMA HolderRecords ==
  ASSUME IInv, UNCHANGED <<scenario, owned, epoch, active, pending, dog, inflight>>,
         RecordInv', LedgerInv', Progress, TaskInv', StopInv', DOMAIN stop' = Stoppers,
         launch' \in [Attempts -> [state : States, rev : Nat, evidence : BOOLEAN]],
         leader' \in [Attempts -> {"none", "up", "down"}], group' \subseteq Attempts,
         handle' \subseteq handle, \A b \in Attempts : leader'[b] = "up" => leader[b] = "up"
  PROVE  IInv'
<1>0. TypeInv /\ KnownInv  BY DEF IInv
<1>1. DogInv' /\ DOMAIN dog' = Attempts  BY DogsStay
<1>2. KnownInv'  BY <1>0, KnownStays
<1>3. TypeInv'  BY <1>0, <1>1 DEF TypeInv, Progress
<1>4. QED  BY <1>1, <1>2, <1>3 DEF IInv

LEMMA DrainKeeps ==
  ASSUME IInv, UNCHANGED scenario, Drain
  PROVE  IInv'
<1>0. TypeInv /\ RecordInv /\ LedgerInv /\ TaskInv  BY DEF IInv
<1>1. task.pc = "drain" /\ task.pc \in Draining /\ UNCHANGED <<dog, inflight>>
  BY Zenon DEF Drain, others, Draining
<1>2. Shape(task) /\ task # IdleTask /\ task.again = FALSE
  BY <1>0, <1>1, HasShape, Zenon DEF TaskInv, TaskOk
<1>3. task.todo \subseteq pending /\ (task.goal = "launch" => pending = task.todo)
  BY <1>0, <1>1, <1>2, Zenon DEF TaskInv, TaskOk, Draining, Retiring, Launching
<1>4. PICK p \in task.todo :
        \/ NeverPrepared(p) /\ Drained(p) /\ UNCHANGED launchVars
        \/ ~NeverPrepared(p) /\ Reconcile(p)
        \/ /\ Failure /\ faults' = faults + 1
           /\ GiveUp(p)
           /\ UNCHANGED <<owned, epoch, launch, ledger, leader, group, handle, binding, stop, active,
                          pending>>
  BY Zenon DEF Drain
<1>5. p \in Attempts /\ RecordOk(p)  BY <1>0, <1>2 DEF Shape, RecordInv
<1>6. \A b \in Attempts : b \in inflight => b \in pending  BY <1>0, Zenon DEF RecordInv, RecordOk
<1>7. CASE Drained(p) /\ UNCHANGED launchVars /\ launch[p].state \in {"absent", "stopped"}
  <2>1. leader[p] # "up" /\ p \notin inflight  BY <1>5, <1>7 DEF RecordOk
  <2>2. /\ UNCHANGED <<scenario, owned, epoch, launch, ledger, leader, group, inflight, handle>>
        /\ UNCHANGED <<stop, faults>>
    BY <1>1, <1>7, Zenon DEF launchVars
  <2>3. Progress  BY <1>0, <2>2, StillProgress
  <2>4. StopInv' /\ DOMAIN stop' = Stoppers  BY <1>0, <2>2, <2>3, StopsStay DEF TypeInv
  <2>5. QED  BY <1>1, <1>7, <2>1, <2>2, <2>4, DrainedKeeps
<1>8. CASE /\ launch[p].state = "prepared"
           /\ \E m \in Mutations(p, p[1], <<"pending", "cleanup">>, "cleanup", launch[p].rev) : Commit(m)
           /\ GiveUp(p)
           /\ UNCHANGED <<owned, epoch, leader, group, handle, binding, stop, active, pending>>
  <2>1. PICK m \in Mutations(p, p[1], <<"pending", "cleanup">>, "cleanup", launch[p].rev) : Commit(m)
    BY <1>8
  <2>2. <<"pending", "cleanup">> # Prep /\ <<"pending", "cleanup">> # Att /\ Writes(m)
    BY <2>1, OtherIds, CommitWrites
  <2>3. UNCHANGED <<owned, epoch, leader, group, inflight, pending>>  BY <1>1, <1>8
  <2>4. /\ RecordInv' /\ LedgerInv' /\ Progress
        /\ launch' \in [Attempts -> [state : States, rev : Nat, evidence : BOOLEAN]]
    BY <1>0, <1>5, <2>1, <2>2, <2>3, RequestMoves, Zenon
  <2>5. StopInv' /\ DOMAIN stop' = Stoppers  BY <1>0, <1>8, <2>4, StopsStay, Zenon DEF TypeInv
  <2>6. TaskInv'  BY <1>0, <1>1, <1>8, GiveUpDrains, Zenon
  <2>7. leader' \in [Attempts -> {"none", "up", "down"}] /\ group' \subseteq Attempts
    BY <1>0, <1>8, Zenon DEF TypeInv
  <2>8. QED  BY <1>1, <1>8, <2>4, <2>5, <2>6, <2>7, HolderRecords
<1>9. CASE /\ CallStop(p, p[1], "pending")
           /\ task' = [task EXCEPT !.pc = "drainStop", !.s = p]
           /\ UNCHANGED <<owned, epoch, launch, ledger, leader, group, handle, binding, faults,
                          active, pending>>
  <2>1. UNCHANGED <<scenario, owned, epoch, launch, ledger, leader, group, inflight, handle>>
    BY <1>1, <1>9
  <2>2. Progress  BY <1>0, <1>9, StillProgress
  <2>3. PICK v : v = Stopping(p, p[1], "pending")  BY Zenon
  <2>4. StopInv' /\ DOMAIN stop' = Stoppers /\ stop'[Task] = v
    BY <1>5, <1>9, <2>2, <2>3, HolderStops, Zenon DEF CallStop
  <2>5. v # NoStop /\ v.a = p  BY <2>3, CalledStop
  <2>6. DogInv' /\ DOMAIN dog' = Attempts  BY <1>1, <2>2, DogsStay
  <2>7. TaskInv'
    <3>1. PICK t : t = [task EXCEPT !.pc = "drainStop", !.s = p]  BY Zenon
    <3>2. /\ t.pc = "drainStop" /\ t.s = p /\ t.todo = task.todo /\ t.goal = task.goal
          /\ t.a = task.a /\ t.again = FALSE /\ DOMAIN t = Fields
      BY <1>2, <3>1 DEF Shape, Fields
    <3>3. epoch' = epoch /\ pending' = pending  BY <1>9
    <3>4. TaskOk(t)'
      BY <1>2, <1>3, <2>4, <2>5, <3>2, <3>3, Zenon DEF TaskOk, Shape, Fields, Draining, Launching
    <3>5. QED  BY <1>9, <3>1, <3>4 DEF TaskInv
  <2>8. QED  BY <1>6, <1>9, <2>1, <2>4, <2>6, <2>7, HolderQuiet
<1>10. CASE /\ faults' = faults + 1 /\ GiveUp(p)
            /\ UNCHANGED <<owned, epoch, launch, ledger, leader, group, handle, binding, stop,
                           active, pending>>
  <2>1. UNCHANGED <<scenario, owned, epoch, launch, ledger, leader, group, inflight, handle>>
    BY <1>1, <1>10, Zenon
  <2>2. Progress  BY <1>0, <1>10, StillProgress
  <2>3. StopInv' /\ DOMAIN stop' = Stoppers  BY <1>0, <1>10, <2>2, StopsStay, Zenon DEF TypeInv
  <2>4. DogInv' /\ DOMAIN dog' = Attempts  BY <1>1, <2>2, DogsStay
  <2>5. TaskInv'  BY <1>0, <1>1, <1>10, GiveUpDrains
  <2>6. QED  BY <1>6, <1>10, <2>1, <2>3, <2>4, <2>5, HolderQuiet, Zenon
<1>11. QED  BY <1>4, <1>7, <1>8, <1>9, <1>10 DEF NeverPrepared, Reconcile

LEMMA DrainStoppedKeeps ==
  ASSUME IInv, UNCHANGED scenario, DrainStopped
  PROVE  IInv'
<1>0. TypeInv /\ RecordInv /\ StopInv /\ TaskInv  BY DEF IInv
<1>1. /\ task.pc = "drainStop" /\ task.pc \in Draining /\ UNCHANGED dog
      /\ UNCHANGED <<scenario, owned, epoch, launch, ledger, leader, group, inflight, handle>>
      /\ faults' = faults /\ stop[Task].pc = "done" /\ stop' = [stop EXCEPT ![Task] = NoStop]
  BY DEF DrainStopped, StopReturned, others, Draining
<1>2. Shape(task) /\ task # IdleTask  BY <1>0, <1>1, HasShape
<1>3. task.s \in task.todo /\ task.s \in Attempts /\ stop[Task] # NoStop /\ stop[Task].a = task.s
  BY <1>0, <1>1, <1>2, Zenon DEF TaskInv, TaskOk, Shape
<1>4. Progress  BY <1>0, <1>1, StillProgress
<1>5. StopInv' /\ DOMAIN stop' = Stoppers  BY <1>1, <1>4, HolderStops, Zenon
<1>6. DogInv' /\ DOMAIN dog' = Attempts  BY <1>1, <1>4, DogsStay
<1>7. CASE Stopped /\ Drained(task.s)
  <2>1. launch[task.s].state = "stopped"
    BY <1>0, <1>1, <1>3, <1>7, Names, Zenon DEF StopInv, StopOk, Stopped
  <2>2. leader[task.s] # "up" /\ task.s \notin inflight
    BY <1>0, <1>3, <2>1, Zenon DEF RecordInv, RecordOk
  <2>3. PICK p \in task.todo : p = task.s  BY <1>3, Zenon
  <2>4. QED  BY <1>1, <1>5, <1>7, <2>2, <2>3, DrainedKeeps
<1>8. CASE GiveUp(task.s) /\ UNCHANGED <<active, pending>>
  <2>1. \A b \in Attempts : b \in inflight => b \in pending  BY <1>0, Zenon DEF RecordInv, RecordOk
  <2>2. TaskInv'  BY <1>0, <1>1, <1>8, GiveUpDrains
  <2>3. QED  BY <1>1, <1>5, <1>6, <1>8, <2>1, <2>2, HolderQuiet, Zenon
<1>9. QED  BY <1>7, <1>8 DEF DrainStopped

LEMMA DrainDoneKeeps ==
  ASSUME IInv, UNCHANGED scenario, DrainDone
  PROVE  IInv'
<1>0. TypeInv /\ RecordInv /\ TaskInv  BY DEF IInv
<1>1. task.pc = "drain" /\ task.pc \in Draining /\ task.todo = {} /\ UNCHANGED <<active, pending, others>>
  BY DEF DrainDone, Draining
<1>2. Shape(task) /\ task # IdleTask /\ task.again = FALSE
  BY <1>0, <1>1, HasShape, Zenon DEF TaskInv, TaskOk
<1>3. task.goal = "launch" => pending = {}
  BY <1>0, <1>1, <1>2, Zenon DEF TaskInv, TaskOk, Draining, Retiring, Launching
<1>4. CASE Retires(active) /\ UNCHANGED launchVars /\ task.goal # "end"
  <2>1. PICK t : t = [task EXCEPT !.pc = "retire", !.todo = active]  BY Zenon
  <2>2. /\ t.pc = "retire" /\ t.todo = active /\ t.goal = task.goal /\ t.a = task.a
        /\ t.again = FALSE /\ DOMAIN t = Fields
    BY <1>2, <2>1 DEF Shape, Fields
  <2>3. epoch' = epoch /\ active' = active /\ pending' = pending /\ active \subseteq Attempts
    BY <1>0, <1>1, <1>4 DEF launchVars, TypeInv
  <2>4. Shape(t)'  BY <1>2, <2>2, <2>3 DEF Shape
  <2>5. TaskOk(t)'  BY <1>3, <1>4, <2>2, <2>3, <2>4, ToRetire, Zenon
  <2>6. TaskInv'  BY <1>4, <2>1, <2>5 DEF Retires, TaskInv
  <2>7. QED  BY <1>1, <1>4, <2>6, OnlyTask
<1>5. CASE End /\ UNCHANGED launchVars
  <2>1. TaskInv'  BY <1>5, Ends DEF End
  <2>2. QED  BY <1>1, <1>5, <2>1, OnlyTask
<1>6. CASE /\ faults' = faults + 1 /\ End
           /\ UNCHANGED <<owned, epoch, launch, ledger, leader, group, handle, binding, stop>>
  <2>1. /\ UNCHANGED <<scenario, owned, epoch, launch, ledger, leader, group, inflight, handle>>
        /\ UNCHANGED <<active, pending, dog>>
    BY <1>1, <1>6, Zenon DEF others
  <2>2. Progress  BY <1>0, <1>6, StillProgress
  <2>3. StopInv' /\ DOMAIN stop' = Stoppers  BY <1>0, <1>6, <2>2, StopsStay DEF TypeInv
  <2>4. DogInv' /\ DOMAIN dog' = Attempts  BY <2>1, <2>2, DogsStay
  <2>5. TaskInv'  BY <1>6, Ends DEF End
  <2>6. \A b \in Attempts : b \in inflight => b \in pending  BY <1>0 DEF RecordInv, RecordOk
  <2>7. QED  BY <1>6, <2>1, <2>3, <2>4, <2>5, <2>6, HolderQuiet
<1>7. QED  BY <1>4, <1>5, <1>6 DEF DrainDone, Inventory
=============================================================================
