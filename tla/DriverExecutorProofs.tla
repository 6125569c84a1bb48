----------------------- MODULE DriverExecutorProofs -----------------------
(***************************************************************************)
(* Theorems about DriverExecutor for every set of configurations, every    *)
(* number of tenures and every budget of faults, drops and crashes: a      *)
(* record that says stopped has no process left, and a host runs one       *)
(* driver at a time.  The invariant is in DriverExecutorLemmas; here the   *)
(* holder of the launch lock retires and launches, and the steps are put   *)
(* together.                                                               *)
(***************************************************************************)
EXTENDS DriverExecutorLemmas

\* A leaf is tried with SMT, with Zenon, and then with SMT and more time.
USE SMT, Zenon, SMTT(10), SMTT(20), SMTT(30)

-----------------------------------------------------------------------------
(* The holder retires what the cache holds. *)

\* The drivers to retire are in the cache, so their launches are identified.
LEMMA RetireFacts ==
  ASSUME IInv, task.pc \in Retiring
  PROVE  /\ Shape(task) /\ task # IdleTask /\ task.again = FALSE /\ task.goal # "end"
         /\ task.todo \subseteq active /\ active \subseteq Attempts
         /\ task.goal = "launch" => pending = {} /\ active = task.todo
         /\ \A s \in active : launch[s].evidence /\ RecordOk(s)
         /\ \A b \in Attempts : b \in inflight => b \in pending
         /\ task.pc # "retire" => task.s \in task.todo
<1>0. TypeInv /\ RecordInv /\ TaskInv /\ KnownInv  BY DEF IInv
<1>1. Shape(task) /\ task # IdleTask /\ task.again = FALSE
  BY <1>0, HasShape, Zenon DEF Retiring, TaskInv, TaskOk
<1>2. /\ task.goal # "end" /\ task.todo \subseteq active
      /\ task.goal = "launch" => pending = {} /\ active = task.todo
      /\ task.pc # "retire" => task.s \in task.todo
  BY <1>0, <1>1, Zenon DEF TaskInv, TaskOk, Draining, Retiring, Launching
<1>3. active \subseteq Attempts /\ \A s \in active : launch[s].evidence /\ RecordOk(s)
  BY <1>0 DEF TypeInv, KnownInv, RecordInv
<1>4. \A b \in Attempts : b \in inflight => b \in pending  BY <1>0, Zenon DEF RecordInv, RecordOk
<1>5. QED  BY <1>1, <1>2, <1>3, <1>4

\* The holder waits for the watchdog of s, or decides what to do with s.
LEMMA ToDecide ==
  ASSUME NEW t, Shape(t)', t.again = FALSE, t.pc \in {"await", "decide"}, t.goal # "end",
         t.todo \subseteq active', t.goal = "launch" => pending' = {} /\ active' = t.todo,
         t.s \in t.todo, t.pc = "decide" /\ t.out = "stopped" => launch'[t.s].state = "stopped"
  PROVE  TaskOk(t)'
  BY Zenon DEF TaskOk, Shape, Fields, Draining, Retiring, Launching

\* The watchdog of s is taken away.
LEMMA DogAborted ==
  ASSUME IInv, Progress, NEW s \in Attempts, launch[s].evidence,
         dog' = [dog EXCEPT ![s] = IF @ \in Finished THEN @ ELSE "aborted"]
  PROVE  DogInv' /\ DOMAIN dog' = Attempts
<1>0. DogInv /\ DOMAIN dog = Attempts  BY DEF IInv, TypeInv
<1>1. DOMAIN dog' = Attempts /\ \A b \in Attempts : b # s => dog'[b] = dog[b]  BY <1>0
<1>2. dog'[s] = dog[s] \/ dog'[s] = "aborted"  BY <1>0
<1>3. launch'[s].evidence  BY DEF Progress
<1>4. (dog'[s] = "stopped") => launch'[s].state = "stopped"  BY <1>0, <1>2 DEF DogInv, Progress
<1>5. QED  BY <1>0, <1>1, <1>3, <1>4 DEF DogInv, Progress

LEMMA RetireKeeps ==
  ASSUME IInv, UNCHANGED scenario, Retire
  PROVE  IInv'
<1>0. TypeInv /\ DogInv  BY DEF IInv
<1>1. /\ task.pc = "retire" /\ task.pc \in Retiring /\ faults' = faults
      /\ UNCHANGED <<scenario, owned, epoch, launch, ledger, leader, group, inflight, handle>>
      /\ UNCHANGED <<active, pending>>
  BY DEF Retire, Retiring
<1>2. /\ Shape(task) /\ task.again = FALSE /\ task.goal # "end"
      /\ task.todo \subseteq active /\ active \subseteq Attempts
      /\ task.goal = "launch" => pending = {} /\ active = task.todo
      /\ \A s \in active : launch[s].evidence
      /\ \A b \in Attempts : b \in inflight => b \in pending
  BY <1>1, RetireFacts, Zenon
<1>3. PICK s \in task.todo :
        LET still == Authority(s[1])
            t == [task EXCEPT !.s = s, !.still = still, !.cur = IF owned THEN epoch ELSE 0]
        IN
        IF s \notin kept
        THEN task' = [t EXCEPT !.pc = "decide", !.out = "none"] /\ UNCHANGED <<dog, stop>>
        ELSE IF ~still
        THEN task' = [t EXCEPT !.pc = "await"] /\ UNCHANGED <<dog, stop>>
        ELSE /\ task' = [t EXCEPT !.pc = "decide", !.out = dog[s]]
             /\ dog' = [dog EXCEPT ![s] = IF @ \in Finished THEN @ ELSE "aborted"]
             /\ stop' = [stop EXCEPT ![s] = NoStop]
  BY Zenon DEF Retire
<1>4. PICK u : u = [task EXCEPT !.s = s, !.still = Authority(s[1]), !.cur = IF owned THEN epoch ELSE 0]
  BY Zenon
<1>5. /\ u.s = s /\ u.todo = task.todo /\ u.goal = task.goal /\ u.a = task.a
      /\ u.again = FALSE /\ DOMAIN u = Fields
  BY <1>2, <1>4 DEF Shape, Fields
<1>6. s \in Attempts /\ launch[s].evidence  BY <1>2
<1>7. Progress  BY <1>0, <1>1, StillProgress
<1>8. ASSUME NEW t, task' = t, DOMAIN t = Fields, t.pc \in {"await", "decide"}, t.s = u.s,
             t.todo = u.todo, t.goal = u.goal, t.a = u.a, t.again = u.again,
             t.pc = "decide" /\ t.out = "stopped" => launch[s].state = "stopped"
      PROVE  TaskInv'
  <2>1. Shape(t)'  BY <1>1, <1>2, <1>5, <1>8 DEF Shape
  <2>2. TaskOk(t)'  BY <1>1, <1>2, <1>5, <1>8, <2>1, ToDecide, Zenon
  <2>3. QED  BY <1>8, <2>2, Zenon DEF TaskInv
<1>9. ASSUME TaskInv', DogInv', DOMAIN dog' = Attempts, StopInv', DOMAIN stop' = Stoppers
      PROVE  IInv'
  BY <1>1, <1>2, <1>9, HolderQuiet, Zenon
<1>10. CASE task' = [u EXCEPT !.pc = "decide", !.out = "none"] /\ UNCHANGED <<dog, stop>>
  <2>1. PICK t : t = [u EXCEPT !.pc = "decide", !.out = "none"]  BY Zenon
  <2>2. /\ DOMAIN t = Fields /\ t.pc = "decide" /\ t.out = "none" /\ t.s = u.s /\ t.todo = u.todo
        /\ t.goal = u.goal /\ t.a = u.a /\ t.again = u.again
    BY <1>5, <2>1 DEF Fields
  <2>3. TaskInv'  BY <1>8, <1>10, <2>1, <2>2, Zenon
  <2>4. DogInv' /\ DOMAIN dog' = Attempts /\ StopInv' /\ DOMAIN stop' = Stoppers
    BY <1>0, <1>7, <1>10, DogsStay, StopsStay DEF TypeInv
  <2>5. QED  BY <1>9, <2>3, <2>4
<1>11. CASE task' = [u EXCEPT !.pc = "await"] /\ UNCHANGED <<dog, stop>>
  <2>1. PICK t : t = [u EXCEPT !.pc = "await"]  BY Zenon
  <2>2. /\ DOMAIN t = Fields /\ t.pc = "await" /\ t.s = u.s /\ t.todo = u.todo
        /\ t.goal = u.goal /\ t.a = u.a /\ t.again = u.again
    BY <1>5, <2>1 DEF Fields
  <2>3. TaskInv'  BY <1>8, <1>11, <2>1, <2>2, Zenon
  <2>4. DogInv' /\ DOMAIN dog' = Attempts /\ StopInv' /\ DOMAIN stop' = Stoppers
    BY <1>0, <1>7, <1>11, DogsStay, StopsStay DEF TypeInv
  <2>5. QED  BY <1>9, <2>3, <2>4
<1>12. CASE /\ task' = [u EXCEPT !.pc = "decide", !.out = dog[s]]
            /\ dog' = [dog EXCEPT ![s] = IF @ \in Finished THEN @ ELSE "aborted"]
            /\ stop' = [stop EXCEPT ![s] = NoStop]
  <2>1. PICK t : t = [u EXCEPT !.pc = "decide", !.out = dog[s]]  BY Zenon
  <2>2. /\ DOMAIN t = Fields /\ t.pc = "decide" /\ t.out = dog[s] /\ t.s = u.s /\ t.todo = u.todo
        /\ t.goal = u.goal /\ t.a = u.a /\ t.again = u.again
    BY <1>5, <2>1 DEF Fields
  <2>3. dog[s] = "stopped" => launch[s].state = "stopped"  BY <1>0, <1>6 DEF DogInv
  <2>4. TaskInv'  BY <1>8, <1>12, <2>1, <2>2, <2>3, Zenon
  <2>5. DogInv' /\ DOMAIN dog' = Attempts  BY <1>6, <1>7, <1>12, DogAborted, Zenon
  <2>6. StopInv' /\ DOMAIN stop' = Stoppers  BY <1>6, <1>7, <1>12, DogStopChanges, Zenon
  <2>7. QED  BY <1>9, <2>4, <2>5, <2>6
<1>13. QED  BY <1>3, <1>4, <1>10, <1>11, <1>12

LEMMA AwaitKeeps ==
  ASSUME IInv, UNCHANGED scenario, Await
  PROVE  IInv'
<1>0. TypeInv /\ DogInv  BY DEF IInv
<1>1. /\ task.pc = "await" /\ task.pc \in Retiring
      /\ UNCHANGED <<scenario, owned, epoch, launch, ledger, leader, group, inflight, handle>>
      /\ UNCHANGED <<active, pending>> /\ faults' \in {faults, faults + 1}
  BY DEF Await, Retiring
<1>2. /\ Shape(task) /\ task.again = FALSE /\ task.goal # "end"
      /\ task.todo \subseteq active /\ active \subseteq Attempts
      /\ task.goal = "launch" => pending = {} /\ active = task.todo
      /\ \A s \in active : launch[s].evidence
      /\ \A b \in Attempts : b \in inflight => b \in pending
      /\ task.s \in task.todo
  BY <1>1, RetireFacts, Zenon
<1>3. PICK s \in Attempts : s = task.s /\ launch[s].evidence  BY <1>2
<1>4. Progress  BY <1>0, <1>1, StillProgress
<1>5. ASSUME NEW o, task' = [task EXCEPT !.pc = "decide", !.out = o],
             o = "stopped" => launch[s].state = "stopped"
      PROVE  TaskInv'
  <2>1. PICK t : t = [task EXCEPT !.pc = "decide", !.out = o]  BY Zenon
  <2>2. /\ DOMAIN t = Fields /\ t.pc = "decide" /\ t.out = o /\ t.s = s /\ t.todo = task.todo
        /\ t.goal = task.goal /\ t.a = task.a /\ t.again = FALSE
    BY <1>2, <1>3, <2>1 DEF Shape, Fields
  <2>3. Shape(t)'  BY <1>1, <1>2, <2>2 DEF Shape
  <2>4. TaskOk(t)'  BY <1>1, <1>2, <1>3, <1>5, <2>2, <2>3, ToDecide, Zenon
  <2>5. QED  BY <1>5, <2>1, <2>4 DEF TaskInv
<1>6. ASSUME TaskInv', DogInv', DOMAIN dog' = Attempts, StopInv', DOMAIN stop' = Stoppers
      PROVE  IInv'
  BY <1>1, <1>2, <1>6, HolderQuiet
<1>7. CASE task' = [task EXCEPT !.pc = "decide", !.out = dog[s]] /\ UNCHANGED <<dog, stop>>
  <2>1. dog[s] = "stopped" => launch[s].state = "stopped"  BY <1>0 DEF DogInv
  <2>2. TaskInv'  BY <1>5, <1>7, <2>1, Zenon
  <2>3. DogInv' /\ DOMAIN dog' = Attempts /\ StopInv' /\ DOMAIN stop' = Stoppers
    BY <1>0, <1>4, <1>7, DogsStay, StopsStay DEF TypeInv
  <2>4. QED  BY <1>6, <2>2, <2>3
<1>8. CASE /\ task' = [task EXCEPT !.pc = "decide", !.out = "none"]
           /\ dog' = [dog EXCEPT ![s] = "aborted"] /\ dog[s] \notin Finished
           /\ stop' = [stop EXCEPT ![s] = NoStop]
  <2>1. TaskInv'  BY <1>5, <1>8, Zenon
  <2>2. dog' = [dog EXCEPT ![s] = IF @ \in Finished THEN @ ELSE "aborted"]  BY <1>8
  <2>3. DogInv' /\ DOMAIN dog' = Attempts  BY <1>3, <1>4, <2>2, DogAborted, Zenon
  <2>4. StopInv' /\ DOMAIN stop' = Stoppers  BY <1>4, <1>8, DogStopChanges, Zenon
  <2>5. QED  BY <1>6, <2>1, <2>3, <2>4
<1>9. QED  BY <1>3, <1>7, <1>8 DEF Await

\* A driver that is over leaves the cache.
LEMMA RetiredKeeps ==
  ASSUME IInv, UNCHANGED <<scenario, owned, epoch, launch, ledger, leader, group, inflight, handle>>,
         UNCHANGED <<dog, pending>>, faults' \in {faults, faults + 1}, task.pc \in Retiring,
         NEW s \in task.todo, Retired(s), leader[s] # "up" \/ s \notin handle,
         StopInv', DOMAIN stop' = Stoppers
  PROVE  IInv'
<1>0. TypeInv  BY DEF IInv
<1>1. /\ Shape(task) /\ task.again = FALSE /\ task.goal # "end"
      /\ task.todo \subseteq active /\ active \subseteq Attempts
      /\ task.goal = "launch" => pending = {} /\ active = task.todo
      /\ \A b \in Attempts : b \in inflight => b \in pending
  BY RetireFacts, Zenon
<1>2. active' = active \ {s}  BY DEF Retired
<1>3. Progress  BY <1>0, StillProgress
<1>4. DogInv' /\ DOMAIN dog' = Attempts  BY <1>3, DogsStay
<1>5. TaskInv'
  <2>1. PICK t : t = [task EXCEPT !.pc = "retire", !.todo = @ \ {s}]  BY Zenon
  <2>2. /\ t.pc = "retire" /\ t.todo = task.todo \ {s} /\ t.goal = task.goal /\ t.a = task.a
        /\ t.again = FALSE /\ DOMAIN t = Fields
    BY <1>1, <2>1 DEF Shape, Fields
  <2>3. Shape(t)'  BY <1>1, <2>2 DEF Shape
  <2>4. TaskOk(t)'  BY <1>1, <1>2, <2>2, <2>3, ToRetire, Zenon
  <2>5. QED  BY <2>1, <2>4 DEF TaskInv, Retired
<1>6. QED  BY <1>1, <1>2, <1>4, <1>5, HolderQuiet, Zenon

LEMMA DecideKeeps ==
  ASSUME IInv, UNCHANGED scenario, Decide
  PROVE  IInv'
<1>0. TypeInv /\ TaskInv  BY DEF IInv
<1>1. /\ task.pc = "decide" /\ task.pc \in Retiring
      /\ UNCHANGED <<scenario, owned, epoch, launch, ledger, leader, group, inflight, handle>>
      /\ UNCHANGED <<dog, pending>> /\ faults' \in {faults, faults + 1}
  BY Zenon DEF Decide, Retiring, others
<1>2. /\ Shape(task) /\ task # IdleTask /\ task.again = FALSE /\ task.goal # "end"
      /\ task.todo \subseteq active /\ active \subseteq Attempts
      /\ task.goal = "launch" => pending = {} /\ active = task.todo
      /\ \A s \in active : launch[s].evidence /\ RecordOk(s)
      /\ \A b \in Attempts : b \in inflight => b \in pending
      /\ task.s \in task.todo
  BY <1>1, RetireFacts, Zenon
<1>3. PICK s \in task.todo : s = task.s /\ s \in Attempts /\ launch[s].evidence /\ RecordOk(s)
  BY <1>2
<1>4. Progress  BY <1>0, <1>1, StillProgress
<1>5. DogInv' /\ DOMAIN dog' = Attempts  BY <1>1, <1>4, DogsStay
<1>6. CASE GiveUp(s) /\ UNCHANGED <<stop, active>>
  <2>1. TaskInv'  BY <1>0, <1>1, <1>6, GiveUpRetires, Zenon
  <2>2. StopInv' /\ DOMAIN stop' = Stoppers  BY <1>0, <1>4, <1>6, StopsStay DEF TypeInv
  <2>3. QED  BY <1>1, <1>2, <1>5, <1>6, <2>1, <2>2, HolderQuiet
<1>7. CASE /\ \/ task.out = "stopped"
              \/ launch[s].state = "stopped"
              \/ IdentityGone(s)
           /\ Retired(s) /\ UNCHANGED stop
  <2>1. task.out = "stopped" => launch[s].state = "stopped"
    BY <1>0, <1>1, <1>2, <1>3, Zenon DEF TaskInv, TaskOk
  <2>2. launch[s].state = "stopped" => leader[s] # "up"  BY <1>3, Zenon DEF RecordOk
  <2>3. IdentityGone(s) => leader[s] # "up" \/ s \notin handle
    <3>1. CASE launch[s].state = "stopped"  BY <2>2, <3>1
    <3>2. CASE launch[s].state # "stopped"
      <4>1. Observed(s) = IF s \notin handle THEN "different"
                          ELSE IF leader[s] = "down" THEN "absent" ELSE "same"
        BY <1>3, <3>2 DEF Observed
      <4>2. QED  BY <4>1 DEF IdentityGone
    <3>3. QED  BY <3>1, <3>2
  <2>4. StopInv' /\ DOMAIN stop' = Stoppers  BY <1>0, <1>4, <1>7, StopsStay DEF TypeInv
  <2>5. leader[s] # "up" \/ s \notin handle  BY <1>7, <2>1, <2>2, <2>3
  <2>6. QED  BY <1>1, <1>7, <2>4, <2>5, RetiredKeeps
<1>8. CASE CallStop(s, s[1], "shutdown") /\ Go("retireStop") /\ UNCHANGED active
  <2>1. PICK v : v = Stopping(s, s[1], "shutdown")  BY Zenon
  <2>2. StopInv' /\ DOMAIN stop' = Stoppers /\ stop'[Task] = v
    BY <1>3, <1>4, <1>8, <2>1, HolderStops, Zenon DEF CallStop
  <2>3. v # NoStop /\ v.a = s  BY <2>1, CalledStop
  <2>4. TaskInv'
    <3>1. PICK t : t = [task EXCEPT !.pc = "retireStop"]  BY Zenon
    <3>2. /\ t.pc = "retireStop" /\ t.s = s /\ t.todo = task.todo /\ t.goal = task.goal
          /\ t.a = task.a /\ t.again = FALSE /\ DOMAIN t = Fields
      BY <1>2, <1>3, <3>1 DEF Shape, Fields
    <3>3. epoch' = epoch /\ pending' = pending /\ active' = active  BY <1>1, <1>8
    <3>4. Shape(t)'  BY <1>2, <3>2, <3>3 DEF Shape
    <3>5. TaskOk(t)'
      BY <1>2, <2>2, <2>3, <3>2, <3>3, <3>4, Zenon DEF TaskOk, Shape, Fields, Draining, Retiring, Launching
    <3>6. QED  BY <1>8, <3>1, <3>5 DEF TaskInv, Go
  <2>5. QED  BY <1>1, <1>2, <1>5, <1>8, <2>2, <2>4, HolderQuiet
<1>9. QED  BY <1>3, <1>6, <1>7, <1>8, Zenon DEF Decide

LEMMA RetireStoppedKeeps ==
  ASSUME IInv, UNCHANGED scenario, RetireStopped
  PROVE  IInv'
<1>0. TypeInv /\ RecordInv /\ StopInv /\ TaskInv  BY DEF IInv
<1>1. /\ task.pc = "retireStop" /\ task.pc \in Retiring /\ UNCHANGED <<dog, pending>>
      /\ UNCHANGED <<scenario, owned, epoch, launch, ledger, leader, group, inflight, handle>>
      /\ faults' = faults /\ stop[Task].pc = "done" /\ stop' = [stop EXCEPT ![Task] = NoStop]
  BY DEF RetireStopped, StopReturned, others, Retiring
<1>2. /\ Shape(task) /\ task # IdleTask
      /\ task.todo \subseteq active /\ active \subseteq Attempts
      /\ \A b \in Attempts : b \in inflight => b \in pending
      /\ task.s \in task.todo
  BY <1>1, RetireFacts
<1>3. stop[Task] # NoStop /\ stop[Task].a = task.s  BY <1>0, <1>1, <1>2, Zenon DEF TaskInv, TaskOk
<1>4. Progress  BY <1>0, <1>1, StillProgress
<1>5. StopInv' /\ DOMAIN stop' = Stoppers  BY <1>1, <1>4, HolderStops, Zenon
<1>6. DogInv' /\ DOMAIN dog' = Attempts  BY <1>1, <1>4, DogsStay
<1>7. CASE Stopped /\ Retired(task.s)
  <2>1. launch[task.s].state = "stopped"
    BY <1>0, <1>1, <1>3, <1>7, Names DEF StopInv, StopOk, Stopped
  <2>2. leader[task.s] # "up"  BY <1>0, <1>2, <2>1, Zenon DEF RecordInv, RecordOk
  <2>3. PICK s \in task.todo : s = task.s  BY <1>2
  <2>4. QED  BY <1>1, <1>5, <1>7, <2>2, <2>3, RetiredKeeps
<1>8. CASE GiveUp(task.s) /\ UNCHANGED active
  <2>1. TaskInv'  BY <1>0, <1>1, <1>8, GiveUpRetires
  <2>2. QED  BY <1>1, <1>2, <1>5, <1>6, <1>8, <2>1, HolderQuiet, Zenon
<1>9. QED  BY <1>7, <1>8 DEF RetireStopped

-----------------------------------------------------------------------------
(* The holder launches. *)

LEMMA LaunchFacts ==
  ASSUME IInv, task.pc \in Launching
  PROVE  /\ Shape(task) /\ task # IdleTask /\ task.goal = "launch" /\ task.a \in Attempts
         /\ pending = {task.a} /\ active = {} /\ RecordOk(task.a)
         /\ \A b \in Attempts : b \in inflight => b \in pending
<1>0. TypeInv /\ RecordInv /\ TaskInv  BY DEF IInv
<1>1. Shape(task) /\ task # IdleTask  BY <1>0, HasShape DEF Launching
<1>2. task.goal = "launch" /\ pending = {task.a} /\ active = {}
  BY <1>0, <1>1, Zenon DEF TaskInv, TaskOk, Draining, Retiring, Launching
<1>3. task.a \in Attempts  BY <1>1, <1>2 DEF Shape
<1>4. QED  BY <1>0, <1>1, <1>2, <1>3, Zenon DEF RecordInv, RecordOk

LEMMA RetireDoneKeeps ==
  ASSUME IInv, UNCHANGED scenario, RetireDone
  PROVE  IInv'
<1>0. TypeInv /\ RecordInv /\ LedgerInv /\ KnownInv  BY DEF IInv
<1>1. task.pc = "retire" /\ task.pc \in Retiring /\ task.todo = {} /\ UNCHANGED <<launchVars, active, others>>
  BY DEF RetireDone, Retiring
<1>2. CASE End /\ UNCHANGED pending
  <2>1. TaskInv'  BY <1>2, Ends DEF End
  <2>2. QED  BY <1>1, <1>2, <2>1, OnlyTask
<1>3. CASE task.goal = "launch" /\ pending' = pending \cup {task.a} /\ Go("prepare")
  <2>1. /\ Shape(task) /\ task.again = FALSE /\ pending = {} /\ active = {}
    BY <1>1, <1>3, RetireFacts, Zenon
  <2>2. task.a \in Attempts  BY <1>3, <2>1, Zenon DEF Shape
  <2>3. /\ UNCHANGED <<owned, epoch, launch, ledger, leader, group, handle, inflight, faults>>
        /\ UNCHANGED <<dog, stop, scenario>> /\ pending' = {task.a} /\ active' = {}
    BY <1>1, <1>3, <2>1 DEF launchVars, others
  <2>4. \A b \in Attempts : b \in inflight => b \in pending'
    BY <1>0, <2>1, Zenon DEF RecordInv, RecordOk
  <2>5. RecordInv' /\ LedgerInv' /\ Progress  BY <2>3, <2>4, QuietRecords
  <2>6. TypeInv'  BY <1>0, <2>2, <2>3 DEF TypeInv
  <2>7. KnownInv'  BY <1>0, <2>1, <2>3 DEF KnownInv
  <2>8. DogInv' /\ StopInv'  BY <2>3, <2>5, DogsStay, StopsStay
  <2>9. TaskInv'
    <3>1. PICK t : t = [task EXCEPT !.pc = "prepare"]  BY Zenon
    <3>2. /\ t.pc = "prepare" /\ t.todo = task.todo /\ t.goal = task.goal
          /\ t.a = task.a /\ t.again = FALSE /\ DOMAIN t = Fields
      BY <2>1, <3>1 DEF Shape, Fields
    <3>3. Shape(t)'  BY <2>1, <2>3, <3>2 DEF Shape
    <3>4. TaskOk(t)'
      BY <1>3, <2>3, <3>2, <3>3, Zenon DEF TaskOk, Shape, Fields, Launching
    <3>5. QED  BY <1>3, <3>1, <3>4 DEF TaskInv, Go
  <2>10. QED  BY <2>5, <2>6, <2>7, <2>8, <2>9 DEF IInv
<1>4. QED  BY <1>2, <1>3 DEF RetireDone

\* A launch is prepared at most once.
LEMMA PreparationMoves ==
  ASSUME TypeInv, RecordInv, LedgerInv, NEW a \in Attempts, NEW m \in Preparations(a), Commit(m),
         UNCHANGED <<owned, epoch, leader, group, inflight, pending>>
  PROVE  /\ RecordInv' /\ LedgerInv' /\ Progress
         /\ launch' \in [Attempts -> [state : States, rev : Nat, evidence : BOOLEAN]]
         /\ m.ok => /\ launch'[a].state = "prepared" /\ launch'[a].rev = 1
                    /\ leader[a] = "none" /\ a \notin inflight
<1>0. faults \in Nat /\ launch \in [Attempts -> [state : States, rev : Nat, evidence : BOOLEAN]]
  BY DEF TypeInv
<1>1. PICK row : row = [state |-> "prepared", rev |-> 1, evidence |-> FALSE]  BY Zenon
<1>2. /\ row \in [state : States, rev : Nat, evidence : BOOLEAN]
      /\ row.state = "prepared" /\ row.rev = 1 /\ row.evidence = FALSE
  BY <1>1 DEF States
<1>3. \/ /\ m.ok = FALSE /\ m.launch = launch /\ m.ledger = ledger /\ m.faults \in {faults, faults + 1}
      \/ /\ Answered(a, Prep) = {} /\ m.ok = FALSE /\ m.launch = launch /\ m.faults = faults
         /\ m.ledger = ledger \cup {Entry(a, Prep, "prepared", 0, FALSE)}
      \/ /\ Answered(a, Prep) = {} /\ m.ok = TRUE /\ m.launch = [launch EXCEPT ![a] = row]
         /\ m.faults = faults
         /\ m.ledger = ledger \cup {Entry(a, Prep, "prepared", 0, TRUE)}
  <2> DEFINE good == Authority(a[1])
             refused == [ok |-> FALSE, launch |-> launch, ledger |-> ledger, faults |-> faults]
             commit == [ok |-> good, launch |-> IF good THEN [launch EXCEPT ![a] = row] ELSE launch,
                        ledger |-> ledger \cup {Entry(a, Prep, "prepared", 0, good)},
                        faults |-> faults]
             failed == [refused EXCEPT !.faults = @ + 1]
  <2>1. \/ m = refused \/ m = failed
        \/ m = commit /\ Answered(a, Prep) = {}
    BY <1>1, Zenon DEF Preparations, Prep, Entry
  <2>2. CASE m = refused  BY <2>2
  <2>3. CASE m = failed  BY <2>3
  <2>4. CASE m = commit /\ Answered(a, Prep) = {} /\ good
    <3>1. commit.ok = TRUE /\ commit.launch = [launch EXCEPT ![a] = row]  BY <2>4
    <3>2. commit.ledger = ledger \cup {Entry(a, Prep, "prepared", 0, TRUE)} /\ commit.faults = faults
      BY <2>4, Zenon
    <3>3. QED  BY <2>4, <3>1, <3>2, Zenon
  <2>5. CASE m = commit /\ Answered(a, Prep) = {} /\ ~good
    <3>1. commit.ok = FALSE /\ commit.launch = launch  BY <2>5
    <3>2. commit.ledger = ledger \cup {Entry(a, Prep, "prepared", 0, FALSE)} /\ commit.faults = faults
      BY <2>5, Zenon DEF Authority
    <3>3. QED  BY <2>5, <3>1, <3>2, Zenon
  <2>6. QED  BY <2>1, <2>2, <2>3, <2>4, <2>5, Zenon
<1>4. launch' = m.launch /\ ledger' = m.ledger /\ faults' = m.faults  BY DEF Commit
<1>5. Prep # Att  BY DEF Prep, Att
<1>6. ASSUME NEW o, ledger' = ledger \cup {Entry(a, Prep, "prepared", 0, o)}
      PROVE  /\ \A b : Answered(b, Att)' = Answered(b, Att)
             /\ \A b : Answered(b, Prep) # {} => Answered(b, Prep)' # {}
             /\ Answered(a, Prep)' # {}
  <2>1. PICK x : x = Entry(a, Prep, "prepared", 0, o)  BY Zenon
  <2>2. x.a = a /\ x.id = Prep  BY <2>1 DEF Entry
  <2>3. x \in Answered(a, Prep)'  BY <1>6, <2>1, <2>2 DEF Answered
  <2>4. QED  BY <1>5, <1>6, <2>1, <2>2, <2>3, Zenon DEF Answered
<1>7. ASSUME NEW o, ledger' = ledger \cup {Entry(a, Prep, "prepared", 0, o)}, Progress
      PROVE  LedgerInv'
  <2>1. PICK x : x = Entry(a, Prep, "prepared", 0, o)  BY Zenon
  <2>2. x.a = a /\ x.to = "prepared"  BY <2>1 DEF Entry
  <2>3. ASSUME NEW y \in ledger
        PROVE  y.a \in Attempts /\ (y.ok => /\ y.to = "stopped" => launch'[y.a].state = "stopped"
                                            /\ y.to = "attached" => launch'[y.a].evidence)
    BY <1>7, Zenon DEF LedgerInv, Progress
  <2>4. QED  BY <1>7, <2>1, <2>2, <2>3, Zenon DEF LedgerInv
<1>8. CASE m.ok = FALSE /\ m.launch = launch /\ m.ledger = ledger /\ m.faults \in {faults, faults + 1}
  <2>1. UNCHANGED <<launch, ledger>> /\ faults' \in {faults, faults + 1}  BY <1>4, <1>8
  <2>2. RecordInv' /\ LedgerInv' /\ Progress  BY <2>1, ProcessesEnd
  <2>3. QED  BY <1>0, <1>8, <2>1, <2>2
<1>9. CASE /\ m.ok = FALSE /\ m.launch = launch /\ m.faults = faults
           /\ m.ledger = ledger \cup {Entry(a, Prep, "prepared", 0, FALSE)}
  <2>1. UNCHANGED <<launch, faults>> /\ ledger' = ledger \cup {Entry(a, Prep, "prepared", 0, FALSE)}
    BY <1>4, <1>9, Zenon
  <2>2. Progress  BY <2>1, StillProgress
  <2>3. RecordInv'  BY <1>6, <2>1, Zenon DEF RecordInv, RecordOk
  <2>4. QED  BY <1>0, <1>7, <1>9, <2>1, <2>2, <2>3, Zenon
<1>10. CASE /\ Answered(a, Prep) = {} /\ m.ok = TRUE /\ m.launch = [launch EXCEPT ![a] = row]
            /\ m.faults = faults /\ m.ledger = ledger \cup {Entry(a, Prep, "prepared", 0, TRUE)}
  <2>1. /\ faults' = faults /\ ledger' = ledger \cup {Entry(a, Prep, "prepared", 0, TRUE)}
        /\ launch' = [launch EXCEPT ![a] = row]
    BY <1>4, <1>10, Zenon
  <2>2. /\ launch'[a] = row /\ \A b \in Attempts : b # a => launch'[b] = launch[b]
        /\ launch' \in [Attempts -> [state : States, rev : Nat, evidence : BOOLEAN]]
    BY <1>0, <1>2, <2>1
  <2>3. launch[a].state = "absent" /\ leader[a] = "none" /\ a \notin inflight /\ ~launch[a].evidence
    BY <1>10, Zenon DEF RecordInv, RecordOk
  <2>4. Progress  BY <1>0, <2>1, <2>2, <2>3, SameTenure DEF Progress
  <2>5. ASSUME NEW b \in Attempts PROVE RecordOk(b)'
    <3>1. RecordOk(b)  BY DEF RecordInv
    <3>2. CASE b # a  BY <1>6, <2>1, <2>2, <3>1, <3>2, Zenon DEF RecordOk
    <3>3. CASE b = a  BY <1>2, <1>6, <2>1, <2>2, <2>3, <3>1, <3>3, Zenon DEF RecordOk
    <3>4. QED  BY <3>2, <3>3
  <2>6. RecordInv'  BY <2>5 DEF RecordInv
  <2>7. LedgerInv'  BY <1>7, <2>1, <2>4, Zenon
  <2>8. QED  BY <1>2, <2>2, <2>3, <2>4, <2>6, <2>7, Zenon
<1>11. QED  BY <1>3, <1>8, <1>9, <1>10, Zenon

\* A launch that fails goes on to reconcile itself.
LEMMA UndoOk ==
  ASSUME IInv, task.pc \in Launching, Undo, UNCHANGED <<epoch, pending>>
  PROVE  TaskInv'
<1>1. Shape(task) /\ task.goal = "launch" /\ task.a \in Attempts /\ pending = {task.a}
  BY LaunchFacts
<1>2. task.a[1] <= epoch'  BY <1>1 DEF Shape
<1>3. PICK todo : todo = {task.a}  BY Zenon
<1>4. task' = NewTask("end", task.a, todo)  BY <1>3 DEF Undo
<1>5. todo \subseteq Attempts /\ todo \subseteq pending'  BY <1>1, <1>3
<1>6. QED  BY <1>1, <1>2, <1>4, <1>5, NewTaskOk

LEMMA PrepareKeeps ==
  ASSUME IInv, UNCHANGED scenario, Prepare
  PROVE  IInv'
<1>0. TypeInv /\ RecordInv /\ LedgerInv /\ TaskInv  BY DEF IInv
<1>1. /\ task.pc = "prepare" /\ task.pc \in Launching
      /\ UNCHANGED <<scenario, owned, epoch, active, pending, dog, inflight>>
      /\ UNCHANGED <<owned, epoch, leader, group, inflight, pending>> /\ UNCHANGED <<handle, stop>>
  BY DEF Prepare, Launching, others
<1>2. /\ Shape(task) /\ task # IdleTask /\ task.goal = "launch" /\ task.a \in Attempts
      /\ pending = {task.a} /\ active = {}
  BY <1>1, LaunchFacts
<1>3. PICK m \in Preparations(task.a) : Commit(m) /\ IF m.ok THEN Go("spawn") ELSE Undo
  BY DEF Prepare
<1>4. /\ RecordInv' /\ LedgerInv' /\ Progress
      /\ launch' \in [Attempts -> [state : States, rev : Nat, evidence : BOOLEAN]]
      /\ m.ok => /\ launch'[task.a].state = "prepared" /\ launch'[task.a].rev = 1
                 /\ leader[task.a] = "none" /\ task.a \notin inflight
  BY <1>0, <1>1, <1>2, <1>3, PreparationMoves, Zenon
<1>5. StopInv' /\ DOMAIN stop' = Stoppers  BY <1>0, <1>1, <1>4, StopsStay, Zenon DEF TypeInv
<1>6. TaskInv'
  <2>1. CASE m.ok
    <3>1. PICK t : t = [task EXCEPT !.pc = "spawn"]  BY Zenon
    <3>2. /\ t.pc = "spawn" /\ t.todo = task.todo /\ t.goal = task.goal
          /\ t.a = task.a /\ t.again = task.again /\ DOMAIN t = Fields
      BY <1>2, <3>1 DEF Shape, Fields
    <3>3. Shape(t)'  BY <1>1, <1>2, <3>2, Zenon DEF Shape
    <3>4. task.again = FALSE  BY <1>0, <1>1, <1>2, Zenon DEF TaskInv, TaskOk
    <3>5. TaskOk(t)'
      BY <1>1, <1>2, <1>4, <2>1, <3>2, <3>3, <3>4, Zenon DEF TaskOk, Shape, Fields, Launching
    <3>6. QED  BY <1>3, <2>1, <3>1, <3>5 DEF TaskInv, Go
  <2>2. CASE ~m.ok  BY <1>1, <1>3, <2>2, UndoOk
  <2>3. QED  BY <2>1, <2>2
<1>7. leader' \in [Attempts -> {"none", "up", "down"}] /\ group' \subseteq Attempts
  BY <1>0, <1>1 DEF TypeInv
<1>8. QED  BY <1>1, <1>4, <1>5, <1>6, <1>7, HolderRecords

LEMMA SpawnDriverKeeps ==
  ASSUME IInv, UNCHANGED scenario, SpawnDriver
  PROVE  IInv'
<1>0. TypeInv /\ RecordInv /\ LedgerInv /\ TaskInv /\ KnownInv  BY DEF IInv
<1>1. /\ task.pc = "spawn" /\ task.pc \in Launching
      /\ UNCHANGED <<scenario, owned, epoch, launch, ledger, stop, active, pending, dog, inflight>>
  BY DEF SpawnDriver, Launching, others
<1>2. /\ Shape(task) /\ task # IdleTask /\ task.goal = "launch" /\ task.a \in Attempts
      /\ pending = {task.a} /\ active = {} /\ RecordOk(task.a)
      /\ \A b \in Attempts : b \in inflight => b \in pending
  BY <1>1, LaunchFacts
<1>3. CASE Spawn(task.a) /\ Go("attach") /\ UNCHANGED faults
  <2>1. PICK a \in Attempts : a = task.a  BY <1>2
  <2>2. /\ leader[a] = "none" /\ a \notin inflight /\ task.again = FALSE
        /\ launch[a].state = "prepared" /\ launch[a].rev = 1
    BY <1>0, <1>1, <1>2, <2>1, Zenon DEF TaskInv, TaskOk
  <2>3. /\ RecordInv' /\ LedgerInv' /\ Progress
        /\ leader' \in [Attempts -> {"none", "up", "down"}] /\ group' \subseteq Attempts
        /\ leader'[a] = "up" /\ \A b \in Attempts : b # a => leader'[b] = leader[b]
    <3>1. UNCHANGED <<owned, epoch, launch, ledger, faults, pending>>  BY <1>1, <1>3
    <3>2. inflight' \subseteq inflight /\ a \notin inflight' /\ launch[a].state # "absent"
      BY <1>1, <2>2
    <3>3. QED  BY <1>0, <1>3, <2>1, <2>2, <3>1, <3>2, SpawnMoves, Zenon
  <2>4. handle' = handle \cup {a}  BY <1>3, <2>1 DEF Spawn
  <2>5. TypeInv'  BY <1>0, <1>1, <1>3, <2>3, <2>4 DEF TypeInv
  <2>6. StopInv' /\ DogInv'  BY <1>1, <2>3, StopsStay, DogsStay, Zenon
  <2>7. KnownInv'  BY <1>0, <1>1, <1>2, <2>1, <2>3, <2>4, Zenon DEF KnownInv, TypeInv
  <2>8. TaskInv'
    <3>1. PICK t : t = [task EXCEPT !.pc = "attach"]  BY Zenon
    <3>2. /\ t.pc = "attach" /\ t.todo = task.todo /\ t.goal = task.goal
          /\ t.a = a /\ t.again = FALSE /\ DOMAIN t = Fields
      BY <1>2, <2>1, <2>2, <3>1 DEF Shape, Fields
    <3>3. Shape(t)'  BY <1>1, <1>2, <2>1, <3>2, Zenon DEF Shape
    <3>4. Answered(a, Att)' = {}  BY <1>1, <1>2, <2>1, <2>2 DEF RecordOk, Answered
    <3>5. TaskOk(t)'
      BY <1>1, <1>2, <2>1, <2>2, <2>3, <3>2, <3>3, <3>4, Zenon DEF TaskOk, Shape, Fields, Launching
    <3>6. QED  BY <1>3, <3>1, <3>5 DEF TaskInv, Go
  <2>9. QED  BY <2>3, <2>5, <2>6, <2>7, <2>8 DEF IInv
<1>4. CASE faults' = faults + 1 /\ Undo /\ UNCHANGED <<leader, group, handle, binding>>
  <2>1. UNCHANGED <<scenario, owned, epoch, launch, ledger, leader, group, inflight, handle>>
    BY <1>1, <1>4
  <2>2. Progress  BY <1>0, <1>4, <2>1, StillProgress
  <2>3. StopInv' /\ DOMAIN stop' = Stoppers  BY <1>0, <1>1, <2>2, StopsStay DEF TypeInv
  <2>4. DogInv' /\ DOMAIN dog' = Attempts  BY <1>1, <2>2, DogsStay
  <2>5. TaskInv'  BY <1>1, <1>4, UndoOk
  <2>6. QED  BY <1>1, <1>2, <1>4, <2>1, <2>3, <2>4, <2>5, HolderQuiet, Zenon
<1>5. QED  BY <1>3, <1>4 DEF SpawnDriver

\* The holder goes on in phase pc.
LEMMA Goes ==
  ASSUME IInv, task.pc \in Launching, UNCHANGED <<epoch, pending, active>>, NEW t, DOMAIN t = Fields,
         t.todo = task.todo, t.goal = task.goal, t.a = task.a, task' = t,
         t.pc \in {"compensate", "record", "bootstrap", "failing", "ready"},
         leader'[t.a] # "none", t.pc = "compensate" => t.again = FALSE,
         t.pc = "failing" => stop'[Task] # NoStop /\ stop'[Task].a = t.a,
         t.pc \in {"bootstrap", "failing", "ready"} => launch'[t.a].evidence,
         t.pc \in {"compensate", "record"} => faults' > 0 \/ ~Authority(t.a[1])',
         t.pc = "record" =>
           /\ t.gone \in BOOLEAN /\ t.again \in BOOLEAN /\ (t.again => t.gone)
           /\ t.gone => leader'[t.a] = "down"
  PROVE  TaskInv'
<1>1. /\ Shape(task) /\ task.goal = "launch" /\ task.a \in Attempts
      /\ pending = {task.a} /\ active = {}
  BY LaunchFacts, Zenon
<1>2. Shape(t)'  BY <1>1, Zenon DEF Shape
<1>3. TaskOk(t)'  BY <1>1, <1>2, Zenon DEF TaskOk, Shape, Fields, Launching, Draining, Retiring
<1>4. QED  BY <1>3, Zenon DEF TaskInv

\* An attempt in the right state is refused only for want of authority.
LEMMA WhyRefused ==
  ASSUME NEW a, NEW e, NEW id, NEW to, NEW rev, NEW m \in Mutations(a, e, id, to, rev)
  PROVE  (Answered(a, id) = {} /\ launch[a].rev = rev /\ Allowed(launch[a].state, to)) =>
           (~Authority(e) /\ m.faults = faults) \/ m.ok = TRUE \/ m.faults = faults + 1
<1>1. \/ /\ Answered(a, id) # {} /\ m.ok = (Entry(a, id, to, rev, TRUE) \in Answered(a, id))
         /\ m.launch = launch /\ m.ledger = ledger /\ m.faults = faults
      \/ /\ Answered(a, id) = {} /\ m.ok = FALSE
         /\ ~(Authority(e) /\ launch[a].rev = rev /\ Allowed(launch[a].state, to))
         /\ m.launch = launch /\ m.faults = faults
         /\ m.ledger = ledger \cup {Entry(a, id, to, rev, FALSE)}
      \/ /\ Answered(a, id) = {} /\ m.ok = TRUE
         /\ Authority(e) /\ launch[a].rev = rev /\ Allowed(launch[a].state, to)
         /\ m.launch = Moved(a, to, rev) /\ m.faults = faults
         /\ m.ledger = ledger \cup {Entry(a, id, to, rev, TRUE)}
      \/ /\ m.ok = FALSE /\ m.launch = launch /\ m.ledger = ledger /\ m.faults = faults + 1
  BY MutationCases, Zenon
<1>2. QED  BY <1>1, Zenon

LEMMA AttachKeeps ==
  ASSUME IInv, UNCHANGED scenario, Attach
  PROVE  IInv'
<1>0. TypeInv /\ RecordInv /\ LedgerInv /\ TaskInv  BY DEF IInv
<1>1. /\ task.pc = "attach" /\ task.pc \in Launching
      /\ UNCHANGED <<scenario, owned, epoch, active, pending, dog, inflight>>
      /\ UNCHANGED <<owned, epoch, leader, group, inflight, pending>> /\ UNCHANGED <<handle, stop>>
  BY Zenon DEF Attach, Launching, others
<1>2. Shape(task) /\ task # IdleTask /\ task.a \in Attempts  BY <1>1, LaunchFacts
<1>3. PICK a \in Attempts : a = task.a  BY <1>2
<1>4. PICK m \in Mutations(a, a[1], Att, "attached", 1) :
        Commit(m) /\ Go(IF m.ok THEN "bootstrap" ELSE "compensate")
  BY <1>3 DEF Attach, Att
<1>5. /\ leader[a] # "none" /\ Answered(a, Att) = {} /\ task.again = FALSE
      /\ launch[a].state = "prepared" /\ launch[a].rev = 1
  BY <1>0, <1>1, <1>2, <1>3, Zenon DEF TaskInv, TaskOk, Launching
<1>6. /\ RecordInv' /\ LedgerInv' /\ Progress
      /\ launch' \in [Attempts -> [state : States, rev : Nat, evidence : BOOLEAN]]
      /\ m.ok => launch'[a].evidence
  <2>1. Att # Prep  BY DEF Att, Prep
  <2>2. Writes(m)  BY <1>4, CommitWrites
  <2>3. PICK to \in {"attached", "ready", "stopping", "cleanup", "stopped"} :
          to = "attached" /\ to # "stopped"
    OBVIOUS
  <2>4. m \in Mutations(a, a[1], Att, to, 1)  BY <1>4, <2>3
  <2>5. QED  BY <1>0, <1>1, <1>5, <2>1, <2>2, <2>3, <2>4, RecordMoves, Zenon
<1>7. ~m.ok => faults' > 0 \/ ~Authority(a[1])'
  <2>1. Allowed("prepared", "attached")  BY DEF Allowed
  <2>2. \/ ~Authority(a[1]) /\ m.faults = faults
        \/ m.ok = TRUE
        \/ m.faults = faults + 1
    <3>1. PICK e, to, rev : e = a[1] /\ to = "attached" /\ rev = 1  BY Zenon
    <3>2. m \in Mutations(a, e, Att, to, rev)  BY <1>4, <3>1
    <3>3. launch[a].rev = rev /\ Allowed(launch[a].state, to)  BY <1>5, <2>1, <3>1
    <3>4. QED  BY <1>5, <3>1, <3>2, <3>3, WhyRefused, Zenon
  <2>3. faults' = m.faults /\ faults \in Nat  BY <1>0, <1>4, Zenon DEF Commit, TypeInv
  <2>4. ~Authority(a[1]) => ~Authority(a[1])'  BY <1>1 DEF Authority
  <2>5. QED  BY <2>2, <2>3, <2>4
<1>8. StopInv' /\ DOMAIN stop' = Stoppers  BY <1>0, <1>1, <1>6, StopsStay, Zenon DEF TypeInv
<1>9. TaskInv'
  <2>1. PICK pc \in {"bootstrap", "compensate"} :
          /\ pc = (IF m.ok THEN "bootstrap" ELSE "compensate")
          /\ pc = "bootstrap" => m.ok
          /\ pc = "compensate" => ~m.ok
    OBVIOUS
  <2>2. PICK t : t = [task EXCEPT !.pc = pc]  BY Zenon
  <2>3. /\ t.pc = pc /\ t.todo = task.todo /\ t.goal = task.goal
        /\ t.a = a /\ t.again = FALSE /\ DOMAIN t = Fields
    BY <1>2, <1>3, <1>5, <2>2 DEF Shape, Fields
  <2>4. task' = t  BY <1>4, <2>1, <2>2 DEF Go
  <2>5. leader'[t.a] # "none"  BY <1>1, <1>5, <2>3, Zenon
  <2>6. t.pc \notin {"record", "failing", "ready"}  BY <2>3, Zenon
  <2>7. t.pc = "bootstrap" => launch'[t.a].evidence  BY <1>6, <2>1, <2>3, Zenon
  <2>8. t.pc = "compensate" => faults' > 0 \/ ~Authority(t.a[1])'  BY <1>7, <2>1, <2>3, Zenon
  <2>9. UNCHANGED <<epoch, pending, active>>  BY <1>1
  <2>10. QED  BY <1>1, <1>3, <2>1, <2>3, <2>4, <2>5, <2>6, <2>7, <2>8, <2>9, Goes, Zenon
<1>10. leader' \in [Attempts -> {"none", "up", "down"}] /\ group' \subseteq Attempts
  BY <1>0, <1>1, Zenon DEF TypeInv
<1>11. QED  BY <1>1, <1>6, <1>8, <1>9, <1>10, HolderRecords

LEMMA CompensateKeeps ==
  ASSUME IInv, UNCHANGED scenario, Compensate
  PROVE  IInv'
<1>0. TypeInv /\ RecordInv /\ LedgerInv /\ TaskInv  BY DEF IInv
<1>1. /\ task.pc = "compensate" /\ task.pc \in Launching
      /\ UNCHANGED <<scenario, owned, epoch, active, pending, dog, inflight>>
      /\ UNCHANGED <<owned, epoch, launch, ledger, inflight, pending>> /\ UNCHANGED <<stop, faults>>
  BY DEF Compensate, Launching, others
<1>2. Shape(task) /\ task # IdleTask /\ task.a \in Attempts  BY <1>1, LaunchFacts
<1>3. PICK a \in Attempts : a = task.a  BY <1>2
<1>4. PICK x \in Kills(a) :
        /\ leader' = x.leader /\ group' = x.group
        /\ handle' = IF x.stopped /\ Cleans(a, x) THEN handle \ {a} ELSE handle
        /\ task' = [task EXCEPT !.pc = "record", !.gone = x.stopped]
  BY <1>3, Zenon DEF Compensate
<1>5. /\ leader[a] # "none" /\ task.again = FALSE /\ (faults > 0 \/ ~Authority(a[1]))
  BY <1>0, <1>1, <1>2, <1>3, Zenon DEF TaskInv, TaskOk, Launching
<1>6. /\ RecordInv' /\ LedgerInv' /\ Progress
      /\ leader' \in [Attempts -> {"none", "up", "down"}] /\ group' \subseteq group
      /\ \A b \in Attempts : leader'[b] = "up" => leader[b] = "up"
      /\ x.stopped \in BOOLEAN /\ (x.stopped => leader'[a] = "down")
  BY <1>0, <1>1, <1>4, <1>5, Killing
<1>7. StopInv' /\ DOMAIN stop' = Stoppers  BY <1>0, <1>1, <1>6, StopsStay DEF TypeInv
<1>8. TaskInv'
  <2>1. PICK t : t = [task EXCEPT !.pc = "record", !.gone = x.stopped]  BY Zenon
  <2>2. /\ t.pc = "record" /\ t.todo = task.todo /\ t.goal = task.goal
        /\ t.a = a /\ t.again = FALSE /\ t.gone = x.stopped /\ DOMAIN t = Fields
    BY <1>2, <1>3, <1>5, <2>1 DEF Shape, Fields
  <2>3. task' = t  BY <1>4, <2>1
  <2>4. leader'[t.a] # "none"  BY <1>5, <1>6, <2>2, Zenon DEF Progress
  <2>5. faults' > 0 \/ ~Authority(t.a[1])'
    <3>1. faults' = faults  BY <1>1
    <3>2. Authority(a[1])' = Authority(a[1])  BY <1>1 DEF Authority
    <3>3. QED  BY <1>5, <2>2, <3>1, <3>2, Zenon
  <2>6. UNCHANGED <<epoch, pending, active>>  BY <1>1
  <2>7. QED  BY <1>1, <1>3, <1>6, <2>2, <2>3, <2>4, <2>5, <2>6, Goes, Zenon
<1>9. handle' \subseteq handle  BY <1>4
<1>10. /\ launch' \in [Attempts -> [state : States, rev : Nat, evidence : BOOLEAN]]
       /\ group' \subseteq Attempts
  BY <1>0, <1>1, <1>6 DEF TypeInv
<1>11. QED  BY <1>1, <1>6, <1>7, <1>8, <1>9, <1>10, HolderRecords

LEMMA RecordKeeps ==
  ASSUME IInv, UNCHANGED scenario, Record
  PROVE  IInv'
<1>0. TypeInv /\ RecordInv /\ LedgerInv /\ TaskInv  BY DEF IInv
<1>1. /\ task.pc = "record" /\ task.pc \in Launching
      /\ UNCHANGED <<scenario, owned, epoch, active, pending, dog, inflight>>
      /\ UNCHANGED <<owned, epoch, leader, group, inflight, pending>> /\ UNCHANGED <<handle, stop>>
  BY DEF Record, Launching, others
<1>2. Shape(task) /\ task # IdleTask /\ task.a \in Attempts  BY <1>1, LaunchFacts
<1>3. PICK a \in Attempts : a = task.a  BY <1>2
<1>4. /\ leader[a] # "none" /\ (faults > 0 \/ ~Authority(a[1]))
      /\ task.gone \in BOOLEAN /\ task.again \in BOOLEAN /\ (task.again => task.gone)
      /\ task.gone => leader[a] = "down"
  BY <1>0, <1>1, <1>2, <1>3, Zenon DEF TaskInv, TaskOk, Launching
<1>5. PICK q \in {"stopping", "terminal", "cleanup", "ready"},
           to \in {"ready", "stopping", "cleanup", "stopped"} :
        /\ <<"compensate", q>> =
             (IF task.again THEN <<"compensate", "terminal">> ELSE <<"compensate", "cleanup">>)
        /\ to = (IF task.again THEN "stopped" ELSE "cleanup")
        /\ to = "stopped" => task.again
  BY <1>4
<1>6. PICK m \in Mutations(a, a[1], <<"compensate", q>>, to, launch[a].rev) :
        /\ Commit(m)
        /\ IF m.ok /\ task.gone /\ ~task.again
           THEN task' = [task EXCEPT !.again = TRUE] ELSE Undo
  BY <1>3, <1>5 DEF Record
<1>7. <<"compensate", q>> # Prep /\ <<"compensate", q>> # Att /\ Writes(m)
  BY <1>6, OtherIds, CommitWrites
<1>8. to = "stopped" => leader[a] = "down" /\ (a \in group => faults > 0 \/ ~Authority(a[1]))
  BY <1>4, <1>5
<1>9. /\ RecordInv' /\ LedgerInv' /\ Progress
      /\ launch' \in [Attempts -> [state : States, rev : Nat, evidence : BOOLEAN]]
  BY <1>0, <1>1, <1>6, <1>7, <1>8, RequestMoves, Zenon
<1>10. StopInv' /\ DOMAIN stop' = Stoppers  BY <1>0, <1>1, <1>9, StopsStay, Zenon DEF TypeInv
<1>11. TaskInv'
  <2>1. CASE Undo  BY <1>1, <2>1, UndoOk, Zenon
  <2>2. CASE task.gone /\ task' = [task EXCEPT !.again = TRUE]
    <3>1. PICK t : t = [task EXCEPT !.again = TRUE]  BY Zenon
    <3>2. /\ t.pc = "record" /\ t.todo = task.todo /\ t.goal = task.goal
          /\ t.a = a /\ t.again = TRUE /\ t.gone = task.gone /\ DOMAIN t = Fields
      BY <1>1, <1>2, <1>3, <3>1 DEF Shape, Fields
    <3>3. faults' > 0 \/ ~Authority(t.a[1])'
      <4>1. faults > 0 => faults' > 0  BY <1>0, <1>9 DEF Progress, TypeInv
      <4>2. Authority(a[1])' = Authority(a[1])  BY <1>1 DEF Authority
      <4>3. QED  BY <1>4, <3>2, <4>1, <4>2, Zenon
    <3>4. leader'[t.a] # "none" /\ leader'[t.a] = "down"  BY <1>1, <1>4, <2>2, <3>2
    <3>5. UNCHANGED <<epoch, pending, active>>  BY <1>1, Zenon
    <3>6. QED  BY <1>1, <1>3, <1>4, <2>2, <3>1, <3>2, <3>3, <3>4, <3>5, Goes, Zenon
  <2>3. QED  BY <1>6, <2>1, <2>2
<1>12. leader' \in [Attempts -> {"none", "up", "down"}] /\ group' \subseteq Attempts
  BY <1>0, <1>1, Zenon DEF TypeInv
<1>13. QED  BY <1>1, <1>9, <1>10, <1>11, <1>12, HolderRecords, Zenon

\* A bootstrap that fails calls for a stop.
LEMMA FailsOk ==
  ASSUME IInv, Progress, task.pc = "bootstrap", UNCHANGED <<epoch, pending, active>>, NEW twice,
         task' = [task EXCEPT !.pc = "failing", !.again = twice],
         CallStop(task.a, task.a[1], "bootstrap")
  PROVE  TaskInv' /\ StopInv' /\ DOMAIN stop' = Stoppers
<1>0. TypeInv /\ RecordInv /\ TaskInv  BY DEF IInv
<1>1. task.pc \in Launching  BY DEF Launching
<1>2. Shape(task) /\ task # IdleTask /\ task.a \in Attempts  BY <1>1, LaunchFacts
<1>3. leader[task.a] # "none" /\ launch[task.a].evidence
  BY <1>0, <1>1, <1>2 DEF TaskInv, TaskOk, Launching
<1>4. PICK v : v = Stopping(task.a, task.a[1], "bootstrap")  BY Zenon
<1>5. v # NoStop /\ v.a = task.a  BY <1>4, CalledStop
<1>6. stop' = [stop EXCEPT ![Task] = v]  BY <1>4 DEF CallStop
<1>7. StopInv' /\ DOMAIN stop' = Stoppers /\ stop'[Task] = v  BY <1>2, <1>4, <1>6, HolderStops, Zenon
<1>8. PICK t : t = [task EXCEPT !.pc = "failing", !.again = twice]  BY Zenon
<1>9. /\ t.pc = "failing" /\ t.todo = task.todo /\ t.goal = task.goal
      /\ t.a = task.a /\ DOMAIN t = Fields
  BY <1>2, <1>8 DEF Shape, Fields
<1>10. leader'[t.a] # "none" /\ launch'[t.a].evidence
  BY <1>0, <1>2, <1>3, <1>9 DEF Progress, TypeInv
<1>11. stop'[Task] # NoStop /\ stop'[Task].a = t.a  BY <1>5, <1>7, <1>9
<1>12. QED  BY <1>1, <1>7, <1>8, <1>9, <1>10, <1>11, Goes, Zenon

LEMMA BootstrapKeeps ==
  ASSUME IInv, UNCHANGED scenario, Bootstrap
  PROVE  IInv'
<1>0. TypeInv /\ RecordInv /\ LedgerInv /\ TaskInv  BY DEF IInv
<1>1. /\ task.pc = "bootstrap" /\ task.pc \in Launching
      /\ UNCHANGED <<scenario, owned, epoch, active, pending, dog, inflight>>
      /\ UNCHANGED <<owned, epoch, leader, group, inflight, pending>> /\ UNCHANGED handle
  BY DEF Bootstrap, Launching, others
<1>2. Shape(task) /\ task # IdleTask /\ task.a \in Attempts  BY <1>1, LaunchFacts
<1>3. PICK a \in Attempts : a = task.a  BY <1>2
<1>4. leader[a] # "none" /\ launch[a].evidence
  BY <1>0, <1>1, <1>2, <1>3, Zenon DEF TaskInv, TaskOk, Launching
<1>5. PICK q \in {"stopping", "terminal", "cleanup", "ready"},
           to \in {"ready", "stopping", "cleanup", "stopped"} :
        q = "ready" /\ to = "ready" /\ to # "stopped"
  OBVIOUS
<1>6. PICK m \in Mutations(a, a[1], <<"driver", q>>, to, launch[a].rev) :
        /\ Commit(m)
        /\ IF m.ok THEN Go("ready") /\ UNCHANGED stop
           ELSE /\ task' = [task EXCEPT !.pc = "failing", !.again = TRUE]
                /\ CallStop(a, a[1], "bootstrap")
  BY <1>3, <1>5 DEF Bootstrap, Ready
<1>7. <<"driver", q>> # Prep /\ <<"driver", q>> # Att /\ Writes(m)
  BY <1>6, OtherIds, CommitWrites
<1>8. /\ RecordInv' /\ LedgerInv' /\ Progress
      /\ launch' \in [Attempts -> [state : States, rev : Nat, evidence : BOOLEAN]]
  BY <1>0, <1>1, <1>5, <1>6, <1>7, RequestMoves, Zenon
<1>9. TaskInv' /\ StopInv' /\ DOMAIN stop' = Stoppers
  <2>1. CASE Go("ready") /\ UNCHANGED stop
    <3>1. PICK t : t = [task EXCEPT !.pc = "ready"]  BY Zenon
    <3>2. /\ t.pc = "ready" /\ t.todo = task.todo /\ t.goal = task.goal
          /\ t.a = a /\ DOMAIN t = Fields
      BY <1>2, <1>3, <3>1 DEF Shape, Fields
    <3>3. leader'[t.a] # "none" /\ launch'[t.a].evidence
      BY <1>0, <1>1, <1>3, <1>4, <1>8, <3>2, Zenon DEF Progress, TypeInv
    <3>4. task' = t  BY <2>1, <3>1 DEF Go
    <3>5. UNCHANGED <<epoch, pending, active>>  BY <1>1, Zenon
    <3>6. TaskInv'  BY <1>1, <1>3, <3>2, <3>3, <3>4, <3>5, Goes, Zenon
    <3>7. QED  BY <1>0, <1>8, <2>1, <3>6, StopsStay, Zenon DEF TypeInv
  <2>2. CASE /\ task' = [task EXCEPT !.pc = "failing", !.again = TRUE]
             /\ CallStop(a, a[1], "bootstrap")
    <3>1. CallStop(task.a, task.a[1], "bootstrap")  BY <1>3, <2>2
    <3>2. UNCHANGED <<epoch, pending, active>>  BY <1>1, Zenon
    <3>3. QED  BY <1>1, <1>8, <2>2, <3>1, <3>2, FailsOk, Zenon
  <2>3. QED  BY <1>6, <2>1, <2>2
<1>10. leader' \in [Attempts -> {"none", "up", "down"}] /\ group' \subseteq Attempts
  BY <1>0, <1>1, Zenon DEF TypeInv
<1>11. QED  BY <1>1, <1>8, <1>9, <1>10, HolderRecords, Zenon

LEMMA BootstrapFailsKeeps ==
  ASSUME IInv, UNCHANGED scenario, BootstrapFails
  PROVE  IInv'
<1>0. TypeInv /\ RecordInv /\ TaskInv  BY DEF IInv
<1>1. /\ task.pc = "bootstrap" /\ task.pc \in Launching
      /\ UNCHANGED <<scenario, owned, epoch, launch, ledger, leader, group, inflight, handle>>
      /\ UNCHANGED <<owned, epoch, launch, ledger, leader, group, inflight>>
      /\ UNCHANGED <<epoch, pending, active>> /\ UNCHANGED <<faults, dog>>
      /\ CallStop(task.a, task.a[1], "bootstrap")
  BY DEF BootstrapFails, Launching, others
<1>2. PICK twice \in BOOLEAN : task' = [task EXCEPT !.pc = "failing", !.again = twice]
  BY Zenon DEF BootstrapFails
<1>3. \A b \in Attempts : b \in inflight => b \in pending'  BY <1>1, LaunchFacts, Zenon
<1>4. Progress  BY <1>1, <1>3, QuietRecords, Zenon
<1>5. TaskInv' /\ StopInv' /\ DOMAIN stop' = Stoppers  BY <1>1, <1>2, <1>4, FailsOk, Zenon
<1>6. DogInv' /\ DOMAIN dog' = Attempts  BY <1>1, <1>4, DogsStay
<1>7. /\ active' \subseteq active /\ pending' \subseteq pending
      /\ \A b \in active \cup pending : b \in active' \cup pending'
  BY <1>1
<1>8. QED  BY <1>1, <1>3, <1>5, <1>6, <1>7, HolderQuiet, Zenon

LEMMA FailingKeeps ==
  ASSUME IInv, UNCHANGED scenario, Failing
  PROVE  IInv'
<1>0. TypeInv /\ RecordInv /\ StopInv /\ TaskInv  BY DEF IInv
<1>1. /\ task.pc = "failing" /\ task.pc \in Launching /\ stop[Task].pc = "done"
      /\ UNCHANGED <<scenario, owned, epoch, launch, ledger, leader, group, inflight, handle>>
      /\ UNCHANGED <<owned, epoch, launch, leader, group>>
      /\ UNCHANGED <<active, faults, dog>>
  BY DEF Failing, Launching, others
<1>2. /\ Shape(task) /\ task # IdleTask /\ task.a \in Attempts /\ pending = {task.a}
      /\ active = {} /\ \A b \in Attempts : b \in inflight => b \in pending
  BY <1>1, LaunchFacts, Zenon
<1>3. /\ leader[task.a] # "none" /\ launch[task.a].evidence
      /\ stop[Task] # NoStop /\ stop[Task].a = task.a
  BY <1>0, <1>1, <1>2, Zenon DEF TaskInv, TaskOk, Launching
<1>4. Progress  BY <1>0, <1>1, StillProgress
<1>5. DogInv' /\ DOMAIN dog' = Attempts  BY <1>1, <1>4, DogsStay
<1>6. CASE End /\ stop' = [stop EXCEPT ![Task] = NoStop]
           /\ (UNCHANGED pending \/ (Stopped /\ pending' = pending \ {task.a}))
  <2>1. StopInv' /\ DOMAIN stop' = Stoppers  BY <1>4, <1>6, HolderStops, Zenon
  <2>2. TaskInv'  BY <1>6, Ends DEF End
  <2>3. task.a \notin inflight  BY <1>0, <1>2, <1>3, Zenon DEF RecordInv, RecordOk
  <2>4. \A b \in Attempts : b \in inflight => b \in pending'  BY <1>2, <1>6, <2>3
  <2>5. Stopped => leader[task.a] # "up"
    <3>1. SUFFICES ASSUME Stopped PROVE leader[task.a] # "up"  OBVIOUS
    <3>2. PICK s : s = stop[Task]  BY Zenon
    <3>3. s.pc = "done" /\ s.result = "stopped" /\ s # NoStop /\ s.a = task.a
      BY <1>3, <3>1, <3>2 DEF Stopped
    <3>4. StopOk(Task)  BY <1>0, Names DEF StopInv
    <3>5. launch[task.a].state = "stopped"  BY <3>2, <3>3, <3>4 DEF StopOk
    <3>6. QED  BY <1>0, <1>2, <3>5 DEF RecordInv, RecordOk
  <2>6. /\ active' \subseteq active /\ pending' \subseteq pending
        /\ \A b \in active \cup pending : b \in active' \cup pending' \/ leader[b] # "up"
    BY <1>1, <1>2, <1>6, <2>5
  <2>7. QED  BY <1>1, <1>5, <2>1, <2>2, <2>4, <2>6, HolderQuiet, Zenon
<1>7. CASE /\ task' = [task EXCEPT !.again = FALSE]
           /\ CallStop(task.a, task.a[1], "bootstrap")
           /\ UNCHANGED pending
  <2>1. PICK v : v = Stopping(task.a, task.a[1], "bootstrap")  BY Zenon
  <2>2. v # NoStop /\ v.a = task.a  BY <2>1, CalledStop
  <2>3. stop' = [stop EXCEPT ![Task] = v]  BY <1>7, <2>1 DEF CallStop
  <2>4. StopInv' /\ DOMAIN stop' = Stoppers /\ stop'[Task] = v
    BY <1>2, <1>4, <2>1, <2>3, HolderStops, Zenon
  <2>5. PICK t : t = [task EXCEPT !.again = FALSE]  BY Zenon
  <2>6. /\ t.pc = "failing" /\ t.todo = task.todo /\ t.goal = task.goal
        /\ t.a = task.a /\ DOMAIN t = Fields
    BY <1>1, <1>2, <2>5 DEF Shape, Fields
  <2>7. leader'[t.a] # "none" /\ launch'[t.a].evidence  BY <1>1, <1>3, <2>6
  <2>8. stop'[Task] # NoStop /\ stop'[Task].a = t.a  BY <2>2, <2>4, <2>6
  <2>9. UNCHANGED <<epoch, pending, active>>  BY <1>1, <1>7
  <2>10. TaskInv'  BY <1>1, <1>7, <2>5, <2>6, <2>7, <2>8, <2>9, Goes, Zenon
  <2>11. /\ active' \subseteq active /\ pending' \subseteq pending
         /\ \A b \in active \cup pending : b \in active' \cup pending'
         /\ \A b \in Attempts : b \in inflight => b \in pending'
    BY <1>1, <1>2, <1>7
  <2>12. QED  BY <1>1, <1>5, <2>4, <2>10, <2>11, HolderQuiet, Zenon
<1>8. QED  BY <1>6, <1>7 DEF Failing

LEMMA CacheKeeps ==
  ASSUME IInv, UNCHANGED scenario, Cache
  PROVE  IInv'
<1>0. TypeInv /\ RecordInv /\ DogInv /\ KnownInv /\ TaskInv  BY DEF IInv
<1>1. /\ task.pc = "ready" /\ task.pc \in Launching
      /\ UNCHANGED <<owned, epoch, launch, ledger, leader, group, inflight>>
      /\ UNCHANGED <<scenario, handle, stop, faults, pending>>
      /\ dog' = [dog EXCEPT ![task.a] = "watching"]
      /\ active' = active \cup {task.a} /\ Go("cached")
  BY DEF Cache, Launching, launchVars
<1>2. /\ Shape(task) /\ task # IdleTask /\ task.a \in Attempts /\ pending = {task.a}
      /\ active = {} /\ task.goal = "launch" /\ \A b \in Attempts : b \in inflight => b \in pending
  BY <1>1, LaunchFacts
<1>3. launch[task.a].evidence
  BY <1>0, <1>1, <1>2, Zenon DEF TaskInv, TaskOk
<1>4. RecordInv' /\ LedgerInv' /\ Progress  BY <1>1, <1>2, QuietRecords
<1>5. StopInv'  BY <1>1, <1>4, StopsStay
<1>6. DogInv' /\ DOMAIN dog' = Attempts
  <2>1. DOMAIN dog' = Attempts  BY <1>0, <1>1 DEF TypeInv
  <2>2. \A b \in Attempts : dog'[b] = IF b = task.a THEN "watching" ELSE dog[b]
    BY <1>0, <1>1, <1>2 DEF TypeInv
  <2>3. QED  BY <1>0, <1>1, <1>3, <2>1, <2>2, Zenon DEF DogInv
<1>7. active' = {task.a}  BY <1>1, <1>2
<1>8. TypeInv'  BY <1>0, <1>1, <1>2, <1>6, <1>7 DEF TypeInv
<1>9. KnownInv'  BY <1>0, <1>1, <1>2, <1>3, <1>7, Zenon DEF KnownInv
<1>10. TaskInv'
  <2>1. PICK t : t = [task EXCEPT !.pc = "cached"]  BY Zenon
  <2>2. /\ t.pc = "cached" /\ t.todo = task.todo /\ t.goal = task.goal
        /\ t.a = task.a /\ DOMAIN t = Fields
    BY <1>2, <2>1 DEF Shape, Fields
  <2>3. task' = t  BY <1>1, <2>1 DEF Go
  <2>4. Shape(t)'  BY <1>1, <1>2, <2>2 DEF Shape
  <2>5. TaskOk(t)'
    BY <1>1, <1>2, <1>7, <2>2, <2>4, Zenon DEF TaskOk, Shape, Fields, Launching, Draining, Retiring
  <2>6. QED  BY <2>3, <2>5 DEF TaskInv
<1>11. QED  BY <1>4, <1>5, <1>6, <1>8, <1>9, <1>10 DEF IInv

LEMMA CachedKeeps ==
  ASSUME IInv, UNCHANGED scenario, Cached
  PROVE  IInv'
<1>0. TypeInv /\ RecordInv /\ KnownInv /\ TaskInv  BY DEF IInv
<1>1. /\ task.pc = "cached" /\ pending' = pending \ {task.a} /\ task' = IdleTask
      /\ UNCHANGED <<scenario, owned, epoch, launch, ledger, leader, group, inflight, handle>>
      /\ UNCHANGED <<owned, epoch, launch, leader, group>>
      /\ UNCHANGED <<stop, faults, active, dog>>
  BY DEF Cached, End, launchVars, others
<1>2. task.a \in Attempts /\ pending = {task.a} /\ active = {task.a}
  BY <1>0, <1>1, CachedFacts
<1>3. Progress  BY <1>0, <1>1, StillProgress
<1>4. task.a \notin inflight  BY <1>0, <1>2, Zenon DEF RecordInv, RecordOk, KnownInv
<1>5. \A b \in Attempts : b \in inflight => b \in pending'
  BY <1>0, <1>2, <1>4, Zenon DEF RecordInv, RecordOk
<1>6. /\ active' \subseteq active /\ pending' \subseteq pending
      /\ \A b \in active \cup pending : b \in active' \cup pending'
  BY <1>1, <1>2
<1>7. TaskInv'  BY <1>1, Ends
<1>8. DogInv' /\ DOMAIN dog' = Attempts  BY <1>1, <1>3, DogsStay
<1>9. StopInv' /\ DOMAIN stop' = Stoppers  BY <1>0, <1>1, <1>3, StopsStay, Zenon DEF TypeInv
<1>10. QED  BY <1>1, <1>5, <1>6, <1>7, <1>8, <1>9, HolderQuiet, Zenon

LEMMA DropKeeps ==
  ASSUME IInv, UNCHANGED scenario, Drop
  PROVE  IInv'
<1>0. TypeInv /\ RecordInv /\ LedgerInv /\ KnownInv /\ TaskInv  BY DEF IInv
<1>1. /\ task.pc # "idle" /\ task' = IdleTask /\ stop' = [stop EXCEPT ![Task] = NoStop]
      /\ UNCHANGED <<scenario, owned, epoch, launch, ledger, leader, group, handle>>
      /\ UNCHANGED <<owned, epoch, launch, leader, group>>
      /\ UNCHANGED <<faults, active, pending, dog>>
      /\ inflight' = IF task.pc = "spawn" THEN inflight \cup {task.a} ELSE inflight
  BY DEF Drop, End
<1>2. Progress  BY <1>0, <1>1, StillProgress
<1>3. StopInv' /\ DOMAIN stop' = Stoppers  BY <1>1, <1>2, HolderStops, Zenon
<1>4. DogInv' /\ DOMAIN dog' = Attempts  BY <1>1, <1>2, DogsStay
<1>5. TaskInv'  BY <1>1, Ends
<1>6. RecordInv'
  <2>1. \A b \in Attempts : b \in inflight' /\ b \notin inflight =>
          leader[b] = "none" /\ b \in pending /\ launch[b].state # "absent"
    <3>1. SUFFICES ASSUME task.pc = "spawn"
                   PROVE  /\ leader[task.a] = "none" /\ task.a \in pending
                          /\ launch[task.a].state # "absent"
      BY <1>1, Zenon
    <3>2. task.pc \in Launching  BY <3>1 DEF Launching
    <3>3. task # IdleTask /\ pending = {task.a}  BY <3>2, LaunchFacts
    <3>4. leader[task.a] = "none" /\ launch[task.a].state = "prepared"
      BY <1>0, <3>1, <3>3, Zenon DEF TaskInv, TaskOk
    <3>5. QED  BY <3>3, <3>4
  <2>2. \A b \in Attempts : Answered(b, Prep)' = Answered(b, Prep) /\ Answered(b, Att)' = Answered(b, Att)
    BY <1>1 DEF Answered
  <2>3. QED  BY <1>0, <1>1, <2>1, <2>2, Zenon DEF RecordInv, RecordOk
<1>7. LedgerInv'  BY <1>0, <1>1 DEF LedgerInv
<1>8. TypeInv'  BY <1>0, <1>1, <1>3, <1>4 DEF TypeInv
<1>9. KnownInv'  BY <1>0, <1>1, Zenon DEF KnownInv
<1>10. QED  BY <1>3, <1>4, <1>5, <1>6, <1>7, <1>8, <1>9 DEF IInv

-----------------------------------------------------------------------------
(* The inductive invariant. *)

LEMMA InitOk == Init => IInv
<1>1. SUFFICES ASSUME Init PROVE IInv  OBVIOUS
<1>2. 1 \in 1 .. MaxEpoch
  <2>1. scenario \in Scenarios  BY <1>1 DEF Init, LaunchInit
  <2>2. scenario.epochs \in 1 .. MaxEpoch  BY <2>1, LaunchAssumption
  <2>3. QED  BY <2>2, LaunchAssumption
<1>3. TypeInv
  <2>1. [state |-> "absent", rev |-> 0, evidence |-> FALSE] \in [state : States, rev : Nat, evidence : BOOLEAN]
    BY DEF States
  <2>2. QED  BY <1>1, <1>2, <2>1, Zenon DEF Init, LaunchInit, TypeInv
<1>4. RecordInv
  <2>1. \A a \in Attempts : launch[a].state = "absent" /\ ~launch[a].evidence
    BY <1>1 DEF Init, LaunchInit
  <2>2. \A a \in Attempts : Answered(a, Att) = {} /\ leader[a] = "none" /\ a \notin inflight
    BY <1>1 DEF Init, LaunchInit, Answered
  <2>3. QED  BY <2>1, <2>2, Zenon DEF RecordInv, RecordOk
<1>5. LedgerInv  BY <1>1 DEF Init, LaunchInit, LedgerInv
<1>6. StopInv  BY <1>1, Zenon DEF Init, LaunchInit, StopInv, StopOk
<1>7. DogInv  BY <1>1 DEF Init, DogInv
<1>8. KnownInv  BY <1>1 DEF Init, LaunchInit, KnownInv
<1>9. TaskInv  BY <1>1, Zenon DEF Init, TaskInv, TaskOk
<1>10. QED  BY <1>3, <1>4, <1>5, <1>6, <1>7, <1>8, <1>9 DEF IInv

LEMMA HolderKeeps ==
  ASSUME IInv, UNCHANGED scenario, Holder
  PROVE  IInv'
<1>1. CASE Drain \/ DrainStopped \/ DrainDone
  BY <1>1, DrainKeeps, DrainStoppedKeeps, DrainDoneKeeps
<1>2. CASE Retire \/ Await \/ Decide \/ RetireStopped \/ RetireDone
  BY <1>2, RetireKeeps, AwaitKeeps, DecideKeeps, RetireStoppedKeeps, RetireDoneKeeps
<1>3. CASE Prepare \/ SpawnDriver \/ Attach
  BY <1>3, PrepareKeeps, SpawnDriverKeeps, AttachKeeps
<1>4. CASE Compensate \/ Record
  BY <1>4, CompensateKeeps, RecordKeeps
<1>5. CASE Bootstrap \/ BootstrapFails \/ Failing
  BY <1>5, BootstrapKeeps, BootstrapFailsKeeps, FailingKeeps
<1>6. CASE Cache \/ Cached
  BY <1>6, CacheKeeps, CachedKeeps
<1>7. QED  BY <1>1, <1>2, <1>3, <1>4, <1>5, <1>6 DEF Holder

LEMMA Inductive == IInv /\ [Next]_vars => IInv'
<1>1. SUFFICES ASSUME IInv, [Next]_vars PROVE IInv'  OBVIOUS
<1>2. ASSUME Next PROVE IInv'
  <2>0. UNCHANGED scenario  BY <1>2 DEF Next
  <2>1. ASSUME NEW c \in Configs, Ask(c) PROVE IInv'  BY <1>1, <2>0, <2>1, AskKeeps
  <2>2. CASE Shutdown  BY <1>1, <2>0, <2>2, ShutdownKeeps
  <2>3. CASE Holder  BY <1>1, <2>0, <2>3, HolderKeeps
  <2>4. CASE Drop  BY <1>1, <2>0, <2>4, DropKeeps
  <2>5. CASE Crash  BY <1>1, <2>0, <2>5, CrashKeeps
  <2>6. CASE World  BY <1>1, <2>0, <2>6, WorldKeeps
  <2>7. ASSUME NEW a \in Attempts, Dog(a) PROVE IInv'
    <3>1. CASE DogSeesEnd(a) \/ DogFires(a)  BY <1>1, <2>0, <3>1, DogLooks
    <3>2. CASE DogFinish(a)  BY <1>1, <2>0, <3>2, DogFinishKeeps
    <3>3. CASE DogStops(a)  BY <1>1, <2>0, <3>3, DogStopsKeeps
    <3>4. CASE DogStopped(a)  BY <1>1, <2>0, <3>4, DogStoppedKeeps
    <3>5. QED  BY <2>7, <3>1, <3>2, <3>3, <3>4 DEF Dog
  <2>8. ASSUME NEW a \in Attempts, SpawnCompletes(a) PROVE IInv'
    BY <1>1, <2>0, <2>8, SpawnCompletesKeeps
  <2>9. ASSUME NEW k \in Stoppers, StopStep(k) PROVE IInv'  BY <1>1, <2>0, <2>9, StopKeeps
  <2>10. QED  BY <1>2, <2>1, <2>2, <2>3, <2>4, <2>5, <2>6, <2>7, <2>8, <2>9 DEF Next
<1>3. ASSUME UNCHANGED vars PROVE IInv'
  <2>1. UNCHANGED <<scenario, launchVars, active, pending, others>> /\ UNCHANGED task
    BY <1>3 DEF vars, system, others
  <2>2. UNCHANGED <<owned, epoch, launch, ledger, leader, stop, faults>> /\ UNCHANGED inflight
    BY <2>1 DEF launchVars, others
  <2>3. TaskInv'  BY <1>1, <2>1, <2>2, Zenon DEF IInv, TaskInv, TaskOk, Authority, Answered
  <2>4. QED  BY <1>1, <2>1, <2>3, OnlyTask
<1>4. QED  BY <1>1, <1>2, <1>3

LEMMA Invariant == Spec => []IInv
  BY InitOk, Inductive, PTL DEF Spec

-----------------------------------------------------------------------------
(* Theorems. *)

\* Whatever was dropped, lost to a crash, fenced or retried: an attempt whose
\* record says stopped has no running process, nor a process group unless the
\* Store failed a call (request_stop, terminate_process and record_terminal of
\* the supervisor, with compensate_launch of its launch path).
THEOREM StoppedHasNoProcess == Spec => []StoppedIsGone
<1>1. IInv => StoppedIsGone
  BY Zenon DEF IInv, RecordInv, RecordOk, StoppedIsGone
<1>2. QED  BY <1>1, Invariant, PTL

\* A host runs one driver of a participant at a time, and the driver it runs is in
\* the cache or in the pending registry: driver_for drains the registry and retires
\* the cached driver before it launches another.
THEOREM OneDriverAtATime == Spec => []OneDriver
<1>1. IInv => OneDriver
  <2>1. SUFFICES ASSUME IInv PROVE OneDriver  OBVIOUS
  <2>2. KnownInv  BY <2>1 DEF IInv
  <2>3. QED  BY <2>2 DEF OneDriver, KnownInv
<1>2. QED  BY <1>1, Invariant, PTL

=============================================================================
