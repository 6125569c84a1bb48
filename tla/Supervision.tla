---------------------------- MODULE Supervision ----------------------------
(***************************************************************************)
(* How the hosts keep the ownership of one session: a supervisor holds a   *)
(* copy of the lease, its worker renews the lease before it expires, and   *)
(* its admission gate lets work in until the lease is lost.  A host has at *)
(* most one installed supervisor of the session, but a call may have       *)
(* started another that it has not installed yet, and one that was         *)
(* replaced may still be stopping.                                         *)
(*                                                                         *)
(* A tick of the worker is three steps: the check before the renewal, the  *)
(* transaction of the store, and what the worker makes of its answer.      *)
(* Clocks agree here; clocks that do not are SessionOwnership's subject.   *)
(***************************************************************************)
EXTENDS Naturals, Sequences

CONSTANTS
  Hosts,
  Openers,    \* the calls that install a supervisor: [host, mode, n]
  LeaseTime,  \* lease_duration
  Period      \* renewal_period, a third of it

VARIABLES
  lease,      \* the session's ownership columns
  hour,       \* the time
  sups,       \* every supervisor started
  installed,  \* the supervisors map of each host: an index of sups, 0 if none
  opener,     \* each call: where it is, and what it knows of the lease
  failures    \* renewals and releases that did not reach the store or lost the answer

supervisionVars == <<lease, hour, sups, installed, opener, failures>>

SupervisionInit ==
  /\ lease = [held |-> FALSE, by |-> "", epoch |-> 0, until |-> 0]
  /\ hour = 0 /\ failures = 0 /\ sups = <<>>
  /\ installed = [h \in Hosts |-> 0]
  /\ opener = [c \in Openers |-> [pc |-> "new", epoch |-> 0, until |-> 0, sup |-> 0]]

Hour == hour' = hour + 1 /\ UNCHANGED <<lease, sups, installed, opener, failures>>

Effective == lease.held /\ hour < lease.until
OwnedBy(h, e) == Effective /\ lease.by = h /\ lease.epoch = e

-----------------------------------------------------------------------------
(* The supervisor. *)

\* start refuses a lease that would expire before its first renewal.
Startable(until) == hour + Period < until
Started(h, e, until) ==
  [host |-> h, epoch |-> e, until |-> until, open |-> TRUE, active |-> TRUE,
   worker |-> "sleeping", answer |-> 0, stop |-> ""]

\* lose closes the gate and then writes the status.
Lost(s) == [s EXCEPT !.open = FALSE, !.active = FALSE]

\* The end of the worker, however it comes: its guard closes a gate it finds open.
WorkerEnded(s) == [(IF s.open THEN Lost(s) ELSE s) EXCEPT !.worker = "ended", !.answer = 0]

\* A dropped supervisor closes its gate and aborts its worker.
Dropped(s) == WorkerEnded([s EXCEPT !.open = FALSE])

\* shutdown and shutdown_after_ownership_cleared: the worker is asked to stop; only
\* the first releases the lease afterwards.
ShutDown(s, stop) == [Lost(s) EXCEPT !.stop = stop]

Becomes(i, s) == sups' = [sups EXCEPT ![i] = s]

\* Mutant of TickBegins: an expired lease is only not renewed any more.
MutTickBegins(i) ==
  LET s == sups[i]
  IN /\ s.worker = "sleeping"
     /\ Becomes(i, IF ~s.open THEN WorkerEnded(s)
                   ELSE IF hour >= s.until THEN s
                   ELSE [s EXCEPT !.worker = "renewing"])
     /\ UNCHANGED <<lease, hour, installed, opener, failures>>

\* A tick: a closed gate ends the worker, an expired copy of the lease is lost, and
\* otherwise a renewal is sent.
TickBegins(i) ==
  LET s == sups[i]
  IN /\ s.worker = "sleeping"
     /\ Becomes(i, IF ~s.open THEN WorkerEnded(s)
                   ELSE IF hour >= s.until THEN WorkerEnded(Lost(s))
                   ELSE [s EXCEPT !.worker = "renewing"])
     /\ UNCHANGED <<lease, hour, installed, opener, failures>>

\* renew_ownership, fenced by host and epoch.
RenewalCommits(i) ==
  LET s == sups[i]
      until == hour + LeaseTime
  IN /\ s.worker = "renewing"
     /\ IF OwnedBy(s.host, s.epoch)
        THEN /\ lease' = [lease EXCEPT !.until = until]
             /\ Becomes(i, [s EXCEPT !.worker = "renewed", !.answer = until])
        ELSE Becomes(i, [s EXCEPT !.worker = "refused"]) /\ UNCHANGED lease
     /\ UNCHANGED <<hour, installed, opener, failures>>

\* The store is not reached, or the answer is lost.
RenewalFails(i) ==
  /\ sups[i].worker \in {"renewing", "renewed"}
  /\ failures' = failures + 1
  /\ Becomes(i, [sups[i] EXCEPT !.worker = "refused", !.answer = 0])
  /\ UNCHANGED <<lease, hour, installed, opener>>

\* The rest of the tick: any error loses the lease and ends the worker, and so
\* does a renewed lease that has expired by the time it is read.
TickEnds(i) ==
  LET s == sups[i]
  IN /\ s.worker \in {"renewed", "refused"}
     /\ Becomes(i, IF s.worker = "renewed" /\ hour < s.answer
                   THEN [s EXCEPT !.until = s.answer, !.answer = 0, !.active = TRUE,
                                !.worker = "sleeping"]
                   ELSE WorkerEnded(Lost(s)))
     /\ UNCHANGED <<lease, hour, installed, opener, failures>>

\* The worker stops when it is asked to, or is aborted after shutdown_timeout.
WorkerStops(i) ==
  /\ sups[i].stop # "" /\ sups[i].worker # "ended"
  /\ Becomes(i, WorkerEnded(sups[i]))
  /\ UNCHANGED <<lease, hour, installed, opener, failures>>

\* The rest of shutdown: the release is refused or commits,
Releases(i) ==
  /\ sups[i].stop = "release" /\ sups[i].worker = "ended"
  /\ Becomes(i, [sups[i] EXCEPT !.stop = "done"])
  /\ lease' = [lease EXCEPT !.held = @ /\ ~OwnedBy(sups[i].host, sups[i].epoch)]
  /\ UNCHANGED <<hour, installed, opener, failures>>

\* or does not reach the store in time.
ReleaseFails(i) ==
  /\ sups[i].stop = "release" /\ sups[i].worker = "ended"
  /\ Becomes(i, [sups[i] EXCEPT !.stop = "done"])
  /\ failures' = failures + 1
  /\ UNCHANGED <<lease, hour, installed, opener>>

-----------------------------------------------------------------------------
(* The service's map of supervisors. *)

HasActive(h) == installed[h] # 0 /\ sups[installed[h]].active

\* active_operation_context, admit_current: the status and the gate are both read.
AdmitsWork(h) == HasActive(h) /\ sups[installed[h]].open

CallAt(c, pc) == opener' = [opener EXCEPT ![c].pc = pc]

\* acquire_ownership: the lease is free or has expired.
AcquireLease(c) ==
  LET new == [held |-> TRUE, by |-> c.host, epoch |-> lease.epoch + 1, until |-> hour + LeaseTime]
  IN /\ c.mode = "acquire" /\ opener[c].pc = "new"
     /\ ~Effective
     /\ lease' = new
     /\ opener' = [opener EXCEPT ![c] = [pc |-> "leased", epoch |-> new.epoch,
                                         until |-> new.until, sup |-> 0]]
     /\ UNCHANGED <<hour, sups, installed, failures>>

\* The rest of acquire_and_install, under the lock of the map.  The supervisor it
\* replaces was fenced by the acquisition and is stopped without a release.
InstallAcquired(c) ==
  LET h == c.host
      i == installed[h]
      o == opener[c]
      before == IF i = 0 THEN sups ELSE [sups EXCEPT ![i] = ShutDown(@, "stop")]
  IN /\ c.mode = "acquire" /\ o.pc = "leased"
     /\ IF (HasActive(h) /\ sups[i].epoch = o.epoch) \/ ~Startable(o.until)
        THEN UNCHANGED <<sups, installed>>
        ELSE /\ sups' = Append(before, Started(h, o.epoch, o.until))
             /\ installed' = [installed EXCEPT ![h] = Len(sups) + 1]
     /\ CallAt(c, "done")
     /\ UNCHANGED <<lease, hour, failures>>

\* install_reconciled_supervisor: the lease is read,
ReadLease(c) ==
  /\ c.mode = "reconcile" /\ opener[c].pc = "new"
  /\ IF Effective /\ lease.by = c.host
     THEN opener' = [opener EXCEPT ![c] = [pc |-> "leased", epoch |-> lease.epoch,
                                           until |-> lease.until, sup |-> 0]]
     ELSE CallAt(c, "done")
  /\ UNCHANGED <<lease, hour, sups, installed, failures>>

\* a supervisor is started, and its worker with it,
StartReconciled(c) ==
  LET o == opener[c]
  IN /\ c.mode = "reconcile" /\ o.pc = "leased"
     /\ IF Startable(o.until)
        THEN /\ sups' = Append(sups, Started(c.host, o.epoch, o.until))
             /\ opener' = [opener EXCEPT ![c].pc = "started", ![c].sup = Len(sups) + 1]
        ELSE CallAt(c, "done") /\ UNCHANGED sups
     /\ UNCHANGED <<lease, hour, installed, failures>>

\* and installed under the lock, unless the installed one is active: then the new
\* one is dropped, as an exact replay or with an error.
InstallReconciled(c) ==
  LET h == c.host
      i == installed[h]
      n == opener[c].sup
  IN /\ c.mode = "reconcile" /\ opener[c].pc = "started"
     /\ IF HasActive(h) THEN Becomes(n, Dropped(sups[n])) /\ UNCHANGED installed
        ELSE /\ sups' = IF i = 0 THEN sups ELSE [sups EXCEPT ![i] = Dropped(@)]
             /\ installed' = [installed EXCEPT ![h] = n]
     /\ CallAt(c, "done")
     /\ UNCHANGED <<lease, hour, failures>>

\* has_active_supervisor removes one that is not.
RemoveInactive(h) ==
  /\ installed[h] # 0 /\ ~AdmitsWork(h)
  /\ Becomes(installed[h], Dropped(sups[installed[h]]))
  /\ installed' = [installed EXCEPT ![h] = 0]
  /\ UNCHANGED <<lease, hour, opener, failures>>

\* release_all takes the supervisor out of the map and shuts it down.
ReleaseAll(h) ==
  /\ installed[h] # 0
  /\ Becomes(installed[h], ShutDown(sups[installed[h]], "release"))
  /\ installed' = [installed EXCEPT ![h] = 0]
  /\ UNCHANGED <<lease, hour, opener, failures>>

CrashHost(h) ==
  /\ \E i \in DOMAIN sups : sups[i].host = h
  /\ sups' = [i \in DOMAIN sups |->
                IF sups[i].host = h THEN [WorkerEnded(Lost(sups[i])) EXCEPT !.stop = "done"] ELSE sups[i]]
  /\ installed' = [installed EXCEPT ![h] = 0]
  /\ opener' = [c \in Openers |-> IF c.host = h /\ opener[c].pc # "new"
                                  THEN [opener[c] EXCEPT !.pc = "done"] ELSE opener[c]]
  /\ UNCHANGED <<lease, hour, failures>>

WorkerStep(i) ==
  i \in DOMAIN sups /\ (TickBegins(i) \/ RenewalCommits(i) \/ TickEnds(i) \/ WorkerStops(i))

OpenerStep(c) ==
  \/ AcquireLease(c) \/ InstallAcquired(c)
  \/ ReadLease(c) \/ StartReconciled(c) \/ InstallReconciled(c)

-----------------------------------------------------------------------------
\* A host that lets work in under an ownership it has lost: its lease expired, was
\* released, or is another's.
Outlived(h) == AdmitsWork(h) /\ ~OwnedBy(h, sups[installed[h]].epoch)

\* A host does not go on admitting work under an ownership it has lost, whichever
\* supervisor a late call installed and whatever became of the renewals
\* (OwnershipState::tick, WorkerGuard, install_reconciled_supervisor).
LostIsNoticed == \A h \in Hosts : []<>~Outlived(h)
=============================================================================
