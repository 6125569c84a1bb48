------------------------------ MODULE Holdings ------------------------------
(***************************************************************************)
(* What the service holds for its clients: the three users of the capacity *)
(* ledger, the sessions themselves, and the leases of the sessions.  The   *)
(* users meet only in the ledger and take disjoint resources of it, and a  *)
(* session is opened, closed and supervised without it, so a scenario lets *)
(* one of the five run and bounds it.                                      *)
(***************************************************************************)
EXTENDS Artifacts, Subscriptions, Negotiation, SessionDirectory, Supervision

CONSTANT Scenarios

VARIABLES
  scenario,  \* the component that runs, who takes part, and its bounds
  crashes,   \* crashes and shutdowns so far
  lapses     \* leases that expired under the directory so far

vars == <<ledger, subscriptionVars, artifactVars, negotiationVars, directoryVars,
          supervisionVars, scenario, crashes, lapses>>

Init ==
  /\ scenario \in Scenarios /\ ledger = EmptyLedger /\ crashes = 0 /\ lapses = 0
  /\ SubscriptionsInit /\ ArtifactsInit /\ NegotiationInit /\ DirectoryInit
  /\ SupervisionInit

Stopping == crashes < scenario.crashes /\ crashes' = crashes + 1
Going == UNCHANGED crashes

OnlyWrites == /\ scenario.part = "writes"
              /\ UNCHANGED <<subscriptionVars, negotiationVars, directoryVars, supervisionVars,
                             scenario, lapses>>
OnlyClients == /\ scenario.part = "clients"
               /\ UNCHANGED <<subscriptionVars, artifactVars, directoryVars, supervisionVars,
                              scenario, lapses>>

StreamsNext ==
  /\ scenario.part = "streams"
  /\ UNCHANGED <<artifactVars, negotiationVars, directoryVars, supervisionVars, scenario, lapses>>
  /\ \/ Going /\ now < scenario.time /\ Tick
     \/ Going /\ \E d \in scenario.daemons, s \in scenario.sessions :
          \/ owner[s].epoch < scenario.epochs /\ AcquireOwnership(d, s)
          \/ Renew(d, s)
          \/ \E t \in scenario.calls : Subscribe(d, s, t)
     \/ Going /\ \E s \in scenario.sessions : events[s] < scenario.events /\ AppendEvent(s)
     \/ Going /\ \E t \in scenario.calls : StreamStep(t) \/ CloseStream(t)
     \/ Stopping /\ \E d \in scenario.daemons : StopDaemon(d) \/ CrashDaemon(d)
     \/ Going /\ \E d \in scenario.daemons :
          CloseRegistry(d) \/ FinishShutdown(d) \/ OpenStore(d)

WritesNext ==
  /\ OnlyWrites
  /\ \/ Going /\ \E w \in scenario.calls \cap Writes : CallStep(w) \/ CancelWrite(w)
     \/ Going /\ \E id \in releasing : ReleaseTask(id)
     \/ Going /\ \E r \in scenario.calls \cap Reads : ReadStep(r)
     \/ Going /\ \E d \in scenario.calls \cap Deletes : Delete(d)
     \/ Going /\ \E x \in scenario.calls \cap Erases :
          AuthorizeErase(x) \/ Unlink(x) \/ RecordErasure(x)
     \/ Stopping /\ Crash
     \/ Going /\ Restart
     \/ Going /\ \E s \in scenario.sessions : epoch[s] < scenario.epochs /\ Reacquire(s)
     \/ Going /\ today < scenario.time /\ Day

ClientsNext ==
  /\ OnlyClients
  /\ \/ Going /\ \E c \in scenario.calls : ClientStep(c) \/ Abandon(c)
     \/ Stopping /\ StopServing
     \/ Going /\ StartServing

DirectoryNext ==
  /\ scenario.part = "directory"
  /\ UNCHANGED <<ledger, subscriptionVars, artifactVars, negotiationVars, supervisionVars, scenario>>
  /\ \/ Going /\ UNCHANGED lapses /\ \E c \in scenario.calls : OpenStep(c)
     \/ Going /\ UNCHANGED lapses /\ \E s \in Ids :
          \/ scenario.events > 0 /\ (Work(s) \/ WorkEnds(s))
          \/ SupervisorEnds(s)
          \/ s \in DOMAIN dir /\ dir[s].epoch < scenario.epochs /\ OtherAcquires(s)
     \/ Going /\ lapses < scenario.time /\ lapses' = lapses + 1 /\ \E s \in Ids : LeaseExpires(s)
     \/ Stopping /\ DaemonRestarts /\ UNCHANGED lapses

OnlyOwners ==
  /\ scenario.part = "owners"
  /\ UNCHANGED <<ledger, subscriptionVars, artifactVars, negotiationVars, directoryVars,
                 scenario, lapses>>

OwnersNext ==
  /\ OnlyOwners
  /\ \/ Going /\ hour < scenario.time /\ Hour
     \/ Going /\ \E i \in DOMAIN sups : WorkerStep(i)
     \/ Going /\ \E i \in DOMAIN sups :
          failures < scenario.events /\ (RenewalFails(i) \/ ReleaseFails(i))
     \/ Going /\ \E i \in DOMAIN sups : Releases(i)
     \/ Going /\ \E c \in scenario.calls : OpenerStep(c)
     \/ Going /\ \E h \in Hosts : RemoveInactive(h)
     \/ Stopping /\ \E h \in Hosts : ReleaseAll(h) \/ CrashHost(h)

Next == StreamsNext \/ WritesNext \/ ClientsNext \/ DirectoryNext \/ OwnersNext

\* The daemon's runtime polls every call and every spawned task that is ready, a
\* renewal worker's sleep ends, and a daemon that went down is started again.
Fairness ==
  /\ \A w \in Writes : WF_vars(OnlyWrites /\ w \in scenario.calls /\ Going /\ CallStep(w))
  /\ \A id \in UNION {{CountId(w), BytesId(w)} : w \in Writes} :
       WF_vars(OnlyWrites /\ Going /\ ReleaseTask(id))
  /\ \A c \in Clients : WF_vars(OnlyClients /\ c \in scenario.calls /\ Going /\ ClientStep(c))
  /\ WF_vars(OnlyClients /\ Going /\ StartServing)
  /\ \A i \in 1..Cardinality(Openers) : WF_vars(OnlyOwners /\ Going /\ WorkerStep(i))

Spec == Init /\ [][Next]_vars /\ Fairness

-----------------------------------------------------------------------------
\* The usage counters kept beside the reservation rows are the sums over the
\* unreleased rows, however reservation, replay, conversion, release by a call
\* and again by its guard, reclaiming and restarts interleave;
\* and what is reserved and what the stored rows use stay within every limit, for
\* each session and for all of them.  Every subscription row has its lease and
\* every lease its row, so the audit of the next open never refuses the store.
LedgerSound ==
  /\ Agrees(ledger) /\ AuditLeases
  /\ \A r \in Resources :
       /\ \A s \in Sessions : ledger.session[s][r] + Derived({s}, r) \in 0..Limits[r].session
       /\ ledger.global[r] + Derived(Sessions, r) \in 0..Limits[r].global

\* A reservation that was made for a call dropped before the answer reached it.
Unnoted(id) ==
  \E w \in Writes : /\ writes[w].pc = "leaking" /\ id \in {CountId(w), BytesId(w)}
                    /\ \A i \in 1..Len(writes[w].held) : writes[w].held[i] # id

\* No row of the ledger that a write call made stays unreleased once the call has
\* returned, has failed or was dropped by its client: "Dropping the write future ...
\* must release the already-created artifact-count reservation".  Two things leave one
\* behind: a crash of the daemon, and a drop while the answer to the reservation is
\* on its way, when no guard knows of it yet.
EndedCallsRelease ==
  []<>(\/ crashes > 0
       \/ \A w \in Writes : writes[w].pc \in {"done", "failed", "leaking"} =>
            \A id \in {CountId(w), BytesId(w)} \cap DOMAIN ledger.rows :
              ledger.rows[id].released \/ Unnoted(id))
=============================================================================
