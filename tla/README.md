# A TLA+ model of Navigator

Navigator runs long-lived agent sessions on hosts that may crash, lose the
session to another host, or be restarted.  Its promises are about what survives
that: one effective owner per session, messages delivered once and in order,
operations that end once, drivers that do not outlive their owner, tools and
effects that are not repeated, capacity that is given back, and a recovery that
continues only what is provably safe.  The modules here model the code that
keeps those promises, TLC checks them on small instances, and TLAPS proves the
central ones for every instance.

`PROJECT.json` maps every definition to the lines it models and lists the runs,
the properties, the mutants that show each property can fail, the hazards of the
code and the theorems.

## The system and its parts

A *consumer* talks to a host (`navigatord`, `navigator-local`).  The host keeps
everything durable in one SQLite store (`navigator-store-sqlite`), runs one
worker task per operation (`navigator-core`), and launches one driver process
per participant (`navigator-supervisor`), to which it delivers messages over a
socket.  Several hosts may share a store; a session belongs to one of them at a
time, under a *fencing epoch* that grows with every acquisition.

| Part | State | Operations | Modules |
| --- | --- | --- | --- |
| Session store | session row with owner, epoch, time floor; event log; request ledger | open, close, acquire, renew, release, create root, validate authority | `SessionOwnership`, `FencedLease` |
| Mailbox and delivery | message rows, counters; delivery loops; the driver's acceptance journal | enqueue, lease, transition, recover, retire; deliver, query, cancel | `Mailbox`, `Delivery` |
| Execution permits | active count, per-campaign queues | acquire, release, give up | `FairCapacity` |
| Operations and workers | operation row, ledger, worker registry, tasks | start, resume, transition, cancel, question and answer, shutdown | `OperationWorkers` |
| Launch and supervision | launch records, processes, driver cache, watchdogs | launch, attach, replace, stop, compensate, watch | `Launch`, `DriverExecutor` |
| Recovery | inventory, classifications, plan | resume, open in resume mode, resolve uncertainty | `Recovery` |
| Tools and the broker | provider connections, invocations, ledger; calls, deadline tasks, streams | connect, call, reserve, dispatch, transition, cancel, replay | `ToolInvocation`, `ToolBroker` |
| Python tool provider | watermark, handlers, unacknowledged terminals | connect, read a frame, run a handler, reconnect | `ToolProvider` |
| Effect journal | effect rows with leases and authorities | reserve, start, finish, take over, resolve with a grant | `EffectJournal` |
| Approvals | requests, grants, decisions and their relay, effect intents | request, approve, deny, expire, revoke, consume, finish, deliver | `ToolInvocation`, `ApprovalDecision` |
| Tool registration and catalogs | registrations, routed providers, catalogs, cached drivers | register, connect, resolve a catalog, reuse, launch, reconnect | `ToolCatalog` |
| Projections | event log, generations of views, page tokens | append, rebuild, publish, collect, quarantine, read a page | `Projection` |
| Capacity reservations | reservation rows and their counters | reserve, replay, convert, release, reclaim | `Reservations` |
| Event subscriptions | stream leases, background tasks | subscribe, renew, page, reclaim, shut down | `Subscriptions` |
| Artifacts | rows, receipts, blobs and temporary files | prepare, write, publish, read a range, delete, erase | `Artifacts` |
| Negotiation | pending and bound clients | negotiate, bind, disconnect | `Negotiation` |
| Ownership supervision | supervisors with their gates and renewal workers, the host's map of them, the lease | acquire or reconcile and install, renew, lose, stop, release, crash | `Supervision` |
| Session directory | consumer key to session, templates, root policies | open exactly, open, resume, reset | `SessionDirectory` |
| Hierarchy and authority | participant tree, policies, grants, messages between participants | spawn, ask, answer, remind, cancel a child or a subtree | `Hierarchy` |
| Session close | progress of each attempt to close | cancel and wait, check, close | `SessionClose` |
| Driver connection | control calls, observation cursor, tool correlation | deliver, query, observe, reconnect, remind | `DriverLink` |
| Pi driver | journal, acceptances, events, results | start, accept, prompt, report, command, cancel, stop | `PiDriver` |

Parts that share state or a question are composed: `ToolBroker` composes the
invocations, approvals and provider of one call, `MCToolBroker` puts the broker
beside the journal, the decisions and the catalogs; `Holdings` composes
everything that reserves capacity with the directory and the supervisors; `SessionClose` runs over
the tree of `Hierarchy`; `DriverLink` joins the host's side of the connection to
`PiDriver`.  An `MC...` module gives each composition its instances.

The behaviours that make these parts hard, and which the models therefore have:
two hosts around an expiring lease with clocks that disagree or step back;
requests retried after a lost answer; driver calls that time out and arrive
late; futures dropped between two awaits; crashes of hosts and drivers between
any two commits; snapshots used after the state has moved on; processes that
resist being stopped; files and rows that are written one after the other.  The
hazards are in `PROJECT.json` with their lines.

## How the models are built

- **Store transactions are single steps.**  Every mutation runs in one
  `BEGIN IMMEDIATE` transaction.  A crash before its commit leaves no trace, one
  after it loses only the answer.
- **Everything between two awaits is a step**, and anything may happen in
  between.  A critical section under a mutex is one step, or several with a flag
  that excludes the others.
- **Ownership is layered.**  `SessionOwnership` models leases with clocks and
  shows by refinement that they are a `FencedLease`.  The other modules use what
  that abstraction offers: a current owner and an epoch.
- **Opening the store audits it.**  A host that restarts opens the store only if
  its rows pass the audits of `database.rs`; the actions that restart a host have
  the audit as a guard (`AuditTools`, `AuditLeases`, `AuditProjections`,
  `AuditTopology`, ...), and a property of each run says that it always passes.
- **Derived identities.**  Request and attempt ids that the code obtains by
  hashing a tuple are that tuple, so that collisions happen exactly where two
  different calls hash the same tuple.
- **Scenarios.**  `scenario` is fixed in the initial state and says who takes
  part and how often tenures change, calls fail and processes crash.  One run
  then explores several small instances, each with few actors, where a single
  instance with all of them would be out of reach.  A property that is promised
  under a condition names it through `scenario`.

### Session: `SessionOwnership`, `FencedLease`

`row` is the `sessions` row, `events` the log, `ledger` the `request_ledger`,
`memFloor` the in-memory `authority_time_floors`.  There is one action for each
store call (`OpenNew`/`OpenExisting`, `CloseSession`, `AcquireOwnership`,
`RenewOwnership`, `ReleaseOwnership`, `CreateRootParticipant`), one for a
replayed request, and two for the watchdog's validation, which reads outside a
transaction and seals the expiry in a later one.  The observation time of a
mutation is an arbitrary reading, since it is taken before the write lock and
the wall clock may step back; the durable time floor is what makes that safe.

### Delivery: `Mailbox`, `Delivery`

`Mailbox` has the rows and transactions of one mailbox; `Delivery` adds the loop
of each host (`drive_once`, `reconcile`), the requests on the wire and the
drivers with their journals.  A row's `lapsed` stands for "the time floor has
reached its deadline".  A request stays on the wire after its call timed out.

### Permits: `FairCapacity`

`active`, `waiting` and `lastServed` are the fields of the mutex-protected
state.  A dropped receiver leaves a closed sender in its queue.  `serving` is the
mutex during `release`'s loop, so that each turn of the loop is a step.

### Operations: `OperationWorkers`

The store part has the transition table, the correlation of reports with
messages, the ledger and the effect of `cancel_subtree`.  The worker part has
`start`, `resume_existing`, `cancel_subtree`, `shutdown_until`, the registry and
the worker's loops; a worker acts on the snapshot it loaded.  The mailbox pump
delivers the input of a queued operation beside the worker.  A driver ends with
any of the five outcomes, or with one whose payload is over its bound: the
executor does not bound payloads, the worker turns such a report into a failure.

### Drivers: `Launch`, `DriverExecutor`

An attempt is the pair of an epoch and a configuration.  `Launch` has the
records, the processes with their groups and `stop_with_deadline`;
`DriverExecutor` has `driver_for` from drain to cache, `shutdown_matching`, which
lists the cached drivers once the registry is drained, the compensation of a
failed launch and the watchdogs.  A pending launch is reconciled by what its record says.  `Drop`
abandons the future that holds the launch lock at any await.

### Recovery: `Recovery`

One operation, its message and one effect, and a launch per epoch.  A call goes
through acquisition or reuse of an epoch, the inventory, inspection of
processes, the record of classifications and then its actions, one step each;
two calls may overlap.  `other` is the epoch at which the backend has installed
another session, which the record of classifications may be made out to.

### Tools: `ToolInvocation`, `ToolProvider`, `ToolBroker`

One operation calls one registered tool of one provider; its effect class,
whether it can be cancelled and whether it needs approval belong to the
scenario.  `ToolInvocation` has the provider's connection row, the invocations
(each with its entry in the effect journal, which moves with it) and the ledger
of transitions, and the request for approval with its grant and the effect
intents.
`ToolProvider` is the loop of the Python SDK with the frames of each connection;
a frame that does not fit makes `provide()` raise, as the code does.  A provider
that does not use the SDK may also fail with an uncertain effect; the intent of
such a call is finished as uncertain.
`ToolBroker` adds the host's tasks: the call (`handle_command_inner`), the task
each call leaves for its deadline, the cancellation of an operation's tools and
the task of each provider stream.  A task uses the snapshot and the provider it
read before its last await.  The broker notices a broken stream late or not at
all; a connection id is fresh per connection, so the generation stands for both.

### Around a tool call: `EffectJournal`, `ApprovalDecision`, `ToolCatalog`

`EffectJournal` has one effect and the tenures that pursue it.  A performer
reserves, starts, acts outside the store and reports; the next tenure takes the
row over when its lease is past; a resolution names the contract, the grant and
the proof it rests on, and both sides may be retried with their request ids.
`ApprovalDecision` has the request a driver raises (the host's whole way from
the report to the row), the consumers that approve, deny and revoke with
revisions they read earlier, the expiry, and the relay of the decision through
the requester's mailbox, whose attempts are counted.  `ToolCatalog` has
registrations with their ledger and limits, the streams of providers with their
generations, and the operations that resolve a catalog and reuse, launch or
reconnect a driver with it.  `MCToolBroker` runs one of them, or the broker, per
behaviour: they share the tenures and the constants, not the state.

### Projections: `Projection`

The log is written by the state machines that write it in the store (launches,
operations, messages, approvals, questions), so that only histories the store
can produce are folded.  A projector reads the head, reads the events, folds
them and publishes in separate transactions, and its process may die between any
two; a reader keeps the token of its last page.  The fold is checked against a reference that reads the latest event
of each entity off the log.

### Holdings: `Reservations`, `Artifacts`, `Subscriptions`, `Negotiation`, `SessionDirectory`, `Supervision`

`Reservations` has the rows, the counters and the limits; the other three are
its users, and each of their calls is a sequence of store transactions and file
operations that may be dropped between any two.  An artifact's content is a
model value and a byte is its position.  `Subscriptions` has the daemons with
their background tasks and the order of their shutdown.  `SessionDirectory` has
the calls of `open_session` in every mode with the deterministic request ids
they derive, the preflight of a reset, and launches that begin meanwhile.
`Supervision` has the supervisors of two hosts: a renewal is a check, a
transaction and what the worker makes of the answer, and calls that acquire or
reconcile install a supervisor a few steps after they learnt of the lease, so
that an expiry, a renewal, a takeover or a crash may fall in between.  It is
where the other modules' assumption comes from that a host whose lease is lost
notices it (`Recovery`'s `Notice`, `SessionDirectory`'s `SupervisorEnds`).

### Hierarchy: `Hierarchy`, `SessionClose`

`Hierarchy` begins with the algebra of the code: atoms, profiles, the five
ceilings and what a child may be given.  It has the rows of participants,
operations, messages and launches and one action per transaction; a driver's
command (`call`) goes from verification to its commit, to its scheduling and to
its answer in steps, and a worker may be interrupted after each.  A participant
has one operation (`OneOperation` bounds that; the store lets the root start
another one when none is unfinished).  `SessionClose` has the attempts of
`close_owned` with `cancel_before_close` in them: the proof an earlier
cancellation left, the cancellation itself, and after an error of it the proof
again, each time read from the operations first and from the launches then.

### Drivers on the wire: `PiDriver`, `DriverLink`

`journal` is the file: records appended and synced one after the other, and read
back by a process started over it.  The host starts one process for a launch
attempt (a replayed prepare answers without spawning, `supervisor.rs:614`) and the
journal is named after the attempt, so a second one (`Boot`) is what the journal
is written for and the driver's tests do, and only the safety properties say
something new about it.  `srv` is the process; `prompts` is what the agent was
given.  `DriverLink` has the two tasks of the host that share the control
channel (delivery and observation), calls whose answers are late or lost, the
observation cursor with its pending event, the tool guard and the reconnects.

## The runs

| Run | Distinct states | Properties |
| --- | --- | --- |
| `session` | 560 518 | `EventsFenced`: every event stands in the tenure of the host and epoch that caused it. `StableAnswers`: a command has one answer, however often it is sent. `ExpiredNeverActs`: a host told that its lease expired commits nothing under it. `ImplementsFencedLease`: the store refines the abstract lease. |
| `delivery` | 518 477 | `AcceptedIsPerformed`: no message is settled as accepted without the proof of that attempt. `ActedOnceInOrder`: a driver instance acts on a message once, and in mailbox order within a priority. `EventuallySettled`: the mailbox drains. |
| `capacity` | 14 876 | `WithinCapacity`, `Rotates`: no campaign is served twice while another waits. `WaiterServed`. |
| `workers` | 615 092 | `AckedIsCommitted`: a report is forgotten by the driver only when the operation has durably ended with it, or has failed for one over its bound. `OneWorker` per host, none after shutdown. `Settles`: a queued operation ends. |
| `launch` | 330 166 | `StoppedIsGone`: a stopped record means a dead process. `OneDriver` at a time, never a forgotten one. `FencedDriverEnds`. |
| `recovery` | 681 408 | `ContinuesSafely`: work is continued only under a recorded classification without barriers that still holds. `ResumeContinues`: an insisting consumer gets queued work scheduled, where no two installed sessions share an epoch number. |
| `tools` | 1 621 862 | `UnsafeOnce`, `Truthful`, `ApprovalAgrees` of a call; `JournalTruthful` of an effect over tenures; `ToldAsDecided` of a decision; `OffersStand` of catalogs and drivers. |
| `projection` | 44 599 | `RowsAreCurrent`: a published generation is the latest state of each entity at its checkpoint. `PagesPinned`: the pages of one read are one generation. |
| `holdings` | 446 833 | `LedgerSound`: counters are the sums of their rows and within the limits. `LiveLeaseKept`, `AvailableHasBytes`, `EndedCallsRelease`, `ReplacesOnlyStopped` of resets, and `LostIsNoticed`: no host goes on admitting work under an ownership it has lost. |
| `hierarchy` | 746 594 | `DelegationNarrows`: no descendant has authority its ancestors could not give. `NoWorkUnderTombstone`, `OneResumePerQuestion`, `CancelledCloseIsQuiet`. |
| `driver` | 352 779 | `AcceptedNeverDenied`, `InjectedOnce`, `ConsumedStands`: what the host is done with under a number is what every later process shows under it. `AcceptedIsPrompted`. |
| `approval_await` | violated | `RequestIsAwaited`, the finding below. |

**Bounds.**  Two hosts are enough for a takeover and its loser; two or three
epochs for a tenure that returns; two messages for order and three drivers for a
delivery that is retried past a dead one; two permits and three campaigns for a
rotation with something to skip; two connections for a replay, and two calls
for a repeated request or a second user of a grant; two decisions of an
approval, a denial and a revocation for a race with the relay; a grandchild for authority that
passes through two hands; a limit of one where only the last slot matters; two
boots of a driver for a journal that is read back; one fault or crash per
scenario, placed anywhere.  Clocks show 0..2 and leases last one or two units, so
leases are renewed before and after expiry.  Counters are bounded by the
scenario or by the named constants (`MaxEvents`, `MaxLease`, `MaxAttempts`,
`MaxQueued`, `MaxQueue`, `MaxLeaks`, `MaxTries`, `MaxEpoch`, `MaxRevision`,
`RelayAttempts`, `MaxTools`, `MaxProviders`, `MaxDeliveries`, `MaxOutcomes`,
`MaxAsked`, `MaxCloses`, `ChunkBytes`).  The limits the code itself has (`Limits`,
`MaxChildren`, `MaxDepth`, `MaxParticipants`) are constants too, small enough to
be reached.

**Deadlock** is checked in `session` only: elsewhere the bounds on requests,
tenures and faults let every instance come to rest.

**Fairness** is what the runtime guarantees and no more.  A task that can run is
polled (weak fairness of each loop or step, a supervisor's renewal worker
included).  Time passes, so leases lapse and
timeouts fire.  A host that was shut down is started again, a session without
owner is taken over, and an insisting consumer calls again; those are assumed of
the environment and named in each module.  A permit is given back because a
worker's observation has an absolute deadline.  The task that a dropped write
leaves to release its reservation runs.  A driver's process that lives serves the
requests it has received and prompts what it has scheduled, as its event loop
does; that a dead one is started again is assumed nowhere.
Drivers are never assumed to answer the host, except in `workers`, where an
unanswered call is a timeout, which is a step of its own.  The safety-only runs
(`session`, `tools`, `projection`, `hierarchy`) assume no fairness.

## What is proved

The theorems hold for every value of the constants that satisfies the `ASSUME`s of
the components, which TLC evaluates in the runs.  Each rests on an inductive
invariant: it holds initially, every action preserves it (one lemma per action, or
per kind of change that several actions share) and it implies the property.  TLC
checked the invariants on the runs' instances before they were proved.

`SessionOwnershipProofs`, for any hosts, commands, clock readings and limits:

- `TypeCorrect`: `Spec => []TypeOK`.
- `LogFenced`: `Spec => []EventsFenced`.  The invariant says that the owner in the
  row is the latest grant, that each event is the recorded effect of its request
  and that the log ends with the tenure the row names (`OwnerLogged`); an
  appended event is then fenced because `require_owner` compared the row.
- `ExpiryIsOneWay`: `Spec => ExpiredNeverActs`.  `ToldNotLive` says that a host and
  epoch told `OwnershipExpired` can no longer be the owner of a lease in force at
  the floor: either the durable floor has passed the expiry, or the epoch is not
  the current one.
- `OneAnswer`: `Spec => []StableAnswers`.  A step replays a recorded outcome,
  records a first one or touches neither ledger nor answers.
- `StoreIsFencedLease`: `Spec => ImplementsFencedLease`.  Under the refinement
  mapping each transaction is a tick of the clock, a grant while no lease is in
  force, a write by the holder, or a stutter.  The abstract writes are read off
  the ledger, so that a replay adds none.

`DeliveryProofs`, for any hosts, driver instances, messages and attempts:

- `AcceptanceIsProved`: `Spec => []AcceptedIsPerformed`;
- `DeliveredInOrder`: `Spec => []ActedOnceInOrder`.

The order needs three layers.  A row with an open earlier row of its priority has
no attempt (`RowInv`), because only the first open message is leased afresh.
Whatever a loop, the wire or a journal holds is of a message with an attempt
(`LeasedInv`), however late it arrives.  A driver's effects are what its journal
records (`DriverInv`).

The same module, for any number of workers, campaigns and permits:

- `PermitsBounded`: `PermitsSpec => []WithinCapacity`;
- `PermitsUsed`: `PermitsSpec => []NoIdlePermit`, a free permit means that no sender
  is queued;
- `CampaignsRotate`: `PermitsSpec => []Rotates`.

The first needs that `active` counts exactly owned and lost permits.  The second
needs that the queues hold exactly the waiting tasks, each once (`QueuesExact`,
`WaitersQueued`).  For the third, the campaigns served while `c` waits lie, in
cyclic order, after `c` and not after the last one served
(`RoundNotComplete`): since `c` stays a key of the map, the next key never jumps
over it, so no campaign comes up twice before `c` does.

`OperationWorkersProofs`, for any hosts, tasks, tenures, faults and cancellations:

- `AcknowledgedIsDurable`: `Spec => []AckedIsCommitted`.  A task about to
  acknowledge carries the command it committed, and the ledger's positive answers
  still stand (`OutcomeInv`), because a terminal operation never changes.  A
  report over its bound ends the operation as failed and is acknowledged too; the
  property says so.
- `OneWorkerEach`: `Spec => []OneWorker`.  Until something is cancelled the
  registry of a host knows every live worker by its handle (`RegistryInv`).

The same module, for any registrations, provider streams, operations and tenures:

- `OffersAreKept`: `CatalogSpec => []OffersStand`.  Registrations stay, so what was
  true of the registry when a command was recorded, a stream connected or a
  catalog read is true when it is used.

`DriverExecutorProofs`, with the invariant in `DriverExecutorLemmas`, for any
configurations, tenures and budgets of faults, dropped futures and crashes:

- `StoppedHasNoProcess`: `Spec => []StoppedIsGone`;
- `OneDriverAtATime`: `Spec => []OneDriver`.

Neither is inductive.  That a stopped record has no process needs that a launch is
prepared once and therefore spawned at most once, also by a spawn whose caller was
dropped (`RecordInv`), and that a task, a watchdog or a ledger entry that says
"stopped" read it from a record that stays so (`StopInv`, `DogInv`, `LedgerInv`).
One driver at a time needs to know, for each point at which the holder of the
launch lock may be dropped, what it has already emptied: before it adds an attempt
the registry and the cache are empty (`TaskInv`, `KnownInv`).

`HoldingsProofs`, for any calls, daemons, streams and limits:

- `AvailableKeepsBytes`: `ArtifactsSpec => []AvailableHasBytes`.  A blob is only
  removed once its row is past `available`, which is for good; a write that has
  linked its blob still finds it when it commits the row; a read sends the part of
  its range before its position, from the snapshot of the row.
- `LiveLeasesStay`: `SubscriptionsSpec => []LiveLeaseKept`.  An attached stream
  whose owner still holds the session finds its lease as it left it
  (`LeaseInv`), and no reclaim takes a lease that has not lapsed at a floor that
  is never ahead of the clock (`ClockInv`).
- `ResetsReplaceStopped`: `DirectorySpec => ReplacesOnlyStopped`.  Only the step that
  commits the open takes a call from there to an open session, whatever the other
  calls do between its awaits, and that step looks again at every session of the
  Consumer.

`ToolLedgersProofs`, for any calls, tenures, decisions and contract:

- `ToldIsDecided`: `DecisionSpec => []ToldAsDecided`.  A request is decided once;
  the relay, the recorded commands, the calls that succeeded and what the driver
  was told agree with that decision.
- `JournalIsTruthful`: `EffectSpec => []JournalTruthful`.  While the journal says
  that the effect may be started nobody pursues it, afterwards one performer at
  most does and the effect has not happened (`PursuitInv`); a performer that only
  lost the answer to its start counts as one that pursues it.

`HierarchyProofs`, for any participants, templates, commands and limits, with
`Spec` the tree together with the close of its session:

- `AuthorityNarrows`: `Spec => []DelegationNarrows`.  The property is not
  inductive: a spawned child is compared with its parent only, so that it stays
  within the root's authority needs its parent to be within it already, which
  needs the shape of the tree (`Rooted`).
- `QuestionsResumeOnce`: `Spec => []OneResumePerQuestion`.  A wait names a recorded
  question that no other operation waits on and that no answer has resumed
  (`WaitInv`).
- `CancelledTreesEnd`: `Spec => []NoWorkUnderTombstone`, along the shape of the tree
  (`TombInv`).
- `ClosedIsQuiet`: `Spec => []CancelledCloseIsQuiet`.  The close looks at operations
  and at launches in separate steps; what it saw still holds when it commits,
  because the whole tree is marked by then and a marked participant gets neither
  an operation nor a launch (`MarkInv`, `CloseInv`).

`ArtifactsSpec`, `SubscriptionsSpec`, `DirectorySpec`, `CatalogSpec`, `DecisionSpec`
and `EffectSpec` are the components on their own.  The runs check the properties in
compositions (`Holdings`, `MCToolBroker`), which take the components' actions with
further bounds in their guards and leave the variables of the others unchanged.  A
behaviour of a composition is therefore one of each of its components; this is
seen from the text of the compositions and is not a theorem.

**Model-checked only.**

- Liveness (`EventuallySettled`, `WaiterServed`, `Settles`, `FencedDriverEnds`,
  `ResumeContinues`, `EndedCallsRelease`, `LostIsNoticed`, `AcceptedIsPrompted`): the
  prover has no rules for fairness.
- `RowsAreCurrent` and `PagesPinned`: the fold of the log is recursive, and what a
  recursion computes for every log needs an induction over data.
- `LedgerSound`: the counters are sums over the rows, which again need an
  induction.
- `UnsafeOnce`, `Truthful` and `ApprovalAgrees` of the broker, `ContinuesSafely` of
  recovery, and `AcceptedNeverDenied`, `InjectedOnce` and `ConsumedStands` of the
  driver connection: nothing in them is out of the prover's reach, but no inductive
  invariant has been worked out for these compositions.

## Finding

`approval_await`: a driver's approval report is returned to the worker as a
question of the operation.  The request is committed, but nothing moves the
operation to `waiting`; the worker that looks at it fails the operation
("Question was not committed atomically"), and from then on every decision is
refused because the operation is not live.

## Conditions and what lies outside them

Some properties are stated under a condition because the code does not promise
more.  The models contain the behaviour outside the condition.

- *Delivery.*  `EventuallySettled` is stated for hosts that commit a call's
  result before its lease lapses.  A host that stalls past its lease between the
  driver call and the `AcceptanceUnknown` transition commits a row that
  `MessageSnapshot::is_structurally_valid` rejects when it is next decoded
  (`mailbox.rs:128`), and the mailbox stands still.
- *Permits.*  `WithinCapacity` and `WaiterServed` count permits that were sent to
  a worker aborted before it was polled: the value is dropped inside the channel
  and `release` never runs (`first_operation.rs:274`).
- *Workers.*  `OneWorker` holds where no cancellation was requested.  A
  resumption between the removal of a worker's handle and its abort leaves a
  worker the registry does not know.  `Settles` holds for tenures that end
  cleanly: a command of an old tenure that is refused late occupies a request id
  every later owner derives; a wake-up may be consumed by a worker of an old
  tenure; an answer that arrives before the worker has looked at its committed
  question ends the operation as uncertain; a terminal report that races a
  cancellation stays unacknowledged.
- *Drivers.*  `StoppedIsGone` speaks of the process group where no Store call
  failed: the compensation of a failed attach records `Stopped` on the leader's
  exit alone.  `FencedDriverEnds` speaks of drivers that still have their
  watchdog.
- *Recovery.*  `ResumeContinues` is stated for `ResumeSession`, one call at a
  time, whose Store calls do not fail.  A call that fails after it installed an
  epoch leaves a supervisor, and later calls are told that the session is already
  supervised.  `record_classifications` finds the session of a call by its bare
  epoch among all installed sessions (`recovery_backend.rs:237`): where two are
  installed at the same number it may take the other one, the Store refuses the
  record, and the call has failed after its installation.  `NotRecorded` models
  this and the property is stated for behaviours in which no two installed
  sessions share an epoch number.  `OpenSession` in resume mode records its request id and then uses
  the same id for the classification, which is refused as a collision, so it
  never continues work (`service.rs:2857`).
- *Tools.*  `Truthful` and `ApprovalAgrees` speak of unsafe tools.  A read-only
  or idempotent invocation may be recorded as failed although its handler ran,
  and the intent of a call whose frame could not be sent may be recorded as
  failed while a reconnect dispatches the invocation again.  The deadline task
  makes one transition on the revision it read and drops its error
  (`tool_broker.rs:1237`), so a handler that hangs may leave its invocation
  started.  An unsafe invocation started before its host lost the session can be
  neither completed nor marked uncertain by a later tenure.
- *Effect journal.*  An effect whose retry was authorized has a lease of ten
  seconds and can be neither taken over nor resolved again.  A delayed
  resolution with an old proof of absence can be applied to a later uncertainty.
- *Approvals.*  `ToldAsDecided` promises no delivery: a granted decision whose
  grant was revoked before it was delivered ends as a dead letter.  A retried
  decision of a later tenure is answered as a conflict, because its digest
  includes the epoch.  Nothing outside tests calls `expire_approval`.
- *Catalogs.*  `OffersStand` speaks of operations with tools: an operation whose
  catalog is empty reuses the cached driver with what it shows.  A tool
  registered after a launch is not seen before the next launch.
- *Projections.*  A failure view's row takes the revision of the failed entity,
  and the fold accepts a first event only at revision 1 (`store.rs:2182`), so
  some histories are quarantined.  Two rebuilders may publish an older
  checkpoint after a newer one; `RowsAreCurrent` is about each generation.
- *Holdings.*  `EndedCallsRelease` is about writes, and excepts one case besides a
  crash: a write's guard exists only once the count reservation has answered, and
  learns of the byte reservation only once that has answered
  (`artifact_store.rs:104-132`), so a future dropped while a committed
  reservation's answer is on its way (`NoteReservation` has not happened) leaves
  that row until an exact retry notes it.  A negotiation that is dropped
  leaves its reservation until the store is opened again, and so does a
  subscription spawned while the host shuts down.  An exact retry of a write
  whose artifact was erased creates the blob again; a retry of one that failed
  replays a released reservation and is refused.  `derived_capacity_usage`
  filters the state `erased`, while the stored name is `physically_erased`, so
  erased artifacts count against the limits.
- *Directory.*  `ReplacesOnlyStopped` is about the reset that commits the
  replacement.  A retried reset that lost its answer reads the ledger before it
  looks at the directory again, and may close a replacement that another reset
  opened meanwhile.  The requests that create the root and its policies have
  fixed ids: a failure recorded under one of them is replayed by every later
  open.  A launch that begins between the close's check and the close makes every
  later reset of that consumer fail.
- *Hierarchy and close.*  `CancelledCloseIsQuiet` is about a close that cancelled
  the tree: a close that found nothing to cancel accepts empty evidence, and an
  operation started after its check leaves a closed session with a prepared
  launch (`service.rs:2113`).  An operation cancelled while its launch never
  becomes ready stays `cancelling`, and so does a close that waits for it; a
  cancel notification that became a dead letter keeps a close waiting for ever.
- *Driver connection.*  `AcceptedIsPrompted` excepts what `OutOfReach` names, the
  death of the process first of all: nothing prompts what it had accepted.  A
  failed prompt leaves a message pending and unscheduled, and a process started
  over more such messages than `MAX_PENDING_DELIVERIES` leaves the rest
  unscheduled (`adapter.ts:449`); a reminder that drops
  the observation while a tool command is applied leaves the guard without a
  result and the operation uncertain; control calls that time out do not close
  the stream, so later calls read the previous answer until the reconnect; a
  number taken before a failed append leaves a gap the host refuses; a late
  report of an operation that was already failed makes the next one uncertain.
  `InjectedOnce` is per process: prompting is at least once across a crash.

## What is not modelled

Formatting, logging and wire encodings; payloads, digests, signatures and
authentication tags (a request is equal or different); terminal I/O of drivers
and the private files of an attempt; the lock directory of the Pi journal; input
and output schemas of tools; paging of recovery inventories.  The Store's
transactions are taken to be serializable, as SQLite's are.

Whole parts that stay out: migrating the database and checking its schema, which
happens under an exclusive lock before anything else runs and is a scan of SQL
text (the audits of the rows are modelled, see above);
configuration and driver catalogs, read once at the start; the field-by-field
conversion of protocol messages and the command line over them; the consumer
side of the Python SDK, on whose state the service does not rely; value types,
which are model values here; and the conformance suite.
