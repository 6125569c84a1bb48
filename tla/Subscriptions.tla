--------------------------- MODULE Subscriptions ---------------------------
(***************************************************************************)
(* Event subscriptions of the local service: the permits a daemon holds in *)
(* memory, the durable lease behind each stream, the stream's task, the    *)
(* daemon's shutdown and its crash, and the reclaiming of stale leases.    *)
(* The sessions' ownership is modelled as far as the leases depend on it.  *)
(***************************************************************************)
EXTENDS Reservations, Sequences

CONSTANTS
  Daemons,      \* processes of the hosts; each has its own host id
  Streams,      \* subscribe_events calls, each with a reservation id of its own
  Term,         \* ownership lease length
  PageSize      \* events per page (128 in the code)

ASSUME SubscriptionsAssumption == Term \in Nat \ {0} /\ PageSize \in Nat \ {0} /\ None \notin Daemons

VARIABLES
  leases,   \* subscription_leases: [stream -> [daemon, epoch, expires]]
  owner,    \* sessions: owner_host_id, owner_epoch, owner_expires_at
  floor,    \* sessions: observed_time_floor
  events,   \* number of events of each session
  daemon,   \* daemons: up | stopping | closed | complete | dirty | down
  cleanup,  \* the registry's sticky cleanup_required bit
  stream,   \* the state of each subscribe_events call and its task
  now

subscriptionVars == <<leases, owner, floor, events, daemon, cleanup, stream, now>>

Idle == [pc |-> "idle", session |-> None, daemon |-> None, epoch |-> 0,
         expires |-> 0, held |-> 0, after |-> 0, open |-> TRUE]

SubscriptionsInit ==
  /\ leases = <<>> /\ now = 0
  /\ owner = [s \in Sessions |-> [daemon |-> None, epoch |-> 0, expires |-> 0]]
  /\ floor = [s \in Sessions |-> 0] /\ events = [s \in Sessions |-> 1]
  /\ daemon = [d \in Daemons |-> "up"] /\ cleanup = [d \in Daemons |-> FALSE]
  /\ stream = [t \in Streams |-> Idle]

Running(d) == daemon[d] \in {"up", "stopping", "closed"}

\* In-memory permits: the semaphore and the map of the daemon's sessions.  The
\* permits go when event_loop returns, before the reservation is released.
Permitted == {"permitted", "leased", "looping", "renewing", "paging"}
PermitsOf(d, sessions) ==
  {t \in Streams : /\ stream[t].pc \in Permitted /\ stream[t].daemon = d
                   /\ stream[t].session \in sessions}

-----------------------------------------------------------------------------
(* The sessions and the clock.                                             *)

Tick == now' = now + 1
        /\ UNCHANGED <<ledger, leases, owner, floor, events, daemon, cleanup, stream>>

\* acquire_ownership of an unowned or expired session
AcquireOwnership(d, s) ==
  /\ daemon[d] = "up"
  /\ owner[s].daemon = None \/ owner[s].expires <= now
  /\ owner' = [owner EXCEPT ![s] = [daemon |-> d, epoch |-> @.epoch + 1,
                                    expires |-> now + Term]]
  /\ floor' = [floor EXCEPT ![s] = now]
  /\ UNCHANGED <<ledger, leases, events, daemon, cleanup, stream, now>>

\* the owner's renewal
Renew(d, s) ==
  /\ Running(d) /\ owner[s].daemon = d /\ now < owner[s].expires
  /\ owner[s].expires < now + Term
  /\ owner' = [owner EXCEPT ![s].expires = now + Term]
  /\ floor' = [floor EXCEPT ![s] = now]
  /\ UNCHANGED <<ledger, leases, events, daemon, cleanup, stream, now>>

AppendEvent(s) ==
  /\ owner[s].daemon # None /\ now < owner[s].expires
  /\ events' = [events EXCEPT ![s] = @ + 1]
  /\ floor' = [floor EXCEPT ![s] = now]
  /\ UNCHANGED <<ledger, leases, owner, daemon, cleanup, stream, now>>

-----------------------------------------------------------------------------
(* subscribe_events.                                                       *)

\* read_ownership names this host; both permits are free.
Subscribe(d, s, t) ==
  /\ daemon[d] = "up" /\ stream[t].pc = "idle" /\ owner[s].daemon = d
  /\ Cardinality(PermitsOf(d, Sessions)) < Limits["subscriptions"].global
  /\ Cardinality(PermitsOf(d, {s})) < Limits["subscriptions"].session
  /\ stream' = [stream EXCEPT ![t] =
       [stream[t] EXCEPT !.pc = "permitted", !.session = s, !.daemon = d,
                 !.epoch = owner[s].epoch, !.expires = owner[s].expires]]
  /\ UNCHANGED <<ledger, leases, owner, floor, events, daemon, cleanup, now>>

\* validate_subscription_owner
OwnerAdmits(t) ==
  LET c == stream[t] o == owner[c.session]
  IN /\ o.daemon = c.daemon /\ o.epoch = c.epoch
     /\ floor[c.session] < c.expires /\ c.expires <= o.expires

MutStale(sessions) == {t \in DOMAIN leases : stream[t].session \in sessions}

\* Leases of these sessions whose owner is gone or whose time is past.
Stale(sessions) ==
  {t \in DOMAIN leases :
     LET s == stream[t].session
     IN /\ s \in sessions
        /\ \/ owner[s].daemon # leases[t].daemon
           \/ owner[s].epoch # leases[t].epoch
           \/ leases[t].expires <= floor[s]}

Forget(ids) == leases' = Restrict(leases, DOMAIN leases \ ids)

\* reserve_subscription_lease: reclaims the session's stale leases, then
\* admits against both limits; the error paths roll everything back.
ReserveLease(t) ==
  LET c == stream[t]
      reclaimed == Reclaimed(ledger, Stale({c.session}))
  IN /\ c.pc = "permitted" /\ Running(c.daemon) /\ OwnerAdmits(t)
     /\ Admits(reclaimed, c.session, "subscriptions", 1, 0, 0)
     /\ ledger' = Added(reclaimed, t, c.session, "subscriptions", 1)
     /\ leases' = Put(Restrict(leases, DOMAIN leases \ Stale({c.session})), t,
                      [daemon |-> c.daemon, epoch |-> c.epoch, expires |-> c.expires])
     /\ stream' = [stream EXCEPT ![t].pc = "leased", ![t].held = c.expires]
     /\ UNCHANGED <<owner, floor, events, daemon, cleanup, now>>

\* ... or refuses; releasing the row that was never written is an error too,
\* and marks the daemon.
RefuseLease(t) ==
  LET c == stream[t]
  IN /\ c.pc = "permitted" /\ Running(c.daemon)
     /\ ~( /\ OwnerAdmits(t)
           /\ Admits(Reclaimed(ledger, Stale({c.session})), c.session, "subscriptions", 1, 0, 0))
     /\ stream' = [stream EXCEPT ![t].pc = "refused"]
     /\ cleanup' = [cleanup EXCEPT ![c.daemon] = TRUE]
     /\ UNCHANGED <<ledger, leases, owner, floor, events, daemon, now>>

\* BackgroundTaskRegistry::spawn; a closed registry drops the task and leaves
\* the reservation to be reclaimed.
SpawnTask(t) ==
  /\ stream[t].pc = "leased" /\ Running(stream[t].daemon)
  /\ stream' = [stream EXCEPT ![t].pc =
       IF daemon[stream[t].daemon] = "closed" THEN "unspawned" ELSE "looping"]
  /\ UNCHANGED <<ledger, leases, owner, floor, events, daemon, cleanup, now>>

-----------------------------------------------------------------------------
(* event_loop.                                                             *)

\* The consumer drops the stream.
CloseStream(t) ==
  /\ stream[t].open /\ stream[t].pc \in Permitted
  /\ stream' = [stream EXCEPT ![t].open = FALSE]
  /\ UNCHANGED <<ledger, leases, owner, floor, events, daemon, cleanup, now>>

\* A tick: the stream ends when it is closed, the daemon stops or the session
\* has another owner; else it goes on to renew with the expiry it read.
LoopTick(t) ==
  LET c == stream[t] o == owner[c.session]
  IN /\ c.pc = "looping" /\ Running(c.daemon)
     /\ IF c.open /\ daemon[c.daemon] = "up" /\ o.daemon = c.daemon /\ o.epoch = c.epoch
        THEN stream' = [stream EXCEPT ![t].pc = "renewing", ![t].expires = o.expires]
        ELSE stream' = [stream EXCEPT ![t].pc = "ending"]
     /\ UNCHANGED <<ledger, leases, owner, floor, events, daemon, cleanup, now>>

\* renew_subscription_lease; any error ends the stream.
RenewLease(t) ==
  LET c == stream[t]
      renews == /\ OwnerAdmits(t) /\ t \in DOMAIN leases
                /\ leases[t].daemon = c.daemon /\ leases[t].epoch = c.epoch
                /\ leases[t].expires <= c.expires
  IN /\ c.pc = "renewing" /\ Running(c.daemon)
     /\ IF renews
        THEN /\ leases' = [leases EXCEPT ![t].expires = c.expires]
             /\ stream' = [stream EXCEPT ![t].pc = "paging", ![t].held = c.expires]
        ELSE stream' = [stream EXCEPT ![t].pc = "ending"] /\ UNCHANGED leases
     /\ UNCHANGED <<ledger, owner, floor, events, daemon, cleanup, now>>

\* read_events and the sends of one page.  The cursor moves before each send;
\* a send that fails (the consumer is gone or too slow) ends the stream.
SendPage(t) ==
  LET c == stream[t]
      last == Min({events[c.session], c.after + PageSize})
  IN /\ c.pc = "paging" /\ Running(c.daemon)
     /\ \/ /\ c.open
           /\ stream' = [stream EXCEPT ![t].after = last,
                ![t].pc = IF last < events[c.session] THEN "paging" ELSE "looping"]
        \/ /\ c.after < last
           /\ stream' = [stream EXCEPT ![t].after = @ + 1, ![t].pc = "ending"]
     /\ UNCHANGED <<ledger, leases, owner, floor, events, daemon, cleanup, now>>

\* The task releases the reservation, and the lease with it; a row that was
\* reclaimed is an error, which marks the daemon.
ReleaseLease(t) ==
  /\ stream[t].pc = "ending" /\ Running(stream[t].daemon)
  /\ ledger' = Released(ledger, t) /\ Forget({t})
  /\ cleanup' = [cleanup EXCEPT ![stream[t].daemon] = @ \/ t \notin DOMAIN ledger.rows]
  /\ stream' = [stream EXCEPT ![t].pc = "released"]
  /\ UNCHANGED <<owner, floor, events, daemon, now>>

-----------------------------------------------------------------------------
(* serve: shutdown, crash and restart.                                     *)

BackgroundTasks(d) ==
  {t \in Streams : /\ stream[t].daemon = d
                   /\ stream[t].pc \in {"looping", "renewing", "paging", "ending"}}

StopDaemon(d) ==
  /\ daemon[d] = "up" /\ daemon' = [daemon EXCEPT ![d] = "stopping"]
  /\ UNCHANGED <<ledger, leases, owner, floor, events, cleanup, stream, now>>

\* release_all, then BackgroundTaskRegistry::shutdown_until closes admission.
CloseRegistry(d) ==
  /\ daemon[d] = "stopping" /\ daemon' = [daemon EXCEPT ![d] = "closed"]
  /\ owner' = [s \in Sessions |-> IF owner[s].daemon = d
                                  THEN [owner[s] EXCEPT !.daemon = None] ELSE owner[s]]
  /\ floor' = [s \in Sessions |-> IF owner[s].daemon = d THEN now ELSE floor[s]]
  /\ UNCHANGED <<ledger, leases, events, cleanup, stream, now>>

\* wait_or_abort_all and the sticky bit
ShutdownOutcome(d, aborted) ==
  IF aborted \/ cleanup[d] THEN "dirty" ELSE "complete"

\* The process ends: tasks and calls go with it.
Gone(d) ==
  stream' = [t \in Streams |->
    IF stream[t].daemon # d THEN stream[t]
    ELSE [stream[t] EXCEPT !.pc = CASE @ = "leased" -> "unspawned"
                                    [] @ \in {"released", "refused", "unspawned"} -> @
                                    [] OTHER -> "lost"]]

\* All tasks have ended, or the deadline passes and the rest are aborted.
FinishShutdown(d) ==
  /\ daemon[d] = "closed"
  /\ daemon' = [daemon EXCEPT ![d] = ShutdownOutcome(d, BackgroundTasks(d) # {})]
  /\ Gone(d)
  /\ UNCHANGED <<ledger, leases, owner, floor, events, cleanup, now>>

CrashDaemon(d) ==
  /\ Running(d) /\ daemon' = [daemon EXCEPT ![d] = "down"]
  /\ Gone(d)
  /\ UNCHANGED <<ledger, leases, owner, floor, events, cleanup, now>>

\* ... and of the leases: each has an unreleased row of one subscription of its
\* session, and each such row has its lease.
AuditLeases ==
  /\ \A t \in DOMAIN leases :
       Consumable(ledger, t, stream[t].session, "subscriptions", 1) /\ leases[t].epoch > 0
  /\ \A id \in DOMAIN ledger.rows :
       (ledger.rows[id].resource = "subscriptions" /\ ~ledger.rows[id].released)
         => id \in DOMAIN leases

\* A daemon starts again: opening the store validates it and reclaims every
\* stale lease.
OpenStore(d) ==
  /\ ~Running(d)
  /\ Agrees(ledger) /\ AuditLeases
  /\ daemon' = [daemon EXCEPT ![d] = "up"] /\ cleanup' = [cleanup EXCEPT ![d] = FALSE]
  /\ ledger' = Reclaimed(ledger, Stale(Sessions)) /\ Forget(Stale(Sessions))
  /\ UNCHANGED <<owner, floor, events, stream, now>>

-----------------------------------------------------------------------------
StreamStep(t) ==
  \/ ReserveLease(t) \/ RefuseLease(t) \/ SpawnTask(t)
  \/ LoopTick(t) \/ RenewLease(t) \/ SendPage(t) \/ ReleaseLease(t)

SubscriptionsNext ==
  \/ Tick
  \/ \E d \in Daemons, s \in Sessions :
       AcquireOwnership(d, s) \/ Renew(d, s) \/ \E t \in Streams : Subscribe(d, s, t)
  \/ \E s \in Sessions : AppendEvent(s)
  \/ \E t \in Streams : StreamStep(t) \/ CloseStream(t)
  \/ \E d \in Daemons :
       \/ StopDaemon(d) \/ CrashDaemon(d) \/ CloseRegistry(d) \/ FinishShutdown(d)
       \/ OpenStore(d)

\* The streams alone with the ledger, without the bounds of a scenario.
SubscriptionsSpec ==
  /\ ledger = EmptyLedger /\ SubscriptionsInit
  /\ [][SubscriptionsNext]_<<ledger, subscriptionVars>>

\* A lease whose owner still holds its session and whose time is not past is
\* never reclaimed: as long as it lasts the stream's row and lease stay, whoever
\* subscribes or opens the store ("Opening another pool must not disturb a live
\* owner in another process").
LiveLeaseKept ==
  \A t \in Streams :
    LET c == stream[t]
    IN ( /\ c.pc \in {"leased", "looping", "renewing", "paging"}
         /\ owner[c.session].daemon = c.daemon /\ owner[c.session].epoch = c.epoch
         /\ floor[c.session] < c.held )
       => t \in DOMAIN leases /\ t \in DOMAIN ledger.rows

=============================================================================
