-------------------------- MODULE SessionOwnership --------------------------
(* The session store: opening and closing a session, the ownership lease   *)
(* with its fencing epoch, the durable request ledger that makes mutations *)
(* idempotent, the session's event log, root participant creation (the     *)
(* first epoch-fenced write of a session) and the watchdogs' authority     *)
(* validation with its in-memory and durable time floors.                  *)
(*                                                                         *)
(* Each store mutation is one SQLite BEGIN IMMEDIATE transaction, hence    *)
(* one step: a crash before the commit leaves no trace, a crash after it   *)
(* loses only the answer, and the host retries the same command, which     *)
(* stays enabled forever.  The observation time of a mutation is read      *)
(* before the transaction starts and the wall clock may regress, so it is  *)
(* an arbitrary member of Times.  An append refused by the retained-event  *)
(* limits rolls the whole transaction back and records nothing; such a     *)
(* refusal is a stuttering step.                                           *)
EXTENDS Naturals, Sequences, FiniteSets

-----------------------------------------------------------------------------
(* The durable session row and the checks every protected store mutation   *)
(* makes on it before it writes: the session is open, the observation time *)
(* is folded into the persisted time floor, and the caller holds the lease *)
(* with the current fencing epoch.                                         *)
(*                                                                         *)
(* One session is modelled: rows of different sessions share no state that *)
(* these checks read.  An epoch is a positive number (FencingEpoch), so    *)
(* epoch 0 marks the absence of an owner.                                  *)
CONSTANTS Hosts,        \* HostIds of the processes that may own the session
          NoHost        \* owner_host_id IS NULL

ASSUME HostsAssumption == NoHost \notin Hosts

NoOwner == [host |-> NoHost, epoch |-> 0, expires |-> 0]

Statuses == {"absent", "open", "closed"}

Leases == [host : Hosts \cup {NoHost}, epoch : Nat, expires : Nat]

(* sessions row: closed, revision, owner columns, epoch_high_water and     *)
(* observed_time_floor.                                                    *)
SessionRows == [status : Statuses, revision : Nat, owner : Leases,
                highWater : Nat, floor : Nat]

AbsentRow == [status |-> "absent", revision |-> 0, owner |-> NoOwner,
              highWater |-> 0, floor |-> 0]

Later(a, b) == IF a >= b THEN a ELSE b

(* OwnershipLease::is_effective_at: a lease is over at its expiry instant. *)
IsEffectiveAt(lease, t) == t < lease.expires

(* require_open_session: closing twice has its own error. *)
RequireOpen(row, action) ==
  CASE row.status = "absent" -> "SessionNotFound"
    [] row.status = "closed" ->
         IF action = "close" THEN "AlreadyClosed" ELSE "SessionClosed"
    [] OTHER -> "ok"

(* The epoch is not compared. *)
MutRequireOwner(row, caller, epoch, t) ==
  IF row.owner = NoOwner \/ row.owner.host # caller
  THEN "StaleOwnership"
  ELSE IF IsEffectiveAt(row.owner, t) THEN "ok" ELSE "OwnershipExpired"

(* require_owner: identity is compared before expiry. *)
RequireOwner(row, caller, epoch, t) ==
  IF row.owner = NoOwner \/ row.owner.epoch # epoch \/ row.owner.host # caller
  THEN "StaleOwnership"
  ELSE IF IsEffectiveAt(row.owner, t) THEN "ok" ELSE "OwnershipExpired"

(* advance_time_floor: the effective time of a mutation never precedes one *)
(* the session has already recorded.                                       *)
AdvanceFloor(row, t) == [row EXCEPT !.floor = Later(@, t)]

(* authorize_launch: the prologue shared by every epoch-fenced mutation.   *)
Authorize(row, caller, epoch, action, t) ==
  IF RequireOpen(row, action) # "ok" THEN RequireOpen(row, action)
  ELSE RequireOwner(row, caller, epoch, Later(row.floor, t))

(* What a refused mutation leaves behind in the row: the floor advances    *)
(* only once the session was found open.                                   *)
RowAfterRefusal(row, t) == IF row.status = "open" THEN AdvanceFloor(row, t) ELSE row

-----------------------------------------------------------------------------
(* The store. *)
CONSTANTS Commands,     \* the commands hosts may send
          Watchdogs,    \* hosts whose watchdogs validate their authority
          Times,        \* observable clock readings
          MaxLease,     \* max_lease_millis of the store
          MaxEvents,    \* per-session limit of retained_events
          None          \* an absent ledger entry, seal or participant

Requests == {c.req : c \in Commands}

Actions == {"open", "close", "acquire", "renew", "release", "createRoot"}

(* "arg" is the lease duration of acquire and renew, the participant id of *)
(* createRoot and the identity (consumer key, compatibility and template   *)
(* manifest) of open.  The epoch is meaningless in open and acquire.       *)
ASSUME CommandsAssumption ==
  /\ \A c \in Commands :
       /\ DOMAIN c = {"req", "caller", "action", "epoch", "arg"}
       /\ c.caller \in Hosts
       /\ c.action \in Actions
       /\ c.epoch \in Nat
       /\ c.action \in {"acquire", "renew"} => c.arg \in Nat \ {0}
  /\ Watchdogs \subseteq Hosts
  /\ Times \subseteq Nat
  /\ MaxLease \in Nat
  /\ MaxEvents \in Nat

Outcomes == {"Applied", "Unchanged", "IdentityConflict", "Invalid", "LeaseTooLong",
             "OwnershipHeld", "StaleOwnership", "OwnershipExpired", "SessionNotFound",
             "SessionClosed", "AlreadyClosed"}

(* A request_ledger row: the command and what was answered. *)
Entries == [cmd : Commands, outcome : Outcomes, lease : Leases]

ASSUME LedgerAssumption == None \notin Entries

VARIABLES
  row,        \* the sessions row
  identity,   \* consumer key, compatibility and manifest of the row
  root,       \* the root participant
  events,     \* the event log, by position
  ledger,     \* request_ledger: request -> None or its recorded outcome
  memFloor,   \* authority_time_floors of each host process
  sealing,    \* an authority validation between its read and its seal
  answers,    \* history: definitive answers computed for each command
  toldExpired \* history: <<host, epoch>> pairs answered OwnershipExpired

vars == <<row, identity, root, events, ledger, memFloor, sealing, answers, toldExpired>>

Init ==
  /\ row = AbsentRow
  /\ identity = None
  /\ root = None
  /\ events = << >>
  /\ ledger = [r \in Requests |-> None]
  /\ memFloor = [h \in Hosts |-> 0]
  /\ sealing = [h \in Hosts |-> None]
  /\ answers = [c \in Commands |-> {}]
  /\ toldExpired = {}

-----------------------------------------------------------------------------
(* Ledger and event log *)

(* A replay answers with the lease as it is now instead of as recorded. *)
MutReplay(c) ==
  /\ ~(ledger[c.req] = None)
  /\ ledger[c.req].cmd = c
  /\ answers' = [answers EXCEPT ![c] = @ \cup
       {[outcome |-> ledger[c.req].outcome, lease |-> row.owner]}]
  /\ UNCHANGED <<row, identity, root, events, ledger, memFloor, sealing, toldExpired>>

(* replay_bytes found no row for the request. *)
Fresh(c) == ledger[c.req] = None

(* record_bytes and record_failure: the outcome is stored with the command *)
(* (caller, action and semantic digest) that produced it.                  *)
Record(c, outcome, lease) ==
  ledger' = [ledger EXCEPT ![c.req] = [cmd |-> c, outcome |-> outcome, lease |-> lease]]

Answer(c, outcome, lease) ==
  answers' = [answers EXCEPT ![c] = @ \cup {[outcome |-> outcome, lease |-> lease]}]

(* finish_failure, and the recording of an Unchanged outcome: the outcome  *)
(* is recorded and the advanced floor is committed with it.                *)
RecordOnly(c, outcome, t) ==
  /\ Record(c, outcome, NoOwner)
  /\ Answer(c, outcome, NoOwner)
  /\ row' = RowAfterRefusal(row, t)
  /\ toldExpired' = IF outcome = "OwnershipExpired"
                    THEN toldExpired \cup {<<c.caller, c.epoch>>} ELSE toldExpired
  /\ UNCHANGED <<identity, root, events, memFloor, sealing>>

Room == Len(events) < MaxEvents

(* append_event_data: positions are consecutive and event time never runs  *)
(* backwards within a session.                                             *)
AppendEvent(c, type, revision, t) ==
  LET previous == IF events = << >> THEN 0 ELSE events[Len(events)].at
  IN  events' = Append(events, [type |-> type, req |-> c.req, revision |-> revision,
                                at |-> Later(previous, t)])

-----------------------------------------------------------------------------
(* Store mutations *)

(* Any command whose request id is known: the recorded outcome is returned *)
(* to the command that produced it; any other command gets                 *)
(* RequestConflict, which is recorded nowhere (a stuttering step).         *)
Replay(c) ==
  /\ ~Fresh(c)
  /\ ledger[c.req].cmd = c
  /\ Answer(c, ledger[c.req].outcome, ledger[c.req].lease)
  /\ UNCHANGED <<row, identity, root, events, ledger, memFloor, sealing, toldExpired>>

(* open_session on an existing row: conflicting identity is refused, equal *)
(* identity leaves the row alone, even when the session is closed.         *)
OpenExisting(c) ==
  /\ c.action = "open"
  /\ Fresh(c)
  /\ row.status # "absent"
  /\ LET outcome == IF identity = c.arg THEN "Unchanged" ELSE "IdentityConflict"
     IN  Record(c, outcome, NoOwner) /\ Answer(c, outcome, NoOwner)
  /\ UNCHANGED <<row, identity, root, events, memFloor, sealing, toldExpired>>

(* open_session of a new session; its manifest may name templates that are *)
(* not registered.                                                         *)
OpenNew(c, t, registered) ==
  /\ c.action = "open"
  /\ Fresh(c)
  /\ row.status = "absent"
  /\ \/ /\ ~registered
        /\ RecordOnly(c, "Invalid", t)
     \/ /\ registered
        /\ Room
        /\ row' = [AbsentRow EXCEPT !.status = "open", !.revision = 1, !.floor = t]
        /\ identity' = c.arg
        /\ AppendEvent(c, "session.created", 1, t)
        /\ Record(c, "Applied", NoOwner)
        /\ Answer(c, "Applied", NoOwner)
        /\ UNCHANGED <<root, memFloor, sealing, toldExpired>>

(* close_session: clears the owner with the status. *)
CloseSession(c, t) ==
  /\ c.action = "close"
  /\ Fresh(c)
  /\ LET verdict == Authorize(row, c.caller, c.epoch, "close", t)
     IN \/ /\ verdict # "ok"
           /\ RecordOnly(c, verdict, t)
        \/ /\ verdict = "ok"
           /\ Room
           /\ row' = [AdvanceFloor(row, t) EXCEPT !.status = "closed",
                        !.revision = @ + 1, !.owner = NoOwner]
           /\ AppendEvent(c, "session.closed", row.revision + 1, Later(row.floor, t))
           /\ Record(c, "Applied", NoOwner)
           /\ Answer(c, "Applied", NoOwner)
           /\ UNCHANGED <<identity, root, memFloor, sealing, toldExpired>>

(* The next epoch is counted from the current owner. *)
MutNextEpoch == row.owner.epoch + 1

(* An epoch is never granted twice, even after a release. *)
NextEpoch == row.highWater + 1

(* acquire_ownership: the duration is checked before the current lease; a  *)
(* lease still effective is refused even to its own holder.  The LeaseTooLong *)
(* check of SqliteStore::expiry makes expires_at <= now impossible for a   *)
(* positive duration.                                                      *)
AcquireVerdict(c, t) ==
  IF RequireOpen(row, "acquire") # "ok" THEN RequireOpen(row, "acquire")
  ELSE IF c.arg > MaxLease THEN "LeaseTooLong"
  ELSE IF row.owner # NoOwner /\ IsEffectiveAt(row.owner, Later(row.floor, t))
  THEN "OwnershipHeld" ELSE "ok"

AcquireOwnership(c, t) ==
  /\ c.action = "acquire"
  /\ Fresh(c)
  /\ \/ /\ AcquireVerdict(c, t) # "ok"
        /\ RecordOnly(c, AcquireVerdict(c, t), t)
     \/ /\ AcquireVerdict(c, t) = "ok"
        /\ Room
        /\ LET now   == Later(row.floor, t)
               lease == [host |-> c.caller, epoch |-> NextEpoch,
                         expires |-> now + c.arg]
           IN  /\ row' = [row EXCEPT !.owner = lease, !.highWater = lease.epoch,
                                     !.revision = @ + 1, !.floor = now]
               /\ AppendEvent(c, "ownership.acquired", row.revision + 1, now)
               /\ Record(c, "Applied", lease)
               /\ Answer(c, "Applied", lease)
        /\ UNCHANGED <<identity, root, memFloor, sealing, toldExpired>>

(* renew_ownership: moves the expiry, possibly to an earlier instant; no   *)
(* revision, no event.                                                     *)
RenewVerdict(c, t) ==
  IF Authorize(row, c.caller, c.epoch, "renew", t) # "ok"
  THEN Authorize(row, c.caller, c.epoch, "renew", t)
  ELSE IF c.arg > MaxLease THEN "LeaseTooLong" ELSE "ok"

RenewOwnership(c, t) ==
  /\ c.action = "renew"
  /\ Fresh(c)
  /\ \/ /\ RenewVerdict(c, t) # "ok"
        /\ RecordOnly(c, RenewVerdict(c, t), t)
     \/ /\ RenewVerdict(c, t) = "ok"
        /\ LET now   == Later(row.floor, t)
               lease == [row.owner EXCEPT !.expires = now + c.arg]
           IN  /\ row' = [row EXCEPT !.owner = lease, !.floor = now]
               /\ Record(c, "Applied", lease)
               /\ Answer(c, "Applied", lease)
        /\ UNCHANGED <<identity, root, events, memFloor, sealing, toldExpired>>

(* release_ownership *)
ReleaseOwnership(c, t) ==
  /\ c.action = "release"
  /\ Fresh(c)
  /\ LET verdict == Authorize(row, c.caller, c.epoch, "release", t)
     IN \/ /\ verdict # "ok"
           /\ RecordOnly(c, verdict, t)
        \/ /\ verdict = "ok"
           /\ Room
           /\ row' = [AdvanceFloor(row, t) EXCEPT !.owner = NoOwner, !.revision = @ + 1]
           /\ AppendEvent(c, "ownership.released", row.revision + 1, Later(row.floor, t))
           /\ Record(c, "Applied", NoOwner)
           /\ Answer(c, "Applied", NoOwner)
           /\ UNCHANGED <<identity, root, memFloor, sealing, toldExpired>>

(* create_root_participant: one root per session; creating the same        *)
(* participant again is Unchanged.  The event carries the raw observation, *)
(* which append_event_data folds into the log's own time.                  *)
CreateRootVerdict(c, t, templateOk) ==
  LET verdict == Authorize(row, c.caller, c.epoch, "createRoot", t)
  IN  CASE verdict # "ok"              -> verdict
        [] verdict = "ok" /\ ~templateOk -> "Invalid"
        [] verdict = "ok" /\ templateOk /\ root = c.arg -> "Unchanged"
        [] verdict = "ok" /\ templateOk /\ root \notin {c.arg, None} -> "Invalid"
        [] OTHER -> "ok"

CreateRootParticipant(c, t, templateOk) ==
  /\ c.action = "createRoot"
  /\ Fresh(c)
  /\ LET verdict == CreateRootVerdict(c, t, templateOk)
     IN \/ /\ verdict # "ok"
           /\ RecordOnly(c, verdict, t)
        \/ /\ verdict = "ok"
           /\ Room
           /\ root' = c.arg
           /\ row' = AdvanceFloor(row, t)
           /\ AppendEvent(c, "participant.created", 1, t)
           /\ Record(c, "Applied", NoOwner)
           /\ Answer(c, "Applied", NoOwner)
           /\ UNCHANGED <<identity, memFloor, sealing, toldExpired>>

-----------------------------------------------------------------------------
(* Authority validation by the watchdogs of a host process *)

(* validate_launch_authority up to its first verdict: a read outside any   *)
(* transaction, folded into the process's own floor.  Only an expired      *)
(* lease leads on to the sealing transaction.                              *)
ValidateRead(h, e, t) ==
  /\ row.status = "open"
  /\ sealing[h] = None
  /\ LET effective == Later(memFloor[h], Later(row.floor, t))
     IN  /\ memFloor' = [memFloor EXCEPT ![h] = effective]
         /\ sealing' = IF RequireOwner(row, h, e, effective) = "OwnershipExpired"
                       THEN [sealing EXCEPT ![h] = [epoch |-> e, at |-> effective]]
                       ELSE sealing
  /\ UNCHANGED <<row, identity, root, events, ledger, answers, toldExpired>>

(* The expiry is reported without being sealed in the row. *)
MutValidateSeal(h) ==
  /\ sealing[h] # None
  /\ sealing' = [sealing EXCEPT ![h] = None]
  /\ toldExpired' =
       IF RequireOwner(row, h, sealing[h].epoch, sealing[h].at) = "OwnershipExpired"
       THEN toldExpired \cup {<<h, sealing[h].epoch>>} ELSE toldExpired
  /\ UNCHANGED <<row, identity, root, events, ledger, memFloor, answers>>

(* The sealing transaction judges the row as it is now, which may have     *)
(* been renewed, taken over or closed since the read.                      *)
ValidateSeal(h) ==
  /\ sealing[h] # None
  /\ sealing' = [sealing EXCEPT ![h] = None]
  /\ IF row.status # "open"
     THEN UNCHANGED <<row, toldExpired>>
     ELSE /\ row' = AdvanceFloor(row, sealing[h].at)
          /\ toldExpired' =
               IF RequireOwner(row, h, sealing[h].epoch, row'.floor) = "OwnershipExpired"
               THEN toldExpired \cup {<<h, sealing[h].epoch>>} ELSE toldExpired
  /\ UNCHANGED <<identity, root, events, ledger, memFloor, answers>>

(* A host process stops and a new one opens the same database. *)
RestartProcess(h) ==
  /\ memFloor' = [memFloor EXCEPT ![h] = 0]
  /\ sealing' = [sealing EXCEPT ![h] = None]
  /\ UNCHANGED <<row, identity, root, events, ledger, answers, toldExpired>>

Next ==
  \/ \E c \in Commands : Replay(c) \/ OpenExisting(c)
  \/ \E c \in Commands, t \in Times :
       \/ CloseSession(c, t)
       \/ AcquireOwnership(c, t)
       \/ RenewOwnership(c, t)
       \/ ReleaseOwnership(c, t)
       \/ \E valid \in BOOLEAN : OpenNew(c, t, valid) \/ CreateRootParticipant(c, t, valid)
  \/ \E h \in Watchdogs, e \in 1..row.highWater, t \in Times : ValidateRead(h, e, t)
  \/ \E h \in Watchdogs : ValidateSeal(h) \/ RestartProcess(h)

Spec == Init /\ [][Next]_vars

-----------------------------------------------------------------------------
(* Properties *)

EventTypes == {"session.created", "session.closed", "ownership.acquired",
               "ownership.released", "participant.created"}

(* Every variable keeps the shape its table or field has in the code. *)
TypeOK ==
  /\ row \in SessionRows
  /\ events \in Seq([type : EventTypes, req : Requests, revision : Nat, at : Nat])
  /\ ledger \in [Requests -> Entries \cup {None}]
  /\ memFloor \in [Hosts -> Nat]
  /\ sealing \in [Hosts -> [epoch : Nat, at : Nat] \cup {None}]
  /\ answers \in [Commands -> SUBSET [outcome : Outcomes, lease : Leases]]
  /\ toldExpired \subseteq Hosts \X Nat

(* The command a committed event came from, as the ledger recorded it. *)
Cause(i) == ledger[events[i].req]

EndsTenure == {"ownership.acquired", "ownership.released", "session.closed"}

FencedTypes == {"ownership.released", "session.closed", "participant.created"}

(* Event j granted a lease that no event before position i has ended. *)
TenureUntil(j, i) ==
  /\ events[j].type = "ownership.acquired"
  /\ \A k \in (j + 1)..(i - 1) : events[k].type \notin EndsTenure

(* Epoch fencing of the event log: every event of a protected mutation was *)
(* caused by the host and epoch of the most recent acquisition, and that   *)
(* tenure had not been released or closed in between (require_owner).      *)
EventsFenced ==
  \A i \in 1..Len(events) :
    events[i].type \in FencedTypes =>
      \E j \in 1..(i - 1) :
        /\ TenureUntil(j, i)
        /\ Cause(j).lease.epoch = Cause(i).cmd.epoch
        /\ Cause(j).lease.host = Cause(i).cmd.caller

(* A command is never given two different definitive answers, whatever     *)
(* happened to the session between its retries (replay_bytes).             *)
StableAnswers == \A c \in Commands : \A a, b \in answers[c] : a = b

(* The commands committed by this step with an effect. *)
AppliedNow(c) ==
  Fresh(c) /\ ledger'[c.req] # None /\ ledger'[c.req].cmd = c
           /\ ledger'[c.req].outcome = "Applied"

FencedActions == {"close", "renew", "release", "createRoot"}

(* "Expiry is a one-way fencing observation": once a host was answered     *)
(* OwnershipExpired for an epoch, by a mutation or by a watchdog's         *)
(* validation, no later mutation of that host and epoch takes effect,      *)
(* whatever the clock does and whichever process restarts.                 *)
ExpiredNeverActs ==
  [][\A c \in Commands :
       AppliedNow(c) /\ c.action \in FencedActions
         => <<c.caller, c.epoch>> \notin toldExpired]_vars

-----------------------------------------------------------------------------
(* Refinement: the store implements a fenced lease *)

Writes == {r \in Requests : /\ ledger[r] # None
                            /\ ledger[r].outcome = "Applied"
                            /\ ledger[r].cmd.action \in FencedActions}

Lease == INSTANCE FencedLease WITH
           NoLease <- NoOwner,
           clock <- row.floor,
           lease <- row.owner,
           highWater <- row.highWater,
           writes <- {<<r, ledger[r].cmd.caller, ledger[r].cmd.epoch>> : r \in Writes}

(* The session store, with its ledger, clock regressions, watchdogs and    *)
(* restarts, behaves as the abstract fenced lease.                         *)
ImplementsFencedLease == Lease!Spec
=============================================================================
