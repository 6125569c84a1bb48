----------------------- MODULE SessionOwnershipProofs -----------------------
(* Theorems about SessionOwnership for every set of hosts, commands and    *)
(* clock readings.  The inductive invariant IInv ties the lease in the row *)
(* to the event that granted it (OwnerLogged) and every expiry that was    *)
(* reported to a row that can no longer honour that lease (ToldNotLive).   *)
(* From it follow the fenced log, one answer per request and that the      *)
(* store implements FencedLease.                                           *)
EXTENDS SessionOwnership, TLAPS

\* A leaf is tried with SMT, with Zenon, and then with SMT and more time.
USE SMT, Zenon, SMTT(10), SMTT(20), SMTT(30)

(* The empty log, and the entries of one. *)
LEMMA EmptyLog ==
  ASSUME NEW S
  PROVE  << >> \in Seq(S) /\ Len(<< >>) = 0
  OBVIOUS

LEMMA EntryOfLog ==
  ASSUME NEW S, NEW log \in Seq(S)
  PROVE  /\ Len(log) \in Nat /\ (log # << >> => Len(log) \in 1..Len(log))
         /\ \A i \in 1..Len(log) : log[i] \in S
  OBVIOUS

(* The lease in the row belongs to the last epoch granted. *)
OwnerIsLatest ==
  /\ row.owner # NoOwner => row.owner.epoch = row.highWater /\ row.owner.host \in Hosts
  /\ row.status # "open" => row.owner = NoOwner
  /\ row.status = "absent" => row.highWater = 0

(* Every event has its request in the ledger. *)
EventsLogged == \A i \in 1..Len(events) : ledger[events[i].req] # None

(* The lease in the row was granted by an event that nothing has ended. *)
OwnerLogged ==
  row.owner # NoOwner =>
    \E j \in 1..Len(events) :
      /\ TenureUntil(j, Len(events) + 1)
      /\ Cause(j).lease.epoch = row.owner.epoch
      /\ Cause(j).lease.host = row.owner.host

(* A lease whose expiry was reported is not in force by the row's floor. *)
ToldNotLive ==
  \A p \in toldExpired :
    /\ p[2] <= row.highWater
    /\ ~(row.owner.host = p[1] /\ row.owner.epoch = p[2] /\ row.floor < row.owner.expires)

IInv == TypeOK /\ OwnerIsLatest /\ EventsLogged /\ OwnerLogged /\ EventsFenced /\ ToldNotLive

-----------------------------------------------------------------------------
(* Facts about the operators the mutations share *)

(* A verdict "ok" of Authorize means the caller holds the lease in force at *)
(* the time the mutation commits (authorize_launch).                       *)
LEMMA AuthorizeOk ==
  ASSUME NEW r \in SessionRows, NEW h, NEW e, NEW a, NEW t \in Nat,
         Authorize(r, h, e, a, t) = "ok"
  PROVE  /\ r.status = "open"
         /\ r.owner # NoOwner
         /\ r.owner.host = h
         /\ r.owner.epoch = e
         /\ Later(r.floor, t) < r.owner.expires
  BY DEF Authorize, RequireOpen, RequireOwner, IsEffectiveAt, SessionRows, Statuses

(* Every verdict is an outcome the ledger can hold. *)
LEMMA VerdictTypes ==
  ASSUME NEW r \in SessionRows, NEW h, NEW e, NEW a, NEW t \in Nat
  PROVE  /\ RequireOpen(r, a) \in Outcomes \cup {"ok"}
         /\ RequireOwner(r, h, e, t) \in Outcomes \cup {"ok"}
         /\ Authorize(r, h, e, a, t) \in Outcomes \cup {"ok"}
  BY DEF Authorize, RequireOpen, RequireOwner, Outcomes, SessionRows, Statuses

(* A verdict OwnershipExpired names the owner in the row, whose lease is   *)
(* over at the time of the verdict.                                        *)
LEMMA AuthorizeExpired ==
  ASSUME NEW r \in SessionRows, NEW h, NEW e, NEW a, NEW t \in Nat,
         Authorize(r, h, e, a, t) = "OwnershipExpired"
  PROVE  /\ r.status = "open"
         /\ r.owner # NoOwner
         /\ r.owner.epoch = e
         /\ ~(Later(r.floor, t) < r.owner.expires)
  BY DEF Authorize, RequireOpen, RequireOwner, IsEffectiveAt, SessionRows, Statuses

(* The later of two times is a time (advance_time_floor). *)
LEMMA LaterNat ==
  ASSUME NEW a \in Nat, NEW b \in Nat
  PROVE  Later(a, b) \in Nat /\ Later(a, b) >= a /\ Later(a, b) >= b
  BY DEF Later

(* A command has the fields the store reads. *)
LEMMA CommandType ==
  ASSUME NEW c \in Commands
  PROVE  /\ c.req \in Requests /\ c.caller \in Hosts /\ c.epoch \in Nat
         /\ c.action \in Actions
         /\ c.action \in {"acquire", "renew"} => c.arg \in Nat \ {0}
  BY CommandsAssumption DEF Requests

-----------------------------------------------------------------------------
(* Type correctness *)

(* Appending one event keeps the log's type and every earlier event. *)
LEMMA AppendFacts ==
  ASSUME TypeOK, NEW c \in Commands, NEW type \in EventTypes, NEW rev \in Nat, NEW t \in Nat,
         AppendEvent(c, type, rev, t)
  PROVE  /\ events' \in Seq([type : EventTypes, req : Requests, revision : Nat, at : Nat])
         /\ Len(events') = Len(events) + 1
         /\ Len(events) \in Nat
         /\ \A i \in 1..Len(events) : events'[i] = events[i]
         /\ events'[Len(events) + 1].type = type
         /\ events'[Len(events) + 1].req = c.req
  <1> DEFINE E == [type : EventTypes, req : Requests, revision : Nat, at : Nat]
             previous == IF events = << >> THEN 0 ELSE events[Len(events)].at
             e == [type |-> type, req |-> c.req, revision |-> rev, at |-> Later(previous, t)]
  <1>1. events \in Seq(E) /\ Len(events) \in Nat
    BY DEF TypeOK
  <1>2. previous \in Nat
    <2>1. CASE events = << >>
      BY <2>1
    <2>2. CASE events # << >>
      <3>1. Len(events) \in 1..Len(events)
        BY <1>1, <2>2, EntryOfLog
      <3>2. events[Len(events)] \in E
        BY <1>1, <3>1, EntryOfLog, Zenon
      <3> QED
        BY <2>2, <3>2
    <2> QED
      BY <2>1, <2>2
  <1>3. e \in E
    BY <1>2, CommandType, LaterNat, Zenon
  <1>4. events' = Append(events, e)
    BY DEF AppendEvent
  <1> QED
    BY <1>1, <1>3, <1>4

(* A recorded outcome has the ledger's type. *)
LEMMA RecordFacts ==
  ASSUME TypeOK, NEW c \in Commands, NEW o \in Outcomes, NEW l \in Leases,
         Record(c, o, l), Answer(c, o, l)
  PROVE  /\ ledger' \in [Requests -> Entries \cup {None}]
         /\ answers' \in [Commands -> SUBSET [outcome : Outcomes, lease : Leases]]
         /\ ledger'[c.req] = [cmd |-> c, outcome |-> o, lease |-> l]
         /\ \A r \in Requests : r # c.req => ledger'[r] = ledger[r]
  BY CommandType DEF TypeOK, Record, Answer, Entries

(* The absent entry is not a record of the ledger. *)
LEMMA NoneNotEntry == None \notin Entries
  BY LedgerAssumption

(* A released ownership row has the type of a lease. *)
LEMMA NoOwnerType == NoOwner \in Leases
  BY DEF NoOwner, Leases

(* The row of a refused mutation. *)
LEMMA RefusalRow ==
  ASSUME NEW r \in SessionRows, NEW t \in Nat
  PROVE  /\ RowAfterRefusal(r, t) \in SessionRows
         /\ AdvanceFloor(r, t) \in SessionRows
         /\ AdvanceFloor(r, t).floor = Later(r.floor, t)
         /\ RowAfterRefusal(r, t).floor >= r.floor
         /\ \A s \in {AdvanceFloor(r, t), RowAfterRefusal(r, t)} :
              /\ s.owner = r.owner /\ s.highWater = r.highWater
              /\ s.status = r.status /\ s.revision = r.revision
         /\ r.status = "open" => RowAfterRefusal(r, t).floor = Later(r.floor, t)
  BY LaterNat DEF RowAfterRefusal, AdvanceFloor, SessionRows

(* A refusal that only records its outcome keeps the types. *)
LEMMA RecordOnlyType ==
  ASSUME TypeOK, NEW c \in Commands, NEW o \in Outcomes, NEW t \in Nat,
         RecordOnly(c, o, t)
  PROVE  TypeOK'
  <1>1. /\ ledger' \in [Requests -> Entries \cup {None}]
        /\ answers' \in [Commands -> SUBSET [outcome : Outcomes, lease : Leases]]
    BY RecordFacts, NoOwnerType, Zenon DEF RecordOnly
  <1>2. row' \in SessionRows
    BY RefusalRow DEF RecordOnly, TypeOK
  <1>3. toldExpired' \subseteq Hosts \X Nat
    BY CommandType DEF RecordOnly, TypeOK
  <1> QED
    BY <1>1, <1>2, <1>3 DEF RecordOnly, TypeOK

(* An applied mutation that appends an event. *)
LEMMA AppliedType ==
  ASSUME TypeOK, NEW c \in Commands, NEW type \in EventTypes, NEW rev \in Nat,
         NEW t \in Nat, NEW l \in Leases,
         AppendEvent(c, type, rev, t),
         Record(c, "Applied", l), Answer(c, "Applied", l),
         row' \in SessionRows, UNCHANGED <<memFloor, sealing, toldExpired>>
  PROVE  TypeOK'
  <1>1. "Applied" \in Outcomes
    BY DEF Outcomes
  <1> QED
    BY <1>1, AppendFacts, RecordFacts, Zenon DEF TypeOK

(* A clock reading is a natural number. *)
LEMMA TimesNat == ASSUME NEW t \in Times PROVE t \in Nat
  BY CommandsAssumption

(* A step of the store, of a watchdog or of a restart keeps the types. *)
LEMMA TypeStep ==
  ASSUME TypeOK, [Next]_vars
  PROVE  TypeOK'
  <1> USE NoOwnerType, TimesNat, CommandType
  <1>0. row \in SessionRows /\ row.floor \in Nat /\ row.revision \in Nat /\ row.highWater \in Nat
    BY DEF TypeOK, SessionRows
  <1>1. ASSUME NEW c \in Commands, Replay(c)
        PROVE  TypeOK'
    <2>1. ledger[c.req] \in Entries
      BY <1>1 DEF Replay, Fresh, TypeOK
    <2> QED
      BY <1>1, <2>1 DEF Replay, Answer, Entries, TypeOK
  <1>2. ASSUME NEW c \in Commands, OpenExisting(c)
        PROVE  TypeOK'
    <2>1. PICK o \in Outcomes : Record(c, o, NoOwner) /\ Answer(c, o, NoOwner)
      BY <1>2 DEF OpenExisting, Outcomes
    <2> QED
      BY <1>2, <2>1, RecordFacts, Zenon DEF OpenExisting, TypeOK
  <1>3. ASSUME NEW c \in Commands, NEW t \in Times, NEW valid \in BOOLEAN, OpenNew(c, t, valid)
        PROVE  TypeOK'
    <2>1. CASE RecordOnly(c, "Invalid", t)
      BY <2>1, RecordOnlyType DEF Outcomes
    <2>2. CASE /\ row' = [AbsentRow EXCEPT !.status = "open", !.revision = 1, !.floor = t]
               /\ AppendEvent(c, "session.created", 1, t)
               /\ Record(c, "Applied", NoOwner) /\ Answer(c, "Applied", NoOwner)
               /\ UNCHANGED <<root, memFloor, sealing, toldExpired>>
      <3>1. row' \in SessionRows
        BY <2>2, Zenon DEF AbsentRow, SessionRows, Statuses
      <3> QED
        BY <2>2, <3>1, AppliedType DEF EventTypes
    <2> QED
      BY <1>3, <2>1, <2>2 DEF OpenNew
  <1>4. ASSUME NEW c \in Commands, NEW t \in Times, CloseSession(c, t)
        PROVE  TypeOK'
    <2> DEFINE v == Authorize(row, c.caller, c.epoch, "close", t)
    <2>1. CASE v # "ok" /\ RecordOnly(c, v, t)
      BY <1>0, <2>1, VerdictTypes, RecordOnlyType
    <2>2. CASE /\ row' = [AdvanceFloor(row, t) EXCEPT !.status = "closed",
                             !.revision = @ + 1, !.owner = NoOwner]
               /\ AppendEvent(c, "session.closed", row.revision + 1, Later(row.floor, t))
               /\ Record(c, "Applied", NoOwner) /\ Answer(c, "Applied", NoOwner)
               /\ UNCHANGED <<identity, root, memFloor, sealing, toldExpired>>
      <3>1. row' \in SessionRows
        <4> DEFINE a == AdvanceFloor(row, t)
        <4>1. a \in SessionRows
          BY <1>0, RefusalRow
        <4> HIDE DEF a
        <4>3. a.revision + 1 \in Nat
          BY <4>1 DEF SessionRows
        <4>2. [a EXCEPT !.status = "closed", !.revision = @ + 1, !.owner = NoOwner] \in SessionRows
          BY ONLY <4>1, <4>3, NoOwnerType, Zenon DEF SessionRows, Statuses
        <4> QED
          BY <2>2, <4>2 DEF a
      <3>2. Later(row.floor, t) \in Nat
        BY <1>0, LaterNat, Zenon
      <3>4. row.revision + 1 \in Nat
        BY ONLY <1>0
      <3>3. "session.closed" \in EventTypes
        BY DEF EventTypes
      <3> QED
        BY ONLY TypeOK, c \in Commands, <2>2, <3>1, <3>2, <3>3, <3>4, NoOwnerType, AppliedType
    <2> QED
      BY <1>4, <2>1, <2>2 DEF CloseSession
  <1>5. ASSUME NEW c \in Commands, NEW t \in Times, AcquireOwnership(c, t)
        PROVE  TypeOK'
    <2>1. CASE AcquireVerdict(c, t) # "ok" /\ RecordOnly(c, AcquireVerdict(c, t), t)
      <3>1. AcquireVerdict(c, t) \in Outcomes
        BY <1>0, <2>1, VerdictTypes DEF AcquireVerdict, Outcomes
      <3> QED
        BY <2>1, <3>1, RecordOnlyType
    <2>2. CASE AcquireVerdict(c, t) = "ok"
      <3> DEFINE now == Later(row.floor, t)
                 lease == [host |-> c.caller, epoch |-> NextEpoch, expires |-> now + c.arg]
      <3>1. /\ row' = [row EXCEPT !.owner = lease, !.highWater = lease.epoch,
                                  !.revision = @ + 1, !.floor = now]
            /\ AppendEvent(c, "ownership.acquired", row.revision + 1, now)
            /\ Record(c, "Applied", lease) /\ Answer(c, "Applied", lease)
            /\ UNCHANGED <<memFloor, sealing, toldExpired>>
        BY <1>5, <2>2 DEF AcquireOwnership
      <3>2. now \in Nat /\ c.arg \in Nat /\ NextEpoch \in Nat
        BY <1>0, <1>5, LaterNat DEF AcquireOwnership, NextEpoch
      <3>3. lease \in Leases
        BY <3>2 DEF Leases
      <3>5. lease.epoch \in Nat /\ row.revision + 1 \in Nat
        BY <1>0, <3>2
      <3> HIDE DEF now, lease
      <3>4. row' \in SessionRows
        <4>1. [row EXCEPT !.owner = lease, !.highWater = lease.epoch,
                          !.revision = @ + 1, !.floor = now] \in SessionRows
          BY ONLY <1>0, <3>2, <3>3, <3>5, Zenon DEF SessionRows
        <4> QED
          BY <3>1, <4>1
      <3>6. "ownership.acquired" \in EventTypes
        BY DEF EventTypes
      <3> QED
        BY ONLY TypeOK, c \in Commands, <3>1, <3>2, <3>3, <3>4, <3>5, <3>6, AppliedType
    <2> QED
      BY <1>5, <2>1, <2>2 DEF AcquireOwnership
  <1>6. ASSUME NEW c \in Commands, NEW t \in Times, RenewOwnership(c, t)
        PROVE  TypeOK'
    <2>1. CASE RenewVerdict(c, t) # "ok" /\ RecordOnly(c, RenewVerdict(c, t), t)
      <3>1. RenewVerdict(c, t) \in Outcomes
        BY <1>0, <2>1, VerdictTypes DEF RenewVerdict, Outcomes
      <3> QED
        BY <2>1, <3>1, RecordOnlyType
    <2>2. CASE RenewVerdict(c, t) = "ok"
      <3> DEFINE now == Later(row.floor, t)
                 lease == [row.owner EXCEPT !.expires = now + c.arg]
      <3>1. /\ row' = [row EXCEPT !.owner = lease, !.floor = now]
            /\ Record(c, "Applied", lease) /\ Answer(c, "Applied", lease)
            /\ UNCHANGED <<events, memFloor, sealing, toldExpired>>
        BY <1>6, <2>2 DEF RenewOwnership
      <3>2. now \in Nat /\ c.arg \in Nat
        BY <1>0, <1>6, LaterNat DEF RenewOwnership
      <3>3. lease \in Leases
        BY <1>0, <3>2 DEF Leases, SessionRows
      <3>4. row' \in SessionRows
        BY <1>0, <3>1, <3>2, <3>3, Zenon DEF SessionRows
      <3> QED
        BY <3>1, <3>3, <3>4, RecordFacts, Zenon DEF TypeOK, Outcomes
    <2> QED
      BY <1>6, <2>1, <2>2 DEF RenewOwnership
  <1>7. ASSUME NEW c \in Commands, NEW t \in Times, ReleaseOwnership(c, t)
        PROVE  TypeOK'
    <2> DEFINE v == Authorize(row, c.caller, c.epoch, "release", t)
    <2>1. CASE v # "ok" /\ RecordOnly(c, v, t)
      BY <1>0, <2>1, VerdictTypes, RecordOnlyType
    <2>2. CASE /\ row' = [AdvanceFloor(row, t) EXCEPT !.owner = NoOwner, !.revision = @ + 1]
               /\ AppendEvent(c, "ownership.released", row.revision + 1, Later(row.floor, t))
               /\ Record(c, "Applied", NoOwner) /\ Answer(c, "Applied", NoOwner)
               /\ UNCHANGED <<identity, root, memFloor, sealing, toldExpired>>
      <3>1. row' \in SessionRows
        <4> DEFINE a == AdvanceFloor(row, t)
        <4>1. a \in SessionRows
          BY <1>0, RefusalRow
        <4> HIDE DEF a
        <4>3. a.revision + 1 \in Nat
          BY <4>1 DEF SessionRows
        <4>2. [a EXCEPT !.owner = NoOwner, !.revision = @ + 1] \in SessionRows
          BY ONLY <4>1, <4>3, NoOwnerType, Zenon DEF SessionRows
        <4> QED
          BY <2>2, <4>2 DEF a
      <3>2. Later(row.floor, t) \in Nat
        BY <1>0, LaterNat, Zenon
      <3>4. row.revision + 1 \in Nat
        BY ONLY <1>0
      <3>3. "ownership.released" \in EventTypes
        BY DEF EventTypes
      <3> QED
        BY ONLY TypeOK, c \in Commands, <2>2, <3>1, <3>2, <3>3, <3>4, NoOwnerType, AppliedType
    <2> QED
      BY <1>7, <2>1, <2>2 DEF ReleaseOwnership
  <1>8. ASSUME NEW c \in Commands, NEW t \in Times, NEW valid \in BOOLEAN,
               CreateRootParticipant(c, t, valid)
        PROVE  TypeOK'
    <2> DEFINE v == CreateRootVerdict(c, t, valid)
    <2>1. CASE v # "ok" /\ RecordOnly(c, v, t)
      <3>1. v \in Outcomes
        BY <1>0, <2>1, VerdictTypes DEF CreateRootVerdict, Outcomes
      <3> QED
        BY <2>1, <3>1, RecordOnlyType
    <2>2. CASE /\ row' = AdvanceFloor(row, t)
               /\ AppendEvent(c, "participant.created", 1, t)
               /\ Record(c, "Applied", NoOwner) /\ Answer(c, "Applied", NoOwner)
               /\ UNCHANGED <<identity, memFloor, sealing, toldExpired>>
      BY <1>0, <2>2, RefusalRow, AppliedType DEF EventTypes
    <2> QED
      BY <1>8, <2>1, <2>2 DEF CreateRootParticipant
  <1>9. ASSUME NEW h \in Watchdogs, NEW e \in 1..row.highWater, NEW t \in Times,
               ValidateRead(h, e, t)
        PROVE  TypeOK'
    <2>1. memFloor[h] \in Nat /\ h \in Hosts /\ e \in Nat
      BY <1>0, CommandsAssumption DEF TypeOK
    <2>2. Later(memFloor[h], Later(row.floor, t)) \in Nat
      BY <1>0, <2>1, LaterNat, Zenon
    <2> QED
      BY <1>9, <2>1, <2>2 DEF ValidateRead, TypeOK
  <1>10. ASSUME NEW h \in Watchdogs, ValidateSeal(h)
         PROVE  TypeOK'
    <2>1. h \in Hosts /\ sealing[h] \in [epoch : Nat, at : Nat]
      BY <1>10, CommandsAssumption DEF ValidateSeal, TypeOK
    <2>2. row' \in SessionRows
      BY <1>0, <1>10, <2>1, RefusalRow, Zenon DEF ValidateSeal
    <2> QED
      BY <1>10, <2>1, <2>2 DEF ValidateSeal, TypeOK
  <1>11. ASSUME NEW h \in Watchdogs, RestartProcess(h)
         PROVE  TypeOK'
    BY <1>11, CommandsAssumption DEF RestartProcess, TypeOK
  <1>12. ASSUME UNCHANGED vars
         PROVE  TypeOK'
    BY <1>12 DEF vars, TypeOK
  <1> QED
    BY <1>1, <1>2, <1>3, <1>4, <1>5, <1>6, <1>7, <1>8, <1>9, <1>10, <1>11, <1>12 DEF Next

(* A new store has the types of its rows. *)
LEMMA TypeInit == Init => TypeOK
  BY NoOwnerType, EmptyLog DEF Init, TypeOK, AbsentRow, SessionRows, Statuses

(* The session row, the log, the ledger and the watchdogs' state keep their *)
(* types through every store mutation, crash and restart.                  *)
THEOREM TypeCorrect == Spec => []TypeOK
  BY TypeInit, TypeStep, PTL DEF Spec

-----------------------------------------------------------------------------
(* Fencing *)

(* No step forgets or rewrites a ledger entry. *)
LedgerGrows == \A r \in Requests : ledger[r] # None => ledger'[r] = ledger[r]

(* No step rewrites an event or a recorded outcome. *)
LEMMA LedgerStep ==
  ASSUME TypeOK, [Next]_vars
  PROVE  LedgerGrows
  <1>1. ASSUME NEW c \in Commands, NEW o, NEW l, Fresh(c), Record(c, o, l)
        PROVE  LedgerGrows
    BY <1>1, CommandType DEF TypeOK, Fresh, Record, LedgerGrows
  <1>2. ASSUME UNCHANGED ledger
        PROVE  LedgerGrows
    BY <1>2 DEF LedgerGrows
  <1>3. ASSUME NEW c \in Commands, NEW t \in Times, NEW o, Fresh(c), RecordOnly(c, o, t)
        PROVE  LedgerGrows
    BY <1>1, <1>3 DEF RecordOnly
  <1>4. ASSUME NEW c \in Commands, NEW t \in Times,
               CloseSession(c, t) \/ AcquireOwnership(c, t) \/ RenewOwnership(c, t)
                 \/ ReleaseOwnership(c, t)
        PROVE  LedgerGrows
    BY <1>1, <1>3, <1>4 DEF CloseSession, AcquireOwnership, RenewOwnership, ReleaseOwnership
  <1>5. ASSUME NEW c \in Commands, NEW t \in Times, NEW v \in BOOLEAN,
               OpenNew(c, t, v) \/ CreateRootParticipant(c, t, v)
        PROVE  LedgerGrows
    BY <1>1, <1>3, <1>5 DEF OpenNew, CreateRootParticipant
  <1>6. ASSUME NEW c \in Commands, Replay(c) \/ OpenExisting(c)
        PROVE  LedgerGrows
    BY <1>1, <1>2, <1>6 DEF Replay, OpenExisting
  <1>7. ASSUME NEW h \in Watchdogs,
               \/ ValidateSeal(h) \/ RestartProcess(h)
               \/ \E e \in 1..row.highWater, t \in Times : ValidateRead(h, e, t)
        PROVE  LedgerGrows
    BY <1>2, <1>7 DEF ValidateRead, ValidateSeal, RestartProcess
  <1> QED
    BY <1>2, <1>4, <1>5, <1>6, <1>7 DEF Next, vars

(* The log and the ledger only grow, so what an event says stays true. *)
LEMMA PrefixStable ==
  ASSUME TypeOK, EventsLogged, LedgerGrows,
         \A i \in 1..Len(events) : events'[i] = events[i]
  PROVE  /\ \A i \in 1..Len(events) : Cause(i)' = Cause(i)
         /\ \A i \in 1..Len(events) : ledger'[events'[i].req] # None
         /\ \A j \in 1..Len(events), i \in 1..(Len(events) + 1) :
              TenureUntil(j, i) => TenureUntil(j, i)'
  <1>1. Len(events) \in Nat
    BY DEF TypeOK
  <1>2. ASSUME NEW i \in 1..Len(events)
        PROVE  events[i].req \in Requests
    <2>1. events[i] \in [type : EventTypes, req : Requests, revision : Nat, at : Nat]
      BY <1>2, EntryOfLog, Zenon DEF TypeOK
    <2> QED
      BY <2>1
  <1>3. \A i \in 1..Len(events) : ledger'[events'[i].req] = ledger[events[i].req]
    BY <1>2 DEF EventsLogged, LedgerGrows
  <1>4. ASSUME NEW j \in 1..Len(events), NEW i \in 1..(Len(events) + 1), TenureUntil(j, i)
        PROVE  TenureUntil(j, i)'
    <2>1. \A k \in (j + 1)..(i - 1) : k \in 1..Len(events)
      BY <1>1
    <2> QED
      BY <1>4, <2>1 DEF TenureUntil
  <1>5. \A i \in 1..Len(events) : Cause(i)' = Cause(i)
    BY <1>3 DEF Cause
  <1>6. \A i \in 1..Len(events) : ledger'[events'[i].req] # None
    BY <1>3 DEF EventsLogged
  <1> QED
    BY <1>4, <1>5, <1>6

(* A step that appends nothing and leaves the holder in place. *)
LEMMA QuietFenced ==
  ASSUME TypeOK, EventsLogged, OwnerLogged, EventsFenced, LedgerGrows, UNCHANGED events,
         row'.owner # NoOwner => /\ row.owner # NoOwner
                                 /\ row'.owner.epoch = row.owner.epoch
                                 /\ row'.owner.host = row.owner.host
  PROVE  EventsLogged' /\ OwnerLogged' /\ EventsFenced'
  <1> DEFINE n == Len(events)
  <1>1. n \in Nat /\ n' = n
    BY DEF TypeOK
  <1>2. /\ \A i \in 1..n : Cause(i)' = Cause(i)
        /\ \A i \in 1..n : ledger'[events'[i].req] # None
        /\ \A j \in 1..n, i \in 1..(n + 1) : TenureUntil(j, i) => TenureUntil(j, i)'
    BY PrefixStable
  <1>3. EventsLogged'
    BY <1>1, <1>2 DEF EventsLogged
  <1>4. OwnerLogged'
    <2> SUFFICES ASSUME row'.owner # NoOwner
                 PROVE  \E j \in 1..n : /\ TenureUntil(j, n + 1)'
                                        /\ Cause(j)'.lease.epoch = row'.owner.epoch
                                        /\ Cause(j)'.lease.host = row'.owner.host
      BY <1>1 DEF OwnerLogged
    <2>1. PICK j \in 1..n : /\ TenureUntil(j, n + 1)
                            /\ Cause(j).lease.epoch = row.owner.epoch
                            /\ Cause(j).lease.host = row.owner.host
      BY DEF OwnerLogged
    <2> QED
      BY <1>1, <1>2, <2>1
  <1>5. EventsFenced'
    <2> SUFFICES ASSUME NEW i \in 1..n, events[i].type \in FencedTypes
                 PROVE  \E j \in 1..(i - 1) :
                          /\ TenureUntil(j, i)'
                          /\ Cause(j)'.lease.epoch = Cause(i)'.cmd.epoch
                          /\ Cause(j)'.lease.host = Cause(i)'.cmd.caller
      BY <1>1 DEF EventsFenced
    <2>1. PICK j \in 1..(i - 1) : /\ TenureUntil(j, i)
                                  /\ Cause(j).lease.epoch = Cause(i).cmd.epoch
                                  /\ Cause(j).lease.host = Cause(i).cmd.caller
      BY DEF EventsFenced
    <2>2. j \in 1..n /\ i \in 1..(n + 1)
      BY <1>1
    <2> QED
      BY <1>2, <2>1, <2>2
  <1> QED
    BY <1>3, <1>4, <1>5

(* A step that appends one event.  A fenced event needs the holder of the  *)
(* lease as its cause; afterwards the holder is the grantee of a new       *)
(* acquisition, or the old one if nothing ended its tenure.                *)
LEMMA AppendFenced ==
  ASSUME TypeOK, EventsLogged, OwnerLogged, EventsFenced, LedgerGrows,
         NEW c \in Commands, NEW type \in EventTypes, NEW rev \in Nat, NEW t \in Nat,
         NEW l \in Leases,
         AppendEvent(c, type, rev, t), Record(c, "Applied", l), Answer(c, "Applied", l),
         type \in FencedTypes => /\ row.owner # NoOwner
                                 /\ row.owner.epoch = c.epoch
                                 /\ row.owner.host = c.caller,
         row'.owner # NoOwner =>
           \/ /\ type = "ownership.acquired"
              /\ l = row'.owner
           \/ /\ type \notin EndsTenure
              /\ row.owner = row'.owner
  PROVE  EventsLogged' /\ OwnerLogged' /\ EventsFenced'
  <1>0. PICK n \in Nat : n = Len(events)
    BY DEF TypeOK
  <1>1. /\ n \in Nat /\ Len(events') = n + 1
        /\ \A i \in 1..n : events'[i] = events[i]
        /\ events'[n + 1].type = type
        /\ events'[n + 1].req = c.req
    BY <1>0, AppendFacts
  <1>2. /\ \A i \in 1..n : Cause(i)' = Cause(i)
        /\ \A i \in 1..n : ledger'[events'[i].req] # None
        /\ \A j \in 1..n, i \in 1..(n + 1) : TenureUntil(j, i) => TenureUntil(j, i)'
    BY <1>0, <1>1, PrefixStable
  <1>3. ledger'[c.req] = [cmd |-> c, outcome |-> "Applied", lease |-> l]
    BY RecordFacts DEF Outcomes
  <1>4. Cause(n + 1)' = [cmd |-> c, outcome |-> "Applied", lease |-> l]
    BY <1>1, <1>3 DEF Cause
  <1>5. Cause(n + 1)' \in Entries
    BY <1>4 DEF Entries, Outcomes
  <1>6. \A i \in 1..(n + 1) : i \in 1..n \/ i = n + 1
    BY <1>1
  <1>7. EventsLogged'
    <2>1. ledger'[events'[n + 1].req] # None
      BY <1>1, <1>3, <1>5, NoneNotEntry DEF Cause
    <2> QED
      BY <1>1, <1>2, <1>6, <2>1 DEF EventsLogged
  <1>8. ASSUME row.owner # NoOwner
        PROVE  \E j \in 1..n : /\ TenureUntil(j, n + 1)'
                               /\ Cause(j)'.lease.epoch = row.owner.epoch
                               /\ Cause(j)'.lease.host = row.owner.host
    <2>1. PICK j \in 1..n : /\ TenureUntil(j, n + 1)
                            /\ Cause(j).lease.epoch = row.owner.epoch
                            /\ Cause(j).lease.host = row.owner.host
      BY <1>0, <1>8 DEF OwnerLogged
    <2> QED
      BY <1>1, <1>2, <2>1
  <1>9. OwnerLogged'
    <2> SUFFICES ASSUME row'.owner # NoOwner
                 PROVE  \E j \in 1..(n + 1) : /\ TenureUntil(j, n + 2)'
                                              /\ Cause(j)'.lease.epoch = row'.owner.epoch
                                              /\ Cause(j)'.lease.host = row'.owner.host
      BY <1>1 DEF OwnerLogged
    <2>1. CASE type = "ownership.acquired" /\ l = row'.owner
      <3>1. TenureUntil(n + 1, n + 2)'
        BY <1>1, <2>1 DEF TenureUntil
      <3>2. n + 1 \in 1..(n + 1)
        BY <1>1
      <3> QED
        BY <1>4, <2>1, <3>1, <3>2
    <2>2. CASE type \notin EndsTenure /\ row.owner = row'.owner
      <3>1. PICK j \in 1..n : /\ TenureUntil(j, n + 1)'
                              /\ Cause(j)'.lease.epoch = row.owner.epoch
                              /\ Cause(j)'.lease.host = row.owner.host
        BY <1>8, <2>2
      <3>2. TenureUntil(j, n + 2)'
        <4>1. \A k \in (j + 1)..(n + 1) : k \in (j + 1)..n \/ k = n + 1
          BY <1>1
        <4>2. events'[j].type = "ownership.acquired"
               /\ \A k \in (j + 1)..n : events'[k].type \notin EndsTenure
          BY <1>1, <3>1 DEF TenureUntil
        <4>3. \A k \in (j + 1)..(n + 1) : events'[k].type \notin EndsTenure
          BY <1>1, <2>2, <4>1, <4>2
        <4> QED
          BY <1>1, <4>2, <4>3 DEF TenureUntil
      <3>3. j \in 1..(n + 1)
        BY <1>1
      <3> QED
        BY <2>2, <3>1, <3>2, <3>3
    <2> QED
      BY <2>1, <2>2
  <1>10. EventsFenced'
    <2> SUFFICES ASSUME NEW i \in 1..(n + 1), events'[i].type \in FencedTypes
                 PROVE  \E j \in 1..(i - 1) :
                          /\ TenureUntil(j, i)'
                          /\ Cause(j)'.lease.epoch = Cause(i)'.cmd.epoch
                          /\ Cause(j)'.lease.host = Cause(i)'.cmd.caller
      BY <1>1 DEF EventsFenced
    <2>1. CASE i \in 1..n
      <3>1. PICK j \in 1..(i - 1) : /\ TenureUntil(j, i)
                                    /\ Cause(j).lease.epoch = Cause(i).cmd.epoch
                                    /\ Cause(j).lease.host = Cause(i).cmd.caller
        BY <1>0, <1>1, <2>1 DEF EventsFenced
      <3>2. j \in 1..n /\ i \in 1..(n + 1)
        BY <1>1, <2>1
      <3> QED
        BY <1>2, <2>1, <3>1, <3>2
    <2>2. CASE i = n + 1
      <3>1. i - 1 = n
        BY <1>1, <2>2
      <3> QED
        BY <1>1, <1>4, <1>8, <2>2, <3>1
    <2> QED
      BY <1>6, <2>1, <2>2
  <1> QED
    BY <1>7, <1>9, <1>10

(* Recording an outcome that changes nothing else.  If the outcome is      *)
(* OwnershipExpired, the floor committed with it has passed the lease.     *)
LEMMA RecordOnlyInv ==
  ASSUME IInv, LedgerGrows, NEW c \in Commands, NEW o \in Outcomes, NEW t \in Nat,
         RecordOnly(c, o, t),
         o = "OwnershipExpired" => /\ row.status = "open"
                                   /\ row.owner # NoOwner
                                   /\ row.owner.epoch = c.epoch
                                   /\ ~(Later(row.floor, t) < row.owner.expires)
  PROVE  IInv'
  <1>1. TypeOK'
    BY RecordOnlyType DEF IInv
  <1>2. /\ row \in SessionRows /\ row.owner \in Leases
        /\ row'.owner = row.owner /\ row'.highWater = row.highWater
        /\ row'.status = row.status /\ row'.floor >= row.floor
        /\ row.status = "open" => row'.floor = Later(row.floor, t)
        /\ row'.floor \in Nat /\ row.floor \in Nat
    BY <1>1, RefusalRow DEF RecordOnly, IInv, TypeOK, SessionRows
  <1>3. EventsLogged' /\ OwnerLogged' /\ EventsFenced'
    BY <1>2, QuietFenced DEF RecordOnly, IInv
  <1>4. OwnerIsLatest'
    BY <1>2 DEF IInv, OwnerIsLatest
  <1>5. ToldNotLive'
    <2> SUFFICES ASSUME NEW p \in toldExpired'
                 PROVE  /\ p[2] <= row'.highWater
                        /\ ~(row'.owner.host = p[1] /\ row'.owner.epoch = p[2]
                              /\ row'.floor < row'.owner.expires)
      BY DEF ToldNotLive
    <2>1. CASE p \in toldExpired
      BY <1>2, <2>1 DEF IInv, ToldNotLive, Leases
    <2>2. CASE o = "OwnershipExpired" /\ p = <<c.caller, c.epoch>>
      <3>1. p[2] = c.epoch
        BY <2>2
      <3>2. c.epoch = row.highWater /\ c.epoch \in Nat
        BY <2>2, CommandType DEF IInv, OwnerIsLatest
      <3> QED
        BY <1>2, <2>2, <3>1, <3>2
    <2> QED
      BY <2>1, <2>2 DEF RecordOnly
  <1> QED
    BY <1>1, <1>3, <1>4, <1>5 DEF IInv

(* A reported expiry concerns no lease granted under a later epoch, and a  *)
(* lease that still authorizes a mutation was never reported expired.      *)
LEMMA ToldStable ==
  ASSUME IInv, TypeOK', UNCHANGED toldExpired,
         row'.highWater >= row.highWater,
         \/ row'.owner = NoOwner
         \/ row'.owner.epoch > row.highWater
         \/ row'.owner = row.owner /\ row'.floor >= row.floor
         \/ /\ row'.owner.epoch = row.owner.epoch /\ row'.owner.host = row.owner.host
            /\ row.floor < row.owner.expires
  PROVE  ToldNotLive'
  <1> SUFFICES ASSUME NEW p \in toldExpired
               PROVE  /\ p[2] <= row'.highWater
                      /\ ~(row'.owner.host = p[1] /\ row'.owner.epoch = p[2]
                            /\ row'.floor < row'.owner.expires)
    BY DEF ToldNotLive
  <1>1. /\ row.highWater \in Nat /\ row.floor \in Nat /\ row.owner.expires \in Nat
        /\ row'.highWater \in Nat /\ row'.floor \in Nat /\ row'.owner.expires \in Nat
        /\ row'.owner.epoch \in Nat
    BY DEF IInv, TypeOK, SessionRows, Leases
  <1>2. p \in Hosts \X Nat
    BY DEF IInv, TypeOK
  <1>3. p[1] \in Hosts /\ p[2] \in Nat
    BY <1>2
  <1>4. /\ p[2] <= row.highWater
        /\ ~(row.owner.host = p[1] /\ row.owner.epoch = p[2] /\ row.floor < row.owner.expires)
    BY DEF IInv, ToldNotLive
  <1>5. row'.owner = NoOwner => row'.owner.host # p[1]
    BY <1>3, HostsAssumption DEF NoOwner
  <1> QED
    BY <1>1, <1>3, <1>4, <1>5

(* A new store satisfies the inductive invariant. *)
LEMMA InvInit == Init => IInv
  <1> SUFFICES ASSUME Init PROVE IInv
    OBVIOUS
  <1>1. TypeOK
    BY TypeInit
  <1>2. Len(events) = 0
    BY EmptyLog DEF Init
  <1>3. OwnerIsLatest /\ OwnerLogged /\ ToldNotLive
    BY DEF Init, AbsentRow, OwnerIsLatest, OwnerLogged, ToldNotLive
  <1>4. EventsLogged /\ EventsFenced
    BY <1>2 DEF EventsLogged, EventsFenced
  <1> QED
    BY <1>1, <1>3, <1>4 DEF IInv

(* Every store mutation, watchdog step and restart keeps the invariant. *)
LEMMA InvStep ==
  ASSUME IInv, [Next]_vars
  PROVE  IInv'
  <1>t. TypeOK /\ TypeOK' /\ LedgerGrows
    BY TypeStep, LedgerStep DEF IInv
  <1>0. /\ row \in SessionRows /\ row.floor \in Nat /\ row.highWater \in Nat
        /\ row.owner \in Leases /\ row.revision \in Nat /\ row.revision + 1 \in Nat
    BY <1>t DEF TypeOK, SessionRows
  <1>q. ASSUME UNCHANGED <<events, toldExpired>>, row' = row
        PROVE  IInv'
    <2>1. EventsLogged' /\ OwnerLogged' /\ EventsFenced'
      BY <1>t, <1>q, QuietFenced DEF IInv
    <2>2. ToldNotLive' /\ OwnerIsLatest'
      BY <1>q DEF IInv, ToldNotLive, OwnerIsLatest
    <2> QED
      BY <1>t, <2>1, <2>2 DEF IInv
  <1>1. ASSUME NEW c \in Commands, Replay(c) \/ OpenExisting(c)
        PROVE  IInv'
    BY <1>q, <1>1 DEF Replay, OpenExisting
  <1>2. ASSUME NEW c \in Commands, NEW t \in Times, NEW v \in BOOLEAN, OpenNew(c, t, v)
        PROVE  IInv'
    <2>1. CASE RecordOnly(c, "Invalid", t)
      BY <1>t, <2>1, RecordOnlyInv, TimesNat DEF Outcomes
    <2>2. CASE /\ row.status = "absent"
               /\ row' = [AbsentRow EXCEPT !.status = "open", !.revision = 1, !.floor = t]
               /\ AppendEvent(c, "session.created", 1, t)
               /\ Record(c, "Applied", NoOwner) /\ Answer(c, "Applied", NoOwner)
               /\ UNCHANGED <<root, memFloor, sealing, toldExpired>>
      <3>1. row'.owner = NoOwner /\ row'.highWater = 0
        BY <2>2 DEF AbsentRow
      <3>2. "session.created" \in EventTypes /\ "session.created" \notin FencedTypes /\ t \in Nat
        BY TimesNat DEF EventTypes, FencedTypes
      <3>3. EventsLogged' /\ OwnerLogged' /\ EventsFenced'
        BY <1>t, <2>2, <3>1, <3>2, NoOwnerType, AppendFenced, Zenon DEF IInv
      <3>4. OwnerIsLatest'
        BY <3>1 DEF OwnerIsLatest
      <3>5. ToldNotLive'
        BY <1>0, <1>t, <2>2, <3>1, ToldStable DEF IInv, OwnerIsLatest
      <3> QED
        BY <1>t, <3>3, <3>4, <3>5 DEF IInv
    <2> QED
      BY <1>2, <2>1, <2>2 DEF OpenNew
  <1>3. ASSUME NEW c \in Commands, NEW t \in Times, CloseSession(c, t) \/ ReleaseOwnership(c, t)
        PROVE  IInv'
    <2>0. t \in Nat /\ Later(row.floor, t) \in Nat
      BY <1>0, TimesNat, LaterNat, Zenon
    <2>1. ASSUME NEW a, NEW v, v = Authorize(row, c.caller, c.epoch, a, t),
                 v # "ok", RecordOnly(c, v, t)
          PROVE  IInv'
      <3>1. v \in Outcomes
        BY <1>0, <2>0, <2>1, VerdictTypes
      <3> QED
        BY <1>0, <1>t, <2>0, <2>1, <3>1, AuthorizeExpired, RecordOnlyInv
    <2>2. ASSUME NEW a, NEW type \in {"session.closed", "ownership.released"},
                 Authorize(row, c.caller, c.epoch, a, t) = "ok",
                 row'.owner = NoOwner, row'.highWater = row.highWater,
                 row'.status \in {row.status, "closed"},
                 AppendEvent(c, type, row.revision + 1, Later(row.floor, t)),
                 Record(c, "Applied", NoOwner), Answer(c, "Applied", NoOwner),
                 UNCHANGED toldExpired
          PROVE  IInv'
      <3>1. /\ row.owner # NoOwner /\ row.owner.epoch = c.epoch /\ row.owner.host = c.caller
            /\ row.status = "open"
        BY <1>0, <2>0, <2>2, AuthorizeOk
      <3>2. type \in EventTypes
        BY DEF EventTypes
      <3>3. EventsLogged' /\ OwnerLogged' /\ EventsFenced'
        BY <1>0, <1>t, <2>0, <2>2, <3>1, <3>2, NoOwnerType, AppendFenced DEF IInv
      <3>4. OwnerIsLatest'
        BY <2>2, <3>1 DEF OwnerIsLatest
      <3>5. ToldNotLive'
        BY <1>0, <1>t, <2>2, ToldStable
      <3> QED
        BY <1>t, <3>3, <3>4, <3>5 DEF IInv
    <2>3. ASSUME NEW r \in SessionRows
          PROVE  /\ [r EXCEPT !.status = "closed", !.revision = @ + 1, !.owner = NoOwner].owner = NoOwner
                 /\ [r EXCEPT !.status = "closed", !.revision = @ + 1, !.owner = NoOwner].highWater = r.highWater
                 /\ [r EXCEPT !.owner = NoOwner, !.revision = @ + 1].owner = NoOwner
                 /\ [r EXCEPT !.owner = NoOwner, !.revision = @ + 1].highWater = r.highWater
                 /\ [r EXCEPT !.status = "closed", !.revision = @ + 1, !.owner = NoOwner].status = "closed"
                 /\ [r EXCEPT !.owner = NoOwner, !.revision = @ + 1].status = r.status
      BY ONLY r \in SessionRows DEF SessionRows
    <2>4. /\ AdvanceFloor(row, t) \in SessionRows
          /\ AdvanceFloor(row, t).highWater = row.highWater
          /\ AdvanceFloor(row, t).status = row.status
      BY <1>0, <2>0, RefusalRow
    <2>5. CASE CloseSession(c, t)
      BY <2>1, <2>2, <2>3, <2>4, <2>5, Zenon DEF CloseSession
    <2>6. CASE ReleaseOwnership(c, t)
      BY <2>1, <2>2, <2>3, <2>4, <2>6, Zenon DEF ReleaseOwnership
    <2> QED
      BY <1>3, <2>5, <2>6
  <1>4. ASSUME NEW c \in Commands, NEW t \in Times, AcquireOwnership(c, t)
        PROVE  IInv'
    <2>0. t \in Nat /\ Later(row.floor, t) \in Nat
      BY <1>0, TimesNat, LaterNat, Zenon
    <2>1. CASE AcquireVerdict(c, t) # "ok" /\ RecordOnly(c, AcquireVerdict(c, t), t)
      <3>1. AcquireVerdict(c, t) \in Outcomes /\ AcquireVerdict(c, t) # "OwnershipExpired"
        BY <1>0, <2>1 DEF AcquireVerdict, RequireOpen, Outcomes, SessionRows, Statuses
      <3> QED
        BY <1>t, <2>0, <2>1, <3>1, RecordOnlyInv
    <2>2. CASE AcquireVerdict(c, t) = "ok"
      <3> DEFINE now == Later(row.floor, t)
                 lease == [host |-> c.caller, epoch |-> NextEpoch, expires |-> now + c.arg]
      <3>1. /\ row' = [row EXCEPT !.owner = lease, !.highWater = lease.epoch,
                                  !.revision = @ + 1, !.floor = now]
            /\ AppendEvent(c, "ownership.acquired", row.revision + 1, now)
            /\ Record(c, "Applied", lease) /\ Answer(c, "Applied", lease)
            /\ UNCHANGED toldExpired
        BY <1>4, <2>2 DEF AcquireOwnership
      <3>2. /\ lease.epoch = row.highWater + 1 /\ lease.host = c.caller /\ c.caller \in Hosts
            /\ lease.expires \in Nat
        BY <1>0, <1>4, <2>0, CommandType DEF NextEpoch, AcquireOwnership
      <3>3. lease \in Leases /\ now \in Nat
        BY <1>0, <2>0, <3>2 DEF Leases
      <3> HIDE DEF lease, now
      <3>4. row'.owner = lease /\ row'.highWater = row.highWater + 1 /\ row'.status = row.status
        BY <1>0, <3>1, <3>2 DEF SessionRows
      <3>5. "ownership.acquired" \in EventTypes /\ "ownership.acquired" \notin FencedTypes
        BY DEF EventTypes, FencedTypes
      <3>6. EventsLogged' /\ OwnerLogged' /\ EventsFenced'
        BY <1>0, <1>t, <3>1, <3>3, <3>4, <3>5, AppendFenced DEF IInv
      <3>7. row.status = "open"
        BY <1>0, <2>2 DEF AcquireVerdict, RequireOpen, SessionRows, Statuses
      <3>8. OwnerIsLatest'
        BY <3>2, <3>4, <3>7 DEF OwnerIsLatest
      <3>9. ToldNotLive'
        BY <1>0, <1>t, <3>1, <3>2, <3>4, ToldStable
      <3> QED
        BY <1>t, <3>6, <3>8, <3>9 DEF IInv
    <2> QED
      BY <1>4, <2>1, <2>2 DEF AcquireOwnership
  <1>5. ASSUME NEW c \in Commands, NEW t \in Times, RenewOwnership(c, t)
        PROVE  IInv'
    <2>0. t \in Nat /\ Later(row.floor, t) \in Nat /\ Later(row.floor, t) >= row.floor
      BY <1>0, TimesNat, LaterNat, Zenon
    <2>1. CASE RenewVerdict(c, t) # "ok" /\ RecordOnly(c, RenewVerdict(c, t), t)
      <3>1. /\ RenewVerdict(c, t) \in Outcomes
            /\ RenewVerdict(c, t) = "OwnershipExpired" =>
                 Authorize(row, c.caller, c.epoch, "renew", t) = "OwnershipExpired"
        BY <1>0, <2>0, <2>1, VerdictTypes DEF RenewVerdict, Outcomes
      <3> QED
        BY <1>0, <1>t, <2>0, <2>1, <3>1, AuthorizeExpired, RecordOnlyInv
    <2>2. CASE RenewVerdict(c, t) = "ok"
      <3>1. /\ row' = [row EXCEPT !.owner = [row.owner EXCEPT !.expires = Later(row.floor, t) + c.arg],
                                  !.floor = Later(row.floor, t)]
            /\ UNCHANGED <<events, toldExpired>>
        BY <1>5, <2>2 DEF RenewOwnership
      <3>2. Authorize(row, c.caller, c.epoch, "renew", t) = "ok"
        BY <2>2 DEF RenewVerdict
      <3>3. row.owner # NoOwner /\ Later(row.floor, t) < row.owner.expires /\ row.status = "open"
        BY <1>0, <2>0, <3>2, AuthorizeOk
      <3>4. row'.owner = [row.owner EXCEPT !.expires = Later(row.floor, t) + c.arg]
             /\ row'.highWater = row.highWater /\ row'.status = row.status
        BY <1>0, <3>1 DEF SessionRows
      <3>5. row'.owner.epoch = row.owner.epoch /\ row'.owner.host = row.owner.host
        BY <1>0, <3>4 DEF Leases
      <3>6. row.floor < row.owner.expires
        BY <1>0, <2>0, <3>3 DEF Leases
      <3>7. EventsLogged' /\ OwnerLogged' /\ EventsFenced'
        BY <1>t, <3>1, <3>3, <3>5, QuietFenced DEF IInv
      <3>8. OwnerIsLatest'
        BY <3>3, <3>4, <3>5 DEF IInv, OwnerIsLatest
      <3>9. ToldNotLive'
        BY <1>0, <1>t, <3>1, <3>4, <3>5, <3>6, ToldStable
      <3> QED
        BY <1>t, <3>7, <3>8, <3>9 DEF IInv
    <2> QED
      BY <1>5, <2>1, <2>2 DEF RenewOwnership
  <1>6. ASSUME NEW c \in Commands, NEW t \in Times, NEW v \in BOOLEAN,
               CreateRootParticipant(c, t, v)
        PROVE  IInv'
    <2>0. t \in Nat
      BY TimesNat
    <2> DEFINE verdict == CreateRootVerdict(c, t, v)
               auth == Authorize(row, c.caller, c.epoch, "createRoot", t)
    <2>1. CASE verdict # "ok" /\ RecordOnly(c, verdict, t)
      <3>1. verdict \in Outcomes /\ (verdict = "OwnershipExpired" => auth = "OwnershipExpired")
        BY <1>0, <2>0, <2>1, VerdictTypes DEF CreateRootVerdict, Outcomes
      <3> QED
        BY <1>0, <1>t, <2>0, <2>1, <3>1, AuthorizeExpired, RecordOnlyInv
    <2>2. CASE /\ verdict = "ok"
               /\ row' = AdvanceFloor(row, t)
               /\ AppendEvent(c, "participant.created", 1, t)
               /\ Record(c, "Applied", NoOwner) /\ Answer(c, "Applied", NoOwner)
               /\ UNCHANGED <<identity, memFloor, sealing, toldExpired>>
      <3>1. auth = "ok"
        BY <1>0, <2>0, <2>2, VerdictTypes DEF CreateRootVerdict
      <3>2. row.owner # NoOwner /\ row.owner.epoch = c.epoch /\ row.owner.host = c.caller
        BY <1>0, <2>0, <3>1, AuthorizeOk
      <3>3. /\ row'.owner = row.owner /\ row'.highWater = row.highWater /\ row'.status = row.status
            /\ row'.floor >= row.floor
        BY <1>0, <2>0, <2>2, RefusalRow, LaterNat, ZenonT(30)
      <3>4. "participant.created" \in EventTypes /\ "participant.created" \notin EndsTenure
        BY DEF EventTypes, EndsTenure
      <3>5. EventsLogged' /\ OwnerLogged' /\ EventsFenced'
        BY <1>t, <2>0, <2>2, <3>2, <3>3, <3>4, NoOwnerType, AppendFenced DEF IInv
      <3>6. OwnerIsLatest'
        BY <3>3 DEF IInv, OwnerIsLatest
      <3>7. ToldNotLive'
        BY <1>0, <1>t, <2>2, <3>3, ToldStable
      <3> QED
        BY <1>t, <3>5, <3>6, <3>7 DEF IInv
    <2> QED
      BY <1>6, <2>1, <2>2 DEF CreateRootParticipant
  <1>7. ASSUME NEW h \in Watchdogs, ValidateSeal(h)
        PROVE  IInv'
    <2>1. CASE row.status # "open"
      BY <1>7, <1>q, <2>1 DEF ValidateSeal
    <2>2. CASE row.status = "open"
      <3>1. sealing[h].at \in Nat /\ sealing[h].epoch \in Nat /\ h \in Hosts
        BY <1>7, <1>t, CommandsAssumption DEF ValidateSeal, TypeOK
      <3>2. row' = AdvanceFloor(row, sealing[h].at) /\ UNCHANGED events
        BY <1>7, <2>2 DEF ValidateSeal
      <3>3. /\ row'.owner = row.owner /\ row'.highWater = row.highWater /\ row'.status = row.status
            /\ row'.floor >= row.floor /\ row'.floor \in Nat
        <4>1. /\ row'.owner = row.owner /\ row'.highWater = row.highWater
              /\ row'.status = row.status /\ row'.floor = Later(row.floor, sealing[h].at)
          BY <1>0, <3>1, <3>2, RefusalRow, Zenon
        <4>2. Later(row.floor, sealing[h].at) \in Nat /\ Later(row.floor, sealing[h].at) >= row.floor
          BY <1>0, <3>1, LaterNat
        <4> QED
          BY <4>1, <4>2
      <3>4. EventsLogged' /\ OwnerLogged' /\ EventsFenced'
        BY <1>t, <3>2, <3>3, QuietFenced DEF IInv
      <3>5. OwnerIsLatest'
        BY <3>3 DEF IInv, OwnerIsLatest
      <3>6. ToldNotLive'
        <4> SUFFICES ASSUME NEW p \in toldExpired'
                     PROVE  /\ p[2] <= row'.highWater
                            /\ ~(row'.owner.host = p[1] /\ row'.owner.epoch = p[2]
                                  /\ row'.floor < row'.owner.expires)
          BY DEF ToldNotLive
        <4>1. CASE p \in toldExpired
          BY <1>0, <3>3, <4>1 DEF IInv, ToldNotLive, Leases
        <4>2. CASE /\ p = <<h, sealing[h].epoch>>
                   /\ RequireOwner(row, h, sealing[h].epoch, row'.floor) = "OwnershipExpired"
          <5>1. /\ row.owner # NoOwner /\ row.owner.epoch = sealing[h].epoch
                /\ ~(row'.floor < row.owner.expires)
            BY <4>2 DEF RequireOwner, IsEffectiveAt
          <5>2. p[2] = row.highWater
            BY <4>2, <5>1 DEF IInv, OwnerIsLatest
          <5> QED
            BY <1>0, <3>3, <5>1, <5>2
        <4> QED
          BY <1>7, <2>2, <4>1, <4>2 DEF ValidateSeal
      <3> QED
        BY <1>t, <3>4, <3>5, <3>6 DEF IInv
    <2> QED
      BY <2>1, <2>2
  <1>8. ASSUME NEW h \in Watchdogs,
               \/ RestartProcess(h)
               \/ \E e \in 1..row.highWater, t \in Times : ValidateRead(h, e, t)
        PROVE  IInv'
    BY <1>8, <1>q DEF RestartProcess, ValidateRead
  <1>9. CASE UNCHANGED vars
    BY <1>9, <1>q DEF vars
  <1> QED
    BY <1>1, <1>2, <1>3, <1>4, <1>5, <1>6, <1>7, <1>8, <1>9 DEF Next

(* The mutation committed by a step with an effect is fenced: the caller   *)
(* held the lease in the row at the floor the step leaves.                 *)
LEMMA AppliedHeld ==
  ASSUME IInv, Next, NEW c \in Commands, AppliedNow(c), c.action \in FencedActions
  PROVE  /\ row.owner # NoOwner
         /\ row.owner.host = c.caller
         /\ row.owner.epoch = c.epoch
         /\ row.floor < row.owner.expires
  <1>0. /\ TypeOK /\ row \in SessionRows /\ row.floor \in Nat /\ row.owner.expires \in Nat
    BY DEF IInv, TypeOK, SessionRows, Leases
  <1>1. ASSUME NEW t \in Nat, NEW a, Authorize(row, c.caller, c.epoch, a, t) = "ok"
        PROVE  /\ row.owner # NoOwner /\ row.owner.host = c.caller
               /\ row.owner.epoch = c.epoch /\ row.floor < row.owner.expires
    <2>1. Later(row.floor, t) >= row.floor /\ Later(row.floor, t) \in Nat
      BY <1>0, LaterNat, Zenon
    <2> QED
      BY <1>0, <1>1, <2>1, AuthorizeOk
  <1>2. ASSUME NEW d \in Commands, NEW o, NEW l, Record(d, o, l), Fresh(d)
        PROVE  d = c /\ o = "Applied"
    <2>1. c.req \in Requests /\ d.req \in Requests
      BY CommandType
    <2>2. c.req = d.req
      BY <1>0, <1>2, <2>1 DEF AppliedNow, Fresh, Record, TypeOK
    <2>3. ledger'[c.req] = [cmd |-> d, outcome |-> o, lease |-> l]
      BY <1>0, <1>2, <2>1, <2>2 DEF Record, TypeOK
    <2> QED
      BY <2>3 DEF AppliedNow
  <1>3. ASSUME UNCHANGED ledger PROVE FALSE
    BY <1>3 DEF AppliedNow, Fresh
  <1>4. ASSUME NEW d \in Commands, Replay(d) \/ OpenExisting(d) PROVE FALSE
    <2>1. CASE Replay(d)
      BY <1>3, <2>1 DEF Replay
    <2>2. CASE OpenExisting(d)
      <3>1. PICK o \in {"Unchanged", "IdentityConflict"} : Record(d, o, NoOwner) /\ Fresh(d)
        BY <2>2 DEF OpenExisting
      <3> QED
        BY <1>2, <3>1
    <2> QED
      BY <1>4, <2>1, <2>2
  <1>5. ASSUME NEW d \in Commands, NEW t \in Times, NEW o, Fresh(d), RecordOnly(d, o, t),
               o # "Applied"
        PROVE  FALSE
    BY <1>2, <1>5 DEF RecordOnly
  <1>6. ASSUME NEW d \in Commands, NEW t \in Times, NEW v \in BOOLEAN, OpenNew(d, t, v)
        PROVE  FALSE
    <2>1. d = c
      BY <1>2, <1>5, <1>6 DEF OpenNew
    <2> QED
      BY <1>6, <2>1 DEF OpenNew, FencedActions
  <1>7. ASSUME NEW d \in Commands, NEW t \in Times, AcquireOwnership(d, t) PROVE FALSE
    <2>1. AcquireVerdict(d, t) # "Applied"
      BY DEF AcquireVerdict, RequireOpen
    <2>2. d = c
      BY <1>2, <1>5, <1>7, <2>1 DEF AcquireOwnership
    <2> QED
      BY <1>7, <2>2 DEF AcquireOwnership, FencedActions
  <1>8. ASSUME NEW d \in Commands, NEW t \in Times, CloseSession(d, t) \/ ReleaseOwnership(d, t)
        PROVE  \E a : Authorize(row, c.caller, c.epoch, a, t) = "ok"
    <2>1. \A a : Authorize(row, d.caller, d.epoch, a, t) # "Applied"
      BY DEF Authorize, RequireOpen, RequireOwner
    <2> QED
      BY <1>2, <1>5, <1>8, <2>1 DEF CloseSession, ReleaseOwnership
  <1>9. ASSUME NEW d \in Commands, NEW t \in Times, RenewOwnership(d, t)
        PROVE  Authorize(row, c.caller, c.epoch, "renew", t) = "ok"
    <2>1. RenewVerdict(d, t) # "Applied"
      BY DEF RenewVerdict, Authorize, RequireOpen, RequireOwner
    <2>2. d = c /\ RenewVerdict(c, t) = "ok"
      BY <1>2, <1>5, <1>9, <2>1 DEF RenewOwnership
    <2> QED
      BY <2>2 DEF RenewVerdict
  <1>10. ASSUME NEW d \in Commands, NEW t \in Times, NEW v \in BOOLEAN,
                CreateRootParticipant(d, t, v)
         PROVE  Authorize(row, c.caller, c.epoch, "createRoot", t) = "ok"
    <2>0. t \in Nat
      BY TimesNat
    <2>1. CreateRootVerdict(d, t, v) # "Applied"
      BY DEF CreateRootVerdict, Authorize, RequireOpen, RequireOwner
    <2>2. d = c /\ CreateRootVerdict(c, t, v) = "ok"
      BY <1>2, <1>5, <1>10, <2>1 DEF CreateRootParticipant
    <2> QED
      BY <2>2 DEF CreateRootVerdict
  <1>11. ASSUME NEW h \in Watchdogs,
               \/ ValidateSeal(h) \/ RestartProcess(h)
               \/ \E e \in 1..row.highWater, t \in Times : ValidateRead(h, e, t)
        PROVE  FALSE
    BY <1>3, <1>11 DEF ValidateRead, ValidateSeal, RestartProcess
  <1>12. \E t \in Times : \E a :
            Authorize(row, c.caller, c.epoch, a, t) = "ok"
    BY <1>4, <1>6, <1>7, <1>8, <1>9, <1>10, <1>11 DEF Next
  <1> QED
    BY <1>1, <1>12, TimesNat

(* The event log is fenced: for any hosts, commands and clock readings,    *)
(* every protected event was caused by the holder of the tenure in which   *)
(* it stands (require_owner within the writing transaction).               *)
THEOREM LogFenced == Spec => []EventsFenced
  <1>1. IInv => EventsFenced
    BY DEF IInv
  <1> QED
    BY <1>1, InvInit, InvStep, PTL DEF Spec

(* Expiry is one-way: a host told OwnershipExpired for an epoch commits no *)
(* mutation under it afterwards (validate_launch_authority's seal and the  *)
(* floor committed by finish_failure).                                     *)
THEOREM ExpiryIsOneWay == Spec => ExpiredNeverActs
  <1>1. ASSUME IInv, [Next]_vars
        PROVE  [\A c \in Commands : AppliedNow(c) /\ c.action \in FencedActions
                  => <<c.caller, c.epoch>> \notin toldExpired]_vars
    <2> SUFFICES ASSUME Next, NEW c \in Commands, AppliedNow(c), c.action \in FencedActions,
                        <<c.caller, c.epoch>> \in toldExpired
                 PROVE  FALSE
      BY <1>1
    <2>1. /\ row.owner.host = c.caller /\ row.owner.epoch = c.epoch
          /\ row.floor < row.owner.expires
      BY <1>1, AppliedHeld
    <2>2. ~(row.owner.host = <<c.caller, c.epoch>>[1] /\ row.owner.epoch = <<c.caller, c.epoch>>[2]
            /\ row.floor < row.owner.expires)
      BY <1>1 DEF IInv, ToldNotLive
    <2> QED
      BY <2>1, <2>2
  <1> QED
    BY <1>1, InvInit, InvStep, PTL DEF Spec, ExpiredNeverActs

-----------------------------------------------------------------------------
(* One answer per command *)

(* The answers given to a command are the one its ledger row records. *)
AnswersRecorded ==
  \A c \in Commands :
    answers[c] \subseteq
      IF ledger[c.req] # None /\ ledger[c.req].cmd = c
      THEN {[outcome |-> ledger[c.req].outcome, lease |-> ledger[c.req].lease]}
      ELSE {}

(* What a step does to the ledger and the answers: it replays a recorded   *)
(* outcome, records a first one, or touches neither.                       *)
LEMMA AnswerKinds ==
  ASSUME [Next]_vars
  PROVE  \/ \E c \in Commands : Replay(c)
         \/ \E c \in Commands : Fresh(c) /\ \E o, l : Record(c, o, l) /\ Answer(c, o, l)
         \/ UNCHANGED <<ledger, answers>>
  <1>1. ASSUME NEW c \in Commands, Replay(c) \/ OpenExisting(c)
        PROVE  Replay(c) \/ (Fresh(c) /\ \E o, l : Record(c, o, l) /\ Answer(c, o, l))
    <2>1. CASE OpenExisting(c)
      <3>1. \E o : Record(c, o, NoOwner) /\ Answer(c, o, NoOwner)
        BY <2>1 DEF OpenExisting
      <3> QED
        BY <2>1, <3>1 DEF OpenExisting
    <2> QED
      BY <1>1, <2>1
  <1>2. ASSUME NEW c \in Commands, NEW t \in Times,
               \/ CloseSession(c, t) \/ AcquireOwnership(c, t)
               \/ RenewOwnership(c, t) \/ ReleaseOwnership(c, t)
               \/ \E v \in BOOLEAN : OpenNew(c, t, v) \/ CreateRootParticipant(c, t, v)
        PROVE  Fresh(c) /\ \E o, l : Record(c, o, l) /\ Answer(c, o, l)
    <2>1. CASE CloseSession(c, t)
      BY <2>1, Zenon DEF CloseSession, RecordOnly
    <2>2. CASE AcquireOwnership(c, t)
      BY <2>2, Zenon DEF AcquireOwnership, RecordOnly
    <2>3. CASE RenewOwnership(c, t)
      BY <2>3, Zenon DEF RenewOwnership, RecordOnly
    <2>4. CASE ReleaseOwnership(c, t)
      BY <2>4, Zenon DEF ReleaseOwnership, RecordOnly
    <2>5. ASSUME NEW v \in BOOLEAN, OpenNew(c, t, v)
          PROVE  Fresh(c) /\ \E o, l : Record(c, o, l) /\ Answer(c, o, l)
      BY <2>5, Zenon DEF OpenNew, RecordOnly
    <2>6. ASSUME NEW v \in BOOLEAN, CreateRootParticipant(c, t, v)
          PROVE  Fresh(c) /\ \E o, l : Record(c, o, l) /\ Answer(c, o, l)
      BY <2>6, Zenon DEF CreateRootParticipant, RecordOnly
    <2> QED
      BY <1>2, <2>1, <2>2, <2>3, <2>4, <2>5, <2>6
  <1>3. ASSUME NEW h \in Watchdogs,
               \/ ValidateSeal(h) \/ RestartProcess(h)
               \/ \E e \in 1..row.highWater, t \in Times : ValidateRead(h, e, t)
        PROVE  UNCHANGED <<ledger, answers>>
    BY <1>3 DEF ValidateSeal, RestartProcess, ValidateRead
  <1>4. CASE UNCHANGED vars
    BY <1>4 DEF vars
  <1> QED
    BY <1>1, <1>2, <1>3, <1>4 DEF Next

(* A replay adds nothing to the recorded answer, and a first outcome is    *)
(* recorded under a request no command was answered for.                   *)
LEMMA AnswersStep ==
  ASSUME TypeOK, AnswersRecorded, [Next]_vars
  PROVE  AnswersRecorded'
  <1>1. ASSUME NEW c \in Commands, Replay(c)
        PROVE  AnswersRecorded'
    <2>1. ledger' = ledger /\ ~Fresh(c) /\ ledger[c.req].cmd = c
      BY <1>1 DEF Replay
    <2>2. \A d \in Commands : answers'[d] =
            IF d = c THEN answers[d] \cup {[outcome |-> ledger[c.req].outcome,
                                            lease |-> ledger[c.req].lease]}
                     ELSE answers[d]
      BY <1>1, Zenon DEF Replay, Answer, TypeOK
    <2> QED
      BY <2>1, <2>2, Zenon DEF AnswersRecorded, Fresh
  <1>2. ASSUME NEW c \in Commands, Fresh(c), NEW o, NEW l, Record(c, o, l), Answer(c, o, l)
        PROVE  AnswersRecorded'
    <2> DEFINE entry == [cmd |-> c, outcome |-> o, lease |-> l]
               answer == [outcome |-> o, lease |-> l]
    <2> SUFFICES ASSUME NEW d \in Commands
                 PROVE  answers'[d] \subseteq
                          IF ledger'[d.req] # None /\ ledger'[d.req].cmd = d
                          THEN {[outcome |-> ledger'[d.req].outcome,
                                 lease |-> ledger'[d.req].lease]}
                          ELSE {}
      BY DEF AnswersRecorded
    <2>1. c.req \in Requests /\ d.req \in Requests
      BY CommandType
    <2>2. ledger'[d.req] = IF d.req = c.req THEN entry ELSE ledger[d.req]
      BY <1>2, <2>1, Zenon DEF Record, TypeOK
    <2>3. answers'[d] = IF d = c THEN answers[d] \cup {answer} ELSE answers[d]
      BY <1>2, Zenon DEF Answer, TypeOK
    <2>4. d.req = c.req => answers[d] = {}
      BY <1>2 DEF Fresh, AnswersRecorded
    <2>5. CASE d.req # c.req
      BY <2>2, <2>3, <2>5 DEF AnswersRecorded
    <2>6. CASE d.req = c.req /\ d # c
      BY <2>3, <2>4, <2>6
    <2>7. CASE d = c
      <3>1. answers'[d] = {answer} /\ ledger'[d.req] = entry
        BY <2>2, <2>3, <2>4, <2>7
      <3>2. entry # None
        <4>1. answer \in [outcome : Outcomes, lease : Leases]
          BY <2>7, <3>1, TypeStep, Zenon DEF TypeOK
        <4>2. entry \in Entries
          BY <4>1 DEF Entries
        <4> QED
          BY <4>2, NoneNotEntry
      <3> QED
        BY <2>7, <3>1, <3>2
    <2> QED
      BY <2>5, <2>6, <2>7
  <1>3. CASE UNCHANGED <<ledger, answers>>
    BY <1>3 DEF AnswersRecorded
  <1> QED
    BY <1>1, <1>2, <1>3, AnswerKinds

(* Idempotent answers: however often a command is retried, and whatever    *)
(* happened to the session in between, it is only ever given the answer    *)
(* its request_ledger row records (replay_bytes, record_bytes).            *)
THEOREM OneAnswer == Spec => []StableAnswers
  <1>1. Init => AnswersRecorded
    BY DEF Init, AnswersRecorded
  <1>2. AnswersRecorded => StableAnswers
    BY DEF AnswersRecorded, StableAnswers
  <1>3. Init => TypeOK
    BY TypeInit
  <1>4. TypeOK /\ AnswersRecorded /\ [Next]_vars => (TypeOK /\ AnswersRecorded)'
    BY TypeStep, AnswersStep
  <1> QED
    BY <1>1, <1>2, <1>3, <1>4, PTL DEF Spec

-----------------------------------------------------------------------------
(* The store implements the abstract fenced lease *)

(* The effective writes of the abstract lease, read off the ledger. *)
LeaseWrites == {<<r, ledger[r].cmd.caller, ledger[r].cmd.epoch>> : r \in Writes}

(* A session that does not exist yet has the row of no session. *)
AbsentIsNew == row.status = "absent" => row = AbsentRow

(* Only open_session gives an absent session a row. *)
LEMMA AbsentStep ==
  ASSUME TypeOK, AbsentIsNew, [Next]_vars
  PROVE  AbsentIsNew'
  <1>0. row \in SessionRows /\ TypeOK'
    BY TypeStep DEF TypeOK
  <1>1. ASSUME row' = row PROVE AbsentIsNew'
    BY <1>1 DEF AbsentIsNew
  <1>2. ASSUME NEW t, row' = AdvanceFloor(row, t), row.status = "open" PROVE AbsentIsNew'
    BY <1>0, <1>2 DEF AbsentIsNew, AdvanceFloor, SessionRows
  <1>3. ASSUME NEW c, NEW o, NEW t, RecordOnly(c, o, t) PROVE AbsentIsNew'
    BY <1>1, <1>2, <1>3 DEF RecordOnly, RowAfterRefusal
  <1>4. ASSUME NEW h, NEW e, NEW a, NEW t \in Nat, Authorize(row, h, e, a, t) = "ok"
        PROVE  row.status = "open"
    BY <1>0, <1>4, AuthorizeOk
  <1>5. ASSUME NEW c \in Commands, NEW t \in Times,
               CloseSession(c, t) \/ ReleaseOwnership(c, t)
        PROVE  AbsentIsNew'
    <2>1. AdvanceFloor(row, t) \in SessionRows /\ AdvanceFloor(row, t).status = row.status
      BY <1>0, RefusalRow, TimesNat, Zenon
    <2>2. ASSUME NEW r \in SessionRows
          PROVE  /\ [r EXCEPT !.status = "closed", !.revision = @ + 1, !.owner = NoOwner].status = "closed"
                 /\ [r EXCEPT !.owner = NoOwner, !.revision = @ + 1].status = r.status
      BY DEF SessionRows
    <2>3. CASE CloseSession(c, t)
      BY <1>3, <2>1, <2>2, <2>3, Zenon DEF CloseSession, AbsentIsNew
    <2>4. CASE ReleaseOwnership(c, t)
      <3>1. t \in Nat
        BY TimesNat
      <3>2. CASE Authorize(row, c.caller, c.epoch, "release", t) # "ok"
        BY <1>3, <2>4, <3>2 DEF ReleaseOwnership
      <3>3. CASE Authorize(row, c.caller, c.epoch, "release", t) = "ok"
        <4>1. row.status = "open"
          BY <1>4, <3>1, <3>3
        <4>2. row' = [AdvanceFloor(row, t) EXCEPT !.owner = NoOwner, !.revision = @ + 1]
          BY <2>4, <3>3 DEF ReleaseOwnership
        <4> QED
          BY <2>1, <2>2, <4>1, <4>2 DEF AbsentIsNew
      <3> QED
        BY <3>2, <3>3
    <2> QED
      BY <1>5, <2>3, <2>4
  <1>6. ASSUME NEW c \in Commands, NEW t \in Times,
               AcquireOwnership(c, t) \/ RenewOwnership(c, t)
        PROVE  AbsentIsNew'
    <2>1. CASE AcquireOwnership(c, t)
      <3>1. AcquireVerdict(c, t) = "ok" => row.status = "open"
        BY <1>0 DEF AcquireVerdict, RequireOpen, SessionRows, Statuses
      <3>2. AcquireVerdict(c, t) = "ok" => row'.status = row.status
        BY <1>0, <2>1, Zenon DEF AcquireOwnership, SessionRows, RecordOnly
      <3> QED
        BY <1>3, <2>1, <3>1, <3>2 DEF AcquireOwnership, AbsentIsNew
    <2>2. CASE RenewOwnership(c, t)
      <3>1. RenewVerdict(c, t) = "ok" => row.status = "open"
        BY <1>4, TimesNat DEF RenewVerdict
      <3>2. RenewVerdict(c, t) = "ok" => row'.status = row.status
        BY <1>0, <2>2, Zenon DEF RenewOwnership, SessionRows, RecordOnly
      <3> QED
        BY <1>3, <2>2, <3>1, <3>2 DEF RenewOwnership, AbsentIsNew
    <2> QED
      BY <1>6, <2>1, <2>2
  <1>7. ASSUME NEW c \in Commands, NEW t \in Times, NEW v \in BOOLEAN,
               OpenNew(c, t, v) \/ CreateRootParticipant(c, t, v)
        PROVE  AbsentIsNew'
    <2>1. CASE OpenNew(c, t, v)
      <3>1. [AbsentRow EXCEPT !.status = "open", !.revision = 1, !.floor = t].status = "open"
        BY DEF AbsentRow
      <3> QED
        BY <1>3, <2>1, <3>1, Zenon DEF OpenNew, AbsentIsNew
    <2>2. CASE CreateRootParticipant(c, t, v)
      <3>1. CreateRootVerdict(c, t, v) = "ok" => row.status = "open"
        <4>1. t \in Nat
          BY TimesNat
        <4>2. CreateRootVerdict(c, t, v) = "ok" =>
                Authorize(row, c.caller, c.epoch, "createRoot", t) = "ok"
          BY DEF CreateRootVerdict
        <4> QED
          BY <1>4, <4>1, <4>2
      <3> QED
        BY <1>2, <1>3, <2>2, <3>1 DEF CreateRootParticipant
    <2> QED
      BY <1>7, <2>1, <2>2
  <1>8. ASSUME NEW h \in Watchdogs, ValidateSeal(h)
        PROVE  AbsentIsNew'
    BY <1>1, <1>2, <1>8 DEF ValidateSeal
  <1>9. ASSUME \/ \E c \in Commands : Replay(c) \/ OpenExisting(c)
               \/ \E h \in Watchdogs : RestartProcess(h)
               \/ \E h \in Watchdogs, e \in 1..row.highWater, t \in Times : ValidateRead(h, e, t)
               \/ UNCHANGED vars
        PROVE  AbsentIsNew'
    BY <1>1, <1>9 DEF Replay, OpenExisting, RestartProcess, ValidateRead, vars
  <1> QED
    BY <1>5, <1>6, <1>7, <1>8, <1>9 DEF Next

(* Recording an outcome without effect leaves the abstract writes alone. *)
LEMMA WritesKept ==
  ASSUME TypeOK,
         \/ UNCHANGED ledger
         \/ \E o, l : \E c \in Commands :
              /\ Fresh(c) /\ Record(c, o, l)
              /\ o # "Applied" \/ c.action \notin FencedActions
  PROVE  LeaseWrites' = LeaseWrites
  <1>1. CASE UNCHANGED ledger
    BY <1>1 DEF LeaseWrites, Writes
  <1>2. ASSUME NEW c \in Commands, NEW o, NEW l, Fresh(c), Record(c, o, l),
               o # "Applied" \/ c.action \notin FencedActions
        PROVE  LeaseWrites' = LeaseWrites
    <2> DEFINE entry == [cmd |-> c, outcome |-> o, lease |-> l]
    <2>1. c.req \in Requests
      BY CommandType
    <2>2. /\ ledger'[c.req] = entry
          /\ \A r \in Requests : r # c.req => ledger'[r] = ledger[r]
      BY <1>2, <2>1 DEF Record, TypeOK
    <2>3. ~(entry.outcome = "Applied" /\ entry.cmd.action \in FencedActions)
      BY <1>2
    <2>4. c.req \notin Writes /\ c.req \notin Writes'
      BY <1>2, <2>1, <2>2, <2>3 DEF Writes, Fresh
    <2>5. Writes' = Writes
      BY <2>2, <2>4 DEF Writes
    <2>6. \A r \in Writes : r \in Requests /\ ledger'[r] = ledger[r]
      BY <2>2, <2>4 DEF Writes
    <2> QED
      BY <2>5, <2>6 DEF LeaseWrites
  <1> QED
    BY <1>1, <1>2

(* An applied protected mutation is one new abstract write. *)
LEMMA WritesAdded ==
  ASSUME TypeOK, NEW c \in Commands, NEW l \in Leases, Fresh(c), Record(c, "Applied", l),
         c.action \in FencedActions
  PROVE  /\ LeaseWrites' = LeaseWrites \cup {<<c.req, c.caller, c.epoch>>}
         /\ \A w \in LeaseWrites : w[1] # c.req
  <1> DEFINE entry == [cmd |-> c, outcome |-> "Applied", lease |-> l]
  <1>1. c.req \in Requests
    BY CommandType
  <1>2. /\ ledger'[c.req] = entry
        /\ \A r \in Requests : r # c.req => ledger'[r] = ledger[r]
    BY <1>1 DEF Record, TypeOK
  <1>3. entry \in Entries
    BY DEF Entries, Outcomes
  <1>4. /\ ledger'[c.req] # None /\ ledger'[c.req].outcome = "Applied" /\ ledger'[c.req].cmd = c
    BY <1>2, <1>3, NoneNotEntry
  <1>5. Writes' = Writes \cup {c.req} /\ c.req \notin Writes
    BY <1>1, <1>2, <1>4 DEF Writes, Fresh
  <1>6. \A r \in Writes : r \in Requests /\ ledger'[r] = ledger[r] /\ r # c.req
    BY <1>2, <1>5 DEF Writes
  <1>7. \A w : w \in LeaseWrites' <=> w \in LeaseWrites \/ w = <<c.req, c.caller, c.epoch>>
    BY <1>4, <1>5, <1>6 DEF LeaseWrites
  <1>8. \A w \in LeaseWrites : w[1] # c.req
    BY <1>6 DEF LeaseWrites
  <1> QED
    BY <1>7, <1>8

(* A step that only moves the floor forward is a tick of the lease. *)
LEMMA TickStep ==
  ASSUME row'.floor >= row.floor, row'.owner = row.owner, row'.highWater = row.highWater,
         LeaseWrites' = LeaseWrites
  PROVE  Lease!Next
  BY DEF Lease!Next, Lease!Tick, LeaseWrites

(* A protected mutation by the holder of a lease in force is a write. *)
LEMMA WriteStep ==
  ASSUME IInv, NEW c \in Commands, NEW l \in Leases, Fresh(c), Record(c, "Applied", l),
         c.action \in FencedActions,
         NEW a, NEW t \in Nat, Authorize(row, c.caller, c.epoch, a, t) = "ok",
         row'.floor = Later(row.floor, t), row'.highWater = row.highWater,
         \/ row'.owner = row.owner
         \/ row'.owner = NoOwner
         \/ /\ row'.owner.expires > row'.floor
            /\ row'.owner = [row.owner EXCEPT !.expires = row'.owner.expires]
  PROVE  Lease!Next
  <1>0. row \in SessionRows /\ TypeOK /\ row.floor \in Nat
    BY DEF IInv, TypeOK, SessionRows
  <1>1. /\ row.owner # NoOwner /\ row.owner.host = c.caller /\ row.owner.epoch = c.epoch
        /\ row'.floor < row.owner.expires
    BY <1>0, AuthorizeOk
  <1>2. row'.floor >= row.floor
    BY <1>0, LaterNat
  <1>3. /\ LeaseWrites' = LeaseWrites \cup {<<c.req, row.owner.host, row.owner.epoch>>}
        /\ \A w \in LeaseWrites : w[1] # c.req
    BY <1>0, <1>1, WritesAdded
  <1>4. Lease!Write(c.req)
    BY <1>1, <1>2, <1>3 DEF Lease!Write, Lease!InForce, LeaseWrites
  <1>5. c.req \in Requests
    BY CommandType
  <1> QED
    BY <1>4, <1>5 DEF Lease!Next

(* A refusal, recorded with the advanced floor, is a tick. *)
LEMMA RefusalTick ==
  ASSUME IInv, NEW c \in Commands, Fresh(c), NEW o, o # "Applied", NEW t \in Nat,
         RecordOnly(c, o, t)
  PROVE  Lease!Next
  <1>0. row \in SessionRows /\ TypeOK
    BY DEF IInv, TypeOK
  <1>1. row'.owner = row.owner /\ row'.highWater = row.highWater /\ row'.floor >= row.floor
    BY <1>0, RefusalRow DEF RecordOnly
  <1>2. LeaseWrites' = LeaseWrites
    BY <1>0, WritesKept DEF RecordOnly
  <1> QED
    BY <1>1, <1>2, TickStep

(* No verdict of the authorization prologue is the outcome Applied. *)
LEMMA VerdictNotApplied ==
  ASSUME NEW c, NEW a, NEW t, NEW v
  PROVE  /\ Authorize(row, c.caller, c.epoch, a, t) # "Applied"
         /\ AcquireVerdict(c, t) # "Applied"
         /\ RenewVerdict(c, t) # "Applied"
         /\ CreateRootVerdict(c, t, v) # "Applied"
  <1>1. \A b : Authorize(row, c.caller, c.epoch, b, t) # "Applied"
    BY DEF Authorize, RequireOpen, RequireOwner
  <1> QED
    BY <1>1 DEF AcquireVerdict, RequireOpen, RenewVerdict, CreateRootVerdict

(* Every step of the store is a step of the abstract lease or leaves it    *)
(* unchanged.                                                              *)
LEMMA LeaseStep ==
  ASSUME IInv, AbsentIsNew, [Next]_vars
  PROVE  [Lease!Next]_(Lease!avars)
  <1>0. /\ TypeOK /\ row \in SessionRows /\ row.floor \in Nat /\ row.highWater \in Nat
        /\ row.owner \in Leases /\ row.revision \in Nat
    BY DEF IInv, TypeOK, SessionRows
  <1>1. ASSUME NEW c \in Commands, Replay(c) \/ OpenExisting(c)
        PROVE  Lease!Next
    <2>1. CASE Replay(c)
      BY <1>0, <2>1, WritesKept, TickStep DEF Replay
    <2>2. CASE OpenExisting(c)
      <3>1. row' = row
        BY <2>2 DEF OpenExisting
      <3>2. c.action \notin FencedActions /\ Fresh(c) /\ \E o : Record(c, o, NoOwner)
        BY <2>2 DEF OpenExisting, FencedActions
      <3> QED
        BY <1>0, <3>1, <3>2, WritesKept, TickStep
    <2> QED
      BY <1>1, <2>1, <2>2
  <1>2. ASSUME NEW c \in Commands, NEW t \in Times, NEW v \in BOOLEAN, OpenNew(c, t, v)
        PROVE  Lease!Next
    <2>0. t \in Nat /\ Fresh(c) /\ c.action \notin FencedActions
      BY <1>2, TimesNat DEF OpenNew, FencedActions
    <2>1. CASE RecordOnly(c, "Invalid", t)
      BY <2>0, <2>1, RefusalTick
    <2>2. CASE /\ row.status = "absent"
               /\ row' = [AbsentRow EXCEPT !.status = "open", !.revision = 1, !.floor = t]
               /\ Record(c, "Applied", NoOwner)
      <3>1. row = AbsentRow
        BY <2>2 DEF AbsentIsNew
      <3>2. row'.owner = row.owner /\ row'.highWater = row.highWater /\ row'.floor >= row.floor
        BY <2>0, <2>2, <3>1 DEF AbsentRow
      <3>3. LeaseWrites' = LeaseWrites
        BY <1>0, <2>0, <2>2, WritesKept
      <3> QED
        BY <3>2, <3>3, TickStep
    <2> QED
      BY <1>2, <2>1, <2>2 DEF OpenNew
  <1>3. ASSUME NEW c \in Commands, NEW t \in Times, CloseSession(c, t) \/ ReleaseOwnership(c, t)
        PROVE  Lease!Next
    <2>0. t \in Nat /\ Fresh(c) /\ c.action \in FencedActions
      BY <1>3, TimesNat DEF CloseSession, ReleaseOwnership, FencedActions
    <2>1. ASSUME NEW a, Authorize(row, c.caller, c.epoch, a, t) # "ok",
                 RecordOnly(c, Authorize(row, c.caller, c.epoch, a, t), t)
          PROVE  Lease!Next
      BY <2>0, <2>1, RefusalTick, VerdictNotApplied
    <2>2. ASSUME NEW a, Authorize(row, c.caller, c.epoch, a, t) = "ok",
                 row'.owner = NoOwner, row'.highWater = row.highWater,
                 row'.floor = Later(row.floor, t), Record(c, "Applied", NoOwner)
          PROVE  Lease!Next
      BY <2>0, <2>2, NoOwnerType, WriteStep
    <2>3. ASSUME NEW r \in SessionRows
          PROVE  /\ [r EXCEPT !.status = "closed", !.revision = @ + 1, !.owner = NoOwner].owner = NoOwner
                 /\ [r EXCEPT !.status = "closed", !.revision = @ + 1, !.owner = NoOwner].highWater = r.highWater
                 /\ [r EXCEPT !.status = "closed", !.revision = @ + 1, !.owner = NoOwner].floor = r.floor
                 /\ [r EXCEPT !.owner = NoOwner, !.revision = @ + 1].owner = NoOwner
                 /\ [r EXCEPT !.owner = NoOwner, !.revision = @ + 1].highWater = r.highWater
                 /\ [r EXCEPT !.owner = NoOwner, !.revision = @ + 1].floor = r.floor
      BY ONLY r \in SessionRows DEF SessionRows
    <2>4. /\ AdvanceFloor(row, t) \in SessionRows
          /\ AdvanceFloor(row, t).highWater = row.highWater
          /\ AdvanceFloor(row, t).floor = Later(row.floor, t)
      BY <1>0, <2>0, RefusalRow
    <2>5. CASE CloseSession(c, t)
      BY <2>1, <2>2, <2>3, <2>4, <2>5, Zenon DEF CloseSession
    <2>6. CASE ReleaseOwnership(c, t)
      BY <2>1, <2>2, <2>3, <2>4, <2>6, Zenon DEF ReleaseOwnership
    <2> QED
      BY <1>3, <2>5, <2>6
  <1>4. ASSUME NEW c \in Commands, NEW t \in Times, AcquireOwnership(c, t)
        PROVE  Lease!Next
    <2>0. /\ t \in Nat /\ Fresh(c) /\ c.action \notin FencedActions
          /\ c.caller \in Hosts /\ c.arg \in Nat \ {0}
      BY <1>4, TimesNat, CommandType DEF AcquireOwnership, FencedActions
    <2>1. CASE AcquireVerdict(c, t) # "ok" /\ RecordOnly(c, AcquireVerdict(c, t), t)
      BY <2>0, <2>1, RefusalTick, VerdictNotApplied
    <2>2. CASE AcquireVerdict(c, t) = "ok"
      <3> DEFINE now == Later(row.floor, t)
                 lease == [host |-> c.caller, epoch |-> NextEpoch, expires |-> now + c.arg]
      <3>1. /\ row' = [row EXCEPT !.owner = lease, !.highWater = lease.epoch,
                                  !.revision = @ + 1, !.floor = now]
            /\ Record(c, "Applied", lease)
        BY <1>4, <2>2 DEF AcquireOwnership
      <3>2. now \in Nat /\ now >= row.floor
        BY <1>0, <2>0, LaterNat, Zenon
      <3>3. /\ lease.host = c.caller /\ lease.epoch = row.highWater + 1
            /\ lease.expires = now + c.arg
        BY DEF NextEpoch
      <3>4. ~(row.owner # NoOwner /\ now < row.owner.expires)
        BY <2>2 DEF AcquireVerdict, IsEffectiveAt
      <3> HIDE DEF lease, now
      <3>5. row'.owner = lease /\ row'.highWater = row.highWater + 1 /\ row'.floor = now
        BY <1>0, <3>1, <3>3 DEF SessionRows
      <3>6. LeaseWrites' = LeaseWrites
        BY <1>0, <2>0, <3>1, WritesKept
      <3>7. Lease!Grant(c.caller)
        BY <2>0, <3>2, <3>3, <3>4, <3>5, <3>6 DEF Lease!Grant, Lease!InForce, LeaseWrites
      <3> QED
        BY <2>0, <3>7 DEF Lease!Next
    <2> QED
      BY <1>4, <2>1, <2>2 DEF AcquireOwnership
  <1>5. ASSUME NEW c \in Commands, NEW t \in Times, RenewOwnership(c, t)
        PROVE  Lease!Next
    <2>0. /\ t \in Nat /\ Fresh(c) /\ c.action \in FencedActions /\ c.arg \in Nat \ {0}
      BY <1>5, TimesNat, CommandType DEF RenewOwnership, FencedActions
    <2>1. CASE RenewVerdict(c, t) # "ok" /\ RecordOnly(c, RenewVerdict(c, t), t)
      BY <2>0, <2>1, RefusalTick, VerdictNotApplied
    <2>2. CASE RenewVerdict(c, t) = "ok"
      <3> DEFINE now == Later(row.floor, t)
                 lease == [row.owner EXCEPT !.expires = now + c.arg]
      <3>1. row' = [row EXCEPT !.owner = lease, !.floor = now] /\ Record(c, "Applied", lease)
        BY <1>5, <2>2 DEF RenewOwnership
      <3>2. now \in Nat
        BY <1>0, <2>0, LaterNat, Zenon
      <3>3. lease \in Leases /\ lease.expires = now + c.arg
        BY <1>0, <2>0, <3>2 DEF Leases
      <3>4. lease = [row.owner EXCEPT !.expires = lease.expires]
        BY <3>3
      <3> HIDE DEF lease, now
      <3>5. row'.owner = lease /\ row'.highWater = row.highWater /\ row'.floor = now
        BY <1>0, <3>1 DEF SessionRows
      <3>6. lease.expires > row'.floor
        BY <2>0, <3>2, <3>3, <3>5
      <3>7. Authorize(row, c.caller, c.epoch, "renew", t) = "ok"
        BY <2>2 DEF RenewVerdict
      <3>8. row'.floor = Later(row.floor, t)
        BY <3>5 DEF now
      <3> QED
        BY <2>0, <3>1, <3>3, <3>4, <3>5, <3>6, <3>7, <3>8, WriteStep
    <2> QED
      BY <1>5, <2>1, <2>2 DEF RenewOwnership
  <1>6. ASSUME NEW c \in Commands, NEW t \in Times, NEW v \in BOOLEAN,
               CreateRootParticipant(c, t, v)
        PROVE  Lease!Next
    <2>0. t \in Nat /\ Fresh(c) /\ c.action \in FencedActions
      BY <1>6, TimesNat DEF CreateRootParticipant, FencedActions
    <2>1. CASE CreateRootVerdict(c, t, v) # "ok" /\ RecordOnly(c, CreateRootVerdict(c, t, v), t)
      BY <2>0, <2>1, RefusalTick, VerdictNotApplied
    <2>2. CASE /\ CreateRootVerdict(c, t, v) = "ok"
               /\ row' = AdvanceFloor(row, t) /\ Record(c, "Applied", NoOwner)
      <3>1. Authorize(row, c.caller, c.epoch, "createRoot", t) = "ok"
        BY <2>2 DEF CreateRootVerdict
      <3>2. /\ row'.owner = row.owner /\ row'.highWater = row.highWater
            /\ row'.floor = Later(row.floor, t)
        BY <1>0, <2>0, <2>2, RefusalRow, Zenon
      <3> QED
        BY <2>0, <2>2, <3>1, <3>2, NoOwnerType, WriteStep
    <2> QED
      BY <1>6, <2>1, <2>2 DEF CreateRootParticipant
  <1>7. ASSUME NEW h \in Watchdogs, ValidateSeal(h)
        PROVE  Lease!Next
    <2>1. sealing[h].at \in Nat
      BY <1>0, <1>7, CommandsAssumption DEF ValidateSeal, TypeOK
    <2>2. row'.owner = row.owner /\ row'.highWater = row.highWater /\ row'.floor >= row.floor
      <3>1. CASE row.status # "open"
        BY <1>0, <1>7, <3>1 DEF ValidateSeal
      <3>2. CASE row.status = "open"
        <4>1. row' = AdvanceFloor(row, sealing[h].at)
          BY <1>7, <3>2 DEF ValidateSeal
        <4>2. row'.owner = row.owner /\ row'.highWater = row.highWater
               /\ row'.floor = Later(row.floor, sealing[h].at)
          BY <1>0, <2>1, <4>1, RefusalRow, Zenon
        <4>3. Later(row.floor, sealing[h].at) >= row.floor
          BY <1>0, <2>1, LaterNat, Zenon
        <4> QED
          BY <4>2, <4>3
      <3> QED
        BY <3>1, <3>2
    <2>3. LeaseWrites' = LeaseWrites
      BY <1>0, <1>7, WritesKept DEF ValidateSeal
    <2> QED
      BY <2>2, <2>3, TickStep
  <1>8. ASSUME NEW h \in Watchdogs,
               \/ RestartProcess(h)
               \/ \E e \in 1..row.highWater, t \in Times : ValidateRead(h, e, t)
        PROVE  Lease!Next
    <2>1. row' = row /\ ledger' = ledger
      BY <1>8 DEF RestartProcess, ValidateRead
    <2> QED
      BY <1>0, <2>1, WritesKept, TickStep
  <1>9. CASE UNCHANGED vars
    <2>1. row' = row /\ ledger' = ledger
      BY <1>9 DEF vars
    <2> QED
      BY <1>0, <2>1, WritesKept, TickStep
  <1> QED
    BY <1>1, <1>2, <1>3, <1>4, <1>5, <1>6, <1>7, <1>8, <1>9 DEF Next

(* The session store implements the fenced lease: with its ledger, clock   *)
(* regressions, watchdogs and restarts, for every set of hosts, commands   *)
(* and clock readings, each of its transactions ticks the clock, grants a  *)
(* new epoch while no lease is in force, or is a write by the holder of    *)
(* the lease in force that no earlier write preceded under its request.    *)
THEOREM StoreIsFencedLease == Spec => ImplementsFencedLease
  <1>1. Init => Lease!Init
    BY DEF Init, Lease!Init, AbsentRow, Writes
  <1>2. Init => AbsentIsNew
    BY DEF Init, AbsentIsNew
  <1>3. IInv /\ AbsentIsNew /\ [Next]_vars => IInv' /\ AbsentIsNew'
    BY InvStep, AbsentStep DEF IInv
  <1> QED
    BY <1>1, <1>2, <1>3, InvInit, LeaseStep, PTL DEF Spec, ImplementsFencedLease, Lease!Spec
=============================================================================
