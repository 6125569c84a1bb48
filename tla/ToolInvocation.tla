--------------------------- MODULE ToolInvocation ---------------------------
(***************************************************************************)
(* The durable side of consumer tools: the one connection row of a tool    *)
(* provider, the invocations dispatched through it with their entries in   *)
(* the effect journal, and the ledger of committed transitions (ToolStore  *)
(* in the SQLite store).  One session, one operation, one provider and one *)
(* registered tool, whose effect class and cancellation behaviour belong   *)
(* to the scenario.  An invocation and its journal entry always move       *)
(* together, so one record stands for both; `epoch' is the entry's owner.  *)
(* A connection id is fresh for every connection and so is the generation  *)
(* it is given: the generation stands for both.                            *)
(***************************************************************************)
EXTENDS Naturals, Sequences, FiniteSets

CONSTANTS
  Requests,   \* tool requests of the operation
  None,       \* no snapshot, no terminal, no cancellation
  Scenarios   \* the instances explored together

VARIABLES
  scenario,   \* the instance this behaviour explores
  epoch,      \* ownership epoch of the session; the modelled host owns it
  op,         \* state of the operation the requests belong to
  authorized, \* whether the participant's policy still admits the tool
  link,       \* the provider's durable connection row
  inv,        \* invocation of each request
  late,       \* requests whose invocation is past its deadline
  ledger      \* committed transition commands with the snapshot they returned

tools == <<link, inv, ledger>>

Unsafe == scenario.unsafe             \* Transactional, NonIdempotent or Unknown
Cooperative == scenario.cooperative   \* the handler can be cancelled

\* Terminals the broker records itself.  A provider reports ok, error, stopped
\* or, as a failure too, that it is unsure of the effect.
BrokerFailures == {"timedOut", "cancelled", "unavailable"}

Live == op \in {"running", "waiting"}

Terminal(s) == s.phase \in {"completed", "failed"}
Settled(s) == s.phase \in {"completed", "failed", "uncertain"}
Open(r) == inv[r] # None /\ ~Settled(inv[r])

ToolInit ==
  /\ scenario \in Scenarios
  /\ epoch = 1
  /\ op = "running"
  /\ authorized = TRUE
  /\ link = [conn |-> 0, next |-> 1, ack |-> 0]
  /\ inv = [r \in Requests |-> None]
  /\ late = {}
  /\ ledger = {}

\* ToolInvocationSnapshot::new, which decoding goes through as well: a terminal
\* belongs to a terminal phase, a cancellation has its own server sequence.
WellFormed(s) ==
  /\ s.conn > 0 /\ s.seq > 0
  /\ s.cancel # None <=> s.cseq > 0
  /\ s.term # None <=> Terminal(s)

\* load_tool_invocation_in: a row that disagrees with its snapshot or with its
\* journal entry is not read.
Loads(r) == inv[r] # None /\ WellFormed(inv[r])

-----------------------------------------------------------------------------
(* Connecting a provider. *)

\* Server sequences a provider may acknowledge: dispatches that are over or
\* cancelled, and cancellations.
Durable ==
  {inv[r].seq : r \in {q \in Requests : inv[q] # None /\ (Terminal(inv[q]) \/ inv[q].cancel # None)}}
  \cup {inv[r].cseq : r \in {q \in Requests : inv[q] # None /\ inv[q].cancel # None}}

Connectable(after) ==
  /\ after >= link.ack
  /\ after < link.next
  /\ after > link.ack => 1..after \subseteq Durable

\* The row takes the new connection, and so does every invocation that is
\* not terminal.
ConnectToolProvider(after) ==
  /\ link' = [link EXCEPT !.conn = @ + 1, !.ack = after]
  /\ inv' = [r \in Requests |->
               IF inv[r] # None /\ ~Terminal(inv[r])
               THEN [inv[r] EXCEPT !.conn = link.conn + 1] ELSE inv[r]]
  /\ UNCHANGED ledger

\* Invocations to reconsider on a connection, in dispatch order.
ProviderReplay(after) ==
  {r \in Requests : inv[r] # None /\ (~Terminal(inv[r]) \/ inv[r].seq > after)}

-----------------------------------------------------------------------------
(* Reserving an invocation. *)

\* list_recoverable_tool_invocations, in phases reserved, started and uncertain.
Recoverable == {r \in Requests : Loads(r) /\ ~Terminal(inv[r])}

Reservable(r, e) ==
  /\ inv[r] = None
  /\ e = epoch
  /\ link.conn # 0
  /\ Live
  /\ authorized

\* Bound to the durable connection, whichever connection the caller picked.
ReservedBy(e) ==
  [phase |-> "reserved", rev |-> 1, conn |-> link.conn, epoch |-> e,
   seq |-> link.next, cancel |-> None, cseq |-> 0, term |-> None]

ReserveToolInvocation(r, e) ==
  /\ inv' = [inv EXCEPT ![r] = ReservedBy(e)]
  /\ link' = [link EXCEPT !.next = @ + 1]
  /\ UNCHANGED ledger

-----------------------------------------------------------------------------
(* Transitions of an invocation. *)

\* A command names the snapshot it was decided on.  Its request id has the
\* kind of step, the invocation and the connection in it.
Command(by, r, s, conn, e, kind, what) ==
  [id |-> <<by, IF by = "provider" /\ kind # "start" THEN "terminal" ELSE kind, r, conn>>,
   r |-> r, rev |-> s.rev, conn |-> conn, epoch |-> e, kind |-> kind, what |-> what]

Allowed(c, s) ==
  \/ /\ c.kind = "start"
     /\ s.phase = "reserved"
     /\ s.cancel = None
     /\ op = "running"
     /\ authorized
  \/ /\ c.kind = "complete"
     /\ s.phase = "started"
  \/ /\ c.kind = "fail"
     /\ \/ s.phase = "started"
        \/ s.phase = "reserved" /\ c.what \in BrokerFailures \cup {"stopped"}
  \/ /\ c.kind = "uncertain"
     /\ s.phase = "started"
     /\ Unsafe
  \/ /\ c.kind = "cancel"
     /\ Cooperative
     /\ s.phase \in {"reserved", "started"}
     /\ s.cancel = None

\* The same terminal again is recorded and changes nothing.
SameTerminal(c, s) ==
  Terminal(s) /\ c.kind \in {"complete", "fail"} /\ c.what = s.term

\* The owner, the expected revision, the epoch that reserved the effect and
\* the connection that is durable now.
Correlated(c, s) ==
  /\ c.epoch = epoch
  /\ c.rev = s.rev
  /\ c.epoch = s.epoch
  /\ c.conn = s.conn
  /\ c.conn = link.conn

Updated(c, s) ==
  [s EXCEPT
    !.phase = CASE c.kind = "start" -> "started"
                [] c.kind = "complete" -> "completed"
                [] c.kind = "fail" -> "failed"
                [] c.kind = "uncertain" -> "uncertain"
                [] c.kind = "cancel" -> @,
    !.rev = @ + 1,
    !.term = IF c.kind \in {"complete", "fail"} THEN c.what ELSE @,
    !.cancel = IF c.kind = "cancel" THEN c.what ELSE @,
    !.cseq = IF c.kind = "cancel" THEN link.next ELSE @]

Recorded(c) == {entry \in ledger : entry.cmd.id = c.id}

\* validate_tool_transition_replay: what was recorded is what the command does,
\* and a recorded terminal is the invocation's.
ValidReplay(c, recorded, current) ==
  /\ recorded.seq = current.seq
  /\ CASE c.kind = "start" -> recorded.phase = "started" /\ recorded.rev = c.rev + 1
       [] c.kind = "complete" -> recorded.phase = "completed" /\ recorded.rev \in c.rev .. c.rev + 1
       [] c.kind = "fail" -> recorded.phase = "failed" /\ recorded.rev \in c.rev .. c.rev + 1
       [] c.kind = "uncertain" -> recorded.phase = "uncertain" /\ recorded.rev = c.rev + 1
       [] c.kind = "cancel" -> recorded.cancel = c.what /\ recorded.rev = c.rev + 1
  /\ recorded.term = IF c.kind \in {"complete", "fail"} THEN c.what ELSE None
  /\ recorded.term # None =>
       recorded.term = current.term /\ recorded.phase = current.phase

\* What the call returns: a replay answers what was recorded for the same
\* command, None is an error.
Result(c) ==
  LET s == inv[c.r]
      replays == {entry \in Recorded(c) : entry.cmd = c /\ ValidReplay(c, entry.result, s)}
  IN IF ~Loads(c.r) THEN None
     ELSE IF Recorded(c) # {}
     THEN IF replays # {} THEN (CHOOSE entry \in replays : TRUE).result ELSE None
     ELSE IF ~Correlated(c, s) THEN None
     ELSE IF SameTerminal(c, s) THEN s
     ELSE IF Allowed(c, s) THEN Updated(c, s)
     ELSE None

TransitionTool(c) ==
  LET out == Result(c)
      applied == Recorded(c) = {} /\ out # None
  IN /\ inv' = IF applied THEN [inv EXCEPT ![c.r] = out] ELSE inv
     /\ link' = IF applied /\ c.kind = "cancel" THEN [link EXCEPT !.next = @ + 1] ELSE link
     /\ ledger' = IF applied THEN ledger \cup {[cmd |-> c, result |-> out]} ELSE ledger

-----------------------------------------------------------------------------
(* What opening the store demands of these rows (validate_tool_rows and      *)
(* validate_tool_replay_results): one that fails keeps the store shut.       *)

\* Every invocation can be read and went through a connection the provider made.
AuditInvocations ==
  \A r \in Requests : inv[r] # None =>
    Loads(r) /\ \E g \in 1..link.conn : g <= inv[r].conn

\* Dispatches and cancellations have the sequences up to the next one, each its
\* own, and those that were acknowledged needed no more.
AuditProvider ==
  LET dispatched == {r \in Requests : inv[r] # None}
      cancelled == {r \in dispatched : inv[r].cancel # None}
  IN link.conn # 0 =>
       /\ link.ack < link.next
       /\ {inv[r].seq : r \in dispatched} \cup {inv[r].cseq : r \in cancelled} = 1..(link.next - 1)
       /\ Cardinality(dispatched) + Cardinality(cancelled) = link.next - 1
       /\ 1..link.ack \subseteq Durable

\* A committed transition is of an invocation that is no older than it, and one
\* that ended it is its end.
AuditMutations ==
  \A entry \in ledger :
    LET recorded == entry.result
        current == inv[entry.cmd.r]
    IN /\ current # None
       /\ recorded.seq = current.seq /\ recorded.rev <= current.rev
       /\ recorded.term # None =>
            recorded.term = current.term /\ recorded.phase = current.phase

AuditTools == AuditInvocations /\ AuditProvider /\ AuditMutations

-----------------------------------------------------------------------------
(***************************************************************************)
(* Approvals of one operation (ApprovalStore in the SQLite store): the     *)
(* request the driver raised, the grant a trusted consumer may give it,    *)
(* and the effect intents that spend the grant's uses.  `lapsed' says that *)
(* the request's expiry, or once it is granted the grant's, has passed.    *)
(* A request and its grant are one record; `rev' is the grant's revision.  *)
(***************************************************************************)
VARIABLES
  approval,  \* the approval request and its grant
  lapsed,    \* its expiry has passed
  intents    \* effect intent of each tool request

approvals == <<approval, lapsed, intents>>

MaxUses == scenario.uses   \* uses a grant is given

ApprovalInit ==
  /\ approval = [status |-> "none", used |-> 0, rev |-> 0]
  /\ lapsed = FALSE
  /\ intents = [r \in Requests |-> None]

RequestApproval ==
  /\ approval.status = "none"
  /\ Live
  /\ approval' = [approval EXCEPT !.status = "pending"]
  /\ UNCHANGED <<lapsed, intents>>

ApproveRequest ==
  /\ approval.status = "pending"
  /\ ~lapsed
  /\ Live
  /\ approval' = [approval EXCEPT !.status = "granted", !.rev = 1]
  /\ UNCHANGED <<lapsed, intents>>

\* approval_decide_terminal
DecideTerminal(status) ==
  /\ approval.status = "pending"
  /\ status = "expired" <=> lapsed
  /\ status = "denied" => Live
  /\ approval' = [approval EXCEPT !.status = status]
  /\ UNCHANGED <<lapsed, intents>>

Usable == approval.used < MaxUses /\ ~lapsed

RevokeApprovalGrant ==
  /\ approval.status = "granted"
  /\ Usable
  /\ approval' = [approval EXCEPT !.status = "revoked", !.rev = @ + 1]
  /\ UNCHANGED <<lapsed, intents>>

\* Granted, unrevoked, unexpired, with a use left, and unchanged since it
\* was read.
Consumable(r, e, rev) ==
  /\ e = epoch
  /\ approval.status = "granted"
  /\ approval.rev = rev
  /\ Usable
  /\ Live
  /\ intents[r] = None

ConsumeApprovalGrant(r) ==
  /\ approval' = [approval EXCEPT
                    !.used = @ + 1, !.rev = @ + 1,
                    !.status = IF approval.used + 1 = MaxUses THEN "consumed" ELSE @]
  /\ intents' = [intents EXCEPT ![r] = [phase |-> "reserved", by |-> 0]]
  /\ UNCHANGED lapsed

\* The finish of an intent has one request id: the same command again is
\* answered from the record, another phase or epoch is a conflict.
Finishable(r, e, phase) ==
  \/ intents[r].phase = "reserved" /\ e = epoch
  \/ intents[r] = [phase |-> phase, by |-> e]

Finished(r, e, phase) ==
  IF intents[r].phase = "reserved"
  THEN [intents EXCEPT ![r] = [phase |-> phase, by |-> e]] ELSE intents

\* approval_terminal_phase
TerminalPhase(s) ==
  CASE s.phase = "completed" -> "succeeded"
    [] s.phase = "failed" -> IF s.term = "unsure" THEN "uncertain" ELSE "failed"
    [] s.phase = "uncertain" -> "uncertain"

\* Reserved intents whose invocation is settled in `is'.
Unfinished(is) ==
  {r \in Requests : /\ intents[r] # None
                    /\ intents[r].phase = "reserved"
                    /\ is[r] # None
                    /\ Settled(is[r])}

\* reconcile_reserved_approval_effects_in, after what the same step does to
\* the invocations; a settled invocation never changes again.
Reconcile(e) ==
  intents' = [r \in Requests |->
    IF e = epoch /\ r \in Unfinished(inv')
    THEN [phase |-> TerminalPhase(inv'[r]), by |-> e] ELSE intents[r]]

\* What validate_approval_schema demands of the grant and its intents whenever the
\* store is opened: there is a grant once one was given, each use of it has its
\* intent, and an intent is reserved until it is finished.
AuditApproval ==
  /\ approval.rev > 0 <=> approval.status \in {"granted", "consumed", "revoked"}
  /\ approval.used <= MaxUses
  /\ approval.used = Cardinality({r \in Requests : intents[r] # None})
  /\ \A r \in Requests : intents[r] # None =>
       (intents[r].phase = "reserved" <=> intents[r].by = 0)

Reconciles(e, is) == e = epoch \/ Unfinished(is) = {}
=============================================================================
