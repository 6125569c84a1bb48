-------------------------- MODULE ApprovalDecision --------------------------
(***************************************************************************)
(* An approval on its way from a driver's report to the consumer and back: *)
(* the operation's worker commits the request (LocalApprovalSink,          *)
(* request_approval), trusted consumers decide it or revoke its grant      *)
(* through the service, every decision puts a relay message into the       *)
(* requester's mailbox, and the delivery of the relay checks it against    *)
(* the request before the driver is told.  Consumers may repeat a call     *)
(* whose answer was lost; the session may change owners under all of them. *)
(* The lease and the retries of a delivery are Delivery's.                 *)
(***************************************************************************)
EXTENDS Naturals, FiniteSets

CONSTANTS
  Decisions,         \* consumer calls: [request, kind, consumer]
  DecisionTenures,   \* ownership epochs explored, 1..n
  RelayAttempts      \* delivery attempts of a relay

ASSUME DecisionAssumption ==
  \A d \in DOMAIN Decisions : Decisions[d].kind \in {"approve", "deny", "revoke"}

VARIABLES
  raised,    \* the driver's approval report and the worker that handles it
  appeal,    \* the request with its grant
  relays,    \* decision messages in the requester's mailbox
  rulings,   \* approval_mutations
  asks,      \* the consumers' calls
  keeper,    \* [epoch, active]: the host's ownership of the session
  pleader,   \* state of the requester's operation
  accepted,  \* the operation's input is accepted
  overdue,   \* which expiry has passed: none, the grant's, the request's
  crowded,   \* the requester's mailbox is at its quota
  told       \* the decisions the driver was told

decisionVars == <<raised, appeal, relays, rulings, asks, keeper, pleader, accepted,
                  overdue, crowded, told>>

NoAppeal == [st |-> "none", rev |-> 0, grant |-> 0]

DecisionInit ==
  /\ raised = "none" /\ appeal = NoAppeal /\ relays = {} /\ rulings = {} /\ told = {}
  /\ asks = [d \in DOMAIN Decisions |-> [pc |-> "idle"]]
  /\ keeper = [epoch |-> 1, active |-> TRUE]
  /\ pleader \in {"running", "waiting"}
  /\ accepted = (pleader = "waiting")
  /\ overdue = "none" /\ crowded = FALSE

\* ApprovalRequest::validate: a request has a grant once it was granted.
RequestValid ==
  appeal.st \in {"granted", "consumed", "revoked"} <=> appeal.grant > 0

\* approval_authorize
Authorized(e) == keeper = [epoch |-> e, active |-> TRUE]
\* approval_operation_live
OperationLive == pleader \in {"running", "waiting"}

\* approval_replay finds the command that was recorded under the request id.
Ruled(c) == {m \in rulings : m.id = c.id}
SameCommand(c, m) == m.command = c
\* approval_record
Rule(c, view) == rulings' = rulings \cup {[id |-> c.id, command |-> c, view |-> view]}

-----------------------------------------------------------------------------
(* The request.  The driver runs in tenure 1; its event names the request.  *)

RequestCommand == [id |-> "event", action |-> "request", epoch |-> 1, rev |-> 0]

DriverRaises ==
  /\ raised = "none" /\ OperationLive /\ keeper.epoch = 1
  /\ raised' = "reported"
  /\ UNCHANGED <<appeal, relays, rulings, asks, keeper, pleader, accepted, overdue, crowded, told>>

InputAccepted ==
  /\ ~accepted /\ accepted' = TRUE
  /\ UNCHANGED <<raised, appeal, relays, rulings, asks, keeper, pleader, overdue, crowded, told>>

\* next_operation_report keeps the report as pending.
TakeReport ==
  /\ raised = "reported" /\ raised' = "pending"
  /\ UNCHANGED <<appeal, relays, rulings, asks, keeper, pleader, accepted, overdue, crowded, told>>

\* causal_acceptance_state: the input was accepted, or may yet be.
CausalAcceptanceState == IF accepted THEN "accepted" ELSE "pending"

\* accepted_causal_message: waits for the acceptance of the input while the
\* tenure lasts and the delivery budget allows; gives up at any time otherwise.
CausalMessage ==
  /\ raised = "pending"
  /\ \/ CausalAcceptanceState = "accepted" /\ Authorized(1) /\ raised' = "causal"
     \/ (CausalAcceptanceState = "pending" \/ ~Authorized(1)) /\ raised' = "refused"
  /\ UNCHANGED <<appeal, relays, rulings, asks, keeper, pleader, accepted, overdue, crowded, told>>

Requestable ==
  /\ Authorized(1) /\ overdue # "request"
  /\ appeal = NoAppeal
  /\ OperationLive /\ accepted

\* LocalApprovalSink::request; a refusal discards the pending report.
CommitPendingRequest ==
  /\ raised = "causal"
  /\ IF Requestable
     THEN /\ appeal' = [st |-> "pending", rev |-> 1, grant |-> 0]
          /\ Rule(RequestCommand, "pending")
          /\ raised' = "committed"
     ELSE raised' = "refused" /\ UNCHANGED <<appeal, rulings>>
  /\ UNCHANGED <<relays, asks, keeper, pleader, accepted, overdue, crowded, told>>

\* retire_correlated_messages
Retired ==
  {[m EXCEPT !.st = CASE m.st = "queued" -> "dead" [] m.st = "ready" -> "uncertain" [] OTHER -> @]
     : m \in relays}

\* The worker's answer to the report: a waiting operation is left waiting and
\* the report is acknowledged; any other one is about to fail.
WaitingReported ==
  /\ raised = "committed"
  /\ raised' = IF pleader = "waiting" THEN "acknowledged" ELSE "failing"
  /\ UNCHANGED <<appeal, relays, rulings, asks, keeper, pleader, accepted, overdue, crowded, told>>

\* The worker ends the operation it loaded, if that is still the store's state.
WorkerEnds ==
  /\ raised \in {"failing", "refused"}
  /\ IF Authorized(1) /\ OperationLive
     THEN /\ pleader' = IF raised = "failing" THEN "failed" ELSE "uncertain"
          /\ relays' = Retired
     ELSE UNCHANGED <<pleader, relays>>
  /\ raised' = "over"
  /\ UNCHANGED <<appeal, rulings, asks, keeper, accepted, overdue, crowded, told>>

-----------------------------------------------------------------------------
(* The consumers. *)

\* trusted_approval_authority: the session's consumer, over a trusted channel.
TrustedApprovalAuthority(d) == Decisions[d].consumer = "owner"

\* approval_snapshot: request and grant as they are now.
ApprovalSnapshot(d) ==
  /\ asks[d].pc = "idle" /\ appeal # NoAppeal
  /\ TrustedApprovalAuthority(d) /\ RequestValid
  /\ LET revoke == Decisions[d].kind = "revoke"
     IN /\ revoke => appeal.grant > 0
        /\ asks' = [asks EXCEPT ![d] =
             [pc |-> "seen", rev |-> IF revoke THEN appeal.grant ELSE appeal.rev]]
  /\ UNCHANGED <<raised, appeal, relays, rulings, keeper, pleader, accepted, overdue, crowded, told>>

\* active_operation_context: the epoch of the supervisor, under a permit.
ActiveOperationContext(d) ==
  /\ asks[d].pc = "seen" /\ keeper.active
  /\ asks' = [asks EXCEPT ![d] = [pc |-> "admitted", rev |-> @.rev, epoch |-> keeper.epoch]]
  /\ UNCHANGED <<raised, appeal, relays, rulings, keeper, pleader, accepted, overdue, crowded, told>>

\* What a decision's digest covers: the call, its tenure and the revision of
\* the request, or of the grant it revokes.
ApproveCommand(d) ==
  [id |-> Decisions[d].request, action |-> "approve", epoch |-> asks[d].epoch, rev |-> asks[d].rev]
DenyCommand(d) ==
  [id |-> Decisions[d].request, action |-> "deny", epoch |-> asks[d].epoch, rev |-> asks[d].rev]
RevokeCommand(d) ==
  [id |-> Decisions[d].request, action |-> "revoke", epoch |-> asks[d].epoch, rev |-> asks[d].rev]

DecisionCommand(d) ==
  CASE Decisions[d].kind = "approve" -> ApproveCommand(d)
    [] Decisions[d].kind = "deny" -> DenyCommand(d)
    [] Decisions[d].kind = "revoke" -> RevokeCommand(d)

\* ApproveRequest::validate_against; the grant expires before the request.
Approvable(c) ==
  /\ appeal.st = "pending" /\ appeal.rev = c.rev
  /\ overdue = "none"
  /\ OperationLive

\* Mutant of Deniable: what was decided meanwhile is not looked at.
MutDeniable(c) == overdue # "request" /\ OperationLive

\* approval_decide_terminal, for a denial
Deniable(c) ==
  /\ appeal.st = "pending" /\ appeal.rev = c.rev
  /\ overdue # "request"
  /\ OperationLive

\* RevokeApprovalGrant::validate_against
Revocable(c) == appeal.st = "granted" /\ appeal.grant = c.rev /\ overdue = "none"

Decidable(c) ==
  /\ Authorized(c.epoch)
  /\ CASE c.action = "approve" -> Approvable(c)
       [] c.action = "deny" -> Deniable(c)
       [] c.action = "revoke" -> Revocable(c)

\* approval_insert_decision_relay: a full mailbox refuses the whole decision.
\* The message id is derived from the approval and the decision.
InsertDecisionRelay(status) ==
  /\ ~crowded
  /\ \A m \in relays : m.status # status
  /\ relays' = relays \cup {[status |-> status, st |-> "queued", attempts |-> 0]}

\* approval_update_request and approval_update_grant
UpdatedRequest(st) == [appeal EXCEPT !.st = st, !.rev = @ + 1]
UpdatedGrant(a) == [a EXCEPT !.grant = @ + 1]

ApproveRequested(c) ==
  /\ appeal' = UpdatedGrant(UpdatedRequest("granted"))
  /\ InsertDecisionRelay("granted")
  /\ Rule(c, "granted")

DenyRequested(c) ==
  /\ appeal' = UpdatedRequest("denied")
  /\ InsertDecisionRelay("denied")
  /\ Rule(c, "denied")

GrantRevoked(c) ==
  /\ appeal' = UpdatedGrant(UpdatedRequest("revoked"))
  /\ Rule(c, "revoked")
  /\ UNCHANGED relays

Decided(c) ==
  \/ c.action = "approve" /\ ApproveRequested(c)
  \/ c.action = "deny" /\ DenyRequested(c)
  \/ c.action = "revoke" /\ GrantRevoked(c)

Refused(c) == ~Decidable(c) \/ (c.action # "revoke" /\ crowded)

\* The answer arrives, or is lost and the call is made again.
ControllerAnswers(d, pc) ==
  \/ asks' = [asks EXCEPT ![d].pc = pc]
  \/ asks' = [asks EXCEPT ![d] = [pc |-> "seen", rev |-> @.rev]]

Decide(d) ==
  LET c == DecisionCommand(d)
  IN /\ asks[d].pc = "admitted"
     /\ \/ /\ Ruled(c) = {} /\ Decidable(c) /\ Decided(c)
           /\ ControllerAnswers(d, "done")
        \/ /\ IF Ruled(c) = {} THEN Refused(c) ELSE \A m \in Ruled(c) : ~SameCommand(c, m)
           /\ ControllerAnswers(d, "failed")
           /\ UNCHANGED <<appeal, relays, rulings>>
        \/ /\ \E m \in Ruled(c) : SameCommand(c, m)
           /\ ControllerAnswers(d, "done")
           /\ UNCHANGED <<appeal, relays, rulings>>
     /\ UNCHANGED <<raised, keeper, pleader, accepted, overdue, crowded, told>>

-----------------------------------------------------------------------------
(* Telling the driver. *)

\* approval_decision_matches: the request still says what the message says.
DecisionMatches(m) == appeal.st = m.status /\ (m.status = "granted" <=> appeal.grant > 0)

Delivered(m, st, attempts) ==
  relays' = (relays \ {m}) \cup {[m EXCEPT !.st = st, !.attempts = attempts]}

\* approval_decision_payload: what cannot be confirmed is an attempt that failed.
CheckRelay(m) ==
  /\ m.st = "queued" /\ keeper.active
  /\ IF DecisionMatches(m) THEN Delivered(m, "ready", m.attempts)
     ELSE Delivered(m, IF m.attempts + 1 = RelayAttempts THEN "dead" ELSE "queued", m.attempts + 1)
  /\ UNCHANGED <<raised, appeal, rulings, asks, keeper, pleader, accepted, overdue, crowded, told>>

\* The driver accepts the message after it was checked, also when its
\* operation has ended meanwhile.
HandOver(m) ==
  /\ m.st \in {"ready", "uncertain"}
  /\ Delivered(m, IF m.st = "ready" THEN "accepted" ELSE m.st, m.attempts)
  /\ told' = told \cup {m.status}
  /\ UNCHANGED <<raised, appeal, rulings, asks, keeper, pleader, accepted, overdue, crowded>>

\* consume_approval_grant for a tool call of the driver that knows the grant.
UseGrant ==
  /\ "granted" \in told /\ appeal.st = "granted"
  /\ overdue = "none" /\ OperationLive /\ keeper.active
  /\ appeal' = UpdatedGrant(UpdatedRequest("consumed"))
  /\ UNCHANGED <<raised, relays, rulings, asks, keeper, pleader, accepted, overdue, crowded, told>>

-----------------------------------------------------------------------------
(* The session around the request. *)

\* The operation is cancelled or recovered to an end by somebody else.
OperationEnds ==
  /\ OperationLive /\ keeper.active
  /\ pleader' = "ended" /\ relays' = Retired
  /\ UNCHANGED <<raised, appeal, rulings, asks, keeper, accepted, overdue, crowded, told>>

ExpiryPasses ==
  /\ overdue # "request"
  /\ overdue' = IF overdue = "none" THEN "grant" ELSE "request"
  /\ UNCHANGED <<raised, appeal, relays, rulings, asks, keeper, pleader, accepted, crowded, told>>

MailboxFills ==
  /\ crowded' = ~crowded
  /\ UNCHANGED <<raised, appeal, relays, rulings, asks, keeper, pleader, accepted, overdue, told>>

\* What validate_approval_schema demands of the request whenever the store is
\* opened: a grant once it was granted, an accepted cause, and the one relay of
\* its decision if it was decided.
AuditRequest ==
  appeal # NoAppeal =>
    /\ RequestValid
    /\ accepted
    /\ appeal.st \in {"granted", "denied", "consumed", "revoked"} <=> \E m \in relays : relays = {m}
    /\ \A m \in relays : m.status = IF appeal.st = "denied" THEN "denied" ELSE "granted"

\* ... and of the recorded commands: each reports what its action makes of the
\* request, at a revision the request or its grant has reached since.
AuditRulings ==
  \A m \in rulings :
    /\ appeal # NoAppeal
    /\ m.view = CASE m.command.action = "request" -> "pending"
                  [] m.command.action = "approve" -> "granted"
                  [] m.command.action = "deny" -> "denied"
                  [] m.command.action = "revoke" -> "revoked"
    /\ m.command.action = "approve" => appeal.grant > 0
    /\ m.command.rev < IF m.command.action = "revoke" THEN appeal.grant ELSE appeal.rev

\* The next owner's host opens the store first.
KeeperChanges ==
  /\ \/ keeper.active /\ keeper' = [keeper EXCEPT !.active = FALSE]
     \/ /\ ~keeper.active /\ keeper.epoch + 1 \in DecisionTenures
        /\ AuditRequest /\ AuditRulings
        /\ keeper' = [epoch |-> keeper.epoch + 1, active |-> TRUE]
  /\ UNCHANGED <<raised, appeal, relays, rulings, asks, pleader, accepted, overdue, crowded, told>>

DecisionNext ==
  \/ DriverRaises \/ InputAccepted \/ TakeReport \/ CausalMessage
  \/ CommitPendingRequest \/ WaitingReported \/ WorkerEnds
  \/ \E d \in DOMAIN Decisions : ApprovalSnapshot(d) \/ ActiveOperationContext(d) \/ Decide(d)
  \/ \E m \in relays : CheckRelay(m) \/ HandOver(m)
  \/ UseGrant \/ OperationEnds \/ ExpiryPasses \/ MailboxFills \/ KeeperChanges

DecisionSpec == DecisionInit /\ [][DecisionNext]_decisionVars

-----------------------------------------------------------------------------
DecisionOutcome(kind) == IF kind = "deny" THEN {"denied"} ELSE {"granted"}

\* The requester is told what the consumers decided: one decision at most,
\* recorded before, and never another one than a consumer whose call succeeded
\* was promised.  A decision and its relay are recorded together, so a request
\* that is decided has exactly one, and the store can be opened again.
ToldAsDecided ==
  /\ \A s, t \in told : s = t
  /\ \A s \in told : \E m \in rulings : m.view = s
  /\ \A d \in DOMAIN Decisions : asks[d].pc = "done" => told \subseteq DecisionOutcome(Decisions[d].kind)
  /\ AuditRequest /\ AuditRulings

\* "The local vertical proves the authenticated request/decision relay reaches
\* the requester" (plans/11-approvals-observability/EVIDENCE.md): a request that
\* was committed and awaits its decision is not what fails its operation.
RequestIsAwaited == appeal.st = "pending" => pleader # "failed"
=============================================================================
