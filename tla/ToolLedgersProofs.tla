------------------------- MODULE ToolLedgersProofs -------------------------
(***************************************************************************)
(* Theorems about what the Store keeps for the tools of a session: the     *)
(* decisions on requests for approval, and the effect journal; for any     *)
(* calls, tenures, decisions and contract.                                 *)
(***************************************************************************)
EXTENDS ApprovalDecision, EffectJournal, TLAPS

\* A leaf is tried with SMT, with Zenon, and then with SMT and more time.
USE SMT, Zenon, SMTT(10), SMTT(20), SMTT(30)

-----------------------------------------------------------------------------
(***************************************************************************)
(* Approvals.  A request is decided once: from then on it stays denied, or *)
(* stays granted whatever becomes of the grant.  The one relay, the        *)
(* recorded commands, the calls that succeeded and what the driver was     *)
(* told all agree with that decision, because each is written in the step  *)
(* that decides or is checked against the request later.                   *)
(***************************************************************************)
WasGranted == {"granted", "consumed", "revoked"}

Appeals == [st : {"none", "pending", "denied"} \cup WasGranted, rev : Nat, grant : Nat]

RelayRecords ==
  [status : {"granted", "denied"}, st : {"queued", "ready", "dead", "uncertain", "accepted"},
   attempts : Nat]

DecidedAs(st) == IF st = "denied" THEN "denied" ELSE "granted"

Undecided == appeal.st \in {"none", "pending"}

AppealInv ==
  /\ appeal \in Appeals
  /\ appeal.st = "none" => appeal = NoAppeal
  /\ appeal.st \in WasGranted <=> appeal.grant > 0
  /\ appeal.st # "none" => accepted = TRUE

RelayInv ==
  /\ relays \subseteq RelayRecords
  /\ Undecided => relays = {} /\ told = {}
  /\ ~Undecided =>
       /\ \E m \in relays : relays = {m} /\ m.status = DecidedAs(appeal.st)
       /\ told \subseteq {DecidedAs(appeal.st)}
       /\ \E m \in rulings : m.view = DecidedAs(appeal.st)

ViewOf(action) ==
  CASE action = "request" -> "pending"
    [] action = "approve" -> "granted"
    [] action = "deny" -> "denied"
    [] action = "revoke" -> "revoked"

\* A command that was recorded still fits the request.
Fits(c) ==
  /\ c.action \in {"request", "approve", "deny", "revoke"}
  /\ appeal.st # "none"
  /\ c.action = "deny" => appeal.st = "denied"
  /\ c.action \in {"approve", "revoke"} => appeal.st \in WasGranted
  /\ c.rev \in Nat
  /\ IF c.action = "revoke" THEN c.rev < appeal.grant ELSE c.rev < appeal.rev

RulingInv == \A m \in rulings : Fits(m.command) /\ m.view = ViewOf(m.command.action)

CallInv ==
  /\ DOMAIN asks = DOMAIN Decisions
  /\ \A d \in DOMAIN Decisions :
       /\ "pc" \in DOMAIN asks[d]
       /\ asks[d].pc = "done" =>
            IF Decisions[d].kind = "deny" THEN appeal.st = "denied" ELSE appeal.st \in WasGranted

DecInv == AppealInv /\ RelayInv /\ RulingInv /\ CallInv

\* What was decided stays decided.
AppealGrows ==
  /\ appeal' \in Appeals
  /\ appeal.rev <= appeal'.rev /\ appeal.grant <= appeal'.grant
  /\ appeal.st # "none" => appeal'.st # "none"
  /\ appeal.st = "denied" => appeal'.st = "denied"
  /\ appeal.st \in WasGranted => appeal'.st \in WasGranted

LEMMA FitsStays ==
  ASSUME AppealInv, AppealGrows
  PROVE  \A c : Fits(c) => Fits(c)'
  <1>1. /\ appeal.rev \in Nat /\ appeal.grant \in Nat /\ appeal'.rev \in Nat /\ appeal'.grant \in Nat
        /\ appeal.rev <= appeal'.rev /\ appeal.grant <= appeal'.grant
    BY DEF AppealInv, AppealGrows, Appeals
  <1> QED BY <1>1 DEF Fits, AppealGrows

LEMMA RulingStays ==
  ASSUME AppealInv, RulingInv, AppealGrows,
         rulings' = rulings
           \/ \E c, id : /\ rulings' = rulings \cup {[id |-> id, command |-> c, view |-> ViewOf(c.action)]}
                         /\ Fits(c)'
  PROVE  RulingInv'
  <1>1. \A m \in rulings : Fits(m.command)' /\ m.view = ViewOf(m.command.action)
    BY FitsStays DEF RulingInv
  <1>2. CASE rulings' = rulings
    BY <1>1, <1>2 DEF RulingInv
  <1>3. ASSUME NEW c, NEW id, Fits(c)',
               rulings' = rulings \cup {[id |-> id, command |-> c, view |-> ViewOf(c.action)]}
        PROVE  RulingInv'
    <2>1. PICK m : m = [id |-> id, command |-> c, view |-> ViewOf(c.action)]
      BY Zenon
    <2>2. Fits(m.command)' /\ m.view = ViewOf(m.command.action)
      BY <1>3, <2>1
    <2>3. rulings' = rulings \cup {m}
      BY <1>3, <2>1
    <2> QED BY <1>1, <2>2, <2>3 DEF RulingInv
  <1> QED BY <1>2, <1>3

LEMMA CallStays ==
  ASSUME CallInv, AppealGrows, asks' = asks
  PROVE  CallInv'
  BY DEF CallInv, AppealGrows

\* A step that leaves the request alone.
LEMMA RequestRests ==
  ASSUME DecInv, UNCHANGED <<appeal, rulings>>, accepted' = accepted \/ accepted' = TRUE
  PROVE  AppealInv' /\ AppealGrows /\ RulingInv'
  <1>1. AppealInv'
    BY DEF DecInv, AppealInv
  <1>2. AppealGrows
    BY DEF DecInv, AppealInv, AppealGrows, Appeals
  <1>3. RulingInv'
    BY <1>2, RulingStays DEF DecInv
  <1> QED BY <1>1, <1>2, <1>3

LEMMA QuietKeeps ==
  ASSUME DecInv, UNCHANGED <<appeal, relays, rulings, told, asks>>,
         accepted' = accepted \/ accepted' = TRUE
  PROVE  DecInv'
  <1>1. AppealInv' /\ AppealGrows /\ RulingInv'
    BY RequestRests, Zenon
  <1>2. CallInv'
    BY <1>1, CallStays DEF DecInv
  <1>3. RelayInv'
    BY DEF DecInv, RelayInv, Undecided
  <1> QED BY <1>1, <1>2, <1>3 DEF DecInv

LEMMA CallsKeep ==
  ASSUME DecInv, NEW d \in DOMAIN Decisions, ApprovalSnapshot(d) \/ ActiveOperationContext(d)
  PROVE  DecInv'
  <1>1. UNCHANGED <<appeal, relays, rulings, told, accepted>>
    BY DEF ApprovalSnapshot, ActiveOperationContext
  <1>2. AppealInv' /\ AppealGrows /\ RulingInv'
    BY <1>1, RequestRests
  <1>3. RelayInv'
    BY <1>1 DEF DecInv, RelayInv, Undecided
  <1>4. PICK x : asks' = [asks EXCEPT ![d] = x] /\ "pc" \in DOMAIN x /\ x.pc # "done"
    <2>1. CASE ApprovalSnapshot(d)
      <3>1. PICK n : asks' = [asks EXCEPT ![d] = [pc |-> "seen", rev |-> n]]
        BY <2>1, Zenon DEF ApprovalSnapshot
      <3>2. PICK x : x = [pc |-> "seen", rev |-> n]
        BY Zenon
      <3>3. "pc" \in DOMAIN x /\ x.pc # "done"
        BY <3>2
      <3>4. asks' = [asks EXCEPT ![d] = x]
        BY <3>1, <3>2
      <3> QED BY <3>3, <3>4, Zenon
    <2>2. CASE ActiveOperationContext(d)
      <3>1. asks' = [asks EXCEPT ![d] = [pc |-> "admitted", rev |-> asks[d].rev, epoch |-> keeper.epoch]]
        BY <2>2 DEF ActiveOperationContext, DecInv, CallInv
      <3>2. PICK x : x = [pc |-> "admitted", rev |-> asks[d].rev, epoch |-> keeper.epoch]
        BY Zenon
      <3>3. "pc" \in DOMAIN x /\ x.pc # "done"
        BY <3>2, Zenon
      <3>4. asks' = [asks EXCEPT ![d] = x]
        BY <3>1, <3>2
      <3> QED BY <3>3, <3>4, Zenon
    <2> QED BY <2>1, <2>2
  <1>5. CallInv'
    BY <1>1, <1>4 DEF DecInv, CallInv
  <1> QED BY <1>2, <1>3, <1>5 DEF DecInv

\* The relay moves on, and still says what it said.
LEMMA RelayMoves ==
  ASSUME DecInv, UNCHANGED <<appeal, rulings>>, NEW m, NEW n \in RelayRecords,
         relays = {m}, relays' = {n}, n.status = m.status, told' \subseteq told \cup {m.status}
  PROVE  RelayInv'
  BY DEF DecInv, RelayInv, Undecided

LEMMA RetiredKeeps ==
  ASSUME DecInv, UNCHANGED <<appeal, rulings, asks, told, accepted>>, relays' = Retired
  PROVE  DecInv'
  <1>1. AppealInv' /\ AppealGrows /\ RulingInv' /\ CallInv'
    BY RequestRests, CallStays DEF DecInv
  <1>2. RelayInv'
    <2>1. CASE relays = {}
      <3>1. relays' = {}
        BY <2>1 DEF Retired
      <3> QED BY <2>1, <3>1 DEF DecInv, RelayInv, Undecided
    <2>2. ASSUME NEW m \in RelayRecords, relays = {m}
          PROVE  RelayInv'
      <3>1. PICK st : /\ st \in {"queued", "ready", "dead", "uncertain", "accepted"}
                      /\ st = CASE m.st = "queued" -> "dead" [] m.st = "ready" -> "uncertain" [] OTHER -> m.st
        <4>1. m.st \in {"queued", "ready", "dead", "uncertain", "accepted"}
          BY <2>2 DEF RelayRecords
        <4> QED BY <4>1
      <3>2. PICK n : n = [m EXCEPT !.st = st]
        BY Zenon
      <3>3. n \in RelayRecords /\ n.status = m.status
        BY <2>2, <3>1, <3>2 DEF RelayRecords
      <3>4. relays' = {n}
        BY <2>2, <3>1, <3>2 DEF Retired
      <3> QED BY <2>2, <3>3, <3>4, RelayMoves
    <2> QED BY <2>1, <2>2, Zenon DEF DecInv, RelayInv
  <1> QED BY <1>1, <1>2 DEF DecInv

LEMMA RelaysKeep ==
  ASSUME DecInv, NEW m \in relays, CheckRelay(m) \/ HandOver(m)
  PROVE  DecInv'
  <1>1. UNCHANGED <<appeal, rulings, asks, accepted>>
    BY DEF CheckRelay, HandOver
  <1>2. AppealInv' /\ AppealGrows /\ RulingInv' /\ CallInv'
    BY <1>1, RequestRests, CallStays DEF DecInv
  <1>3. m \in RelayRecords /\ relays = {m} /\ m.attempts \in Nat
    BY DEF DecInv, RelayInv, RelayRecords
  <1>4. PICK st \in {"queued", "ready", "dead", "uncertain", "accepted"}, a \in Nat :
          Delivered(m, st, a) /\ told' \subseteq told \cup {m.status}
    <2>1. CASE CheckRelay(m)
      <3>1. UNCHANGED told
        BY <2>1 DEF CheckRelay
      <3>2. CASE DecisionMatches(m)
        BY <1>3, <2>1, <3>1, <3>2 DEF CheckRelay
      <3>3. CASE ~DecisionMatches(m)
        BY <1>3, <2>1, <3>1, <3>3 DEF CheckRelay
      <3> QED BY <3>2, <3>3
    <2>2. CASE HandOver(m)
      BY <1>3, <2>2 DEF HandOver
    <2> QED BY <2>1, <2>2
  <1>5. PICK n : n = [m EXCEPT !.st = st, !.attempts = a]
    OBVIOUS
  <1>6. n \in RelayRecords /\ n.status = m.status
    BY <1>3, <1>4, <1>5, Zenon DEF RelayRecords
  <1>7. relays' = {n}
    BY <1>3, <1>4, <1>5 DEF Delivered
  <1>8. RelayInv'
    BY <1>1, <1>3, <1>4, <1>6, <1>7, RelayMoves
  <1> QED BY <1>2, <1>8 DEF DecInv

LEMMA CommitKeeps ==
  ASSUME DecInv, CommitPendingRequest
  PROVE  DecInv'
  <1>1. UNCHANGED <<relays, asks, accepted, told>>
    BY DEF CommitPendingRequest
  <1>2. CASE Requestable
    <2>1. /\ appeal' = [st |-> "pending", rev |-> 1, grant |-> 0] /\ Rule(RequestCommand, "pending")
          /\ appeal = NoAppeal /\ accepted
      BY <1>2 DEF CommitPendingRequest, Requestable
    <2>2. /\ appeal' \in Appeals /\ appeal'.st = "pending" /\ appeal'.rev = 1 /\ appeal'.grant = 0
      BY <2>1 DEF Appeals, WasGranted
    <2>3. appeal.st = "none" /\ appeal.rev = 0 /\ appeal.grant = 0
      BY <2>1 DEF NoAppeal
    <2>4. AppealGrows
      BY <2>2, <2>3 DEF AppealGrows, WasGranted
    <2>6. AppealInv'
      BY <1>1, <2>1, <2>2 DEF AppealInv, WasGranted
    <2>7. PICK c : c = RequestCommand
      OBVIOUS
    <2>8. Fits(c)' /\ ViewOf(c.action) = "pending"
      BY <2>2, <2>7 DEF Fits, RequestCommand, ViewOf
    <2>9. RulingInv'
      BY <2>1, <2>4, <2>7, <2>8, RulingStays, Zenon DEF DecInv, Rule
    <2>10. RelayInv'
      BY <1>1, <2>2, <2>3 DEF DecInv, RelayInv, Undecided
    <2> QED BY <1>1, <2>4, <2>6, <2>9, <2>10, CallStays DEF DecInv
  <1>3. CASE ~Requestable
    <2>1. UNCHANGED <<appeal, rulings>>
      BY <1>3 DEF CommitPendingRequest
    <2> QED BY <1>1, <2>1, QuietKeeps
  <1> QED BY <1>2, <1>3

LEMMA UpdatedBoth ==
  ASSUME AppealInv, NEW st \in WasGranted, appeal' = UpdatedGrant(UpdatedRequest(st))
  PROVE  /\ appeal' \in Appeals /\ appeal'.st = st
         /\ appeal'.rev = appeal.rev + 1 /\ appeal'.grant = appeal.grant + 1
  <1>1. PICK r \in Nat, g \in Nat : r = appeal.rev + 1 /\ g = appeal.grant + 1
    BY DEF AppealInv, Appeals
  <1>2. PICK a : a = [appeal EXCEPT !.st = st, !.rev = r]
    OBVIOUS
  <1>3. a \in Appeals /\ a.st = st /\ a.rev = r /\ a.grant = appeal.grant
    BY <1>1, <1>2, Zenon DEF AppealInv, Appeals
  <1>4. appeal' = [a EXCEPT !.grant = g]
    BY <1>1, <1>2, <1>3 DEF UpdatedGrant, UpdatedRequest
  <1>5. appeal' \in Appeals /\ appeal'.st = st /\ appeal'.rev = r /\ appeal'.grant = g
    BY <1>1, <1>3, <1>4 DEF Appeals
  <1> QED BY <1>1, <1>5

LEMMA UpdatedDenied ==
  ASSUME AppealInv, appeal' = UpdatedRequest("denied")
  PROVE  /\ appeal' \in Appeals /\ appeal'.st = "denied"
         /\ appeal'.rev = appeal.rev + 1 /\ appeal'.grant = appeal.grant
  <1>1. PICK r \in Nat : r = appeal.rev + 1
    BY DEF AppealInv, Appeals
  <1>2. appeal' = [appeal EXCEPT !.st = "denied", !.rev = r]
    BY <1>1 DEF UpdatedRequest
  <1>3. appeal' \in Appeals /\ appeal'.st = "denied" /\ appeal'.rev = r /\ appeal'.grant = appeal.grant
    BY <1>1, <1>2, Zenon DEF AppealInv, Appeals
  <1> QED BY <1>1, <1>3

\* A grant moves on.
LEMMA GrantMoves ==
  ASSUME DecInv, appeal.st = "granted", NEW st \in WasGranted,
         appeal' = UpdatedGrant(UpdatedRequest(st)), UNCHANGED <<relays, told, accepted>>,
         rulings \subseteq rulings'
  PROVE  AppealInv' /\ AppealGrows /\ RelayInv'
  <1>1. /\ appeal' \in Appeals /\ appeal'.st = st
        /\ appeal'.rev = appeal.rev + 1 /\ appeal'.grant = appeal.grant + 1
    BY UpdatedBoth DEF DecInv
  <1>2. appeal.rev \in Nat /\ appeal.grant \in Nat
    BY DEF DecInv, AppealInv, Appeals
  <1>3. AppealInv'
    BY <1>1, <1>2 DEF DecInv, AppealInv, WasGranted
  <1>4. AppealGrows
    BY <1>1, <1>2 DEF AppealGrows, WasGranted
  <1>5. RelayInv'
    BY <1>1 DEF DecInv, RelayInv, Undecided, DecidedAs, WasGranted
  <1> QED BY <1>3, <1>4, <1>5

LEMMA UseGrantKeeps ==
  ASSUME DecInv, UseGrant
  PROVE  DecInv'
  <1>1. /\ appeal.st = "granted" /\ appeal' = UpdatedGrant(UpdatedRequest("consumed"))
        /\ UNCHANGED <<relays, rulings, asks, accepted, told>>
    BY DEF UseGrant
  <1>2. AppealInv' /\ AppealGrows /\ RelayInv'
    BY <1>1, GrantMoves DEF WasGranted
  <1> QED BY <1>1, <1>2, RulingStays, CallStays DEF DecInv

LEMMA AnswersKeep ==
  ASSUME CallInv, AppealGrows, NEW d \in DOMAIN Decisions, NEW pc, ControllerAnswers(d, pc),
         pc = "done" =>
           IF Decisions[d].kind = "deny" THEN appeal'.st = "denied" ELSE appeal'.st \in WasGranted
  PROVE  CallInv'
  <1>1. DOMAIN asks = DOMAIN Decisions /\ "pc" \in DOMAIN asks[d]
    BY DEF CallInv
  <1>2. PICK x : /\ asks' = [asks EXCEPT ![d] = x] /\ "pc" \in DOMAIN x
                 /\ x.pc = "done" => pc = "done"
    <2>1. CASE asks' = [asks EXCEPT ![d].pc = pc]
      <3>1. PICK x : x = [asks[d] EXCEPT !.pc = pc]
        BY Zenon
      <3>2. "pc" \in DOMAIN x /\ x.pc = pc
        BY <1>1, <3>1
      <3>3. asks' = [asks EXCEPT ![d] = x]
        BY <2>1, <3>1
      <3> QED BY <3>2, <3>3, Zenon
    <2>2. CASE asks' = [asks EXCEPT ![d] = [pc |-> "seen", rev |-> @.rev]]
      <3>1. PICK x : x = [pc |-> "seen", rev |-> asks[d].rev]
        BY Zenon
      <3>2. "pc" \in DOMAIN x /\ x.pc = "seen"
        BY <3>1
      <3>3. asks' = [asks EXCEPT ![d] = x]
        BY <1>1, <2>2, <3>1
      <3> QED BY <3>2, <3>3, Zenon
    <2> QED BY <2>1, <2>2 DEF ControllerAnswers
  <1>3. \A e \in DOMAIN Decisions : e # d => asks'[e] = asks[e]
    BY <1>1, <1>2
  <1>4. asks'[d] = x /\ DOMAIN asks' = DOMAIN Decisions
    BY <1>1, <1>2
  <1> QED BY <1>2, <1>3, <1>4 DEF CallInv, AppealGrows

\* What makes a command one that decides.
LEMMA CommandOf ==
  ASSUME NEW d \in DOMAIN Decisions
  PROVE  /\ DecisionCommand(d).action = Decisions[d].kind
         /\ Decisions[d].kind \in {"approve", "deny", "revoke"}
  BY DecisionAssumption DEF DecisionCommand, ApproveCommand, DenyCommand, RevokeCommand

\* The relay of a decision is the first.
LEMMA FirstRelay ==
  ASSUME DecInv, Undecided, NEW status \in {"granted", "denied"}, InsertDecisionRelay(status),
         appeal'.st = status, UNCHANGED told, \E m \in rulings' : m.view = status
  PROVE  RelayInv'
  <1>1. relays = {} /\ told = {}
    BY DEF DecInv, RelayInv
  <1>2. PICK m : m = [status |-> status, st |-> "queued", attempts |-> 0]
    BY Zenon
  <1>3. m \in RelayRecords /\ m.status = status
    BY <1>2 DEF RelayRecords
  <1>4. relays' = {m}
    BY <1>1, <1>2 DEF InsertDecisionRelay
  <1>5. DecidedAs(status) = status /\ ~Undecided'
    BY DEF DecidedAs, Undecided
  <1> QED BY <1>1, <1>3, <1>4, <1>5 DEF RelayInv

LEMMA RuleAdds ==
  ASSUME NEW c, NEW view, Rule(c, view)
  PROVE  /\ rulings \subseteq rulings' /\ \E m \in rulings' : m.view = view
         /\ \E id : rulings' = rulings \cup {[id |-> id, command |-> c, view |-> view]}
  <1>1. PICK m : m = [id |-> c.id, command |-> c, view |-> view]
    BY Zenon
  <1>2. m.view = view /\ rulings' = rulings \cup {m}
    BY <1>1 DEF Rule
  <1> QED BY <1>1, <1>2

LEMMA ApproveKeeps ==
  ASSUME DecInv, NEW c, c.action = "approve", Approvable(c), ApproveRequested(c),
         UNCHANGED <<accepted, told>>
  PROVE  AppealInv' /\ AppealGrows /\ RelayInv' /\ RulingInv' /\ appeal'.st = "granted"
  <1>1. /\ appeal.st = "pending" /\ appeal.rev = c.rev /\ Rule(c, "granted")
        /\ InsertDecisionRelay("granted") /\ appeal' = UpdatedGrant(UpdatedRequest("granted"))
    BY DEF Approvable, ApproveRequested
  <1>2. /\ appeal' \in Appeals /\ appeal'.st = "granted"
        /\ appeal'.rev = appeal.rev + 1 /\ appeal'.grant = appeal.grant + 1
    BY <1>1, UpdatedBoth DEF DecInv, WasGranted
  <1>3. appeal.rev \in Nat /\ appeal.grant \in Nat
    BY DEF DecInv, AppealInv, Appeals
  <1>4. AppealInv'
    BY <1>1, <1>2, <1>3 DEF DecInv, AppealInv, WasGranted
  <1>5. AppealGrows
    BY <1>1, <1>2, <1>3 DEF AppealGrows, WasGranted
  <1>6. RelayInv'
    <2>1. Undecided
      BY <1>1 DEF Undecided
    <2> QED BY <1>1, <1>2, <2>1, FirstRelay, RuleAdds
  <1>7. Fits(c)' /\ ViewOf(c.action) = "granted"
    BY <1>1, <1>2, <1>3 DEF Fits, WasGranted, ViewOf
  <1>8. RulingInv'
    <2>1. rulings' = rulings \cup {[id |-> c.id, command |-> c, view |-> ViewOf(c.action)]}
      BY <1>1, <1>7 DEF Rule
    <2> QED BY <1>5, <1>7, <2>1, RulingStays, Zenon DEF DecInv
  <1> QED BY <1>2, <1>4, <1>5, <1>6, <1>8

LEMMA DenyKeeps ==
  ASSUME DecInv, NEW c, c.action = "deny", Deniable(c), DenyRequested(c),
         UNCHANGED <<accepted, told>>
  PROVE  AppealInv' /\ AppealGrows /\ RelayInv' /\ RulingInv' /\ appeal'.st = "denied"
  <1>1. /\ appeal.st = "pending" /\ appeal.rev = c.rev /\ Rule(c, "denied")
        /\ InsertDecisionRelay("denied") /\ appeal' = UpdatedRequest("denied")
    BY DEF Deniable, DenyRequested
  <1>2. /\ appeal' \in Appeals /\ appeal'.st = "denied"
        /\ appeal'.rev = appeal.rev + 1 /\ appeal'.grant = appeal.grant
    BY <1>1, UpdatedDenied DEF DecInv
  <1>3. appeal.rev \in Nat /\ appeal.grant \in Nat
    BY DEF DecInv, AppealInv, Appeals
  <1>4. AppealInv'
    BY <1>1, <1>2, <1>3 DEF DecInv, AppealInv, WasGranted
  <1>5. AppealGrows
    BY <1>1, <1>2, <1>3 DEF AppealGrows, WasGranted
  <1>6. RelayInv'
    <2>1. Undecided
      BY <1>1 DEF Undecided
    <2> QED BY <1>1, <1>2, <2>1, FirstRelay, RuleAdds, Zenon
  <1>7. Fits(c)' /\ ViewOf(c.action) = "denied"
    BY <1>1, <1>2, <1>3 DEF Fits, WasGranted, ViewOf
  <1>8. RulingInv'
    <2>1. rulings' = rulings \cup {[id |-> c.id, command |-> c, view |-> ViewOf(c.action)]}
      BY <1>1, <1>7 DEF Rule
    <2> QED BY <1>5, <1>7, <2>1, RulingStays, Zenon DEF DecInv
  <1> QED BY <1>2, <1>4, <1>5, <1>6, <1>8

LEMMA RevokeKeeps ==
  ASSUME DecInv, NEW c, c.action = "revoke", Revocable(c), GrantRevoked(c),
         UNCHANGED <<accepted, told>>
  PROVE  AppealInv' /\ AppealGrows /\ RelayInv' /\ RulingInv' /\ appeal'.st = "revoked"
  <1>1. /\ appeal.st = "granted" /\ appeal.grant = c.rev /\ Rule(c, "revoked")
        /\ appeal' = UpdatedGrant(UpdatedRequest("revoked")) /\ UNCHANGED relays
    BY DEF Revocable, GrantRevoked
  <1>2. /\ appeal' \in Appeals /\ appeal'.st = "revoked"
        /\ appeal'.rev = appeal.rev + 1 /\ appeal'.grant = appeal.grant + 1
    BY <1>1, UpdatedBoth DEF DecInv, WasGranted
  <1>3. appeal.rev \in Nat /\ appeal.grant \in Nat
    BY DEF DecInv, AppealInv, Appeals
  <1>4. rulings \subseteq rulings'
    BY <1>1, RuleAdds
  <1>5. AppealInv' /\ AppealGrows /\ RelayInv'
    BY <1>1, <1>4, GrantMoves DEF WasGranted
  <1>6. Fits(c)' /\ ViewOf(c.action) = "revoked"
    BY <1>1, <1>2, <1>3 DEF Fits, WasGranted, ViewOf
  <1>7. RulingInv'
    <2>1. rulings' = rulings \cup {[id |-> c.id, command |-> c, view |-> ViewOf(c.action)]}
      BY <1>1, <1>6 DEF Rule
    <2> QED BY <1>5, <1>6, <2>1, RulingStays, Zenon DEF DecInv
  <1> QED BY <1>2, <1>5, <1>7

LEMMA DecideKeeps ==
  ASSUME DecInv, NEW d \in DOMAIN Decisions, Decide(d)
  PROVE  DecInv'
  <1>1. UNCHANGED <<accepted, told>>
    BY Zenon DEF Decide
  <1>2. PICK c : c = DecisionCommand(d)
    OBVIOUS
  <1>3. c.action = Decisions[d].kind /\ Decisions[d].kind \in {"approve", "deny", "revoke"}
    BY <1>2, CommandOf
  <1>4. CASE Decidable(c) /\ Decided(c) /\ ControllerAnswers(d, "done")
    <2>1. /\ AppealInv' /\ AppealGrows /\ RelayInv' /\ RulingInv'
          /\ IF Decisions[d].kind = "deny" THEN appeal'.st = "denied" ELSE appeal'.st \in WasGranted
      <3>1. CASE c.action = "approve"
        <4>1. Approvable(c) /\ ApproveRequested(c)
          BY <1>4, <3>1 DEF Decidable, Decided
        <4> QED BY <1>1, <1>3, <3>1, <4>1, ApproveKeeps DEF WasGranted
      <3>2. CASE c.action = "deny"
        <4>1. Deniable(c) /\ DenyRequested(c)
          BY <1>4, <3>2 DEF Decidable, Decided
        <4> QED BY <1>1, <1>3, <3>2, <4>1, DenyKeeps
      <3>3. CASE c.action = "revoke"
        <4>1. Revocable(c) /\ GrantRevoked(c)
          BY <1>4, <3>3 DEF Decidable, Decided
        <4> QED BY <1>1, <1>3, <3>3, <4>1, RevokeKeeps DEF WasGranted
      <3> QED BY <1>3, <3>1, <3>2, <3>3
    <2>2. CallInv'
      BY <1>4, <2>1, AnswersKeep DEF DecInv
    <2> QED BY <2>1, <2>2 DEF DecInv
  <1>5. CASE UNCHANGED <<appeal, relays, rulings>>
    <2>1. AppealInv' /\ AppealGrows /\ RulingInv'
      BY <1>1, <1>5, RequestRests
    <2>2. RelayInv'
      BY <1>1, <1>5 DEF DecInv, RelayInv, Undecided
    <2>3. CASE ControllerAnswers(d, "failed")
      BY <2>1, <2>2, <2>3, AnswersKeep, Zenon DEF DecInv
    <2>4. CASE (\E m \in Ruled(c) : SameCommand(c, m)) /\ ControllerAnswers(d, "done")
      <3>1. Fits(c)
        BY <2>4 DEF Ruled, SameCommand, DecInv, RulingInv
      <3>2. IF Decisions[d].kind = "deny" THEN appeal'.st = "denied" ELSE appeal'.st \in WasGranted
        BY <1>3, <1>5, <3>1, Zenon DEF Fits
      <3> QED BY <2>1, <2>2, <2>4, <3>2, AnswersKeep DEF DecInv
    <2>5. ControllerAnswers(d, "failed") \/
            ((\E m \in Ruled(c) : SameCommand(c, m)) /\ ControllerAnswers(d, "done"))
          \/ (Decidable(c) /\ Decided(c) /\ ControllerAnswers(d, "done"))
      BY <1>2, Zenon DEF Decide
    <2> QED BY <1>4, <2>3, <2>4, <2>5
  <1> QED BY <1>2, <1>4, <1>5, Zenon DEF Decide

LEMMA DecisionStep ==
  ASSUME DecInv, [DecisionNext]_decisionVars
  PROVE  DecInv'
  <1>1. CASE DriverRaises \/ InputAccepted \/ TakeReport \/ CausalMessage \/ WaitingReported
    BY <1>1, QuietKeeps, Zenon DEF DriverRaises, InputAccepted, TakeReport, CausalMessage, WaitingReported
  <1>2. CASE ExpiryPasses \/ MailboxFills \/ KeeperChanges
    BY <1>2, QuietKeeps, Zenon DEF ExpiryPasses, MailboxFills, KeeperChanges
  <1>3. CASE CommitPendingRequest
    BY <1>3, CommitKeeps
  <1>4. CASE WorkerEnds
    <2>1. CASE relays' = Retired
      BY <1>4, <2>1, RetiredKeeps DEF WorkerEnds
    <2>2. CASE UNCHANGED relays
      BY <1>4, <2>2, QuietKeeps DEF WorkerEnds
    <2> QED BY <1>4, <2>1, <2>2 DEF WorkerEnds
  <1>5. CASE OperationEnds
    BY <1>5, RetiredKeeps DEF OperationEnds
  <1>6. ASSUME NEW d \in DOMAIN Decisions, ApprovalSnapshot(d) \/ ActiveOperationContext(d) \/ Decide(d)
        PROVE  DecInv'
    BY <1>6, CallsKeep, DecideKeeps
  <1>7. ASSUME NEW m \in relays, CheckRelay(m) \/ HandOver(m) PROVE DecInv'
    BY <1>7, RelaysKeep
  <1>8. CASE UseGrant
    BY <1>8, UseGrantKeeps
  <1>9. CASE UNCHANGED decisionVars
    BY <1>9, QuietKeeps DEF decisionVars
  <1> QED BY <1>1, <1>2, <1>3, <1>4, <1>5, <1>6, <1>7, <1>8, <1>9 DEF DecisionNext

LEMMA DecisionStart == DecisionInit => DecInv
  <1> SUFFICES ASSUME DecisionInit PROVE DecInv
    OBVIOUS
  <1>1. /\ appeal = NoAppeal /\ relays = {} /\ rulings = {} /\ told = {}
        /\ asks = [d \in DOMAIN Decisions |-> [pc |-> "idle"]]
    BY DEF DecisionInit
  <1>2. appeal \in Appeals /\ appeal.st = "none" /\ appeal.grant = 0
    BY <1>1 DEF NoAppeal, Appeals
  <1>3. AppealInv
    BY <1>1, <1>2 DEF AppealInv, WasGranted
  <1>4. RelayInv /\ RulingInv
    BY <1>1, <1>2, Zenon DEF RelayInv, Undecided, RulingInv
  <1>5. CallInv
    BY <1>1, Zenon DEF CallInv
  <1> QED BY <1>3, <1>4, <1>5 DEF DecInv

LEMMA DecisionKept == DecInv => ToldAsDecided
  <1>1. ASSUME DecInv PROVE ToldAsDecided
    <2>1. \A s, t \in told : s = t
      BY <1>1 DEF DecInv, RelayInv
    <2>2. \A s \in told : \E m \in rulings : m.view = s
      BY <1>1 DEF DecInv, RelayInv
    <2>3. \A d \in DOMAIN Decisions :
            asks[d].pc = "done" => told \subseteq DecisionOutcome(Decisions[d].kind)
      BY <1>1 DEF DecInv, CallInv, RelayInv, DecisionOutcome, DecidedAs, WasGranted
    <2>4. AuditRequest
      <3>1. RequestValid
        BY <1>1 DEF DecInv, AppealInv, WasGranted, RequestValid
      <3>2. appeal # NoAppeal => accepted
        BY <1>1 DEF DecInv, AppealInv
      <3>3. appeal.st \in {"granted", "denied", "consumed", "revoked"} <=> ~Undecided
        BY <1>1 DEF DecInv, AppealInv, Appeals, WasGranted, Undecided
      <3>4. Undecided => relays = {}
        BY <1>1 DEF DecInv, RelayInv
      <3>5. ~Undecided => \E m \in relays : relays = {m}
        BY <1>1 DEF DecInv, RelayInv
      <3>6. \A m \in relays : m.status = IF appeal.st = "denied" THEN "denied" ELSE "granted"
        BY <1>1 DEF DecInv, RelayInv, DecidedAs
      <3> QED BY <3>1, <3>2, <3>3, <3>4, <3>5, <3>6 DEF AuditRequest
    <2>5. AuditRulings
      <3>1. ASSUME NEW m \in rulings
            PROVE  /\ Fits(m.command) /\ m.view = ViewOf(m.command.action)
                   /\ appeal.st \in WasGranted => appeal.grant > 0
        BY <1>1 DEF DecInv, RulingInv, AppealInv
      <3>2. \A m \in rulings : appeal # NoAppeal
        BY <3>1 DEF Fits, NoAppeal
      <3> QED BY <3>1, <3>2 DEF AuditRulings, Fits, ViewOf
    <2> QED BY <2>1, <2>2, <2>3, <2>4, <2>5, Zenon DEF ToldAsDecided
  <1> QED BY <1>1

\* However many consumers decide, repeat and revoke, and whoever owns the
\* session: the requester is told one decision at most, one that was recorded
\* and that no consumer whose call succeeded was promised otherwise, and the
\* request, its relay and the recorded commands agree whenever the store is
\* opened (decide_approval, approval_decision_payload,
\* validate_approval_schema).
THEOREM ToldIsDecided == DecisionSpec => []ToldAsDecided
  <1>1. DecisionInit => DecInv
    BY DecisionStart
  <1>2. DecInv /\ [DecisionNext]_decisionVars => DecInv'
    BY DecisionStep
  <1> QED BY <1>1, <1>2, DecisionKept, PTL DEF DecisionSpec

-----------------------------------------------------------------------------
(***************************************************************************)
(* The effect journal.  A performer pursues the effect when it was told    *)
(* that it may act, or when its start is recorded and only the answer was  *)
(* lost.  While the journal says that the effect may be started nobody     *)
(* pursues it; from then on at most one performer does, and the effect has *)
(* not happened.  What makes this inductive is that a performer never goes *)
(* back to an older entry than the one it started from, and that a         *)
(* consumer's resolution finds the effect as it was when it was asked for. *)
(***************************************************************************)

Entries ==
  [phase : {"reserved", "retry", "started", "uncertain", "completed", "failed"},
   class : {"idempotent", "non_idempotent"}, by : Nat, live : BOOLEAN, rev : Nat]

Performers ==
  [pc : {"idle", "known", "started", "acted", "unable", "over"}, entry : {NoEffect} \cup Entries]

Startable == fx # NoEffect /\ fx.phase \in {"reserved", "retry"}

StartLogged(p, n) == Logged(<<"start", p, n>>) # {}

Pursues(p) ==
  \/ performer[p].pc = "started"
  \/ /\ performer[p].pc = "known"
     /\ performer[p].entry.phase \in {"reserved", "retry"}
     /\ StartLogged(p, performer[p].entry.rev)

EntryInv ==
  /\ fx \in {NoEffect} \cup Entries
  /\ performer \in [Tenures -> Performers]
  /\ happened \in {0, 1} /\ tenure.epoch \in Nat
  /\ \A p \in Tenures :
       /\ performer[p].pc = "idle" => performer[p].entry = NoEffect
       /\ performer[p].pc \notin {"idle", "over"} => performer[p].entry # NoEffect
       /\ performer[p].pc # "idle" /\ performer[p].entry # NoEffect => ContractValid
       /\ performer[p].entry # NoEffect => fx # NoEffect /\ performer[p].entry.rev <= fx.rev

LogInv ==
  \A m \in fxlog :
    /\ m.result \in Entries /\ fx # NoEffect /\ m.result.rev <= fx.rev
    /\ \A p \in Tenures, n \in Nat, what \in {"start", "takeover", "completed", "failed", "uncertain"} :
         m.id = <<what, p, n>> =>
           /\ m.result.rev = n + 1
           /\ what = "start" => performer[p].entry # NoEffect /\ n <= performer[p].entry.rev

PursuitInv ==
  /\ fx = NoEffect => happened = 0
  /\ fx = NoEffect \/ Startable => happened = 0 /\ \A p \in Tenures : ~Pursues(p)
  /\ \A p, q \in Tenures : Pursues(p) /\ Pursues(q) => p = q
  /\ \A p \in Tenures : Pursues(p) => happened = 0
  /\ \A p \in Tenures : performer[p].pc = "acted" => happened = 1
  /\ fx # NoEffect /\ fx.phase = "completed" => happened = 1

ResolutionId(r) == <<Resolutions[r].request, 0, 0>>

AskInv ==
  /\ DOMAIN resolver = DOMAIN Resolutions
  /\ \A r, q \in DOMAIN Resolutions : resolver[r].pc = "asked" /\ resolver[q].pc = "asked" => r = q
  /\ \A r \in DOMAIN Resolutions :
       resolver[r].pc = "asked" =>
         /\ Resolutions[r].want \in {"confirm", "deny", "retry"}
         /\ Logged(ResolutionId(r)) = {} =>
              /\ fx # NoEffect /\ fx.phase = "uncertain"
              /\ Resolutions[r].want = "confirm" => happened = 1
              /\ Resolutions[r].want = "retry" => happened = 0 /\ \A p \in Tenures : ~Pursues(p)

JInv == EntryInv /\ LogInv /\ PursuitInv /\ AskInv

Whats == {"start", "takeover", "completed", "failed", "uncertain"}

\* The entry moves on, and is never taken back.
FxGrows ==
  /\ fx' \in {NoEffect} \cup Entries
  /\ fx # NoEffect => fx' # NoEffect /\ fx.rev <= fx'.rev

\* What a performer's new state r must agree with.
Follows(p, r) ==
  /\ r \in Performers
  /\ r.pc = "idle" => r.entry = NoEffect
  /\ r.pc \notin {"idle", "over"} => r.entry # NoEffect
  /\ r.pc # "idle" /\ r.entry # NoEffect => ContractValid
  /\ r.entry # NoEffect => fx' # NoEffect /\ r.entry.rev <= fx'.rev
  /\ performer[p].entry # NoEffect => r.entry # NoEffect /\ performer[p].entry.rev <= r.entry.rev

LEMMA StaysPut ==
  ASSUME EntryInv, FxGrows, NEW p \in Tenures
  PROVE  Follows(p, performer[p])
  <1>1. performer[p] \in Performers /\ (performer[p].entry # NoEffect => performer[p].entry.rev \in Nat)
    BY DEF EntryInv, Performers, Entries, NoEffect
  <1>2. fx # NoEffect => fx.rev \in Nat /\ fx'.rev \in Nat
    BY DEF EntryInv, FxGrows, Entries
  <1> QED BY <1>1, <1>2 DEF Follows, EntryInv, FxGrows

LEMMA EntryKeeps ==
  ASSUME EntryInv, FxGrows, NEW p \in Tenures, NEW r, Follows(p, r),
         performer' = [performer EXCEPT ![p] = r], happened' \in {0, 1}, tenure'.epoch \in Nat
  PROVE  EntryInv' /\ \A q \in Tenures : Follows(q, performer'[q])
  <1>1. \A q \in Tenures : Follows(q, performer'[q])
    BY StaysPut DEF EntryInv
  <1>2. performer' \in [Tenures -> Performers]
    BY DEF EntryInv, Follows
  <1>3. EntryInv'
    BY <1>1, <1>2 DEF EntryInv, Follows, FxGrows, ContractValid
  <1> QED BY <1>1, <1>3

LEMMA EntryRests ==
  ASSUME EntryInv, FxGrows, performer' = performer, happened' \in {0, 1}, tenure'.epoch \in Nat
  PROVE  EntryInv' /\ \A q \in Tenures : Follows(q, performer'[q])
  <1>1. \A q \in Tenures : Follows(q, performer'[q])
    BY StaysPut
  <1>2. EntryInv'
    BY <1>1 DEF EntryInv, Follows, FxGrows, ContractValid
  <1> QED BY <1>1, <1>2

\* The records a step may add: a performer's command at its entry, or a
\* resolution.
Logs(p, m) ==
  /\ fxlog' = fxlog \cup {m}
  /\ m.result = fx' /\ fx' \in Entries
  /\ \/ \E r \in DOMAIN Resolutions : m.id = ResolutionId(r)
     \/ \E what \in Whats :
          /\ m.id = <<what, p, performer[p].entry.rev>>
          /\ performer[p].entry # NoEffect /\ fx'.rev = performer[p].entry.rev + 1

LEMMA LogKeeps ==
  ASSUME LogInv, FxGrows, EntryInv, NEW p \in Tenures,
         \A q \in Tenures : Follows(q, performer'[q]),
         fxlog' = fxlog \/ \E m : Logs(p, m)
  PROVE  LogInv'
  <1>1. ASSUME NEW m \in fxlog
        PROVE  /\ m.result \in Entries /\ fx' # NoEffect /\ m.result.rev <= fx'.rev
               /\ \A q \in Tenures, n \in Nat, what \in Whats :
                    m.id = <<what, q, n>> =>
                      /\ m.result.rev = n + 1
                      /\ what = "start" => performer'[q].entry # NoEffect /\ n <= performer'[q].entry.rev
    <2>1. /\ m.result \in Entries /\ fx # NoEffect /\ m.result.rev <= fx.rev
          /\ \A q \in Tenures, n \in Nat, what \in Whats :
                    m.id = <<what, q, n>> =>
                      /\ m.result.rev = n + 1
                      /\ what = "start" => performer[q].entry # NoEffect /\ n <= performer[q].entry.rev
      BY DEF LogInv, Whats
    <2>2. m.result.rev \in Nat /\ fx.rev \in Nat /\ fx'.rev \in Nat
      BY <2>1 DEF FxGrows, EntryInv, Entries
    <2>3. fx' # NoEffect /\ m.result.rev <= fx'.rev
      BY <2>1, <2>2 DEF FxGrows
    <2>4. ASSUME NEW q \in Tenures, NEW n \in Nat, m.id = <<"start", q, n>>
          PROVE  performer'[q].entry # NoEffect /\ n <= performer'[q].entry.rev
      <3>1. performer[q].entry # NoEffect /\ n <= performer[q].entry.rev
        BY <2>1, <2>4 DEF Whats
      <3>2. performer'[q].entry # NoEffect /\ performer[q].entry.rev <= performer'[q].entry.rev
        BY <3>1 DEF Follows
      <3>3. performer[q].entry.rev \in Nat /\ performer'[q].entry.rev \in Nat
        BY <3>1, <3>2 DEF Follows, Performers, Entries, EntryInv
      <3> QED BY <3>1, <3>2, <3>3
    <2> QED BY <2>1, <2>3, <2>4
  <1>2. ASSUME NEW m, Logs(p, m)
        PROVE  /\ m.result \in Entries /\ fx' # NoEffect /\ m.result.rev <= fx'.rev
               /\ \A q \in Tenures, n \in Nat, what \in Whats :
                    m.id = <<what, q, n>> =>
                      /\ m.result.rev = n + 1
                      /\ what = "start" => performer'[q].entry # NoEffect /\ n <= performer'[q].entry.rev
    <2>1. m.result = fx' /\ fx' \in Entries /\ fx'.rev \in Nat
      BY <1>2 DEF Logs, Entries
    <2>2. fx' # NoEffect
      BY <2>1 DEF Entries, NoEffect
    <2>3. ASSUME NEW q \in Tenures, NEW n \in Nat, NEW what \in Whats, m.id = <<what, q, n>>
          PROVE  /\ m.result.rev = n + 1
                 /\ what = "start" => performer'[q].entry # NoEffect /\ n <= performer'[q].entry.rev
      <3>1. q # 0
        BY EffectAssumption
      <3>2. ~ \E r \in DOMAIN Resolutions : m.id = ResolutionId(r)
        BY <2>3, <3>1 DEF ResolutionId
      <3>3. /\ q = p /\ n = performer[p].entry.rev /\ performer[p].entry # NoEffect
            /\ fx'.rev = performer[p].entry.rev + 1
        BY <1>2, <2>3, <3>2 DEF Logs
      <3> QED BY <2>1, <3>3 DEF Follows
    <2> QED BY <2>1, <2>2, <2>3
  <1>3. \A m \in fxlog' : m \in fxlog \/ Logs(p, m)
    BY DEF Logs
  <1> QED BY <1>1, <1>2, <1>3 DEF LogInv, Whats

LEMMA OthersPursue ==
  ASSUME NEW p \in Tenures, NEW q \in Tenures, q # p, performer'[q] = performer[q],
         fxlog' = fxlog \/ \E m : Logs(p, m)
  PROVE  Pursues(q)' <=> Pursues(q)
  <1>1. \A n : Logged(<<"start", q, n>>)' = Logged(<<"start", q, n>>)
    <2>1. q # 0
      BY EffectAssumption
    <2> QED BY <2>1 DEF Logged, Logs, ResolutionId
  <1> QED BY <1>1 DEF Pursues, StartLogged

LEMMA PursuitCalm ==
  ASSUME PursuitInv, \A q \in Tenures : Pursues(q)' => Pursues(q), happened' = happened,
         (fx = NoEffect \/ Startable)' => fx = NoEffect \/ Startable,
         fx' = NoEffect => fx = NoEffect,
         \A q \in Tenures : performer'[q].pc = "acted" => happened = 1,
         fx' # NoEffect /\ fx'.phase = "completed" => happened = 1
  PROVE  PursuitInv'
  BY DEF PursuitInv

LEMMA AskCalm ==
  ASSUME AskInv, resolver' = resolver, fxlog \subseteq fxlog', happened' = happened,
         \A q \in Tenures : Pursues(q)' => Pursues(q),
         fx # NoEffect /\ fx.phase = "uncertain" => fx' # NoEffect /\ fx'.phase = "uncertain"
  PROVE  AskInv'
  <1>1. \A r \in DOMAIN Resolutions : Logged(ResolutionId(r))' = {} => Logged(ResolutionId(r)) = {}
    BY DEF Logged, ResolutionId
  <1> QED BY <1>1 DEF AskInv

\* A step of a performer that pursues nothing new.
LEMMA Calm ==
  ASSUME JInv, FxGrows, NEW p \in Tenures, NEW r, Follows(p, r),
         performer' = [performer EXCEPT ![p] = r], UNCHANGED <<happened, tenure, resolver>>,
         fxlog' = fxlog \/ \E m : Logs(p, m),
         LogInv' => (Pursues(p)' => Pursues(p)),
         r.pc = "acted" => happened = 1,
         (fx = NoEffect \/ Startable)' => fx = NoEffect \/ Startable,
         fx' = NoEffect => fx = NoEffect,
         fx' # NoEffect /\ fx'.phase = "completed" => happened = 1,
         fx # NoEffect /\ fx.phase = "uncertain" => fx' # NoEffect /\ fx'.phase = "uncertain"
  PROVE  JInv'
  <1>1. EntryInv' /\ \A q \in Tenures : Follows(q, performer'[q])
    BY EntryKeeps, Zenon DEF JInv, EntryInv
  <1>2. LogInv'
    BY <1>1, LogKeeps DEF JInv
  <1>3. /\ performer \in [Tenures -> Performers] /\ performer'[p] = r
        /\ \A q \in Tenures \ {p} : performer'[q] = performer[q]
    BY DEF JInv, EntryInv
  <1>4. \A q \in Tenures : Pursues(q)' => Pursues(q)
    BY <1>2, <1>3, OthersPursue
  <1>5. \A q \in Tenures : performer'[q].pc = "acted" => happened = 1
    BY <1>3 DEF JInv, PursuitInv
  <1>6. PursuitInv'
    BY <1>4, <1>5, PursuitCalm DEF JInv
  <1>7. AskInv'
    BY <1>4, AskCalm DEF JInv, Logs
  <1> QED BY <1>1, <1>2, <1>6, <1>7 DEF JInv

\* What holds of a performer that knows the effect.
LEMMA Knows ==
  ASSUME JInv, NEW p \in Tenures, performer[p].pc \notin {"idle", "over"}
  PROVE  /\ performer[p] \in Performers /\ performer[p].entry \in Entries
         /\ performer[p].entry # NoEffect /\ performer[p].entry.rev \in Nat
         /\ ContractValid /\ fx \in Entries /\ fx # NoEffect /\ fx.rev \in Nat
         /\ performer[p].entry.rev <= fx.rev
  <1>1. /\ performer[p] \in Performers /\ performer[p].entry # NoEffect /\ ContractValid
        /\ fx \in Entries /\ fx # NoEffect /\ performer[p].entry.rev <= fx.rev
    BY DEF JInv, EntryInv
  <1>2. performer[p].entry \in Entries
    BY <1>1 DEF Performers
  <1> QED BY <1>1, <1>2 DEF Entries

\* The same, when the answer may be lost.
LEMMA ToldKeeps ==
  ASSUME JInv, FxGrows, NEW p \in Tenures, NEW pc, NEW e, Told(p, pc, e), pc # "acted",
         Follows(p, [pc |-> pc, entry |-> e]), UNCHANGED <<happened, tenure, resolver>>,
         fxlog' = fxlog \/ \E m : Logs(p, m),
         LogInv' => (Pursues(p)' => Pursues(p)),
         (fx = NoEffect \/ Startable)' => fx = NoEffect \/ Startable,
         fx' = NoEffect => fx = NoEffect,
         fx' # NoEffect /\ fx'.phase = "completed" => happened = 1,
         fx # NoEffect /\ fx.phase = "uncertain" => fx' # NoEffect /\ fx'.phase = "uncertain"
  PROVE  JInv'
  <1>1. CASE performer' = [performer EXCEPT ![p] = [pc |-> pc, entry |-> e]]
    <2>1. PICK r : r = [pc |-> pc, entry |-> e]
      OBVIOUS
    <2>2. Follows(p, r) /\ performer' = [performer EXCEPT ![p] = r] /\ r.pc # "acted"
      BY <1>1, <2>1
    <2> QED BY <2>2, Calm, Zenon
  <1>2. CASE UNCHANGED performer
    <2>1. PICK r : r = performer[p]
      OBVIOUS
    <2>2. Follows(p, r) /\ performer' = [performer EXCEPT ![p] = r] /\ (r.pc = "acted" => happened = 1)
      BY <1>2, <2>1, StaysPut DEF JInv, EntryInv, PursuitInv
    <2> QED BY <2>2, Calm, Zenon
  <1> QED BY <1>1, <1>2 DEF Told

LEMMA ReserveKeeps ==
  ASSUME JInv, NEW p \in Tenures, NEW class \in {"idempotent", "non_idempotent"},
         ReserveEffect(p, class)
  PROVE  JInv'
  <1>1. /\ performer[p].pc = "idle" /\ performer[p].entry = NoEffect /\ ContractValid
        /\ performer[p] \in Performers /\ fx \in {NoEffect} \cup Entries /\ p \in Nat
        /\ UNCHANGED <<happened, tenure, resolver, fxlog>> /\ Told(p, "known", fx')
    BY EffectAssumption DEF ReserveEffect, JInv, EntryInv, Same
  <1>2. /\ fx' \in Entries /\ (fx # NoEffect => fx.rev <= fx'.rev)
        /\ Startable' => fx = NoEffect \/ Startable
        /\ fx'.phase = "completed" => fx # NoEffect /\ fx.phase = "completed"
        /\ fx # NoEffect /\ fx.phase = "uncertain" => fx'.phase = "uncertain"
    <2>1. CASE fx = NoEffect
      <3>1. fx' = [phase |-> "reserved", class |-> class, by |-> p, live |-> TRUE, rev |-> 1]
        BY <2>1 DEF ReserveEffect, Reservation
      <3>2. fx' \in Entries /\ fx'.phase = "reserved"
        BY <1>1, <3>1 DEF Entries
      <3> QED BY <2>1, <3>2
    <2>2. CASE fx # NoEffect
      <3>1. fx \in Entries /\ fx.rev \in Nat /\ fx' = Rejoined(fx)
        BY <1>1, <2>2 DEF ReserveEffect, Entries
      <3>2. CASE fx.phase = "started" /\ ~fx.live
        <4>1. PICK n \in Nat : n = fx.rev + 1
          BY <3>1
        <4>2. fx' = [fx EXCEPT !.phase = "uncertain", !.rev = n]
          BY <3>1, <3>2, <4>1 DEF Rejoined
        <4>3. fx' \in Entries /\ fx'.phase = "uncertain" /\ fx'.rev = n
          BY <3>1, <4>1, <4>2, Zenon DEF Entries
        <4> QED BY <3>1, <4>1, <4>3 DEF Startable
      <3>3. CASE ~(fx.phase = "started" /\ ~fx.live)
        <4>1. fx' = fx
          BY <3>1, <3>3 DEF Rejoined
        <4> QED BY <3>1, <4>1, <2>2 DEF Startable
      <3> QED BY <3>2, <3>3
    <2> QED BY <2>1, <2>2
  <1>3. fx' # NoEffect /\ FxGrows /\ fx'.rev \in Nat
    BY <1>2 DEF FxGrows, Entries, NoEffect
  <1>4. PICK e : e = fx'
    OBVIOUS
  <1>5. Follows(p, [pc |-> "known", entry |-> e]) /\ Told(p, "known", e)
    BY <1>1, <1>2, <1>3, <1>4 DEF Follows, Performers
  <1>6. ~Pursues(p)'
    <2>1. \A n \in Nat : ~StartLogged(p, n)'
      BY <1>1 DEF StartLogged, Logged, JInv, LogInv
    <2>2. performer'[p].pc = "known" => performer'[p].entry = e
      BY <1>1, <1>5 DEF Told, JInv, EntryInv
    <2>3. performer'[p].pc # "started"
      BY <1>1, <1>5 DEF Told, JInv, EntryInv
    <2> QED BY <1>3, <1>4, <2>1, <2>2, <2>3 DEF Pursues, StartLogged, Logged
  <1>7. fx'.phase = "completed" => happened = 1
    BY <1>2 DEF JInv, PursuitInv
  <1> QED BY <1>1, <1>2, <1>3, <1>5, <1>6, <1>7, ToldKeeps

LEMMA ReadKeeps ==
  ASSUME JInv, NEW p \in Tenures, ReadEffect(p)
  PROVE  JInv'
  <1>1. /\ performer[p].pc = "known" /\ ContractValid /\ fx \in Entries /\ fx # NoEffect
        /\ fx.rev \in Nat /\ performer[p] \in Performers /\ performer[p].entry # NoEffect
        /\ performer[p].entry.rev <= fx.rev /\ UNCHANGED <<fx, happened, tenure, resolver, fxlog>>
    BY Knows DEF ReadEffect, Same
  <1>2. PICK r : r = [performer[p] EXCEPT !.entry = fx]
    BY Zenon
  <1>3. r \in Performers /\ r.pc = "known" /\ r.entry = fx
    BY <1>1, <1>2 DEF Performers
  <1>4. performer' = [performer EXCEPT ![p] = r]
    BY <1>1, <1>2 DEF ReadEffect, DecodeEffect
  <1>5. FxGrows /\ Follows(p, r)
    BY <1>1, <1>3 DEF FxGrows, Follows
  <1>6. ~Pursues(p)'
    <2>1. ~StartLogged(p, fx.rev)'
      BY <1>1 DEF StartLogged, Logged, JInv, LogInv
    <2>2. performer'[p] = r
      BY <1>4 DEF JInv, EntryInv
    <2> QED BY <1>1, <1>3, <2>1, <2>2 DEF Pursues, StartLogged, Logged
  <1>7. fx.phase = "completed" => happened = 1
    BY <1>1 DEF JInv, PursuitInv
  <1>8. Startable' => Startable
    BY <1>1 DEF Startable
  <1> QED BY <1>1, <1>3, <1>4, <1>5, <1>6, <1>7, <1>8, Calm, Zenon

LEMMA ReplayKeeps ==
  ASSUME JInv, NEW p \in Tenures, NEW what \in Whats, NEW pc \in {"known", "started", "over"},
         performer[p].pc \in {"known", "acted", "unable"},
         NEW logged \in Logged(<<what, p, performer[p].entry.rev>>), Told(p, pc, logged.result),
         UNCHANGED <<fx, fxlog, happened, tenure, resolver>>,
         \/ what = "start" /\ performer[p].pc = "known"
              /\ performer[p].entry.phase \in {"reserved", "retry"}
         \/ what = "takeover" /\ pc = "known"
         \/ performer[p].pc # "known" /\ pc = "over"
  PROVE  JInv'
  <1>1. /\ performer[p] \in Performers /\ performer[p].entry \in Entries
        /\ performer[p].entry # NoEffect /\ performer[p].entry.rev \in Nat /\ ContractValid
        /\ fx \in Entries /\ fx # NoEffect /\ fx.rev \in Nat
    BY Knows, Zenon
  <1>2. PICK n \in Nat : n = performer[p].entry.rev
    BY <1>1
  <1>3. PICK e : e = logged.result
    OBVIOUS
  <1>4. logged \in fxlog /\ logged.id = <<what, p, n>>
    BY <1>2 DEF Logged
  <1>5. e \in Entries /\ e.rev = n + 1 /\ e.rev <= fx.rev /\ e # NoEffect
    BY <1>3, <1>4 DEF JInv, LogInv, Whats, Entries, NoEffect
  <1>6. Follows(p, [pc |-> pc, entry |-> e])
    BY <1>1, <1>2, <1>5 DEF Follows, Performers
  <1>7. FxGrows
    BY <1>1 DEF FxGrows
  <1>8. Pursues(p)' => Pursues(p)
    <2>1. CASE UNCHANGED performer
      BY <2>1, Zenon DEF Pursues, StartLogged, Logged
    <2>2. CASE performer' = [performer EXCEPT ![p] = [pc |-> pc, entry |-> e]]
      <3>1. performer'[p].pc = pc /\ performer'[p].entry = e
        BY <2>2 DEF JInv, EntryInv
      <3>2. CASE what = "start" /\ performer[p].pc = "known" /\ performer[p].entry.phase \in {"reserved", "retry"}
        <4>1. StartLogged(p, performer[p].entry.rev)
          BY <3>2 DEF StartLogged
        <4> QED BY <3>2, <4>1, Zenon DEF Pursues
      <3>3. CASE what = "takeover" /\ pc = "known"
        <4>1. ~StartLogged(p, n + 1)'
          <5>1. \A m \in fxlog : m.id = <<"start", p, n + 1>> => n + 1 <= n
            BY <1>2 DEF JInv, LogInv
          <5>2. \A m \in fxlog : m.id # <<"start", p, n + 1>>
            BY <5>1
          <5> QED BY <5>2 DEF StartLogged, Logged
        <4> QED BY <1>5, <3>1, <3>3, <4>1, Zenon DEF Pursues, StartLogged, Logged
      <3>4. CASE performer[p].pc # "known" /\ pc = "over"
        BY <3>1, <3>4, Zenon DEF Pursues
      <3> QED BY <3>2, <3>3, <3>4
    <2> QED BY <1>3, <2>1, <2>2, Zenon DEF Told
  <1>9. fx.phase = "completed" => happened = 1
    BY <1>1, Zenon DEF JInv, PursuitInv
  <1>10. Startable' => Startable
    BY DEF Startable
  <1> QED BY <1>1, <1>3, <1>6, <1>7, <1>8, <1>9, <1>10, ToldKeeps, Zenon

\* A command that is not a replay: what it makes of the entry.
FreshCommand(p, what) ==
  LET c == EffectCommand(p, what)
  IN /\ IF what = "takeover" THEN Takeable(c) ELSE Transitionable(c)
     /\ fx' = Transitioned(c)

LEMMA FreshEntry ==
  ASSUME JInv, NEW p \in Tenures, NEW what \in Whats, FreshCommand(p, what),
         performer[p].pc \in {"known", "acted", "unable"}
  PROVE  /\ fx' \in Entries /\ fx' # NoEffect /\ FxGrows
         /\ fx'.rev = performer[p].entry.rev + 1 /\ fx.phase # "uncertain"
         /\ what = "takeover" =>
              (fx.phase = "reserved" /\ fx'.phase = "reserved") \/ fx'.phase = "uncertain"
         /\ what = "start" => Startable
         /\ what # "takeover" => fx'.phase = IF what = "start" THEN "started" ELSE what
  <1>1. /\ fx \in Entries /\ fx # NoEffect /\ fx.rev \in Nat /\ p \in Nat
        /\ performer[p].entry.rev \in Nat
    BY Knows, EffectAssumption
  <1>2. fx.rev = performer[p].entry.rev
    BY DEF FreshCommand, Takeable, Transitionable, CurrentFor, EffectCommand
  <1>3. PICK n \in Nat : n = fx.rev + 1
    BY <1>1
  <1>4. CASE what = "takeover"
    <2>1. fx.phase \in {"reserved", "started"} /\ fx' = Overtaken(EffectCommand(p, what))
      BY <1>4 DEF FreshCommand, Takeable, EffectCommand, Transitioned
    <2>2. CASE fx.phase = "reserved"
      <3>1. fx' = [fx EXCEPT !.by = p, !.live = TRUE, !.rev = n]
        BY <1>3, <2>1, <2>2 DEF Overtaken, EffectCommand
      <3>2. fx' \in Entries /\ fx'.rev = n /\ fx'.phase = "reserved"
        BY <1>1, <2>2, <3>1, Zenon DEF Entries
      <3> QED BY <1>1, <1>2, <1>3, <1>4, <2>2, <3>2 DEF FxGrows, Entries, NoEffect
    <2>3. CASE fx.phase # "reserved"
      <3>1. fx' = [fx EXCEPT !.phase = "uncertain", !.rev = n]
        BY <1>3, <2>1, <2>3 DEF Overtaken
      <3>2. fx' \in Entries /\ fx'.rev = n /\ fx'.phase = "uncertain"
        BY <1>1, <3>1, Zenon DEF Entries
      <3> QED BY <1>1, <1>2, <1>3, <1>4, <2>1, <3>2 DEF FxGrows, Entries, NoEffect
    <2> QED BY <2>2, <2>3
  <1>5. CASE what # "takeover"
    <2>1. PICK ph \in {"started", "completed", "failed", "uncertain"} :
            ph = IF what = "start" THEN "started" ELSE what
      BY <1>5 DEF Whats
    <2>2. fx' = [fx EXCEPT !.phase = ph, !.rev = n]
      BY <1>3, <1>5, <2>1, Zenon DEF FreshCommand, Transitioned, EffectCommand
    <2>3. fx' \in Entries /\ fx'.rev = n /\ fx'.phase = ph
      BY <1>1, <2>2, Zenon DEF Entries
    <2>4. IF what = "start" THEN fx.phase \in {"reserved", "retry"} ELSE fx.phase = "started"
      BY <1>5 DEF FreshCommand, Transitionable, EffectCommand
    <2> QED BY <1>1, <1>2, <1>3, <1>5, <2>1, <2>3, <2>4 DEF FxGrows, Entries, NoEffect, Startable
  <1> QED BY <1>4, <1>5

LEMMA FreshLogs ==
  ASSUME JInv, NEW p \in Tenures, NEW what \in Whats, FreshCommand(p, what),
         performer[p].pc \in {"known", "acted", "unable"},
         Log(<<what, p, performer[p].entry.rev>>, <<what, "none">>, fx')
  PROVE  /\ \E m : Logs(p, m)
         /\ what # "start" => \A n : StartLogged(p, n)' <=> StartLogged(p, n)
  <1>1. performer[p].entry # NoEffect
    BY Knows
  <1>2. fx' \in Entries /\ fx'.rev = performer[p].entry.rev + 1
    BY FreshEntry
  <1>3. PICK m : m = [id |-> <<what, p, performer[p].entry.rev>>, what |-> <<what, "none">>, result |-> fx']
    BY Zenon
  <1>4. /\ fxlog' = fxlog \cup {m} /\ m.result = fx'
        /\ m.id = <<what, p, performer[p].entry.rev>>
    BY <1>3 DEF Log
  <1>5. Logs(p, m)
    BY <1>1, <1>2, <1>4 DEF Logs
  <1>6. what # "start" => \A n : StartLogged(p, n)' <=> StartLogged(p, n)
    BY <1>4 DEF StartLogged, Logged
  <1> QED BY <1>5, <1>6

LEMMA FreshKeeps ==
  ASSUME JInv, NEW p \in Tenures, NEW what \in Whats, FreshCommand(p, what), what # "start",
         NEW pc \in {"known", "over"},
         performer[p].pc \in {"known", "acted", "unable"},
         Log(<<what, p, performer[p].entry.rev>>, <<what, "none">>, fx'), Told(p, pc, fx'),
         UNCHANGED <<happened, tenure, resolver>>,
         what = "takeover" <=> pc = "known", what = "takeover" <=> performer[p].pc = "known",
         what = "completed" => performer[p].pc = "acted"
  PROVE  JInv'
  <1>1. /\ performer[p] \in Performers /\ performer[p].entry \in Entries
        /\ performer[p].entry # NoEffect /\ performer[p].entry.rev \in Nat /\ ContractValid
        /\ fx \in Entries /\ fx # NoEffect /\ fx.rev \in Nat
    BY Knows
  <1>2. /\ fx' \in Entries /\ fx' # NoEffect /\ FxGrows
        /\ fx'.rev = performer[p].entry.rev + 1 /\ fx.phase # "uncertain"
        /\ what = "takeover" =>
             (fx.phase = "reserved" /\ fx'.phase = "reserved") \/ fx'.phase = "uncertain"
        /\ what # "takeover" => fx'.phase = what
    BY FreshEntry
  <1>3. /\ \E m : Logs(p, m)
        /\ \A n : StartLogged(p, n)' <=> StartLogged(p, n)
    BY FreshLogs, Zenon
  <1>4. PICK e : e = fx'
    OBVIOUS
  <1>5. Follows(p, [pc |-> pc, entry |-> e])
    BY <1>1, <1>2, <1>4 DEF Follows, Performers
  <1>6. ASSUME LogInv' PROVE Pursues(p)' => Pursues(p)
    <2>1. CASE UNCHANGED performer
      BY <1>3, <2>1 DEF Pursues, StartLogged, Logged
    <2>2. CASE performer' = [performer EXCEPT ![p] = [pc |-> pc, entry |-> e]]
      <3>1. performer'[p].pc = pc /\ performer'[p].entry = e
        BY <2>2 DEF JInv, EntryInv
      <3>2. CASE pc = "known"
        <4>1. PICK n \in Nat : n = e.rev
          BY <1>1, <1>2, <1>4
        <4>2. ~StartLogged(p, n)'
          <5>1. fx'.rev = n
            BY <1>4, <4>1
          <5>2. \A m \in fxlog' : m.id = <<"start", p, n>> => m.result.rev = n + 1 /\ m.result.rev <= n
            BY <1>6, <5>1 DEF LogInv
          <5> QED BY <5>2 DEF StartLogged, Logged
        <4> QED BY <3>1, <3>2, <4>1, <4>2 DEF Pursues, StartLogged, Logged
      <3>3. CASE pc = "over"
        BY <3>1, <3>3 DEF Pursues
      <3> QED BY <3>2, <3>3
    <2> QED BY <1>4, <2>1, <2>2 DEF Told
  <1>7. fx'.phase = "completed" => happened = 1
    BY <1>2 DEF JInv, PursuitInv
  <1>8. Startable' => Startable
    <2>1. Startable' => what = "takeover" /\ fx.phase = "reserved"
      BY <1>2 DEF Startable, Whats
    <2> QED BY <1>1, <2>1 DEF Startable
  <1>9. Told(p, pc, e) /\ pc # "acted"
    BY <1>4
  <1> QED BY <1>1, <1>2, <1>3, <1>5, <1>6, <1>7, <1>8, <1>9, ToldKeeps, Zenon

LEMMA StartKeeps ==
  ASSUME JInv, NEW p \in Tenures, FreshCommand(p, "start"), performer[p].pc = "known",
         Log(<<"start", p, performer[p].entry.rev>>, <<"start", "none">>, fx'), Told(p, "started", fx'),
         UNCHANGED <<happened, tenure, resolver>>
  PROVE  JInv'
  <1>1. /\ performer[p] \in Performers /\ performer[p].entry \in Entries
        /\ performer[p].entry # NoEffect /\ performer[p].entry.rev \in Nat /\ ContractValid
        /\ fx \in Entries /\ fx # NoEffect /\ fx.rev \in Nat
    BY Knows
  <1>2. /\ fx' \in Entries /\ fx' # NoEffect /\ FxGrows /\ Startable
        /\ fx'.rev = performer[p].entry.rev + 1 /\ fx.phase # "uncertain" /\ fx'.phase = "started"
    BY FreshEntry DEF Whats
  <1>3. \E m : Logs(p, m)
    BY FreshLogs, Zenon DEF Whats
  <1>4. happened = 0 /\ (\A q \in Tenures : ~Pursues(q))
        /\ (\A q \in Tenures : performer[q].pc # "acted")
    BY <1>2 DEF JInv, PursuitInv
  <1>5. PICK r : /\ performer' = [performer EXCEPT ![p] = r] /\ Follows(p, r) /\ r.pc # "acted"
    <2>1. CASE UNCHANGED performer
      <3>1. PICK r : r = performer[p]
        OBVIOUS
      <3>2. Follows(p, r) /\ performer' = [performer EXCEPT ![p] = r] /\ r.pc # "acted"
        BY <1>2, <2>1, <3>1, StaysPut DEF JInv, EntryInv
      <3> QED BY <3>2, Zenon
    <2>2. CASE performer' = [performer EXCEPT ![p] = [pc |-> "started", entry |-> fx']]
      <3>1. PICK r : r = [pc |-> "started", entry |-> fx']
        BY Zenon
      <3>2. Follows(p, r) /\ r.pc # "acted"
        BY <1>1, <1>2, <3>1 DEF Follows, Performers
      <3> QED BY <2>2, <3>1, <3>2, Zenon
    <2> QED BY <2>1, <2>2 DEF Told
  <1>6. EntryInv' /\ \A q \in Tenures : Follows(q, performer'[q])
    BY <1>2, <1>5, EntryKeeps, Zenon DEF JInv, EntryInv
  <1>7. LogInv'
    BY <1>2, <1>3, <1>6, LogKeeps, Zenon DEF JInv
  <1>8. /\ performer \in [Tenures -> Performers] /\ performer'[p] = r
        /\ \A q \in Tenures \ {p} : performer'[q] = performer[q]
    BY <1>5, Zenon DEF JInv, EntryInv
  <1>9. \A q \in Tenures \ {p} : ~Pursues(q)'
    BY <1>3, <1>4, <1>8, OthersPursue, Zenon
  <1>10. PursuitInv'
    <2>1. \A q \in Tenures : performer'[q].pc # "acted"
      BY <1>4, <1>5, <1>8
    <2>2. ~Startable'
      BY <1>2 DEF Startable
    <2> QED BY <1>2, <1>4, <1>9, <2>1, <2>2 DEF PursuitInv
  <1>11. AskInv'
    <2>1. \A q \in DOMAIN Resolutions : Logged(ResolutionId(q))' = {} => Logged(ResolutionId(q)) = {}
      BY <1>3 DEF Logged, Logs, ResolutionId
    <2> QED BY <1>2, <2>1, Zenon DEF JInv, AskInv
  <1> QED BY <1>6, <1>7, <1>10, <1>11 DEF JInv

LEMMA CommandKeeps ==
  ASSUME JInv, NEW p \in Tenures,
         \/ StartEffect(p) \/ TakeoverEffect(p)
         \/ \E outcome \in {"completed", "failed", "uncertain"} : ResolveEffect(p, outcome)
  PROVE  JInv'
  <1>1. PICK what \in Whats, pc \in {"known", "started", "over"} :
          /\ Commands(p, what, pc)
          /\ \/ /\ what = "start" /\ pc = "started" /\ performer[p].pc = "known"
                /\ performer[p].entry.phase \in {"reserved", "retry"}
             \/ what = "takeover" /\ pc = "known" /\ performer[p].pc = "known"
             \/ /\ what \notin {"start", "takeover"} /\ pc = "over"
                /\ performer[p].pc \in {"acted", "unable"}
                /\ what = "completed" => performer[p].pc = "acted"
    BY DEF StartEffect, TakeoverEffect, ResolveEffect, Whats
  <1>2. performer[p].pc \in {"known", "acted", "unable"} /\ UNCHANGED <<happened, tenure, resolver>>
    BY <1>1 DEF Commands, Same
  <1>3. CASE /\ \E logged \in Logged(<<what, p, performer[p].entry.rev>>) : Told(p, pc, logged.result)
             /\ UNCHANGED <<fx, fxlog>>
    BY <1>1, <1>2, <1>3, ReplayKeeps
  <1>4. CASE /\ FreshCommand(p, what)
             /\ Log(<<what, p, performer[p].entry.rev>>, <<what, "none">>, fx') /\ Told(p, pc, fx')
    <2>1. CASE what = "start"
      BY <1>1, <1>2, <1>4, <2>1, StartKeeps, Zenon
    <2>2. CASE what # "start"
      BY <1>1, <1>2, <1>4, <2>2, FreshKeeps, Zenon
    <2> QED BY <2>1, <2>2
  <1> QED BY <1>1, <1>3, <1>4, Zenon DEF Commands, EffectCommand, CommandId, FreshCommand

LEMMA ActKeeps ==
  ASSUME JInv, NEW p \in Tenures, Act(p)
  PROVE  JInv'
  <1>1. /\ performer[p] \in Performers /\ performer[p].entry \in Entries
        /\ performer[p].entry # NoEffect /\ performer[p].entry.rev \in Nat /\ ContractValid
        /\ fx \in Entries /\ fx # NoEffect /\ fx.rev \in Nat /\ performer[p].entry.rev <= fx.rev
        /\ performer[p].pc = "started" /\ UNCHANGED <<fx, tenure, resolver, fxlog>>
    BY Knows DEF Act, Same
  <1>2. /\ Pursues(p) /\ happened = 0 /\ ~Startable /\ fx.phase # "completed"
        /\ \A q \in Tenures \ {p} : ~Pursues(q) /\ performer[q].pc # "acted"
    <2>1. performer[p].pc = "started" /\ Pursues(p)
      BY <1>1, Zenon DEF Pursues
    <2>2. PursuitInv
      BY DEF JInv
    <2> QED BY <2>1, <2>2 DEF PursuitInv
  <1>3. FxGrows
    BY <1>1 DEF FxGrows
  <1>4. CASE happened' = happened + 1 /\ performer' = [performer EXCEPT ![p].pc = "acted"]
    <2>1. PICK r : r = [performer[p] EXCEPT !.pc = "acted"]
      BY Zenon
    <2>2. r \in Performers /\ r.pc = "acted" /\ r.entry = performer[p].entry
      BY <1>1, <2>1 DEF Performers
    <2>3. performer' = [performer EXCEPT ![p] = r] /\ happened' = 1 /\ Follows(p, r)
      BY <1>1, <1>2, <1>4, <2>1, <2>2 DEF Follows
    <2>4. EntryInv' /\ \A q \in Tenures : Follows(q, performer'[q])
      BY <1>1, <1>3, <2>3, EntryKeeps, Zenon DEF JInv, EntryInv
    <2>5. LogInv'
      BY <1>1, <1>3, <2>4, LogKeeps, Zenon DEF JInv
    <2>6. performer'[p] = r /\ \A q \in Tenures \ {p} : performer'[q] = performer[q]
      BY <2>3 DEF JInv, EntryInv
    <2>7. \A q \in Tenures : ~Pursues(q)'
      <3>1. ~Pursues(p)'
        BY <2>2, <2>6 DEF Pursues
      <3>2. \A q \in Tenures \ {p} : ~Pursues(q)'
        BY <1>1, <1>2, <2>6, OthersPursue
      <3> QED BY <3>1, <3>2
    <2>8. PursuitInv'
      BY <1>1, <1>2, <2>3, <2>7 DEF PursuitInv, Startable
    <2>9. AskInv'
      <3>1. \A q \in DOMAIN Resolutions : Logged(ResolutionId(q))' = Logged(ResolutionId(q))
        BY <1>1 DEF Logged
      <3> QED BY <1>1, <1>2, <2>3, <2>7, <3>1 DEF JInv, AskInv
    <2> QED BY <2>4, <2>5, <2>8, <2>9 DEF JInv
  <1>5. CASE performer' = [performer EXCEPT ![p].pc = "unable"] /\ UNCHANGED happened
    <2>1. PICK r : r = [performer[p] EXCEPT !.pc = "unable"]
      BY Zenon
    <2>2. r \in Performers /\ r.pc = "unable" /\ r.entry = performer[p].entry
      BY <1>1, <2>1 DEF Performers
    <2>3. performer' = [performer EXCEPT ![p] = r] /\ Follows(p, r)
      BY <1>1, <1>5, <2>1, <2>2 DEF Follows
    <2>4. Startable' => Startable
      BY <1>1 DEF Startable
    <2> QED BY <1>1, <1>2, <1>3, <1>5, <2>2, <2>3, <2>4, Calm, Zenon
  <1> QED BY <1>4, <1>5 DEF Act

LEMMA DiesKeeps ==
  ASSUME JInv, NEW p \in Tenures, PerformerDies(p)
  PROVE  JInv'
  <1>1. UNCHANGED <<fx, tenure, resolver, fxlog, happened>> /\ performer[p] \in Performers
    BY DEF PerformerDies, Same, JInv, EntryInv
  <1>2. PICK r : r = [performer[p] EXCEPT !.pc = "over"]
    BY Zenon
  <1>3. r \in Performers /\ r.pc = "over" /\ r.entry = performer[p].entry
    BY <1>1, <1>2 DEF Performers
  <1>4. FxGrows
    BY <1>1 DEF FxGrows, JInv, EntryInv, Entries
  <1>5. Follows(p, r) /\ performer' = [performer EXCEPT ![p] = r]
    <2>1. Follows(p, performer[p])
      BY <1>4, StaysPut DEF JInv
    <2> QED BY <1>1, <1>2, <1>3, <2>1 DEF Follows, PerformerDies
  <1>6. ~Pursues(p)'
    BY <1>3, <1>5 DEF Pursues, JInv, EntryInv
  <1>7. /\ (fx = NoEffect \/ Startable)' => fx = NoEffect \/ Startable
        /\ fx # NoEffect /\ fx.phase = "completed" => happened = 1
    BY <1>1 DEF Startable, JInv, PursuitInv
  <1> QED BY <1>1, <1>3, <1>4, <1>5, <1>6, <1>7, Calm, Zenon

\* A step in which the performers rest and the entry keeps its phase.
LEMMA PerformersRest ==
  ASSUME JInv, FxGrows, UNCHANGED <<performer, fxlog, happened>>, tenure'.epoch \in Nat,
         fx' = NoEffect <=> fx = NoEffect, fx # NoEffect => fx'.phase = fx.phase
  PROVE  /\ EntryInv' /\ LogInv' /\ PursuitInv'
         /\ \A q \in Tenures : Pursues(q)' <=> Pursues(q)
         /\ resolver' = resolver => AskInv'
  <1>1. EntryInv'
    BY EntryRests, Zenon DEF JInv, EntryInv
  <1>2. LogInv'
    <2>1. \A m \in fxlog : m.result.rev \in Nat /\ fx.rev \in Nat /\ fx'.rev \in Nat /\ fx' # NoEffect
      BY DEF JInv, LogInv, EntryInv, FxGrows, Entries
    <2> QED BY <2>1 DEF JInv, LogInv, FxGrows
  <1>3. \A q \in Tenures : Pursues(q)' <=> Pursues(q)
    BY DEF Pursues, StartLogged, Logged
  <1>4. Startable' <=> Startable
    BY DEF Startable
  <1>5. PursuitInv'
    BY <1>3, <1>4, PursuitCalm DEF JInv, PursuitInv
  <1>6. resolver' = resolver => AskInv'
    BY <1>3, AskCalm DEF JInv
  <1> QED BY <1>1, <1>2, <1>3, <1>5, <1>6

LEMMA SurroundingsKeep ==
  ASSUME JInv, OperationUncertain \/ EffectLeaseExpires \/ TenureChanges
  PROVE  JInv'
  <1>1. UNCHANGED <<performer, fxlog, happened, resolver>>
    BY DEF OperationUncertain, EffectLeaseExpires, TenureChanges
  <1>2. tenure'.epoch \in Nat
    <2>1. tenure.epoch \in Nat
      BY DEF JInv, EntryInv
    <2>2. CASE TenureChanges
      <3>1. CASE tenure' = [tenure EXCEPT !.held = FALSE]
        BY <2>1, <3>1
      <3>2. CASE tenure' = [epoch |-> tenure.epoch + 1, held |-> TRUE]
        BY <2>1, <3>2
      <3> QED BY <2>2, <3>1, <3>2 DEF TenureChanges
    <2> QED BY <2>1, <2>2 DEF OperationUncertain, EffectLeaseExpires
  <1>3. FxGrows /\ (fx' = NoEffect <=> fx = NoEffect) /\ (fx # NoEffect => fx'.phase = fx.phase)
    <2>1. fx \in {NoEffect} \cup Entries
      BY DEF JInv, EntryInv
    <2>2. CASE EffectLeaseExpires
      <3>1. fx # NoEffect /\ fx' = [fx EXCEPT !.live = FALSE]
        BY <2>2 DEF EffectLeaseExpires
      <3>2. fx' \in Entries /\ fx'.rev = fx.rev /\ fx'.phase = fx.phase /\ fx.rev \in Nat
        BY <2>1, <3>1, Zenon DEF Entries
      <3> QED BY <3>1, <3>2 DEF FxGrows, Entries, NoEffect
    <2>3. CASE fx' = fx
      BY <2>1, <2>3 DEF FxGrows, Entries
    <2> QED BY <2>2, <2>3 DEF OperationUncertain, TenureChanges
  <1> QED BY <1>1, <1>2, <1>3, PerformersRest DEF JInv

LEMMA AskKeeps ==
  ASSUME JInv, NEW r \in DOMAIN Resolutions, AskResolution(r)
  PROVE  JInv'
  <1>1. UNCHANGED <<fx, tenure, performer, fxlog, happened>>
    BY DEF AskResolution
  <1>2. FxGrows /\ tenure'.epoch \in Nat
    BY <1>1 DEF FxGrows, JInv, EntryInv, Entries
  <1>3. /\ EntryInv' /\ LogInv' /\ PursuitInv'
        /\ \A q \in Tenures : Pursues(q)' <=> Pursues(q)
    BY <1>1, <1>2, PerformersRest
  <1>4. /\ Resolutions[r].want \in {"confirm", "deny", "retry"}
        /\ fx # NoEffect /\ fx.phase = "uncertain"
    BY DEF AskResolution, AllowedActions
  <1>5. Resolutions[r].want = "confirm" => happened = 1
    BY DEF AskResolution, JInv, EntryInv
  <1>6. Resolutions[r].want = "retry" => happened = 0 /\ \A p \in Tenures : ~Pursues(p)
    BY DEF AskResolution, Pursued, Pursues, StartLogged, CommandId, EffectCommand
  <1>7. /\ DOMAIN resolver = DOMAIN Resolutions /\ DOMAIN resolver' = DOMAIN Resolutions
        /\ \A q \in DOMAIN Resolutions : q # r => resolver'[q] = resolver[q] /\ resolver[q].pc # "asked"
    BY DEF AskResolution, JInv, AskInv
  <1>8. AskInv'
    BY <1>1, <1>3, <1>4, <1>5, <1>6, <1>7, Zenon DEF AskInv
  <1> QED BY <1>3, <1>8 DEF JInv

LEMMA Resolved ==
  ASSUME JInv, NEW r \in DOMAIN Resolutions, fx # NoEffect,
         Resolutions[r].want \in {"confirm", "deny", "retry"},
         fx' = Resolution(Resolutions[r].want)
  PROVE  /\ fx' \in Entries /\ fx' # NoEffect /\ FxGrows
         /\ Resolutions[r].want = "confirm" => fx'.phase = "completed"
         /\ Resolutions[r].want = "deny" => fx'.phase = "failed"
         /\ Resolutions[r].want = "retry" => fx'.phase = "retry"
  <1>1. fx \in Entries /\ fx.rev \in Nat /\ tenure.epoch \in Nat
    BY DEF JInv, EntryInv, Entries
  <1>2. PICK n \in Nat : n = fx.rev + 1
    BY <1>1
  <1>3. CASE Resolutions[r].want = "confirm"
    <2>1. fx' = [fx EXCEPT !.phase = "completed", !.rev = n]
      BY <1>2, <1>3 DEF Resolution
    <2>2. fx' \in Entries /\ fx'.rev = n /\ fx'.phase = "completed"
      BY <1>1, <2>1, Zenon DEF Entries
    <2> QED BY <1>1, <1>2, <1>3, <2>2 DEF FxGrows, Entries, NoEffect
  <1>4. CASE Resolutions[r].want = "deny"
    <2>1. fx' = [fx EXCEPT !.phase = "failed", !.rev = n]
      BY <1>2, <1>4 DEF Resolution
    <2>2. fx' \in Entries /\ fx'.rev = n /\ fx'.phase = "failed"
      BY <1>1, <2>1, Zenon DEF Entries
    <2> QED BY <1>1, <1>2, <1>4, <2>2 DEF FxGrows, Entries, NoEffect
  <1>5. CASE Resolutions[r].want = "retry"
    <2>1. fx' = [fx EXCEPT !.phase = "retry", !.by = tenure.epoch, !.live = TRUE, !.rev = n]
      BY <1>2, <1>5 DEF Resolution
    <2>2. fx' \in Entries /\ fx'.rev = n /\ fx'.phase = "retry"
      BY <1>1, <2>1, Zenon DEF Entries
    <2> QED BY <1>1, <1>2, <1>5, <2>2 DEF FxGrows, Entries, NoEffect
  <1> QED BY <1>3, <1>4, <1>5

LEMMA ResolutionKeeps ==
  ASSUME JInv, NEW r \in DOMAIN Resolutions, ResolveAuthorizedEffect(r)
  PROVE  JInv'
  <1>1. UNCHANGED <<tenure, performer, happened>> /\ resolver[r].pc = "asked"
    BY DEF ResolveAuthorizedEffect
  <1>2. CASE /\ Logged(ResolutionId(r)) = {} /\ fx' = Resolution(Resolutions[r].want)
             /\ Log(ResolutionId(r), <<Resolutions[r].want, Resolutions[r].grant>>, fx')
             /\ Answered(r, "done") \/ UNCHANGED resolver
    <2>1. /\ fx # NoEffect /\ Resolutions[r].want \in {"confirm", "deny", "retry"}
          /\ Resolutions[r].want = "confirm" => happened = 1
          /\ Resolutions[r].want = "retry" => happened = 0 /\ \A p \in Tenures : ~Pursues(p)
      BY <1>1, <1>2 DEF JInv, AskInv
    <2>2. /\ fx' \in Entries /\ fx' # NoEffect /\ FxGrows
          /\ Resolutions[r].want = "confirm" => fx'.phase = "completed"
          /\ Resolutions[r].want = "deny" => fx'.phase = "failed"
          /\ Resolutions[r].want = "retry" => fx'.phase = "retry"
      BY <1>2, <2>1, Resolved
    <2>3. PICK m : /\ fxlog' = fxlog \cup {m} /\ m.result = fx' /\ m.id = ResolutionId(r)
      <3>1. PICK m : m = [id |-> ResolutionId(r), result |-> fx',
                          what |-> <<Resolutions[r].want, Resolutions[r].grant>>]
        BY Zenon
      <3>2. fxlog' = fxlog \cup {m} /\ m.result = fx' /\ m.id = ResolutionId(r)
        BY <1>2, <3>1 DEF Log
      <3> QED BY <3>2
    <2>4. EntryInv'
      BY <1>1, <2>2, EntryRests, Zenon DEF JInv, EntryInv
    <2>5. \A q \in Tenures : \A n : m.id # <<"start", q, n>>
      BY <2>3, EffectAssumption DEF ResolutionId
    <2>6. \A q \in Tenures : Pursues(q)' <=> Pursues(q)
      BY <1>1, <2>3, <2>5, Zenon DEF Pursues, StartLogged, Logged
    <2>7. LogInv'
      <3>1. fx.rev \in Nat /\ fx'.rev \in Nat /\ fx.rev <= fx'.rev
        BY <2>1, <2>2 DEF JInv, EntryInv, FxGrows, Entries
      <3>2. \A w \in fxlog : w.result.rev \in Nat /\ w.result.rev <= fx'.rev
        BY <3>1 DEF JInv, LogInv, Entries
      <3>3. \A q \in Tenures : \A n, what : m.id # <<what, q, n>>
        BY <2>3, EffectAssumption DEF ResolutionId
      <3>4. ASSUME NEW w \in fxlog', NEW q \in Tenures, NEW n \in Nat, NEW what \in Whats,
                   w.id = <<what, q, n>>
            PROVE  /\ w.result.rev = n + 1
                   /\ what = "start" => performer[q].entry # NoEffect /\ n <= performer[q].entry.rev
        <4>1. w \in fxlog
          BY <2>3, <3>3, <3>4
        <4> QED BY <3>4, <4>1 DEF JInv, LogInv, Whats
      <3>5. \A w \in fxlog' : w.result \in Entries /\ fx' # NoEffect /\ w.result.rev <= fx'.rev
        <4>1. m.result \in Entries /\ m.result.rev <= fx'.rev
          BY <2>2, <2>3, <3>1
        <4>2. \A w \in fxlog : w.result \in Entries
          BY DEF JInv, LogInv
        <4> QED BY <2>2, <2>3, <3>2, <4>1, <4>2
      <3> QED BY <1>1, <3>4, <3>5 DEF LogInv, Whats
    <2>8. PursuitInv'
      BY <1>1, <2>1, <2>2, <2>6 DEF JInv, PursuitInv, Startable
    <2>9. AskInv'
      <3>1. /\ DOMAIN resolver' = DOMAIN Resolutions
            /\ \A q \in DOMAIN Resolutions : resolver'[q].pc = "asked" => q = r
        BY <1>1, <1>2 DEF Answered, JInv, AskInv
      <3>2. Logged(ResolutionId(r))' # {}
        BY <2>3 DEF Logged
      <3> QED BY <2>1, <3>1, <3>2 DEF AskInv
    <2> QED BY <2>4, <2>7, <2>8, <2>9 DEF JInv
  <1>3. CASE /\ \E pc \in {"done", "failed"} : Answered(r, pc)
             /\ UNCHANGED <<fx, fxlog>>
    <2>1. FxGrows /\ tenure'.epoch \in Nat
      BY <1>1, <1>3 DEF FxGrows, JInv, EntryInv, Entries
    <2>2. /\ EntryInv' /\ LogInv' /\ PursuitInv'
          /\ \A q \in Tenures : Pursues(q)' <=> Pursues(q)
      BY <1>1, <1>3, <2>1, PerformersRest
    <2>3. /\ DOMAIN resolver' = DOMAIN Resolutions
          /\ \A q \in DOMAIN Resolutions : resolver'[q].pc # "asked"
      BY <1>1, <1>3 DEF Answered, JInv, AskInv
    <2>4. AskInv'
      BY <2>3 DEF AskInv
    <2> QED BY <2>2, <2>4 DEF JInv
  <1> QED BY <1>2, <1>3, Zenon DEF ResolveAuthorizedEffect, ResolutionCommand, ResolutionId

LEMMA EffectStep ==
  ASSUME JInv, [EffectNext]_effectVars
  PROVE  JInv'
  <1>1. ASSUME NEW p \in Tenures, NEW class \in {"idempotent", "non_idempotent"}, ReserveEffect(p, class)
        PROVE  JInv'
    BY <1>1, ReserveKeeps
  <1>2. ASSUME NEW p \in Tenures, ReadEffect(p) PROVE JInv'
    BY <1>2, ReadKeeps
  <1>3. ASSUME NEW p \in Tenures, StartEffect(p) PROVE JInv'
    BY <1>3, CommandKeeps
  <1>4. ASSUME NEW p \in Tenures, TakeoverEffect(p) PROVE JInv'
    BY <1>4, CommandKeeps
  <1>5. ASSUME NEW p \in Tenures, NEW outcome \in {"completed", "failed", "uncertain"},
               ResolveEffect(p, outcome)
        PROVE  JInv'
    BY <1>5, CommandKeeps
  <1>6. ASSUME NEW p \in Tenures, Act(p) PROVE JInv'
    BY <1>6, ActKeeps
  <1>7. ASSUME NEW p \in Tenures, PerformerDies(p) PROVE JInv'
    BY <1>7, DiesKeeps
  <1>8. ASSUME NEW r \in DOMAIN Resolutions, AskResolution(r) PROVE JInv'
    BY <1>8, AskKeeps
  <1>9. ASSUME NEW r \in DOMAIN Resolutions, ResolveAuthorizedEffect(r) PROVE JInv'
    BY <1>9, ResolutionKeeps
  <1>10. CASE OperationUncertain \/ EffectLeaseExpires \/ TenureChanges
    BY <1>10, SurroundingsKeep
  <1>11. CASE UNCHANGED effectVars
    <2>1. UNCHANGED <<fx, tenure, performer, fxlog, resolver, happened>>
      BY <1>11 DEF effectVars
    <2>2. FxGrows /\ tenure'.epoch \in Nat
      BY <2>1 DEF FxGrows, JInv, EntryInv, Entries
    <2> QED BY <2>1, <2>2, PerformersRest DEF JInv
  <1>12. CASE EffectNext
    BY <1>1, <1>2, <1>3, <1>4, <1>5, <1>6, <1>7, <1>8, <1>9, <1>10, <1>12 DEF EffectNext
  <1> QED BY <1>11, <1>12

LEMMA EffectStart ==
  ASSUME EffectInit
  PROVE  JInv
  <1>1. /\ fx = NoEffect /\ happened = 0 /\ fxlog = {} /\ tenure.epoch = 1
        /\ performer = [p \in Tenures |-> Unaware]
        /\ resolver = [r \in DOMAIN Resolutions |-> [pc |-> "idle"]]
    BY DEF EffectInit
  <1>2. Unaware \in Performers /\ Unaware.pc = "idle" /\ Unaware.entry = NoEffect
    BY DEF Unaware, Performers
  <1>3. EntryInv
    BY <1>1, <1>2 DEF EntryInv
  <1>4. LogInv
    BY <1>1 DEF LogInv
  <1>5. PursuitInv
    BY <1>1, <1>2 DEF PursuitInv, Pursues
  <1>6. AskInv
    BY <1>1 DEF AskInv
  <1> QED BY <1>3, <1>4, <1>5, <1>6 DEF JInv

LEMMA JournalKept == JInv => JournalTruthful
  <1>1. ASSUME JInv PROVE JournalTruthful
    <2>1. happened <= 1
      BY <1>1 DEF JInv, EntryInv
    <2>2. fx # NoEffect => (fx.phase = "completed" => happened = 1)
      BY <1>1 DEF JInv, PursuitInv
    <2>3. ASSUME fx # NoEffect, RecoveryClass(fx) = "safe_to_continue", fx.class = "non_idempotent"
          PROVE  happened = 0 /\ \A p \in Tenures : performer[p].pc # "started"
      <3>1. fx.phase \in {"reserved", "retry", "started", "uncertain", "completed", "failed"}
        BY <1>1, <2>3 DEF JInv, EntryInv, Entries
      <3>2. fx.phase \in {"reserved", "retry"}
        BY <2>3, <3>1 DEF RecoveryClass
      <3> QED BY <1>1, <2>3, <3>2 DEF JInv, PursuitInv, Startable, Pursues
    <2> QED BY <2>1, <2>2, <2>3 DEF JournalTruthful
  <1> QED BY <1>1

\* What the journal says of an effect is so in every behaviour of it, for any
\* tenures, contract and resolutions: the effect happens at most once, a
\* completed one has happened, and one with which recovery may continue has not
\* happened and nobody is about to perform it, unless it may be repeated
\* (EffectJournalStore's transition_effect, takeover_effect and
\* resolve_authorized).
THEOREM JournalIsTruthful == EffectSpec => []JournalTruthful
  <1>1. EffectInit => JInv
    BY EffectStart
  <1>2. JInv /\ [EffectNext]_effectVars => JInv'
    BY EffectStep
  <1> QED BY <1>1, <1>2, JournalKept, PTL DEF EffectSpec
=============================================================================
