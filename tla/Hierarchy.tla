----------------------------- MODULE Hierarchy -----------------------------
(***************************************************************************)
(* The participants of one session as a tree: what the store commits when  *)
(* a driver spawns a child, asks its parent, answers, reminds or cancels   *)
(* its child, when a grant is issued, spent or revoked, and when a subtree *)
(* is cancelled.  The driver's commands reach the store through the host:  *)
(* the worker that observes the driver verifies the caller, applies the    *)
(* command and returns its result, and is interrupted between any two of   *)
(* these steps by its reminder deadline, after which the driver's journal  *)
(* offers the same command again.                                          *)
(*                                                                         *)
(* A participant has one operation, named by the participant.  Delivery of *)
(* a message is its acceptance-pending call and its outcome; order within  *)
(* a mailbox and the proofs of acceptance are the subject of Delivery.     *)
(***************************************************************************)
EXTENDS Naturals, Sequences, FiniteSets

-----------------------------------------------------------------------------
(***************************************************************************)
(* The authority algebra of navigator-domain: profiles, the five ceilings  *)
(* every effect of a participant is checked against, and grants.  A        *)
(* scoped capability is a record [cap, scope]; a scope is <<"session">>,   *)
(* <<"operation", p>> or <<"participant", p>>, p naming the participant    *)
(* (each has one operation).                                               *)
(***************************************************************************)
CONSTANTS
    Participants,   \* the participants of one session
    Capabilities    \* the capability names profiles and requests mention

(***************************************************************************)
(* The value of whatever does not exist: a row that is not there, an       *)
(* absent option.  A record of its own shape, so that it compares with any *)
(* record.                                                                 *)
(***************************************************************************)
Absent == [absent |-> TRUE]

Scopes == {<<"session">>} \cup ({"operation", "participant"} \X Participants)

Atoms == [cap : Capabilities, scope : Scopes]

\* An AuthorityProfile: what may be done, and what may be handed on.
Profiles == [active : SUBSET Atoms, delegable : SUBSET Atoms]

Ceilings == {"session", "parent", "template", "relationship", "subject"}

Atom(cap, kind, p) == [cap |-> cap, scope |-> <<kind, p>>]

SessionParent(a) ==
    IF a.scope[1] = "operation" THEN [a EXCEPT !.scope = <<"session">>] ELSE a

Permits(atoms, a) == {a, SessionParent(a)} \cap atoms # {}

AuthorizesChildCreation(pol, a) == \A c \in Ceilings : a \in pol[c].delegable

AuthorizesEffect(pol, a) ==
    /\ Permits(pol["parent"].delegable, a)
    /\ \A c \in Ceilings \ {"parent"} : Permits(pol[c].active, a)

(***************************************************************************)
(* A grant never widens authority: it is one more condition on an effect   *)
(* that names it.  A grant that does not exist is no condition at all.     *)
(***************************************************************************)
IsActive(g) == ~g.revoked /\ ~g.expired

GrantAdmits(g, p, a) ==
    g = Absent \/ (g.subject = p /\ g.atom = a /\ IsActive(g) /\ ~g.consumed)

(***************************************************************************)
(* A policy the store accepts: the subject's own profile fits under every  *)
(* ceiling.                                                                *)
(***************************************************************************)
FitsCeilings(pol) ==
    /\ \A a \in pol["subject"].active : AuthorizesEffect(pol, a)
    /\ \A a \in pol["subject"].delegable : AuthorizesChildCreation(pol, a)

(***************************************************************************)
(* The root has no parent; what its template makes active stands in for    *)
(* the missing parent ceiling.                                             *)
(***************************************************************************)
RootPolicy(profile) ==
    [c \in Ceilings |->
        IF c = "parent" THEN [active |-> profile.active, delegable |-> profile.active]
        ELSE profile]

\* A template's policy gives a child its template, relationship and subject
\* ceilings; the session ceiling is the parent's, and the parent ceiling is what
\* the parent itself may do and hand on.
ChildPolicy(par, tp) ==
    [c \in Ceilings |-> CASE c = "session" -> par["session"]
                          [] c = "parent"  -> par["subject"]
                          [] OTHER         -> tp[c]]

-----------------------------------------------------------------------------
(* The tree of participants. *)
CONSTANTS
    Root,            \* the session's root participant
    Scenarios,       \* the small instances
    MaxChildren,     \* MAX_DIRECT_CHILDREN
    MaxDepth,        \* MAX_PARTICIPANT_DEPTH
    MaxParticipants, \* MAX_SESSION_PARTICIPANTS
    MaxQueued,       \* MAX_MAILBOX_QUEUED_MESSAGES
    MaxOutcomes      \* MAX_MAILBOX_RESERVED_OUTCOMES, room kept for outcomes

\* An empty name: no parent, no grant, no answer yet, no operation to start.
NoName == ""

ASSUME RootAssumption == Root \in Participants /\ NoName \notin Participants

\* The limits on the tree; a session has room for its root.
ASSUME BoundsAssumption ==
    /\ IsFiniteSet(Participants)
    /\ MaxChildren \in Nat /\ MaxDepth \in Nat \ {0} /\ MaxParticipants \in Nat \ {0}

\* Commands come from participants and name participants.
ASSUME CommandAssumption ==
    \A s \in Scenarios : \A c \in s.commands : c.by \in Participants /\ c.to \in Participants

\* A template's ceilings are authority profiles.
ASSUME ProfileAssumption ==
    \A s \in Scenarios : \A t \in DOMAIN s.templates :
        {s.templates[t].template, s.templates[t].relationship, s.templates[t].subject} \subseteq Profiles

VARIABLES
    scenario,  \* templates, grants, commands and cancellations of the instance, and
               \* its bounds: MaxEpoch, MaxInterrupts, MaxCloses
    epoch,     \* the fencing epoch of the session's effective owner; 0 when it has none
    owner,     \* that owner: a host
    node,      \* participants: parent, template, depth, cancellation_requested
    tpolicy,   \* authority_template_policies
    policy,    \* authority_policies
    grant,     \* authority_grants
    op,        \* operations, by participant
    mail,      \* messages
    launch,    \* launch_attempts: the current one of each participant
    ledger,    \* requests: what was asked, in which epoch, and its outcome
    call,      \* each driver command on its way through the host
    sched,     \* each operation's worker: "no", "yes", or "launching" a driver
    cuts,      \* interrupted observations so far
    resumed    \* history: the questions whose answers resumed each operation

hvars == <<scenario, epoch, owner, node, tpolicy, policy, grant, op, mail, launch, ledger,
           call, sched, cuts, resumed>>

Terminal == {"succeeded", "failed", "cancelled", "blocked", "uncertain"}

MessageTerminal == {"accepted", "uncertain", "dead"}

\* The templates, grants and commands of the instance.
Commands == scenario.commands
Command(q) == CHOOSE c \in Commands : c.id = q
Requests == {x.id : x \in Commands \cup scenario.cancels \cup scenario.closes}
Grants == DOMAIN grant

Exists(p) == node[p] # Absent
Parent(p) == node[p].parent
HasParent(p) == Exists(p) /\ Parent(p) # NoName
Children(p) == {x \in Participants : Exists(x) /\ Parent(x) = p}
Live(p) == op[p] # Absent /\ op[p].st \notin Terminal

\* The sets a recursive walk down from p cannot leave.
ClosedBelow(p) ==
    {s \in SUBSET Participants : p \in s /\ \A x \in s : Children(x) \subseteq s}

\* The subtree of p: the least such set.
Subtree(p) == {x \in Participants : \A s \in ClosedBelow(p) : x \in s}

NoMail == <<>>
Mail(id) == CHOOSE m \in mail : m.id = id
Known(id) == \E m \in mail : m.id = id
InputOf(p) == <<"input", p>>
Queued(p, box) == {m \in box : m.to = p /\ m.st \notin MessageTerminal}

Message(id, kind, from, to, about, reply) ==
    [id |-> id, kind |-> kind, from |-> from, to |-> to, about |-> about,
     reply |-> reply, st |-> "queued"]

\* insert_hierarchy_message: refused when the id is taken or the mailbox full; an
\* outcome may also use the room reserved for outcomes.
Insertable(m, box) ==
    /\ \A x \in box : x.id # m.id
    /\ Cardinality(Queued(m.to, box))
         < MaxQueued + IF m.kind = "outcome" THEN MaxOutcomes ELSE 0

ReplaceMail(box, m, st) == (box \ {m}) \cup {[m EXCEPT !.st = st]}

(***************************************************************************)
(* Next state of an operation, of the two hierarchy effects that change    *)
(* one and of the driver's reports.                                        *)
(***************************************************************************)
Cancellable == {"queued", "starting", "running", "waiting"}

NextState(st, action) ==
    CASE action = "wait"      /\ st = "running"                            -> "waiting"
      [] action = "cancel"    /\ st \in Cancellable                        -> "cancelling"
      [] action = "cancelled" /\ st \in {"queued", "cancelling"}           -> "cancelled"
      [] action = "failed"    /\ st \in Cancellable \cup {"cancelling"}    -> "failed"
      [] action = "succeeded" /\ st = "running"                            -> "succeeded"
      [] action = "blocked"   /\ st \in {"running", "waiting"}             -> "blocked"
      [] action = "uncertain" /\ st \in (Cancellable \cup {"cancelling"})
                                            \ {"queued"}                   -> "uncertain"
      [] OTHER                                                             -> "none"

Moved(o, st, waits) == [st |-> st, rev |-> o.rev + 1, waits |-> waits]

(***************************************************************************)
(* The ledger.  An exact retry is answered from it.  The calling host is   *)
(* part of what is compared; the epoch is for a cancellation only.         *)
(***************************************************************************)
Recorded(q) == ledger[q] # Absent
Record(q, h, e, out) == ledger' = [ledger EXCEPT ![q] = [host |-> h, epoch |-> e, out |-> out]]
RecordCall(q, out) == Record(q, call[q].host, call[q].epoch, out)

Answer(q, out) == call' = [call EXCEPT ![q].st = "answered", ![q].out = out]
Break(q) == call' = [call EXCEPT ![q].st = "broken"]

-----------------------------------------------------------------------------
(***************************************************************************)
(* Authority: policies, grants and the checks effects pass.                *)
(***************************************************************************)
TemplateKnown(t) == t \in DOMAIN scenario.templates

\* register_authority_template_policy: written once, never changed.
RegisterTemplatePolicy(t) ==
    /\ epoch # 0
    /\ TemplateKnown(t)
    /\ tpolicy[t] = Absent
    /\ scenario.templates[t].parents # {}
    /\ tpolicy' = [tpolicy EXCEPT ![t] = scenario.templates[t]]
    /\ UNCHANGED <<scenario, epoch, owner, node, policy, grant, op, mail, launch, ledger, call,
                   sched, cuts, resumed>>

\* put_authority_policy, which the host calls for the root alone.
PutRootPolicy ==
    LET pol == RootPolicy(scenario.templates[node[Root].tmpl].subject)
    IN /\ epoch # 0
       /\ Exists(Root)
       /\ policy[Root] = Absent
       /\ FitsCeilings(pol)
       /\ policy' = [policy EXCEPT ![Root] = pol]
       /\ UNCHANGED <<scenario, epoch, owner, node, tpolicy, grant, op, mail, launch, ledger,
                      call, sched, cuts, resumed>>

IssueGrant(g) ==
    LET want == scenario.grants[g]
    IN /\ epoch # 0
       /\ grant[g] = Absent
       /\ policy[want.subject] # Absent
       /\ AuthorizesEffect(policy[want.subject], want.atom)
       /\ grant' = [grant EXCEPT ![g] =
                       [subject |-> want.subject, atom |-> want.atom, single |-> want.single,
                        revoked |-> FALSE, expired |-> FALSE, consumed |-> FALSE]]
       /\ UNCHANGED <<scenario, epoch, owner, node, tpolicy, policy, op, mail, launch, ledger,
                      call, sched, cuts, resumed>>

RevokeGrant(g) ==
    /\ epoch # 0
    /\ grant[g] # Absent
    /\ ~grant[g].revoked
    /\ grant' = [grant EXCEPT ![g].revoked = TRUE]
    /\ UNCHANGED <<scenario, epoch, owner, node, tpolicy, policy, op, mail, launch, ledger, call,
                   sched, cuts, resumed>>

\* The session's time floor passes the grant's expiry.
ExpireGrant(g) ==
    /\ grant[g] # Absent
    /\ ~grant[g].expired
    /\ grant' = [grant EXCEPT ![g].expired = TRUE]
    /\ UNCHANGED <<scenario, epoch, owner, node, tpolicy, policy, op, mail, launch, ledger, call,
                   sched, cuts, resumed>>

Named(g) == IF g = NoName THEN Absent ELSE grant[g]

Allows(p, a, g) ==
    /\ policy[p] # Absent
    /\ AuthorizesEffect(policy[p], a)
    /\ GrantAdmits(Named(g), p, a)

\* A single-use grant is consumed by the transaction it admits.
Spend(g) ==
    IF Named(g) = Absent THEN UNCHANGED grant
    ELSE grant' = [grant EXCEPT ![g].consumed = @ \/ grant[g].single]

-----------------------------------------------------------------------------
(***************************************************************************)
(* What each command asks for, and between whom it may pass.               *)
(***************************************************************************)
Required(c) ==
    CASE c.kind = "spawn"    -> Atom("participant.spawn", "participant", c.by)
      [] c.kind = "status"   -> Atom("participant.status", "participant", c.to)
      [] c.kind = "send"     -> Atom("message.send", "participant", c.to)
      [] c.kind = "cancel"   -> Atom("operation.cancel", "operation", c.to)
      [] c.kind = "resume"   -> Atom("operation.resume", "operation", c.to)
      [] c.kind = "question" -> Atom("message.question", "operation", c.by)
      [] c.kind = "check"    -> Atom("participant.spawn", "participant", c.by)

Direct(c) ==
    /\ Exists(c.to)
    /\ CASE c.kind \in {"cancel", "resume", "status"} -> Parent(c.to) = c.by
         [] c.kind = "question" -> Parent(c.by) = c.to
         [] c.kind = "send" ->
                c.to = c.by \/ Parent(c.to) = c.by \/ Parent(c.by) = c.to

\* The operation each effect is about must be in the state the effect needs.
OperationFits(c) ==
    CASE c.kind = "question" ->
            HasParent(c.by) /\ op[c.by] # Absent /\ op[c.by].st = "running"
                            /\ op[c.by].waits = NoMail
      [] c.kind \in {"send", "cancel"} -> Live(c.to)
      [] c.kind = "resume" ->
            op[c.to] # Absent /\ op[c.to].st = "waiting" /\ op[c.to].waits = <<"effect", c.reply>>

Changes(c) == c.kind \in {"question", "cancel"}
Changed(c) == IF c.kind = "question" THEN c.by ELSE c.to
ActionOf(c) == IF c.kind = "question" THEN "wait" ELSE "cancel"

EffectMessage(c) ==
    Message(<<"effect", c.id>>, c.kind, c.by, c.to, Changed(c),
            IF c.kind = "resume" THEN <<"effect", c.reply>> ELSE NoMail)

EffectAllowed(c) ==
    /\ Exists(c.by)
    /\ OperationFits(c)
    /\ Changes(c) => NextState(op[Changed(c)].st, ActionOf(c)) # "none"
    /\ Direct(c)
    /\ Allows(c.by, Required(c), c.grant)
    /\ Insertable(EffectMessage(c), mail)

Denied(c) ==
    /\ RecordCall(c.id, "denied")
    /\ IF c.kind = "question" THEN Break(c.id) ELSE Answer(c.id, "denied")
    /\ UNCHANGED <<scenario, epoch, owner, node, tpolicy, policy, grant, op, mail, launch, sched,
                   cuts, resumed>>

(***************************************************************************)
(* apply_hierarchy_effect: the message, the operation, the grant and the   *)
(* ledger entry commit together.  An allowed send, answer or cancellation  *)
(* is handed to the scheduler, which delivers the message.                 *)
(***************************************************************************)
ApplyEffect(c) ==
    /\ c.kind \in {"question", "send", "cancel", "resume"}
    /\ IF EffectAllowed(c)
       THEN /\ mail' = mail \cup {EffectMessage(c)}
            /\ op' = IF Changes(c)
                     THEN [op EXCEPT ![Changed(c)] =
                             Moved(@, NextState(@.st, ActionOf(c)),
                                   IF c.kind = "question" THEN <<"effect", c.id>> ELSE NoMail)]
                     ELSE op
            /\ Spend(c.grant)
            /\ RecordCall(c.id, "allowed")
            /\ Answer(c.id, "allowed")
            /\ UNCHANGED <<scenario, epoch, owner, node, tpolicy, policy, launch, sched, cuts,
                           resumed>>
       ELSE Denied(c)

\* authorized_status: what the target's operation was is kept with the answer.
ApplyStatus(c) ==
    LET out == IF Direct(c) /\ Allows(c.by, Required(c), NoName)
                  /\ op[c.to] # Absent
               THEN op[c.to].st ELSE "denied"
    IN /\ c.kind = "status"
       /\ RecordCall(c.id, out)
       /\ Answer(c.id, out)
       /\ UNCHANGED <<scenario, epoch, owner, node, tpolicy, policy, grant, op, mail, launch,
                      sched, cuts, resumed>>

\* check_authority_effect: an authority question with no other effect.
ApplyCheck(c) ==
    LET ok == Allows(c.by, Required(c), c.grant)
    IN /\ c.kind = "check"
       /\ IF ok THEN Spend(c.grant) ELSE UNCHANGED grant
       /\ RecordCall(c.id, IF ok THEN "allowed" ELSE "denied")
       /\ Answer(c.id, IF ok THEN "allowed" ELSE "denied")
       /\ UNCHANGED <<scenario, epoch, owner, node, tpolicy, policy, op, mail, launch, sched,
                      cuts, resumed>>

\* Mutant of ChildFits: the child's policy is not checked against its ceilings.
MutChildFits(c) ==
    /\ tpolicy[c.tmpl] # Absent
    /\ policy[c.by] # Absent
    /\ Exists(c.by)
    /\ node[c.by].depth < MaxDepth
    /\ node[c.by].tmpl \in tpolicy[c.tmpl].parents
    /\ c.tmpl \in scenario.allowed
    /\ ~Exists(c.to)
    /\ Cardinality(Children(c.by)) < MaxChildren
    /\ Cardinality({p \in Participants : Exists(p)}) < MaxParticipants

(***************************************************************************)
(* create_authorized_child.  The child's policy is made from its           *)
(* template's and its parent's, and must fit under its own ceilings.       *)
(***************************************************************************)
ChildFits(c) ==
    /\ tpolicy[c.tmpl] # Absent
    /\ policy[c.by] # Absent
    /\ FitsCeilings(ChildPolicy(policy[c.by], tpolicy[c.tmpl]))
    /\ Exists(c.by)
    /\ node[c.by].depth < MaxDepth
    /\ node[c.by].tmpl \in tpolicy[c.tmpl].parents
    /\ c.tmpl \in scenario.allowed
    /\ ~Exists(c.to)
    /\ Cardinality(Children(c.by)) < MaxChildren
    /\ Cardinality({p \in Participants : Exists(p)}) < MaxParticipants

CreateChild(c) ==
    /\ node' = [node EXCEPT ![c.to] =
                   [parent |-> c.by, tmpl |-> c.tmpl, depth |-> node[c.by].depth + 1,
                    tomb |-> FALSE]]
    /\ policy' = [policy EXCEPT ![c.to] = ChildPolicy(policy[c.by], tpolicy[c.tmpl])]
    /\ op' = [op EXCEPT ![c.to] = [st |-> "queued", rev |-> 1, waits |-> NoMail]]
    /\ mail' = mail \cup {Message(InputOf(c.to), "input", c.to, c.to, c.to, NoMail)}
    /\ Spend(c.grant)
    /\ RecordCall(c.id, "allowed")
    /\ Answer(c.id, "allowed")
    /\ UNCHANGED <<scenario, epoch, owner, tpolicy, launch, sched, cuts, resumed>>

\* A cancelled parent spawns nothing: the refusal is recorded as a failure.
RefuseSpawn(c) ==
    /\ RecordCall(c.id, "invalid")
    /\ Break(c.id)
    /\ UNCHANGED <<scenario, epoch, owner, node, tpolicy, policy, grant, op, mail, launch, sched,
                   cuts, resumed>>

\* Mutant of ApplySpawn: the parent's cancellation is not looked at.
MutApplySpawn(c) ==
    /\ c.kind = "spawn"
    /\ IF ChildFits(c) /\ Allows(c.by, Required(c), c.grant) THEN CreateChild(c) ELSE Denied(c)

ApplySpawn(c) ==
    /\ c.kind = "spawn"
    /\ IF Exists(c.by) /\ node[c.by].tomb THEN RefuseSpawn(c)
       ELSE IF ChildFits(c) /\ Allows(c.by, Required(c), c.grant) THEN CreateChild(c)
       ELSE Denied(c)

-----------------------------------------------------------------------------
(***************************************************************************)
(* A driver's command on its way through the host.  A worker handles the   *)
(* commands of its driver one at a time.                                   *)
(***************************************************************************)
InFlight == {"asked", "verified", "answered", "scheduled"}

Idle(p) == \A c \in Commands : c.by = p => call[c.id].st \notin InFlight

ReadyIn(p, e) == e # 0 /\ launch[p] = [epoch |-> e, st |-> "ready"]

Working(p) == op[p] # Absent /\ op[p].st \in {"running", "cancelling"}

Issue(c) ==
    /\ call[c.id].st = "new"
    /\ Idle(c.by)
    /\ Working(c.by)
    /\ ReadyIn(c.by, epoch)
    /\ c.kind = "resume" => Known(<<"effect", c.reply>>)
    /\ call' = [call EXCEPT ![c.id] = [st |-> "asked", out |-> NoName, epoch |-> epoch, host |-> owner]]
    /\ UNCHANGED <<scenario, epoch, owner, node, tpolicy, policy, grant, op, mail, launch, ledger,
                   sched, cuts, resumed>>

\* verify_caller: the caller's launch is ready in the epoch the session has now.
Verify(c) ==
    /\ call[c.id].st = "asked"
    /\ IF epoch = call[c.id].epoch /\ ReadyIn(c.by, call[c.id].epoch)
       THEN call' = [call EXCEPT ![c.id].st = "verified"]
       ELSE Break(c.id)
    /\ UNCHANGED <<scenario, epoch, owner, node, tpolicy, policy, grant, op, mail, launch, ledger,
                   sched, cuts, resumed>>

(***************************************************************************)
(* An exact retry.  A stored effect is answered only while its message is  *)
(* what it was when it was stored; a stored failure fails again; the same  *)
(* request from another host is another request.                           *)
(***************************************************************************)
Unmoved(c) ==
    c.kind \in {"question", "send", "cancel", "resume"} =>
        Mail(<<"effect", c.id>>).st = "queued"

Replay(c) ==
    LET out == ledger[c.id].out
    IN /\ CASE ledger[c.id].host # call[c.id].host        -> Break(c.id)
            [] out = "invalid"                            -> Break(c.id)
            [] out = "denied" /\ c.kind = "question"      -> Break(c.id)
            [] out = "allowed" /\ ~Unmoved(c)             -> Break(c.id)
            [] OTHER                                      -> Answer(c.id, out)
       /\ UNCHANGED <<scenario, epoch, owner, node, tpolicy, policy, grant, op, mail, launch,
                      ledger, sched, cuts, resumed>>

\* A caller whose ownership is gone is refused, and the refusal is recorded; a
\* status is denied, and nothing is recorded.
RefuseStale(c) ==
    /\ IF c.kind = "status" THEN Answer(c.id, "denied") /\ UNCHANGED ledger
       ELSE RecordCall(c.id, "invalid") /\ Break(c.id)
    /\ UNCHANGED <<scenario, epoch, owner, node, tpolicy, policy, grant, op, mail, launch, sched,
                   cuts, resumed>>

Fresh(c) == ApplySpawn(c) \/ ApplyEffect(c) \/ ApplyStatus(c) \/ ApplyCheck(c)

Apply(c) ==
    /\ call[c.id].st = "verified"
    /\ IF Recorded(c.id) THEN Replay(c)
       ELSE IF epoch # call[c.id].epoch THEN RefuseStale(c)
       ELSE Fresh(c)

\* What was allowed is handed to the scheduler before the driver hears of it.
Schedule(c) ==
    /\ call[c.id].st = "answered"
    /\ call' = [call EXCEPT ![c.id].st = "scheduled"]
    /\ sched' = IF c.kind = "spawn" /\ call[c.id].out = "allowed"
                THEN [sched EXCEPT ![c.to] = IF @ = "no" THEN "yes" ELSE @] ELSE sched
    /\ UNCHANGED <<scenario, epoch, owner, node, tpolicy, policy, grant, op, mail, launch, ledger,
                   cuts, resumed>>

Ack(c) ==
    /\ call[c.id].st = "scheduled"
    /\ call' = [call EXCEPT ![c.id].st = "done"]
    /\ UNCHANGED <<scenario, epoch, owner, node, tpolicy, policy, grant, op, mail, launch, ledger,
                   sched, cuts, resumed>>

\* The reminder deadline drops the observation; the next one reads the same event.
Interrupt(c) ==
    /\ call[c.id].st \in InFlight \ {"asked"}
    /\ cuts < scenario.MaxInterrupts
    /\ cuts' = cuts + 1
    /\ call' = [call EXCEPT ![c.id].st = "asked", ![c.id].out = NoName]
    /\ UNCHANGED <<scenario, epoch, owner, node, tpolicy, policy, grant, op, mail, launch, ledger,
                   sched, resumed>>

-----------------------------------------------------------------------------
(***************************************************************************)
(* Operations, their drivers and their mail.                               *)
(***************************************************************************)
Begin(p) ==
    /\ epoch # 0
    /\ op[p] # Absent /\ op[p].st = "queued"
    /\ sched[p] = "yes"
    /\ op' = [op EXCEPT ![p] = Moved(@, "starting", NoMail)]
    /\ UNCHANGED <<scenario, epoch, owner, node, tpolicy, policy, grant, mail, launch, ledger, call,
                   sched, cuts, resumed>>

\* The worker found its operation unfinished and is about to launch a driver.
EnsureReady(p) ==
    /\ epoch # 0
    /\ Live(p) /\ op[p].st # "queued"
    /\ sched[p] = "yes"
    /\ ~node[p].tomb
    /\ launch[p] # Absent => launch[p].st = "stopped"
    /\ sched' = [sched EXCEPT ![p] = "launching"]
    /\ UNCHANGED <<scenario, epoch, owner, node, tpolicy, policy, grant, op, mail, launch, ledger,
                   call, cuts, resumed>>

\* Mutant of PrepareLaunch: a cancelled participant's launch is prepared.
MutPrepareLaunch(p) ==
    /\ sched[p] = "launching"
    /\ launch' = IF epoch = 0 THEN launch
                 ELSE [launch EXCEPT ![p] = [epoch |-> epoch, st |-> "prepared"]]
    /\ sched' = [sched EXCEPT ![p] = "yes"]
    /\ UNCHANGED <<scenario, epoch, owner, node, tpolicy, policy, grant, op, mail, ledger, call,
                   cuts, resumed>>

\* prepare_launch reads no operation; it refuses a participant whose cancellation
\* was requested in the meantime.
PrepareLaunch(p) ==
    /\ sched[p] = "launching"
    /\ launch' = IF epoch = 0 \/ node[p].tomb THEN launch
                 ELSE [launch EXCEPT ![p] = [epoch |-> epoch, st |-> "prepared"]]
    /\ sched' = [sched EXCEPT ![p] = "yes"]
    /\ UNCHANGED <<scenario, epoch, owner, node, tpolicy, policy, grant, op, mail, ledger, call,
                   cuts, resumed>>

LaunchReady(p) ==
    /\ epoch # 0
    /\ launch[p] = [epoch |-> epoch, st |-> "prepared"]
    /\ launch' = [launch EXCEPT ![p].st = "ready"]
    /\ UNCHANGED <<scenario, epoch, owner, node, tpolicy, policy, grant, op, mail, ledger, call,
                   sched, cuts, resumed>>

\* A driver stops when its operation is over, its epoch is, or it never got ready.
StopLaunch(p) ==
    /\ launch[p] # Absent /\ launch[p].st # "stopped"
    /\ \/ ~Live(p)
       \/ launch[p].epoch # epoch
       \/ launch[p].st = "prepared"
    /\ launch' = [launch EXCEPT ![p].st = "stopped"]
    /\ UNCHANGED <<scenario, epoch, owner, node, tpolicy, policy, grant, op, mail, ledger, call,
                   sched, cuts, resumed>>

\* The mail of a participant with unfinished work goes to its ready driver.
Pend(m) ==
    /\ m.st \in {"queued", "retry"}
    /\ Live(m.to)
    /\ ReadyIn(m.to, epoch)
    /\ mail' = ReplaceMail(mail, m, "pending")
    /\ UNCHANGED <<scenario, epoch, owner, node, tpolicy, policy, grant, op, launch, ledger, call,
                   sched, cuts, resumed>>

Retry(m) ==
    /\ m.st = "pending"
    /\ epoch # 0
    /\ cuts < scenario.MaxInterrupts
    /\ cuts' = cuts + 1
    /\ mail' = ReplaceMail(mail, m, "retry")
    /\ UNCHANGED <<scenario, epoch, owner, node, tpolicy, policy, grant, op, launch, ledger, call,
                   sched, resumed>>

\* Mutant of Resumes: what the operation waits on is not looked at.
MutResumes(m) == m.kind = "resume"

\* An accepted answer resumes the operation that is waiting on its question.
Resumes(m) ==
    /\ m.kind = "resume"
    /\ op[m.to].st = "waiting"
    /\ op[m.to].waits = m.reply

Accept(m) ==
    /\ m.st = "pending"
    /\ epoch # 0
    /\ mail' = ReplaceMail(mail, m, "accepted")
    /\ IF Resumes(m)
       THEN /\ op' = [op EXCEPT ![m.to] = Moved(@, "running", NoMail)]
            /\ resumed' = Append(resumed, m.reply)
       ELSE UNCHANGED <<op, resumed>>
    /\ UNCHANGED <<scenario, epoch, owner, node, tpolicy, policy, grant, launch, ledger, call, sched,
                   cuts>>

InputAccepted(p) == \E m \in mail : m.id = InputOf(p) /\ m.st = "accepted"

Run(p) ==
    /\ epoch # 0
    /\ op[p] # Absent /\ op[p].st = "starting"
    /\ InputAccepted(p)
    /\ op' = [op EXCEPT ![p] = Moved(@, "running", NoMail)]
    /\ UNCHANGED <<scenario, epoch, owner, node, tpolicy, policy, grant, mail, launch, ledger, call,
                   sched, cuts, resumed>>

(***************************************************************************)
(* The end of an operation.  A report names an accepted message about the  *)
(* operation, or nothing when it never ran.  Mail about the operation      *)
(* still on its way to it is retired, and the parent's unfinished          *)
(* operation is told.                                                      *)
(***************************************************************************)
Correlated(p, action) ==
    \/ action \in {"failed", "uncertain"} /\ op[p].st \in {"queued", "starting"}
    \/ \E m \in mail : m.to = p /\ m.about = p /\ m.st = "accepted"

\* Who reports: the worker's deadline at any time, a broken command or delivery
\* as uncertain, and everything else the driver, between two commands.
Reported(p, action) ==
    CASE action = "failed"    -> TRUE
      [] action = "uncertain" -> op[p].st = "starting"
                                 \/ \E c \in Commands : c.by = p /\ call[c.id].st = "broken"
      [] OTHER                -> Idle(p) /\ ReadyIn(p, epoch)

RetireCorrelated(p, box) ==
    {IF m.to = p /\ m.about = p /\ m.st \notin MessageTerminal
     THEN [m EXCEPT !.st = IF m.st = "pending" THEN "uncertain" ELSE "dead"] ELSE m : m \in box}

OutcomeMail(p, box) ==
    LET m == Message(<<"outcome", p>>, "outcome", p, Parent(p), Parent(p), NoMail)
    IN IF /\ Live(Parent(p))
          /\ policy[p] # Absent
          /\ AuthorizesEffect(policy[p], Atom("message.outcome", "operation", p))
          /\ Insertable(m, box)
       THEN {m} ELSE {}

\* The observation that is under way ends with its worker.
DropCalls(p) ==
    call' = [q \in DOMAIN call |->
                IF call[q].st \in InFlight /\ \E c \in Commands : c.id = q /\ c.by = p
                THEN [call[q] EXCEPT !.st = "broken"] ELSE call[q]]

Finish(p, action) ==
    /\ epoch # 0
    /\ Live(p) /\ sched[p] = "yes"
    /\ NextState(op[p].st, action) \in Terminal
    /\ Correlated(p, action)
    /\ Reported(p, action)
    /\ op' = [op EXCEPT ![p] = Moved(@, NextState(@.st, action), NoMail)]
    /\ LET box == RetireCorrelated(p, mail)
       IN mail' = box \cup (IF HasParent(p) THEN OutcomeMail(p, box) ELSE {})
    /\ DropCalls(p)
    /\ UNCHANGED <<scenario, epoch, owner, node, tpolicy, policy, grant, launch, ledger, sched, cuts,
                   resumed>>

-----------------------------------------------------------------------------
(***************************************************************************)
(* cancel_subtree: every participant of the subtree is marked, an          *)
(* operation no driver has seen is cancelled at once, and any other is     *)
(* told to cancel.  All of it is one transaction; one notification that    *)
(* does not fit aborts it.                                                 *)
(***************************************************************************)
Unseen(p) == op[p].st = "queued" \/ (op[p].st = "starting" /\ launch[p] = Absent)

CancelMail(p) == {m \in mail : m.to = p /\ m.about = p /\ m.kind = "cancel"}

Stopped(below) == {p \in below : Live(p) /\ op[p].st # "cancelling"}

StopMail(k, p) == Message(<<"stop", k.id, p>>, "cancel", p, p, p, NoMail)

CancelSubtree(k) ==
    LET below == {p \in Subtree(k.root) : Exists(p)}
        told  == {p \in Stopped(below) : ~Unseen(p)}
    IN /\ epoch # 0
       /\ ~Recorded(k.id)
       /\ Exists(k.root)
       /\ \A p \in told : Insertable(StopMail(k, p), mail)
       /\ node' = [p \in Participants |->
                      IF p \in below THEN [node[p] EXCEPT !.tomb = TRUE] ELSE node[p]]
       /\ op' = [p \in Participants |->
                    IF p \in Stopped(below)
                    THEN Moved(op[p], IF p \in told THEN "cancelling" ELSE "cancelled", NoMail)
                    ELSE op[p]]
       /\ mail' = mail \cup {StopMail(k, p) : p \in told}
       /\ Record(k.id, owner, epoch, "allowed")
       /\ UNCHANGED <<scenario, epoch, owner, tpolicy, policy, grant, launch, call, sched, cuts,
                      resumed>>

-----------------------------------------------------------------------------
(***************************************************************************)
(* start_operation for the root, which open_session gave its policy, and   *)
(* another host taking the session over.                                   *)
(***************************************************************************)
\* The service starts operations of the root only, in a session this host owns.
PrepareOperation(p) ==
    /\ scenario.start = p
    /\ p = Root
    /\ epoch # 0
    /\ policy[p] # Absent

\* The store's conditions: nobody cancelled the participant, it is not working, and
\* its mailbox has room for the input.
StartAllowed(p) ==
    /\ Exists(p) /\ ~node[p].tomb
    /\ ~Live(p)
    /\ Insertable(Message(InputOf(p), "input", p, p, p, NoMail), mail)

\* Bound: the operation of a participant is its first and only one.
OneOperation(p) == op[p] = Absent

StartOperation(p) ==
    /\ PrepareOperation(p)
    /\ StartAllowed(p)
    /\ OneOperation(p)
    /\ op' = [op EXCEPT ![p] = [st |-> "queued", rev |-> 1, waits |-> NoMail]]
    /\ mail' = mail \cup {Message(InputOf(p), "input", p, p, p, NoMail)}
    /\ sched' = [sched EXCEPT ![p] = "yes"]
    /\ UNCHANGED <<scenario, epoch, owner, node, tpolicy, policy, grant, launch, ledger, call, cuts,
                   resumed>>

\* What the store demands of the participants whenever it is opened: a tree of
\* bounded depth and width.
AuditTopology ==
    /\ \A p \in Participants : Exists(p) =>
          /\ node[p].depth \in 1..MaxDepth
          /\ IF Parent(p) = NoName THEN node[p].depth = 1
             ELSE Exists(Parent(p)) /\ node[p].depth = node[Parent(p)].depth + 1
          /\ Cardinality(Children(p)) <= MaxChildren
    /\ Cardinality({p \in Participants : Exists(p)}) <= MaxParticipants

\* ... and of the operations: one that waits, and no other, waits on a message.
AuditWaiting ==
    \A p \in Participants : op[p] # Absent => (op[p].st = "waiting" <=> op[p].waits # NoMail)

\* The other host opens the store first.
Takeover(h) ==
    /\ epoch # 0
    /\ AuditTopology /\ AuditWaiting
    /\ epoch < scenario.MaxEpoch
    /\ epoch' = epoch + 1
    /\ owner' = h
    /\ sched' = [p \in Participants |-> "no"]
    /\ UNCHANGED <<scenario, node, tpolicy, policy, grant, op, mail, launch, ledger, call, cuts,
                   resumed>>

\* The new owner schedules what it found unfinished.
ResumeExisting(p) ==
    /\ epoch > 1
    /\ Live(p) /\ sched[p] = "no"
    /\ sched' = [sched EXCEPT ![p] = "yes"]
    /\ UNCHANGED <<scenario, epoch, owner, node, tpolicy, policy, grant, op, mail, launch, ledger,
                   call, cuts, resumed>>

\* The driver's journal offers what was not acknowledged to the new owner.
Reoffer(c) ==
    /\ call[c.id].st \in InFlight
    /\ call[c.id].epoch # epoch
    /\ Working(c.by)
    /\ ReadyIn(c.by, epoch)
    /\ call' = [call EXCEPT ![c.id] = [st |-> "asked", out |-> NoName, epoch |-> epoch, host |-> owner]]
    /\ UNCHANGED <<scenario, epoch, owner, node, tpolicy, policy, grant, op, mail, launch, ledger,
                   sched, cuts, resumed>>

-----------------------------------------------------------------------------
HierarchyInit ==
    /\ scenario \in Scenarios
    /\ epoch = 1
    /\ owner = 1
    /\ node = [p \in Participants |->
                  IF p = Root THEN [parent |-> NoName, tmpl |-> scenario.roottmpl, depth |-> 1,
                                    tomb |-> FALSE]
                  ELSE Absent]
    /\ tpolicy = [t \in DOMAIN scenario.templates |->
                     IF scenario.start = NoName /\ scenario.templates[t].parents # {}
                     THEN scenario.templates[t] ELSE Absent]
    /\ policy = [p \in Participants |->
                    IF p = Root /\ scenario.start = NoName
                    THEN RootPolicy(scenario.templates[scenario.roottmpl].subject) ELSE Absent]
    /\ grant = [g \in DOMAIN scenario.grants |-> Absent]
    /\ op = [p \in Participants |->
                IF p = Root /\ scenario.start = NoName THEN [st |-> "running", rev |-> 3, waits |-> NoMail]
                ELSE Absent]
    /\ mail = IF scenario.start = NoName
              THEN {[Message(InputOf(Root), "input", Root, Root, Root, NoMail) EXCEPT !.st = "accepted"]}
              ELSE {}
    /\ launch = [p \in Participants |->
                    IF p = Root /\ scenario.start = NoName THEN [epoch |-> 1, st |-> "ready"] ELSE Absent]
    /\ ledger = [q \in Requests |-> Absent]
    /\ call = [q \in {c.id : c \in Commands} |-> [st |-> "new", out |-> NoName, epoch |-> 0, host |-> 0]]
    /\ sched = [p \in Participants |-> IF p = Root /\ scenario.start = NoName THEN "yes" ELSE "no"]
    /\ cuts = 0
    /\ resumed = <<>>

HierarchyNext ==
    \/ \E t \in DOMAIN tpolicy : RegisterTemplatePolicy(t)
    \/ PutRootPolicy
    \/ \E g \in Grants : IssueGrant(g) \/ RevokeGrant(g) \/ ExpireGrant(g)
    \/ \E c \in Commands : \/ Issue(c) \/ Verify(c) \/ Apply(c) \/ Schedule(c) \/ Ack(c)
                           \/ Interrupt(c) \/ Reoffer(c)
    \/ \E p \in Participants : \/ Begin(p) \/ EnsureReady(p) \/ PrepareLaunch(p) \/ LaunchReady(p)
                                \/ StopLaunch(p) \/ Run(p) \/ ResumeExisting(p)
                                \/ StartOperation(p)
    \/ \E p \in Participants, a \in Terminal : Finish(p, a)
    \/ \E m \in mail : Pend(m) \/ Retry(m) \/ Accept(m)
    \/ \E k \in scenario.cancels : CancelSubtree(k)
    \/ \E h \in {1, 2} : Takeover(h)

-----------------------------------------------------------------------------
(***************************************************************************)
(* Delegation only narrows.  Whatever chain of spawns made a participant,  *)
(* what it may hand on its parent may hand on, what it may do its parent   *)
(* may hand on, and nobody may hand on what the root may not               *)
(* (create_authorized_child, put_authority_policy).  The chains are those  *)
(* of a tree within the limits the store is opened with.                   *)
(***************************************************************************)
DelegationNarrows ==
    /\ \A p \in Participants : HasParent(p) =>
          /\ policy[p]["subject"].delegable \subseteq policy[Parent(p)]["subject"].delegable
          /\ \A a \in policy[p]["subject"].active :
                Permits(policy[Parent(p)]["subject"].delegable, a)
          /\ policy[p]["subject"].delegable \subseteq policy[Root]["subject"].delegable
    /\ AuditTopology

(***************************************************************************)
(* Nothing starts under a cancelled participant: all below it are          *)
(* cancelled too, and their operations are ending or over.  A spawn that   *)
(* was verified before the cancellation commits after it, or a worker      *)
(* begins an operation it loaded before (cancel_subtree,                   *)
(* create_authorized_child, start_operation).                              *)
(***************************************************************************)
NoWorkUnderTombstone ==
    \A p \in Participants : Exists(p) /\ node[p].tomb =>
        /\ \A x \in Children(p) : node[x].tomb
        /\ op[p] # Absent => op[p].st \in Terminal \cup {"cancelling"}

(***************************************************************************)
(* An answer resumes the operation that waits on its question and no       *)
(* other: a second answer to an old question never resumes an operation    *)
(* that has asked another since (transition_message_delivery).  Whatever   *)
(* ended or cancelled the wait, an operation names a question exactly      *)
(* while it waits.                                                         *)
(***************************************************************************)
OneResumePerQuestion ==
    /\ \A i, j \in DOMAIN resumed : resumed[i] = resumed[j] => i = j
    /\ AuditWaiting
=============================================================================
