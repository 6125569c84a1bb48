------------------------------- MODULE Mailbox -------------------------------
(***************************************************************************)
(* The durable mailbox of one participant (MailboxStore of the SQLite      *)
(* store): its message rows, its counters and the transactions over them.  *)
(* A transaction is one action.  The session's ownership is the pair owner *)
(* and epoch, the abstraction FencedLease that SessionOwnership is shown   *)
(* to implement; a transaction refused by it changes no row and is left    *)
(* out.  Time is the flag `lapsed' of a row: whether the session's time    *)
(* floor has reached the row's expires_at or not_before.  The floor never  *)
(* moves back, so the flag is only cleared by a new deadline.              *)
(***************************************************************************)
EXTENDS Naturals, FiniteSets

CONSTANTS
  Hosts, NoHost,        \* host processes, and no host
  Instances, NoInstance,\* driver instances, each with its launch attempt
  Messages,             \* the messages sent to the participant
  Controls,             \* those whose kind has control priority (priority_for)
  Correlated,           \* those correlated with the participant's operation
  MaxAttempts,          \* MAX_DELIVERY_ATTEMPTS
  MaxQueued,            \* MAX_MAILBOX_QUEUED_MESSAGES
  Scenarios             \* bounds: see scenario

ASSUME MailboxAssumption ==
  /\ NoHost \notin Hosts
  /\ NoInstance \notin Instances
  /\ Controls \subseteq Messages
  /\ Correlated \subseteq Messages
  /\ IsFiniteSet(Messages)
  /\ MaxAttempts \in Nat \ {0}
  /\ MaxQueued \in Nat
  /\ \A s \in Scenarios :
       s.hosts \subseteq Hosts /\ s.instances \subseteq Instances
         /\ s.messages \subseteq Messages /\ s.epochs \in Nat

VARIABLES
  scenario,      \* who takes part and how often ownership may change, fixed at
                 \* the start: TLC explores several small instances in one run
  owner, epoch,  \* the session's tenure: its effective owner and fencing epoch
  launch,        \* launch_attempts: the epoch and state of each instance
  msgs,          \* the rows of the table messages
  nextSeq,       \* mailbox_counters.next_sequence
  queued,        \* mailbox_counters.queued_messages
  opDone         \* the participant's operation is terminal

mailbox == <<owner, epoch, launch, msgs, nextSeq, queued, opDone>>

InDoubtStates == {"pending", "unknown"}          \* AcceptancePending, AcceptanceUnknown
LeaseStates == {"leased"} \cup InDoubtStates
TerminalStates == {"accepted", "uncertain", "dead"}
OpenStates == {"queued", "retry"} \cup LeaseStates

\* `holder', `tenure' and `inst' are the DeliveryLease; its attempt_id is the
\* number of attempts made, since each lease that starts an attempt makes one.
Rows ==
  [state : {"absent"} \cup OpenStates \cup TerminalStates,
   seq : Nat, rev : Nat, attempts : Nat,
   holder : Hosts \cup {NoHost}, tenure : Nat, inst : Instances \cup {NoInstance},
   lapsed : BOOLEAN,
   decodable : BOOLEAN]

AbsentMessage ==
  [state |-> "absent", seq |-> 0, rev |-> 0, attempts |-> 0,
   holder |-> NoHost, tenure |-> 0, inst |-> NoInstance,
   lapsed |-> FALSE, decodable |-> TRUE]

\* The row in a state that has no lease, with the next revision.
Released(row, state) ==
  [row EXCEPT !.state = state, !.rev = @ + 1,
              !.holder = NoHost, !.tenure = 0, !.inst = NoInstance, !.lapsed = FALSE]

Open(m) == msgs[m].state \in OpenStates
Terminal(m) == msgs[m].state \in TerminalStates
InDoubt(m) == msgs[m].state \in InDoubtStates
Leased(m) == msgs[m].state \in LeaseStates

MailboxInit ==
  /\ scenario \in Scenarios
  /\ owner = NoHost
  /\ epoch = 0
  /\ launch = [i \in Instances |-> [epoch |-> 0, state |-> "none"]]
  /\ msgs = [m \in Messages |-> AbsentMessage]
  /\ nextSeq = 1
  /\ queued = 0
  /\ opDone = FALSE

-----------------------------------------------------------------------------
(* The session's tenure and the launches, as far as the mailbox reads them. *)

\* authorize_launch: the caller owns the session under the epoch it names.
Authorized(h, e) == owner = h /\ epoch = e

Expire ==
  /\ owner # NoHost
  /\ epoch < scenario.epochs
  /\ owner' = NoHost
  /\ UNCHANGED <<epoch, launch, msgs, nextSeq, queued, opDone>>

AcquireOwnership(h) ==
  /\ owner = NoHost
  /\ owner' = h
  /\ epoch' = epoch + 1
  /\ UNCHANGED <<launch, msgs, nextSeq, queued, opDone>>

\* The owner brings an instance to Ready under its epoch, at most one at a time.
LaunchReady(h, i) ==
  /\ owner = h
  /\ launch[i].state = "none"
  /\ \A j \in Instances : ~(launch[j].state = "ready" /\ launch[j].epoch = epoch)
  /\ launch' = [launch EXCEPT ![i] = [epoch |-> epoch, state |-> "ready"]]
  /\ UNCHANGED <<owner, epoch, msgs, nextSeq, queued, opDone>>

LaunchStopped(h, i) ==
  /\ owner = h
  /\ launch[i].state = "ready"
  /\ launch' = [launch EXCEPT ![i].state = "stopped"]
  /\ UNCHANGED <<owner, epoch, msgs, nextSeq, queued, opDone>>

-----------------------------------------------------------------------------
(* enqueue_message and the enqueuing half of start_operation.                *)

\* What the message says of its operation must be so: an operation input belongs
\* to an operation that has just been created, a question to one that waits on it,
\* while a control message may name an operation that has ended.
Correlates(m) == opDone => m \notin Correlated \/ m \in Controls

\* The quota refuses a full mailbox.
HasRoom == queued + 1 <= MaxQueued

\* The sequence is the mailbox's counter.
Enqueue(h, m) ==
  /\ owner = h
  /\ msgs[m].state = "absent"
  /\ Correlates(m)
  /\ HasRoom
  /\ msgs' = [msgs EXCEPT ![m] = [AbsentMessage EXCEPT
                 !.state = "queued", !.seq = nextSeq, !.rev = 1]]
  /\ nextSeq' = nextSeq + 1
  /\ queued' = queued + 1
  /\ UNCHANGED <<owner, epoch, launch, opDone>>

\* Time passes the deadline of a lease or of a scheduled retry.
Lapse(m) ==
  /\ msgs[m].state \in LeaseStates \cup {"retry"}
  /\ ~msgs[m].lapsed
  /\ msgs' = [msgs EXCEPT ![m].lapsed = TRUE]
  /\ UNCHANGED <<owner, epoch, launch, nextSeq, queued, opDone>>

\* retire_correlated_messages, in the transaction that ends the operation.
RetiredState(m) == IF InDoubt(m) THEN "uncertain" ELSE "dead"

Retire(h) ==
  /\ owner = h
  /\ ~opDone
  /\ LET retired == {m \in Correlated : Open(m)}
     IN  /\ \A m \in retired : msgs[m].decodable
         /\ msgs' = [m \in Messages |-> IF m \in retired
                       THEN Released(msgs[m], RetiredState(m))
                       ELSE msgs[m]]
         /\ queued' = queued - Cardinality(retired)
  /\ opDone' = TRUE
  /\ UNCHANGED <<owner, epoch, launch, nextSeq>>

-----------------------------------------------------------------------------
(* lease_next_message.  The rows are read in the order (priority, sequence). *)

Before(m, n) ==
  \/ m \in Controls /\ n \notin Controls
  \/ (m \in Controls <=> n \in Controls) /\ msgs[m].seq < msgs[n].seq

FirstOf(S) == {m \in S : \A n \in S \ {m} : Before(m, n)}

MutRecoverable == FirstOf({m \in Messages : msgs[m].state = "unknown" /\ msgs[m].lapsed})

\* A delivery in doubt whose lease has lapsed is reconciled before anything else.
Recoverable == FirstOf({m \in Messages : InDoubt(m) /\ msgs[m].lapsed})

ActiveLease == \E m \in Messages : Leased(m) /\ ~msgs[m].lapsed

Eligible(m) ==
  \/ msgs[m].state = "queued"
  \/ msgs[m].state = "retry" /\ msgs[m].lapsed
  \/ msgs[m].state = "leased" /\ msgs[m].lapsed

MutFirstOpen == FirstOf({m \in Messages : Open(m) /\ Eligible(m)})

FirstOpen == FirstOf({m \in Messages : Open(m)})

Selected ==
  IF Recoverable # {} THEN Recoverable
  ELSE IF ActiveLease THEN {}
  ELSE {m \in FirstOpen : Eligible(m)}

\* Reading the mailbox decodes every row, and one invalid row fails them all.
MailboxReadable == \A m \in Messages : msgs[m].decodable

\* A reconciled lease passes to the caller; attempt and instance stay.
LeaseRecovery(h, e, m) ==
  /\ Authorized(h, e)
  /\ MailboxReadable
  /\ m \in Selected
  /\ InDoubt(m)
  /\ msgs' = [msgs EXCEPT ![m].holder = h, ![m].tenure = e,
                          ![m].lapsed = FALSE, ![m].rev = @ + 1]
  /\ UNCHANGED <<owner, epoch, launch, nextSeq, queued, opDone>>

InstanceValid(i, e) == launch[i].state = "ready" /\ launch[i].epoch = e

LeaseExhausted(h, e, m, i) ==
  /\ Authorized(h, e)
  /\ MailboxReadable
  /\ m \in Selected
  /\ ~InDoubt(m)
  /\ InstanceValid(i, e)
  /\ msgs[m].attempts >= MaxAttempts
  /\ msgs' = [msgs EXCEPT ![m] = Released(@, "dead")]
  /\ queued' = queued - 1
  /\ UNCHANGED <<owner, epoch, launch, nextSeq, opDone>>

LeaseFresh(h, e, m, i) ==
  /\ Authorized(h, e)
  /\ MailboxReadable
  /\ m \in Selected
  /\ ~InDoubt(m)
  /\ InstanceValid(i, e)
  /\ msgs[m].attempts < MaxAttempts
  /\ msgs' = [msgs EXCEPT ![m] = [msgs[m] EXCEPT
                 !.state = "leased", !.attempts = @ + 1, !.rev = @ + 1,
                 !.holder = h, !.tenure = e, !.inst = i, !.lapsed = FALSE]]
  /\ UNCHANGED <<owner, epoch, launch, nextSeq, queued, opDone>>

-----------------------------------------------------------------------------
(* transition_message_delivery(h, e, m, attempt, expected revision, new).   *)

\* The caller must hold the row's lease; only a lease that has not been used
\* yet (Leased) must also be unexpired.
HoldsLease(h, e, m, attempt) ==
  /\ Leased(m)
  /\ msgs[m].attempts = attempt
  /\ msgs[m].holder = h
  /\ msgs[m].tenure = e
  /\ msgs[m].state = "leased" => ~msgs[m].lapsed

TransitionAllowed(h, e, m, attempt, rev) ==
  /\ Authorized(h, e)
  /\ msgs[m].decodable
  /\ msgs[m].rev = rev
  /\ ~Terminal(m)
  /\ HoldsLease(h, e, m, attempt)

ValidTransition(old, new) ==
  \/ new = "pending" /\ old = "leased"
  \/ new = "unknown" /\ old = "pending"
  \/ new \in {"retry", "accepted", "uncertain"} /\ old \in InDoubtStates
  \/ new = "dead"

\* The row's updated_at becomes the floor, so a row that keeps a lapsed lease
\* fails MessageSnapshot::is_structurally_valid when it is next decoded.
Transition(h, e, m, attempt, rev, new) ==
  /\ TransitionAllowed(h, e, m, attempt, rev)
  /\ ValidTransition(msgs[m].state, new)
  /\ msgs' = [msgs EXCEPT ![m] = IF new \in LeaseStates
       THEN [msgs[m] EXCEPT !.state = new, !.rev = @ + 1, !.decodable = ~msgs[m].lapsed]
       ELSE Released(@, new)]
  /\ queued' = IF new \in TerminalStates THEN queued - 1 ELSE queued
  /\ UNCHANGED <<owner, epoch, launch, nextSeq, opDone>>
=============================================================================
