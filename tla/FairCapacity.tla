---------------------------- MODULE FairCapacity ----------------------------
(***************************************************************************)
(* The execution permits that a host's operation workers compete for       *)
(* (FairCapacity in navigator-core).  A worker takes a permit at once when *)
(* one is free and nobody waits; otherwise it queues a oneshot sender      *)
(* under its campaign, the root of its participant's subtree.  Dropping a  *)
(* permit hands it to the next campaign in key order.  The handing over    *)
(* runs under the mutex: `serving' is set while a release is in its loop.  *)
(***************************************************************************)
EXTENDS Naturals, Sequences, FiniteSets

CONSTANTS
  Tasks,          \* worker tasks; a slot is reused by a later worker
  Campaigns,      \* the campaigns' ids, in the order of the BTreeMap
  CampaignOf,     \* the campaign of each task
  Closed,         \* a queued sender whose receiver has been dropped
  Capacity,       \* permits of the host
  MaxQueue,       \* bound: senders queued under one campaign
  MaxLeaks        \* bound: workers aborted between grant and wake-up

ASSUME CapacityAssumption ==
  /\ IsFiniteSet(Tasks)
  /\ Campaigns \subseteq Nat \ {0}
  /\ CampaignOf \in [Tasks -> Campaigns]
  /\ Closed \notin Tasks
  /\ Capacity \in Nat \ {0}
  /\ MaxQueue \in Nat
  /\ MaxLeaks \in Nat

VARIABLES
  task,        \* what each task does: see TypeOK
  active,      \* state.active
  lastServed,  \* state.last_served, 0 when it is None
  waiting,     \* state.waiting: the queue of senders of each campaign
  serving,     \* a release holds the mutex and hands out permits
  leaked,      \* history: permits sent to a worker that was then aborted
  passes       \* history: how often d was served while c has been waiting

permitVars == <<task, active, lastServed, waiting, serving, leaked, passes>>

\* The keys of the map: a campaign whose queue empties is removed.
Keys == {c \in Campaigns : waiting[c] # <<>>}

LiveWaiter(c) == \E t \in Tasks : CampaignOf[t] = c /\ task[t] = "waiting"

PermitsInit ==
  /\ task = [t \in Tasks |-> "idle"]
  /\ active = 0
  /\ lastServed = 0
  /\ waiting = [c \in Campaigns |-> <<>>]
  /\ serving = FALSE
  /\ leaked = 0
  /\ passes = [c \in Campaigns |-> [d \in Campaigns |-> 0]]

MutAcquire(t) ==
  /\ ~serving
  /\ task[t] = "idle"
  /\ IF active <= Capacity /\ Keys = {}
     THEN /\ task' = [task EXCEPT ![t] = "held"]
          /\ active' = active + 1
          /\ UNCHANGED waiting
     ELSE /\ Len(waiting[CampaignOf[t]]) < MaxQueue
          /\ task' = [task EXCEPT ![t] = "waiting"]
          /\ waiting' = [waiting EXCEPT ![CampaignOf[t]] = Append(@, t)]
          /\ UNCHANGED active
  /\ UNCHANGED <<lastServed, serving, leaked, passes>>

MutAcquireFront(t) ==
  /\ ~serving
  /\ task[t] = "idle"
  /\ IF active < Capacity /\ Keys = {}
     THEN /\ task' = [task EXCEPT ![t] = "held"]
          /\ active' = active + 1
          /\ UNCHANGED waiting
     ELSE /\ Len(waiting[CampaignOf[t]]) < MaxQueue
          /\ task' = [task EXCEPT ![t] = "waiting"]
          /\ waiting' = [waiting EXCEPT ![CampaignOf[t]] = <<t>> \o @]
          /\ UNCHANGED active
  /\ UNCHANGED <<lastServed, serving, leaked, passes>>

\* FairCapacity::acquire, up to its await.
Acquire(t) ==
  /\ ~serving
  /\ task[t] = "idle"
  /\ IF active < Capacity /\ Keys = {}
     THEN /\ task' = [task EXCEPT ![t] = "held"]
          /\ active' = active + 1
          /\ UNCHANGED waiting
     ELSE /\ Len(waiting[CampaignOf[t]]) < MaxQueue
          /\ task' = [task EXCEPT ![t] = "waiting"]
          /\ waiting' = [waiting EXCEPT ![CampaignOf[t]] = Append(@, t)]
          /\ UNCHANGED active
  /\ UNCHANGED <<lastServed, serving, leaked, passes>>

\* The receiver's task is polled and owns the permit that was sent to it.
Take(t) ==
  /\ task[t] = "granted"
  /\ task' = [task EXCEPT ![t] = "held"]
  /\ UNCHANGED <<active, lastServed, waiting, serving, leaked, passes>>

\* The wait times out or the worker is aborted: its receiver is dropped.
GiveUp(t) ==
  /\ ~serving
  /\ task[t] = "waiting"
  /\ task' = [task EXCEPT ![t] = "idle"]
  /\ waiting' = [waiting EXCEPT ![CampaignOf[t]] =
                   [i \in 1..Len(@) |-> IF @[i] = t THEN Closed ELSE @[i]]]
  /\ passes' = [passes EXCEPT ![CampaignOf[t]] = [d \in Campaigns |-> 0]]
  /\ UNCHANGED <<active, lastServed, serving, leaked>>

\* The worker is aborted after the permit was sent and before it was polled:
\* the value is dropped with the receiver and nothing releases it.
AbortGranted(t) ==
  /\ leaked < MaxLeaks
  /\ task[t] = "granted"
  /\ task' = [task EXCEPT ![t] = "idle"]
  /\ leaked' = leaked + 1
  /\ UNCHANGED <<active, lastServed, waiting, serving, passes>>

\* Dropping a FairCapacityPermit: FairCapacity::release up to its loop.
Release(t) ==
  /\ ~serving
  /\ task[t] = "held"
  /\ task' = [task EXCEPT ![t] = "idle"]
  /\ active' = IF active = 0 THEN 0 ELSE active - 1
  /\ serving' = TRUE
  /\ UNCHANGED <<lastServed, waiting, leaked, passes>>

Least(S) == CHOOSE c \in S : \A d \in S : c <= d

MutNextKey == Least(Keys)

\* The first campaign after the last one served, else the first of all.
NextKey ==
  LET later == {c \in Keys : c > lastServed}
  IN  IF later # {} THEN Least(later) ELSE Least(Keys)

\* One turn of the loop: a sender is popped; a live one gets the permit.
Serve ==
  /\ serving
  /\ active < Capacity
  /\ Keys # {}
  /\ LET next == NextKey
         sender == Head(waiting[next])
     IN  /\ waiting' = [waiting EXCEPT ![next] = Tail(@)]
         /\ IF sender # Closed
            THEN /\ task' = [task EXCEPT ![sender] = "granted"]
                 /\ active' = active + 1
                 /\ lastServed' = next
                 /\ passes' = [c \in Campaigns |->
                      IF c = next \/ ~LiveWaiter(c) THEN [d \in Campaigns |-> 0]
                      ELSE [passes[c] EXCEPT ![next] = @ + 1]]
            ELSE UNCHANGED <<task, active, lastServed, passes>>
  /\ UNCHANGED <<serving, leaked>>

\* The loop ends and the mutex is released.
Served ==
  /\ serving
  /\ ~(active < Capacity /\ Keys # {})
  /\ serving' = FALSE
  /\ UNCHANGED <<task, active, lastServed, waiting, leaked, passes>>

PermitsNext ==
  \/ \E t \in Tasks : Acquire(t) \/ Take(t) \/ GiveUp(t) \/ AbortGranted(t) \/ Release(t)
  \/ Serve
  \/ Served

PermitsSpec == PermitsInit /\ [][PermitsNext]_permitVars

(* A release runs its loop to the end, a granted task is polled, and a      *)
(* worker gives its permit back: its observation has an absolute deadline.  *)
PermitsFairness ==
  /\ WF_permitVars(Serve)
  /\ WF_permitVars(Served)
  /\ \A t \in Tasks : WF_permitVars(Take(t)) /\ SF_permitVars(Release(t))

FairPermitsSpec == PermitsSpec /\ PermitsFairness

-----------------------------------------------------------------------------
(* Properties. *)

TypeOK ==
  /\ task \in [Tasks -> {"idle", "waiting", "granted", "held"}]
  /\ active \in Nat
  /\ lastServed \in Campaigns \cup {0}
  /\ waiting \in [Campaigns -> Seq(Tasks \cup {Closed})]
  /\ serving \in BOOLEAN
  /\ leaked \in Nat
  /\ passes \in [Campaigns -> [Campaigns -> Nat]]

Owners == {t \in Tasks : task[t] \in {"granted", "held"}}

(* The host never runs more operations than it has permits, whatever was    *)
(* aborted, timed out or handed over in between.                            *)
WithinCapacity == Cardinality(Owners) + leaked <= Capacity

(* A free permit is never kept from a queued worker: outside the mutex,     *)
(* `active' below the capacity means that nobody is queued.                 *)
NoIdlePermit == ~serving /\ active < Capacity => Keys = {}

(* `active' counts the permits that workers own and those that an abort     *)
(* lost, and nothing else: a waiter that was cancelled is never counted.    *)
PermitsAccounted == active = Cardinality(Owners) + leaked

(* While a campaign waits, no other campaign is served twice: one busy      *)
(* subtree cannot starve a peer.                                            *)
Rotates == \A c, d \in Campaigns : LiveWaiter(c) => passes[c][d] <= 1

(* A queued worker gets a permit unless it gives up, as long as aborts have *)
(* not lost them all.                                                       *)
WaiterServed ==
  \A t \in Tasks : task[t] = "waiting" ~> (task[t] # "waiting" \/ leaked = Capacity)

-----------------------------------------------------------------------------
(* What makes the invariants above inductive. *)

\* The senders of a queue are distinct waiting tasks of its campaign ...
QueuesExact ==
  \A c \in Campaigns : \A i \in 1 .. Len(waiting[c]) : waiting[c][i] # Closed =>
    /\ task[waiting[c][i]] = "waiting"
    /\ CampaignOf[waiting[c][i]] = c
    /\ \A j \in 1 .. Len(waiting[c]) : j # i => waiting[c][j] # waiting[c][i]

\* ... and every waiting task has its sender in one.
WaitersQueued ==
  \A t \in Tasks : task[t] = "waiting" =>
    \E i \in 1 .. Len(waiting[CampaignOf[t]]) : waiting[CampaignOf[t]][i] = t

\* d comes after c and not after l when the campaigns are gone through in
\* order, round and round.
Between(c, d, l) == IF c < l THEN c < d /\ d <= l ELSE c < d \/ d <= l

\* The campaigns served while c waits are the ones between c and the last one
\* served: the round has not come to c, and none of them came up twice.
RoundNotComplete ==
  \A c, d \in Campaigns : passes[c][d] > 0 =>
    /\ passes[c][d] = 1
    /\ LiveWaiter(c)
    /\ c # lastServed
    /\ Between(c, d, lastServed)
=============================================================================
