---------------------------- MODULE Reservations ----------------------------
(***************************************************************************)
(* The durable capacity ledger of the store: reservation rows, the usage   *)
(* counters kept beside them for each session and for all sessions, and    *)
(* the transactions over them.  A ledger is a record                       *)
(*   rows     capacity_reservations, by reservation id;                    *)
(*   session  capacity_session_usage, by session and resource;             *)
(*   global   capacity_global_usage, by resource;                          *)
(*   pending  capacity_global_reservations, which name no session.         *)
(* A transaction that reports an error leaves the ledger as it was.        *)
(***************************************************************************)
EXTENDS Integers, FiniteSets, FiniteSetsExt, Functions, TLC

CONSTANTS
  Sessions,
  Limits,  \* LimitProfile: [resource -> [session |-> Nat, global |-> Nat]]
  None

VARIABLE ledger

Resources == DOMAIN Limits

ASSUME LimitsAssumption ==
  \A r \in Resources : Limits[r].session \in Nat /\ Limits[r].global \in Nat

EmptyLedger ==
  [rows |-> <<>>, pending |-> <<>>,
   session |-> [s \in Sessions |-> [r \in Resources |-> 0]],
   global |-> [r \in Resources |-> 0]]

\* A table with this row, new or in the place of the one it had.
Put(table, id, row) == [i \in DOMAIN table \cup {id} |-> IF i = id THEN row ELSE table[i]]

Row(s, r, n) == [session |-> s, resource |-> r, amount |-> n, released |-> FALSE]

\* The same command again: an existing row that differs only in being released.
Replays(b, id, s, r, n) ==
  id \in DOMAIN b.rows /\ [b.rows[id] EXCEPT !.released = FALSE] = Row(s, r, n)

\* The session and the global limit, with what the session's and everybody's
\* other rows (artifacts, messages, ...) hold of the resource.
Admits(b, s, r, n, inSession, inAll) ==
  /\ inSession + b.session[s][r] + n <= Limits[r].session
  /\ inAll + b.global[r] + n <= Limits[r].global

Added(b, id, s, r, n) ==
  [b EXCEPT !.rows = Put(@, id, Row(s, r, n)),
            !.session[s][r] = @ + n, !.global[r] = @ + n]

\* reserve_capacity answers: a replay is answered from the row, released or not.
ReserveAnswers(b, id, s, r, n, inSession, inAll) ==
  \/ Replays(b, id, s, r, n)
  \/ id \notin DOMAIN b.rows /\ n > 0 /\ Admits(b, s, r, n, inSession, inAll)

Reserved(b, id, s, r, n) == IF id \in DOMAIN b.rows THEN b ELSE Added(b, id, s, r, n)

\* An unreleased row is marked released and leaves both counters.
Settled(b, id) ==
  LET row == b.rows[id]
  IN [b EXCEPT !.rows[id].released = TRUE,
               !.session[row.session][row.resource] = @ - row.amount,
               !.global[row.resource] = @ - row.amount]

MutReleased(b, id) == IF id \in DOMAIN b.rows THEN Settled(b, id) ELSE b

\* release_capacity: idempotent; the row of a subscription goes with its lease.
Released(b, id) ==
  IF id \notin DOMAIN b.rows THEN b ELSE
  LET settled == IF b.rows[id].released THEN b ELSE Settled(b, id)
  IN IF b.rows[id].resource # "subscriptions" THEN settled
     ELSE [settled EXCEPT !.rows = Restrict(@, DOMAIN @ \ {id})]

\* consume_capacity_reservation: publication turns an exact, unreleased
\* reservation into the artifact's own use of the resource.
Consumable(b, id, s, r, n) == id \in DOMAIN b.rows /\ b.rows[id] = Row(s, r, n)

\* What the rows of a session, or of all, hold of a resource.
Held(b, sessions, r) ==
  LET ids == {id \in DOMAIN b.rows : /\ b.rows[id].session \in sessions
                                      /\ b.rows[id].resource = r
                                      /\ ~b.rows[id].released}
  IN MapThenSumSet(LAMBDA id : b.rows[id].amount, ids)

\* reclaim_stale_subscription_leases, and reconcile_abandoned_subscriptions
\* when the store opens: the rows go, the counters are computed again.
Reclaimed(b, ids) ==
  LET kept == [b EXCEPT !.rows = Restrict(@, DOMAIN @ \ ids)]
  IN [kept EXCEPT
        !.session = [s \in Sessions |->
                      [@[s] EXCEPT !["subscriptions"] = Held(kept, {s}, "subscriptions")]],
        !.global["subscriptions"] = Held(kept, Sessions, "subscriptions")]

\* reserve_global_capacity and release_global_capacity: capacity of no session.
PendingAnswers(b, id, n) ==
  \/ id \in DOMAIN b.pending /\ b.pending[id] = n
  \/ /\ id \notin DOMAIN b.pending /\ n > 0
     /\ b.global["pending_requests"] + n <= Limits["pending_requests"].global

PendingReserved(b, id, n) ==
  IF id \in DOMAIN b.pending THEN b
  ELSE [b EXCEPT !.pending = Put(@, id, n), !.global["pending_requests"] = @ + n]

PendingReleased(b, id) ==
  IF id \notin DOMAIN b.pending THEN b
  ELSE [b EXCEPT !.pending = Restrict(@, DOMAIN @ \ {id}),
                 !.global["pending_requests"] = @ - b.pending[id]]

\* What validate_capacity_schema demands of the ledger whenever the store is
\* opened: no empty row, and counters that are the sums over the rows.
Agrees(b) ==
  /\ \A id \in DOMAIN b.rows : b.rows[id].amount > 0
  /\ \A r \in Resources :
       /\ \A s \in Sessions : b.session[s][r] = Held(b, {s}, r)
       /\ b.global[r] = Held(b, Sessions, r)
            + (IF r # "pending_requests" THEN 0
               ELSE MapThenSumSet(LAMBDA id : b.pending[id], DOMAIN b.pending))
=============================================================================
