---------------------------- MODULE Negotiation ----------------------------
(***************************************************************************)
(* Negotiation of the local service: clients agree on capabilities, the    *)
(* daemon registers the negotiation under a token, and the first session a *)
(* client opens binds the token to that client's Consumer.  Clients that   *)
(* ask for the same capabilities are given the same unbound token.         *)
(***************************************************************************)
EXTENDS Reservations

CONSTANTS
  Clients,
  Offer,     \* the capabilities each client selects
  Key        \* the consumer key each client opens sessions with

VARIABLES
  registry,  \* negotiations: [token -> [offer, consumer]]
  client,    \* each client's call: its step and the token it was given
  serving    \* the daemon is up

negotiationVars == <<registry, client, serving>>

NegotiationInit ==
  /\ registry = <<>> /\ serving = TRUE
  /\ client = [c \in Clients |-> [pc |-> "idle", token |-> None]]

\* A token of this offer that no Consumer is bound to.
Unbound(offer) ==
  {k \in DOMAIN registry : registry[k].offer = offer /\ registry[k].consumer = None}

At(c, pc) == client' = [client EXCEPT ![c].pc = pc]
Given(c, k) == client' = [client EXCEPT ![c] = [pc |-> "negotiated", token |-> k]]

\* negotiate: under the read lock.  A new token is the call's own random id.
LookUp(c) ==
  /\ serving /\ client[c].pc = "idle"
  /\ \/ \E k \in Unbound(Offer[c]) : Given(c, k)
     \/ Unbound(Offer[c]) = {} /\ At(c, "absent")
  /\ UNCHANGED <<ledger, registry, serving>>

\* reserve_global_capacity of one pending request
ReservePending(c) ==
  /\ serving /\ client[c].pc = "absent"
  /\ IF PendingAnswers(ledger, c, 1)
     THEN ledger' = PendingReserved(ledger, c, 1) /\ At(c, "reserved")
     ELSE At(c, "refused") /\ UNCHANGED ledger
  /\ UNCHANGED <<registry, serving>>

\* Under the write lock: another call may have registered this offer by now.
Register(c) ==
  /\ serving /\ client[c].pc = "reserved"
  /\ \/ /\ \E k \in Unbound(Offer[c]) :
             client' = [client EXCEPT ![c] = [pc |-> "registered", token |-> k]]
        /\ UNCHANGED registry
     \/ /\ Unbound(Offer[c]) = {}
        /\ registry' = (c :> [offer |-> Offer[c], consumer |-> None]) @@ registry
        /\ client' = [client EXCEPT ![c] = [pc |-> "registered", token |-> c]]
  /\ UNCHANGED <<ledger, serving>>

\* release_global_capacity
ReleasePending(c) ==
  /\ serving /\ client[c].pc = "registered"
  /\ ledger' = PendingReleased(ledger, c) /\ At(c, "negotiated")
  /\ UNCHANGED <<registry, serving>>

\* bind_negotiated_consumer: the first Consumer keeps the token; another one,
\* or a token the daemon does not know, is rejected and has to negotiate again
\* (as another client here, for it will carry another token).
Bind(c) ==
  /\ serving /\ client[c].pc = "negotiated"
  /\ LET k == client[c].token
     IN IF k \in DOMAIN registry /\ registry[k].consumer \in {None, Key[c]}
        THEN registry' = [registry EXCEPT ![k].consumer = Key[c]] /\ At(c, "bound")
        ELSE At(c, "rejected") /\ UNCHANGED registry
  /\ UNCHANGED <<ledger, serving>>

\* The client goes away while its negotiate call runs: the call is dropped at
\* its await, and nothing is left that would release the reservation.
Abandon(c) ==
  /\ serving /\ client[c].pc \in {"absent", "reserved", "registered"}
  /\ At(c, "gone")
  /\ UNCHANGED <<ledger, registry, serving>>

\* The registry is in memory; the ledger is not.
StopServing ==
  /\ serving /\ serving' = FALSE /\ registry' = <<>>
  /\ client' = [c \in Clients |->
       IF client[c].pc \in {"absent", "reserved", "registered"}
       THEN [client[c] EXCEPT !.pc = "gone"] ELSE client[c]]
  /\ UNCHANGED ledger

StartServing ==
  /\ ~serving /\ Agrees(ledger) /\ serving' = TRUE
  /\ UNCHANGED <<ledger, registry, client>>

ClientStep(c) == LookUp(c) \/ ReservePending(c) \/ Register(c) \/ ReleasePending(c) \/ Bind(c)

=============================================================================
