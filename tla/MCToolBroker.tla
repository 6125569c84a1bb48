---------------------------- MODULE MCToolBroker ----------------------------
(***************************************************************************)
(* Instances of the services around tools.  A scenario of the broker fixes *)
(* the tool (effect class, cancellation, approval) and bounds what happens *)
(* to it: calls, connections, provider faults, cancellation requests and   *)
(* tenures.                                                                *)
(***************************************************************************)
EXTENDS ToolBroker, EffectJournal, ApprovalDecision, ToolCatalog

CONSTANTS r1, r2   \* tool requests

(***************************************************************************)
(* What a session offers around tools, together: the broker's calls, the   *)
(* journal of effects, the approval of privileged requests, and the        *)
(* registration of tools with the catalogs made of it.  They meet in the   *)
(* Store only through rows of their own, so a behaviour lets one of them   *)
(* (or registration with one of its two users) take the steps and leaves   *)
(* the others where they start.                                            *)
(***************************************************************************)
VARIABLE part

Parts == {"broker", "journal", "approvals", "providers", "catalogs"}

serviceVars == <<vars, effectVars, decisionVars, catalogVars, part>>

\* What differs only for one part starts the same for the others.
ServicesInit ==
  /\ part \in Parts
  /\ Init
  /\ part # "broker" => scenario = CHOOSE s \in Scenarios : TRUE
  /\ EffectInit /\ DecisionInit /\ CatalogInit
  /\ part # "approvals" => pleader = "running"

\* Bound: two of the decisions are made in a behaviour.
MaxAsked == 2

ServicesNext ==
  /\ UNCHANGED part
  /\ \/ part = "broker" /\ Next /\ UNCHANGED <<effectVars, decisionVars, catalogVars>>
     \/ part = "journal" /\ EffectNext /\ UNCHANGED <<vars, decisionVars, catalogVars>>
     \/ /\ part = "approvals" /\ DecisionNext /\ UNCHANGED <<vars, effectVars, catalogVars>>
        /\ Cardinality({d \in DOMAIN Decisions : asks'[d].pc # "idle"}) <= MaxAsked
     \/ /\ \/ part \in {"providers", "catalogs"} /\ Registration
           \/ part = "providers" /\ Provision
           \/ part = "catalogs" /\ Catalogued
        /\ UNCHANGED <<vars, effectVars, decisionVars>>

ServicesSpec == ServicesInit /\ [][ServicesNext]_serviceVars
-----------------------------------------------------------------------------

\* One call of an unsafe tool whose provider disconnects or restarts once.
Reconnect ==
  [requests |-> {r1}, unsafe |-> TRUE, cooperative |-> FALSE, outcomes |-> {"ok", "error"},
   approval |-> FALSE, uses |-> 1, revokes |-> FALSE, moves |-> FALSE,
   calls |-> 1, conns |-> 2, faults |-> 1, cancels |-> 0, epochs |-> 1]

OneConnection == [Reconnect EXCEPT !.conns = 1]
Steady == [OneConnection EXCEPT !.faults = 0]

ToolScenarios ==
  { Reconnect,
    [Reconnect EXCEPT !.approval = TRUE, !.outcomes = {"ok"}],
    [Reconnect EXCEPT !.epochs = 2, !.outcomes = {"ok"}],
    [Reconnect EXCEPT !.unsafe = FALSE, !.outcomes = {"ok"}],
    [Reconnect EXCEPT !.faults = 0, !.epochs = 2, !.approval = TRUE, !.outcomes = {"error", "unsure"}],
    [Reconnect EXCEPT !.faults = 0, !.cooperative = TRUE, !.cancels = 1, !.outcomes = {"ok", "stopped"}],
    [OneConnection EXCEPT !.calls = 2, !.moves = TRUE],
    [OneConnection EXCEPT !.cancels = 1],
    [OneConnection EXCEPT !.approval = TRUE, !.revokes = TRUE],
    [Steady EXCEPT !.approval = TRUE, !.calls = 2, !.requests = {r1, r2}],
    [Steady EXCEPT !.approval = TRUE, !.calls = 2, !.requests = {r1, r2}, !.uses = 2, !.outcomes = {"ok"}],
    [Steady EXCEPT !.approval = TRUE, !.cooperative = TRUE, !.cancels = 1, !.outcomes = {"ok", "stopped"}],
    [Steady EXCEPT !.unsafe = FALSE, !.cancels = 1],
    [Steady EXCEPT !.cooperative = TRUE, !.cancels = 2, !.outcomes = {"ok"}] }

\* Two consumers' answers to an uncertain effect, one of them asked twice.
ToolResolutions ==
  LET Resolve(q, g, want, proof) ==
        [request |-> q, grant |-> g, want |-> want, proof |-> proof]
  IN 1 :> Resolve("q1", "g1", "retry", "absent") @@ 2 :> Resolve("q2", "g2", "confirm", "commit")
       @@ 3 :> Resolve("q1", "g1", "deny", "none")

ToolContract == [allows |-> {"confirm", "deny", "retry"}, proofs |-> {"commit", "absent"}]

\* An id that another ledger of the store holds.
ToolUsedIds == {<<"q9", 0, 0>>}

\* Three decisions about one request, two of which are made.
ToolDecisions ==
  LET Decision(q, kind) == [request |-> q, kind |-> kind, consumer |-> "owner"]
  IN 1 :> Decision("q1", "approve") @@ 2 :> Decision("q2", "deny") @@ 3 :> Decision("q3", "revoke")

\* Two tools under one request id, and another tool of the first one's name.
ToolRegisters ==
  LET Tool(q, name, schema, needs) ==
        [request |-> <<q>>, consumer |-> "alice", name |-> name, version |-> "v1",
         schema |-> schema, needs |-> needs]
  IN 1 :> Tool("q1", "lookup", "s1", "read") @@ 2 :> Tool("q1", "update", "s1", "write")
       @@ 3 :> Tool("q2", "lookup", "s2", "read")

\* Two providers of one tool; the host has room for one.
ToolStreams ==
  LET Provider(p, c) == [provider |-> p, conn |-> c, consumer |-> "alice",
                         tools |-> {<<"lookup", "v1">>}]
  IN 1 :> Provider("p1", "c1") @@ 2 :> Provider("p2", "c2")

\* One operation may use both tools, the other one.
ToolWorks == "o1" :> {"read", "write"} @@ "o2" :> {"write"}
=============================================================================
