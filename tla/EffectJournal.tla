--------------------------- MODULE EffectJournal ---------------------------
(***************************************************************************)
(* The effect journal (EffectJournalStore): one effect of an operation,    *)
(* which a performer of the owning tenure reserves, starts, carries out    *)
(* and resolves, a later tenure takes over, and a consumer resolves with a *)
(* grant once it is uncertain.  The performer is the journal's client: an  *)
(* answer may be lost, and it then repeats the call under the same id.     *)
(* `live' says that the entry's own lease has not expired.                 *)
(***************************************************************************)
EXTENDS Naturals

CONSTANTS
  Tenures,      \* ownership epochs explored, 1..n
  Resolutions,  \* resolution calls: [request, grant, want, proof]
  Contract,     \* of the reservation: [allows, proofs]
  UsedIds,      \* request ids that the other ledgers of the store hold
  MaxRevision   \* bound: the revision up to which the effect's lease expires

ASSUME EffectAssumption == Tenures \subseteq Nat \ {0}

VARIABLES
  fx,         \* the journal entry
  tenure,     \* [epoch, held]: ownership of the session
  fxop,       \* state of the operation
  performer,  \* the performer of each tenure
  fxlog,      \* effect_journal_mutations
  fxgrants,   \* the grants that allow a resolution
  resolver,   \* the resolution calls
  happened    \* how often the effect took place

effectVars == <<fx, tenure, fxop, performer, fxlog, fxgrants, resolver, happened>>

EffectId == <<"effect", 0, 0>>
NoEffect == [phase |-> "none"]
Unaware == [pc |-> "idle", entry |-> NoEffect]

EffectInit ==
  /\ fx = NoEffect /\ fxop = "running" /\ happened = 0 /\ fxlog = {}
  /\ tenure = [epoch |-> 1, held |-> TRUE]
  /\ performer = [p \in Tenures |-> Unaware]
  /\ fxgrants = [g \in {Resolutions[r].grant : r \in DOMAIN Resolutions} |-> "active"]
  /\ resolver = [r \in DOMAIN Resolutions |-> [pc |-> "idle"]]

\* EffectJournalEntry::recovery_class
RecoveryClass(e) ==
  CASE e.phase \in {"reserved", "retry"} -> "safe_to_continue"
    [] e.phase = "started" ->
         IF e.class \in {"read_only", "idempotent"} THEN "safe_to_continue" ELSE "uncertain"
    [] e.phase = "uncertain" -> "uncertain"
    [] e.phase \in {"completed", "failed"} -> "terminal"

Completion == {"commit", "receipt"}   \* proofs that an effect took place

\* EffectResolutionContract::is_valid
ContractValid ==
  /\ Contract.allows # {}
  /\ "confirm" \in Contract.allows => Contract.proofs \cap Completion # {}
  /\ "retry" \in Contract.allows => "absent" \in Contract.proofs

\* decode_effect: an entry with another contract is not read.  The terminal,
\* which it compares with the phase, follows from the phase here.
DecodeEffect(row) == IF ContractValid THEN row ELSE NoEffect

OwnsSession(p) == tenure = [epoch |-> p, held |-> TRUE]

\* A command's id is neither the effect's own, nor one of another ledger.
IdFree(id) == id # EffectId /\ id \notin UsedIds

Logged(id) == {m \in fxlog : m.id = id}
Log(id, what, result) == fxlog' = fxlog \cup {[id |-> id, what |-> what, result |-> result]}

\* The answer arrives, or is lost.
Told(p, pc, entry) ==
  \/ performer' = [performer EXCEPT ![p] = [pc |-> pc, entry |-> entry]]
  \/ UNCHANGED performer

Same == UNCHANGED <<tenure, fxop, fxgrants, resolver>>

-----------------------------------------------------------------------------
(* The performer's calls. *)

Reservation(p, class) ==
  [phase |-> "reserved", class |-> class, by |-> p, live |-> TRUE, rev |-> 1]

\* A reservation of an existing effect returns it; a start whose lease has
\* expired is uncertain from then on.
Rejoined(e) ==
  IF e.phase = "started" /\ ~e.live
  THEN [e EXCEPT !.phase = "uncertain", !.rev = @ + 1] ELSE e

ReserveEffect(p, class) ==
  /\ performer[p].pc = "idle"
  /\ OwnsSession(p) /\ fxop \in {"running", "waiting"}
  /\ ContractValid
  /\ fx # NoEffect => fx.class = class
  /\ fx' = IF fx = NoEffect THEN Reservation(p, class) ELSE Rejoined(fx)
  /\ Told(p, "known", fx')
  /\ UNCHANGED <<fxlog, happened>> /\ Same

\* read_effect
ReadEffect(p) ==
  /\ performer[p].pc = "known" /\ performer[p].entry # fx
  /\ performer' = [performer EXCEPT ![p].entry = DecodeEffect(fx)]
  /\ UNCHANGED <<fx, fxlog, happened>> /\ Same

\* EffectTransition and TakeoverEffect: the digest covers the effect, the
\* epoch, the expected revision and what is asked.
EffectCommand(p, what) == [tenure |-> p, rev |-> performer[p].entry.rev, what |-> what]
CommandId(c) == <<c.what, c.tenure, c.rev>>

\* transition_effect and takeover_effect, behind the replay of a logged id.
CurrentFor(c) == OwnsSession(c.tenure) /\ fx # NoEffect /\ fx.rev = c.rev

Transitionable(c) ==
  /\ CurrentFor(c)
  /\ fx.by = c.tenure
  /\ IF c.what = "start" THEN fx.phase \in {"reserved", "retry"} /\ fx.live
     ELSE fx.phase = "started"

Takeable(c) == CurrentFor(c) /\ ~fx.live /\ fx.phase \in {"reserved", "started"}

\* Mutant of Overtaken: a started effect is handed over like a reserved one.
MutOvertaken(c) == [fx EXCEPT !.phase = "reserved", !.by = c.tenure, !.live = TRUE, !.rev = @ + 1]

\* A reservation goes to the new owner with a new lease; a start is uncertain.
Overtaken(c) ==
  IF fx.phase = "reserved"
  THEN [fx EXCEPT !.by = c.tenure, !.live = TRUE, !.rev = @ + 1]
  ELSE [fx EXCEPT !.phase = "uncertain", !.rev = @ + 1]

Transitioned(c) ==
  CASE c.what = "start" -> [fx EXCEPT !.phase = "started", !.rev = @ + 1]
    [] c.what = "takeover" -> Overtaken(c)
    [] OTHER -> [fx EXCEPT !.phase = c.what, !.rev = @ + 1]

\* A command of performer p that moves it to pc once the answer is there.
Commands(p, what, pc) ==
  LET c == EffectCommand(p, what)
      id == CommandId(c)
  IN /\ \/ /\ Logged(id) # {}
           /\ \E logged \in Logged(id) : Told(p, pc, logged.result)
           /\ UNCHANGED <<fx, fxlog>>
        \/ /\ Logged(id) = {} /\ IdFree(id)
           /\ IF what = "takeover" THEN Takeable(c) ELSE Transitionable(c)
           /\ fx' = Transitioned(c)
           /\ Log(id, <<what, "none">>, fx')
           /\ Told(p, pc, fx')
     /\ UNCHANGED happened /\ Same

StartEffect(p) ==
  /\ performer[p].pc = "known" /\ performer[p].entry.phase \in {"reserved", "retry"}
  /\ Commands(p, "start", "started")

TakeoverEffect(p) ==
  /\ performer[p].pc = "known" /\ performer[p].entry.phase \in {"reserved", "started"}
  /\ Commands(p, "takeover", "known")

\* What the performer knows of its attempt, or that it does not know.
ResolveEffect(p, outcome) ==
  /\ \/ performer[p].pc = "acted" /\ outcome \in {"completed", "uncertain"}
     \/ performer[p].pc = "unable" /\ outcome \in {"failed", "uncertain"}
  /\ Commands(p, outcome, "over")

\* Nothing stops a performer that was told it may act.
Act(p) ==
  /\ performer[p].pc = "started"
  /\ \/ happened' = happened + 1 /\ performer' = [performer EXCEPT ![p].pc = "acted"]
     \/ performer' = [performer EXCEPT ![p].pc = "unable"] /\ UNCHANGED happened
  /\ UNCHANGED <<fx, fxlog>> /\ Same

\* The process of a tenure ends with its performer.
PerformerDies(p) ==
  /\ performer[p].pc # "over"
  /\ performer' = [performer EXCEPT ![p].pc = "over"]
  /\ UNCHANGED <<fx, fxlog, happened>> /\ Same

-----------------------------------------------------------------------------
(* Resolving an uncertain effect for a consumer. *)

\* The contract allows the resolution with this kind of proof.
Permitted(want, proof) ==
  /\ want \in Contract.allows
  /\ CASE want = "confirm" -> proof \in Completion \cap Contract.proofs
       [] want = "retry" -> proof = "absent" /\ proof \in Contract.proofs
       [] want = "deny" -> TRUE

\* allowed_actions: what a recovery report offers.
AllowedActions ==
  IF fx # NoEffect /\ fx.phase = "uncertain"
  THEN {want \in {"confirm", "deny", "retry"} :
          \E proof \in Completion \cup {"absent"} : Permitted(want, proof)}
  ELSE {}

\* A performer may still carry the effect out.
Pursued ==
  \E p \in Tenures :
    \/ performer[p].pc = "started"
    \/ performer[p].pc = "known"
         /\ Logged(CommandId(EffectCommand(p, "start"))) # {}
         /\ performer[p].entry.phase \in {"reserved", "retry"}

\* The consumer asks for what the report offers and its proof shows: that the
\* effect has happened, or that it has not and will not; one call at a time.
AskResolution(r) ==
  LET want == Resolutions[r].want
  IN /\ resolver[r].pc = "idle" /\ \A q \in DOMAIN resolver : resolver[q].pc # "asked"
     /\ want \in AllowedActions
     /\ want = "confirm" => happened > 0
     /\ want = "retry" => happened = 0 /\ ~Pursued
     /\ fxgrants[Resolutions[r].grant] \in {"active", "consumed"}
     /\ resolver' = [resolver EXCEPT ![r] = [pc |-> "asked"]]
     /\ UNCHANGED <<fx, tenure, fxop, performer, fxlog, fxgrants, happened>>

\* resolve_authorized reads the effect and names its revision.
ResolutionCommand(r, seen) ==
  [id |-> <<Resolutions[r].request, 0, 0>>, rev |-> seen,
   what |-> <<Resolutions[r].want, Resolutions[r].grant>>]

\* The effect and its operation are uncertain and as they were read, the grant
\* is unused and the contract allows it.  The effect belongs to no tool, so a
\* tool's terminal has no place in the command.
ResolutionAdmits(r, c) ==
  /\ IdFree(c.id) /\ tenure.held
  /\ fx.phase = "uncertain" /\ fx.rev = c.rev /\ fxop = "uncertain"
  /\ fxgrants[Resolutions[r].grant] = "active"
  /\ Permitted(Resolutions[r].want, Resolutions[r].proof)

Resolution(want) ==
  CASE want = "confirm" -> [fx EXCEPT !.phase = "completed", !.rev = @ + 1]
    [] want = "deny" -> [fx EXCEPT !.phase = "failed", !.rev = @ + 1]
    [] want = "retry" ->
         [fx EXCEPT !.phase = "retry", !.by = tenure.epoch, !.live = TRUE, !.rev = @ + 1]

\* validate_authorized_effect_replay: what was recorded must still be the entry.
ResolutionReplays(c, logged) == logged.what = c.what /\ logged.result = fx

Answered(r, pc) == resolver' = [resolver EXCEPT ![r].pc = pc]

ResolveAuthorizedEffect(r) ==
  LET c == ResolutionCommand(r, fx.rev)
      admits == Logged(c.id) = {} /\ ResolutionAdmits(r, c)
  IN /\ resolver[r].pc = "asked"
     /\ \/ /\ admits
           /\ fx' = Resolution(Resolutions[r].want)
           /\ Log(c.id, c.what, fx')
           /\ fxgrants' = [fxgrants EXCEPT ![Resolutions[r].grant] = "consumed"]
           /\ Answered(r, "done") \/ UNCHANGED resolver
        \/ /\ ~admits
           /\ Answered(r, IF \E logged \in Logged(c.id) : ResolutionReplays(c, logged)
                          THEN "done" ELSE "failed")
           /\ UNCHANGED <<fx, fxlog, fxgrants>>
     /\ UNCHANGED <<tenure, fxop, performer, happened>>

-----------------------------------------------------------------------------
(* The session around the effect. *)

OperationUncertain ==
  /\ fxop = "running" /\ fxop' = "uncertain"
  /\ UNCHANGED <<fx, tenure, performer, fxlog, fxgrants, resolver, happened>>

EffectLeaseExpires ==
  /\ fx # NoEffect /\ fx.live /\ fx.rev <= MaxRevision
  /\ fx' = [fx EXCEPT !.live = FALSE]
  /\ UNCHANGED <<tenure, fxop, performer, fxlog, fxgrants, resolver, happened>>

TenureChanges ==
  /\ \/ tenure.held /\ tenure' = [tenure EXCEPT !.held = FALSE]
     \/ ~tenure.held /\ tenure.epoch + 1 \in Tenures
          /\ tenure' = [epoch |-> tenure.epoch + 1, held |-> TRUE]
  /\ UNCHANGED <<fx, fxop, performer, fxlog, fxgrants, resolver, happened>>

EffectNext ==
  \/ \E p \in Tenures :
       \/ \E class \in {"idempotent", "non_idempotent"} : ReserveEffect(p, class)
       \/ ReadEffect(p) \/ StartEffect(p) \/ TakeoverEffect(p) \/ Act(p) \/ PerformerDies(p)
       \/ \E outcome \in {"completed", "failed", "uncertain"} : ResolveEffect(p, outcome)
  \/ \E r \in DOMAIN Resolutions : AskResolution(r) \/ ResolveAuthorizedEffect(r)
  \/ OperationUncertain \/ EffectLeaseExpires \/ TenureChanges

EffectSpec == EffectInit /\ [][EffectNext]_effectVars

-----------------------------------------------------------------------------
\* What the journal says of an effect is so, whoever performed, took over or
\* resolved it: the effect happens at most once, a completed one has happened,
\* and one that recovery may continue with has not happened and is pursued by
\* nobody, unless it may be repeated.
JournalTruthful ==
  /\ happened <= 1
  /\ fx # NoEffect =>
       /\ fx.phase = "completed" => happened = 1
       /\ (RecoveryClass(fx) = "safe_to_continue" /\ fx.class = "non_idempotent")
            => happened = 0 /\ \A p \in Tenures : performer[p].pc # "started"
=============================================================================
