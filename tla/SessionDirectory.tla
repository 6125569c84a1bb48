--------------------------- MODULE SessionDirectory ---------------------------
(***************************************************************************)
(* OpenSession and CloseSession of the local service over the sessions of  *)
(* the store: which session of a Consumer a request resolves to, how a     *)
(* reset closes the previous one before it opens another, and how an       *)
(* opened session gets its lease, its supervisor and its root participant. *)
(* A call is cut at every await that reads or writes the store.  The       *)
(* reconciliation inside a recovery is module Recovery's and the           *)
(* cancellation inside a close SessionClose's: here is what comes of them. *)
(***************************************************************************)
EXTENDS Integers, FiniteSets, TLC

CONSTANT Asks  \* [call |-> [mode, request, key, session, template]]

VARIABLES
  dir,        \* the session rows, with what the other tables say of each
  requests,   \* the request ledger: [name -> the session, or "error"]
  templates,  \* the registered templates: [id -> body]
  sup,        \* the supervisors of this daemon: [session -> epoch], 0 if none
  opening     \* the calls: [call -> [pc, s, epoch]]

directoryVars == <<dir, requests, templates, sup, opening>>

Calls == DOMAIN Asks
NoRoot == [id |-> "none", body |-> "none"]
Ids == {Asks[c].session : c \in Calls}

DirectoryInit ==
  /\ dir = <<>> /\ requests = <<>> /\ templates = <<>>
  /\ sup = [s \in Ids |-> 0]
  /\ opening = [c \in Calls |-> [pc |-> "idle", s |-> "none", epoch |-> 0]]

-----------------------------------------------------------------------------
\* The store

OpenOf(key) == {s \in DOMAIN dir : dir[s].key = key /\ dir[s].open}

\* insert_session_row and insert_session_manifest
NewRow(ask) ==
  [key |-> ask.key, manifest |-> ask.template, open |-> TRUE, root |-> NoRoot, policy |-> FALSE,
   owner |-> "none", live |-> FALSE, epoch |-> 0, busy |-> FALSE, launched |-> FALSE]

\* one_open_session_per_public_consumer_key
OneOpen(ask) == OpenOf(ask.key) = {}

\* require_open_session and require_owner, of this host
Authorized(s, e) ==
  dir[s].open /\ dir[s].owner = "local" /\ dir[s].live /\ dir[s].epoch = e

\* validate_template_set_before_open
TemplateFits(t) == t.id \in DOMAIN templates => templates[t.id] = t.body

\* validate_session_manifest_in, beside the row's own key
RowFits(s, ask) == dir[s].key = ask.key /\ dir[s].manifest = ask.template

\* read_ownership: an expired lease is nobody's.
HeldBy(s) == IF dir[s].live THEN dir[s].owner ELSE "none"

\* acquire_ownership of a free or lapsed lease
Taken(s, host) == [dir[s] EXCEPT !.owner = host, !.live = TRUE, !.epoch = @ + 1]

-----------------------------------------------------------------------------
\* The calls

OpenName(c) == <<"open", Asks[c].request>>
CloseName(c, s) == <<"close", Asks[c].request, s>>
Is(c, pc) == opening[c].pc = pc
Goes(c, pc) == opening' = [opening EXCEPT ![c].pc = pc]
GoesAt(c, pc, s, e) == opening' = [opening EXCEPT ![c] = [pc |-> pc, s |-> s, epoch |-> e]]
Fails(c) == Goes(c, "failed")
StoreSame == UNCHANGED <<dir, requests, templates>>

\* A store request under a name of its own: a recorded outcome is replayed,
\* and a refusal is recorded as well.
Commits(c, name, allowed, row, pc) ==
  /\ IF name \in DOMAIN requests
     THEN /\ IF requests[name] = "error" THEN Fails(c) ELSE Goes(c, pc)
          /\ UNCHANGED <<dir, requests>>
     ELSE IF allowed
     THEN /\ dir' = [dir EXCEPT ![opening[c].s] = row]
          /\ requests' = (name :> opening[c].s) @@ requests /\ Goes(c, pc)
     ELSE requests' = (name :> "error") @@ requests /\ Fails(c) /\ UNCHANGED dir
  /\ UNCHANGED templates

\* open_session of a reset asks the ledger before it touches the previous
\* session.
ReadLedger(c) ==
  /\ Is(c, "idle") /\ Asks[c].mode # "close"
  /\ IF Asks[c].mode # "reset" THEN Goes(c, "register")
     ELSE IF OpenName(c) \notin DOMAIN requests THEN Goes(c, "find")
     ELSE IF requests[OpenName(c)] = "error" THEN Fails(c) ELSE Goes(c, "register")
  /\ StoreSame /\ UNCHANGED sup

\* find_open_session, has_active_supervisor and reset_ownership_path
FindOpen(c) ==
  /\ Is(c, "find")
  /\ \/ OpenOf(Asks[c].key) = {} /\ Goes(c, "register")
     \/ \E s \in OpenOf(Asks[c].key) :
          GoesAt(c, IF sup[s] # 0 THEN "close"
                    ELSE IF HeldBy(s) = "local" THEN "restore" ELSE "recover", s, 0)
  /\ StoreSame /\ UNCHANGED sup

\* acquire_and_install: recovery takes a lease nobody holds, under a name made
\* from the request's, and supervises it.  A refusal is recorded; a lease it
\* took before is supervised again while it lasts.
AcquireAndInstall(c, pc) ==
  LET s == opening[c].s
      name == <<"recover", Asks[c].request, s>>
      granted(e) == <<"recover", Asks[c].request, s, e>>
      e == dir[s].epoch
  IN IF name \in DOMAIN requests
     THEN /\ IF granted(e) \in DOMAIN requests /\ Authorized(s, e)
             THEN sup' = [sup EXCEPT ![s] = e] /\ Goes(c, pc)
             ELSE Fails(c) /\ UNCHANGED sup
          /\ StoreSame
     ELSE IF dir[s].open /\ ~dir[s].live
     THEN /\ dir' = [dir EXCEPT ![s] = Taken(s, "local")] /\ sup' = [sup EXCEPT ![s] = e + 1]
          /\ requests' = (name :> s @@ granted(e + 1) :> s) @@ requests
          /\ Goes(c, pc) /\ UNCHANGED templates
     ELSE requests' = (name :> "error") @@ requests /\ Fails(c) /\ UNCHANGED <<dir, templates, sup>>

Recover(c) == Is(c, "recover") /\ AcquireAndInstall(c, "reconcile")

\* recovery.resume_session after that: the reconciliation may settle what the
\* previous owner left, or give up.
Reconcile(c) ==
  /\ Is(c, "reconcile")
  /\ \E settled \in BOOLEAN :
       /\ dir' = [dir EXCEPT ![opening[c].s].busy = @ /\ ~settled,
                             ![opening[c].s].launched = @ /\ ~settled]
       /\ Goes(c, IF settled THEN "restore" ELSE "failed")
  /\ UNCHANGED <<requests, templates, sup>>

\* install_reconciled_supervisor
InstallSupervisor(c) ==
  /\ Is(c, "restore")
  /\ LET s == opening[c].s
     IN IF HeldBy(s) = "local" /\ sup[s] \in {0, dir[s].epoch}
        THEN sup' = [sup EXCEPT ![s] = dir[s].epoch] /\ Goes(c, "close")
        ELSE Fails(c) /\ UNCHANGED sup
  /\ StoreSame

-----------------------------------------------------------------------------
\* close_owned

Closing == {"cancel", "inspect", "commit"}
\* What follows a close: a reset goes on to open the replacement.
AfterClose(c) == IF Asks[c].mode = "reset" THEN "register" ELSE "closed"

\* close_session names its session; it may not exist.
AskClose(c) ==
  /\ Is(c, "idle") /\ Asks[c].mode = "close"
  /\ IF Asks[c].session \in DOMAIN dir THEN GoesAt(c, "close", Asks[c].session, 0) ELSE Fails(c)
  /\ StoreSame /\ UNCHANGED sup

\* replayed_close
CloseReplayed(c, next) ==
  LET name == CloseName(c, opening[c].s)
  IN Goes(c, IF name \notin DOMAIN requests THEN next
             ELSE IF requests[name] = "error" THEN "failed" ELSE AfterClose(c))

\* initial_close_context
CloseContext(c) ==
  /\ Is(c, "close")
  /\ IF dir[opening[c].s].root = NoRoot THEN Fails(c) ELSE CloseReplayed(c, "lock")
  /\ StoreSame /\ UNCHANGED sup

\* begin_close: one close of a session at a time, under its supervisor; then
\* replayed_close once more.
BeginClose(c) ==
  /\ Is(c, "lock")
  /\ LET s == opening[c].s
     IN /\ \A d \in Calls : opening[d].s = s => opening[d].pc \notin Closing
        /\ IF sup[s] = 0 THEN Fails(c)
           ELSE IF CloseName(c, s) \in DOMAIN requests THEN CloseReplayed(c, "cancel")
           ELSE GoesAt(c, "cancel", s, sup[s])
  /\ StoreSame /\ UNCHANGED sup

\* cancel_before_close: confirmed when every operation ended and every launch
\* stopped, now or already; otherwise the close is given up.
CancelBeforeClose(c) ==
  /\ Is(c, "cancel")
  /\ LET s == opening[c].s
     IN \/ Fails(c) /\ UNCHANGED dir
        \/ /\ Authorized(s, opening[c].epoch) \/ ~(dir[s].busy \/ dir[s].launched)
           /\ dir' = [dir EXCEPT ![s].busy = FALSE, ![s].launched = FALSE]
           /\ Goes(c, "inspect")
  /\ UNCHANGED <<requests, templates, sup>>

\* session_has_unresolved_launches
InspectLaunches(c) ==
  /\ Is(c, "inspect")
  /\ Goes(c, IF dir[opening[c].s].launched THEN "failed" ELSE "commit")
  /\ StoreSame /\ UNCHANGED sup

\* close_session of the store; the supervisor of that epoch goes with it.
CommitClose(c) ==
  /\ Is(c, "commit")
  /\ LET s == opening[c].s
         row == [dir[s] EXCEPT !.open = FALSE, !.owner = "none", !.live = FALSE]
     IN /\ Commits(c, CloseName(c, s), Authorized(s, opening[c].epoch), row, AfterClose(c))
        /\ sup' = IF ~dir'[s].open /\ sup[s] = opening[c].epoch
                  THEN [sup EXCEPT ![s] = 0] ELSE sup

-----------------------------------------------------------------------------
\* register_templates_and_open_session

\* Mutant of Unresolved: launches of the closed sessions are not looked at.
MutUnresolved(key) == FALSE

\* A launch of any session of the Consumer that is not known to have stopped.
Unresolved(key) == \E s \in DOMAIN dir : dir[s].key = key /\ dir[s].launched

\* The refusals that are recorded under the request.
RefusesExisting(ask, s) ==
  \/ ask.mode = "reset"
  \/ dir[s].manifest # ask.template
  \/ ask.mode = "open" /\ dir[s].busy

\* The session the request stands for: that of the Consumer, or its own.
Resolved(ask) ==
  IF ask.mode = "exact" \/ OpenOf(ask.key) = {} THEN ask.session
  ELSE CHOOSE s \in OpenOf(ask.key) : TRUE

OpenRecorded(c, s) ==
  /\ requests' = (OpenName(c) :> s) @@ requests
  /\ templates' = (Asks[c].template.id :> Asks[c].template.body) @@ templates
  /\ GoesAt(c, "opened", s, 0)

OpensRow(c) ==
  LET ask == Asks[c]
      s == Resolved(ask)
  IN IF (ask.mode = "reset" /\ Unresolved(ask.key)) \/ ~TemplateFits(ask.template)
     THEN Fails(c) /\ StoreSame
     ELSE IF s \in DOMAIN dir
     THEN IF RowFits(s, ask) THEN OpenRecorded(c, s) /\ UNCHANGED dir ELSE Fails(c) /\ StoreSame
     ELSE IF OneOpen(ask)
     THEN dir' = (s :> NewRow(ask)) @@ dir /\ OpenRecorded(c, s)
     ELSE Fails(c) /\ StoreSame

RegisterAndOpen(c) ==
  /\ Is(c, "register") /\ UNCHANGED sup
  /\ LET ask == Asks[c]
         name == OpenName(c)
     IN IF name \in DOMAIN requests
        THEN /\ StoreSame
             /\ IF requests[name] = "error" THEN Fails(c) ELSE GoesAt(c, "opened", requests[name], 0)
        ELSE IF ask.mode # "exact" /\ \E s \in OpenOf(ask.key) : RefusesExisting(ask, s)
        THEN /\ requests' = (name :> "error") @@ requests
             /\ Fails(c) /\ UNCHANGED <<dir, templates>>
        ELSE OpensRow(c)

-----------------------------------------------------------------------------
\* The rest of open_session

\* In resume mode, recovery runs under the request's own id, which the open has
\* just recorded: it may take the lease, and then its classification is refused.
ResumeOpened(c) ==
  Is(c, "opened") /\ Asks[c].mode = "resume" /\ AcquireAndInstall(c, "failed")

\* has_active_supervisor and active_operation_context
UseSupervised(c) ==
  /\ Is(c, "opened") /\ Asks[c].mode # "resume"
  /\ LET s == opening[c].s IN sup[s] # 0 /\ GoesAt(c, "root", s, sup[s])
  /\ StoreSame /\ UNCHANGED sup

\* acquire_ownership under a fresh id
TakeSession(c) ==
  /\ Is(c, "opened") /\ Asks[c].mode # "resume"
  /\ LET s == opening[c].s
     IN /\ sup[s] = 0
        /\ IF dir[s].live \/ ~dir[s].open THEN Fails(c) /\ UNCHANGED dir
           ELSE /\ dir' = [dir EXCEPT ![s] = Taken(s, "local")]
                /\ GoesAt(c, "acquired", s, dir[s].epoch + 1)
  /\ UNCHANGED <<requests, templates, sup>>

\* supervisor; a lease that it cannot supervise is released.
Supervise(c) ==
  /\ Is(c, "acquired")
  /\ LET s == opening[c].s
     IN IF Authorized(s, opening[c].epoch)
        THEN sup' = [sup EXCEPT ![s] = opening[c].epoch] /\ Goes(c, "root") /\ UNCHANGED dir
        ELSE Fails(c) /\ UNCHANGED <<dir, sup>>
  /\ UNCHANGED <<requests, templates>>

\* ensure_root and create_root_participant
EnsureRoot(c) ==
  /\ Is(c, "root") /\ UNCHANGED sup
  /\ LET s == opening[c].s
         t == Asks[c].template
     IN IF dir[s].root # NoRoot
        THEN Goes(c, IF dir[s].root = t THEN "template_policy" ELSE "failed") /\ StoreSame
        ELSE Commits(c, <<"root", s, t.id>>,
                     Authorized(s, opening[c].epoch) /\ dir[s].manifest = t,
                     [dir[s] EXCEPT !.root = t], "template_policy")

\* ensure_root_authority, its first request
RegisterPolicy(c) ==
  /\ Is(c, "template_policy") /\ UNCHANGED sup
  /\ LET s == opening[c].s
     IN Commits(c, <<"template_policy", s, Asks[c].template>>,
                Authorized(s, opening[c].epoch), dir[s], "root_policy")

\* ensure_root_authority, its second request
PutPolicy(c) ==
  /\ Is(c, "root_policy") /\ UNCHANGED sup
  /\ LET s == opening[c].s
     IN Commits(c, <<"root_policy", s, Asks[c].template>>,
                Authorized(s, opening[c].epoch), [dir[s] EXCEPT !.policy = TRUE], "answered")

OpenStep(c) ==
  \/ ReadLedger(c) \/ FindOpen(c) \/ Recover(c) \/ Reconcile(c) \/ InstallSupervisor(c)
  \/ AskClose(c) \/ CloseContext(c) \/ BeginClose(c) \/ CancelBeforeClose(c)
  \/ InspectLaunches(c) \/ CommitClose(c) \/ RegisterAndOpen(c)
  \/ ResumeOpened(c) \/ UseSupervised(c) \/ TakeSession(c) \/ Supervise(c) \/ EnsureRoot(c) \/ RegisterPolicy(c) \/ PutPolicy(c)

-----------------------------------------------------------------------------
\* Around the calls

\* An operation of the root is started, and its driver launched.
Work(s) ==
  /\ s \in DOMAIN dir /\ sup[s] # 0 /\ Authorized(s, sup[s])
  /\ dir[s].root # NoRoot /\ ~dir[s].busy /\ ~dir[s].launched
  /\ dir' = [dir EXCEPT ![s].busy = TRUE, ![s].launched = TRUE]
  /\ UNCHANGED <<requests, templates, sup, opening>>

\* The operation ends; or, at the end, the driver is seen to have stopped.
WorkEnds(s) ==
  /\ s \in DOMAIN dir /\ sup[s] # 0 /\ Authorized(s, sup[s])
  /\ \/ dir[s].busy /\ dir' = [dir EXCEPT ![s].busy = FALSE]
     \/ dir[s].launched /\ ~dir[s].busy /\ dir' = [dir EXCEPT ![s].launched = FALSE]
  /\ UNCHANGED <<requests, templates, sup, opening>>

\* A renewal that comes too late.
LeaseExpires(s) ==
  /\ s \in DOMAIN dir /\ dir[s].live
  /\ dir' = [dir EXCEPT ![s].live = FALSE]
  /\ UNCHANGED <<requests, templates, sup, opening>>

\* The supervisor finds that it lost the lease, and has_active_supervisor
\* removes it.
SupervisorEnds(s) ==
  /\ sup[s] # 0 /\ ~Authorized(s, sup[s])
  /\ sup' = [sup EXCEPT ![s] = 0]
  /\ StoreSame /\ UNCHANGED opening

\* Another host takes a lapsed lease over.
OtherAcquires(s) ==
  /\ s \in DOMAIN dir /\ dir[s].open /\ ~dir[s].live
  /\ dir' = [dir EXCEPT ![s] = Taken(s, "other")]
  /\ UNCHANGED <<requests, templates, sup, opening>>

\* The daemon goes down, its calls with it, and is started again.
DaemonRestarts ==
  /\ sup' = [s \in Ids |-> 0]
  /\ opening' = [c \in Calls |->
       IF Is(c, "idle") THEN opening[c] ELSE [opening[c] EXCEPT !.pc = "failed"]]
  /\ StoreSame

DirectoryMoves ==
  \/ \E c \in Calls : OpenStep(c)
  \/ \E s \in Ids :
       Work(s) \/ WorkEnds(s) \/ LeaseExpires(s) \/ SupervisorEnds(s) \/ OtherAcquires(s)
  \/ DaemonRestarts

\* The directory alone, without the bounds of a scenario.
DirectorySpec == DirectoryInit /\ [][DirectoryMoves]_directoryVars

\* A reset puts a session in place of others only when all of those are closed
\* and none has a driver left that may still run, though an operation may start
\* between the close's last look at the launches and the close itself.
ReplacesOnlyStopped ==
  [][\A c \in Calls :
       /\ Asks[c].mode = "reset"
       /\ opening[c].pc = "register" /\ opening'[c].pc = "opened"
       /\ OpenName(c) \notin DOMAIN requests
       => \A s \in DOMAIN dir :
            dir[s].key = Asks[c].key => ~dir[s].open /\ ~dir[s].launched]_directoryVars

=============================================================================
