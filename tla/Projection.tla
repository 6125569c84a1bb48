----------------------------- MODULE Projection -----------------------------
(***************************************************************************)
(* The operational projections: the event log of a session, the fold that  *)
(* rebuild_projection makes of it, the generations it publishes, the       *)
(* projector that follows the logs, and consumers that page through a view. *)
(*                                                                         *)
(* An event carries what the fold reads of it: its family, the entity it   *)
(* is about, its kind, the state its payload states and its revisions.  A  *)
(* row of a generation is the event that wrote it, named by its position.  *)
(***************************************************************************)
EXTENDS Naturals, Sequences, FiniteSets, TLC, SequencesExt

CONSTANTS
  Sessions,    \* numbered in the order of their ids
  Projectors,  \* processes that run a ProjectionProjector
  Readers,     \* consumers paging through a view
  Rank,        \* the order of the event ids, which are digests: position -> Nat
  Keep,        \* generations never collected (8 in the code)
  Batch,       \* sessions taken by one poll (128 in the code)
  PageSize,
  Scenarios,   \* bounds: see scenario
  None

ASSUME ProjectionAssumption ==
  /\ Sessions \subseteq Nat
  /\ Keep \in Nat \ {0} /\ Batch \in Nat \ {0} /\ PageSize \in Nat \ {0}
  /\ \A s \in Scenarios :
       /\ s.sessions \subseteq Sessions /\ s.projectors \subseteq Projectors
       /\ s.readers \subseteq Readers
       /\ DOMAIN s.entities \subseteq {"participant", "operation", "message",
                                       "approval", "recovery", "other"}
       /\ s.events \in Nat /\ s.minutes \in Nat /\ s.faults \in Nat
       /\ s.events <= Cardinality(DOMAIN Rank)
  /\ \A i, j \in DOMAIN Rank : Rank[i] = Rank[j] => i = j

VARIABLES
  scenario,  \* who takes part, and how many events, minutes and store failures
  log,       \* events of each session, by position
  folds,     \* what a rebuild that reads the first n of them folds them into
  gens,      \* projection_generations and projection_rows, by generation
  head,      \* projection_heads: the generation, 0 when there is none
  work,      \* each projector: what it is doing
  page,      \* each reader: its token and what it has been given
  now,       \* minutes: tokens live 60 seconds, and so do retired generations
  faults     \* store failures met by rebuilds

system == <<log, folds, gens, head, work, page, now, faults>>
vars == <<system, scenario>>

-----------------------------------------------------------------------------
(* The events the store's transactions append.                             *)

\* The states an operation may take next: OperationState::transition, and the
\* resumption that accepting an answer makes.  A state is its event's kind.
OperationNext(kind) ==
  CASE kind = None -> {"queued"}
    [] kind = "queued" -> {"starting", "cancelling", "cancelled", "failed"}
    [] kind = "starting" -> {"running", "cancelling", "failed", "uncertain"}
    [] kind \in {"running", "resumed"} ->
         {"waiting", "cancelling", "succeeded", "failed", "blocked", "uncertain"}
    [] kind = "waiting" -> {"running", "resumed", "cancelling", "failed", "blocked", "uncertain"}
    [] kind = "cancelling" -> {"cancelled", "failed", "uncertain"}
    [] OTHER -> {}

\* The delivery states a message may take next: a lease that lapsed is taken
\* again, an unresolved attempt is adopted, and the end of its operation
\* retires a message wherever it is.
MessageNext(kind) ==
  CASE kind = None -> {"enqueued"}
    [] kind \in {"enqueued", "retry_scheduled"} -> {"leased", "dead_lettered"}
    [] kind = "leased" -> {"leased", "acceptance_pending", "dead_lettered"}
    [] kind = "acceptance_pending" ->
         {"acceptance_pending", "acceptance_unknown", "retry_scheduled", "accepted",
          "uncertain", "dead_lettered"}
    [] kind = "acceptance_unknown" ->
         {"acceptance_unknown", "retry_scheduled", "accepted", "uncertain", "dead_lettered"}
    [] OTHER -> {}

\* The state a payload states is the row's; every other event states its kind.
PayloadState(kind) ==
  CASE kind = "resumed" -> "running"
    [] kind = "enqueued" -> "queued"
    [] OTHER -> kind

About(s, family, key) ==
  SelectSeq(log[s], LAMBDA e : e.family = family /\ e.key = key)

LastKind(s, family, key) ==
  IF About(s, family, key) = <<>> THEN None ELSE Last(About(s, family, key)).kind

Event(family, key, kind, rev) ==
  [family |-> family, key |-> key, kind |-> kind, state |-> PayloadState(kind), rev |-> rev,
   req |-> 0, grant |-> 0, effect |-> 0, parent |-> None, depth |-> 0]

\* A root, once, and children of participants that exist.
ParticipantNext(s, key) ==
  LET tree == SelectSeq(log[s], LAMBDA e : e.family = "participant")
      created(parent, depth) ==
        [Event("participant", key, "created", 1) EXCEPT !.parent = parent, !.depth = depth]
  IN IF LastKind(s, "participant", key) # None THEN {}
     ELSE IF tree = <<>> THEN {created(None, 1)}
     ELSE {created(tree[i].key, tree[i].depth + 1) : i \in 1..Len(tree)}

\* The effects a grant was spent on are numbered in the order of the events.
Spent(es) == Len(SelectSeq(es, LAMBDA e : e.kind = "consumed"))
Finished(es) == Len(SelectSeq(es, LAMBDA e : e.kind = "effect.finished"))

\* The approval events that may come next.  `state' is the request's status,
\* `req' and `grant' the revisions of the request and its grant, `effect' the
\* effect spent; a grant is given two uses.
ApprovalNext(s, key) ==
  LET es == About(s, "approval", key)
      last == Last(es)
      e(kind, state, rev, req, grant, effect) ==
        [Event("approval", key, kind, rev) EXCEPT
           !.state = state, !.req = req, !.grant = grant, !.effect = effect]
      grantRev == 1 + Spent(es)
  IN IF es = <<>> THEN {e("requested", "pending", 1, 1, 0, 0)}
     ELSE (IF last.state = "pending"
           THEN {e("denied", "denied", 2, 2, 0, 0), e("expired", "expired", 2, 2, 0, 0),
                 e("granted", "granted", 2, 2, 1, 0)}
           ELSE {})
       \cup (IF last.state = "granted"
             THEN {e("revoked", "revoked", grantRev + 1, 3, grantRev + 1, 0),
                   IF Spent(es) = 1
                   THEN e("consumed", "consumed", 1, 3, grantRev + 1, 2)
                   ELSE e("consumed", "granted", 1, 2, grantRev + 1, 1)}
             ELSE {})
       \cup (IF Finished(es) < Spent(es)
             THEN {e("effect.finished", last.state, 2, last.req, last.grant, Finished(es) + 1)}
             ELSE {})

\* A classification states the session's revision, which the acquisition of
\* the classifying owner has advanced.
NextEvents(s, family, key) ==
  CASE family = "participant" -> ParticipantNext(s, key)
    [] family = "operation" ->
         {Event(family, key, k, Len(About(s, family, key)) + 1) :
            k \in OperationNext(LastKind(s, family, key))}
    [] family = "message" ->
         {Event(family, key, k, Len(About(s, family, key)) + 1) :
            k \in MessageNext(LastKind(s, family, key))}
    [] family = "approval" -> ApprovalNext(s, key)
    [] family = "recovery" ->
         IF LastKind(s, family, key) = None THEN {Event(family, key, "classified", 2)} ELSE {}
    [] family = "other" -> {Event(family, key, "other", 1)}

-----------------------------------------------------------------------------
(* The fold.  A rebuild always folds from the first event, so its result   *)
(* is a function of how many events it read: folds holds it for each.      *)

ViewOf(family) ==
  CASE family = "participant" -> "tree"
    [] family = "operation" -> "work"
    [] family = "message" -> "delivery"
    [] OTHER -> family

\* An event whose payload contradicts its type is corrupt.
Coherent(e) ==
  CASE e.family = "operation" -> e.kind = e.state
    [] e.family = "message" -> e.state = IF e.kind = "enqueued" THEN "queued" ELSE e.kind
    [] e.family = "approval" ->
         CASE e.kind = "requested" -> e.state = "pending"
           [] e.kind = "consumed" -> e.state \in {"granted", "consumed"}
           [] e.kind = "effect.finished" -> TRUE
           [] OTHER -> e.state = e.kind
    [] OTHER -> TRUE

TerminalEvent(e) ==
  e.state \in {"succeeded", "failed", "cancelled", "consumed", "denied", "expired",
               "revoked", "accepted", "dead_lettered"}

\* The rows an event writes; a family without a view only moves the checkpoint.
Targets(e) ==
  IF e.family = "other" THEN {}
  ELSE {<<ViewOf(e.family), e.key>>}
       \cup IF e.kind \in {"failed", "dead_lettered", "uncertain"}
            THEN {<<"failure", <<e.kind, e.key>>>>} ELSE {}

TransitionAllowed(view, previous, next) ==
  CASE view = "work" ->
         CASE previous = "queued" -> next \in {"starting", "cancelling"}
           [] previous = "starting" -> next \in {"running", "failed", "uncertain"}
           [] previous = "running" ->
                next \in {"waiting", "cancelling", "succeeded", "failed", "blocked", "uncertain"}
           [] previous = "waiting" ->
                next \in {"running", "cancelling", "failed", "blocked", "uncertain"}
           [] previous = "cancelling" -> next \in {"cancelled", "failed", "uncertain"}
           [] OTHER -> FALSE
    [] view = "delivery" ->
         CASE previous \in {"enqueued", "retry_scheduled"} -> next = "leased"
           [] previous = "leased" ->
                next \in {"retry_scheduled", "acceptance_pending", "dead_lettered"}
           [] previous = "acceptance_pending" ->
                next \in {"accepted", "acceptance_unknown", "uncertain"}
           [] previous = "acceptance_unknown" -> next \in {"accepted", "uncertain"}
           [] OTHER -> FALSE
    [] view = "tree" -> previous = "created" /\ next = "created"
    [] OTHER -> FALSE

InitialEvent(view, kind) ==
  CASE view = "tree" -> kind = "created"
    [] view = "work" -> kind = "queued"
    [] view = "delivery" -> kind = "enqueued"
    [] view = "recovery" -> kind = "classified"
    [] view = "failure" -> TRUE

\* What the fold holds after a prefix: the rows, each entity's latest event
\* in each view, the participants' tree, and each approval.
EmptyFold ==
  [ok |-> TRUE, rows |-> <<>>, hist |-> <<>>, tree |-> <<>>, appr |-> <<>>]

HistoryAllows(acc, id, e) ==
  IF id \in DOMAIN acc.hist
  THEN /\ ~TerminalEvent(acc.hist[id])
       /\ e.rev = acc.hist[id].rev + 1
       /\ TransitionAllowed(id[1], acc.hist[id].kind, e.kind)
  ELSE e.rev = 1 /\ InitialEvent(id[1], e.kind)

\* A participant's parent precedes it, one level above, and there is one root.
TreeAllows(acc, e) ==
  e.family = "participant" =>
    IF e.key \in DOMAIN acc.tree
    THEN acc.tree[e.key] = <<e.parent, e.depth>>
    ELSE \/ /\ e.parent = None
            /\ e.depth = 1
            /\ \A k \in DOMAIN acc.tree : acc.tree[k][1] # None
         \/ /\ e.parent \in DOMAIN acc.tree
            /\ e.depth = acc.tree[e.parent][2] + 1

\* An approval as the fold follows it: its status, the revisions of request
\* and grant, and the revision of each effect it was spent on.
ApprovalAllows(acc, e) ==
  e.family = "approval" =>
    LET known == e.key \in DOMAIN acc.appr
        a == acc.appr[e.key]
    IN CASE e.kind = "requested" -> ~known /\ e.req = 1
         [] e.kind = "granted" ->
              known /\ a.state = "requested" /\ e.req = a.req + 1 /\ e.grant = 1
         [] e.kind \in {"denied", "expired"} ->
              known /\ a.state = "requested" /\ e.req = a.req + 1 /\ e.grant = 0
         [] e.kind \in {"revoked", "consumed"} ->
              /\ known /\ a.state = "granted"
              /\ e.grant = a.grant + 1
              /\ e.req \in {a.req, a.req + 1}
              /\ e.kind = "consumed" => e.rev = 1 /\ e.effect \notin DOMAIN a.effects
         [] e.kind = "effect.finished" ->
              /\ known /\ a.state \in {"granted", "consumed"}
              /\ e.effect \in DOMAIN a.effects
              /\ e.effect \notin a.done
              /\ e.rev = a.effects[e.effect] + 1

ApprovalAfter(acc, e) ==
  LET a == IF e.key \in DOMAIN acc.appr THEN acc.appr[e.key]
           ELSE [state |-> "requested", req |-> 0, grant |-> 0, effects |-> <<>>, done |-> {}]
  IN CASE e.kind = "requested" -> [a EXCEPT !.req = 1]
       [] e.kind = "effect.finished" ->
            [a EXCEPT !.effects = (e.effect :> e.rev) @@ @, !.done = @ \cup {e.effect}]
       [] e.kind = "consumed" ->
            [a EXCEPT !.state = e.state, !.req = e.req, !.grant = e.grant,
                      !.effects = (e.effect :> e.rev) @@ @]
       [] OTHER -> [a EXCEPT !.state = e.kind, !.req = e.req, !.grant = e.grant]

\* One event folded: corrupt, or every row it writes replaced by it, and the
\* row of an operation that ended removed.
FoldEvent(acc, e, position) ==
  LET ids == Targets(e)
      followed == {id \in ids : id[1] # "approval"}
      ended == IF TerminalEvent(e) THEN {id \in ids : id[1] = "work"} ELSE {}
      ok == /\ acc.ok
            /\ Coherent(e)
            /\ \A id \in followed : HistoryAllows(acc, id, e)
            /\ TreeAllows(acc, e)
            /\ ApprovalAllows(acc, e)
  IN IF ~ok THEN [acc EXCEPT !.ok = FALSE]
     ELSE [ok |-> TRUE,
           rows |-> [id \in (DOMAIN acc.rows \cup ids) \ ended |->
                       IF id \in ids THEN position ELSE acc.rows[id]],
           hist |-> [id \in followed |-> e] @@ acc.hist,
           tree |-> IF e.family = "participant"
                    THEN (e.key :> <<e.parent, e.depth>>) @@ acc.tree ELSE acc.tree,
           appr |-> IF e.family = "approval"
                    THEN (e.key :> ApprovalAfter(acc, e)) @@ acc.appr ELSE acc.appr]

\* The fold of the first n events, and its rows with that of the capacity view.
Fold(s, n) == IF n = 0 THEN EmptyFold ELSE folds[s][n]

Projected(s, n) == (<<"capacity", "session">> :> n) @@ Fold(s, n).rows

-----------------------------------------------------------------------------
(* Generations, the projector and the readers.                             *)

Init ==
  /\ scenario \in Scenarios
  /\ log = [s \in Sessions |-> <<>>]
  /\ folds = [s \in Sessions |-> <<>>]
  /\ gens = [s \in Sessions |-> <<>>]
  /\ head = [s \in Sessions |-> 0]
  /\ work = [p \in Projectors |-> [pc |-> "poll", todo |-> <<>>, n |-> 0]]
  /\ page = [r \in Readers |-> [pc |-> "idle", gen |-> 0, checkpoint |-> 0, expires |-> 0,
                                got |-> <<>>, want |-> <<>>]]
  /\ now = 0
  /\ faults = 0

AppendEvent(s) ==
  /\ s \in scenario.sessions
  /\ Len(log[s]) < scenario.events
  /\ \E family \in DOMAIN scenario.entities : \E key \in scenario.entities[family] :
       \E e \in NextEvents(s, family, key) :
         /\ log' = [log EXCEPT ![s] = Append(@, e)]
         /\ folds' = [folds EXCEPT ![s] =
                        Append(@, FoldEvent(Fold(s, Len(log[s])), e, Len(log[s]) + 1))]
  /\ UNCHANGED <<gens, head, work, page, now, faults>>

Minute ==
  /\ now < scenario.minutes
  /\ now' = now + 1
  /\ UNCHANGED <<log, folds, gens, head, work, page, faults>>

SourceHead(s) == IF head[s] = 0 THEN 0 ELSE gens[s][head[s]].head

Quarantined(s) ==
  \E g \in DOMAIN gens[s] : gens[s][g].state = "unhealthy" /\ gens[s][g].head = Len(log[s])

\* Sessions a poll would rebuild.
Lagging == {s \in Sessions : SourceHead(s) < Len(log[s]) /\ ~Quarantined(s)}

\* project_durable_tails: the first Batch of them, in the order of their ids.
Poll(p) ==
  /\ work[p].pc = "poll"
  /\ Lagging # {}
  /\ LET sorted == SetToSortSeq(Lagging, LAMBDA a, b : a < b)
     IN work' = [work EXCEPT ![p] = [pc |-> "compare", n |-> 0,
                    todo |-> SubSeq(sorted, 1, IF Len(sorted) < Batch THEN Len(sorted) ELSE Batch)]]
  /\ UNCHANGED <<log, folds, gens, head, page, now, faults>>

Subject(p) == Head(work[p].todo)

\* The projector after it is done with the first session of its batch.
Advanced(w) ==
  [pc |-> IF Len(w.todo) = 1 THEN "poll" ELSE "compare", todo |-> Tail(w.todo), n |-> 0]

\* rebuild_projection returns at once when the head is up to date.
Compare(p) ==
  /\ work[p].pc = "compare"
  /\ work' = [work EXCEPT ![p] = IF SourceHead(Subject(p)) = Len(log[Subject(p)])
                                 THEN Advanced(@) ELSE [@ EXCEPT !.pc = "read"]]
  /\ UNCHANGED <<log, folds, gens, head, page, now, faults>>

\* All the events there are now, in one query, and their fold.
ReadLog(p) ==
  /\ work[p].pc = "read"
  /\ LET s == Subject(p) IN
       work' = [work EXCEPT ![p].n = Len(log[s]),
                            ![p].pc = IF Fold(s, Len(log[s])).ok THEN "publish" ELSE "bad"]
  /\ UNCHANGED <<log, folds, gens, head, page, now, faults>>

NextGeneration(s) == IF gens[s] = <<>> THEN 1 ELSE Max(DOMAIN gens[s]) + 1

\* The generations kept: one retired more than a minute ago, and not among
\* the latest Keep, is deleted with its rows.
Kept(gs) ==
  {g \in DOMAIN gs : \/ gs[g].state # "retired"
                     \/ gs[g].at >= now
                     \/ Cardinality({h \in DOMAIN gs : h > g}) < Keep}

MutPublish(p) ==
  /\ work[p].pc = "publish"
  /\ LET s == Subject(p)
         g == NextGeneration(s)
         retired == [h \in DOMAIN gens[s] |->
                       IF gens[s][h].state = "published"
                       THEN [gens[s][h] EXCEPT !.state = "retired"] ELSE gens[s][h]]
         all == (g :> [state |-> "published", checkpoint |-> Len(log[s]), head |-> Len(log[s]),
                       rows |-> Projected(s, work[p].n), at |-> now]) @@ retired
     IN /\ gens' = [gens EXCEPT ![s] = Restrict(all, Kept(all))]
        /\ head' = [head EXCEPT ![s] = g]
  /\ work' = [work EXCEPT ![p] = Advanced(@)]
  /\ UNCHANGED <<log, folds, page, now, faults>>

\* One transaction: the rows and the checkpoint they stand for become the
\* published generation, the one before it is retired, old ones are deleted.
Publish(p) ==
  /\ work[p].pc = "publish"
  /\ LET s == Subject(p)
         g == NextGeneration(s)
         retired == [h \in DOMAIN gens[s] |->
                       IF gens[s][h].state = "published"
                       THEN [gens[s][h] EXCEPT !.state = "retired"] ELSE gens[s][h]]
         all == (g :> [state |-> "published", checkpoint |-> work[p].n, head |-> work[p].n,
                       rows |-> Projected(s, work[p].n), at |-> now]) @@ retired
     IN /\ gens' = [gens EXCEPT ![s] = Restrict(all, Kept(all))]
        /\ head' = [head EXCEPT ![s] = g]
  /\ work' = [work EXCEPT ![p] = Advanced(@)]
  /\ UNCHANGED <<log, folds, page, now, faults>>

\* The store fails a read or the transaction, which rolls back.
RebuildFails(p) ==
  /\ work[p].pc \in {"read", "publish"}
  /\ faults < scenario.faults
  /\ faults' = faults + 1
  /\ work' = [work EXCEPT ![p].pc = "bad"]
  /\ UNCHANGED <<log, folds, gens, head, page, now>>

\* mark_unhealthy: any error quarantines the session at its present length,
\* until another event is appended.
MarkUnhealthy(p) ==
  /\ work[p].pc = "bad"
  /\ LET s == Subject(p) IN
       gens' = IF Quarantined(s) THEN gens
               ELSE [gens EXCEPT ![s] =
                      (NextGeneration(s) :> [state |-> "unhealthy", checkpoint |-> 0,
                                             head |-> Len(log[s]), rows |-> <<>>, at |-> now]) @@ @]
  /\ work' = [work EXCEPT ![p] = Advanced(@)]
  /\ UNCHANGED <<log, folds, head, page, now, faults>>

\* What validate_projection_schema demands whenever the store is opened: a head is
\* a published generation and each published one its session's head, one that is
\* unhealthy has no rows, and a row shows the entity it is filed under.
AuditProjections ==
  \A s \in Sessions :
    /\ head[s] # 0 => head[s] \in DOMAIN gens[s]
    /\ \A g \in DOMAIN gens[s] :
         /\ gens[s][g].state = "published" <=> g = head[s]
         /\ gens[s][g].state = "unhealthy" => gens[s][g].rows = <<>>
         /\ \A id \in DOMAIN gens[s][g].rows :
              id[1] \notin {"capacity", "failure"} => log[s][gens[s][g].rows[id]].key = id[2]

\* The projector's process dies and another one opens the store.
Restart(p) ==
  /\ work[p].pc # "poll"
  /\ faults < scenario.faults
  /\ faults' = faults + 1
  /\ AuditProjections
  /\ work' = [work EXCEPT ![p] = [pc |-> "poll", todo |-> <<>>, n |-> 0]]
  /\ UNCHANGED <<log, folds, gens, head, page, now>>

\* The rows of a view in the order of their sort keys, the event ids.
Ordered(rows, view) ==
  SetToSortSeq({<<id, rows[id]>> : id \in {i \in DOMAIN rows : i[1] = view}},
               LAMBDA a, b : Rank[a[2]] < Rank[b[2]])

\* read_projection without a token: the head's generation.
ReadFirst(r) ==
  LET s == scenario.reads IN
  /\ page[r].pc = "idle"
  /\ head[s] # 0
  /\ LET g == gens[s][head[s]] IN
       page' = [page EXCEPT ![r] = [pc |-> "pinned", gen |-> head[s], checkpoint |-> g.checkpoint,
                  expires |-> 0, got |-> <<>>, want |-> Ordered(g.rows, scenario.view)]]
  /\ UNCHANGED <<log, folds, gens, head, work, now, faults>>

Pinned(r) ==
  LET gs == gens[scenario.reads] IN
  /\ page[r].gen \in DOMAIN gs
  /\ gs[page[r].gen].state \in {"published", "retired"}
  /\ gs[page[r].gen].checkpoint = page[r].checkpoint

MutReadNext(r) ==
  /\ page[r].pc = "token"
  /\ page' = [page EXCEPT ![r].gen = head[scenario.reads], ![r].pc = "pinned"]
  /\ UNCHANGED <<log, folds, gens, head, work, now, faults>>

\* With a token: the generation it names, or ProjectionStale when it has been
\* deleted or the token has expired.
ReadNext(r) ==
  /\ page[r].pc = "token"
  /\ page' = [page EXCEPT ![r].pc = IF Pinned(r) /\ now < page[r].expires
                                    THEN "pinned" ELSE "stale"]
  /\ UNCHANGED <<log, folds, gens, head, work, now, faults>>

\* The page itself, in a query of its own: rows after the token's, one more
\* than the page holds to see whether to give another token.
Fetch(r) ==
  /\ page[r].pc = "pinned"
  /\ LET gs == gens[scenario.reads]
         all == IF page[r].gen \in DOMAIN gs THEN Ordered(gs[page[r].gen].rows, scenario.view)
                ELSE <<>>
         rest == SelectSeq(all, LAMBDA x : \/ page[r].got = <<>>
                                          \/ Rank[x[2]] > Rank[Last(page[r].got)[2]])
         more == Len(rest) > PageSize
     IN page' = [page EXCEPT ![r].got = @ \o (IF more THEN SubSeq(rest, 1, PageSize) ELSE rest),
                             ![r].pc = IF more THEN "token" ELSE "done",
                             ![r].expires = now + 1]
  /\ UNCHANGED <<log, folds, gens, head, work, now, faults>>

ProjectorStep(p) ==
  /\ p \in scenario.projectors
  /\ \/ Poll(p) \/ Compare(p) \/ ReadLog(p) \/ Publish(p) \/ MarkUnhealthy(p)

Next ==
  /\ \/ \E s \in Sessions : AppendEvent(s)
     \/ Minute
     \/ \E p \in Projectors : ProjectorStep(p) \/ RebuildFails(p) \/ Restart(p)
     \/ \E r \in scenario.readers : ReadFirst(r) \/ ReadNext(r) \/ Fetch(r)
  /\ UNCHANGED scenario

Spec == Init /\ [][Next]_vars

-----------------------------------------------------------------------------
(* Properties.                                                             *)

\* The latest of the first n events about an entity.
LatestOf(s, n, family, key) ==
  Max({i \in 1..n : log[s][i].family = family /\ log[s][i].key = key})

\* What the views should hold after the first n events, read off the log.
CurrentRows(s, n) ==
  LET seen == {<<log[s][i].family, log[s][i].key>> : i \in 1..n}
      latest(fk) == LatestOf(s, n, fk[1], fk[2])
      shown == {fk \in seen : /\ fk[1] # "other"
                              /\ ~(fk[1] = "operation" /\ TerminalEvent(log[s][latest(fk)]))}
  IN {<<<<ViewOf(fk[1]), fk[2]>>, latest(fk)>> : fk \in shown}
       \cup {<<<<"failure", <<log[s][i].kind, log[s][i].key>>>>, i>> :
              i \in {j \in 1..n : log[s][j].kind \in {"failed", "dead_lettered", "uncertain"}}}
       \cup {<<<<"capacity", "session">>, n>>}

\* A generation that was ever published shows exactly the latest committed
\* event of every entity up to the checkpoint it states, whatever the store
\* appended while it was being built (rebuild_projection), and the audit of the
\* next open never refuses what the rebuilds and quarantines left.
RowsAreCurrent ==
  /\ \A s \in Sessions : \A g \in DOMAIN gens[s] :
       gens[s][g].state # "unhealthy" =>
         {<<id, gens[s][g].rows[id]>> : id \in DOMAIN gens[s][g].rows}
           = CurrentRows(s, gens[s][g].checkpoint)
  /\ AuditProjections

\* The pages a consumer is given belong to the generation its first page came
\* from, in order, without a gap or a repetition, while rebuilds go on; all of
\* it when the last page says so and the generation was not deleted under the
\* read (read_projection).
PagesPinned ==
  \A r \in Readers :
    /\ IsPrefix(page[r].got, page[r].want)
    /\ page[r].pc = "done" /\ page[r].gen \in DOMAIN gens[scenario.reads]
         => page[r].got = page[r].want

=============================================================================
