---------------------------- MODULE SessionClose ----------------------------
(***************************************************************************)
(* Closing a session over its tree of participants: close_owned and        *)
(* cancel_session_until step by step.  Each step is one read or one        *)
(* transaction of the store; everything Hierarchy does goes on between     *)
(* them.  Two close requests of one session are serialised by its close    *)
(* lock, and a close that ran into its deadline is sent again.             *)
(***************************************************************************)
EXTENDS Hierarchy

\* A request id names one request.
ASSUME CloseAssumption ==
    \A s \in Scenarios : \A k \in s.closes : \A x \in s.commands \cup s.cancels : x.id # k.id

VARIABLES
    closing,     \* per close request: where it is, its epoch, the records it holds, and
                 \* (history) whether the tree was cancelled when it last looked
    tries        \* attempts of each close request so far

cvars == <<closing, tries>>
vars == <<hvars, cvars>>

Closes == scenario.closes

\* Bound: attempts of one close request.
MaxCloses == scenario.MaxCloses

Holding == {"begun", "prior", "asking", "stopping", "driving", "waiting", "quiet", "fallback",
            "proved", "confirmed", "checked"}

At(k, st) == closing[k.id].st = st
Goto(k, st) == closing' = [closing EXCEPT ![k.id].st = st] /\ UNCHANGED tries

\* The records of a cancellation: the operations below the root and the first
\* cancel notification of each.
Records == {p \in Subtree(Root) : Exists(p) /\ op[p] # Absent}

CleanupConfirmed(p) ==
    IF CancelMail(p) # {} THEN \E m \in CancelMail(p) : m.st = "accepted"
    ELSE op[p].st \in Terminal

Confirmed(ps) == \A p \in ps : op[p].st \in Terminal /\ CleanupConfirmed(p)

Unresolved == \E p \in Participants : launch[p] # Absent /\ launch[p].st # "stopped"

\* begin_close: the close lock, and a permit in the current epoch.
BeginClose(k) ==
    /\ At(k, "idle") \/ At(k, "failed")
    /\ tries[k.id] < MaxCloses
    /\ \A x \in Closes : closing[x.id].st \notin Holding
    /\ epoch # 0
    /\ closing' = [closing EXCEPT ![k.id] =
                       [st |-> "begun", epoch |-> epoch, records |-> {}, marked |-> FALSE]]
    /\ tries' = [tries EXCEPT ![k.id] = @ + 1]
    /\ UNCHANGED hvars

\* What an earlier cancellation left behind may already be proof enough: first
\* the operations are read,
InspectPrior(k) ==
    /\ At(k, "begun")
    /\ closing' = [closing EXCEPT ![k.id].st = IF Confirmed(Records) THEN "prior" ELSE "asking",
                                  ![k.id].marked = node[Root].tomb]
    /\ UNCHANGED <<hvars, tries>>

\* ... then the launches.
InspectPriorLaunches(k) ==
    /\ At(k, "prior")
    /\ Goto(k, IF Unresolved THEN "asking" ELSE "confirmed")
    /\ UNCHANGED hvars

WholeTree(k) == [id |-> k.id, root |-> Root]

\* The cancellation of the whole tree, fresh or replayed.
RequestCancellation(k) ==
    /\ At(k, "asking")
    /\ epoch = closing[k.id].epoch
    /\ IF Recorded(k.id) THEN /\ ledger[k.id].epoch = epoch /\ ledger[k.id].host = owner
                              /\ UNCHANGED hvars
       ELSE CancelSubtree(WholeTree(k))
    /\ closing' = [closing EXCEPT ![k.id].st = "stopping", ![k.id].records = Records,
                                  ![k.id].marked = TRUE]
    /\ UNCHANGED tries

\* Workers of the cancelled operations are aborted; what they were observing is
\* offered again.
AbortWorkers(k) ==
    /\ At(k, "stopping")
    /\ call' = [q \in DOMAIN call |->
                   IF call[q].st \in InFlight
                      /\ \E c \in Commands : c.id = q /\ c.by \in closing[k.id].records
                   THEN [call[q] EXCEPT !.st = "asked", !.out = NoName] ELSE call[q]]
    /\ sched' = [p \in Participants |->
                    IF p \in closing[k.id].records /\ sched[p] = "launching" THEN "yes" ELSE sched[p]]
    /\ Goto(k, "driving")
    /\ UNCHANGED <<scenario, epoch, owner, node, tpolicy, policy, grant, op, mail, launch, ledger, cuts,
                   resumed>>

Undelivered(p) == {m \in CancelMail(p) : m.st \notin MessageTerminal}

\* drive_cancellation ends when every notification is settled.  Without a driver
\* to settle one, only operations that ended anyway let the close go on.
DriveCancellation(k) ==
    LET left == {p \in closing[k.id].records : Undelivered(p) # {}}
        over == \A p \in closing[k.id].records : op[p].st \in Terminal
    IN /\ At(k, "driving")
       /\ \/ left = {} /\ Goto(k, "waiting")
          \/ /\ \E p \in left : ~ReadyIn(p, epoch)
             /\ Goto(k, IF over THEN "waiting" ELSE "fallback")
       /\ UNCHANGED hvars

AwaitTerminal(k) ==
    /\ At(k, "waiting")
    /\ \A p \in closing[k.id].records : op[p].st \in Terminal
    /\ Goto(k, "quiet")
    /\ UNCHANGED hvars

\* shutdown_session_until stops the session's drivers; the outcome is read again.
ShutdownSession(k) ==
    /\ At(k, "quiet")
    /\ launch' = [p \in Participants |->
                     IF launch[p] # Absent /\ launch[p].epoch = closing[k.id].epoch
                     THEN [launch[p] EXCEPT !.st = "stopped"] ELSE launch[p]]
    /\ Goto(k, IF Confirmed(closing[k.id].records) THEN "confirmed" ELSE "failed")
    /\ UNCHANGED <<scenario, epoch, owner, node, tpolicy, policy, grant, op, mail, ledger, call, sched,
                   cuts, resumed>>

\* An error of the cancellation, of the wait or of the shutdown: what is durable
\* by now may still be proof enough, again in two reads.
CancellationFails(k) ==
    /\ closing[k.id].st \in {"asking", "stopping", "driving", "waiting", "quiet"}
    /\ Goto(k, "fallback")
    /\ UNCHANGED hvars

InspectAgain(k) ==
    /\ At(k, "fallback")
    /\ closing' = [closing EXCEPT ![k.id].st = IF Confirmed(Records) THEN "proved" ELSE "failed",
                                  ![k.id].marked = node[Root].tomb]
    /\ UNCHANGED <<hvars, tries>>

InspectLaunchesAgain(k) ==
    /\ At(k, "proved")
    /\ Goto(k, IF Unresolved THEN "failed" ELSE "confirmed")
    /\ UNCHANGED hvars

CheckLaunches(k) ==
    /\ At(k, "confirmed")
    /\ Goto(k, IF Unresolved THEN "failed" ELSE "checked")
    /\ UNCHANGED hvars

\* close_session clears the ownership; it looks at the session row alone.
CommitClose(k) ==
    /\ At(k, "checked")
    /\ IF epoch = closing[k.id].epoch
       THEN epoch' = 0 /\ Goto(k, "closed")
       ELSE UNCHANGED epoch /\ Goto(k, "failed")
    /\ UNCHANGED <<scenario, owner, node, tpolicy, policy, grant, op, mail, launch, ledger, call, sched,
                   cuts, resumed>>

\* The close deadline, or an error of a read or of the close itself.
AbandonClose(k) ==
    /\ closing[k.id].st \in Holding
    /\ Goto(k, "failed")
    /\ UNCHANGED hvars

CloseStep(k) ==
    \/ BeginClose(k) \/ InspectPrior(k) \/ InspectPriorLaunches(k) \/ RequestCancellation(k)
    \/ AbortWorkers(k) \/ DriveCancellation(k) \/ AwaitTerminal(k) \/ ShutdownSession(k)
    \/ CancellationFails(k) \/ InspectAgain(k) \/ InspectLaunchesAgain(k)
    \/ CheckLaunches(k) \/ CommitClose(k) \/ AbandonClose(k)

CloseInit ==
    /\ closing = [q \in {k.id : k \in Closes} |->
                    [st |-> "idle", epoch |-> 0, records |-> {}, marked |-> FALSE]]
    /\ tries = [q \in {k.id : k \in Closes} |-> 0]

Init == HierarchyInit /\ CloseInit

Next ==
    \/ HierarchyNext /\ UNCHANGED cvars
    \/ \E k \in Closes : CloseStep(k)

Spec == Init /\ [][Next]_vars

-----------------------------------------------------------------------------
(***************************************************************************)
(* A close that cancelled the tree, or found it cancelled when it looked   *)
(* for proof, leaves a quiet session: every operation is over and every    *)
(* driver's launch is durably stopped, although both are read apart and    *)
(* whatever workers, spawns and a second close did meanwhile               *)
(* (cancel_before_close, close_owned, prepare_launch).                     *)
(***************************************************************************)
CancelledCloseIsQuiet ==
    \A k \in Closes : closing[k.id].st = "closed" /\ closing[k.id].marked =>
        /\ \A p \in Participants : op[p] # Absent => op[p].st \in Terminal
        /\ ~Unresolved

=============================================================================
