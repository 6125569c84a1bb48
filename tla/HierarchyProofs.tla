-------------------------- MODULE HierarchyProofs --------------------------
(***************************************************************************)
(* Theorems about the participants of a session and its closing, for every *)
(* tree of participants, every set of templates and every interleaving of  *)
(* spawns, questions, cancellations, takeovers and closes.                 *)
(***************************************************************************)
EXTENDS SessionClose, FiniteSetTheorems, TLAPS

\* A leaf is tried with SMT, with Zenon, and then with SMT and more time.
USE SMT, Zenon, SMTT(10), SMTT(20), SMTT(30)

(***************************************************************************)
(* Delegation narrows.  DelegationNarrows is not inductive: a new child is *)
(* compared with its parent, and that the parent's authority lies within   *)
(* the root's has to be known already, which needs the shape of the tree.  *)
(***************************************************************************)

\* A participant's row.
NodeRow(r) ==
    /\ DOMAIN r = {"parent", "tmpl", "depth", "tomb"}
    /\ r = [f \in DOMAIN r |-> r[f]]

\* The shape of the tree: the root has no parent, and everyone else has an
\* existing one that was given its policy before, as the root was.
Rooted ==
    /\ scenario \in Scenarios
    /\ node = [p \in Participants |-> node[p]]
    /\ policy = [p \in Participants |-> policy[p]]
    /\ \A p \in Participants : Exists(p) => NodeRow(node[p])
    /\ Exists(Root) /\ Parent(Root) = NoName
    /\ \A p \in Participants : Exists(p) /\ p # Root =>
          /\ Parent(p) \in Participants /\ Exists(Parent(p))
          /\ policy[Parent(p)] # Absent /\ policy[Root] # Absent

\* What a participant may hand on and do lies within what its parent and the root
\* may hand on.
Narrows(p) ==
    /\ policy[p]["subject"].delegable \subseteq policy[Parent(p)]["subject"].delegable
    /\ \A a \in policy[p]["subject"].active :
          Permits(policy[Parent(p)]["subject"].delegable, a)
    /\ policy[p]["subject"].delegable \subseteq policy[Root]["subject"].delegable

Narrowing == \A p \in Participants : HasParent(p) => Narrows(p)

Existing == {p \in Participants : Exists(p)}

TreeInv == Rooted /\ Narrowing /\ AuditTopology

-----------------------------------------------------------------------------
\* The limits on the tree are numbers.
LEMMA LimitTypes ==
    /\ MaxChildren \in Nat /\ 0 <= MaxChildren
    /\ MaxDepth \in Nat /\ 1 <= MaxDepth
    /\ MaxParticipants \in Nat /\ 1 <= MaxParticipants
  BY BoundsAssumption

\* A row is not the absent one.
LEMMA RowsExist ==
    ASSUME NEW r, NodeRow(r)
    PROVE  r # Absent
  <1>1. "absent" \in DOMAIN Absent
    BY DEF Absent
  <1> QED BY <1>1 DEF NodeRow

\* Marking a row changes neither its place in the tree nor that it is one.
LEMMA MarkedRow ==
    ASSUME NEW r, NodeRow(r)
    PROVE  LET t == [r EXCEPT !.tomb = TRUE]
           IN NodeRow(t) /\ t.parent = r.parent /\ t.depth = r.depth /\ t.tomb
  BY Zenon DEF NodeRow

\* A policy is not the absent one.
LEMMA PoliciesExist ==
    /\ \A par, tp : ChildPolicy(par, tp) # Absent
    /\ \A profile : RootPolicy(profile) # Absent
  <1>1. "session" \in Ceilings /\ "session" \notin DOMAIN Absent
    BY DEF Ceilings, Absent
  <1>2. /\ \A par, tp : DOMAIN ChildPolicy(par, tp) = Ceilings
        /\ \A profile : DOMAIN RootPolicy(profile) = Ceilings
    BY DEF ChildPolicy, RootPolicy
  <1> QED BY <1>1, <1>2

\* A child's policy that fits under its ceilings hands on what its parent hands
\* on, and acts within that.
LEMMA FittingNarrows ==
    ASSUME NEW par, NEW tp, FitsCeilings(ChildPolicy(par, tp))
    PROVE  LET pol == ChildPolicy(par, tp)
           IN /\ pol["subject"].delegable \subseteq par["subject"].delegable
              /\ \A a \in pol["subject"].active : Permits(par["subject"].delegable, a)
  <1> DEFINE pol == ChildPolicy(par, tp)
  <1>1. "parent" \in Ceilings
    BY DEF Ceilings
  <1>2. pol["parent"] = par["subject"]
    BY <1>1 DEF ChildPolicy
  <1> HIDE DEF pol
  <1>3. FitsCeilings(pol)
    BY DEF pol
  <1>4. pol["subject"].delegable \subseteq pol["parent"].delegable
    BY <1>1, <1>3 DEF FitsCeilings, AuthorizesChildCreation
  <1>5. \A a \in pol["subject"].active : Permits(pol["parent"].delegable, a)
    BY <1>3 DEF FitsCeilings, AuthorizesEffect
  <1> QED BY <1>2, <1>4, <1>5 DEF pol

-----------------------------------------------------------------------------
\* What leaves participants and policies alone keeps the invariant.
LEMMA TreeUntouched ==
    ASSUME TreeInv, UNCHANGED <<scenario, node, policy>>
    PROVE  TreeInv'
  <1>1. \A p : /\ Exists(p)' = Exists(p) /\ Parent(p)' = Parent(p)
              /\ HasParent(p)' = HasParent(p) /\ Narrows(p)' = Narrows(p)
              /\ Children(p)' = Children(p)
    BY DEF Exists, Parent, HasParent, Narrows, Children
  <1>2. Rooted'
    BY <1>1 DEF TreeInv, Rooted
  <1>3. Narrowing'
    BY <1>1 DEF TreeInv, Narrowing
  <1>4. AuditTopology'
    BY <1>1, Zenon DEF TreeInv, AuditTopology
  <1> QED BY <1>2, <1>3, <1>4 DEF TreeInv

LEMMA TreeInit ==
    ASSUME Init
    PROVE  TreeInv
  <1> USE RootAssumption
  <1> DEFINE row == [parent |-> NoName, tmpl |-> scenario.roottmpl, depth |-> 1, tomb |-> FALSE]
  <1>1. /\ scenario \in Scenarios
        /\ node = [p \in Participants |-> IF p = Root THEN row ELSE Absent]
    BY DEF Init, HierarchyInit
  <1>2. policy = [p \in Participants |-> policy[p]]
    BY DEF Init, HierarchyInit
  <1>3. NodeRow(row) /\ row.parent = NoName
    BY DEF NodeRow
  <1>4. row # Absent
    BY <1>3, RowsExist, Zenon
  <1> HIDE DEF row
  <1>5. Exists(Root) /\ Parent(Root) = NoName
    BY <1>1, <1>3, <1>4 DEF Exists, Parent
  <1>6. \A p \in Participants : Exists(p) => p = Root
    BY <1>1 DEF Exists
  <1>7. NodeRow(node[Root])
    BY <1>1, <1>3
  <1>8. node = [p \in Participants |-> node[p]]
    BY <1>1
  <1>9. Rooted
    BY <1>1, <1>2, <1>5, <1>6, <1>7, <1>8 DEF Rooted
  <1>10. Narrowing
    BY <1>5, <1>6 DEF Narrowing, HasParent
  <1>11. AuditTopology
    <2>1. Children(Root) = {}
      BY <1>5, <1>6 DEF Children
    <2>2. Existing = {Root}
      BY <1>5, <1>6 DEF Existing
    <2>3. Cardinality(Children(Root)) = 0 /\ Cardinality(Existing) = 1
      BY <2>1, <2>2, FS_EmptySet, FS_Singleton, Zenon
    <2>4. node[Root].depth = 1
      BY <1>1 DEF row
    <2> QED BY <1>5, <1>6, <2>3, <2>4, LimitTypes DEF AuditTopology, Existing
  <1> QED BY <1>9, <1>10, <1>11 DEF TreeInv

\* put_authority_policy finds a root without children: everyone else's parent had
\* its policy after the root had.
LEMMA RootPolicyStep ==
    ASSUME TreeInv, PutRootPolicy
    PROVE  TreeInv'
  <1> USE RootAssumption
  <1>1. UNCHANGED <<scenario, node>> /\ policy[Root] = Absent
    BY DEF PutRootPolicy
  <1>2. policy' = [p \in Participants |-> policy'[p]]
    BY DEF TreeInv, Rooted, PutRootPolicy
  <1>3. \A p \in Participants : Exists(p) => p = Root
    BY <1>1 DEF TreeInv, Rooted
  <1>4. Rooted'
    BY <1>1, <1>2, <1>3 DEF TreeInv, Rooted, Exists, Parent, NodeRow
  <1>5. Narrowing'
    BY <1>1, <1>3 DEF TreeInv, Rooted, Narrowing, HasParent, Exists, Parent
  <1>6. AuditTopology'
    <2>1. \A p : Exists(p)' = Exists(p) /\ Parent(p)' = Parent(p) /\ Children(p)' = Children(p)
      BY <1>1 DEF Exists, Parent, Children
    <2> QED BY <1>1, <2>1, Zenon DEF TreeInv, AuditTopology
  <1> QED BY <1>4, <1>5, <1>6 DEF TreeInv

\* cancel_subtree marks rows, and moves nobody.
LEMMA CancelStep ==
    ASSUME TreeInv, NEW k, CancelSubtree(k)
    PROVE  TreeInv'
  <1> USE RootAssumption
  <1> DEFINE below == {p \in Subtree(k.root) : Exists(p)}
  <1>1. /\ UNCHANGED <<scenario, policy>>
        /\ node' = [p \in Participants |->
                      IF p \in below THEN [node[p] EXCEPT !.tomb = TRUE] ELSE node[p]]
    BY DEF CancelSubtree
  <1>2. \A p \in Participants : p \in below => Exists(p)
    OBVIOUS
  <1> HIDE DEF below
  <1>3. ASSUME NEW p \in Participants
        PROVE  /\ Exists(p)' <=> Exists(p)
               /\ Exists(p) => /\ NodeRow(node'[p]) /\ Parent(p)' = Parent(p)
                               /\ node'[p].depth = node[p].depth
    <2>1. CASE p \in below
      <3>1. Exists(p) /\ NodeRow(node[p])
        BY <1>2, <2>1 DEF TreeInv, Rooted
      <3>2. node'[p] = [node[p] EXCEPT !.tomb = TRUE]
        BY <1>1, <2>1
      <3>3. /\ NodeRow(node'[p]) /\ node'[p].parent = node[p].parent
            /\ node'[p].depth = node[p].depth
        BY <3>1, <3>2, MarkedRow
      <3>4. node'[p] # Absent
        BY <3>3, RowsExist
      <3> QED BY <3>1, <3>3, <3>4 DEF Exists, Parent
    <2>2. CASE p \notin below
      BY <1>1, <2>2 DEF TreeInv, Rooted, Exists, Parent
    <2> QED BY <2>1, <2>2
  <1>4. node' = [p \in Participants |-> node'[p]]
    BY <1>1
  <1>5. Rooted'
    <2>1. \A p \in Participants : Exists(p)' => NodeRow(node'[p])
      BY <1>3
    <2>2. Exists(Root)' /\ Parent(Root)' = NoName
      BY <1>3 DEF TreeInv, Rooted
    <2>3. \A p \in Participants : Exists(p)' /\ p # Root =>
            /\ Parent(p)' \in Participants /\ Exists(Parent(p))'
            /\ policy[Parent(p)'] # Absent /\ policy[Root] # Absent
      BY <1>3 DEF TreeInv, Rooted
    <2> QED BY <1>1, <1>4, <2>1, <2>2, <2>3 DEF TreeInv, Rooted
  <1>6. Narrowing'
    BY <1>1, <1>3, Zenon DEF TreeInv, Rooted, Narrowing, Narrows, HasParent
  <1>7. AuditTopology'
    <2>1. Existing' = Existing /\ \A p : Children(p)' = Children(p)
      BY <1>3 DEF Existing, Children
    <2>2. ASSUME NEW p \in Participants, Exists(p)
          PROVE  /\ node'[p].depth \in 1..MaxDepth
                 /\ IF Parent(p)' = NoName THEN node'[p].depth = 1
                    ELSE Exists(Parent(p))' /\ node'[p].depth = node'[Parent(p)'].depth + 1
      <3>1. Parent(p)' = Parent(p) /\ node'[p].depth = node[p].depth
        BY <1>3, <2>2
      <3>2. Parent(p) # NoName => Parent(p) \in Participants /\ Exists(Parent(p))
        BY <2>2 DEF TreeInv, Rooted
      <3>3. Parent(p) # NoName => Exists(Parent(p))' /\ node'[Parent(p)].depth = node[Parent(p)].depth
        BY <1>3, <3>1, <3>2
      <3> QED BY <2>2, <3>1, <3>2, <3>3 DEF TreeInv, AuditTopology
    <2> QED BY <1>3, <2>1, <2>2 DEF TreeInv, AuditTopology, Existing
  <1> QED BY <1>5, <1>6, <1>7 DEF TreeInv

\* create_authorized_child: the child is new, its parent exists and has a policy,
\* and its own policy fits.
LEMMA SpawnStep ==
    ASSUME TreeInv, NEW c, c \in Commands, ChildFits(c), CreateChild(c)
    PROVE  TreeInv'
  <1> USE RootAssumption
  <1> DEFINE row == [parent |-> c.by, tmpl |-> c.tmpl, depth |-> node[c.by].depth + 1, tomb |-> FALSE]
             pol == ChildPolicy(policy[c.by], tpolicy[c.tmpl])
  <1>1. c.by \in Participants /\ c.to \in Participants
    BY CommandAssumption DEF TreeInv, Rooted, Commands
  <1>2. /\ Exists(c.by) /\ ~Exists(c.to)
        /\ policy[c.by] # Absent
        /\ FitsCeilings(pol)
    BY DEF ChildFits
  <1>3. /\ UNCHANGED scenario
        /\ node' = [node EXCEPT ![c.to] = row]
        /\ policy' = [policy EXCEPT ![c.to] = pol]
    BY DEF CreateChild
  <1>4. NodeRow(row) /\ row.parent = c.by /\ row.depth = node[c.by].depth + 1
    BY DEF NodeRow
  <1>5. row # Absent
    BY <1>4, RowsExist, Zenon
  <1>6. pol # Absent
    BY PoliciesExist
  <1>7. /\ pol["subject"].delegable \subseteq policy[c.by]["subject"].delegable
        /\ \A a \in pol["subject"].active : Permits(policy[c.by]["subject"].delegable, a)
    BY <1>2, FittingNarrows
  <1> HIDE DEF row, pol
  <1>8. /\ node' = [p \in Participants |-> node'[p]]
        /\ policy' = [p \in Participants |-> policy'[p]]
        /\ node'[c.to] = row /\ policy'[c.to] = pol
        /\ \A p \in Participants \ {c.to} : node'[p] = node[p] /\ policy'[p] = policy[p]
    BY <1>1, <1>3, Zenon DEF TreeInv, Rooted
  <1>9. c.by # c.to /\ Root # c.to
    BY <1>2 DEF TreeInv, Rooted
  <1>10. policy[Root] # Absent
    BY <1>1, <1>2 DEF TreeInv, Rooted
  <1>11. ASSUME NEW p \in Participants, p # c.to
         PROVE  (Exists(p)' <=> Exists(p)) /\ Parent(p)' = Parent(p)
    BY <1>8, <1>11 DEF Exists, Parent
  <1>12. Exists(c.to)' /\ Parent(c.to)' = c.by
    BY <1>4, <1>5, <1>8 DEF Exists, Parent
  <1>13. ASSUME NEW p \in Participants, p # c.to, p # Root, Exists(p)
         PROVE  Parent(p) \in Participants \ {c.to} /\ Exists(Parent(p))
    BY <1>2, <1>13 DEF TreeInv, Rooted
  <1>14. Rooted'
    <2>1. \A p \in Participants : Exists(p)' => NodeRow(node'[p])
      BY <1>4, <1>8, <1>11 DEF TreeInv, Rooted
    <2>2. Exists(Root)' /\ Parent(Root)' = NoName
      BY <1>9, <1>11 DEF TreeInv, Rooted
    <2>3. policy'[Root] # Absent
      BY <1>8, <1>9, <1>10
    <2>4. ASSUME NEW p \in Participants, Exists(p)', p # Root
          PROVE  /\ Parent(p)' \in Participants /\ Exists(Parent(p))'
                 /\ policy'[Parent(p)'] # Absent
      <3>1. CASE p = c.to
        BY <1>1, <1>2, <1>8, <1>9, <1>11, <1>12, <3>1
      <3>2. CASE p # c.to
        BY <1>8, <1>11, <1>13, <2>4, <3>2 DEF TreeInv, Rooted
      <3> QED BY <3>1, <3>2
    <2> QED BY <1>3, <1>8, <2>1, <2>2, <2>3, <2>4 DEF TreeInv, Rooted
  <1>15. policy[c.by]["subject"].delegable \subseteq policy[Root]["subject"].delegable
    <2>1. c.by # Root => HasParent(c.by)
      BY <1>1, <1>2 DEF TreeInv, Rooted, HasParent
    <2> QED BY <1>1, <2>1 DEF TreeInv, Narrowing, Narrows
  <1>16. Narrowing'
    <2> SUFFICES ASSUME NEW p \in Participants, HasParent(p)'
                 PROVE  Narrows(p)'
      BY DEF Narrowing
    <2>1. CASE p = c.to
      BY <1>1, <1>7, <1>8, <1>9, <1>12, <1>15, <2>1 DEF Narrows
    <2>2. CASE p # c.to
      <3>1. HasParent(p) /\ Parent(p)' = Parent(p)
        BY <1>11, <2>2 DEF HasParent
      <3>2. Parent(p) \in Participants \ {c.to}
        BY <1>13, <2>2, <3>1 DEF TreeInv, Rooted, HasParent
      <3>3. /\ policy'[p] = policy[p] /\ policy'[Parent(p)] = policy[Parent(p)]
            /\ policy'[Root] = policy[Root]
        BY <1>8, <1>9, <2>2, <3>2
      <3> QED BY <3>1, <3>3 DEF TreeInv, Narrowing, Narrows
    <2> QED BY <2>1, <2>2
  <1>17. AuditTopology'
    <2>1. Children(c.to) = {}
      BY <1>1, <1>13, <1>2 DEF TreeInv, Rooted, Children
    <2>2. \A p : Children(p)' = IF p = c.by THEN Children(p) \cup {c.to} ELSE Children(p)
      BY <1>1, <1>2, <1>11, <1>12 DEF Children
    <2>3. Existing' = Existing \cup {c.to} /\ c.to \notin Existing
      BY <1>1, <1>2, <1>11, <1>12 DEF Existing
    <2>4. /\ IsFiniteSet(Existing) /\ IsFiniteSet(Children(c.by))
          /\ c.to \notin Children(c.by)
      BY <1>2, FS_Subset, BoundsAssumption DEF Existing, Children
    <2>5. /\ Cardinality(Existing') = Cardinality(Existing) + 1
          /\ Cardinality(Existing) \in Nat
      BY <2>3, <2>4, FS_AddElement, FS_CardinalityType, Zenon
    <2>6. /\ Cardinality(Children(c.by)') = Cardinality(Children(c.by)) + 1
          /\ Cardinality(Children(c.by)) \in Nat
      BY <2>2, <2>4, FS_AddElement, FS_CardinalityType, Zenon
    <2>7. Cardinality(Existing) < MaxParticipants /\ Cardinality(Children(c.by)) < MaxChildren
      BY DEF ChildFits, Existing
    <2>8. Cardinality(Existing') <= MaxParticipants
      BY <2>5, <2>7, LimitTypes
    <2>9. ASSUME NEW p \in Participants, Exists(p)'
          PROVE  Cardinality(Children(p)') <= MaxChildren
      <3>1. CASE p = c.by
        BY <2>6, <2>7, <3>1, LimitTypes
      <3>2. CASE p = c.to
        BY <1>9, <2>1, <2>2, <3>2, FS_EmptySet, LimitTypes
      <3>3. CASE p \notin {c.by, c.to}
        BY <1>11, <2>2, <2>9, <3>3 DEF TreeInv, AuditTopology
      <3> QED BY <3>1, <3>2, <3>3
    <2>10. ASSUME NEW p \in Participants, Exists(p)'
           PROVE  /\ node'[p].depth \in 1..MaxDepth
                  /\ IF Parent(p)' = NoName THEN node'[p].depth = 1
                     ELSE Exists(Parent(p))' /\ node'[p].depth = node'[Parent(p)'].depth + 1
      <3>1. CASE p = c.to
        <4>1. node'[p].depth = node[c.by].depth + 1 /\ node'[c.by] = node[c.by]
          BY <1>1, <1>4, <1>8, <1>9, <3>1
        <4>2. node[c.by].depth \in 1..MaxDepth
          BY <1>1, <1>2 DEF TreeInv, AuditTopology
        <4>3. Parent(p)' = c.by /\ Exists(c.by)' /\ c.by # NoName
          BY <1>1, <1>2, <1>9, <1>11, <1>12, <3>1
        <4>4. node[c.by].depth < MaxDepth
          BY DEF ChildFits
        <4> QED BY <4>1, <4>2, <4>3, <4>4, LimitTypes
      <3>2. CASE p # c.to
        <4>1. Exists(p) /\ Parent(p)' = Parent(p) /\ node'[p] = node[p]
          BY <1>8, <1>11, <2>10, <3>2
        <4>2. Parent(p) # NoName => Parent(p) \in Participants \ {c.to} /\ Exists(Parent(p))
          BY <1>13, <3>2, <4>1 DEF TreeInv, Rooted
        <4>3. Parent(p) # NoName => Exists(Parent(p))' /\ node'[Parent(p)] = node[Parent(p)]
          BY <1>8, <1>11, <4>1, <4>2
        <4> QED BY <4>1, <4>3 DEF TreeInv, AuditTopology
      <3> QED BY <3>1, <3>2
    <2> QED BY <2>8, <2>9, <2>10 DEF AuditTopology, Existing
  <1> QED BY <1>14, <1>16, <1>17 DEF TreeInv

\* A command that is applied: only an allowed spawn touches the tree.
LEMMA ApplyStep ==
    ASSUME TreeInv, NEW c, c \in Commands, Apply(c)
    PROVE  TreeInv'
  <1>1. CASE c.kind = "spawn" /\ ChildFits(c) /\ CreateChild(c)
    BY <1>1, SpawnStep
  <1>2. CASE UNCHANGED <<scenario, node, policy>>
    BY <1>2, TreeUntouched
  <1>3. \/ ChildFits(c) /\ CreateChild(c) /\ c.kind = "spawn"
        \/ UNCHANGED <<scenario, node, policy>>
    <2>1. CASE Replay(c)
      BY <2>1 DEF Replay
    <2>2. CASE RefuseStale(c)
      BY <2>2 DEF RefuseStale
    <2>3. CASE ApplySpawn(c)
      BY <2>3 DEF ApplySpawn, RefuseSpawn, Denied
    <2>4. CASE ApplyEffect(c)
      BY <2>4 DEF ApplyEffect, Denied
    <2>5. CASE ApplyStatus(c)
      BY <2>5 DEF ApplyStatus
    <2>6. CASE ApplyCheck(c)
      BY <2>6 DEF ApplyCheck
    <2> QED BY <2>1, <2>2, <2>3, <2>4, <2>5, <2>6 DEF Apply, Fresh
  <1> QED BY <1>1, <1>2, <1>3

\* The other steps of a driver's command, and those of a driver's worker.
LEMMA CommandUntouched ==
    ASSUME NEW c, Issue(c) \/ Verify(c) \/ Schedule(c) \/ Ack(c) \/ Interrupt(c) \/ Reoffer(c)
    PROVE  UNCHANGED <<scenario, node, policy>>
  BY DEF Issue, Verify, Schedule, Ack, Interrupt, Reoffer

LEMMA WorkerUntouched ==
    ASSUME NEW p, \/ Begin(p) \/ EnsureReady(p) \/ PrepareLaunch(p) \/ LaunchReady(p)
                  \/ StopLaunch(p) \/ Run(p) \/ ResumeExisting(p) \/ StartOperation(p)
                  \/ \E a \in Terminal : Finish(p, a)
    PROVE  UNCHANGED <<scenario, node, policy>>
  BY DEF Begin, EnsureReady, PrepareLaunch, LaunchReady, StopLaunch, Run, ResumeExisting,
         StartOperation, Finish

\* A step of close_owned: only the cancellation it asks for touches the tree.
LEMMA CloseTouches ==
    ASSUME NEW k, CloseStep(k)
    PROVE  \/ CancelSubtree(WholeTree(k))
           \/ UNCHANGED <<scenario, node, policy, op, mail, ledger, resumed>>
  <1>1. CASE RequestCancellation(k)
    BY <1>1 DEF RequestCancellation, hvars
  <1>2. CASE AbortWorkers(k) \/ ShutdownSession(k) \/ CommitClose(k)
    BY <1>2, Zenon DEF AbortWorkers, ShutdownSession, CommitClose
  <1>3. CASE \/ BeginClose(k) \/ InspectPrior(k) \/ InspectPriorLaunches(k) \/ DriveCancellation(k)
             \/ AwaitTerminal(k) \/ CancellationFails(k) \/ InspectAgain(k) \/ InspectLaunchesAgain(k)
             \/ CheckLaunches(k) \/ AbandonClose(k)
    <2>1. UNCHANGED hvars
      BY <1>3, Zenon DEF BeginClose, InspectPrior, InspectPriorLaunches, DriveCancellation,
                  AwaitTerminal, CancellationFails, InspectAgain, InspectLaunchesAgain, CheckLaunches,
                  AbandonClose, hvars
    <2> QED BY <2>1 DEF hvars
  <1> QED BY <1>1, <1>2, <1>3, Zenon DEF CloseStep

LEMMA TreeStep ==
    ASSUME TreeInv, [Next]_vars
    PROVE  TreeInv'
  <1>1. CASE UNCHANGED vars
    BY <1>1, TreeUntouched DEF vars, hvars
  <1>2. CASE \E t \in DOMAIN tpolicy : RegisterTemplatePolicy(t)
    BY <1>2, TreeUntouched DEF RegisterTemplatePolicy
  <1>3. CASE PutRootPolicy
    BY <1>3, RootPolicyStep
  <1>4. CASE \E g \in Grants : IssueGrant(g) \/ RevokeGrant(g) \/ ExpireGrant(g)
    BY <1>4, TreeUntouched DEF IssueGrant, RevokeGrant, ExpireGrant
  <1>5. ASSUME NEW c \in Commands, Apply(c) PROVE TreeInv'
    BY <1>5, ApplyStep
  <1>6. ASSUME NEW c \in Commands,
               Issue(c) \/ Verify(c) \/ Schedule(c) \/ Ack(c) \/ Interrupt(c) \/ Reoffer(c)
        PROVE  TreeInv'
    BY <1>6, CommandUntouched, TreeUntouched
  <1>7. ASSUME NEW p \in Participants,
               \/ Begin(p) \/ EnsureReady(p) \/ PrepareLaunch(p) \/ LaunchReady(p)
               \/ StopLaunch(p) \/ Run(p) \/ ResumeExisting(p) \/ StartOperation(p)
               \/ \E a \in Terminal : Finish(p, a)
        PROVE  TreeInv'
    BY <1>7, WorkerUntouched, TreeUntouched
  <1>8. CASE \E m \in mail : Pend(m) \/ Retry(m) \/ Accept(m)
    BY <1>8, TreeUntouched DEF Pend, Retry, Accept
  <1>9. CASE \E k \in scenario.cancels : CancelSubtree(k)
    BY <1>9, CancelStep
  <1>10. CASE \E h \in {1, 2} : Takeover(h)
    BY <1>10, TreeUntouched DEF Takeover
  <1>11. CASE \E k \in Closes : CloseStep(k)
    BY <1>11, CloseTouches, CancelStep, TreeUntouched
  <1> QED BY <1>1, <1>2, <1>3, <1>4, <1>5, <1>6, <1>7, <1>8, <1>9, <1>10, <1>11
          DEF Next, HierarchyNext

-----------------------------------------------------------------------------
(***************************************************************************)
(* Whatever chain of spawns made a participant, it hands on no more than   *)
(* its parent and the root hand on, and acts within what its parent hands  *)
(* on (create_authorized_child, put_authority_policy): for every tree,     *)
(* every profile and template, and every interleaving with cancellations,  *)
(* takeovers and closes.                                                   *)
(***************************************************************************)
THEOREM AuthorityNarrows == Spec => []DelegationNarrows
  <1>1. Init => TreeInv
    BY TreeInit
  <1>2. TreeInv /\ [Next]_vars => TreeInv'
    BY TreeStep
  <1>3. TreeInv => DelegationNarrows
    BY DEF TreeInv, Narrowing, Narrows, DelegationNarrows
  <1> QED BY <1>1, <1>2, <1>3, PTL DEF Spec

-----------------------------------------------------------------------------
(***************************************************************************)
(* One resume per question.  A question's id is its command's, which the   *)
(* ledger records when the operation starts waiting on it; so a wait names *)
(* a recorded question that no other operation waits on and no answer has  *)
(* resumed yet.                                                            *)
(***************************************************************************)

\* A message's row.
MessageRow(m) ==
    /\ DOMAIN m = {"id", "kind", "from", "to", "about", "reply", "st"}
    /\ m = [f \in DOMAIN m |-> m[f]]

\* Answers go to participants that have an operation.
MailFits(m) == MessageRow(m) /\ (m.kind = "resume" => m.to \in Participants /\ op[m.to] # Absent)

Questions == {<<"effect", q>> : q \in Requests}

Asked(w) == \E q \in Requests : w = <<"effect", q>> /\ Recorded(q)

Waits(p) == op[p] # Absent /\ op[p].waits # NoMail

WaitInv ==
    /\ scenario \in Scenarios
    /\ op = [p \in Participants |-> op[p]]
    /\ ledger = [q \in Requests |-> ledger[q]]
    /\ resumed \in Seq(Questions)
    /\ \A m \in mail : MailFits(m)
    /\ AuditWaiting
    /\ \A p \in Participants : Waits(p) => Asked(op[p].waits)
    /\ \A p, x \in Participants : Waits(p) /\ Waits(x) /\ op[p].waits = op[x].waits => p = x
    /\ \A i \in 1..Len(resumed) : Asked(resumed[i])
    /\ \A i \in 1..Len(resumed) : \A p \in Participants : Waits(p) => op[p].waits # resumed[i]
    /\ \A i, j \in 1..Len(resumed) : resumed[i] = resumed[j] => i = j

\* A new message has a message's row, and so has one whose state changed.
LEMMA MessageFacts ==
    /\ \A id, kind, from, to, about, reply :
          LET m == Message(id, kind, from, to, about, reply)
          IN MessageRow(m) /\ m.kind = kind /\ m.to = to
    /\ \A m, st : MessageRow(m) =>
          LET x == [m EXCEPT !.st = st]
          IN MessageRow(x) /\ x.kind = m.kind /\ x.to = m.to
  BY DEF MessageRow, Message

\* No row is the absent one.
LEMMA RowsDiffer ==
    /\ \A st, rev, w : [st |-> st, rev |-> rev, waits |-> w] # Absent
    /\ \A h, e, out : [host |-> h, epoch |-> e, out |-> out] # Absent
  <1>1. "absent" \in DOMAIN Absent
    BY DEF Absent
  <1> QED BY <1>1

\* A question has an id.
LEMMA QuestionsNotNoMail == \A q : <<"effect", q>> # NoMail
  BY DEF NoMail

\* What a step that asks nothing and resumes nothing does: operations stay or move
\* to a state in which they do not wait, and the ledger only grows.
Quiet ==
    /\ UNCHANGED <<scenario, resumed>>
    /\ op' = [p \in Participants |-> op'[p]]
    /\ \A p \in Participants :
          \/ op'[p] = op[p]
          \/ op'[p] # Absent /\ op'[p].st # "waiting" /\ op'[p].waits = NoMail
    /\ ledger' = [q \in Requests |-> ledger'[q]]
    /\ \A q \in Requests : Recorded(q) => Recorded(q)'
    /\ \A m \in mail' : MailFits(m) \/ (MessageRow(m) /\ m.kind # "resume")

LEMMA WaitQuiet ==
    ASSUME WaitInv, Quiet
    PROVE  WaitInv'
  <1>1. Requests' = Requests /\ Questions' = Questions
    BY DEF Quiet, Requests, Questions, Commands
  <1>2. \A w : Asked(w) => Asked(w)'
    BY <1>1 DEF Asked, Quiet
  <1>3. \A p \in Participants : Waits(p)' => Waits(p) /\ op'[p] = op[p]
    BY DEF Waits, Quiet
  <1>4. \A p \in Participants : op[p] # Absent => op'[p] # Absent
    BY DEF Quiet
  <1>5. \A m \in mail' : MailFits(m)'
    BY <1>4 DEF Quiet, MailFits
  <1>6. AuditWaiting'
    BY DEF Quiet, WaitInv, AuditWaiting
  <1>7. \A p \in Participants : Waits(p)' => Asked(op[p].waits)'
    BY <1>2, <1>3 DEF WaitInv
  <1>8. \A p, x \in Participants : Waits(p)' /\ Waits(x)' /\ op'[p].waits = op'[x].waits => p = x
    BY <1>3 DEF WaitInv
  <1>9. /\ resumed' = resumed
        /\ \A i \in 1..Len(resumed) : Asked(resumed[i])'
        /\ \A i \in 1..Len(resumed) : \A p \in Participants : Waits(p)' => op'[p].waits # resumed[i]
    BY <1>2, <1>3 DEF WaitInv, Quiet
  <1>10. resumed' \in Seq(Questions')
    BY <1>1, <1>9 DEF WaitInv
  <1>11. scenario' \in Scenarios /\ op' = [p \in Participants |-> op'[p]]
         /\ ledger' = [q \in Requests' |-> ledger'[q]]
    BY <1>1 DEF Quiet, WaitInv
  <1> QED BY <1>5, <1>6, <1>7, <1>8, <1>9, <1>10, <1>11 DEF WaitInv

\* A question is asked: its command is recorded with the wait.
LEMMA WaitAsks ==
    ASSUME WaitInv, NEW p \in Participants, NEW q \in Requests, ~Recorded(q), NEW rev,
           UNCHANGED <<scenario, resumed>>,
           op' = [op EXCEPT ![p] = [st |-> "waiting", rev |-> rev, waits |-> <<"effect", q>>]],
           ledger' = [x \in Requests |-> ledger'[x]], Recorded(q)',
           \A x \in Requests : Recorded(x) => Recorded(x)',
           \A m \in mail' : MailFits(m) \/ (MessageRow(m) /\ m.kind # "resume")
    PROVE  WaitInv'
  <1> DEFINE row == [st |-> "waiting", rev |-> rev, waits |-> <<"effect", q>>]
  <1>1. Requests' = Requests /\ Questions' = Questions
    BY DEF Requests, Questions, Commands
  <1>2. \A w : Asked(w) => Asked(w)'
    BY <1>1 DEF Asked
  <1>3. row # Absent /\ row.waits = <<"effect", q>> /\ row.waits # NoMail /\ row.st = "waiting"
    BY RowsDiffer, QuestionsNotNoMail
  <1>4. Asked(row.waits)' /\ ~Asked(row.waits)
    BY <1>1, <1>3 DEF Asked
  <1> HIDE DEF row
  <1>5. op'[p] = row /\ \A x \in Participants \ {p} : op'[x] = op[x]
    BY DEF WaitInv, row
  <1>6. op' = [x \in Participants |-> op'[x]]
    BY DEF WaitInv
  <1>7. Waits(p)' /\ \A x \in Participants \ {p} : Waits(x)' = Waits(x)
    BY <1>3, <1>5 DEF Waits
  <1>8. \A x \in Participants : op[x] # Absent => op'[x] # Absent
    BY <1>3, <1>5
  <1>9. \A m \in mail' : MailFits(m)'
    BY <1>8 DEF MailFits
  <1>10. AuditWaiting'
    BY <1>3, <1>5 DEF WaitInv, AuditWaiting
  <1>11. \A x \in Participants : Waits(x)' => Asked(op[x].waits)'
    BY <1>2, <1>4, <1>5, <1>7, Zenon DEF WaitInv
  <1>12. \A x, y \in Participants : Waits(x)' /\ Waits(y)' /\ op'[x].waits = op'[y].waits => x = y
    BY <1>4, <1>5, <1>7, Zenon DEF WaitInv
  <1>13. /\ \A i \in 1..Len(resumed) : Asked(resumed[i])'
         /\ \A i \in 1..Len(resumed) : \A x \in Participants : Waits(x)' => op'[x].waits # resumed[i]
    BY <1>2, <1>4, <1>5, <1>7, Zenon DEF WaitInv
  <1>14. resumed' = resumed /\ resumed' \in Seq(Questions')
    BY <1>1 DEF WaitInv
  <1>15. scenario' \in Scenarios /\ ledger' = [x \in Requests' |-> ledger'[x]]
    BY <1>1 DEF WaitInv
  <1> QED BY <1>6, <1>9, <1>10, <1>11, <1>12, <1>13, <1>14, <1>15, Zenon DEF WaitInv

\* A message whose delivery state changes still fits.
LEMMA MailMarked ==
    ASSUME WaitInv
    PROVE  /\ \A st : \A m \in mail : \A x \in ReplaceMail(mail, m, st) : MailFits(x)
           /\ \A p : \A x \in RetireCorrelated(p, mail) : MailFits(x)
  <1>1. \A st : \A m \in mail : MailFits([m EXCEPT !.st = st])
    <2> SUFFICES ASSUME NEW st, NEW m \in mail PROVE MailFits([m EXCEPT !.st = st])
      BY Zenon
    <2> DEFINE x == [m EXCEPT !.st = st]
    <2>1. MailFits(m)
      BY DEF WaitInv
    <2>2. MessageRow(x) /\ x.kind = m.kind /\ x.to = m.to
      BY <2>1, MessageFacts DEF MailFits
    <2> HIDE DEF x
    <2>3. MailFits(x)
      BY <2>1, <2>2 DEF MailFits
    <2> QED BY <2>3 DEF x
  <1>2. \A m \in mail : MailFits(m)
    BY DEF WaitInv
  <1>3. \A st : \A m \in mail : \A x \in ReplaceMail(mail, m, st) : MailFits(x)
    BY <1>1, <1>2 DEF ReplaceMail
  <1>4. ASSUME NEW p, NEW x \in RetireCorrelated(p, mail) PROVE MailFits(x)
    <2>1. PICK m \in mail : x = IF m.to = p /\ m.about = p /\ m.st \notin MessageTerminal
                                THEN [m EXCEPT !.st = IF m.st = "pending" THEN "uncertain" ELSE "dead"]
                                ELSE m
      BY <1>4 DEF RetireCorrelated
    <2> QED BY <1>1, <1>2, <2>1
  <1> QED BY <1>3, <1>4

\* An accepted answer ends the wait on its question, the only one on it.
LEMMA WaitResumes ==
    ASSUME WaitInv, NEW m \in mail, Accept(m), Resumes(m)
    PROVE  WaitInv'
  <1> DEFINE p == m.to
             row == [st |-> "running", rev |-> op[p].rev + 1, waits |-> NoMail]
             n == Len(resumed)
  <1>1. /\ p \in Participants /\ op[p] # Absent
        /\ op[p].st = "waiting" /\ op[p].waits = m.reply
    BY Zenon DEF Resumes, WaitInv, MailFits
  <1>2. Waits(p)
    BY <1>1 DEF WaitInv, AuditWaiting, Waits
  <1>3. /\ op' = [op EXCEPT ![p] = row]
        /\ resumed' = Append(resumed, op[p].waits)
        /\ mail' = ReplaceMail(mail, m, "accepted")
        /\ UNCHANGED <<scenario, ledger>>
    BY <1>1 DEF Accept, Moved
  <1>4. row # Absent /\ row.waits = NoMail /\ row.st = "running"
    BY RowsDiffer
  <1> HIDE DEF p, row
  <1>5. op'[p] = row /\ \A x \in Participants \ {p} : op'[x] = op[x]
    BY <1>1, <1>3 DEF WaitInv
  <1>6. op' = [x \in Participants |-> op'[x]]
    BY <1>3 DEF WaitInv
  <1>7. ~Waits(p)' /\ \A x \in Participants \ {p} : Waits(x)' = Waits(x)
    BY <1>4, <1>5 DEF Waits
  <1>8. \A x \in Participants : op[x] # Absent => op'[x] # Absent
    BY <1>4, <1>5
  <1>9. \A x \in mail' : MailFits(x)'
    <2>1. \A x \in mail' : MailFits(x)
      BY <1>3, MailMarked
    <2> QED BY <1>8, <2>1 DEF MailFits
  <1>10. Requests' = Requests /\ Questions' = Questions /\ \A w : Asked(w)' = Asked(w)
    BY <1>3 DEF Requests, Questions, Commands, Asked, Recorded
  <1>11. AuditWaiting'
    BY <1>4, <1>5 DEF WaitInv, AuditWaiting
  <1>12. Asked(op[p].waits) /\ op[p].waits \in Questions
    BY <1>1, <1>2, Zenon DEF WaitInv, Asked, Questions
  <1>13. resumed \in Seq(Questions) /\ n \in Nat
    BY DEF WaitInv
  <1>14. /\ resumed' \in Seq(Questions) /\ Len(resumed') = n + 1
         /\ \A i \in 1..n : resumed'[i] = resumed[i]
         /\ resumed'[n + 1] = op[p].waits
    BY <1>3, <1>12, <1>13
  <1> HIDE DEF n
  <1>15. \A i \in 1..(n + 1) : i \in 1..n \/ i = n + 1
    BY <1>13
  <1>16. \A i \in 1..n : /\ Asked(resumed[i]) /\ resumed[i] # op[p].waits
                         /\ \A x \in Participants : Waits(x) => op[x].waits # resumed[i]
    BY <1>1, <1>2 DEF WaitInv, n
  <1>17. \A i \in 1..Len(resumed') : Asked(resumed'[i])
    BY <1>12, <1>14, <1>15, <1>16
  <1>18. \A i \in 1..Len(resumed') : \A x \in Participants : Waits(x)' => op'[x].waits # resumed'[i]
    <2> SUFFICES ASSUME NEW i \in 1..(n + 1), NEW x \in Participants, Waits(x)'
                 PROVE  op'[x].waits # resumed'[i]
      BY <1>14
    <2>1. x # p /\ Waits(x) /\ op'[x] = op[x]
      BY <1>5, <1>7
    <2>2. op[x].waits # op[p].waits
      BY <1>1, <1>2, <2>1 DEF WaitInv
    <2> QED BY <1>14, <1>15, <1>16, <2>1, <2>2
  <1>19. \A i, j \in 1..n : resumed[i] = resumed[j] => i = j
    BY DEF WaitInv, n
  <1>20. \A i, j \in 1..Len(resumed') : resumed'[i] = resumed'[j] => i = j
    BY <1>14, <1>15, <1>16, <1>19
  <1>21. \A x \in Participants : Waits(x)' => Asked(op[x].waits)'
    BY <1>5, <1>7, <1>10 DEF WaitInv
  <1>22. \A x, y \in Participants : Waits(x)' /\ Waits(y)' /\ op'[x].waits = op'[y].waits => x = y
    BY <1>5, <1>7 DEF WaitInv
  <1>23. scenario' \in Scenarios /\ ledger' = [q \in Requests' |-> ledger'[q]]
    BY <1>3, <1>10 DEF WaitInv
  <1> QED BY <1>6, <1>9, <1>10, <1>11, <1>14, <1>17, <1>18, <1>20, <1>21, <1>22, <1>23 DEF WaitInv

\* Recording a request keeps every other record.
LEMMA RecordGrows ==
    ASSUME WaitInv, NEW q \in Requests, NEW h, NEW e, NEW out, Record(q, h, e, out)
    PROVE  /\ ledger' = [x \in Requests |-> ledger'[x]]
           /\ Recorded(q)'
           /\ \A x \in Requests : Recorded(x) => Recorded(x)'
  <1> DEFINE row == [host |-> h, epoch |-> e, out |-> out]
  <1>1. row # Absent
    BY RowsDiffer
  <1>2. ledger' = [ledger EXCEPT ![q] = row]
    BY DEF Record
  <1> HIDE DEF row
  <1> QED BY <1>1, <1>2 DEF WaitInv, Recorded

\* One operation moves to a state in which it does not wait.
LEMMA QuietMove ==
    ASSUME WaitInv, NEW p \in Participants, NEW st, NEW rev, st # "waiting",
           op' = [op EXCEPT ![p] = [st |-> st, rev |-> rev, waits |-> NoMail]]
    PROVE  /\ op' = [x \in Participants |-> op'[x]]
           /\ \A x \in Participants :
                 \/ op'[x] = op[x]
                 \/ op'[x] # Absent /\ op'[x].st # "waiting" /\ op'[x].waits = NoMail
  <1> DEFINE row == [st |-> st, rev |-> rev, waits |-> NoMail]
  <1>1. row # Absent /\ row.st = st /\ row.waits = NoMail
    BY RowsDiffer
  <1>2. op' = [op EXCEPT ![p] = row]
    OBVIOUS
  <1> HIDE DEF row
  <1> QED BY <1>1, <1>2 DEF WaitInv

\* What changes neither operations nor mail asks nothing.
LEMMA QuietUntouched ==
    ASSUME WaitInv, UNCHANGED <<scenario, op, mail, resumed>>,
           UNCHANGED ledger \/ \E q \in Requests : \E h, e, out : Record(q, h, e, out)
    PROVE  WaitInv'
  <1>1. /\ ledger' = [x \in Requests |-> ledger'[x]]
        /\ \A x \in Requests : Recorded(x) => Recorded(x)'
    <2>1. CASE UNCHANGED ledger
      BY <2>1 DEF WaitInv, Recorded
    <2>2. CASE \E q \in Requests : \E h, e, out : Record(q, h, e, out)
      BY <2>2, RecordGrows
    <2> QED BY <2>1, <2>2
  <1>2. Quiet
    BY <1>1 DEF WaitInv, Quiet
  <1> QED BY <1>2, WaitQuiet

\* cancel_subtree moves operations to states in which they do not wait.
LEMMA WaitCancel ==
    ASSUME WaitInv, NEW k, k.id \in Requests, CancelSubtree(k)
    PROVE  WaitInv'
  <1> DEFINE below == {p \in Subtree(k.root) : Exists(p)}
             told == {p \in Stopped(below) : ~Unseen(p)}
             st(p) == IF p \in told THEN "cancelling" ELSE "cancelled"
             row(p) == [st |-> st(p), rev |-> op[p].rev + 1, waits |-> NoMail]
  <1>1. /\ op' = [p \in Participants |-> IF p \in Stopped(below) THEN row(p) ELSE op[p]]
        /\ mail' = mail \cup {StopMail(k, p) : p \in told}
        /\ UNCHANGED <<scenario, resumed>>
        /\ Record(k.id, owner, epoch, "allowed")
    BY DEF CancelSubtree, Moved
  <1>2. \A p : row(p) # Absent /\ row(p).st # "waiting" /\ row(p).waits = NoMail
    BY RowsDiffer
  <1>3. \A p : MessageRow(StopMail(k, p)) /\ StopMail(k, p).kind # "resume"
    BY MessageFacts DEF StopMail
  <1> HIDE DEF below, told, row
  <1>4. /\ ledger' = [x \in Requests |-> ledger'[x]]
        /\ \A x \in Requests : Recorded(x) => Recorded(x)'
    BY <1>1, RecordGrows
  <1>5. /\ op' = [p \in Participants |-> op'[p]]
        /\ \A p \in Participants :
              \/ op'[p] = op[p]
              \/ op'[p] # Absent /\ op'[p].st # "waiting" /\ op'[p].waits = NoMail
    BY <1>1, <1>2
  <1>6. \A m \in mail' : MailFits(m) \/ (MessageRow(m) /\ m.kind # "resume")
    BY <1>1, <1>3 DEF WaitInv
  <1> QED BY <1>1, <1>4, <1>5, <1>6, WaitQuiet DEF Quiet

\* An applied command.
LEMMA WaitApply ==
    ASSUME WaitInv, NEW c, c \in Commands, Apply(c)
    PROVE  WaitInv'
  <1>0. /\ c.by \in Participants /\ c.to \in Participants /\ c.id \in Requests
        /\ call[c.id].st = "verified"
    BY CommandAssumption DEF WaitInv, Commands, Requests, Apply
  <1>1. CASE Replay(c)
    BY <1>1, QuietUntouched DEF Replay
  <1>2. CASE RefuseStale(c) \/ RefuseSpawn(c) \/ Denied(c) \/ ApplyStatus(c) \/ ApplyCheck(c)
    <2>1. /\ UNCHANGED <<scenario, op, mail, resumed>>
          /\ UNCHANGED ledger \/ \E out : RecordCall(c.id, out)
      BY <1>2, Zenon DEF RefuseStale, RefuseSpawn, Denied, ApplyStatus, ApplyCheck
    <2> QED BY <1>0, <2>1, QuietUntouched DEF RecordCall
  <1>3. CASE CreateChild(c)
    <2> DEFINE m == Message(InputOf(c.to), "input", c.to, c.to, c.to, NoMail)
    <2>1. /\ op' = [op EXCEPT ![c.to] = [st |-> "queued", rev |-> 1, waits |-> NoMail]]
          /\ mail' = mail \cup {m} /\ RecordCall(c.id, "allowed")
          /\ UNCHANGED <<scenario, resumed>>
      BY <1>3 DEF CreateChild
    <2>2. MessageRow(m) /\ m.kind # "resume"
      BY MessageFacts
    <2> HIDE DEF m
    <2>3. /\ op' = [x \in Participants |-> op'[x]]
          /\ \A x \in Participants :
                \/ op'[x] = op[x]
                \/ op'[x] # Absent /\ op'[x].st # "waiting" /\ op'[x].waits = NoMail
      BY <1>0, <2>1, QuietMove, Zenon
    <2>4. /\ ledger' = [x \in Requests |-> ledger'[x]]
          /\ \A x \in Requests : Recorded(x) => Recorded(x)'
      BY <1>0, <2>1, RecordGrows DEF RecordCall
    <2>5. \A x \in mail' : MailFits(x) \/ (MessageRow(x) /\ x.kind # "resume")
      BY <2>1, <2>2 DEF WaitInv
    <2> QED BY <2>1, <2>3, <2>4, <2>5, WaitQuiet DEF Quiet
  <1>4. CASE ~Recorded(c.id) /\ ApplyEffect(c) /\ EffectAllowed(c)
    <2> DEFINE m == EffectMessage(c)
    <2>1. /\ mail' = mail \cup {m} /\ RecordCall(c.id, "allowed")
          /\ UNCHANGED <<scenario, resumed>>
      BY <1>4 DEF ApplyEffect
    <2>2. MessageRow(m) /\ m.kind = c.kind /\ m.to = c.to
      BY MessageFacts DEF EffectMessage
    <2>3. c.kind = "resume" => op[c.to] # Absent
      BY <1>4 DEF EffectAllowed, OperationFits
    <2> HIDE DEF m
    <2>4. MailFits(m) \/ (MessageRow(m) /\ m.kind # "resume")
      BY <1>0, <2>2, <2>3 DEF MailFits
    <2>5. \A x \in mail' : MailFits(x) \/ (MessageRow(x) /\ x.kind # "resume")
      BY <2>1, <2>4 DEF WaitInv
    <2>6. /\ ledger' = [x \in Requests |-> ledger'[x]] /\ Recorded(c.id)'
          /\ \A x \in Requests : Recorded(x) => Recorded(x)'
      BY <1>0, <2>1, RecordGrows DEF RecordCall
    <2>7. CASE c.kind = "question"
      <3>1. op' = [op EXCEPT ![c.by] =
                      Moved(op[c.by], NextState(op[c.by].st, "wait"), <<"effect", c.id>>)]
        BY <1>4, <2>7 DEF ApplyEffect, Changes, Changed, ActionOf
      <3>2. op[c.by].st = "running"
        BY <1>4, <2>7 DEF EffectAllowed, OperationFits
      <3>3. NextState(op[c.by].st, "wait") = "waiting"
        BY <3>2 DEF NextState
      <3>4. op' = [op EXCEPT ![c.by] =
                      [st |-> "waiting", rev |-> op[c.by].rev + 1, waits |-> <<"effect", c.id>>]]
        BY <3>1, <3>3, Zenon DEF Moved
      <3> QED BY <1>0, <1>4, <2>1, <2>5, <2>6, <3>4, WaitAsks, Zenon
    <2>8. CASE c.kind = "cancel"
      <3>1. op' = [op EXCEPT ![c.to] = Moved(op[c.to], NextState(op[c.to].st, "cancel"), NoMail)]
        BY <1>4, <2>8 DEF ApplyEffect, Changes, Changed, ActionOf
      <3>2. NextState(op[c.to].st, "cancel") # "waiting"
        BY DEF NextState
      <3>3. /\ op' = [x \in Participants |-> op'[x]]
            /\ \A x \in Participants :
                  \/ op'[x] = op[x]
                  \/ op'[x] # Absent /\ op'[x].st # "waiting" /\ op'[x].waits = NoMail
        BY <1>0, <3>1, <3>2, QuietMove, Zenon DEF Moved
      <3> QED BY <2>1, <2>5, <2>6, <3>3, WaitQuiet DEF Quiet
    <2>9. CASE ~Changes(c)
      <3>1. op' = op
        BY <1>4, <2>9 DEF ApplyEffect
      <3> QED BY <2>1, <2>5, <2>6, <3>1, WaitQuiet DEF Quiet, WaitInv
    <2> QED BY <2>7, <2>8, <2>9 DEF Changes
  <1>5. \/ Replay(c) \/ RefuseStale(c) \/ RefuseSpawn(c) \/ Denied(c) \/ ApplyStatus(c)
        \/ ApplyCheck(c) \/ CreateChild(c)
        \/ ~Recorded(c.id) /\ ApplyEffect(c) /\ EffectAllowed(c)
    BY Zenon DEF Apply, Fresh, ApplySpawn, ApplyEffect
  <1> QED BY <1>1, <1>2, <1>3, <1>4, <1>5

\* A worker's steps end no wait but by ending the operation.
LEMMA WaitWorker ==
    ASSUME WaitInv, NEW p \in Participants,
           \/ Begin(p) \/ EnsureReady(p) \/ PrepareLaunch(p) \/ LaunchReady(p)
           \/ StopLaunch(p) \/ Run(p) \/ ResumeExisting(p) \/ StartOperation(p)
           \/ \E a \in Terminal : Finish(p, a)
    PROVE  WaitInv'
  <1>1. CASE \/ EnsureReady(p) \/ PrepareLaunch(p) \/ LaunchReady(p) \/ StopLaunch(p)
             \/ ResumeExisting(p)
    BY <1>1, QuietUntouched
       DEF EnsureReady, PrepareLaunch, LaunchReady, StopLaunch, ResumeExisting
  <1>2. ASSUME NEW st, NEW rev, st # "waiting",
               op' = [op EXCEPT ![p] = [st |-> st, rev |-> rev, waits |-> NoMail]],
               UNCHANGED <<scenario, ledger, resumed>>,
               \A m \in mail' : MailFits(m) \/ (MessageRow(m) /\ m.kind # "resume")
        PROVE  WaitInv'
    <2>1. /\ op' = [x \in Participants |-> op'[x]]
          /\ \A x \in Participants :
                \/ op'[x] = op[x]
                \/ op'[x] # Absent /\ op'[x].st # "waiting" /\ op'[x].waits = NoMail
      BY <1>2, QuietMove, Zenon
    <2>2. /\ ledger' = [x \in Requests |-> ledger'[x]]
          /\ \A x \in Requests : Recorded(x) => Recorded(x)'
      BY <1>2 DEF WaitInv, Recorded
    <2> QED BY <1>2, <2>1, <2>2, WaitQuiet DEF Quiet
  <1>3. CASE Begin(p) \/ Run(p)
    <2>1. PICK st \in {"starting", "running"} :
            op' = [op EXCEPT ![p] = [st |-> st, rev |-> op[p].rev + 1, waits |-> NoMail]]
      BY <1>3, Zenon DEF Begin, Run, Moved
    <2>2. UNCHANGED <<scenario, ledger, resumed, mail>>
      BY <1>3, Zenon DEF Begin, Run
    <2>3. \A m \in mail' : MailFits(m)
      BY <2>2 DEF WaitInv
    <2> QED BY <1>2, <2>1, <2>2, <2>3, Zenon
  <1>4. CASE StartOperation(p)
    <2> DEFINE m == Message(InputOf(p), "input", p, p, p, NoMail)
    <2>1. /\ op' = [op EXCEPT ![p] = [st |-> "queued", rev |-> 1, waits |-> NoMail]]
          /\ mail' = mail \cup {m} /\ UNCHANGED <<scenario, ledger, resumed>>
      BY <1>4 DEF StartOperation
    <2>2. MessageRow(m) /\ m.kind # "resume"
      BY MessageFacts
    <2> HIDE DEF m
    <2>3. \A x \in mail' : MailFits(x) \/ (MessageRow(x) /\ x.kind # "resume")
      BY <2>1, <2>2 DEF WaitInv
    <2> QED BY <1>2, <2>1, <2>3, Zenon
  <1>5. ASSUME NEW a \in Terminal, Finish(p, a) PROVE WaitInv'
    <2> DEFINE box == RetireCorrelated(p, mail)
               st == NextState(op[p].st, a)
    <2>1. /\ op' = [op EXCEPT ![p] = Moved(op[p], st, NoMail)]
          /\ st \in Terminal
          /\ mail' = box \cup (IF HasParent(p) THEN OutcomeMail(p, box) ELSE {})
          /\ UNCHANGED <<scenario, ledger, resumed>>
      BY <1>5 DEF Finish
    <2>2. \A m \in box : MailFits(m)
      BY MailMarked
    <2>3. \A m \in OutcomeMail(p, box) : MessageRow(m) /\ m.kind # "resume"
      BY MessageFacts DEF OutcomeMail
    <2> HIDE DEF box, st
    <2>4. \A m \in mail' : MailFits(m) \/ (MessageRow(m) /\ m.kind # "resume")
      BY <2>1, <2>2, <2>3
    <2>5. st # "waiting"
      BY <2>1 DEF Terminal
    <2> QED BY <1>2, <2>1, <2>4, <2>5, Zenon DEF Moved
  <1> QED BY <1>1, <1>3, <1>4, <1>5

\* Deliveries: only the acceptance of an answer to what is waited on resumes.
LEMMA WaitDelivery ==
    ASSUME WaitInv, NEW m \in mail, Pend(m) \/ Retry(m) \/ Accept(m)
    PROVE  WaitInv'
  <1>1. CASE Accept(m) /\ Resumes(m)
    BY <1>1, WaitResumes
  <1>2. CASE Pend(m) \/ Retry(m) \/ (Accept(m) /\ ~Resumes(m))
    <2>1. UNCHANGED <<scenario, op, ledger, resumed>>
      BY <1>2 DEF Pend, Retry, Accept
    <2>2. \A x \in mail' : MailFits(x)
      BY <1>2, MailMarked DEF Pend, Retry, Accept
    <2>3. Quiet
      BY <2>1, <2>2 DEF Quiet, WaitInv, Recorded
    <2> QED BY <2>3, WaitQuiet
  <1> QED BY <1>1, <1>2

LEMMA WaitInit ==
    ASSUME Init
    PROVE  WaitInv
  <1> DEFINE row == [st |-> "running", rev |-> 3, waits |-> NoMail]
             input == Message(InputOf(Root), "input", Root, Root, Root, NoMail)
             first == [input EXCEPT !.st = "accepted"]
  <1>1. /\ scenario \in Scenarios
        /\ op = [p \in Participants |-> IF p = Root /\ scenario.start = NoName THEN row ELSE Absent]
        /\ ledger = [q \in Requests |-> Absent]
        /\ resumed = <<>>
        /\ mail \subseteq {first}
    BY DEF Init, HierarchyInit
  <1>2. row.st # "waiting" /\ row.waits = NoMail
    OBVIOUS
  <1>3. MessageRow(input) /\ input.kind = "input"
    BY MessageFacts
  <1> HIDE DEF row, input
  <1>4. MessageRow(first) /\ first.kind = "input"
    BY <1>3, MessageFacts, Zenon
  <1> HIDE DEF first
  <1>5. \A m \in mail : MailFits(m)
    BY <1>1, <1>4 DEF MailFits
  <1>6. \A p \in Participants : ~Waits(p)
    BY <1>1, <1>2 DEF Waits
  <1>7. AuditWaiting
    BY <1>1, <1>2 DEF AuditWaiting
  <1>8. resumed \in Seq(Questions) /\ 1..Len(resumed) = {}
    BY <1>1
  <1> QED BY <1>1, <1>5, <1>6, <1>7, <1>8 DEF WaitInv

LEMMA WaitStep ==
    ASSUME WaitInv, [Next]_vars
    PROVE  WaitInv'
  <1>1. CASE UNCHANGED vars
    BY <1>1, QuietUntouched DEF vars, hvars
  <1>2. CASE \E t \in DOMAIN tpolicy : RegisterTemplatePolicy(t)
    BY <1>2, QuietUntouched DEF RegisterTemplatePolicy
  <1>3. CASE PutRootPolicy
    BY <1>3, QuietUntouched DEF PutRootPolicy
  <1>4. CASE \E g \in Grants : IssueGrant(g) \/ RevokeGrant(g) \/ ExpireGrant(g)
    BY <1>4, QuietUntouched DEF IssueGrant, RevokeGrant, ExpireGrant
  <1>5. ASSUME NEW c \in Commands, Apply(c) PROVE WaitInv'
    BY <1>5, WaitApply
  <1>6. ASSUME NEW c \in Commands,
               Issue(c) \/ Verify(c) \/ Schedule(c) \/ Ack(c) \/ Interrupt(c) \/ Reoffer(c)
        PROVE  WaitInv'
    BY <1>6, QuietUntouched DEF Issue, Verify, Schedule, Ack, Interrupt, Reoffer
  <1>7. ASSUME NEW p \in Participants,
               \/ Begin(p) \/ EnsureReady(p) \/ PrepareLaunch(p) \/ LaunchReady(p)
               \/ StopLaunch(p) \/ Run(p) \/ ResumeExisting(p) \/ StartOperation(p)
               \/ \E a \in Terminal : Finish(p, a)
        PROVE  WaitInv'
    BY <1>7, WaitWorker
  <1>8. CASE \E m \in mail : Pend(m) \/ Retry(m) \/ Accept(m)
    BY <1>8, WaitDelivery
  <1>9. CASE \E k \in scenario.cancels : CancelSubtree(k)
    <2>1. \A k \in scenario.cancels : k.id \in Requests
      BY DEF Requests
    <2> QED BY <1>9, <2>1, WaitCancel
  <1>10. CASE \E h \in {1, 2} : Takeover(h)
    BY <1>10, QuietUntouched DEF Takeover
  <1>11. ASSUME NEW k \in Closes, CloseStep(k) PROVE WaitInv'
    <2>1. k.id \in Requests
      BY DEF Closes, Requests
    <2>2. CancelSubtree(WholeTree(k)) \/ UNCHANGED <<scenario, op, mail, ledger, resumed>>
      BY <1>11, CloseTouches
    <2>3. WholeTree(k).id = k.id
      BY DEF WholeTree
    <2> QED BY <2>1, <2>2, <2>3, WaitCancel, QuietUntouched
  <1> QED BY <1>1, <1>2, <1>3, <1>4, <1>5, <1>6, <1>7, <1>8, <1>9, <1>10, <1>11
          DEF Next, HierarchyNext

(***************************************************************************)
(* An answer resumes only the operation that waits on its question, and    *)
(* each question is resumed at most once; an operation names a question    *)
(* exactly while it waits (apply_hierarchy_effect,                         *)
(* transition_message_delivery): for every tree, every set of commands and *)
(* every order of retries, cancellations, takeovers and closes.            *)
(***************************************************************************)
THEOREM QuestionsResumeOnce == Spec => []OneResumePerQuestion
  <1>1. Init => WaitInv
    BY WaitInit
  <1>2. WaitInv /\ [Next]_vars => WaitInv'
    BY WaitStep
  <1>3. WaitInv => OneResumePerQuestion
    <2> SUFFICES ASSUME WaitInv PROVE OneResumePerQuestion
      OBVIOUS
    <2>1. DOMAIN resumed = 1..Len(resumed)
      BY DEF WaitInv
    <2> QED BY <2>1 DEF WaitInv, OneResumePerQuestion
  <1> QED BY <1>1, <1>2, <1>3, PTL DEF Spec

-----------------------------------------------------------------------------
(***************************************************************************)
(* Nothing starts under a cancelled participant.                           *)
(***************************************************************************)
Ending == Terminal \cup {"cancelling"}

Tombed(p) == Exists(p) /\ node[p].tomb

TombInv == TreeInv /\ op = [p \in Participants |-> op[p]] /\ NoWorkUnderTombstone

\* An operation that is neither over nor being cancelled is nobody's cancelled one.
LEMMA WorkerNotTombed ==
    ASSUME TombInv, NEW p \in Participants, op[p] # Absent, op[p].st \notin Ending
    PROVE  ~Tombed(p)
  BY DEF TombInv, NoWorkUnderTombstone, Tombed, Ending

LEMMA TombUntouched ==
    ASSUME TombInv, TreeInv', UNCHANGED <<node, op>>
    PROVE  TombInv'
  <1>1. \A p : Exists(p)' = Exists(p) /\ Children(p)' = Children(p)
    BY DEF Exists, Children, Parent
  <1> QED BY <1>1 DEF TombInv, NoWorkUnderTombstone

\* An operation moves: it is that of an uncancelled participant, or it ends.
LEMMA TombOperation ==
    ASSUME TombInv, TreeInv', UNCHANGED node, NEW p \in Participants, NEW r,
           op' = [op EXCEPT ![p] = r], ~Tombed(p) \/ r.st \in Ending
    PROVE  TombInv'
  <1>1. \A x : Exists(x)' = Exists(x) /\ Children(x)' = Children(x)
    BY DEF Exists, Children, Parent
  <1>2. op' = [x \in Participants |-> op'[x]]
    BY DEF TombInv
  <1>3. op'[p] = r /\ \A x \in Participants \ {p} : op'[x] = op[x]
    BY DEF TombInv
  <1> QED BY <1>1, <1>2, <1>3 DEF TombInv, NoWorkUnderTombstone, Tombed, Ending

\* cancel_subtree: whoever is marked has its children marked with it, and its
\* operation ended or told to.
LEMMA TombCancel ==
    ASSUME TombInv, TreeInv', NEW k, CancelSubtree(k)
    PROVE  TombInv'
  <1> DEFINE below == {p \in Subtree(k.root) : Exists(p)}
             told == {p \in Stopped(below) : ~Unseen(p)}
             moved(p) == Moved(op[p], IF p \in told THEN "cancelling" ELSE "cancelled", NoMail)
  <1>1. /\ node' = [p \in Participants |->
                      IF p \in below THEN [node[p] EXCEPT !.tomb = TRUE] ELSE node[p]]
        /\ op' = [p \in Participants |-> IF p \in Stopped(below) THEN moved(p) ELSE op[p]]
    BY DEF CancelSubtree
  <1>2. \A p : moved(p).st \in Ending
    BY DEF Moved, Ending, Terminal
  <1>3. \A p \in below : p \notin Stopped(below) => (op[p] # Absent => op[p].st \in Ending)
    BY DEF Stopped, Live, Ending
  <1>4. \A p \in Participants : p \in below => Children(p) \subseteq below
    <2> SUFFICES ASSUME NEW p \in Participants, p \in below, NEW x \in Children(p)
                 PROVE  x \in below
      OBVIOUS
    <2>1. \A s \in ClosedBelow(k.root) : p \in s
      BY DEF Subtree
    <2>2. \A s \in ClosedBelow(k.root) : x \in s
      BY <2>1 DEF ClosedBelow
    <2> QED BY <2>2 DEF Subtree, Children
  <1>5. \A p \in below : p \in Participants /\ Exists(p)
    BY DEF Subtree
  <1>6. Stopped(below) \subseteq below
    BY DEF Stopped
  <1> HIDE DEF below, told, moved
  <1>7. ASSUME NEW p \in Participants
        PROVE  /\ Exists(p)' <=> Exists(p)
               /\ Exists(p) => Parent(p)' = Parent(p)
               /\ p \in below => node'[p].tomb
               /\ p \notin below => node'[p] = node[p]
    <2>1. CASE p \in below
      <3>1. Exists(p) /\ NodeRow(node[p])
        BY <1>5, <2>1 DEF TombInv, TreeInv, Rooted
      <3>2. node'[p] = [node[p] EXCEPT !.tomb = TRUE]
        BY <1>1, <2>1
      <3>3. NodeRow(node'[p]) /\ node'[p].parent = node[p].parent /\ node'[p].tomb
        BY <3>1, <3>2, MarkedRow
      <3>4. node'[p] # Absent
        BY <3>3, RowsExist
      <3> QED BY <2>1, <3>1, <3>3, <3>4 DEF Exists, Parent
    <2>2. CASE p \notin below
      BY <1>1, <2>2 DEF Exists, Parent
    <2> QED BY <2>1, <2>2
  <1>8. \A p \in Participants : Children(p)' = Children(p)
    BY <1>7 DEF Children
  <1>9. op' = [p \in Participants |-> op'[p]]
    BY <1>1
  <1>10. ASSUME NEW p \in Participants, Exists(p)', node'[p].tomb
         PROVE  /\ \A x \in Children(p)' : node'[x].tomb
                /\ op'[p] # Absent => op'[p].st \in Ending
    <2>1. CASE p \in below
      <3>1. \A x \in Children(p) : x \in Participants /\ node'[x].tomb
        BY <1>4, <1>5, <1>7, <2>1
      <3>2. op'[p] = IF p \in Stopped(below) THEN moved(p) ELSE op[p]
        BY <1>1
      <3> QED BY <1>2, <1>3, <1>8, <2>1, <3>1, <3>2
    <2>2. CASE p \notin below
      <3>1. Exists(p) /\ node[p].tomb /\ op'[p] = op[p]
        BY <1>1, <1>6, <1>7, <1>10, <2>2, Zenon
      <3>2. \A x \in Children(p) : x \in Participants /\ node[x].tomb
        BY <3>1 DEF TombInv, NoWorkUnderTombstone, Children
      <3>3. \A x \in Children(p) : node'[x].tomb
        BY <1>7, <3>2
      <3> QED BY <1>8, <3>1, <3>3 DEF TombInv, NoWorkUnderTombstone, Ending
    <2> QED BY <2>1, <2>2
  <1> QED BY <1>9, <1>10 DEF TombInv, NoWorkUnderTombstone, Ending

\* create_authorized_child: the parent is not cancelled, and nobody has the child
\* as a parent yet.
LEMMA TombSpawn ==
    ASSUME TombInv, TreeInv', NEW c, c \in Commands, ChildFits(c), CreateChild(c), ~Tombed(c.by)
    PROVE  TombInv'
  <1> DEFINE row == [parent |-> c.by, tmpl |-> c.tmpl, depth |-> node[c.by].depth + 1, tomb |-> FALSE]
  <1>1. c.by \in Participants /\ c.to \in Participants
    BY CommandAssumption DEF TombInv, TreeInv, Rooted, Commands
  <1>2. Exists(c.by) /\ ~Exists(c.to)
    BY DEF ChildFits
  <1>3. /\ node' = [node EXCEPT ![c.to] = row]
        /\ op' = [op EXCEPT ![c.to] = [st |-> "queued", rev |-> 1, waits |-> NoMail]]
    BY Zenon DEF CreateChild
  <1>4. ~row.tomb /\ row.parent = c.by
    OBVIOUS
  <1> HIDE DEF row
  <1>5. /\ node'[c.to] = row
        /\ \A p \in Participants \ {c.to} : node'[p] = node[p] /\ op'[p] = op[p]
        /\ op' = [p \in Participants |-> op'[p]]
    BY <1>1, <1>3 DEF TombInv, TreeInv, Rooted
  <1>6. c.to # c.by
    BY <1>2
  <1>7. ASSUME NEW p \in Participants, Exists(p)', node'[p].tomb
        PROVE  /\ \A x \in Children(p)' : node'[x].tomb
               /\ op'[p] # Absent => op'[p].st \in Ending
    <2>1. p # c.to
      BY <1>4, <1>5, <1>7
    <2>2. Exists(p) /\ node[p].tomb /\ op'[p] = op[p]
      BY <1>5, <1>7, <2>1 DEF Exists
    <2>3. p # c.by
      BY <2>2 DEF Tombed
    <2>4. c.to \notin Children(p)'
      BY <1>4, <1>5, <2>3 DEF Children, Parent
    <2>5. \A x \in Children(p)' : x \in Children(p) /\ node'[x] = node[x]
      BY <1>5, <2>4 DEF Children, Parent, Exists
    <2> QED BY <2>2, <2>5 DEF TombInv, NoWorkUnderTombstone, Ending
  <1> QED BY <1>5, <1>7 DEF TombInv, NoWorkUnderTombstone, Ending

\* An applied command: a child of an uncancelled parent, a question of a running
\* operation, or a cancellation.
LEMMA TombApply ==
    ASSUME TombInv, TreeInv', NEW c, c \in Commands, Apply(c)
    PROVE  TombInv'
  <1>0. c.by \in Participants /\ c.to \in Participants
    BY CommandAssumption DEF TombInv, TreeInv, Rooted, Commands
  <1>1. CASE Replay(c) \/ RefuseStale(c)
    BY <1>1, TombUntouched DEF Replay, RefuseStale
  <1>2. CASE ApplySpawn(c)
    <2>1. CASE ChildFits(c) /\ CreateChild(c) /\ ~Tombed(c.by)
      BY <2>1, TombSpawn
    <2>2. CASE RefuseSpawn(c) \/ Denied(c)
      BY <2>2, TombUntouched DEF RefuseSpawn, Denied
    <2> QED BY <1>2, <2>1, <2>2 DEF ApplySpawn, Tombed
  <1>3. CASE ApplyEffect(c)
    <2>1. CASE Denied(c)
      BY <2>1, TombUntouched DEF Denied
    <2>2. CASE EffectAllowed(c)
      <3> DEFINE who == Changed(c)
                 waits == IF c.kind = "question" THEN <<"effect", c.id>> ELSE NoMail
                 r == Moved(op[who], NextState(op[who].st, ActionOf(c)), waits)
      <3>1. /\ UNCHANGED node
            /\ Changes(c) => op' = [op EXCEPT ![who] = r]
            /\ ~Changes(c) => op' = op
        BY <1>3, <2>2 DEF ApplyEffect
      <3>2. CASE c.kind = "question"
        <4>1. Changes(c) /\ who = c.by
          BY <3>2 DEF Changes, Changed
        <4>2. op[c.by] # Absent /\ op[c.by].st = "running"
          BY <2>2, <3>2 DEF EffectAllowed, OperationFits
        <4>3. ~Tombed(c.by)
          BY <1>0, <4>2, WorkerNotTombed DEF Ending, Terminal
        <4> HIDE DEF who, r
        <4> QED BY <1>0, <3>1, <4>1, <4>3, TombOperation
      <3>3. CASE c.kind = "cancel"
        <4>1. Changes(c) /\ who = c.to /\ ActionOf(c) = "cancel"
          BY <3>3 DEF Changes, Changed, ActionOf
        <4>2. NextState(op[c.to].st, "cancel") # "none"
          BY <2>2, <4>1 DEF EffectAllowed
        <4>3. NextState(op[c.to].st, "cancel") = "cancelling"
          BY <4>2 DEF NextState
        <4>4. r.st \in Ending
          BY <4>1, <4>3 DEF Moved, Ending
        <4> HIDE DEF who, r
        <4> QED BY <1>0, <3>1, <4>1, <4>4, TombOperation
      <3>4. CASE ~Changes(c)
        BY <3>1, <3>4, TombUntouched
      <3> QED BY <3>2, <3>3, <3>4 DEF Changes
    <2> QED BY <1>3, <2>1, <2>2 DEF ApplyEffect
  <1>4. CASE ApplyStatus(c) \/ ApplyCheck(c)
    BY <1>4, TombUntouched, Zenon DEF ApplyStatus, ApplyCheck
  <1> QED BY <1>1, <1>2, <1>3, <1>4 DEF Apply, Fresh

\* A worker's steps: it begins and runs only what nobody cancelled.
LEMMA TombWorker ==
    ASSUME TombInv, TreeInv', NEW p \in Participants,
           \/ Begin(p) \/ EnsureReady(p) \/ PrepareLaunch(p) \/ LaunchReady(p)
           \/ StopLaunch(p) \/ Run(p) \/ ResumeExisting(p) \/ StartOperation(p)
           \/ \E a \in Terminal : Finish(p, a)
    PROVE  TombInv'
  <1>1. CASE Begin(p)
    <2>1. op[p] # Absent /\ op[p].st = "queued" /\ UNCHANGED node
      BY <1>1, Zenon DEF Begin
    <2>2. ~Tombed(p)
      BY <2>1, WorkerNotTombed, Zenon DEF Ending, Terminal
    <2>3. op' = [op EXCEPT ![p] = Moved(op[p], "starting", NoMail)]
      BY <1>1, Zenon DEF Begin
    <2> QED BY <2>1, <2>2, <2>3, TombOperation, Zenon
  <1>2. CASE Run(p)
    <2>1. op[p] # Absent /\ op[p].st = "starting" /\ UNCHANGED node
      BY <1>2 DEF Run
    <2>2. ~Tombed(p)
      BY <2>1, WorkerNotTombed, Zenon DEF Ending, Terminal
    <2>3. op' = [op EXCEPT ![p] = Moved(op[p], "running", NoMail)]
      BY <1>2 DEF Run
    <2> QED BY <2>1, <2>2, <2>3, TombOperation, Zenon
  <1>3. CASE StartOperation(p)
    <2>1. ~Tombed(p) /\ UNCHANGED node
      BY <1>3 DEF StartOperation, StartAllowed, OneOperation, Tombed
    <2>2. op' = [op EXCEPT ![p] = [st |-> "queued", rev |-> 1, waits |-> NoMail]]
      BY <1>3 DEF StartOperation
    <2> QED BY <2>1, <2>2, TombOperation, Zenon
  <1>4. ASSUME NEW a \in Terminal, Finish(p, a) PROVE TombInv'
    <2> DEFINE r == Moved(op[p], NextState(op[p].st, a), NoMail)
    <2>1. op' = [op EXCEPT ![p] = r] /\ UNCHANGED node /\ NextState(op[p].st, a) \in Terminal
      BY <1>4 DEF Finish
    <2>2. r.st \in Ending
      BY <2>1 DEF Moved, Ending
    <2> HIDE DEF r
    <2> QED BY <2>1, <2>2, TombOperation, Zenon
  <1>5. CASE \/ EnsureReady(p) \/ PrepareLaunch(p) \/ LaunchReady(p) \/ StopLaunch(p)
             \/ ResumeExisting(p)
    BY <1>5, TombUntouched DEF EnsureReady, PrepareLaunch, LaunchReady, StopLaunch, ResumeExisting
  <1> QED BY <1>1, <1>2, <1>3, <1>4, <1>5

LEMMA TombStep ==
    ASSUME TombInv, WaitInv, [Next]_vars
    PROVE  TombInv'
  <1>0. TreeInv'
    BY TreeStep DEF TombInv
  <1>1. CASE UNCHANGED vars
    BY <1>0, <1>1, TombUntouched DEF vars, hvars
  <1>2. CASE \E t \in DOMAIN tpolicy : RegisterTemplatePolicy(t)
    BY <1>0, <1>2, TombUntouched DEF RegisterTemplatePolicy
  <1>3. CASE PutRootPolicy
    BY <1>0, <1>3, TombUntouched DEF PutRootPolicy
  <1>4. CASE \E g \in Grants : IssueGrant(g) \/ RevokeGrant(g) \/ ExpireGrant(g)
    BY <1>0, <1>4, TombUntouched DEF IssueGrant, RevokeGrant, ExpireGrant
  <1>5. ASSUME NEW c \in Commands, Apply(c) PROVE TombInv'
    BY <1>0, <1>5, TombApply
  <1>6. ASSUME NEW c \in Commands,
               Issue(c) \/ Verify(c) \/ Schedule(c) \/ Ack(c) \/ Interrupt(c) \/ Reoffer(c)
        PROVE  TombInv'
    BY <1>0, <1>6, TombUntouched DEF Issue, Verify, Schedule, Ack, Interrupt, Reoffer
  <1>7. ASSUME NEW p \in Participants,
               \/ Begin(p) \/ EnsureReady(p) \/ PrepareLaunch(p) \/ LaunchReady(p)
               \/ StopLaunch(p) \/ Run(p) \/ ResumeExisting(p) \/ StartOperation(p)
               \/ \E a \in Terminal : Finish(p, a)
        PROVE  TombInv'
    BY <1>0, <1>7, TombWorker
  <1>8. ASSUME NEW m \in mail, Pend(m) \/ Retry(m) \/ Accept(m) PROVE TombInv'
    <2>1. CASE Accept(m) /\ Resumes(m)
      <3>1. m.to \in Participants /\ op[m.to] # Absent /\ op[m.to].st = "waiting"
        BY <2>1 DEF Resumes, WaitInv, MailFits
      <3>2. ~Tombed(m.to)
        BY <3>1, WorkerNotTombed DEF Ending, Terminal
      <3>3. op' = [op EXCEPT ![m.to] = Moved(op[m.to], "running", NoMail)] /\ UNCHANGED node
        BY <2>1 DEF Accept
      <3> QED BY <1>0, <3>1, <3>2, <3>3, TombOperation, Zenon
    <2>2. CASE Pend(m) \/ Retry(m) \/ (Accept(m) /\ ~Resumes(m))
      BY <1>0, <2>2, TombUntouched DEF Pend, Retry, Accept
    <2> QED BY <1>8, <2>1, <2>2
  <1>9. CASE \E k \in scenario.cancels : CancelSubtree(k)
    BY <1>0, <1>9, TombCancel
  <1>10. CASE \E h \in {1, 2} : Takeover(h)
    BY <1>0, <1>10, TombUntouched DEF Takeover
  <1>11. ASSUME NEW k \in Closes, CloseStep(k) PROVE TombInv'
    <2>1. CancelSubtree(WholeTree(k)) \/ UNCHANGED <<node, op>>
      BY <1>11, CloseTouches
    <2> QED BY <1>0, <2>1, TombCancel, TombUntouched
  <1> QED BY <1>1, <1>2, <1>3, <1>4, <1>5, <1>6, <1>7, <1>8, <1>9, <1>10, <1>11, Zenon
          DEF Next, HierarchyNext

\* Nobody is cancelled in a new session.
LEMMA TombInit ==
    ASSUME Init
    PROVE  TombInv
  <1> DEFINE row == [parent |-> NoName, tmpl |-> scenario.roottmpl, depth |-> 1, tomb |-> FALSE]
  <1>1. node = [p \in Participants |-> IF p = Root THEN row ELSE Absent]
    BY DEF Init, HierarchyInit
  <1>2. ~row.tomb
    OBVIOUS
  <1> HIDE DEF row
  <1>3. \A p \in Participants : ~(Exists(p) /\ node[p].tomb)
    BY <1>1, <1>2 DEF Exists
  <1>4. op = [p \in Participants |-> op[p]]
    BY DEF Init, HierarchyInit
  <1> QED BY <1>3, <1>4, TreeInit DEF TombInv, NoWorkUnderTombstone

(***************************************************************************)
(* Everyone below a cancelled participant is cancelled, and no operation   *)
(* of theirs is doing anything but ending (cancel_subtree,                 *)
(* create_authorized_child, start_operation): for every tree and every     *)
(* interleaving of spawns, workers, answers, takeovers and closes with the *)
(* cancellation.                                                           *)
(***************************************************************************)
THEOREM CancelledTreesEnd == Spec => []NoWorkUnderTombstone
  <1>1. Init => TombInv /\ WaitInv
    BY TombInit, WaitInit
  <1>2. TombInv /\ WaitInv /\ [Next]_vars => TombInv' /\ WaitInv'
    BY TombStep, WaitStep
  <1>3. TombInv => NoWorkUnderTombstone
    BY DEF TombInv
  <1> QED BY <1>1, <1>2, <1>3, PTL DEF Spec

-----------------------------------------------------------------------------
(***************************************************************************)
(* A close is quiet.  The close looks at operations and launches in steps  *)
(* of their own; what it saw holds until it commits because the whole tree *)
(* is marked by then, and a marked participant gets neither an operation   *)
(* nor a launch.                                                           *)
(***************************************************************************)

\* A launch that is not durably stopped.
Pending(p) == launch[p] # Absent /\ launch[p].st # "stopped"

\* Everyone hangs below the root and is marked with it, operations and launches
\* belong to participants, and a close's own cancellation marked the root.
MarkInv ==
    /\ launch = [p \in Participants |-> launch[p]]
    /\ sched = [p \in Participants |-> sched[p]]
    /\ \A p \in Participants : Exists(p) => p \in Subtree(Root)
    /\ node[Root].tomb => \A p \in Participants : Exists(p) => node[p].tomb
    /\ \A p \in Participants : op[p] # Absent \/ sched[p] = "launching" => Exists(p)
    /\ \A k \in Closes : Recorded(k.id) => node[Root].tomb

\* A step that leaves the tree alone: an operation or a launch begins at an unmarked
\* participant, what is over stays over, and no close's cancellation is recorded.
Frame ==
    /\ UNCHANGED <<scenario, node>>
    /\ launch' = [p \in Participants |-> launch'[p]]
    /\ sched' = [p \in Participants |-> sched'[p]]
    /\ \A p \in Participants :
          /\ op[p] # Absent => op'[p] # Absent
          /\ op[p] # Absent /\ op[p].st \in Terminal => op'[p] = op[p]
          /\ op'[p] # Absent => op[p] # Absent \/ (Exists(p) /\ ~node[p].tomb)
          /\ Pending(p)' => Pending(p) \/ (Exists(p) /\ ~node[p].tomb)
          /\ sched'[p] = "launching" => sched[p] = "launching" \/ Exists(p)
    /\ \A k \in Closes : Recorded(k.id)' => Recorded(k.id)

\* What every step keeps: the mark of the root, what is over, and, once the root is
\* marked, which operations and unstopped launches there are.
Kept ==
    /\ UNCHANGED scenario
    /\ node[Root].tomb => node'[Root].tomb
    /\ \A p \in Participants :
          /\ op[p] # Absent /\ op[p].st \in Terminal => op'[p] # Absent /\ op'[p] = op[p]
          /\ node[Root].tomb => (op'[p] # Absent => op[p] # Absent) /\ (Pending(p)' => Pending(p))

LEMMA MarkFrame ==
    ASSUME MarkInv, Frame
    PROVE  MarkInv' /\ Kept
  <1>1. \A p : Exists(p)' = Exists(p) /\ Children(p)' = Children(p)
    BY DEF Frame, Exists, Children, Parent
  <1>2. Subtree(Root)' = Subtree(Root) /\ Closes' = Closes
    BY <1>1 DEF Subtree, ClosedBelow, Frame, Closes
  <1>3. MarkInv'
    BY <1>1, <1>2 DEF MarkInv, Frame
  <1>4. Kept
    BY DEF MarkInv, Frame, Kept
  <1> QED BY <1>3, <1>4

\* One unfinished operation moves.
LEMMA FrameMove ==
    ASSUME TombInv, NEW p \in Participants, NEW r, op[p] # Absent, op[p].st \notin Terminal,
           op' = [op EXCEPT ![p] = r], r # Absent
    PROVE  \A x \in Participants :
              /\ op[x] # Absent => op'[x] # Absent
              /\ op[x] # Absent /\ op[x].st \in Terminal => op'[x] = op[x]
              /\ op'[x] # Absent => op[x] # Absent
  BY DEF TombInv

LEMMA MovedRow == \A o, st, w : Moved(o, st, w) # Absent
  BY RowsDiffer DEF Moved

LEMMA LaunchRows == \A e, st : [epoch |-> e, st |-> st] # Absent
  <1>1. "absent" \in DOMAIN Absent
    BY DEF Absent
  <1> QED BY <1>1

LEMMA NodeRows == \A p, t, d, b : [parent |-> p, tmpl |-> t, depth |-> d, tomb |-> b] # Absent
  <1>1. "absent" \in DOMAIN Absent
    BY DEF Absent
  <1> QED BY <1>1

\* What is stopped stays stopped, and what cannot be stopped is as it was.
LEMMA StoppedAgain ==
    \A r : LET x == [r EXCEPT !.st = "stopped"] IN x.st = "stopped" \/ x = r \/ r.st # "stopped"
  OBVIOUS

\* Nothing but bookkeeping: no operation, launch or worker changes.
LEMMA FrameUntouched ==
    ASSUME MarkInv, UNCHANGED <<scenario, node, op, launch, ledger>>,
           UNCHANGED sched \/ (\E p \in Participants : sched' = [sched EXCEPT ![p] = "yes"])
    PROVE  Frame
  BY DEF MarkInv, Frame, Pending, Recorded

\* A recorded command is no close's cancellation.
LEMMA FrameRecords ==
    ASSUME WaitInv, NEW c, c \in Commands, NEW out,
           RecordCall(c.id, out) \/ UNCHANGED ledger
    PROVE  \A k \in Closes : Recorded(k.id)' => Recorded(k.id)
  <1> SUFFICES ASSUME NEW k \in Closes, RecordCall(c.id, out), Recorded(k.id)'
               PROVE  Recorded(k.id)
    BY DEF Recorded
  <1>1. c.id # k.id
    BY CloseAssumption DEF WaitInv, Closes, Commands
  <1>2. k.id \in Requests
    BY DEF Requests, Closes
  <1> QED BY <1>1, <1>2 DEF RecordCall, Record, WaitInv, Recorded

\* A worker's steps.
LEMMA FrameWorker ==
    ASSUME TombInv, WaitInv, MarkInv, NEW p \in Participants,
           \/ Begin(p) \/ EnsureReady(p) \/ PrepareLaunch(p) \/ LaunchReady(p)
           \/ StopLaunch(p) \/ Run(p) \/ ResumeExisting(p) \/ StartOperation(p)
           \/ \E a \in Terminal : Finish(p, a)
    PROVE  Frame
  <1>1. CASE Begin(p)
    <2>1. /\ op[p] # Absent /\ op[p].st \notin Terminal
          /\ op' = [op EXCEPT ![p] = Moved(op[p], "starting", NoMail)]
          /\ UNCHANGED <<scenario, node, launch, ledger, sched>>
      BY <1>1, Zenon DEF Begin, Terminal
    <2> QED BY <2>1, FrameMove, MovedRow DEF Frame, MarkInv, Pending, Recorded
  <1>2. CASE Run(p)
    <2>1. /\ op[p] # Absent /\ op[p].st \notin Terminal
          /\ op' = [op EXCEPT ![p] = Moved(op[p], "running", NoMail)]
          /\ UNCHANGED <<scenario, node, launch, ledger, sched>>
      BY <1>2 DEF Run, Terminal
    <2> QED BY <2>1, FrameMove, MovedRow DEF Frame, MarkInv, Pending, Recorded
  <1>3. ASSUME NEW a \in Terminal, Finish(p, a) PROVE Frame
    <2>1. /\ op[p] # Absent /\ op[p].st \notin Terminal
          /\ op' = [op EXCEPT ![p] = Moved(op[p], NextState(op[p].st, a), NoMail)]
          /\ UNCHANGED <<scenario, node, launch, ledger, sched>>
      BY <1>3, Zenon DEF Finish, Live
    <2> QED BY <2>1, FrameMove, MovedRow DEF Frame, MarkInv, Pending, Recorded
  <1>4. CASE StartOperation(p)
    <2> DEFINE r == [st |-> "queued", rev |-> 1, waits |-> NoMail]
    <2>1. /\ Exists(p) /\ ~node[p].tomb /\ op[p] = Absent
          /\ op' = [op EXCEPT ![p] = r] /\ sched' = [sched EXCEPT ![p] = "yes"]
          /\ UNCHANGED <<scenario, node, launch, ledger>>
      BY <1>4 DEF StartOperation, StartAllowed, OneOperation
    <2>2. r # Absent
      BY RowsDiffer, Zenon
    <2> HIDE DEF r
    <2> QED BY <2>1, <2>2 DEF Frame, MarkInv, TombInv, Pending, Recorded
  <1>5. CASE ResumeExisting(p)
    BY <1>5, FrameUntouched, Zenon DEF ResumeExisting
  <1>6. CASE EnsureReady(p)
    <2>1. /\ Exists(p)
          /\ sched' = [sched EXCEPT ![p] = "launching"]
          /\ UNCHANGED <<scenario, node, op, launch, ledger>>
      BY <1>6 DEF EnsureReady, Live, MarkInv
    <2> QED BY <2>1 DEF Frame, MarkInv, Pending, Recorded
  <1>7. CASE PrepareLaunch(p)
    <2> DEFINE r == [epoch |-> epoch, st |-> "prepared"]
    <2>1. /\ Exists(p)
          /\ sched' = [sched EXCEPT ![p] = "yes"]
          /\ UNCHANGED <<scenario, node, op, ledger>>
          /\ launch' = IF epoch = 0 \/ node[p].tomb THEN launch ELSE [launch EXCEPT ![p] = r]
      BY <1>7 DEF PrepareLaunch, MarkInv
    <2> HIDE DEF r
    <2>2. CASE node[p].tomb
      BY <2>1, <2>2 DEF Frame, MarkInv, Pending, Recorded
    <2>3. CASE ~node[p].tomb
      <3>1. \A x \in Participants \ {p} : launch'[x] = launch[x]
        BY <2>1 DEF MarkInv
      <3>2. launch' = [x \in Participants |-> launch'[x]]
        BY <2>1 DEF MarkInv
      <3> QED BY <2>1, <2>3, <3>1, <3>2 DEF Frame, MarkInv, Pending, Recorded
    <2> QED BY <2>2, <2>3
  <1>8. CASE LaunchReady(p)
    <2>1. /\ launch[p] = [epoch |-> epoch, st |-> "prepared"]
          /\ launch' = [launch EXCEPT ![p].st = "ready"]
          /\ UNCHANGED <<scenario, node, op, ledger, sched>>
      BY <1>8 DEF LaunchReady
    <2>2. Pending(p)
      BY <2>1, LaunchRows DEF Pending
    <2>3. /\ \A x \in Participants \ {p} : launch'[x] = launch[x]
          /\ launch' = [x \in Participants |-> launch'[x]]
      BY <2>1 DEF MarkInv
    <2> QED BY <2>1, <2>2, <2>3 DEF Frame, MarkInv, Pending, Recorded
  <1>9. CASE StopLaunch(p)
    <2>1. /\ Pending(p)
          /\ launch' = [launch EXCEPT ![p].st = "stopped"]
          /\ UNCHANGED <<scenario, node, op, ledger, sched>>
      BY <1>9 DEF StopLaunch, Pending
    <2>2. /\ \A x \in Participants \ {p} : launch'[x] = launch[x]
          /\ launch' = [x \in Participants |-> launch'[x]]
      BY <2>1 DEF MarkInv
    <2> QED BY <2>1, <2>2 DEF Frame, MarkInv, Pending, Recorded
  <1> QED BY <1>1, <1>2, <1>3, <1>4, <1>5, <1>6, <1>7, <1>8, <1>9

\* A command that creates no child.
LEMMA FrameApply ==
    ASSUME TombInv, WaitInv, MarkInv, NEW c, c \in Commands, Apply(c)
    PROVE  Frame \/ (ChildFits(c) /\ CreateChild(c) /\ ~Tombed(c.by))
  <1>0. c.by \in Participants /\ c.to \in Participants
    BY CommandAssumption DEF TombInv, TreeInv, Rooted, Commands
  <1>1. ASSUME UNCHANGED <<scenario, node, op, launch, sched>>,
               UNCHANGED ledger \/ (\E out : RecordCall(c.id, out))
        PROVE  Frame
    <2>1. \A k \in Closes : Recorded(k.id)' => Recorded(k.id)
      BY <1>1, FrameRecords DEF Recorded
    <2> QED BY <1>1, <2>1 DEF Frame, MarkInv, Pending
  <1>2. CASE Replay(c) \/ RefuseStale(c)
    BY <1>1, <1>2 DEF Replay, RefuseStale
  <1>3. CASE ApplySpawn(c)
    BY <1>1, <1>3, Zenon DEF ApplySpawn, RefuseSpawn, Denied, Tombed
  <1>4. CASE ApplyEffect(c)
    <2>1. CASE Denied(c)
      BY <1>1, <2>1 DEF Denied
    <2>2. CASE EffectAllowed(c)
      <3> DEFINE who == Changed(c)
                 waits == IF c.kind = "question" THEN <<"effect", c.id>> ELSE NoMail
                 r == Moved(op[who], NextState(op[who].st, ActionOf(c)), waits)
      <3>1. /\ UNCHANGED <<scenario, node, launch, sched>>
            /\ Changes(c) => op' = [op EXCEPT ![who] = r]
            /\ ~Changes(c) => op' = op
            /\ RecordCall(c.id, "allowed")
        BY <1>4, <2>2 DEF ApplyEffect
      <3>2. CASE ~Changes(c)
        BY <1>1, <3>1, <3>2
      <3>3. CASE Changes(c)
        <4>1. op[who] # Absent
          BY <2>2, <3>3, Zenon DEF EffectAllowed, OperationFits, Changes, Changed, Live
        <4>2. op[who].st \notin Terminal
          BY <2>2, <3>3, Zenon DEF EffectAllowed, OperationFits, Changes, Changed, Live, Terminal
        <4>3. who \in Participants
          BY <1>0 DEF Changed
        <4>4. r # Absent
          BY MovedRow
        <4>5. \A k \in Closes : Recorded(k.id)' => Recorded(k.id)
          BY <3>1, FrameRecords
        <4> HIDE DEF who, r
        <4> QED BY <3>1, <3>3, <4>1, <4>2, <4>3, <4>4, <4>5, FrameMove DEF Frame, MarkInv, Pending
      <3> QED BY <3>2, <3>3
    <2> QED BY <1>4, <2>1, <2>2 DEF ApplyEffect
  <1>5. CASE ApplyStatus(c)
    <2>1. UNCHANGED <<scenario, node, op, launch, sched>> /\ \E out : RecordCall(c.id, out)
      BY <1>5, Zenon DEF ApplyStatus
    <2> QED BY <1>1, <2>1
  <1>6. CASE ApplyCheck(c)
    <2>1. UNCHANGED <<scenario, node, op, launch, sched>> /\ \E out : RecordCall(c.id, out)
      BY <1>6, Zenon DEF ApplyCheck
    <2> QED BY <1>1, <2>1
  <1> QED BY <1>2, <1>3, <1>4, <1>5, <1>6 DEF Apply, Fresh

\* The other steps of a command and of the mail, and a change of owner.
LEMMA FrameOther ==
    ASSUME TombInv, WaitInv, MarkInv,
           \/ \E c \in Commands : \/ Issue(c) \/ Verify(c) \/ Schedule(c) \/ Ack(c)
                                  \/ Interrupt(c) \/ Reoffer(c)
           \/ \E m \in mail : Pend(m) \/ Retry(m) \/ Accept(m)
           \/ \E h \in {1, 2} : Takeover(h)
    PROVE  Frame
  <1>1. ASSUME NEW c \in Commands,
               Issue(c) \/ Verify(c) \/ Ack(c) \/ Interrupt(c) \/ Reoffer(c)
        PROVE  Frame
    BY <1>1, FrameUntouched, Zenon DEF Issue, Verify, Ack, Interrupt, Reoffer
  <1>2. ASSUME NEW c \in Commands, Schedule(c) PROVE Frame
    <2>1. c.to \in Participants
      BY CommandAssumption DEF TombInv, TreeInv, Rooted, Commands
    <2>2. /\ UNCHANGED <<scenario, node, op, launch, ledger>>
          /\ \/ UNCHANGED sched
             \/ sched' = [sched EXCEPT ![c.to] = IF sched[c.to] = "no" THEN "yes" ELSE sched[c.to]]
      BY <1>2 DEF Schedule
    <2>3. UNCHANGED sched \/ sched' = [sched EXCEPT ![c.to] = "yes"]
      BY <2>1, <2>2 DEF MarkInv
    <2> QED BY <2>1, <2>2, <2>3, FrameUntouched
  <1>3. ASSUME NEW m \in mail, Pend(m) \/ Retry(m) \/ (Accept(m) /\ ~Resumes(m)) PROVE Frame
    BY <1>3, FrameUntouched DEF Pend, Retry, Accept
  <1>4. ASSUME NEW m \in mail, Accept(m), Resumes(m) PROVE Frame
    <2>1. m.to \in Participants /\ op[m.to] # Absent /\ op[m.to].st \notin Terminal
      BY <1>4 DEF Resumes, WaitInv, MailFits, Terminal
    <2>2. /\ op' = [op EXCEPT ![m.to] = Moved(op[m.to], "running", NoMail)]
          /\ UNCHANGED <<scenario, node, launch, ledger, sched>>
      BY <1>4 DEF Accept
    <2> QED BY <2>1, <2>2, FrameMove, MovedRow DEF Frame, MarkInv, Pending, Recorded
  <1>5. ASSUME NEW h \in {1, 2}, Takeover(h) PROVE Frame
    BY <1>5 DEF Takeover, Frame, MarkInv, Pending, Recorded
  <1> QED BY <1>1, <1>2, <1>3, <1>4, <1>5

\* A new child hangs below its parent, which is not marked, so the root is not.
LEMMA MarkSpawn ==
    ASSUME TombInv, WaitInv, MarkInv, NEW c, c \in Commands, ChildFits(c), CreateChild(c),
           ~Tombed(c.by)
    PROVE  MarkInv' /\ Kept
  <1> DEFINE row == [parent |-> c.by, tmpl |-> c.tmpl, depth |-> node[c.by].depth + 1, tomb |-> FALSE]
             work == [st |-> "queued", rev |-> 1, waits |-> NoMail]
  <1>1. c.by \in Participants /\ c.to \in Participants
    BY CommandAssumption DEF TombInv, TreeInv, Rooted, Commands
  <1>2. Exists(c.by) /\ ~Exists(c.to)
    BY DEF ChildFits
  <1>3. /\ node' = [node EXCEPT ![c.to] = row]
        /\ op' = [op EXCEPT ![c.to] = work]
        /\ RecordCall(c.id, "allowed")
        /\ UNCHANGED <<scenario, launch, sched>>
    BY Zenon DEF CreateChild
  <1>4. row.parent = c.by /\ row # Absent
    BY NodeRows, Zenon
  <1> HIDE DEF row, work
  <1>5. /\ node'[c.to] = row
        /\ \A p \in Participants \ {c.to} : node'[p] = node[p] /\ op'[p] = op[p]
    BY <1>1, <1>3 DEF TombInv, TreeInv, Rooted
  <1>6. /\ Exists(c.to)'
        /\ \A p \in Participants : Exists(p) => Exists(p)' /\ Parent(p)' = Parent(p)
    BY <1>1, <1>2, <1>4, <1>5 DEF Exists, Parent
  <1>7. \A p \in Participants : Exists(p)' => Exists(p) \/ p = c.to
    BY <1>5 DEF Exists
  <1>8. c.to # Root /\ ~node[Root].tomb /\ Root \in Participants
    BY <1>1, <1>2, RootAssumption DEF MarkInv, Tombed, TombInv, TreeInv, Rooted
  <1>9. ~node'[Root].tomb
    BY <1>5, <1>8
  <1>10. \A p \in Participants : Children(p) \subseteq Children(p)'
    BY <1>6 DEF Children
  <1>11. c.to \in Children(c.by)'
    BY <1>1, <1>4, <1>5, <1>6 DEF Children, Parent
  <1>12. ASSUME NEW x \in Participants, NEW t, t \in ClosedBelow(Root)', Exists(x)'
         PROVE  x \in t
    <2>1. /\ t \in ClosedBelow(Root)
          /\ \A y \in t : Children(y)' \subseteq t
      BY <1>10, <1>12 DEF ClosedBelow
    <2>2. \A y \in Participants : Exists(y) => y \in t
      BY <2>1 DEF MarkInv, Subtree
    <2> QED BY <1>1, <1>2, <1>7, <1>11, <1>12, <2>1, <2>2
  <1>13. \A x \in Participants : Exists(x)' => x \in Subtree(Root)'
    BY <1>12 DEF Subtree
  <1>14. \A k \in Closes' : Recorded(k.id)' => node'[Root].tomb
    BY <1>3, <1>8, FrameRecords DEF MarkInv, Closes
  <1>15. \A p \in Participants : op'[p] # Absent \/ sched'[p] = "launching" => Exists(p)'
    BY <1>3, <1>5, <1>6 DEF MarkInv
  <1>16. MarkInv'
    BY <1>3, <1>9, <1>13, <1>14, <1>15 DEF MarkInv
  <1>17. op[c.to] = Absent
    BY <1>1, <1>2 DEF MarkInv
  <1>18. Kept
    BY <1>3, <1>5, <1>8, <1>17 DEF Kept
  <1> QED BY <1>16, <1>18

\* cancel_subtree marks a participant's subtree: of the root, everyone.
LEMMA MarkCancel ==
    ASSUME TombInv, WaitInv, MarkInv, NEW k, k.id \in Requests, CancelSubtree(k),
           (\A z \in Closes : z.id # k.id) \/ k.root = Root
    PROVE  MarkInv' /\ Kept /\ (k.root = Root => node'[Root].tomb)
  <1> DEFINE below == {p \in Subtree(k.root) : Exists(p)}
             told == {p \in Stopped(below) : ~Unseen(p)}
             moved(p) == Moved(op[p], IF p \in told THEN "cancelling" ELSE "cancelled", NoMail)
  <1>1. /\ node' = [p \in Participants |->
                      IF p \in below THEN [node[p] EXCEPT !.tomb = TRUE] ELSE node[p]]
        /\ op' = [p \in Participants |-> IF p \in Stopped(below) THEN moved(p) ELSE op[p]]
        /\ UNCHANGED <<scenario, launch, sched>>
        /\ Record(k.id, owner, epoch, "allowed")
    BY DEF CancelSubtree
  <1>2. \A p : moved(p) # Absent
    BY MovedRow, Zenon
  <1>3. \A p \in Stopped(below) : op[p] # Absent /\ op[p].st \notin Terminal
    BY DEF Stopped, Live
  <1>4. \A p \in below : p \in Participants /\ Exists(p)
    BY DEF Subtree
  <1>5. k.root = Root => \A p \in Participants : Exists(p) => p \in below
    BY DEF MarkInv
  <1> HIDE DEF below, told, moved
  <1>6. ASSUME NEW p \in Participants
        PROVE  /\ Exists(p)' <=> Exists(p)
               /\ Exists(p) => Parent(p)' = Parent(p)
               /\ p \in below => node'[p].tomb
               /\ p \notin below => node'[p] = node[p]
    <2>1. CASE p \in below
      <3>1. Exists(p) /\ NodeRow(node[p])
        BY <1>4, <2>1 DEF TombInv, TreeInv, Rooted
      <3>2. node'[p] = [node[p] EXCEPT !.tomb = TRUE]
        BY <1>1, <2>1
      <3>3. NodeRow(node'[p]) /\ node'[p].parent = node[p].parent /\ node'[p].tomb
        BY <3>1, <3>2, MarkedRow
      <3>4. node'[p] # Absent
        BY <3>3, RowsExist
      <3> QED BY <2>1, <3>1, <3>3, <3>4 DEF Exists, Parent
    <2>2. CASE p \notin below
      BY <1>1, <2>2 DEF Exists, Parent
    <2> QED BY <2>1, <2>2
  <1>7. \A p \in Participants : Children(p)' = Children(p)
    BY <1>6 DEF Children
  <1>8. Subtree(Root)' = Subtree(Root)
    BY <1>7 DEF Subtree, ClosedBelow
  <1>9. Root \in Participants /\ Exists(Root)
    BY RootAssumption DEF TombInv, TreeInv, Rooted
  <1>10. node[Root].tomb => node'[Root].tomb
    BY <1>6, <1>9
  <1>11. k.root = Root => node'[Root].tomb /\ \A p \in Participants : Exists(p)' => node'[p].tomb
    BY <1>5, <1>6, <1>9
  <1>12. ASSUME node'[Root].tomb, NEW p \in Participants, Exists(p)' PROVE node'[p].tomb
    <2>1. CASE Root \in below
      <3>1. \A t \in ClosedBelow(Root) : \A y \in Participants : Exists(y) => y \in t
        BY DEF MarkInv, Subtree
      <3>2. \A t \in ClosedBelow(k.root) : Root \in t
        BY <2>1 DEF below, Subtree
      <3>3. \A t \in ClosedBelow(k.root) : t \in ClosedBelow(Root)
        BY <3>2 DEF ClosedBelow
      <3>4. p \in below
        BY <1>6, <1>12, <3>1, <3>3 DEF below, Subtree
      <3> QED BY <1>6, <3>4
    <2>2. CASE Root \notin below
      BY <1>6, <1>9, <1>12, <2>2 DEF MarkInv
    <2> QED BY <2>1, <2>2
  <1>13. ASSUME NEW z \in Closes, Recorded(z.id)' PROVE node'[Root].tomb
    <2>1. CASE k.root = Root
      BY <1>11, <2>1
    <2>2. CASE k.root # Root
      <3>1. z.id # k.id /\ z.id \in Requests
        BY <2>2 DEF Requests, Closes
      <3>2. Recorded(z.id)
        BY <1>1, <1>13, <3>1 DEF Record, Recorded, WaitInv
      <3> QED BY <1>10, <3>2 DEF MarkInv
    <2> QED BY <2>1, <2>2
  <1>14. \A p \in Participants :
            /\ op'[p] # Absent <=> op[p] # Absent
            /\ op[p] # Absent /\ op[p].st \in Terminal => op'[p] = op[p]
    BY <1>1, <1>2, <1>3
  <1>15. MarkInv'
    BY <1>1, <1>6, <1>8, <1>12, <1>13, <1>14, Zenon DEF MarkInv, Closes
  <1>16. Kept
    BY <1>1, <1>10, <1>14 DEF Kept, Pending
  <1> QED BY <1>11, <1>15, <1>16

\* The steps of a close, but for the cancellation it asks for.
LEMMA FrameClose ==
    ASSUME MarkInv, NEW k \in Closes, CloseStep(k)
    PROVE  Frame \/ (RequestCancellation(k) /\ CancelSubtree(WholeTree(k)))
  <1>1. CASE RequestCancellation(k)
    <2>1. CASE UNCHANGED hvars
      BY <2>1, FrameUntouched DEF hvars
    <2> QED BY <1>1, <2>1 DEF RequestCancellation
  <1>2. CASE AbortWorkers(k)
    BY <1>2, Zenon DEF AbortWorkers, Frame, MarkInv, Pending, Recorded
  <1>3. CASE ShutdownSession(k)
    <2>1. /\ UNCHANGED <<scenario, node, op, ledger, sched>>
          /\ launch' = [p \in Participants |->
                           IF launch[p] # Absent /\ launch[p].epoch = closing[k.id].epoch
                           THEN [launch[p] EXCEPT !.st = "stopped"] ELSE launch[p]]
      BY <1>3 DEF ShutdownSession
    <2>2. \A p \in Participants : Pending(p)' => launch[p] # Absent
      BY <2>1 DEF Pending
    <2>3. \A p \in Participants : Pending(p)' => launch'[p] = launch[p] \/ launch[p].st # "stopped"
      BY <2>1, <2>2, StoppedAgain DEF Pending
    <2>4. \A p \in Participants : Pending(p)' => Pending(p)
      BY <2>2, <2>3 DEF Pending
    <2> QED BY <2>1, <2>4 DEF Frame, MarkInv, Recorded
  <1>4. CASE CommitClose(k)
    BY <1>4, FrameUntouched DEF CommitClose
  <1>5. CASE \/ BeginClose(k) \/ InspectPrior(k) \/ InspectPriorLaunches(k) \/ DriveCancellation(k)
             \/ AwaitTerminal(k) \/ CancellationFails(k) \/ InspectAgain(k) \/ InspectLaunchesAgain(k)
             \/ CheckLaunches(k) \/ AbandonClose(k)
    <2>1. UNCHANGED hvars
      BY <1>5, Zenon DEF BeginClose, InspectPrior, InspectPriorLaunches, DriveCancellation,
                  AwaitTerminal, CancellationFails, InspectAgain, InspectLaunchesAgain, CheckLaunches,
                  AbandonClose, hvars
    <2> QED BY <2>1, FrameUntouched DEF hvars
  <1> QED BY <1>1, <1>2, <1>3, <1>4, <1>5 DEF CloseStep

LEMMA MarkStep ==
    ASSUME TombInv, WaitInv, MarkInv, [Next]_vars
    PROVE  MarkInv' /\ Kept
  <1>1. CASE UNCHANGED vars
    BY <1>1, FrameUntouched, MarkFrame DEF vars, hvars
  <1>2. CASE \E t \in DOMAIN tpolicy : RegisterTemplatePolicy(t)
    BY <1>2, FrameUntouched, MarkFrame DEF RegisterTemplatePolicy
  <1>3. CASE PutRootPolicy
    BY <1>3, FrameUntouched, MarkFrame DEF PutRootPolicy
  <1>4. CASE \E g \in Grants : IssueGrant(g) \/ RevokeGrant(g) \/ ExpireGrant(g)
    BY <1>4, FrameUntouched, MarkFrame DEF IssueGrant, RevokeGrant, ExpireGrant
  <1>5. ASSUME NEW c \in Commands, Apply(c) PROVE MarkInv' /\ Kept
    BY <1>5, FrameApply, MarkFrame, MarkSpawn
  <1>6. CASE \/ \E c \in Commands : \/ Issue(c) \/ Verify(c) \/ Schedule(c) \/ Ack(c)
                                    \/ Interrupt(c) \/ Reoffer(c)
             \/ \E m \in mail : Pend(m) \/ Retry(m) \/ Accept(m)
             \/ \E h \in {1, 2} : Takeover(h)
    BY <1>6, FrameOther, MarkFrame
  <1>7. ASSUME NEW p \in Participants,
               \/ Begin(p) \/ EnsureReady(p) \/ PrepareLaunch(p) \/ LaunchReady(p)
               \/ StopLaunch(p) \/ Run(p) \/ ResumeExisting(p) \/ StartOperation(p)
               \/ \E a \in Terminal : Finish(p, a)
        PROVE  MarkInv' /\ Kept
    BY <1>7, FrameWorker, MarkFrame
  <1>8. ASSUME NEW k \in scenario.cancels, CancelSubtree(k) PROVE MarkInv' /\ Kept
    <2>1. k.id \in Requests /\ \A z \in Closes : z.id # k.id
      BY CloseAssumption DEF Requests, Closes, WaitInv
    <2> QED BY <1>8, <2>1, MarkCancel
  <1>9. ASSUME NEW k \in Closes, CloseStep(k) PROVE MarkInv' /\ Kept
    <2>1. WholeTree(k).id \in Requests /\ WholeTree(k).root = Root
      BY DEF Requests, Closes, WholeTree
    <2> QED BY <1>9, <2>1, FrameClose, MarkFrame, MarkCancel
  <1> QED BY <1>1, <1>2, <1>3, <1>4, <1>5, <1>6, <1>7, <1>8, <1>9, Zenon DEF Next, HierarchyNext

LEMMA MarkInit ==
    ASSUME Init
    PROVE  MarkInv
  <1> DEFINE row == [parent |-> NoName, tmpl |-> scenario.roottmpl, depth |-> 1, tomb |-> FALSE]
  <1>1. node = [p \in Participants |-> IF p = Root THEN row ELSE Absent]
    BY DEF Init, HierarchyInit
  <1>2. ~row.tomb /\ row # Absent
    BY NodeRows
  <1> HIDE DEF row
  <1>3. Root \in Participants /\ Exists(Root) /\ ~node[Root].tomb
    BY <1>1, <1>2, RootAssumption DEF Exists
  <1>4. \A p \in Participants : Exists(p) => p = Root
    BY <1>1 DEF Exists
  <1>5. Root \in Subtree(Root)
    BY <1>3 DEF Subtree, ClosedBelow
  <1>6. \A p \in Participants : op[p] # Absent \/ sched[p] = "launching" => p = Root
    BY DEF Init, HierarchyInit
  <1>7. \A k \in Closes : ~Recorded(k.id)
    BY DEF Init, HierarchyInit, Closes, Requests, Recorded
  <1>8. launch = [p \in Participants |-> launch[p]] /\ sched = [p \in Participants |-> sched[p]]
    BY DEF Init, HierarchyInit
  <1> QED BY <1>3, <1>4, <1>5, <1>6, <1>7, <1>8 DEF MarkInv

-----------------------------------------------------------------------------
\* The row of a close request.
CloseRow(z) ==
    /\ DOMAIN z = {"st", "epoch", "records", "marked"}
    /\ z = [f \in DOMAIN z |-> z[f]]

AllOver == \A p \in Participants : op[p] # Absent => op[p].st \in Terminal

\* What a close request that is where z says may rely on.
CloseFacts(z) ==
    /\ z.marked => node[Root].tomb
    /\ z.st \in {"stopping", "driving", "waiting", "quiet"} =>
          z.marked /\ \A p \in Participants : op[p] # Absent => p \in z.records
    /\ z.st \in {"prior", "proved", "confirmed", "checked", "closed"} /\ z.marked => AllOver
    /\ z.st \in {"checked", "closed"} /\ z.marked => \A p \in Participants : ~Pending(p)

CloseInv ==
    /\ closing = [q \in {k.id : k \in Closes} |-> closing[q]]
    /\ \A k \in Closes : CloseRow(closing[k.id]) /\ CloseFacts(closing[k.id])

LEMMA CloseFactsKept ==
    ASSUME Kept, NEW z, CloseFacts(z)
    PROVE  CloseFacts(z)'
  <1>1. /\ node[Root].tomb => node'[Root].tomb
        /\ node[Root].tomb => \A p \in Participants :
              /\ op'[p] # Absent => op[p] # Absent
              /\ Pending(p)' => Pending(p)
              /\ op[p] # Absent /\ op[p].st \in Terminal => op'[p] = op[p]
    BY DEF Kept
  <1>2. node[Root].tomb /\ AllOver => AllOver'
    BY <1>1, Zenon DEF AllOver
  <1> HIDE DEF AllOver, Pending
  <1> QED BY <1>1, <1>2 DEF CloseFacts

\* One close request moves on.
LEMMA CloseMove ==
    ASSUME CloseInv, Kept, NEW k \in Closes, NEW r,
           closing' = [closing EXCEPT ![k.id] = r], CloseRow(r), CloseFacts(r)'
    PROVE  CloseInv'
  <1>1. Closes' = Closes
    BY DEF Kept, Closes
  <1>2. /\ closing' = [q \in {x.id : x \in Closes} |-> closing'[q]]
        /\ closing'[k.id] = r
        /\ \A x \in Closes : x.id # k.id => closing'[x.id] = closing[x.id]
    BY Zenon DEF CloseInv
  <1>3. ASSUME NEW x \in Closes PROVE CloseRow(closing'[x.id]) /\ CloseFacts(closing[x.id])'
    <2>1. CASE x.id = k.id
      BY <1>2, <2>1
    <2>2. CASE x.id # k.id
      <3>1. PICK z : z = closing[x.id]
        OBVIOUS
      <3>2. CloseRow(z) /\ CloseFacts(z)
        BY <3>1 DEF CloseInv
      <3>3. CloseFacts(z)'
        BY <3>2, CloseFactsKept
      <3> QED BY <1>2, <2>2, <3>1, <3>2, <3>3
    <2> QED BY <2>1, <2>2
  <1> QED BY <1>1, <1>2, <1>3 DEF CloseInv

\* It moves on to a place where nothing more has to hold than where it is.
LEMMA CloseGoto ==
    ASSUME CloseInv, Kept, NEW k \in Closes, NEW st, Goto(k, st),
           st \in {"driving", "waiting", "quiet"} => closing[k.id].st \in {"stopping", "driving", "waiting"},
           st # "stopping",
           st \in {"prior", "proved", "confirmed", "checked", "closed"} /\ closing[k.id].marked => AllOver',
           st \in {"checked", "closed"} /\ closing[k.id].marked => \A p \in Participants : ~Pending(p)'
    PROVE  CloseInv'
  <1>1. PICK z : z = closing[k.id]
    OBVIOUS
  <1>2. PICK r : r = [z EXCEPT !.st = st]
    BY Zenon
  <1>3. closing' = [closing EXCEPT ![k.id] = r]
    BY <1>1, <1>2 DEF Goto
  <1>4. CloseRow(z) /\ CloseFacts(z) /\ CloseFacts(z)'
    BY <1>1, CloseFactsKept DEF CloseInv
  <1>5. CloseRow(r) /\ r.st = st /\ r.marked = z.marked /\ r.records = z.records
    BY <1>2, <1>4 DEF CloseRow
  <1> HIDE DEF AllOver, Pending
  <1>6. CloseFacts(r)'
    BY <1>1, <1>4, <1>5 DEF CloseFacts
  <1> QED BY <1>3, <1>5, <1>6, CloseMove, Zenon

\* What the store's records confirm: every operation of the tree is in them.
LEMMA RecordsAreAll ==
    ASSUME MarkInv
    PROVE  /\ \A p \in Participants : op[p] # Absent => p \in Records
           /\ Confirmed(Records) => AllOver
  BY DEF MarkInv, Records, Confirmed, AllOver

\* The cancellation a close asks for starts nothing.
LEMMA SameOperations ==
    ASSUME NEW k, RequestCancellation(k)
    PROVE  \A p \in Participants : op'[p] # Absent => op[p] # Absent
  <1>1. CASE UNCHANGED hvars
    BY <1>1 DEF hvars
  <1>2. CASE CancelSubtree(WholeTree(k))
    BY <1>2 DEF CancelSubtree, Stopped, Live
  <1> QED BY <1>1, <1>2 DEF RequestCancellation

LEMMA CloseStepKeeps ==
    ASSUME MarkInv, MarkInv', Kept, CloseInv, NEW k \in Closes, CloseStep(k),
           RequestCancellation(k) => node'[Root].tomb
    PROVE  CloseInv'
  <1> DEFINE z == closing[k.id]
  <1>0. CloseRow(z) /\ CloseFacts(z)
    BY DEF CloseInv
  <1>1. CASE BeginClose(k)
    <2>1. PICK r : r = [st |-> "begun", epoch |-> epoch, records |-> {}, marked |-> FALSE]
      BY Zenon
    <2>2. closing' = [closing EXCEPT ![k.id] = r]
      BY <1>1, <2>1 DEF BeginClose
    <2>3. CloseRow(r) /\ CloseFacts(r)'
      BY <2>1, Zenon DEF CloseRow, CloseFacts
    <2> QED BY <2>2, <2>3, CloseMove, Zenon
  <1>2. CASE InspectPrior(k) \/ InspectAgain(k)
    <2>1. PICK st : st = IF InspectPrior(k) THEN IF Confirmed(Records) THEN "prior" ELSE "asking"
                         ELSE IF Confirmed(Records) THEN "proved" ELSE "failed"
      OBVIOUS
    <2>2. PICK r : r = [z EXCEPT !.st = st, !.marked = node[Root].tomb]
      OBVIOUS
    <2>3. closing' = [closing EXCEPT ![k.id] = r] /\ UNCHANGED hvars
      <3>1. CASE InspectPrior(k)
        BY <2>1, <2>2, <3>1, Zenon DEF InspectPrior
      <3>2. CASE ~InspectPrior(k) /\ InspectAgain(k)
        BY <2>1, <2>2, <3>2, Zenon DEF InspectAgain
      <3> QED BY <1>2, <3>1, <3>2
    <2>4. CloseRow(r) /\ r.st = st /\ r.marked = node[Root].tomb
      BY <1>0, <2>2, Zenon DEF CloseRow
    <2>5. node' = node /\ (AllOver => AllOver')
      BY <2>3 DEF hvars, AllOver
    <2>6. CloseFacts(r)'
      BY <2>1, <2>4, <2>5, RecordsAreAll, Zenon DEF CloseFacts
    <2> QED BY <2>3, <2>4, <2>6, CloseMove, Zenon
  <1>3. CASE RequestCancellation(k)
    <2>1. PICK r : r = [z EXCEPT !.st = "stopping", !.records = Records, !.marked = TRUE]
      OBVIOUS
    <2>2. closing' = [closing EXCEPT ![k.id] = r]
      BY <1>3, <2>1, Zenon DEF RequestCancellation
    <2>3. CloseRow(r) /\ r.st = "stopping" /\ r.marked = TRUE /\ r.records = Records
      BY <1>0, <2>1, Zenon DEF CloseRow
    <2>4. \A p \in Participants : op'[p] # Absent => op[p] # Absent
      BY <1>3, SameOperations
    <2>5. \A p \in Participants : op'[p] # Absent => p \in r.records
      BY <2>3, <2>4, RecordsAreAll
    <2>6. CloseFacts(r)'
      BY <1>3, <2>3, <2>5 DEF CloseFacts
    <2> QED BY <2>2, <2>3, <2>6, CloseMove, Zenon
  <1>4. CASE AbortWorkers(k)
    BY <1>4, CloseGoto, Zenon DEF AbortWorkers, At
  <1>5. CASE DriveCancellation(k)
    <2>1. /\ z.st = "driving" /\ UNCHANGED hvars
          /\ Goto(k, "waiting") \/ Goto(k, "fallback")
      BY <1>5, Zenon DEF DriveCancellation, At
    <2> QED BY <2>1, CloseGoto
  <1>6. CASE AwaitTerminal(k)
    BY <1>6, CloseGoto DEF AwaitTerminal, At
  <1>7. CASE ShutdownSession(k)
    <2>1. z.st = "quiet" /\ op' = op
      BY <1>7 DEF ShutdownSession, At
    <2>2. Confirmed(z.records) => AllOver'
      BY <1>0, <2>1 DEF CloseFacts, Confirmed, AllOver
    <2>3. (Confirmed(z.records) /\ Goto(k, "confirmed")) \/ Goto(k, "failed")
      BY <1>7 DEF ShutdownSession
    <2> QED BY <2>2, <2>3, CloseGoto
  <1>8. CASE CheckLaunches(k)
    <2>1. /\ z.st = "confirmed" /\ UNCHANGED hvars
          /\ (~Unresolved /\ Goto(k, "checked")) \/ Goto(k, "failed")
      BY <1>8 DEF CheckLaunches, At
    <2>2. AllOver' = AllOver /\ \A p \in Participants : Pending(p)' = Pending(p)
      BY <2>1, Zenon DEF hvars, AllOver, Pending
    <2>3. ~Unresolved => \A p \in Participants : ~Pending(p)
      BY DEF Unresolved, Pending
    <2> QED BY <1>0, <2>1, <2>2, <2>3, CloseGoto, Zenon DEF CloseFacts
  <1>9. CASE CommitClose(k)
    <2>1. /\ z.st = "checked" /\ op' = op /\ launch' = launch
          /\ Goto(k, "closed") \/ Goto(k, "failed")
      BY <1>9, Zenon DEF CommitClose, At
    <2>2. AllOver' = AllOver /\ \A p \in Participants : Pending(p)' = Pending(p)
      BY <2>1, Zenon DEF AllOver, Pending
    <2> QED BY <1>0, <2>1, <2>2, CloseGoto DEF CloseFacts
  <1>10. CASE AbandonClose(k) \/ CancellationFails(k)
    <2>1. Goto(k, "failed") \/ Goto(k, "fallback")
      BY <1>10, Zenon DEF AbandonClose, CancellationFails
    <2> QED BY <2>1, CloseGoto
  <1>11. CASE InspectPriorLaunches(k) \/ InspectLaunchesAgain(k)
    <2>1. /\ z.st \in {"prior", "proved"} /\ UNCHANGED hvars
          /\ Goto(k, "confirmed") \/ Goto(k, "asking") \/ Goto(k, "failed")
      BY <1>11 DEF InspectPriorLaunches, InspectLaunchesAgain, At
    <2>2. AllOver' = AllOver
      BY <2>1, Zenon DEF hvars, AllOver
    <2> QED BY <1>0, <2>1, <2>2, CloseGoto DEF CloseFacts
  <1> QED BY <1>1, <1>2, <1>3, <1>4, <1>5, <1>6, <1>7, <1>8, <1>9, <1>10, <1>11, Zenon DEF CloseStep

LEMMA CloseInvStep ==
    ASSUME TombInv, WaitInv, MarkInv, CloseInv, [Next]_vars
    PROVE  CloseInv'
  <1>1. MarkInv' /\ Kept
    BY MarkStep
  <1>2. CASE UNCHANGED cvars
    <2>1. Closes' = Closes /\ closing' = closing
      BY <1>1, <1>2 DEF Kept, Closes, cvars
    <2>2. ASSUME NEW k \in Closes PROVE CloseFacts(closing[k.id])'
      <3>1. PICK z : z = closing[k.id]
        OBVIOUS
      <3>2. CloseFacts(z)'
        BY <1>1, <3>1, CloseFactsKept DEF CloseInv
      <3> QED BY <2>1, <3>1, <3>2
    <2> QED BY <2>1, <2>2 DEF CloseInv
  <1>3. ASSUME NEW k \in Closes, CloseStep(k) PROVE CloseInv'
    <2>1. WholeTree(k).id \in Requests /\ WholeTree(k).root = Root /\ WholeTree(k).id = k.id
      BY DEF Requests, Closes, WholeTree
    <2>2. RequestCancellation(k) => node'[Root].tomb
      <3>1. CASE Recorded(k.id) /\ UNCHANGED hvars
        BY <3>1 DEF MarkInv, hvars
      <3>2. CASE CancelSubtree(WholeTree(k))
        BY <2>1, <3>2, MarkCancel
      <3> QED BY <3>1, <3>2 DEF RequestCancellation
    <2> QED BY <1>1, <1>3, <2>2, CloseStepKeeps
  <1> QED BY <1>2, <1>3 DEF Next, vars

LEMMA CloseInvInit ==
    ASSUME Init
    PROVE  CloseInv
  <1>1. PICK r : r = [st |-> "idle", epoch |-> 0, records |-> {}, marked |-> FALSE]
    BY Zenon
  <1>2. closing = [q \in {k.id : k \in Closes} |-> r]
    BY <1>1 DEF Init, CloseInit
  <1>3. CloseRow(r) /\ CloseFacts(r)
    BY <1>1 DEF CloseRow, CloseFacts
  <1> QED BY <1>2, <1>3 DEF CloseInv

(***************************************************************************)
(* A close that cancelled the tree, or found it cancelled, leaves no       *)
(* operation unfinished and no launch unstopped (close_owned,              *)
(* cancel_session_until, prepare_launch, create_authorized_child): for     *)
(* every tree and every interleaving of its steps with spawns, workers,    *)
(* other cancellations, takeovers and a second close.                      *)
(***************************************************************************)
THEOREM ClosedIsQuiet == Spec => []CancelledCloseIsQuiet
  <1>1. Init => TombInv /\ WaitInv /\ MarkInv /\ CloseInv
    BY TombInit, WaitInit, MarkInit, CloseInvInit
  <1>2. TombInv /\ WaitInv /\ MarkInv /\ CloseInv /\ [Next]_vars
        => TombInv' /\ WaitInv' /\ MarkInv' /\ CloseInv'
    BY TombStep, WaitStep, MarkStep, CloseInvStep
  <1>3. CloseInv => CancelledCloseIsQuiet
    BY DEF CloseInv, CloseFacts, CancelledCloseIsQuiet, AllOver, Unresolved, Pending
  <1> QED BY <1>1, <1>2, <1>3, PTL DEF Spec

=============================================================================
