--------------------------- MODULE DeliveryProofs ---------------------------
(***************************************************************************)
(* Theorems about two loops of a host.  Its delivery of messages to driver *)
(* instances, for any number of hosts, instances and messages, any attempt *)
(* budget and any number of crashes; and the permits of FairCapacity that  *)
(* its workers compete for: they are counted exactly and never exceed the  *)
(* capacity, a free one is never kept from a queued worker, and no         *)
(* campaign is served twice while another one waits, for any workers,      *)
(* campaigns and capacity.                                                 *)
(***************************************************************************)
EXTENDS Delivery, FairCapacity, FiniteSetTheorems, TLAPS

\* A leaf is tried with SMT, with Zenon, and then with SMT and more time.
USE SMT, Zenon, SMTT(10), SMTT(20), SMTT(30)

(***************************************************************************)
(* The rows.  A driver can act on a message only after an attempt of it    *)
(* was leased, and a fresh lease goes to the first open message: so no     *)
(* message with an open one before it has any attempt.                     *)
(***************************************************************************)
RowFits(r, next) ==
  /\ r.state = "absent" => r.attempts = 0
  /\ r.state # "absent" => r.seq < next
  /\ r.state \in LeaseStates => r.inst \in Instances /\ r.attempts > 0
  /\ r.attempts <= MaxAttempts

\* m comes before n, and is of n's priority.
Earlier(m, n) == (m \in Controls <=> n \in Controls) /\ msgs[m].seq < msgs[n].seq

RowInv ==
  /\ msgs \in [Messages -> Rows] /\ nextSeq \in Nat /\ epoch \in Nat
  /\ \A m \in Messages : RowFits(msgs[m], nextSeq)
  /\ \A m, n \in Messages : Open(m) /\ msgs[n].state # "absent" /\ Earlier(m, n)
                              => msgs[n].attempts = 0

\* Attempts are only added, and no message becomes accepted.
Grows ==
  \A m \in Messages :
    /\ msgs'[m].attempts >= msgs[m].attempts
    /\ msgs'[m].state = "accepted" =>
         msgs[m].state = "accepted" /\ msgs'[m].attempts = msgs[m].attempts

\* One present row changes.  Its attempts grow only when it comes before every
\* other open row.
LEMMA RowMove ==
  ASSUME RowInv, NEW m \in Messages, NEW r \in Rows,
         msgs' = [msgs EXCEPT ![m] = r], UNCHANGED <<nextSeq, epoch>>,
         RowFits(r, nextSeq), r.state # "absent", msgs[m].state # "absent",
         r.seq = msgs[m].seq, r.attempts >= msgs[m].attempts,
         r.state \in OpenStates => Open(m),
         \/ r.attempts = msgs[m].attempts
         \/ \A n \in Messages \ {m} : Open(n) => Before(m, n)
  PROVE  RowInv'
  <1>1. /\ msgs' \in [Messages -> Rows] /\ nextSeq' \in Nat /\ epoch' \in Nat
        /\ msgs'[m] = r
        /\ \A n \in Messages \ {m} : msgs'[n] = msgs[n]
    BY DEF RowInv
  <1>2. \A n \in Messages : RowFits(msgs[n], nextSeq)'
    BY <1>1 DEF RowInv, RowFits
  <1>3. ASSUME NEW a \in Messages, NEW b \in Messages,
               Open(a)', msgs'[b].state # "absent", Earlier(a, b)'
        PROVE  msgs'[b].attempts = 0
    <2>1. Open(a) /\ msgs[b].state # "absent" /\ Earlier(a, b)
      BY <1>1, <1>3 DEF Open, Earlier
    <2>2. msgs[b].attempts = 0
      BY <2>1 DEF RowInv
    <2>3. CASE b # m
      BY <1>1, <2>2, <2>3
    <2>4. CASE b = m /\ r.attempts = msgs[m].attempts
      BY <1>1, <2>2, <2>4
    <2>5. CASE b = m /\ \A n \in Messages \ {m} : Open(n) => Before(m, n)
      <3>1. msgs[a].seq \in Nat /\ msgs[b].seq \in Nat
        BY DEF RowInv, Rows
      <3>2. a # m
        BY <2>1, <2>5, <3>1 DEF Earlier
      <3>3. Before(m, a)
        BY <2>1, <2>5, <3>2
      <3> QED BY <2>1, <2>5, <3>1, <3>3 DEF Earlier, Before
    <2> QED BY <2>3, <2>4, <2>5
  <1> QED BY <1>1, <1>2, <1>3 DEF RowInv

LEMMA RowUntouched ==
  ASSUME RowInv, UNCHANGED <<msgs, nextSeq>>, epoch' \in Nat
  PROVE  RowInv' /\ Grows
  <1>1. RowInv'
    BY DEF RowInv, Open, Earlier
  <1>2. Grows
    BY DEF RowInv, Rows, Grows
  <1> QED BY <1>1, <1>2

\* A row without a lease.
LEMMA ReleasedRow ==
  ASSUME NEW row \in Rows, NEW state \in {"absent"} \cup OpenStates \cup TerminalStates
  PROVE  /\ Released(row, state) \in Rows
         /\ Released(row, state).state = state
         /\ Released(row, state).seq = row.seq
         /\ Released(row, state).attempts = row.attempts
  <1> DEFINE n == row.rev + 1
             a == [row EXCEPT !.state = state, !.rev = n]
             b == [a EXCEPT !.holder = NoHost, !.tenure = 0]
             c == [b EXCEPT !.inst = NoInstance, !.lapsed = FALSE]
  <1>0. n \in Nat
    BY DEF Rows
  <1> HIDE DEF n
  <1>1. a \in Rows /\ a.state = state /\ a.seq = row.seq /\ a.attempts = row.attempts
    BY <1>0, Zenon DEF Rows
  <1> HIDE DEF a
  <1>2. b \in Rows /\ b.state = a.state /\ b.seq = a.seq /\ b.attempts = a.attempts
    BY <1>1, Zenon DEF Rows
  <1> HIDE DEF b
  <1>3. c \in Rows /\ c.state = b.state /\ c.seq = b.seq /\ c.attempts = b.attempts
    BY <1>2, Zenon DEF Rows
  <1>4. Released(row, state) = c
    BY DEF Released, Rows, n, a, b
  <1> HIDE DEF c
  <1> QED BY <1>1, <1>2, <1>3, <1>4

LEMMA RowEnqueue ==
  ASSUME RowInv, NEW h, NEW m \in Messages, Enqueue(h, m)
  PROVE  RowInv' /\ Grows
  <1>1. PICK r : r = [AbsentMessage EXCEPT !.state = "queued", !.seq = nextSeq, !.rev = 1]
    OBVIOUS
  <1>2. r \in Rows /\ r.state = "queued" /\ r.seq = nextSeq /\ r.attempts = 0
    BY <1>1, Zenon DEF AbsentMessage, Rows, OpenStates, RowInv
  <1>3. msgs' = [msgs EXCEPT ![m] = r] /\ nextSeq' = nextSeq + 1 /\ UNCHANGED epoch
        /\ msgs[m].state = "absent"
    BY <1>1 DEF Enqueue
  <1>4. /\ msgs' \in [Messages -> Rows] /\ nextSeq' \in Nat /\ epoch' \in Nat
        /\ msgs'[m] = r
        /\ \A n \in Messages \ {m} : msgs'[n] = msgs[n]
        /\ \A n \in Messages : msgs[n].seq \in Nat /\ msgs[n].attempts \in Nat
        /\ MaxAttempts \in Nat
    BY <1>2, <1>3, MailboxAssumption DEF RowInv, Rows
  <1>5. \A n \in Messages : RowFits(msgs[n], nextSeq)'
    BY <1>2, <1>3, <1>4 DEF RowInv, RowFits, LeaseStates, InDoubtStates
  <1>6. ASSUME NEW a \in Messages, NEW b \in Messages,
               Open(a)', msgs'[b].state # "absent", Earlier(a, b)'
        PROVE  msgs'[b].attempts = 0
    <2>1. CASE b = m
      BY <1>2, <1>4, <2>1
    <2>2. CASE b # m
      <3>1. msgs'[b] = msgs[b] /\ msgs[b].seq < nextSeq
        BY <1>4, <1>6, <2>2 DEF RowInv, RowFits
      <3>2. a # m
        BY <1>2, <1>4, <1>6, <3>1 DEF Earlier, RowInv
      <3> QED BY <1>4, <1>6, <3>1, <3>2 DEF RowInv, Open, Earlier
    <2> QED BY <2>1, <2>2
  <1>7. Grows
    BY <1>2, <1>3, <1>4 DEF Grows, RowInv, RowFits
  <1> QED BY <1>4, <1>5, <1>6, <1>7 DEF RowInv

LEMMA RowLapse ==
  ASSUME RowInv, NEW m \in Messages, Lapse(m)
  PROVE  RowInv' /\ Grows
  <1>1. PICK r : r = [msgs[m] EXCEPT !.lapsed = TRUE]
    BY Zenon
  <1>2. /\ r \in Rows /\ r.state = msgs[m].state /\ r.seq = msgs[m].seq
        /\ r.attempts = msgs[m].attempts /\ r.inst = msgs[m].inst /\ r.attempts \in Nat
    BY <1>1, Zenon DEF RowInv, Rows
  <1>3. msgs' = [msgs EXCEPT ![m] = r] /\ UNCHANGED <<nextSeq, epoch>> /\ Open(m)
    BY <1>1 DEF Lapse, Open, OpenStates
  <1>4. RowFits(r, nextSeq) /\ msgs[m].state # "absent"
    BY <1>2, <1>3 DEF RowInv, RowFits, Open, OpenStates, LeaseStates, InDoubtStates
  <1>a. r.attempts >= msgs[m].attempts /\ (r.state \in OpenStates => Open(m))
    BY <1>2, <1>3
  <1>5. RowInv'
    BY <1>2, <1>3, <1>4, <1>a, RowMove, Zenon
  <1>6. Grows
    BY <1>2, <1>3 DEF Grows, RowInv, Rows
  <1> QED BY <1>5, <1>6

\* A row that ends, or goes back to be tried again.
LEMMA RowReleased ==
  ASSUME RowInv, NEW m \in Messages, Open(m), NEW state \in TerminalStates \cup {"retry"},
         msgs' = [msgs EXCEPT ![m] = Released(msgs[m], state)], UNCHANGED <<nextSeq, epoch>>
  PROVE  RowInv' /\ (state # "accepted" => Grows) /\ msgs'[m].state = state
           /\ \A n \in Messages : msgs'[n].attempts = msgs[n].attempts
                                    /\ (n # m => msgs'[n] = msgs[n])
  <1>1. PICK r : r = Released(msgs[m], state)
    OBVIOUS
  <1>2. /\ msgs[m] \in Rows /\ msgs[m].attempts \in Nat
        /\ state \in {"absent"} \cup OpenStates \cup TerminalStates
        /\ state # "absent" /\ state \notin LeaseStates /\ msgs[m].state # "absent"
    BY DEF RowInv, Rows, OpenStates, TerminalStates, LeaseStates, InDoubtStates, Open
  <1>3. r \in Rows /\ r.state = state /\ r.seq = msgs[m].seq /\ r.attempts = msgs[m].attempts
    BY <1>1, <1>2, ReleasedRow
  <1>4. RowFits(r, nextSeq)
    BY <1>2, <1>3 DEF RowInv, RowFits
  <1>5. r.attempts >= msgs[m].attempts /\ msgs' = [msgs EXCEPT ![m] = r]
    BY <1>1, <1>2, <1>3
  <1>6. RowInv'
    BY <1>2, <1>3, <1>4, <1>5, RowMove, Zenon
  <1>7. msgs'[m] = r /\ \A n \in Messages \ {m} : msgs'[n] = msgs[n] /\ msgs[n].attempts \in Nat
    BY <1>5 DEF RowInv, Rows
  <1>8. state # "accepted" => Grows
    BY <1>3, <1>5, <1>7 DEF Grows
  <1> QED BY <1>3, <1>6, <1>7, <1>8

LEMMA RowRetire ==
  ASSUME RowInv, NEW h, Retire(h)
  PROVE  RowInv' /\ Grows
  <1> DEFINE retired == {m \in Correlated : Open(m)}
  <1>1. /\ msgs' = [m \in Messages |-> IF m \in retired
                       THEN Released(msgs[m], RetiredState(m)) ELSE msgs[m]]
        /\ UNCHANGED <<nextSeq, epoch>>
    BY DEF Retire
  <1>2. ASSUME NEW m \in Messages
        PROVE  /\ msgs'[m] \in Rows /\ msgs[m].attempts \in Nat
               /\ msgs'[m].seq = msgs[m].seq /\ msgs'[m].attempts = msgs[m].attempts
               /\ msgs'[m] = msgs[m] \/ (msgs'[m].state \in {"uncertain", "dead"} /\ Open(m))
    <2>1. msgs[m] \in Rows /\ msgs[m].attempts \in Nat
      BY DEF RowInv, Rows
    <2>2. CASE m \in retired
      <3>1. RetiredState(m) \in {"uncertain", "dead"}
        BY DEF RetiredState
      <3>2. RetiredState(m) \in {"absent"} \cup OpenStates \cup TerminalStates
        BY <3>1 DEF TerminalStates
      <3>3. msgs'[m] = Released(msgs[m], RetiredState(m)) /\ Open(m)
        BY <1>1, <2>2
      <3> QED BY <2>1, <3>1, <3>2, <3>3, ReleasedRow
    <2>3. CASE m \notin retired
      BY <1>1, <2>1, <2>3
    <2> QED BY <2>2, <2>3
  <1> HIDE DEF retired
  <1>3. msgs' \in [Messages -> Rows]
    BY <1>1, <1>2
  <1>4. ASSUME NEW m \in Messages
        PROVE  /\ RowFits(msgs[m], nextSeq)'
               /\ Open(m)' => Open(m)
               /\ msgs'[m].state # "absent" => msgs[m].state # "absent"
    BY <1>1, <1>2 DEF RowInv, RowFits, Open, OpenStates, LeaseStates, InDoubtStates
  <1>5. RowInv'
    BY <1>1, <1>2, <1>3, <1>4 DEF RowInv, Earlier
  <1>6. Grows
    BY <1>2 DEF Grows
  <1> QED BY <1>5, <1>6

\* What is selected is open, and when it is not in doubt the head of the mailbox.
LEMMA SelectedRows ==
  ASSUME RowInv, NEW m \in Messages, m \in Selected
  PROVE  /\ Open(m) /\ msgs[m].state # "absent"
         /\ ~InDoubt(m) => \A n \in Messages \ {m} : Open(n) => Before(m, n)
  BY DEF Selected, Recoverable, FirstOpen, FirstOf, InDoubt, Open, OpenStates, LeaseStates, InDoubtStates

LEMMA RowLeases ==
  ASSUME RowInv, NEW h \in Hosts, NEW m \in Messages, NEW i \in Instances,
         \/ LeaseRecovery(h, epoch, m)
         \/ LeaseExhausted(h, epoch, m, i)
         \/ LeaseFresh(h, epoch, m, i)
  PROVE  /\ RowInv' /\ Grows
         /\ LeaseFresh(h, epoch, m, i) => msgs'[m].attempts = msgs[m].attempts + 1
  <1>0. msgs[m] \in Rows /\ msgs[m].attempts \in Nat /\ epoch \in Nat /\ msgs[m].rev + 1 \in Nat
    BY DEF RowInv, Rows
  <1>1. CASE LeaseRecovery(h, epoch, m)
    <2> DEFINE n == msgs[m].rev + 1
               a == [msgs[m] EXCEPT !.holder = h, !.tenure = epoch]
    <2>1. PICK r : r = [a EXCEPT !.lapsed = FALSE, !.rev = n]
      OBVIOUS
    <2>2. /\ msgs' = [msgs EXCEPT ![m] = r] /\ UNCHANGED <<nextSeq, epoch>>
          /\ InDoubt(m) /\ m \in Selected
      BY <1>0, <1>1, <2>1 DEF LeaseRecovery, Rows, RowInv
    <2>3. n \in Nat
      BY <1>0
    <2> HIDE DEF n
    <2>4. /\ a \in Rows /\ a.state = msgs[m].state /\ a.seq = msgs[m].seq
          /\ a.attempts = msgs[m].attempts /\ a.inst = msgs[m].inst
      BY <1>0, Zenon DEF Rows
    <2> HIDE DEF a
    <2>5. /\ r \in Rows /\ r.state = a.state /\ r.seq = a.seq
          /\ r.attempts = a.attempts /\ r.inst = a.inst
      BY <2>1, <2>3, <2>4, Zenon DEF Rows
    <2>6. RowFits(r, nextSeq)
      BY <2>4, <2>5 DEF RowInv, RowFits
    <2>7. /\ r.attempts >= msgs[m].attempts /\ r.state # "absent" /\ msgs[m].state # "absent"
          /\ r.state \in OpenStates => Open(m)
      BY <1>0, <2>2, <2>4, <2>5, SelectedRows
    <2>8. RowInv'
      BY <2>2, <2>4, <2>5, <2>6, <2>7, RowMove, Zenon
    <2>9. Grows
      BY <2>2, <2>4, <2>5 DEF Grows, RowInv, Rows
    <2>10. ~LeaseFresh(h, epoch, m, i)
      BY <2>2 DEF LeaseFresh
    <2> QED BY <2>8, <2>9, <2>10
  <1>2. CASE LeaseExhausted(h, epoch, m, i)
    <2>1. /\ msgs' = [msgs EXCEPT ![m] = Released(msgs[m], "dead")]
          /\ UNCHANGED <<nextSeq, epoch>> /\ m \in Selected /\ "dead" \in TerminalStates
          /\ msgs[m].attempts >= MaxAttempts
      BY <1>2 DEF LeaseExhausted, TerminalStates
    <2>2. ~LeaseFresh(h, epoch, m, i)
      BY <1>0, <2>1, MailboxAssumption DEF LeaseFresh
    <2> QED BY <2>1, <2>2, SelectedRows, RowReleased, Zenon
  <1>3. CASE LeaseFresh(h, epoch, m, i)
    <2> DEFINE n == msgs[m].rev + 1
               t == msgs[m].attempts + 1
               a == [msgs[m] EXCEPT !.state = "leased", !.attempts = @ + 1, !.rev = @ + 1]
    <2>1. PICK r : r = [a EXCEPT !.holder = h, !.tenure = epoch, !.inst = i, !.lapsed = FALSE]
      OBVIOUS
    <2>2. /\ msgs' = [msgs EXCEPT ![m] = r] /\ UNCHANGED <<nextSeq, epoch>>
          /\ ~InDoubt(m) /\ m \in Selected /\ msgs[m].attempts < MaxAttempts
      BY <1>3, <2>1 DEF LeaseFresh
    <2>3. n \in Nat /\ t \in Nat /\ t > msgs[m].attempts /\ t > 0 /\ t <= MaxAttempts
      BY <1>0, <2>2, MailboxAssumption
    <2>a. a = [msgs[m] EXCEPT !.state = "leased", !.attempts = t, !.rev = n]
      BY <1>0 DEF Rows
    <2> HIDE DEF n, a
    <2>4. a \in Rows /\ a.state = "leased" /\ a.seq = msgs[m].seq /\ a.attempts = t
      <3> HIDE DEF t
      <3> QED BY <1>0, <2>a, <2>3, Zenon DEF Rows, OpenStates, LeaseStates
    <2>5. r \in Rows /\ r.state = a.state /\ r.seq = a.seq /\ r.attempts = a.attempts /\ r.inst = i
      BY <1>0, <2>1, <2>4, Zenon DEF Rows
    <2>6. Open(m) /\ msgs[m].state # "absent" /\ \A x \in Messages \ {m} : Open(x) => Before(m, x)
      BY <2>2, SelectedRows
    <2>7. RowFits(r, nextSeq)
      BY <2>3, <2>4, <2>5, <2>6 DEF RowInv, RowFits
    <2>8. r.attempts >= msgs[m].attempts /\ r.state # "absent"
      BY <1>0, <2>3, <2>4, <2>5
    <2>9. RowInv'
      BY <2>2, <2>4, <2>5, <2>6, <2>7, <2>8, RowMove, Zenon
    <2>10. msgs'[m] = r /\ \A x \in Messages \ {m} : msgs'[x] = msgs[x] /\ msgs[x].attempts \in Nat
      BY <2>2 DEF RowInv, Rows
    <2>11. Grows
      BY <2>4, <2>5, <2>8, <2>10 DEF Grows
    <2> QED BY <2>4, <2>5, <2>9, <2>10, <2>11
  <1> QED BY <1>1, <1>2, <1>3

\* transition_message_delivery changes no attempts, and accepts at most the row it
\* names, of the attempt it names.
LEMMA RowTransition ==
  ASSUME RowInv, NEW h, NEW e, NEW m \in Messages, NEW attempt, NEW rev,
         NEW new \in {"pending", "unknown", "retry"} \cup TerminalStates,
         Transition(h, e, m, attempt, rev, new)
  PROVE  /\ RowInv'
         /\ new # "accepted" => Grows
         /\ msgs[m].attempts = attempt
         /\ \A n \in Messages : msgs'[n].attempts = msgs[n].attempts
                                  /\ (n # m => msgs'[n] = msgs[n])
  <1>0. /\ msgs[m] \in Rows /\ msgs[m].attempts \in Nat /\ msgs[m].rev + 1 \in Nat
        /\ Open(m) /\ msgs[m].attempts = attempt /\ msgs[m].state \in LeaseStates
        /\ UNCHANGED <<nextSeq, epoch>>
    BY DEF RowInv, Rows, Transition, TransitionAllowed, HoldsLease, Leased, Open, OpenStates
  <1>1. CASE new \in LeaseStates
    <2> DEFINE n == msgs[m].rev + 1
    <2>1. PICK r : r = [msgs[m] EXCEPT !.state = new, !.rev = n, !.decodable = ~msgs[m].lapsed]
      OBVIOUS
    <2>2. msgs' = [msgs EXCEPT ![m] = r]
      BY <1>0, <1>1, <2>1 DEF Transition, Rows
    <2>3. n \in Nat /\ new \in OpenStates /\ (~msgs[m].lapsed) \in BOOLEAN
      BY <1>0, <1>1 DEF OpenStates
    <2> HIDE DEF n
    <2>4. /\ r \in Rows /\ r.state = new /\ r.seq = msgs[m].seq
          /\ r.attempts = msgs[m].attempts /\ r.inst = msgs[m].inst
      BY <1>0, <2>1, <2>3, Zenon DEF Rows
    <2>5. RowFits(r, nextSeq)
      BY <1>0, <1>1, <2>4 DEF RowInv, RowFits, LeaseStates, InDoubtStates
    <2>6. /\ r.attempts >= msgs[m].attempts /\ r.state # "absent" /\ msgs[m].state # "absent"
          /\ r.state # "accepted"
      BY <1>0, <1>1, <2>4 DEF LeaseStates, InDoubtStates
    <2>7. RowInv'
      BY <1>0, <2>2, <2>4, <2>5, <2>6, RowMove, Zenon
    <2>8. msgs'[m] = r /\ \A x \in Messages \ {m} : msgs'[x] = msgs[x] /\ msgs[x].attempts \in Nat
      BY <2>2 DEF RowInv, Rows
    <2>9. Grows
      BY <2>4, <2>6, <2>8 DEF Grows
    <2> QED BY <1>0, <2>4, <2>7, <2>8, <2>9
  <1>2. CASE new \notin LeaseStates
    <2>1. /\ msgs' = [msgs EXCEPT ![m] = Released(msgs[m], new)]
          /\ new \in TerminalStates \cup {"retry"}
      BY <1>2 DEF Transition, LeaseStates, InDoubtStates
    <2> QED BY <1>0, <2>1, RowReleased, Zenon
  <1> QED BY <1>1, <1>2

-----------------------------------------------------------------------------
(***************************************************************************)
(* Loops, drivers and their journals.                                      *)
(***************************************************************************)
Entries == [attempt : Nat, stage : {"none", "accepted", "uncertain"}]

\* A loop under way works on an attempt that was leased.
Loops ==
  [pc : {"leased", "send", "await", "doubt", "query", "accepted", "refused", "lost"},
   tenure : Nat, msg : Messages, rev : Nat, attempt : 1..MaxAttempts, inst : Instances,
   recon : BOOLEAN]

DriverInv ==
  /\ loops \in [Hosts -> {Idle} \cup Loops]
  /\ wire \subseteq Requests
  /\ cancelled \subseteq Requests
  /\ journal \in [Instances -> [Messages -> Entries]]
  /\ effects \in [Instances -> [Messages -> Nat]]
  /\ \A i \in Instances, m \in Messages :
       effects[i][m] = IF journal[i][m] = NoRecord THEN 0 ELSE 1
  /\ \A i \in Instances, m \in Messages : journal[i][m] # NoRecord => m \notin Cancels
  /\ \A h \in Hosts : loops[h].pc = "accepted" => Performed(RequestOf(loops[h]))

\* Whatever reached a loop, the wire or a driver is of a leased message.
LeasedInv ==
  /\ \A h \in Hosts : loops[h] # Idle => msgs[loops[h].msg].attempts > 0
  /\ \A r \in wire \cup cancelled : msgs[r.msg].attempts > 0
  /\ \A i \in Instances, m \in Messages : journal[i][m] # NoRecord => msgs[m].attempts > 0

DInv == RowInv /\ DriverInv /\ LeasedInv /\ AcceptedIsPerformed

\* What a driver has accepted it has accepted for ever.
JournalGrows ==
  /\ \A i \in Instances, m \in Messages : journal[i][m] # NoRecord => journal'[i][m] = journal[i][m]
  /\ cancelled \subseteq cancelled'

LEMMA PerformedStands ==
  ASSUME JournalGrows, NEW r, r.inst \in Instances, r.msg \in Messages, Performed(r)
  PROVE  Performed(r)'
  <1>2. CASE r.msg \in Cancels
    BY <1>2 DEF Performed, JournalGrows
  <1>3. CASE r.msg \notin Cancels
    <2>1. [attempt |-> r.attempt, stage |-> "accepted"] # NoRecord
      BY DEF NoRecord
    <2> QED BY <1>3, <2>1 DEF Performed, JournalGrows
  <1> QED BY <1>2, <1>3

LEMMA LoopRequest ==
  ASSUME NEW l \in Loops
  PROVE  RequestOf(l) \in Requests /\ l # Idle /\ l.msg \in Messages /\ l.inst \in Instances
  <1>1. RequestOf(l) \in Requests /\ l.msg \in Messages /\ l.inst \in Instances
    BY DEF RequestOf, Loops, Requests
  <1>2. l.pc # Idle.pc
    BY DEF Idle, Loops
  <1> QED BY <1>1, <1>2

\* The accepted messages stay performed.
LEMMA AcceptedKept ==
  ASSUME DInv, Grows, JournalGrows, RowInv'
  PROVE  AcceptedIsPerformed'
  <1> SUFFICES ASSUME NEW m \in Messages, msgs'[m].state = "accepted"
               PROVE  \E i \in Instances :
                        Performed([inst |-> i, msg |-> m, attempt |-> msgs[m].attempts])'
    BY DEF AcceptedIsPerformed
  <1>1. msgs[m].state = "accepted" /\ msgs'[m].attempts = msgs[m].attempts
    BY DEF Grows
  <1>2. PICK i \in Instances : Performed([inst |-> i, msg |-> m, attempt |-> msgs[m].attempts])
    BY <1>1 DEF DInv, AcceptedIsPerformed
  <1>3. PICK a : a = msgs[m].attempts
    OBVIOUS
  <1>4. Performed([inst |-> i, msg |-> m, attempt |-> a])
    BY <1>2, <1>3
  <1>5. Performed([inst |-> i, msg |-> m, attempt |-> a])'
    BY <1>4, PerformedStands
  <1> QED BY <1>1, <1>3, <1>5

Rises == \A m \in Messages : msgs'[m].attempts >= msgs[m].attempts

LEMMA StillLeased ==
  ASSUME RowInv, RowInv', Rises, NEW m \in Messages, msgs[m].attempts > 0
  PROVE  msgs'[m].attempts > 0
  <1>1. msgs[m].attempts \in Nat /\ msgs'[m].attempts \in Nat /\ msgs'[m].attempts >= msgs[m].attempts
    BY DEF RowInv, Rows, Rises
  <1> QED BY <1>1

\* Nobody's journal changes: a loop moves, and what is sent is of a leased message.
LEMMA LoopMoves ==
  ASSUME DInv, RowInv', Rises, UNCHANGED <<journal, effects, cancelled>>,
         \A r \in wire' : r \in wire \/ (r \in Requests /\ msgs[r.msg].attempts > 0),
         NEW h \in Hosts, NEW l \in {Idle} \cup Loops,
         loops' = [loops EXCEPT ![h] = l],
         l # Idle => msgs'[l.msg].attempts > 0,
         l.pc = "accepted" => Performed(RequestOf(l))
  PROVE  DriverInv' /\ LeasedInv'
  <1>1. JournalGrows
    BY DEF JournalGrows
  <1>2. /\ loops' \in [Hosts -> {Idle} \cup Loops] /\ loops'[h] = l
        /\ \A x \in Hosts \ {h} : loops'[x] = loops[x]
    BY DEF DInv, DriverInv
  <1>3. wire' \subseteq Requests /\ cancelled' \subseteq Requests
    BY DEF DInv, DriverInv
  <1>4. ASSUME NEW x \in Hosts, loops'[x].pc = "accepted" PROVE Performed(RequestOf(loops[x]))'
    <2>1. PICK y : y = loops'[x]
      OBVIOUS
    <2>2. Performed(RequestOf(y))
      BY <1>2, <1>4, <2>1 DEF DInv, DriverInv
    <2>3. Performed(RequestOf(y))'
      BY <2>2 DEF Performed
    <2> QED BY <2>1, <2>3
  <1>5. DriverInv'
    BY <1>2, <1>3, <1>4 DEF DInv, DriverInv
  <1>6. \A r \in Requests : r.msg \in Messages
    BY DEF Requests
  <1>7. \A r \in wire' \cup cancelled' : msgs'[r.msg].attempts > 0
    BY <1>3, <1>6, StillLeased DEF DInv, DriverInv, LeasedInv
  <1>8. \A i \in Instances, m \in Messages : journal'[i][m] # NoRecord => msgs'[m].attempts > 0
    BY StillLeased DEF DInv, LeasedInv
  <1>9. ASSUME NEW x \in Hosts, loops'[x] # Idle PROVE msgs'[loops'[x].msg].attempts > 0
    <2>1. CASE x = h
      BY <1>2, <1>9, <2>1
    <2>2. CASE x # h
      <3>1. loops[x] \in Loops /\ loops'[x] = loops[x] /\ msgs[loops[x].msg].attempts > 0
        BY <1>2, <1>9, <2>2 DEF DInv, DriverInv, LeasedInv
      <3>2. loops[x].msg \in Messages
        BY <3>1, LoopRequest
      <3> QED BY <3>1, <3>2, StillLeased DEF DInv
    <2> QED BY <2>1, <2>2
  <1> QED BY <1>5, <1>7, <1>8, <1>9 DEF LeasedInv

LEMMA LoopsRest ==
  ASSUME DInv, RowInv', Grows, UNCHANGED <<loops, journal, effects, cancelled>>, wire' \subseteq wire
  PROVE  DInv'
  <1>1. Rises /\ JournalGrows
    BY DEF Grows, Rises, JournalGrows
  <1>2. AcceptedIsPerformed'
    BY <1>1, AcceptedKept
  <1>3. DriverInv'
    BY DEF DInv, DriverInv, Performed, RequestOf
  <1>4. \A r \in Requests : r.msg \in Messages
    BY DEF Requests
  <1>5. \A r \in wire' \cup cancelled' : msgs'[r.msg].attempts > 0
    BY <1>1, <1>4, StillLeased DEF DInv, DriverInv, LeasedInv
  <1>6. \A i \in Instances, m \in Messages : journal'[i][m] # NoRecord => msgs'[m].attempts > 0
    BY <1>1, StillLeased DEF DInv, LeasedInv
  <1>7. ASSUME NEW x \in Hosts, loops'[x] # Idle PROVE msgs'[loops'[x].msg].attempts > 0
    <2>1. loops[x] \in Loops /\ loops'[x] = loops[x] /\ msgs[loops[x].msg].attempts > 0
      BY <1>7 DEF DInv, DriverInv, LeasedInv
    <2>2. loops[x].msg \in Messages
      BY <2>1, LoopRequest
    <2> QED BY <1>1, <2>1, <2>2, StillLeased DEF DInv
  <1> QED BY <1>2, <1>3, <1>5, <1>6, <1>7 DEF DInv, LeasedInv

\* A driver journals a message it has no record of, and acts on it.
LEMMA JournalStep ==
  ASSUME DInv, UNCHANGED <<msgs, nextSeq, epoch, loops, cancelled>>, wire' \subseteq wire,
         NEW r \in wire, r.msg \notin Cancels, journal[r.inst][r.msg] = NoRecord,
         NEW stage \in {"accepted", "uncertain"},
         journal' = [journal EXCEPT ![r.inst][r.msg] = [attempt |-> r.attempt, stage |-> stage]],
         effects' = [effects EXCEPT ![r.inst][r.msg] = @ + 1]
  PROVE  DInv'
  <1> DEFINE e == [attempt |-> r.attempt, stage |-> stage]
  <1>1. r.inst \in Instances /\ r.msg \in Messages /\ r.attempt \in Nat
    BY MailboxAssumption DEF DInv, DriverInv, Requests
  <1>2. e \in Entries /\ e # NoRecord
    BY <1>1 DEF Entries, NoRecord
  <1> HIDE DEF e
  <1>3. journal' = [journal EXCEPT ![r.inst][r.msg] = e]
    BY DEF e
  <1>4. /\ journal' \in [Instances -> [Messages -> Entries]]
        /\ journal'[r.inst][r.msg] = e
        /\ \A i \in Instances, m \in Messages : i # r.inst \/ m # r.msg => journal'[i][m] = journal[i][m]
    BY <1>1, <1>2, <1>3 DEF DInv, DriverInv
  <1>5. effects[r.inst][r.msg] = 0
    BY <1>1 DEF DInv, DriverInv
  <1>6. /\ effects' \in [Instances -> [Messages -> Nat]]
        /\ effects'[r.inst][r.msg] = 1
        /\ \A i \in Instances, m \in Messages : i # r.inst \/ m # r.msg => effects'[i][m] = effects[i][m]
    BY <1>1, <1>5 DEF DInv, DriverInv
  <1>7. JournalGrows
    BY <1>4 DEF JournalGrows
  <1>8. RowInv' /\ Grows
    BY RowUntouched DEF DInv, RowInv
  <1>9. AcceptedIsPerformed'
    BY <1>7, <1>8, AcceptedKept
  <1>10. ASSUME NEW x \in Hosts, loops'[x].pc = "accepted" PROVE Performed(RequestOf(loops[x]))'
    <2>1. PICK y : y = loops[x]
      OBVIOUS
    <2>2. Performed(RequestOf(y)) /\ y \in Loops
      BY <1>10, <2>1 DEF DInv, DriverInv, Idle
    <2>3. RequestOf(y).inst \in Instances /\ RequestOf(y).msg \in Messages
      BY <2>2, LoopRequest DEF RequestOf
    <2>4. Performed(RequestOf(y))'
      BY <1>7, <2>2, <2>3, PerformedStands
    <2> QED BY <2>1, <2>4
  <1>11. \A i \in Instances, m \in Messages :
            effects'[i][m] = IF journal'[i][m] = NoRecord THEN 0 ELSE 1
    BY <1>2, <1>4, <1>6 DEF DInv, DriverInv
  <1>12. \A i \in Instances, m \in Messages : journal'[i][m] # NoRecord => m \notin Cancels
    BY <1>4 DEF DInv, DriverInv
  <1>13. DriverInv'
    BY <1>4, <1>6, <1>10, <1>11, <1>12 DEF DInv, DriverInv
  <1>14. LeasedInv'
    BY <1>4 DEF DInv, LeasedInv
  <1> QED BY <1>8, <1>9, <1>13, <1>14 DEF DInv

-----------------------------------------------------------------------------
Places == {"leased", "send", "await", "doubt", "query", "accepted", "refused", "lost"}

LEMMA BusyLoop ==
  ASSUME DInv, NEW h \in Hosts, loops[h].pc \in Places
  PROVE  /\ loops[h] \in Loops /\ loops[h] # Idle
         /\ loops[h].msg \in Messages /\ loops[h].inst \in Instances
         /\ RequestOf(loops[h]) \in Requests
         /\ msgs[loops[h].msg].attempts > 0
  <1>1. loops[h] # Idle
    BY DEF Idle, Places
  <1>2. loops[h] \in Loops
    BY <1>1 DEF DInv, DriverInv
  <1> QED BY <1>1, <1>2, LoopRequest DEF DInv, LeasedInv

LEMMA MovedLoop ==
  ASSUME NEW l \in Loops, NEW pc \in Places, NEW rev \in Nat
  PROVE  /\ [l EXCEPT !.pc = pc] \in Loops
         /\ [l EXCEPT !.pc = pc].pc = pc
         /\ [l EXCEPT !.pc = pc].msg = l.msg
         /\ RequestOf([l EXCEPT !.pc = pc]) = RequestOf(l)
         /\ [l EXCEPT !.pc = pc, !.rev = rev] \in Loops
         /\ [l EXCEPT !.pc = pc, !.rev = rev].pc = pc
         /\ [l EXCEPT !.pc = pc, !.rev = rev].msg = l.msg
  BY Zenon DEF Loops, Places, RequestOf

\* A loop moves on without the store.
LEMMA GotoStep ==
  ASSUME DInv, NEW h \in Hosts, loops[h].pc \in Places, NEW pc \in Places, Goto(h, pc),
         UNCHANGED <<msgs, nextSeq, epoch, journal, effects, cancelled>>,
         \A r \in wire' : r \in wire \/ r = RequestOf(loops[h]),
         pc = "accepted" => Performed(RequestOf(loops[h]))
  PROVE  DInv'
  <1>1. PICK l : l = [loops[h] EXCEPT !.pc = pc]
    BY Zenon
  <1>2. loops[h] \in Loops /\ RequestOf(loops[h]) \in Requests /\ msgs[loops[h].msg].attempts > 0
    BY BusyLoop
  <1>3. l \in Loops /\ l.pc = pc /\ RequestOf(l) = RequestOf(loops[h]) /\ l.msg = loops[h].msg
    BY <1>1, <1>2, MovedLoop, Zenon
  <1>4. loops' = [loops EXCEPT ![h] = l]
    BY <1>1 DEF Goto
  <1>5. RowInv' /\ Grows /\ Rises /\ JournalGrows
    BY RowUntouched, Zenon DEF DInv, RowInv, Grows, Rises, JournalGrows
  <1>6. RequestOf(loops[h]).msg = loops[h].msg
    BY DEF RequestOf
  <1>7. DriverInv' /\ LeasedInv'
    BY <1>2, <1>3, <1>4, <1>5, <1>6, LoopMoves, Zenon
  <1> QED BY <1>5, <1>7, AcceptedKept DEF DInv

\* A loop moves on with a transition of its row.
LEMMA CommitStep ==
  ASSUME DInv, NEW h \in Hosts, loops[h].pc \in Places, NEW l \in {Idle} \cup Loops,
         NEW new \in {"pending", "unknown", "retry"} \cup TerminalStates, Commit(h, new),
         new = "accepted" => Performed(RequestOf(loops[h])),
         loops' = [loops EXCEPT ![h] = l],
         l # Idle => l.msg = loops[h].msg, l.pc # "accepted",
         UNCHANGED <<wire, journal, effects, cancelled>>
  PROVE  DInv'
  <1>1. PICK m \in Messages : m = loops[h].msg
    BY BusyLoop
  <1>2. PICK a : a = loops[h].attempt
    OBVIOUS
  <1>3. Transition(h, loops[h].tenure, m, a, loops[h].rev, new)
    BY <1>1, <1>2 DEF Commit
  <1>4. /\ RowInv'
        /\ new # "accepted" => Grows
        /\ msgs[m].attempts = a
        /\ \A n \in Messages : msgs'[n].attempts = msgs[n].attempts /\ (n # m => msgs'[n] = msgs[n])
    BY <1>3, RowTransition, Zenon DEF DInv
  <1>5. Rises
    BY <1>4 DEF Rises, DInv, RowInv, Rows
  <1>6. msgs'[m].attempts > 0
    BY <1>1, <1>4, BusyLoop, Zenon
  <1>7. DriverInv' /\ LeasedInv'
    BY <1>1, <1>4, <1>5, <1>6, LoopMoves, Zenon
  <1>8. JournalGrows
    BY DEF JournalGrows
  <1>9. AcceptedIsPerformed'
    <2>1. CASE new # "accepted"
      BY <1>4, <1>8, <2>1, AcceptedKept
    <2>2. CASE new = "accepted"
      <3> SUFFICES ASSUME NEW n \in Messages, msgs'[n].state = "accepted"
                   PROVE  \E i \in Instances :
                            Performed([inst |-> i, msg |-> n, attempt |-> msgs[n].attempts])'
        BY DEF AcceptedIsPerformed
      <3>1. CASE n = m
        <4>1. PICK i \in Instances : i = loops[h].inst
          BY BusyLoop
        <4>2. Performed([inst |-> i, msg |-> n, attempt |-> a])
          BY <1>1, <1>2, <2>2, <3>1, <4>1 DEF RequestOf
        <4>3. Performed([inst |-> i, msg |-> n, attempt |-> a])'
          BY <4>2 DEF Performed
        <4> QED BY <1>4, <3>1, <4>3
      <3>2. CASE n # m
        <4>1. msgs'[n] = msgs[n] /\ msgs[n].state = "accepted"
          BY <1>4, <3>2
        <4>2. PICK i \in Instances : Performed([inst |-> i, msg |-> n, attempt |-> msgs[n].attempts])
          BY <4>1 DEF DInv, AcceptedIsPerformed
        <4>3. Performed([inst |-> i, msg |-> n, attempt |-> msgs[n].attempts])'
          BY <4>1, <4>2, Zenon DEF Performed
        <4> QED BY <4>3, Zenon
      <3> QED BY <3>1, <3>2
    <2> QED BY <2>1, <2>2
  <1> QED BY <1>4, <1>7, <1>9 DEF DInv

\* An answered query says that the driver accepted only if it did.
LEMMA AnswerIsTrue ==
  ASSUME DInv, NEW l \in Loops, QueryAnswer(l.inst, l.msg, l.attempt) = "accepted"
  PROVE  Performed(RequestOf(l))
  <1>1. l.inst \in Instances /\ l.msg \in Messages
    BY LoopRequest
  <1>2. /\ journal[l.inst][l.msg] # NoRecord
        /\ journal[l.inst][l.msg] = [attempt |-> l.attempt, stage |-> "accepted"]
    <2> DEFINE j == journal[l.inst][l.msg]
               e == [attempt |-> l.attempt, stage |-> "accepted"]
    <2>1. e # NoRecord
      BY DEF NoRecord
    <2>2. QueryAnswer(l.inst, l.msg, l.attempt) =
            CASE j = NoRecord -> "refused" [] j = e -> "accepted" [] OTHER -> "unknown"
      BY DEF QueryAnswer
    <2> HIDE DEF j, e
    <2>3. j = e
      BY <2>1, <2>2
    <2> QED BY <2>1, <2>3 DEF j, e
  <1>3. l.msg \notin Cancels
    BY <1>1, <1>2 DEF DInv, DriverInv
  <1> QED BY <1>2, <1>3 DEF Performed, RequestOf

\* A loop ends.
LEMMA IdleStep ==
  ASSUME DInv, NEW h \in Hosts, Finish(h),
         UNCHANGED <<msgs, nextSeq, epoch, wire, journal, effects, cancelled>>
  PROVE  DInv'
  <1>1. loops' = [loops EXCEPT ![h] = Idle] /\ Idle \in {Idle} \cup Loops /\ Idle.pc # "accepted"
    BY DEF Finish, Idle
  <1>2. RowInv' /\ Grows /\ Rises /\ JournalGrows
    BY RowUntouched DEF DInv, RowInv, Grows, Rises, JournalGrows
  <1>3. DriverInv' /\ LeasedInv'
    BY <1>1, <1>2, LoopMoves, Zenon
  <1> QED BY <1>2, <1>3, AcceptedKept DEF DInv

LEMMA LoopStepKeeps ==
  ASSUME DInv, NEW h \in Hosts, LoopStep(h) \/ LoopAbort(h)
  PROVE  DInv'
  <1>0. /\ \A m \in Messages : msgs[m].rev \in Nat /\ msgs[m].attempts \in Nat
        /\ epoch \in Nat /\ MaxAttempts \in Nat
    BY MailboxAssumption DEF DInv, RowInv, Rows
  <1>1. ASSUME NEW m \in Messages, LoopRecover(h, m) PROVE DInv'
    <2>1. PICK l : l = [pc |-> "query", tenure |-> epoch, msg |-> m, rev |-> msgs[m].rev + 1,
                        attempt |-> msgs[m].attempts, inst |-> msgs[m].inst, recon |-> TRUE]
      BY Zenon
    <2>2. /\ loops' = [loops EXCEPT ![h] = l] /\ LeaseRecovery(h, epoch, m)
          /\ UNCHANGED <<wire, journal, effects, cancelled>>
      BY <1>1, <2>1 DEF LoopRecover
    <2>3. msgs[m].inst \in Instances /\ msgs[m].attempts > 0 /\ msgs[m].attempts <= MaxAttempts
      BY <2>2 DEF LeaseRecovery, InDoubt, LeaseStates, DInv, RowInv, RowFits
    <2>4. l \in Loops /\ l.msg = m /\ l.pc # "accepted"
      BY <1>0, <2>1, <2>3 DEF Loops
    <2>5. RowInv' /\ Grows
      BY <2>2, <2>3, RowLeases DEF DInv
    <2>6. Rises /\ JournalGrows
      BY <2>2, <2>5 DEF Grows, Rises, JournalGrows
    <2>7. msgs'[m].attempts > 0
      BY <2>3, <2>5, <2>6, StillLeased DEF DInv
    <2>8. DriverInv' /\ LeasedInv'
      BY <2>2, <2>4, <2>5, <2>6, <2>7, LoopMoves, Zenon
    <2> QED BY <2>5, <2>6, <2>8, AcceptedKept DEF DInv
  <1>2. ASSUME NEW m \in Messages, NEW i \in Instances, LoopExhausted(h, m, i) PROVE DInv'
    BY <1>2, RowLeases, LoopsRest DEF LoopExhausted, DInv
  <1>3. ASSUME NEW m \in Messages, NEW i \in Instances, LoopLease(h, m, i) PROVE DInv'
    <2>1. PICK l : l = [pc |-> "leased", tenure |-> epoch, msg |-> m, rev |-> msgs[m].rev + 1,
                        attempt |-> msgs[m].attempts + 1, inst |-> i, recon |-> FALSE]
      BY Zenon
    <2>2. /\ loops' = [loops EXCEPT ![h] = l] /\ LeaseFresh(h, epoch, m, i)
          /\ UNCHANGED <<wire, journal, effects, cancelled>>
      BY <1>3, <2>1 DEF LoopLease
    <2>3. msgs[m].attempts < MaxAttempts
      BY <2>2 DEF LeaseFresh
    <2>4. l \in Loops /\ l.msg = m /\ l.pc # "accepted"
      <3>1. epoch \in Nat /\ msgs[m].rev + 1 \in Nat /\ msgs[m].attempts + 1 \in 1..MaxAttempts
        BY <1>0, <2>3
      <3> QED BY <1>3, <2>1, <3>1, Zenon DEF Loops
    <2>5. RowInv' /\ Grows /\ msgs'[m].attempts = msgs[m].attempts + 1
      BY <2>2, RowLeases, Zenon DEF DInv
    <2>6. Rises /\ JournalGrows /\ msgs'[m].attempts > 0
      <3>1. Rises  BY <2>5, Zenon DEF Grows, Rises
      <3>2. JournalGrows  BY <2>2 DEF JournalGrows
      <3>3. msgs[m].attempts \in Nat  BY <1>0, <1>3
      <3> QED BY <2>5, <3>1, <3>2, <3>3
    <2>7. DriverInv' /\ LeasedInv'
      BY <2>2, <2>4, <2>5, <2>6, LoopMoves, Zenon
    <2> QED BY <2>5, <2>6, <2>7, AcceptedKept DEF DInv
  <1>4. ASSUME NEW pc \in Places, NEW at \in Places, NEW new \in {"pending", "unknown"},
               loops[h].pc = at, Commit(h, new), pc # "accepted",
               loops' = [loops EXCEPT ![h].pc = pc, ![h].rev = @ + 1],
               UNCHANGED <<wire, up, journal, effects, cancelled, faults>>
        PROVE  DInv'
    <2>1. loops[h] \in Loops /\ loops[h].rev + 1 \in Nat /\ loops \in [Hosts -> {Idle} \cup Loops]
      BY <1>4, BusyLoop DEF Loops, DInv, DriverInv
    <2>2. PICK n \in Nat : n = loops[h].rev + 1
      BY <2>1
    <2>3. PICK l : l = [loops[h] EXCEPT !.pc = pc, !.rev = n]
      OBVIOUS
    <2>4. loops' = [loops EXCEPT ![h] = l]
      BY <1>4, <2>1, <2>2, <2>3 DEF Loops
    <2>5. l \in Loops /\ l.pc = pc /\ l.msg = loops[h].msg
      <3>0. pc \in Places
        BY <1>4
      <3>1. PICK x \in Loops : x = loops[h]
        BY <2>1
      <3>2. l = [x EXCEPT !.pc = pc, !.rev = n]
        BY <2>3, <3>1
      <3>3. l \in Loops /\ l.pc = pc /\ l.msg = x.msg
        BY <2>2, <3>0, <3>1, <3>2, Zenon DEF Loops, Places
      <3> QED BY <3>1, <3>3
    <2> QED BY <1>4, <2>4, <2>5, CommitStep, Zenon
  <1>5. CASE CommitPending(h)
    BY <1>4, <1>5 DEF CommitPending, Places
  <1>6. CASE CommitUnknown(h)
    BY <1>4, <1>6 DEF CommitUnknown, Places
  <1>7. CASE Send(h)
    BY <1>7, GotoStep DEF Send, Places
  <1>8. CASE ObserveAccepted(h)
    BY <1>8, GotoStep DEF ObserveAccepted, Places
  <1>9. CASE ObserveDoubt(h)
    BY <1>9, GotoStep DEF ObserveDoubt, Places
  <1>10. CASE QueryAnswered(h)
    <2>1. PICK a : a = QueryAnswer(loops[h].inst, loops[h].msg, loops[h].attempt)
      OBVIOUS
    <2>2. a \in {"refused", "accepted"}
      BY <1>10, <2>1 DEF QueryAnswered, QueryAnswer
    <2>3. /\ loops[h].pc = "query" /\ Goto(h, a)
          /\ UNCHANGED <<msgs, nextSeq, epoch, wire, journal, effects, cancelled>>
      BY <1>10, <2>1 DEF QueryAnswered
    <2>4. loops[h].pc \in Places /\ a \in Places
      BY <2>2, <2>3 DEF Places
    <2>5. a = "accepted" => Performed(RequestOf(loops[h]))
      BY <2>1, <2>4, BusyLoop, AnswerIsTrue, Zenon
    <2> QED BY <2>3, <2>4, <2>5, GotoStep
  <1>11. CASE QueryInconclusive(h)
    <2>1. CASE Goto(h, "lost")
      BY <1>11, <2>1, GotoStep DEF QueryInconclusive, Places
    <2>2. CASE Finish(h)
      BY <1>11, <2>2, IdleStep DEF QueryInconclusive
    <2> QED BY <1>11, <2>1, <2>2, Zenon DEF QueryInconclusive
  <1>12. CASE CommitOutcome(h)
    <2>1. /\ loops' = [loops EXCEPT ![h] = Idle] /\ UNCHANGED <<wire, journal, effects, cancelled>>
          /\ Idle \in {Idle} \cup Loops /\ Idle.pc # "accepted"
      BY <1>12 DEF CommitOutcome, Finish, Idle
    <2>2. CASE loops[h].pc = "accepted" /\ Commit(h, "accepted")
      <3>1. loops[h].pc \in Places /\ "accepted" \in TerminalStates
        BY <2>2 DEF Places, TerminalStates
      <3>2. Performed(RequestOf(loops[h]))
        BY <2>2 DEF DInv, DriverInv
      <3> QED BY <2>1, <2>2, <3>1, <3>2, CommitStep, Zenon
    <2>3. ASSUME NEW new \in {"retry", "dead", "uncertain"}, Commit(h, new),
                 loops[h].pc \in {"refused", "lost"}
          PROVE  DInv'
      <3>1. loops[h].pc \in Places /\ new \in {"retry"} \cup TerminalStates /\ new # "accepted"
        BY <2>3 DEF Places, TerminalStates
      <3> QED BY <2>1, <2>3, <3>1, CommitStep, Zenon
    <2> QED BY <1>12, <2>2, <2>3 DEF CommitOutcome, RefusedState
  <1>13. CASE CommitRefused(h) \/ LoopAbort(h)
    BY <1>13, IdleStep DEF CommitRefused, LoopAbort
  <1> QED BY <1>1, <1>2, <1>3, <1>5, <1>6, <1>7, <1>8, <1>9, <1>10, <1>11, <1>12, <1>13
          DEF LoopStep

LEMMA DriverStepKeeps ==
  ASSUME DInv, DriverStep
  PROVE  DInv'
  <1>0. ASSUME UNCHANGED <<msgs, nextSeq, epoch, loops, journal, effects, cancelled>>,
               wire' \subseteq wire
        PROVE  DInv'
    BY <1>0, RowUntouched, LoopsRest DEF DInv, RowInv
  <1>1. ASSUME NEW r \in wire, DriverDeliver(r) PROVE DInv'
    <2>1. CASE journal[r.inst][r.msg] = NoRecord
      BY <1>1, <2>1, JournalStep, Zenon DEF DriverDeliver
    <2>2. CASE journal[r.inst][r.msg] # NoRecord
      BY <1>0, <1>1, <2>2 DEF DriverDeliver
    <2> QED BY <2>1, <2>2
  <1>2. ASSUME NEW r \in wire, DriverCrashInDelivery(r) PROVE DInv'
    BY <1>2, JournalStep, Zenon DEF DriverCrashInDelivery
  <1>3. ASSUME NEW r \in wire, DriverCancel(r) PROVE DInv'
    <2>1. /\ UNCHANGED <<msgs, nextSeq, epoch, loops, journal, effects>>
          /\ wire' \subseteq wire /\ cancelled' = cancelled \cup {r}
      BY <1>3 DEF DriverCancel
    <2>2. RowInv' /\ Grows /\ JournalGrows
      BY <2>1, RowUntouched DEF DInv, RowInv, JournalGrows
    <2>3. AcceptedIsPerformed'
      BY <2>2, AcceptedKept
    <2>4. ASSUME NEW x \in Hosts, loops'[x].pc = "accepted" PROVE Performed(RequestOf(loops[x]))'
      <3>1. PICK y : y = loops[x]
        OBVIOUS
      <3>2. Performed(RequestOf(y)) /\ y \in Loops
        BY <2>1, <2>4, <3>1 DEF DInv, DriverInv, Idle
      <3>3. RequestOf(y).inst \in Instances /\ RequestOf(y).msg \in Messages
        BY <3>2, LoopRequest DEF RequestOf
      <3>4. Performed(RequestOf(y))'
        BY <2>2, <3>2, <3>3, PerformedStands
      <3> QED BY <2>1, <3>1, <3>4
    <2>5. DriverInv'
      BY <2>1, <2>4 DEF DInv, DriverInv
    <2>6. LeasedInv'
      BY <2>1, Zenon DEF DInv, LeasedInv
    <2> QED BY <2>2, <2>3, <2>5, <2>6 DEF DInv
  <1>4. ASSUME NEW i \in Instances, InstanceCrash(i) \/ InstanceRestart(i) PROVE DInv'
    BY <1>0, <1>4 DEF InstanceCrash, InstanceRestart
  <1> QED BY <1>1, <1>2, <1>3, <1>4 DEF DriverStep

LEMMA DStep ==
  ASSUME DInv, [Next]_vars, scenario \in Scenarios
  PROVE  DInv'
  <1>1. CASE UNCHANGED vars
    BY <1>1, RowUntouched, LoopsRest DEF vars, system, DInv, RowInv
  <1>2. CASE DriverStep
    BY <1>2, DriverStepKeeps
  <1>3. CASE \E h \in Hosts : LoopStep(h) \/ LoopAbort(h)
    BY <1>3, LoopStepKeeps
  <1>4. ASSUME NEW m \in Messages, LeaseLapse(m) PROVE DInv'
    BY <1>4, RowLapse, LoopsRest, Zenon DEF LeaseLapse, DInv
  <1>5. CASE \E h \in Hosts, i \in scenario.instances : Launch(h, i) \/ InstanceStopped(h, i)
    <2>1. UNCHANGED <<msgs, nextSeq, epoch, loops, journal, effects, cancelled, wire>>
      BY <1>5 DEF Launch, InstanceStopped, LaunchReady, LaunchStopped
    <2> QED BY <2>1, RowUntouched, LoopsRest DEF DInv, RowInv
  <1>6. CASE StoreStep
    <2>1. UNCHANGED <<loops, wire, journal, effects, cancelled>>
      BY <1>6 DEF StoreStep
    <2>2. RowInv' /\ Grows
      <3>1. CASE Expire
        BY <3>1, RowUntouched DEF Expire, DInv, RowInv
      <3>2. ASSUME NEW h, AcquireOwnership(h) PROVE RowInv' /\ Grows
        <4>1. epoch' \in Nat /\ UNCHANGED <<msgs, nextSeq>>
          BY <3>2 DEF AcquireOwnership, DInv, RowInv
        <4> QED BY <4>1, RowUntouched DEF DInv
      <3>3. ASSUME NEW h, Retire(h) PROVE RowInv' /\ Grows
        BY <3>3, RowRetire DEF DInv
      <3>4. ASSUME NEW h, NEW m \in scenario.messages, Enqueue(h, m) PROVE RowInv' /\ Grows
        <4>1. m \in Messages
          BY MailboxAssumption
        <4> QED BY <3>4, <4>1, RowEnqueue DEF DInv
      <3> QED BY <1>6, <3>1, <3>2, <3>3, <3>4, Zenon DEF StoreStep
    <2> QED BY <2>1, <2>2, LoopsRest
  <1> QED BY <1>1, <1>2, <1>3, <1>4, <1>5, <1>6 DEF Next

LEMMA DInit ==
  ASSUME Init
  PROVE  DInv
  <1>0. MaxAttempts \in Nat /\ MaxAttempts >= 0
    BY MailboxAssumption
  <1>1. AbsentMessage \in Rows
    BY DEF AbsentMessage, Rows
  <1>2. AbsentMessage.state = "absent" /\ AbsentMessage.attempts = 0
    BY DEF AbsentMessage
  <1>3. /\ msgs = [m \in Messages |-> AbsentMessage] /\ nextSeq = 1 /\ epoch = 0
        /\ loops = [h \in Hosts |-> Idle] /\ wire = {} /\ cancelled = {}
        /\ journal = [i \in Instances |-> [m \in Messages |-> NoRecord]]
        /\ effects = [i \in Instances |-> [m \in Messages |-> 0]]
    BY DEF Init, MailboxInit
  <1>4. RowInv
    BY <1>0, <1>1, <1>2, <1>3 DEF RowInv, RowFits, Open, OpenStates, LeaseStates, InDoubtStates
  <1>5. NoRecord \in Entries
    BY DEF NoRecord, Entries
  <1>6. DriverInv
    BY <1>3, <1>5 DEF DriverInv, Idle
  <1>7. LeasedInv
    BY <1>3 DEF LeasedInv
  <1>8. AcceptedIsPerformed
    BY <1>2, <1>3 DEF AcceptedIsPerformed
  <1> QED BY <1>4, <1>6, <1>7, <1>8 DEF DInv

LEMMA Invariance == Spec => [](DInv /\ scenario \in Scenarios)
  <1>1. Init => DInv /\ scenario \in Scenarios
    BY DInit, Zenon DEF Init, MailboxInit
  <1>2. DInv /\ scenario \in Scenarios /\ [Next]_vars => (DInv /\ scenario \in Scenarios)'
    BY DStep, Zenon DEF Next, vars
  <1> QED BY <1>1, <1>2, PTL DEF Spec

-----------------------------------------------------------------------------
(***************************************************************************)
(* A message is Accepted only on the proof of the very attempt its row     *)
(* names (transition_message_delivery, DeliveryLoop::drive_once and        *)
(* reconcile, the drivers' acceptance journals), for any number of hosts,  *)
(* instances and messages and whatever is lost, repeated or answered late. *)
(***************************************************************************)
THEOREM AcceptanceIsProved == Spec => []AcceptedIsPerformed
  <1>1. DInv => AcceptedIsPerformed
    BY DEF DInv
  <1> QED BY <1>1, Invariance, PTL

(***************************************************************************)
(* No instance acts twice on a message, and nobody acts on a message while *)
(* an earlier one of its priority is open (lease_next_message, the         *)
(* drivers' journals), for any number of hosts, instances and messages,    *)
(* any budget of attempts, and any crashes and takeovers.                  *)
(***************************************************************************)
THEOREM DeliveredInOrder == Spec => []ActedOnceInOrder
  <1>1. DInv => ActedOnceInOrder
    <2> SUFFICES ASSUME DInv PROVE ActedOnceInOrder
      OBVIOUS
    <2>1. \A i \in Instances, m \in Messages : effects[i][m] <= 1
      BY DEF DInv, DriverInv
    <2>2. ASSUME NEW n \in Messages, Acted(n) PROVE msgs[n].attempts > 0
      <3>1. CASE \E i \in Instances : effects[i][n] > 0
        BY <3>1 DEF DInv, DriverInv, LeasedInv
      <3>2. CASE \E r \in cancelled : r.msg = n
        BY <3>2 DEF DInv, LeasedInv
      <3> QED BY <2>2, <3>1, <3>2 DEF Acted
    <2>3. ASSUME NEW m \in Messages, NEW n \in Messages,
                 Open(m), msgs[n].state # "absent", Earlier(m, n)
          PROVE  ~Acted(n)
      <3>1. msgs[n].attempts = 0
        BY <2>3 DEF DInv, RowInv
      <3> QED BY <2>2, <3>1
    <2> QED BY <2>1, <2>3 DEF ActedOnceInOrder, Earlier
  <1> QED BY <1>1, Invariance, PTL

-----------------------------------------------------------------------------
(* The permits of FairCapacity.                                            *)

\* The permits, the queues and the turn agree.
PermitInv ==
  /\ TypeOK
  /\ active <= Capacity
  /\ PermitsAccounted
  /\ NoIdlePermit
  /\ QueuesExact
  /\ WaitersQueued
  /\ RoundNotComplete

(* The set of owners is finite, being made of tasks.                        *)
LEMMA OwnersFinite == IsFiniteSet(Owners)
  BY CapacityAssumption, FS_Subset DEF Owners

(* A worker that becomes an owner (acquire, or a sender served by release)  *)
(* adds one to the owners.                                                  *)
LEMMA OwnerAdded ==
  ASSUME NEW t \in Tasks, NEW s \in {"granted", "held"},
         task[t] \notin {"granted", "held"},
         task \in [Tasks -> {"idle", "waiting", "granted", "held"}],
         task' = [task EXCEPT ![t] = s]
  PROVE  Cardinality(Owners') = Cardinality(Owners) + 1
  <1>1. Owners' = Owners \cup {t} /\ t \notin Owners
    BY DEF Owners
  <1> QED BY <1>1, OwnersFinite, FS_AddElement

(* A worker that stops being an owner takes one from them.                  *)
LEMMA OwnerRemoved ==
  ASSUME NEW t \in Tasks, task[t] \in {"granted", "held"},
         task \in [Tasks -> {"idle", "waiting", "granted", "held"}],
         task' = [task EXCEPT ![t] = "idle"]
  PROVE  /\ Cardinality(Owners') = Cardinality(Owners) - 1
         /\ Cardinality(Owners) \in Nat \ {0}
  <1>1. Owners' = Owners \ {t} /\ t \in Owners
    BY DEF Owners
  <1>2. Cardinality(Owners) \in Nat
    BY OwnersFinite, FS_CardinalityType
  <1>3. Cardinality(Owners) # 0
    BY <1>1, OwnersFinite, FS_EmptySet
  <1> QED BY <1>1, <1>2, <1>3, OwnersFinite, FS_RemoveElement

(* A change of a task that is an owner neither before nor after leaves the  *)
(* owners as they are.                                                      *)
LEMMA OwnersSame ==
  ASSUME NEW t \in Tasks, NEW s,
         task \in [Tasks -> {"idle", "waiting", "granted", "held"}],
         task' = [task EXCEPT ![t] = s],
         (task[t] \in {"granted", "held"}) <=> (s \in {"granted", "held"})
  PROVE  Cardinality(Owners') = Cardinality(Owners)
  <1>1. Owners' = Owners
    BY DEF Owners
  <1> QED BY <1>1

(* FairCapacity::new establishes the invariant.                             *)
LEMMA InitPermits == PermitsInit => PermitInv
  <1> SUFFICES ASSUME PermitsInit PROVE PermitInv
    OBVIOUS
  <1> USE DEF PermitsInit
  <1>1. TypeOK
    <2>1. << >> \in Seq(Tasks \cup {Closed})
      OBVIOUS
    <2> QED BY <2>1, CapacityAssumption, Zenon DEF TypeOK
  <1>2. Owners = {}
    BY DEF Owners
  <1>3. PermitsAccounted
    BY <1>2, FS_EmptySet DEF PermitsAccounted
  <1>4. QueuesExact /\ NoIdlePermit
    BY DEF QueuesExact, NoIdlePermit, Keys
  <1>5. WaitersQueued /\ RoundNotComplete
    BY DEF WaitersQueued, RoundNotComplete
  <1> QED BY <1>1, <1>3, <1>4, <1>5, CapacityAssumption DEF PermitInv

(* A queue holds senders of tasks and closed senders.                       *)
LEMMA SenderType ==
  ASSUME TypeOK, NEW c \in Campaigns, NEW i \in 1 .. Len(waiting[c])
  PROVE  waiting[c][i] \in Tasks \cup {Closed}
  <1>1. waiting[c] \in Seq(Tasks \cup {Closed})
    BY DEF TypeOK
  <1> QED BY <1>1

(* A live sender in a queue belongs to one waiting task of the campaign.    *)
LEMMA LiveSender ==
  ASSUME PermitInv, NEW c \in Campaigns, NEW i \in 1 .. Len(waiting[c]), waiting[c][i] # Closed
  PROVE  /\ waiting[c][i] \in Tasks
         /\ task[waiting[c][i]] = "waiting"
         /\ CampaignOf[waiting[c][i]] = c
         /\ \A j \in 1 .. Len(waiting[c]) : j # i => waiting[c][j] # waiting[c][i]
  <1>1. waiting[c][i] \in Tasks
    BY SenderType DEF PermitInv
  <1>2. QueuesExact
    BY DEF PermitInv
  <1> QED BY <1>1, <1>2 DEF QueuesExact

(* A set of campaign ids has a least element.                               *)
LEMMA LeastIsLeast ==
  ASSUME NEW S, S \subseteq Nat, S # {}
  PROVE  Least(S) \in S /\ \A d \in S : Least(S) <= d
  <1>1. \E c \in S : \A d \in S : ~(<<d, c>> \in OpToRel(<, Nat))
    BY NatLessThanWellFounded, WFMin, Zenon
  <1>2. PICK c \in S : \A d \in S : ~(<<d, c>> \in OpToRel(<, Nat))
    BY <1>1, Zenon
  <1>3. \A d \in S : c <= d
    <2> SUFFICES ASSUME NEW d \in S, d < c PROVE FALSE
      OBVIOUS
    <2>1. <<d, c>> \in OpToRel(<, Nat)
      BY DEF OpToRel
    <2> QED BY <2>1, <1>2, Zenon
  <1> QED BY <1>3, Zenon DEF Least

(* The campaign release serves next: the least one above the last one       *)
(* served, or the least of all when there is none above it.                 *)
LEMMA NextKeyInOrder ==
  ASSUME TypeOK, Keys # {}
  PROVE  /\ NextKey \in Keys
         /\ \A k \in Keys : k > lastServed => NextKey > lastServed /\ NextKey <= k
         /\ NextKey <= lastServed => \A k \in Keys : NextKey <= k
  <1> DEFINE later == {c \in Keys : c > lastServed}
  <1>0. Campaigns \subseteq Nat
    BY CapacityAssumption
  <1>1. Keys \subseteq Nat /\ lastServed \in Nat
    <2>1. Keys \subseteq Campaigns
      BY DEF Keys
    <2>2. lastServed \in Campaigns \cup {0}
      BY DEF TypeOK
    <2> QED BY ONLY <1>0, <2>1, <2>2
  <1>2. CASE later # {}
    <2>1. NextKey = Least(later)
      BY <1>2 DEF NextKey
    <2>2. Least(later) \in later /\ \A d \in later : Least(later) <= d
      BY <1>1, <1>2, LeastIsLeast, Zenon
    <2> HIDE DEF later
    <2>3. /\ NextKey \in Keys /\ NextKey > lastServed
          /\ \A k \in Keys : k > lastServed => NextKey <= k
      BY <2>1, <2>2, <1>1 DEF later
    <2> QED BY <2>3, <1>1
  <1>3. CASE later = {}
    <2>1. NextKey = Least(Keys)
      BY <1>3 DEF NextKey
    <2>2. Least(Keys) \in Keys /\ \A d \in Keys : Least(Keys) <= d
      BY <1>1, LeastIsLeast, Zenon
    <2> QED BY <2>1, <2>2, <1>1, <1>3
  <1> QED BY <1>2, <1>3

(***************************************************************************)
(* The inductive step, one lemma per action that changes much.             *)
(***************************************************************************)

(* acquire: a free permit with nobody queued, or one more sender at the end *)
(* of the campaign's queue.                                                 *)
LEMMA AcquireIInv ==
  ASSUME PermitInv, NEW t \in Tasks, Acquire(t)
  PROVE  PermitInv'
  <1> USE CapacityAssumption
  <1> DEFINE c == CampaignOf[t]
  <1>0. c \in Campaigns
    OBVIOUS
  <1>1. CASE active < Capacity /\ Keys = {}
    <2>1. /\ task' = [task EXCEPT ![t] = "held"]
          /\ active' = active + 1
          /\ UNCHANGED <<waiting, lastServed, serving, leaked, passes>>
          /\ task[t] = "idle"
      BY <1>1 DEF Acquire
    <2>2. TypeOK'
      BY <2>1 DEF PermitInv, TypeOK
    <2>3. active' <= Capacity
      BY <2>1, <1>1 DEF PermitInv, TypeOK
    <2>4. PermitsAccounted'
      <3>1. Cardinality(Owners') = Cardinality(Owners) + 1
        BY <2>1, OwnerAdded, Zenon DEF PermitInv, TypeOK
      <3>2. Cardinality(Owners) \in Nat
        BY OwnersFinite, FS_CardinalityType
      <3> QED BY <3>1, <3>2, <2>1 DEF PermitInv, TypeOK, PermitsAccounted
    <2>5. NoIdlePermit'
      BY <1>1, <2>1 DEF NoIdlePermit, Keys
    <2>6. \A u \in Tasks : task[u] = "waiting" <=> task'[u] = "waiting"
      BY <2>1 DEF PermitInv, TypeOK
    <2>7. QueuesExact'
      BY <2>1, <2>6 DEF PermitInv, TypeOK, QueuesExact
    <2>8. WaitersQueued'
      BY <2>1, <2>6 DEF PermitInv, WaitersQueued
    <2>9. RoundNotComplete'
      BY <2>1, <2>6 DEF PermitInv, RoundNotComplete, LiveWaiter
    <2> QED BY <2>2, <2>3, <2>4, <2>5, <2>7, <2>8, <2>9 DEF PermitInv
  <1>2. CASE ~(active < Capacity /\ Keys = {})
    <2>1. /\ task' = [task EXCEPT ![t] = "waiting"]
          /\ waiting' = [waiting EXCEPT ![c] = Append(waiting[c], t)]
          /\ UNCHANGED <<active, lastServed, serving, leaked, passes>>
          /\ task[t] = "idle" /\ ~serving
      BY <1>2 DEF Acquire
    <2> HIDE DEF c
    <2>a. waiting[c] \in Seq(Tasks \cup {Closed}) /\ t \in Tasks \cup {Closed}
      BY <1>0 DEF PermitInv, TypeOK
    <2>b. /\ Append(waiting[c], t) \in Seq(Tasks \cup {Closed})
          /\ Len(Append(waiting[c], t)) = Len(waiting[c]) + 1
          /\ \A i \in 1 .. Len(waiting[c]) : Append(waiting[c], t)[i] = waiting[c][i]
          /\ Append(waiting[c], t)[Len(waiting[c]) + 1] = t
          /\ Len(waiting[c]) \in Nat
      BY <2>a
    <2>2. TypeOK'
      BY <2>1, <2>b, Zenon DEF PermitInv, TypeOK
    <2>3. active' <= Capacity
      BY <2>1 DEF PermitInv
    <2>4. PermitsAccounted'
      BY <2>1, OwnersSame, Zenon DEF PermitInv, TypeOK, PermitsAccounted
    <2>5. NoIdlePermit'
      BY <1>2, <2>1 DEF PermitInv, NoIdlePermit
    <2>6. \A u \in Tasks : u # t => task'[u] = task[u]
      BY <2>1 DEF PermitInv, TypeOK
    <2>7. task'[t] = "waiting"
      BY <2>1 DEF PermitInv, TypeOK
    <2>c. \A d \in Campaigns : d # c => waiting'[d] = waiting[d]
      BY <2>1 DEF PermitInv, TypeOK
    <2>d. waiting'[c] = Append(waiting[c], t)
      BY <2>1, <1>0 DEF PermitInv, TypeOK
    <2>e. \A d \in Campaigns : \A i \in 1 .. Len(waiting[d]) : waiting[d][i] # t
      BY <2>1, CapacityAssumption, LiveSender
    <2>8. QueuesExact'
      <3> SUFFICES ASSUME NEW d \in Campaigns, NEW i \in 1 .. Len(waiting'[d]),
                          waiting'[d][i] # Closed
                   PROVE  /\ task'[waiting'[d][i]] = "waiting"
                          /\ CampaignOf[waiting'[d][i]] = d
                          /\ \A j \in 1 .. Len(waiting'[d]) :
                               j # i => waiting'[d][j] # waiting'[d][i]
        BY Zenon DEF QueuesExact
      <3>1. CASE d # c
        <4>1. waiting'[d] = waiting[d]
          BY <3>1, <2>c, Zenon
        <4>2. waiting[d][i] \in Tasks
          BY <4>1, SenderType, Zenon DEF PermitInv
        <4>3. i \in 1 .. Len(waiting[d]) /\ waiting[d][i] # Closed
          BY <4>1, Zenon
        <4>4. /\ task[waiting[d][i]] = "waiting"
              /\ CampaignOf[waiting[d][i]] = d
              /\ \A j \in 1 .. Len(waiting[d]) : j # i => waiting[d][j] # waiting[d][i]
          BY <4>3, LiveSender, Zenon
        <4>5. waiting[d][i] # t
          BY <4>3, <2>e, Zenon
        <4>6. task'[waiting[d][i]] = "waiting"
          BY <4>2, <4>4, <4>5, <2>6, Zenon
        <4> QED BY <4>1, <4>4, <4>6, Zenon
      <3>2. CASE d = c /\ i = Len(waiting[c]) + 1
        BY <3>2, <2>b, <2>d, <2>e, <2>7, <1>0 DEF c
      <3>3. CASE d = c /\ i # Len(waiting[c]) + 1
        <4>1. i \in 1 .. Len(waiting[c]) /\ waiting'[c][i] = waiting[c][i]
          BY <3>3, <2>b, <2>d
        <4>0. /\ c \in Campaigns /\ i \in 1 .. Len(waiting[c])
              /\ waiting[c][i] # Closed
          BY <4>1, <3>3, <1>0, Zenon
        <4>2. waiting[c][i] \in Tasks /\ waiting[c][i] # t
          BY <4>1, <3>3, <2>e, <1>0, SenderType, Zenon DEF PermitInv
        <4>3. \A j \in 1 .. Len(waiting'[c]) : j # i => waiting'[c][j] # waiting'[c][i]
          <5>1. \A j \in 1 .. Len(waiting[c]) : j # i => waiting[c][j] # waiting[c][i]
            BY <4>0, LiveSender, Zenon
          <5> SUFFICES ASSUME NEW j \in 1 .. Len(waiting'[c]), j # i
                       PROVE  waiting'[c][j] # waiting'[c][i]
            OBVIOUS
          <5>2. CASE j = Len(waiting[c]) + 1
            BY <5>2, <4>1, <4>2, <2>b, <2>d
          <5>3. CASE j # Len(waiting[c]) + 1
            <6>1. j \in 1 .. Len(waiting[c]) /\ waiting'[c][j] = waiting[c][j]
              BY <5>3, <2>b, <2>d
            <6> QED BY <6>1, <5>1, <4>1, Zenon
          <5> QED BY <5>2, <5>3, Zenon
        <4>4. task[waiting[c][i]] = "waiting" /\ CampaignOf[waiting[c][i]] = c
          BY <4>0, LiveSender, Zenon
        <4>5. task'[waiting[c][i]] = "waiting"
          BY <4>2, <4>4, <2>6, Zenon
        <4> QED BY <4>1, <4>3, <4>4, <4>5, <3>3, Zenon
      <3> QED BY <3>1, <3>2, <3>3
    <2>9. WaitersQueued'
      <3> SUFFICES ASSUME NEW u \in Tasks, task'[u] = "waiting"
                   PROVE  \E i \in 1 .. Len(waiting'[CampaignOf[u]]) :
                            waiting'[CampaignOf[u]][i] = u
        BY DEF WaitersQueued
      <3>1. CASE u = t
        BY <3>1, <2>b, <2>d DEF c
      <3>2. CASE u # t
        <4>1. PICK i \in 1 .. Len(waiting[CampaignOf[u]]) : waiting[CampaignOf[u]][i] = u
          BY <3>2, <2>6 DEF PermitInv, WaitersQueued
        <4>2. CampaignOf[u] \in Campaigns
          OBVIOUS
        <4>3. CASE CampaignOf[u] = c
          <5>1. i \in 1 .. Len(waiting'[c]) /\ waiting'[c][i] = u
            BY <4>1, <4>3, <2>b, <2>d
          <5> QED BY <5>1, <4>3
        <4>4. CASE CampaignOf[u] # c
          BY <4>1, <4>2, <4>4, <2>c, Zenon
        <4> QED BY <4>3, <4>4
      <3> QED BY <3>1, <3>2
    <2>10. RoundNotComplete'
      <3>1. \A b \in Campaigns : LiveWaiter(b) => LiveWaiter(b)'
        BY <2>6, <2>7 DEF LiveWaiter
      <3> QED BY <3>1, <2>1, Zenon DEF PermitInv, RoundNotComplete
    <2> QED BY <2>2, <2>3, <2>4, <2>5, <2>8, <2>9, <2>10 DEF PermitInv
  <1> QED BY <1>1, <1>2

(* The receiver is dropped: its sender stays in the queue, closed.          *)
LEMMA GiveUpIInv ==
  ASSUME PermitInv, NEW t \in Tasks, GiveUp(t)
  PROVE  PermitInv'
  <1> USE CapacityAssumption
  <1> DEFINE c == CampaignOf[t]
             q == [i \in 1 .. Len(waiting[c]) |->
                     IF waiting[c][i] = t THEN Closed ELSE waiting[c][i]]
  <1>0. c \in Campaigns
    OBVIOUS
  <1>1. /\ task' = [task EXCEPT ![t] = "idle"]
        /\ waiting' = [waiting EXCEPT ![c] = q]
        /\ passes' = [passes EXCEPT ![c] = [d \in Campaigns |-> 0]]
        /\ UNCHANGED <<active, lastServed, serving, leaked>>
        /\ task[t] = "waiting" /\ ~serving
    BY DEF GiveUp
  <1>2. Len(waiting[c]) \in Nat
    BY <1>0 DEF PermitInv, TypeOK
  <1>3. \A i \in 1 .. Len(waiting[c]) : q[i] \in Tasks \cup {Closed}
    BY <1>0, SenderType, Zenon DEF PermitInv
  <1>4. q \in Seq(Tasks \cup {Closed}) /\ Len(q) = Len(waiting[c])
    <2>1. q \in [1 .. Len(waiting[c]) -> Tasks \cup {Closed}]
      BY <1>3, Zenon
    <2> HIDE DEF q
    <2> QED BY <1>2, <2>1
  <1>5. \A i \in 1 .. Len(waiting[c]) :
          q[i] = IF waiting[c][i] = t THEN Closed ELSE waiting[c][i]
    OBVIOUS
  <1> HIDE DEF c, q
  <1>6. /\ waiting'[c] = q
        /\ \A d \in Campaigns : d # c => waiting'[d] = waiting[d]
    BY <1>0, <1>1 DEF PermitInv, TypeOK
  <1>7. task'[t] = "idle" /\ \A u \in Tasks : u # t => task'[u] = task[u]
    BY <1>1 DEF PermitInv, TypeOK
  <1>8. /\ \A d \in Campaigns : passes'[c][d] = 0
        /\ \A b \in Campaigns : b # c => passes'[b] = passes[b]
    BY <1>0, <1>1 DEF PermitInv, TypeOK
  <1>9. TypeOK'
    <2>1. waiting' \in [Campaigns -> Seq(Tasks \cup {Closed})]
      BY <1>1, <1>4, Zenon DEF PermitInv, TypeOK
    <2> QED BY <1>1, <2>1 DEF PermitInv, TypeOK
  <1>10. PermitsAccounted' /\ active' <= Capacity
    BY <1>1, OwnersSame, Zenon DEF PermitInv, TypeOK, PermitsAccounted
  <1>11. NoIdlePermit'
    <2> SUFFICES ASSUME active < Capacity PROVE Keys' = {}
      BY <1>1 DEF NoIdlePermit
    <2>1. \A d \in Campaigns : waiting[d] = <<>>
      BY <1>1 DEF PermitInv, NoIdlePermit, Keys
    <2>2. PICK i \in 1 .. Len(waiting[c]) : waiting[c][i] = t
      BY <1>1 DEF PermitInv, WaitersQueued, c
    <2>3. Len(waiting[c]) = 0
      BY <2>1, <1>0
    <2> QED BY <2>2, <2>3
  <1>12. QueuesExact'
    <2> SUFFICES ASSUME NEW d \in Campaigns, NEW i \in 1 .. Len(waiting'[d]),
                        waiting'[d][i] # Closed
                 PROVE  /\ task'[waiting'[d][i]] = "waiting"
                        /\ CampaignOf[waiting'[d][i]] = d
                        /\ \A j \in 1 .. Len(waiting'[d]) :
                             j # i => waiting'[d][j] # waiting'[d][i]
      BY Zenon DEF QueuesExact
    <2>1. CASE d # c
      <3>1. waiting'[d] = waiting[d]
        BY <2>1, <1>6
      <3>2. waiting[d][i] \in Tasks
        BY <3>1, SenderType, Zenon DEF PermitInv
      <3>3. CampaignOf[waiting[d][i]] = d
        BY <3>1, <3>2, LiveSender
      <3>4. waiting[d][i] # t
        BY <3>3, <2>1 DEF c
      <3> QED BY <3>1, <3>2, <3>4, <1>7, LiveSender
    <2>2. CASE d = c
      <3>1. i \in 1 .. Len(waiting[c]) /\ waiting'[c][i] = waiting[c][i] /\ waiting[c][i] # t
        BY <2>2, <1>4, <1>5, <1>6
      <3>2. waiting[c][i] \in Tasks
        BY <3>1, <2>2, SenderType DEF PermitInv
      <3>3. \A j \in 1 .. Len(waiting'[c]) : j # i => waiting'[c][j] # waiting'[c][i]
        BY <3>1, <3>2, <2>2, <1>4, <1>5, <1>6, LiveSender
      <3>4. task[waiting[c][i]] = "waiting" /\ CampaignOf[waiting[c][i]] = c
        BY <3>1, <3>2, <1>0, LiveSender, Zenon
      <3> QED BY <3>1, <3>2, <3>3, <3>4, <2>2, <1>7
    <2> QED BY <2>1, <2>2
  <1>13. WaitersQueued'
    <2> SUFFICES ASSUME NEW u \in Tasks, task'[u] = "waiting"
                 PROVE  \E i \in 1 .. Len(waiting'[CampaignOf[u]]) :
                          waiting'[CampaignOf[u]][i] = u
      BY DEF WaitersQueued
    <2>1. u # t /\ task[u] = "waiting"
      BY <1>7
    <2>2. PICK i \in 1 .. Len(waiting[CampaignOf[u]]) : waiting[CampaignOf[u]][i] = u
      BY <2>1 DEF PermitInv, WaitersQueued
    <2>3. CampaignOf[u] \in Campaigns
      OBVIOUS
    <2> QED BY <2>1, <2>2, <2>3, <1>4, <1>5, <1>6, Zenon
  <1>14. RoundNotComplete'
    <2>1. \A b \in Campaigns : b # c /\ LiveWaiter(b) => LiveWaiter(b)'
      BY <1>7 DEF LiveWaiter, c
    <2> QED BY <2>1, <1>1, <1>8 DEF PermitInv, RoundNotComplete
  <1> QED BY <1>9, <1>10, <1>11, <1>12, <1>13, <1>14 DEF PermitInv

(* A turn of release's loop: the head of the next campaign's queue is       *)
(* popped and, unless it is closed, gets the permit.                        *)
LEMMA ServeIInv ==
  ASSUME PermitInv, Serve
  PROVE  PermitInv'
  <1> USE CapacityAssumption
  <1> DEFINE next == NextKey
             sender == Head(waiting[next])
  <1>1. /\ next \in Keys
        /\ \A k \in Keys : k > lastServed => next > lastServed /\ next <= k
        /\ next <= lastServed => \A k \in Keys : next <= k
    BY NextKeyInOrder DEF PermitInv, Serve
  <1>2. /\ serving /\ active < Capacity /\ serving' /\ leaked' = leaked
        /\ waiting' = [waiting EXCEPT ![next] = Tail(waiting[next])]
        /\ IF sender # Closed
           THEN /\ task' = [task EXCEPT ![sender] = "granted"]
                /\ active' = active + 1
                /\ lastServed' = next
                /\ passes' = [c \in Campaigns |->
                     IF c = next \/ ~LiveWaiter(c) THEN [d \in Campaigns |-> 0]
                     ELSE [passes[c] EXCEPT ![next] = @ + 1]]
           ELSE UNCHANGED <<task, active, lastServed, passes>>
    BY DEF Serve, PermitInv, TypeOK
  <1> HIDE DEF next
  <1>3. next \in Campaigns /\ waiting[next] # <<>>
    BY <1>1 DEF Keys
  <1>4. waiting[next] \in Seq(Tasks \cup {Closed})
    BY <1>3 DEF PermitInv, TypeOK
  <1>5. /\ sender = waiting[next][1]
        /\ Tail(waiting[next]) \in Seq(Tasks \cup {Closed})
        /\ Len(waiting[next]) \in Nat \ {0}
        /\ Len(Tail(waiting[next])) = Len(waiting[next]) - 1
        /\ \A i \in 1 .. Len(Tail(waiting[next])) : Tail(waiting[next])[i] = waiting[next][i + 1]
    <2>1. Len(waiting[next]) \in Nat /\ Len(waiting[next]) # 0
      BY <1>3, <1>4
    <2> QED BY <2>1, <1>3, <1>4
  <1> HIDE DEF sender
  <1>6. /\ waiting'[next] = Tail(waiting[next])
        /\ \A d \in Campaigns : d # next => waiting'[d] = waiting[d]
    BY <1>2, <1>3 DEF PermitInv, TypeOK
  <1>7. sender # Closed =>
          /\ sender \in Tasks
          /\ task[sender] = "waiting"
          /\ CampaignOf[sender] = next
          /\ \A j \in 2 .. Len(waiting[next]) : waiting[next][j] # sender
    <2>1. 1 \in 1 .. Len(waiting[next])
      BY <1>5
    <2>2. sender \in Tasks \cup {Closed}
      BY <2>1, <1>3, <1>5, SenderType DEF PermitInv
    <2>3. \A j \in 2 .. Len(waiting[next]) : j \in 1 .. Len(waiting[next]) /\ j # 1
      BY <1>5
    <2> QED BY <2>1, <2>2, <2>3, <1>3, <1>5, LiveSender
  <1>8. \A u \in Tasks : u # sender => task'[u] = task[u]
    BY <1>2 DEF PermitInv, TypeOK
  <1>9. sender # Closed => task'[sender] = "granted"
    BY <1>2, <1>7 DEF PermitInv, TypeOK
  <1>10. TypeOK'
    <2>1. waiting' \in [Campaigns -> Seq(Tasks \cup {Closed})]
      BY <1>2, <1>5, Zenon DEF PermitInv, TypeOK
    <2>2. task' \in [Tasks -> {"idle", "waiting", "granted", "held"}]
      BY <1>2, <1>7 DEF PermitInv, TypeOK
    <2>3. passes' \in [Campaigns -> [Campaigns -> Nat]]
      <3>0. \A c \in Campaigns : passes[c] \in [Campaigns -> Nat]
        BY DEF PermitInv, TypeOK
      <3>1. \A c \in Campaigns : [passes[c] EXCEPT ![next] = @ + 1] \in [Campaigns -> Nat]
        BY ONLY <1>3, <3>0
      <3>2. [d \in Campaigns |-> 0] \in [Campaigns -> Nat]
        OBVIOUS
      <3>3. CASE sender # Closed
        <4>1. passes' = [c \in Campaigns |->
                IF c = next \/ ~LiveWaiter(c) THEN [d \in Campaigns |-> 0]
                ELSE [passes[c] EXCEPT ![next] = @ + 1]]
          BY <3>3, <1>2
        <4>2. \A c \in Campaigns :
                (IF c = next \/ ~LiveWaiter(c) THEN [d \in Campaigns |-> 0]
                 ELSE [passes[c] EXCEPT ![next] = @ + 1]) \in [Campaigns -> Nat]
          BY <3>1, <3>2
        <4> QED BY ONLY <4>1, <4>2
      <3>4. CASE sender = Closed
        BY <3>4, <1>2 DEF PermitInv, TypeOK
      <3> QED BY <3>3, <3>4
    <2>4. active' \in Nat /\ lastServed' \in Campaigns \cup {0}
      BY <1>2, <1>3 DEF PermitInv, TypeOK
    <2> QED BY <1>2, <2>1, <2>2, <2>3, <2>4 DEF PermitInv, TypeOK
  <1>11. active' <= Capacity
    BY <1>2 DEF PermitInv, TypeOK
  <1>12. PermitsAccounted'
    <2>1. CASE sender # Closed
      <3>1. Cardinality(Owners') = Cardinality(Owners) + 1
        BY <2>1, <1>2, <1>7, OwnerAdded DEF PermitInv, TypeOK
      <3>2. Cardinality(Owners) \in Nat
        BY OwnersFinite, FS_CardinalityType
      <3> QED BY <3>1, <3>2, <2>1, <1>2 DEF PermitInv, TypeOK, PermitsAccounted
    <2>2. CASE sender = Closed
      BY <2>2, <1>2 DEF PermitInv, PermitsAccounted, Owners
    <2> QED BY <2>1, <2>2
  <1>13. NoIdlePermit'
    BY <1>2 DEF NoIdlePermit
  <1>14. QueuesExact'
    <2> SUFFICES ASSUME NEW d \in Campaigns, NEW i \in 1 .. Len(waiting'[d]),
                        waiting'[d][i] # Closed
                 PROVE  /\ task'[waiting'[d][i]] = "waiting"
                        /\ CampaignOf[waiting'[d][i]] = d
                        /\ \A j \in 1 .. Len(waiting'[d]) :
                             j # i => waiting'[d][j] # waiting'[d][i]
      BY DEF QueuesExact
    <2>1. CASE d # next
      <3>1. waiting'[d] = waiting[d]
        BY <2>1, <1>6, Zenon
      <3>2. waiting[d][i] \in Tasks
        BY <3>1, SenderType DEF PermitInv
      <3>a. CampaignOf[waiting[d][i]] = d
        BY <3>1, <3>2, LiveSender
      <3>3. waiting[d][i] # sender
        BY <3>a, <3>2, <2>1, <1>7
      <3> QED BY <3>1, <3>2, <3>3, <1>8, LiveSender
    <2>2. CASE d = next
      <3>1. PICK k \in 2 .. Len(waiting[next]) : k = i + 1 /\ waiting'[next][i] = waiting[next][k]
        BY <2>2, <1>5, <1>6
      <3>2. k \in 1 .. Len(waiting[next]) /\ waiting[next][k] # Closed
        BY <3>1, <2>2, <1>5
      <3>3. /\ waiting[next][k] \in Tasks
            /\ task[waiting[next][k]] = "waiting"
            /\ CampaignOf[waiting[next][k]] = next
            /\ \A l \in 1 .. Len(waiting[next]) : l # k => waiting[next][l] # waiting[next][k]
        BY <3>2, <1>3, LiveSender, Zenon
      <3>4. waiting[next][k] # sender
        BY <3>1, <3>3, <1>7
      <3>5. \A j \in 1 .. Len(waiting'[next]) : j # i => waiting'[next][j] # waiting'[next][i]
        <4> SUFFICES ASSUME NEW j \in 1 .. Len(waiting'[next]), j # i
                     PROVE  waiting'[next][j] # waiting'[next][i]
          OBVIOUS
        <4>1. PICK l \in 1 .. Len(waiting[next]) :
                l = j + 1 /\ waiting'[next][j] = waiting[next][l]
          BY <1>5, <1>6
        <4>2. l # k
          BY <4>1, <3>1, <2>2
        <4> QED BY ONLY <4>1, <4>2, <3>1, <3>3
      <3> QED BY <3>1, <3>3, <3>4, <3>5, <2>2, <1>8, Zenon
    <2> QED BY <2>1, <2>2, Zenon
  <1>15. WaitersQueued'
    <2> SUFFICES ASSUME NEW u \in Tasks, task'[u] = "waiting"
                 PROVE  \E i \in 1 .. Len(waiting'[CampaignOf[u]]) :
                          waiting'[CampaignOf[u]][i] = u
      BY DEF WaitersQueued
    <2>1. u # sender /\ task[u] = "waiting"
      BY <1>7, <1>8, <1>9
    <2>2. PICK i \in 1 .. Len(waiting[CampaignOf[u]]) : waiting[CampaignOf[u]][i] = u
      BY <2>1 DEF PermitInv, WaitersQueued
    <2>3. CampaignOf[u] \in Campaigns
      OBVIOUS
    <2>4. CASE CampaignOf[u] # next
      BY <2>2, <2>3, <2>4, <1>6, Zenon
    <2>5. CASE CampaignOf[u] = next
      <3>1. i # 1
        BY <2>1, <2>2, <2>5, <1>5
      <3>2. /\ i - 1 \in 1 .. Len(waiting'[next])
            /\ waiting'[next][i - 1] = waiting[next][i]
        BY <3>1, <2>5, <1>5, <1>6
      <3> QED BY <3>2, <2>2, <2>5
    <2> QED BY <2>4, <2>5
  <1>16. RoundNotComplete'
    <2>1. CASE sender = Closed
      BY <2>1, <1>2 DEF PermitInv, RoundNotComplete, LiveWaiter
    <2>2. CASE sender # Closed
      <3> SUFFICES ASSUME NEW c \in Campaigns, NEW d \in Campaigns, passes'[c][d] > 0
                   PROVE  /\ passes'[c][d] = 1
                          /\ LiveWaiter(c)'
                          /\ c # lastServed'
                          /\ Between(c, d, lastServed')
        BY DEF RoundNotComplete
      <3>1. c # next /\ LiveWaiter(c) /\ passes'[c] = [passes[c] EXCEPT ![next] = @ + 1]
        BY <2>2, <1>2
      <3>2. lastServed' = next
        BY <2>2, <1>2
      <3>3. LiveWaiter(c)'
        BY <3>1, <2>2, <1>7, <1>8, Zenon DEF LiveWaiter
      <3>4. c \in Keys
        <4>1. PICK u \in Tasks : CampaignOf[u] = c /\ task[u] = "waiting"
          BY <3>1 DEF LiveWaiter
        <4>2. PICK i \in 1 .. Len(waiting[c]) : waiting[c][i] = u
          BY <4>1 DEF PermitInv, WaitersQueued
        <4>3. waiting[c] # <<>>
          BY <4>2
        <4> QED BY <4>3 DEF Keys
      <3>5. /\ c \in Nat /\ d \in Nat /\ next \in Nat /\ lastServed \in Nat
            /\ passes[c][d] \in Nat /\ passes[c][next] \in Nat
        BY <1>3 DEF PermitInv, TypeOK
      <3>6. /\ passes'[c][next] = passes[c][next] + 1
            /\ d # next => passes'[c][d] = passes[c][d]
        BY <3>1, <1>3 DEF PermitInv, TypeOK
      <3>7. passes[c][next] = 0
        <4> SUFFICES ASSUME passes[c][next] > 0 PROVE FALSE
          BY <3>5
        <4>1. c # lastServed /\ Between(c, next, lastServed)
          BY <1>3 DEF PermitInv, RoundNotComplete
        <4> QED BY <4>1, <3>1, <3>4, <3>5, <1>1 DEF Between
      <3>8. CASE d = next
        BY <3>8, <3>1, <3>2, <3>3, <3>5, <3>6, <3>7 DEF Between
      <3>9. CASE d # next
        <4>1. passes[c][d] = 1 /\ c # lastServed /\ Between(c, d, lastServed)
          BY <3>9, <3>6, Zenon DEF PermitInv, RoundNotComplete
        <4>2. Between(c, d, next)
          BY <4>1, <3>1, <3>4, <3>5, <1>1 DEF Between
        <4> QED BY <4>1, <4>2, <3>9, <3>1, <3>2, <3>3, <3>6, Zenon
      <3> QED BY <3>8, <3>9, Zenon
    <2> QED BY <2>1, <2>2
  <1> QED BY <1>10, <1>11, <1>12, <1>13, <1>14, <1>15, <1>16 DEF PermitInv

(* The steps that change one task outside the queues: a granted permit is   *)
(* taken, lost by an abort, or given back.                                  *)
LEMMA TaskIInv ==
  ASSUME PermitInv, NEW t \in Tasks, Take(t) \/ AbortGranted(t) \/ Release(t)
  PROVE  PermitInv'
  <1> USE CapacityAssumption
  <1>1. /\ task[t] # "waiting" /\ task'[t] # "waiting"
        /\ \A u \in Tasks : u # t => task'[u] = task[u]
        /\ UNCHANGED <<waiting, lastServed, passes>>
    BY DEF Take, AbortGranted, Release, PermitInv, TypeOK
  <1>2. QueuesExact'
    <2>1. \A c \in Campaigns : \A i \in 1 .. Len(waiting[c]) :
            waiting[c][i] # Closed => waiting[c][i] \in Tasks /\ task'[waiting[c][i]] = "waiting"
      <3> SUFFICES ASSUME NEW c \in Campaigns, NEW i \in 1 .. Len(waiting[c]),
                          waiting[c][i] # Closed
                   PROVE  waiting[c][i] \in Tasks /\ task'[waiting[c][i]] = "waiting"
        BY Zenon
      <3>1. waiting[c][i] \in Tasks
        BY SenderType, Zenon DEF PermitInv
      <3>2. task[waiting[c][i]] = "waiting"
        BY LiveSender
      <3> QED BY <3>1, <3>2, <1>1
    <2>2. waiting' = waiting /\ QueuesExact
      BY <1>1, Zenon DEF PermitInv
    <2>3. ASSUME NEW c \in Campaigns, NEW i \in 1 .. Len(waiting[c]), waiting[c][i] # Closed
          PROVE  /\ task'[waiting[c][i]] = "waiting"
                 /\ CampaignOf[waiting[c][i]] = c
                 /\ \A j \in 1 .. Len(waiting[c]) : j # i => waiting[c][j] # waiting[c][i]
      BY <2>1, <2>2, <2>3, Zenon DEF QueuesExact
    <2> QED BY <2>2, <2>3, SMT DEF QueuesExact
  <1>3. WaitersQueued'
    BY <1>1 DEF PermitInv, WaitersQueued
  <1>4. RoundNotComplete'
    BY <1>1 DEF PermitInv, RoundNotComplete, LiveWaiter
  <1>5. CASE Take(t)
    <2>1. TypeOK' /\ active' <= Capacity /\ NoIdlePermit'
      BY <1>5 DEF Take, PermitInv, TypeOK, NoIdlePermit, Keys
    <2>2. PermitsAccounted'
      BY <1>5, OwnersSame, Zenon DEF Take, PermitInv, TypeOK, PermitsAccounted
    <2> QED BY <2>1, <2>2, <1>2, <1>3, <1>4 DEF PermitInv
  <1>6. CASE AbortGranted(t)
    <2>1. TypeOK' /\ active' <= Capacity /\ NoIdlePermit'
      BY <1>6 DEF AbortGranted, PermitInv, TypeOK, NoIdlePermit, Keys
    <2>2. Cardinality(Owners') = Cardinality(Owners) - 1 /\ Cardinality(Owners) \in Nat \ {0}
      BY <1>6, OwnerRemoved, Zenon DEF AbortGranted, PermitInv, TypeOK
    <2>3. PermitsAccounted'
      BY <1>6, <2>2 DEF AbortGranted, PermitInv, TypeOK, PermitsAccounted
    <2> QED BY <2>1, <2>3, <1>2, <1>3, <1>4 DEF PermitInv
  <1>7. CASE Release(t)
    <2>1. Cardinality(Owners') = Cardinality(Owners) - 1 /\ Cardinality(Owners) \in Nat \ {0}
      BY <1>7, OwnerRemoved, Zenon DEF Release, PermitInv, TypeOK
    <2>2. active' = active - 1 /\ active # 0
      BY <1>7, <2>1 DEF Release, PermitInv, TypeOK, PermitsAccounted
    <2>3. TypeOK' /\ active' <= Capacity /\ NoIdlePermit'
      BY <1>7, <2>2 DEF Release, PermitInv, TypeOK, NoIdlePermit
    <2>4. PermitsAccounted'
      BY <1>7, <2>1, <2>2 DEF Release, PermitInv, TypeOK, PermitsAccounted
    <2> QED BY <2>3, <2>4, <1>2, <1>3, <1>4 DEF PermitInv
  <1> QED BY <1>5, <1>6, <1>7

(* Every step of the host's workers preserves the invariant.                *)
LEMMA NextPermits ==
  ASSUME PermitInv, [PermitsNext]_permitVars
  PROVE  PermitInv'
  <1>1. CASE \E t \in Tasks : Acquire(t) \/ Take(t) \/ GiveUp(t) \/ AbortGranted(t) \/ Release(t)
    BY <1>1, AcquireIInv, GiveUpIInv, TaskIInv
  <1>2. CASE Serve
    BY <1>2, ServeIInv
  <1>3. CASE Served
    <2>1. TypeOK' /\ active' <= Capacity /\ NoIdlePermit'
      BY <1>3, Zenon DEF Served, PermitInv, TypeOK, NoIdlePermit, Keys
    <2>a. task' = task /\ waiting' = waiting /\ active' = active /\ leaked' = leaked
      BY <1>3, Zenon DEF Served
    <2>b. PermitsAccounted'
      BY <2>a, Zenon DEF PermitInv, PermitsAccounted, Owners
    <2>2. QueuesExact' /\ WaitersQueued'
      <3>1. QueuesExact'
        BY <2>a DEF PermitInv, QueuesExact
      <3>2. WaitersQueued'
        BY <2>a DEF PermitInv, WaitersQueued
      <3> QED BY <3>1, <3>2, Zenon
    <2>3. RoundNotComplete'
      BY <1>3, Zenon DEF Served, PermitInv, RoundNotComplete, LiveWaiter
    <2> QED BY <2>1, <2>b, <2>2, <2>3 DEF PermitInv
  <1>4. CASE UNCHANGED permitVars
    BY <1>4 DEF permitVars, PermitInv, TypeOK, PermitsAccounted, Owners, NoIdlePermit, Keys,
                QueuesExact, WaitersQueued, RoundNotComplete, LiveWaiter
  <1> QED BY <1>1, <1>2, <1>3, <1>4 DEF PermitsNext

(* The strengthened invariant holds in every reachable state.               *)
LEMMA PermitsInvariant == PermitsSpec => []PermitInv
  <1>1. PermitsInit => PermitInv
    BY InitPermits
  <1>2. PermitInv /\ [PermitsNext]_permitVars => PermitInv'
    BY NextPermits
  <1> QED BY <1>1, <1>2, PTL DEF PermitsSpec

(* acquire and release never let more workers run than there are permits,   *)
(* whichever of them are aborted, time out or are handed a permit.          *)
THEOREM PermitsBounded == PermitsSpec => []WithinCapacity
  <1>1. PermitInv => WithinCapacity
    BY DEF PermitInv, PermitsAccounted, WithinCapacity
  <1> QED BY <1>1, PermitsInvariant, PTL

(* release's loop leaves no permit free while a sender is queued.           *)
THEOREM PermitsUsed == PermitsSpec => []NoIdlePermit
  <1>1. PermitInv => NoIdlePermit
    BY DEF PermitInv
  <1> QED BY <1>1, PermitsInvariant, PTL

(* The rotation over the campaigns' ids serves no campaign twice while      *)
(* another one waits, however many campaigns there are.                     *)
THEOREM CampaignsRotate == PermitsSpec => []Rotates
  <1>1. PermitInv => Rotates
    BY CapacityAssumption DEF PermitInv, TypeOK, RoundNotComplete, Rotates
  <1> QED BY <1>1, PermitsInvariant, PTL
=============================================================================
