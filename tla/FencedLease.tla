---------------------------- MODULE FencedLease ----------------------------
(* What session ownership promises: at any moment one lease, granted under *)
(* strictly increasing epochs against a clock that only moves forward;     *)
(* only the holder of a lease still in force writes, and each write has    *)
(* its effect once.                                                        *)
EXTENDS Naturals

CONSTANTS Requests, Hosts, NoLease

VARIABLES clock,      \* the time the resource has committed to
          lease,      \* NoLease or [host, epoch, expires]
          highWater,  \* the last epoch granted
          writes      \* the <<request, host, epoch>> of every effective write

avars == <<clock, lease, highWater, writes>>

InForce(t) == lease # NoLease /\ t < lease.expires

Init ==
  /\ clock = 0
  /\ lease = NoLease
  /\ highWater = 0
  /\ writes = {}

(* Time passes; leases lapse by themselves. *)
Tick ==
  /\ clock' >= clock
  /\ UNCHANGED <<lease, highWater, writes>>

(* A new epoch starts only when no lease is in force. *)
Grant(h) ==
  /\ clock' >= clock
  /\ ~InForce(clock')
  /\ highWater' = highWater + 1
  /\ lease'.host = h
  /\ lease'.epoch = highWater'
  /\ lease'.expires > clock'
  /\ UNCHANGED writes

(* The holder writes.  It may move its own expiry or give the lease up in  *)
(* the same step; it can change nothing else.                              *)
Write(r) ==
  /\ clock' >= clock
  /\ InForce(clock')
  /\ \A w \in writes : w[1] # r
  /\ writes' = writes \cup {<<r, lease.host, lease.epoch>>}
  /\ \/ lease' = lease
     \/ lease' = NoLease
     \/ lease'.expires > clock' /\ lease' = [lease EXCEPT !.expires = lease'.expires]
  /\ UNCHANGED highWater

Next ==
  \/ Tick
  \/ \E h \in Hosts : Grant(h)
  \/ \E r \in Requests : Write(r)

Spec == Init /\ [][Next]_avars
=============================================================================
