----------------------------- MODULE MCDelivery -----------------------------
(* Instances of Delivery for TLC: `ask' and `next' are ordinary messages,  *)
(* `stop' is a cancel.                                                     *)
EXTENDS Delivery

CONSTANTS h1, h2, i1, i2, i3, ask, next, stop

Scenario(hosts, instances, messages, epochs, crashes, punctual) ==
  [hosts |-> hosts, instances |-> instances, messages |-> messages,
   epochs |-> epochs, faults |-> crashes, punctual |-> punctual]

\* Two hosts and two drivers take turns with one message.
Doubt == Scenario({h1, h2}, {i1, i2}, {ask}, 2, 0, FALSE)

\* A driver dies in between, or a host abandons its loop.
Crash == Scenario({h1, h2}, {i1}, {ask}, 2, 1, FALSE)

\* Two ordinary messages of one driver.
Order == Scenario({h1}, {i1}, {ask, next}, 1, 0, FALSE)

\* A cancel overtakes an ordinary message.
Control == Scenario({h1}, {i1}, {ask, stop}, 1, 0, FALSE)

\* One message, three drivers that may die, and hosts that keep their deadlines.
Settles == Scenario({h1}, {i1, i2, i3}, {ask}, 2, 1, TRUE)

AllScenarios == {Doubt, Crash, Order, Control, Settles}
=============================================================================
