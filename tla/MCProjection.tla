---------------------------- MODULE MCProjection ----------------------------
(***************************************************************************)
(* Instances of Projection for TLC.                                        *)
(***************************************************************************)
EXTENDS Projection

CONSTANTS p1, p2, r1

MCRank == <<3, 1, 5, 2, 4, 6>>

Bounds(sessions, projectors, readers, entities, events, minutes, nfaults, view) ==
  [sessions |-> sessions, projectors |-> projectors, readers |-> readers,
   entities |-> entities, events |-> events, minutes |-> minutes, faults |-> nfaults,
   reads |-> 1, view |-> view]

\* A consumer pages through active work while generations are published and
\* collected; two projectors; operations of two sessions, of which one may not
\* project; then the histories of each family.
MCScenarios ==
  {Bounds({1}, {p1}, {r1}, [operation |-> {1, 2}], 3, 1, 0, "work"),
   Bounds({1}, {p1, p2}, {}, [operation |-> {1}, other |-> {1}], 2, 1, 0, "work"),
   Bounds({1, 2}, {p1}, {}, [operation |-> {1}, other |-> {1}], 2, 0, 1, "work"),
   Bounds({1}, {p1}, {}, [operation |-> {1}], 5, 0, 0, "work"),
   Bounds({1}, {p1}, {}, [participant |-> {1, 2, 3}], 3, 0, 0, "tree"),
   Bounds({1}, {p1}, {}, [approval |-> {1}], 6, 0, 0, "approval"),
   Bounds({1}, {p1}, {}, [message |-> {1}, recovery |-> {1}], 5, 0, 0, "delivery")}
=============================================================================
