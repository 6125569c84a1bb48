----------------------------- MODULE MCHoldings -----------------------------
(***************************************************************************)
(* Instances of Holdings for TLC.                                          *)
(***************************************************************************)
EXTENDS Holdings

CONSTANTS s1, s2, d1, d2, t1, t2, t3, a1, a2, w1, w2, w3, w4, w5, x1, r1, r2, r3, e1, c1, c2, c3,
          o1, o2, o3, o4, o5, o6, o7, z1, z2, z3, z4

MCLimits ==
  [subscriptions |-> [session |-> 1, global |-> 2],
   artifacts |-> [session |-> 2, global |-> 2],
   artifact_bytes |-> [session |-> 2, global |-> 3],
   pending_requests |-> [session |-> 1, global |-> 2]]

Write(request, artifact, content, size) ==
  [request |-> request, artifact |-> artifact, session |-> s1,
   creator |-> s1, content |-> content, size |-> size, until |-> 1]

\* w2 retries the request of w1; w3 writes other content to the same artifact;
\* w4 writes another one, and competes for the bytes; w5 names an operation of another session.
MCWriteOf ==
  w1 :> Write("q1", a1, "one", 2) @@ w2 :> Write("q1", a1, "one", 2)
  @@ w3 :> Write("q3", a1, "two", 0) @@ w4 :> Write("q6", a2, "two", 1)
  @@ w5 :> [Write("q7", a2, "two", 1) EXCEPT !.creator = s2]
MCDeleteOf == x1 :> [request |-> "q4", artifact |-> a1, session |-> s1]
MCEraseOf == e1 :> [request |-> "q5", artifact |-> a1, session |-> s1]
Read(offset, length) ==
  [artifact |-> a1, session |-> s1, offset |-> offset, length |-> length]
MCReadOf == r1 :> Read(0, <<1>>) @@ r2 :> Read(1, <<>>) @@ r3 :> Read(1, <<2>>)

MCOffer == c1 :> "core" @@ c2 :> "core" @@ c3 :> "core"
MCKey == c1 :> "k1" @@ c2 :> "k2" @@ c3 :> "k1"

\* o1 and o2 open, o3 by its own identity; o4 and o5 are one reset request sent
\* twice, with another template; o6 closes the session of o1,
\* and o7 resumes it.
Ask(mode, request, id, template) ==
  [mode |-> mode, request |-> request, key |-> "k1", session |-> id,
   template |-> [id |-> template, body |-> template]]
MCAsks ==
  o1 :> Ask("open", "q1", z1, "a") @@ o2 :> Ask("open", "q2", z2, "a")
  @@ o3 :> Ask("exact", "q3", z3, "a") @@ o4 :> Ask("reset", "q4", z4, "b")
  @@ o5 :> Ask("reset", "q4", z4, "b") @@ o6 :> Ask("close", "q6", z1, "a")
  @@ o7 :> Ask("resume", "q7", z2, "a")

\* Calls of one host and of another that obtain the session's ownership.
Opener(host, mode, n) == [host |-> host, mode |-> mode, n |-> n]
k1 == Opener("h1", "acquire", 1)
k2 == Opener("h1", "acquire", 2)
k3 == Opener("h1", "reconcile", 1)
k4 == Opener("h2", "acquire", 1)
MCOpeners == {k1, k2, k3, k4}

Bounds(part, calls, sessions, daemons, epochs, time, nevents, ncrashes) ==
  [part |-> part, calls |-> calls, sessions |-> sessions, daemons |-> daemons,
   epochs |-> epochs, time |-> time, events |-> nevents, crashes |-> ncrashes]

MCScenarios ==
  {Bounds("streams", {t1}, {s1}, {d1, d2}, 2, 3, 2, 1),
   Bounds("streams", {t1, t2}, {s1}, {d1, d2}, 2, 2, 1, 0),
   Bounds("streams", {t1, t2}, {s1}, {d1}, 1, 1, 3, 1),
   Bounds("streams", {t1, t2, t3}, {s1, s2}, {d1}, 1, 0, 1, 0),
   Bounds("writes", {w1, w2, r1}, {s1}, {}, 2, 0, 0, 1),
   Bounds("writes", {w1, w3, w4}, {s1}, {}, 1, 0, 0, 1),
   Bounds("writes", {w1, w2, x1, e1}, {s1}, {}, 2, 1, 0, 0),
   Bounds("writes", {w1, w5, x1, e1, r1}, {s1}, {}, 1, 1, 0, 0),
   Bounds("writes", {w1, r2, r3}, {s1}, {}, 1, 0, 0, 1),
   Bounds("clients", {c1, c2, c3}, {}, {}, 0, 0, 0, 1),
   Bounds("directory", {o1, o2, o3}, {}, {}, 3, 1, 0, 1),
   Bounds("directory", {o1, o4, o5}, {}, {}, 3, 0, 1, 0),
   Bounds("directory", {o1, o4, o6}, {}, {}, 3, 0, 1, 1),
   Bounds("directory", {o1, o7}, {}, {}, 3, 1, 1, 1),
   Bounds("owners", {k1, k3, k4}, {}, {}, 0, 3, 1, 0),
   Bounds("owners", {k1, k3}, {}, {}, 0, 2, 1, 1),
   Bounds("owners", {k1, k2, k3}, {}, {}, 0, 3, 0, 0)}

=============================================================================
