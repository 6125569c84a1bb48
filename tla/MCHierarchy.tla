---------------------------- MODULE MCHierarchy ----------------------------
(***************************************************************************)
(* Small trees: a root r, its child c and grandchild d, each instance with *)
(* the commands, cancellations and closes that meet in it.                 *)
(***************************************************************************)
EXTENDS SessionClose, TLC

P(cap, p) == Atom(cap, "participant", p)
S(cap) == [cap |-> cap, scope |-> <<"session">>]

Names == {"participant.spawn", "participant.status", "message.send", "operation.cancel",
          "operation.resume", "message.question", "message.outcome"}

\* What the root's template makes active, and what it may hand on.
Held == {P("participant.spawn", "r"), P("participant.spawn", "c"), P("participant.status", "c"),
         P("message.send", "c"), S("operation.cancel"), S("operation.resume"),
         S("message.question"), S("message.outcome")}
Full == [active |-> Held, delegable |-> Held]

\* A template that would hand on more than the root holds.
Wide == [active |-> Held, delegable |-> Held \cup {P("participant.spawn", "d")}]

Template(parents, profile) ==
    [parents |-> parents, template |-> profile, relationship |-> profile, subject |-> profile]

Templates == ("top" :> Template({"none"}, Full)) @@ ("sub" :> Template({"top", "sub"}, Full))
             @@ ("wide" :> Template({"top"}, Wide)) @@ ("orphan" :> Template({}, Full))

Spawn(id, by, to, tmpl, g) ==
    [id |-> id, kind |-> "spawn", by |-> by, to |-> to, tmpl |-> tmpl, grant |-> g, reply |-> ""]
Do(id, kind, by, to, reply) ==
    [id |-> id, kind |-> kind, by |-> by, to |-> to, tmpl |-> "", grant |-> "", reply |-> reply]
Check(id, by, g) ==
    [id |-> id, kind |-> "check", by |-> by, to |-> by, tmpl |-> "", grant |-> g, reply |-> ""]

Base == [templates |-> Templates, allowed |-> {"sub", "wide"}, roottmpl |-> "top",
         grants |-> <<>>, commands |-> {}, cancels |-> {}, closes |-> {}, start |-> "",
         MaxEpoch |-> 1, MaxInterrupts |-> 0, MaxCloses |-> 1]

\* A grandchild is spawned while its parent's or its own subtree is cancelled.
Tree == [Base EXCEPT !.commands = {Spawn("s1", "r", "c", "sub", ""), Spawn("s2", "c", "d", "sub", "")},
                     !.cancels = {[id |-> "k1", root |-> "c"]}]

\* Two answers to one question, and another question in between.
Ask == [Base EXCEPT !.commands = {Spawn("s1", "r", "c", "sub", ""), Do("q1", "question", "c", "r", ""),
                                  Do("q2", "question", "c", "r", ""),
                                  Do("a1", "resume", "r", "c", "q1"), Do("a2", "resume", "r", "c", "q1")}]

\* Two uses of one single-use grant, either of them interrupted.
Grant == [Base EXCEPT !.commands = {Spawn("s1", "r", "c", "sub", "g"), Check("h1", "r", "g")},
                      !.grants = ("g" :> [subject |-> "r", atom |-> P("participant.spawn", "r"),
                                          single |-> TRUE]),
                      !.MaxInterrupts = 1]

\* A template that widens, and a question nobody hears.
Deny == [Base EXCEPT !.commands = {Spawn("s1", "r", "c", "wide", ""), Do("q1", "question", "r", "r", "")}]

\* A status and a reminder, to a child that may not be there yet.
Tell == [Base EXCEPT !.commands = {Spawn("s1", "r", "c", "sub", ""), Do("x1", "status", "r", "c", ""),
                                   Do("m1", "send", "r", "c", "")}]

\* A status asked in a tenure that ends.
Peek == [Base EXCEPT !.commands = {Do("x1", "status", "r", "r", "")}, !.MaxEpoch = 2]

\* A child is cancelled by its parent, and the session changes hands.
Stop == [Base EXCEPT !.commands = {Spawn("s1", "r", "c", "sub", ""), Do("x1", "cancel", "r", "c", "")},
                     !.MaxEpoch = 2]

\* Closing a session that is spawning a child.
Close == [Base EXCEPT !.commands = {Spawn("s1", "r", "c", "sub", "")},
                      !.closes = {[id |-> "z1", root |-> "r"]}]

\* Closing a session whose first operation is being started.
Race == [Base EXCEPT !.start = "r", !.closes = {[id |-> "z1", root |-> "r"]}, !.MaxCloses = 2]

\* ... and that is cancelled by another request.
Both == [Race EXCEPT !.cancels = {[id |-> "k1", root |-> "r"]}]

\* Closing a session that another host takes over.
Handover == [Base EXCEPT !.closes = {[id |-> "z1", root |-> "r"]}, !.MaxEpoch = 2, !.MaxCloses = 2]

MCScenarios == {Tree, Ask, Grant, Deny, Tell, Peek, Stop, Close, Race, Both, Handover}
=============================================================================
