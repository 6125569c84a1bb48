------------------------------ MODULE PiDriver ------------------------------
(***************************************************************************)
(* The Pi driver process of one launched instance: the request dispatcher  *)
(* (server.ts), the adapter that prompts the Pi session one turn at a time *)
(* and its append-only journal (adapter.ts), and the bridge the agent's    *)
(* tools go through (tools.ts).                                            *)
(*                                                                         *)
(* "journal" is the file.  An append opens, writes and syncs the file, and *)
(* may fail with nothing, a torn line or the whole line written.  "srv" is *)
(* the memory of the process, gone when the process dies; a process        *)
(* started again with the same binding reads the journal back, as the      *)
(* driver's own tests do it; the host never starts one (Boot).  Every      *)
(* request is one turn of the JavaScript event loop, so it is one step.    *)
(*                                                                         *)
(* The agent is a script: what it reports and asks for while it is         *)
(* prompted with a message.  A tool call or a hierarchy command keeps the  *)
(* agent waiting; terminal lines ("chat") share the session's turns.       *)
(***************************************************************************)
EXTENDS Naturals, Sequences, FiniteSets, SequencesExt

CONSTANTS
    Scenarios,      \* each: the messages, the agent's script, the faults, and the
                    \* bound MaxDeliveries (MAX_PENDING_DELIVERIES)
    MaxTools        \* MAX_PENDING_TOOLS

VARIABLES
    scenario,       \* the scenario of this behaviour
    journal,        \* the records of the journal file
    srv,            \* the memory of the process
    prompts,        \* every prompt given to the session: [m, boot]
    boots,          \* processes started
    faults          \* failed appends, dead processes and lost answers so far

driverVars == <<scenario, journal, srv, prompts, boots, faults>>

Terminals == {"succeeded", "failed", "cancelled", "uncertain"}

Pending(m, a) == [k |-> "pending", m |-> m, a |-> a]
Delivered(m) == [k |-> "delivered", m |-> m]
EventRecord(e) == [k |-> "event", e |-> e]
Result(q, x) == [k |-> "result", q |-> q, x |-> x]

\* An event: its number, its kind, the message of the turn it was published in,
\* what it says, and the turn that really was running.
Event(n, kind, m, x, by) == [n |-> n, kind |-> kind, m |-> m, x |-> x, by |-> by]

Records(j, k) == SelectSeq(j, LAMBDA r : r.k = k)
EventsOf(j) == LET rs == Records(j, "event") IN [i \in 1..Len(rs) |-> rs[i].e]

\* A line appended behind a torn one is glued to it.
Appended(j, r) ==
    IF j # <<>> /\ Last(j).k = "torn" THEN Append(Front(j), [k |-> "corrupt"]) ELSE Append(j, r)
Torn(j) == IF j # <<>> /\ Last(j).k = "torn" THEN j ELSE Append(j, [k |-> "torn"])

\* appendDurably: what the file holds afterwards, and whether the call returned.
Writes(j, r) ==
    {[j |-> Appended(j, r), ok |-> TRUE]}
    \cup IF faults < scenario.MaxFaults /\ "append" \in scenario.faulty
         THEN {[j |-> x, ok |-> FALSE] : x \in {j, Torn(j), Appended(j, r)}} ELSE {}

Spend(ok) == faults' = IF ok THEN faults ELSE faults + 1

\* AcceptanceJournal.open reads the file: an unreadable journal refuses to open.
Readable(j) ==
    /\ Records(j, "corrupt") = <<>>
    /\ LET ps == Records(j, "pending") IN \A i, k \in 1..Len(ps) : ps[i].m = ps[k].m => i = k
    /\ LET es == EventsOf(j) IN \A i, k \in 1..Len(es) : i < k => es[i].n < es[k].n

\* Mutant of MessagesOf: messages already delivered are not read back.
MutMessagesOf(j) ==
    LET gone == {r.m : r \in ToSet(Records(j, "delivered"))}
        ps == SelectSeq(Records(j, "pending"), LAMBDA r : r.m \notin gone)
    IN [i \in 1..Len(ps) |-> [m |-> ps[i].m, a |-> ps[i].a, done |-> FALSE]]

MessagesOf(j) ==
    LET ps == Records(j, "pending")
    IN [i \in 1..Len(ps) |->
          [m |-> ps[i].m, a |-> ps[i].a,
           done |-> \E k \in 1..Len(j) : j[k].k = "delivered" /\ j[k].m = ps[i].m]]
ResultsOf(j) == {[q |-> r.q, x |-> r.x] : r \in ToSet(Records(j, "result"))}

Idle == [m |-> "", chat |-> FALSE, by |-> ""]
Down == [up |-> FALSE, started |-> FALSE, stopped |-> FALSE, ledger |-> FALSE, seq |-> 0,
         events |-> <<>>, msgs |-> <<>>, hcmds |-> {}, hres |-> {}, hwait |-> {}, tcmds |-> {},
         twait |-> {}, tterm |-> {}, recover |-> FALSE, known |-> "", last |-> "",
         tail |-> <<>>, left |-> {}, turn |-> Idle, pc |-> 1, awaits |-> "",
         spoke |-> FALSE, aborts |-> ""]

Operation(m) == scenario.op[m]
MaxDeliveries == scenario.MaxDeliveries
Known(s, m) == \E i \in 1..Len(s.msgs) : s.msgs[i].m = m
Entry(s, m) == CHOOSE e \in ToSet(s.msgs) : e.m = m

\* Mutant of OfAttempt: the journal's record stands for every attempt.
MutOfAttempt(e, a) == TRUE

\* The journal holds one attempt of a message; another one conflicts with it.
OfAttempt(e, a) == e.a = a

Scheduled(s, m) == s.turn.by = m \/ \E i \in 1..Len(s.tail) : s.tail[i].by = m
Waiting(s) == Cardinality({i \in 1..Len(s.msgs) : Scheduled(s, s.msgs[i].m)})

\* Pushes a durable event and wakes whoever observes.
Push(s, e) == [s EXCEPT !.events = Append(@, e)]
Claim(s) == [s EXCEPT !.seq = @ + 1]

-----------------------------------------------------------------------------
(* Start.  The first one opens the journal and gives its content back: an  *)
(* answered hierarchy command is not presented again, and any hierarchy    *)
(* command leaves the instance in need of recovery.                        *)

LastNumber(evs) == IF evs = <<>> THEN 0 ELSE Last(evs).n

Recovered ==
    LET evs == EventsOf(journal)
        answered(e) == e.kind = "hier" /\ \E r \in ResultsOf(journal) : r.q = e.x
        of(kind) == {e.x : e \in {f \in ToSet(evs) : f.kind = kind}}
        msgs == MessagesOf(journal)
    IN [Down EXCEPT
          !.up = TRUE, !.started = TRUE, !.msgs = msgs,
          !.events = SelectSeq(evs, LAMBDA e : ~answered(e)),
          !.seq = LastNumber(evs),
          !.hcmds = of("hier"), !.tcmds = of("tool"), !.hres = ResultsOf(journal),
          !.recover = of("hier") # {},
          !.last = IF msgs = <<>> \/ Operation(Last(msgs).m) = "" THEN "" ELSE Last(msgs).m]

\* The acceptances the events do not show yet, in order.
Unannounced(s) ==
    SelectSeq(s.msgs, LAMBDA e : ~\E i \in 1..Len(s.events) :
                  s.events[i].kind = "accept" /\ s.events[i].m = e.m /\ s.events[i].x = e.a)

\* The events a first start appends: ready when there is none, then those.
Owed(s) ==
    LET first == IF s.events = <<>> THEN <<Event(s.seq + 1, "ready", "", "", "")>> ELSE <<>>
        base == s.seq + Len(first)
        un == Unannounced(s)
    IN first \o [i \in 1..Len(un) |-> Event(base + i, "accept", un[i].m, un[i].a, "")]

\* The messages accepted and not yet delivered are scheduled again, up to the
\* bound; "left" remembers, for the properties, which ones were not.
Redelivered(s) ==
    LET undone == SelectSeq(s.msgs, LAMBDA e : ~e.done)
        operated == SelectSeq(undone, LAMBDA e : Operation(e.m) # "")
        n == IF Len(undone) > MaxDeliveries THEN MaxDeliveries ELSE Len(undone)
    IN IF s.recover THEN s
       ELSE [s EXCEPT !.tail = [i \in 1..n |->
                                  [m |-> undone[i].m, chat |-> FALSE, by |-> undone[i].m]],
                      !.left = {undone[i].m : i \in (n + 1)..Len(undone)},
                      !.last = IF operated = <<>> THEN @ ELSE Last(operated).m]

\* The torn tail is cut off; an append that fails leaves a started instance
\* whose messages are not scheduled, and a later start changes nothing.  An
\* acceptance event has the cause of the record it announces: only an attempt
\* sent twice could give it another one, and the host sends each attempt once.
Start(ans) ==
    /\ UNCHANGED prompts
    /\ IF srv.started THEN ans = "started" /\ UNCHANGED <<srv, journal, faults>>
       ELSE IF ~Readable(journal) THEN ans = "error" /\ UNCHANGED <<srv, journal, faults>>
       ELSE LET s == Recovered
                owed == Owed(s)
                whole == SelectSeq(journal, LAMBDA r : r.k # "torn")
                shown(n) == [s EXCEPT !.events = @ \o SubSeq(owed, 1, n), !.seq = @ + n]
                file(n) == whole \o [i \in 1..n |-> EventRecord(owed[i])]
            IN \/ /\ ans = "started" /\ UNCHANGED faults
                  /\ srv' = Redelivered(shown(Len(owed))) /\ journal' = file(Len(owed))
               \/ \E n \in 1..Len(owed) :
                    \E w \in {v \in Writes(file(n - 1), EventRecord(owed[n])) : ~v.ok} :
                       /\ ans = "error" /\ Spend(FALSE)
                       /\ srv' = Claim(shown(n - 1)) /\ journal' = w.j

-----------------------------------------------------------------------------
(* The requests of the host.  "ans" is what the caller reads, "destroyed"  *)
(* when the dispatcher throws and the connection is closed instead.        *)

Refused(ans) == ans = "error" /\ UNCHANGED <<srv, journal, prompts, faults>>

InspectState(s) ==
    IF ~s.started THEN "error" ELSE IF s.stopped THEN "stopped"
    ELSE IF s.recover THEN "uncertain" ELSE "ready"

\* deliver: the record is durable before the turn is scheduled and the answer sent.
Scheduling(s, m) ==
    LET known == [s EXCEPT !.last = IF Operation(m) = "" THEN @ ELSE m]
        after == [known EXCEPT !.known = IF known.last = "" THEN @ ELSE known.last]
    IN IF Entry(s, m).done \/ Scheduled(s, m) \/ Waiting(s) >= MaxDeliveries THEN after
       ELSE [after EXCEPT !.tail = Append(@, [m |-> m, chat |-> FALSE, by |-> m])]

\* The acceptance event, unless the events already show this attempt.
Announce(s, j, m, a, ans) ==
    IF \E i \in 1..Len(s.events) :
          s.events[i].kind = "accept" /\ s.events[i].m = m /\ s.events[i].x = a
    THEN /\ srv' = s /\ journal' = j /\ ans = "accepted" /\ UNCHANGED faults
    ELSE LET e == Event(s.seq + 1, "accept", m, a, "")
         IN \E w \in Writes(j, EventRecord(e)) :
              /\ journal' = w.j /\ Spend(w.ok)
              /\ srv' = IF w.ok THEN Push(Claim(s), e) ELSE Claim(s)
              /\ ans = IF w.ok THEN "accepted" ELSE "error"

Deliver(m, a, ans) ==
    /\ UNCHANGED prompts
    /\ IF ~srv.started \/ srv.recover \/ srv.stopped
          \/ (~Known(srv, m) /\ Waiting(srv) >= MaxDeliveries)
          \/ (Known(srv, m) /\ ~OfAttempt(Entry(srv, m), a))
       THEN Refused(ans)
       ELSE IF Known(srv, m) THEN Announce(Scheduling(srv, m), journal, m, a, ans)
       ELSE \/ /\ faults < scenario.MaxFaults /\ "append" \in scenario.faulty
               /\ journal' \in {w.j : w \in {v \in Writes(journal, Pending(m, a)) : ~v.ok}}
               /\ Spend(FALSE) /\ ans = "error" /\ UNCHANGED srv
            \/ LET s == [srv EXCEPT !.msgs = Append(@, [m |-> m, a |-> a, done |-> FALSE])]
               IN Announce(Scheduling(s, m), Appended(journal, Pending(m, a)), m, a, ans)

\* acceptance: by message, and only for the attempt the journal holds.
AcceptanceOf(s, m, a) ==
    IF ~s.started THEN "error"
    ELSE IF ~Known(s, m) THEN "not_accepted"
    ELSE IF OfAttempt(Entry(s, m), a) THEN "accepted" ELSE "unknown"
Acceptance(m, a, ans) ==
    ans = AcceptanceOf(srv, m, a) /\ UNCHANGED <<srv, journal, prompts, faults>>

\* The session throws: out of prompt, abort or dispose.
SessionFails == faults < scenario.MaxFaults /\ "session" \in scenario.faulty

\* cancel: aborts the session's turn, whatever turn that is, once per operation
\* in a row; an abort that failed may be asked for again.
Aborted(s) ==
    IF s.turn = Idle THEN s
    ELSE [s EXCEPT !.pc = Len(scenario.script[s.turn.by]) + 1, !.awaits = ""]
Cancel(o, ans) ==
    /\ UNCHANGED <<journal, prompts>>
    /\ IF ~\E i \in 1..Len(srv.msgs) : Operation(srv.msgs[i].m) = o
       THEN ans = "error" /\ UNCHANGED <<srv, faults>>
       ELSE \/ /\ ans = "requested" /\ UNCHANGED faults
               /\ srv' = IF srv.aborts = o THEN srv
                         ELSE [(IF srv.stopped THEN srv ELSE Aborted(srv)) EXCEPT !.aborts = o]
            \/ /\ ans = "error" /\ SessionFails /\ Spend(FALSE)
               /\ srv.aborts # o /\ ~srv.stopped
               /\ srv' = [srv EXCEPT !.aborts = ""]

\* remind: only about the delivery of the turn, or the last delivery.
Context(s) == IF s.turn = Idle THEN s.known ELSE s.turn.m
Remind(o, m, ans) ==
    /\ UNCHANGED <<srv, journal, prompts, faults>>
    /\ ans = IF srv.started /\ ~srv.stopped /\ Context(srv) = m /\ Operation(m) = o
             THEN "reminded" ELSE "error"

\* hierarchyResult: recorded once, replayed when equal, and it wakes the agent.
HierarchyResult(q, x, ans) ==
    /\ UNCHANGED prompts
    /\ IF \/ q \notin srv.hcmds
          \/ \E r \in srv.hres : r.q = q /\ r.x # x
          \/ ~\E e \in ToSet(srv.events) \cup {[kind |-> "hier", x |-> r.q] : r \in srv.hres} :
                 e.kind = "hier" /\ e.x = q
       THEN ans = "destroyed" /\ UNCHANGED <<srv, journal, faults>>
       ELSE LET woken == [srv EXCEPT !.hwait = @ \ {q},
                                     !.awaits = IF @ = q THEN "" ELSE @]
            IN IF \E r \in srv.hres : r.q = q
               THEN ans = "ok" /\ srv' = woken /\ UNCHANGED <<journal, faults>>
               ELSE \E w \in Writes(journal, Result(q, x)) :
                      /\ journal' = w.j /\ Spend(w.ok)
                      /\ ans = IF w.ok THEN "ok" ELSE "destroyed"
                      /\ srv' = IF w.ok THEN [woken EXCEPT !.hres = @ \cup {[q |-> q, x |-> x]}]
                                ELSE srv

\* toolResult: held in memory only, and the first one wins.
ToolResult(q, x, ans) ==
    /\ UNCHANGED <<journal, prompts, faults>>
    /\ IF \/ \E r \in srv.tterm : r.q = q /\ r.x # x
          \/ q \notin srv.tcmds /\ ~\E r \in srv.tterm : r.q = q
       THEN ans = "destroyed" /\ UNCHANGED srv
       ELSE /\ ans = "ok"
            /\ srv' = [srv EXCEPT !.tterm = @ \cup {[q |-> q, x |-> x]}, !.tcmds = @ \ {q},
                                  !.twait = @ \ {q},
                                  !.awaits = IF @ = q /\ q \in srv.twait THEN "" ELSE @]

\* stop: refused under an identity already used, by a stop that failed too; what
\* waits on the host's hierarchy results is released, what waits on a tool is
\* not.  The instance is stopped even when its session does not stop.
Stop(ans) ==
    LET stopped(s) == [s EXCEPT !.stopped = TRUE, !.ledger = TRUE, !.hwait = {}]
    IN /\ UNCHANGED <<journal, prompts>>
       /\ IF srv.ledger \/ ~srv.started
          THEN ans = "error" /\ srv' = [srv EXCEPT !.ledger = TRUE] /\ UNCHANGED faults
          ELSE \/ ans = "stopped" /\ srv' = stopped(Aborted(srv)) /\ UNCHANGED faults
               \/ ans = "error" /\ SessionFails /\ srv' = stopped(srv) /\ Spend(FALSE)

\* observe: the first event behind the cursor, nothing yet, or a closed stream.
FirstAfter(s, n) ==
    LET later == SelectSeq(s.events, LAMBDA e : e.n > n) IN IF later = <<>> THEN {} ELSE {later[1]}

-----------------------------------------------------------------------------
(* The session's turns, one at a time in the order they were queued.       *)

TurnBegins ==
    /\ srv.up /\ srv.turn = Idle /\ srv.tail # <<>>
    /\ LET t == Head(srv.tail)
           m == IF t.chat THEN srv.last ELSE t.m
       IN IF srv.stopped \/ m = "" \/ Operation(m) = ""
          THEN srv' = [srv EXCEPT !.tail = Tail(@)] /\ UNCHANGED prompts
          ELSE /\ srv' = [srv EXCEPT !.tail = Tail(@), !.turn = [t EXCEPT !.m = m], !.pc = 1,
                                     !.awaits = "", !.spoke = FALSE]
               /\ prompts' = Append(prompts, [m |-> t.by, boot |-> boots])
    /\ UNCHANGED <<scenario, journal, boots, faults>>

Speaking == srv.pc <= Len(scenario.script[srv.turn.by])

\* The session is done with the prompt, and the message is delivered.  A
\* prompt that fails leaves it pending, and nothing schedules it again.
TurnEnds ==
    /\ srv.up /\ srv.turn # Idle /\ srv.awaits = ""
    /\ ~Speaking /\ (scenario.implicit => srv.turn.chat \/ srv.spoke)
    /\ LET m == srv.turn.by
           over == [srv EXCEPT !.turn = Idle]
           noted == IF srv.turn.chat THEN TRUE ELSE Entry(srv, m).done
       IN \/ /\ noted
             /\ srv' = over /\ UNCHANGED <<journal, faults>>
          \/ /\ ~noted
             /\ \E w \in Writes(journal, Delivered(m)) :
                  /\ journal' = w.j /\ Spend(w.ok)
                  /\ srv' = IF ~w.ok THEN over
                            ELSE [over EXCEPT !.msgs =
                                    [i \in 1..Len(@) |-> IF @[i].m = m THEN [@[i] EXCEPT !.done = TRUE]
                                                         ELSE @[i]]]
    /\ UNCHANGED <<scenario, prompts, boots>>

\* implicitTerminalText: a turn that ends without a terminal report succeeds.
ImplicitReport ==
    /\ srv.up /\ srv.turn # Idle /\ srv.awaits = "" /\ ~Speaking
    /\ scenario.implicit /\ ~srv.turn.chat /\ ~srv.spoke
    /\ LET e == Event(srv.seq + 1, "report", srv.turn.m, "succeeded", srv.turn.by)
       IN \E w \in Writes(journal, EventRecord(e)) :
            /\ journal' = w.j /\ Spend(w.ok)
            /\ srv' = IF w.ok THEN [Push(Claim(srv), e) EXCEPT !.spoke = TRUE]
                      ELSE [Claim(srv) EXCEPT !.turn = Idle]
    /\ UNCHANGED <<scenario, prompts, boots>>

\* Mutant of PromptFails: the chain of turns ends with the one that failed.
MutPromptFails ==
    /\ srv.up /\ srv.turn # Idle /\ srv.awaits = "" /\ SessionFails /\ Spend(FALSE)
    /\ srv' = [srv EXCEPT !.turn = Idle, !.tail = <<>>]
    /\ UNCHANGED <<scenario, journal, prompts, boots>>

\* The next turn begins all the same.
PromptFails ==
    /\ srv.up /\ srv.turn # Idle /\ srv.awaits = "" /\ SessionFails /\ Spend(FALSE)
    /\ srv' = [srv EXCEPT !.turn = Idle]
    /\ UNCHANGED <<scenario, journal, prompts, boots>>

\* What the agent does next in its turn.
Step(s) == scenario.script[s.turn.by][s.pc]
Acting(do) ==
    /\ srv.up /\ srv.turn # Idle /\ srv.awaits = ""
    /\ Speaking
    /\ Step(srv).do = do
Next1(s) == [s EXCEPT !.pc = @ + 1]

\* A number is claimed before the event is appended, and stays claimed; t is the
\* memory once the event is durable.
Publish(s, e, t) ==
    \E w \in Writes(journal, EventRecord(e)) :
        /\ journal' = w.j /\ Spend(w.ok)
        /\ srv' = IF w.ok THEN Push(t, e) ELSE Next1(s)

MayReport(t) == ~t.chat

\* report: refused in a terminal line's turn; an exact terminal is not repeated.
AgentReports ==
    /\ Acting("report")
    /\ LET m == srv.turn.m
           kind == Step(srv).x
           e == Event(srv.seq + 1, "report", m, kind, srv.turn.by)
           said(s) == [Next1(s) EXCEPT !.spoke = @ \/ kind \in Terminals]
       IN IF ~MayReport(srv.turn) THEN srv' = Next1(srv) /\ UNCHANGED <<journal, faults>>
          ELSE IF kind \in Terminals /\ \E i \in 1..Len(srv.events) :
                     srv.events[i].kind = "report" /\ srv.events[i].m = m /\ srv.events[i].x = kind
          THEN srv' = said(srv) /\ UNCHANGED <<journal, faults>>
          ELSE Publish(Claim(srv), e, said(Claim(srv)))
    /\ UNCHANGED <<scenario, prompts, boots>>

\* A hierarchy command: its waiter is registered first; a request published
\* before is refused after its number was claimed.
AgentCommands ==
    /\ Acting("hier")
    /\ LET q == Step(srv).x
           e == Event(srv.seq + 1, "hier", srv.turn.m, q, srv.turn.by)
           s == [Claim(srv) EXCEPT !.hwait = @ \cup {q}, !.hcmds = @ \cup {q}]
       IN IF q \in srv.hwait THEN srv' = Next1(srv) /\ UNCHANGED <<journal, faults>>
          ELSE IF q \in srv.hcmds THEN srv' = Next1(s) /\ UNCHANGED <<journal, faults>>
          ELSE Publish(s, e, [Next1(s) EXCEPT !.awaits = q])
    /\ UNCHANGED <<scenario, prompts, boots>>

AgentCalls ==
    /\ Acting("tool")
    /\ LET q == Step(srv).x
           e == Event(srv.seq + 1, "tool", srv.turn.m, q, srv.turn.by)
           s == [Claim(srv) EXCEPT !.twait = @ \cup {q}, !.tcmds = @ \cup {q}]
       IN IF Cardinality(srv.tcmds) >= MaxTools \/ q \in srv.twait \cup srv.tcmds
          THEN srv' = Next1(srv) /\ UNCHANGED <<journal, faults>>
          ELSE Publish(s, e, [Next1(s) EXCEPT !.awaits = q])
    /\ UNCHANGED <<scenario, prompts, boots>>

\* HIERARCHY_RESULT_TIMEOUT_MS: the agent stops waiting, a late result is still recorded.
HierarchyTimeout ==
    /\ srv.up /\ srv.awaits \in srv.hwait
    /\ srv' = [srv EXCEPT !.hwait = @ \ {srv.awaits}, !.awaits = ""]
    /\ UNCHANGED <<scenario, journal, prompts, boots, faults>>

\* A line typed at the terminal joins the queue of turns.
TypeLine ==
    /\ srv.up /\ srv.started /\ ~srv.stopped /\ ~srv.recover
    /\ scenario.script["chat"] # <<>>
    /\ ~Scheduled(srv, "chat") /\ ~\E i \in 1..Len(prompts) : prompts[i].m = "chat"
    /\ srv' = [srv EXCEPT !.tail = Append(@, [m |-> "", chat |-> TRUE, by |-> "chat"])]
    /\ UNCHANGED <<scenario, journal, prompts, boots, faults>>

\* The process dies; its memory is gone, the file stays.
Crash ==
    /\ srv.up /\ faults < scenario.MaxFaults /\ "crash" \in scenario.faulty
    /\ faults' = faults + 1
    /\ srv' = Down
    /\ UNCHANGED <<scenario, journal, prompts, boots>>

\* The ownership pipe closes: the process stops the session and ends.
OwnershipLost ==
    /\ srv.up /\ faults < scenario.MaxFaults /\ "eof" \in scenario.faulty
    /\ faults' = faults + 1
    /\ srv' = Down
    /\ UNCHANGED <<scenario, journal, prompts, boots>>

\* A process with the same binding is started.  The host does so once for a launch
\* attempt; a second one is only what the journal is made for.
Boot ==
    /\ ~srv.up /\ boots < scenario.MaxBoots
    /\ boots' = boots + 1
    /\ srv' = [Down EXCEPT !.up = TRUE]
    /\ UNCHANGED <<scenario, journal, prompts, faults>>

DriverInit ==
    /\ scenario \in Scenarios
    /\ journal = <<>> /\ srv = Down /\ prompts = <<>> /\ boots = 0 /\ faults = 0

DriverNext ==
    \/ TurnBegins \/ TurnEnds \/ PromptFails \/ ImplicitReport
    \/ AgentReports \/ AgentCommands \/ AgentCalls \/ HierarchyTimeout
    \/ TypeLine \/ Crash \/ OwnershipLost \/ Boot
=============================================================================
