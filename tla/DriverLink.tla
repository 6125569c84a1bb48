----------------------------- MODULE DriverLink -----------------------------
(***************************************************************************)
(* The host's end of a driver instance: the two authenticated channels of  *)
(* a driver client, the calls made on the control channel, and the worker  *)
(* that delivers a message, observes the driver's events one number after  *)
(* the other, applies the commands among them and sends their results      *)
(* back (driver_executor.rs, navigator-driver-client).                     *)
(*                                                                         *)
(* A call holds the channel's mutex until its answer is read or its time   *)
(* is up.  A call that timed out leaves its answer in the stream, and the  *)
(* next one reads it and is refused; the request itself is still served.   *)
(* The worker's reminder drops the observation wherever it is: a blocking  *)
(* call goes on with nobody waiting for it.                                *)
(***************************************************************************)
EXTENDS PiDriver

VARIABLES
    link,       \* the published pair of channels: [gen, ctl, obs]
    inbox,      \* requests sent and not yet served
    calls,      \* the call each caller has in flight
    task,       \* where the worker and the mailbox sweep are
    at,         \* the worker's piece of work, event and reminder
    cursor,     \* sequence: the last event this executor is done with
    pending,    \* pending_report: its number, 0 for none
    tools,      \* tool_correlations: [guard, results]
    mail,       \* what the mailbox says of each message: [st, a]
    outcome,    \* what became of each piece of work
    side,       \* calls other tasks have still to make
    stopping,   \* the lifecycle fence is closed
    exec,       \* executors attached so far
    told,       \* acceptances the host was told of
    log,        \* events the executors are done with
    applied     \* commands handed to a sink

hostVars == <<cursor, pending, tools, mail, outcome, told, log, applied>>
linkVars == <<link, inbox, calls, task, at, hostVars, side, stopping, exec>>
vars == <<driverVars, linkVars>>

Callers == {"worker", "sweep", "cancel", "stop", "nobody"}
NoCall == [c |-> "none"]
NoEvent == Event(0, "none", "", "", "")
Fresh(gen) == [gen |-> gen, ctl |-> "ok", obs |-> "ok"]

TheMessage == scenario.work[at.i]
TheOperation == Operation(TheMessage)
Name(k) == <<"a1", "a2", "a3">>[k]
Req(c, m, a, q, x) == [c |-> c, m |-> m, a |-> a, q |-> q, x |-> x]
NoReq == Req("none", "", "", "", 0)

\* What the client asks, and what it makes of the answer (Served).
DescribeRequest == Req("describe", "", "", "", 0)
StartRequest == Req("start", "", "", "", 0)
DeliverRequest(m, a) == Req("deliver", m, a, "", 0)
AcceptanceRequest(m, a) == Req("acceptance", m, a, "", 0)
RemindRequest(m) == Req("remind", m, "", "", 0)
HierarchyResultRequest(q, x) == Req("hier", "", "", q, x)
ToolResultRequest(q, x) == Req("tool", "", "", q, x)
CancelRequest(m) == Req("cancel", m, "", "", 0)
StopRequest == Req("stop", "", "", "", 0)
Fault(kind) == faults < scenario.MaxFaults /\ kind \in scenario.faulty

-----------------------------------------------------------------------------
(* The control channel.                                                    *)

Free == \A c \in Callers : calls[c] # NoCall => calls[c].gen # link.gen

\* DriverClient::call: one frame out, under the channel's mutex.
Send(by, req) ==
    /\ Free
    /\ calls' = [calls EXCEPT ![by] = [req |-> req, gen |-> link.gen, ctl |-> link.ctl,
                                       ans |-> ""]]
    /\ inbox' = Append(inbox, [req |-> req, gen |-> link.gen])

\* The dispatcher of the driver.
Served(req, ans) ==
    \/ req.c = "describe" /\ ans = "described" /\ UNCHANGED <<srv, journal, prompts, faults>>
    \/ req.c = "start" /\ Start(ans)
    \/ req.c = "deliver" /\ Deliver(req.m, req.a, ans)
    \/ req.c = "acceptance" /\ Acceptance(req.m, req.a, ans)
    \/ req.c = "remind" /\ Remind(Operation(req.m), req.m, ans)
    \/ req.c = "hier" /\ HierarchyResult(req.q, req.x, ans)
    \/ req.c = "tool" /\ ToolResult(req.q, req.x, ans)
    \/ req.c = "cancel" /\ Cancel(Operation(req.m), ans)
    \/ req.c = "stop" /\ Stop(ans)

Answers == {"described", "started", "accepted", "not_accepted", "unknown", "reminded", "ok",
            "requested", "stopped", "error", "destroyed"}

\* serveConnection: the requests of a stream in order, the streams in any order.
Serve(i) ==
    /\ srv.up
    /\ \A k \in 1..(i - 1) : inbox[k].gen # inbox[i].gen
    /\ \E ans \in Answers :
        /\ Served(inbox[i].req, ans)
        /\ calls' = [c \in Callers |->
                       IF calls[c] # NoCall /\ calls[c].gen = inbox[i].gen
                          /\ calls[c].req = inbox[i].req
                       THEN [calls[c] EXCEPT !.ans = ans] ELSE calls[c]]
        /\ link' = IF ans = "destroyed" /\ link.gen = inbox[i].gen
                   THEN [link EXCEPT !.ctl = "dead"] ELSE link
    /\ inbox' = SubSeq(inbox, 1, i - 1) \o SubSeq(inbox, i + 1, Len(inbox))
    /\ UNCHANGED <<scenario, boots, task, at, hostVars, side, stopping, exec>>

\* An answer left in the stream by an earlier call is not the caller's own.
Read(call) == IF call.ctl = "late" \/ call.ans = "destroyed" THEN "error" ELSE call.ans

\* The call of "by" is over: it was answered, its time is up, or its stream is gone.
Returns(by, ans) ==
    /\ calls[by] # NoCall
    /\ calls' = [calls EXCEPT ![by] = NoCall]
    /\ LET call == calls[by]
           mark(l) == IF call.gen = link.gen THEN l ELSE link
       IN \/ /\ call.ans # "" /\ ans = Read(call)
             /\ UNCHANGED <<link, inbox, faults>>
          \/ /\ call.ans = "" /\ ans = "error" /\ srv.up /\ Fault("late")
             /\ faults' = faults + 1 /\ link' = mark([link EXCEPT !.ctl = "late"])
             /\ UNCHANGED inbox
          \/ /\ call.ans = "" /\ ans = "error" /\ ~srv.up
             /\ link' = mark([link EXCEPT !.ctl = "dead", !.obs = "dead"])
             /\ inbox' = SelectSeq(inbox, LAMBDA r : r.gen # call.gen)
             /\ UNCHANGED faults

-----------------------------------------------------------------------------
(* The tasks: the worker of an operation and the sweep of the mailbox.     *)

Go(by, ph) == task' = [task EXCEPT ![by].ph = ph, ![by].req = NoReq]
Calls(by, req) == task' = [task EXCEPT ![by].ph = "call", ![by].req = req]

\* The worker ends with its operation uncertain, failed, waiting or terminal.
Over(what) ==
    /\ Go("worker", "over")
    /\ at' = [at EXCEPT !.ev = NoEvent]
    /\ outcome' = [outcome EXCEPT ![at.i] = what]

\* An event is done with: the cursor moves behind it.
Consume(e) ==
    /\ cursor' = e.n
    /\ log' = Append(log, [n |-> e.n, e |-> e, exec |-> exec])

Ask(by) ==
    /\ task[by].ph = "call" /\ link.ctl # "dead"
    /\ Send(by, task[by].req)
    /\ task' = [task EXCEPT ![by].ph = "asked"]
    /\ UNCHANGED <<driverVars, link, at, hostVars, side, stopping, exec>>

MessageOf(by) == IF by = "sweep" THEN scenario.sweep ELSE TheMessage

\* A mailbox delivery that is not proven either way: the worker's operation is uncertain.
Unproven(by) ==
    IF by = "worker" THEN Over("uncertain")
    ELSE Go(by, "over") /\ UNCHANGED <<at, outcome>>

\* What follows a start, a delivery or an acceptance query.
Delivering(by, ans) ==
    LET m == MessageOf(by)
        a == mail[m].a
        ask(req) == Calls(by, req) /\ UNCHANGED <<at, outcome>>
    IN \/ /\ ans = "accepted"
          /\ mail' = [mail EXCEPT ![m].st = "accepted"]
          /\ told' = told \cup {[m |-> m, a |-> Name(a)]}
          /\ Go(by, IF by = "worker" THEN "observe" ELSE "over")
          /\ UNCHANGED <<at, outcome>>
       \/ /\ ans = "error" /\ task[by].req.c = "deliver"
          /\ UNCHANGED <<mail, told>> /\ ask(AcceptanceRequest(m, Name(a)))
       \/ /\ ans = "not_accepted" /\ a < scenario.MaxAttempts
          /\ mail' = [mail EXCEPT ![m].a = a + 1] /\ UNCHANGED told /\ ask(DeliverRequest(m, Name(a + 1)))
       \/ /\ (ans = "not_accepted" /\ a >= scenario.MaxAttempts) \/ ans = "unknown"
          /\ UNCHANGED <<mail, told>> /\ Unproven(by)
       \/ /\ ans = "error" /\ task[by].req.c = "acceptance"
          /\ UNCHANGED <<mail, told>>
          /\ IF task[by].again THEN Unproven(by)
             ELSE Go(by, "rejoin") /\ UNCHANGED <<at, outcome>>

\* The first delivery of a message, or what became of an earlier one.
Begin(by) ==
    LET m == MessageOf(by)
    IN CASE mail[m].st = "accepted" ->
              Go(by, IF by = "worker" THEN "observe" ELSE "over") /\ UNCHANGED mail
         [] mail[m].st = "sent" ->
              Calls(by, AcceptanceRequest(m, Name(mail[m].a))) /\ UNCHANGED mail
         [] mail[m].st = "queued" ->
              /\ mail' = [mail EXCEPT ![m] = [st |-> "sent", a |-> 1]]
              /\ Calls(by, DeliverRequest(m, Name(1)))

SweepBegins ==
    /\ task["sweep"].ph = "idle" /\ scenario.sweep # "" /\ srv.started /\ ~stopping
    /\ Begin("sweep")
    /\ UNCHANGED <<driverVars, link, inbox, calls, at, cursor, pending, tools, outcome, told, log,
                   applied, side, stopping, exec>>

\* The answer of a delivery, or the refusal of a dead channel.
Delivered1(by) ==
    /\ task[by].req.c \in {"deliver", "acceptance"}
    /\ \/ /\ task[by].ph = "asked"
          /\ \E ans \in Answers : Returns(by, ans) /\ Delivering(by, ans)
       \/ /\ task[by].ph = "call" /\ link.ctl = "dead" /\ Delivering(by, "error")
          /\ UNCHANGED <<link, inbox, calls, faults>>
    /\ UNCHANGED <<scenario, journal, srv, prompts, boots, cursor, pending, tools, log, applied,
                   side, stopping, exec>>

\* reconnect_origin and publish_reconnected_pair: a new pair, and one more query.
Rejoin(by) ==
    /\ task[by].ph = "rejoin"
    /\ IF stopping \/ ~srv.started
       THEN Unproven(by) /\ UNCHANGED link
       ELSE /\ link' = Fresh(link.gen + 1)
            /\ task' = [task EXCEPT ![by] =
                 [ph |-> "call", again |-> TRUE,
                  req |-> AcceptanceRequest(MessageOf(by), Name(mail[MessageOf(by)].a))]]
            /\ UNCHANGED <<at, outcome>>
    /\ UNCHANGED <<driverVars, inbox, calls, cursor, pending, tools, mail, told, log, applied,
                   side, stopping, exec>>

-----------------------------------------------------------------------------
(* The worker.  It attaches to a process, makes it ready, delivers, and    *)
(* observes: "handle" of an event runs up to its next await.               *)

Attach ==
    /\ srv.up /\ ~srv.started /\ boots > exec
    /\ exec' = exec + 1
    /\ link' = Fresh(link.gen + 1) /\ inbox' = <<>>
    /\ calls' = [c \in Callers |-> NoCall]
    /\ cursor' = 0 /\ pending' = 0 /\ tools' = [guard |-> {}, results |-> {}]
    /\ task' = [task EXCEPT !["worker"] = [ph |-> "call", again |-> FALSE,
                                           req |-> StartRequest]]
    /\ at' = [at EXCEPT !.ev = NoEvent, !.reminded = FALSE]
    /\ outcome' = [outcome EXCEPT ![at.i] = IF @ = "uncertain" THEN "" ELSE @]
    /\ UNCHANGED <<driverVars, mail, told, log, applied, side, stopping>>

\* ensure_ready: a driver that does not describe itself fails the operation.
Readied ==
    /\ task["worker"].ph \in {"call", "asked"}
    /\ task["worker"].req.c \in {"start", "describe"}
    /\ \E ans \in Answers :
        /\ \/ task["worker"].ph = "asked" /\ Returns("worker", ans)
           \/ /\ task["worker"].ph = "call" /\ link.ctl = "dead" /\ ans = "error"
              /\ UNCHANGED <<link, inbox, calls, faults>>
        /\ IF ans = "error" THEN Over("failed") /\ UNCHANGED mail
           ELSE IF outcome[at.i] # "" THEN Go("worker", "over") /\ UNCHANGED <<at, outcome, mail>>
           ELSE Begin("worker") /\ UNCHANGED <<at, outcome>>
    /\ UNCHANGED <<scenario, journal, srv, prompts, boots, cursor, pending, tools, told, log,
                   applied, side, stopping, exec>>

NextWork ==
    /\ task["worker"].ph = "over" /\ at.i < Len(scenario.work) /\ ~stopping
    /\ at' = [i |-> at.i + 1, ev |-> NoEvent, reminded |-> FALSE]
    /\ task' = [task EXCEPT !["worker"] = [ph |-> "call", again |-> FALSE,
                                           req |-> DescribeRequest]]
    /\ UNCHANGED <<driverVars, link, inbox, calls, hostVars, side, stopping, exec>>

\* ToolCorrelationGuard: a request seen before is a duplicate.
SeenBefore(q) == q \in tools.guard

\* The first event behind the cursor, as next_report reads it.
Next1Event == IF srv.started /\ link.obs = "ok" THEN FirstAfter(srv, cursor) ELSE {}
Exact(e) == e.n = cursor + 1
Mine(e) == Operation(e.m) = TheOperation
Handles(e, ph) == Go("worker", ph) /\ at' = [at EXCEPT !.ev = e] /\ UNCHANGED outcome

\* Ready and acceptance events are only counted.
ObserveNotice(e) ==
    /\ Exact(e) /\ e.kind \in {"ready", "accept"}
    /\ Consume(e) /\ UNCHANGED <<task, at, outcome, pending, tools>>

\* A report of this operation is kept until it is acknowledged.
ObserveReport(e) ==
    /\ Exact(e) /\ e.kind = "report" /\ Mine(e)
    /\ pending' = e.n /\ Handles(e, "await") /\ UNCHANGED <<cursor, log, tools>>

ObserveHierarchy(e) ==
    /\ Exact(e) /\ e.kind = "hier"
    /\ Handles(e, "apply") /\ UNCHANGED <<cursor, log, pending, tools>>

\* A tool command seen before is answered with the result that was kept.
ObserveTool(e) ==
    /\ Exact(e) /\ e.kind = "tool" /\ Mine(e)
    /\ \/ /\ ~SeenBefore(e.x)
          /\ tools' = [tools EXCEPT !.guard = @ \cup {e.x}]
          /\ Handles(e, "apply")
       \/ /\ SeenBefore(e.x) /\ UNCHANGED tools
          /\ \E r \in tools.results :
               r.q = e.x /\ Calls("worker", ToolResultRequest(e.x, r.x))
          /\ at' = [at EXCEPT !.ev = e] /\ UNCHANGED outcome
    /\ UNCHANGED <<cursor, log, pending>>

\* A gap, an event of another operation, or a duplicate whose result was never kept.
ObserveRefused(e) ==
    /\ \/ ~Exact(e)
       \/ e.kind \in {"report", "tool"} /\ ~Mine(e)
       \/ e.kind = "tool" /\ SeenBefore(e.x) /\ ~\E r \in tools.results : r.q = e.x
    /\ Over("uncertain") /\ UNCHANGED <<cursor, log, pending, tools>>

Observe ==
    /\ task["worker"].ph = "observe"
    /\ \E e \in Next1Event :
        \/ ObserveNotice(e) \/ ObserveReport(e) \/ ObserveHierarchy(e) \/ ObserveTool(e)
        \/ ObserveRefused(e)
    /\ UNCHANGED <<driverVars, link, inbox, calls, mail, told, applied, side, stopping, exec>>

\* The sink applies the command; a request that only reads may answer differently
\* each time it is applied.
Apply ==
    /\ task["worker"].ph = "apply"
    /\ LET q == at.ev.x
           x == IF q \in scenario.varying
                THEN 1 + Cardinality({i \in 1..Len(applied) : applied[i].q = q}) ELSE 1
       IN /\ applied' = Append(applied, [q |-> q, kind |-> at.ev.kind, exec |-> exec])
          /\ task' = [task EXCEPT !["worker"].ph = "applied",
                                  !["worker"].req = IF at.ev.kind = "hier"
                                                    THEN HierarchyResultRequest(q, x)
                                                    ELSE ToolResultRequest(q, x)]
    /\ UNCHANGED <<driverVars, link, inbox, calls, at, cursor, pending, tools, mail, outcome, told,
                   log, side, stopping, exec>>

\* Its result is back: a tool's is kept for a duplicate, then it is sent.
Answer ==
    /\ task["worker"].ph = "applied"
    /\ LET req == task["worker"].req
       IN /\ tools' = IF req.c = "hier" THEN tools
                      ELSE [tools EXCEPT !.results = @ \cup {[q |-> req.q, x |-> req.x]}]
          /\ Calls("worker", req)
    /\ UNCHANGED <<driverVars, link, inbox, calls, at, cursor, pending, mail, outcome, told, log,
                   applied, side, stopping, exec>>

\* Mutant of Acknowledged: the cursor moves on whatever the driver answered.
MutAcknowledged(ans) == TRUE

Acknowledged(ans) == ans = "ok"

\* The driver has the result before the event is done with; a tool's is forgotten.
Forget(q) == [guard |-> tools.guard \ {q}, results |-> {r \in tools.results : r.q # q}]

Resulted(kind) ==
    /\ task["worker"].ph \in {"call", "asked"} /\ task["worker"].req.c = kind
    /\ \E ans \in Answers :
        /\ \/ task["worker"].ph = "asked" /\ Returns("worker", ans)
           \/ /\ task["worker"].ph = "call" /\ link.ctl = "dead" /\ ans = "error"
              /\ UNCHANGED <<link, inbox, calls, faults>>
        /\ IF Acknowledged(ans)
           THEN /\ Consume(at.ev) /\ Go("worker", "observe")
                /\ tools' = IF kind = "tool" THEN Forget(at.ev.x) ELSE tools
                /\ at' = [at EXCEPT !.ev = NoEvent] /\ UNCHANGED outcome
           ELSE Over("uncertain") /\ UNCHANGED <<cursor, log, tools>>
    /\ UNCHANGED <<scenario, journal, srv, prompts, boots, pending, mail, told, applied, side,
                   stopping, exec>>
HierarchyResulted == Resulted("hier")
ToolResulted == Resulted("tool")

\* causal_acceptance_state: what the mailbox says of the attempt a report names.
CausalState(e) ==
    LET a == mail[e.m].a
        held == a > 0 /\ \E r \in ToSet(Records(journal, "pending")) : r.m = e.m /\ r.a = Name(a)
    IN IF ~held THEN "rejected"
       ELSE CASE mail[e.m].st = "accepted" -> "accepted" [] OTHER -> "pending"

\* What a report makes of the operation.
Ends(x) == CASE x = "progress" -> "" [] x = "question" -> "waiting" [] OTHER -> x

\* acknowledge_report: the worker committed what the report says.
ReportAccepted ==
    /\ task["worker"].ph = "await" /\ CausalState(at.ev) = "accepted"
    /\ Consume(at.ev) /\ pending' = 0
    /\ IF Ends(at.ev.x) # "" THEN Over(Ends(at.ev.x))
       ELSE /\ task' = [task EXCEPT !["worker"] = [ph |-> "observe", again |-> FALSE,
                                                   req |-> NoReq]]
            /\ at' = [at EXCEPT !.ev = NoEvent] /\ UNCHANGED outcome
    /\ UNCHANGED <<driverVars, link, inbox, calls, tools, mail, told, applied, side, stopping,
                   exec>>

\* discard_pending_report: the delivery is not proven, at once or in time.
ReportDiscarded ==
    /\ task["worker"].ph = "await" /\ CausalState(at.ev) # "accepted"
    /\ Over("uncertain") /\ pending' = 0
    /\ UNCHANGED <<driverVars, link, inbox, calls, cursor, tools, mail, told, log, applied, side,
                   stopping, exec>>

\* The observe stream is lost or too slow: one reconnect for each report.
ObserveBreaks ==
    /\ task["worker"].ph = "observe"
    /\ \/ link.obs = "dead" /\ UNCHANGED faults
       \/ ~srv.up /\ UNCHANGED faults
       \/ Fault("observe") /\ faults' = faults + 1
    /\ link' = [link EXCEPT !.obs = "dead"]
    /\ IF task["worker"].again THEN Over("uncertain")
       ELSE Go("worker", "prepare") /\ UNCHANGED <<at, outcome>>
    /\ UNCHANGED <<scenario, journal, srv, prompts, boots, inbox, calls, cursor, pending, tools,
                   mail, told, log, applied, side, stopping, exec>>

ValidInspection == InspectState(srv) = "ready" /\ srv.seq >= cursor

\* prepare_reconnected_channels: a fresh pair, if the instance is ready and not behind.
Prepare ==
    /\ task["worker"].ph = "prepare" /\ Free
    /\ IF stopping \/ ~ValidInspection
       THEN Over("uncertain")
       ELSE /\ task' = [task EXCEPT !["worker"].ph = "publish", !["worker"].again = TRUE,
                                    !["worker"].req = Req("publish", "", "", "", link.gen)]
            /\ UNCHANGED <<at, outcome>>
    /\ UNCHANGED <<driverVars, link, inbox, calls, cursor, pending, tools, mail, told, log,
                   applied, side, stopping, exec>>

IsCurrent(gen) == ~stopping /\ link.gen = gen

\* publish_if_current: over the pair it was prepared from, while the fence is open.
Publishes ==
    /\ task["worker"].ph = "publish"
    /\ IF ~IsCurrent(task["worker"].req.x)
       THEN Over("uncertain") /\ UNCHANGED link
       ELSE /\ link' = Fresh(link.gen + 1)
            /\ Go("worker", "observe") /\ UNCHANGED <<at, outcome>>
    /\ UNCHANGED <<driverVars, inbox, calls, cursor, pending, tools, mail, told, log, applied,
                   side, stopping, exec>>

\* Half the deadline is over: the observation is dropped where it stands, the
\* call it waits for goes on, and the driver is reminded.
Observing ==
    \/ task["worker"].ph \in {"observe", "apply", "applied", "await", "prepare", "publish"}
    \/ task["worker"].ph \in {"call", "asked"} /\ task["worker"].req.c \in {"hier", "tool"}
Abandon ==
    /\ Observing
    /\ IF task["worker"].ph # "asked" THEN UNCHANGED calls
       ELSE /\ calls["nobody"] = NoCall
            /\ calls' = [calls EXCEPT !["nobody"] = calls["worker"], !["worker"] = NoCall]

Remember ==
    /\ "remind" \in scenario.faulty /\ ~at.reminded
    /\ Abandon
    /\ task' = [task EXCEPT !["worker"] = [ph |-> "call", again |-> FALSE,
                                           req |-> RemindRequest(TheMessage)]]
    /\ at' = [at EXCEPT !.ev = NoEvent, !.reminded = TRUE]
    /\ UNCHANGED <<driverVars, link, inbox, hostVars, side, stopping, exec>>

Reminded ==
    /\ task["worker"].ph \in {"call", "asked"} /\ task["worker"].req.c = "remind"
    /\ \E ans \in Answers :
        /\ \/ task["worker"].ph = "asked" /\ Returns("worker", ans)
           \/ /\ task["worker"].ph = "call" /\ link.ctl = "dead" /\ ans = "error"
              /\ UNCHANGED <<link, inbox, calls, faults>>
        /\ IF ans = "reminded" THEN Go("worker", "observe") /\ UNCHANGED <<at, outcome>>
           ELSE Over("uncertain")
    /\ UNCHANGED <<scenario, journal, srv, prompts, boots, cursor, pending, tools, mail, told, log,
                   applied, side, stopping, exec>>

\* The deadline: the operation fails for want of a terminal report.
Deadline ==
    /\ "deadline" \in scenario.faulty /\ at.reminded
    /\ Abandon /\ Over("failed")
    /\ UNCHANGED <<driverVars, link, inbox, cursor, pending, tools, mail, told, log, applied,
                   side, stopping, exec>>

-----------------------------------------------------------------------------
(* A cancellation and a graceful stop come from tasks of their own.        *)

StopBegins ==
    /\ "stop" \in side /\ ~stopping /\ srv.started
    /\ stopping' = TRUE
    /\ UNCHANGED <<driverVars, link, inbox, calls, task, at, hostVars, side, exec>>

SideCall(c) ==
    /\ c \in side /\ srv.started
    /\ c = "stop" => stopping
    /\ c = "cancel" => ~stopping /\ mail[scenario.work[1]].st = "accepted"
    /\ side' = side \ {c}
    /\ IF link.ctl = "dead" THEN UNCHANGED <<calls, inbox>>
       ELSE Send(c, IF c = "stop" THEN StopRequest ELSE CancelRequest(scenario.work[1]))
    /\ UNCHANGED <<driverVars, link, task, at, hostVars, stopping, exec>>

\* Nobody acts on the answer of these here.
SideReturns(c) ==
    /\ \E ans \in Answers : Returns(c, ans)
    /\ UNCHANGED <<scenario, journal, srv, prompts, boots, task, at, hostVars, side, stopping,
                   exec>>

LinkInit ==
    /\ DriverInit
    /\ link = Fresh(0) /\ inbox = <<>> /\ calls = [c \in Callers |-> NoCall]
    /\ task = [c \in {"worker", "sweep"} |-> [ph |-> "idle", again |-> FALSE, req |-> NoReq]]
    /\ at = [i |-> 1, ev |-> NoEvent, reminded |-> FALSE]
    /\ cursor = 0 /\ pending = 0 /\ tools = [guard |-> {}, results |-> {}]
    /\ mail = [m \in DOMAIN scenario.op |-> [st |-> "queued", a |-> 0]]
    /\ outcome = [i \in 1..Len(scenario.work) |-> ""]
    /\ side = scenario.side /\ stopping = FALSE /\ exec = 0
    /\ told = {} /\ log = <<>> /\ applied = <<>>

Driving == DriverNext /\ UNCHANGED linkVars

Next ==
    \/ Driving
    \/ \E i \in 1..Len(inbox) : Serve(i)
    \/ \E by \in {"worker", "sweep"} : Ask(by) \/ Delivered1(by) \/ Rejoin(by)
    \/ SweepBegins \/ Attach \/ Readied \/ NextWork
    \/ Observe \/ Apply \/ Answer \/ HierarchyResulted \/ ToolResulted
    \/ ReportAccepted \/ ReportDiscarded
    \/ ObserveBreaks \/ Prepare \/ Publishes
    \/ Remember \/ Reminded \/ Deadline
    \/ StopBegins
    \/ \E c \in {"cancel", "stop"} : SideCall(c)
    \/ \E c \in {"cancel", "stop", "nobody"} : SideReturns(c)

\* The driver's own steps, the dispatcher and the host's tasks go on, and a call
\* returns when it is answered, its stream is gone or its time is up; reminders,
\* faults, cancellations and a second process may or may not happen.
Fairness ==
    /\ WF_vars((TurnBegins \/ TurnEnds \/ ImplicitReport) /\ UNCHANGED linkVars)
    /\ WF_vars((AgentReports \/ AgentCommands \/ AgentCalls) /\ UNCHANGED linkVars)
    /\ WF_vars(inbox # <<>> /\ Serve(1))
    /\ WF_vars(Ask("worker") \/ Delivered1("worker") \/ Rejoin("worker") \/ Attach \/ Readied)
    /\ WF_vars(Delivered1("sweep"))
    /\ \A c \in {"cancel", "stop", "nobody"} : WF_vars(SideReturns(c))

Spec == LinkInit /\ [][Next]_vars /\ Fairness

-----------------------------------------------------------------------------
(* Properties.                                                             *)

\* Once the host was told that an attempt was accepted, an instance that can
\* answer says so for ever, in this process and in one started again from its
\* journal (deliver answers only after commitPending synced the record).
AcceptedNeverDenied ==
    srv.started => \A t \in told : AcceptanceOf(srv, t.m, t.a) = "accepted"

\* A process prompts the agent with a message at most once, whatever is lost,
\* late, delivered under a second attempt or redelivered at the start.
InjectedOnce ==
    \A i, k \in 1..Len(prompts) :
        i < k /\ prompts[i].m = prompts[k].m => prompts[i].boot # prompts[k].boot

\* A number names one event for ever: what the host is done with under a number
\* is what every later process shows under it, and an executor is done with the
\* numbers one after the other.  And it is done with a command only when the
\* driver holds its result: a cursor that moved on never leaves an agent waiting
\* for an answer nobody will send.  A hierarchy result survives the process, a
\* tool result does not.
ConsumedStands ==
    /\ \A i, k \in 1..Len(log) : log[i].n = log[k].n => log[i].e = log[k].e
    /\ \A i \in 1..Len(log) : \A e \in ToSet(srv.events) : e.n = log[i].n => e = log[i].e
    /\ \A i \in 1..(Len(log) - 1) :
          log[i].exec = log[i + 1].exec => log[i + 1].n = log[i].n + 1
    /\ srv.started => \A i \in 1..Len(log) :
          /\ log[i].e.kind = "hier" => \E r \in srv.hres : r.q = log[i].e.x
          /\ log[i].e.kind = "tool" /\ log[i].exec = boots => \E r \in srv.tterm : r.q = log[i].e.x

\* A message the host was told is accepted is put to the agent by a process that
\* lives, whatever other turns do, unless the journal is unreadable, the start
\* failed part-way, the instance stops or needs recovery, the agent is held by a
\* tool call whose result the host gave up on, or a process started over more
\* undelivered messages than it schedules (deliver, "replayed") left this one out.
Prompted(m) == \E i \in 1..Len(prompts) : prompts[i].m = m
OutOfReach(m) ==
    \/ ~srv.up \/ ~Readable(journal) \/ m \in srv.left
    \/ srv.started /\ (srv.stopped \/ srv.recover \/ srv.awaits # "" \/ Unannounced(srv) # <<>>)
AcceptedIsPrompted ==
    \A m \in {"m1", "m2"} :
        (mail[m].st = "accepted" /\ Operation(m) # "") ~> (Prompted(m) \/ OutOfReach(m))
=============================================================================
