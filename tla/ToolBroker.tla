----------------------------- MODULE ToolBroker -----------------------------
(***************************************************************************)
(* The tool broker of a host (LocalToolBroker): the driver's tool calls,   *)
(* the deadline task each call leaves behind, the cancellation of an       *)
(* operation's tools, and the task of each provider stream.  Every step is *)
(* what happens between two awaits on the Store or on a timer, so a task   *)
(* acts on the snapshot and on the provider it read earlier.  Calls of an  *)
(* operation follow one another (its worker awaits each result); the tasks *)
(* they started may go on.                                                 *)
(***************************************************************************)
EXTENDS ToolInvocation, ToolProvider, TLC

VARIABLES
  call,    \* the tool call in progress
  calls,   \* tool calls so far
  timers,  \* the deadline task of each call
  cancel,  \* the cancellation in progress
  streams, \* the task of each provider connection
  route    \* the connection in the providers map, 0 for none

system == <<epoch, op, authorized, link, inv, late, ledger, approval, lapsed, intents,
            down, up, sdk, ran, faults, call, calls, timers, cancel, streams, route>>
vars == <<system, scenario>>

MaxCalls == scenario.calls     \* bound: tool calls explored
MaxEpochs == scenario.epochs   \* bound: tenures explored
MaxCancels == scenario.cancels \* bound: cancellation requests explored

DriverEpoch == 1   \* the tenure that launched the operation's driver

NoCall == [pc |-> "idle"]
NoTimer == [pc |-> "off"]
NoCancel(n) == [pc |-> "idle", n |-> n]
NoStream(e) == [pc |-> "off", epoch |-> e]

Init ==
  /\ ToolInit
  /\ ApprovalInit
  /\ ProviderInit
  /\ call = NoCall
  /\ calls = 0
  /\ timers = [n \in 1..MaxCalls |-> NoTimer]
  /\ cancel = NoCancel(0)
  /\ streams = [c \in Conns |-> NoStream(0)]
  /\ route = 0

-----------------------------------------------------------------------------
(* Helpers of all tasks. *)

\* The provider a task acts for: the routed one, or one made up from the
\* snapshot, with a channel that is closed (recovery_provider).
Via(s) ==
  IF route # 0 THEN [conn |-> route, epoch |-> streams[route].epoch, routed |-> TRUE]
  ELSE [conn |-> s.conn, epoch |-> epoch, routed |-> FALSE]

Reachable(via) == via.routed /\ down[via.conn].open

Sent(via, f) == [down EXCEPT ![via.conn].frames = Append(@, f)]

Route == [conn |-> route, epoch |-> streams[route].epoch, routed |-> TRUE]

\* A route whose channel is closed is passed over.
Dispatchable == route # 0 /\ down[route].open

BrokerCommand(via, r, s, kind, what) == Command("broker", r, s, via.conn, via.epoch, kind, what)

MutSettlement(via, r, s, failure) == BrokerCommand(via, r, s, "fail", failure)

\* What settles an invocation that did not answer: its effect is uncertain
\* once an unsafe handler may have run, otherwise it failed.
Settlement(via, r, s, failure) ==
  IF s.phase = "started" /\ Unsafe
  THEN BrokerCommand(via, r, s, "uncertain", None)
  ELSE BrokerCommand(via, r, s, "fail", failure)

InvocationFrame(r, s) == Frame("invocation", r, s.seq)
CancellationFrame(r, s) == Frame("cancellation", r, s.cseq)
Ack(kind, r, s) == Frame(kind, r, s.seq)

-----------------------------------------------------------------------------
(* Tool calls: handle_command. *)

Answer(out) == call' = [pc |-> "answered", r |-> call.r, out |-> out]

\* The result is there; the intent of an approved call is still to be finished.
Conclude(out) ==
  IF scenario.approval
  THEN call' = [pc |-> "finish", r |-> call.r, epoch |-> call.epoch, out |-> out]
  ELSE Answer(out)

\* The invocation, the route, the intent and the grant are read.
Call(r) ==
  /\ call.pc \in {"idle", "answered"}
  /\ calls < MaxCalls
  /\ calls' = calls + 1
  /\ LET read == [pc |-> IF scenario.approval THEN "read" ELSE "approved", r |-> r,
                  epoch |-> DriverEpoch, snap |-> inv[r], rev |-> approval.rev]
     IN \/ /\ scenario.approval
           /\ ~Dispatchable
           /\ call' = [pc |-> "answered", r |-> r, out |-> "unavailable"]
        \/ /\ scenario.approval => Dispatchable
           /\ call' = read
  /\ UNCHANGED <<epoch, op, authorized, tools, late, approvals, provider,
                 timers, cancel, streams, route>>

\* A use of the grant is consumed, unless this request has its intent.
ConsumeStep ==
  /\ call.pc = "read"
  /\ IF intents[call.r] # None
     THEN /\ call' = [call EXCEPT !.pc = "approved"]
          /\ UNCHANGED approvals
     ELSE IF Consumable(call.r, call.epoch, call.rev)
     THEN /\ ConsumeApprovalGrant(call.r)
          /\ call' = [call EXCEPT !.pc = "approved"]
     ELSE /\ Answer("denied")
          /\ UNCHANGED approvals
  /\ UNCHANGED <<epoch, op, authorized, tools, late, provider,
                 calls, timers, cancel, streams, route>>

Awaiting(s) == [pc |-> "await", r |-> call.r, epoch |-> call.epoch, snap |-> s]

\* schedule_deadline
Scheduled(s) ==
  IF Settled(s) THEN timers
  ELSE [timers EXCEPT ![calls] = [pc |-> "sleep", r |-> call.r]]

\* A repeated call waits for the invocation it finds.
Rejoin ==
  /\ call.pc = "approved"
  /\ call.snap # None
  /\ timers' = Scheduled(call.snap)
  /\ call' = Awaiting(call.snap)
  /\ UNCHANGED <<epoch, op, authorized, tools, late, approvals, provider,
                 calls, cancel, streams, route>>

\* The provider is chosen; without one the call ends here, and so it leaves
\* a consumed intent reserved.
Choose ==
  /\ call.pc = "approved"
  /\ call.snap = None
  /\ IF Dispatchable
     THEN call' = [pc |-> "chosen", r |-> call.r, epoch |-> call.epoch, via |-> Route]
     ELSE Answer("unavailable")
  /\ UNCHANGED <<epoch, op, authorized, tools, late, approvals, provider,
                 calls, timers, cancel, streams, route>>

Reserve ==
  /\ call.pc = "chosen"
  /\ IF Reservable(call.r, call.epoch)
     THEN /\ ReserveToolInvocation(call.r, call.epoch)
          /\ timers' = Scheduled(ReservedBy(call.epoch))
          /\ call' = [pc |-> "send", r |-> call.r, epoch |-> call.epoch, via |-> call.via,
                      snap |-> ReservedBy(call.epoch)]
     ELSE /\ Answer("denied")
          /\ UNCHANGED <<tools, timers>>
  /\ UNCHANGED <<epoch, op, authorized, late, approvals, provider,
                 calls, cancel, streams, route>>

\* The frame goes to the provider chosen before.
Dispatch ==
  /\ call.pc = "send"
  /\ IF Reachable(call.via)
     THEN /\ down' = Sent(call.via, InvocationFrame(call.r, call.snap))
          /\ call' = Awaiting(call.snap)
     ELSE /\ call' = [call EXCEPT !.pc = "unsent"]
          /\ UNCHANGED down
  /\ UNCHANGED <<epoch, op, authorized, tools, late, approvals, up, sdk, ran, faults,
                 calls, timers, cancel, streams, route>>

\* It could not be sent: the invocation fails, if the Store still agrees.
Unsent ==
  /\ call.pc = "unsent"
  /\ TransitionTool(BrokerCommand(call.via, call.r, call.snap, "fail", "unavailable"))
  /\ Conclude("capacity")
  /\ UNCHANGED <<epoch, op, authorized, late, approvals, provider,
                 calls, timers, cancel, streams, route>>

\* await_terminal: the snapshot is loaded again.
Poll ==
  /\ call.pc = "await"
  /\ ~Settled(call.snap)
  /\ inv[call.r] # call.snap
  /\ call' = [call EXCEPT !.snap = inv[call.r]]
  /\ UNCHANGED <<epoch, op, authorized, tools, late, approvals, provider,
                 calls, timers, cancel, streams, route>>

\* At the deadline the call settles the invocation itself or gives up.
CallTimesOut ==
  /\ call.pc = "await"
  /\ ~Settled(call.snap)
  /\ call.r \in late
  /\ LET c == Settlement(Via(call.snap), call.r, call.snap, "timedOut")
     IN /\ TransitionTool(c)
        /\ IF Result(c) # None
           THEN call' = [call EXCEPT !.snap = Result(c)]
           ELSE Conclude("timeout")
  /\ UNCHANGED <<epoch, op, authorized, late, approvals, provider,
                 calls, timers, cancel, streams, route>>

Outcome(s) ==
  CASE s.phase = "completed" -> "success"
    [] s.phase = "failed" -> IF s.term = "unsure" THEN "unsure" ELSE "failure"
    [] s.phase = "uncertain" -> "uncertain"

AwaitEnds ==
  /\ call.pc = "await"
  /\ Settled(call.snap)
  /\ Conclude(Outcome(call.snap))
  /\ UNCHANGED <<epoch, op, authorized, tools, late, approvals, provider,
                 calls, timers, cancel, streams, route>>

MutFinishPhase(out) ==
  CASE out = "success" -> "succeeded"
    [] out = "uncertain" -> "uncertain"
    [] OTHER -> "failed"

\* finish_approval_effect: an intent someone else finished is left alone.
FinishPhase(out) ==
  CASE out = "success" -> "succeeded"
    [] out \in {"failure", "capacity"} -> "failed"
    [] out \in {"uncertain", "unsure", "timeout"} -> "uncertain"

LoadIntent ==
  /\ call.pc = "finish"
  /\ IF intents[call.r].phase = "reserved"
     THEN call' = [call EXCEPT !.pc = "finishing"]
     ELSE Answer(call.out)
  /\ UNCHANGED <<epoch, op, authorized, tools, late, approvals, provider,
                 calls, timers, cancel, streams, route>>

\* An error of the Store becomes the answer.
FinishCall ==
  /\ call.pc = "finishing"
  /\ IF Finishable(call.r, call.epoch, FinishPhase(call.out))
     THEN /\ Answer(call.out)
          /\ intents' = Finished(call.r, call.epoch, FinishPhase(call.out))
     ELSE /\ Answer("error")
          /\ UNCHANGED intents
  /\ UNCHANGED <<epoch, op, authorized, tools, late, approval, lapsed, provider,
                 calls, timers, cancel, streams, route>>

-----------------------------------------------------------------------------
(* Deadline tasks: schedule_deadline. *)

SetTimer(n, t) == timers' = [timers EXCEPT ![n] = t]

\* The deadline passes; the snapshot and the provider are read once.
TimerFires(n) ==
  /\ timers[n].pc = "sleep"
  /\ timers[n].r \in late
  /\ LET r == timers[n].r
     IN SetTimer(n, IF Settled(inv[r]) THEN NoTimer
                    ELSE [pc |-> IF Cooperative /\ inv[r].cancel = None THEN "cancel" ELSE "settle",
                          r |-> r, snap |-> inv[r], via |-> Via(inv[r])])
  /\ UNCHANGED <<epoch, op, authorized, tools, late, approvals, provider,
                 call, calls, cancel, streams, route>>

\* A cooperative handler is asked to stop and given a moment to do so.
TimerCancels(n) ==
  /\ timers[n].pc = "cancel"
  /\ LET t == timers[n]
         c == BrokerCommand(t.via, t.r, t.snap, "cancel", "deadline")
     IN /\ TransitionTool(c)
        /\ IF Result(c) = None
           THEN /\ SetTimer(n, [t EXCEPT !.pc = "settle"])
                /\ UNCHANGED down
           ELSE /\ SetTimer(n, [t EXCEPT !.pc = "grace"])
                /\ down' = IF Reachable(t.via)
                           THEN Sent(t.via, CancellationFrame(t.r, Result(c))) ELSE down
  /\ UNCHANGED <<epoch, op, authorized, late, approvals, up, sdk, ran, faults,
                 call, calls, cancel, streams, route>>

TimerGrace(n) ==
  /\ timers[n].pc = "grace"
  /\ UNCHANGED tools
  /\ LET t == timers[n]
     IN IF Settled(inv[t.r])
        THEN SetTimer(n, NoTimer) /\ Reconcile(t.via.epoch)
        ELSE SetTimer(n, [t EXCEPT !.pc = "settle", !.snap = inv[t.r]]) /\ UNCHANGED intents
  /\ UNCHANGED <<epoch, op, authorized, late, approval, lapsed, provider,
                 call, calls, cancel, streams, route>>

\* One attempt, whatever the Store answers.
TimerSettles(n) ==
  /\ timers[n].pc = "settle"
  /\ LET t == timers[n]
     IN /\ TransitionTool(Settlement(t.via, t.r, t.snap, "timedOut"))
        /\ Reconcile(t.via.epoch)
  /\ SetTimer(n, NoTimer)
  /\ UNCHANGED <<epoch, op, authorized, late, approval, lapsed, provider,
                 call, calls, cancel, streams, route>>

-----------------------------------------------------------------------------
(* Cancelling an operation's tools: cancel_subtree, cancel_operations. *)

CancelIds == {"user", "again"}   \* request ids; either may be used again

\* The operation is asked to stop before its tools are.
CancelSubtree(id) ==
  /\ cancel.pc = "idle"
  /\ cancel.n < MaxCancels
  /\ op' = IF Live THEN "cancelling" ELSE op
  /\ cancel' = [pc |-> "list", n |-> cancel.n + 1, id |-> id]
  /\ UNCHANGED <<epoch, authorized, tools, late, approvals, provider,
                 call, calls, timers, streams, route>>

CancelNext(todo) ==
  [pc |-> "next", n |-> cancel.n, id |-> cancel.id, epoch |-> cancel.epoch, todo |-> todo]

CancelList ==
  /\ cancel.pc = "list"
  /\ cancel' = [pc |-> "next", n |-> cancel.n, id |-> cancel.id, epoch |-> epoch,
                todo |-> {[r |-> r, snap |-> inv[r]] : r \in Recoverable}]
  /\ UNCHANGED <<epoch, op, authorized, tools, late, approvals, provider,
                 call, calls, timers, streams, route>>

\* After each invocation the approval effects are reconciled; an error ends
\* the cancellation, and the caller is told that cleanup is required.
CancelGoesOn(ok, todo) ==
  IF ok
  THEN /\ Reconcile(cancel.epoch)
       /\ cancel' = IF Reconciles(cancel.epoch, inv') /\ todo # {}
                    THEN CancelNext(todo) ELSE NoCancel(cancel.n)
  ELSE /\ UNCHANGED intents
       /\ cancel' = NoCancel(cancel.n)

CancelNothing ==
  /\ cancel.pc = "next"
  /\ cancel.todo = {}
  /\ cancel' = NoCancel(cancel.n)
  /\ UNCHANGED <<epoch, op, authorized, tools, late, approvals, provider,
                 call, calls, timers, streams, route>>

\* cancel_one for a tool that cannot be cancelled: it fails if it was not
\* started, it is uncertain if it is unsafe, and is left alone otherwise.
CancelUnsupported ==
  /\ cancel.pc = "next"
  /\ ~Cooperative
  /\ \E e \in cancel.todo :
       LET c == IF e.snap.phase = "reserved"
                THEN BrokerCommand(Via(e.snap), e.r, e.snap, "fail", "cancelled")
                ELSE BrokerCommand(Via(e.snap), e.r, e.snap, "uncertain", None)
           acts == e.snap.phase = "reserved" \/ Unsafe
       IN /\ IF acts THEN TransitionTool(c) ELSE UNCHANGED tools
          /\ CancelGoesOn(acts => Result(c) # None, cancel.todo \ {e})
  /\ UNCHANGED <<epoch, op, authorized, late, approval, lapsed, provider,
                 call, calls, timers, streams, route>>

\* cancel_one for a cooperative tool: the cancellation is recorded, unless
\* it is there already, and sent; one under another id is an error.
CancelCooperative ==
  /\ cancel.pc = "next"
  /\ Cooperative
  /\ \E e \in cancel.todo :
       LET via == Via(e.snap)
           c == BrokerCommand(via, e.r, e.snap, "cancel", cancel.id)
           out == CASE e.snap.cancel = cancel.id -> e.snap
                    [] e.snap.cancel = None -> Result(c)
                    [] OTHER -> None
       IN /\ IF e.snap.cancel = None THEN TransitionTool(c) ELSE UNCHANGED tools
          /\ down' = IF out # None /\ Reachable(via)
                     THEN Sent(via, CancellationFrame(e.r, out)) ELSE down
          /\ cancel' = IF out = None THEN NoCancel(cancel.n)
                       ELSE [CancelNext(cancel.todo \ {e}) EXCEPT
                               !.pc = IF Reachable(via) THEN "grace" ELSE "classify"]
                            @@ [r |-> e.r, via |-> via, snap |-> out]
  /\ UNCHANGED <<epoch, op, authorized, late, approvals, up, sdk, ran, faults,
                 call, calls, timers, streams, route>>

\* The grace is over: the invocation is read again.
CancelGrace ==
  /\ cancel.pc = "grace"
  /\ UNCHANGED tools
  /\ IF Settled(inv[cancel.r])
     THEN CancelGoesOn(TRUE, cancel.todo)
     ELSE /\ cancel' = [cancel EXCEPT !.pc = "classify", !.snap = inv[cancel.r]]
          /\ UNCHANGED intents
  /\ UNCHANGED <<epoch, op, authorized, late, approval, lapsed, provider,
                 call, calls, timers, streams, route>>

\* classify_after_cancel
CancelClassifies ==
  /\ cancel.pc = "classify"
  /\ LET c == Settlement(cancel.via, cancel.r, cancel.snap, "cancelled")
         out == Result(c)
     IN /\ TransitionTool(c)
        /\ down' = IF out # None /\ Terminal(out) /\ Reachable(cancel.via)
                   THEN Sent(cancel.via, Ack("terminalAck", cancel.r, out)) ELSE down
        /\ CancelGoesOn(out # None, cancel.todo)
  /\ UNCHANGED <<epoch, op, authorized, late, approval, lapsed, up, sdk, ran, faults,
                 call, calls, timers, streams, route>>

-----------------------------------------------------------------------------
(* Provider streams: provide_inner. *)

SetStream(g, s) == streams' = [streams EXCEPT ![g] = s]

\* The connect frame is accepted.
Admit ==
  /\ sdk.at = 0
  /\ ~sdk.dead
  /\ link.conn < MaxConns
  /\ Connectable(sdk.watermark)
  /\ ConnectToolProvider(sdk.watermark)
  /\ LET g == link.conn + 1
     IN /\ SetStream(g, [pc |-> "admitted", epoch |-> epoch, after |-> sdk.watermark])
        /\ down' = [down EXCEPT ![g].open = TRUE]
        /\ sdk' = [sdk EXCEPT !.at = g]
  /\ UNCHANGED <<epoch, op, authorized, late, approvals, up, ran, faults,
                 call, calls, timers, cancel, route>>

\* install_provider_route: routes with a closed channel are dropped, a
\* newer connection is not replaced.
InstallRoute(g) ==
  /\ streams[g].pc = "admitted"
  /\ LET current == IF Dispatchable THEN route ELSE 0
     IN IF current > g
        THEN /\ SetStream(g, NoStream(streams[g].epoch))
             /\ down' = [down EXCEPT ![g].open = FALSE]
             /\ sdk' = IF sdk.at = g THEN Detached ELSE sdk
             /\ route' = current
        ELSE /\ SetStream(g, [streams[g] EXCEPT !.pc = "routed"])
             /\ route' = g
             /\ UNCHANGED <<down, sdk>>
  /\ UNCHANGED <<epoch, op, authorized, tools, late, approvals, up, ran, faults,
                 call, calls, timers, cancel>>

\* The caller left before it was answered: the request's future is dropped
\* where it is, and its route stays.
AdmissionDropped(g) ==
  /\ streams[g].pc \in {"admitted", "routed"}
  /\ sdk.at # g
  /\ SetStream(g, NoStream(streams[g].epoch))
  /\ down' = [down EXCEPT ![g] = [open |-> FALSE, frames |-> <<>>]]
  /\ UNCHANGED <<epoch, op, authorized, tools, late, approvals, up, sdk, ran, faults,
                 call, calls, timers, cancel, route>>

MutDisposition(s) ==
  CASE Terminal(s) -> "terminal"
    [] s.phase = "uncertain" -> "suppress"
    [] ~Settled(s) /\ (~Unsafe \/ s.phase = "started") -> "dispatch"
    [] OTHER -> "suppress"

\* recovery_disposition: an unsafe invocation is never dispatched again.
Disposition(s) ==
  CASE Terminal(s) -> "terminal"
    [] s.phase = "uncertain" -> "suppress"
    [] ~Settled(s) /\ ~Unsafe -> "dispatch"
    [] s.phase = "started" /\ Unsafe -> "mark"
    [] s.phase = "reserved" /\ Unsafe -> "suppress"

Doubtful(rs) == {[r |-> r, snap |-> inv[r]] : r \in {q \in rs : Disposition(inv[q]) = "mark"}}

\* replay_provider_frames: what a connection is told again, in order.
ReplayFrames(rs, after) ==
  LET told == {r \in rs : Disposition(inv[r]) \in {"dispatch", "terminal"}}
      over == {r \in told : Terminal(inv[r]) /\ inv[r].seq > after}
      frames ==
        {[at |-> 2 * inv[r].seq, frame |-> InvocationFrame(r, inv[r])] :
            r \in {q \in told : Disposition(inv[q]) = "dispatch"}}
        \cup {[at |-> IF inv[r].cancel = None THEN 2 * inv[r].seq ELSE 2 * inv[r].cseq + 1,
               frame |-> Ack("terminalAck", r, inv[r])] : r \in over}
        \cup {[at |-> 2 * inv[r].cseq, frame |-> CancellationFrame(r, inv[r])] :
            r \in {q \in told : inv[q].cancel # None /\ inv[q].cseq > after}}
      sorted == CHOOSE list \in [1..Cardinality(frames) -> frames] :
                  \A i, j \in DOMAIN list :
                    i < j => list[i] # list[j] /\ list[i].at <= list[j].at
  IN [i \in 1..Len(sorted) |-> sorted[i].frame]

\* The replay is listed and the answer to the connect frame goes out.
ListReplay(g) ==
  /\ streams[g].pc = "routed"
  /\ LET rs == ProviderReplay(streams[g].after)
     IN SetStream(g, [pc |-> "replay", epoch |-> streams[g].epoch, after |-> streams[g].after,
                      marks |-> Doubtful(rs), frames |-> ReplayFrames(rs, streams[g].after)])
  /\ UNCHANGED <<epoch, op, authorized, tools, late, approvals, provider,
                 call, calls, timers, cancel, route>>

Ending(g) == [pc |-> "ending", epoch |-> streams[g].epoch]

\* The marks are made in dispatch order.
Mark(g) ==
  CHOOSE e \in streams[g].marks : \A o \in streams[g].marks : e.snap.seq <= o.snap.seq

MarkCommand(g) ==
  Command("broker", Mark(g).r, Mark(g).snap, g, streams[g].epoch, "uncertain", None)

ReplayMarks(g) ==
  /\ streams[g].pc = "replay"
  /\ streams[g].marks # {}
  /\ TransitionTool(MarkCommand(g))
  /\ SetStream(g, IF Result(MarkCommand(g)) = None THEN Ending(g)
                  ELSE [streams[g] EXCEPT !.marks = @ \ {Mark(g)}])
  /\ UNCHANGED <<epoch, op, authorized, late, approvals, provider,
                 call, calls, timers, cancel, route>>

ReplaySends(g) ==
  /\ streams[g].pc = "replay"
  /\ streams[g].marks = {}
  /\ streams[g].frames # <<>>
  /\ IF down[g].open
     THEN /\ down' = [down EXCEPT ![g].frames = Append(@, Head(streams[g].frames))]
          /\ SetStream(g, [streams[g] EXCEPT !.frames = Tail(@)])
     ELSE /\ SetStream(g, Ending(g))
          /\ UNCHANGED down
  /\ UNCHANGED <<epoch, op, authorized, tools, late, approvals, up, sdk, ran, faults,
                 call, calls, timers, cancel, route>>

ReplayEnds(g) ==
  /\ streams[g].pc = "replay"
  /\ streams[g].marks = {}
  /\ streams[g].frames = <<>>
  /\ UNCHANGED tools
  /\ Reconcile(streams[g].epoch)
  /\ SetStream(g, IF Reconciles(streams[g].epoch, inv)
                  THEN [pc |-> "open", epoch |-> streams[g].epoch, after |-> streams[g].after,
                        started |-> {}, over |-> {}]
                  ELSE Ending(g))
  /\ UNCHANGED <<epoch, op, authorized, late, approval, lapsed, provider,
                 call, calls, timers, cancel, route>>

\* ToolProviderStreamValidator: nothing at or below the watermark, no start
\* after the end and no end without a start on this stream.
Wellformed(st, f) ==
  /\ inv[f.r].seq > st.after
  /\ IF f.kind = "started" THEN f.r \notin st.over ELSE f.r \in st.started

Accepted(st, f) ==
  IF f.kind = "started" THEN [st EXCEPT !.started = @ \cup {f.r}]
  ELSE [st EXCEPT !.over = @ \cup {f.r}]

AckKind(f) == IF f.kind = "started" THEN "startedAck" ELSE "terminalAck"

\* process_provider_frame, up to the Store call: what is recorded already is
\* acknowledged again.
Receive(g) ==
  /\ streams[g].pc = "open"
  /\ up[g] # <<>>
  /\ up' = [up EXCEPT ![g] = Tail(@)]
  /\ UNCHANGED tools
  /\ LET f == Head(up[g])
         s == inv[f.r]
         fits == Wellformed(streams[g], f) /\ s.conn = g
         known == IF f.kind = "started" THEN s.phase = "started" ELSE s.term = f.kind
     IN \/ /\ fits
           /\ known
           /\ down[g].open
           /\ down' = [down EXCEPT ![g].frames = Append(@, Ack(AckKind(f), f.r, s))]
           /\ SetStream(g, Accepted(streams[g], f))
           /\ Reconcile(streams[g].epoch)
        \/ /\ fits
           /\ ~known
           /\ f.kind = "started" \/ ~Terminal(s)
           /\ SetStream(g, [Accepted(streams[g], f) EXCEPT !.pc = "apply"] @@ [frame |-> f, snap |-> s])
           /\ UNCHANGED <<down, intents>>
        \/ /\ \/ ~fits
              \/ known /\ ~down[g].open
              \/ ~known /\ f.kind # "started" /\ Terminal(s)
           /\ SetStream(g, Ending(g))
           /\ UNCHANGED <<down, intents>>
  /\ UNCHANGED <<epoch, op, authorized, late, approval, lapsed, sdk, ran, faults,
                 call, calls, timers, cancel, route>>

FrameTransition(f) ==
  CASE f.kind = "started" -> "start" [] f.kind = "ok" -> "complete" [] OTHER -> "fail"

\* The Store call for the frame, and the acknowledgement.
Apply(g) ==
  /\ streams[g].pc = "apply"
  /\ LET f == streams[g].frame
         c == Command("provider", f.r, streams[g].snap, g, streams[g].epoch, FrameTransition(f),
                      IF f.kind = "started" THEN None ELSE f.kind)
         out == Result(c)
         acked == out # None /\ down[g].open
     IN /\ TransitionTool(c)
        /\ IF acked
           THEN /\ down' = [down EXCEPT ![g].frames = Append(@, Ack(AckKind(f), f.r, out))]
                /\ SetStream(g, [pc |-> "open", epoch |-> streams[g].epoch, after |-> streams[g].after,
                                 started |-> streams[g].started, over |-> streams[g].over])
                /\ Reconcile(streams[g].epoch)
           ELSE /\ SetStream(g, Ending(g))
                /\ UNCHANGED <<down, intents>>
  /\ UNCHANGED <<epoch, op, authorized, late, approval, lapsed, up, sdk, ran, faults,
                 call, calls, timers, cancel, route>>

\* The broker notices that the SDK left; frames still under way are lost.
StreamEnds(g) ==
  /\ streams[g].pc = "open"
  /\ sdk.at # g
  /\ up' = [up EXCEPT ![g] = <<>>]
  /\ SetStream(g, Ending(g))
  /\ UNCHANGED <<epoch, op, authorized, tools, late, approvals, down, sdk, ran, faults,
                 call, calls, timers, cancel, route>>

\* After the loop: started unsafe invocations are listed,
ListDoubtful(g) ==
  /\ streams[g].pc = "ending"
  /\ SetStream(g, [pc |-> "marking", epoch |-> streams[g].epoch,
                   marks |-> Doubtful({r \in Requests : inv[r] # None})])
  /\ UNCHANGED <<epoch, op, authorized, tools, late, approvals, provider,
                 call, calls, timers, cancel, route>>

\* marked uncertain, whatever the Store answers,
EndMarks(g) ==
  /\ streams[g].pc = "marking"
  /\ streams[g].marks # {}
  /\ TransitionTool(MarkCommand(g))
  /\ SetStream(g, [streams[g] EXCEPT !.marks = @ \ {Mark(g)}])
  /\ UNCHANGED <<epoch, op, authorized, late, approvals, provider,
                 call, calls, timers, cancel, route>>

\* and the approval effects are reconciled.  The route goes if it is still
\* this connection's.
StreamOver(g) ==
  /\ streams[g].pc = "marking"
  /\ streams[g].marks = {}
  /\ UNCHANGED tools
  /\ Reconcile(streams[g].epoch)
  /\ SetStream(g, NoStream(streams[g].epoch))
  /\ route' = IF route = g THEN 0 ELSE route
  /\ UNCHANGED <<epoch, op, authorized, late, approval, lapsed, provider,
                 call, calls, timers, cancel>>

\* A task that may still send on a connection keeps its response stream open.
Held(g) ==
  \/ streams[g].pc # "off"
  \/ route = g
  \/ call.pc \in {"chosen", "send", "unsent"} /\ call.via.conn = g
  \/ cancel.pc \in {"grace", "classify"} /\ cancel.via.routed /\ cancel.via.conn = g
  \/ \E n \in 1..MaxCalls : /\ timers[n].pc \in {"cancel", "grace", "settle"}
                            /\ timers[n].via.routed
                            /\ timers[n].via.conn = g

\* The SDK reads the end of the response stream and connects again.
EndOfStream ==
  /\ sdk.at # 0
  /\ ~Held(sdk.at)
  /\ Inbox = <<>>
  /\ down' = [down EXCEPT ![sdk.at].open = FALSE]
  /\ sdk' = Detached
  /\ UNCHANGED <<epoch, op, authorized, tools, late, approvals, up, ran, faults,
                 call, calls, timers, cancel, streams, route>>

\* The broker's end of the channel closes once the SDK has left.
ChannelCloses(g) ==
  /\ down[g].open
  /\ sdk.at # g
  /\ streams[g].pc \notin {"admitted", "routed"}
  /\ down' = [down EXCEPT ![g] = [open |-> FALSE, frames |-> <<>>]]
  /\ UNCHANGED <<epoch, op, authorized, tools, late, approvals, up, sdk, ran, faults,
                 call, calls, timers, cancel, streams, route>>

-----------------------------------------------------------------------------
(* Everything around the broker. *)

\* A step of the approval of the operation's tool: by the driver, the
\* consumer, or the clock.
ApprovalStep ==
  /\ scenario.approval
  /\ \/ RequestApproval
     \/ ApproveRequest
     \/ \E status \in {"denied", "expired"} : DecideTerminal(status)
     \/ scenario.revokes /\ RevokeApprovalGrant
     \/ /\ scenario.revokes
        /\ ~lapsed
        /\ approval.status \in {"pending", "granted"}
        /\ lapsed' = TRUE
        /\ UNCHANGED <<approval, intents>>
  /\ UNCHANGED <<epoch, op, authorized, tools, late, provider,
                 call, calls, timers, cancel, streams, route>>

\* The deadline of an invocation passes; of a settled one it is not noticed.
Late(r) ==
  /\ Open(r)
  /\ r \notin late
  /\ late' = late \cup {r}
  /\ UNCHANGED <<epoch, op, authorized, tools, approvals, provider,
                 call, calls, timers, cancel, streams, route>>

\* The operation waits or goes on; it ends between two tool calls.
OperationMoves ==
  /\ scenario.moves
  /\ \/ op = "running" /\ op' = "waiting"
     \/ op = "waiting" /\ op' = "running"
     \/ op # "ended" /\ op' = "ended" /\ call.pc \in {"idle", "answered"}
  /\ UNCHANGED <<epoch, authorized, tools, late, approvals, provider,
                 call, calls, timers, cancel, streams, route>>

RevokeAuthority ==
  /\ scenario.revokes
  /\ authorized
  /\ authorized' = FALSE
  /\ UNCHANGED <<epoch, op, tools, late, approvals, provider,
                 call, calls, timers, cancel, streams, route>>

\* The lease lapses and the same host acquires the session again.
EpochLapse ==
  /\ epoch < MaxEpochs
  /\ epoch' = epoch + 1
  /\ UNCHANGED <<op, authorized, tools, late, approvals, provider,
                 call, calls, timers, cancel, streams, route>>

\* The host dies with its tasks, channels and drivers, so the operation
\* makes no more calls; the next one opens the store and its tenure begins.
Crash ==
  /\ epoch < MaxEpochs
  /\ AuditTools /\ AuditApproval
  /\ epoch' = epoch + 1
  /\ call' = NoCall
  /\ calls' = MaxCalls
  /\ timers' = [n \in 1..MaxCalls |-> NoTimer]
  /\ cancel' = NoCancel(cancel.n)
  /\ streams' = [g \in Conns |-> NoStream(0)]
  /\ route' = 0
  /\ down' = [g \in Conns |-> [open |-> FALSE, frames |-> <<>>]]
  /\ up' = [g \in Conns |-> <<>>]
  /\ sdk' = Detached
  /\ UNCHANGED <<op, authorized, tools, late, approvals, ran, faults>>

\* The SDK reads frames once its connect frame was answered.
ProviderListens ==
  /\ sdk.at # 0
  /\ streams[sdk.at].pc \notin {"admitted", "routed"}
  /\ ProviderReads
  /\ UNCHANGED <<epoch, op, authorized, tools, late, approvals,
                 call, calls, timers, cancel, streams, route>>

\* Handlers end, the connection breaks, the consumer's process restarts.
ProviderStep ==
  /\ \/ \E r \in Requests, outcome \in scenario.outcomes : HandlerEnds(r, outcome)
     \/ Disconnect
     \/ Restart
  /\ UNCHANGED <<epoch, op, authorized, tools, late, approvals,
                 call, calls, timers, cancel, streams, route>>

CallStep ==
  \/ ConsumeStep
  \/ Rejoin
  \/ Choose
  \/ Reserve
  \/ Dispatch
  \/ Unsent
  \/ Poll
  \/ CallTimesOut
  \/ AwaitEnds
  \/ LoadIntent
  \/ FinishCall

TimerStep(n) ==
  \/ TimerFires(n)
  \/ TimerCancels(n)
  \/ TimerGrace(n)
  \/ TimerSettles(n)

CancelStep ==
  \/ CancelList
  \/ CancelNothing
  \/ CancelUnsupported
  \/ CancelCooperative
  \/ CancelGrace
  \/ CancelClassifies

StreamStep(g) ==
  \/ InstallRoute(g)
  \/ AdmissionDropped(g)
  \/ ListReplay(g)
  \/ ReplayMarks(g)
  \/ ReplaySends(g)
  \/ ReplayEnds(g)
  \/ Receive(g)
  \/ Apply(g)
  \/ StreamEnds(g)
  \/ ListDoubtful(g)
  \/ EndMarks(g)
  \/ StreamOver(g)
  \/ ChannelCloses(g)

Next ==
  /\ \/ \E r \in scenario.requests : Call(r)
     \/ \E r \in Requests : Late(r)
     \/ CallStep
     \/ \E n \in 1..MaxCalls : TimerStep(n)
     \/ \E id \in CancelIds : CancelSubtree(id)
     \/ CancelStep
     \/ Admit
     \/ \E g \in Conns : StreamStep(g)
     \/ EndOfStream
     \/ ProviderListens
     \/ ProviderStep
     \/ ApprovalStep
     \/ OperationMoves
     \/ RevokeAuthority
     \/ EpochLapse
     \/ Crash
  /\ UNCHANGED scenario

-----------------------------------------------------------------------------
(* Properties. *)

\* The handler of a transactional, non-idempotent or unknown tool runs at
\* most once for a request, over reconnects of the provider, restarts of its
\* process, crashes of the host and repeated calls.
UnsafeOnce == Unsafe => \A r \in Requests : ran[r] <= 1

\* What the broker records or answers about an unsafe invocation is true: a
\* failure of the broker's own (timed out, cancelled, provider unavailable)
\* and an answer that allows a retry mean that the handler never ran, and a
\* success that it did.  Of any tool, what is recorded agrees so far that the
\* store passes the audit of its next start.
Truthful ==
  /\ AuditTools
  /\ Unsafe =>
       /\ \A r \in Requests : inv[r] # None /\ inv[r].term \in BrokerFailures => ran[r] = 0
       /\ call.pc = "answered" =>
            /\ call.out = "capacity" => ran[call.r] = 0
            /\ call.out = "success" => ran[call.r] = 1 /\ inv[call.r].phase = "completed"

\* The intent of an approved unsafe call agrees with its invocation, by
\* whichever of the call, the stream, the deadline and the cancellation it
\* was finished: it succeeded only if the invocation completed, and it
\* failed only if the invocation did, its provider being sure of that, or
\* the handler never ran.  The grant was used as often as there are intents,
\* so the store can be opened again.
ApprovalAgrees ==
  /\ AuditApproval
  /\ scenario.approval /\ Unsafe =>
       \A r \in Requests : intents[r] # None =>
         /\ intents[r].phase = "succeeded" => inv[r].phase = "completed"
         /\ intents[r].phase = "failed" =>
              \/ inv[r].phase = "failed" /\ inv[r].term # "unsure"
              \/ (ran[r] = 0 /\ inv[r].phase = "reserved")

=============================================================================
