---------------------------- MODULE ToolProvider ----------------------------
(***************************************************************************)
(* The provider loop of the Python SDK (Tools.provide): one connection at  *)
(* a time, the frames it reads and writes, and the handlers it runs.  What *)
(* survives a reconnect is the watermark, the running handlers and the     *)
(* terminals not acknowledged yet; `pending' and `relays' belong to the    *)
(* connection.  A frame that does not fit raises an error that the         *)
(* reconnect loop does not catch, and provide() ends.                      *)
(***************************************************************************)
EXTENDS ToolInvocation

VARIABLES
  down,   \* frames on their way to the provider, per connection, and whether
          \* the broker's channel of that connection is still open
  up,     \* frames on their way to the broker, per connection
  sdk,    \* the state of provide()
  ran,    \* how often a handler was started for a request
  faults  \* disconnects and restarts so far

provider == <<down, up, sdk, ran, faults>>

MaxConns == scenario.conns     \* bound: connections explored
MaxFaults == scenario.faults   \* bound: disconnects and restarts explored
Conns == 1..MaxConns

\* provide() called anew with the watermark the consumer kept.
Fresh(watermark) ==
  [at |-> 0, dead |-> FALSE, watermark |-> watermark,
   ackable |-> {}, seen |-> {}, pending |-> {}, relays |-> {}, cancelled |-> {}, stopping |-> {},
   task |-> [r \in Requests |-> 0], terminal |-> [r \in Requests |-> None]]

ProviderInit ==
  /\ down = [c \in Conns |-> [open |-> FALSE, frames |-> <<>>]]
  /\ up = [c \in Conns |-> <<>>]
  /\ sdk = Fresh(0)
  /\ ran = [r \in Requests |-> 0]
  /\ faults = 0

Inbox == down[sdk.at].frames

Frame(kind, r, seq) == [kind |-> kind, r |-> r, seq |-> seq]

Send(frames, kind, r) == [frames EXCEPT ![sdk.at] = Append(@, [kind |-> kind, r |-> r])]

Take == down' = [down EXCEPT ![sdk.at].frames = Tail(@)]

\* The connection is gone: what was read or due on it is forgotten.
Detached == [sdk EXCEPT !.at = 0, !.pending = {}, !.relays = {}]

\* An error other than grpc.RpcError: provide() raises and its handlers are
\* cancelled.
Raise ==
  /\ sdk' = [Fresh(sdk.watermark) EXCEPT !.dead = TRUE]
  /\ UNCHANGED <<up, ran>>

\* advance_watermark
Advanced(s) ==
  LET reach == CHOOSE n \in 0..(link.next) :
                 /\ n >= s.watermark
                 /\ (s.watermark + 1)..n \subseteq s.ackable
                 /\ n + 1 \notin s.ackable
  IN [s EXCEPT !.watermark = reach, !.ackable = {n \in @ : n > reach}]

Acknowledge(s, seqs) == Advanced([s EXCEPT !.ackable = @ \cup {n \in seqs : n > s.watermark}])

\* An invocation is announced as started before its handler runs.
OnInvocation(f) ==
  IF f.seq \notin sdk.seen /\ f.seq <= sdk.watermark
  THEN Raise
  ELSE /\ sdk' = [sdk EXCEPT !.seen = @ \cup {f.seq}, !.pending = @ \cup {f.r}]
       /\ up' = Send(up, "started", f.r)
       /\ UNCHANGED ran

OnStartedAck(f) ==
  IF f.r \notin sdk.pending
  THEN Raise
  ELSE \/ /\ sdk.terminal[f.r] # None
          /\ up' = Send(up, sdk.terminal[f.r], f.r)
          /\ UNCHANGED <<sdk, ran>>
       \/ /\ sdk.terminal[f.r] = None
          /\ sdk.task[f.r] # 0
          /\ sdk' = [sdk EXCEPT !.relays = @ \cup {f.r}]
          /\ UNCHANGED <<up, ran>>
       \/ /\ sdk.terminal[f.r] = None
          /\ sdk.task[f.r] = 0
          /\ f.r \notin sdk.cancelled
          /\ sdk' = [sdk EXCEPT !.task[f.r] = sdk.at]
          /\ ran' = [ran EXCEPT ![f.r] = @ + 1]
          /\ UNCHANGED up

OnTerminalAck(f) ==
  IF sdk.terminal[f.r] = None
  THEN Raise
  ELSE /\ sdk' = Acknowledge([sdk EXCEPT
                   !.terminal[f.r] = None, !.task[f.r] = 0, !.pending = @ \ {f.r},
                   !.cancelled = @ \ {f.r}, !.relays = @ \ {f.r}, !.stopping = @ \ {f.r}], {f.seq})
       /\ UNCHANGED <<up, ran>>

\* A cancellation carries the time it was sent, so a repeated one never has
\* the bytes of the first and is a conflict.
OnCancellation(f) ==
  IF \/ f.seq \in sdk.seen
     \/ f.seq <= sdk.watermark
     \/ f.r \in sdk.cancelled
     \/ f.r \notin sdk.pending /\ sdk.terminal[f.r] = None
  THEN Raise
  ELSE LET s == Acknowledge([sdk EXCEPT !.seen = @ \cup {f.seq}, !.cancelled = @ \cup {f.r}],
                            {f.seq, inv[f.r].seq})
       IN \/ /\ sdk.task[f.r] # 0 \/ sdk.terminal[f.r] # None
             /\ sdk' = [s EXCEPT !.stopping = @ \cup {f.r}]
             /\ UNCHANGED <<up, ran>>
          \/ /\ sdk.task[f.r] = 0
             /\ sdk.terminal[f.r] = None
             /\ sdk' = [s EXCEPT !.terminal[f.r] = "stopped"]
             /\ up' = Send(up, "stopped", f.r)
             /\ UNCHANGED ran

ProviderReads ==
  /\ sdk.at # 0
  /\ Inbox # <<>>
  /\ Take
  /\ LET f == Head(Inbox)
     IN \/ f.kind = "invocation" /\ OnInvocation(f)
        \/ f.kind = "startedAck" /\ OnStartedAck(f)
        \/ f.kind = "terminalAck" /\ OnTerminalAck(f)
        \/ f.kind = "cancellation" /\ OnCancellation(f)
  /\ UNCHANGED faults

\* The handler ends; its terminal goes out on the connection it was started
\* on and through a relay of the current one.  The SDK is never unsure of
\* the effect; a provider without it may say so.
HandlerEnds(r, outcome) ==
  /\ sdk.task[r] # 0
  /\ sdk.terminal[r] = None
  /\ outcome = "stopped" => r \in sdk.stopping
  /\ sdk' = [sdk EXCEPT !.terminal[r] = outcome]
  /\ LET copies == (IF sdk.task[r] = sdk.at THEN <<[kind |-> outcome, r |-> r]>> ELSE <<>>)
                   \o (IF r \in sdk.relays THEN <<[kind |-> outcome, r |-> r]>> ELSE <<>>)
     IN up' = IF sdk.at = 0 THEN up ELSE [up EXCEPT ![sdk.at] = @ \o copies]
  /\ UNCHANGED <<down, ran, faults>>

\* The stream breaks, as the SDK sees it; the broker may notice later.
Disconnect ==
  /\ sdk.at # 0
  /\ faults < MaxFaults
  /\ faults' = faults + 1
  /\ sdk' = Detached
  /\ UNCHANGED <<down, up, ran>>

\* The consumer's process ends and provides the tools again, or calls
\* provide() again after it raised.
Restart ==
  /\ faults < MaxFaults
  /\ faults' = faults + 1
  /\ sdk' = Fresh(sdk.watermark)
  /\ UNCHANGED <<down, up, ran>>
=============================================================================
