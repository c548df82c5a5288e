------------------------- MODULE HubBroadcastProofs --------------------------
(* Theorems about HubBroadcast, for all connections, callers and capacities. *)
EXTENDS HubBroadcast, SequenceTheorems, TLAPS

\* The kinds of goroutines are disjoint.
LEMMA Kinds ==
    /\ \A c \in Conns : c \in Threads /\ c \notin Senders /\ c # Closer
    /\ \A s \in Servers : s \in Threads /\ s \in Senders /\ s \notin Callers /\ s # Closer
    /\ \A b \in Callers : b \in Threads /\ b \in Senders /\ b \notin Servers /\ b # Closer
    /\ Closer \in Threads /\ Closer \notin Senders /\ Closer \notin Conns
BY HubBroadcastAssumption DEF Threads, Senders

Steps == ConnSteps \cup ServerSteps \cup CallerSteps \cup CloserSteps

\* What the queue protocol relies on.
QInv == pc \in [Threads -> Steps] /\ QueueProtocol

\* The serve loops and the Sends keep the protocol (hub.go:75-106).
LEMMA ServeQInv ==
    ASSUME QInv,
           \/ \E s \in Servers : ServeStep(s)
           \/ \E t \in Senders : SendStep(t)
    PROVE  QInv'
<1> USE Kinds DEF QInv, QueueProtocol, Goto, At, Steps, ServerSteps, CallerSteps, SendSteps,
        Senders, hubVars, tableVars, clientVars
<1>1. ASSUME NEW s \in Servers, Take(s) PROVE QInv'
  BY <1>1 DEF Take
<1>2. ASSUME NEW s \in Servers, Leave(s) PROVE QInv'
  BY <1>2 DEF Leave
<1>3. ASSUME NEW s \in Servers, NEW c \in Conns, Visit(s, c) PROVE QInv'
  BY <1>3 DEF Visit
<1>4. ASSUME NEW s \in Servers, RangeEnd(s) PROVE QInv'
  BY <1>4 DEF RangeEnd
<1>5. ASSUME NEW t \in Senders, SendCheck(t) PROVE QInv'
  BY <1>5 DEF SendCheck, SendReturns
<1>6. ASSUME NEW t \in Senders, SendPut(t) PROVE QInv'
  BY <1>6 DEF SendPut, SendReturns
<1> QED
  BY <1>1, <1>2, <1>3, <1>4, <1>5, <1>6 DEF ServeStep, SendStep

\* Broadcasts, SendToUsers and kicks keep the protocol (hub.go:181-202, 269-350).
LEMMA CallQInv ==
    ASSUME QInv, NEW b \in Callers, CallStart(b) \/ CallStep(b)
    PROVE  QInv'
<1> USE Kinds DEF QInv, QueueProtocol, Goto, At, Steps, CallerSteps, SendSteps,
        hubVars, tableVars, clientVars
<1>1. ASSUME NEW skip \in Skips, BroadcastAdd(b, skip) PROVE QInv'
  BY <1>1 DEF BroadcastAdd
<1>2. CASE BroadcastCheck(b)
  BY <1>2 DEF BroadcastCheck, BroadcastReturns
<1>3. CASE BroadcastPut(b)
  <2>1. ~qClosed
    BY <1>3 DEF BroadcastPut
  <2> QED
    BY <1>3, <2>1 DEF BroadcastPut, BroadcastReturns
<1>4. CASE TellCheck(b) \/ KickCheck(b)
  BY <1>4 DEF TellCheck, KickCheck, CallCheck
<1>5. ASSUME NEW c \in Told, Tell(b, c) PROVE QInv'
  BY <1>5 DEF Tell, NotFound, RLocked
<1>6. ASSUME NEW c \in Kicked, Kick(b, c) PROVE QInv'
  BY <1>6 DEF Kick, NotFound, RLocked
<1>7. CASE KickEnd(b)
  BY <1>7 DEF KickEnd, SendReturns
<1> QED
  BY <1>1, <1>2, <1>3, <1>4, <1>5, <1>6, <1>7 DEF CallStart, CallStep

\* The handlers of the connections keep the protocol (websocket.go:53-188).
LEMMA HandlerQInv ==
    ASSUME QInv, NEW c \in Conns, Join(c) \/ HandlerStep(c) \/ HangUp(c) \/ HangUpEnd(c)
    PROVE  QInv'
<1> USE Kinds DEF QInv, QueueProtocol, Goto, At, Steps, ConnSteps, ServerSteps,
        hubVars, tableVars, clientVars
<1>1. CASE Join(c)
  BY <1>1 DEF Join, OnceDo
<1>2. CASE Enter(c) \/ GreetCheck(c) \/ GreetPut(c)
  BY <1>2 DEF Enter, GreetCheck, GreetPut
<1>3. CASE Deliver(c)
  BY <1>3 DEF Deliver
<1>4. CASE UnregCheck(c) \/ UnregDelete(c)
  BY <1>4 DEF UnregCheck, UnregDelete
<1>5. CASE CloseClient(c) \/ CloseClientEnd(c)
  BY <1>5 DEF CloseClient, CloseClientEnd
<1>6. CASE HangUp(c) \/ HangUpEnd(c)
  BY <1>6 DEF HangUp, HangUpEnd
<1> QED
  BY <1>1, <1>2, <1>3, <1>4, <1>5, <1>6 DEF HandlerStep

\* Close keeps the protocol: its Wait ends only when no Broadcast is counted
\* (hub.go:156-179).
LEMMA CloserQInv ==
    ASSUME QInv, CloseSwap \/ CloserStep
    PROVE  QInv'
<1> USE Kinds DEF QInv, QueueProtocol, Goto, At, Steps, CloserSteps,
        hubVars, tableVars, clientVars
<1>1. CASE CloseSwap
  BY <1>1 DEF CloseSwap
<1>2. CASE CloseExit
  BY <1>2 DEF CloseExit
<1>3. ASSUME NEW c \in Conns, CloseVisit(c) PROVE QInv'
  BY <1>3 DEF CloseVisit
<1>4. CASE CloseSweepEnd
  BY <1>4 DEF CloseSweepEnd
<1>5. CASE CloseWait
  BY <1>5 DEF CloseWait
<1>6. CASE CloseQueue
  BY <1>6 DEF CloseQueue
<1> QED
  BY <1>1, <1>2, <1>3, <1>4, <1>5, <1>6 DEF CloserStep

\* Every behaviour keeps the protocol between Broadcast and Close.
THEOREM QueueKept == Spec => []QueueProtocol
<1>1. Init => QInv
  BY Kinds DEF Init, QInv, QueueProtocol, Steps, ConnSteps, ServerSteps, CallerSteps,
               CloserSteps
<1>2. QInv /\ [Next]_vars => QInv'
  <2>1. QInv /\ UNCHANGED vars => QInv'
    BY DEF QInv, QueueProtocol, vars, hubVars
  <2> QED
    BY <2>1, ServeQInv, CallQInv, HandlerQInv, CloserQInv DEF Next
<1> QED
  BY <1>1, <1>2, PTL DEF Spec, QInv

\* Only a Broadcast at the queue could send on it when it is closed.
LEMMA QueueStep ==
    ASSUME QueueProtocol, NoSendOnClosedQueue, [Next]_vars
    PROVE  NoSendOnClosedQueue'
<1> USE DEF NoSendOnClosedQueue
<1>1. ASSUME NEW s \in Servers, ServeStep(s) PROVE NoSendOnClosedQueue'
  BY <1>1 DEF ServeStep, Take, Leave, Visit, RangeEnd
<1>2. ASSUME NEW t \in Senders, SendStep(t) PROVE NoSendOnClosedQueue'
  BY <1>2 DEF SendStep, SendCheck, SendPut
<1>3. ASSUME NEW b \in Callers, CallStart(b) PROVE NoSendOnClosedQueue'
  BY <1>3 DEF CallStart, BroadcastAdd, TellCheck, KickCheck, CallCheck
<1>4. ASSUME NEW b \in Callers, CallStep(b) PROVE NoSendOnClosedQueue'
  <2>1. CASE BroadcastPut(b)
    <3>1. ~qClosed
      BY <2>1 DEF BroadcastPut, QueueProtocol, At
    <3> QED
      BY <2>1, <3>1 DEF BroadcastPut
  <2>2. CASE ~BroadcastPut(b)
    BY <1>4, <2>2 DEF CallStep, BroadcastCheck, Tell, Kick, KickEnd
  <2> QED
    BY <2>1, <2>2
<1>5. ASSUME NEW c \in Conns, Join(c) \/ HandlerStep(c) \/ HangUp(c) \/ HangUpEnd(c)
      PROVE  NoSendOnClosedQueue'
  BY <1>5 DEF Join, HandlerStep, Enter, GreetCheck, GreetPut, Deliver, UnregCheck,
              UnregDelete, CloseClient, CloseClientEnd, HangUp, HangUpEnd
<1>6. CASE CloseSwap \/ CloserStep
  BY <1>6 DEF CloseSwap, CloserStep, CloseExit, CloseVisit, CloseSweepEnd, CloseWait,
              CloseQueue
<1>7. CASE UNCHANGED vars
  BY <1>7 DEF vars
<1> QED
  BY <1>1, <1>2, <1>3, <1>4, <1>5, <1>6, <1>7 DEF Next

\* No interleaving of Broadcasts and a Close sends on the closed queue
\* (hub.go:176, 197).
THEOREM QueueSafe == Spec => []NoSendOnClosedQueue
<1>1. Init => NoSendOnClosedQueue
  BY DEF Init, NoSendOnClosedQueue
<1> QED
  BY <1>1, QueueKept, QueueStep, PTL DEF Spec
-----------------------------------------------------------------------------
\* A sequence with one more element.
LEMMA AppendTypes ==
    ASSUME NEW S, NEW s \in Seq(S), NEW x \in S
    PROVE  Append(s, x) \in Seq(S)
OBVIOUS

\* A bounded sequence after a put and after a take.
LEMMA PutTypes ==
    ASSUME NEW S, NEW s \in Seq(S), NEW x \in S, NEW n \in Nat, Len(s) < n
    PROVE  Append(s, x) \in Seq(S) /\ Len(Append(s, x)) <= n
<1>1. Len(Append(s, x)) = Len(s) + 1
  OBVIOUS
<1> QED
  BY <1>1

LEMMA TakeTypes ==
    ASSUME NEW S, NEW s \in Seq(S), s # <<>>, NEW n \in Nat, Len(s) <= n
    PROVE  Head(s) \in S /\ Tail(s) \in Seq(S) /\ Len(Tail(s)) <= n
<1>1. Len(Tail(s)) = Len(s) - 1
  OBVIOUS
<1> QED
  BY <1>1

\* A put into and a take from a channel keep the channels.
LEMMA ChannelPut ==
    ASSUME Channels, NEW c, NEW x \in Messages, Len(chan[c]) < ClientCap,
           chan' = [chan EXCEPT ![c] = Append(@, x)]
    PROVE  Channels'
<1>1. CASE c \in Conns
  <2>1. /\ Append(chan[c], x) \in Seq(Messages)
        /\ Len(Append(chan[c], x)) <= ClientCap
    BY <1>1, PutTypes, HubBroadcastAssumption DEF Channels
  <2> QED
    BY <1>1, <2>1 DEF Channels
<1>2. CASE c \notin Conns
  BY <1>2 DEF Channels
<1> QED
  BY <1>1, <1>2

LEMMA ChannelTake ==
    ASSUME Channels, NEW c \in Conns, chan[c] # <<>>,
           chan' = [chan EXCEPT ![c] = Tail(@)]
    PROVE  Channels' /\ Head(chan[c]) \in Messages
<1>1. /\ Head(chan[c]) \in Messages /\ Tail(chan[c]) \in Seq(Messages)
      /\ Len(Tail(chan[c])) <= ClientCap
  BY TakeTypes, HubBroadcastAssumption DEF Channels
<1> QED
  BY <1>1 DEF Channels

\* The empty greeting and a new call's message are messages.
LEMMA NewMessages ==
    /\ Greeting \in Messages
    /\ \A n \in 0..MaxCalls, skip \in Skips \cup {{}} : [id |-> n, skip |-> skip] \in Messages
BY HubBroadcastAssumption DEF Greeting, Messages

\* What a step leaves alone keeps its type.
LEMMA Untouched ==
    ASSUME TypeOK
    PROVE  /\ UNCHANGED hubVars => HubTypes'
           /\ UNCHANGED tableVars => TableTypes'
           /\ UNCHANGED clientVars => ClientTypes'
           /\ UNCHANGED chan => Channels'
BY DEF TypeOK, HubTypes, TableTypes, ClientTypes, Channels, hubVars, tableVars, clientVars

\* The serve loops and the Sends keep the types.
LEMMA ServeTypes ==
    ASSUME TypeOK,
           \/ \E s \in Servers : ServeStep(s)
           \/ \E t \in Senders : SendStep(t)
    PROVE  TypeOK'
<1> USE NewMessages, Untouched DEF TypeOK, ThreadTypes, Goto, At, ServerSteps, CallerSteps,
        SendSteps, Senders, Threads
<1>1. ASSUME NEW s \in Servers, Take(s) PROVE TypeOK'
  <2>1. CASE queue # <<>>
    <3>1. /\ Head(queue) \in Messages /\ Tail(queue) \in Seq(Messages)
          /\ Len(Tail(queue)) <= Cap
      BY <2>1, TakeTypes, HubBroadcastAssumption DEF HubTypes
    <3>2. HubTypes'
      BY <1>1, <2>1, <3>1 DEF Take, HubTypes
    <3>3. ThreadTypes'
      BY <1>1, <2>1, <3>1 DEF Take
    <3> QED
      BY <1>1, <3>2, <3>3 DEF Take
  <2>2. CASE queue = <<>>
    <3>1. HubTypes' /\ ThreadTypes'
      BY <1>1, <2>2 DEF Take, HubTypes
    <3> QED
      BY <1>1, <3>1 DEF Take
  <2> QED
    BY <2>1, <2>2
<1>2. ASSUME NEW s \in Servers, Leave(s) PROVE TypeOK'
  BY <1>2 DEF Leave
<1>3. ASSUME NEW s \in Servers, NEW c \in Conns, Visit(s, c) PROVE TypeOK'
  <2>1. TableTypes'
    BY <1>3 DEF Visit, TableTypes
  <2>2. ThreadTypes'
    BY <1>3 DEF Visit
  <2> QED
    BY <1>3, <2>1, <2>2 DEF Visit
<1>4. ASSUME NEW s \in Servers, RangeEnd(s) PROVE TypeOK'
  BY <1>4 DEF RangeEnd
<1>5. ASSUME NEW t \in Senders, SendCheck(t) PROVE TypeOK'
  <2>1. TableTypes'
    BY <1>5 DEF SendCheck, SendReturns, RUnlocked, TableTypes
  <2>2. ThreadTypes'
    BY <1>5 DEF SendCheck, SendReturns
  <2> QED
    BY <1>5, <2>1, <2>2 DEF SendCheck
<1>6. ASSUME NEW t \in Senders, SendPut(t) PROVE TypeOK'
  <2>1. Channels'
    BY <1>6, ChannelPut DEF SendPut, ClientTypes
  <2>2. ClientTypes'
    BY <1>6, <2>1 DEF SendPut, ClientTypes
  <2>3. TableTypes'
    BY <1>6 DEF SendPut, SendReturns, RUnlocked, TableTypes
  <2>4. ThreadTypes'
    BY <1>6 DEF SendPut, SendReturns
  <2> QED
    BY <1>6, <2>2, <2>3, <2>4 DEF SendPut
<1> QED
  BY <1>1, <1>2, <1>3, <1>4, <1>5, <1>6 DEF ServeStep, SendStep

\* Broadcasts, SendToUsers and kicks keep the types.
LEMMA CallTypes ==
    ASSUME TypeOK, NEW b \in Callers, CallStart(b) \/ CallStep(b)
    PROVE  TypeOK'
<1> USE NewMessages, HubBroadcastAssumption, Untouched DEF TypeOK, ThreadTypes, Goto, At,
        CallerSteps, SendSteps, Senders, Threads
<1>1. ASSUME NEW skip \in Skips, BroadcastAdd(b, skip) PROVE TypeOK'
  <2>1. HubTypes'
    BY <1>1 DEF BroadcastAdd, HubTypes
  <2>2. calls' \in 0..MaxCalls /\ [id |-> calls + 1, skip |-> skip] \in Messages
    BY <1>1 DEF BroadcastAdd
  <2>3. ThreadTypes'
    BY <1>1, <2>2 DEF BroadcastAdd
  <2> QED
    BY <1>1, <2>1, <2>3 DEF BroadcastAdd
<1>2. CASE BroadcastCheck(b)
  <2>1. HubTypes'
    BY <1>2 DEF BroadcastCheck, BroadcastReturns, OnceDone, HubTypes
  <2>2. ThreadTypes'
    BY <1>2 DEF BroadcastCheck, BroadcastReturns
  <2> QED
    BY <1>2, <2>1, <2>2 DEF BroadcastCheck
<1>3. CASE BroadcastPut(b)
  <2>1. queue' \in Seq(Messages) /\ Len(queue') <= Cap
    <3>1. CASE UNCHANGED queue
      BY <3>1 DEF HubTypes
    <3>2. CASE Len(queue) < Cap /\ queue' = Append(queue, msg[b])
      BY <3>2, PutTypes DEF HubTypes
    <3> QED
      BY <1>3, <3>1, <3>2 DEF BroadcastPut
  <2>2. HubTypes'
    BY <1>3, <2>1 DEF BroadcastPut, BroadcastReturns, HubTypes
  <2>3. ThreadTypes'
    <3>1. CASE UNCHANGED <<msg, pc>>
      BY <1>3, <3>1 DEF BroadcastPut
    <3>2. CASE BroadcastReturns(b) /\ UNCHANGED panic
      BY <1>3, <3>2 DEF BroadcastPut, BroadcastReturns
    <3> QED
      BY <1>3, <3>1, <3>2 DEF BroadcastPut
  <2> QED
    BY <1>3, <2>2, <2>3 DEF BroadcastPut
<1>4. CASE TellCheck(b)
  <2>1. calls' \in 0..MaxCalls /\ [id |-> calls + 1, skip |-> {}] \in Messages
    BY <1>4 DEF TellCheck, CallCheck
  <2>2. ThreadTypes'
    BY <1>4, <2>1 DEF TellCheck, CallCheck
  <2> QED
    BY <1>4, <2>2 DEF TellCheck, CallCheck
<1>5. CASE KickCheck(b)
  BY <1>5 DEF KickCheck, CallCheck
<1>6. ASSUME NEW c \in Told, Tell(b, c) PROVE TypeOK'
  <2>1. TableTypes'
    BY <1>6 DEF Tell, NotFound, RLocked, TableTypes
  <2>2. ThreadTypes'
    BY <1>6 DEF Tell, NotFound, RLocked
  <2>3. ClientTypes'
    BY <1>6 DEF Tell, NotFound, clientVars
  <2> QED
    BY <1>6, <2>1, <2>2, <2>3 DEF Tell
<1>7. ASSUME NEW c \in Kicked, Kick(b, c) PROVE TypeOK'
  <2>1. TableTypes'
    BY <1>7 DEF Kick, NotFound, RLocked, TableTypes
  <2>2. ThreadTypes'
    BY <1>7 DEF Kick, NotFound, RLocked
  <2>3. ClientTypes'
    BY <1>7 DEF Kick, NotFound, ClientTypes
  <2> QED
    BY <1>7, <2>1, <2>2, <2>3 DEF Kick
<1>8. CASE KickEnd(b)
  <2>1. TableTypes'
    BY <1>8 DEF KickEnd, SendReturns, RUnlocked, TableTypes
  <2>2. ThreadTypes'
    BY <1>8 DEF KickEnd, SendReturns
  <2>3. ClientTypes'
    BY <1>8 DEF KickEnd, ClientTypes
  <2> QED
    BY <1>8, <2>1, <2>2, <2>3 DEF KickEnd
<1> QED
  BY <1>1, <1>2, <1>3, <1>4, <1>5, <1>6, <1>7, <1>8 DEF CallStart, CallStep

\* The handlers of the connections keep the types.
LEMMA HandlerTypes ==
    ASSUME TypeOK, NEW c \in Conns, Join(c) \/ HandlerStep(c) \/ HangUp(c) \/ HangUpEnd(c)
    PROVE  TypeOK'
<1> USE Untouched DEF TypeOK, ThreadTypes, Goto, At, ConnSteps, ServerSteps, Senders, Threads
<1>1. CASE Join(c)
  <2>1. HubTypes' /\ ThreadTypes'
    BY <1>1 DEF Join, OnceDo, HubTypes
  <2> QED
    BY <1>1, <2>1 DEF Join
<1>2. CASE Enter(c)
  BY <1>2 DEF Enter, TableTypes
<1>3. CASE GreetCheck(c)
  BY <1>3 DEF GreetCheck
<1>4. CASE GreetPut(c)
  <2>1. Channels'
    BY <1>4, ChannelPut, NewMessages DEF GreetPut, ClientTypes
  <2> QED
    BY <1>4, <2>1 DEF GreetPut, ClientTypes
<1>5. CASE Deliver(c)
  <2>1. CASE chan[c] # <<>> /\ chan' = [chan EXCEPT ![c] = Tail(@)]
    <3>1. Channels' /\ Head(chan[c]) \in Messages
      BY <2>1, ChannelTake DEF ClientTypes
    <3>2. Head(chan[c]).id \in 0..MaxCalls
      BY <3>1 DEF Messages
    <3>3. got[c] \in Seq(0..MaxCalls)
      BY DEF ClientTypes
    <3>4. Append(got[c], Head(chan[c]).id) \in Seq(0..MaxCalls)
      BY <3>2, <3>3, AppendTypes
    <3>5. CASE got' = [got EXCEPT ![c] = Append(@, Head(chan[c]).id)] /\ UNCHANGED <<up, pc>>
      <4>1. ClientTypes'
        BY <1>5, <3>1, <3>4, <3>5 DEF Deliver, ClientTypes
      <4> QED
        BY <1>5, <3>5, <4>1 DEF Deliver
    <3>6. CASE UNCHANGED got /\ up' = [up EXCEPT ![c] = FALSE] /\ Goto(c, "unreg")
      <4>1. ClientTypes'
        BY <1>5, <3>1, <3>6 DEF Deliver, ClientTypes
      <4> QED
        BY <1>5, <3>6, <4>1 DEF Deliver
    <3> QED
      BY <1>5, <2>1, <3>5, <3>6 DEF Deliver
  <2>2. CASE UNCHANGED <<chan, got, up>>
    BY <1>5, <2>2 DEF Deliver, clientVars
  <2> QED
    BY <1>5, <2>1, <2>2 DEF Deliver
<1>6. CASE UnregCheck(c)
  BY <1>6 DEF UnregCheck
<1>7. CASE UnregDelete(c)
  BY <1>7 DEF UnregDelete, TableTypes
<1>8. CASE CloseClient(c)
  <2>1. ClientTypes'
    BY <1>8 DEF CloseClient, ClientTypes
  <2>2. ThreadTypes'
    BY <1>8 DEF CloseClient
  <2> QED
    BY <1>8, <2>1, <2>2 DEF CloseClient
<1>9. CASE CloseClientEnd(c)
  BY <1>9 DEF CloseClientEnd, ClientTypes
<1>10. CASE HangUp(c) \/ HangUpEnd(c)
  BY <1>10 DEF HangUp, HangUpEnd, ClientTypes
<1> QED
  BY <1>1, <1>2, <1>3, <1>4, <1>5, <1>6, <1>7, <1>8, <1>9, <1>10 DEF HandlerStep

\* Close keeps the types.
LEMMA CloserTypes ==
    ASSUME TypeOK, CloseSwap \/ CloserStep
    PROVE  TypeOK'
<1> USE Untouched DEF TypeOK, ThreadTypes, Goto, At, CloserSteps, Threads
<1>1. CASE CloseSwap
  BY <1>1 DEF CloseSwap, HubTypes
<1>2. CASE CloseExit
  BY <1>2 DEF CloseExit, HubTypes
<1>3. ASSUME NEW c \in Conns, CloseVisit(c) PROVE TypeOK'
  <2>1. TableTypes'
    BY <1>3 DEF CloseVisit, TableTypes
  <2>2. ClientTypes'
    BY <1>3 DEF CloseVisit, ClientTypes
  <2>3. ThreadTypes'
    BY <1>3 DEF CloseVisit
  <2> QED
    BY <1>3, <2>1, <2>2, <2>3 DEF CloseVisit
<1>4. CASE CloseSweepEnd
  BY <1>4 DEF CloseSweepEnd, ClientTypes
<1>5. CASE CloseWait
  BY <1>5 DEF CloseWait
<1>6. CASE CloseQueue
  BY <1>6 DEF CloseQueue, HubTypes
<1> QED
  BY <1>1, <1>2, <1>3, <1>4, <1>5, <1>6 DEF CloserStep

\* The variables keep their types, the queue and the channels their capacities.
THEOREM TypeCorrect == Spec => []TypeOK
<1>1. ASSUME Init PROVE TypeOK
  <2>1. ThreadTypes
    BY <1>1, NewMessages, HubBroadcastAssumption
    DEF Init, ThreadTypes, Threads, ConnSteps, ServerSteps, CallerSteps, CloserSteps
  <2>2. HubTypes
    <3>1. queue \in Seq(Messages) /\ Len(queue) <= Cap
      BY <1>1, HubBroadcastAssumption DEF Init
    <3> QED
      BY <1>1, <3>1 DEF Init, HubTypes
  <2>3. TableTypes
    BY <1>1 DEF Init, TableTypes
  <2>4. ClientTypes
    BY <1>1, HubBroadcastAssumption DEF Init, ClientTypes, Channels
  <2> QED
    BY <2>1, <2>2, <2>3, <2>4 DEF TypeOK
<1>2. TypeOK /\ [Next]_vars => TypeOK'
  <2>1. TypeOK /\ UNCHANGED vars => TypeOK'
    BY Untouched DEF TypeOK, ThreadTypes, vars
  <2> QED
    BY <2>1, ServeTypes, CallTypes, HandlerTypes, CloserTypes DEF Next
<1> QED
  BY <1>1, <1>2, PTL DEF Spec
-----------------------------------------------------------------------------
(* The order of messages.  A message is with the caller that sends it, then in *)
(* the queue, then with the serve loop, and in the end in streams; one for a    *)
(* single user goes from its caller to the stream.                              *)

In(c, m) == \E i \in DOMAIN Stream(c) : Stream(c)[i] = m

\* The caller has a message that it has given to nobody yet.
Carrying(b) == pc[b] \in {"bcheck", "bput", "tell", "check", "put"}

\* The serve loop is handing out a message, and to whom it has not come yet.
Serving(s) == pc[s] \in {"range", "check", "put"}
Ahead(s) == todo[s] \cup (IF pc[s] \in {"check", "put"} THEN {aim[s]} ELSE {})

Queued(m) == \E i \in DOMAIN queue : queue[i].id = m

\* There is one serve loop.
OneLoop ==
    /\ \A s, t \in Servers : pc[s] # "off" /\ pc[t] # "off" => s = t
    /\ \A s \in Servers : pc[s] # "off" => once = "started"

\* The loop does not come back to a connection it is sending to.
Aimed == \A s \in Servers : pc[s] \in {"check", "put"} => aim[s] \in Conns \ todo[s]

Carries(b, m) == Carrying(b) /\ msg[b].id = m
Serves(s, m) == Serving(s) /\ msg[s].id = m

\* Messages are numbered as they are made.
Numbered ==
    /\ \A b \in Callers : Carrying(b) => msg[b].id \in 1..calls
    /\ \A i \in DOMAIN queue : queue[i].id \in 1..calls
    /\ \A s \in Servers : Serving(s) => msg[s].id \in 1..calls
    /\ \A c \in Conns : \A m \in 1..MaxCalls : In(c, m) => m <= calls

\* What a caller carries is nowhere else.
CarriedOnce ==
    \A b \in Callers : \A m \in 1..MaxCalls : Carries(b, m) =>
        /\ \A d \in Callers : Carries(d, m) => d = b
        /\ ~Queued(m)
        /\ \A s \in Servers : ~Serves(s, m)
        /\ \A c \in Conns : ~In(c, m)

\* What is queued is queued once, and has not been handed out.
QueuedOnce ==
    \A m \in 1..MaxCalls : Queued(m) =>
        /\ \A i, j \in DOMAIN queue : queue[i].id = m /\ queue[j].id = m => i = j
        /\ \A s \in Servers : ~Serves(s, m)
        /\ \A c \in Conns : ~In(c, m)

\* What the loop hands out comes to each connection once, and whoever gets something
\* after it gets a message for itself alone.
HandedOut ==
    \A s \in Servers : \A m \in 1..MaxCalls : Serves(s, m) =>
        /\ \A c \in Ahead(s) \cap Conns : ~In(c, m)
        /\ \A c, d \in Conns : \A n \in 1..MaxCalls : Before(c, m, n) /\ d # c => ~In(d, n)

OrderInv ==
    OneLoop /\ Aimed /\ Numbered /\ CarriedOnce /\ QueuedOnce /\ HandedOut /\ SameOrder

-----------------------------------------------------------------------------
(* Facts about sequences *)

Holds(s, m) == \E i \in DOMAIN s : s[i] = m
InOrder(s, m, n) == \E i, j \in DOMAIN s : i < j /\ s[i] = m /\ s[j] = n

LEMMA AppendOrder ==
    ASSUME NEW S, NEW s \in Seq(S), NEW e \in S
    PROVE  /\ \A m : Holds(Append(s, e), m) => Holds(s, m) \/ m = e
           /\ \A m, n : InOrder(Append(s, e), m, n) =>
                InOrder(s, m, n) \/ (Holds(s, m) /\ n = e)
<1> DEFINE t == Append(s, e)
<1>1. /\ Len(s) \in Nat /\ DOMAIN s = 1..Len(s) /\ DOMAIN t = 1..(Len(s) + 1)
      /\ \A i \in 1..Len(s) : t[i] = s[i]
      /\ t[Len(s) + 1] = e
  BY AppendProperties, LenProperties
<1> HIDE DEF t
<1>2. \A m : Holds(t, m) => Holds(s, m) \/ m = e
  BY <1>1 DEF Holds
<1>3. ASSUME NEW m, NEW n, InOrder(t, m, n)
      PROVE  InOrder(s, m, n) \/ (Holds(s, m) /\ n = e)
  <2>1. PICK i \in DOMAIN t, j \in DOMAIN t : i < j /\ t[i] = m /\ t[j] = n
    BY <1>3 DEF InOrder
  <2>2. i \in DOMAIN s /\ s[i] = m
    BY <1>1, <2>1
  <2>3. CASE j = Len(s) + 1
    BY <1>1, <2>1, <2>2, <2>3 DEF Holds
  <2>4. CASE j # Len(s) + 1
    <3>1. j \in DOMAIN s /\ s[j] = n
      BY <1>1, <2>1, <2>4
    <3> QED
      BY <2>1, <2>2, <3>1 DEF InOrder
  <2> QED
    BY <2>3, <2>4
<1> QED
  BY <1>2, <1>3 DEF t

\* An element put at the end of the second of two sequences ends both together.
LEMMA AppendInside ==
    ASSUME NEW S, NEW g \in Seq(S), NEW h \in Seq(S), NEW e \in S
    PROVE  g \o Append(h, e) = Append(g \o h, e)
<1>1. g \o h \in Seq(S) /\ <<e>> \in Seq(S)
  BY ConcatProperties
<1>2. Append(h, e) = h \o <<e>> /\ Append(g \o h, e) = (g \o h) \o <<e>>
  BY <1>1, AppendIsConcat
<1> QED
  BY <1>1, <1>2, ConcatAssociative

\* Moving the first element of a sequence to the end of the one before it.
LEMMA MoveHead ==
    ASSUME NEW S, NEW g \in Seq(S), NEW h \in Seq(S), h # <<>>
    PROVE  Append(g, Head(h)) \o Tail(h) = g \o h
<1>1. Head(h) \in S /\ Tail(h) \in Seq(S) /\ <<Head(h)>> \in Seq(S)
  BY HeadTailProperties
<1>2. Append(g, Head(h)) = g \o <<Head(h)>>
  BY <1>1, AppendIsConcat
<1>3. <<Head(h)>> \o Tail(h) = h
  <2> DEFINE k == <<Head(h)>> \o Tail(h)
  <2>1. /\ k \in Seq(S) /\ Len(k) = 1 + Len(Tail(h))
        /\ \A i \in 1..(1 + Len(Tail(h))) :
              k[i] = IF i <= 1 THEN Head(h) ELSE Tail(h)[i - 1]
    BY <1>1, ConcatProperties
  <2>2. /\ Len(h) \in Nat /\ Len(Tail(h)) = Len(h) - 1 /\ Head(h) = h[1]
        /\ \A i \in 1..Len(Tail(h)) : Tail(h)[i] = h[i + 1]
    BY HeadTailProperties, LenProperties
  <2> HIDE DEF k
  <2>3. Len(k) = Len(h)
    BY <2>1, <2>2
  <2>4. \A i \in 1..Len(k) : k[i] = h[i]
    BY <2>1, <2>2, <2>3
  <2>5. k = h
    BY <2>1, <2>3, <2>4, SeqEqual
  <2> QED
    BY <2>5 DEF k
<1> QED
  BY <1>1, <1>2, <1>3, ConcatAssociative

\* Taking an element out of the middle of a sequence adds nothing.
LEMMA DropHead ==
    ASSUME NEW S, NEW g \in Seq(S), NEW h \in Seq(S), h # <<>>
    PROVE  /\ \A m : Holds(g \o Tail(h), m) => Holds(g \o h, m)
           /\ \A m, n : InOrder(g \o Tail(h), m, n) => InOrder(g \o h, m, n)
<1> DEFINE s == g \o h
           t == g \o Tail(h)
           back(i) == IF i <= Len(g) THEN i ELSE i + 1
<1>1. /\ Len(g) \in Nat /\ Len(h) \in Nat /\ Len(Tail(h)) = Len(h) - 1
      /\ Tail(h) \in Seq(S)
      /\ \A i \in 1..(Len(h) - 1) : Tail(h)[i] = h[i + 1]
  BY HeadTailProperties, LenProperties
<1>2. /\ DOMAIN s = 1..(Len(g) + Len(h))
      /\ \A i \in 1..(Len(g) + Len(h)) : s[i] = IF i <= Len(g) THEN g[i] ELSE h[i - Len(g)]
  BY ConcatProperties, LenProperties
<1>3. /\ DOMAIN t = 1..(Len(g) + Len(h) - 1)
      /\ \A i \in 1..(Len(g) + Len(h) - 1) :
            t[i] = IF i <= Len(g) THEN g[i] ELSE Tail(h)[i - Len(g)]
  BY <1>1, ConcatProperties, LenProperties
<1> HIDE DEF s, t
<1>4. ASSUME NEW i \in DOMAIN t PROVE back(i) \in DOMAIN s /\ s[back(i)] = t[i]
  <2>1. CASE i <= Len(g)
    BY <1>1, <1>2, <1>3, <2>1
  <2>2. CASE i > Len(g)
    <3>1. /\ i \in 1..(Len(g) + Len(h) - 1) /\ i - Len(g) \in 1..(Len(h) - 1)
          /\ back(i) = i + 1 /\ i + 1 \in 1..(Len(g) + Len(h)) /\ ~(i + 1 <= Len(g))
          /\ (i + 1) - Len(g) = (i - Len(g)) + 1
      BY <1>1, <1>3, <2>2
    <3>2. t[i] = h[(i - Len(g)) + 1]
      BY <1>1, <1>3, <2>2, <3>1
    <3>3. s[i + 1] = h[(i + 1) - Len(g)]
      BY <1>2, <3>1
    <3> QED
      BY <1>2, <3>1, <3>2, <3>3
  <2> QED
    BY <1>1, <1>3, <2>1, <2>2
<1>5. \A i, j \in DOMAIN t : i < j => back(i) < back(j)
  BY <1>1, <1>3
<1> HIDE DEF back
<1>6. \A m : Holds(t, m) => Holds(s, m)
  BY <1>4 DEF Holds
<1>7. ASSUME NEW m, NEW n, InOrder(t, m, n) PROVE InOrder(s, m, n)
  <2>1. PICK i \in DOMAIN t, j \in DOMAIN t : i < j /\ t[i] = m /\ t[j] = n
    BY <1>7 DEF InOrder
  <2>2. /\ back(i) \in DOMAIN s /\ back(j) \in DOMAIN s /\ back(i) < back(j)
        /\ s[back(i)] = m /\ s[back(j)] = n
    BY <1>4, <1>5, <2>1
  <2> QED
    BY <2>2 DEF InOrder
<1> QED
  BY <1>6, <1>7 DEF s, t

\* The numbers of the messages in a channel.
Ids(q) == [i \in 1..Len(q) |-> q[i].id]

LEMMA IdsType ==
    ASSUME NEW q \in Seq(Messages)
    PROVE  /\ Ids(q) \in Seq(0..MaxCalls) /\ Len(Ids(q)) = Len(q)
           /\ \A i \in 1..Len(q) : Ids(q)[i] = q[i].id
<1>1. Len(q) \in Nat /\ \A i \in 1..Len(q) : q[i].id \in 0..MaxCalls
  <2>1. Len(q) \in Nat /\ \A i \in 1..Len(q) : q[i] \in Messages
    BY LenProperties, ElementOfSeq
  <2> QED
    BY <2>1 DEF Messages
<1>2. Ids(q) \in [1..Len(q) -> 0..MaxCalls]
  BY <1>1 DEF Ids
<1> QED
  BY <1>1, <1>2 DEF Ids

LEMMA IdsPut ==
    ASSUME NEW q \in Seq(Messages), NEW x \in Messages
    PROVE  Ids(Append(q, x)) = Append(Ids(q), x.id)
<1>1. /\ Append(q, x) \in Seq(Messages) /\ Len(Append(q, x)) = Len(q) + 1 /\ Len(q) \in Nat
      /\ \A i \in 1..Len(q) : Append(q, x)[i] = q[i]
      /\ Append(q, x)[Len(q) + 1] = x
  BY AppendProperties, LenProperties
<1>2. x.id \in 0..MaxCalls
  BY DEF Messages
<1>3. /\ Ids(q) \in Seq(0..MaxCalls) /\ Len(Ids(q)) = Len(q)
      /\ \A i \in 1..Len(q) : Ids(q)[i] = q[i].id
  BY IdsType
<1>4. /\ Ids(Append(q, x)) \in Seq(0..MaxCalls) /\ Len(Ids(Append(q, x))) = Len(q) + 1
      /\ \A i \in 1..(Len(q) + 1) : Ids(Append(q, x))[i] = Append(q, x)[i].id
  <2> DEFINE p == Append(q, x)
  <2>1. p \in Seq(Messages) /\ Len(p) = Len(q) + 1
    BY <1>1
  <2> HIDE DEF p
  <2>2. /\ Ids(p) \in Seq(0..MaxCalls) /\ Len(Ids(p)) = Len(q) + 1
        /\ \A i \in 1..(Len(q) + 1) : Ids(p)[i] = p[i].id
    BY <2>1, IdsType
  <2> QED
    BY <2>2 DEF p
<1>5. /\ Append(Ids(q), x.id) \in Seq(0..MaxCalls)
      /\ Len(Append(Ids(q), x.id)) = Len(q) + 1
      /\ \A i \in 1..Len(q) : Append(Ids(q), x.id)[i] = Ids(q)[i]
      /\ Append(Ids(q), x.id)[Len(q) + 1] = x.id
  BY <1>2, <1>3, AppendProperties
<1>6. \A i \in 1..(Len(q) + 1) : Ids(Append(q, x))[i] = Append(Ids(q), x.id)[i]
  <2> TAKE i \in 1..(Len(q) + 1)
  <2>1. CASE i = Len(q) + 1
    BY <1>1, <1>4, <1>5, <2>1
  <2>2. CASE i # Len(q) + 1
    <3>1. i \in 1..Len(q)
      BY <1>1, <2>2
    <3> QED
      BY <1>1, <1>3, <1>4, <1>5, <3>1
  <2> QED
    BY <2>1, <2>2
<1> QED
  BY <1>4, <1>5, <1>6, SeqEqual

LEMMA IdsTake ==
    ASSUME NEW q \in Seq(Messages), q # <<>>
    PROVE  Ids(q) # <<>> /\ Ids(Tail(q)) = Tail(Ids(q)) /\ Head(Ids(q)) = Head(q).id
<1>1. /\ Tail(q) \in Seq(Messages) /\ Len(Tail(q)) = Len(q) - 1 /\ Len(q) \in Nat \ {0}
      /\ \A i \in 1..(Len(q) - 1) : Tail(q)[i] = q[i + 1]
      /\ Head(q) = q[1]
  BY HeadTailProperties, EmptySeq
<1>2. /\ Ids(q) \in Seq(0..MaxCalls) /\ Len(Ids(q)) = Len(q)
      /\ \A i \in 1..Len(q) : Ids(q)[i] = q[i].id
  BY IdsType
<1>3. Ids(q) # <<>>
  BY <1>1, <1>2
<1>4. /\ Tail(Ids(q)) \in Seq(0..MaxCalls) /\ Len(Tail(Ids(q))) = Len(q) - 1
      /\ \A i \in 1..(Len(q) - 1) : Tail(Ids(q))[i] = Ids(q)[i + 1]
      /\ Head(Ids(q)) = Ids(q)[1]
  BY <1>1, <1>2, <1>3, HeadTailProperties
<1>5. /\ Ids(Tail(q)) \in Seq(0..MaxCalls) /\ Len(Ids(Tail(q))) = Len(q) - 1
      /\ \A i \in 1..(Len(q) - 1) : Ids(Tail(q))[i] = Tail(q)[i].id
  <2> DEFINE p == Tail(q)
  <2>1. p \in Seq(Messages) /\ Len(p) = Len(q) - 1
    BY <1>1
  <2> HIDE DEF p
  <2>2. /\ Ids(p) \in Seq(0..MaxCalls) /\ Len(Ids(p)) = Len(q) - 1
        /\ \A i \in 1..(Len(q) - 1) : Ids(p)[i] = p[i].id
    BY <2>1, IdsType
  <2> QED
    BY <2>2 DEF p
<1>6. \A i \in 1..(Len(q) - 1) : Ids(Tail(q))[i] = Tail(Ids(q))[i]
  <2> TAKE i \in 1..(Len(q) - 1)
  <2>1. i + 1 \in 1..Len(q)
    BY <1>1
  <2> QED
    BY <1>1, <1>2, <1>4, <1>5, <2>1
<1>7. Ids(Tail(q)) = Tail(Ids(q))
  BY <1>4, <1>5, <1>6, SeqEqual
<1> QED
  BY <1>1, <1>2, <1>3, <1>4, <1>7

-----------------------------------------------------------------------------
(* What a step does to the streams *)

LEMMA Streams ==
    \A c, m, n :
      /\ Stream(c) = got[c] \o Ids(chan[c])
      /\ In(c, m) <=> Holds(Stream(c), m)
      /\ Before(c, m, n) <=> InOrder(Stream(c), m, n)
BY DEF Stream, Ids, In, Before, Holds, InOrder

LEMMA StreamTypes ==
    ClientTypes =>
      \A c \in Conns :
        /\ got[c] \in Seq(0..MaxCalls) /\ chan[c] \in Seq(Messages)
        /\ Ids(chan[c]) \in Seq(0..MaxCalls)
        /\ Stream(c) \in Seq(0..MaxCalls)
<1> SUFFICES ASSUME ClientTypes, NEW c \in Conns
             PROVE  /\ got[c] \in Seq(0..MaxCalls) /\ chan[c] \in Seq(Messages)
                    /\ Ids(chan[c]) \in Seq(0..MaxCalls)
                    /\ Stream(c) \in Seq(0..MaxCalls)
  OBVIOUS
<1>1. got[c] \in Seq(0..MaxCalls) /\ chan[c] \in Seq(Messages)
  BY DEF ClientTypes, Channels
<1>2. Ids(chan[c]) \in Seq(0..MaxCalls)
  BY <1>1, IdsType
<1> QED
  BY <1>1, <1>2, Streams, ConcatProperties

\* Of two messages in order, both are there.
LEMMA BeforeIn ==
    \A c, m, n : Before(c, m, n) => In(c, m) /\ In(c, n)
BY DEF Before, In

\* The step adds no numbered message to a stream and changes no order.
Kept ==
    \A c \in Conns : \A m, n \in 1..MaxCalls :
        (In(c, m)' => In(c, m)) /\ (Before(c, m, n)' => Before(c, m, n))

LEMMA SameStreams ==
    ASSUME UNCHANGED <<chan, got>>
    PROVE  Kept
<1>1. \A c : Stream(c)' = Stream(c)
  BY DEF Stream
<1> QED
  BY <1>1 DEF Kept, In, Before

\* A message put into a channel ends its stream.
LEMMA StreamPut ==
    ASSUME ClientTypes, NEW c \in Conns, NEW x \in Messages,
           chan' = [chan EXCEPT ![c] = Append(@, x)], UNCHANGED got
    PROVE  \A d \in Conns : \A m, n :
             /\ In(d, m)' => In(d, m) \/ (d = c /\ m = x.id)
             /\ Before(d, m, n)' => Before(d, m, n) \/ (d = c /\ n = x.id /\ In(c, m))
<1>1. \A d \in Conns : d # c => Stream(d)' = Stream(d)
  BY DEF Stream, ClientTypes, Channels
<1>2. Stream(c)' = Append(Stream(c), x.id)
  <2>1. /\ got[c] \in Seq(0..MaxCalls) /\ chan[c] \in Seq(Messages)
        /\ Ids(chan[c]) \in Seq(0..MaxCalls) /\ Stream(c) \in Seq(0..MaxCalls)
        /\ x.id \in 0..MaxCalls
    BY StreamTypes DEF Messages
  <2>2. Stream(c)' = got[c] \o Ids(Append(chan[c], x))
    BY DEF Stream, Ids, ClientTypes, Channels
  <2>3. Stream(c)' = got[c] \o Append(Ids(chan[c]), x.id)
    BY <2>1, <2>2, IdsPut
  <2>4. got[c] \o Append(Ids(chan[c]), x.id) = Append(got[c] \o Ids(chan[c]), x.id)
    <3> DEFINE Numbers == 0..MaxCalls
    <3>1. got[c] \in Seq(Numbers) /\ Ids(chan[c]) \in Seq(Numbers) /\ x.id \in Numbers
      BY <2>1
    <3> HIDE DEF Numbers
    <3>2. \A g, h \in Seq(Numbers) : \A e \in Numbers : g \o Append(h, e) = Append(g \o h, e)
      BY AppendInside
    <3> QED
      BY <3>1, <3>2, Zenon
  <2>5. Stream(c) = got[c] \o Ids(chan[c])
    BY Streams
  <2> QED
    BY ONLY <2>3, <2>4, <2>5
<1>3. Stream(c) \in Seq(0..MaxCalls) /\ x.id \in 0..MaxCalls
  BY StreamTypes DEF Messages
<1>4. \A m, n : /\ In(c, m)' => In(c, m) \/ m = x.id
                /\ Before(c, m, n)' => Before(c, m, n) \/ (n = x.id /\ In(c, m))
  BY <1>2, <1>3, AppendOrder DEF In, Before, Holds, InOrder
<1>5. ASSUME NEW d \in Conns, d # c
      PROVE  \A m, n : (In(d, m)' <=> In(d, m)) /\ (Before(d, m, n)' <=> Before(d, m, n))
  BY <1>1, <1>5 DEF In, Before
<1> QED
  BY <1>4, <1>5

\* A message that is delivered stays in its stream.
LEMMA StreamTake ==
    ASSUME ClientTypes, NEW c \in Conns, chan[c] # <<>>,
           chan' = [chan EXCEPT ![c] = Tail(@)],
           got' = [got EXCEPT ![c] = Append(@, Head(chan[c]).id)]
    PROVE  Kept
<1>1. \A d \in Conns : d # c => Stream(d)' = Stream(d)
  BY DEF Stream, ClientTypes, Channels
<1>2. Stream(c)' = Stream(c)
  <2>1. /\ got[c] \in Seq(0..MaxCalls) /\ chan[c] \in Seq(Messages)
        /\ Ids(chan[c]) \in Seq(0..MaxCalls)
    BY StreamTypes
  <2>2. Stream(c)' = Append(got[c], Head(chan[c]).id) \o Ids(Tail(chan[c]))
    BY DEF Stream, Ids, ClientTypes, Channels
  <2>3. /\ Ids(chan[c]) # <<>> /\ Ids(Tail(chan[c])) = Tail(Ids(chan[c]))
        /\ Head(Ids(chan[c])) = Head(chan[c]).id
    BY <2>1, IdsTake
  <2>4. Append(got[c], Head(Ids(chan[c]))) \o Tail(Ids(chan[c])) = got[c] \o Ids(chan[c])
    BY <2>1, <2>3, MoveHead
  <2> QED
    BY <2>2, <2>3, <2>4, Streams
<1> QED
  BY <1>1, <1>2 DEF Kept, In, Before

\* A message whose write fails leaves its stream; the others keep their order.
LEMMA StreamLose ==
    ASSUME ClientTypes, NEW c \in Conns, chan[c] # <<>>,
           chan' = [chan EXCEPT ![c] = Tail(@)], UNCHANGED got
    PROVE  Kept
<1>1. \A d \in Conns : d # c => Stream(d)' = Stream(d)
  BY DEF Stream, ClientTypes, Channels
<1>2. /\ \A m : Holds(Stream(c)', m) => Holds(Stream(c), m)
      /\ \A m, n : InOrder(Stream(c)', m, n) => InOrder(Stream(c), m, n)
  <2>1. /\ got[c] \in Seq(0..MaxCalls) /\ chan[c] \in Seq(Messages)
        /\ Ids(chan[c]) \in Seq(0..MaxCalls)
    BY StreamTypes
  <2>2. Stream(c)' = got[c] \o Ids(Tail(chan[c]))
    BY DEF Stream, Ids, ClientTypes, Channels
  <2>3. Ids(chan[c]) # <<>> /\ Ids(Tail(chan[c])) = Tail(Ids(chan[c]))
    BY <2>1, IdsTake
  <2>4. Stream(c)' = got[c] \o Tail(Ids(chan[c])) /\ Stream(c) = got[c] \o Ids(chan[c])
    BY <2>2, <2>3, Streams
  <2> QED
    BY <2>1, <2>3, <2>4, DropHead
<1> QED
  BY <1>1, <1>2 DEF Kept, In, Before, Holds, InOrder

-----------------------------------------------------------------------------
(* The order of messages is kept *)

\* The step makes no message and gives none to anybody.
Calm ==
    /\ UNCHANGED <<queue, calls>> /\ Kept
    /\ \A b \in Callers : Carrying(b)' => Carrying(b) /\ msg'[b] = msg[b]
    /\ \A s \in Servers :
          Serving(s)' => Serving(s) /\ msg'[s] = msg[s] /\ Ahead(s)' \subseteq Ahead(s)

\* What the invariant needs of the types.
Threaded ==
    /\ pc \in [Threads -> ConnSteps \cup ServerSteps \cup CallerSteps \cup CloserSteps]
    /\ msg \in [Senders -> Messages]
    /\ aim \in [Senders \cup {Closer} -> Conns \cup {None}]
    /\ todo \in [Servers \cup {Closer} -> SUBSET Conns]
    /\ queue \in Seq(Messages)
    /\ calls \in 0..MaxCalls

LEMMA ThreadedTypes == TypeOK => Threaded
BY Zenon DEF TypeOK, ThreadTypes, HubTypes, Threaded

\* Messages that are under way have numbers of calls.
LEMMA UnderWay ==
    TypeOK /\ Numbered =>
      /\ calls \in Nat /\ calls <= MaxCalls
      /\ \A b \in Callers : Carrying(b) => msg[b].id \in 1..MaxCalls
      /\ \A s \in Servers : Serving(s) => msg[s].id \in 1..MaxCalls
      /\ \A i \in DOMAIN queue : queue[i].id \in 1..MaxCalls
<1> SUFFICES ASSUME TypeOK, Numbered
             PROVE  /\ calls \in Nat /\ calls <= MaxCalls
                    /\ \A b \in Callers : Carrying(b) => msg[b].id \in 1..MaxCalls
                    /\ \A s \in Servers : Serving(s) => msg[s].id \in 1..MaxCalls
                    /\ \A i \in DOMAIN queue : queue[i].id \in 1..MaxCalls
  OBVIOUS
<1>1. calls \in Nat /\ calls <= MaxCalls /\ MaxCalls \in Nat
  BY ThreadedTypes, HubBroadcastAssumption DEF Threaded
<1>2. \A m \in 1..calls : m \in 1..MaxCalls
  BY <1>1
<1> QED
  BY <1>1, <1>2 DEF Numbered

LEMMA CalmKeeps ==
    ASSUME TypeOK, OrderInv, Calm, OneLoop', Aimed'
    PROVE  OrderInv'
<1> USE DEF OrderInv
<1>0. /\ \A b \in Callers : \A m : Carries(b, m)' => Carries(b, m)
      /\ \A s \in Servers : \A m : Serves(s, m)' => Serves(s, m)
      /\ \A m : Queued(m)' <=> Queued(m)
  BY DEF Calm, Carries, Serves, Queued
<1>1. Numbered'
  BY DEF Calm, Kept, Numbered
<1>2. CarriedOnce'
  BY <1>0 DEF Calm, Kept, CarriedOnce
<1>3. QueuedOnce'
  BY <1>0 DEF Calm, Kept, QueuedOnce
<1>4. HandedOut'
  <2> SUFFICES ASSUME NEW s \in Servers, NEW m \in 1..MaxCalls, Serves(s, m)'
               PROVE  /\ \A c \in Ahead(s)' \cap Conns : ~In(c, m)'
                      /\ \A c, d \in Conns : \A n \in 1..MaxCalls :
                            Before(c, m, n)' /\ d # c => ~In(d, n)'
    BY DEF HandedOut
  <2>1. Serves(s, m) /\ Ahead(s)' \subseteq Ahead(s)
    BY <1>0 DEF Calm, Serves
  <2>2. /\ \A c \in Ahead(s) \cap Conns : ~In(c, m)
        /\ \A c, d \in Conns : \A n \in 1..MaxCalls : Before(c, m, n) /\ d # c => ~In(d, n)
    BY <2>1 DEF HandedOut
  <2> QED
    BY <2>1, <2>2 DEF Calm, Kept
<1>5. SameOrder'
  BY DEF SameOrder, Calm, Kept
<1> QED
  BY <1>1, <1>2, <1>3, <1>4, <1>5

\* The loops stay one when none starts.
LEMMA LoopsStay ==
    ASSUME OneLoop, UNCHANGED once,
           \A s \in Servers : pc'[s] # "off" => pc[s] # "off"
    PROVE  OneLoop'
BY DEF OneLoop

\* The loop takes the next message.
LEMMA TakeOrder ==
    ASSUME TypeOK, OrderInv, NEW s \in Servers, Take(s), queue # <<>>
    PROVE  OrderInv'
<1> USE Kinds, HubBroadcastAssumption DEF OrderInv
<1> DEFINE M == queue[1].id
<1>0. Threaded
  BY ThreadedTypes
<1>1. /\ pc[s] = "select" /\ pc' = [pc EXCEPT ![s] = "range"]
      /\ msg' = [msg EXCEPT ![s] = Head(queue)] /\ queue' = Tail(queue)
      /\ todo' = [todo EXCEPT ![s] = Conns]
      /\ UNCHANGED <<once, aim, calls, chan, got>>
  BY DEF Take, clientVars, Goto, At
<1>2. /\ Head(queue) = queue[1] /\ 1 \in DOMAIN queue
      /\ DOMAIN queue = 1..Len(queue) /\ Len(queue) \in Nat
      /\ DOMAIN queue' = 1..(Len(queue) - 1)
      /\ \A i \in DOMAIN queue' : queue'[i] = queue[i + 1]
  <2>1. queue \in Seq(Messages)
    BY <1>0 DEF Threaded
  <2>2. Tail(queue) \in Seq(Messages) /\ Len(Tail(queue)) = Len(queue) - 1
        /\ \A i \in 1..Len(Tail(queue)) : Tail(queue)[i] = queue[i + 1]
    BY <2>1, HeadTailProperties
  <2>3. DOMAIN queue = 1..Len(queue) /\ Len(queue) \in Nat \ {0} /\ Head(queue) = queue[1]
    BY <2>1, LenProperties, EmptySeq
  <2>4. DOMAIN Tail(queue) = 1..Len(Tail(queue))
    BY <2>2, LenProperties
  <2> QED
    BY <1>1, <2>2, <2>3, <2>4
<1>3. /\ msg'[s].id = M
      /\ \A t \in Servers : t # s => pc'[t] = "off"
      /\ \A t \in Senders : t # s => msg'[t] = msg[t] /\ pc'[t] = pc[t]
  BY <1>0, <1>1, <1>2 DEF OneLoop, Senders, Threaded
<1>4. /\ \A m : Serves(s, m)' => m = M
      /\ \A t \in Servers : t # s => \A m : ~Serves(t, m)'
  BY <1>3 DEF Serves, Serving
<1>5. \A b \in Callers : /\ Carrying(b)' => Carrying(b) /\ msg'[b] = msg[b]
                         /\ \A m : Carries(b, m)' => Carries(b, m)
  BY <1>0, <1>1 DEF Carrying, Carries, Threaded
<1>6. /\ \A c, m : In(c, m)' <=> In(c, m)
      /\ \A c, m, n : Before(c, m, n)' <=> Before(c, m, n)
  BY <1>1 DEF In, Before, Stream
<1>7. M \in 1..calls /\ M \in 1..MaxCalls /\ Queued(M)
  BY <1>2, UnderWay DEF Numbered, Queued
<1>8. \A c \in Conns : ~In(c, M)
  BY <1>7 DEF QueuedOnce
<1>9. \A i \in DOMAIN queue' : i + 1 \in DOMAIN queue /\ queue'[i] = queue[i + 1] /\ queue'[i].id # M
  BY <1>2, <1>7 DEF QueuedOnce
<1> HIDE DEF M
<1>10. \A m : Queued(m)' => Queued(m) /\ m # M
  BY <1>9 DEF Queued
<1>11. OneLoop' /\ Aimed'
  BY <1>0, <1>1 DEF OneLoop, Aimed, Threaded
<1>12. Numbered'
  <2>1. \A c \in Conns : \A m \in 1..MaxCalls : In(c, m)' => m <= calls'
    BY <1>1, <1>6 DEF Numbered
  <2>2. \A i \in DOMAIN queue' : queue'[i].id \in 1..calls'
    BY <1>1, <1>9 DEF Numbered
  <2>3. \A t \in Servers : Serving(t)' => msg'[t].id \in 1..calls'
    BY <1>1, <1>3, <1>7 DEF Serving
  <2> QED
    BY <1>1, <1>5, <2>1, <2>2, <2>3 DEF Numbered
<1>13. CarriedOnce'
  <2> SUFFICES ASSUME NEW b \in Callers, NEW m \in 1..MaxCalls, Carries(b, m)'
               PROVE  /\ \A d \in Callers : Carries(d, m)' => d = b
                      /\ ~Queued(m)'
                      /\ \A t \in Servers : ~Serves(t, m)'
                      /\ \A c \in Conns : ~In(c, m)'
    BY DEF CarriedOnce
  <2>1. /\ Carries(b, m) /\ ~Queued(m)
        /\ \A d \in Callers : Carries(d, m) => d = b
        /\ \A c \in Conns : ~In(c, m)
    BY <1>5 DEF CarriedOnce
  <2>2. m # M /\ ~Queued(m)'
    BY <1>7, <1>10, <2>1
  <2>3. \A t \in Servers : ~Serves(t, m)'
    BY <1>4, <2>2
  <2>4. \A d \in Callers : Carries(d, m)' => d = b
    BY <1>5, <2>1
  <2>5. \A c \in Conns : ~In(c, m)'
    BY <1>6, <2>1
  <2> QED
    BY <2>2, <2>3, <2>4, <2>5
<1>14. QueuedOnce'
  <2> SUFFICES ASSUME NEW m \in 1..MaxCalls, Queued(m)'
               PROVE  /\ \A i, j \in DOMAIN queue' :
                            queue'[i].id = m /\ queue'[j].id = m => i = j
                      /\ \A t \in Servers : ~Serves(t, m)'
                      /\ \A c \in Conns : ~In(c, m)'
    BY DEF QueuedOnce
  <2>1. Queued(m) /\ m # M
    BY <1>10
  <2>2. \A i, j \in DOMAIN queue' : queue'[i].id = m /\ queue'[j].id = m => i = j
    <3> TAKE i \in DOMAIN queue', j \in DOMAIN queue'
    <3> HAVE queue'[i].id = m /\ queue'[j].id = m
    <3>1. i + 1 = j + 1
      BY <1>9, <2>1 DEF QueuedOnce
    <3> QED
      BY <1>2, <3>1
  <2>3. \A c \in Conns : ~In(c, m)'
    BY <1>6, <2>1 DEF QueuedOnce
  <2>4. \A t \in Servers : ~Serves(t, m)'
    BY <1>4, <2>1
  <2> QED
    BY <2>2, <2>3, <2>4
<1>15. HandedOut'
  <2> SUFFICES ASSUME NEW t \in Servers, NEW m \in 1..MaxCalls, Serves(t, m)'
               PROVE  /\ \A c \in Ahead(t)' \cap Conns : ~In(c, m)'
                      /\ \A c, d \in Conns : \A n \in 1..MaxCalls :
                            Before(c, m, n)' /\ d # c => ~In(d, n)'
    BY DEF HandedOut
  <2>1. m = M
    BY <1>4
  <2>2. \A c \in Conns : ~In(c, m)' /\ \A n : ~Before(c, m, n)'
    BY <1>6, <1>8, <2>1, BeforeIn
  <2> QED
    BY <2>2
<1>16. SameOrder'
  BY <1>6 DEF SameOrder
<1> QED
  BY <1>11, <1>12, <1>13, <1>14, <1>15, <1>16

\* The serve loop keeps the order (hub.go:75-106).
LEMMA ServeOrder ==
    ASSUME TypeOK, OrderInv, NEW s \in Servers, ServeStep(s)
    PROVE  OrderInv'
<1> USE Kinds, HubBroadcastAssumption DEF Goto, At
<1>0. Threaded
  BY ThreadedTypes
<1>1. CASE Take(s) /\ queue # <<>>
  BY <1>1, TakeOrder
<1>2. CASE Take(s) /\ queue = <<>>
  <2>1. UNCHANGED <<once, pc, msg, aim, todo, queue, calls, chan, got>>
    BY <1>2 DEF Take, clientVars
  <2>2. Kept
    BY <2>1, SameStreams
  <2>3. OneLoop' /\ Aimed'
    BY <2>1 DEF OrderInv, OneLoop, Aimed
  <2>4. Calm
    BY <2>1, <2>2 DEF Calm, Carrying, Serving, Ahead
  <2> QED
    BY <2>3, <2>4, CalmKeeps
<1>3. CASE ~Take(s)
  <2>1. /\ UNCHANGED <<queue, calls, chan, got, once>>
        /\ \A t \in Threads : t # s => pc'[t] = pc[t]
        /\ \A t \in Senders : t # s => msg'[t] = msg[t] /\ aim'[t] = aim[t]
        /\ \A t \in Servers : t # s => todo'[t] = todo[t]
        /\ pc[s] \in {"select", "range"}
    BY <1>0, <1>3 DEF ServeStep, Leave, Visit, RangeEnd, hubVars, clientVars, tableVars,
                      Senders, Threaded
  <2>2. /\ Serving(s)' => Serving(s) /\ msg'[s] = msg[s] /\ Ahead(s)' \subseteq Ahead(s)
        /\ pc'[s] \in {"check", "put"} => aim'[s] \in Conns \ todo'[s]
    <3>1. CASE Leave(s) \/ RangeEnd(s)
      BY <1>0, <3>1 DEF Leave, RangeEnd, Serving, Threaded
    <3>2. ASSUME NEW c \in Conns, Visit(s, c)
          PROVE  /\ Serving(s)' => Serving(s) /\ msg'[s] = msg[s] /\ Ahead(s)' \subseteq Ahead(s)
                 /\ pc'[s] \in {"check", "put"} => aim'[s] \in Conns \ todo'[s]
      BY <1>0, <3>2 DEF Visit, Serving, Ahead, Senders, Threaded
    <3> QED
      BY <1>3, <3>1, <3>2 DEF ServeStep
  <2>3. OneLoop'
    BY <2>1, LoopsStay DEF OrderInv
  <2>4. Aimed'
    BY <2>1, <2>2 DEF OrderInv, Aimed, Senders
  <2>5. \A b \in Callers : Carrying(b)' => Carrying(b) /\ msg'[b] = msg[b]
    BY <2>1 DEF Carrying
  <2>6. \A t \in Servers :
          Serving(t)' => Serving(t) /\ msg'[t] = msg[t] /\ Ahead(t)' \subseteq Ahead(t)
    BY <2>1, <2>2 DEF Serving, Ahead
  <2>7. Kept
    BY <2>1, SameStreams
  <2> QED
    BY <2>1, <2>3, <2>4, <2>5, <2>6, <2>7, CalmKeeps DEF Calm
<1> QED
  BY <1>1, <1>2, <1>3

\* The loop puts its message into a channel.
LEMMA ServerPut ==
    ASSUME TypeOK, OrderInv, NEW s \in Servers, SendPut(s)
    PROVE  OrderInv'
<1> USE Kinds DEF OrderInv
<1> DEFINE c == aim[s]
           M == msg[s].id
<1>0. Threaded /\ ClientTypes
  BY ThreadedTypes DEF TypeOK
<1>1. /\ pc[s] = "put" /\ pc' = [pc EXCEPT ![s] = "range"]
      /\ aim' = [aim EXCEPT ![s] = None]
      /\ chan' = [chan EXCEPT ![c] = Append(@, msg[s])]
      /\ UNCHANGED <<once, queue, msg, todo, calls, got>>
  BY DEF SendPut, SendReturns, Goto, At, hubVars
<1>2. c \in Conns /\ c \in Ahead(s) /\ c \notin todo[s] /\ msg[s] \in Messages
  BY <1>0, <1>1 DEF Aimed, Ahead, Threaded
<1>3. Serving(s) /\ Serves(s, M) /\ M \in 1..calls /\ M \in 1..MaxCalls
  BY <1>1, UnderWay DEF Numbered, Serving, Serves
<1>4. /\ \A d \in Conns : \A m : In(d, m)' => In(d, m) \/ (d = c /\ m = M)
      /\ \A d \in Conns : \A m, n :
            Before(d, m, n)' => Before(d, m, n) \/ (d = c /\ n = M /\ In(c, m))
  <2> HIDE DEF c
  <2> QED
    BY <1>0, <1>1, <1>2, StreamPut
<1>5. \A t \in Servers : t # s => pc[t] = "off" /\ pc'[t] = "off"
  BY <1>0, <1>1 DEF OneLoop, Threaded
<1>6. /\ \A t \in Servers : \A m : Serves(t, m)' => t = s /\ m = M
      /\ Ahead(s)' = todo[s]
  BY <1>0, <1>1, <1>5 DEF Serves, Serving, Ahead, Threaded
<1>7. /\ \A b \in Callers : Carrying(b)' <=> Carrying(b)
      /\ \A b \in Callers : \A m : Carries(b, m)' <=> Carries(b, m)
      /\ \A m : Queued(m)' <=> Queued(m)
  BY <1>0, <1>1 DEF Carrying, Carries, Queued, Threaded
<1>8. /\ \A d \in Ahead(s) \cap Conns : ~In(d, M)
      /\ \A d, e \in Conns : \A n \in 1..MaxCalls : Before(d, M, n) /\ e # d => ~In(e, n)
  BY <1>3 DEF HandedOut
<1> HIDE DEF c, M
<1>9. OneLoop' /\ Aimed'
  BY <1>0, <1>1 DEF OneLoop, Aimed, Threaded
<1>10. Numbered'
  <2>1. \A d \in Conns : \A m \in 1..MaxCalls : In(d, m)' => m <= calls'
    BY <1>1, <1>3, <1>4 DEF Numbered
  <2>2. \A t \in Servers : Serving(t)' => msg'[t].id \in 1..calls'
    BY <1>0, <1>1, <1>3, <1>5 DEF Serving, Threaded, M
  <2> QED
    BY <1>1, <1>7, <2>1, <2>2 DEF Numbered
<1>11. CarriedOnce'
  <2> SUFFICES ASSUME NEW b \in Callers, NEW m \in 1..MaxCalls, Carries(b, m)'
               PROVE  /\ \A d \in Callers : Carries(d, m)' => d = b
                      /\ ~Queued(m)'
                      /\ \A t \in Servers : ~Serves(t, m)'
                      /\ \A d \in Conns : ~In(d, m)'
    BY DEF CarriedOnce
  <2>1. /\ Carries(b, m) /\ ~Queued(m) /\ ~Serves(s, m)
        /\ \A d \in Callers : Carries(d, m) => d = b
        /\ \A d \in Conns : ~In(d, m)
    BY <1>7 DEF CarriedOnce
  <2>2. m # M
    BY <1>3, <2>1
  <2> QED
    BY <1>4, <1>6, <1>7, <2>1, <2>2
<1>12. QueuedOnce'
  <2> SUFFICES ASSUME NEW m \in 1..MaxCalls, Queued(m)'
               PROVE  /\ \A i, j \in DOMAIN queue' :
                            queue'[i].id = m /\ queue'[j].id = m => i = j
                      /\ \A t \in Servers : ~Serves(t, m)'
                      /\ \A d \in Conns : ~In(d, m)'
    BY DEF QueuedOnce
  <2>1. /\ Queued(m) /\ ~Serves(s, m)
        /\ \A i, j \in DOMAIN queue : queue[i].id = m /\ queue[j].id = m => i = j
        /\ \A d \in Conns : ~In(d, m)
    BY <1>7 DEF QueuedOnce
  <2>2. m # M
    BY <1>3, <2>1
  <2> QED
    BY <1>1, <1>4, <1>6, <2>1, <2>2
<1>13. HandedOut'
  <2> SUFFICES ASSUME NEW t \in Servers, NEW m \in 1..MaxCalls, Serves(t, m)'
               PROVE  /\ \A d \in Ahead(t)' \cap Conns : ~In(d, m)'
                      /\ \A d, e \in Conns : \A n \in 1..MaxCalls :
                            Before(d, m, n)' /\ e # d => ~In(e, n)'
    BY DEF HandedOut
  <2>1. t = s /\ m = M
    BY <1>6
  <2>2. \A d \in Ahead(t)' \cap Conns : ~In(d, m)'
    <3>1. \A d \in todo[s] : d \in Ahead(s) /\ d # c
      BY <1>2 DEF Ahead
    <3> QED
      BY <1>4, <1>6, <1>8, <2>1, <3>1
  <2>3. ASSUME NEW d \in Conns, NEW e \in Conns, NEW n \in 1..MaxCalls,
               Before(d, m, n)', e # d
        PROVE  ~In(e, n)'
    <3>1. ~In(c, M)
      BY <1>2, <1>8
    <3>2. Before(d, M, n)
      BY <1>4, <2>1, <2>3, <3>1
    <3>3. ~In(e, n)
      BY <1>8, <2>3, <3>2
    <3>4. n # M
      BY <1>3, <3>2 DEF SameOrder
    <3> QED
      BY <1>4, <3>3, <3>4
  <2> QED
    BY <2>2, <2>3
<1>14. SameOrder'
  <2> SUFFICES ASSUME NEW d \in Conns, NEW e \in Conns,
                      NEW m \in 1..MaxCalls, NEW n \in 1..MaxCalls,
                      Before(d, m, n)', Before(e, n, m)'
               PROVE  FALSE
    BY DEF SameOrder
  <2>1. ~In(c, M)
    BY <1>2, <1>8
  <2>2. CASE Before(d, m, n) /\ Before(e, n, m)
    BY <2>2 DEF SameOrder
  <2>3. CASE ~Before(d, m, n)
    <3>1. d = c /\ n = M /\ In(c, m)
      BY <1>4, <2>3
    <3>2. Before(e, M, m)
      BY <1>4, <2>1, <3>1
    <3> QED
      BY <1>2, <1>8, <2>1, <3>1, <3>2, BeforeIn
  <2>4. CASE ~Before(e, n, m)
    <3>1. e = c /\ m = M /\ In(c, n)
      BY <1>4, <2>4
    <3>2. Before(d, M, n)
      BY <1>4, <2>1, <3>1
    <3> QED
      BY <1>2, <1>8, <2>1, <3>1, <3>2, BeforeIn
  <2> QED
    BY <2>2, <2>3, <2>4
<1> QED
  BY <1>9, <1>10, <1>11, <1>12, <1>13, <1>14

\* A caller puts its message into a channel: nobody else has it.
LEMMA CallerPut ==
    ASSUME TypeOK, OrderInv, NEW b \in Callers, SendPut(b), aim[b] \in Conns
    PROVE  OrderInv'
<1> USE Kinds DEF OrderInv
<1> DEFINE c == aim[b]
           M == msg[b].id
<1>0. Threaded /\ ClientTypes
  BY ThreadedTypes DEF TypeOK
<1>1. /\ pc[b] = "put" /\ pc' = [pc EXCEPT ![b] = "idle"]
      /\ aim' = [aim EXCEPT ![b] = None]
      /\ msg' = [msg EXCEPT ![b] = Greeting]
      /\ chan' = [chan EXCEPT ![c] = Append(@, msg[b])]
      /\ UNCHANGED <<once, queue, todo, calls, got>>
  BY DEF SendPut, SendReturns, Goto, At, hubVars
<1>2. c \in Conns /\ msg[b] \in Messages
  BY <1>0 DEF Threaded
<1>3. Carrying(b) /\ Carries(b, M) /\ M \in 1..calls /\ M \in 1..MaxCalls
  BY <1>1, UnderWay DEF Numbered, Carrying, Carries
<1>4. /\ \A d \in Conns : \A m : In(d, m)' => In(d, m) \/ (d = c /\ m = M)
      /\ \A d \in Conns : \A m, n :
            Before(d, m, n)' => Before(d, m, n) \/ (d = c /\ n = M /\ In(c, m))
  <2> HIDE DEF c
  <2> QED
    BY <1>0, <1>1, <1>2, StreamPut
<1>5. /\ \A d \in Callers : Carries(d, M) => d = b
      /\ ~Queued(M)
      /\ \A s \in Servers : ~Serves(s, M)
      /\ \A d \in Conns : ~In(d, M)
  BY <1>3 DEF CarriedOnce
<1>6. /\ \A d \in Callers : Carrying(d)' => d # b /\ Carrying(d) /\ msg'[d] = msg[d]
      /\ \A d \in Callers : \A m : Carries(d, m)' => d # b /\ Carries(d, m)
      /\ \A s \in Servers : /\ Serving(s)' => Serving(s) /\ msg'[s] = msg[s]
                            /\ \A m : Serves(s, m)' => Serves(s, m)
                            /\ Ahead(s)' = Ahead(s)
      /\ \A m : Queued(m)' <=> Queued(m)
  BY <1>0, <1>1 DEF Carrying, Carries, Serving, Serves, Ahead, Queued, Threaded, Senders
<1> HIDE DEF c, M
<1>7. OneLoop' /\ Aimed'
  BY <1>0, <1>1 DEF OneLoop, Aimed, Threaded, Senders
<1>8. Numbered'
  <2>1. \A d \in Conns : \A m \in 1..MaxCalls : In(d, m)' => m <= calls'
    BY <1>1, <1>3, <1>4 DEF Numbered
  <2> QED
    BY <1>1, <1>6, <2>1 DEF Numbered
<1>9. CarriedOnce'
  <2> SUFFICES ASSUME NEW e \in Callers, NEW m \in 1..MaxCalls, Carries(e, m)'
               PROVE  /\ \A d \in Callers : Carries(d, m)' => d = e
                      /\ ~Queued(m)'
                      /\ \A t \in Servers : ~Serves(t, m)'
                      /\ \A d \in Conns : ~In(d, m)'
    BY DEF CarriedOnce
  <2>1. /\ Carries(e, m) /\ e # b /\ ~Queued(m)
        /\ \A t \in Servers : ~Serves(t, m)
        /\ \A d \in Callers : Carries(d, m) => d = e
        /\ \A d \in Conns : ~In(d, m)
    BY <1>6 DEF CarriedOnce
  <2>2. m # M
    BY <1>5, <2>1
  <2> QED
    BY <1>4, <1>6, <2>1, <2>2
<1>10. QueuedOnce'
  <2> SUFFICES ASSUME NEW m \in 1..MaxCalls, Queued(m)'
               PROVE  /\ \A i, j \in DOMAIN queue' :
                            queue'[i].id = m /\ queue'[j].id = m => i = j
                      /\ \A t \in Servers : ~Serves(t, m)'
                      /\ \A d \in Conns : ~In(d, m)'
    BY DEF QueuedOnce
  <2>1. /\ Queued(m)
        /\ \A i, j \in DOMAIN queue : queue[i].id = m /\ queue[j].id = m => i = j
        /\ \A t \in Servers : ~Serves(t, m)
        /\ \A d \in Conns : ~In(d, m)
    BY <1>6 DEF QueuedOnce
  <2>2. m # M
    BY <1>5, <2>1
  <2> QED
    BY <1>1, <1>4, <1>6, <2>1, <2>2
<1>11. HandedOut'
  <2> SUFFICES ASSUME NEW t \in Servers, NEW m \in 1..MaxCalls, Serves(t, m)'
               PROVE  /\ \A d \in Ahead(t)' \cap Conns : ~In(d, m)'
                      /\ \A d, e \in Conns : \A n \in 1..MaxCalls :
                            Before(d, m, n)' /\ e # d => ~In(e, n)'
    BY DEF HandedOut
  <2>1. Serves(t, m) /\ m # M /\ Ahead(t)' = Ahead(t)
    BY <1>5, <1>6
  <2>2. /\ \A d \in Ahead(t) \cap Conns : ~In(d, m)
        /\ \A d, e \in Conns : \A n \in 1..MaxCalls : Before(d, m, n) /\ e # d => ~In(e, n)
    BY <2>1 DEF HandedOut
  <2>3. ASSUME NEW d \in Conns, NEW e \in Conns, NEW n \in 1..MaxCalls,
               Before(d, m, n)', e # d
        PROVE  ~In(e, n)'
    <3>1. CASE Before(d, m, n)
      <4>1. ~In(e, n) /\ n # M
        BY <1>5, <2>2, <2>3, <3>1, BeforeIn
      <4> QED
        BY <1>4, <4>1
    <3>2. CASE ~Before(d, m, n)
      <4>1. d = c /\ n = M
        BY <1>4, <2>3, <3>2
      <4> QED
        BY <1>4, <1>5, <2>3, <4>1
    <3> QED
      BY <3>1, <3>2
  <2> QED
    BY <1>4, <2>1, <2>2, <2>3
<1>12. SameOrder'
  <2> SUFFICES ASSUME NEW d \in Conns, NEW e \in Conns,
                      NEW m \in 1..MaxCalls, NEW n \in 1..MaxCalls,
                      Before(d, m, n)', Before(e, n, m)'
               PROVE  FALSE
    BY DEF SameOrder
  <2>1. ~Before(e, M, m) /\ ~Before(d, M, n) /\ ~In(c, M)
    BY <1>2, <1>5, BeforeIn
  <2>2. CASE Before(d, m, n) /\ Before(e, n, m)
    BY <2>2 DEF SameOrder
  <2>3. CASE ~Before(d, m, n)
    BY <1>4, <2>1, <2>3
  <2>4. CASE ~Before(e, n, m)
    BY <1>4, <2>1, <2>4
  <2> QED
    BY <2>2, <2>3, <2>4
<1> QED
  BY <1>7, <1>8, <1>9, <1>10, <1>11, <1>12

\* A step of one caller that touches no stream, queue or loop, and keeps no message
\* but its own.
LEMMA CallerCalm ==
    ASSUME TypeOK, OrderInv, NEW b \in Callers,
           UNCHANGED <<queue, calls, chan, got, todo>>,
           \A t \in Threads : t # b => pc'[t] = pc[t],
           \A t \in Senders : t # b => msg'[t] = msg[t] /\ aim'[t] = aim[t],
           once = "started" => once' = "started",
           Carrying(b)' => Carrying(b) /\ msg'[b] = msg[b]
    PROVE  OrderInv'
<1> USE Kinds
<1>1. OneLoop' /\ Aimed'
  BY DEF OrderInv, OneLoop, Aimed
<1>2. Kept
  BY SameStreams
<1>3. \A d \in Callers : Carrying(d)' => Carrying(d) /\ msg'[d] = msg[d]
  BY DEF Carrying
<1>4. \A s \in Servers :
        Serving(s)' => Serving(s) /\ msg'[s] = msg[s] /\ Ahead(s)' \subseteq Ahead(s)
  BY DEF Serving, Ahead
<1> QED
  BY <1>1, <1>2, <1>3, <1>4, CalmKeeps DEF Calm

\* The Sends keep the order (client.go:55-70).
LEMMA SendOrder ==
    ASSUME TypeOK, OrderInv, NEW t \in Senders, SendStep(t)
    PROVE  OrderInv'
<1> USE Kinds DEF Goto, At
<1>0. Threaded /\ ClientTypes
  BY ThreadedTypes DEF TypeOK
<1>1. CASE SendCheck(t) /\ t \in Servers
  <2>1. /\ UNCHANGED <<queue, calls, chan, got, once, todo, msg>>
        /\ \A u \in Threads : u # t => pc'[u] = pc[u]
        /\ \A u \in Senders : u # t => aim'[u] = aim[u]
        /\ pc[t] = "check"
        /\ \/ pc'[t] = "put" /\ aim'[t] = aim[t]
           \/ pc'[t] = "range"
    BY <1>0, <1>1 DEF SendCheck, SendReturns, hubVars, clientVars, Threaded
  <2>2. OneLoop'
    BY <2>1, LoopsStay DEF OrderInv
  <2>3. Aimed'
    BY <2>1 DEF OrderInv, Aimed, Senders
  <2>4. \A b \in Callers : Carrying(b)' => Carrying(b) /\ msg'[b] = msg[b]
    BY <2>1 DEF Carrying
  <2>5. \A s \in Servers :
          Serving(s)' => Serving(s) /\ msg'[s] = msg[s] /\ Ahead(s)' \subseteq Ahead(s)
    BY <2>1 DEF Serving, Ahead
  <2>6. Kept
    BY <2>1, SameStreams
  <2> QED
    BY <2>1, <2>2, <2>3, <2>4, <2>5, <2>6, CalmKeeps DEF Calm
<1>2. CASE SendCheck(t) /\ t \in Callers
  <2>1. /\ UNCHANGED <<queue, calls, chan, got, once, todo>>
        /\ \A u \in Threads : u # t => pc'[u] = pc[u]
        /\ \A u \in Senders : u # t => aim'[u] = aim[u] /\ msg'[u] = msg[u]
        /\ pc[t] = "check"
        /\ \/ pc'[t] = "put" /\ msg'[t] = msg[t]
           \/ pc'[t] = "idle"
    BY <1>0, <1>2 DEF SendCheck, SendReturns, hubVars, clientVars, Threaded
  <2>2. Carrying(t)' => Carrying(t) /\ msg'[t] = msg[t]
    BY <2>1 DEF Carrying
  <2> QED
    BY <1>2, <2>1, <2>2, CallerCalm
<1>3. CASE SendPut(t) /\ t \in Servers
  BY <1>3, ServerPut
<1>4. CASE SendPut(t) /\ t \in Callers
  <2>1. CASE aim[t] \in Conns
    BY <1>4, <2>1, CallerPut
  <2>2. CASE aim[t] \notin Conns
    <3>1. chan' = chan
      BY <1>0, <1>4, <2>2 DEF SendPut, ClientTypes, Channels
    <3>2. /\ UNCHANGED <<queue, calls, chan, got, once, todo>>
          /\ \A u \in Threads : u # t => pc'[u] = pc[u]
          /\ \A u \in Senders : u # t => aim'[u] = aim[u] /\ msg'[u] = msg[u]
          /\ pc'[t] = "idle"
      BY <1>0, <1>4, <3>1 DEF SendPut, SendReturns, hubVars, Threaded
    <3>3. ~Carrying(t)'
      BY <3>2 DEF Carrying
    <3> QED
      BY <1>4, <3>2, <3>3, CallerCalm
  <2> QED
    BY <2>1, <2>2
<1> QED
  BY <1>1, <1>2, <1>3, <1>4 DEF SendStep, Senders

\* A new call has a message of its own.
LEMMA NewMessage ==
    ASSUME TypeOK, OrderInv, NEW b \in Callers,
           calls < MaxCalls, calls' = calls + 1,
           UNCHANGED <<queue, chan, got, once, aim, todo>>,
           \A t \in Threads : t # b => pc'[t] = pc[t],
           \A t \in Senders : t # b => msg'[t] = msg[t],
           msg'[b].id = calls + 1
    PROVE  OrderInv'
<1> USE Kinds DEF OrderInv
<1> DEFINE M == calls + 1
<1>1. calls \in Nat /\ M \in 1..MaxCalls /\ M \in 1..calls' /\ M \notin 1..calls
  BY UnderWay, HubBroadcastAssumption
<1>2. /\ \A d \in Callers : d # b => /\ Carrying(d)' => Carrying(d) /\ msg'[d] = msg[d]
                                    /\ \A m : Carries(d, m)' => Carries(d, m)
      /\ \A m : Carries(b, m)' => m = M
  BY DEF Carrying, Carries
<1>3. /\ \A s \in Servers : /\ Serving(s)' => Serving(s) /\ msg'[s] = msg[s]
                            /\ Ahead(s)' = Ahead(s)
      /\ \A s \in Servers : \A m : Serves(s, m)' => Serves(s, m)
      /\ \A m : Queued(m)' <=> Queued(m)
      /\ \A c, m : In(c, m)' <=> In(c, m)
      /\ \A c, m, n : Before(c, m, n)' <=> Before(c, m, n)
  BY DEF Serving, Serves, Ahead, Queued, In, Before, Stream
<1>4. /\ \A d \in Callers : ~Carries(d, M)
      /\ ~Queued(M)
      /\ \A s \in Servers : ~Serves(s, M)
      /\ \A c \in Conns : ~In(c, M)
  BY <1>1 DEF Numbered, Carries, Queued, Serves
<1> HIDE DEF M
<1>5. OneLoop' /\ Aimed'
  BY DEF OneLoop, Aimed
<1>6. Numbered'
  <2>1. \A i \in 1..calls : i \in 1..calls'
    BY <1>1
  <2>2. \A d \in Callers : Carrying(d)' => msg'[d].id \in 1..calls'
    <3> TAKE d \in Callers
    <3>1. CASE d = b
      BY <1>1, <3>1 DEF M
    <3>2. CASE d # b
      BY <1>2, <2>1, <3>2 DEF Numbered
    <3> QED
      BY <3>1, <3>2
  <2>3. \A i \in DOMAIN queue' : queue'[i].id \in 1..calls'
    BY <2>1 DEF Numbered
  <2>4. \A s \in Servers : Serving(s)' => msg'[s].id \in 1..calls'
    BY <1>3, <2>1 DEF Numbered
  <2>5. \A c \in Conns : \A m \in 1..MaxCalls : In(c, m)' => m <= calls'
    BY <1>1, <1>3 DEF Numbered
  <2> QED
    BY <2>2, <2>3, <2>4, <2>5 DEF Numbered
<1>7. CarriedOnce'
  <2> SUFFICES ASSUME NEW e \in Callers, NEW m \in 1..MaxCalls, Carries(e, m)'
               PROVE  /\ \A d \in Callers : Carries(d, m)' => d = e
                      /\ ~Queued(m)'
                      /\ \A s \in Servers : ~Serves(s, m)'
                      /\ \A c \in Conns : ~In(c, m)'
    BY DEF CarriedOnce
  <2>1. CASE e = b
    <3>1. m = M
      BY <1>2, <2>1
    <3>2. \A d \in Callers : Carries(d, m)' => d = e
      BY <1>2, <1>4, <2>1, <3>1
    <3> QED
      BY <1>3, <1>4, <3>1, <3>2
  <2>2. CASE e # b
    <3>1. Carries(e, m) /\ m # M
      BY <1>2, <1>4, <2>2
    <3>2. /\ \A d \in Callers : Carries(d, m) => d = e
          /\ ~Queued(m)
          /\ \A s \in Servers : ~Serves(s, m)
          /\ \A c \in Conns : ~In(c, m)
      BY <3>1 DEF CarriedOnce
    <3>3. \A d \in Callers : Carries(d, m)' => d = e
      BY <1>2, <3>1, <3>2
    <3> QED
      BY <1>3, <3>2, <3>3
  <2> QED
    BY <2>1, <2>2
<1>8. QueuedOnce'
  BY <1>3 DEF QueuedOnce
<1>9. HandedOut'
  <2> SUFFICES ASSUME NEW t \in Servers, NEW m \in 1..MaxCalls, Serves(t, m)'
               PROVE  /\ \A d \in Ahead(t)' \cap Conns : ~In(d, m)'
                      /\ \A d, e \in Conns : \A n \in 1..MaxCalls :
                            Before(d, m, n)' /\ e # d => ~In(e, n)'
    BY DEF HandedOut
  <2> QED
    BY <1>3 DEF HandedOut
<1>10. SameOrder'
  BY <1>3 DEF SameOrder
<1> QED
  BY <1>5, <1>6, <1>7, <1>8, <1>9, <1>10

\* A Broadcast queues the message it carries.
LEMMA Enqueue ==
    ASSUME TypeOK, OrderInv, NEW b \in Callers, pc[b] = "bput",
           queue' = Append(queue, msg[b]), BroadcastReturns(b),
           UNCHANGED <<calls, chan, got, once, aim, todo>>
    PROVE  OrderInv'
<1> USE Kinds DEF OrderInv
<1> DEFINE M == msg[b].id
           new == Len(queue) + 1
<1>0. Threaded
  BY ThreadedTypes
<1>1. pc' = [pc EXCEPT ![b] = "idle"] /\ msg' = [msg EXCEPT ![b] = Greeting]
  BY DEF BroadcastReturns, Goto
<1>2. /\ DOMAIN queue' = 1..new /\ DOMAIN queue = 1..Len(queue) /\ Len(queue) \in Nat
      /\ \A i \in 1..Len(queue) : queue'[i] = queue[i]
      /\ queue'[new] = msg[b]
  <2>1. queue \in Seq(Messages) /\ msg[b] \in Messages
    BY <1>0 DEF Threaded
  <2> QED
    BY <2>1, AppendProperties, LenProperties
<1>3. Carries(b, M) /\ M \in 1..calls /\ M \in 1..MaxCalls
  BY UnderWay DEF Numbered, Carrying, Carries
<1>4. /\ \A d \in Callers : Carries(d, M) => d = b
      /\ ~Queued(M)
      /\ \A s \in Servers : ~Serves(s, M)
      /\ \A c \in Conns : ~In(c, M)
  BY <1>3 DEF CarriedOnce
<1>5. /\ \A d \in Callers : /\ Carrying(d)' => d # b /\ Carrying(d) /\ msg'[d] = msg[d]
                            /\ \A m : Carries(d, m)' => d # b /\ Carries(d, m)
      /\ \A s \in Servers : /\ Serving(s)' => Serving(s) /\ msg'[s] = msg[s]
                            /\ \A m : Serves(s, m)' => Serves(s, m)
                            /\ Ahead(s)' = Ahead(s)
  BY <1>0, <1>1 DEF Carrying, Carries, Serving, Serves, Ahead, Threaded, Senders
<1>6. /\ \A c, m : In(c, m)' <=> In(c, m)
      /\ \A c, m, n : Before(c, m, n)' <=> Before(c, m, n)
  BY DEF In, Before, Stream
<1> HIDE DEF M, new
<1>7. \A i \in DOMAIN queue' : (i = new /\ queue'[i].id = M)
                             \/ (i \in DOMAIN queue /\ queue'[i] = queue[i])
  BY <1>2 DEF M, new
<1>8. \A m : Queued(m)' => Queued(m) \/ m = M
  BY <1>7 DEF Queued
<1>9. OneLoop' /\ Aimed'
  BY <1>0, <1>1 DEF OneLoop, Aimed, Threaded
<1>10. Numbered'
  <2>1. \A i \in DOMAIN queue' : queue'[i].id \in 1..calls'
    BY <1>3, <1>7 DEF Numbered
  <2>2. \A c \in Conns : \A m \in 1..MaxCalls : In(c, m)' => m <= calls'
    BY <1>6 DEF Numbered
  <2> QED
    BY <1>5, <2>1, <2>2 DEF Numbered
<1>11. CarriedOnce'
  <2> SUFFICES ASSUME NEW e \in Callers, NEW m \in 1..MaxCalls, Carries(e, m)'
               PROVE  /\ \A d \in Callers : Carries(d, m)' => d = e
                      /\ ~Queued(m)'
                      /\ \A s \in Servers : ~Serves(s, m)'
                      /\ \A c \in Conns : ~In(c, m)'
    BY DEF CarriedOnce
  <2>1. Carries(e, m) /\ m # M
    BY <1>4, <1>5
  <2>2. /\ \A d \in Callers : Carries(d, m) => d = e
        /\ ~Queued(m)
        /\ \A s \in Servers : ~Serves(s, m)
        /\ \A c \in Conns : ~In(c, m)
    BY <2>1 DEF CarriedOnce
  <2> QED
    BY <1>5, <1>6, <1>8, <2>1, <2>2
<1>12. QueuedOnce'
  <2> SUFFICES ASSUME NEW m \in 1..MaxCalls, Queued(m)'
               PROVE  /\ \A i, j \in DOMAIN queue' :
                            queue'[i].id = m /\ queue'[j].id = m => i = j
                      /\ \A s \in Servers : ~Serves(s, m)'
                      /\ \A c \in Conns : ~In(c, m)'
    BY DEF QueuedOnce
  <2>1. CASE m = M
    <3>1. \A i \in DOMAIN queue' : queue'[i].id = m => i = new
      BY <1>4, <1>7, <2>1 DEF Queued
    <3> QED
      BY <1>4, <1>5, <1>6, <2>1, <3>1
  <2>2. CASE m # M
    <3>1. Queued(m)
      BY <1>8, <2>2
    <3>2. /\ \A i, j \in DOMAIN queue : queue[i].id = m /\ queue[j].id = m => i = j
          /\ \A s \in Servers : ~Serves(s, m)
          /\ \A c \in Conns : ~In(c, m)
      BY <3>1 DEF QueuedOnce
    <3>3. \A i, j \in DOMAIN queue' : queue'[i].id = m /\ queue'[j].id = m => i = j
      BY <1>7, <2>2, <3>2
    <3> QED
      BY <1>5, <1>6, <3>2, <3>3
  <2> QED
    BY <2>1, <2>2
<1>13. HandedOut'
  <2> SUFFICES ASSUME NEW t \in Servers, NEW m \in 1..MaxCalls, Serves(t, m)'
               PROVE  /\ \A d \in Ahead(t)' \cap Conns : ~In(d, m)'
                      /\ \A d, e \in Conns : \A n \in 1..MaxCalls :
                            Before(d, m, n)' /\ e # d => ~In(e, n)'
    BY DEF HandedOut
  <2>1. Serves(t, m) /\ Ahead(t)' = Ahead(t)
    BY <1>5
  <2> QED
    BY <1>6, <2>1 DEF HandedOut
<1>14. SameOrder'
  BY <1>6 DEF SameOrder
<1> QED
  BY <1>9, <1>10, <1>11, <1>12, <1>13, <1>14

\* Broadcasts, SendToUsers and kicks keep the order (hub.go:181-202, 269-350).
LEMMA CallOrder ==
    ASSUME TypeOK, OrderInv, NEW b \in Callers, CallStart(b) \/ CallStep(b)
    PROVE  OrderInv'
<1> USE Kinds DEF Goto, At
<1>0. Threaded /\ calls \in Nat
  BY ThreadedTypes, UnderWay DEF OrderInv
<1>1. ASSUME NEW skip \in Skips, BroadcastAdd(b, skip) PROVE OrderInv'
  <2>1. /\ calls < MaxCalls /\ calls' = calls + 1
        /\ UNCHANGED <<queue, chan, got, once, aim, todo>>
        /\ \A t \in Threads : t # b => pc'[t] = pc[t]
        /\ \A t \in Senders : t # b => msg'[t] = msg[t]
        /\ msg'[b].id = calls + 1
    BY <1>0, <1>1 DEF BroadcastAdd, clientVars, Threaded
  <2> QED
    BY <2>1, NewMessage
<1>2. CASE TellCheck(b)
  <2>1. /\ calls < MaxCalls /\ calls' = calls + 1
        /\ UNCHANGED <<queue, chan, got, once, aim, todo>>
        /\ \A t \in Threads : t # b => pc'[t] = pc[t]
        /\ \A t \in Senders : t # b => msg'[t] = msg[t]
        /\ msg'[b].id = calls + 1
    BY <1>0, <1>2 DEF TellCheck, CallCheck, hubVars, clientVars, Threaded
  <2> QED
    BY <2>1, NewMessage
<1>3. CASE KickCheck(b)
  <2>1. /\ calls' = calls + 1 /\ UNCHANGED <<queue, chan, got, once, aim, todo, msg>>
        /\ pc' = [pc EXCEPT ![b] = "kick"]
    BY <1>3 DEF KickCheck, CallCheck, hubVars, clientVars
  <2> USE DEF OrderInv
  <2>2. /\ \A d \in Callers : Carrying(d)' => Carrying(d)
        /\ \A d \in Callers : \A m : Carries(d, m)' => Carries(d, m)
        /\ \A s \in Servers : /\ Serving(s)' <=> Serving(s)
                              /\ \A m : Serves(s, m)' <=> Serves(s, m)
                              /\ Ahead(s)' = Ahead(s)
        /\ \A m : Queued(m)' <=> Queued(m)
    BY <1>0, <2>1 DEF Carrying, Carries, Serving, Serves, Ahead, Queued, Threaded
  <2>3. /\ \A c, m : In(c, m)' <=> In(c, m)
        /\ \A c, m, n : Before(c, m, n)' <=> Before(c, m, n)
    BY <2>1 DEF In, Before, Stream
  <2>4. OneLoop' /\ Aimed'
    BY <1>0, <2>1 DEF OneLoop, Aimed, Threaded
  <2>5. Numbered'
    <3>1. \A i \in 1..calls : i \in 1..calls'
      BY <1>0, <2>1
    <3>2. \A c \in Conns : \A m \in 1..MaxCalls : In(c, m)' => m <= calls'
      BY <1>0, <2>1, <2>3 DEF Numbered
    <3>3. \A i \in DOMAIN queue' : queue'[i].id \in 1..calls'
      BY <2>1, <3>1 DEF Numbered
    <3> QED
      BY <2>1, <2>2, <3>1, <3>2, <3>3 DEF Numbered
  <2>6. CarriedOnce'
    BY <2>2, <2>3 DEF CarriedOnce
  <2>7. QueuedOnce'
    BY <2>1, <2>2, <2>3 DEF QueuedOnce
  <2>8. HandedOut'
    BY <2>2, <2>3 DEF HandedOut
  <2>9. SameOrder'
    BY <2>3 DEF SameOrder
  <2> QED
    BY <2>4, <2>5, <2>6, <2>7, <2>8, <2>9
<1>4. CASE BroadcastCheck(b)
  <2>1. /\ UNCHANGED <<queue, calls, chan, got, todo>>
        /\ \A t \in Threads : t # b => pc'[t] = pc[t]
        /\ \A t \in Senders : t # b => msg'[t] = msg[t] /\ aim'[t] = aim[t]
        /\ once = "started" => once' = "started"
        /\ pc[b] = "bcheck"
        /\ pc'[b] = "idle" \/ msg'[b] = msg[b]
    BY <1>0, <1>4 DEF BroadcastCheck, BroadcastReturns, OnceDone, clientVars, Threaded
  <2>2. Carrying(b)' => Carrying(b) /\ msg'[b] = msg[b]
    BY <2>1 DEF Carrying
  <2> QED
    BY <2>1, <2>2, CallerCalm
<1>5. CASE BroadcastPut(b)
  <2>1. UNCHANGED <<calls, chan, got, once, aim, todo>> /\ pc[b] = "bput"
    BY <1>5 DEF BroadcastPut, clientVars
  <2>2. CASE queue' = Append(queue, msg[b]) /\ BroadcastReturns(b)
    BY <2>1, <2>2, Enqueue
  <2>3. CASE UNCHANGED <<queue, msg, pc>> \/ (BroadcastReturns(b) /\ UNCHANGED queue)
    <3>1. /\ UNCHANGED <<queue, calls, chan, got, todo, once>>
          /\ \A t \in Threads : t # b => pc'[t] = pc[t]
          /\ \A t \in Senders : t # b => msg'[t] = msg[t] /\ aim'[t] = aim[t]
          /\ pc'[b] = "idle" \/ msg'[b] = msg[b]
      BY <1>0, <2>1, <2>3 DEF BroadcastReturns, Threaded
    <3>2. Carrying(b)' => Carrying(b) /\ msg'[b] = msg[b]
      BY <2>1, <3>1 DEF Carrying
    <3> QED
      BY <3>1, <3>2, CallerCalm
  <2> QED
    BY <1>5, <2>2, <2>3 DEF BroadcastPut
<1>6. ASSUME NEW c \in Told, Tell(b, c) PROVE OrderInv'
  <2>1. /\ UNCHANGED <<queue, calls, chan, got, todo, once>>
        /\ \A t \in Threads : t # b => pc'[t] = pc[t]
        /\ \A t \in Senders : t # b => msg'[t] = msg[t] /\ aim'[t] = aim[t]
        /\ pc[b] = "tell"
        /\ pc'[b] = "idle" \/ msg'[b] = msg[b]
    BY <1>0, <1>6 DEF Tell, NotFound, RLocked, hubVars, Threaded
  <2>2. Carrying(b)' => Carrying(b) /\ msg'[b] = msg[b]
    BY <2>1 DEF Carrying
  <2> QED
    BY <2>1, <2>2, CallerCalm
<1>7. ASSUME NEW c \in Kicked, Kick(b, c) PROVE OrderInv'
  <2>1. /\ UNCHANGED <<queue, calls, chan, got, todo, once>>
        /\ \A t \in Threads : t # b => pc'[t] = pc[t]
        /\ \A t \in Senders : t # b => msg'[t] = msg[t] /\ aim'[t] = aim[t]
        /\ pc'[b] \in {"idle", "kicking"}
    BY <1>0, <1>7 DEF Kick, NotFound, RLocked, hubVars, Threaded
  <2>2. ~Carrying(b)'
    BY <2>1 DEF Carrying
  <2> QED
    BY <2>1, <2>2, CallerCalm
<1>8. CASE KickEnd(b)
  <2>1. /\ UNCHANGED <<queue, calls, chan, got, todo, once>>
        /\ \A t \in Threads : t # b => pc'[t] = pc[t]
        /\ \A t \in Senders : t # b => msg'[t] = msg[t] /\ aim'[t] = aim[t]
        /\ pc'[b] = "idle"
    BY <1>0, <1>8 DEF KickEnd, SendReturns, hubVars, Threaded
  <2>2. ~Carrying(b)'
    BY <2>1 DEF Carrying
  <2> QED
    BY <2>1, <2>2, CallerCalm
<1> QED
  BY <1>1, <1>2, <1>3, <1>4, <1>5, <1>6, <1>7, <1>8 DEF CallStart, CallStep

\* A step of a handler or of the closer that adds no numbered message to a stream and
\* starts no loop.
LEMMA OtherCalm ==
    ASSUME TypeOK, OrderInv, Kept, UNCHANGED <<queue, calls, once, msg>>,
           \A t \in Senders : pc'[t] = pc[t] /\ aim'[t] = aim[t],
           \A s \in Servers : todo'[s] = todo[s]
    PROVE  OrderInv'
<1> USE Kinds
<1>1. OneLoop' /\ Aimed'
  BY DEF OrderInv, OneLoop, Aimed
<1>2. \A b \in Callers : Carrying(b)' => Carrying(b) /\ msg'[b] = msg[b]
  BY DEF Carrying
<1>3. \A s \in Servers :
        Serving(s)' => Serving(s) /\ msg'[s] = msg[s] /\ Ahead(s)' \subseteq Ahead(s)
  BY DEF Serving, Ahead
<1> QED
  BY <1>1, <1>2, <1>3, CalmKeeps DEF Calm

\* The handlers keep the order; a registration starts the loop at most once
\* (hub.go:66-73, websocket.go:53-188).
LEMMA HandlerOrder ==
    ASSUME TypeOK, OrderInv, NEW c \in Conns,
           Join(c) \/ HandlerStep(c) \/ HangUp(c) \/ HangUpEnd(c)
    PROVE  OrderInv'
<1> USE Kinds DEF Goto, At
<1>0. Threaded /\ ClientTypes
  BY ThreadedTypes DEF TypeOK
<1>1. CASE Join(c)
  <2>1. UNCHANGED <<queue, calls, chan, got, msg, aim, todo>> /\ pc[c] = "join"
    BY <1>1 DEF Join, clientVars
  <2>2. Kept
    BY <2>1, SameStreams
  <2>3. CASE UNCHANGED once /\ \A t \in Senders : pc'[t] = pc[t]
    BY <2>1, <2>2, <2>3, OtherCalm
  <2>4. ASSUME NEW s \in Servers, once = "new", once' = "started", pc[s] = "off",
               pc' = [pc EXCEPT ![c] = "enter", ![s] = "select"]
        PROVE  OrderInv'
    <3>1. \A t \in Servers : pc[t] = "off"
      BY <2>4 DEF OrderInv, OneLoop
    <3>2. /\ pc'[s] = "select"
          /\ \A t \in Senders : t # s => pc'[t] = pc[t]
      BY <1>0, <2>4 DEF Threaded, Senders
    <3>3. OneLoop' /\ Aimed'
      BY <2>4, <3>1, <3>2 DEF OneLoop, Aimed, Senders
    <3>4. \A b \in Callers : Carrying(b)' => Carrying(b) /\ msg'[b] = msg[b]
      BY <2>1, <3>2 DEF Carrying
    <3>5. \A t \in Servers : ~Serving(t)'
      BY <3>1, <3>2 DEF Serving
    <3> QED
      BY <2>1, <2>2, <3>3, <3>4, <3>5, CalmKeeps DEF Calm
  <2>5. CASE closed
    BY <1>0, <1>1, <2>3, <2>5 DEF Join, Threaded, Senders
  <2>6. CASE ~closed
    <3>1. CASE once = "new" /\ once' = "started" /\ \E s \in Servers :
                 pc[s] = "off" /\ pc' = [pc EXCEPT ![c] = "enter", ![s] = "select"]
      BY <2>4, <3>1
    <3>2. CASE UNCHANGED once /\ pc' = [pc EXCEPT ![c] = "enter"]
      BY <1>0, <2>3, <3>2 DEF Threaded, Senders
    <3> QED
      BY <1>1, <2>6, <3>1, <3>2 DEF Join, OnceDo
  <2> QED
    BY <2>5, <2>6
<1>2. CASE HandlerStep(c) \/ HangUp(c) \/ HangUpEnd(c)
  <2>1. /\ UNCHANGED <<queue, calls, once, msg, aim, todo>>
        /\ \A t \in Senders : pc'[t] = pc[t]
    BY <1>0, <1>2 DEF HandlerStep, Enter, GreetCheck, GreetPut, Deliver, UnregCheck,
       UnregDelete, CloseClient, CloseClientEnd, HangUp, HangUpEnd, hubVars, Threaded, Senders
  <2>2. Kept
    <3>1. CASE GreetPut(c)
      <4>1. \A d \in Conns : \A m, n :
              /\ In(d, m)' => In(d, m) \/ m = 0
              /\ Before(d, m, n)' => Before(d, m, n) \/ n = 0
        <5>1. Greeting \in Messages /\ Greeting.id = 0
          BY NewMessages DEF Greeting
        <5>2. chan' = [chan EXCEPT ![c] = Append(@, Greeting)] /\ UNCHANGED got
          BY <3>1 DEF GreetPut
        <5> QED
          BY <1>0, <5>1, <5>2, StreamPut
      <4> QED
        BY <4>1 DEF Kept
    <3>2. CASE Deliver(c)
      <4>1. CASE chan[c] # <<>> /\ chan' = [chan EXCEPT ![c] = Tail(@)]
                 /\ got' = [got EXCEPT ![c] = Append(@, Head(chan[c]).id)]
        BY <1>0, <4>1, StreamTake
      <4>2. CASE chan[c] # <<>> /\ chan' = [chan EXCEPT ![c] = Tail(@)] /\ UNCHANGED got
        BY <1>0, <4>2, StreamLose
      <4>3. CASE UNCHANGED <<chan, got>>
        BY <4>3, SameStreams
      <4> QED
        BY <3>2, <4>1, <4>2, <4>3 DEF Deliver
    <3>3. CASE ~GreetPut(c) /\ ~Deliver(c)
      <4>1. UNCHANGED <<chan, got>>
        BY <1>2, <3>3 DEF HandlerStep, Enter, GreetCheck, UnregCheck, UnregDelete,
           CloseClient, CloseClientEnd, HangUp, HangUpEnd, clientVars
      <4> QED
        BY <4>1, SameStreams
    <3> QED
      BY <3>1, <3>2, <3>3
  <2> QED
    BY <2>1, <2>2, OtherCalm
<1> QED
  BY <1>1, <1>2

\* Close keeps the order.
LEMMA CloserOrder ==
    ASSUME TypeOK, OrderInv, CloseSwap \/ CloserStep
    PROVE  OrderInv'
<1> USE Kinds DEF Goto, At
<1>0. Threaded
  BY ThreadedTypes
<1>1. /\ UNCHANGED <<queue, calls, once, msg, chan, got>>
      /\ \A t \in Senders : pc'[t] = pc[t] /\ aim'[t] = aim[t]
      /\ \A s \in Servers : todo'[s] = todo[s]
  <2>1. CASE CloseSwap \/ CloseExit \/ CloseWait \/ CloseQueue
    BY <1>0, <2>1 DEF CloseSwap, CloseExit, CloseWait, CloseQueue, hubVars, clientVars,
                      Threaded, Senders
  <2>2. ASSUME NEW c \in Conns, CloseVisit(c)
        PROVE  /\ UNCHANGED <<queue, calls, once, msg, chan, got>>
               /\ \A t \in Senders : pc'[t] = pc[t] /\ aim'[t] = aim[t]
               /\ \A s \in Servers : todo'[s] = todo[s]
    BY <1>0, <2>2 DEF CloseVisit, hubVars, Threaded, Senders
  <2>3. CASE CloseSweepEnd
    BY <1>0, <2>3 DEF CloseSweepEnd, hubVars, Threaded, Senders
  <2> QED
    BY <2>1, <2>2, <2>3 DEF CloserStep
<1>2. Kept
  BY <1>1, SameStreams
<1> QED
  BY <1>1, <1>2, OtherCalm

\* At every step a message is in one place on its way, the serve loop is alone, and
\* whoever has something later than what the loop hands out has it for itself.
THEOREM OrderKept == Spec => []OrderInv
<1>1. ASSUME Init PROVE OrderInv
  <2>1. \A c \in Conns : DOMAIN Stream(c) = {}
    <3> TAKE c \in Conns
    <3>1. got[c] = <<>> /\ chan[c] = <<>>
      BY <1>1 DEF Init
    <3>2. Stream(c) = <<>> \o Ids(<<>>)
      BY <3>1, Streams
    <3>3. Ids(<<>>) = <<>>
      BY DEF Ids
    <3> QED
      BY <3>2, <3>3
  <2>2. \A c \in Conns : \A m, n : ~In(c, m) /\ ~Before(c, m, n)
    BY <2>1 DEF In, Before
  <2>3. queue = <<>> /\ DOMAIN queue = {}
    BY <1>1 DEF Init
  <2>4. /\ \A s \in Servers : pc[s] = "off"
        /\ \A b \in Callers : pc[b] = "idle"
    BY <1>1, Kinds DEF Init
  <2>5. OneLoop /\ Aimed
    BY <2>4 DEF OneLoop, Aimed
  <2>6. /\ \A s \in Servers : ~Serving(s) /\ \A m : ~Serves(s, m)
        /\ \A b \in Callers : ~Carrying(b) /\ \A m : ~Carries(b, m)
        /\ \A m : ~Queued(m)
    BY <2>3, <2>4 DEF Serving, Serves, Carrying, Carries, Queued
  <2>7. Numbered /\ CarriedOnce /\ QueuedOnce /\ HandedOut /\ SameOrder
    BY <2>2, <2>3, <2>6 DEF Numbered, CarriedOnce, QueuedOnce, HandedOut, SameOrder
  <2> QED
    BY <2>5, <2>7 DEF OrderInv
<1>2. TypeOK /\ OrderInv /\ [Next]_vars => OrderInv'
  <2>1. TypeOK /\ OrderInv /\ UNCHANGED vars => OrderInv'
    <3> SUFFICES ASSUME TypeOK, OrderInv, UNCHANGED vars PROVE OrderInv'
      OBVIOUS
    <3>1. UNCHANGED <<queue, calls, once, msg, chan, got, pc, aim, todo>>
      BY DEF vars, hubVars, clientVars
    <3>2. Kept
      BY <3>1, SameStreams
    <3> QED
      BY <3>1, <3>2, OtherCalm
  <2> QED
    BY <2>1, ServeOrder, SendOrder, CallOrder, HandlerOrder, CloserOrder DEF Next
<1> QED
  BY <1>1, <1>2, TypeCorrect, PTL DEF Spec

\* Two viewers who both get two messages get them in the same order, and nobody gets one
\* twice, for any capacities of the queue and the channels, any number of viewers and of
\* concurrent callers, whatever is closed or fails (hub.go:66-106).
THEOREM OneOrder == Spec => []SameOrder
<1>1. OrderInv => SameOrder
  BY DEF OrderInv
<1> QED
  BY <1>1, OrderKept, PTL
=============================================================================
