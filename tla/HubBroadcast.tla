---------------------------- MODULE HubBroadcast -----------------------------
(***************************************************************************)
(* How a hub carries messages to its connections (internal/op/hub.go): the *)
(* bounded queue that Broadcast fills, the serve loop that empties it into *)
(* the channels of the registered clients, the Once that starts the loop,  *)
(* the handlers that drain the channels, and Close.  The table of clients  *)
(* is HubClients' subject and the channel's own protocol Client's: here    *)
(* every user has one connection, registering is one locked step, and a    *)
(* client is open, closing or closed.  Behaviours end at the first panic.  *)
(***************************************************************************)
EXTENDS Naturals, Sequences, FiniteSets

CONSTANTS
    Conns,     \* the handlers of the websocket connections
    Servers,   \* goroutines that Start may launch to run serve
    Callers,   \* goroutines that broadcast, send to a user or kick one
    Closer,    \* the goroutine that closes the hub
    None,
    Cap,       \* capacity of Hub.broadcast (128 in the code)
    ClientCap, \* capacity of Client.c (128 in the code)
    MaxCalls,  \* bound: how many calls the callers make
    Skips,     \* bound: the sets of connections a broadcast may leave out
    Told,      \* bound: the connections SendToUser is called for
    Kicked,    \* bound: the connections KickUser is called for
    MayFail,   \* bound: the connections whose network may fail
    MayClose   \* bound: whether the hub is ever closed

Senders == Servers \cup Callers
Threads == Conns \cup Senders \cup {Closer}

ASSUME HubBroadcastAssumption ==
    /\ Conns \cap Senders = {} /\ Servers \cap Callers = {}
    /\ Closer \notin Conns \cup Senders /\ None \notin Threads
    /\ Cap \in Nat \ {0} /\ ClientCap \in Nat \ {0} /\ MaxCalls \in Nat
    /\ Skips \subseteq SUBSET Conns /\ Told \subseteq Conns /\ Kicked \subseteq Conns
    /\ MayFail \subseteq Conns
    /\ MayClose \in BOOLEAN

VARIABLES
    once,    \* Hub.once: "new" (0), "started" (1) or "spent" (2)
    closed,  \* Hub.closed
    exit,    \* close(h.exit) has run
    adding,  \* Hub.wg: the goroutines inside Broadcast
    queue,   \* the messages in Hub.broadcast
    qClosed, \* close(h.broadcast) has run
    reg,     \* the connections in the table of clients
    readers, \* who holds clients.lock of a connection's user for reading
    chan,    \* the messages in each Client.c
    client,  \* each client: "open"; "closing" or, by its reader, "hangup" once its
             \* flag is set; "closed" once its channel is
    up,      \* no write to the network connection has failed
    got,     \* history: what each connection has been sent, in order
    pc,      \* where each goroutine is
    msg,     \* the message each sender carries
    aim,     \* the connection each sender or the closer works on
    todo,    \* the connections a Range has yet to visit
    calls,   \* how many calls have been made; also the last message's number
    panic    \* the first panic, "none" before

hubVars == <<once, closed, exit, adding, queue, qClosed>>
tableVars == <<reg, readers>>
clientVars == <<chan, client, up, got>>
vars == <<hubVars, tableVars, clientVars, pc, msg, aim, todo, calls, panic>>

ConnSteps == {"join", "enter", "greet", "greetput", "recv", "unreg", "delete",
              "close", "closing", "gone"}
SendSteps == {"check", "put"}
ServerSteps == {"off", "select", "range", "left"} \cup SendSteps
CallerSteps == {"idle", "bcheck", "bput", "tell", "kick", "kicking"} \cup SendSteps
CloserSteps == {"running", "exit", "range", "sweep", "drained", "done"}

Goto(t, l) == pc' = [pc EXCEPT ![t] = l]

At(t, l) == panic = "none" /\ pc[t] = l

\* The viewer count a handler greets its client with is message 0.
Greeting == [id |-> 0, skip |-> {}]
Messages == [id : 0..MaxCalls, skip : Skips \cup {{}}]

\* Goroutines between wg.Add and wg.Done of Client.Send.
Sending(c) ==
    {t \in Senders : pc[t] \in {"check", "put"} /\ aim[t] = c}
    \cup {t \in {c} : pc[t] \in {"greet", "greetput"}}

Init ==
    /\ once = "new"
    /\ closed = FALSE /\ exit = FALSE /\ adding = {}
    /\ queue = <<>> /\ qClosed = FALSE
    /\ reg = {} /\ readers = [c \in Conns |-> {}]
    /\ chan = [c \in Conns |-> <<>>]
    /\ client = [c \in Conns |-> "open"]
    /\ up = [c \in Conns |-> TRUE]
    /\ got = [c \in Conns |-> <<>>]
    /\ pc = [t \in Threads |-> IF t \in Conns THEN "join"
                               ELSE IF t \in Servers THEN "off"
                               ELSE IF t \in Callers THEN "idle" ELSE "running"]
    /\ msg = [t \in Senders |-> Greeting]
    /\ aim = [t \in Senders \cup {Closer} |-> None]
    /\ todo = [t \in Servers \cup {Closer} |-> {}]
    /\ calls = 0
    /\ panic = "none"

-----------------------------------------------------------------------------
(* The locks of the table.  Only the closer stops while it holds one for      *)
(* writing; every other write section is one step.                           *)

WriteLocked(c) == pc[Closer] = "sweep" /\ aim[Closer] = c

CanRLock(c) == ~WriteLocked(c)

CanLock(c) == ~WriteLocked(c) /\ readers[c] = {}

RUnlocked(t, c) == [readers EXCEPT ![c] = @ \ {t}]

-----------------------------------------------------------------------------
(* Client.Send, by a sender that holds the read lock of the client's user. *)

\* Where a sender goes when its Send has returned and, for a caller, when it has
\* returned the read lock.
SendReturns(t) ==
    /\ readers' = RUnlocked(t, aim[t])
    /\ aim' = [aim EXCEPT ![t] = None]
    /\ msg' = IF t \in Servers THEN msg ELSE [msg EXCEPT ![t] = Greeting]
    /\ Goto(t, IF t \in Servers THEN "range" ELSE "idle")

\* A closed client refuses; the sender's c.Close() on it then does nothing.
SendCheck(t) ==
    /\ At(t, "check")
    /\ IF client[aim[t]] = "open"
       THEN /\ Goto(t, "put")
            /\ UNCHANGED <<readers, aim, msg>>
       ELSE SendReturns(t)
    /\ UNCHANGED <<hubVars, reg, clientVars, todo, calls, panic>>

\* Mutant: a message for which the channel has no room is dropped.
SendPutDropping(t) ==
    /\ At(t, "put")
    /\ chan' = IF Len(chan[aim[t]]) < ClientCap
               THEN [chan EXCEPT ![aim[t]] = Append(@, msg[t])] ELSE chan
    /\ SendReturns(t)
    /\ UNCHANGED <<hubVars, reg, client, up, got, todo, calls, panic>>

SendPut(t) ==
    /\ At(t, "put")
    /\ Len(chan[aim[t]]) < ClientCap
    /\ chan' = [chan EXCEPT ![aim[t]] = Append(@, msg[t])]
    /\ SendReturns(t)
    /\ UNCHANGED <<hubVars, reg, client, up, got, todo, calls, panic>>

-----------------------------------------------------------------------------
(* serve *)

\* case message := <-h.broadcast.  A closed, empty queue yields nil, and the
\* loop dereferences it.
Take(s) ==
    /\ At(s, "select")
    /\ IF queue # <<>>
       THEN /\ msg' = [msg EXCEPT ![s] = Head(queue)]
            /\ queue' = Tail(queue)
            /\ todo' = [todo EXCEPT ![s] = Conns]
            /\ Goto(s, "range")
            /\ UNCHANGED panic
       ELSE /\ qClosed
            /\ panic' = "nil message"
            /\ UNCHANGED <<msg, queue, todo, pc>>
    /\ UNCHANGED <<once, closed, exit, adding, qClosed, tableVars, clientVars, aim, calls>>

\* case <-h.exit
Leave(s) ==
    /\ At(s, "select")
    /\ exit
    /\ Goto(s, "left")
    /\ UNCHANGED <<hubVars, tableVars, clientVars, msg, aim, todo, calls, panic>>

\* The next entry of the Range: skipped when it is not there or not addressed,
\* else read-locked.
Visit(s, c) ==
    /\ At(s, "range")
    /\ c \in todo[s]
    /\ todo' = [todo EXCEPT ![s] = @ \ {c}]
    /\ IF c \notin reg \/ c \in msg[s].skip
       THEN UNCHANGED <<readers, aim, pc>>
       ELSE /\ CanRLock(c)
            /\ readers' = [readers EXCEPT ![c] = @ \cup {s}]
            /\ aim' = [aim EXCEPT ![s] = c]
            /\ Goto(s, "check")
    /\ UNCHANGED <<hubVars, reg, clientVars, msg, calls, panic>>

RangeEnd(s) ==
    /\ At(s, "range")
    /\ todo[s] = {}
    /\ msg' = [msg EXCEPT ![s] = Greeting]
    /\ Goto(s, "select")
    /\ UNCHANGED <<hubVars, tableVars, clientVars, aim, todo, calls, panic>>

-----------------------------------------------------------------------------
(* Broadcast, SendToUser and KickUser *)

\* h.wg.Add(1), with a new message.
BroadcastAdd(b, skip) ==
    /\ At(b, "idle")
    /\ calls < MaxCalls
    /\ calls' = calls + 1
    /\ msg' = [msg EXCEPT ![b] = [id |-> calls + 1, skip |-> skip]]
    /\ adding' = adding \cup {b}
    /\ Goto(b, "bcheck")
    /\ UNCHANGED <<once, closed, exit, queue, qClosed, tableVars, clientVars, aim, todo, panic>>

\* The deferred h.wg.Done().
BroadcastReturns(b) ==
    /\ adding' = adding \ {b}
    /\ msg' = [msg EXCEPT ![b] = Greeting]
    /\ Goto(b, "idle")

\* once.Done(): a Once that has not run will never run.
OnceDone == IF once = "new" THEN "spent" ELSE once

\* The closed check, then h.once.Done().
BroadcastCheck(b) ==
    /\ At(b, "bcheck")
    /\ IF closed
       THEN /\ BroadcastReturns(b)
            /\ UNCHANGED once
       ELSE /\ once' = OnceDone
            /\ Goto(b, "bput")
            /\ UNCHANGED <<adding, msg>>
    /\ UNCHANGED <<closed, exit, queue, qClosed, tableVars, clientVars, aim, todo, calls, panic>>

\* Mutant: the send to the queue has no way out.
BroadcastPutBlocking(b) ==
    /\ At(b, "bput")
    /\ \/ /\ qClosed
          /\ panic' = "send on closed channel"
          /\ UNCHANGED <<queue, adding, msg, pc>>
       \/ /\ ~qClosed /\ Len(queue) < Cap
          /\ queue' = Append(queue, msg[b])
          /\ BroadcastReturns(b)
          /\ UNCHANGED panic
    /\ UNCHANGED <<once, closed, exit, qClosed, tableVars, clientVars, aim, todo, calls>>

\* The select between the queue and exit, and the deferred Done.  A send on the
\* closed queue panics.
BroadcastPut(b) ==
    /\ At(b, "bput")
    /\ \/ /\ qClosed
          /\ panic' = "send on closed channel"
          /\ UNCHANGED <<queue, adding, msg, pc>>
       \/ /\ ~qClosed /\ Len(queue) < Cap
          /\ queue' = Append(queue, msg[b])
          /\ BroadcastReturns(b)
          /\ UNCHANGED panic
       \/ /\ exit
          /\ BroadcastReturns(b)
          /\ UNCHANGED <<queue, panic>>
    /\ UNCHANGED <<once, closed, exit, qClosed, tableVars, clientVars, aim, todo, calls>>

\* The closed check of SendToUser and of KickUser; a closed hub does nothing.
CallCheck(b, step) ==
    /\ At(b, "idle")
    /\ calls < MaxCalls /\ ~closed
    /\ calls' = calls + 1
    /\ Goto(b, step)
    /\ UNCHANGED <<hubVars, tableVars, clientVars, aim, todo, panic>>

TellCheck(b) ==
    /\ CallCheck(b, "tell")
    /\ Told # {}
    /\ msg' = [msg EXCEPT ![b] = [id |-> calls + 1, skip |-> {}]]

KickCheck(b) ==
    /\ CallCheck(b, "kick")
    /\ Kicked # {}
    /\ UNCHANGED msg

\* The user is not in the table.
NotFound(b) ==
    /\ msg' = [msg EXCEPT ![b] = Greeting]
    /\ Goto(b, "idle")
    /\ UNCHANGED <<client, readers, aim>>

RLocked(b, c) ==
    /\ CanRLock(c)
    /\ readers' = [readers EXCEPT ![c] = @ \cup {b}]
    /\ aim' = [aim EXCEPT ![b] = c]

\* SendToUser: load, read-lock and Send a message of its own.
Tell(b, c) ==
    /\ At(b, "tell")
    /\ IF c \notin reg
       THEN NotFound(b)
       ELSE /\ RLocked(b, c)
            /\ Goto(b, "check")
            /\ UNCHANGED <<client, msg>>
    /\ UNCHANGED <<hubVars, reg, chan, up, got, todo, calls, panic>>

\* KickUser: load and read-lock; the lock is held until the client's Close
\* returns.  A client that is closed already is left alone.
Kick(b, c) ==
    /\ At(b, "kick")
    /\ \/ /\ c \notin reg \/ (CanRLock(c) /\ client[c] # "open")
          /\ NotFound(b)
       \/ /\ c \in reg /\ client[c] = "open"
          /\ RLocked(b, c)
          /\ client' = [client EXCEPT ![c] = "closing"]
          /\ Goto(b, "kicking")
          /\ UNCHANGED msg
    /\ UNCHANGED <<hubVars, reg, chan, up, got, todo, calls, panic>>

KickEnd(b) ==
    /\ At(b, "kicking")
    /\ Sending(aim[b]) = {}
    /\ client' = [client EXCEPT ![aim[b]] = "closed"]
    /\ SendReturns(b)
    /\ UNCHANGED <<hubVars, reg, chan, up, got, todo, calls, panic>>

-----------------------------------------------------------------------------
(* A connection's handler: NewClient, the greeting, the writer, the end. *)

\* Mutant: every registration launches a serve.
JoinStarting(c) ==
    /\ At(c, "join")
    /\ ~closed
    /\ \E s \in Servers :
          /\ pc[s] = "off"
          /\ pc' = [pc EXCEPT ![c] = "enter", ![s] = "select"]
    /\ once' = "started"
    /\ UNCHANGED <<closed, exit, adding, queue, qClosed, tableVars, clientVars,
                   msg, aim, todo, calls, panic>>

\* once.Do(...) in Start, then the handler goes on: only a Once that has not
\* run launches a serve.
OnceDo(c) ==
    \/ /\ once = "new"
       /\ \E s \in Servers :
             /\ pc[s] = "off"
             /\ pc' = [pc EXCEPT ![c] = "enter", ![s] = "select"]
       /\ once' = "started"
    \/ /\ once # "new"
       /\ Goto(c, "enter")
       /\ UNCHANGED once

\* RegClient's closed check and Start.
Join(c) ==
    /\ At(c, "join")
    /\ IF closed
       THEN /\ Goto(c, "gone")
            /\ UNCHANGED once
       ELSE OnceDo(c)
    /\ UNCHANGED <<closed, exit, adding, queue, qClosed, tableVars, clientVars,
                   msg, aim, todo, calls, panic>>

\* The rest of RegClient; a hub that is closing may turn the client away.
Enter(c) ==
    /\ At(c, "enter")
    /\ \/ /\ CanLock(c)
          /\ reg' = reg \cup {c}
          /\ Goto(c, "greet")
       \/ /\ closed
          /\ Goto(c, "gone")
          /\ UNCHANGED reg
    /\ UNCHANGED <<hubVars, readers, clientVars, msg, aim, todo, calls, panic>>

GreetCheck(c) ==
    /\ At(c, "greet")
    /\ Goto(c, IF client[c] = "open" THEN "greetput" ELSE "unreg")
    /\ UNCHANGED <<hubVars, tableVars, clientVars, msg, aim, todo, calls, panic>>

\* The handler sends to its own channel, which nobody drains yet.
GreetPut(c) ==
    /\ At(c, "greetput")
    /\ Len(chan[c]) < ClientCap
    /\ chan' = [chan EXCEPT ![c] = Append(@, Greeting)]
    /\ Goto(c, "recv")
    /\ UNCHANGED <<hubVars, tableVars, client, up, got, msg, aim, todo, calls, panic>>

\* One turn of handleWriterMessage: a message is written, or the write fails
\* and the handler returns, or the channel is closed and empty.
Deliver(c) ==
    /\ At(c, "recv")
    /\ \/ /\ chan[c] # <<>>
          /\ got' = [got EXCEPT ![c] = Append(@, Head(chan[c]).id)]
          /\ chan' = [chan EXCEPT ![c] = Tail(@)]
          /\ UNCHANGED <<up, pc>>
       \/ /\ c \in MayFail /\ chan[c] # <<>>
          /\ up' = [up EXCEPT ![c] = FALSE]
          /\ chan' = [chan EXCEPT ![c] = Tail(@)]
          /\ Goto(c, "unreg")
          /\ UNCHANGED got
       \/ /\ chan[c] = <<>> /\ client[c] = "closed"
          /\ Goto(c, "unreg")
          /\ UNCHANGED <<chan, got, up>>
    /\ UNCHANGED <<hubVars, tableVars, client, msg, aim, todo, calls, panic>>

\* UnRegClient does nothing in a closed hub.
UnregCheck(c) ==
    /\ At(c, "unreg")
    /\ Goto(c, IF closed THEN "close" ELSE "delete")
    /\ UNCHANGED <<hubVars, tableVars, clientVars, msg, aim, todo, calls, panic>>

UnregDelete(c) ==
    /\ At(c, "delete")
    /\ c \notin reg \/ CanLock(c)
    /\ reg' = reg \ {c}
    /\ Goto(c, "close")
    /\ UNCHANGED <<hubVars, readers, clientVars, msg, aim, todo, calls, panic>>

CloseClient(c) ==
    /\ At(c, "close")
    /\ IF client[c] = "open"
       THEN /\ client' = [client EXCEPT ![c] = "closing"]
            /\ Goto(c, "closing")
       ELSE /\ Goto(c, "gone")
            /\ UNCHANGED client
    /\ UNCHANGED <<hubVars, tableVars, chan, up, got, msg, aim, todo, calls, panic>>

CloseClientEnd(c) ==
    /\ At(c, "closing")
    /\ Sending(c) = {}
    /\ client' = [client EXCEPT ![c] = "closed"]
    /\ Goto(c, "gone")
    /\ UNCHANGED <<hubVars, tableVars, chan, up, got, msg, aim, todo, calls, panic>>

\* The reader's deferred c.Close(): the peer hung up or the connection failed.
HangUp(c) ==
    /\ panic = "none"
    /\ pc[c] \in {"recv", "unreg", "delete", "close"}
    /\ client[c] = "open"
    /\ client' = [client EXCEPT ![c] = "hangup"]
    /\ UNCHANGED <<hubVars, tableVars, chan, up, got, pc, msg, aim, todo, calls, panic>>

HangUpEnd(c) ==
    /\ panic = "none"
    /\ client[c] = "hangup"
    /\ Sending(c) = {}
    /\ client' = [client EXCEPT ![c] = "closed"]
    /\ UNCHANGED <<hubVars, tableVars, chan, up, got, pc, msg, aim, todo, calls, panic>>

-----------------------------------------------------------------------------
(* Close *)

CloseSwap ==
    /\ MayClose
    /\ At(Closer, "running")
    /\ closed' = TRUE
    /\ Goto(Closer, "exit")
    /\ UNCHANGED <<once, exit, adding, queue, qClosed, tableVars, clientVars,
                   msg, aim, todo, calls, panic>>

CloseExit ==
    /\ At(Closer, "exit")
    /\ exit' = TRUE
    /\ todo' = [todo EXCEPT ![Closer] = Conns]
    /\ Goto(Closer, "range")
    /\ UNCHANGED <<once, closed, adding, queue, qClosed, tableVars, clientVars,
                   msg, aim, calls, panic>>

\* The next entry of the Range: take it out, lock it and begin to close it.
CloseVisit(c) ==
    /\ At(Closer, "range")
    /\ c \in todo[Closer]
    /\ todo' = [todo EXCEPT ![Closer] = @ \ {c}]
    /\ IF c \notin reg
       THEN UNCHANGED <<reg, client, aim, pc>>
       ELSE /\ CanLock(c)
            /\ reg' = reg \ {c}
            /\ IF client[c] = "open"
               THEN /\ client' = [client EXCEPT ![c] = "closing"]
                    /\ aim' = [aim EXCEPT ![Closer] = c]
                    /\ Goto(Closer, "sweep")
               ELSE UNCHANGED <<client, aim, pc>>
    /\ UNCHANGED <<hubVars, readers, chan, up, got, msg, calls, panic>>

\* The client's Close returns, and the lock is given back.
CloseSweepEnd ==
    /\ At(Closer, "sweep")
    /\ Sending(aim[Closer]) = {}
    /\ client' = [client EXCEPT ![aim[Closer]] = "closed"]
    /\ aim' = [aim EXCEPT ![Closer] = None]
    /\ Goto(Closer, "range")
    /\ UNCHANGED <<hubVars, tableVars, chan, up, got, msg, todo, calls, panic>>

\* Mutant: Close does not wait for the running Broadcasts.
CloseWaitSkipped ==
    /\ At(Closer, "range")
    /\ todo[Closer] = {}
    /\ Goto(Closer, "drained")
    /\ UNCHANGED <<hubVars, tableVars, clientVars, msg, aim, todo, calls, panic>>

\* h.wg.Wait()
CloseWait ==
    /\ At(Closer, "range")
    /\ todo[Closer] = {}
    /\ adding = {}
    /\ Goto(Closer, "drained")
    /\ UNCHANGED <<hubVars, tableVars, clientVars, msg, aim, todo, calls, panic>>

\* close(h.broadcast)
CloseQueue ==
    /\ At(Closer, "drained")
    /\ qClosed' = TRUE
    /\ Goto(Closer, "done")
    /\ UNCHANGED <<once, closed, exit, adding, queue, tableVars, clientVars,
                   msg, aim, todo, calls, panic>>

-----------------------------------------------------------------------------
ServeStep(s) == Take(s) \/ Leave(s) \/ (\E c \in Conns : Visit(s, c)) \/ RangeEnd(s)

SendStep(t) == SendCheck(t) \/ SendPut(t)

CallStart(b) ==
    \/ \E skip \in Skips : BroadcastAdd(b, skip)
    \/ TellCheck(b) \/ KickCheck(b)

CallStep(b) ==
    \/ BroadcastCheck(b) \/ BroadcastPut(b)
    \/ \E c \in Told : Tell(b, c)
    \/ \E c \in Kicked : Kick(b, c)
    \/ KickEnd(b)

HandlerStep(c) ==
    \/ Enter(c) \/ GreetCheck(c) \/ GreetPut(c) \/ Deliver(c)
    \/ UnregCheck(c) \/ UnregDelete(c) \/ CloseClient(c) \/ CloseClientEnd(c)

CloserStep ==
    \/ CloseExit \/ (\E c \in Conns : CloseVisit(c)) \/ CloseSweepEnd
    \/ CloseWait \/ CloseQueue

Next ==
    \/ \E s \in Servers : ServeStep(s)
    \/ \E t \in Senders : SendStep(t)
    \/ \E b \in Callers : CallStart(b) \/ CallStep(b)
    \/ \E c \in Conns : Join(c) \/ HandlerStep(c) \/ HangUp(c) \/ HangUpEnd(c)
    \/ CloseSwap \/ CloserStep

Spec == Init /\ [][Next]_vars

\* Goroutines that can run do run, and one that waits for a lock or for room in
\* a channel gets it when it comes up again and again.  Connecting, calling,
\* closing, hanging up and losing the network are choices; the reader of a lost
\* connection notices.
Fairness ==
    /\ \A s \in Servers : SF_vars(ServeStep(s))
    /\ \A t \in Senders : SF_vars(SendStep(t))
    /\ \A b \in Callers : SF_vars(CallStep(b))
    /\ \A c \in Conns : SF_vars(HandlerStep(c)) /\ SF_vars(HangUpEnd(c))
    /\ \A c \in Conns : WF_vars(~up[c] /\ HangUp(c))
    /\ SF_vars(CloserStep)

FairSpec == Spec /\ Fairness

-----------------------------------------------------------------------------
(* Properties *)

HubTypes ==
    /\ once \in {"new", "started", "spent"}
    /\ closed \in BOOLEAN /\ exit \in BOOLEAN /\ adding \subseteq Callers
    /\ queue \in Seq(Messages) /\ Len(queue) <= Cap /\ qClosed \in BOOLEAN

TableTypes == reg \subseteq Conns /\ readers \in [Conns -> SUBSET Senders]

Channels == chan \in [Conns -> Seq(Messages)] /\ \A c \in Conns : Len(chan[c]) <= ClientCap

ClientTypes ==
    /\ Channels
    /\ client \in [Conns -> {"open", "closing", "hangup", "closed"}]
    /\ up \in [Conns -> BOOLEAN]
    /\ got \in [Conns -> Seq(0..MaxCalls)]

ThreadTypes ==
    /\ pc \in [Threads -> ConnSteps \cup ServerSteps \cup CallerSteps \cup CloserSteps]
    /\ msg \in [Senders -> Messages]
    /\ aim \in [Senders \cup {Closer} -> Conns \cup {None}]
    /\ todo \in [Servers \cup {Closer} -> SUBSET Conns]
    /\ calls \in 0..MaxCalls
    /\ panic \in {"none", "nil message", "send on closed channel"}

TypeOK == HubTypes /\ TableTypes /\ ClientTypes /\ ThreadTypes

\* Broadcast and Close race on the queue (hub.go:175-176, 181-202): a Broadcast that
\* has passed the closed check never sends on the closed queue.
NoSendOnClosedQueue == panic # "send on closed channel"

\* Every Broadcast is counted until it returns, and once Close is past its Wait
\* the flag keeps later ones from the queue: the inductive invariant behind
\* NoSendOnClosedQueue.
QueueProtocol ==
    /\ \A b \in Callers : pc[b] \in {"bcheck", "bput"} => b \in adding
    /\ pc[Closer] # "running" => closed
    /\ pc[Closer] = "drained" \/ qClosed =>
          closed /\ \A b \in Callers : pc[b] # "bput"

\* What a connection has been sent or has waiting in its channel, in order.
Stream(c) == got[c] \o [i \in 1..Len(chan[c]) |-> chan[c][i].id]

\* c gets message m before message n.
Before(c, m, n) ==
    \E i, j \in DOMAIN Stream(c) : i < j /\ Stream(c)[i] = m /\ Stream(c)[j] = n

\* Two viewers who both get two messages get them in the same order, so that
\* the later status wins at both (hub.go:66-106): there is one serve loop.  With m = n
\* this says, too, that nobody gets a message twice.  Greetings are not numbered: each
\* handler has its own, which a broadcast may overtake.
SameOrder ==
    \A c, d \in Conns : \A m, n \in 1..MaxCalls : ~(Before(c, m, n) /\ Before(d, n, m))

\* A channel fills up before its handler has greeted the client: only that handler
\* would drain it.
GreetingStuck ==
    \E c \in Conns : pc[c] \in {"greet", "greetput"} /\ Len(chan[c]) = ClientCap

\* m is on its way to c: queued in the hub while c is registered and receiving.
Owed(m, c) ==
    /\ c \in reg /\ pc[c] = "recv"
    /\ \E i \in DOMAIN queue : queue[i].id = m /\ c \notin queue[i].skip

Has(c, m) == \E i \in DOMAIN got[c] : got[c][i] = m

\* The connection or the hub has begun to close, or the process has died.
Over(c) == client[c] # "open" \/ closed \/ panic # "none"

Reaches == \A c \in Conns : \A m \in 1..MaxCalls : Owed(m, c) ~> (Has(c, m) \/ Over(c))

AllUp == \A c \in Conns : up[c]

\* While the serve loop runs, no network connection breaks and nobody's greeting
\* is stuck, every queued message reaches every connection it is owed to.
QueuedIsDelivered ==
    [](AllUp /\ ~GreetingStuck /\ once # "spent") => Reaches

\* Under the same conditions the hub's Close comes to its end, whatever broadcasts,
\* kicks and disconnections it meets.
CloseEnds ==
    [](AllUp /\ ~GreetingStuck) => (closed ~> (pc[Closer] = "done" \/ panic # "none"))
==============================================================================
