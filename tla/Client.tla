------------------------------- MODULE Client --------------------------------
(***************************************************************************)
(* One websocket client of a room (internal/op/client.go): the bounded     *)
(* channel c of outgoing messages, the goroutines that Send to it (the     *)
(* hub's serve loop, the client's own reader, HTTP handlers through        *)
(* SendToUser), the goroutines that Close it, and the writer goroutine     *)
(* (server/handlers/websocket.go) that drains it.  Each action is one      *)
(* step that other goroutines can observe; behaviours end at the first     *)
(* panic.  Names that the hub has too begin with the client's.             *)
(***************************************************************************)
EXTENDS Naturals, Sequences, WaitGroup

CONSTANTS
    Goroutines,  \* the goroutines that send to or close the client
    Writer,      \* the goroutine that runs NewWSMessageHandler
    Cap,         \* capacity of the channel (128 in the code)
    MaxSends     \* bound: how many Sends are started

ASSUME ClientAssumption ==
    /\ Writer \in Goroutines
    /\ Cap \in Nat \ {0}
    /\ MaxSends \in Nat

VARIABLES
    clientPc,     \* where each goroutine is
    msg,          \* the message each goroutine is sending, 0 when none
    sends,        \* how many Sends have been started; also the last message
    clientClosed, \* Client.closed
    wg,           \* Client.wg
    ch,           \* the messages buffered in Client.c
    chClosed,     \* close(c.c) has run
    written,      \* the messages handed to the connection, in order
    connUp,       \* the network connection still takes writes
    panic         \* the first panic, "none" before

clientVars == <<clientPc, msg, sends, clientClosed, wg, ch, chClosed, written, connUp, panic>>

\* A goroutine inside Send, from wg.Add(1) to wg.Done().
SendSteps == {"added", "sending", "sent", "refused"}
\* A goroutine that won the compare-and-swap of Close.
CloseSteps == {"won", "waiting", "closing"}
\* The steps of NewWSMessageHandler outside Send and Close.
WriterSteps == {"greet", "recv", "write", "unreg", "exited"}

Steps == {"idle", "close"} \cup SendSteps \cup CloseSteps \cup WriterSteps

Goes(g, l) == clientPc' = [clientPc EXCEPT ![g] = l]

At(g, l) == panic = "none" /\ clientPc[g] = l

\* The client has just been registered; the writer is about to greet it.
ClientInit ==
    /\ clientPc = [g \in Goroutines |-> IF g = Writer THEN "greet" ELSE "idle"]
    /\ msg = [g \in Goroutines |-> 0]
    /\ sends = 0
    /\ clientClosed = FALSE
    /\ wg = IdleGroup
    /\ ch = <<>>
    /\ chClosed = FALSE
    /\ written = <<>>
    /\ connUp = TRUE
    /\ panic = "none"

-----------------------------------------------------------------------------
(* Send *)

\* wg.Add(1).  The writer sends once, the viewer count it greets with; the
\* other goroutines send whenever they like.
SendAdd(g) ==
    /\ At(g, IF g = Writer THEN "greet" ELSE "idle")
    /\ g = Writer \/ sends < MaxSends
    /\ sends' = sends + 1
    /\ msg' = [msg EXCEPT ![g] = sends + 1]
    /\ wg' = Added(wg, g)
    /\ Goes(g, "added")
    /\ UNCHANGED <<clientClosed, ch, chClosed, written, panic, connUp>>

\* if c.Closed() { return ErrAlreadyClosed }
SendCheck(g) ==
    /\ At(g, "added")
    /\ Goes(g, IF clientClosed THEN "refused" ELSE "sending")
    /\ UNCHANGED <<msg, sends, clientClosed, wg, ch, chClosed, written, panic, connUp>>

\* c.c <- msg blocks while the buffer is full, and panics on a closed channel.
SendPut(g) ==
    /\ At(g, "sending")
    /\ IF chClosed
       THEN /\ panic' = "send on closed channel"
            /\ UNCHANGED <<ch, clientPc>>
       ELSE /\ Len(ch) < Cap
            /\ ch' = Append(ch, msg[g])
            /\ Goes(g, "sent")
            /\ UNCHANGED panic
    /\ UNCHANGED <<msg, sends, clientClosed, wg, chClosed, written, connUp>>

\* Mutant: Done is not deferred, so the early return skips it.
SendDoneUnlessRefused(g) ==
    /\ panic = "none"
    /\ clientPc[g] \in {"sent", "refused"}
    /\ wg' = IF clientPc[g] = "sent" THEN Released(wg, g) ELSE wg
    /\ msg' = [msg EXCEPT ![g] = 0]
    /\ Goes(g, IF g # Writer THEN "idle"
               ELSE IF clientPc[g] = "sent" THEN "recv" ELSE "unreg")
    /\ UNCHANGED <<sends, clientClosed, ch, chClosed, written, panic, connUp>>

\* The deferred wg.Done().  A refused greeting ends the handler.
SendDone(g) ==
    /\ panic = "none"
    /\ clientPc[g] \in {"sent", "refused"}
    /\ wg' = Released(wg, g)
    /\ msg' = [msg EXCEPT ![g] = 0]
    /\ Goes(g, IF g # Writer THEN "idle"
               ELSE IF clientPc[g] = "sent" THEN "recv" ELSE "unreg")
    /\ UNCHANGED <<sends, clientClosed, ch, chClosed, written, panic, connUp>>

-----------------------------------------------------------------------------
(* Close *)

\* Where Close returns to: the handler is over once it has closed the client.
AfterClose(g) == IF g = Writer THEN "exited" ELSE "idle"

\* The compare-and-swap that only the first Close wins.
Swap(g) ==
    /\ panic = "none"
    /\ clientPc[g] = IF g = Writer THEN "close" ELSE "idle"
    /\ IF clientClosed
       THEN /\ Goes(g, AfterClose(g))
            /\ UNCHANGED clientClosed
       ELSE /\ Goes(g, "won")
            /\ clientClosed' = TRUE
    /\ UNCHANGED <<msg, sends, wg, ch, chClosed, written, panic, connUp>>

\* Mutant: Close does not wait for the running Sends.
CloseWaitSkipped(g) ==
    /\ At(g, "won")
    /\ Goes(g, "closing")
    /\ UNCHANGED <<msg, sends, clientClosed, wg, ch, chClosed, written, panic, connUp>>

\* c.wg.Wait(): at once when no Send is running, else the goroutine blocks.
CloseWait(g) ==
    /\ At(g, "won")
    /\ IF Quiet(wg)
       THEN /\ Goes(g, "closing")
            /\ UNCHANGED wg
       ELSE /\ Goes(g, "waiting")
            /\ wg' = Blocked(wg, g)
    /\ UNCHANGED <<msg, sends, clientClosed, ch, chClosed, written, panic, connUp>>

\* The goroutine that was blocked in Wait resumes.
CloseResume(g) ==
    /\ At(g, "waiting")
    /\ g \in wg.woken
    /\ IF Quiet(wg)
       THEN /\ Goes(g, "closing")
            /\ wg' = Resumed(wg, g)
            /\ UNCHANGED panic
       ELSE /\ panic' = "WaitGroup is reused"
            /\ UNCHANGED <<clientPc, wg>>
    /\ UNCHANGED <<msg, sends, clientClosed, ch, chClosed, written, connUp>>

\* close(c.c)
CloseChannel(g) ==
    /\ At(g, "closing")
    /\ IF chClosed
       THEN /\ panic' = "close of closed channel"
            /\ UNCHANGED <<clientPc, chClosed>>
       ELSE /\ chClosed' = TRUE
            /\ Goes(g, AfterClose(g))
            /\ UNCHANGED panic
    /\ UNCHANGED <<msg, sends, clientClosed, wg, ch, written, connUp>>

-----------------------------------------------------------------------------
(* The writer: handleWriterMessage and handleClientDisconnection *)

\* Mutant: the loop ends as soon as the channel is closed.
ReceiveUntilClosed ==
    /\ At(Writer, "recv")
    /\ \/ /\ ch # <<>> /\ ~chClosed
          /\ msg' = [msg EXCEPT ![Writer] = Head(ch)]
          /\ ch' = Tail(ch)
          /\ Goes(Writer, "write")
       \/ /\ chClosed
          /\ Goes(Writer, "unreg")
          /\ UNCHANGED <<msg, ch>>
    /\ UNCHANGED <<sends, clientClosed, wg, chClosed, written, panic, connUp>>

\* for v := range c.GetReadChan(): take a message; leave the loop when the
\* channel is closed and empty.
Receive ==
    /\ At(Writer, "recv")
    /\ \/ /\ ch # <<>>
          /\ msg' = [msg EXCEPT ![Writer] = Head(ch)]
          /\ ch' = Tail(ch)
          /\ Goes(Writer, "write")
       \/ /\ ch = <<>>
          /\ chClosed
          /\ Goes(Writer, "unreg")
          /\ UNCHANGED <<msg, ch>>
    /\ UNCHANGED <<sends, clientClosed, wg, chClosed, written, panic, connUp>>

\* writeMessage succeeds.
Write ==
    /\ At(Writer, "write")
    /\ written' = Append(written, msg[Writer])
    /\ msg' = [msg EXCEPT ![Writer] = 0]
    /\ Goes(Writer, "recv")
    /\ UNCHANGED <<sends, clientClosed, wg, ch, chClosed, panic, connUp>>

\* writeMessage fails: the connection is gone and the handler returns.
WriteFails ==
    /\ At(Writer, "write")
    /\ connUp' = FALSE
    /\ msg' = [msg EXCEPT ![Writer] = 0]
    /\ Goes(Writer, "unreg")
    /\ UNCHANGED <<sends, clientClosed, wg, ch, chClosed, written, panic>>

\* The deferred handleClientDisconnection: UnregisterClient (module Hub), then
\* Close.
Disconnect ==
    /\ At(Writer, "unreg")
    /\ Goes(Writer, "close")
    /\ UNCHANGED <<msg, sends, clientClosed, wg, ch, chClosed, written, panic, connUp>>

-----------------------------------------------------------------------------
SendStep(g) ==
    SendAdd(g) \/ SendCheck(g) \/ SendPut(g) \/ SendDone(g)

CloseStep(g) ==
    Swap(g) \/ CloseWait(g) \/ CloseResume(g) \/ CloseChannel(g)

WriterStep == Receive \/ Write \/ WriteFails \/ Disconnect

ClientNext == (\E g \in Goroutines : SendStep(g) \/ CloseStep(g)) \/ WriterStep

ClientSpec == ClientInit /\ [][ClientNext]_clientVars

\* The Go scheduler runs every goroutine that can run.  Starting a Send or a
\* Close is the callers' choice, and a write may succeed or fail.
ClientFairness ==
    /\ \A g \in Goroutines :
          /\ WF_clientVars(SendCheck(g)) /\ SF_clientVars(SendPut(g)) /\ WF_clientVars(SendDone(g))
          /\ WF_clientVars(CloseWait(g) \/ CloseResume(g) \/ CloseChannel(g))
    /\ WF_clientVars(SendAdd(Writer))
    /\ WF_clientVars(Swap(Writer))
    /\ WF_clientVars(WriterStep)

ClientFairSpec == ClientSpec /\ ClientFairness

-----------------------------------------------------------------------------
(* Properties *)

ClientTypeOK ==
    /\ clientPc \in [Goroutines -> Steps]
    /\ msg \in [Goroutines -> Nat]
    /\ sends \in Nat
    /\ clientClosed \in BOOLEAN
    /\ wg \in WaitGroups(Goroutines)
    /\ ch \in Seq(Nat) /\ Len(ch) <= Cap
    /\ chClosed \in BOOLEAN
    /\ written \in Seq(Nat)
    /\ connUp \in BOOLEAN
    /\ panic \in {"none", "send on closed channel", "close of closed channel",
                  "WaitGroup is reused"}

\* Only one goroutine closes, after the flag is set and before the channel is.
OneCloser ==
    \A g \in Goroutines :
        clientPc[g] \in CloseSteps =>
            /\ clientClosed /\ ~chClosed
            /\ \A h \in Goroutines : clientPc[h] \in CloseSteps => h = g

\* Every goroutine inside Send is counted, and only the closer waits.
Counted ==
    \A g \in Goroutines :
        /\ g \in wg.holders <=> clientPc[g] \in SendSteps
        /\ g \in wg.waiting \cup wg.woken => clientPc[g] = "waiting"
        /\ g \notin wg.waiting \cap wg.woken

\* Once the closer is past Wait, no Send that saw the flag down is still on its
\* way to the channel; later ones are refused.
DrainedBeforeClose ==
    chClosed \/ (\E g \in Goroutines : clientPc[g] = "closing")
        => clientClosed /\ \A g \in Goroutines : clientPc[g] # "sending"

\* The inductive invariant behind NoChannelPanic.
CloseProtocol == OneCloser /\ Counted /\ DrainedBeforeClose

\* However Sends and Closes interleave, nobody sends on the channel after it is
\* closed and nobody closes it twice: the closed flag, its compare-and-swap and
\* the wait group of client.go:82-108 are enough.
NoChannelPanic ==
    panic \notin {"send on closed channel", "close of closed channel"}

Stopped == panic # "none"

\* A message a Send has put in the buffer is written, unless the connection
\* fails, the greeting was refused, or the process has panicked: closing the
\* client (websocket.go:115-124) does not discard what was accepted.
AcceptedIsWritten ==
    (<>(clientPc[Writer] = "recv") /\ []connUp) =>
        \A m \in 1..(MaxSends + 1) :
            (\E i \in 1..Len(ch) : ch[i] = m)
                ~> ((\E i \in 1..Len(written) : written[i] = m) \/ Stopped)

\* Close returns as long as the writer reached its loop and the connection takes
\* writes: no Send that Close waits for stays blocked on a full buffer.
CloseReturns ==
    (<>(clientPc[Writer] = "recv") /\ []connUp) => (clientClosed ~> (chClosed \/ Stopped))
==============================================================================
