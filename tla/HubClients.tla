----------------------------- MODULE HubClients ------------------------------
(***************************************************************************)
(* The table of a hub's connected clients (internal/op/hub.go): a          *)
(* concurrent map from users to heap-allocated sets of connections, each   *)
(* set with a lock of its own.  A set is put into the map without its lock *)
(* and taken out when it is empty, so a goroutine that has loaded a set    *)
(* must lock it and then check that it is still in the map.  Whoever sends *)
(* to the connections of a set, or closes them, may have to wait and holds *)
(* the lock meanwhile.                                                     *)
(*                                                                         *)
(* Conns are the goroutines of the websocket handlers, each with a reader: *)
(* a handler registers once, writes what its channel brings and            *)
(* unregisters once.  Callers are HTTP handlers that count, kick or send   *)
(* to a user's connections, and serve, which sends to those of every user. *)
(* Closer is the goroutine that closes the hub.                            *)
(***************************************************************************)
EXTENDS Naturals, FiniteSets

CONSTANTS
    Users, Conns, Callers, Closer,
    UserOf,    \* the user of each connection
    Objs,      \* addresses of *clients; garbage ones are reused
    None,      \* nil
    MaxBegun   \* bound: how many connections and calls come

Threads == Conns \cup Callers \cup {Closer}

ASSUME HubClientsAssumption ==
    /\ UserOf \in [Conns -> Users]
    /\ Conns \cap Callers = {}
    /\ Closer \notin Conns \cup Callers
    /\ None \notin Objs \cup Threads
    /\ MaxBegun \in Nat

VARIABLES
    closed,   \* Hub.closed
    table,    \* Hub.clients: the set of each user, None when absent
    members,  \* clients.m of each object
    lock,     \* clients.lock: who holds it for writing, None when nobody does
    pc,       \* where each goroutine is
    at,       \* the object a goroutine has loaded, None when none
    shut,     \* the connections whose Client.Close has set its flag
    toVisit,  \* the users Close's Range has yet to visit
    begun,    \* how many connections and calls there have been
    due,      \* history: who was registered when a KickUser loaded its object
    rest,     \* whom a caller that holds the lock of a set has yet to visit
    on,       \* the connection a caller sends to, or a caller or Close waits for in Close
    replies   \* the connections whose own handler or reader is in a Send to them

visits == <<rest, on, replies>>
vars == <<closed, table, members, lock, pc, at, shut, toVisit, begun, due, visits>>

ConnSteps == {"new", "check", "load", "lock", "verify", "insert", "greet", "online",
              "unload", "unlock", "delete", "close", "gone"}
CallerSteps == {"idle", "count", "tokick", "kick", "kicking", "send", "sending"}
CloserSteps == {"running", "range", "sweep", "sweeping", "wait"}

Goto(t, l) == pc' = [pc EXCEPT ![t] = l]

SetOf(c) == table[UserOf[c]]

Attached == {table[u] : u \in Users}

\* A connection between the end of RegClient and the start of UnRegClient.
Online == {c \in Conns : pc[c] \in {"greet", "online"}}

\* The set is read-locked: KickUser, SendToUser or serve goes through it.
ReadHeld(o) == \E k \in Callers : pc[k] \in {"kicking", "sending"} /\ at[k] = o

\* A Send to the connection has passed the closed check and not returned.
Sends(k, c) == pc[k] = "sending" /\ on[k] = c
InProgress(c) == c \in replies \/ \E k \in Callers : Sends(k, c)

\* The deferred unlocks of a RegClient and of the calls it recursed from.
Unlocked(c) == [o \in Objs |-> IF lock[o] = c THEN None ELSE lock[o]]

\* The addresses &clients{} can return: nothing refers to them any more.
Fresh == {o \in Objs : /\ o \notin Attached
                       /\ lock[o] = None
                       /\ \A t \in Threads : at[t] # o}
NewSet == CHOOSE o \in Fresh : TRUE

Init ==
    /\ closed = FALSE
    /\ table = [u \in Users |-> None]
    /\ members = [o \in Objs |-> {}]
    /\ lock = [o \in Objs |-> None]
    /\ pc = [t \in Threads |-> IF t \in Conns THEN "new"
                               ELSE IF t \in Callers THEN "idle" ELSE "running"]
    /\ at = [t \in Threads |-> None]
    /\ shut = {}
    /\ toVisit = Users
    /\ begun = 0
    /\ due = [k \in Callers |-> {}]
    /\ rest = [k \in Callers |-> {}]
    /\ on = [t \in Callers \cup {Closer} |-> None]
    /\ replies = {}

-----------------------------------------------------------------------------
(* RegClient.  Starting the serve loop is modelled in HubBroadcast. *)

\* A handler, or a call, begins.
Begin(t, step) ==
    /\ begun < MaxBegun
    /\ begun' = begun + 1
    /\ Goto(t, step)

Connect(c) ==
    /\ pc[c] = "new"
    /\ Begin(c, "check")
    /\ UNCHANGED <<closed, table, members, lock, at, shut, toVisit, due, visits>>

\* if h.Closed() { return ErrAlreadyClosed }
RegCheck(c) ==
    /\ pc[c] = "check"
    /\ IF closed
       THEN /\ Goto(c, "gone")
            /\ lock' = Unlocked(c)
       ELSE /\ Goto(c, "load")
            /\ UNCHANGED lock
    /\ UNCHANGED <<closed, table, members, at, shut, toVisit, begun, due, visits>>

\* h.clients.LoadOrStore(cli.u.ID, &clients{})
RegLoad(c) ==
    /\ pc[c] = "load"
    /\ \/ /\ SetOf(c) # None
          /\ at' = [at EXCEPT ![c] = SetOf(c)]
          /\ UNCHANGED <<table, members>>
       \/ /\ SetOf(c) = None /\ Fresh # {}
          /\ table' = [table EXCEPT ![UserOf[c]] = NewSet]
          /\ members' = [members EXCEPT ![NewSet] = {}]
          /\ at' = [at EXCEPT ![c] = NewSet]
    /\ Goto(c, "lock")
    /\ UNCHANGED <<closed, lock, shut, toVisit, begun, due, visits>>

Lock(c, from, to) ==
    /\ pc[c] = from
    /\ lock[at[c]] = None
    /\ ~ReadHeld(at[c])
    /\ lock' = [lock EXCEPT ![at[c]] = c]
    /\ Goto(c, to)
    /\ UNCHANGED <<closed, table, members, at, shut, toVisit, begun, due, visits>>

RegLock(c) == Lock(c, "lock", "verify")

\* Load again under the lock; when the set has left the map meanwhile, RegClient
\* calls itself, still holding the lock of the old set.
RegVerify(c) ==
    /\ pc[c] = "verify"
    /\ IF SetOf(c) = at[c]
       THEN /\ Goto(c, "insert")
            /\ UNCHANGED at
       ELSE /\ Goto(c, "check")
            /\ at' = [at EXCEPT ![c] = None]
    /\ UNCHANGED <<closed, table, members, lock, shut, toVisit, begun, due, visits>>

\* Mutant: the lock is not given back.
RegInsertLocked(c) ==
    /\ pc[c] = "insert"
    /\ members' = [members EXCEPT ![at[c]] = @ \cup {c}]
    /\ at' = [at EXCEPT ![c] = None]
    /\ Goto(c, "greet")
    /\ UNCHANGED <<closed, table, lock, shut, toVisit, begun, due, visits>>

\* c.m[cli.ConnID()] = cli, and the deferred unlocks.
RegInsert(c) ==
    /\ pc[c] = "insert"
    /\ members' = [members EXCEPT ![at[c]] = @ \cup {c}]
    /\ lock' = Unlocked(c)
    /\ at' = [at EXCEPT ![c] = None]
    /\ Goto(c, "greet")
    /\ UNCHANGED <<closed, table, shut, toVisit, begun, due, visits>>

-----------------------------------------------------------------------------
(* The connection's own Sends: the handler's greeting, before it begins to write, and then *)
(* the replies of the reader, which closes the client when the connection fails.           *)

HasReader(c) == pc[c] \in {"online", "unload", "unlock", "delete", "close"}

OwnSend(c) ==
    /\ pc[c] = "greet" \/ HasReader(c)
    /\ c \notin replies \cup shut
    /\ replies' = replies \cup {c}
    /\ UNCHANGED <<closed, table, members, lock, pc, at, shut, toVisit, begun, due, rest, on>>

OwnReturn(c) ==
    /\ c \in replies
    /\ replies' = replies \ {c}
    /\ pc' = [pc EXCEPT ![c] = IF @ = "greet" THEN "online" ELSE @]
    /\ UNCHANGED <<closed, table, members, lock, at, shut, toVisit, begun, due, rest, on>>

ReaderClose(c) ==
    /\ HasReader(c)
    /\ c \notin replies \cup shut
    /\ shut' = shut \cup {c}
    /\ UNCHANGED <<closed, table, members, lock, pc, at, toVisit, begun, due, visits>>

-----------------------------------------------------------------------------
(* UnRegClient, then Client.Close: the end of the websocket handler. *)

\* The handler's greeting is refused, or it stops to write: the channel was closed, or a
\* write has failed, and then nobody drains the channel any more.
UnregCheck(c) ==
    /\ \/ pc[c] = "greet" /\ c \in shut \ replies
       \/ pc[c] = "online"
    /\ Goto(c, IF closed THEN "close" ELSE "unload")
    /\ UNCHANGED <<closed, table, members, lock, at, shut, toVisit, begun, due, visits>>

UnregLoad(c) ==
    /\ pc[c] = "unload"
    /\ IF SetOf(c) = None
       THEN /\ Goto(c, "close")
            /\ UNCHANGED at
       ELSE /\ Goto(c, "unlock")
            /\ at' = [at EXCEPT ![c] = SetOf(c)]
    /\ UNCHANGED <<closed, table, members, lock, shut, toVisit, begun, due, visits>>

UnregLock(c) == Lock(c, "unlock", "delete")

\* Mutant: the empty set stays in the map.
UnregDeleteKeepingSet(c) ==
    /\ pc[c] = "delete"
    /\ members' = [members EXCEPT ![at[c]] = @ \ {c}]
    /\ lock' = Unlocked(c)
    /\ at' = [at EXCEPT ![c] = None]
    /\ Goto(c, "close")
    /\ UNCHANGED <<closed, table, shut, toVisit, begun, due, visits>>

\* Delete the connection, and take the set out of the map when it is now empty,
\* all under its lock; a connection that is not there is an error.
UnregDelete(c) ==
    /\ pc[c] = "delete"
    /\ LET o == at[c]
           left == members[o] \ {c}
       IN  /\ members' = [members EXCEPT ![o] = left]
           /\ table' = IF c \in members[o] /\ left = {} /\ SetOf(c) = o
                       THEN [table EXCEPT ![UserOf[c]] = None] ELSE table
    /\ lock' = Unlocked(c)
    /\ at' = [at EXCEPT ![c] = None]
    /\ Goto(c, "close")
    /\ UNCHANGED <<closed, shut, toVisit, begun, due, visits>>

\* Its wait for the Sends in progress, with no lock held, is modelled in Client.
CloseClient(c) ==
    /\ pc[c] = "close"
    /\ shut' = shut \cup {c}
    /\ Goto(c, "gone")
    /\ UNCHANGED <<closed, table, members, lock, at, toVisit, begun, due, visits>>

-----------------------------------------------------------------------------
(* OnlineCount, KickUser and SendToUser, each under RLock.  serve does for every user *)
(* what SendToUser does for one.                                                    *)

CallerStart(k, step) ==
    /\ pc[k] = "idle"
    /\ Begin(k, step)

\* OnlineCount loads the user's set; it has nothing to do when there is none.
CountLoad(k, u) ==
    /\ CallerStart(k, "count")
    /\ table[u] # None
    /\ at' = [at EXCEPT ![k] = table[u]]
    /\ UNCHANGED <<closed, table, members, lock, shut, toVisit, due, visits>>

\* KickUser's closed check.
KickCheck(k) ==
    /\ ~closed
    /\ CallerStart(k, "tokick")
    /\ UNCHANGED <<closed, table, members, lock, at, shut, toVisit, due, visits>>

\* h.clients.Load(userID)
KickLoad(k, u) ==
    /\ pc[k] = "tokick"
    /\ IF table[u] = None
       THEN /\ Goto(k, "idle")
            /\ UNCHANGED <<at, due>>
       ELSE /\ Goto(k, "kick")
            /\ at' = [at EXCEPT ![k] = table[u]]
            /\ due' = [due EXCEPT ![k] = {c \in Online : UserOf[c] = u}]
    /\ UNCHANGED <<closed, table, members, lock, shut, toVisit, begun, visits>>

CallerReturn(k) ==
    /\ at' = [at EXCEPT ![k] = None]
    /\ due' = [due EXCEPT ![k] = {}]
    /\ Goto(k, "idle")

\* Mutant: the set is taken out whether it is empty or not.
CountDetaching(k) ==
    /\ pc[k] = "count"
    /\ lock[at[k]] = None
    /\ CallerReturn(k)
    /\ table' = [u \in Users |-> IF table[u] = at[k] THEN None ELSE table[u]]
    /\ UNCHANGED <<closed, members, lock, shut, toVisit, begun, visits>>

\* OnlineCount also takes an empty set out of the map.
Count(k) ==
    /\ pc[k] = "count"
    /\ lock[at[k]] = None
    /\ CallerReturn(k)
    /\ table' = [u \in Users |-> IF table[u] = at[k] /\ members[at[k]] = {}
                                 THEN None ELSE table[u]]
    /\ UNCHANGED <<closed, members, lock, shut, toVisit, begun, visits>>

\* clients.lock.RLock(): whoever holds it, nobody joins or leaves the set meanwhile.
ReadLock(k, from, to) ==
    /\ pc[k] = from
    /\ lock[at[k]] = None
    /\ rest' = [rest EXCEPT ![k] = members[at[k]]]
    /\ Goto(k, to)
    /\ UNCHANGED <<closed, table, members, lock, at, shut, toVisit, begun, due, on, replies>>

KickLock(k) == ReadLock(k, "kick", "kicking")

\* Client.Close sets the flag, unless it is set already; then it waits for the Sends in
\* progress.
FlagClient(g, c) ==
    /\ shut' = shut \cup {c}
    /\ on' = IF c \in shut THEN on ELSE [on EXCEPT ![g] = c]

Waited(g) ==
    /\ on[g] # None
    /\ ~InProgress(on[g])
    /\ on' = [on EXCEPT ![g] = None]
    /\ UNCHANGED <<closed, table, members, lock, pc, at, shut, toVisit, begun, due, rest, replies>>

\* KickUser closes the connections in the set, in any order, and leaves them registered.
KickClose(k) ==
    /\ pc[k] = "kicking" /\ on[k] = None
    /\ \E c \in rest[k] :
          /\ FlagClient(k, c)
          /\ rest' = [rest EXCEPT ![k] = @ \ {c}]
    /\ UNCHANGED <<closed, table, members, lock, pc, at, toVisit, begun, due, replies>>

KickWait(k) == pc[k] = "kicking" /\ Waited(k)

\* Mutant: the loop stops after one connection.
KickEndEarly(k) ==
    /\ pc[k] = "kicking" /\ on[k] = None
    /\ rest' = [rest EXCEPT ![k] = {}]
    /\ CallerReturn(k)
    /\ UNCHANGED <<closed, table, members, lock, shut, toVisit, begun, on, replies>>

KickEnd(k) ==
    /\ pc[k] = "kicking" /\ on[k] = None
    /\ rest[k] = {}
    /\ CallerReturn(k)
    /\ UNCHANGED <<closed, table, members, lock, shut, toVisit, begun, visits>>

\* SendToUser, or serve's Range, loads the user's set.
SendLoad(k, u) ==
    /\ CallerStart(k, "send")
    /\ table[u] # None
    /\ at' = [at EXCEPT ![k] = table[u]]
    /\ UNCHANGED <<closed, table, members, lock, shut, toVisit, due, visits>>

SendLock(k) == ReadLock(k, "send", "sending")

\* Client.Send to the connections in the set, in any order; one that is closed is an
\* error, and closed once more to no effect.  One that a broadcast leaves out is like one
\* with room in its channel.
SendNext(k) ==
    /\ pc[k] = "sending" /\ on[k] = None
    /\ \E c \in rest[k] :
          /\ on' = IF c \in shut THEN on ELSE [on EXCEPT ![k] = c]
          /\ rest' = [rest EXCEPT ![k] = @ \ {c}]
    /\ UNCHANGED <<closed, table, members, lock, pc, at, shut, toVisit, begun, due, replies>>

\* There is room in the channel.
SendReturn(k) ==
    /\ pc[k] = "sending" /\ on[k] # None
    /\ on' = [on EXCEPT ![k] = None]
    /\ UNCHANGED <<closed, table, members, lock, pc, at, shut, toVisit, begun, due, rest, replies>>

SendEnd(k) ==
    /\ pc[k] = "sending" /\ on[k] = None
    /\ rest[k] = {}
    /\ CallerReturn(k)
    /\ UNCHANGED <<closed, table, members, lock, shut, toVisit, begun, visits>>

-----------------------------------------------------------------------------
(* Close *)

\* Mutant: the flag is not set.
CloseSwapSilent ==
    /\ pc[Closer] = "running"
    /\ Goto(Closer, "range")
    /\ UNCHANGED <<closed, table, members, lock, at, shut, toVisit, begun, due, visits>>

CloseSwap ==
    /\ pc[Closer] = "running"
    /\ closed' = TRUE
    /\ Goto(Closer, "range")
    /\ UNCHANGED <<table, members, lock, at, shut, toVisit, begun, due, visits>>

\* Range visits each user once, in any order; the set leaves the map before it
\* is locked.
CloseDetach(u) ==
    /\ pc[Closer] = "range"
    /\ u \in toVisit
    /\ toVisit' = toVisit \ {u}
    /\ IF table[u] = None
       THEN UNCHANGED <<table, at, pc>>
       ELSE /\ at' = [at EXCEPT ![Closer] = table[u]]
            /\ table' = [table EXCEPT ![u] = None]
            /\ Goto(Closer, "sweep")
    /\ UNCHANGED <<closed, members, lock, shut, begun, due, visits>>

SweepLock ==
    /\ pc[Closer] = "sweep"
    /\ lock[at[Closer]] = None
    /\ ~ReadHeld(at[Closer])
    /\ lock' = [lock EXCEPT ![at[Closer]] = Closer]
    /\ Goto(Closer, "sweeping")
    /\ UNCHANGED <<closed, table, members, at, shut, toVisit, begun, due, visits>>

\* Under the lock each connection is taken out of the set and closed, in any order.
SweepClose ==
    /\ pc[Closer] = "sweeping" /\ on[Closer] = None
    /\ \E c \in members[at[Closer]] :
          /\ FlagClient(Closer, c)
          /\ members' = [members EXCEPT ![at[Closer]] = @ \ {c}]
    /\ UNCHANGED <<closed, table, lock, pc, at, toVisit, begun, due, rest, replies>>

SweepWait == pc[Closer] = "sweeping" /\ Waited(Closer)

SweepEnd ==
    /\ pc[Closer] = "sweeping" /\ on[Closer] = None
    /\ members[at[Closer]] = {}
    /\ lock' = [lock EXCEPT ![at[Closer]] = None]
    /\ at' = [at EXCEPT ![Closer] = None]
    /\ Goto(Closer, "range")
    /\ UNCHANGED <<closed, table, members, shut, toVisit, begun, due, visits>>

\* The Range is over; what follows is modelled in HubBroadcast.
CloseEnd ==
    /\ pc[Closer] = "range"
    /\ toVisit = {}
    /\ Goto(Closer, "wait")
    /\ UNCHANGED <<closed, table, members, lock, at, shut, toVisit, begun, due, visits>>

-----------------------------------------------------------------------------
RegStep(c) ==
    RegCheck(c) \/ RegLoad(c) \/ RegLock(c) \/ RegVerify(c) \/ RegInsert(c)

UnregStep(c) == UnregLoad(c) \/ UnregLock(c) \/ UnregDelete(c) \/ CloseClient(c)

OwnStep(c) == OwnSend(c) \/ OwnReturn(c) \/ ReaderClose(c)

CallerBegin(k) == (\E u \in Users : CountLoad(k, u) \/ SendLoad(k, u)) \/ KickCheck(k)

ReadStep(k) == Count(k) \/ KickLock(k) \/ SendLock(k)

VisitStep(k) ==
    \/ \E u \in Users : KickLoad(k, u)
    \/ KickClose(k) \/ KickWait(k) \/ KickEnd(k)
    \/ SendNext(k) \/ SendEnd(k)

CloserStep ==
    \/ \E u \in Users : CloseDetach(u)
    \/ SweepLock \/ SweepClose \/ SweepWait \/ SweepEnd
    \/ CloseEnd

\* Every handler has returned and the hub is closed.
Done == pc[Closer] = "wait" /\ \A c \in Conns : pc[c] \in {"new", "gone"}

Next ==
    \/ \E c \in Conns : Connect(c) \/ RegStep(c) \/ OwnStep(c) \/ UnregCheck(c) \/ UnregStep(c)
    \/ \E k \in Callers : CallerBegin(k) \/ ReadStep(k) \/ VisitStep(k) \/ SendReturn(k)
    \/ CloseSwap \/ CloserStep
    \/ Done /\ UNCHANGED vars

Spec == Init /\ [][Next]_vars

\* The handler of the connection writes: what is sent to it finds room.
Drained(c) == pc[c] = "online"

\* Somebody is waiting in Lock, or about to: an RWMutex may keep new readers waiting, too.
LockWaits(o) ==
    \/ \E c \in Conns : pc[c] \in {"lock", "unlock"} /\ at[c] = o
    \/ pc[Closer] = "sweep" /\ at[Closer] = o

\* What the scheduler runs in the end: the handler's own steps, its greeting among them;
\* the steps of a caller, whose Send returns as long as the connection is drained.
HandlerRuns(c) == RegStep(c) \/ (OwnSend(c) /\ pc[c] = "greet") \/ UnregStep(c)
CallerRuns(k) ==
    \/ ReadStep(k) /\ ~LockWaits(at[k])
    \/ VisitStep(k)
    \/ SendReturn(k) /\ Drained(on[k])

\* Connecting, leaving, calling and closing are choices.
Fairness ==
    /\ \A c \in Conns : WF_vars(HandlerRuns(c)) /\ WF_vars(OwnReturn(c) /\ Drained(c))
    /\ \A k \in Callers : WF_vars(CallerRuns(k))
    /\ WF_vars(CloserStep)

FairSpec == Spec /\ Fairness

-----------------------------------------------------------------------------
(* Properties *)

TypeOK ==
    /\ closed \in BOOLEAN
    /\ table \in [Users -> Objs \cup {None}]
    /\ members \in [Objs -> SUBSET Conns]
    /\ lock \in [Objs -> Conns \cup {Closer, None}]
    /\ pc \in [Threads -> ConnSteps \cup CallerSteps \cup CloserSteps]
    /\ \A t \in Threads : pc[t] \in IF t \in Conns THEN ConnSteps
                                    ELSE IF t \in Callers THEN CallerSteps
                                    ELSE CloserSteps
    /\ at \in [Threads -> Objs \cup {None}]
    /\ \A t \in Threads : pc[t] \in {"lock", "verify", "insert", "unlock", "delete",
                                    "count", "kick", "kicking", "send", "sending", "sweep",
                                    "sweeping"} => at[t] \in Objs
    /\ shut \subseteq Conns
    /\ toVisit \subseteq Users
    /\ begun \in 0..MaxBegun
    /\ due \in [Callers -> SUBSET Conns]
    /\ rest \in [Callers -> SUBSET Conns]
    /\ on \in [Callers \cup {Closer} -> Conns \cup {None}]
    /\ replies \subseteq Conns

\* The set Close has taken out of the map and not yet emptied.
Swept == IF pc[Closer] \in {"sweep", "sweeping"} THEN {at[Closer]} ELSE {}

\* A registered connection that nobody closed is in its user's set, where a
\* broadcast, a kick and SendToUser find it, or in the one Close is about to
\* empty: no interleaving of registering, unregistering, counting and closing
\* leaves it in a set that has left the map (hub.go:204-263, 322-327).
NoLostClient ==
    \A c \in Online \ shut :
        \E o \in Objs : c \in members[o] /\ o \in {SetOf(c)} \cup Swept

\* A connection past a Lock holds the lock of its set, and so does Close.
Holding ==
    /\ \A c \in Conns : pc[c] \in {"verify", "insert", "delete"} => lock[at[c]] = c
    /\ pc[Closer] = "sweeping" => lock[at[Closer]] = Closer

\* The set a connection is about to be put in is in the map, or Close will still
\* empty it: it cannot be taken out by anyone who needs its lock.
InsertSafe ==
    \A c \in Conns : pc[c] = "insert" => at[c] \in {SetOf(c)} \cup Swept

\* The inductive invariant behind NoLostClient.
TableProtocol == Holding /\ InsertSafe /\ NoLostClient

\* A user listed with an empty set is about to get a connection: once
\* registrations are over, IsOnline and ClientNum (hub.go:265-267, 311-314) count only
\* users who are connected.
NoGhostUser ==
    \A u \in Users :
        (table[u] # None /\ members[table[u]] = {}) =>
            \E c \in Conns : UserOf[c] = u /\ pc[c] \in {"lock", "verify", "insert"}

\* When KickUser (hub.go:332-350) returns, every connection that was registered
\* when it looked the user up and still is has been closed, or waits for Close to
\* close it: while the hub closes, a user can have a set in the map and another
\* one that Close has taken out.
KickCloses ==
    [][\A k \in Callers : KickEnd(k) =>
        \A c \in (due[k] \cap Online) \ shut' : \E o \in Swept : c \in members[o]]_vars

\* A Send to the connection waits although its handler does not write: not yet, or not
\* any more.
Wedged(c) == InProgress(c) /\ ~Drained(c)

\* RegClient and UnRegClient return, whatever sets disappear under them (hub.go:204-263).
HandlersGoOn == \A c \in Conns : []<>(pc[c] \in {"new", "greet", "online", "gone"})

\* OnlineCount, KickUser, SendToUser and serve get through the set, although each may wait
\* for a connection with the lock held (hub.go:81-97, 279-286, 342-347).
CallsReturn == \A k \in Callers : []<>(pc[k] = "idle")

\* Close gets through its Range (hub.go:162-174) although handlers keep taking
\* the locks it needs, and Sends keep it waiting in Client.Close.
CloseGetsThrough == []<>(closed => pc[Closer] = "wait")

\* Nobody is kept waiting for ever by the locks of the table, although their holders wait
\* in Send and in Client.Close, unless a Send to a connection whose handler does not write
\* waits for ever itself: only that can keep the others (hub.go:81-97, 156-174, 204-263,
\* 279-286, 342-347).
OperationsEnd ==
    (\A c \in Conns : []<>~Wedged(c)) => HandlersGoOn /\ CallsReturn /\ CloseGetsThrough

\* The connections in the sets that are in the map.
Listed == {c \in Conns : SetOf(c) # None /\ c \in members[SetOf(c)]}

Registering == {c \in Conns : pc[c] \in {"new", "check", "load", "lock", "verify", "insert"}}

\* The table is the abstract list of connections.
P == INSTANCE Presence WITH
        listed <- Listed, past <- Conns \ (Listed \cup Registering)

ImplementsPresence == P!Spec
==============================================================================
