------------------------------ MODULE RoomLife -------------------------------
(***************************************************************************)
(* One room id between the database, the cache of room objects             *)
(* (internal/op/rooms.go) and the websocket connections that watch it:     *)
(* loading and caching the room, banning, approving and deleting it,       *)
(* expiry, the ban of its creator, the lazily created hub of each room     *)
(* object (internal/op/room.go), and connections that pass authentication  *)
(* first and register later (server/middlewares/auth.go,                   *)
(* server/handlers/websocket.go).                                          *)
(*                                                                         *)
(* A room object that has left the cache lives on as long as a request     *)
(* holds it.  Objects and hubs are addresses; garbage is allocated again.  *)
(* The hub's table is HubClients' subject: here registering is the check   *)
(* of the closed flag and the insertion, and closing closes everybody.     *)
(***************************************************************************)
EXTENDS Integers, FiniteSets

CONSTANTS
    Conns,      \* websocket connections, each of which is made once
    Admins,     \* goroutines that run the operations on the room
    Janitor,    \* the goroutine of the cache that removes expired entries
    Rooms,      \* addresses of room objects
    Hubs,       \* addresses of hubs
    None,
    Ops,        \* the operations the admins may run
    MaxOps      \* bound: operations started

Threads == Conns \cup Admins \cup {Janitor}

ASSUME RoomLifeAssumption ==
    /\ Conns \cap Admins = {} /\ Janitor \notin Conns \cup Admins
    /\ None \notin Rooms \cup Hubs
    /\ Ops \subseteq {"ban", "approve", "delete", "deleteEntry", "deleteByID",
                      "deleteCreator"}
    /\ MaxOps \in Nat

VARIABLES
    row,        \* the room's status in the database, or "gone"
    creator,    \* the creator of the room: "ok", "banned" or "gone"
    cached,     \* the room object in the cache, or None
    status,     \* the status each room object has in memory
    hubOf,      \* the hub pointer of each room object
    shut,       \* the hubs that are closed
    th,         \* the state of each thread: its step, the room object and the hub
                \* it has loaded, the status it has read, the operation it runs
    ops,        \* operations started
    late,       \* history: connections that were past their check when their
                \* room was closed, or past the hub's when it was closed
    outdated    \* history: room objects that missed a change of the row

roomVars == <<cached, status, hubOf, shut>>
vars == <<row, creator, roomVars, th, ops, late, outdated>>

-----------------------------------------------------------------------------
At(t, step) == th[t].pc = step
Set(t, r) == th' = [th EXCEPT ![t] = r]
Goto(t, step) == Set(t, [th[t] EXCEPT !.pc = step])

\* A thread that is through: a connection for good, an admin for the next operation.
Over(t) == [pc |-> IF t \in Conns THEN "gone" ELSE "idle",
            at |-> None, hub |-> None, seen |-> "gone", op |-> "none"]

Watching(c) == th[c].pc = "online"

FreeRooms == Rooms \ ({cached} \cup {th[t].at : t \in Threads})
FreeHubs == Hubs \ ({hubOf[o] : o \in Rooms} \cup {th[t].hub : t \in Threads})
NewRoom == CHOOSE o \in FreeRooms : TRUE
NewHub == CHOOSE h \in FreeHubs : TRUE

Init ==
    /\ row \in {"active", "pending"}
    /\ creator = "ok"
    /\ cached = None
    /\ status = [o \in Rooms |-> "active"]
    /\ hubOf = [o \in Rooms |-> None]
    /\ shut = {}
    /\ th = [t \in Threads |->
                IF t \in Conns THEN [Over(t) EXCEPT !.pc = "load"] ELSE Over(t)]
    /\ ops = 0
    /\ late = {}
    /\ outdated = {}

-----------------------------------------------------------------------------
(* LoadOrInitRoomByID *)

\* The room is in the cache.  If its creator is banned the entry is compared and closed.
LoadHit(t) ==
    /\ At(t, "load")
    /\ cached # None
    /\ Set(t, CASE creator = "ok" -> [th[t] EXCEPT !.pc = "loaded", !.at = cached]
                [] creator = "banned" ->
                     [th[t] EXCEPT !.pc = "compare", !.at = cached, !.op = "giveup"]
                [] creator = "gone" -> Over(t))
    /\ UNCHANGED <<row, creator, roomVars, ops, late, outdated>>

\* The room is not in the cache and is read from the database.
Query(t) ==
    /\ At(t, "load")
    /\ cached = None
    /\ Set(t, IF row = "gone" THEN Over(t)
              ELSE [th[t] EXCEPT !.pc = "vet", !.seen = row])
    /\ UNCHANGED <<row, creator, roomVars, ops, late, outdated>>

\* LoadOrInitRoom checks the creator, who may be banned or gone a moment later.
Vet(t) ==
    /\ At(t, "vet")
    /\ IF creator = "ok" THEN Goto(t, "store") ELSE Set(t, Over(t))
    /\ UNCHANGED <<row, creator, roomVars, ops, late, outdated>>

\* The object is stored unless another request was faster.
Store(t) ==
    /\ At(t, "store")
    /\ \/ /\ cached # None
          /\ Set(t, [th[t] EXCEPT !.pc = "loaded", !.at = cached])
          /\ UNCHANGED <<roomVars, outdated>>
       \/ /\ cached = None /\ FreeRooms # {}
          /\ Set(t, [th[t] EXCEPT !.pc = "loaded", !.at = NewRoom])
          /\ cached' = NewRoom
          /\ status' = [status EXCEPT ![NewRoom] = th[t].seen]
          /\ hubOf' = [hubOf EXCEPT ![NewRoom] = None]
          /\ outdated' = IF th[t].seen = row THEN outdated \ {NewRoom}
                                             ELSE outdated \cup {NewRoom}
          /\ UNCHANGED shut
    /\ UNCHANGED <<row, creator, ops, late>>

-----------------------------------------------------------------------------
(* Closing a room object *)

\* roomCache.CompareAndDelete(id, entry), then close if the entry was still there.
\* UserDeleteRoom closes in any case.  History: another object in the cache has
\* missed the deletion.
Compare(t) ==
    /\ At(t, "compare")
    /\ IF cached = th[t].at
       THEN cached' = None /\ Goto(t, "detach") /\ UNCHANGED outdated
       ELSE /\ IF th[t].op = "deleteEntry" THEN Goto(t, "detach") ELSE Set(t, Over(t))
            /\ outdated' = IF th[t].op = "giveup" THEN outdated
                           ELSE outdated \cup ({cached} \ {None})
            /\ UNCHANGED cached
    /\ UNCHANGED <<row, creator, status, hubOf, shut, ops, late>>

\* CloseRoomByID: roomCache.LoadAndDelete(id), whichever object is there; or
\* CloseUserByID, which forgets the user first.
EvictAny(t) ==
    /\ At(t, "evict")
    /\ creator' = IF th[t].op = "deleteCreator" THEN "gone" ELSE creator
    /\ cached' = None
    /\ Set(t, IF cached = None THEN Over(t)
              ELSE [th[t] EXCEPT !.pc = "detach", !.at = cached])
    /\ UNCHANGED <<row, status, hubOf, shut, ops, late, outdated>>

\* The connections on their way into a room object that is being closed.
Entering(o) ==
    {c \in Conns : /\ th[c].at = o
                   /\ \/ th[c].pc = "loaded" /\ (o # cached \/ status[o] = "active")
                      \/ th[c].pc \in {"join", "create", "reg", "insert"}}

\* Mutant: the hub is taken out of the room and never closed.
DetachOnly(t) ==
    /\ At(t, "detach")
    /\ hubOf' = [hubOf EXCEPT ![th[t].at] = None]
    /\ late' = late \cup Entering(th[t].at)
    /\ Set(t, Over(t))
    /\ UNCHANGED <<row, creator, cached, status, shut, ops, outdated>>

\* Room.close: the hub is taken out of the room.
Detach(t) ==
    /\ At(t, "detach")
    /\ hubOf' = [hubOf EXCEPT ![th[t].at] = None]
    /\ late' = late \cup Entering(th[t].at)
    /\ Set(t, IF hubOf[th[t].at] = None THEN Over(t)
              ELSE [th[t] EXCEPT !.pc = "shut", !.hub = hubOf[th[t].at]])
    /\ UNCHANGED <<row, creator, cached, status, shut, ops, outdated>>

\* Hub.Close: every registered connection is closed; one between the check of the
\* closed flag and its insertion is missed.
Shut(t) ==
    /\ At(t, "shut")
    /\ shut' = shut \cup {th[t].hub}
    /\ LET mine == {c \in Conns : th[c].hub = th[t].hub}
       IN /\ late' = late \cup {c \in mine : th[c].pc \in {"reg", "insert"}}
          /\ th' = [s \in Threads |->
                      IF s = t THEN Over(t)
                      ELSE IF s \in mine /\ th[s].pc = "online"
                           THEN [th[s] EXCEPT !.pc = "leaving"] ELSE th[s]]
    /\ UNCHANGED <<row, creator, cached, status, hubOf, ops, outdated>>

-----------------------------------------------------------------------------
(* A websocket connection *)

\* validateRoomAccess: a banned or pending room is refused.
Check(c) ==
    /\ At(c, "loaded")
    /\ IF status[th[c].at] = "active" THEN Goto(c, "join") ELSE Set(c, Over(c))
    /\ UNCHANGED <<row, creator, roomVars, ops, late, outdated>>

\* lazyInitHub: h := r.hub.Load().
JoinLoad(c) ==
    /\ At(c, "join")
    /\ LET h == hubOf[th[c].at]
       IN Set(c, [th[c] EXCEPT !.pc = IF h = None THEN "create" ELSE "reg", !.hub = h])
    /\ UNCHANGED <<row, creator, roomVars, ops, late, outdated>>

\* A room object gets a new hub.
CreateHub(o) ==
    /\ FreeHubs # {}
    /\ hubOf' = [hubOf EXCEPT ![o] = NewHub]
    /\ shut' = shut \ {NewHub}

\* Mutant: r.hub.Store(h), whoever else has created a hub.
JoinCreateAnyway(c) ==
    /\ At(c, "create")
    /\ CreateHub(th[c].at)
    /\ Set(c, [th[c] EXCEPT !.pc = "reg", !.hub = NewHub])
    /\ UNCHANGED <<row, creator, cached, status, ops, late, outdated>>

\* r.hub.CompareAndSwap(nil, h): who loses closes its own hub and starts again.
JoinCreate(c) ==
    /\ At(c, "create")
    /\ IF hubOf[th[c].at] = None
       THEN /\ CreateHub(th[c].at)
            /\ Set(c, [th[c] EXCEPT !.pc = "reg", !.hub = NewHub])
       ELSE Goto(c, "join") /\ UNCHANGED <<hubOf, shut>>
    /\ UNCHANGED <<row, creator, cached, status, ops, late, outdated>>

\* RegClient: a closed hub refuses.
RegCheck(c) ==
    /\ At(c, "reg")
    /\ IF th[c].hub \in shut THEN Set(c, Over(c)) ELSE Goto(c, "insert")
    /\ UNCHANGED <<row, creator, roomVars, ops, late, outdated>>

RegInsert(c) ==
    /\ At(c, "insert")
    /\ Goto(c, "online")
    /\ UNCHANGED <<row, creator, roomVars, ops, late, outdated>>

\* The network connection ends.
Leave(c) ==
    /\ Watching(c)
    /\ Goto(c, "leaving")
    /\ UNCHANGED <<row, creator, roomVars, ops, late, outdated>>

\* handleClientDisconnection: UnregisterClient asks for the room's hub once more,
\* and creates another one when the room has been closed meanwhile.
Unregister(c) ==
    /\ At(c, "leaving")
    /\ IF hubOf[th[c].at] # None THEN UNCHANGED <<hubOf, shut>> ELSE CreateHub(th[c].at)
    /\ Set(c, Over(c))
    /\ UNCHANGED <<row, creator, cached, status, ops, late, outdated>>

-----------------------------------------------------------------------------
(* The operations on a room *)

\* A request for an operation: all but the deletion of the creator load the room.
StartOp(a, o) ==
    /\ At(a, "idle")
    /\ ops < MaxOps
    /\ ops' = ops + 1
    /\ Set(a, [th[a] EXCEPT !.op = o,
                            !.pc = IF o = "deleteCreator" THEN "loaded" ELSE "load"])
    /\ UNCHANGED <<row, creator, roomVars, late, outdated>>

\* The status an operation sets.
Target(a) == IF th[a].op = "ban" THEN "banned" ELSE "active"

\* AdminBanRoom takes any room, AdminUnBanRoom a banned and AdminApprovePendingRoom a
\* pending one.
Applies(a) == th[a].op = "ban" \/ (th[a].op = "approve" /\ status[th[a].at] # "active")

\* Mutant: the memory is set before the database, which may then refuse.
WriteStatusFirst(a) ==
    /\ At(a, "loaded")
    /\ Applies(a)
    /\ status' = [status EXCEPT ![th[a].at] = Target(a)]
    /\ \/ row # "gone" /\ row' = Target(a) /\ Goto(a, "set")
       \/ Set(a, Over(a)) /\ UNCHANGED row
    /\ UNCHANGED <<creator, cached, hubOf, shut, ops, late, outdated>>

\* db.SetRoomStatus, which fails for a deleted room or a broken database.
WriteStatus(a) ==
    /\ At(a, "loaded")
    /\ Applies(a)
    /\ \/ row # "gone" /\ row' = Target(a) /\ Goto(a, "set")
       \/ Set(a, Over(a)) /\ UNCHANGED row
    /\ UNCHANGED <<creator, roomVars, ops, late, outdated>>

\* The handler refuses to approve an active room.
Refuse(a) ==
    /\ At(a, "loaded")
    /\ th[a].op = "approve" /\ ~Applies(a)
    /\ Set(a, Over(a))
    /\ UNCHANGED <<row, creator, roomVars, ops, late, outdated>>

\* r.Status = status; a ban also closes the room, which stays in the cache.  History:
\* an object that now differs from the row has missed a change.
SetStatus(a) ==
    /\ At(a, "set")
    /\ status' = [status EXCEPT ![th[a].at] = Target(a)]
    /\ outdated' = {o \in Rooms : o \in {cached, th[a].at} /\ status'[o] # row}
                     \cup (outdated \ {th[a].at})
    /\ IF th[a].op = "ban" THEN Goto(a, "detach") ELSE Set(a, Over(a))
    /\ UNCHANGED <<row, creator, cached, hubOf, shut, ops, late>>

\* db.DeleteRoomByID, which fails when there is no such room, or db.DeleteUserByID,
\* which takes the user's rooms with it.
DeleteRow(a) ==
    /\ At(a, "loaded")
    /\ th[a].op \in {"delete", "deleteEntry", "deleteByID", "deleteCreator"}
    /\ row' = "gone"
    /\ CASE th[a].op = "deleteCreator" ->
              IF creator = "gone" THEN Set(a, Over(a)) ELSE Goto(a, "evict")
         [] row = "gone" -> Set(a, Over(a))
         [] th[a].op = "deleteByID" -> Goto(a, "evict")
         [] OTHER -> Goto(a, "compare")
    /\ UNCHANGED <<creator, roomVars, ops, late, outdated>>

\* AdminBanUser and AdminUnBanUser: neither touches the rooms.
BanCreator ==
    /\ ops < MaxOps
    /\ ops' = ops + 1
    /\ \/ creator = "ok" /\ creator' = "banned"
       \/ creator = "banned" /\ creator' = "ok"
    /\ UNCHANGED <<row, roomVars, th, late, outdated>>

\* A request that has loaded the room, and so refreshed its expiration, and still runs.
Busy(t) == th[t].pc \notin {"idle", "load", "online", "leaving", "gone"}

\* Mutant: the cache has no callback.
ExpireSilently ==
    /\ At(Janitor, "idle")
    /\ cached # None
    /\ \A t \in Threads : ~Busy(t)
    /\ cached' = None
    /\ UNCHANGED <<row, creator, status, hubOf, shut, th, ops, late, outdated>>

\* The entry expires: its time to live, hours, is longer than any request.  The cache
\* removes it and calls back to close the room.
Expire ==
    /\ At(Janitor, "idle")
    /\ cached # None
    /\ \A t \in Threads : ~Busy(t)
    /\ cached' = None
    /\ Set(Janitor, [th[Janitor] EXCEPT !.pc = "detach", !.at = cached])
    /\ UNCHANGED <<row, creator, status, hubOf, shut, ops, late, outdated>>

-----------------------------------------------------------------------------
LoadStep(t) == LoadHit(t) \/ Query(t) \/ Vet(t) \/ Store(t)
CloseStep(t) == Compare(t) \/ EvictAny(t) \/ Detach(t) \/ Shut(t)
ConnStep(c) ==
    \/ Check(c) \/ JoinLoad(c) \/ JoinCreate(c) \/ RegCheck(c) \/ RegInsert(c)
    \/ Unregister(c)
AdminStep(a) == WriteStatus(a) \/ Refuse(a) \/ SetStatus(a) \/ DeleteRow(a)

\* Every connection has come and gone, and no more operations are allowed.
Finished ==
    /\ \A t \in Threads : th[t].pc \in {"idle", "gone"}
    /\ ops = MaxOps
    /\ UNCHANGED vars

Next ==
    \/ \E t \in Conns \cup Admins : LoadStep(t)
    \/ \E t \in Threads : CloseStep(t)
    \/ \E c \in Conns : ConnStep(c) \/ Leave(c)
    \/ \E a \in Admins : AdminStep(a) \/ \E o \in Ops : StartOp(a, o)
    \/ BanCreator
    \/ Expire
    \/ Finished

Spec == Init /\ [][Next]_vars

\* Goroutines are scheduled; nobody must hang up, start an operation or let the entry
\* expire.
FairSpec ==
    /\ Spec
    /\ \A t \in Conns \cup Admins : WF_vars(LoadStep(t))
    /\ \A t \in Threads : WF_vars(CloseStep(t))
    /\ \A c \in Conns : WF_vars(ConnStep(c))
    /\ \A a \in Admins : WF_vars(AdminStep(a))

-----------------------------------------------------------------------------
Statuses == {"active", "pending", "banned"}

Steps == {"load", "vet", "store", "loaded", "compare", "evict", "detach", "shut", "join",
          "create", "reg", "insert", "online", "leaving", "gone", "set", "idle"}

TypeOK ==
    /\ row \in Statuses \cup {"gone"}
    /\ creator \in {"ok", "banned", "gone"}
    /\ cached \in Rooms \cup {None}
    /\ status \in [Rooms -> Statuses]
    /\ hubOf \in [Rooms -> Hubs \cup {None}]
    /\ shut \subseteq Hubs
    /\ th \in [Threads -> [pc : Steps, at : Rooms \cup {None}, hub : Hubs \cup {None},
                           seen : Statuses \cup {"gone"},
                           op : Ops \cup {"none", "giveup"}]]
    /\ ops \in 0..MaxOps
    /\ late \subseteq Conns
    /\ outdated \subseteq Rooms

\* Someone is about to close the hub h, or the room object o.
ClosingHub(h) == \E t \in Threads : th[t].pc = "shut" /\ th[t].hub = h
ClosingRoom(o) ==
    \E t \in Threads : th[t].pc \in {"detach", "shut"} /\ th[t].at = o

\* Whoever created the hub, and whoever closed the room meanwhile: a registered
\* connection is in the hub its room broadcasts to, or about to be closed with it.  Only
\* one that registered while its hub was closing can be left in a dead hub
\* (room.go:28-39, 88-97, 556-566).
NobodyStranded ==
    \A c \in Conns : Watching(c) =>
        hubOf[th[c].at] = th[c].hub \/ ClosingHub(th[c].hub) \/ c \in late

\* A connection watches the room object that is in the cache and not banned, or is about
\* to be closed, or had passed authentication before its room was closed.  So
\* two connections that authenticated after the last closing share one room object
\* (rooms.go:78-135, room.go:812-823, auth.go:156-173).
OnlyLateRemain ==
    \A c \in Conns : Watching(c) =>
        \/ cached = th[c].at /\ status[th[c].at] = "active"
        \/ ClosingRoom(th[c].at)
        \/ c \in late

\* The row is being changed, and the cache will be told.
Changing ==
    \E a \in Admins :
        \/ th[a].pc = "set"
        \/ th[a].pc \in {"compare", "evict"} /\ th[a].op # "giveup"

\* The cached room has the status of its row, a deleted room is not cached, unless the
\* change is not finished, or a load that had read the old row stored it
\* after the change, or the change was made to another object of the same room
\* (rooms.go:61-76, 137-186, room.go:812-823).
CacheTellsTruth ==
    cached # None => status[cached] = row \/ Changing \/ cached \in outdated

\* A connection whose room has been banned, deleted or expired is closed, unless it had
\* passed its check before (room.go:88-97).
ClosedOut ==
    \A c \in Conns :
        Watching(c) /\ ClosingRoom(th[c].at) /\ c \notin late ~> ~Watching(c)
==============================================================================
