------------------------------- MODULE Members -------------------------------
(***************************************************************************)
(* The members of one room: rows of the database (internal/db/member.go),  *)
(* the room object's cache of them, the operations of the room's admins    *)
(* and settings on both, and the websocket connections the operations must *)
(* reach (internal/op/room.go, server/middlewares/auth.go).                *)
(*                                                                         *)
(* The database is read and the cache filled in two steps, and an          *)
(* operation writes the row, evicts the member and kicks the user in       *)
(* three.  The creator needs no row and is left out; a permission set is a *)
(* set of permissions.                                                     *)
(***************************************************************************)
EXTENDS Integers, FiniteSets

CONSTANTS
    Users,      \* users of the room, the creator excepted
    Guest,      \* db.GuestUserID, one of them
    Conns,      \* websocket connections, each made once
    UserOf,     \* whose each connection is
    Admins,     \* goroutines that run operations for the creator
    Perms,      \* permissions of members
    AdminPerms, \* permissions of admins
    NoRow,      \* no member
    Ops,        \* the operations the admins may run
    MaxOps      \* bound: operations started

Threads == Conns \cup Admins
MemberOps == {"approve", "ban", "unban", "delete", "set", "add", "remove",
              "setAdmin", "setMember", "setRights", "addRights", "removeRights"}
SettingsOps == {"guestPerms", "noGuest", "noJoin", "review"}

ASSUME MembersAssumption ==
    /\ Guest \in Users /\ UserOf \in [Conns -> Users]
    /\ Conns \cap Admins = {}
    /\ Ops \subseteq MemberOps \cup SettingsOps
    /\ MaxOps \in Nat

VARIABLES
    row,        \* the member's row in the database, or NoRow
    cache,      \* the member in the room's cache, or NoRow
    saved,      \* the room's settings in the database
    settings,   \* the room's settings in memory
    th,         \* each thread: step, user, row read, operation, its argument, and the
                \* settings it has saved
    ops,        \* operations started
    behind,     \* history: members cached by a load that was overtaken by a change
    slipped     \* history: connections that were past the checks and not registered when
                \* their user was kicked, or that loaded a member that may be out of date

vars == <<row, cache, saved, settings, th, ops, behind, slipped>>

-----------------------------------------------------------------------------
Row == [status : {"pending", "active", "banned"}, role : {"member", "admin"},
        perms : SUBSET Perms, rights : SUBSET AdminPerms]

Settings == [guest : BOOLEAN, guestPerms : SUBSET Perms, join : BOOLEAN, review : BOOLEAN]

ASSUME NoRowAssumption == NoRow \notin Row

At(t, step) == th[t].pc = step
Set(t, r) == th' = [th EXCEPT ![t] = r]
Goto(t, step) == Set(t, [th[t] EXCEPT !.pc = step])
Over(t) == [th[t] EXCEPT !.pc = IF t \in Conns THEN "gone" ELSE "idle", !.seen = NoRow,
                         !.op = "none", !.arg = {}, !.rs = NoRow]

Online(c) == th[c].pc = "online"

\* UserDefaultPermissions.
DefaultPerms == Perms

Init ==
    /\ row = [u \in Users |-> NoRow]
    /\ cache = [u \in Users |-> NoRow]
    /\ saved \in {s \in Settings : s.guest /\ s.guestPerms = {} /\ s.join}
    /\ settings = saved
    /\ th = [t \in Threads |-> [pc |-> IF t \in Conns THEN "load" ELSE "idle",
                                user |-> IF t \in Conns THEN UserOf[t] ELSE Guest,
                                seen |-> NoRow, op |-> "none", arg |-> {}, rs |-> NoRow]]
    /\ ops = 0
    /\ behind = {}
    /\ slipped = {}

-----------------------------------------------------------------------------
(* LoadMember and LoadOrCreateMember *)

\* What storeMember makes of a row before it is cached.
Stored(u, r) ==
    CASE u = Guest ->
            [r EXCEPT !.role = "member", !.perms = settings.guestPerms, !.rights = {},
                      !.status = IF @ = "banned" THEN "active" ELSE @]
      [] u # Guest /\ r.role = "admin" -> [r EXCEPT !.perms = Perms]
      [] OTHER -> r

\* The row a user who joins gets.
Joined(u) ==
    [status |-> IF settings.review THEN "pending" ELSE "active", role |-> "member",
     perms |-> IF u = Guest THEN {} ELSE DefaultPerms, rights |-> {}]

\* A connection may join its user; an operation only looks the member up.
MayCreate(t) == t \in Conns /\ settings.join

\* History: a connection has loaded a member that may be out of date.
Doubted(t, doubtful) ==
    IF t \in Conns /\ th[t].user \in doubtful THEN slipped \cup {t} ELSE slipped

\* Guests may be disabled, the member may be cached, or there is no such row; else
\* the row is read, or created.
Load(t) ==
    /\ At(t, "load")
    /\ LET u == th[t].user
           GuestRefused == u = Guest /\ ~settings.guest
           Missing == row[u] = NoRow /\ ~MayCreate(t)
       IN \/ /\ GuestRefused
             /\ Set(t, Over(t))
             /\ UNCHANGED row
          \/ /\ ~GuestRefused /\ cache[u] # NoRow
             /\ Set(t, [th[t] EXCEPT !.pc = "check", !.seen = cache[u]])
             /\ UNCHANGED row
          \/ /\ ~GuestRefused /\ cache[u] = NoRow /\ Missing
             \* IsAdmin takes an error for "not an admin".
             /\ IF th[t].op \in {"ban", "set", "add", "remove"} THEN Goto(t, "update") ELSE Set(t, Over(t))
             /\ UNCHANGED row
          \/ /\ ~GuestRefused /\ cache[u] = NoRow /\ ~Missing
             /\ row' = [row EXCEPT ![u] = IF @ = NoRow THEN Joined(u) ELSE @]
             /\ Set(t, [th[t] EXCEPT !.pc = "store", !.seen = row'[u]])
    /\ slipped' = Doubted(t, behind)
    /\ UNCHANGED <<cache, saved, settings, ops, behind>>

\* New permissions of guests are saved and not in the room's settings yet.
Settling == \E a \in Admins : At(a, "settle") /\ th[a].rs.guestPerms # settings.guestPerms

\* storeMember: LoadOrStore keeps what another load has stored.  History: the row, or a
\* guest's permissions, may be out of date.
Store(t) ==
    /\ At(t, "store")
    /\ LET u == th[t].user
           m == IF cache[u] = NoRow THEN Stored(u, th[t].seen) ELSE cache[u]
       IN /\ cache' = [cache EXCEPT ![u] = m]
          /\ Set(t, [th[t] EXCEPT !.pc = "check", !.seen = m])
          /\ behind' = IF cache[u] = NoRow /\ (th[t].seen # row[u] \/ (u = Guest /\ Settling))
                       THEN behind \cup {u} ELSE behind
          /\ slipped' = Doubted(t, behind')
    /\ UNCHANGED <<row, saved, settings, ops>>

-----------------------------------------------------------------------------
(* A websocket connection *)

\* validateRoomAccess: banned and pending members are refused.
Check(c) ==
    /\ At(c, "check")
    /\ IF th[c].seen.status = "active" THEN Goto(c, "join") ELSE Set(c, Over(c))
    /\ UNCHANGED <<row, cache, saved, settings, ops, behind, slipped>>

\* NewClient: the connection is registered with the hub.
Join(c) ==
    /\ At(c, "join")
    /\ Goto(c, "online")
    /\ UNCHANGED <<row, cache, saved, settings, ops, behind, slipped>>

Leave(c) ==
    /\ Online(c)
    /\ Set(c, Over(c))
    /\ UNCHANGED <<row, cache, saved, settings, ops, behind, slipped>>

-----------------------------------------------------------------------------
(* The operations on a member *)

\* The operations that look the member up first.  The role it has stops the creator
\* from some of them; an error stops it from fewer.
LooksUp(o) == o \in {"ban", "set", "add", "remove", "setRights", "addRights", "removeRights"}

\* The operations a guest is not subject to.  Setting, adding or removing a guest's
\* permissions changes the room's settings instead.
NotForGuests ==
    {"ban", "unban", "set", "add", "remove", "setAdmin", "setRights", "addRights", "removeRights"}

StartMemberOp(a, o, u, p) ==
    /\ At(a, "idle")
    /\ ops < MaxOps
    /\ u = Guest => o \notin NotForGuests
    /\ ops' = ops + 1
    /\ Set(a, [th[a] EXCEPT !.pc = IF LooksUp(o) THEN "load" ELSE "update",
                            !.user = u, !.op = o, !.arg = p])
    /\ UNCHANGED <<row, cache, saved, settings, behind, slipped>>

\* Permissions are added to and removed from members who are not admins, rights set
\* for admins; the creator may ban an admin and set its permissions.
CheckRole(a) ==
    /\ At(a, "check")
    /\ IF /\ th[a].op \notin {"ban", "set"}
          /\ (th[a].seen.role = "admin") = (th[a].op \in {"add", "remove"})
       THEN Set(a, Over(a))
       ELSE Goto(a, "update")
    /\ UNCHANGED <<row, cache, saved, settings, ops, behind, slipped>>

\* The UPDATE of each operation.
After(o, p, r) ==
    CASE o = "approve" -> [r EXCEPT !.status = IF @ = "pending" THEN "active" ELSE @]
      [] o = "unban" -> [r EXCEPT !.status = "active"]
      [] o = "ban" -> [r EXCEPT !.status = "banned"]
      [] o = "delete" -> NoRow
      [] o = "set" -> [r EXCEPT !.perms = p]
      [] o = "add" -> [r EXCEPT !.perms = @ \cup p]
      [] o = "remove" -> [r EXCEPT !.perms = @ \ p]
      [] o = "setAdmin" -> [r EXCEPT !.role = "admin", !.perms = Perms, !.rights = p]
      [] o = "setMember" -> [r EXCEPT !.role = "member", !.perms = p, !.rights = {}]
      [] o = "setRights" -> [r EXCEPT !.rights = p]
      [] o = "addRights" -> [r EXCEPT !.rights = @ \cup p]
      [] o = "removeRights" -> [r EXCEPT !.rights = @ \ p]

Kicks(o) == o \in {"ban", "delete"}

\* Mutant: the member stays in the cache.
UpdateOnly(a) ==
    /\ At(a, "update")
    /\ LET u == th[a].user
       IN row' = [row EXCEPT ![u] = IF @ = NoRow THEN @ ELSE After(th[a].op, th[a].arg, @)]
    /\ IF Kicks(th[a].op) THEN Goto(a, "kick") ELSE Set(a, Over(a))
    /\ UNCHANGED <<cache, saved, settings, ops, behind, slipped>>

\* The row is updated, unless there is none or the database fails; the deferred
\* eviction runs in any case.
Update(a) ==
    /\ At(a, "update")
    /\ LET u == th[a].user
       IN \/ row[u] # NoRow /\ row' = [row EXCEPT ![u] = After(th[a].op, th[a].arg, @)]
          \/ UNCHANGED row
    /\ Goto(a, "evict")
    /\ UNCHANGED <<cache, saved, settings, ops, behind, slipped>>

\* r.members.Delete(userID)
Evict(a) ==
    /\ At(a, "evict")
    /\ cache' = [cache EXCEPT ![th[a].user] = NoRow]
    /\ behind' = behind \ {th[a].user}
    /\ IF Kicks(th[a].op) THEN Goto(a, "kick") ELSE Set(a, Over(a))
    /\ UNCHANGED <<row, saved, settings, ops, slipped>>

\* The connections of a user that are not registered but past the checks: they have an active
\* member, or are about to be given one.  A guest that has read its row is past the refusal of
\* guests, and another load may have cached an active member for it to be given.
Joining(u) ==
    {c \in Conns : /\ UserOf[c] = u
                   /\ \/ At(c, "join")
                      \/ At(c, "check") /\ th[c].seen.status = "active"
                      \/ At(c, "store") /\ (u = Guest \/ th[c].seen.status = "active")}

\* Mutant: a kick closes one of the user's connections.
KickOne(a) ==
    /\ At(a, "kick")
    /\ LET u == th[a].user
       IN /\ \E c \in Conns : UserOf[c] = u /\ th' = [t \in Threads |->
                      IF t = a \/ (t = c /\ Online(t)) THEN Over(t) ELSE th[t]]
          /\ slipped' = slipped \cup Joining(u)
    /\ UNCHANGED <<row, cache, saved, settings, ops, behind>>

\* r.KickUser: the hub closes the user's registered connections.
Kick(a) ==
    /\ At(a, "kick")
    /\ LET u == th[a].user
       IN /\ th' = [t \in Threads |->
                      IF t = a \/ (t \in Conns /\ UserOf[t] = u /\ Online(t))
                      THEN Over(t) ELSE th[t]]
          /\ slipped' = slipped \cup Joining(u)
    /\ UNCHANGED <<row, cache, saved, settings, ops, behind>>

-----------------------------------------------------------------------------
(* UpdateSettings and afterUpdateSettings *)

\* The settings as the operation changes them.
Changed(o, s) ==
    CASE o = "guestPerms" -> [s EXCEPT !.guestPerms = Perms \ @]
      [] o = "noGuest" -> [s EXCEPT !.guest = ~@]
      [] o = "noJoin" -> [s EXCEPT !.join = ~@]
      [] o = "review" -> [s EXCEPT !.review = ~@]

StartSettingsOp(a, o) ==
    /\ At(a, "idle")
    /\ ops < MaxOps
    /\ ops' = ops + 1
    /\ Set(a, [th[a] EXCEPT !.pc = "save", !.user = Guest, !.op = o])
    /\ UNCHANGED <<row, cache, saved, settings, behind, slipped>>

\* db.UpdateRoomSettings, which may fail.
SaveSettings(a) ==
    /\ At(a, "save")
    /\ \/ saved' = Changed(th[a].op, saved) /\ Set(a, [th[a] EXCEPT !.pc = "guests", !.rs = saved'])
       \/ Set(a, Over(a)) /\ UNCHANGED saved
    /\ UNCHANGED <<row, cache, settings, ops, behind, slipped>>

\* The guest is evicted when its permissions change: before the settings are.
EvictGuest(a) ==
    /\ At(a, "guests")
    /\ IF settings.guestPerms # th[a].rs.guestPerms
       THEN /\ cache' = [cache EXCEPT ![Guest] = NoRow]
            /\ behind' = behind \ {Guest}
       ELSE UNCHANGED <<cache, behind>>
    /\ Goto(a, "settle")
    /\ UNCHANGED <<row, saved, settings, ops, slipped>>

\* r.Settings = rs, and guests are kicked when they are disabled.
Settle(a) ==
    /\ At(a, "settle")
    /\ settings' = th[a].rs
    /\ IF th[a].rs.guest THEN Set(a, Over(a)) ELSE Goto(a, "kick")
    /\ UNCHANGED <<row, cache, saved, ops, behind, slipped>>

-----------------------------------------------------------------------------
ConnStep(c) == Check(c) \/ Join(c) \/ Leave(c)
AdminStep(a) ==
    \/ CheckRole(a) \/ Update(a) \/ Evict(a) \/ Kick(a)
    \/ SaveSettings(a) \/ EvictGuest(a) \/ Settle(a)

\* The argument of an operation: some permissions, some rights, or nothing.
Args(o) ==
    CASE o \in {"set", "add", "remove", "setMember"} -> SUBSET Perms
      [] o \in {"setAdmin", "setRights", "addRights", "removeRights"} -> SUBSET AdminPerms
      [] OTHER -> {{}}

\* Every connection has come and gone, and no more operations are allowed.
Finished ==
    /\ \A t \in Threads : th[t].pc \in {"idle", "gone"}
    /\ ops = MaxOps
    /\ UNCHANGED vars

Next ==
    \/ \E t \in Threads : Load(t) \/ Store(t)
    \/ \E c \in Conns : ConnStep(c)
    \/ \E a \in Admins :
         \/ AdminStep(a)
         \/ \E o \in Ops \cap MemberOps, u \in Users : \E p \in Args(o) :
               StartMemberOp(a, o, u, p)
         \/ \E o \in Ops \cap SettingsOps : StartSettingsOp(a, o)
    \/ Finished

Spec == Init /\ [][Next]_vars

-----------------------------------------------------------------------------
Steps == {"load", "store", "check", "join", "online", "gone", "idle", "update", "evict",
          "kick", "save", "guests", "settle"}

TypeOK ==
    /\ row \in [Users -> Row \cup {NoRow}]
    /\ cache \in [Users -> Row \cup {NoRow}]
    /\ saved \in Settings /\ settings \in Settings
    /\ th \in [Threads -> [pc : Steps, user : Users, seen : Row \cup {NoRow},
                           op : Ops \cup {"none"},
                           arg : (SUBSET Perms) \cup (SUBSET AdminPerms),
                           rs : Settings \cup {NoRow}]]
    /\ ops \in 0..MaxOps
    /\ behind \subseteq Users
    /\ slipped \subseteq Conns

\* An operation has changed the row of u and has not evicted it yet.
Changing(u) == \E a \in Admins : th[a].pc = "evict" /\ th[a].user = u

\* The member in the cache is the row in the database, as storeMember presents it,
\* once no operation on it is under way: permissions, rights, role and status all follow
\* the database, also after a failed update.  The exception is a load that read the row
\* before a change and stored it after the eviction, and a guest loaded between the
\* eviction and the new settings (room.go:221-316, 610-711, 725-806).
MembersTellTruth ==
    \A u \in Users :
        cache[u] # NoRow =>
            \/ row[u] # NoRow /\ cache[u] = Stored(u, row[u])
            \/ Changing(u)
            \/ u \in behind

\* Banning ends in a kick that follows the eviction: a banned member is not connected
\* unless the ban is under way, the connection was between its check and
\* its registration, or the check used an outdated member (room.go:684-698).
BannedStayOut ==
    \A c \in Conns :
        Online(c) /\ row[UserOf[c]] # NoRow /\ row[UserOf[c]].status = "banned"
        /\ UserOf[c] # Guest =>
            \/ \E a \in Admins : th[a].pc \in {"evict", "kick"} /\ th[a].user = UserOf[c]
            \/ c \in slipped

\* Guests are gone once guests are disabled, unless they were past their check
\* (room.go:610-621).
GuestsStayOut ==
    \A c \in Conns :
        Online(c) /\ UserOf[c] = Guest /\ ~settings.guest =>
            \/ \E a \in Admins : th[a].pc = "kick" /\ th[a].user = Guest
            \/ c \in slipped

\* Nobody who was put out stays connected (room.go:610-621, 684-698).
KickedStayOut == BannedStayOut /\ GuestsStayOut
==============================================================================
