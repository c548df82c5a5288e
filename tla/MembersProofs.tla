---------------------------- MODULE MembersProofs -----------------------------
(* Theorems about Members, for any number of users, connections and admins. *)
EXTENDS Members, TLAPS

Tasks == [pc : Steps, user : Users, seen : Row \cup {NoRow}, op : Ops \cup {"none"},
          arg : (SUBSET Perms) \cup (SUBSET AdminPerms), rs : Settings \cup {NoRow}]

\* The argument is one of the operation.
Suits(r) ==
    /\ r.op \in {"set", "add", "remove", "setMember"} => r.arg \subseteq Perms
    /\ r.op \in {"setAdmin", "setRights", "addRights", "removeRights"} =>
           r.arg \subseteq AdminPerms

\* A step has what it works on: the member it stores or checks, the settings it puts in place.
Holds(r) ==
    /\ r.pc \in {"store", "check"} => r.seen \in Row
    /\ r.pc \in {"guests", "settle"} => r.rs \in Settings
    /\ r.pc = "save" => r.op \in SettingsOps

\* What an admin looks up and updates is for an operation on a member.
OnMember(r) == r.pc \in {"load", "store", "check", "update"} => r.op \in MemberOps

Fits(t, r) == r \in Tasks /\ Suits(r) /\ Holds(r) /\ (t \in Admins => OnMember(r))

ThreadsInv == th = [t \in Threads |-> th[t]] /\ \A t \in Threads : Fits(t, th[t])

TypeInv == TypeOK /\ ThreadsInv

-----------------------------------------------------------------------------
LEMMA OverFits ==
    ASSUME NEW t \in Threads, Fits(t, th[t])
    PROVE  Fits(t, Over(t))
BY DEF Over, Fits, Tasks, Suits, Holds, OnMember, Steps

LEMMA SetThreads ==
    ASSUME ThreadsInv, NEW t \in Threads, NEW r, Fits(t, r), Set(t, r)
    PROVE  ThreadsInv'
BY DEF ThreadsInv, Set, Fits, Suits, Holds, OnMember

LEMMA SetOver ==
    ASSUME ThreadsInv, NEW t \in Threads, Set(t, Over(t))
    PROVE  ThreadsInv'
BY SetThreads, OverFits DEF ThreadsInv

\* A step that needs nothing else.
LEMMA GotoThreads ==
    ASSUME ThreadsInv, NEW t \in Threads, NEW l \in Steps, Goto(t, l),
           Holds([th[t] EXCEPT !.pc = l]), t \in Admins => OnMember([th[t] EXCEPT !.pc = l])
    PROVE  ThreadsInv'
<1>1. Fits(t, th[t])
  BY DEF ThreadsInv
<1>2. Fits(t, [th[t] EXCEPT !.pc = l])
  BY <1>1 DEF Fits, Tasks, Suits
<1> QED
  BY <1>2, SetThreads DEF Goto

LEMMA ThreadsTypes ==
    ASSUME ThreadsInv
    PROVE  th \in [Threads -> [pc : Steps, user : Users, seen : Row \cup {NoRow},
                               op : Ops \cup {"none"},
                               arg : (SUBSET Perms) \cup (SUBSET AdminPerms),
                               rs : Settings \cup {NoRow}]]
BY DEF ThreadsInv, Fits, Tasks

\* What the cache makes of a row, what a joining user gets, and what an operation makes of a
\* row, are rows.
LEMMA StoredTypes ==
    ASSUME TypeOK, NEW u \in Users, NEW r \in Row
    PROVE  Stored(u, r) \in Row
<1>1. settings.guestPerms \in SUBSET Perms
  BY DEF TypeOK, Settings
<1>2. CASE u = Guest
  BY <1>1, <1>2 DEF Stored, Row
<1>3. CASE u # Guest /\ r.role = "admin"
  BY <1>3 DEF Stored, Row
<1>4. CASE u # Guest /\ r.role # "admin"
  BY <1>4 DEF Stored
<1> QED
  BY <1>2, <1>3, <1>4

LEMMA JoinedTypes ==
    ASSUME NEW u \in Users
    PROVE  Joined(u) \in Row
BY DEF Joined, DefaultPerms, Row

LEMMA AfterTypes ==
    ASSUME NEW o \in MemberOps, NEW p, NEW r \in Row,
           o \in {"set", "add", "remove", "setMember"} => p \subseteq Perms,
           o \in {"setAdmin", "setRights", "addRights", "removeRights"} => p \subseteq AdminPerms
    PROVE  After(o, p, r) \in Row \cup {NoRow}
<1>1. /\ r.status \in {"pending", "active", "banned"} /\ r.role \in {"member", "admin"}
      /\ r.perms \subseteq Perms /\ r.rights \subseteq AdminPerms
  BY DEF Row
<1>2. CASE o \in {"approve", "unban", "ban"}
  BY <1>2 DEF After, Row
<1>3. CASE o = "delete"
  BY <1>3 DEF After
<1>4. CASE o \in {"set", "add", "remove"}
  BY <1>1, <1>4 DEF After, Row
<1>5. CASE o \in {"setAdmin", "setMember"}
  BY <1>1, <1>5 DEF After, Row
<1>6. CASE o \in {"setRights", "addRights", "removeRights"}
  BY <1>1, <1>6 DEF After, Row
<1> QED
  BY <1>2, <1>3, <1>4, <1>5, <1>6 DEF MemberOps

LEMMA ArgsTypes ==
    ASSUME NEW o, NEW p \in Args(o)
    PROVE  /\ p \in (SUBSET Perms) \cup (SUBSET AdminPerms)
           /\ o \in {"set", "add", "remove", "setMember"} => p \subseteq Perms
           /\ o \in {"setAdmin", "setRights", "addRights", "removeRights"} =>
                  p \subseteq AdminPerms
<1>1. CASE o \in {"set", "add", "remove", "setMember"}
  BY <1>1 DEF Args
<1>2. CASE o \in {"setAdmin", "setRights", "addRights", "removeRights"}
  BY <1>2 DEF Args
<1>3. CASE /\ o \notin {"set", "add", "remove", "setMember"}
           /\ o \notin {"setAdmin", "setRights", "addRights", "removeRights"}
  <2>1. Args(o) = {{}}
    BY <1>3, Zenon DEF Args
  <2>2. p = {}
    BY <2>1
  <2> QED
    BY <1>3, <2>2
<1> QED
  BY <1>1, <1>2, <1>3

LEMMA ChangedTypes ==
    ASSUME NEW o \in SettingsOps, NEW s \in Settings
    PROVE  Changed(o, s) \in Settings
<1>1. s.guestPerms \subseteq Perms
  BY DEF Settings
<1>2. CASE o = "guestPerms"
  BY <1>1, <1>2 DEF Changed, Settings
<1>3. CASE o \in {"noGuest", "noJoin", "review"}
  BY <1>3 DEF Changed, Settings
<1> QED
  BY <1>2, <1>3 DEF SettingsOps

LEMMA DoubtedTypes ==
    ASSUME TypeOK, NEW t, NEW D
    PROVE  Doubted(t, D) \subseteq Conns
BY DEF Doubted, TypeOK

-----------------------------------------------------------------------------
LEMMA LoadTypes ==
    ASSUME TypeInv, NEW t \in Threads, Load(t)
    PROVE  TypeInv'
<1> DEFINE u == th[t].user
<1>0. Fits(t, th[t]) /\ u \in Users
  BY DEF TypeInv, ThreadsInv, Fits, Tasks
<1>1. slipped' \subseteq Conns
  BY DoubtedTypes DEF Load, TypeInv
<1>2. ASSUME Set(t, Over(t)) /\ UNCHANGED row
      PROVE  ThreadsInv' /\ row' \in [Users -> Row \cup {NoRow}]
  BY <1>2, SetOver DEF TypeInv, TypeOK
<1>3. ASSUME cache[u] # NoRow, Set(t, [th[t] EXCEPT !.pc = "check", !.seen = cache[u]]),
             UNCHANGED row
      PROVE  ThreadsInv' /\ row' \in [Users -> Row \cup {NoRow}]
  <2>1. cache[u] \in Row
    BY <1>0, <1>3 DEF TypeInv, TypeOK
  <2>2. Fits(t, [th[t] EXCEPT !.pc = "check", !.seen = cache[u]])
    BY <1>0, <2>1 DEF Load, At, Fits, Tasks, Suits, Holds, OnMember, Steps
  <2> QED
    BY <1>3, <2>2, SetThreads DEF TypeInv, TypeOK
<1>4. ASSUME th[t].op \in {"ban", "set", "add", "remove"}, Goto(t, "update"), UNCHANGED row
      PROVE  ThreadsInv' /\ row' \in [Users -> Row \cup {NoRow}]
  <2>1. Holds([th[t] EXCEPT !.pc = "update"]) /\ OnMember([th[t] EXCEPT !.pc = "update"])
    BY <1>0, <1>4 DEF Fits, Tasks, Holds, OnMember, MemberOps
  <2> QED
    BY <1>4, <2>1, GotoThreads DEF TypeInv, TypeOK, Steps
<1>5. ASSUME row' = [row EXCEPT ![u] = IF @ = NoRow THEN Joined(u) ELSE @],
             Set(t, [th[t] EXCEPT !.pc = "store", !.seen = row'[u]])
      PROVE  ThreadsInv' /\ row' \in [Users -> Row \cup {NoRow}]
  <2>1. row' \in [Users -> Row \cup {NoRow}] /\ row'[u] \in Row
    BY <1>0, <1>5, JoinedTypes DEF TypeInv, TypeOK
  <2>2. Fits(t, [th[t] EXCEPT !.pc = "store", !.seen = row'[u]])
    BY <1>0, <2>1 DEF Load, At, Fits, Tasks, Suits, Holds, OnMember, Steps
  <2> QED
    BY <1>5, <2>1, <2>2, SetThreads DEF TypeInv
<1>6. ThreadsInv' /\ row' \in [Users -> Row \cup {NoRow}]
  BY <1>2, <1>3, <1>4, <1>5 DEF Load
<1> QED
  BY <1>1, <1>6, ThreadsTypes DEF Load, TypeInv, TypeOK, ThreadsInv, Fits, Tasks

LEMMA StoreTypes ==
    ASSUME TypeInv, NEW t \in Threads, Store(t)
    PROVE  TypeInv'
<1> DEFINE u == th[t].user
           m == IF cache[u] = NoRow THEN Stored(u, th[t].seen) ELSE cache[u]
<1>0. Fits(t, th[t]) /\ u \in Users
  BY DEF TypeInv, ThreadsInv, Fits, Tasks
<1>1. m \in Row
  <2>1. th[t].seen \in Row
    BY <1>0 DEF Store, At, Fits, Holds
  <2>2. cache[u] \in Row \cup {NoRow}
    BY <1>0 DEF TypeInv, TypeOK
  <2> QED
    BY <1>0, <2>1, <2>2, StoredTypes DEF TypeInv
<1>2. /\ cache' = [cache EXCEPT ![u] = m]
      /\ Set(t, [th[t] EXCEPT !.pc = "check", !.seen = m])
      /\ behind' \subseteq behind \cup {u} /\ slipped' = Doubted(t, behind')
  BY DEF Store
<1> HIDE DEF m
<1>3. Fits(t, [th[t] EXCEPT !.pc = "check", !.seen = m])
  BY <1>0, <1>1 DEF Store, At, Fits, Tasks, Suits, Holds, OnMember, Steps
<1>4. ThreadsInv'
  BY <1>2, <1>3, SetThreads DEF TypeInv
<1>5. cache' \in [Users -> Row \cup {NoRow}] /\ behind' \subseteq Users /\ slipped' \subseteq Conns
  BY <1>0, <1>1, <1>2, DoubtedTypes DEF TypeInv, TypeOK
<1> QED
  BY <1>4, <1>5 DEF Store, TypeInv, TypeOK, ThreadsInv, Fits, Tasks

LEMMA ConnTypes ==
    ASSUME TypeInv, NEW c \in Conns, ConnStep(c)
    PROVE  TypeInv'
<1>0. c \in Threads /\ c \notin Admins /\ Fits(c, th[c])
  BY MembersAssumption DEF TypeInv, ThreadsInv, Threads
<1>1. Holds([th[c] EXCEPT !.pc = "join"]) /\ Holds([th[c] EXCEPT !.pc = "online"])
  BY <1>0 DEF Fits, Tasks, Holds
<1>2. Goto(c, "join") \/ Goto(c, "online") \/ Set(c, Over(c))
  BY DEF ConnStep, Check, Join, Leave
<1>3. ThreadsInv'
  BY <1>0, <1>1, <1>2, GotoThreads, SetOver DEF TypeInv, Steps
<1> QED
  BY <1>3 DEF ConnStep, Check, Join, Leave, TypeInv, TypeOK, ThreadsInv, Fits, Tasks

LEMMA StartTypes ==
    ASSUME TypeInv, NEW a \in Admins,
           \/ \E o \in Ops \cap MemberOps, u \in Users : \E p \in Args(o) :
                 StartMemberOp(a, o, u, p)
           \/ \E o \in Ops \cap SettingsOps : StartSettingsOp(a, o)
    PROVE  TypeInv'
<1>0. a \in Threads /\ Fits(a, th[a])
  BY DEF TypeInv, ThreadsInv, Threads
<1>1. ASSUME ops < MaxOps, ops' = ops + 1
      PROVE  ops' \in 0..MaxOps
  <2>1. ops \in 0..MaxOps /\ MaxOps \in Nat
    BY MembersAssumption DEF TypeInv, TypeOK
  <2> QED
    BY ONLY <1>1, <2>1
<1>2. ASSUME NEW o \in Ops \cap MemberOps, NEW u \in Users, NEW p \in Args(o),
             StartMemberOp(a, o, u, p)
      PROVE  TypeInv'
  <2> DEFINE l == IF LooksUp(o) THEN "load" ELSE "update"
             r == [th[a] EXCEPT !.pc = l, !.user = u, !.op = o, !.arg = p]
  <2>1. Set(a, r) /\ l \in {"load", "update"}
    BY <1>2 DEF StartMemberOp
  <2> HIDE DEF l
  <2>2. /\ p \in (SUBSET Perms) \cup (SUBSET AdminPerms)
        /\ o \in {"set", "add", "remove", "setMember"} => p \subseteq Perms
        /\ o \in {"setAdmin", "setRights", "addRights", "removeRights"} => p \subseteq AdminPerms
    BY ArgsTypes
  <2>3. r \in Tasks
    <3>1. th[a] \in Tasks /\ o \in Ops /\ l \in Steps
      BY <1>0, <2>1 DEF Fits, Steps
    <3> QED
      BY <2>2, <3>1 DEF Tasks
  <2>4. r.op = o /\ r.arg = p /\ r.pc \in {"load", "update"}
    BY <1>0, <2>1 DEF Fits, Tasks
  <2> HIDE DEF r
  <2>5. Fits(a, r)
    BY <2>2, <2>3, <2>4 DEF Fits, Suits, Holds, OnMember
  <2>6. ThreadsInv'
    BY <1>0, <2>1, <2>5, SetThreads DEF TypeInv
  <2> QED
    BY <1>1, <1>2, <2>6 DEF StartMemberOp, TypeInv, TypeOK, ThreadsInv, Fits, Tasks
<1>3. ASSUME NEW o \in Ops \cap SettingsOps, StartSettingsOp(a, o)
      PROVE  TypeInv'
  <2>1. Fits(a, [th[a] EXCEPT !.pc = "save", !.user = Guest, !.op = o])
    BY <1>0, MembersAssumption
       DEF Fits, Tasks, Suits, Holds, OnMember, Steps, SettingsOps
  <2>2. ThreadsInv'
    BY <1>0, <1>3, <2>1, SetThreads DEF StartSettingsOp, TypeInv
  <2> QED
    BY <1>1, <1>3, <2>2 DEF StartSettingsOp, TypeInv, TypeOK, ThreadsInv, Fits, Tasks
<1> QED
  BY <1>2, <1>3

LEMMA AdminTypes ==
    ASSUME TypeInv, NEW a \in Admins, AdminStep(a)
    PROVE  TypeInv'
<1> DEFINE u == th[a].user
<1>0. a \in Threads /\ Fits(a, th[a]) /\ u \in Users
  BY DEF TypeInv, ThreadsInv, Threads, Fits, Tasks
<1>1. ASSUME NEW l \in {"evict", "kick"}, Goto(a, l)
      PROVE  ThreadsInv'
  <2>1. Holds([th[a] EXCEPT !.pc = l]) /\ OnMember([th[a] EXCEPT !.pc = l])
    BY <1>0 DEF Fits, Tasks, Holds, OnMember
  <2> QED
    BY <1>0, <1>1, <2>1, GotoThreads DEF TypeInv, Steps
<1>2. CASE CheckRole(a)
  <2>1. Holds([th[a] EXCEPT !.pc = "update"]) /\ OnMember([th[a] EXCEPT !.pc = "update"])
    BY <1>0, <1>2 DEF CheckRole, At, Fits, Tasks, Holds, OnMember
  <2>2. ThreadsInv'
    BY <1>0, <1>2, <2>1, GotoThreads, SetOver DEF CheckRole, TypeInv, Steps
  <2> QED
    BY <1>2, <2>2 DEF CheckRole, TypeInv, TypeOK, ThreadsInv, Fits, Tasks
<1>3. CASE Update(a)
  <2>1. th[a].op \in MemberOps /\ Suits(th[a])
    BY <1>0, <1>3 DEF Update, At, Fits, OnMember
  <2>2. row[u] # NoRow => After(th[a].op, th[a].arg, row[u]) \in Row \cup {NoRow}
    BY <1>0, <2>1, AfterTypes DEF Suits, TypeInv, TypeOK
  <2>3. row' \in [Users -> Row \cup {NoRow}]
    BY <1>0, <1>3, <2>2 DEF Update, TypeInv, TypeOK
  <2>4. ThreadsInv'
    BY <1>1, <1>3 DEF Update
  <2> QED
    BY <1>3, <2>3, <2>4 DEF Update, TypeInv, TypeOK, ThreadsInv, Fits, Tasks
<1>4. CASE Evict(a)
  <2>1. ThreadsInv'
    BY <1>0, <1>1, <1>4, SetOver DEF Evict, TypeInv
  <2>2. cache' \in [Users -> Row \cup {NoRow}] /\ behind' \subseteq Users
    BY <1>0, <1>4 DEF Evict, TypeInv, TypeOK
  <2> QED
    BY <1>4, <2>1, <2>2 DEF Evict, TypeInv, TypeOK, ThreadsInv, Fits, Tasks
<1>5. CASE Kick(a)
  <2>1. ThreadsInv'
    <3> DEFINE out(t) == t = a \/ (t \in Conns /\ UserOf[t] = u /\ Online(t))
               next(t) == IF out(t) THEN Over(t) ELSE th[t]
    <3>1. th' = [t \in Threads |-> next(t)]
      BY <1>5 DEF Kick
    <3>2. ASSUME NEW t \in Threads
          PROVE  Fits(t, next(t))
      BY OverFits DEF TypeInv, ThreadsInv
    <3>3. \A t \in Threads : th'[t] = next(t)
      BY <3>1
    <3> HIDE DEF next
    <3> QED
      BY <3>1, <3>2, <3>3 DEF ThreadsInv, Fits, Suits, Holds, OnMember
  <2>2. slipped' \subseteq Conns
    BY <1>5 DEF Kick, Joining, TypeInv, TypeOK
  <2> QED
    BY <1>5, <2>1, <2>2 DEF Kick, TypeInv, TypeOK, ThreadsInv, Fits, Tasks
<1>6. CASE SaveSettings(a)
  <2>1. ASSUME saved' = Changed(th[a].op, saved),
               Set(a, [th[a] EXCEPT !.pc = "guests", !.rs = saved'])
        PROVE  ThreadsInv' /\ saved' \in Settings
    <3>1. saved' \in Settings
      BY <1>0, <1>6, <2>1, ChangedTypes DEF SaveSettings, At, Fits, Holds, TypeInv, TypeOK
    <3>2. Fits(a, [th[a] EXCEPT !.pc = "guests", !.rs = saved'])
      BY <1>0, <3>1 DEF Fits, Tasks, Suits, Holds, OnMember, Steps
    <3> QED
      BY <1>0, <2>1, <3>1, <3>2, SetThreads DEF TypeInv
  <2>2. ThreadsInv' /\ saved' \in Settings
    BY <1>0, <1>6, <2>1, SetOver DEF SaveSettings, TypeInv, TypeOK
  <2> QED
    BY <1>6, <2>2 DEF SaveSettings, TypeInv, TypeOK, ThreadsInv, Fits, Tasks
<1>7. CASE EvictGuest(a)
  <2>1. Holds([th[a] EXCEPT !.pc = "settle"]) /\ OnMember([th[a] EXCEPT !.pc = "settle"])
    BY <1>0, <1>7 DEF EvictGuest, At, Fits, Tasks, Holds, OnMember
  <2>2. ThreadsInv'
    BY <1>0, <1>7, <2>1, GotoThreads DEF EvictGuest, TypeInv, Steps
  <2>3. cache' \in [Users -> Row \cup {NoRow}] /\ behind' \subseteq Users
    BY <1>7 DEF EvictGuest, TypeInv, TypeOK
  <2> QED
    BY <1>7, <2>2, <2>3 DEF EvictGuest, TypeInv, TypeOK, ThreadsInv, Fits, Tasks
<1>8. CASE Settle(a)
  <2>1. settings' \in Settings
    BY <1>0, <1>8 DEF Settle, At, Fits, Holds
  <2>2. ThreadsInv'
    BY <1>0, <1>1, <1>8, SetOver DEF Settle, TypeInv
  <2> QED
    BY <1>8, <2>1, <2>2 DEF Settle, TypeInv, TypeOK, ThreadsInv, Fits, Tasks
<1> QED
  BY <1>2, <1>3, <1>4, <1>5, <1>6, <1>7, <1>8 DEF AdminStep

LEMMA InitTypes ==
    ASSUME Init
    PROVE  TypeInv
<1>1. ASSUME NEW t \in Threads
      PROVE  Fits(t, th[t])
  BY MembersAssumption
     DEF Init, Fits, Tasks, Suits, Holds, OnMember, Steps
<1>2. ThreadsInv
  BY <1>1 DEF Init, ThreadsInv
<1>3. ops \in 0..MaxOps
  BY MembersAssumption DEF Init
<1>4. row \in [Users -> Row \cup {NoRow}] /\ cache \in [Users -> Row \cup {NoRow}]
  BY DEF Init
<1> QED
  BY <1>2, <1>3, <1>4 DEF Init, TypeInv, TypeOK, ThreadsInv, Fits, Tasks

LEMMA NextTypes ==
    ASSUME TypeInv, [Next]_vars
    PROVE  TypeInv'
<1>1. CASE UNCHANGED vars
  BY <1>1 DEF vars, TypeInv, TypeOK, ThreadsInv, Fits, Suits, Holds, OnMember
<1>2. CASE Finished
  BY <1>1, <1>2 DEF Finished
<1> QED
  BY <1>1, <1>2, LoadTypes, StoreTypes, ConnTypes, AdminTypes, StartTypes DEF Next

\* The members of a room, its settings and the threads that work on them keep their types,
\* and no step works on a member or settings it has not read, for any number of users,
\* connections and admins (room.go:221-316, 610-806).
THEOREM TypeCorrect == Spec => []TypeOK
<1>1. Init => TypeInv
  BY InitTypes
<1>2. TypeInv /\ [Next]_vars => TypeInv'
  BY NextTypes
<1>3. TypeInv => TypeOK
  BY DEF TypeInv
<1> QED
  BY <1>1, <1>2, <1>3, PTL DEF Spec

-----------------------------------------------------------------------------
(* The cache tells the truth, and who is kicked stays out. *)

\* New permissions of guests wait for the settings only with the guest evicted.
Settled == Settling => cache[Guest] = NoRow \/ Guest \in behind

\* The cached member is the row, unless a change of it is under way or the load was late.
Truth(u) ==
    cache[u] # NoRow =>
        \/ row[u] # NoRow /\ cache[u] = Stored(u, row[u])
        \/ Changing(u)
        \/ u \in behind

Banned(u) == u # Guest /\ row[u] # NoRow /\ row[u].status = "banned"

\* The ban, of all operations, is between its update and the end of its kick.
Banning(u) ==
    \E a \in Admins : th[a].pc \in {"evict", "kick"} /\ th[a].user = u /\ th[a].op = "ban"

\* The ban has updated the row and will evict the member.
BanEvicts(u) == \E a \in Admins : th[a].pc = "evict" /\ th[a].user = u /\ th[a].op = "ban"

\* The cache has an active member for a banned user only until that ban evicts it: another
\* operation on the user, that will evict it too, is no excuse.
KnowsBan(u) ==
    Banned(u) /\ cache[u] # NoRow /\ cache[u].status = "active" => BanEvicts(u) \/ u \in behind

\* The connection is registered, or past the checks that would refuse it.
Past(c) ==
    \/ th[c].pc \in {"join", "online"}
    \/ th[c].pc = "check" /\ th[c].seen.status = "active"
    \/ th[c].pc = "store" /\ (UserOf[c] = Guest \/ th[c].seen.status = "active")

GuestKick == \E a \in Admins : th[a].pc = "kick" /\ th[a].user = Guest

\* Whoever is past the checks and should be out is about to be kicked, or has slipped.
BannedOut(c) == Past(c) /\ Banned(UserOf[c]) => Banning(UserOf[c]) \/ c \in slipped
GuestOut(c) == Past(c) /\ UserOf[c] = Guest /\ ~settings.guest => GuestKick \/ c \in slipped

\* A connection is for its own user, an operation on the settings is for the guest.
OnWhom ==
    /\ \A c \in Conns : th[c].user = UserOf[c]
    /\ \A a \in Admins : th[a].pc \in {"save", "guests", "settle"} => th[a].user = Guest

KickInv ==
    /\ OnWhom
    /\ Settled
    /\ \A u \in Users : Truth(u) /\ KnowsBan(u)
    /\ \A c \in Conns : BannedOut(c) /\ GuestOut(c)

MembersInv == TypeInv /\ KickInv

\* Where only thread t moves, and every operation that is to evict or kick stays at it.
LEMMA OneMoves ==
    ASSUME ThreadsInv, NEW t \in Threads, NEW r, Set(t, r)
    PROVE  th'[t] = r /\ \A s \in Threads \ {t} : th'[s] = th[s]
BY DEF ThreadsInv, Set

LEMMA OverIs ==
    ASSUME ThreadsInv, NEW t \in Threads
    PROVE  Over(t).pc \in {"gone", "idle"} /\ Over(t).user = th[t].user
BY DEF ThreadsInv, Fits, Tasks, Over

LEMMA Witnesses ==
    ASSUME \A a \in Admins : th[a].pc \in {"evict", "kick"} => th'[a] = th[a]
    PROVE  /\ \A u : Changing(u) => Changing(u)'
           /\ \A u : Banning(u) => Banning(u)'
           /\ \A u : BanEvicts(u) => BanEvicts(u)'
           /\ GuestKick => GuestKick'
BY DEF Changing, Banning, BanEvicts, GuestKick

LEMMA NoneSettles ==
    ASSUME UNCHANGED settings, \A a \in Admins : th'[a].pc = "settle" => th'[a] = th[a]
    PROVE  Settling' => Settling
BY DEF Settling, At

\* A step that does not bring a connection past the checks, nor changes what they ask.
LEMMA StillOut ==
    ASSUME NEW c \in Conns, BannedOut(c), GuestOut(c),
           Past(c)' => Past(c), Banned(UserOf[c])' => Banned(UserOf[c]),
           UNCHANGED settings, slipped \subseteq slipped',
           Banning(UserOf[c]) => Banning(UserOf[c])', GuestKick => GuestKick'
    PROVE  BannedOut(c)' /\ GuestOut(c)'
BY DEF BannedOut, GuestOut

\* A step that leaves rows, cache and settings alone.
LEMMA StillTrue ==
    ASSUME NEW u \in Users, Truth(u), KnowsBan(u), UNCHANGED settings,
           row'[u] = row[u], cache'[u] = cache[u], u \in behind => u \in behind',
           Changing(u) => Changing(u)', BanEvicts(u) => BanEvicts(u)'
    PROVE  Truth(u)' /\ KnowsBan(u)'
<1>1. Stored(u, row[u])' = Stored(u, row[u])
  BY DEF Stored
<1>2. Banned(u)' <=> Banned(u)
  BY DEF Banned
<1> QED
  BY <1>1, <1>2 DEF Truth, KnowsBan

\* A thread moves on, and nothing else changes: not to where settings are put in place, not
\* away from an eviction or a kick, and not past the checks.
LEMMA MovesOn ==
    ASSUME MembersInv, NEW t \in Threads,
           UNCHANGED <<row, cache, settings, behind>>, slipped \subseteq slipped',
           \A s \in Threads \ {t} : th'[s] = th[s],
           t \in Admins => th[t].pc \notin {"evict", "kick"},
           th'[t].pc # "settle", th'[t].user = th[t].user \/ (t \in Admins /\ th'[t].pc # "guests"),
           t \in Admins /\ th'[t].pc \in {"save", "guests"} => th'[t].user = Guest,
           t \in Conns => (Past(t)' => Past(t))
    PROVE  KickInv'
<1>0. KickInv /\ Conns \subseteq Threads /\ Admins \subseteq Threads /\ Conns \cap Admins = {}
  BY MembersAssumption DEF MembersInv, Threads
<1>1. \A a \in Admins : th[a].pc \in {"evict", "kick"} => th'[a] = th[a]
  BY <1>0
<1>2. Settled'
  BY <1>0, NoneSettles DEF KickInv, Settled
<1>3. OnWhom'
  BY <1>0 DEF KickInv, OnWhom
<1>4. ASSUME NEW u \in Users PROVE Truth(u)' /\ KnowsBan(u)'
  BY <1>0, <1>1, Witnesses, StillTrue DEF KickInv
<1>5. ASSUME NEW c \in Conns PROVE BannedOut(c)' /\ GuestOut(c)'
  <2>1. Past(c)' => Past(c)
    BY <1>0 DEF Past
  <2>2. Banned(UserOf[c])' => Banned(UserOf[c])
    BY DEF Banned
  <2> QED
    BY <1>0, <1>1, <2>1, <2>2, Witnesses, StillOut DEF KickInv
<1> QED
  BY <1>2, <1>3, <1>4, <1>5 DEF KickInv

LEMMA ConnKicks ==
    ASSUME MembersInv, NEW c \in Conns, ConnStep(c)
    PROVE  KickInv'
<1>0. c \in Threads /\ c \notin Admins /\ ThreadsInv /\ th[c] \in Tasks
  BY MembersAssumption DEF MembersInv, TypeInv, Threads, ThreadsInv, Fits
<1>1. PICK r : Set(c, r) /\ r.user = th[c].user /\ r.pc \in {"join", "online", "gone", "idle"}
               /\ (r.pc \in {"join", "online"} => Past(c))
  <2>1. CASE Check(c)
    <3>1. CASE th[c].seen.status = "active"
      BY <1>0, <2>1, <3>1 DEF Check, At, Goto, Past, Tasks
    <3>2. CASE th[c].seen.status # "active"
      BY <1>0, <2>1, <3>2, OverIs DEF Check
    <3> QED
      BY <3>1, <3>2
  <2>2. CASE Join(c)
    BY <1>0, <2>2 DEF Join, At, Goto, Past, Tasks
  <2>3. CASE Leave(c)
    BY <1>0, <2>3, OverIs DEF Leave
  <2> QED
    BY <2>1, <2>2, <2>3 DEF ConnStep
<1>2. th'[c] = r /\ \A s \in Threads \ {c} : th'[s] = th[s]
  BY <1>0, <1>1, OneMoves
<1>3. Past(c)' => Past(c)
  BY <1>1, <1>2 DEF Past
<1> QED
  BY <1>0, <1>1, <1>2, <1>3, MovesOn DEF ConnStep, Check, Join, Leave

LEMMA StartKicks ==
    ASSUME MembersInv, NEW a \in Admins,
           \/ \E o \in Ops \cap MemberOps, u \in Users : \E p \in Args(o) :
                 StartMemberOp(a, o, u, p)
           \/ \E o \in Ops \cap SettingsOps : StartSettingsOp(a, o)
    PROVE  KickInv'
<1>0. a \in Threads /\ a \notin Conns /\ ThreadsInv /\ th[a] \in Tasks
  BY MembersAssumption DEF MembersInv, TypeInv, Threads, ThreadsInv, Fits
<1> DEFINE Started ==
        /\ UNCHANGED <<row, cache, settings, behind, slipped>> /\ th[a].pc = "idle"
        /\ \E r : Set(a, r) /\ (r.pc \in {"load", "update"} \/ (r.pc = "save" /\ r.user = Guest))
<1>1. Started
  <2>1. ASSUME NEW o, NEW u, NEW p, StartMemberOp(a, o, u, p) PROVE Started
    <3> DEFINE r == [th[a] EXCEPT !.pc = IF LooksUp(o) THEN "load" ELSE "update",
                                  !.user = u, !.op = o, !.arg = p]
    <3>1. r.pc \in {"load", "update"}
      BY <1>0 DEF Tasks
    <3>2. Set(a, r)
      BY <2>1 DEF StartMemberOp
    <3> HIDE DEF r
    <3> QED
      BY <2>1, <3>1, <3>2 DEF StartMemberOp, At
  <2>2. ASSUME NEW o, StartSettingsOp(a, o) PROVE Started
    <3> DEFINE r == [th[a] EXCEPT !.pc = "save", !.user = Guest, !.op = o]
    <3>1. r.pc = "save" /\ r.user = Guest
      BY <1>0 DEF Tasks
    <3>2. Set(a, r)
      BY <2>2 DEF StartSettingsOp
    <3> HIDE DEF r
    <3> QED
      BY <2>2, <3>1, <3>2 DEF StartSettingsOp, At
  <2> QED
    BY <2>1, <2>2
<1>2. PICK r : Set(a, r) /\ (r.pc \in {"load", "update"} \/ (r.pc = "save" /\ r.user = Guest))
  BY <1>1
<1>3. th'[a] = r /\ \A s \in Threads \ {a} : th'[s] = th[s]
  BY <1>0, <1>2, OneMoves
<1> QED
  BY <1>0, <1>1, <1>2, <1>3, MovesOn

LEMMA LoadKicks ==
    ASSUME MembersInv, NEW t \in Threads, Load(t)
    PROVE  KickInv'
<1>0. /\ KickInv /\ ThreadsInv /\ th[t] \in Tasks /\ th[t].pc = "load"
      /\ Conns \subseteq Threads /\ Admins \subseteq Threads /\ Conns \cap Admins = {}
      /\ UNCHANGED <<cache, settings, behind>> /\ slipped' = Doubted(t, behind)
  BY MembersAssumption DEF MembersInv, TypeInv, Threads, ThreadsInv, Fits, Load, At
<1>1. PICK u \in Users : th[t].user = u
  BY <1>0 DEF Tasks
<1>2. t \in Conns => UserOf[t] = u
  BY <1>0, <1>1 DEF KickInv, OnWhom
<1>3. slipped \subseteq slipped' /\ (t \in Conns /\ u \in behind => t \in slipped')
  BY <1>0, <1>1 DEF Doubted
<1> DEFINE Turned(r) == UNCHANGED row /\ r.pc \in {"gone", "idle", "update"} /\ r.user = u
           Cached(r) == UNCHANGED row /\ r.pc = "check" /\ r.user = u /\ cache[u] # NoRow
                        /\ r.seen = cache[u]
           Read(r) == row' = [row EXCEPT ![u] = IF @ = NoRow THEN Joined(u) ELSE @]
                      /\ cache[u] = NoRow /\ r.pc = "store" /\ r.user = u /\ r.seen = row'[u]
           Passed == u = Guest => settings.guest
<1>4. \E r : Set(t, r) /\ (Turned(r) \/ (Cached(r) /\ Passed) \/ (Read(r) /\ Passed))
  <2>1. CASE Set(t, Over(t)) /\ UNCHANGED row
    BY <1>0, <1>1, <2>1, OverIs
  <2>2. CASE Goto(t, "update") /\ UNCHANGED row
    <3>1. [th[t] EXCEPT !.pc = "update"].pc = "update" /\ [th[t] EXCEPT !.pc = "update"].user = u
      BY <1>0, <1>1 DEF Tasks
    <3> QED
      BY <2>2, <3>1 DEF Goto
  <2>3. CASE /\ ~(u = Guest /\ ~settings.guest) /\ cache[u] # NoRow
             /\ Set(t, [th[t] EXCEPT !.pc = "check", !.seen = cache[u]]) /\ UNCHANGED row
    <3> DEFINE r == [th[t] EXCEPT !.pc = "check", !.seen = cache[u]]
    <3>1. r.pc = "check" /\ r.user = u /\ r.seen = cache[u]
      BY <1>0, <1>1 DEF Tasks
    <3>2. Set(t, r)
      BY <2>3
    <3> HIDE DEF r
    <3> QED
      BY <2>3, <3>1, <3>2
  <2>4. CASE /\ ~(u = Guest /\ ~settings.guest) /\ cache[u] = NoRow
             /\ row' = [row EXCEPT ![u] = IF @ = NoRow THEN Joined(u) ELSE @]
             /\ Set(t, [th[t] EXCEPT !.pc = "store", !.seen = row'[u]])
    <3> DEFINE r == [th[t] EXCEPT !.pc = "store", !.seen = row'[u]]
    <3>1. r.pc = "store" /\ r.user = u /\ r.seen = row'[u]
      BY <1>0, <1>1 DEF Tasks
    <3>2. Set(t, r)
      BY <2>4
    <3> HIDE DEF r
    <3> QED
      BY <2>4, <3>1, <3>2
  <2> QED
    BY <1>1, <2>1, <2>2, <2>3, <2>4 DEF Load
<1>5. PICK r : Set(t, r) /\ (Turned(r) \/ (Cached(r) /\ Passed) \/ (Read(r) /\ Passed))
  BY <1>4
<1>6. th'[t] = r /\ \A s \in Threads \ {t} : th'[s] = th[s]
  BY <1>0, <1>5, OneMoves
<1>7. CASE Turned(r)
  <2>1. t \in Conns => ~Past(t)'
    BY <1>6, <1>7 DEF Past
  <2> QED
    BY <1>0, <1>1, <1>3, <1>6, <1>7, <2>1, MovesOn
<1>8. CASE (Cached(r) \/ Read(r)) /\ Passed
  <2>1. \A a \in Admins : th[a].pc \in {"evict", "kick"} => th'[a] = th[a]
    BY <1>0, <1>6
  <2>2. Settled'
    <3>1. \A a \in Admins : th'[a].pc = "settle" => th'[a] = th[a]
      BY <1>0, <1>6, <1>8
    <3> QED
      BY <1>0, <3>1, NoneSettles DEF KickInv, Settled
  <2>3. OnWhom'
    BY <1>0, <1>1, <1>6, <1>8 DEF KickInv, OnWhom
  <2>4. row \in [Users -> Row \cup {NoRow}] /\ Joined(u).status # "banned"
    BY DEF MembersInv, TypeInv, TypeOK, Joined
  <2>5. ASSUME NEW v \in Users
        PROVE  (cache[v] # NoRow => row'[v] = row[v]) /\ (Banned(v)' => Banned(v))
    <3>1. CASE UNCHANGED row
      BY <3>1 DEF Banned
    <3>2. CASE row' = [row EXCEPT ![u] = IF @ = NoRow THEN Joined(u) ELSE @] /\ cache[u] = NoRow
      BY <2>4, <3>2 DEF Banned
    <3> QED
      BY <1>8, <3>1, <3>2
  <2>6. ASSUME NEW v \in Users PROVE Truth(v)' /\ KnowsBan(v)'
    <3>1. CASE cache[v] = NoRow
      BY <1>0, <3>1 DEF Truth, KnowsBan
    <3>2. CASE cache[v] # NoRow
      BY <1>0, <2>1, <2>5, <3>2, Witnesses, StillTrue DEF KickInv
    <3> QED
      BY <3>1, <3>2
  <2>7. ASSUME NEW c \in Conns PROVE BannedOut(c)' /\ GuestOut(c)'
    <3>1. UserOf[c] \in Users
      BY MembersAssumption
    <3>2. CASE c # t
      <4>1. Past(c)' => Past(c)
        BY <1>0, <1>6, <3>2 DEF Past
      <4> QED
        BY <1>0, <1>3, <2>1, <2>5, <3>1, <4>1, Witnesses, StillOut DEF KickInv
    <3>3. CASE c = t
      <4>1. GuestOut(c)'
        BY <1>0, <1>2, <1>8, <3>3 DEF GuestOut
      <4>2. ASSUME Past(c)', Banned(u)'
            PROVE  Banning(u)' \/ c \in slipped'
        <5>1. CASE Cached(r)
          <6>1. cache[u] # NoRow /\ cache[u].status = "active" /\ Banned(u)
            BY <1>6, <2>5, <4>2, <3>3, <5>1 DEF Past
          <6>2. BanEvicts(u)' \/ u \in behind
            BY <1>0, <2>1, <6>1, Witnesses DEF KickInv, KnowsBan
          <6> QED
            BY <1>3, <3>3, <6>2 DEF BanEvicts, Banning
        <5>2. CASE Read(r)
          BY <1>2, <1>6, <3>3, <4>2, <5>2 DEF Past, Banned
        <5> QED
          BY <1>8, <5>1, <5>2
      <4> QED
        BY <1>2, <3>3, <4>1, <4>2 DEF BannedOut
    <3> QED
      BY <3>2, <3>3
  <2> QED
    BY <2>2, <2>3, <2>6, <2>7 DEF KickInv
<1> QED
  BY <1>5, <1>7, <1>8

\* storeMember keeps the status of a member who is no guest.
LEMMA StoredStatus ==
    ASSUME NEW u, NEW r \in Row, u # Guest
    PROVE  Stored(u, r).status = r.status
<1>1. CASE r.role = "admin"
  BY <1>1 DEF Stored, Row
<1>2. CASE r.role # "admin"
  BY <1>2 DEF Stored
<1> QED
  BY <1>1, <1>2

LEMMA StoreKicks ==
    ASSUME MembersInv, NEW t \in Threads, Store(t)
    PROVE  KickInv'
<1>0. /\ KickInv /\ ThreadsInv /\ th[t] \in Tasks /\ th[t].pc = "store" /\ th[t].seen \in Row
      /\ Conns \subseteq Threads /\ Admins \subseteq Threads /\ Conns \cap Admins = {}
      /\ UNCHANGED <<row, settings>>
  BY MembersAssumption DEF MembersInv, TypeInv, Threads, ThreadsInv, Fits, Holds, Store, At
<1>1. PICK u \in Users : th[t].user = u
  BY <1>0 DEF Tasks
<1>2. t \in Conns => UserOf[t] = u
  BY <1>0, <1>1 DEF KickInv, OnWhom
<1>3. PICK m : /\ m = IF cache[u] = NoRow THEN Stored(u, th[t].seen) ELSE cache[u]
               /\ cache' = [cache EXCEPT ![u] = m]
               /\ Set(t, [th[t] EXCEPT !.pc = "check", !.seen = m])
  BY <1>1 DEF Store
<1>4. /\ behind' = IF cache[u] = NoRow /\ (th[t].seen # row[u] \/ (u = Guest /\ Settling))
                   THEN behind \cup {u} ELSE behind
      /\ slipped' = Doubted(t, behind')
  BY <1>1 DEF Store
<1>5. behind \subseteq behind' /\ slipped \subseteq slipped'
      /\ (t \in Conns /\ u \in behind' => t \in slipped')
  BY <1>1, <1>4 DEF Doubted
<1>6. /\ th'[t].pc = "check" /\ th'[t].user = u /\ th'[t].seen = m
      /\ \A s \in Threads \ {t} : th'[s] = th[s]
  <2>1. th'[t] = [th[t] EXCEPT !.pc = "check", !.seen = m] /\ \A s \in Threads \ {t} : th'[s] = th[s]
    BY <1>0, <1>3, OneMoves
  <2> QED
    BY <1>0, <1>1, <2>1 DEF Tasks
<1>7. cache'[u] = m /\ \A v \in Users \ {u} : cache'[v] = cache[v]
  BY <1>3 DEF MembersInv, TypeInv, TypeOK
<1>8. \A a \in Admins : th[a].pc \in {"evict", "kick"} => th'[a] = th[a]
  BY <1>0, <1>6
<1>9. Settled'
  <2>1. \A a \in Admins : th'[a].pc = "settle" => th'[a] = th[a]
    BY <1>0, <1>6
  <2>2. SUFFICES ASSUME Settling
                 PROVE  cache'[Guest] = NoRow \/ Guest \in behind'
    BY <1>0, <2>1, NoneSettles DEF Settled
  <2>3. Guest \in Users
    BY MembersAssumption
  <2>4. CASE u = Guest
    BY <1>0, <1>3, <1>4, <1>5, <1>7, <2>2, <2>4 DEF KickInv, Settled
  <2>5. CASE u # Guest
    BY <1>0, <1>5, <1>7, <2>2, <2>3, <2>5 DEF KickInv, Settled
  <2> QED
    BY <2>4, <2>5
<1>10. OnWhom'
  BY <1>0, <1>1, <1>6 DEF KickInv, OnWhom
<1>11. ASSUME NEW v \in Users PROVE Truth(v)' /\ KnowsBan(v)'
  <2>1. CASE v # u \/ cache[u] # NoRow
    <3>1. cache'[v] = cache[v]
      BY <1>3, <1>7, <2>1
    <3> QED
      BY <1>0, <1>5, <1>8, <3>1, Witnesses, StillTrue DEF KickInv
  <2>2. CASE v = u /\ cache[u] = NoRow /\ u \in behind'
    BY <2>2 DEF Truth, KnowsBan
  <2>3. CASE v = u /\ cache[u] = NoRow /\ u \notin behind'
    <3>1. th[t].seen = row[u] /\ m = Stored(u, row[u]) /\ row[u] \in Row
      BY <1>0, <1>3, <1>4, <2>3
    <3>2. Stored(u, row[u])' = Stored(u, row[u])
      BY <1>0 DEF Stored
    <3>3. Truth(u)'
      BY <1>0, <1>7, <3>1, <3>2, NoRowAssumption DEF Truth
    <3>4. KnowsBan(u)'
      BY <1>0, <1>7, <3>1, StoredStatus DEF KnowsBan, Banned
    <3> QED
      BY <2>3, <3>3, <3>4
  <2> QED
    BY <2>1, <2>2, <2>3
<1>12. ASSUME NEW c \in Conns PROVE BannedOut(c)' /\ GuestOut(c)'
  <2>1. Banned(UserOf[c])' <=> Banned(UserOf[c])
    BY <1>0 DEF Banned
  <2>2. CASE c # t
    <3>1. Past(c)' => Past(c)
      BY <1>0, <1>6, <2>2 DEF Past
    <3> QED
      BY <1>0, <1>5, <1>8, <2>1, <3>1, Witnesses, StillOut DEF KickInv
  <2>3. CASE c = t
    <3>1. GuestOut(c)'
      <4>1. UserOf[c] = Guest => Past(c)
        BY <1>0, <2>3 DEF Past
      <4> QED
        BY <1>0, <1>5, <1>8, <4>1, Witnesses DEF KickInv, GuestOut
    <3>2. ASSUME Past(c)', Banned(u)
          PROVE  Banning(u)' \/ c \in slipped'
      <4>1. m.status = "active" /\ u # Guest
        BY <1>6, <2>3, <3>2 DEF Past, Banned
      <4>2. CASE cache[u] = NoRow
        <5>1. Past(c)
          BY <1>0, <1>3, <2>3, <4>1, <4>2, StoredStatus DEF Past
        <5> QED
          BY <1>0, <1>2, <1>5, <1>8, <2>3, <3>2, <5>1, Witnesses DEF KickInv, BannedOut
      <4>3. CASE cache[u] # NoRow
        <5>1. BanEvicts(u)' \/ u \in behind
          BY <1>0, <1>3, <1>8, <3>2, <4>1, <4>3, Witnesses DEF KickInv, KnowsBan
        <5> QED
          BY <1>5, <2>3, <5>1 DEF BanEvicts, Banning
      <4> QED
        BY <4>2, <4>3
    <3> QED
      BY <1>2, <2>1, <2>3, <3>1, <3>2 DEF BannedOut
  <2> QED
    BY <2>2, <2>3
<1> QED
  BY <1>9, <1>10, <1>11, <1>12 DEF KickInv

\* No other operation makes a row a banned one.
LEMMA AfterStatus ==
    ASSUME NEW o \in MemberOps \ {"ban"}, NEW p, NEW r \in Row, After(o, p, r) # NoRow,
           After(o, p, r).status = "banned"
    PROVE  r.status = "banned"
<1>1. CASE o \in {"approve", "unban"}
  BY <1>1 DEF After, Row
<1>2. CASE o = "delete"
  BY <1>2 DEF After
<1>3. CASE o \in {"set", "add", "remove"}
  BY <1>3 DEF After, Row
<1>4. CASE o \in {"setAdmin", "setMember"}
  BY <1>4 DEF After, Row
<1>5. CASE o \in {"setRights", "addRights", "removeRights"}
  BY <1>5 DEF After, Row
<1> QED
  BY <1>1, <1>2, <1>3, <1>4, <1>5 DEF MemberOps

LEMMA UpdateKicks ==
    ASSUME MembersInv, NEW a \in Admins, Update(a)
    PROVE  KickInv'
<1>0. /\ KickInv /\ ThreadsInv /\ th[a] \in Tasks /\ th[a].pc = "update" /\ th[a].op \in MemberOps
      /\ Conns \subseteq Threads /\ Admins \subseteq Threads /\ Conns \cap Admins = {}
      /\ UNCHANGED <<cache, settings, behind, slipped>>
      /\ row \in [Users -> Row \cup {NoRow}]
  BY MembersAssumption
     DEF MembersInv, TypeInv, TypeOK, Threads, ThreadsInv, Fits, OnMember, Update, At
<1>1. PICK u \in Users : th[a].user = u
  BY <1>0 DEF Tasks
<1>2. row' = row \/ (row[u] # NoRow /\ row' = [row EXCEPT ![u] = After(th[a].op, th[a].arg, row[u])])
  BY <1>1 DEF Update
<1>3. /\ th'[a].pc = "evict" /\ th'[a].user = u /\ th'[a].op = th[a].op
      /\ \A s \in Threads \ {a} : th'[s] = th[s]
  <2>1. th'[a] = [th[a] EXCEPT !.pc = "evict"] /\ \A s \in Threads \ {a} : th'[s] = th[s]
    BY <1>0, OneMoves DEF Update, Goto
  <2> QED
    BY <1>0, <1>1, <2>1 DEF Tasks
<1>4. \A b \in Admins : th[b].pc \in {"evict", "kick"} => th'[b] = th[b]
  BY <1>0, <1>3
<1>5. ASSUME NEW v \in Users \ {u} PROVE row'[v] = row[v]
  BY <1>0, <1>2
<1>6. Banned(u)' => Banned(u) \/ BanEvicts(u)'
  <2>1. CASE th[a].op = "ban"
    BY <1>3, <2>1 DEF BanEvicts
  <2>2. CASE th[a].op # "ban"
    BY <1>0, <1>2, <2>2, AfterStatus DEF Banned
  <2> QED
    BY <2>1, <2>2
<1>7. Settled'
  <2>1. \A b \in Admins : th'[b].pc = "settle" => th'[b] = th[b]
    BY <1>0, <1>3
  <2> QED
    BY <1>0, <2>1, NoneSettles DEF KickInv, Settled
<1>8. OnWhom'
  BY <1>0, <1>1, <1>3 DEF KickInv, OnWhom
<1>9. ASSUME NEW v \in Users PROVE Truth(v)' /\ KnowsBan(v)'
  <2>1. CASE v # u
    BY <1>0, <1>4, <1>5, <2>1, Witnesses, StillTrue DEF KickInv
  <2>2. CASE v = u
    <3>1. Truth(u)'
      BY <1>3 DEF Truth, Changing
    <3>2. KnowsBan(u)'
      BY <1>0, <1>4, <1>6, Witnesses DEF KickInv, KnowsBan
    <3> QED
      BY <2>2, <3>1, <3>2
  <2> QED
    BY <2>1, <2>2
<1>10. ASSUME NEW c \in Conns PROVE BannedOut(c)' /\ GuestOut(c)'
  <2>1. UserOf[c] \in Users
    BY MembersAssumption
  <2>2. Past(c)' => Past(c)
    BY <1>0, <1>3 DEF Past
  <2>3. Banned(UserOf[c])' => Banned(UserOf[c]) \/ Banning(UserOf[c])'
    BY <1>5, <1>6, <2>1 DEF Banned, BanEvicts, Banning
  <2> QED
    BY <1>0, <1>4, <2>2, <2>3, Witnesses DEF KickInv, BannedOut, GuestOut
<1> QED
  BY <1>7, <1>8, <1>9, <1>10 DEF KickInv

LEMMA EvictKicks ==
    ASSUME MembersInv, NEW a \in Admins, Evict(a)
    PROVE  KickInv'
<1>0. /\ KickInv /\ ThreadsInv /\ th[a] \in Tasks /\ th[a].pc = "evict"
      /\ Conns \subseteq Threads /\ Admins \subseteq Threads /\ Conns \cap Admins = {}
      /\ UNCHANGED <<row, settings, slipped>> /\ cache \in [Users -> Row \cup {NoRow}]
  BY MembersAssumption DEF MembersInv, TypeInv, TypeOK, Threads, ThreadsInv, Fits, Evict, At
<1>1. PICK u \in Users : th[a].user = u
  BY <1>0 DEF Tasks
<1>2. /\ cache'[u] = NoRow /\ \A v \in Users \ {u} : cache'[v] = cache[v]
      /\ behind' = behind \ {u}
  BY <1>0, <1>1 DEF Evict
<1>3. /\ th'[a].pc \in {"kick", "gone", "idle"} /\ th'[a].user = u
      /\ th[a].op = "ban" => th'[a].pc = "kick" /\ th'[a].op = "ban"
      /\ \A s \in Threads \ {a} : th'[s] = th[s]
  <2>1. CASE Kicks(th[a].op)
    <3>1. th'[a] = [th[a] EXCEPT !.pc = "kick"] /\ \A s \in Threads \ {a} : th'[s] = th[s]
      BY <1>0, <2>1, OneMoves DEF Evict, Goto
    <3> QED
      BY <1>0, <1>1, <3>1 DEF Tasks
  <2>2. CASE ~Kicks(th[a].op)
    <3>1. th'[a] = Over(a) /\ \A s \in Threads \ {a} : th'[s] = th[s]
      BY <1>0, <2>2, OneMoves DEF Evict
    <3> QED
      BY <1>0, <1>1, <2>2, <3>1, OverIs DEF Kicks
  <2> QED
    BY <2>1, <2>2
<1>4. \A x \in Users \ {u} : (Changing(x) => Changing(x)') /\ (BanEvicts(x) => BanEvicts(x)')
  BY <1>0, <1>1, <1>3 DEF Changing, BanEvicts
<1>5. (\A x : Banning(x) => Banning(x)') /\ (GuestKick => GuestKick')
  BY <1>0, <1>1, <1>3 DEF Banning, GuestKick
<1>6. Settled'
  <2>1. \A b \in Admins : th'[b].pc = "settle" => th'[b] = th[b]
    BY <1>0, <1>3
  <2>2. Guest \in Users
    BY MembersAssumption
  <2> QED
    BY <1>0, <1>2, <2>1, <2>2, NoneSettles DEF KickInv, Settled
<1>7. OnWhom'
  BY <1>0, <1>1, <1>3 DEF KickInv, OnWhom
<1>8. ASSUME NEW v \in Users PROVE Truth(v)' /\ KnowsBan(v)'
  <2>1. CASE v # u
    BY <1>0, <1>2, <1>4, <2>1, StillTrue DEF KickInv
  <2>2. CASE v = u
    BY <1>2, <2>2 DEF Truth, KnowsBan
  <2> QED
    BY <2>1, <2>2
<1>9. ASSUME NEW c \in Conns PROVE BannedOut(c)' /\ GuestOut(c)'
  <2>1. Past(c)' => Past(c)
    BY <1>0, <1>3 DEF Past
  <2>2. Banned(UserOf[c])' => Banned(UserOf[c])
    BY <1>0 DEF Banned
  <2> QED
    BY <1>0, <1>5, <2>1, <2>2, StillOut DEF KickInv
<1> QED
  BY <1>6, <1>7, <1>8, <1>9 DEF KickInv

LEMMA KickKicks ==
    ASSUME MembersInv, NEW a \in Admins, Kick(a)
    PROVE  KickInv'
<1>0. /\ KickInv /\ ThreadsInv /\ th[a] \in Tasks /\ th[a].pc = "kick"
      /\ Conns \subseteq Threads /\ Admins \subseteq Threads /\ Conns \cap Admins = {}
      /\ UNCHANGED <<row, cache, settings, behind>>
  BY MembersAssumption DEF MembersInv, TypeInv, TypeOK, Threads, ThreadsInv, Fits, Kick, At
<1>1. PICK u \in Users : th[a].user = u
  BY <1>0 DEF Tasks
<1>2. slipped' = slipped \cup Joining(u)
  BY <1>1 DEF Kick
<1>3. \A t \in Threads : th'[t] = IF t = a \/ (t \in Conns /\ UserOf[t] = u /\ Online(t))
                                  THEN Over(t) ELSE th[t]
  BY <1>1 DEF Kick
<1>4. /\ th'[a].pc \in {"gone", "idle"} /\ th'[a].user = u
      /\ \A b \in Admins \ {a} : th'[b] = th[b]
  BY <1>0, <1>1, <1>3, OverIs
<1>5. \A c \in Conns :
         /\ UserOf[c] # u \/ ~Online(c) => th'[c] = th[c]
         /\ UserOf[c] = u /\ Online(c) => th'[c].pc \in {"gone", "idle"} /\ th'[c].user = th[c].user
  BY <1>0, <1>3, OverIs
<1>6. /\ \A v : (Changing(v) => Changing(v)') /\ (BanEvicts(v) => BanEvicts(v)')
      /\ \A v : v # u /\ Banning(v) => Banning(v)'
      /\ u # Guest /\ GuestKick => GuestKick'
  BY <1>0, <1>1, <1>4 DEF Changing, BanEvicts, Banning, GuestKick
<1>7. Settled'
  <2>1. \A b \in Admins : th'[b].pc = "settle" => th'[b] = th[b]
    BY <1>0, <1>4
  <2> QED
    BY <1>0, <2>1, NoneSettles DEF KickInv, Settled
<1>8. OnWhom'
  <2>1. \A c \in Conns : th'[c].user = th[c].user
    BY <1>5
  <2> QED
    BY <1>0, <1>4, <2>1 DEF KickInv, OnWhom
<1>9. ASSUME NEW v \in Users PROVE Truth(v)' /\ KnowsBan(v)'
  BY <1>0, <1>6, StillTrue DEF KickInv
<1>10. ASSUME NEW c \in Conns PROVE BannedOut(c)' /\ GuestOut(c)'
  <2>1. Past(c)' => Past(c)
    BY <1>5 DEF Past
  <2>2. Banned(UserOf[c])' <=> Banned(UserOf[c])
    BY <1>0 DEF Banned
  <2>3. CASE UserOf[c] # u
    <3>1. UserOf[c] = Guest => u # Guest
      BY <2>3
    <3> QED
      BY <1>0, <1>2, <1>6, <2>1, <2>2, <2>3, <3>1 DEF KickInv, BannedOut, GuestOut
  <2>4. CASE UserOf[c] = u
    <3>1. Past(c)' => c \in slipped'
      <4>1. CASE Online(c)
        BY <1>5, <2>4, <4>1 DEF Past
      <4>2. CASE ~Online(c)
        BY <1>2, <1>5, <2>4, <4>2 DEF Past, Joining, Online, At
      <4> QED
        BY <4>1, <4>2
    <3> QED
      BY <3>1 DEF BannedOut, GuestOut
  <2> QED
    BY <2>3, <2>4
<1> QED
  BY <1>7, <1>8, <1>9, <1>10 DEF KickInv

LEMMA SettingsKicks ==
    ASSUME MembersInv, NEW a \in Admins, CheckRole(a) \/ SaveSettings(a)
    PROVE  KickInv'
<1>0. /\ a \in Threads /\ a \notin Conns /\ KickInv /\ ThreadsInv /\ th[a] \in Tasks
      /\ th[a].pc \in {"check", "save"} /\ UNCHANGED <<row, cache, settings, behind, slipped>>
  BY MembersAssumption
     DEF MembersInv, TypeInv, Threads, ThreadsInv, Fits, CheckRole, SaveSettings, At
<1> DEFINE Gone == \E r : /\ Set(a, r) /\ r.pc \in {"gone", "idle", "update", "guests"}
                          /\ r.user = th[a].user /\ (r.pc = "guests" => th[a].pc = "save")
<1>1. Gone
  <2>1. ASSUME Set(a, Over(a)) PROVE Gone
    BY <1>0, <2>1, OverIs
  <2>2. ASSUME CheckRole(a), Goto(a, "update") PROVE Gone
    <3> DEFINE r == [th[a] EXCEPT !.pc = "update"]
    <3>1. r.pc = "update" /\ r.user = th[a].user /\ Set(a, r)
      BY <1>0, <2>2 DEF Tasks, Goto
    <3> HIDE DEF r
    <3> QED
      BY <3>1
  <2>3. ASSUME SaveSettings(a), Set(a, [th[a] EXCEPT !.pc = "guests", !.rs = saved']) PROVE Gone
    <3> DEFINE r == [th[a] EXCEPT !.pc = "guests", !.rs = saved']
    <3>1. r.pc = "guests" /\ r.user = th[a].user /\ Set(a, r) /\ th[a].pc = "save"
      BY <1>0, <2>3 DEF Tasks, SaveSettings, At
    <3> HIDE DEF r
    <3> QED
      BY <3>1
  <2> QED
    BY <2>1, <2>2, <2>3 DEF CheckRole, SaveSettings
<1>2. PICK r : /\ Set(a, r) /\ r.pc \in {"gone", "idle", "update", "guests"}
               /\ r.user = th[a].user /\ (r.pc = "guests" => th[a].pc = "save")
  BY <1>1
<1>3. th'[a] = r /\ \A s \in Threads \ {a} : th'[s] = th[s]
  BY <1>0, <1>2, OneMoves
<1>4. r.pc = "guests" => r.user = Guest
  BY <1>0, <1>2 DEF KickInv, OnWhom
<1> QED
  BY <1>0, <1>2, <1>3, <1>4, MovesOn

LEMMA EvictGuestKicks ==
    ASSUME MembersInv, NEW a \in Admins, EvictGuest(a)
    PROVE  KickInv'
<1>0. /\ KickInv /\ ThreadsInv /\ th[a] \in Tasks /\ th[a].pc = "guests"
      /\ Conns \subseteq Threads /\ Admins \subseteq Threads /\ Conns \cap Admins = {}
      /\ UNCHANGED <<row, settings, slipped>> /\ cache \in [Users -> Row \cup {NoRow}]
      /\ Guest \in Users
  BY MembersAssumption DEF MembersInv, TypeInv, TypeOK, Threads, ThreadsInv, Fits, EvictGuest, At
<1>1. /\ th'[a].pc = "settle" /\ th'[a].user = th[a].user /\ th'[a].rs = th[a].rs
      /\ \A s \in Threads \ {a} : th'[s] = th[s]
  <2>1. th'[a] = [th[a] EXCEPT !.pc = "settle"] /\ \A s \in Threads \ {a} : th'[s] = th[s]
    BY <1>0, OneMoves DEF EvictGuest, Goto
  <2> QED
    BY <1>0, <2>1 DEF Tasks
<1>2. \/ cache'[Guest] = NoRow
      \/ cache' = cache /\ behind' = behind /\ th'[a].rs.guestPerms = settings'.guestPerms
  BY <1>0, <1>1 DEF EvictGuest
<1>3. /\ \A v \in Users \ {Guest} : cache'[v] = cache[v] /\ (v \in behind => v \in behind')
      /\ cache'[Guest] # NoRow => cache' = cache /\ behind' = behind
  BY <1>0 DEF EvictGuest
<1>4. \A b \in Admins : th[b].pc \in {"evict", "kick"} => th'[b] = th[b]
  BY <1>0, <1>1
<1>5. Settled'
  <2>1. CASE cache'[Guest] = NoRow
    BY <2>1 DEF Settled
  <2>2. CASE cache' = cache /\ behind' = behind /\ th'[a].rs.guestPerms = settings'.guestPerms
    <3>1. Settling' => Settling
      BY <1>0, <1>1, <2>2 DEF Settling, At
    <3> QED
      BY <1>0, <2>2, <3>1 DEF KickInv, Settled
  <2> QED
    BY <1>2, <2>1, <2>2
<1>6. OnWhom'
  BY <1>0, <1>1 DEF KickInv, OnWhom
<1>7. ASSUME NEW v \in Users PROVE Truth(v)' /\ KnowsBan(v)'
  <2>1. CASE cache'[v] = NoRow
    BY <2>1 DEF Truth, KnowsBan
  <2>2. CASE cache'[v] # NoRow
    <3>1. cache'[v] = cache[v] /\ (v \in behind => v \in behind')
      BY <1>3, <2>2
    <3> QED
      BY <1>0, <1>4, <3>1, Witnesses, StillTrue DEF KickInv
  <2> QED
    BY <2>1, <2>2
<1>8. ASSUME NEW c \in Conns PROVE BannedOut(c)' /\ GuestOut(c)'
  <2>1. Past(c)' => Past(c)
    BY <1>0, <1>1 DEF Past
  <2>2. Banned(UserOf[c])' => Banned(UserOf[c])
    BY <1>0 DEF Banned
  <2> QED
    BY <1>0, <1>4, <2>1, <2>2, Witnesses, StillOut DEF KickInv
<1> QED
  BY <1>5, <1>6, <1>7, <1>8 DEF KickInv

LEMMA SettleKicks ==
    ASSUME MembersInv, NEW a \in Admins, Settle(a)
    PROVE  KickInv'
<1>0. /\ KickInv /\ ThreadsInv /\ th[a] \in Tasks /\ th[a].pc = "settle" /\ th[a].user = Guest
      /\ Conns \subseteq Threads /\ Admins \subseteq Threads /\ Conns \cap Admins = {}
      /\ UNCHANGED <<row, cache, behind, slipped>> /\ settings' = th[a].rs
  BY MembersAssumption
     DEF MembersInv, TypeInv, Threads, ThreadsInv, Fits, Settle, At, KickInv, OnWhom
<1>1. /\ th'[a].pc \in {"kick", "gone", "idle"} /\ th'[a].user = Guest
      /\ ~settings'.guest => th'[a].pc = "kick"
      /\ \A s \in Threads \ {a} : th'[s] = th[s]
  <2>1. CASE th[a].rs.guest
    BY <1>0, <2>1, OneMoves, OverIs DEF Settle
  <2>2. CASE ~th[a].rs.guest
    <3>1. th'[a] = [th[a] EXCEPT !.pc = "kick"] /\ \A s \in Threads \ {a} : th'[s] = th[s]
      BY <1>0, <2>2, OneMoves DEF Settle, Goto
    <3> QED
      BY <1>0, <3>1 DEF Tasks
  <2> QED
    BY <2>1, <2>2
<1>2. \A b \in Admins : th[b].pc \in {"evict", "kick"} => th'[b] = th[b]
  BY <1>0, <1>1
<1>3. settings'.guestPerms # settings.guestPerms => cache[Guest] = NoRow \/ Guest \in behind
  BY <1>0 DEF KickInv, Settled, Settling, At
<1>4. Settled'
  <2>1. CASE settings'.guestPerms # settings.guestPerms
    BY <1>0, <1>3, <2>1 DEF Settled
  <2>2. CASE settings'.guestPerms = settings.guestPerms
    <3>1. Settling' => Settling
      BY <1>0, <1>1, <2>2 DEF Settling, At
    <3> QED
      BY <1>0, <3>1 DEF KickInv, Settled
  <2> QED
    BY <2>1, <2>2
<1>5. OnWhom'
  BY <1>0, <1>1 DEF KickInv, OnWhom
<1>6. ASSUME NEW v \in Users PROVE Truth(v)' /\ KnowsBan(v)'
  <2>1. KnowsBan(v)'
    <3>1. Banned(v)' <=> Banned(v)
      BY <1>0 DEF Banned
    <3> QED
      BY <1>0, <1>2, <3>1, Witnesses DEF KickInv, KnowsBan
  <2>2. CASE v = Guest /\ settings'.guestPerms # settings.guestPerms
    BY <1>0, <1>3, <2>1, <2>2 DEF Truth
  <2>3. CASE v # Guest \/ settings'.guestPerms = settings.guestPerms
    <3>1. Stored(v, row[v])' = Stored(v, row[v])
      BY <1>0, <2>3 DEF Stored
    <3> QED
      BY <1>0, <1>2, <2>1, <3>1, Witnesses DEF KickInv, Truth
  <2> QED
    BY <2>2, <2>3
<1>7. ASSUME NEW c \in Conns PROVE BannedOut(c)' /\ GuestOut(c)'
  <2>1. Past(c)' => Past(c)
    BY <1>0, <1>1 DEF Past
  <2>2. Banned(UserOf[c])' => Banned(UserOf[c])
    BY <1>0 DEF Banned
  <2>3. GuestOut(c)'
    BY <1>1 DEF GuestOut, GuestKick
  <2> QED
    BY <1>0, <1>2, <2>1, <2>2, <2>3, Witnesses DEF KickInv, BannedOut
<1> QED
  BY <1>4, <1>5, <1>6, <1>7 DEF KickInv

\* The cache of a room's members follows the database, and whoever is put out is out, whatever
\* happens in between: this is what the truth of the cache and the absence of kicked users
\* rest on, in every reachable state (room.go:221-316, 610-806).
THEOREM KicksKept == Spec => []MembersInv
<1>1. Init => MembersInv
  <2> SUFFICES ASSUME Init PROVE MembersInv
    OBVIOUS
  <2>1. TypeInv
    BY InitTypes
  <2>2. Conns \subseteq Threads /\ Admins \subseteq Threads /\ Conns \cap Admins = {}
    BY MembersAssumption DEF Threads
  <2>3. /\ \A c \in Conns : th[c].pc = "load" /\ th[c].user = UserOf[c]
        /\ \A a \in Admins : th[a].pc = "idle"
    BY <2>2 DEF Init
  <2>4. OnWhom /\ Settled
    BY <2>3 DEF Init, OnWhom, Settled, Settling, At
  <2>5. \A u \in Users : Truth(u) /\ KnowsBan(u)
    BY DEF Init, Truth, KnowsBan
  <2>6. \A c \in Conns : BannedOut(c) /\ GuestOut(c)
    BY <2>3 DEF BannedOut, GuestOut, Past
  <2> QED
    BY <2>1, <2>4, <2>5, <2>6 DEF MembersInv, KickInv
<1>2. MembersInv /\ [Next]_vars => MembersInv'
  <2> SUFFICES ASSUME MembersInv, [Next]_vars PROVE MembersInv'
    OBVIOUS
  <2>1. TypeInv'
    BY NextTypes DEF MembersInv
  <2>2. CASE UNCHANGED vars
    <3>1. KickInv'
      BY <2>2 DEF vars, MembersInv, KickInv, OnWhom, Settled, Settling, Truth, KnowsBan, Banned,
                  BanEvicts, BannedOut, GuestOut, Past, Banning, GuestKick, Changing, Stored, At
    <3> QED
      BY <2>1, <3>1 DEF MembersInv
  <2>3. CASE Finished
    BY <2>2, <2>3 DEF Finished
  <2>4. CASE Next /\ ~Finished
    <3>1. KickInv'
      BY <2>4, LoadKicks, StoreKicks, ConnKicks, StartKicks, UpdateKicks, EvictKicks, KickKicks,
         SettingsKicks, EvictGuestKicks, SettleKicks DEF Next, AdminStep
    <3> QED
      BY <2>1, <3>1 DEF MembersInv
  <2> QED
    BY <2>2, <2>3, <2>4
<1> QED
  BY <1>1, <1>2, PTL DEF Spec

\* For any number of users, connections and admins, a cached member is the database's row as
\* storeMember presents it, unless an operation is about to evict it, or the load that cached
\* it was overtaken by a change (room.go:221-316, 610-711, 725-806).
THEOREM TellTruth == Spec => []MembersTellTruth
<1>1. MembersInv => MembersTellTruth
  BY DEF MembersInv, KickInv, Truth, MembersTellTruth
<1> QED
  BY <1>1, KicksKept, PTL

\* For any number of users, connections and admins, a banned member, or a guest where guests
\* are disabled, is not connected, unless its kick is still to come, or the connection was
\* between the checks and its registration when the kick came (room.go:610-621, 684-698).
THEOREM StayOut == Spec => []KickedStayOut
<1>1. MembersInv => KickedStayOut
  <2> SUFFICES ASSUME MembersInv PROVE BannedStayOut /\ GuestsStayOut
    BY DEF KickedStayOut
  <2>1. BannedStayOut
    BY DEF MembersInv, KickInv, BannedOut, Past, Banned, Banning, Online, BannedStayOut
  <2>2. GuestsStayOut
    BY DEF MembersInv, KickInv, GuestOut, Past, GuestKick, Online, GuestsStayOut
  <2> QED
    BY <2>1, <2>2
<1> QED
  BY <1>1, KicksKept, PTL
==============================================================================
