---------------------------- MODULE RoomLifeProofs ----------------------------
(* Theorems about RoomLife, for any number of connections, admins, room objects and hubs. *)
EXTENDS RoomLife, TLAPS

\* What a thread may be.
Tasks == [pc : Steps, at : Rooms \cup {None}, hub : Hubs \cup {None},
          seen : Statuses \cup {"gone"}, op : Ops \cup {"none", "giveup"}]

\* The room object and the hub a step works on are there.
Holds(r) ==
    /\ r.pc \in {"compare", "detach", "set", "join", "create"} => r.at \in Rooms
    /\ r.pc = "loaded" /\ r.op # "deleteCreator" => r.at \in Rooms
    /\ r.pc = "shut" => r.hub \in Hubs
    /\ r.pc \in {"vet", "store"} => r.seen # "gone"

Fits(t, r) == r \in Tasks /\ Holds(r) /\ (t \in Conns => r.op # "deleteCreator")

ThreadsInv == th = [t \in Threads |-> th[t]] /\ \A t \in Threads : Fits(t, th[t])

TypeInv == TypeOK /\ ThreadsInv

-----------------------------------------------------------------------------
LEMMA OverFits ==
    ASSUME NEW t \in Threads
    PROVE  Fits(t, Over(t))
BY DEF Over, Fits, Tasks, Holds, Steps, Statuses

\* One thread goes on.
LEMMA SetThreads ==
    ASSUME ThreadsInv, NEW t \in Threads, NEW r, Fits(t, r), Set(t, r)
    PROVE  ThreadsInv'
BY DEF ThreadsInv, Set, Fits, Holds

LEMMA SetOver ==
    ASSUME ThreadsInv, NEW t \in Threads, Set(t, Over(t))
    PROVE  ThreadsInv'
BY SetThreads, OverFits

\* A step that keeps the object and the hub.
LEMMA GotoThreads ==
    ASSUME ThreadsInv, NEW t \in Threads, NEW l \in Steps, Goto(t, l),
           Holds([th[t] EXCEPT !.pc = l])
    PROVE  ThreadsInv'
<1>1. Fits(t, th[t])
  BY DEF ThreadsInv
<1>2. Fits(t, [th[t] EXCEPT !.pc = l])
  BY <1>1 DEF Fits, Tasks
<1> QED
  BY <1>2, SetThreads DEF Goto

LEMMA ThreadsTypes ==
    ASSUME ThreadsInv
    PROVE  th \in [Threads -> [pc : Steps, at : Rooms \cup {None}, hub : Hubs \cup {None},
                               seen : Statuses \cup {"gone"},
                               op : Ops \cup {"none", "giveup"}]]
BY DEF ThreadsInv, Fits, Tasks

LEMMA NewTypes ==
    /\ FreeRooms # {} => NewRoom \in Rooms
    /\ FreeHubs # {} => NewHub \in Hubs
BY DEF NewRoom, NewHub, FreeRooms, FreeHubs

LEMMA CreateTypes ==
    ASSUME TypeOK, NEW o, CreateHub(o)
    PROVE  hubOf' \in [Rooms -> Hubs \cup {None}] /\ shut' \subseteq Hubs /\ NewHub \in Hubs
BY NewTypes DEF CreateHub, TypeOK

-----------------------------------------------------------------------------
LEMMA LoadTypes ==
    ASSUME TypeInv, NEW t \in Threads, LoadStep(t)
    PROVE  TypeInv'
<1>0. Fits(t, th[t])
  BY DEF TypeInv, ThreadsInv
<1>1. CASE LoadHit(t)
  <2>1. cached \in Rooms
    BY <1>1 DEF LoadHit, TypeInv, TypeOK
  <2>2. Fits(t, [th[t] EXCEPT !.pc = "loaded", !.at = cached])
    BY <1>0, <2>1 DEF Fits, Tasks, Holds, Steps
  <2>3. Fits(t, [th[t] EXCEPT !.pc = "compare", !.at = cached, !.op = "giveup"])
    BY <1>0, <2>1 DEF Fits, Tasks, Holds, Steps
  <2>4. creator \in {"ok", "banned", "gone"}
    BY DEF TypeInv, TypeOK
  <2>5. ThreadsInv'
    <3>1. CASE creator = "ok"
      BY <1>1, <2>2, <3>1, SetThreads DEF LoadHit, TypeInv
    <3>2. CASE creator = "banned"
      BY <1>1, <2>3, <3>2, SetThreads DEF LoadHit, TypeInv
    <3>3. CASE creator = "gone"
      BY <1>1, <3>3, SetOver DEF LoadHit, TypeInv
    <3> QED
      BY <2>4, <3>1, <3>2, <3>3
  <2> QED
    BY <1>1, <2>5, ThreadsTypes DEF LoadHit, TypeInv, TypeOK, roomVars, ThreadsInv, Fits, Tasks
<1>2. CASE Query(t)
  <2>1. ASSUME row = "gone" PROVE ThreadsInv'
    BY <1>2, <2>1, SetOver DEF Query, TypeInv
  <2>2. ASSUME row # "gone" PROVE ThreadsInv'
    <3>1. Fits(t, [th[t] EXCEPT !.pc = "vet", !.seen = row])
      BY <1>0, <2>2 DEF Fits, Tasks, Holds, Steps, TypeInv, TypeOK
    <3> QED
      BY <1>2, <2>2, <3>1, SetThreads DEF Query, TypeInv
  <2>3. ThreadsInv'
    BY <1>2, <2>1, <2>2 DEF TypeInv
  <2> QED
    BY <1>2, <2>3 DEF Query, TypeInv, TypeOK, roomVars, ThreadsInv, Fits, Tasks
<1>3. CASE Vet(t)
  <2>1. Holds([th[t] EXCEPT !.pc = "store"])
    BY <1>0, <1>3 DEF Vet, At, Fits, Tasks, Holds
  <2>2. ThreadsInv'
    BY <1>3, <2>1, GotoThreads, SetOver DEF Vet, TypeInv, Steps
  <2> QED
    BY <1>3, <2>2 DEF Vet, TypeInv, TypeOK, roomVars, ThreadsInv, Fits, Tasks
<1>4. CASE Store(t)
  <2>1. CASE /\ cached # None /\ UNCHANGED <<roomVars, outdated>>
             /\ Set(t, [th[t] EXCEPT !.pc = "loaded", !.at = cached])
    <3>1. Fits(t, [th[t] EXCEPT !.pc = "loaded", !.at = cached])
      BY <1>0, <2>1 DEF Fits, Tasks, Holds, Steps, TypeInv, TypeOK
    <3> QED
      BY <1>4, <2>1, <3>1, SetThreads DEF Store, TypeInv, TypeOK, roomVars, ThreadsInv, Fits, Tasks
  <2>2. CASE /\ FreeRooms # {}
             /\ Set(t, [th[t] EXCEPT !.pc = "loaded", !.at = NewRoom])
             /\ cached' = NewRoom
             /\ status' = [status EXCEPT ![NewRoom] = th[t].seen]
             /\ hubOf' = [hubOf EXCEPT ![NewRoom] = None]
             /\ outdated' = IF th[t].seen = row THEN outdated \ {NewRoom}
                                                ELSE outdated \cup {NewRoom}
             /\ UNCHANGED shut
    <3>1. NewRoom \in Rooms /\ th[t].seen \in Statuses
      BY <1>0, <1>4, <2>2, NewTypes DEF Store, At, Fits, Tasks, Holds
    <3>2. Fits(t, [th[t] EXCEPT !.pc = "loaded", !.at = NewRoom])
      BY <1>0, <3>1 DEF Fits, Tasks, Holds, Steps
    <3>3. ThreadsInv'
      BY <2>2, <3>2, SetThreads DEF TypeInv
    <3>4. /\ cached' \in Rooms \cup {None} /\ status' \in [Rooms -> Statuses]
          /\ hubOf' \in [Rooms -> Hubs \cup {None}] /\ outdated' \subseteq Rooms
      BY <2>2, <3>1 DEF TypeInv, TypeOK
    <3> QED
      BY <1>4, <2>2, <3>3, <3>4 DEF Store, TypeInv, TypeOK, ThreadsInv, Fits, Tasks
  <2> QED
    BY <1>4, <2>1, <2>2 DEF Store
<1> QED
  BY <1>1, <1>2, <1>3, <1>4 DEF LoadStep

LEMMA CloseTypes ==
    ASSUME TypeInv, NEW t \in Threads, CloseStep(t)
    PROVE  TypeInv'
<1>0. Fits(t, th[t])
  BY DEF TypeInv, ThreadsInv
<1>1. CASE Compare(t)
  <2>1. Holds([th[t] EXCEPT !.pc = "detach"])
    BY <1>0, <1>1 DEF Compare, At, Fits, Tasks, Holds
  <2>2. ThreadsInv'
    BY <1>1, <2>1, GotoThreads, SetOver DEF Compare, TypeInv, Steps
  <2>3. cached' \in Rooms \cup {None} /\ outdated' \subseteq Rooms
    BY <1>1 DEF Compare, TypeInv, TypeOK
  <2> QED
    BY <1>1, <2>2, <2>3 DEF Compare, TypeInv, TypeOK, ThreadsInv, Fits, Tasks
<1>2. CASE EvictAny(t)
  <2>1. ASSUME cached = None PROVE ThreadsInv'
    BY <1>2, <2>1, SetOver DEF EvictAny, TypeInv
  <2>2. ASSUME cached # None PROVE ThreadsInv'
    <3>1. Fits(t, [th[t] EXCEPT !.pc = "detach", !.at = cached])
      BY <1>0, <2>2 DEF Fits, Tasks, Holds, Steps, TypeInv, TypeOK
    <3> QED
      BY <1>2, <2>2, <3>1, SetThreads DEF EvictAny, TypeInv
  <2>3. ThreadsInv'
    BY <1>2, <2>1, <2>2 DEF TypeInv
  <2> QED
    BY <1>2, <2>3 DEF EvictAny, TypeInv, TypeOK, ThreadsInv, Fits, Tasks
<1>3. CASE Detach(t)
  <2>1. th[t].at \in Rooms
    BY <1>0, <1>3 DEF Detach, At, Fits, Holds
  <2>2. ASSUME hubOf[th[t].at] = None PROVE ThreadsInv'
    BY <1>3, <2>2, SetOver DEF Detach, TypeInv
  <2>3. ASSUME hubOf[th[t].at] # None PROVE ThreadsInv'
    <3>1. Fits(t, [th[t] EXCEPT !.pc = "shut", !.hub = hubOf[th[t].at]])
      BY <1>0, <2>1, <2>3 DEF Fits, Tasks, Holds, Steps, TypeInv, TypeOK
    <3> QED
      BY <1>3, <2>3, <3>1, SetThreads DEF Detach, TypeInv
  <2>4. ThreadsInv'
    BY <1>3, <2>2, <2>3 DEF TypeInv
  <2>5. hubOf' \in [Rooms -> Hubs \cup {None}] /\ late' \subseteq Conns
    BY <1>3, <2>1 DEF Detach, Entering, TypeInv, TypeOK
  <2> QED
    BY <1>3, <2>4, <2>5 DEF Detach, TypeInv, TypeOK, ThreadsInv, Fits, Tasks
<1>4. CASE Shut(t)
  <2>1. th[t].hub \in Hubs
    BY <1>0, <1>4 DEF Shut, At, Fits, Holds
  <2>2. ThreadsInv'
    <3> DEFINE next(s) ==
               IF s = t THEN Over(t)
               ELSE IF s \in {c \in Conns : th[c].hub = th[t].hub} /\ th[s].pc = "online"
                    THEN [th[s] EXCEPT !.pc = "leaving"] ELSE th[s]
    <3>1. th' = [s \in Threads |-> next(s)]
      BY <1>4 DEF Shut
    <3>2. ASSUME NEW s \in Threads
          PROVE  Fits(s, next(s))
      <4>1. Fits(s, th[s])
        BY DEF TypeInv, ThreadsInv
      <4>2. Fits(s, [th[s] EXCEPT !.pc = "leaving"])
        BY <4>1 DEF Fits, Tasks, Holds, Steps
      <4> QED
        BY <4>1, <4>2, OverFits
    <3>3. \A s \in Threads : th'[s] = next(s)
      BY <3>1
    <3> HIDE DEF next
    <3> QED
      BY <3>1, <3>2, <3>3 DEF ThreadsInv, Fits, Holds
  <2>3. shut' \subseteq Hubs /\ late' \subseteq Conns
    BY <1>4, <2>1 DEF Shut, TypeInv, TypeOK
  <2> QED
    BY <1>4, <2>2, <2>3 DEF Shut, TypeInv, TypeOK, ThreadsInv, Fits, Tasks
<1> QED
  BY <1>1, <1>2, <1>3, <1>4 DEF CloseStep

LEMMA ConnTypes ==
    ASSUME TypeInv, NEW c \in Conns, ConnStep(c) \/ Leave(c)
    PROVE  TypeInv'
<1>0. c \in Threads /\ Fits(c, th[c])
  BY DEF TypeInv, ThreadsInv, Threads
<1>1. CASE Check(c)
  <2>1. Holds([th[c] EXCEPT !.pc = "join"])
    BY <1>0, <1>1 DEF Check, At, Fits, Tasks, Holds
  <2>2. ThreadsInv'
    BY <1>0, <1>1, <2>1, GotoThreads, SetOver DEF Check, TypeInv, Steps
  <2> QED
    BY <1>1, <2>2 DEF Check, TypeInv, TypeOK, roomVars, ThreadsInv, Fits, Tasks
<1>2. CASE JoinLoad(c)
  <2> DEFINE h == hubOf[th[c].at]
  <2>1. th[c].at \in Rooms
    BY <1>0, <1>2 DEF JoinLoad, At, Fits, Holds
  <2>2. Fits(c, [th[c] EXCEPT !.pc = IF h = None THEN "create" ELSE "reg", !.hub = h])
    BY <1>0, <2>1 DEF Fits, Tasks, Holds, Steps, TypeInv, TypeOK
  <2>3. ThreadsInv'
    BY <1>0, <1>2, <2>2, SetThreads DEF JoinLoad, TypeInv
  <2> QED
    BY <1>2, <2>3 DEF JoinLoad, TypeInv, TypeOK, roomVars, ThreadsInv, Fits, Tasks
<1>3. CASE JoinCreate(c)
  <2>1. CASE hubOf[th[c].at] = None
    <3>1. /\ hubOf' \in [Rooms -> Hubs \cup {None}] /\ shut' \subseteq Hubs /\ NewHub \in Hubs
      BY <1>3, <2>1, CreateTypes DEF JoinCreate, TypeInv
    <3>2. Fits(c, [th[c] EXCEPT !.pc = "reg", !.hub = NewHub])
      BY <1>0, <3>1 DEF Fits, Tasks, Holds, Steps
    <3>3. ThreadsInv'
      BY <1>0, <1>3, <2>1, <3>2, SetThreads DEF JoinCreate, TypeInv
    <3> QED
      BY <1>3, <3>1, <3>3 DEF JoinCreate, TypeInv, TypeOK, ThreadsInv, Fits, Tasks
  <2>2. CASE hubOf[th[c].at] # None
    <3>1. Holds([th[c] EXCEPT !.pc = "join"])
      BY <1>0, <1>3 DEF JoinCreate, At, Fits, Tasks, Holds
    <3>2. ThreadsInv'
      BY <1>0, <1>3, <2>2, <3>1, GotoThreads DEF JoinCreate, TypeInv, Steps
    <3> QED
      BY <1>3, <2>2, <3>2 DEF JoinCreate, TypeInv, TypeOK, ThreadsInv, Fits, Tasks
  <2> QED
    BY <2>1, <2>2
<1>4. CASE RegCheck(c)
  <2>1. Holds([th[c] EXCEPT !.pc = "insert"])
    BY <1>0 DEF Fits, Tasks, Holds
  <2>2. ThreadsInv'
    BY <1>0, <1>4, <2>1, GotoThreads, SetOver DEF RegCheck, TypeInv, Steps
  <2> QED
    BY <1>4, <2>2 DEF RegCheck, TypeInv, TypeOK, roomVars, ThreadsInv, Fits, Tasks
<1>5. CASE RegInsert(c)
  <2>1. Holds([th[c] EXCEPT !.pc = "online"])
    BY <1>0 DEF Fits, Tasks, Holds
  <2>2. ThreadsInv'
    BY <1>0, <1>5, <2>1, GotoThreads DEF RegInsert, TypeInv, Steps
  <2> QED
    BY <1>5, <2>2 DEF RegInsert, TypeInv, TypeOK, roomVars, ThreadsInv, Fits, Tasks
<1>6. CASE Unregister(c)
  <2>1. ThreadsInv'
    BY <1>0, <1>6, SetOver DEF Unregister, TypeInv
  <2>2. hubOf' \in [Rooms -> Hubs \cup {None}] /\ shut' \subseteq Hubs
    BY <1>6, CreateTypes DEF Unregister, TypeInv, TypeOK
  <2> QED
    BY <1>6, <2>1, <2>2 DEF Unregister, TypeInv, TypeOK, ThreadsInv, Fits, Tasks
<1>7. CASE Leave(c)
  <2>1. Holds([th[c] EXCEPT !.pc = "leaving"])
    BY <1>0 DEF Fits, Tasks, Holds
  <2>2. ThreadsInv'
    BY <1>0, <1>7, <2>1, GotoThreads DEF Leave, TypeInv, Steps
  <2> QED
    BY <1>7, <2>2 DEF Leave, TypeInv, TypeOK, roomVars, ThreadsInv, Fits, Tasks
<1> QED
  BY <1>1, <1>2, <1>3, <1>4, <1>5, <1>6, <1>7 DEF ConnStep

LEMMA AdminTypes ==
    ASSUME TypeInv, NEW a \in Admins, AdminStep(a) \/ \E o \in Ops : StartOp(a, o)
    PROVE  TypeInv'
<1>0. a \in Threads /\ a \notin Conns /\ Fits(a, th[a])
  BY RoomLifeAssumption DEF TypeInv, ThreadsInv, Threads
<1>1. ASSUME NEW o \in Ops, StartOp(a, o)
      PROVE  TypeInv'
  <2>1. Fits(a, [th[a] EXCEPT !.op = o,
                              !.pc = IF o = "deleteCreator" THEN "loaded" ELSE "load"])
    BY <1>0 DEF Fits, Tasks, Holds, Steps
  <2>2. ThreadsInv'
    BY <1>0, <1>1, <2>1, SetThreads DEF StartOp, TypeInv
  <2>3. ops' \in 0..MaxOps
    <3>1. ops \in 0..MaxOps /\ ops < MaxOps /\ ops' = ops + 1 /\ MaxOps \in Nat
      BY <1>1, RoomLifeAssumption DEF StartOp, TypeInv, TypeOK
    <3> QED
      BY ONLY <3>1
  <2> QED
    BY <1>1, <2>2, <2>3 DEF StartOp, TypeInv, TypeOK, roomVars, ThreadsInv, Fits, Tasks
<1>2. CASE WriteStatus(a)
  <2>1. Holds([th[a] EXCEPT !.pc = "set"])
    BY <1>0, <1>2 DEF WriteStatus, Applies, At, Fits, Tasks, Holds
  <2>2. ThreadsInv'
    BY <1>0, <1>2, <2>1, GotoThreads, SetOver DEF WriteStatus, TypeInv, Steps
  <2>3. row' \in Statuses \cup {"gone"}
    BY <1>2 DEF WriteStatus, Target, Statuses, TypeInv, TypeOK
  <2> QED
    BY <1>2, <2>2, <2>3 DEF WriteStatus, TypeInv, TypeOK, roomVars, ThreadsInv, Fits, Tasks
<1>3. CASE Refuse(a)
  <2>1. ThreadsInv'
    BY <1>0, <1>3, SetOver DEF Refuse, TypeInv
  <2> QED
    BY <1>3, <2>1 DEF Refuse, TypeInv, TypeOK, roomVars, ThreadsInv, Fits, Tasks
<1>4. CASE SetStatus(a)
  <2>1. Holds([th[a] EXCEPT !.pc = "detach"])
    BY <1>0, <1>4 DEF SetStatus, At, Fits, Tasks, Holds
  <2>2. ThreadsInv'
    BY <1>0, <1>4, <2>1, GotoThreads, SetOver DEF SetStatus, TypeInv, Steps
  <2>3. status' \in [Rooms -> Statuses]
    BY <1>4 DEF SetStatus, Target, Statuses, TypeInv, TypeOK
  <2>4. outdated' \subseteq Rooms
    BY <1>4 DEF SetStatus, TypeInv, TypeOK
  <2> QED
    BY <1>4, <2>2, <2>3, <2>4 DEF SetStatus, TypeInv, TypeOK, ThreadsInv, Fits, Tasks
<1>5. CASE DeleteRow(a)
  <2>1. Holds([th[a] EXCEPT !.pc = "evict"])
    BY <1>0 DEF Fits, Tasks, Holds
  <2>2. ASSUME th[a].op = "deleteCreator" PROVE ThreadsInv'
    BY <1>0, <1>5, <2>1, <2>2, GotoThreads, SetOver DEF DeleteRow, TypeInv, Steps
  <2>3. ASSUME th[a].op # "deleteCreator" PROVE ThreadsInv'
    <3>1. Holds([th[a] EXCEPT !.pc = "compare"])
      BY <1>0, <1>5, <2>3 DEF DeleteRow, At, Fits, Tasks, Holds
    <3>2. Set(a, Over(a)) \/ Goto(a, "evict") \/ Goto(a, "compare")
      BY <1>5, <2>3 DEF DeleteRow
    <3> QED
      BY <1>0, <2>1, <3>1, <3>2, GotoThreads, SetOver DEF TypeInv, Steps
  <2>4. ThreadsInv'
    BY <1>5, <2>2, <2>3 DEF TypeInv
  <2> QED
    BY <1>5, <2>4 DEF DeleteRow, TypeInv, TypeOK, roomVars, ThreadsInv, Fits, Tasks
<1> QED
  BY <1>1, <1>2, <1>3, <1>4, <1>5 DEF AdminStep

LEMMA InitTypes == Init => TypeInv
<1> SUFFICES ASSUME Init
             PROVE  TypeInv
  OBVIOUS
<1>1. ASSUME NEW t \in Threads
      PROVE  Fits(t, th[t])
  <2>1. Fits(t, Over(t)) /\ (t \in Conns => Fits(t, [Over(t) EXCEPT !.pc = "load"]))
    BY OverFits DEF Over, Fits, Tasks, Holds, Steps
  <2> QED
    BY <2>1 DEF Init
<1>2. ThreadsInv
  BY <1>1 DEF Init, ThreadsInv
<1> QED
  BY <1>2, RoomLifeAssumption DEF Init, TypeInv, TypeOK, Statuses, ThreadsInv, Fits, Tasks

LEMMA NextTypes == TypeInv /\ [Next]_vars => TypeInv'
<1> SUFFICES ASSUME TypeInv, [Next]_vars
             PROVE  TypeInv'
  OBVIOUS
<1>1. CASE UNCHANGED vars
  BY <1>1 DEF vars, roomVars, TypeInv, TypeOK, ThreadsInv, Fits, Holds
<1>2. ASSUME NEW t \in Conns \cup Admins, LoadStep(t)
      PROVE  TypeInv'
  BY <1>2, LoadTypes DEF Threads
<1>3. CASE BanCreator
  BY <1>3, RoomLifeAssumption
     DEF BanCreator, roomVars, TypeInv, TypeOK, ThreadsInv, Fits, Holds
<1>4. CASE Expire
  <2>1. Janitor \in Threads /\ Janitor \notin Conns /\ Fits(Janitor, th[Janitor])
    BY RoomLifeAssumption DEF TypeInv, ThreadsInv, Threads
  <2>2. Fits(Janitor, [th[Janitor] EXCEPT !.pc = "detach", !.at = cached])
    BY <1>4, <2>1 DEF Expire, Fits, Tasks, Holds, Steps, TypeInv, TypeOK
  <2>3. ThreadsInv'
    BY <1>4, <2>1, <2>2, SetThreads DEF Expire, TypeInv
  <2> QED
    BY <1>4, <2>3 DEF Expire, TypeInv, TypeOK, ThreadsInv, Fits, Tasks
<1>5. CASE Finished
  BY <1>1, <1>5 DEF Finished
<1> QED
  BY <1>1, <1>2, <1>3, <1>4, <1>5, CloseTypes, ConnTypes, AdminTypes DEF Next

\* A room keeps its types, and no step works on a room object or a hub that is not there,
\* for any number of connections and admins (room.go:28-97, rooms.go:61-186).
THEOREM TypeCorrect == Spec => []TypeOK
<1>1. Init => TypeInv
  BY InitTypes
<1>2. TypeInv /\ [Next]_vars => TypeInv'
  BY NextTypes
<1>3. TypeInv => TypeOK
  BY DEF TypeInv
<1> QED
  BY <1>1, <1>2, <1>3, PTL DEF Spec

-----------------------------------------------------------------------------
(* Rooms, their hubs and their connections. *)

\* A thread has a hub only while it registers with it, watches it, or closes it.
HubHeld ==
    \A t \in Threads :
        /\ th[t].hub # None => th[t].pc \in {"reg", "insert", "online", "leaving", "shut"}
        /\ th[t].pc \in {"reg", "insert", "online"} => th[t].hub \in Hubs /\ th[t].at \in Rooms

\* Each hub is of one room object, also when it is taken out of it.
HubAlone ==
    /\ \A s, t \in Threads : th[s].hub # None /\ th[s].hub = th[t].hub => th[s].at = th[t].at
    /\ \A t \in Threads, o \in Rooms : th[t].hub # None /\ hubOf[o] = th[t].hub => th[t].at = o
    /\ \A o, p \in Rooms : hubOf[o] # None /\ hubOf[o] = hubOf[p] => o = p

\* A connection that has a hub has its room's, or one that will be closed.
Reached(c) ==
    th[c].pc \in {"reg", "insert", "online"} =>
        hubOf[th[c].at] = th[c].hub \/ ClosingHub(th[c].hub) \/ c \in late

\* Someone will take the hub out of the room object.
Detaching(o) == \E t \in Threads : th[t].pc = "detach" /\ th[t].at = o

\* A connection has loaded the room that is in the cache, and past its check that room is
\* active; or it will be found when the room or its hub is closed.
Allowed(c) ==
    /\ th[c].pc = "loaded" => cached = th[c].at \/ Detaching(th[c].at) \/ c \in late
    /\ th[c].pc \in {"join", "create", "reg", "insert", "online"} =>
           \/ cached = th[c].at /\ status[th[c].at] = "active"
           \/ Detaching(th[c].at)
           \/ th[c].hub # None /\ ClosingHub(th[c].hub)
           \/ c \in late

RoomsInv == HubHeld /\ HubAlone /\ \A c \in Conns : Reached(c) /\ Allowed(c)

LEMMA OneMoves ==
    ASSUME ThreadsInv, NEW t \in Threads, NEW r, Set(t, r)
    PROVE  th'[t] = r /\ \A s \in Threads \ {t} : th'[s] = th[s]
BY DEF ThreadsInv, Set

LEMMA OverIs ==
    ASSUME NEW t
    PROVE  Over(t).pc \in {"gone", "idle"} /\ Over(t).at = None /\ Over(t).hub = None
BY DEF Over

\* A thread that moves on without its hub and its room object being touched.
LEMMA GotoMoves ==
    ASSUME ThreadsInv, NEW t \in Threads, NEW l, Goto(t, l)
    PROVE  /\ th'[t].pc = l /\ th'[t].at = th[t].at /\ th'[t].hub = th[t].hub
           /\ th'[t].seen = th[t].seen /\ th'[t].op = th[t].op
           /\ \A s \in Threads \ {t} : th'[s] = th[s]
<1>1. th[t] \in Tasks
  BY DEF ThreadsInv, Fits
<1>2. th'[t] = [th[t] EXCEPT !.pc = l] /\ \A s \in Threads \ {t} : th'[s] = th[s]
  BY OneMoves DEF Goto
<1> QED
  BY <1>1, <1>2 DEF Tasks

LEMMA StillClosing ==
    ASSUME \A s \in Threads : th[s].pc \in {"detach", "shut"} => th'[s] = th[s]
    PROVE  /\ \A h : ClosingHub(h) => ClosingHub(h)'
           /\ \A o : Detaching(o) => Detaching(o)'
BY DEF ClosingHub, Detaching

LEMMA ConnThreads == Conns \subseteq Threads /\ Admins \subseteq Threads /\ Janitor \in Threads
BY DEF Threads

\* What a connection that does not move and its room need, to be where they were.
LEMMA StillThere ==
    ASSUME NEW c \in Conns, Reached(c), Allowed(c), th'[c] = th[c], late \subseteq late',
           th[c].pc \in {"reg", "insert", "online"} =>
               hubOf'[th[c].at] = hubOf[th[c].at] \/ ClosingHub(th[c].hub)' \/ c \in late',
           ClosingHub(th[c].hub) => ClosingHub(th[c].hub)' \/ c \in late',
           Detaching(th[c].at) => Detaching(th[c].at)' \/ c \in late',
           cached = th[c].at =>
               \/ cached' = cached /\ status'[cached] = status[cached]
               \/ Detaching(th[c].at)' \/ c \in late'
    PROVE  Reached(c)' /\ Allowed(c)'
BY DEF Reached, Allowed

\* A step that leaves rooms and hubs alone, and moves a thread that closes none: what it may
\* get is the hub of its room.
LEMMA RoomsStay ==
    ASSUME TypeInv, RoomsInv, NEW t \in Threads, UNCHANGED <<cached, status, hubOf, late>>,
           \A s \in Threads \ {t} : th'[s] = th[s], th[t].pc \notin {"detach", "shut"},
           \/ th'[t].hub = None
           \/ th'[t].at = th[t].at /\ th'[t].hub = th[t].hub
           \/ th'[t].at = th[t].at /\ th[t].at \in Rooms /\ th'[t].hub = hubOf[th[t].at],
           th'[t].hub # None => th'[t].pc \in {"reg", "insert", "online", "leaving", "shut"},
           th'[t].pc \in {"reg", "insert", "online"} => th'[t].hub \in Hubs /\ th'[t].at \in Rooms,
           t \in Conns => Reached(t)' /\ Allowed(t)'
    PROVE  RoomsInv'
<1>1. \A s \in Threads : th[s].pc \in {"detach", "shut"} => th'[s] = th[s]
  OBVIOUS
<1>2. HubHeld'
  BY DEF RoomsInv, HubHeld
<1>3. HubAlone'
  <2>0. HubAlone
    BY DEF RoomsInv
  <2>1. ASSUME NEW s \in Threads \ {t}, th[s].hub # None, th[s].hub = th'[t].hub
        PROVE  th[s].at = th'[t].at
    BY <2>0, <2>1 DEF HubAlone
  <2>2. ASSUME NEW o \in Rooms, th'[t].hub # None, hubOf[o] = th'[t].hub
        PROVE  th'[t].at = o
    BY <2>0, <2>2 DEF HubAlone
  <2> QED
    BY <2>0, <2>1, <2>2 DEF HubAlone
<1>4. ASSUME NEW c \in Conns PROVE Reached(c)' /\ Allowed(c)'
  <2>1. CASE c = t
    BY <2>1
  <2>2. CASE c # t
    <3>1. Reached(c) /\ Allowed(c) /\ th'[c] = th[c]
      BY <2>2, ConnThreads DEF RoomsInv
    <3> QED
      BY <1>1, <3>1, StillClosing, StillThere
  <2> QED
    BY <2>1, <2>2
<1> QED
  BY <1>2, <1>3, <1>4 DEF RoomsInv

\* The same of a thread that neither has a hub nor is a connection on its way in.
LEMMA StepsAside ==
    ASSUME TypeInv, RoomsInv, NEW t \in Threads, UNCHANGED <<cached, status, hubOf, late>>,
           \A s \in Threads \ {t} : th'[s] = th[s], th[t].pc \notin {"detach", "shut"},
           th'[t].hub = None,
           th'[t].pc \in {"gone", "idle", "load", "vet", "store", "compare", "evict", "set"}
               \/ (t \notin Conns /\ th'[t].pc \in {"loaded", "detach"})
    PROVE  RoomsInv'
<1>1. t \in Conns => Reached(t)' /\ Allowed(t)'
  BY DEF Reached, Allowed
<1> QED
  BY <1>1, RoomsStay

-----------------------------------------------------------------------------
LEMMA LookRooms ==
    ASSUME TypeInv, RoomsInv, NEW t \in Threads, LoadHit(t) \/ Query(t) \/ Vet(t)
    PROVE  RoomsInv'
<1>0. /\ ThreadsInv /\ th[t] \in Tasks /\ th[t].pc \in {"load", "vet"} /\ th[t].hub = None
      /\ UNCHANGED <<cached, status, hubOf, late>> /\ creator \in {"ok", "banned", "gone"}
  BY DEF TypeInv, TypeOK, ThreadsInv, Fits, RoomsInv, HubHeld, LoadHit, Query, Vet, At, roomVars
<1> DEFINE Moved == \E r : /\ Set(t, r) /\ r.hub = None
                           /\ r.pc \in {"gone", "idle", "vet", "store", "compare", "loaded"}
                           /\ r.pc = "loaded" => r.at = cached
<1>1. Moved
  <2>1. ASSUME Set(t, Over(t)) PROVE Moved
    BY <2>1, OverIs
  <2>2. ASSUME Set(t, [th[t] EXCEPT !.pc = "loaded", !.at = cached]) PROVE Moved
    <3> DEFINE r == [th[t] EXCEPT !.pc = "loaded", !.at = cached]
    <3>1. r.pc = "loaded" /\ r.at = cached /\ r.hub = None /\ Set(t, r)
      BY <1>0, <2>2 DEF Tasks
    <3> HIDE DEF r
    <3> QED
      BY <3>1
  <2>3. ASSUME Set(t, [th[t] EXCEPT !.pc = "compare", !.at = cached, !.op = "giveup"]) PROVE Moved
    <3> DEFINE r == [th[t] EXCEPT !.pc = "compare", !.at = cached, !.op = "giveup"]
    <3>1. r.pc = "compare" /\ r.hub = None /\ Set(t, r)
      BY <1>0, <2>3 DEF Tasks
    <3> HIDE DEF r
    <3> QED
      BY <3>1
  <2>4. ASSUME Set(t, [th[t] EXCEPT !.pc = "vet", !.seen = row]) PROVE Moved
    <3> DEFINE r == [th[t] EXCEPT !.pc = "vet", !.seen = row]
    <3>1. r.pc = "vet" /\ r.hub = None /\ Set(t, r)
      BY <1>0, <2>4 DEF Tasks
    <3> HIDE DEF r
    <3> QED
      BY <3>1
  <2>5. CASE LoadHit(t)
    BY <1>0, <2>1, <2>2, <2>3, <2>5 DEF LoadHit
  <2>6. CASE Query(t)
    BY <2>1, <2>4, <2>6 DEF Query
  <2>7. CASE Vet(t)
    <3> DEFINE r == [th[t] EXCEPT !.pc = "store"]
    <3>1. r.pc = "store" /\ r.hub = None
      BY <1>0 DEF Tasks
    <3>2. Goto(t, "store") => Set(t, r)
      BY DEF Goto
    <3> HIDE DEF r
    <3> QED
      BY <2>1, <2>7, <3>1, <3>2 DEF Vet
  <2> QED
    BY <2>5, <2>6, <2>7
<1>2. PICK r : /\ Set(t, r) /\ r.hub = None
               /\ r.pc \in {"gone", "idle", "vet", "store", "compare", "loaded"}
               /\ r.pc = "loaded" => r.at = cached
  BY <1>1
<1>3. th'[t] = r /\ \A s \in Threads \ {t} : th'[s] = th[s]
  BY <1>0, <1>2, OneMoves
<1>4. Reached(t)' /\ Allowed(t)'
  BY <1>0, <1>2, <1>3 DEF Reached, Allowed
<1> QED
  BY <1>0, <1>2, <1>3, <1>4, RoomsStay

LEMMA StoreRooms ==
    ASSUME TypeInv, RoomsInv, NEW t \in Threads, Store(t)
    PROVE  RoomsInv'
<1>0. /\ ThreadsInv /\ th[t] \in Tasks /\ th[t].pc = "store" /\ th[t].hub = None /\ UNCHANGED late
  BY DEF TypeInv, ThreadsInv, Fits, RoomsInv, HubHeld, Store, At
<1>1. CASE Set(t, [th[t] EXCEPT !.pc = "loaded", !.at = cached]) /\ UNCHANGED roomVars
  <2>1. /\ th'[t].pc = "loaded" /\ th'[t].at = cached /\ th'[t].hub = None
        /\ \A s \in Threads \ {t} : th'[s] = th[s]
    <3>1. /\ th'[t] = [th[t] EXCEPT !.pc = "loaded", !.at = cached]
          /\ \A s \in Threads \ {t} : th'[s] = th[s]
      BY <1>0, <1>1, OneMoves
    <3> QED
      BY <1>0, <3>1 DEF Tasks
  <2>2. Reached(t)' /\ Allowed(t)'
    BY <1>1, <2>1 DEF Reached, Allowed, roomVars
  <2> QED
    BY <1>0, <1>1, <2>1, <2>2, RoomsStay DEF roomVars
<1>2. CASE /\ cached = None /\ FreeRooms # {}
           /\ Set(t, [th[t] EXCEPT !.pc = "loaded", !.at = NewRoom])
           /\ cached' = NewRoom
           /\ status' = [status EXCEPT ![NewRoom] = th[t].seen]
           /\ hubOf' = [hubOf EXCEPT ![NewRoom] = None]
  <2>1. PICK o : o = NewRoom
    OBVIOUS
  <2>2. o \in Rooms /\ \A s \in Threads : th[s].at # o
    BY <1>2, <2>1 DEF NewRoom, FreeRooms
  <2>3. /\ th'[t].pc = "loaded" /\ th'[t].at = o /\ th'[t].hub = None
        /\ \A s \in Threads \ {t} : th'[s] = th[s]
    <3>1. /\ th'[t] = [th[t] EXCEPT !.pc = "loaded", !.at = o]
          /\ \A s \in Threads \ {t} : th'[s] = th[s]
      BY <1>0, <1>2, <2>1, OneMoves
    <3> QED
      BY <1>0, <3>1 DEF Tasks
  <2>4. /\ hubOf'[o] = None
        /\ \A p \in Rooms \ {o} : hubOf'[p] = hubOf[p] /\ status'[p] = status[p]
    BY <1>2, <2>1, <2>2 DEF TypeInv, TypeOK
  <2>5. \A s \in Threads : th[s].pc \in {"detach", "shut"} => th'[s] = th[s]
    BY <1>0, <2>3
  <2>6. HubHeld'
    BY <2>3 DEF RoomsInv, HubHeld
  <2>7. HubAlone'
    BY <2>3, <2>4 DEF RoomsInv, HubAlone
  <2>8. ASSUME NEW c \in Conns PROVE Reached(c)' /\ Allowed(c)'
    <3>1. CASE c = t
      BY <1>2, <2>1, <2>3, <3>1 DEF Reached, Allowed
    <3>2. CASE c # t
      <4>1. /\ Reached(c) /\ Allowed(c) /\ th'[c] = th[c] /\ th[c].at # o
            /\ th[c].pc \in {"reg", "insert", "online"} => th[c].at \in Rooms
        BY <2>2, <2>3, <3>2, ConnThreads DEF RoomsInv, HubHeld
      <4>2. CASE th[c].pc \in {"loaded", "join", "create", "reg", "insert", "online"}
        <5>1. th[c].at # None
          BY <4>1, <4>2, ConnThreads, RoomLifeAssumption DEF TypeInv, ThreadsInv, Fits, Holds
        <5> QED
          BY <1>0, <1>2, <2>4, <2>5, <4>1, <5>1, StillClosing, StillThere
      <4>3. CASE th[c].pc \notin {"loaded", "join", "create", "reg", "insert", "online"}
        BY <4>1, <4>3 DEF Reached, Allowed
      <4> QED
        BY <4>2, <4>3
    <3> QED
      BY <3>1, <3>2
  <2> QED
    BY <2>6, <2>7, <2>8 DEF RoomsInv
<1> QED
  BY <1>1, <1>2 DEF Store

-----------------------------------------------------------------------------
\* A room object leaves the cache with the thread that will close it.
LEMMA CacheCleared ==
    ASSUME TypeInv, RoomsInv, NEW t \in Threads, th[t].pc \notin {"detach", "shut"},
           cached # None, cached' = None, UNCHANGED <<status, hubOf, late>>,
           \A s \in Threads \ {t} : th'[s] = th[s],
           th'[t].pc = "detach", th'[t].at = cached, th'[t].hub = None
    PROVE  RoomsInv'
<1>1. \A s \in Threads : th[s].pc \in {"detach", "shut"} => th'[s] = th[s]
  OBVIOUS
<1>2. HubHeld' /\ HubAlone'
  BY DEF RoomsInv, HubHeld, HubAlone
<1>3. ASSUME NEW c \in Conns PROVE Reached(c)' /\ Allowed(c)'
  <2>1. CASE c = t
    BY <2>1 DEF Reached, Allowed
  <2>2. CASE c # t
    <3>1. Reached(c) /\ Allowed(c) /\ th'[c] = th[c]
      BY <2>2, ConnThreads DEF RoomsInv
    <3>2. cached = th[c].at => Detaching(th[c].at)'
      BY <3>1 DEF Detaching
    <3> QED
      BY <1>1, <3>1, <3>2, StillClosing, StillThere
  <2> QED
    BY <2>1, <2>2
<1> QED
  BY <1>2, <1>3 DEF RoomsInv

LEMMA UncacheRooms ==
    ASSUME TypeInv, RoomsInv, NEW t \in Threads, Compare(t) \/ EvictAny(t)
    PROVE  RoomsInv'
<1>0. /\ ThreadsInv /\ th[t] \in Tasks /\ th[t].pc \in {"compare", "evict"} /\ th[t].hub = None
      /\ UNCHANGED <<status, hubOf, late>> /\ (th[t].pc = "compare" => th[t].at # None)
  BY RoomLifeAssumption
     DEF TypeInv, ThreadsInv, Fits, Holds, RoomsInv, HubHeld, Compare, EvictAny, At
<1>1. CASE Set(t, Over(t)) /\ UNCHANGED cached
  BY <1>0, <1>1, OneMoves, OverIs, StepsAside
<1>2. CASE Goto(t, "detach") /\ Compare(t)
  <2>1. /\ th'[t].pc = "detach" /\ th'[t].at = th[t].at /\ th'[t].hub = None
        /\ \A s \in Threads \ {t} : th'[s] = th[s]
    BY <1>0, <1>2, GotoMoves
  <2>2. CASE cached = th[t].at
    <3>1. cached # None /\ cached' = None
      BY <1>0, <1>2, <2>2 DEF Compare, At
    <3> QED
      BY <1>0, <2>1, <2>2, <3>1, CacheCleared
  <2>3. CASE cached # th[t].at
    <3>1. UNCHANGED cached
      BY <1>2, <2>3 DEF Compare
    <3>2. t \in Conns => Reached(t)' /\ Allowed(t)'
      BY <2>1 DEF Reached, Allowed
    <3> QED
      BY <1>0, <2>1, <3>1, <3>2, RoomsStay
  <2> QED
    BY <2>2, <2>3
<1>3. CASE EvictAny(t) /\ cached # None
  <2>1. th'[t] = [th[t] EXCEPT !.pc = "detach", !.at = cached]
        /\ \A s \in Threads \ {t} : th'[s] = th[s]
    BY <1>0, <1>3, OneMoves DEF EvictAny
  <2>2. th'[t].pc = "detach" /\ th'[t].at = cached /\ th'[t].hub = None
    BY <1>0, <2>1 DEF Tasks
  <2>3. cached' = None
    BY <1>3 DEF EvictAny
  <2> QED
    BY <1>0, <1>3, <2>1, <2>2, <2>3, CacheCleared
<1>4. CASE EvictAny(t) /\ cached = None
  BY <1>1, <1>4 DEF EvictAny
<1>5. CASE Compare(t)
  BY <1>1, <1>2, <1>5 DEF Compare
<1> QED
  BY <1>3, <1>4, <1>5

\* A room object loses its hub: who is on the way in is late, who watches has a hub that
\* is about to be closed.
LEMMA DetachRooms ==
    ASSUME TypeInv, RoomsInv, NEW t \in Threads, Detach(t)
    PROVE  RoomsInv'
<1>0. /\ ThreadsInv /\ th[t] \in Tasks /\ th[t].pc = "detach" /\ th[t].at \in Rooms
      /\ th[t].hub = None /\ UNCHANGED <<cached, status>>
      /\ hubOf \in [Rooms -> Hubs \cup {None}] /\ HubAlone /\ HubHeld
  BY DEF TypeInv, TypeOK, ThreadsInv, Fits, Holds, RoomsInv, HubHeld, Detach, At
<1>1. PICK o \in Rooms : th[t].at = o
  BY <1>0
<1>2. /\ hubOf'[o] = None /\ \A p \in Rooms \ {o} : hubOf'[p] = hubOf[p]
      /\ late' = late \cup Entering(o)
  BY <1>0, <1>1 DEF Detach
<1>3. /\ \A s \in Threads \ {t} : th'[s] = th[s]
      /\ \/ hubOf[o] = None /\ th'[t].pc \in {"gone", "idle"} /\ th'[t].hub = None
         \/ /\ hubOf[o] # None /\ th'[t].pc = "shut" /\ th'[t].hub = hubOf[o]
            /\ th'[t].at = o
  <2>1. CASE hubOf[o] = None
    BY <1>0, <1>1, <2>1, OneMoves, OverIs DEF Detach
  <2>2. CASE hubOf[o] # None
    <3>1. /\ th'[t] = [th[t] EXCEPT !.pc = "shut", !.hub = hubOf[o]]
          /\ \A s \in Threads \ {t} : th'[s] = th[s]
      BY <1>0, <1>1, <2>2, OneMoves DEF Detach
    <3> QED
      BY <1>0, <1>1, <2>2, <3>1 DEF Tasks
  <2> QED
    BY <2>1, <2>2
<1>4. HubHeld'
  BY <1>0, <1>3 DEF HubHeld
<1>5. HubAlone'
  <2>1. ASSUME NEW s \in Threads \ {t}, th[s].hub # None, th[s].hub = th'[t].hub
        PROVE  th[s].at = th'[t].at
    BY <1>0, <1>3, <2>1 DEF HubAlone
  <2>2. ASSUME NEW p \in Rooms, th'[t].hub # None, hubOf'[p] = th'[t].hub
        PROVE  th'[t].at = p
    BY <1>0, <1>2, <1>3, <2>2 DEF HubAlone
  <2>3. ASSUME NEW p \in Rooms, NEW q \in Rooms, hubOf'[p] # None, hubOf'[p] = hubOf'[q]
        PROVE  p = q
    BY <1>0, <1>2, <2>3 DEF HubAlone
  <2>4. ASSUME NEW s \in Threads \ {t}, NEW p \in Rooms, th[s].hub # None, hubOf'[p] = th[s].hub
        PROVE  th[s].at = p
    BY <1>0, <1>2, <2>4 DEF HubAlone
  <2> QED
    BY <1>0, <1>3, <2>1, <2>2, <2>3, <2>4 DEF HubAlone
<1>6. \A h : ClosingHub(h) => ClosingHub(h)'
  BY <1>0, <1>3 DEF ClosingHub
<1>7. \A p : p # o /\ Detaching(p) => Detaching(p)'
  BY <1>1, <1>3 DEF Detaching
<1>8. ASSUME NEW c \in Conns PROVE Reached(c)' /\ Allowed(c)'
  <2>1. CASE c = t
    BY <1>3, <2>1 DEF Reached, Allowed
  <2>2. CASE c # t
    <3>0. Reached(c) /\ Allowed(c) /\ th'[c] = th[c] /\ late \subseteq late' /\ c \in Threads
      BY <1>2, <1>3, <2>2, ConnThreads DEF RoomsInv
    <3>1. CASE th[c].at # o
      <4>1. th[c].pc \in {"reg", "insert", "online"} => hubOf'[th[c].at] = hubOf[th[c].at]
        BY <1>0, <1>2, <3>0, <3>1 DEF HubHeld
      <4> QED
        BY <1>0, <1>6, <1>7, <3>0, <3>1, <4>1, StillThere
    <3>2. CASE th[c].at = o /\ th[c].pc \in {"join", "create", "reg", "insert"}
      <4>1. c \in late'
        BY <1>2, <3>2 DEF Entering
      <4> QED
        BY <4>1 DEF Reached, Allowed
    <3>3. CASE th[c].at = o /\ th[c].pc = "loaded"
      <4>1. cached = o \/ c \in late'
        BY <1>2, <3>3 DEF Entering
      <4> QED
        BY <1>0, <3>0, <3>3, <4>1 DEF Reached, Allowed
    <3>4. CASE th[c].at = o /\ th[c].pc = "online"
      <4>1. th[c].hub # None
        BY <1>0, <3>0, <3>4, RoomLifeAssumption DEF HubHeld
      <4>2. hubOf[o] = th[c].hub => ClosingHub(th[c].hub)'
        BY <1>3, <3>0, <4>1 DEF ClosingHub
      <4>3. ClosingHub(th[c].hub)' \/ c \in late'
        BY <1>6, <3>0, <3>4, <4>2 DEF Reached
      <4> QED
        BY <3>0, <3>4, <4>1, <4>3 DEF Reached, Allowed, ClosingHub
    <3>5. CASE th[c].pc \notin {"loaded", "join", "create", "reg", "insert", "online"}
      BY <3>0, <3>5 DEF Reached, Allowed
    <3> QED
      BY <3>1, <3>2, <3>3, <3>4, <3>5
  <2> QED
    BY <2>1, <2>2
<1> QED
  BY <1>4, <1>5, <1>8 DEF RoomsInv

\* A hub is closed: who watches it is closed, who registers with it is late.
LEMMA ShutRooms ==
    ASSUME TypeInv, RoomsInv, NEW t \in Threads, Shut(t)
    PROVE  RoomsInv'
<1>0. /\ ThreadsInv /\ th[t].pc = "shut" /\ th[t].hub # None
      /\ UNCHANGED <<cached, status, hubOf>> /\ HubAlone /\ HubHeld /\ late \subseteq late'
  BY RoomLifeAssumption
     DEF TypeInv, ThreadsInv, Fits, Holds, RoomsInv, Shut, At
<1>1. PICK h : h = th[t].hub
  OBVIOUS
<1> DEFINE leaves(s) == s \in Conns /\ th[s].hub = h /\ th[s].pc = "online"
<1>2. \A s \in Threads : th'[s] = IF s = t THEN Over(t)
                                  ELSE IF leaves(s) THEN [th[s] EXCEPT !.pc = "leaving"]
                                  ELSE th[s]
  BY <1>1 DEF Shut
<1>3. /\ th'[t].pc \in {"gone", "idle"} /\ th'[t].hub = None
      /\ \A s \in Threads \ {t} : /\ th'[s].at = th[s].at /\ th'[s].hub = th[s].hub
                                  /\ IF leaves(s) THEN th'[s].pc = "leaving" ELSE th'[s] = th[s]
  <2>1. th'[t].pc \in {"gone", "idle"} /\ th'[t].hub = None
    BY <1>2, OverIs
  <2>2. ASSUME NEW s \in Threads \ {t}
        PROVE  /\ th'[s].at = th[s].at /\ th'[s].hub = th[s].hub
               /\ IF leaves(s) THEN th'[s].pc = "leaving" ELSE th'[s] = th[s]
    <3>1. th[s] \in Tasks
      BY <1>0 DEF ThreadsInv, Fits
    <3>2. CASE leaves(s)
      <4>1. th'[s] = [th[s] EXCEPT !.pc = "leaving"]
        BY <1>2, <3>2
      <4> QED
        BY <3>1, <3>2, <4>1 DEF Tasks
    <3>3. CASE ~leaves(s)
      BY <1>2, <3>3
    <3> QED
      BY <3>2, <3>3
  <2> QED
    BY <2>1, <2>2
<1>4. \A c \in Conns : th[c].hub = h /\ th[c].pc \in {"reg", "insert"} => c \in late'
  BY <1>1 DEF Shut
<1>5. HubHeld'
  BY <1>0, <1>3 DEF HubHeld
<1>6. HubAlone'
  BY <1>0, <1>3 DEF HubAlone
<1>7. /\ \A g : g # h /\ ClosingHub(g) => ClosingHub(g)'
      /\ \A o : Detaching(o) => Detaching(o)'
  <2>1. \A s \in Threads \ {t} : th[s].pc \in {"detach", "shut"} => th'[s] = th[s]
    BY <1>3
  <2> QED
    BY <1>0, <1>1, <2>1 DEF ClosingHub, Detaching
<1>8. ASSUME NEW c \in Conns PROVE Reached(c)' /\ Allowed(c)'
  <2>0. c \in Threads /\ Reached(c) /\ Allowed(c)
    BY ConnThreads DEF RoomsInv
  <2>1. CASE c = t
    BY <1>3, <2>1 DEF Reached, Allowed
  <2>2. CASE c # t /\ leaves(c)
    BY <1>3, <2>0, <2>2 DEF Reached, Allowed
  <2>3. CASE c # t /\ ~leaves(c)
    <3>1. th'[c] = th[c]
      BY <1>3, <2>0, <2>3
    <3>2. CASE th[c].hub = h
      <4>1. th[c].pc \in {"leaving", "shut"} \/ c \in late'
        BY <1>0, <1>1, <1>4, <2>0, <2>3, <3>2 DEF HubHeld
      <4> QED
        BY <3>1, <4>1 DEF Reached, Allowed
    <3>3. CASE th[c].hub # h
      BY <1>0, <1>7, <2>0, <3>1, <3>3, StillThere
    <3> QED
      BY <3>2, <3>3
  <2> QED
    BY <2>1, <2>2, <2>3
<1> QED
  BY <1>5, <1>6, <1>8 DEF RoomsInv

-----------------------------------------------------------------------------
\* A hub that is allocated is nobody's.
LEMMA FreshHub ==
    ASSUME NEW o, CreateHub(o)
    PROVE  /\ NewHub \in Hubs
           /\ \A p \in Rooms : hubOf[p] # NewHub
           /\ \A s \in Threads : th[s].hub # NewHub
BY DEF CreateHub, NewHub, FreeHubs

\* A room object without a hub gets one, from a thread that takes it or leaves it behind.
LEMMA HubCreated ==
    ASSUME TypeInv, RoomsInv, NEW t \in Threads, NEW o \in Rooms, CreateHub(o), hubOf[o] = None,
           UNCHANGED <<cached, status, late>>, th[t].pc \notin {"detach", "shut"},
           \A s \in Threads \ {t} : th'[s] = th[s],
           \/ th'[t].hub = None /\ th'[t].pc \in {"gone", "idle"}
           \/ th'[t].hub = NewHub /\ th'[t].at = o /\ th'[t].pc = "reg",
           t \in Conns => Allowed(t)'
    PROVE  RoomsInv'
<1>0. /\ HubAlone /\ HubHeld /\ None \notin Hubs /\ hubOf \in [Rooms -> Hubs \cup {None}]
  BY RoomLifeAssumption DEF TypeInv, TypeOK, RoomsInv
<1>1. PICK h \in Hubs : /\ h = NewHub /\ \A p \in Rooms : hubOf[p] # h
                        /\ \A s \in Threads : th[s].hub # h
  BY FreshHub
<1>2. hubOf'[o] = h /\ \A p \in Rooms \ {o} : hubOf'[p] = hubOf[p]
  BY <1>0, <1>1 DEF CreateHub
<1>3. \/ th'[t].hub = None /\ th'[t].pc \in {"gone", "idle"}
      \/ th'[t].hub = h /\ th'[t].at = o /\ th'[t].pc = "reg"
  BY <1>1
<1>4. HubHeld'
  BY <1>0, <1>3 DEF HubHeld
<1>5. HubAlone'
  <2>1. ASSUME NEW r \in Threads, NEW s \in Threads, th'[r].hub # None, th'[r].hub = th'[s].hub
        PROVE  th'[r].at = th'[s].at
    BY <1>0, <1>1, <1>3, <2>1 DEF HubAlone
  <2>2. ASSUME NEW s \in Threads, NEW p \in Rooms, th'[s].hub # None, hubOf'[p] = th'[s].hub
        PROVE  th'[s].at = p
    BY <1>0, <1>1, <1>2, <1>3, <2>2 DEF HubAlone
  <2>3. ASSUME NEW p \in Rooms, NEW q \in Rooms, hubOf'[p] # None, hubOf'[p] = hubOf'[q]
        PROVE  p = q
    BY <1>0, <1>1, <1>2, <2>3 DEF HubAlone
  <2> QED
    BY <2>1, <2>2, <2>3 DEF HubAlone
<1>6. \A s \in Threads : th[s].pc \in {"detach", "shut"} => th'[s] = th[s]
  OBVIOUS
<1>7. ASSUME NEW c \in Conns PROVE Reached(c)' /\ Allowed(c)'
  <2>1. CASE c = t
    BY <1>2, <1>3, <2>1 DEF Reached
  <2>2. CASE c # t
    <3>1. Reached(c) /\ Allowed(c) /\ th'[c] = th[c] /\ c \in Threads
      BY <2>2, ConnThreads DEF RoomsInv
    <3>2. CASE th[c].pc \in {"reg", "insert", "online"} /\ th[c].at = o
      <4>1. hubOf[o] # th[c].hub
        BY <1>0, <3>1, <3>2 DEF HubHeld
      <4>2. ClosingHub(th[c].hub)' \/ c \in late'
        BY <1>6, <3>1, <3>2, <4>1, StillClosing DEF Reached
      <4> QED
        BY <1>6, <3>1, <4>2, StillClosing, StillThere
    <3>3. CASE ~(th[c].pc \in {"reg", "insert", "online"} /\ th[c].at = o)
      <4>1. th[c].pc \in {"reg", "insert", "online"} => hubOf'[th[c].at] = hubOf[th[c].at]
        BY <1>0, <1>2, <3>1, <3>3 DEF HubHeld
      <4> QED
        BY <1>6, <3>1, <4>1, StillClosing, StillThere
    <3> QED
      BY <3>2, <3>3
  <2> QED
    BY <2>1, <2>2
<1> QED
  BY <1>4, <1>5, <1>7 DEF RoomsInv

LEMMA ConnRooms ==
    ASSUME TypeInv, RoomsInv, NEW c \in Conns, ConnStep(c) \/ Leave(c)
    PROVE  RoomsInv'
<1>0. /\ c \in Threads /\ ThreadsInv /\ th[c] \in Tasks /\ HubHeld /\ Reached(c) /\ Allowed(c)
      /\ hubOf \in [Rooms -> Hubs \cup {None}] /\ None \notin Rooms \cup Hubs
  BY RoomLifeAssumption, ConnThreads DEF TypeInv, TypeOK, ThreadsInv, Fits, RoomsInv
<1>1. CASE Check(c)
  <2>0. th[c].pc = "loaded" /\ th[c].hub = None /\ UNCHANGED <<cached, status, hubOf, late>>
    BY <1>0, <1>1 DEF Check, At, roomVars, HubHeld
  <2>1. CASE status[th[c].at] = "active"
    <3>1. /\ th'[c].pc = "join" /\ th'[c].at = th[c].at /\ th'[c].hub = None
          /\ \A s \in Threads \ {c} : th'[s] = th[s]
      BY <1>0, <1>1, <2>0, <2>1, GotoMoves DEF Check
    <3>2. \A o : Detaching(o) => Detaching(o)'
      BY <2>0, <3>1 DEF Detaching
    <3>4. cached = th[c].at \/ Detaching(th[c].at)' \/ c \in late
      BY <1>0, <2>0, <3>1, <3>2 DEF Allowed
    <3>5. Reached(c)' /\ Allowed(c)'
      BY <2>0, <2>1, <3>1, <3>4 DEF Reached, Allowed, Detaching
    <3> QED
      BY <1>0, <2>0, <3>1, <3>5, RoomsStay
  <2>2. CASE status[th[c].at] # "active"
    BY <1>0, <1>1, <2>0, <2>2, OneMoves, OverIs, StepsAside DEF Check
  <2> QED
    BY <2>1, <2>2
<1>2. CASE JoinLoad(c)
  <2>0. /\ th[c].pc = "join" /\ th[c].hub = None /\ th[c].at \in Rooms
        /\ UNCHANGED <<cached, status, hubOf, late>>
    BY <1>0, <1>2 DEF JoinLoad, At, roomVars, HubHeld, TypeInv, ThreadsInv, Fits, Holds
  <2>1. /\ th'[c].at = th[c].at /\ th'[c].hub = hubOf[th[c].at]
        /\ th'[c].pc = IF hubOf[th[c].at] = None THEN "create" ELSE "reg"
        /\ \A s \in Threads \ {c} : th'[s] = th[s]
    <3>1. /\ th'[c] = [th[c] EXCEPT !.pc = IF hubOf[th[c].at] = None THEN "create" ELSE "reg",
                                    !.hub = hubOf[th[c].at]]
          /\ \A s \in Threads \ {c} : th'[s] = th[s]
      BY <1>0, <1>2, OneMoves DEF JoinLoad
    <3> QED
      BY <1>0, <3>1 DEF Tasks
  <2>2. Reached(c)'
    BY <2>0, <2>1 DEF Reached
  <2>3. Allowed(c)'
    <3>1. \A s \in Threads : th[s].pc = "detach" => th'[s] = th[s]
      BY <2>0, <2>1
    <3> QED
      BY <1>0, <2>0, <2>1, <3>1 DEF Allowed, Detaching
  <2>4. hubOf[th[c].at] \in Hubs \cup {None}
    BY <1>0, <2>0
  <2> QED
    BY <1>0, <2>0, <2>1, <2>2, <2>3, <2>4, RoomsStay
<1>3. CASE JoinCreate(c)
  <2>0. /\ th[c].pc = "create" /\ th[c].hub = None /\ th[c].at \in Rooms
        /\ UNCHANGED <<cached, status, late>>
    BY <1>0, <1>3 DEF JoinCreate, At, HubHeld, TypeInv, ThreadsInv, Fits, Holds
  <2>1. CASE hubOf[th[c].at] = None
    <3>1. CreateHub(th[c].at) /\ NewHub \in Hubs
      BY <1>3, <2>1, FreshHub DEF JoinCreate
    <3>2. /\ th'[c].at = th[c].at /\ th'[c].hub = NewHub /\ th'[c].pc = "reg"
          /\ \A s \in Threads \ {c} : th'[s] = th[s]
      <4>1. /\ th'[c] = [th[c] EXCEPT !.pc = "reg", !.hub = NewHub]
            /\ \A s \in Threads \ {c} : th'[s] = th[s]
        BY <1>0, <1>3, <2>1, OneMoves DEF JoinCreate
      <4> QED
        BY <1>0, <4>1 DEF Tasks
    <3>3. \A s \in Threads : th[s].pc = "detach" => th'[s] = th[s]
      BY <2>0, <3>2
    <3>4. Allowed(c)'
      BY <1>0, <2>0, <3>2, <3>3 DEF Allowed, Detaching
    <3> QED
      BY <1>0, <2>0, <2>1, <3>1, <3>2, <3>4, HubCreated
  <2>2. CASE hubOf[th[c].at] # None
    <3>1. /\ th'[c].pc = "join" /\ th'[c].at = th[c].at /\ th'[c].hub = None
          /\ \A s \in Threads \ {c} : th'[s] = th[s] /\ UNCHANGED hubOf
      BY <1>0, <1>3, <2>0, <2>2, GotoMoves DEF JoinCreate
    <3>2. \A s \in Threads : th[s].pc = "detach" => th'[s] = th[s]
      BY <2>0, <3>1
    <3>3. Reached(c)' /\ Allowed(c)'
      BY <1>0, <2>0, <3>1, <3>2 DEF Reached, Allowed, Detaching
    <3>4. UNCHANGED hubOf
      BY <1>3, <2>2 DEF JoinCreate
    <3> QED
      BY <1>0, <2>0, <3>1, <3>3, <3>4, RoomsStay
  <2> QED
    BY <2>1, <2>2
<1>4. CASE RegCheck(c) /\ th[c].hub \in shut
  BY <1>0, <1>4, OneMoves, OverIs, StepsAside DEF RegCheck, At, roomVars
<1>5. CASE (RegCheck(c) /\ th[c].hub \notin shut) \/ RegInsert(c)
  <2>0. /\ th[c].pc \in {"reg", "insert"} /\ th[c].hub \in Hubs /\ th[c].at \in Rooms
        /\ UNCHANGED <<cached, status, hubOf, late>>
    BY <1>0, <1>5 DEF RegCheck, RegInsert, At, roomVars, HubHeld
  <2>1. /\ th'[c].pc \in {"insert", "online"} /\ th'[c].at = th[c].at /\ th'[c].hub = th[c].hub
        /\ \A s \in Threads \ {c} : th'[s] = th[s]
    BY <1>0, <1>5, GotoMoves DEF RegCheck, RegInsert
  <2>2. \A s \in Threads : th[s].pc \in {"detach", "shut"} => th'[s] = th[s]
    BY <2>0, <2>1
  <2>3. Reached(c)' /\ Allowed(c)'
    BY <1>0, <2>0, <2>1, <2>2 DEF Reached, Allowed, Detaching, ClosingHub
  <2> QED
    BY <1>0, <2>0, <2>1, <2>3, RoomsStay
<1>6. CASE Leave(c)
  <2>0. th[c].pc = "online" /\ UNCHANGED <<cached, status, hubOf, late>>
    BY <1>6 DEF Leave, Watching, roomVars
  <2>1. /\ th'[c].pc = "leaving" /\ th'[c].at = th[c].at /\ th'[c].hub = th[c].hub
        /\ \A s \in Threads \ {c} : th'[s] = th[s]
    BY <1>0, <1>6, GotoMoves DEF Leave
  <2>2. Reached(c)' /\ Allowed(c)'
    BY <2>1 DEF Reached, Allowed
  <2> QED
    BY <1>0, <2>0, <2>1, <2>2, RoomsStay
<1>7. CASE Unregister(c)
  <2>0. th[c].pc = "leaving" /\ UNCHANGED <<cached, status, late>>
    BY <1>7 DEF Unregister, At
  <2>1. /\ th'[c].pc \in {"gone", "idle"} /\ th'[c].hub = None
        /\ \A s \in Threads \ {c} : th'[s] = th[s]
    BY <1>0, <1>7, OneMoves, OverIs DEF Unregister
  <2>2. CASE UNCHANGED hubOf
    BY <1>0, <2>0, <2>1, <2>2, StepsAside
  <2>3. CASE hubOf[th[c].at] = None /\ CreateHub(th[c].at) /\ th[c].at \in Rooms
    <3>1. Allowed(c)'
      BY <2>1 DEF Allowed
    <3> QED
      BY <1>0, <2>0, <2>1, <2>3, <3>1, HubCreated
  <2>4. CASE CreateHub(th[c].at) /\ th[c].at \notin Rooms
    <3>1. UNCHANGED hubOf
      BY <1>0, <2>4 DEF CreateHub
    <3> QED
      BY <2>2, <3>1
  <2> QED
    BY <1>7, <2>2, <2>3, <2>4 DEF Unregister
<1> QED
  BY <1>1, <1>2, <1>3, <1>4, <1>5, <1>6, <1>7 DEF ConnStep, RegCheck

LEMMA AdminRooms ==
    ASSUME TypeInv, RoomsInv, NEW a \in Admins, AdminStep(a) \/ \E o \in Ops : StartOp(a, o)
    PROVE  RoomsInv'
<1>0. /\ a \in Threads /\ a \notin Conns /\ ThreadsInv /\ th[a] \in Tasks /\ HubHeld
      /\ None \notin Rooms
  BY RoomLifeAssumption, ConnThreads DEF TypeInv, ThreadsInv, Fits, RoomsInv
<1>1. CASE \E o \in Ops : StartOp(a, o)
  <2>1. PICK o \in Ops : StartOp(a, o)
    BY <1>1
  <2>2. /\ th'[a] = [th[a] EXCEPT !.op = o, !.pc = IF o = "deleteCreator" THEN "loaded" ELSE "load"]
        /\ \A s \in Threads \ {a} : th'[s] = th[s] /\ th[a].pc = "idle"
    BY <1>0, <2>1, OneMoves DEF StartOp, At
  <2>3. th'[a].hub = None /\ th'[a].pc \in {"loaded", "load"} /\ th[a].pc = "idle"
    BY <1>0, <2>1, <2>2 DEF Tasks, HubHeld, StartOp, At
  <2> QED
    BY <1>0, <2>1, <2>2, <2>3, StepsAside DEF StartOp, roomVars
<1>2. CASE WriteStatus(a) \/ Refuse(a) \/ DeleteRow(a)
  <2>1. /\ th[a].pc = "loaded" /\ th[a].hub = None /\ UNCHANGED <<cached, status, hubOf, late>>
        /\ Set(a, Over(a)) \/ \E l \in {"set", "evict", "compare"} : Goto(a, l)
    <3>1. CASE WriteStatus(a)
      BY <1>0, <3>1 DEF WriteStatus, At, roomVars, HubHeld
    <3>2. CASE Refuse(a)
      BY <1>0, <3>2 DEF Refuse, At, roomVars, HubHeld
    <3>3. CASE DeleteRow(a)
      BY <1>0, <3>3 DEF DeleteRow, At, roomVars, HubHeld
    <3> QED
      BY <1>2, <3>1, <3>2, <3>3
  <2>2. /\ th'[a].hub = None /\ th'[a].pc \in {"gone", "idle", "set", "evict", "compare"}
        /\ \A s \in Threads \ {a} : th'[s] = th[s]
    <3>1. CASE Set(a, Over(a))
      BY <1>0, <3>1, OneMoves, OverIs
    <3>2. CASE \E l \in {"set", "evict", "compare"} : Goto(a, l)
      BY <1>0, <2>1, <3>2, GotoMoves
    <3> QED
      BY <2>1, <3>1, <3>2
  <2> QED
    BY <1>0, <2>1, <2>2, StepsAside
<1>3. CASE SetStatus(a)
  <2>0. /\ th[a].pc = "set" /\ th[a].hub = None /\ UNCHANGED <<cached, hubOf, late>>
        /\ th[a].at \in Rooms /\ status \in [Rooms -> Statuses]
    BY <1>0, <1>3
       DEF SetStatus, At, roomVars, HubHeld, TypeInv, TypeOK, ThreadsInv, Fits, Holds
  <2>1. PICK o \in Rooms : th[a].at = o
    BY <2>0
  <2>2. /\ status'[o] = Target(a) /\ \A p \in Rooms \ {o} : status'[p] = status[p]
        /\ th[a].op # "ban" => status'[o] = "active"
    BY <1>3, <2>0, <2>1 DEF SetStatus, Target
  <2>3. /\ th'[a].hub = None /\ th'[a].pc \in {"gone", "idle", "detach"}
        /\ th[a].op = "ban" => th'[a].pc = "detach" /\ th'[a].at = o
        /\ \A s \in Threads \ {a} : th'[s] = th[s]
    <3>1. CASE th[a].op = "ban"
      BY <1>0, <1>3, <2>0, <2>1, <3>1, GotoMoves DEF SetStatus
    <3>2. CASE th[a].op # "ban"
      BY <1>0, <1>3, <3>2, OneMoves, OverIs DEF SetStatus
    <3> QED
      BY <3>1, <3>2
  <2>4. \A s \in Threads : th[s].pc \in {"detach", "shut"} => th'[s] = th[s]
    BY <2>0, <2>3
  <2>5. HubHeld'
    BY <1>0, <2>3 DEF HubHeld
  <2>6. HubAlone'
    BY <2>0, <2>3 DEF RoomsInv, HubAlone
  <2>7. ASSUME NEW c \in Conns PROVE Reached(c)' /\ Allowed(c)'
    <3>1. Reached(c) /\ Allowed(c) /\ th'[c] = th[c]
      BY <1>0, <2>3, ConnThreads DEF RoomsInv
    <3>2. CASE th[c].at # o
      <4>1. th[c].at \in Rooms \cup {None}
        BY ConnThreads DEF TypeInv, ThreadsInv, Fits, Tasks
      <4>2. cached = th[c].at => status'[cached] = status[cached] \/ th[c].at = None
        BY <2>2, <3>2, <4>1
      <4>3. CASE th[c].at = None
        <5>1. th[c].pc \notin {"loaded", "join", "create", "reg", "insert", "online"}
          BY <1>0, <4>3, ConnThreads DEF HubHeld, TypeInv, ThreadsInv, Fits, Holds
        <5> QED
          BY <3>1, <5>1 DEF Reached, Allowed
      <4>4. CASE th[c].at # None
        BY <2>0, <2>4, <3>1, <4>2, <4>4, StillClosing, StillThere
      <4> QED
        BY <4>3, <4>4
    <3>3. CASE th[c].at = o /\ th[a].op = "ban"
      <4>1. Detaching(th[c].at)'
        BY <1>0, <2>3, <3>1, <3>3 DEF Detaching
      <4> QED
        BY <2>0, <2>4, <3>1, <4>1, StillClosing, StillThere
    <3>4. CASE th[c].at = o /\ th[a].op # "ban"
      <4>1. status'[o] = "active"
        BY <2>2, <3>4
      <4>2. \A h : ClosingHub(h) => ClosingHub(h)'
        BY <2>4, StillClosing
      <4>3. \A p : Detaching(p) => Detaching(p)'
        BY <2>4, StillClosing
      <4>4. Reached(c)'
        BY <2>0, <3>1, <4>2 DEF Reached, ClosingHub
      <4>5. Allowed(c)'
        BY <2>0, <3>1, <3>4, <4>1, <2>4 DEF Allowed, Detaching, ClosingHub
      <4> QED
        BY <4>4, <4>5
    <3> QED
      BY <3>2, <3>3, <3>4
  <2> QED
    BY <2>5, <2>6, <2>7 DEF RoomsInv
<1> QED
  BY <1>1, <1>2, <1>3 DEF AdminStep

LEMMA ExpireRooms ==
    ASSUME TypeInv, RoomsInv, Expire
    PROVE  RoomsInv'
<1>0. /\ Janitor \in Threads /\ ThreadsInv /\ th[Janitor] \in Tasks /\ th[Janitor].pc = "idle"
      /\ th[Janitor].hub = None /\ cached # None /\ cached' = None
      /\ UNCHANGED <<status, hubOf, late>>
  BY ConnThreads DEF TypeInv, ThreadsInv, Fits, RoomsInv, HubHeld, Expire, At
<1>1. /\ th'[Janitor] = [th[Janitor] EXCEPT !.pc = "detach", !.at = cached]
      /\ \A s \in Threads \ {Janitor} : th'[s] = th[s]
  BY <1>0, OneMoves DEF Expire
<1>2. th'[Janitor].pc = "detach" /\ th'[Janitor].at = cached /\ th'[Janitor].hub = None
  BY <1>0, <1>1 DEF Tasks
<1> QED
  BY <1>0, <1>1, <1>2, CacheCleared

-----------------------------------------------------------------------------
(* The cache and the database. *)

\* A deleted user has taken its rooms with it.
Deleted ==
    /\ creator = "gone" => row = "gone"
    /\ \A t \in Threads : th[t].pc = "evict" /\ th[t].op = "deleteCreator" => row = "gone"

TruthInv == CacheTellsTruth /\ Deleted

LEMMA StillChanging ==
    ASSUME \A a \in Admins : th[a].pc \in {"set", "compare", "evict"} => th'[a] = th[a]
    PROVE  Changing => Changing'
BY DEF Changing

\* Threads move that make no change, and none begins to evict the rooms of a user.
LEMMA TruthStays ==
    ASSUME TruthInv, UNCHANGED <<row, creator, cached, status, outdated>>,
           \A s \in Threads : \/ th'[s] = th[s]
                              \/ /\ th[s].pc \notin {"set", "compare", "evict"}
                                 /\ th'[s].pc # "evict"
    PROVE  TruthInv'
<1>1. Changing => Changing'
  BY StillChanging, ConnThreads
<1> QED
  BY <1>1 DEF TruthInv, Deleted, CacheTellsTruth

LEMMA DeletedStays ==
    ASSUME Deleted, row' = row, creator' = creator, NEW t \in Threads,
           \A s \in Threads \ {t} : th'[s] = th[s], th'[t].pc # "evict"
    PROVE  Deleted'
BY DEF Deleted

\* Whoever takes the object out of the cache, nothing that is cached is untrue.
LEMMA NothingCached ==
    ASSUME cached' = None, Deleted'
    PROVE  TruthInv'
BY DEF TruthInv, CacheTellsTruth

LEMMA Moves ==
    ASSUME ThreadsInv, NEW t \in Threads, NEW r, Set(t, r), r.pc # "evict"
    PROVE  th'[t].pc # "evict" /\ \A s \in Threads \ {t} : th'[s] = th[s]
BY OneMoves

LEMMA LoadTruth ==
    ASSUME TypeInv, TruthInv, NEW t \in Threads, LoadStep(t)
    PROVE  TruthInv'
<1>0. ThreadsInv /\ th[t] \in Tasks /\ None \notin Rooms
  BY RoomLifeAssumption DEF TypeInv, ThreadsInv, Fits
<1>1. CASE LoadHit(t)
  <2>1. th[t].pc = "load" /\ UNCHANGED <<row, creator, cached, status, outdated>>
    BY <1>1 DEF LoadHit, At, roomVars
  <2>2. /\ \A s \in Threads \ {t} : th'[s] = th[s]
        /\ th'[t].pc # "evict"
    <3>1. CASE creator = "ok"
      <4>1. [th[t] EXCEPT !.pc = "loaded", !.at = cached].pc = "loaded"
        BY <1>0 DEF Tasks
      <4> QED
        BY <1>0, <1>1, <3>1, <4>1, Moves DEF LoadHit
    <3>2. CASE creator = "banned"
      <4>1. [th[t] EXCEPT !.pc = "compare", !.at = cached, !.op = "giveup"].pc = "compare"
        BY <1>0 DEF Tasks
      <4> QED
        BY <1>0, <1>1, <3>2, <4>1, Moves DEF LoadHit
    <3>3. CASE creator = "gone"
      BY <1>0, <1>1, <3>3, OneMoves, OverIs DEF LoadHit
    <3> QED
      BY <3>1, <3>2, <3>3 DEF TypeInv, TypeOK
  <2> QED
    BY <2>1, <2>2, TruthStays
<1>2. CASE Query(t)
  <2>1. th[t].pc = "load" /\ UNCHANGED <<row, creator, cached, status, outdated>>
    BY <1>2 DEF Query, At, roomVars
  <2>2. /\ \A s \in Threads \ {t} : th'[s] = th[s]
        /\ th'[t].pc # "evict"
    <3>1. CASE row = "gone"
      BY <1>0, <1>2, <3>1, OneMoves, OverIs DEF Query
    <3>2. CASE row # "gone"
      <4>1. [th[t] EXCEPT !.pc = "vet", !.seen = row].pc = "vet"
        BY <1>0 DEF Tasks
      <4> QED
        BY <1>0, <1>2, <3>2, <4>1, Moves DEF Query
    <3> QED
      BY <3>1, <3>2
  <2> QED
    BY <2>1, <2>2, TruthStays
<1>3. CASE Vet(t)
  <2>1. th[t].pc = "vet" /\ UNCHANGED <<row, creator, cached, status, outdated>>
    BY <1>3 DEF Vet, At, roomVars
  <2>2. /\ \A s \in Threads \ {t} : th'[s] = th[s]
        /\ th'[t].pc # "evict"
    <3>1. CASE Set(t, Over(t))
      BY <1>0, <3>1, OneMoves, OverIs
    <3>2. CASE Goto(t, "store")
      BY <1>0, <3>2, GotoMoves
    <3> QED
      BY <1>3, <3>1, <3>2 DEF Vet
  <2> QED
    BY <2>1, <2>2, TruthStays
<1>4. CASE Store(t)
  <2>0. th[t].pc = "store" /\ UNCHANGED <<row, creator>>
    BY <1>4 DEF Store, At
  <2>1. CASE /\ Set(t, [th[t] EXCEPT !.pc = "loaded", !.at = cached])
             /\ UNCHANGED <<roomVars, outdated>>
    <3>1. th'[t].pc # "evict" /\ \A s \in Threads \ {t} : th'[s] = th[s]
      <4>1. [th[t] EXCEPT !.pc = "loaded", !.at = cached].pc = "loaded"
        BY <1>0 DEF Tasks
      <4> QED
        BY <1>0, <2>1, <4>1, Moves
    <3> QED
      BY <2>0, <2>1, <3>1, TruthStays DEF roomVars
  <2>2. CASE /\ FreeRooms # {}
             /\ Set(t, [th[t] EXCEPT !.pc = "loaded", !.at = NewRoom])
             /\ cached' = NewRoom
             /\ status' = [status EXCEPT ![NewRoom] = th[t].seen]
             /\ outdated' = IF th[t].seen = row THEN outdated \ {NewRoom}
                                                ELSE outdated \cup {NewRoom}
    <3>1. th'[t].pc # "evict" /\ \A s \in Threads \ {t} : th'[s] = th[s]
      <4>1. [th[t] EXCEPT !.pc = "loaded", !.at = NewRoom].pc = "loaded"
        BY <1>0 DEF Tasks
      <4> QED
        BY <1>0, <2>2, <4>1, Moves
    <3>2. Deleted'
      BY <2>0, <3>1, DeletedStays DEF TruthInv
    <3>3. status'[cached'] = th[t].seen
      BY <2>2, NewTypes DEF TypeInv, TypeOK
    <3>4. th[t].seen = row \/ cached' \in outdated'
      BY <2>2
    <3>5. CacheTellsTruth'
      BY <2>0, <3>3, <3>4 DEF CacheTellsTruth
    <3> QED
      BY <3>2, <3>5 DEF TruthInv
  <2> QED
    BY <1>4, <2>1, <2>2 DEF Store
<1> QED
  BY <1>1, <1>2, <1>3, <1>4 DEF LoadStep

LEMMA CloseTruth ==
    ASSUME TypeInv, TruthInv, NEW t \in Threads, CloseStep(t)
    PROVE  TruthInv'
<1>0. ThreadsInv /\ th[t] \in Tasks
  BY DEF TypeInv, ThreadsInv, Fits
<1>1. CASE Compare(t)
  <2>0. th[t].pc = "compare" /\ UNCHANGED <<row, creator, status>>
    BY <1>1 DEF Compare, At
  <2>1. th'[t].pc # "evict" /\ \A s \in Threads \ {t} : th'[s] = th[s]
    <3>1. CASE Set(t, Over(t))
      BY <1>0, <3>1, OneMoves, OverIs
    <3>2. CASE Goto(t, "detach")
      BY <1>0, <3>2, GotoMoves
    <3> QED
      BY <1>1, <3>1, <3>2 DEF Compare
  <2>2. Deleted'
    BY <2>0, <2>1, DeletedStays DEF TruthInv
  <2>3. CASE cached = th[t].at
    BY <1>1, <2>2, <2>3, NothingCached DEF Compare
  <2>4. CASE cached # th[t].at /\ th[t].op = "giveup"
    <3>1. cached' = cached /\ outdated' = outdated
      BY <1>1, <2>4 DEF Compare
    <3>2. \A a \in Admins : a # t => th'[a] = th[a]
      BY <2>1, ConnThreads
    <3>3. Changing => Changing'
      BY <2>0, <2>4, <3>2 DEF Changing
    <3>4. CacheTellsTruth'
      BY <2>0, <3>1, <3>3 DEF TruthInv, CacheTellsTruth
    <3> QED
      BY <2>2, <3>4 DEF TruthInv
  <2>5. CASE cached # th[t].at /\ th[t].op # "giveup"
    <3>1. cached' = cached /\ (cached # None => cached \in outdated')
      BY <1>1, <2>5 DEF Compare
    <3>2. CacheTellsTruth'
      BY <3>1 DEF CacheTellsTruth
    <3> QED
      BY <2>2, <3>2 DEF TruthInv
  <2> QED
    BY <2>3, <2>4, <2>5
<1>2. CASE EvictAny(t)
  <2>0. th[t].pc = "evict" /\ cached' = None /\ row' = row
    BY <1>2 DEF EvictAny, At
  <2>1. th'[t].pc # "evict" /\ \A s \in Threads \ {t} : th'[s] = th[s]
    <3>1. CASE cached = None
      BY <1>0, <1>2, <3>1, OneMoves, OverIs DEF EvictAny
    <3>2. CASE cached # None
      <4>1. [th[t] EXCEPT !.pc = "detach", !.at = cached].pc = "detach"
        BY <1>0 DEF Tasks
      <4> QED
        BY <1>0, <1>2, <3>2, <4>1, Moves DEF EvictAny
    <3> QED
      BY <3>1, <3>2
  <2>2. creator' = "gone" => row = "gone"
    BY <1>2, <2>0 DEF EvictAny, TruthInv, Deleted
  <2>3. Deleted'
    BY <2>0, <2>1, <2>2 DEF TruthInv, Deleted
  <2> QED
    BY <2>0, <2>3, NothingCached
<1>3. CASE Detach(t)
  <2>1. th[t].pc = "detach" /\ UNCHANGED <<row, creator, cached, status, outdated>>
    BY <1>3 DEF Detach, At
  <2>2. th'[t].pc # "evict" /\ \A s \in Threads \ {t} : th'[s] = th[s]
    <3>1. CASE hubOf[th[t].at] = None
      BY <1>0, <1>3, <3>1, OneMoves, OverIs DEF Detach
    <3>2. CASE hubOf[th[t].at] # None
      <4>1. [th[t] EXCEPT !.pc = "shut", !.hub = hubOf[th[t].at]].pc = "shut"
        BY <1>0 DEF Tasks
      <4> QED
        BY <1>0, <1>3, <3>2, <4>1, Moves DEF Detach
    <3> QED
      BY <3>1, <3>2
  <2> QED
    BY <2>1, <2>2, TruthStays
<1>4. CASE Shut(t)
  <2>1. th[t].pc = "shut" /\ UNCHANGED <<row, creator, cached, status, outdated>>
    BY <1>4 DEF Shut, At
  <2>2. ASSUME NEW s \in Threads
        PROVE  \/ th'[s] = th[s]
               \/ th[s].pc \notin {"set", "compare", "evict"} /\ th'[s].pc # "evict"
    <3>1. th[s] \in Tasks
      BY DEF TypeInv, ThreadsInv, Fits
    <3>2. CASE s = t
      BY <1>4, <2>1, <3>2, OverIs DEF Shut
    <3>3. CASE th[s].pc = "online" /\ th'[s] = [th[s] EXCEPT !.pc = "leaving"]
      BY <3>1, <3>3 DEF Tasks
    <3> QED
      BY <1>4, <3>2, <3>3 DEF Shut
  <2> QED
    BY <2>1, <2>2, TruthStays
<1> QED
  BY <1>1, <1>2, <1>3, <1>4 DEF CloseStep

LEMMA ConnTruth ==
    ASSUME TypeInv, TruthInv, NEW c \in Conns, ConnStep(c) \/ Leave(c)
    PROVE  TruthInv'
<1>0. c \in Threads /\ ThreadsInv /\ th[c] \in Tasks
  BY ConnThreads DEF TypeInv, ThreadsInv, Fits
<1>1. /\ th[c].pc \in {"loaded", "join", "create", "reg", "insert", "leaving", "online"}
      /\ UNCHANGED <<row, creator, cached, status, outdated>>
  <2>1. CASE Check(c)
    BY <2>1 DEF Check, At, roomVars
  <2>2. CASE JoinLoad(c)
    BY <2>2 DEF JoinLoad, At, roomVars
  <2>3. CASE JoinCreate(c)
    BY <2>3 DEF JoinCreate, At, roomVars
  <2>4. CASE RegCheck(c)
    BY <2>4 DEF RegCheck, At, roomVars
  <2>5. CASE RegInsert(c)
    BY <2>5 DEF RegInsert, At, roomVars
  <2>6. CASE Unregister(c)
    BY <2>6 DEF Unregister, At, roomVars
  <2>7. CASE Leave(c)
    BY <2>7 DEF Leave, Watching, roomVars
  <2> QED
    BY <2>1, <2>2, <2>3, <2>4, <2>5, <2>6, <2>7 DEF ConnStep
<1>2. th'[c].pc # "evict" /\ \A s \in Threads \ {c} : th'[s] = th[s]
  <2>1. CASE Set(c, Over(c))
    BY <1>0, <2>1, OneMoves, OverIs
  <2>2. CASE \E l \in {"join", "insert", "online", "leaving"} : Goto(c, l)
    BY <1>0, <2>2, GotoMoves
  <2>3. ASSUME NEW h, NEW l \in {"create", "reg"}, Set(c, [th[c] EXCEPT !.pc = l, !.hub = h])
        PROVE  th'[c].pc # "evict" /\ \A s \in Threads \ {c} : th'[s] = th[s]
    <3>1. [th[c] EXCEPT !.pc = l, !.hub = h].pc # "evict"
      BY <1>0 DEF Tasks
    <3> QED
      BY <1>0, <2>3, <3>1, Moves
  <2>4. CASE Check(c) \/ RegCheck(c) \/ RegInsert(c) \/ Unregister(c) \/ Leave(c)
    BY <2>1, <2>2, <2>4 DEF Check, RegCheck, RegInsert, Unregister, Leave
  <2>5. CASE JoinLoad(c)
    <3>1. (IF hubOf[th[c].at] = None THEN "create" ELSE "reg") \in {"create", "reg"}
      OBVIOUS
    <3> QED
      BY <2>3, <2>5, <3>1 DEF JoinLoad
  <2>6. CASE JoinCreate(c)
    <3>1. CASE hubOf[th[c].at] = None
      BY <2>3, <2>6, <3>1 DEF JoinCreate
    <3>2. CASE hubOf[th[c].at] # None
      BY <2>2, <2>6, <3>2 DEF JoinCreate
    <3> QED
      BY <3>1, <3>2
  <2> QED
    BY <2>4, <2>5, <2>6 DEF ConnStep
<1> QED
  BY <1>0, <1>1, <1>2, TruthStays

LEMMA AdminTruth ==
    ASSUME TypeInv, TruthInv, NEW a \in Admins, AdminStep(a) \/ \E o \in Ops : StartOp(a, o)
    PROVE  TruthInv'
<1>0. a \in Threads /\ ThreadsInv /\ th[a] \in Tasks
  BY ConnThreads DEF TypeInv, ThreadsInv, Fits
<1>1. CASE \E o \in Ops : StartOp(a, o)
  <2>1. PICK o \in Ops : StartOp(a, o)
    BY <1>1
  <2>2. th[a].pc = "idle" /\ UNCHANGED <<row, creator, cached, status, outdated>>
    BY <2>1 DEF StartOp, At, roomVars
  <2>3. th'[a].pc # "evict" /\ \A s \in Threads \ {a} : th'[s] = th[s]
    <3>1. [th[a] EXCEPT !.op = o,
                        !.pc = IF o = "deleteCreator" THEN "loaded" ELSE "load"].pc # "evict"
      BY <1>0 DEF Tasks
    <3> QED
      BY <1>0, <2>1, <3>1, Moves DEF StartOp
  <2> QED
    BY <2>2, <2>3, TruthStays
\* The row has changed, and the thread knows that it has to tell the cache.
<1>2. ASSUME th'[a].pc \in {"set", "compare", "evict"}, th'[a].op # "giveup", Deleted'
      PROVE  TruthInv'
  BY <1>2 DEF TruthInv, CacheTellsTruth, Changing
<1>3. ASSUME Set(a, Over(a)), th[a].pc = "loaded", UNCHANGED <<row, creator, roomVars, outdated>>
      PROVE  TruthInv'
  <2>1. th'[a].pc # "evict" /\ \A s \in Threads \ {a} : th'[s] = th[s]
    BY <1>0, <1>3, OneMoves, OverIs
  <2> QED
    BY <1>3, <2>1, TruthStays DEF roomVars
<1>4. CASE WriteStatus(a)
  <2>1. CASE row # "gone" /\ Goto(a, "set")
    <3>1. /\ th'[a].pc = "set" /\ th'[a].op = th[a].op
          /\ \A s \in Threads \ {a} : th'[s] = th[s]
      BY <1>0, <2>1, GotoMoves
    <3>2. th[a].op # "giveup"
      BY <1>4 DEF WriteStatus, Applies
    <3>3. creator # "gone" /\ \A s \in Threads : ~(th[s].pc = "evict" /\ th[s].op = "deleteCreator")
      BY <2>1 DEF TruthInv, Deleted
    <3>4. Deleted'
      BY <1>4, <3>1, <3>3 DEF WriteStatus, Deleted
    <3> QED
      BY <1>2, <3>1, <3>2, <3>4
  <2> QED
    BY <1>3, <1>4, <2>1 DEF WriteStatus, At
<1>5. CASE Refuse(a)
  BY <1>3, <1>5 DEF Refuse, At
<1>6. CASE SetStatus(a)
  <2>0. th[a].pc = "set" /\ UNCHANGED <<row, creator, cached>>
    BY <1>6 DEF SetStatus, At
  <2>1. th'[a].pc # "evict" /\ \A s \in Threads \ {a} : th'[s] = th[s]
    <3>1. CASE th[a].op = "ban"
      BY <1>0, <1>6, <3>1, GotoMoves DEF SetStatus
    <3>2. CASE th[a].op # "ban"
      BY <1>0, <1>6, <3>2, OneMoves, OverIs DEF SetStatus
    <3> QED
      BY <3>1, <3>2
  <2>2. Deleted'
    BY <1>0, <2>0, <2>1, DeletedStays DEF TruthInv
  <2>3. cached # None => status'[cached] = row \/ cached \in outdated'
    BY <1>6 DEF SetStatus, TypeInv, TypeOK
  <2>4. CacheTellsTruth'
    BY <2>0, <2>3 DEF CacheTellsTruth
  <2> QED
    BY <2>2, <2>4 DEF TruthInv
<1>7. CASE DeleteRow(a)
  <2>0. /\ th[a].pc = "loaded" /\ row' = "gone" /\ UNCHANGED <<creator, roomVars, outdated>>
        /\ th[a].op # "giveup"
    BY <1>7 DEF DeleteRow, At
  <2>1. Deleted'
    BY <2>0 DEF Deleted
  <2>2. CASE Set(a, Over(a)) /\ row = "gone"
    BY <1>3, <2>0, <2>2
  <2>3. CASE \E l \in {"evict", "compare"} : Goto(a, l)
    <3>1. th'[a].pc \in {"evict", "compare"} /\ th'[a].op = th[a].op
      BY <1>0, <2>3, GotoMoves
    <3> QED
      BY <1>2, <2>0, <2>1, <3>1
  <2>4. creator = "gone" => row = "gone"
    BY DEF TruthInv, Deleted
  <2> QED
    BY <1>7, <2>2, <2>3, <2>4 DEF DeleteRow
<1> QED
  BY <1>1, <1>4, <1>5, <1>6, <1>7 DEF AdminStep

-----------------------------------------------------------------------------
RoomInv == TypeInv /\ RoomsInv /\ TruthInv

\* The rooms, their hubs and the cache fit together, whatever loads, bans, deletions,
\* expiries and connections happen in between: each hub belongs to one room object, a
\* connection past its checks has the cached room or will be found by whoever closes it,
\* and the cached object has the status of its row, or will be told
\* (rooms.go:61-186, room.go:28-97, 556-566, 812-823, auth.go:156-173).
THEOREM RoomsKept == Spec => []RoomInv
<1>1. Init => RoomInv
  <2> SUFFICES ASSUME Init PROVE RoomInv
    OBVIOUS
  <2>1. TypeInv
    BY InitTypes
  <2>2. \A t \in Threads : th[t].hub = None /\ th[t].pc \in {"load", "gone", "idle"}
    <3>1. ASSUME NEW t \in Threads
          PROVE  th[t].hub = None /\ th[t].pc \in {"load", "gone", "idle"}
      <4>1. Over(t).hub = None /\ Over(t).pc \in {"gone", "idle"} /\ Over(t) \in Tasks
        BY OverFits, OverIs DEF Fits
      <4>2. [Over(t) EXCEPT !.pc = "load"].hub = None /\ [Over(t) EXCEPT !.pc = "load"].pc = "load"
        BY <4>1 DEF Tasks
      <4> QED
        BY <4>1, <4>2 DEF Init
    <3> QED
      BY <3>1
  <2>3. HubHeld /\ HubAlone
    BY <2>2 DEF Init, HubHeld, HubAlone
  <2>4. \A c \in Conns : Reached(c) /\ Allowed(c)
    BY <2>2, ConnThreads DEF Reached, Allowed
  <2>5. TruthInv
    BY <2>2 DEF Init, TruthInv, CacheTellsTruth, Deleted
  <2> QED
    BY <2>1, <2>3, <2>4, <2>5 DEF RoomInv, RoomsInv
<1>2. RoomInv /\ [Next]_vars => RoomInv'
  <2> SUFFICES ASSUME RoomInv, [Next]_vars PROVE RoomInv'
    OBVIOUS
  <2>1. TypeInv /\ RoomsInv /\ TruthInv /\ TypeInv'
    BY NextTypes DEF RoomInv
  <2>2. ASSUME NEW t \in Conns \cup Admins, LoadStep(t)
        PROVE  RoomInv'
    BY <2>1, <2>2, ConnThreads, LookRooms, StoreRooms, LoadTruth DEF LoadStep, RoomInv
  <2>3. ASSUME NEW t \in Threads, CloseStep(t)
        PROVE  RoomInv'
    BY <2>1, <2>3, UncacheRooms, DetachRooms, ShutRooms, CloseTruth DEF CloseStep, RoomInv
  <2>4. ASSUME NEW c \in Conns, ConnStep(c) \/ Leave(c)
        PROVE  RoomInv'
    BY <2>1, <2>4, ConnRooms, ConnTruth DEF RoomInv
  <2>5. ASSUME NEW a \in Admins, AdminStep(a) \/ \E o \in Ops : StartOp(a, o)
        PROVE  RoomInv'
    BY <2>1, <2>5, AdminRooms, AdminTruth DEF RoomInv
  <2>6. CASE BanCreator
    <3>1. RoomsInv'
      BY <2>1, <2>6 DEF BanCreator, roomVars, RoomsInv, HubHeld, HubAlone, Reached, Allowed,
                        ClosingHub, Detaching
    <3>2. TruthInv'
      <4>1. creator' # "gone" /\ UNCHANGED <<row, cached, status, th, outdated>>
        BY <2>6 DEF BanCreator, roomVars
      <4>2. Deleted'
        BY <2>1, <4>1 DEF TruthInv, Deleted
      <4>3. Changing' = Changing
        BY <4>1 DEF Changing
      <4> QED
        BY <2>1, <4>1, <4>2, <4>3 DEF TruthInv, CacheTellsTruth
    <3> QED
      BY <2>1, <3>1, <3>2 DEF RoomInv
  <2>7. CASE Expire
    <3>1. Deleted'
      <4>1. th'[Janitor].pc # "evict" /\ \A s \in Threads \ {Janitor} : th'[s] = th[s]
        <5>1. th[Janitor] \in Tasks /\ ThreadsInv
          BY <2>1, ConnThreads DEF TypeInv, ThreadsInv, Fits
        <5>2. [th[Janitor] EXCEPT !.pc = "detach", !.at = cached].pc = "detach"
          BY <5>1 DEF Tasks
        <5> QED
          BY <2>7, <5>1, <5>2, Moves, ConnThreads DEF Expire
      <4> QED
        BY <2>1, <2>7, <4>1, ConnThreads, DeletedStays DEF Expire, TruthInv
    <3>2. TruthInv'
      <4>1. cached' = None
        BY <2>7 DEF Expire
      <4> QED
        BY <3>1, <4>1, NothingCached
    <3> QED
      BY <2>1, <2>7, <3>2, ExpireRooms DEF RoomInv
  <2>8. CASE UNCHANGED vars
    <3>1. RoomsInv'
      BY <2>1, <2>8 DEF vars, roomVars, RoomsInv, HubHeld, HubAlone, Reached, Allowed,
                        ClosingHub, Detaching
    <3>2. TruthInv'
      BY <2>1, <2>8, TruthStays DEF vars, roomVars
    <3> QED
      BY <2>1, <3>1, <3>2 DEF RoomInv
  <2>9. CASE Finished
    BY <2>8, <2>9 DEF Finished
  <2> QED
    BY <2>2, <2>3, <2>4, <2>5, <2>6, <2>7, <2>8, <2>9 DEF Next
<1> QED
  BY <1>1, <1>2, PTL DEF Spec

\* For any number of connections, admins, room objects and hubs, the cached room has the
\* status of its row, unless an operation will tell it, or a load or a change was made of
\* another object in between (rooms.go:61-76, 137-186, room.go:812-823).
THEOREM TruthOfCache == Spec => []CacheTellsTruth
<1>1. RoomInv => CacheTellsTruth
  BY DEF RoomInv, TruthInv
<1> QED
  BY <1>1, RoomsKept, PTL

\* For any number of connections, admins, room objects and hubs, a registered connection is
\* in the hub of its room, or in one that is about to be closed with it, unless the hub was
\* closed between the connection's check and its insertion (room.go:28-39, 88-97, 556-566).
THEOREM NoneStranded == Spec => []NobodyStranded
<1>1. RoomInv => NobodyStranded
  BY DEF RoomInv, RoomsInv, Reached, Watching, NobodyStranded
<1> QED
  BY <1>1, RoomsKept, PTL

\* For any number of connections, admins, room objects and hubs, a connection watches the
\* room that is cached and active, or one that is about to be closed, unless it was past its
\* check when that room was closed (rooms.go:78-135, room.go:812-823, auth.go:156-173).
THEOREM LateRemain == Spec => []OnlyLateRemain
<1>1. RoomInv => OnlyLateRemain
  <2> SUFFICES ASSUME RoomInv, NEW c \in Conns, th[c].pc = "online"
               PROVE  \/ cached = th[c].at /\ status[th[c].at] = "active"
                      \/ ClosingRoom(th[c].at)
                      \/ c \in late
    BY DEF OnlyLateRemain, Watching
  <2>1. Allowed(c) /\ HubAlone /\ c \in Threads
    BY ConnThreads DEF RoomInv, RoomsInv
  <2>2. th[c].hub # None /\ ClosingHub(th[c].hub) => ClosingRoom(th[c].at)
    BY <2>1 DEF HubAlone, ClosingHub, ClosingRoom
  <2>3. Detaching(th[c].at) => ClosingRoom(th[c].at)
    BY DEF Detaching, ClosingRoom
  <2> QED
    BY <2>1, <2>2, <2>3 DEF Allowed
<1> QED
  BY <1>1, RoomsKept, PTL
==============================================================================
