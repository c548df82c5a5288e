-------------------------- MODULE HubClientsProofs ---------------------------
(***************************************************************************)
(* Theorems about HubClients, for all users, connections, callers and      *)
(* objects; and about Client, one of those connections, for every set of   *)
(* goroutines, capacity and bound.                                         *)
(***************************************************************************)
EXTENDS HubClients, Client, TLAPS

\* Who steps is a thread, and the kinds of threads are disjoint.
LEMMA Kinds ==
    /\ \A c \in Conns : c \in Threads /\ c \notin Callers /\ c # Closer /\ UserOf[c] \in Users
    /\ \A k \in Callers : k \in Threads /\ k \notin Conns /\ k # Closer
    /\ Closer \in Threads /\ Closer \notin Conns /\ Closer \notin Callers
    /\ None \notin Objs /\ None \notin Threads
BY HubClientsAssumption DEF Threads

\* What the allocator returns is an address that nothing refers to.
LEMMA Allocated == Fresh # {} => NewSet \in Fresh
BY DEF NewSet

Inv == TypeOK /\ TableProtocol

LEMMA InitInv == Init => Inv
<1> SUFFICES ASSUME Init PROVE Inv
  OBVIOUS
<1>1. TypeOK
  <2>1. \A t \in Threads : pc[t] \in IF t \in Conns THEN ConnSteps
                                   ELSE IF t \in Callers THEN CallerSteps
                                   ELSE CloserSteps
    BY Kinds DEF Init, ConnSteps, CallerSteps, CloserSteps
  <2>2. pc \in [Threads -> ConnSteps \cup CallerSteps \cup CloserSteps]
    BY <2>1 DEF Init
  <2>3. begun \in 0..MaxBegun
    BY HubClientsAssumption DEF Init
  <2> QED
    BY <2>1, <2>2, <2>3 DEF Init, TypeOK
<1>2. \A t \in Threads : pc[t] \in {"new", "idle", "running"}
  BY DEF Init
<1>3. Holding /\ InsertSafe /\ NoLostClient
  BY <1>2, Kinds DEF Holding, InsertSafe, NoLostClient, Online
<1> QED
  BY <1>1, <1>3 DEF Inv, TableProtocol

\* A registering connection keeps the invariant (hub.go:204-233).
LEMMA RegisterInv ==
    ASSUME Inv, NEW c \in Conns, Connect(c) \/ RegStep(c)
    PROVE  Inv'
<1> USE Kinds DEF Inv, TableProtocol, Holding, InsertSafe, NoLostClient, Swept,
        SetOf, Online, Goto, visits
<1>1. CASE RegCheck(c)
  <2>1. TypeOK'
    BY <1>1 DEF RegCheck, TypeOK, Unlocked, ConnSteps
  <2>2. TableProtocol'
    BY <1>1 DEF RegCheck, TypeOK, Unlocked
  <2> QED
    BY <2>1, <2>2
<1>2. CASE RegLoad(c)
  <2>1. TypeOK'
    BY <1>2, Allocated DEF RegLoad, TypeOK, ConnSteps, Fresh
  <2>2. Holding'
    BY <1>2, Allocated DEF RegLoad, TypeOK, Fresh
  <2>3. InsertSafe'
    BY <1>2, Allocated DEF RegLoad, TypeOK, Fresh
  <2>4. NoLostClient'
    BY <1>2, Allocated DEF RegLoad, TypeOK, Fresh, Attached
  <2> QED
    BY <2>1, <2>2, <2>3, <2>4
<1>3. CASE RegLock(c)
  <2>1. TypeOK'
    BY <1>3 DEF RegLock, Lock, TypeOK, ConnSteps
  <2>2. TableProtocol'
    BY <1>3 DEF RegLock, Lock, TypeOK
  <2> QED
    BY <2>1, <2>2
<1>4. CASE RegVerify(c)
  <2>1. TypeOK'
    BY <1>4 DEF RegVerify, TypeOK, ConnSteps
  <2>2. TableProtocol'
    BY <1>4 DEF RegVerify, TypeOK
  <2> QED
    BY <2>1, <2>2
<1>5. CASE RegInsert(c)
  <2>1. TypeOK'
    BY <1>5 DEF RegInsert, TypeOK, ConnSteps, Unlocked
  <2>2. Holding' /\ InsertSafe'
    BY <1>5 DEF RegInsert, TypeOK, Unlocked
  <2>3. NoLostClient'
    BY <1>5 DEF RegInsert, TypeOK
  <2> QED
    BY <2>1, <2>2, <2>3
<1>6. CASE Connect(c)
  <2>1. TypeOK'
    BY <1>6, HubClientsAssumption DEF Connect, Begin, TypeOK, ConnSteps
  <2>2. TableProtocol'
    BY <1>6 DEF Connect, Begin, TypeOK
  <2> QED
    BY <2>1, <2>2
<1> QED
  BY <1>1, <1>2, <1>3, <1>4, <1>5, <1>6 DEF RegStep

\* An unregistering connection keeps the invariant (hub.go:235-263).
LEMMA UnregisterInv ==
    ASSUME Inv, NEW c \in Conns, UnregCheck(c) \/ UnregStep(c)
    PROVE  Inv'
<1> USE Kinds DEF Inv, TableProtocol, Holding, InsertSafe, NoLostClient, Swept,
        SetOf, Online, Goto, visits
<1>1. CASE UnregCheck(c)
  <2>1. TypeOK'
    BY <1>1 DEF UnregCheck, TypeOK, ConnSteps
  <2>2. TableProtocol'
    BY <1>1 DEF UnregCheck, TypeOK
  <2> QED
    BY <2>1, <2>2
<1>2. CASE UnregLoad(c)
  <2>1. TypeOK'
    BY <1>2 DEF UnregLoad, TypeOK, ConnSteps
  <2>2. TableProtocol'
    BY <1>2 DEF UnregLoad, TypeOK
  <2> QED
    BY <2>1, <2>2
<1>3. CASE UnregLock(c)
  <2>1. TypeOK'
    BY <1>3 DEF UnregLock, Lock, TypeOK, ConnSteps
  <2>2. TableProtocol'
    BY <1>3 DEF UnregLock, Lock, TypeOK
  <2> QED
    BY <2>1, <2>2
<1>4. CASE UnregDelete(c)
  <2>1. TypeOK'
    BY <1>4 DEF UnregDelete, TypeOK, ConnSteps, Unlocked
  <2>2. Holding'
    BY <1>4 DEF UnregDelete, TypeOK, Unlocked
  <2>3. InsertSafe'
    BY <1>4 DEF UnregDelete, TypeOK
  <2>4. NoLostClient'
    BY <1>4 DEF UnregDelete, TypeOK
  <2> QED
    BY <2>1, <2>2, <2>3, <2>4
<1>5. CASE CloseClient(c)
  <2>1. TypeOK'
    BY <1>5 DEF CloseClient, TypeOK, ConnSteps
  <2>2. TableProtocol'
    BY <1>5 DEF CloseClient, TypeOK
  <2> QED
    BY <2>1, <2>2
<1> QED
  BY <1>1, <1>2, <1>3, <1>4, <1>5 DEF UnregStep

\* The connection's own Sends, and its reader's Close, leave the table alone (client.go:76-106).
LEMMA OwnInv ==
    ASSUME Inv, NEW c \in Conns, OwnStep(c)
    PROVE  Inv'
<1> USE Kinds DEF Inv, TableProtocol, Holding, InsertSafe, NoLostClient, Swept,
        SetOf, Online, Goto, visits
<1>1. CASE OwnSend(c)
  BY <1>1 DEF OwnSend, TypeOK
<1>2. CASE OwnReturn(c)
  <2>1. TypeOK'
    BY <1>2 DEF OwnReturn, TypeOK, ConnSteps
  <2>2. TableProtocol'
    BY <1>2 DEF OwnReturn, TypeOK
  <2> QED
    BY <2>1, <2>2
<1>3. CASE ReaderClose(c)
  BY <1>3 DEF ReaderClose, TypeOK
<1> QED
  BY <1>1, <1>2, <1>3 DEF OwnStep

\* Counting, kicking and sending keep the invariant (hub.go:76-104, 269-289, 316-350).
LEMMA CallerInv ==
    ASSUME Inv, NEW k \in Callers,
           CallerBegin(k) \/ ReadStep(k) \/ VisitStep(k) \/ SendReturn(k)
    PROVE  Inv'
<1> USE Kinds DEF Inv, TableProtocol, Holding, InsertSafe, NoLostClient, Swept,
        SetOf, Online, Goto, visits
<1>1. CASE CallerBegin(k)
  <2>1. ASSUME NEW u \in Users, CountLoad(k, u) \/ SendLoad(k, u)
        PROVE  Inv'
    <3>1. TypeOK'
      BY <2>1, HubClientsAssumption
         DEF CountLoad, SendLoad, CallerStart, Begin, TypeOK, CallerSteps
    <3>2. TableProtocol'
      BY <2>1 DEF CountLoad, SendLoad, CallerStart, Begin, TypeOK
    <3> QED
      BY <3>1, <3>2
  <2>2. CASE KickCheck(k)
    <3>1. TypeOK'
      BY <2>2, HubClientsAssumption DEF KickCheck, CallerStart, Begin, TypeOK, CallerSteps
    <3>2. TableProtocol'
      BY <2>2 DEF KickCheck, CallerStart, Begin, TypeOK
    <3> QED
      BY <3>1, <3>2
  <2> QED
    BY <1>1, <2>1, <2>2 DEF CallerBegin
<1>2. CASE Count(k)
  <2>1. TypeOK'
    BY <1>2 DEF Count, CallerReturn, TypeOK, CallerSteps
  <2>2. Holding'
    BY <1>2 DEF Count, CallerReturn, TypeOK
  <2>3. InsertSafe'
    BY <1>2 DEF Count, CallerReturn, TypeOK
  <2>4. NoLostClient'
    <3> SUFFICES ASSUME NEW c \in (Online \ shut)'
                 PROVE  (\E o \in Objs : c \in members[o] /\ o \in {SetOf(c)} \cup Swept)'
      OBVIOUS
    <3>1. c \in Conns /\ c \in Online \ shut
      BY <1>2 DEF Count, CallerReturn, TypeOK
    <3>2. PICK o \in Objs : c \in members[o] /\ o \in {SetOf(c)} \cup Swept
      BY <3>1
    <3>3. Swept' = Swept /\ members' = members
      BY <1>2 DEF Count, CallerReturn, TypeOK
    <3>4. SetOf(c) = o => SetOf(c)' = o
      BY <1>2, <3>1, <3>2 DEF Count
    <3> QED
      BY <3>2, <3>3, <3>4
  <2> QED
    BY <2>1, <2>2, <2>3, <2>4
<1>3. CASE KickLock(k) \/ SendLock(k)
  <2>1. TypeOK'
    BY <1>3 DEF KickLock, SendLock, ReadLock, TypeOK, CallerSteps
  <2>2. TableProtocol'
    BY <1>3 DEF KickLock, SendLock, ReadLock, TypeOK
  <2> QED
    BY <2>1, <2>2
<1>4. ASSUME NEW u \in Users, KickLoad(k, u)
      PROVE  Inv'
  <2>1. TypeOK'
    BY <1>4 DEF KickLoad, TypeOK, CallerSteps
  <2>2. TableProtocol'
    BY <1>4 DEF KickLoad, TypeOK
  <2> QED
    BY <2>1, <2>2
<1>5. CASE KickClose(k)
  <2>1. TypeOK'
    BY <1>5 DEF KickClose, FlagClient, TypeOK
  <2>2. TableProtocol'
    BY <1>5 DEF KickClose, FlagClient, TypeOK
  <2> QED
    BY <2>1, <2>2
<1>6. CASE KickWait(k) \/ SendNext(k) \/ SendReturn(k)
  <2>1. TypeOK'
    BY <1>6 DEF KickWait, Waited, SendNext, SendReturn, TypeOK
  <2>2. TableProtocol'
    BY <1>6 DEF KickWait, Waited, SendNext, SendReturn, TypeOK
  <2> QED
    BY <2>1, <2>2
<1>7. CASE KickEnd(k) \/ SendEnd(k)
  <2>1. TypeOK'
    BY <1>7 DEF KickEnd, SendEnd, CallerReturn, TypeOK, CallerSteps
  <2>2. TableProtocol'
    BY <1>7 DEF KickEnd, SendEnd, CallerReturn, TypeOK
  <2> QED
    BY <2>1, <2>2
<1> QED
  BY <1>1, <1>2, <1>3, <1>4, <1>5, <1>6, <1>7 DEF ReadStep, VisitStep

\* Closing the hub keeps the invariant (hub.go:156-174).
LEMMA CloserInv ==
    ASSUME Inv, CloseSwap \/ CloserStep
    PROVE  Inv'
<1> USE Kinds DEF Inv, TableProtocol, Holding, InsertSafe, NoLostClient, Swept,
        SetOf, Online, Goto, visits
<1>1. CASE CloseSwap
  BY <1>1 DEF CloseSwap, TypeOK, CloserSteps
<1>2. ASSUME NEW u \in Users, CloseDetach(u)
      PROVE  Inv'
  <2>1. TypeOK'
    BY <1>2 DEF CloseDetach, TypeOK, CloserSteps
  <2>2. Holding'
    BY <1>2 DEF CloseDetach, TypeOK
  <2>3. InsertSafe'
    BY <1>2 DEF CloseDetach, TypeOK
  <2>4. NoLostClient'
    BY <1>2 DEF CloseDetach, TypeOK
  <2> QED
    BY <2>1, <2>2, <2>3, <2>4
<1>3. CASE SweepLock
  <2>1. TypeOK'
    BY <1>3 DEF SweepLock, TypeOK, CloserSteps
  <2>2. TableProtocol'
    BY <1>3 DEF SweepLock, TypeOK
  <2> QED
    BY <2>1, <2>2
<1>4. CASE SweepClose
  <2>1. TypeOK'
    BY <1>4 DEF SweepClose, FlagClient, TypeOK
  <2>2. Holding' /\ InsertSafe'
    BY <1>4 DEF SweepClose, TypeOK
  <2>3. NoLostClient'
    BY <1>4 DEF SweepClose, FlagClient, TypeOK
  <2> QED
    BY <2>1, <2>2, <2>3
<1>5. CASE SweepWait
  BY <1>5 DEF SweepWait, Waited, TypeOK
<1>6. CASE SweepEnd
  <2>1. TypeOK'
    BY <1>6 DEF SweepEnd, TypeOK, CloserSteps
  <2>2. \A c \in Conns : pc[c] \in {"verify", "insert", "delete"} => at[c] # at[Closer]
    BY <1>6 DEF SweepEnd
  <2>3. Holding' /\ InsertSafe'
    BY <1>6, <2>2 DEF SweepEnd, TypeOK
  <2>4. NoLostClient'
    BY <1>6 DEF SweepEnd, TypeOK
  <2> QED
    BY <2>1, <2>3, <2>4
<1>7. CASE CloseEnd
  BY <1>7 DEF CloseEnd, TypeOK, CloserSteps
<1> QED
  BY <1>1, <1>2, <1>3, <1>4, <1>5, <1>6, <1>7 DEF CloserStep

LEMMA InvStep == Inv /\ [Next]_vars => Inv'
<1>1. ASSUME Inv, UNCHANGED vars
      PROVE  Inv'
  BY <1>1 DEF Inv, vars, visits, TypeOK, TableProtocol, Holding, InsertSafe, NoLostClient,
              Swept, SetOf, Online
<1> QED
  BY <1>1, RegisterInv, OwnInv, UnregisterInv, CallerInv, CloserInv DEF Next

LEMMA InvAlways == Spec => []Inv
BY InitInv, InvStep, PTL DEF Spec

\* The variables of the hub's table keep their types.
THEOREM TypeCorrect == Spec => []TypeOK
BY InvAlways, PTL DEF Inv

\* No registered connection is ever lost to broadcasts and kicks, however many
\* users, connections, callers and sets there are (hub.go:204-233).
THEOREM NobodyLost == Spec => []NoLostClient
BY InvAlways, PTL DEF Inv, TableProtocol

-----------------------------------------------------------------------------
(* Which set is whose. *)

\* No set is listed for two users, and whoever has loaded a set that is in the map has
\* loaded it for the user it is listed for.
OneOwner ==
    /\ \A u, v \in Users : table[u] = table[v] /\ table[u] # None => u = v
    /\ \A c \in Conns, u \in Users : at[c] = table[u] /\ at[c] # None => UserOf[c] = u

\* The hub closes with its flag set, and the set that Close empties has left the map.
ClosingOut ==
    /\ pc[Closer] # "running" => closed
    /\ pc[Closer] \in {"sweep", "sweeping"} => at[Closer] \notin Attached

\* A connection that is registering is in no set, and is not awaited by a kick.
NotYetThere ==
    /\ \A c \in Registering, o \in Objs : c \notin members[o]
    /\ \A c \in Registering, k \in Callers : c \notin due[k]

\* An empty set in the map has been loaded by a connection that will be put in it.
Expected ==
    \A u \in Users : (table[u] # None /\ members[table[u]] = {}) =>
        \E c \in Conns : at[c] = table[u] /\ pc[c] \in {"lock", "verify", "insert"}

\* A kick finds whom it has to close in the set it has loaded, and then among those it has
\* yet to visit, or Close will close them.
KickFinds ==
    \A k \in Callers : \A c \in (due[k] \cap Online) \ shut :
        /\ pc[k] = "kick" => c \in members[at[k]] \/ \E o \in Swept : c \in members[o]
        /\ pc[k] = "kicking" => c \in rest[k] \/ \E o \in Swept : c \in members[o]

Ownership == OneOwner /\ ClosingOut /\ NotYetThere /\ Expected /\ KickFinds

LEMMA InitOwnership == Init => Ownership
<1> SUFFICES ASSUME Init PROVE Ownership
  OBVIOUS
<1>1. \A t \in Threads : pc[t] \in {"new", "idle", "running"} /\ at[t] = None
  BY DEF Init
<1>2. pc[Closer] = "running" /\ \A k \in Callers : pc[k] = "idle"
  BY Kinds DEF Init
<1> QED
  BY <1>1, <1>2, Kinds
     DEF Init, Ownership, OneOwner, ClosingOut, NotYetThere, Expected, KickFinds

\* Registering: only the address that RegLoad allocates is new, and nobody has loaded it
\* (hub.go:204-233).
LEMMA RegisterOwnership ==
    ASSUME Inv, Ownership, NEW c \in Conns, Connect(c) \/ RegStep(c)
    PROVE  Ownership'
<1> USE Kinds DEF Inv, Ownership, TypeOK, Registering, Online, SetOf, Attached, Swept, Goto
<1>1. CASE RegCheck(c)
  <2>1. OneOwner'
    BY <1>1 DEF RegCheck, OneOwner
  <2>2. ClosingOut'
    BY <1>1 DEF RegCheck, ClosingOut
  <2>3. NotYetThere'
    BY <1>1 DEF RegCheck, NotYetThere
  <2>4. Expected'
    BY <1>1 DEF RegCheck, Expected
  <2>5. KickFinds'
    BY <1>1 DEF RegCheck, visits, KickFinds
  <2> QED
    BY <2>1, <2>2, <2>3, <2>4, <2>5
<1>2. CASE RegLoad(c)
  <2>1. OneOwner'
    BY <1>2, Allocated DEF RegLoad, Fresh, OneOwner
  <2>2. ClosingOut'
    BY <1>2, Allocated DEF RegLoad, Fresh, ClosingOut
  <2>3. NotYetThere'
    BY <1>2, Allocated DEF RegLoad, Fresh, NotYetThere
  <2>4. Expected'
    BY <1>2, Allocated DEF RegLoad, Fresh, Expected
  <2>5. KickFinds'
    BY <1>2, Allocated DEF RegLoad, Fresh, visits, KickFinds
  <2> QED
    BY <2>1, <2>2, <2>3, <2>4, <2>5
<1>3. CASE RegLock(c)
  <2>1. OneOwner'
    BY <1>3 DEF RegLock, Lock, OneOwner
  <2>2. ClosingOut'
    BY <1>3 DEF RegLock, Lock, ClosingOut
  <2>3. NotYetThere'
    BY <1>3 DEF RegLock, Lock, NotYetThere
  <2>4. Expected'
    BY <1>3 DEF RegLock, Lock, Expected
  <2>5. KickFinds'
    BY <1>3 DEF RegLock, Lock, visits, KickFinds
  <2> QED
    BY <2>1, <2>2, <2>3, <2>4, <2>5
<1>4. CASE RegVerify(c)
  <2>1. OneOwner'
    BY <1>4 DEF RegVerify, OneOwner
  <2>2. ClosingOut'
    BY <1>4 DEF RegVerify, ClosingOut
  <2>3. NotYetThere'
    BY <1>4 DEF RegVerify, NotYetThere
  <2>4. Expected'
    <3> SUFFICES ASSUME NEW u \in Users, table'[u] # None, members'[table'[u]] = {}
                 PROVE  \E d \in Conns : at'[d] = table'[u] /\ pc'[d] \in {"lock", "verify", "insert"}
      BY DEF Expected
    <3>1. PICK d \in Conns : at[d] = table[u] /\ pc[d] \in {"lock", "verify", "insert"}
      BY <1>4 DEF RegVerify, Expected
    <3>2. d = c => SetOf(c) = at[c]
      BY <1>4, <3>1 DEF RegVerify, OneOwner
    <3> QED
      BY <1>4, <3>1, <3>2 DEF RegVerify
  <2>5. KickFinds'
    BY <1>4 DEF RegVerify, visits, KickFinds
  <2> QED
    BY <2>1, <2>2, <2>3, <2>4, <2>5
<1>5. CASE RegInsert(c)
  <2>1. OneOwner'
    BY <1>5 DEF RegInsert, OneOwner
  <2>2. ClosingOut'
    BY <1>5 DEF RegInsert, ClosingOut
  <2>3. NotYetThere'
    BY <1>5 DEF RegInsert, NotYetThere
  <2>4. Expected'
    <3> SUFFICES ASSUME NEW u \in Users, table'[u] # None, members'[table'[u]] = {}
                 PROVE  \E d \in Conns : at'[d] = table'[u] /\ pc'[d] \in {"lock", "verify", "insert"}
      BY DEF Expected
    <3>1. at[c] # table[u]
      BY <1>5 DEF RegInsert
    <3>2. members[table[u]] = {}
      BY <1>5, <3>1 DEF RegInsert
    <3>3. PICK d \in Conns : at[d] = table[u] /\ pc[d] \in {"lock", "verify", "insert"}
      BY <1>5, <3>2 DEF RegInsert, Expected
    <3> QED
      BY <1>5, <3>1, <3>3 DEF RegInsert
  <2>5. KickFinds'
    <3>1. ASSUME NEW j \in Callers, NEW d \in due'[j], d \in Online'
          PROVE  d # c /\ d \in due[j] /\ d \in Online /\ pc'[j] = pc[j] /\ at'[j] = at[j]
      BY <1>5, <3>1 DEF RegInsert, NotYetThere
    <3>2. Swept' = Swept /\ rest' = rest /\ shut' = shut
      BY <1>5 DEF RegInsert, visits
    <3>3. \A o \in Objs : members[o] \subseteq members'[o]
      BY <1>5 DEF RegInsert
    <3>4. Swept \subseteq Objs /\ \A j \in Callers : pc[j] = "kick" => at[j] \in Objs
      OBVIOUS
    <3> HIDE DEF Swept, Online
    <3> QED
      BY <3>1, <3>2, <3>3, <3>4 DEF KickFinds
  <2> QED
    BY <2>1, <2>2, <2>3, <2>4, <2>5
<1>6. CASE Connect(c)
  <2>1. OneOwner' /\ ClosingOut'
    BY <1>6 DEF Connect, Begin, OneOwner, ClosingOut
  <2>2. NotYetThere'
    BY <1>6 DEF Connect, Begin, NotYetThere
  <2>3. Expected'
    BY <1>6 DEF Connect, Begin, Expected
  <2>4. KickFinds'
    BY <1>6 DEF Connect, Begin, visits, KickFinds
  <2> QED
    BY <2>1, <2>2, <2>3, <2>4
<1> QED
  BY <1>1, <1>2, <1>3, <1>4, <1>5, <1>6 DEF RegStep

\* Unregistering takes a set out of the map exactly when it becomes empty (hub.go:235-263).
LEMMA UnregisterOwnership ==
    ASSUME Inv, Ownership, NEW c \in Conns, UnregCheck(c) \/ UnregStep(c)
    PROVE  Ownership'
<1> USE Kinds DEF Inv, Ownership, TypeOK, Registering, Online, SetOf, Attached, Swept, Goto
<1>1. CASE UnregCheck(c)
  <2>1. OneOwner'
    BY <1>1 DEF UnregCheck, OneOwner
  <2>2. ClosingOut'
    BY <1>1 DEF UnregCheck, ClosingOut
  <2>3. NotYetThere'
    BY <1>1 DEF UnregCheck, NotYetThere
  <2>4. Expected'
    BY <1>1 DEF UnregCheck, Expected
  <2>5. KickFinds'
    BY <1>1 DEF UnregCheck, visits, KickFinds
  <2> QED
    BY <2>1, <2>2, <2>3, <2>4, <2>5
<1>2. CASE UnregLoad(c)
  <2>1. OneOwner'
    BY <1>2 DEF UnregLoad, OneOwner
  <2>2. ClosingOut'
    BY <1>2 DEF UnregLoad, ClosingOut
  <2>3. NotYetThere'
    BY <1>2 DEF UnregLoad, NotYetThere
  <2>4. Expected'
    BY <1>2 DEF UnregLoad, Expected
  <2>5. KickFinds'
    BY <1>2 DEF UnregLoad, visits, KickFinds
  <2> QED
    BY <2>1, <2>2, <2>3, <2>4, <2>5
<1>3. CASE UnregLock(c)
  <2>1. OneOwner'
    BY <1>3 DEF UnregLock, Lock, OneOwner
  <2>2. ClosingOut'
    BY <1>3 DEF UnregLock, Lock, ClosingOut
  <2>3. NotYetThere'
    BY <1>3 DEF UnregLock, Lock, NotYetThere
  <2>4. Expected'
    BY <1>3 DEF UnregLock, Lock, Expected
  <2>5. KickFinds'
    BY <1>3 DEF UnregLock, Lock, visits, KickFinds
  <2> QED
    BY <2>1, <2>2, <2>3, <2>4, <2>5
<1>4. CASE UnregDelete(c)
  <2>1. OneOwner'
    BY <1>4 DEF UnregDelete, OneOwner
  <2>2. ClosingOut'
    BY <1>4 DEF UnregDelete, ClosingOut
  <2>3. NotYetThere'
    BY <1>4 DEF UnregDelete, NotYetThere
  <2>4. Expected'
    <3> SUFFICES ASSUME NEW u \in Users, table'[u] # None, members'[table'[u]] = {}
                 PROVE  \E d \in Conns : at'[d] = table'[u] /\ pc'[d] \in {"lock", "verify", "insert"}
      BY DEF Expected
    <3>1. table[u] # None /\ table'[u] = table[u] /\ at[c] \in Objs
      BY <1>4 DEF UnregDelete
    <3>2. members[table[u]] = {}
      <4>1. CASE table[u] = at[c]
        <5>1. u = UserOf[c] /\ members'[at[c]] = members[at[c]] \ {c}
          BY <1>4, <3>1, <4>1 DEF UnregDelete, OneOwner
        <5>2. c \notin members[at[c]]
          BY <1>4, <3>1, <4>1, <5>1 DEF UnregDelete
        <5> QED
          BY <3>1, <4>1, <5>1, <5>2
      <4>2. CASE table[u] # at[c]
        BY <1>4, <3>1, <4>2 DEF UnregDelete
      <4> QED
        BY <4>1, <4>2
    <3>3. PICK d \in Conns : at[d] = table[u] /\ pc[d] \in {"lock", "verify", "insert"}
      BY <3>1, <3>2 DEF Expected
    <3> QED
      BY <1>4, <3>1, <3>3 DEF UnregDelete
  <2>5. KickFinds'
    BY <1>4 DEF UnregDelete, visits, KickFinds
  <2> QED
    BY <2>1, <2>2, <2>3, <2>4, <2>5
<1>5. CASE CloseClient(c)
  <2>1. OneOwner'
    BY <1>5 DEF CloseClient, OneOwner
  <2>2. ClosingOut'
    BY <1>5 DEF CloseClient, ClosingOut
  <2>3. NotYetThere'
    BY <1>5 DEF CloseClient, NotYetThere
  <2>4. Expected'
    BY <1>5 DEF CloseClient, Expected
  <2>5. KickFinds'
    BY <1>5 DEF CloseClient, visits, KickFinds
  <2> QED
    BY <2>1, <2>2, <2>3, <2>4, <2>5
<1> QED
  BY <1>1, <1>2, <1>3, <1>4, <1>5 DEF UnregStep

\* The connection's own Sends and its reader's Close take nobody away who is due to be closed
\* (client.go:76-106).
LEMMA OwnOwnership ==
    ASSUME Inv, Ownership, NEW c \in Conns, OwnStep(c)
    PROVE  Ownership'
<1> USE Kinds DEF Inv, Ownership, TypeOK, Registering, Online, SetOf, Attached, Swept, Goto
<1>1. CASE OwnSend(c)
  <2>1. OneOwner'
    BY <1>1 DEF OwnSend, OneOwner
  <2>2. ClosingOut'
    BY <1>1 DEF OwnSend, ClosingOut
  <2>3. NotYetThere'
    BY <1>1 DEF OwnSend, NotYetThere
  <2>4. Expected'
    BY <1>1 DEF OwnSend, Expected
  <2>5. KickFinds'
    BY <1>1 DEF OwnSend, KickFinds
  <2> QED
    BY <2>1, <2>2, <2>3, <2>4, <2>5
<1>2. CASE OwnReturn(c)
  <2>1. OneOwner'
    BY <1>2 DEF OwnReturn, OneOwner
  <2>2. ClosingOut'
    BY <1>2 DEF OwnReturn, ClosingOut
  <2>3. NotYetThere'
    BY <1>2 DEF OwnReturn, NotYetThere
  <2>4. Expected'
    BY <1>2 DEF OwnReturn, Expected
  <2>5. KickFinds'
    BY <1>2 DEF OwnReturn, KickFinds
  <2> QED
    BY <2>1, <2>2, <2>3, <2>4, <2>5
<1>3. CASE ReaderClose(c)
  <2>1. OneOwner'
    BY <1>3 DEF ReaderClose, OneOwner
  <2>2. ClosingOut'
    BY <1>3 DEF ReaderClose, ClosingOut
  <2>3. NotYetThere'
    BY <1>3 DEF ReaderClose, NotYetThere
  <2>4. Expected'
    BY <1>3 DEF ReaderClose, Expected
  <2>5. KickFinds'
    BY <1>3 DEF ReaderClose, visits, KickFinds
  <2> QED
    BY <2>1, <2>2, <2>3, <2>4, <2>5
<1> QED
  BY <1>1, <1>2, <1>3 DEF OwnStep

\* Counting takes out only empty sets, and a kick remembers whom it found
\* (hub.go:76-104, 269-289, 316-350).
LEMMA CallerOwnership ==
    ASSUME Inv, Ownership, NEW k \in Callers,
           CallerBegin(k) \/ ReadStep(k) \/ VisitStep(k) \/ SendReturn(k)
    PROVE  Ownership'
<1> USE Kinds DEF Inv, Ownership, TypeOK, Registering, Online, SetOf, Attached, Swept, Goto
<1>1. ASSUME NEW u \in Users, CountLoad(k, u) \/ SendLoad(k, u)
      PROVE  Ownership'
  <2>1. OneOwner'
    BY <1>1 DEF CountLoad, SendLoad, CallerStart, Begin, visits, OneOwner
  <2>2. ClosingOut'
    BY <1>1 DEF CountLoad, SendLoad, CallerStart, Begin, visits, ClosingOut
  <2>3. NotYetThere'
    BY <1>1 DEF CountLoad, SendLoad, CallerStart, Begin, visits, NotYetThere
  <2>4. Expected'
    BY <1>1 DEF CountLoad, SendLoad, CallerStart, Begin, visits, Expected
  <2>5. KickFinds'
    BY <1>1 DEF CountLoad, SendLoad, CallerStart, Begin, visits, KickFinds
  <2> QED
    BY <2>1, <2>2, <2>3, <2>4, <2>5
<1>2. ASSUME NEW u \in Users, KickLoad(k, u)
      PROVE  Ownership'
  <2>1. OneOwner'
    BY <1>2 DEF KickLoad, OneOwner
  <2>2. ClosingOut'
    BY <1>2 DEF KickLoad, ClosingOut
  <2>3. NotYetThere'
    BY <1>2 DEF KickLoad, NotYetThere
  <2>4. Expected'
    BY <1>2 DEF KickLoad, Expected
  <2>5. KickFinds'
    <3> SUFFICES ASSUME NEW j \in Callers, NEW d \in due'[j], d \in Online', d \notin shut'
                 PROVE  /\ pc'[j] = "kick" =>
                             d \in members'[at'[j]] \/ \E o \in Swept' : d \in members'[o]
                        /\ pc'[j] = "kicking" =>
                             d \in rest'[j] \/ \E o \in Swept' : d \in members'[o]
      BY DEF KickFinds
    <3>1. /\ Swept' = Swept /\ Online' = Online
          /\ UNCHANGED <<table, members, shut, rest>>
      <4>1. pc'[Closer] = pc[Closer] /\ at'[Closer] = at[Closer]
        BY <1>2 DEF KickLoad
      <4>2. \A c \in Conns : pc'[c] = pc[c]
        BY <1>2 DEF KickLoad
      <4> QED
        BY <1>2, <4>1, <4>2 DEF KickLoad, visits
    <3> HIDE DEF Swept, Online
    <3>2. CASE j # k
      <4>1. pc'[j] = pc[j] /\ at'[j] = at[j] /\ d \in due[j]
        BY <1>2, <3>2 DEF KickLoad
      <4>2. d \in (due[j] \cap Online) \ shut
        BY <3>1, <4>1
      <4> QED
        BY <3>1, <4>1, <4>2 DEF KickFinds
    <3>3. CASE j = k /\ table[u] # None
      <4>1. d \in Online /\ UserOf[d] = u /\ at'[k] = table[u] /\ pc'[k] = "kick"
        BY <1>2, <3>3 DEF KickLoad
      <4>2. PICK o \in Objs : d \in members[o] /\ o \in {SetOf(d)} \cup Swept
        BY <3>1, <4>1 DEF TableProtocol, NoLostClient
      <4>3. d \in members[at'[k]] \/ \E p \in Swept : d \in members[p]
        BY <4>1, <4>2
      <4> QED
        BY <3>1, <3>3, <4>1, <4>3
    <3>4. CASE j = k /\ table[u] = None
      BY <1>2, <3>4 DEF KickLoad
    <3> QED
      BY <3>2, <3>3, <3>4
  <2> QED
    BY <2>1, <2>2, <2>3, <2>4, <2>5
<1>3. CASE KickCheck(k)
  <2>1. OneOwner'
    BY <1>3 DEF KickCheck, CallerStart, Begin, visits, OneOwner
  <2>2. ClosingOut'
    BY <1>3 DEF KickCheck, CallerStart, Begin, visits, ClosingOut
  <2>3. NotYetThere'
    BY <1>3 DEF KickCheck, CallerStart, Begin, visits, NotYetThere
  <2>4. Expected'
    BY <1>3 DEF KickCheck, CallerStart, Begin, visits, Expected
  <2>5. KickFinds'
    BY <1>3 DEF KickCheck, CallerStart, Begin, visits, KickFinds
  <2> QED
    BY <2>1, <2>2, <2>3, <2>4, <2>5
<1>4. CASE Count(k)
  <2>1. OneOwner'
    BY <1>4 DEF Count, CallerReturn, visits, OneOwner
  <2>2. ClosingOut'
    BY <1>4 DEF Count, CallerReturn, visits, ClosingOut
  <2>3. NotYetThere'
    BY <1>4 DEF Count, CallerReturn, visits, NotYetThere
  <2>4. Expected'
    BY <1>4 DEF Count, CallerReturn, visits, Expected
  <2>5. KickFinds'
    BY <1>4 DEF Count, CallerReturn, visits, KickFinds
  <2> QED
    BY <2>1, <2>2, <2>3, <2>4, <2>5
<1>5. CASE KickLock(k) \/ SendLock(k)
  <2>1. OneOwner'
    BY <1>5 DEF KickLock, SendLock, ReadLock, OneOwner
  <2>2. ClosingOut'
    BY <1>5 DEF KickLock, SendLock, ReadLock, ClosingOut
  <2>3. NotYetThere'
    BY <1>5 DEF KickLock, SendLock, ReadLock, NotYetThere
  <2>4. Expected'
    BY <1>5 DEF KickLock, SendLock, ReadLock, Expected
  <2>5. KickFinds'
    BY <1>5 DEF KickLock, SendLock, ReadLock, KickFinds
  <2> QED
    BY <2>1, <2>2, <2>3, <2>4, <2>5
<1>6. CASE KickClose(k)
  <2>1. OneOwner'
    BY <1>6 DEF KickClose, FlagClient, OneOwner
  <2>2. ClosingOut'
    BY <1>6 DEF KickClose, FlagClient, ClosingOut
  <2>3. NotYetThere'
    BY <1>6 DEF KickClose, FlagClient, NotYetThere
  <2>4. Expected'
    BY <1>6 DEF KickClose, FlagClient, Expected
  <2>5. KickFinds'
    BY <1>6 DEF KickClose, FlagClient, KickFinds
  <2> QED
    BY <2>1, <2>2, <2>3, <2>4, <2>5
<1>7. CASE KickWait(k) \/ SendNext(k) \/ SendReturn(k)
  <2>1. OneOwner'
    BY <1>7 DEF KickWait, Waited, SendNext, SendReturn, OneOwner
  <2>2. ClosingOut'
    BY <1>7 DEF KickWait, Waited, SendNext, SendReturn, ClosingOut
  <2>3. NotYetThere'
    BY <1>7 DEF KickWait, Waited, SendNext, SendReturn, NotYetThere
  <2>4. Expected'
    BY <1>7 DEF KickWait, Waited, SendNext, SendReturn, Expected
  <2>5. KickFinds'
    BY <1>7 DEF KickWait, Waited, SendNext, SendReturn, KickFinds
  <2> QED
    BY <2>1, <2>2, <2>3, <2>4, <2>5
<1>8. CASE KickEnd(k) \/ SendEnd(k)
  <2>1. OneOwner'
    BY <1>8 DEF KickEnd, SendEnd, CallerReturn, visits, OneOwner
  <2>2. ClosingOut'
    BY <1>8 DEF KickEnd, SendEnd, CallerReturn, visits, ClosingOut
  <2>3. NotYetThere'
    BY <1>8 DEF KickEnd, SendEnd, CallerReturn, visits, NotYetThere
  <2>4. Expected'
    BY <1>8 DEF KickEnd, SendEnd, CallerReturn, visits, Expected
  <2>5. KickFinds'
    BY <1>8 DEF KickEnd, SendEnd, CallerReturn, visits, KickFinds
  <2> QED
    BY <2>1, <2>2, <2>3, <2>4, <2>5
<1> QED
  BY <1>1, <1>2, <1>3, <1>4, <1>5, <1>6, <1>7, <1>8 DEF CallerBegin, ReadStep, VisitStep

\* Close takes every set out of the map before it empties it (hub.go:156-174).
LEMMA CloserOwnership ==
    ASSUME Inv, Ownership, CloseSwap \/ CloserStep
    PROVE  Ownership'
<1> USE Kinds DEF Inv, Ownership, TypeOK, Registering, Online, SetOf, Attached, Swept, Goto
<1>1. CASE CloseSwap
  <2>1. OneOwner'
    BY <1>1 DEF CloseSwap, OneOwner
  <2>2. ClosingOut'
    BY <1>1 DEF CloseSwap, ClosingOut
  <2>3. NotYetThere'
    BY <1>1 DEF CloseSwap, NotYetThere
  <2>4. Expected'
    BY <1>1 DEF CloseSwap, Expected
  <2>5. KickFinds'
    BY <1>1 DEF CloseSwap, visits, KickFinds
  <2> QED
    BY <2>1, <2>2, <2>3, <2>4, <2>5
<1>2. ASSUME NEW u \in Users, CloseDetach(u)
      PROVE  Ownership'
  <2>1. OneOwner'
    BY <1>2 DEF CloseDetach, OneOwner
  <2>2. ClosingOut'
    <3>1. pc[Closer] # "running" /\ closed /\ closed' = closed
      BY <1>2 DEF CloseDetach, ClosingOut
    <3>2. CASE table[u] = None
      BY <1>2, <3>1, <3>2 DEF CloseDetach, ClosingOut
    <3>3. CASE table[u] # None
      <4>1. at'[Closer] = table[u] /\ table'[u] = None /\ \A v \in Users \ {u} : table'[v] = table[v]
        BY <1>2, <3>3 DEF CloseDetach
      <4>2. \A v \in Users : table'[v] # table[u]
        BY <3>3, <4>1 DEF OneOwner
      <4> QED
        BY <3>1, <4>1, <4>2 DEF ClosingOut
    <3> QED
      BY <3>2, <3>3
  <2>3. NotYetThere'
    BY <1>2 DEF CloseDetach, NotYetThere
  <2>4. Expected'
    BY <1>2 DEF CloseDetach, Expected
  <2>5. KickFinds'
    BY <1>2 DEF CloseDetach, visits, KickFinds
  <2> QED
    BY <2>1, <2>2, <2>3, <2>4, <2>5
<1>3. CASE SweepLock
  <2>1. OneOwner'
    BY <1>3 DEF SweepLock, visits, OneOwner
  <2>2. ClosingOut'
    BY <1>3 DEF SweepLock, visits, ClosingOut
  <2>3. NotYetThere'
    BY <1>3 DEF SweepLock, visits, NotYetThere
  <2>4. Expected'
    BY <1>3 DEF SweepLock, visits, Expected
  <2>5. KickFinds'
    BY <1>3 DEF SweepLock, visits, KickFinds
  <2> QED
    BY <2>1, <2>2, <2>3, <2>4, <2>5
<1>4. CASE SweepClose
  <2>1. OneOwner'
    BY <1>4 DEF SweepClose, OneOwner
  <2>2. ClosingOut'
    BY <1>4 DEF SweepClose, ClosingOut
  <2>3. NotYetThere'
    BY <1>4 DEF SweepClose, NotYetThere
  <2>4. Expected'
    <3> SUFFICES ASSUME NEW u \in Users, table'[u] # None, members'[table'[u]] = {}
                 PROVE  \E d \in Conns : at'[d] = table'[u] /\ pc'[d] \in {"lock", "verify", "insert"}
      BY DEF Expected
    <3>1. table' = table /\ table[u] \in Objs /\ table[u] # at[Closer]
      BY <1>4 DEF SweepClose, ClosingOut
    <3>2. members[table[u]] = {}
      BY <1>4, <3>1 DEF SweepClose
    <3>3. PICK d \in Conns : at[d] = table[u] /\ pc[d] \in {"lock", "verify", "insert"}
      BY <3>1, <3>2 DEF Expected
    <3> QED
      BY <1>4, <3>1, <3>3 DEF SweepClose
  <2>5. KickFinds'
    BY <1>4 DEF SweepClose, FlagClient, KickFinds
  <2> QED
    BY <2>1, <2>2, <2>3, <2>4, <2>5
<1>5. CASE SweepWait
  <2>1. OneOwner'
    BY <1>5 DEF SweepWait, Waited, OneOwner
  <2>2. ClosingOut'
    BY <1>5 DEF SweepWait, Waited, ClosingOut
  <2>3. NotYetThere'
    BY <1>5 DEF SweepWait, Waited, NotYetThere
  <2>4. Expected'
    BY <1>5 DEF SweepWait, Waited, Expected
  <2>5. KickFinds'
    BY <1>5 DEF SweepWait, Waited, KickFinds
  <2> QED
    BY <2>1, <2>2, <2>3, <2>4, <2>5
<1>6. CASE SweepEnd
  <2>1. OneOwner'
    BY <1>6 DEF SweepEnd, visits, OneOwner
  <2>2. ClosingOut'
    BY <1>6 DEF SweepEnd, visits, ClosingOut
  <2>3. NotYetThere'
    BY <1>6 DEF SweepEnd, visits, NotYetThere
  <2>4. Expected'
    BY <1>6 DEF SweepEnd, visits, Expected
  <2>5. KickFinds'
    BY <1>6 DEF SweepEnd, visits, KickFinds
  <2> QED
    BY <2>1, <2>2, <2>3, <2>4, <2>5
<1>7. CASE CloseEnd
  <2>1. OneOwner'
    BY <1>7 DEF CloseEnd, visits, OneOwner
  <2>2. ClosingOut'
    BY <1>7 DEF CloseEnd, visits, ClosingOut
  <2>3. NotYetThere'
    BY <1>7 DEF CloseEnd, visits, NotYetThere
  <2>4. Expected'
    BY <1>7 DEF CloseEnd, visits, Expected
  <2>5. KickFinds'
    BY <1>7 DEF CloseEnd, visits, KickFinds
  <2> QED
    BY <2>1, <2>2, <2>3, <2>4, <2>5
<1> QED
  BY <1>1, <1>2, <1>3, <1>4, <1>5, <1>6, <1>7 DEF CloserStep

LEMMA OwnershipStep == Inv /\ Ownership /\ [Next]_vars => Ownership'
<1>1. ASSUME Ownership, UNCHANGED vars
      PROVE  Ownership'
  BY <1>1 DEF vars, visits, Ownership, OneOwner, ClosingOut, NotYetThere, Expected, KickFinds,
              Registering, Online, Attached, Swept
<1> QED
  BY <1>1, RegisterOwnership, OwnOwnership, UnregisterOwnership, CallerOwnership,
     CloserOwnership DEF Next

\* No set of connections is ever listed for two users, and the sets that goroutines have loaded
\* are those of their users, whatever garbage is collected and allocated again (hub.go:156-350).
THEOREM OwnershipKept == Spec => []Ownership
BY InvAlways, InitOwnership, OwnershipStep, PTL DEF Spec

\* Nobody counts as online who is not, or is not about to be (hub.go:265-267, 311-330).
THEOREM NoGhosts == Spec => []NoGhostUser
<1>1. Inv /\ Ownership => NoGhostUser
  <2> SUFFICES ASSUME Inv, Ownership, NEW u \in Users, table[u] # None, members[table[u]] = {}
               PROVE  \E c \in Conns : UserOf[c] = u /\ pc[c] \in {"lock", "verify", "insert"}
    BY DEF NoGhostUser
  <2>1. PICK c \in Conns : at[c] = table[u] /\ pc[c] \in {"lock", "verify", "insert"}
    BY DEF Ownership, Expected
  <2> QED
    BY <2>1 DEF Ownership, OneOwner
<1> QED
  BY <1>1, InvAlways, OwnershipKept, PTL

\* When KickUser returns, everybody it found is closed or in the set Close will empty
\* (hub.go:332-350).
THEOREM KicksClose == Spec => KickCloses
<1>1. Inv /\ Ownership /\ [Next]_vars =>
          [\A k \in Callers : KickEnd(k) =>
              \A c \in (due[k] \cap Online) \ shut' : \E o \in Swept : c \in members[o]]_vars
  <2> SUFFICES ASSUME Ownership, NEW k \in Callers, KickEnd(k),
                      NEW c \in (due[k] \cap Online) \ shut'
               PROVE  \E o \in Swept : c \in members[o]
    OBVIOUS
  <2> QED
    BY DEF KickEnd, Ownership, KickFinds
<1> QED
  BY <1>1, InvAlways, OwnershipKept, PTL DEF Spec, KickCloses

-----------------------------------------------------------------------------
(* The table is the list of Presence. *)

ListedVars == <<closed, Listed, Registering>>

\* What a step means for the list.
LEMMA Means ==
    ASSUME UNCHANGED ListedVars
    PROVE  UNCHANGED P!vars
BY DEF ListedVars, P!vars

LEMMA RegisterMeans ==
    ASSUME Inv, Ownership, NEW c \in Conns, Connect(c) \/ RegStep(c)
    PROVE  [P!Next]_P!vars
<1> USE Kinds DEF Inv, Ownership, TypeOK, SetOf, Goto
<1>0. c \in Registering /\ c \notin Listed
  BY DEF Connect, RegStep, RegCheck, RegLoad, RegLock, Lock, RegVerify, RegInsert, Registering,
         Listed, NotYetThere
<1>1. CASE RegCheck(c)
  <2>1. Listed' = Listed
    BY <1>1 DEF RegCheck, Listed
  <2>2. CASE ~closed
    <3>1. Registering' = Registering
      BY <1>1, <2>2 DEF RegCheck, Registering
    <3> QED
      BY <1>1, <2>1, <2>2, <3>1, Means DEF RegCheck, ListedVars
  <2>3. CASE closed
    <3>1. Registering' = Registering \ {c}
      BY <1>1, <2>3 DEF RegCheck, Registering
    <3>2. P!Refuse(c)
      BY <1>0, <1>1, <2>1, <2>3, <3>1 DEF RegCheck, P!Refuse, P!vars
    <3> QED
      BY <3>2 DEF P!Next
  <2> QED
    BY <2>2, <2>3
<1>2. CASE RegLoad(c)
  <2>1. Registering' = Registering
    BY <1>2 DEF RegLoad, Registering
  <2>2. Listed' = Listed
    <3> SUFFICES ASSUME NEW d \in Conns
                 PROVE  d \in Listed' <=> d \in Listed
      BY DEF Listed
    <3>1. CASE SetOf(c) # None
      BY <1>2, <3>1 DEF RegLoad, Listed
    <3>2. CASE SetOf(c) = None
      BY <1>2, <3>2, Allocated DEF RegLoad, Listed, Fresh, Attached
    <3> QED
      BY <3>1, <3>2
  <2> QED
    BY <1>2, <2>1, <2>2, Means DEF RegLoad, ListedVars
<1>3. CASE RegLock(c) \/ RegVerify(c)
  <2>1. Listed' = Listed /\ Registering' = Registering /\ closed' = closed
    BY <1>3 DEF RegLock, Lock, RegVerify, Listed, Registering
  <2> QED
    BY <2>1, Means DEF ListedVars
<1>4. CASE RegInsert(c)
  <2>1. Registering' = Registering \ {c} /\ closed' = closed
    BY <1>4 DEF RegInsert, Registering
  <2>2. \A d \in Conns \ {c} : d \in Listed' <=> d \in Listed
    BY <1>4 DEF RegInsert, Listed
  <2>3. CASE at[c] = SetOf(c)
    <3>1. c \in Listed'
      BY <1>4, <2>3 DEF RegInsert, Listed
    <3>2. Listed' = Listed \cup {c}
      BY <2>2, <3>1 DEF Listed
    <3>3. P!Join(c)
      BY <1>0, <2>1, <3>2 DEF P!Join
    <3> QED
      BY <3>3 DEF P!Next
  <2>4. CASE at[c] # SetOf(c)
    <3>1. closed
      BY <1>4, <2>4 DEF RegInsert, TableProtocol, InsertSafe, Swept, ClosingOut
    <3>2. c \notin Listed'
      BY <1>0, <1>4, <2>4 DEF RegInsert, Listed
    <3>3. Listed' = Listed
      BY <1>0, <2>2, <3>2 DEF Listed
    <3>4. P!Refuse(c)
      BY <1>0, <2>1, <3>1, <3>3 DEF P!Refuse
    <3> QED
      BY <3>4 DEF P!Next
  <2> QED
    BY <2>3, <2>4
<1>5. CASE Connect(c)
  <2>1. Listed' = Listed /\ Registering' = Registering /\ closed' = closed
    BY <1>5 DEF Connect, Begin, Listed, Registering
  <2> QED
    BY <2>1, Means DEF ListedVars
<1> QED
  BY <1>1, <1>2, <1>3, <1>4, <1>5 DEF RegStep

LEMMA UnregisterMeans ==
    ASSUME Inv, Ownership, NEW c \in Conns, UnregCheck(c) \/ UnregStep(c)
    PROVE  [P!Next]_P!vars
<1> USE Kinds DEF Inv, Ownership, TypeOK, SetOf, Goto
<1>0. Registering' = Registering /\ closed' = closed /\ c \notin Registering
  BY DEF UnregStep, UnregCheck, UnregLoad, UnregLock, Lock, UnregDelete, CloseClient, Registering
<1>1. CASE UnregCheck(c) \/ UnregLoad(c) \/ UnregLock(c) \/ CloseClient(c)
  <2>1. Listed' = Listed
    BY <1>1 DEF UnregCheck, UnregLoad, UnregLock, Lock, CloseClient, Listed
  <2> QED
    BY <1>0, <2>1, Means DEF ListedVars
<1>2. CASE UnregDelete(c)
  <2>1. at[c] \in Objs
    BY <1>2 DEF UnregDelete
  <2>2. ASSUME NEW d \in Conns \ {c}
        PROVE  d \in Listed' <=> d \in Listed
    <3>1. CASE SetOf(d) = at[c]
      <4>1. UserOf[d] = UserOf[c] /\ SetOf(c) = at[c]
        BY <2>1, <3>1 DEF OneOwner
      <4> QED
        BY <1>2, <2>1, <3>1, <4>1 DEF UnregDelete, Listed
    <3>2. CASE SetOf(d) # at[c]
      BY <1>2, <2>1, <3>2 DEF UnregDelete, Listed
    <3> QED
      BY <3>1, <3>2
  <2>3. CASE at[c] = SetOf(c) /\ c \in members[at[c]]
    <3>1. c \in Listed /\ c \notin Listed'
      BY <1>2, <2>1, <2>3 DEF UnregDelete, Listed
    <3>2. Listed' = Listed \ {c}
      BY <2>2, <3>1 DEF Listed
    <3>3. P!Leave(c)
      BY <1>0, <3>1, <3>2 DEF P!Leave
    <3> QED
      BY <3>3 DEF P!Next
  <2>4. CASE ~(at[c] = SetOf(c) /\ c \in members[at[c]])
    <3>1. c \in Listed' <=> c \in Listed
      BY <1>2, <2>1, <2>4 DEF UnregDelete, Listed
    <3>2. Listed' = Listed
      BY <2>2, <3>1 DEF Listed
    <3> QED
      BY <1>0, <3>2, Means DEF ListedVars
  <2> QED
    BY <2>3, <2>4
<1> QED
  BY <1>1, <1>2 DEF UnregStep

LEMMA OwnMeans ==
    ASSUME Inv, NEW c \in Conns, OwnStep(c)
    PROVE  [P!Next]_P!vars
<1>1. Registering' = Registering /\ closed' = closed
  BY Kinds DEF Inv, TypeOK, OwnStep, OwnSend, OwnReturn, ReaderClose, Registering
<1>2. Listed' = Listed
  BY DEF OwnStep, OwnSend, OwnReturn, ReaderClose, Listed, SetOf
<1> QED
  BY <1>1, <1>2, Means DEF ListedVars

LEMMA CallerMeans ==
    ASSUME Inv, NEW k \in Callers,
           CallerBegin(k) \/ ReadStep(k) \/ VisitStep(k) \/ SendReturn(k)
    PROVE  [P!Next]_P!vars
<1> USE Kinds DEF Inv, TypeOK, SetOf, Goto
<1>1. \A c \in Conns : pc'[c] = pc[c]
  <2>1. CASE CallerBegin(k)
    BY <2>1 DEF CallerBegin, CountLoad, SendLoad, KickCheck, CallerStart, Begin
  <2>2. CASE ReadStep(k)
    BY <2>2 DEF ReadStep, Count, CallerReturn, KickLock, SendLock, ReadLock
  <2>3. CASE VisitStep(k) \/ SendReturn(k)
    BY <2>3 DEF VisitStep, KickLoad, KickClose, KickWait, Waited, KickEnd, SendNext, SendEnd,
                CallerReturn, SendReturn
  <2> QED
    BY <2>1, <2>2, <2>3
<1>2. Registering' = Registering
  BY <1>1 DEF Registering
<1>3. closed' = closed /\ Listed' = Listed
  <2>1. CASE Count(k)
    BY <2>1 DEF Count, CallerReturn, Listed
  <2>2. CASE CallerBegin(k)
    BY <2>2 DEF CallerBegin, CountLoad, SendLoad, KickCheck, Listed
  <2>3. CASE KickLock(k) \/ SendLock(k) \/ VisitStep(k) \/ SendReturn(k)
    BY <2>3 DEF KickLock, SendLock, ReadLock, VisitStep, KickLoad, KickClose, KickWait, Waited,
                KickEnd, SendNext, SendEnd, SendReturn, Listed
  <2> QED
    BY <2>1, <2>2, <2>3 DEF ReadStep
<1> QED
  BY <1>2, <1>3, Means DEF ListedVars

LEMMA CloserMeans ==
    ASSUME Inv, Ownership, CloseSwap \/ CloserStep
    PROVE  [P!Next]_P!vars
<1> USE Kinds DEF Inv, Ownership, TypeOK, SetOf, Goto
<1>0. Registering' = Registering
  <2>1. \A c \in Conns : pc'[c] = pc[c]
    BY DEF CloserStep, CloseSwap, CloseDetach, SweepLock, SweepClose, SweepWait, Waited, SweepEnd,
           CloseEnd
  <2> QED
    BY <2>1 DEF Registering
<1>1. CASE CloseSwap
  <2>1. Listed' = Listed
    BY <1>1 DEF CloseSwap, Listed
  <2>2. P!Close
    BY <1>0, <1>1, <2>1 DEF CloseSwap, P!Close
  <2> QED
    BY <2>2 DEF P!Next
<1>2. ASSUME NEW u \in Users, CloseDetach(u)
      PROVE  [P!Next]_P!vars
  <2> DEFINE struck == {c \in Listed : UserOf[c] = u}
  <2>1. closed /\ closed' = closed
    BY <1>2 DEF CloseDetach, ClosingOut
  <2>2. Listed' = Listed \ struck
    <3>1. CASE table[u] = None
      BY <1>2, <3>1 DEF CloseDetach, Listed
    <3>2. CASE table[u] # None
      BY <1>2, <3>2 DEF CloseDetach, Listed
    <3> QED
      BY <3>1, <3>2
  <2>3. \A c \in struck : c \notin Registering
    BY DEF NotYetThere, Listed
  <2>4. P!StrikeOut(u)
    <3>1. (Conns \ (Listed \cup Registering))' = (Conns \ (Listed \cup Registering)) \cup struck
      BY <1>0, <2>2, <2>3 DEF Listed
    <3> QED
      BY <2>1, <2>2, <3>1 DEF P!StrikeOut
  <2> QED
    BY <2>4 DEF P!Next
<1>3. CASE SweepClose
  <2>1. at[Closer] \notin Attached /\ at[Closer] \in Objs
    BY <1>3 DEF SweepClose, ClosingOut
  <2>2. Listed' = Listed
    BY <1>3, <2>1 DEF SweepClose, Listed, Attached
  <2> QED
    BY <1>0, <1>3, <2>2, Means DEF SweepClose, ListedVars
<1>4. CASE SweepLock \/ SweepWait \/ SweepEnd \/ CloseEnd
  <2>1. Listed' = Listed /\ closed' = closed
    BY <1>4 DEF SweepLock, SweepWait, Waited, SweepEnd, CloseEnd, Listed
  <2> QED
    BY <1>0, <2>1, Means DEF ListedVars
<1> QED
  BY <1>1, <1>2, <1>3, <1>4 DEF CloserStep

\* The map of locked sets, with all its interleavings, is the simple list of Presence: every
\* connection is listed at most once in its life, and until the hub closes it is struck out by
\* nobody but itself (hub.go:156-263).
THEOREM TableIsPresence == Spec => ImplementsPresence
<1>1. Init => P!Init
  <2> SUFFICES ASSUME Init PROVE P!Init
    OBVIOUS
  <2>1. Listed = {}
    BY Kinds DEF Init, Listed, SetOf
  <2>2. Registering = Conns
    BY Kinds DEF Init, Registering
  <2> QED
    BY <2>1, <2>2 DEF Init, P!Init
<1>2. Inv /\ Ownership /\ [Next]_vars => [P!Next]_P!vars
  <2>1. ASSUME UNCHANGED vars
        PROVE  [P!Next]_P!vars
    <3>1. UNCHANGED ListedVars
      BY <2>1 DEF vars, ListedVars, Listed, Registering, SetOf
    <3> QED
      BY <3>1, Means
  <2> QED
    BY <2>1, RegisterMeans, OwnMeans, UnregisterMeans, CallerMeans, CloserMeans DEF Next
<1> QED
  BY <1>1, <1>2, InvAlways, OwnershipKept, PTL DEF Spec, ImplementsPresence, P!Spec

-----------------------------------------------------------------------------
(* A client that the hub sends to. *)

\* The wait group's operators stay within wait groups.
LEMMA WaitGroupTypes ==
    ASSUME NEW G, NEW g \in G, NEW w \in WaitGroups(G)
    PROVE  /\ Added(w, g) \in WaitGroups(G)
           /\ Released(w, g) \in WaitGroups(G)
           /\ Blocked(w, g) \in WaitGroups(G)
           /\ Resumed(w, g) \in WaitGroups(G)
BY DEF WaitGroups, Added, Released, Blocked, Resumed

\* What is left of a sequence after its head is taken.
LEMMA TailTypes ==
    ASSUME NEW s \in Seq(Nat), s # <<>>, NEW c \in Nat, Len(s) <= c
    PROVE  Head(s) \in Nat /\ Tail(s) \in Seq(Nat) /\ Len(Tail(s)) <= c
<1>1. Len(Tail(s)) = Len(s) - 1
  OBVIOUS
<1> QED
  BY <1>1

\* A sequence with room for one more element, and that element.
LEMMA AppendTypes ==
    ASSUME NEW s \in Seq(Nat), NEW x \in Nat, NEW c \in Nat, Len(s) < c
    PROVE  Append(s, x) \in Seq(Nat) /\ Len(Append(s, x)) <= c
<1>1. Len(Append(s, x)) = Len(s) + 1
  OBVIOUS
<1> QED
  BY <1>1

\* The variables stay in their types and the buffer within its capacity
\* (client.go:34).
THEOREM ClientTypes == ClientSpec => []ClientTypeOK
<1>1. ASSUME ClientInit PROVE ClientTypeOK
  <2>1. wg \in WaitGroups(Goroutines)
    BY <1>1 DEF ClientInit, IdleGroup, WaitGroups
  <2>2. ch \in Seq(Nat) /\ Len(ch) <= Cap
    BY <1>1, ClientAssumption DEF ClientInit
  <2>3. clientPc \in [Goroutines -> Steps]
    BY <1>1 DEF ClientInit, Steps, WriterSteps
  <2> QED
    BY <1>1, <2>1, <2>2, <2>3 DEF ClientInit, ClientTypeOK
<1>2. ASSUME ClientTypeOK, [ClientNext]_clientVars
      PROVE  ClientTypeOK'
  <2> USE <1>2, ClientAssumption DEF ClientTypeOK, Goes, At, Steps, SendSteps, CloseSteps, WriterSteps
  <2>1. ASSUME NEW g \in Goroutines, SendAdd(g)
        PROVE  ClientTypeOK'
    BY <2>1, WaitGroupTypes DEF SendAdd
  <2>2. ASSUME NEW g \in Goroutines, SendCheck(g)
        PROVE  ClientTypeOK'
    BY <2>2 DEF SendCheck
  <2>3. ASSUME NEW g \in Goroutines, SendPut(g)
        PROVE  ClientTypeOK'
    <3>1. CASE chClosed
      BY <2>3, <3>1 DEF SendPut
    <3>2. CASE ~chClosed
      <4>1. Len(ch) < Cap /\ ch' = Append(ch, msg[g])
        BY <2>3, <3>2 DEF SendPut
      <4>2. ch' \in Seq(Nat) /\ Len(ch') <= Cap
        BY <4>1, AppendTypes
      <4>3. clientPc' \in [Goroutines -> Steps] /\ UNCHANGED panic
        BY <2>3, <3>2 DEF SendPut
      <4> QED
        BY <2>3, <4>2, <4>3 DEF SendPut
    <3> QED
      BY <3>1, <3>2
  <2>4. ASSUME NEW g \in Goroutines, SendDone(g)
        PROVE  ClientTypeOK'
    BY <2>4, WaitGroupTypes DEF SendDone
  <2>5. ASSUME NEW g \in Goroutines, Swap(g)
        PROVE  ClientTypeOK'
    BY <2>5 DEF Swap, AfterClose
  <2>6. ASSUME NEW g \in Goroutines, CloseWait(g)
        PROVE  ClientTypeOK'
    <3>1. wg' \in WaitGroups(Goroutines)
      BY <2>6, WaitGroupTypes DEF CloseWait
    <3> QED
      BY <2>6, <3>1 DEF CloseWait
  <2>7. ASSUME NEW g \in Goroutines, CloseResume(g)
        PROVE  ClientTypeOK'
    <3>1. wg' \in WaitGroups(Goroutines)
      <4>1. Resumed(wg, g) \in WaitGroups(Goroutines)
        BY WaitGroupTypes
      <4> QED
        BY <2>7, <4>1 DEF CloseResume
    <3> QED
      BY <2>7, <3>1 DEF CloseResume
  <2>8. ASSUME NEW g \in Goroutines, CloseChannel(g)
        PROVE  ClientTypeOK'
    BY <2>8 DEF CloseChannel, AfterClose
  <2>9. CASE Receive
    <3>1. CASE ch # <<>> /\ ch' = Tail(ch) /\ msg' = [msg EXCEPT ![Writer] = Head(ch)]
      <4>1. Head(ch) \in Nat /\ Tail(ch) \in Seq(Nat) /\ Len(Tail(ch)) <= Cap
        BY <3>1, TailTypes
      <4> QED
        BY <2>9, <3>1, <4>1 DEF Receive
    <3>2. CASE UNCHANGED <<msg, ch>>
      BY <2>9, <3>2 DEF Receive
    <3> QED
      BY <2>9, <3>1, <3>2 DEF Receive
  <2>10. CASE Write
    BY <2>10 DEF Write
  <2>11. CASE WriteFails
    BY <2>11 DEF WriteFails
  <2>12. CASE Disconnect
    BY <2>12 DEF Disconnect
  <2>13. CASE UNCHANGED clientVars
    BY <2>13 DEF clientVars
  <2> QED
    BY <2>1, <2>2, <2>3, <2>4, <2>5, <2>6, <2>7, <2>8, <2>9, <2>10, <2>11,
       <2>12, <2>13 DEF ClientNext, SendStep, CloseStep, WriterStep
<1> QED
  BY <1>1, <1>2, PTL DEF ClientSpec

-----------------------------------------------------------------------------
\* The closer and the senders keep the close protocol (client.go:82-104).
LEMMA ProtocolStep ==
    ASSUME ClientTypeOK, CloseProtocol, [ClientNext]_clientVars
    PROVE  CloseProtocol'
<1> USE ClientAssumption DEF ClientTypeOK, CloseProtocol, OneCloser, Counted,
        DrainedBeforeClose, Goes, At, SendSteps, CloseSteps
<1>1. ASSUME NEW g \in Goroutines, SendAdd(g)
      PROVE  CloseProtocol'
  BY <1>1 DEF SendAdd, Added, WaitGroups
<1>2. ASSUME NEW g \in Goroutines, SendCheck(g)
      PROVE  CloseProtocol'
  BY <1>2 DEF SendCheck
<1>3. ASSUME NEW g \in Goroutines, SendPut(g)
      PROVE  CloseProtocol'
  <2>1. ~chClosed
    BY <1>3 DEF SendPut
  <2> QED
    BY <1>3, <2>1 DEF SendPut
<1>4. ASSUME NEW g \in Goroutines, SendDone(g)
      PROVE  CloseProtocol'
  BY <1>4 DEF SendDone, Released, WaitGroups
<1>5. ASSUME NEW g \in Goroutines, Swap(g)
      PROVE  CloseProtocol'
  <2>1. OneCloser'
    BY <1>5 DEF Swap, AfterClose
  <2>2. Counted'
    BY <1>5 DEF Swap, AfterClose
  <2>3. DrainedBeforeClose'
    BY <1>5 DEF Swap, AfterClose
  <2> QED
    BY <2>1, <2>2, <2>3
<1>6. ASSUME NEW g \in Goroutines, CloseWait(g)
      PROVE  CloseProtocol'
  <2>1. CASE Quiet(wg) /\ Goes(g, "closing") /\ UNCHANGED wg
    BY <1>6, <2>1 DEF CloseWait, Quiet
  <2>2. CASE Goes(g, "waiting") /\ wg' = Blocked(wg, g)
    <3>1. /\ wg'.holders = wg.holders
          /\ wg'.waiting = wg.waiting \cup {g}
          /\ wg'.woken = wg.woken
      BY <2>2 DEF Blocked, WaitGroups
    <3> QED
      BY <1>6, <2>2, <3>1 DEF CloseWait
  <2> QED
    BY <1>6, <2>1, <2>2 DEF CloseWait
<1>7. ASSUME NEW g \in Goroutines, CloseResume(g)
      PROVE  CloseProtocol'
  <2>1. CASE Quiet(wg) /\ Goes(g, "closing") /\ wg' = Resumed(wg, g)
    <3>1. /\ wg'.holders = wg.holders
          /\ wg'.waiting = wg.waiting
          /\ wg'.woken = wg.woken \ {g}
      BY <2>1 DEF Resumed, WaitGroups
    <3>2. g \notin wg.waiting
      BY <1>7, <2>1 DEF CloseResume, Quiet
    <3> QED
      BY <1>7, <2>1, <3>1, <3>2 DEF CloseResume, Quiet
  <2>2. CASE UNCHANGED <<clientPc, wg>>
    BY <1>7, <2>2 DEF CloseResume
  <2> QED
    BY <1>7, <2>1, <2>2 DEF CloseResume
<1>8. ASSUME NEW g \in Goroutines, CloseChannel(g)
      PROVE  CloseProtocol'
  <2>1. OneCloser'
    BY <1>8 DEF CloseChannel, AfterClose
  <2>2. Counted'
    BY <1>8 DEF CloseChannel, AfterClose
  <2>3. DrainedBeforeClose'
    BY <1>8 DEF CloseChannel, AfterClose
  <2> QED
    BY <2>1, <2>2, <2>3
<1>9. CASE WriterStep
  <2>1. CASE Receive
    <3>1. clientPc[Writer] = "recv" /\ UNCHANGED <<clientClosed, wg, chClosed>>
      BY <2>1 DEF Receive
    <3>2. PICK l \in {"write", "unreg"} : clientPc' = [clientPc EXCEPT ![Writer] = l]
      BY <2>1 DEF Receive
    <3>3. OneCloser'
      BY <3>1, <3>2
    <3>4. Counted'
      BY <3>1, <3>2
    <3>5. DrainedBeforeClose'
      BY <3>1, <3>2
    <3> QED
      BY <3>3, <3>4, <3>5
  <2>2. CASE Write
    BY <1>9, <2>2 DEF Write
  <2>3. CASE WriteFails
    BY <1>9, <2>3 DEF WriteFails
  <2>4. CASE Disconnect
    BY <1>9, <2>4 DEF Disconnect
  <2> QED
    BY <1>9, <2>1, <2>2, <2>3, <2>4 DEF WriterStep
<1>10. CASE UNCHANGED clientVars
  BY <1>10 DEF clientVars
<1> QED
  BY <1>1, <1>2, <1>3, <1>4, <1>5, <1>6, <1>7, <1>8, <1>9, <1>10
  DEF ClientNext, SendStep, CloseStep

\* Under the close protocol no step sends on, or closes, a closed channel.
LEMMA NoPanicStep ==
    ASSUME ClientTypeOK, CloseProtocol, NoChannelPanic, [ClientNext]_clientVars
    PROVE  NoChannelPanic'
<1> USE DEF ClientTypeOK, CloseProtocol, OneCloser, DrainedBeforeClose, NoChannelPanic,
        CloseSteps, At
<1>1. ASSUME NEW g \in Goroutines, SendStep(g)
      PROVE  NoChannelPanic'
  BY <1>1 DEF SendStep, SendAdd, SendCheck, SendPut, SendDone
<1>2. ASSUME NEW g \in Goroutines, CloseStep(g)
      PROVE  NoChannelPanic'
  BY <1>2 DEF CloseStep, Swap, CloseWait, CloseResume, CloseChannel
<1>3. CASE WriterStep
  BY <1>3 DEF WriterStep, Receive, Write, WriteFails, Disconnect
<1>4. CASE UNCHANGED clientVars
  BY <1>4 DEF clientVars
<1> QED
  BY <1>1, <1>2, <1>3, <1>4 DEF ClientNext

\* Every behaviour keeps the close protocol.
THEOREM ProtocolKept == ClientSpec => []CloseProtocol
<1>1. ClientInit => CloseProtocol
  BY DEF ClientInit, CloseProtocol, OneCloser, Counted, DrainedBeforeClose,
         IdleGroup, SendSteps, CloseSteps
<1> QED
  BY <1>1, ClientTypes, ProtocolStep, PTL DEF ClientSpec

\* No interleaving of any number of Sends and Closes sends on a closed channel
\* or closes it twice (client.go:90, 101).
THEOREM ChannelSafe == ClientSpec => []NoChannelPanic
<1>1. ClientInit => NoChannelPanic
  BY DEF ClientInit, NoChannelPanic
<1> QED
  BY <1>1, ClientTypes, ProtocolKept, NoPanicStep, PTL DEF ClientSpec
==============================================================================
