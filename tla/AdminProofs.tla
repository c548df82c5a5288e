----------------------------- MODULE AdminProofs ------------------------------
(* Theorems about Admin, for any number of requests, backends, names and connections. *)
EXTENDS Admin, TLAPS

Changing(a) == th[a].at \in {"build", "write", "publish", "close"}

Setting(a) == th[a].at \in {"save", "apply"}

\* Every backend has a connection of its own.
Apart(t) == \A e, f \in Known(t) : e # f => t[e].conn # t[f].conn

Same(t, r) == \A e \in Endpoints : Info(t[e]) = r[e]

\* The table before the change that a is making.
Before(a) == Switched(table, th[a].turned)

\* One request at a time changes the backends, and holds the lock; a process that does not
\* run does nothing.
OneChange ==
    /\ \A a \in Admins : Changing(a) <=> lock = a
    /\ ~up => \A a \in Admins : th[a] = Idle

\* Between two changes the table, the clients and the connections are what the rows say.
AtRest ==
    (up /\ lock = None) =>
        Same(table, rows) /\ Apart(table) /\ clients = ClientsOf(table) /\ open = ConnsOf(table)

\* Until the new table is published, the old one can be had back.
Preparing(a) ==
    th[a].at \in {"build", "write", "publish"} =>
        /\ Apart(Before(a)) /\ clients = ClientsOf(Before(a))
        /\ open = ConnsOf(Before(a)) \cup th[a].fresh
        /\ th[a].fresh \cap ConnsOf(Before(a)) = {}

\* What a prepares differs from what there is where it aims at.
Prepared(a) ==
    th[a].at \in {"build", "write"} =>
        /\ Same(Before(a), rows)
        /\ \A e \in Endpoints \ th[a].aim : Info(th[a].next[e]) = rows[e]
        /\ (th[a].op = "add" => \A e \in th[a].aim : rows[e] = None) =>
               Apart(th[a].next) /\ ConnsOf(th[a].next) = open \ th[a].old

\* After the write, the rows are what will be, and then is, the table.
Written(a) ==
    th[a].at \in {"publish", "close"} =>
        /\ Same(th[a].next, rows)
        /\ Apart(th[a].next) /\ ConnsOf(th[a].next) = open \ th[a].old

Closing(a) ==
    th[a].at = "close" => table = th[a].next /\ clients = ClientsOf(table)

Checked(a) == th[a].at = "write" => ~Clash(th[a].next)

BackendsInv ==
    /\ OneChange /\ AtRest /\ ~Clash(rows)
    /\ ~up => \A n \in Names : clients[n] = None
    /\ \A a \in Admins : Preparing(a) /\ Prepared(a) /\ Written(a) /\ Closing(a) /\ Checked(a)

-----------------------------------------------------------------------------
(* Tables of backends. *)

\* A backend with a connection is an entry of the table, and is what it was made of.
LEMMA EntryTypes ==
    ASSUME NEW c \in Conns, NEW i \in Infos
    PROVE  Entry(c, i) \in Entries /\ Entry(c, i) # None /\ Entry(c, i).conn = c
           /\ Info(Entry(c, i)) = i
<1>1. Entry(c, i) \in Entries
  BY DEF Entry, Entries, Infos
<1>2. Entry(c, i) # None
  BY <1>1, AdminAssumption
<1>3. Info(Entry(c, i)) = i
  BY <1>2 DEF Entry, Info, Infos
<1> QED
  BY <1>1, <1>2, <1>3 DEF Entry

\* What is known of an entry is nothing exactly if there is no entry.
LEMMA InfoTypes ==
    ASSUME NEW b \in Entries \cup {None}
    PROVE  Info(b) \in Infos \cup {None} /\ (Info(b) = None <=> b = None)
<1>1. CASE b = None
  BY <1>1 DEF Info
<1>2. CASE b # None
  <2>1. Info(b) = [on |-> b.on, name |-> b.name] /\ b \in Entries
    BY <1>2 DEF Info
  <2>2. Info(b) \in Infos
    BY <2>1 DEF Entries, Infos
  <2> QED
    BY <1>2, <2>2, AdminAssumption
<1> QED
  BY <1>1, <1>2

\* A backend that is switched.
LEMMA SwitchedEntry ==
    ASSUME NEW b \in Entries
    PROVE  /\ [b EXCEPT !.on = ~@] \in Entries /\ [b EXCEPT !.on = ~@] # None
           /\ [b EXCEPT !.on = ~@].conn = b.conn
           /\ [[b EXCEPT !.on = ~@] EXCEPT !.on = ~@] = b
<1>1. [b EXCEPT !.on = ~@] \in Entries
  BY DEF Entries
<1>2. [b EXCEPT !.on = ~@] # None
  BY <1>1, AdminAssumption
<1>3. [b EXCEPT !.on = ~@].conn = b.conn
  BY DEF Entries
<1>4. [[b EXCEPT !.on = ~@] EXCEPT !.on = ~@] = b
  BY DEF Entries
<1> QED
  BY <1>1, <1>2, <1>3, <1>4

\* Switching makes a table of a table.
LEMMA SwitchedTypes ==
    ASSUME NEW t \in Tables, NEW E
    PROVE  /\ Switched(t, E) \in Tables /\ Known(Switched(t, E)) = Known(t)
           /\ \A e \in Known(t) : Switched(t, E)[e].conn = t[e].conn
           /\ \A e \in Endpoints \ E : Switched(t, E)[e] = t[e]
<1> DEFINE u == Switched(t, E)
<1>1. ASSUME NEW e \in Endpoints, e \in E \cap Known(t)
      PROVE  u[e] \in Entries /\ u[e] # None /\ u[e].conn = t[e].conn
  <2>1. t[e] \in Entries
    BY <1>1 DEF Known, Tables
  <2> QED
    BY <1>1, <2>1, SwitchedEntry DEF Switched
<1>2. ASSUME NEW e \in Endpoints, e \notin E \cap Known(t)
      PROVE  u[e] = t[e]
  BY <1>2 DEF Switched
<1>3. u \in Tables
  BY <1>1, <1>2 DEF Switched, Tables
<1>4. Known(u) = Known(t)
  BY <1>1, <1>2 DEF Known
<1> QED
  BY <1>1, <1>2, <1>3, <1>4 DEF Known

\* To switch twice changes nothing.
LEMMA SwitchedBack ==
    ASSUME NEW t \in Tables, NEW E
    PROVE  Switched(Switched(t, E), E) = t
<1> DEFINE u == Switched(t, E)
<1>1. Known(u) = Known(t)
  BY SwitchedTypes
<1>2. ASSUME NEW e \in Endpoints
      PROVE  Switched(u, E)[e] = t[e]
  <2>1. CASE e \in E \cap Known(t)
    <3>1. t[e] \in Entries
      BY <2>1 DEF Known, Tables
    <3>2. u[e] = [t[e] EXCEPT !.on = ~@]
      BY <2>1 DEF Switched
    <3>3. Switched(u, E)[e] = [u[e] EXCEPT !.on = ~@]
      BY <1>1, <2>1 DEF Switched
    <3>4. [u[e] EXCEPT !.on = ~@] = [[t[e] EXCEPT !.on = ~@] EXCEPT !.on = ~@]
      BY ONLY <3>2
    <3>5. [[t[e] EXCEPT !.on = ~@] EXCEPT !.on = ~@] = t[e]
      BY <3>1, SwitchedEntry
    <3> QED
      BY ONLY <3>3, <3>4, <3>5
  <2>2. CASE e \notin E \cap Known(t)
    BY <1>1, <2>2 DEF Switched
  <2> QED
    BY <2>1, <2>2
<1>3. Switched(u, E) = [e \in Endpoints |-> Switched(u, E)[e]]
  BY DEF Switched
<1>4. t = [e \in Endpoints |-> t[e]]
  BY DEF Tables
<1> QED
  BY <1>2, <1>3, <1>4

\* A switched table has the same connections.
LEMMA SwitchedConns ==
    ASSUME NEW t \in Tables, NEW E
    PROVE  ConnsOf(Switched(t, E)) = ConnsOf(t) /\ (Apart(Switched(t, E)) <=> Apart(t))
BY SwitchedTypes DEF ConnsOf, Apart

\* The connections of a table are connections.
LEMMA ConnsTypes ==
    ASSUME NEW t \in Tables
    PROVE  ConnsOf(t) \subseteq Conns
BY DEF ConnsOf, Known, Tables, Entries

\* A client is a connection of the table.
LEMMA ClientsTypes ==
    ASSUME NEW t \in Tables
    PROVE  /\ ClientsOf(t) \in [Names -> Conns \cup {None}]
           /\ \A n \in Names : ClientsOf(t)[n] \in ConnsOf(t) \cup {None}
<1>1. ASSUME NEW n \in Names
      PROVE  ClientsOf(t)[n] \in ConnsOf(t) \cup {None}
  <2>1. CASE \E e \in Known(t) : t[e].on /\ t[e].name = n
    <3> DEFINE e == CHOOSE e \in Known(t) : t[e].on /\ t[e].name = n
    <3>1. e \in Known(t)
      BY <2>1
    <3>2. ClientsOf(t)[n] = t[e].conn
      BY <2>1 DEF ClientsOf
    <3> QED
      BY <3>1, <3>2 DEF ConnsOf
  <2>2. CASE ~\E e \in Known(t) : t[e].on /\ t[e].name = n
    BY <2>2 DEF ClientsOf
  <2> QED
    BY <2>1, <2>2
<1>2. ClientsOf(t) \in [Names -> Conns \cup {None}]
  BY <1>1, ConnsTypes DEF ClientsOf
<1> QED
  BY <1>1, <1>2

-----------------------------------------------------------------------------
(* Types. *)

\* The step of a request tells what it is doing.
LEMMA TaskKinds ==
    ASSUME TypeOK, NEW a \in Admins
    PROVE  /\ At(a, "idle") => th[a] = Idle
           /\ Setting(a) => th[a] \in SettingTasks
           /\ Changing(a) => th[a] \in BackendTasks
BY DEF TypeOK, At, Idle, Setting, Changing, SettingTasks, BackendTasks

\* Where a request goes next.
LEMMA GotoTypes ==
    ASSUME TypeOK, NEW a \in Admins, NEW l,
           \/ Setting(a) /\ l = "apply"
           \/ Changing(a) /\ l \in {"write", "publish", "close"},
           Goto(a, l)
    PROVE  /\ th' \in [Admins -> {Idle} \cup SettingTasks \cup BackendTasks]
           /\ th'[a] = [th[a] EXCEPT !.at = l]
           /\ \A b \in Admins \ {a} : th'[b] = th[b]
<1>1. th \in [Admins -> {Idle} \cup SettingTasks \cup BackendTasks]
  BY DEF TypeOK
<1>2. [th[a] EXCEPT !.at = l] \in SettingTasks \cup BackendTasks
  <2>1. CASE Setting(a) /\ l = "apply"
    BY <2>1, TaskKinds DEF SettingTasks
  <2>2. CASE Changing(a) /\ l \in {"write", "publish", "close"}
    BY <2>2, TaskKinds DEF BackendTasks
  <2> QED
    BY <2>1, <2>2
<1> QED
  BY <1>1, <1>2 DEF Goto

\* A request that is over leaves the others as they are.
LEMMA OverTypes ==
    ASSUME TypeOK, NEW a \in Admins, Over(a)
    PROVE  /\ th' \in [Admins -> {Idle} \cup SettingTasks \cup BackendTasks]
           /\ th'[a] = Idle
           /\ \A b \in Admins \ {a} : th'[b] = th[b]
BY DEF TypeOK, Over

\* What is had back has its types.
LEMMA UndoTypes ==
    ASSUME TypeOK, NEW a \in Admins, Undo(a)
    PROVE  table' \in Tables /\ open' \subseteq Conns /\ lock' \in Admins \cup {None}
BY SwitchedTypes DEF Undo, TypeOK

\* The start of a change.
LEMMA ChangeTypes ==
    ASSUME TypeOK, NEW a \in Admins, NEW op \in {"add", "update", "delete", "turn"},
           NEW aim \in SUBSET Endpoints, NEW next \in Tables, NEW fresh \in SUBSET Conns,
           NEW old \in SUBSET Conns, NEW turned \in SUBSET Endpoints,
           Locks(a), Change(a, op, aim, next, fresh, old, turned)
    PROVE  /\ th' \in [Admins -> {Idle} \cup SettingTasks \cup BackendTasks]
           /\ lock' \in Admins \cup {None} /\ ops' \in 0..MaxOps
           /\ th'[a] = [at |-> "build", op |-> op, aim |-> aim, next |-> next,
                        fresh |-> fresh, old |-> old, turned |-> turned]
           /\ \A b \in Admins \ {a} : th'[b] = th[b]
<1>1. [at |-> "build", op |-> op, aim |-> aim, next |-> next,
       fresh |-> fresh, old |-> old, turned |-> turned] \in BackendTasks
  BY DEF BackendTasks
<1>2. th \in [Admins -> {Idle} \cup SettingTasks \cup BackendTasks]
  BY DEF TypeOK
<1>3. ops' \in 0..MaxOps
  BY AdminAssumption DEF TypeOK, Locks, Begins
<1> QED
  BY <1>1, <1>2, <1>3 DEF Change, Locks

\* A completed address is one that has a port.
LEMMA AddressTypes ==
    ASSUME NEW g \in Endpoints \cup Bare
    PROVE  Address(g) \in Endpoints
BY AdminAssumption DEF Address

\* A table with one backend more, or another one.
LEMMA PutTypes ==
    ASSUME NEW t \in Tables, NEW e \in Endpoints, NEW c \in Conns, NEW i \in Infos
    PROVE  [t EXCEPT ![e] = Entry(c, i)] \in Tables
BY EntryTypes DEF Tables

\* The process starts with its types.
LEMMA StartTypes ==
    ASSUME TypeOK, Start
    PROVE  TypeOK'
<1>1. PICK t \in Tables : table' = t /\ clients' = ClientsOf(t) /\ open' = ConnsOf(t)
  BY DEF Start
<1>2. table' \in Tables /\ clients' \in [Names -> Conns \cup {None}] /\ open' \subseteq Conns
  BY <1>1, ClientsTypes, ConnsTypes
<1> QED
  BY <1>2 DEF Start, TypeOK, Settings

\* And stops with them.
LEMMA StopTypes ==
    ASSUME TypeOK, Stop
    PROVE  TypeOK'
<1>1. table' \in Tables /\ clients' \in [Names -> Conns \cup {None}]
  BY DEF Stop, Tables
<1> QED
  BY <1>1 DEF Stop, TypeOK

\* The steps of a Set keep the types.
LEMMA SetStepTypes ==
    ASSUME TypeOK, NEW a \in Admins, SetStep(a)
    PROVE  TypeOK'
<1>1. ASSUME NEW s \in Settings, NEW v \in BOOLEAN, Set(a, s, v)
      PROVE  TypeOK'
  <2>1. [at |-> "save", setting |-> s, to |-> v] \in SettingTasks
    BY DEF SettingTasks
  <2>2. th' \in [Admins -> {Idle} \cup SettingTasks \cup BackendTasks]
    BY <1>1, <2>1 DEF Set, TypeOK
  <2>3. ops' \in 0..MaxOps
    BY <1>1, AdminAssumption DEF Set, Begins, TypeOK
  <2>4. enabled' \in BOOLEAN /\ crossed' \subseteq Settings
    BY <1>1 DEF Set, TypeOK
  <2>5. raced' \in BOOLEAN
    BY <1>1 DEF Set, TypeOK
  <2> QED
    BY <1>1, <2>2, <2>3, <2>4, <2>5 DEF Set, TypeOK, backendVars
<1>2. CASE SaveSetting(a)
  <2>1. Setting(a)
    BY <1>2 DEF SaveSetting, At, Setting
  <2>2. th[a].setting \in Settings /\ th[a].to \in BOOLEAN
    BY <2>1, TaskKinds DEF SettingTasks
  <2>3. stored' \in [Settings -> BOOLEAN]
    BY <1>2, <2>2 DEF SaveSetting, TypeOK
  <2>4. th' \in [Admins -> {Idle} \cup SettingTasks \cup BackendTasks]
    BY <1>2, <2>1, GotoTypes DEF SaveSetting
  <2> QED
    BY <1>2, <2>3, <2>4 DEF SaveSetting, TypeOK, backendVars
<1>3. CASE SaveSettingFails(a)
  <2>1. unsaved' \in BOOLEAN
    BY <1>3 DEF SaveSettingFails, TypeOK
  <2> QED
    BY <1>3, <2>1, OverTypes DEF SaveSettingFails, TypeOK, backendVars
<1>4. CASE Apply(a)
  <2>1. Setting(a)
    BY <1>4 DEF Apply, At, Setting
  <2>2. th[a].setting \in Settings /\ th[a].to \in BOOLEAN
    BY <2>1, TaskKinds DEF SettingTasks
  <2>3. value' \in [Settings -> BOOLEAN]
    BY <1>4, <2>2 DEF Apply, TypeOK
  <2>4. unsaved' \in BOOLEAN
    BY <1>4 DEF Apply, TypeOK
  <2> QED
    BY <1>4, <2>3, <2>4, OverTypes DEF Apply, TypeOK, backendVars
<1> QED
  BY <1>1, <1>2, <1>3, <1>4 DEF SetStep

\* The steps of a change of the backends keep the types.
LEMMA BackendStepTypes ==
    ASSUME TypeOK, NEW a \in Admins, BackendStep(a)
    PROVE  TypeOK'
<1>1. ASSUME NEW g \in Endpoints \cup Bare, NEW i \in Infos, Add(a, g, i)
      PROVE  TypeOK'
  <2>1. PICK c \in Conns \ open :
            /\ open' = open \cup {c}
            /\ Change(a, "add", {Address(g)}, [table EXCEPT ![Address(g)] = Entry(c, i)],
                      {c}, {}, {})
    BY <1>1 DEF Add
  <2>2. [table EXCEPT ![Address(g)] = Entry(c, i)] \in Tables
    BY AddressTypes, PutTypes DEF TypeOK
  <2>3. {Address(g)} \in SUBSET Endpoints /\ {c} \in SUBSET Conns /\ Locks(a)
    BY <1>1, <2>1, AddressTypes DEF Add
  <2>4. /\ th' \in [Admins -> {Idle} \cup SettingTasks \cup BackendTasks]
        /\ lock' \in Admins \cup {None} /\ ops' \in 0..MaxOps
    BY <2>1, <2>2, <2>3, ChangeTypes
  <2>5. open' \subseteq Conns
    BY <2>1 DEF TypeOK
  <2> QED
    BY <1>1, <2>4, <2>5 DEF Add, TypeOK, settingVars
<1>2. ASSUME NEW e \in Endpoints, NEW i \in Infos, Update(a, e, i)
      PROVE  TypeOK'
  <2> DEFINE old == {table[e].conn}
  <2> PICK c \in Conns \ open :
            /\ open' = open \cup {c}
            /\ Change(a, "update", {e}, [table EXCEPT ![e] = Entry(c, i)], {c}, old, {})
    BY <1>2 DEF Update
  <2> DEFINE next == [table EXCEPT ![e] = Entry(c, i)]
  <2>1. next \in Tables
    BY PutTypes DEF TypeOK
  <2>2. old \in SUBSET Conns
    BY <1>2 DEF Update, Known, TypeOK, Tables, Entries
  <2>3. {e} \in SUBSET Endpoints /\ {c} \in SUBSET Conns /\ {} \in SUBSET Endpoints
    OBVIOUS
  <2>4. Locks(a) /\ Change(a, "update", {e}, next, {c}, old, {})
    BY <1>2 DEF Update
  <2> HIDE DEF next, old
  <2>5. /\ th' \in [Admins -> {Idle} \cup SettingTasks \cup BackendTasks]
        /\ lock' \in Admins \cup {None} /\ ops' \in 0..MaxOps
    BY <2>1, <2>2, <2>3, <2>4, ChangeTypes
  <2>6. open' \subseteq Conns
    BY DEF TypeOK
  <2> QED
    BY <1>2, <2>5, <2>6 DEF Update, TypeOK, settingVars
<1>3. ASSUME NEW E \in SUBSET Endpoints, Delete(a, E)
      PROVE  TypeOK'
  <2> DEFINE next == [e \in Endpoints |-> IF e \in E THEN None ELSE table[e]]
  <2> DEFINE old == {table[e].conn : e \in E}
  <2>1. next \in Tables
    BY DEF TypeOK, Tables
  <2>2. old \in SUBSET Conns
    BY <1>3 DEF Delete, Known, TypeOK, Tables, Entries
  <2>3. Locks(a) /\ Change(a, "delete", E, next, {}, old, {})
    BY <1>3 DEF Delete
  <2>4. {} \in SUBSET Conns /\ {} \in SUBSET Endpoints
    OBVIOUS
  <2> HIDE DEF next, old
  <2>5. /\ th' \in [Admins -> {Idle} \cup SettingTasks \cup BackendTasks]
        /\ lock' \in Admins \cup {None} /\ ops' \in 0..MaxOps
    BY <2>1, <2>2, <2>3, <2>4, ChangeTypes
  <2> QED
    BY <1>3, <2>5 DEF Delete, TypeOK, settingVars
<1>4. ASSUME NEW E \in SUBSET Endpoints, NEW on \in BOOLEAN, Turn(a, E, on)
      PROVE  TypeOK'
  <2> DEFINE needed == {e \in E : table[e].on # on}
  <2>1. table' = Switched(table, needed) /\ Change(a, "turn", needed, table', {}, {}, needed)
    BY <1>4 DEF Turn
  <2>2. table' \in Tables
    BY <2>1, SwitchedTypes DEF TypeOK
  <2>3. needed \in SUBSET Endpoints /\ Locks(a)
    BY <1>4 DEF Turn
  <2>4. /\ th' \in [Admins -> {Idle} \cup SettingTasks \cup BackendTasks]
        /\ lock' \in Admins \cup {None} /\ ops' \in 0..MaxOps
    BY <2>1, <2>2, <2>3, ChangeTypes
  <2> QED
    BY <1>4, <2>2, <2>4 DEF Turn, TypeOK, settingVars
<1>5. CASE Build(a)
  <2>1. Changing(a)
    BY <1>5 DEF Build, At, Changing
  <2>2. CASE Clash(th[a].next)
    BY <1>5, <2>2, UndoTypes, OverTypes DEF Build, Undo, TypeOK, settingVars
  <2>3. CASE ~Clash(th[a].next)
    BY <1>5, <2>1, <2>3, GotoTypes DEF Build, TypeOK, settingVars
  <2> QED
    BY <2>2, <2>3
<1>6. CASE Write(a)
  <2>1. Changing(a)
    BY <1>6 DEF Write, At, Changing
  <2>2. th[a].next \in Tables
    BY <2>1, TaskKinds DEF BackendTasks
  <2>3. \A e \in Endpoints : Info(th[a].next[e]) \in Infos \cup {None}
    BY <2>2, InfoTypes DEF Tables
  <2>4. rows' \in [Endpoints -> Infos \cup {None}]
    BY <1>6, <2>3 DEF Write, TypeOK
  <2> QED
    BY <1>6, <2>1, <2>4, GotoTypes DEF Write, TypeOK, settingVars
<1>7. CASE WriteFails(a)
  BY <1>7, UndoTypes, OverTypes DEF WriteFails, Undo, TypeOK, settingVars
<1>8. CASE Publish(a)
  <2>1. Changing(a)
    BY <1>8 DEF Publish, At, Changing
  <2>2. th[a].next \in Tables
    BY <2>1, TaskKinds DEF BackendTasks
  <2> QED
    BY <1>8, <2>1, <2>2, ClientsTypes, GotoTypes DEF Publish, TypeOK, settingVars
<1>9. CASE CloseOld(a)
  <2>1. th' \in [Admins -> {Idle} \cup SettingTasks \cup BackendTasks]
    BY <1>9, OverTypes DEF CloseOld
  <2>2. open' \subseteq Conns /\ lock' \in Admins \cup {None}
    BY <1>9 DEF CloseOld, TypeOK
  <2> QED
    BY <1>9, <2>1, <2>2 DEF CloseOld, TypeOK, settingVars
<1> QED
  BY <1>1, <1>2, <1>3, <1>4, <1>5, <1>6, <1>7, <1>8, <1>9 DEF BackendStep

\* A new database has its types.
LEMMA InitTypes ==
    ASSUME Init
    PROVE  TypeOK
<1>1. table \in Tables
  BY DEF Init, Tables
<1>2. clients \in [Names -> Conns \cup {None}]
  BY <1>1, ClientsTypes DEF Init
<1>3. value \in [Settings -> BOOLEAN] /\ stored \in [Settings -> BOOLEAN]
  BY DEF Init
<1>4. ops \in 0..MaxOps
  BY AdminAssumption DEF Init
<1>5. th \in [Admins -> {Idle} \cup SettingTasks \cup BackendTasks]
  BY DEF Init
<1> QED
  BY <1>1, <1>2, <1>3, <1>4, <1>5 DEF Init, TypeOK

\* Every step keeps the types.
LEMMA NextTypes ==
    ASSUME TypeOK, [Next]_vars
    PROVE  TypeOK'
<1>1. CASE UNCHANGED vars
  BY <1>1 DEF vars, settingVars, backendVars, TypeOK
<1>2. CASE Next
  BY <1>2, StartTypes, StopTypes, SetStepTypes, BackendStepTypes DEF Next
<1> QED
  BY <1>1, <1>2

\* What administrators configure keeps its types, for any number of requests at a time.
THEOREM TypeCorrect == Spec => []TypeOK
<1>1. Init => TypeOK
  BY InitTypes
<1>2. TypeOK /\ [Next]_vars => TypeOK'
  BY NextTypes
<1> QED
  BY <1>1, <1>2, PTL DEF Spec

-----------------------------------------------------------------------------
(* Changes of tables. *)

\* To switch nothing changes nothing.
LEMMA SwitchedNone ==
    ASSUME NEW t \in Tables
    PROVE  Switched(t, {}) = t
<1>1. \A e \in Endpoints : Switched(t, {})[e] = t[e]
  BY DEF Switched
<1>2. Switched(t, {}) = [e \in Endpoints |-> Switched(t, {})[e]]
  BY DEF Switched
<1>3. t = [e \in Endpoints |-> t[e]]
  BY DEF Tables
<1> QED
  BY <1>1, <1>2, <1>3

\* Backend e gets a new connection c.
Put(t, e, c, i) == [t EXCEPT ![e] = Entry(c, i)]

\* It is counted once, and the one it replaces no more.
LEMMA PutConns ==
    ASSUME NEW t \in Tables, Apart(t), NEW e \in Endpoints, NEW c \in Conns, c \notin ConnsOf(t),
           NEW i \in Infos
    PROVE  /\ Apart(Put(t, e, c, i))
           /\ e \notin Known(t) => ConnsOf(Put(t, e, c, i)) = ConnsOf(t) \cup {c}
           /\ e \in Known(t) => ConnsOf(Put(t, e, c, i)) = (ConnsOf(t) \cup {c}) \ {t[e].conn}
           /\ \A f \in Endpoints \ {e} : Put(t, e, c, i)[f] = t[f]
<1> DEFINE n == Put(t, e, c, i)
<1>1. n[e].conn = c /\ n[e] # None /\ \A f \in Endpoints \ {e} : n[f] = t[f]
  BY EntryTypes DEF Tables, Put
<1> HIDE DEF n
<1>2. Known(n) = Known(t) \cup {e}
  BY <1>1 DEF Known
<1>3. \A f \in Known(t) : t[f].conn # c /\ t[f].conn \in ConnsOf(t)
  BY DEF ConnsOf
<1>4. Apart(n)
  BY <1>1, <1>2, <1>3 DEF Apart, Known
<1>5. ASSUME e \notin Known(t)
      PROVE  ConnsOf(n) = ConnsOf(t) \cup {c}
  <2>1. \A f \in Known(t) : n[f].conn = t[f].conn
    BY <1>1, <1>5 DEF Known
  <2>2. ConnsOf(n) = {n[f].conn : f \in Known(t) \cup {e}}
    BY <1>2 DEF ConnsOf
  <2>3. ConnsOf(n) \subseteq ConnsOf(t) \cup {c}
    <3> SUFFICES ASSUME NEW f \in Known(t) \cup {e}
                 PROVE  n[f].conn \in ConnsOf(t) \cup {c}
      BY <2>2
    <3> QED
      BY <1>1, <2>1 DEF ConnsOf
  <2>4. ConnsOf(t) \cup {c} \subseteq ConnsOf(n)
    BY <1>1, <2>1, <2>2 DEF ConnsOf
  <2> QED
    BY <2>3, <2>4
<1>6. ASSUME e \in Known(t)
      PROVE  ConnsOf(n) = (ConnsOf(t) \cup {c}) \ {t[e].conn}
  <2>1. Known(n) = Known(t)
    BY <1>2, <1>6
  <2>2. \A f \in Known(t) \ {e} : n[f].conn = t[f].conn /\ t[f].conn # t[e].conn
    BY <1>1, <1>6 DEF Known, Apart
  <2>3. c # t[e].conn
    BY <1>3, <1>6
  <2> QED
    BY <1>1, <1>6, <2>1, <2>2, <2>3 DEF ConnsOf
<1> QED
  BY <1>1, <1>4, <1>5, <1>6 DEF n

\* Backends that are deleted take their connections, and no others, with them.
LEMMA DropConns ==
    ASSUME NEW t \in Tables, Apart(t), NEW E \in SUBSET Known(t), NEW n,
           n = [e \in Endpoints |-> IF e \in E THEN None ELSE t[e]]
    PROVE  /\ Apart(n)
           /\ ConnsOf(n) = ConnsOf(t) \ {t[e].conn : e \in E}
           /\ \A f \in Endpoints \ E : n[f] = t[f]
<1>1. \A f \in Endpoints \ E : n[f] = t[f]
  OBVIOUS
<1>2. Known(n) = Known(t) \ E
  BY DEF Known
<1>3. \A f \in Known(t) \ E : n[f].conn = t[f].conn
  BY <1>1 DEF Known
<1>4. \A f \in Known(t) \ E, e \in E : t[f].conn # t[e].conn
  BY DEF Apart
<1>5. Apart(n)
  BY <1>2, <1>3 DEF Apart
<1>6. ConnsOf(n) = {t[f].conn : f \in Known(t) \ E}
  BY <1>2, <1>3 DEF ConnsOf
<1>7. ConnsOf(n) = ConnsOf(t) \ {t[e].conn : e \in E}
  <2>1. ConnsOf(n) \subseteq ConnsOf(t) \ {t[e].conn : e \in E}
    <3> SUFFICES ASSUME NEW d \in ConnsOf(n)
                 PROVE  d \in ConnsOf(t) /\ d \notin {t[e].conn : e \in E}
      OBVIOUS
    <3>1. PICK f \in Known(t) \ E : d = t[f].conn
      BY <1>6
    <3> QED
      BY <1>4, <3>1 DEF ConnsOf
  <2>2. ConnsOf(t) \ {t[e].conn : e \in E} \subseteq ConnsOf(n)
    <3> SUFFICES ASSUME NEW d \in ConnsOf(t), d \notin {t[e].conn : e \in E}
                 PROVE  d \in ConnsOf(n)
      OBVIOUS
    <3>1. PICK f \in Known(t) : d = t[f].conn
      BY DEF ConnsOf
    <3>2. f \notin E
      BY <3>1
    <3> QED
      BY <1>6, <3>1, <3>2
  <2> QED
    BY <2>1, <2>2
<1> QED
  BY <1>1, <1>5, <1>7

\* Names clash in a table exactly if they clash in its rows.
LEMMA SameClash ==
    ASSUME NEW t \in Tables, NEW r, Same(t, r), Clash(r)
    PROVE  Clash(t)
<1>1. PICK e \in Known(r), f \in Known(r) : e # f /\ r[e].on /\ r[f].on /\ r[e].name = r[f].name
  BY DEF Clash
<1>2. ASSUME NEW g \in Known(r)
      PROVE  g \in Known(t) /\ r[g].on = t[g].on /\ r[g].name = t[g].name
  <2>1. g \in Endpoints /\ r[g] # None /\ r[g] = Info(t[g])
    BY DEF Known, Same
  <2>2. t[g] # None
    BY <2>1 DEF Info
  <2>3. r[g] = [on |-> t[g].on, name |-> t[g].name]
    BY <2>1, <2>2 DEF Info
  <2> QED
    BY <2>1, <2>2, <2>3 DEF Known
<1>3. /\ e \in Known(t) /\ f \in Known(t) /\ e # f
      /\ t[e].on /\ t[f].on /\ t[e].name = t[f].name
  BY <1>1, <1>2
<1> QED
  BY <1>3 DEF Clash

-----------------------------------------------------------------------------
(* The changes of backends exclude each other. *)

BackendsTypeInv == TypeOK /\ BackendsInv

\* Whoever has the lock, or finds it free, is alone.
LEMMA Alone ==
    ASSUME BackendsTypeInv, NEW a \in Admins, lock \in {a, None}
    PROVE  \A b \in Admins \ {a} : ~Changing(b)
BY AdminAssumption DEF BackendsTypeInv, BackendsInv, OneChange

\* A step of one request, after which the lock is its or free.
LEMMA OneGoesOn ==
    ASSUME BackendsTypeInv, NEW a \in Admins, lock \in {a, None}, lock' \in {a, None}, up',
           \A b \in Admins \ {a} : th'[b] = th[b],
           Changing(a)' <=> lock' = a,
           AtRest', ~Clash(rows'),
           Preparing(a)', Prepared(a)', Written(a)', Closing(a)', Checked(a)'
    PROVE  BackendsInv'
<1>1. \A b \in Admins \ {a} : ~Changing(b)'
  BY Alone DEF Changing
<1>2. OneChange'
  BY <1>1, AdminAssumption DEF OneChange
<1>3. ASSUME NEW b \in Admins
      PROVE  Preparing(b)' /\ Prepared(b)' /\ Written(b)' /\ Closing(b)' /\ Checked(b)'
  <2>1. CASE b = a
    BY <2>1
  <2>2. CASE b # a
    <3>1. th'[b].at \notin {"build", "write", "publish", "close"}
      BY <1>1, <2>2 DEF Changing
    <3> QED
      BY <3>1 DEF Preparing, Prepared, Written, Closing, Checked
  <2> QED
    BY <2>1, <2>2
<1> QED
  BY <1>2, <1>3 DEF BackendsInv

\* A request that gives the lock back when the table is what the rows say.
LEMMA GivesBack ==
    ASSUME BackendsTypeInv, NEW a \in Admins, lock = a, lock' = None, up', Over(a),
           rows' = rows, Same(table', rows), Apart(table'), clients' = ClientsOf(table'),
           open' = ConnsOf(table')
    PROVE  BackendsInv'
<1>1. th'[a] = Idle /\ \A b \in Admins \ {a} : th'[b] = th[b]
  BY OverTypes DEF BackendsTypeInv
<1>2. th'[a].at = "idle"
  BY <1>1 DEF Idle
<1>3. ~Changing(a)' /\ Preparing(a)' /\ Prepared(a)' /\ Written(a)' /\ Closing(a)' /\ Checked(a)'
  BY <1>2 DEF Changing, Preparing, Prepared, Written, Closing, Checked
<1>4. AtRest' /\ ~Clash(rows')
  BY DEF AtRest, BackendsTypeInv, BackendsInv
<1>5. None # a
  BY AdminAssumption
<1> QED
  BY <1>1, <1>3, <1>4, <1>5, OneGoesOn

\* The start of a change.
LEMMA ChangeBegins ==
    ASSUME BackendsTypeInv, NEW a \in Admins, NEW op \in {"add", "update", "delete", "turn"},
           NEW aim \in SUBSET Endpoints, NEW next \in Tables, NEW fresh \in SUBSET Conns,
           NEW old \in SUBSET Conns, NEW turned \in SUBSET Endpoints,
           Locks(a), Change(a, op, aim, next, fresh, old, turned),
           UNCHANGED <<up, rows, clients>>, Switched(table', turned) = table,
           open' = open \cup fresh, fresh \cap open = {},
           \A e \in Endpoints \ aim : Info(next[e]) = Info(table[e]),
           (op = "add" => \A e \in aim : rows[e] = None) =>
               Apart(next) /\ ConnsOf(next) = (open \cup fresh) \ old
    PROVE  BackendsInv'
<1>1. /\ th'[a] = [at |-> "build", op |-> op, aim |-> aim, next |-> next,
                   fresh |-> fresh, old |-> old, turned |-> turned]
      /\ \A b \in Admins \ {a} : th'[b] = th[b]
  BY ChangeTypes DEF BackendsTypeInv
<1>2. up /\ lock = None /\ lock' = a /\ a # None
  BY AdminAssumption DEF Locks, Begins
<1>3. Same(table, rows) /\ Apart(table) /\ clients = ClientsOf(table) /\ open = ConnsOf(table)
  BY <1>2 DEF BackendsTypeInv, BackendsInv, AtRest
<1>4. Before(a)' = table
  BY <1>1 DEF Before
<1>5. Preparing(a)'
  BY <1>1, <1>3, <1>4 DEF Preparing
<1>6. Prepared(a)'
  BY <1>1, <1>3, <1>4 DEF Prepared, Same
<1>7. Changing(a)' /\ Written(a)' /\ Closing(a)' /\ Checked(a)'
  BY <1>1 DEF Changing, Written, Closing, Checked
<1>8. AtRest' /\ ~Clash(rows')
  BY <1>2 DEF AtRest, BackendsTypeInv, BackendsInv
<1> QED
  BY <1>1, <1>2, <1>5, <1>6, <1>7, <1>8, OneGoesOn

-----------------------------------------------------------------------------
(* The steps. *)

\* A change that begins can be had back, and has prepared what it will write.
LEMMA BeginSteps ==
    ASSUME BackendsTypeInv, NEW a \in Admins,
           \/ \E g \in Endpoints \cup Bare, i \in Infos : Add(a, g, i)
           \/ \E e \in Endpoints, i \in Infos : Update(a, e, i)
           \/ \E E \in SUBSET Endpoints : E # {} /\ (Delete(a, E) \/ \E on \in BOOLEAN : Turn(a, E, on))
    PROVE  BackendsInv'
<1> USE DEF BackendsTypeInv
<1>1. ASSUME Locks(a)
      PROVE  /\ Same(table, rows) /\ Apart(table) /\ clients = ClientsOf(table)
             /\ open = ConnsOf(table)
  BY <1>1 DEF Locks, Begins, BackendsInv, AtRest
<1>2. table \in Tables /\ Switched(table, {}) = table
  BY SwitchedNone DEF TypeOK
<1>3. ASSUME NEW g \in Endpoints \cup Bare, NEW i \in Infos, Add(a, g, i)
      PROVE  BackendsInv'
  <2> PICK c \in Conns \ open :
          /\ open' = open \cup {c}
          /\ Change(a, "add", {Address(g)}, [table EXCEPT ![Address(g)] = Entry(c, i)],
                    {c}, {}, {})
    BY <1>3 DEF Add
  <2> DEFINE e == Address(g)
             next == [table EXCEPT ![e] = Entry(c, i)]
  <2>1. e \in Endpoints /\ {e} \in SUBSET Endpoints
    BY AddressTypes
  <2>2. next \in Tables
    BY <1>2, <2>1, PutTypes
  <2>3. /\ Locks(a) /\ Change(a, "add", {e}, next, {c}, {}, {})
        /\ UNCHANGED <<up, rows, clients, table>>
    BY <1>3 DEF Add
  <2>4. Apart(table) /\ open = ConnsOf(table) /\ Same(table, rows)
    BY <1>1, <2>3
  <2>10. next = Put(table, e, c, i)
    BY DEF Put
  <2>11. c \in Conns /\ c \notin ConnsOf(table)
    BY <2>4
  <2> HIDE DEF e, next
  <2>5. /\ Apart(next)
        /\ e \notin Known(table) => ConnsOf(next) = ConnsOf(table) \cup {c}
        /\ \A f \in Endpoints \ {e} : next[f] = table[f]
    BY <1>2, <2>1, <2>4, <2>10, <2>11, PutConns
  <2>6. rows[e] = None => e \notin Known(table)
    <3>1. Info(table[e]) = rows[e] /\ table[e] \in Entries \cup {None}
      BY <1>2, <2>1, <2>4 DEF Same, Tables
    <3> QED
      BY <3>1, InfoTypes DEF Known
  <2>7. (\A f \in {e} : rows[f] = None) =>
            Apart(next) /\ ConnsOf(next) = (open \cup {c}) \ {}
    BY <2>4, <2>5, <2>6
  <2>8. \A f \in Endpoints \ {e} : Info(next[f]) = Info(table[f])
    BY <2>5
  <2>9. {c} \in SUBSET Conns /\ {} \in SUBSET Conns /\ {} \in SUBSET Endpoints /\ {c} \cap open = {}
    OBVIOUS
  <2> QED
    BY <1>2, <2>1, <2>2, <2>3, <2>7, <2>8, <2>9, ChangeBegins
<1>4. ASSUME NEW e \in Endpoints, NEW i \in Infos, Update(a, e, i)
      PROVE  BackendsInv'
  <2> DEFINE old == {table[e].conn}
  <2> PICK c \in Conns \ open :
          /\ open' = open \cup {c}
          /\ Change(a, "update", {e}, [table EXCEPT ![e] = Entry(c, i)], {c}, old, {})
    BY <1>4 DEF Update
  <2> DEFINE next == [table EXCEPT ![e] = Entry(c, i)]
  <2>1. next \in Tables /\ {e} \in SUBSET Endpoints
    BY <1>2, PutTypes
  <2>2. /\ Locks(a) /\ Change(a, "update", {e}, next, {c}, old, {}) /\ e \in Known(table)
        /\ UNCHANGED <<up, rows, clients, table>>
    BY <1>4 DEF Update
  <2>3. old \in SUBSET Conns
    BY <1>2, <2>2 DEF Known, Tables, Entries
  <2>4. Apart(table) /\ open = ConnsOf(table)
    BY <1>1, <2>2
  <2>9. next = Put(table, e, c, i) /\ old = {table[e].conn}
    BY DEF Put
  <2>10. c \in Conns /\ c \notin ConnsOf(table)
    BY <2>4
  <2> HIDE DEF next, old
  <2>5. /\ Apart(next)
        /\ ConnsOf(next) = (ConnsOf(table) \cup {c}) \ old
        /\ \A f \in Endpoints \ {e} : next[f] = table[f]
    BY <1>2, <2>2, <2>4, <2>9, <2>10, PutConns
  <2>6. \A f \in Endpoints \ {e} : Info(next[f]) = Info(table[f])
    BY <2>5
  <2>7. {c} \in SUBSET Conns /\ {} \in SUBSET Endpoints /\ {c} \cap open = {}
    OBVIOUS
  <2>8. Apart(next) /\ ConnsOf(next) = (open \cup {c}) \ old
    BY <2>4, <2>5
  <2> QED
    BY <1>2, <2>1, <2>2, <2>3, <2>6, <2>7, <2>8, ChangeBegins
<1>5. ASSUME NEW E \in SUBSET Endpoints, Delete(a, E)
      PROVE  BackendsInv'
  <2> DEFINE next == [e \in Endpoints |-> IF e \in E THEN None ELSE table[e]]
             old == {table[e].conn : e \in E}
  <2>1. next \in Tables
    BY <1>2 DEF Tables
  <2>2. /\ Locks(a) /\ Change(a, "delete", E, next, {}, old, {}) /\ E \in SUBSET Known(table)
        /\ UNCHANGED <<up, rows, clients, table, open>>
    BY <1>5 DEF Delete
  <2>3. old \in SUBSET Conns
    BY <1>2, <2>2 DEF Known, Tables, Entries
  <2>4. Apart(table) /\ open = ConnsOf(table)
    BY <1>1, <2>2
  <2>5. Apart(next) /\ ConnsOf(next) = ConnsOf(table) \ old /\ \A f \in Endpoints \ E : next[f] = table[f]
    BY <1>2, <2>2, <2>4, DropConns
  <2> HIDE DEF next, old
  <2>6. \A f \in Endpoints \ E : Info(next[f]) = Info(table[f])
    BY <2>5
  <2>7. /\ {} \in SUBSET Conns /\ {} \in SUBSET Endpoints /\ {} \cap open = {}
        /\ open' = open \cup {}
    BY <2>2
  <2>8. Apart(next) /\ ConnsOf(next) = (open \cup {}) \ old
    BY <2>4, <2>5
  <2> QED
    BY <1>2, <2>1, <2>2, <2>3, <2>6, <2>7, <2>8, ChangeBegins
<1>6. ASSUME NEW E \in SUBSET Endpoints, NEW on \in BOOLEAN, Turn(a, E, on)
      PROVE  BackendsInv'
  <2> DEFINE needed == {e \in E : table[e].on # on}
             next == Switched(table, needed)
  <2>1. /\ table' = next /\ Locks(a) /\ Change(a, "turn", needed, table', {}, {}, needed)
        /\ UNCHANGED <<up, rows, clients, open>>
    BY <1>6 DEF Turn
  <2>2. Change(a, "turn", needed, next, {}, {}, needed)
    BY <2>1
  <2>3. Apart(table) /\ open = ConnsOf(table)
    BY <1>1, <2>1
  <2>4. needed \in SUBSET Endpoints
    OBVIOUS
  <2> HIDE DEF needed
  <2>5. /\ next \in Tables /\ Switched(next, needed) = table
        /\ \A f \in Endpoints \ needed : next[f] = table[f]
    BY <1>2, SwitchedTypes, SwitchedBack
  <2>6. Apart(next) /\ ConnsOf(next) = (open \cup {}) \ {}
    BY <1>2, <2>3, SwitchedConns
  <2> HIDE DEF next
  <2>7. Switched(table', needed) = table /\ open' = open \cup {}
    BY <2>1, <2>5
  <2>8. \A f \in Endpoints \ needed : Info(next[f]) = Info(table[f])
    BY <2>5
  <2>9. {} \in SUBSET Conns /\ {} \cap open = {}
    OBVIOUS
  <2> QED
    BY <2>1, <2>2, <2>4, <2>5, <2>6, <2>7, <2>8, <2>9, ChangeBegins
<1> QED
  BY <1>3, <1>4, <1>5, <1>6

\* Who is changing the backends runs, and has the lock.
LEMMA HasLock ==
    ASSUME BackendsTypeInv, NEW a \in Admins, Changing(a)
    PROVE  up /\ lock = a /\ th[a] \in BackendTasks
BY TaskKinds DEF BackendsTypeInv, BackendsInv, OneChange, Changing, Idle

\* An error leaves everything as it was.
LEMMA UndoSteps ==
    ASSUME BackendsTypeInv, NEW a \in Admins, th[a].at \in {"build", "write"}, Undo(a),
           UNCHANGED <<up, rows, clients>>
    PROVE  BackendsInv'
<1>1. Changing(a)
  BY DEF Changing
<1>2. up /\ lock = a
  BY <1>1, HasLock
<1>3. Preparing(a) /\ Prepared(a)
  BY DEF BackendsTypeInv, BackendsInv
<1>4. table' = Before(a) /\ open' = open \ th[a].fresh /\ lock' = None /\ Over(a)
  BY DEF Undo, Before
<1>5. Same(table', rows) /\ Apart(table') /\ clients' = ClientsOf(table')
  BY <1>3, <1>4 DEF Preparing, Prepared
<1>6. open' = ConnsOf(table')
  BY <1>3, <1>4 DEF Preparing
<1> QED
  BY <1>2, <1>4, <1>5, <1>6, GivesBack

\* A change keeps, step by step, what its next step relies on.
LEMMA ChangeSteps ==
    ASSUME BackendsTypeInv, NEW a \in Admins,
           Build(a) \/ Write(a) \/ WriteFails(a) \/ Publish(a) \/ CloseOld(a)
    PROVE  BackendsInv'
<1>0. Changing(a)
  BY DEF Build, Write, WriteFails, Publish, CloseOld, At, Changing
<1>1. up /\ lock = a /\ th[a] \in BackendTasks /\ lock # None
  BY <1>0, HasLock, AdminAssumption
<1>2. Preparing(a) /\ Prepared(a) /\ Written(a) /\ Closing(a) /\ Checked(a) /\ ~Clash(rows)
  BY DEF BackendsTypeInv, BackendsInv
<1>3. ASSUME NEW l \in {"write", "publish", "close"}, Goto(a, l)
      PROVE  /\ th'[a].at = l /\ th'[a].op = th[a].op /\ th'[a].aim = th[a].aim
             /\ th'[a].next = th[a].next /\ th'[a].fresh = th[a].fresh
             /\ th'[a].old = th[a].old /\ th'[a].turned = th[a].turned
             /\ Changing(a)' /\ \A b \in Admins \ {a} : th'[b] = th[b]
  <2>1. th'[a] = [th[a] EXCEPT !.at = l] /\ \A b \in Admins \ {a} : th'[b] = th[b]
    BY <1>0, <1>3, GotoTypes DEF BackendsTypeInv
  <2> QED
    BY <1>1, <2>1 DEF BackendTasks, Changing
<1>4. CASE Build(a)
  <2>1. CASE Clash(th[a].next)
    BY <1>4, <2>1, UndoSteps DEF Build, At
  <2>2. CASE ~Clash(th[a].next)
    <3>1. th[a].at = "build" /\ Goto(a, "write") /\ UNCHANGED <<up, rows, clients, table, open, lock>>
      BY <1>4, <2>2 DEF Build, At
    <3>2. Before(a)' = Before(a)
      BY <1>3, <3>1 DEF Before
    <3>3. Preparing(a)' /\ Prepared(a)' /\ Checked(a)'
      BY <1>2, <1>3, <2>2, <3>1, <3>2 DEF Preparing, Prepared, Checked
    <3>4. Written(a)' /\ Closing(a)' /\ AtRest'
      BY <1>1, <1>3, <3>1 DEF Written, Closing, AtRest
    <3> QED
      BY <1>1, <1>2, <1>3, <3>1, <3>3, <3>4, OneGoesOn
  <2> QED
    BY <2>1, <2>2
<1>5. CASE Write(a)
  <2>1. /\ th[a].at = "write" /\ Accepted(a) /\ Goto(a, "publish")
        /\ UNCHANGED <<up, clients, table, open, lock>>
        /\ rows' = [e \in Endpoints |-> IF e \in th[a].aim THEN Info(th[a].next[e]) ELSE rows[e]]
    BY <1>5 DEF Write, At
  <2>2. Before(a)' = Before(a)
    BY <1>3, <2>1 DEF Before
  <2>3. Same(th[a].next, rows')
    BY <1>2, <2>1 DEF Same, Prepared
  <2>4. ~Clash(rows')
    <3>1. th[a].next \in Tables
      BY <1>1 DEF BackendTasks
    <3> QED
      BY <1>2, <2>1, <2>3, <3>1, SameClash DEF Checked
  <2>5. Preparing(a)'
    BY <1>2, <1>3, <2>1, <2>2 DEF Preparing
  <2>6. Written(a)'
    BY <1>2, <1>3, <2>1, <2>3 DEF Written, Prepared, Accepted
  <2>7. Prepared(a)' /\ Closing(a)' /\ Checked(a)' /\ AtRest'
    BY <1>1, <1>3, <2>1 DEF Prepared, Closing, Checked, AtRest
  <2> QED
    BY <1>1, <1>3, <2>1, <2>4, <2>5, <2>6, <2>7, OneGoesOn
<1>6. CASE WriteFails(a)
  BY <1>6, UndoSteps DEF WriteFails, At
<1>7. CASE Publish(a)
  <2>1. /\ th[a].at = "publish" /\ Goto(a, "close") /\ UNCHANGED <<up, rows, open, lock>>
        /\ table' = th[a].next /\ clients' = ClientsOf(th[a].next)
    BY <1>7 DEF Publish, At
  <2>2. Written(a)' /\ Closing(a)'
    BY <1>2, <1>3, <2>1 DEF Written, Closing
  <2>3. Preparing(a)' /\ Prepared(a)' /\ Checked(a)' /\ AtRest'
    BY <1>1, <1>3, <2>1 DEF Preparing, Prepared, Checked, AtRest
  <2> QED
    BY <1>1, <1>2, <1>3, <2>1, <2>2, <2>3, OneGoesOn
<1>8. CASE CloseOld(a)
  <2>1. /\ th[a].at = "close" /\ Over(a) /\ UNCHANGED <<up, rows, table, clients>>
        /\ open' = open \ th[a].old /\ lock' = None
    BY <1>8 DEF CloseOld, At
  <2>2. /\ Same(table, rows) /\ Apart(table) /\ clients = ClientsOf(table)
        /\ open \ th[a].old = ConnsOf(table)
    BY <1>2, <2>1 DEF Written, Closing
  <2> QED
    BY <1>1, <2>1, <2>2, GivesBack
<1> QED
  BY <1>4, <1>5, <1>6, <1>7, <1>8

\* Settings leave the backends alone.
LEMMA SettingSteps ==
    ASSUME BackendsTypeInv, NEW a \in Admins, SetStep(a)
    PROVE  BackendsInv'
<1>1. UNCHANGED <<up, rows, table, clients, open, lock>>
  BY DEF SetStep, Set, SaveSetting, SaveSettingFails, Apply, backendVars
<1>2. th[a].at \in {"idle", "save", "apply"} /\ up
  <2>1. CASE \E s \in Settings, v \in BOOLEAN : Set(a, s, v)
    BY <2>1 DEF Set, Begins, At
  <2>2. CASE SaveSetting(a) \/ SaveSettingFails(a) \/ Apply(a)
    BY <2>2 DEF SaveSetting, SaveSettingFails, Apply, At, Idle, BackendsTypeInv, BackendsInv, OneChange
  <2> QED
    BY <2>1, <2>2 DEF SetStep
<1>3. th'[a].at \in {"idle", "save", "apply"} /\ \A b \in Admins \ {a} : th'[b] = th[b]
  <2>1. ASSUME NEW s \in Settings, NEW v \in BOOLEAN, Set(a, s, v)
        PROVE  th'[a].at \in {"idle", "save", "apply"} /\ \A b \in Admins \ {a} : th'[b] = th[b]
    BY <2>1 DEF Set, BackendsTypeInv, TypeOK
  <2>2. CASE SaveSetting(a)
    <3>1. Setting(a) /\ Goto(a, "apply")
      BY <2>2 DEF SaveSetting, At, Setting
    <3>2. th'[a] = [th[a] EXCEPT !.at = "apply"] /\ \A b \in Admins \ {a} : th'[b] = th[b]
      BY <3>1, GotoTypes DEF BackendsTypeInv
    <3>3. th[a] \in SettingTasks
      BY <3>1, TaskKinds DEF BackendsTypeInv
    <3> QED
      BY <3>2, <3>3 DEF SettingTasks
  <2>3. CASE SaveSettingFails(a) \/ Apply(a)
    BY <2>3, OverTypes DEF SaveSettingFails, Apply, Idle, BackendsTypeInv
  <2> QED
    BY <2>1, <2>2, <2>3 DEF SetStep
<1>4. \A b \in Admins : Changing(b)' <=> Changing(b)
  BY <1>2, <1>3 DEF Changing
<1>5. OneChange'
  BY <1>1, <1>2, <1>4 DEF OneChange, BackendsTypeInv, BackendsInv
<1>6. AtRest' /\ ~Clash(rows') /\ (~up' => \A n \in Names : clients'[n] = None)
  BY <1>1 DEF AtRest, BackendsTypeInv, BackendsInv
<1>7. ASSUME NEW b \in Admins
      PROVE  Preparing(b)' /\ Prepared(b)' /\ Written(b)' /\ Closing(b)' /\ Checked(b)'
  <2>1. CASE b = a
    BY <1>3, <2>1 DEF Preparing, Prepared, Written, Closing, Checked
  <2>2. CASE b # a
    BY <1>1, <1>3, <2>2
       DEF Preparing, Prepared, Written, Closing, Checked, Before, BackendsTypeInv, BackendsInv
  <2> QED
    BY <2>1, <2>2
<1> QED
  BY <1>5, <1>6, <1>7 DEF BackendsInv

NothingUnderWay ==
    /\ \A a \in Admins : th[a] = Idle
    /\ lock \notin Admins /\ ~Clash(rows) /\ AtRest
    /\ ~up => \A n \in Names : clients[n] = None

\* A process that has just started, or stopped, satisfies the invariant.
LEMMA AllIdle == NothingUnderWay => BackendsInv
<1> SUFFICES ASSUME NothingUnderWay
             PROVE  BackendsInv
  OBVIOUS
<1>1. ASSUME NEW a \in Admins
      PROVE  th[a].at = "idle"
  <2>1. Idle.at = "idle"
    BY DEF Idle
  <2> QED
    BY <2>1 DEF NothingUnderWay
<1>2. OneChange
  BY <1>1 DEF OneChange, Changing, NothingUnderWay
<1> QED
  BY <1>1, <1>2 DEF BackendsInv, Preparing, Prepared, Written, Closing, Checked, NothingUnderWay

\* Start makes the table from the rows.
LEMMA StartSteps ==
    ASSUME BackendsTypeInv, Start
    PROVE  BackendsInv'
<1>1. \A a \in Admins : th'[a] = Idle
  BY DEF Start, BackendsTypeInv, BackendsInv, OneChange
<1>2. lock' \notin Admins
  BY DEF Start, BackendsTypeInv, BackendsInv, OneChange, Changing, Idle
<1>3. AtRest' /\ ~Clash(rows') /\ up'
  BY DEF Start, AtRest, Same, Apart
<1>4. NothingUnderWay'
  BY <1>1, <1>2, <1>3 DEF NothingUnderWay
<1> QED
  BY <1>4, AllIdle, PTL

\* Stop forgets everything but the rows.
LEMMA StopSteps ==
    ASSUME BackendsTypeInv, Stop
    PROVE  BackendsInv'
<1>1. \A a \in Admins : th'[a] = Idle
  BY DEF Stop
<1>2. lock' \notin Admins
  BY AdminAssumption DEF Stop
<1>3. AtRest' /\ ~Clash(rows') /\ \A n \in Names : clients'[n] = None
  BY DEF Stop, AtRest, BackendsTypeInv, BackendsInv
<1>4. NothingUnderWay'
  BY <1>1, <1>2, <1>3 DEF NothingUnderWay
<1> QED
  BY <1>4, AllIdle, PTL

\* Between two changes, and at every step of one, what the next steps rely on holds: the
\* inductive invariant of the backends (vendor.go:68-389).
THEOREM BackendsKept == Spec => []BackendsTypeInv
<1>1. Init => BackendsTypeInv
  <2> SUFFICES ASSUME Init
               PROVE  BackendsTypeInv
    OBVIOUS
  <2>1. TypeOK
    BY InitTypes
  <2>2. Known(table) = {}
    BY DEF Init, Known
  <2>3. AtRest /\ ~Clash(rows) /\ lock \notin Admins /\ \A a \in Admins : th[a] = Idle
    BY AdminAssumption DEF Init, AtRest
  <2>4. \A n \in Names : clients[n] = None
    BY <2>2 DEF Init, ClientsOf
  <2> QED
    BY <2>1, <2>3, <2>4, AllIdle DEF BackendsTypeInv, NothingUnderWay
<1>2. BackendsTypeInv /\ [Next]_vars => BackendsTypeInv'
  <2> SUFFICES ASSUME BackendsTypeInv, [Next]_vars
               PROVE  BackendsTypeInv'
    OBVIOUS
  <2>1. TypeOK'
    BY NextTypes DEF BackendsTypeInv
  <2>2. CASE UNCHANGED vars
    BY <2>1, <2>2
       DEF vars, backendVars, BackendsTypeInv, BackendsInv, OneChange, AtRest, Preparing,
           Prepared, Written, Closing, Checked, Before, Changing
  <2>3. CASE Next
    BY <2>1, <2>3, StartSteps, StopSteps, SettingSteps, BeginSteps, ChangeSteps
       DEF Next, BackendStep, BackendsTypeInv
  <2> QED
    BY <2>2, <2>3
<1> QED
  BY <1>1, <1>2, PTL DEF Spec

\* Whatever is added, changed, switched or deleted by any number of requests, and wherever it
\* fails or the process stops, the server can start again (vendor.go:68-87, 459-476).
THEOREM CanStartAgain == Spec => []StartsAgain
<1>1. BackendsTypeInv => StartsAgain
  BY DEF BackendsTypeInv, BackendsInv, StartsAgain
<1> QED
  BY <1>1, BackendsKept, PTL

\* Nobody is given a client whose connection is closed, and after every change, also one
\* that failed, the connections and clients are the rows' (vendor.go:124-389).
THEOREM Served == Spec => []BackendsServed
<1>1. ASSUME BackendsTypeInv
      PROVE  BackendsServed
  <2>1. (up /\ lock = None) =>
            /\ \A e \in Endpoints : Info(table[e]) = rows[e]
            /\ clients = ClientsOf(table)
            /\ open = ConnsOf(table)
    BY <1>1 DEF BackendsTypeInv, BackendsInv, AtRest, Same
  <2>2. ASSUME NEW n \in Names
        PROVE  clients[n] \in open \cup {None}
    <3>0. table \in Tables
      BY <1>1 DEF BackendsTypeInv, TypeOK
    <3>1. CASE ~up
      BY <1>1, <3>1 DEF BackendsTypeInv, BackendsInv
    <3>2. CASE up /\ lock = None
      BY <2>1, <3>0, <3>2, ClientsTypes
    <3>3. ASSUME NEW a \in Admins, lock = a
          PROVE  clients[n] \in open \cup {None}
      <4>1. Changing(a) /\ Preparing(a) /\ Written(a) /\ Closing(a)
        BY <1>1, <3>3 DEF BackendsTypeInv, BackendsInv, OneChange
      <4>2. CASE th[a].at \in {"build", "write", "publish"}
        <5>1. Before(a) \in Tables
          BY <3>0, SwitchedTypes DEF Before
        <5>2. clients = ClientsOf(Before(a)) /\ ConnsOf(Before(a)) \subseteq open
          BY <4>1, <4>2 DEF Preparing
        <5> QED
          BY <5>1, <5>2, ClientsTypes
      <4>3. CASE th[a].at = "close"
        <5>1. clients = ClientsOf(table) /\ ConnsOf(table) \subseteq open
          BY <4>1, <4>3 DEF Written, Closing
        <5> QED
          BY <3>0, <5>1, ClientsTypes
      <4> QED
        BY <4>1, <4>2, <4>3 DEF Changing
    <3> QED
      BY <1>1, <3>1, <3>2, <3>3 DEF BackendsTypeInv, TypeOK
  <2> QED
    BY <2>1, <2>2 DEF BackendsServed
<1> QED
  BY <1>1, BackendsKept, PTL
-----------------------------------------------------------------------------
(* Settings. *)

\* While one Set of a setting is under way, memory and database differ by what that Set has
\* yet to do; the switch of the provider is where its Set wants it.
Following(s) ==
    (up /\ s \notin crossed) =>
        /\ \A a, b \in SetsUnderWay(s) : a = b
        /\ \A a \in SetsUnderWay(s) :
              /\ th[a].at = "save" => value[s] = stored[s]
              /\ th[a].at = "apply" => stored[s] = th[a].to
              /\ s = "enabled" => enabled = th[a].to
        /\ SetsUnderWay(s) = {} =>
              value[s] = stored[s] /\ (s = "enabled" => (enabled = value[s] \/ unsaved))

\* As long as no two Sets of the exclusive settings came at once, one that will set a
\* setting has found the other one unset, in memory and, as they agree, in the database.
Excluding ==
    ~raced =>
        /\ crossed \cap Exclusive = {}
        /\ \A r, s \in Exclusive : \A a \in SetsUnderWay(r), b \in SetsUnderWay(s) : a = b
        /\ \A s \in Exclusive : \A a \in SetsUnderWay(s) : th[a].to =>
              \A r \in Exclusive \ {s} : ~value[r] /\ ~stored[r]
        /\ NotBoth

SettingsInv == Excluding /\ \A s \in Settings : Following(s)

SettingsTypeInv == TypeOK /\ SettingsInv /\ (~up => \A a \in Admins : th[a] = Idle)

\* A request that is idle or changes backends is no Set.
LEMMA NoSet ==
    ASSUME NEW a \in Admins, th[a] = Idle \/ th[a].at \notin {"save", "apply"}
    PROVE  \A s : a \notin SetsUnderWay(s)
<1>1. Idle.at = "idle"
  BY DEF Idle
<1> QED
  BY <1>1 DEF SetsUnderWay

\* A Set begins: it is the only one of its setting, or the setting counts as crossed.
LEMMA SetBegins ==
    ASSUME SettingsTypeInv, NEW a \in Admins, NEW s \in Settings, NEW v \in BOOLEAN, Set(a, s, v)
    PROVE  SettingsInv'
<1> USE DEF SettingsTypeInv, SettingsInv
<1>1. /\ up /\ up' /\ UNCHANGED <<value, stored, unsaved>> /\ BeforeSet(s, v)
      /\ enabled' = IF s = "enabled" THEN v ELSE enabled
      /\ crossed' = IF SetsUnderWay(s) = {} THEN crossed ELSE crossed \cup {s}
      /\ raced' = (raced \/ (s \in Exclusive /\ \E r \in Exclusive : SetsUnderWay(r) # {}))
  BY DEF Set, Begins
<1>2. /\ th'[a].at = "save" /\ th'[a].setting = s /\ th'[a].to = v
      /\ \A b \in Admins \ {a} : th'[b] = th[b]
  BY DEF Set, TypeOK
<1>3. \A r : a \notin SetsUnderWay(r)
  BY NoSet DEF Set, Begins, At
<1>4. \A b \in Admins : \A r : b \in SetsUnderWay(r)' <=> (b \in SetsUnderWay(r) \/ (b = a /\ r = s))
  BY <1>2, <1>3 DEF SetsUnderWay
<1>5. \A r : \A b \in SetsUnderWay(r) : b \in Admins /\ b # a /\ th'[b] = th[b]
  BY <1>2, <1>3 DEF SetsUnderWay
<1>6. \A r : SetsUnderWay(r)' \subseteq Admins
  BY DEF SetsUnderWay
<1>7. ASSUME NEW r \in Settings PROVE Following(r)'
  <2>1. CASE r # s
    <3>1. SetsUnderWay(r)' = SetsUnderWay(r)
      BY <1>4, <1>5, <1>6, <2>1
    <3>2. (r \notin crossed' => r \notin crossed) /\ (r = "enabled" => enabled' = enabled)
      BY <1>1, <2>1
    <3> QED
      BY <1>1, <1>5, <3>1, <3>2 DEF Following
  <2>2. CASE r = s
    <3> SUFFICES ASSUME s \notin crossed'
                 PROVE  Following(s)'
      BY <2>2 DEF Following
    <3>1. SetsUnderWay(s) = {} /\ s \notin crossed
      BY <1>1
    <3>2. SetsUnderWay(s)' = {a}
      BY <1>4, <1>6, <3>1
    <3>3. value'[s] = stored'[s]
      BY <1>1, <3>1 DEF Following
    <3> QED
      BY <1>1, <1>2, <3>2, <3>3 DEF Following
  <2> QED
    BY <2>1, <2>2
<1>8. Excluding'
  <2> SUFFICES ASSUME ~raced'
               PROVE  /\ crossed' \cap Exclusive = {}
                      /\ \A r, t \in Exclusive : \A b \in SetsUnderWay(r)', c \in SetsUnderWay(t)' : b = c
                      /\ \A r \in Exclusive : \A b \in SetsUnderWay(r)' : th'[b].to =>
                            \A t \in Exclusive \ {r} : ~value'[t] /\ ~stored'[t]
                      /\ NotBoth'
    BY DEF Excluding
  <2>1. ~raced /\ crossed \cap Exclusive = {} /\ NotBoth
    BY <1>1 DEF Excluding
  <2>2. s \in Exclusive => \A r \in Exclusive : SetsUnderWay(r) = {}
    BY <1>1
  <2>3. crossed' \cap Exclusive = {}
    BY <1>1, <2>1, <2>2
  <2>4. ASSUME NEW r \in Exclusive, NEW t \in Exclusive,
               NEW b \in SetsUnderWay(r)', NEW c \in SetsUnderWay(t)'
        PROVE  b = c
    <3>0. b \in Admins /\ c \in Admins
      BY <1>6
    <3>1. CASE s \in Exclusive
      BY <1>4, <2>2, <3>0, <3>1
    <3>2. CASE s \notin Exclusive
      <4>1. b \in SetsUnderWay(r) /\ c \in SetsUnderWay(t)
        BY <1>4, <3>0, <3>2
      <4> QED
        BY <2>1, <4>1 DEF Excluding
    <3> QED
      BY <3>1, <3>2
  <2>5. ASSUME NEW r \in Exclusive, NEW b \in SetsUnderWay(r)', th'[b].to,
               NEW t \in Exclusive \ {r}
        PROVE  ~value'[t] /\ ~stored'[t]
    <3>0. b \in Admins
      BY <1>6
    <3>1. CASE s \in Exclusive
      <4>1. b = a /\ r = s
        BY <1>4, <2>2, <3>0, <3>1
      <4>2. ~value[t]
        BY <1>1, <1>2, <2>5, <4>1 DEF BeforeSet
      <4>3. t \in Settings /\ t \notin crossed /\ SetsUnderWay(t) = {}
        BY <2>1, <2>2, <3>1 DEF Settings
      <4>4. value[t] = stored[t]
        BY <1>1, <4>3 DEF Following
      <4> QED
        BY <1>1, <4>2, <4>4
    <3>2. CASE s \notin Exclusive
      <4>1. b \in SetsUnderWay(r) /\ th'[b] = th[b]
        BY <1>4, <1>5, <3>0, <3>2
      <4> QED
        BY <1>1, <2>1, <2>5, <4>1 DEF Excluding
    <3> QED
      BY <3>1, <3>2
  <2>6. NotBoth'
    BY <1>1, <2>1 DEF NotBoth
  <2> QED
    BY <2>3, <2>4, <2>5, <2>6
<1> QED
  BY <1>7, <1>8

\* The database takes the value, or the memory does: the setting is at most half set.
LEMMA SetGoesOn ==
    ASSUME SettingsTypeInv, NEW a \in Admins, SaveSetting(a) \/ SaveSettingFails(a) \/ Apply(a)
    PROVE  SettingsInv'
<1>b. TypeOK
  BY DEF SettingsTypeInv
<1>c. Excluding
  BY DEF SettingsTypeInv, SettingsInv
<1>d. \A r \in Settings : Following(r)
  BY DEF SettingsTypeInv, SettingsInv
<1>0. Setting(a)
  BY DEF SaveSetting, SaveSettingFails, Apply, At, Setting
<1>a. th[a] \in SettingTasks /\ up
  <2>1. th[a] \in SettingTasks
    BY <1>b, <1>0, TaskKinds
  <2>2. up
    BY <1>0 DEF Idle, Setting, SettingsTypeInv
  <2> QED
    BY <2>1, <2>2
<1>s. PICK s \in Settings, v \in BOOLEAN : th[a].setting = s /\ th[a].to = v
  BY <1>a DEF SettingTasks
<1>1. /\ th[a] \in SettingTasks /\ s \in Settings /\ v \in BOOLEAN /\ up
      /\ th[a].setting = s /\ th[a].to = v
      /\ a \in SetsUnderWay(s) /\ \A r : a \in SetsUnderWay(r) => r = s
  BY <1>0, <1>a, <1>s DEF SetsUnderWay, Setting
<1>2. UNCHANGED <<up, enabled, crossed, raced>>
  BY DEF SaveSetting, SaveSettingFails, Apply
<1>3. \A b \in Admins \ {a} : th'[b] = th[b]
  <2>1. CASE SaveSetting(a)
    BY <1>b, <1>0, <2>1, GotoTypes DEF SaveSetting
  <2>2. CASE SaveSettingFails(a) \/ Apply(a)
    BY <1>b, <2>2, OverTypes DEF SaveSettingFails, Apply
  <2> QED
    BY <2>1, <2>2
<1>4. \A r : SetsUnderWay(r)' \subseteq Admins /\ SetsUnderWay(r) \subseteq Admins
  BY DEF SetsUnderWay
<1>5. \A r : \A b \in Admins \ {a} : b \in SetsUnderWay(r)' <=> b \in SetsUnderWay(r)
  BY <1>3 DEF SetsUnderWay
<1>6. ASSUME ~raced, s \in Exclusive
      PROVE  /\ \A r \in Exclusive : \A b \in SetsUnderWay(r) : b = a
             /\ v => \A r \in Exclusive \ {s} : ~value[r] /\ ~stored[r]
  BY <1>c, <1>1, <1>6 DEF Excluding
<1>7. NotBoth'
  <2>1. CASE raced
    BY <1>2, <2>1 DEF NotBoth
  <2>2. CASE ~raced /\ s \in Exclusive /\ v
    <3> PICK r \in Exclusive : r # s
      BY DEF Exclusive
    <3>1. ~value[r] /\ ~stored[r]
      BY <1>6, <2>2
    <3>2. r \in Settings
      BY DEF Settings
    <3>3. ~value'[r] /\ ~stored'[r]
      BY <1>b, <1>1, <3>1, <3>2 DEF SaveSetting, SaveSettingFails, Apply, TypeOK
    <3> QED
      BY <3>3 DEF NotBoth
  <2>3. CASE ~raced /\ ~(s \in Exclusive /\ v)
    <3>1. ASSUME NEW r \in Exclusive
          PROVE  (~value[r] => ~value'[r]) /\ (~stored[r] => ~stored'[r])
      <4>1. r \in Settings
        BY DEF Settings
      <4> QED
        BY <1>b, <1>1, <2>3, <4>1 DEF SaveSetting, SaveSettingFails, Apply, TypeOK
    <3>2. NotBoth
      BY <1>c, <2>3 DEF Excluding
    <3> QED
      BY <2>3, <3>1, <3>2 DEF NotBoth
  <2> QED
    BY <2>1, <2>2, <2>3
<1>8. CASE SaveSetting(a)
  <2>1. /\ stored' = [stored EXCEPT ![s] = v] /\ UNCHANGED <<value, unsaved>>
        /\ th[a].at = "save" /\ Goto(a, "apply")
    BY <1>1, <1>8 DEF SaveSetting, At
  <2>0. Goto(a, "apply")
    BY <2>1
  <2>2. th'[a] = [th[a] EXCEPT !.at = "apply"]
    BY <1>0, <1>b, <2>0, GotoTypes
  <2>3. th'[a].at = "apply" /\ th'[a].setting = s /\ th'[a].to = v
    BY <1>1, <2>2 DEF SettingTasks
  <2>4. \A r : a \in SetsUnderWay(r)' <=> a \in SetsUnderWay(r)
    BY <1>1, <2>1, <2>3 DEF SetsUnderWay
  <2>5. \A r : SetsUnderWay(r)' = SetsUnderWay(r)
    BY <1>4, <1>5, <2>4
  <2>6. stored'[s] = v /\ \A r \in Settings \ {s} : stored'[r] = stored[r]
    BY <1>b, <1>1, <2>1 DEF TypeOK
  <2>7. ASSUME NEW r \in Settings PROVE Following(r)'
    <3>1. CASE r # s
      <4>1. \A b \in SetsUnderWay(r) : th'[b] = th[b]
        BY <1>1, <1>3, <1>4, <3>1
      <4> QED
        BY <1>d, <1>2, <2>1, <2>5, <2>6, <3>1, <4>1 DEF Following
    <3>2. CASE r = s
      <4> SUFFICES ASSUME s \notin crossed
                   PROVE  Following(s)'
        BY <1>d, <1>2, <3>2 DEF Following
      <4>1. \A b \in SetsUnderWay(s) : b = a
        BY <1>d, <1>1 DEF Following
      <4>2. s = "enabled" => enabled = v
        BY <1>d, <1>1 DEF Following
      <4> QED
        BY <1>d, <1>1, <1>2, <2>1, <2>3, <2>5, <2>6, <4>1, <4>2 DEF Following
    <3> QED
      BY <3>1, <3>2
  <2>8. Excluding'
    <3> SUFFICES ASSUME ~raced'
                 PROVE  /\ crossed' \cap Exclusive = {}
                        /\ \A r, t \in Exclusive : \A b \in SetsUnderWay(r)', c \in SetsUnderWay(t)' : b = c
                        /\ \A r \in Exclusive : \A b \in SetsUnderWay(r)' : th'[b].to =>
                              \A t \in Exclusive \ {r} : ~value'[t] /\ ~stored'[t]
      BY <1>c, <1>7 DEF Excluding
    <3>0. ~raced
      BY <1>2
    <3>1. \A r : \A b \in SetsUnderWay(r) : th'[b].to = th[b].to
      BY <1>1, <1>3, <1>4, <2>3
    <3>2. ASSUME NEW r \in Exclusive, NEW b \in SetsUnderWay(r), th[b].to,
                 NEW t \in Exclusive \ {r}
          PROVE  ~value'[t] /\ ~stored'[t]
      <4>1. ~value[t] /\ ~stored[t] /\ t \in Settings
        BY <1>c, <3>0, <3>2 DEF Excluding, Settings
      <4>2. t # s
        <5>1. CASE b = a
          BY <1>1, <3>2, <5>1
        <5>2. CASE b # a
          BY <1>6, <3>0, <3>2, <5>2
        <5> QED
          BY <5>1, <5>2
      <4> QED
        BY <2>1, <2>6, <4>1, <4>2
    <3> QED
      BY <1>c, <1>2, <2>5, <3>0, <3>1, <3>2 DEF Excluding
  <2> QED
    BY <2>7, <2>8 DEF SettingsInv
<1>9. CASE SaveSettingFails(a) \/ Apply(a)
  <2>1. /\ UNCHANGED stored /\ th'[a] = Idle
        /\ th[a].at = "save" => UNCHANGED value /\ unsaved' = (unsaved \/ s = "enabled")
        /\ th[a].at = "apply" => value' = [value EXCEPT ![s] = v]
                                 /\ unsaved' = (unsaved /\ s # "enabled")
    BY <1>b, <1>1, <1>9, OverTypes DEF SaveSettingFails, Apply, At
  <2>2. \A r : a \notin SetsUnderWay(r)'
    <3>1. Idle.at = "idle"
      BY DEF Idle
    <3> QED
      BY <2>1, <3>1 DEF SetsUnderWay
  <2>3. \A r : SetsUnderWay(r)' = SetsUnderWay(r) \ {a}
    BY <1>4, <1>5, <2>2
  <2>4. \A r : \A b \in SetsUnderWay(r)' : b \in SetsUnderWay(r) /\ th'[b] = th[b]
    BY <1>3, <1>4, <2>3
  <2>5. th[a].at \in {"save", "apply"}
    BY <1>0 DEF Setting
  <2>6. \A r \in Settings \ {s} : value'[r] = value[r]
    BY <1>b, <1>1, <2>1, <2>5 DEF TypeOK
  <2>7. ASSUME NEW r \in Settings PROVE Following(r)'
    <3>1. CASE r # s
      <4>1. SetsUnderWay(r)' = SetsUnderWay(r)
        BY <1>1, <2>3, <3>1
      <4>2. r = "enabled" => unsaved' = unsaved
        <5>1. CASE th[a].at = "save"
          BY <1>b, <1>1, <2>1, <3>1, <5>1 DEF TypeOK
        <5>2. CASE th[a].at = "apply"
          BY <1>b, <1>1, <2>1, <3>1, <5>2 DEF TypeOK
        <5> QED
          BY <2>5, <5>1, <5>2
      <4> QED
        BY <1>d, <1>2, <2>1, <2>4, <2>6, <3>1, <4>1, <4>2 DEF Following
    <3>2. CASE r = s
      <4> SUFFICES ASSUME s \notin crossed
                   PROVE  Following(s)'
        BY <1>d, <1>2, <3>2 DEF Following
      <4>1. SetsUnderWay(s)' = {}
        BY <1>d, <1>1, <2>3 DEF Following
      <4>2. CASE th[a].at = "save"
        <5>1. value'[s] = stored'[s] /\ (s = "enabled" => unsaved')
          BY <1>d, <1>1, <2>1, <4>2 DEF Following
        <5> QED
          BY <1>d, <4>1, <5>1 DEF Following
      <4>3. CASE th[a].at = "apply"
        <5>1. value'[s] = v /\ stored'[s] = v /\ (s = "enabled" => enabled' = v)
          BY <1>b, <1>d, <1>1, <1>2, <2>1, <4>3 DEF Following, TypeOK
        <5> QED
          BY <1>d, <4>1, <5>1 DEF Following
      <4> QED
        BY <2>5, <4>2, <4>3
    <3> QED
      BY <3>1, <3>2
  <2>8. Excluding'
    <3> SUFFICES ASSUME ~raced'
                 PROVE  /\ crossed' \cap Exclusive = {}
                        /\ \A r, t \in Exclusive : \A b \in SetsUnderWay(r)', c \in SetsUnderWay(t)' : b = c
                        /\ \A r \in Exclusive : \A b \in SetsUnderWay(r)' : th'[b].to =>
                              \A t \in Exclusive \ {r} : ~value'[t] /\ ~stored'[t]
      BY <1>c, <1>7 DEF Excluding
    <3>0. ~raced
      BY <1>2
    <3>1. ASSUME NEW r \in Exclusive, NEW b \in SetsUnderWay(r)', th'[b].to,
                 NEW t \in Exclusive \ {r}
          PROVE  ~value'[t] /\ ~stored'[t]
      <4>1. b \in SetsUnderWay(r) /\ b # a /\ th[b].to
        BY <2>2, <2>4, <3>1
      <4>2. ~value[t] /\ ~stored[t] /\ t \in Settings
        BY <1>c, <3>0, <3>1, <4>1 DEF Excluding, Settings
      <4>3. s \notin Exclusive
        BY <1>6, <3>0, <4>1
      <4> QED
        BY <2>1, <2>6, <4>2, <4>3
    <3> QED
      BY <1>c, <1>2, <2>4, <3>0, <3>1 DEF Excluding
  <2> QED
    BY <2>7, <2>8 DEF SettingsInv
<1> QED
  BY <1>8, <1>9

\* Changes of the backends leave the settings alone.
LEMMA BackendsApart ==
    ASSUME SettingsTypeInv, NEW a \in Admins, BackendStep(a)
    PROVE  SettingsInv'
<1> USE DEF SettingsTypeInv
<1>1. UNCHANGED <<up, value, stored, enabled, crossed, raced, unsaved>>
  BY DEF BackendStep, Add, Update, Delete, Turn, Build, Write, WriteFails, Publish, CloseOld,
         settingVars
<1>2. \A s : a \notin SetsUnderWay(s)
  <2>1. At(a, "idle") \/ Changing(a)
    BY DEF BackendStep, Add, Update, Delete, Turn, Locks, Begins, Build, Write, WriteFails,
           Publish, CloseOld, At, Changing
  <2> QED
    BY <2>1, NoSet DEF At, Changing
<1>3. th'[a].at \notin {"save", "apply"} /\ \A b \in Admins \ {a} : th'[b] = th[b]
  <2>0. th \in [Admins -> {Idle} \cup SettingTasks \cup BackendTasks]
    BY DEF TypeOK
  <2>1. ASSUME NEW op, NEW aim, NEW next, NEW fresh, NEW old, NEW turned,
               Change(a, op, aim, next, fresh, old, turned)
        PROVE  th'[a].at \notin {"save", "apply"} /\ \A b \in Admins \ {a} : th'[b] = th[b]
    BY <2>0, <2>1 DEF Change
  <2>2. CASE \/ \E g \in Endpoints \cup Bare, i \in Infos : Add(a, g, i)
             \/ \E e \in Endpoints, i \in Infos : Update(a, e, i)
             \/ \E E \in SUBSET Endpoints : Delete(a, E) \/ \E on \in BOOLEAN : Turn(a, E, on)
    BY <2>1, <2>2 DEF Add, Update, Delete, Turn
  <2>3. ASSUME NEW l \in {"write", "publish", "close"}, Goto(a, l), Changing(a)
        PROVE  th'[a].at \notin {"save", "apply"} /\ \A b \in Admins \ {a} : th'[b] = th[b]
    <3>1. th[a] \in BackendTasks
      BY <2>3, TaskKinds
    <3>2. th'[a] = [th[a] EXCEPT !.at = l] /\ \A b \in Admins \ {a} : th'[b] = th[b]
      BY <2>3, GotoTypes
    <3> QED
      BY <3>1, <3>2 DEF BackendTasks
  <2>4. ASSUME Over(a)
        PROVE  th'[a].at \notin {"save", "apply"} /\ \A b \in Admins \ {a} : th'[b] = th[b]
    <3>1. Idle.at = "idle"
      BY DEF Idle
    <3> QED
      BY <2>4, <3>1, OverTypes
  <2>5. CASE Build(a) \/ Write(a) \/ WriteFails(a) \/ Publish(a) \/ CloseOld(a)
    <3>1. Over(a) \/ (Changing(a) /\ \E l \in {"write", "publish", "close"} : Goto(a, l))
      BY <2>5 DEF Build, Write, WriteFails, Publish, CloseOld, Undo, At, Changing
    <3> QED
      BY <2>3, <2>4, <3>1
  <2> QED
    BY <2>2, <2>5 DEF BackendStep
<1>4. \A s : SetsUnderWay(s)' = SetsUnderWay(s)
  <2>1. \A s : a \notin SetsUnderWay(s)'
    BY <1>3 DEF SetsUnderWay
  <2>2. \A s : \A b \in Admins \ {a} : b \in SetsUnderWay(s)' <=> b \in SetsUnderWay(s)
    BY <1>3 DEF SetsUnderWay
  <2>3. \A s : SetsUnderWay(s)' \subseteq Admins /\ SetsUnderWay(s) \subseteq Admins
    BY DEF SetsUnderWay
  <2> QED
    BY <1>2, <2>1, <2>2, <2>3
<1>5. \A s : \A b \in SetsUnderWay(s) : th'[b] = th[b]
  BY <1>2, <1>3 DEF SetsUnderWay
<1>6. \A s \in Settings : Following(s)'
  BY <1>1, <1>4, <1>5 DEF SettingsInv, Following
<1>7. Excluding'
  BY <1>1, <1>4, <1>5 DEF SettingsInv, Excluding, NotBoth
<1> QED
  BY <1>6, <1>7 DEF SettingsInv

\* The settings that are in the database are what the process starts with; it makes none of
\* the checks of a Set.
LEMMA SettingsRestart ==
    ASSUME SettingsTypeInv, Start \/ Stop
    PROVE  SettingsInv'
<1>1. \A a \in Admins : th'[a] = Idle
  BY DEF SettingsTypeInv, Start, Stop
<1>2. \A s : SetsUnderWay(s)' = {}
  <2>1. Idle.at = "idle"
    BY DEF Idle
  <2> QED
    BY <1>1, <2>1 DEF SetsUnderWay
<1>3. \A s \in Settings : Following(s)'
  BY <1>2 DEF Start, Stop, Following
<1>4. Excluding'
  <2>1. ~raced => (crossed \cap Exclusive = {} /\ NotBoth)
    BY DEF SettingsTypeInv, SettingsInv, Excluding
  <2>2. ~raced' => (crossed' \cap Exclusive = {} /\ NotBoth')
    <3>1. CASE Start
      BY <2>1, <3>1 DEF Start, NotBoth
    <3>2. CASE Stop
      <4>1. \A s \in Exclusive : ~value'[s]
        BY <3>2 DEF Stop, Settings
      <4>2. Exclusive # {} /\ stored' = stored /\ raced' = raced /\ crossed' = {}
        BY <3>2 DEF Stop, Exclusive
      <4> QED
        BY <2>1, <4>1, <4>2 DEF NotBoth
    <3> QED
      BY <3>1, <3>2
  <2> QED
    BY <1>2, <2>2 DEF Excluding
<1> QED
  BY <1>3, <1>4 DEF SettingsInv

\* What is under way with every setting is what its Set has yet to do: the inductive
\* invariant of the settings (bool.go:210-231, var.go:36-58).
THEOREM SettingsKept == Spec => []SettingsInv
<1>1. Init => SettingsInv
  <2> SUFFICES ASSUME Init PROVE SettingsInv
    OBVIOUS
  <2>1. \A s : SetsUnderWay(s) = {}
    <3>1. Idle.at = "idle"
      BY DEF Idle
    <3> QED
      BY <3>1 DEF Init, SetsUnderWay
  <2>2. \A s \in Exclusive : ~value[s] /\ ~stored[s]
    BY DEF Init, Settings
  <2>3. Exclusive # {}
    BY DEF Exclusive
  <2>4. NotBoth
    BY <2>2, <2>3 DEF NotBoth
  <2> QED
    BY <2>1, <2>4 DEF Init, SettingsInv, Following, Excluding
<1>2. BackendsTypeInv /\ SettingsInv /\ [Next]_vars => SettingsInv'
  <2> SUFFICES ASSUME BackendsTypeInv, SettingsInv, [Next]_vars PROVE SettingsInv'
    OBVIOUS
  <2>1. SettingsTypeInv
    BY DEF SettingsTypeInv, BackendsTypeInv, BackendsInv, OneChange
  <2>2. CASE UNCHANGED vars
    BY <2>1, <2>2 DEF vars, settingVars, SettingsInv, Following, Excluding, NotBoth, SetsUnderWay
  <2>3. CASE Next
    BY <2>1, <2>3, SetBegins, SetGoesOn, BackendsApart, SettingsRestart DEF Next, SetStep
  <2> QED
    BY <2>2, <2>3
<1> QED
  BY <1>1, <1>2, BackendsKept, PTL DEF Spec

\* A setting that nobody is setting is in memory what it is in the database, whatever
\* failed, unless two of its Sets crossed (bool.go:210-231, provider.go:127-147).
THEOREM Follows == Spec => []SettingsFollow
<1>1. SettingsInv => SettingsFollow
  BY DEF SettingsInv, Following, SettingsFollow
<1> QED
  BY <1>1, SettingsKept, PTL

\* The two settings that exclude each other are never both set, in memory or in the
\* database, for any number of requests, as long as no two of their Sets came at once
\* (var.go:36-58).
THEOREM Exclude == Spec => []NotBoth
<1>1. SettingsInv => NotBoth
  BY DEF SettingsInv, Excluding, NotBoth
<1> QED
  BY <1>1, SettingsKept, PTL
=============================================================================
