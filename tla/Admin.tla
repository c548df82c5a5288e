-------------------------------- MODULE Admin ---------------------------------
(***************************************************************************)
(* What administrators configure while the server runs: settings           *)
(* (internal/settings) and vendor backends (internal/vendor/vendor.go).    *)
(* Both are a table of the database and a copy of it in memory.  Sets of   *)
(* settings interleave freely; changes of the backends exclude each other  *)
(* by TryLock, so that one that meets another is refused.  Every write of  *)
(* the database may fail, and the process may stop between any two steps:  *)
(* it starts again from the database.                                      *)
(*                                                                         *)
(* The settings are the two that exclude each other and the switch of one  *)
(* login provider, which acts when it is set.  All backends serve one      *)
(* vendor; what else a row has is left out.                                *)
(***************************************************************************)
EXTENDS Naturals

CONSTANTS
    Admins,    \* the requests of administrators that are served at a time
    Endpoints, \* addresses of backends, with their ports
    Bare,      \* addresses without a port, as a request may give them
    Normal,    \* Bare -> Endpoints: the address with the default port
    Names,     \* names of backends
    Conns,     \* gRPC connections
    None,
    MaxOps     \* bound: how many operations are started

\* What is known of a backend, and a backend with its connection.
Infos == [on : BOOLEAN, name : Names]
Entries == [conn : Conns, on : BOOLEAN, name : Names]

ASSUME AdminAssumption ==
    /\ Bare \cap Endpoints = {} /\ Normal \in [Bare -> Endpoints]
    /\ None \notin Conns \cup Admins /\ None \notin Entries \cup Infos
    /\ MaxOps \in Nat

VARIABLES
    up,      \* the process runs
    stored,  \* the rows of settings
    value,   \* the settings in memory
    enabled, \* providers.enabledProviders has the provider
    rows,    \* the rows of vendor backends: endpoint -> [on, name] or None
    table,   \* backends.conns: endpoint -> [conn, on, name] or None
    clients, \* backends.clients: name -> connection or None
    open,    \* the connections that are open
    lock,    \* the administrator whose request holds vendor.lock
    th,      \* what each request is about to do
    ops,     \* how many operations were started
    crossed, \* history: settings with two Sets at once since the start of the process
    raced,   \* history: two Sets of the exclusive settings came at once
    unsaved  \* history: the provider was switched, and its setting was not saved

settingVars == <<stored, value, enabled, crossed, raced, unsaved>>
backendVars == <<rows, table, clients, open, lock>>
vars == <<up, settingVars, backendVars, th, ops>>

Exclusive == {"room_must_need_pwd", "room_must_no_need_pwd"}
Settings == Exclusive \cup {"enabled"}

\* What the table of connections may be.
Tables == [Endpoints -> Entries \cup {None}]

Info(b) == IF b = None THEN None ELSE [on |-> b.on, name |-> b.name]
Entry(c, i) == [conn |-> c, on |-> i.on, name |-> i.name]

Known(t) == {e \in Endpoints : t[e] # None}
ConnsOf(t) == {t[e].conn : e \in Known(t)}

\* newVendorClients: enabled backends must have different names.
Clash(t) == \E e, f \in Known(t) : e # f /\ t[e].on /\ t[f].on /\ t[e].name = t[f].name

\* The connection that serves a name.
ClientsOf(t) ==
    [n \in Names |-> IF \E e \in Known(t) : t[e].on /\ t[e].name = n
                     THEN t[CHOOSE e \in Known(t) : t[e].on /\ t[e].name = n].conn
                     ELSE None]

Idle == [at |-> "idle"]
Over(a) == th' = [th EXCEPT ![a] = Idle]
Goto(a, l) == th' = [th EXCEPT ![a].at = l]
At(a, l) == th[a].at = l

Begins(a) ==
    /\ up /\ At(a, "idle") /\ ops < MaxOps
    /\ ops' = ops + 1

-----------------------------------------------------------------------------
(* The process starts and stops. *)

\* A new database, and any backends that were added before.
Init ==
    /\ up = FALSE
    /\ stored = [s \in Settings |-> FALSE] /\ value = stored /\ enabled = FALSE
    /\ rows \in [Endpoints -> Infos \cup {None}] /\ ~Clash(rows)
    /\ table = [e \in Endpoints |-> None] /\ clients = ClientsOf(table)
    /\ open = {} /\ lock = None
    /\ th = [a \in Admins |-> Idle] /\ ops = 0
    /\ crossed = {} /\ raced = FALSE /\ unsaved = FALSE

\* initAndFixSettings, which makes none of the checks of a Set, and vendor.Init, which
\* fails, and the server with it, if two enabled backends have the same name.
Start ==
    /\ ~up /\ up' = TRUE
    /\ value' = stored /\ enabled' = stored["enabled"]
    /\ ~Clash(rows)
    /\ \E t \in Tables :
          /\ \A e \in Endpoints : Info(t[e]) = rows[e]
          /\ \A e, f \in Known(t) : e # f => t[e].conn # t[f].conn
          /\ table' = t /\ clients' = ClientsOf(t) /\ open' = ConnsOf(t)
    /\ UNCHANGED <<stored, rows, lock, th, ops, crossed, raced, unsaved>>

\* A crash or a shutdown.
Stop ==
    /\ up /\ up' = FALSE
    /\ value' = [s \in Settings |-> FALSE] /\ enabled' = FALSE
    /\ table' = [e \in Endpoints |-> None] /\ clients' = [n \in Names |-> None]
    /\ open' = {} /\ lock' = None
    /\ th' = [a \in Admins |-> Idle]
    /\ crossed' = {} /\ unsaved' = FALSE
    /\ UNCHANGED <<stored, rows, ops, raced>>

-----------------------------------------------------------------------------
(* A Set of a setting. *)

\* The requests that are setting s.
SetsUnderWay(s) == {a \in Admins : th[a].at \in {"save", "apply"} /\ th[a].setting = s}

\* Mutant: the other setting is not looked at.
BeforeSetUnchecked(s, v) == s \in Settings /\ v \in BOOLEAN

\* beforeSet: at most one of the two is set (var.go:36-58).
BeforeSet(s, v) == s \in Exclusive /\ v => \A r \in Exclusive \ {s} : ~value[r]

\* beforeSet is asked; that of the provider switches it, also if the rest fails.  A
\* setting that is refused changes nothing.
Set(a, s, v) ==
    /\ Begins(a)
    /\ BeforeSet(s, v)
    /\ th' = [th EXCEPT ![a] = [at |-> "save", setting |-> s, to |-> v]]
    /\ enabled' = IF s = "enabled" THEN v ELSE enabled
    /\ crossed' = IF SetsUnderWay(s) = {} THEN crossed ELSE crossed \cup {s}
    /\ raced' = (raced \/ (s \in Exclusive /\ \E r \in Exclusive : SetsUnderWay(r) # {}))
    /\ UNCHANGED <<up, stored, value, unsaved, backendVars>>

\* db.UpdateSettingItemValue.
SaveSetting(a) ==
    /\ At(a, "save")
    /\ stored' = [stored EXCEPT ![th[a].setting] = th[a].to]
    /\ Goto(a, "apply")
    /\ UNCHANGED <<up, value, enabled, crossed, raced, unsaved, backendVars, ops>>

SaveSettingFails(a) ==
    /\ At(a, "save")
    /\ unsaved' = (unsaved \/ th[a].setting = "enabled")
    /\ Over(a)
    /\ UNCHANGED <<up, stored, value, enabled, crossed, raced, backendVars, ops>>

\* Mutant: the value is only in the database.
ApplyNothing(a) ==
    /\ At(a, "apply")
    /\ unsaved' = (unsaved /\ th[a].setting # "enabled")
    /\ Over(a)
    /\ UNCHANGED <<up, stored, value, enabled, crossed, raced, backendVars, ops>>

\* b.set(v)
Apply(a) ==
    /\ At(a, "apply")
    /\ value' = [value EXCEPT ![th[a].setting] = th[a].to]
    /\ unsaved' = (unsaved /\ th[a].setting # "enabled")
    /\ Over(a)
    /\ UNCHANGED <<up, stored, enabled, crossed, raced, backendVars, ops>>

-----------------------------------------------------------------------------
(* A change of the backends. *)

\* TryLock; the request is refused while another holds the lock.
Locks(a) == Begins(a) /\ lock = None /\ lock' = a

\* The change that a is making: next becomes the table; fresh is a connection that was
\* made for it, old are those it replaces, turned the backends that were switched.
Change(a, op, aim, next, fresh, old, turned) ==
    th' = [th EXCEPT ![a] = [at |-> "build", op |-> op, aim |-> aim, next |-> next,
                             fresh |-> fresh, old |-> old, turned |-> turned]]

Address(g) == IF g \in Bare THEN Normal[g] ELSE g

\* AddVendorBackend: the address is looked up as it was given, and completed only when
\* the connection is made.
Add(a, g, i) ==
    /\ Locks(a)
    /\ g \notin Known(table)
    /\ \E c \in Conns \ open :
          /\ open' = open \cup {c}
          /\ Change(a, "add", {Address(g)}, [table EXCEPT ![Address(g)] = Entry(c, i)], {c}, {}, {})
    /\ UNCHANGED <<up, settingVars, rows, table, clients>>

\* UpdateVendorBackend
Update(a, e, i) ==
    /\ Locks(a)
    /\ e \in Known(table)
    /\ \E c \in Conns \ open :
          /\ open' = open \cup {c}
          /\ Change(a, "update", {e}, [table EXCEPT ![e] = Entry(c, i)], {c}, {table[e].conn}, {})
    /\ UNCHANGED <<up, settingVars, rows, table, clients>>

\* DeleteVendorBackends
Delete(a, E) ==
    /\ Locks(a)
    /\ E \subseteq Known(table)
    /\ Change(a, "delete", E, [e \in Endpoints |-> IF e \in E THEN None ELSE table[e]],
              {}, {table[e].conn : e \in E}, {})
    /\ UNCHANGED <<up, settingVars, rows, table, clients, open>>

Switched(t, E) ==
    [e \in Endpoints |-> IF e \in E \cap Known(t) THEN [t[e] EXCEPT !.on = ~@] ELSE t[e]]

\* EnableVendorBackends, DisableVendorBackends: the backends are switched in place, in the
\* table that everybody reads.
Turn(a, E, on) ==
    /\ Locks(a)
    /\ E \subseteq Known(table)
    /\ LET needed == {e \in E : table[e].on # on}
       IN /\ table' = Switched(table, needed)
          /\ Change(a, "turn", needed, table', {}, {}, needed)
    /\ UNCHANGED <<up, settingVars, rows, clients, open>>

\* Mutant: what was switched stays.
UndoNot(a) ==
    /\ open' = open \ th[a].fresh
    /\ lock' = None
    /\ Over(a)
    /\ UNCHANGED table

\* An error: what was switched is switched back, what was connected is closed.
Undo(a) ==
    /\ table' = Switched(table, th[a].turned)
    /\ open' = open \ th[a].fresh
    /\ lock' = None
    /\ Over(a)

\* Mutant: names are not compared.
BuildAnyway(a) ==
    /\ At(a, "build")
    /\ Goto(a, "write")
    /\ UNCHANGED <<up, settingVars, backendVars, ops>>

\* newVendorClients
Build(a) ==
    /\ At(a, "build")
    /\ IF Clash(th[a].next) THEN Undo(a)
       ELSE Goto(a, "write") /\ UNCHANGED <<table, open, lock>>
    /\ UNCHANGED <<up, settingVars, rows, clients, ops>>

\* The rows that the database has after the change.  It refuses a second row of an
\* address, and a change of no row counts as an error.
Accepted(a) ==
    /\ th[a].aim # {}
    /\ th[a].op = "add" => \A e \in th[a].aim : rows[e] = None

Write(a) ==
    /\ At(a, "write")
    /\ Accepted(a)
    /\ rows' = [e \in Endpoints |-> IF e \in th[a].aim THEN Info(th[a].next[e]) ELSE rows[e]]
    /\ Goto(a, "publish")
    /\ UNCHANGED <<up, settingVars, table, clients, open, lock, ops>>

WriteFails(a) ==
    /\ At(a, "write")
    /\ Undo(a)
    /\ UNCHANGED <<up, settingVars, rows, clients, ops>>

\* storeBackends
Publish(a) ==
    /\ At(a, "publish")
    /\ table' = th[a].next /\ clients' = ClientsOf(th[a].next)
    /\ Goto(a, "close")
    /\ UNCHANGED <<up, settingVars, rows, open, lock, ops>>

\* The connections that were replaced are closed, and the lock is given back.
CloseOld(a) ==
    /\ At(a, "close")
    /\ open' = open \ th[a].old
    /\ lock' = None
    /\ Over(a)
    /\ UNCHANGED <<up, settingVars, rows, table, clients, ops>>

-----------------------------------------------------------------------------
SetStep(a) ==
    \/ \E s \in Settings, v \in BOOLEAN : Set(a, s, v)
    \/ SaveSetting(a) \/ SaveSettingFails(a) \/ Apply(a)

BackendStep(a) ==
    \/ \E g \in Endpoints \cup Bare, i \in Infos : Add(a, g, i)
    \/ \E e \in Endpoints, i \in Infos : Update(a, e, i)
    \/ \E E \in SUBSET Endpoints : E # {} /\ (Delete(a, E) \/ \E on \in BOOLEAN : Turn(a, E, on))
    \/ Build(a) \/ Write(a) \/ WriteFails(a) \/ Publish(a) \/ CloseOld(a)

Next == Start \/ Stop \/ \E a \in Admins : SetStep(a) \/ BackendStep(a)

Spec == Init /\ [][Next]_vars

-----------------------------------------------------------------------------
(* Properties *)

SettingTasks == [at : {"save", "apply"}, setting : Settings, to : BOOLEAN]

BackendTasks ==
    [at : {"build", "write", "publish", "close"}, op : {"add", "update", "delete", "turn"},
     aim : SUBSET Endpoints, next : Tables, fresh : SUBSET Conns, old : SUBSET Conns,
     turned : SUBSET Endpoints]

\* The types (vendor.go:43-51, settings/bool.go:25-34).
TypeOK ==
    /\ up \in BOOLEAN /\ stored \in [Settings -> BOOLEAN] /\ value \in [Settings -> BOOLEAN]
    /\ enabled \in BOOLEAN /\ raced \in BOOLEAN /\ unsaved \in BOOLEAN
    /\ crossed \subseteq Settings /\ ops \in 0..MaxOps
    /\ rows \in [Endpoints -> Infos \cup {None}] /\ table \in Tables
    /\ clients \in [Names -> Conns \cup {None}] /\ open \subseteq Conns
    /\ lock \in Admins \cup {None}
    /\ th \in [Admins -> {Idle} \cup SettingTasks \cup BackendTasks]

\* Whenever the process stops, the server starts again: the rows never have two enabled
\* backends of one name, on which vendor.Init fails (vendor.go:68-87, 459-476).
StartsAgain == ~Clash(rows)

\* Nobody is ever given a client whose connection is closed; and when no change is under
\* way, the table is the rows, the clients are the table's, and no connection was left
\* open, also after changes that failed half-way (vendor.go:124-400).
BackendsServed ==
    /\ \A n \in Names : clients[n] \in open \cup {None}
    /\ (up /\ lock = None) =>
          /\ \A e \in Endpoints : Info(table[e]) = rows[e]
          /\ clients = ClientsOf(table)
          /\ open = ConnsOf(table)

\* A setting that nobody is setting has in memory what it has in the database, unless two
\* Sets of it crossed, which nothing prevents; and the provider is switched as its
\* setting says, unless the database refused it (bool.go:210-231, provider.go:127-147).
SettingsFollow ==
    \A s \in Settings : (up /\ s \notin crossed /\ SetsUnderWay(s) = {}) =>
        /\ value[s] = stored[s]
        /\ s = "enabled" => (enabled = value[s] \/ unsaved)

\* "room_must_need_pwd and room_must_no_need_pwd can't be true at the same time"
\* (var.go:39): neither in memory nor in the database, whatever fails and restarts, as
\* long as no two of their Sets came at once.
NotBoth ==
    raced \/ \A f \in {value, stored} : \E s \in Exclusive : ~f[s]
==============================================================================
