------------------------------- MODULE Viewers --------------------------------
(***************************************************************************)
(* How the players of a room come to show the same status                  *)
(* (server/handlers/websocket.go over internal/op/client.go).  A player    *)
(* that pauses, seeks or changes the rate sends a STATUS message; its      *)
(* reader sets the room's status and then broadcasts it to everybody else. *)
(* A player also asks: CHECK_STATUS is answered if it differs from the     *)
(* room, SYNC always.  The hub is an ordered queue (HubBroadcast's         *)
(* SameOrder) and a status one value: what a player shows and what the     *)
(* room has are equal when needsSync finds no difference (Playback has     *)
(* the positions).  Players are external: they act when they like, ask     *)
(* again and again, and show what they are sent.                           *)
(***************************************************************************)
EXTENDS Naturals, Sequences

CONSTANTS
    Viewers,   \* the connections, each with its player and its reader
    Statuses,  \* what a player can show
    First,     \* the status of a new room
    Refused,   \* bound: the viewers who may lack PermissionSetCurrentStatus
    None,
    ClientCap, \* capacity of Client.c (128 in the code)
    MaxActs    \* bound: how often the players change the status

ASSUME ViewersAssumption ==
    /\ First \in Statuses /\ None \notin Statuses
    /\ Refused \subseteq Viewers /\ ClientCap \in Nat \ {0} /\ MaxActs \in Nat

VARIABLES
    status,  \* current.current.Status
    queue,   \* Hub.broadcast: statuses and the connection to leave out
    chan,    \* Client.c of each viewer
    inbox,   \* what each player has sent and its reader has not read
    view,    \* what each player shows
    task,    \* what each reader has read and still has to send
    acts     \* how often the players have acted

vars == <<status, queue, chan, inbox, view, task, acts>>

Message(kind, s) == [kind |-> kind, status |-> s]
Messages == [kind : {"set", "check", "sync"}, status : Statuses]

NoTask == Message("none", None)
Tasks == {NoTask} \cup [kind : {"announce", "reply"}, status : Statuses]

Init ==
    /\ status = First
    /\ queue = <<>> /\ chan = [v \in Viewers |-> <<>>]
    /\ inbox = [v \in Viewers |-> <<>>]
    /\ view = [v \in Viewers |-> First]
    /\ task = [v \in Viewers |-> NoTask]
    /\ acts = 0

-----------------------------------------------------------------------------
(* The players. *)

HasRoom(v) == Len(chan[v]) < ClientCap

SendUp(v, m) == inbox' = [inbox EXCEPT ![v] = Append(@, m)]

\* Somebody pauses, seeks or changes the rate.
Act(v, s) ==
    /\ acts < MaxActs /\ s # view[v]
    /\ view' = [view EXCEPT ![v] = s]
    /\ SendUp(v, Message("set", s))
    /\ acts' = acts + 1
    /\ UNCHANGED <<status, queue, chan, task>>

\* One question at a time.
Ask(v, kind) ==
    /\ \A i \in DOMAIN inbox[v] : inbox[v][i].kind = "set"
    /\ SendUp(v, Message(kind, view[v]))
    /\ UNCHANGED <<status, queue, chan, view, task, acts>>

Show(v) ==
    /\ chan[v] # <<>>
    /\ view' = [view EXCEPT ![v] = Head(chan[v])]
    /\ chan' = [chan EXCEPT ![v] = Tail(@)]
    /\ UNCHANGED <<status, queue, inbox, task, acts>>

-----------------------------------------------------------------------------
(* The reader of a connection, which handles one message after another. *)

\* The reader of v takes a message of that kind and is left with task t.
Reads(v, kind, t) ==
    /\ task[v] = NoTask
    /\ inbox[v] # <<>> /\ Head(inbox[v]).kind = kind
    /\ inbox' = [inbox EXCEPT ![v] = Tail(@)]
    /\ task' = [task EXCEPT ![v] = t]
    /\ UNCHANGED <<queue, chan, view, acts>>

\* Without the permission, which may come and go, the reader only reports an error.
HandleStatus(v) ==
    \/ LET s == Head(inbox[v]).status
       IN Reads(v, "set", Message("announce", s)) /\ status' = s
    \/ v \in Refused /\ Reads(v, "set", NoTask) /\ UNCHANGED status

Announce(v) ==
    /\ task[v].kind = "announce"
    /\ queue' = Append(queue, [status |-> task[v].status, skip |-> v])
    /\ task' = [task EXCEPT ![v] = NoTask]
    /\ UNCHANGED <<status, chan, inbox, view, acts>>

\* Mutant: the player is sent its own status back.
HandleCheckEcho(v) ==
    LET s == Head(inbox[v]).status
    IN /\ Reads(v, "check", IF s = status THEN NoTask ELSE Message("reply", s))
       /\ UNCHANGED status

HandleCheck(v) ==
    LET s == Head(inbox[v]).status
    IN /\ Reads(v, "check", IF s = status THEN NoTask ELSE Message("reply", status))
       /\ UNCHANGED status

HandleSync(v) == Reads(v, "sync", Message("reply", status)) /\ UNCHANGED status

Reply(v) ==
    /\ task[v].kind = "reply" /\ HasRoom(v)
    /\ chan' = [chan EXCEPT ![v] = Append(@, task[v].status)]
    /\ task' = [task EXCEPT ![v] = NoTask]
    /\ UNCHANGED <<status, queue, inbox, view, acts>>

-----------------------------------------------------------------------------
(* The hub: Send blocks while a channel is full. *)

Deliver ==
    /\ queue # <<>>
    /\ \A v \in Viewers : v = Head(queue).skip \/ HasRoom(v)
    /\ chan' = [v \in Viewers |-> IF v = Head(queue).skip THEN chan[v]
                                  ELSE Append(chan[v], Head(queue).status)]
    /\ queue' = Tail(queue)
    /\ UNCHANGED <<status, inbox, view, task, acts>>

Reader(v) ==
    HandleStatus(v) \/ Announce(v) \/ HandleCheck(v) \/ HandleSync(v) \/ Reply(v)

Next ==
    \/ \E v \in Viewers :
          \/ \E s \in Statuses : Act(v, s)
          \/ \E kind \in {"check", "sync"} : Ask(v, kind)
          \/ Show(v) \/ Reader(v)
    \/ Deliver

Spec == Init /\ [][Next]_vars

\* Goroutines run, a channel serves its waiting senders in order, and the players
\* show what they are sent and keep asking.  Nobody has to act.
FairSpec ==
    /\ Spec
    /\ SF_vars(Deliver)
    /\ \A v \in Viewers :
          WF_vars(Reader(v)) /\ SF_vars(Reply(v)) /\ WF_vars(Show(v)) /\ WF_vars(Ask(v, "check"))

-----------------------------------------------------------------------------
(* Properties *)

TypeOK ==
    /\ status \in Statuses
    /\ queue \in Seq([status : Statuses, skip : Viewers])
    /\ chan \in [Viewers -> Seq(Statuses)] /\ \A v \in Viewers : Len(chan[v]) <= ClientCap
    /\ inbox \in [Viewers -> Seq(Messages)]
    /\ view \in [Viewers -> Statuses]
    /\ task \in [Viewers -> Tasks]
    /\ acts \in 0..MaxActs

\* However their operations and questions overlap, and although a reply may overtake
\* a newer broadcast and a refused player goes its own way: once nobody acts any
\* more, asking brings everybody to the room's status for good
\* (websocket.go:469-494, client.go:122-142).
EventuallySame == <>[](\A v \in Viewers : view[v] = status)
==============================================================================
