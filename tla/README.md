# SyncTV in TLA+

This directory holds a formal model of SyncTV, the synchronized-viewing server
of this repository: TLA+ modules, TLC configurations and TLAPS proofs. It says
what the parts of the program are, which of them are modelled, what is checked
on small instances, what is proved for all instances, and what is still to do.

## 1. The system

A *room* is a place where users watch the same movie. A user in a room holds a
websocket connection; the server keeps the room's playback position and tells
every connection when it changes. Everything a room owns in memory hangs from
`op.Room`; the database is the durable copy.

| component | state | operations | properties that make it correct |
|---|---|---|---|
| client (`internal/op/client.go`) | bounded channel of messages, closed flag, wait group | `Send`, `Close`, the writer that drains the channel | no send on or second close of the channel; what was accepted is written; `Close` returns |
| hub (`internal/op/hub.go`) | map user → locked set of connections, broadcast queue, exit channel, closed flag, `utils.Once`, wait group | `Start`, `serve`, `ping`, `Broadcast`, `RegClient`, `UnRegClient`, `SendToUser`, `KickUser`, `OnlineCount`, `Close` | no connection lost by the map's double-checked locking; one order of messages; nothing sent on the closed queue; queued messages arrive; `Close` ends |
| websocket handler (`server/handlers/websocket.go`) | reader and writer goroutine per connection | connect, greet, write, dispatch, disconnect | every exit path unregisters and closes |
| room (`internal/op/room.go`) | lazily created hub, current movie, member cache, movie cache | `close`, `SetCurrentMovie`, member and setting updates | one hub at a time; cache agrees with the database after every update |
| room cache (`internal/op/rooms.go`) | entries with a time to live | load or init, close, delete, set status | a deleted or banned room is not served; expiry closes the hub |
| playback (`internal/op/current.go`, `internal/model/current.go`) | playing, position, rate, last update | `SetMovie`, `SetStatus`, `SetSeekRate`, `Current`, `Status` | every viewer ends at the same state; time is counted once |
| members (`room.go`, `internal/db/member.go`, `internal/model/member.go`) | role, status, permission bits, cached and in the database | join, approve, ban, unban, grant, revoke | a banned member has no access; cached permissions follow the database |
| movies (`movies.go`, `movie.go`) | folder tree in the database, cache of live entries | add, update, delete (recursive), move, page | the current movie is not deleted; deleted movies leave the cache; no folder is its own ancestor |
| users (`user.go`, `users.go`), authentication (`server/middlewares/auth.go`) | user cache, version derived from the password, roles | log in, set password, ban, bind and unbind providers and e-mail | a token of an old version is refused; a user keeps a way to log in |
| OAuth2 states, e-mail captchas | entries that expire | create, consume | consumed at most once, never after expiry |
| settings (`internal/settings`, `internal/db/setting.go`) | a row and an atomic value each, hooks | set, init | memory follows the database; settings that exclude each other are never both true |
| proxy (`server/handlers/proxy`) | memory and file caches, slices | get, set, clean up, range requests | LRU list, map and trie agree; ranges are put together correctly |
| vendor backends (`internal/vendor/vendor.go`) | rows, connections by endpoint, clients by name, one lock | add, update, delete, enable, disable, init | memory follows the database after success and after failure; nobody is given a closed connection; the server starts again |
| refresh caches, sysnotify | tables behind locks | refresh; run tasks | one refresh at a time; tasks run once, in order of priority |

How they interact: HTTP handlers and websocket readers run in goroutines of
their own and call `op`; `op` calls `db` and the room's hub; the hub calls
`Client.Send` and `Client.Close`; each client's writer calls the network.
Shared state is protected by mutexes, concurrent maps and atomics, not by one
owner goroutine; that is where the hard behaviours are. `PROJECT.json` lists
each hazard at its line.

## 2. Modules

### WaitGroup, Client

`WaitGroup` describes Go's `sync.WaitGroup`: the set of goroutines counted, those
blocked in `Wait` and those woken. Waking and returning are two steps, because an
`Add` between them makes `Wait` panic.

`Client` is one client. Every atomic operation of the source is an action:

| code | action |
|---|---|
| `c.wg.Add(1)` | `SendAdd` |
| `if c.Closed()` | `SendCheck` |
| `c.c <- msg` | `SendPut`: blocks without room, panics when the channel is closed |
| deferred `c.wg.Done()` | `SendDone` |
| compare-and-swap of `closed` | `Swap` |
| `c.wg.Wait()` | `CloseWait`, `CloseResume` |
| `close(c.c)` | `CloseChannel` |
| `range c.GetReadChan()`, `writeMessage` | `Receive`, `Write`, `WriteFails` |
| deferred `handleClientDisconnection` | `Disconnect`, then the writer's `Close` |

The same goroutine set sends and closes, as `serve`, `SendToUser`, `KickUser`, the
reader and the writer do. Messages are numbers. A behaviour ends at the first
panic, because a panic in any of these goroutines except the reader ends the process.

### HubClients, Presence

`HubClients` is the map of connected clients with its per-user locks. The sets are
heap objects with addresses; `RegClient` is five actions (`RegCheck`, `RegLoad`,
`RegLock`, `RegVerify`, `RegInsert`), `UnRegClient` four, and the steps between a
load, a lock and the second load are visible to other goroutines. `RegVerify` that
fails goes back to `RegCheck` with the old lock still held, as the recursive call
does. `Close` takes a set out of the map before it locks it.

Whoever goes through a set waits with its lock held, as in the source:

| code | action |
|---|---|
| `KickUser`: closed check, `Load`, `RLock` | `KickCheck`, `KickLoad`, `KickLock` |
| its loop: `Client.Close` of each connection, which sets the flag and waits for the `Send`s in progress | `KickClose`, `KickWait`; `KickEnd` |
| `SendToUser`, and `serve`'s visit to a user | `SendLoad`, `SendLock` |
| their loop: `Client.Send` to each connection, which returns when there is room | `SendNext`, `SendReturn`; `SendEnd` |
| `Close`, for each user: `CompareAndDelete`, `Lock` | `CloseDetach`, `SweepLock` |
| its loop: `delete`, `Client.Close` | `SweepClose`, `SweepWait`; `SweepEnd` |
| `OnlineCount`, which waits for nothing under the lock | `CountLoad`, `Count` |
| the handler's greeting, then the replies of its reader | `OwnSend`, `OwnReturn` |
| the reader's deferred `Close`; the end of the handler | `ReaderClose`; `UnregCheck` and what follows |

A message has no content here and a channel no length: there is room at any moment (`SendReturn`,
`OwnReturn`), but there must be room in the end only while the handler writes (`Drained`), that is after its greeting and before a
write fails or the channel is closed. `HubBroadcast` has the channels.

A garbage address can be allocated again, so comparisons of pointers mean what
they mean in Go; of several the allocator returns one, whichever that is. With a small `Objs` an allocation
might have to wait, which three objects exclude in the run.

"Client already exists" cannot happen (the connection id is a fresh UUID) and is
left out.

`Presence` is the abstract specification: a list that a connection joins and leaves
once, from which a closing hub strikes all connections of a user at once. It also says what
the code does not promise: a connection that passed the closed check may still slip
into a closing hub.

### HubBroadcast

`HubBroadcast` is the path of a message: `Broadcast` (count, check, put or exit),
the queue, `serve` (take, visit, check, put), the channels, the writers; and what
interferes: `SendToUser`, `KickUser`, registering, greeting, failing writes,
hanging up, unregistering, `Close`. `utils.Once` with its third state ("spent" by
`Done`) decides whether `serve` ever runs. The ticker of `ping` is one more caller
of `Broadcast`.

Each user has one connection here (the sets are `HubClients`' subject), and
`Client.Close` is two steps: the flag, and the channel once no `Send` runs. A
reader lock is held across a blocking `Send` or `Close`, as in the source. The Range
visits each entry at most once and in any order.

### Playback

`Playback` is `op.current` over `model.Current`. Writers hold the lock from the change
to the end of the save (`Set`, `Save`: the deferred save runs before the deferred unlock), and
a failed save changes nothing but the log. Readers hold only the read lock, yet `UpdateStatus`
writes: each of its loads and stores is a step (`ReadLast`, `LoadTime`, `StoreTime`, `TakeStamp`,
`StoreLast`, `CopyStatus`), so that two readers race as they do in Go. Two outcomes of that race are left
out: a torn `time.Time` (only possible on the first reads after a reload, when the loaded stamp has no
monotonic part) and a torn copy. `Tick` is the clock, in whole ticks; `Restart` stops the
process at any step, drops all connections and loads the room from the database.

The history variables say what the position should be: `base` is the status as it was last set,
`ver` the number of that set, `late` the ticks that passed between `time.Since` and
`time.Now()` of one update, which the code loses, and `twice` the ticks that a reader added
although another one was inside `UpdateStatus` when it took them (`again`), which the code may count
twice. A reader that finds nobody inside adds nothing to `twice`. Of the movie only "is it live" is kept.

### Viewers

`Viewers` is the way of a status between players: `Act`, `Ask` and `Show` are the external
web player's; `HandleStatus` then `Announce`, `HandleCheck` or `HandleSync` then `Reply`
are the reader's, with the read of the room and the sending in different steps;
`Deliver` is the hub as one ordered queue, which `HubBroadcast`'s `SameOrder` justifies.
Replies do not go through the queue. Statuses are opaque: equal means that `needsSync` finds no difference.
Changing the movie (a message without a status, upon which players fetch it) is not part of it.

### RoomLife

`RoomLife` is one room id between the database, `roomCache` and the websocket connections that
watch the room. A room object that has left the cache lives on as long as a request holds it, so objects
and hubs are addresses, and each keeps its status and its hub pointer.

| code | action |
|---|---|
| `LoadOrInitRoomByID`: cache, database, `checkRoomCreatorStatus`, `LoadOrStore` | `LoadHit`, `Query`, `Vet`, `Store` |
| `CompareAndCloseRoom`, `CloseRoom`, `CloseRoomByID`, `CloseUserByID` | `Compare` or `EvictAny`, then `Detach` (the hub out of the room), `Shut` |
| `validateRoomAccess` | `Check` |
| `lazyInitHub` | `JoinLoad`, `JoinCreate`: who loses the compare-and-swap starts again |
| `RegClient`, `UnregisterClient` | `RegCheck`, `RegInsert`, `Unregister`, which may create a hub once more |
| the four ways to delete a room or its creator; ban, approve, unban | `DeleteRow`; `WriteStatus`, `SetStatus` |
| the cache's janitor and its callback | `Expire`, `Detach`, `Shut` |

The hub's table is `HubClients`' subject; here closing a hub closes everybody registered at once. The
time to live is hours, each request that loads a room renews it, so an entry expires only when no request that
has loaded it is under way. `late` records the connections that were past their check when
their room was closed, `outdated` the objects that missed a change: the two exceptions the code has.

### Members

`Members` is the members of one room in the database and in the room object's map. A
connection looks its member up or creates it (`Load`, `Store`), is checked, and registers in a further step.
An operation updates the row, evicts the member and, for a ban or a deletion, kicks (`Update`,
`Evict`, `Kick`); the eviction is deferred and runs also when the database refuses. A change of the settings saves,
evicts the guest if its permissions change, and then assigns the settings and kicks guests who are no longer wanted
(`SaveSettings`, `EvictGuest`, `Settle`, `Kick`). The operations are the room creator's, who needs no row.
Permission sets are sets. `behind` and `slipped` record what the steps in between let
through: a load that was overtaken, a connection between check and registration.
Room passwords and the permissions a request needs are not part of it.

### Movies

`Movies` is the folder tree of one room in the database, the cache of movies and the id of the current movie.
`GetMovieByID` is three actions (`Found`, `Query`, `Store`) that every operation goes through, the climb
from the current movie to the root calls it once per level (`Climb`). `SaveMovie` may move a folder anywhere and create
a row that is gone, as GORM's Save does; `Remove` deletes a folder with all that is in it, as the foreign
key does, and `Evict` takes one level of folders after the other from the cache. One eviction level, and the deletion of several
ids, are one step. `Below` is what the foreign key leads to, `Led` what the cache does. `behind`, `left` and `torn` record the exceptions that the properties name:
a movie cached by a load that was overtaken; one that the eviction will not reach, also because an entry on its way was dropped or
replaced; one that the check could not protect, or that was made current again under an operation checked before. Positions, lists,
vendor data and live channels are left out, and `IsParentOf` (movies.go:253), which has no caller.

### MailCodes, Accounts

`MailCodes` is the map of e-mailed codes: one per use and address, mailed again while it is kept, taken out by the
comparison that accepts it, or expired at any time.

`Accounts` is one account: its row, the user objects (those that have left the cache live on while a request
holds them), tokens, and requests that log in, come with a token or a code, or are made by an administrator.
`SetPassword` is `Version`, `Hash`, `Save`, in the code's order; a login is `Verify`, `Issue`. A token passes
`CheckVersion`, then `CheckRole`; a request with a code passes `CheckMail`, which compares the address, then `CheckCode`,
which consumes the code, and others may run between any two of these. Passwords are
numbered, and the version of a password is its number: the checksum has no collisions here. `outdated` marks user objects that missed a change or
whose change the database refused, `crossed` the logins and tokens of logins that ran
while the password changed. Login by e-mail differs from login by name only in the
look-up and is left out; so are signing up, accounts registered by e-mail (which may not unbind their address), providers and the root role.

### SliceCache

`SliceCache` is the caching proxy: `SliceCacheProxy` puts a range together from slices, each taken under the lock of its
key from the memory cache (`Lookup`, `Touch`: two locks, one after the other), from its file (`Open`, `Keep`), or
from the source (`Fetch`, `Set`, `Create`, `WriteFile`). The cleaner, age, failing fetches and
writes and a restart, which leaves only the files, come at any time. Byte p of the source is p,
so that a response is checked byte by byte; a source that changes is not modelled. A torn file makes
requests of its slice fail until it is 24 hours old or the cleaner takes it. The counter of bytes on disk
only decides when the cleaner runs, which here may be at any time. The header check that makes a `bytes=-5` the range 0 to 5
is part of the parsing and not of the model, as are headers.

### Admin

`Admin` is what administrators configure while the server runs: two tables of the database with a copy in
memory, and a process that may stop between any two steps and starts again from the database (`Stop`, `Start`).

| code | action |
|---|---|
| `Set`, `SetString` of a setting: the hook; `UpdateSettingItemValue`; `b.set` | `Set`; `SaveSetting` or `SaveSettingFails`; `Apply` |
| `TryLock`, the look-up and the new table | `Add`, `Update`, `Delete`, `Turn` (enable or disable, in the table that everybody reads) |
| `newVendorClients` | `Build`, which may find two enabled backends of one name |
| the write of the rows; an error of it | `Write`; `WriteFails`, which undoes as the deferred functions do |
| `storeBackends`; closing what was replaced, `Unlock` | `Publish`; `CloseOld` |

The settings are the two that exclude each other, whose hook looks at the other value, and the switch of a login provider,
whose hook has a side effect. All backends serve one vendor, since each vendor's names are checked in the same way. An
address without a port is completed when its connection is made, after it was looked up as given, so an addition may
meet the row of the complete address. `crossed`, `raced` and `unsaved` record what the properties are conditional on.

## 3. Runs

All bounds are constants: the sends or calls started (`MaxSends`, `MaxCalls`; `MaxBegun` counts connections and calls), and
in `HubBroadcast` which connections may be skipped, told, kicked or may fail, and whether
the hub closes. Queues and channels hold one or two messages instead of 128, so that full, empty and blocked
all occur.

| run | instance | shows |
|---|---|---|
| `client_life` | three goroutines, a channel of one, three sends | nobody sends on or closes a closed channel; accepted messages are written; `Close` returns |
| `hub_table` | two connections of one user, two callers, three of these beginning in all, three objects | nobody is lost, no empty entry stays, kicks reach everyone, the table implements `Presence`, every operation ends while no `Send` is stuck |
| `broadcast_order` | two viewers with channels of two, two callers, two potential serve loops, two calls, broadcasts that leave a viewer out, failing networks, no closing | one order, and so no duplicate |
| `broadcast_close` | one viewer, one caller, two calls of any kind, a failing network, closing | nobody sends on a closed queue; `Close` ends; queued messages arrive |
| `playback_two_readers` | a writer, two readers that overlap, two sets, the clock from 0 to 2, failing saves, restarts | time is lost only to slow updates and counted twice only by overlapping ones; a restart resumes |
| `viewers_agree` | two players, two operations, one sometimes refused, channels of one | asking brings everybody to the room's status |
| `room_life` | two connections, one admin, the janitor, two operations and bans of the creator, two room objects, three hubs | nobody is left in a dead hub or a dead room, except who was past a check; the cache has the row's status; who must go is closed |
| `members` | a member's connection, two of guests, two admins, two operations of ten kinds | the cache follows the database; banned members and unwanted guests are out |
| `movies` | a movie in a folder in a folder, one id unused, two requests at a time, three operations | the cache follows the database; deleted movies leave it; the current movie exists; checks end |
| `accounts` | two requests at a time, three operations of all kinds but four, two addresses, three user objects | the cache follows the database; an old password or token opens nothing; a code works once |
| `slice_cache` | two requests at a time, three in all, a source of five bytes in slices of two, memory for one or two slices, one failure, ageing or restart | the bytes are right and complete, memory is bounded, only real failures fail, requests end |
| `admin` | two requests at a time, four in all, three settings, two backends, one of which may be given without its port, two names, three connections, restarts at any time | the server can start again; clients are never closed ones; memory follows the database; the two settings exclude each other |

Two sets and two ticks are enough for a set after an update, an update after a set, a restart between
both, and for a tick before and another one inside an update that a second reader overlaps: an age counted twice, time lost to a slow
update, or both. Rates 1 and 2 tell a rate applied twice from one applied once. For any number of ticks and sets it is proved.

Two connections of one user are the smallest number with which one finds a set that the other
has just removed; three objects are the set in the map, the one it replaced and a new one. Two connections and a caller, or one and two callers,
are the smallest numbers with which somebody waits for the lock of who waits in a `Send` or a `Close`. That nobody is lost is proved for any number
of users. Two viewers and two
messages are the smallest instance of an order; with a queue of one and two calls, one message is in `serve` or in the
queue while the other caller waits. Channels of two let both messages wait at one viewer while the other has none. `SameOrder` is about the
messages of callers: each handler greets its own client, and a broadcast may overtake the greeting. `Done` in `HubClients` allows
stuttering at the end; `HubBroadcast` may stop when all calls are made or after a panic,
so its runs do not check deadlock, nor does `client_life`, and the liveness properties find blocked goroutines instead.
All other runs check deadlock.

`members` has two guests because a load of one may cache the member approved in between while the other is past its own look-up: with one guest, the
case does not occur. Two operations are enough for one to overtake the other, or for both to meet a load; `movies` and `accounts` need a third
one to set up what the two race for (a current movie, a token, a code). Three operations fill a tree of three with the fourth movie
and move a folder into itself, two room objects are the one that left the cache and the one that replaced it.
In `slice_cache` five bytes give two full slices and a short one, three bytes of memory hold one full slice and
the short one or less, so that every request evicts; the ranges cross slices, end past the source, and begin at its end and past it.
In `admin` three connections are two backends and a third that is being made; four operations set both settings of the pair
and undo one, or add, change, switch and delete a backend.
`accounts` leaves out unbanning and three operations of administrators on the role that differ from the others only in the role they write.

Fairness: the Go scheduler runs every runnable goroutine. A channel serves its waiting
senders in order and an `RWMutex` does not starve a waiting writer, so a step that is
enabled again and again is taken: strong fairness on the steps that wait for a lock
or for room. In `HubClients` weak fairness is enough: a reader of a set is promised its lock only while
nobody waits to write (`LockWaits`, an `RWMutex` may turn it away then), each connection locks its set a few times at most,
and a `Send` is promised room only while the handler writes. Calls, connecting, closing, hanging up and network failures are choices
and have none, with one exception: the reader of a failed connection notices it, since
its read fails too. In `Viewers` the players keep asking: the protocol's CHECK_STATUS
exists for that, but the player is not in this repository, so `EventuallySame` is a promise about the
server given such players.

`RoomLife` and the checks of `Movies` need only that a goroutine that can go on goes on. In
`SliceCache` the lock of a key is a mutex that Go hands to who waits for it, hence strong fairness.
`Members`, `Accounts` and `Admin` promise nothing that needs fairness.

### Known behaviours

What the models contain and the properties allow for, or are conditional on:

* `Hub.Broadcast` calls `h.once.Done()` (hub.go:189), which makes a Once
  that has not run behave as if it had. A hub created by a query (`UserIsOnline`,
  `UserOnlineCount`) and used by a `Broadcast` before its first registration never
  starts `serve`: whoever joins later is not served. `QueuedIsDelivered` is about hubs whose `serve` runs.
* `serve` sends with a blocking `Send` under the set's lock
  (hub.go:94). When a write fails, the writer returns and nobody drains the channel; its
  handler waits for the lock in `UnRegClient`, its reader waits for the `Send` in `Close`, and
  `serve` waits for room for ever. `QueuedIsDelivered` assumes working connections. `SendToUser` waits in the same way, and
  `KickUser` and `Close` wait in `Client.Close` for a `Send` that waits; a greeting that finds its channel full waits,
  because the handler writes only after it. `OperationsEnd` says that nothing else can go wrong: nobody is kept waiting
  for ever by the locks of the table unless a `Send` to a connection whose handler does not write waits for ever (`Wedged`).
* `Current` and `Status` call `UpdateStatus` under the read lock (current.go:37, 66).
  Two readers that overlap add the same elapsed time, and the next answer is ahead of everybody by it.
  `TimeCountedOnce` and `AnswersNotAhead` say how far: at most by the ages that readers took while
  another one was inside `UpdateStatus` (`twice`), and not at all while readers take turns.
* A reply to SYNC or CHECK_STATUS is read from the room in one step and sent in a later one, past
  the hub's queue (websocket.go:428); a player that has just acted, or been told of a newer status, is set back by it,
  and stays there until it asks again (`EventuallySame` says that asking repairs it).
* `Wait` may panic because the wait group is reused while it returns; `serve` may take a nil message from
  the queue after `Close` and dereference it; a handler whose channel is full before its greeting blocks for ever; a
  connection that passed the closed check may register in a closed hub.
* A connection that was past authentication when its room was closed, banned or deleted registers in a
  hub of its own in an object nobody else finds; a load overtaken by a deletion brings the room back into the cache.
* A ban finds only registered connections: one between its check and its registration stays connected.
  New settings of guests take effect after the cached guest is evicted, so one loaded in between keeps the old permissions.
* A deleted movie stays in the cache itself, and so do the children of a folder that is not cached. When the current movie
  has vanished, `SetCurrentMovie` fails for every other movie, too, because it loads the old one first (room.go:494). A folder turned
  into a file and then deleted or moved takes the current movie along. Nothing prevents moving a folder into itself
  or below itself, after which `isParentOf` never ends (movies.go:290).
* A password change that the database refuses leaves the cached user with the new password until it expires. A login that has
  compared the old password while it is changed gets a token of the new version.
* `VerifyRetrievePasswordCaptchaEmail` compares the address before it consumes the code (user.go:562-565): if the address is unbound
  or replaced between the two, the code still resets the password. `CodesWorkOnce` speaks of the address at the comparison.
* Sets are not serialised: two Sets of `room_must_need_pwd` and `room_must_no_need_pwd` that come at once make both true, which var.go:39 says
  they cannot be, and a restart keeps it so, because `Init` asks no hook of the two (`NotBoth` is conditional on `raced`). Two Sets of one setting may leave
  one value in the database and the other in memory until a restart (`crossed`).
* A login provider is switched before its setting is saved and stays switched when the save fails (provider.go:139).
* Backends are enabled and disabled in the table that everybody reads, before anything is checked or saved; until
  an error is undone, the list of backends shows what never was. `Update("enabled", ...)` (db/vendorBackend.go:24) names a column
  that the embedded prefix calls `used_by_enabled` (model/vendorBackend.go:58); the model has both outcomes of the write.
* `synctv setting set` (cmd/setting/set.go) writes the database behind a running server; it is not in the model.

## 4. Proofs

The eight modules whose names end in `Proofs` hold for any number of goroutines,
connections, users and objects, under the named assumptions of the modules (capacities are positive, the
kinds of goroutines are disjoint, every connection has a user, no user or address stands for none).
Proofs about two modules may share one; `Client` and `Movies` therefore have names that the other module does not use.

* `Client`, in `HubClientsProofs`: `NoChannelPanic` is not inductive. The invariant is
  `CloseProtocol`: at most one goroutine is past the compare-and-swap, with the flag set
  and the channel open (`OneCloser`); a goroutine is counted by the wait group exactly while it is
  inside `Send` (`Counted`); and once the closer is past `Wait`, no `Send` is between the check
  and the put (`DrainedBeforeClose`), because those that come later see the flag. The
  theorems are `ClientTypes`, `ProtocolKept` and `ChannelSafe`.
* `NoLostClient` needs `TableProtocol`: a connection past `Lock` holds the lock of its set
  (`Holding`), and a set about to be inserted into is still in the map or is the one `Close` has
  taken out and has yet to empty (`InsertSafe`): `Close` holds the lock while it empties a set, so no inserter is left when it lets go. `OnlineCount` removes an empty set under a
  read lock, which excludes an inserter past its check. The theorems are `TypeCorrect` and
  `NobodyLost`. The rest of the table needs `Ownership` (`OwnershipKept`), because sets are addresses that are
  collected and allocated again: a set is listed for one user, and who has loaded a listed set has loaded it for that user (`OneOwner`); an empty set in
  the map is awaited by a connection that will enter it (`Expected`); whom a kick has to close is in its set when it locks it and then among those it has yet to visit, or `Close` will find them (`KickFinds`).
  From it follow `NoGhosts` (`NoGhostUser`), `KicksClose` (`KickCloses`, an action property) and `TableIsPresence`: every step of the table
  maps to a step of `Presence` or to a stutter.
* `NoSendOnClosedQueue` of the hub needs `QueueProtocol`, the hub's counterpart of
  `CloseProtocol`: every goroutine inside `Broadcast` is counted by the hub's wait group; a
  `Close` that has left its first step has closed the hub; and once the `Wait` of `Close` has
  returned or the queue is closed, the hub is closed and no `Broadcast` stands before its put.
  The proof goes through every action of `serve`, the callers, the handlers and the closer.
  The theorems are `TypeCorrect`, `QueueKept` and `QueueSafe`.
* `SameOrder` needs `OrderInv` (`OrderKept`, `OneOrder`): a message is at one place on its way, with its caller, in the queue once, or with the one
  serve loop (`OneLoop`, `CarriedOnce`, `QueuedOnce`), and of what the loop hands out, who is still to come has nothing yet (`Ahead`), and nobody
  but a single addressee has anything later (`HandedOut`). A message told to one user overtakes broadcasts, which is no disorder since nobody else gets it.
* `Playback`: `TypeCorrect` carries that all time stamps lie in the past (`Causal`), so that no
  elapsed time is negative. `Resumes` needs that a saving writer is alone and that the saved
  status of the present set is the one that was set (`SavingAlone`, `Numbering`). They, and
  `CountedOnce` and `NotAhead`, hold for any number of readers, however they overlap. No time is lost: wherever a reader stands in its
  update, what it would have stored next plus the late ticks is at least where the position should be (`Reached`, `NoneLost`). None is counted
  twice but `twice`: every position that is stored or about to be is a number of ticks times the rate; while updates are under way these numbers
  stay below what was due when the first of them began, that first reader's own age still to come included (`Opens`; there is one such reader, `OneOpens`),
  and every stamp about to be stored is not older than that moment (`UnsettledBelow`), so that the account is right again when the last one is through
  (`NoneTwice`). Positions are integers there, not floating point numbers.

* `Viewers`: `ViewersTypes`, in `PlaybackProofs`, says that the room, the hub, the channels and the players hold nothing but statuses that a player set,
  and that no channel overflows although the hub and the readers both write to it. That the players agree in the end is liveness.

* `Admin`: `TypeCorrect`, `CanStartAgain` and `Served` (`StartsAgain` and `BackendsServed` for any number of requests, backends, names and
  connections). Neither property is inductive: between the lock and its release the table may already be switched, the rows already written,
  the new connection already open. The invariant `BackendsInv` (`BackendsKept`) says who holds the lock (`OneChange`), that with the lock free
  table, clients and connections are what the rows say (`AtRest`), and for the request that holds it what its next step relies on:
  until `Publish`, switching back what it switched gives the table that the clients are of (`Preparing`; `SwitchedBack`: switching twice is
  the identity); until `Write`, what it will write differs from the rows only where it aims, and owns exactly the connections that remain
  after `CloseOld` (`Prepared`); what is written has no clash of names (`Checked`); afterwards the rows are the next table (`Written`, `Closing`).
  `Prepared` claims the connections of an added backend only if its address has no row: `Add` looks the address up as it was
  given, without its port, so the new entry may replace one of the table, and then it is the database that refuses the second row.
  `PutConns`, `DropConns` and `SwitchedConns` count the connections; a Set of a setting leaves all of it alone (`SettingSteps`).

  The settings need `SettingsInv` (`SettingsKept`): while a Set of a setting is under way and no other one crossed it, memory and database differ by
  what that Set has yet to do (`Following`), and one that will set a setting of the exclusive pair has found the other unset in both (`Excluding`).
  From it follow `Follows` (`SettingsFollow`) and `Exclude` (`NotBoth`), both with the conditions that the properties state.

* `TypeCorrect` of `RoomLife` and `Members` is not a formality: a room object is used by index, so the invariant (`Holds`) says
  that a thread at a step that works on a room object, a hub, a member or new settings has one, and that a room is never made from
  a row that is gone. In `Members` the operation a thread is running must suit its argument (`Suits`).

* `RoomLife`: `NoneStranded`, `LateRemain` and `TruthOfCache` (`NobodyStranded`, `OnlyLateRemain`, `CacheTellsTruth`) follow from `RoomInv` (`RoomsKept`). What
  makes the first two inductive is that objects and hubs are not confused: a thread holds a hub only at the steps that use one (`HubHeld`), and a hub
  belongs to one room object, in the object's pointer or in the hands of whoever has loaded it (`HubAlone`), so that
  a new hub is nobody's. Then a connection that has a hub has its room's or one that will be closed (`Reached`), and one that has loaded a room has the cached
  one, active once it is past the check, or one whose hub will be taken out or closed (`Allowed`); a compare-and-delete evicts only its own object, and the janitor runs
  when nobody is on the way. `CacheTellsTruth` needs besides that a deleted user's rooms are deleted by the time the user is forgotten (`Deleted`).

* `Members`: `TellTruth` and `StayOut` (`MembersTellTruth`, `KickedStayOut`) follow from `MembersInv` (`KicksKept`). The cache has the row or will be told (`Truth`); it has an
  active member for a banned user only until that very ban evicts it, another operation on the user is no excuse (`KnowsBan`); guests' new permissions are settled
  with the guest evicted (`Settled`); a connection past the checks of somebody who is out is going to be kicked or met the kick on its way in (`BannedOut`, `GuestOut`).
  `slipped` counts as on its way in a guest that is storing a member it read as pending, because another guest's load may
  cache the approved one, which the first then uses. The proof needs that no row is taken for the absence of one (`NoRowAssumption`).

* `Accounts`: all five properties, from `AccountsInv` (`AccountsKept`). None is inductive, since a password changes in three steps, an address and a role in
  two, and a user object outlives its place in the cache. `PinInv` says that a request that loaded the user by id holds the cached object until
  the account is gone, so that whoever deletes the account evicts that object and nobody else's, and what is stored later is outdated; `KeyInv` that a change under way
  has set the version and then the hash of its object, and that two of one object have made it outdated; `ToldInv` that the cached object differs from the row only in a
  field that some thread has written and has still to tell (`Told`), and that what is written is still there or its object outdated (`Written`);
  `LoginInv` that a login whose object is being given a password has been noted as crossed. `CacheIsAccount`, `TokensFit` and `OnlyOwners` follow; the last needs
  three of the four. `CodesOnce` needs `MailInv`: every operation mails one code at most and the numbers of a key are used up one by one, counting
  the requests under way, so that a code that was accepted is never the one kept again; who comes with a code was mailed it.

* `SliceCache`: all four safety properties, for any source, slice size, bounds, ranges and number of requests, from `Inv` (`SlicesKept`). `RightBytes`
  needs that a response that has bytes already is at the slice whose first byte is its next (`Progress`), hence that slices are aligned and that
  the piece taken of one ends where the next begins (`AfterOK`). `MemoryBounded` and `FailsForCause` both rest on the lock of a slice:
  two goroutines never hold the same one (`OneHolder`), so a slice that was not in memory still is not when it is set, and a file that
  is not written to the end is being written by somebody who holds the lock that its reader would need (`TornIsWritten`). The counter of the memory cache is a sum over a set,
  which the community modules define by recursion over an arbitrary choice. That it does not depend on the choice, and what adding and removing
  entries do to it (`HeldAdd`, `HeldApart`), is shown without an induction rule, by taking a smallest set for which it
  would fail (`Least` and `Smallest`, from the well-foundedness of `<`).

* `Movies`, in `PlaybackProofs`: `MovieCacheTruth` and `CurrentStays` (`CacheTellsTruth`, `CurrentExists`), for any tree that the foreign key admits (`Keys`), any edits, cycles
  of folders included, and any number of requests. What is below a movie is the least set closed under children (`Under`), so the lemmas about it are proved by exhibiting
  closed sets and need no induction. Deleted movies leave the cache because one that is still there is excused or can be reached, in the cache, from
  where some eviction stands (`GoneAwaited`): a level evicted leads on from its folders (`LedAfter`), an entry dropped or replaced cuts off what is then recorded
  (`LedAround`), an entry stored cuts off nothing (`LedMore`). The current movie exists because every operation whose check counts is aside of it, which is to say that
  what it changes is not above the current movie, or is still climbing between the two (`Apart`; `Aside`, `Between`), and
  because a row changed, or rows deleted, aside of the current movie leave all others aside or between (`ChangeChecked`, `CutChecked`).

The inductive invariants are proved and no run repeats them, nor the type invariants of these modules but those of `Accounts`, `SliceCache` and `Movies`.

Only model-checked are the liveness properties: liveness under fairness is out of the prover's reach.

## 5. Plan

1. Done: `Client`, `HubClients`, `HubBroadcast`, `Playback`, `Viewers`; `RoomLife`, `Members`, `Movies`, `Accounts` with `MailCodes`, `SliceCache`, `Admin`.
2. Done: proofs of every safety and action property, and of the refinement, of all modules.
3. The refresh of one entry of the vendor caches, the states of OAuth2, unbinding the last way to log in.
4. `Members` composed with `HubClients`, `Viewers` composed with `HubBroadcast` in place of its ordered queue.

## 6. Not modelled

About two fifths of the code is generated messages and clients of remote services (`vendors`, `proto`), which encode and decode; much of the
rest is REST handlers, configuration, migrations and the command line. They have no state that outlives a call, so a
specification of them would repeat them. In particular: wire formats, logging and wording; the vendors' remote APIs, RTMP, identity
providers, captcha images: I/O without state of its own. REST handlers decode, call one operation of `op` and encode; what
those of administrators and accounts check first is in `RoomLife` and `Accounts`. `internal/sysNotify`
is a copy that nothing imports. In the hub, `SendToConnID` and the writer-preference of
`RWMutex` (a pending writer holds off new readers) are left out; no goroutine takes a read
lock twice, so the preference adds no deadlock. Which permission each request of a room needs, creating and listing rooms, and
what a module's own section names, are left out, too; refresh caches and OAuth2 states are left for the plan.
Two data races of the code have no model either: `GetClientByConnID` reads a set without its lock (hub.go:306), and `LoadCurrentMovie`
reads the current movie while `SetMovie` writes it (room.go:477).
