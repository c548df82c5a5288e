-------------------------------- MODULE Movies --------------------------------
(***************************************************************************)
(* The movies of one room: rows of the database that form folders, the     *)
(* room object's cache of them (internal/op/movies.go), the movie that is  *)
(* playing, and the operations on all three (internal/op/room.go), each of *)
(* which reads, checks, writes the database and the cache in steps of its  *)
(* own.  A folder takes what is in it along when it is deleted, in the     *)
(* database by a foreign key and in the cache by following parents.        *)
(*                                                                         *)
(* An id is never reused.  Of a movie's data the model keeps where it is   *)
(* and what it is.  The check of the id of the current movie against the   *)
(* one being changed climbs from the former through GetMovieByID.          *)
(***************************************************************************)
EXTENDS Integers, FiniteSets

CONSTANTS
    Movies,     \* ids
    None,       \* the empty id: the root as a parent, no movie as the current one
    NoRow,
    Tree,       \* the rows at the start
    Edits,      \* what movies are created as and changed into
    Threads,    \* goroutines that run requests
    Ops,        \* the operations they run
    MaxOps      \* bound: operations started

Row == [parent : Movies \cup {None}, kind : {"file", "folder", "dynamic"}]

ASSUME MoviesAssumption ==
    /\ None \notin Movies /\ NoRow \notin Row
    /\ Tree \in [Movies -> Row \cup {NoRow}]
    /\ \A m \in Movies : Tree[m] # NoRow /\ Tree[m].parent # None =>
                              Tree[Tree[m].parent] # NoRow
    /\ Edits \subseteq Row
    /\ Ops \subseteq {"update", "delete", "clear", "set"}
    /\ MaxOps \in Nat

VARIABLES
    row,        \* the rows of the database
    cache,      \* the room's cache of movies
    current,    \* the id of the current movie
    fresh,      \* ids nobody has used
    th,         \* each thread: step, operation, its movie and new data, the current
                \* movie it has checked against, and where GetMovieByID, the climb and
                \* the eviction are
    ops,        \* operations started
    behind,     \* history: movies cached by a load that was overtaken
    left,       \* history: movies out of the eviction's reach when they were deleted
    torn        \* history: movies whose changes the check did not prevent, or made current
                \* when they were gone

moviesVars == <<row, cache, current, fresh, th, ops, behind, left, torn>>

-----------------------------------------------------------------------------
At(t, step) == th[t].pc = step
Becomes(t, r) == th' = [th EXCEPT ![t] = r]
Goto(t, step) == Becomes(t, [th[t] EXCEPT !.pc = step])

Idle == [pc |-> "idle", op |-> "none", id |-> None, base |-> NoRow, cid |-> None,
         want |-> None, seen |-> NoRow, then |-> "idle",
         folder |-> None, first |-> FALSE, ids |-> {}]

Over(t) == Becomes(t, Idle)

\* A call of GetMovieByID(id), after which the thread goes on at a step.
Get(t, id, r, step) == Becomes(t, [r EXCEPT !.pc = "get", !.want = id, !.then = step])

\* The movies below the ids through rows, or cached rows, that lead there one by one by
\* way of the folders: the least set of those that are in the ids or in its own folders.
Under(rows, ids, folders) ==
    LET Whole(set) == \A m \in Movies :
            rows[m] # NoRow /\ rows[m].parent \in ids \cup (set \cap folders) => m \in set
    IN {m \in Movies : \A set \in SUBSET Movies : Whole(set) => m \in set}

\* What the foreign key leads to.
Below(ids) == Under(row, ids, Movies)

\* What the cache leads to: the eviction goes on with what is cached as a folder.
Led(ids) == Under(cache, ids, {k \in Movies : cache[k] # NoRow /\ cache[k].kind # "file"})

\* Of that, what is gone from the database.
Orphans(m) == {k \in Led({m}) : row[k] = NoRow}

MoviesInit ==
    /\ row = Tree
    /\ cache = [m \in Movies |-> NoRow]
    /\ current = None
    /\ fresh = {m \in Movies : Tree[m] = NoRow}
    /\ th = [t \in Threads |-> Idle]
    /\ ops = 0
    /\ behind = {}
    /\ left = {}
    /\ torn = {}

-----------------------------------------------------------------------------
(* GetMovieByID *)

Found(t) ==
    /\ At(t, "get")
    /\ cache[th[t].want] # NoRow
    /\ Becomes(t, [th[t] EXCEPT !.pc = th[t].then, !.seen = cache[th[t].want]])
    /\ UNCHANGED <<row, cache, current, fresh, ops, behind, left, torn>>

\* Mutant: a movie that is not found is cached all the same.
QueryUnchecked(t) ==
    /\ At(t, "get")
    /\ cache[th[t].want] = NoRow
    /\ Becomes(t, [th[t] EXCEPT !.pc = "store", !.seen = row[th[t].want]])
    /\ UNCHANGED <<row, cache, current, fresh, ops, behind, left, torn>>

\* db.GetMovieByID: whoever asks gives up when there is no such movie.
Query(t) ==
    /\ At(t, "get")
    /\ cache[th[t].want] = NoRow
    /\ IF row[th[t].want] = NoRow
       THEN Over(t)
       ELSE Becomes(t, [th[t] EXCEPT !.pc = "store", !.seen = row[th[t].want]])
    /\ UNCHANGED <<row, cache, current, fresh, ops, behind, left, torn>>

\* m.cache.LoadOrStore.  History: the row has changed since.
Store(t) ==
    /\ At(t, "store")
    /\ LET m == th[t].want
       IN IF cache[m] = NoRow
          THEN /\ cache' = [cache EXCEPT ![m] = th[t].seen]
               /\ behind' = IF th[t].seen # row[m] THEN behind \cup {m} ELSE behind
               /\ Goto(t, th[t].then)
          ELSE /\ Becomes(t, [th[t] EXCEPT !.pc = th[t].then, !.seen = cache[m]])
               /\ UNCHANGED <<cache, behind>>
    /\ UNCHANGED <<row, current, fresh, ops, left, torn>>

-----------------------------------------------------------------------------
(* AddMovie *)

\* Movie.BeforeSave: the parent is a folder, and not a dynamic one.
ParentTakes(parent) ==
    parent # None => row[parent] # NoRow /\ row[parent].kind = "folder"

Add(t, m, base) ==
    /\ At(t, "idle")
    /\ ops < MaxOps
    /\ m \in fresh
    /\ base.parent # m /\ ParentTakes(base.parent)
    /\ row' = [row EXCEPT ![m] = base]
    /\ fresh' = fresh \ {m}
    /\ ops' = ops + 1
    /\ Becomes(t, [Idle EXCEPT !.pc = "swap", !.op = "add", !.id = m, !.base = base])
    /\ UNCHANGED <<cache, current, behind, left, torn>>

\* m.cache.Swap.  History: the row has changed since; what was to be evicted through an
\* entry that somebody has stored meanwhile stays.
Swap(t) ==
    /\ At(t, "swap")
    /\ LET m == th[t].id
       IN /\ cache' = [cache EXCEPT ![m] = th[t].base]
          /\ behind' = IF th[t].base # row[m] THEN behind \cup {m} ELSE behind \ {m}
          /\ left' = (left \cup Orphans(m)) \ {m}
    /\ Over(t)
    /\ UNCHANGED <<row, current, fresh, ops, torn>>

-----------------------------------------------------------------------------
(* checkCanModifyMovie *)

\* A request for an operation.  Deleting a movie loads it first, for its creator.
Start(t, o, m, base) ==
    /\ At(t, "idle")
    /\ ops < MaxOps
    /\ m = None => o \in {"clear", "set"}
    /\ base # NoRow <=> o = "update"
    /\ ops' = ops + 1
    /\ LET r == [Idle EXCEPT !.op = o, !.id = m, !.base = base]
       IN CASE o \in {"update", "clear"} -> Becomes(t, [r EXCEPT !.pc = "check"])
            [] o = "delete" -> Get(t, m, r, "check")
            [] o = "set" -> Becomes(t, [r EXCEPT !.pc = "current"])
    /\ UNCHANGED <<row, cache, current, fresh, behind, left, torn>>

\* Where an operation that may go on goes on.
Allowed == [update |-> "read", delete |-> "remove", clear |-> "remove"]
Allow(t, r) == Becomes(t, [r EXCEPT !.pc = Allowed[th[t].op], !.seen = NoRow, !.want = None,
                                !.folder = None, !.first = FALSE])

\* Mutant: only the current movie itself is protected.
CheckSelf(t) ==
    /\ At(t, "check")
    /\ LET m == th[t].id
           r == [th[t] EXCEPT !.cid = current]
       IN IF current # None /\ m \in {None, current} THEN Over(t) ELSE Allow(t, r)
    /\ UNCHANGED <<row, cache, current, fresh, ops, behind, left, torn>>

\* The current movie has changed since the check.
Overtaken(t) == th[t].cid # current

\* The current movie may not be changed, nor may everything be.
Check(t) ==
    /\ At(t, "check")
    /\ LET m == th[t].id
           r == [th[t] EXCEPT !.cid = current]
       IN CASE current # None /\ m \in {None, current} -> Over(t)
            [] current # None /\ m \notin {None, current} -> Get(t, m, r, "folder")
            [] current = None -> Allow(t, r)
    /\ UNCHANGED <<row, cache, current, fresh, ops, behind, left, torn>>

\* History: the check has read an outdated entry.
Misled(t) == IF th[t].seen # row[th[t].want] THEN torn \cup {th[t].cid} ELSE torn

\* IsParentFolder: the climb starts at the current movie and looks for the movie if it
\* is a folder, and else for its parent, except right at the start.
Folder(t) ==
    /\ At(t, "folder")
    /\ LET m == th[t].seen
           isFolder == m.kind # "file"
       IN Get(t, th[t].cid, [th[t] EXCEPT !.folder = IF isFolder THEN th[t].id ELSE m.parent,
                                          !.first = ~isFolder], "climb")
    /\ torn' = Misled(t)
    /\ UNCHANGED <<row, cache, current, fresh, ops, behind, left>>

\* Mutant: the climb stays where it is.
ClimbNowhere(t) ==
    /\ At(t, "climb")
    /\ LET p == th[t].seen.parent
       IN CASE p = None -> Allow(t, th[t])
            [] p # None /\ p = th[t].folder -> IF th[t].first THEN Allow(t, th[t]) ELSE Over(t)
            [] p # None /\ p # th[t].folder ->
                 Get(t, th[t].want, [th[t] EXCEPT !.first = FALSE], "climb")
    /\ UNCHANGED <<row, cache, current, fresh, ops, behind, left, torn>>

\* isParentOf, one level: the operation is refused if the folder is met.
Climb(t) ==
    /\ At(t, "climb")
    /\ LET p == th[t].seen.parent
       IN CASE p = None -> Allow(t, th[t])
            [] p # None /\ p = th[t].folder -> IF th[t].first THEN Allow(t, th[t]) ELSE Over(t)
            [] p # None /\ p # th[t].folder ->
                 Get(t, p, [th[t] EXCEPT !.first = FALSE], "climb")
    /\ torn' = Misled(t)
    /\ UNCHANGED <<row, cache, current, fresh, ops, behind, left>>

-----------------------------------------------------------------------------
(* Update *)

Read(t) ==
    /\ At(t, "read")
    /\ IF row[th[t].id] = NoRow THEN Over(t) ELSE Goto(t, "save")
    /\ UNCHANGED <<row, cache, current, fresh, ops, behind, left, torn>>

\* The check looks for the movie itself above the current one only if it is a folder.
Filed(m) == m # None /\ row[m] # NoRow /\ row[m].kind = "file"

\* db.SaveMovie: BeforeSave may refuse.  Nobody asks whether the folder moves into
\* itself, and GORM's Save creates a row that is gone.  History: what has moved although
\* the check should have, or would now have, prevented it.
SaveMovie(t) ==
    /\ At(t, "save")
    /\ LET m == th[t].id
       IN IF ParentTakes(th[t].base.parent)
          THEN /\ row' = [row EXCEPT ![m] = th[t].base]
               /\ torn' = torn \cup {k \in {m} : Overtaken(t)}
                               \cup {k \in Below({m}) : Overtaken(t) \/ Filed(m)}
               /\ Goto(t, "drop")
          ELSE Over(t) /\ UNCHANGED <<row, torn>>
    /\ UNCHANGED <<cache, current, fresh, ops, behind, left>>

\* m.cache.LoadAndDelete.  History: what was to be evicted through the movie stays.
Drop(t) ==
    /\ At(t, "drop")
    /\ LET m == th[t].id
       IN /\ cache' = [cache EXCEPT ![m] = NoRow]
          /\ behind' = behind \ {m}
          /\ left' = (left \cup Orphans(m)) \ {m}
    /\ Over(t)
    /\ UNCHANGED <<row, current, fresh, ops, torn>>

-----------------------------------------------------------------------------
(* DeleteMoviesByID, with one id, and DeleteMovieByParentID *)

\* The foreign key deletes what is in the folders, too.
Doomed(o, m) == Below({m}) \cup {k \in {m} : o = "delete" /\ k # None /\ row[k] # NoRow}

\* Of these, the cached ones that the cache does not lead to from the id; the movie
\* itself is among them.
Hidden(gone, m) ==
    IF m = None THEN {} ELSE {k \in gone \ Led({m}) : cache[k] # NoRow}

\* It is an error to delete nothing.  History: what the eviction will not reach, and what
\* the check should have protected.
Remove(t) ==
    /\ At(t, "remove")
    /\ \E gone \in {Doomed(th[t].op, th[t].id)} :
         IF gone = {}
         THEN Over(t) /\ UNCHANGED <<row, left, torn>>
         ELSE /\ row' = [k \in Movies |-> IF k \in gone THEN NoRow ELSE row[k]]
              /\ left' = left \cup Hidden(gone, th[t].id)
              /\ torn' = IF Overtaken(t) \/ Filed(th[t].id) THEN torn \cup gone ELSE torn
              /\ Becomes(t, [th[t] EXCEPT !.pc = "evict", !.ids = {th[t].id}])
    /\ UNCHANGED <<cache, current, fresh, ops, behind>>

\* The cached movies in the folders of ids; all of them if the root is among them.
Matching(ids) ==
    {k \in Movies : cache[k] # NoRow /\ (None \in ids \/ cache[k].parent \in ids)}

\* Mutant: the folders in the folder are left alone.
EvictFlat(t) ==
    /\ At(t, "evict")
    /\ LET hit == Matching(th[t].ids)
       IN /\ cache' = [k \in Movies |-> IF k \in hit THEN NoRow ELSE cache[k]]
          /\ behind' = behind \ hit /\ left' = left \ hit
    /\ Over(t)
    /\ UNCHANGED <<row, current, fresh, ops, torn>>

\* deleteMovieAndChiledCache: what is in the folders leaves the cache, then what is in the
\* folders among it.  The movie that was named stays.
Evict(t) ==
    /\ At(t, "evict")
    /\ LET hit == Matching(th[t].ids)
           next == {k \in hit : cache[k].kind # "file"}
       IN /\ cache' = [k \in Movies |-> IF k \in hit THEN NoRow ELSE cache[k]]
          /\ behind' = behind \ hit /\ left' = left \ hit
          /\ IF None \in th[t].ids \/ next = {} THEN Over(t)
             ELSE Becomes(t, [th[t] EXCEPT !.ids = next])
    /\ UNCHANGED <<row, current, fresh, ops, torn>>

-----------------------------------------------------------------------------
(* SetCurrentMovie *)

\* LoadCurrentMovie: the current movie is loaded, to clear its caches.
Current(t) ==
    /\ At(t, "current")
    /\ IF current = None THEN Goto(t, "pick") ELSE Get(t, current, th[t], "pick")
    /\ UNCHANGED <<row, cache, current, fresh, ops, behind, left, torn>>

Pick(t) ==
    /\ At(t, "pick")
    /\ IF th[t].id = None
       THEN current' = None /\ Over(t)
       ELSE UNCHANGED current /\ Get(t, th[t].id, th[t], "play")
    /\ UNCHANGED <<row, cache, fresh, ops, behind, left, torn>>

\* A static folder cannot be played.  History: the movie is gone from the database, or
\* was the current one before when an operation was checked that is still under way.
Play(t) ==
    /\ At(t, "play")
    /\ IF th[t].seen.kind = "folder"
       THEN UNCHANGED <<current, torn>>
       ELSE /\ current' = th[t].id
            /\ torn' = IF \/ row[th[t].id] = NoRow
                          \/ current # th[t].id /\ \E u \in Threads : th[u].cid = th[t].id
                       THEN torn \cup {th[t].id} ELSE torn
    /\ Over(t)
    /\ UNCHANGED <<row, cache, fresh, ops, behind, left>>

-----------------------------------------------------------------------------
\* The room object is closed with its cache, and loaded again with the current movie of
\* the database.
Reload ==
    /\ \A t \in Threads : At(t, "idle")
    /\ cache # [m \in Movies |-> NoRow]
    /\ cache' = [m \in Movies |-> NoRow]
    /\ behind' = {} /\ left' = {}
    /\ UNCHANGED <<row, current, fresh, th, ops, torn>>

Ask(t) == Found(t) \/ Query(t) \/ Store(t) \/ Climb(t)

MovieStep(t) ==
    \/ Ask(t)
    \/ Swap(t)
    \/ Check(t) \/ Folder(t)
    \/ Read(t) \/ SaveMovie(t) \/ Drop(t)
    \/ Remove(t) \/ Evict(t)
    \/ Current(t) \/ Pick(t) \/ Play(t)

\* No more operations are allowed.
Finished == ops = MaxOps /\ (\A t \in Threads : At(t, "idle")) /\ UNCHANGED moviesVars

MoviesNext ==
    \/ \E t \in Threads :
         \/ MovieStep(t)
         \/ \E m \in Movies, base \in Edits : Add(t, m, base)
         \/ \E o \in Ops, m \in Movies \cup {None}, base \in Edits \cup {NoRow} :
               Start(t, o, m, base)
    \/ Reload
    \/ Finished

MoviesSpec == MoviesInit /\ [][MoviesNext]_moviesVars

\* A goroutine that climbs is scheduled; nobody must make a request, and none need go on
\* for another to climb.
MoviesFairSpec == MoviesSpec /\ \A t \in Threads : WF_moviesVars(Ask(t))

-----------------------------------------------------------------------------
Steps == {"idle", "get", "store", "swap", "check", "folder", "climb", "read", "save",
          "drop", "remove", "evict", "current", "pick", "play"}

MoviesTypeOK ==
    /\ row \in [Movies -> Row \cup {NoRow}]
    /\ cache \in [Movies -> Row \cup {NoRow}]
    /\ current \in Movies \cup {None}
    /\ fresh \subseteq Movies
    /\ th \in [Threads -> [pc : Steps, op : Ops \cup {"none", "add"},
                           id : Movies \cup {None}, base : Edits \cup {NoRow},
                           cid : Movies \cup {None}, want : Movies \cup {None},
                           seen : Row \cup {NoRow}, then : Steps,
                           folder : Movies \cup {None}, first : BOOLEAN,
                           ids : SUBSET (Movies \cup {None})]]
    /\ \A t \in Threads : th[t].pc \in {"store", "folder", "climb", "play"} => th[t].seen # NoRow
    /\ ops \in 0..MaxOps
    /\ behind \subseteq Movies /\ left \subseteq Movies /\ torn \subseteq Movies

\* A cached movie that exists is its row, unless an update has not evicted it yet, or a
\* load that read the row before an update stored it afterwards.
ExistingFollow ==
    \A m \in Movies :
        cache[m] # NoRow /\ row[m] # NoRow =>
            \/ cache[m] = row[m]
            \/ \E t \in Threads : At(t, "drop") /\ th[t].id = m
            \/ m \in behind

\* What was in a deleted folder, at any depth, leaves the cache.  The exceptions: the
\* deleted movie itself, a movie whose folder was not cached, so that the eviction could
\* not follow it, and a movie stored by a load that was overtaken.
GoneAreEvicted ==
    \A m \in Movies :
        cache[m] # NoRow /\ row[m] = NoRow =>
            \/ \E t \in Threads : At(t, "evict")
            \/ m \in left \cup behind

\* The cache says of a movie what its row says, whatever was moved, changed, deleted or
\* created again meanwhile (movies.go:92-113, 140-213).
CacheTellsTruth == ExistingFollow /\ GoneAreEvicted

\* The current movie is in the database: no deletion of it, of a folder around it, or of
\* everything gets through.  The exceptions: the current movie was set after the check,
\* or from an entry of the cache whose row was gone; the check climbed through an
\* outdated entry; or the folder around it was turned into a file before it was deleted
\* or moved (room.go:371-459, 494-531, movies.go:270-305).
CurrentExists == current # None => row[current] # NoRow \/ current \in torn

\* Some movies are all in each other.
Cyclic(rows) ==
    \E knot \in SUBSET Movies \ {{}} :
        \A m \in knot : rows[m] # NoRow /\ rows[m].parent \in knot

\* The check of an operation ends, however the folders are moved while it climbs, unless
\* a folder has been moved into itself: nothing prevents that, and then the
\* climb never ends (movies.go:290-305, model/movie.go:48-69).
ChecksEnd ==
    \A t \in Threads :
        At(t, "climb") ~> \/ th[t].pc \in {"idle", "read", "remove"}
                          \/ Cyclic(row) \/ Cyclic(cache)
===============================================================================
