------------------------------ MODULE Playback -------------------------------
(***************************************************************************)
(* The playback position of a room (internal/op/current.go over            *)
(* internal/model/current.go): a status behind a read-write lock that      *)
(* writers set and save in the database and that readers, holding only     *)
(* the read lock, bring up to date before they copy it, so that readers    *)
(* may overlap: their unprotected loads and stores are separate steps.     *)
(* The clock and the positions are whole ticks.  The process may stop and  *)
(* reload the room from the database at any step.                          *)
(***************************************************************************)
EXTENDS Integers

CONSTANTS
    Writers,    \* goroutines that set the movie or the status
    Readers,    \* goroutines that ask for it
    Seeks,      \* positions a player may report
    Rates,      \* playback rates
    Diffs,      \* ages of a message, 0 to 1.5 seconds in the code
    MaxTime,    \* bound: the last tick of the clock
    MaxSets,    \* bound: how many times the status is set
    MayFail     \* bound: whether saving may fail

ASSUME PlaybackAssumption ==
    /\ Writers \cap Readers = {}
    /\ Seeks \subseteq Nat /\ Rates \subseteq Nat /\ Diffs \subseteq Nat
    /\ MaxTime \in Nat /\ MaxSets \in Nat
    /\ MayFail \in BOOLEAN

VARIABLES
    now,      \* the clock
    cur,      \* current.current: the status, and whether its movie is live
    saved,    \* rooms.current in the database, with the number of its set
    pc,       \* where each goroutine is
    val,      \* the number a reader has computed and not stored yet, 0 if none
    answer,   \* what each reader returned last since the status was set, with the
              \* number of that set
    base,     \* history: cur as it was last set
    ver,      \* history: the number of the set that cur stems from, 0 if none
    late,     \* history: ticks since that set which passed while a reader was
              \* between its time.Since and its time.Now
    again,    \* history: readers about to add an age that they took while another
              \* one was inside UpdateStatus
    twice,    \* history: ticks since that set which such readers added
    sets,     \* how often the status was set
    durable   \* history: the last set that returned with its save done

history == <<base, ver, late, again, twice, durable>>
vars == <<now, cur, saved, pc, val, answer, history, sets>>

Status == [live : BOOLEAN, playing : BOOLEAN, time : Nat, rate : Nat, last : Nat]

\* Whether the position moves with the clock.
Running(s) == s.playing /\ ~s.live

\* The position a player computes at time t from a status it was given.
Position(s, t) == IF Running(s) THEN s.time + (t - s.last) * s.rate ELSE s.time

NewStatus(t) == [live |-> FALSE, playing |-> FALSE, time |-> 0, rate |-> 1, last |-> t]

Numbered(n, s) == [ver |-> n, status |-> s]

\* What stands for no answer, and for no saved status.
Unasked == Numbered(0, NewStatus(0))

Init ==
    /\ now = 0
    /\ cur = NewStatus(0)
    /\ saved = Unasked
    /\ pc = [t \in Writers \cup Readers |-> "idle"]
    /\ val = [r \in Readers |-> 0]
    /\ answer = [r \in Readers |-> Unasked]
    /\ base = NewStatus(0) /\ ver = 0 /\ late = 0
    /\ again = {} /\ twice = 0
    /\ sets = 0 /\ durable = 0

-----------------------------------------------------------------------------
(* What the writers make of the status (model/current.go). *)

LiveStatus(t) == [live |-> TRUE, playing |-> TRUE, time |-> 0, rate |-> 1, last |-> t]

\* Where the film is when a message of that age says it was at seek.
Arrived(playing, seek, rate, diff) == IF playing THEN seek + diff * rate ELSE seek

SetStatus(s, playing, seek, rate, diff) ==
    IF s.live THEN LiveStatus(now)
    ELSE [s EXCEPT !.playing = playing, !.rate = rate, !.last = now,
                   !.time = Arrived(playing, seek, rate, diff)]

SetSeekRate(s, seek, rate, diff) ==
    IF s.live THEN LiveStatus(now)
    ELSE [s EXCEPT !.rate = rate, !.last = now,
                   !.time = Arrived(s.playing, seek, rate, diff)]

\* SetMovie is called with play = TRUE, or without a movie and FALSE; the rate of
\* the film before stays.
SetMovie(s, live, play) ==
    IF live THEN [LiveStatus(now) EXCEPT !.playing = play]
    ELSE [s EXCEPT !.live = FALSE, !.time = 0, !.last = now, !.playing = play]

AfterSetStatus ==
    {SetStatus(cur, p, k, r, d) : p \in BOOLEAN, k \in Seeks, r \in Rates, d \in Diffs}
AfterSetSeekRate == {SetSeekRate(cur, k, r, d) : k \in Seeks, r \in Rates, d \in Diffs}
AfterSetMovie ==
    {SetMovie(cur, FALSE, play) : play \in BOOLEAN} \cup {SetMovie(cur, TRUE, TRUE)}

NextStatuses == AfterSetStatus \cup AfterSetSeekRate \cup AfterSetMovie

-----------------------------------------------------------------------------
(* Writers: the lock is held until the status is saved. *)

Unlocked == \A t \in Writers \cup Readers : pc[t] = "idle"

Set(w) ==
    /\ Unlocked /\ sets < MaxSets
    /\ cur' \in NextStatuses
    /\ base' = cur' /\ ver' = sets + 1 /\ late' = 0 /\ twice' = 0
    /\ sets' = sets + 1
    /\ pc' = [pc EXCEPT ![w] = "save"]
    /\ answer' = [r \in Readers |-> Unasked]
    /\ UNCHANGED <<now, saved, val, again, durable>>

\* Mutant: the change returns without waiting for the database.
SaveNever(w) ==
    /\ pc[w] = "save"
    /\ durable' = ver
    /\ pc' = [pc EXCEPT ![w] = "idle"]
    /\ UNCHANGED <<now, cur, saved, val, answer, base, ver, late, again, twice, sets>>

\* A failure is only logged.
Save(w) ==
    /\ pc[w] = "save"
    /\ \/ saved' = Numbered(ver, cur) /\ durable' = ver
       \/ MayFail /\ UNCHANGED <<saved, durable>>
    /\ pc' = [pc EXCEPT ![w] = "idle"]
    /\ UNCHANGED <<now, cur, val, answer, base, ver, late, again, twice, sets>>

-----------------------------------------------------------------------------
(* Readers: UpdateStatus and the copy, under the read lock. *)

Step(r, from, to) == pc[r] = from /\ pc' = [pc EXCEPT ![r] = to]

\* Nobody is inside UpdateStatus.
Settled == \A r \in Readers : pc[r] \in {"idle", "copy"}

\* Mutant: time passes for a paused film, too.
ReadLastPaused(r) ==
    /\ pc[r] = "idle" /\ \A w \in Writers : pc[w] = "idle"
    /\ pc' = [pc EXCEPT ![r] = "load"]
    /\ val' = [val EXCEPT ![r] = now - cur.last]
    /\ UNCHANGED <<now, cur, saved, answer, history, sets>>

\* The branches of UpdateStatus; time.Since(LastUpdate) is evaluated first.
ReadLast(r) ==
    /\ pc[r] = "idle" /\ \A w \in Writers : pc[w] = "idle"
    /\ pc' = [pc EXCEPT ![r] = IF Running(cur) THEN "load" ELSE "stamp"]
    /\ val' = [val EXCEPT ![r] = IF Running(cur) THEN now - cur.last ELSE 0]
    /\ again' = IF Running(cur) /\ ~Settled THEN again \cup {r} ELSE again
    /\ UNCHANGED <<now, cur, saved, answer, base, ver, late, twice, durable, sets>>

\* Then CurrentTime is loaded and the product added, and the sum stored.
LoadTime(r) ==
    /\ Step(r, "load", "store")
    /\ val' = [val EXCEPT ![r] = cur.time + @ * cur.rate]
    /\ twice' = IF r \in again THEN twice + val[r] ELSE twice
    /\ again' = again \ {r}
    /\ UNCHANGED <<now, cur, saved, answer, base, ver, late, durable, sets>>

StoreTime(r) ==
    /\ Step(r, "store", "stamp")
    /\ cur' = [cur EXCEPT !.time = val[r]]
    /\ val' = [val EXCEPT ![r] = 0]
    /\ UNCHANGED <<now, saved, answer, history, sets>>

\* The time.Now() of LastUpdate, and the store.
TakeStamp(r) ==
    /\ Step(r, "stamp", "mark")
    /\ val' = [val EXCEPT ![r] = now]
    /\ UNCHANGED <<now, cur, saved, answer, history, sets>>

\* Mutant: the update forgets to move LastUpdate.
StoreLastNever(r) ==
    /\ Step(r, "mark", "copy")
    /\ val' = [val EXCEPT ![r] = 0]
    /\ UNCHANGED <<now, cur, saved, answer, history, sets>>

StoreLast(r) ==
    /\ Step(r, "mark", "copy")
    /\ cur' = [cur EXCEPT !.last = val[r]]
    /\ val' = [val EXCEPT ![r] = 0]
    /\ UNCHANGED <<now, saved, answer, history, sets>>

\* The reply carries no time: its player takes the position to be that of now.
CopyStatus(r) ==
    /\ Step(r, "copy", "idle")
    /\ answer' = [answer EXCEPT ![r] = Numbered(ver, [cur EXCEPT !.last = now])]
    /\ UNCHANGED <<now, cur, saved, val, history, sets>>

-----------------------------------------------------------------------------
(* The clock and the process. *)

Updating(r) == pc[r] \in {"load", "store", "stamp"}

Tick ==
    /\ now < MaxTime
    /\ now' = now + 1
    /\ late' = IF Running(cur) /\ \E r \in Readers : Updating(r) THEN late + 1 ELSE late
    /\ UNCHANGED <<cur, saved, pc, val, answer, base, ver, again, twice, sets, durable>>

\* The process stops, every connection breaks, and the room is loaded again:
\* newCurrent takes the saved status, or a new one if there is none.
Restart ==
    /\ cur' = IF saved.ver = 0 THEN NewStatus(now) ELSE saved.status
    /\ base' = cur' /\ ver' = saved.ver /\ late' = 0
    /\ again' = {} /\ twice' = 0
    /\ pc' = [t \in Writers \cup Readers |-> "idle"]
    /\ val' = [r \in Readers |-> 0]
    /\ answer' = [r \in Readers |-> Unasked]
    /\ UNCHANGED <<now, saved, sets, durable>>

ReaderStep(r) ==
    \/ ReadLast(r) \/ LoadTime(r) \/ StoreTime(r)
    \/ TakeStamp(r) \/ StoreLast(r) \/ CopyStatus(r)

Next ==
    \/ \E w \in Writers : Set(w) \/ Save(w)
    \/ \E r \in Readers : ReaderStep(r)
    \/ Tick
    \/ Restart

Spec == Init /\ [][Next]_vars

-----------------------------------------------------------------------------
(* Properties *)

ReaderSteps == {"idle", "load", "store", "stamp", "mark", "copy"}

TypeOK ==
    /\ now \in Nat /\ cur \in Status
    /\ saved \in [ver : Nat, status : Status]
    /\ pc \in [Writers \cup Readers -> ReaderSteps \cup {"save"}]
    /\ \A t \in Writers : pc[t] \in {"idle", "save"}
    /\ \A r \in Readers : pc[r] \in ReaderSteps
    /\ val \in [Readers -> Nat]
    /\ answer \in [Readers -> [ver : Nat, status : Status]]
    /\ base \in Status /\ ver \in Nat /\ late \in Nat
    /\ again \subseteq Readers /\ twice \in Nat
    /\ sets \in Nat /\ durable \in Nat

Slipped == IF Running(base) THEN late * base.rate ELSE 0
Doubled == IF Running(base) THEN twice * base.rate ELSE 0

\* Bringing the position up to date, however often, at whatever moments and by however
\* many readers at once, loses no time but the ticks that passed inside UpdateStatus,
\* and counts none twice but what readers added although another one was inside
\* UpdateStatus when they took it: none if they take turns (model/current.go:31-44).
TimeCountedOnce ==
    Settled =>
        /\ Position(base, now) <= Position(cur, now) + Slipped
        /\ Position(cur, now) <= Position(base, now) + Doubled

\* What a reader was told stays right while the status is not set again: a player that
\* extrapolates it is ahead of where the film was set to go at most by what overlapping
\* readers have counted twice, and not at all if they took turns (op/current.go:33-40,
\* 62-69).
AnswersNotAhead ==
    \A r \in Readers : answer[r].ver = ver =>
        Position(answer[r].status, now) <= Position(base, now) + Doubled

\* Stopping the process and loading the room again puts everybody back at the
\* point that was last set, time of the outage included, if that set had
\* returned without an error (op/current.go:48-60, 71-97, newCurrent 17-31).
RestartResumes ==
    [][Restart /\ durable = ver /\ ver > 0 => cur' = base /\ ver' = ver]_vars
==============================================================================
