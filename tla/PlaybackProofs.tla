--------------------------- MODULE PlaybackProofs ----------------------------
(***************************************************************************)
(* Proofs about Playback, for any clock, any seeks, rates and bounds, and  *)
(* any number of writers and of readers that overlap; about Movies, whose  *)
(* current one is played, for every tree, every edit and any number of     *)
(* requests at a time; and about Viewers, which shows the status to the    *)
(* players, for every set of viewers and statuses, capacity and bound.     *)
(***************************************************************************)
EXTENDS Playback, Movies, Sequences, TLAPS

\* Every time stamp lies in the past.
Causal ==
    /\ cur.last <= now /\ base.last <= now /\ saved.status.last <= now
    /\ \A r \in Readers : pc[r] = "mark" => val[r] <= now

TypeInv == TypeOK /\ Causal

\* New statuses are statuses of this moment.
LEMMA NewTyped ==
    ASSUME cur \in Status, now \in Nat
    PROVE  \A s \in NextStatuses : s \in Status /\ s.last = now
<1> TAKE s \in NextStatuses
<1>1. LiveStatus(now) \in Status /\ LiveStatus(now).last = now
    BY DEF LiveStatus, Status
<1>2. ASSUME NEW p \in BOOLEAN, NEW k \in Seeks, NEW r \in Rates, NEW d \in Diffs
      PROVE  Arrived(p, k, r, d) \in Nat
    <2>1. k \in Nat /\ d * r \in Nat
        BY PlaybackAssumption
    <2> QED BY <2>1 DEF Arrived
<1>3. ASSUME NEW p \in BOOLEAN, NEW k \in Seeks, NEW r \in Rates, NEW d \in Diffs,
             s = SetStatus(cur, p, k, r, d)
      PROVE  s \in Status /\ s.last = now
    <2>1. r \in Nat /\ Arrived(p, k, r, d) \in Nat
        BY <1>2, PlaybackAssumption
    <2> QED BY <1>1, <1>3, <2>1 DEF SetStatus, Status
<1>4. ASSUME NEW k \in Seeks, NEW r \in Rates, NEW d \in Diffs,
             s = SetSeekRate(cur, k, r, d)
      PROVE  s \in Status /\ s.last = now
    <2>1. r \in Nat /\ Arrived(cur.playing, k, r, d) \in Nat
        BY <1>2, PlaybackAssumption DEF Status
    <2> QED BY <1>1, <1>4, <2>1 DEF SetSeekRate, Status
<1>5. ASSUME NEW live \in BOOLEAN, NEW play \in BOOLEAN, s = SetMovie(cur, live, play)
      PROVE  s \in Status /\ s.last = now
    BY <1>1, <1>5 DEF SetMovie, Status
<1>6. CASE s \in AfterSetStatus
    BY <1>3, <1>6 DEF AfterSetStatus
<1>7. CASE s \in AfterSetSeekRate
    BY <1>4, <1>7 DEF AfterSetSeekRate
<1>8. CASE s \in AfterSetMovie
    BY <1>5, <1>8 DEF AfterSetMovie
<1> QED BY <1>6, <1>7, <1>8 DEF NextStatuses

\* What a step of the readers leaves alone.
LEMMA ReaderFrame ==
    ASSUME NEW r \in Readers, ReaderStep(r)
    PROVE  UNCHANGED <<now, saved, base, ver, late, durable, sets>>
BY DEF ReaderStep, ReadLast, LoadTime, StoreTime, TakeStamp, StoreLast, CopyStatus, history

LEMMA TypeStep == TypeInv /\ [Next]_vars => TypeInv'
<1> SUFFICES ASSUME TypeInv, [Next]_vars PROVE TypeInv'
    OBVIOUS
<1> USE PlaybackAssumption
<1>1. ASSUME NEW w \in Writers, Set(w) PROVE TypeInv'
    <2>1. cur' \in Status /\ cur'.last = now
        BY <1>1, NewTyped DEF TypeInv, TypeOK, Set
    <2>2. Unasked \in [ver : Nat, status : Status]
        BY DEF Unasked, Numbered, NewStatus, Status
    <2>3. answer' \in [Readers -> [ver : Nat, status : Status]]
        BY <1>1, <2>2 DEF Set
    <2>4. UNCHANGED <<now, saved, val, again, durable>> /\ base' = cur'
          /\ ver' = sets + 1 /\ sets' = sets + 1 /\ late' = 0 /\ twice' = 0
          /\ pc' = [pc EXCEPT ![w] = "save"]
        BY <1>1 DEF Set
    <2> QED BY <2>1, <2>3, <2>4 DEF TypeInv, TypeOK, Causal, ReaderSteps
<1>2. ASSUME NEW w \in Writers, Save(w) PROVE TypeInv'
    <2>1. saved' \in [ver : Nat, status : Status] /\ saved'.status.last <= now
        BY <1>2 DEF TypeInv, TypeOK, Causal, Save, Numbered
    <2> QED BY <1>2, <2>1 DEF TypeInv, TypeOK, Causal, Save, ReaderSteps
<1>3. ASSUME NEW r \in Readers, ReadLast(r) PROVE TypeInv'
    <2>1. now - cur.last \in Nat
        BY DEF TypeInv, TypeOK, Causal, Status
    <2> QED BY <1>3, <2>1 DEF TypeInv, TypeOK, Causal, ReadLast, ReaderSteps, history
<1>4. ASSUME NEW r \in Readers, LoadTime(r) PROVE TypeInv'
    <2>1. cur.time \in Nat /\ val[r] \in Nat /\ cur.rate \in Nat
        BY DEF TypeInv, TypeOK, Status
    <2>2. cur.time + val[r] * cur.rate \in Nat
        BY <2>1
    <2> QED BY <1>4, <2>2 DEF TypeInv, TypeOK, Causal, LoadTime, Step, ReaderSteps, history
<1>5. ASSUME NEW r \in Readers, StoreTime(r) PROVE TypeInv'
    <2>1. cur' \in Status /\ cur'.last = cur.last
        BY <1>5 DEF TypeInv, TypeOK, StoreTime, Status
    <2> QED BY <1>5, <2>1 DEF TypeInv, TypeOK, Causal, StoreTime, Step, ReaderSteps, history
<1>6. ASSUME NEW r \in Readers, TakeStamp(r) PROVE TypeInv'
    BY <1>6 DEF TypeInv, TypeOK, Causal, TakeStamp, Step, ReaderSteps, history
<1>7. ASSUME NEW r \in Readers, StoreLast(r) PROVE TypeInv'
    <2>1. cur' \in Status /\ cur'.last <= now
        BY <1>7 DEF TypeInv, TypeOK, Causal, StoreLast, Step, Status
    <2> QED BY <1>7, <2>1 DEF TypeInv, TypeOK, Causal, StoreLast, Step, ReaderSteps, history
<1>8. ASSUME NEW r \in Readers, CopyStatus(r) PROVE TypeInv'
    <2>1. Numbered(ver, [cur EXCEPT !.last = now]) \in [ver : Nat, status : Status]
        BY DEF TypeInv, TypeOK, Numbered, Status
    <2> QED BY <1>8, <2>1 DEF TypeInv, TypeOK, Causal, CopyStatus, Step, ReaderSteps, history
<1>9. CASE Tick
    <2>1. \A n \in Int : n <= now => n <= now'
        BY <1>9 DEF Tick, TypeInv, TypeOK
    <2> QED BY <1>9, <2>1 DEF TypeInv, TypeOK, Causal, Tick, Status, ReaderSteps
<1>10. CASE Restart
    <2>1. NewStatus(now) \in Status /\ NewStatus(now).last = now
        BY DEF NewStatus, Status, TypeInv, TypeOK
    <2>2. Unasked \in [ver : Nat, status : Status]
        BY DEF Unasked, Numbered, NewStatus, Status
    <2> QED BY <1>10, <2>1, <2>2 DEF TypeInv, TypeOK, Causal, Restart, ReaderSteps
<1>11. CASE UNCHANGED vars
    BY <1>11 DEF TypeInv, TypeOK, Causal, vars, history
<1> QED BY <1>1, <1>2, <1>3, <1>4, <1>5, <1>6, <1>7, <1>8, <1>9, <1>10, <1>11
        DEF Next, ReaderStep

LEMMA TypeInit == Init => TypeInv
<1>1. NewStatus(0) \in Status /\ NewStatus(0).last = 0
    BY DEF NewStatus, Status
<1>2. Unasked \in [ver : Nat, status : Status] /\ Unasked.status.last = 0
    BY <1>1 DEF Unasked, Numbered
<1> QED BY <1>1, <1>2 DEF Init, TypeInv, TypeOK, Causal, ReaderSteps

LEMMA TypeAlways == Spec => []TypeInv
BY TypeInit, TypeStep, PTL DEF Spec

\* Every variable keeps its type: in particular no position and no elapsed time is
\* ever negative, however readers race (op/current.go, model/current.go).
THEOREM TypeCorrect == Spec => []TypeOK
<1>1. TypeInv => TypeOK
    BY DEF TypeInv
<1> QED BY <1>1, TypeAlways, PTL

-----------------------------------------------------------------------------
(* What a restart finds.                                                     *)

\* A writer that is saving is alone and saves what it has set.
SavingAlone ==
    \A w \in Writers : pc[w] = "save" =>
        cur = base /\ \A t \in Writers \cup Readers : t # w => pc[t] = "idle"

\* Sets are numbered upwards, and the saved status of the present set is that set's.
Numbering ==
    /\ saved.ver <= sets /\ ver <= sets /\ durable <= sets
    /\ saved.ver = ver /\ ver > 0 => saved.status = base
    /\ durable = ver /\ ver > 0 => saved.ver = ver

SaveInv == TypeInv /\ SavingAlone /\ Numbering

LEMMA SaveInit == Init => SaveInv
<1> QED BY TypeInit DEF Init, SaveInv, SavingAlone, Numbering, Unasked, Numbered

LEMMA SaveStep == SaveInv /\ [Next]_vars => SaveInv'
<1> SUFFICES ASSUME SaveInv, [Next]_vars PROVE SavingAlone' /\ Numbering'
    BY TypeStep DEF SaveInv
<1> USE PlaybackAssumption DEF SaveInv, TypeInv, TypeOK
<1>1. ASSUME NEW w \in Writers, Set(w) PROVE SavingAlone' /\ Numbering'
    <2>1. SavingAlone'
        BY <1>1 DEF Set, Unlocked, SavingAlone
    <2>2. Numbering'
        BY <1>1 DEF Set, Numbering
    <2> QED BY <2>1, <2>2
<1>2. ASSUME NEW w \in Writers, Save(w) PROVE SavingAlone' /\ Numbering'
    <2>1. SavingAlone'
        BY <1>2 DEF Save, SavingAlone
    <2>2. cur = base
        BY <1>2 DEF Save, SavingAlone
    <2>3. Numbering'
        BY <1>2, <2>2 DEF Save, Numbering, Numbered
    <2> QED BY <2>1, <2>3
<1>3. ASSUME NEW r \in Readers, ReaderStep(r) PROVE SavingAlone' /\ Numbering'
    <2>1. \A w \in Writers : pc[w] = "idle" /\ pc'[w] = "idle"
        BY <1>3 DEF ReaderStep, ReadLast, LoadTime, StoreTime, TakeStamp, StoreLast,
                    CopyStatus, Step, SavingAlone, ReaderSteps
    <2>2. SavingAlone'
        BY <2>1 DEF SavingAlone
    <2>3. UNCHANGED <<saved, base, ver, durable, sets>>
        BY <1>3, ReaderFrame
    <2> QED BY <2>2, <2>3 DEF Numbering
<1>4. CASE Tick
    BY <1>4 DEF Tick, SavingAlone, Numbering
<1>5. CASE Restart
    BY <1>5 DEF Restart, SavingAlone, Numbering
<1>6. CASE UNCHANGED vars
    BY <1>6 DEF vars, history, SavingAlone, Numbering
<1> QED BY <1>1, <1>2, <1>3, <1>4, <1>5, <1>6 DEF Next

LEMMA SaveAlways == Spec => []SaveInv
BY SaveInit, SaveStep, PTL DEF Spec

\* Whenever the process stops, the reloaded room resumes at the last set, if that
\* set had returned and been saved (op/current.go:48-60, 71-97).
THEOREM Resumes == Spec => RestartResumes
<1>1. SaveInv /\ [Next]_vars
        => [Restart /\ durable = ver /\ ver > 0 => cur' = base /\ ver' = ver]_vars
    BY DEF SaveInv, Numbering, Restart
<1> QED BY <1>1, SaveAlways, PTL DEF Spec, RestartResumes

-----------------------------------------------------------------------------
(* The account of time, for any number of readers that overlap.              *)

SameMode(s, t) == s.live = t.live /\ s.playing = t.playing /\ s.rate = t.rate

\* Readers change the position only while it moves.
ModeKept ==
    /\ SameMode(cur, base)
    /\ ~Running(cur) => cur.time = base.time
    /\ \A r \in Readers : pc[r] \in {"load", "store"} => Running(cur)

\* Where the position would be now if this reader were the next to store.
Reached(r) ==
    IF pc[r] = "load" THEN cur.time + val[r] * base.rate
    ELSE IF pc[r] = "store" THEN val[r]
    ELSE IF pc[r] = "stamp" THEN cur.time
    ELSE IF pc[r] = "mark" THEN cur.time + (now - val[r]) * base.rate
    ELSE cur.time + (now - cur.last) * base.rate

Shown == cur.time + (now - cur.last) * base.rate
Expected == base.time + (now - base.last) * base.rate
Lost == late * base.rate

\* Nothing that is or will be stored is further behind than the late ticks.
NoneLost ==
    Running(cur) =>
        /\ Expected <= Shown + Lost
        /\ \A r \in Readers : Expected <= Reached(r) + Lost

\* A reader whose age is not counted again: it came while nobody was inside.
Opens(r) == pc[r] = "load" /\ r \notin again

OneOpens == \A r, k \in Readers : Opens(r) /\ Opens(k) => r = k

\* c ticks are in the position, v[r] in the one that r is about to store, and the
\* updates under way began at b.
Counted(c, v, b) ==
    /\ cur.time = base.time + c * base.rate
    /\ \A r \in Readers : pc[r] = "store" => val[r] = base.time + v[r] * base.rate

Ceiling(b) == b - base.last + twice

SettledBelow(c) == c + (now - cur.last) <= Ceiling(now)

UnsettledBelow(c, v, b) ==
    /\ b <= now /\ c <= Ceiling(b)
    /\ \A r \in Readers :
        /\ pc[r] = "store" => v[r] <= Ceiling(b)
        /\ pc[r] = "mark" => b <= val[r]
        /\ Opens(r) =>
            /\ c + val[r] <= Ceiling(b)
            /\ \A k \in Readers : pc[k] = "store" => v[k] + val[r] <= Ceiling(b)

CountedBelow(c, v, b) ==
    IF Settled THEN SettledBelow(c) ELSE UnsettledBelow(c, v, b)

\* Every position that is or will be stored counts the time since the set at most
\* once, but for the ages that were counted again.
NoneTwice ==
    Running(cur) =>
        \E c \in Nat, v \in [Readers -> Nat], b \in Nat : Counted(c, v, b) /\ CountedBelow(c, v, b)

Answered ==
    \A r \in Readers : answer[r].ver = ver =>
        /\ SameMode(answer[r].status, base) /\ answer[r].status.last <= now
        /\ Position(answer[r].status, now) <= Position(base, now) + Doubled

TimeInv == SaveInv /\ ModeKept /\ NoneLost /\ OneOpens /\ NoneTwice /\ Answered

\* What the proofs below need of the types.
LEMMA TimeTyped ==
    ASSUME SaveInv
    PROVE  /\ cur \in Status /\ base \in Status /\ now \in Nat /\ late \in Nat
           /\ twice \in Nat /\ ver \in Nat /\ sets \in Nat /\ saved.ver \in Nat
           /\ cur.time \in Nat /\ cur.last \in Nat /\ cur.rate \in Nat
           /\ base.time \in Nat /\ base.last \in Nat /\ base.rate \in Nat
           /\ now - cur.last \in Nat /\ now - base.last \in Nat
           /\ \A r \in Readers : /\ val[r] \in Nat /\ pc[r] \in ReaderSteps
                                 /\ pc[r] = "mark" => now - val[r] \in Nat
           /\ val \in [Readers -> Nat] /\ pc \in [Writers \cup Readers -> ReaderSteps \cup {"save"}]
           /\ answer \in [Readers -> [ver : Nat, status : Status]]
<1>1. TypeOK /\ Causal
    BY DEF SaveInv, TypeInv
<1>2. cur \in Status /\ base \in Status /\ now \in Nat
    BY <1>1 DEF TypeOK
<1>3. /\ cur.time \in Nat /\ cur.last \in Nat /\ cur.rate \in Nat
      /\ base.time \in Nat /\ base.last \in Nat /\ base.rate \in Nat
    BY <1>2 DEF Status
<1>4. now - cur.last \in Nat /\ now - base.last \in Nat
    BY <1>1, <1>2, <1>3 DEF Causal
<1>5. \A r \in Readers : val[r] \in Nat /\ pc[r] \in ReaderSteps
    BY <1>1 DEF TypeOK
<1>6. \A r \in Readers : pc[r] = "mark" => now - val[r] \in Nat
    BY <1>1, <1>2, <1>5 DEF Causal
<1> QED BY <1>1, <1>2, <1>3, <1>4, <1>5, <1>6 DEF TypeOK

-----------------------------------------------------------------------------

LEMMA ModeStep == SaveInv /\ ModeKept /\ [Next]_vars => ModeKept'
<1> SUFFICES ASSUME SaveInv, ModeKept, [Next]_vars PROVE ModeKept'
    OBVIOUS
<1>t. /\ cur \in Status /\ \A r \in Readers : pc[r] \in ReaderSteps
      /\ pc \in [Writers \cup Readers -> ReaderSteps \cup {"save"}]
    BY TimeTyped
<1>1. ASSUME NEW w \in Writers, Set(w) PROVE ModeKept'
    BY <1>1, <1>t, PlaybackAssumption DEF Set, Unlocked, ModeKept, SameMode
<1>2. ASSUME NEW w \in Writers, Save(w) PROVE ModeKept'
    BY <1>2, <1>t, PlaybackAssumption DEF Save, ModeKept, SameMode, Running
<1>3. ASSUME NEW r \in Readers, ReadLast(r) PROVE ModeKept'
    BY <1>3, <1>t DEF ReadLast, ModeKept, SameMode, Running
<1>4. ASSUME NEW r \in Readers, LoadTime(r) PROVE ModeKept'
    BY <1>4, <1>t DEF LoadTime, Step, ModeKept, SameMode, Running
<1>5. ASSUME NEW r \in Readers, StoreTime(r) PROVE ModeKept'
    BY <1>5, <1>t DEF StoreTime, Step, ModeKept, SameMode, Running, Status, history
<1>6. ASSUME NEW r \in Readers, TakeStamp(r) PROVE ModeKept'
    BY <1>6, <1>t DEF TakeStamp, Step, ModeKept, SameMode, Running, history
<1>7. ASSUME NEW r \in Readers, StoreLast(r) PROVE ModeKept'
    BY <1>7, <1>t DEF StoreLast, Step, ModeKept, SameMode, Running, Status, history
<1>8. ASSUME NEW r \in Readers, CopyStatus(r) PROVE ModeKept'
    BY <1>8, <1>t DEF CopyStatus, Step, ModeKept, SameMode, Running, history
<1>9. CASE Tick
    BY <1>9 DEF Tick, ModeKept, SameMode, Running
<1>10. CASE Restart
    BY <1>10 DEF Restart, ModeKept, SameMode
<1>11. CASE UNCHANGED vars
    BY <1>11 DEF vars, history, ModeKept, SameMode, Running
<1> QED BY <1>1, <1>2, <1>3, <1>4, <1>5, <1>6, <1>7, <1>8, <1>9, <1>10, <1>11
        DEF Next, ReaderStep

\* Multiples of the rate.
LEMMA Multiples ==
    ASSUME NEW q \in Nat
    PROVE  /\ \A n \in Nat : n * q \in Nat
           /\ \A n \in Int : n * q \in Int /\ (n + 1) * q = n * q + q
           /\ \A m, n \in Int : (m + n) * q = m * q + n * q
           /\ \A m, n \in Int : m <= n => m * q <= n * q
           /\ 0 * q = 0
<1>1. \A m, n \in Int : (m + n) * q = m * q + n * q
    OBVIOUS
<1>2. \A n \in Nat : n * q \in Nat
    OBVIOUS
<1>3. ASSUME NEW m \in Int, NEW n \in Int, m <= n PROVE m * q <= n * q
    <2>0. n - m \in Nat /\ n = m + (n - m)
        BY <1>3
    <2>1. (n - m) * q \in Nat /\ n * q = (m + (n - m)) * q
        BY <1>2, <2>0
    <2>2. (m + (n - m)) * q = m * q + (n - m) * q
        BY <1>1
    <2>3. m * q \in Int
        OBVIOUS
    <2> QED BY <2>1, <2>2, <2>3
<1> QED BY <1>1, <1>2, <1>3

LEMMA LostInit == Init => NoneLost
<1> SUFFICES ASSUME Init PROVE ~Running(cur)
    BY DEF NoneLost
<1> QED BY DEF Init, NewStatus, Running

LEMMA LostStep == SaveInv /\ ModeKept /\ NoneLost /\ [Next]_vars => NoneLost'
<1> SUFFICES ASSUME SaveInv, ModeKept, NoneLost, [Next]_vars, Running(cur)'
             PROVE  Expected' <= Shown' + Lost' /\ \A k \in Readers : Expected' <= Reached(k)' + Lost'
    BY DEF NoneLost
<1> DEFINE Kept == Expected' <= Shown' + Lost' /\ \A k \in Readers : Expected' <= Reached(k)' + Lost'
<1> SUFFICES Kept
    OBVIOUS
<1>t. /\ cur \in Status /\ base \in Status /\ now \in Nat /\ late \in Nat
      /\ cur.time \in Nat /\ cur.last \in Nat /\ base.time \in Nat /\ base.last \in Nat
      /\ base.rate \in Nat /\ now - cur.last \in Nat
      /\ \A r \in Readers : /\ val[r] \in Nat /\ pc[r] \in ReaderSteps
                            /\ pc[r] = "mark" => now - val[r] \in Nat
      /\ val \in [Readers -> Nat] /\ pc \in [Writers \cup Readers -> ReaderSteps \cup {"save"}]
    BY TimeTyped
<1>m. /\ \A n \in Nat : n * base.rate \in Nat
      /\ \A n \in Int : n * base.rate \in Int /\ (n + 1) * base.rate = n * base.rate + base.rate
      /\ 0 * base.rate = 0
    BY <1>t, Multiples
<1>p. \A t, n \in Nat : t + n * base.rate \in Nat /\ n * base.rate \in Nat
    BY <1>t
<1>s. cur.rate = base.rate
    BY DEF ModeKept, SameMode
<1>i. Expected \in Int /\ Shown \in Nat /\ Lost \in Nat /\ \A k \in Readers : Reached(k) \in Nat
    <2>1. base.time + (now - base.last) * base.rate \in Int
        BY <1>t
    <2>2. cur.time + (now - cur.last) * base.rate \in Nat /\ late * base.rate \in Nat
        BY <1>p, <1>t
    <2>3. ASSUME NEW k \in Readers PROVE Reached(k) \in Nat
        <3>1. cur.time + val[k] * base.rate \in Nat
            BY <1>p, <1>t
        <3>2. pc[k] = "mark" => cur.time + (now - val[k]) * base.rate \in Nat
            BY <1>p, <1>t
        <3> QED BY <2>2, <3>1, <3>2, <1>t DEF Reached
    <2>4. Expected \in Int /\ Shown \in Nat
        BY <2>1, <2>2, <1>s DEF Expected, Shown
    <2>5. Lost \in Nat
        BY <2>2 DEF Lost
    <2> QED BY <2>3, <2>4, <2>5
<1>old. ASSUME Running(cur)
        PROVE  Expected <= Shown + Lost /\ \A k \in Readers : Expected <= Reached(k) + Lost
    BY <1>old DEF NoneLost
<1>new. ASSUME cur' = base', late' = 0, cur' \in Status, now' \in Nat, \A k \in Readers : pc'[k] = "idle"
        PROVE  Kept
    <2>1. /\ cur'.time \in Nat /\ cur'.last \in Nat /\ cur'.rate \in Nat
        BY <1>new DEF Status
    <2>2. Shown' = Expected' /\ Lost' = 0 /\ Expected' \in Int
        BY <1>new, <2>1, Multiples DEF Shown, Expected, Lost
    <2>3. Expected' <= Shown' + Lost'
        <3>1. \A x \in Int : x <= x + 0
            OBVIOUS
        <3> QED BY <2>2, <3>1
    <2>4. ASSUME NEW k \in Readers PROVE Expected' <= Reached(k)' + Lost'
        <3>1. Reached(k)' = Shown'
            BY <1>new DEF Reached, Shown
        <3> QED BY <2>3, <3>1
    <2> QED BY <2>3, <2>4
<1>0. cur' \in Status /\ now' \in Nat
    BY TypeStep DEF SaveInv, TypeInv, TypeOK
<1>1. ASSUME NEW w \in Writers, Set(w) PROVE Kept
    <2>1. \A k \in Readers : pc'[k] = "idle"
        BY <1>1, <1>t, PlaybackAssumption DEF Set, Unlocked
    <2> QED BY <1>0, <1>1, <1>new, <2>1 DEF Set
<1>2. ASSUME NEW w \in Writers, Save(w) PROVE Kept
    <2>1. /\ UNCHANGED <<cur, base, now, late, val>>
          /\ \A k \in Readers : pc'[k] = pc[k]
        BY <1>2, <1>t, PlaybackAssumption DEF Save
    <2>2. Expected' = Expected /\ Shown' = Shown /\ Lost' = Lost /\ Running(cur)
        BY <2>1 DEF Expected, Shown, Lost, Running
    <2>3. \A k \in Readers : Reached(k)' = Reached(k)
        BY <2>1 DEF Reached
    <2> QED BY <1>old, <2>2, <2>3
<1>3. ASSUME NEW r \in Readers, ReaderStep(r) PROVE Kept
    <2>1. UNCHANGED <<now, base, late>>
        BY <1>3, ReaderFrame
    <2>2. Expected' = Expected /\ Lost' = Lost
        BY <2>1 DEF Expected, Lost
    <2>3. Running(cur)
        BY <1>3, <1>t DEF ReaderStep, ReadLast, LoadTime, StoreTime, TakeStamp, StoreLast,
                          CopyStatus, Running, Status
    <2>4. Expected <= Shown + Lost /\ \A k \in Readers : Expected <= Reached(k) + Lost
        BY <1>old, <2>3
    <2>5. SUFFICES /\ Shown' \in Nat /\ Expected <= Shown' + Lost
                   /\ \A k \in Readers : Expected <= Reached(k)' + Lost
        BY <2>2
    <2>6. CASE ReadLast(r)
        <3>1. UNCHANGED cur /\ pc'[r] = "load" /\ val'[r] = now - cur.last
            BY <2>3, <2>6, <1>t DEF ReadLast
        <3>2. Shown' = Shown /\ Reached(r)' = Shown
            BY <2>1, <3>1 DEF Shown, Reached
        <3>3. \A k \in Readers \ {r} : Reached(k)' = Reached(k)
            BY <2>1, <2>6, <3>1, <1>t DEF ReadLast, Reached
        <3> QED BY <2>4, <3>2, <3>3, <1>i
    <2>7. CASE LoadTime(r)
        <3>1. UNCHANGED cur /\ pc[r] = "load" /\ pc'[r] = "store"
              /\ val'[r] = cur.time + val[r] * cur.rate
            BY <2>7, <1>t DEF LoadTime, Step
        <3>2. Shown' = Shown /\ Reached(r)' = Reached(r)
            BY <2>1, <3>1, <1>s DEF Shown, Reached
        <3>3. \A k \in Readers \ {r} : Reached(k)' = Reached(k)
            BY <2>1, <2>7, <3>1, <1>t DEF LoadTime, Step, Reached
        <3> QED BY <2>4, <3>2, <3>3, <1>i
    <2>8. CASE StoreTime(r)
        <3>1. /\ pc[r] = "store" /\ pc'[r] = "stamp" /\ cur'.time = val[r] /\ cur'.last = cur.last
              /\ \A k \in Readers \ {r} : pc'[k] = pc[k] /\ val'[k] = val[k]
            BY <2>8, <1>t DEF StoreTime, Step, Status
        <3>2. Expected <= val[r] + Lost
            BY <2>4, <3>1 DEF Reached
        <3>3. Shown' = val[r] + (now - cur.last) * base.rate
            BY <2>1, <3>1 DEF Shown
        <3>4. (now - cur.last) * base.rate \in Nat
            BY <1>m, <1>t
        <3>5. Shown' \in Nat /\ Expected <= Shown' + Lost
            BY <3>2, <3>3, <3>4, <1>t, <1>i
        <3>6. Expected <= Reached(r)' + Lost
            BY <3>1, <3>2 DEF Reached
        <3>7. ASSUME NEW k \in Readers \ {r} PROVE Expected <= Reached(k)' + Lost
            <4>1. CASE pc[k] = "load"
                <5>1. Reached(k)' = val[r] + val[k] * base.rate /\ val[k] * base.rate \in Nat
                    BY <2>1, <3>1, <4>1, <1>t, <1>m DEF Reached
                <5> QED BY <3>2, <5>1, <1>t, <1>i
            <4>2. CASE pc[k] = "store"
                BY <2>4, <3>1, <4>2 DEF Reached
            <4>3. CASE pc[k] = "stamp"
                BY <3>1, <3>2, <4>3 DEF Reached
            <4>4. CASE pc[k] = "mark"
                <5>1. Reached(k)' = val[r] + (now - val[k]) * base.rate
                    BY <2>1, <3>1, <4>4 DEF Reached
                <5>2. (now - val[k]) * base.rate \in Nat
                    BY <4>4, <1>t, <1>m
                <5> QED BY <3>2, <5>1, <5>2, <1>t, <1>i
            <4>5. CASE pc[k] \notin {"load", "store", "stamp", "mark"}
                BY <2>1, <3>1, <3>3, <3>5, <4>5 DEF Reached
            <4> QED BY <4>1, <4>2, <4>3, <4>4, <4>5
        <3> QED BY <3>5, <3>6, <3>7
    <2>9. CASE TakeStamp(r)
        <3>1. UNCHANGED cur /\ pc[r] = "stamp" /\ pc'[r] = "mark" /\ val'[r] = now
            BY <2>9, <1>t DEF TakeStamp, Step
        <3>2. now - now = 0
            BY <1>t
        <3>3. Reached(r)' = cur.time + (now - now) * base.rate
            BY <2>1, <3>1 DEF Reached
        <3>4. Shown' = Shown
            BY <2>1, <3>1 DEF Shown
        <3>6. Reached(r)' = Reached(r)
            <4>1. Reached(r) = cur.time
                BY <3>1 DEF Reached
            <4>2. cur.time + (now - now) * base.rate = cur.time
                BY <3>2, <1>t
            <4> QED BY <3>3, <4>1, <4>2
        <3>5. \A k \in Readers \ {r} : Reached(k)' = Reached(k)
            BY <2>1, <2>9, <3>1, <1>t DEF TakeStamp, Step, Reached
        <3> QED BY <2>4, <3>4, <3>5, <3>6, <1>i
    <2>10. CASE StoreLast(r)
        <3>1. /\ pc[r] = "mark" /\ pc'[r] = "copy" /\ cur'.time = cur.time /\ cur'.last = val[r]
              /\ \A k \in Readers \ {r} : pc'[k] = pc[k] /\ val'[k] = val[k]
            BY <2>10, <1>t DEF StoreLast, Step, Status
        <3>2. Shown' = Reached(r)
            BY <2>1, <3>1 DEF Shown, Reached
        <3>3. Reached(r)' = Shown'
            BY <3>1 DEF Shown, Reached
        <3>4. \A k \in Readers \ {r} : Reached(k)' = Reached(k) \/ Reached(k)' = Shown'
            BY <2>1, <3>1 DEF Shown, Reached
        <3> QED BY <2>4, <3>2, <3>3, <3>4, <1>i
    <2>11. CASE CopyStatus(r)
        <3>1. UNCHANGED <<cur, val>> /\ pc[r] = "copy" /\ pc'[r] = "idle"
              /\ \A k \in Readers \ {r} : pc'[k] = pc[k]
            BY <2>11, <1>t DEF CopyStatus, Step
        <3>2. Shown' = Shown /\ \A k \in Readers : Reached(k)' = Reached(k)
            BY <2>1, <3>1 DEF Shown, Reached
        <3> QED BY <2>4, <3>2, <1>i
    <2> QED BY <1>3, <2>6, <2>7, <2>8, <2>9, <2>10, <2>11 DEF ReaderStep
<1>4. CASE Tick
    <2>1. now' = now + 1 /\ UNCHANGED <<cur, pc, val, base>> /\ Running(cur)
        BY <1>4 DEF Tick, Running
    <2>2. ASSUME NEW l \in Int
          PROVE  /\ (now' - l) * base.rate = (now - l) * base.rate + base.rate
                 /\ (now - l) * base.rate \in Int
        <3>1. now' - l = (now - l) + 1 /\ now - l \in Int
            BY <2>1, <1>t
        <3> QED BY <3>1, <1>m
    <2>3. Expected' = Expected + base.rate /\ Shown' = Shown + base.rate
        BY <2>1, <2>2, <1>t DEF Expected, Shown
    <2>4. Expected <= Shown + Lost /\ \A k \in Readers : Expected <= Reached(k) + Lost
        BY <1>old, <2>1
    <2>5. \A k \in Readers :
              Reached(k)' = IF Updating(k) THEN Reached(k) ELSE Reached(k) + base.rate
        BY <2>1, <2>2, <1>t DEF Reached, Updating
    <2>6. CASE \E k \in Readers : Updating(k)
        <3>1. late' = late + 1
            BY <1>4, <2>1, <2>6 DEF Tick
        <3>2. Lost' = Lost + base.rate
            BY <2>1, <3>1, <1>m, <1>t DEF Lost
        <3> QED BY <2>3, <2>4, <2>5, <3>2, <1>i, <1>t
    <2>7. CASE \A k \in Readers : ~Updating(k)
        <3>1. late' = late
            BY <1>4, <2>7 DEF Tick
        <3>2. Lost' = Lost
            BY <2>1, <3>1 DEF Lost
        <3> QED BY <2>3, <2>4, <2>5, <2>7, <3>2, <1>i, <1>t
    <2> QED BY <2>6, <2>7
<1>5. CASE Restart
    <2>1. \A k \in Readers : pc'[k] = "idle"
        BY <1>5 DEF Restart
    <2> QED BY <1>0, <1>5, <1>new, <2>1 DEF Restart
<1>6. CASE UNCHANGED vars
    BY <1>6, <1>old DEF vars, history, Expected, Shown, Lost, Reached, Running
<1> QED BY <1>1, <1>2, <1>3, <1>4, <1>5, <1>6 DEF Next

-----------------------------------------------------------------------------
LEMMA OpensStep ==
    SaveInv /\ ModeKept /\ OneOpens /\ [Next]_vars => OneOpens'
<1> SUFFICES ASSUME SaveInv, ModeKept, OneOpens, [Next]_vars,
                    NEW j \in Readers, NEW k \in Readers, Opens(j)', Opens(k)'
             PROVE  j = k
    BY DEF OneOpens
<1>t. pc \in [Writers \cup Readers -> ReaderSteps \cup {"save"}]
    BY TimeTyped
<1>old. Opens(j) /\ Opens(k) => j = k
    BY DEF OneOpens
<1>1. ASSUME NEW w \in Writers, Set(w) \/ Save(w) PROVE j = k
    BY <1>1, <1>old, <1>t, PlaybackAssumption DEF Set, Save, Opens
<1>2. ASSUME NEW r \in Readers, ReadLast(r) PROVE j = k
    BY <1>2, <1>old, <1>t DEF ReadLast, Opens, Settled
<1>3. ASSUME NEW r \in Readers, LoadTime(r) PROVE j = k
    BY <1>3, <1>old, <1>t DEF LoadTime, Step, Opens
<1>4. ASSUME NEW r \in Readers, StoreTime(r) \/ TakeStamp(r) \/ StoreLast(r) \/ CopyStatus(r)
      PROVE  j = k
    BY <1>4, <1>old, <1>t DEF StoreTime, TakeStamp, StoreLast, CopyStatus, Step, Opens, history
<1>5. CASE Tick
    BY <1>5, <1>old DEF Tick, Opens
<1>6. CASE Restart
    BY <1>6 DEF Restart, Opens
<1>7. CASE UNCHANGED vars
    BY <1>7, <1>old DEF vars, history, Opens
<1> QED BY <1>1, <1>2, <1>3, <1>4, <1>5, <1>6, <1>7 DEF Next, ReaderStep

\* With nothing counted since the set, and nobody inside.
LEMMA TwiceFresh ==
    ASSUME SaveInv', cur' = base', \A r \in Readers : pc'[r] = "idle"
    PROVE  NoneTwice'
<1>1. /\ cur'.time \in Nat /\ cur'.last \in Nat /\ cur'.rate \in Nat
      /\ now' \in Nat /\ twice' \in Nat
    BY DEF SaveInv, TypeInv, TypeOK, Status
<1> DEFINE zeros == [r \in Readers |-> 0]
<1>2. zeros \in [Readers -> Nat] /\ 0 \in Nat
    OBVIOUS
<1>3. cur'.time = cur'.time + 0 * cur'.rate
    BY <1>1
<1>4. Counted(0, zeros, 0)'
    BY <1>3 DEF Counted
<1>5. SettledBelow(0)'
    BY <1>1 DEF SettledBelow, Ceiling
<1>6. Settled'
    BY DEF Settled
<1>7. CountedBelow(0, zeros, 0)'
    BY <1>5, <1>6 DEF CountedBelow
<1> QED BY <1>2, <1>4, <1>7 DEF NoneTwice

LEMMA TwiceInit == Init => NoneTwice
<1> SUFFICES ASSUME Init PROVE ~Running(cur)
    BY DEF NoneTwice
<1> QED BY DEF Init, NewStatus, Running

LEMMA TwiceStep ==
    SaveInv /\ ModeKept /\ OneOpens /\ NoneTwice /\ [Next]_vars => NoneTwice'
<1> SUFFICES ASSUME SaveInv, ModeKept, OneOpens, NoneTwice, [Next]_vars, Running(cur)'
             PROVE  NoneTwice'
    BY DEF NoneTwice
<1>0. SaveInv'
    BY SaveStep
<1>t. /\ cur \in Status /\ base \in Status /\ now \in Nat /\ twice \in Nat
      /\ cur.time \in Nat /\ cur.last \in Nat /\ base.time \in Nat /\ base.last \in Nat
      /\ base.rate \in Nat /\ now - cur.last \in Nat
      /\ \A r \in Readers : val[r] \in Nat /\ pc[r] \in ReaderSteps
      /\ val \in [Readers -> Nat] /\ pc \in [Writers \cup Readers -> ReaderSteps \cup {"save"}]
    BY TimeTyped
<1>s. cur.rate = base.rate
    BY DEF ModeKept, SameMode
<1>1. ASSUME NEW w \in Writers, Set(w) PROVE NoneTwice'
    BY <1>0, <1>1, <1>t, TwiceFresh, PlaybackAssumption DEF Set, Unlocked
<1>2. CASE Restart
    BY <1>0, <1>2, TwiceFresh DEF Restart
<1>3. ASSUME NEW w \in Writers, Save(w) PROVE NoneTwice'
    <2>1. /\ UNCHANGED <<cur, base, now, val, again, twice>> /\ Running(cur)
          /\ \A k \in Readers : pc'[k] = pc[k]
        BY <1>3, <1>t, PlaybackAssumption DEF Save, Running
    <2> PICK c \in Nat, v \in [Readers -> Nat], b \in Nat : Counted(c, v, b) /\ CountedBelow(c, v, b)
        BY <2>1 DEF NoneTwice
    <2>2. Counted(c, v, b)'
        BY <2>1 DEF Counted
    <2>3. CountedBelow(c, v, b)'
        BY <2>1 DEF CountedBelow, Settled, SettledBelow, UnsettledBelow, Ceiling, Opens
    <2> QED BY <2>2, <2>3 DEF NoneTwice
<1>4. CASE UNCHANGED vars
    <2>1. UNCHANGED <<cur, base, now, val, again, twice, pc>> /\ Running(cur)
        BY <1>4 DEF vars, history, Running
    <2> PICK c \in Nat, v \in [Readers -> Nat], b \in Nat : Counted(c, v, b) /\ CountedBelow(c, v, b)
        BY <2>1 DEF NoneTwice
    <2>2. Counted(c, v, b)'
        BY <2>1 DEF Counted
    <2>3. CountedBelow(c, v, b)'
        BY <2>1 DEF CountedBelow, Settled, SettledBelow, UnsettledBelow, Ceiling, Opens
    <2> QED BY <2>2, <2>3 DEF NoneTwice
<1>5. CASE Tick
    <2>1. now' = now + 1 /\ UNCHANGED <<cur, base, val, again, twice, pc>> /\ Running(cur)
        BY <1>5 DEF Tick, Running
    <2> PICK c \in Nat, v \in [Readers -> Nat], b \in Nat : Counted(c, v, b) /\ CountedBelow(c, v, b)
        BY <2>1 DEF NoneTwice
    <2>2. Counted(c, v, b)'
        BY <2>1 DEF Counted
    <2>3. CASE Settled
        <3>1. SettledBelow(c)'
            BY <2>1, <2>3, <1>t DEF CountedBelow, SettledBelow, Ceiling
        <3>2. Settled'
            BY <2>1, <2>3 DEF Settled
        <3> QED BY <2>2, <3>1, <3>2 DEF CountedBelow, NoneTwice
    <2>4. CASE ~Settled
        <3>1. b <= now
            BY <2>4 DEF CountedBelow, UnsettledBelow
        <3>2. b <= now'
            BY <2>1, <3>1, <1>t
        <3>3. UnsettledBelow(c, v, b)'
            BY <2>1, <2>4, <3>2 DEF CountedBelow, UnsettledBelow, Ceiling, Opens
        <3>4. ~Settled'
            BY <2>1, <2>4 DEF Settled
        <3> QED BY <2>2, <3>3, <3>4 DEF CountedBelow, NoneTwice
    <2> QED BY <2>3, <2>4
<1>6. ASSUME NEW r \in Readers, ReaderStep(r) PROVE NoneTwice'
    <2>1. UNCHANGED <<now, base>>
        BY <1>6, ReaderFrame
    <2>2. Running(cur)
        BY <1>6, <1>t DEF ReaderStep, ReadLast, LoadTime, StoreTime, TakeStamp, StoreLast,
                          CopyStatus, Running, Status
    <2> PICK c \in Nat, v \in [Readers -> Nat], b \in Nat : Counted(c, v, b) /\ CountedBelow(c, v, b)
        BY <2>2 DEF NoneTwice
    <2>v. \A k \in Readers : v[k] \in Nat
        OBVIOUS
    <2>3. CASE ReadLast(r)
        <3>1. /\ UNCHANGED <<cur, twice>> /\ pc[r] = "idle" /\ pc'[r] = "load"
              /\ val'[r] = now - cur.last
              /\ \A k \in Readers \ {r} : pc'[k] = pc[k] /\ val'[k] = val[k]
              /\ again' = IF Settled THEN again ELSE again \cup {r}
            BY <2>2, <2>3, <1>t DEF ReadLast
        <3>2. ~Settled'
            BY <3>1 DEF Settled
        <3>3. Counted(c, v, b)'
            BY <2>1, <3>1 DEF Counted
        <3>4. CASE Settled
            <4>0. PICK d \in Nat : d = now
                BY <1>t
            <4>1. c + (now - cur.last) <= Ceiling(d) /\ Ceiling(d) \in Int
                BY <3>4, <4>0, <1>t DEF CountedBelow, SettledBelow, Ceiling
            <4>2. c <= Ceiling(d) /\ c + val'[r] <= Ceiling(d)
                BY <3>1, <4>1, <1>t
            <4>3. \A k \in Readers \ {r} : pc'[k] \notin {"load", "store", "mark"}
                BY <3>1, <3>4 DEF Settled
            <4>4. Ceiling(d)' = Ceiling(d) /\ d <= now'
                BY <2>1, <3>1, <4>0, <1>t DEF Ceiling
            <4>5. UnsettledBelow(c, v, d)'
                BY <3>1, <4>2, <4>3, <4>4, <1>t DEF UnsettledBelow, Opens
            <4>6. Counted(c, v, d)'
                BY <3>3 DEF Counted
            <4> QED BY <3>2, <4>5, <4>6 DEF CountedBelow, NoneTwice
        <3>5. CASE ~Settled
            <4>1. Ceiling(b)' = Ceiling(b)
                BY <2>1, <3>1 DEF Ceiling
            <4>2. UnsettledBelow(c, v, b)'
                BY <2>1, <3>1, <3>5, <4>1 DEF CountedBelow, UnsettledBelow, Opens
            <4> QED BY <3>2, <3>3, <4>2 DEF CountedBelow, NoneTwice
        <3> QED BY <3>4, <3>5
    <2>4. CASE LoadTime(r)
        <3>1. /\ UNCHANGED cur /\ pc[r] = "load" /\ pc'[r] = "store"
              /\ val'[r] = cur.time + val[r] * base.rate
              /\ \A k \in Readers \ {r} : pc'[k] = pc[k] /\ val'[k] = val[k]
              /\ twice' = (IF r \in again THEN twice + val[r] ELSE twice)
              /\ again' = again \ {r}
            BY <2>4, <1>s, <1>t DEF LoadTime, Step
        <3>2. ~Settled /\ ~Settled'
            BY <3>1 DEF Settled
        <3>3. UnsettledBelow(c, v, b)
            BY <3>2 DEF CountedBelow
        <3>4. PICK u \in [Readers -> Nat] : u = [v EXCEPT ![r] = c + val[r]]
            <4>1. c + val[r] \in Nat
                BY <1>t
            <4> QED BY <4>1
        <3>5. u[r] = c + val[r] /\ \A k \in Readers \ {r} : u[k] = v[k]
            BY <3>4
        <3>6. Counted(c, u, b)'
            <4>1. val'[r] = base.time + (c + val[r]) * base.rate
                <5>1. cur.time = base.time + c * base.rate
                    BY DEF Counted
                <5>2. (c + val[r]) * base.rate = c * base.rate + val[r] * base.rate
                    BY <1>t
                <5>3. c * base.rate \in Nat /\ val[r] * base.rate \in Nat
                    BY <1>t
                <5> QED BY <3>1, <5>1, <5>2, <5>3, <1>t
            <4> QED BY <2>1, <3>1, <3>5, <4>1 DEF Counted
        <3>7. Ceiling(b) \in Int /\ Ceiling(b)' \in Int /\ Ceiling(b) <= Ceiling(b)'
            BY <2>1, <3>1, <1>t DEF Ceiling
        <3>8. \A k \in Readers : Opens(k)' => Opens(k) /\ k # r
            BY <3>1 DEF Opens
        <3>9. u[r] <= Ceiling(b)'
            <4>1. CASE r \in again
                BY <2>1, <3>1, <3>3, <3>5, <4>1, <1>t DEF UnsettledBelow, Ceiling
            <4>2. CASE r \notin again
                BY <3>1, <3>3, <3>5, <3>7, <4>2, <1>t DEF UnsettledBelow, Opens
            <4> QED BY <4>1, <4>2
        <3>10. ASSUME NEW k \in Readers, Opens(k)'
               PROVE  u[r] + val'[k] <= Ceiling(b)'
            <4>1. Opens(k) /\ k # r /\ val'[k] = val[k]
                BY <3>1, <3>8, <3>10
            <4>2. r \in again
                BY <3>1, <4>1 DEF OneOpens, Opens
            <4>3. c + val[k] <= Ceiling(b)
                BY <3>3, <4>1 DEF UnsettledBelow
            <4>4. Ceiling(b)' = Ceiling(b) + val[r]
                BY <2>1, <3>1, <4>2, <1>t DEF Ceiling
            <4> QED BY <3>5, <3>7, <4>1, <4>3, <4>4, <1>t
        <3>11. UnsettledBelow(c, u, b)'
            <4>1. b <= now' /\ c <= Ceiling(b)'
                BY <2>1, <3>3, <3>7 DEF UnsettledBelow
            <4>2. ASSUME NEW k \in Readers, pc'[k] = "store" PROVE u[k] <= Ceiling(b)'
                BY <3>1, <3>3, <3>5, <3>7, <3>9, <4>2, <2>v DEF UnsettledBelow
            <4>3. ASSUME NEW k \in Readers, pc'[k] = "mark" PROVE b <= val'[k]
                BY <3>1, <3>3, <4>3 DEF UnsettledBelow
            <4>4. ASSUME NEW k \in Readers, Opens(k)' PROVE c + val'[k] <= Ceiling(b)'
                <5>1. c + val[k] <= Ceiling(b) /\ val'[k] = val[k]
                    BY <3>1, <3>3, <3>8, <4>4 DEF UnsettledBelow
                <5> QED BY <3>7, <5>1, <1>t
            <4>5. ASSUME NEW k \in Readers, Opens(k)', NEW m \in Readers, pc'[m] = "store"
                  PROVE  u[m] + val'[k] <= Ceiling(b)'
                <5>1. CASE m = r
                    BY <3>10, <4>5, <5>1
                <5>2. CASE m # r
                    <6>1. v[m] + val[k] <= Ceiling(b) /\ val'[k] = val[k] /\ u[m] = v[m]
                        BY <3>1, <3>3, <3>5, <3>8, <4>5, <5>2 DEF UnsettledBelow
                    <6> QED BY <3>7, <6>1, <1>t, <2>v
                <5> QED BY <5>1, <5>2
            <4> QED BY <4>1, <4>2, <4>3, <4>4, <4>5 DEF UnsettledBelow
        <3> QED BY <3>2, <3>6, <3>11 DEF CountedBelow, NoneTwice
    <2>5. CASE StoreTime(r)
        <3>1. /\ pc[r] = "store" /\ pc'[r] = "stamp" /\ cur'.time = val[r]
              /\ UNCHANGED <<again, twice>>
              /\ \A k \in Readers \ {r} : pc'[k] = pc[k] /\ val'[k] = val[k]
            BY <2>5, <1>t DEF StoreTime, Step, Status, history
        <3>2. ~Settled /\ ~Settled'
            BY <3>1 DEF Settled
        <3>3. UnsettledBelow(c, v, b)
            BY <3>2 DEF CountedBelow
        <3>4. Counted(v[r], v, b)'
            BY <2>1, <3>1 DEF Counted
        <3>5. Ceiling(b)' = Ceiling(b)
            BY <2>1, <3>1 DEF Ceiling
        <3>6. \A k \in Readers : Opens(k)' => Opens(k) /\ k # r
            BY <3>1 DEF Opens
        <3>7. UnsettledBelow(v[r], v, b)'
            BY <2>1, <3>1, <3>3, <3>5, <3>6 DEF UnsettledBelow
        <3> QED BY <3>2, <3>4, <3>7, <2>v DEF CountedBelow, NoneTwice
    <2>6. CASE TakeStamp(r)
        <3>1. /\ UNCHANGED cur /\ pc[r] = "stamp" /\ pc'[r] = "mark" /\ val'[r] = now
              /\ UNCHANGED <<again, twice>>
              /\ \A k \in Readers \ {r} : pc'[k] = pc[k] /\ val'[k] = val[k]
            BY <2>6, <1>t DEF TakeStamp, Step, history
        <3>2. ~Settled /\ ~Settled'
            BY <3>1 DEF Settled
        <3>3. UnsettledBelow(c, v, b)
            BY <3>2 DEF CountedBelow
        <3>4. Counted(c, v, b)'
            BY <2>1, <3>1 DEF Counted
        <3>5. Ceiling(b)' = Ceiling(b)
            BY <2>1, <3>1 DEF Ceiling
        <3>6. \A k \in Readers : Opens(k)' => Opens(k) /\ k # r
            BY <3>1 DEF Opens
        <3>7. UnsettledBelow(c, v, b)'
            BY <2>1, <3>1, <3>3, <3>5, <3>6 DEF UnsettledBelow
        <3> QED BY <3>2, <3>4, <3>7 DEF CountedBelow, NoneTwice
    <2>7. CASE StoreLast(r)
        <3>1. /\ pc[r] = "mark" /\ pc'[r] = "copy" /\ cur'.time = cur.time /\ cur'.last = val[r]
              /\ UNCHANGED <<again, twice>>
              /\ \A k \in Readers \ {r} : pc'[k] = pc[k] /\ val'[k] = val[k]
            BY <2>7, <1>t DEF StoreLast, Step, Status, history
        <3>2. ~Settled
            BY <3>1 DEF Settled
        <3>3. UnsettledBelow(c, v, b)
            BY <3>2 DEF CountedBelow
        <3>4. Counted(c, v, b)'
            BY <2>1, <3>1 DEF Counted
        <3>5. Ceiling(b)' = Ceiling(b) /\ Ceiling(now)' = Ceiling(now)
            BY <2>1, <3>1 DEF Ceiling
        <3>6. \A k \in Readers : Opens(k)' => Opens(k) /\ k # r
            BY <3>1 DEF Opens
        <3>7. UnsettledBelow(c, v, b)'
            BY <2>1, <3>1, <3>3, <3>5, <3>6 DEF UnsettledBelow
        <3>8. SettledBelow(c)'
            <4>1. b <= val[r] /\ c <= Ceiling(b)
                BY <3>1, <3>3 DEF UnsettledBelow
            <4>2. c + (now - val[r]) <= Ceiling(now)
                BY <4>1, <1>t DEF Ceiling
            <4> QED BY <2>1, <3>1, <3>5, <4>2 DEF SettledBelow
        <3> QED BY <3>4, <3>7, <3>8 DEF CountedBelow, NoneTwice
    <2>8. CASE CopyStatus(r)
        <3>1. /\ UNCHANGED <<cur, val>> /\ pc[r] = "copy" /\ pc'[r] = "idle"
              /\ UNCHANGED <<again, twice>>
              /\ \A k \in Readers \ {r} : pc'[k] = pc[k]
            BY <2>8, <1>t DEF CopyStatus, Step, history
        <3>2. Settled' = Settled
            BY <3>1 DEF Settled
        <3>3. Counted(c, v, b)'
            BY <2>1, <3>1 DEF Counted
        <3>4. Ceiling(b)' = Ceiling(b) /\ Ceiling(now)' = Ceiling(now)
            BY <2>1, <3>1 DEF Ceiling
        <3>5. \A k \in Readers : Opens(k)' => Opens(k) /\ k # r
            BY <3>1 DEF Opens
        <3>6. UnsettledBelow(c, v, b) => UnsettledBelow(c, v, b)'
            BY <2>1, <3>1, <3>4, <3>5 DEF UnsettledBelow
        <3>7. SettledBelow(c) => SettledBelow(c)'
            BY <2>1, <3>1, <3>4 DEF SettledBelow
        <3> QED BY <3>2, <3>3, <3>6, <3>7 DEF CountedBelow, NoneTwice
    <2> QED BY <1>6, <2>3, <2>4, <2>5, <2>6, <2>7, <2>8 DEF ReaderStep
<1> QED BY <1>1, <1>2, <1>3, <1>4, <1>5, <1>6 DEF Next

-----------------------------------------------------------------------------
\* However many readers there are, the position is at most what it should be and what
\* was counted again.
LEMMA ShownBelow ==
    ASSUME SaveInv, ModeKept, NoneTwice
    PROVE  /\ cur.time <= Position(base, now) + Doubled
           /\ Settled => Position(cur, now) <= Position(base, now) + Doubled
<1>t. /\ now \in Nat /\ twice \in Nat /\ cur.time \in Nat /\ cur.last \in Nat
      /\ base.time \in Nat /\ base.last \in Nat /\ base.rate \in Nat /\ now - cur.last \in Nat
    BY TimeTyped
<1>1. CASE ~Running(cur)
    BY <1>1, <1>t DEF ModeKept, SameMode, Running, Position, Doubled
<1>2. CASE Running(cur)
    <2>1. Running(base) /\ cur.rate = base.rate
        BY <1>2 DEF ModeKept, SameMode, Running
    <2> PICK c \in Nat, v \in [Readers -> Nat], b \in Nat : Counted(c, v, b) /\ CountedBelow(c, v, b)
        BY <1>2 DEF NoneTwice
    <2> DEFINE whole == (now - base.last) + twice
    <2>2. whole \in Int
        BY <1>t
    <2>3. Position(base, now) + Doubled = base.time + whole * base.rate
        <3>1. Position(base, now) = base.time + (now - base.last) * base.rate
            BY <2>1 DEF Position
        <3>2. Doubled = twice * base.rate
            BY <2>1 DEF Doubled
        <3>3. whole * base.rate = (now - base.last) * base.rate + twice * base.rate
            BY <1>t
        <3>4. (now - base.last) * base.rate \in Int /\ twice * base.rate \in Int
            BY <1>t
        <3> HIDE DEF whole
        <3> QED BY <3>1, <3>2, <3>3, <3>4, <1>t
    <2>4. cur.time = base.time + c * base.rate
        BY DEF Counted
    <2>5. Ceiling(now) = whole
        BY <1>t DEF Ceiling
    <2>6. c <= whole
        <3>1. CASE Settled
            BY <2>5, <3>1, <1>t DEF CountedBelow, SettledBelow
        <3>2. CASE ~Settled
            BY <3>2, <1>t DEF CountedBelow, UnsettledBelow, Ceiling
        <3> QED BY <3>1, <3>2
    <2> HIDE DEF whole
    <2>7. ASSUME NEW n \in Int, n <= whole
          PROVE  base.time + n * base.rate <= Position(base, now) + Doubled
        <3>1. n * base.rate <= whole * base.rate
            BY <2>2, <2>7, <1>t, Multiples
        <3>2. n * base.rate \in Int /\ whole * base.rate \in Int
            BY <2>2, <1>t
        <3> QED BY <2>3, <3>1, <3>2, <1>t
    <2>8. cur.time <= Position(base, now) + Doubled
        BY <2>4, <2>6, <2>7
    <2>9. ASSUME Settled PROVE Position(cur, now) <= Position(base, now) + Doubled
        <3>1. c + (now - cur.last) <= whole /\ c + (now - cur.last) \in Int
            BY <2>5, <2>9, <1>t DEF CountedBelow, SettledBelow
        <3>2. (c + (now - cur.last)) * base.rate = c * base.rate + (now - cur.last) * base.rate
            BY <1>t
        <3>3. c * base.rate \in Int /\ (now - cur.last) * base.rate \in Int
            BY <1>t
        <3>4. Position(cur, now) = base.time + (c + (now - cur.last)) * base.rate
            BY <1>2, <2>1, <2>4, <3>2, <3>3, <1>t DEF Position
        <3> QED BY <2>7, <3>1, <3>4
    <2> QED BY <2>8, <2>9
<1> QED BY <1>1, <1>2

LEMMA ShownAbove ==
    ASSUME SaveInv, ModeKept, NoneLost
    PROVE  Position(base, now) <= Position(cur, now) + Slipped
<1>t. /\ cur.time \in Nat /\ base.time \in Nat
    BY TimeTyped
<1>1. CASE ~Running(cur)
    BY <1>1, <1>t DEF ModeKept, SameMode, Running, Position, Slipped
<1>2. CASE Running(cur)
    <2>1. Running(base) /\ cur.rate = base.rate
        BY <1>2 DEF ModeKept, SameMode, Running
    <2>2. Position(base, now) = Expected /\ Position(cur, now) = Shown /\ Slipped = Lost
        BY <1>2, <2>1 DEF Position, Expected, Shown, Lost, Slipped
    <2> QED BY <1>2, <2>2 DEF NoneLost
<1> QED BY <1>1, <1>2

LEMMA PositionWhole ==
    ASSUME NEW s \in Status, NEW t \in Nat
    PROVE  Position(s, t) \in Int
<1>1. s.rate \in Nat /\ s.last \in Nat /\ s.time \in Nat
    BY DEF Status
<1>2. (t - s.last) * s.rate \in Int
    BY <1>1
<1> QED BY <1>1, <1>2 DEF Position

\* One more tick of the clock adds the rate to every running position.
LEMMA PositionTicks ==
    \A s \in Status, t \in Nat :
        Position(s, t + 1) = Position(s, t) + (IF Running(s) THEN s.rate ELSE 0)
<1> TAKE s \in Status, t \in Nat
<1>1. s.rate \in Nat /\ s.last \in Nat /\ s.time \in Nat
    BY DEF Status
<1>2. (t + 1 - s.last) * s.rate = (t - s.last) * s.rate + 1 * s.rate
    <2>1. \A a, b, c, d \in Int : (a + d - b) * c = (a - b) * c + d * c
        OBVIOUS
    <2> QED BY <1>1, <2>1
<1>3. (t - s.last) * s.rate \in Int /\ 1 * s.rate = s.rate
    BY <1>1
<1> QED BY <1>1, <1>2, <1>3 DEF Position

LEMMA AnsweredInit == Init => Answered
<1> SUFFICES ASSUME Init, NEW r \in Readers
             PROVE  /\ SameMode(answer[r].status, base) /\ answer[r].status.last <= now
                    /\ Position(answer[r].status, now) <= Position(base, now) + Doubled
    BY DEF Answered
<1>1. /\ answer[r].status = base /\ base.last = now /\ base.time = 0 /\ ~Running(base)
      /\ now = 0
    BY DEF Init, Unasked, Numbered, NewStatus, Running
<1> QED BY <1>1 DEF SameMode, Position, Doubled

LEMMA AnsweredStep ==
    SaveInv /\ ModeKept /\ NoneTwice /\ Answered /\ [Next]_vars => Answered'
<1> SUFFICES ASSUME SaveInv, ModeKept, NoneTwice, Answered, [Next]_vars,
                    NEW k \in Readers, answer'[k].ver = ver'
             PROVE  /\ SameMode(answer'[k].status, base') /\ answer'[k].status.last <= now'
                    /\ Position(answer'[k].status, now') <= Position(base', now') + Doubled'
    BY DEF Answered
<1> DEFINE Kept == /\ SameMode(answer'[k].status, base') /\ answer'[k].status.last <= now'
                   /\ Position(answer'[k].status, now') <= Position(base', now') + Doubled'
<1> SUFFICES Kept
    OBVIOUS
<1>t. /\ cur \in Status /\ base \in Status /\ answer[k].status \in Status
      /\ now \in Nat /\ twice \in Nat /\ sets \in Nat /\ cur.time \in Nat /\ base.rate \in Nat
      /\ val \in [Readers -> Nat] /\ saved.ver \in Nat
      /\ pc \in [Writers \cup Readers -> ReaderSteps \cup {"save"}]
      /\ answer \in [Readers -> [ver : Nat, status : Status]]
    BY TimeTyped
<1>d. Doubled \in Int
    BY <1>t DEF Doubled
<1>p. /\ Position(answer[k].status, now) \in Int /\ Position(base, now) \in Int
      /\ answer[k].status.last \in Nat
    BY <1>t, PositionWhole DEF Status
<1>old. ASSUME answer[k].ver = ver
        PROVE  /\ SameMode(answer[k].status, base) /\ answer[k].status.last <= now
               /\ Position(answer[k].status, now) <= Position(base, now) + Doubled
    BY <1>old DEF Answered
<1>same. ASSUME UNCHANGED <<answer, base, now, ver>>, twice <= twice', twice' \in Nat
         PROVE  Kept
    <2>1. Doubled <= Doubled' /\ Doubled' \in Int
        BY <1>same, <1>t, Multiples DEF Doubled
    <2> QED BY <1>same, <1>old, <1>p, <1>d, <2>1
<1>1. ASSUME NEW w \in Writers, Set(w) PROVE Kept
    <2>1. answer'[k].ver = 0 /\ ver' = sets + 1
        BY <1>1 DEF Set, Unasked, Numbered
    <2>2. sets + 1 # 0
        BY <1>t
    <2> QED BY <2>1, <2>2
<1>2. ASSUME NEW w \in Writers, Save(w) PROVE Kept
    BY <1>2, <1>same, <1>t DEF Save
<1>3. ASSUME NEW r \in Readers, ReaderStep(r), ~CopyStatus(r) PROVE Kept
    <2>1. UNCHANGED <<now, base, ver>>
        BY <1>3, ReaderFrame
    <2>2. UNCHANGED answer
        BY <1>3 DEF ReaderStep, ReadLast, LoadTime, StoreTime, TakeStamp, StoreLast
    <2>3. twice' = twice \/ twice' = twice + val[r]
        BY <1>3 DEF ReaderStep, ReadLast, LoadTime, StoreTime, TakeStamp, StoreLast, history
    <2>4. twice <= twice' /\ twice' \in Nat
        BY <2>3, <1>t
    <2> QED BY <2>1, <2>2, <2>4, <1>same
<1>4. ASSUME NEW r \in Readers, CopyStatus(r) PROVE Kept
    <2>1. UNCHANGED <<now, base, ver, twice>>
        BY <1>4 DEF CopyStatus, history
    <2>2. CASE k # r
        <3>1. answer'[k] = answer[k]
            BY <1>4, <2>2, <1>t DEF CopyStatus
        <3>2. Doubled' = Doubled
            BY <2>1 DEF Doubled
        <3> QED BY <2>1, <3>1, <3>2, <1>old
    <2>3. CASE k = r
        <3> DEFINE told == [cur EXCEPT !.last = now]
        <3>1. answer'[k].status = told
            BY <1>4, <2>3, <1>t DEF CopyStatus, Numbered
        <3>2. SameMode(told, cur) /\ told.time = cur.time /\ told.last = now
            BY <1>t DEF SameMode, Status
        <3>3. told.rate \in Nat
            BY <1>t DEF Status
        <3>4. SameMode(told, base)
            BY <3>2 DEF ModeKept, SameMode
        <3> HIDE DEF told
        <3>5. (now - now) * told.rate = 0
            BY <3>3, <1>t
        <3>6. Position(told, now) = cur.time
            BY <3>2, <3>5, <1>t DEF Position
        <3>7. cur.time <= Position(base, now) + Doubled
            BY ShownBelow
        <3>8. Doubled' = Doubled
            BY <2>1 DEF Doubled
        <3> QED BY <2>1, <3>1, <3>2, <3>4, <3>6, <3>7, <3>8, <1>t
    <2> QED BY <2>2, <2>3
<1>5. CASE Tick
    <2>1. now' = now + 1 /\ UNCHANGED <<answer, base, ver, twice>>
        BY <1>5 DEF Tick
    <2>2. /\ SameMode(answer[k].status, base) /\ answer[k].status.last <= now
          /\ Position(answer[k].status, now) <= Position(base, now) + Doubled
        BY <1>old, <2>1
    <2>3. Doubled' = Doubled
        BY <2>1 DEF Doubled
    <2> DEFINE more == IF Running(base) THEN base.rate ELSE 0
    <2>4. more \in Nat
        BY <1>t
    <2>5. Position(base, now') = Position(base, now) + more
        BY <2>1, <1>t, PositionTicks
    <2>6. Position(answer[k].status, now') = Position(answer[k].status, now) + more
        <3>1. Running(answer[k].status) = Running(base) /\ answer[k].status.rate = base.rate
            BY <2>2 DEF SameMode, Running
        <3> QED BY <2>1, <3>1, <1>t, PositionTicks
    <2> HIDE DEF more
    <2>7. Position(answer[k].status, now') <= Position(base, now') + Doubled
        BY <2>2, <2>4, <2>5, <2>6, <1>p, <1>d
    <2>8. answer[k].status.last <= now'
        BY <2>1, <2>2, <1>p, <1>t
    <2> QED BY <2>1, <2>2, <2>3, <2>7, <2>8
<1>6. CASE Restart
    <2>1. /\ answer'[k] = Unasked /\ now' = now /\ ver' = saved.ver /\ twice' = 0
        BY <1>6 DEF Restart
    <2>2. saved.ver = 0 /\ base' = NewStatus(now)
        BY <1>6, <2>1 DEF Restart, Unasked, Numbered
    <2>3. /\ SameMode(Unasked.status, base') /\ ~Running(base') /\ ~Running(Unasked.status)
          /\ base'.time = 0 /\ Unasked.status.time = 0 /\ Unasked.status.last = 0
        BY <2>2 DEF Unasked, Numbered, NewStatus, SameMode, Running
    <2>4. Position(Unasked.status, now) = 0 /\ Position(base', now) = 0 /\ Doubled' = 0
        BY <2>3 DEF Position, Doubled
    <2> QED BY <2>1, <2>3, <2>4, <1>t
<1>7. CASE UNCHANGED vars
    BY <1>7, <1>same, <1>t DEF vars, history
<1> QED BY <1>1, <1>2, <1>3, <1>4, <1>5, <1>6, <1>7 DEF Next

LEMMA TimeAlways == Spec => []TimeInv
<1>1. Init => TimeInv
    <2>1. Init => ModeKept /\ OneOpens
        BY DEF Init, ModeKept, SameMode, OneOpens, Opens, NewStatus
    <2> QED BY <2>1, SaveInit, LostInit, TwiceInit, AnsweredInit DEF TimeInv
<1>2. TimeInv /\ [Next]_vars => TimeInv'
    BY SaveStep, ModeStep, LostStep, OpensStep, TwiceStep, AnsweredStep DEF TimeInv
<1> QED BY <1>1, <1>2, PTL DEF Spec

\* For any number of readers, however they overlap: no time is lost but the late ticks,
\* and none is counted twice but the ages that were taken while another reader was
\* inside UpdateStatus (model/current.go:31-44 under op/current.go:33-40, 62-69).
THEOREM CountedOnce == Spec => []TimeCountedOnce
<1>1. TimeInv => TimeCountedOnce
    BY ShownBelow, ShownAbove DEF TimeInv, TimeCountedOnce
<1> QED BY <1>1, TimeAlways, PTL

\* For any number of readers: no answer is ahead of the status that was set by more than
\* overlapping readers have counted twice.
THEOREM NotAhead == Spec => []AnswersNotAhead
<1>1. TimeInv => AnswersNotAhead
    BY DEF TimeInv, Answered, AnswersNotAhead
<1> QED BY <1>1, TimeAlways, PTL

-----------------------------------------------------------------------------
(* Movies: what is under what. *)

\* Everything in a folder that is under the ids is under them,
LEMMA UnderWhole ==
    ASSUME NEW rows, NEW ids, NEW folders, NEW k \in Movies, rows[k] # NoRow,
           rows[k].parent \in ids \cup (Under(rows, ids, folders) \cap folders)
    PROVE  k \in Under(rows, ids, folders)
<1> SUFFICES ASSUME NEW S \in SUBSET Movies,
                    \A m \in Movies : rows[m] # NoRow /\ rows[m].parent \in ids \cup (S \cap folders)
                                         => m \in S
             PROVE  k \in S
  BY DEF Under
<1>1. Under(rows, ids, folders) \subseteq S
  BY DEF Under
<1> QED
  BY <1>1

\* and nothing else is.
LEMMA UnderLeast ==
    ASSUME NEW rows, NEW ids, NEW folders, NEW S \in SUBSET Movies,
           \A m \in Movies : rows[m] # NoRow /\ rows[m].parent \in ids \cup (S \cap folders)
                                => m \in S
    PROVE  Under(rows, ids, folders) \subseteq S
BY DEF Under

LEMMA UnderMovies ==
    ASSUME NEW rows, NEW ids, NEW folders
    PROVE  Under(rows, ids, folders) \in SUBSET Movies
BY DEF Under

\* What is below a movie has its parent there, or in it.
LEMMA ParentBelow ==
    ASSUME NEW rows, NEW m, NEW k \in Under(rows, {m}, Movies)
    PROVE  /\ k \in Movies /\ rows[k] # NoRow
           /\ rows[k].parent = m \/ rows[k].parent \in Under(rows, {m}, Movies)
<1> DEFINE B == Under(rows, {m}, Movies)
           S == {x \in B : rows[x] # NoRow /\ rows[x].parent \in {m} \cup B}
<1>1. B \in SUBSET Movies /\ S \in SUBSET Movies
  BY UnderMovies
<1>2. ASSUME NEW x \in Movies, rows[x] # NoRow, rows[x].parent \in {m} \cup (S \cap Movies)
      PROVE  x \in S
  <2>1. rows[x].parent \in {m} \cup (B \cap Movies)
    BY <1>1, <1>2
  <2>2. x \in B
    BY <1>2, <2>1, UnderWhole
  <2> QED
    BY <1>2, <2>1, <2>2
<1>3. B \subseteq S
  BY <1>1, <1>2, UnderLeast
<1> QED
  BY <1>1, <1>3

\* A child is below its parent.
LEMMA ChildBelow ==
    ASSUME NEW rows, NEW k \in Movies, rows[k] # NoRow, NEW m,
           rows[k].parent = m \/ rows[k].parent \in Under(rows, {m}, Movies)
    PROVE  k \in Under(rows, {m}, Movies)
<1>1. rows[k].parent \in {m} \cup (Under(rows, {m}, Movies) \cap Movies)
  BY UnderMovies
<1> QED
  BY <1>1, UnderWhole

\* What is below something below a movie is below the movie.
LEMMA BelowBelow ==
    ASSUME NEW rows, NEW m, NEW w \in Under(rows, {m}, Movies)
    PROVE  Under(rows, {w}, Movies) \subseteq Under(rows, {m}, Movies)
<1> DEFINE B == Under(rows, {m}, Movies)
<1>1. B \in SUBSET Movies
  BY UnderMovies
<1>2. \A x \in Movies : rows[x] # NoRow /\ rows[x].parent \in {w} \cup (B \cap Movies) => x \in B
  BY ChildBelow
<1> QED
  BY <1>1, <1>2, UnderLeast

\* One row, above which a movie is not, changes: the movie is under the same ones.
LEMMA ChangeAside ==
    ASSUME NEW rows, NEW next, NEW x, NEW c, c # x, c \notin Under(rows, {x}, Movies),
           \A k \in Movies : k # x => next[k] = rows[k]
    PROVE  \A m : c \in Under(next, {m}, Movies) <=> c \in Under(rows, {m}, Movies)
<1>1. ASSUME NEW from, NEW to, \A k \in Movies : k # x => to[k] = from[k],
             c \notin Under(from, {x}, Movies), NEW m, c \notin Under(from, {m}, Movies)
      PROVE  c \notin Under(to, {m}, Movies)
  <2> DEFINE B == Under(from, {m}, Movies)
             X == Under(from, {x}, Movies)
             S == (B \cup X \cup {x}) \cap Movies
  <2>1. \A k \in Movies : to[k] # NoRow /\ to[k].parent \in {m} \cup (S \cap Movies) => k \in S
    <3> SUFFICES ASSUME NEW k \in Movies, to[k] # NoRow,
                        to[k].parent \in {m} \cup (S \cap Movies)
                 PROVE  k \in S
      OBVIOUS
    <3>1. CASE k = x
      BY <3>1
    <3>2. CASE k # x
      <4>1. from[k] = to[k]
        BY <1>1, <3>2
      <4>2. k \in B \/ k \in X
        BY <4>1, ChildBelow
      <4> QED
        BY <4>2
    <3> QED
      BY <3>1, <3>2
  <2>2. Under(to, {m}, Movies) \subseteq S
    BY <2>1, UnderLeast
  <2> QED
    BY <1>1, <2>2
<1>2. c \notin Under(next, {x}, Movies)
  BY <1>1
<1> QED
  BY <1>1, <1>2

\* A set of rows with all that is in them goes: what stays is under the same ones.
LEMMA CutAside ==
    ASSUME NEW rows, NEW next, NEW gone,
           \A k \in Movies : rows[k] # NoRow /\ rows[k].parent \in gone => k \in gone,
           \A k \in Movies : next[k] = IF k \in gone THEN NoRow ELSE rows[k],
           NEW w, w \notin gone
    PROVE  \A m : w \in Under(next, {m}, Movies) <=> w \in Under(rows, {m}, Movies)
<1> TAKE m
<1> DEFINE B == Under(rows, {m}, Movies)
           N == Under(next, {m}, Movies)
           S == (N \cup gone) \cap Movies
<1>1. B \in SUBSET Movies /\ N \in SUBSET Movies
  BY UnderMovies
<1>2. N \subseteq B
  <2>1. \A k \in Movies : next[k] # NoRow /\ next[k].parent \in {m} \cup (B \cap Movies) => k \in B
    BY ChildBelow
  <2> HIDE DEF B
  <2>2. Under(next, {m}, Movies) \subseteq B
    BY <1>1, <2>1, UnderLeast
  <2> QED
    BY <2>2
<1>3. B \subseteq S
  <2>1. ASSUME NEW k \in Movies, rows[k] # NoRow, rows[k].parent \in {m} \cup (S \cap Movies)
        PROVE  k \in S
    <3>1. CASE k \in gone
      BY <3>1
    <3>2. CASE k \notin gone
      <4>1. next[k] = rows[k] /\ rows[k].parent \notin gone
        BY <2>1, <3>2
      <4>2. next[k].parent = m \/ next[k].parent \in N
        BY <2>1, <4>1
      <4> QED
        BY <2>1, <4>1, <4>2, ChildBelow
    <3> QED
      BY <3>1, <3>2
  <2> QED
    BY <2>1, UnderLeast
<1> QED
  BY <1>2, <1>3

-----------------------------------------------------------------------------
(* Movies: the threads. *)

Task ==
    [pc : Steps, op : Ops \cup {"none", "add"}, id : Movies \cup {None}, base : Edits \cup {NoRow},
     cid : Movies \cup {None}, want : Movies \cup {None}, seen : Row \cup {NoRow}, then : Steps,
     folder : Movies \cup {None}, first : BOOLEAN, ids : SUBSET (Movies \cup {None})]

\* A thread is at a step, or is asking for the movie that it needs there.
Asks(r, step) == r.pc = step \/ (r.pc \in {"get", "store"} /\ r.then = step)

Checking(r) ==
    \/ Asks(r, "check") \/ Asks(r, "folder") \/ Asks(r, "climb")
    \/ r.pc \in {"read", "save", "remove"}

\* The step of a thread fits its operation and what it asks for.
Fits(r) ==
    /\ r.pc \in {"store", "folder", "climb", "play"} => r.seen # NoRow
    /\ r.pc \in {"get", "store"} =>
          r.want \in Movies /\ r.then \in {"check", "folder", "climb", "pick", "play"}
    /\ r.pc \in {"folder", "climb"} => r.want \in Movies
    /\ Checking(r) => r.op \in {"update", "delete", "clear"}
    /\ r.pc \in {"read", "save", "drop"} => r.op = "update"
    /\ r.pc = "swap" => r.op = "add"
    /\ r.op \in {"update", "delete", "add"} => r.id \in Movies
    /\ r.op \in {"update", "add"} => r.base \in Edits
    /\ Asks(r, "folder") => r.want = r.id
    /\ Asks(r, "folder") \/ Asks(r, "climb") => r.cid \in Movies
    /\ Asks(r, "play") => r.id \in Movies

ThreadsOK == th \in [Threads -> Task] /\ \A t \in Threads : Fits(th[t])

StoresOK ==
    /\ row \in [Movies -> Row \cup {NoRow}]
    /\ cache \in [Movies -> Row \cup {NoRow}]
    /\ current \in Movies \cup {None}
    /\ fresh \subseteq Movies
    /\ ops \in 0..MaxOps
    /\ behind \subseteq Movies /\ left \subseteq Movies /\ torn \subseteq Movies

\* A thread becomes another task, the others stay.
LEMMA OneBecomes ==
    ASSUME th \in [Threads -> Task], NEW t \in Threads, NEW r, Becomes(t, r)
    PROVE  /\ th'[t] = r
           /\ \A u \in Threads : u # t => th'[u] = th[u]
           /\ r \in Task => th' \in [Threads -> Task]
BY DEF Becomes

LEMMA BecomesOK ==
    ASSUME ThreadsOK, NEW t \in Threads, NEW r \in Task, Fits(r), Becomes(t, r)
    PROVE  ThreadsOK'
BY OneBecomes DEF ThreadsOK

LEMMA IdleOK == Idle \in Task /\ Fits(Idle)
BY MoviesAssumption DEF Idle, Task, Fits, Checking, Asks, Steps

\* What a thread becomes, action by action, is a task that fits.
LEMMA GetFits ==
    ASSUME NEW r \in Task, NEW id \in Movies, NEW step \in {"check", "folder", "climb", "pick", "play"},
           step \in {"check", "folder", "climb"} => r.op \in {"update", "delete", "clear"},
           r.op \in {"update", "delete", "add"} => r.id \in Movies,
           r.op \in {"update", "add"} => r.base \in Edits,
           step = "folder" => id = r.id, step \in {"folder", "climb"} => r.cid \in Movies,
           step = "play" => r.id \in Movies,
           NEW n, n = [r EXCEPT !.pc = "get", !.want = id, !.then = step]
    PROVE  n \in Task /\ Fits(n)
<1>1. n \in Task
  BY DEF Task, Steps
<1>2. /\ n.pc = "get" /\ n.want = id /\ n.then = step
      /\ n.op = r.op /\ n.id = r.id /\ n.base = r.base /\ n.cid = r.cid
  BY DEF Task
<1> QED
  BY <1>1, <1>2 DEF Fits, Checking, Asks

LEMMA AskFits ==
    ASSUME ThreadsOK, StoresOK, NEW t \in Threads, Found(t) \/ Query(t) \/ Store(t)
    PROVE  ThreadsOK'
<1> DEFINE r == th[t]
<1>1. r \in Task /\ Fits(r)
  BY DEF ThreadsOK
<1>2. ASSUME NEW e, e # NoRow, e \in Row, r.pc \in {"get", "store"},
             Becomes(t, [r EXCEPT !.pc = r.then, !.seen = e])
      PROVE  ThreadsOK'
  <2> DEFINE n == [r EXCEPT !.pc = r.then, !.seen = e]
  <2>1. n \in Task
    BY <1>1, <1>2 DEF Task
  <2>2. /\ n.pc = r.then /\ n.seen = e /\ n.then = r.then /\ n.want = r.want
        /\ n.op = r.op /\ n.id = r.id /\ n.base = r.base /\ n.cid = r.cid
    BY <1>1 DEF Task
  <2>3. Fits(n)
    BY <1>1, <1>2, <2>2 DEF Fits, Checking, Asks
  <2> QED
    BY <1>2, <2>1, <2>3, BecomesOK
<1>3. ASSUME NEW e, e # NoRow, e \in Row, r.pc = "get",
             Becomes(t, [r EXCEPT !.pc = "store", !.seen = e])
      PROVE  ThreadsOK'
  <2> DEFINE n == [r EXCEPT !.pc = "store", !.seen = e]
  <2>1. n \in Task
    BY <1>1, <1>3 DEF Task, Steps
  <2>2. /\ n.pc = "store" /\ n.seen = e /\ n.then = r.then /\ n.want = r.want
        /\ n.op = r.op /\ n.id = r.id /\ n.base = r.base /\ n.cid = r.cid
    BY <1>1 DEF Task
  <2>3. Fits(n)
    BY <1>1, <1>3, <2>2 DEF Fits, Checking, Asks
  <2> QED
    BY <1>3, <2>1, <2>3, BecomesOK
<1>4. r.pc \in {"get", "store"} => r.want \in Movies
  BY <1>1 DEF Fits
<1>5. CASE Found(t)
  <2>1. r.pc = "get" /\ cache[r.want] # NoRow /\ cache[r.want] \in Row
    BY <1>4, <1>5 DEF Found, At, StoresOK
  <2> QED
    BY <1>2, <1>5, <2>1 DEF Found
<1>6. CASE Query(t)
  <2>1. r.pc = "get" /\ (row[r.want] # NoRow => row[r.want] \in Row)
    BY <1>4, <1>6 DEF Query, At, StoresOK
  <2>2. CASE row[r.want] = NoRow
    BY <1>6, <2>2, IdleOK, BecomesOK DEF Query, Over
  <2>3. CASE row[r.want] # NoRow
    BY <1>3, <1>6, <2>1, <2>3 DEF Query
  <2> QED
    BY <2>2, <2>3
<1>7. CASE Store(t)
  <2>1. r.pc = "store" /\ r.seen # NoRow /\ r.seen \in Row /\ r.want \in Movies
    BY <1>1, <1>4, <1>7 DEF Store, At, Fits, Task
  <2>2. CASE cache[r.want] = NoRow
    <3>1. Becomes(t, [r EXCEPT !.pc = r.then])
      BY <1>7, <2>2 DEF Store, Goto
    <3>2. [r EXCEPT !.pc = r.then] = [r EXCEPT !.pc = r.then, !.seen = r.seen]
      BY <1>1 DEF Task
    <3> QED
      BY <1>2, <2>1, <3>1, <3>2
  <2>3. CASE cache[r.want] # NoRow
    <3>1. cache[r.want] \in Row
      BY <2>1, <2>3 DEF StoresOK
    <3> QED
      BY <1>2, <1>7, <2>1, <2>3, <3>1 DEF Store
  <2> QED
    BY <2>2, <2>3
<1> QED
  BY <1>5, <1>6, <1>7

LEMMA AllowFits ==
    ASSUME ThreadsOK, NEW t \in Threads, NEW r \in Task, r.op = th[t].op, r.id = th[t].id,
           r.base = th[t].base, Checking(th[t]), Allow(t, r)
    PROVE  /\ ThreadsOK'
           /\ th'[t].pc \in {"read", "remove"} /\ th'[t].id = r.id /\ th'[t].cid = r.cid
<1> DEFINE n == [r EXCEPT !.pc = Allowed[th[t].op], !.seen = NoRow, !.want = None,
                          !.folder = None, !.first = FALSE]
<1>1. th[t] \in Task /\ Fits(th[t])
  BY DEF ThreadsOK
<1>2. /\ th[t].op \in {"update", "delete", "clear"}
      /\ Allowed[th[t].op] = IF th[t].op = "update" THEN "read" ELSE "remove"
  BY <1>1 DEF Fits, Allowed
<1>3. n \in Task
  BY <1>2 DEF Task, Steps
<1>4. /\ n.pc = Allowed[th[t].op] /\ n.op = th[t].op /\ n.id = th[t].id /\ n.base = th[t].base
      /\ n.cid = r.cid
  BY DEF Task
<1>5. Fits(n)
  BY <1>1, <1>2, <1>4 DEF Fits, Checking, Asks
<1>6. Becomes(t, n)
  BY DEF Allow
<1> HIDE DEF n
<1>7. ThreadsOK' /\ th'[t] = n
  BY <1>3, <1>5, <1>6, BecomesOK, OneBecomes DEF ThreadsOK
<1> QED
  BY <1>2, <1>4, <1>7

\* A call of GetMovieByID by a thread that keeps its operation.
LEMMA AskingFits ==
    ASSUME ThreadsOK, NEW t \in Threads, NEW r \in Task,
           r.op = th[t].op, r.id = th[t].id, r.base = th[t].base, NEW id \in Movies,
           NEW step \in {"check", "folder", "climb", "pick", "play"},
           step \in {"check", "folder", "climb"} => Checking(th[t]),
           step = "folder" => id = r.id, step \in {"folder", "climb"} => r.cid \in Movies,
           step = "play" => r.id \in Movies,
           Get(t, id, r, step)
    PROVE  /\ ThreadsOK'
           /\ th'[t].pc = "get" /\ th'[t].then = step /\ th'[t].want = id
           /\ th'[t].id = r.id /\ th'[t].cid = r.cid
           /\ th'[t].folder = r.folder /\ th'[t].first = r.first
<1> DEFINE n == [r EXCEPT !.pc = "get", !.want = id, !.then = step]
<1>1. th[t] \in Task /\ Fits(th[t])
  BY DEF ThreadsOK
<1>2. n \in Task /\ Fits(n)
  <2>1. /\ step \in {"check", "folder", "climb"} => r.op \in {"update", "delete", "clear"}
        /\ r.op \in {"update", "delete", "add"} => r.id \in Movies
        /\ r.op \in {"update", "add"} => r.base \in Edits
    BY <1>1 DEF Fits
  <2> QED
    BY <2>1, GetFits
<1>3. Becomes(t, n)
  BY DEF Get
<1>4. /\ n.pc = "get" /\ n.then = step /\ n.want = id /\ n.id = r.id /\ n.cid = r.cid
      /\ n.folder = r.folder /\ n.first = r.first
  BY DEF Task
<1> HIDE DEF n
<1>5. ThreadsOK' /\ th'[t] = n
  BY <1>2, <1>3, BecomesOK, OneBecomes DEF ThreadsOK
<1> QED
  BY <1>4, <1>5

LEMMA OverOK ==
    ASSUME ThreadsOK, NEW t \in Threads, Over(t)
    PROVE  ThreadsOK' /\ th'[t] = Idle
<1>1. Becomes(t, Idle)
  BY DEF Over
<1>2. ThreadsOK'
  BY <1>1, IdleOK, BecomesOK
<1>3. th'[t] = Idle
  BY <1>1, OneBecomes DEF ThreadsOK
<1> QED
  BY <1>2, <1>3

\* A thread goes on to a step that its operation has.
LEMMA GotoOK ==
    ASSUME ThreadsOK, NEW t \in Threads,
           NEW step \in {"save", "drop", "pick"}, Goto(t, step),
           step \in {"save", "drop"} => th[t].op = "update"
    PROVE  ThreadsOK' /\ th'[t] = [th[t] EXCEPT !.pc = step]
<1> DEFINE r == th[t]
           n == [r EXCEPT !.pc = step]
<1>1. r \in Task /\ Fits(r)
  BY DEF ThreadsOK
<1>2. n \in Task
  BY <1>1 DEF Task, Steps
<1>3. n.pc = step /\ n.op = r.op /\ n.id = r.id /\ n.base = r.base
  BY <1>1 DEF Task
<1>4. Fits(n)
  BY <1>1, <1>3 DEF Fits, Checking, Asks
<1>5. Becomes(t, n)
  BY DEF Goto
<1> HIDE DEF n
<1>6. ThreadsOK' /\ th'[t] = n
  BY <1>2, <1>4, <1>5, BecomesOK, OneBecomes DEF ThreadsOK
<1> QED
  BY <1>6 DEF n

LEMMA CheckFits ==
    ASSUME ThreadsOK, StoresOK, NEW t \in Threads, Check(t) \/ Folder(t) \/ Climb(t)
    PROVE  ThreadsOK'
<1> DEFINE r == th[t]
<1>1. r \in Task /\ Fits(r)
  BY DEF ThreadsOK
<1>2. r.pc \in {"check", "folder", "climb"} /\ Checking(r)
  BY DEF Check, Folder, Climb, At, Checking, Asks
<1>3. ASSUME Over(t)
      PROVE  ThreadsOK'
  BY <1>3, OverOK
<1>4. CASE Check(t)
  <2> DEFINE q == [r EXCEPT !.cid = current]
  <2>1. q \in Task
    BY <1>1 DEF Task, StoresOK
  <2>2. q.op = r.op /\ q.id = r.id /\ q.base = r.base /\ q.cid = current
    BY <1>1 DEF Task
  <2>3. r.id \in Movies \cup {None}
    BY <1>1 DEF Task
  <2>4. \/ Over(t) \/ Allow(t, q)
        \/ r.id \in Movies /\ current \in Movies /\ Get(t, r.id, q, "folder")
    BY <1>4, <2>3 DEF Check, StoresOK
  <2> HIDE DEF q
  <2>5. CASE Get(t, r.id, q, "folder") /\ r.id \in Movies /\ current \in Movies
    BY <1>2, <2>1, <2>2, <2>5, AskingFits
  <2>6. CASE Allow(t, q)
    BY <1>2, <2>1, <2>2, <2>6, AllowFits
  <2> QED
    BY <1>3, <2>4, <2>5, <2>6
<1>5. CASE Folder(t)
  <2> DEFINE m == r.seen
             from == IF m.kind # "file" THEN r.id ELSE m.parent
             one == ~ (m.kind # "file")
             q == [r EXCEPT !.folder = from, !.first = one]
  <2>1. from \in Movies \cup {None} /\ one \in BOOLEAN
    <3>1. m \in Row
      BY <1>1, <1>5 DEF Folder, At, Fits, Task
    <3>2. m.parent \in Movies \cup {None} /\ r.id \in Movies \cup {None}
      BY <1>1, <3>1 DEF Row, Task
    <3> QED
      BY <3>2
  <2>2. q \in Task
    <3> HIDE DEF from, one
    <3> QED
      BY <1>1, <2>1 DEF Task
  <2>3. q.op = r.op /\ q.id = r.id /\ q.base = r.base /\ q.cid = r.cid
    BY <1>1 DEF Task
  <2>4. Get(t, r.cid, q, "climb")
    BY <1>5 DEF Folder
  <2> HIDE DEF q
  <2>5. r.cid \in Movies
    BY <1>1, <1>5 DEF Folder, At, Fits, Asks
  <2> QED
    BY <1>2, <2>2, <2>3, <2>4, <2>5, AskingFits
<1>6. CASE Climb(t)
  <2> DEFINE p == r.seen.parent
             q == [r EXCEPT !.first = FALSE]
  <2>1. p \in Movies \cup {None}
    <3>1. r.seen \in Row
      BY <1>1, <1>6 DEF Climb, At, Fits, Task
    <3> QED
      BY <3>1 DEF Row
  <2>2. q \in Task
    BY <1>1 DEF Task
  <2>3. q.op = r.op /\ q.id = r.id /\ q.base = r.base /\ q.cid \in Movies
    BY <1>1, <1>6 DEF Climb, At, Fits, Asks, Task
  <2>4. \/ Over(t) \/ Allow(t, r)
        \/ p \in Movies /\ Get(t, p, q, "climb")
    BY <1>6, <2>1 DEF Climb
  <2> HIDE DEF q
  <2>5. CASE Get(t, p, q, "climb") /\ p \in Movies
    BY <1>2, <2>2, <2>3, <2>5, AskingFits
  <2>6. CASE Allow(t, r)
    BY <1>1, <1>2, <2>6, AllowFits
  <2> QED
    BY <1>3, <2>4, <2>5, <2>6
<1> QED
  BY <1>4, <1>5, <1>6

\* Under and Orphans are of the movies.
LEMMA OfMovies ==
    /\ \A ids : Below(ids) \subseteq Movies /\ Led(ids) \subseteq Movies
    /\ \A m : Orphans(m) \subseteq Movies
BY UnderMovies DEF Below, Led, Orphans

LEMMA MakeTypes ==
    ASSUME ThreadsOK, StoresOK, NEW t \in Threads,
           \/ \E m \in Movies, edit \in Edits : Add(t, m, edit)
           \/ Swap(t) \/ Read(t) \/ SaveMovie(t) \/ Drop(t)
    PROVE  ThreadsOK' /\ StoresOK'
<1> DEFINE r == th[t]
<1>1. r \in Task /\ Fits(r)
  BY DEF ThreadsOK
<1>2. CASE \E m \in Movies, edit \in Edits : Add(t, m, edit)
  <2> PICK m \in Movies, edit \in Edits : Add(t, m, edit)
    BY <1>2
  <2> DEFINE n == [Idle EXCEPT !.pc = "swap", !.op = "add", !.id = m, !.base = edit]
  <2>1. n \in Task
    BY IdleOK DEF Task, Steps
  <2>2. n.pc = "swap" /\ n.op = "add" /\ n.id = m /\ n.base = edit
    BY IdleOK DEF Task
  <2>3. Fits(n)
    BY <2>2 DEF Fits, Checking, Asks
  <2>4. Becomes(t, n)
    BY DEF Add
  <2> HIDE DEF n
  <2>5. ThreadsOK'
    BY <2>1, <2>3, <2>4, BecomesOK
  <2>6. edit \in Row /\ row' = [row EXCEPT ![m] = edit] /\ fresh' = fresh \ {m}
        /\ ops' \in 0..MaxOps
    <3>1. MaxOps \in Nat /\ edit \in Row
      BY MoviesAssumption
    <3>2. ops \in 0..MaxOps /\ ops < MaxOps /\ ops' = ops + 1
      BY DEF Add, StoresOK
    <3>3. ops' \in 0..MaxOps
      BY <3>1, <3>2
    <3> QED
      BY <3>1, <3>3 DEF Add
  <2>7. row' \in [Movies -> Row \cup {NoRow}] /\ fresh' \subseteq Movies
    BY <2>6 DEF StoresOK
  <2> QED
    BY <2>5, <2>6, <2>7 DEF Add, StoresOK
<1>3. CASE Swap(t)
  <2>1. r.id \in Movies /\ r.base \in Row
    BY <1>1, <1>3, MoviesAssumption DEF Swap, At, Fits
  <2>2. cache' \in [Movies -> Row \cup {NoRow}] /\ behind' \subseteq Movies /\ left' \subseteq Movies
    BY <1>3, <2>1, OfMovies DEF Swap, StoresOK
  <2>3. ThreadsOK'
    BY <1>3, OverOK DEF Swap
  <2> QED
    BY <1>3, <2>2, <2>3 DEF Swap, StoresOK
<1>4. CASE Read(t)
  <2>1. th[t].op = "update"
    BY <1>1, <1>4 DEF Read, At, Fits
  <2>2. ThreadsOK'
    BY <1>4, <2>1, OverOK, GotoOK DEF Read
  <2> QED
    BY <1>4, <2>2 DEF Read, StoresOK
<1>5. CASE SaveMovie(t)
  <2>1. r.op = "update" /\ r.id \in Movies /\ r.base \in Row
    BY <1>1, <1>5, MoviesAssumption DEF SaveMovie, At, Fits
  <2>2. ThreadsOK'
    BY <1>5, <2>1, OverOK, GotoOK DEF SaveMovie
  <2>3. row' \in [Movies -> Row \cup {NoRow}] /\ torn' \subseteq Movies
    <3>1. Below({r.id}) \subseteq Movies
      BY OfMovies
    <3> QED
      BY <1>5, <2>1, <3>1 DEF SaveMovie, StoresOK
  <2> QED
    BY <1>5, <2>2, <2>3 DEF SaveMovie, StoresOK
<1>6. CASE Drop(t)
  <2>1. r.id \in Movies
    BY <1>1, <1>6 DEF Drop, At, Fits
  <2>2. cache' \in [Movies -> Row \cup {NoRow}] /\ behind' \subseteq Movies /\ left' \subseteq Movies
    BY <1>6, <2>1, OfMovies DEF Drop, StoresOK
  <2>3. ThreadsOK'
    BY <1>6, OverOK DEF Drop
  <2> QED
    BY <1>6, <2>2, <2>3 DEF Drop, StoresOK
<1> QED
  BY <1>2, <1>3, <1>4, <1>5, <1>6

LEMMA CutTypes ==
    ASSUME ThreadsOK, StoresOK, NEW t \in Threads, Remove(t) \/ Evict(t)
    PROVE  ThreadsOK' /\ StoresOK'
<1> DEFINE r == th[t]
<1>1. r \in Task /\ Fits(r)
  BY DEF ThreadsOK
<1>2. ASSUME NEW ids \in SUBSET (Movies \cup {None}), r.op # "none" => r.op \in Ops \cup {"add"},
             Becomes(t, [r EXCEPT !.pc = "evict", !.ids = ids])
      PROVE  ThreadsOK'
  <2> DEFINE n == [r EXCEPT !.pc = "evict", !.ids = ids]
  <2>1. n \in Task
    BY <1>1 DEF Task, Steps
  <2>2. n.pc = "evict" /\ n.op = r.op /\ n.id = r.id /\ n.base = r.base
    BY <1>1 DEF Task
  <2>3. Fits(n)
    BY <1>1, <2>2 DEF Fits, Checking, Asks
  <2> HIDE DEF n
  <2> QED
    BY <1>2, <2>1, <2>3, BecomesOK DEF n
<1>3. CASE Remove(t)
  <2>1. Doomed(r.op, r.id) \subseteq Movies
    <3>1. r.id \in Movies \cup {None}
      BY <1>1 DEF Task
    <3> QED
      BY <3>1, OfMovies DEF Doomed
  <2> DEFINE gone == Doomed(r.op, r.id)
  <2>2. /\ UNCHANGED <<cache, current, fresh, ops, behind>>
        /\ \/ Over(t) /\ UNCHANGED <<row, left, torn>>
           \/ /\ row' = [k \in Movies |-> IF k \in gone THEN NoRow ELSE row[k]]
              /\ left' = left \cup Hidden(gone, r.id)
              /\ torn' \in {torn, torn \cup gone}
              /\ Becomes(t, [r EXCEPT !.pc = "evict", !.ids = {r.id}])
    BY <1>3 DEF Remove
  <2>3. ThreadsOK'
    <3>1. CASE Over(t)
      BY <3>1, OverOK
    <3>2. CASE Becomes(t, [r EXCEPT !.pc = "evict", !.ids = {r.id}])
      <4>1. {r.id} \in SUBSET (Movies \cup {None}) /\ (r.op # "none" => r.op \in Ops \cup {"add"})
        BY <1>1 DEF Task
      <4> QED
        BY <1>2, <3>2, <4>1
    <3> QED
      BY <2>2, <3>1, <3>2
  <2>4. Hidden(gone, r.id) \subseteq Movies
    BY <2>1 DEF Hidden
  <2> HIDE DEF gone
  <2>5. StoresOK'
    BY <2>1, <2>2, <2>4 DEF StoresOK, gone
  <2> QED
    BY <2>3, <2>5
<1>4. CASE Evict(t)
  <2> DEFINE hit == Matching(r.ids)
             next == {k \in hit : cache[k].kind # "file"}
  <2>1. hit \subseteq Movies
    BY DEF Matching
  <2>2. /\ UNCHANGED <<row, current, fresh, ops, torn>>
        /\ cache' = [k \in Movies |-> IF k \in hit THEN NoRow ELSE cache[k]]
        /\ behind' = behind \ hit /\ left' = left \ hit
        /\ Over(t) \/ Becomes(t, [r EXCEPT !.pc = "evict", !.ids = next])
    <3>1. r.pc = "evict"
      BY <1>4 DEF Evict, At
    <3>2. [r EXCEPT !.pc = "evict", !.ids = next] = [r EXCEPT !.ids = next]
      BY <1>1, <3>1 DEF Task
    <3> QED
      BY <1>4, <3>2 DEF Evict
  <2>3. ThreadsOK'
    <3>1. CASE Over(t)
      BY <3>1, OverOK
    <3>2. CASE Becomes(t, [r EXCEPT !.pc = "evict", !.ids = next])
      <4>1. next \in SUBSET (Movies \cup {None}) /\ (r.op # "none" => r.op \in Ops \cup {"add"})
        BY <1>1, <2>1 DEF Task
      <4> QED
        BY <1>2, <3>2, <4>1
    <3> QED
      BY <2>2, <3>1, <3>2
  <2> HIDE DEF hit
  <2>4. StoresOK'
    BY <2>1, <2>2 DEF StoresOK
  <2> QED
    BY <2>3, <2>4
<1> QED
  BY <1>3, <1>4

LEMMA SetTypes ==
    ASSUME ThreadsOK, StoresOK, NEW t \in Threads, Current(t) \/ Pick(t) \/ Play(t)
    PROVE  ThreadsOK' /\ StoresOK'
<1> DEFINE r == th[t]
<1>1. r \in Task /\ Fits(r)
  BY DEF ThreadsOK
<1>2. r.id \in Movies \cup {None}
  BY <1>1 DEF Task
<1>3. CASE Current(t)
  <2>1. CASE current = None
    BY <1>3, <2>1, GotoOK DEF Current, StoresOK
  <2>2. CASE current # None
    <3>1. current \in Movies /\ Get(t, current, r, "pick")
      BY <1>3, <2>2 DEF Current, StoresOK
    <3>2. ThreadsOK'
      BY <1>1, <3>1, AskingFits
    <3> QED
      BY <1>3, <3>2 DEF Current, StoresOK
  <2> QED
    BY <2>1, <2>2
<1>4. CASE Pick(t)
  <2>1. CASE r.id = None
    <3>1. Over(t)
      BY <1>4, <2>1 DEF Pick
    <3>2. ThreadsOK'
      BY <3>1, OverOK
    <3> QED
      BY <1>4, <2>1, <3>2 DEF Pick, StoresOK
  <2>2. CASE r.id # None
    <3>1. r.id \in Movies /\ Get(t, r.id, r, "play")
      BY <1>2, <1>4, <2>2 DEF Pick
    <3>2. ThreadsOK'
      BY <1>1, <3>1, AskingFits
    <3> QED
      BY <1>4, <2>2, <3>2 DEF Pick, StoresOK
  <2> QED
    BY <2>1, <2>2
<1>5. CASE Play(t)
  <2>1. r.id \in Movies
    BY <1>1, <1>5 DEF Play, At, Fits, Asks
  <2>2. ThreadsOK'
    BY <1>5, OverOK DEF Play
  <2>3. current' \in Movies \cup {None} /\ torn' \subseteq Movies
    BY <1>5, <2>1 DEF Play, StoresOK
  <2> QED
    BY <1>5, <2>2, <2>3 DEF Play, StoresOK
<1> QED
  BY <1>3, <1>4, <1>5

LEMMA StartTypes ==
    ASSUME ThreadsOK, StoresOK, NEW t \in Threads, NEW o \in Ops, NEW m \in Movies \cup {None},
           NEW edit \in Edits \cup {NoRow}, Start(t, o, m, edit)
    PROVE  ThreadsOK' /\ StoresOK'
<1> DEFINE r == [Idle EXCEPT !.op = o, !.id = m, !.base = edit]
<1>1. Idle \in Task /\ o \in {"update", "delete", "clear", "set"}
  BY IdleOK, MoviesAssumption
<1>2. r \in Task /\ r.op = o /\ r.id = m /\ r.base = edit /\ r.cid = None
  BY <1>1 DEF Task, Idle
<1>3. (m = None => o \in {"clear", "set"}) /\ (edit # NoRow <=> o = "update")
  BY DEF Start
<1> HIDE DEF r
<1>4. ASSUME NEW step \in {"check", "current"}, Becomes(t, [r EXCEPT !.pc = step]),
             step = "check" => o \in {"update", "clear"}
      PROVE  ThreadsOK'
  <2> DEFINE n == [r EXCEPT !.pc = step]
  <2>1. n \in Task
    BY <1>2 DEF Task, Steps
  <2>2. n.pc = step /\ n.op = o /\ n.id = m /\ n.base = edit
    BY <1>2 DEF Task
  <2>3. Fits(n)
    BY <1>1, <1>3, <1>4, <2>2 DEF Fits, Checking, Asks
  <2> HIDE DEF n
  <2> QED
    BY <1>4, <2>1, <2>3, BecomesOK DEF n
<1>5. ThreadsOK'
  <2>1. CASE o \in {"update", "clear"}
    <3>1. Becomes(t, [r EXCEPT !.pc = "check"])
      BY <2>1 DEF Start, r
    <3> QED
      BY <1>4, <2>1, <3>1
  <2>2. CASE o = "delete"
    <3> DEFINE n == [r EXCEPT !.pc = "get", !.want = m, !.then = "check"]
    <3>1. Becomes(t, n)
      BY <2>2 DEF Start, Get, r
    <3>2. n \in Task /\ Fits(n)
      BY <1>2, <1>3, <2>2, GetFits
    <3> HIDE DEF n
    <3> QED
      BY <3>1, <3>2, BecomesOK
  <2>3. CASE o = "set"
    <3>1. Becomes(t, [r EXCEPT !.pc = "current"])
      BY <2>3 DEF Start, r
    <3> QED
      BY <1>4, <3>1
  <2> QED
    BY <1>1, <2>1, <2>2, <2>3
<1>6. StoresOK'
  BY MoviesAssumption DEF Start, StoresOK
<1> QED
  BY <1>5, <1>6

LEMMA MoviesTypesStep ==
    ASSUME ThreadsOK, StoresOK, [MoviesNext]_moviesVars
    PROVE  ThreadsOK' /\ StoresOK'
<1>1. CASE UNCHANGED moviesVars
  BY <1>1 DEF moviesVars, ThreadsOK, StoresOK
<1>2. CASE Reload
  BY <1>2 DEF Reload, ThreadsOK, StoresOK
<1>3. ASSUME NEW t \in Threads, Found(t) \/ Query(t) \/ Store(t)
      PROVE  StoresOK'
  <2>1. CASE Store(t)
    <3>1. th[t].want \in Movies /\ th[t].seen \in Row \cup {NoRow}
      BY <2>1 DEF Store, At, ThreadsOK, Task, Fits
    <3> QED
      BY <2>1, <3>1 DEF Store, StoresOK
  <2> QED
    BY <1>3, <2>1 DEF Found, Query, StoresOK
<1>4. ASSUME NEW t \in Threads, Check(t) \/ Folder(t) \/ Climb(t)
      PROVE  StoresOK'
  <2>1. Folder(t) \/ Climb(t) => torn' \subseteq Movies
    <3>1. Folder(t) \/ Climb(t) => th[t].cid \in Movies
      BY DEF Folder, Climb, At, ThreadsOK, Fits, Asks
    <3> QED
      BY <3>1 DEF Folder, Climb, Misled, StoresOK
  <2> QED
    BY <1>4, <2>1 DEF Check, Folder, Climb, StoresOK
<1>5. ASSUME NEW t \in Threads, MovieStep(t)
      PROVE  ThreadsOK' /\ StoresOK'
  BY <1>3, <1>4, <1>5, AskFits, CheckFits, MakeTypes, CutTypes, SetTypes DEF MovieStep, Ask
<1> QED
  BY <1>1, <1>2, <1>5, MakeTypes, StartTypes DEF MoviesNext, Finished

-----------------------------------------------------------------------------
(* Movies: the rows and the cache. *)

\* A parent is a row: the foreign key.
Keys ==
    \A k \in Movies : row[k] # NoRow /\ row[k].parent # None =>
                         row[k].parent \in Movies /\ row[row[k].parent] # NoRow

\* An id that nobody has used is nowhere.
Untouched ==
    /\ \A m \in fresh : row[m] = NoRow /\ cache[m] = NoRow
    /\ \A t \in Threads : /\ At(t, "store") => th[t].want \notin fresh
                          /\ th[t].pc \in {"save", "swap", "drop"} => th[t].id \notin fresh

RowsOK == ThreadsOK /\ StoresOK /\ Keys /\ Untouched

\* The doomed are there with all that is in them.
LEMMA DoomedWhole ==
    ASSUME NEW o, NEW m, NEW k \in Movies, row[k] # NoRow, row[k].parent \in Doomed(o, m),
           m = None => None \notin Movies
    PROVE  k \in Doomed(o, m)
<1>1. row[k].parent = m \/ row[k].parent \in Under(row, {m}, Movies)
  BY DEF Doomed, Below
<1>2. k \in Under(row, {m}, Movies)
  BY <1>1, ChildBelow
<1> QED
  BY <1>2 DEF Doomed, Below

LEMMA KeysStep ==
    ASSUME RowsOK, [MoviesNext]_moviesVars
    PROVE  Keys'
<1>1. ThreadsOK /\ StoresOK /\ Keys /\ None \notin Movies
  BY MoviesAssumption DEF RowsOK
<1>2. ASSUME UNCHANGED row
      PROVE  Keys'
  BY <1>1, <1>2 DEF Keys
<1>3. ASSUME NEW x \in Movies, NEW edit \in Row, row' = [row EXCEPT ![x] = edit],
             ParentTakes(edit.parent)
      PROVE  Keys'
  <2>1. /\ edit # NoRow /\ edit.parent \in Movies \cup {None}
        /\ \A k \in Movies : row'[k] = IF k = x THEN edit ELSE row[k]
    BY <1>1, <1>3, MoviesAssumption DEF Row, StoresOK
  <2>2. edit.parent # None => row[edit.parent] # NoRow
    BY <1>3 DEF ParentTakes
  <2> QED
    BY <1>1, <2>1, <2>2 DEF Keys
<1>4. ASSUME NEW t \in Threads, Remove(t), ~ UNCHANGED row
      PROVE  Keys'
  <2> DEFINE gone == Doomed(th[t].op, th[t].id)
  <2>1. row' = [k \in Movies |-> IF k \in gone THEN NoRow ELSE row[k]]
    BY <1>4 DEF Remove
  <2>2. \A k \in Movies : row[k] # NoRow /\ row[k].parent \in gone => k \in gone
    BY <1>1, DoomedWhole
  <2> HIDE DEF gone
  <2> QED
    BY <1>1, <2>1, <2>2 DEF Keys
<1>5. ASSUME NEW t \in Threads, SaveMovie(t), ~ UNCHANGED row
      PROVE  Keys'
  <2>1. th[t].id \in Movies /\ th[t].base \in Edits
    BY <1>1, <1>5 DEF SaveMovie, At, ThreadsOK, Fits
  <2>2. th[t].base \in Row
    BY <2>1, MoviesAssumption
  <2> QED
    BY <1>3, <1>5, <2>1, <2>2 DEF SaveMovie
<1>6. ASSUME NEW t \in Threads, NEW m \in Movies, NEW edit \in Edits, Add(t, m, edit)
      PROVE  Keys'
  <2>1. edit \in Row
    BY MoviesAssumption
  <2> QED
    BY <1>3, <1>6, <2>1 DEF Add
<1>7. ASSUME NEW t \in Threads, MovieStep(t)
      PROVE  Keys'
  <2>1. SaveMovie(t) \/ Remove(t) \/ UNCHANGED row
    BY <1>7 DEF MovieStep, Ask, Found, Query, Store, Climb, Swap, Check, Folder, Read, Drop,
                Evict, Current, Pick, Play
  <2> QED
    BY <1>2, <1>4, <1>5, <2>1
<1> QED
  BY <1>2, <1>6, <1>7 DEF MoviesNext, Start, Reload, Finished, moviesVars

LEMMA UntouchedStep ==
    ASSUME RowsOK, [MoviesNext]_moviesVars
    PROVE  Untouched'
<1>1. ThreadsOK /\ StoresOK /\ Untouched
  BY DEF RowsOK
<1> DEFINE Fine(r) == /\ r.pc = "store" => r.want \notin fresh
                      /\ r.pc \in {"save", "swap", "drop"} => r.id \notin fresh
<1>2. \A t \in Threads : Fine(th[t])
  BY <1>1 DEF Untouched, At
<1>3. ASSUME \A m \in fresh' : row'[m] = NoRow /\ cache'[m] = NoRow,
             \A t \in Threads : Fine(th[t])'
      PROVE  Untouched'
  BY <1>3 DEF Untouched, At
\* One thread goes on, and changes at most what is in use.
<1>4. ASSUME NEW t \in Threads, NEW r, Becomes(t, r), fresh' \subseteq fresh,
             \A m \in fresh' : row'[m] = row[m] \/ row'[m] = NoRow,
             \A m \in fresh' : cache'[m] = cache[m] \/ cache'[m] = NoRow,
             /\ r.pc = "store" => r.want \notin fresh'
             /\ r.pc \in {"save", "swap", "drop"} => r.id \notin fresh'
      PROVE  Untouched'
  <2>1. th'[t] = r /\ \A u \in Threads : u # t => th'[u] = th[u]
    BY <1>1, <1>4, OneBecomes DEF ThreadsOK
  <2>2. \A u \in Threads : Fine(th[u])'
    BY <1>2, <1>4, <2>1
  <2>3. \A m \in fresh' : row'[m] = NoRow /\ cache'[m] = NoRow
    BY <1>1, <1>4 DEF Untouched
  <2> QED
    BY <1>3, <2>2, <2>3
<1> HIDE DEF Fine
<1> DEFINE Quiet(r) == r.pc \notin {"store", "save", "swap", "drop"}
<1>5. ASSUME NEW t \in Threads, NEW r, Becomes(t, r), Quiet(r), UNCHANGED <<row, cache, fresh>>
      PROVE  Untouched'
  BY <1>4, <1>5
<1>6. Quiet(Idle)
  BY DEF Idle
<1>7. ASSUME NEW t \in Threads, Over(t), UNCHANGED <<row, cache, fresh>>
      PROVE  Untouched'
  BY <1>5, <1>6, <1>7 DEF Over
<1>8. ASSUME NEW q \in Task, NEW step, step \notin {"store", "save", "swap", "drop"}, NEW a
      PROVE  /\ Quiet([q EXCEPT !.pc = step])
             /\ Quiet([q EXCEPT !.pc = step, !.ids = a])
             /\ Quiet([q EXCEPT !.pc = step, !.seen = a])
             /\ Quiet([q EXCEPT !.pc = step, !.seen = NoRow, !.want = None, !.folder = None,
                                !.first = FALSE])
  BY <1>8 DEF Task
<1>8a. ASSUME NEW q \in Task, NEW a, NEW b
       PROVE  Quiet([q EXCEPT !.pc = "get", !.want = a, !.then = b])
  BY <1>8a DEF Task
<1>9. \A t \in Threads : th[t] \in Task /\ Fits(th[t])
  BY <1>1 DEF ThreadsOK
<1>10. UNCHANGED <<row, cache, fresh, th>> => Untouched'
  BY <1>1 DEF Untouched, At
<1>11. CASE Reload
  <2>1. /\ UNCHANGED <<row, fresh, th>>
        /\ \A m \in Movies : cache'[m] = NoRow
    BY <1>11 DEF Reload
  <2>2. fresh \subseteq Movies
    BY <1>1 DEF StoresOK
  <2> QED
    BY <1>1, <2>1, <2>2 DEF Untouched, At
<1>12. ASSUME NEW t \in Threads, NEW m \in Movies, NEW edit \in Edits, Add(t, m, edit)
       PROVE  Untouched'
  <2> DEFINE n == [Idle EXCEPT !.pc = "swap", !.op = "add", !.id = m, !.base = edit]
  <2>1. n.pc = "swap" /\ n.id = m
    BY DEF Idle
  <2>2. Becomes(t, n) /\ fresh' = fresh \ {m} /\ row' = [row EXCEPT ![m] = edit] /\ cache' = cache
    BY <1>12 DEF Add
  <2>3. \A k \in fresh' : row'[k] = row[k]
    BY <1>1, <2>2 DEF StoresOK
  <2> HIDE DEF n
  <2> QED
    BY <1>4, <2>1, <2>2, <2>3
<1>13. ASSUME NEW t \in Threads, NEW o \in Ops, NEW m \in Movies \cup {None},
              NEW edit \in Edits \cup {NoRow}, Start(t, o, m, edit)
       PROVE  Untouched'
  <2> DEFINE n == [Idle EXCEPT !.op = o, !.id = m, !.base = edit]
  <2>1. n \in Task
    BY IdleOK, <1>13 DEF Task
  <2>2. o \in {"update", "delete", "clear", "set"}
    BY MoviesAssumption
  <2>3. UNCHANGED <<row, cache, fresh>>
    BY <1>13 DEF Start
  <2>4. \/ Becomes(t, [n EXCEPT !.pc = "check"]) \/ Becomes(t, [n EXCEPT !.pc = "current"])
        \/ Becomes(t, [n EXCEPT !.pc = "get", !.want = m, !.then = "check"])
    BY <1>13, <2>2 DEF Start, Get
  <2> HIDE DEF n, Quiet
  <2>5. Quiet([n EXCEPT !.pc = "check"])
    BY <1>8, <2>1
  <2>6. Quiet([n EXCEPT !.pc = "current"])
    BY <1>8, <2>1
  <2>7. Quiet([n EXCEPT !.pc = "get", !.want = m, !.then = "check"])
    BY <1>8a, <2>1
  <2> QED
    BY <1>5, <2>3, <2>4, <2>5, <2>6, <2>7
<1>14. ASSUME NEW t \in Threads, Query(t)
       PROVE  Untouched'
  <2>1. UNCHANGED <<row, cache, fresh>>
    BY <1>14 DEF Query
  <2>2. CASE row[th[t].want] = NoRow
    BY <1>7, <1>14, <2>1, <2>2 DEF Query
  <2>3. CASE row[th[t].want] # NoRow
    <3> DEFINE n == [th[t] EXCEPT !.pc = "store", !.seen = row[th[t].want]]
    <3>1. n.pc = "store" /\ n.want = th[t].want /\ Becomes(t, n)
      BY <1>9, <1>14, <2>3 DEF Query, Task
    <3>2. th[t].want \notin fresh
      BY <1>1, <2>3 DEF Untouched
    <3> HIDE DEF n
    <3> QED
      BY <1>4, <2>1, <3>1, <3>2
  <2> QED
    BY <2>2, <2>3
<1>15. ASSUME NEW t \in Threads, Store(t)
       PROVE  Untouched'
  <2>1. /\ th[t].want \notin fresh /\ th[t].want \in Movies
        /\ th[t].then \in {"check", "folder", "climb", "pick", "play"}
    BY <1>1, <1>9, <1>15 DEF Store, At, Untouched, Fits
  <2>2. \A m \in fresh : cache'[m] = cache[m]
    BY <1>1, <1>15, <2>1 DEF Store, StoresOK
  <2>3. UNCHANGED <<row, fresh>>
    BY <1>15 DEF Store
  <2>4. \/ Becomes(t, [th[t] EXCEPT !.pc = th[t].then])
        \/ Becomes(t, [th[t] EXCEPT !.pc = th[t].then, !.seen = cache[th[t].want]])
    BY <1>15 DEF Store, Goto
  <2> HIDE DEF Quiet
  <2>5. /\ Quiet([th[t] EXCEPT !.pc = th[t].then])
        /\ Quiet([th[t] EXCEPT !.pc = th[t].then, !.seen = cache[th[t].want]])
    BY <1>8, <1>9, <2>1
  <2> USE DEF Quiet
  <2> QED
    BY <1>4, <2>2, <2>3, <2>4, <2>5
<1>16. ASSUME NEW t \in Threads, Found(t)
       PROVE  Untouched'
  <2>1. th[t].then \in {"check", "folder", "climb", "pick", "play"}
    BY <1>9, <1>16 DEF Found, At, Fits
  <2>2. /\ Becomes(t, [th[t] EXCEPT !.pc = th[t].then, !.seen = cache[th[t].want]])
        /\ UNCHANGED <<row, cache, fresh>>
    BY <1>16 DEF Found
  <2> HIDE DEF Quiet
  <2>3. Quiet([th[t] EXCEPT !.pc = th[t].then, !.seen = cache[th[t].want]])
    BY <1>8, <1>9, <2>1
  <2> QED
    BY <1>5, <2>2, <2>3
<1>17. ASSUME NEW t \in Threads, Swap(t) \/ Drop(t)
       PROVE  Untouched'
  <2>1. th[t].id \notin fresh /\ th[t].id \in Movies
    BY <1>1, <1>9, <1>17 DEF Swap, Drop, At, Untouched, Fits
  <2>2. \A m \in fresh : cache'[m] = cache[m]
    BY <1>1, <1>17, <2>1 DEF Swap, Drop, StoresOK
  <2>3. UNCHANGED <<row, fresh>> /\ Becomes(t, Idle)
    BY <1>17 DEF Swap, Drop, Over
  <2> QED
    BY <1>4, <1>6, <2>2, <2>3
<1>18. ASSUME NEW t \in Threads, Allow(t, [th[t] EXCEPT !.cid = current]) \/ Allow(t, th[t]),
              Checking(th[t]), UNCHANGED <<row, cache, fresh>>
       PROVE  Untouched'
  <2>1. th[t].op \in {"update", "delete", "clear"}
    BY <1>9, <1>18 DEF Fits
  <2>2. Allowed[th[t].op] \notin {"store", "save", "swap", "drop"}
    BY <2>1 DEF Allowed
  <2>3. [th[t] EXCEPT !.cid = current] \in Task
    BY <1>1, <1>9 DEF Task, StoresOK
  <2> HIDE DEF Quiet
  <2>4. ASSUME NEW q \in Task, Allow(t, q)
        PROVE  Untouched'
    <3>1. Quiet([q EXCEPT !.pc = Allowed[th[t].op], !.seen = NoRow, !.want = None,
                          !.folder = None, !.first = FALSE])
      BY <1>8, <2>2
    <3> QED
      BY <1>5, <1>18, <2>4, <3>1 DEF Allow
  <2> QED
    BY <1>9, <1>18, <2>3, <2>4
<1>19. ASSUME NEW t \in Threads, NEW id, NEW q \in Task, NEW step, Get(t, id, q, step),
              UNCHANGED <<row, cache, fresh>>
       PROVE  Untouched'
  <2> HIDE DEF Quiet
  <2>1. Quiet([q EXCEPT !.pc = "get", !.want = id, !.then = step])
    BY <1>8a
  <2> QED
    BY <1>5, <1>19, <2>1 DEF Get
<1>20. ASSUME NEW t \in Threads, Check(t) \/ Folder(t) \/ Climb(t)
       PROVE  Untouched'
  <2>1. Checking(th[t]) /\ UNCHANGED <<row, cache, fresh>>
    BY <1>20 DEF Check, Folder, Climb, At, Checking, Asks
  <2>2. CASE Check(t)
    <3>1. [th[t] EXCEPT !.cid = current] \in Task
      BY <1>1, <1>9 DEF Task, StoresOK
    <3>2. \/ Over(t) \/ Allow(t, [th[t] EXCEPT !.cid = current])
          \/ Get(t, th[t].id, [th[t] EXCEPT !.cid = current], "folder")
      BY <2>2 DEF Check
    <3> QED
      BY <1>7, <1>18, <1>19, <2>1, <3>1, <3>2
  <2>3. CASE Folder(t)
    <3> DEFINE from == IF th[t].seen.kind # "file" THEN th[t].id ELSE th[t].seen.parent
               one == ~ (th[t].seen.kind # "file")
               q == [th[t] EXCEPT !.folder = from, !.first = one]
    <3>1. q \in Task
      <4>1. th[t].seen \in Row /\ th[t].id \in Movies \cup {None}
        BY <1>9, <2>3 DEF Folder, At, Fits, Task
      <4>2. from \in Movies \cup {None} /\ one \in BOOLEAN
        BY <4>1 DEF Row
      <4> HIDE DEF from, one
      <4> QED
        BY <1>9, <4>2 DEF Task
    <3>2. Get(t, th[t].cid, q, "climb")
      BY <2>3 DEF Folder
    <3> HIDE DEF q
    <3> QED
      BY <1>19, <2>1, <3>1, <3>2
  <2>4. CASE Climb(t)
    <3> DEFINE q == [th[t] EXCEPT !.first = FALSE]
               p == th[t].seen.parent
    <3>1. q \in Task
      BY <1>9 DEF Task
    <3>2. Over(t) \/ Allow(t, th[t]) \/ Get(t, p, q, "climb")
      <4> HIDE DEF q
      <4> QED
        BY <2>4 DEF Climb, q
    <3> HIDE DEF q, p
    <3> QED
      BY <1>7, <1>18, <1>19, <2>1, <3>1, <3>2
  <2> QED
    BY <1>20, <2>2, <2>3, <2>4
<1>21. ASSUME NEW t \in Threads, Read(t)
       PROVE  Untouched'
  <2>1. UNCHANGED <<row, cache, fresh>>
    BY <1>21 DEF Read
  <2>2. CASE row[th[t].id] = NoRow
    BY <1>7, <1>21, <2>1, <2>2 DEF Read
  <2>3. CASE row[th[t].id] # NoRow
    <3> DEFINE n == [th[t] EXCEPT !.pc = "save"]
    <3>1. n.pc = "save" /\ n.id = th[t].id /\ Becomes(t, n)
      BY <1>9, <1>21, <2>3 DEF Read, Goto, Task
    <3>2. th[t].id \notin fresh
      BY <1>1, <2>3 DEF Untouched
    <3> HIDE DEF n
    <3> QED
      BY <1>4, <2>1, <3>1, <3>2
  <2> QED
    BY <2>2, <2>3
<1>22. ASSUME NEW t \in Threads, SaveMovie(t)
       PROVE  Untouched'
  <2>1. UNCHANGED <<cache, fresh>>
    BY <1>22 DEF SaveMovie
  <2>2. CASE Over(t) /\ UNCHANGED row
    BY <1>7, <2>1, <2>2
  <2>3. CASE Goto(t, "drop") /\ row' = [row EXCEPT ![th[t].id] = th[t].base]
    <3> DEFINE n == [th[t] EXCEPT !.pc = "drop"]
    <3>1. n.pc = "drop" /\ n.id = th[t].id /\ Becomes(t, n)
      BY <1>9, <2>3 DEF Goto, Task
    <3>2. th[t].id \notin fresh
      BY <1>1, <1>22 DEF SaveMovie, At, Untouched
    <3>3. \A m \in fresh : row'[m] = row[m]
      BY <1>1, <2>3, <3>2 DEF StoresOK
    <3> HIDE DEF n
    <3> QED
      BY <1>4, <2>1, <3>1, <3>2, <3>3
  <2> QED
    BY <1>22, <2>2, <2>3 DEF SaveMovie
<1>23. ASSUME NEW t \in Threads, Remove(t)
       PROVE  Untouched'
  <2>1. UNCHANGED <<cache, fresh>>
    BY <1>23 DEF Remove
  <2>2. CASE Over(t) /\ UNCHANGED row
    BY <1>7, <2>1, <2>2
  <2>3. ASSUME NEW gone, row' = [k \in Movies |-> IF k \in gone THEN NoRow ELSE row[k]],
               Becomes(t, [th[t] EXCEPT !.pc = "evict", !.ids = {th[t].id}])
        PROVE  Untouched'
    <3>1. \A m \in fresh : row'[m] = row[m] \/ row'[m] = NoRow
      BY <1>1, <2>3 DEF StoresOK
    <3> HIDE DEF Quiet
    <3>2. Quiet([th[t] EXCEPT !.pc = "evict", !.ids = {th[t].id}])
      BY <1>8, <1>9
    <3> USE DEF Quiet
    <3> QED
      BY <1>4, <2>1, <2>3, <3>1, <3>2
  <2> QED
    BY <1>23, <2>2, <2>3 DEF Remove
<1>24. ASSUME NEW t \in Threads, Evict(t)
       PROVE  Untouched'
  <2> DEFINE hit == Matching(th[t].ids)
             next == {k \in hit : cache[k].kind # "file"}
  <2>1. /\ UNCHANGED <<row, fresh>> /\ cache' = [k \in Movies |-> IF k \in hit THEN NoRow ELSE cache[k]]
        /\ Over(t) \/ Becomes(t, [th[t] EXCEPT !.ids = next])
        /\ th[t].pc = "evict"
    BY <1>24 DEF Evict, At
  <2> HIDE DEF hit, next
  <2>2. \A m \in fresh : cache'[m] = cache[m] \/ cache'[m] = NoRow
    BY <1>1, <2>1 DEF StoresOK
  <2>3. [th[t] EXCEPT !.ids = next].pc = "evict" /\ Idle.pc = "idle"
    BY <1>9, <2>1 DEF Task, Idle
  <2> QED
    BY <1>4, <2>1, <2>2, <2>3 DEF Over
<1>25. ASSUME NEW t \in Threads, Current(t) \/ Pick(t) \/ Play(t)
       PROVE  Untouched'
  <2>1. /\ UNCHANGED <<row, cache, fresh>>
        /\ \/ Over(t) \/ Get(t, current, th[t], "pick") \/ Get(t, th[t].id, th[t], "play")
           \/ Goto(t, "pick")
    BY <1>25 DEF Current, Pick, Play
  <2> HIDE DEF Quiet
  <2>2. Quiet([th[t] EXCEPT !.pc = "pick"])
    BY <1>8, <1>9
  <2>3. Goto(t, "pick") => Untouched'
    BY <1>5, <2>1, <2>2 DEF Goto
  <2> QED
    BY <1>7, <1>9, <1>19, <2>1, <2>3
<1>26. ASSUME NEW t \in Threads, MovieStep(t)
       PROVE  Untouched'
  BY <1>14, <1>15, <1>16, <1>17, <1>20, <1>21, <1>22, <1>23, <1>24, <1>25, <1>26
     DEF MovieStep, Ask
<1> QED
  BY <1>10, <1>11, <1>12, <1>13, <1>26 DEF MoviesNext, Finished, moviesVars

-----------------------------------------------------------------------------
(* Movies: what the cache leads to. *)

Cached == {k \in Movies : cache[k] # NoRow /\ cache[k].kind # "file"}

\* What leads there in the cache: by the movies that are cached and not files.
LEMMA LedWhole ==
    ASSUME NEW ids, NEW k \in Movies, cache[k] # NoRow,
           cache[k].parent \in ids \cup (Led(ids) \cap Cached)
    PROVE  k \in Led(ids)
<1> DEFINE F == {m \in Movies : cache[m] # NoRow /\ cache[m].kind # "file"}
<1>1. cache[k].parent \in ids \cup (Under(cache, ids, F) \cap F)
  BY DEF Led, Cached
<1> HIDE DEF F
<1>2. k \in Under(cache, ids, F)
  BY <1>1, UnderWhole
<1> QED
  BY <1>2 DEF Led, F

LEMMA LedLeast ==
    ASSUME NEW ids, NEW S \in SUBSET Movies,
           \A m \in Movies : cache[m] # NoRow /\ cache[m].parent \in ids \cup (S \cap Cached)
                                => m \in S
    PROVE  Led(ids) \subseteq S
<1> DEFINE F == {m \in Movies : cache[m] # NoRow /\ cache[m].kind # "file"}
<1>1. \A m \in Movies : cache[m] # NoRow /\ cache[m].parent \in ids \cup (S \cap F) => m \in S
  BY DEF Cached
<1> HIDE DEF F
<1>2. Under(cache, ids, F) \subseteq S
  BY <1>1, UnderLeast
<1> QED
  BY <1>2 DEF Led, F

\* The same about the next state.
LEMMA LedWholeNext ==
    ASSUME NEW ids, NEW k \in Movies, cache'[k] # NoRow,
           cache'[k].parent \in ids \cup (Under(cache', ids, Cached') \cap Cached')
    PROVE  k \in Under(cache', ids, Cached')
<1> DEFINE F == Cached'
           next == cache'
<1>1. next[k] # NoRow /\ next[k].parent \in ids \cup (Under(next, ids, F) \cap F)
  OBVIOUS
<1> HIDE DEF F, next
<1>2. k \in Under(next, ids, F)
  BY <1>1, UnderWhole
<1> QED
  BY <1>2 DEF F, next

\* An entry is dropped or swapped: what the cache led to it still leads to, or led to
\* from the entry.
LEMMA LedAround ==
    ASSUME NEW x, \A k \in Movies : k # x => cache'[k] = cache[k], NEW ids
    PROVE  Led(ids) \subseteq Under(cache', ids, Cached') \cup Led({x}) \cup {x}
<1> DEFINE N == Under(cache', ids, Cached')
           S == (N \cup Led({x}) \cup {x}) \cap Movies
<1>1. ASSUME NEW k \in Movies, cache[k] # NoRow, cache[k].parent \in ids \cup (S \cap Cached)
      PROVE  k \in S
  <2> DEFINE p == cache[k].parent
  <2>1. CASE k = x
    BY <2>1
  <2>2. CASE p = x \/ p \in Led({x}) \cap Cached
    <3>1. cache[k].parent \in {x} \cup (Led({x}) \cap Cached)
      BY <2>2
    <3> QED
      BY <1>1, <3>1, LedWhole
  <2>3. CASE k # x /\ p # x /\ (p \in ids \/ (p \in N /\ p \in Cached))
    <3>1. cache'[k] = cache[k]
      BY <2>3
    <3>2. p \in Cached => p \in Cached'
      BY <2>3 DEF Cached
    <3>3. cache'[k].parent \in ids \cup (N \cap Cached')
      BY <2>3, <3>1, <3>2
    <3>4. k \in N
      BY <1>1, <3>1, <3>3, LedWholeNext
    <3> QED
      BY <1>1, <3>4
  <2> QED
    BY <1>1, <2>1, <2>2, <2>3
<1> HIDE DEF S
<1>2. S \subseteq Movies
  BY DEF S
<1>3. Led(ids) \subseteq S
  BY <1>1, <1>2, LedLeast
<1> QED
  BY <1>3 DEF S

\* An entry is stored that was not there: what the cache led to it still leads to.
LEMMA LedMore ==
    ASSUME \A k \in Movies : cache[k] # NoRow => cache'[k] = cache[k], NEW ids
    PROVE  Led(ids) \subseteq Under(cache', ids, Cached')
<1> DEFINE N == Under(cache', ids, Cached')
<1>1. N \in SUBSET Movies
  BY DEF Under
<1>2. ASSUME NEW k \in Movies, cache[k] # NoRow, cache[k].parent \in ids \cup (N \cap Cached)
      PROVE  k \in N
  <2>1. Cached \subseteq Cached' /\ cache'[k] = cache[k]
    BY <1>2 DEF Cached
  <2>2. cache'[k].parent \in ids \cup (N \cap Cached')
    BY <1>2, <2>1
  <2> QED
    BY <1>2, <2>1, <2>2, LedWholeNext
<1> HIDE DEF N
<1>3. Led(ids) \subseteq N
  BY <1>1, <1>2, LedLeast
<1> QED
  BY <1>3 DEF N

\* Entries are evicted: what the cache led to is among them, or it still leads there, or
\* it leads there from the folders among them.
LEMMA LedAfter ==
    ASSUME NEW hit, NEW next, next = {k \in hit : cache[k].kind # "file"},
           hit \subseteq {k \in Movies : cache[k] # NoRow},
           \A k \in Movies : cache'[k] = IF k \in hit THEN NoRow ELSE cache[k], NEW ids
    PROVE  Led(ids) \subseteq hit \cup Under(cache', ids, Cached') \cup Under(cache', next, Cached')
<1> DEFINE N == Under(cache', ids, Cached')
           X == Under(cache', next, Cached')
           S == hit \cup N \cup X
<1>1. S \in SUBSET Movies
  BY DEF Under
<1>2. ASSUME NEW k \in Movies, cache[k] # NoRow, cache[k].parent \in ids \cup (S \cap Cached)
      PROVE  k \in S
  <2> DEFINE p == cache[k].parent
  <2>1. CASE k \in hit
    BY <2>1
  <2>2. CASE k \notin hit
    <3>1. cache'[k] = cache[k]
      BY <2>2
    <3>2. p \in Cached /\ p \notin hit => p \in Cached'
      BY DEF Cached
    <3>3. p \in Cached /\ p \in hit => p \in next
      BY DEF Cached
    <3>4. \/ cache'[k].parent \in ids \cup (N \cap Cached')
          \/ cache'[k].parent \in next \cup (X \cap Cached')
      BY <1>2, <3>1, <3>2, <3>3
    <3>5. CASE cache'[k].parent \in ids \cup (N \cap Cached')
      <4>1. k \in N
        BY <1>2, <3>1, <3>5, LedWholeNext
      <4> QED
        BY <4>1
    <3>6. CASE cache'[k].parent \in next \cup (X \cap Cached')
      <4>1. k \in X
        BY <1>2, <3>1, <3>6, LedWholeNext
      <4> QED
        BY <4>1
    <3> QED
      BY <3>4, <3>5, <3>6
  <2> QED
    BY <2>1, <2>2
<1> HIDE DEF S
<1>3. Led(ids) \subseteq S
  BY <1>1, <1>2, LedLeast
<1> QED
  BY <1>3 DEF S

\* The cache leads nowhere from nothing.
LEMMA LedNothing == Under(cache', {}, Cached') = {}
<1> DEFINE F == Cached'
           next == cache'
<1> HIDE DEF F, next
<1>1. Under(next, {}, F) \subseteq {}
  BY UnderLeast
<1> QED
  BY <1>1 DEF F, next

LEMMA LedNext == \A ids : Led(ids)' = Under(cache', ids, Cached')
BY DEF Led, Cached

-----------------------------------------------------------------------------
(* Movies: the cache tells the truth. *)

\* A cached movie that is gone is excused, or an eviction is on its way to it.
GoneAwaited ==
    \A m \in Movies :
        cache[m] # NoRow /\ row[m] = NoRow =>
            \/ m \in left \cup behind
            \/ \E t \in Threads : /\ At(t, "evict")
                                  /\ None \in th[t].ids \/ m \in Led(th[t].ids)

CacheOK == RowsOK /\ ExistingFollow /\ GoneAwaited

\* A step is of one thread.
LEMMA OthersStay ==
    ASSUME ThreadsOK, NEW t \in Threads,
           \/ MovieStep(t)
           \/ \E m \in Movies, edit \in Edits : Add(t, m, edit)
           \/ \E o \in Ops, m \in Movies \cup {None}, edit \in Edits \cup {NoRow} :
                 Start(t, o, m, edit)
    PROVE  \A u \in Threads : u # t => th'[u] = th[u]
<1>1. ASSUME NEW r, Becomes(t, r)
      PROVE  \A u \in Threads : u # t => th'[u] = th[u]
  BY <1>1, OneBecomes DEF ThreadsOK
<1> DEFINE Goal == \A u \in Threads : u # t => th'[u] = th[u]
<1> HIDE DEF Goal
<1>2. /\ \A r : Becomes(t, r) => Goal
      /\ Over(t) => Goal
      /\ \A step : Goto(t, step) => Goal
      /\ \A id, r, step : Get(t, id, r, step) => Goal
      /\ \A r : Allow(t, r) => Goal
  BY <1>1 DEF Goal, Over, Goto, Get, Allow
<1>3. Found(t) \/ Query(t) \/ Store(t) => Goal
  BY <1>2 DEF Found, Query, Store
<1>4. Check(t) \/ Folder(t) \/ Climb(t) => Goal
  BY <1>2 DEF Check, Folder, Climb
<1>5. Swap(t) \/ Read(t) \/ SaveMovie(t) \/ Drop(t) => Goal
  BY <1>2 DEF Swap, Read, SaveMovie, Drop
<1>6. Remove(t) \/ Evict(t) => Goal
  BY <1>2 DEF Remove, Evict
<1>7. Current(t) \/ Pick(t) \/ Play(t) => Goal
  BY <1>2 DEF Current, Pick, Play
<1>8. ASSUME NEW m \in Movies, NEW edit \in Edits, Add(t, m, edit)
      PROVE  Goal
  BY <1>2, <1>8 DEF Add
<1>9. ASSUME NEW o \in Ops, NEW m \in Movies \cup {None}, NEW edit \in Edits \cup {NoRow},
             Start(t, o, m, edit)
      PROVE  Goal
  <2>1. o \in {"update", "delete", "clear", "set"}
    BY MoviesAssumption
  <2> QED
    BY <1>2, <1>9, <2>1 DEF Start
<1>10. Goal
  BY <1>3, <1>4, <1>5, <1>6, <1>7, <1>8, <1>9 DEF MovieStep, Ask
<1> QED
  BY <1>10 DEF Goal

LEMMA FollowStep ==
    ASSUME CacheOK, [MoviesNext]_moviesVars
    PROVE  ExistingFollow'
<1>1. ThreadsOK /\ StoresOK /\ Untouched /\ ExistingFollow
  BY DEF CacheOK, RowsOK
<1>2. \A t \in Threads : th[t] \in Task /\ Fits(th[t])
  BY <1>1 DEF ThreadsOK
\* Nothing new in the cache or in the rows: only who drops counts.
<1>3. ASSUME \A m \in Movies : cache'[m] = cache[m] \/ cache'[m] = NoRow,
             \A m \in Movies : row'[m] = row[m] \/ row'[m] = NoRow,
             \A m \in behind : m \in behind' \/ cache'[m] = NoRow,
             \A t \in Threads : At(t, "drop") =>
                \/ At(t, "drop")' /\ th'[t].id = th[t].id
                \/ cache'[th[t].id] = NoRow
      PROVE  ExistingFollow'
  <2> SUFFICES ASSUME NEW m \in Movies, cache'[m] # NoRow, row'[m] # NoRow, cache'[m] # row'[m],
                      m \notin behind'
               PROVE  \E t \in Threads : At(t, "drop")' /\ th'[t].id = m
    BY DEF ExistingFollow
  <2>1. cache[m] = cache'[m] /\ row[m] = row'[m] /\ m \notin behind
    BY <1>3
  <2>2. PICK t \in Threads : At(t, "drop") /\ th[t].id = m
    BY <1>1, <2>1 DEF ExistingFollow
  <2> QED
    BY <1>3, <2>2
<1>4. ASSUME NEW t \in Threads, ~ At(t, "drop"),
             \A u \in Threads : u # t => th'[u] = th[u]
      PROVE  \A u \in Threads : At(u, "drop") => At(u, "drop")' /\ th'[u].id = th[u].id
  BY <1>4 DEF At
<1>5. ASSUME NEW t \in Threads, MovieStep(t), ~ Drop(t), ~ Swap(t), ~ SaveMovie(t), ~ Store(t)
      PROVE  ExistingFollow'
  <2>1. \A u \in Threads : u # t => th'[u] = th[u]
    BY <1>1, <1>5, OthersStay
  <2>2. ~ At(t, "drop")
    BY <1>5 DEF MovieStep, Ask, At, Found, Query, Climb, Check, Folder, Read, Remove, Evict,
                Current, Pick, Play
  <2>3. CASE Remove(t)
    <3>1. UNCHANGED <<cache, behind>>
      BY <2>3 DEF Remove
    <3>2. \A m \in Movies : row'[m] = row[m] \/ row'[m] = NoRow
      BY <1>1, <2>3 DEF Remove, StoresOK
    <3> QED
      BY <1>3, <1>4, <2>1, <2>2, <3>1, <3>2
  <2>4. CASE Evict(t)
    <3> DEFINE hit == Matching(th[t].ids)
    <3>1. /\ row' = row /\ behind' = behind \ hit
          /\ cache' = [k \in Movies |-> IF k \in hit THEN NoRow ELSE cache[k]]
      BY <2>4 DEF Evict
    <3> HIDE DEF hit
    <3>2. \A m \in Movies : cache'[m] = cache[m] \/ cache'[m] = NoRow
      BY <3>1
    <3>3. \A m \in behind : m \in behind' \/ cache'[m] = NoRow
      BY <1>1, <3>1 DEF StoresOK
    <3> QED
      BY <1>3, <1>4, <2>1, <2>2, <3>1, <3>2, <3>3
  <2>5. CASE UNCHANGED <<row, cache, behind>>
    BY <1>3, <1>4, <2>1, <2>2, <2>5
  <2> QED
    BY <1>5, <2>3, <2>4, <2>5
       DEF MovieStep, Ask, Found, Query, Climb, Check, Folder, Read, Current, Pick, Play
<1>6. ASSUME NEW t \in Threads, Store(t)
      PROVE  ExistingFollow'
  <2>1. th[t].want \in Movies /\ th[t].pc = "store"
    BY <1>2, <1>6 DEF Store, At, Fits
  <2>2. \A u \in Threads : u # t => th'[u] = th[u]
    BY <1>1, <1>6, OthersStay DEF MovieStep, Ask
  <2>3. \A u \in Threads : At(u, "drop") => At(u, "drop")' /\ th'[u].id = th[u].id
    BY <1>4, <2>1, <2>2 DEF At
  <2>4. CASE cache[th[t].want] # NoRow
    BY <1>3, <1>6, <2>3, <2>4 DEF Store
  <2>5. CASE cache[th[t].want] = NoRow
    <3>1. /\ \A m \in Movies : m # th[t].want => cache'[m] = cache[m]
          /\ cache'[th[t].want] = th[t].seen /\ row' = row
          /\ behind \subseteq behind'
          /\ th[t].seen # row[th[t].want] => th[t].want \in behind'
      BY <1>1, <1>6, <2>1, <2>5 DEF Store, StoresOK
    <3> QED
      BY <1>1, <2>3, <3>1 DEF ExistingFollow
  <2> QED
    BY <2>4, <2>5
<1>7. ASSUME NEW t \in Threads, Swap(t)
      PROVE  ExistingFollow'
  <2>1. th[t].id \in Movies /\ th[t].pc = "swap"
    BY <1>2, <1>7 DEF Swap, At, Fits
  <2>2. \A u \in Threads : At(u, "drop") => At(u, "drop")' /\ th'[u].id = th[u].id
    <3>1. \A u \in Threads : u # t => th'[u] = th[u]
      BY <1>1, <1>7, OthersStay DEF MovieStep
    <3> QED
      BY <1>4, <2>1, <3>1 DEF At
  <2>3. /\ \A m \in Movies : m # th[t].id => cache'[m] = cache[m]
        /\ cache'[th[t].id] = th[t].base /\ row' = row
        /\ \A m \in behind : m # th[t].id => m \in behind'
        /\ th[t].base # row[th[t].id] => th[t].id \in behind'
    BY <1>1, <1>7, <2>1 DEF Swap, StoresOK
  <2> QED
    BY <1>1, <2>2, <2>3 DEF ExistingFollow
<1>8. ASSUME NEW t \in Threads, Drop(t)
      PROVE  ExistingFollow'
  <2>1. th[t].id \in Movies
    BY <1>2, <1>8 DEF Drop, At, Fits
  <2>2. \A u \in Threads : u # t => th'[u] = th[u]
    BY <1>1, <1>8, OthersStay DEF MovieStep
  <2>3. /\ \A m \in Movies : m # th[t].id => cache'[m] = cache[m]
        /\ cache'[th[t].id] = NoRow /\ row' = row
        /\ \A m \in behind : m # th[t].id => m \in behind'
    BY <1>1, <1>8, <2>1 DEF Drop, StoresOK
  <2>4. \A u \in Threads : At(u, "drop") =>
           \/ At(u, "drop")' /\ th'[u].id = th[u].id
           \/ cache'[th[u].id] = NoRow
    BY <2>2, <2>3 DEF At
  <2> QED
    BY <1>3, <2>3, <2>4
<1>9. ASSUME NEW t \in Threads, SaveMovie(t)
      PROVE  ExistingFollow'
  <2>1. th[t].id \in Movies /\ th[t].pc = "save"
    BY <1>2, <1>9 DEF SaveMovie, At, Fits
  <2>2. \A u \in Threads : At(u, "drop") => At(u, "drop")' /\ th'[u].id = th[u].id
    <3>1. \A u \in Threads : u # t => th'[u] = th[u]
      BY <1>1, <1>9, OthersStay DEF MovieStep
    <3> QED
      BY <1>4, <2>1, <3>1 DEF At
  <2>3. UNCHANGED <<cache, behind>>
    BY <1>9 DEF SaveMovie
  <2>4. CASE UNCHANGED row
    BY <1>3, <2>2, <2>3, <2>4
  <2>5. CASE Goto(t, "drop") /\ \A m \in Movies : m # th[t].id => row'[m] = row[m]
    <3>1. th'[t].pc = "drop" /\ th'[t].id = th[t].id
      <4>1. th'[t] = [th[t] EXCEPT !.pc = "drop"]
        BY <1>1, <2>5, OneBecomes DEF Goto, ThreadsOK
      <4> QED
        BY <1>2, <4>1 DEF Task
    <3> QED
      BY <1>1, <2>2, <2>3, <2>5, <3>1 DEF ExistingFollow, At
  <2> QED
    BY <1>1, <1>9, <2>4, <2>5 DEF SaveMovie, StoresOK
<1>10. ASSUME NEW t \in Threads, NEW m \in Movies, NEW edit \in Edits, Add(t, m, edit)
       PROVE  ExistingFollow'
  <2>1. cache[m] = NoRow /\ th[t].pc = "idle"
    BY <1>1, <1>10 DEF Add, At, Untouched
  <2>2. \A u \in Threads : At(u, "drop") => At(u, "drop")' /\ th'[u].id = th[u].id
    <3>1. \A u \in Threads : u # t => th'[u] = th[u]
      BY <1>1, <1>10, OthersStay
    <3> QED
      BY <1>4, <2>1, <3>1 DEF At
  <2>3. UNCHANGED <<cache, behind>> /\ \A k \in Movies : k # m => row'[k] = row[k]
    BY <1>1, <1>10 DEF Add, StoresOK
  <2> QED
    BY <1>1, <2>1, <2>2, <2>3 DEF ExistingFollow
<1>11. ASSUME NEW t \in Threads, NEW o \in Ops, NEW m \in Movies \cup {None},
              NEW edit \in Edits \cup {NoRow}, Start(t, o, m, edit)
       PROVE  ExistingFollow'
  <2>1. th[t].pc = "idle" /\ UNCHANGED <<row, cache, behind>>
    BY <1>11 DEF Start, At
  <2>2. \A u \in Threads : u # t => th'[u] = th[u]
    BY <1>1, <1>11, OthersStay
  <2> QED
    BY <1>3, <1>4, <2>1, <2>2 DEF At
<1>12. CASE Reload
  <2>1. \A m \in Movies : cache'[m] = NoRow
    BY <1>12 DEF Reload
  <2> QED
    BY <2>1 DEF ExistingFollow
<1>13. CASE UNCHANGED moviesVars
  BY <1>1, <1>13 DEF moviesVars, ExistingFollow, At
<1> QED
  BY <1>5, <1>6, <1>7, <1>8, <1>9, <1>10, <1>11, <1>12, <1>13 DEF MoviesNext, Finished

LEMMA AwaitedStep ==
    ASSUME CacheOK, [MoviesNext]_moviesVars
    PROVE  GoneAwaited'
<1>1. ThreadsOK /\ StoresOK /\ Untouched /\ GoneAwaited
  BY DEF CacheOK, RowsOK
<1>2. \A t \in Threads : th[t] \in Task /\ Fits(th[t])
  BY <1>1 DEF ThreadsOK
<1>3. \A ids : Led(ids)' = Under(cache', ids, Cached')
  BY LedNext
\* An eviction goes on to reach the movie.
<1> DEFINE Reaches(t, m) == At(t, "evict") /\ (None \in th[t].ids \/ m \in Led(th[t].ids))
           Known(m) == m \in left \cup behind \/ \E t \in Threads : Reaches(t, m)
<1>4. ASSUME \A m \in Movies : cache'[m] # NoRow /\ row'[m] = NoRow => Known(m)'
      PROVE  GoneAwaited'
  BY <1>4 DEF GoneAwaited
<1>5. \A m \in Movies : cache[m] # NoRow /\ row[m] = NoRow => Known(m)
  BY <1>1 DEF GoneAwaited
\* Neither the cache nor the eviction of another thread changes.
<1>6. ASSUME UNCHANGED cache, NEW t \in Threads, \A u \in Threads : u # t => th'[u] = th[u]
      PROVE  \A u \in Threads, m \in Movies : u # t /\ Reaches(u, m) => Reaches(u, m)'
  BY <1>6 DEF At, Led
<1>7. ASSUME UNCHANGED cache, NEW t \in Threads, \A u \in Threads : u # t => th'[u] = th[u],
             ~ At(t, "evict"),
             left \subseteq left', behind \subseteq behind',
             \A m \in Movies : row'[m] = NoRow => row[m] = NoRow
      PROVE  GoneAwaited'
  <2> SUFFICES ASSUME NEW m \in Movies, cache'[m] # NoRow, row'[m] = NoRow
               PROVE  Known(m)'
    BY <1>4
  <2>1. Known(m)
    BY <1>5, <1>7
  <2>2. ASSUME NEW u \in Threads, Reaches(u, m)
        PROVE  Reaches(u, m)'
    <3>1. u # t
      BY <1>7, <2>2
    <3> QED
      BY <1>6, <1>7, <2>2, <3>1
  <2> HIDE DEF Reaches
  <2> QED
    BY <1>7, <2>1, <2>2
\* A thread that did not evict changes the cache at one movie, to which it accounts.
<1>8. ASSUME NEW t \in Threads, \A u \in Threads : u # t => th'[u] = th[u],
             ~ At(t, "evict"), UNCHANGED row, NEW x \in Movies,
             \A m \in Movies : m # x => cache'[m] = cache[m],
             cache'[x] # NoRow /\ row[x] = NoRow => x \in left' \cup behind',
             \A m \in Movies : m # x =>
                /\ m \in left \cup behind => m \in left' \cup behind'
                /\ row[m] = NoRow /\ m \in Led({x}) => m \in left' \cup behind'
      PROVE  GoneAwaited'
  <2> SUFFICES ASSUME NEW m \in Movies, cache'[m] # NoRow, row'[m] = NoRow
               PROVE  Known(m)'
    BY <1>4
  <2>1. CASE m = x
    BY <1>8, <2>1
  <2>2. CASE m # x
    <3>1. Known(m)
      BY <1>5, <1>8, <2>2
    <3>2. ASSUME NEW u \in Threads, Reaches(u, m)
          PROVE  m \in left' \cup behind' \/ Reaches(u, m)'
      <4>1. u # t /\ th'[u] = th[u]
        BY <1>8, <3>2
      <4>2. m \in Led(th[u].ids) => m \in Under(cache', th[u].ids, Cached') \cup Led({x})
        BY <1>8, <2>2, LedAround
      <4>3. m \in Led({x}) => m \in left' \cup behind'
        BY <1>8, <2>2
      <4> QED
        BY <1>3, <3>2, <4>1, <4>2, <4>3 DEF At
    <3> HIDE DEF Reaches
    <3> QED
      BY <1>8, <2>2, <3>1, <3>2
  <2> QED
    BY <2>1, <2>2
<1>9. ASSUME NEW t \in Threads, Store(t)
      PROVE  GoneAwaited'
  <2> DEFINE w == th[t].want
  <2>1. w \in Movies /\ th[t].pc = "store" /\ UNCHANGED <<row, left>>
    BY <1>2, <1>9 DEF Store, At, Fits
  <2>2. \A u \in Threads : u # t => th'[u] = th[u]
    BY <1>1, <1>9, OthersStay DEF MovieStep, Ask
  <2>3. CASE cache[w] # NoRow
    <3>1. UNCHANGED <<cache, behind>>
      BY <1>9, <2>3 DEF Store
    <3> QED
      BY <1>7, <2>1, <2>2, <3>1 DEF At
  <2>4. CASE cache[w] = NoRow
    <3>1. /\ cache' = [cache EXCEPT ![w] = th[t].seen]
          /\ behind' = IF th[t].seen # row[w] THEN behind \cup {w} ELSE behind
      BY <1>9, <2>4 DEF Store
    <3>2. th[t].seen # NoRow
      BY <1>2, <2>1 DEF Fits
    <3>3. \A k \in Movies : cache[k] # NoRow => cache'[k] = cache[k]
      BY <1>1, <2>4, <3>1 DEF StoresOK
    <3>4. \A k \in Movies : k # w => cache'[k] = cache[k]
      BY <1>1, <3>1 DEF StoresOK
    <3> SUFFICES ASSUME NEW m \in Movies, cache'[m] # NoRow, row'[m] = NoRow
                 PROVE  Known(m)'
      BY <1>4
    <3>5. CASE m = w
      BY <2>1, <3>1, <3>2, <3>5
    <3>6. CASE m # w
      <4>1. Known(m)
        BY <1>5, <2>1, <3>4, <3>6
      <4>2. ASSUME NEW u \in Threads, Reaches(u, m)
            PROVE  Reaches(u, m)'
        <5>1. u # t /\ th'[u] = th[u]
          BY <2>1, <2>2, <4>2 DEF At
        <5>2. m \in Led(th[u].ids) => m \in Under(cache', th[u].ids, Cached')
          BY <3>3, LedMore
        <5> QED
          BY <1>3, <4>2, <5>1, <5>2 DEF At
      <4> HIDE DEF Reaches
      <4> QED
        BY <2>1, <3>1, <4>1, <4>2
    <3> QED
      BY <3>5, <3>6
  <2> QED
    BY <2>3, <2>4
<1>10. ASSUME NEW t \in Threads, Swap(t)
       PROVE  GoneAwaited'
  <2> DEFINE x == th[t].id
  <2>1. x \in Movies /\ th[t].pc = "swap" /\ UNCHANGED row /\ th[t].base # NoRow
    <3>1. x \in Movies /\ th[t].pc = "swap" /\ UNCHANGED row /\ th[t].base \in Edits
      BY <1>2, <1>10 DEF Swap, At, Fits
    <3> QED
      BY <3>1, MoviesAssumption
  <2>2. \A u \in Threads : u # t => th'[u] = th[u]
    BY <1>1, <1>10, OthersStay DEF MovieStep
  <2>3. /\ \A m \in Movies : m # x => cache'[m] = cache[m]
        /\ row[x] = NoRow => x \in behind'
        /\ \A m \in Movies : m # x =>
              /\ m \in left \cup behind => m \in left' \cup behind'
              /\ m \in Orphans(x) => m \in left'
    BY <1>1, <1>10, <2>1 DEF Swap, StoresOK
  <2>4. \A m \in Movies : row[m] = NoRow /\ m \in Led({x}) => m \in Orphans(x)
    BY DEF Orphans
  <2> QED
    BY <1>8, <2>1, <2>2, <2>3, <2>4 DEF At
<1>11. ASSUME NEW t \in Threads, Drop(t)
       PROVE  GoneAwaited'
  <2> DEFINE x == th[t].id
  <2>1. x \in Movies /\ th[t].pc = "drop" /\ UNCHANGED row
    BY <1>2, <1>11 DEF Drop, At, Fits
  <2>2. \A u \in Threads : u # t => th'[u] = th[u]
    BY <1>1, <1>11, OthersStay DEF MovieStep
  <2>3. /\ \A m \in Movies : m # x => cache'[m] = cache[m]
        /\ cache'[x] = NoRow
        /\ \A m \in Movies : m # x =>
              /\ m \in left \cup behind => m \in left' \cup behind'
              /\ m \in Orphans(x) => m \in left'
    BY <1>1, <1>11, <2>1 DEF Drop, StoresOK
  <2>4. \A m \in Movies : row[m] = NoRow /\ m \in Led({x}) => m \in Orphans(x)
    BY DEF Orphans
  <2> QED
    BY <1>8, <2>1, <2>2, <2>3, <2>4 DEF At
<1>12. ASSUME NEW t \in Threads, Remove(t)
       PROVE  GoneAwaited'
  <2> DEFINE x == th[t].id
             gone == Doomed(th[t].op, x)
  <2>1. th[t].pc = "remove" /\ UNCHANGED <<cache, behind>>
    BY <1>12 DEF Remove, At
  <2>2. \A u \in Threads : u # t => th'[u] = th[u]
    BY <1>1, <1>12, OthersStay DEF MovieStep
  <2>3. CASE gone = {}
    <3>1. UNCHANGED <<row, left>>
      BY <1>12, <2>3 DEF Remove
    <3> QED
      BY <1>7, <2>1, <2>2, <3>1 DEF At
  <2>4. CASE gone # {}
    <3>1. /\ row' = [k \in Movies |-> IF k \in gone THEN NoRow ELSE row[k]]
          /\ left' = left \cup Hidden(gone, x)
          /\ Becomes(t, [th[t] EXCEPT !.pc = "evict", !.ids = {x}])
      BY <1>12, <2>4 DEF Remove
    <3>2. th'[t].pc = "evict" /\ th'[t].ids = {x}
      <4>1. th'[t] = [th[t] EXCEPT !.pc = "evict", !.ids = {x}]
        BY <1>1, <3>1, OneBecomes DEF ThreadsOK
      <4> QED
        BY <1>2, <4>1 DEF Task
    <3> SUFFICES ASSUME NEW m \in Movies, cache'[m] # NoRow, row'[m] = NoRow
                 PROVE  Known(m)'
      BY <1>4
    <3>3. CASE m \in gone
      <4>1. CASE x = None
        BY <3>2, <4>1 DEF At
      <4>2. CASE x # None /\ m \in Led({x})
        <5>1. m \in Under(cache', {x}, Cached')
          BY <2>1, <4>2 DEF Led, Cached
        <5> QED
          BY <1>3, <3>2, <5>1 DEF At
      <4>3. CASE x # None /\ m \notin Led({x})
        <5>1. m \in Hidden(gone, x)
          <6> HIDE DEF gone
          <6> QED
            BY <2>1, <3>3, <4>3 DEF Hidden
        <5> QED
          BY <3>1, <5>1
      <4> QED
        BY <4>1, <4>2, <4>3
    <3>4. CASE m \notin gone
      <4>1. Known(m)
        <5> HIDE DEF gone
        <5>1. row[m] = NoRow
          BY <3>1, <3>4
        <5> QED
          BY <1>5, <2>1, <5>1
      <4>2. ASSUME NEW u \in Threads, Reaches(u, m)
            PROVE  Reaches(u, m)'
        <5>1. u # t
          BY <2>1, <4>2 DEF At
        <5> QED
          BY <1>6, <2>1, <2>2, <4>2, <5>1
      <4> HIDE DEF Reaches, gone
      <4> QED
        BY <2>1, <3>1, <4>1, <4>2
    <3> QED
      BY <3>3, <3>4
  <2> QED
    BY <2>3, <2>4
<1>13. ASSUME NEW t \in Threads, Evict(t)
       PROVE  GoneAwaited'
  <2> DEFINE ids == th[t].ids
             hit == Matching(ids)
             next == {k \in hit : cache[k].kind # "file"}
  <2>1. /\ th[t].pc = "evict" /\ UNCHANGED row
        /\ behind' = behind \ hit /\ left' = left \ hit
        /\ cache' = [k \in Movies |-> IF k \in hit THEN NoRow ELSE cache[k]]
        /\ hit \subseteq {k \in Movies : cache[k] # NoRow}
    BY <1>13 DEF Evict, At, Matching
  <2>2. \A u \in Threads : u # t => th'[u] = th[u]
    BY <1>1, <1>13, OthersStay DEF MovieStep
  <2>3. None \notin ids /\ next # {} => th'[t].pc = "evict" /\ th'[t].ids = next
    <3>1. None \notin ids /\ next # {} => Becomes(t, [th[t] EXCEPT !.ids = next])
      BY <1>13 DEF Evict
    <3> HIDE DEF next
    <3>2. None \notin ids /\ next # {} => th'[t] = [th[t] EXCEPT !.ids = next]
      BY <1>1, <3>1, OneBecomes DEF ThreadsOK
    <3> QED
      BY <1>2, <2>1, <3>2 DEF Task
  <2>4. \A m \in Movies : cache[m] # NoRow /\ (None \in ids \/ cache[m].parent \in ids) => m \in hit
    BY DEF Matching
  <2> SUFFICES ASSUME NEW m \in Movies, cache'[m] # NoRow, row'[m] = NoRow
               PROVE  Known(m)'
    BY <1>4
  <2>5. next = {k \in hit : cache[k].kind # "file"}
    OBVIOUS
  <2> HIDE DEF hit, next
  <2>6. m \notin hit /\ cache[m] # NoRow
    BY <2>1
  <2>7. None \notin ids
    BY <2>4, <2>6
  <2>8. Known(m)
    BY <1>5, <2>1, <2>6
\* What the cache led to from where an eviction is, it still leads to from there, or the
\* thread leads to it now.
  <2>9. m \in Under(cache', next, Cached') => Reaches(t, m)'
    <3>1. next = {} => Under(cache', next, Cached') = {}
      BY LedNothing
    <3> QED
      BY <1>3, <2>3, <2>7, <3>1 DEF At
  <2>10. \A from : m \in Led(from) =>
            m \in Under(cache', from, Cached') \cup Under(cache', next, Cached')
    <3>1. \A k \in Movies : cache'[k] = IF k \in hit THEN NoRow ELSE cache[k]
      BY <2>1
    <3> QED
      BY <2>1, <2>5, <2>6, <3>1, LedAfter
  <2>11. ASSUME NEW u \in Threads, Reaches(u, m)
         PROVE  Reaches(u, m)' \/ Reaches(t, m)'
    <3>1. CASE u # t
      <4>1. th'[u] = th[u]
        BY <2>2, <3>1
      <4>2. m \in Led(th[u].ids) =>
               m \in Under(cache', th[u].ids, Cached') \cup Under(cache', next, Cached')
        BY <2>10
      <4> QED
        BY <1>3, <2>9, <2>11, <4>1, <4>2 DEF At
    <3>2. CASE u = t
\* Whatever is in the ids themselves has gone.
      <4>1. m \in Led(ids)
        BY <2>7, <2>11, <3>2
      <4>2. m \in Under(cache', next, Cached')
        <5> DEFINE X == Under(cache', next, Cached')
                   S == hit \cup X
        <5>1. S \in SUBSET Movies
          BY <2>1 DEF Under
        <5>2. ASSUME NEW k \in Movies, cache[k] # NoRow, cache[k].parent \in ids \cup (S \cap Cached)
              PROVE  k \in S
          <6> DEFINE p == cache[k].parent
          <6>1. CASE k \in hit
            BY <6>1
          <6>2. CASE k \notin hit
            <7>1. cache'[k] = cache[k] /\ p \in S /\ p \in Cached
              BY <2>1, <2>4, <5>2, <6>2
            <7>2. p \in Cached /\ p \notin hit => p \in Cached'
              BY <2>1 DEF Cached
            <7>3. p \in Cached /\ p \in hit => p \in next
              BY <2>5 DEF Cached
            <7>4. cache'[k].parent \in next \cup (X \cap Cached')
              BY <7>1, <7>2, <7>3
            <7>5. k \in X
              BY <5>2, <7>1, <7>4, LedWholeNext
            <7> QED
              BY <7>5
          <6> QED
            BY <6>1, <6>2
        <5> HIDE DEF S
        <5>3. Led(ids) \subseteq S
          BY <5>1, <5>2, LedLeast
        <5> QED
          BY <2>6, <4>1, <5>3 DEF S
      <4> QED
        BY <2>9, <4>2
    <3> QED
      BY <3>1, <3>2
  <2> HIDE DEF Reaches
  <2> QED
    BY <2>1, <2>6, <2>8, <2>11
<1>14. ASSUME NEW t \in Threads, MovieStep(t), ~ Store(t), ~ Swap(t), ~ Drop(t), ~ Remove(t),
              ~ Evict(t)
       PROVE  GoneAwaited'
  <2>1. \A u \in Threads : u # t => th'[u] = th[u]
    BY <1>1, <1>14, OthersStay
  <2>2. UNCHANGED <<cache, behind, left>> /\ ~ At(t, "evict")
    BY <1>14 DEF MovieStep, Ask, At, Found, Query, Climb, Check, Folder, Read, SaveMovie,
                 Current, Pick, Play
  <2>3. \A m \in Movies : row'[m] = NoRow => row[m] = NoRow
    <3>1. CASE SaveMovie(t) /\ ~ UNCHANGED row
      <4>1. row' = [row EXCEPT ![th[t].id] = th[t].base]
        BY <3>1 DEF SaveMovie
      <4>2. th[t].base \in Edits
        BY <1>2, <3>1 DEF SaveMovie, At, Fits
      <4>3. th[t].base # NoRow
        BY <4>2, MoviesAssumption
      <4> QED
        BY <1>1, <4>1, <4>3 DEF StoresOK
    <3> QED
      BY <1>14, <3>1 DEF MovieStep, Ask, Found, Query, Climb, Check, Folder, Read,
                         Current, Pick, Play
  <2> QED
    BY <1>7, <2>1, <2>2, <2>3
<1>15. ASSUME NEW t \in Threads, NEW m \in Movies, NEW edit \in Edits, Add(t, m, edit)
       PROVE  GoneAwaited'
  <2>1. \A u \in Threads : u # t => th'[u] = th[u]
    BY <1>1, <1>15, OthersStay
  <2>2. UNCHANGED <<cache, behind, left>> /\ ~ At(t, "evict")
    BY <1>15 DEF Add, At
  <2>3. edit # NoRow
    BY MoviesAssumption
  <2>4. \A k \in Movies : row'[k] = NoRow => row[k] = NoRow
    BY <1>1, <1>15, <2>3 DEF Add, StoresOK
  <2> QED
    BY <1>7, <2>1, <2>2, <2>4
<1>16. ASSUME NEW t \in Threads, NEW o \in Ops, NEW m \in Movies \cup {None},
              NEW edit \in Edits \cup {NoRow}, Start(t, o, m, edit)
       PROVE  GoneAwaited'
  <2>1. \A u \in Threads : u # t => th'[u] = th[u]
    BY <1>1, <1>16, OthersStay
  <2>2. UNCHANGED <<row, cache, behind, left>> /\ ~ At(t, "evict")
    BY <1>16 DEF Start, At
  <2> QED
    BY <1>7, <2>1, <2>2
<1>17. CASE Reload
  <2>1. \A m \in Movies : cache'[m] = NoRow
    BY <1>17 DEF Reload
  <2> QED
    BY <2>1 DEF GoneAwaited
<1>18. CASE UNCHANGED moviesVars
  BY <1>1, <1>18 DEF moviesVars, GoneAwaited, At, Led
<1> QED
  BY <1>9, <1>10, <1>11, <1>12, <1>13, <1>14, <1>15, <1>16, <1>17, <1>18
     DEF MoviesNext, Finished

-----------------------------------------------------------------------------
(* Movies: the current movie exists. *)

\* What an operation changes is aside of the current movie,
Aside(r) ==
    /\ r.id \notin {None, current}
    /\ current \notin Below({r.id}) \/ Filed(r.id)

\* or the climb is between the two.
Between(r) ==
    /\ r.folder = r.id /\ r.first = FALSE
    /\ r.want \in Below({r.id})
    /\ r.want = current \/ current \in Below({r.want})

\* What the check of an operation has found out so far.
Checked(r) ==
    /\ Asks(r, "folder") => r.id \notin {None, current}
    /\ r.pc \in {"read", "save", "remove"} => Aside(r)
    /\ Asks(r, "climb") => r.id \notin {None, current} /\ (Aside(r) \/ Between(r))

\* It counts if the check was of the movie that is current, and did not go wrong.
Counts(r) == current # None /\ current \notin torn /\ r.cid = current

Apart == \A t \in Threads : Counts(th[t]) => Checked(th[t])

CurrentOK == RowsOK /\ CurrentExists /\ Apart

\* Who is about to change something is aside.
LEMMA DoomedAside ==
    ASSUME NEW o, NEW m, NEW k \in Doomed(o, m)
    PROVE  k = m \/ k \in Below({m})
BY DEF Doomed

\* All that is below the doomed is doomed.
LEMMA DoomedBelow ==
    ASSUME StoresOK, NEW gone \in SUBSET Movies,
           \A k \in Movies : row[k] # NoRow /\ row[k].parent \in gone => k \in gone,
           NEW m \in gone
    PROVE  Below({m}) \subseteq gone
<1>1. \A k \in Movies : row[k] # NoRow /\ row[k].parent \in {m} \cup (gone \cap Movies) => k \in gone
  OBVIOUS
<1>2. Under(row, {m}, Movies) \subseteq gone
  BY <1>1, UnderLeast
<1> QED
  BY <1>2 DEF Below

\* One row changes that is not above the current movie: whoever has checked stays right.
LEMMA ChangeChecked ==
    ASSUME StoresOK, NEW x \in Movies, \A k \in Movies : k # x => row'[k] = row[k],
           UNCHANGED current, current # x, current \notin Below({x}),
           NEW r \in Task, Checked(r)
    PROVE  /\ Asks(r, "folder") => r.id \notin {None, current}
           /\ r.pc \in {"read", "save", "remove"} => Aside(r)'
           /\ Asks(r, "climb") => r.id \notin {None, current} /\ (Aside(r)' \/ Between(r)')
<1> DEFINE B(m) == Under(row, {m}, Movies)
           N(m) == Under(row', {m}, Movies)
<1>1. \A m : Below({m}) = B(m) /\ Below({m})' = N(m)
  BY DEF Below
<1>2. ASSUME NEW c, c # x, c \notin B(x)
      PROVE  \A m : c \in N(m) <=> c \in B(m)
  <2> DEFINE next == row'
  <2>1. \A k \in Movies : k # x => next[k] = row[k]
    OBVIOUS
  <2> HIDE DEF next
  <2>2. \A m : c \in Under(next, {m}, Movies) <=> c \in Under(row, {m}, Movies)
    BY <1>2, <2>1, ChangeAside
  <2> QED
    BY <2>2 DEF next
<1>3. current # x /\ current \notin B(x)
  BY <1>1
<1>4. \A w, m : w \in B(m) => B(w) \subseteq B(m)
  BY BelowBelow
<1> HIDE DEF B, N
<1>5. \A m : current \in N(m) <=> current \in B(m)
  BY <1>2, <1>3
<1>6. Aside(r) => Aside(r)'
  <2> SUFFICES ASSUME Aside(r), current \in N(r.id)
               PROVE  Aside(r)'
    BY <1>1 DEF Aside
  <2>1. current \in B(r.id)
    BY <1>5
  <2>2. Filed(r.id) /\ r.id # x
    BY <1>1, <1>3, <2>1 DEF Aside
  <2>3. r.id \in Movies
    BY <2>2 DEF Filed, Task
  <2>4. Filed(r.id)'
    BY <2>2, <2>3 DEF Filed
  <2> QED
    BY <2>4 DEF Aside
<1>7. Between(r) => Between(r)'
  <2> SUFFICES ASSUME Between(r)
               PROVE  r.want \in N(r.id) /\ (r.want = current \/ current \in N(r.want))
    BY <1>1 DEF Between
  <2>1. r.want \in B(r.id) /\ (r.want = current \/ current \in B(r.want))
    BY <1>1 DEF Between
  <2>2. CASE r.want = current
    BY <1>5, <2>1, <2>2
  <2>3. CASE current \in B(r.want)
    <3>1. r.want # x /\ r.want \notin B(x)
      BY <1>3, <1>4, <2>3
    <3> QED
      BY <1>2, <1>5, <2>1, <2>3, <3>1
  <2> QED
    BY <2>1, <2>2, <2>3
<1> QED
  BY <1>6, <1>7 DEF Checked

\* The same when rows go with all that is in them.
LEMMA CutChecked ==
    ASSUME StoresOK, NEW gone \in SUBSET Movies,
           \A k \in Movies : row[k] # NoRow /\ row[k].parent \in gone => k \in gone,
           \A k \in Movies : row'[k] = IF k \in gone THEN NoRow ELSE row[k],
           UNCHANGED current, current \notin gone,
           NEW r \in Task, Checked(r)
    PROVE  /\ Asks(r, "folder") => r.id \notin {None, current}
           /\ r.pc \in {"read", "save", "remove"} => Aside(r)'
           /\ Asks(r, "climb") => r.id \notin {None, current} /\ (Aside(r)' \/ Between(r)')
<1> DEFINE B(m) == Under(row, {m}, Movies)
           N(m) == Under(row', {m}, Movies)
<1>1. \A m : Below({m}) = B(m) /\ Below({m})' = N(m)
  BY DEF Below
<1>2. ASSUME NEW w, w \notin gone
      PROVE  \A m : w \in N(m) <=> w \in B(m)
  <2> DEFINE next == row'
  <2>1. \A k \in Movies : next[k] = IF k \in gone THEN NoRow ELSE row[k]
    OBVIOUS
  <2> HIDE DEF next
  <2>2. \A m : w \in Under(next, {m}, Movies) <=> w \in Under(row, {m}, Movies)
    BY <1>2, <2>1, CutAside
  <2> QED
    BY <2>2 DEF next
<1>3. \A m \in gone : B(m) \subseteq gone
  BY <1>1, DoomedBelow
<1> HIDE DEF B, N
<1>4. \A m : current \in N(m) <=> current \in B(m)
  BY <1>2
<1>5. Aside(r) => Aside(r)'
  <2> SUFFICES ASSUME Aside(r), current \in N(r.id)
               PROVE  Aside(r)'
    BY <1>1 DEF Aside
  <2>1. current \in B(r.id)
    BY <1>4
  <2>2. Filed(r.id) /\ r.id \notin gone
    BY <1>1, <1>3, <2>1 DEF Aside
  <2>3. r.id \in Movies
    BY <2>2 DEF Filed, Task
  <2>4. Filed(r.id)'
    BY <2>2, <2>3 DEF Filed
  <2> QED
    BY <2>4 DEF Aside
<1>6. Between(r) => Between(r)'
  <2> SUFFICES ASSUME Between(r)
               PROVE  r.want \in N(r.id) /\ (r.want = current \/ current \in N(r.want))
    BY <1>1 DEF Between
  <2>1. r.want \in B(r.id) /\ (r.want = current \/ current \in B(r.want))
    BY <1>1 DEF Between
  <2>2. r.want \notin gone
    BY <1>3, <2>1
  <2> QED
    BY <1>2, <1>4, <2>1, <2>2
<1> QED
  BY <1>5, <1>6 DEF Checked

\* A deletion spares the current movie, unless the history tells why not.
LEMMA RemoveSpares ==
    ASSUME RowsOK, Apart, NEW t \in Threads, Remove(t),
           current # None, current \notin torn'
    PROVE  \/ UNCHANGED row /\ th'[t] = Idle
           \/ /\ current \notin Doomed(th[t].op, th[t].id)
              /\ row' = [k \in Movies |-> IF k \in Doomed(th[t].op, th[t].id) THEN NoRow ELSE row[k]]
              /\ th'[t].pc = "evict"
<1> DEFINE gone == Doomed(th[t].op, th[t].id)
<1>1. ThreadsOK /\ th[t] \in Task
  BY DEF RowsOK, ThreadsOK
<1>2. CASE gone = {}
  <2>1. Over(t) /\ UNCHANGED row
    BY <1>2 DEF Remove
  <2> QED
    BY <1>1, <2>1, OverOK
<1>3. CASE gone # {}
  <2>1. /\ row' = [k \in Movies |-> IF k \in gone THEN NoRow ELSE row[k]]
        /\ torn' = IF Overtaken(t) \/ Filed(th[t].id) THEN torn \cup gone ELSE torn
        /\ Becomes(t, [th[t] EXCEPT !.pc = "evict", !.ids = {th[t].id}])
        /\ th[t].pc = "remove"
    BY <1>3 DEF Remove, At
  <2>2. th'[t].pc = "evict"
    <3>1. th'[t] = [th[t] EXCEPT !.pc = "evict", !.ids = {th[t].id}]
      BY <1>1, <2>1, OneBecomes DEF ThreadsOK
    <3> QED
      BY <1>1, <3>1 DEF Task
  <2>3. current \notin gone
    <3> SUFFICES ASSUME current \in gone
                 PROVE  FALSE
      OBVIOUS
    <3>1. ~ Overtaken(t) /\ ~ Filed(th[t].id) /\ current \notin torn
      <4> HIDE DEF gone
      <4> QED
        BY <2>1
    <3>2. Counts(th[t])
      BY <3>1 DEF Counts, Overtaken
    <3>3. Aside(th[t])
      BY <2>1, <3>2 DEF Apart, Checked
    <3>4. current = th[t].id \/ current \in Below({th[t].id})
      BY DoomedAside
    <3> QED
      BY <3>1, <3>3, <3>4 DEF Aside
  <2> QED
    BY <2>1, <2>2, <2>3
<1> QED
  BY <1>2, <1>3

\* So does a change.
LEMMA SaveSpares ==
    ASSUME RowsOK, Apart, NEW t \in Threads, SaveMovie(t),
           current # None, current \notin torn'
    PROVE  \/ UNCHANGED row /\ th'[t] = Idle
           \/ /\ current # th[t].id /\ current \notin Below({th[t].id})
              /\ th[t].id \in Movies /\ th[t].base \in Row
              /\ row' = [row EXCEPT ![th[t].id] = th[t].base]
              /\ th'[t].pc = "drop"
<1> DEFINE x == th[t].id
<1>1. /\ ThreadsOK /\ th[t] \in Task /\ Fits(th[t])
      /\ th[t].pc = "save"
  BY DEF RowsOK, ThreadsOK, SaveMovie, At
<1>2. CASE ~ ParentTakes(th[t].base.parent)
  <2>1. Over(t) /\ UNCHANGED row
    BY <1>2 DEF SaveMovie
  <2> QED
    BY <1>1, <2>1, OverOK
<1>3. CASE ParentTakes(th[t].base.parent)
  <2>1. /\ row' = [row EXCEPT ![x] = th[t].base]
        /\ torn' = torn \cup {k \in {x} : Overtaken(t)}
                        \cup {k \in Below({x}) : Overtaken(t) \/ Filed(x)}
        /\ Goto(t, "drop")
    BY <1>3 DEF SaveMovie
  <2>2. x \in Movies /\ th[t].base \in Row
    BY <1>1, MoviesAssumption DEF Fits
  <2>3. th'[t].pc = "drop"
    <3>1. th'[t] = [th[t] EXCEPT !.pc = "drop"]
      BY <1>1, <2>1, OneBecomes DEF Goto, ThreadsOK
    <3> QED
      BY <1>1, <3>1 DEF Task
  <2>4. current # x /\ current \notin Below({x})
    <3>1. CASE Overtaken(t)
      BY <2>1, <3>1
    <3>2. CASE ~ Overtaken(t)
      <4>1. Counts(th[t])
        BY <2>1, <3>2 DEF Counts, Overtaken
      <4>2. Aside(th[t])
        BY <1>1, <4>1 DEF Apart, Checked
      <4> QED
        BY <2>1, <4>2 DEF Aside
    <3> QED
      BY <3>1, <3>2
  <2> QED
    BY <2>1, <2>2, <2>3, <2>4
<1> QED
  BY <1>2, <1>3

LEMMA CurrentExistsStep ==
    ASSUME CurrentOK, [MoviesNext]_moviesVars
    PROVE  CurrentExists'
<1>1. /\ ThreadsOK /\ StoresOK /\ RowsOK /\ Apart /\ CurrentExists
      /\ None \notin Movies
  BY MoviesAssumption DEF CurrentOK, RowsOK
<1>2. ASSUME UNCHANGED current, torn \subseteq torn',
             \A m \in Movies : row'[m] = NoRow => row[m] = NoRow
      PROVE  CurrentExists'
  BY <1>1, <1>2 DEF CurrentExists, StoresOK
<1>3. ASSUME NEW x \in Movies, NEW edit \in Row, row' = [row EXCEPT ![x] = edit]
      PROVE  \A m \in Movies : row'[m] = NoRow => row[m] = NoRow
  BY <1>1, <1>3, MoviesAssumption DEF StoresOK
<1>4. ASSUME NEW t \in Threads, SaveMovie(t)
      PROVE  CurrentExists'
  <2>1. CASE UNCHANGED row
    BY <1>2, <1>4, <2>1 DEF SaveMovie
  <2>2. CASE ~ UNCHANGED row
    <3>1. th[t].id \in Movies /\ th[t].base \in Edits
      BY <1>1, <1>4 DEF SaveMovie, At, ThreadsOK, Fits
    <3>2. th[t].base \in Row
      BY <3>1, MoviesAssumption
    <3>3. /\ row' = [row EXCEPT ![th[t].id] = th[t].base]
          /\ UNCHANGED current /\ torn \subseteq torn'
      BY <1>4, <2>2 DEF SaveMovie
    <3> QED
      BY <1>2, <1>3, <3>1, <3>2, <3>3
  <2> QED
    BY <2>1, <2>2
<1>5. ASSUME NEW t \in Threads, Remove(t)
      PROVE  CurrentExists'
  <2>1. UNCHANGED current /\ torn \subseteq torn'
    BY <1>5 DEF Remove
  <2> SUFFICES ASSUME current # None, current \notin torn'
               PROVE  row'[current] # NoRow
    BY <2>1 DEF CurrentExists
  <2>2. row[current] # NoRow /\ current \in Movies
    BY <1>1, <2>1 DEF CurrentExists, StoresOK
  <2> QED
    BY <1>1, <1>5, <2>2, RemoveSpares
<1>6. ASSUME NEW t \in Threads, Play(t)
      PROVE  CurrentExists'
  BY <1>1, <1>6 DEF Play, CurrentExists
<1>7. ASSUME NEW t \in Threads, Pick(t)
      PROVE  CurrentExists'
  BY <1>1, <1>7 DEF Pick, CurrentExists
<1>8. ASSUME NEW t \in Threads, MovieStep(t), ~ SaveMovie(t), ~ Remove(t), ~ Play(t), ~ Pick(t)
      PROVE  CurrentExists'
  <2>1. UNCHANGED <<row, current>> /\ torn \subseteq torn'
    BY <1>8 DEF MovieStep, Ask, Found, Query, Store, Climb, Swap, Check, Folder, Read, Drop, Evict,
                Current, Misled
  <2> QED
    BY <1>2, <2>1
<1>9. ASSUME NEW t \in Threads, NEW m \in Movies, NEW edit \in Edits, Add(t, m, edit)
      PROVE  CurrentExists'
  <2>1. edit \in Row
    BY MoviesAssumption
  <2>2. row' = [row EXCEPT ![m] = edit] /\ UNCHANGED <<current, torn>>
    BY <1>9 DEF Add
  <2> QED
    BY <1>2, <1>3, <2>1, <2>2
<1>10. CASE UNCHANGED <<row, current, torn>>
  BY <1>2, <1>10
<1> QED
  BY <1>4, <1>5, <1>6, <1>7, <1>8, <1>9, <1>10 DEF MoviesNext, Start, Reload, Finished, moviesVars

LEMMA ApartStep ==
    ASSUME CurrentOK, [MoviesNext]_moviesVars
    PROVE  Apart'
<1>1. /\ ThreadsOK /\ StoresOK /\ RowsOK /\ Apart /\ CurrentExists /\ Keys
      /\ None \notin Movies
  BY MoviesAssumption DEF CurrentOK, RowsOK
<1>2. \A t \in Threads : th[t] \in Task /\ Fits(th[t])
  BY <1>1 DEF ThreadsOK
<1> DEFINE Right(r) == Counts(r) => Checked(r)
           Quiet(r) == /\ ~ Asks(r, "folder") /\ ~ Asks(r, "climb")
                       /\ r.pc \notin {"read", "save", "remove"}
<1>3. (\A t \in Threads : Right(th[t])') => Apart'
  BY DEF Apart
<1>4. \A t \in Threads : Right(th[t])
  BY <1>1 DEF Apart
<1>5. \A t \in Threads : Quiet(th[t])' => Right(th[t])'
  BY DEF Checked, Asks
\* The rows and the current movie stay: only the thread that goes on counts.
<1>6. ASSUME NEW t \in Threads, \A u \in Threads : u # t => th'[u] = th[u],
             UNCHANGED <<row, current>>, torn \subseteq torn', Right(th[t])'
      PROVE  Apart'
  <2>1. ASSUME NEW u \in Threads, u # t
        PROVE  Right(th[u])'
    <3>1. th'[u] = th[u] /\ Right(th[u])
      BY <1>4, <1>6, <2>1
    <3>2. Counts(th[u])' => Counts(th[u])
      BY <1>6, <3>1 DEF Counts
    <3>3. Checked(th[u]) => Checked(th[u])'
      BY <1>6, <3>1 DEF Checked, Asks, Aside, Between, Below, Filed
    <3> QED
      BY <3>1, <3>2, <3>3
  <2> HIDE DEF Right
  <2> QED
    BY <1>3, <1>6, <2>1
<1>7. ASSUME NEW t \in Threads, \A u \in Threads : u # t => th'[u] = th[u],
             UNCHANGED <<row, current>>, torn \subseteq torn', Quiet(th[t])'
      PROVE  Apart'
  BY <1>5, <1>6, <1>7
<1>8. Quiet(Idle)
  BY DEF Idle, Asks
\* Whoever has checked stays right when a row changes aside of the current movie.
<1>9. ASSUME NEW t \in Threads, \A u \in Threads : u # t => th'[u] = th[u], Quiet(th[t])',
             UNCHANGED current, torn \subseteq torn', NEW x \in Movies,
             \A k \in Movies : k # x => row'[k] = row[k],
             current # None /\ current \notin torn' => current # x /\ current \notin Below({x})
      PROVE  Apart'
  <2> SUFFICES ASSUME NEW u \in Threads, u # t, Counts(th[u])'
               PROVE  Checked(th[u])'
    BY <1>3, <1>5, <1>9
  <2>1. PICK q \in Task : q = th[u]
    BY <1>2
  <2>2. th'[u] = q
    BY <1>9, <2>1
  <2>3. Counts(th[u]) /\ current # x /\ current \notin Below({x})
    BY <1>9, <2>1, <2>2 DEF Counts
  <2>4. Checked(q)
    BY <1>4, <2>1, <2>3
  <2>5. /\ Asks(q, "folder") => q.id \notin {None, current}
        /\ q.pc \in {"read", "save", "remove"} => Aside(q)'
        /\ Asks(q, "climb") => q.id \notin {None, current} /\ (Aside(q)' \/ Between(q)')
    BY <1>1, <1>9, <2>3, <2>4, ChangeChecked
  <2> QED
    BY <1>9, <2>2, <2>5 DEF Checked, Asks, Aside, Between, Below, Filed
<1>10. ASSUME NEW t \in Threads, SaveMovie(t)
       PROVE  Apart'
  <2>1. /\ \A u \in Threads : u # t => th'[u] = th[u]
        /\ UNCHANGED current /\ torn \subseteq torn'
    BY <1>1, <1>10, OthersStay DEF MovieStep, SaveMovie
  <2>2. CASE current = None \/ current \in torn'
    BY <2>1, <2>2 DEF Apart, Counts
  <2>3. CASE UNCHANGED row /\ th'[t] = Idle
    <3>1. Quiet(th[t])'
      BY <2>3 DEF Idle, Asks
    <3> QED
      BY <1>7, <2>1, <2>3, <3>1
  <2>4. CASE /\ current # th[t].id /\ current \notin Below({th[t].id})
             /\ th[t].id \in Movies /\ th[t].base \in Row
             /\ row' = [row EXCEPT ![th[t].id] = th[t].base]
             /\ th'[t].pc = "drop"
    <3>1. \A k \in Movies : k # th[t].id => row'[k] = row[k]
      BY <1>1, <2>4 DEF StoresOK
    <3>2. Quiet(th[t])'
      BY <2>4 DEF Asks
    <3> HIDE DEF Quiet
    <3> QED
      BY <1>9, <2>1, <2>4, <3>1, <3>2
  <2> QED
    BY <1>1, <1>10, <2>2, <2>3, <2>4, SaveSpares
<1>11. ASSUME NEW t \in Threads, NEW m \in Movies, NEW edit \in Edits, Add(t, m, edit)
       PROVE  Apart'
  <2>1. /\ \A u \in Threads : u # t => th'[u] = th[u]
        /\ UNCHANGED <<current, torn>> /\ m \in fresh
        /\ row' = [row EXCEPT ![m] = edit]
        /\ Becomes(t, [Idle EXCEPT !.pc = "swap", !.op = "add", !.id = m, !.base = edit])
    BY <1>1, <1>11, OthersStay DEF Add
  <2>2. row[m] = NoRow
    BY <1>1, <2>1 DEF RowsOK, Untouched
  <2>3. Below({m}) = {}
    <3>1. \A k \in Movies : row[k] # NoRow /\ row[k].parent \in {m} \cup ({} \cap Movies) => k \in {}
      BY <1>1, <2>2 DEF Keys
    <3>2. Under(row, {m}, Movies) \subseteq {}
      BY <3>1, UnderLeast
    <3> QED
      BY <3>2 DEF Below
  <2>4. current # None /\ current \notin torn' => current # m
    BY <1>1, <2>1, <2>2 DEF CurrentExists
  <2>5. \A k \in Movies : k # m => row'[k] = row[k]
    BY <1>1, <2>1 DEF StoresOK
  <2>6. Quiet(th[t])'
    <3>1. th'[t] = [Idle EXCEPT !.pc = "swap", !.op = "add", !.id = m, !.base = edit]
      BY <1>1, <2>1, OneBecomes DEF ThreadsOK
    <3> QED
      BY <3>1 DEF Idle, Asks
  <2> HIDE DEF Quiet
  <2> QED
    BY <1>9, <2>1, <2>3, <2>4, <2>5, <2>6
<1>12. ASSUME NEW t \in Threads, Remove(t)
       PROVE  Apart'
  <2>1. /\ \A u \in Threads : u # t => th'[u] = th[u]
        /\ UNCHANGED current /\ torn \subseteq torn'
    BY <1>1, <1>12, OthersStay DEF MovieStep, Remove
  <2>2. CASE current = None \/ current \in torn'
    BY <2>1, <2>2 DEF Apart, Counts
  <2>3. CASE UNCHANGED row /\ th'[t] = Idle
    <3>1. Quiet(th[t])'
      BY <2>3 DEF Idle, Asks
    <3> QED
      BY <1>7, <2>1, <2>3, <3>1
  <2> DEFINE gone == Doomed(th[t].op, th[t].id)
  <2>4. CASE /\ current \notin gone
             /\ row' = [k \in Movies |-> IF k \in gone THEN NoRow ELSE row[k]]
             /\ th'[t].pc = "evict"
    <3>1. Quiet(th[t])'
      BY <2>4 DEF Asks
    <3>2. gone \in SUBSET Movies
      <4>1. th[t].id \in Movies \cup {None}
        BY <1>2 DEF Task
      <4> QED
        BY <4>1, OfMovies DEF Doomed
    <3>3. \A k \in Movies : row[k] # NoRow /\ row[k].parent \in gone => k \in gone
      BY <1>1, DoomedWhole
    <3> SUFFICES ASSUME NEW u \in Threads, u # t, Counts(th[u])'
                 PROVE  Checked(th[u])'
      BY <1>3, <1>5, <3>1
    <3>4. PICK q \in Task : q = th[u]
      BY <1>2
    <3>5. th'[u] = q
      BY <2>1, <3>4
    <3>6. Counts(th[u])
      BY <2>1, <3>4, <3>5 DEF Counts
    <3>7. Checked(q)
      BY <1>4, <3>4, <3>6
    <3>8. PICK G \in SUBSET Movies : G = gone
      BY <3>2
    <3> HIDE DEF gone
    <3>9. /\ Asks(q, "folder") => q.id \notin {None, current}
          /\ q.pc \in {"read", "save", "remove"} => Aside(q)'
          /\ Asks(q, "climb") => q.id \notin {None, current} /\ (Aside(q)' \/ Between(q)')
      <4>1. \A k \in Movies : row[k] # NoRow /\ row[k].parent \in G => k \in G
        BY <3>3, <3>8
      <4>2. current \notin G /\ \A k \in Movies : row'[k] = IF k \in G THEN NoRow ELSE row[k]
        BY <2>4, <3>8
      <4> QED
        BY <1>1, <2>1, <3>7, <4>1, <4>2, CutChecked
    <3> QED
      BY <2>1, <3>5, <3>9 DEF Checked, Asks, Aside, Between, Below, Filed
  <2> QED
    BY <1>1, <1>12, <2>2, <2>3, <2>4, RemoveSpares
<1>13. ASSUME NEW t \in Threads, Play(t)
       PROVE  Apart'
  <2>1. \A u \in Threads : u # t => th'[u] = th[u]
    BY <1>1, <1>13, OthersStay DEF MovieStep
  <2>2. Quiet(th[t])' /\ th'[t].cid = None
    <3>1. th'[t] = Idle
      BY <1>1, <1>13, OverOK DEF Play
    <3> QED
      BY <3>1 DEF Idle, Asks
  <2>3. UNCHANGED row /\ torn \subseteq torn'
    BY <1>13 DEF Play
  <2>4. CASE UNCHANGED current
    BY <1>7, <2>1, <2>2, <2>3, <2>4
  <2>5. CASE ~ UNCHANGED current
    <3>1. /\ current' = th[t].id
          /\ \A u \in Threads : th[u].cid = th[t].id => th[t].id \in torn'
      BY <1>13, <2>5 DEF Play
    <3>2. \A u \in Threads : ~ Counts(th[u])'
      BY <2>1, <2>2, <3>1 DEF Counts
    <3> QED
      BY <3>2 DEF Apart
  <2> QED
    BY <2>4, <2>5
<1>14. ASSUME NEW t \in Threads, Current(t) \/ Pick(t)
       PROVE  Apart'
  <2>1. \A u \in Threads : u # t => th'[u] = th[u]
    BY <1>1, <1>14, OthersStay DEF MovieStep
  <2>2. UNCHANGED <<row, torn>> /\ (current' = None \/ UNCHANGED current)
    BY <1>14 DEF Current, Pick
  <2>3. CASE current' = None
    BY <2>3 DEF Apart, Counts
  <2>4. CASE current' # None
    <3>1. \/ Goto(t, "pick") \/ Over(t)
          \/ \E id : Get(t, id, th[t], "pick") \/ Get(t, id, th[t], "play")
      BY <1>14 DEF Current, Pick
    <3>2. Quiet(th[t])'
      <4>1. CASE Over(t)
        <5>1. th'[t] = Idle
          BY <1>1, <4>1, OverOK
        <5> QED
          BY <5>1 DEF Idle, Asks
      <4>2. CASE Goto(t, "pick")
        <5>1. th'[t] = [th[t] EXCEPT !.pc = "pick"]
          BY <1>1, <4>2, OneBecomes DEF Goto, ThreadsOK
        <5>2. th'[t].pc = "pick"
          BY <1>2, <5>1 DEF Task
        <5> QED
          BY <5>2 DEF Asks
      <4>3. ASSUME NEW id, NEW step \in {"pick", "play"}, Get(t, id, th[t], step)
            PROVE  Quiet(th[t])'
        <5>1. th'[t] = [th[t] EXCEPT !.pc = "get", !.want = id, !.then = step]
          BY <1>1, <4>3, OneBecomes DEF Get, ThreadsOK
        <5>2. th'[t].pc = "get" /\ th'[t].then = step
          BY <1>2, <5>1 DEF Task
        <5> QED
          BY <5>2 DEF Asks
      <4> HIDE DEF Quiet
      <4> QED
        BY <3>1, <4>1, <4>2, <4>3
    <3> QED
      BY <1>7, <2>1, <2>2, <2>4, <3>2
  <2> QED
    BY <2>3, <2>4
<1>15. ASSUME NEW t \in Threads, Read(t)
       PROVE  Apart'
  <2>1. /\ \A u \in Threads : u # t => th'[u] = th[u]
        /\ UNCHANGED <<row, current, torn>> /\ th[t].pc = "read"
    BY <1>1, <1>15, OthersStay DEF MovieStep, Read, At
  <2>2. CASE Over(t)
    <3>1. th'[t] = Idle
      BY <1>1, <2>2, OverOK
    <3>2. Quiet(th[t])'
      BY <3>1 DEF Idle, Asks
    <3> QED
      BY <1>7, <2>1, <3>2
  <2>3. CASE Goto(t, "save")
    <3>1. th'[t] = [th[t] EXCEPT !.pc = "save"]
      BY <1>1, <2>3, OneBecomes DEF Goto, ThreadsOK
    <3>2. th'[t].pc = "save" /\ th'[t].id = th[t].id /\ th'[t].cid = th[t].cid
      BY <1>2, <3>1 DEF Task
    <3>3. Right(th[t])'
      BY <1>4, <2>1, <3>2 DEF Counts, Checked, Asks, Aside, Below, Filed
    <3> QED
      BY <1>6, <2>1, <3>3
  <2> QED
    BY <1>15, <2>2, <2>3 DEF Read
<1>16. ASSUME NEW t \in Threads, Found(t) \/ Query(t) \/ Store(t)
       PROVE  Apart'
  <2>1. /\ \A u \in Threads : u # t => th'[u] = th[u]
        /\ UNCHANGED <<row, current, torn>> /\ th[t].pc \in {"get", "store"}
    BY <1>1, <1>16, OthersStay DEF MovieStep, Ask, Found, Query, Store, At
  <2>2. th[t].then \in {"check", "folder", "climb", "pick", "play"}
    BY <1>2, <2>1 DEF Fits
  <2>3. CASE Over(t)
    <3>1. th'[t] = Idle
      BY <1>1, <2>3, OverOK
    <3>2. Quiet(th[t])'
      BY <3>1 DEF Idle, Asks
    <3> QED
      BY <1>7, <2>1, <3>2
  <2>4. ASSUME NEW step, NEW seen, step = th[t].then \/ (step = "store" /\ th[t].pc = "get"),
               Becomes(t, [th[t] EXCEPT !.pc = step, !.seen = seen])
        PROVE  Apart'
    <3>1. th'[t] = [th[t] EXCEPT !.pc = step, !.seen = seen]
      BY <1>1, <2>4, OneBecomes DEF ThreadsOK
    <3>2. /\ th'[t].pc = step /\ th'[t].id = th[t].id /\ th'[t].cid = th[t].cid
          /\ th'[t].then = th[t].then /\ th'[t].want = th[t].want
          /\ th'[t].folder = th[t].folder /\ th'[t].first = th[t].first
      BY <1>2, <3>1 DEF Task
    <3>3. /\ Asks(th[t], "folder")' => Asks(th[t], "folder")
          /\ Asks(th[t], "climb")' => Asks(th[t], "climb")
          /\ th'[t].pc \notin {"read", "save", "remove"}
      BY <2>1, <2>2, <2>4, <3>2 DEF Asks
    <3>4. Right(th[t])'
      <4> SUFFICES ASSUME Counts(th[t])'
                   PROVE  Checked(th[t])'
        OBVIOUS
      <4>1. Counts(th[t])
        BY <2>1, <3>2 DEF Counts
      <4>2. Checked(th[t])
        BY <1>4, <4>1
      <4>3. Aside(th[t]) => Aside(th[t])'
        BY <2>1, <3>2 DEF Aside, Below, Filed
      <4>4. Between(th[t]) => Between(th[t])'
        BY <2>1, <3>2 DEF Between, Below
      <4> QED
        BY <2>1, <3>2, <3>3, <4>2, <4>3, <4>4 DEF Checked
    <3> QED
      BY <1>6, <2>1, <3>4
  <2>5. CASE Found(t)
    BY <2>4, <2>5 DEF Found
  <2>6. CASE Query(t)
    BY <2>3, <2>4, <2>6 DEF Query, At
  <2>7. CASE Store(t)
    <3>1. CASE cache[th[t].want] # NoRow
      BY <2>4, <2>7, <3>1 DEF Store
    <3>2. CASE cache[th[t].want] = NoRow
      <4>1. Becomes(t, [th[t] EXCEPT !.pc = th[t].then])
        BY <2>7, <3>2 DEF Store, Goto
      <4>2. [th[t] EXCEPT !.pc = th[t].then] = [th[t] EXCEPT !.pc = th[t].then, !.seen = th[t].seen]
        BY <1>2 DEF Task
      <4>3. Becomes(t, [th[t] EXCEPT !.pc = th[t].then, !.seen = th[t].seen])
        BY <4>1, <4>2
      <4> QED
        BY <2>4, <4>3
    <3> QED
      BY <3>1, <3>2
  <2> QED
    BY <1>16, <2>5, <2>6, <2>7
<1>17. ASSUME NEW t \in Threads, Over(t), UNCHANGED <<row, current>>, torn \subseteq torn',
              \A u \in Threads : u # t => th'[u] = th[u]
       PROVE  Apart'
  <2>1. th'[t] = Idle
    BY <1>1, <1>17, OverOK
  <2>2. Quiet(th[t])'
    BY <2>1 DEF Idle, Asks
  <2> QED
    BY <1>7, <1>17, <2>2
<1>18. ASSUME NEW t \in Threads, Swap(t) \/ Drop(t) \/ Evict(t)
       PROVE  Apart'
  <2>1. /\ \A u \in Threads : u # t => th'[u] = th[u]
        /\ UNCHANGED <<row, current, torn>>
    BY <1>1, <1>18, OthersStay DEF MovieStep, Swap, Drop, Evict
  <2>2. CASE Over(t)
    BY <1>17, <2>1, <2>2
  <2>3. ASSUME NEW ids, th[t].pc = "evict", Becomes(t, [th[t] EXCEPT !.ids = ids])
        PROVE  Apart'
    <3>1. th'[t] = [th[t] EXCEPT !.ids = ids]
      BY <1>1, <2>3, OneBecomes DEF ThreadsOK
    <3>2. th'[t].pc = "evict"
      BY <1>2, <2>3, <3>1 DEF Task
    <3>3. Quiet(th[t])'
      BY <3>2 DEF Asks
    <3> QED
      BY <1>7, <2>1, <3>3
  <2> QED
    BY <1>18, <2>2, <2>3 DEF Swap, Drop, Evict, At
<1>19. ASSUME NEW t \in Threads, Check(t)
       PROVE  Apart'
  <2> DEFINE q == [th[t] EXCEPT !.cid = current]
  <2>1. /\ \A u \in Threads : u # t => th'[u] = th[u]
        /\ UNCHANGED <<row, current, torn>>
        /\ Checking(th[t]) /\ th[t].pc = "check"
    BY <1>1, <1>19, OthersStay DEF MovieStep, Check, At, Checking, Asks
  <2>2. q \in Task /\ q.op = th[t].op /\ q.id = th[t].id /\ q.base = th[t].base
        /\ q.cid = current
    BY <1>1, <1>2 DEF Task, StoresOK
  <2>3. th[t].id \in Movies \cup {None}
    BY <1>2 DEF Task
  <2>4. CASE current = None
    BY <2>1, <2>4 DEF Apart, Counts
  <2>5. CASE current # None
    <3>1. \/ Over(t)
          \/ th[t].id \notin {None, current} /\ Get(t, th[t].id, q, "folder")
      BY <1>19, <2>5 DEF Check
    <3>2. CASE th[t].id \notin {None, current} /\ Get(t, th[t].id, q, "folder")
      <4> HIDE DEF q
      <4>1. current \in Movies /\ th[t].id \in Movies
        BY <1>1, <2>3, <2>5, <3>2 DEF StoresOK
      <4>2. th'[t].pc = "get" /\ th'[t].then = "folder" /\ th'[t].id = th[t].id
        BY <1>1, <2>1, <2>2, <3>2, <4>1, AskingFits
      <4>3. Right(th[t])'
        BY <2>1, <3>2, <4>2 DEF Checked, Asks
      <4> QED
        BY <1>6, <2>1, <4>3
    <3> QED
      BY <1>17, <2>1, <3>1, <3>2
  <2> QED
    BY <2>4, <2>5
<1>20. ASSUME NEW t \in Threads, Folder(t)
       PROVE  Apart'
  <2> DEFINE m == th[t].seen
             from == IF m.kind # "file" THEN th[t].id ELSE m.parent
             one == ~ (m.kind # "file")
             q == [th[t] EXCEPT !.folder = from, !.first = one]
  <2>1. /\ \A u \in Threads : u # t => th'[u] = th[u]
        /\ UNCHANGED <<row, current>> /\ torn \subseteq torn'
        /\ Checking(th[t]) /\ th[t].pc = "folder"
        /\ torn' = Misled(t) /\ Get(t, th[t].cid, q, "climb")
    BY <1>1, <1>20, OthersStay DEF MovieStep, Folder, At, Checking, Asks, Misled
  <2>2. m \in Row /\ th[t].want = th[t].id /\ th[t].cid \in Movies /\ th[t].id \in Movies \cup {None}
    BY <1>2, <2>1 DEF Fits, Asks, Task
  <2>3. from \in Movies \cup {None} /\ one \in BOOLEAN
    BY <2>2 DEF Row
  <2>4. q \in Task /\ q.op = th[t].op /\ q.id = th[t].id /\ q.base = th[t].base
        /\ q.cid = th[t].cid /\ q.folder = from /\ q.first = one
    <3> HIDE DEF from, one
    <3> QED
      BY <1>2, <2>3 DEF Task
  <2> HIDE DEF q
  <2>5. /\ th'[t].pc = "get" /\ th'[t].then = "climb" /\ th'[t].want = th[t].cid
        /\ th'[t].id = th[t].id /\ th'[t].cid = th[t].cid
        /\ th'[t].folder = from /\ th'[t].first = one
    <3> HIDE DEF from, one
    <3> QED
      BY <1>1, <2>1, <2>2, <2>4, AskingFits
  <2>6. Right(th[t])'
    <3> SUFFICES ASSUME Counts(th[t])'
                 PROVE  Checked(th[t])'
      OBVIOUS
    <3>1. Counts(th[t]) /\ current = th[t].cid /\ current \notin torn'
      BY <2>1, <2>5 DEF Counts
    <3>2. m = row[th[t].want]
      BY <2>1, <3>1 DEF Misled
    <3>3. th[t].id \notin {None, current}
      BY <1>4, <2>1, <3>1 DEF Checked, Asks
    <3>4. CASE current \notin Below({th[t].id})
      <4>1. Aside(th[t])'
        BY <2>1, <2>5, <3>3, <3>4 DEF Aside, Below
      <4> QED
        BY <2>1, <2>5, <3>3, <4>1 DEF Checked, Asks
    <3>5. CASE current \in Below({th[t].id}) /\ m.kind = "file"
      <4>1. Filed(th[t].id)
        BY <1>1, <2>2, <3>2, <3>3, <3>5, MoviesAssumption DEF Filed
      <4>2. Aside(th[t])'
        BY <2>1, <2>5, <3>3, <4>1 DEF Aside, Filed
      <4> QED
        BY <2>1, <2>5, <3>3, <4>2 DEF Checked, Asks
    <3>6. CASE current \in Below({th[t].id}) /\ m.kind # "file"
      <4>1. Between(th[t])'
        BY <2>1, <2>5, <3>1, <3>6 DEF Between, Below
      <4> QED
        BY <2>1, <2>5, <3>3, <4>1 DEF Checked, Asks
    <3> QED
      BY <3>4, <3>5, <3>6
  <2> QED
    BY <1>6, <2>1, <2>6
<1>21. ASSUME NEW t \in Threads, Climb(t)
       PROVE  Apart'
  <2> DEFINE p == th[t].seen.parent
             q == [th[t] EXCEPT !.first = FALSE]
  <2>1. /\ \A u \in Threads : u # t => th'[u] = th[u]
        /\ UNCHANGED <<row, current>> /\ torn \subseteq torn'
        /\ Checking(th[t]) /\ th[t].pc = "climb" /\ torn' = Misled(t)
    BY <1>1, <1>21, OthersStay DEF MovieStep, Ask, Climb, At, Checking, Asks, Misled
  <2>2. /\ th[t].seen \in Row /\ th[t].want \in Movies /\ th[t].cid \in Movies
        /\ p \in Movies \cup {None} /\ th[t].id \in Movies \cup {None}
    <3>1. th[t].seen \in Row /\ th[t].want \in Movies /\ th[t].cid \in Movies
          /\ th[t].id \in Movies \cup {None}
      BY <1>2, <2>1 DEF Fits, Asks, Task
    <3> QED
      BY <3>1 DEF Row
  <2>3. q \in Task /\ q.op = th[t].op /\ q.id = th[t].id /\ q.base = th[t].base
        /\ q.cid = th[t].cid /\ q.folder = th[t].folder /\ q.first = FALSE
    BY <1>2 DEF Task
  <2>4. \/ Over(t)
        \/ Allow(t, th[t]) /\ (p = None \/ (p = th[t].folder /\ th[t].first))
        \/ p # None /\ p # th[t].folder /\ Get(t, p, q, "climb")
    BY <1>21 DEF Climb
  <2> HIDE DEF q
\* As far as the climb has come, it has seen the rows.
  <2>5. ASSUME Counts(th[t]), current \notin torn'
        PROVE  /\ th[t].id \notin {None, current}
               /\ \/ Aside(th[t])
                  \/ /\ Between(th[t]) /\ row[th[t].want] = th[t].seen
                     /\ p = th[t].id \/ p \in Below({th[t].id})
                     /\ current \in Below({p}) /\ p \in Movies
    <3>1. Checked(th[t])
      BY <1>4, <2>5
    <3>2. th[t].seen = row[th[t].want]
      BY <2>1, <2>5 DEF Misled, Counts
    <3>3. th[t].id \notin {None, current} /\ (Aside(th[t]) \/ Between(th[t]))
      BY <2>1, <3>1 DEF Checked, Asks
    <3>4. CASE Between(th[t])
      <4>1. /\ th[t].want \in Under(row, {th[t].id}, Movies)
            /\ th[t].want = current \/ current \in Under(row, {th[t].want}, Movies)
        BY <3>4 DEF Between, Below
      <4>2. row[th[t].want] # NoRow /\ (p = th[t].id \/ p \in Under(row, {th[t].id}, Movies))
        BY <3>2, <4>1, ParentBelow
      <4>3. th[t].want \in Under(row, {p}, Movies)
        BY <2>2, <3>2, <4>2, ChildBelow
      <4>4. current \in Under(row, {p}, Movies)
        BY <4>1, <4>3, BelowBelow
      <4>5. p \in Movies
        <5>1. Under(row, {th[t].id}, Movies) \subseteq Movies
          BY UnderMovies
        <5> QED
          BY <2>2, <3>3, <4>2, <5>1
      <4> HIDE DEF p
      <4> QED
        BY <3>2, <3>3, <3>4, <4>2, <4>4, <4>5 DEF Below
    <3> QED
      BY <3>3, <3>4
  <2>6. CASE Over(t)
    BY <1>17, <2>1, <2>6
  <2>7. CASE Allow(t, th[t]) /\ (p = None \/ (p = th[t].folder /\ th[t].first))
    <3>1. th'[t].pc \in {"read", "remove"} /\ th'[t].id = th[t].id /\ th'[t].cid = th[t].cid
      BY <1>1, <1>2, <2>1, <2>7, AllowFits
    <3>2. Right(th[t])'
      <4> SUFFICES ASSUME Counts(th[t])'
                   PROVE  Checked(th[t])'
        OBVIOUS
      <4>1. Counts(th[t]) /\ current \notin torn'
        BY <2>1, <3>1 DEF Counts
      <4>2. Aside(th[t])
        <5>1. ~ Between(th[t]) \/ p \notin Movies
          BY <1>1, <2>7 DEF Between
        <5> QED
          BY <2>5, <4>1, <5>1
      <4>3. Aside(th[t])'
        BY <2>1, <3>1, <4>2 DEF Aside, Below, Filed
      <4> QED
        BY <3>1, <4>3 DEF Checked, Asks
    <3> QED
      BY <1>6, <2>1, <3>2
  <2>8. CASE p # None /\ p # th[t].folder /\ Get(t, p, q, "climb")
    <3>1. p \in Movies
      BY <2>2, <2>8
    <3>2. /\ th'[t].pc = "get" /\ th'[t].then = "climb" /\ th'[t].want = p
          /\ th'[t].id = th[t].id /\ th'[t].cid = th[t].cid
          /\ th'[t].folder = th[t].folder /\ th'[t].first = FALSE
      <4> HIDE DEF p
      <4> QED
        BY <1>1, <2>1, <2>2, <2>3, <2>8, <3>1, AskingFits
    <3>3. Right(th[t])'
      <4> SUFFICES ASSUME Counts(th[t])'
                   PROVE  Checked(th[t])'
        OBVIOUS
      <4>1. Counts(th[t]) /\ current \notin torn'
        BY <2>1, <3>2 DEF Counts
      <4>2. CASE Aside(th[t])
        <5>1. Aside(th[t])'
          BY <2>1, <3>2, <4>2 DEF Aside, Below, Filed
        <5> QED
          BY <2>1, <2>5, <3>2, <4>1, <5>1 DEF Checked, Asks
      <4>3. CASE ~ Aside(th[t])
        <5>1. /\ th[t].id \notin {None, current} /\ th[t].folder = th[t].id
              /\ p \in Below({th[t].id}) /\ current \in Below({p})
          BY <2>5, <2>8, <4>1, <4>3 DEF Between
        <5>2. Between(th[t])'
          <6> HIDE DEF p
          <6> QED
            BY <2>1, <3>2, <5>1 DEF Between, Below
        <5> QED
          BY <2>1, <3>2, <5>1, <5>2 DEF Checked, Asks
      <4> QED
        BY <4>2, <4>3
    <3> QED
      BY <1>6, <2>1, <3>3
  <2> QED
    BY <2>4, <2>6, <2>7, <2>8
<1>22. ASSUME NEW t \in Threads, NEW o \in Ops, NEW m \in Movies \cup {None},
              NEW edit \in Edits \cup {NoRow}, Start(t, o, m, edit)
       PROVE  Apart'
  <2> DEFINE r == [Idle EXCEPT !.op = o, !.id = m, !.base = edit]
  <2>1. /\ \A u \in Threads : u # t => th'[u] = th[u]
        /\ UNCHANGED <<row, current, torn>>
    BY <1>1, <1>22, OthersStay DEF Start
  <2>2. o \in {"update", "delete", "clear", "set"}
    BY MoviesAssumption
  <2>3. r.cid = None /\ r \in Task
    BY IdleOK DEF Idle, Task
  <2>4. \/ Becomes(t, [r EXCEPT !.pc = "check"]) \/ Becomes(t, [r EXCEPT !.pc = "current"])
        \/ Becomes(t, [r EXCEPT !.pc = "get", !.want = m, !.then = "check"])
    BY <1>22, <2>2 DEF Start, Get
  <2> HIDE DEF r
  <2>5. th'[t].cid = None
    <3>1. \/ th'[t] = [r EXCEPT !.pc = "check"] \/ th'[t] = [r EXCEPT !.pc = "current"]
          \/ th'[t] = [r EXCEPT !.pc = "get", !.want = m, !.then = "check"]
      BY <1>1, <2>4, OneBecomes DEF ThreadsOK
    <3> QED
      BY <2>3, <3>1 DEF Task
  <2>6. Right(th[t])'
    BY <2>1, <2>5 DEF Counts
  <2> QED
    BY <1>6, <2>1, <2>6
<1>23. CASE UNCHANGED <<row, current, th, torn>>
  BY <1>1, <1>23 DEF Apart, Counts, Checked, Asks, Aside, Between, Below, Filed
<1>24. ASSUME NEW t \in Threads, MovieStep(t)
       PROVE  Apart'
  BY <1>10, <1>12, <1>13, <1>14, <1>15, <1>16, <1>18, <1>19, <1>20, <1>21, <1>24
     DEF MovieStep, Ask
<1> QED
  BY <1>11, <1>22, <1>23, <1>24 DEF MoviesNext, Reload, Finished, moviesVars

-----------------------------------------------------------------------------
LEMMA MoviesInitOK ==
    ASSUME MoviesInit
    PROVE  CacheOK /\ CurrentOK
<1>1. Idle \in Task /\ Fits(Idle) /\ Idle.pc = "idle" /\ Idle.cid = None
  BY IdleOK DEF Idle
<1>2. /\ Tree \in [Movies -> Row \cup {NoRow}] /\ MaxOps \in Nat /\ None \notin Movies
      /\ \A m \in Movies : Tree[m] # NoRow /\ Tree[m].parent # None => Tree[Tree[m].parent] # NoRow
  BY MoviesAssumption
<1>3. ThreadsOK
  BY <1>1 DEF MoviesInit, ThreadsOK
<1>4. StoresOK
  BY <1>2 DEF MoviesInit, StoresOK
<1>5. Keys
  <2>1. \A m \in Movies : Tree[m] # NoRow => Tree[m].parent \in Movies \cup {None}
    BY <1>2 DEF Row
  <2> QED
    BY <1>2, <2>1 DEF MoviesInit, Keys
<1>6. Untouched
  BY <1>1 DEF MoviesInit, Untouched, At
<1>7. ExistingFollow /\ GoneAwaited
  BY DEF MoviesInit, ExistingFollow, GoneAwaited
<1>8. CurrentExists
  BY DEF MoviesInit, CurrentExists
<1>9. Apart
  BY DEF MoviesInit, Apart, Counts
<1> QED
  BY <1>3, <1>4, <1>5, <1>6, <1>7, <1>8, <1>9 DEF CacheOK, CurrentOK, RowsOK

LEMMA RowsStep ==
    ASSUME RowsOK, [MoviesNext]_moviesVars
    PROVE  RowsOK'
BY MoviesTypesStep, KeysStep, UntouchedStep DEF RowsOK

LEMMA CacheInvariant == MoviesSpec => []CacheOK
<1>1. MoviesInit => CacheOK
  BY MoviesInitOK
<1>2. CacheOK /\ [MoviesNext]_moviesVars => CacheOK'
  <2> SUFFICES ASSUME CacheOK, [MoviesNext]_moviesVars
               PROVE  CacheOK'
    OBVIOUS
  <2>1. RowsOK'
    BY RowsStep DEF CacheOK
  <2>2. ExistingFollow' /\ GoneAwaited'
    BY FollowStep, AwaitedStep
  <2> QED
    BY <2>1, <2>2 DEF CacheOK
<1> QED
  BY <1>1, <1>2, PTL DEF MoviesSpec

LEMMA CurrentInvariant == MoviesSpec => []CurrentOK
<1>1. MoviesInit => CurrentOK
  BY MoviesInitOK
<1>2. CurrentOK /\ [MoviesNext]_moviesVars => CurrentOK'
  <2> SUFFICES ASSUME CurrentOK, [MoviesNext]_moviesVars
               PROVE  CurrentOK'
    OBVIOUS
  <2>1. RowsOK'
    BY RowsStep DEF CurrentOK
  <2>2. CurrentExists' /\ Apart'
    BY CurrentExistsStep, ApartStep
  <2> QED
    BY <2>1, <2>2 DEF CurrentOK
<1> QED
  BY <1>1, <1>2, PTL DEF MoviesSpec

\* The rows, the cache and the threads have their types: a thread that stores, climbs or
\* plays holds the movie that it has found (movies.go:169-213, 270-305).
THEOREM MoviesTypes == MoviesSpec => []MoviesTypeOK
<1>1. CacheOK => MoviesTypeOK
  BY DEF CacheOK, RowsOK, ThreadsOK, StoresOK, Fits, Task, MoviesTypeOK
<1> QED
  BY <1>1, CacheInvariant, PTL

\* The cache says what the rows say, however requests overlap, but for the exceptions
\* that the histories name (movies.go:92-113, 140-213).
THEOREM MovieCacheTruth == MoviesSpec => []CacheTellsTruth
<1>1. CacheOK => CacheTellsTruth
  BY DEF CacheOK, GoneAwaited, CacheTellsTruth, GoneAreEvicted
<1> QED
  BY <1>1, CacheInvariant, PTL

\* The current movie is in the database, however the folders around it are changed,
\* moved and deleted, but for the exceptions that the history names (room.go:371-459,
\* 494-531, movies.go:270-305).
THEOREM CurrentStays == MoviesSpec => []CurrentExists
<1>1. CurrentOK => CurrentExists
  BY DEF CurrentOK
<1> QED
  BY <1>1, CurrentInvariant, PTL

-----------------------------------------------------------------------------
(* How the players of a room come to show the status: Viewers, with its own constants and state. *)

CONSTANTS Viewers, Statuses, First, Refused, Nobody, ClientCap, MaxActs

VARIABLES status, queue, chan, inbox, view, task, acts

V == INSTANCE Viewers WITH None <- Nobody

\* Sequences stay sequences, and a channel with room stays within its capacity.
LEMMA SeqTypes ==
    ASSUME NEW S, NEW s \in Seq(S)
    PROVE  /\ \A x \in S : Append(s, x) \in Seq(S) /\ Len(Append(s, x)) = Len(s) + 1
           /\ s # <<>> => /\ Head(s) \in S /\ Tail(s) \in Seq(S)
                          /\ Len(Tail(s)) <= Len(s)
<1>1. ASSUME NEW x \in S
      PROVE  Append(s, x) \in Seq(S) /\ Len(Append(s, x)) = Len(s) + 1
  OBVIOUS
<1>2. ASSUME s # <<>>
      PROVE  Head(s) \in S /\ Tail(s) \in Seq(S) /\ Len(Tail(s)) <= Len(s)
  <2>1. Len(s) \in Nat /\ Len(Tail(s)) = Len(s) - 1
    BY <1>2
  <2>2. Head(s) \in S /\ Tail(s) \in Seq(S)
    BY <1>2
  <2> QED
    BY <2>1, <2>2
<1> QED
  BY <1>1, <1>2

\* A message taken by a reader, with a task for it that is one.
LEMMA ReadsTypes ==
    ASSUME V!TypeOK, NEW v \in Viewers, NEW kind, NEW t \in V!Tasks, V!Reads(v, kind, t)
    PROVE  /\ inbox' \in [Viewers -> Seq(V!Messages)] /\ task' \in [Viewers -> V!Tasks]
           /\ UNCHANGED <<queue, chan, view, acts>>
           /\ Head(inbox[v]).status \in Statuses
<1>1. inbox[v] \in Seq(V!Messages) /\ inbox[v] # <<>>
  BY DEF V!TypeOK, V!Reads
<1>2. Head(inbox[v]) \in V!Messages /\ Tail(inbox[v]) \in Seq(V!Messages)
  BY <1>1, SeqTypes
<1>3. Head(inbox[v]).status \in Statuses
  BY <1>2 DEF V!Messages
<1> QED
  BY <1>2, <1>3 DEF V!TypeOK, V!Reads

\* Tasks are made of statuses.
LEMMA TaskTypes ==
    /\ V!NoTask \in V!Tasks
    /\ \A s \in Statuses : V!Message("announce", s) \in V!Tasks /\ V!Message("reply", s) \in V!Tasks
BY DEF V!Tasks, V!NoTask, V!Message

\* What a reader does keeps the types: a status is set and announced only if a message
\* had it, and a channel is written only with room (websocket.go:408-516).
LEMMA ReaderTypes ==
    ASSUME V!ViewersAssumption, V!TypeOK, NEW v \in Viewers, V!Reader(v)
    PROVE  V!TypeOK'
<1>1. CASE V!HandleStatus(v)
  <2>1. PICK t \in V!Tasks : V!Reads(v, "set", t) /\ status' \in {status, Head(inbox[v]).status}
    <3>1. CASE v \in Refused /\ V!Reads(v, "set", V!NoTask) /\ UNCHANGED status
      BY <3>1, TaskTypes
    <3>2. CASE /\ V!Reads(v, "set", V!Message("announce", Head(inbox[v]).status))
               /\ status' = Head(inbox[v]).status
      <4>1. inbox[v] \in Seq(V!Messages) /\ inbox[v] # <<>>
        BY <3>2 DEF V!TypeOK, V!Reads
      <4>2. Head(inbox[v]) \in V!Messages
        BY <4>1, SeqTypes
      <4>3. Head(inbox[v]).status \in Statuses
        BY <4>2 DEF V!Messages
      <4> QED
        BY <3>2, <4>3, TaskTypes
    <3> QED
      BY <1>1, <3>1, <3>2 DEF V!HandleStatus
  <2> QED
    BY <2>1, ReadsTypes DEF V!TypeOK
<1>2. CASE V!Announce(v)
  <2>1. task[v] \in V!Tasks /\ task[v] # V!NoTask
    BY <1>2 DEF V!Announce, V!TypeOK, V!NoTask, V!Message
  <2>2. [status |-> task[v].status, skip |-> v] \in [status : Statuses, skip : Viewers]
    BY <2>1 DEF V!Tasks
  <2>3. queue' \in Seq([status : Statuses, skip : Viewers])
    BY <1>2, <2>2, SeqTypes DEF V!Announce, V!TypeOK
  <2>4. task' \in [Viewers -> V!Tasks]
    BY <1>2, TaskTypes DEF V!Announce, V!TypeOK
  <2> QED
    BY <1>2, <2>3, <2>4 DEF V!Announce, V!TypeOK
<1>3. CASE V!HandleCheck(v)
  <2>1. PICK t \in V!Tasks : V!Reads(v, "check", t)
    BY <1>3, TaskTypes DEF V!HandleCheck, V!TypeOK
  <2> QED
    BY <1>3, <2>1, ReadsTypes DEF V!HandleCheck, V!TypeOK
<1>4. CASE V!HandleSync(v)
  <2>1. V!Message("reply", status) \in V!Tasks
    BY TaskTypes DEF V!TypeOK
  <2> QED
    BY <1>4, <2>1, ReadsTypes DEF V!HandleSync, V!TypeOK
<1>5. CASE V!Reply(v)
  <2>1. task[v] \in V!Tasks /\ task[v] # V!NoTask
    BY <1>5 DEF V!Reply, V!TypeOK, V!NoTask, V!Message
  <2>2. task[v].status \in Statuses
    BY <2>1 DEF V!Tasks
  <2>3. chan[v] \in Seq(Statuses) /\ Len(chan[v]) \in Nat /\ Len(chan[v]) < ClientCap
    BY <1>5 DEF V!Reply, V!HasRoom, V!TypeOK
  <2>4. /\ Append(chan[v], task[v].status) \in Seq(Statuses)
        /\ Len(Append(chan[v], task[v].status)) <= ClientCap
    BY <2>2, <2>3, SeqTypes DEF V!ViewersAssumption
  <2>5. chan' \in [Viewers -> Seq(Statuses)] /\ \A w \in Viewers : Len(chan'[w]) <= ClientCap
    BY <1>5, <2>4 DEF V!Reply, V!TypeOK
  <2>6. task' \in [Viewers -> V!Tasks]
    BY <1>5, TaskTypes DEF V!Reply, V!TypeOK
  <2> QED
    BY <1>5, <2>5, <2>6 DEF V!Reply, V!TypeOK
<1> QED
  BY <1>1, <1>2, <1>3, <1>4, <1>5 DEF V!Reader

\* What a player does keeps the types.
LEMMA PlayerTypes ==
    ASSUME V!ViewersAssumption, V!TypeOK, NEW v \in Viewers,
           \/ \E s \in Statuses : V!Act(v, s)
           \/ \E kind \in {"check", "sync"} : V!Ask(v, kind)
           \/ V!Show(v)
    PROVE  V!TypeOK'
<1>1. ASSUME NEW s \in Statuses, V!Act(v, s)
      PROVE  V!TypeOK'
  <2>1. V!Message("set", s) \in V!Messages
    BY DEF V!Message, V!Messages
  <2>2. inbox' \in [Viewers -> Seq(V!Messages)]
    BY <1>1, <2>1, SeqTypes DEF V!Act, V!SendUp, V!TypeOK
  <2>3. acts' \in 0..MaxActs
    BY <1>1 DEF V!ViewersAssumption, V!Act, V!TypeOK
  <2> QED
    BY <1>1, <2>2, <2>3 DEF V!Act, V!TypeOK
<1>2. ASSUME NEW kind \in {"check", "sync"}, V!Ask(v, kind)
      PROVE  V!TypeOK'
  <2>1. V!Message(kind, view[v]) \in V!Messages
    BY DEF V!Message, V!Messages, V!TypeOK
  <2>2. inbox' \in [Viewers -> Seq(V!Messages)]
    BY <1>2, <2>1, SeqTypes DEF V!Ask, V!SendUp, V!TypeOK
  <2> QED
    BY <1>2, <2>2 DEF V!Ask, V!TypeOK
<1>3. CASE V!Show(v)
  <2>1. chan[v] \in Seq(Statuses) /\ chan[v] # <<>>
    BY <1>3 DEF V!Show, V!TypeOK
  <2>2. Head(chan[v]) \in Statuses /\ Tail(chan[v]) \in Seq(Statuses)
        /\ Len(Tail(chan[v])) <= Len(chan[v])
    BY <2>1, SeqTypes
  <2>3. Len(Tail(chan[v])) <= ClientCap
    <3>1. Len(Tail(chan[v])) \in Nat /\ Len(chan[v]) \in Nat /\ Len(chan[v]) <= ClientCap
      BY <2>1, <2>2 DEF V!TypeOK
    <3> QED
      BY <2>2, <3>1 DEF V!ViewersAssumption
  <2>4. chan' \in [Viewers -> Seq(Statuses)] /\ \A w \in Viewers : Len(chan'[w]) <= ClientCap
    BY <1>3, <2>2, <2>3 DEF V!Show, V!TypeOK
  <2>5. view' \in [Viewers -> Statuses]
    BY <1>3, <2>2 DEF V!Show, V!TypeOK
  <2> QED
    BY <1>3, <2>4, <2>5 DEF V!Show, V!TypeOK
<1> QED
  BY <1>1, <1>2, <1>3

\* The hub delivers a status to everybody it is for, all of whom have room
\* (hub.go:75-106).
LEMMA DeliverTypes ==
    ASSUME V!ViewersAssumption, V!TypeOK, V!Deliver
    PROVE  V!TypeOK'
<1>1. queue \in Seq([status : Statuses, skip : Viewers]) /\ queue # <<>>
  BY DEF V!TypeOK, V!Deliver
<1>2. /\ Head(queue) \in [status : Statuses, skip : Viewers]
      /\ Tail(queue) \in Seq([status : Statuses, skip : Viewers])
  BY <1>1, SeqTypes
<1>3. ASSUME NEW v \in Viewers
      PROVE  chan'[v] \in Seq(Statuses) /\ Len(chan'[v]) <= ClientCap
  <2>1. CASE v = Head(queue).skip
    BY <2>1 DEF V!Deliver, V!TypeOK
  <2>2. CASE v # Head(queue).skip
    <3>1. chan[v] \in Seq(Statuses) /\ Len(chan[v]) \in Nat /\ Len(chan[v]) < ClientCap
      BY <2>2 DEF V!Deliver, V!HasRoom, V!TypeOK
    <3>2. chan'[v] = Append(chan[v], Head(queue).status)
      BY <2>2 DEF V!Deliver
    <3> QED
      BY <1>2, <3>1, <3>2, SeqTypes DEF V!ViewersAssumption
  <2> QED
    BY <2>1, <2>2
<1>4. chan' \in [Viewers -> Seq(Statuses)]
  BY <1>3 DEF V!Deliver
<1> QED
  BY <1>2, <1>3, <1>4 DEF V!Deliver, V!TypeOK

\* The room, the messages on their way and the players never have anything but a status
\* that some player set, also where one is refused, and no channel overflows, whatever the
\* constants that Viewers admits (websocket.go:408-516, hub.go:75-106).
THEOREM ViewersTypes ==
    ASSUME V!ViewersAssumption
    PROVE  V!Spec => []V!TypeOK
<1>1. V!Init => V!TypeOK
  BY TaskTypes DEF V!ViewersAssumption, V!Init, V!TypeOK
<1>2. V!TypeOK /\ [V!Next]_(V!vars) => V!TypeOK'
  <2> SUFFICES ASSUME V!TypeOK, [V!Next]_(V!vars)
               PROVE  V!TypeOK'
    OBVIOUS
  <2>1. CASE UNCHANGED V!vars
    BY <2>1 DEF V!vars, V!TypeOK
  <2>2. ASSUME NEW v \in Viewers, V!Reader(v)
        PROVE  V!TypeOK'
    BY <2>2, ReaderTypes
  <2>3. ASSUME NEW v \in Viewers,
               \/ \E s \in Statuses : V!Act(v, s)
               \/ \E kind \in {"check", "sync"} : V!Ask(v, kind)
               \/ V!Show(v)
        PROVE  V!TypeOK'
    BY <2>3, PlayerTypes
  <2>4. CASE V!Deliver
    BY <2>4, DeliverTypes
  <2> QED
    BY <2>1, <2>2, <2>3, <2>4 DEF V!Next
<1> QED
  BY <1>1, <1>2, PTL DEF V!Spec
==============================================================================
