----------------------------- MODULE SliceCache ------------------------------
(***************************************************************************)
(* The caching proxy of server/handlers/proxy: SliceCacheProxy answers a   *)
(* range of bytes from slices of SliceSize bytes, each taken from the      *)
(* cache or else fetched from the source, under a lock of its own; the     *)
(* cache is a FileCache, a memory cache with LRU eviction before one file  *)
(* per slice.                                                              *)
(*                                                                         *)
(* A slice is named by its offset, and byte p of the source is p: the      *)
(* source does not change.  Several requests are served at once; a cleaner *)
(* removes files, files grow old, writes and the source fail, and the      *)
(* process stops and starts again over the same files.                     *)
(***************************************************************************)
EXTENDS Integers, Sequences, FiniteSets, SequencesExt, FiniteSetsExt

CONSTANTS
    Requests,     \* the goroutines that serve a request, one after another
    SliceSize,    \* sliceSize (2 MiB)
    Total,        \* the length of the source
    MaxMem,       \* maxSizeBytes of the memory cache (100 MB)
    MaxEntries,   \* its capacity (1000); 0 is none
    MaxDisk,      \* maxSizeBytes of the files
    Ranges,       \* the ranges asked for: pairs of first and last, -1 is none
    MaxRequests,  \* bound: requests made
    MaxTroubles   \* bound: failed fetches and writes, restarts, ageings

ASSUME SizesAreSane ==
    /\ SliceSize \in Nat \ {0} /\ Total \in Nat \ {0}
    /\ MaxMem \in Nat /\ MaxEntries \in Nat /\ MaxDisk \in Nat
    /\ MaxRequests \in Nat /\ MaxTroubles \in Nat
    /\ Ranges \subseteq Nat \X (Nat \cup {-1})
    /\ \A r \in Ranges : r[2] = -1 \/ r[1] <= r[2]

VARIABLES
    req,       \* request -> its goroutine
    lru,       \* the keys of the memory cache, the most recently used first
    memSize,   \* its currentSize
    files,     \* slice -> its file: absent, torn (not written to the end), whole
    old,       \* the slices whose file is older than maxAge
    cleaner,   \* the cleanup under way: the files it has listed and their size
    asked,     \* the requests made so far
    troubles,  \* the failures, restarts and ageings so far
    hurt       \* history: some fetch or write has failed, or the process stopped

vars == <<req, lru, memSize, files, old, cleaner, asked, troubles, hurt>>

-----------------------------------------------------------------------------
(* Ranges and slices. *)

\* alignedOffset: where the slice begins that holds a byte.
Aligned(p) == (p \div SliceSize) * SliceSize

\* The slices a request may want: those of the source, and the first past it.
Slices == {Aligned(p) : p \in 0 .. Total + SliceSize}
             \cup {Aligned(r[1]) : r \in Ranges}

\* len(Data) of a slice of the source; its last slice may be short.
Size(k) == Min({SliceSize, Total - k})

\* contentLength: how many bytes a range is, the source being Total long.
Length(first, last) ==
    IF last = -1 \/ last >= Total THEN Total - first ELSE last - first + 1

\* Mutant: the last slice is written to its end.
PieceUncut(k, first, left) ==
    LET from == Max({k, first})
    IN  [i \in 1 .. Max({0, k + Size(k) - from}) |-> from + i - 1]

\* The bytes of slice k that a response still lacking `left` bytes takes:
\* from the start of the range in the first slice, from its own start later.
Piece(k, first, left) ==
    LET from == Max({k, first})
        n    == Min({k + Size(k) - from, left})
    IN  [i \in 1 .. Max({0, n}) |-> from + i - 1]

-----------------------------------------------------------------------------
(* The memory cache, changed only under its lock. *)

\* Mutant: the element is pushed to the front and not taken from its place.
MovedToFrontTwice(k) == IF k \in Range(lru) THEN <<k>> \o lru ELSE lru

\* Where the element of a key is in the list.
Place(k) == CHOOSE i \in DOMAIN lru : lru[i] = k

\* dllist.MoveToFront, which leaves the list alone when the element is not in
\* it any more.  An element is named by its key: a request between the two
\* locks of Get holds the lock of the slice, so nobody sets the key anew.
MovedToFront(k) ==
    IF k \in Range(lru) THEN <<k>> \o RemoveAt(lru, Place(k)) ELSE lru

\* The bytes that a set of entries holds.
Held(keys) == MapThenSumSet(Size, keys)

\* What is left of currentSize when only the first i entries stay.
SizeKeeping(i) == memSize - Held(Range(lru) \ Range(SubSeq(lru, 1, i)))

\* Mutant: at most one entry is evicted.
KeptOnce(n) ==
    IF \/ MaxEntries > 0 /\ Len(lru) >= MaxEntries
       \/ MaxMem > 0 /\ memSize + n > MaxMem
    THEN Max({0, Len(lru) - 1}) ELSE Len(lru)

\* How many entries stay when the least recently used go, one by one, until
\* an entry of n bytes fits or none is left.
Kept(n) ==
    Max({0} \cup {i \in 1 .. Len(lru) :
        /\ MaxEntries > 0 => i < MaxEntries
        /\ MaxMem > 0 => SizeKeeping(i) + n <= MaxMem})

\* MemoryCache.Set: replacing an entry evicts none.
MemSet(k) ==
    LET there == k \in Range(lru)
        stay  == Kept(Size(k))
    IN  /\ lru' = IF there THEN MovedToFront(k) ELSE <<k>> \o SubSeq(lru, 1, stay)
        /\ memSize' = IF there THEN memSize ELSE SizeKeeping(stay) + Size(k)

-----------------------------------------------------------------------------
(* Requests. *)

NoRequest == [pc |-> "idle", first |-> 0, last |-> -1, at |-> 0, out |-> <<>>]

\* What is still to be written of the range.
Lacking(t) == Length(req[t].first, req[t].last) - Len(req[t].out)

\* Mutant: the lock is given back once the slice is in the memory cache.
HoldingUntilSet(t) == req[t].pc \in {"get", "touch", "open", "fetch", "keep", "set"}

\* The goroutine holds the lock of the slice it is at.
Holding(t) ==
    req[t].pc \in {"get", "touch", "open", "fetch", "keep", "set", "create", "write"}

Goes(t, pc) == req' = [req EXCEPT ![t].pc = pc]

\* An error at any step ends the request and gives the lock back.
Fails(t) == Goes(t, "failed")

\* getCacheItem returns, and the slice is written to the response; the loop of
\* writeResponse goes on to the next one as long as bytes are lacking.
Writes(t) ==
    LET r     == req[t]
        piece == Piece(r.at, r.first, Lacking(t))
    IN  req' = [req EXCEPT ![t] =
            [r EXCEPT !.out = @ \o piece,
                      !.at  = @ + SliceSize,
                      !.pc  = IF Lacking(t) > Len(piece) THEN "lock" ELSE "done"]]

\* A request is made, and its range parsed.
Ask(t) ==
    /\ req[t].pc \in {"idle", "done", "failed"}
    /\ asked < MaxRequests
    /\ \E r \in Ranges :
          req' = [req EXCEPT ![t] =
            [pc |-> "lock", first |-> r[1], last |-> r[2], at |-> Aligned(r[1]), out |-> <<>>]]
    /\ asked' = asked + 1
    /\ UNCHANGED <<lru, memSize, files, old, cleaner, troubles, hurt>>

\* mu.Lock of the slice's key.
Lock(t) ==
    /\ req[t].pc = "lock"
    /\ \A u \in Requests : Holding(u) => req[u].at # req[t].at
    /\ Goes(t, "get")
    /\ UNCHANGED <<lru, memSize, files, old, cleaner, asked, troubles, hurt>>

\* MemoryCache.Get finds the element or not, under the read lock.
Lookup(t) ==
    /\ req[t].pc = "get"
    /\ Goes(t, IF req[t].at \in Range(lru) THEN "touch" ELSE "open")
    /\ UNCHANGED <<lru, memSize, files, old, cleaner, asked, troubles, hurt>>

\* Having given the read lock back and taken the write lock, it moves the
\* element, which may have been evicted meanwhile, and returns its item.
Touch(t) ==
    /\ req[t].pc = "touch"
    /\ lru' = MovedToFront(req[t].at)
    /\ Writes(t)
    /\ UNCHANGED <<memSize, files, old, cleaner, asked, troubles, hurt>>

\* FileCache.Get opens the file, removes one that has expired, and reads it;
\* what was not written to the end is an error.
Open(t) ==
    LET k == req[t].at
    IN  /\ req[t].pc = "open"
        /\ CASE files[k] = "absent" ->
                  Goes(t, "fetch") /\ UNCHANGED <<files, old>>
             [] files[k] # "absent" /\ k \in old ->
                  /\ Goes(t, "fetch")
                  /\ files' = [files EXCEPT ![k] = "absent"]
                  /\ old' = old \ {k}
             [] files[k] = "torn" /\ k \notin old ->
                  Fails(t) /\ UNCHANGED <<files, old>>
             [] files[k] = "whole" /\ k \notin old ->
                  Goes(t, "keep") /\ UNCHANGED <<files, old>>
        /\ UNCHANGED <<lru, memSize, cleaner, asked, troubles, hurt>>

\* The slice read from its file is stored in the memory cache and returned.
Keep(t) ==
    /\ req[t].pc = "keep"
    /\ MemSet(req[t].at)
    /\ Writes(t)
    /\ UNCHANGED <<files, old, cleaner, asked, troubles, hurt>>

\* Mutant: a fetch that found nothing is tried again.
FetchAgain(t) ==
    /\ req[t].pc = "fetch"
    /\ IF req[t].at < Total THEN Goes(t, "set") ELSE Goes(t, "lock")
    /\ UNCHANGED <<lru, memSize, files, old, cleaner, asked, troubles, hurt>>

\* fetchFromSource: at or past the end of the source there is nothing to read,
\* which is an error.
Fetch(t) ==
    /\ req[t].pc = "fetch"
    /\ IF req[t].at < Total THEN Goes(t, "set") ELSE Fails(t)
    /\ UNCHANGED <<lru, memSize, files, old, cleaner, asked, troubles, hurt>>

\* The source answers with an error, or the client goes away.
FetchFails(t) ==
    /\ req[t].pc = "fetch"
    /\ troubles < MaxTroubles
    /\ Fails(t)
    /\ troubles' = troubles + 1
    /\ hurt' = TRUE
    /\ UNCHANGED <<lru, memSize, files, old, cleaner, asked>>

\* FileCache.Set stores the slice in the memory cache first...
Set(t) ==
    /\ req[t].pc = "set"
    /\ MemSet(req[t].at)
    /\ Goes(t, "create")
    /\ UNCHANGED <<files, old, cleaner, asked, troubles, hurt>>

\* ... creates or truncates the file...
Create(t) ==
    /\ req[t].pc = "create"
    /\ files' = [files EXCEPT ![req[t].at] = "torn"]
    /\ old' = old \ {req[t].at}
    /\ Goes(t, "write")
    /\ UNCHANGED <<lru, memSize, cleaner, asked, troubles, hurt>>

\* ... and writes it, in vain if the cleaner has removed it.
WriteFile(t) ==
    /\ req[t].pc = "write"
    /\ files' = [files EXCEPT ![req[t].at] = IF @ = "torn" THEN "whole" ELSE @]
    /\ Writes(t)
    /\ UNCHANGED <<lru, memSize, old, cleaner, asked, troubles, hurt>>

\* The disk is full: the request fails and what was written stays.
WriteFails(t) ==
    /\ req[t].pc = "write"
    /\ troubles < MaxTroubles
    /\ Fails(t)
    /\ troubles' = troubles + 1
    /\ hurt' = TRUE
    /\ UNCHANGED <<lru, memSize, files, old, cleaner, asked>>

Step(t) ==
    \/ Lookup(t) \/ Touch(t) \/ Open(t) \/ Keep(t) \/ Fetch(t) \/ FetchFails(t)
    \/ Set(t) \/ Create(t) \/ WriteFile(t) \/ WriteFails(t)

-----------------------------------------------------------------------------
(* The cleaner, time, and the process. *)

Resting == [on |-> FALSE, listed |-> {}, size |-> 0]

Present == {k \in Slices : files[k] # "absent"}

\* cleanup lists the files, removes those that have expired and adds up the
\* rest.  It runs every five minutes, or when a Set finds the counter of bytes
\* on disk too high: here at any time there is something to do.
CleanList ==
    /\ ~cleaner.on
    /\ MaxDisk > 0
    /\ LET fresh == Present \ old
       IN  /\ old # {} \/ Held(fresh) > MaxDisk
           /\ files' = [k \in Slices |-> IF k \in old THEN "absent" ELSE files[k]]
           /\ old' = {}
           /\ cleaner' = IF Held(fresh) > MaxDisk
                         THEN [on |-> TRUE, listed |-> fresh, size |-> Held(fresh)]
                         ELSE Resting
    /\ UNCHANGED <<req, lru, memSize, asked, troubles, hurt>>

\* It removes listed files until the rest fits; one that is gone by then
\* counts on.  The order of their times is left open.
CleanRemove ==
    /\ cleaner.on
    /\ cleaner.size > MaxDisk
    /\ \E k \in cleaner.listed :
          /\ files' = [files EXCEPT ![k] = "absent"]
          /\ old' = old \ {k}
          /\ cleaner' = [cleaner EXCEPT
                !.listed = @ \ {k},
                !.size = IF k \in Present THEN @ - Size(k) ELSE @]
    /\ UNCHANGED <<req, lru, memSize, asked, troubles, hurt>>

CleanEnd ==
    /\ cleaner.on
    /\ cleaner.size <= MaxDisk \/ cleaner.listed = {}
    /\ cleaner' = Resting
    /\ UNCHANGED <<req, lru, memSize, files, old, asked, troubles, hurt>>

\* A file grows older than maxAge.
Age ==
    /\ troubles < MaxTroubles
    /\ \E k \in Present \ old : old' = old \cup {k}
    /\ troubles' = troubles + 1
    /\ UNCHANGED <<req, lru, memSize, files, cleaner, asked, hurt>>

\* The process stops at any point and starts again: only the files stay.
Restart ==
    /\ troubles < MaxTroubles
    /\ req' = [t \in Requests |-> NoRequest]
    /\ lru' = <<>>
    /\ memSize' = 0
    /\ cleaner' = Resting
    /\ troubles' = troubles + 1
    /\ hurt' = TRUE
    /\ UNCHANGED <<files, old, asked>>

-----------------------------------------------------------------------------
Init ==
    /\ req = [t \in Requests |-> NoRequest]
    /\ lru = <<>>
    /\ memSize = 0
    /\ files = [k \in Slices |-> "absent"]
    /\ old = {}
    /\ cleaner = Resting
    /\ asked = 0
    /\ troubles = 0
    /\ hurt = FALSE

\* All requests that are made have ended: the server rests.
Done ==
    /\ asked = MaxRequests
    /\ \A t \in Requests : req[t].pc \in {"idle", "done", "failed"}
    /\ UNCHANGED vars

Next ==
    \/ \E t \in Requests : Ask(t) \/ Lock(t) \/ Step(t)
    \/ CleanList \/ CleanRemove \/ CleanEnd \/ Age \/ Restart \/ Done

Spec == Init /\ [][Next]_vars

\* A request that can go on goes on, and the lock of a key does not starve who
\* waits for it.  The cleaner, time and further requests owe nothing.
FairSpec == Spec /\ \A t \in Requests : SF_vars(Lock(t) \/ Step(t))

-----------------------------------------------------------------------------
(* Properties. *)

\* The variables keep their types, and the list holds no key twice.
TypeOK ==
    /\ \A t \in Requests : req[t].at \in Nat /\ req[t].out \in Seq(Nat)
    /\ lru \in Seq(Slices) /\ Cardinality(Range(lru)) = Len(lru)
    /\ memSize \in Nat
    /\ files \in [Slices -> {"absent", "torn", "whole"}]
    /\ old \subseteq Present
    /\ cleaner.listed \subseteq Slices /\ cleaner.size \in Nat
    /\ asked \in 0 .. MaxRequests /\ troubles \in 0 .. MaxTroubles
    /\ hurt \in BOOLEAN

\* The bytes of the source that a range asks for.
Wanted(first, last) ==
    {p \in 0 .. Total - 1 : first <= p /\ (last = -1 \/ p <= last)}

\* However a response is put together from slices that other requests evict,
\* files that the cleaner removes and files cut off by a crash, it is at every
\* moment the beginning of the bytes asked for, and in the end all of them.
RightBytes ==
    \A t \in Requests :
        LET r == req[t]
        IN  /\ \A i \in DOMAIN r.out : r.out[i] = r.first + i - 1
            /\ Range(r.out) \subseteq Wanted(r.first, r.last)
            /\ r.pc = "done" => Range(r.out) = Wanted(r.first, r.last)

\* No Set ever finds its key in the memory cache: the branch that replaces an
\* entry, and may outgrow the bound since it evicts nothing, is never taken,
\* because the lock of the slice spans the Get that missed and the Set.
NeverReplaces ==
    \A t \in Requests :
        req[t].pc \in {"open", "fetch", "keep", "set"} => req[t].at \notin Range(lru)

\* Whatever gaps Get leaves between its locks, the counter of the memory cache
\* is the size of its entries, and they are within its bounds, unless a single
\* entry is larger than them.
MemoryBounded ==
    /\ NeverReplaces
    /\ memSize = Held(Range(lru))
    /\ MaxMem > 0 => memSize <= MaxMem \/ Len(lru) = 1
    /\ MaxEntries > 0 => Len(lru) <= MaxEntries

\* A request for bytes that exist fails only after the source or a write has
\* failed or the process has stopped: eviction, cleaning and other requests,
\* which may be writing the very file, never make one fail.
FailsForCause ==
    \A t \in Requests :
        req[t].pc = "failed" => hurt \/ Aligned(req[t].first) >= Total

\* Every request comes to its end, whichever way the others end.
RequestsEnd ==
    \A t \in Requests : req[t].pc = "lock" ~> req[t].pc \in {"idle", "done", "failed"}
==============================================================================
