----------------------------- MODULE RateLimiter -----------------------------
(***************************************************************************)
(* The per-client request cap of the HTTP API (api/ratelimit.py).          *)
(*                                                                         *)
(* FastAPI runs the synchronous /ask handler on a pool of worker threads,  *)
(* so RateLimiter.check is entered by several threads at once.  The clock  *)
(* is read BEFORE the lock is taken: a thread may be descheduled between   *)
(* the two and compare an old reading with hits recorded after it.         *)
(* MaxStall bounds how old a reading may get; 0 means that a check takes   *)
(* no time at all.                                                         *)
(***************************************************************************)
EXTENDS Integers, Sequences

CONSTANTS
    Threads,    \* worker threads of the server
    Keys,       \* client addresses
    NoThread,   \* "nobody holds the lock"
    NoKey,      \* the client of a thread that is not checking one
    Limits,     \* what --rate-limit may be
    Window,     \* length of the window, in clock units
    MaxStall,   \* the longest a check lasts, from its clock reading to its verdict
    MaxTime     \* bound of the model: the clock stops here

IdleEvictionFactor == 2

ASSUME RateLimiterAssumption ==
    /\ NoThread \notin Threads
    /\ NoKey \notin Keys
    /\ Limits \subseteq Nat
    /\ Window \in Nat \ {0}
    /\ MaxStall \in 0 .. Window
    /\ MaxTime \in Nat

VARIABLES
    limit,      \* self._limit: requests admitted per window, fixed at start-up
    now,        \* time.monotonic()
    lock,       \* the thread inside "with self._lock", or NoThread
    pc,         \* where each thread is inside check()
    key,        \* the client each thread is checking
    read,       \* the clock reading each thread works with
    tracked,    \* the keys of the dict self._seen
    seen,       \* self._seen: the hits of each client, in the order they were recorded
    admitted,   \* history: every hit ever recorded, in that order
    promise     \* history: when the last refusal said a slot would be free (0: none)

vars == <<limit, now, lock, pc, key, read, tracked, seen, admitted, promise>>

TypeOK ==
    /\ limit \in Limits
    /\ now \in 0 .. MaxTime
    /\ lock \in Threads \cup {NoThread}
    /\ pc \in [Threads -> {"idle", "waiting", "scanning"}]
    /\ key \in [Threads -> Keys \cup {NoKey}]
    /\ read \in [Threads -> 0 .. MaxTime]
    /\ tracked \in SUBSET Keys
    /\ seen \in [Keys -> Seq(Nat)]
    /\ admitted \in [Keys -> Seq(Nat)]
    /\ promise \in [Keys -> Nat]
    /\ \A k \in Keys \ tracked : seen[k] = <<>>

Init ==
    /\ limit \in Limits
    /\ now = 0
    /\ lock = NoThread
    /\ pc = [t \in Threads |-> "idle"]
    /\ key = [t \in Threads |-> NoKey]
    /\ read = [t \in Threads |-> 0]
    /\ tracked = {}
    /\ seen = [k \in Keys |-> <<>>]
    /\ admitted = [k \in Keys |-> <<>>]
    /\ promise = [k \in Keys |-> 0]

-----------------------------------------------------------------------------
Last(hits) == hits[Len(hits)]

\* A hit has left the window of a check that read the clock at time t.
ExpiredEarly(hit, t) == t - hit >= Window - 1                       \* mutant
ExpiredLate(hit, t) == t - hit > Window                             \* mutant
Expired(hit, t) == t - hit >= Window

Full(hits) == Len(hits) >= limit

\* The clients _evict(t) forgets: no hits, or none within two windows.
Stale(t) ==
    {k \in tracked : seen[k] = <<>> \/ t - Last(seen[k]) > IdleEvictionFactor * Window}

-----------------------------------------------------------------------------
\* Time passes, but no check in progress lasts longer than MaxStall.
Tick ==
    /\ now < MaxTime
    /\ \A t \in Threads : pc[t] # "idle" => now - read[t] < MaxStall
    /\ now' = now + 1
    /\ UNCHANGED <<limit, lock, pc, key, read, tracked, seen, admitted, promise>>

\* now = self._clock(), outside the lock.
ReadClock(t, k) ==
    /\ pc[t] = "idle"
    /\ pc' = [pc EXCEPT ![t] = "waiting"]
    /\ key' = [key EXCEPT ![t] = k]
    /\ read' = [read EXCEPT ![t] = now]
    /\ UNCHANGED <<limit, now, lock, tracked, seen, admitted, promise>>

\* Enter the lock, evict the idle clients, find or create this client's hits.
Enter(t) ==
    /\ pc[t] = "waiting"
    /\ lock = NoThread
    /\ lock' = t
    /\ pc' = [pc EXCEPT ![t] = "scanning"]
    /\ tracked' = (tracked \ Stale(read[t])) \cup {key[t]}
    /\ seen' = [k \in Keys |-> IF k \in Stale(read[t]) THEN <<>> ELSE seen[k]]
    /\ UNCHANGED <<limit, now, key, read, admitted, promise>>

\* One turn of the loop that drops the expired hits from the left.
PopExpired(t) ==
    LET hits == seen[key[t]] IN
    /\ pc[t] = "scanning"
    /\ hits # <<>>
    /\ Expired(Head(hits), read[t])
    /\ seen' = [seen EXCEPT ![key[t]] = Tail(hits)]
    /\ UNCHANGED <<limit, now, lock, pc, key, read, tracked, admitted, promise>>

\* The loop is over when the oldest hit is still inside the window.
Scanned(t) ==
    /\ pc[t] = "scanning"
    /\ seen[key[t]] # <<>> => ~Expired(Head(seen[key[t]]), read[t])

\* Return: the lock is released and the locals of check() are gone.
Leave(t) ==
    /\ lock' = NoThread
    /\ pc' = [pc EXCEPT ![t] = "idle"]
    /\ key' = [key EXCEPT ![t] = NoKey]
    /\ read' = [read EXCEPT ![t] = 0]

Admit(t) ==
    /\ Scanned(t)
    /\ ~Full(seen[key[t]])
    /\ seen' = [seen EXCEPT ![key[t]] = Append(@, read[t])]
    /\ admitted' = [admitted EXCEPT ![key[t]] = Append(@, read[t])]
    /\ promise' = [promise EXCEPT ![key[t]] = 0]
    /\ Leave(t)
    /\ UNCHANGED <<limit, now, tracked>>

\* max(0.0, window - (now - hits[0])): what the client is told to wait.  The
\* loop left an unexpired hit at the head, so the difference is positive.
RetryAfter(hits, t) == Window - (t - Head(hits))

RefuseAndRecord(t) ==                                               \* mutant
    LET hits == seen[key[t]] IN
    /\ Scanned(t)
    /\ Full(hits)
    /\ hits # <<>>
    /\ promise' = [promise EXCEPT ![key[t]] = read[t] + RetryAfter(hits, read[t])]
    /\ seen' = [seen EXCEPT ![key[t]] = Append(Tail(@), read[t])]
    /\ Leave(t)
    /\ UNCHANGED <<limit, now, tracked, admitted>>

Refuse(t) ==
    LET hits == seen[key[t]] IN
    /\ Scanned(t)
    /\ Full(hits)
    /\ hits # <<>>
    /\ promise' = [promise EXCEPT ![key[t]] = read[t] + RetryAfter(hits, read[t])]
    /\ Leave(t)
    /\ UNCHANGED <<limit, now, tracked, seen, admitted>>

\* With a limit of 0 the deque is empty and still full: hits[0] raises
\* IndexError, the lock is released and the handler answers 500.
RaiseIndexError(t) ==
    /\ Scanned(t)
    /\ Full(seen[key[t]])
    /\ seen[key[t]] = <<>>
    /\ Leave(t)
    /\ UNCHANGED <<limit, now, tracked, seen, admitted, promise>>

Check(t) == Enter(t) \/ PopExpired(t) \/ Admit(t) \/ Refuse(t) \/ RaiseIndexError(t)

Next ==
    \/ Tick
    \/ \E t \in Threads : (\E k \in Keys : ReadClock(t, k)) \/ Check(t)

Spec == Init /\ [][Next]_vars

-----------------------------------------------------------------------------
\* The cap: any limit + 1 requests of one client that are let through one
\* after the other span at least a window, less what one check may stall
\* (api/ratelimit.py, "A sliding window of request times per client key").
CapHolds ==
    \A k \in Keys : \A i, j \in DOMAIN admitted[k] :
        j - i = limit => admitted[k][j] - admitted[k][i] >= Window - MaxStall

\* Retry-After is honest: a client refused once is not refused again at or
\* after the moment it was told to come back, unless a later request of its
\* own took the slot (refused requests do not prolong the ban).
PromiseKept ==
    [][\A t \in Threads :
          pc[t] = "scanning" /\ pc'[t] = "idle" /\ promise[key[t]] # 0
             => admitted' # admitted \/ read[t] < promise[key[t]]]_vars

\* Nobody is refused without cause: behind every refusal stand "limit" requests
\* of the same client that were let through less than a window ago, or a stall
\* more where the check of one of them was overtaken.
RefusedForCause ==
    [][\A t \in Threads : LET hits == admitted[key[t]] IN
          pc[t] = "scanning" /\ pc'[t] = "idle" /\ admitted' = admitted
             => /\ Len(hits) >= limit
                /\ \A i \in Len(hits) - limit + 1 .. Len(hits) :
                      read[t] - hits[i] < Window + MaxStall]_vars
=============================================================================
