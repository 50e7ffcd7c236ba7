-------------------------- MODULE RateLimiterProofs --------------------------
(***************************************************************************)
(* For every number of threads and clients, limit, window and stall: the   *)
(* cap of RateLimiter holds up to the longest a check may stall, and       *)
(* Retry-After is honest.  The inductive invariant says how the deque a    *)
(* check looks at relates to the history of everything recorded: it is a   *)
(* suffix of it, and whatever is no longer in the deque has left the       *)
(* window by now, however stale the reading that dropped it was.           *)
(***************************************************************************)
EXTENDS RateLimiter, SequenceTheorems, TLAPS

\* The lock is held by exactly the thread that is scanning.
MutexInv == \A t \in Threads : pc[t] = "scanning" <=> lock = t

\* A check in progress has a client and a reading at most MaxStall old.
LocalsInv ==
    \A t \in Threads :
        /\ pc[t] # "idle" => /\ key[t] \in Keys
                             /\ read[t] <= now
                             /\ now <= read[t] + MaxStall
        /\ pc[t] = "scanning" => key[t] \in tracked

\* How many hits of client k have left its deque.
Dropped(k) == Len(admitted[k]) - Len(seen[k])

\* The deque is the tail of the history, and never longer than the limit.
SuffixInv ==
    \A k \in Keys :
        /\ Len(seen[k]) <= Len(admitted[k])
        /\ Len(seen[k]) <= limit
        /\ \A i \in 1 .. Len(seen[k]) : seen[k][i] = admitted[k][Dropped(k) + i]

\* Hits are recorded out of order by at most the stall, and never ahead of time.
SpreadInv ==
    \A k \in Keys :
        /\ \A i \in 1 .. Len(admitted[k]) : admitted[k][i] <= now
        /\ \A i, j \in 1 .. Len(admitted[k]) :
              i < j => admitted[k][i] <= admitted[k][j] + MaxStall

\* What has been dropped is a window old.
DroppedInv ==
    \A k \in Keys : \A i \in 1 .. Dropped(k) : admitted[k][i] + Window <= now

CapInv ==
    \A k \in Keys : \A i, j \in 1 .. Len(admitted[k]) :
        j - i = limit => admitted[k][j] - admitted[k][i] >= Window - MaxStall

\* While a promise stands, either a slot is already free or the oldest hit
\* leaves the window exactly when promised.
PromiseInv ==
    \A k \in Keys : promise[k] # 0 =>
        /\ limit > 0
        /\ Len(seen[k]) = limit => seen[k][1] + Window = promise[k]

IInv ==
    /\ TypeOK
    /\ MutexInv
    /\ LocalsInv
    /\ SuffixInv
    /\ SpreadInv
    /\ DroppedInv
    /\ CapInv
    /\ PromiseInv

-----------------------------------------------------------------------------
\* The constants the arithmetic is about.
LEMMA Numbers ==
    /\ NoThread \notin Threads /\ NoKey \notin Keys
    /\ Window \in Nat \ {0} /\ MaxStall \in 0 .. Window /\ MaxTime \in Nat
  BY RateLimiterAssumption

\* A hit a window behind the clock is that far, less the stall, behind the reading.
LEMMA Apart ==
    ASSUME NEW a \in Nat, NEW n \in Nat, NEW r \in Nat, NEW w \in Nat, NEW s \in Nat,
           a + w <= n, n <= r + s
    PROVE  r - a >= w - s
  OBVIOUS

\* Nothing has been asked of the limiter yet.
LEMMA InitIInv == Init => IInv
  <1> SUFFICES ASSUME Init PROVE IInv
    OBVIOUS
  <1> USE Numbers
  <1>n. limit \in Nat
    BY RateLimiterAssumption DEF Init
  <1> USE <1>n
  <1>1. TypeOK
    BY DEF Init, TypeOK
  <1>2. MutexInv /\ LocalsInv
    BY DEF Init, MutexInv, LocalsInv
  <1>3. \A k \in Keys : Len(seen[k]) = 0 /\ Len(admitted[k]) = 0 /\ promise[k] = 0
    BY DEF Init
  <1>4. SuffixInv /\ SpreadInv
    BY <1>3 DEF SuffixInv, SpreadInv
  <1>5. \A k \in Keys : Dropped(k) = 0
    BY <1>3 DEF Dropped
  <1>6. DroppedInv /\ CapInv /\ PromiseInv
    BY <1>3, <1>5 DEF DroppedInv, CapInv, PromiseInv
  <1> QED
    BY <1>1, <1>2, <1>4, <1>6 DEF IInv

\* Time passing only moves "now" further from every hit; the stall bound is
\* what keeps the readings fresh.
LEMMA TickIInv == IInv /\ Tick => IInv'
  <1> SUFFICES ASSUME IInv, Tick PROVE IInv'
    OBVIOUS
  <1> USE Numbers
  <1>n. limit \in Nat /\ limit' = limit
    BY RateLimiterAssumption DEF IInv, TypeOK, Tick
  <1> USE <1>n
  <1>1. TypeOK'
    BY DEF IInv, TypeOK, Tick
  <1>2. MutexInv'
    BY DEF IInv, MutexInv, Tick
  <1>3. LocalsInv'
    BY DEF IInv, TypeOK, LocalsInv, Tick
  <1>4. SuffixInv' /\ CapInv' /\ PromiseInv'
    BY DEF IInv, SuffixInv, CapInv, PromiseInv, Dropped, Tick
  <1>5. now \in Nat /\ now' = now + 1 /\ admitted \in [Keys -> Seq(Nat)]
    BY DEF IInv, TypeOK, Tick
  <1>6. SpreadInv'
    BY <1>5 DEF IInv, SpreadInv, Tick
  <1>7. \A k \in Keys : Dropped(k)' = Dropped(k) /\ Dropped(k) \in Int
    BY DEF IInv, TypeOK, Dropped, Tick
  <1>8. DroppedInv'
    <2> SUFFICES ASSUME NEW k \in Keys, NEW i \in 1 .. Dropped(k)
                 PROVE  admitted[k][i] + Window <= now + 1
      BY <1>5, <1>7 DEF DroppedInv, Tick
    <2>1. admitted[k][i] + Window <= now
      BY DEF IInv, DroppedInv
    <2>2. i \in 1 .. Len(admitted[k])
      BY <1>5, <1>7 DEF IInv, TypeOK, Dropped
    <2>3. admitted[k][i] \in Nat
      BY <1>5, <2>2
    <2> QED
      BY <1>5, <2>1, <2>3
  <1> QED
    BY <1>1, <1>2, <1>3, <1>4, <1>6, <1>8 DEF IInv

\* A thread that begins a check holds a reading of this very moment.
LEMMA ReadClockIInv ==
    ASSUME IInv, NEW t \in Threads, NEW k \in Keys, ReadClock(t, k)
    PROVE  IInv'
  <1> USE Numbers
  <1>n. limit \in Nat /\ limit' = limit
    BY RateLimiterAssumption DEF IInv, TypeOK, ReadClock
  <1> USE <1>n
  <1>1. TypeOK'
    BY DEF IInv, TypeOK, ReadClock
  <1>2. MutexInv'
    BY DEF IInv, TypeOK, MutexInv, ReadClock
  <1>3. LocalsInv'
    BY DEF IInv, TypeOK, LocalsInv, ReadClock
  <1>4. SuffixInv' /\ SpreadInv' /\ DroppedInv' /\ CapInv' /\ PromiseInv'
    BY DEF IInv, SuffixInv, SpreadInv, DroppedInv, CapInv, PromiseInv, Dropped, ReadClock
  <1> QED
    BY <1>1, <1>2, <1>3, <1>4 DEF IInv

\* Eviction forgets only clients whose every hit is out of the window: the
\* newest is two windows old, and none is newer than that by more than the stall.
LEMMA EnterIInv ==
    ASSUME IInv, NEW t \in Threads, Enter(t)
    PROVE  IInv'
  <1> USE Numbers
  <1>n. limit \in Nat /\ limit' = limit
    BY RateLimiterAssumption DEF IInv, TypeOK, Enter
  <1> USE <1>n
  <1>1. TypeOK'
    <2>1. key[t] \in Keys
      BY DEF IInv, LocalsInv, Enter
    <2>2. seen' \in [Keys -> Seq(Nat)]
      BY DEF IInv, TypeOK, Enter
    <2>3. \A k \in Keys \ tracked' : seen'[k] = <<>>
      BY DEF IInv, TypeOK, Enter, Stale
    <2> QED
      BY <2>1, <2>2, <2>3 DEF IInv, TypeOK, Enter
  <1>2. MutexInv'
    BY DEF IInv, TypeOK, MutexInv, Enter
  <1>3. LocalsInv'
    BY DEF IInv, TypeOK, MutexInv, LocalsInv, Enter
  <1>4. \A k \in Keys : seen'[k] = seen[k] \/ (seen'[k] = <<>> /\ k \in Stale(read[t]))
    BY DEF IInv, TypeOK, Enter
  <1>5. admitted' = admitted /\ now' = now /\ promise' = promise
    BY DEF Enter
  <1>6. SpreadInv' /\ CapInv'
    BY <1>5 DEF IInv, SpreadInv, CapInv
  <1>7. \A k \in Keys : Len(seen'[k]) = Len(seen[k]) \/ Len(seen'[k]) = 0
    BY <1>4
  <1>8. SuffixInv' /\ PromiseInv'
    <2>1. SuffixInv'
      <3> SUFFICES ASSUME NEW k \in Keys
                   PROVE  /\ Len(seen'[k]) <= Len(admitted'[k])
                          /\ Len(seen'[k]) <= limit
                          /\ \A i \in 1 .. Len(seen'[k]) :
                                seen'[k][i] = admitted'[k][Dropped(k)' + i]
        BY DEF SuffixInv
      <3>1. CASE seen'[k] = seen[k]
        BY <1>5, <3>1 DEF IInv, SuffixInv, Dropped
      <3>2. CASE seen'[k] = <<>>
        <4>1. Len(admitted[k]) \in Nat
          BY DEF IInv, TypeOK
        <4> QED
          BY <1>5, <3>2, <4>1
      <3> QED
        BY <1>4, <3>1, <3>2
    <2>2. PromiseInv'
      BY <1>4, <1>5 DEF IInv, PromiseInv
    <2> QED
      BY <2>1, <2>2
  <1>9. DroppedInv'
    <2> SUFFICES ASSUME NEW k \in Keys, NEW i \in 1 .. Dropped(k)'
                 PROVE  admitted[k][i] + Window <= now
      BY <1>5 DEF DroppedInv
    <2>0. admitted[k] \in Seq(Nat) /\ seen[k] \in Seq(Nat) /\ now \in Nat /\ read[t] \in Nat
      BY DEF IInv, TypeOK
    <2>1. CASE seen'[k] = seen[k]
      BY <1>5, <2>1 DEF IInv, DroppedInv, Dropped
    <2>2. CASE seen[k] = <<>>
      BY <1>4, <1>5, <2>2 DEF IInv, DroppedInv, Dropped
    <2>3. CASE seen[k] # <<>> /\ seen'[k] = <<>> /\ k \in Stale(read[t])
      <3> DEFINE n == Len(admitted[k])
      <3>1. i \in 1 .. n
        BY <1>5, <2>0, <2>3 DEF Dropped
      <3>2. Len(seen[k]) \in 1 .. n
        BY <2>0, <2>3 DEF IInv, SuffixInv
      <3>3. Last(seen[k]) = admitted[k][n]
        <4>1. seen[k][Len(seen[k])] = admitted[k][Dropped(k) + Len(seen[k])]
          <5>1. \A m \in 1 .. Len(seen[k]) : seen[k][m] = admitted[k][Dropped(k) + m]
            BY DEF IInv, SuffixInv
          <5>2. Len(seen[k]) \in 1 .. Len(seen[k])
            BY <3>2
          <5> QED
            BY <5>1, <5>2
        <4>2. Dropped(k) + Len(seen[k]) = n
          BY <2>0 DEF Dropped
        <4> QED
          BY <4>1, <4>2 DEF Last
      <3>4. admitted[k][i] <= admitted[k][n] + MaxStall
        <4>1. CASE i = n
          BY <2>0, <3>1, <4>1
        <4>2. CASE i < n
          BY <2>0, <3>1, <4>2 DEF IInv, SpreadInv
        <4> QED
          BY <2>0, <3>1, <4>1, <4>2
      <3>5. read[t] - admitted[k][n] > 2 * Window
        BY <2>3, <3>3 DEF Stale, IdleEvictionFactor
      <3>6. read[t] <= now
        BY DEF IInv, LocalsInv, Enter
      <3>7. PICK x \in Nat, y \in Nat : x = admitted[k][i] /\ y = admitted[k][n]
        BY <2>0, <3>1
      <3>8. x <= y + MaxStall /\ read[t] - y > 2 * Window
        BY <3>4, <3>5, <3>7
      <3>9. x + Window <= now
        BY <2>0, <3>6, <3>8
      <3> QED
        BY <3>7, <3>9
    <2> QED
      BY <1>4, <2>1, <2>2, <2>3
  <1> QED
    BY <1>1, <1>2, <1>3, <1>6, <1>8, <1>9 DEF IInv

\* A popped hit is a window older than a reading that is itself in the past.
LEMMA PopExpiredIInv ==
    ASSUME IInv, NEW t \in Threads, PopExpired(t)
    PROVE  IInv'
  <1> USE Numbers
  <1>n. limit \in Nat /\ limit' = limit
    BY RateLimiterAssumption DEF IInv, TypeOK, PopExpired
  <1> USE <1>n
  <1>0. PICK c \in Keys : c = key[t]
    BY DEF IInv, LocalsInv, PopExpired
  <1>1. PICK hits \in Seq(Nat) : hits = seen[c]
    BY DEF IInv, TypeOK
  <1>2. PICK adm \in Seq(Nat) : adm = admitted[c]
    BY DEF IInv, TypeOK
  <1>3. PICK rest \in Seq(Nat) :
            /\ rest = Tail(hits)
            /\ Len(hits) \in Nat \ {0}
            /\ Len(rest) = Len(hits) - 1
            /\ \A i \in 1 .. Len(rest) : rest[i] = hits[i + 1]
    <2>1. hits # <<>>
      BY <1>0, <1>1 DEF PopExpired
    <2>2. /\ Tail(hits) \in Seq(Nat) /\ Len(Tail(hits)) = Len(hits) - 1
          /\ \A i \in 1 .. Len(Tail(hits)) : Tail(hits)[i] = hits[i + 1]
      BY <2>1, HeadTailProperties
    <2>3. Len(hits) \in Nat \ {0}
      BY <2>1, EmptySeq
    <2> QED
      BY <2>2, <2>3
  <1>4. UNCHANGED <<limit, now, lock, pc, key, read, tracked, admitted, promise>>
    BY DEF PopExpired
  <1>5. seen'[c] = rest /\ \A k \in Keys \ {c} : seen'[k] = seen[k]
    BY <1>0, <1>1, <1>3 DEF IInv, TypeOK, PopExpired
  <1>6. PICK d \in Nat : d = Len(adm) - Len(hits) /\ d = Dropped(c)
    <2>1. Len(hits) <= Len(adm)
      BY <1>1, <1>2 DEF IInv, SuffixInv
    <2>2. Len(adm) - Len(hits) \in Nat
      BY <2>1, LenProperties
    <2> QED
      BY <1>1, <1>2, <2>2 DEF Dropped
  <1>7. Len(adm) - Len(rest) = d + 1
    BY <1>3, <1>6, LenProperties
  <1>8. admitted'[c] = adm /\ seen'[c] = rest
    BY <1>2, <1>4, <1>5
  <1>9. TypeOK'
    <2>1. c \in tracked
      BY <1>0 DEF IInv, LocalsInv, PopExpired
    <2>2. seen' \in [Keys -> Seq(Nat)]
      BY <1>0, <1>1, <1>3 DEF IInv, TypeOK, PopExpired
    <2> QED
      BY <1>4, <1>5, <2>1, <2>2 DEF IInv, TypeOK
  <1>10. MutexInv' /\ LocalsInv' /\ SpreadInv' /\ CapInv'
    BY <1>4 DEF IInv, MutexInv, LocalsInv, SpreadInv, CapInv
  <1>11. /\ Len(hits) <= limit
         /\ Len(hits) <= Len(adm)
         /\ \A i \in 1 .. Len(hits) : hits[i] = adm[d + i]
    BY <1>1, <1>2, <1>6 DEF IInv, SuffixInv, Dropped
  <1>12. Dropped(c)' = d + 1 /\ \A k \in Keys \ {c} : Dropped(k)' = Dropped(k)
    BY <1>4, <1>5, <1>7, <1>8 DEF Dropped
  <1>13. SuffixInv'
    <2>1. \A i \in 1 .. Len(rest) : rest[i] = adm[(d + 1) + i]
      <3> TAKE i \in 1 .. Len(rest)
      <3>1. i + 1 \in 1 .. Len(hits) /\ d + (i + 1) = (d + 1) + i
        BY <1>3
      <3> QED
        BY <1>3, <1>11, <3>1
    <2>2. /\ Len(seen'[c]) <= Len(admitted'[c])
          /\ Len(seen'[c]) <= limit
          /\ \A i \in 1 .. Len(seen'[c]) : seen'[c][i] = admitted'[c][Dropped(c)' + i]
      BY <1>3, <1>8, <1>11, <1>12, <2>1, LenProperties
    <2>3. ASSUME NEW k \in Keys \ {c}
          PROVE  /\ Len(seen'[k]) <= Len(admitted'[k])
                 /\ Len(seen'[k]) <= limit
                 /\ \A i \in 1 .. Len(seen'[k]) : seen'[k][i] = admitted'[k][Dropped(k)' + i]
      BY <1>4, <1>5, <1>12 DEF IInv, SuffixInv
    <2> QED
      BY <2>2, <2>3 DEF SuffixInv
  <1>14. DroppedInv'
    <2>1. adm[d + 1] + Window <= now
      <3>1. Head(hits) = hits[1] /\ hits[1] = adm[d + 1] /\ hits[1] \in Nat
        BY <1>3, <1>11
      <3>2. read[t] - Head(hits) >= Window /\ read[t] <= now
        BY <1>0, <1>1 DEF IInv, LocalsInv, PopExpired, Expired
      <3>3. read[t] \in Nat /\ now \in Nat
        BY DEF IInv, TypeOK
      <3> QED
        BY <3>1, <3>2, <3>3
    <2>2. \A i \in 1 .. d : adm[i] + Window <= now
      BY <1>2, <1>6 DEF IInv, DroppedInv
    <2>3. \A i \in 1 .. Dropped(c)' : admitted'[c][i] + Window <= now'
      BY <1>4, <1>8, <1>12, <2>1, <2>2
    <2>4. \A k \in Keys \ {c} : \A i \in 1 .. Dropped(k)' : admitted'[k][i] + Window <= now'
      BY <1>4, <1>12 DEF IInv, DroppedInv
    <2> QED
      BY <2>3, <2>4 DEF DroppedInv
  <1>15. PromiseInv'
    <2> SUFFICES ASSUME NEW k \in Keys, promise[k] # 0
                 PROVE  /\ limit > 0
                        /\ Len(seen'[k]) = limit => seen'[k][1] + Window = promise[k]
      BY <1>4 DEF PromiseInv
    <2>1. CASE k = c
      BY <1>3, <1>5, <1>11, <2>1 DEF IInv, PromiseInv
    <2>2. CASE k # c
      BY <1>5, <2>2 DEF IInv, PromiseInv
    <2> QED
      BY <2>1, <2>2
  <1> QED
    BY <1>9, <1>10, <1>13, <1>14, <1>15 DEF IInv

\* The step the cap is about: there is room for a new hit only when the hit
\* limit places back has been dropped, so it is a window older than the clock,
\* and the reading is at most MaxStall behind the clock.
LEMMA AdmitIInv ==
    ASSUME IInv, NEW t \in Threads, Admit(t)
    PROVE  IInv'
  <1> USE Numbers
  <1>n. limit \in Nat /\ limit' = limit
    BY RateLimiterAssumption DEF IInv, TypeOK, Admit
  <1> USE <1>n
  <1>0. PICK c \in Keys : c = key[t]
    BY DEF IInv, LocalsInv, Admit, Scanned
  <1>1. PICK hits \in Seq(Nat) : hits = seen[c]
    BY DEF IInv, TypeOK
  <1>2. PICK adm \in Seq(Nat) : adm = admitted[c]
    BY DEF IInv, TypeOK
  <1>3. PICK r \in Nat : r = read[t] /\ r <= now /\ now <= r + MaxStall
    <2>1. read[t] \in Nat
      BY DEF IInv, TypeOK
    <2>2. pc[t] # "idle"
      BY DEF Admit, Scanned
    <2>3. read[t] <= now /\ now <= read[t] + MaxStall
      BY <2>2 DEF IInv, LocalsInv
    <2> QED
      BY <2>1, <2>3
  <1>4. /\ now' = now /\ now \in Nat /\ tracked' = tracked /\ lock' = NoThread
        /\ promise' = [promise EXCEPT ![c] = 0]
        /\ pc' = [pc EXCEPT ![t] = "idle"]
        /\ key' = [key EXCEPT ![t] = NoKey] /\ read' = [read EXCEPT ![t] = 0]
    BY <1>0 DEF IInv, TypeOK, Admit, Leave
  <1>5. PICK new \in Seq(Nat) :
            /\ new = Append(hits, r)
            /\ Len(new) = Len(hits) + 1
            /\ \A i \in 1 .. Len(hits) : new[i] = hits[i]
            /\ new[Len(hits) + 1] = r
    BY AppendProperties
  <1>6. PICK adm2 \in Seq(Nat) :
            /\ adm2 = Append(adm, r)
            /\ Len(adm2) = Len(adm) + 1
            /\ \A i \in 1 .. Len(adm) : adm2[i] = adm[i]
            /\ adm2[Len(adm) + 1] = r
    BY AppendProperties
  <1>7. /\ seen'[c] = new /\ admitted'[c] = adm2
        /\ \A k \in Keys \ {c} : seen'[k] = seen[k] /\ admitted'[k] = admitted[k]
        /\ seen' \in [Keys -> Seq(Nat)] /\ admitted' \in [Keys -> Seq(Nat)]
    BY <1>0, <1>1, <1>2, <1>3, <1>5, <1>6 DEF IInv, TypeOK, Admit
  <1>8. Len(hits) \in Nat /\ Len(adm) \in Nat
    BY LenProperties
  <1>9. Len(hits) < limit
    BY <1>0, <1>1, <1>8 DEF Admit, Full
  <1>10. PICK d \in Nat : d = Len(adm) - Len(hits) /\ d = Dropped(c)
    <2>1. Len(hits) <= Len(adm)
      BY <1>1, <1>2 DEF IInv, SuffixInv
    <2>2. Len(adm) - Len(hits) \in Nat
      BY <1>8, <2>1
    <2> QED
      BY <1>1, <1>2, <2>2 DEF Dropped
  <1>11. Dropped(c)' = d /\ \A k \in Keys \ {c} : Dropped(k)' = Dropped(k)
    <2>1. Len(adm2) - Len(new) = d
      BY <1>5, <1>6, <1>10, <1>8
    <2> QED
      BY <1>7, <2>1 DEF Dropped
  <1>12. TypeOK'
    <2>1. c \in tracked /\ \A k \in Keys \ tracked : seen[k] = <<>>
      BY <1>0 DEF IInv, TypeOK, LocalsInv, Admit, Scanned
    <2>2. \A k \in Keys \ tracked' : seen'[k] = <<>>
      BY <1>4, <1>7, <2>1
    <2>3. /\ now' \in 0 .. MaxTime /\ tracked' \in SUBSET Keys
          /\ lock' \in Threads \cup {NoThread}
      BY <1>4 DEF IInv, TypeOK
    <2>4. /\ pc' \in [Threads -> {"idle", "waiting", "scanning"}]
          /\ key' \in [Threads -> Keys \cup {NoKey}]
          /\ read' \in [Threads -> 0 .. MaxTime]
          /\ promise' \in [Keys -> Nat]
      BY <1>4 DEF IInv, TypeOK
    <2>5. limit' \in Limits
      BY <1>n DEF IInv, TypeOK
    <2> QED
      BY <1>7, <2>2, <2>3, <2>4, <2>5 DEF TypeOK
  <1>13. MutexInv' /\ LocalsInv'
    <2>1. lock = t
      BY DEF IInv, MutexInv, Admit, Scanned
    <2>2. MutexInv'
      BY <1>4, <2>1 DEF IInv, TypeOK, MutexInv
    <2>3. LocalsInv'
      BY <1>4 DEF IInv, TypeOK, LocalsInv
    <2> QED
      BY <2>2, <2>3
  <1>14. SuffixInv'
    <2>1. \A i \in 1 .. Len(hits) : hits[i] = adm[d + i]
      BY <1>1, <1>2, <1>10 DEF IInv, SuffixInv
    <2>2. \A i \in 1 .. Len(new) : new[i] = adm2[d + i]
      <3> TAKE i \in 1 .. Len(new)
      <3>1. CASE i \in 1 .. Len(hits)
        <4>1. d + i \in 1 .. Len(adm)
          BY <1>10, <3>1, <1>8
        <4> QED
          BY <1>5, <1>6, <2>1, <3>1, <4>1
      <3>2. CASE i = Len(hits) + 1
        <4>1. d + i = Len(adm) + 1
          BY <1>10, <3>2, <1>8
        <4> QED
          BY <1>5, <1>6, <3>2, <4>1
      <3> QED
        BY <1>5, <3>1, <3>2, <1>8
    <2>3. /\ Len(seen'[c]) <= Len(admitted'[c])
          /\ Len(seen'[c]) <= limit
          /\ \A i \in 1 .. Len(seen'[c]) : seen'[c][i] = admitted'[c][Dropped(c)' + i]
      <3>1. Len(new) <= Len(adm2) /\ Len(new) <= limit
        BY <1>5, <1>6, <1>9, <1>10, <1>8
      <3>2. seen'[c] = new /\ admitted'[c] = adm2 /\ Dropped(c)' = d
        BY <1>7, <1>11
      <3> QED
        BY <2>2, <3>1, <3>2
    <2>4. ASSUME NEW k \in Keys \ {c}
          PROVE  /\ Len(seen'[k]) <= Len(admitted'[k])
                 /\ Len(seen'[k]) <= limit
                 /\ \A i \in 1 .. Len(seen'[k]) : seen'[k][i] = admitted'[k][Dropped(k)' + i]
      <3>1. seen'[k] = seen[k] /\ admitted'[k] = admitted[k] /\ Dropped(k)' = Dropped(k)
        BY <1>7, <1>11
      <3>2. /\ Len(seen[k]) <= Len(admitted[k])
            /\ Len(seen[k]) <= limit
            /\ \A i \in 1 .. Len(seen[k]) : seen[k][i] = admitted[k][Dropped(k) + i]
        BY DEF IInv, SuffixInv
      <3> QED
        BY <3>1, <3>2
    <2> QED
      BY <2>3, <2>4 DEF SuffixInv
  <1>15. \A i \in 1 .. Len(adm2) : i # Len(adm) + 1 => i \in 1 .. Len(adm)
    BY <1>6, <1>8
  <1>16. \A i \in 1 .. Len(adm) : adm[i] \in Nat /\ adm[i] <= now
    BY <1>2 DEF IInv, SpreadInv
  <1>17. SpreadInv'
    <2>1. \A i \in 1 .. Len(adm2) : adm2[i] <= now
      BY <1>3, <1>6, <1>16, <1>8
    <2>2. \A i, j \in 1 .. Len(adm2) : i < j => adm2[i] <= adm2[j] + MaxStall
      <3> SUFFICES ASSUME NEW i \in 1 .. Len(adm2), NEW j \in 1 .. Len(adm2), i < j
                   PROVE  adm2[i] <= adm2[j] + MaxStall
        OBVIOUS
      <3>1. CASE j = Len(adm) + 1
        <4>1. i \in 1 .. Len(adm)
          BY <1>6, <3>1, <1>8
        <4> QED
          BY <1>3, <1>4, <1>6, <1>16, <3>1, <4>1
      <3>2. CASE j # Len(adm) + 1
        <4>1. i \in 1 .. Len(adm) /\ j \in 1 .. Len(adm)
          <5>1. i # Len(adm) + 1
            BY <1>6, <1>8, <3>2
          <5> QED
            BY <1>15, <3>2, <5>1
        <4>2. adm[i] <= adm[j] + MaxStall
          BY <1>2, <4>1 DEF IInv, SpreadInv
        <4> QED
          BY <1>6, <4>1, <4>2
      <3> QED
        BY <3>1, <3>2
    <2> QED
      BY <1>4, <1>7, <2>1, <2>2 DEF IInv, SpreadInv
  <1>18. \A i \in 1 .. d : i \in 1 .. Len(adm) /\ adm[i] + Window <= now
    <2>1. \A i \in 1 .. d : i \in 1 .. Len(adm)
      BY <1>10, <1>8
    <2>2. \A i \in 1 .. d : adm[i] + Window <= now
      BY <1>2, <1>10 DEF IInv, DroppedInv
    <2> QED
      BY <2>1, <2>2
  <1>19. DroppedInv'
    <2>1. \A i \in 1 .. Dropped(c)' : admitted'[c][i] + Window <= now'
      BY <1>4, <1>6, <1>7, <1>11, <1>18
    <2>2. \A k \in Keys \ {c} : \A i \in 1 .. Dropped(k)' : admitted'[k][i] + Window <= now'
      BY <1>4, <1>7, <1>11 DEF IInv, DroppedInv
    <2> QED
      BY <2>1, <2>2 DEF DroppedInv
  <1>20. CapInv'
    <2>1. \A i, j \in 1 .. Len(adm2) : j - i = limit => adm2[j] - adm2[i] >= Window - MaxStall
      <3> SUFFICES ASSUME NEW i \in 1 .. Len(adm2), NEW j \in 1 .. Len(adm2), j - i = limit
                   PROVE  adm2[j] - adm2[i] >= Window - MaxStall
        OBVIOUS
      <3>0. limit > 0
        BY <1>9, <1>8
      <3>1. CASE j = Len(adm) + 1
        <4>1. i \in 1 .. d
          BY <1>9, <1>10, <3>1, <1>8
        <4>2. adm[i] + Window <= now /\ adm2[i] = adm[i] /\ adm[i] \in Nat
          BY <1>6, <1>16, <1>18, <4>1
        <4>3. adm2[j] = r
          BY <1>6, <3>1
        <4>4. now \in Nat /\ now <= r + MaxStall
          BY <1>3, <1>4
        <4>5. r - adm[i] >= Window - MaxStall
          <5>1. PICK a \in Nat : a = adm[i] /\ a + Window <= now
            BY <4>2
          <5>2. PICK n \in Nat : n = now /\ n <= r + MaxStall
            BY <4>4
          <5>3. r - a >= Window - MaxStall
            <6>1. Window \in Nat /\ MaxStall \in Nat
              OBVIOUS
            <6> QED
              BY <5>1, <5>2, <6>1, Apart
          <5> QED
            BY <5>1, <5>3
        <4> QED
          BY <4>2, <4>3, <4>5
      <3>2. CASE j # Len(adm) + 1
        <4>1. i \in 1 .. Len(adm) /\ j \in 1 .. Len(adm)
          <5>1. i # Len(adm) + 1
            BY <1>6, <1>8, <3>0, <3>2
          <5> QED
            BY <1>15, <3>2, <5>1
        <4>2. adm[j] - adm[i] >= Window - MaxStall
          BY <1>2, <4>1 DEF IInv, CapInv
        <4>3. adm2[i] = adm[i] /\ adm2[j] = adm[j]
          BY <1>6, <4>1
        <4> QED
          BY <4>2, <4>3
      <3> QED
        BY <3>1, <3>2
    <2> QED
      BY <1>7, <2>1 DEF IInv, CapInv
  <1>21. PromiseInv'
    BY <1>4, <1>7 DEF IInv, TypeOK, PromiseInv
  <1> QED
    BY <1>12, <1>13, <1>14, <1>17, <1>19, <1>20, <1>21 DEF IInv

\* A refusal records nothing; what it promises is when the oldest hit leaves.
LEMMA RefuseIInv ==
    ASSUME IInv, NEW t \in Threads, Refuse(t) \/ RaiseIndexError(t)
    PROVE  IInv'
  <1> USE Numbers
  <1>n. limit \in Nat /\ limit' = limit
    BY RateLimiterAssumption DEF IInv, TypeOK, Refuse, RaiseIndexError
  <1> USE <1>n
  <1>0. PICK c \in Keys : c = key[t]
    BY DEF IInv, LocalsInv, Refuse, RaiseIndexError, Scanned
  <1>1. /\ UNCHANGED <<limit, now, tracked, seen, admitted>> /\ lock' = NoThread
        /\ pc' = [pc EXCEPT ![t] = "idle"]
        /\ key' = [key EXCEPT ![t] = NoKey] /\ read' = [read EXCEPT ![t] = 0]
    BY DEF Refuse, RaiseIndexError, Leave
  <1>2. lock = t
    BY DEF IInv, MutexInv, Refuse, RaiseIndexError, Scanned
  <1>3. MutexInv' /\ LocalsInv'
    BY <1>1, <1>2 DEF IInv, TypeOK, MutexInv, LocalsInv
  <1>4. SuffixInv' /\ SpreadInv' /\ DroppedInv' /\ CapInv'
    BY <1>1 DEF IInv, SuffixInv, SpreadInv, DroppedInv, CapInv, Dropped
  <1>5. CASE RaiseIndexError(t)
    <2>1. TypeOK' /\ PromiseInv'
      BY <1>1, <1>5 DEF IInv, TypeOK, PromiseInv, RaiseIndexError
    <2> QED
      BY <1>3, <1>4, <2>1 DEF IInv
  <1>6. CASE Refuse(t)
    <2>1. PICK hits \in Seq(Nat) : hits = seen[c] /\ hits # <<>> /\ Len(hits) \in Nat \ {0}
      <3>1. seen[c] \in Seq(Nat) /\ seen[c] # <<>>
        BY <1>0, <1>6 DEF IInv, TypeOK, Refuse
      <3> QED
        BY <3>1, EmptySeq
    <2>2. Head(hits) = hits[1] /\ hits[1] \in Nat /\ read[t] \in Nat
      BY <2>1 DEF IInv, TypeOK
    <2>3. read[t] + RetryAfter(hits, read[t]) = hits[1] + Window
      BY <2>2 DEF RetryAfter
    <2>4. promise' = [promise EXCEPT ![c] = hits[1] + Window]
      BY <1>0, <1>6, <2>1, <2>3 DEF Refuse
    <2>5. limit > 0
      BY <2>1 DEF IInv, SuffixInv
    <2>6. TypeOK'
      <3>1. promise' \in [Keys -> Nat]
        <4>1. hits[1] + Window \in Nat
          BY <2>2
        <4> QED
          BY <2>4, <4>1 DEF IInv, TypeOK
      <3> QED
        BY <1>1, <1>n, <3>1 DEF IInv, TypeOK
    <2>7. PromiseInv'
      BY <1>1, <2>1, <2>4, <2>5 DEF IInv, TypeOK, PromiseInv
    <2> QED
      BY <1>3, <1>4, <2>6, <2>7 DEF IInv
  <1> QED
    BY <1>5, <1>6

-----------------------------------------------------------------------------
LEMMA NextIInv == IInv /\ [Next]_vars => IInv'
  <1> SUFFICES ASSUME IInv, [Next]_vars PROVE IInv'
    OBVIOUS
  <1>1. CASE Tick
    BY <1>1, TickIInv
  <1>2. ASSUME NEW t \in Threads, NEW k \in Keys, ReadClock(t, k) PROVE IInv'
    BY <1>2, ReadClockIInv
  <1>3. ASSUME NEW t \in Threads, Check(t) PROVE IInv'
    BY <1>3, EnterIInv, PopExpiredIInv, AdmitIInv, RefuseIInv DEF Check
  <1>4. CASE UNCHANGED vars
    BY <1>4 DEF vars, IInv, TypeOK, MutexInv, LocalsInv, SuffixInv, SpreadInv,
                DroppedInv, CapInv, PromiseInv, Dropped
  <1> QED
    BY <1>1, <1>2, <1>3, <1>4 DEF Next

\* The invariant the theorems below rest on holds in every reachable state.
THEOREM Invariance == Spec => []IInv
  <1> QED
    BY InitIInv, NextIInv, PTL DEF Spec

\* The state of the limiter is well formed: in particular a client the dict
\* does not hold has no hits (api/ratelimit.py, _evict and setdefault).
THEOREM TypeCorrect == Spec => []TypeOK
  <1>1. IInv => TypeOK
    BY DEF IInv
  <1> QED
    BY Invariance, <1>1, PTL

\* However many threads check however many clients, any limit + 1 requests
\* let through in succession span a window, less the longest stall.
THEOREM CapCorrect == Spec => []CapHolds
  <1>1. IInv => CapHolds
    <2> SUFFICES ASSUME IInv, NEW k \in Keys,
                        NEW i \in DOMAIN admitted[k], NEW j \in DOMAIN admitted[k],
                        j - i = limit
                 PROVE  admitted[k][j] - admitted[k][i] >= Window - MaxStall
      BY DEF CapHolds
    <2>1. DOMAIN admitted[k] = 1 .. Len(admitted[k])
      BY LenProperties DEF IInv, TypeOK
    <2> QED
      BY <2>1 DEF IInv, CapInv
  <1> QED
    BY Invariance, <1>1, PTL

\* A client that waits as Retry-After told it to is not refused again unless
\* another request of its own was let through meanwhile.
THEOREM PromiseCorrect == Spec => PromiseKept
  <1>1. ASSUME IInv, [Next]_vars, NEW t \in Threads,
               pc[t] = "scanning", pc'[t] = "idle", promise[key[t]] # 0
        PROVE  admitted' # admitted \/ read[t] < promise[key[t]]
    <2> USE Numbers
    <2>n. limit \in Nat
      BY <1>1, RateLimiterAssumption DEF IInv, TypeOK
    <2> USE <2>n
    <2>0. PICK c \in Keys : c = key[t]
      BY <1>1 DEF IInv, LocalsInv
    <2>1. PICK hits \in Seq(Nat) : hits = seen[c] /\ Len(hits) <= limit
      BY <1>1 DEF IInv, TypeOK, SuffixInv
    <2>2. Admit(t) \/ Refuse(t) \/ RaiseIndexError(t)
      BY <1>1 DEF Next, vars, Tick, ReadClock, Check, Enter, PopExpired, Admit, Refuse,
                  RaiseIndexError, Leave, IInv, TypeOK
    <2>3. CASE Admit(t)
      <3>1. admitted[c] \in Seq(Nat) /\ read[t] \in Nat
        BY <1>1 DEF IInv, TypeOK
      <3>2. Len(Append(admitted[c], read[t])) = Len(admitted[c]) + 1 /\ Len(admitted[c]) \in Nat
        BY <3>1, AppendProperties
      <3>3. admitted'[c] = Append(admitted[c], read[t])
        BY <1>1, <2>0, <2>3 DEF Admit, IInv, TypeOK
      <3> QED
        BY <3>2, <3>3
    <2>4. CASE RaiseIndexError(t)
      <3>1. limit = 0
        BY <2>0, <2>1, <2>4, EmptySeq DEF RaiseIndexError, Full
      <3> QED
        BY <1>1, <2>0, <3>1 DEF IInv, PromiseInv
    <2>5. CASE Refuse(t)
      <3>1. hits # <<>> /\ Len(hits) = limit /\ Len(hits) \in Nat \ {0}
        BY <2>0, <2>1, <2>5, EmptySeq DEF Refuse, Full
      <3>2. Head(hits) = hits[1] /\ hits[1] \in Nat /\ read[t] \in Nat
        BY <1>1, <3>1 DEF IInv, TypeOK
      <3>3. read[t] - Head(hits) < Window
        BY <2>0, <2>1, <2>5, <3>1, <3>2 DEF Refuse, Scanned, Expired
      <3>4. hits[1] + Window = promise[c]
        BY <1>1, <2>0, <2>1, <3>1 DEF IInv, PromiseInv
      <3> QED
        BY <2>0, <3>2, <3>3, <3>4
    <2> QED
      BY <2>2, <2>3, <2>4, <2>5
  <1>2. IInv /\ [Next]_vars =>
          [\A t \in Threads :
              pc[t] = "scanning" /\ pc'[t] = "idle" /\ promise[key[t]] # 0
                 => admitted' # admitted \/ read[t] < promise[key[t]]]_vars
    BY <1>1
  <1> QED
    BY Invariance, <1>2, PTL DEF Spec, PromiseKept

\* The locals of the property, named so that the cases can cite them.
Justified(k, r) ==
    /\ Len(admitted[k]) >= limit
    /\ \A i \in Len(admitted[k]) - limit + 1 .. Len(admitted[k]) :
          r - admitted[k][i] < Window + MaxStall

\* A full deque whose oldest hit is in the window is a cause: the others were
\* recorded after it, and are older than it by a stall at most.
LEMMA FullIsACause ==
    ASSUME IInv, NEW c \in Keys, NEW r \in Nat, Len(seen[c]) = limit,
           limit # 0 => r - seen[c][1] < Window
    PROVE  Justified(c, r)
  <1> USE Numbers
  <1>1. limit \in Nat /\ Len(admitted[c]) \in Nat /\ Len(admitted[c]) >= limit
    BY RateLimiterAssumption DEF IInv, TypeOK, SuffixInv
  <1>2. Dropped(c) = Len(admitted[c]) - limit /\ Dropped(c) \in Nat
    BY <1>1 DEF Dropped
  <1>3. ASSUME NEW i \in Len(admitted[c]) - limit + 1 .. Len(admitted[c])
        PROVE  r - admitted[c][i] < Window + MaxStall
    <2>1. limit # 0 /\ Dropped(c) + 1 \in 1 .. Len(admitted[c]) /\ i \in 1 .. Len(admitted[c])
      BY <1>1, <1>2
    <2>2. seen[c][1] = admitted[c][Dropped(c) + 1]
      BY <1>1, <2>1 DEF IInv, SuffixInv
    <2>3. admitted[c][Dropped(c) + 1] \in Nat /\ admitted[c][i] \in Nat
      <3>1. admitted[c] \in Seq(Nat)
        BY DEF IInv, TypeOK
      <3> QED
        BY <2>1, <3>1, ElementOfSeq
    <2>4. admitted[c][Dropped(c) + 1] <= admitted[c][i] + MaxStall
      <3>1. CASE i = Dropped(c) + 1
        BY <2>3, <3>1
      <3>2. CASE Dropped(c) + 1 < i
        BY <2>1, <3>2 DEF IInv, SpreadInv
      <3> QED
        BY <1>1, <1>2, <3>1, <3>2
    <2>5. r - admitted[c][Dropped(c) + 1] < Window
      BY <2>1, <2>2
    <2> QED
      BY <2>3, <2>4, <2>5
  <1> QED
    BY <1>1, <1>3 DEF Justified

\* However checks overtake one another, a client is refused only for "limit"
\* requests of its own that are less than a window and a stall old.
THEOREM RefusedForCauseCorrect == Spec => RefusedForCause
  <1>1. ASSUME IInv, [Next]_vars, NEW t \in Threads,
               pc[t] = "scanning", pc'[t] = "idle", admitted' = admitted
        PROVE  Justified(key[t], read[t])
    <2> USE Numbers
    <2>0. PICK c \in Keys : c = key[t]
      BY <1>1 DEF IInv, LocalsInv
    <2>1. limit \in Nat /\ read[t] \in Nat /\ seen[c] \in Seq(Nat) /\ Len(seen[c]) <= limit
      BY <1>1, RateLimiterAssumption DEF IInv, TypeOK, SuffixInv
    <2>2. Admit(t) \/ Refuse(t) \/ RaiseIndexError(t)
      BY <1>1 DEF Next, vars, Tick, ReadClock, Check, Enter, PopExpired, Admit, Refuse,
                  RaiseIndexError, Leave, IInv, TypeOK
    <2>3. ~Admit(t)
      <3> SUFFICES ASSUME Admit(t) PROVE FALSE
        OBVIOUS
      <3>1. admitted[c] \in Seq(Nat)
        BY <1>1 DEF IInv, TypeOK
      <3>2. Len(Append(admitted[c], read[t])) = Len(admitted[c]) + 1 /\ Len(admitted[c]) \in Nat
        BY <2>1, <3>1, AppendProperties
      <3>3. admitted'[c] = Append(admitted[c], read[t])
        BY <1>1, <2>0 DEF Admit, IInv, TypeOK
      <3> QED
        BY <1>1, <3>2, <3>3
    <2>4. Scanned(t) /\ Full(seen[c])
      BY <2>0, <2>2, <2>3 DEF Refuse, RaiseIndexError
    <2>5. Len(seen[c]) = limit
      <3>1. Len(seen[c]) \in Nat
        BY <2>1, LenProperties
      <3> QED
        BY <2>1, <2>4, <3>1 DEF Full
    <2>6. ASSUME limit # 0 PROVE read[t] - seen[c][1] < Window
      <3>1. seen[c] # <<>> /\ Head(seen[c]) = seen[c][1]
        BY <2>1, <2>5, <2>6, EmptySeq
      <3>2. seen[c][1] \in Nat
        BY <2>1, <2>5, <2>6
      <3> QED
        BY <2>0, <2>1, <2>4, <3>1, <3>2 DEF Scanned, Expired
    <2> QED
      BY <1>1, <2>0, <2>1, <2>5, <2>6, FullIsACause
  <1>2. IInv /\ [Next]_vars =>
          [\A t \in Threads : LET hits == admitted[key[t]] IN
              pc[t] = "scanning" /\ pc'[t] = "idle" /\ admitted' = admitted
                 => /\ Len(hits) >= limit
                    /\ \A i \in Len(hits) - limit + 1 .. Len(hits) :
                          read[t] - hits[i] < Window + MaxStall]_vars
    BY <1>1 DEF Justified
  <1> QED
    BY Invariance, <1>2, PTL DEF Spec, RefusedForCause
=============================================================================
