--------------------------- MODULE WikiClientProofs --------------------------
(***************************************************************************)
(* For every interval, retry budget, caps, latencies and oversleep: the    *)
(* API client keeps its rate, honours Retry-After, fails only for cause    *)
(* and yields a listing once and in order.                                 *)
(***************************************************************************)
EXTENDS WikiClient, SequenceTheorems, TLAPS

\* How far a step may be into the loop, and what the responses so far were.
LoopInv ==
    /\ pc \in {"acquiring", "sent", "checking"} => Len(replies) = attempt
    /\ pc \in {"acquiring", "sent", "backingOff"} => attempt <= MaxRetries
    /\ pc = "backingOff" => Len(replies) = attempt + 1
    /\ pc = "gaveUp" => Len(replies) = MaxRetries + 1
    /\ pc \in {"acquiring", "sent", "backingOff", "checking", "gaveUp"} =>
           \A i \in 1..Len(replies) : replies[i] \in Retryable
    /\ \A i \in 1..Len(replies) - 1 : replies[i] \in Retryable
    /\ pc = "raised" => replies # <<>> /\ replies[Len(replies)] \in Permanent
    /\ pc = "done" => replies # <<>> /\ replies[Len(replies)] = "ok"

\* Retry-After is behind us, or the backoff about to start waits for it.
WaitInv ==
    /\ pc # "backingOff" => now >= notBefore
    /\ pc = "backingOff" =>
         /\ retryAfter # Unset => now + Smaller(retryAfter, AfterCap) >= notBefore
         /\ retryAfter = Unset => now >= notBefore

\* The next call is due a whole number of intervals after every one made.
DueInv ==
    /\ nextAllowed = Unset => calls = <<>>
    /\ nextAllowed # Unset => \A i \in 1..Len(calls) :
           nextAllowed + MaxOversleep >= calls[i] + (Len(calls) - i + 1) * Interval

IInv == TypeOK /\ LoopInv /\ WaitInv /\ DueInv /\ RateHolds /\ EachResponseOnce

LEMMA IInvInit == Init => IInv
BY WikiClientAssumption
DEF WikiClientAssumption, Init, IInv, TypeOK, LoopInv, WaitInv, DueInv, RateHolds, EachResponseOnce, Unset

LEMMA AppendTo ==
  ASSUME NEW S, NEW s \in Seq(S), NEW e \in S
  PROVE  /\ Append(s, e) \in Seq(S) /\ Append(s, e) # <<>>
         /\ Len(s) \in Nat /\ Len(Append(s, e)) = Len(s) + 1
         /\ \A i \in 1..Len(s) : Append(s, e)[i] = s[i]
         /\ Append(s, e)[Len(s) + 1] = e
BY AppendProperties, LenProperties

LEMMA OneMore ==
  ASSUME NEW k \in Nat, NEW d \in Nat
  PROVE  (k + 1) * d = k * d + d /\ k * d \in Nat
OBVIOUS

LEMMA Waits ==
  /\ TypeOK /\ attempt <= MaxRetries => Wait \in Nat
  /\ \A a \in Nat : Smaller(a, AfterCap) \in Nat
<1>1. \A a, b \in Nat : Smaller(a, b) \in Nat
  BY DEF Smaller
<1>2. AfterCap \in Nat /\ BackoffCap \in Nat /\ Exponential \in [0..MaxRetries -> Nat]
  BY WikiClientAssumption DEF WikiClientAssumption
<1>3. MaxRetries \in Nat
  BY WikiClientAssumption DEF WikiClientAssumption
<1>4. ASSUME TypeOK, attempt <= MaxRetries PROVE Exponential[attempt] \in Nat
  BY <1>2, <1>3, <1>4 DEF TypeOK
<1> QED
  BY <1>1, <1>2, <1>4 DEF Wait, TypeOK

LEMMA AcquireStep == IInv /\ Acquire => IInv'
<1> SUFFICES ASSUME IInv, Acquire PROVE IInv'
  OBVIOUS
<1>0. Interval \in Nat \ {0} /\ MaxOversleep \in Nat /\ MaxRetries \in Nat
  BY WikiClientAssumption DEF WikiClientAssumption
<1>1. /\ Due \in Nat /\ Due >= now /\ (nextAllowed # Unset => Due >= nextAllowed)
      /\ now \in Nat /\ nextAllowed \in Nat \cup {Unset} /\ calls \in Seq(Nat)
  BY DEF IInv, TypeOK, Due, Unset
<1>2. now' \in Nat /\ Due <= now' /\ now' <= Due + MaxOversleep /\ now <= now'
  BY <1>0, <1>1 DEF Acquire, Sleep
<1>3. nextAllowed' = Due + Interval /\ nextAllowed' \in Nat /\ nextAllowed' # Unset
  BY <1>0, <1>1 DEF Acquire, Unset
<1>4. /\ calls' \in Seq(Nat) /\ Len(calls) \in Nat /\ Len(calls') = Len(calls) + 1
      /\ \A i \in 1..Len(calls) : calls'[i] = calls[i] /\ calls[i] \in Nat
      /\ calls'[Len(calls) + 1] = now'
  BY <1>1, <1>2, AppendTo, ElementOfSeq DEF Acquire
<1>5. ASSUME NEW i \in 1..Len(calls)
      PROVE  Due + MaxOversleep >= calls[i] + (Len(calls) - i + 1) * Interval
  <2>1. nextAllowed # Unset
    BY <1>4, <1>5 DEF IInv, DueInv
  <2>2. nextAllowed + MaxOversleep >= calls[i] + (Len(calls) - i + 1) * Interval
    BY <2>1 DEF IInv, DueInv
  <2> DEFINE gap == (Len(calls) - i + 1) * Interval
  <2>3. gap \in Nat
    BY <1>0, <1>4
  <2>4. calls[i] \in Nat
    BY <1>4
  <2>5. nextAllowed + MaxOversleep >= calls[i] + gap
    BY <2>2
  <2> HIDE DEF gap
  <2>6. Due + MaxOversleep >= calls[i] + gap
    BY <1>0, <1>1, <2>1, <2>3, <2>4, <2>5
  <2> QED
    BY <2>6 DEF gap
<1>6. DueInv'
  <2>1. ASSUME NEW i \in 1..Len(calls')
        PROVE  nextAllowed' + MaxOversleep >= calls'[i] + (Len(calls') - i + 1) * Interval
    <3>1. CASE i = Len(calls) + 1
      <4>1. (Len(calls') - i + 1) * Interval = Interval
        BY <1>0, <1>4, <3>1
      <4> QED
        BY <1>0, <1>1, <1>2, <1>3, <1>4, <3>1, <4>1
    <3>2. CASE i \in 1..Len(calls)
      <4>1. PICK k \in Nat : k = Len(calls) - i + 1
        <5>1. Len(calls) - i + 1 \in Nat
          BY <1>4, <3>2
        <5> QED
          BY <5>1
      <4>2. Len(calls') - i + 1 = k + 1
        BY <1>4, <3>2, <4>1
      <4>3. Due + MaxOversleep >= calls[i] + k * Interval
        BY <1>5, <3>2, <4>1
      <4>4. (k + 1) * Interval = k * Interval + Interval /\ k * Interval \in Nat
        BY <1>0, OneMore
      <4> DEFINE gap == k * Interval
      <4>5. calls[i] \in Nat /\ calls'[i] = calls[i] /\ gap \in Nat
        BY <1>4, <3>2, <4>4
      <4> HIDE DEF gap
      <4>6. Due + Interval + MaxOversleep >= calls[i] + (gap + Interval)
        BY <1>0, <1>1, <4>3, <4>5 DEF gap
      <4> QED
        BY <1>3, <4>2, <4>4, <4>5, <4>6 DEF gap
    <3> QED
      BY <1>4, <3>1, <3>2
  <2> QED
    BY <1>3, <2>1 DEF DueInv
<1>7. RateHolds'
  <2>1. ASSUME NEW i \in 1..Len(calls'), NEW j \in 1..Len(calls'), i < j
        PROVE  calls'[j] + MaxOversleep >= calls'[i] + (j - i) * Interval
    <3>1. CASE j = Len(calls) + 1
      <4>1. i \in 1..Len(calls) /\ Len(calls) - i + 1 = j - i
        BY <1>4, <2>1, <3>1
      <4>2. Due + MaxOversleep >= calls[i] + (j - i) * Interval
        BY <1>5, <4>1
      <4> DEFINE gap == (j - i) * Interval
      <4>3. gap \in Int /\ calls[i] \in Nat /\ calls'[i] = calls[i] /\ calls'[j] = now'
        BY <1>0, <1>4, <3>1, <4>1
      <4>4. Due + MaxOversleep >= calls[i] + gap
        BY <4>2
      <4> HIDE DEF gap
      <4>5. now' + MaxOversleep >= calls[i] + gap
        BY <1>0, <1>1, <1>2, <4>3, <4>4
      <4> QED
        BY <4>3, <4>5 DEF gap
    <3>2. CASE j # Len(calls) + 1
      <4>1. i \in 1..Len(calls) /\ j \in 1..Len(calls)
        BY <1>4, <2>1, <3>2
      <4> QED
        BY <1>4, <2>1, <4>1 DEF IInv, RateHolds
    <3> QED
      BY <3>1, <3>2
  <2> QED
    BY <2>1 DEF RateHolds
<1>8. TypeOK'
  BY <1>2, <1>3, <1>4 DEF Acquire, IInv, TypeOK
<1>9. LoopInv' /\ WaitInv'
  BY <1>2 DEF Acquire, IInv, TypeOK, LoopInv, WaitInv
<1>10. EachResponseOnce'
  BY DEF Acquire, IInv, EachResponseOnce
<1> QED
  BY <1>6, <1>7, <1>8, <1>9, <1>10 DEF IInv

\* A response: time, Retry-After and the responses so far.
LEMMA Received ==
  ASSUME IInv, NEW kind \in Kinds, NEW after \in Nat \cup {Unset}, Receive(kind, after)
  PROVE  /\ now' \in Nat /\ notBefore' \in Nat
         /\ retryAfter' = after
         /\ after # Unset => now' + Smaller(after, AfterCap) >= notBefore'
         /\ after = Unset => now' >= notBefore'
         /\ replies' \in Seq(Kinds) /\ replies' # <<>>
         /\ Len(replies') = attempt + 1
         /\ \A i \in 1..attempt : replies'[i] \in Retryable
         /\ replies'[attempt + 1] = kind
         /\ attempt \in Nat /\ attempt <= MaxRetries
         /\ UNCHANGED <<nextAllowed, attempt, calls>>
<1>1. PICK d \in Latencies : now' = now + d
  BY DEF Receive
<1>2. d \in Nat /\ now \in Nat /\ now' \in Nat /\ now' >= now /\ notBefore \in Nat
  BY <1>1, WikiClientAssumption DEF WikiClientAssumption, IInv, TypeOK
<1>3. after # Unset => Smaller(after, AfterCap) \in Nat
  BY Waits DEF IInv
<1>4. now >= notBefore /\ pc = "sent"
  BY DEF Receive, IInv, WaitInv
<1>5. /\ Len(replies) = attempt /\ attempt \in Nat /\ attempt <= MaxRetries
      /\ replies \in Seq(Kinds)
      /\ \A i \in 1..Len(replies) : replies[i] \in Retryable
  BY <1>4, WikiClientAssumption DEF WikiClientAssumption, IInv, TypeOK, LoopInv
<1>6. /\ replies' \in Seq(Kinds) /\ replies' # <<>> /\ Len(replies') = Len(replies) + 1
      /\ \A i \in 1..Len(replies) : replies'[i] = replies[i]
      /\ replies'[Len(replies) + 1] = kind
  BY <1>5, AppendTo DEF Receive
<1>7. /\ notBefore' \in Nat /\ retryAfter' = after
      /\ after # Unset => now' + Smaller(after, AfterCap) >= notBefore'
      /\ after = Unset => now' >= notBefore'
  BY <1>2, <1>3, <1>4 DEF Receive
<1> QED
  BY <1>2, <1>5, <1>6, <1>7 DEF Receive

LEMMA RetryLaterStep == IInv /\ RetryLater => IInv'
<1> SUFFICES ASSUME IInv, RetryLater PROVE IInv'
  OBVIOUS
<1>1. PICK kind \in Retryable, after \in Nat \cup {Unset} : Receive(kind, after)
  BY WikiClientAssumption DEF WikiClientAssumption, RetryLater, Retryable
<1>2. pc' = "backingOff" /\ UNCHANGED <<page, yielded>> /\ pc = "sent"
  BY DEF RetryLater, Receive
<1>3. kind \in Kinds
  BY DEF Kinds
<1>4. TypeOK'
  BY <1>1, <1>2, <1>3, Received DEF IInv, TypeOK
<1>5. LoopInv' /\ WaitInv'
  BY <1>1, <1>2, <1>3, Received DEF LoopInv, WaitInv
<1>6. DueInv' /\ RateHolds' /\ EachResponseOnce'
  BY <1>1, <1>2, <1>3, Received DEF IInv, DueInv, RateHolds, EachResponseOnce
<1> QED
  BY <1>4, <1>5, <1>6 DEF IInv

\* What holds of the loop once a response has ended it.
LEMMA EndOfLoop ==
  ASSUME IInv, NEW kind \in Kinds, NEW after \in Nat \cup {Unset}, Receive(kind, after),
         \/ pc' = "raised" /\ kind \in Permanent
         \/ pc' \in {"done", "idle"} /\ kind = "ok"
  PROVE  LoopInv'
<1>1. /\ replies' # <<>> /\ Len(replies') = attempt + 1 /\ attempt \in Nat
      /\ \A i \in 1..attempt : replies'[i] \in Retryable
      /\ replies'[attempt + 1] = kind
  BY Received
<1>2. Len(replies') - 1 = attempt /\ replies'[Len(replies')] = kind
  BY <1>1
<1> QED
  BY <1>1, <1>2 DEF LoopInv

LEMMA RaiseStep == IInv /\ Raise => IInv'
<1> SUFFICES ASSUME IInv, Raise PROVE IInv'
  OBVIOUS
<1>1. PICK kind \in Permanent : Receive(kind, Unset)
  BY DEF Raise
<1>2. pc' = "raised" /\ UNCHANGED <<page, yielded>> /\ pc = "sent"
  BY <1>1 DEF Raise, Receive
<1>3. kind \in Kinds
  BY DEF Kinds
<1>4. TypeOK'
  BY <1>1, <1>2, <1>3, Received DEF IInv, TypeOK
<1>5. WaitInv'
  BY <1>1, <1>2, <1>3, Received DEF WaitInv
<1>7. LoopInv'
  BY <1>1, <1>2, <1>3, EndOfLoop DEF Permanent
<1>6. DueInv' /\ RateHolds' /\ EachResponseOnce'
  BY <1>1, <1>2, <1>3, Received DEF IInv, DueInv, RateHolds, EachResponseOnce
<1> QED
  BY <1>4, <1>5, <1>6, <1>7 DEF IInv

LEMMA SucceedStep == IInv /\ Succeed => IInv'
<1> SUFFICES ASSUME IInv, Succeed PROVE IInv'
  OBVIOUS
<1>1. Receive("ok", Unset) /\ "ok" \in Kinds /\ pc = "sent"
  BY DEF Succeed, Kinds, Receive
<1>2. /\ page \in 1..NumPages /\ yielded \in Seq(1..NumPages) /\ NumPages \in Nat
      /\ \A i \in 1..Len(yielded) : yielded[i] < page
      /\ \A i, j \in 1..Len(yielded) : i < j => yielded[i] < yielded[j]
  BY <1>1, WikiClientAssumption DEF WikiClientAssumption, IInv, TypeOK, EachResponseOnce
<1>3. /\ yielded' \in Seq(1..NumPages)
      /\ \A i, j \in 1..Len(yielded') : i < j => yielded'[i] < yielded'[j]
      /\ \A i \in 1..Len(yielded') : yielded'[i] <= page
  <2>1. CASE yielded' = yielded
    BY <1>2, <2>1, ElementOfSeq
  <2>2. CASE yielded' = Append(yielded, page)
    <3>0. Len(yielded) \in Nat /\ Len(yielded') = Len(yielded) + 1
      BY <1>2, <2>2, AppendTo
    <3>1. /\ yielded' \in Seq(1..NumPages) /\ Len(yielded) \in Nat /\ Len(yielded') = Len(yielded) + 1
          /\ \A i \in 1..Len(yielded) : yielded'[i] = yielded[i]
          /\ yielded'[Len(yielded) + 1] = page
      BY <1>2, <2>2, AppendTo
    <3>2. \A i \in 1..Len(yielded) : yielded[i] \in 1..NumPages
      BY <1>2, ElementOfSeq
    <3>3. ASSUME NEW i \in 1..Len(yielded')
          PROVE  IF i = Len(yielded) + 1 THEN yielded'[i] = page
                 ELSE i \in 1..Len(yielded) /\ yielded'[i] = yielded[i] /\ yielded[i] < page
      BY <1>2, <3>1
    <3>4. \A i \in 1..Len(yielded') : yielded'[i] <= page
      BY <1>2, <3>2, <3>3
    <3>5. ASSUME NEW i \in 1..Len(yielded'), NEW j \in 1..Len(yielded'), i < j
          PROVE  yielded'[i] < yielded'[j]
      <4>1. i # Len(yielded) + 1
        BY <3>0, <3>5
      <4> QED
        BY <1>2, <3>3, <3>5, <4>1
    <3> QED
      BY <3>1, <3>4, <3>5
  <2> QED
    BY <2>1, <2>2 DEF Succeed
<1>4. /\ page' \in 1..NumPages
      /\ \/ pc' = "done" /\ page' = page
         \/ pc' = "idle" /\ page' = page + 1
  BY <1>2 DEF Succeed, ContinueAt
<1>5. TypeOK'
  BY <1>1, <1>3, <1>4, Received DEF IInv, TypeOK
<1>6. LoopInv' /\ WaitInv'
  BY <1>1, <1>4, Received, EndOfLoop DEF WaitInv
<1>7. DueInv' /\ RateHolds'
  BY <1>1, Received DEF IInv, DueInv, RateHolds
<1>8. EachResponseOnce'
  <2>1. \A i \in 1..Len(yielded') : yielded'[i] \in 1..NumPages
    BY <1>3, ElementOfSeq
  <2> QED
    BY <1>2, <1>3, <1>4, <2>1 DEF EachResponseOnce
<1> QED
  BY <1>5, <1>6, <1>7, <1>8 DEF IInv

LEMMA BackoffStep == IInv /\ Backoff => IInv'
<1> SUFFICES ASSUME IInv, Backoff PROVE IInv'
  OBVIOUS
<1>1. Wait \in Nat /\ MaxOversleep \in Nat /\ MaxRetries \in Nat
  BY Waits, WikiClientAssumption DEF WikiClientAssumption, IInv, LoopInv, Backoff
<1>2. PICK over \in 0..MaxOversleep : now' = now + Wait + over
  BY DEF Backoff, Sleep
<1>3. now' \in Nat /\ now' >= now + Wait
  BY <1>1, <1>2 DEF IInv, TypeOK
<1>4. WaitInv'
  <2>1. pc = "backingOff" /\ pc' = "checking" /\ notBefore' = notBefore
    BY DEF Backoff
  <2>2. now \in Nat /\ notBefore \in Nat
    BY DEF IInv, TypeOK
  <2>3. retryAfter # Unset => Wait = Smaller(retryAfter, AfterCap)
    BY DEF Wait
  <2>4. now + Wait >= notBefore
    BY <1>1, <2>1, <2>2, <2>3 DEF IInv, WaitInv
  <2> QED
    BY <1>1, <1>3, <2>1, <2>2, <2>4 DEF WaitInv
<1>5. /\ attempt' \in 0..MaxRetries + 1 /\ attempt' = attempt + 1 /\ pc' = "checking"
      /\ Len(replies) = attempt + 1 /\ \A i \in 1..Len(replies) : replies[i] \in Retryable
      /\ replies' = replies
  BY <1>1 DEF Backoff, IInv, TypeOK, LoopInv
<1>6. LoopInv'
  BY <1>5 DEF LoopInv, IInv
<1>7. TypeOK' /\ DueInv' /\ RateHolds' /\ EachResponseOnce'
  BY <1>3, <1>5 DEF Backoff, IInv, TypeOK, DueInv, RateHolds, EachResponseOnce
<1> QED
  BY <1>4, <1>6, <1>7 DEF IInv

LEMMA IInvStep == IInv /\ [Next]_vars => IInv'
<1> SUFFICES ASSUME IInv, [Next]_vars PROVE IInv'
  OBVIOUS
<1>0. MaxRetries \in Nat
  BY WikiClientAssumption DEF WikiClientAssumption
<1>1. CASE Request
  <2>1. pc' = "acquiring" /\ pc = "idle" /\ attempt' = 0 /\ replies' = <<>>
        /\ UNCHANGED <<now, nextAllowed, retryAfter, page, yielded, calls, notBefore>>
    BY <1>1 DEF Request
  <2>2. LoopInv' /\ WaitInv'
    BY <1>0, <2>1 DEF IInv, LoopInv, WaitInv
  <2>3. TypeOK' /\ DueInv' /\ RateHolds' /\ EachResponseOnce'
    BY <1>0, <2>1 DEF IInv, TypeOK, DueInv, RateHolds, EachResponseOnce
  <2> QED
    BY <2>2, <2>3 DEF IInv
<1>2. CASE TryAgain \/ GiveUp
  <2>1. LoopInv'
    BY <1>0, <1>2 DEF TryAgain, GiveUp, AttemptsLeft, IInv, TypeOK, LoopInv
  <2>2. WaitInv' /\ TypeOK' /\ DueInv' /\ RateHolds' /\ EachResponseOnce'
    BY <1>2 DEF TryAgain, GiveUp, IInv, TypeOK, DueInv, RateHolds, EachResponseOnce, WaitInv
  <2> QED
    BY <2>1, <2>2 DEF IInv
<1>3. CASE UNCHANGED vars
  BY <1>3 DEF vars, IInv, TypeOK, LoopInv, WaitInv, DueInv, RateHolds, EachResponseOnce
<1> QED
  BY <1>1, <1>2, <1>3, AcquireStep, RetryLaterStep, RaiseStep, SucceedStep, BackoffStep DEF Next

LEMMA IInvHolds == Spec => []IInv
BY IInvInit, IInvStep, PTL DEF Spec

\* Every variable of the client keeps its type; the attempt stays in its budget.
THEOREM TypeCorrect == Spec => []TypeOK
<1>1. IInv => TypeOK
  BY DEF IInv
<1> QED
  BY <1>1, IInvHolds, PTL

\* The rate holds, whatever the oversleep, over any number of calls.
THEOREM RateHoldsCorrect == Spec => []RateHolds
<1>1. IInv => RateHolds
  BY DEF IInv
<1> QED
  BY <1>1, IInvHolds, PTL

\* No call is sent before the time a Retry-After named.
THEOREM RetryAfterHonouredCorrect == Spec => []RetryAfterHonoured
<1>1. IInv => RetryAfterHonoured
  BY DEF IInv, WaitInv, RetryAfterHonoured
<1> QED
  BY <1>1, IInvHolds, PTL

\* Giving up, raising and returning each follow from the responses there were.
THEOREM FailsForCauseCorrect == Spec => []FailsForCause
<1>1. IInv => FailsForCause
  <2> SUFFICES ASSUME IInv PROVE FailsForCause
    OBVIOUS
  <2>1. MaxRetries + 1 \in 1..MaxRetries + 1
    BY WikiClientAssumption DEF WikiClientAssumption
  <2> QED
    BY <2>1 DEF IInv, LoopInv, FailsForCause
<1> QED
  BY <1>1, IInvHolds, PTL

\* Retries neither lose nor repeat a part of a listing.
THEOREM EachResponseOnceCorrect == Spec => []EachResponseOnce
<1>1. IInv => EachResponseOnce
  BY DEF IInv
<1> QED
  BY <1>1, IInvHolds, PTL
=============================================================================
