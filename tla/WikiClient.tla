----------------------------- MODULE WikiClient ------------------------------
(***************************************************************************)
(* The API client of a crawl (harvest/client.py): calls spaced by          *)
(* RateLimiter.acquire, the retry loop of MediaWikiClient.request, and     *)
(* query_paged, which follows a listing through its continuations.         *)
(*                                                                         *)
(* One thread.  Time advances by what it sleeps, which may be more than it *)
(* asked for, and by how long the server takes.                            *)
(***************************************************************************)
EXTENDS Integers, Sequences

CONSTANTS
    Interval,     \* 1 / rps
    MaxRetries,   \* max_retries
    AfterCap,     \* the longest Retry-After obeyed
    BackoffCap,   \* the longest exponential backoff
    Exponential,  \* 2.0 ** attempt
    MaxOversleep, \* bound: by how much a sleep may be late
    Latencies,    \* bound: how long a response may take
    RetryAfters,  \* bound: seconds a server may ask for
    NumPages      \* bound: responses of the listing

Unset == -1

ASSUME WikiClientAssumption ==
    /\ Interval \in Nat \ {0} /\ MaxRetries \in Nat /\ NumPages \in Nat \ {0}
    /\ AfterCap \in Nat /\ BackoffCap \in Nat
    /\ Exponential \in [0..MaxRetries -> Nat]
    /\ MaxOversleep \in Nat /\ Latencies \subseteq Nat /\ RetryAfters \subseteq Nat

VARIABLES
    pc,           \* "idle", "acquiring", "sent", "backingOff", "checking", "done", "raised", "gaveUp"
    now,          \* monotonic()
    nextAllowed,  \* RateLimiter._next_allowed
    attempt,      \* the loop's counter
    retryAfter,   \* the header of the last response: Unset if absent or not a number
    page,         \* the continuation: which response of the listing comes next
    yielded,      \* the responses yielded to the caller
    calls,        \* history: when each call was sent
    replies,      \* history: the responses to the current request
    notBefore     \* history: the time the last Retry-After named

vars == <<pc, now, nextAllowed, attempt, retryAfter, page, yielded, calls, replies, notBefore>>

Retryable == {"network", "status", "maxlag"}
Permanent == {"http", "json", "api"}
Kinds == Retryable \cup Permanent \cup {"ok"}

TypeOK ==
    /\ pc \in {"idle", "acquiring", "sent", "backingOff", "checking", "done", "raised", "gaveUp"}
    /\ now \in Nat
    /\ nextAllowed \in Nat \cup {Unset}
    /\ attempt \in 0..MaxRetries + 1
    /\ retryAfter \in Nat \cup {Unset}
    /\ page \in 1..NumPages
    /\ yielded \in Seq(1..NumPages)
    /\ calls \in Seq(Nat)
    /\ replies \in Seq(Kinds)
    /\ notBefore \in Nat

Init ==
    /\ pc = "idle" /\ now = 0 /\ nextAllowed = Unset
    /\ attempt = 0 /\ retryAfter = Unset
    /\ page = 1 /\ yielded = <<>>
    /\ calls = <<>> /\ replies = <<>> /\ notBefore = 0

-----------------------------------------------------------------------------
Smaller(a, b) == IF a <= b THEN a ELSE b

\* time.sleep never returns early.
Sleep(d) == \E over \in 0..MaxOversleep : now' = now + d + over

\* request(): the loop's first attempt.
Request ==
    /\ pc = "idle" /\ pc' = "acquiring"
    /\ attempt' = 0 /\ replies' = <<>>
    /\ UNCHANGED <<now, nextAllowed, retryAfter, page, yielded, calls, notBefore>>

\* acquire(): the next call is scheduled from the time this one was due.
DueWhenAsked == now                                                 \* mutant
Due == IF nextAllowed # Unset /\ now < nextAllowed THEN nextAllowed ELSE now

Acquire ==
    /\ pc = "acquiring" /\ pc' = "sent"
    /\ IF Due > now THEN Sleep(Due - now) ELSE now' = now
    /\ nextAllowed' = Due + Interval
    /\ calls' = Append(calls, now')
    /\ UNCHANGED <<attempt, retryAfter, page, yielded, replies, notBefore>>

\* The response, or the lack of one.
Receive(kind, after) ==
    /\ pc = "sent"
    /\ \E d \in Latencies : now' = now + d
    /\ replies' = Append(replies, kind)
    /\ retryAfter' = after
    /\ notBefore' = IF after = Unset THEN notBefore ELSE now' + Smaller(after, AfterCap)
    /\ UNCHANGED <<nextAllowed, attempt, calls>>

\* A network error, a status of RETRY_STATUS, or the maxlag error: back off.
RetryLater ==
    /\ \/ Receive("network", Unset)
       \/ \E after \in RetryAfters \cup {Unset} : Receive("status", after) \/ Receive("maxlag", after)
    /\ pc' = "backingOff"
    /\ UNCHANGED <<page, yielded>>

\* Another status, a body that is no JSON, another API error: raised at once.
Raise ==
    /\ \E kind \in Permanent : Receive(kind, Unset)
    /\ pc' = "raised"
    /\ UNCHANGED <<page, yielded>>

\* _backoff.
WaitExponentially == Smaller(Exponential[attempt], BackoffCap)      \* mutant
Wait == IF retryAfter # Unset
        THEN Smaller(retryAfter, AfterCap)
        ELSE Smaller(Exponential[attempt], BackoffCap)

Backoff ==
    /\ pc = "backingOff" /\ pc' = "checking"
    /\ Sleep(Wait)
    /\ attempt' = attempt + 1
    /\ UNCHANGED <<nextAllowed, retryAfter, page, yielded, calls, replies, notBefore>>

\* The loop's bound is looked at after the backoff, of the last attempt too.
OneAttemptFewer == attempt < MaxRetries                             \* mutant
AttemptsLeft == attempt <= MaxRetries

TryAgain ==
    /\ pc = "checking" /\ AttemptsLeft /\ pc' = "acquiring"
    /\ UNCHANGED <<now, nextAllowed, attempt, retryAfter, page, yielded, calls, replies, notBefore>>

GiveUp ==
    /\ pc = "checking" /\ ~AttemptsLeft /\ pc' = "gaveUp"
    /\ UNCHANGED <<now, nextAllowed, attempt, retryAfter, page, yielded, calls, replies, notBefore>>

\* query_paged: what a response has of the listing is yielded, and the next
\* request asks for what follows, if the response says that anything does.
ContinueAtSame(p) == p                                              \* mutant
ContinueAt(p) == p + 1

Succeed ==
    /\ Receive("ok", Unset)
    /\ \E hasQuery \in BOOLEAN : yielded' = IF hasQuery THEN Append(yielded, page) ELSE yielded
    /\ IF page = NumPages
       THEN pc' = "done" /\ UNCHANGED page
       ELSE pc' = "idle" /\ page' = ContinueAt(page)

Next == Request \/ Acquire \/ RetryLater \/ Raise \/ Backoff \/ TryAgain \/ GiveUp \/ Succeed

Spec == Init /\ [][Next]_vars

-----------------------------------------------------------------------------
\* "Spaces calls at least 1/rps seconds apart": any calls i and j are j - i
\* intervals apart, retries included, but for one late wake-up, however many
\* sleeps were late in between (acquire, client.py:54).
RateHolds ==
    \A i, j \in 1..Len(calls) :
        i < j => calls[j] + MaxOversleep >= calls[i] + (j - i) * Interval

\* "honour Retry-After instead of hammering": no call, of this request or of
\* a later one, is sent before the time the server named (up to the cap).
RetryAfterHonoured == pc = "sent" => now >= notBefore

\* The caller is told the truth: giving up means that every attempt allowed
\* was made and could be retried; an error is raised for the response that
\* could not be, and is not retried; what is yielded answers the last attempt.
FailsForCause ==
    /\ \A i \in 1..Len(replies) - 1 : replies[i] \in Retryable
    /\ pc = "gaveUp" => Len(replies) = MaxRetries + 1 /\ replies[MaxRetries + 1] \in Retryable
    /\ pc = "raised" => replies[Len(replies)] \in Permanent
    /\ pc = "done" => replies[Len(replies)] = "ok"

\* Retries neither lose nor repeat part of a listing: what is yielded is in
\* order, each response at most once, and none of what is still to be asked for.
EachResponseOnce ==
    /\ \A i, j \in 1..Len(yielded) : i < j => yielded[i] < yielded[j]
    /\ \A i \in 1..Len(yielded) : yielded[i] <= page
    /\ pc # "done" => \A i \in 1..Len(yielded) : yielded[i] < page
=============================================================================
