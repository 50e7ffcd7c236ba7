------------------------------- MODULE Serving -------------------------------
(***************************************************************************)
(* The server's question path over its one Postgres connection.            *)
(*                                                                         *)
(* _build_service (api/app.py) opens ONE psycopg connection, without       *)
(* autocommit, and shares it between the chunk search, the routing log and *)
(* the health probe.  FastAPI runs /ask and /health on a pool of threads.  *)
(* psycopg makes each statement atomic, but the TRANSACTION belongs to the *)
(* connection, not to the thread: BEGIN is implied by the first statement  *)
(* after an idle moment, and whoever commits or rolls back does so for     *)
(* everybody's statements since.  A statement the server refuses leaves    *)
(* the transaction "inerror": every later statement is refused until       *)
(* somebody ends it.                                                       *)
(***************************************************************************)
EXTENDS Naturals, FiniteSets

CONSTANTS
    Requests,     \* the questions asked in a run
    MaxInFlight,  \* how many worker threads serve at once
    Faults,       \* statements the database may refuse: "select", "insert", "lost"
    HealthProbes  \* whether anybody polls /health

ASSUME ServingAssumption ==
    /\ IsFiniteSet(Requests)
    /\ MaxInFlight \in Nat \ {0}
    /\ Faults \subseteq {"select", "insert", "lost"}
    /\ HealthProbes \in BOOLEAN

VARIABLES
    pc,           \* where each question is in AnswerPipeline.answer
    widened,      \* the questions whose filtered search has been widened
    txn,          \* transaction status of the shared connection
    unsaved,      \* routing_log rows inserted in the open transaction
    routing_log,  \* committed rows
    faulted,      \* history: the database has refused a statement of its own accord
    overlapped,   \* history: two questions have been in flight together
    probed        \* history: a health probe ran in the transaction that is open

vars == <<pc, widened, txn, unsaved, routing_log, faulted, overlapped, probed>>

Finished == {"answered", "unavailable", "upstream_error", "db_error"}
Steps == {"new", "route", "search", "searched", "record", "recorded", "generate"} \cup Finished

TypeOK ==
    /\ pc \in [Requests -> Steps]
    /\ widened \in SUBSET Requests
    /\ txn \in {"idle", "intrans", "inerror", "closed"}
    /\ unsaved \in SUBSET Requests
    /\ routing_log \in SUBSET Requests
    /\ faulted \in BOOLEAN /\ overlapped \in BOOLEAN /\ probed \in BOOLEAN
    /\ txn # "intrans" => unsaved = {}

Init ==
    /\ pc = [r \in Requests |-> "new"]
    /\ widened = {}
    /\ txn = "idle"
    /\ unsaved = {}
    /\ routing_log = {}
    /\ faulted = FALSE /\ overlapped = FALSE /\ probed = FALSE

InFlight == {r \in Requests : pc[r] \notin Finished \cup {"new"}}

Goto(r, step) == pc' = [pc EXCEPT ![r] = step]

-----------------------------------------------------------------------------
(* The connection.  What execute, commit and rollback do to it, whoever    *)
(* calls them.                                                             *)

Usable == txn \in {"idle", "intrans"}

\* An accepted statement: psycopg sends BEGIN first if no transaction is open.
Execute ==
    /\ Usable
    /\ txn' = "intrans"
    /\ UNCHANGED <<routing_log, faulted, overlapped>>

\* InFailedSqlTransaction, or OperationalError on a closed connection.
Refused ==
    /\ ~Usable
    /\ UNCHANGED <<txn, unsaved, routing_log, faulted, overlapped, probed>>

\* The server refuses the statement itself, or the connection is lost while it is
\* sent, also in a transaction in error.
Fail(kind) ==
    /\ kind \in Faults
    /\ txn # "closed" /\ (kind = "lost" \/ Usable)
    /\ txn' = IF kind = "lost" THEN "closed" ELSE "inerror"
    /\ unsaved' = {}
    /\ faulted' = TRUE /\ probed' = FALSE
    /\ UNCHANGED <<routing_log, overlapped>>

\* ROLLBACK ends the transaction of the connection, whoever's it is; a no-op
\* when none is open.
RollbackAll ==
    /\ txn # "closed"
    /\ txn' = "idle"
    /\ unsaved' = {} /\ probed' = FALSE
    /\ UNCHANGED <<routing_log, faulted, overlapped>>

\* COMMIT of a transaction in error is a rollback on the server, and psycopg
\* does not raise.
CommitAll ==
    /\ txn # "closed"
    /\ txn' = "idle"
    /\ unsaved' = {} /\ probed' = FALSE
    /\ routing_log' = routing_log \cup unsaved
    /\ UNCHANGED <<faulted, overlapped>>

-----------------------------------------------------------------------------
\* A worker thread takes the question up.
Start(r) ==
    /\ pc[r] = "new"
    /\ Cardinality(InFlight) < MaxInFlight
    /\ Goto(r, "route")
    /\ overlapped' = (overlapped \/ InFlight # {})
    /\ UNCHANGED <<widened, txn, unsaved, routing_log, faulted, probed>>

\* The router decides, and the graph half runs: Neo4j and the model API, never
\* Postgres.  A graph-only route goes straight to the log.
Route(r) ==
    /\ pc[r] = "route"
    /\ \/ Goto(r, "search")
       \/ Goto(r, "record")
       \/ Goto(r, "unavailable")        \* RouterUnavailableError: 503
       \/ Goto(r, "upstream_error")     \* Neo4j or the embedding raised: 500
    /\ UNCHANGED <<widened, txn, unsaved, routing_log, faulted, overlapped, probed>>

\* PostgresChunkStore.search: the SELECT ...
Search(r) ==
    /\ pc[r] = "search"
    /\ \/ Execute /\ Goto(r, "searched") /\ UNCHANGED <<unsaved, probed>>
       \/ Refused /\ Goto(r, "db_error")
       \/ (Fail("select") \/ Fail("lost")) /\ Goto(r, "db_error")
    /\ UNCHANGED widened

SearchEndsWithoutRollback(r) ==                                     \* mutant
    /\ pc[r] = "searched"
    /\ Goto(r, "record")
    /\ UNCHANGED <<widened, txn, unsaved, routing_log, faulted, overlapped, probed>>

SearchWidensAgain(r) ==                                             \* mutant
    /\ pc[r] = "searched"
    /\ \/ RollbackAll /\ Goto(r, "record")
       \/ RollbackAll /\ Goto(r, "search")
    /\ UNCHANGED widened

SearchEndsStrictly(r) ==                                            \* mutant
    /\ pc[r] = "searched"
    /\ \/ txn = "intrans" /\ RollbackAll /\ Goto(r, "record")
       \/ txn # "intrans" /\ Goto(r, "db_error")
          /\ UNCHANGED <<txn, unsaved, routing_log, faulted, overlapped, probed>>
    /\ UNCHANGED widened

\* ... and the rollback that "ends the transaction SET LOCAL opened".  A
\* filtered search with too few hits is widened by a second, unfiltered one.
\* With no transaction open there is nothing to send, so nothing to lose.
SearchEnds(r) ==
    /\ pc[r] = "searched"
    /\ \/ RollbackAll /\ Goto(r, "record") /\ UNCHANGED widened
       \/ RollbackAll /\ r \notin widened /\ widened' = widened \cup {r} /\ Goto(r, "search")
       \/ txn = "closed" /\ Refused /\ Goto(r, "db_error") /\ UNCHANGED widened
       \/ txn # "idle" /\ Fail("lost") /\ Goto(r, "db_error") /\ UNCHANGED widened

\* RetrievalPipeline._record: the INSERT.  Every exception is swallowed, and
\* nobody rolls back.
Record(r) ==
    /\ pc[r] = "record"
    /\ \/ Execute /\ unsaved' = unsaved \cup {r} /\ Goto(r, "recorded") /\ UNCHANGED probed
       \/ Refused /\ Goto(r, "generate")
       \/ (Fail("insert") \/ Fail("lost")) /\ Goto(r, "generate")
    /\ UNCHANGED widened

CommitRollsBack(r) ==                                               \* mutant
    /\ pc[r] = "recorded"
    /\ Goto(r, "generate")
    /\ \/ RollbackAll
       \/ txn = "closed" /\ Refused
       \/ txn # "idle" /\ Fail("lost")
    /\ UNCHANGED widened

\* ... and the commit.
Commit(r) ==
    /\ pc[r] = "recorded"
    /\ Goto(r, "generate")
    /\ \/ CommitAll
       \/ txn = "closed" /\ Refused
       \/ txn # "idle" /\ Fail("lost")
    /\ UNCHANGED widened

\* AnswerPipeline.answer_from: the model answers, cannot be reached (503), or
\* something else raises, whose row is stored all the same (500).
Generate(r) ==
    /\ pc[r] = "generate"
    /\ Goto(r, "answered") \/ Goto(r, "unavailable") \/ Goto(r, "upstream_error")
    /\ UNCHANGED <<widened, txn, unsaved, routing_log, faulted, overlapped, probed>>

\* GET /health: SELECT 1, and no end of transaction.  A refused probe is a 503
\* and changes nothing.
Probe ==
    /\ HealthProbes
    /\ \/ Execute /\ probed' = TRUE /\ UNCHANGED unsaved
       \/ Fail("lost")
    /\ UNCHANGED <<pc, widened>>

Step(r) ==
    Start(r) \/ Route(r) \/ Search(r) \/ SearchEnds(r) \/ Record(r) \/ Commit(r) \/ Generate(r)

Next == (\E r \in Requests : Step(r)) \/ Probe

Spec == Init /\ [][Next]_vars

\* A worker thread that has taken a question up is scheduled until it is done.
FairSpec == Spec /\ \A r \in Requests : WF_vars(pc[r] # "new" /\ Step(r))

-----------------------------------------------------------------------------
\* What schema.sql says routing_log holds: "what the router decided, for
\* every question asked".  Stated of the questions that were answered.
EveryAnswerLogged == \A r \in Requests : pc[r] = "answered" => r \in routing_log

\* What is true of it: an answer is logged if no two questions were ever served
\* at once and the database refused nothing.
AnswersAloneAreLogged == ~overlapped /\ ~faulted => EveryAnswerLogged

\* Sharing the connection never fails a question by itself: whatever the
\* interleaving of searches, commits, rollbacks and probes, a question ends in
\* a database error only if the database refused some statement first.
NoFaultNoFailure == \A r \in Requests : pc[r] = "db_error" => faulted

\* The server does not sit "idle in transaction" (holding a snapshot back)
\* between statements of questions, unless a health probe left it so.
ReleasedWhenQuiet ==
    (\A r \in Requests : pc[r] \notin {"searched", "recorded"}) /\ txn = "intrans" => probed

\* RetrievalPipeline._record: "Log the decision, but never fail a question over
\* it".  Stated where inserting the log row is the only thing that can go wrong.
LoggingNeverFailsAQuestion == \A r \in Requests : pc[r] # "db_error"

\* Every question taken up gets some response.
EveryQuestionEnds == \A r \in Requests : pc[r] = "route" ~> pc[r] \in Finished
=============================================================================
