--------------------------- MODULE ServingProofs ---------------------------
(***************************************************************************)
(* What sharing the connection guarantees, for any number of questions,    *)
(* workers and database faults.                                            *)
(*                                                                         *)
(* Three inductive invariants: Safe, about failures; Quiet, about what is  *)
(* left open; Logged, about the row of the only question in flight, as     *)
(* long as there was never more than one and the database refused nothing  *)
(* (TLC shows the log is incomplete without either).                       *)
(***************************************************************************)
EXTENDS Serving, TLAPS

\* A connection that refuses statements was made to by a fault.
OnlyFaultsBreakTheConnection == ~Usable => faulted

Safe == TypeOK /\ OnlyFaultsBreakTheConnection /\ NoFaultNoFailure

LEMMA SafeInit == Init => Safe
<1> QED
  BY DEF Init, Safe, TypeOK, OnlyFaultsBreakTheConnection, NoFaultNoFailure,
         Usable, Steps, Finished

LEMMA SafeStep == Safe /\ [Next]_vars => Safe'
<1> SUFFICES ASSUME Safe, [Next]_vars
             PROVE  Safe'
  OBVIOUS
<1> USE DEF Safe, TypeOK, OnlyFaultsBreakTheConnection, NoFaultNoFailure,
            Usable, Steps, Finished, Goto
<1>1. ASSUME NEW r \in Requests, Start(r) PROVE Safe'
  BY <1>1 DEF Start
<1>2. ASSUME NEW r \in Requests, Route(r) PROVE Safe'
  BY <1>2 DEF Route
<1>3. ASSUME NEW r \in Requests, Search(r) PROVE Safe'
  BY <1>3 DEF Search, Execute, Refused, Fail
<1>4. ASSUME NEW r \in Requests, SearchEnds(r) PROVE Safe'
  BY <1>4 DEF SearchEnds, RollbackAll, Refused, Fail
<1>5. ASSUME NEW r \in Requests, Record(r) PROVE Safe'
  BY <1>5 DEF Record, Execute, Refused, Fail
<1>6. ASSUME NEW r \in Requests, Commit(r) PROVE Safe'
  BY <1>6 DEF Commit, CommitAll, Refused, Fail
<1>7. ASSUME NEW r \in Requests, Generate(r) PROVE Safe'
  BY <1>7 DEF Generate
<1>8. CASE Probe
  <2>1. CASE Execute /\ probed' = TRUE /\ UNCHANGED unsaved
    BY <1>8, <2>1 DEF Probe, Execute
  <2>2. CASE Fail("lost")
    BY <1>8, <2>2 DEF Probe, Fail
  <2> QED
    BY <1>8, <2>1, <2>2 DEF Probe
<1>9. CASE UNCHANGED vars
  BY <1>9 DEF vars
<1> QED
  BY <1>1, <1>2, <1>3, <1>4, <1>5, <1>6, <1>7, <1>8, <1>9 DEF Next, Step

LEMMA SafeAlways == Spec => []Safe
<1> QED
  BY SafeInit, SafeStep, PTL DEF Spec

\* Every variable keeps its type, and rows wait unsaved only in an open transaction.
THEOREM TypeCorrect == Spec => []TypeOK
<1>1. Safe => TypeOK
  BY DEF Safe
<1> QED
  BY <1>1, SafeAlways, PTL

\* However searches, commits, rollbacks and probes of different questions
\* interleave on the connection, no question ends in a database error unless
\* the database refused a statement of its own accord.
THEOREM SharingNeverFails == Spec => []NoFaultNoFailure
<1>1. Safe => NoFaultNoFailure
  BY DEF Safe
<1> QED
  BY <1>1, SafeAlways, PTL

-----------------------------------------------------------------------------
\* An open transaction that no probe is part of is some worker's, and that
\* worker is about to end it.
Quiet == TypeOK /\ ReleasedWhenQuiet

LEMMA QuietStep == Quiet /\ TypeOK' /\ [Next]_vars => Quiet'
<1> SUFFICES ASSUME Quiet, TypeOK', [Next]_vars
             PROVE  ReleasedWhenQuiet'
  BY DEF Quiet
<1> USE DEF Quiet, TypeOK, ReleasedWhenQuiet, Usable, Steps, Finished, Goto
<1>1. ASSUME NEW r \in Requests, Start(r) PROVE ReleasedWhenQuiet'
  BY <1>1 DEF Start
<1>2. ASSUME NEW r \in Requests, Route(r) PROVE ReleasedWhenQuiet'
  BY <1>2 DEF Route
<1>3. ASSUME NEW r \in Requests, Search(r) PROVE ReleasedWhenQuiet'
  BY <1>3 DEF Search, Execute, Refused, Fail
<1>4. ASSUME NEW r \in Requests, SearchEnds(r) PROVE ReleasedWhenQuiet'
  BY <1>4 DEF SearchEnds, RollbackAll, Refused, Fail
<1>5. ASSUME NEW r \in Requests, Record(r) PROVE ReleasedWhenQuiet'
  BY <1>5 DEF Record, Execute, Refused, Fail
<1>6. ASSUME NEW r \in Requests, Commit(r) PROVE ReleasedWhenQuiet'
  BY <1>6 DEF Commit, CommitAll, Refused, Fail
<1>7. ASSUME NEW r \in Requests, Generate(r) PROVE ReleasedWhenQuiet'
  BY <1>7 DEF Generate
<1>8. CASE Probe
  BY <1>8 DEF Probe, Execute, Fail
<1>9. CASE UNCHANGED vars
  BY <1>9 DEF vars
<1> QED
  BY <1>1, <1>2, <1>3, <1>4, <1>5, <1>6, <1>7, <1>8, <1>9 DEF Next, Step

\* The server idles inside a transaction only after a health probe.
THEOREM NothingHeldOpen == Spec => []ReleasedWhenQuiet
<1>1. Init => Quiet
  BY SafeInit DEF Init, Quiet, ReleasedWhenQuiet, Safe
<1>2. Quiet /\ TypeOK' /\ [Next]_vars => Quiet'
  BY QuietStep
<1>3. Quiet => ReleasedWhenQuiet
  BY DEF Quiet
<1> QED
  BY <1>1, <1>2, <1>3, TypeCorrect, PTL DEF Spec

-----------------------------------------------------------------------------
\* As long as questions came one at a time and nothing was refused, the row of
\* the question in flight is in an open transaction until its own commit.
OneInFlight == \A r, s \in InFlight : r = s

RowFollowsQuestion ==
    \A r \in Requests : /\ pc[r] = "recorded" => r \in unsaved
                        /\ pc[r] \in {"generate", "answered"} => r \in routing_log

Alone == ~overlapped /\ ~faulted

Logged == TypeOK /\ (Alone => Usable /\ OneInFlight /\ RowFollowsQuestion)

\* Neither history is ever taken back.
LEMMA AloneBefore == TypeOK /\ [Next]_vars /\ Alone' => Alone
<1> SUFFICES ASSUME TypeOK, [Next]_vars, Alone'
             PROVE  Alone
  OBVIOUS
<1> USE DEF Alone, TypeOK
<1>1. ASSUME NEW r \in Requests, Start(r) PROVE Alone
  BY <1>1 DEF Start
<1>2. ASSUME NEW r \in Requests, Route(r) PROVE Alone
  BY <1>2 DEF Route
<1>3. ASSUME NEW r \in Requests, Search(r) PROVE Alone
  BY <1>3 DEF Search, Execute, Refused, Fail
<1>4. ASSUME NEW r \in Requests, SearchEnds(r) PROVE Alone
  BY <1>4 DEF SearchEnds, RollbackAll, Refused, Fail
<1>5. ASSUME NEW r \in Requests, Record(r) PROVE Alone
  BY <1>5 DEF Record, Execute, Refused, Fail
<1>6. ASSUME NEW r \in Requests, Commit(r) PROVE Alone
  BY <1>6 DEF Commit, CommitAll, Refused, Fail
<1>7. ASSUME NEW r \in Requests, Generate(r) PROVE Alone
  BY <1>7 DEF Generate
<1>8. CASE Probe
  BY <1>8 DEF Probe, Execute, Fail
<1>9. CASE UNCHANGED vars
  BY <1>9 DEF vars
<1> QED
  BY <1>1, <1>2, <1>3, <1>4, <1>5, <1>6, <1>7, <1>8, <1>9 DEF Next, Step

LEMMA LoggedStep == Logged /\ TypeOK' /\ [Next]_vars => Logged'
<1> SUFFICES ASSUME TypeOK, Alone, Usable, OneInFlight, RowFollowsQuestion, TypeOK',
                    [Next]_vars, Alone'
             PROVE  (Usable /\ OneInFlight /\ RowFollowsQuestion)'
  BY AloneBefore DEF Logged
<1> USE DEF Alone, TypeOK, OneInFlight, RowFollowsQuestion, InFlight, Usable, Steps, Finished, Goto
<1> DEFINE Goal == (Usable /\ OneInFlight /\ RowFollowsQuestion)'
<1>1. ASSUME NEW r \in Requests, Start(r) PROVE Goal
  <2>1. InFlight = {}
    BY <1>1 DEF Start
  <2> QED
    BY <1>1, <2>1 DEF Start
<1>2. ASSUME NEW r \in Requests, Route(r) PROVE Goal
  BY <1>2 DEF Route
<1>3. ASSUME NEW r \in Requests, Search(r) PROVE Goal
  BY <1>3 DEF Search, Execute, Refused, Fail
<1>4. ASSUME NEW r \in Requests, SearchEnds(r) PROVE Goal
  BY <1>4 DEF SearchEnds, RollbackAll, Refused, Fail
<1>5. ASSUME NEW r \in Requests, Record(r) PROVE Goal
  BY <1>5 DEF Record, Execute, Refused, Fail
<1>6. ASSUME NEW r \in Requests, Commit(r) PROVE Goal
  BY <1>6 DEF Commit, CommitAll, Refused, Fail
<1>7. ASSUME NEW r \in Requests, Generate(r) PROVE Goal
  BY <1>7 DEF Generate
<1>8. CASE Probe
  BY <1>8 DEF Probe, Execute, Fail
<1>9. CASE UNCHANGED vars
  BY <1>9 DEF vars
<1> QED
  BY <1>1, <1>2, <1>3, <1>4, <1>5, <1>6, <1>7, <1>8, <1>9 DEF Next, Step

\* Questions served one at a time, by a database that refuses nothing, are all
\* in routing_log once answered, health probes or not.
THEOREM AnswersAloneLogged == Spec => []AnswersAloneAreLogged
<1>1. Init => Logged
  BY SafeInit DEF Init, Logged, Safe, Usable, OneInFlight, RowFollowsQuestion, InFlight
<1>2. Logged /\ TypeOK' /\ [Next]_vars => Logged'
  BY LoggedStep
<1>3. Logged => AnswersAloneAreLogged
  BY DEF Logged, Alone, RowFollowsQuestion, AnswersAloneAreLogged, EveryAnswerLogged
<1> QED
  BY <1>1, <1>2, <1>3, TypeCorrect, PTL DEF Spec
=============================================================================
