------------------------------ MODULE Streaming ------------------------------
(***************************************************************************)
(* The streamed answer: _stream in api/app.py.                             *)
(*                                                                         *)
(* A worker thread runs the answer pipeline and puts each token on an      *)
(* unbounded queue; the response generator, on another thread, turns them  *)
(* into events.  The worker leaves its answer or its error in `outcome`    *)
(* and a None on the queue; the generator joins it before reading the one  *)
(* after the other.  The reader may hang up at any time: the generator is  *)
(* dropped, the worker is not told.                                        *)
(***************************************************************************)
EXTENDS Naturals, Sequences

CONSTANTS
    Tokens,    \* pieces of text
    None,      \* the sentinel
    Final,     \* the last event of an answer
    Failure,   \* the last event of an error
    MaxTokens  \* bound: tokens of one answer

\* What Answering assumes of these.
StreamingAssumption ==
    /\ None \notin Tokens
    /\ MaxTokens \in Nat
    /\ Final \notin Tokens /\ Failure \notin Tokens /\ Final # Failure

VARIABLES
    worker,   \* the thread: "new", "retrieving", "running", "leaving", "exiting", "gone"
    tokens,   \* the queue
    outcome,  \* what the worker left: "none", "answer" or "error"
    pc,       \* the generator: "new", "reading", "joining", "closing", "done", "dropped"
    events,   \* the events sent
    said      \* history: the tokens the model produced

vars == <<worker, tokens, outcome, pc, events, said>>

TypeOK ==
    /\ worker \in {"new", "retrieving", "running", "leaving", "exiting", "gone"}
    /\ tokens \in Seq(Tokens \cup {None})
    /\ outcome \in {"none", "answer", "error"}
    /\ pc \in {"new", "reading", "joining", "closing", "done", "dropped"}
    /\ events \in Seq(Tokens \cup {Final, Failure})
    /\ said \in Seq(Tokens)

Init ==
    /\ worker = "new" /\ tokens = <<>> /\ outcome = "none"
    /\ pc = "new" /\ events = <<>> /\ said = <<>>

-----------------------------------------------------------------------------
(* run(), the worker.                                                      *)

\* pipeline.answer retrieves first ...
Retrieved ==
    /\ worker = "retrieving" /\ worker' = "running"
    /\ UNCHANGED <<tokens, outcome, pc, events, said>>

\* ... and generates, with on_text, which is tokens.put: a regeneration never calls it.
PutFirst(t) ==                                                      \* mutant
    /\ worker = "running" /\ Len(said) < MaxTokens
    /\ tokens' = <<t>> \o tokens
    /\ said' = Append(said, t)
    /\ UNCHANGED <<worker, outcome, pc, events>>

Put(t) ==
    /\ worker = "running" /\ Len(said) < MaxTokens
    /\ tokens' = Append(tokens, t)
    /\ said' = Append(said, t)
    /\ UNCHANGED <<worker, outcome, pc, events>>

\* It returns, or raises at either stage: the model or the router unavailable,
\* or anything else.  All are caught.
Answered ==
    /\ worker = "running" /\ worker' = "leaving"
    /\ outcome' = "answer"
    /\ UNCHANGED <<tokens, pc, events, said>>

Raised ==
    /\ worker \in {"retrieving", "running"} /\ worker' = "leaving"
    /\ outcome' = "error"
    /\ UNCHANGED <<tokens, pc, events, said>>

\* finally: tokens.put(None).
PutNoneOnSuccess ==                                                 \* mutant
    /\ worker = "leaving" /\ worker' = "exiting"
    /\ tokens' = IF outcome = "answer" THEN Append(tokens, None) ELSE tokens
    /\ UNCHANGED <<outcome, pc, events, said>>

PutNone ==
    /\ worker = "leaving" /\ worker' = "exiting"
    /\ tokens' = Append(tokens, None)
    /\ UNCHANGED <<outcome, pc, events, said>>

WorkerExitsWhenRead ==                                              \* mutant
    /\ worker = "exiting" /\ tokens = <<>> /\ worker' = "gone"
    /\ UNCHANGED <<tokens, outcome, pc, events, said>>

WorkerExits ==
    /\ worker = "exiting" /\ worker' = "gone"
    /\ UNCHANGED <<tokens, outcome, pc, events, said>>

-----------------------------------------------------------------------------
(* The generator.                                                          *)

\* The first pull starts the worker.
Open ==
    /\ pc = "new" /\ pc' = "reading"
    /\ worker' = "retrieving"
    /\ UNCHANGED <<tokens, outcome, events, said>>

\* tokens.get() blocks while the queue is empty.
Get ==
    /\ pc = "reading" /\ tokens # <<>> /\ Head(tokens) # None
    /\ tokens' = Tail(tokens)
    /\ events' = Append(events, Head(tokens))
    /\ UNCHANGED <<worker, outcome, pc, said>>

GetNone ==
    /\ pc = "reading" /\ tokens # <<>> /\ Head(tokens) = None
    /\ tokens' = Tail(tokens)
    /\ pc' = "joining"
    /\ UNCHANGED <<worker, outcome, events, said>>

Join ==
    /\ pc = "joining" /\ worker = "gone"
    /\ pc' = "closing"
    /\ UNCHANGED <<worker, tokens, outcome, events, said>>

\* outcome["answer"] raises a KeyError if there is neither: no last event.
Close ==
    /\ pc = "closing" /\ pc' = "done"
    /\ events' = CASE outcome = "error" -> Append(events, Failure)
                   [] outcome = "answer" -> Append(events, Final)
                   [] OTHER -> events
    /\ UNCHANGED <<worker, tokens, outcome, said>>

\* The reader hangs up.
HangUp ==
    /\ pc \in {"new", "reading", "joining", "closing"} /\ pc' = "dropped"
    /\ UNCHANGED <<worker, tokens, outcome, events, said>>

Worker == Retrieved \/ (\E t \in Tokens : Put(t)) \/ Answered \/ Raised \/ PutNone \/ WorkerExits
Generator == Open \/ Get \/ GetNone \/ Join \/ Close
Next == Worker \/ Generator \/ HangUp

Spec == Init /\ [][Next]_vars

\* Both threads are scheduled, and a model call ends (the SDK times out).
FairSpec == Spec /\ WF_vars(Worker) /\ WF_vars(Generator)

-----------------------------------------------------------------------------
\* The promise, of which this is an implementation.
Promise == INSTANCE EventStream WITH
               Terminals <- {Final, Failure},
               open <- pc \notin {"done", "dropped"}

\* The reader gets what EventStream promises.
KeepsPromise == Promise!Spec

\* A reader who stays gets a last event.
ReaderIsAnswered == pc = "reading" ~> pc \in {"done", "dropped"}

\* The worker ends, reader or no reader.
WorkerEnds == worker = "retrieving" ~> worker = "gone"
=============================================================================
