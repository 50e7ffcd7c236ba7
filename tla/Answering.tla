------------------------------ MODULE Answering ------------------------------
(***************************************************************************)
(* An answer and its reader: AnswerLoop running inside the worker thread   *)
(* of Streaming (pipeline.answer called with on_text=tokens.put), or on    *)
(* its own when nobody streams.  Streaming's tokens are the pieces of      *)
(* AnswerLoop's text, and what the model said is what on_text was shown.   *)
(***************************************************************************)
EXTENDS Naturals, Sequences, FiniteSets

CONSTANTS
    Passages, Phantoms, Malformed, Graph, MaxAttempts, Pieces, MaxPieces, \* of AnswerLoop
    None, Final, Failure                                                  \* of Streaming

VARIABLES
    graphAvailable, streaming, loop, attempt, onText, text, isRefusal, check, notes, usage, shown,
    worker, tokens, outcome, pc, events

loopVars == <<graphAvailable, streaming, loop, attempt, onText, text, isRefusal, check, notes, usage,
              shown>>
streamVars == <<worker, tokens, outcome, pc, events>>
vars == <<loopVars, streamVars>>

Loop == INSTANCE AnswerLoop WITH pc <- loop
Stream == INSTANCE Streaming WITH Tokens <- Pieces, MaxTokens <- MaxPieces, said <- shown

ASSUME AnsweringAssumption == Loop!AnswerAssumption /\ Stream!StreamingAssumption

TypeOK == Loop!TypeOK /\ Stream!TypeOK

Init == Loop!Init /\ Stream!Init

-----------------------------------------------------------------------------
\* The loop runs in the worker once it has retrieved, or in the caller's thread.
InLoop == streaming => worker = "running"

\* A piece of text; on_text is tokens.put.
Say(p) ==
    /\ InLoop /\ Loop!Say(p)
    /\ IF onText THEN Stream!Put(p) ELSE UNCHANGED streamVars

Regenerate == InLoop /\ Loop!Regenerate /\ UNCHANGED streamVars

\* answer returns to run(), or to the caller.
Return ==
    /\ InLoop /\ (Loop!Ship \/ Loop!Refuse)
    /\ IF streaming THEN Stream!Answered ELSE UNCHANGED streamVars

Raise ==
    /\ InLoop /\ Loop!Unavailable
    /\ IF streaming THEN Stream!Raised ELSE UNCHANGED streamVars

\* Retrieval, in the worker, before the loop: it may raise too.
Retrieve ==
    /\ streaming /\ worker = "retrieving"
    /\ Stream!Retrieved \/ Stream!Raised
    /\ UNCHANGED loopVars

\* What the worker does around the pipeline, and the generator.
Around == (Stream!PutNone \/ Stream!WorkerExits) /\ UNCHANGED loopVars
Generator == streaming /\ Stream!Generator /\ UNCHANGED loopVars
HangUp == streaming /\ Stream!HangUp /\ UNCHANGED loopVars

Worker == (\E p \in Pieces : Say(p)) \/ Regenerate \/ Return \/ Raise \/ Retrieve \/ Around

Next == Worker \/ Generator \/ HangUp

Spec == Init /\ [][Next]_vars

\* Both threads are scheduled, and a model call ends (the SDK times out).
FairSpec == Spec /\ WF_vars(Worker) /\ WF_vars(Generator)

-----------------------------------------------------------------------------
(* The parts' promises, of the whole.                                      *)

\* The reader gets the text as the model says it, nothing lost, repeated or
\* reordered, one last event, and nothing after it (EventStream), while the
\* loop that speaks is checking and may regenerate.
KeepsPromise == Stream!KeepsPromise

\* A reader who stays gets a last event.
ReaderIsAnswered == Stream!ReaderIsAnswered

\* The worker ends, reader or no reader.
WorkerEnds == Stream!WorkerEnds

\* The answer tells the truth about the text it comes with: grounded exactly if
\* no citation in it is fabricated, and it lists the passages it cites.
HonestAnswer == Loop!HonestAnswer

\* "The final event is where a caller learns that a claim cited nothing
\* retrievable" (_stream): it comes exactly if there is an answer, after all of
\* the one text that was checked and nothing else, the model having been asked
\* once, and what it says of citations is honest about that text.
FinalSpeaksOfWhatWasSent ==
    pc = "done" =>
        /\ events # <<>>
        /\ SubSeq(events, 1, Len(events) - 1) = text
        /\ events[Len(events)] = Final <=> loop = "done"
        /\ loop = "done" =>
             /\ usage = 1
             /\ isRefusal \/ (Loop!IsGrounded <=> Loop!Fabricated(text) = {})
=============================================================================
