----------------------------- MODULE AnswerLoop ------------------------------
(***************************************************************************)
(* One answer: AnswerPipeline.answer_from (answer/pipeline.py) and the     *)
(* citation check (answer/validate.py).                                    *)
(*                                                                         *)
(* A text is a sequence of pieces, each the set of citation tokens in it.  *)
(* A whole piece is a sentence; one that is not whole is a bracket that    *)
(* the sentence splitter cuts in two ("[a:1:1, b. C]"): its tokens are in  *)
(* the text and in no sentence of it.  Wording and order of citations are  *)
(* left out.  What the model writes is any sequence of pieces.             *)
(***************************************************************************)
EXTENDS Naturals, Sequences, FiniteSets

CONSTANTS
    Passages,        \* ids of the retrieved chunks
    Phantoms,        \* tokens of the shape of a chunk id, not retrieved
    Malformed,       \* other bracketed tokens
    Graph,           \* the token "graph"
    MaxAttempts,     \* max_attempts
    Pieces,          \* bound: what a text is made of
    MaxPieces        \* bound: pieces of one text

Tokens == Passages \cup Phantoms \cup Malformed \cup {Graph}
AnyPiece == [tokens : SUBSET Tokens, whole : BOOLEAN]

\* What Answering assumes of these.
AnswerAssumption ==
    /\ Passages \cap Phantoms = {} /\ Passages \cap Malformed = {}
    /\ Phantoms \cap Malformed = {}
    /\ Graph \notin Passages \cup Phantoms \cup Malformed
    /\ MaxAttempts \in Nat /\ MaxPieces \in Nat
    /\ Pieces \subseteq AnyPiece

VARIABLES
    graphAvailable,  \* whether graph facts were retrieved
    streaming,       \* whether the caller gave an on_text
    pc,              \* "calling" the model, "done" or "raised"
    attempt,         \* the loop's counter
    onText,          \* whether this call streams to the caller
    text,            \* the text of this call, so far
    isRefusal,       \* whether it was declined
    check,           \* the last CitationCheck
    notes,           \* the corrective messages appended to the conversation
    usage,           \* calls paid for
    shown            \* what the caller of a streamed answer has been shown

inputs == <<graphAvailable, streaming>>
vars == <<inputs, pc, attempt, onText, text, isRefusal, check, notes, usage, shown>>

Check == [citations : SUBSET Passages, citedGraph : BOOLEAN,
          unknown : SUBSET Tokens, claims : SUBSET AnyPiece]
NoCheck == [citations |-> {}, citedGraph |-> FALSE, unknown |-> {}, claims |-> {}]

TypeOK ==
    /\ graphAvailable \in BOOLEAN /\ streaming \in BOOLEAN
    /\ pc \in {"calling", "done", "raised"}
    /\ attempt \in Nat \ {0}
    /\ onText \in BOOLEAN
    /\ text \in Seq(AnyPiece)
    /\ isRefusal \in BOOLEAN
    /\ check \in Check
    /\ notes \in Seq([unknown : SUBSET Tokens, claims : SUBSET AnyPiece])
    /\ usage \in Nat
    /\ shown \in Seq(AnyPiece)

-----------------------------------------------------------------------------
(* validate.py                                                             *)

PiecesOf(s) == {s[i] : i \in 1..Len(s)}
Cited(s) == UNION {p.tokens : p \in PiecesOf(s)}

\* Neither retrieved nor, by the shape of an id, an aside in brackets.
Unknown(s) == Cited(s) \cap (Phantoms \cup (IF graphAvailable THEN {} ELSE {Graph}))

ClaimsCiting(s, ids) == {p \in PiecesOf(s) : p.whole /\ p.tokens \cap ids # {}}

Validate(s) ==
    [citations  |-> Cited(s) \cap Passages,
     citedGraph |-> graphAvailable /\ Graph \in Cited(s),
     unknown    |-> Unknown(s),
     claims     |-> ClaimsCiting(s, Unknown(s))]

Ok(c) == c.unknown = {}

\* A sentence each, or the bare ids when they are in no sentence.
UnverifiedClaimsOnly(c) == c.claims                                 \* mutant
UnverifiedClaims(c) ==
    IF c.claims # {} THEN c.claims ELSE {[tokens |-> {t}, whole |-> FALSE] : t \in c.unknown}

-----------------------------------------------------------------------------
(* answer_from                                                             *)

AttemptsAlways == IF MaxAttempts = 0 THEN 1 ELSE MaxAttempts        \* mutant
Attempts == IF streaming \/ MaxAttempts = 0 THEN 1 ELSE MaxAttempts

Init ==
    /\ graphAvailable \in BOOLEAN /\ streaming \in BOOLEAN
    /\ pc = "calling" /\ attempt = 1 /\ onText = streaming
    /\ text = <<>> /\ isRefusal = FALSE /\ check = NoCheck
    /\ notes = <<>> /\ usage = 0 /\ shown = <<>>

\* Text as it streams, shown to the caller if on_text is still set.
Say(p) ==
    /\ pc = "calling" /\ Len(text) < MaxPieces
    /\ text' = Append(text, p)
    /\ shown' = IF onText THEN Append(shown, p) ELSE shown
    /\ UNCHANGED <<inputs, pc, attempt, onText, isRefusal, check, notes, usage>>

\* The model declines, and says nothing: the loop ends, `check` is left alone.
Refuse ==
    /\ pc = "calling" /\ text = <<>> /\ pc' = "done"
    /\ isRefusal' = TRUE
    /\ usage' = usage + 1
    /\ UNCHANGED <<inputs, attempt, onText, text, check, notes, shown>>

\* AnswererUnavailableError, on the first call or on the second.
Unavailable ==
    /\ pc = "calling" /\ pc' = "raised"
    /\ UNCHANGED <<inputs, attempt, onText, text, isRefusal, check, notes, usage, shown>>

\* The call returned its text, which is validated.
Completed ==
    /\ pc = "calling"
    /\ usage' = usage + 1
    /\ check' = Validate(text)
    /\ UNCHANGED <<inputs, isRefusal>>

\* The check passed, or this was the last attempt: the answer ships.
Ship ==
    /\ Completed
    /\ Ok(check') \/ attempt = Attempts
    /\ pc' = "done"
    /\ UNCHANGED <<attempt, onText, text, notes, shown>>

\* It did not: the model is told what was wrong with this text, and called again.
NoteOf(c) == [unknown |-> c.unknown, claims |-> c.claims]

Regenerate ==
    /\ Completed
    /\ ~Ok(check') /\ attempt # Attempts
    /\ notes' = Append(notes, NoteOf(check'))
    /\ attempt' = attempt + 1
    /\ text' = <<>> /\ onText' = FALSE
    /\ UNCHANGED <<pc, shown>>

Next ==
    \/ \E p \in Pieces : Say(p)
    \/ Refuse
    \/ Unavailable
    \/ Ship
    \/ Regenerate

Spec == Init /\ [][Next]_vars

\* Answer.unverified, and is_grounded, as answer_from returns them.
Unverified == IF Ok(check) THEN {} ELSE UnverifiedClaims(check)
IsGrounded == Unverified = {}

-----------------------------------------------------------------------------

\* What was never retrieved: of the shape of a chunk id, or the graph when it was empty.
Fabricated(s) == {t \in Cited(s) : t \in Phantoms \/ (t = Graph /\ ~graphAvailable)}

\* The answer tells the truth about the text it comes with, not about a draft
\* before it: it is grounded exactly if no citation in it is fabricated, what it
\* marks is a sentence or a citation of it that is, and it lists exactly the
\* retrieved passages it cites.
HonestAnswer ==
    (pc = "done" /\ ~isRefusal) =>
        /\ IsGrounded <=> Fabricated(text) = {}
        /\ \A p \in Unverified :
               /\ p.tokens \cap Fabricated(text) # {}
               /\ p \in PiecesOf(text) \/ p.tokens \subseteq Cited(text)
        /\ check.citations = Cited(text) \cap Passages
        /\ check.citedGraph => Graph \in Cited(text) /\ graphAvailable

\* models.py, Citation: "One retrieved passage the answer cited".
CitationsAreInTheText == pc = "done" => check.citations \subseteq Cited(text)
=============================================================================
