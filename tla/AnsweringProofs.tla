--------------------------- MODULE AnsweringProofs ---------------------------
(***************************************************************************)
(* For any passages, tokens, pieces and number of attempts: the streamed   *)
(* answer keeps the promise of EventStream while its loop checks and       *)
(* regenerates, and what an answer says of its citations is so.            *)
(***************************************************************************)
EXTENDS Answering, SequenceTheorems, TLAPS

-----------------------------------------------------------------------------
(* Each part runs as it does alone.                                        *)

LEMMA LoopSteps == [Next]_vars => [Loop!Next]_(Loop!vars)
<1> SUFFICES ASSUME [Next]_vars PROVE [Loop!Next]_(Loop!vars)
  OBVIOUS
<1>1. CASE UNCHANGED loopVars
  BY <1>1 DEF loopVars, Loop!vars, Loop!inputs
<1>2. CASE \E p \in Pieces : Say(p)
  BY <1>2 DEF Say, Loop!Next
<1>3. CASE Regenerate
  BY <1>3 DEF Regenerate, Loop!Next
<1>4. CASE Return
  BY <1>4 DEF Return, Loop!Next
<1>5. CASE Raise
  BY <1>5 DEF Raise, Loop!Next
<1> QED
  BY <1>1, <1>2, <1>3, <1>4, <1>5
  DEF Next, Worker, Retrieve, Around, Generator, HangUp, vars

LEMMA StreamSteps == [Next]_vars => [Stream!Next]_(Stream!vars)
<1> SUFFICES ASSUME [Next]_vars PROVE [Stream!Next]_(Stream!vars)
  OBVIOUS
<1>1. CASE \E p \in Pieces : Say(p)
  <2>1. PICK p \in Pieces : Say(p)
    BY <1>1
  <2>2. CASE onText
    BY <2>1, <2>2 DEF Say, Stream!Next, Stream!Worker
  <2>3. CASE ~onText
    BY <2>1, <2>3 DEF Say, Loop!Say, streamVars, Stream!vars
  <2> QED
    BY <2>2, <2>3
<1>2. CASE Regenerate
  BY <1>2 DEF Regenerate, Loop!Regenerate, streamVars, Stream!vars
<1>3. CASE Return
  <2>1. shown' = shown
    BY <1>3 DEF Return, Loop!Ship, Loop!Refuse
  <2> QED
    BY <1>3, <2>1 DEF Return, Stream!Next, Stream!Worker, Stream!vars, streamVars
<1>4. CASE Raise
  <2>1. shown' = shown
    BY <1>4 DEF Raise, Loop!Unavailable
  <2> QED
    BY <1>4, <2>1 DEF Raise, Stream!Next, Stream!Worker, Stream!vars, streamVars
<1>5. CASE Retrieve \/ Around
  BY <1>5 DEF Retrieve, Around, Stream!Next, Stream!Worker
<1>6. CASE Generator \/ HangUp
  BY <1>6 DEF Generator, HangUp, Stream!Next
<1>7. CASE UNCHANGED vars
  BY <1>7 DEF vars, streamVars, loopVars, Stream!vars
<1> QED
  BY <1>1, <1>2, <1>3, <1>4, <1>5, <1>6, <1>7 DEF Next, Worker

\* The loop inside the worker behaves as the loop alone: nothing the stream or its
\* reader does disturbs an answer (answer_from under _stream).
THEOREM LoopImplemented == Spec => Loop!Spec
<1>1. Init => Loop!Init
  BY DEF Init
<1> QED
  BY <1>1, LoopSteps, PTL DEF Spec, Loop!Spec

\* And the stream around the loop behaves as a stream of any text.
THEOREM StreamImplemented == Spec => Stream!Spec
<1>1. Init => Stream!Init
  BY DEF Init
<1> QED
  BY <1>1, StreamSteps, PTL DEF Spec, Stream!Spec

-----------------------------------------------------------------------------
(* The loop.                                                               *)

\* A check is of the text that ships, unless the model declined.
LoopInv ==
    /\ text \in Seq(Loop!AnyPiece)
    /\ loop = "done" /\ ~isRefusal => check = Loop!Validate(text)

LEMMA AppendTo ==
  ASSUME NEW S, NEW s \in Seq(S), NEW e \in S
  PROVE  /\ Append(s, e) \in Seq(S)
         /\ Len(s) \in Nat /\ Len(Append(s, e)) = Len(s) + 1
         /\ \A i \in 1..Len(s) : Append(s, e)[i] = s[i]
         /\ Append(s, e)[Len(s) + 1] = e
BY AppendProperties, LenProperties

LEMMA LoopInvNext ==
  ASSUME LoopInv, [Loop!Next]_(Loop!vars)
  PROVE  LoopInv'
<1>1. graphAvailable' = graphAvailable
  BY DEF Loop!Next, Loop!Say, Loop!Refuse, Loop!Unavailable, Loop!Ship, Loop!Regenerate,
         Loop!Completed, Loop!inputs, Loop!vars
<1>2. \A s : (Loop!Validate(s))' = Loop!Validate(s)
  BY <1>1 DEF Loop!Validate, Loop!Unknown
<1>3. CASE \E p \in Pieces : Loop!Say(p)
  <2>1. PICK p \in Pieces : Loop!Say(p)
    BY <1>3
  <2>2. p \in Loop!AnyPiece
    BY AnsweringAssumption DEF Loop!AnswerAssumption
  <2>3. text' \in Seq(Loop!AnyPiece)
    BY <2>1, <2>2, AppendTo DEF LoopInv, Loop!Say
  <2> QED
    BY <2>1, <2>3 DEF LoopInv, Loop!Say
<1>4. CASE Loop!Refuse
  BY <1>4 DEF LoopInv, Loop!Refuse
<1>5. CASE Loop!Unavailable
  BY <1>5 DEF LoopInv, Loop!Unavailable
<1>6. CASE Loop!Ship
  <2>1. check' = Loop!Validate(text) /\ text' = text
    BY <1>6 DEF Loop!Ship, Loop!Completed
  <2>2. check' = (Loop!Validate(text))'
    BY <1>2, <2>1
  <2> QED
    BY <2>1, <2>2 DEF LoopInv
<1>7. CASE Loop!Regenerate
  BY <1>7 DEF LoopInv, Loop!Regenerate, Loop!Completed
<1>8. CASE UNCHANGED Loop!vars
  BY <1>2, <1>8 DEF LoopInv, Loop!vars
<1> QED
  BY <1>3, <1>4, <1>5, <1>6, <1>7, <1>8 DEF Loop!Next

LEMMA LoopInvInit == Loop!Init => LoopInv
BY DEF Loop!Init, LoopInv

LEMMA Fabricated ==
  ASSUME NEW s
  PROVE  Loop!Fabricated(s) = Loop!Unknown(s)
BY DEF Loop!Fabricated, Loop!Unknown

LEMMA LoopInvHonest == LoopInv => HonestAnswer
<1> SUFFICES ASSUME LoopInv, loop = "done", ~isRefusal
             PROVE  /\ Loop!IsGrounded <=> Loop!Fabricated(text) = {}
                    /\ \A p \in Loop!Unverified :
                           /\ p.tokens \cap Loop!Fabricated(text) # {}
                           /\ p \in Loop!PiecesOf(text) \/ p.tokens \subseteq Loop!Cited(text)
                    /\ check.citations = Loop!Cited(text) \cap Passages
                    /\ check.citedGraph => Graph \in Loop!Cited(text) /\ graphAvailable
  BY DEF HonestAnswer, Loop!HonestAnswer
<1>1. check = Loop!Validate(text)
  BY DEF LoopInv
<1> DEFINE bad == Loop!Unknown(text)
<1>2. /\ check.unknown = bad /\ check.claims = Loop!ClaimsCiting(text, bad)
      /\ check.citations = Loop!Cited(text) \cap Passages
      /\ check.citedGraph = (graphAvailable /\ Graph \in Loop!Cited(text))
  BY <1>1 DEF Loop!Validate
<1>3. bad = Loop!Fabricated(text) /\ bad \subseteq Loop!Cited(text)
  BY Fabricated DEF Loop!Unknown
<1>4. \A p \in Loop!ClaimsCiting(text, bad) : p \in Loop!PiecesOf(text) /\ p.tokens \cap bad # {}
  BY DEF Loop!ClaimsCiting
<1>5. Loop!Unverified = IF bad = {} THEN {} ELSE Loop!UnverifiedClaims(check)
  BY <1>2 DEF Loop!Unverified, Loop!Ok
<1>6. Loop!UnverifiedClaims(check) =
        IF Loop!ClaimsCiting(text, bad) # {} THEN Loop!ClaimsCiting(text, bad)
        ELSE {[tokens |-> {t}, whole |-> FALSE] : t \in bad}
  BY <1>2 DEF Loop!UnverifiedClaims
<1>7. bad # {} => Loop!UnverifiedClaims(check) # {}
  BY <1>6
<1>8. ASSUME NEW p \in Loop!Unverified
      PROVE  p.tokens \cap bad # {} /\ (p \in Loop!PiecesOf(text) \/ p.tokens \subseteq Loop!Cited(text))
  <2>1. CASE p \in Loop!ClaimsCiting(text, bad)
    BY <1>4, <2>1
  <2>2. CASE \E t \in bad : p = [tokens |-> {t}, whole |-> FALSE]
    BY <1>3, <2>2
  <2> QED
    BY <1>5, <1>6, <1>8, <2>1, <2>2
<1> QED
  BY <1>2, <1>3, <1>5, <1>7, <1>8 DEF Loop!IsGrounded

\* The answer tells the truth about the text it comes with, for every text the model
\* can write, any number of regenerations, and any stream around them (validate,
\* answer_from).
THEOREM HonestAnswerCorrect == Spec => []HonestAnswer
<1>1. Init => LoopInv
  BY LoopInvInit DEF Init
<1>2. LoopInv /\ [Next]_vars => LoopInv'
  BY LoopSteps, LoopInvNext
<1> QED
  BY <1>1, <1>2, LoopInvHonest, PTL DEF Spec

-----------------------------------------------------------------------------
(* The stream.                                                             *)

StreamTypes ==
    /\ events \in Seq(Pieces \cup {Final, Failure})
    /\ tokens \in Seq(Pieces \cup {None})
    /\ shown \in Seq(Pieces)

\* Where the two threads may be.
Phases ==
    /\ worker \in {"new", "retrieving", "running", "leaving", "exiting", "gone"}
    /\ pc \in {"new", "reading", "joining", "closing", "done", "dropped"}
    /\ worker \in {"leaving", "exiting", "gone"} => outcome \in {"answer", "error"}
    /\ pc = "new" => worker = "new"
    /\ pc = "joining" => worker \in {"exiting", "gone"}
    /\ pc \in {"closing", "done"} => worker = "gone"

\* What was said is what was sent and then what is queued, the sentinel behind it.
Queued ==
    pc \in {"new", "reading"} =>
        /\ Len(events) + Len(tokens) = Len(shown) + (IF worker \in {"exiting", "gone"} THEN 1 ELSE 0)
        /\ \A i \in 1..Len(events) : events[i] = shown[i]
        /\ \A i \in 1..Len(tokens) :
               tokens[i] = IF Len(events) + i <= Len(shown) THEN shown[Len(events) + i] ELSE None

Sent ==
    /\ pc \in {"joining", "closing"} => events = shown
    /\ pc = "done" => events = Append(shown, IF outcome = "answer" THEN Final ELSE Failure)

StreamInv == StreamTypes /\ Phases /\ Queued /\ Sent

LEMMA StreamInvInit == Stream!Init /\ shown = <<>> => StreamInv
BY DEF Stream!Init, StreamInv, StreamTypes, Phases, Queued, Sent

LEMMA HeadTail ==
  ASSUME NEW S, NEW s \in Seq(S), s # <<>>
  PROVE  /\ Head(s) = s[1] /\ Head(s) \in S /\ Tail(s) \in Seq(S)
         /\ Len(s) \in Nat \ {0} /\ Len(Tail(s)) = Len(s) - 1
         /\ \A i \in 1..Len(s) - 1 : Tail(s)[i] = s[i + 1]
BY HeadTailProperties, LenProperties

LEMMA SameSeq ==
  ASSUME NEW S, NEW T, NEW s \in Seq(S), NEW t \in Seq(T),
         Len(s) = Len(t), \A i \in 1..Len(s) : s[i] = t[i]
  PROVE  s = t
BY SeqEqual

\* The generator takes a piece, or the sentinel.
LEMMA GetKeeps ==
  ASSUME StreamInv, Stream!Get
  PROVE  /\ StreamInv'
         /\ Len(events) < Len(shown) /\ events' = Append(events, shown[Len(events) + 1])
<1> DEFINE E == Pieces \cup {Final, Failure}
           Q == Pieces \cup {None}
<1>1. /\ pc = "reading" /\ tokens # <<>> /\ Head(tokens) # None
      /\ tokens' = Tail(tokens) /\ events' = Append(events, Head(tokens))
      /\ UNCHANGED <<worker, outcome, pc, shown>>
  BY DEF Stream!Get
<1>2. events \in Seq(E) /\ tokens \in Seq(Q) /\ shown \in Seq(Pieces)
  BY DEF StreamInv, StreamTypes
<1>3. Len(events) \in Nat /\ Len(shown) \in Nat
  BY <1>2, LenProperties
<1> HIDE DEF E, Q
<1>4. /\ Head(tokens) = tokens[1] /\ Head(tokens) \in Q /\ tokens' \in Seq(Q)
      /\ Len(tokens) \in Nat \ {0} /\ Len(tokens') = Len(tokens) - 1
      /\ \A i \in 1..Len(tokens) - 1 : tokens'[i] = tokens[i + 1]
  BY <1>1, <1>2, HeadTail
<1>5. Head(tokens) \in E
  BY <1>1, <1>4 DEF E, Q
<1>6. /\ events' \in Seq(E) /\ Len(events') = Len(events) + 1
      /\ \A i \in 1..Len(events) : events'[i] = events[i]
      /\ events'[Len(events) + 1] = Head(tokens)
  BY <1>1, <1>2, <1>5, AppendTo
<1>7. /\ Len(events) + Len(tokens) = Len(shown) + (IF worker \in {"exiting", "gone"} THEN 1 ELSE 0)
      /\ \A i \in 1..Len(events) : events[i] = shown[i]
      /\ \A i \in 1..Len(tokens) :
             tokens[i] = IF Len(events) + i <= Len(shown) THEN shown[Len(events) + i] ELSE None
  BY <1>1 DEF StreamInv, Queued
<1>8. 1 \in 1..Len(tokens)
  BY <1>4
<1>9. Len(events) + 1 <= Len(shown) /\ Head(tokens) = shown[Len(events) + 1]
  BY <1>1, <1>4, <1>7, <1>8
<1>10. Len(events') + Len(tokens') = Len(shown) + (IF worker \in {"exiting", "gone"} THEN 1 ELSE 0)
  <2> DEFINE k == IF worker \in {"exiting", "gone"} THEN 1 ELSE 0
  <2>1. k \in Nat /\ Len(events) + Len(tokens) = Len(shown) + k
    BY <1>7
  <2> HIDE DEF k
  <2>2. Len(events') = Len(events) + 1 /\ Len(tokens') = Len(tokens) - 1
    BY <1>4, <1>6
  <2>3. Len(events) \in Nat /\ Len(shown) \in Nat /\ Len(tokens) \in Nat
    BY <1>3, <1>4
  <2> DEFINE e == Len(events)
             t == Len(tokens)
             n == Len(shown)
  <2>4. e \in Nat /\ t \in Nat /\ n \in Nat /\ e + t = n + k
    BY <2>1, <2>3
  <2> HIDE DEF e, t, n
  <2>5. (e + 1) + (t - 1) = n + k
    BY <2>1, <2>4
  <2>6. Len(events') + Len(tokens') = Len(shown) + k
    BY <2>2, <2>5 DEF e, t, n
  <2> QED
    BY <2>6 DEF k
<1>11. \A i \in 1..Len(events') : events'[i] = shown[i]
  <2> SUFFICES ASSUME NEW i \in 1..Len(events') PROVE events'[i] = shown[i]
    OBVIOUS
  <2>1. CASE i = Len(events) + 1
    BY <1>6, <1>9, <2>1
  <2>2. CASE i # Len(events) + 1
    <3>1. i \in 1..Len(events)
      BY <1>3, <1>6, <2>2
    <3> QED
      BY <1>6, <1>7, <3>1
  <2> QED
    BY <2>1, <2>2
<1>12. ASSUME NEW i \in 1..Len(tokens')
       PROVE  tokens'[i] = IF Len(events') + i <= Len(shown) THEN shown[Len(events') + i] ELSE None
  <2>1. i + 1 \in 1..Len(tokens) /\ tokens'[i] = tokens[i + 1] /\ i \in Nat
    BY <1>4
  <2>2. Len(events') + i = Len(events) + (i + 1)
    BY <1>3, <1>6, <2>1
  <2> QED
    BY <1>7, <2>1, <2>2
<1>13. StreamTypes'
  BY <1>1, <1>2, <1>4, <1>6 DEF StreamTypes, E, Q
<1>14. Phases'
  BY <1>1 DEF StreamInv, Phases
<1>15. Queued'
  BY <1>1, <1>10, <1>11, <1>12 DEF Queued
<1>16. Sent'
  BY <1>1 DEF Sent
<1> QED
  BY <1>1, <1>3, <1>9, <1>13, <1>14, <1>15, <1>16 DEF StreamInv

LEMMA GetNoneKeeps ==
  ASSUME StreamInv, Stream!GetNone
  PROVE  StreamInv'
<1> DEFINE E == Pieces \cup {Final, Failure}
           Q == Pieces \cup {None}
<1>1. /\ pc = "reading" /\ tokens # <<>> /\ Head(tokens) = None
      /\ tokens' = Tail(tokens) /\ pc' = "joining"
      /\ UNCHANGED <<worker, outcome, events, shown>>
  BY DEF Stream!GetNone
<1>2. events \in Seq(E) /\ tokens \in Seq(Q) /\ shown \in Seq(Pieces)
  BY DEF StreamInv, StreamTypes
<1>3. Len(events) \in Nat /\ Len(shown) \in Nat
  BY <1>2, LenProperties
<1>4. \A i \in 1..Len(shown) : shown[i] # None
  BY <1>2, ElementOfSeq, AnsweringAssumption DEF Stream!StreamingAssumption
<1> HIDE DEF E, Q
<1>5. Head(tokens) = tokens[1] /\ tokens' \in Seq(Q) /\ Len(tokens) \in Nat \ {0}
  BY <1>1, <1>2, HeadTail
<1>6. /\ Len(events) + Len(tokens) = Len(shown) + (IF worker \in {"exiting", "gone"} THEN 1 ELSE 0)
      /\ \A i \in 1..Len(events) : events[i] = shown[i]
      /\ \A i \in 1..Len(tokens) :
             tokens[i] = IF Len(events) + i <= Len(shown) THEN shown[Len(events) + i] ELSE None
  BY <1>1 DEF StreamInv, Queued
<1>7. 1 \in 1..Len(tokens)
  BY <1>5
<1>8. ~(Len(events) + 1 <= Len(shown))
  <2> SUFFICES ASSUME Len(events) + 1 <= Len(shown) PROVE FALSE
    OBVIOUS
  <2>1. tokens[1] = shown[Len(events) + 1]
    BY <1>6, <1>7
  <2>2. Len(events) + 1 \in 1..Len(shown)
    BY <1>3
  <2> QED
    BY <1>1, <1>4, <1>5, <2>1, <2>2
<1>9. worker \in {"exiting", "gone"} /\ Len(events) = Len(shown)
  BY <1>3, <1>5, <1>6, <1>8
<1>10. events = shown
  BY <1>2, <1>6, <1>9, SameSeq
<1>11. StreamTypes'
  BY <1>1, <1>2, <1>5 DEF StreamTypes, E, Q
<1>12. Phases'
  BY <1>1, <1>9 DEF StreamInv, Phases
<1>13. Queued' /\ Sent'
  BY <1>1, <1>10 DEF Queued, Sent
<1> QED
  BY <1>11, <1>12, <1>13 DEF StreamInv

\* The worker puts a piece of text.
LEMMA PutKeeps ==
  ASSUME StreamInv, NEW p \in Pieces, Stream!Put(p)
  PROVE  StreamInv'
<1> DEFINE Q == Pieces \cup {None}
<1>1. /\ worker = "running" /\ tokens' = Append(tokens, p) /\ shown' = Append(shown, p)
      /\ UNCHANGED <<worker, outcome, pc, events>>
  BY DEF Stream!Put
<1>2. tokens \in Seq(Q) /\ shown \in Seq(Pieces) /\ p \in Q /\ events \in Seq(Pieces \cup {Final, Failure})
  BY DEF StreamInv, StreamTypes
<1>3. Len(events) \in Nat /\ Len(shown) \in Nat /\ Len(tokens) \in Nat
  BY <1>2, LenProperties
<1> HIDE DEF Q
<1>4. /\ tokens' \in Seq(Q) /\ Len(tokens') = Len(tokens) + 1
      /\ \A i \in 1..Len(tokens) : tokens'[i] = tokens[i]
      /\ tokens'[Len(tokens) + 1] = p
  BY <1>1, <1>2, AppendTo
<1>5. /\ shown' \in Seq(Pieces) /\ Len(shown') = Len(shown) + 1
      /\ \A i \in 1..Len(shown) : shown'[i] = shown[i]
      /\ shown'[Len(shown) + 1] = p
  BY <1>1, <1>2, AppendTo
<1>6. StreamTypes'
  BY <1>1, <1>4, <1>5, <1>2 DEF StreamTypes, Q
<1>7. pc \notin {"joining", "closing", "done"}
  BY <1>1 DEF StreamInv, Phases
<1>8. Phases' /\ Sent'
  BY <1>1, <1>7 DEF StreamInv, Phases, Sent
<1>9. Queued'
  <2> SUFFICES ASSUME pc \in {"new", "reading"}
               PROVE  /\ Len(events) + Len(tokens') = Len(shown') + 0
                      /\ \A i \in 1..Len(events) : events[i] = shown'[i]
                      /\ \A i \in 1..Len(tokens') :
                             tokens'[i] = IF Len(events) + i <= Len(shown') THEN shown'[Len(events) + i] ELSE None
    BY <1>1 DEF Queued
  <2>1. /\ Len(events) + Len(tokens) = Len(shown)
        /\ \A i \in 1..Len(events) : events[i] = shown[i]
        /\ \A i \in 1..Len(tokens) :
               tokens[i] = IF Len(events) + i <= Len(shown) THEN shown[Len(events) + i] ELSE None
    BY <1>1, <1>3 DEF StreamInv, Queued
  <2>2. Len(events) + Len(tokens') = Len(shown') + 0
    <3> DEFINE e == Len(events)
               t == Len(tokens)
               n == Len(shown)
    <3>1. e \in Nat /\ t \in Nat /\ n \in Nat /\ e + t = n
      BY <1>3, <2>1
    <3>2. Len(tokens') = t + 1 /\ Len(shown') = n + 1
      BY <1>4, <1>5
    <3> HIDE DEF e, t, n
    <3>3. e + (t + 1) = (n + 1) + 0
      BY <3>1
    <3>4. Len(events) + Len(tokens') = e + (t + 1)
      BY <3>2 DEF e
    <3> QED
      BY <3>2, <3>3, <3>4
  <2>3. \A i \in 1..Len(events) : i \in 1..Len(shown)
    BY <1>3, <2>1
  <2>4. \A i \in 1..Len(events) : events[i] = shown'[i]
    BY <1>5, <2>1, <2>3
  <2>5. ASSUME NEW i \in 1..Len(tokens')
        PROVE  tokens'[i] = IF Len(events) + i <= Len(shown') THEN shown'[Len(events) + i] ELSE None
    <3>1. CASE i = Len(tokens) + 1
      <4>1. Len(events) + i = Len(shown) + 1 /\ Len(events) + i <= Len(shown')
        BY <1>3, <1>5, <2>1, <3>1
      <4> QED
        BY <1>4, <1>5, <3>1, <4>1
    <3>2. CASE i # Len(tokens) + 1
      <4>1. i \in 1..Len(tokens)
        BY <1>3, <1>4, <3>2
      <4>2. Len(events) + i \in 1..Len(shown) /\ Len(events) + i <= Len(shown) /\ Len(events) + i <= Len(shown')
        BY <1>3, <1>5, <2>1, <4>1
      <4>3. tokens[i] = shown[Len(events) + i]
        BY <2>1, <4>1, <4>2
      <4> QED
        BY <1>4, <1>5, <4>1, <4>2, <4>3
    <3> QED
      BY <3>1, <3>2
  <2> QED
    BY <2>2, <2>4, <2>5
<1> QED
  BY <1>6, <1>8, <1>9 DEF StreamInv

\* ... and the sentinel.
LEMMA PutNoneKeeps ==
  ASSUME StreamInv, Stream!PutNone, shown' = shown
  PROVE  StreamInv'
<1> DEFINE Q == Pieces \cup {None}
<1>1. /\ worker = "leaving" /\ worker' = "exiting" /\ tokens' = Append(tokens, None)
      /\ UNCHANGED <<outcome, pc, events, shown>>
  BY DEF Stream!PutNone
<1>2. tokens \in Seq(Q) /\ shown \in Seq(Pieces) /\ None \in Q /\ events \in Seq(Pieces \cup {Final, Failure})
  BY DEF StreamInv, StreamTypes
<1>3. Len(events) \in Nat /\ Len(shown) \in Nat /\ Len(tokens) \in Nat
  BY <1>2, LenProperties
<1> HIDE DEF Q
<1>4. /\ tokens' \in Seq(Q) /\ Len(tokens') = Len(tokens) + 1
      /\ \A i \in 1..Len(tokens) : tokens'[i] = tokens[i]
      /\ tokens'[Len(tokens) + 1] = None
  BY <1>1, <1>2, AppendTo
<1>5. StreamTypes'
  BY <1>1, <1>4, <1>2 DEF StreamTypes, Q
<1>6. pc \notin {"joining", "closing", "done"}
  BY <1>1 DEF StreamInv, Phases
<1>7. Phases' /\ Sent'
  BY <1>1, <1>6 DEF StreamInv, Phases, Sent
<1>8. Queued'
  <2> SUFFICES ASSUME pc \in {"new", "reading"}
               PROVE  /\ Len(events) + Len(tokens') = Len(shown) + 1
                      /\ \A i \in 1..Len(events) : events[i] = shown[i]
                      /\ \A i \in 1..Len(tokens') :
                             tokens'[i] = IF Len(events) + i <= Len(shown) THEN shown[Len(events) + i] ELSE None
    BY <1>1 DEF Queued
  <2>1. /\ Len(events) + Len(tokens) = Len(shown)
        /\ \A i \in 1..Len(events) : events[i] = shown[i]
        /\ \A i \in 1..Len(tokens) :
               tokens[i] = IF Len(events) + i <= Len(shown) THEN shown[Len(events) + i] ELSE None
    BY <1>1, <1>3 DEF StreamInv, Queued
  <2>2. Len(events) + Len(tokens') = Len(shown) + 1
    BY <1>3, <1>4, <2>1
  <2>3. ASSUME NEW i \in 1..Len(tokens')
        PROVE  tokens'[i] = IF Len(events) + i <= Len(shown) THEN shown[Len(events) + i] ELSE None
    <3>1. CASE i = Len(tokens) + 1
      <4>1. ~(Len(events) + i <= Len(shown))
        BY <1>3, <2>1, <3>1
      <4> QED
        BY <1>4, <3>1, <4>1
    <3>2. CASE i # Len(tokens) + 1
      <4>1. i \in 1..Len(tokens)
        BY <1>3, <1>4, <3>2
      <4> QED
        BY <1>4, <2>1, <4>1
    <3> QED
      BY <3>1, <3>2
  <2> QED
    BY <2>1, <2>2, <2>3
<1> QED
  BY <1>5, <1>7, <1>8 DEF StreamInv

\* The last event.
LEMMA CloseKeeps ==
  ASSUME StreamInv, Stream!Close, shown' = shown
  PROVE  /\ StreamInv' /\ events = shown
         /\ \E kind \in {Final, Failure} : events' = Append(events, kind)
<1>1. pc = "closing" /\ pc' = "done" /\ UNCHANGED <<worker, tokens, outcome, shown>>
  BY DEF Stream!Close
<1>2. worker = "gone" /\ outcome \in {"answer", "error"} /\ events = shown
  BY <1>1 DEF StreamInv, Phases, Sent
<1> DEFINE kind == IF outcome = "answer" THEN Final ELSE Failure
<1>3. events' = Append(events, kind)
  <2>1. CASE outcome = "answer"
    <3>1. outcome # "error"
      BY <2>1
    <3> QED
      BY <2>1, <3>1 DEF Stream!Close
  <2>2. CASE outcome = "error"
    <3>1. outcome # "answer"
      BY <2>2
    <3> QED
      BY <2>2, <3>1 DEF Stream!Close
  <2> QED
    BY <1>2, <2>1, <2>2
<1>4. StreamTypes'
  BY <1>1, <1>3, AppendTo DEF StreamInv, StreamTypes
<1>5. Phases' /\ Queued' /\ Sent'
  BY <1>1, <1>2, <1>3 DEF StreamInv, Phases, Queued, Sent
<1> QED
  BY <1>2, <1>3, <1>4, <1>5 DEF StreamInv

LEMMA StreamInvNext ==
  ASSUME StreamInv, [Stream!Next]_(Stream!vars)
  PROVE  StreamInv'
<1>1. CASE \E p \in Pieces : Stream!Put(p)
  BY <1>1, PutKeeps
<1>2. CASE Stream!Retrieved
  BY <1>2 DEF Stream!Retrieved, StreamInv, StreamTypes, Phases, Queued, Sent
<1>3. CASE Stream!Answered
  BY <1>3 DEF Stream!Answered, StreamInv, StreamTypes, Phases, Queued, Sent
<1>4. CASE Stream!Raised
  BY <1>4 DEF Stream!Raised, StreamInv, StreamTypes, Phases, Queued, Sent
<1>5. CASE Stream!PutNone
  <2>1. shown' = shown
    BY <1>5 DEF Stream!PutNone
  <2> QED
    BY <1>5, <2>1, PutNoneKeeps
<1>6. CASE Stream!WorkerExits
  BY <1>6 DEF Stream!WorkerExits, StreamInv, StreamTypes, Phases, Queued, Sent
<1>7. CASE Stream!Open
  <2>1. /\ pc = "new" /\ pc' = "reading" /\ worker' = "retrieving" /\ worker \notin {"exiting", "gone"}
        /\ UNCHANGED <<tokens, outcome, events, shown>>
    BY <1>7 DEF Stream!Open, StreamInv, Phases
  <2> QED
    BY <2>1 DEF StreamInv, StreamTypes, Phases, Queued, Sent
<1>8. CASE Stream!Get
  BY <1>8, GetKeeps
<1>9. CASE Stream!GetNone
  BY <1>9, GetNoneKeeps
<1>10. CASE Stream!Join
  BY <1>10 DEF Stream!Join, StreamInv, StreamTypes, Phases, Queued, Sent
<1>11. CASE Stream!Close
  <2>1. shown' = shown
    BY <1>11 DEF Stream!Close
  <2> QED
    BY <1>11, <2>1, CloseKeeps
<1>12. CASE Stream!HangUp
  BY <1>12 DEF Stream!HangUp, StreamInv, StreamTypes, Phases, Queued, Sent
<1>13. CASE UNCHANGED Stream!vars
  BY <1>13 DEF Stream!vars, StreamInv, StreamTypes, Phases, Queued, Sent
<1> QED
  BY <1>1, <1>2, <1>3, <1>4, <1>5, <1>6, <1>7, <1>8, <1>9, <1>10, <1>11, <1>12, <1>13
  DEF Stream!Next, Stream!Worker, Stream!Generator

-----------------------------------------------------------------------------
(* The promise to the reader.                                              *)

\* Each step of the stream is one of EventStream, or none at all for the reader.
LEMMA PromiseSteps ==
  ASSUME StreamInv, [Stream!Next]_(Stream!vars)
  PROVE  [Stream!Promise!Next]_(Stream!Promise!vars)
<1> USE DEF Stream!Promise!vars
<1>1. CASE \E p \in Pieces : Stream!Put(p)
  BY <1>1 DEF Stream!Put, Stream!Promise!Next, Stream!Promise!Say
<1>2. CASE Stream!Get
  <2>1. /\ pc = "reading" /\ pc' = pc /\ shown' = shown
        /\ Len(events) < Len(shown) /\ events' = Append(events, shown[Len(events) + 1])
    BY <1>2, GetKeeps DEF Stream!Get
  <2> QED
    BY <2>1 DEF Stream!Promise!Next, Stream!Promise!Send
<1>3. CASE Stream!Close
  <2>1. pc = "closing" /\ pc' = "done" /\ shown' = shown
    BY <1>3 DEF Stream!Close
  <2>2. PICK kind \in {Final, Failure} : events' = Append(events, kind)
    BY <1>3, <2>1, CloseKeeps
  <2>3. Len(events) = Len(shown)
    BY <1>3, <2>1, CloseKeeps
  <2>4. Stream!Promise!End(kind)
    BY <2>1, <2>2, <2>3 DEF Stream!Promise!End
  <2> QED
    BY <2>2, <2>4 DEF Stream!Promise!Next
<1>4. CASE Stream!HangUp
  BY <1>4 DEF Stream!HangUp, Stream!Promise!Next, Stream!Promise!HangUp
<1>5. CASE Stream!Retrieved \/ Stream!Answered \/ Stream!Raised \/ Stream!PutNone \/ Stream!WorkerExits
  BY <1>5 DEF Stream!Retrieved, Stream!Answered, Stream!Raised, Stream!PutNone, Stream!WorkerExits
<1>6. CASE Stream!Open \/ Stream!GetNone \/ Stream!Join
  BY <1>6 DEF Stream!Open, Stream!GetNone, Stream!Join
<1>7. CASE UNCHANGED Stream!vars
  BY <1>7 DEF Stream!vars
<1> QED
  BY <1>1, <1>2, <1>3, <1>4, <1>5, <1>6, <1>7 DEF Stream!Next, Stream!Worker, Stream!Generator

\* Whatever the model says, whenever the worker fails and whenever the reader hangs
\* up, the reader gets the text as it was said, nothing lost, repeated or reordered,
\* one last event and nothing after it (_stream implements EventStream).
THEOREM KeepsPromiseCorrect == Spec => KeepsPromise
<1>1. Init => StreamInv /\ Stream!Promise!Init
  <2> SUFFICES ASSUME Init PROVE StreamInv /\ Stream!Promise!Init
    OBVIOUS
  <2>1. Stream!Init /\ shown = <<>>
    BY DEF Init, Loop!Init
  <2> QED
    BY <2>1, StreamInvInit DEF Stream!Init, Stream!Promise!Init
<1>2. StreamInv /\ [Next]_vars => StreamInv'
  BY StreamSteps, StreamInvNext
<1>3. StreamInv /\ [Next]_vars => [Stream!Promise!Next]_(Stream!Promise!vars)
  BY StreamSteps, PromiseSteps
<1> QED
  BY <1>1, <1>2, <1>3, PTL DEF Spec, KeepsPromise, Stream!KeepsPromise, Stream!Promise!Spec

-----------------------------------------------------------------------------
(* The two together.                                                       *)

\* A streamed answer is the first and only text, all of it shown; the worker
\* leaves an answer exactly if the loop came to one.
Together ==
    /\ ~streaming => pc = "new"
    /\ streaming =>
         /\ attempt = 1 /\ onText = TRUE /\ shown = text
         /\ usage = IF loop = "done" THEN 1 ELSE 0
         /\ worker \in {"new", "retrieving", "running"} => loop = "calling"
         /\ worker \in {"leaving", "exiting", "gone"} => (outcome = "answer" <=> loop = "done")

LEMMA TogetherInit == Init => Together
BY DEF Init, Loop!Init, Stream!Init, Together

LEMMA TogetherNext ==
  ASSUME StreamInv, Together, [Next]_vars
  PROVE  Together'
<1>1. CASE \E p \in Pieces : Say(p)
  <2>1. PICK p \in Pieces : Say(p)
    BY <1>1
  <2>2. /\ Loop!Say(p) /\ InLoop
        /\ IF onText THEN Stream!Put(p) ELSE UNCHANGED streamVars
    BY <2>1 DEF Say
  <2>3. UNCHANGED <<streaming, attempt, onText, usage, loop>>
    BY <2>2 DEF Loop!Say, Loop!inputs
  <2>4. UNCHANGED <<worker, pc, outcome>>
    BY <2>2 DEF Stream!Put, streamVars
  <2>5. streaming => shown' = text'
    BY <2>2 DEF Loop!Say, Together
  <2> QED
    BY <2>3, <2>4, <2>5 DEF Together
<1>2. CASE Regenerate
  <2>1. Loop!Regenerate /\ UNCHANGED streamVars /\ streaming' = streaming
    BY <1>2 DEF Regenerate, Loop!Regenerate, Loop!Completed, Loop!inputs
  <2>2. ~streaming
    <3> SUFFICES ASSUME streaming PROVE FALSE
      OBVIOUS
    <3>1. attempt # Loop!Attempts /\ attempt = 1
      BY <2>1 DEF Loop!Regenerate, Together
    <3> QED
      BY <3>1 DEF Loop!Attempts
  <2> QED
    BY <2>1, <2>2 DEF Together, streamVars
<1>3. CASE Return
  <2>1. /\ loop = "calling" /\ loop' = "done" /\ usage' = usage + 1
        /\ UNCHANGED <<streaming, attempt, onText, text, shown>>
    BY <1>3 DEF Return, Loop!Ship, Loop!Refuse, Loop!Completed, Loop!inputs
  <2>2. CASE streaming
    <3>1. worker' = "leaving" /\ outcome' = "answer" /\ pc' = pc
      BY <1>3, <2>2 DEF Return, Stream!Answered
    <3> QED
      BY <2>1, <2>2, <3>1 DEF Together
  <2>3. CASE ~streaming
    BY <1>3, <2>1, <2>3 DEF Return, Together, streamVars
  <2> QED
    BY <2>2, <2>3
<1>4. CASE Raise
  <2>1. loop = "calling" /\ loop' = "raised" /\ UNCHANGED <<streaming, attempt, onText, text, shown, usage>>
    BY <1>4 DEF Raise, Loop!Unavailable, Loop!inputs
  <2>2. CASE streaming
    <3>1. worker' = "leaving" /\ outcome' = "error" /\ pc' = pc
      BY <1>4, <2>2 DEF Raise, Stream!Raised
    <3> QED
      BY <2>1, <2>2, <3>1 DEF Together
  <2>3. CASE ~streaming
    BY <1>4, <2>1, <2>3 DEF Raise, Together, streamVars
  <2> QED
    BY <2>2, <2>3
<1>5. CASE Retrieve
  <2>1. streaming /\ worker = "retrieving" /\ UNCHANGED loopVars /\ pc' = pc
    BY <1>5 DEF Retrieve, Stream!Retrieved, Stream!Raised
  <2>2. worker' = "running" \/ (worker' = "leaving" /\ outcome' = "error")
    BY <1>5 DEF Retrieve, Stream!Retrieved, Stream!Raised
  <2>3. loop = "calling"
    BY <2>1 DEF Together
  <2> QED
    BY <2>1, <2>2, <2>3 DEF Together, loopVars
<1>6. CASE Around
  <2>1. /\ UNCHANGED loopVars /\ UNCHANGED <<pc, outcome>>
        /\ worker \in {"leaving", "exiting"} /\ worker' \in {"exiting", "gone"}
    BY <1>6 DEF Around, Stream!PutNone, Stream!WorkerExits
  <2> QED
    BY <2>1 DEF Together, loopVars
<1>7. CASE Generator
  <2>1. streaming /\ UNCHANGED loopVars /\ outcome' = outcome
    BY <1>7 DEF Generator, Stream!Generator, Stream!Open, Stream!Get, Stream!GetNone, Stream!Join, Stream!Close
  <2>2. worker' = worker \/ (worker = "new" /\ worker' = "retrieving")
    BY <1>7 DEF Generator, Stream!Generator, Stream!Open, Stream!Get, Stream!GetNone, Stream!Join, Stream!Close,
                StreamInv, Phases
  <2> QED
    BY <2>1, <2>2 DEF Together, loopVars
<1>8. CASE HangUp
  BY <1>8 DEF HangUp, Stream!HangUp, Together, loopVars
<1>9. CASE UNCHANGED vars
  BY <1>9 DEF vars, loopVars, streamVars, Together
<1> QED
  BY <1>1, <1>2, <1>3, <1>4, <1>5, <1>6, <1>7, <1>8, <1>9 DEF Next, Worker

LEMMA LastOf ==
  ASSUME NEW S, NEW s \in Seq(S), NEW T, NEW e \in T, S \subseteq T
  PROVE  /\ Append(s, e) # <<>> /\ Append(s, e)[Len(Append(s, e))] = e
         /\ SubSeq(Append(s, e), 1, Len(Append(s, e)) - 1) = s
<1>1. s \in Seq(T)
  BY ElementOfSeq, SeqDef
<1>2. /\ Append(s, e) \in Seq(T) /\ Len(s) \in Nat /\ Len(Append(s, e)) = Len(s) + 1
      /\ \A i \in 1..Len(s) : Append(s, e)[i] = s[i]
      /\ Append(s, e)[Len(s) + 1] = e
  BY <1>1, AppendTo
<1>3. SubSeq(Append(s, e), 1, Len(s)) = [i \in 1..Len(s) |-> Append(s, e)[i]]
  BY <1>2, SubSeqProperties
<1> QED
  BY <1>1, <1>2, <1>3

LEMMA FinalFollows == LoopInv /\ StreamInv /\ Together => FinalSpeaksOfWhatWasSent
<1> SUFFICES ASSUME LoopInv, StreamInv, Together, pc = "done"
             PROVE  /\ events # <<>>
                    /\ SubSeq(events, 1, Len(events) - 1) = text
                    /\ events[Len(events)] = Final <=> loop = "done"
                    /\ loop = "done" =>
                         /\ usage = 1
                         /\ isRefusal \/ (Loop!IsGrounded <=> Loop!Fabricated(text) = {})
  BY DEF FinalSpeaksOfWhatWasSent
<1>1. streaming /\ worker = "gone"
  BY DEF Together, StreamInv, Phases
<1>2. shown = text /\ (outcome = "answer" <=> loop = "done") /\ (loop = "done" => usage = 1)
  BY <1>1 DEF Together
<1> DEFINE kind == IF outcome = "answer" THEN Final ELSE Failure
<1>3. events = Append(shown, kind) /\ shown \in Seq(Pieces)
  BY DEF StreamInv, StreamTypes, Sent
<1>4. kind \in Pieces \cup {Final, Failure}
  OBVIOUS
<1>5. kind = Final <=> outcome = "answer"
  BY AnsweringAssumption DEF Stream!StreamingAssumption
<1> HIDE DEF kind
<1>6. /\ events # <<>> /\ events[Len(events)] = kind
      /\ SubSeq(events, 1, Len(events) - 1) = shown
  BY <1>3, <1>4, LastOf
<1>7. loop = "done" => (isRefusal \/ (Loop!IsGrounded <=> Loop!Fabricated(text) = {}))
  BY LoopInvHonest DEF HonestAnswer, Loop!HonestAnswer
<1> QED
  BY <1>2, <1>5, <1>6, <1>7

\* The last event of a stream speaks of the text before it: it is a final one exactly
\* if there is an answer, and that is honest about what was sent (_stream over
\* answer_from).
THEOREM FinalCorrect == Spec => []FinalSpeaksOfWhatWasSent
<1> DEFINE IInv == LoopInv /\ StreamInv /\ Together
<1>1. Init => IInv
  <2> SUFFICES ASSUME Init PROVE IInv
    OBVIOUS
  <2>1. Loop!Init /\ Stream!Init /\ shown = <<>>
    BY DEF Init, Loop!Init
  <2> QED
    BY <2>1, LoopInvInit, StreamInvInit, TogetherInit
<1>2. IInv /\ [Next]_vars => IInv'
  BY LoopSteps, StreamSteps, LoopInvNext, StreamInvNext, TogetherNext
<1>3. IInv => FinalSpeaksOfWhatWasSent
  BY FinalFollows
<1> QED
  BY <1>1, <1>2, <1>3, PTL DEF Spec
=============================================================================
