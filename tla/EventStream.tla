----------------------------- MODULE EventStream -----------------------------
(***************************************************************************)
(* What the reader of POST /ask with "stream": true is promised: the text  *)
(* as the model says it, nothing lost, repeated or reordered, and then one *)
(* last event.  Nothing follows it.                                        *)
(***************************************************************************)
EXTENDS Naturals, Sequences

CONSTANTS Tokens, Terminals

VARIABLES
    said,    \* the tokens the model has produced
    events,  \* the events the reader has been sent
    open     \* whether the response is still open

vars == <<said, events, open>>

Init == said = <<>> /\ events = <<>> /\ open = TRUE

Say(t) == said' = Append(said, t) /\ UNCHANGED <<events, open>>

Send ==
    /\ open /\ Len(events) < Len(said)
    /\ events' = Append(events, said[Len(events) + 1])
    /\ UNCHANGED <<said, open>>

End(kind) ==
    /\ open /\ Len(events) = Len(said)
    /\ events' = Append(events, kind)
    /\ open' = FALSE
    /\ UNCHANGED said

\* The reader hangs up.
HangUp == open /\ open' = FALSE /\ UNCHANGED <<said, events>>

Next == (\E t \in Tokens : Say(t)) \/ Send \/ (\E kind \in Terminals : End(kind)) \/ HangUp

Spec == Init /\ [][Next]_vars
=============================================================================
