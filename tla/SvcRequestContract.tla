------------------------- MODULE SvcRequestContract -------------------------
(***************************************************************************)
(* What every kind of multi-endpoint service request promises its client:  *)
(* the response callback is made exactly once, and the request is taken    *)
(* off the tracker once, not before the callback.                          *)
(***************************************************************************)
EXTENDS Naturals, Sequences

CONSTANT Verdicts

VARIABLES
    calls,   \* codes respCb_ was called with
    tracked  \* the request is in SvcRequestTracker

vars == <<calls, tracked>>

Init == calls = <<>> /\ tracked = TRUE

Respond ==
    /\ calls = <<>> /\ tracked
    /\ \E c \in Verdicts : calls' = <<c>>
    /\ tracked' \in BOOLEAN

Retire ==
    /\ calls # <<>> /\ tracked
    /\ tracked' = FALSE
    /\ UNCHANGED calls

Next == Respond \/ Retire

Spec == Init /\ [][Next]_vars /\ WF_vars(Next)

=============================================================================
