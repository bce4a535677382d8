------------------------- MODULE MCClientContinuity --------------------------
(***************************************************************************)
(* Two conversations, a with the turns q1 and q2 and the tool request q4,  *)
(* b with the turn q3.  The first state picks which of them are made: the  *)
(* three turns, with no process dying, or two requests of a with faults.   *)
(***************************************************************************)
EXTENDS ClientContinuity
CONSTANTS a, b, q1, q2, q3, q4
TwoConvs == [r \in Requests |-> IF r = q3 THEN b ELSE a]

VARIABLE made
all == <<made, vars>>

MCInit == made \in {{q1, q2, q3}, {q1, q2}, {q1, q4}} /\ Init

MCNext ==
    /\ Next /\ UNCHANGED made
    /\ \A r \in Requests \ made : req'[r].pc = "new"
    /\ made = {q1, q2, q3} => faults' = 0

MCSpec == MCInit /\ [][MCNext]_all /\ Fairness
=============================================================================
