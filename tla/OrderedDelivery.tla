--------------------------- MODULE OrderedDelivery ---------------------------
(***************************************************************************)
(* What a SEQPACKET link promises to the two applications on it: data      *)
(* arrive in the order in which they were submitted, none twice and none   *)
(* that was not submitted.  With MaySkip = FALSE none is passed over       *)
(* either; with MaySkip = TRUE data may be missing from the middle.  The   *)
(* data an end submits are numbered 1, 2, ...                              *)
(***************************************************************************)
EXTENDS Naturals, Sequences

CONSTANTS
    End,        \* the ends of the link
    MaySkip     \* BOOLEAN: may a datum be passed over?

VARIABLES
    submitted,  \* submitted[e]: how many data end e has submitted
    delivered,  \* delivered[e]: the data of e its peer was handed, in that order
    live        \* live[e]: e has not given up or been told to stop

vars == <<submitted, delivered, live>>

Init ==
    /\ submitted = [e \in End |-> 0]
    /\ delivered = [e \in End |-> <<>>]
    /\ live = [e \in End |-> TRUE]

Submit(e) ==
    /\ submitted' = [submitted EXCEPT ![e] = @ + 1]
    /\ UNCHANGED <<delivered, live>>

last(e) == IF delivered[e] = <<>> THEN 0 ELSE delivered[e][Len(delivered[e])]

\* What was under way when the end stopped may still arrive.
Deliver(e) ==
    /\ \E n \in last(e) + 1 .. submitted[e] :
          /\ MaySkip \/ n = last(e) + 1
          /\ delivered' = [delivered EXCEPT ![e] = Append(@, n)]
    /\ UNCHANGED <<submitted, live>>

Break(e) ==
    /\ live[e]
    /\ live' = [live EXCEPT ![e] = FALSE]
    /\ UNCHANGED <<submitted, delivered>>

\* A datum of a live end is outstanding, and is delivered or the end breaks.
Settle(e) ==
    /\ live[e] /\ last(e) < submitted[e]
    /\ Deliver(e) \/ Break(e)

Next == \E e \in End : Submit(e) \/ Deliver(e) \/ Break(e)

Spec == Init /\ [][Next]_vars

\* No datum of a live end stays outstanding for ever.
Liveness == \A e \in End : WF_vars(Settle(e))
==============================================================================
