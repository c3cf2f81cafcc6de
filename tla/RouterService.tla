--------------------------- MODULE RouterService ---------------------------
(***************************************************************************)
(* What a RouterService promises to those who stream frames from it:       *)
(* there is one sequence of frames, and each client is handed the frames   *)
(* of it from the moment it joined, every one, in that order, until it     *)
(* leaves.                                                                 *)
(***************************************************************************)
EXTENDS Naturals, Sequences

CONSTANT Client     \* the callers of StreamFrames

VARIABLES
    published,  \* the frames, in the order in which the router passes them on
    member,     \* member[c]: "out" before it joins, "in", "gone"
    joined,     \* joined[c]: how many frames had been published when c joined
    got         \* got[c]: the frames c was handed

vars == <<published, member, joined, got>>

Init ==
    /\ published = <<>>
    /\ member = [c \in Client |-> "out"]
    /\ joined = [c \in Client |-> 0]
    /\ got = [c \in Client |-> <<>>]

Publish ==
    /\ Len(published') = Len(published) + 1
    /\ SubSeq(published', 1, Len(published)) = published
    /\ UNCHANGED <<member, joined, got>>

Join(c) ==
    /\ member[c] = "out"
    /\ member' = [member EXCEPT ![c] = "in"]
    /\ joined' = [joined EXCEPT ![c] = Len(published)]
    /\ UNCHANGED <<published, got>>

Deliver(c) ==
    /\ member[c] = "in" /\ joined[c] + Len(got[c]) < Len(published)
    /\ got' = [got EXCEPT ![c] = Append(@, published[joined[c] + Len(@) + 1])]
    /\ UNCHANGED <<published, member, joined>>

Leave(cs) ==
    /\ member' = [c \in Client |-> IF c \in cs THEN "gone" ELSE member[c]]
    /\ UNCHANGED <<published, joined, got>>

Next ==
    \/ Publish
    \/ \E c \in Client : Join(c) \/ Deliver(c)
    \/ \E cs \in SUBSET Client : Leave(cs)

Spec == Init /\ [][Next]_vars

\* A client that stays is handed every frame.
Liveness == \A c \in Client : WF_vars(Deliver(c))
==============================================================================
