------------------------------- MODULE Routers -------------------------------
(***************************************************************************)
(* The two programs that are a RouterService, side by side: a run is of    *)
(* one of them, and both keep the contract of module RouterService.        *)
(***************************************************************************)
EXTENDS Naturals, Sequences, Functions

CONSTANTS Client, Sender, Payload, Leftover, MaxFaults

VARIABLES
    service,    \* "serial" or "hub"
    submitted, published, handler, gone, joined, got,
    rest, line, buf, state, reader, queue, faults, calm,
    clients, sending, todo

S == INSTANCE Serial
H == INSTANCE Hub

serialOnly == <<submitted, rest, line, buf, state, reader, queue, faults, calm>>
hubOnly    == <<clients, sending, todo>>
vars == <<service, serialOnly, hubOnly, published, handler, gone, joined, got>>

ASSUME PayloadAssumption == Payload \in Seq(Seq(S!Octet))
ASSUME MaxFaultsAssumption == MaxFaults \in Nat

\* The service cannot tell a whole frame that was on the line before it started
\* from one that is sent later: what is left over holds none.
NoFrame(s) == S!Invalid(s) \/ S!kiss_unescape(s) = <<>> \/ S!kiss_unescape(s)[1] # 0

ASSUME LeftoverAssumption ==
    \A l \in Leftover :
        /\ l \in Seq(S!Octet)
        /\ \A i \in 1 .. Len(l) : \A j \in i + 1 .. Len(l) + 1 :
              /\ l[i] = S!FEND /\ (j = Len(l) + 1 \/ l[j] = S!FEND)
              /\ \A k \in i + 1 .. j - 1 : l[k] # S!FEND
              => NoFrame(SubSeq(l, i + 1, j - 1))

Init ==
    /\ service \in {"serial", "hub"} /\ S!Init /\ H!Init
    /\ service = "hub" => line = <<>>

OfSerial(A) == service = "serial" /\ A /\ UNCHANGED <<service, hubOnly>>
OfHub(A)    == service = "hub" /\ A /\ UNCHANGED <<service, serialOnly>>

Next == OfSerial(S!Next) \/ OfHub(H!Next)

\* The threads of the services run, and a client that has not gone reads what is
\* written to it.  Nobody need call Send or StreamFrames, or leave.
FairSpec ==
    /\ Init /\ [][Next]_vars
    /\ WF_vars(OfSerial(S!Progress)) /\ WF_vars(OfHub(H!Progress))

------------------------------------------------------------------------------
\* Every variable has its type; one Send writes at a time, and the hub's list
\* holds no client whose handler has returned.
TypeOK ==
    /\ service \in {"serial", "hub"}
    /\ submitted \in Seq([payload : Range(Payload), whole : BOOLEAN])
    /\ published \in Seq(Seq(S!Octet)) /\ got \in [Client -> Seq(Seq(S!Octet))]
    /\ handler \in [Client -> {"out", "inserting", "in", "erasing", "done"}]
    /\ gone \subseteq Client /\ clients \subseteq Client /\ todo \subseteq clients
    /\ joined \in [Client -> 0 .. Len(Payload)]
    /\ rest \in [Sender -> Seq(S!Octet)] /\ S!OneWriter
    /\ line \in Seq(S!Octet) /\ buf \in Seq(S!Octet)
    /\ state \in {"UNKNOWN", "READING"} /\ reader \in {"running", "reopening"}
    /\ queue \in [Client -> Seq(Seq(S!Octet))]
    /\ faults \in 0 .. MaxFaults /\ calm \in 0 .. Len(submitted)
    /\ sending \in BOOLEAN /\ H!WritersLive

\* See Serial.
FramesIntact == service = "serial" => S!FramesIntact
Resynchronises == service = "serial" => S!Resynchronises

\* Where the contract sees the client.
member == [c \in Client |->
             CASE c \in gone                          -> "gone"
               [] handler[c] \in {"out", "inserting"} -> "out"
               [] OTHER                               -> "in"]

Contract == INSTANCE RouterService

\* Whichever program it is, a client is handed the frames that pass through it
\* from the moment it joined, all of them and in their order.
KeepsContract == Contract!Spec

\* None of them waits for ever, unless the hub's list was torn.
FramesArrive == []<>H!Torn \/ Contract!Liveness
==============================================================================
