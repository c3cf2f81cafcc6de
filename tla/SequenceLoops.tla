---------------------------- MODULE SequenceLoops ----------------------------
(***************************************************************************)
(* The four loops of src/src/seqpacket_con.cc that walk the circle of      *)
(* sequence numbers, one iteration a step.  ConnectionState gives what     *)
(* they compute in closed form; here the loops themselves run, from every  *)
(* position on the circle, and are compared with it.  Two of them have no  *)
(* bound but the circle: that they end is a property.                      *)
(***************************************************************************)
EXTENDS ConnectionState

CONSTANTS MaxQueue      \* bound: length of the two queues of the inputs

ASSUME MaxQueueAssumption == MaxQueue \in Nat

VARIABLES
    loop,   \* which loop runs; "done" when it has ended
    ran,    \* which loop it was
    input,  \* the connection it started from
    arg,    \* its argument nr
    c,      \* the connection now
    i,      \* the loop's own variable (t, i; the position of itr in inv.)
    found   \* what in_range returns

vars == <<loop, ran, input, arg, c, i, found>>

Circle == 0 .. Modulus - 1
Numbered(n) == [k \in 1 .. n |-> CHOOSE p \in Payload : p = k]

At(va, vs, waiting, stored) ==
    [NewConnection EXCEPT
        !.st = "Connected", !.modulus = Modulus, !.va = va, !.vs = vs,
        !.iframe_queue = Numbered(waiting),
        !.iframe_resend_queue = Numbered(stored)]

Start(l, conn, nr, first) ==
    /\ loop = l /\ ran = l /\ input = conn /\ arg = nr
    /\ c = conn /\ i = first /\ found = FALSE

Init ==
    \E va, vs \in Circle, n \in 0 .. MaxQueue :
        \/ \E nr \in 0 .. Modulus :
              Start("in_range", At(va, vs, 0, 0), nr, va)
        \/ Start("update_ack", At(va, 0, 0, n), vs, 0)
        \/ Start("invoke_retransmission", At(0, vs, 0, n), va, va)
        \/ \E t1, t3 \in BOOLEAN :
              Start("dl_data_poll",
                    [At(va, vs, n, n) EXCEPT !.t1 = t1, !.t3 = t3], 0, 0)

next_mutant_narrow(x) == (x + 1) % (Modulus - 1)

next(x) == (x + 1) % Modulus

End(conn, result) ==
    /\ loop' = "done" /\ c' = conn /\ found' = result
    /\ UNCHANGED <<ran, input, arg, i>>

Iterate(conn, j) ==
    /\ c' = conn /\ i' = j
    /\ UNCHANGED <<loop, ran, input, arg, found>>

in_range_loop ==
    /\ loop = "in_range"
    /\ \/ i = arg /\ End(c, TRUE)
       \/ i # arg /\ i = c.vs /\ End(c, FALSE)
       \/ i # arg /\ i # c.vs /\ Iterate(c, next(i))

update_ack_loop ==
    /\ loop = "update_ack"
    /\ \/ c.va = arg /\ End(c, TRUE)
       \/ c.va # arg /\ c.iframe_resend_queue = <<>> /\ End(fail(input), TRUE)
       \/ /\ c.va # arg /\ c.iframe_resend_queue # <<>>
          /\ Iterate([c EXCEPT !.iframe_resend_queue = Tail(@),
                               !.va = next(@)], i)

\* itr has advanced as often as the loop has pushed a frame.
invoke_retransmission_loop ==
    LET store == c.iframe_resend_queue
        pushed == Len(c.iframe_queue) - Len(input.iframe_queue)
    IN  /\ loop = "invoke_retransmission"
        /\ \/ i = c.vs /\ End([c EXCEPT !.vs = arg, !.iframe_queue = store], TRUE)
           \/ i # c.vs /\ pushed = Len(store) /\ End(fail(input), TRUE)
           \/ /\ i # c.vs /\ pushed < Len(store)
              /\ Iterate([c EXCEPT !.iframe_queue =
                            <<store[Len(store) - pushed]>> \o @], next(i))

dl_data_poll_loop ==
    /\ loop = "dl_data_poll"
    /\ \/ /\ c.iframe_queue = <<>> \/ c.vs = (c.va + K) % Modulus
          /\ End(c, TRUE)
       \/ /\ c.iframe_queue # <<>> /\ c.vs # (c.va + K) % Modulus
          /\ LET last == c.vs = (c.va + K + Modulus - 1) % Modulus
                 d == send(c, Iframe(c.vs, c.vr, last, Head(c.iframe_queue)))
             IN  Iterate([d EXCEPT !.iframe_queue = Tail(@), !.vs = next(@),
                                   !.t3 = @ /\ c.t1, !.t1 = TRUE], i)

Next == \/ in_range_loop \/ update_ack_loop
        \/ invoke_retransmission_loop \/ dl_data_poll_loop

Spec == Init /\ [][Next]_vars /\ WF_vars(Next)

\* in_range says of every nr, on the circle or off it, whether it lies between
\* va and vs, walking forward; equal va and vs enclose one number only.
InRangeIsBetween ==
    loop = "done" /\ ran = "in_range" => found = in_range(input, arg)

\* The loops that move frames between the queues do what the closed forms do,
\* asserts, poll bit and timers included.
LoopsMatchClosedForms ==
    loop = "done" =>
        CASE ran = "update_ack" -> c = update_ack(input, arg)
          [] ran = "invoke_retransmission" ->
                c = invoke_retransmission(input, arg)
          [] ran = "dl_data_poll" -> c = dl_data_poll(input)
          [] OTHER -> TRUE

\* The loops that have no bound but the circle end.
LoopsEnd == <>(loop = "done")
==============================================================================
