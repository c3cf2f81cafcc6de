------------------------------- MODULE T1Value -------------------------------
(***************************************************************************)
(* How long T1 runs: ConnectionState::select_t1_value                      *)
(* (src/src/seqpacket_con.cc) and what Timer::stop (seqpacket_con.h) hands *)
(* it, from one acknowledgement of a connection to the next.               *)
(***************************************************************************)
EXTENDS Integers

CONSTANT Trips      \* round trips, and times between acknowledgements, in ms

ASSUME TripsAssumption == Trips \subseteq Nat

VARIABLES
    srt, t1_ms, trip,   \* srt, T1's ms_ and the last round trip
    left,               \* ms from now to T1's deadline, 0 if past
    started,            \* T1 has been started at some time
    misread             \* history: see T1OutlastsRoundTrip

t1Vars == <<srt, t1_ms, trip, left, started, misread>>

clamp(ms) == IF ms < 100 THEN 100 ELSE IF ms > 10000 THEN 10000 ELSE ms

T1Init ==
    /\ srt = 3000 /\ trip = 0 /\ misread = FALSE
    /\ \/ t1_ms = 6000 /\ left = 6000 /\ started = TRUE   \* dl_connect
       \/ t1_ms = 3000 /\ left = 0 /\ started = FALSE     \* a SABM for a new connection

Toward(x, whole) == (7 * x + whole) \div 8

select_t1_value_mutant_single(remaining) ==
    /\ srt' = clamp(Toward(srt, t1_ms - remaining))
    /\ t1_ms' = clamp(srt')

\* With rc = 0; with any other rc it changes nothing, because T1 is never
\* running when it is called.
select_t1_value(remaining) ==
    /\ srt' = clamp(Toward(srt, t1_ms - remaining))
    /\ t1_ms' = clamp(2 * srt')

\* T1 is started, and all that was outstanding is acknowledged before it expires.
\* Bound, here and below: what a misread deadline leads to is not followed further.
round_trip ==
    /\ ~misread /\ started' = TRUE /\ UNCHANGED misread
    /\ \E r \in Trips :
          r < t1_ms /\ trip' = r /\ left' = t1_ms - r /\ select_t1_value(left')

\* An acknowledgement with nothing outstanding: stop() reads the deadline of a T1
\* that was stopped before, which may still be to come.
idle_acknowledgement ==
    /\ ~misread /\ started /\ UNCHANGED <<trip, started>>
    /\ \E e \in Trips :
          /\ left' = IF e < left THEN left - e ELSE 0
          /\ misread' = (left' > 0)
          /\ select_t1_value(left')

\* A T1 that never ran has the deadline 0 of the clock.  The distance from now is
\* negative, unless it has too many milliseconds for an int.
Never == 2 ^ 30
unstarted_acknowledgement ==
    /\ ~misread /\ ~started /\ UNCHANGED <<trip, left, started>>
    /\ \/ select_t1_value(0) /\ UNCHANGED misread
       \/ select_t1_value(Never) /\ misread' = TRUE

T1Next == round_trip \/ idle_acknowledgement \/ unstarted_acknowledgement
T1Spec == T1Init /\ [][T1Next]_t1Vars

\* A round trip shorter than T1 leaves T1 longer than it: a link whose round
\* trip is steady does not come to retransmit by adapting.  T1 stays between
\* 200 ms and 10 s.  The exception is a deadline that was taken for the end of a
\* round trip when T1 had not been running: one still to come, or one of a
\* clock that overflows the int.
T1OutlastsRoundTrip ==
    /\ 200 <= t1_ms /\ t1_ms <= 10000
    /\ trip < t1_ms \/ misread
==============================================================================
