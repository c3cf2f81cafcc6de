--------------------------------- MODULE Hub ---------------------------------
(***************************************************************************)
(* The router hub (src/src/router_hub.cc): what one caller Sends is        *)
(* written to every client of StreamFrames.  A client's entry is erased    *)
(* from clients_ without the mutex; where that meets another use of        *)
(* clients_ the behaviour is undefined and the model stops.                *)
(***************************************************************************)
EXTENDS Naturals, Sequences

CONSTANTS
    Client,     \* callers of StreamFrames
    Payload     \* Payload[i]: the i-th frame to be sent

VARIABLES
    published,  \* history: the frames of the Sends, in the order they got mu_
    handler,    \* handler[c]: where c's StreamFrames stands
    gone,       \* clients that have cancelled their stream
    joined,     \* history: Len(published) when the client joined
    got,        \* history: what Write has handed each client
    clients,    \* clients_
    sending,    \* a Send holds mu_
    todo        \* the entries of clients_ it has not come to yet

hubVars == <<clients, sending, todo>>
vars == <<published, handler, gone, joined, got, hubVars>>

Init ==
    /\ published = <<>>
    /\ handler = [c \in Client |-> "out"] /\ gone = {}
    /\ joined = [c \in Client |-> 0] /\ got = [c \in Client |-> <<>>]
    /\ clients = {} /\ sending = FALSE /\ todo = {}

Free == ~sending /\ \A c \in Client : handler[c] # "inserting"

\* erase() runs while another thread is inside clients_.
Torn ==
    \E c \in Client :
        /\ handler[c] = "erasing"
        /\ sending \/ \E d \in Client \ {c} : handler[d] \in {"inserting", "erasing"}

------------------------------------------------------------------------------
StreamFrames(c) ==
    /\ handler[c] = "out" /\ Free
    /\ handler' = [handler EXCEPT ![c] = "inserting"]
    /\ UNCHANGED <<published, gone, joined, got, hubVars>>

StreamFrames_inserted(c) ==
    /\ handler[c] = "inserting"
    /\ handler' = [handler EXCEPT ![c] = "in"]
    /\ clients' = clients \union {c}
    /\ joined' = [joined EXCEPT ![c] = Len(published)]
    /\ UNCHANGED <<published, gone, got, sending, todo>>

client_cancels(c) ==
    /\ handler[c] = "in" /\ c \notin gone /\ gone' = gone \union {c}
    /\ UNCHANGED <<published, handler, joined, got, hubVars>>

\* IsCancelled() is asked under mu_, once a second.
StreamFrames_cancelled(c) ==
    /\ handler[c] = "in" /\ c \in gone /\ Free
    /\ handler' = [handler EXCEPT ![c] = "erasing"]
    /\ UNCHANGED <<published, gone, joined, got, hubVars>>

StreamFrames_erased_mutant_kept(c) ==
    /\ handler[c] = "erasing"
    /\ handler' = [handler EXCEPT ![c] = "done"]
    /\ UNCHANGED <<published, gone, joined, got, hubVars>>

StreamFrames_erased(c) ==
    /\ handler[c] = "erasing"
    /\ handler' = [handler EXCEPT ![c] = "done"]
    /\ clients' = clients \ {c}
    /\ UNCHANGED <<published, gone, joined, got, sending, todo>>

------------------------------------------------------------------------------
Send ==
    /\ Free /\ Len(published) < Len(Payload)
    /\ published' = Append(published, Payload[Len(published) + 1])
    /\ sending' = TRUE /\ todo' = clients
    /\ UNCHANGED <<handler, gone, joined, got, clients>>

\* A Write that fails is logged.
Send_write(c) ==
    /\ c \in todo /\ todo' = todo \ {c}
    /\ got' = IF c \in gone THEN got
              ELSE [got EXCEPT ![c] = Append(@, published[Len(published)])]
    /\ UNCHANGED <<published, handler, gone, joined, clients, sending>>

Send_end ==
    /\ sending /\ todo = {} /\ sending' = FALSE
    /\ UNCHANGED <<published, handler, gone, joined, got, clients, todo>>

\* What the threads do of their own accord.
Progress ==
    /\ ~Torn
    /\ \/ \E c \in Client :
             \/ StreamFrames_inserted(c) \/ StreamFrames_cancelled(c)
             \/ StreamFrames_erased(c) \/ Send_write(c)
       \/ Send_end

Next ==
    \/ Progress
    \/ /\ ~Torn
       /\ \/ \E c \in Client : StreamFrames(c) \/ client_cancels(c)
          \/ Send

------------------------------------------------------------------------------
(* Properties.                                                             *)

\* A Send never writes to a stream whose handler has returned: the stream object
\* went with the handler.
WritersLive == \A c \in clients : handler[c] # "done"
==============================================================================
