---------------------------- MODULE SeqPacketTable ----------------------------
(***************************************************************************)
(* SeqPacketImpl::connections_ (src/src/seqpacket.cc): the map from the    *)
(* two addresses of a link to its ConnEntry, with several Connect and      *)
(* Accept RPCs and packet_callback at work on it.  All RPCs use one local  *)
(* address, so the remote address alone is the key; Any is the empty one   *)
(* an Accept waits under.                                                  *)
(*                                                                         *)
(* A connection is reduced to what the RPCs wait for: "Up" stands for      *)
(* Connected and TimerRecovery.  An RPC and its ConnEntry share a name.    *)
(* The entry is gone when the map drops the node that owns it; a thread    *)
(* that goes on to use it is undefined behaviour, and the model stops.     *)
(***************************************************************************)
EXTENDS FiniteSets

CONSTANTS
    Rpc,        \* the RPCs, and the entries they make
    Connects,   \* those that are Connect, the others are Accept
    Remote,     \* addresses of remote stations
    Any,        \* the empty address
    NoOne       \* no entry

ASSUME TableAssumption ==
    Connects \subseteq Rpc /\ Any \notin Remote /\ NoOne \notin Rpc

Key == Remote \union {Any}

VARIABLES
    table,      \* connections_: table[k] is the entry under key k
    heap,       \* the entries that exist
    pc,         \* pc[r]: where the RPC's own thread stands
    link,       \* link[r]: the state of r's connection
    dst,        \* dst[r]: the remote address that connection has
    key,        \* key[r]: the remote address in the RPC's own variable dst
    held,       \* the entry packet_callback has found and not yet used
    clash,      \* an Accept found the key of its new link taken
    crashed     \* the daemon is gone

vars == <<table, heap, pc, link, dst, key, held, clash, crashed>>

\* "waiting" in await_state_not; "informing" the client of the link; "open" in
\* the loop that reads the stream; "closing" in receive_thread.join(),
\* "unwinding" the same after an exception; "returned" or "thrown" at the end,
\* "left" for an Accept that returned because its client was gone.
PcStates == {"idle", "inserted", "waiting", "found", "informing", "open",
             "closing", "unwinding", "returned", "thrown", "left"}

\* Where the thread still refers to its entry.
Running == {"inserted", "waiting", "found", "informing", "open",
            "closing", "unwinding"}

Init ==
    /\ table = [k \in Key |-> NoOne]
    /\ heap = {}
    /\ pc = [r \in Rpc |-> "idle"]
    /\ link = [r \in Rpc |-> "Disconnected"]
    /\ dst = [r \in Rpc |-> Any]
    /\ key = [r \in Rpc |-> Any]
    /\ held = NoOne /\ clash = FALSE /\ crashed = FALSE

Dangling == {r \in Rpc : pc[r] \in Running /\ r \notin heap}

Goto(r, l) == pc' = [pc EXCEPT ![r] = l]
Become(r, s) == link' = [link EXCEPT ![r] = s]

\* connections_.erase: whatever entry is under the key goes.
erase(k) ==
    /\ table' = [table EXCEPT ![k] = NoOne]
    /\ heap' = heap \ {table[k]}

------------------------------------------------------------------------------
(* The RPC threads.                                                        *)

insert_mutant_overwrites(r, k) ==
    /\ table' = [table EXCEPT ![k] = r]
    /\ heap' = (heap \ {table[k]}) \union {r}

\* The insert of a new entry; a duplicate is refused before it comes to this.
insert(r, k) ==
    /\ table[k] = NoOne
    /\ table' = [table EXCEPT ![k] = r]
    /\ heap' = heap \union {r}

Accept2_insert(r) ==
    /\ pc[r] = "idle" /\ r \notin Connects
    /\ \/ insert(r, Any) /\ Goto(r, "waiting")
       \/ table[Any] # NoOne /\ Goto(r, "thrown") /\ UNCHANGED <<table, heap>>
    /\ UNCHANGED <<link, dst, key, held, clash, crashed>>

\* The message of Connect2's exception reads the id of the entry it has moved
\* away: a duplicate takes the daemon down.
Connect2_insert(r, k) ==
    /\ pc[r] = "idle" /\ r \in Connects
    /\ \/ /\ insert(r, k)
          /\ key' = [key EXCEPT ![r] = k]
          /\ Goto(r, "inserted")
          /\ UNCHANGED crashed
       \/ table[k] # NoOne /\ crashed' = TRUE /\ UNCHANGED <<table, heap, key, pc>>
    /\ UNCHANGED <<link, dst, held, clash>>

Connect2_dl_connect(r) ==
    /\ pc[r] = "inserted"
    /\ Goto(r, "waiting") /\ Become(r, "AwaitingConnection")
    /\ dst' = [dst EXCEPT ![r] = key[r]]
    /\ UNCHANGED <<table, heap, key, held, clash, crashed>>

\* await_state_not returns.
Opened(r) ==
    /\ pc[r] = "waiting"
    /\ link[r] # IF r \in Connects THEN "AwaitingConnection" ELSE "Disconnected"
    /\ Goto(r, IF r \in Connects THEN "informing" ELSE "found")
    /\ UNCHANGED <<table, heap, link, dst, key, held, clash, crashed>>

rekey_mutant_copy(r) == [table EXCEPT ![dst[r]] = IF @ = NoOne THEN r ELSE @]
rekey_mutant_lost(r) == [table EXCEPT ![Any] = NoOne]

rekey(r) ==
    [table EXCEPT ![Any] = NoOne, ![dst[r]] = IF @ = NoOne THEN r ELSE @]

\* The node is taken out from under {src, ""} and put in under {src, dst}; where
\* that key is taken, the node is not put in and its entry goes with it.
Accept2_rekey(r) ==
    /\ pc[r] = "found"
    /\ table' = rekey(r)
    /\ IF table[dst[r]] = NoOne
       THEN UNCHANGED <<heap, clash>>
       ELSE heap' = heap \ {r} /\ clash' = TRUE
    /\ key' = [key EXCEPT ![r] = dst[r]]
    /\ Goto(r, "informing")
    /\ UNCHANGED <<link, dst, held, crashed>>

Informed(r) ==
    /\ pc[r] = "informing" /\ Goto(r, "open")
    /\ UNCHANGED <<table, heap, link, dst, key, held, clash, crashed>>

\* The stream is gone: Connect2's Defer erases the entry, Accept2 leaves it.
Uninformed(r) ==
    /\ pc[r] = "informing"
    /\ \/ r \in Connects /\ erase(key[r]) /\ Goto(r, "returned")
       \/ r \notin Connects /\ Goto(r, "left") /\ UNCHANGED <<table, heap>>
    /\ UNCHANGED <<link, dst, key, held, clash, crashed>>

dl_disconnect(r) ==
    /\ pc[r] = "open" /\ Goto(r, "closing")
    /\ IF link[r] = "Up" THEN Become(r, "AwaitingRelease") ELSE UNCHANGED link
    /\ UNCHANGED <<table, heap, dst, key, held, clash, crashed>>

\* send() throws in the RPC's own thread: out of dl_connect, a timer of
\* await_state_not, dl_data or dl_disconnect.
Throws(r) ==
    /\ \/ pc[r] \in {"inserted", "open"}
       \/ pc[r] = "waiting" /\ link[r] = "AwaitingConnection"
    /\ Goto(r, "unwinding")
    /\ UNCHANGED <<table, heap, link, dst, key, held, clash, crashed>>

Joined_mutant_leaves(r) ==
    /\ link[r] # "Up"
    /\ \/ pc[r] = "closing" /\ erase(key[r]) /\ Goto(r, "returned")
       \/ pc[r] = "unwinding" /\ Goto(r, "thrown") /\ UNCHANGED <<table, heap>>
    /\ UNCHANGED <<link, dst, key, held, clash, crashed>>

\* The reader, if there is one, has seen that the link is down, and is joined.
\* After an exception only Connect2's Defer erases the entry.
Joined(r) ==
    /\ link[r] # "Up"
    /\ \/ pc[r] = "closing" /\ erase(key[r]) /\ Goto(r, "returned")
       \/ pc[r] = "unwinding" /\ Goto(r, "thrown")
          /\ IF r \in Connects THEN erase(key[r]) ELSE UNCHANGED <<table, heap>>
    /\ UNCHANGED <<link, dst, key, held, clash, crashed>>

------------------------------------------------------------------------------
(* packet_callback: the search without mu_, then the call on what it found *)
(* under the entry's own mutex.                                            *)

\* What it has found, for which frame.
Found(r, type, x) == [entry |-> r, type |-> type, from |-> x]

find(type, x) ==
    LET k == IF type = "sabm" THEN Any ELSE x
    IN  /\ held = NoOne /\ table[k] # NoOne
        /\ held' = Found(table[k], type, x)
        /\ UNCHANGED <<table, heap, pc, link, dst, key, clash, crashed>>

\* A SABM sets the remote address of a connection that has none.  Of the other
\* frames a UA answers a SABM, a DISC ends the link, and a UA or a sequence
\* number out of place sets it up anew.
apply ==
    /\ held # NoOne /\ held' = NoOne
    /\ LET r == held.entry
       IN  \/ /\ held.type = "sabm" /\ link[r] = "Disconnected"
              /\ Become(r, "Up") /\ dst' = [dst EXCEPT ![r] = held.from]
           \/ /\ held.type = "other" /\ UNCHANGED dst
              /\ \/ link[r] = "AwaitingConnection" /\ Become(r, "Up")
                 \/ link[r] = "Up" /\ Become(r, "Disconnected")
                 \/ link[r] = "Up" /\ Become(r, "AwaitingConnection")
           \/ (held.type = "other" \/ link[r] # "Disconnected") /\ UNCHANGED <<link, dst>>
    /\ UNCHANGED <<table, heap, pc, key, clash, crashed>>

\* A connection whose timers some thread triggers: Connect2's in
\* await_state_not, then the reader as long as the link is up.
Timed(r) ==
    \/ pc[r] = "waiting" /\ link[r] = "AwaitingConnection"
    \/ pc[r] \in {"open", "closing", "unwinding"} /\ link[r] = "Up"

\* The last T1.
GivenUp(r) ==
    /\ Timed(r) /\ Become(r, "Disconnected")
    /\ UNCHANGED <<table, heap, pc, dst, key, held, clash, crashed>>

\* send() throws where nobody catches: in the reader, or in packet_callback.
Terminate ==
    /\ (held # NoOne \/ \E r \in Rpc : pc[r] # "waiting" /\ Timed(r))
    /\ crashed' = TRUE
    /\ UNCHANGED <<table, heap, pc, link, dst, key, held, clash>>

\* Nothing undefined has happened.
Defined == ~crashed /\ Dangling = {} /\ (held # NoOne => held.entry \in heap)

Next ==
    /\ Defined
    /\ \/ \E r \in Rpc :
             \/ Accept2_insert(r) \/ Connect2_dl_connect(r) \/ Opened(r)
             \/ Accept2_rekey(r) \/ Informed(r) \/ Uninformed(r)
             \/ dl_disconnect(r) \/ Throws(r) \/ Joined(r) \/ GivenUp(r)
             \/ \E k \in Remote : Connect2_insert(r, k)
       \/ \E x \in Remote, type \in {"sabm", "other"} : find(type, x)
       \/ apply \/ Terminate

Spec == Init /\ [][Next]_vars

------------------------------------------------------------------------------
(* Properties.                                                             *)

\* Every variable has its type, and the map owns the entries: an entry exists
\* as long as it is under a key, and it is under one key only.
TypeOK ==
    /\ table \in [Key -> Rpc \union {NoOne}]
    /\ heap = {table[k] : k \in Key} \ {NoOne}
    /\ \A k, l \in Key : table[k] = table[l] => k = l \/ table[k] = NoOne
    /\ pc \in [Rpc -> PcStates]
    /\ link \in [Rpc -> {"Disconnected", "AwaitingConnection", "Up", "AwaitingRelease"}]
    /\ dst \in [Rpc -> Key] /\ key \in [Rpc -> Key]
    /\ held \in [entry : Rpc, type : {"sabm", "other"}, from : Remote] \union {NoOne}
    /\ clash \in BOOLEAN /\ crashed \in BOOLEAN

\* An Accept that waits is found by the SABM it waits for, whatever other RPCs
\* insert, erase and leave behind.
WaitingIsReachable ==
    \A r \in Rpc \ Connects : pc[r] \in {"waiting", "found"} => table[Any] = r

\* As long as no new link met the key of an old one, every RPC that serves a
\* link has its entry under the key that it will erase: nobody has replaced it,
\* and the erase takes nobody else's.
ServedIsReachable ==
    ~clash => \A r \in Rpc :
        \/ pc[r] \in {"informing", "open", "closing", "unwinding"}
        \/ pc[r] \in {"inserted", "waiting"} /\ r \in Connects
        => table[key[r]] = r

\* A Connect leaves nothing behind, however it ends: a later Connect to the same
\* station is not refused because of it.
ConnectCleansUp ==
    \A r \in Connects : pc[r] \in {"returned", "thrown"} =>
        \A k \in Key : table[k] # r

\* "Lifetime of ce is until end of this function": no RPC's entry is destroyed
\* under it.
EntryOutlivesRpc == Dangling = {}
==============================================================================
