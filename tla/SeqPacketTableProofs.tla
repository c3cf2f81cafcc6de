------------------------ MODULE SeqPacketTableProofs ------------------------
(***************************************************************************)
(* Theorems about connections_ of the seqpacket daemon, for any number of  *)
(* Connect and Accept RPCs and any set of remote stations.                 *)
(*                                                                         *)
(* The inductive invariant IInv follows each RPC's entry: under which key  *)
(* it lies while the RPC uses it, and that the RPC's own variable dst      *)
(* names that key when the RPC comes to erase it.                          *)
(***************************************************************************)
EXTENDS SeqPacketTable, TLAPS

\* An RPC that has not begun has no entry; a Connect's entry lies under its key
\* from the insert to the erase and nowhere else.
Owned ==
    \A r \in Rpc, k \in Key : table[k] = r =>
        /\ pc[r] # "idle"
        /\ r \in Connects => k = key[r] /\ pc[r] \notin {"returned", "thrown"}

\* What the RPC's variable dst and its connection's remote address hold at each
\* stage.
Keyed ==
    \A r \in Rpc :
        /\ link[r] # "Disconnected" \/ pc[r] = "found" => dst[r] \in Remote
        /\ r \in Connects => /\ pc[r] # "found"
                             /\ pc[r] # "idle" => key[r] \in Remote
        /\ r \notin Connects =>
             /\ pc[r] # "inserted"
             /\ pc[r] \in {"idle", "waiting", "found"} => key[r] = Any
             /\ pc[r] \in {"informing", "open", "closing"} => key[r] \in Remote

IInv ==
    TypeOK /\ Owned /\ Keyed /\ WaitingIsReachable /\ ServedIsReachable
\* The map owns the entries: the conjuncts of TypeOK on table and heap.
Owning ==
    /\ table \in [Key -> Rpc \union {NoOne}]
    /\ heap = {table[k] : k \in Key} \ {NoOne}
    /\ \A k, l \in Key : table[k] = table[l] => k = l \/ table[k] = NoOne

Rest ==
    /\ pc \in [Rpc -> PcStates]
    /\ link \in [Rpc -> {"Disconnected", "AwaitingConnection", "Up", "AwaitingRelease"}]
    /\ dst \in [Rpc -> Key] /\ key \in [Rpc -> Key]
    /\ held \in [entry : Rpc, type : {"sabm", "other"}, from : Remote] \union {NoOne}
    /\ clash \in BOOLEAN /\ crashed \in BOOLEAN

LEMMA TypeParts == TypeOK <=> Owning /\ Rest
BY DEF TypeOK, Owning, Rest

USE TableAssumption DEF Key

------------------------------------------------------------------------------
(* The three ways in which connections_ changes.                           *)

\* An entry under a key that was free.
LEMMA InsertOwns ==
    ASSUME Owning, NEW r \in Rpc, NEW k \in Key, \A l \in Key : table[l] # r, insert(r, k)
    PROVE  /\ Owning'
           /\ table[k] = NoOne /\ table'[k] = r
           /\ \A l \in Key \ {k} : table'[l] = table[l]
<1>1. table[k] = NoOne /\ table'[k] = r /\ \A l \in Key \ {k} : table'[l] = table[l]
  BY DEF insert, Owning
<1>2. table' \in [Key -> Rpc \union {NoOne}] /\ heap' = heap \union {r}
  BY DEF insert, Owning
<1>3. heap' = {table'[l] : l \in Key} \ {NoOne}
  BY <1>1, <1>2 DEF Owning
<1>4. \A j, l \in Key : table'[j] = table'[l] => j = l \/ table'[j] = NoOne
  BY <1>1 DEF Owning
<1> QED
  BY <1>1, <1>2, <1>3, <1>4 DEF Owning

\* A key set free, whatever lay under it.
LEMMA EraseOwns ==
    ASSUME Owning, NEW k \in Key, erase(k)
    PROVE  /\ Owning'
           /\ table'[k] = NoOne
           /\ \A l \in Key \ {k} : table'[l] = table[l]
<1>1. table'[k] = NoOne /\ \A l \in Key \ {k} : table'[l] = table[l]
  BY DEF erase, Owning
<1>2. table' \in [Key -> Rpc \union {NoOne}] /\ heap' = heap \ {table[k]}
  BY DEF erase, Owning
<1>3. heap' = {table'[l] : l \in Key} \ {NoOne}
  BY <1>1, <1>2 DEF Owning
<1>4. \A j, l \in Key : table'[j] = table'[l] => j = l \/ table'[j] = NoOne
  BY <1>1 DEF Owning
<1> QED
  BY <1>1, <1>2, <1>3, <1>4 DEF Owning

\* An entry moved from {src, ""} to {src, dst}, or dropped if that key is taken.
LEMMA RekeyOwns ==
    ASSUME Owning, NEW r \in Rpc, dst[r] \in Remote, table[Any] = r, Accept2_rekey(r)
    PROVE  /\ Owning'
           /\ table'[Any] = NoOne
           /\ table'[dst[r]] = IF table[dst[r]] = NoOne THEN r ELSE table[dst[r]]
           /\ \A l \in Key \ {Any, dst[r]} : table'[l] = table[l]
<1>1. /\ table'[Any] = NoOne
      /\ table'[dst[r]] = IF table[dst[r]] = NoOne THEN r ELSE table[dst[r]]
      /\ \A l \in Key \ {Any, dst[r]} : table'[l] = table[l]
  BY DEF Accept2_rekey, rekey, Owning
<1>2. table' \in [Key -> Rpc \union {NoOne}]
  BY DEF Accept2_rekey, rekey, Owning
<1>3. heap' = {table'[l] : l \in Key} \ {NoOne}
  <2>1. CASE table[dst[r]] = NoOne
    <3>1. heap' = heap
      BY <2>1 DEF Accept2_rekey
    <3> QED
      BY <1>1, <2>1, <3>1 DEF Owning
  <2>2. CASE table[dst[r]] # NoOne
    <3>1. heap' = heap \ {r}
      BY <2>2 DEF Accept2_rekey
    <3> QED
      BY <1>1, <2>2, <3>1 DEF Owning
  <2> QED
    BY <2>1, <2>2
<1>4. \A j, l \in Key : table'[j] = table'[l] => j = l \/ table'[j] = NoOne
  BY <1>1 DEF Owning
<1> QED
  BY <1>1, <1>2, <1>3, <1>4 DEF Owning
------------------------------------------------------------------------------
(* The actions.  One lemma each; the typing of the other variables first.  *)

LEMMA RestKept ==
    ASSUME TypeOK, Next \/ UNCHANGED vars
    PROVE  Rest'
<1> USE DEF Rest, PcStates, Goto, Become
<1>0. Rest /\ \A k \in Key : table[k] \in Rpc \union {NoOne}
  BY TypeParts DEF Owning
<1>1. ASSUME NEW r \in Rpc, Accept2_insert(r) \/ Connect2_dl_connect(r) \/ Opened(r)
      PROVE  Rest'
  BY <1>0, <1>1 DEF Accept2_insert, Connect2_dl_connect, Opened
<1>2. ASSUME NEW r \in Rpc, Accept2_rekey(r)
      PROVE  Rest'
  <2>1. clash' \in BOOLEAN
    BY <1>0, <1>2 DEF Accept2_rekey
  <2> QED
    BY <1>0, <1>2, <2>1 DEF Accept2_rekey
<1>3. ASSUME NEW r \in Rpc, Informed(r) \/ Uninformed(r)
      PROVE  Rest'
  BY <1>0, <1>3 DEF Informed, Uninformed
<1>4. ASSUME NEW r \in Rpc, dl_disconnect(r) \/ Throws(r) \/ Joined(r) \/ GivenUp(r)
      PROVE  Rest'
  BY <1>0, <1>4 DEF dl_disconnect, Throws, Joined, GivenUp
<1>5. ASSUME NEW r \in Rpc, NEW k \in Remote, Connect2_insert(r, k)
      PROVE  Rest'
  <2>1. crashed' \in BOOLEAN
    BY <1>0, <1>5 DEF Connect2_insert
  <2> QED
    BY <1>0, <1>5, <2>1 DEF Connect2_insert
<1>6. ASSUME NEW x \in Remote, NEW type \in {"sabm", "other"}, find(type, x)
      PROVE  Rest'
  BY <1>0, <1>6 DEF find, Found
<1>7. CASE apply
  BY <1>0, <1>7 DEF apply
<1>8. CASE Terminate
  BY <1>0, <1>8 DEF Terminate
<1>9. CASE UNCHANGED vars
  BY <1>0, <1>9 DEF vars
<1> QED
  BY <1>1, <1>2, <1>3, <1>4, <1>5, <1>6, <1>7, <1>8, <1>9 DEF Next

\* Connects and Accepts that insert their entry.
LEMMA AcceptInsertKeeps ==
    ASSUME IInv, Rest', NEW r \in Rpc, Accept2_insert(r)
    PROVE  IInv'
<1>1. Owning /\ Rest /\ r \notin Connects /\ pc[r] = "idle"
      /\ UNCHANGED <<link, dst, key, clash>>
  BY TypeParts DEF IInv, Accept2_insert
<1>2. CASE insert(r, Any) /\ Goto(r, "waiting")
  <2>1. \A l \in Key : table[l] # r
    BY <1>1 DEF IInv, Owned
  <2>2. /\ Owning' /\ table[Any] = NoOne /\ table'[Any] = r
        /\ \A l \in Key \ {Any} : table'[l] = table[l]
    BY <1>1, <1>2, <2>1, InsertOwns
  <2>3. pc' = [pc EXCEPT ![r] = "waiting"]
    BY <1>2 DEF Goto
  <2>4. Owned'
    BY <1>1, <2>2, <2>3 DEF IInv, Owned, Rest
  <2>5. Keyed'
    BY <1>1, <2>2, <2>3 DEF IInv, Keyed, Rest
  <2>6. WaitingIsReachable'
    BY <1>1, <2>2, <2>3 DEF IInv, WaitingIsReachable, Rest
  <2>7. ServedIsReachable'
    BY <1>1, <2>2, <2>3 DEF IInv, ServedIsReachable, Rest
  <2> QED
    BY <2>2, <2>4, <2>5, <2>6, <2>7 DEF IInv, TypeOK, Owning, Rest
<1>3. CASE Goto(r, "thrown") /\ UNCHANGED <<table, heap>>
  <2>1. pc' = [pc EXCEPT ![r] = "thrown"] /\ UNCHANGED <<table, heap>>
    BY <1>3 DEF Goto
  <2>2. Owned' /\ Keyed' /\ WaitingIsReachable' /\ ServedIsReachable'
    BY <1>1, <2>1 DEF IInv, Owned, Keyed, WaitingIsReachable, ServedIsReachable, Rest
  <2>3. Owning'
    BY <1>1, <2>1 DEF Owning
  <2> QED
    BY <2>2, <2>3 DEF IInv, TypeOK, Owning, Rest
<1> QED
  BY <1>2, <1>3 DEF Accept2_insert
LEMMA ConnectInsertKeeps ==
    ASSUME IInv, Rest', NEW r \in Rpc, NEW k \in Remote, Connect2_insert(r, k)
    PROVE  IInv'
<1>1. Owning /\ Rest /\ r \in Connects /\ pc[r] = "idle"
      /\ UNCHANGED <<link, dst, clash>>
  BY TypeParts DEF IInv, Connect2_insert
<1>2. CASE insert(r, k) /\ key' = [key EXCEPT ![r] = k] /\ Goto(r, "inserted")
  <2>1. \A l \in Key : table[l] # r
    BY <1>1 DEF IInv, Owned
  <2>2. /\ Owning' /\ table[k] = NoOne /\ table'[k] = r
        /\ \A l \in Key \ {k} : table'[l] = table[l]
    BY <1>1, <1>2, <2>1, InsertOwns
  <2>3. pc' = [pc EXCEPT ![r] = "inserted"]
    BY <1>2 DEF Goto
  <2>4. Owned'
    BY <1>1, <1>2, <2>2, <2>3 DEF IInv, Owned, Rest
  <2>5. Keyed'
    BY <1>1, <1>2, <2>2, <2>3 DEF IInv, Keyed, Rest
  <2>6. WaitingIsReachable'
    BY <1>1, <2>2, <2>3 DEF IInv, WaitingIsReachable, Rest
  <2>7. ServedIsReachable'
    BY <1>1, <1>2, <2>2, <2>3 DEF IInv, ServedIsReachable, Rest
  <2> QED
    BY <2>2, <2>4, <2>5, <2>6, <2>7 DEF IInv, TypeOK, Owning, Rest
<1>3. CASE UNCHANGED <<table, heap, key, pc>>
  BY <1>1, <1>3 DEF IInv, TypeOK, Rest, Owned, Keyed, WaitingIsReachable, ServedIsReachable
<1> QED
  BY <1>2, <1>3 DEF Connect2_insert

\* The RPC's thread goes on; its entry stays where it is.
LEMMA ThreadKeeps ==
    ASSUME IInv, Rest', NEW r \in Rpc,
           \/ Connect2_dl_connect(r) \/ Opened(r) \/ Informed(r)
           \/ dl_disconnect(r) \/ Throws(r)
    PROVE  IInv'
<1>1. Owning /\ Rest /\ UNCHANGED <<table, heap, key, clash>>
  BY TypeParts DEF IInv, Connect2_dl_connect, Opened, Informed, dl_disconnect, Throws
<1> USE <1>1 DEF Rest, Goto, Become
<1>2. CASE Connect2_dl_connect(r)
  BY <1>2 DEF Connect2_dl_connect, IInv, TypeOK, Owned, Keyed, WaitingIsReachable, ServedIsReachable
<1>3. CASE Opened(r)
  <2>1. pc[r] = "waiting" /\ UNCHANGED <<link, dst>>
        /\ pc' = [pc EXCEPT ![r] = IF r \in Connects THEN "informing" ELSE "found"]
        /\ (r \notin Connects => link[r] # "Disconnected")
    BY <1>3 DEF Opened
  <2>2. Owned' /\ WaitingIsReachable' /\ ServedIsReachable'
    BY <2>1 DEF IInv, Owned, WaitingIsReachable, ServedIsReachable
  <2>3. Keyed'
    BY <2>1 DEF IInv, Keyed
  <2> QED
    BY <2>2, <2>3 DEF IInv, TypeOK
<1>4. CASE Informed(r)
  BY <1>4 DEF Informed, IInv, TypeOK, Owned, Keyed, WaitingIsReachable, ServedIsReachable
<1>5. CASE dl_disconnect(r)
  <2>1. pc[r] = "open" /\ pc' = [pc EXCEPT ![r] = "closing"] /\ UNCHANGED dst
    BY <1>5 DEF dl_disconnect
  <2>2. \A q \in Rpc : link'[q] = link[q] \/ link[q] = "Up"
    BY <1>5 DEF dl_disconnect
  <2>3. Owned' /\ WaitingIsReachable' /\ ServedIsReachable'
    BY <2>1 DEF IInv, Owned, WaitingIsReachable, ServedIsReachable
  <2>4. Keyed'
    BY <2>1, <2>2 DEF IInv, Keyed
  <2> QED
    BY <2>3, <2>4 DEF IInv, TypeOK
<1>6. CASE Throws(r)
  <2>1. pc[r] \in {"inserted", "open", "waiting"} /\ pc' = [pc EXCEPT ![r] = "unwinding"]
        /\ UNCHANGED <<link, dst>>
    BY <1>6 DEF Throws
  <2>2. Owned' /\ WaitingIsReachable'
    BY <2>1 DEF IInv, Owned, WaitingIsReachable
  <2>3. Keyed'
    BY <2>1 DEF IInv, Keyed
  <2>4. ServedIsReachable'
    <3>1. ~clash => table[key[r]] = r
      BY <2>1 DEF IInv, Keyed, WaitingIsReachable, ServedIsReachable
    <3> QED
      BY <2>1, <3>1 DEF IInv, ServedIsReachable
  <2> QED
    BY <2>2, <2>3, <2>4 DEF IInv, TypeOK
<1> QED
  BY <1>2, <1>3, <1>4, <1>5, <1>6

\* The Accept's entry moves to the address its link turned out to have.
LEMMA RekeyKeeps ==
    ASSUME IInv, Rest', NEW r \in Rpc, Accept2_rekey(r)
    PROVE  IInv'
<1>1. Owning /\ Rest /\ pc[r] = "found" /\ r \notin Connects /\ dst[r] \in Remote
      /\ table[Any] = r
  BY TypeParts DEF IInv, Accept2_rekey, Keyed, WaitingIsReachable
<1>2. /\ Owning' /\ table'[Any] = NoOne
      /\ table'[dst[r]] = IF table[dst[r]] = NoOne THEN r ELSE table[dst[r]]
      /\ \A l \in Key \ {Any, dst[r]} : table'[l] = table[l]
  BY <1>1, RekeyOwns
<1>3. /\ pc' = [pc EXCEPT ![r] = "informing"] /\ key' = [key EXCEPT ![r] = dst[r]]
      /\ UNCHANGED <<link, dst>>
  BY DEF Accept2_rekey, Goto
<1>4. ~clash' => ~clash /\ table[dst[r]] = NoOne
  BY <1>1 DEF Accept2_rekey, Rest
<1>5. Owned'
  BY <1>1, <1>2, <1>3 DEF IInv, Owned, Rest
<1>6. Keyed'
  BY <1>1, <1>3 DEF IInv, Keyed, Rest
<1>7. WaitingIsReachable'
  BY <1>1, <1>3 DEF IInv, WaitingIsReachable, Rest
<1>8. ServedIsReachable'
  BY <1>1, <1>2, <1>3, <1>4 DEF IInv, ServedIsReachable, Rest
<1> QED
  BY <1>2, <1>5, <1>6, <1>7, <1>8 DEF IInv, TypeOK, Owning, Rest

\* An RPC erases what lies under its key, and is over.
LEMMA EraseKeeps ==
    ASSUME IInv, Rest', NEW r \in Rpc, erase(key[r]),
           NEW l \in {"returned", "thrown"}, Goto(r, l),
           pc[r] \in {"informing", "closing", "unwinding"},
           r \in Connects \/ pc[r] = "closing",
           UNCHANGED <<link, dst, key, clash>>
    PROVE  IInv'
<1>1. Owning /\ Rest /\ key[r] \in Remote
  BY TypeParts DEF IInv, Keyed
<1>2. /\ Owning' /\ table'[key[r]] = NoOne
      /\ \A k \in Key \ {key[r]} : table'[k] = table[k]
  BY <1>1, EraseOwns
<1>3. pc' = [pc EXCEPT ![r] = l]
  BY DEF Goto
<1>4. Owned'
  BY <1>1, <1>2, <1>3 DEF IInv, Owned, Rest
<1>5. Keyed'
  BY <1>1, <1>3 DEF IInv, Keyed, Rest
<1>6. WaitingIsReachable'
  BY <1>1, <1>2, <1>3 DEF IInv, WaitingIsReachable, Rest
<1>7. ServedIsReachable'
  <2>1. ~clash => table[key[r]] = r
    BY <1>1 DEF IInv, ServedIsReachable
  <2> QED
    BY <1>1, <1>2, <1>3, <2>1 DEF IInv, ServedIsReachable, Rest
<1> QED
  BY <1>2, <1>4, <1>5, <1>6, <1>7 DEF IInv, TypeOK, Owning, Rest

LEMMA EndingKeeps ==
    ASSUME IInv, Rest', NEW r \in Rpc, Uninformed(r) \/ Joined(r)
    PROVE  IInv'
<1>1. Owning /\ Rest /\ UNCHANGED <<link, dst, key, clash>>
  BY TypeParts DEF IInv, Uninformed, Joined
<1>2. CASE /\ erase(key[r]) /\ (Goto(r, "returned") \/ Goto(r, "thrown"))
           /\ pc[r] \in {"informing", "closing", "unwinding"}
           /\ r \in Connects \/ pc[r] = "closing"
  BY <1>1, <1>2, EraseKeeps
<1>3. CASE r \notin Connects /\ UNCHANGED <<table, heap>>
           /\ (Goto(r, "left") \/ Goto(r, "thrown"))
  <2>1. pc' = [pc EXCEPT ![r] = "left"] \/ pc' = [pc EXCEPT ![r] = "thrown"]
    BY <1>3 DEF Goto
  <2>2. Owned' /\ Keyed'
    BY <1>1, <1>3, <2>1 DEF IInv, Owned, Keyed, Rest, Uninformed, Joined
  <2>3. WaitingIsReachable' /\ ServedIsReachable'
    BY <1>1, <1>3, <2>1 DEF IInv, WaitingIsReachable, ServedIsReachable, Rest
  <2> QED
    BY <1>1, <1>3, <2>2, <2>3 DEF IInv, TypeOK, Owning, Rest
<1> QED
  BY <1>2, <1>3 DEF Uninformed, Joined

\* Frames and timers change the connection, never the map.
LEMMA ConnectionKeeps ==
    ASSUME IInv, Rest',
           UNCHANGED <<table, heap, pc, key, clash>>,
           \A r \in Rpc : \/ dst'[r] \in Remote
                          \/ dst'[r] = dst[r] /\ (link'[r] = link[r] \/ link'[r] = "Disconnected")
                          \/ dst'[r] = dst[r] /\ link[r] # "Disconnected"
    PROVE  IInv'
<1>1. Owning /\ Rest
  BY TypeParts DEF IInv
<1>2. Owned' /\ WaitingIsReachable' /\ ServedIsReachable'
  BY DEF IInv, Owned, WaitingIsReachable, ServedIsReachable
<1>3. Keyed'
  BY DEF IInv, Keyed
<1> QED
  BY <1>1, <1>2, <1>3 DEF IInv, TypeOK, Owning, Rest

LEMMA FrameKeeps ==
    ASSUME IInv, Rest', apply
    PROVE  IInv'
<1>1. UNCHANGED <<table, heap, pc, key, clash>> /\ held # NoOne
  BY DEF apply
<1>2. Rest
  BY TypeParts DEF IInv
<1>3. held.entry \in Rpc /\ held.from \in Remote
  BY <1>1, <1>2 DEF Rest
<1>4. CASE Become(held.entry, "Up") /\ dst' = [dst EXCEPT ![held.entry] = held.from]
  BY <1>1, <1>2, <1>3, <1>4, ConnectionKeeps DEF Become, Rest
<1>5. CASE UNCHANGED dst /\ link[held.entry] # "Disconnected"
           /\ \E s \in {"Up", "Disconnected", "AwaitingConnection"} : Become(held.entry, s)
  BY <1>1, <1>2, <1>3, <1>5, ConnectionKeeps DEF Become, Rest
<1>6. CASE UNCHANGED <<link, dst>>
  BY <1>1, <1>2, <1>6, ConnectionKeeps
<1> QED
  BY <1>4, <1>5, <1>6 DEF apply

LEMMA TimerKeeps ==
    ASSUME IInv, Rest', NEW r \in Rpc, GivenUp(r)
    PROVE  IInv'
<1>1. Rest /\ UNCHANGED <<table, heap, pc, key, clash, dst>>
      /\ link' = [link EXCEPT ![r] = "Disconnected"]
  BY TypeParts DEF IInv, GivenUp, Become
<1> QED
  BY <1>1, ConnectionKeeps DEF Rest

LEMMA NextHolds == IInv /\ [Next]_vars => IInv'
<1> SUFFICES ASSUME IInv, Next \/ UNCHANGED vars PROVE IInv'
  OBVIOUS
<1>1. Rest'
  BY RestKept DEF IInv
<1>2. ASSUME NEW r \in Rpc, Accept2_insert(r) \/ Accept2_rekey(r)
      PROVE  IInv'
  BY <1>1, <1>2, AcceptInsertKeeps, RekeyKeeps
<1>3. ASSUME NEW r \in Rpc,
             \/ Connect2_dl_connect(r) \/ Opened(r) \/ Informed(r)
             \/ dl_disconnect(r) \/ Throws(r)
      PROVE  IInv'
  BY <1>1, <1>3, ThreadKeeps
<1>4. ASSUME NEW r \in Rpc, Uninformed(r) \/ Joined(r) \/ GivenUp(r)
      PROVE  IInv'
  BY <1>1, <1>4, EndingKeeps, TimerKeeps
<1>5. ASSUME NEW r \in Rpc, NEW k \in Remote, Connect2_insert(r, k)
      PROVE  IInv'
  BY <1>1, <1>5, ConnectInsertKeeps
<1>6. ASSUME NEW x \in Remote, NEW type \in {"sabm", "other"}, find(type, x)
      PROVE  IInv'
  <2>1. UNCHANGED <<table, heap, pc, link, dst, key, clash>>
    BY <1>6 DEF find
  <2> QED
    BY <1>1, <2>1, ConnectionKeeps
<1>7. CASE apply
  BY <1>1, <1>7, FrameKeeps
<1>8. CASE Terminate \/ UNCHANGED vars
  <2>1. UNCHANGED <<table, heap, pc, link, dst, key, clash>>
    BY <1>8 DEF Terminate, vars
  <2> QED
    BY <1>1, <2>1, ConnectionKeeps
<1> QED
  BY <1>2, <1>3, <1>4, <1>5, <1>6, <1>7, <1>8 DEF Next

LEMMA InitHolds == Init => IInv
<1> SUFFICES ASSUME Init PROVE IInv
  OBVIOUS
<1>1. Owning
  BY DEF Init, Owning
<1>2. Rest
  BY DEF Init, Rest, PcStates
<1>3. Owned /\ Keyed /\ WaitingIsReachable /\ ServedIsReachable
  BY DEF Init, Owned, Keyed, WaitingIsReachable, ServedIsReachable
<1> QED
  BY <1>1, <1>2, <1>3, TypeParts DEF IInv

------------------------------------------------------------------------------
\* Every RPC's entry lies where the RPC will look for it, at every stage.
THEOREM Invariant == Spec => []IInv
<1> QED
  BY InitHolds, NextHolds, PTL DEF Spec

\* The map owns the entries, each under one key only (seqpacket.cc's
\* connections_ holds them by unique_ptr).
THEOREM TypesHold == Spec => []TypeOK
<1>1. IInv => TypeOK
  BY DEF IInv
<1> QED
  BY Invariant, <1>1, PTL

\* A SABM finds the Accept that waits for it.
THEOREM AcceptsAreFound == Spec => []WaitingIsReachable
<1>1. IInv => WaitingIsReachable
  BY DEF IInv
<1> QED
  BY Invariant, <1>1, PTL

\* Until a re-keyed Accept has met a taken key, an RPC erases its own entry.
THEOREM ErasesOwnEntry == Spec => []ServedIsReachable
<1>1. IInv => ServedIsReachable
  BY DEF IInv
<1> QED
  BY Invariant, <1>1, PTL

\* A Connect leaves no entry behind.
THEOREM ConnectsLeaveNothing == Spec => []ConnectCleansUp
<1>1. IInv => ConnectCleansUp
  BY DEF IInv, Owned, ConnectCleansUp
<1> QED
  BY Invariant, <1>1, PTL

\* The taken key of Accept2 (seqpacket.cc:399) is the only way in which an entry is
\* destroyed under its RPC: without it the comment at line 378 holds.
THEOREM OnlyClashDestroys == Spec => [](~clash => EntryOutlivesRpc)
<1>1. IInv => (~clash => EntryOutlivesRpc)
  <2> SUFFICES ASSUME IInv, ~clash, NEW r \in Rpc, pc[r] \in Running
               PROVE  r \in heap
    BY DEF EntryOutlivesRpc, Dangling
  <2>1. \E k \in Key : table[k] = r
    BY DEF IInv, TypeOK, Keyed, WaitingIsReachable, ServedIsReachable, Running
  <2> QED
    BY <2>1 DEF IInv, TypeOK
<1> QED
  BY Invariant, <1>1, PTL
==============================================================================
