---------------------------- MODULE PreloadProofs ----------------------------
(***************************************************************************)
(* Theorems about one socket of the preload library, for any number of     *)
(* reading threads, any capacity of the queue and any number of packets.   *)
(*                                                                         *)
(* The inductive invariant IInv follows each packet on its way from the    *)
(* stream through inbox, resp and read_queue_ to the application, and its  *)
(* octet through the pipe.                                                 *)
(***************************************************************************)
EXTENDS Preload, FiniteSetTheorems, TLAPS

InPush  == IF rt = "push" THEN 1 ELSE 0
OnTheWay == Len(taken) + Len(queue) + InPush + Len(inbox)

\* Packets lie in the order of their numbers, taken before queued before pushed
\* before incoming.
Placed ==
    /\ \A k \in 1 .. Len(taken) : taken[k] = k
    /\ \A k \in 1 .. Len(queue) : queue[k] = Len(taken) + k
    /\ rt = "push" /\ ~stop => resp = Len(taken) + Len(queue) + 1
    /\ \A k \in 1 .. Len(inbox) : inbox[k] = sent - Len(inbox) + k

\* None is lost unless the socket is being closed.
Counted == OnTheWay <= sent /\ (stop \/ OnTheWay = sent)

\* The thread leaves its loop at the end of the stream, closes the pipe and is
\* done; a reader that was told of the end found no packet.
Ending ==
    /\ rt = "ending" \/ closed => stop \/ (ended /\ inbox = <<>>)
    /\ closed => rt = "done"
    /\ \A r \in Reader : pc[r] = "eof" => closed /\ queue = <<>>

IInv == TypeOK /\ TokenPerPacket /\ Placed /\ Counted /\ Ending

------------------------------------------------------------------------------
(* The condition variable.                                                 *)

LEMMA NotifyKeepsThreads ==
    ASSUME asleep \subseteq Reader \union {ReadThread}, notify_one \/ notify_all
    PROVE  asleep' \subseteq Reader \union {ReadThread}
BY DEF notify_one, notify_all

\* A thread's place in read() decides whether it is among those whose octet is
\* still in the pipe.
LEMMA InTokenFinite == IsFiniteSet(InToken)
<1>1. InToken \subseteq Reader
  BY DEF InToken
<1> QED
  BY <1>1, PreloadAssumption, FS_Subset

LEMMA EntersToken ==
    ASSUME TypeOK, NEW r \in Reader, pc[r] # "token", pc' = [pc EXCEPT ![r] = "token"]
    PROVE  Cardinality(InToken') = Cardinality(InToken) + 1
<1>1. InToken' = InToken \union {r}
  BY DEF InToken, TypeOK
<1>2. r \notin InToken
  BY DEF InToken
<1> QED
  BY <1>1, <1>2, InTokenFinite, FS_AddElement

LEMMA LeavesToken ==
    ASSUME TypeOK, NEW r \in Reader, pc[r] = "token",
           NEW p, p # "token", pc' = [pc EXCEPT ![r] = p]
    PROVE  Cardinality(InToken') = Cardinality(InToken) - 1
<1>1. InToken' = InToken \ {r}
  BY DEF InToken, TypeOK
<1>2. r \in InToken
  BY DEF InToken
<1>3. Cardinality(InToken) \in Nat
  BY InTokenFinite, FS_CardinalityType
<1> QED
  BY <1>1, <1>2, <1>3, InTokenFinite, FS_RemoveElement

LEMMA AwayFromToken ==
    ASSUME TypeOK, NEW r \in Reader, pc[r] # "token",
           NEW p, p # "token", pc' = [pc EXCEPT ![r] = p]
    PROVE  InToken' = InToken
BY DEF InToken, TypeOK

------------------------------------------------------------------------------
LEMMA InitHolds == Init => IInv
<1> SUFFICES ASSUME Init PROVE IInv
  OBVIOUS
<1>1. TypeOK
  <2>1. queue \in Seq(Nat) /\ inbox \in Seq(Nat) /\ taken \in Seq(Nat) /\ Len(queue) <= Cap
    BY PreloadAssumption DEF Init
  <2>2. pc \in [Reader -> {"out", "lock", "token", "eof"}]
    BY DEF Init
  <2> QED
    BY <2>1, <2>2 DEF Init, TypeOK
<1>2. TokenPerPacket
  <2>1. InToken = {}
    BY DEF Init, InToken
  <2> QED
    BY <2>1, FS_EmptySet DEF Init, TokenPerPacket
<1>3. Placed /\ Counted /\ Ending
  BY DEF Init, Placed, Counted, Ending, OnTheWay, InPush
<1> QED
  BY <1>1, <1>2, <1>3 DEF IInv

------------------------------------------------------------------------------
(* Types.                                                                  *)

LEMMA TypeKept ==
    ASSUME TypeOK, Next \/ UNCHANGED vars
    PROVE  TypeOK'
<1> USE DEF TypeOK, openVars, queueVars, histVars
<1>1. CASE rpc_start
  BY <1>1 DEF rpc_start
<1>2. CASE rpc_fails
  BY <1>2, NotifyKeepsThreads DEF rpc_fails
<1>3. CASE answered
  <2>1. asleep' \subseteq Reader \union {ReadThread}
    BY <1>3, NotifyKeepsThreads DEF answered
  <2>2. op' \in {"connected", "refused"} /\ ended' \in BOOLEAN
    BY <1>3 DEF answered
  <2> QED
    BY <1>3, <2>1, <2>2 DEF answered
<1>4. CASE opened
  BY <1>4 DEF opened
<1>5. CASE connect_refused
  BY <1>5 DEF connect_refused
<1>6. CASE accept_fails
  BY <1>6, NotifyKeepsThreads DEF accept_fails
<1>7. CASE rt_start
  BY <1>7 DEF rt_start, Sleep
<1>8. CASE rt_check
  BY <1>8 DEF rt_check
<1>9. CASE rt_read
  <2>1. resp' \in Nat /\ inbox' \in Seq(Nat)
    <3>1. CASE inbox # <<>> /\ resp' = Head(inbox) /\ inbox' = Tail(inbox)
      BY <3>1
    <3>2. CASE UNCHANGED <<resp, inbox>>
      BY <3>2
    <3> QED
      BY <1>9, <3>1, <3>2 DEF rt_read
  <2>2. rt' \in {"push", "ending"}
    BY <1>9 DEF rt_read
  <2> QED
    BY <1>9, <2>1, <2>2 DEF rt_read
<1>10. CASE rt_push
  <2>1. queue' \in Seq(Nat) /\ Len(queue') <= Cap
    <3>1. CASE Len(queue) < Cap /\ queue' = Append(queue, resp)
      BY <3>1, PreloadAssumption
    <3>2. CASE UNCHANGED queue
      BY <3>2
    <3> QED
      BY <1>10, <3>1, <3>2 DEF rt_push
  <2>2. rt' \in {"ending", "token", "push"}
    BY <1>10 DEF rt_push
  <2>3. asleep' \subseteq Reader \union {ReadThread}
    BY <1>10, NotifyKeepsThreads DEF rt_push, Sleep
  <2> QED
    BY <1>10, <2>1, <2>2, <2>3 DEF rt_push
<1>11. CASE rt_token
  BY <1>11 DEF rt_token
<1>12. CASE rt_end
  BY <1>12, NotifyKeepsThreads DEF rt_end
<1>13. ASSUME NEW r \in Reader, read_call(r) PROVE TypeOK'
  BY <1>13 DEF read_call
<1>14. ASSUME NEW r \in Reader, read_lock(r) PROVE TypeOK'
  <2>1. queue' \in Seq(Nat) /\ Len(queue') <= Cap /\ taken' \in Seq(Nat)
    <3>1. CASE queue # <<>> /\ taken' = Append(taken, Head(queue)) /\ queue' = Tail(queue)
      BY <3>1, PreloadAssumption
    <3>2. CASE UNCHANGED <<queue, taken>>
      BY <3>2
    <3> QED
      BY <1>14, <3>1, <3>2 DEF read_lock, Read, NoPacket
  <2>2. pc' \in [Reader -> {"out", "lock", "token", "eof"}]
    BY <1>14 DEF read_lock, Read, NoPacket
  <2>3. asleep' \subseteq Reader \union {ReadThread}
    BY <1>14, NotifyKeepsThreads DEF read_lock, NoPacket, Sleep
  <2> QED
    BY <1>14, <2>1, <2>2, <2>3 DEF read_lock
<1>15. ASSUME NEW r \in Reader, read_token(r) PROVE TypeOK'
  <2>1. pc' \in [Reader -> {"out", "lock", "token", "eof"}]
    BY <1>15 DEF read_token
  <2>2. tokens' \in Nat /\ broken' \in BOOLEAN
    <3>1. CASE tokens > 0 /\ tokens' = tokens - 1 /\ UNCHANGED broken
      BY <3>1
    <3>2. CASE broken' = TRUE /\ UNCHANGED tokens
      BY <3>2
    <3> QED
      BY <1>15, <3>1, <3>2 DEF read_token
  <2> QED
    BY <1>15, <2>1, <2>2 DEF read_token
<1>16. CASE write
  BY <1>16 DEF write
<1>17. CASE close
  BY <1>17, NotifyKeepsThreads DEF close
<1>18. CASE destroyed
  BY <1>18 DEF destroyed
<1>19. CASE daemon_sends
  BY <1>19 DEF daemon_sends
<1>20. CASE daemon_ends
  BY <1>20 DEF daemon_ends
<1>21. CASE UNCHANGED vars
  BY <1>21 DEF vars
<1> QED
  BY <1>1, <1>2, <1>3, <1>4, <1>5, <1>6, <1>7, <1>8, <1>9, <1>10, <1>11, <1>12,
     <1>13, <1>14, <1>15, <1>16, <1>17, <1>18, <1>19, <1>20, <1>21
     DEF Next, OpenStep, ThreadStep, ReadStep

------------------------------------------------------------------------------
(* Steps that move no packet.                                              *)

Aside ==
    /\ UNCHANGED <<queueVars, sent, closed, rt, pc>>
    /\ stop => stop'
    /\ ended => ended'

LEMMA AsideSteps ==
    ASSUME OpenStep \/ rpc_fails \/ write \/ close \/ destroyed \/ daemon_ends
    PROVE  Aside
<1> USE DEF Aside, openVars, histVars
<1>1. CASE OpenStep
  BY <1>1 DEF OpenStep, rpc_start, answered, opened, connect_refused, accept_fails
<1>2. CASE rpc_fails
  BY <1>2 DEF rpc_fails
<1>3. CASE write \/ close \/ destroyed \/ daemon_ends
  BY <1>3 DEF write, close, destroyed, daemon_ends
<1> QED
  BY <1>1, <1>2, <1>3

LEMMA AsideKeeps ==
    ASSUME IInv, Aside, TypeOK'
    PROVE  IInv'
<1>1. TokenPerPacket'
  BY DEF IInv, Aside, queueVars, TokenPerPacket, InToken
<1>2. Placed' /\ Counted'
  BY DEF IInv, Aside, queueVars, Placed, Counted, OnTheWay, InPush
<1>3. Ending'
  BY DEF IInv, Aside, queueVars, Ending
<1> QED
  BY <1>1, <1>2, <1>3 DEF IInv

------------------------------------------------------------------------------
(* Steps of read_thread_.                                                  *)

LEMMA StartKeeps ==
    ASSUME IInv, rt_start \/ rt_check, TypeOK'
    PROVE  IInv'
<1>1. rt \in {"start", "check"} /\ rt' \in {"start", "check", "reading", "done"}
  BY DEF rt_start, rt_check
<1>2. UNCHANGED <<queue, tokens, resp, inbox, taken, sent, stop, ended, closed, pc>>
  BY DEF rt_start, rt_check, openVars, queueVars, histVars
<1>3. TokenPerPacket'
  BY <1>1, <1>2 DEF IInv, TokenPerPacket, InToken
<1>4. Placed' /\ Counted'
  BY <1>1, <1>2 DEF IInv, Placed, Counted, OnTheWay, InPush
<1>5. Ending'
  BY <1>1, <1>2 DEF IInv, Ending
<1> QED
  BY <1>3, <1>4, <1>5 DEF IInv

LEMMA ReadingKeeps ==
    ASSUME IInv, rt_read, TypeOK'
    PROVE  IInv'
<1>1. UNCHANGED <<queue, tokens, taken, sent, stop, ended, closed, pc>>
  BY DEF rt_read, openVars, histVars
<1>2. rt = "reading" /\ rt' \in {"push", "ending"}
  BY DEF rt_read
<1>3. TokenPerPacket'
  BY <1>1, <1>2 DEF IInv, TokenPerPacket, InToken
<1>4. CASE inbox # <<>> /\ resp' = Head(inbox) /\ inbox' = Tail(inbox) /\ rt' = "push"
  <2>1. Len(inbox') = Len(inbox) - 1 /\ resp' = inbox[1] /\ Len(inbox) \in Nat \ {0}
        /\ \A k \in 1 .. Len(inbox') : inbox'[k] = inbox[k + 1]
    BY <1>4 DEF IInv, TypeOK
  <2>2. OnTheWay' = OnTheWay /\ sent' = sent
    <3>1. InPush' = 1 /\ InPush = 0
      BY <1>2, <1>4 DEF InPush
    <3>2. Len(taken) \in Nat /\ Len(queue) \in Nat /\ taken' = taken /\ queue' = queue
      BY <1>1 DEF IInv, TypeOK
    <3> QED
      BY <1>1, <2>1, <3>1, <3>2 DEF OnTheWay
  <2>3. Counted'
    BY <1>1, <2>2 DEF IInv, Counted
  <2>4. resp' = Len(taken) + Len(queue) + 1 \/ stop
    <3>1. CASE OnTheWay = sent
      <4>1. resp' = sent - Len(inbox) + 1 /\ Len(inbox) \in Nat
        BY <2>1 DEF IInv, Placed
      <4>2. Len(taken) \in Nat /\ Len(queue) \in Nat /\ sent \in Nat /\ InPush = 0
        BY <1>2 DEF IInv, TypeOK, InPush
      <4>3. Len(taken) + Len(queue) = sent - Len(inbox)
        BY <3>1, <4>1, <4>2 DEF OnTheWay
      <4>4. resp' = Len(taken) + Len(queue) + 1
        BY <4>1, <4>3
      <4> QED
        BY <4>4
    <3> QED
      BY <3>1 DEF IInv, Counted
  <2>5. \A k \in 1 .. Len(inbox') : inbox'[k] = sent' - Len(inbox') + k
    <3>1. sent' = sent /\ sent \in Nat /\ \A k \in 1 .. Len(inbox) : inbox[k] = sent - Len(inbox) + k
      BY <1>1 DEF IInv, TypeOK, Placed
    <3> QED
      BY <2>1, <3>1
  <2>6. Placed'
    BY <1>1, <2>4, <2>5 DEF IInv, Placed
  <2>7. Ending'
    BY <1>1, <1>2, <1>4 DEF IInv, Ending
  <2> QED
    BY <1>3, <2>3, <2>6, <2>7 DEF IInv
<1>5. CASE (stop \/ (ended /\ inbox = <<>>)) /\ rt' = "ending" /\ UNCHANGED <<resp, inbox>>
  <2>1. Placed' /\ Counted'
    BY <1>1, <1>2, <1>5 DEF IInv, Placed, Counted, OnTheWay, InPush
  <2>2. Ending'
    BY <1>1, <1>2, <1>5 DEF IInv, Ending
  <2> QED
    BY <1>3, <2>1, <2>2 DEF IInv
<1> QED
  BY <1>4, <1>5 DEF rt_read

LEMMA PushKeeps ==
    ASSUME IInv, rt_push, TypeOK'
    PROVE  IInv'
<1>1. UNCHANGED <<tokens, resp, inbox, taken, sent, stop, ended, closed, pc>> /\ rt = "push"
  BY DEF rt_push, openVars, histVars
<1>2. CASE stop /\ rt' = "ending" /\ UNCHANGED queue
  <2>1. TokenPerPacket'
    BY <1>1, <1>2 DEF IInv, TokenPerPacket, InToken
  <2>2. Placed'
    BY <1>1, <1>2 DEF IInv, Placed
  <2>3. Counted'
    <3>1. InPush = 1 /\ InPush' = 0 /\ sent' = sent /\ stop'
      BY <1>1, <1>2 DEF InPush
    <3>2. OnTheWay' <= OnTheWay /\ OnTheWay' \in Nat /\ OnTheWay \in Nat
      BY <1>1, <1>2, <3>1 DEF IInv, TypeOK, OnTheWay
    <3>3. sent \in Nat /\ OnTheWay <= sent
      BY DEF IInv, TypeOK, Counted
    <3>4. OnTheWay' <= sent'
      BY <3>1, <3>2, <3>3
    <3> QED
      BY <3>1, <3>4 DEF Counted
  <2>4. Ending'
    BY <1>1, <1>2 DEF IInv, Ending
  <2> QED
    BY <2>1, <2>2, <2>3, <2>4 DEF IInv
<1>3. CASE ~stop /\ queue' = Append(queue, resp) /\ rt' = "token"
  <2>1. Len(queue') = Len(queue) + 1 /\ queue'[Len(queue')] = resp
        /\ \A k \in 1 .. Len(queue) : queue'[k] = queue[k]
    BY <1>3 DEF IInv, TypeOK
  <2>2. TokenPerPacket'
    <3>1. InToken' = InToken /\ Cardinality(InToken) \in Nat
      BY <1>1, InTokenFinite, FS_CardinalityType DEF InToken
    <3>2. tokens = Len(queue) + Cardinality(InToken)
      BY <1>1 DEF IInv, TypeOK, TokenPerPacket
    <3>3. tokens' + 1 = Len(queue') + Cardinality(InToken')
      BY <1>1, <2>1, <3>1, <3>2 DEF IInv, TypeOK
    <3> QED
      BY <1>3, <3>3 DEF TokenPerPacket
  <2>3. \A k \in 1 .. Len(queue') : queue'[k] = Len(taken) + k
    <3>1. resp = Len(taken) + Len(queue) + 1
      BY <1>1, <1>3 DEF IInv, Placed
    <3>2. \A k \in 1 .. Len(queue) : queue[k] = Len(taken) + k
      BY DEF IInv, Placed
    <3>3. Len(taken) \in Nat /\ Len(queue) \in Nat
      BY DEF IInv, TypeOK
    <3>4. ASSUME NEW k \in 1 .. Len(queue') PROVE queue'[k] = Len(taken) + k
      <4>1. CASE k \in 1 .. Len(queue)
        BY <2>1, <3>2, <4>1
      <4>2. CASE k = Len(queue) + 1
        BY <2>1, <3>1, <3>3, <4>2
      <4> QED
        BY <2>1, <3>3, <4>1, <4>2
    <3> QED
      BY <3>4
  <2>4. Placed'
    BY <1>1, <1>3, <2>3 DEF IInv, Placed
  <2>5. Counted'
    <3>1. InPush = 1 /\ InPush' = 0
      BY <1>1, <1>3 DEF InPush
    <3>2. OnTheWay' = OnTheWay
      BY <1>1, <2>1, <3>1 DEF IInv, TypeOK, OnTheWay
    <3> QED
      BY <1>1, <3>2 DEF IInv, Counted
  <2>6. Ending'
    <3>1. \A r \in Reader : pc[r] # "eof"
      BY <1>1 DEF IInv, Ending
    <3> QED
      BY <1>1, <1>3, <3>1 DEF IInv, Ending
  <2> QED
    BY <2>2, <2>4, <2>5, <2>6 DEF IInv
<1>4. CASE UNCHANGED <<queue, rt>>
  BY <1>1, <1>4, AsideKeeps DEF Aside, queueVars
<1> QED
  BY <1>2, <1>3, <1>4 DEF rt_push

LEMMA TokenKeeps ==
    ASSUME IInv, rt_token, TypeOK'
    PROVE  IInv'
<1>1. UNCHANGED <<queue, resp, inbox, taken, sent, stop, ended, closed, pc>>
      /\ rt = "token" /\ rt' = "reading" /\ tokens' = tokens + 1
  BY DEF rt_token, openVars, histVars
<1>2. TokenPerPacket'
  BY <1>1 DEF IInv, TypeOK, TokenPerPacket, InToken
<1>3. Placed' /\ Counted'
  BY <1>1 DEF IInv, Placed, Counted, OnTheWay, InPush
<1>4. Ending'
  BY <1>1 DEF IInv, Ending
<1> QED
  BY <1>2, <1>3, <1>4 DEF IInv

LEMMA EndKeeps ==
    ASSUME IInv, rt_end, TypeOK'
    PROVE  IInv'
<1>1. UNCHANGED <<queueVars, sent, stop, ended, pc>>
      /\ rt = "ending" /\ rt' = "done" /\ closed' = TRUE
  BY DEF rt_end, openVars, histVars
<1>2. TokenPerPacket'
  BY <1>1 DEF IInv, queueVars, TokenPerPacket, InToken
<1>3. Placed' /\ Counted'
  BY <1>1 DEF IInv, queueVars, Placed, Counted, OnTheWay, InPush
<1>4. Ending'
  BY <1>1 DEF IInv, queueVars, Ending
<1> QED
  BY <1>2, <1>3, <1>4 DEF IInv
------------------------------------------------------------------------------
(* Steps of read(), and a packet that arrives.                             *)

LEMMA CallKeeps ==
    ASSUME IInv, TypeOK', NEW r \in Reader, read_call(r)
    PROVE  IInv'
<1>1. UNCHANGED <<queue, tokens, resp, inbox, taken, sent, stop, ended, closed, rt>>
      /\ pc[r] = "out" /\ pc' = [pc EXCEPT ![r] = "lock"]
  BY DEF read_call, queueVars
<1>2. InToken' = InToken
  BY <1>1, AwayFromToken DEF IInv
<1>3. TokenPerPacket'
  BY <1>1, <1>2 DEF IInv, TokenPerPacket
<1>4. Placed' /\ Counted'
  BY <1>1 DEF IInv, Placed, Counted, OnTheWay, InPush
<1>5. Ending'
  BY <1>1 DEF IInv, TypeOK, Ending
<1> QED
  BY <1>3, <1>4, <1>5 DEF IInv

\* A reader that takes a packet owes the pipe a read of its octet.
LEMMA TakeKeeps ==
    ASSUME IInv, TypeOK', NEW r \in Reader, read_lock(r),
           queue # <<>>, Read(r, queue, "token")
    PROVE  IInv'
<1>1. UNCHANGED <<tokens, resp, inbox, sent, stop, ended, closed, rt>> /\ pc[r] = "lock"
  BY DEF read_lock, histVars
<1>2. /\ Len(taken') = Len(taken) + 1 /\ Len(queue') = Len(queue) - 1
      /\ Len(queue) \in Nat \ {0} /\ Len(taken) \in Nat
      /\ taken'[Len(taken) + 1] = queue[1]
      /\ \A k \in 1 .. Len(taken) : taken'[k] = taken[k]
      /\ \A k \in 1 .. Len(queue') : queue'[k] = queue[k + 1]
  BY DEF IInv, TypeOK, Read
<1>3. TokenPerPacket'
  <2>1. Cardinality(InToken') = Cardinality(InToken) + 1 /\ Cardinality(InToken) \in Nat
    BY <1>1, EntersToken, InTokenFinite, FS_CardinalityType DEF IInv, Read
  <2>2. tokens + (IF rt = "token" THEN 1 ELSE 0) = Len(queue) + Cardinality(InToken)
    BY DEF IInv, TokenPerPacket
  <2>3. Len(queue') + Cardinality(InToken') = Len(queue) + Cardinality(InToken)
    BY <1>2, <2>1
  <2> QED
    BY <1>1, <2>2, <2>3 DEF TokenPerPacket
<1>4. \A k \in 1 .. Len(taken') : taken'[k] = k
  <2>1. queue[1] = Len(taken) + 1
    BY <1>2 DEF IInv, Placed
  <2>2. \A k \in 1 .. Len(taken) : taken[k] = k
    BY DEF IInv, Placed
  <2>3. ASSUME NEW k \in 1 .. Len(taken') PROVE taken'[k] = k
    <3>1. CASE k \in 1 .. Len(taken)
      BY <1>2, <2>2, <3>1
    <3>2. CASE k = Len(taken) + 1
      BY <1>2, <2>1, <3>2
    <3> QED
      BY <1>2, <3>1, <3>2
  <2> QED
    BY <2>3
<1>5. \A k \in 1 .. Len(queue') : queue'[k] = Len(taken') + k
  <2>1. \A k \in 1 .. Len(queue) : queue[k] = Len(taken) + k
    BY DEF IInv, Placed
  <2>2. ASSUME NEW k \in 1 .. Len(queue') PROVE queue'[k] = Len(taken') + k
    <3>1. k + 1 \in 1 .. Len(queue)
      BY <1>2
    <3> QED
      BY <1>2, <2>1, <3>1
  <2> QED
    BY <2>2
<1>6. Len(taken') + Len(queue') = Len(taken) + Len(queue)
  BY <1>2
<1>7. Placed'
  <2>1. rt' = "push" /\ ~stop' => resp' = Len(taken') + Len(queue') + 1
    <3>1. rt = "push" /\ ~stop => resp = Len(taken) + Len(queue) + 1
      BY DEF IInv, Placed
    <3> QED
      BY <1>1, <1>6, <3>1
  <2>2. \A k \in 1 .. Len(inbox') : inbox'[k] = sent' - Len(inbox') + k
    BY <1>1 DEF IInv, Placed
  <2> QED
    BY <1>4, <1>5, <2>1, <2>2 DEF Placed
<1>8. Counted'
  <2>1. OnTheWay' = OnTheWay
    BY <1>1, <1>6 DEF OnTheWay, InPush
  <2> QED
    BY <1>1, <2>1 DEF IInv, Counted
<1>9. Ending'
  <2>1. \A q \in Reader : pc[q] # "eof"
    BY DEF IInv, Ending
  <2>2. \A q \in Reader : pc'[q] # "eof"
    BY <2>1 DEF Read, IInv, TypeOK
  <2> QED
    BY <1>1, <2>2 DEF IInv, Ending
<1> QED
  BY <1>3, <1>7, <1>8, <1>9 DEF IInv

LEMMA LockKeeps ==
    ASSUME IInv, TypeOK', NEW r \in Reader, read_lock(r)
    PROVE  IInv'
<1>1. UNCHANGED <<tokens, resp, inbox, sent, stop, ended, closed, rt>> /\ pc[r] = "lock"
  BY DEF read_lock, histVars
<1>2. CASE queue # <<>> /\ Read(r, queue, "token")
  BY <1>2, TakeKeeps
<1>3. CASE NoPacket(r)
  <2>1. UNCHANGED <<queue, taken>> /\ queue = <<>>
    BY <1>3 DEF NoPacket
  <2>2. (closed /\ pc' = [pc EXCEPT ![r] = "eof"]) \/ pc' = pc
    BY <1>3 DEF NoPacket
  <2>3. InToken' = InToken
    BY <1>1, <2>2, AwayFromToken DEF IInv, InToken
  <2>4. TokenPerPacket'
    BY <1>1, <2>1, <2>3 DEF IInv, TokenPerPacket
  <2>5. Placed' /\ Counted'
    BY <1>1, <2>1 DEF IInv, Placed, Counted, OnTheWay, InPush
  <2>6. Ending'
    <3>1. \A q \in Reader : pc'[q] = "eof" => closed
      BY <2>2 DEF IInv, TypeOK, Ending
    <3> QED
      BY <1>1, <2>1, <3>1 DEF IInv, Ending
  <2> QED
    BY <2>4, <2>5, <2>6 DEF IInv
<1> QED
  BY <1>2, <1>3 DEF read_lock

LEMMA OctetKeeps ==
    ASSUME IInv, TypeOK', NEW r \in Reader, read_token(r)
    PROVE  IInv'
<1>1. UNCHANGED <<queue, resp, inbox, taken, sent, stop, ended, closed, rt>> /\ pc[r] = "token"
  BY DEF read_token, histVars
<1>2. Placed' /\ Counted'
  BY <1>1 DEF IInv, Placed, Counted, OnTheWay, InPush
<1>3. CASE tokens > 0 /\ tokens' = tokens - 1 /\ pc' = [pc EXCEPT ![r] = "out"]
  <2>1. Cardinality(InToken') = Cardinality(InToken) - 1 /\ Cardinality(InToken) \in Nat
    BY <1>1, <1>3, LeavesToken, InTokenFinite, FS_CardinalityType DEF IInv
  <2>2. /\ tokens + (IF rt = "token" THEN 1 ELSE 0) = Len(queue) + Cardinality(InToken)
        /\ tokens \in Nat /\ Len(queue) \in Nat
    BY DEF IInv, TokenPerPacket, TypeOK
  <2>3. tokens' + (IF rt = "token" THEN 1 ELSE 0) = Len(queue) + Cardinality(InToken')
    BY <1>3, <2>1, <2>2
  <2>4. TokenPerPacket'
    BY <1>1, <2>3 DEF TokenPerPacket
  <2>5. Ending'
    <3>1. \A q \in Reader : pc'[q] = "eof" => pc[q] = "eof"
      BY <1>3 DEF IInv, TypeOK
    <3> QED
      BY <1>1, <3>1 DEF IInv, Ending
  <2> QED
    BY <1>2, <2>4, <2>5 DEF IInv
<1>4. CASE UNCHANGED <<tokens, pc>>
  BY <1>1, <1>4, AsideKeeps DEF Aside, queueVars
<1> QED
  BY <1>3, <1>4 DEF read_token

LEMMA ArrivalKeeps ==
    ASSUME IInv, TypeOK', daemon_sends
    PROVE  IInv'
<1>1. UNCHANGED <<queue, tokens, resp, taken, stop, ended, closed, rt, pc>>
      /\ sent' = sent + 1 /\ inbox' = Append(inbox, sent + 1) /\ ~ended
  BY DEF daemon_sends, Up
<1>2. Len(inbox') = Len(inbox) + 1 /\ inbox'[Len(inbox) + 1] = sent + 1
      /\ Len(inbox) \in Nat /\ sent \in Nat
      /\ \A k \in 1 .. Len(inbox) : inbox'[k] = inbox[k]
  BY <1>1 DEF IInv, TypeOK
<1>3. TokenPerPacket'
  BY <1>1 DEF IInv, TokenPerPacket, InToken
<1>4. \A k \in 1 .. Len(inbox') : inbox'[k] = sent' - Len(inbox') + k
  <2>1. \A k \in 1 .. Len(inbox) : inbox[k] = sent - Len(inbox) + k
    BY DEF IInv, Placed
  <2>2. ASSUME NEW k \in 1 .. Len(inbox') PROVE inbox'[k] = sent' - Len(inbox') + k
    <3>1. CASE k \in 1 .. Len(inbox)
      BY <1>1, <1>2, <2>1, <3>1
    <3>2. CASE k = Len(inbox) + 1
      BY <1>1, <1>2, <3>2
    <3> QED
      BY <1>2, <3>1, <3>2
  <2> QED
    BY <2>2
<1>5. Placed'
  BY <1>1, <1>4 DEF IInv, Placed
<1>6. Counted'
  <2>1. Len(taken) \in Nat /\ Len(queue) \in Nat /\ InPush \in Nat /\ InPush' = InPush
    BY <1>1 DEF IInv, TypeOK, InPush
  <2>2. OnTheWay' = OnTheWay + 1 /\ OnTheWay \in Nat
    BY <1>1, <1>2, <2>1 DEF OnTheWay
  <2>3. OnTheWay <= sent => OnTheWay' <= sent'
    BY <1>1, <1>2, <2>2
  <2>4. OnTheWay = sent => OnTheWay' = sent'
    BY <1>1, <2>2
  <2> QED
    BY <1>1, <2>3, <2>4 DEF IInv, Counted
<1>7. Ending'
  BY <1>1 DEF IInv, Ending
<1> QED
  BY <1>3, <1>5, <1>6, <1>7 DEF IInv

------------------------------------------------------------------------------
LEMMA NextHolds ==
    ASSUME IInv, Next \/ UNCHANGED vars
    PROVE  IInv'
<1>1. TypeOK'
  BY TypeKept DEF IInv
<1>2. CASE OpenStep \/ rpc_fails \/ write \/ close \/ destroyed \/ daemon_ends
  BY <1>1, <1>2, AsideSteps, AsideKeeps
<1>3. CASE ThreadStep
  BY <1>1, <1>3, StartKeeps, ReadingKeeps, PushKeeps, TokenKeeps, EndKeeps DEF ThreadStep
<1>4. ASSUME NEW r \in Reader, read_call(r) \/ ReadStep(r) PROVE IInv'
  BY <1>1, <1>4, CallKeeps, LockKeeps, OctetKeeps DEF ReadStep
<1>5. CASE daemon_sends
  BY <1>1, <1>5, ArrivalKeeps
<1>6. CASE UNCHANGED vars
  BY <1>1, <1>6, AsideKeeps DEF Aside, vars, openVars, histVars
<1> QED
  BY <1>2, <1>3, <1>4, <1>5, <1>6 DEF Next

\* Packets stay in order on the way through read_thread_ and read_queue_, and
\* each has its octet in the pipe, whatever the threads do.
THEOREM Invariant == Spec => []IInv
<1>1. IInv /\ [Next]_vars => IInv'
  BY NextHolds
<1> QED
  BY InitHolds, <1>1, PTL DEF Spec

\* The variables keep their types, and read_queue_ its limit: read_thread_main
\* waits for room before it appends.
THEOREM TypesHold == Spec => []TypeOK
<1>1. IInv => TypeOK
  BY DEF IInv
<1> QED
  BY Invariant, <1>1, PTL

\* The octets in the pipe are as many as the packets whose read() has not come
\* to its octet.
THEOREM TokensMatchPackets == Spec => []TokenPerPacket
<1>1. IInv => TokenPerPacket
  BY DEF IInv
<1> QED
  BY Invariant, <1>1, PTL

\* With no read() under way a readable descriptor means a read() that returns.
THEOREM SelectIsTruthful == Spec => []SelectTellsTruth
<1>1. IInv => SelectTellsTruth
  <2> SUFFICES ASSUME IInv, \A r \in Reader : ~Inside(r)
               PROVE  (tokens > 0 => queue # <<>>) /\ (tokens = 0 /\ closed => queue = <<>>)
    BY DEF SelectTellsTruth
  <2>1. Cardinality(InToken) = 0
    <3>1. InToken = {}
      BY DEF InToken, Inside
    <3> QED
      BY <3>1, FS_EmptySet
  <2>2. tokens + (IF rt = "token" THEN 1 ELSE 0) = Len(queue) /\ queue \in Seq(Nat) /\ tokens \in Nat
    BY <2>1 DEF IInv, TypeOK, TokenPerPacket
  <2>3. tokens > 0 => queue # <<>>
    BY <2>2
  <2>4. closed => rt = "done"
    BY DEF IInv, Ending
  <2>5. tokens = 0 /\ rt = "done" => queue = <<>>
    BY <2>2
  <2> QED
    BY <2>3, <2>4, <2>5
<1> QED
  BY Invariant, <1>1, PTL

\* read() says 0 only after everything the daemon sent, or after close().
THEOREM EofComesLast == Spec => []EofAfterAll
<1>1. IInv => EofAfterAll
  <2> SUFFICES ASSUME IInv, NEW r \in Reader, pc[r] = "eof", ~stop
               PROVE  ended /\ Len(taken) = sent
    BY DEF EofAfterAll
  <2>1. closed /\ queue = <<>> /\ rt = "done" /\ ended /\ inbox = <<>>
    BY DEF IInv, Ending
  <2>2. OnTheWay = sent
    BY DEF IInv, Counted
  <2>3. Len(taken) = sent
    BY <2>1, <2>2 DEF IInv, TypeOK, OnTheWay, InPush
  <2> QED
    BY <2>1, <2>3
<1> QED
  BY Invariant, <1>1, PTL
------------------------------------------------------------------------------
(* The socket is an ordered delivery.                                      *)

LEMMA LastTaken ==
    ASSUME IInv
    PROVE  Socket!last(ReadThread) = Len(taken)
<1>1. taken \in Seq(Nat) /\ \A k \in 1 .. Len(taken) : taken[k] = k
  BY DEF IInv, TypeOK, Placed
<1>2. CASE taken = <<>>
  BY <1>2 DEF Socket!last
<1>3. CASE taken # <<>>
  <2>1. Len(taken) \in 1 .. Len(taken)
    BY <1>1, <1>3
  <2> QED
    BY <1>1, <1>3, <2>1 DEF Socket!last
<1> QED
  BY <1>2, <1>3

\* A step of the socket delivers the next packet, accepts one from the daemon,
\* stops the socket, or is none of the application's business.
LEMMA StepDelivers ==
    ASSUME IInv, IInv', Next \/ UNCHANGED vars
    PROVE  Socket!Next \/ UNCHANGED Socket!vars
<1>1. CASE UNCHANGED <<taken, sent, stop>>
  BY <1>1 DEF Socket!vars
<1>2. CASE UNCHANGED <<taken, sent>> /\ ~stop /\ stop'
  <2>1. Socket!Break(ReadThread)
    BY <1>2 DEF Socket!Break
  <2> QED
    BY <2>1 DEF Socket!Next
<1>3. CASE daemon_sends
  <2>1. sent' = sent + 1 /\ UNCHANGED <<taken, stop>>
    BY <1>3 DEF daemon_sends
  <2>2. Socket!Submit(ReadThread)
    BY <2>1 DEF Socket!Submit
  <2> QED
    BY <2>2 DEF Socket!Next
<1>4. ASSUME NEW r \in Reader, read_lock(r), Read(r, queue, "token"), queue # <<>>
      PROVE  Socket!Next
  <2>1. taken' = Append(taken, Head(queue)) /\ UNCHANGED <<sent, stop>>
    BY <1>4 DEF Read, read_lock, histVars
  <2>2. Head(queue) = Len(taken) + 1 /\ Len(queue) \in Nat \ {0} /\ Len(taken) \in Nat
        /\ Len(inbox) \in Nat /\ sent \in Nat
    <3>1. queue \in Seq(Nat) /\ Len(queue) \in Nat \ {0} /\ Len(taken) \in Nat
          /\ Len(inbox) \in Nat /\ sent \in Nat
      BY <1>4 DEF IInv, TypeOK
    <3>2. queue[1] = Len(taken) + 1
      BY <3>1 DEF IInv, Placed
    <3> QED
      BY <3>1, <3>2
  <2>3. Len(taken) + 1 <= sent
    <3>1. OnTheWay <= sent /\ InPush \in Nat
      BY DEF IInv, Counted, InPush
    <3> QED
      BY <2>2, <3>1 DEF OnTheWay
  <2>4. Len(taken) + 1 \in Socket!last(ReadThread) + 1 .. sent
    BY <2>2, <2>3, LastTaken
  <2>5. Socket!Deliver(ReadThread)
    BY <2>1, <2>2, <2>4, LastTaken DEF Socket!Deliver
  <2> QED
    BY <2>5 DEF Socket!Next
<1>5. CASE OpenStep \/ rpc_fails \/ write \/ close \/ destroyed \/ daemon_ends
  <2>1. UNCHANGED <<taken, sent>> /\ (stop => stop')
    BY <1>5, AsideSteps DEF Aside, queueVars
  <2> QED
    BY <1>1, <1>2, <2>1 DEF IInv, TypeOK
<1>6. CASE ThreadStep
  BY <1>1, <1>6 DEF ThreadStep, rt_start, rt_check, rt_read, rt_push, rt_token, rt_end,
                    queueVars, histVars
<1>7. ASSUME NEW r \in Reader, read_call(r) \/ read_token(r)
      PROVE  UNCHANGED <<taken, sent, stop>>
  BY <1>7 DEF read_call, read_token, queueVars, histVars
<1>8. ASSUME NEW r \in Reader, read_lock(r)
      PROVE  Socket!Next \/ UNCHANGED <<taken, sent, stop>>
  BY <1>4, <1>8 DEF read_lock, NoPacket, histVars
<1>9. CASE UNCHANGED vars
  BY <1>1, <1>9 DEF vars, queueVars, histVars
<1> QED
  BY <1>1, <1>3, <1>5, <1>6, <1>7, <1>8, <1>9 DEF Next, ReadStep

\* Whichever threads read, the application is given what the daemon sent, in
\* that order, nothing twice and nothing left out.
THEOREM ImplementsOrderedDelivery == Spec => DeliversInOrder
<1>1. Init => Socket!Init
  BY DEF Init, Socket!Init
<1>2. IInv /\ IInv' /\ [Next]_vars => [Socket!Next]_(Socket!vars)
  BY StepDelivers
<1> QED
  BY Invariant, <1>1, <1>2, PTL DEF Spec, DeliversInOrder, Socket!Spec

------------------------------------------------------------------------------
(* Who hears what the daemon sends.                                        *)

\* Why read_thread_ is where it is: connect() stores the stream before it lets the
\* thread go, so that the thread does not leave for want of one, and as long as
\* nobody reads the thread is the only one the condition variable can wake.
Hearing ==
    /\ life = "alive" => ~stop
    /\ kind = "connect" /\ op \in {"calling", "connected", "refused", "open"} => stream
    /\ ready => op \notin {"new", "calling"}
    /\ rt # "start" => ready \/ stop
    /\ kind = "connect" /\ life = "alive" /\ rt = "done" /\ ~closed => op = "failed"
    /\ ~early /\ op # "open" => asleep \subseteq {ReadThread} /\ \A r \in Reader : pc[r] = "out"
    /\ ~early /\ rt = "start" /\ ready => ReadThread \notin asleep

LEMMA HearingBegins == Init => Hearing
BY DEF Init, Hearing

\* The steps of connect() and accept().
LEMMA OpeningHears ==
    ASSUME TypeOK, Hearing, OpenStep \/ rpc_fails
    PROVE  Hearing'
<1> USE DEF Hearing, queueVars, histVars
<1>1. CASE rpc_start
  BY <1>1 DEF rpc_start
<1>2. CASE rpc_fails
  BY <1>2 DEF rpc_fails, notify_all
<1>3. CASE answered
  <2>1. op = "calling" /\ op' \in {"connected", "refused"} /\ ready'
        /\ UNCHANGED <<kind, stream, stop, closed, rt, pc, life, early>>
    BY <1>3 DEF answered
  <2>2. ~early => asleep \subseteq {ReadThread}
    BY <2>1
  <2>3. ~early => asleep' = {}
    BY <1>3, <2>2 DEF answered, notify_one
  <2> QED
    BY <2>1, <2>3
<1>4. CASE opened
  BY <1>4 DEF opened
<1>5. CASE connect_refused
  BY <1>5 DEF connect_refused
<1>6. CASE accept_fails
  BY <1>6 DEF accept_fails, notify_all
<1> QED
  BY <1>1, <1>2, <1>3, <1>4, <1>5, <1>6 DEF OpenStep

\* The steps of read_thread_.
LEMMA ThreadHears ==
    ASSUME TypeOK, Hearing, ThreadStep
    PROVE  Hearing'
<1> USE DEF Hearing, openVars, queueVars, histVars
<1>1. CASE rt_start
  BY <1>1 DEF rt_start, Sleep, TypeOK
<1>2. CASE rt_check
  BY <1>2 DEF rt_check, TypeOK
<1>3. CASE rt_read
  BY <1>3 DEF rt_read
<1>4. CASE rt_push
  <2>1. asleep' \subseteq asleep \union {ReadThread}
    BY <1>4 DEF rt_push, Sleep, notify_one
  <2> QED
    BY <1>4, <2>1 DEF rt_push
<1>5. CASE rt_token
  BY <1>5 DEF rt_token
<1>6. CASE rt_end
  BY <1>6 DEF rt_end, notify_all
<1> QED
  BY <1>1, <1>2, <1>3, <1>4, <1>5, <1>6 DEF ThreadStep

\* The steps of read().
LEMMA ReaderHears ==
    ASSUME TypeOK, Hearing, NEW r \in Reader, read_call(r) \/ ReadStep(r)
    PROVE  Hearing'
<1> USE DEF Hearing, openVars, queueVars, histVars
<1>1. CASE read_call(r)
  BY <1>1 DEF read_call
<1>2. CASE read_lock(r)
  <2>1. pc[r] = "lock" /\ UNCHANGED <<openVars, histVars, stop, closed, rt, life>>
    BY <1>2 DEF read_lock
  <2>2. early \/ op = "open"
    BY <2>1
  <2>3. asleep' \subseteq asleep \union {r}
    BY <1>2 DEF read_lock, Read, NoPacket, Sleep, notify_one
  <2>4. r # ReadThread
    BY PreloadAssumption
  <2> QED
    BY <2>1, <2>2, <2>3, <2>4
<1>3. CASE read_token(r)
  <2>1. pc[r] = "token" /\ UNCHANGED <<openVars, histVars, stop, closed, asleep, rt, life>>
    BY <1>3 DEF read_token
  <2> QED
    BY <2>1
<1> QED
  BY <1>1, <1>2, <1>3 DEF ReadStep

LEMMA NextHears ==
    ASSUME TypeOK, Hearing, [Next]_vars
    PROVE  Hearing'
<1>1. CASE write \/ close \/ destroyed \/ daemon_sends \/ daemon_ends \/ UNCHANGED vars
  BY <1>1 DEF Hearing, openVars, queueVars, histVars, write, close, destroyed, daemon_sends,
              daemon_ends, notify_all, vars
<1> QED
  BY <1>1, OpeningHears, ThreadHears, ReaderHears DEF Next

\* The read thread of a socket that connect() has opened is neither gone nor asleep
\* past its wake-up, unless some thread read too early.
THEOREM ConnectedIsHeard == Spec => []ConnectHears
<1>1. Spec => []Hearing
  <2>1. Hearing /\ TypeOK /\ [Next]_vars => Hearing'
    BY NextHears
  <2> QED
    BY HearingBegins, TypesHold, <2>1, PTL DEF Spec
<1>2. Hearing => ConnectHears
  BY DEF Hearing, ConnectHears, Deaf
<1> QED
  BY <1>1, <1>2, PTL
==============================================================================
