--------------------------- MODULE TransportProofs ---------------------------
(***************************************************************************)
(* Proofs about Transport, for any number of callers, hosts, sockets and   *)
(* attempts and any width of the TID.                                      *)
(***************************************************************************)
EXTENDS Transport, FiniteSetTheorems, TLAPS


-----------------------------------------------------------------------------
(* Operators                                                               *)

\* A truncated counter is a TID.
LEMMA TidType == \A n \in Nat : TID(n) \in Tids
BY TidAssumption, SMT DEF TID, Tids

\* Without a wrap, NextTID's truncation loses nothing.
LEMMA TidExact == \A n \in Nat : n < TidMod => TID(n) = n
BY TidAssumption, SMT DEF TID

\* Frames that can arrive, and their keys, have the expected shape.
LEMMA FrameTypes ==
  /\ \A s \in Sends : Res(s) \in Frames /\ Genuine(Res(s))
                      /\ Res(s).kind = "Res" /\ Res(s).req = s.req
                      /\ KeyOf(Res(s)) = <<s.host, TID(s.req)>>
  /\ \A k \in {"INF", "INFC"}, h \in Hosts, t \in Tids :
       Inf(k, h, t) \in Frames /\ Genuine(Inf(k, h, t))
  /\ \A f \in Frames : KeyOf(f) \in Keys
  /\ NoFrame \notin Frames
  /\ NoChan \notin Chans
BY TidType, TidAssumption, SMT
   DEF Sends, Res, Inf, Frames, Genuine, KeyOf, WaiterKey, Keys, Requests,
       NoFrame, NoChan, Chans

\* The states of a receiver goroutine.
LEMMA RxTypes ==
  /\ RxOff \in RxStates /\ RxIdle \in RxStates
  /\ RxOff.st = "off" /\ RxIdle.st = "idle"
  /\ \A f \in Frames : [st |-> "read", f |-> f] \in RxStates
  /\ \A f \in Frames, ch \in Chans :
       [st |-> "found", f |-> f, ch |-> ch] \in RxStates
  /\ \A r \in RxStates : r.st = "read" => r.f \in Frames
  /\ \A r \in RxStates : r.st = "found" => r.f \in Frames /\ r.ch \in Chans
BY SMT DEF RxStates, RxOff, RxIdle

\* The assumptions on the constants, in one place.
LEMMA Constants ==
  /\ MaxAttempts \in Nat \ {0} /\ MaxConns \in Nat \ {0}
  /\ TidMod \in Nat \ {0} /\ MaxSends \in Nat
  /\ Nobody \notin Callers
  /\ InfKinds \subseteq {"INF", "INFC"}
BY MaxAttemptsAssumption, MaxConnsAssumption, TidAssumption, CallersAssumption,
   InfKindsAssumption DEF Nobody


\* getOrCreateFixedConn keeps exactly one socket open and opens no number twice.
LEMMA GetConnFacts ==
  ASSUME IndInv, NEW k \in Conns, GetOrCreateFixedConn(k)
  PROVE  /\ fixedConn' \in Conns \cup {NoConn} /\ openConns' \in SUBSET Conns
         /\ nConns' \in 0..MaxConns /\ rx' \in [Conns -> RxStates]
         /\ SocketInv'
         /\ k # NoConn /\ k <= nConns' /\ nConns <= nConns'
         /\ \A j \in Conns : rx'[j] = rx[j] \/ rx'[j] = RxIdle
         /\ \A j \in openConns' : j \in openConns \/ j > nConns
<1>1. CASE fixedConn # NoConn
  <2>1. k = fixedConn /\ UNCHANGED <<fixedConn, openConns, nConns, rx>>
    BY <1>1 DEF GetOrCreateFixedConn, connVars
  <2> QED BY <1>1, <2>1 DEF IndInv, TypeOK, SocketInv, Conns, NoConn
<1>2. CASE fixedConn = NoConn
  <2>1. /\ k = nConns + 1 /\ fixedConn' = k /\ openConns' = openConns \cup {k}
        /\ nConns' = k /\ rx' = [rx EXCEPT ![k] = RxIdle]
    BY <1>2 DEF GetOrCreateFixedConn
  <2>2. openConns = {}
    BY <1>2 DEF IndInv, TypeOK, SocketInv, Conns, NoConn
  <2> QED BY <2>1, <2>2, RxTypes, Constants
          DEF IndInv, TypeOK, SocketInv, Conns, NoConn
<1> QED BY <1>1, <1>2

\* A failed open leaves the socket and its receiver alone.
LEMMA ConnFailFacts ==
  ASSUME IndInv, FixedConnFails
  PROVE  /\ fixedConn' = fixedConn /\ openConns' = openConns
         /\ nConns' = nConns /\ rx' = rx /\ SocketInv'
BY DEF FixedConnFails, connVars, IndInv, SocketInv

\* The waiters map stays consistent through a step that leaves it, the calls'
\* requests and attempts, and the registered calls as they are.
LEMMA WaitersFrame ==
  ASSUME IndInv, waiters' = waiters, host' = host, req' = req,
         attempt' = attempt,
         \A d \in Callers : pc'[d] \in Registered <=> pc[d] \in Registered
  PROVE  WaiterIntact' /\ NoOrphanWaiter'
BY DEF IndInv, WaiterIntact, NoOrphanWaiter, Key, Chan

\* Frames stay correctly routed through a step that moves none of them.
LEMMA RoutingFrame ==
  ASSUME IndInv, host' = host, req' = req, buf' = buf, got' = got,
         tidCounter' = tidCounter,
         \A d \in Callers : pc'[d] \in Registered <=> pc[d] \in Registered,
         \A d \in Callers : pc'[d] = "idle" <=> pc[d] = "idle",
         \A k \in Conns : rx'[k] = rx[k] \/ rx'[k] \in {RxIdle, RxOff}
  PROVE  RoutedByKey'
<1>1. \A d \in Callers : Active(d)' = Active(d) /\ Key(d)' = Key(d)
  BY DEF Active, Key
<1>2. \A k \in Conns : rx'[k] = rx[k] \/ rx'[k].st \in {"idle", "off"}
  BY RxTypes
<1> QED BY <1>1, <1>2 DEF IndInv, RoutedByKey


-----------------------------------------------------------------------------
(* Steps of one caller that holds its host's mutex                         *)

\* The sockets after a step: one at most, numbered upwards, none reopened,
\* and no receiver given a frame.
SocketsKept ==
  /\ fixedConn' \in Conns \cup {NoConn} /\ openConns' \in SUBSET Conns
  /\ nConns' \in 0..MaxConns /\ rx' \in [Conns -> RxStates]
  /\ SocketInv'
  /\ nConns <= nConns'
  /\ \A j \in Conns : rx'[j] = rx[j] \/ rx'[j] = RxIdle
  /\ \A j \in openConns' : j \in openConns \/ j > nConns

\* A step in which caller c, with the mutex held, changes its own locals.
OwnStep(c) ==
  /\ pc[c] \in Locked /\ pc'[c] \in Locked
  /\ pc' = [pc EXCEPT ![c] = pc'[c]]
  /\ pc'[c] \in Registered <=> pc[c] \in Registered
  /\ pc'[c] \in {"ffconn", "ffwrite"} => pc[c] \in {"ffconn", "ffwrite"}
  /\ outcome' = [outcome EXCEPT ![c] = outcome'[c]]
  /\ outcome'[c] \in Errors \cup {"none", "ok"}
  /\ conn' = [conn EXCEPT ![c] = conn'[c]]
  /\ conn'[c] \in Conns \cup {NoConn} /\ conn'[c] <= nConns'
  /\ pc'[c] \in {"register", "write", "reset"} => conn'[c] # NoConn
  /\ pc'[c] = "reset" => conn'[c] \notin openConns'
  /\ got' = [got EXCEPT ![c] = got'[c]]
  /\ got'[c] \in Frames \cup {NoFrame}
  /\ got'[c] # NoFrame => Genuine(got'[c]) /\ KeyOf(got'[c]) = Key(c)
  /\ outcome'[c] = "ok" /\ mode[c] = "send" => got'[c] # NoFrame
  /\ expired' \in SUBSET Keys /\ sent' \in SUBSET Sends
  /\ SocketsKept
  /\ UNCHANGED <<phase, tidCounter, mode, host, req, attempt, ctx, buf,
                 hostLock, waiters, infChan, joined>>

\* Such a step preserves the invariant.
LEMMA OwnStepInv ==
  ASSUME IndInv, NEW c \in Callers, OwnStep(c)
  PROVE  IndInv'
<1>1. TypeOK'
  BY DEF IndInv, TypeOK, OwnStep, SocketsKept, Locked
<1>2. \A d \in Callers : /\ pc'[d] \in Registered <=> pc[d] \in Registered
                         /\ pc'[d] = "idle" <=> pc[d] = "idle"
  BY DEF IndInv, TypeOK, OwnStep, Locked
<1>3. CallInv'
  <2> SUFFICES ASSUME NEW d \in Callers PROVE CallInv!(d)'
    BY DEF CallInv
  <2>1. CASE d = c
    BY <2>1, <1>1 DEF IndInv, TypeOK, CallInv, Active, OwnStep, SocketsKept,
                      Locked
  <2>2. CASE d # c
    <3>1. /\ pc'[d] = pc[d] /\ outcome'[d] = outcome[d] /\ got'[d] = got[d]
          /\ conn'[d] = conn[d]
      BY <2>2 DEF IndInv, TypeOK, OwnStep
    <3>2. conn[d] \in Nat /\ nConns \in Nat /\ nConns' \in Nat
      BY <1>1, Constants DEF IndInv, TypeOK, Conns, NoConn
    <3>3. conn[d] <= nConns' /\ (conn[d] \notin openConns => conn[d] \notin openConns')
      BY <3>2 DEF IndInv, CallInv, OwnStep, SocketsKept
    <3> QED BY <3>1, <3>3 DEF IndInv, CallInv, Active, OwnStep
  <2> QED BY <2>1, <2>2
<1>4. DistinctRequests'
  BY <1>2 DEF IndInv, DistinctRequests, Active, OwnStep
<1>5. RoutedByKey'
  <2>1. \A d \in Callers : Active(d)' = Active(d) /\ Key(d)' = Key(d)
    BY <1>2 DEF Active, Key, OwnStep
  <2>2. RxIdle.st = "idle"
    BY RxTypes
  <2>3. Active(c)
    BY DEF OwnStep, Active, Locked
  <2>4. \A k \in Conns : rx'[k] = rx[k] \/ rx'[k].st = "idle"
    BY <2>2 DEF OwnStep, SocketsKept
  <2>5. \A d \in Callers : got'[d] # NoFrame =>
          Active(d) /\ Genuine(got'[d]) /\ KeyOf(got'[d]) = Key(d)
    <3> SUFFICES ASSUME NEW d \in Callers, got'[d] # NoFrame
                 PROVE  Active(d) /\ Genuine(got'[d]) /\ KeyOf(got'[d]) = Key(d)
      OBVIOUS
    <3>1. CASE d = c
      BY <3>1, <2>3 DEF OwnStep
    <3>2. CASE d # c
      BY <3>2 DEF IndInv, TypeOK, RoutedByKey, OwnStep
    <3> QED BY <3>1, <3>2
  <2> QED BY <1>2, <2>1, <2>4, <2>5
          DEF IndInv, RoutedByKey, OwnStep
<1>6. WaiterIntact' /\ NoOrphanWaiter'
  BY <1>2, WaitersFrame DEF OwnStep
<1>7. SocketInv'
  BY DEF OwnStep, SocketsKept
<1> QED BY <1>1, <1>3, <1>4, <1>5, <1>6, <1>7 DEF IndInv

\* The sockets are as they were.
LEMMA SameSockets ==
  ASSUME IndInv, UNCHANGED <<fixedConn, openConns, nConns, rx>>
  PROVE  SocketsKept
BY DEF IndInv, TypeOK, SocketInv, SocketsKept

\* Every step of a caller between Lock and Unlock, except the two that edit
\* the waiters map, is an OwnStep.
LEMMA AttemptInv ==
  ASSUME IndInv, NEW c \in Callers, Attempt(c)
  PROVE  IndInv'
<1> USE DEF IndInv, TypeOK, CallInv, Locked, PCs, Registered
<1>1. CASE ctx[c] # "live" /\ FailAttempt(c, ctx[c]) /\ UNCHANGED <<connVars, rx>>
  <2>1. SocketsKept /\ nConns' = nConns
    BY <1>1, SameSockets DEF connVars
  <2>2. AfterRetry(ctx[c]) = "unlock" /\ ctx[c] \in Errors /\ ctx[c] # "ok"
    BY <1>1 DEF AfterRetry, Errors
  <2>3. OwnStep(c)
    BY <1>1, <2>1, <2>2 DEF OwnStep, SocketsKept, Attempt, FailAttempt,
                            RoutedByKey, tableVars
  <2> QED BY <2>3, OwnStepInv
<1>2. ASSUME NEW o \in {"bind", "other"}, FailAttempt(c, o), FixedConnFails
      PROVE  IndInv'
  <2>1. SocketsKept /\ nConns' = nConns
    BY <1>2, SameSockets, ConnFailFacts
  <2>2. AfterRetry(o) \in {"ephemeral", "unlock"} /\ o \in Errors /\ o # "ok"
    BY DEF AfterRetry, Errors
  <2>3. OwnStep(c)
    BY <1>2, <2>1, <2>2 DEF OwnStep, SocketsKept, Attempt, FailAttempt,
                            RoutedByKey, tableVars
  <2> QED BY <2>3, OwnStepInv
<1>3. ASSUME NEW k \in Conns, GetOrCreateFixedConn(k),
             conn' = [conn EXCEPT ![c] = k],
             pc' = [pc EXCEPT ![c] = "register"], UNCHANGED <<attempt, outcome>>
      PROVE  IndInv'
  <2>1. SocketsKept /\ k # NoConn /\ k <= nConns'
    BY <1>3, GetConnFacts DEF SocketsKept
  <2>2. OwnStep(c)
    BY <1>3, <2>1 DEF OwnStep, SocketsKept, Attempt, RoutedByKey, tableVars
  <2> QED BY <2>2, OwnStepInv
<1> QED BY <1>1, <1>2, <1>3 DEF Attempt

\* Writing the request, or failing to, changes c's own locals only.
LEMMA WriteInv ==
  ASSUME IndInv, NEW c \in Callers, Write(c)
  PROVE  IndInv'
<1>1. SocketsKept
  BY SameSockets DEF Write, connVars
<1>2. sent' \in SUBSET Sends
  BY Constants DEF IndInv, TypeOK, CallInv, Active, Write, Written, Sends,
                   Requests
<1>3. /\ pc[c] = "write" /\ pc'[c] \in {"wait", "unregister", "reset"}
      /\ pc' = [pc EXCEPT ![c] = pc'[c]]
      /\ pc'[c] = "reset" => conn[c] \notin openConns
      /\ outcome' = [outcome EXCEPT ![c] = outcome'[c]]
      /\ outcome'[c] \in {outcome[c], "other"}
  BY DEF IndInv, TypeOK, Write
<1>4. OwnStep(c)
  BY <1>1, <1>2, <1>3
     DEF IndInv, TypeOK, CallInv, RoutedByKey, OwnStep, SocketsKept, Locked,
         PCs, Registered, Errors, Write, tableVars, connVars
<1> QED BY <1>4, OwnStepInv

\* The socket a caller found closed is not the transport's any more, so
\* resetFixedConn's branch is never taken.
LEMMA ResetIsNoOp ==
  ASSUME IndInv, NEW c \in Callers, ResetFixedConn(c)
  PROVE  fixedConn # conn[c] /\ UNCHANGED <<fixedConn, openConns>>
BY DEF IndInv, CallInv, SocketInv, ResetFixedConn, IsCurrent

\* resetFixedConn changes nothing but c's statement.
LEMMA ResetFixedConnInv ==
  ASSUME IndInv, NEW c \in Callers, ResetFixedConn(c)
  PROVE  IndInv'
<1>1. SocketsKept
  BY SameSockets, ResetIsNoOp DEF ResetFixedConn
<1>2. OwnStep(c)
  BY <1>1 DEF IndInv, TypeOK, CallInv, RoutedByKey, OwnStep, SocketsKept,
              Locked, PCs, Registered, Errors, ResetFixedConn, tableVars
<1> QED BY <1>2, OwnStepInv

\* Opening a socket again after a reset.
LEMMA ReconnectInv ==
  ASSUME IndInv, NEW c \in Callers, Reconnect(c)
  PROVE  IndInv'
<1> USE DEF IndInv, TypeOK, CallInv, Locked, PCs, Registered
<1>1. ASSUME NEW k \in Conns, GetOrCreateFixedConn(k),
             conn' = [conn EXCEPT ![c] = k],
             pc' = [pc EXCEPT ![c] = "rewrite"], UNCHANGED outcome
      PROVE  IndInv'
  <2>1. SocketsKept /\ k # NoConn /\ k <= nConns'
    BY <1>1, GetConnFacts DEF SocketsKept
  <2>2. OwnStep(c)
    BY <1>1, <2>1 DEF OwnStep, SocketsKept, Reconnect, RoutedByKey, tableVars
  <2> QED BY <2>2, OwnStepInv
<1>2. ASSUME NEW o \in {"bind", "other"}, FixedConnFails,
             outcome' = [outcome EXCEPT ![c] = o],
             pc' = [pc EXCEPT ![c] = "unregister"], UNCHANGED conn
      PROVE  IndInv'
  <2>1. SocketsKept /\ nConns' = nConns
    BY <1>2, SameSockets, ConnFailFacts
  <2>2. o \in Errors /\ o # "ok"
    BY DEF Errors
  <2>3. OwnStep(c)
    BY <1>2, <2>1, <2>2 DEF OwnStep, SocketsKept, Reconnect, RoutedByKey, tableVars
  <2> QED BY <2>3, OwnStepInv
<1> QED BY <1>1, <1>2 DEF Reconnect

\* The second write.
LEMMA RewriteInv ==
  ASSUME IndInv, NEW c \in Callers, Rewrite(c)
  PROVE  IndInv'
<1>1. SocketsKept
  BY SameSockets DEF Rewrite, connVars
<1>2. sent' \in SUBSET Sends
  BY Constants DEF IndInv, TypeOK, CallInv, Active, Rewrite, Written, Sends,
                   Requests
<1>3. /\ pc[c] = "rewrite" /\ pc'[c] \in {"wait", "unregister"}
      /\ pc' = [pc EXCEPT ![c] = pc'[c]]
      /\ outcome' = [outcome EXCEPT ![c] = outcome'[c]]
      /\ outcome'[c] \in {outcome[c], "other"}
  BY DEF IndInv, TypeOK, Rewrite
<1>4. OwnStep(c)
  BY <1>1, <1>2, <1>3
     DEF IndInv, TypeOK, CallInv, RoutedByKey, OwnStep, SocketsKept, Locked,
         PCs, Registered, Errors, Rewrite, tableVars, connVars
<1> QED BY <1>4, OwnStepInv

\* A reply taken from the response channel carries c's key.
LEMMA ReceiveInv ==
  ASSUME IndInv, NEW c \in Callers, Receive(c)
  PROVE  IndInv'
<1>1. SocketsKept
  BY SameSockets DEF Receive, connVars
<1>2. OwnStep(c)
  BY <1>1 DEF IndInv, TypeOK, CallInv, RoutedByKey, OwnStep, SocketsKept,
              Locked, PCs, Registered, Errors, Receive, tableVars, connVars
<1> QED BY <1>2, OwnStepInv

\* A timer or context that fires records an expired key.
LEMMA ExpireInv ==
  ASSUME IndInv, NEW c \in Callers, Expire(c)
  PROVE  IndInv'
<1>1. SocketsKept
  BY SameSockets DEF Expire, connVars
<1>2. Key(c) \in Keys
  BY TidType, Constants
     DEF IndInv, TypeOK, CallInv, Active, Expire, Key, Keys, WaiterKey
<1>3. expired' \in SUBSET Keys
  <2>1. CASE Cardinality(expired) >= MaxExpired
    <3>1. PICK stale \in SUBSET expired :
            expired' = (IF Cardinality(expired \ stale) >= MaxExpired
                        THEN {} ELSE expired \ stale) \cup {Key(c)}
      BY <2>1 DEF Expire, RecordExpiredWaiter
    <3> QED BY <3>1, <1>2 DEF IndInv, TypeOK
  <2>2. CASE ~(Cardinality(expired) >= MaxExpired)
    BY <2>2, <1>2 DEF IndInv, TypeOK, Expire, RecordExpiredWaiter
  <2> QED BY <2>1, <2>2
<1>4. /\ outcome' = [outcome EXCEPT ![c] = outcome'[c]]
      /\ outcome'[c] \in {"timeout", "deadline", "canceled"}
  BY DEF IndInv, TypeOK, Expire
<1>5. OwnStep(c)
  BY <1>1, <1>3, <1>4
     DEF IndInv, TypeOK, CallInv, RoutedByKey, OwnStep, SocketsKept, Locked,
         PCs, Registered, Errors, Expire, connVars
<1> QED BY <1>5, OwnStepInv

\* The fallback write from an ephemeral port.
LEMMA EphemeralInv ==
  ASSUME IndInv, NEW c \in Callers, Ephemeral(c)
  PROVE  IndInv'
<1>1. SocketsKept
  BY SameSockets DEF Ephemeral, connVars
<1>2. sent' \in SUBSET Sends
  BY Constants DEF IndInv, TypeOK, CallInv, Active, Ephemeral, Written, Sends,
                   Requests
<1>3. /\ pc[c] = "ephemeral" /\ pc'[c] \in {"ephwait", "unlock"}
      /\ pc' = [pc EXCEPT ![c] = pc'[c]]
      /\ outcome' = [outcome EXCEPT ![c] = outcome'[c]]
      /\ outcome'[c] \in {outcome[c], "other"}
  BY DEF IndInv, TypeOK, Ephemeral
<1>4. OwnStep(c)
  BY <1>1, <1>2, <1>3
     DEF IndInv, TypeOK, CallInv, RoutedByKey, OwnStep, SocketsKept, Locked,
         PCs, Registered, Errors, Ephemeral, tableVars, connVars
<1> QED BY <1>4, OwnStepInv

\* writeAndRead accepts c's key only.
LEMMA EphemeralReadInv ==
  ASSUME IndInv, NEW c \in Callers, EphemeralRead(c)
  PROVE  IndInv'
<1>1. SocketsKept
  BY SameSockets DEF EphemeralRead, connVars
<1>2. ASSUME NEW s \in sent, KeyOf(Res(s)) = Key(c),
             got' = [got EXCEPT ![c] = Res(s)],
             outcome' = [outcome EXCEPT ![c] = "ok"]
      PROVE  OwnStep(c)
  <2>1. s \in Sends /\ Res(s) \in Frames /\ Genuine(Res(s))
    BY FrameTypes DEF IndInv, TypeOK
  <2>2. got'[c] = Res(s) /\ Res(s) # NoFrame
    BY <1>2, <2>1, FrameTypes DEF IndInv, TypeOK
  <2> QED BY <1>1, <1>2, <2>1, <2>2
          DEF IndInv, TypeOK, CallInv, RoutedByKey, OwnStep, SocketsKept,
              Locked, PCs, Registered, Errors, EphemeralRead, tableVars,
              connVars
<1>3. ASSUME NEW o \in Errors, UNCHANGED got,
             outcome' = [outcome EXCEPT ![c] = o]
      PROVE  OwnStep(c)
  <2>1. o # "ok"
    BY DEF Errors
  <2> QED BY <1>1, <1>3, <2>1
          DEF IndInv, TypeOK, CallInv, RoutedByKey, OwnStep, SocketsKept,
              Locked, PCs, Registered, EphemeralRead, tableVars, connVars
<1>4. "timeout" \in Errors /\ (ctx[c] # "live" => ctx[c] \in Errors)
  BY DEF IndInv, TypeOK, Errors
<1> QED BY <1>2, <1>3, <1>4, OwnStepInv DEF EphemeralRead

\* SendFireAndForget obtaining a socket.
LEMMA FireConnInv ==
  ASSUME IndInv, NEW c \in Callers, FireConn(c)
  PROVE  IndInv'
<1> USE DEF IndInv, TypeOK, CallInv, Locked, PCs, Registered
<1>1. ASSUME NEW k \in Conns, GetOrCreateFixedConn(k),
             conn' = [conn EXCEPT ![c] = k],
             pc' = [pc EXCEPT ![c] = "ffwrite"], UNCHANGED outcome
      PROVE  IndInv'
  <2>1. SocketsKept /\ k # NoConn /\ k <= nConns'
    BY <1>1, GetConnFacts DEF SocketsKept
  <2>2. OwnStep(c)
    BY <1>1, <2>1 DEF OwnStep, SocketsKept, FireConn, RoutedByKey, tableVars
  <2> QED BY <2>2, OwnStepInv
<1>2. ASSUME NEW o \in {"bind", "other"}, FixedConnFails,
             outcome' = [outcome EXCEPT ![c] = o],
             pc' = [pc EXCEPT ![c] = "unlock"], UNCHANGED conn
      PROVE  IndInv'
  <2>1. SocketsKept /\ nConns' = nConns
    BY <1>2, SameSockets, ConnFailFacts
  <2>2. o \in Errors /\ o # "ok"
    BY DEF Errors
  <2>3. OwnStep(c)
    BY <1>2, <2>1, <2>2 DEF OwnStep, SocketsKept, FireConn, RoutedByKey, tableVars
  <2> QED BY <2>3, OwnStepInv
<1> QED BY <1>1, <1>2 DEF FireConn

\* SendFireAndForget writing.
LEMMA FireWriteInv ==
  ASSUME IndInv, NEW c \in Callers, FireWrite(c)
  PROVE  IndInv'
<1>1. SocketsKept
  BY SameSockets DEF FireWrite, connVars
<1>2. /\ outcome' = [outcome EXCEPT ![c] = outcome'[c]]
      /\ outcome'[c] \in {"ok", "other"}
  BY DEF IndInv, TypeOK, FireWrite
<1>3. OwnStep(c)
  BY <1>1, <1>2 DEF IndInv, TypeOK, CallInv, RoutedByKey, OwnStep, SocketsKept,
              Locked, PCs, Registered, Errors, FireWrite, tableVars, connVars
<1> QED BY <1>3, OwnStepInv

-----------------------------------------------------------------------------
(* Steps that begin and end a call, or edit the waiters map                *)

\* Both kinds of call begin alike: an idle caller takes a fresh counter value.
LEMMA BeginFacts ==
  ASSUME IndInv, NEW c \in Callers, NEW h \in Hosts,
         pc[c] = "idle", tidCounter < MaxSends, tidCounter' = tidCounter + 1,
         req' = [req EXCEPT ![c] = tidCounter + 1],
         host' = [host EXCEPT ![c] = h], pc' = [pc EXCEPT ![c] = "lock"],
         mode' \in [Callers -> {"send", "ff"}],
         \A d \in Callers \ {c} : mode'[d] = mode[d],
         ctx' \in [Callers -> {"live", "deadline", "canceled"}],
         UNCHANGED <<phase, attempt, conn, outcome, got, buf, tableVars,
                     connVars, rx, sent, infChan, joined>>
  PROVE  IndInv'
<1> USE DEF tableVars, connVars
<1>1. TypeOK'
  <2>1. tidCounter' \in 0..MaxSends /\ tidCounter + 1 \in 0..MaxSends
    BY Constants DEF IndInv, TypeOK
  <2>2. /\ pc' \in [Callers -> PCs] /\ req' \in [Callers -> 0..MaxSends]
        /\ host' \in [Callers -> Hosts \cup {NoHost}]
    BY <2>1 DEF IndInv, TypeOK, PCs
  <2> QED BY <2>1, <2>2 DEF IndInv, TypeOK
<1>2. \A d \in Callers \ {c} : /\ pc'[d] = pc[d] /\ req'[d] = req[d]
                               /\ host'[d] = host[d]
  BY DEF IndInv, TypeOK
<1>3. pc'[c] = "lock" /\ req'[c] = tidCounter + 1 /\ host'[c] = h
  BY DEF IndInv, TypeOK
<1>4. \A d \in Callers \ {c} : Active(d) => req[d] \in 1..tidCounter
  BY DEF IndInv, CallInv
<1>5. tidCounter \in Nat
  BY Constants DEF IndInv, TypeOK
<1>6. CallInv'
  <2> SUFFICES ASSUME NEW d \in Callers PROVE CallInv!(d)'
    BY DEF CallInv
  <2>1. CASE d = c
    BY <2>1, <1>3, <1>5 DEF IndInv, CallInv, Active, Locked, PCs
  <2>2. CASE d # c
    BY <2>2, <1>2, <1>5 DEF IndInv, CallInv, Active
  <2> QED BY <2>1, <2>2
<1>7. DistinctRequests'
  BY <1>2, <1>3, <1>4, <1>5 DEF IndInv, DistinctRequests, Active
<1>8. \A d \in Callers \ {c} : Key(d)' = Key(d) /\ Active(d)' = Active(d)
  BY <1>2 DEF Key, Active
<1>9. RoutedByKey'
  <2>1. buf[c] = NoFrame /\ got[c] = NoFrame
    BY DEF IndInv, RoutedByKey, Active, Registered
  <2>2. \A k \in Conns : rx[k].st = "found" =>
          rx[k].ch[1] \in 1..tidCounter' /\ rx[k].ch[1] # req'[c]
    BY <1>3, <1>5 DEF IndInv, RoutedByKey
  <2> QED BY <1>2, <1>8, <2>1, <2>2 DEF IndInv, RoutedByKey
<1>10. WaiterIntact' /\ NoOrphanWaiter'
  <2>1. pc[c] \notin Registered /\ pc'[c] \notin Registered
    BY <1>3 DEF Registered
  <2>2. \A d \in Callers \ {c} : Chan(d)' = Chan(d)
    BY <1>2 DEF Chan
  <2> QED BY <1>2, <1>8, <2>1, <2>2 DEF IndInv, WaiterIntact, NoOrphanWaiter
<1>11. SocketInv'
  BY DEF IndInv, SocketInv
<1> QED BY <1>1, <1>6, <1>7, <1>9, <1>10, <1>11 DEF IndInv

\* Entering Send.
LEMMA BeginSendInv ==
  ASSUME IndInv, NEW c \in Callers, NEW h \in Hosts, BeginSend(c, h)
  PROVE  IndInv'
<1>1. /\ mode' \in [Callers -> {"send", "ff"}]
      /\ \A d \in Callers \ {c} : mode'[d] = mode[d]
      /\ ctx' \in [Callers -> {"live", "deadline", "canceled"}]
  BY DEF BeginSend, FreshCtx, IndInv, TypeOK
<1> QED BY <1>1, BeginFacts DEF BeginSend

\* Entering SendFireAndForget, or its early return.
LEMMA BeginFireAndForgetInv ==
  ASSUME IndInv, NEW c \in Callers, NEW h \in Hosts, BeginFireAndForget(c, h)
  PROVE  IndInv'
<1>1. CASE pc' = [pc EXCEPT ![c] = "lock"] /\ req' = [req EXCEPT ![c] = tidCounter + 1]
           /\ host' = [host EXCEPT ![c] = h]
           /\ mode' = [mode EXCEPT ![c] = "ff"] /\ ctx' = [ctx EXCEPT ![c] = "live"]
  <2>1. /\ mode' \in [Callers -> {"send", "ff"}]
        /\ \A d \in Callers \ {c} : mode'[d] = mode[d]
        /\ ctx' \in [Callers -> {"live", "deadline", "canceled"}]
    BY <1>1 DEF IndInv, TypeOK
  <2> QED BY <1>1, <2>1, BeginFacts DEF BeginFireAndForget
<1>2. CASE UNCHANGED <<req, host, mode, ctx, pc>>
  <2>1. TypeOK'
    BY <1>2, Constants DEF BeginFireAndForget, IndInv, TypeOK, tableVars, connVars
  <2>2. tidCounter \in Nat /\ tidCounter' = tidCounter + 1
    BY Constants DEF BeginFireAndForget, IndInv, TypeOK
  <2>3. CallInv'
    BY <1>2, <2>2
       DEF BeginFireAndForget, IndInv, CallInv, Active, tableVars, connVars
  <2>4. DistinctRequests' /\ WaiterIntact' /\ NoOrphanWaiter' /\ SocketInv'
    BY <1>2 DEF BeginFireAndForget, IndInv, DistinctRequests, WaiterIntact,
                NoOrphanWaiter, SocketInv, Active, Key, Chan, tableVars, connVars
  <2>5. RoutedByKey'
    <3>1. \A k \in Conns : rx[k].st = "found" => rx[k].ch[1] \in 1..tidCounter'
      BY <2>2 DEF IndInv, RoutedByKey
    <3>2. \A d \in Callers : Key(d)' = Key(d) /\ Active(d)' = Active(d)
      BY <1>2 DEF Key, Active
    <3> QED BY <1>2, <3>1, <3>2 DEF BeginFireAndForget, IndInv, RoutedByKey
  <2> QED BY <2>1, <2>3, <2>4, <2>5 DEF IndInv
<1> QED BY <1>1, <1>2 DEF BeginFireAndForget

\* Taking the host's mutex: no other call holds it.
LEMMA LockInv ==
  ASSUME IndInv, NEW c \in Callers, Lock(c)
  PROVE  IndInv'
<1> USE DEF connVars
<1>1. /\ pc[c] = "lock" /\ pc'[c] \in {"attempt", "ffconn"}
      /\ pc'[c] = "ffconn" => mode[c] = "ff"
      /\ pc' = [pc EXCEPT ![c] = pc'[c]]
      /\ attempt' = [attempt EXCEPT ![c] = 1]
      /\ hostLock[host[c]] = Nobody
      /\ hostLock' = [hostLock EXCEPT ![host[c]] = c]
      /\ host[c] \in Hosts
  BY DEF Lock, HostFree, IndInv, TypeOK, CallInv, Active
<1>2. TypeOK'
  BY <1>1, Constants DEF Lock, IndInv, TypeOK, PCs, Attempts
<1>3. CallInv'
  <2> SUFFICES ASSUME NEW d \in Callers PROVE CallInv!(d)'
    BY DEF CallInv
  <2>1. CASE d = c
    BY <2>1, <1>1 DEF Lock, IndInv, TypeOK, CallInv, Active, Locked
  <2>2. CASE d # c
    <3>1. pc'[d] = pc[d] /\ attempt'[d] = attempt[d]
      BY <2>2, <1>1 DEF IndInv, TypeOK
    <3>2. pc[d] \in Locked => host[d] # host[c] /\ hostLock'[host[d]] = d
      BY <1>1, Constants DEF IndInv, TypeOK, CallInv, Active, Locked
    <3> QED BY <3>1, <3>2 DEF Lock, IndInv, CallInv, Active
  <2> QED BY <2>1, <2>2
<1>4. \A d \in Callers : /\ pc'[d] \in Registered <=> pc[d] \in Registered
                         /\ pc'[d] = "idle" <=> pc[d] = "idle"
  BY <1>1 DEF IndInv, TypeOK, Registered
<1>5. DistinctRequests' /\ SocketInv'
  BY <1>4 DEF Lock, IndInv, DistinctRequests, SocketInv, Active
<1>6. RoutedByKey'
  BY <1>4, RoutingFrame DEF Lock
<1>7. WaiterIntact' /\ NoOrphanWaiter'
  <2>1. \A d \in Callers : pc[d] \in Registered => Chan(d)' = Chan(d)
    BY <1>1 DEF Lock, IndInv, TypeOK, Registered, Chan
  <2>2. \A d \in Callers : Key(d)' = Key(d)
    BY DEF Lock, Key
  <2> QED BY <1>4, <2>1, <2>2 DEF Lock, IndInv, WaiterIntact, NoOrphanWaiter
<1> QED BY <1>2, <1>3, <1>5, <1>6, <1>7 DEF IndInv

\* Two calls between Lock and Unlock are calls to different hosts.
LEMMA HostExclusive ==
  ASSUME IndInv, NEW c \in Callers, NEW d \in Callers,
         pc[c] \in Locked, pc[d] \in Locked, host[c] = host[d]
  PROVE  c = d
BY DEF IndInv, CallInv

\* A caller's key and channel are what the map is typed for.
LEMMA KeyTypes ==
  ASSUME IndInv, NEW c \in Callers, Active(c)
  PROVE  Key(c) \in Keys /\ Key(c)[1] = host[c]
BY TidType, Constants
   DEF IndInv, TypeOK, CallInv, Key, Keys, WaiterKey

\* addWaiter overwrites no entry in use: only c works on its host.
LEMMA RegisterInv ==
  ASSUME IndInv, NEW c \in Callers, Register(c)
  PROVE  IndInv'
<1> USE DEF connVars
<1>1. Active(c) /\ pc[c] \in Locked /\ pc[c] \notin Registered
  BY DEF Register, Active, Locked, PCs, Registered
<1>2. Chan(c) \in Chans
  BY <1>1, Constants DEF IndInv, TypeOK, CallInv, Chan, Chans, Requests
<1>3. TypeOK'
  BY <1>2 DEF Register, IndInv, TypeOK, PCs
<1>4. CallInv'
  BY DEF Register, IndInv, TypeOK, CallInv, Active, Locked, PCs
<1>5. DistinctRequests' /\ SocketInv'
  BY DEF Register, IndInv, TypeOK, DistinctRequests, SocketInv, Active
<1>6. \A d \in Callers : Key(d)' = Key(d) /\ Chan(d)' = Chan(d)
  BY DEF Register, Key, Chan
<1>7. \A d \in Callers : pc'[d] \in Registered <=> pc[d] \in Registered \/ d = c
  BY DEF Register, IndInv, TypeOK, Registered
<1>8. \A d \in Callers : pc[d] \in Registered => Key(d) # Key(c)
  <2> SUFFICES ASSUME NEW d \in Callers, pc[d] \in Registered, Key(d) = Key(c)
               PROVE  FALSE
    OBVIOUS
  <2>1. pc[d] \in Locked /\ Active(d)
    BY DEF Locked, Registered, PCs, Active
  <2> QED BY <1>1, <2>1, KeyTypes, HostExclusive
<1>9. WaiterIntact' /\ NoOrphanWaiter'
  <2>1. waiters' = [waiters EXCEPT ![Key(c)] = Chan(c)] /\ Key(c) \in Keys
    BY <1>1, KeyTypes DEF Register
  <2>2. WaiterIntact'
    BY <2>1, <1>6, <1>7, <1>8 DEF IndInv, TypeOK, WaiterIntact
  <2>3. NoOrphanWaiter'
    BY <2>1, <1>6, <1>7 DEF IndInv, TypeOK, NoOrphanWaiter
  <2> QED BY <2>2, <2>3
<1>10. RoutedByKey'
  <2>1. \A d \in Callers : Active(d)' = Active(d)
    BY DEF Register, IndInv, TypeOK, Active
  <2>2. \A d \in Callers : buf'[d] = buf[d] \/ buf'[d] = NoFrame
    BY DEF Register, IndInv, TypeOK
  <2> QED BY <1>6, <1>7, <2>1, <2>2 DEF Register, IndInv, RoutedByKey
<1> QED BY <1>3, <1>4, <1>5, <1>9, <1>10 DEF IndInv

\* removeWaiter deletes c's entry and no other.
LEMMA UnregisterInv ==
  ASSUME IndInv, NEW c \in Callers, Unregister(c)
  PROVE  IndInv'
<1> USE DEF connVars, RemoveWaiter
<1>1. Active(c) /\ pc[c] \in Locked /\ pc[c] \in Registered
  BY DEF Unregister, Active, Locked, PCs, Registered
<1>2. /\ pc' = [pc EXCEPT ![c] = pc'[c]]
      /\ pc'[c] \in {"attempt", "ephemeral", "unlock"}
      /\ attempt' = [attempt EXCEPT ![c] = attempt'[c]]
      /\ attempt'[c] \in Attempts /\ attempt'[c] >= attempt[c]
  BY Constants DEF Unregister, IndInv, TypeOK, AfterAttempt, AfterRetry,
                   IsTimeout, Attempts
<1>3. TypeOK'
  BY <1>2 DEF Unregister, IndInv, TypeOK, PCs
<1>4. CallInv'
  <2> SUFFICES ASSUME NEW d \in Callers PROVE CallInv!(d)'
    BY DEF CallInv
  <2>1. CASE d = c
    BY <2>1, <1>1, <1>2, Constants
       DEF Unregister, IndInv, TypeOK, CallInv, Active, Locked, PCs, Attempts
  <2>2. CASE d # c
    <3>1. pc'[d] = pc[d] /\ attempt'[d] = attempt[d]
      BY <2>2, <1>2 DEF IndInv, TypeOK
    <3> QED BY <3>1 DEF Unregister, IndInv, CallInv, Active
  <2> QED BY <2>1, <2>2
<1>5. \A d \in Callers : /\ Key(d)' = Key(d) /\ Active(d)' = Active(d)
                         /\ d # c => Chan(d)' = Chan(d)
  BY <1>1, <1>2 DEF Unregister, IndInv, TypeOK, Key, Chan, Active
<1>6. \A d \in Callers : pc'[d] \in Registered <=> pc[d] \in Registered /\ d # c
  BY <1>2 DEF IndInv, TypeOK, Registered
<1>7. DistinctRequests' /\ SocketInv'
  BY <1>5 DEF Unregister, IndInv, DistinctRequests, SocketInv
<1>8. \A d \in Callers : pc[d] \in Registered /\ d # c => Key(d) # Key(c)
  <2> SUFFICES ASSUME NEW d \in Callers, pc[d] \in Registered, Key(d) = Key(c)
               PROVE  d = c
    OBVIOUS
  <2>1. pc[d] \in Locked /\ Active(d)
    BY DEF Locked, Registered, PCs, Active
  <2> QED BY <1>1, <2>1, KeyTypes, HostExclusive
<1>9. WaiterIntact' /\ NoOrphanWaiter'
  <2>1. waiters' = [waiters EXCEPT ![Key(c)] = NoChan] /\ Key(c) \in Keys
    BY <1>1, KeyTypes DEF Unregister
  <2>2. WaiterIntact'
    BY <2>1, <1>5, <1>6, <1>8 DEF IndInv, TypeOK, WaiterIntact
  <2>3. NoOrphanWaiter'
    <3> SUFFICES ASSUME NEW key \in Keys, waiters'[key] # NoChan
                 PROVE  \E d \in Callers : /\ pc'[d] \in Registered
                                           /\ Key(d)' = key
                                           /\ Chan(d)' = waiters'[key]
      BY DEF NoOrphanWaiter
    <3>1. key # Key(c) /\ waiters'[key] = waiters[key]
      BY <2>1 DEF IndInv, TypeOK
    <3>2. PICK d \in Callers : /\ pc[d] \in Registered /\ Key(d) = key
                               /\ Chan(d) = waiters[key]
      BY <3>1 DEF IndInv, NoOrphanWaiter
    <3> QED BY <3>1, <3>2, <1>5, <1>6
  <2> QED BY <2>2, <2>3
<1>10. RoutedByKey'
  <2>1. buf'[c] = NoFrame /\ \A d \in Callers : d # c => buf'[d] = buf[d]
    BY DEF Unregister, IndInv, TypeOK
  <2> QED BY <1>5, <1>6, <2>1 DEF Unregister, IndInv, RoutedByKey
<1> QED BY <1>3, <1>4, <1>7, <1>9, <1>10 DEF IndInv

\* Returning from a call releases the mutex of c's host only.
LEMMA UnlockInv ==
  ASSUME IndInv, NEW c \in Callers, Unlock(c)
  PROVE  IndInv'
<1> USE DEF connVars, UnlockHost
<1>1. Active(c) /\ pc[c] \in Locked /\ pc[c] \notin Registered /\ host[c] \in Hosts
  BY DEF Unlock, Active, Locked, PCs, Registered, IndInv, CallInv
<1>2. TypeOK'
  <2>1. hostLock' \in [Hosts -> Callers \cup {Nobody}]
    BY DEF Unlock, IndInv, TypeOK
  <2>2. /\ pc' \in [Callers -> PCs] /\ req' \in [Callers -> 0..MaxSends]
        /\ attempt' \in [Callers -> Attempts]
    BY Constants DEF Unlock, ReturnFromCall, IndInv, TypeOK, PCs, Attempts
  <2>3. /\ host' \in [Callers -> Hosts \cup {NoHost}]
        /\ mode' \in [Callers -> {"send", "ff"}]
        /\ conn' \in [Callers -> Conns \cup {NoConn}]
        /\ ctx' \in [Callers -> {"live", "deadline", "canceled"}]
        /\ outcome' \in [Callers -> Errors \cup {"none", "ok"}]
        /\ got' \in [Callers -> Frames \cup {NoFrame}]
    BY DEF Unlock, ReturnFromCall, IndInv, TypeOK
  <2> QED BY <2>1, <2>2, <2>3 DEF Unlock, ReturnFromCall, IndInv, TypeOK
<1>3. \A d \in Callers \ {c} :
        /\ pc'[d] = pc[d] /\ req'[d] = req[d] /\ host'[d] = host[d]
        /\ attempt'[d] = attempt[d] /\ conn'[d] = conn[d] /\ mode'[d] = mode[d]
        /\ outcome'[d] = outcome[d] /\ got'[d] = got[d]
  BY DEF Unlock, ReturnFromCall, IndInv, TypeOK
<1>4. /\ pc'[c] = "idle" /\ conn'[c] = NoConn /\ outcome'[c] = "none"
      /\ got'[c] = NoFrame
  BY DEF Unlock, ReturnFromCall, IndInv, TypeOK
<1>5. UNCHANGED <<tidCounter, buf, waiters, fixedConn, openConns, nConns, rx>>
  BY DEF Unlock, ReturnFromCall
<1>6. CallInv'
  <2> SUFFICES ASSUME NEW d \in Callers PROVE CallInv!(d)'
    BY DEF CallInv
  <2>1. CASE d = c
    <3>1. nConns' \in Nat
      BY <1>2, Constants DEF TypeOK
    <3> QED BY <2>1, <3>1, <1>4 DEF Active, Locked, NoConn
  <2>2. CASE d # c
    <3>1. pc[d] \in Locked => hostLock'[host[d]] = d
      <4>1. pc[d] \in Locked => host[d] # host[c] /\ host[d] \in Hosts
        BY <2>2, <1>1, HostExclusive DEF IndInv, CallInv, Locked, Active
      <4> QED BY <4>1 DEF Unlock, IndInv, TypeOK, CallInv
    <3> QED BY <2>2, <3>1, <1>3, <1>5 DEF IndInv, CallInv, Active
  <2> QED BY <2>1, <2>2
<1>7. ~Active(c)'
  BY <1>4 DEF Active
<1>8. \A d \in Callers \ {c} : /\ Key(d)' = Key(d) /\ Active(d)' = Active(d)
                               /\ Chan(d)' = Chan(d)
  BY <1>3 DEF Key, Active, Chan
<1>9. DistinctRequests' /\ SocketInv'
  BY <1>3, <1>5, <1>7, <1>8 DEF IndInv, DistinctRequests, SocketInv
<1>10. pc'[c] \notin Registered
  BY <1>4 DEF Registered
<1>11. WaiterIntact' /\ NoOrphanWaiter'
  BY <1>1, <1>3, <1>5, <1>8, <1>10 DEF IndInv, WaiterIntact, NoOrphanWaiter
<1>12. RoutedByKey'
  BY <1>1, <1>3, <1>4, <1>5, <1>7, <1>8, <1>10 DEF IndInv, RoutedByKey
<1> QED BY <1>2, <1>6, <1>9, <1>11, <1>12 DEF IndInv

-----------------------------------------------------------------------------
(* The receiver                                                            *)

\* A step of the receiver leaves callers, tables and sockets alone.
LEMMA ReceiverFrame ==
  ASSUME IndInv, UNCHANGED <<tidCounter, callerVars, hostLock, waiters, connVars>>
  PROVE  CallInv' /\ DistinctRequests' /\ SocketInv' /\ WaiterIntact'
         /\ NoOrphanWaiter'
BY DEF IndInv, CallInv, DistinctRequests, SocketInv, WaiterIntact,
       NoOrphanWaiter, Active, Key, Chan, callerVars, connVars

\* The receiver reads a frame whose TID is its request's.
LEMMA RxReadInv ==
  ASSUME IndInv, NEW k \in Conns, RxRead(k)
  PROVE  IndInv'
<1>1. PICK f \in Arrivals(k) : rx' = [rx EXCEPT ![k] = [st |-> "read", f |-> f]]
  BY DEF RxRead
<1>2. f \in Frames /\ Genuine(f)
  <2>1. CASE \E s \in sent : f = Res(s)
    BY <2>1, FrameTypes DEF IndInv, TypeOK
  <2>2. CASE \E kind \in InfKinds, h \in Hosts, t \in Tids : f = Inf(kind, h, t)
    BY <2>2, FrameTypes, Constants
  <2> QED BY <1>1, <2>1, <2>2 DEF Arrivals
<1>3. TypeOK'
  BY <1>1, <1>2, RxTypes
     DEF RxRead, IndInv, TypeOK, callerVars, tableVars, connVars
<1>4. RoutedByKey'
  <2>1. \A j \in Conns : j # k => rx'[j] = rx[j]
    BY <1>1 DEF IndInv, TypeOK
  <2>2. rx'[k].st = "read" /\ rx'[k].f = f
    BY <1>1 DEF IndInv, TypeOK
  <2>3. \A d \in Callers : Active(d)' = Active(d) /\ Key(d)' = Key(d)
    BY DEF RxRead, Active, Key, callerVars
  <2> QED BY <1>2, <2>1, <2>2, <2>3
          DEF IndInv, RoutedByKey, RxRead, callerVars
<1> QED BY <1>3, <1>4, ReceiverFrame DEF IndInv, RxRead, tableVars

\* The receiver finds the channel of the call with the frame's key.
LEMMA RxMatchInv ==
  ASSUME IndInv, NEW k \in Conns, RxMatch(k)
  PROVE  IndInv'
<1> DEFINE f == rx[k].f
           ch == waiters[KeyOf(f)]
<1>1. f \in Frames /\ Genuine(f) /\ KeyOf(f) \in Keys
  BY FrameTypes, RxTypes DEF RxMatch, IndInv, TypeOK, RoutedByKey
<1>2. ch \in Chans /\ ch # NoChan
  BY <1>1 DEF RxMatch, IndInv, TypeOK
<1>3. TypeOK'
  BY <1>1, <1>2, RxTypes
     DEF RxMatch, IndInv, TypeOK, callerVars, tableVars, connVars
<1>4. /\ ch[1] \in 1..tidCounter
      /\ \A c \in Callers : Active(c) /\ req[c] = ch[1] => KeyOf(f) = Key(c)
  <2>1. PICK d \in Callers : /\ pc[d] \in Registered /\ Key(d) = KeyOf(f)
                             /\ Chan(d) = ch
    BY <1>1, <1>2 DEF IndInv, NoOrphanWaiter
  <2>2. Active(d) /\ req[d] = ch[1]
    BY <2>1 DEF Active, Registered, Chan
  <2> QED BY <2>1, <2>2 DEF IndInv, CallInv, DistinctRequests
<1>5. RoutedByKey'
  <2>1. \A j \in Conns : j # k => rx'[j] = rx[j]
    BY DEF RxMatch, IndInv, TypeOK
  <2>2. rx'[k].st = "found" /\ rx'[k].f = f /\ rx'[k].ch = ch
    BY DEF RxMatch, IndInv, TypeOK
  <2>3. \A d \in Callers : Active(d)' = Active(d) /\ Key(d)' = Key(d)
    BY DEF RxMatch, Active, Key, callerVars
  <2> HIDE DEF f, ch
  <2> QED BY <1>1, <1>4, <2>1, <2>2, <2>3
          DEF IndInv, RoutedByKey, RxMatch, callerVars
<1> QED BY <1>3, <1>5, ReceiverFrame DEF IndInv, RxMatch, tableVars

\* The receiver's send reaches that call's channel, or nobody's.
LEMMA RxDeliverInv ==
  ASSUME IndInv, NEW k \in Conns, RxDeliver(k)
  PROVE  IndInv'
<1>1. rx[k].f \in Frames /\ Genuine(rx[k].f)
  BY RxTypes DEF RxDeliver, IndInv, TypeOK, RoutedByKey
<1>2. TypeOK'
  BY <1>1, RxTypes DEF RxDeliver, IndInv, TypeOK, callerVars, tableVars, connVars
<1>3. \A c \in Callers : buf'[c] = buf[c] \/
        (buf'[c] = rx[k].f /\ pc[c] \in Registered /\ Chan(c) = rx[k].ch)
  BY DEF RxDeliver
<1>4. \A c \in Callers : pc[c] \in Registered /\ Chan(c) = rx[k].ch =>
        KeyOf(rx[k].f) = Key(c)
  BY DEF RxDeliver, IndInv, RoutedByKey, Active, Registered, Chan
<1>5. RoutedByKey'
  <2>1. \A j \in Conns : rx'[j] = rx[j] \/ rx'[j].st = "idle"
    BY RxTypes DEF RxDeliver, IndInv, TypeOK
  <2>2. \A d \in Callers : Active(d)' = Active(d) /\ Key(d)' = Key(d)
    BY DEF RxDeliver, Active, Key, callerVars
  <2> QED BY <1>1, <1>3, <1>4, <2>1, <2>2
          DEF IndInv, RoutedByKey, RxDeliver, callerVars
<1> QED BY <1>2, <1>5, ReceiverFrame DEF IndInv, RxDeliver, tableVars

\* A frame without a waiter goes to the notification channel or is dropped.
LEMMA RxUnsolicitedInv ==
  ASSUME IndInv, NEW k \in Conns, RxUnsolicited(k)
  PROVE  IndInv'
<1>1. rx[k].f \in Frames
  BY RxTypes DEF RxUnsolicited, IndInv, TypeOK
<1>2. TypeOK'
  BY <1>1, RxTypes DEF RxUnsolicited, IndInv, TypeOK, callerVars, connVars
<1>3. \A j \in Conns : rx'[j] = rx[j] \/ rx'[j] = RxIdle
  BY DEF RxUnsolicited, IndInv, TypeOK
<1>4. RoutedByKey'
  BY <1>3, RoutingFrame DEF RxUnsolicited, callerVars
<1> QED BY <1>2, <1>4, ReceiverFrame DEF IndInv, RxUnsolicited

\* A receiver that ends finds fixedConn already pointing elsewhere.
LEMMA RxExitInv ==
  ASSUME IndInv, NEW k \in Conns, RxExit(k)
  PROVE  IndInv'
<1>1. fixedConn' = fixedConn
  BY DEF RxExit, IsCurrent, IndInv, SocketInv, Conns, NoConn
<1>2. TypeOK'
  BY <1>1, RxTypes DEF RxExit, IndInv, TypeOK, callerVars, tableVars
<1>3. \A j \in Conns : rx'[j] = rx[j] \/ rx'[j] = RxOff
  BY DEF RxExit, IndInv, TypeOK
<1>4. RoutedByKey'
  BY <1>3, RoutingFrame DEF RxExit, callerVars
<1> QED BY <1>1, <1>2, <1>4, ReceiverFrame
        DEF IndInv, RxExit, tableVars, connVars

-----------------------------------------------------------------------------
(* Set-up, shutdown, deadlines and the notification handler                *)

\* A deadline that passes.
LEMMA DeadlineInv ==
  ASSUME IndInv, NEW c \in Callers, Deadline(c)
  PROVE  IndInv'
<1>1. TypeOK'
  BY DEF Deadline, IndInv, TypeOK, tableVars, connVars
<1>2. RoutedByKey'
  BY RoutingFrame DEF Deadline
<1>3. CallInv' /\ DistinctRequests' /\ SocketInv' /\ WaiterIntact' /\ NoOrphanWaiter'
  BY DEF Deadline, IndInv, CallInv, DistinctRequests, SocketInv, WaiterIntact,
         NoOrphanWaiter, Active, Key, Chan, tableVars, connVars
<1> QED BY <1>1, <1>2, <1>3 DEF IndInv

\* Cancelling every context.
LEMMA ShutdownInv ==
  ASSUME IndInv, Shutdown
  PROVE  IndInv'
<1>1. TypeOK'
  BY DEF Shutdown, IndInv, TypeOK, tableVars, connVars
<1>2. RoutedByKey'
  BY RoutingFrame DEF Shutdown
<1>3. CallInv' /\ DistinctRequests' /\ SocketInv' /\ WaiterIntact' /\ NoOrphanWaiter'
  BY DEF Shutdown, IndInv, CallInv, DistinctRequests, SocketInv, WaiterIntact,
         NoOrphanWaiter, Active, Key, Chan, tableVars, connVars
<1> QED BY <1>1, <1>2, <1>3 DEF IndInv

\* Closing the shared socket.
LEMMA CloseInv ==
  ASSUME IndInv, Close
  PROVE  IndInv'
<1> USE DEF callerVars, tableVars
<1>1. TypeOK'
  BY DEF Close, IndInv, TypeOK
<1>2. RoutedByKey'
  BY RoutingFrame DEF Close
<1>3. CallInv' /\ DistinctRequests' /\ WaiterIntact' /\ NoOrphanWaiter'
  BY DEF Close, IndInv, CallInv, DistinctRequests, WaiterIntact,
         NoOrphanWaiter, Active, Key, Chan
<1>4. SocketInv'
  BY DEF Close, IndInv, SocketInv
<1> QED BY <1>1, <1>2, <1>3, <1>4 DEF IndInv

\* The notification handler takes a frame.
LEMMA TakeInfInv ==
  ASSUME IndInv, TakeInf
  PROVE  IndInv'
<1>1. TypeOK'
  BY DEF TakeInf, IndInv, TypeOK, callerVars, tableVars, connVars
<1>2. RoutedByKey'
  BY RoutingFrame DEF TakeInf, callerVars
<1> QED BY <1>1, <1>2, ReceiverFrame DEF IndInv, TakeInf, tableVars

\* Opening the socket at start-up.
LEMMA JoinMulticastInv ==
  ASSUME IndInv, JoinMulticast
  PROVE  IndInv'
<1> USE DEF callerVars, tableVars
<1>1. SocketsKept /\ joined' \in SUBSET Conns
  <2>1. ASSUME NEW k \in Conns, GetOrCreateFixedConn(k), joined' \in {{}, {k}}
        PROVE  SocketsKept /\ joined' \in SUBSET Conns
    BY <2>1, GetConnFacts DEF SocketsKept
  <2>2. ASSUME FixedConnFails, UNCHANGED joined
        PROVE  SocketsKept /\ joined' \in SUBSET Conns
    BY <2>2, ConnFailFacts, SameSockets DEF IndInv, TypeOK
  <2> QED BY <2>1, <2>2 DEF JoinMulticast
<1>2. TypeOK'
  BY <1>1 DEF JoinMulticast, SocketsKept, IndInv, TypeOK
<1>3. RoutedByKey'
  BY <1>1, RoutingFrame DEF JoinMulticast, SocketsKept
<1>4. CallInv'
  <2>1. \A d \in Callers : /\ conn[d] <= nConns'
                           /\ conn[d] \notin openConns => conn[d] \notin openConns'
    <3>1. \A d \in Callers : conn[d] \in Nat
      BY Constants DEF IndInv, TypeOK, Conns, NoConn
    <3>2. nConns \in Nat /\ nConns' \in Nat
      BY <1>2, Constants DEF IndInv, TypeOK
    <3> QED BY <1>1, <3>1, <3>2 DEF SocketsKept, IndInv, CallInv
  <2> QED BY <2>1 DEF JoinMulticast, IndInv, CallInv, Active
<1>5. DistinctRequests' /\ WaiterIntact' /\ NoOrphanWaiter'
  BY DEF JoinMulticast, IndInv, DistinctRequests, WaiterIntact,
         NoOrphanWaiter, Active, Key, Chan
<1> QED BY <1>1, <1>2, <1>3, <1>4, <1>5 DEF IndInv, SocketsKept

-----------------------------------------------------------------------------
(* Theorems                                                                *)

\* The invariant holds before start-up.
LEMMA InitInv == Init => IndInv
<1> SUFFICES ASSUME Init PROVE IndInv
  OBVIOUS
<1>1. TypeOK
  BY Constants, RxTypes
     DEF Init, TypeOK, PCs, Attempts, NoConn, Nobody, NoHost
<1>2. \A c \in Callers : ~Active(c)
  BY DEF Init, Active
<1>3. CallInv
  BY <1>2, Constants DEF Init, CallInv, Active, Locked, NoConn
<1>4. RoutedByKey
  BY RxTypes DEF Init, RoutedByKey
<1>5. DistinctRequests /\ SocketInv /\ WaiterIntact /\ NoOrphanWaiter
  BY <1>2 DEF Init, DistinctRequests, SocketInv, WaiterIntact, NoOrphanWaiter,
              Registered
<1> QED BY <1>1, <1>3, <1>4, <1>5 DEF IndInv

\* Every step preserves the invariant.
LEMMA NextInv == IndInv /\ [Next]_vars => IndInv'
<1> SUFFICES ASSUME IndInv, [Next]_vars PROVE IndInv'
  OBVIOUS
<1>1. CASE JoinMulticast \/ Shutdown \/ Close \/ TakeInf
  BY <1>1, JoinMulticastInv, ShutdownInv, CloseInv, TakeInfInv
<1>2. ASSUME NEW c \in Callers, NEW h \in Hosts,
             BeginSend(c, h) \/ BeginFireAndForget(c, h)
      PROVE  IndInv'
  BY <1>2, BeginSendInv, BeginFireAndForgetInv
<1>3. ASSUME NEW c \in Callers, Lock(c) \/ Deadline(c)
      PROVE  IndInv'
  BY <1>3, LockInv, DeadlineInv
<1>4. ASSUME NEW c \in Callers, CallerStep(c)
      PROVE  IndInv'
  BY <1>4, AttemptInv, RegisterInv, WriteInv, ResetFixedConnInv, ReconnectInv,
     RewriteInv, ReceiveInv, ExpireInv, UnregisterInv, EphemeralInv,
     EphemeralReadInv, FireConnInv, FireWriteInv, UnlockInv
     DEF CallerStep
<1>5. ASSUME NEW k \in Conns, RxStep(k)
      PROVE  IndInv'
  BY <1>5, RxReadInv, RxMatchInv, RxDeliverInv, RxUnsolicitedInv, RxExitInv
     DEF RxStep
<1>6. CASE UNCHANGED vars
  BY <1>6 DEF vars, callerVars, tableVars, connVars, IndInv, TypeOK, CallInv,
              DistinctRequests, RoutedByKey, SocketInv, WaiterIntact,
              NoOrphanWaiter, Active, Key, Chan
<1> QED BY <1>1, <1>2, <1>3, <1>4, <1>5, <1>6 DEF Next

\* The inductive invariant holds in every reachable state.
THEOREM Invariance == Spec => []IndInv
BY InitInv, NextInv, PTL DEF Spec

\* Every variable keeps its type; in particular no request is attempted more
\* than maxSendAttempts times.
THEOREM TypeCorrect == Spec => []TypeOK
<1>1. IndInv => TypeOK
  BY DEF IndInv
<1> QED BY <1>1, Invariance, PTL

\* For any TID width, wrapped or not, a caller's entry of the waiters map is
\* its own from addWaiter to removeWaiter.
THEOREM WaiterIntactAlways == Spec => []WaiterIntact
<1>1. IndInv => WaiterIntact
  BY DEF IndInv
<1> QED BY <1>1, Invariance, PTL

\* The waiters map holds entries of calls in progress only.
THEOREM NoOrphanWaiterAlways == Spec => []NoOrphanWaiter
<1>1. IndInv => NoOrphanWaiter
  BY DEF IndInv
<1> QED BY <1>1, Invariance, PTL

\* The transport never has two sockets on port 3610, nor one it lost.
THEOREM SingleSocketAlways == Spec => []SingleSocket
<1>1. IndInv => SingleSocket
  BY DEF IndInv, SocketInv, SingleSocket
<1> QED BY <1>1, Invariance, PTL

\* Unless TIDs wrap, Send returns the reply to its own request.
THEOREM AnswersOwnRequestAlways == Spec => []AnswersOwnRequest
<1>1. IndInv => AnswersOwnRequest
  <2> SUFFICES ASSUME IndInv, MaxSends < TidMod, NEW c \in Callers,
                      outcome[c] = "ok", mode[c] = "send"
               PROVE  /\ got[c].host = host[c]
                      /\ got[c].kind = "Res" => got[c].req = req[c]
    BY DEF AnswersOwnRequest
  <2>1. got[c] # NoFrame
    BY DEF IndInv, CallInv
  <2>2. Active(c) /\ Genuine(got[c]) /\ KeyOf(got[c]) = Key(c)
    BY <2>1 DEF IndInv, RoutedByKey
  <2>3. got[c].host = host[c] /\ got[c].tid = TID(req[c])
    BY <2>2 DEF KeyOf, Key, WaiterKey
  <2>4. got[c].kind = "Res" =>
          got[c].req \in Nat /\ got[c].req < TidMod /\ got[c].tid = TID(got[c].req)
    BY <2>2, Constants DEF Genuine, Requests
  <2>5. req[c] \in Nat /\ req[c] < TidMod
    BY Constants DEF IndInv, TypeOK
  <2> QED BY <2>3, <2>4, <2>5, TidExact
<1> QED BY <1>1, Invariance, PTL

\* No step of a caller or of a receiver closes an open socket: only Close does.
THEOREM OnlyShutdownClosesAlways == Spec => OnlyShutdownCloses
<1>1. IndInv /\ [Next]_vars => [openConns \subseteq openConns' \/ phase' # phase]_vars
  <2> SUFFICES ASSUME IndInv, Next
               PROVE  openConns \subseteq openConns' \/ phase' # phase
    OBVIOUS
  <2>1. \A k \in Conns : GetOrCreateFixedConn(k) => openConns \subseteq openConns'
    BY DEF GetOrCreateFixedConn, connVars
  <2>2. FixedConnFails => openConns' = openConns
    BY DEF FixedConnFails, connVars
  <2>3. ASSUME NEW c \in Callers, CallerStep(c)
        PROVE  openConns \subseteq openConns'
    BY <2>1, <2>2, <2>3, ResetIsNoOp
       DEF CallerStep, Attempt, Register, Write, Reconnect, Rewrite, Receive,
           Expire, Unregister, Ephemeral, EphemeralRead, FireConn, FireWrite,
           Unlock, ReturnFromCall, connVars
  <2>4. ASSUME NEW k \in Conns, RxStep(k)
        PROVE  openConns \subseteq openConns'
    BY <2>4 DEF RxStep, RxRead, RxMatch, RxDeliver, RxUnsolicited, RxExit, connVars
  <2>5. ASSUME NEW c \in Callers, NEW h \in Hosts,
               BeginSend(c, h) \/ BeginFireAndForget(c, h)
        PROVE  openConns \subseteq openConns'
    BY <2>5 DEF BeginSend, BeginFireAndForget, connVars
  <2>6. ASSUME NEW c \in Callers, Lock(c) \/ Deadline(c)
        PROVE  openConns \subseteq openConns'
    BY <2>6 DEF Lock, Deadline, connVars
  <2>7. CASE JoinMulticast \/ Shutdown \/ Close \/ TakeInf
    BY <2>7 DEF JoinMulticast, Shutdown, Close, TakeInf, connVars
  <2> QED BY <2>3, <2>4, <2>5, <2>6, <2>7 DEF Next
<1> QED BY <1>1, Invariance, PTL DEF Spec, OnlyShutdownCloses
-----------------------------------------------------------------------------
(* The memory of expired waiters                                           *)

\* What the bound needs to be inductive: the cardinality of a set the provers
\* do not know to be finite says nothing.
ExpiredInv == IsFiniteSet(expired) /\ ExpiredBounded

\* Whatever the clock makes stale, recordExpiredWaiter leaves room for the key
\* it adds.
LEMMA RecordKeepsBound ==
  ASSUME ExpiredInv, NEW key, RecordExpiredWaiter(key)
  PROVE  ExpiredInv'
<1>1. ASSUME NEW S \in SUBSET expired, Cardinality(S) < MaxExpired,
             expired' = S \cup {key}
      PROVE  ExpiredInv'
  <2>1. IsFiniteSet(S) /\ Cardinality(S) \in Nat
    BY FS_Subset, FS_CardinalityType DEF ExpiredInv
  <2>2. /\ IsFiniteSet(S \cup {key})
        /\ \/ Cardinality(S \cup {key}) = Cardinality(S)
           \/ Cardinality(S \cup {key}) = Cardinality(S) + 1
    BY <2>1, FS_AddElement
  <2> QED BY <1>1, <2>1, <2>2, MaxExpiredAssumption
          DEF ExpiredInv, ExpiredBounded
<1>2. \A S \in SUBSET expired : Cardinality(S) \in Nat
  BY FS_Subset, FS_CardinalityType DEF ExpiredInv
<1>3. CASE Cardinality(expired) >= MaxExpired
  <2>1. PICK stale \in SUBSET expired :
               expired' = (IF Cardinality(expired \ stale) >= MaxExpired
                           THEN {} ELSE expired \ stale) \cup {key}
    BY <1>3 DEF RecordExpiredWaiter
  <2>2. CASE Cardinality(expired \ stale) >= MaxExpired
    <3>1. Cardinality({}) < MaxExpired
      BY FS_EmptySet, MaxExpiredAssumption
    <3> QED BY <1>1, <2>1, <2>2, <3>1
  <2>3. CASE ~(Cardinality(expired \ stale) >= MaxExpired)
    <3>1. Cardinality(expired \ stale) < MaxExpired
      BY <1>2, <2>3, MaxExpiredAssumption
    <3> QED BY <1>1, <2>1, <2>3, <3>1
  <2> QED BY <2>2, <2>3
<1>4. CASE ~(Cardinality(expired) >= MaxExpired)
  <2>1. Cardinality(expired) < MaxExpired
    BY <1>2, <1>4, MaxExpiredAssumption
  <2>2. expired' = expired \cup {key}
    BY <1>4 DEF RecordExpiredWaiter
  <2> QED BY <1>1, <2>1, <2>2
<1> QED BY <1>3, <1>4

\* A late reply takes its key out of the map.
LEMMA ForgetKeepsBound ==
  ASSUME ExpiredInv, NEW key, expired' = expired \ {key}
  PROVE  ExpiredInv'
<1>1. /\ IsFiniteSet(expired \ {key})
      /\ Cardinality(expired \ {key}) <= Cardinality(expired)
  BY FS_Subset DEF ExpiredInv
<1>2. Cardinality(expired \ {key}) \in Nat /\ Cardinality(expired) \in Nat
  BY <1>1, FS_CardinalityType DEF ExpiredInv
<1> QED BY <1>1, <1>2, MaxExpiredAssumption DEF ExpiredInv, ExpiredBounded

\* The map of expired waiters never outgrows expiredWaiterLimit, however many
\* requests time out and however few of them are ever answered.
THEOREM ExpiredBoundedAlways == Spec => []ExpiredBounded
<1>1. Init => ExpiredInv
  BY FS_EmptySet, MaxExpiredAssumption DEF Init, ExpiredInv, ExpiredBounded
<1>2. ExpiredInv /\ [Next]_vars => ExpiredInv'
  <2> SUFFICES ASSUME ExpiredInv, [Next]_vars PROVE ExpiredInv'
    OBVIOUS
  <2>1. CASE expired' = expired
    BY <2>1 DEF ExpiredInv, ExpiredBounded
  <2>2. ASSUME NEW c \in Callers, CallerStep(c)
        PROVE  ExpiredInv'
    <3>1. CASE Expire(c)
      BY <3>1, RecordKeepsBound DEF Expire
    <3>2. CASE ~Expire(c)
      BY <2>1, <2>2, <3>2
         DEF CallerStep, Attempt, Register, Write, ResetFixedConn, Reconnect,
             Rewrite, Receive, Unregister, Ephemeral, EphemeralRead, FireConn,
             FireWrite, Unlock, ReturnFromCall, tableVars
    <3> QED BY <3>1, <3>2
  <2>3. ASSUME NEW k \in Conns, RxStep(k)
        PROVE  ExpiredInv'
    <3>1. CASE RxUnsolicited(k)
      BY <3>1, ForgetKeepsBound DEF RxUnsolicited
    <3>2. CASE ~RxUnsolicited(k)
      BY <2>1, <2>3, <3>2 DEF RxStep, RxRead, RxMatch, RxDeliver, RxExit, tableVars
    <3> QED BY <3>1, <3>2
  <2>4. ASSUME NEW c \in Callers, NEW h \in Hosts,
               BeginSend(c, h) \/ BeginFireAndForget(c, h)
        PROVE  ExpiredInv'
    BY <2>1, <2>4 DEF BeginSend, BeginFireAndForget, tableVars
  <2>5. ASSUME NEW c \in Callers, Lock(c) \/ Deadline(c)
        PROVE  ExpiredInv'
    BY <2>1, <2>5 DEF Lock, Deadline, tableVars
  <2>6. CASE JoinMulticast \/ Shutdown \/ Close \/ TakeInf \/ UNCHANGED vars
    BY <2>1, <2>6 DEF JoinMulticast, Shutdown, Close, TakeInf, tableVars, vars
  <2> QED BY <2>2, <2>3, <2>4, <2>5, <2>6 DEF Next
<1>3. ExpiredInv => ExpiredBounded
  BY DEF ExpiredInv
<1> QED BY <1>1, <1>2, <1>3, PTL DEF Spec
==============================================================================
