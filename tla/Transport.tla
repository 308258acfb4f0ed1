------------------------------ MODULE Transport ------------------------------
(***************************************************************************)
(* The shared UDP transport of internal/echonet/transport.go: every caller *)
(* (scraper, reconciler, refresher, command handler) of every device goes  *)
(* through one socket bound to port 3610, one receiver goroutine, one map  *)
(* of response waiters keyed by "ip|tid" and one mutex per host.           *)
(*                                                                         *)
(* A caller is a goroutine inside Send or SendFireAndForget; its program   *)
(* counter names the statement it is about to execute.  The network is     *)
(* adversarial the way UDP is: a reply to any request ever written may     *)
(* arrive late, twice, out of order or never, and a device may emit an     *)
(* INF/INFC notification with any transaction id at any moment.  Time is   *)
(* abstracted: a timer or a context deadline may fire whenever it runs.    *)
(***************************************************************************)
EXTENDS Integers, Sequences, FiniteSets

CONSTANTS
  Callers,       \* goroutines that issue requests
  Hosts,         \* devices' IP addresses (normalizeHost and waiterKey agree)
  TidMod,        \* 2^16 in the code: TIDs are uint16(counter)
  MaxSends,      \* bound: requests issued in a behaviour
  MaxAttempts,   \* maxSendAttempts
  InfKinds,      \* kinds of notification that devices emit
  InfCap,        \* capacity of the notification channel
  MaxExpired,    \* maxExpiredWaiters
  MaxConns,      \* bound: sockets opened on port 3610 in a behaviour
  StrictSource   \* strictSourcePort3610

ASSUME CallersAssumption  == "nobody" \notin Callers
ASSUME MaxAttemptsAssumption == MaxAttempts \in Nat \ {0}
ASSUME InfKindsAssumption == InfKinds \subseteq {"INF", "INFC"}
ASSUME InfCapAssumption   == InfCap \in Nat
ASSUME MaxExpiredAssumption == MaxExpired \in Nat \ {0}
ASSUME MaxConnsAssumption == MaxConns \in Nat \ {0}
ASSUME StrictAssumption   == StrictSource \in BOOLEAN
ASSUME TidAssumption      == TidMod \in Nat \ {0} /\ MaxSends \in Nat

VARIABLES
  phase,       \* "setup", "run", "stopping" (ctx cancelled), "closed"
  tidCounter,  \* Transport.tidCounter
  pc,          \* per caller: next statement
  mode,        \* per caller: "send" or "ff" (SendFireAndForget)
  host,        \* per caller: destination
  req,         \* per caller: counter value its TID was taken from
  attempt,     \* per caller: sendWithRetry's loop variable
  conn,        \* per caller: socket it holds
  ctx,         \* per caller: "live", "deadline" or "canceled"
  outcome,     \* per caller: error (or "ok") on its way to the return
  got,         \* per caller: the frame it returns
  buf,         \* per caller: content of its response channel (capacity 1)
  hostLock,    \* Transport.hostLocks
  waiters,     \* Transport.waiters: key -> channel
  expired,     \* Transport.expiredWaiters (keys)
  fixedConn,   \* Transport.fixedConn
  openConns,   \* sockets the kernel holds open
  nConns,      \* sockets opened so far
  rx,          \* per socket: its receiver goroutine
  sent,        \* requests written to the network so far
  infChan,     \* Transport.infChan
  joined       \* sockets that joined the multicast group

callerVars == <<pc, mode, host, req, attempt, conn, ctx, outcome, got>>
tableVars  == <<hostLock, waiters, expired>>
connVars   == <<fixedConn, openConns, nConns>>
vars == <<phase, tidCounter, callerVars, buf, tableVars, connVars, rx, sent,
          infChan, joined>>

-----------------------------------------------------------------------------
(* Data                                                                    *)

Conns    == 1..MaxConns
NoConn   == 0
Requests == 1..MaxSends
Tids     == 0..(TidMod - 1)
Attempts == 0..MaxAttempts
Nobody   == "nobody"
NoHost   == "nohost"

\* NextTID: the counter truncated to the width of a TID.
TID(n) == n % TidMod

Keys   == Hosts \X Tids
\* A response channel is created per attempt of a request.
Chans  == Requests \X Attempts
NoChan == <<0, 0>>

Res(s)    == [kind |-> "Res", host |-> s.host, tid |-> TID(s.req), req |-> s.req]
Inf(k, h, t) == [kind |-> k, host |-> h, tid |-> t, req |-> 0]
Frames    == [kind : {"Res", "INF", "INFC"}, host : Hosts, tid : Tids,
              req : 0..MaxSends]
NoFrame   == [kind |-> "none"]
Sends     == [host : Hosts, req : Requests, port : {"fixed", "eph"}]

\* waiterKey, from the caller's side and from a frame's side.
KeyByHostOnly(h, t) == <<h, 0>>
WaiterKey(h, t) == <<h, t>>
Key(c)    == WaiterKey(host[c], TID(req[c]))
KeyOf(f)  == WaiterKey(f.host, f.tid)
Chan(c)   == <<req[c], attempt[c]>>

Errors == {"timeout", "deadline", "canceled", "bind", "other"}
\* isTimeoutError: an expired context deadline is a net.Error timeout as well.
IsTimeout(o) == o \in {"timeout", "deadline"}

\* Where Send goes once sendWithRetry has returned o.
AfterRetry(o) == IF o = "bind" /\ ~StrictSource THEN "ephemeral" ELSE "unlock"
OneAttemptTooMany(o, n) ==
  IF IsTimeout(o) /\ n <= MaxAttempts THEN "attempt" ELSE AfterRetry(o)
\* Where sendWithRetry goes once attempt n has returned o.
AfterAttempt(o, n) ==
  IF IsTimeout(o) /\ n < MaxAttempts THEN "attempt" ELSE AfterRetry(o)

PCs == {"idle", "lock", "attempt", "register", "write", "reset", "reconnect",
        "rewrite", "wait", "unregister", "ephemeral", "ephwait", "ffconn",
        "ffwrite", "unlock"}
\* Statements between addWaiter and the deferred removeWaiter.
Registered == {"write", "reset", "reconnect", "rewrite", "wait", "unregister"}
\* Statements that run while the host's mutex is held.
Locked == PCs \ {"idle", "lock"}

RxOff    == [st |-> "off"]
RxIdle   == [st |-> "idle"]
RxStates == [st : {"off", "idle"}] \cup [st : {"read"}, f : Frames]
            \cup [st : {"found"}, f : Frames, ch : Chans]

Init ==
  /\ phase = "setup"
  /\ tidCounter = 0
  /\ pc = [c \in Callers |-> "idle"]
  /\ mode = [c \in Callers |-> "send"]
  /\ host = [c \in Callers |-> NoHost]
  /\ req = [c \in Callers |-> 0]
  /\ attempt = [c \in Callers |-> 0]
  /\ conn = [c \in Callers |-> NoConn]
  /\ ctx = [c \in Callers |-> "live"]
  /\ outcome = [c \in Callers |-> "none"]
  /\ got = [c \in Callers |-> NoFrame]
  /\ buf = [c \in Callers |-> NoFrame]
  /\ hostLock = [h \in Hosts |-> Nobody]
  /\ waiters = [k \in Keys |-> NoChan]
  /\ expired = {}
  /\ fixedConn = NoConn
  /\ openConns = {}
  /\ nConns = 0
  /\ rx = [k \in Conns |-> RxOff]
  /\ sent = {}
  /\ infChan = <<>>
  /\ joined = {}

-----------------------------------------------------------------------------
(* The shared socket                                                       *)

AnyIsCurrent(k) == TRUE
\* t.fixedConn == k, the test that guards every write of nil to fixedConn.
IsCurrent(k) == fixedConn = k

\* getOrCreateFixedConn returning socket k: the current one, or a new one
\* with a receiver goroutine of its own.
GetOrCreateFixedConn(k) ==
  \/ /\ fixedConn # NoConn
     /\ k = fixedConn
     /\ UNCHANGED <<connVars, rx>>
  \/ /\ fixedConn = NoConn
     /\ k = nConns + 1
     /\ k \in Conns
     /\ fixedConn' = k
     /\ openConns' = openConns \cup {k}
     /\ nConns' = k
     /\ rx' = [rx EXCEPT ![k] = RxIdle]

\* getOrCreateFixedConn failing in openUDPConn, with a bind error or another.
FixedConnFails == fixedConn = NoConn /\ UNCHANGED <<connVars, rx>>

\* setupEchonetTransport: JoinMulticast opens the socket before any other
\* goroutine exists; the socket, or the membership, may fail.
JoinMulticast ==
  /\ phase = "setup"
  /\ phase' = "run"
  /\ \/ \E k \in Conns :
          /\ GetOrCreateFixedConn(k)
          /\ joined' \in {{}, {k}}
     \/ FixedConnFails /\ UNCHANGED joined
  /\ UNCHANGED <<tidCounter, callerVars, buf, tableVars, sent, infChan>>

\* handleShutdown: cancel() ends every context derived from main's.
Shutdown ==
  /\ phase = "run"
  /\ phase' = "stopping"
  /\ ctx' = [c \in Callers |-> IF pc[c] # "idle" /\ ctx[c] = "live"
                               THEN "canceled" ELSE ctx[c]]
  /\ UNCHANGED <<tidCounter, pc, mode, host, req, attempt, conn, outcome, got,
                 buf, tableVars, connVars, rx, sent, infChan, joined>>

\* Close: main's deferred call, after handleShutdown has returned.
Close ==
  /\ phase = "stopping"
  /\ phase' = "closed"
  /\ openConns' = openConns \ {fixedConn}
  /\ fixedConn' = NoConn
  /\ UNCHANGED <<tidCounter, callerVars, buf, tableVars, nConns, rx, sent,
                 infChan, joined>>

-----------------------------------------------------------------------------
(* Callers: Send                                                           *)

\* A fresh context, or one that an earlier call of the same operation used up.
FreshCtx == IF phase = "run" THEN {"live", "deadline"} ELSE {"canceled"}

\* SendGet / SendSet: NextTID, then Send up to hostLock.Lock().
BeginSend(c, h) ==
  /\ phase # "setup"
  /\ pc[c] = "idle"
  /\ tidCounter < MaxSends
  /\ tidCounter' = tidCounter + 1
  /\ req' = [req EXCEPT ![c] = tidCounter + 1]
  /\ host' = [host EXCEPT ![c] = h]
  /\ mode' = [mode EXCEPT ![c] = "send"]
  /\ \E x \in FreshCtx : ctx' = [ctx EXCEPT ![c] = x]
  /\ pc' = [pc EXCEPT ![c] = "lock"]
  /\ UNCHANGED <<phase, attempt, conn, outcome, got, buf, tableVars, connVars,
                 rx, sent, infChan, joined>>

\* SendSetI: NextTID, then SendFireAndForget, which returns at once when the
\* context has already ended.
BeginFireAndForget(c, h) ==
  /\ phase # "setup"
  /\ pc[c] = "idle"
  /\ tidCounter < MaxSends
  /\ tidCounter' = tidCounter + 1
  /\ \/ /\ "live" \in FreshCtx
        /\ req' = [req EXCEPT ![c] = tidCounter + 1]
        /\ host' = [host EXCEPT ![c] = h]
        /\ mode' = [mode EXCEPT ![c] = "ff"]
        /\ ctx' = [ctx EXCEPT ![c] = "live"]
        /\ pc' = [pc EXCEPT ![c] = "lock"]
     \/ UNCHANGED <<req, host, mode, ctx, pc>>
  /\ UNCHANGED <<phase, attempt, conn, outcome, got, buf, tableVars, connVars,
                 rx, sent, infChan, joined>>

AnyHostFree(h) == TRUE
\* lockForHost: one mutex per host, not one per device or per call.
HostFree(h) == hostLock[h] = Nobody

\* hostLock.Lock(): a plain mutex, which does not look at the context.
Lock(c) ==
  /\ pc[c] = "lock"
  /\ HostFree(host[c])
  /\ hostLock' = [hostLock EXCEPT ![host[c]] = c]
  /\ attempt' = [attempt EXCEPT ![c] = 1]
  /\ pc' = [pc EXCEPT ![c] = IF mode[c] = "send" THEN "attempt" ELSE "ffconn"]
  /\ UNCHANGED <<phase, tidCounter, mode, host, req, conn, ctx, outcome, got,
                 buf, waiters, expired, connVars, rx, sent, infChan, joined>>

\* The deadline of a caller's context passes.
Deadline(c) ==
  /\ pc[c] # "idle"
  /\ ctx[c] = "live"
  /\ ctx' = [ctx EXCEPT ![c] = "deadline"]
  /\ UNCHANGED <<phase, tidCounter, pc, mode, host, req, attempt, conn, outcome,
                 got, buf, tableVars, connVars, rx, sent, infChan, joined>>

\* An attempt returns error o before it registered a waiter.
FailAttempt(c, o) ==
  /\ outcome' = [outcome EXCEPT ![c] = o]
  /\ pc' = [pc EXCEPT ![c] = AfterRetry(o)]
  /\ UNCHANGED <<attempt, conn>>

\* Top of sendWithRetry's loop: the context check, then sendFromPort up to
\* the socket sendViaSharedFixedPort works with.
Attempt(c) ==
  /\ pc[c] = "attempt"
  /\ \/ /\ ctx[c] # "live"
        /\ FailAttempt(c, ctx[c])
        /\ UNCHANGED <<connVars, rx>>
     \/ /\ ctx[c] = "live"
        /\ \E o \in {"bind", "other"} : FailAttempt(c, o)
        /\ FixedConnFails
     \/ /\ ctx[c] = "live"
        /\ \E k \in Conns :
             /\ GetOrCreateFixedConn(k)
             /\ conn' = [conn EXCEPT ![c] = k]
        /\ pc' = [pc EXCEPT ![c] = "register"]
        /\ UNCHANGED <<attempt, outcome>>
  /\ UNCHANGED <<phase, tidCounter, mode, host, req, ctx, got, buf, tableVars,
                 sent, infChan, joined>>

\* addWaiter with a fresh channel of capacity 1.
Register(c) ==
  /\ pc[c] = "register"
  /\ waiters' = [waiters EXCEPT ![Key(c)] = Chan(c)]
  /\ buf' = [buf EXCEPT ![c] = NoFrame]
  /\ pc' = [pc EXCEPT ![c] = "write"]
  /\ UNCHANGED <<phase, tidCounter, mode, host, req, attempt, conn, ctx,
                 outcome, got, hostLock, expired, connVars, rx, sent, infChan,
                 joined>>

\* WriteToUDP on the socket the caller holds.  An open socket may still
\* refuse (network unreachable); a closed one returns net.ErrClosed.
Written(c, port) == sent' = sent \cup {[host |-> host[c], req |-> req[c],
                                        port |-> port]}

Write(c) ==
  /\ pc[c] = "write"
  /\ \/ /\ conn[c] \in openConns
        /\ Written(c, "fixed")
        /\ pc' = [pc EXCEPT ![c] = "wait"]
        /\ UNCHANGED outcome
     \/ /\ conn[c] \in openConns
        /\ outcome' = [outcome EXCEPT ![c] = "other"]
        /\ pc' = [pc EXCEPT ![c] = "unregister"]
        /\ UNCHANGED sent
     \/ /\ conn[c] \notin openConns
        /\ pc' = [pc EXCEPT ![c] = "reset"]
        /\ UNCHANGED <<outcome, sent>>
  /\ UNCHANGED <<phase, tidCounter, mode, host, req, attempt, conn, ctx, got,
                 buf, tableVars, connVars, rx, infChan, joined>>

\* resetFixedConn(conn)
ResetFixedConn(c) ==
  /\ pc[c] = "reset"
  /\ IF IsCurrent(conn[c])
     THEN /\ openConns' = openConns \ {fixedConn}
          /\ fixedConn' = NoConn
     ELSE UNCHANGED <<openConns, fixedConn>>
  /\ pc' = [pc EXCEPT ![c] = "reconnect"]
  /\ UNCHANGED <<phase, tidCounter, mode, host, req, attempt, conn, ctx,
                 outcome, got, buf, tableVars, nConns, rx, sent, infChan,
                 joined>>

Reconnect(c) ==
  /\ pc[c] = "reconnect"
  /\ \/ /\ \E k \in Conns :
             /\ GetOrCreateFixedConn(k)
             /\ conn' = [conn EXCEPT ![c] = k]
        /\ pc' = [pc EXCEPT ![c] = "rewrite"]
        /\ UNCHANGED outcome
     \/ /\ FixedConnFails
        /\ \E o \in {"bind", "other"} : outcome' = [outcome EXCEPT ![c] = o]
        /\ pc' = [pc EXCEPT ![c] = "unregister"]
        /\ UNCHANGED conn
  /\ UNCHANGED <<phase, tidCounter, mode, host, req, attempt, ctx, got, buf,
                 tableVars, sent, infChan, joined>>

\* The second write: any error ends the attempt.
Rewrite(c) ==
  /\ pc[c] = "rewrite"
  /\ \/ /\ conn[c] \in openConns
        /\ Written(c, "fixed")
        /\ pc' = [pc EXCEPT ![c] = "wait"]
        /\ UNCHANGED outcome
     \/ /\ outcome' = [outcome EXCEPT ![c] = "other"]
        /\ pc' = [pc EXCEPT ![c] = "unregister"]
        /\ UNCHANGED sent
  /\ UNCHANGED <<phase, tidCounter, mode, host, req, attempt, conn, ctx, got,
                 buf, tableVars, connVars, rx, infChan, joined>>

\* select: the response channel.
Receive(c) ==
  /\ pc[c] = "wait"
  /\ buf[c] # NoFrame
  /\ got' = [got EXCEPT ![c] = buf[c]]
  /\ outcome' = [outcome EXCEPT ![c] = "ok"]
  /\ pc' = [pc EXCEPT ![c] = "unregister"]
  /\ UNCHANGED <<phase, tidCounter, mode, host, req, attempt, conn, ctx, buf,
                 tableVars, connVars, rx, sent, infChan, joined>>

RecordWithoutReset(key) ==
  \E stale \in SUBSET expired : expired' = (expired \ stale) \cup {key}

\* recordExpiredWaiter: at the limit, entries older than the TTL go first
\* (which ones is a matter of time); if none did, the map starts afresh.
RecordExpiredWaiter(key) ==
  IF Cardinality(expired) >= MaxExpired
  THEN \E stale \in SUBSET expired :
         expired' = (IF Cardinality(expired \ stale) >= MaxExpired
                     THEN {} ELSE expired \ stale) \cup {key}
  ELSE expired' = expired \cup {key}

\* select: the timer, or ctx.Done().  Both record the waiter as expired.
Expire(c) ==
  /\ pc[c] = "wait"
  /\ \/ outcome' = [outcome EXCEPT ![c] = "timeout"]
     \/ ctx[c] # "live" /\ outcome' = [outcome EXCEPT ![c] = ctx[c]]
  /\ RecordExpiredWaiter(Key(c))
  /\ pc' = [pc EXCEPT ![c] = "unregister"]
  /\ UNCHANGED <<phase, tidCounter, mode, host, req, attempt, conn, ctx, got,
                 buf, hostLock, waiters, connVars, rx, sent, infChan, joined>>

RemoveOnSuccess(c) ==
  waiters' = [waiters EXCEPT ![Key(c)] = IF outcome[c] = "ok" THEN NoChan ELSE @]
RemoveWaiter(c) == waiters' = [waiters EXCEPT ![Key(c)] = NoChan]

\* The deferred removeWaiter, then sendWithRetry's decision.
Unregister(c) ==
  /\ pc[c] = "unregister"
  /\ RemoveWaiter(c)
  /\ buf' = [buf EXCEPT ![c] = NoFrame]
  /\ pc' = [pc EXCEPT ![c] = AfterAttempt(outcome[c], attempt[c])]
  /\ attempt' = [attempt EXCEPT ![c] =
                   IF AfterAttempt(outcome[c], @) = "attempt" THEN @ + 1 ELSE @]
  /\ UNCHANGED <<phase, tidCounter, mode, host, req, conn, ctx, outcome, got,
                 hostLock, expired, connVars, rx, sent, infChan, joined>>

\* sendFromPort(..., 0, ...): open an ephemeral socket and write once.
Ephemeral(c) ==
  /\ pc[c] = "ephemeral"
  /\ \/ /\ Written(c, "eph")
        /\ pc' = [pc EXCEPT ![c] = "ephwait"]
        /\ UNCHANGED outcome
     \/ /\ outcome' = [outcome EXCEPT ![c] = "other"]
        /\ pc' = [pc EXCEPT ![c] = "unlock"]
        /\ UNCHANGED sent
  /\ UNCHANGED <<phase, tidCounter, mode, host, req, attempt, conn, ctx, got,
                 buf, tableVars, connVars, rx, infChan, joined>>

\* writeAndRead's loop: frames with another TID or source are skipped; the
\* socket's deadline, or an ended context seen between reads, is an error.
EphemeralRead(c) ==
  /\ pc[c] = "ephwait"
  /\ \/ /\ \E s \in sent :
             /\ s.port = "eph"
             /\ KeyOf(Res(s)) = Key(c)
             /\ got' = [got EXCEPT ![c] = Res(s)]
        /\ outcome' = [outcome EXCEPT ![c] = "ok"]
     \/ /\ outcome' = [outcome EXCEPT ![c] = "timeout"]
        /\ UNCHANGED got
     \/ /\ ctx[c] # "live"
        /\ outcome' = [outcome EXCEPT ![c] = ctx[c]]
        /\ UNCHANGED got
  /\ pc' = [pc EXCEPT ![c] = "unlock"]
  /\ UNCHANGED <<phase, tidCounter, mode, host, req, attempt, conn, ctx, buf,
                 tableVars, connVars, rx, sent, infChan, joined>>

UnlockOnSuccess(c) ==
  hostLock' = [hostLock EXCEPT ![host[c]] = IF outcome[c] = "ok" THEN Nobody ELSE @]
UnlockHost(c) == hostLock' = [hostLock EXCEPT ![host[c]] = Nobody]

\* The goroutine's locals die with the call.
ReturnFromCall(c) ==
  /\ pc' = [pc EXCEPT ![c] = "idle"]
  /\ mode' = [mode EXCEPT ![c] = "send"]
  /\ host' = [host EXCEPT ![c] = NoHost]
  /\ req' = [req EXCEPT ![c] = 0]
  /\ attempt' = [attempt EXCEPT ![c] = 0]
  /\ conn' = [conn EXCEPT ![c] = NoConn]
  /\ ctx' = [ctx EXCEPT ![c] = "live"]
  /\ outcome' = [outcome EXCEPT ![c] = "none"]
  /\ got' = [got EXCEPT ![c] = NoFrame]
  /\ UNCHANGED <<phase, tidCounter, buf, waiters, expired, connVars, rx, sent,
                 infChan, joined>>

\* Return from Send or SendFireAndForget: the deferred unlock.
Unlock(c) ==
  /\ pc[c] = "unlock"
  /\ UnlockHost(c)
  /\ ReturnFromCall(c)

-----------------------------------------------------------------------------
(* Callers: SendFireAndForget, after the lock                              *)

FireConn(c) ==
  /\ pc[c] = "ffconn"
  /\ \/ /\ \E k \in Conns :
             /\ GetOrCreateFixedConn(k)
             /\ conn' = [conn EXCEPT ![c] = k]
        /\ pc' = [pc EXCEPT ![c] = "ffwrite"]
        /\ UNCHANGED outcome
     \/ /\ FixedConnFails
        /\ \E o \in {"bind", "other"} : outcome' = [outcome EXCEPT ![c] = o]
        /\ pc' = [pc EXCEPT ![c] = "unlock"]
        /\ UNCHANGED conn
  /\ UNCHANGED <<phase, tidCounter, mode, host, req, attempt, ctx, got, buf,
                 tableVars, sent, infChan, joined>>

\* A SetI has no reply, so the write leaves nothing to receive.
FireWrite(c) ==
  /\ pc[c] = "ffwrite"
  /\ \/ conn[c] \in openConns /\ outcome' = [outcome EXCEPT ![c] = "ok"]
     \/ outcome' = [outcome EXCEPT ![c] = "other"]
  /\ pc' = [pc EXCEPT ![c] = "unlock"]
  /\ UNCHANGED <<phase, tidCounter, mode, host, req, attempt, conn, ctx, got,
                 buf, tableVars, connVars, rx, sent, infChan, joined>>

-----------------------------------------------------------------------------
(* The receiver goroutine of socket k                                      *)

\* What may reach port 3610: the reply to any request written from it, and,
\* on a socket in the multicast group, any notification.
Arrivals(k) ==
  {Res(s) : s \in {x \in sent : x.port = "fixed"}}
  \cup (IF k \in joined
        THEN {Inf(kind, h, t) : kind \in InfKinds, h \in Hosts, t \in Tids}
        ELSE {})

\* ReadFromUDP returns a frame.
RxRead(k) ==
  /\ rx[k] = RxIdle
  /\ k \in openConns
  /\ \E f \in Arrivals(k) : rx' = [rx EXCEPT ![k] = [st |-> "read", f |-> f]]
  /\ UNCHANGED <<phase, tidCounter, callerVars, buf, tableVars, connVars, sent,
                 infChan, joined>>

\* The frame's key has a waiter: the receiver now holds its channel.
RxMatch(k) ==
  /\ rx[k].st = "read"
  /\ waiters[KeyOf(rx[k].f)] # NoChan
  /\ rx' = [rx EXCEPT ![k] = [st |-> "found", f |-> rx[k].f,
                              ch |-> waiters[KeyOf(rx[k].f)]]]
  /\ UNCHANGED <<phase, tidCounter, callerVars, buf, tableVars, connVars, sent,
                 infChan, joined>>

\* Non-blocking send on that channel: dropped when the channel is full, and
\* unread when its caller has meanwhile given up.
RxDeliver(k) ==
  /\ rx[k].st = "found"
  /\ buf' = [c \in Callers |->
               IF /\ pc[c] \in Registered
                  /\ Chan(c) = rx[k].ch
                  /\ buf[c] = NoFrame
               THEN rx[k].f ELSE buf[c]]
  /\ rx' = [rx EXCEPT ![k] = RxIdle]
  /\ UNCHANGED <<phase, tidCounter, callerVars, tableVars, connVars, sent,
                 infChan, joined>>

\* No waiter: forget the expired one, if any, and offer the frame to the
\* notification channel, dropping it when the channel is full.
RxUnsolicited(k) ==
  /\ rx[k].st = "read"
  /\ waiters[KeyOf(rx[k].f)] = NoChan
  /\ expired' = expired \ {KeyOf(rx[k].f)}
  /\ infChan' = IF Len(infChan) < InfCap THEN Append(infChan, rx[k].f)
                                         ELSE infChan
  /\ rx' = [rx EXCEPT ![k] = RxIdle]
  /\ UNCHANGED <<phase, tidCounter, callerVars, buf, hostLock, waiters,
                 connVars, sent, joined>>

\* ReadFromUDP fails with net.ErrClosed: the goroutine ends.
RxExit(k) ==
  /\ rx[k] = RxIdle
  /\ k \notin openConns
  /\ fixedConn' = IF IsCurrent(k) THEN NoConn ELSE fixedConn
  /\ rx' = [rx EXCEPT ![k] = RxOff]
  /\ UNCHANGED <<phase, tidCounter, callerVars, buf, tableVars, openConns,
                 nConns, sent, infChan, joined>>

\* The notification handler takes a frame (see module CacheSync).
TakeInf ==
  /\ infChan # <<>>
  /\ infChan' = Tail(infChan)
  /\ UNCHANGED <<phase, tidCounter, callerVars, buf, tableVars, connVars, rx,
                 sent, joined>>

-----------------------------------------------------------------------------
(* Specification                                                           *)

\* The statements of a caller that has acquired, or needs, no lock.
CallerStep(c) ==
  \/ Attempt(c) \/ Register(c) \/ Write(c) \/ ResetFixedConn(c)
  \/ Reconnect(c) \/ Rewrite(c) \/ Receive(c) \/ Expire(c) \/ Unregister(c)
  \/ Ephemeral(c) \/ EphemeralRead(c) \/ FireConn(c) \/ FireWrite(c)
  \/ Unlock(c)

RxStep(k) ==
  RxRead(k) \/ RxMatch(k) \/ RxDeliver(k) \/ RxUnsolicited(k) \/ RxExit(k)

Next ==
  \/ JoinMulticast \/ Shutdown \/ Close \/ TakeInf
  \/ \E c \in Callers :
       \/ \E h \in Hosts : BeginSend(c, h) \/ BeginFireAndForget(c, h)
       \/ Lock(c) \/ Deadline(c) \/ CallerStep(c)
  \/ \E k \in Conns : RxStep(k)

Spec == Init /\ [][Next]_vars

\* A goroutine that can run does run, timers fire, and sync.Mutex hands the
\* lock to a waiter that has starved for a millisecond: strong fairness.
Fairness == \A c \in Callers : WF_vars(CallerStep(c)) /\ SF_vars(Lock(c))

FairSpec == Spec /\ Fairness

-----------------------------------------------------------------------------
(* Properties                                                              *)

TypeOK ==
  /\ phase \in {"setup", "run", "stopping", "closed"}
  /\ tidCounter \in 0..MaxSends
  /\ pc \in [Callers -> PCs]
  /\ mode \in [Callers -> {"send", "ff"}]
  /\ host \in [Callers -> Hosts \cup {NoHost}]
  /\ req \in [Callers -> 0..MaxSends]
  /\ attempt \in [Callers -> Attempts]
  /\ conn \in [Callers -> Conns \cup {NoConn}]
  /\ ctx \in [Callers -> {"live", "deadline", "canceled"}]
  /\ outcome \in [Callers -> Errors \cup {"none", "ok"}]
  /\ got \in [Callers -> Frames \cup {NoFrame}]
  /\ buf \in [Callers -> Frames \cup {NoFrame}]
  /\ hostLock \in [Hosts -> Callers \cup {Nobody}]
  /\ waiters \in [Keys -> Chans \cup {NoChan}]
  /\ expired \in SUBSET Keys
  /\ fixedConn \in Conns \cup {NoConn}
  /\ openConns \in SUBSET Conns
  /\ nConns \in 0..MaxConns
  /\ rx \in [Conns -> RxStates]
  /\ sent \in SUBSET Sends
  /\ infChan \in Seq(Frames)
  /\ joined \in SUBSET Conns

\* A caller between addWaiter and removeWaiter always finds its own channel in
\* the map: no other caller of sendViaSharedFixedPort overwrites or deletes
\* its entry, even when TIDs wrap and two pending requests share one.
WaiterIntact ==
  \A c \in Callers : pc[c] \in Registered => waiters[Key(c)] = Chan(c)

\* Every entry of the waiters map belongs to a call in progress: no path out
\* of sendViaSharedFixedPort (reply, timeout, cancellation, write error)
\* leaves one behind to swallow a later frame.
NoOrphanWaiter ==
  \A key \in Keys : waiters[key] # NoChan =>
    \E c \in Callers : /\ pc[c] \in Registered
                       /\ Key(c) = key
                       /\ Chan(c) = waiters[key]

\* A reply that Send returns answers the very request this Send wrote, over
\* retries, late and duplicated frames, and other callers of the same host,
\* as long as the 16-bit TID counter has not wrapped.
AnswersOwnRequest ==
  MaxSends < TidMod =>
    \A c \in Callers : outcome[c] = "ok" /\ mode[c] = "send" =>
      /\ got[c].host = host[c]
      /\ got[c].kind = "Res" => got[c].req = req[c]

\* At most one socket on port 3610 is open, and the transport can reach it:
\* neither a receiver that ends late nor a caller that resets a socket makes
\* the transport forget one that is in use.
SingleSocket == openConns \subseteq {fixedConn}

\* Only Close, at shutdown, closes a socket: a caller that finds its own
\* socket closed never tears down the one its peers have opened since.
OnlyShutdownCloses ==
  [][openConns \subseteq openConns' \/ phase' # phase]_vars

\* The table of timed-out requests never exceeds maxExpiredWaiters entries.
ExpiredBounded == Cardinality(expired) <= MaxExpired

\* Send and SendFireAndForget return: a caller is never left waiting for a
\* reply that was lost or for a host's mutex.
CallReturns == \A c \in Callers : pc[c] # "idle" ~> pc[c] = "idle"

-----------------------------------------------------------------------------
(* Inductive strengthening                                                 *)

Active(c) == pc[c] # "idle"
\* A reply carries the TID of the request it answers.
Genuine(f) == f.kind = "Res" => f.req \in Requests /\ f.tid = TID(f.req)

\* What a goroutine's locals are worth at each statement.
CallInv ==
  \A c \in Callers :
    /\ Active(c) => host[c] \in Hosts /\ req[c] \in 1..tidCounter
    /\ pc[c] \in Locked => hostLock[host[c]] = c /\ attempt[c] >= 1
    /\ pc[c] \in {"ffconn", "ffwrite"} => mode[c] = "ff"
    /\ pc[c] \in {"idle", "lock"} => outcome[c] = "none"
    /\ conn[c] <= nConns
    /\ pc[c] \in {"register", "write", "reset"} => conn[c] # NoConn
    /\ pc[c] = "reset" => conn[c] \notin openConns
    /\ outcome[c] = "ok" /\ mode[c] = "send" => got[c] # NoFrame

\* NextTID gives every call in progress a counter value of its own.
DistinctRequests ==
  \A c, d \in Callers : Active(c) /\ Active(d) /\ c # d => req[c] # req[d]

\* A frame on its way to a caller carries that caller's key: in the hands of
\* the receiver, in the response channel, and in the caller's.
RoutedByKey ==
  /\ \A k \in Conns : rx[k].st = "read" => Genuine(rx[k].f)
  /\ \A k \in Conns : rx[k].st = "found" =>
       /\ Genuine(rx[k].f)
       /\ rx[k].ch[1] \in 1..tidCounter
       /\ \A c \in Callers : Active(c) /\ req[c] = rx[k].ch[1] =>
            KeyOf(rx[k].f) = Key(c)
  /\ \A c \in Callers : buf[c] # NoFrame =>
       pc[c] \in Registered /\ Genuine(buf[c]) /\ KeyOf(buf[c]) = Key(c)
  /\ \A c \in Callers : got[c] # NoFrame =>
       Active(c) /\ Genuine(got[c]) /\ KeyOf(got[c]) = Key(c)

\* The transport's socket is the open one, numbered by nConns at most.
SocketInv ==
  /\ fixedConn # NoConn => fixedConn \in openConns
  /\ openConns \subseteq {fixedConn}
  /\ \A k \in openConns : k <= nConns

\* The inductive invariant behind WaiterIntact, NoOrphanWaiter,
\* AnswersOwnRequest and SingleSocket.
IndInv ==
  /\ TypeOK /\ CallInv /\ DistinctRequests /\ RoutedByKey /\ SocketInv
  /\ WaiterIntact /\ NoOrphanWaiter
=============================================================================
