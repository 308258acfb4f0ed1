------------------------------ MODULE Commander ------------------------------
(***************************************************************************)
(* Commands to one device (internal/mqtt/commander.go): what a handler     *)
(* sends, and the goroutines it leaves behind, verifyStateUpdate after an  *)
(* acknowledged SetC and triggerStateUpdate after a failed one, which read *)
(* the device back and merge the answer into the cache (and so publish     *)
(* it).  paho calls the handlers one after another; the goroutines run     *)
(* beside them and beside each other.                                      *)
(*                                                                         *)
(* A handler is described by what it sends, so handlers that do the same   *)
(* to different properties are equal values.                               *)
(***************************************************************************)
EXTENDS Integers, Functions

CONSTANTS
  EPCs,         \* "power" (0x80), "mode" and "aux" (any other property)
  Values,       \* property data; On is the value pre-sets write
  On,
  Nil,          \* no value: an undecodable payload, nothing pending or cached
  Handlers,     \* the handlers that messages are routed to
  Payloads,     \* decoded payloads, Nil for one that does not decode
  Settable,     \* the device's SETMAP
  Readable,     \* properties the device answers a Get of
  Registers,    \* bound on what the registers hold when the program starts
  MaxCommands,  \* bound on the messages received
  MaxFails      \* bound on the reads that fail

ASSUME ValuesAssumption == On \in Values /\ Nil \notin Values
ASSUME HandlersAssumption ==
  Handlers \subseteq [gate : SUBSET EPCs, pre : EPCs \cup {"none"}, must : BOOLEAN, main : EPCs,
                      reread : SUBSET EPCs, fire : BOOLEAN]
ASSUME RereadAssumption == \A h \in Handlers : h.main \in h.reread
ASSUME NoneAssumption == "none" \notin EPCs
ASSUME PayloadsAssumption == Payloads \subseteq Values \cup {Nil}
ASSUME MapsAssumption == Settable \subseteq EPCs /\ Readable \subseteq EPCs
ASSUME BoundsAssumption == /\ Registers \subseteq [EPCs -> Values]
                           /\ MaxCommands \in Nat /\ MaxFails \in Nat

Tasks == 1..MaxCommands   \* the goroutine left behind by the t-th command
Attempts == 3             \* len(delays)

VARIABLES
  reg,      \* the device's registers
  pending,  \* values it has accepted and not applied yet
  seen,     \* values each register has had (history)
  hasMap,   \* the cache has the device's SETMAP
  cache,    \* the cached metrics
  cmd,      \* the handler being run
  count,    \* messages received
  task,     \* the goroutines
  alive,    \* lifetimeCtx is not cancelled
  fails,    \* reads that failed
  dirty     \* per property not read back since the latest write: the part that
            \* write had in its command (history)

vars == <<reg, pending, seen, hasMap, cache, cmd, count, task, alive, fails, dirty>>

Idle == [pc |-> "idle"]
NoTask == [kind |-> "none"]

Init ==
  /\ reg \in Registers
  /\ pending = [e \in EPCs |-> Nil]
  /\ seen = [e \in EPCs |-> {reg[e]}]
  /\ hasMap \in BOOLEAN
  /\ cache \in {[e \in EPCs |-> Nil], reg}
  /\ cmd = Idle /\ count = 0
  /\ task = [t \in Tasks |-> NoTask]
  /\ alive = TRUE /\ fails = 0
  /\ dirty = [e \in EPCs |-> "no"]

-----------------------------------------------------------------------------
(* The handlers: the EPCs gated by the SETMAP, the EPC sent first with the *)
(* value On ("none" if there is none; must: its failure ends the command), *)
(* the main EPC, what is read back if that fails, and whether it is sent   *)
(* without asking for an answer.                                           *)

Single(e) == [gate |-> {e}, pre |-> "none", must |-> FALSE, main |-> e,
              reread |-> {e}, fire |-> FALSE]

handleClimatePower       == Single("power")
handleClimateModeOff     == Single("power")
handleClimateTemperature == Single("aux")
handleClimateFanMode     == Single("aux")
handleLightPower         == Single("power")
handleLightBrightness    == Single("aux")
handleLightEffect        == Single("aux")

handleClimateMode == [gate |-> {"power", "mode"}, pre |-> "power", must |-> TRUE,
                      main |-> "mode", reread |-> {"power", "mode"}, fire |-> FALSE]

executeWritableSet       == Single("aux")
executeWritablePreSet    == [Single("aux") EXCEPT !.pre = "mode"]
executeWritableSetI      == [Single("aux") EXCEPT !.fire = TRUE]

-----------------------------------------------------------------------------
(* The device                                                              *)

Store(e, v) == /\ reg' = [reg EXCEPT ![e] = v]
               /\ seen' = [seen EXCEPT ![e] = @ \cup {v}]

Settle(e) ==
  /\ pending[e] # Nil
  /\ Store(e, pending[e])
  /\ pending' = [pending EXCEPT ![e] = Nil]
  /\ UNCHANGED <<hasMap, cache, cmd, count, task, alive, fails, dirty>>

\* A SetC or SetI.  The device refuses a property it cannot set; any other it
\* applies, applies later or ignores, whether or not its answer gets through.
SendSet(e, v, ok, part) ==
  /\ \/ /\ e \in Settable
        /\ Store(e, v) /\ pending' = [pending EXCEPT ![e] = Nil]
     \/ /\ e \in Settable
        /\ pending' = [pending EXCEPT ![e] = v] /\ UNCHANGED <<reg, seen>>
     \/ /\ ok => e \in Settable
        /\ UNCHANGED <<reg, seen, pending>>
  /\ dirty' = [dirty EXCEPT ![e] = part]

GetProps(S) == Restrict(reg, S \cap Readable)

-----------------------------------------------------------------------------
(* Running a command                                                       *)

\* hasMap is read once per message; without a SETMAP every EPC may be written
\* (and the reconciler is called, see Reconciler).
checkWritable(h) == hasMap => h.gate \subseteq Settable

Receive(h, v) ==
  /\ cmd = Idle /\ count < MaxCommands
  /\ count' = count + 1
  /\ cmd' = IF ~checkWritable(h) \/ (h.pre = "none" /\ v = Nil) THEN Idle
            ELSE [pc |-> IF h.pre = "none" THEN "main" ELSE "pre", h |-> h, val |-> v]
  /\ UNCHANGED <<reg, pending, seen, hasMap, cache, task, alive, fails, dirty>>

\* A goroutine that has read before the write to e has not read it back.
Overtaken(e) ==
  [t \in Tasks |-> IF task[t].kind = "none" THEN NoTask
                   ELSE [task[t] EXCEPT !.since = @ \ {e}]]

Reread(S) == [kind |-> "reread", want |-> <<>>, epcs |-> S, attempt |-> Attempts,
              pc |-> "sleep", got |-> <<>>, since |-> {}]
Verify(want) == [kind |-> "verify", want |-> want, epcs |-> DOMAIN want, attempt |-> 1,
                 pc |-> "sleep", got |-> <<>>, since |-> {}]

\* A failed command that waits for the next poll to show the actual state.
LeaveToPoller(e, S) == task' = Overtaken(e)

triggerStateUpdate(e, S) == task' = [Overtaken(e) EXCEPT ![count] = Reread(S)]

verifyStateUpdate(e, want) == task' = [Overtaken(e) EXCEPT ![count] = Verify(want)]

\* The first SetC of a command.  The payload of the main one is only looked at
\* afterwards.
PreSet(ok) ==
  LET h == cmd.h
      goesOn == ok \/ ~h.must
  IN /\ cmd.pc = "pre"
     /\ SendSet(h.pre, On, ok, "pre")
     /\ cmd' = IF goesOn /\ cmd.val # Nil THEN [cmd EXCEPT !.pc = "main"] ELSE Idle
     /\ IF goesOn THEN task' = Overtaken(h.pre) ELSE triggerStateUpdate(h.pre, {h.pre})
     /\ UNCHANGED <<hasMap, cache, count, alive, fails>>

Wanted == [e \in {cmd.h.main, cmd.h.pre} \ {"none"} |->
             IF e = cmd.h.main THEN cmd.val ELSE On]

MainSet(ok) ==
  LET h == cmd.h
  IN /\ cmd.pc = "main" /\ ~h.fire
     /\ SendSet(h.main, cmd.val, ok, "main")
     /\ cmd' = Idle
     /\ IF ok THEN verifyStateUpdate(h.main, Wanted) ELSE triggerStateUpdate(h.main, h.reread)
     /\ UNCHANGED <<hasMap, cache, count, alive, fails>>

\* A SetI is sent (or not: a write error) and forgotten.
MainSetI(ok) ==
  /\ cmd.pc = "main" /\ cmd.h.fire
  /\ IF ok THEN SendSet(cmd.h.main, cmd.val, FALSE, "fire") /\ task' = Overtaken(cmd.h.main)
     ELSE UNCHANGED <<reg, seen, pending, dirty, task>>
  /\ cmd' = Idle
  /\ UNCHANGED <<hasMap, cache, count, alive, fails>>

-----------------------------------------------------------------------------
(* Reading back                                                            *)

\* Looks at the properties of the answer only, not at the ones left out.
MatchesAny(got, want) == \E e \in DOMAIN want : e \in DOMAIN got /\ got[e] = want[e]

\* Every update is found and equal.
allMatched(got, want) == \A e \in DOMAIN want : e \in DOMAIN got /\ got[e] = want[e]

Asleep(t) == task[t].kind # "none" /\ task[t].pc = "sleep"
LastAttempt(t) == task[t].attempt = Attempts

\* Never gives up.
Persist(t) == [task[t] EXCEPT !.attempt = @ + 1]

Again(t) == IF LastAttempt(t) THEN NoTask ELSE [task[t] EXCEPT !.attempt = @ + 1]

\* The delay is over and GetProps answers.  verifyStateUpdate drops an answer
\* that does not match, unless it is the last; triggerStateUpdate takes any.
ReadBack(t) ==
  LET got == GetProps(task[t].epcs)
      use == task[t].kind = "reread" \/ allMatched(got, task[t].want) \/ LastAttempt(t)
  IN /\ Asleep(t) /\ alive
     /\ DOMAIN got # {}
     /\ task' = [task EXCEPT ![t] =
          IF use THEN [@ EXCEPT !.pc = "merge", !.got = got, !.since = DOMAIN got] ELSE Again(t)]
     /\ UNCHANGED <<reg, pending, seen, hasMap, cache, cmd, count, alive, fails, dirty>>

\* GetProps fails: no answer, or none of the properties in it.
ReadFails(t) ==
  /\ Asleep(t) /\ alive
  /\ fails < MaxFails
  /\ fails' = fails + 1
  /\ task' = [task EXCEPT ![t] = Again(t)]
  /\ UNCHANGED <<reg, pending, seen, hasMap, cache, cmd, count, alive, dirty>>

Unreadable(t) ==
  /\ Asleep(t) /\ alive
  /\ DOMAIN GetProps(task[t].epcs) = {}
  /\ task' = [task EXCEPT ![t] = Again(t)]
  /\ UNCHANGED <<reg, pending, seen, hasMap, cache, cmd, count, alive, fails, dirty>>

\* Publishes what was asked for.
MergeWanted(t) == [e \in EPCs |-> IF e \in DOMAIN task[t].want THEN task[t].want[e]
                                  ELSE IF e \in DOMAIN task[t].got THEN task[t].got[e]
                                  ELSE cache[e]]

mergePropsToCache(t) == [e \in EPCs |-> IF e \in DOMAIN task[t].got THEN task[t].got[e]
                                        ELSE cache[e]]

Merge(t) ==
  /\ task[t].kind # "none" /\ task[t].pc = "merge"
  /\ cache' = mergePropsToCache(t)
  /\ dirty' = [e \in EPCs |-> IF e \in task[t].since THEN "no" ELSE dirty[e]]
  /\ task' = [task EXCEPT ![t] = NoTask]
  /\ UNCHANGED <<reg, pending, seen, hasMap, cmd, count, alive, fails>>

\* lifetimeCtx is over.
Cancelled(t) ==
  /\ Asleep(t) /\ ~alive
  /\ task' = [task EXCEPT ![t] = NoTask]
  /\ UNCHANGED <<reg, pending, seen, hasMap, cache, cmd, count, alive, fails, dirty>>

TaskStep(t) == ReadBack(t) \/ Unreadable(t) \/ Merge(t) \/ Cancelled(t)

-----------------------------------------------------------------------------
(* The rest of the program                                                 *)

MapLearned ==
  /\ ~hasMap /\ hasMap' = TRUE
  /\ UNCHANGED <<reg, pending, seen, cache, cmd, count, task, alive, fails, dirty>>

Shutdown ==
  /\ alive /\ alive' = FALSE
  /\ UNCHANGED <<reg, pending, seen, hasMap, cache, cmd, count, task, fails, dirty>>

Command == \E ok \in BOOLEAN : PreSet(ok) \/ MainSet(ok) \/ MainSetI(ok)

Next ==
  \/ \E h \in Handlers, v \in Payloads : Receive(h, v)
  \/ Command
  \/ \E t \in Tasks : TaskStep(t) \/ ReadFails(t)
  \/ \E e \in EPCs : Settle(e)
  \/ MapLearned \/ Shutdown

Spec == Init /\ [][Next]_vars

\* SendSet and GetProps return within their timeouts, timers fire.
FairSpec == Spec /\ WF_vars(Command) /\ \A t \in Tasks : WF_vars(TaskStep(t))

-----------------------------------------------------------------------------
(* Properties                                                              *)

Partial(T) == UNION {[S -> T] : S \in SUBSET EPCs}
TaskType == [kind : {"verify", "reread"}, want : Partial(Values), epcs : SUBSET EPCs,
             attempt : 1..Attempts, pc : {"sleep", "merge"}, got : Partial(Values),
             since : SUBSET EPCs]

TypeOK ==
  /\ reg \in [EPCs -> Values]
  /\ pending \in [EPCs -> Values \cup {Nil}]
  /\ seen \in [EPCs -> SUBSET Values]
  /\ hasMap \in BOOLEAN
  /\ cache \in [EPCs -> Values \cup {Nil}]
  /\ \/ cmd = Idle
     \/ /\ cmd \in [pc : {"pre", "main"}, h : Handlers, val : Values \cup {Nil}]
        /\ cmd.pc = "main" => cmd.val # Nil
  /\ count \in 0..MaxCommands
  /\ task \in [Tasks -> TaskType \cup {NoTask}]
  /\ alive \in BOOLEAN /\ fails \in 0..MaxFails
  /\ dirty \in [EPCs -> {"no", "pre", "main", "fire"}]

\* "real device registers rather than optimistic assumptions": whatever a
\* command asks for, the cache only ever holds values that the register has
\* really had.
NoOptimisticLies == \A e \in EPCs : cache[e] # Nil => cache[e] \in seen[e]

Verifying(t, e) == task[t].kind = "verify" /\ e \in DOMAIN task[t].want

\* "Eliminated UI state bounce during post-command verification": while the
\* verification of a command has attempts left, and no other goroutine of the
\* commander is about, the cached value of a property does not move away from
\* the one requested, however slowly the device applies it.
NoBounce ==
  [][\A t \in Tasks, e \in EPCs :
       /\ Verifying(t, e) /\ ~LastAttempt(t)
       /\ \A u \in Tasks \ {t} : task[u] = NoTask
       /\ cache'[e] # cache[e]
       => cache'[e] = task[t].want[e]]_vars

\* Why: what a goroutine is about to merge was read from the registers, and a
\* verification that has attempts left merges only what it was asked to see.
ReadsAreReal ==
  /\ \A e \in EPCs : reg[e] \in seen[e]
  /\ \A t \in Tasks : task[t].kind # "none" =>
       /\ \A e \in DOMAIN task[t].got : task[t].got[e] \in seen[e]
       /\ task[t].kind = "verify" /\ task[t].pc = "merge" /\ ~LastAttempt(t)
            => allMatched(task[t].got, task[t].want)

HonestInv ==
  /\ TypeOK
  /\ cmd.pc = "pre" => cmd.h.pre # "none"
  /\ NoOptimisticLies
  /\ ReadsAreReal

\* Goroutine t is yet to read e, or has read it after the latest write and is
\* yet to merge it.
WillMerge(t, e) ==
  /\ task[t].kind # "none" /\ e \in task[t].epcs
  /\ task[t].pc = "sleep" \/ e \in task[t].since

\* As long as no read has failed, a property that the last SetC of a command has
\* written, and nobody since, has a goroutine ahead that publishes it, whatever
\* commands and goroutines came in between.
WritesHaveReader ==
  alive /\ fails = 0 =>
    \A e \in Readable : dirty[e] = "main" => \E t \in Tasks : WillMerge(t, e)

\* The goroutine a command leaves behind replaces no other.
TaskIsFree ==
  /\ \A t \in Tasks : t > count => task[t] = NoTask
  /\ cmd.pc # "idle" => count \in Tasks /\ task[count] = NoTask

\* The inductive invariant behind NoOptimisticLies, NoBounce and the safety half
\* of WritesAreReread.
IndInv == HonestInv /\ TaskIsFree /\ WritesHaveReader

Published(e, part) ==
  (dirty[e] = part) ~> (dirty[e] # part \/ fails > 0 \/ ~alive)

\* What the last SetC of a command has written, acknowledged or not, is read
\* back after the write and its actual value published, unless a read fails,
\* the device does not answer reads of it or the program ends.
WritesAreReread == \A e \in Readable : Published(e, "main")

\* "EchonetGO verifies that the device registers reflect the requested value":
\* the same of the SetC that goes before it.
PreSetsAreReread == \A e \in Readable : Published(e, "pre")
=============================================================================
