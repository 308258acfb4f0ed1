--------------------------- MODULE CommanderProofs ---------------------------
(***************************************************************************)
(* What the commander publishes after a command, for every set of          *)
(* properties, values and handlers and every number of commands: only what *)
(* the registers really held, and no bounce away from what was asked for.  *)
(***************************************************************************)
EXTENDS Commander, TLAPS

\* A function from some of the EPCs into T is a Partial(T), and conversely.
LEMMA PartialIntro ==
  ASSUME NEW T, NEW S \in SUBSET EPCs, NEW f \in [S -> T]
  PROVE  f \in Partial(T)
BY DEF Partial

\* What a function on some of the EPCs is.
LEMMA PartialElim ==
  ASSUME NEW T, NEW f \in Partial(T)
  PROVE  DOMAIN f \in SUBSET EPCs /\ f \in [DOMAIN f -> T]
BY DEF Partial

\* The one of no EPC.
LEMMA EmptyPartial ==
  ASSUME NEW T
  PROVE  <<>> \in Partial(T)
<1>1. <<>> \in [{} -> T]
  OBVIOUS
<1> QED BY <1>1, PartialIntro

\* A goroutine that is running has all of its fields.
LEMMA RunningTask ==
  ASSUME TypeOK, NEW t \in Tasks, task[t].kind # "none"
  PROVE  task[t] \in TaskType
BY DEF TypeOK, NoTask

\* Between two commands nothing is sent; a command that is being run has a
\* handler.
LEMMA RunningCmd ==
  ASSUME HonestInv, cmd.pc \in {"pre", "main"}
  PROVE  /\ cmd \in [pc : {"pre", "main"}, h : Handlers, val : Values \cup {Nil}]
         /\ cmd.h.main \in EPCs /\ cmd.h.reread \subseteq EPCs
         /\ cmd.h.pre \in EPCs \cup {"none"}
         /\ cmd.pc = "main" => cmd.val \in Values
         /\ cmd.pc = "pre" => cmd.h.pre \in EPCs
<1>1. /\ cmd \in [pc : {"pre", "main"}, h : Handlers, val : Values \cup {Nil}]
      /\ cmd.pc = "main" => cmd.val # Nil
      /\ cmd.pc = "pre" => cmd.h.pre # "none"
  BY DEF HonestInv, TypeOK, Idle
<1> QED BY <1>1, HandlersAssumption

-----------------------------------------------------------------------------
\* The registers, what they have had, and the cached metrics at the start.
LEMMA InitHonest == Init => HonestInv
<1> SUFFICES ASSUME Init PROVE HonestInv
  OBVIOUS
<1> USE BoundsAssumption, ValuesAssumption DEF Init
<1>1. /\ reg \in [EPCs -> Values] /\ pending \in [EPCs -> Values \cup {Nil}]
      /\ seen \in [EPCs -> SUBSET Values] /\ cache \in [EPCs -> Values \cup {Nil}]
      /\ dirty \in [EPCs -> {"no", "pre", "main", "fire"}]
  OBVIOUS
<1>2. task \in [Tasks -> TaskType \cup {NoTask}] /\ \A t \in Tasks : task[t].kind = "none"
  BY DEF NoTask
<1>3. count \in 0..MaxCommands /\ fails \in 0..MaxFails
  OBVIOUS
<1>4. hasMap \in BOOLEAN /\ alive \in BOOLEAN /\ cmd = Idle /\ cmd.pc = "idle"
  BY DEF Idle
<1>5. TypeOK BY <1>1, <1>2, <1>3, <1>4 DEF TypeOK
<1>6. NoOptimisticLies BY <1>1 DEF NoOptimisticLies
<1>7. ReadsAreReal BY <1>1, <1>2 DEF ReadsAreReal
<1> QED BY <1>4, <1>5, <1>6, <1>7 DEF HonestInv

\* What a SetC or SetI does to the device: the registers hold only values they
\* have had, and what was seen stays seen.
LEMMA SendSetEffect ==
  ASSUME HonestInv, NEW e \in EPCs, NEW v \in Values, NEW ok \in BOOLEAN,
         NEW part \in {"pre", "main", "fire"}, SendSet(e, v, ok, part)
  PROVE  /\ reg' \in [EPCs -> Values] /\ pending' \in [EPCs -> Values \cup {Nil}]
         /\ seen' \in [EPCs -> SUBSET Values]
         /\ dirty' \in [EPCs -> {"no", "pre", "main", "fire"}]
         /\ \A x \in EPCs : seen[x] \subseteq seen'[x] /\ reg'[x] \in seen'[x]
<1> USE DEF HonestInv, ReadsAreReal, SendSet, Store
<1>1. /\ reg \in [EPCs -> Values] /\ pending \in [EPCs -> Values \cup {Nil}]
      /\ seen \in [EPCs -> SUBSET Values]
      /\ dirty \in [EPCs -> {"no", "pre", "main", "fire"}]
  BY DEF TypeOK
<1>2. dirty' \in [EPCs -> {"no", "pre", "main", "fire"}]
  BY <1>1
<1>3. CASE reg' = [reg EXCEPT ![e] = v] /\ seen' = [seen EXCEPT ![e] = @ \cup {v}]
           /\ pending' = [pending EXCEPT ![e] = Nil]
  BY <1>1, <1>2, <1>3
<1>4. CASE pending' = [pending EXCEPT ![e] = v] /\ UNCHANGED <<reg, seen>>
  BY <1>1, <1>2, <1>4
<1>5. CASE UNCHANGED <<reg, seen, pending>>
  BY <1>1, <1>2, <1>5
<1> QED BY <1>3, <1>4, <1>5
\* A write only takes properties from what goroutines have read since.
LEMMA OvertakenEffect ==
  ASSUME TypeOK, NEW e
  PROVE  /\ Overtaken(e) \in [Tasks -> TaskType \cup {NoTask}]
         /\ \A t \in Tasks :
              /\ Overtaken(e)[t].kind = task[t].kind
              /\ task[t].kind # "none" =>
                   /\ Overtaken(e)[t].got = task[t].got
                   /\ Overtaken(e)[t].want = task[t].want
                   /\ Overtaken(e)[t].pc = task[t].pc
                   /\ Overtaken(e)[t].attempt = task[t].attempt
<1> SUFFICES ASSUME NEW t \in Tasks
             PROVE  /\ Overtaken(e)[t] \in TaskType \cup {NoTask}
                    /\ Overtaken(e)[t].kind = task[t].kind
                    /\ task[t].kind # "none" =>
                         /\ Overtaken(e)[t].got = task[t].got
                         /\ Overtaken(e)[t].want = task[t].want
                         /\ Overtaken(e)[t].pc = task[t].pc
                         /\ Overtaken(e)[t].attempt = task[t].attempt
  BY DEF Overtaken
<1>1. CASE task[t].kind = "none"
  BY <1>1 DEF Overtaken, NoTask
<1>2. CASE task[t].kind # "none"
  <2>1. task[t] \in TaskType
    BY <1>2, RunningTask
  <2>2. Overtaken(e)[t] = [task[t] EXCEPT !.since = @ \ {e}]
    BY <1>2 DEF Overtaken
  <2> QED BY <2>1, <2>2 DEF TaskType
<1> QED BY <1>1, <1>2

\* A new goroutine has read nothing yet.
LEMMA NewTask ==
  ASSUME NEW S \in SUBSET EPCs, NEW want \in Partial(Values)
  PROVE  /\ Reread(S) \in TaskType /\ Reread(S).got = <<>> /\ Reread(S).pc = "sleep"
         /\ Verify(want) \in TaskType /\ Verify(want).got = <<>>
         /\ Verify(want).pc = "sleep"
BY EmptyPartial, PartialElim DEF Reread, Verify, TaskType, Attempts

\* Goroutines that keep what they have read, or have read nothing, stay honest
\* when the registers change.
LEMMA KeepsReadsReal ==
  ASSUME HonestInv,
         NEW f \in [Tasks -> TaskType \cup {NoTask}], task' = f,
         \A x \in EPCs : seen[x] \subseteq seen'[x] /\ reg'[x] \in seen'[x],
         \A t \in Tasks :
           \/ f[t].kind = "none"
           \/ f[t].got = <<>> /\ f[t].pc = "sleep"
           \/ /\ task[t].kind # "none" /\ f[t].kind = task[t].kind
              /\ f[t].got = task[t].got /\ f[t].want = task[t].want
              /\ f[t].pc = task[t].pc /\ f[t].attempt = task[t].attempt
  PROVE  ReadsAreReal'
<1> SUFFICES ASSUME NEW t \in Tasks, f[t].kind # "none"
             PROVE  /\ \A e \in DOMAIN f[t].got : f[t].got[e] \in seen'[e]
                    /\ f[t].kind = "verify" /\ f[t].pc = "merge" /\ f[t].attempt # Attempts
                         => allMatched(f[t].got, f[t].want)
  BY DEF ReadsAreReal, LastAttempt
<1>1. CASE f[t].got = <<>> /\ f[t].pc = "sleep"
  <2>1. DOMAIN f[t].got = {}
    BY <1>1
  <2> QED BY <1>1, <2>1
<1>2. CASE /\ task[t].kind # "none" /\ f[t].kind = task[t].kind
           /\ f[t].got = task[t].got /\ f[t].want = task[t].want
           /\ f[t].pc = task[t].pc /\ f[t].attempt = task[t].attempt
  <2>1. DOMAIN task[t].got \subseteq EPCs
    BY <1>2, RunningTask, PartialElim DEF HonestInv, TaskType
  <2>2. /\ \A e \in DOMAIN task[t].got : task[t].got[e] \in seen[e]
        /\ task[t].kind = "verify" /\ task[t].pc = "merge" /\ task[t].attempt # Attempts
             => allMatched(task[t].got, task[t].want)
    BY <1>2 DEF HonestInv, ReadsAreReal, LastAttempt
  <2> QED BY <1>2, <2>1, <2>2
<1> QED BY <1>1, <1>2

\* The goroutines after a command has started one, or none.
LEMMA SpawnKeepsReadsReal ==
  ASSUME HonestInv, NEW e,
         \A x \in EPCs : seen[x] \subseteq seen'[x] /\ reg'[x] \in seen'[x],
         \/ task' = Overtaken(e)
         \/ \E S \in SUBSET EPCs : triggerStateUpdate(e, S)
         \/ \E want \in Partial(Values) : verifyStateUpdate(e, want)
  PROVE  task' \in [Tasks -> TaskType \cup {NoTask}] /\ ReadsAreReal'
<1> DEFINE Old == Overtaken(e)
<1> USE DEF triggerStateUpdate, verifyStateUpdate
<1>1. /\ Old \in [Tasks -> TaskType \cup {NoTask}]
      /\ \A t \in Tasks :
           \/ Old[t].kind = "none"
           \/ /\ task[t].kind # "none" /\ Old[t].kind = task[t].kind
              /\ Old[t].got = task[t].got /\ Old[t].want = task[t].want
              /\ Old[t].pc = task[t].pc /\ Old[t].attempt = task[t].attempt
  BY OvertakenEffect DEF HonestInv
<1>2. CASE task' = Old
  BY <1>1, <1>2, KeepsReadsReal
<1>3. ASSUME NEW r \in TaskType, r.got = <<>>, r.pc = "sleep",
             task' = [Old EXCEPT ![count] = r]
      PROVE  task' \in [Tasks -> TaskType \cup {NoTask}] /\ ReadsAreReal'
  <2> DEFINE New == [Old EXCEPT ![count] = r]
  <2>1. /\ New \in [Tasks -> TaskType \cup {NoTask}]
        /\ \A t \in Tasks : New[t] = r \/ New[t] = Old[t]
    BY <1>1
  <2> HIDE DEF New
  <2>2. \A t \in Tasks :
           \/ New[t].kind = "none"
           \/ New[t].got = <<>> /\ New[t].pc = "sleep"
           \/ /\ task[t].kind # "none" /\ New[t].kind = task[t].kind
              /\ New[t].got = task[t].got /\ New[t].want = task[t].want
              /\ New[t].pc = task[t].pc /\ New[t].attempt = task[t].attempt
    BY <1>1, <1>3, <2>1
  <2>3. task' = New
    BY <1>3 DEF New
  <2> QED BY <2>1, <2>2, <2>3, KeepsReadsReal
<1>4. CASE \E S \in SUBSET EPCs : triggerStateUpdate(e, S)
  BY <1>3, <1>4, NewTask, EmptyPartial
<1>5. CASE \E want \in Partial(Values) : verifyStateUpdate(e, want)
  BY <1>3, <1>5, NewTask
<1> QED BY <1>2, <1>4, <1>5
-----------------------------------------------------------------------------
\* A command that sends and leaves the cache alone keeps the invariant.
LEMMA SentInv ==
  ASSUME HonestInv,
         reg' \in [EPCs -> Values], pending' \in [EPCs -> Values \cup {Nil}],
         seen' \in [EPCs -> SUBSET Values],
         dirty' \in [EPCs -> {"no", "pre", "main", "fire"}],
         \A x \in EPCs : seen[x] \subseteq seen'[x],
         task' \in [Tasks -> TaskType \cup {NoTask}], ReadsAreReal',
         \/ cmd' = Idle
         \/ /\ cmd' \in [pc : {"main"}, h : Handlers, val : Values]
            /\ cmd'.pc = "main",
         UNCHANGED <<hasMap, cache, count, alive, fails>>
  PROVE  HonestInv'
<1> USE ValuesAssumption DEF HonestInv
<1>1. /\ \/ cmd' = Idle
         \/ /\ cmd' \in [pc : {"pre", "main"}, h : Handlers, val : Values \cup {Nil}]
            /\ cmd'.pc = "main" => cmd'.val # Nil
      /\ cmd'.pc = "pre" => cmd'.h.pre # "none"
  BY DEF Idle
<1>2. TypeOK'
  BY <1>1 DEF TypeOK
<1>3. NoOptimisticLies'
  BY DEF NoOptimisticLies, TypeOK
<1> QED BY <1>1, <1>2, <1>3

\* A message is routed to a handler, or dropped.
LEMMA ReceiveInv ==
  ASSUME HonestInv, NEW h \in Handlers, NEW v \in Payloads, Receive(h, v)
  PROVE  HonestInv'
<1> USE DEF HonestInv
<1>1. /\ \/ cmd' = Idle
         \/ /\ cmd' \in [pc : {"pre", "main"}, h : Handlers, val : Values \cup {Nil}]
            /\ cmd'.pc = "main" => cmd'.val # Nil
      /\ cmd'.pc = "pre" => cmd'.h.pre # "none"
  <2>1. CASE cmd' = Idle
    BY <2>1 DEF Idle
  <2>2. CASE /\ ~(h.pre = "none" /\ v = Nil)
             /\ cmd' = [pc |-> IF h.pre = "none" THEN "main" ELSE "pre", h |-> h, val |-> v]
    BY <2>2, PayloadsAssumption, HandlersAssumption
  <2> QED BY <2>1, <2>2 DEF Receive
<1>2. count' \in 0..MaxCommands
  BY BoundsAssumption DEF Receive, TypeOK
<1>3. UNCHANGED <<reg, pending, seen, hasMap, cache, task, alive, fails, dirty>>
  BY DEF Receive
<1>4. TypeOK'
  BY <1>1, <1>2, <1>3 DEF TypeOK
<1> QED BY <1>1, <1>3, <1>4 DEF NoOptimisticLies, ReadsAreReal, LastAttempt

\* The pre-set of a command.
LEMMA PreSetInv ==
  ASSUME HonestInv, NEW ok \in BOOLEAN, PreSet(ok)
  PROVE  HonestInv'
<1>1. cmd.pc = "pre" /\ SendSet(cmd.h.pre, On, ok, "pre")
  BY DEF PreSet
<1>2. /\ cmd.h.pre \in EPCs
      /\ cmd \in [pc : {"pre", "main"}, h : Handlers, val : Values \cup {Nil}]
  BY <1>1, RunningCmd
<1>3. /\ reg' \in [EPCs -> Values] /\ pending' \in [EPCs -> Values \cup {Nil}]
      /\ seen' \in [EPCs -> SUBSET Values]
      /\ dirty' \in [EPCs -> {"no", "pre", "main", "fire"}]
      /\ \A x \in EPCs : seen[x] \subseteq seen'[x] /\ reg'[x] \in seen'[x]
  BY <1>1, <1>2, ValuesAssumption, SendSetEffect
<1>4. \/ task' = Overtaken(cmd.h.pre)
      \/ triggerStateUpdate(cmd.h.pre, {cmd.h.pre})
  BY DEF PreSet
<1>5. task' \in [Tasks -> TaskType \cup {NoTask}] /\ ReadsAreReal'
  BY <1>2, <1>3, <1>4, SpawnKeepsReadsReal
<1>6. \/ cmd' = Idle
      \/ /\ cmd' \in [pc : {"main"}, h : Handlers, val : Values]
         /\ cmd'.pc = "main"
  <2>1. cmd' = Idle \/ (cmd.val # Nil /\ cmd' = [cmd EXCEPT !.pc = "main"])
    BY DEF PreSet
  <2> QED BY <1>2, <2>1
<1>7. UNCHANGED <<hasMap, cache, count, alive, fails>>
  BY DEF PreSet
<1> QED BY <1>3, <1>5, <1>6, <1>7, SentInv

\* What a verification waits for is a value for some of the properties.
LEMMA WantedType ==
  ASSUME HonestInv, cmd.pc = "main"
  PROVE  Wanted \in Partial(Values)
<1>1. /\ cmd.h.main \in EPCs /\ cmd.h.pre \in EPCs \cup {"none"}
      /\ cmd.val \in Values
  BY RunningCmd
<1>2. {cmd.h.main, cmd.h.pre} \ {"none"} \in SUBSET EPCs
  BY <1>1
<1>3. Wanted \in [{cmd.h.main, cmd.h.pre} \ {"none"} -> Values]
  BY <1>1, ValuesAssumption DEF Wanted
<1> QED BY <1>2, <1>3, PartialIntro

\* The SetC of a command.
LEMMA MainSetInv ==
  ASSUME HonestInv, NEW ok \in BOOLEAN, MainSet(ok)
  PROVE  HonestInv'
<1>1. cmd.pc = "main" /\ SendSet(cmd.h.main, cmd.val, ok, "main")
  BY DEF MainSet
<1>2. cmd.h.main \in EPCs /\ cmd.h.reread \in SUBSET EPCs /\ cmd.val \in Values
  BY <1>1, RunningCmd
<1>3. /\ reg' \in [EPCs -> Values] /\ pending' \in [EPCs -> Values \cup {Nil}]
      /\ seen' \in [EPCs -> SUBSET Values]
      /\ dirty' \in [EPCs -> {"no", "pre", "main", "fire"}]
      /\ \A x \in EPCs : seen[x] \subseteq seen'[x] /\ reg'[x] \in seen'[x]
  BY <1>1, <1>2, SendSetEffect
<1>4. \/ verifyStateUpdate(cmd.h.main, Wanted)
      \/ triggerStateUpdate(cmd.h.main, cmd.h.reread)
  BY DEF MainSet
<1>5. task' \in [Tasks -> TaskType \cup {NoTask}] /\ ReadsAreReal'
  BY <1>1, <1>2, <1>3, <1>4, WantedType, SpawnKeepsReadsReal
<1>6. cmd' = Idle /\ UNCHANGED <<hasMap, cache, count, alive, fails>>
  BY DEF MainSet
<1> QED BY <1>3, <1>5, <1>6, SentInv

\* The SetI of a command, sent or not.
LEMMA MainSetIInv ==
  ASSUME HonestInv, NEW ok \in BOOLEAN, MainSetI(ok)
  PROVE  HonestInv'
<1>1. cmd.pc = "main" /\ cmd' = Idle /\ UNCHANGED <<hasMap, cache, count, alive, fails>>
  BY DEF MainSetI
<1>2. cmd.h.main \in EPCs /\ cmd.val \in Values
  BY <1>1, RunningCmd
<1>3. CASE SendSet(cmd.h.main, cmd.val, FALSE, "fire") /\ task' = Overtaken(cmd.h.main)
  <2>1. /\ reg' \in [EPCs -> Values] /\ pending' \in [EPCs -> Values \cup {Nil}]
        /\ seen' \in [EPCs -> SUBSET Values]
        /\ dirty' \in [EPCs -> {"no", "pre", "main", "fire"}]
        /\ \A x \in EPCs : seen[x] \subseteq seen'[x] /\ reg'[x] \in seen'[x]
    BY <1>2, <1>3, SendSetEffect
  <2>2. task' \in [Tasks -> TaskType \cup {NoTask}] /\ ReadsAreReal'
    BY <1>3, <2>1, SpawnKeepsReadsReal
  <2> QED BY <1>1, <2>1, <2>2, SentInv
<1>4. CASE UNCHANGED <<reg, seen, pending, dirty, task>>
  <2>1. ReadsAreReal'
    BY <1>4 DEF HonestInv, ReadsAreReal, LastAttempt
  <2>2. /\ reg' \in [EPCs -> Values] /\ pending' \in [EPCs -> Values \cup {Nil}]
        /\ seen' \in [EPCs -> SUBSET Values]
        /\ dirty' \in [EPCs -> {"no", "pre", "main", "fire"}]
        /\ task' \in [Tasks -> TaskType \cup {NoTask}]
        /\ \A x \in EPCs : seen[x] \subseteq seen'[x]
    BY <1>4 DEF HonestInv, TypeOK
  <2> QED BY <1>1, <2>1, <2>2, SentInv
<1> QED BY <1>3, <1>4 DEF MainSetI
-----------------------------------------------------------------------------
\* One goroutine moves on, or is done, and only the goroutines change.
LEMMA TaskMovesInv ==
  ASSUME HonestInv, NEW t \in Tasks, NEW r \in TaskType \cup {NoTask},
         task' = [task EXCEPT ![t] = r],
         r.kind # "none" =>
           /\ \A e \in DOMAIN r.got : r.got[e] \in seen[e]
           /\ r.kind = "verify" /\ r.pc = "merge" /\ r.attempt # Attempts
                => allMatched(r.got, r.want),
         fails' \in 0..MaxFails,
         UNCHANGED <<reg, pending, seen, hasMap, cache, cmd, count, alive, dirty>>
  PROVE  HonestInv'
<1> USE DEF HonestInv
<1>1. /\ task' \in [Tasks -> TaskType \cup {NoTask}]
      /\ task'[t] = r /\ \A u \in Tasks \ {t} : task'[u] = task[u]
  BY DEF TypeOK
<1>2. TypeOK'
  BY <1>1 DEF TypeOK
<1>3. NoOptimisticLies'
  BY DEF NoOptimisticLies
<1>4. ReadsAreReal'
  BY <1>1 DEF ReadsAreReal, LastAttempt
<1> QED BY <1>2, <1>3, <1>4

\* A goroutine that tries again, or gives up, has read nothing it will merge.
LEMMA AgainType ==
  ASSUME HonestInv, NEW t \in Tasks, Asleep(t)
  PROVE  /\ Again(t) \in TaskType \cup {NoTask}
         /\ Again(t).kind # "none" => Again(t).pc = "sleep" /\ Again(t).got = task[t].got
<1>1. task[t] \in TaskType /\ task[t].pc = "sleep"
  BY RunningTask DEF HonestInv, Asleep
<1>2. CASE LastAttempt(t)
  BY <1>2 DEF Again, NoTask
<1>3. CASE ~LastAttempt(t)
  <2>1. task[t].attempt + 1 \in 1..Attempts
    BY <1>1, <1>3 DEF TaskType, LastAttempt, Attempts
  <2> QED BY <1>1, <1>3, <2>1 DEF Again, TaskType
<1> QED BY <1>2, <1>3

\* Trying again keeps the invariant.
LEMMA AgainInv ==
  ASSUME HonestInv, NEW t \in Tasks, Asleep(t), task' = [task EXCEPT ![t] = Again(t)],
         fails' \in 0..MaxFails,
         UNCHANGED <<reg, pending, seen, hasMap, cache, cmd, count, alive, dirty>>
  PROVE  HonestInv'
<1>1. /\ Again(t) \in TaskType \cup {NoTask}
      /\ Again(t).kind # "none" => Again(t).pc = "sleep" /\ Again(t).got = task[t].got
  BY AgainType
<1>2. \A e \in DOMAIN task[t].got : task[t].got[e] \in seen[e]
  BY DEF HonestInv, ReadsAreReal, Asleep
<1> QED BY <1>1, <1>2, TaskMovesInv

\* An answer has the registers' values of some properties.
LEMMA GetPropsEffect ==
  ASSUME HonestInv, NEW S \in SUBSET EPCs
  PROVE  /\ GetProps(S) \in Partial(Values) /\ DOMAIN GetProps(S) \subseteq EPCs
         /\ \A e \in DOMAIN GetProps(S) : GetProps(S)[e] \in seen[e]
<1>1. reg \in [EPCs -> Values] /\ S \cap Readable \in SUBSET EPCs
  BY DEF HonestInv, TypeOK
<1>2. GetProps(S) = [e \in S \cap Readable |-> reg[e]]
  BY DEF GetProps, Restrict
<1>3. GetProps(S) \in [S \cap Readable -> Values]
  BY <1>1, <1>2
<1>4. GetProps(S) \in Partial(Values)
  BY <1>1, <1>3, PartialIntro
<1> QED BY <1>1, <1>2, <1>4 DEF HonestInv, ReadsAreReal

\* readAndMergeProps reads: what verifyStateUpdate keeps before its last attempt
\* matches what was asked for.
LEMMA ReadBackInv ==
  ASSUME HonestInv, NEW t \in Tasks, ReadBack(t)
  PROVE  HonestInv'
<1> DEFINE got == GetProps(task[t].epcs)
           use == task[t].kind = "reread" \/ allMatched(got, task[t].want) \/ LastAttempt(t)
           r == [task[t] EXCEPT !.pc = "merge", !.got = got, !.since = DOMAIN got]
<1>1. /\ Asleep(t)
      /\ task' = [task EXCEPT ![t] = IF use THEN r ELSE Again(t)]
      /\ UNCHANGED <<reg, pending, seen, hasMap, cache, cmd, count, alive, fails, dirty>>
  BY DEF ReadBack
<1>2. fails' \in 0..MaxFails
  BY <1>1 DEF HonestInv, TypeOK
<1>3. task[t] \in TaskType
  BY <1>1, RunningTask DEF HonestInv, Asleep
<1>4. /\ got \in Partial(Values) /\ DOMAIN got \subseteq EPCs
      /\ \A e \in DOMAIN got : got[e] \in seen[e]
  BY <1>3, GetPropsEffect DEF TaskType
<1>5. CASE ~use
  BY <1>1, <1>2, <1>5, AgainInv
<1>6. CASE use
  <2> HIDE DEF got
  <2>1. /\ r \in TaskType /\ r.kind = task[t].kind /\ r.want = task[t].want
        /\ r.got = got /\ r.attempt = task[t].attempt
    BY <1>3, <1>4 DEF TaskType
  <2>2. r.kind = "verify" /\ r.attempt # Attempts => allMatched(r.got, r.want)
    BY <1>6, <2>1 DEF LastAttempt
  <2>3. task' = [task EXCEPT ![t] = r]
    BY <1>1, <1>6
  <2> HIDE DEF r
  <2> QED BY <1>1, <1>2, <1>4, <2>1, <2>2, <2>3, TaskMovesInv
<1> QED BY <1>5, <1>6

\* mergePropsToCache puts what was read into the cache.
LEMMA MergeInv ==
  ASSUME HonestInv, NEW t \in Tasks, Merge(t)
  PROVE  HonestInv'
<1> USE DEF HonestInv
<1>1. task[t] \in TaskType /\ task[t].kind # "none"
  BY RunningTask DEF Merge
<1>2. /\ task[t].got \in [DOMAIN task[t].got -> Values]
      /\ \A e \in DOMAIN task[t].got : task[t].got[e] \in seen[e]
  BY <1>1, PartialElim DEF TaskType, ReadsAreReal
<1>3. cache' = [e \in EPCs |-> IF e \in DOMAIN task[t].got THEN task[t].got[e] ELSE cache[e]]
  BY DEF Merge, mergePropsToCache
<1>4. /\ cache' \in [EPCs -> Values \cup {Nil}]
      /\ dirty' \in [EPCs -> {"no", "pre", "main", "fire"}]
  BY <1>2, <1>3 DEF TypeOK, Merge
<1>5. /\ task' \in [Tasks -> TaskType \cup {NoTask}]
      /\ task'[t].kind = "none" /\ \A u \in Tasks \ {t} : task'[u] = task[u]
  BY DEF Merge, TypeOK, NoTask
<1>6. UNCHANGED <<reg, pending, seen, hasMap, cmd, count, alive, fails>>
  BY DEF Merge
<1>7. TypeOK'
  BY <1>4, <1>5, <1>6 DEF TypeOK
<1>8. NoOptimisticLies'
  BY <1>2, <1>3, <1>6 DEF NoOptimisticLies
<1>9. ReadsAreReal'
  BY <1>5, <1>6 DEF ReadsAreReal, LastAttempt
<1> QED BY <1>6, <1>7, <1>8, <1>9

\* The other steps of a goroutine.
LEMMA TaskInv ==
  ASSUME HonestInv, NEW t \in Tasks, TaskStep(t) \/ ReadFails(t)
  PROVE  HonestInv'
<1>1. CASE Unreadable(t)
  <2>1. fails' \in 0..MaxFails BY <1>1 DEF Unreadable, HonestInv, TypeOK
  <2> QED BY <1>1, <2>1, AgainInv DEF Unreadable
<1>2. CASE ReadFails(t)
  <2>1. fails' \in 0..MaxFails
    BY <1>2, BoundsAssumption DEF ReadFails, HonestInv, TypeOK
  <2> QED BY <1>2, <2>1, AgainInv DEF ReadFails
<1>3. CASE Cancelled(t)
  <2>1. /\ fails' \in 0..MaxFails /\ NoTask.kind = "none"
    BY <1>3 DEF Cancelled, HonestInv, TypeOK, NoTask
  <2> QED BY <1>3, <2>1, TaskMovesInv DEF Cancelled
<1> QED BY <1>1, <1>2, <1>3, ReadBackInv, MergeInv DEF TaskStep

\* The device applies what it has accepted.
LEMMA SettleInv ==
  ASSUME HonestInv, NEW e \in EPCs, Settle(e)
  PROVE  HonestInv'
<1> USE DEF HonestInv
<1>1. pending[e] \in Values
  BY DEF Settle, TypeOK
<1>2. /\ reg' = [reg EXCEPT ![e] = pending[e]]
      /\ seen' = [seen EXCEPT ![e] = @ \cup {pending[e]}]
      /\ pending' = [pending EXCEPT ![e] = Nil]
      /\ UNCHANGED <<hasMap, cache, cmd, count, task, alive, fails, dirty>>
  BY DEF Settle, Store
<1>3. /\ reg' \in [EPCs -> Values] /\ pending' \in [EPCs -> Values \cup {Nil}]
      /\ seen' \in [EPCs -> SUBSET Values]
      /\ \A x \in EPCs : seen[x] \subseteq seen'[x] /\ reg'[x] \in seen'[x]
  BY <1>1, <1>2 DEF TypeOK, ReadsAreReal
<1>4. TypeOK'
  BY <1>2, <1>3 DEF TypeOK
<1>5. NoOptimisticLies'
  BY <1>2, <1>3 DEF NoOptimisticLies, TypeOK
<1>6. ReadsAreReal'
  BY <1>2, <1>3, <1>4, KeepsReadsReal DEF TypeOK
<1> QED BY <1>2, <1>4, <1>5, <1>6

\* Every step keeps the cache and the goroutines honest.
LEMMA NextHonest == HonestInv /\ [Next]_vars => HonestInv'
<1> SUFFICES ASSUME HonestInv, [Next]_vars PROVE HonestInv'
  OBVIOUS
<1>1. CASE MapLearned \/ Shutdown \/ UNCHANGED vars
  <2>1. UNCHANGED <<reg, pending, seen, cache, cmd, count, task, fails, dirty>>
    BY <1>1 DEF MapLearned, Shutdown, vars
  <2>2. hasMap' \in BOOLEAN /\ alive' \in BOOLEAN
    BY <1>1 DEF MapLearned, Shutdown, vars, HonestInv, TypeOK
  <2> QED BY <2>1, <2>2 DEF HonestInv, TypeOK, NoOptimisticLies, ReadsAreReal, LastAttempt
<1> QED BY <1>1, ReceiveInv, PreSetInv, MainSetInv, MainSetIInv, TaskInv, SettleInv
        DEF Next, Command

-----------------------------------------------------------------------------
\* Nothing is written, and nobody is running, at the start.
LEMMA InitReader == Init => TaskIsFree /\ WritesHaveReader
BY MapsAssumption DEF Init, TaskIsFree, WritesHaveReader, Idle

\* The goroutines that a write to e does not start still will merge what they
\* would, except e itself.
LEMMA OvertakenMerges ==
  ASSUME TypeOK, NEW e, NEW t \in Tasks, NEW x, x # e, WillMerge(t, x)
  PROVE  /\ Overtaken(e)[t].kind # "none" /\ x \in Overtaken(e)[t].epcs
         /\ Overtaken(e)[t].pc = "sleep" \/ x \in Overtaken(e)[t].since
<1>1. task[t] \in TaskType
  BY RunningTask DEF WillMerge
<1>2. Overtaken(e)[t] = [task[t] EXCEPT !.since = @ \ {e}]
  BY DEF Overtaken, WillMerge
<1> QED BY <1>1, <1>2 DEF WillMerge, TaskType

\* A write that starts the goroutine r in the free place, or none: every other
\* property keeps its reader, and so has e, if r reads it.
LEMMA WriteReader ==
  ASSUME IndInv, cmd.pc # "idle", NEW e \in EPCs, NEW part, dirty' = [dirty EXCEPT ![e] = part],
         NEW r \in TaskType \cup {NoTask},
         task' = [Overtaken(e) EXCEPT ![count] = r],
         part = "main" => r.kind # "none" /\ e \in r.epcs /\ r.pc = "sleep",
         UNCHANGED <<alive, fails, count>>
  PROVE  WritesHaveReader'
<1> USE DEF IndInv, HonestInv
<1>1. /\ count \in Tasks /\ task[count] = NoTask
      /\ Overtaken(e) \in [Tasks -> TaskType \cup {NoTask}]
  BY OvertakenEffect DEF TaskIsFree
<1> SUFFICES ASSUME alive, fails = 0, NEW x \in Readable, dirty'[x] = "main"
             PROVE  \E t \in Tasks : WillMerge(t, x)'
  BY DEF WritesHaveReader
<1>2. CASE x = e
  <2>1. part = "main"
    BY <1>2 DEF TypeOK
  <2>2. task'[count] = r
    BY <1>1
  <2>3. WillMerge(count, x)'
    BY <1>2, <2>1, <2>2 DEF WillMerge
  <2> QED BY <1>1, <2>3
<1>3. CASE x # e
  <2>1. x \in EPCs /\ dirty[x] = "main"
    BY <1>3, MapsAssumption DEF TypeOK
  <2>2. PICK t \in Tasks : WillMerge(t, x)
    BY <2>1 DEF WritesHaveReader
  <2>3. t # count
    BY <1>1, <2>2 DEF WillMerge, NoTask
  <2>4. task'[t] = Overtaken(e)[t]
    BY <1>1, <2>3
  <2>5. WillMerge(t, x)'
    BY <1>3, <2>2, <2>4, OvertakenMerges DEF WillMerge
  <2> QED BY <2>5
<1> QED BY <1>2, <1>3

\* The place is still free after a write that starts nobody.
LEMMA WriteFree ==
  ASSUME IndInv, cmd.pc # "idle", NEW e, NEW r,
         \/ task' = Overtaken(e)
         \/ task' = [Overtaken(e) EXCEPT ![count] = r] /\ cmd'.pc = "idle",
         count' = count
  PROVE  TaskIsFree'
<1> USE DEF IndInv, HonestInv
<1>1. /\ count \in Tasks /\ task[count] = NoTask
      /\ \A t \in Tasks : t > count => task[t] = NoTask
  BY DEF TaskIsFree
<1>2. Overtaken(e)[count] = NoTask /\ \A t \in Tasks : t > count => Overtaken(e)[t] = NoTask
  BY <1>1 DEF Overtaken, NoTask
<1>3. Overtaken(e) = [t \in Tasks |-> Overtaken(e)[t]]
  BY DEF Overtaken
<1>4. count \in Int /\ Tasks \subseteq Int
  BY BoundsAssumption DEF TypeOK, Tasks
<1>5. \A t \in Tasks : t > count => task'[t] = NoTask
  BY <1>2, <1>3, <1>4
<1> QED BY <1>1, <1>2, <1>5 DEF TaskIsFree

\* A write that starts nobody, as one that starts nobody in the free place.
LEMMA NobodyStarted ==
  ASSUME IndInv, cmd.pc # "idle", NEW e, task' = Overtaken(e)
  PROVE  task' = [Overtaken(e) EXCEPT ![count] = NoTask]
<1>1. count \in Tasks /\ Overtaken(e)[count] = NoTask
  BY DEF IndInv, TaskIsFree, Overtaken, NoTask
<1>2. Overtaken(e) = [t \in Tasks |-> Overtaken(e)[t]]
  BY DEF Overtaken
<1> QED BY <1>1, <1>2

\* The writes of a command.
LEMMA CommandReader ==
  ASSUME IndInv, NEW ok \in BOOLEAN, PreSet(ok) \/ MainSet(ok) \/ MainSetI(ok)
  PROVE  TaskIsFree' /\ WritesHaveReader'
<1> USE DEF IndInv
<1>0. HonestInv /\ NoTask \in TaskType \cup {NoTask}
  OBVIOUS
<1>1. CASE PreSet(ok)
  <2>1. /\ cmd.pc = "pre" /\ UNCHANGED <<alive, fails, count>>
        /\ dirty' = [dirty EXCEPT ![cmd.h.pre] = "pre"]
    BY <1>1 DEF PreSet, SendSet
  <2>2. cmd.h.pre \in EPCs
    BY <2>1, RunningCmd
  <2>3. CASE task' = Overtaken(cmd.h.pre)
    BY <2>1, <2>2, <2>3, <1>0, NobodyStarted, WriteReader, WriteFree
  <2>4. CASE triggerStateUpdate(cmd.h.pre, {cmd.h.pre}) /\ cmd'.pc = "idle"
    <3>1. Reread({cmd.h.pre}) \in TaskType
      BY <2>2, NewTask, EmptyPartial
    <3> QED BY <2>1, <2>2, <2>4, <3>1, WriteReader, WriteFree DEF triggerStateUpdate
  <2> QED BY <1>1, <2>3, <2>4 DEF PreSet, Idle
<1>2. CASE MainSet(ok)
  <2>1. /\ cmd.pc = "main" /\ UNCHANGED <<alive, fails, count>> /\ cmd'.pc = "idle"
        /\ dirty' = [dirty EXCEPT ![cmd.h.main] = "main"]
    BY <1>2 DEF MainSet, SendSet, Idle
  <2>2. /\ cmd.h.main \in EPCs /\ cmd.h.reread \in SUBSET EPCs
        /\ cmd.h.main \in cmd.h.reread
    BY <2>1, RunningCmd, RereadAssumption
  <2>3. CASE verifyStateUpdate(cmd.h.main, Wanted)
    <3>1. Verify(Wanted) \in TaskType
      BY <2>1, NewTask, WantedType
    <3>2. /\ Verify(Wanted).kind # "none" /\ Verify(Wanted).pc = "sleep"
          /\ Verify(Wanted).epcs = DOMAIN Wanted
      BY DEF Verify
    <3>3. cmd.h.main # "none" => cmd.h.main \in DOMAIN Wanted
      BY DEF Wanted
    <3> QED BY <2>1, <2>2, <2>3, <3>1, <3>2, <3>3, NoneAssumption, WriteReader, WriteFree
            DEF verifyStateUpdate
  <2>4. CASE triggerStateUpdate(cmd.h.main, cmd.h.reread)
    <3>1. Reread(cmd.h.reread) \in TaskType
      BY <2>2, NewTask, EmptyPartial
    <3>2. /\ Reread(cmd.h.reread).kind # "none" /\ Reread(cmd.h.reread).pc = "sleep"
          /\ Reread(cmd.h.reread).epcs = cmd.h.reread
      BY DEF Reread
    <3> QED BY <2>1, <2>2, <2>4, <3>1, <3>2, WriteReader, WriteFree DEF triggerStateUpdate
  <2> QED BY <1>2, <2>3, <2>4 DEF MainSet
<1>3. CASE MainSetI(ok)
  <2>1. /\ cmd.pc = "main" /\ UNCHANGED <<alive, fails, count>> /\ cmd'.pc = "idle"
    BY <1>3 DEF MainSetI, Idle
  <2>2. cmd.h.main \in EPCs
    BY <2>1, RunningCmd
  <2>3. CASE dirty' = [dirty EXCEPT ![cmd.h.main] = "fire"] /\ task' = Overtaken(cmd.h.main)
    <3>1. task' = [Overtaken(cmd.h.main) EXCEPT ![count] = NoTask]
      BY <2>1, <2>3, NobodyStarted
    <3>2. WritesHaveReader'
      BY <2>1, <2>2, <2>3, <3>1, <1>0, WriteReader, ZenonT(60)
    <3>3. TaskIsFree'
      BY <2>1, <2>3, WriteFree
    <3> QED BY <3>2, <3>3
  <2>4. CASE UNCHANGED <<dirty, task>>
    <3>1. TaskIsFree' BY <2>1, <2>4 DEF TaskIsFree
    <3>2. WritesHaveReader' BY <2>1, <2>4 DEF WritesHaveReader, WillMerge
    <3> QED BY <3>1, <3>2
  <2> QED BY <1>3, <2>3, <2>4 DEF MainSetI, SendSet
<1> QED BY <1>1, <1>2, <1>3

\* A goroutine's step, or a device's, that leaves what is written alone: the
\* readers of the properties stay, unless a read has failed.
LEMMA StepReader ==
  ASSUME IndInv, NEW t \in Tasks, TaskStep(t) \/ ReadFails(t)
  PROVE  TaskIsFree' /\ WritesHaveReader'
<1> USE DEF IndInv, HonestInv
<1>1. /\ task[t].kind # "none" /\ task[t] \in TaskType
      /\ UNCHANGED <<cmd, count, alive>>
  BY RunningTask DEF TaskStep, ReadFails, ReadBack, Unreadable, Merge, Cancelled, Asleep
<1>2. PICK r : task' = [task EXCEPT ![t] = r]
  BY DEF TaskStep, ReadFails, ReadBack, Unreadable, Merge, Cancelled
<1>3. task'[t] = r /\ \A u \in Tasks \ {t} : task'[u] = task[u]
  BY <1>2 DEF TypeOK
<1>4. TaskIsFree'
  <2>1. task[t] # NoTask
    BY <1>1 DEF NoTask
  <2> QED BY <1>1, <1>3, <2>1 DEF TaskIsFree
<1>5. \A u \in Tasks \ {t}, e \in Readable : WillMerge(u, e) => WillMerge(u, e)'
  BY <1>3 DEF WillMerge
<1>6. ASSUME alive, fails' = 0, NEW e \in Readable, dirty'[e] = "main"
      PROVE  \E u \in Tasks : WillMerge(u, e)'
  <2>1. e \in EPCs /\ dirty[e] = "main" /\ fails = 0
    <3>1. e \in EPCs /\ fails \in Nat
      BY MapsAssumption, BoundsAssumption DEF TypeOK
    <3>2. CASE Merge(t)
      BY <1>6, <3>1, <3>2 DEF Merge
    <3>3. CASE ReadFails(t)
      BY <1>6, <3>1, <3>3 DEF ReadFails
    <3>4. CASE ReadBack(t) \/ Unreadable(t) \/ Cancelled(t)
      BY <1>6, <3>1, <3>4 DEF ReadBack, Unreadable, Cancelled
    <3> QED BY <3>2, <3>3, <3>4 DEF TaskStep
  <2>2. PICK u \in Tasks : WillMerge(u, e)
    BY <1>6, <2>1 DEF WritesHaveReader
  <2>3. CASE u # t
    BY <1>5, <2>2, <2>3
  <2>4. CASE u = t
    <3>1. e \in task[t].epcs /\ (task[t].pc = "sleep" \/ e \in task[t].since)
      BY <2>2, <2>4 DEF WillMerge
    <3>2. ~Merge(t)
      <4> SUFFICES ASSUME Merge(t) PROVE FALSE
        OBVIOUS
      <4>1. task[t].pc = "merge" /\ e \notin task[t].since
        BY <1>6, <2>1 DEF Merge
      <4> QED BY <3>1, <4>1
    <3>3. Asleep(t) /\ ReadBack(t)
      <4>1. e \in DOMAIN GetProps(task[t].epcs)
        BY <1>6, <3>1 DEF GetProps, Restrict
      <4>2. ~Unreadable(t)
        BY <4>1 DEF Unreadable
      <4>3. ~Cancelled(t)
        BY <1>6 DEF Cancelled
      <4>4. ~ReadFails(t)
        BY <1>6, <2>1 DEF ReadFails
      <4> QED BY <3>2, <4>2, <4>3, <4>4 DEF TaskStep, ReadBack
    <3> DEFINE got == GetProps(task[t].epcs)
    <3>4. e \in DOMAIN got
      BY <1>6, <3>1 DEF GetProps, Restrict
    <3>5. CASE r = [task[t] EXCEPT !.pc = "merge", !.got = got, !.since = DOMAIN got]
      <4> HIDE DEF got
      <4>1. r.kind = task[t].kind /\ r.epcs = task[t].epcs /\ r.since = DOMAIN got
        BY <1>1, <3>5 DEF TaskType
      <4>2. WillMerge(t, e)'
        BY <1>1, <1>3, <3>1, <3>4, <4>1 DEF WillMerge
      <4> QED BY <4>2
    <3>6. CASE r = [task[t] EXCEPT !.attempt = @ + 1]
      <4>1. r.kind = task[t].kind /\ r.epcs = task[t].epcs /\ r.pc = "sleep"
        BY <1>1, <3>3, <3>6 DEF TaskType, Asleep
      <4>2. WillMerge(t, e)'
        BY <1>1, <1>3, <3>1, <4>1 DEF WillMerge
      <4> QED BY <4>2
    <3>7. task'[t] = [task[t] EXCEPT !.pc = "merge", !.got = got, !.since = DOMAIN got]
          \/ task'[t] = [task[t] EXCEPT !.attempt = @ + 1]
      BY <3>3 DEF ReadBack, Again, TypeOK
    <3> QED BY <1>3, <3>5, <3>6, <3>7
  <2> QED BY <2>3, <2>4
<1> QED BY <1>1, <1>4, <1>6 DEF WritesHaveReader

\* Every step keeps a reader for every write.
LEMMA NextReader == IndInv /\ [Next]_vars => TaskIsFree' /\ WritesHaveReader'
<1> SUFFICES ASSUME IndInv, [Next]_vars PROVE TaskIsFree' /\ WritesHaveReader'
  OBVIOUS
<1>1. ASSUME NEW h \in Handlers, NEW v \in Payloads, Receive(h, v)
      PROVE  TaskIsFree' /\ WritesHaveReader'
  <2>1. count' = count + 1 /\ count < MaxCommands /\ count \in 0..MaxCommands
    BY <1>1 DEF Receive, IndInv, HonestInv, TypeOK
  <2>2. UNCHANGED <<task, alive, fails, dirty>>
    BY <1>1 DEF Receive
  <2>3. count' \in Tasks /\ \A t \in Tasks : t >= count' => task'[t] = NoTask
    BY <2>1, <2>2, BoundsAssumption DEF IndInv, TaskIsFree, Tasks
  <2>4. \A t \in Tasks : t > count' => t >= count'
    BY <2>1, BoundsAssumption DEF Tasks
  <2>5. TaskIsFree'
    BY <2>1, <2>3, <2>4 DEF TaskIsFree
  <2>6. WritesHaveReader'
    BY <2>2 DEF IndInv, WritesHaveReader, WillMerge
  <2> QED BY <2>5, <2>6
<1>2. CASE MapLearned \/ Shutdown \/ UNCHANGED vars \/ \E e \in EPCs : Settle(e)
  <2>1. UNCHANGED <<cmd, count, task, fails, dirty>> /\ (alive' => alive)
    BY <1>2 DEF MapLearned, Shutdown, vars, Settle
  <2>2. TaskIsFree'
    BY <2>1 DEF IndInv, TaskIsFree
  <2>3. WritesHaveReader'
    BY <2>1 DEF IndInv, WritesHaveReader, WillMerge
  <2> QED BY <2>2, <2>3
<1> QED BY <1>1, <1>2, CommandReader, StepReader DEF Next, Command

-----------------------------------------------------------------------------
\* What goroutines merge was read, and is what was asked for where it must be, and
\* every write has its reader, in every reachable state.
THEOREM CommanderInvariance == Spec => []IndInv
<1>1. Init => IndInv
  BY InitHonest, InitReader DEF IndInv
<1>2. IndInv /\ [Next]_vars => IndInv'
  BY NextHonest, NextReader DEF IndInv
<1> QED BY <1>1, <1>2, PTL DEF Spec

\* Every variable of the commander and the device keeps its type.
THEOREM CommanderTypeCorrect == Spec => []TypeOK
<1>1. IndInv => TypeOK BY DEF IndInv, HonestInv
<1> QED BY <1>1, CommanderInvariance, PTL

\* Whatever commands ask for, and however their goroutines overlap, the cache
\* holds only values that the device's registers have really had.
THEOREM NoOptimisticLiesAlways == Spec => []NoOptimisticLies
<1>1. IndInv => NoOptimisticLies BY DEF IndInv, HonestInv
<1> QED BY <1>1, CommanderInvariance, PTL

\* The safety half of WritesAreReread: no command and no goroutine, however they
\* overlap, leaves a value written by SetC without a goroutine that publishes it.
THEOREM WritesHaveReaderAlways == Spec => []WritesHaveReader
<1>1. IndInv => WritesHaveReader BY DEF IndInv
<1> QED BY <1>1, CommanderInvariance, PTL

\* While a verification has attempts left and no other goroutine is about, no
\* step moves the cached value away from the one asked for.
THEOREM NoBounceAlways == Spec => NoBounce
<1> DEFINE Steady ==
      \A t \in Tasks, e \in EPCs :
        /\ Verifying(t, e) /\ ~LastAttempt(t)
        /\ \A u \in Tasks \ {t} : task[u] = NoTask
        /\ cache'[e] # cache[e]
        => cache'[e] = task[t].want[e]
<1>1. IndInv /\ [Next]_vars => [Steady]_vars
  <2> SUFFICES ASSUME IndInv, Next, NEW t \in Tasks, NEW e \in EPCs,
                      Verifying(t, e), ~LastAttempt(t),
                      \A u \in Tasks \ {t} : task[u] = NoTask,
                      cache'[e] # cache[e]
               PROVE  cache'[e] = task[t].want[e]
    OBVIOUS
  <2>1. PICK u \in Tasks : Merge(u)
    BY DEF Next, Command, TaskStep, Receive, PreSet, MainSet, MainSetI, ReadBack, Unreadable,
           Cancelled, ReadFails, Settle, MapLearned, Shutdown
  <2>2. u = t /\ task[t].pc = "merge"
    BY <2>1 DEF Merge, NoTask
  <2>3. allMatched(task[t].got, task[t].want)
    BY <2>2 DEF IndInv, HonestInv, ReadsAreReal, Verifying
  <2>4. cache' = [x \in EPCs |-> IF x \in DOMAIN task[t].got THEN task[t].got[x] ELSE cache[x]]
    BY <2>1, <2>2 DEF Merge, mergePropsToCache
  <2> QED BY <2>3, <2>4 DEF allMatched, Verifying
<1> QED BY <1>1, CommanderInvariance, PTL DEF Spec, NoBounce
=============================================================================
