------------------------------ MODULE CacheSync ------------------------------
(***************************************************************************)
(* How the cached metrics of one device follow its registers: the scrapers *)
(* of its groups (scrapeOnce, internal/poller/scheduler.go), the           *)
(* notification handler (internal/echonet/notification.go and              *)
(* Cache.IngestNotification) and the reads that follow a command           *)
(* (readAndMergeProps, internal/mqtt/commander.go).  Each of them reads    *)
(* the device and merges into the cache in separate critical sections.     *)
(*                                                                         *)
(* Time passes in scrape ticks.  At the second tick after an INF push less *)
(* than freshness = 2 * interval has passed, so two polls are skipped; the *)
(* status of a group expires in the course of the second tick after it was *)
(* written, here as that tick begins.                                      *)
(***************************************************************************)
EXTENDS Integers, SequencesExt

CONSTANTS
  EPCs, Groups, Values,
  Nil,           \* no EPC, no multiplier, no usable data
  Metrics,       \* per group: the EPCs of its metrics, in specification order
  Mult,          \* per EPC: its multiplier EPC, or Nil
  Statmap,       \* EPCs the device says it announces
  ForcePolling,
  InfCap,        \* capacity of the notification channel (bound)
  MaxChanges, MaxPushes, MaxFails, MaxReads   \* bounds on the environment

ASSUME NilAssumption == Nil \notin EPCs /\ Nil \notin Values
ASSUME SpecAssumption == /\ Metrics \in [Groups -> Seq(EPCs) \ {<<>>}]
                         /\ Mult \in [EPCs -> EPCs \cup {Nil}]
                         /\ Statmap \subseteq EPCs /\ ForcePolling \in BOOLEAN
ASSUME BoundsAssumption == /\ InfCap \in Nat
                           /\ MaxChanges \in Nat /\ MaxPushes \in Nat
                           /\ MaxFails \in Nat /\ MaxReads \in Nat

Fresh == 2         \* freshness and status life time, in ticks
Stale == Fresh + 1 \* the age of a push that is not fresh, or never was

VARIABLES
  dev,      \* the device's registers
  cache,    \* Cache.metrics of the device
  pushAge,  \* per group and EPC: ticks since RecordPush, up to Stale
  status,   \* per group: "none", "ok" or "failed" (groupStatus.success)
  age,      \* per group: ticks since its status was written, up to Fresh
  infs,     \* frames in the notification channel
  handler,  \* what IngestNotification is about to merge
  scraper,  \* per group: where scrapeOnce is
  reader,   \* what readAndMergeProps is about to merge
  budget    \* what is left of the bounds

vars == <<dev, cache, pushAge, status, age, infs, handler, scraper, reader, budget>>

Unknown == [val |-> Nil, mul |-> Nil]
\* scrapeOnce: the index of the next metric, the EPCs seen, skipped and asked
\* for so far, and the answer.
Idle == [pc |-> "idle", next |-> 1, seen |-> {}, skipped |-> {}, ask |-> {}, got |-> <<>>]
Spend(what) == budget[what] > 0 /\ budget' = [budget EXCEPT ![what] = @ - 1]

Init ==
  /\ dev \in [EPCs -> Values]
  /\ cache = [e \in EPCs |-> Unknown]
  /\ pushAge = [g \in Groups |-> [e \in EPCs |-> Stale]]
  /\ status = [g \in Groups |-> "none"]
  /\ age = [g \in Groups |-> Fresh]
  /\ infs = <<>> /\ handler = <<>> /\ reader = <<>>
  /\ scraper = [g \in Groups |-> Idle]
  /\ budget = [change |-> MaxChanges, push |-> MaxPushes, fail |-> MaxFails, read |-> MaxReads]

-----------------------------------------------------------------------------
(* Parsing and merging.  A response or a frame maps EPCs to values; Nil is *)
(* a property without data, or with data the specification calls invalid.  *)

\* Keeps properties without data.
ParseUnchecked(props, want) ==
  [e \in want \cap DOMAIN props |->
     [val |-> props[e], mul |-> IF Mult[e] \in DOMAIN props THEN props[Mult[e]] ELSE Nil]]

\* A metric whose multiplier is missing is kept, unscaled.
ParsePropsToMetrics(props, want) ==
  [e \in {e \in want \cap DOMAIN props : props[e] # Nil} |->
     [val |-> props[e], mul |-> IF Mult[e] \in DOMAIN props THEN props[Mult[e]] ELSE Nil]]

MergeMetrics(metrics) ==
  cache' = [e \in EPCs |-> IF e \in DOMAIN metrics THEN metrics[e] ELSE cache[e]]

-----------------------------------------------------------------------------
(* scrapeOnce                                                              *)

\* Trusts the device to announce everything in its STATMAP.
SkipWhenKnown(g, e) == ~ForcePolling /\ e \in Statmap /\ cache[e] # Unknown

ShouldSkipPoll(g, e) == ~ForcePolling /\ e \in Statmap /\ pushAge[g][e] <= Fresh

\* Looks for skipped EPCs in the answer all the same.
ForgetSkipped(g, acc, e) ==
  LET dup == e \in acc.seen
      skip == ~dup /\ ShouldSkipPoll(g, e)
      seen == acc.seen \cup {e}
      mul == {Mult[e]} \ ({Nil} \cup seen)
  IN IF skip THEN [acc EXCEPT !.seen = seen]
     ELSE [acc EXCEPT !.seen = seen \cup mul,
                      !.ask = @ \cup mul \cup IF dup THEN {} ELSE {e}]

\* One metric of the loop: a duplicate EPC is not looked at again, but its
\* multiplier is; a multiplier is requested unless its EPC was seen, skipped
\* or not.
AddMetric(g, acc, e) ==
  LET dup == e \in acc.seen
      skip == ~dup /\ ShouldSkipPoll(g, e)
      seen == acc.seen \cup {e}
      mul == {Mult[e]} \ ({Nil} \cup seen)
  IN IF skip THEN [acc EXCEPT !.seen = seen, !.skipped = @ \cup {e}]
     ELSE [acc EXCEPT !.seen = seen \cup mul,
                      !.ask = @ \cup mul \cup IF dup THEN {} ELSE {e}]

\* A tick of group g.
ScrapeStart(g) ==
  /\ scraper[g].pc = "idle"
  /\ scraper' = [scraper EXCEPT ![g].pc = "loop"]
  /\ pushAge' = [pushAge EXCEPT ![g] = [e \in EPCs |-> IF @[e] < Stale THEN @[e] + 1 ELSE Stale]]
  /\ age' = [age EXCEPT ![g] = IF @ < Fresh THEN @ + 1 ELSE Fresh]
  /\ UNCHANGED <<dev, cache, status, infs, handler, reader, budget>>

\* An iteration of the loop; ShouldSkipPoll takes the cache's lock in each.
\* Nothing is asked, and no status written, when everything is skipped.
ScrapeLoop(g) ==
  /\ scraper[g].pc = "loop"
  /\ LET r == AddMetric(g, scraper[g], Metrics[g][scraper[g].next]) IN
       scraper' = [scraper EXCEPT ![g] =
         IF r.next < Len(Metrics[g]) THEN [r EXCEPT !.next = @ + 1]
         ELSE IF r.ask = {} THEN Idle ELSE [r EXCEPT !.pc = "ask"]]
  /\ UNCHANGED <<dev, cache, pushAge, status, age, infs, handler, reader, budget>>

\* The EPCs of polledMetrics.
Polled(g) == ToSet(Metrics[g]) \ scraper[g].skipped

\* GetProps, under the host lock.
ScrapeRead(g) ==
  /\ scraper[g].pc = "ask"
  /\ scraper' = [scraper EXCEPT ![g].pc = "merge", ![g].got = [e \in scraper[g].ask |-> dev[e]]]
  /\ UNCHANGED <<dev, cache, pushAge, status, age, infs, handler, reader, budget>>

ScrapeFails(g) ==
  /\ scraper[g].pc = "ask"
  /\ Spend("fail")
  /\ status' = [status EXCEPT ![g] = "failed"]
  /\ age' = [age EXCEPT ![g] = 0]
  /\ scraper' = [scraper EXCEPT ![g] = Idle]
  /\ UNCHANGED <<dev, cache, pushAge, infs, handler, reader>>

\* Cache.Update, after the lock has been released.
ScrapeMerge(g) ==
  /\ scraper[g].pc = "merge"
  /\ MergeMetrics(ParsePropsToMetrics(scraper[g].got, Polled(g)))
  /\ status' = [status EXCEPT ![g] = "ok"]
  /\ age' = [age EXCEPT ![g] = 0]
  /\ scraper' = [scraper EXCEPT ![g] = Idle]
  /\ UNCHANGED <<dev, pushAge, infs, handler, reader, budget>>

ScrapeStep(g) == ScrapeStart(g) \/ ScrapeLoop(g) \/ ScrapeRead(g) \/ ScrapeMerge(g)

\* Cache.Get: some group succeeded and its status is recent.
Success == \E g \in Groups : status[g] = "ok" /\ age[g] < Fresh

-----------------------------------------------------------------------------
(* Notifications                                                           *)

\* IngestNotification records the push of every property of the frame ...
Ingest ==
  /\ infs # <<>> /\ handler = <<>>
  /\ infs' = Tail(infs)
  /\ LET props == Head(infs) IN
       /\ pushAge' = [g \in Groups |-> [e \in EPCs |->
                        IF e \in DOMAIN props THEN 0 ELSE pushAge[g][e]]]
       /\ handler' = ParsePropsToMetrics(props, DOMAIN props)
  /\ UNCHANGED <<dev, cache, status, age, scraper, reader, budget>>

\* ... and then merges what could be parsed.
IngestMerge ==
  /\ handler # <<>>
  /\ MergeMetrics(handler)
  /\ handler' = <<>>
  /\ UNCHANGED <<dev, pushAge, status, age, infs, scraper, reader, budget>>

-----------------------------------------------------------------------------
(* Reads after commands                                                    *)

ReadProps(S) ==
  /\ reader = <<>>
  /\ Spend("read")
  /\ reader' = ParsePropsToMetrics([e \in S |-> dev[e]], S)
  /\ UNCHANGED <<dev, cache, pushAge, status, age, infs, handler, scraper>>

ReadMerge ==
  /\ reader # <<>>
  /\ MergeMetrics(reader)
  /\ reader' = <<>>
  /\ UNCHANGED <<dev, pushAge, status, age, infs, handler, scraper, budget>>

-----------------------------------------------------------------------------
(* The device                                                              *)

Change(e, v) ==
  /\ Spend("change")
  /\ dev[e] # v
  /\ dev' = [dev EXCEPT ![e] = v]
  /\ UNCHANGED <<cache, pushAge, status, age, infs, handler, scraper, reader>>

\* The device announces S: with its values, or (INF_SNA, or an invalid
\* sentinel) without usable ones.  A full channel drops the frame; so does the
\* network.
Push(S, usable) ==
  /\ Spend("push")
  /\ infs' \in {infs} \cup
       IF Len(infs) < InfCap
       THEN {Append(infs, [e \in S |-> IF usable THEN dev[e] ELSE Nil])} ELSE {}
  /\ UNCHANGED <<dev, cache, pushAge, status, age, handler, scraper, reader>>

-----------------------------------------------------------------------------
Next ==
  \/ \E g \in Groups : ScrapeStep(g) \/ ScrapeFails(g)
  \/ Ingest \/ IngestMerge \/ ReadMerge
  \/ \E S \in (SUBSET EPCs) \ {{}} : ReadProps(S) \/ \E usable \in BOOLEAN : Push(S, usable)
  \/ \E e \in EPCs, v \in Values : Change(e, v)

Spec == Init /\ [][Next]_vars

\* Tickers tick and goroutines run; the device owes nothing.
FairSpec == /\ Spec
            /\ \A g \in Groups : WF_vars(ScrapeStep(g))
            /\ WF_vars(Ingest) /\ WF_vars(IngestMerge) /\ WF_vars(ReadMerge)

-----------------------------------------------------------------------------
(* Properties                                                              *)

Cached == [val : Values, mul : Values \cup {Nil}]
Partial(T) == UNION {[S -> T] : S \in SUBSET EPCs}
ScraperType == [pc : {"idle", "loop", "ask", "merge"}, next : Nat \ {0}, seen : SUBSET EPCs,
                skipped : SUBSET EPCs, ask : SUBSET EPCs, got : Partial(Values)]

TypeOK ==
  /\ dev \in [EPCs -> Values]
  /\ cache \in [EPCs -> Cached \cup {Unknown}]
  /\ pushAge \in [Groups -> [EPCs -> 0..Stale]]
  /\ status \in [Groups -> {"none", "ok", "failed"}]
  /\ age \in [Groups -> 0..Fresh]
  /\ infs \in Seq(Partial(Values \cup {Nil})) /\ Len(infs) <= InfCap
  /\ handler \in Partial(Cached) /\ reader \in Partial(Cached)
  /\ scraper \in [Groups -> ScraperType]
  /\ budget \in [{"change", "push", "fail", "read"} -> Nat]

\* scrapeOnce asks for the EPC of every metric it will look for in the answer,
\* whatever duplicates, multipliers and skipped EPCs the group has, and whatever
\* pushes arrive while it loops over them.
PolledAreRequested ==
  \A g \in Groups : scraper[g].pc \in {"ask", "merge"} =>
    /\ Polled(g) \subseteq scraper[g].ask
    /\ scraper[g].pc = "merge" => scraper[g].ask \subseteq DOMAIN scraper[g].got

\* Why: in the loop, the metrics gone through have been seen, and what was seen
\* is asked for or skipped.
LoopInv ==
  \A g \in Groups :
    /\ scraper[g].pc = "idle" => scraper[g] = Idle
    /\ scraper[g].pc = "loop" =>
         /\ scraper[g].next \in 1..Len(Metrics[g])
         /\ \A i \in 1..(scraper[g].next - 1) : Metrics[g][i] \in scraper[g].seen
         /\ scraper[g].seen = scraper[g].ask \cup scraper[g].skipped

\* The inductive invariant behind PolledAreRequested.
IndInv == TypeOK /\ LoopInv /\ PolledAreRequested

What(e) == [val |-> dev[e], mul |-> IF Mult[e] = Nil THEN Nil ELSE dev[Mult[e]]]

\* The "verification fallback" of the poll optimisation: once the device stops
\* changing and announcing, the cache ends up with its values, scaled by their
\* units, however reads, notifications (lost, late, without data or without
\* the unit) and merges were interleaved.
CacheConverges == <>[](\A e \in EPCs : cache[e] = What(e))

\* "1 if the last scrape of this device succeeded": a device that answers and
\* has nothing to announce is reported as such for good, though a failed scrape
\* or polls suppressed by pushes have let its status lapse.
SuccessReturns == <>[]Success
=============================================================================
