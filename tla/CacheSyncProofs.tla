--------------------------- MODULE CacheSyncProofs ---------------------------
(***************************************************************************)
(* The loop of scrapeOnce, for every specification (groups, metrics,       *)
(* multipliers) and however pushes interleave with it: every metric that   *)
(* is looked for in the answer was asked for.                              *)
(***************************************************************************)
EXTENDS CacheSync, TLAPS

USE DEF Fresh, Stale

\* A function from some of the EPCs into T is a Partial(T), and conversely.
LEMMA PartialIntro ==
  ASSUME NEW T, NEW S \in SUBSET EPCs, NEW f \in [S -> T]
  PROVE  f \in Partial(T)
BY DEF Partial

\* What a function on some of the EPCs is.
LEMMA PartialElim ==
  ASSUME NEW T, NEW f \in Partial(T)
  PROVE  DOMAIN f \in SUBSET EPCs /\ f \in [DOMAIN f -> T]
BY DEF Partial

\* The empty cache is one.
LEMMA EmptyPartial ==
  ASSUME NEW T
  PROVE  <<>> \in Partial(T)
<1>1. <<>> \in [{} -> T]
  OBVIOUS
<1> QED BY <1>1, PartialIntro

\* What ParsePropsToMetrics makes of an answer is fit for the cache: a value that
\* is usable, and a multiplier or none.
LEMMA ParsedIsCached ==
  ASSUME NEW props \in Partial(Values \cup {Nil}), NEW want
  PROVE  ParsePropsToMetrics(props, want) \in Partial(Cached)
<1> DEFINE S == {e \in want \cap DOMAIN props : props[e] # Nil}
           M(e) == [val |-> props[e],
                    mul |-> IF Mult[e] \in DOMAIN props THEN props[Mult[e]] ELSE Nil]
<1>1. DOMAIN props \in SUBSET EPCs /\ props \in [DOMAIN props -> Values \cup {Nil}]
  BY PartialElim
<1>2. S \in SUBSET EPCs
  BY <1>1
<1>3. \A e \in S : M(e) \in Cached
  BY <1>1 DEF Cached
<1>4. ParsePropsToMetrics(props, want) = [e \in S |-> M(e)]
  BY DEF ParsePropsToMetrics
<1> HIDE DEF S, M
<1>5. [e \in S |-> M(e)] \in [S -> Cached]
  BY <1>3
<1> QED BY <1>2, <1>4, <1>5, PartialIntro

\* Usable values are values.
LEMMA ValuesPartial ==
  ASSUME NEW f \in Partial(Values)
  PROVE  f \in Partial(Values \cup {Nil})
BY PartialElim, PartialIntro

\* MergeMetrics keeps the type of the cache.
LEMMA MergedType ==
  ASSUME TypeOK, NEW f \in Partial(Cached), MergeMetrics(f)
  PROVE  cache' \in [EPCs -> Cached \cup {Unknown}]
BY PartialElim DEF TypeOK, MergeMetrics

\* A scraper between two ticks.
LEMMA IdleType == Idle \in ScraperType
BY EmptyPartial DEF Idle, ScraperType

\* Before the first tick nobody scrapes.
LEMMA InitInv == Init => IndInv
<1> SUFFICES ASSUME Init PROVE IndInv
  OBVIOUS
<1> USE BoundsAssumption DEF Init
<1>1. /\ pushAge \in [Groups -> [EPCs -> 0..Stale]] /\ age \in [Groups -> 0..Fresh]
      /\ budget \in [{"change", "push", "fail", "read"} -> Nat]
  OBVIOUS
<1>2. /\ dev \in [EPCs -> Values] /\ cache \in [EPCs -> Cached \cup {Unknown}]
      /\ status \in [Groups -> {"none", "ok", "failed"}]
  OBVIOUS
<1>3. handler \in Partial(Cached) /\ reader \in Partial(Cached)
  BY EmptyPartial
<1>4. infs \in Seq(Partial(Values \cup {Nil})) /\ Len(infs) <= InfCap
  OBVIOUS
<1>5. Idle \in ScraperType
  BY IdleType
<1>6. TypeOK
  BY <1>1, <1>2, <1>3, <1>4, <1>5 DEF TypeOK
<1>7. LoopInv /\ PolledAreRequested
  BY DEF LoopInv, PolledAreRequested, Idle
<1> QED BY <1>6, <1>7 DEF IndInv
\* An iteration of the loop: the EPC of the metric has been seen, and whatever
\* has been seen is asked for or skipped.
LEMMA AddMetricEffect ==
  ASSUME NEW g \in Groups, NEW acc \in ScraperType, NEW e \in EPCs,
         acc.seen = acc.ask \cup acc.skipped
  PROVE  LET r == AddMetric(g, acc, e)
         IN /\ r \in ScraperType
            /\ r.pc = acc.pc /\ r.next = acc.next /\ r.got = acc.got
            /\ r.seen = r.ask \cup r.skipped
            /\ e \in r.seen /\ acc.seen \subseteq r.seen
<1> DEFINE dup == e \in acc.seen
           seen == acc.seen \cup {e}
           mul == {Mult[e]} \ ({Nil} \cup seen)
           skipping == [acc EXCEPT !.seen = seen, !.skipped = @ \cup {e}]
           asking == [acc EXCEPT !.seen = seen \cup mul,
                                 !.ask = @ \cup mul \cup IF dup THEN {} ELSE {e}]
<1>1. seen \in SUBSET EPCs /\ mul \in SUBSET EPCs
  BY SpecAssumption DEF ScraperType
<1>2. AddMetric(g, acc, e) = skipping \/ AddMetric(g, acc, e) = asking
  BY DEF AddMetric
<1>3. CASE AddMetric(g, acc, e) = skipping
  <2> HIDE DEF mul
  <2>1. /\ skipping \in ScraperType /\ skipping.pc = acc.pc /\ skipping.next = acc.next
        /\ skipping.got = acc.got /\ skipping.ask = acc.ask
        /\ skipping.seen = seen /\ skipping.skipped = acc.skipped \cup {e}
    BY <1>1 DEF ScraperType
  <2> HIDE DEF skipping
  <2> QED BY <1>3, <2>1
<1>4. CASE AddMetric(g, acc, e) = asking
  <2> DEFINE more == mul \cup IF dup THEN {} ELSE {e}
  <2>1. more \in SUBSET EPCs /\ seen \cup mul \in SUBSET EPCs
    BY <1>1
  <2>2. seen \cup mul = acc.ask \cup more \cup acc.skipped
    OBVIOUS
  <2>3. asking = [acc EXCEPT !.seen = seen \cup mul, !.ask = acc.ask \cup more]
    BY DEF ScraperType
  <2> HIDE DEF more, mul, asking
  <2>4. /\ asking \in ScraperType /\ asking.pc = acc.pc /\ asking.next = acc.next
        /\ asking.got = acc.got /\ asking.ask = acc.ask \cup more
        /\ asking.seen = seen \cup mul /\ asking.skipped = acc.skipped
    BY <2>1, <2>3 DEF ScraperType
  <2> QED BY <1>4, <2>2, <2>4
<1> QED BY <1>2, <1>3, <1>4

\* What makes one scraper right.
GoodScraper(g, r) ==
  /\ r.pc = "idle" => r = Idle
  /\ r.pc = "loop" =>
       /\ r.next \in 1..Len(Metrics[g])
       /\ \A i \in 1..(r.next - 1) : Metrics[g][i] \in r.seen
       /\ r.seen = r.ask \cup r.skipped
  /\ r.pc \in {"ask", "merge"} =>
       /\ ToSet(Metrics[g]) \ r.skipped \subseteq r.ask
       /\ r.pc = "merge" => r.ask \subseteq DOMAIN r.got

\* One scraper moves on to r, or none; the invariant needs only that r is right.
LEMMA ScraperMoves ==
  ASSUME IndInv, NEW g \in Groups, NEW r \in ScraperType, GoodScraper(g, r),
         scraper' = [scraper EXCEPT ![g] = r]
  PROVE  scraper' \in [Groups -> ScraperType] /\ LoopInv' /\ PolledAreRequested'
<1>1. /\ scraper' \in [Groups -> ScraperType]
      /\ scraper'[g] = r /\ \A h \in Groups \ {g} : scraper'[h] = scraper[h]
  BY DEF IndInv, TypeOK
<1>2. LoopInv'
  BY <1>1 DEF IndInv, LoopInv, GoodScraper
<1>3. PolledAreRequested'
  BY <1>1 DEF IndInv, PolledAreRequested, Polled, GoodScraper
<1> QED BY <1>1, <1>2, <1>3

\* No scraper moves.
LEMMA ScraperKept ==
  ASSUME IndInv, UNCHANGED scraper
  PROVE  LoopInv' /\ PolledAreRequested'
BY DEF IndInv, LoopInv, PolledAreRequested, Polled

\* The bounds on the environment are used up one by one.
LEMMA SpendType ==
  ASSUME TypeOK, NEW what \in {"change", "push", "fail", "read"}, Spend(what)
  PROVE  budget' \in [{"change", "push", "fail", "read"} -> Nat]
<1>1. /\ budget \in [{"change", "push", "fail", "read"} -> Nat] /\ budget[what] > 0
      /\ budget' = [budget EXCEPT ![what] = budget[what] - 1]
  BY DEF TypeOK, Spend
<1>2. budget[what] - 1 \in Nat
  BY <1>1
<1> QED BY <1>1, <1>2

\* The metrics of a group are EPCs, and there are some.
LEMMA GroupMetrics ==
  ASSUME NEW g \in Groups
  PROVE  /\ Len(Metrics[g]) \in Nat \ {0} /\ DOMAIN Metrics[g] = 1..Len(Metrics[g])
         /\ \A i \in 1..Len(Metrics[g]) : Metrics[g][i] \in EPCs
<1>1. Metrics[g] \in Seq(EPCs) /\ Metrics[g] # <<>>
  BY SpecAssumption
<1> QED BY <1>1

\* A tick.
LEMMA ScrapeStartInv ==
  ASSUME IndInv, NEW g \in Groups, ScrapeStart(g)
  PROVE  IndInv'
<1> DEFINE r == [scraper[g] EXCEPT !.pc = "loop"]
<1>1. scraper[g] = Idle /\ scraper[g] \in ScraperType
  BY DEF ScrapeStart, IndInv, LoopInv, TypeOK
<1>2. scraper' = [scraper EXCEPT ![g] = r]
  BY DEF ScrapeStart
<1>3. r \in ScraperType /\ GoodScraper(g, r)
  <2>1. r \in ScraperType /\ r.pc = "loop" /\ r.next = scraper[g].next
        /\ r.seen = scraper[g].seen /\ r.ask = scraper[g].ask
        /\ r.skipped = scraper[g].skipped
    BY <1>1 DEF ScraperType
  <2>2. /\ scraper[g].next = 1 /\ scraper[g].seen = {} /\ scraper[g].ask = {}
        /\ scraper[g].skipped = {}
    BY <1>1 DEF Idle
  <2> HIDE DEF r
  <2> QED BY <2>1, <2>2, GroupMetrics DEF GoodScraper
<1> HIDE DEF r
<1>4. scraper' \in [Groups -> ScraperType] /\ LoopInv' /\ PolledAreRequested'
  BY <1>2, <1>3, ScraperMoves
<1>5. pushAge' \in [Groups -> [EPCs -> 0..Stale]]
  <2> DEFINE older == [e \in EPCs |-> IF pushAge[g][e] < Stale THEN pushAge[g][e] + 1 ELSE Stale]
  <2>1. pushAge \in [Groups -> [EPCs -> 0..Stale]]
    BY DEF IndInv, TypeOK
  <2>2. \A e \in EPCs : pushAge[g][e] \in 0..Stale
    BY <2>1
  <2>3. older \in [EPCs -> 0..Stale]
    BY <2>2
  <2>4. pushAge' = [pushAge EXCEPT ![g] = older]
    BY DEF ScrapeStart
  <2> HIDE DEF older
  <2> QED BY <2>1, <2>3, <2>4
<1>6. age' \in [Groups -> 0..Fresh]
  <2>1. age \in [Groups -> 0..Fresh]
    BY DEF IndInv, TypeOK
  <2>2. age' = [age EXCEPT ![g] = IF @ < Fresh THEN @ + 1 ELSE Fresh]
    BY DEF ScrapeStart
  <2> QED BY <2>1, <2>2
<1>7. UNCHANGED <<dev, cache, status, infs, handler, reader, budget>>
  BY DEF ScrapeStart
<1>8. TypeOK'
  BY <1>4, <1>5, <1>6, <1>7 DEF IndInv, TypeOK
<1> QED BY <1>4, <1>8 DEF IndInv

\* An iteration, the last one included: when all metrics have been seen, the ones
\* not skipped are asked for.
LEMMA ScrapeLoopInv ==
  ASSUME IndInv, NEW g \in Groups, ScrapeLoop(g)
  PROVE  IndInv'
<1> DEFINE acc == scraper[g]
           r == AddMetric(g, acc, Metrics[g][acc.next])
           n == IF r.next < Len(Metrics[g]) THEN [r EXCEPT !.next = @ + 1]
                ELSE IF r.ask = {} THEN Idle ELSE [r EXCEPT !.pc = "ask"]
<1>1. /\ acc \in ScraperType /\ acc.pc = "loop" /\ acc.next \in 1..Len(Metrics[g])
      /\ \A i \in 1..(acc.next - 1) : Metrics[g][i] \in acc.seen
      /\ acc.seen = acc.ask \cup acc.skipped
  BY DEF ScrapeLoop, IndInv, TypeOK, LoopInv
<1>2. scraper' = [scraper EXCEPT ![g] = n]
  BY DEF ScrapeLoop
<1>3. UNCHANGED <<dev, cache, pushAge, status, age, infs, handler, reader, budget>>
  BY DEF ScrapeLoop
<1> HIDE DEF acc
<1>4. /\ Len(Metrics[g]) \in Nat \ {0} /\ DOMAIN Metrics[g] = 1..Len(Metrics[g])
      /\ Metrics[g][acc.next] \in EPCs
  BY <1>1, GroupMetrics
<1>5. /\ r \in ScraperType /\ r.pc = "loop" /\ r.next = acc.next
      /\ r.seen = r.ask \cup r.skipped
      /\ \A i \in 1..r.next : Metrics[g][i] \in r.seen
  <2>1. /\ r \in ScraperType /\ r.pc = acc.pc /\ r.next = acc.next
        /\ r.seen = r.ask \cup r.skipped
        /\ Metrics[g][acc.next] \in r.seen /\ acc.seen \subseteq r.seen
    BY <1>1, <1>4, AddMetricEffect
  <2> HIDE DEF r
  <2>2. \A i \in 1..r.next : i = acc.next \/ i \in 1..(acc.next - 1)
    BY <1>1, <1>4, <2>1
  <2> QED BY <1>1, <2>1, <2>2
<1> HIDE DEF r
<1>6. n \in ScraperType /\ GoodScraper(g, n)
  <2>1. CASE r.next < Len(Metrics[g])
    <3>1. n = [r EXCEPT !.next = @ + 1]
      BY <2>1
    <3>2. /\ n \in ScraperType /\ n.pc = "loop" /\ n.next = r.next + 1
          /\ n.seen = r.seen /\ n.ask = r.ask /\ n.skipped = r.skipped
      BY <1>5, <3>1 DEF ScraperType
    <3> HIDE DEF n
    <3>3. n.next \in 1..Len(Metrics[g]) /\ n.next - 1 = r.next
      BY <1>1, <1>4, <1>5, <2>1, <3>2
    <3> QED BY <1>5, <3>2, <3>3 DEF GoodScraper
  <2>2. CASE ~(r.next < Len(Metrics[g])) /\ r.ask = {}
    <3>1. n = Idle
      BY <2>2
    <3> QED BY <3>1, IdleType DEF GoodScraper, Idle
  <2>3. CASE ~(r.next < Len(Metrics[g])) /\ r.ask # {}
    <3>1. n = [r EXCEPT !.pc = "ask"]
      BY <2>3
    <3>2. /\ n \in ScraperType /\ n.pc = "ask" /\ n.ask = r.ask /\ n.skipped = r.skipped
      BY <1>5, <3>1 DEF ScraperType
    <3> HIDE DEF n
    <3>3. r.next = Len(Metrics[g])
      BY <1>1, <1>4, <1>5, <2>3
    <3>4. \A e \in ToSet(Metrics[g]) : e \in r.seen
      BY <1>4, <1>5, <3>3 DEF ToSet
    <3> QED BY <1>5, <3>2, <3>4 DEF GoodScraper
  <2> QED BY <2>1, <2>2, <2>3
<1> HIDE DEF n
<1>7. scraper' \in [Groups -> ScraperType] /\ LoopInv' /\ PolledAreRequested'
  BY <1>2, <1>6, ScraperMoves
<1>8. TypeOK'
  BY <1>3, <1>7 DEF IndInv, TypeOK
<1> QED BY <1>7, <1>8 DEF IndInv
\* GetProps answers what was asked for.
LEMMA ScrapeReadInv ==
  ASSUME IndInv, NEW g \in Groups, ScrapeRead(g)
  PROVE  IndInv'
<1> DEFINE got == [e \in scraper[g].ask |-> dev[e]]
           r == [scraper[g] EXCEPT !.pc = "merge", !.got = got]
<1>1. /\ scraper[g] \in ScraperType /\ scraper[g].pc = "ask" /\ dev \in [EPCs -> Values]
      /\ ToSet(Metrics[g]) \ scraper[g].skipped \subseteq scraper[g].ask
  BY DEF ScrapeRead, IndInv, TypeOK, PolledAreRequested, Polled
<1>2. scraper' = [scraper EXCEPT ![g] = r]
  BY <1>1 DEF ScrapeRead, IndInv, TypeOK
<1>3. UNCHANGED <<dev, cache, pushAge, status, age, infs, handler, reader, budget>>
  BY DEF ScrapeRead
<1>4. got \in Partial(Values) /\ DOMAIN got = scraper[g].ask
  <2>1. got \in [scraper[g].ask -> Values] /\ scraper[g].ask \in SUBSET EPCs
    BY <1>1 DEF ScraperType
  <2> QED BY <2>1, PartialIntro
<1> HIDE DEF got
<1>5. /\ r \in ScraperType /\ r.pc = "merge" /\ r.got = got
      /\ r.ask = scraper[g].ask /\ r.skipped = scraper[g].skipped
  BY <1>1, <1>4 DEF ScraperType
<1> HIDE DEF r
<1>6. GoodScraper(g, r)
  BY <1>1, <1>4, <1>5 DEF GoodScraper
<1>7. scraper' \in [Groups -> ScraperType] /\ LoopInv' /\ PolledAreRequested'
  BY <1>2, <1>5, <1>6, ScraperMoves
<1>8. TypeOK'
  BY <1>3, <1>7 DEF IndInv, TypeOK
<1> QED BY <1>7, <1>8 DEF IndInv

\* A scrape ends, with an answer or without.
LEMMA ScrapeEndInv ==
  ASSUME IndInv, NEW g \in Groups, ScrapeFails(g) \/ ScrapeMerge(g)
  PROVE  IndInv'
<1>1. /\ scraper' = [scraper EXCEPT ![g] = Idle]
      /\ age' = [age EXCEPT ![g] = 0]
      /\ \E s \in {"ok", "failed"} : status' = [status EXCEPT ![g] = s]
      /\ UNCHANGED <<dev, pushAge, infs, handler, reader>>
  BY DEF ScrapeFails, ScrapeMerge
<1>2. Idle \in ScraperType /\ GoodScraper(g, Idle)
  BY IdleType DEF GoodScraper, Idle
<1>3. scraper' \in [Groups -> ScraperType] /\ LoopInv' /\ PolledAreRequested'
  BY <1>1, <1>2, ScraperMoves
<1>4. age' \in [Groups -> 0..Fresh] /\ status' \in [Groups -> {"none", "ok", "failed"}]
  BY <1>1 DEF IndInv, TypeOK
<1>5. cache' \in [EPCs -> Cached \cup {Unknown}]
  <2>1. CASE ScrapeFails(g)
    BY <2>1 DEF ScrapeFails, IndInv, TypeOK
  <2>2. CASE ScrapeMerge(g)
    <3>1. scraper[g].got \in Partial(Values \cup {Nil})
      BY ValuesPartial DEF IndInv, TypeOK, ScraperType
    <3> QED BY <2>2, <3>1, ParsedIsCached, MergedType DEF ScrapeMerge, IndInv
  <2> QED BY <2>1, <2>2
<1>6. budget' \in [{"change", "push", "fail", "read"} -> Nat]
  <2>1. CASE ScrapeFails(g)
    BY <2>1, SpendType DEF ScrapeFails, IndInv
  <2>2. CASE ScrapeMerge(g)
    BY <2>2 DEF ScrapeMerge, IndInv, TypeOK
  <2> QED BY <2>1, <2>2
<1>7. TypeOK'
  BY <1>1, <1>3, <1>4, <1>5, <1>6 DEF IndInv, TypeOK
<1> QED BY <1>3, <1>7 DEF IndInv

\* IngestNotification records the pushes and merges.
LEMMA IngestInv ==
  ASSUME IndInv, Ingest \/ IngestMerge
  PROVE  IndInv'
<1>1. UNCHANGED <<dev, status, age, scraper, reader, budget>>
  BY DEF Ingest, IngestMerge
<1>2. LoopInv' /\ PolledAreRequested'
  BY <1>1, ScraperKept
<1>3. CASE Ingest
  <2> DEFINE props == Head(infs)
  <2>1. /\ infs \in Seq(Partial(Values \cup {Nil})) /\ infs # <<>> /\ infs' = Tail(infs)
        /\ Len(infs) <= InfCap
    BY <1>3 DEF Ingest, IndInv, TypeOK
  <2>2. /\ props \in Partial(Values \cup {Nil})
        /\ infs' \in Seq(Partial(Values \cup {Nil})) /\ Len(infs') <= InfCap
    BY <2>1, BoundsAssumption
  <2>3. handler' \in Partial(Cached)
    BY <1>3, <2>2, ParsedIsCached DEF Ingest
  <2>4. pushAge' \in [Groups -> [EPCs -> 0..Stale]]
    BY <1>3 DEF Ingest, IndInv, TypeOK
  <2>5. UNCHANGED cache
    BY <1>3 DEF Ingest
  <2>6. TypeOK'
    BY <1>1, <2>2, <2>3, <2>4, <2>5 DEF IndInv, TypeOK
  <2> QED BY <1>2, <2>6 DEF IndInv
<1>4. CASE IngestMerge
  <2>1. cache' \in [EPCs -> Cached \cup {Unknown}]
    BY <1>4, MergedType DEF IngestMerge, IndInv, TypeOK
  <2>2. handler' \in Partial(Cached) /\ UNCHANGED <<pushAge, infs>>
    BY <1>4, EmptyPartial DEF IngestMerge
  <2>3. TypeOK'
    BY <1>1, <2>1, <2>2 DEF IndInv, TypeOK
  <2> QED BY <1>2, <2>3 DEF IndInv
<1> QED BY <1>3, <1>4

\* A read after a command, and its merge.
LEMMA ReadInv ==
  ASSUME IndInv, ReadMerge \/ \E S \in SUBSET EPCs : ReadProps(S)
  PROVE  IndInv'
<1>1. UNCHANGED <<dev, pushAge, status, age, infs, handler, scraper>>
  BY DEF ReadProps, ReadMerge
<1>2. LoopInv' /\ PolledAreRequested'
  BY <1>1, ScraperKept
<1>3. ASSUME NEW S \in SUBSET EPCs, ReadProps(S) PROVE IndInv'
  <2>1. [e \in S |-> dev[e]] \in [S -> Values \cup {Nil}]
    BY DEF IndInv, TypeOK
  <2>2. reader' \in Partial(Cached)
    BY <1>3, <2>1, PartialIntro, ParsedIsCached DEF ReadProps
  <2>3. budget' \in [{"change", "push", "fail", "read"} -> Nat] /\ UNCHANGED cache
    BY <1>3, SpendType DEF ReadProps, IndInv
  <2>4. TypeOK'
    BY <1>1, <2>2, <2>3 DEF IndInv, TypeOK
  <2> QED BY <1>2, <2>4 DEF IndInv
<1>4. CASE ReadMerge
  <2>1. cache' \in [EPCs -> Cached \cup {Unknown}]
    BY <1>4, MergedType DEF ReadMerge, IndInv, TypeOK
  <2>2. reader' \in Partial(Cached) /\ UNCHANGED budget
    BY <1>4, EmptyPartial DEF ReadMerge
  <2>3. TypeOK'
    BY <1>1, <2>1, <2>2 DEF IndInv, TypeOK
  <2> QED BY <1>2, <2>3 DEF IndInv
<1> QED BY <1>3, <1>4

\* The device changes and announces.
LEMMA DeviceInv ==
  ASSUME IndInv,
         \/ \E e \in EPCs, v \in Values : Change(e, v)
         \/ \E S \in SUBSET EPCs, usable \in BOOLEAN : Push(S, usable)
  PROVE  IndInv'
<1>1. UNCHANGED <<cache, pushAge, status, age, handler, scraper, reader>>
  BY DEF Change, Push
<1>2. LoopInv' /\ PolledAreRequested'
  BY <1>1, ScraperKept
<1>3. budget' \in [{"change", "push", "fail", "read"} -> Nat]
  BY SpendType DEF Change, Push, IndInv
<1>4. CASE \E e \in EPCs, v \in Values : Change(e, v)
  <2>1. dev' \in [EPCs -> Values] /\ UNCHANGED infs
    BY <1>4 DEF Change, IndInv, TypeOK
  <2>2. TypeOK'
    BY <1>1, <1>3, <2>1 DEF IndInv, TypeOK
  <2> QED BY <1>2, <2>2 DEF IndInv
<1>5. ASSUME NEW S \in SUBSET EPCs, NEW usable \in BOOLEAN, Push(S, usable)
      PROVE  IndInv'
  <2> DEFINE frame == [e \in S |-> IF usable THEN dev[e] ELSE Nil]
  <2>1. frame \in Partial(Values \cup {Nil})
    <3>1. frame \in [S -> Values \cup {Nil}]
      BY DEF IndInv, TypeOK
    <3> QED BY <3>1, PartialIntro
  <2>2. infs' = infs \/ (Len(infs) < InfCap /\ infs' = Append(infs, frame))
    BY <1>5 DEF Push
  <2> HIDE DEF frame
  <2>3. infs \in Seq(Partial(Values \cup {Nil})) /\ Len(infs) <= InfCap
    BY DEF IndInv, TypeOK
  <2>4. infs' \in Seq(Partial(Values \cup {Nil})) /\ Len(infs') <= InfCap
    BY <2>1, <2>2, <2>3, BoundsAssumption
  <2>5. UNCHANGED dev
    BY <1>5 DEF Push
  <2>6. TypeOK'
    BY <1>1, <1>3, <2>4, <2>5 DEF IndInv, TypeOK
  <2> QED BY <1>2, <2>6 DEF IndInv
<1> QED BY <1>4, <1>5

\* Every step preserves the invariant.
LEMMA NextInv == IndInv /\ [Next]_vars => IndInv'
<1> SUFFICES ASSUME IndInv, [Next]_vars PROVE IndInv'
  OBVIOUS
<1>1. CASE UNCHANGED vars
  <2>1. LoopInv' /\ PolledAreRequested'
    BY <1>1, ScraperKept DEF vars
  <2>2. TypeOK'
    BY <1>1 DEF vars, IndInv, TypeOK
  <2> QED BY <2>1, <2>2 DEF IndInv
<1>2. CASE Next
  BY <1>2, ScrapeStartInv, ScrapeLoopInv, ScrapeReadInv, ScrapeEndInv, IngestInv, ReadInv,
     DeviceInv
     DEF Next, ScrapeStep
<1> QED BY <1>1, <1>2

-----------------------------------------------------------------------------
\* The loop has seen what it has gone through and what it asks for is what it
\* will look for, in every reachable state.
THEOREM CacheSyncInvariance == Spec => []IndInv
BY InitInv, NextInv, PTL DEF Spec

\* The registers, the cache, the frames and what is on its way between them keep
\* their types; in particular no value without data gets into the cache.
THEOREM CacheSyncTypeCorrect == Spec => []TypeOK
<1>1. IndInv => TypeOK BY DEF IndInv
<1> QED BY <1>1, CacheSyncInvariance, PTL

\* scrapeOnce asks for every metric it will look for, whatever duplicates,
\* multipliers and skipped EPCs the specification has and whenever pushes come.
THEOREM PolledAreRequestedAlways == Spec => []PolledAreRequested
<1>1. IndInv => PolledAreRequested BY DEF IndInv
<1> QED BY <1>1, CacheSyncInvariance, PTL
=============================================================================
