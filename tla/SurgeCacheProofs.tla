-------------------------- MODULE SurgeCacheProofs -------------------------
(***************************************************************************)
(* Quoted multipliers are recent, for any number of requests and           *)
(* multipliers, any time to live and any delay.                            *)
(***************************************************************************)
EXTENDS SurgeCache, TLAPS

\* The rate in force is of age 0; what is under way is no older than it has
\* waited; what is cached has no more time left than separates it from being
\* too old to quote.
Recent ==
    /\ age[rate] = 0
    /\ \A s \in Slots : lookup[s].stage = "set" =>
          lookup[s].rate \in Rates /\ age[lookup[s].rate] <= lookup[s].waited
    /\ cache # None =>
          cache.rate \in Rates /\ age[cache.rate] + cache.left <= Delay + TTL

SurgeInv == SurgeTypeOK /\ Recent

USE SurgeAssumption

LEMMA SurgeInit == Init => SurgeInv /\ Quotes!QuotesInit
BY DEF Init, SurgeInv, SurgeTypeOK, Recent, LifespanInit, LifespanTypeOK, Phase, Age,
    Quotes!QuotesInit, Quotes!LongAgo, Lookup, NoLookup

\* Multipliers age by at most one tick at a time, and not below zero.
LEMMA AgesByOne ==
    ASSUME SurgeTypeOK, Quotes!Tick
    PROVE  /\ age' \in [Rates -> 0 .. Age + 1]
           /\ \A r \in Rates : age'[r] <= age[r] + 1
BY DEF SurgeTypeOK, Quotes!Tick, Quotes!Older, Quotes!LongAgo, Age

LEMMA TickInv == SurgeInv /\ Tick /\ UNCHANGED lifespanVars => SurgeInv'
<1> SUFFICES ASSUME SurgeInv, Tick, UNCHANGED lifespanVars PROVE SurgeInv'
    OBVIOUS
<1> USE DEF SurgeInv
<1>1. /\ age' \in [Rates -> 0 .. Age + 1]
      /\ \A r \in Rates : age'[r] <= age[r] + 1
    BY AgesByOne DEF Tick
<1>2. ASSUME NEW s \in Slots
      PROVE  /\ lookup'[s] \in Lookup
             /\ lookup'[s].stage = "set" =>
                  lookup'[s].rate \in Rates /\ age'[lookup'[s].rate] <= lookup'[s].waited
    BY <1>1 DEF Tick, SurgeTypeOK, Recent, Lookup, Age
<1>3. /\ cache' \in Entry \cup {None}
      /\ cache' # None =>
           cache'.rate \in Rates /\ age'[cache'.rate] + cache'.left <= Delay + TTL
    BY <1>1 DEF Tick, Aged, SurgeTypeOK, Recent, Entry, Age
<1>4. lookup' \in [Slots -> Lookup]
    BY <1>2 DEF Tick
<1> QED
    <2>1. age'[rate] = 0
        BY DEF Tick, Quotes!Tick, Quotes!Older, SurgeTypeOK
    <2> QED
        BY <1>1, <1>2, <1>3, <1>4, <2>1
        DEF SurgeTypeOK, Recent, Tick, Quotes!Tick, lifespanVars, LifespanTypeOK

LEMMA ServeInv == ASSUME SurgeInv, NEW s \in Slots, Serve(s) PROVE SurgeInv'
<1> USE DEF SurgeInv
<1>1. /\ quote' \in [Slots -> Rates \cup {Default}]
      /\ lookup' \in [Slots -> Lookup]
    BY DEF Serve, Ask, Hit, Miss, Fetched, FetchFails, Store, Answer, SurgeTypeOK,
       Recent, Lookup, NoLookup, Entry
<1>2. /\ cache' \in Entry \cup {None}
      /\ cache' # None =>
           cache'.rate \in Rates /\ age'[cache'.rate] + cache'.left <= Delay + TTL
    <2>1. CASE cache' = cache
        BY <2>1 DEF Serve, SurgeTypeOK, Recent
    <2>2. CASE lookup[s].stage = "set" /\ cache' = [rate |-> lookup[s].rate, left |-> TTL]
        BY <2>2 DEF Serve, SurgeTypeOK, Recent, Entry, Lookup, Age
    <2> QED
        BY <2>1, <2>2 DEF Serve, Ask, Hit, Miss, Fetched, FetchFails, Store
<1>3. ASSUME NEW t \in Slots, lookup'[t].stage = "set"
      PROVE  lookup'[t].rate \in Rates /\ age'[lookup'[t].rate] <= lookup'[t].waited
    <2>1. CASE lookup'[t] = lookup[t]
        BY <1>3, <2>1 DEF Serve, Recent
    <2>2. CASE lookup'[t] = [stage |-> "set", rate |-> rate, waited |-> 0]
        BY <2>2 DEF Serve, SurgeTypeOK, Recent
    <2> QED
        BY <1>3, <2>1, <2>2 DEF Serve, Ask, Hit, Miss, Fetched, FetchFails, Store, Answer,
           SurgeTypeOK, Lookup, NoLookup
<1> QED
    BY <1>1, <1>2, <1>3 DEF Serve, SurgeTypeOK, Recent, lifespanVars, LifespanTypeOK

LEMMA EngineInv == SurgeInv /\ Engine => SurgeInv'
<1>1. ASSUME SurgeInv, Quotes!Reprice, UNCHANGED <<lifespanVars, cache, lookup>>
      PROVE  SurgeInv'
    <2>1. /\ age' \in [Rates -> 0 .. Age + 1]
          /\ age'[rate'] = 0
          /\ \A r \in Rates : age'[r] <= age[r]
        BY <1>1 DEF SurgeInv, SurgeTypeOK, Quotes!Reprice, Age
    <2>2. \A s \in Slots : lookup[s].waited \in 0 .. Delay
        BY <1>1 DEF SurgeInv, SurgeTypeOK, Lookup
    <2>3. cache # None => cache.left \in 1 .. TTL
        BY <1>1 DEF SurgeInv, SurgeTypeOK, Entry
    <2> QED
        BY <1>1, <2>1, <2>2, <2>3
        DEF SurgeInv, SurgeTypeOK, Recent, Quotes!Reprice, lifespanVars, LifespanTypeOK, Age
<1> QED
    BY <1>1, TickInv DEF Engine

\* lifespan changes nothing of the lookups, and a kill forgets them.
LEMMA ProcessInv == SurgeInv /\ (Open \/ Close \/ Kill) => SurgeInv'
BY DEF SurgeInv, SurgeTypeOK, Recent, LifespanTypeOK, Phase, Lookup, NoLookup, Open, Opening,
    OpenRedis, OpenKafka, Close, Closing, CloseRedis, CloseKafka, Dispose, Kill, Restart

LEMMA SurgeNextInv == SurgeInv /\ [Next]_vars => SurgeInv'
<1>1. ASSUME SurgeInv, UNCHANGED vars PROVE SurgeInv'
    BY <1>1 DEF SurgeInv, SurgeTypeOK, Recent, LifespanTypeOK, vars, lifespanVars
<1> QED
    BY <1>1, ServeInv, EngineInv, ProcessInv DEF Next

LEMMA SurgeInvariant == Spec => []SurgeInv
BY SurgeInit, SurgeNextInv, PTL DEF Spec

\* Lookups, the cached multiplier and the process keep their types.
THEOREM SurgeTypes == Spec => []SurgeTypeOK
BY SurgeInvariant, PTL DEF SurgeInv

\* The fallback is never cached, so that an outage of the pricing engine does not
\* outlast itself (get_surge_multiplier).
THEOREM OutageNotPinned == Spec => []FallbackNotCached
<1>1. SurgeInv => FallbackNotCached
    BY DEF SurgeInv, Recent, FallbackNotCached
<1> QED
    BY <1>1, SurgeInvariant, PTL

\* A lookup that ends is a quote of the abstract specification: the default, or
\* a multiplier that was in force at most Age ticks ago.
LEMMA ServeQuotes ==
    ASSUME SurgeInv, NEW s \in Slots, Serve(s)
    PROVE  [Quotes!QuotesNext]_<<rate, age, quote>>
<1>1. ASSUME NEW m \in {Default} \cup {r \in Rates : age[r] <= Age}, Answer(s, m)
      PROVE  Quotes!Quote(s)
    BY <1>1 DEF Serve, Answer, Quotes!Quote
<1>2. CASE Hit(s)
    <2>1. cache.rate \in Rates /\ age[cache.rate] <= Age
        BY <1>2 DEF Hit, SurgeInv, SurgeTypeOK, Recent, Entry, Age
    <2> QED
        BY <1>1, <1>2, <2>1 DEF Hit, Quotes!QuotesNext
<1>3. CASE Store(s)
    <2>1. lookup[s].rate \in Rates /\ age[lookup[s].rate] <= Age
        BY <1>3 DEF Store, SurgeInv, SurgeTypeOK, Recent, Lookup, Age
    <2> QED
        BY <1>1, <1>3, <2>1 DEF Store, Quotes!QuotesNext
<1>4. CASE FetchFails(s)
    BY <1>1, <1>4 DEF FetchFails, Quotes!QuotesNext
<1>5. CASE Ask(s) \/ Miss(s) \/ Fetched(s)
    BY <1>5 DEF Serve, Ask, Miss, Fetched
<1> QED
    BY <1>2, <1>3, <1>4, <1>5 DEF Serve

\* However lookups race, and whatever fails or restarts, the quoted multipliers
\* are those of the abstract specification (get_surge_multiplier, set_surge).
THEOREM QuotesRecent == Spec => QuotesAreRecent
<1>1. SurgeInv /\ [Next]_vars => [Quotes!QuotesNext]_<<rate, age, quote>>
    <2>1. SurgeInv /\ (\E s \in Slots : Serve(s)) => [Quotes!QuotesNext]_<<rate, age, quote>>
        BY ServeQuotes
    <2>2. Engine => Quotes!QuotesNext
        BY DEF Engine, Tick, Quotes!QuotesNext
    <2>3. Open \/ Close \/ Kill \/ UNCHANGED vars => UNCHANGED <<rate, age, quote>>
        BY DEF Open, Close, Kill, vars
    <2> QED
        BY <2>1, <2>2, <2>3 DEF Next
<1> QED
    BY <1>1, SurgeInit, SurgeInvariant, PTL
    DEF Spec, QuotesAreRecent, Quotes!QuotesSpec, Quotes!quoteVars

\* The process keeps its client from the start on, whether or not the ping was
\* answered, so it takes Redis up again once it is back (redis.start).
THEOREM ClientKept == Spec => []ServesWithClient
<1> DEFINE ClientInv == phase \in {"openKafka", "serving"} => client = "open"
<1>1. Init => ClientInv
    BY DEF Init, LifespanInit
<1>2. ClientInv /\ [Next]_vars => ClientInv'
    BY DEF Next, vars, lifespanVars, Engine, Open, Opening, OpenRedis, OpenKafka, Close, Closing,
       CloseRedis, CloseKafka, Dispose, Kill, Restart, Serve
<1>3. ClientInv => ServesWithClient
    BY DEF ServesWithClient
<1> QED
    BY <1>1, <1>2, <1>3, PTL DEF Spec
=============================================================================
