---------------------------- MODULE SurgeCache -----------------------------
(***************************************************************************)
(* The surge multiplier of one zone: PricingService looks it up in Redis,  *)
(* on a miss asks the pricing engine, and stores the answer for TTL ticks. *)
(* Redis and the engine may fail at any call; lookups of several requests  *)
(* interleave, so an answer can be stored after a newer one.               *)
(***************************************************************************)
EXTENDS AppLifespan

CONSTANTS
    Slots,      \* requests the process can be handling at once
    Rates,      \* multipliers the pricing engine answers
    Default,    \* DEFAULT_SURGE_MULTIPLIER, told apart from an answer of 1.0
    None,       \* no cached multiplier
    TTL,        \* settings.surge_cache_ttl_seconds, in ticks
    Delay       \* ticks from the engine's answer to the end of set_surge

ASSUME SurgeAssumption ==
    /\ TTL \in Nat \ {0}
    /\ Delay \in Nat
    /\ Rates # {}
    /\ Default \notin Rates
    /\ None \notin [rate : Rates \cup {Default}, left : 1 .. TTL]

VARIABLES
    rate, age, quote,   \* as in SurgeQuotes
    cache,              \* Redis: surge:{zone}, with the ticks it has left
    lookup              \* how far each request's lookup is

Age == Delay + TTL - 1
Quotes == INSTANCE SurgeQuotes WITH Age <- Age

vars == <<lifespanVars, rate, age, quote, cache, lookup>>

Lookup == [stage : {"none", "get", "fetch", "set"},
           rate : Rates \cup {Default},     \* what the engine answered
           waited : 0 .. Delay]             \* since it did

NoLookup == [stage |-> "none", rate |-> Default, waited |-> 0]

Entry == [rate : Rates \cup {Default}, left : 1 .. TTL]

Init ==
    /\ LifespanInit
    /\ Quotes!QuotesInit
    /\ cache = None
    /\ lookup = [s \in Slots |-> NoLookup]

\* The lookup of slot s ends with multiplier m.
Answer(s, m) ==
    /\ quote' = [quote EXCEPT ![s] = m]
    /\ lookup' = [lookup EXCEPT ![s] = NoLookup]

\* request_ride comes to the price.
Ask(s) ==
    /\ phase = "serving"
    /\ lookup[s] = NoLookup
    /\ lookup' = [lookup EXCEPT ![s].stage = "get"]
    /\ UNCHANGED <<quote, cache>>

Hit(s) ==
    /\ lookup[s].stage = "get"
    /\ cache # None
    /\ Answer(s, cache.rate)
    /\ UNCHANGED cache

\* The key is not there, or Redis does not answer: get_surge returns None.
Miss(s) ==
    /\ lookup[s].stage = "get"
    /\ lookup' = [lookup EXCEPT ![s].stage = "fetch"]
    /\ UNCHANGED <<quote, cache>>

Fetched(s) ==
    /\ lookup[s].stage = "fetch"
    /\ lookup' = [lookup EXCEPT ![s] = [stage |-> "set", rate |-> rate, waited |-> 0]]
    /\ UNCHANGED <<quote, cache>>

\* Mutants of FetchFails: the fallback goes the way of an answer; the lookup
\* begins again.
FetchFailsCaching(s) ==
    /\ lookup[s].stage = "fetch"
    /\ lookup' = [lookup EXCEPT ![s] = [stage |-> "set", rate |-> Default, waited |-> 0]]
    /\ UNCHANGED <<quote, cache>>

FetchFailsRetrying(s) ==
    /\ lookup[s].stage = "fetch"
    /\ lookup' = [lookup EXCEPT ![s].stage = "get"]
    /\ UNCHANGED <<quote, cache>>

\* Unreachable, timed out, not 200, or no multiplier in the body.
FetchFails(s) ==
    /\ lookup[s].stage = "fetch"
    /\ Answer(s, Default)
    /\ UNCHANGED cache

\* Mutant of Store: the ttl_seconds that set_surge has by default, the double.
StoreByDefault(s) ==
    /\ lookup[s].stage = "set"
    /\ Answer(s, lookup[s].rate)
    /\ cache' \in {cache, [rate |-> lookup[s].rate, left |-> 2 * TTL]}

\* set_surge replaces whatever is there; the call may be lost.
Store(s) ==
    /\ lookup[s].stage = "set"
    /\ Answer(s, lookup[s].rate)
    /\ cache' \in {cache, [rate |-> lookup[s].rate, left |-> TTL]}

\* Redis drops the key when its time is over.
Aged ==
    IF cache = None \/ cache.left = 1 THEN None ELSE [cache EXCEPT !.left = @ - 1]

\* Time passes, except that no answer waits for longer than Delay.
Tick ==
    /\ \A s \in Slots : lookup[s].stage = "set" => lookup[s].waited < Delay
    /\ Quotes!Tick
    /\ cache' = Aged
    /\ lookup' = [s \in Slots |->
          IF lookup[s].stage = "set" THEN [lookup[s] EXCEPT !.waited = @ + 1] ELSE lookup[s]]

Serve(s) ==
    /\ Ask(s) \/ Hit(s) \/ Miss(s) \/ Fetched(s) \/ FetchFails(s) \/ Store(s)
    /\ UNCHANGED <<lifespanVars, rate, age>>

\* Shutdown begins when no request is left.
Close ==
    /\ \/ CloseRedis /\ \A s \in Slots : lookup[s] = NoLookup
       \/ Closing
    /\ UNCHANGED <<rate, age, quote, cache, lookup>>

Open == Opening /\ UNCHANGED <<rate, age, quote, cache, lookup>>

\* The requests under way die with the process; Redis does not.
Kill ==
    /\ Restart
    /\ lookup' = [s \in Slots |-> NoLookup]
    /\ UNCHANGED <<rate, age, quote, cache>>

Engine ==
    \/ Quotes!Reprice /\ UNCHANGED <<lifespanVars, cache, lookup>>
    \/ Tick /\ UNCHANGED lifespanVars

Next == Engine \/ Open \/ Close \/ Kill \/ \E s \in Slots : Serve(s)

Spec == Init /\ [][Next]_vars
FairSpec == Spec /\ WF_vars(Open) /\ \A s \in Slots : WF_vars(Serve(s))

-----------------------------------------------------------------------------
SurgeTypeOK ==
    /\ LifespanTypeOK
    /\ rate \in Rates
    /\ age \in [Rates -> 0 .. Age + 1]
    /\ quote \in [Slots -> Rates \cup {Default}]
    /\ cache \in Entry \cup {None}
    /\ lookup \in [Slots -> Lookup]

\* A failure of the pricing engine is not remembered: the cached multiplier is
\* one it answered (get_surge_multiplier).
FallbackNotCached == cache # None => cache.rate \in Rates

\* However lookups race and whatever fails, a multiplier that is quoted was in
\* force at most Age ticks ago: the time to live, and the time the answer
\* it came from took to be stored (get_surge_multiplier, set_surge).
QuotesAreRecent == Quotes!QuotesSpec

\* A lookup ends, whatever fails (get_surge_multiplier).
EveryLookupEnds ==
    \A s \in Slots : lookup[s].stage # "none" ~> lookup[s].stage = "none"
=============================================================================
