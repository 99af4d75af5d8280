---------------------------- MODULE SurgeQuotes ----------------------------
(***************************************************************************)
(* What pricing promises of the surge multipliers of one zone: a ride is   *)
(* quoted a multiplier that the pricing engine had in force at most Age    *)
(* ticks ago, or the default.                                              *)
(***************************************************************************)
EXTENDS Naturals

CONSTANTS Slots, Rates, Default, Age

VARIABLES
    rate,   \* the multiplier the pricing engine has in force
    age,    \* for every multiplier, how long ago it was in force
    quote   \* the multiplier last quoted in each slot

quoteVars == <<rate, age, quote>>

\* Multipliers not in force for longer than Age are not told apart.
LongAgo == Age + 1

QuotesInit ==
    /\ rate \in Rates
    /\ age = [r \in Rates |-> IF r = rate THEN 0 ELSE LongAgo]
    /\ quote = [s \in Slots |-> Default]

\* The engine puts another multiplier in force; the old one was until now.
Reprice ==
    /\ rate' \in Rates
    /\ age' = [age EXCEPT ![rate'] = 0]
    /\ UNCHANGED quote

Older(r) == IF r = rate THEN 0 ELSE IF age[r] = LongAgo THEN LongAgo ELSE age[r] + 1

Tick ==
    /\ age' = [r \in Rates |-> Older(r)]
    /\ UNCHANGED <<rate, quote>>

Quote(s) ==
    /\ \E m \in {Default} \cup {r \in Rates : age[r] <= Age} :
          quote' = [quote EXCEPT ![s] = m]
    /\ UNCHANGED <<rate, age>>

QuotesNext == Reprice \/ Tick \/ \E s \in Slots : Quote(s)
QuotesSpec == QuotesInit /\ [][QuotesNext]_quoteVars
=============================================================================
