----------------------------- MODULE PricingQuote -----------------------------
(***************************************************************************)
(* src/demo/pricing_quote.py: from a provider's price snapshot to the      *)
(* amount reserved for one task of the pilot, and src/demo/budget.py's     *)
(* usd_units, which rounds it.  Money is counted in grains (the smallest   *)
(* price that rate accepts), Grain of them to the budget's nanodollar.     *)
(***************************************************************************)
EXTENDS Integers, FiniteSetsExt

CONSTANTS
  Lane,            \* the priced routes
  Offer,           \* endpoint records a snapshot may hold for a route
  MaxTokens,       \* max_tokens requested of an endpoint
  Grain,
  DecisionPrice,   \* the decision provider's input price
  DecisionTokens,  \* and input capacity
  Fresh,           \* hours for which evidence may be used
  MaxHour          \* bound of the clock

Dimension == {"prompt", "completion", "reasoning", "cache_read", "cache_write", "request"}

ASSUME QuoteAssumption ==
  /\ {MaxTokens, DecisionPrice, DecisionTokens, Fresh, MaxHour} \subseteq Nat
  /\ Grain \in Nat \ {0}
  /\ IsFiniteSet(Lane) /\ Lane # {}
  /\ \A o \in Offer : /\ o.price \in [Dimension -> Nat] /\ o.context \in Nat
                      /\ o.completion \in Nat /\ o.reviewed \in BOOLEAN

VARIABLES
  offers,    \* the snapshot: what each route's endpoint charges
  observed,  \* the hour it was taken
  hour,      \* the clock
  quote      \* the plan's [perTask, expires], NoQuote or Refused

quoteVars == <<offers, observed, hour, quote>>

NoQuote == [perTask |-> -1, expires |-> -1]
NoOffer == [perTask |-> -2, expires |-> -1]

QuoteTypeOK ==
  /\ offers \in [Lane -> Offer]
  /\ {observed, hour} \subseteq 0..MaxHour
  /\ quote \in {NoQuote, NoOffer} \cup [perTask : Nat, expires : Nat]

QuoteInit ==
  /\ offers \in [Lane -> Offer]
  /\ observed \in 0..MaxHour
  /\ hour = 0
  /\ quote = NoQuote

-----------------------------------------------------------------------------
CeilDiv(a, b) == (a + b - 1) \div b

(* usd_units: nanodollars, rounded up. *)
UsdUnits(grains) == CeilDiv(grains, Grain)

(* endpoint_quote: every capacity at its own price; input is counted once  *)
(* as prompt, once as cache read and once as cache write.                  *)
Capacity(o, d) ==
  CASE d \in {"prompt", "cache_read", "cache_write"} -> o.context
    [] d \in {"completion", "reasoning"} -> o.completion
    [] OTHER -> 1

BugScenario(o) ==
  MapThenSumSet(LAMBDA d : o.price[d] * Capacity(o, d), Dimension \ {"cache_write"})
Scenario(o) == MapThenSumSet(LAMBDA d : o.price[d] * Capacity(o, d), Dimension)

Quotable(o) == o.reviewed /\ o.context >= 1 /\ MaxTokens \in 1..o.completion

(* plan: a quarter more than the scenario and the decision together. *)
Decision == DecisionPrice * DecisionTokens
Reservation(o) == UsdUnits(CeilDiv((Scenario(o) + Decision) * 5, 4))
Current == hour - observed \in 0..Fresh

MakePlan ==
  /\ quote = NoQuote
  /\ quote' = IF Current /\ \A lane \in Lane : Quotable(offers[lane])
              THEN [perTask |-> Max({Reservation(offers[lane]) : lane \in Lane}),
                    expires |-> observed + Fresh]
              ELSE NoOffer
  /\ UNCHANGED <<offers, observed, hour>>

Tick ==
  /\ hour < MaxHour
  /\ hour' = hour + 1
  /\ UNCHANGED <<offers, observed, quote>>

QuoteNext == MakePlan \/ Tick

-----------------------------------------------------------------------------
(* What a task may use of an endpoint, and what the two providers charge.  *)
Usage(o) == {u \in [Dimension -> 0..Max({o.context, o.completion, 1})] :
               \A d \in Dimension : u[d] <= Capacity(o, d)}
Cost(o, u, tokens) ==
  UsdUnits(MapThenSumSet(LAMBDA d : o.price[d] * u[d], Dimension) + tokens * DecisionPrice)

(* src/demo/PRICING.md, budget.py: a task that stays within the advertised *)
(* capacities never costs more, rounded up as the budget rounds it, than   *)
(* what the plan reserves for it, on whichever route it is sent.           *)
QuoteCovers ==
  /\ QuoteTypeOK
  /\ quote \notin {NoQuote, NoOffer} =>
    \A lane \in Lane : \A u \in Usage(offers[lane]), tokens \in 0..DecisionTokens :
      Cost(offers[lane], u, tokens) <= quote.perTask
==============================================================================
