------------------------------ MODULE Pricing ------------------------------
(***************************************************************************)
(* The pricing agent over the price samples of the deal desk.               *)
(*                                                                          *)
(* A run (POST /lardi/pricing/run) reads the matches without a price once,  *)
(* then takes one after the other: it reads the comparable samples of the   *)
(* last 90 days and, if there are enough, asks the LLM.  All prices are     *)
(* committed at the end.  Meanwhile matches are decided on, deals are       *)
(* delivered, and other runs do the same.                                   *)
(***************************************************************************)
EXTENDS DealDesk, FiniteSets

CONSTANTS
  Matches,
  Comparable,  \* the deals whose route and body type are those of the match's load
  Runs,        \* slots for pricing runs in flight at once
  MinSamples,
  MaxMarket    \* bound: so many comparable samples of exchange loads

ASSUME PricingAssumption ==
  /\ Comparable \in [Matches -> SUBSET Deals]
  /\ IsFiniteSet(Deals)
  /\ MinSamples \in Nat /\ MaxMarket \in Nat

VARIABLES
  match,      \* matches.status: "none" without a row, "open" (proposed or reviewed), "decided"
  market,     \* per match, the comparable samples of exchange loads; one per load (Ingestion)
  suggested,  \* the matches that have a suggested_price
  run         \* per run slot: idle, or the matches to do and those that have an answer

pricing == <<match, market, suggested, run>>

Working == [at: {"llm"}, todo: SUBSET Matches, answered: SUBSET Matches]

PricingTypeOK ==
  /\ match \in [Matches -> {"none", "open", "decided"}]
  /\ market \in [Matches -> 0..MaxMarket]
  /\ suggested \subseteq Matches
  /\ run \in [Runs -> {Idle} \cup Working]

PricingInit ==
  /\ Init
  /\ match = [m \in Matches |-> "none"]
  /\ market = [m \in Matches |-> 0]
  /\ suggested = {}
  /\ run = [a \in Runs |-> Idle]

\* The matcher, a proposal and the reviewers (a late verdict may reopen a decided match);
\* ingestion.
MatchMoves(m, s) ==
  /\ match' = [match EXCEPT ![m] = s]
  /\ UNCHANGED <<vars, market, suggested, run>>

MarketGrows(m) ==
  /\ market[m] < MaxMarket
  /\ market' = [market EXCEPT ![m] = @ + 1]
  /\ UNCHANGED <<vars, match, suggested, run>>

StartRun(a) ==
  LET todo == {m \in Matches : match[m] = "open" /\ m \notin suggested}
  IN  /\ run[a] = Idle
      /\ todo # {}
      /\ run' = [run EXCEPT ![a] = [at |-> "llm", todo |-> todo, answered |-> {}]]
      /\ UNCHANGED <<vars, match, market, suggested>>

\* Rows of price_samples that deals have left for the match's route; one deal may have
\* left several.
Rows(m) == UNION {{d} \X (1..samples[d]) : d \in Comparable[m]}

Found(m) == Cardinality(Rows(m)) + market[m]

\* Seeded bug: any sample will do.
SomeSample(n) == n > 0

\* The cap of 20 samples sent to the LLM is above this and changes nothing.
Enough(n) == n >= MinSamples

\* Seeded bug: a failed call counts as an answer of its own.
AnswersOrError(n, m) == IF Enough(n) THEN {{m}, {"error"}} ELSE {{}}

\* With enough samples the LLM is asked, and may fail.
Answers(n, m) == IF Enough(n) THEN {{m}, {}} ELSE {{}}

\* The next match; recent are the rows of the last 90 days.
Suggest(a, m) ==
  /\ run[a].at = "llm" /\ m \in run[a].todo
  /\ \E recent \in 0..Found(m) : \E answers \in Answers(recent, m) :
       run' = [run EXCEPT ![a] = [at |-> "llm", todo |-> @.todo \ {m},
                                 answered |-> @.answered \cup answers]]
  /\ UNCHANGED <<vars, match, market, suggested>>

\* Whatever has become of the matches, they get their prices.
CommitRun(a) ==
  /\ run[a].at = "llm" /\ run[a].todo = {}
  /\ suggested' = suggested \cup run[a].answered
  /\ run' = [run EXCEPT ![a] = Idle]
  /\ UNCHANGED <<vars, match, market>>

\* The process or the connection is lost, and all answers of the run with it.
AbortRun(a) ==
  /\ run[a] # Idle
  /\ run' = [run EXCEPT ![a] = Idle]
  /\ UNCHANGED <<vars, match, market, suggested>>

PricingNext ==
  \/ Next /\ UNCHANGED pricing
  \/ \E m \in Matches : MarketGrows(m) \/ \E s \in {"open", "decided"} : MatchMoves(m, s)
  \/ \E a \in Runs : StartRun(a) \/ CommitRun(a) \/ AbortRun(a) \/ \E m \in Matches : Suggest(a, m)

PricingSpec == PricingInit /\ [][PricingNext]_<<vars, pricing>>

-----------------------------------------------------------------------------
(* Properties.                                                             *)

\* The deals of the match's route that were delivered at a price.
Freights(m) == {d \in Comparable[m] : d \in Priced /\ "delivered" \in visited[d]}

\* A suggested price rests on at least MinSamples different freights, deals delivered at a
\* price or loads of the exchange, whatever runs and reviewers did meanwhile.  True when
\* status requests do not overlap; a deal delivered twice by stale ones counts twice.
PriceRestsOnFreights ==
  \A m \in suggested : Cardinality(Freights(m)) + market[m] >= MinSamples

\* What remains of it when they do overlap: the price rests on that many rows.
PriceRestsOnRows == \A m \in suggested : Found(m) >= MinSamples
=============================================================================
