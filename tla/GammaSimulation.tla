--------------------------- MODULE GammaSimulation ---------------------------
(***************************************************************************)
(* run_simulation (backend/app/simulation/engine.py): a long straddle held *)
(* along a path of market states, hedged with futures by a policy under    *)
(* the controls of risk.py, with the fills of backend/app/execution and    *)
(* the ledger and positions of backend/app/portfolio.                      *)
(*                                                                         *)
(* Money is counted in paise, the CURRENCY_QUANTUM, and a price per unit   *)
(* in fractions of one, so that every rounding of the code is here.  The   *)
(* option prices, deltas and band widths that Black-Scholes and the paths  *)
(* give are inputs, chosen at each step among Scenarios.                   *)
(***************************************************************************)
EXTENDS Integers, Sequences, FiniteSets, SequencesExt

CONSTANTS
  Scenarios,        \* market states: [call, put, futures, delta, band]
  Thetas,           \* absolute daily thetas of the pair at the entry
  Costs,            \* [option, futures -> ExecutionCostParameters]
  Contract,         \* [units, multiplier, futuresMultiplier, futuresDelta]
  Limits,           \* RiskPolicyConfig: [nav, premium, theta, position, daily, delta, hedges]
  Hedging,          \* parameters of the policies
  Clocks            \* [decisions, entry, expiry, safety, holding, last]

\* What the validators of the configuration admit, and whole numbers of paise.
ASSUME SimulationAssumption ==
  /\ \A m \in Scenarios :
       m.call \in Nat /\ m.put \in Nat /\ m.futures \in Nat /\ m.delta \in Int /\ m.band \in Nat
  /\ \A costs \in {Costs.option, Costs.futures} :
       costs.half_spread \in Nat /\ costs.slippage \in Nat /\ costs.rate_bps \in Nat /\ costs.fixed \in Nat
  /\ \A n \in {Contract.units, Contract.multiplier, Contract.futuresMultiplier, Contract.futuresDelta} :
       n \in Nat \ {0}
  /\ Limits.nav \in Nat /\ Limits.hedges \in Nat
  /\ \A n \in {Hedging.target, Hedging.lower, Hedging.upper, Hedging.cap} : n \in Int
  /\ \A c \in Clocks : c.decisions \in Nat \ {0} /\ c.entry \in Nat

VARIABLES
  pc,          \* where run_simulation is
  policy,      \* policy_id
  kill,        \* manual_kill_switch_engaged
  clock,       \* the decision times of a session, the entry among them, the sessions to
               \* the expiry, the safety buffer, the horizon and the length of the path
  step,        \* step_index
  observed,      \* the market state of the step
  journal,     \* the entries of the ledger
  positions,   \* the positions of the ledger
  risk,        \* risk_state
  earlier,     \* the sum of session_pnl over the sessions that ended
  outcome      \* exit_reason, or why the run was rejected

simulationVars == <<pc, policy, kill, clock, step, observed, journal, positions, risk, earlier, outcome>>

Policies == {"no_hedge", "fixed_interval", "delta_threshold", "constant_band", "whalley_wilmott"}
Options == {"call", "put"}
Traded == Options \cup {"futures"}

\* What a price per unit is counted in: parts of a paisa.
Parts == 10

Abs(n) == IF n < 0 THEN -n ELSE n

\* Decimal.quantize with ROUND_HALF_EVEN, of n / d.
RoundHalfEven(n, d) ==
  LET q == n \div d
      r == 2 * (n % d)
  IN  IF r < d \/ (r = d /\ q % 2 = 0) THEN q ELSE q + 1

\* money
Money(price) == RoundHalfEven(price, Parts)

-----------------------------------------------------------------------------
(* Fills, positions and the ledger                                         *)

\* simulate_fill: the price is the reference, the costs are apart.
Fill(i, change, multiplier, reference, costs) ==
  LET units == Abs(change) * multiplier
      gross == Money(reference * units)
  IN  [instrument |-> i, change |-> change, multiplier |-> multiplier,
       price |-> Money(reference), gross |-> gross,
       cost |-> Money(costs.half_spread * units) + Money(costs.slippage * units)
                + RoundHalfEven(costs.rate_bps * gross, 10000) + Money(costs.fixed)]

NoPosition == [quantity |-> 0, multiplier |-> 0, average |-> 0, mark |-> 0, realized |-> 0]

\* Mutant: a fill that turns a position around keeps the average price.
ApplyFillKeepingAverage(p, f) ==
  LET new == p.quantity + f.change
      adds == p.quantity * f.change >= 0
      closed == IF Abs(p.quantity) < Abs(f.change) THEN Abs(p.quantity) ELSE Abs(f.change)
  IN  [quantity |-> new, multiplier |-> f.multiplier, mark |-> f.price,
       average |-> IF adds
                   THEN RoundHalfEven(p.average * Abs(p.quantity) + f.price * Abs(f.change), Abs(new))
                   ELSE IF new = 0 THEN 0 ELSE p.average,
       realized |-> p.realized + (IF adds THEN 0 ELSE
         (f.price - p.average) * closed * f.multiplier * (IF p.quantity > 0 THEN 1 ELSE -1))]

\* apply_fill: a fill adds to a position, or closes some of it, all of it, or turns
\* it around.
ApplyFill(p, f) ==
  LET new == p.quantity + f.change
      adds == p.quantity * f.change >= 0
      closed == IF Abs(p.quantity) < Abs(f.change) THEN Abs(p.quantity) ELSE Abs(f.change)
  IN  [quantity |-> new, multiplier |-> f.multiplier, mark |-> f.price,
       average |-> IF adds
                   THEN RoundHalfEven(p.average * Abs(p.quantity) + f.price * Abs(f.change), Abs(new))
                   ELSE IF new = 0 THEN 0
                   ELSE IF p.quantity * new < 0 THEN f.price ELSE p.average,
       realized |-> p.realized + (IF adds THEN 0 ELSE
         (f.price - p.average) * closed * f.multiplier * (IF p.quantity > 0 THEN 1 ELSE -1))]

MarketValue(p) == p.mark * p.quantity * p.multiplier

\* record_fill: a trade entry and a cost entry.
Recorded(f, type) ==
  << [type |-> type, instrument |-> f.instrument, change |-> f.change,
      cash |-> IF f.change > 0 THEN -f.gross ELSE f.gross, cost |-> 0],
     [type |-> "transaction_cost", instrument |-> f.instrument, change |-> 0,
      cash |-> -f.cost, cost |-> f.cost] >>

InitialCapital ==
  [type |-> "initial_capital", instrument |-> "none", change |-> 0, cash |-> Limits.nav, cost |-> 0]

\* sum.
Total(amounts) ==
  LET upTo[n \in 0..Len(amounts)] == IF n = 0 THEN 0 ELSE upTo[n - 1] + amounts[n]
  IN  upTo[Len(amounts)]

Cash(ledger) == Total([n \in DOMAIN ledger |-> ledger[n].cash])
TransactionCosts(ledger) == Total([n \in DOMAIN ledger |-> ledger[n].cost])

PortfolioValue(ledger, held) ==
  Cash(ledger) + MarketValue(held["call"]) + MarketValue(held["put"]) + MarketValue(held["futures"])

\* mark: what is held is priced by the state.
Marked(held, m) ==
  [i \in Traded |-> IF held[i].multiplier = 0 THEN held[i] ELSE [held[i] EXCEPT !.mark = Money(m[i])]]

-----------------------------------------------------------------------------
(* The clock                                                               *)

\* generate_simulation_sessions: the first session begins at the entry time.
Session(n) == (clock.entry + n) \div clock.decisions

\* remaining_time_to_expiry, in steps.
TimeToExpiry(n) ==
  IF clock.expiry * clock.decisions > n THEN clock.expiry * clock.decisions - n ELSE 0

-----------------------------------------------------------------------------
(* Risk                                                                    *)

\* initialize_risk_state: the costs of the entry are the first loss.
InitialRisk(value) ==
  [reference |-> Limits.nav, position |-> value - Limits.nav,
   session_reference |-> Limits.nav, session |-> value - Limits.nav,
   previous |-> value, hedges |-> 0, total |-> 0, day |-> Session(0)]

\* Mutant: a new session starts from its first mark.
MarkRiskFromOpen(r, value, day) ==
  IF day # r.day
  THEN [r EXCEPT !.position = value - r.reference, !.session_reference = value,
                 !.session = 0, !.previous = value, !.hedges = 0, !.day = day]
  ELSE [r EXCEPT !.position = value - r.reference, !.session = value - r.session_reference,
                 !.previous = value]

\* mark_risk_state: a new session starts from the last mark of the one before.
MarkRisk(r, value, day) ==
  IF day # r.day
  THEN [r EXCEPT !.position = value - r.reference, !.session_reference = r.previous,
                 !.session = value - r.previous, !.previous = value, !.hedges = 0, !.day = day]
  ELSE [r EXCEPT !.position = value - r.reference, !.session = value - r.session_reference,
                 !.previous = value]

RecordHedge(r) == [r EXCEPT !.hedges = @ + 1, !.total = @ + 1]

\* entry_risk_decisions; quality stands for the spread, the volume, the open interest
\* and the match of the pair.
EntryApproved(fills, theta, quality) ==
  /\ fills["call"].gross + fills["call"].cost + fills["put"].gross + fills["put"].cost <= Limits.premium
  /\ theta <= Limits.theta
  /\ quality

\* state_risk_decisions: the rules whose breach is an exit.
Breached(r) ==
  (IF kill THEN {"manual_kill_switch"} ELSE {})
  \cup (IF r.session <= -Limits.daily THEN {"daily_loss_limit"} ELSE {})
  \cup (IF r.position <= -Limits.position THEN {"position_loss_limit"} ELSE {})
  \cup (IF r.hedges >= Limits.hedges THEN {"maximum_hedge_count"} ELSE {})

\* The kill switch, then strategy.exit.precedence.
Precedence ==
  <<"manual_kill_switch", "daily_loss_limit", "position_loss_limit", "maximum_hedge_count",
    "insufficient_time_to_expiry", "maximum_holding_period", "simulation_end">>

\* _exit_reason_at_state: the reasons of the state,
ExitReasons(r, n) ==
  Breached(r)
  \cup (IF TimeToExpiry(n) < clock.safety * clock.decisions
        THEN {"insufficient_time_to_expiry"} ELSE {})
  \cup (IF Session(n) >= clock.holding THEN {"maximum_holding_period"} ELSE {})
  \cup (IF n = clock.last THEN {"simulation_end"} ELSE {})

\* and the first of them.
IsFirst(reason, reasons) ==
  \E i \in DOMAIN Precedence :
    /\ reason = Precedence[i] /\ reason \in reasons
    /\ \A j \in 1..(i - 1) : Precedence[j] \notin reasons

-----------------------------------------------------------------------------
(* The policies                                                            *)

\* _trade_to_target: the contracts requested.
ToTarget(net, target) == RoundHalfEven(target - net, Contract.futuresDelta)

\* A band is left alone inside, and traded to its nearest boundary outside.
ToBand(net, lower, upper) ==
  IF lower <= net /\ net <= upper THEN 0
  ELSE ToTarget(net, IF net < lower THEN lower ELSE upper)

\* whalley_wilmott_band: the half width is capped.
HalfWidth(m) == IF m.band < Hedging.cap THEN m.band ELSE Hedging.cap

\* decide, of the five policies.
Decided(net) ==
  CASE policy = "no_hedge" -> 0
    [] policy = "fixed_interval" ->
         IF step % Hedging.interval # 0 THEN 0 ELSE ToTarget(net, Hedging.target)
    [] policy = "delta_threshold" ->
         IF Abs(net) <= Hedging.threshold THEN 0 ELSE ToTarget(net, Hedging.target)
    [] policy = "constant_band" -> ToBand(net, Hedging.lower, Hedging.upper)
    [] policy = "whalley_wilmott" -> ToBand(net, -HalfWidth(observed), HalfWidth(observed))

HedgeDelta(held) == held["futures"].quantity * Contract.futuresDelta
NetDelta(m, held) == m.delta + HedgeDelta(held)

After(net, requested) == net + requested * Contract.futuresDelta

Within(net) == Abs(net) <= Limits.delta

\* force_delta_reduction is refused when it does not reduce the delta to the limit.
Unhedgeable(net) ==
  LET forced == ToTarget(net, 0)
  IN  \/ forced = 0
      \/ Abs(After(net, forced)) >= Abs(net)
      \/ ~Within(After(net, forced))

-----------------------------------------------------------------------------
(* run_simulation                                                          *)

OptionFill(i, change, m) == Fill(i, change, Contract.multiplier, m[i], Costs.option)
FuturesFill(change, m) == Fill("futures", change, Contract.futuresMultiplier, m.futures, Costs.futures)

SimulationInit ==
  /\ pc = "entry"
  /\ policy \in Policies /\ kill \in BOOLEAN /\ clock \in Clocks
  /\ step = 0
  /\ observed \in Scenarios
  /\ journal = <<InitialCapital>>
  /\ positions = [i \in Traded |-> NoPosition]
  /\ risk = InitialRisk(Limits.nav)
  /\ earlier = 0
  /\ outcome = "none"

\* The entry is approved, filled and recorded, or the run raises.
Enter(theta, quality) ==
  /\ pc = "entry"
  /\ LET fills == [i \in Options |-> OptionFill(i, Contract.units, observed)]
     IN  IF EntryApproved(fills, theta, quality)
         THEN /\ journal' = journal \o Recorded(fills["call"], "option_entry")
                                    \o Recorded(fills["put"], "option_entry")
              /\ positions' = [i \in Traded |->
                   IF i \in Options THEN ApplyFill(NoPosition, fills[i]) ELSE NoPosition]
              /\ risk' = InitialRisk(PortfolioValue(journal', positions'))
              /\ pc' = "state"
              /\ UNCHANGED outcome
         ELSE /\ pc' = "raised" /\ outcome' = "rejected"
              /\ UNCHANGED <<journal, positions, risk>>
  /\ UNCHANGED <<policy, kill, clock, step, observed, earlier>>

\* A state of the path: the positions and the risk are marked, and a breach or the
\* time exits before the policy is asked.
AtState ==
  /\ pc = "state"
  /\ positions' = Marked(positions, observed)
  /\ risk' = MarkRisk(risk, PortfolioValue(journal, positions'), Session(step))
  /\ earlier' = IF Session(step) # risk.day THEN earlier + risk.session ELSE earlier
  /\ IF ExitReasons(risk', step) # {}
     THEN pc' = "exit" /\ \E reason \in ToSet(Precedence) :
            IsFirst(reason, ExitReasons(risk', step)) /\ outcome' = reason
     ELSE pc' = "decide" /\ UNCHANGED outcome
  /\ UNCHANGED <<policy, kill, clock, step, observed, journal>>

\* The request is filled, and the state marked again.
Hedge(requested) ==
  LET f == FuturesFill(requested, observed)
  IN  /\ IF requested = 0
         THEN UNCHANGED <<journal, positions>>
         ELSE /\ journal' = journal \o Recorded(f, "futures_hedge")
              /\ positions' = [positions EXCEPT !["futures"] = ApplyFill(@, f)]
      /\ risk' = MarkRisk(IF requested = 0 THEN risk ELSE RecordHedge(risk),
                          PortfolioValue(journal', positions'), Session(step))

\* Mutant: the forced hedge is taken without a look at what it leaves.
DecideForced ==
  /\ pc = "decide"
  /\ LET net == NetDelta(observed, positions)
         wanted == Decided(net)
     IN  /\ Hedge(IF Within(After(net, wanted)) THEN wanted ELSE ToTarget(net, 0))
         /\ pc' = "next"
  /\ UNCHANGED <<policy, kill, clock, step, observed, earlier, outcome>>

\* The decision of the policy, or the forced hedge when it would leave too much delta;
\* when that one does not help either, the run exits.
Decide ==
  /\ pc = "decide"
  /\ LET net == NetDelta(observed, positions)
         wanted == Decided(net)
     IN  IF Within(After(net, wanted)) \/ ~Unhedgeable(net)
         THEN /\ Hedge(IF Within(After(net, wanted)) THEN wanted ELSE ToTarget(net, 0))
              /\ pc' = "next"
              /\ UNCHANGED outcome
         ELSE /\ pc' = "exit" /\ outcome' = "absolute_delta_unhedgeable"
              /\ UNCHANGED <<journal, positions, risk>>
  /\ UNCHANGED <<policy, kill, clock, step, observed, earlier>>

\* The next state of the path.
Advance(m) ==
  /\ pc = "next"
  /\ step' = step + 1 /\ observed' = m
  /\ pc' = "state"
  /\ UNCHANGED <<policy, kill, clock, journal, positions, risk, earlier, outcome>>

\* reconcile: what remains of the terminal result beside the fills and their costs.
Residual(ledger, held) ==
  PortfolioValue(ledger, held) - Limits.nav
  - (Total([n \in DOMAIN ledger |-> IF ledger[n].change # 0 THEN ledger[n].cash ELSE 0])
     - TransactionCosts(ledger))

\* The exit: the options are sold and the hedge closed, and the result reconciled.
Exit ==
  /\ pc = "exit"
  /\ LET fills == [i \in Traded |->
                     IF i \in Options THEN OptionFill(i, -positions[i].quantity, observed)
                     ELSE FuturesFill(-positions[i].quantity, observed)]
         closed(i) == IF positions[i].quantity = 0 THEN <<>> ELSE Recorded(fills[i], "close")
     IN  /\ positions' = [i \in Traded |->
              IF positions[i].quantity = 0 THEN positions[i] ELSE ApplyFill(positions[i], fills[i])]
         /\ journal' = journal \o closed("call") \o closed("put") \o closed("futures")
  /\ pc' = "done"
  /\ outcome' = IF Residual(journal', positions') = 0 THEN outcome ELSE "reconciliation_failure"
  /\ UNCHANGED <<policy, kill, clock, step, observed, risk, earlier>>

SimulationNext ==
  \/ \E theta \in Thetas, quality \in BOOLEAN : Enter(theta, quality)
  \/ AtState \/ Decide \/ Exit
  \/ \E m \in Scenarios : Advance(m)

SimulationSpec == SimulationInit /\ [][SimulationNext]_simulationVars

-----------------------------------------------------------------------------
IsTrade(e, i) == e.instrument = i /\ e.change # 0

\* What was held of an instrument after the first n entries of the ledger.
Held(ledger, i, n) ==
  Total([m \in 1..n |-> IF IsTrade(ledger[m], i) THEN ledger[m].change ELSE 0])

\* What the roundings of the trades of an instrument can amount to: a paisa for each
\* unit traded and held at each of them.
Rounding(i) ==
  positions[i].multiplier * Total([n \in DOMAIN journal |->
    IF IsTrade(journal[n], i) THEN Abs(journal[n].change) + Abs(Held(journal, i, n)) ELSE 0])

\* realized_pnl and unrealized_pnl.
Result(p) == p.realized + (p.mark - p.average) * p.quantity * p.multiplier

\* The two accounts of the portfolio agree at every state: its value is the capital
\* and what the positions have realized and not yet realized, less the costs, but for
\* the roundings (record_fill, apply_fill, mark).
AccountsAgree ==
  LET value == PortfolioValue(journal, positions)
      results == Result(positions["call"]) + Result(positions["put"]) + Result(positions["futures"])
      costs == TransactionCosts(journal)
  IN  Abs(value - (Limits.nav + results - costs)) <= Rounding("call") + Rounding("put") + Rounding("futures")

\* A decision never leaves more delta than the limit, whatever its policy wants; no
\* session has more hedges than the limit, and all of them are in the ledger; and
\* however the run ends nothing is held after it and the result has no residual
\* (run_simulation, state_risk_decisions, record_risk_hedge, reconcile).
ExposureControlled ==
  /\ pc = "next" => Within(NetDelta(observed, positions))
  /\ risk.hedges <= Limits.hedges
  /\ risk.total = Cardinality({n \in DOMAIN journal : journal[n].type = "futures_hedge"})
  /\ pc = "done" =>
       (\A i \in Traded : positions[i].quantity = 0) /\ outcome # "reconciliation_failure"

\* The results of the sessions add up to the result of the position: what a gap
\* between two sessions wins or loses is of the second one (mark_risk_state).
SessionsAddUp ==
  pc \notin {"entry", "raised"} => earlier + risk.session = risk.position
=============================================================================
