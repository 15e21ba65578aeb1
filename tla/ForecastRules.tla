--------------------------- MODULE ForecastRules ----------------------------
(***************************************************************************)
(* The arithmetic of the forecasting package: weekly panel, baselines,     *)
(* rolling origins, features, accuracy and promotion gates.                *)
(*                                                                         *)
(* A day is an integer and day 0 a Monday; week w holds the days           *)
(* w * DaysPerWeek onwards.  A panel is balanced: panel[c][w] for every    *)
(* entity c, a store and a category, and an interval of weeks.  A filing   *)
(* gives each product of a catalog its category.  Predictions and errors   *)
(* count parts of 1/Scale, so that a mean of up to Window weeks is whole.  *)
(* Floating-point rounding is left out.                                    *)
(***************************************************************************)
EXTENDS Integers, FiniteSets, FiniteSetsExt, Functions

CONSTANTS DaysPerWeek,   \* 7 in the code
          Stores, Categories, Products,   \* codes a catalog may list
          SeasonalLag,   \* weeks, 52 in the code
          Window,        \* weeks averaged, 4 in the code
          Lags,          \* lag features, in weeks
          Validation, Test,   \* weeks held out, 4 and 8 in the code
          Scale          \* a multiple of every number up to Window

ASSUME WeekAssumption == DaysPerWeek \in Nat \ {0}
ASSUME CatalogAssumption == IsFiniteSet(Stores) /\ IsFiniteSet(Categories)
ASSUME LagAssumption ==
  /\ SeasonalLag \in Nat \ {0} /\ Window \in Nat \ {0}
  /\ Lags \subseteq Nat \ {0}
ASSUME HoldoutAssumption == Validation \in Nat \ {0} /\ Test \in Nat \ {0}
ASSUME ScaleAssumption ==
  Scale \in Nat \ {0} /\ \A k \in 1..Window : Scale % k = 0

-----------------------------------------------------------------------------
(* weeks.py, frame.py and database_frame.py                                *)

WeekOf(day) == day \div DaysPerWeek
Monday(week) == week * DaysPerWeek

\* Mutant: weeks the history only touches are kept.
TouchedWeeks(first, last) == WeekOf(first)..WeekOf(last)

CompleteWeeks(first, last) ==
  {w \in WeekOf(first)..WeekOf(last) :
     first <= Monday(w) /\ Monday(w + 1) - 1 <= last}

SpanOf(days) ==
  IF days = {} THEN {} ELSE CompleteWeeks(Min(days), Max(days))

Span(sales) == SpanOf({s.day : s \in sales})

EntityOf(sale, filed) == <<sale.store, filed[sale.product]>>

Demand(sales, filed, entity, week) ==
  LET sold == {s \in sales : EntityOf(s, filed) = entity /\ WeekOf(s.day) = week}
  IN  SumFunction([s \in sold |-> s.units])

Panel(sales, filed, entities, weeks) ==
  [c \in entities |-> [w \in weeks |-> Demand(sales, filed, c, w)]]

\* The file-backed builder covers the stores of its catalog and the categories
\* that have a product; without a sale it takes the span of its calendar.  The
\* database one covers the stores and the categories it read.
FilePanel(sales, catalog, calendar) ==
  Panel(sales, catalog.filed, catalog.stores \X Range(catalog.filed),
        IF sales = {} THEN SpanOf(calendar) ELSE Span(sales))
DatabasePanel(sales, filed, known, weeks) ==
  Panel(sales, filed, known.stores \X known.categories, weeks)

Periods(panel) == UNION {DOMAIN panel[c] : c \in DOMAIN panel}

-----------------------------------------------------------------------------
(* models.py: the baselines read the weeks up to the cutoff                *)

Models == {"naive", "seasonal_naive", "moving_average"}

Seen(panel, c, cutoff) == {w \in DOMAIN panel[c] : w <= cutoff}
Trailing(weeks, n) == {w \in weeks : Cardinality({v \in weeks : v > w}) < n}

Naive(panel, c, cutoff) == Scale * panel[c][Max(Seen(panel, c, cutoff))]

SeasonalNaive(panel, c, cutoff, step) ==
  LET lookback == cutoff + step - SeasonalLag
  IN  IF lookback \in Seen(panel, c, cutoff)
      THEN Scale * panel[c][lookback]
      ELSE Naive(panel, c, cutoff)

MovingAverage(panel, c, cutoff) ==
  LET recent == Trailing(Seen(panel, c, cutoff), Window)
  IN  (Scale * SumFunction([w \in recent |-> panel[c][w]])) \div Cardinality(recent)

Predict(model, panel, c, cutoff, step) ==
  CASE model = "naive" -> Naive(panel, c, cutoff)
    [] model = "seasonal_naive" -> SeasonalNaive(panel, c, cutoff, step)
    [] model = "moving_average" -> MovingAverage(panel, c, cutoff)

Predictions(model, panel, cutoff, horizon) ==
  [p \in (DOMAIN panel) \X (1..horizon) |->
     Predict(model, panel, p[1], cutoff, p[2])]

-----------------------------------------------------------------------------
(* metrics.py: a score keeps the sum of the absolute errors, the sum of    *)
(* the actuals and the number of points.  With no demand at all the error  *)
(* is what was predicted.                                                  *)

Distance(a, b) == IF a < b THEN b - a ELSE a - b

Scored(panel, cutoff, horizon) ==
  {p \in (DOMAIN panel) \X (1..horizon) : cutoff + p[2] \in DOMAIN panel[p[1]]}

Score(panel, cutoff, horizon, predicted) ==
  LET points == Scored(panel, cutoff, horizon)
      Actual(p) == Scale * panel[p[1]][cutoff + p[2]]
  IN  [error  |-> SumFunction([p \in points |-> Distance(predicted[p], Actual(p))]),
       actual |-> SumFunction([p \in points |-> Actual(p)]),
       count  |-> Cardinality(points)]

\* Mutant: demand invented where there was none counts as perfect.
WapeSwapped(score) ==
  IF score.actual > 0 THEN <<score.error, score.actual>>
  ELSE IF score.error = 0 THEN <<1, 1>> ELSE <<0, 1>>

\* A fraction, as numerator and denominator.
Wape(score) ==
  IF score.actual > 0 THEN <<score.error, score.actual>>
  ELSE IF score.error = 0 THEN <<0, 1>> ELSE <<1, 1>>
Mae(score) == <<score.error, score.count>>

Below(f, g) == f[1] * g[2] < g[1] * f[2]
AtMost(f, g) == f[1] * g[2] <= g[1] * f[2]

-----------------------------------------------------------------------------
(* promotion.py: the two gates.  champions holds the champion's score, or  *)
(* nothing.                                                                *)

AccuracyGate(candidate, baselines, champions) ==
  \A other \in baselines \cup champions : Below(Wape(candidate), Wape(other))

\* At most the champion's error, or the lowest baseline's where there is none.
SecondaryGate(candidate, baselines, champions) ==
  \A other \in IF champions # {} THEN champions ELSE baselines :
    AtMost(Mae(candidate), Mae(other))

EvaluatePromotion(candidate, baselines, champions) ==
  /\ baselines \cup champions # {}
  /\ AccuracyGate(candidate, baselines, champions)
  /\ SecondaryGate(candidate, baselines, champions)

-----------------------------------------------------------------------------
(* backtest.py and split.py                                                *)

\* The k-th week of the panel, counted from one.
Period(panel, k) == Min(Periods(panel)) + k - 1

\* Mutant: the last origin lacks one observed week.
OriginsToTheEnd(panel, horizon, minTrain) ==
  {Period(panel, k) : k \in minTrain..(Cardinality(Periods(panel)) - horizon + 1)}

RollingOrigins(panel, horizon, minTrain) ==
  {Period(panel, k) : k \in minTrain..(Cardinality(Periods(panel)) - horizon)}

TrainEnd(panel, validation, test) == Max(Periods(panel)) - validation - test

Fold(model, panel, cutoff, horizon) ==
  LET predicted == Predictions(model, panel, cutoff, horizon)
  IN  [model |-> model, cutoff |-> cutoff, horizon |-> horizon,
       predicted |-> predicted,
       score |-> Score(panel, cutoff, horizon, predicted)]

Folds(panel, horizon, minTrain) ==
  {Fold(model, panel, cutoff, horizon) :
     model \in Models, cutoff \in RollingOrigins(panel, horizon, minTrain)}

-----------------------------------------------------------------------------
(* features.py and feature_panel.py.  The rolling statistics and the       *)
(* commercial lags are functions of the weeks they read.                   *)

\* Mutant: a lag may look between the cutoff and the target week.
LagValueAhead(panel, c, period, lag, cutoff) ==
  IF period - lag \in DOMAIN panel[c] THEN panel[c][period - lag] ELSE 0

LagValue(panel, c, period, lag, cutoff) ==
  IF period - lag <= cutoff /\ period - lag \in DOMAIN panel[c]
  THEN panel[c][period - lag] ELSE 0

Rolling(panel, c, period, cutoff) ==
  LET eligible == {w \in DOMAIN panel[c] : w < period /\ w <= cutoff}
  IN  [w \in Trailing(eligible, Window) |-> panel[c][w]]

LastObserved(panel, c, period, cutoff) ==
  LET earlier == {w \in DOMAIN panel[c] : w <= cutoff /\ w < period}
  IN  {panel[c][w] : w \in Trailing(earlier, 1)}

FeatureRow(panel, c, origin, step) ==
  [entity |-> c, origin |-> origin, step |-> step,
   lags |-> [l \in Lags |-> LagValue(panel, c, origin + step, l, origin)],
   rolling |-> Rolling(panel, c, origin + step, origin),
   observed |-> LastObserved(panel, c, origin + step, origin)]

\* The rows a model is fitted on, with their labels.
Supervised(panel, trainEnd, horizon, minHistory) ==
  {[row |-> FeatureRow(panel, c, origin, step), label |-> panel[c][origin + step]] :
     c \in DOMAIN panel, step \in 1..horizon,
     origin \in {w \in Periods(panel) :
                   /\ w <= trainEnd - horizon
                   /\ Cardinality({v \in Periods(panel) : v <= w}) >= minHistory}}

\* The rows a fitted model predicts from.
InferenceRows(panel, cutoff, horizon) ==
  {FeatureRow(panel, c, cutoff, step) : c \in DOMAIN panel, step \in 1..horizon}

=============================================================================
