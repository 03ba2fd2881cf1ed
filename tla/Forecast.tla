------------------------------ MODULE Forecast -----------------------------
(***************************************************************************)
(* The burn-rate forecast of one quota window (internal/forecast), over    *)
(* the samples the store holds of it.  Percentages are whole, times are    *)
(* whole minutes; a rate or an instant that need not be whole is a pair of *)
(* a numerator and a positive denominator, so that nothing is rounded.     *)
(***************************************************************************)
EXTENDS Integers, Sequences, FiniteSets, FiniteSetsExt

CONSTANTS
  Times,       \* when samples are observed
  Percents,    \* the used percentages they report
  Resets,      \* the reset times they report
  MaxSamples   \* most samples

VARIABLE history \* the samples, as the store returns them: by time of observation

vars == <<history>>

NoReset == 0     \* the provider has reported none

ResetWindowTolerance == 2
JumpWindowTolerance == 10
JumpPercentTolerance == 5

Samples == [at : Times, used : Percents, reset : Resets \cup {NoReset}]

Init == history = <<>>

\* A sample is stored; `once --store` can store an older one than the daemon has
Record(s) ==
  /\ Len(history) < MaxSamples
  /\ \E i \in 0..Len(history) :
       /\ \A j \in 1..i : history[j].at <= s.at
       /\ \A j \in (i+1)..Len(history) : s.at < history[j].at
       /\ history' = SubSeq(history, 1, i) \o <<s>> \o SubSeq(history, i+1, Len(history))

Next == \E s \in Samples : Record(s)

Spec == Init /\ [][Next]_vars

-----------------------------------------------------------------------------
(***************************************************************************)
(* stableSamples: of the samples of the current reset window, those after  *)
(* the last sudden change                                                  *)
(***************************************************************************)
SameResetWindow(a, b) == a - b \in -ResetWindowTolerance..ResetWindowTolerance

\* Which samples of history h are of the reset window of its latest one
OfLatestWindow(h) ==
  LET latest == h[Len(h)].reset
  IN  IF h = <<>> \/ latest = NoReset
      THEN DOMAIN h
      ELSE { i \in DOMAIN h : h[i].reset # NoReset /\ SameResetWindow(h[i].reset, latest) }

\* The quota was given back, or used up faster than anybody works
Restart(before, after) ==
  \/ after.used + 1 < before.used
  \/ /\ after.used - before.used > JumpPercentTolerance
     /\ after.at - before.at <= JumpWindowTolerance

\* i is the sample after j among the samples w
Follows(w, j, i) == j < i /\ \A k \in w : k <= j \/ i <= k

Restarts(h, w) == { i \in w : \E j \in w : Follows(w, j, i) /\ Restart(h[j], h[i]) }

\* Mutant of StableSamples: only the first sudden change is looked for
StableSamplesFromFirst(h) ==
  LET w == OfLatestWindow(h)
      restarts == Restarts(h, w)
  IN  IF restarts = {} THEN w ELSE { i \in w : i >= Min(restarts) }

StableSamples(h) ==
  LET w == OfLatestWindow(h)
      restarts == Restarts(h, w)
  IN  IF restarts = {} THEN w ELSE { i \in w : i >= Max(restarts) }

-----------------------------------------------------------------------------
(***************************************************************************)
(* linearRegression: the slope in percent per minute, as a numerator and a *)
(* denominator; 0 over 0 when all samples are of the same instant          *)
(***************************************************************************)
Slope(h, samples) ==
  LET n == Cardinality(samples)
      X == [i \in samples |-> h[i].at - h[Min(samples)].at]
      Y == [i \in samples |-> h[i].used]
      XY == [i \in samples |-> X[i] * Y[i]]
      XX == [i \in samples |-> X[i] * X[i]]
  IN  [num |-> n * SumFunction(XY) - SumFunction(X) * SumFunction(Y),
       den |-> n * SumFunction(XX) - SumFunction(X) * SumFunction(X)]

\* Mutant of Burn: a falling usage is taken for a burn rate
BurnSigned(h, samples) ==
  LET slope == Slope(h, samples) IN IF slope.den = 0 THEN [num |-> 0, den |-> 1] ELSE slope

\* No burn below a thousandth of a percent per hour
Burn(h, samples) ==
  LET slope == Slope(h, samples)
  IN  IF slope.den = 0 \/ slope.num * 60000 < slope.den THEN [num |-> 0, den |-> 1] ELSE slope

\* When the window reaches the threshold, counted from the last sample
EstimateThreshold(last, burn, threshold) ==
  IF last.used >= threshold
  THEN [num |-> 0, den |-> 1]
  ELSE [num |-> (threshold - last.used) * burn.den, den |-> burn.num]

\* What the window will have used when it resets
ProjectedResetPercent(last, burn) ==
  [num |-> last.used * burn.den + burn.num * (last.reset - last.at), den |-> burn.den]

\* What Calculate says of a history; samples are the ones it rests on
Calculate(h) ==
  LET samples == StableSamples(h)
      last == h[Max(samples)]
      burn == Burn(h, samples)
  IN  IF Cardinality(samples) < 2
      THEN [samples |-> samples, projects |-> FALSE,
            reason |-> IF samples = {} THEN "no_samples" ELSE "one_sample"]
      ELSE [samples |-> samples,
            projects |-> last.reset # NoReset /\ last.reset >= last.at,
            reason |-> IF burn.num = 0 THEN "flat_usage" ELSE "none",
            projected |-> ProjectedResetPercent(last, burn),
            estimated90 |-> EstimateThreshold(last, burn, 90),
            estimated100 |-> EstimateThreshold(last, burn, 100)]

-----------------------------------------------------------------------------
(***************************************************************************)
(* Properties                                                              *)
(***************************************************************************)
AtMost(a, b) == a.num * b.den <= b.num * a.den

\* The forecast is about the current window only: none of its samples is from
\* before a reset, seen as a reset time that has moved, or as quota that was
\* given back; and it leaves out no sample without such a reason
CurrentWindowOnly ==
  LET samples == Calculate(history).samples
      last == history[Len(history)]
      w == OfLatestWindow(history)
  IN  /\ \A i, j \in samples : Follows(samples, j, i) => ~Restart(history[j], history[i])
      /\ history # <<>> =>
           /\ Len(history) \in samples
           /\ last.reset # NoReset =>
                \A i \in samples : SameResetWindow(history[i].reset, last.reset)
           /\ \A k \in w \ samples : \E i \in samples, j \in w \ samples :
                k <= j /\ Follows(w, j, i) /\ Restart(history[j], history[i])

\* The three numbers shown next to each other agree: the window is exhausted
\* before it resets exactly when it is projected to reset at 100 % or more,
\* 90 % comes first, and a window does not un-use what it has used
ForecastConsistent ==
  LET f == Calculate(history)
      last == history[Max(f.samples)]
      untilReset == [num |-> last.reset - last.at, den |-> 1]
  IN  /\ f.reason = "none" =>
           /\ AtMost(f.estimated90, f.estimated100)
           /\ f.projects =>
                (AtMost(f.estimated100, untilReset)
                   <=> AtMost([num |-> 100, den |-> 1], f.projected))
      /\ f.projects => AtMost([num |-> last.used, den |-> 1], f.projected)

=============================================================================
