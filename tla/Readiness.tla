------------------------------ MODULE Readiness ------------------------------
(***************************************************************************)
(* The readiness score of a reading, in units of One, rounded down.        *)
(* Degrees, volts and percents are in thousandths.                         *)
(***************************************************************************)
EXTENDS Integers, Sequences, Selection

CONSTANT NonFinite  \* a value that is infinite or no number

ASSUME NonFiniteAssumption == NonFinite \notin Int

One == 1000

HealthUnits == {"C", "mV", "%"}

\* _HEALTH_BANDS; the bands of V and mV are one.
BandOf(unit) ==
  CASE unit = "C"  -> [nomLow |-> -10000, nomHigh |-> 50000, hardLow |-> -40000, hardHigh |-> 85000]
    [] unit = "mV" -> [nomLow |-> 3300,   nomHigh |-> 8400,  hardLow |-> 0,      hardHigh |-> 12000]
    [] unit = "%"  -> [nomLow |-> 0,      nomHigh |-> 90000, hardLow |-> 0,      hardHigh |-> 100000]

Below(value, band) == ((value - band.hardLow) * One) \div (band.nomLow - band.hardLow)
Above(value, band) == ((band.hardHigh - value) * One) \div (band.hardHigh - band.nomHigh)

\* Mutant of Health: the linear part reaches beyond the hard limits.
HealthUnclipped(value, band) ==
  IF value = NonFinite THEN 0
  ELSE IF value >= band.nomLow /\ value <= band.nomHigh THEN One
  ELSE IF value < band.nomLow THEN Below(value, band) ELSE Above(value, band)

\* _metric_health: 1 in the nominal band, 0 outside the hard limits, linear
\* in between.
Health(value, band) ==
  IF value = NonFinite THEN 0
  ELSE IF value >= band.nomLow /\ value <= band.nomHigh THEN One
  ELSE IF value < band.hardLow \/ value > band.hardHigh THEN 0
  ELSE IF value < band.nomLow THEN Below(value, band) ELSE Above(value, band)

\* compute_readiness_score: the mean of the contributions, or One without any.
Score(metrics) ==
  LET relevant == Selected(metrics, { k \in DOMAIN metrics : metrics[k].unit \in HealthUnits })
      sum[i \in 0 .. Len(relevant)] ==
        IF i = 0 THEN 0 ELSE sum[i - 1] + Health(relevant[i].value, BandOf(relevant[i].unit))
  IN IF relevant = << >> THEN One ELSE sum[Len(relevant)] \div Len(relevant)

=============================================================================
