------------------------------- MODULE EmaRules -------------------------------
(***************************************************************************)
(* The EMA filter: events of the price at exponential averages of some     *)
(* periods, and the spikes and crosses of the EMA wave.                    *)
(*                                                                         *)
(* The average of period P is a fraction with the denominator (P + 1) ^ k; *)
(* a price is compared with its numerator on that scale.  The three lines  *)
(* of the wave, averages of averages, are given.                           *)
(***************************************************************************)
EXTENDS Oscillators

CONSTANTS EmaWarmup, EmaMostHistory   \* periods of history, 5, but no more than 500 candles
ASSUME WarmupAssumption == EmaWarmup \in Nat \ {0} /\ EmaMostHistory \in Nat \ {0}

\* required_ema_history
EmaNeeds(period) == Smaller(EmaMostHistory, Larger(1, period) * EmaWarmup)

Scale(i, period) == (period + 1) ^ (i - 1)
Ema(cs, period) ==
  LET n[i \in 1 .. Len(cs)] ==
        IF i = 1 THEN cs[1].close
        ELSE 2 * cs[i].close * Scale(i - 1, period) + (period - 1) * n[i - 1]
  IN n

----------------------------------------------------------------------------
(* Conditions: [min, max, stillAbove] for each that is enabled. *)

EmaDefault(condition) ==
  [min |-> 0, max |-> IF condition = "close_above" THEN 0 ELSE 5, stillAbove |-> TRUE]

\* Conditions that are named take their place; without any the rule, which is
\* "close_above" when it is not given, is asked of the newest candle.
EmaConditions(config) ==
  IF config.conditions # {} THEN [c \in config.conditions |-> EmaDefault(c)]
  ELSE [c \in {IF config.rule = Missing THEN "close_above" ELSE config.rule} |->
          [min |-> config.min, max |-> config.max, stillAbove |-> TRUE]]

EmaTouch(cs, ema, period, i) ==
  LET s == Scale(i, period)
  IN /\ i > 1 /\ cs[i - 1].close * Scale(i - 1, period) > ema[i - 1]
     /\ cs[i].low * s <= ema[i] /\ cs[i].high * s >= ema[i] /\ cs[i].close * s > ema[i]
EmaPierce(cs, ema, period, i) ==
  LET s == Scale(i, period)
  IN /\ i > 1 /\ cs[i - 1].close * Scale(i - 1, period) < ema[i - 1]
     /\ cs[i].low * s < ema[i] /\ cs[i].high * s >= ema[i] /\ cs[i].close * s > ema[i]
EmaAbove(cs, ema, period, i) == cs[i].close * Scale(i, period) > ema[i]
EmaBelow(cs, ema, period, i) == cs[i].close * Scale(i, period) < ema[i]

EmaEventAt(cs, ema, period, condition, i) ==
  CASE condition = "touch_from_above" -> EmaTouch(cs, ema, period, i)
    [] condition = "piercing_from_below" -> EmaPierce(cs, ema, period, i)
    [] condition = "touched_or_pierced_and_closed_above" ->
         EmaTouch(cs, ema, period, i) \/ EmaPierce(cs, ema, period, i)
    [] condition = "close_above" -> EmaAbove(cs, ema, period, i)
    [] condition = "legacy_below" -> EmaBelow(cs, ema, period, i)
    [] OTHER -> FALSE
EmaEvent(cs, period, condition) ==
  LET ema == Ema(cs, period)
  IN Latest({i \in 1 .. Len(cs) : EmaEventAt(cs, ema, period, condition, i)})

EmaConditionPasses(cs, period, condition, range) ==
  /\ AgeInRange(EmaEvent(cs, period, condition), Len(cs), range.min, range.max)
  /\ condition = "touched_or_pierced_and_closed_above" /\ range.stillAbove =>
       EmaAbove(cs, Ema(cs, period), period, Len(cs))

\* A period passes with all of its conditions, given enough history.
EmaPeriodPasses(cs, period, conditions) ==
  /\ Len(cs) >= EmaNeeds(period) /\ DOMAIN conditions # {}
  /\ \A c \in DOMAIN conditions : EmaConditionPasses(cs, period, c, conditions[c])

EmaPasses(candles, config) ==
  LET cs == Completed(candles)
      periods == IF config.periods = <<>> THEN <<9>> ELSE config.periods
  IN /\ Len(cs) >= 2
     /\ ModePasses([k \in DOMAIN periods |-> EmaPeriodPasses(cs, periods[k], EmaConditions(config))],
                   config.mode)

----------------------------------------------------------------------------
(* The wave [a, b, c], at the last candle that all three have a value at. *)

\* A line is more than cutoff times the faster one.
Spikes(slow, fast, i, cutoff) ==
  /\ Known(slow, {i}) /\ Known(fast, {i}) /\ fast[i] # 0
  /\ IF fast[i] > 0 THEN slow[i] > cutoff * fast[i] ELSE slow[i] < cutoff * fast[i]

WavePoint(w) == Latest({i \in DOMAIN w.a : Known(w.a, {i}) /\ Known(w.b, {i}) /\ Known(w.c, {i})})

EmaWavePasses(w, config) ==
  LET i == WavePoint(w)
      b == Spikes(w.b, w.a, i, config.cutoff)
      c == Spikes(w.c, w.b, i, config.cutoff)
      s == w[config.wave]
      amount == Absolute(config.threshold) * config.tolerance
      over(k) == 100 * s[k] - 100 * config.threshold
  IN /\ i # Missing
     /\ CASE config.rule = "any_spike" -> b \/ c
          [] config.rule = "both_spikes" -> b /\ c
          [] config.rule = "wave_b_spike" -> b
          [] config.rule = "wave_c_spike" -> c
          [] config.rule = "above" -> over(i) >= -amount
          [] config.rule = "below" -> over(i) <= amount
          [] config.rule = "crossed_up" -> Known(s, {i - 1}) /\ over(i - 1) <= amount /\ over(i) >= -amount
          [] config.rule = "crossed_down" -> Known(s, {i - 1}) /\ over(i - 1) >= -amount /\ over(i) <= amount
          [] OTHER -> FALSE
=============================================================================
