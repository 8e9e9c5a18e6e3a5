----------------------------- MODULE MCCommodity -----------------------------
(* Three states on values 0 to 5, tuned in several ways.                     *)
EXTENDS Commodity

MCStateBounds == <<0, 2, 4>>
MCMiddleThreshold == <<NoData, [cmp |-> "ge", val |-> 3], NoData>>
MCTopThreshold == <<NoData, NoData, [cmp |-> "ge", val |-> 5]>>
MCFailureThreshold == [cmp |-> "le", val |-> 0]
MCOffLotThreshold == [cmp |-> "le", val |-> 1]

\* No property reads turned of a commodity whose alarm was overtaken, and what
\* the commodity does depends on neither.
Read == <<stat, overtaken, turned /\ ~overtaken>>

\* The tuning of the runs is one of those a theorem is about, and the one of
\* the middle state is not: a value of the top state meets its threshold.
ASSUME TuningAssumption == BuffAddThreshold = MCTopThreshold => BuffTuning
ASSUME OtherTuningAssumption == BuffAddThreshold = MCMiddleThreshold => ~BuffTuning
==============================================================================
