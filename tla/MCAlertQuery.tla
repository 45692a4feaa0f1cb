---------------------------- MODULE MCAlertQuery ----------------------------
(***************************************************************************)
(* AlertQuery on a schedule of three runs: the lookback of one file is     *)
(* overlaid by another, bounds are given or not, and the limit is one.     *)
(***************************************************************************)
EXTENDS AlertQuery, TLC

Lookback(n) == [s \in {"lookback"} |-> n]
Between(t, u) == [s \in {"start", "end"} |-> IF s = "start" THEN t ELSE u]
From(t) == [s \in {"start"} |-> t]
UpTo(n) == [s \in {"limit"} |-> n]

MCTicks == [r \in Runs |-> 2 * (r - 1)]

MCConfigFiles ==
  { <<Lookback(1), Lookback(5)>>,          \* an overlay names a longer window
    <<Lookback(3), UpTo(1)>>,              \* a limit
    <<Between(1, 2)>>,                     \* both bounds
    <<Lookback(1), Between(1, 2)>>,        \* both bounds and a lookback
    <<Lookback(1), From(2)>>,              \* a start, the end is now
    <<UpTo(1)>> }                          \* no window at all

Symmetric == Permutations(Alerts)
=============================================================================
