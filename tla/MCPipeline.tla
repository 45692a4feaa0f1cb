----------------------------- MODULE MCPipeline -----------------------------
(***************************************************************************)
(* Pipeline with the GW filter and the two JSON filters of filters/, run   *)
(* by the hourly and nightly schedules of the README, or by one of them.   *)
(***************************************************************************)
EXTENDS Pipeline

CONSTANTS hourly, nightly, a1, a2

MCFilters == <<"localize", "luminous", "nearby">>

MCTwoFilters == <<"localize", "luminous">>

MCDisabled ==
  [r \in Runs |-> IF r = nightly THEN {"localize"} ELSE {"luminous"}]

MCAllEnabled == [r \in Runs |-> {}]
=============================================================================
