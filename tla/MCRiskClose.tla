---------------------------- MODULE MCRiskClose ----------------------------
(* RiskClose with the rules of its runs.                                   *)
EXTENDS RiskClose, TLC

\* One signal rule.
MCConditionOne == 1 :> "always"
MCTargetOne == 1 :> 0

\* A signal rule that closes half, and a stop loss.
MCConditionTwo == 1 :> "always" @@ 2 :> "stop"
MCTargetTwo == 1 :> 0 @@ 2 :> 0

\* Two signal rules: they have the same condition.
MCConditionSame == 1 :> "always" @@ 2 :> "always"

\* A signal rule, and a batch of default rules: a profit trigger and the
\* drawdown rule that it activates.
MCCondition == 1 :> "always" @@ 2 :> "trigger" @@ 3 :> "drawdown"
MCTarget == 1 :> 0 @@ 2 :> 3 @@ 3 :> 0
MCBatches == {{2, 3}}
=============================================================================
