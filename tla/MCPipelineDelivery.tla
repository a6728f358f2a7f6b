------------------------- MODULE MCPipelineDelivery -------------------------
\* Two writers, one of them with a retry; k1 matches the first action, every
\* row the second, which wants all of them.
EXTENDS PipelineDelivery, TLC

CONSTANTS w1, w2, k1, k2, bad

MCRetries   == w1 :> 1 @@ w2 :> 0
MCCondition == 1 :> {k1} @@ 2 :> {k1, k2, bad}
==============================================================================
