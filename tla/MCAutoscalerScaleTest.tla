----------------------- MODULE MCAutoscalerScaleTest -----------------------
(* Three groups, as in the spec; a faulty autoscaler grows all of them,    *)
(* one more than maxNodesTotal leaves room for.                            *)
EXTENDS AutoscalerScaleTest

CONSTANTS g1, g2, g3
=============================================================================
