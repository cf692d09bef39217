--------------------------- MODULE MCLlmFailover ---------------------------
(* A small instance of LlmFailover for TLC: two models of one provider, in *)
(* a group and alone.                                                      *)
EXTENDS LlmFailover

CONSTANTS m1, m2, p1

MCModels == {m1, m2}
MCProviders == {p1}
MCProvider == [m \in MCModels |-> p1]
MCChains == {<<m1, m2>>, <<m2>>}
=============================================================================
