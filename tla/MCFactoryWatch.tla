--------------------------- MODULE MCFactoryWatch ---------------------------
(* Quota data: the reserve reached, in a window that lasts two ticks.        *)
EXTENDS FactoryWatch

LowQuota == {[limit |-> 100, remaining |-> 1, cost |-> 1, until |-> 2]}
=============================================================================
