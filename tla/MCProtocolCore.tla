-------------------------- MODULE MCProtocolCore --------------------------
(***************************************************************************)
(* ProtocolCore on a small instance: a small and a large template, of      *)
(* which the reserves cover one large or several small certificates.       *)
(***************************************************************************)
EXTENDS ProtocolCore

CONSTANTS small, large

MCCapDown == [t \in TemplateIds |-> IF t = large THEN 2 ELSE 1]
MCCapUp == [t \in TemplateIds |-> 0]
MCTenor == [t \in TemplateIds |-> 1]
=============================================================================
