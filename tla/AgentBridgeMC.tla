--------------------------- MODULE AgentBridgeMC ---------------------------
(***************************************************************************)
(* Two calls for pages of one host, which may overlap or follow one        *)
(* another; either may learn something the other does not.                 *)
(***************************************************************************)
EXTENDS AgentBridge, TLC

CONSTANTS c1, c2, shop, selector

MCCalls == {c1, c2}
MCDomains == {shop}
MCDomainOf == (c1 :> shop) @@ (c2 :> shop)
MCFacts == {selector}
=============================================================================
