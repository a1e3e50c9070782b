---------------------------- MODULE MCAgentLoop ----------------------------
(***************************************************************************)
(* A session with a read-only tool and a state-changing one, in a shop.  A  *)
(* hook may replace the model's click by an edit.  Rules deny edits in the *)
(* shop and always ask for the read-only tool there; a click is asked for  *)
(* anywhere else (so also on a page nobody could resolve), and in the shop *)
(* nothing is configured for it: there the classifier is consulted.        *)
(***************************************************************************)
EXTENDS AgentLoop, TLC

CONSTANTS look, click, edit, observe, mutate, shop

MCToolOf == [c \in Calls |-> IF c = look THEN observe ELSE mutate]
MCNormal == [c \in Calls |-> c]
MCRewrites == [c \in Calls |-> IF c = click THEN {edit} ELSE {}]

Pattern(decision, calls, domains, notDomains, always) ==
    [decision |-> decision, calls |-> calls, domains |-> domains, notDomains |-> notDomains,
     targets |-> {}, always |-> always]

MCRules == {Pattern("deny", {edit}, {shop}, {}, FALSE),
            Pattern("ask", {click}, {}, {shop}, FALSE),
            Pattern("ask", {look}, {shop}, {}, TRUE)}
=============================================================================
