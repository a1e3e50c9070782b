----------------------------- MODULE MCHistory -----------------------------
(***************************************************************************)
(* A page snapshot and a list tool; a server that gives one id to all its  *)
(* calls; a guard before the call, and after it an audit that must not     *)
(* fail and two hooks that each take one kind out.                         *)
(***************************************************************************)
EXTENDS History

Hook(id, tools, failClosed, kinds) ==
    [id |-> id, tools |-> tools, failClosed |-> failClosed, kinds |-> kinds]

MCRegistry ==
    [goal_start |-> <<Hook("briefing", {}, "default", {})>>,
     pre_tool_use |-> <<Hook("guard", {"page"}, "default", {})>>,
     post_tool_use |-> <<Hook("mails", {}, "default", {"mail"}),
                         Hook("audit", {"page"}, "yes", {}),
                         Hook("cards", {"page"}, "default", {"card"})>>,
     stop |-> <<Hook("grounded", {}, "default", {})>>]

MCAnswersOf ==
    [briefing |-> {ParseCommandOutput("goal_start", 0, s) : s \in {"text", "nothing"}}
                    \union {ParseCommandOutput("goal_start", 1, "nothing")},
     guard |-> {ParseCommandOutput("pre_tool_use", c, "nothing") : c \in {0, 1}},
     mails |-> {"mask"},
     audit |-> {ParseCommandOutput("post_tool_use", c, "nothing") : c \in {1, 2}},
     cards |-> {"mask", "fails"},
     grounded |-> {"nothing", "deny"}]
=============================================================================
