--------------------------- MODULE MCLangfuseSync ---------------------------
EXTENDS LangfuseSync

CONSTANT dev

(* Two scenarios; the second one's trace goes whole, or in two bodies when *)
(* more of the content is captured.                                        *)
MCRows == <<"log in", "buy">>
MCSpans == [r \in {"log in", "buy"} |->
               IF r = "log in" THEN <<"scenario">> ELSE <<"scenario", "tool">>]
MCSettings == {[capture |-> "none", limit |-> 2], [capture |-> "redacted", limit |-> 2]}
MCSizeOf(span, capture) == IF span = "tool" /\ capture = "redacted" THEN 2 ELSE 1
MCFailed == {"buy"}
=============================================================================
