----------------------------- MODULE MCToolTurn -----------------------------
(***************************************************************************)
(* A read-only tool that owns a "notes" argument and a state-changing one  *)
(* whose schema its server may replace by a closed one, by one that owns   *)
(* the harness' approval argument, or withdraw.  The session starts with   *)
(* every mode and with no rules, or with two that meet on one call.        *)
(***************************************************************************)
EXTENDS ToolTurn

CONSTANTS look, click, d1, buy, one, two

MCTools == {look, click}
MCCalls == [tool : MCTools, args : Args]
MCToolOf == [c \in MCCalls |-> c.tool]

Declares(owns, closed) == [owns |-> owns, closed |-> closed]

MCSchemas == [t \in MCTools |->
    IF t = look THEN {Declares({"notes"}, TRUE)}
    ELSE {Declares({}, FALSE), Declares({}, TRUE), Declares({"approval", "notes"}, FALSE), None}]

MCUpdates == [v \in Values \cup {None} |-> IF v = one THEN {two} ELSE {}]

Says(value, stray, approval, notes) ==
    [value |-> value, stray |-> stray, approval |-> approval, notes |-> notes]

Call(named, tool, readable, args) ==
    [named |-> named, tool |-> tool, readable |-> readable, args |-> args]

Spoken == {Call(TRUE, click, TRUE, Says(one, FALSE, approval, notes)) :
              approval \in {"absent", "declined", "stated"}, notes \in {"absent", "written"}}
          \cup {Call(TRUE, click, TRUE, Says(two, TRUE, "stated", "written")),
                Call(TRUE, click, FALSE, Says(one, FALSE, "stated", "absent")),
                Call(TRUE, look, TRUE, Says(one, TRUE, "absent", "written")),
                Call(TRUE, look, TRUE, Says(one, FALSE, "stated", "absent"))}

Unnamed == Call(FALSE, click, TRUE, Says(one, FALSE, "absent", "absent"))
ByText == Call(TRUE, click, TRUE, Says(one, FALSE, "stated", "written"))

Object(kind, called, final, status, call) ==
    [kind |-> kind, request |-> called, final |-> final, status |-> status, call |-> call]

Objects == {Object("tool", TRUE, FALSE, "none", ByText),
            Object("tool", FALSE, FALSE, "none", Unnamed),
            Object("other", TRUE, FALSE, "none", ByText),
            Object("other", FALSE, TRUE, "none", Unnamed),
            Object("answer", FALSE, TRUE, "none", Unnamed),
            Object("delegate", FALSE, FALSE, "none", Unnamed),
            Object("failed", FALSE, FALSE, "none", Unnamed),
            Object("stop", FALSE, FALSE, "done", Unnamed)}

Reply(calls, objects, text) == [calls |-> calls, objects |-> objects, text |-> text]

MCReplies == {Reply(<<Unnamed, c>>, <<>>, TRUE) : c \in Spoken}
             \cup {Reply(<<Unnamed>>, <<o>>, TRUE) : o \in Objects}
             \cup {Reply(<<>>, <<>>, text) : text \in BOOLEAN}

Pattern(decision, calls, domains, notDomains, targets, always) ==
    [decision |-> decision, calls |-> calls, domains |-> domains,
     notDomains |-> notDomains, targets |-> targets, always |-> always]

Clicks == {c \in MCCalls : c.tool = click}
Twos == {c \in Clicks : c.args.value = two}

DenyTwos == Pattern("deny", Twos, {d1}, {}, {}, FALSE)
DenyBuying == Pattern("deny", Clicks, {}, {}, {buy}, FALSE)
AskElsewhere == Pattern("ask", Clicks, {}, {d1}, {}, FALSE)
AskClicks == Pattern("ask", Clicks, {}, {}, {}, FALSE)
AlwaysAskBuying == Pattern("ask", MCCalls, {}, {}, {buy}, TRUE)
AllowClicks == Pattern("allow", Clicks, {d1}, {}, {}, FALSE)

MCRuleSets == {{}, {AlwaysAskBuying, AllowClicks}, {AskClicks, DenyTwos},
               {AskElsewhere, DenyBuying}, {AllowClicks, DenyTwos}}
=============================================================================
