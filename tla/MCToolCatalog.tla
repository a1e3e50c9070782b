---------------------------- MODULE MCToolCatalog ----------------------------
(***************************************************************************)
(* The browser's server and another one.  The browser has a tool that is   *)
(* named like a qualified name of the other's; the other has two tools     *)
(* whose names are the same once they are made safe, and one whose name is *)
(* too long.                                                               *)
(***************************************************************************)
EXTENDS ToolCatalog

CONSTANTS browser, files

Click == <<browser, "click">>
Odd   == <<browser, "files__read">>
Read  == <<files, "read">>
Dot   == <<files, "a.b">>
Under == <<files, "a_b">>
Long  == <<files, "longest">>

MCTools == {Click, Odd, Read, Dot, Under, Long}
MCOrder == <<Click, Odd, Dot, Under, Long, Read>>
MCBefore == {<<MCOrder[p[1]], MCOrder[p[2]]>> : p \in {q \in (1..6) \X (1..6) : q[1] < q[2]}}
MCLists == [s \in Servers |->
    IF s = browser THEN {{Click}, {Click, Odd}} ELSE {{Read, Dot}, {Dot, Under, Long}}]
MCLocal == [t \in MCTools |-> IF t = Dot THEN None ELSE t[2]]
MCBase == [t \in MCTools |->
    CASE t = Click -> "browser__click" [] t = Odd -> "browser__files__read"
      [] t = Read -> "files__read" [] t = Long -> "files__longest" [] OTHER -> "files__a_b"]
MCHashed == [t \in MCTools |->
    CASE t = Click -> "browser__click_1" [] t = Odd -> "browser__files__read_2"
      [] t = Read -> "files__read_3" [] t = Dot -> "files__a_b_4" [] t = Under -> "files__a_b_5"
      [] t = Long -> "files__longe_6"]
MCShort == MCTools \ {Long}
=============================================================================
