------------------------- MODULE MCKeyboardLayouts -------------------------
(* One file of up to three lines of any kind or with every section twice,   *)
(* and directories of up to three plain files, more than two slots hold.    *)
EXTENDS KeyboardLayouts

Plain(code) == <<[kind |-> "[metadata]"], [kind |-> "code", value |-> code],
                 [kind |-> "[layout]"], [kind |-> "key", scancode |-> 30, value |-> "a"]>>
Plains == {Plain(c) : c \in Codes}
PlainFiles == [ext : {"conf", "layout"}, lines : Plains \cup {<<>>}]

MCLayoutDirs ==
  {<<f>> : f \in [ext : {"conf", "layout"}, lines : SeqOf(LayoutLine, 3)]}
    \cup {<<f>> : f \in [ext : {"conf", "layout"}, lines : {p \o q : p \in Plains, q \in Plains}]}
    \cup SeqOf(PlainFiles, 3)
=============================================================================
