---------------------------- MODULE MCTerminal ----------------------------
EXTENDS Terminal

Key(code)    == [code |-> code, ext |-> FALSE]
ExtKey(code) == [code |-> code, ext |-> TRUE]

\* Left shift, right control, alt.
MCModifiers == {Key(42), ExtKey(29), Key(56)}

\* Backspace, enter, "a", space, delete.
MCOthers == {Key(14), Key(28), Key(30), Key(57), ExtKey(83)}

MCPrompt   == <<">">>
MCCommands == (<<"A">> :> <<TAB, NEWLINE>>)
MCUnknown  == <<">">>
MCTooMany  == <<">", NEWLINE>>
=============================================================================
