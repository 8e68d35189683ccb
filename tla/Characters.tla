---------------------------- MODULE Characters ----------------------------
(***************************************************************************)
(* The characters that keyboard, screen and line editor tell apart.        *)
(* KEY_DEL is not below ' ' and so is typed into a line; CONTROL stands    *)
(* for the control characters that are ignored; NO is no character.        *)
(***************************************************************************)
CONSTANTS NO, NUL, SPACE, NEWLINE, RETURN, BACKSPACE, TAB, CONTROL, KEY_DEL

Printable == {"a", "A", SPACE, KEY_DEL}

ASSUME CharactersAssumption ==
    /\ {NUL, NEWLINE, RETURN, BACKSPACE, TAB, CONTROL} \cap Printable = {}
    /\ BACKSPACE \notin {NEWLINE, RETURN, TAB} /\ NEWLINE # RETURN
=============================================================================
