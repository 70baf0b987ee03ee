------------------------------- MODULE MCGui --------------------------------
(* Two clients, a ring of four bytes.  One of the user's texts ends in a    *)
(* backslash, so that its semicolon is escaped, and two of it fill the      *)
(* ring; the other is two messages, and odd, so that an escaped semicolon   *)
(* may be at the start of the ring.                                         *)
EXTENDS Gui

MCUserMsgs == {<<"backslash">>, <<"semi", "m">>}
=============================================================================
