------------------------------ MODULE MCQlist -------------------------------
(* Three objects that share a symbol and one with its own; a list with leading *)
(* numbers and several messages in a line, and a short one.                    *)
EXTENDS Qlist

MCName  == [o \in Objects |-> IF o = "o3" THEN "t" ELSE "s"]
MCLoads == {[s \in Symbols |-> <<>>],
            [s \in Symbols |-> IF s = "t" THEN <<"o3">> ELSE <<"o2", "o1">>]}
MCLists == {<<"s", "x", "f", ",", "t", "$", ";", "f", "t", "x", ";">>, <<"f", "s", "f">>}
=============================================================================
