------------------------------- MODULE MCUgen -------------------------------
(* Two ugens and a subpatch with an inlet~, a ugen and an outlet~, wired in *)
(* every way; one pair of ports may be connected twice.                     *)
EXTENDS Ugen

MCUgens == {"A", "B", "S", "I", "U", "O"}
MCClass == [u \in MCUgens |-> CASE u = "S" -> "canvas" [] u = "I" -> "inlet"
                                [] u = "O" -> "outlet" [] OTHER -> "plain"]
MCNIn   == [u \in MCUgens |-> CASE u = "B" -> 2 [] u = "I" -> 0 [] OTHER -> 1]
MCNOut  == [u \in MCUgens |-> IF u = "O" THEN 0 ELSE 1]
MCOwner == [u \in MCUgens |-> IF u \in {"A", "B", "S"} THEN "top" ELSE "S"]
MCIndex == [u \in MCUgens |-> 1]
MCLists == {<<"A", "B", "S", "I", "U", "O">>, <<"O", "U", "I", "S", "B", "A">>}
MCWires == << <<"A", 1, "B", 1>>, <<"A", 1, "B", 2>>, <<"A", 1, "S", 1>>,
              <<"B", 1, "A", 1>>, <<"B", 1, "S", 1>>, <<"S", 1, "A", 1>>,
              <<"S", 1, "B", 1>>, <<"S", 1, "B", 2>>, <<"A", 1, "S", 1>>,
              <<"I", 1, "U", 1>>, <<"I", 1, "O", 1>>, <<"U", 1, "U", 1>>,
              <<"U", 1, "O", 1>> >>
MCModes == {"none", "reblock", "switch"}
=============================================================================
