------------------------- MODULE MC_MachineResolver -------------------------
(* Two machines at most, two uuids, names that collide with an id and with *)
(* a braced id, and tokens of every shape: a name, a bare uuid, a braced   *)
(* uuid as `list` prints it, and a word nothing answers to.               *)
EXTENDS MachineResolver, TLC

MC_Chars == {"{", "}", "a", "b", "c", "z"}
MC_Uuids == {<<"a">>, <<"b">>}
MC_Names == {<<"a">>, <<"c">>, <<"{", "b", "}">>}
MC_Tokens == {<<"a">>, <<"b">>, <<"c">>, <<"{", "a", "}">>, <<"{", "b", "}">>,
              <<"z">>}
MC_MaxMachines == 2
=============================================================================
