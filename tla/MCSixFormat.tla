----------------------------- MODULE MCSixFormat -----------------------------
(***************************************************************************)
(* Model checking of SixFormat: values of up to two characters, every one  *)
(* that is escaped, one that an escape ends in, and one of two bytes.      *)
(***************************************************************************)
EXTENDS SixFormat, TLC

MCCharacters == {Tab, Newline, Return, Backslash, TwoBytes, "t", "n"}

MCIds == {<<Tab>>, <<"t", Return>>}

MCValues == {<<>>, <<Newline, "t">>, <<Backslash, "n">>, <<TwoBytes, Return>>, <<Return>>}

MCNumberByte == [n \in Numbers |-> ToString(n)]
===============================================================================
