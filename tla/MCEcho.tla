------------------------------- MODULE MCEcho -------------------------------
(* Echo for TLC: a client with any short text, and two with no input. The     *)
(* buffers hold two characters and the NUL.                                   *)
EXTENDS Echo

CONSTANTS any, silent1, silent2

MCClients == {any, silent1, silent2}
MCChars == {"x", "y", LF, NUL}
Longer == {<<"x", "y", "x", LF>>, <<"x", LF, "y", LF>>}
MCTexts == [c \in MCClients |->
  IF c = any THEN BoundedSeq({"x", LF, NUL}, 3) \cup Longer ELSE {<<>>}]
=============================================================================
