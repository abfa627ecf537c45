------------------------------ MODULE MCProxy ------------------------------
(* Proxy for TLC: three pages, and room for two. *)
EXTENDS Proxy, TLC

Symmetry == Permutations(Urls)

Response(e, m, d) == [expires |-> e, modified |-> m, date |-> d]

(* With an Expires date, one or none that can be read, or without; with or    *)
(* without the others.                                                        *)
Various == {Response(2, TRUE, TRUE), Response(NoDate, FALSE, TRUE),
            Response(0, TRUE, TRUE), Response(0, FALSE, TRUE), Response(0, FALSE, FALSE)}
Plain == {Response(2, FALSE, FALSE)}
=============================================================================
