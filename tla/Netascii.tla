------------------------------ MODULE Netascii ------------------------------
(* The conversion loop of temp_netascii_file (src/MP3/src/tftpserver.c): a    *)
(* file is copied character by character, a line feed becoming CR LF and a    *)
(* carriage return CR NUL. The second character of such a pair waits in       *)
(* nextChar until the next getc has returned, end of file included.           *)
(* A record [pos, nextChar, out] is the loop's state: how far the text is     *)
(* read, what waits, and what fputc was given.                                *)
EXTENDS Integers, Sequences, FiniteSets

NUL == 0
LF == 10
CR == 13
Chars == {NUL, LF, CR, 120}

None == -1          \* nextChar when nothing waits
EOF == -1           \* what getc returns at the end

LoopStart == [pos |-> 0, nextChar |-> None, out |-> <<>>]

getc(text, c) == IF c.pos < Len(text) THEN text[c.pos + 1] ELSE EOF

WaitsPositive(c) == c.nextChar > 0     \* variant: a waiting NUL is lost
Waits(c) == c.nextChar >= 0

Flushed(c) == IF Waits(c) THEN Append(c.out, c.nextChar) ELSE c.out

(* One iteration of the loop on a character, and the last one, at the end.    *)
ConvertChar(text, c) ==
  LET char == getc(text, c)
  IN [pos |-> c.pos + 1,
      nextChar |-> CASE char = LF -> LF [] char = CR -> NUL [] OTHER -> None,
      out |-> Append(Flushed(c), IF char = LF THEN CR ELSE char)]

ConvertEnd(c) == [c EXCEPT !.nextChar = None, !.out = Flushed(c)]

------------------------------------------------------------------------------
(* The netascii form of a text (RFC 764), by its definition: a line feed is    *)
(* CR LF, a carriage return CR NUL, in the order of the text. Place is where   *)
(* the form of character i begins: the pairs before it count twice.            *)
Pairs == {LF, CR}
First(char) == IF char \in Pairs THEN CR ELSE char
Second(char) == IF char = LF THEN LF ELSE NUL

Place(s, i) == i + Cardinality({j \in 1 .. i - 1 : s[j] \in Pairs})

(* out is the form of the first n characters of s. *)
IsNetascii(s, n, out) ==
  /\ Len(out) = Place(s, n + 1) - 1
  /\ \A i \in 1 .. n :
       /\ out[Place(s, i)] = First(s[i])
       /\ s[i] \in Pairs => out[Place(s, i) + 1] = Second(s[i])
=============================================================================
