---------------------------- MODULE TftpTempProofs ----------------------------
(* Proofs about Netascii and TftpTemp, for texts of any length, any number of *)
(* sessions and any size of the buffers of stdio.                             *)
EXTENDS TftpTemp, FiniteSetTheorems, WellFoundedInduction, TLAPS

------------------------------------------------------------------------------
(* Where the form of a character begins. *)

(* The pairs before a place are finitely many. *)
LEMMA PairsBefore ==
  ASSUME NEW s, NEW i \in Nat
  PROVE  LET before == {j \in 1 .. i - 1 : s[j] \in Pairs}
         IN IsFiniteSet(before) /\ Cardinality(before) \in Nat
<1> DEFINE before == {j \in 1 .. i - 1 : s[j] \in Pairs}
<1>1. IsFiniteSet(1 .. i - 1)
  BY FS_Interval
<1>2. IsFiniteSet(before)
  BY <1>1, FS_Subset
<1>3. Cardinality(before) \in Nat
  BY <1>2, FS_CardinalityType
<1> QED
  BY <1>2, <1>3

(* No form begins before its character. *)
LEMMA PlaceIsNumber ==
  ASSUME NEW s, NEW i \in Nat
  PROVE  Place(s, i) \in Nat /\ Place(s, i) >= i
<1> DEFINE before == {j \in 1 .. i - 1 : s[j] \in Pairs}
<1>1. Cardinality(before) \in Nat
  BY PairsBefore
<1>2. Place(s, i) = i + Cardinality(before)
  BY DEF Place
<1> HIDE DEF before
<1> QED
  BY <1>1, <1>2

(* The first one begins at the beginning. *)
LEMMA PlaceFirst == \A s : Place(s, 1) = 1
<1> TAKE s
<1>1. {j \in 1 .. 1 - 1 : s[j] \in Pairs} = {}
  OBVIOUS
<1>2. Cardinality({}) = 0
  BY FS_EmptySet
<1> QED
  BY <1>1, <1>2 DEF Place

(* A pair takes two characters, any other character one. *)
LEMMA PlaceNext ==
  ASSUME NEW s, NEW i \in Nat \ {0}
  PROVE  Place(s, i + 1) = Place(s, i) + (IF s[i] \in Pairs THEN 2 ELSE 1)
<1> DEFINE before(k) == {j \in 1 .. k - 1 : s[j] \in Pairs}
<1>1. IsFiniteSet(before(i)) /\ Cardinality(before(i)) \in Nat
  BY PairsBefore
<1>2. i \notin before(i)
  OBVIOUS
<1>3. before(i + 1) = IF s[i] \in Pairs THEN before(i) \cup {i} ELSE before(i)
  OBVIOUS
<1>4. Place(s, i) = i + Cardinality(before(i)) /\ Place(s, i + 1) = i + 1 + Cardinality(before(i + 1))
  BY DEF Place
<1> HIDE DEF before
<1>5. Cardinality(before(i) \cup {i}) = Cardinality(before(i)) + 1
  BY <1>1, <1>2, FS_AddElement
<1> QED
  BY <1>1, <1>3, <1>4, <1>5

(* Forms do not overlap, and their order is that of the characters. *)
LEMMA PlaceGrows ==
  ASSUME NEW s, NEW i \in Nat, NEW k \in Nat, i <= k
  PROVE  Place(s, i) <= Place(s, k)
<1> DEFINE before(n) == {j \in 1 .. n - 1 : s[j] \in Pairs}
<1>1. /\ IsFiniteSet(before(k)) /\ Cardinality(before(k)) \in Nat
      /\ Cardinality(before(i)) \in Nat
  BY PairsBefore
<1>2. before(i) \subseteq before(k)
  OBVIOUS
<1>3. Cardinality(before(i)) <= Cardinality(before(k))
  BY <1>1, <1>2, FS_Subset
<1>4. Place(s, i) = i + Cardinality(before(i)) /\ Place(s, k) = k + Cardinality(before(k))
  BY DEF Place
<1> HIDE DEF before
<1> QED
  BY <1>1, <1>3, <1>4

LEMMA FormsApart ==
  ASSUME NEW s, NEW i \in Nat \ {0}, NEW k \in Nat, i < k
  PROVE  Place(s, i) + (IF s[i] \in Pairs THEN 2 ELSE 1) <= Place(s, k)
<1>1. Place(s, i + 1) <= Place(s, k)
  BY PlaceGrows
<1> QED
  BY <1>1, PlaceNext

(* It depends on the characters before it only. *)
LEMMA PlaceOfPrefix ==
  ASSUME NEW s, NEW t, NEW i \in Nat, \A j \in 1 .. i - 1 : s[j] = t[j]
  PROVE  Place(s, i) = Place(t, i)
<1>1. {j \in 1 .. i - 1 : s[j] \in Pairs} = {j \in 1 .. i - 1 : t[j] \in Pairs}
  OBVIOUS
<1> QED
  BY <1>1 DEF Place

------------------------------------------------------------------------------
(* The conversion loop. *)

Loops == [pos : Nat, nextChar : {None, NUL, LF}, out : Seq(Chars)]

(* What a step of the loop appends to. *)
LEMMA FlushedIsWaiting ==
  ASSUME NEW c \in Loops
  PROVE  /\ Flushed(c) = c.out \o Waiting(c)
         /\ Flushed(c) \in Seq(Chars)
         /\ Len(Flushed(c)) >= Len(c.out)
         /\ \A i \in 1 .. Len(c.out) : Flushed(c)[i] = c.out[i]
BY DEF Loops, Flushed, Waits, Waiting, None, NUL, LF, CR, Chars

(* One character more is converted. *)
LEMMA ConvertCharConverts ==
  ASSUME NEW t \in Seq(Chars), NEW c \in Loops, c.pos < Len(t),
         IsNetascii(t, c.pos, c.out \o Waiting(c))
  PROVE  LET d == ConvertChar(t, c)
         IN /\ d \in Loops /\ d.pos = c.pos + 1
            /\ IsNetascii(t, d.pos, d.out \o Waiting(d))
            /\ Len(d.out) > Len(c.out)
            /\ \A i \in 1 .. Len(c.out) : d.out[i] = c.out[i]
<1> DEFINE char == t[c.pos + 1]
           done == Flushed(c)
           d == ConvertChar(t, c)
           n == c.pos + 1
<1>1. char \in Chars /\ n \in Nat \ {0} /\ c.pos \in Nat /\ n <= Len(t)
  BY DEF Loops
<1>2. /\ done = c.out \o Waiting(c) /\ done \in Seq(Chars)
      /\ Len(done) >= Len(c.out)
      /\ \A i \in 1 .. Len(c.out) : done[i] = c.out[i]
  BY FlushedIsWaiting
<1>3. getc(t, c) = char
  BY DEF getc
<1>4. /\ d.pos = n
      /\ d.nextChar = (CASE char = LF -> LF [] char = CR -> NUL [] OTHER -> None)
      /\ d.out = Append(done, IF char = LF THEN CR ELSE char)
      /\ d = [pos |-> d.pos, nextChar |-> d.nextChar, out |-> d.out]
  BY <1>3 DEF ConvertChar
<1> HIDE DEF done, d, char, n
<1>5. (IF char = LF THEN CR ELSE char) \in Chars
  BY <1>1 DEF Chars, CR
<1>6. d \in Loops
  <2>1. d.nextChar \in {None, NUL, LF}
    BY <1>4
  <2>2. d.out \in Seq(Chars)
    BY <1>2, <1>4, <1>5
  <2> QED
    BY <1>1, <1>4, <2>1, <2>2 DEF Loops
<1>7. /\ Waiting(d) = IF char \in Pairs THEN <<Second(char)>> ELSE <<>>
      /\ (IF char = LF THEN CR ELSE char) = First(char)
  BY <1>4 DEF Waiting, Pairs, First, Second, None, NUL, LF, CR
<1>8. Second(char) \in Chars /\ First(char) \in Chars
  BY <1>1 DEF First, Second, Chars
<1>9. d.out = Append(done, First(char))
  BY <1>4, <1>7
<1>10. /\ Len(d.out) = Len(done) + 1
       /\ \A i \in 1 .. Len(done) : d.out[i] = done[i]
  BY <1>2, <1>8, <1>9
<1> DEFINE whole == d.out \o Waiting(d)
<1>11. /\ Len(whole) = Len(done) + (IF char \in Pairs THEN 2 ELSE 1)
       /\ \A i \in 1 .. Len(done) : whole[i] = done[i]
       /\ whole[Len(done) + 1] = First(char)
       /\ char \in Pairs => whole[Len(done) + 2] = Second(char)
  <2>1. CASE char \in Pairs
    <3>1. whole = Append(done, First(char)) \o <<Second(char)>>
      BY <1>7, <1>9, <2>1
    <3> QED
      BY <1>2, <1>8, <2>1, <3>1
  <2>2. CASE char \notin Pairs
    <3>1. whole = Append(done, First(char)) \o <<>>
      BY <1>7, <1>9, <2>2
    <3> QED
      BY <1>2, <1>8, <2>2, <3>1
  <2> QED
    BY <2>1, <2>2
<1> HIDE DEF whole
<1>12. /\ Len(done) = Place(t, n) - 1
       /\ Place(t, n) \in Nat
       /\ Place(t, n + 1) = Place(t, n) + (IF char \in Pairs THEN 2 ELSE 1)
  <2>1. Len(done) = Place(t, c.pos + 1) - 1
    BY <1>2 DEF IsNetascii
  <2> QED
    BY <1>1, <2>1, PlaceIsNumber, PlaceNext DEF n, char
<1>13. Len(whole) = Place(t, n + 1) - 1
  BY <1>11, <1>12
<1>14. ASSUME NEW i \in 1 .. n
       PROVE  /\ whole[Place(t, i)] = First(t[i])
              /\ t[i] \in Pairs => whole[Place(t, i) + 1] = Second(t[i])
  <2>1. CASE i = n
    BY <1>11, <1>12, <2>1 DEF n, char
  <2>2. CASE i # n
    <3>1. i \in 1 .. c.pos /\ i < n /\ i \in Nat \ {0}
      BY <1>1, <2>2 DEF n
    <3>2. /\ done[Place(t, i)] = First(t[i])
          /\ t[i] \in Pairs => done[Place(t, i) + 1] = Second(t[i])
      BY <1>2, <3>1 DEF IsNetascii
    <3>3. Place(t, i) \in Nat /\ Place(t, i) >= i
      BY <3>1, PlaceIsNumber
    <3>4. Place(t, i) + (IF t[i] \in Pairs THEN 2 ELSE 1) <= Place(t, n)
      BY <1>1, <3>1, FormsApart
    <3>5. /\ Place(t, i) \in 1 .. Len(done)
          /\ t[i] \in Pairs => Place(t, i) + 1 \in 1 .. Len(done)
      BY <1>12, <3>1, <3>3, <3>4
    <3> QED
      BY <1>11, <3>2, <3>5
  <2> QED
    BY <2>1, <2>2
<1>15. IsNetascii(t, n, whole)
  BY <1>13, <1>14 DEF IsNetascii
<1> QED
  BY <1>2, <1>4, <1>6, <1>10, <1>15 DEF d, n, whole

(* At the end of the text nothing waits any more. *)
LEMMA ConvertEndConverts ==
  ASSUME NEW c \in Loops
  PROVE  LET d == ConvertEnd(c)
         IN /\ d \in Loops /\ d.pos = c.pos /\ d.nextChar = None
            /\ d.out = c.out \o Waiting(c) /\ d.out \o Waiting(d) = c.out \o Waiting(c)
            /\ Len(d.out) >= Len(c.out)
            /\ \A i \in 1 .. Len(c.out) : d.out[i] = c.out[i]
<1>1. /\ Flushed(c) = c.out \o Waiting(c) /\ Flushed(c) \in Seq(Chars)
      /\ Len(Flushed(c)) >= Len(c.out)
      /\ \A i \in 1 .. Len(c.out) : Flushed(c)[i] = c.out[i]
  BY FlushedIsWaiting
<1> DEFINE d == ConvertEnd(c)
<1>2. d.pos = c.pos /\ d.nextChar = None /\ d.out = Flushed(c) /\ d \in Loops
  <2> HIDE DEF Flushed
  <2> QED
    BY <1>1 DEF ConvertEnd, Loops
<1>3. Flushed(c) \o <<>> = Flushed(c)
  BY <1>1
<1> QED
  BY <1>1, <1>2, <1>3 DEF Loops, Waiting

(* A text of the same form has the same characters: what was converted can be *)
(* read back. The first difference would show in the form.                    *)
THEOREM FormTellsText ==
  ASSUME NEW s \in Seq(Chars), NEW t \in Seq(Chars), NEW out,
         IsNetascii(s, Len(s), out), IsNetascii(t, Len(t), out)
  PROVE  s = t
<1> DEFINE both(i) == i \in 1 .. Len(s) /\ i \in 1 .. Len(t)
           Differ == {i \in Nat : both(i) /\ s[i] # t[i]}
<1>1. ASSUME NEW i \in Nat, both(i), \A j \in 1 .. i - 1 : s[j] = t[j]
      PROVE  s[i] = t[i]
  <2>1. Place(s, i) = Place(t, i)
    BY <1>1, PlaceOfPrefix
  <2>2. First(s[i]) = First(t[i])
    BY <1>1, <2>1 DEF IsNetascii
  <2>3. s[i] \in Pairs /\ t[i] \in Pairs => Second(s[i]) = Second(t[i])
    BY <1>1, <2>1 DEF IsNetascii
  <2> QED
    BY <2>2, <2>3 DEF First, Second, Pairs, CR, LF, NUL
<1>2. Differ = {}
  <2> SUFFICES ASSUME Differ # {} PROVE FALSE
    OBVIOUS
  <2>1. PICK i \in Differ : \A j \in Differ : ~(<<j, i>> \in OpToRel(<, Nat))
    <3>1. Differ \subseteq Nat
      OBVIOUS
    <3> HIDE DEF Differ
    <3> QED
      BY <3>1, NatLessThanWellFounded, WFMin
  <2>2. \A j \in Differ : ~(j < i)
    BY <2>1 DEF OpToRel
  <2>3. \A j \in 1 .. i - 1 : s[j] = t[j]
    BY <2>2
  <2> QED
    BY <1>1, <2>3
<1>3. \A i \in Nat : both(i) => s[i] = t[i]
  BY <1>2
<1>4. ASSUME NEW x \in Seq(Chars), NEW y \in Seq(Chars), Len(x) < Len(y),
             \A j \in 1 .. Len(x) : x[j] = y[j],
             IsNetascii(x, Len(x), out), IsNetascii(y, Len(y), out)
      PROVE  FALSE
  <2>1. Place(x, Len(x) + 1) = Place(y, Len(x) + 1)
    BY <1>4, PlaceOfPrefix
  <2>2. Place(y, Len(x) + 1) < Place(y, Len(y) + 1)
    <3>1. Place(y, Len(x) + 1) + (IF y[Len(x) + 1] \in Pairs THEN 2 ELSE 1) <= Place(y, Len(y) + 1)
      BY <1>4, FormsApart
    <3> QED
      BY <3>1, PlaceIsNumber
  <2>3. Place(x, Len(x) + 1) - 1 = Place(y, Len(y) + 1) - 1
    BY <1>4 DEF IsNetascii
  <2>4. Place(x, Len(x) + 1) \in Nat /\ Place(y, Len(y) + 1) \in Nat
    BY PlaceIsNumber
  <2> QED
    BY <2>1, <2>2, <2>3, <2>4
<1>5. Len(s) = Len(t)
  <2>1. ~(Len(s) < Len(t))
    BY <1>3, <1>4
  <2>2. ~(Len(t) < Len(s))
    BY <1>3, <1>4
  <2> QED
    BY <2>1, <2>2
<1> QED
  BY <1>3, <1>5
------------------------------------------------------------------------------
(* The invariant. *)

States == {"new", "uncreated", "convert", "end", "closed", "send", "sent", "done", "failed",
           "crashed"}
Streams == [given : Nat, buf : Seq(Chars), offset : Nat]

(* The variables have their types, and a session has a file open when it      *)
(* writes or reads one.                                                       *)
TypeOK ==
  /\ clock \in 0 .. LastSecond
  /\ pc \in [Sessions -> States]
  /\ text \in [Sessions -> Texts]
  /\ loop \in [Sessions -> Loops]
  /\ stream \in [Sessions -> Streams]
  /\ start \in [Sessions -> 0 .. LastSecond]
  /\ open \in [Sessions -> Sessions \cup {NoFile}]
  /\ sent \in [Sessions -> Seq(Chars)]
  /\ dir \in [0 .. LastSecond -> Sessions \cup {NoFile}]
  /\ content \in [Sessions -> Seq(Chars)]
  /\ \A s \in Sessions : pc[s] \in {"convert", "end", "send", "sent"} => open[s] # NoFile

(* The conversion has read no further than the text goes, and all of it when  *)
(* it has ended. *)
Reading ==
  \A s \in Sessions :
    /\ loop[s].pos <= Len(text[s])
    /\ pc[s] = "new" => loop[s] = LoopStart /\ sent[s] = <<>> /\ stream[s] = Opened
    /\ pc[s] \notin {"new", "uncreated", "convert"} =>
         loop[s].pos = Len(text[s]) /\ loop[s].nextChar = None

(* As long as no write has failed the buffer holds what fputc was given last, *)
(* and all of the output is in the file when that is closed.                  *)
Kept(out, st) ==
  /\ st.given <= Len(out) /\ st.given >= st.offset + Len(st.buf)
  /\ Whole(st) => st.buf = SubSeq(out, st.offset + 1, st.given)

Streaming ==
  \A s \in Sessions :
    /\ Kept(loop[s].out, stream[s])
    /\ pc[s] \notin {"new", "uncreated", "convert", "end"} /\ Whole(stream[s]) =>
         stream[s].offset = Len(loop[s].out)

(* A file belongs to the second of the session that created it: its name, and *)
(* whoever opens it, are of that second.                                      *)
Named ==
  /\ \A n \in DOMAIN dir : dir[n] # NoFile => pc[dir[n]] # "new" /\ start[dir[n]] = n
  /\ \A s \in Sessions : open[s] # NoFile =>
       /\ pc[s] # "new" /\ pc[open[s]] # "new"
       /\ start[open[s]] = start[s]

(* A file has in it what was written of the output, unless a write has failed.*)
Holds(file, out, st) == Whole(st) => file = SubSeq(out, 1, st.offset)

(* A session alone in its second has its own file, which has in it what was   *)
(* written of its conversion.                                                 *)
OwnFile(s) ==
  /\ pc[s] \in {"convert", "end", "closed", "send", "sent", "failed"} => dir[start[s]] = s
  /\ pc[s] \in {"convert", "end", "send", "sent"} => open[s] = s
  /\ pc[s] \in {"convert", "end", "closed"} => sent[s] = <<>>
  /\ pc[s] \in {"convert", "end", "closed", "send", "sent", "failed"} =>
       Holds(content[s], loop[s].out, stream[s])
  /\ Whole(stream[s]) =>
       /\ pc[s] = "send" =>
            /\ Len(sent[s]) <= Len(loop[s].out)
            /\ sent[s] = SubSeq(loop[s].out, 1, Len(sent[s]))
       /\ pc[s] \in {"sent", "done"} => sent[s] = loop[s].out

Alone == \A s \in Sessions : pc[s] # "new" /\ ~Shares(s) => OwnFile(s)

Inductive ==
  /\ TypeOK /\ ConvertedSoFar /\ Reading /\ Streaming /\ Named /\ Alone
  /\ LeftoversAreFailures

------------------------------------------------------------------------------
(* What stdio writes. *)

(* Writing at any offset leaves a file of characters. *)
LEMMA WrittenType ==
  ASSUME NEW file \in Seq(Chars), NEW from \in Nat, NEW chars \in Seq(Chars)
  PROVE  Written(file, from, chars) \in Seq(Chars)
<1> DEFINE to == from + Len(chars)
           n == IF to > Len(file) /\ chars # <<>> THEN to ELSE Len(file)
<1>1. n \in Nat
  OBVIOUS
<1>2. ASSUME NEW i \in from + 1 .. to PROVE chars[i - from] \in Chars
  <2>1. i - from \in 1 .. Len(chars)
    OBVIOUS
  <2> QED
    BY <2>1
<1>3. \A i \in 1 .. n :
        (IF i \in from + 1 .. to THEN chars[i - from]
         ELSE IF i <= Len(file) THEN file[i] ELSE NUL) \in Chars
  BY <1>2 DEF Chars
<1> HIDE DEF n
<1>4. [i \in 1 .. n |-> IF i \in from + 1 .. to THEN chars[i - from]
                        ELSE IF i <= Len(file) THEN file[i] ELSE NUL] \in Seq(Chars)
  BY <1>1, <1>3
<1> QED
  BY <1>4 DEF Written, n

(* Writing goes on where it was: the file is again a beginning of the output. *)
LEMMA WrittenOn ==
  ASSUME NEW out \in Seq(Chars), NEW from \in Nat, NEW to \in Nat,
         from <= to, to <= Len(out)
  PROVE  Written(SubSeq(out, 1, from), from, SubSeq(out, from + 1, to)) = SubSeq(out, 1, to)
<1> DEFINE file == SubSeq(out, 1, from)
           chars == SubSeq(out, from + 1, to)
<1>1. /\ Len(file) = from /\ \A i \in 1 .. from : file[i] = out[i]
      /\ chars \in Seq(Chars) /\ Len(chars) = to - from
      /\ \A i \in 1 .. to - from : chars[i] = out[from + i]
  OBVIOUS
<1>2. chars # <<>> <=> to > from
  BY <1>1
<1> HIDE DEF file, chars
<1>3. from + Len(chars) = to
  BY <1>1
<1>4. (IF from + Len(chars) > Len(file) /\ chars # <<>> THEN from + Len(chars) ELSE Len(file)) = to
  BY <1>1, <1>2, <1>3
<1>5. ASSUME NEW i \in 1 .. to
      PROVE  (IF i \in from + 1 .. from + Len(chars) THEN chars[i - from]
              ELSE IF i <= Len(file) THEN file[i] ELSE NUL) = out[i]
  <2>1. CASE i > from
    <3>1. i - from \in 1 .. to - from /\ from + (i - from) = i
      BY <2>1
    <3> QED
      BY <1>1, <1>3, <2>1, <3>1
  <2>2. CASE i <= from
    BY <1>1, <1>3, <2>2
  <2> QED
    BY <2>1, <2>2
<1>6. SubSeq(out, 1, to) = [i \in 1 .. to |-> out[i]]
  OBVIOUS
<1> QED
  BY <1>3, <1>4, <1>5, <1>6 DEF Written, file, chars

(* The beginning of a buffer is the part of the output that comes next. *)
LEMMA BufferStart ==
  ASSUME NEW out \in Seq(Chars), NEW from \in Nat, NEW to \in Nat, from <= to, to <= Len(out),
         NEW n \in 0 .. to - from
  PROVE  SubSeq(SubSeq(out, from + 1, to), 1, n) = SubSeq(out, from + 1, from + n)
<1> DEFINE buf == SubSeq(out, from + 1, to)
<1>1. buf \in Seq(Chars) /\ Len(buf) = to - from
  OBVIOUS
<1>2. \A i \in 1 .. to - from : buf[i] = out[from + i]
  OBVIOUS
<1> HIDE DEF buf
<1>3. /\ SubSeq(buf, 1, n) \in Seq(Chars) /\ Len(SubSeq(buf, 1, n)) = n
      /\ \A i \in 1 .. n : SubSeq(buf, 1, n)[i] = buf[i]
  BY <1>1
<1> DEFINE next == SubSeq(out, from + 1, from + n)
<1>4. /\ next \in Seq(Chars) /\ Len(next) = n
      /\ \A i \in 1 .. n : next[i] = out[from + i]
  OBVIOUS
<1> HIDE DEF next
<1>5. \A i \in 1 .. n : SubSeq(buf, 1, n)[i] = next[i]
  BY <1>2, <1>3, <1>4
<1>6. SubSeq(buf, 1, n) = next
  BY <1>3, <1>4, <1>5
<1> QED
  BY <1>6 DEF buf, next

(* The character after a part of the output makes the part longer. *)
LEMMA SubSeqNext ==
  ASSUME NEW out \in Seq(Chars), NEW from \in Nat, NEW to \in Nat, from <= to, to < Len(out)
  PROVE  Append(SubSeq(out, from + 1, to), out[to + 1]) = SubSeq(out, from + 1, to + 1)
<1> DEFINE part == SubSeq(out, from + 1, to)
           more == SubSeq(out, from + 1, to + 1)
<1>1. /\ part \in Seq(Chars) /\ Len(part) = to - from
      /\ \A i \in 1 .. to - from : part[i] = out[from + i]
  OBVIOUS
<1>2. /\ more \in Seq(Chars) /\ Len(more) = to - from + 1
      /\ \A i \in 1 .. to - from + 1 : more[i] = out[from + i]
  OBVIOUS
<1>3. out[to + 1] \in Chars
  OBVIOUS
<1> HIDE DEF part, more
<1> DEFINE a == Append(part, out[to + 1])
<1>4. /\ a \in Seq(Chars) /\ Len(a) = to - from + 1 /\ a[to - from + 1] = out[to + 1]
      /\ \A i \in 1 .. to - from : a[i] = part[i]
  BY <1>1, <1>3
<1> HIDE DEF a
<1>5. ASSUME NEW i \in 1 .. to - from + 1 PROVE a[i] = more[i]
  <2>1. CASE i = to - from + 1
    <3>1. from + i = to + 1
      BY <2>1
    <3> QED
      BY <1>2, <1>4, <2>1, <3>1
  <2>2. CASE i # to - from + 1
    <3>1. i \in 1 .. to - from
      BY <2>2
    <3> QED
      BY <1>1, <1>2, <1>4, <3>1
  <2> QED
    BY <2>1, <2>2
<1>6. a = more
  BY <1>2, <1>4, <1>5
<1> QED
  BY <1>6 DEF a, part, more

(* Output that only grows keeps what is behind it. *)
LEMMA KeptLonger ==
  ASSUME NEW old \in Seq(Chars), NEW out \in Seq(Chars), Len(old) <= Len(out),
         \A i \in 1 .. Len(old) : out[i] = old[i],
         NEW from \in Nat \ {0}, NEW to \in Nat, to <= Len(old)
  PROVE  SubSeq(out, from, to) = SubSeq(old, from, to)
<1>1. /\ SubSeq(out, from, to) = [i \in 1 .. to - from + 1 |-> out[from + i - 1]]
      /\ SubSeq(old, from, to) = [i \in 1 .. to - from + 1 |-> old[from + i - 1]]
  OBVIOUS
<1>2. \A i \in 1 .. to - from + 1 : from + i - 1 \in 1 .. Len(old)
  OBVIOUS
<1>3. \A i \in 1 .. to - from + 1 : out[from + i - 1] = old[from + i - 1]
  BY <1>2
<1> QED
  BY <1>1, <1>3
------------------------------------------------------------------------------
(* The invariant holds at the start. *)

LEMMA LoopStartConverts ==
  ASSUME NEW t
  PROVE  /\ LoopStart \in Loops
         /\ IsNetascii(t, LoopStart.pos, LoopStart.out \o Waiting(LoopStart))
<1>1. LoopStart.pos = 0 /\ LoopStart.out \o Waiting(LoopStart) = <<>>
  BY DEF LoopStart, Waiting
<1>2. IsNetascii(t, 0, <<>>)
  BY PlaceFirst DEF IsNetascii
<1>3. LoopStart \in Loops
  BY DEF LoopStart, Loops
<1> QED
  BY <1>1, <1>2, <1>3

LEMMA InductiveInit == Init => Inductive
<1> SUFFICES ASSUME Init PROVE Inductive
  OBVIOUS
<1>1. /\ Texts \subseteq Seq(Chars) /\ LastSecond \in Nat
  BY TempAssumption
<1>2. LoopStart \in Loops /\ LoopStart.pos = 0
  BY LoopStartConverts DEF LoopStart
<1>3. TypeOK
  BY <1>1, <1>2 DEF Init, TypeOK, States, Streams, Opened
<1>4. ConvertedSoFar
  BY LoopStartConverts DEF Init, ConvertedSoFar
<1>5. Reading
  BY <1>1, <1>2 DEF Init, Reading
<1>6. Named
  BY DEF Init, Named
<1>9. Streaming
  <2>1. SubSeq(<<>>, 1, 0) = <<>> /\ Len(<<>>) = 0
    OBVIOUS
  <2>2. Kept(LoopStart.out, Opened)
    BY <2>1 DEF Kept, Opened, LoopStart
  <2> QED
    BY <2>2 DEF Init, Streaming
<1>7. Alone
  BY DEF Init, Alone
<1>8. LeftoversAreFailures
  BY DEF Init, LeftoversAreFailures
<1> QED
  BY <1>3, <1>4, <1>5, <1>6, <1>7, <1>8, <1>9 DEF Inductive

------------------------------------------------------------------------------
(* What the steps of a session leave alone. *)

(* A session once started keeps its second. *)
Onward ==
  \A t \in Sessions : pc[t] # "new" => pc'[t] # "new" /\ start'[t] = start[t]

(* So one that is alone now has been alone. *)
LEMMA AloneBefore ==
  ASSUME Onward, NEW u \in Sessions, pc[u] # "new", ~Shares(u)'
  PROVE  ~Shares(u)
BY DEF Onward, Shares

(* Nothing of it and of its file has changed. *)
Untouched(u) ==
  /\ pc'[u] = pc[u] /\ start'[u] = start[u] /\ loop'[u] = loop[u]
  /\ stream'[u] = stream[u] /\ open'[u] = open[u] /\ sent'[u] = sent[u]
  /\ dir'[start[u]] = dir[start[u]] /\ content'[u] = content[u]

LEMMA UntouchedKeeps ==
  ASSUME NEW u \in Sessions, Untouched(u), OwnFile(u)
  PROVE  OwnFile(u)'
BY DEF Untouched, OwnFile

(* Whoever writes to the file of a session, or removes its name, is of its    *)
(* second.                                                                    *)
LEMMA SameSecond ==
  ASSUME Inductive, NEW s \in Sessions, NEW u \in Sessions, u # s,
         pc[s] # "new", ~Shares(u)
  PROVE  start[s] # start[u] /\ open[s] # u
BY TempAssumption DEF Inductive, TypeOK, Named, Shares

(* The leftovers, when no name appears and no owner becomes innocent. *)
LEMMA LeftoversKeep ==
  ASSUME LeftoversAreFailures,
         DOMAIN dir' = DOMAIN dir,
         \A n \in DOMAIN dir : dir'[n] # NoFile => dir[n] # NoFile,
         \A t \in Sessions :
           pc[t] \notin {"new", "uncreated", "done"} =>
             /\ start'[t] = start[t]
             /\ \/ pc'[t] \notin {"new", "uncreated", "done"}
                \/ dir'[TempName(start[t])] = NoFile
  PROVE  LeftoversAreFailures'
BY DEF LeftoversAreFailures
------------------------------------------------------------------------------
(* The steps. *)

LEMMA TickStep ==
  ASSUME Inductive, Tick
  PROVE  Inductive'
<1>1. TypeOK'
  BY TempAssumption DEF Inductive, TypeOK, Tick
<1>2. ConvertedSoFar' /\ Reading' /\ Streaming' /\ Named' /\ LeftoversAreFailures'
  BY DEF Inductive, ConvertedSoFar, Reading, Streaming, Named, LeftoversAreFailures, Tick
<1>3. Alone'
  BY DEF Inductive, Alone, Shares, OwnFile, Tick
<1> QED
  BY <1>1, <1>2, <1>3 DEF Inductive

LEMMA CreateStep ==
  ASSUME Inductive, NEW s \in Sessions, Create(s)
  PROVE  Inductive'
<1> DEFINE n == clock
           f == IF dir[n] = NoFile THEN s ELSE dir[n]
<1>1. /\ pc[s] = "new" /\ n \in 0 .. LastSecond /\ dir[n] \in Sessions \cup {NoFile}
      /\ f \in Sessions /\ f # NoFile
      /\ loop[s] = LoopStart /\ sent[s] = <<>> /\ stream[s] = Opened
  BY TempAssumption DEF Create, Inductive, TypeOK, Reading
<1>2. /\ dir' = [dir EXCEPT ![n] = f]
      /\ open' = [open EXCEPT ![s] = f]
      /\ content' = [content EXCEPT ![f] = <<>>]
      /\ start' = [start EXCEPT ![s] = n]
      /\ pc' = [pc EXCEPT ![s] = "convert"]
      /\ UNCHANGED <<clock, text, loop, stream, sent>>
  BY DEF Create, TempName
<1>3. f # s => pc[f] # "new" /\ start[f] = n
  BY <1>1 DEF Inductive, TypeOK, Named
<1> HIDE DEF f
<1>4. TypeOK'
  BY <1>1, <1>2 DEF Inductive, TypeOK, States
<1>5. ConvertedSoFar'
  BY <1>2 DEF Inductive, ConvertedSoFar
<1>6. Reading'
  BY <1>1, <1>2 DEF Inductive, TypeOK, Reading
<1>10. Streaming'
  BY <1>1, <1>2 DEF Inductive, TypeOK, Streaming
<1>7. Named'
  <2>1. ASSUME NEW m \in 0 .. LastSecond, dir'[m] # NoFile
        PROVE  pc'[dir'[m]] # "new" /\ start'[dir'[m]] = m
    <3>1. CASE m = n
      BY <1>1, <1>2, <1>3, <3>1 DEF Inductive, TypeOK
    <3>2. CASE m # n
      BY <1>1, <1>2, <2>1, <3>2 DEF Inductive, TypeOK, Named
    <3> QED
      BY <3>1, <3>2
  <2>2. ASSUME NEW t \in Sessions, open'[t] # NoFile
        PROVE  pc'[t] # "new" /\ pc'[open'[t]] # "new" /\ start'[open'[t]] = start'[t]
    <3>1. CASE t = s
      BY <1>1, <1>2, <1>3, <3>1 DEF Inductive, TypeOK
    <3>2. CASE t # s
      BY <1>1, <1>2, <2>2, <3>2 DEF Inductive, TypeOK, Named
    <3> QED
      BY <3>1, <3>2
  <2>3. DOMAIN dir' = 0 .. LastSecond
    BY <1>2 DEF Inductive, TypeOK
  <2> QED
    BY <2>1, <2>2, <2>3 DEF Named
<1>8. Alone'
  <2> SUFFICES ASSUME NEW u \in Sessions, pc'[u] # "new", ~Shares(u)'
               PROVE  OwnFile(u)'
    BY DEF Alone
  <2>1. CASE u = s
    <3>1. dir[n] = NoFile
      <4> SUFFICES ASSUME dir[n] # NoFile PROVE FALSE
        OBVIOUS
      <4>1. f = dir[n] /\ f # s
        BY <1>1 DEF Inductive, TypeOK, Named, f
      <4> QED
        BY <1>1, <1>2, <1>3, <2>1, <4>1 DEF Shares, Inductive, TypeOK
    <3>2. f = s
      BY <3>1 DEF f
    <3>3. SubSeq(LoopStart.out, 1, Opened.offset) = <<>>
      BY DEF LoopStart, Opened
    <3>4. /\ pc'[s] = "convert" /\ start'[s] = n /\ dir'[n] = s /\ content'[s] = <<>>
          /\ open'[s] = s /\ sent'[s] = <<>> /\ loop'[s] = LoopStart /\ stream'[s] = Opened
      BY <1>1, <1>2, <3>2 DEF Inductive, TypeOK
    <3> QED
      BY <2>1, <3>3, <3>4 DEF OwnFile, Holds
  <2>2. CASE u # s
    <3>1. pc[u] # "new" /\ start[u] # n
      BY <1>1, <1>2, <2>2 DEF Inductive, TypeOK, Shares
    <3>2. Onward
      BY <1>1, <1>2 DEF Onward, Inductive, TypeOK
    <3>3. ~Shares(u)
      BY <3>1, <3>2, AloneBefore
    <3>4. f # u
      BY <1>1, <1>3, <2>2, <3>1
    <3>5. Untouched(u)
      BY <1>1, <1>2, <2>2, <3>1, <3>4 DEF Untouched, Inductive, TypeOK
    <3> QED
      BY <3>1, <3>3, <3>5, UntouchedKeeps DEF Inductive, Alone
  <2> QED
    BY <2>1, <2>2
<1>9. LeftoversAreFailures'
  <2> SUFFICES ASSUME NEW m \in DOMAIN dir', dir'[m] # NoFile
               PROVE  \E t \in Sessions :
                        /\ pc'[t] \notin {"new", "uncreated", "done"}
                        /\ TempName(start'[t]) = m
    BY DEF LeftoversAreFailures
  <2>1. CASE m = n
    BY <1>1, <1>2, <2>1 DEF Inductive, TypeOK, TempName
  <2>2. CASE m # n
    <3>1. m \in DOMAIN dir /\ dir[m] # NoFile
      BY <1>1, <1>2, <2>2 DEF Inductive, TypeOK
    <3>2. PICK t \in Sessions : /\ pc[t] \notin {"new", "uncreated", "done"}
                                /\ TempName(start[t]) = m
      BY <3>1 DEF Inductive, LeftoversAreFailures
    <3>3. t # s
      BY <1>1, <3>2
    <3> QED
      BY <1>2, <3>2, <3>3 DEF Inductive, TypeOK
  <2> QED
    BY <2>1, <2>2
<1> QED
  BY <1>4, <1>5, <1>6, <1>7, <1>8, <1>9, <1>10 DEF Inductive

LEMMA CannotCreateStep ==
  ASSUME Inductive, NEW s \in Sessions, CannotCreate(s)
  PROVE  Inductive'
<1>1. /\ pc[s] = "new" /\ clock \in 0 .. LastSecond
      /\ start' = [start EXCEPT ![s] = clock]
      /\ pc' = [pc EXCEPT ![s] = "uncreated"]
      /\ UNCHANGED <<clock, text, loop, stream, open, sent, dir, content>>
  BY DEF CannotCreate, Inductive, TypeOK
<1>2. TypeOK'
  BY <1>1 DEF Inductive, TypeOK, States
<1>3. ConvertedSoFar' /\ Reading' /\ Streaming'
  BY <1>1 DEF Inductive, TypeOK, ConvertedSoFar, Reading, Streaming
<1>4. Named'
  <2>1. ASSUME NEW n \in DOMAIN dir, dir[n] # NoFile
        PROVE  pc'[dir[n]] # "new" /\ start'[dir[n]] = n
    BY <1>1, <2>1 DEF Inductive, TypeOK, Named
  <2>2. ASSUME NEW t \in Sessions, open[t] # NoFile
        PROVE  pc'[t] # "new" /\ pc'[open[t]] # "new" /\ start'[open[t]] = start'[t]
    <3>1. open[t] \in Sessions /\ pc[t] # "new" /\ pc[open[t]] # "new" /\ start[open[t]] = start[t]
      BY <2>2 DEF Inductive, TypeOK, Named
    <3> QED
      BY <1>1, <3>1 DEF Inductive, TypeOK
  <2> QED
    BY <1>1, <2>1, <2>2 DEF Named
<1>5. Onward
  BY <1>1 DEF Onward, Inductive, TypeOK
<1>6. Alone'
  <2> SUFFICES ASSUME NEW u \in Sessions, pc'[u] # "new", ~Shares(u)'
               PROVE  OwnFile(u)'
    BY DEF Alone
  <2>1. CASE u = s
    <3>1. pc'[s] = "uncreated"
      BY <1>1 DEF Inductive, TypeOK
    <3> QED
      BY <2>1, <3>1 DEF OwnFile
  <2>2. CASE u # s
    <3>1. pc[u] # "new"
      BY <1>1, <2>2 DEF Inductive, TypeOK
    <3>2. OwnFile(u)
      BY <1>5, <3>1, AloneBefore DEF Inductive, Alone
    <3>3. Untouched(u)
      BY <1>1, <2>2 DEF Untouched, Inductive, TypeOK
    <3> QED
      BY <3>2, <3>3, UntouchedKeeps
  <2> QED
    BY <2>1, <2>2
<1>7. LeftoversAreFailures'
  <2>1. \A t \in Sessions : pc[t] \notin {"new", "uncreated", "done"} =>
          pc'[t] = pc[t] /\ start'[t] = start[t]
    BY <1>1 DEF Inductive, TypeOK
  <2> QED
    BY <1>1, <2>1, LeftoversKeep DEF Inductive
<1> QED
  BY <1>2, <1>3, <1>4, <1>6, <1>7 DEF Inductive

(* A step of the conversion: d is what it makes of the loop.                  *)
LEMMA LoopStep ==
  ASSUME Inductive, NEW s \in Sessions, pc[s] = "convert",
         NEW d \in Loops, d.pos <= Len(text[s]),
         IsNetascii(text[s], d.pos, d.out \o Waiting(d)),
         Len(d.out) >= Len(loop[s].out),
         \A i \in 1 .. Len(loop[s].out) : d.out[i] = loop[s].out[i],
         NEW next \in {"convert", "end"},
         next = "end" => d.pos = Len(text[s]) /\ d.nextChar = None,
         loop' = [loop EXCEPT ![s] = d],
         pc' = [pc EXCEPT ![s] = next],
         UNCHANGED <<clock, text, stream, start, open, sent, dir, content>>
  PROVE  Inductive'
<1> DEFINE old == loop[s].out
           st == stream[s]
<1>1. /\ old \in Seq(Chars) /\ d.out \in Seq(Chars) /\ Len(old) \in Nat /\ Len(d.out) \in Nat
      /\ st.given \in Nat /\ st.offset \in Nat /\ st.buf \in Seq(Chars) /\ Len(st.buf) \in Nat
  <2>1. loop[s] \in Loops /\ st \in Streams
    BY DEF Inductive, TypeOK
  <2> HIDE DEF st
  <2>2. /\ old \in Seq(Chars) /\ d.out \in Seq(Chars)
        /\ st.given \in Nat /\ st.offset \in Nat /\ st.buf \in Seq(Chars)
    BY <2>1 DEF Loops, Streams
  <2> HIDE DEF old
  <2> QED
    BY <2>2
<1>2. Kept(old, st)
  BY DEF Inductive, Streaming
<1>3. Kept(d.out, st)
  <2>1. SubSeq(d.out, st.offset + 1, st.given) = SubSeq(old, st.offset + 1, st.given)
    <3> HIDE DEF old, st
    <3>1. st.given <= Len(old) /\ st.offset + 1 \in Nat \ {0}
      BY <1>1, <1>2 DEF Kept
    <3> QED
      BY <1>1, <3>1, KeptLonger DEF old
  <2> HIDE DEF old, st
  <2>2. st.given <= Len(d.out)
    BY <1>1, <1>2 DEF Kept, old
  <2> QED
    BY <1>2, <2>1, <2>2 DEF Kept
<1>4. Whole(st) => SubSeq(d.out, 1, st.offset) = SubSeq(old, 1, st.offset)
  <2> SUFFICES ASSUME Whole(st) PROVE SubSeq(d.out, 1, st.offset) = SubSeq(old, 1, st.offset)
    OBVIOUS
  <2> HIDE DEF old, st
  <2>1. st.offset <= Len(old)
    BY <1>1, <1>2 DEF Kept
  <2> QED
    BY <1>1, <2>1, KeptLonger DEF old
<1> HIDE DEF old, st
<1>5. TypeOK'
  <2>1. /\ UNCHANGED <<clock, text, stream, start, open, sent, dir, content>>
        /\ pc' \in [Sessions -> States] /\ loop' \in [Sessions -> Loops]
    BY DEF Inductive, TypeOK, States
  <2>2. \A t \in Sessions : pc'[t] \in {"convert", "end", "send", "sent"} => open'[t] # NoFile
    BY DEF Inductive, TypeOK
  <2> QED
    BY <2>1, <2>2 DEF Inductive, TypeOK
<1>6. ConvertedSoFar' /\ Reading'
  BY DEF Inductive, TypeOK, ConvertedSoFar, Reading
<1>7. Streaming'
  BY <1>3 DEF Inductive, TypeOK, Streaming, st
<1>8. Named'
  BY DEF Inductive, TypeOK, Named
<1>9. Onward
  BY DEF Onward, Inductive, TypeOK
<1>10. Alone'
  <2> SUFFICES ASSUME NEW u \in Sessions, pc'[u] # "new", ~Shares(u)'
               PROVE  OwnFile(u)'
    BY DEF Alone
  <2>1. pc[u] # "new"
    BY DEF Inductive, TypeOK
  <2>2. OwnFile(u)
    BY <2>1, <1>9, AloneBefore DEF Inductive, Alone
  <2>3. CASE u = s
    <3>1. pc'[s] = next /\ loop'[s] = d
      BY DEF Inductive, TypeOK
    <3> QED
      BY <1>4, <2>2, <2>3, <3>1 DEF OwnFile, Holds, old, st
  <2>4. CASE u # s
    <3>1. Untouched(u)
      BY <2>4 DEF Untouched, Inductive, TypeOK
    <3> QED
      BY <2>2, <3>1, UntouchedKeeps
  <2> QED
    BY <2>3, <2>4
<1>11. LeftoversAreFailures'
  <2>1. \A t \in Sessions : pc[t] \notin {"new", "uncreated", "done"} =>
          pc'[t] \notin {"new", "uncreated", "done"}
    BY DEF Inductive, TypeOK
  <2> QED
    BY <2>1, LeftoversKeep DEF Inductive
<1> QED
  BY <1>5, <1>6, <1>7, <1>8, <1>10, <1>11 DEF Inductive

LEMMA ConvertStep ==
  ASSUME Inductive, NEW s \in Sessions, Convert(s)
  PROVE  Inductive'
<1> DEFINE d == ConvertChar(text[s], loop[s])
<1>1. /\ text[s] \in Seq(Chars) /\ loop[s] \in Loops /\ pc[s] = "convert"
      /\ loop[s].pos <= Len(text[s])
      /\ IsNetascii(text[s], loop[s].pos, loop[s].out \o Waiting(loop[s]))
  BY TempAssumption DEF Convert, Inductive, TypeOK, Reading, ConvertedSoFar
<1>2. loop[s].pos < Len(text[s])
  BY <1>1 DEF Convert, getc, Loops
<1>3. /\ d \in Loops /\ d.pos = loop[s].pos + 1
      /\ IsNetascii(text[s], d.pos, d.out \o Waiting(d))
      /\ Len(d.out) > Len(loop[s].out)
      /\ \A i \in 1 .. Len(loop[s].out) : d.out[i] = loop[s].out[i]
  BY <1>1, <1>2, ConvertCharConverts
<1>4. /\ loop' = [loop EXCEPT ![s] = d]
      /\ UNCHANGED <<clock, pc, text, stream, start, open, sent, dir, content>>
  BY DEF Convert
<1>5. pc' = [pc EXCEPT ![s] = "convert"]
  BY <1>1, <1>4 DEF Inductive, TypeOK
<1>6. d.pos <= Len(text[s]) /\ Len(d.out) >= Len(loop[s].out)
  BY <1>1, <1>2, <1>3 DEF Loops
<1> HIDE DEF d
<1> QED
  BY <1>1, <1>3, <1>4, <1>5, <1>6, LoopStep

LEMMA EndOfTextStep ==
  ASSUME Inductive, NEW s \in Sessions, EndOfText(s)
  PROVE  Inductive'
<1> DEFINE d == ConvertEnd(loop[s])
<1>1. /\ text[s] \in Seq(Chars) /\ loop[s] \in Loops /\ pc[s] = "convert"
      /\ loop[s].pos <= Len(text[s])
      /\ IsNetascii(text[s], loop[s].pos, loop[s].out \o Waiting(loop[s]))
  BY TempAssumption DEF EndOfText, Inductive, TypeOK, Reading, ConvertedSoFar
<1>2. loop[s].pos = Len(text[s])
  <2>1. getc(text[s], loop[s]) = EOF
    BY DEF EndOfText
  <2>2. \A i \in 1 .. Len(text[s]) : text[s][i] \in Chars
    BY <1>1
  <2>3. EOF \notin Chars
    BY DEF EOF, Chars, NUL, LF, CR
  <2> QED
    BY <1>1, <2>1, <2>2, <2>3 DEF getc, Loops
<1>3. /\ d \in Loops /\ d.pos = loop[s].pos /\ d.nextChar = None
      /\ d.out \o Waiting(d) = loop[s].out \o Waiting(loop[s])
      /\ Len(d.out) >= Len(loop[s].out)
      /\ \A i \in 1 .. Len(loop[s].out) : d.out[i] = loop[s].out[i]
  BY <1>1, ConvertEndConverts
<1>4. IsNetascii(text[s], d.pos, d.out \o Waiting(d))
  BY <1>1, <1>3
<1>5. /\ loop' = [loop EXCEPT ![s] = d] /\ pc' = [pc EXCEPT ![s] = "end"]
      /\ UNCHANGED <<clock, text, stream, start, open, sent, dir, content>>
  BY DEF EndOfText
<1> HIDE DEF d
<1> QED
  BY <1>1, <1>2, <1>3, <1>4, <1>5, LoopStep

(* A step of stdio: st is what it makes of the stream, file of the file.      *)
LEMMA StreamStep ==
  ASSUME Inductive, NEW s \in Sessions, pc[s] \in {"convert", "end"},
         NEW st \in Streams, Kept(loop[s].out, st), Whole(st) => Whole(stream[s]),
         NEW file \in Seq(Chars),
         Holds(content[open[s]], loop[s].out, stream[s]) => Holds(file, loop[s].out, st),
         NEW next \in {"convert", "end", "closed"},
         next = pc[s] \/ (next = "closed" /\ pc[s] = "end"
                           /\ (Whole(st) => st.offset = Len(loop[s].out))),
         stream' = [stream EXCEPT ![s] = st],
         content' = [content EXCEPT ![open[s]] = file],
         pc' = [pc EXCEPT ![s] = next],
         open' = [open EXCEPT ![s] = IF next = "closed" THEN NoFile ELSE open[s]],
         UNCHANGED <<clock, text, loop, start, sent, dir>>
  PROVE  Inductive'
<1> DEFINE f == open[s]
<1>1. f \in Sessions /\ f # NoFile
  BY TempAssumption DEF Inductive, TypeOK
<1>2. content' = [content EXCEPT ![f] = file]
  OBVIOUS
<1> HIDE DEF f
<1>3. TypeOK'
  <2>1. /\ clock' = clock /\ text' = text /\ start' = start /\ sent' = sent /\ dir' = dir
        /\ loop' = loop
        /\ pc' \in [Sessions -> States] /\ stream' \in [Sessions -> Streams]
        /\ open' \in [Sessions -> Sessions \cup {NoFile}]
        /\ content' \in [Sessions -> Seq(Chars)]
    BY <1>1, <1>2 DEF Inductive, TypeOK, States
  <2>2. \A t \in Sessions : pc'[t] \in {"convert", "end", "send", "sent"} => open'[t] # NoFile
    BY <1>1 DEF Inductive, TypeOK, f
  <2> QED
    BY <2>1, <2>2 DEF Inductive, TypeOK
<1>4. ConvertedSoFar'
  BY DEF Inductive, ConvertedSoFar
<1>5. Reading'
  BY DEF Inductive, TypeOK, Reading
<1>6. Streaming'
  BY DEF Inductive, TypeOK, Streaming
<1>7. Named'
  BY DEF Inductive, TypeOK, Named
<1>8. Onward
  BY DEF Onward, Inductive, TypeOK
<1>9. Alone'
  <2> SUFFICES ASSUME NEW u \in Sessions, pc'[u] # "new", ~Shares(u)'
               PROVE  OwnFile(u)'
    BY DEF Alone
  <2>1. pc[u] # "new"
    BY DEF Inductive, TypeOK
  <2>2. ~Shares(u)
    BY <2>1, <1>8, AloneBefore
  <2>3. OwnFile(u)
    BY <2>1, <2>2 DEF Inductive, Alone
  <2>4. CASE u = s
    <3>1. /\ dir[start[s]] = s /\ f = s /\ sent[s] = <<>>
          /\ Holds(content[s], loop[s].out, stream[s])
      BY <2>3, <2>4 DEF OwnFile, f
    <3>2. Holds(file, loop[s].out, st)
      BY <3>1 DEF f
    <3>3. /\ pc'[s] = next /\ stream'[s] = st /\ content'[s] = file
          /\ start'[s] = start[s] /\ dir' = dir /\ sent'[s] = <<>> /\ loop'[s] = loop[s]
          /\ open'[s] = IF next = "closed" THEN NoFile ELSE s
      BY <1>1, <1>2, <3>1 DEF Inductive, TypeOK, f
    <3> QED
      BY <2>4, <3>1, <3>2, <3>3 DEF OwnFile
  <2>5. CASE u # s
    <3>1. f # u
      BY <2>2, <2>5, SameSecond DEF f
    <3>2. Untouched(u)
      BY <1>1, <1>2, <2>5, <3>1 DEF Untouched, Inductive, TypeOK
    <3> QED
      BY <2>3, <3>2, UntouchedKeeps
  <2> QED
    BY <2>4, <2>5
<1>10. LeftoversAreFailures'
  <2>1. \A t \in Sessions : pc[t] \notin {"new", "uncreated", "done"} =>
          pc'[t] \notin {"new", "uncreated", "done"}
    BY DEF Inductive, TypeOK
  <2> QED
    BY <2>1, LeftoversKeep DEF Inductive
<1> QED
  BY <1>3, <1>4, <1>5, <1>6, <1>7, <1>9, <1>10 DEF Inductive

(* The buffer is written out: a beginning of it, or all of it when the write  *)
(* does not fail.                                                             *)
LEMMA EmptiedKeeps ==
  ASSUME NEW out \in Seq(Chars), NEW st \in Streams, Kept(out, st), NEW n \in 0 .. Len(st.buf),
         NEW file \in Seq(Chars),
         NEW e, e = Emptied(st, n),
         NEW w, w = Written(file, st.offset, SubSeq(st.buf, 1, n))
  PROVE  /\ e \in Streams /\ Kept(out, e) /\ w \in Seq(Chars)
         /\ e.buf = <<>> /\ e.given = st.given
         /\ Whole(e) => Whole(st) /\ e.offset = st.given
         /\ Holds(file, out, st) => Holds(w, out, e)
<1>1. st.given \in Nat /\ st.offset \in Nat /\ st.buf \in Seq(Chars)
  BY DEF Streams
<1>2. Len(st.buf) \in Nat /\ n \in Nat /\ n <= Len(st.buf)
  BY <1>1
<1>3. e \in Streams /\ e.given = st.given /\ e.offset = st.offset + n /\ e.buf = <<>>
  <2>1. st.offset + n \in Nat /\ <<>> \in Seq(Chars)
    BY <1>1, <1>2
  <2> QED
    BY <2>1 DEF Emptied, Streams
<1>4. w \in Seq(Chars)
  <2>1. SubSeq(st.buf, 1, n) \in Seq(Chars)
    BY <1>1, <1>2
  <2> QED
    BY <1>1, <2>1, WrittenType
<1>5. st.given <= Len(out) /\ st.given >= st.offset + Len(st.buf)
  BY DEF Kept
<1>6. Len(e.buf) = 0
  BY <1>3
<1>7. ASSUME Whole(e)
      PROVE  Whole(st) /\ n = Len(st.buf) /\ e.offset = st.given
  BY <1>1, <1>2, <1>3, <1>5, <1>6, <1>7 DEF Whole
<1>8. ASSUME Whole(e), file = SubSeq(out, 1, st.offset) PROVE w = SubSeq(out, 1, e.offset)
  <2>1. st.buf = SubSeq(out, st.offset + 1, st.given)
    BY <1>7, <1>8 DEF Kept
  <2>5. st.given = st.offset + Len(st.buf)
    BY <1>7, <1>8 DEF Whole
  <2>2. SubSeq(st.buf, 1, n) = SubSeq(out, st.offset + 1, st.offset + n)
    <3>1. st.offset <= st.given /\ n \in 0 .. st.given - st.offset
      BY <1>1, <1>2, <2>5
    <3>2. SubSeq(SubSeq(out, st.offset + 1, st.given), 1, n)
            = SubSeq(out, st.offset + 1, st.offset + n)
      BY <1>1, <1>5, <3>1, BufferStart
    <3> QED
      BY <2>1, <3>2
  <2>3. st.offset <= st.offset + n /\ st.offset + n <= Len(out) /\ st.offset + n \in Nat
    <3>1. Len(out) \in Nat
      OBVIOUS
    <3> QED
      BY <1>1, <1>2, <1>5, <3>1
  <2>4. Written(SubSeq(out, 1, st.offset), st.offset, SubSeq(out, st.offset + 1, st.offset + n))
          = SubSeq(out, 1, st.offset + n)
    BY <1>1, <2>3, WrittenOn
  <2> QED
    BY <1>3, <1>8, <2>2, <2>4
<1>9. Kept(out, e)
  <2>1. SubSeq(out, st.given + 1, st.given) = <<>>
    BY <1>1
  <2>2. e.given <= Len(out) /\ e.given >= e.offset + Len(e.buf)
    BY <1>1, <1>2, <1>3, <1>5, <1>6
  <2>3. Whole(e) => e.buf = SubSeq(out, e.offset + 1, e.given)
    BY <1>3, <1>7, <2>1
  <2> QED
    BY <2>2, <2>3 DEF Kept
<1> QED
  BY <1>3, <1>4, <1>7, <1>8, <1>9 DEF Holds

(* fputc gives the stream the next character of the output. *)
LEMMA TakesKeeps ==
  ASSUME NEW out \in Seq(Chars), NEW st \in Streams, Kept(out, st), st.given # Len(out)
  PROVE  LET d == Takes(st, out[st.given + 1])
         IN d \in Streams /\ Kept(out, d) /\ d.offset = st.offset /\ (Whole(d) => Whole(st))
<1> DEFINE char == out[st.given + 1]
           d == Takes(st, char)
<1>1. st.given \in Nat /\ st.offset \in Nat /\ st.buf \in Seq(Chars)
  BY DEF Streams
<1>2. st.given < Len(out) /\ st.given >= st.offset + Len(st.buf) /\ Len(st.buf) \in Nat
  BY <1>1 DEF Kept
<1>3. char \in Chars
  BY <1>1, <1>2
<1> HIDE DEF char
<1>4. /\ d.given = st.given + 1 /\ d.offset = st.offset /\ d.buf = Append(st.buf, char)
      /\ d \in Streams
  <2>1. Append(st.buf, char) \in Seq(Chars) /\ st.given + 1 \in Nat
    BY <1>1, <1>3
  <2> QED
    BY <2>1 DEF Takes, Streams
<1> HIDE DEF d
<1>5. Len(d.buf) = Len(st.buf) + 1
  <2>1. Len(Append(st.buf, char)) = Len(st.buf) + 1
    BY <1>1, <1>3
  <2> QED
    BY <1>4, <2>1
<1>6. Whole(d) => Whole(st)
  <2> SUFFICES ASSUME Whole(d) PROVE Whole(st)
    OBVIOUS
  <2> DEFINE k == Len(st.buf)
  <2>1. d.given = d.offset + Len(d.buf)
    BY DEF Whole
  <2>2. Len(d.buf) = k + 1 /\ d.given = st.given + 1 /\ d.offset = st.offset /\ k \in Nat
    BY <1>2, <1>4, <1>5
  <2> HIDE DEF k
  <2>3. st.given = st.offset + k
    BY <1>1, <2>1, <2>2
  <2> QED
    BY <2>3 DEF Whole, k
<1>7. ASSUME Whole(d)
      PROVE  d.buf = SubSeq(out, d.offset + 1, d.given)
  <2>1. st.buf = SubSeq(out, st.offset + 1, st.given)
    BY <1>6, <1>7 DEF Kept
  <2>2. Append(SubSeq(out, st.offset + 1, st.given), out[st.given + 1])
          = SubSeq(out, st.offset + 1, st.given + 1)
    <3>1. st.offset <= st.given
      BY <1>1, <1>2
    <3> QED
      BY <1>1, <1>2, <3>1, SubSeqNext
  <2> QED
    BY <1>4, <2>1, <2>2 DEF char
<1>8. Kept(out, d)
  <2>1. d.given <= Len(out) /\ d.given >= d.offset + Len(d.buf)
    BY <1>1, <1>2, <1>4, <1>5
  <2> QED
    BY <1>7, <2>1 DEF Kept
<1> QED
  BY <1>4, <1>6, <1>8 DEF d, char

(* Or it loses it. *)
LEMMA LosesKeeps ==
  ASSUME NEW out \in Seq(Chars), NEW st \in Streams, Kept(out, st), st.given # Len(out)
  PROVE  LET d == Loses(st)
         IN d \in Streams /\ Kept(out, d) /\ d.offset = st.offset /\ ~Whole(d)
<1> DEFINE d == Loses(st)
<1>1. st.given \in Nat /\ st.offset \in Nat /\ st.buf \in Seq(Chars)
  BY DEF Streams
<1>2. st.given < Len(out) /\ st.given >= st.offset + Len(st.buf) /\ Len(st.buf) \in Nat
  BY <1>1 DEF Kept
<1>3. d.given = st.given + 1 /\ d.offset = st.offset /\ d.buf = st.buf /\ d \in Streams
  BY <1>1 DEF Loses, Streams
<1> HIDE DEF d
<1>4. ~Whole(d)
  BY <1>1, <1>2, <1>3 DEF Whole
<1>5. d.given <= Len(out) /\ d.given >= d.offset + Len(d.buf)
  BY <1>1, <1>2, <1>3
<1> QED
  BY <1>3, <1>4, <1>5 DEF Kept, d

LEMMA PutStep ==
  ASSUME Inductive, NEW s \in Sessions, Put(s)
  PROVE  Inductive'
<1> DEFINE out == loop[s].out
           st == stream[s]
           f == open[s]
           char == out[st.given + 1]
<1>1. /\ pc[s] \in {"convert", "end"} /\ st.given # Len(out)
      /\ UNCHANGED <<clock, pc, text, loop, start, open, sent, dir>>
  BY DEF Put, Given
<1>2. /\ out \in Seq(Chars) /\ st \in Streams /\ Kept(out, st)
      /\ f \in Sessions /\ content[f] \in Seq(Chars)
  BY <1>1 DEF Inductive, TypeOK, Loops, Streaming
<1>3. pc' = [pc EXCEPT ![s] = pc[s]] /\ pc[s] # "closed"
      /\ open' = [open EXCEPT ![s] = IF pc[s] = "closed" THEN NoFile ELSE open[s]]
  BY <1>1 DEF Inductive, TypeOK
<1>4. CASE /\ stream' = [stream EXCEPT ![s] = Takes(st, char)]
           /\ UNCHANGED content
  <2> DEFINE d == Takes(st, char)
  <2>1. d \in Streams /\ Kept(out, d) /\ d.offset = st.offset /\ (Whole(d) => Whole(st))
    BY <1>1, <1>2, TakesKeeps
  <2>2. content' = [content EXCEPT ![f] = content[f]]
    BY <1>4 DEF Inductive, TypeOK
  <2>3. stream' = [stream EXCEPT ![s] = d]
    BY <1>4
  <2>4. Holds(content[f], out, st) => Holds(content[f], out, d)
    BY <2>1 DEF Holds
  <2> HIDE DEF d, char
  <2> QED
    BY <1>1, <1>2, <1>3, <2>1, <2>2, <2>3, <2>4, StreamStep
<1>5. ASSUME NEW n \in 0 .. BufLen, Len(st.buf) = BufLen, WriteOut(s, n),
             stream' = [stream EXCEPT ![s] =
               IF n = BufLen THEN Takes(Emptied(st, n), char) ELSE Loses(Emptied(st, n))]
      PROVE  Inductive'
  <2> DEFINE e == Emptied(st, n)
             w == Written(content[f], st.offset, SubSeq(st.buf, 1, n))
             d == IF n = BufLen THEN Takes(e, char) ELSE Loses(e)
  <2>5. n \in 0 .. Len(st.buf) /\ e = Emptied(st, n)
        /\ w = Written(content[f], st.offset, SubSeq(st.buf, 1, n))
    BY <1>5
  <2> HIDE DEF e, w
  <2>1. /\ e \in Streams /\ Kept(out, e) /\ w \in Seq(Chars)
        /\ e.buf = <<>> /\ e.given = st.given
        /\ Whole(e) => Whole(st)
        /\ Holds(content[f], out, st) => Holds(w, out, e)
    <3> DEFINE file == content[f]
    <3>1. file \in Seq(Chars) /\ w = Written(file, st.offset, SubSeq(st.buf, 1, n))
      BY <1>2, <2>5
    <3> HIDE DEF out, st, f, file, d
    <3>2. (Whole(e) => Whole(st)) /\ (Holds(file, out, st) => Holds(w, out, e))
      BY <1>2, <2>5, <3>1, EmptiedKeeps
    <3>3. e \in Streams /\ Kept(out, e) /\ w \in Seq(Chars) /\ e.buf = <<>> /\ e.given = st.given
      BY <1>2, <2>5, <3>1, EmptiedKeeps
    <3> QED
      BY <3>2, <3>3 DEF file
  <2>2. content' = [content EXCEPT ![f] = w]
    BY <1>5 DEF WriteOut, w
  <2>3. d \in Streams /\ Kept(out, d) /\ d.offset = e.offset /\ (Whole(d) => Whole(e))
    <3>1. CASE n = BufLen
      <4>1. d = Takes(e, out[e.given + 1])
        BY <2>1, <3>1
      <4> HIDE DEF d
      <4> QED
        BY <1>1, <1>2, <2>1, <4>1, TakesKeeps
    <3>2. CASE n # BufLen
      <4>1. d = Loses(e)
        BY <3>2
      <4> HIDE DEF d
      <4> QED
        BY <1>1, <1>2, <2>1, <4>1, LosesKeeps
    <3> QED
      BY <3>1, <3>2
  <2>4. stream' = [stream EXCEPT ![s] = d]
    BY <1>5 DEF e
  <2> HIDE DEF d, char
  <2>6. Holds(content[f], out, st) => Holds(w, out, d)
    BY <2>1, <2>3 DEF Holds
  <2> QED
    BY <1>1, <1>2, <1>3, <2>1, <2>2, <2>3, <2>4, <2>6, StreamStep
<1> QED
  BY <1>4, <1>5 DEF Put

LEMMA CloseStep ==
  ASSUME Inductive, NEW s \in Sessions, Close(s)
  PROVE  Inductive'
<1> DEFINE out == loop[s].out
           st == stream[s]
           f == open[s]
<1>1. PICK n \in 0 .. Len(st.buf) :
        WriteOut(s, n) /\ stream' = [stream EXCEPT ![s] = Emptied(@, n)]
  BY DEF Close
<1>2. /\ pc[s] = "end" /\ st.given = Len(out)
      /\ pc' = [pc EXCEPT ![s] = "closed"] /\ open' = [open EXCEPT ![s] = NoFile]
      /\ UNCHANGED <<clock, text, loop, start, sent, dir>>
  BY DEF Close, Given
<1>3. /\ out \in Seq(Chars) /\ st \in Streams /\ Kept(out, st)
      /\ f \in Sessions /\ content[f] \in Seq(Chars)
  BY <1>2 DEF Inductive, TypeOK, Loops, Streaming
<1> DEFINE e == Emptied(st, n)
           w == Written(content[f], st.offset, SubSeq(st.buf, 1, n))
<1>6. e = Emptied(st, n) /\ w = Written(content[f], st.offset, SubSeq(st.buf, 1, n))
  OBVIOUS
<1> HIDE DEF e, w
<1>4. /\ e \in Streams /\ Kept(out, e) /\ w \in Seq(Chars)
      /\ Whole(e) => Whole(st) /\ e.offset = st.given
      /\ Holds(content[f], out, st) => Holds(w, out, e)
  <2> DEFINE file == content[f]
  <2>1. file \in Seq(Chars) /\ w = Written(file, st.offset, SubSeq(st.buf, 1, n))
    BY <1>3, <1>6
  <2> HIDE DEF out, st, f, file
  <2>2. /\ Whole(e) => Whole(st) /\ e.offset = st.given
        /\ Holds(file, out, st) => Holds(w, out, e)
    BY <1>3, <1>6, <2>1, EmptiedKeeps
  <2>3. e \in Streams /\ Kept(out, e) /\ w \in Seq(Chars)
    BY <1>3, <1>6, <2>1, EmptiedKeeps
  <2> QED
    BY <2>2, <2>3 DEF file
<1>5. content' = [content EXCEPT ![f] = w] /\ stream' = [stream EXCEPT ![s] = e]
  BY <1>1 DEF WriteOut, Inductive, TypeOK, e, w
<1> QED
  BY <1>2, <1>3, <1>4, <1>5, StreamStep

(* Opening, reading and giving up change nothing but the session, which is    *)
(* one that has closed its file.                                              *)
LEMMA QuietStep ==
  ASSUME Inductive, NEW s \in Sessions, pc[s] \in {"closed", "send"},
         NEW next \in {"send", "sent", "failed", "crashed"},
         NEW has \in Sessions \cup {NoFile}, NEW more \in Seq(Chars),
         next \in {"send", "sent"} => has # NoFile,
         has # NoFile => pc[has] # "new" /\ start[has] = start[s],
         pc' = [pc EXCEPT ![s] = next],
         open' = [open EXCEPT ![s] = has],
         sent' = [sent EXCEPT ![s] = more],
         UNCHANGED <<clock, text, loop, stream, start, dir, content>>,
         ~Shares(s) /\ OwnFile(s) => OwnFile(s)'
  PROVE  Inductive'
<1>1. TypeOK'
  <2>1. /\ UNCHANGED <<clock, text, loop, stream, start, dir, content>>
        /\ pc' \in [Sessions -> States] /\ sent' \in [Sessions -> Seq(Chars)]
        /\ open' \in [Sessions -> Sessions \cup {NoFile}]
    BY DEF Inductive, TypeOK, States
  <2>2. \A t \in Sessions : pc'[t] \in {"convert", "end", "send", "sent"} => open'[t] # NoFile
    BY DEF Inductive, TypeOK
  <2> QED
    BY <2>1, <2>2 DEF Inductive, TypeOK
<1>2. ConvertedSoFar'
  BY DEF Inductive, ConvertedSoFar
<1>3. Reading' /\ Streaming'
  BY DEF Inductive, TypeOK, Reading, Streaming
<1>4. Named'
  <2>1. \A t \in Sessions : pc'[t] # "new" <=> pc[t] # "new"
    BY DEF Inductive, TypeOK
  <2>2. \A n \in DOMAIN dir : dir[n] # NoFile => dir[n] \in Sessions
    BY DEF Inductive, TypeOK
  <2>3. \A t \in Sessions : t # s => open'[t] = open[t]
    BY DEF Inductive, TypeOK
  <2>4. open'[s] = has
    BY DEF Inductive, TypeOK
  <2>5. \A t \in Sessions : open[t] # NoFile => open[t] \in Sessions
    BY DEF Inductive, TypeOK
  <2>6. has # NoFile => has \in Sessions
    OBVIOUS
  <2>7. ASSUME NEW n \in DOMAIN dir', dir'[n] # NoFile
        PROVE  pc'[dir'[n]] # "new" /\ start'[dir'[n]] = n
    BY <2>1, <2>2, <2>7 DEF Inductive, Named
  <2>8. ASSUME NEW t \in Sessions, open'[t] # NoFile
        PROVE  pc'[t] # "new" /\ pc'[open'[t]] # "new" /\ start'[open'[t]] = start'[t]
    <3>1. CASE t = s
      BY <2>1, <2>4, <2>6, <2>8, <3>1
    <3>2. CASE t # s
      BY <2>1, <2>3, <2>5, <2>8, <3>2 DEF Inductive, Named
    <3> QED
      BY <3>1, <3>2
  <2> QED
    BY <2>7, <2>8 DEF Named
<1>5. Onward
  BY DEF Onward, Inductive, TypeOK
<1>6. Alone'
  <2> SUFFICES ASSUME NEW u \in Sessions, pc'[u] # "new", ~Shares(u)'
               PROVE  OwnFile(u)'
    BY DEF Alone
  <2>1. pc[u] # "new"
    BY DEF Inductive, TypeOK
  <2>2. ~Shares(u)
    BY <2>1, <1>5, AloneBefore
  <2>3. OwnFile(u)
    BY <2>1, <2>2 DEF Inductive, Alone
  <2>4. CASE u = s
    BY <2>2, <2>3, <2>4
  <2>5. CASE u # s
    <3>1. Untouched(u)
      BY <2>5 DEF Untouched, Inductive, TypeOK
    <3> QED
      BY <2>3, <3>1, UntouchedKeeps
  <2> QED
    BY <2>4, <2>5
<1>7. LeftoversAreFailures'
  <2>1. ASSUME NEW t \in Sessions, pc[t] \notin {"new", "uncreated", "done"}
        PROVE  \/ pc'[t] \notin {"new", "uncreated", "done"}
               \/ dir'[TempName(start[t])] = NoFile
    BY <2>1 DEF Inductive, TypeOK, TempName
  <2> QED
    BY <2>1, LeftoversKeep DEF Inductive
<1> QED
  BY <1>1, <1>2, <1>3, <1>4, <1>6, <1>7 DEF Inductive

LEMMA ReopenStep ==
  ASSUME Inductive, NEW s \in Sessions, Reopen(s)
  PROVE  Inductive'
<1>1. PICK has \in {NoFile, dir[start[s]]} :
        /\ open' = [open EXCEPT ![s] = has]
        /\ pc' = [pc EXCEPT ![s] = IF has = NoFile THEN "crashed" ELSE "send"]
  BY DEF Reopen, TempName
<1> DEFINE next == IF has = NoFile THEN "crashed" ELSE "send"
<1>2. /\ pc[s] = "closed" /\ start[s] \in DOMAIN dir
      /\ UNCHANGED <<clock, text, loop, stream, start, sent, dir, content>>
  BY DEF Reopen, Inductive, TypeOK
<1>3. /\ has \in Sessions \cup {NoFile}
      /\ has # NoFile => has = dir[start[s]] /\ pc[has] # "new" /\ start[has] = start[s]
  BY <1>2 DEF Inductive, TypeOK, Named
<1>4. sent' = [sent EXCEPT ![s] = sent[s]] /\ sent[s] \in Seq(Chars)
  BY <1>2 DEF Inductive, TypeOK
<1>5. pc' = [pc EXCEPT ![s] = next] /\ pc'[s] = next /\ open'[s] = has
  BY <1>1 DEF Inductive, TypeOK
<1>6. next \in {"send", "crashed"} /\ (next = "send" => has # NoFile)
  OBVIOUS
<1> HIDE DEF next
<1>7. ASSUME OwnFile(s) PROVE OwnFile(s)'
  <2>1. dir[start[s]] = s /\ sent[s] = <<>> /\ (has # NoFile => has = s)
    BY <1>2, <1>3, <1>7 DEF OwnFile
  <2>2. SubSeq(loop[s].out, 1, 0) = <<>> /\ Len(loop[s].out) \in Nat
    BY DEF Inductive, TypeOK, Loops
  <2>3. Len(<<>>) = 0
    OBVIOUS
  <2>4. Holds(content[s], loop[s].out, stream[s])
    BY <1>2, <1>7 DEF OwnFile
  <2> QED
    BY <1>2, <1>5, <1>6, <2>1, <2>2, <2>3, <2>4 DEF OwnFile
<1> QED
  BY <1>1, <1>2, <1>3, <1>4, <1>5, <1>6, <1>7, QuietStep

LEMMA SendStep ==
  ASSUME Inductive, NEW s \in Sessions, Send(s)
  PROVE  Inductive'
<1> DEFINE file == content[open[s]]
           from == Len(sent[s])
           to == IF from + BufLen <= Len(file) THEN from + BufLen ELSE Len(file)
           more == sent[s] \o SubSeq(file, from + 1, to)
           next == IF to < from + BufLen THEN "sent" ELSE "send"
<1>1. /\ pc[s] = "send" /\ open[s] \in Sessions /\ open[s] # NoFile
      /\ file \in Seq(Chars) /\ sent[s] \in Seq(Chars) /\ from \in Nat
      /\ Len(file) \in Nat /\ BufLen \in Nat \ {0}
  BY TempAssumption DEF Send, Inductive, TypeOK
<1>2. to \in Nat /\ to <= Len(file) /\ to <= from + BufLen
  BY <1>1
<1>3. /\ sent' = [sent EXCEPT ![s] = more] /\ pc' = [pc EXCEPT ![s] = next]
      /\ UNCHANGED <<clock, text, loop, stream, start, open, dir, content>>
  BY DEF Send
<1>4. SubSeq(file, from + 1, to) \in Seq(Chars)
  <2> HIDE DEF from, to, file
  <2> QED
    BY <1>1, <1>2
<1>5. more \in Seq(Chars)
  BY <1>1, <1>4
<1>6. open' = [open EXCEPT ![s] = open[s]]
  BY <1>3 DEF Inductive, TypeOK
<1>7. pc[open[s]] # "new" /\ start[open[s]] = start[s]
  BY <1>1 DEF Inductive, Named
<1>8. ASSUME OwnFile(s) PROVE OwnFile(s)'
  <2> DEFINE out == loop[s].out
  <2>1. dir[start[s]] = s /\ open[s] = s
    BY <1>1, <1>8 DEF OwnFile
  <2>2. next \in {"send", "sent"}
    OBVIOUS
  <2>3. ASSUME Whole(stream[s])
        PROVE  /\ content[s] = out /\ to <= Len(out) /\ more = SubSeq(out, 1, to) /\ Len(more) = to
               /\ next = "sent" => more = out
    <3>1. out \in Seq(Chars) /\ Len(out) \in Nat
      BY DEF Inductive, TypeOK, Loops
    <3>2. content[s] = SubSeq(out, 1, stream[s].offset) /\ stream[s].offset = Len(out)
      BY <1>1, <1>8, <2>3 DEF OwnFile, Holds, Inductive, Streaming
    <3>3. SubSeq(out, 1, Len(out)) = out
      BY <3>1
    <3>4. from <= Len(out) /\ sent[s] = SubSeq(out, 1, from)
      BY <1>1, <1>8, <2>3 DEF OwnFile
    <3>5. file = out
      BY <2>1, <3>2, <3>3
    <3>6. from <= to /\ to <= Len(out)
      BY <1>1, <1>2, <3>4, <3>5
    <3> HIDE DEF from, to, out
    <3>7. SubSeq(out, 1, from) \o SubSeq(out, from + 1, to) = SubSeq(out, 1, to)
      BY <1>1, <1>2, <3>1, <3>6
    <3>8. more = SubSeq(out, 1, to)
      BY <3>4, <3>5, <3>7
    <3>9. Len(more) = to
      <4> HIDE DEF more
      <4> QED
        BY <1>2, <3>1, <3>6, <3>8
    <3>10. next = "sent" => to = Len(out)
      BY <1>1, <3>1, <3>5 DEF to
    <3> HIDE DEF more, next, file
    <3> QED
      BY <2>1, <3>2, <3>3, <3>6, <3>8, <3>9, <3>10
  <2> HIDE DEF more, next, file, to
  <2>4. /\ pc'[s] = next /\ sent'[s] = more /\ loop'[s] = loop[s] /\ start'[s] = start[s]
        /\ dir' = dir /\ content'[s] = content[s] /\ open'[s] = s /\ stream'[s] = stream[s]
    BY <1>3, <2>1 DEF Inductive, TypeOK
  <2>5. Holds(content[s], loop[s].out, stream[s])
    BY <1>1, <1>8 DEF OwnFile
  <2> QED
    BY <2>1, <2>2, <2>3, <2>4, <2>5 DEF OwnFile, out
<1>9. next \in {"send", "sent"}
  OBVIOUS
<1> HIDE DEF more, next, file
<1> QED
  BY <1>1, <1>3, <1>5, <1>6, <1>7, <1>8, <1>9, QuietStep

LEMMA FailStep ==
  ASSUME Inductive, NEW s \in Sessions, Fail(s)
  PROVE  Inductive'
<1>1. /\ pc[s] = "send" /\ sent[s] \in Seq(Chars)
      /\ pc' = [pc EXCEPT ![s] = "failed"] /\ open' = [open EXCEPT ![s] = NoFile]
      /\ UNCHANGED <<clock, text, loop, stream, start, sent, dir, content>>
  BY DEF Fail, Inductive, TypeOK
<1>2. sent' = [sent EXCEPT ![s] = sent[s]]
  BY <1>1 DEF Inductive, TypeOK
<1>3. pc'[s] = "failed"
  BY <1>1 DEF Inductive, TypeOK
<1>4. ASSUME OwnFile(s) PROVE OwnFile(s)'
  BY <1>1, <1>3, <1>4 DEF OwnFile
<1> QED
  BY <1>1, <1>2, <1>4, QuietStep

LEMMA FinishStep ==
  ASSUME Inductive, NEW s \in Sessions, Finish(s)
  PROVE  Inductive'
<1> DEFINE n == start[s]
<1>1. /\ pc[s] = "sent" /\ n \in 0 .. LastSecond
      /\ dir' = [dir EXCEPT ![n] = NoFile]
      /\ pc' = [pc EXCEPT ![s] = "done"] /\ open' = [open EXCEPT ![s] = NoFile]
      /\ UNCHANGED <<clock, text, loop, stream, start, sent, content>>
  BY DEF Finish, Removed, TempName, Inductive, TypeOK
<1> HIDE DEF n
<1>2. TypeOK'
  BY <1>1 DEF Inductive, TypeOK, States
<1>3. ConvertedSoFar'
  BY <1>1 DEF Inductive, ConvertedSoFar
<1>4. Reading' /\ Streaming'
  BY <1>1 DEF Inductive, TypeOK, Reading, Streaming
<1>5. Named'
  <2>1. \A t \in Sessions : pc'[t] # "new" <=> pc[t] # "new"
    BY <1>1 DEF Inductive, TypeOK
  <2>2. \A m \in DOMAIN dir : dir[m] # NoFile => dir[m] \in Sessions
    BY DEF Inductive, TypeOK
  <2>3. \A t \in Sessions : open[t] # NoFile => open[t] \in Sessions
    BY DEF Inductive, TypeOK
  <2>4. DOMAIN dir' = DOMAIN dir /\ \A m \in DOMAIN dir : dir'[m] # NoFile => dir'[m] = dir[m]
    BY <1>1 DEF Inductive, TypeOK
  <2>5. \A t \in Sessions : open'[t] # NoFile => open'[t] = open[t]
    BY <1>1 DEF Inductive, TypeOK
  <2>6. \A m \in DOMAIN dir' : dir'[m] # NoFile => pc'[dir'[m]] # "new" /\ start'[dir'[m]] = m
    BY <1>1, <2>1, <2>2, <2>4 DEF Inductive, Named
  <2>7. \A t \in Sessions : open'[t] # NoFile =>
          pc'[t] # "new" /\ pc'[open'[t]] # "new" /\ start'[open'[t]] = start'[t]
    BY <1>1, <2>1, <2>3, <2>5 DEF Inductive, Named
  <2> QED
    BY <2>6, <2>7 DEF Named
<1>6. Onward
  BY <1>1 DEF Onward, Inductive, TypeOK
<1>7. Alone'
  <2> SUFFICES ASSUME NEW u \in Sessions, pc'[u] # "new", ~Shares(u)'
               PROVE  OwnFile(u)'
    BY DEF Alone
  <2>1. pc[u] # "new"
    BY <1>1 DEF Inductive, TypeOK
  <2>2. ~Shares(u)
    BY <2>1, <1>6, AloneBefore
  <2>3. OwnFile(u)
    BY <2>1, <2>2 DEF Inductive, Alone
  <2>4. CASE u = s
    <3>1. /\ pc'[s] = "done" /\ sent'[s] = sent[s] /\ loop'[s] = loop[s]
          /\ stream'[s] = stream[s]
      BY <1>1 DEF Inductive, TypeOK
    <3> QED
      BY <1>1, <2>3, <2>4, <3>1 DEF OwnFile
  <2>5. CASE u # s
    <3>1. start[u] # n
      BY <1>1, <2>2, <2>5, SameSecond DEF n
    <3>2. Untouched(u)
      BY <1>1, <2>5, <3>1 DEF Untouched, Inductive, TypeOK
    <3> QED
      BY <2>3, <3>2, UntouchedKeeps
  <2> QED
    BY <2>4, <2>5
<1>8. LeftoversAreFailures'
  <2>1. ASSUME NEW t \in Sessions, pc[t] \notin {"new", "uncreated", "done"}
        PROVE  \/ pc'[t] \notin {"new", "uncreated", "done"}
               \/ dir'[TempName(start[t])] = NoFile
    BY <1>1, <2>1 DEF Inductive, TypeOK, TempName, n
  <2>2. DOMAIN dir' = DOMAIN dir /\ \A m \in DOMAIN dir : dir'[m] # NoFile => dir[m] # NoFile
    BY <1>1 DEF Inductive, TypeOK
  <2> QED
    BY <1>1, <2>1, <2>2, LeftoversKeep DEF Inductive
<1> QED
  BY <1>2, <1>3, <1>4, <1>5, <1>7, <1>8 DEF Inductive
LEMMA InductiveStep == Inductive /\ [Next]_vars => Inductive'
<1> SUFFICES ASSUME Inductive, [Next]_vars PROVE Inductive'
  OBVIOUS
<1>1. CASE UNCHANGED vars
  <2>1. TypeOK' /\ ConvertedSoFar' /\ Reading' /\ Streaming' /\ Named' /\ LeftoversAreFailures'
    BY <1>1 DEF Inductive, TypeOK, ConvertedSoFar, Reading, Streaming, Named, LeftoversAreFailures, vars
  <2>2. Alone'
    BY <1>1 DEF Inductive, Alone, Shares, OwnFile, vars
  <2> QED
    BY <2>1, <2>2 DEF Inductive
<1>2. CASE Tick
  BY <1>2, TickStep
<1>3. ASSUME NEW s \in Sessions, SessionStep(s) PROVE Inductive'
  BY <1>3, CreateStep, CannotCreateStep, ConvertStep, PutStep, EndOfTextStep, CloseStep, ReopenStep,
     SendStep, FinishStep, FailStep
     DEF SessionStep
<1> QED
  BY <1>1, <1>2, <1>3 DEF Next

------------------------------------------------------------------------------
(* The theorems. *)

(* Whatever sessions run together, the variables keep their types.            *)
THEOREM TypeCorrect == Spec => []TypeOK
<1>1. Inductive => TypeOK
  BY DEF Inductive
<1> QED
  BY InductiveInit, InductiveStep, <1>1, PTL DEF Spec

(* The conversion loop produces the netascii form of every text, character    *)
(* by character, with the second half of a pair that waits.                   *)
THEOREM FormOfEveryText == Spec => []ConvertedSoFar
<1>1. Inductive => ConvertedSoFar
  BY DEF Inductive
<1> QED
  BY InductiveInit, InductiveStep, <1>1, PTL DEF Spec

(* A session that no other one shares its second with, and whose writes to the *)
(* temporary file have not failed, sends its client the text asked for; and    *)
(* the file is there when it is to be reopened, also when they have failed.    *)
THEOREM ApartIsSafe == Spec => []SeparateSecondsAreSafe
<1>1. ASSUME Inductive, NEW s \in Sessions, pc[s] = "done", OwnFile(s), Whole(stream[s])
      PROVE  ClientGetsText(s)
  <2>1. /\ loop[s] \in Loops /\ loop[s].pos = Len(text[s]) /\ loop[s].nextChar = None
        /\ text[s] \in Texts /\ Texts \subseteq Seq(Chars)
    BY <1>1, TempAssumption DEF Inductive, TypeOK, Reading
  <2>2. sent[s] = loop[s].out
    BY <1>1 DEF OwnFile
  <2>3. loop[s].out \o Waiting(loop[s]) = loop[s].out
    BY <2>1 DEF Loops, Waiting
  <2>4. IsNetascii(text[s], Len(text[s]), sent[s])
    BY <1>1, <2>1, <2>2, <2>3 DEF Inductive, ConvertedSoFar
  <2> QED
    BY <2>1, <2>4, FormTellsText DEF ClientGetsText
<1>2. Inductive => SeparateSecondsAreSafe
  BY <1>1 DEF Inductive, Alone, OwnFile, SeparateSecondsAreSafe, TempName
<1> QED
  BY InductiveInit, InductiveStep, <1>2, PTL DEF Spec

(* A temporary file that lies about belongs to a session that runs or failed, *)
(* also when sessions of one second take one another's file and remove it.    *)
THEOREM SuccessCleansUp == Spec => []LeftoversAreFailures
<1>1. Inductive => LeftoversAreFailures
  BY DEF Inductive
<1> QED
  BY InductiveInit, InductiveStep, <1>1, PTL DEF Spec
=============================================================================
