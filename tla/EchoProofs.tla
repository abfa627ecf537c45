----------------------------- MODULE EchoProofs -----------------------------
(* Proofs about Echo: no line is lost on its way to the server and back, for  *)
(* any clients, texts and size of buffer, however the stream is cut.          *)
EXTENDS Echo, SequenceTheorems, WellFoundedInduction, TLAPS

------------------------------------------------------------------------------
(* The invariant. *)

(* What an end has is text. *)
Texting ==
  /\ text \in [Clients -> Seq(Chars)]
  /\ send_buf \in [Clients -> Seq(Chars)] /\ recv_buf \in [Clients -> Seq(Chars)]
  /\ unsent \in [Clients -> [Ends -> Seq(Chars)]]
  /\ taken \in [Clients -> [Ends -> Seq(Chars)]]
  /\ stream \in [Clients -> [Ends -> Seq(Chars)]]

(* A connection waits for accept at most once, and has no child yet. *)
Queued ==
  /\ \A i \in 1 .. Len(backlog) : child[backlog[i]] = "none" /\ client[backlog[i]] # "new"
  /\ \A i, j \in 1 .. Len(backlog) : backlog[i] = backlog[j] => i = j
  /\ \A c \in Clients : client[c] = "new" => child[c] = "none" /\ recv_buf[c] = send_buf[c]

(* What fgets and readLine make of a text: short enough for the buffer, and   *)
(* with a newline, if at all, at its end.                                     *)
Cut(s) ==
  /\ Len(s) <= Limit
  /\ \A i \in 1 .. Len(s) : s[i] # NUL /\ (s[i] = LF => i = Len(s))

(* The line the client is busy with *)
Current(c) == IF client[c] \in {"send", "reply"} THEN send_buf[c] ELSE <<>>

(* It is on its way to the server, or back. *)
Asked(c) ==
  /\ taken[c].client = <<>> /\ stream[c].client = <<>> /\ unsent[c].server = <<>>
  /\ taken[c].server \o stream[c].server \o unsent[c].client = Current(c)

Answered(c) ==
  /\ taken[c].server = <<>> /\ stream[c].server = <<>> /\ unsent[c].client = <<>>
  /\ taken[c].client \o stream[c].client \o unsent[c].server = Current(c)

(* Both ends are there. *)
Connected(c) ==
  up /\ client[c] # "exit" =>
    /\ far[c].client = "open" /\ far[c].server = "open"
    /\ client[c] = "send" => unsent[c].client # <<>> /\ Asked(c)
    /\ client[c] # "send" => unsent[c].client = <<>> /\ (Asked(c) \/ Answered(c))
    /\ child[c] \in {"none", "lost", "read"} => unsent[c].server = <<>>

(* The server was stopped: the client can read what was under way to it. *)
Stopped(c) ==
  ~up =>
    /\ child[c] \notin {"read", "write"}
    /\ client[c] \notin {"new", "exit"} => far[c].client # "open"
    /\ client[c] \in {"input", "send"} => taken[c].client = <<>> /\ stream[c].client = <<>>
    /\ client[c] = "reply" =>
         \E lost \in Seq(Chars) : taken[c].client \o stream[c].client \o lost = send_buf[c]

Replied(c) ==
  client[c] = "input" =>
    \/ recv_buf[c] = send_buf[c]
    \/ ~up /\ IsPrefix(recv_buf[c], send_buf[c])

Sound(c) == Cut(send_buf[c]) /\ Connected(c) /\ Stopped(c) /\ Replied(c)

Inductive == TypeOK /\ Texting /\ Queued /\ \A c \in Clients : Sound(c)

------------------------------------------------------------------------------
(* Texts. *)

(* A set of numbers has a least element. *)
LEMMA LeastElement ==
  ASSUME NEW T \in SUBSET Nat, T # {}
  PROVE  Min(T) \in T /\ \A k \in T : Min(T) <= k
<1> DEFINE R == OpToRel(<, Nat)
<1>1. IsWellFoundedOn(R, Nat)
  BY NatLessThanWellFounded
<1>2. \A a, b \in Nat : a < b => <<a, b>> \in R
  BY DEF OpToRel
<1> HIDE DEF R
<1>3. PICK m \in T : \A k \in T : ~ (<<k, m>> \in R)
  BY <1>1, WFMin
<1>4. ASSUME NEW k \in T PROVE m <= k
  <2>1. ~(k < m)
    BY <1>2, <1>3
  <2> QED
    BY <2>1
<1> QED
  BY <1>4 DEF Min

(* A buffer has room for a character and the NUL. *)
LEMMA Room == Limit \in Nat /\ 1 <= Limit /\ Limit < BUFFER_SIZE
BY EchoAssumption DEF Limit

(* A text is its first n characters and what is behind them. *)
LEMMA Halves ==
  ASSUME NEW s \in Seq(Chars), NEW n \in 0 .. Len(s)
  PROVE  /\ First(s, n) \in Seq(Chars) /\ Len(First(s, n)) = n
         /\ \A i \in 1 .. n : First(s, n)[i] = s[i]
         /\ Behind(s, n) \in Seq(Chars) /\ Len(Behind(s, n)) = Len(s) - n
         /\ First(s, n) \o Behind(s, n) = s
<1>1. \A i \in 1 .. Len(s) : s[i] \in Chars
  BY ElementOfSeq
<1>2. Len(s) \in Nat /\ n \in Nat
  BY LenProperties
<1>3. /\ First(s, n) \in Seq(Chars) /\ Len(First(s, n)) = n
      /\ \A i \in 1 .. n : First(s, n)[i] = s[i]
      /\ Behind(s, n) \in Seq(Chars) /\ Len(Behind(s, n)) = Len(s) - n
  BY <1>1, <1>2 DEF First, Behind
<1>4. First(s, n) \o Behind(s, n) = SubSeq(s, 1, Len(s))
  <2>1. 1 \in 1 .. Len(s) + 1 /\ n \in 1 - 1 .. Len(s) /\ Len(s) \in n .. Len(s)
    BY <1>2
  <2> QED
    BY <2>1, ConcatAdjacentSubSeq DEF First, Behind
<1> QED
  BY <1>3, <1>4, SubSeqFull

(* fgets and readLine take a text up to its first newline, and no more than   *)
(* their limit.                                                               *)
LEMMA LineLengthIs ==
  ASSUME NEW s \in Seq(Chars), NEW limit \in Nat
  PROVE  /\ LineLength(s, limit) \in 0 .. Len(s) /\ LineLength(s, limit) <= limit
         /\ \A i \in 1 .. LineLength(s, limit) : s[i] = LF => i = LineLength(s, limit)
         /\ \/ LineLength(s, limit) \in {limit, Len(s)}
            \/ LineLength(s, limit) \in Places(s, LF)
<1> DEFINE T == Places(s, LF) \cup {limit, Len(s)}
           n == LineLength(s, limit)
<1>1. Len(s) \in Nat
  BY LenProperties
<1>2. T \in SUBSET Nat /\ T # {}
  BY <1>1 DEF Places
<1>3. n \in T /\ \A k \in T : n <= k
  BY <1>2, LeastElement DEF LineLength
<1> HIDE DEF n
<1>4. n \in Nat /\ n <= Len(s) /\ n <= limit
  BY <1>2, <1>3
<1>5. ASSUME NEW i \in 1 .. n, s[i] = LF PROVE i = n
  <2>1. i \in Places(s, LF)
    BY <1>1, <1>4, <1>5 DEF Places
  <2>2. n <= i
    BY <1>3, <2>1
  <2> QED
    BY <1>4, <2>2
<1> QED
  BY <1>1, <1>3, <1>4, <1>5 DEF n

(* What strlen sees of a text is a beginning of it, without NUL. *)
LEMMA CStringIs ==
  ASSUME NEW s \in Seq(Chars)
  PROVE  /\ CString(s) \in Seq(Chars) /\ Len(CString(s)) <= Len(s)
         /\ \A i \in 1 .. Len(CString(s)) : CString(s)[i] = s[i] /\ s[i] # NUL
<1>1. Len(s) \in Nat
  BY LenProperties
<1>2. CASE Places(s, NUL) = {}
  BY <1>1, <1>2 DEF CString, Places
<1>3. CASE Places(s, NUL) # {}
  <2> DEFINE m == Min(Places(s, NUL))
  <2>1. Places(s, NUL) \in SUBSET Nat
    BY DEF Places
  <2>2. m \in Places(s, NUL) /\ \A k \in Places(s, NUL) : m <= k
    BY <1>3, <2>1, LeastElement
  <2> HIDE DEF m
  <2>3. m \in 1 .. Len(s) /\ m - 1 \in 0 .. Len(s)
    BY <1>1, <2>2 DEF Places
  <2>4. \A i \in 1 .. m - 1 : s[i] # NUL
    BY <1>1, <2>2, <2>3 DEF Places
  <2>5. CString(s) = First(s, m - 1)
    BY <1>3 DEF CString, m
  <2>6. /\ CString(s) \in Seq(Chars) /\ Len(CString(s)) = m - 1
        /\ \A i \in 1 .. m - 1 : CString(s)[i] = s[i]
    <3>1. /\ First(s, m - 1) \in Seq(Chars) /\ Len(First(s, m - 1)) = m - 1
          /\ \A i \in 1 .. m - 1 : First(s, m - 1)[i] = s[i]
      BY <2>3, Halves
    <3> QED
      BY <2>5, <3>1
  <2> QED
    BY <1>1, <2>3, <2>4, <2>6
<1> QED
  BY <1>2, <1>3

(* What the client reads of its input is a line that readLine keeps whole. *)
LEMMA FgetsCuts ==
  ASSUME NEW s \in Seq(Chars)
  PROVE  /\ Fgets(s) \in Seq(Chars) /\ Len(Fgets(s)) \in 0 .. Len(s)
         /\ CString(Fgets(s)) \in Seq(Chars) /\ Cut(CString(Fgets(s)))
<1> DEFINE n == LineLength(s, Limit)
           f == First(s, n)
           t == CString(f)
<1>1. /\ n \in 0 .. Len(s) /\ n <= Limit /\ n \in Nat
      /\ \A i \in 1 .. n : s[i] = LF => i = n
  BY Room, LineLengthIs
<1> HIDE DEF n
<1>2. /\ f \in Seq(Chars) /\ Len(f) = n
      /\ \A i \in 1 .. n : f[i] = s[i]
  BY <1>1, Halves
<1> HIDE DEF f
<1>3. /\ t \in Seq(Chars) /\ Len(t) <= n /\ Len(t) \in Nat
      /\ \A i \in 1 .. Len(t) : t[i] = f[i] /\ f[i] # NUL
  BY <1>2, CStringIs, LenProperties
<1> HIDE DEF t
<1>4. Len(t) <= Limit
  BY <1>1, <1>3, Room
<1>5. ASSUME NEW i \in 1 .. Len(t) PROVE t[i] # NUL /\ (t[i] = LF => i = Len(t))
  <2>1. i \in 1 .. n
    BY <1>1, <1>3
  <2>2. t[i] = f[i] /\ f[i] # NUL /\ f[i] = s[i]
    BY <1>2, <1>3, <2>1
  <2>3. ASSUME t[i] = LF PROVE i = Len(t)
    <3>1. i = n
      BY <1>1, <2>1, <2>2, <2>3
    <3> QED
      BY <1>1, <1>3, <3>1
  <2> QED
    BY <2>2, <2>3
<1>6. Cut(t)
  BY <1>4, <1>5 DEF Cut
<1>7. Fgets(s) = f
  BY DEF Fgets, f, n
<1> QED
  BY <1>1, <1>2, <1>3, <1>6, <1>7 DEF t

(* What readLine makes of any text is short enough for its buffer. *)
LEMMA LineFits ==
  ASSUME NEW s \in Seq(Chars)
  PROVE  /\ Line(s) \in Seq(Chars) /\ Len(Line(s)) \in 0 .. Len(s) /\ Len(Line(s)) <= Limit
         /\ Behind(s, Len(Line(s))) \in Seq(Chars)
         /\ CString(Line(s)) \in Seq(Chars) /\ Len(CString(Line(s))) <= Limit
<1>1. LineLength(s, LineLimit) \in 0 .. Len(s) /\ LineLength(s, LineLimit) <= Limit
  BY Room, LineLengthIs DEF LineLimit
<1>2. /\ Line(s) \in Seq(Chars) /\ Len(Line(s)) \in 0 .. Len(s) /\ Len(Line(s)) <= Limit
  BY <1>1, Halves DEF Line
<1>3. CString(Line(s)) \in Seq(Chars) /\ Len(CString(Line(s))) <= Len(Line(s))
  BY <1>2, CStringIs
<1>4. Len(CString(Line(s))) \in Nat /\ Len(Line(s)) \in Nat
  BY <1>2, <1>3, LenProperties
<1> QED
  BY <1>2, <1>3, <1>4, Halves, Room

(* What is cut like a line is one line, for strlen as for readLine. *)
LEMMA CutIsOneLine ==
  ASSUME NEW s \in Seq(Chars), Cut(s)
  PROVE  Line(s) = s /\ Behind(s, Len(Line(s))) = <<>> /\ CString(s) = s
<1> DEFINE n == LineLength(s, LineLimit)
<1>1. Len(s) \in Nat /\ Len(s) <= Limit
  BY LenProperties DEF Cut
<1>2. n = Len(s)
  <2>1. /\ n \in 0 .. Len(s)
        /\ n \in {Limit, Len(s)} \/ n \in Places(s, LF)
    BY Room, LineLengthIs DEF LineLimit
  <2>2. CASE n \in {Limit, Len(s)}
    BY <1>1, <2>1, <2>2, Room
  <2>3. CASE n \in Places(s, LF)
    BY <1>1, <2>3 DEF Places, Cut
  <2> QED
    BY <2>1, <2>2, <2>3
<1>3. Line(s) = s
  BY <1>2, SubSeqFull DEF Line, First
<1>4. Behind(s, Len(s)) = <<>>
  BY <1>1, SubSeqEmpty DEF Behind
<1>5. Places(s, NUL) = {}
  BY DEF Places, Cut
<1> QED
  BY <1>3, <1>4, <1>5 DEF CString

(* A beginning of such a line is one too; and when readLine takes it for a    *)
(* line it is the whole.                                                      *)
LEMMA CutBegins ==
  ASSUME NEW a \in Seq(Chars), NEW b \in Seq(Chars), Cut(a \o b)
  PROVE  Cut(a) /\ (HasLine(a) => b = <<>>)
<1>1. /\ Len(a) \in Nat /\ Len(b) \in Nat /\ Len(a \o b) = Len(a) + Len(b)
      /\ Len(a) + Len(b) <= Limit
  BY LenProperties DEF Cut
<1>2. \A i \in 1 .. Len(a) : (a \o b)[i] = a[i] /\ i \in 1 .. Len(a \o b)
  BY <1>1
<1>3. \A i \in 1 .. Len(a) : a[i] # NUL /\ (a[i] = LF => i = Len(a) + Len(b))
  BY <1>1, <1>2 DEF Cut
<1>4. Cut(a)
  <2>1. Len(a) <= Limit
    BY <1>1, Room
  <2>2. \A i \in 1 .. Len(a) : i = Len(a) + Len(b) => i = Len(a)
    BY <1>1
  <2> QED
    BY <1>3, <2>1, <2>2 DEF Cut
<1>5. ASSUME HasLine(a) PROVE Len(b) = 0
  <2>1. CASE Places(a, LF) # {}
    <3>1. PICK i \in 1 .. Len(a) : a[i] = LF
      BY <2>1 DEF Places
    <3>2. i = Len(a) + Len(b)
      BY <1>3, <3>1
    <3> QED
      BY <1>1, <3>2
  <2>2. CASE Len(a) >= Limit
    BY <1>1, <2>2, Room
  <2> QED
    BY <1>5, <2>1, <2>2 DEF HasLine, LineLimit
<1>6. Len(b) = 0 => b = <<>>
  BY EmptySeq
<1> QED
  BY <1>4, <1>5, <1>6

(* The line is at most the limit, so that a line is full, or has a newline.   *)
LEMMA CutHasLine ==
  ASSUME NEW s \in Seq(Chars), IsLine(s)
  PROVE  HasLine(s)
BY DEF IsLine, HasLine, LineLimit, Limit

(* Nothing yet is no line. *)
LEMMA NothingIsNoLine == ~HasLine(<<>>)
<1>1. Places(<<>>, LF) = {} /\ Len(<<>>) = 0
  BY DEF Places
<1> QED
  BY <1>1, Room DEF HasLine, LineLimit

(* It does not matter in which order texts are joined. *)
LEMMA Associative ==
  \A a, b, c \in Seq(Chars) : (a \o b) \o c = a \o (b \o c)
BY ConcatAssociative

(* What goes from one place to the next stays where it was in the whole. *)
LEMMA MovesOn ==
  \A a, b, c \in Seq(Chars) :
    /\ \A n \in 0 .. Len(b) : (a \o First(b, n)) \o Behind(b, n) \o c = a \o b \o c
    /\ \A n \in 0 .. Len(c) : a \o (b \o First(c, n)) \o Behind(c, n) = a \o b \o c
<1> SUFFICES ASSUME NEW a \in Seq(Chars), NEW b \in Seq(Chars), NEW c \in Seq(Chars)
    PROVE  /\ \A n \in 0 .. Len(b) : (a \o First(b, n)) \o Behind(b, n) \o c = a \o b \o c
           /\ \A n \in 0 .. Len(c) : a \o (b \o First(c, n)) \o Behind(c, n) = a \o b \o c
  OBVIOUS
<1>1. ASSUME NEW n \in 0 .. Len(b)
      PROVE  (a \o First(b, n)) \o Behind(b, n) \o c = a \o b \o c
  <2>1. First(b, n) \in Seq(Chars) /\ Behind(b, n) \in Seq(Chars)
        /\ First(b, n) \o Behind(b, n) = b
    BY Halves
  <2>2. (a \o First(b, n)) \o Behind(b, n) = a \o (First(b, n) \o Behind(b, n))
    BY <2>1, Associative
  <2> QED
    BY <2>1, <2>2
<1>2. ASSUME NEW n \in 0 .. Len(c)
      PROVE  a \o (b \o First(c, n)) \o Behind(c, n) = a \o b \o c
  <2>1. First(c, n) \in Seq(Chars) /\ Behind(c, n) \in Seq(Chars)
        /\ First(c, n) \o Behind(c, n) = c
    BY Halves
  <2>2. a \o (b \o First(c, n)) = (a \o b) \o First(c, n)
    BY <2>1, Associative
  <2>3. a \o b \in Seq(Chars)
    BY ConcatProperties
  <2>4. ((a \o b) \o First(c, n)) \o Behind(c, n) = (a \o b) \o (First(c, n) \o Behind(c, n))
    BY <2>1, <2>3, Associative
  <2> QED
    BY <2>1, <2>2, <2>4
<1> QED
  BY <1>1, <1>2

(* Three texts make nothing only if each is nothing, and one is the whole if  *)
(* the others are nothing.                                                    *)
LEMMA ThreeTexts ==
  \A a, b, c \in Seq(Chars) :
    /\ a \o b \o c = <<>> => a = <<>> /\ b = <<>> /\ c = <<>>
    /\ b = <<>> /\ c = <<>> => a \o b \o c = a
    /\ a = <<>> /\ b = <<>> => a \o b \o c = c
    /\ a \o b \o c = a \o (b \o c) /\ b \o c \in Seq(Chars) /\ a \o b \in Seq(Chars)
    /\ b \o c = <<>> => b = <<>> /\ c = <<>>
<1> SUFFICES ASSUME NEW a \in Seq(Chars), NEW b \in Seq(Chars), NEW c \in Seq(Chars)
    PROVE  /\ a \o b \o c = <<>> => a = <<>> /\ b = <<>> /\ c = <<>>
           /\ b = <<>> /\ c = <<>> => a \o b \o c = a
           /\ a = <<>> /\ b = <<>> => a \o b \o c = c
           /\ a \o b \o c = a \o (b \o c) /\ b \o c \in Seq(Chars) /\ a \o b \in Seq(Chars)
           /\ b \o c = <<>> => b = <<>> /\ c = <<>>
  OBVIOUS
<1>1. a \o b \in Seq(Chars) /\ b \o c \in Seq(Chars)
  BY ConcatProperties
<1>2. a \o b \o c = <<>> => a \o b = <<>> /\ c = <<>>
  BY <1>1, ConcatEqualIffEmpty
<1>3. a \o b = <<>> => a = <<>> /\ b = <<>>
  BY ConcatEqualIffEmpty
<1>4. b \o c = <<>> => b = <<>> /\ c = <<>>
  BY ConcatEqualIffEmpty
<1>5. a \o <<>> = a /\ <<>> \o c = c /\ <<>> \o <<>> = <<>>
  BY ConcatEmptySeq, EmptySeq
<1>6. a \o b \o c = a \o (b \o c)
  BY ConcatAssociative
<1> QED
  BY <1>1, <1>2, <1>3, <1>4, <1>5, <1>6

------------------------------------------------------------------------------
(* What a step has to show. *)

(* The texts of one connection. *)
LEMMA OneConnection ==
  ASSUME Texting, NEW c \in Clients
  PROVE  /\ text[c] \in Seq(Chars) /\ send_buf[c] \in Seq(Chars) /\ recv_buf[c] \in Seq(Chars)
         /\ unsent[c].client \in Seq(Chars) /\ unsent[c].server \in Seq(Chars)
         /\ taken[c].client \in Seq(Chars) /\ taken[c].server \in Seq(Chars)
         /\ stream[c].client \in Seq(Chars) /\ stream[c].server \in Seq(Chars)
BY DEF Texting, Ends

(* A step of one connection leaves the others as they are. *)
LEMMA OthersKeep ==
  ASSUME Inductive, NEW c \in Clients, TypeOK', Texting', Queued', Sound(c)', up' = up,
         \A d \in Clients \ {c} :
           /\ client'[d] = client[d] /\ child'[d] = child[d] /\ far'[d] = far[d]
           /\ send_buf'[d] = send_buf[d] /\ recv_buf'[d] = recv_buf[d]
           /\ unsent'[d] = unsent[d] /\ taken'[d] = taken[d] /\ stream'[d] = stream[d]
  PROVE  Inductive'
<1>1. ASSUME NEW d \in Clients \ {c} PROVE Sound(d)'
  <2>1. /\ client'[d] = client[d] /\ child'[d] = child[d] /\ far'[d] = far[d]
        /\ send_buf'[d] = send_buf[d] /\ recv_buf'[d] = recv_buf[d]
        /\ unsent'[d] = unsent[d] /\ taken'[d] = taken[d] /\ stream'[d] = stream[d]
    OBVIOUS
  <2>2. Cut(send_buf[d]) /\ Connected(d) /\ Stopped(d) /\ Replied(d)
    BY DEF Inductive, Sound
  <2>3. Cut(send_buf[d])'
    BY <2>1, <2>2 DEF Cut
  <2>4. Connected(d)'
    BY <2>1, <2>2 DEF Connected, Asked, Answered, Current
  <2>5. Stopped(d)' /\ Replied(d)'
    BY <2>1, <2>2 DEF Stopped, Replied
  <2> QED
    BY <2>3, <2>4, <2>5 DEF Sound
<1> QED
  BY <1>1 DEF Inductive

(* The queue of accept is not touched by what happens on a connection. *)
LEMMA QueueKept ==
  ASSUME Inductive, backlog' = backlog,
         \A c \in Clients : child'[c] = "none" <=> child[c] = "none",
         \A c \in Clients : client'[c] = "new" <=> client[c] = "new",
         \A c \in Clients : client[c] = "new" =>
           recv_buf'[c] = recv_buf[c] /\ send_buf'[c] = send_buf[c]
  PROVE  Queued'
<1>1. \A i \in 1 .. Len(backlog) : backlog[i] \in Clients
  BY ElementOfSeq DEF Inductive, TypeOK
<1>2. Queued
  BY DEF Inductive
<1>3. \A i \in 1 .. Len(backlog) : child'[backlog[i]] = "none" /\ client'[backlog[i]] # "new"
  BY <1>1, <1>2 DEF Queued
<1> QED
  BY <1>2, <1>3 DEF Queued

------------------------------------------------------------------------------
(* writen and my_read. *)

(* write takes a part of what there is to write. *)
LEMMA WriteEffect ==
  ASSUME Inductive, NEW c \in Clients, NEW e \in Ends, Write(c, e)
  PROVE  /\ unsent' \in [Clients -> [Ends -> Seq(Chars)]]
         /\ stream' \in [Clients -> [Ends -> Seq(Chars)]]
         /\ far' \in [Clients -> [Ends -> FarStates]]
         /\ \A d \in Clients \ {c} :
              unsent'[d] = unsent[d] /\ stream'[d] = stream[d] /\ far'[d] = far[d]
         /\ unsent'[c][Other(e)] = unsent[c][Other(e)]
         /\ stream'[c][e] = stream[c][e] /\ far'[c][Other(e)] = far[c][Other(e)]
         /\ Len(unsent'[c][e]) < BUFFER_SIZE
         /\ far[c][e] \in {"open", "closed"}
         /\ IF far[c][e] = "closed"
              THEN stream' = stream /\ far'[c][e] \in {"closed", "broken"}
              ELSE /\ far' = far
                   /\ \E k \in 1 .. Len(unsent[c][e]) :
                        /\ unsent'[c][e] = Behind(unsent[c][e], k)
                        /\ stream'[c][Other(e)] = stream[c][Other(e)] \o First(unsent[c][e], k)
<1> DEFINE o == Other(e)
           u == unsent[c][e]
<1>1. o \in Ends /\ o # e
  BY DEF Other, Ends
<1>2. /\ unsent \in [Clients -> [Ends -> Seq(Chars)]]
      /\ stream \in [Clients -> [Ends -> Seq(Chars)]]
      /\ far \in [Clients -> [Ends -> FarStates]]
      /\ Len(u) < BUFFER_SIZE
  BY DEF Inductive, Texting, TypeOK
<1> HIDE DEF o
<1>3. PICK k \in 1 .. Len(u) :
        /\ unsent' = [unsent EXCEPT ![c][e] = Behind(@, k)]
        /\ stream' = IF far[c][e] = "closed" THEN stream
                     ELSE [stream EXCEPT ![c][o] = @ \o First(u, k)]
  BY DEF Write, Rest, o
<1>4. PICK f \in {far[c][e]} \cup IF far[c][e] = "closed" THEN {"broken"} ELSE {} :
        far' = [far EXCEPT ![c][e] = f]
  BY DEF Write
<1>5. u \in Seq(Chars) /\ Len(u) \in Nat /\ k \in 0 .. Len(u)
  BY <1>2, LenProperties
<1> HIDE DEF u
<1>6. /\ First(u, k) \in Seq(Chars) /\ Behind(u, k) \in Seq(Chars)
      /\ Len(Behind(u, k)) = Len(u) - k
  BY <1>5, Halves
<1>7. stream[c][o] \o First(u, k) \in Seq(Chars)
  BY <1>1, <1>2, <1>6, ConcatProperties
<1>8. /\ unsent' = [unsent EXCEPT ![c] = [unsent[c] EXCEPT ![e] = Behind(u, k)]]
      /\ far' = [far EXCEPT ![c] = [far[c] EXCEPT ![e] = f]]
  BY <1>2, <1>3, <1>4 DEF u
<1>9. /\ unsent' \in [Clients -> [Ends -> Seq(Chars)]]
      /\ unsent'[c][e] = Behind(u, k) /\ unsent'[c][o] = unsent[c][o]
      /\ \A d \in Clients \ {c} : unsent'[d] = unsent[d]
  BY <1>1, <1>2, <1>6, <1>8
<1>10. f \in FarStates
  BY <1>2 DEF FarStates
<1>11. /\ far' \in [Clients -> [Ends -> FarStates]]
       /\ far'[c][e] = f /\ far'[c][o] = far[c][o]
       /\ \A d \in Clients \ {c} : far'[d] = far[d]
  BY <1>1, <1>2, <1>8, <1>10
<1>12. Len(unsent'[c][e]) < BUFFER_SIZE
  <2>1. Len(Behind(u, k)) <= Len(u)
    BY <1>5, <1>6
  <2>2. Len(u) < BUFFER_SIZE /\ BUFFER_SIZE \in Nat /\ Len(Behind(u, k)) \in Nat
    BY <1>2, <1>6, EchoAssumption, LenProperties DEF u
  <2> QED
    BY <1>5, <1>9, <2>1, <2>2
<1>13. far[c][e] \in {"open", "closed"}
  BY DEF Write
<1>14. CASE far[c][e] = "closed"
  <2>1. stream' = stream
    BY <1>3, <1>14
  <2> QED
    BY <1>2, <1>4, <1>9, <1>11, <1>12, <1>13, <1>14, <2>1 DEF o
<1>15. CASE far[c][e] # "closed"
  <2>1. stream' = [stream EXCEPT ![c] = [stream[c] EXCEPT ![o] = stream[c][o] \o First(u, k)]]
    BY <1>2, <1>3, <1>15
  <2>2. /\ stream' \in [Clients -> [Ends -> Seq(Chars)]]
        /\ stream'[c][e] = stream[c][e] /\ stream'[c][o] = stream[c][o] \o First(u, k)
        /\ \A d \in Clients \ {c} : stream'[d] = stream[d]
    BY <1>1, <1>2, <1>7, <2>1
  <2>3. far' = far
    BY <1>2, <1>4, <1>8, <1>15
  <2>4. \E n \in 1 .. Len(u) : /\ unsent'[c][e] = Behind(u, n)
                               /\ stream'[c][o] = stream[c][o] \o First(u, n)
    BY <1>9, <2>2
  <2> QED
    BY <1>9, <1>11, <1>12, <1>13, <1>15, <2>2, <2>3, <2>4 DEF o, u
<1> QED
  BY <1>14, <1>15

(* read takes a part of what has come. *)
LEMMA ReadEffect ==
  ASSUME Inductive, NEW c \in Clients, NEW e \in Ends, Read(c, e)
  PROVE  /\ taken' \in [Clients -> [Ends -> Seq(Chars)]]
         /\ stream' \in [Clients -> [Ends -> Seq(Chars)]]
         /\ \A d \in Clients \ {c} : taken'[d] = taken[d] /\ stream'[d] = stream[d]
         /\ taken'[c][Other(e)] = taken[c][Other(e)]
         /\ stream'[c][Other(e)] = stream[c][Other(e)]
         /\ \E k \in 1 .. Len(stream[c][e]) :
              /\ taken'[c][e] = taken[c][e] \o First(stream[c][e], k)
              /\ stream'[c][e] = Behind(stream[c][e], k)
<1> DEFINE o == Other(e)
           t == taken[c][e]
           m == stream[c][e]
<1>1. o \in Ends /\ o # e
  BY DEF Other, Ends
<1>2. /\ taken \in [Clients -> [Ends -> Seq(Chars)]]
      /\ stream \in [Clients -> [Ends -> Seq(Chars)]]
  BY DEF Inductive, Texting
<1> HIDE DEF o
<1>3. PICK k \in 1 .. Min({Len(m), BUFFER_SIZE}) :
        /\ taken' = [taken EXCEPT ![c][e] = @ \o First(m, k)]
        /\ stream' = [stream EXCEPT ![c][e] = Behind(@, k)]
  BY DEF Read
<1>4. t \in Seq(Chars) /\ m \in Seq(Chars) /\ Len(m) \in Nat
  BY <1>2, LenProperties
<1>5. k \in 1 .. Len(m)
  <2>1. {Len(m), BUFFER_SIZE} \in SUBSET Nat
    BY <1>4, EchoAssumption
  <2>2. Min({Len(m), BUFFER_SIZE}) <= Len(m) /\ Min({Len(m), BUFFER_SIZE}) \in Nat
    BY <2>1, LeastElement
  <2> QED
    BY <1>4, <2>2
<1> HIDE DEF t, m
<1>6. First(m, k) \in Seq(Chars) /\ Behind(m, k) \in Seq(Chars)
  <2>1. k \in 0 .. Len(m)
    BY <1>4, <1>5
  <2> QED
    BY <1>4, <2>1, Halves
<1>7. t \o First(m, k) \in Seq(Chars)
  BY <1>4, <1>6, ConcatProperties
<1>8. /\ taken' = [taken EXCEPT ![c] = [taken[c] EXCEPT ![e] = t \o First(m, k)]]
      /\ stream' = [stream EXCEPT ![c] = [stream[c] EXCEPT ![e] = Behind(m, k)]]
  BY <1>2, <1>3 DEF t, m
<1>9. /\ taken' \in [Clients -> [Ends -> Seq(Chars)]]
      /\ taken'[c][e] = t \o First(m, k) /\ taken'[c][o] = taken[c][o]
      /\ \A d \in Clients \ {c} : taken'[d] = taken[d]
  BY <1>1, <1>2, <1>7, <1>8
<1>10. /\ stream' \in [Clients -> [Ends -> Seq(Chars)]]
       /\ stream'[c][e] = Behind(m, k) /\ stream'[c][o] = stream[c][o]
       /\ \A d \in Clients \ {c} : stream'[d] = stream[d]
  BY <1>1, <1>2, <1>6, <1>8
<1> QED
  BY <1>5, <1>9, <1>10 DEF o, t, m

(* readLine keeps what is behind the line it returns. *)
LEMMA GetsLineEffect ==
  ASSUME Inductive, NEW c \in Clients, NEW e \in Ends, GetsLine(c, e)
  PROVE  /\ taken' \in [Clients -> [Ends -> Seq(Chars)]]
         /\ \A d \in Clients \ {c} : taken'[d] = taken[d]
         /\ taken'[c][Other(e)] = taken[c][Other(e)]
         /\ taken'[c][e] = Behind(taken[c][e], Len(Line(taken[c][e])))
         /\ HasLine(taken[c][e]) \/ LastLine(c, e)
<1>1. Other(e) \in Ends /\ Other(e) # e
  BY DEF Other, Ends
<1>2. taken \in [Clients -> [Ends -> Seq(Chars)]]
  BY DEF Inductive, Texting
<1> DEFINE b == Behind(taken[c][e], Len(Line(taken[c][e])))
<1>3. b \in Seq(Chars)
  BY <1>2, LineFits
<1>4. taken' = [taken EXCEPT ![c] = [taken[c] EXCEPT ![e] = b]]
  BY <1>2 DEF GetsLine
<1> HIDE DEF b
<1>5. /\ taken' \in [Clients -> [Ends -> Seq(Chars)]]
      /\ \A d \in Clients \ {c} : taken'[d] = taken[d]
      /\ taken'[c][Other(e)] = taken[c][Other(e)] /\ taken'[c][e] = b
  BY <1>1, <1>2, <1>3, <1>4
<1> QED
  BY <1>5 DEF GetsLine, b

------------------------------------------------------------------------------
(* The client's steps. *)

(* The client ends, at any place but before connect. *)
LEMMA ExitSound ==
  ASSUME Inductive, NEW c \in Clients, client[c] # "new", ClientExit(c)
  PROVE  Inductive'
<1>1. /\ client' = [client EXCEPT ![c] = "exit"]
      /\ far' = [far EXCEPT ![c].server = FarAfterEnd(c, "server")]
      /\ stream' = [stream EXCEPT ![c].client = <<>>]
      /\ UNCHANGED <<text, send_buf, recv_buf, child, unsent, taken, backlog, up>>
  BY DEF ClientExit
<1>2. /\ client \in [Clients -> {"new", "input", "send", "reply", "exit"}]
      /\ far \in [Clients -> [Ends -> FarStates]]
      /\ stream \in [Clients -> [Ends -> Seq(Chars)]]
  BY DEF Inductive, TypeOK, Texting
<1>3. /\ far' \in [Clients -> [Ends -> FarStates]]
      /\ \A d \in Clients \ {c} : far'[d] = far[d]
  <2>1. FarAfterEnd(c, "server") \in FarStates
    BY <1>2 DEF FarAfterEnd, FarStates, Ends
  <2> QED
    BY <1>1, <1>2, <2>1 DEF Ends
<1>4. /\ stream' \in [Clients -> [Ends -> Seq(Chars)]]
      /\ \A d \in Clients \ {c} : stream'[d] = stream[d]
  <2>1. <<>> \in Seq(Chars)
    BY EmptySeq
  <2> QED
    BY <1>1, <1>2, <2>1 DEF Ends
<1>5. client'[c] = "exit" /\ \A d \in Clients \ {c} : client'[d] = client[d]
  BY <1>1, <1>2
<1>6. TypeOK'
  BY <1>1, <1>2, <1>3 DEF Inductive, TypeOK
<1>7. Texting'
  BY <1>1, <1>4 DEF Inductive, Texting
<1>8. Queued'
  BY <1>1, <1>5, QueueKept
<1>9. Sound(c)'
  <2>1. Cut(send_buf[c]) /\ Stopped(c)
    BY DEF Inductive, Sound
  <2>2. Cut(send_buf[c])'
    BY <1>1, <2>1 DEF Cut
  <2>3. Connected(c)' /\ Replied(c)'
    BY <1>5 DEF Connected, Replied
  <2>4. Stopped(c)'
    BY <1>1, <1>5, <2>1 DEF Stopped
  <2> QED
    BY <2>2, <2>3, <2>4 DEF Sound
<1> QED
  BY <1>1, <1>3, <1>4, <1>5, <1>6, <1>7, <1>8, <1>9, OthersKeep

(* A connection waits for accept with nothing under way. *)
LEMMA ConnectSound ==
  ASSUME Inductive, NEW c \in Clients, Connect(c)
  PROVE  Inductive'
<1>1. /\ client[c] = "new"
      /\ client' = [client EXCEPT ![c] = IF up THEN "input" ELSE "exit"]
      /\ backlog' = IF up THEN Append(backlog, c) ELSE backlog
      /\ UNCHANGED <<text, send_buf, recv_buf, child, unsent, taken, stream, far, up>>
  BY DEF Connect
<1>2. /\ client \in [Clients -> {"new", "input", "send", "reply", "exit"}]
      /\ backlog \in Seq(Clients) /\ Len(backlog) \in Nat
  BY LenProperties DEF Inductive, TypeOK
<1>3. /\ client'[c] = IF up THEN "input" ELSE "exit"
      /\ \A d \in Clients \ {c} : client'[d] = client[d]
  BY <1>1, <1>2
<1>4. TypeOK'
  <2>1. backlog' \in Seq(Clients)
    BY <1>1, <1>2
  <2>2. client' \in [Clients -> {"new", "input", "send", "reply", "exit"}]
    BY <1>1, <1>2
  <2> QED
    BY <1>1, <2>1, <2>2 DEF Inductive, TypeOK
<1>5. Texting'
  BY <1>1 DEF Inductive, Texting
<1>6. Queued'
  <2>1. Queued
    BY DEF Inductive
  <2>2. \A i \in 1 .. Len(backlog) : backlog[i] \in Clients /\ backlog[i] # c
    BY <1>1, <1>2, <2>1, ElementOfSeq DEF Queued
  <2>3. CASE up
    <3>1. /\ Len(backlog') = Len(backlog) + 1 /\ backlog'[Len(backlog) + 1] = c
          /\ \A i \in 1 .. Len(backlog) : backlog'[i] = backlog[i]
      BY <1>1, <1>2, <2>3
    <3>2. \A i \in 1 .. Len(backlog') : i \in 1 .. Len(backlog) \/ i = Len(backlog) + 1
      BY <1>2, <3>1
    <3>3. ASSUME NEW i \in 1 .. Len(backlog')
          PROVE  child'[backlog'[i]] = "none" /\ client'[backlog'[i]] # "new"
      <4>1. CASE i \in 1 .. Len(backlog)
        BY <1>1, <1>3, <2>1, <2>2, <3>1, <4>1 DEF Queued
      <4>2. CASE i = Len(backlog) + 1
        BY <1>1, <1>3, <2>1, <2>3, <3>1, <4>2 DEF Queued
      <4> QED
        BY <3>2, <4>1, <4>2
    <3>4. ASSUME NEW i \in 1 .. Len(backlog'), NEW j \in 1 .. Len(backlog'),
                 backlog'[i] = backlog'[j]
          PROVE  i = j
      BY <2>1, <2>2, <3>1, <3>2, <3>4 DEF Queued
    <3>5. \A d \in Clients : client'[d] = "new" => child'[d] = "none" /\ recv_buf'[d] = send_buf'[d]
      BY <1>1, <1>3, <2>1, <2>3 DEF Queued
    <3> QED
      BY <3>3, <3>4, <3>5 DEF Queued
  <2>4. CASE ~up
    <3>1. backlog' = backlog
      BY <1>1, <2>4
    <3>2. \A i \in 1 .. Len(backlog) : client'[backlog[i]] # "new"
      BY <1>3, <2>1, <2>2 DEF Queued
    <3>3. \A d \in Clients : client'[d] = "new" => client[d] = "new"
      BY <1>3, <2>4
    <3> QED
      BY <1>1, <2>1, <3>1, <3>2, <3>3 DEF Queued
  <2> QED
    BY <2>3, <2>4
<1>7. Sound(c)'
  <2>1. Cut(send_buf[c]) /\ Connected(c) /\ Stopped(c) /\ recv_buf[c] = send_buf[c]
    BY <1>1 DEF Inductive, Sound, Queued
  <2>2. Cut(send_buf[c])'
    BY <1>1, <2>1 DEF Cut
  <2>3. CASE up
    <3>1. client[c] = "new" /\ client'[c] = "input"
      BY <1>1, <1>3, <2>3
    <3>2. Current(c) = <<>> /\ Current(c)' = <<>>
      BY <3>1 DEF Current
    <3>3. Connected(c)'
      BY <1>1, <2>1, <3>1, <3>2 DEF Connected, Asked, Answered
    <3>4. Stopped(c)' /\ Replied(c)'
      BY <1>1, <2>1, <2>3, <3>1 DEF Stopped, Replied
    <3> QED
      BY <2>2, <3>3, <3>4 DEF Sound
  <2>4. CASE ~up
    <3>1. client'[c] = "exit" /\ ~up'
      BY <1>1, <1>3, <2>4
    <3>2. Stopped(c)'
      BY <1>1, <2>1, <3>1 DEF Stopped
    <3> QED
      BY <2>2, <3>1, <3>2 DEF Sound, Connected, Replied
  <2> QED
    BY <2>3, <2>4
<1> QED
  BY <1>1, <1>3, <1>4, <1>5, <1>6, <1>7, OthersKeep

(* The client begins a line when nothing of the last one is under way. *)
LEMMA GetLineSound ==
  ASSUME Inductive, NEW c \in Clients, GetLine(c)
  PROVE  Inductive'
<1> DEFINE l == CString(Fgets(text[c]))
           t == Behind(text[c], Len(Fgets(text[c])))
<1>1. /\ client[c] = "input"
      /\ send_buf' = [send_buf EXCEPT ![c] = l]
      /\ send_buf'[c] # <<>>
      /\ unsent' = [unsent EXCEPT ![c].client = send_buf'[c]]
      /\ text' = [text EXCEPT ![c] = t]
      /\ client' = [client EXCEPT ![c] = "send"]
      /\ UNCHANGED <<recv_buf, child, taken, stream, far, backlog, up>>
  <2>1. text \in [Clients -> Seq(Chars)]
    BY DEF Inductive, Texting
  <2> QED
    BY <2>1 DEF GetLine
<1>2. /\ client \in [Clients -> {"new", "input", "send", "reply", "exit"}]
      /\ send_buf \in [Clients -> Seq(Chars)] /\ text \in [Clients -> Seq(Chars)]
      /\ unsent \in [Clients -> [Ends -> Seq(Chars)]]
      /\ \A d \in Clients : Len(send_buf[d]) < BUFFER_SIZE
      /\ \A d \in Clients, e \in Ends : Len(unsent[d][e]) < BUFFER_SIZE
  BY DEF Inductive, TypeOK, Texting
<1>3. l \in Seq(Chars) /\ Cut(l) /\ t \in Seq(Chars)
  <2>1. text[c] \in Seq(Chars)
    BY <1>2
  <2>2. /\ l \in Seq(Chars) /\ Cut(l) /\ Len(Fgets(text[c])) \in 0 .. Len(text[c])
    BY <2>1, FgetsCuts
  <2> QED
    BY <2>1, <2>2, Halves
<1> HIDE DEF l, t
<1>4. Len(l) < BUFFER_SIZE
  <2>1. Len(l) <= Limit /\ Len(l) \in Nat
    BY <1>3, LenProperties DEF Cut
  <2> QED
    BY <2>1, Room, EchoAssumption
<1>5. send_buf'[c] = l /\ l # <<>> /\ \A d \in Clients \ {c} : send_buf'[d] = send_buf[d]
  BY <1>1, <1>2
<1>6. /\ client'[c] = "send" /\ \A d \in Clients \ {c} : client'[d] = client[d]
      /\ client' \in [Clients -> {"new", "input", "send", "reply", "exit"}]
  BY <1>1, <1>2
<1>7. /\ unsent' = [unsent EXCEPT ![c] = [unsent[c] EXCEPT !.client = l]]
      /\ unsent' \in [Clients -> [Ends -> Seq(Chars)]]
      /\ unsent'[c].client = l /\ unsent'[c].server = unsent[c].server
      /\ \A d \in Clients \ {c} : unsent'[d] = unsent[d]
  BY <1>1, <1>2, <1>3, <1>5 DEF Ends
<1>8. TypeOK'
  <2>1. ASSUME NEW d \in Clients
        PROVE  Len(send_buf'[d]) < BUFFER_SIZE /\ \A e \in Ends : Len(unsent'[d][e]) < BUFFER_SIZE
    BY <1>2, <1>4, <1>5, <1>7 DEF Ends
  <2> QED
    BY <1>1, <1>6, <2>1 DEF Inductive, TypeOK
<1>9. Texting'
  <2>1. send_buf' \in [Clients -> Seq(Chars)] /\ text' \in [Clients -> Seq(Chars)]
    BY <1>1, <1>2, <1>3
  <2> QED
    BY <1>1, <1>7, <2>1 DEF Inductive, Texting
<1>10. Queued'
  BY <1>1, <1>5, <1>6, QueueKept
<1>11. Sound(c)'
  <2>1. Cut(send_buf[c]) /\ Connected(c) /\ Stopped(c)
    BY DEF Inductive, Sound
  <2>2. Cut(send_buf[c])'
    BY <1>3, <1>5 DEF Cut
  <2>3. Connected(c)'
    <3> SUFFICES ASSUME up PROVE Connected(c)'
      BY <1>1 DEF Connected
    <3>1. Current(c) = <<>> /\ Current(c)' = l
      BY <1>1, <1>5, <1>6 DEF Current
    <3>2. /\ taken[c].client = <<>> /\ stream[c].client = <<>> /\ unsent[c].server = <<>>
          /\ taken[c].server = <<>> /\ stream[c].server = <<>>
      BY <1>1, <2>1, <3>1, OneConnection, ThreeTexts DEF Inductive, Connected, Asked, Answered
    <3>3. Asked(c)'
      <4>1. <<>> \o <<>> \o l = l
        BY <1>3, EmptySeq, ThreeTexts
      <4> QED
        BY <1>1, <1>7, <3>1, <3>2, <4>1 DEF Asked
    <3> QED
      BY <1>1, <1>5, <1>6, <1>7, <2>1, <3>2, <3>3 DEF Connected
  <2>4. Stopped(c)' /\ Replied(c)'
    BY <1>1, <1>6, <2>1 DEF Stopped, Replied
  <2> QED
    BY <2>2, <2>3, <2>4 DEF Sound
<1> QED
  BY <1>1, <1>5, <1>6, <1>7, <1>8, <1>9, <1>10, <1>11, OthersKeep

(* The bytes that the client writes are the child's next ones, or go nowhere. *)
LEMMA SendLineSound ==
  ASSUME Inductive, NEW c \in Clients, SendLine(c)
  PROVE  Inductive'
<1>1. /\ client[c] = "send" /\ Write(c, "client")
      /\ client' = [client EXCEPT ![c] = IF unsent'[c].client = <<>> THEN "reply" ELSE @]
      /\ UNCHANGED <<text, send_buf, recv_buf, child, taken, backlog, up>>
  BY DEF SendLine
<1>2. "client" \in Ends /\ Other("client") = "server" /\ Ends = {"client", "server"}
  BY DEF Ends, Other
<1>3. /\ unsent' \in [Clients -> [Ends -> Seq(Chars)]]
      /\ stream' \in [Clients -> [Ends -> Seq(Chars)]]
      /\ far' \in [Clients -> [Ends -> FarStates]]
      /\ \A d \in Clients \ {c} :
           unsent'[d] = unsent[d] /\ stream'[d] = stream[d] /\ far'[d] = far[d]
      /\ unsent'[c].server = unsent[c].server
      /\ stream'[c].client = stream[c].client /\ far'[c].server = far[c].server
      /\ Len(unsent'[c].client) < BUFFER_SIZE
      /\ far[c].client = "closed" => far'[c].client \in {"closed", "broken"}
      /\ far[c].client # "closed" =>
           /\ far' = far
           /\ \E k \in 1 .. Len(unsent[c].client) :
                /\ unsent'[c].client = Behind(unsent[c].client, k)
                /\ stream'[c].server = stream[c].server \o First(unsent[c].client, k)
  <2>1. /\ unsent' \in [Clients -> [Ends -> Seq(Chars)]]
        /\ stream' \in [Clients -> [Ends -> Seq(Chars)]]
        /\ far' \in [Clients -> [Ends -> FarStates]]
        /\ \A d \in Clients \ {c} :
             unsent'[d] = unsent[d] /\ stream'[d] = stream[d] /\ far'[d] = far[d]
        /\ Len(unsent'[c].client) < BUFFER_SIZE
    BY <1>1, <1>2, WriteEffect
  <2>2. /\ unsent'[c].server = unsent[c].server
        /\ stream'[c].client = stream[c].client /\ far'[c].server = far[c].server
    BY <1>1, <1>2, WriteEffect
  <2>3. CASE far[c].client = "closed"
    <3>1. far'[c].client \in {"closed", "broken"}
      BY <1>1, <1>2, <2>3, WriteEffect
    <3> QED
      BY <2>1, <2>2, <2>3, <3>1
  <2>4. CASE far[c].client # "closed"
    <3>1. /\ far' = far
          /\ \E k \in 1 .. Len(unsent[c].client) :
               /\ unsent'[c].client = Behind(unsent[c].client, k)
               /\ stream'[c].server = stream[c].server \o First(unsent[c].client, k)
      <4> DEFINE e == "client"
      <4>1. Write(c, e) /\ e \in Ends /\ Other(e) = "server" /\ far[c][e] # "closed"
        BY <1>1, <1>2, <2>4
      <4> HIDE DEF e
      <4>2. /\ far' = far
            /\ \E k \in 1 .. Len(unsent[c][e]) :
                 /\ unsent'[c][e] = Behind(unsent[c][e], k)
                 /\ stream'[c][Other(e)] = stream[c][Other(e)] \o First(unsent[c][e], k)
        BY <4>1, WriteEffect
      <4> QED
        BY <4>1, <4>2 DEF e
    <3> QED
      BY <2>1, <2>2, <2>4, <3>1
  <2> QED
    BY <2>3, <2>4
<1>4. client \in [Clients -> {"new", "input", "send", "reply", "exit"}]
  BY DEF Inductive, TypeOK
<1>5. /\ client'[c] = IF unsent'[c].client = <<>> THEN "reply" ELSE "send"
      /\ \A d \in Clients \ {c} : client'[d] = client[d]
      /\ client' \in [Clients -> {"new", "input", "send", "reply", "exit"}]
  BY <1>1, <1>4
<1>6. TypeOK'
  <2>1. ASSUME NEW d \in Clients, NEW e \in Ends PROVE Len(unsent'[d][e]) < BUFFER_SIZE
    BY <1>2, <1>3 DEF Inductive, TypeOK
  <2> QED
    BY <1>1, <1>3, <1>5, <2>1 DEF Inductive, TypeOK
<1>7. Texting'
  BY <1>1, <1>3 DEF Inductive, Texting
<1>8. Queued'
  BY <1>1, <1>5, QueueKept
<1>9. Sound(c)'
  <2>1. Cut(send_buf[c]) /\ Connected(c) /\ Stopped(c)
    BY DEF Inductive, Sound
  <2>2. Cut(send_buf[c])'
    BY <1>1, <2>1 DEF Cut
  <2>3. Connected(c)'
    <3> SUFFICES ASSUME up PROVE Connected(c)'
      BY <1>1 DEF Connected
    <3>1. far[c].client = "open" /\ far[c].server = "open" /\ far' = far /\ Asked(c)
      BY <1>1, <1>3, <2>1 DEF Connected
    <3>2. PICK k \in 1 .. Len(unsent[c].client) :
            /\ unsent'[c].client = Behind(unsent[c].client, k)
            /\ stream'[c].server = stream[c].server \o First(unsent[c].client, k)
      BY <1>3, <3>1
    <3>3. taken[c].server \o stream'[c].server \o unsent'[c].client
            = taken[c].server \o stream[c].server \o unsent[c].client
      <4>1. /\ taken[c].server \in Seq(Chars) /\ stream[c].server \in Seq(Chars)
            /\ unsent[c].client \in Seq(Chars)
        BY OneConnection DEF Inductive
      <4>2. k \in 0 .. Len(unsent[c].client)
        BY <4>1, LenProperties
      <4> DEFINE x == taken[c].server
                 y == stream[c].server
                 z == unsent[c].client
      <4>3. x \in Seq(Chars) /\ y \in Seq(Chars) /\ z \in Seq(Chars) /\ k \in 0 .. Len(z)
        BY <4>1, <4>2
      <4> HIDE DEF x, y, z
      <4>4. x \o (y \o First(z, k)) \o Behind(z, k) = x \o y \o z
        BY <4>3, MovesOn
      <4> QED
        BY <3>2, <4>4 DEF x, y, z
    <3>4. Current(c)' = Current(c)
      BY <1>1, <1>5 DEF Current
    <3>5. Asked(c)'
      BY <1>1, <1>3, <3>1, <3>3, <3>4 DEF Asked
    <3> QED
      BY <1>1, <1>3, <1>5, <2>1, <3>1, <3>5 DEF Connected
  <2>4. Stopped(c)'
    <3> SUFFICES ASSUME ~up PROVE Stopped(c)'
      BY <1>1 DEF Stopped
    <3>1. /\ child[c] \notin {"read", "write"} /\ far[c].client # "open"
          /\ taken[c].client = <<>> /\ stream[c].client = <<>>
      BY <1>1, <2>1 DEF Stopped
    <3>2. far'[c].client # "open"
      BY <1>3, <3>1
    <3>3. taken'[c].client = <<>> /\ stream'[c].client = <<>>
      BY <1>1, <1>3, <3>1
    <3>4. \E gone \in Seq(Chars) : taken'[c].client \o stream'[c].client \o gone = send_buf'[c]
      <4>1. send_buf[c] \in Seq(Chars) /\ <<>> \in Seq(Chars)
        BY OneConnection, EmptySeq DEF Inductive
      <4>2. <<>> \o <<>> \o send_buf[c] = send_buf[c]
        BY <4>1, ThreeTexts
      <4> QED
        BY <1>1, <3>3, <4>1, <4>2
    <3> QED
      BY <1>1, <3>1, <3>2, <3>3, <3>4 DEF Stopped
  <2>5. Replied(c)'
    BY <1>5 DEF Replied
  <2> QED
    BY <2>2, <2>3, <2>4, <2>5 DEF Sound
<1> QED
  BY <1>1, <1>3, <1>5, <1>6, <1>7, <1>8, <1>9, OthersKeep

(* The client takes bytes of its reply from the stream. *)
LEMMA ReadReplySound ==
  ASSUME Inductive, NEW c \in Clients, ReadReply(c)
  PROVE  Inductive'
<1>1. /\ client[c] = "reply" /\ Read(c, "client")
      /\ UNCHANGED <<client, text, send_buf, recv_buf, child, unsent, far, backlog, up>>
  BY DEF ReadReply
<1>2. "client" \in Ends /\ Other("client") = "server"
  BY DEF Ends, Other
<1>3. /\ taken' \in [Clients -> [Ends -> Seq(Chars)]]
      /\ stream' \in [Clients -> [Ends -> Seq(Chars)]]
      /\ \A d \in Clients \ {c} : taken'[d] = taken[d] /\ stream'[d] = stream[d]
      /\ taken'[c].server = taken[c].server /\ stream'[c].server = stream[c].server
      /\ \E k \in 1 .. Len(stream[c].client) :
           /\ taken'[c].client = taken[c].client \o First(stream[c].client, k)
           /\ stream'[c].client = Behind(stream[c].client, k)
  BY <1>1, <1>2, ReadEffect
<1>4. PICK k \in 1 .. Len(stream[c].client) :
        /\ taken'[c].client = taken[c].client \o First(stream[c].client, k)
        /\ stream'[c].client = Behind(stream[c].client, k)
  BY <1>3
<1>5. /\ taken[c].client \in Seq(Chars) /\ stream[c].client \in Seq(Chars)
      /\ unsent[c].server \in Seq(Chars)
  BY OneConnection DEF Inductive
<1>6. stream[c].client # <<>> /\ k \in 0 .. Len(stream[c].client)
  <2>1. Len(stream[c].client) \in Nat /\ Len(<<>>) = 0
    BY <1>5, LenProperties
  <2> QED
    BY <2>1
<1>7. \A rest \in Seq(Chars) :
        taken'[c].client \o stream'[c].client \o rest = taken[c].client \o stream[c].client \o rest
  <2> DEFINE x == taken[c].client
             y == stream[c].client
  <2>1. x \in Seq(Chars) /\ y \in Seq(Chars) /\ k \in 0 .. Len(y)
    BY <1>5, <1>6
  <2> HIDE DEF x, y
  <2>2. ASSUME NEW rest \in Seq(Chars)
        PROVE  (x \o First(y, k)) \o Behind(y, k) \o rest = x \o y \o rest
    BY <2>1, MovesOn
  <2> QED
    BY <1>4, <2>2 DEF x, y
<1>8. TypeOK'
  BY <1>1 DEF Inductive, TypeOK
<1>9. Texting'
  BY <1>1, <1>3 DEF Inductive, Texting
<1>10. Queued'
  BY <1>1, QueueKept
<1>11. Sound(c)'
  <2>1. Cut(send_buf[c]) /\ Connected(c) /\ Stopped(c) /\ Replied(c)
    BY DEF Inductive, Sound
  <2>2. Cut(send_buf[c])' /\ Replied(c)'
    BY <1>1, <2>1 DEF Cut, Replied
  <2>3. Connected(c)'
    <3> SUFFICES ASSUME up PROVE Connected(c)'
      BY <1>1 DEF Connected
    <3>1. unsent[c].client = <<>> /\ Answered(c)
      BY <1>1, <1>6, <2>1 DEF Connected, Asked
    <3>2. Current(c)' = Current(c)
      BY <1>1 DEF Current
    <3>3. Answered(c)'
      BY <1>1, <1>3, <1>5, <1>7, <3>1, <3>2 DEF Answered
    <3> QED
      BY <1>1, <2>1, <3>1, <3>3 DEF Connected
  <2>4. Stopped(c)'
    <3> SUFFICES ASSUME ~up PROVE Stopped(c)'
      BY <1>1 DEF Stopped
    <3>1. PICK gone \in Seq(Chars) : taken[c].client \o stream[c].client \o gone = send_buf[c]
      BY <1>1, <2>1 DEF Stopped
    <3>2. taken'[c].client \o stream'[c].client \o gone = send_buf'[c]
      BY <1>1, <1>7, <3>1
    <3> QED
      BY <1>1, <2>1, <3>2 DEF Stopped
  <2> QED
    BY <2>2, <2>3, <2>4 DEF Sound
<1> QED
  BY <1>1, <1>3, <1>8, <1>9, <1>10, <1>11, OthersKeep

(* The client's line is the one it has sent; when the server was stopped, or  *)
(* rather its end of the connection closed, it may be the beginning.          *)
LEMMA GetReplySound ==
  ASSUME Inductive, NEW c \in Clients, GetReply(c)
  PROVE  Inductive'
<1> DEFINE t == taken[c].client
           m == stream[c].client
<1>1. /\ client[c] = "reply" /\ GetsLine(c, "client")
      /\ recv_buf' = [recv_buf EXCEPT ![c] = Line(t)]
      /\ client' = [client EXCEPT ![c] = "input"]
      /\ UNCHANGED <<text, send_buf, child, unsent, stream, far, backlog, up>>
  BY DEF GetReply
<1>2. "client" \in Ends /\ Other("client") = "server"
  BY DEF Ends, Other
<1>3. /\ taken' \in [Clients -> [Ends -> Seq(Chars)]]
      /\ \A d \in Clients \ {c} : taken'[d] = taken[d]
      /\ taken'[c].server = taken[c].server
      /\ taken'[c].client = Behind(t, Len(Line(t)))
      /\ HasLine(t) \/ LastLine(c, "client")
  BY <1>1, <1>2, GetsLineEffect
<1>4. /\ t \in Seq(Chars) /\ m \in Seq(Chars) /\ unsent[c].server \in Seq(Chars)
      /\ send_buf[c] \in Seq(Chars)
  BY OneConnection DEF Inductive
<1>5. /\ client \in [Clients -> {"new", "input", "send", "reply", "exit"}]
      /\ recv_buf \in [Clients -> Seq(Chars)]
  BY DEF Inductive, TypeOK, Texting
<1>6. Line(t) \in Seq(Chars) /\ Len(Line(t)) <= Limit /\ Len(Line(t)) \in Nat
  BY <1>4, LineFits, LenProperties
<1>7. /\ client'[c] = "input" /\ recv_buf'[c] = Line(t)
      /\ \A d \in Clients \ {c} : client'[d] = client[d] /\ recv_buf'[d] = recv_buf[d]
      /\ client' \in [Clients -> {"new", "input", "send", "reply", "exit"}]
      /\ recv_buf' \in [Clients -> Seq(Chars)]
  BY <1>1, <1>5, <1>6
<1>8. TypeOK'
  <2>1. ASSUME NEW d \in Clients PROVE Len(recv_buf'[d]) < BUFFER_SIZE
    <3>1. Len(recv_buf[d]) < BUFFER_SIZE
      BY DEF Inductive, TypeOK
    <3>2. Len(Line(t)) < BUFFER_SIZE
      BY <1>6, Room, EchoAssumption
    <3> QED
      BY <1>7, <3>1, <3>2
  <2> QED
    BY <1>1, <1>7, <2>1 DEF Inductive, TypeOK
<1>9. Texting'
  BY <1>1, <1>3, <1>7 DEF Inductive, Texting
<1>10. Queued'
  BY <1>1, <1>7, QueueKept
<1>11. Sound(c)'
  <2>1. Cut(send_buf[c]) /\ Connected(c) /\ Stopped(c)
    BY DEF Inductive, Sound
  <2>2. Cut(send_buf[c])'
    BY <1>1, <2>1 DEF Cut
  <2>3. \A rest \in Seq(Chars) : t \o m \o rest = send_buf[c] =>
          /\ Line(t) = t /\ Behind(t, Len(Line(t))) = <<>>
          /\ HasLine(t) => m = <<>> /\ rest = <<>>
    <3> SUFFICES ASSUME NEW rest \in Seq(Chars), t \o m \o rest = send_buf[c]
                 PROVE  /\ Line(t) = t /\ Behind(t, Len(Line(t))) = <<>>
                        /\ HasLine(t) => m = <<>> /\ rest = <<>>
      OBVIOUS
    <3> HIDE DEF t, m
    <3>1. t \o m \o rest = t \o (m \o rest) /\ m \o rest \in Seq(Chars)
      BY <1>4, Associative, ConcatProperties
    <3>2. Cut(t) /\ (HasLine(t) => m \o rest = <<>>)
      BY <1>4, <2>1, <3>1, CutBegins
    <3>3. Line(t) = t /\ Behind(t, Len(Line(t))) = <<>>
      BY <1>4, <3>2, CutIsOneLine
    <3>4. m \o rest = <<>> => m = <<>> /\ rest = <<>>
      BY <1>4, Associative, ConcatProperties
    <3> QED
      BY <3>2, <3>3, <3>4
  <2>4. CASE up
    <3>1. far[c].client = "open" /\ far[c].server = "open"
      BY <1>1, <2>1, <2>4 DEF Connected
    <3>2. HasLine(t)
      BY <1>3, <3>1 DEF LastLine
    <3>3. t # <<>>
      BY <3>2, NothingIsNoLine
    <3>4. Answered(c) /\ unsent[c].client = <<>>
      BY <1>1, <2>1, <2>4, <3>3 DEF Connected, Asked
    <3>5. t \o m \o unsent[c].server = send_buf[c]
      BY <1>1, <3>4 DEF Answered, Current
    <3>6. m = <<>> /\ unsent[c].server = <<>> /\ Line(t) = t /\ taken'[c].client = <<>>
      BY <1>3, <1>4, <2>3, <3>2, <3>5
    <3>7. recv_buf'[c] = send_buf'[c]
      <4>1. t \o <<>> \o <<>> = t
        BY <1>4, EmptySeq, ThreeTexts
      <4> QED
        BY <1>1, <1>7, <3>5, <3>6, <4>1
    <3>8. Connected(c)'
      <4>1. Current(c)' = <<>> /\ <<>> \o <<>> \o <<>> = <<>>
        BY <1>7, EmptySeq, ThreeTexts DEF Current
      <4>2. Asked(c)'
        BY <1>1, <1>3, <3>4, <3>6, <4>1 DEF Asked, Answered
      <4> QED
        BY <1>1, <1>7, <3>1, <3>4, <3>6, <4>2 DEF Connected
    <3>9. Stopped(c)' /\ Replied(c)'
      BY <1>1, <1>7, <2>4, <3>7 DEF Stopped, Replied
    <3> QED
      BY <2>2, <3>8, <3>9 DEF Sound
  <2>5. CASE ~up
    <3>1. PICK rest \in Seq(Chars) : t \o m \o rest = send_buf[c]
      BY <1>1, <2>1, <2>5 DEF Stopped
    <3>2. Line(t) = t /\ taken'[c].client = <<>> /\ m = <<>>
      <4>1. LastLine(c, "client") => m = <<>>
        BY DEF LastLine, NothingToRead
      <4> QED
        BY <1>3, <2>3, <3>1, <4>1
    <3>3. IsPrefix(recv_buf'[c], send_buf'[c])
      <4>1. send_buf[c] = t \o (m \o rest) /\ m \o rest \in Seq(Chars)
        <5> HIDE DEF t, m
        <5>1. t \o m \o rest = t \o (m \o rest) /\ m \o rest \in Seq(Chars)
          BY <1>4, Associative, ConcatProperties
        <5> QED
          BY <3>1, <5>1
      <4> HIDE DEF t, m
      <4>2. IsPrefix(t, t \o (m \o rest))
        <5> DEFINE r == m \o rest
        <5>1. r \in Seq(Chars)
          BY <4>1
        <5> HIDE DEF r
        <5>2. /\ Len(t \o r) = Len(t) + Len(r) /\ Len(t) \in Nat /\ Len(r) \in Nat
              /\ t \o r \in Seq(Chars)
          BY <1>4, <5>1, LenProperties, ConcatProperties
        <5>3. SubSeq(t, 1, Len(t)) = SubSeq(t \o r, 1, Len(t))
          <6>1. CASE Len(t) = 0
            BY <5>2, <6>1, SubSeqEmpty
          <6>2. CASE Len(t) # 0
            <7>1. 1 \in 1 .. Len(t) /\ Len(t) \in 1 .. Len(t)
              BY <5>2, <6>2
            <7> QED
              BY <1>4, <5>1, <7>1, SubSeqOfConcat1
          <6> QED
            BY <6>1, <6>2
        <5>4. IsPrefix(t, t \o r)
          BY <5>2, <5>3 DEF IsPrefix
        <5> QED
          BY <5>4 DEF r
      <4> QED
        BY <1>1, <1>7, <3>2, <4>1, <4>2 DEF t
    <3>4. Stopped(c)'
      BY <1>1, <1>7, <2>1, <2>5, <3>2 DEF Stopped
    <3>5. Connected(c)' /\ Replied(c)'
      BY <1>1, <2>5, <3>3 DEF Connected, Replied
    <3> QED
      BY <2>2, <3>4, <3>5 DEF Sound
  <2> QED
    BY <2>4, <2>5
<1> QED
  BY <1>1, <1>3, <1>7, <1>8, <1>9, <1>10, <1>11, OthersKeep

------------------------------------------------------------------------------
(* The server's steps. *)

(* A child that runs belongs to a server that is up. *)
LEMMA ChildrenRun ==
  ASSUME Inductive, NEW c \in Clients, child[c] \in {"read", "write"}
  PROVE  up
BY DEF Inductive, Sound, Stopped

(* The child of a connection begins with what has come there until now. *)
LEMMA AcceptSound ==
  ASSUME Inductive, Accept
  PROVE  Inductive'
<1>0. PICK h \in Clients : h = Head(backlog)
  <2>1. backlog \in Seq(Clients) /\ backlog # <<>>
    BY DEF Accept, Inductive, TypeOK
  <2> QED
    BY <2>1, HeadTailProperties
<1>1. /\ up /\ backlog # <<>> /\ backlog' = Tail(backlog)
      /\ child' = [child EXCEPT ![h] = IF CanFork THEN "read" ELSE "lost"]
      /\ UNCHANGED <<client, text, send_buf, recv_buf, unsent, taken, stream, far, up>>
  BY <1>0 DEF Accept
<1>2. /\ child \in [Clients -> {"none", "lost", "read", "write", "zombie"}]
      /\ backlog \in Seq(Clients) /\ Len(backlog) \in Nat
  BY LenProperties DEF Inductive, TypeOK
<1>3. /\ h = backlog[1] /\ 1 \in 1 .. Len(backlog)
      /\ backlog' \in Seq(Clients) /\ Len(backlog') = Len(backlog) - 1
      /\ \A i \in 1 .. Len(backlog') : backlog'[i] = backlog[i + 1] /\ i + 1 \in 1 .. Len(backlog)
  <2>1. Len(backlog) > 0
    BY <1>1, <1>2
  <2> QED
    BY <1>0, <1>1, <1>2, <2>1, ElementOfSeq
<1>4. Queued
  BY DEF Inductive
<1>5. child[h] = "none" /\ client[h] # "new"
  BY <1>3, <1>4 DEF Queued
<1>6. /\ child'[h] \in {"read", "lost"} /\ \A d \in Clients \ {h} : child'[d] = child[d]
      /\ child' \in [Clients -> {"none", "lost", "read", "write", "zombie"}]
  BY <1>1, <1>2, <1>3
<1>7. TypeOK' /\ Texting'
  BY <1>1, <1>3, <1>6 DEF Inductive, TypeOK, Texting
<1>8. Queued'
  <2>1. ASSUME NEW i \in 1 .. Len(backlog')
        PROVE  child'[backlog'[i]] = "none" /\ client'[backlog'[i]] # "new"
    <3>1. i + 1 \in 1 .. Len(backlog) /\ i + 1 # 1 /\ backlog'[i] = backlog[i + 1]
      BY <1>2, <1>3
    <3>2. backlog[i + 1] \in Clients /\ backlog[i + 1] # h
      BY <1>2, <1>3, <1>4, <3>1, ElementOfSeq DEF Queued
    <3> QED
      BY <1>1, <1>4, <1>6, <3>1, <3>2 DEF Queued
  <2>2. ASSUME NEW i \in 1 .. Len(backlog'), NEW j \in 1 .. Len(backlog'),
               backlog'[i] = backlog'[j]
        PROVE  i = j
    <3>1. i + 1 = j + 1
      BY <1>3, <1>4, <2>2 DEF Queued
    <3> QED
      BY <1>2, <1>3, <3>1
  <2>3. \A d \in Clients : client'[d] = "new" => child'[d] = "none" /\ recv_buf'[d] = send_buf'[d]
    BY <1>1, <1>4, <1>5, <1>6 DEF Queued
  <2> QED
    BY <2>1, <2>2, <2>3 DEF Queued
<1>9. Sound(h)'
  <2>1. Cut(send_buf[h]) /\ Connected(h) /\ Replied(h)
    BY DEF Inductive, Sound
  <2>2. Cut(send_buf[h])' /\ Replied(h)' /\ Stopped(h)'
    BY <1>1, <2>1 DEF Cut, Replied, Stopped
  <2>3. Connected(h)'
    BY <1>1, <1>5, <2>1 DEF Connected, Asked, Answered, Current
  <2> QED
    BY <2>2, <2>3 DEF Sound
<1> QED
  BY <1>1, <1>3, <1>6, <1>7, <1>8, <1>9, OthersKeep

(* The child takes bytes of a line from the stream. *)
LEMMA ReadLineSound ==
  ASSUME Inductive, NEW c \in Clients, ReadLine(c)
  PROVE  Inductive'
<1>1. /\ child[c] = "read" /\ Read(c, "server")
      /\ UNCHANGED <<client, text, send_buf, recv_buf, child, unsent, far, backlog, up>>
  BY DEF ReadLine
<1>2. "server" \in Ends /\ Other("server") = "client"
  BY DEF Ends, Other
<1>3. /\ taken' \in [Clients -> [Ends -> Seq(Chars)]]
      /\ stream' \in [Clients -> [Ends -> Seq(Chars)]]
      /\ \A d \in Clients \ {c} : taken'[d] = taken[d] /\ stream'[d] = stream[d]
      /\ taken'[c].client = taken[c].client /\ stream'[c].client = stream[c].client
      /\ \E k \in 1 .. Len(stream[c].server) :
           /\ taken'[c].server = taken[c].server \o First(stream[c].server, k)
           /\ stream'[c].server = Behind(stream[c].server, k)
  BY <1>1, <1>2, ReadEffect
<1>4. PICK k \in 1 .. Len(stream[c].server) :
        /\ taken'[c].server = taken[c].server \o First(stream[c].server, k)
        /\ stream'[c].server = Behind(stream[c].server, k)
  BY <1>3
<1>5. /\ taken[c].server \in Seq(Chars) /\ stream[c].server \in Seq(Chars)
      /\ unsent[c].client \in Seq(Chars)
  BY OneConnection DEF Inductive
<1>6. stream[c].server # <<>> /\ k \in 0 .. Len(stream[c].server)
  <2>1. Len(stream[c].server) \in Nat /\ Len(<<>>) = 0
    BY <1>5, LenProperties
  <2> QED
    BY <2>1
<1>7. taken'[c].server \o stream'[c].server \o unsent[c].client
        = taken[c].server \o stream[c].server \o unsent[c].client
  <2> DEFINE x == taken[c].server
             y == stream[c].server
             z == unsent[c].client
  <2>1. x \in Seq(Chars) /\ y \in Seq(Chars) /\ z \in Seq(Chars) /\ k \in 0 .. Len(y)
    BY <1>5, <1>6
  <2> HIDE DEF x, y, z
  <2>2. (x \o First(y, k)) \o Behind(y, k) \o z = x \o y \o z
    BY <2>1, MovesOn
  <2> QED
    BY <1>4, <2>2 DEF x, y, z
<1>8. TypeOK' /\ Texting'
  BY <1>1, <1>3 DEF Inductive, TypeOK, Texting
<1>9. Queued'
  BY <1>1, QueueKept
<1>10. Sound(c)'
  <2>1. Cut(send_buf[c]) /\ Connected(c) /\ Stopped(c) /\ Replied(c)
    BY DEF Inductive, Sound
  <2>2. Cut(send_buf[c])' /\ Replied(c)' /\ Stopped(c)'
    BY <1>1, <2>1, ChildrenRun DEF Cut, Replied, Stopped
  <2>3. Connected(c)'
    <3> SUFFICES ASSUME up, client[c] # "exit" PROVE Connected(c)'
      BY <1>1 DEF Connected
    <3>1. Asked(c)
      BY <1>6, <2>1 DEF Connected, Answered
    <3>2. Current(c)' = Current(c)
      BY <1>1 DEF Current
    <3>3. Asked(c)'
      BY <1>1, <1>3, <1>7, <3>1, <3>2 DEF Asked
    <3> QED
      BY <1>1, <2>1, <3>3 DEF Connected
  <2> QED
    BY <2>2, <2>3 DEF Sound
<1> QED
  BY <1>1, <1>3, <1>8, <1>9, <1>10, OthersKeep

(* The child has the whole line when it begins to send it back. *)
LEMMA StartEchoSound ==
  ASSUME Inductive, NEW c \in Clients, StartEcho(c)
  PROVE  Inductive'
<1> DEFINE t == taken[c].server
           b == CString(Line(t))
<1>1. /\ child[c] = "read" /\ GetsLine(c, "server")
      /\ unsent' = [unsent EXCEPT ![c].server = b]
      /\ child' = [child EXCEPT ![c] = IF unsent'[c].server = <<>> THEN "read" ELSE "write"]
      /\ UNCHANGED <<client, text, send_buf, recv_buf, stream, far, backlog, up>>
  BY DEF StartEcho
<1>2. "server" \in Ends /\ Other("server") = "client"
  BY DEF Ends, Other
<1>3. /\ taken' \in [Clients -> [Ends -> Seq(Chars)]]
      /\ \A d \in Clients \ {c} : taken'[d] = taken[d]
      /\ taken'[c].client = taken[c].client
      /\ taken'[c].server = Behind(t, Len(Line(t)))
      /\ HasLine(t) \/ LastLine(c, "server")
  BY <1>1, <1>2, GetsLineEffect
<1>4. /\ t \in Seq(Chars) /\ stream[c].server \in Seq(Chars) /\ unsent[c].client \in Seq(Chars)
      /\ send_buf[c] \in Seq(Chars)
  BY OneConnection DEF Inductive
<1>5. /\ child \in [Clients -> {"none", "lost", "read", "write", "zombie"}]
      /\ unsent \in [Clients -> [Ends -> Seq(Chars)]]
      /\ \A d \in Clients, e \in Ends : Len(unsent[d][e]) < BUFFER_SIZE
  BY DEF Inductive, TypeOK, Texting
<1>6. b \in Seq(Chars) /\ Len(b) < BUFFER_SIZE
  <2>1. b \in Seq(Chars) /\ Len(b) <= Limit /\ Len(b) \in Nat
    BY <1>4, LineFits, LenProperties
  <2> QED
    BY <2>1, Room, EchoAssumption
<1> HIDE DEF b
<1>7. /\ unsent' = [unsent EXCEPT ![c] = [unsent[c] EXCEPT !.server = b]]
      /\ unsent' \in [Clients -> [Ends -> Seq(Chars)]]
      /\ unsent'[c].server = b /\ unsent'[c].client = unsent[c].client
      /\ \A d \in Clients \ {c} : unsent'[d] = unsent[d]
  BY <1>1, <1>5, <1>6 DEF Ends
<1>8. /\ child'[c] = IF b = <<>> THEN "read" ELSE "write"
      /\ \A d \in Clients \ {c} : child'[d] = child[d]
      /\ child' \in [Clients -> {"none", "lost", "read", "write", "zombie"}]
  BY <1>1, <1>5, <1>7
<1>9. TypeOK'
  <2>1. ASSUME NEW d \in Clients, NEW e \in Ends PROVE Len(unsent'[d][e]) < BUFFER_SIZE
    BY <1>5, <1>6, <1>7 DEF Ends
  <2> QED
    BY <1>1, <1>8, <2>1 DEF Inductive, TypeOK
<1>10. Texting'
  BY <1>1, <1>3, <1>7 DEF Inductive, Texting
<1>11. Queued'
  BY <1>1, <1>8, QueueKept
<1>12. Sound(c)'
  <2>1. Cut(send_buf[c]) /\ Connected(c) /\ Replied(c) /\ up
    BY <1>1, ChildrenRun DEF Inductive, Sound
  <2>2. Cut(send_buf[c])' /\ Replied(c)' /\ Stopped(c)'
    BY <1>1, <2>1 DEF Cut, Replied, Stopped
  <2>3. Connected(c)'
    <3> SUFFICES ASSUME client[c] # "exit" PROVE Connected(c)'
      BY <1>1 DEF Connected
    <3>1. far[c].client = "open" /\ far[c].server = "open"
      BY <2>1 DEF Connected
    <3>2. HasLine(t)
      BY <1>3, <3>1 DEF LastLine
    <3>3. Asked(c)
      <4>1. t # <<>>
        BY <3>2, NothingIsNoLine
      <4> QED
        BY <2>1, <4>1 DEF Connected, Answered
    <3> DEFINE m == stream[c].server
               u == unsent[c].client
               l == Current(c)
    <3>4. /\ m \in Seq(Chars) /\ u \in Seq(Chars) /\ t \o m \o u = l /\ Cut(l)
      <4>1. Cut(<<>>)
        BY Room DEF Cut
      <4> QED
        BY <1>4, <2>1, <3>3, <4>1 DEF Asked, Current
    <3>5. m = <<>> /\ u = <<>> /\ b = l /\ Behind(t, Len(Line(t))) = <<>>
      <4> HIDE DEF t, m, u, l
      <4>1. t \o m \o u = t \o (m \o u) /\ m \o u \in Seq(Chars)
        BY <1>4, <3>4, Associative, ConcatProperties
      <4>2. Cut(t) /\ m \o u = <<>>
        BY <1>4, <3>2, <3>4, <4>1, CutBegins
      <4>3. m = <<>> /\ u = <<>>
        BY <3>4, <4>2, ConcatEqualIffEmpty
      <4>4. Line(t) = t /\ CString(t) = t /\ Behind(t, Len(Line(t))) = <<>>
        BY <1>4, <4>2, CutIsOneLine
      <4>5. l = t
        BY <1>4, <3>4, <4>1, <4>2, ConcatEmptySeq
      <4> QED
        BY <4>3, <4>4, <4>5 DEF b
    <3>6. Answered(c)'
      <4>1. Current(c)' = l
        BY <1>1 DEF Current
      <4>2. <<>> \o <<>> \o b = b
        BY <1>6, EmptySeq, ThreeTexts
      <4> QED
        BY <1>1, <1>3, <1>7, <3>3, <3>5, <4>1, <4>2 DEF Answered, Asked
    <3>7. client[c] # "send"
      BY <2>1, <3>5 DEF Connected
    <3> QED
      BY <1>1, <1>7, <1>8, <3>1, <3>5, <3>6, <3>7 DEF Connected
  <2> QED
    BY <2>2, <2>3 DEF Sound
<1> QED
  BY <1>1, <1>3, <1>7, <1>8, <1>9, <1>10, <1>11, <1>12, OthersKeep

(* The child's bytes are the next of the client's reply, or go nowhere. *)
LEMMA WriteLineSound ==
  ASSUME Inductive, NEW c \in Clients, WriteLine(c)
  PROVE  Inductive'
<1>1. /\ child[c] = "write" /\ Write(c, "server")
      /\ child' = [child EXCEPT ![c] = IF unsent'[c].server = <<>> THEN "read" ELSE @]
      /\ UNCHANGED <<client, text, send_buf, recv_buf, taken, backlog, up>>
  BY DEF WriteLine
<1>2. "server" \in Ends /\ Other("server") = "client" /\ Ends = {"client", "server"}
  BY DEF Ends, Other
<1>3. /\ unsent' \in [Clients -> [Ends -> Seq(Chars)]]
      /\ stream' \in [Clients -> [Ends -> Seq(Chars)]]
      /\ far' \in [Clients -> [Ends -> FarStates]]
      /\ \A d \in Clients \ {c} :
           unsent'[d] = unsent[d] /\ stream'[d] = stream[d] /\ far'[d] = far[d]
      /\ Len(unsent'[c].server) < BUFFER_SIZE
  BY <1>1, <1>2, WriteEffect
<1>4. /\ unsent'[c].client = unsent[c].client /\ stream'[c].server = stream[c].server
  BY <1>1, <1>2, WriteEffect
<1>5. child \in [Clients -> {"none", "lost", "read", "write", "zombie"}]
  BY DEF Inductive, TypeOK
<1>6. /\ child'[c] = IF unsent'[c].server = <<>> THEN "read" ELSE "write"
      /\ \A d \in Clients \ {c} : child'[d] = child[d]
      /\ child' \in [Clients -> {"none", "lost", "read", "write", "zombie"}]
  BY <1>1, <1>5
<1>7. TypeOK'
  <2>1. ASSUME NEW d \in Clients, NEW e \in Ends PROVE Len(unsent'[d][e]) < BUFFER_SIZE
    BY <1>2, <1>3, <1>4 DEF Inductive, TypeOK
  <2> QED
    BY <1>1, <1>3, <1>6, <2>1 DEF Inductive, TypeOK
<1>8. Texting'
  BY <1>1, <1>3 DEF Inductive, Texting
<1>9. Queued'
  BY <1>1, <1>6, QueueKept
<1>10. Sound(c)'
  <2>1. Cut(send_buf[c]) /\ Connected(c) /\ Replied(c) /\ up
    BY <1>1, ChildrenRun DEF Inductive, Sound
  <2>2. Cut(send_buf[c])' /\ Replied(c)' /\ Stopped(c)'
    BY <1>1, <2>1 DEF Cut, Replied, Stopped
  <2>3. Connected(c)'
    <3> SUFFICES ASSUME client[c] # "exit" PROVE Connected(c)'
      BY <1>1 DEF Connected
    <3> DEFINE e == "server"
               x == taken[c].client
               y == stream[c].client
               z == unsent[c].server
    <3>1. far[c].client = "open" /\ far[c].server = "open"
      BY <2>1 DEF Connected
    <3>2. Write(c, e) /\ e \in Ends /\ Other(e) = "client" /\ far[c][e] # "closed"
      BY <1>1, <1>2, <3>1
    <3> HIDE DEF e
    <3>3. /\ far' = far
          /\ \E k \in 1 .. Len(unsent[c][e]) :
               /\ unsent'[c][e] = Behind(unsent[c][e], k)
               /\ stream'[c][Other(e)] = stream[c][Other(e)] \o First(unsent[c][e], k)
      BY <3>2, WriteEffect
    <3>4. PICK k \in 1 .. Len(z) :
            /\ unsent'[c].server = Behind(z, k)
            /\ stream'[c].client = y \o First(z, k)
      BY <3>2, <3>3 DEF e
    <3>5. /\ x \in Seq(Chars) /\ y \in Seq(Chars) /\ z \in Seq(Chars)
          /\ Len(z) \in Nat
      BY OneConnection, LenProperties DEF Inductive
    <3>6. z # <<>> /\ k \in 0 .. Len(z)
      <4>1. Len(<<>>) = 0
        OBVIOUS
      <4> HIDE DEF z
      <4> QED
        BY <3>5, <4>1
    <3>7. Answered(c) /\ client[c] # "send" /\ unsent[c].client = <<>>
      BY <2>1, <3>6 DEF Connected, Asked
    <3>8. x \o (y \o First(z, k)) \o Behind(z, k) = x \o y \o z
      <4> HIDE DEF x, y, z
      <4> QED
        BY <3>5, <3>6, MovesOn
    <3>9. Answered(c)'
      <4>1. Current(c)' = Current(c)
        BY <1>1 DEF Current
      <4> QED
        BY <1>1, <1>4, <3>4, <3>7, <3>8, <4>1 DEF Answered
    <3> QED
      BY <1>1, <1>4, <1>6, <3>1, <3>3, <3>7, <3>9 DEF Connected
  <2> QED
    BY <2>2, <2>3 DEF Sound
<1> QED
  BY <1>1, <1>3, <1>6, <1>7, <1>8, <1>9, <1>10, OthersKeep

(* Where the child finds the client gone, nothing is promised to it. *)
LEMMA ClientGone ==
  ASSUME Inductive, NEW c \in Clients, child[c] \in {"read", "write"}, far[c].server # "open"
  PROVE  client[c] = "exit"
BY ChildrenRun DEF Inductive, Sound, Connected

(* A write that fails drops the line, or the child. *)
LEMMA WriteLineFailsSound ==
  ASSUME Inductive, NEW c \in Clients, WriteLineFails(c)
  PROVE  Inductive'
<1>1. /\ child[c] = "write" /\ far[c].server # "open"
      /\ child' = [child EXCEPT ![c] = IF far[c].server = "reset" THEN "read" ELSE "zombie"]
      /\ far' = [far EXCEPT ![c].server = "broken"]
      /\ unsent' = [unsent EXCEPT ![c].server = <<>>]
      /\ UNCHANGED <<client, text, send_buf, recv_buf, taken, stream, backlog, up>>
  BY DEF WriteLineFails, WriteFails
<1>2. /\ child \in [Clients -> {"none", "lost", "read", "write", "zombie"}]
      /\ far \in [Clients -> [Ends -> FarStates]]
      /\ unsent \in [Clients -> [Ends -> Seq(Chars)]]
      /\ \A d \in Clients, e \in Ends : Len(unsent[d][e]) < BUFFER_SIZE
  BY DEF Inductive, TypeOK, Texting
<1>3. /\ child'[c] \in {"read", "zombie"} /\ \A d \in Clients \ {c} : child'[d] = child[d]
      /\ child' \in [Clients -> {"none", "lost", "read", "write", "zombie"}]
  BY <1>1, <1>2
<1>4. /\ far' \in [Clients -> [Ends -> FarStates]]
      /\ \A d \in Clients \ {c} : far'[d] = far[d]
  BY <1>1, <1>2 DEF Ends, FarStates
<1>5. /\ unsent' \in [Clients -> [Ends -> Seq(Chars)]]
      /\ unsent'[c].server = <<>> /\ unsent'[c].client = unsent[c].client
      /\ \A d \in Clients \ {c} : unsent'[d] = unsent[d]
  <2>1. <<>> \in Seq(Chars)
    BY EmptySeq
  <2> QED
    BY <1>1, <1>2, <2>1 DEF Ends
<1>6. TypeOK'
  <2>1. Len(<<>>) = 0 /\ 0 < BUFFER_SIZE
    BY EchoAssumption
  <2>2. ASSUME NEW d \in Clients, NEW e \in Ends PROVE Len(unsent'[d][e]) < BUFFER_SIZE
    BY <1>2, <1>5, <2>1 DEF Ends
  <2> QED
    BY <1>1, <1>3, <1>4, <2>2 DEF Inductive, TypeOK
<1>7. Texting'
  BY <1>1, <1>5 DEF Inductive, Texting
<1>8. Queued'
  BY <1>1, <1>3, QueueKept
<1>9. Sound(c)'
  <2>1. Cut(send_buf[c]) /\ Stopped(c) /\ client[c] = "exit" /\ up
    BY <1>1, ChildrenRun, ClientGone DEF Inductive, Sound
  <2>2. Cut(send_buf[c])'
    BY <1>1, <2>1 DEF Cut
  <2> QED
    BY <1>1, <2>1, <2>2 DEF Sound, Connected, Stopped, Replied
<1> QED
  BY <1>1, <1>3, <1>4, <1>5, <1>6, <1>7, <1>8, <1>9, OthersKeep

(* A child that has nothing more to read ends. *)
LEMMA LeaveSound ==
  ASSUME Inductive, NEW c \in Clients, Leave(c)
  PROVE  Inductive'
<1>1. /\ child[c] = "read" /\ far[c].server # "open"
      /\ child' = [child EXCEPT ![c] = "zombie"]
      /\ UNCHANGED <<client, text, send_buf, recv_buf, unsent, taken, stream, far, backlog, up>>
  BY DEF Leave, NoLine
<1>2. child \in [Clients -> {"none", "lost", "read", "write", "zombie"}]
  BY DEF Inductive, TypeOK
<1>3. /\ child'[c] = "zombie" /\ \A d \in Clients \ {c} : child'[d] = child[d]
      /\ child' \in [Clients -> {"none", "lost", "read", "write", "zombie"}]
  BY <1>1, <1>2
<1>4. TypeOK' /\ Texting'
  BY <1>1, <1>3 DEF Inductive, TypeOK, Texting
<1>5. Queued'
  BY <1>1, <1>3, QueueKept
<1>6. Sound(c)'
  <2>1. Cut(send_buf[c]) /\ client[c] = "exit" /\ up
    BY <1>1, ChildrenRun, ClientGone DEF Inductive, Sound
  <2>2. Cut(send_buf[c])'
    BY <1>1, <2>1 DEF Cut
  <2> QED
    BY <1>1, <2>1, <2>2 DEF Sound, Connected, Stopped, Replied
<1> QED
  BY <1>1, <1>3, <1>4, <1>5, <1>6, OthersKeep

(* When the server is stopped, a client keeps what is on its way to it, which *)
(* is the beginning of its line.                                              *)
LEMMA StopSound ==
  ASSUME Inductive, Stop
  PROVE  Inductive'
<1>1. /\ up /\ up' = FALSE /\ backlog' = <<>>
      /\ child' = [c \in Clients |-> IF c \in Children THEN "zombie" ELSE child[c]]
      /\ far' = [c \in Clients |->
           IF client[c] = "new" THEN far[c]
           ELSE [far[c] EXCEPT !.client =
                  IF child[c] = "none" THEN "reset" ELSE FarAfterEnd(c, "client")]]
      /\ stream' = [c \in Clients |-> [stream[c] EXCEPT !.server = <<>>]]
      /\ UNCHANGED <<client, text, send_buf, recv_buf, unsent, taken>>
  BY DEF Stop
<1>2. /\ child \in [Clients -> {"none", "lost", "read", "write", "zombie"}]
      /\ far \in [Clients -> [Ends -> FarStates]]
      /\ stream \in [Clients -> [Ends -> Seq(Chars)]]
  BY DEF Inductive, TypeOK, Texting
<1>3. ASSUME NEW c \in Clients
      PROVE  /\ child'[c] \in {"none", "lost", "zombie"}
             /\ child'[c] = "none" <=> child[c] = "none"
  BY <1>1, <1>2 DEF Children
<1>4. ASSUME NEW c \in Clients
      PROVE  /\ far'[c] \in [Ends -> FarStates]
             /\ client[c] # "new" => far'[c].client # "open"
  <2>1. /\ FarAfterEnd(c, "client") \in FarStates
        /\ FarAfterEnd(c, "client") # "open"
    BY <1>2 DEF FarAfterEnd, FarStates, Ends
  <2>2. CASE client[c] = "new"
    BY <1>1, <1>2, <2>2
  <2>3. CASE client[c] # "new"
    <3>1. PICK f \in FarStates : f # "open" /\ far'[c] = [far[c] EXCEPT !.client = f]
      BY <1>1, <2>1, <2>3 DEF FarStates
    <3> QED
      BY <1>2, <2>3, <3>1 DEF Ends
  <2> QED
    BY <2>2, <2>3
<1>5. ASSUME NEW c \in Clients
      PROVE  stream'[c] \in [Ends -> Seq(Chars)] /\ stream'[c].client = stream[c].client
  <2>1. <<>> \in Seq(Chars)
    BY EmptySeq
  <2> QED
    BY <1>1, <1>2, <2>1 DEF Ends
<1>6. TypeOK'
  <2>1. child' \in [Clients -> {"none", "lost", "read", "write", "zombie"}]
    <3>1. child' = [c \in Clients |-> child'[c]]
      BY <1>1
    <3> QED
      BY <1>3, <3>1
  <2>2. far' \in [Clients -> [Ends -> FarStates]]
    <3>1. far' = [c \in Clients |-> far'[c]]
      BY <1>1
    <3> QED
      BY <1>4, <3>1
  <2>3. backlog' \in Seq(Clients) /\ up' \in BOOLEAN
    BY <1>1, EmptySeq
  <2> QED
    BY <1>1, <2>1, <2>2, <2>3 DEF Inductive, TypeOK
<1>7. Texting'
  <2>1. stream' = [c \in Clients |-> stream'[c]]
    BY <1>1
  <2>2. stream' \in [Clients -> [Ends -> Seq(Chars)]]
    BY <1>5, <2>1
  <2> QED
    BY <1>1, <2>2 DEF Inductive, Texting
<1>8. Queued'
  <2>1. Len(backlog') = 0
    BY <1>1
  <2>2. \A i \in 1 .. Len(backlog') : FALSE
    BY <2>1
  <2>3. \A c \in Clients : client'[c] = "new" => child'[c] = "none" /\ recv_buf'[c] = send_buf'[c]
    BY <1>1, <1>3 DEF Inductive, Queued
  <2> QED
    BY <2>2, <2>3 DEF Queued
<1>9. ASSUME NEW c \in Clients PROVE Sound(c)'
  <2>1. Cut(send_buf[c]) /\ Connected(c) /\ Replied(c)
    BY DEF Inductive, Sound
  <2>2. Cut(send_buf[c])' /\ Replied(c)'
    BY <1>1, <2>1 DEF Cut, Replied
  <2>3. Connected(c)'
    BY <1>1 DEF Connected
  <2>4. ASSUME client[c] \in {"input", "send"}
        PROVE  taken[c].client = <<>> /\ stream[c].client = <<>>
    <3>1. CASE Asked(c)
      BY <3>1 DEF Asked
    <3>2. CASE ~Asked(c)
      <4>1. Answered(c) /\ client[c] = "input"
        BY <1>1, <2>1, <2>4, <3>2 DEF Connected
      <4>2. taken[c].client \o stream[c].client \o unsent[c].server = <<>>
        BY <4>1 DEF Answered, Current
      <4> QED
        BY <4>2, OneConnection, ThreeTexts DEF Inductive
    <3> QED
      BY <3>1, <3>2
  <2>5. ASSUME client[c] = "reply"
        PROVE  \E lost \in Seq(Chars) :
                 taken[c].client \o stream[c].client \o lost = send_buf[c]
    <3>1. unsent[c].server \in Seq(Chars) /\ send_buf[c] \in Seq(Chars) /\ <<>> \in Seq(Chars)
      BY OneConnection, EmptySeq DEF Inductive
    <3>2. Current(c) = send_buf[c]
      BY <2>5 DEF Current
    <3>3. CASE Asked(c)
      <4>1. <<>> \o <<>> \o send_buf[c] = send_buf[c]
        BY <3>1, ThreeTexts
      <4>2. taken[c].client = <<>> /\ stream[c].client = <<>>
        BY <3>3 DEF Asked
      <4> QED
        BY <3>1, <4>1, <4>2
    <3>4. CASE Answered(c)
      BY <3>1, <3>2, <3>4 DEF Answered
    <3> QED
      BY <1>1, <2>1, <2>5, <3>3, <3>4 DEF Connected
  <2>6. Stopped(c)'
    BY <1>1, <1>3, <1>4, <1>5, <2>4, <2>5 DEF Stopped
  <2> QED
    BY <2>2, <2>3, <2>6 DEF Sound
<1> QED
  BY <1>6, <1>7, <1>8, <1>9 DEF Inductive

------------------------------------------------------------------------------
(* The invariant, and what it gives. *)

(* At first nothing is connected, and nothing sent. *)
LEMMA InductiveInit == Init => Inductive
<1> SUFFICES ASSUME Init PROVE Inductive
  OBVIOUS
<1>1. <<>> \in Seq(Chars) /\ Len(<<>>) = 0 /\ 0 < BUFFER_SIZE /\ <<>> \in Seq(Clients)
  BY EmptySeq, EchoAssumption
<1>2. TypeOK
  BY <1>1 DEF Init, TypeOK, FarStates, Ends
<1>3. Texting
  <2>1. text \in [Clients -> UNION Range(Texts)] /\ \A c \in Clients : text[c] \in Texts[c]
    BY DEF Init
  <2>2. \A c \in Clients : text[c] \in Seq(Chars)
    BY <2>1, EchoAssumption
  <2>3. text \in [Clients -> Seq(Chars)]
    BY <2>1, <2>2
  <2> QED
    BY <1>1, <2>3 DEF Init, Texting, Ends
<1>4. Queued
  <2>1. Len(backlog) = 0
    BY DEF Init
  <2>2. \A i \in 1 .. Len(backlog) : FALSE
    BY <2>1
  <2>3. \A c \in Clients : child[c] = "none" /\ recv_buf[c] = send_buf[c]
    BY DEF Init
  <2> QED
    BY <2>2, <2>3 DEF Queued
<1>5. ASSUME NEW c \in Clients PROVE Sound(c)
  <2>1. /\ client[c] = "new" /\ up /\ send_buf[c] = <<>>
        /\ far[c].client = "open" /\ far[c].server = "open"
        /\ taken[c].client = <<>> /\ stream[c].client = <<>> /\ unsent[c].server = <<>>
        /\ taken[c].server = <<>> /\ stream[c].server = <<>> /\ unsent[c].client = <<>>
    BY DEF Init, Ends
  <2>2. Cut(send_buf[c])
    BY <2>1, Room DEF Cut
  <2>3. Connected(c)
    <3>1. <<>> \o <<>> \o <<>> = <<>>
      BY <1>1, ThreeTexts
    <3> QED
      BY <2>1, <3>1 DEF Connected, Asked, Current
  <2> QED
    BY <2>1, <2>2, <2>3 DEF Sound, Stopped, Replied
<1> QED
  BY <1>2, <1>3, <1>4, <1>5 DEF Inductive

(* Every step keeps the invariant, and doing nothing does. *)
LEMMA InductiveStep == Inductive /\ [Next]_vars => Inductive'
<1> SUFFICES ASSUME Inductive, [Next]_vars PROVE Inductive'
  OBVIOUS
<1>1. ASSUME NEW c \in Clients, ClientStep(c) PROVE Inductive'
  <2>1. CASE Connect(c)
    BY <2>1, ConnectSound
  <2>2. CASE GetLine(c)
    BY <2>2, GetLineSound
  <2>3. CASE InputEnds(c)
    BY <2>3, ExitSound DEF InputEnds
  <2>4. CASE SendLine(c)
    BY <2>4, SendLineSound
  <2>5. CASE SendFails(c)
    BY <2>5, ExitSound DEF SendFails
  <2>6. CASE ReadReply(c)
    BY <2>6, ReadReplySound
  <2>7. CASE GetReply(c)
    BY <2>7, GetReplySound
  <2>8. CASE NoReply(c)
    BY <2>8, ExitSound DEF NoReply
  <2> QED
    BY <1>1, <2>1, <2>2, <2>3, <2>4, <2>5, <2>6, <2>7, <2>8 DEF ClientStep
<1>2. ASSUME NEW c \in Clients, Kill(c) PROVE Inductive'
  BY <1>2, ExitSound DEF Kill
<1>3. ASSUME NEW c \in Clients, ChildStep(c) PROVE Inductive'
  <2>1. CASE ReadLine(c)
    BY <2>1, ReadLineSound
  <2>2. CASE StartEcho(c)
    BY <2>2, StartEchoSound
  <2>3. CASE WriteLine(c)
    BY <2>3, WriteLineSound
  <2>4. CASE WriteLineFails(c)
    BY <2>4, WriteLineFailsSound
  <2>5. CASE Leave(c)
    BY <2>5, LeaveSound
  <2> QED
    BY <1>3, <2>1, <2>2, <2>3, <2>4, <2>5 DEF ChildStep
<1>4. CASE Accept
  BY <1>4, AcceptSound
<1>5. CASE Stop
  BY <1>5, StopSound
<1>6. CASE UNCHANGED vars
  <2>1. /\ client' = client /\ text' = text /\ send_buf' = send_buf /\ recv_buf' = recv_buf
        /\ child' = child /\ unsent' = unsent /\ taken' = taken /\ stream' = stream
        /\ far' = far /\ backlog' = backlog /\ up' = up
    BY <1>6 DEF vars
  <2>2. TypeOK' /\ Texting' /\ Queued'
    BY <2>1 DEF Inductive, TypeOK, Texting, Queued
  <2>3. ASSUME NEW c \in Clients PROVE Sound(c)'
    <3>1. Cut(send_buf[c])'
      BY <2>1 DEF Inductive, Sound, Cut
    <3>2. Connected(c)'
      BY <2>1 DEF Inductive, Sound, Connected, Asked, Answered, Current
    <3>3. Stopped(c)' /\ Replied(c)'
      BY <2>1 DEF Inductive, Sound, Stopped, Replied
    <3> QED
      BY <3>1, <3>2, <3>3 DEF Sound
  <2> QED
    BY <2>2, <2>3 DEF Inductive
<1> QED
  BY <1>1, <1>2, <1>3, <1>4, <1>5, <1>6 DEF Next

(* In every reachable state. *)
LEMMA Invariance == Spec => []Inductive
BY InductiveInit, InductiveStep, PTL DEF Spec

(* The variables keep their types: no line that an end builds in a buffer of  *)
(* BUFFER_SIZE bytes is longer than its room.                                 *)
THEOREM TypeCorrect == Spec => []TypeOK
<1>1. Inductive => TypeOK
  BY DEF Inductive
<1> QED
  BY <1>1, Invariance, PTL

(* As long as both ends are there, what is under way between them is the line *)
(* the client has sent, for any text, size of buffer and cut of the stream.   *)
THEOREM LineIsUnderWay == Spec => []NothingIsLost
<1>1. Inductive => NothingIsLost
  <2> SUFFICES ASSUME Inductive, NEW c \in Clients, up, client[c] # "exit"
               PROVE  UnderWay(c) = Current(c)
    BY DEF NothingIsLost, Current
  <2> DEFINE tc == taken[c].client
             sc == stream[c].client
             us == unsent[c].server
             ts == taken[c].server
             ss == stream[c].server
             uc == unsent[c].client
  <2>1. /\ tc \in Seq(Chars) /\ sc \in Seq(Chars) /\ us \in Seq(Chars)
        /\ ts \in Seq(Chars) /\ ss \in Seq(Chars) /\ uc \in Seq(Chars)
    BY OneConnection
       DEF Inductive
  <2>2. \/ tc = <<>> /\ sc = <<>> /\ us = <<>> /\ ts \o ss \o uc = Current(c)
        \/ ts = <<>> /\ ss = <<>> /\ uc = <<>> /\ tc \o sc \o us = Current(c)
    BY DEF Inductive, Sound, Connected, Asked, Answered
  <2>3. UnderWay(c) = tc \o sc \o us \o ts \o ss \o uc
    BY DEF UnderWay
  <2> HIDE DEF tc, sc, us, ts, ss, uc
  <2>4. CASE tc = <<>> /\ sc = <<>> /\ us = <<>> /\ ts \o ss \o uc = Current(c)
    <3>1. <<>> \o <<>> \o <<>> = <<>> /\ <<>> \o ts = ts
      BY <2>1, EmptySeq, ThreeTexts, ConcatEmptySeq
    <3> QED
      BY <2>3, <2>4, <3>1
  <2>5. CASE ts = <<>> /\ ss = <<>> /\ uc = <<>> /\ tc \o sc \o us = Current(c)
    <3> DEFINE all == tc \o sc \o us
    <3>1. all \in Seq(Chars)
      BY <2>1, ConcatProperties
    <3> HIDE DEF all
    <3>2. all \o <<>> = all
      BY <3>1, ConcatEmptySeq
    <3> QED
      BY <2>3, <2>5, <3>2 DEF all
  <2> QED
    BY <2>2, <2>4, <2>5
<1> QED
  BY <1>1, Invariance, PTL

(* The client's reply is the line it has sent, or, when the server has been   *)
(* stopped, its beginning: fgets and two times readLine cut a text at the     *)
(* same places, whatever the text.                                            *)
THEOREM ReplyIsWhole == Spec => []ReplyIsTheLine
<1>1. Inductive => ReplyIsTheLine
  BY DEF Inductive, Sound, Replied, ReplyIsTheLine
<1> QED
  BY <1>1, Invariance, PTL

(* Client and child never wait for each other over a line that has its        *)
(* newline or fills the buffer.                                               *)
THEOREM NobodyWaitsInVain == Spec => []NoMutualWait
<1>1. Inductive => NoMutualWait
  <2> SUFFICES ASSUME Inductive, NEW c \in Clients, Waiting(c), IsLine(send_buf[c])
               PROVE  FALSE
    BY DEF NoMutualWait
  <2>1. /\ client[c] = "reply" /\ child[c] = "read"
        /\ ~HasLine(taken[c].client) /\ stream[c].client = <<>>
        /\ ~HasLine(taken[c].server) /\ stream[c].server = <<>>
    BY DEF Waiting, NothingToRead, Ends
  <2>2. /\ taken[c].client \in Seq(Chars) /\ taken[c].server \in Seq(Chars)
        /\ send_buf[c] \in Seq(Chars) /\ <<>> \in Seq(Chars)
    BY OneConnection, EmptySeq DEF Inductive
  <2>3. HasLine(send_buf[c])
    BY <2>2, CutHasLine
  <2>4. /\ unsent[c].client = <<>> /\ unsent[c].server = <<>>
        /\ Asked(c) \/ Answered(c)
        /\ Current(c) = send_buf[c]
    BY <2>1, ChildrenRun DEF Inductive, Sound, Connected, Current
  <2>5. CASE Asked(c)
    <3>1. taken[c].server \o <<>> \o <<>> = send_buf[c]
      BY <2>1, <2>4, <2>5 DEF Asked
    <3>2. taken[c].server \o <<>> \o <<>> = taken[c].server
      BY <2>2, ThreeTexts
    <3> QED
      BY <2>1, <2>3, <3>1, <3>2
  <2>6. CASE Answered(c)
    <3>1. taken[c].client \o <<>> \o <<>> = send_buf[c]
      BY <2>1, <2>4, <2>6 DEF Answered
    <3>2. taken[c].client \o <<>> \o <<>> = taken[c].client
      BY <2>2, ThreeTexts
    <3> QED
      BY <2>1, <2>3, <3>1, <3>2
  <2> QED
    BY <2>4, <2>5, <2>6
<1> QED
  BY <1>1, Invariance, PTL
=============================================================================
