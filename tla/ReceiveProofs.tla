----------------------------- MODULE ReceiveProofs -----------------------------
(***************************************************************************)
(* Proofs about what one side frames and the other side unframes, and      *)
(* about the receive of the server: for every base, any number of clients, *)
(* channels, messages and lengths of the application's buffer, the bytes   *)
(* of a client arrive as they were sent.                                   *)
(*                                                                         *)
(* The functions of Framing are recursive.  Their equations come from a    *)
(* recursion principle whose induction is over sets of numbers, and what   *)
(* they compute is proved by that induction.  The bytes of a stream are    *)
(* then compared with what is left to be read of the messages sent: Flow   *)
(* says, for each channel, that what the application has, holds and is     *)
(* offered, followed by what is under way, is what was sent.               *)
(***************************************************************************)
EXTENDS ServerReceive, SequenceTheorems, FiniteSetTheorems, WellFoundedInduction, TLAPS

-------------------------------------------------------------------------------
(* Numbers.                                                                *)

(* The high byte of a length below UShort is a byte. *)
LEMMA QuotientIsSmall ==
  ASSUME NEW b \in Nat, b > 0, NEW n \in Nat, n < b * b
  PROVE  n \div b \in 0 .. b - 1
PROOF
<1> DEFINE q == n \div b
<1>1. q \in Int /\ n % b \in 0 .. b - 1 /\ n = b * q + (n % b)
  BY SMT
<1>2. q >= 0
  <2>1. CASE q < 0
    <3>1. b * q <= b * (-1)
      <4>1. -1 - q >= 0 /\ -1 - q \in Int
        BY <1>1, <2>1
      <4>2. b * (-1 - q) >= 0
        BY <4>1
      <4>3. b * (-1 - q) = b * (-1) - b * q
        BY <1>1
      <4> QED
        BY <4>2, <4>3, <1>1
    <3> QED
      BY <3>1, <1>1
  <2> QED
    BY <2>1, <1>1
<1>3. q < b
  <2>1. CASE q >= b
    <3>1. b * (q - b) >= 0
      BY <1>1, <2>1
    <3>2. b * (q - b) = b * q - b * b
      BY <1>1
    <3> QED
      BY <3>1, <3>2, <1>1
  <2> QED
    BY <2>1, <1>1
<1> QED
  BY <1>1, <1>2, <1>3

(* The two bytes of a length tell it, as long as it is below UShort. *)
THEOREM LengthSurvives ==
  ASSUME NEW n \in Nat, n < UShort
  PROVE  /\ PutUint16(n) \in Seq(Bytes) /\ Len(PutUint16(n)) = 2
         /\ Uint16(PutUint16(n)) = n
PROOF
<1>1. Base \in Nat /\ Base > 0 /\ n < Base * Base
  BY BaseIsEven DEF UShort
<1>2. n \div Base \in 0 .. Base - 1
  BY <1>1, QuotientIsSmall
<1>3. n % Base \in 0 .. Base - 1 /\ n = Base * (n \div Base) + (n % Base)
  BY <1>1
<1>4. (n \div Base) % Base = n \div Base
  BY <1>1, <1>2
<1>5. PutUint16(n) = <<n \div Base, n % Base>>
  BY <1>4 DEF PutUint16
<1>6. (n \div Base) * Base = Base * (n \div Base)
  BY <1>1, <1>2
<1>7. Uint16(PutUint16(n)) = (n \div Base) * Base + (n % Base)
  BY <1>5 DEF Uint16
<1> QED
  BY <1>2, <1>3, <1>5, <1>6, <1>7 DEF Bytes

-------------------------------------------------------------------------------
(* Messages on a stream.                                                   *)

(* What WriteStreamByHeaderType puts on a stream is HeaderLen bytes and the
   data. *)
LEMMA FrameIsHeaderAndData ==
  ASSUME NEW data \in Seq(Bytes), data # <<>>, Len(data) < UShort
  PROVE  /\ WriteStreamByHeader(data) = PutUint16(Len(data)) \o data
         /\ WriteStreamByHeader(data) \in Seq(Bytes)
         /\ Len(WriteStreamByHeader(data)) = 2 + Len(data)
         /\ \A i \in 1 .. 2 : WriteStreamByHeader(data)[i] = PutUint16(Len(data))[i]
         /\ \A i \in 1 .. Len(data) : WriteStreamByHeader(data)[i + 2] = data[i]
PROOF
<1>1. Len(data) \in Nat
  OBVIOUS
<1>2. PutUint16(Len(data)) \in Seq(Bytes) /\ Len(PutUint16(Len(data))) = 2
  BY <1>1, LengthSurvives
<1>3. WriteStreamByHeader(data) = PutUint16(Len(data)) \o data
  BY DEF WriteStreamByHeader
<1> DEFINE h == PutUint16(Len(data))
<1> HIDE DEF h
<1>4. h \in Seq(Bytes) /\ Len(h) = 2 /\ WriteStreamByHeader(data) = h \o data
  BY <1>2, <1>3 DEF h
<1>5. /\ h \o data \in Seq(Bytes)
      /\ Len(h \o data) = 2 + Len(data)
      /\ \A i \in 1 .. 2 : (h \o data)[i] = h[i]
      /\ \A i \in 1 .. Len(data) : (h \o data)[i + 2] = data[i]
  <2>1. /\ h \o data \in Seq(Bytes)
        /\ Len(h \o data) = Len(h) + Len(data)
        /\ \A i \in 1 .. Len(h) + Len(data) :
             (h \o data)[i] = IF i <= Len(h) THEN h[i] ELSE data[i - Len(h)]
    BY <1>4, ConcatProperties
  <2>2. \A i \in 1 .. 2 : (h \o data)[i] = h[i]
    BY <1>1, <1>4, <2>1
  <2>3. ASSUME NEW i \in 1 .. Len(data)
        PROVE  (h \o data)[i + 2] = data[i]
    <3>1. i + 2 \in 1 .. Len(h) + Len(data) /\ ~(i + 2 <= Len(h)) /\ (i + 2) - Len(h) = i
      BY <1>1, <1>4
    <3> QED
      BY <2>1, <3>1
  <2> QED
    BY <1>1, <1>4, <2>1, <2>2, <2>3
<1> QED
  BY <1>4, <1>5 DEF h

(* stream.go:126 against utils/stream.go:139: whatever follows it on the
   stream, a message comes back as it was sent, and the reader goes on at what
   follows. *)
THEOREM MessageSurvives ==
  ASSUME NEW data \in Seq(Bytes), data # <<>>, Len(data) < UShort,
         NEW w \in Seq(Bytes)
  PROVE  LET s == WriteStreamByHeader(data) \o w
         IN  HasMessage(s) /\ MessageOf(s) = data /\ AfterMessage(s) = w
PROOF
<1> DEFINE f == WriteStreamByHeader(data)
           s == f \o w
           n == Len(data)
<1>1. n \in Nat /\ f \in Seq(Bytes) /\ Len(f) = 2 + n
  BY FrameIsHeaderAndData
<1>2. /\ \A i \in 1 .. 2 : f[i] = PutUint16(n)[i]
      /\ \A i \in 1 .. n : f[i + 2] = data[i]
  BY FrameIsHeaderAndData
<1>3. Uint16(PutUint16(n)) = n
  BY <1>1, LengthSurvives
<1> HIDE DEF f
<1>4. /\ s \in Seq(Bytes) /\ Len(s) = 2 + n + Len(w)
      /\ \A i \in 1 .. 2 + n : s[i] = f[i]
      /\ \A i \in 1 .. Len(w) : s[2 + n + i] = w[i]
  BY <1>1
<1>5. Uint16(s) = n
  <2>1. s[1] = PutUint16(n)[1] /\ s[2] = PutUint16(n)[2]
    BY <1>1, <1>2, <1>4
  <2> QED
    BY <1>3, <2>1 DEF Uint16
<1>6. HasMessage(s)
  BY <1>1, <1>4, <1>5 DEF HasMessage
<1> HIDE DEF s
<1>7. MessageOf(s) = data
  <2>1. MessageOf(s) = SubSeq(s, 3, 2 + n)
    BY <1>5 DEF MessageOf
  <2>2. /\ Len(SubSeq(s, 3, 2 + n)) = n
        /\ \A i \in 1 .. n : SubSeq(s, 3, 2 + n)[i] = s[i + 2]
    BY <1>1, <1>4
  <2>3. \A i \in 1 .. n : s[i + 2] = data[i]
    BY <1>1, <1>2, <1>4
  <2>4. SubSeq(s, 3, 2 + n) \in Seq(Bytes)
    BY <1>1, <1>4
  <2> QED
    BY <2>1, <2>2, <2>3, <2>4
<1>8. AfterMessage(s) = w
  <2>1. AfterMessage(s) = SubSeq(s, 3 + n, Len(s))
    BY <1>5 DEF AfterMessage
  <2>2. /\ Len(SubSeq(s, 3 + n, Len(s))) = Len(w)
        /\ \A i \in 1 .. Len(w) : SubSeq(s, 3 + n, Len(s))[i] = s[2 + n + i]
    BY <1>1, <1>4
  <2>3. SubSeq(s, 3 + n, Len(s)) \in Seq(Bytes)
    BY <1>1, <1>4
  <2>4. \A i \in 1 .. Len(w) : SubSeq(s, 3 + n, Len(s))[i] = w[i]
    BY <1>4, <2>2
  <2>5. SubSeq(s, 3 + n, Len(s)) = w
    BY <2>2, <2>3, <2>4, SeqEqual
  <2> QED
    BY <2>1, <2>5
<1> QED
  BY <1>6, <1>7, <1>8 DEF s, f

(* ReadStreamFull and the end of a stream: no part of a message that was cut
   passes for a message. *)
THEOREM CutMessageIsNone ==
  ASSUME NEW data \in Seq(Bytes), data # <<>>, Len(data) < UShort,
         NEW k \in 0 .. 1 + Len(data)
  PROVE  ~HasMessage(SubSeq(WriteStreamByHeader(data), 1, k))
PROOF
<1> DEFINE f == WriteStreamByHeader(data)
           n == Len(data)
           s == SubSeq(f, 1, k)
<1>1. n \in Nat /\ f \in Seq(Bytes) /\ Len(f) = 2 + n
  BY FrameIsHeaderAndData
<1>2. \A i \in 1 .. 2 : f[i] = PutUint16(n)[i]
  BY FrameIsHeaderAndData
<1>3. Uint16(PutUint16(n)) = n
  BY <1>1, LengthSurvives
<1> HIDE DEF f
<1>4. Len(s) = k /\ \A i \in 1 .. k : s[i] = f[i]
  BY <1>1
<1> HIDE DEF s
<1>5. ASSUME k < 2
      PROVE  ~HasMessage(s)
  <2>1. ~(Len(s) >= 2)
    BY <1>4, <1>5
  <2> QED
    BY <2>1 DEF HasMessage
<1>6. ASSUME k >= 2
      PROVE  ~HasMessage(s)
  <2>1. s[1] = PutUint16(n)[1] /\ s[2] = PutUint16(n)[2]
    BY <1>2, <1>4, <1>6
  <2>2. Uint16(s) = n
    BY <1>3, <2>1 DEF Uint16
  <2>3. ~(Len(s) >= 2 + Uint16(s))
    BY <1>1, <1>4, <2>2
  <2> QED
    BY <2>3 DEF HasMessage
<1>7. k < 2 \/ k >= 2
  OBVIOUS
<1>8. ~HasMessage(s)
  BY <1>5, <1>6, <1>7
<1> QED
  BY <1>8 DEF s, f

-------------------------------------------------------------------------------
(* Induction and recursion.                                                *)

(* Every set of numbers has a least one. *)
LEMMA Smallest ==
  ASSUME NEW T \in SUBSET Nat, T # {}
  PROVE  \E x \in T : \A y \in T : x <= y
PROOF
<1> DEFINE R == {p \in Nat \X Nat : p[1] < p[2]}
<1>1. IsWellFoundedOn(OpToRel(<,Nat), Nat)
  BY NatLessThanWellFounded
<1>2. OpToRel(<,Nat) = R
  BY Zenon DEF OpToRel
<1>3. IsWellFoundedOn(R, Nat)
  BY <1>1, <1>2
<1>4. PICK x \in T : \A y \in T : ~(<<y, x>> \in R)
  <2> HIDE DEF R
  <2> QED
    BY <1>3, WFMin, Zenon
<1>5. ASSUME NEW y \in T
      PROVE  x <= y
  <2>1. <<y, x>> \notin R
    BY <1>4
  <2>2. ~(y < x)
    BY <2>1
  <2> QED
    BY <2>2
<1> QED
  BY <1>5

(* Induction, with a set in the place of the property. *)
LEMMA SetInduction ==
  ASSUME NEW T \in SUBSET Nat, 0 \in T, \A n \in T : n + 1 \in T
  PROVE  T = Nat
PROOF
<1> SUFFICES ASSUME T # Nat
             PROVE  FALSE
  OBVIOUS
<1> DEFINE U == Nat \ T
<1>1. U \in SUBSET Nat /\ U # {}
  OBVIOUS
<1> HIDE DEF U
<1>2. PICK x \in U : \A y \in U : x <= y
  BY <1>1, Smallest
<1> USE DEF U
<1>3. x \in Nat /\ x # 0 /\ x \notin T
  BY <1>2
<1>4. x - 1 \in Nat /\ x - 1 \notin U
  BY <1>2, <1>3
<1> QED
  BY <1>3, <1>4

(* The argument of a recursive call is smaller. *)
Descends(S, m, nxt) == \A x \in S : m[x] # 0 => m[nxt[x]] < m[x]

(* f is defined by recursion from base, comb and the next argument nxt. *)
Solves(f, S, m, base, nxt, comb) ==
  \A x \in S : f[x] = IF m[x] = 0 THEN base[x] ELSE comb[<<x, f[nxt[x]]>>]

(* A recursion whose argument descends has a solution, so that a recursive
   function of the model satisfies its equation. *)
LEMMA RecursionExists ==
  ASSUME NEW S, NEW B, NEW m \in [S -> Nat], NEW base \in [S -> B],
         NEW nxt \in [S -> S], NEW comb \in [S \X B -> B],
         Descends(S, m, nxt)
  PROVE  \E f \in [S -> B] : Solves(f, S, m, base, nxt, comb)
PROOF
<1>0. \A x \in S : m[x] # 0 => m[nxt[x]] < m[x]
  BY DEF Descends
<1> DEFINE Below(n) == {x \in S : m[x] < n}
           Is(g, n) ==
             /\ g \in [Below(n) -> B]
             /\ \A x \in Below(n) :
                  g[x] = IF m[x] = 0 THEN base[x] ELSE comb[<<x, g[nxt[x]]>>]
           T == {n \in Nat : \E g : Is(g, n)}
<1>1. 0 \in T
  <2>1. Below(0) = {}
    OBVIOUS
  <2> DEFINE g == [x \in {} |-> x]
  <2>2. Is(g, 0)
    BY <2>1
  <2> QED
    BY <2>2
<1>2. ASSUME NEW n \in T
      PROVE  n + 1 \in T
  <2>1. PICK g : Is(g, n)
    OBVIOUS
  <2> DEFINE h == [x \in Below(n + 1) |->
                     IF m[x] = 0 THEN base[x] ELSE comb[<<x, g[nxt[x]]>>]]
  <2>2. ASSUME NEW x \in Below(n + 1), m[x] # 0
        PROVE  nxt[x] \in Below(n) /\ nxt[x] \in Below(n + 1) /\ g[nxt[x]] \in B
    <3>1. nxt[x] \in S /\ m[nxt[x]] \in Nat /\ m[x] \in Nat /\ m[nxt[x]] < m[x] /\ m[x] < n + 1
      BY <1>0, <2>2
    <3>2. m[nxt[x]] < n /\ m[nxt[x]] < n + 1
      BY <3>1
    <3> QED
      BY <3>1, <3>2, <2>1
  <2>3. h \in [Below(n + 1) -> B]
    <3> HIDE DEF Below
    <3>1. ASSUME NEW x \in Below(n + 1)
          PROVE  (IF m[x] = 0 THEN base[x] ELSE comb[<<x, g[nxt[x]]>>]) \in B
      <4>1. x \in S
        BY DEF Below
      <4> QED
        BY <2>2, <4>1
    <3> QED
      BY <3>1
  <2>4. ASSUME NEW x \in Below(n)
        PROVE  x \in Below(n + 1) /\ h[x] = g[x]
    <3>1. m[x] \in Nat /\ m[x] < n /\ x \in S
      OBVIOUS
    <3>2. x \in Below(n + 1)
      BY <3>1
    <3>3. g[x] = IF m[x] = 0 THEN base[x] ELSE comb[<<x, g[nxt[x]]>>]
      BY <2>1
    <3> HIDE DEF Below
    <3> QED
      BY <3>2, <3>3
  <2>5. ASSUME NEW x \in Below(n + 1)
        PROVE  h[x] = IF m[x] = 0 THEN base[x] ELSE comb[<<x, h[nxt[x]]>>]
    <3> HIDE DEF Below
    <3> QED
      BY <2>2, <2>4
  <2>6. Is(h, n + 1)
    <3> HIDE DEF Below, h
    <3> QED
      BY <2>3, <2>5
  <2> HIDE DEF Is
  <2> QED
    BY <2>6
<1>3. T = Nat
  <2>1. T \in SUBSET Nat
    OBVIOUS
  <2> HIDE DEF T
  <2> QED
    BY <1>1, <1>2, <2>1, SetInduction
<1>4. ASSUME NEW n \in Nat, NEW k \in Nat, NEW g, NEW h, Is(g, n), Is(h, k),
             NEW x \in Below(n), x \in Below(k)
      PROVE  g[x] = h[x]
  <2> DEFINE D == {y \in Below(n) : y \in Below(k) /\ g[y] # h[y]}
             M == {m[y] : y \in D}
  <2> SUFFICES ASSUME g[x] # h[x]
               PROVE  FALSE
    OBVIOUS
  <2>1. M \in SUBSET Nat /\ M # {}
    <3>1. x \in D
      BY <1>4
    <3> QED
      BY <3>1
  <2>2. PICK z \in M : \A y \in M : z <= y
    <3> HIDE DEF M
    <3> QED
      BY <2>1, Smallest
  <2>3. PICK y \in D : z = m[y]
    BY <2>2
  <2>4. y \in S /\ y \in Below(n) /\ y \in Below(k) /\ g[y] # h[y]
    BY <2>3
  <2>5. /\ g[y] = IF m[y] = 0 THEN base[y] ELSE comb[<<y, g[nxt[y]]>>]
        /\ h[y] = IF m[y] = 0 THEN base[y] ELSE comb[<<y, h[nxt[y]]>>]
    <3> HIDE DEF Below, D, M
    <3> QED
      BY <1>4, <2>4
  <2>6. nxt[y] \in S /\ m[nxt[y]] < m[y] /\ m[nxt[y]] \in Nat /\ m[y] \in Nat
    <3>1. m[y] # 0
      <4> HIDE DEF Below, D, M, Is
      <4> QED
        BY <2>4, <2>5
    <3> QED
      BY <1>0, <2>4, <3>1
  <2>7. nxt[y] \in Below(n) /\ nxt[y] \in Below(k)
    BY <2>4, <2>6
  <2>8. g[nxt[y]] = h[nxt[y]]
    <3>1. m[nxt[y]] \notin M
      <4> HIDE DEF Below, D, M, Is
      <4> QED
        BY <2>2, <2>3, <2>6
    <3>2. nxt[y] \notin D
      BY <3>1
    <3> QED
      BY <2>7, <3>2
  <2> QED
    BY <2>4, <2>5, <2>8
<1> DEFINE G(n) == CHOOSE g : Is(g, n)
           f == [x \in S |-> G(m[x] + 1)[x]]
<1>5. ASSUME NEW n \in Nat
      PROVE  Is(G(n), n)
  <2>1. \E g : Is(g, n)
    BY <1>3
  <2> HIDE DEF Is
  <2> QED
    BY <2>1
<1> HIDE DEF T, G
<1>6. ASSUME NEW x \in S
      PROVE  /\ m[x] + 1 \in Nat /\ x \in Below(m[x] + 1) /\ f[x] = G(m[x] + 1)[x]
             /\ f[x] \in B
  <2>1. m[x] + 1 \in Nat /\ x \in Below(m[x] + 1)
    OBVIOUS
  <2> HIDE DEF Below
  <2> QED
    BY <1>5, <2>1
<1>7. ASSUME NEW x \in S
      PROVE  f[x] = IF m[x] = 0 THEN base[x] ELSE comb[<<x, f[nxt[x]]>>]
  <2>1. f[x] = IF m[x] = 0 THEN base[x] ELSE comb[<<x, G(m[x] + 1)[nxt[x]]>>]
    <3> HIDE DEF Below, f
    <3> QED
      BY <1>5, <1>6
  <2>2. ASSUME m[x] # 0
        PROVE  G(m[x] + 1)[nxt[x]] = f[nxt[x]]
    <3>1. nxt[x] \in S /\ m[nxt[x]] < m[x] /\ m[nxt[x]] \in Nat /\ m[x] \in Nat
      BY <1>0, <2>2
    <3>2. nxt[x] \in Below(m[x] + 1)
      BY <3>1
    <3>3. /\ m[nxt[x]] + 1 \in Nat /\ nxt[x] \in Below(m[nxt[x]] + 1)
          /\ f[nxt[x]] = G(m[nxt[x]] + 1)[nxt[x]]
      BY <1>6, <3>1
    <3>4. Is(G(m[x] + 1), m[x] + 1) /\ Is(G(m[nxt[x]] + 1), m[nxt[x]] + 1)
      BY <1>5, <3>3, <1>6
    <3> HIDE DEF Below, Is, f
    <3> QED
      BY <1>4, <1>6, <3>2, <3>3, <3>4
  <2> HIDE DEF f
  <2> QED
    BY <2>1, <2>2, Zenon
<1>8. f \in [S -> B]
  <2>1. \A x \in S : f[x] \in B
    BY <1>6
  <2> QED
    BY <2>1
<1> HIDE DEF f
<1> QED
  BY <1>7, <1>8 DEF Solves

-------------------------------------------------------------------------------
(* The equations of the recursive functions.                               *)

(* Flat, of what a client sent, is defined for all sequences of messages. *)
LEMMA FlatEquation ==
  /\ Flat \in [Seq(Seq(Bytes)) -> Seq(Bytes)]
  /\ \A ms \in Seq(Seq(Bytes)) :
       Flat[ms] = IF ms = <<>> THEN <<>> ELSE Head(ms) \o Flat[Tail(ms)]
PROOF
<1> DEFINE S == Seq(Seq(Bytes))
           B == Seq(Bytes)
           m == [ms \in S |-> Len(ms)]
           base == [ms \in S |-> <<>>]
           nxt == [ms \in S |-> IF ms = <<>> THEN <<>> ELSE Tail(ms)]
           comb == [p \in S \X B |-> IF p[1] = <<>> THEN <<>> ELSE Head(p[1]) \o p[2]]
           Eq(f) == f = [ms \in S |-> IF ms = <<>> THEN <<>> ELSE Head(ms) \o f[Tail(ms)]]
<1>1. m \in [S -> Nat] /\ base \in [S -> B] /\ nxt \in [S -> S]
  OBVIOUS
<1>2. comb \in [S \X B -> B]
  <2>1. ASSUME NEW p \in S \X B, p[1] # <<>>
        PROVE  Head(p[1]) \o p[2] \in B
    <3>1. p[1] \in S /\ p[2] \in B /\ Head(p[1]) \in B
      BY <2>1
    <3> QED
      BY <3>1
  <2> QED
    BY <2>1
<1>3. Descends(S, m, nxt)
  <2>1. ASSUME NEW ms \in S, ms # <<>>
        PROVE  Tail(ms) \in S /\ Len(Tail(ms)) < Len(ms)
    BY <2>1
  <2> QED
    BY <2>1 DEF Descends
<1>4. PICK f \in [S -> B] :
        Solves(f, S, m, base, nxt, comb)
  <2> HIDE DEF S, B, m, base, nxt, comb
  <2> QED
    BY <1>1, <1>2, <1>3, RecursionExists
<1>5. Eq(f)
  <2>1. ASSUME NEW x \in S
        PROVE  f[x] = IF x = <<>> THEN <<>> ELSE Head(x) \o f[Tail(x)]
    <3>1. f[x] = IF x = <<>> THEN base[x] ELSE comb[<<x, f[nxt[x]]>>]
      <4>1. m[x] \in Nat /\ (m[x] = 0 <=> x = <<>>)
        OBVIOUS
      <4> HIDE DEF S, B, m, base, comb, nxt
      <4> QED
        BY <1>4, <4>1 DEF Solves
    <3>2. ASSUME x # <<>>
          PROVE  nxt[x] = Tail(x) /\ f[Tail(x)] \in B
      <4>1. Tail(x) \in S /\ nxt[x] = Tail(x)
        BY <3>2
      <4> HIDE DEF S, B, nxt
      <4> QED
        BY <4>1
    <3>3. ASSUME NEW t \in B, x # <<>>
          PROVE  comb[<<x, t>>] = Head(x) \o t
      BY <3>3
    <3> QED
      BY <3>1, <3>2, <3>3
  <2> HIDE DEF S, B
  <2>2. f = [x \in S |-> f[x]]
    OBVIOUS
  <2> QED
    BY <2>1, <2>2
<1>6. Flat = CHOOSE g : Eq(g)
  BY DEF Flat
<1>7. Eq(Flat)
  <2> HIDE DEF Eq
  <2> QED
    BY <1>5, <1>6
<1>8. Flat \in [S -> B]
  <2> DEFINE T == {n \in Nat : \A x \in S : Len(x) = n => Flat[x] \in B}
  <2>1. 0 \in T
    BY <1>7
  <2>2. ASSUME NEW n \in T
        PROVE  n + 1 \in T
    <3>1. ASSUME NEW x \in S, Len(x) = n + 1
          PROVE  Flat[x] \in B
      <4>1. x # <<>> /\ Tail(x) \in S /\ Len(Tail(x)) = n /\ Head(x) \in B
        BY <3>1
      <4>2. Flat[x] = Head(x) \o Flat[Tail(x)]
        BY <1>7, <4>1
      <4>3. Flat[Tail(x)] \in B
        BY <4>1
      <4> QED
        BY <4>1, <4>2, <4>3
    <3> QED
      BY <3>1
  <2>3. T = Nat
    <3>1. T \in SUBSET Nat
      OBVIOUS
    <3> HIDE DEF T
    <3> QED
      BY <2>1, <2>2, <3>1, SetInduction
  <2>4. ASSUME NEW x \in S
        PROVE  Flat[x] \in B
    <3>1. Len(x) \in T
      BY <2>3
    <3> QED
      BY <3>1
  <2> HIDE DEF T, B
  <2> QED
    BY <1>7, <2>4
<1>9. \A ms \in S : Flat[ms] = IF ms = <<>> THEN <<>> ELSE Head(ms) \o Flat[Tail(ms)]
  <2> HIDE DEF S
  <2> QED
    BY <1>7
<1> QED
  BY <1>8, <1>9

(* A varint digit has half the values of a byte. *)
LEMMA DigitsHalve == Digits \in Nat /\ Digits >= 2 /\ Base = 2 * Digits /\ Base \in Nat
  BY BaseIsEven DEF Digits

(* The recursion of binary.PutUvarint ends: a quotient is smaller. *)
LEMMA QuotientShrinks ==
  ASSUME NEW b \in Nat, b >= 2, NEW n \in Nat, n >= b
  PROVE  n \div b \in Nat /\ n \div b < n
PROOF
<1> DEFINE q == n \div b
           r == n % b
<1>1. q \in Int /\ r \in 0 .. b - 1 /\ n = b * q + r
  BY SMT
<1> HIDE DEF q, r
<1>2. q >= 0
  <2>1. CASE q < 0
    <3>1. -1 - q \in Nat
      BY <1>1, <2>1
    <3>2. b * (-1 - q) >= 0
      BY <3>1
    <3>3. b * (-1 - q) = -b - b * q
      BY <1>1
    <3> QED
      BY <1>1, <3>2, <3>3
  <2> QED
    BY <1>1, <2>1
<1>3. b * q >= 2 * q
  <2>1. (b - 2) * q >= 0
    BY <1>1, <1>2
  <2>2. (b - 2) * q = b * q - 2 * q
    BY <1>1
  <2> QED
    BY <1>1, <2>1, <2>2
<1>4. q < n
  BY <1>1, <1>2, <1>3
<1> QED
  BY <1>1, <1>2, <1>4 DEF q

(* A number of one digit has no further digits. *)
LEMMA QuotientOfSmall ==
  ASSUME NEW b \in Nat, b >= 2, NEW n \in Nat, n < b
  PROVE  n \div b = 0
  BY SMT

(* What ReadStreamByHeader takes off a stream are bytes, and shorter than
   what was there. *)
LEMMA MessageParts ==
  ASSUME NEW w \in Seq(Bytes), HasMessage(w)
  PROVE  /\ Uint16(w) \in Nat /\ Len(w) >= 2 + Uint16(w)
         /\ MessageOf(w) \in Seq(Bytes) /\ Len(MessageOf(w)) = Uint16(w)
         /\ AfterMessage(w) \in Seq(Bytes) /\ Len(AfterMessage(w)) = Len(w) - 2 - Uint16(w)
PROOF
<1>1. Len(w) >= 2 /\ Len(w) >= 2 + Uint16(w)
  BY DEF HasMessage
<1>2. w[1] \in Nat /\ w[2] \in Nat /\ Base \in Nat
  BY <1>1, BaseIsEven DEF Bytes
<1>3. Uint16(w) \in Nat
  BY <1>2 DEF Uint16
<1> DEFINE n == Uint16(w)
<1> HIDE DEF n
<1>4. n \in Nat /\ Len(w) >= 2 + n
  BY <1>1, <1>3 DEF n
<1>5. SubSeq(w, 3, 2 + n) \in Seq(Bytes) /\ Len(SubSeq(w, 3, 2 + n)) = n
  BY <1>4
<1>6. /\ SubSeq(w, 3 + n, Len(w)) \in Seq(Bytes)
      /\ Len(SubSeq(w, 3 + n, Len(w))) = Len(w) - 2 - n
  BY <1>4
<1> QED
  BY <1>4, <1>5, <1>6 DEF n, MessageOf, AfterMessage

(* Unframed, a reader of whole messages, is defined for all bytes. *)
LEMMA UnframedEquation ==
  \A w \in Seq(Bytes) :
    Unframed[w] = IF HasMessage(w) THEN MessageOf(w) \o Unframed[AfterMessage(w)] ELSE <<>>
PROOF
<1> DEFINE S == Seq(Bytes)
           m == [w \in S |-> IF HasMessage(w) THEN Len(w) ELSE 0]
           base == [w \in S |-> <<>>]
           nxt == [w \in S |-> IF HasMessage(w) THEN AfterMessage(w) ELSE w]
           comb == [p \in S \X S |-> IF HasMessage(p[1]) THEN MessageOf(p[1]) \o p[2] ELSE <<>>]
           Eq(f) == f = [w \in S |-> IF HasMessage(w)
                                     THEN MessageOf(w) \o f[AfterMessage(w)] ELSE <<>>]
<1>1. ASSUME NEW w \in S, HasMessage(w)
      PROVE  /\ MessageOf(w) \in S /\ AfterMessage(w) \in S
             /\ Len(w) \in Nat \ {0} /\ Len(AfterMessage(w)) < Len(w)
  BY <1>1, MessageParts
<1>2. \A w \in S : Len(w) \in Nat
  OBVIOUS
<1>3. <<>> \in S /\ \A u, v \in S : u \o v \in S
  OBVIOUS
<1> HIDE DEF S
<1>4. m \in [S -> Nat] /\ base \in [S -> S]
  BY <1>2, <1>3
<1>5. nxt \in [S -> S]
  BY <1>1
<1>6. comb \in [S \X S -> S]
  BY <1>1, <1>3
<1>7. Descends(S, m, nxt)
  <2>1. ASSUME NEW w \in S, m[w] # 0
        PROVE  m[nxt[w]] < m[w]
    <3>1. HasMessage(w)
      BY <2>1
    <3>2. nxt[w] = AfterMessage(w) /\ m[w] = Len(w)
      BY <3>1
    <3>3. AfterMessage(w) \in S /\ Len(AfterMessage(w)) < Len(w)
      BY <1>1, <3>1
    <3>4. m[AfterMessage(w)] \in {0, Len(AfterMessage(w))}
      BY <3>3
    <3>5. Len(AfterMessage(w)) \in Nat /\ Len(w) \in Nat
      BY <1>2, <3>3
    <3> HIDE DEF m, nxt
    <3> QED
      BY <3>2, <3>3, <3>4, <3>5
  <2> HIDE DEF m, nxt
  <2> QED
    BY <2>1 DEF Descends
<1>8. PICK f \in [S -> S] : Solves(f, S, m, base, nxt, comb)
  <2> HIDE DEF m, base, nxt, comb
  <2> QED
    BY <1>4, <1>5, <1>6, <1>7, RecursionExists
<1>9. Eq(f)
  <2>1. ASSUME NEW w \in S
        PROVE  f[w] = IF HasMessage(w) THEN MessageOf(w) \o f[AfterMessage(w)] ELSE <<>>
    <3>1. f[w] = IF m[w] = 0 THEN base[w] ELSE comb[<<w, f[nxt[w]]>>]
      <4> HIDE DEF m, base, nxt, comb
      <4> QED
        BY <1>8 DEF Solves
    <3>2. CASE HasMessage(w)
      <4>1. m[w] # 0 /\ nxt[w] = AfterMessage(w) /\ f[AfterMessage(w)] \in S
        BY <1>1, <3>2
      <4>2. comb[<<w, f[AfterMessage(w)]>>] = MessageOf(w) \o f[AfterMessage(w)]
        BY <3>2, <4>1
      <4> HIDE DEF m, base, nxt, comb
      <4> QED
        BY <3>1, <3>2, <4>1, <4>2
    <3>3. CASE ~HasMessage(w)
      <4>1. m[w] = 0 /\ base[w] = <<>>
        BY <3>3
      <4> HIDE DEF m, base, nxt, comb
      <4> QED
        BY <3>1, <3>3, <4>1
    <3> QED
      BY <3>2, <3>3
  <2>2. f = [w \in S |-> f[w]]
    OBVIOUS
  <2> QED
    BY <2>1, <2>2
<1>10. Unframed = CHOOSE g : Eq(g)
  BY DEF Unframed, S
<1>11. Eq(Unframed)
  <2> HIDE DEF Eq
  <2> QED
    BY <1>9, <1>10
<1> QED
  BY <1>11 DEF S

(* Uvarint, what a reader makes of the digits, is defined for all bytes. *)
LEMMA UvarintEquation ==
  /\ Uvarint[<<>>] = 0
  /\ \A h \in Seq(Bytes) :
       h # <<>> => Uvarint[h] = (Head(h) % Digits) + Digits * Uvarint[Tail(h)]
PROOF
<1> DEFINE S == Seq(Bytes)
           m == [h \in S |-> Len(h)]
           base == [h \in S |-> 0]
           nxt == [h \in S |-> IF h = <<>> THEN <<>> ELSE Tail(h)]
           comb == [p \in S \X Nat |->
                      IF p[1] = <<>> THEN 0 ELSE (Head(p[1]) % Digits) + Digits * p[2]]
           Eq(f) == f = [h \in S |-> IF h = <<>> THEN 0
                                     ELSE (Head(h) % Digits) + Digits * f[Tail(h)]]
<1>1. ASSUME NEW h \in S, h # <<>>
      PROVE  Tail(h) \in S /\ Len(Tail(h)) < Len(h)
  BY <1>1
<1>2. ASSUME NEW h \in S, h # <<>>, NEW t \in Nat
      PROVE  (Head(h) % Digits) + Digits * t \in Nat
  <2>1. Head(h) \in Nat
    BY <1>2, BaseIsEven DEF Bytes
  <2>2. Head(h) % Digits \in Nat
    BY <2>1, DigitsHalve
  <2>3. Digits * t \in Nat
    BY DigitsHalve
  <2> QED
    BY <2>2, <2>3
<1>3. <<>> \in S /\ \A h \in S : Len(h) \in Nat /\ (Len(h) = 0 <=> h = <<>>)
  OBVIOUS
<1> HIDE DEF S
<1>4. m \in [S -> Nat] /\ base \in [S -> Nat]
  BY <1>3
<1>5. nxt \in [S -> S]
  BY <1>1, <1>3
<1>6. comb \in [S \X Nat -> Nat]
  BY <1>2
<1>7. Descends(S, m, nxt)
  <2>1. ASSUME NEW h \in S, m[h] # 0
        PROVE  m[nxt[h]] < m[h]
    BY <1>1, <1>3, <2>1
  <2> HIDE DEF m, nxt
  <2> QED
    BY <2>1 DEF Descends
<1>8. PICK f \in [S -> Nat] : Solves(f, S, m, base, nxt, comb)
  <2> HIDE DEF m, base, nxt, comb
  <2> QED
    BY <1>4, <1>5, <1>6, <1>7, RecursionExists
<1>9. Eq(f)
  <2>1. ASSUME NEW h \in S
        PROVE  f[h] = IF h = <<>> THEN 0 ELSE (Head(h) % Digits) + Digits * f[Tail(h)]
    <3>1. f[h] = IF m[h] = 0 THEN base[h] ELSE comb[<<h, f[nxt[h]]>>]
      <4> HIDE DEF m, base, nxt, comb
      <4> QED
        BY <1>8 DEF Solves
    <3>2. CASE h # <<>>
      <4>1. m[h] # 0 /\ nxt[h] = Tail(h) /\ f[Tail(h)] \in Nat
        BY <1>1, <1>3, <3>2
      <4>2. comb[<<h, f[Tail(h)]>>] = (Head(h) % Digits) + Digits * f[Tail(h)]
        BY <3>2, <4>1
      <4> HIDE DEF m, base, nxt, comb
      <4> QED
        BY <3>1, <3>2, <4>1, <4>2
    <3>3. CASE h = <<>>
      <4>1. m[h] = 0 /\ base[h] = 0
        BY <1>3, <3>3
      <4> HIDE DEF m, base, nxt, comb
      <4> QED
        BY <3>1, <3>3, <4>1
    <3> QED
      BY <3>2, <3>3
  <2>2. f = [h \in S |-> f[h]]
    OBVIOUS
  <2> QED
    BY <2>1, <2>2
<1>10. Uvarint = CHOOSE g : Eq(g)
  BY DEF Uvarint, S
<1>11. Eq(Uvarint)
  <2> HIDE DEF Eq
  <2> QED
    BY <1>9, <1>10
<1>12. Uvarint[<<>>] = 0
  BY <1>3, <1>11
<1>13. ASSUME NEW h \in S, h # <<>>
       PROVE  Uvarint[h] = (Head(h) % Digits) + Digits * Uvarint[Tail(h)]
  BY <1>11, <1>13
<1> QED
  BY <1>12, <1>13 DEF S

-------------------------------------------------------------------------------
(* Varints.                                                                *)

(* PutUvarint, the digits written, is defined for all numbers. *)
LEMMA PutUvarintEquation ==
  \A n \in Nat :
    PutUvarint[n] = IF n < Digits THEN <<n>>
                    ELSE <<Digits + (n % Digits)>> \o PutUvarint[n \div Digits]
PROOF
<1> DEFINE B == Seq(Nat)
           m == [n \in Nat |-> IF n < Digits THEN 0 ELSE n]
           base == [n \in Nat |-> <<n>>]
           nxt == [n \in Nat |-> n \div Digits]
           comb == [p \in Nat \X B |-> <<Digits + (p[1] % Digits)>> \o p[2]]
           Eq(f) == f = [n \in Nat |-> IF n < Digits THEN <<n>>
                                       ELSE <<Digits + (n % Digits)>> \o f[n \div Digits]]
<1>1. Digits \in Nat /\ Digits >= 2
  BY DigitsHalve
<1>2. ASSUME NEW n \in Nat
      PROVE  n \div Digits \in Nat /\ n % Digits \in Nat /\ (n >= Digits => n \div Digits < n)
  <2>1. CASE n >= Digits
    BY <1>1, <2>1, QuotientShrinks
  <2>2. CASE n < Digits
    <3>1. n \div Digits = 0
      BY <1>1, <2>2, QuotientOfSmall
    <3> QED
      BY <1>1, <2>2, <3>1
  <2>3. n % Digits \in Nat
    BY <1>1
  <2> QED
    BY <1>1, <2>1, <2>2, <2>3
<1>5. \A n \in Nat : <<n>> \in B
  OBVIOUS
<1>3. ASSUME NEW n \in Nat, NEW t \in B
      PROVE  <<Digits + (n % Digits)>> \o t \in B
  <2>1. Digits + (n % Digits) \in Nat
    BY <1>1, <1>2
  <2> QED
    BY <2>1
<1> HIDE DEF B
<1>4. m \in [Nat -> Nat] /\ base \in [Nat -> B] /\ nxt \in [Nat -> Nat]
  <2>1. m \in [Nat -> Nat]
    BY <1>1
  <2>2. base \in [Nat -> B]
    BY <1>5
  <2>3. nxt \in [Nat -> Nat]
    BY <1>2
  <2> QED
    BY <2>1, <2>2, <2>3
<1>6. comb \in [Nat \X B -> B]
  BY <1>3
<1>7. Descends(Nat, m, nxt)
  <2>1. ASSUME NEW n \in Nat, m[n] # 0
        PROVE  m[nxt[n]] < m[n]
    <3>1. n >= Digits /\ m[n] = n
      BY <1>1, <2>1
    <3>2. nxt[n] \in Nat /\ nxt[n] < n
      BY <1>2, <3>1
    <3>3. \A k \in Nat : m[k] \in {0, k}
      OBVIOUS
    <3> HIDE DEF m, nxt
    <3>4. m[nxt[n]] \in {0, nxt[n]}
      BY <3>2, <3>3
    <3> QED
      BY <3>1, <3>2, <3>4, <1>1
  <2> HIDE DEF m, nxt
  <2> QED
    BY <2>1 DEF Descends
<1>8. PICK f \in [Nat -> B] : Solves(f, Nat, m, base, nxt, comb)
  <2> HIDE DEF m, base, nxt, comb
  <2> QED
    BY <1>4, <1>6, <1>7, RecursionExists
<1>9. Eq(f)
  <2>1. ASSUME NEW n \in Nat
        PROVE  f[n] = IF n < Digits THEN <<n>>
                      ELSE <<Digits + (n % Digits)>> \o f[n \div Digits]
    <3>1. f[n] = IF m[n] = 0 THEN base[n] ELSE comb[<<n, f[nxt[n]]>>]
      <4> HIDE DEF m, base, nxt, comb
      <4> QED
        BY <1>8 DEF Solves
    <3>2. CASE ~(n < Digits)
      <4>1. m[n] # 0 /\ nxt[n] = n \div Digits /\ f[n \div Digits] \in B
        BY <1>1, <1>2, <3>2
      <4>2. comb[<<n, f[n \div Digits]>>] = <<Digits + (n % Digits)>> \o f[n \div Digits]
        BY <4>1
      <4> HIDE DEF m, base, nxt, comb
      <4> QED
        BY <3>1, <3>2, <4>1, <4>2
    <3>3. CASE n < Digits
      <4>1. m[n] = 0 /\ base[n] = <<n>>
        BY <3>3
      <4> HIDE DEF m, base, nxt, comb
      <4> QED
        BY <3>1, <3>3, <4>1
    <3> QED
      BY <3>2, <3>3
  <2>2. f = [n \in Nat |-> f[n]]
    OBVIOUS
  <2> QED
    BY <2>1, <2>2
<1>10. PutUvarint = CHOOSE g : Eq(g)
  BY DEF PutUvarint
<1>11. Eq(PutUvarint)
  <2> HIDE DEF Eq
  <2> QED
    BY <1>9, <1>10
<1> QED
  BY <1>11

(* What ReadStreamLen takes for the bytes of one number. *)
IsVarint(h) ==
  /\ h \in Seq(Bytes) /\ Len(h) >= 1 /\ h[Len(h)] < Digits
  /\ \A j \in 1 .. Len(h) - 1 : h[j] >= Digits

(* A number comes back from its digits, and only the last of them ends it. *)
LEMMA UvarintSurvives ==
  ASSUME NEW n \in Nat
  PROVE  IsVarint(PutUvarint[n]) /\ Uvarint[PutUvarint[n]] = n
PROOF
<1> DEFINE P(k) == IsVarint(PutUvarint[k]) /\ Uvarint[PutUvarint[k]] = k
           T == {k \in Nat : \A i \in 0 .. k : P(i)}
<1>1. Digits \in Nat /\ Digits >= 2 /\ Base = 2 * Digits
  BY DigitsHalve
<1>2. ASSUME NEW k \in Nat, k < Digits
      PROVE  P(k)
  <2>1. PutUvarint[k] = <<k>>
    BY <1>2, PutUvarintEquation
  <2>2. k \in Bytes
    BY <1>1, <1>2 DEF Bytes
  <2>3. IsVarint(<<k>>)
    BY <1>2, <2>2 DEF IsVarint
  <2>4. Uvarint[<<k>>] = (k % Digits) + Digits * 0
    <3>1. <<k>> \in Seq(Bytes) /\ <<k>> # <<>> /\ Head(<<k>>) = k /\ Tail(<<k>>) = <<>>
      BY <2>2
    <3>2. Uvarint[<<k>>] = (Head(<<k>>) % Digits) + Digits * Uvarint[Tail(<<k>>)]
      BY <3>1, UvarintEquation
    <3> QED
      BY <3>1, <3>2, UvarintEquation
  <2>5. k % Digits = k
    BY <1>1, <1>2
  <2>6. Uvarint[<<k>>] = k
    BY <1>1, <2>4, <2>5
  <2> QED
    BY <2>1, <2>3, <2>6
<1>3. ASSUME NEW k \in Nat, k >= Digits, P(k \div Digits)
      PROVE  P(k)
  <2> DEFINE q == k \div Digits
             r == k % Digits
             p == PutUvarint[q]
             d == Digits + r
  <2>1. r \in 0 .. Digits - 1 /\ k = Digits * q + r /\ q \in Nat
    BY <1>1, <1>3, QuotientShrinks
  <2>2. PutUvarint[k] = <<d>> \o p
    <3>1. ~(k < Digits)
      BY <1>1, <1>3
    <3> QED
      BY <3>1, PutUvarintEquation
  <2> HIDE DEF q, r
  <2>3. IsVarint(p) /\ Uvarint[p] = q
    BY <1>3 DEF q
  <2> HIDE DEF p
  <2>4. d \in Bytes /\ d >= Digits /\ d % Digits = r
    <3>1. d \in Bytes /\ d >= Digits
      BY <1>1, <2>1 DEF Bytes
    <3>2. d % Digits = r
      BY <1>1, <2>1
    <3> QED
      BY <3>1, <3>2
  <2> HIDE DEF d
  <2>5. /\ <<d>> \o p \in Seq(Bytes) /\ Len(<<d>> \o p) = 1 + Len(p)
        /\ (<<d>> \o p)[1] = d /\ \A i \in 1 .. Len(p) : (<<d>> \o p)[1 + i] = p[i]
    BY <2>3, <2>4 DEF IsVarint
  <2>6. Head(<<d>> \o p) = d /\ Tail(<<d>> \o p) = p
    <3>1. p \in Seq(Bytes) /\ d \in Bytes
      BY <2>3, <2>4 DEF IsVarint
    <3>2. Head(<<d>> \o p) = d
      BY <2>5, <3>1
    <3>3. Tail(<<d>> \o p) \in Seq(Bytes) /\ Len(Tail(<<d>> \o p)) = Len(p)
      BY <2>5, <3>1
    <3>4. \A i \in 1 .. Len(p) : Tail(<<d>> \o p)[i] = p[i]
      BY <2>5, <3>1
    <3> QED
      BY <3>1, <3>2, <3>3, <3>4, SeqEqual
  <2> DEFINE h == <<d>> \o p
  <2> HIDE DEF h
  <2>7. IsVarint(h)
    <3>1. \A j \in 1 .. Len(h) - 1 : h[j] >= Digits
      <4> TAKE j \in 1 .. Len(h) - 1
      <4>1. CASE j = 1
        BY <2>4, <2>5, <4>1 DEF h
      <4>2. CASE j # 1
        <5>1. j - 1 \in 1 .. Len(p) - 1 /\ p[j - 1] >= Digits
          BY <2>3, <2>5, <4>2 DEF h, IsVarint
        <5>2. h[1 + (j - 1)] = p[j - 1]
          BY <2>3, <2>5, <5>1 DEF h, IsVarint
        <5> QED
          BY <5>1, <5>2
      <4> QED
        BY <4>1, <4>2
    <3>2. h \in Seq(Bytes) /\ Len(h) >= 1 /\ h[Len(h)] = p[Len(p)]
      BY <2>3, <2>5 DEF h, IsVarint
    <3> QED
      BY <2>3, <3>1, <3>2 DEF IsVarint
  <2>8. Uvarint[h] = r + Digits * q
    <3>1. h \in Seq(Bytes) /\ h # <<>>
      BY <2>5, <2>3 DEF h, IsVarint
    <3>2. Uvarint[h] = (Head(h) % Digits) + Digits * Uvarint[Tail(h)]
      BY <3>1, UvarintEquation
    <3> QED
      BY <2>3, <2>4, <2>6, <3>2 DEF h
  <2>9. Digits * q \in Nat
    BY <1>1, <2>1
  <2> QED
    BY <2>1, <2>2, <2>7, <2>8, <2>9 DEF h
<1>4. 0 \in T
  BY <1>1, <1>2
<1>5. ASSUME NEW k \in T
      PROVE  k + 1 \in T
  <2>1. P(k + 1)
    <3>1. CASE k + 1 < Digits
      <4>1. k + 1 \in Nat
        OBVIOUS
      <4> HIDE DEF P, T
      <4> QED
        BY <1>2, <3>1, <4>1
    <3>2. CASE k + 1 >= Digits
      <4>1. k + 1 \in Nat /\ (k + 1) \div Digits \in 0 .. k
        BY <1>1, <3>2, QuotientShrinks
      <4>2. P((k + 1) \div Digits)
        <5> HIDE DEF P
        <5> QED
          BY <4>1
      <4> HIDE DEF P, T
      <4> QED
        BY <1>3, <3>2, <4>1, <4>2
    <3> QED
      BY <1>1, <3>1, <3>2
  <2> HIDE DEF P
  <2> QED
    BY <2>1
<1>6. T = Nat
  <2>1. T \in SUBSET Nat
    OBVIOUS
  <2> HIDE DEF T
  <2> QED
    BY <1>4, <1>5, <2>1, SetInduction
<1> HIDE DEF P
<1>7. P(n)
  BY <1>6
<1> QED
  BY <1>7 DEF P

-------------------------------------------------------------------------------
(* Bytes put one behind the other.                                         *)

(* Two pieces of a stream, one behind the other. *)
LEMMA ConcatFacts ==
  ASSUME NEW S, NEW a \in Seq(S), NEW b \in Seq(S)
  PROVE  /\ a \o b \in Seq(S) /\ Len(a \o b) = Len(a) + Len(b)
         /\ \A i \in 1 .. Len(a) : (a \o b)[i] = a[i]
         /\ \A i \in 1 .. Len(b) : (a \o b)[Len(a) + i] = b[i]
         /\ a \o <<>> = a /\ <<>> \o a = a
  OBVIOUS

(* The length of both. *)
LEMMA ConcatLen ==
  ASSUME NEW S, NEW a \in Seq(S), NEW b \in Seq(S)
  PROVE  a \o b \in Seq(S) /\ Len(a \o b) = Len(a) + Len(b)
  OBVIOUS

(* The first piece comes first. *)
LEMMA ConcatLeft ==
  ASSUME NEW S, NEW a \in Seq(S), NEW b \in Seq(S), NEW i \in 1 .. Len(a)
  PROVE  (a \o b)[i] = a[i]
  OBVIOUS

(* The second piece follows. *)
LEMMA ConcatRight ==
  ASSUME NEW S, NEW a \in Seq(S), NEW b \in Seq(S), NEW i \in 1 .. Len(b)
  PROVE  (a \o b)[Len(a) + i] = b[i]
  OBVIOUS

(* It does not matter which pieces are put together first. *)
LEMMA ConcatAssociates ==
  ASSUME NEW S, NEW a \in Seq(S), NEW b \in Seq(S), NEW c \in Seq(S)
  PROVE  (a \o b) \o c = a \o (b \o c)
  OBVIOUS

(* Two ways to cut the same bytes. *)
Splits(z, l, a, r) == z \o l = a \o r

(* Of two ways to cut the same bytes, the longer begins with the shorter. *)
LEMMA PrefixSplits ==
  ASSUME NEW S, NEW z \in Seq(S), NEW l \in Seq(S), NEW a \in Seq(S), NEW r \in Seq(S),
         Len(z) >= Len(a), Splits(z, l, a, r)
  PROVE  LET t == SubSeq(z, Len(a) + 1, Len(z))
         IN  /\ t \in Seq(S) /\ Len(t) = Len(z) - Len(a)
             /\ z = a \o t /\ t \o l = r /\ SubSeq(z, 1, Len(a)) = a
PROOF
<1> DEFINE t == SubSeq(z, Len(a) + 1, Len(z))
           x == z \o l
           y == a \o r
<1>1. Len(a) \in Nat /\ Len(z) \in Nat /\ Len(l) \in Nat /\ Len(r) \in Nat
  OBVIOUS
<1>2. /\ t \in Seq(S) /\ Len(t) = Len(z) - Len(a)
      /\ \A i \in 1 .. Len(t) : t[i] = z[Len(a) + i]
  BY <1>1
<1>3. /\ Len(x) = Len(z) + Len(l)
      /\ \A i \in 1 .. Len(z) : x[i] = z[i]
      /\ \A i \in 1 .. Len(l) : x[Len(z) + i] = l[i]
  BY ConcatLen, ConcatLeft, ConcatRight
<1>4. /\ Len(y) = Len(a) + Len(r)
      /\ \A i \in 1 .. Len(a) : y[i] = a[i]
      /\ \A i \in 1 .. Len(r) : y[Len(a) + i] = r[i]
  BY ConcatLen, ConcatLeft, ConcatRight
<1>8. x = y
  BY DEF Splits
<1> HIDE DEF t, x, y
<1>5. z = a \o t
  <2>1. /\ a \o t \in Seq(S) /\ Len(a \o t) = Len(z)
        /\ \A i \in 1 .. Len(a) : (a \o t)[i] = a[i]
        /\ \A i \in 1 .. Len(t) : (a \o t)[Len(a) + i] = t[i]
    <3>1. t \in Seq(S) /\ Len(t) = Len(z) - Len(a)
      BY <1>2
    <3> QED
      BY <1>1, <3>1, ConcatLen, ConcatLeft, ConcatRight
  <2>2. ASSUME NEW i \in 1 .. Len(z)
        PROVE  z[i] = (a \o t)[i]
    <3>1. CASE i <= Len(a)
      <4>1. i \in 1 .. Len(a)
        BY <1>1, <3>1
      <4> QED
        BY <1>3, <1>4, <1>8, <2>1, <4>1
    <3>2. CASE i > Len(a)
      <4> DEFINE j == i - Len(a)
      <4>1. j \in 1 .. Len(t) /\ Len(a) + j = i
        BY <1>1, <1>2, <3>2
      <4> HIDE DEF j
      <4>2. z[Len(a) + j] = (a \o t)[Len(a) + j]
        BY <1>2, <2>1, <4>1
      <4> QED
        BY <4>1, <4>2
    <3>3. i <= Len(a) \/ i > Len(a)
      BY <1>1
    <3> QED
      BY <3>1, <3>2, <3>3
  <2> QED
    BY <2>1, <2>2, SeqEqual
<1>6. t \o l = r
  <2>1. /\ t \o l \in Seq(S) /\ Len(t \o l) = Len(t) + Len(l)
        /\ \A i \in 1 .. Len(t) : (t \o l)[i] = t[i]
        /\ \A i \in 1 .. Len(l) : (t \o l)[Len(t) + i] = l[i]
    <3>1. t \in Seq(S)
      BY <1>2
    <3> QED
      BY <3>1, ConcatLen, ConcatLeft, ConcatRight
  <2>3. Len(t \o l) = Len(r)
    <3>1. Len(z) + Len(l) = Len(a) + Len(r) /\ Len(t) = Len(z) - Len(a)
      BY <1>2, <1>3, <1>4, <1>8
    <3>2. Len(t) + Len(l) = Len(r)
      BY <1>1, <3>1
    <3> QED
      BY <2>1, <3>2
  <2>2. ASSUME NEW i \in 1 .. Len(r)
        PROVE  r[i] = (t \o l)[i]
    <3>1. CASE i <= Len(t)
      <4>1. i \in 1 .. Len(t) /\ Len(a) + i \in 1 .. Len(z)
        BY <1>1, <1>2, <3>1
      <4> QED
        BY <1>2, <1>3, <1>4, <1>8, <2>1, <4>1
    <3>2. CASE i > Len(t)
      <4> DEFINE j == i - Len(t)
      <4>1. j \in 1 .. Len(l) /\ Len(t) + j = i /\ Len(z) + j = Len(a) + i
        BY <1>1, <1>2, <1>3, <1>4, <1>8, <3>2
      <4> HIDE DEF j
      <4>2. x[Len(z) + j] = l[j] /\ (t \o l)[Len(t) + j] = l[j]
        BY <1>3, <2>1, <4>1
      <4>3. x[Len(a) + i] = r[i]
        BY <1>4, <1>8
      <4> QED
        BY <4>1, <4>2, <4>3
    <3>3. i <= Len(t) \/ i > Len(t)
      BY <1>1, <1>2
    <3> QED
      BY <3>1, <3>2, <3>3
  <2> QED
    BY <2>1, <2>2, <2>3, SeqEqual
<1>7. SubSeq(z, 1, Len(a)) = a
  <2>1. /\ SubSeq(z, 1, Len(a)) \in Seq(S) /\ Len(SubSeq(z, 1, Len(a))) = Len(a)
        /\ \A i \in 1 .. Len(a) : SubSeq(z, 1, Len(a))[i] = z[i]
    BY <1>1
  <2>2. \A i \in 1 .. Len(a) : z[i] = a[i]
    BY <1>1, <1>3, <1>4, <1>8
  <2> QED
    BY <2>1, <2>2, SeqEqual
<1> QED
  BY <1>2, <1>5, <1>6, <1>7 DEF t

-------------------------------------------------------------------------------
(* StreamInfo.                                                             *)

(* The length in front of a StreamInfo is read as it was written. *)
LEMMA VarintSurvives ==
  ASSUME NEW n \in Nat
  PROVE  IsVarint(PutVarint(n)) /\ Varint(PutVarint(n)) = n
PROOF
<1>1. 2 * n \in Nat /\ (2 * n) % 2 = 0 /\ (2 * n) \div 2 = n
  OBVIOUS
<1>2. IsVarint(PutVarint(n)) /\ Uvarint[PutVarint(n)] = 2 * n
  BY <1>1, UvarintSurvives DEF PutVarint
<1> QED
  BY <1>1, <1>2 DEF Varint

(* ReadStreamLen stops at the last digit of the length, whatever follows. *)
LEMMA VarintFound ==
  ASSUME NEW h \in Seq(Bytes), IsVarint(h), NEW z \in Seq(Bytes), Len(z) >= Len(h),
         \A j \in 1 .. Len(h) : z[j] = h[j]
  PROVE  HasVarint(z) /\ VarintOf(z) = SubSeq(z, 1, Len(h))
PROOF
<1> DEFINE First(i) == z[i] < Digits /\ \A j \in 1 .. i - 1 : z[j] >= Digits
<1>1. /\ h \in Seq(Bytes) /\ Len(h) >= 1 /\ h[Len(h)] < Digits
      /\ \A j \in 1 .. Len(h) - 1 : h[j] >= Digits
  BY DEF IsVarint
<1>2. Len(h) \in 1 .. Len(z) /\ Len(h) \in 1 .. Len(h)
  BY <1>1
<1>3. z[Len(h)] < Digits
  BY <1>1, <1>2
<1>4. First(Len(h))
  BY <1>1, <1>3
<1>5. ASSUME NEW i \in 1 .. Len(z), First(i)
      PROVE  i = Len(h)
  <2>1. \A k \in 1 .. Len(z) : z[k] \in Nat
    BY BaseIsEven DEF Bytes
  <2>2. Digits \in Nat
    BY DigitsHalve
  <2>3. ~(i < Len(h))
    <3>1. ASSUME i < Len(h)
          PROVE  FALSE
      <4>1. i \in 1 .. Len(h) - 1 /\ z[i] = h[i] /\ h[i] >= Digits
        BY <1>1, <3>1
      <4> QED
        BY <1>5, <2>1, <2>2, <4>1
    <3> QED
      BY <3>1
  <2>4. ~(i > Len(h))
    <3>1. ASSUME i > Len(h)
          PROVE  FALSE
      <4>1. Len(h) \in 1 .. i - 1
        BY <1>1, <3>1
      <4>2. z[Len(h)] >= Digits
        BY <1>5, <4>1
      <4> QED
        BY <1>2, <1>3, <2>1, <2>2, <4>2
    <3> QED
      BY <3>1
  <2>5. i \in Nat /\ Len(h) \in Nat
    BY <1>1
  <2> QED
    BY <2>3, <2>4, <2>5
<1>6. (CHOOSE i \in 1 .. Len(z) : First(i)) = Len(h)
  <2> HIDE DEF First
  <2> QED
    BY <1>2, <1>4, <1>5
<1>7. VarintOf(z) = SubSeq(z, 1, Len(h))
  BY <1>6 DEF VarintOf
<1> QED
  BY <1>2, <1>3, <1>7 DEF HasVarint

(* stream.go's ReadStreamInfo and utils' ReadStreamLen: whatever arrived of
   a stream, if its StreamInfo is complete it is the one that was sent, and
   what follows it is what was sent after it. *)
LEMMA InfoArrives ==
  ASSUME NEW info \in Seq(Bytes), NEW r \in Seq(Bytes),
         NEW z \in Seq(Bytes), NEW l \in Seq(Bytes),
         Splits(z, l, PutVarint(Len(info)), info \o r), HasInfo(z)
  PROVE  /\ InfoLen(z) = Len(info) /\ InfoOf(z) = info
         /\ AfterInfo(z) \in Seq(Bytes) /\ AfterInfo(z) \o l = r
PROOF
<1> DEFINE h == PutVarint(Len(info))
           b == info \o r
           t == SubSeq(z, Len(h) + 1, Len(z))
           t2 == SubSeq(t, Len(info) + 1, Len(t))
<1>1. IsVarint(h) /\ Varint(h) = Len(info)
  BY VarintSurvives
<1> HIDE DEF h
<1>2. /\ h \in Seq(Bytes) /\ Len(h) >= 1 /\ h[Len(h)] < Digits
      /\ \A j \in 1 .. Len(h) - 1 : h[j] >= Digits
  BY <1>1 DEF IsVarint
<1>3. b \in Seq(Bytes)
  OBVIOUS
<1>4. Splits(z, l, h, b)
  BY DEF h
<1> HIDE DEF b
<1>5. Len(z) >= Len(h)
  <2>1. PICK i \in 1 .. Len(z) : z[i] < Digits
    BY DEF HasInfo, HasVarint
  <2>2. ASSUME Len(z) < Len(h)
        PROVE  FALSE
    <3>1. i \in 1 .. Len(h) - 1 /\ i \in 1 .. Len(h)
      BY <1>2, <2>2
    <3>2. (z \o l)[i] = z[i]
      BY ConcatLeft
    <3>3. (h \o b)[i] = h[i]
      BY <1>2, <1>3, <3>1, ConcatLeft
    <3>4. z[i] \in Nat /\ Digits \in Nat
      BY DigitsHalve, BaseIsEven DEF Bytes
    <3> QED
      BY <1>2, <1>4, <2>1, <3>1, <3>2, <3>3, <3>4 DEF Splits
  <2> QED
    BY <1>2, <2>2
<1>6. /\ t \in Seq(Bytes) /\ Len(t) = Len(z) - Len(h)
      /\ z = h \o t /\ t \o l = b /\ SubSeq(z, 1, Len(h)) = h
  BY <1>2, <1>3, <1>4, <1>5, PrefixSplits
<1> HIDE DEF t
<1>7. /\ \A j \in 1 .. Len(h) : z[j] = h[j]
      /\ \A j \in 1 .. Len(t) : z[Len(h) + j] = t[j]
  BY <1>2, <1>6, ConcatLeft, ConcatRight
<1>8. VarintOf(z) = h /\ InfoLen(z) = Len(info)
  <2>1. VarintOf(z) = SubSeq(z, 1, Len(h))
    BY <1>1, <1>2, <1>5, <1>7, VarintFound
  <2>2. VarintOf(z) = h
    BY <1>6, <2>1
  <2> QED
    BY <1>1, <2>2 DEF InfoLen
<1>9. t \in Seq(Bytes) /\ Len(t) >= Len(info) /\ Len(t) = Len(z) - Len(h)
  <2>1. Len(z) >= Len(h) + Len(info)
    BY <1>8 DEF HasInfo
  <2>2. t \in Seq(Bytes) /\ Len(t) = Len(z) - Len(h)
    BY <1>6
  <2> QED
    BY <1>2, <2>1, <2>2
<1>10. /\ t2 \in Seq(Bytes) /\ Len(t2) = Len(t) - Len(info)
       /\ t = info \o t2 /\ t2 \o l = r
  <2>1. Splits(t, l, info, r)
    BY <1>6 DEF Splits, b
  <2>2. t \in Seq(Bytes) /\ Len(t) >= Len(info)
    BY <1>9
  <2> QED
    BY <2>1, <2>2, PrefixSplits
<1> HIDE DEF t2
<1>11. /\ \A j \in 1 .. Len(info) : t[j] = info[j]
       /\ \A j \in 1 .. Len(t2) : t[Len(info) + j] = t2[j]
  BY <1>10, ConcatLeft, ConcatRight
<1> DEFINE k == Len(h)
           n == Len(info)
<1>18. t2 \in Seq(Bytes) /\ Len(t2) = Len(t) - Len(info)
  BY <1>10
<1>12. k \in Nat /\ n \in Nat /\ Len(z) \in Nat /\ Len(z) = k + n + Len(t2) /\ Len(t2) \in Nat
  BY <1>2, <1>9, <1>18
<1>13. InfoOf(z) = SubSeq(z, k + 1, k + n) /\ AfterInfo(z) = SubSeq(z, k + n + 1, Len(z))
  BY <1>8 DEF InfoOf, AfterInfo
<1>14. \A j \in 1 .. n : z[k + j] = info[j]
  BY <1>7, <1>9, <1>11
<1>15. \A j \in 1 .. Len(t2) : z[k + n + j] = t2[j]
  <2>1. ASSUME NEW j \in 1 .. Len(t2)
        PROVE  z[k + n + j] = t2[j]
    <3>1. n + j \in 1 .. Len(t)
      BY <1>12, <1>18
    <3>2. z[k + (n + j)] = t[n + j]
      BY <1>7, <3>1
    <3>3. t[n + j] = t2[j]
      BY <1>11
    <3>4. k + n + j = k + (n + j)
      BY <1>12
    <3> QED
      BY <3>2, <3>3, <3>4
  <2> QED
    BY <2>1
<1> HIDE DEF k, n
<1>16. SubSeq(z, k + 1, k + n) = info
  <2>1. /\ SubSeq(z, k + 1, k + n) \in Seq(Bytes) /\ Len(SubSeq(z, k + 1, k + n)) = n
        /\ \A j \in 1 .. n : SubSeq(z, k + 1, k + n)[j] = z[k + j]
    BY <1>12
  <2> QED
    BY <1>14, <2>1, SeqEqual DEF n
<1>17. SubSeq(z, k + n + 1, Len(z)) = t2
  <2> DEFINE u == SubSeq(z, k + n + 1, Len(z))
  <2>1. /\ u \in Seq(Bytes) /\ Len(u) = Len(t2)
        /\ \A j \in 1 .. Len(t2) : u[j] = z[k + n + j]
    BY <1>12
  <2> HIDE DEF u
  <2>2. u = t2
    BY <1>15, <1>18, <2>1, SeqEqual
  <2> QED
    BY <2>2 DEF u
<1> QED
  BY <1>8, <1>10, <1>13, <1>16, <1>17

(* network/stream.go:98 against network/stream.go:77: when what has arrived
   of a stream has a StreamInfo in the eyes of the reader, it is the one that
   was sent, and the messages begin right behind it. *)
THEOREM InfoSurvives ==
  ASSUME NEW info \in Seq(Bytes), NEW r \in Seq(Bytes),
         NEW z \in Seq(Bytes), NEW l \in Seq(Bytes),
         z \o l = PutVarint(Len(info)) \o (info \o r), HasInfo(z)
  PROVE  InfoOf(z) = info /\ AfterInfo(z) \o l = r
PROOF
<1>1. Splits(z, l, PutVarint(Len(info)), info \o r)
  BY DEF Splits
<1> QED
  BY <1>1, InfoArrives

-------------------------------------------------------------------------------
(* Streams of messages.                                                    *)

(* What can be sent, and what is sent without being cut. *)
Messages == Seq(Bytes)
Short == {data \in Messages : Len(data) < UShort}

(* The frames of messages, and the bytes that a client put on a stream. *)
Frames(ms) == [i \in 1 .. Len(ms) |-> WriteStreamByHeader(ms[i])]
Framed(ms) == Flat[Frames(ms)]

(* It does not matter which messages are put together first. *)
LEMMA Regroup ==
  ASSUME NEW a \in Messages, NEW b \in Messages, NEW c \in Messages
  PROVE  (a \o b) \o c = a \o (b \o c)
  BY ConcatAssociates DEF Messages

(* Putting bytes behind bytes. *)
LEMMA MessageConcat ==
  /\ \A a \in Messages : a \o <<>> = a /\ <<>> \o a = a
  /\ \A a, b \in Messages : a \o b \in Messages
  /\ <<>> \in Messages
PROOF
<1>2. \A a \in Messages : a \o <<>> = a /\ <<>> \o a = a
  BY ConcatFacts DEF Messages
<1>3. \A a, b \in Messages : a \o b \in Messages
  BY ConcatLen DEF Messages
<1>4. <<>> \in Messages
  BY DEF Messages
<1> QED
  BY <1>2, <1>3, <1>4

(* Flat by its first message. *)
LEMMA FlatFacts ==
  /\ Flat \in [Seq(Messages) -> Messages]
  /\ Flat[<<>>] = <<>>
  /\ \A ms \in Seq(Messages) : ms # <<>> => Flat[ms] = Head(ms) \o Flat[Tail(ms)]
PROOF
<1>1. Flat[<<>>] = <<>>
  <2>1. <<>> \in Seq(Seq(Bytes))
    OBVIOUS
  <2> QED
    BY <2>1, FlatEquation
<1> QED
  BY <1>1, FlatEquation DEF Messages

(* First and rest of a sequence that grew at its end. *)
LEMMA LastIsHeadOfNone ==
  ASSUME NEW S, NEW s \in Seq(S), NEW x \in S
  PROVE  /\ Append(s, x) \in Seq(S) /\ Append(s, x) # <<>>
         /\ s = <<>> => Head(Append(s, x)) = x /\ Tail(Append(s, x)) = <<>>
         /\ s # <<>> => /\ Tail(s) \in Seq(S) /\ Len(Tail(s)) = Len(s) - 1 /\ Head(s) \in S
                        /\ Head(Append(s, x)) = Head(s)
                        /\ Tail(Append(s, x)) = Append(Tail(s), x)
PROOF
<1>1. Append(s, x) \in Seq(S) /\ Append(s, x) # <<>>
  <2>1. Append(s, x) \in Seq(S) /\ Len(Append(s, x)) = Len(s) + 1 /\ Len(s) \in Nat
    OBVIOUS
  <2>2. Len(<<>>) = 0
    OBVIOUS
  <2>3. Len(Append(s, x)) # 0
    BY <2>1
  <2> QED
    BY <2>1, <2>2, <2>3
<1>2. s = <<>> => Head(Append(s, x)) = x /\ Tail(Append(s, x)) = <<>>
  OBVIOUS
<1>3. s # <<>> => /\ Tail(s) \in Seq(S) /\ Len(Tail(s)) = Len(s) - 1 /\ Head(s) \in S
                  /\ Head(Append(s, x)) = Head(s)
  OBVIOUS
<1>4. s # <<>> => Tail(Append(s, x)) = Append(Tail(s), x)
  OBVIOUS
<1> QED
  BY <1>1, <1>2, <1>3, <1>4

(* A message more at the end adds its bytes at the end. *)
LEMMA FlatAppend ==
  ASSUME NEW ms \in Seq(Messages), NEW x \in Messages
  PROVE  Flat[Append(ms, x)] = Flat[ms] \o x
PROOF
<1> DEFINE P(s) == Flat[Append(s, x)] = Flat[s] \o x
           T == {n \in Nat : \A s \in Seq(Messages) : Len(s) = n => P(s)}
<1>1. /\ Flat \in [Seq(Messages) -> Messages] /\ Flat[<<>>] = <<>>
      /\ \A s \in Seq(Messages) : s # <<>> => Flat[s] = Head(s) \o Flat[Tail(s)]
  BY FlatFacts
<1>2. 0 \in T
  <2>1. ASSUME NEW s \in Seq(Messages), Len(s) = 0
        PROVE  P(s)
    <3>1. s = <<>>
      BY <2>1
    <3>2. /\ Append(s, x) \in Seq(Messages) /\ Append(s, x) # <<>>
          /\ Head(Append(s, x)) = x /\ Tail(Append(s, x)) = <<>>
      BY <3>1, LastIsHeadOfNone
    <3>3. Flat[Append(s, x)] = x \o Flat[<<>>]
      BY <1>1, <3>2
    <3>4. x \o <<>> = x /\ <<>> \o x = x
      BY MessageConcat
    <3> QED
      BY <1>1, <3>1, <3>3, <3>4
  <2> HIDE DEF P
  <2> QED
    BY <2>1
<1>3. ASSUME NEW n \in T
      PROVE  n + 1 \in T
  <2>1. ASSUME NEW s \in Seq(Messages), Len(s) = n + 1
        PROVE  P(s)
    <3>1. s # <<>>
      BY <2>1
    <3>2. /\ Append(s, x) \in Seq(Messages) /\ Append(s, x) # <<>>
          /\ Tail(s) \in Seq(Messages) /\ Head(s) \in Messages
          /\ Head(Append(s, x)) = Head(s) /\ Tail(Append(s, x)) = Append(Tail(s), x)
          /\ Len(Tail(s)) = n
      BY <2>1, <3>1, LastIsHeadOfNone
    <3>3. Flat[Append(s, x)] = Head(s) \o Flat[Append(Tail(s), x)]
      BY <1>1, <3>2
    <3>4. Flat[Append(Tail(s), x)] = Flat[Tail(s)] \o x
      BY <3>2
    <3>5. Head(s) \o (Flat[Tail(s)] \o x) = (Head(s) \o Flat[Tail(s)]) \o x
      <4> DEFINE u == Head(s)
                 v == Flat[Tail(s)]
      <4>1. u \in Messages /\ v \in Messages
        BY <1>1, <3>2
      <4> HIDE DEF u, v
      <4>2. (u \o v) \o x = u \o (v \o x)
        BY <4>1, Regroup, Zenon
      <4> QED
        BY <4>2 DEF u, v
    <3>6. Flat[s] = Head(s) \o Flat[Tail(s)]
      BY <1>1, <3>1
    <3> QED
      BY <3>3, <3>4, <3>5, <3>6
  <2> HIDE DEF P
  <2> QED
    BY <2>1
<1>4. T = Nat
  <2>1. T \in SUBSET Nat
    OBVIOUS
  <2> HIDE DEF T
  <2> QED
    BY <1>2, <1>3, <2>1, SetInduction
<1>5. Len(ms) \in T
  BY <1>4
<1> QED
  BY <1>5

(* What WriteStreamByHeader writes of any message are bytes. *)
LEMMA WriteIsBytes ==
  ASSUME NEW data \in Messages
  PROVE  WriteStreamByHeader(data) \in Messages
PROOF
<1>1. Len(data) \in Nat /\ Base \in Nat /\ Base > 0
  BY BaseIsEven DEF Messages
<1>2. (Len(data) \div Base) % Base \in Bytes /\ Len(data) % Base \in Bytes
  <2>1. Len(data) \div Base \in Int
    BY <1>1
  <2> QED
    BY <1>1, <2>1 DEF Bytes
<1>3. PutUint16(Len(data)) \in Seq(Bytes)
  BY <1>2 DEF PutUint16
<1> QED
  BY <1>3 DEF WriteStreamByHeader, Messages

(* The frames of a sequence of messages, one by one. *)
LEMMA FramesOf ==
  ASSUME NEW ms \in Seq(Messages)
  PROVE  /\ Frames(ms) \in Seq(Messages) /\ Len(Frames(ms)) = Len(ms)
         /\ ms = <<>> => Frames(ms) = <<>>
         /\ ms # <<>> => /\ Frames(ms) # <<>>
                         /\ Head(Frames(ms)) = WriteStreamByHeader(Head(ms))
                         /\ Tail(Frames(ms)) = Frames(Tail(ms))
PROOF
<1>1. \A i \in 1 .. Len(ms) : WriteStreamByHeader(ms[i]) \in Messages
  BY WriteIsBytes
<1>2. Frames(ms) \in Seq(Messages) /\ Len(Frames(ms)) = Len(ms)
  BY <1>1 DEF Frames
<1>3. ASSUME ms # <<>>
      PROVE  /\ Frames(ms) # <<>>
             /\ Head(Frames(ms)) = WriteStreamByHeader(Head(ms))
             /\ Tail(Frames(ms)) = Frames(Tail(ms))
  <2>1. /\ Tail(ms) \in Seq(Messages) /\ Len(Tail(ms)) = Len(ms) - 1 /\ Len(ms) \in Nat \ {0}
        /\ \A i \in 1 .. Len(ms) - 1 : Tail(ms)[i] = ms[i + 1]
    BY <1>3
  <2>2. /\ Frames(Tail(ms)) \in Seq(Messages) /\ Len(Frames(Tail(ms))) = Len(ms) - 1
        /\ \A i \in 1 .. Len(ms) - 1 :
             Frames(Tail(ms))[i] = WriteStreamByHeader(Tail(ms)[i])
    <3>1. \A i \in 1 .. Len(Tail(ms)) : WriteStreamByHeader(Tail(ms)[i]) \in Messages
      BY <2>1, WriteIsBytes
    <3> QED
      BY <2>1, <3>1 DEF Frames
  <2>3. Frames(ms) # <<>> /\ Head(Frames(ms)) = WriteStreamByHeader(Head(ms))
    BY <1>2, <2>1 DEF Frames
  <2>4. /\ Tail(Frames(ms)) \in Seq(Messages) /\ Len(Tail(Frames(ms))) = Len(ms) - 1
        /\ \A i \in 1 .. Len(ms) - 1 : Tail(Frames(ms))[i] = Frames(ms)[i + 1]
    BY <1>2, <2>1, <2>3
  <2>5. \A i \in 1 .. Len(ms) - 1 : Tail(Frames(ms))[i] = Frames(Tail(ms))[i]
    <3>1. ASSUME NEW i \in 1 .. Len(ms) - 1
          PROVE  Frames(ms)[i + 1] = WriteStreamByHeader(ms[i + 1])
      <4>1. i + 1 \in 1 .. Len(ms)
        BY <2>1
      <4> QED
        BY <4>1 DEF Frames
    <3> QED
      BY <2>1, <2>2, <2>4, <3>1
  <2>6. Tail(Frames(ms)) = Frames(Tail(ms))
    BY <2>2, <2>4, <2>5, SeqEqual
  <2> QED
    BY <2>3, <2>6
<1>4. ms = <<>> => Frames(ms) = <<>>
  BY <1>2
<1> QED
  BY <1>2, <1>3, <1>4

(* The bytes of framed messages, by the first message. *)
LEMMA FramedFacts ==
  /\ \A ms \in Seq(Messages) : Framed(ms) \in Messages
  /\ Framed(<<>>) = <<>>
  /\ \A ms \in Seq(Messages) :
       ms # <<>> => Framed(ms) = WriteStreamByHeader(Head(ms)) \o Framed(Tail(ms))
PROOF
<1>1. /\ Flat \in [Seq(Messages) -> Messages] /\ Flat[<<>>] = <<>>
      /\ \A s \in Seq(Messages) : s # <<>> => Flat[s] = Head(s) \o Flat[Tail(s)]
  BY FlatFacts
<1>2. \A ms \in Seq(Messages) : Framed(ms) \in Messages
  BY <1>1, FramesOf DEF Framed
<1>3. Framed(<<>>) = <<>>
  <2>1. <<>> \in Seq(Messages)
    OBVIOUS
  <2>2. Frames(<<>>) = <<>>
    BY <2>1, FramesOf
  <2> QED
    BY <1>1, <2>2 DEF Framed
<1>4. ASSUME NEW ms \in Seq(Messages), ms # <<>>
      PROVE  Framed(ms) = WriteStreamByHeader(Head(ms)) \o Framed(Tail(ms))
  BY <1>1, <1>4, FramesOf DEF Framed
<1> QED
  BY <1>2, <1>3, <1>4

(* A Send adds a frame at the end of what is framed. *)
LEMMA FramedAppend ==
  ASSUME NEW ms \in Seq(Messages), NEW x \in Messages
  PROVE  Framed(Append(ms, x)) = Framed(ms) \o WriteStreamByHeader(x)
PROOF
<1> DEFINE a == Append(ms, x)
<1>1. a \in Seq(Messages) /\ Len(a) = Len(ms) + 1
  OBVIOUS
<1>2. /\ \A i \in 1 .. Len(ms) : a[i] = ms[i]
      /\ a[Len(ms) + 1] = x
  OBVIOUS
<1>3. Frames(a) \in Seq(Messages) /\ Frames(ms) \in Seq(Messages) /\ Len(Frames(ms)) = Len(ms)
  BY <1>1, FramesOf
<1>4. WriteStreamByHeader(x) \in Messages
  BY WriteIsBytes
<1> HIDE DEF a
<1>5. Frames(a) = Append(Frames(ms), WriteStreamByHeader(x))
  <2> DEFINE b == Append(Frames(ms), WriteStreamByHeader(x))
  <2>1. b \in Seq(Messages) /\ Len(b) = Len(ms) + 1
    BY <1>3, <1>4
  <2>2. \A i \in 1 .. Len(ms) : b[i] = Frames(ms)[i]
    BY <1>3, <1>4
  <2>3. b[Len(ms) + 1] = WriteStreamByHeader(x)
    BY <1>3, <1>4
  <2> HIDE DEF b
  <2>4. Len(Frames(a)) = Len(ms) + 1
    BY <1>1, FramesOf
  <2>5. ASSUME NEW i \in 1 .. Len(ms) + 1
        PROVE  Frames(a)[i] = b[i]
    <3>1. Frames(a)[i] = WriteStreamByHeader(a[i])
      BY <1>1 DEF Frames
    <3>2. CASE i = Len(ms) + 1
      BY <1>2, <2>3, <3>1, <3>2
    <3>3. CASE i \in 1 .. Len(ms)
      <4>1. Frames(ms)[i] = WriteStreamByHeader(ms[i])
        BY <3>3 DEF Frames
      <4> QED
        BY <1>2, <2>2, <3>1, <3>3, <4>1
    <3>4. i = Len(ms) + 1 \/ i \in 1 .. Len(ms)
      OBVIOUS
    <3> QED
      BY <3>2, <3>3, <3>4
  <2>6. Frames(a) = b
    BY <1>3, <2>1, <2>4, <2>5, SeqEqual
  <2> QED
    BY <2>6 DEF b
<1> QED
  BY <1>3, <1>4, <1>5, FlatAppend DEF Framed, a

(* stream.go:126 against utils/stream.go:28 for a whole stream: a reader of
   whole messages makes of framed messages just their bytes; one that is
   empty leaves no trace. *)
THEOREM UnframedFramed ==
  ASSUME NEW ms \in Seq(Short)
  PROVE  Unframed[Framed(ms)] = Flat[ms]
PROOF
<1> DEFINE P(s) == Unframed[Framed(s)] = Flat[s]
           T == {n \in Nat : \A s \in Seq(Short) : Len(s) = n => P(s)}
<1>1. \A s \in Seq(Short) : s \in Seq(Messages)
  BY DEF Short
<1>2. 0 \in T
  <2>1. ASSUME NEW s \in Seq(Short), Len(s) = 0
        PROVE  P(s)
    <3>1. s = <<>>
      BY <2>1
    <3>2. <<>> \in Seq(Bytes) /\ ~HasMessage(<<>>)
      BY DEF HasMessage
    <3>3. Unframed[<<>>] = <<>>
      BY <3>2, UnframedEquation
    <3> QED
      BY <3>1, <3>3, FramedFacts, FlatFacts
  <2> HIDE DEF P
  <2> QED
    BY <2>1
<1>3. ASSUME NEW n \in T
      PROVE  n + 1 \in T
  <2>1. ASSUME NEW s \in Seq(Short), Len(s) = n + 1
        PROVE  P(s)
    <3> DEFINE m == Head(s)
               t == Tail(s)
               w == Framed(t)
    <3>1. s # <<>> /\ s \in Seq(Messages)
      BY <1>1, <2>1
    <3>2. t \in Seq(Short) /\ Len(t) = n /\ m \in Short
      BY <2>1
    <3>3. t \in Seq(Messages) /\ m \in Messages /\ Len(m) < UShort
      BY <1>1, <3>2 DEF Short
    <3>4. Unframed[w] = Flat[t]
      BY <3>2
    <3>5. Framed(s) = WriteStreamByHeader(m) \o w /\ Flat[s] = m \o Flat[t]
      BY <3>1, FramedFacts, FlatFacts
    <3>6. w \in Messages /\ Flat[t] \in Messages
      BY <3>3, FramedFacts, FlatFacts
    <3> HIDE DEF m, t, w, P, T
    <3>7. Unframed[Framed(s)] = Flat[s]
      <4>1. CASE m = <<>>
        <5>1. WriteStreamByHeader(m) = <<>>
          BY <4>1 DEF WriteStreamByHeader
        <5>2. <<>> \o w = w /\ <<>> \o Flat[t] = Flat[t]
          BY <3>6, MessageConcat
        <5> QED
          BY <3>4, <3>5, <4>1, <5>1, <5>2
      <4>2. CASE m # <<>>
        <5> DEFINE v == WriteStreamByHeader(m) \o w
        <5>1. HasMessage(v) /\ MessageOf(v) = m /\ AfterMessage(v) = w
          BY <3>3, <3>6, <4>2, MessageSurvives DEF Messages
        <5>2. v \in Seq(Bytes)
          BY <3>3, <3>6, WriteIsBytes, MessageConcat DEF Messages
        <5>3. Unframed[v] = m \o Unframed[w]
          <6> HIDE DEF v
          <6> QED
            BY <5>1, <5>2, UnframedEquation
        <5> QED
          BY <3>4, <3>5, <5>3
      <4> QED
        BY <4>1, <4>2
    <3> QED
      BY <3>7 DEF P
  <2> HIDE DEF P
  <2> QED
    BY <2>1
<1>4. T = Nat
  <2>1. T \in SUBSET Nat
    OBVIOUS
  <2> HIDE DEF T
  <2> QED
    BY <1>2, <1>3, <2>1, SetInduction
<1>5. Len(ms) \in T
  BY <1>4
<1> QED
  BY <1>5

(* What ReadStreamByHeader takes off a stream, and what it leaves. *)
Takes(w, l, ms) ==
  \E rest \in Seq(Short) :
    /\ MessageOf(w) # <<>>
    /\ MessageOf(w) \o Flat[rest] = Flat[ms]
    /\ AfterMessage(w) \o l = Framed(rest)

(* Of whatever has arrived of framed messages, the reader takes the first
   that is not empty, and goes on at the next. *)
LEMMA ReadTakes ==
  ASSUME NEW ms \in Seq(Short), NEW w \in Messages, NEW l \in Messages,
         w \o l = Framed(ms), HasMessage(w)
  PROVE  Takes(w, l, ms)
PROOF
<1> DEFINE P(s) == w \o l = Framed(s) => Takes(w, l, s)
           T == {n \in Nat : \A s \in Seq(Short) : Len(s) = n => P(s)}
<1>1. \A s \in Seq(Short) : s \in Seq(Messages)
  BY DEF Short
<1>2. 0 \in T
  <2>1. ASSUME NEW s \in Seq(Short), Len(s) = 0
        PROVE  P(s)
    <3>1. s = <<>>
      BY <2>1
    <3>2. Len(w) >= 2
      BY DEF HasMessage
    <3>3. w \o l # <<>>
      <4>1. Len(w \o l) = Len(w) + Len(l) /\ Len(l) \in Nat
        BY ConcatLen DEF Messages
      <4>2. Len(w \o l) # 0
        BY <3>2, <4>1
      <4> QED
        BY <4>2
    <3> QED
      BY <3>1, <3>3, FramedFacts
  <2> HIDE DEF P
  <2> QED
    BY <2>1
<1>3. ASSUME NEW n \in T
      PROVE  n + 1 \in T
  <2>1. ASSUME NEW s \in Seq(Short), Len(s) = n + 1
        PROVE  P(s)
    <3> DEFINE m == Head(s)
               t == Tail(s)
               f == WriteStreamByHeader(m)
    <3>1. s # <<>> /\ s \in Seq(Messages)
      BY <1>1, <2>1
    <3>2. t \in Seq(Short) /\ Len(t) = n /\ m \in Short
      BY <2>1
    <3>3. t \in Seq(Messages) /\ m \in Messages /\ Len(m) < UShort
      BY <1>1, <3>2 DEF Short
    <3>4. w \o l = Framed(t) => Takes(w, l, t)
      BY <3>2
    <3>5. Framed(s) = f \o Framed(t) /\ Flat[s] = m \o Flat[t]
      BY <3>1, FramedFacts, FlatFacts
    <3>6. Framed(t) \in Messages /\ Flat[t] \in Messages /\ f \in Messages
      BY <3>3, FramedFacts, FlatFacts, WriteIsBytes
    <3> HIDE DEF m, t, P, T
    <3>7. ASSUME Splits(w, l, f, Framed(t))
          PROVE  Takes(w, l, s)
      <4>1. CASE m = <<>>
        <5>1. f = <<>>
          BY <4>1 DEF WriteStreamByHeader
        <5>2. <<>> \o Framed(t) = Framed(t) /\ <<>> \o Flat[t] = Flat[t]
          BY <3>6, MessageConcat
        <5>3. Takes(w, l, t) /\ Flat[s] = Flat[t]
          BY <3>4, <3>5, <3>7, <4>1, <5>1, <5>2 DEF Splits
        <5> QED
          BY <5>3 DEF Takes
      <4>2. CASE m # <<>>
        <5> HIDE DEF f
        <5>1. Len(f) = 2 + Len(m) /\ Len(m) \in Nat /\ Len(w) \in Nat
          BY <3>3, <4>2, FrameIsHeaderAndData DEF Messages, f
        <5>2. CASE Len(w) >= Len(f)
          <6> DEFINE v == SubSeq(w, Len(f) + 1, Len(w))
          <6>1. v \in Messages /\ w = f \o v /\ v \o l = Framed(t)
            <7> DEFINE k == Framed(t)
            <7>1. w \in Seq(Bytes) /\ l \in Seq(Bytes) /\ f \in Seq(Bytes) /\ k \in Seq(Bytes)
              BY <3>6 DEF Messages
            <7>2. Splits(w, l, f, k)
              BY <3>7
            <7> HIDE DEF k
            <7>3. v \in Seq(Bytes) /\ w = f \o v /\ v \o l = k
              BY <5>2, <7>1, <7>2, PrefixSplits
            <7> QED
              BY <7>3 DEF Messages, k
          <6> HIDE DEF v
          <6>2. MessageOf(w) = m /\ AfterMessage(w) = v
            BY <3>3, <4>2, <6>1, MessageSurvives DEF Messages, f
          <6> QED
            BY <3>2, <3>5, <4>2, <6>1, <6>2 DEF Takes
        <5>3. CASE Len(w) < Len(f)
          <6> DEFINE k == Len(w)
          <6>1. k \in 0 .. 1 + Len(m)
            BY <5>1, <5>3
          <6>2. Len(f) >= k /\ Splits(f, Framed(t), w, l)
            BY <3>7, <5>1, <5>3 DEF Splits
          <6>3. SubSeq(f, 1, k) = w
            BY <3>6, <6>2, PrefixSplits DEF Messages
          <6>4. ~HasMessage(SubSeq(WriteStreamByHeader(m), 1, k))
            BY <3>3, <4>2, <6>1, CutMessageIsNone DEF Messages
          <6> QED
            BY <6>3, <6>4 DEF f
        <5> QED
          BY <5>1, <5>2, <5>3
      <4> QED
        BY <4>1, <4>2
    <3> QED
      BY <3>5, <3>7 DEF P, Splits
  <2> HIDE DEF P
  <2> QED
    BY <2>1
<1>4. T = Nat
  <2>1. T \in SUBSET Nat
    OBVIOUS
  <2> HIDE DEF T
  <2> QED
    BY <1>2, <1>3, <2>1, SetInduction
<1>5. Len(ms) \in T
  BY <1>4
<1> QED
  BY <1>5

-------------------------------------------------------------------------------
(* What is under way on a stream.                                          *)

(* A stream with its StreamInfo: CreateStream, and what Send wrote behind it. *)
Announced(ms) == PutVarint(Len(Info)) \o (Info \o Framed(ms))

(* A Send before the server has read StreamInfo. *)
LEMMA AnnouncedAppend ==
  ASSUME NEW ms \in Seq(Messages), NEW x \in Messages
  PROVE  /\ Announced(ms) \in Messages
         /\ Announced(Append(ms, x)) = Announced(ms) \o WriteStreamByHeader(x)
PROOF
<1> DEFINE h == PutVarint(Len(Info))
           i == Info
           u == Framed(ms)
           f == WriteStreamByHeader(x)
           e == i \o u
           g == u \o f
<1>1. h \in Messages /\ i \in Messages
  <2>1. Len(Info) \in Nat
    BY InfoFits
  <2> QED
    BY <2>1, InfoFits, VarintSurvives DEF IsVarint, Messages
<1>2. u \in Messages /\ f \in Messages
  BY FramedFacts, WriteIsBytes
<1>3. Framed(Append(ms, x)) = g
  BY FramedAppend
<1>4. Announced(ms) = h \o e /\ Announced(Append(ms, x)) = h \o (i \o g)
  BY <1>3 DEF Announced
<1> HIDE DEF h, i, u, f
<1>5. e \in Messages
  BY <1>1, <1>2, MessageConcat
<1>6. e \o f = i \o g
  BY <1>1, <1>2, Regroup
<1> HIDE DEF e, g
<1>12. h \in Messages /\ e \in Messages /\ f \in Messages
  BY <1>1, <1>2, <1>5
<1>7. (h \o e) \o f = h \o (e \o f)
  BY <1>12, Regroup, Zenon
<1>8. h \o e \in Messages
  BY <1>1, <1>5, MessageConcat
<1>9. Announced(ms) \in Messages
  BY <1>4, <1>8
<1>10. Announced(Append(ms, x)) = Announced(ms) \o f
  BY <1>4, <1>6, <1>7
<1> QED
  BY <1>9, <1>10 DEF f

(* w has arrived of r, and all of it while the client's end is open. *)
OnItsWay(w, cl, r) ==
  \E lost \in Messages : (cl = "open" => lost = <<>>) /\ w \o lost = r

(* One channel: w under way, client's end cl, s sent, its reader at r and x
   in the hands of the server.  What was sent is x and what the reader will
   make of w and of what is lost. *)
Carried(w, cl, s, r, x) ==
  (\A i \in DOMAIN s : Len(s[i]) < UShort) =>
    /\ r = "info" =>
         x = <<>> /\ OnItsWay(w, cl, Announced(s))
    /\ r \in {"read", "offer"} =>
         \E rest \in Seq(Short) : OnItsWay(w, cl, Framed(rest)) /\ x \o Flat[rest] = Flat[s]
    /\ \E y \in Messages : x \o y = Flat[s]

(* Messages that are not cut, as a type. *)
LEMMA ShortOnes ==
  ASSUME NEW s \in Seq(Messages), \A i \in DOMAIN s : Len(s[i]) < UShort
  PROVE  s \in Seq(Short)
PROOF
<1>1. \A i \in 1 .. Len(s) : s[i] \in Short
  BY DEF Short
<1> QED
  BY <1>1

(* Losing the end of what was under way. *)
LEMMA OnItsWayCut ==
  ASSUME NEW v \in Messages, NEW k \in Messages, NEW cl, NEW r, OnItsWay(v \o k, cl, r)
  PROVE  OnItsWay(v, "ended", r)
PROOF
<1>1. PICK lost \in Messages : (v \o k) \o lost = r
  BY DEF OnItsWay
<1>2. k \o lost \in Messages
  BY MessageConcat
<1>3. (v \o k) \o lost = v \o (k \o lost)
  BY Regroup
<1>4. v \o (k \o lost) = r
  BY <1>1, <1>3
<1> QED
  BY <1>2, <1>4 DEF OnItsWay

(* The stream ends and loses what was under way: End, ClearSlot, CloseConn. *)
LEMMA CarriedCut ==
  ASSUME NEW v \in Messages, NEW k \in Messages, NEW cl, NEW s, NEW r, NEW x,
         Carried(v \o k, cl, s, r, x)
  PROVE  Carried(v, "ended", s, r, x)
  BY OnItsWayCut DEF Carried

(* The reader leaves: nothing is promised of the stream any more. *)
LEMMA CarriedLeaves ==
  ASSUME NEW w, NEW cl, NEW s, NEW r, NEW x, Carried(w, cl, s, r, x),
         NEW v, NEW c, NEW q, q \notin {"info", "read", "offer"}
  PROVE  Carried(v, c, s, q, x)
  BY DEF Carried

(* CreateStream: the StreamInfo alone is under way. *)
LEMMA CarriedOpens ==
  Carried(PutVarint(Len(Info)) \o Info, "open", <<>>, "info", <<>>)
PROOF
<1>1. PutVarint(Len(Info)) \in Messages /\ Info \in Messages
  <2>1. Len(Info) \in Nat
    BY InfoFits
  <2> QED
    BY <2>1, InfoFits, VarintSurvives DEF IsVarint, Messages
<1>2. Framed(<<>>) = <<>> /\ Flat[<<>>] = <<>>
  BY FramedFacts, FlatFacts
<1>3. Info \o <<>> = Info
  BY <1>1, MessageConcat
<1>4. PutVarint(Len(Info)) \o Info \in Messages
  BY <1>1, MessageConcat
<1>5. (PutVarint(Len(Info)) \o Info) \o <<>> = PutVarint(Len(Info)) \o Info
  BY <1>4, MessageConcat
<1>6. OnItsWay(PutVarint(Len(Info)) \o Info, "open", Announced(<<>>))
  <2>1. Announced(<<>>) = PutVarint(Len(Info)) \o Info
    BY <1>2, <1>3 DEF Announced
  <2> QED
    BY <1>5, <2>1, MessageConcat DEF OnItsWay
<1>7. <<>> \o <<>> = Flat[<<>>] /\ <<>> \in Messages
  BY <1>2, MessageConcat
<1> QED
  BY <1>6, <1>7 DEF Carried

(* A write behind what is under way, while the stream is open. *)
LEMMA OnItsWaySends ==
  ASSUME NEW w \in Messages, NEW r \in Messages, NEW d \in Messages, OnItsWay(w, "open", r)
  PROVE  OnItsWay(w \o d, "open", r \o d)
PROOF
<1>1. w = r
  BY MessageConcat DEF OnItsWay
<1>2. w \o d \in Messages /\ (w \o d) \o <<>> = w \o d /\ <<>> \in Messages
  BY MessageConcat
<1> QED
  BY <1>1, <1>2 DEF OnItsWay

(* Send: the message is on its way behind the others. *)
LEMMA CarriedSends ==
  ASSUME NEW w \in Messages, NEW s \in Seq(Messages), NEW r, NEW x \in Messages,
         NEW d \in Messages, Carried(w, "open", s, r, x)
  PROVE  Carried(w \o WriteStreamByHeader(d), "open", Append(s, d), r, x)
PROOF
<1> DEFINE f == WriteStreamByHeader(d)
           a == Append(s, d)
<1>1. f \in Messages /\ a \in Seq(Messages)
  BY WriteIsBytes
<1>2. Framed(s) \in Messages /\ Flat[s] \in Messages
  BY FramedFacts, FlatFacts
<1>3. Framed(a) = Framed(s) \o f /\ Flat[a] = Flat[s] \o d
  BY FramedAppend, FlatAppend
<1>4. ASSUME \A i \in DOMAIN a : Len(a[i]) < UShort
      PROVE  (\A i \in DOMAIN s : Len(s[i]) < UShort) /\ d \in Short
  <2>1. Len(a) = Len(s) + 1 /\ a[Len(s) + 1] = d /\ \A i \in 1 .. Len(s) : a[i] = s[i]
    OBVIOUS
  <2>2. \A i \in 1 .. Len(s) + 1 : Len(a[i]) < UShort
    BY <1>1, <1>4, <2>1
  <2> HIDE DEF a
  <2>3. Len(d) < UShort
    BY <2>1, <2>2
  <2>4. \A i \in 1 .. Len(s) : Len(s[i]) < UShort
    BY <2>1, <2>2
  <2> QED
    BY <2>3, <2>4 DEF Short
<1> HIDE DEF f, a
<1>5. ASSUME r = "info", x = <<>>, OnItsWay(w, "open", Announced(s))
      PROVE  OnItsWay(w \o f, "open", Announced(a))
  <2>1. Announced(s) \in Messages /\ Announced(a) = Announced(s) \o f
    BY AnnouncedAppend DEF f, a
  <2> QED
    BY <1>1, <1>5, <2>1, OnItsWaySends
<1>6. ASSUME NEW rest \in Seq(Short), OnItsWay(w, "open", Framed(rest)),
             x \o Flat[rest] = Flat[s], d \in Short
      PROVE  \E q \in Seq(Short) :
               OnItsWay(w \o f, "open", Framed(q)) /\ x \o Flat[q] = Flat[a]
  <2>1. rest \in Seq(Messages)
    BY DEF Short
  <2>2. Append(rest, d) \in Seq(Short)
    BY <1>6
  <2>3. Framed(rest) \in Messages /\ Flat[rest] \in Messages
    BY <2>1, FramedFacts, FlatFacts
  <2>4. Framed(Append(rest, d)) = Framed(rest) \o f /\ Flat[Append(rest, d)] = Flat[rest] \o d
    BY <2>1, FramedAppend, FlatAppend DEF f
  <2>5. OnItsWay(w \o f, "open", Framed(rest) \o f)
    BY <1>1, <1>6, <2>3, OnItsWaySends
  <2> DEFINE u == Flat[rest]
  <2>8. u \in Messages
    BY <2>3
  <2> HIDE DEF u
  <2>6. (x \o u) \o d = x \o (u \o d)
    <3>1. x \in Messages /\ u \in Messages /\ d \in Messages
      BY <2>8
    <3> QED
      BY <3>1, Regroup, Zenon
  <2>7. x \o Flat[Append(rest, d)] = Flat[a]
    BY <1>3, <1>6, <2>4, <2>6 DEF u
  <2> QED
    BY <2>2, <2>4, <2>5, <2>7
<1>7. ASSUME NEW y \in Messages, x \o y = Flat[s]
      PROVE  \E q \in Messages : x \o q = Flat[a]
  <2>1. x \o (y \o d) = (x \o y) \o d
    BY Regroup
  <2>2. y \o d \in Messages
    BY MessageConcat
  <2> QED
    BY <1>3, <1>7, <2>1, <2>2
<1>8. Carried(w \o f, "open", a, r, x)
  BY <1>4, <1>5, <1>6, <1>7 DEF Carried
<1> QED
  BY <1>8 DEF f, a

(* processStream takes the StreamInfo off the stream, and nothing else. *)
LEMMA CarriedAccepts ==
  ASSUME NEW w \in Messages, NEW cl, NEW s \in Seq(Messages), NEW x,
         Carried(w, cl, s, "info", x), HasInfo(w)
  PROVE  Carried(AfterInfo(w), cl, s, "read", x)
PROOF
<1>1. Framed(s) \in Messages /\ Flat[s] \in Messages
  BY FramedFacts, FlatFacts
<1>2. SUFFICES ASSUME \A i \in DOMAIN s : Len(s[i]) < UShort
               PROVE  /\ OnItsWay(AfterInfo(w), cl, Framed(s)) /\ x \o Flat[s] = Flat[s]
                      /\ s \in Seq(Short)
  BY <1>1 DEF Carried
<1>3. x = <<>> /\ OnItsWay(w, cl, PutVarint(Len(Info)) \o (Info \o Framed(s)))
  BY <1>2 DEF Carried, Announced
<1>4. PICK lost \in Messages :
        (cl = "open" => lost = <<>>) /\ w \o lost = PutVarint(Len(Info)) \o (Info \o Framed(s))
  BY <1>3 DEF OnItsWay
<1>5. Splits(w, lost, PutVarint(Len(Info)), Info \o Framed(s))
  BY <1>4 DEF Splits
<1>6. AfterInfo(w) \o lost = Framed(s)
  BY <1>1, <1>5, InfoFits, InfoArrives DEF Messages
<1>7. OnItsWay(AfterInfo(w), cl, Framed(s))
  BY <1>4, <1>6 DEF OnItsWay
<1>8. s \in Seq(Short)
  BY <1>2, ShortOnes
<1>9. x \o Flat[s] = Flat[s]
  BY <1>1, <1>3, MessageConcat
<1> QED
  BY <1>7, <1>8, <1>9

(* The reader of the channel takes one message off the stream. *)
LEMMA CarriedReads ==
  ASSUME NEW w \in Messages, NEW cl, NEW s \in Seq(Messages), NEW x \in Messages,
         Carried(w, cl, s, "read", x), HasMessage(w)
  PROVE  Carried(AfterMessage(w), cl, s,
                 IF MessageOf(w) = <<>> THEN "exit" ELSE "offer", x \o MessageOf(w))
PROOF
<1> DEFINE m == MessageOf(w)
<1>1. m \in Messages
  BY MessageParts DEF Messages
<1> SUFFICES ASSUME \A i \in DOMAIN s : Len(s[i]) < UShort
             PROVE  \E q \in Seq(Short) : /\ OnItsWay(AfterMessage(w), cl, Framed(q))
                                          /\ (x \o m) \o Flat[q] = Flat[s]
                                          /\ Flat[q] \in Messages
  BY DEF Carried
<1>2. PICK rest \in Seq(Short) : OnItsWay(w, cl, Framed(rest)) /\ x \o Flat[rest] = Flat[s]
  BY DEF Carried
<1>3. PICK lost \in Messages : (cl = "open" => lost = <<>>) /\ w \o lost = Framed(rest)
  BY <1>2 DEF OnItsWay
<1>4. Takes(w, lost, rest)
  BY <1>3, ReadTakes
<1>5. PICK q \in Seq(Short) :
        m \o Flat[q] = Flat[rest] /\ AfterMessage(w) \o lost = Framed(q)
  BY <1>4 DEF Takes
<1> HIDE DEF m
<1>6. OnItsWay(AfterMessage(w), cl, Framed(q))
  BY <1>3, <1>5 DEF OnItsWay
<1>7. Flat[q] \in Messages
  <2>1. q \in Seq(Messages)
    BY DEF Short
  <2> QED
    BY <2>1, FlatFacts
<1> DEFINE u == Flat[q]
<1>10. u \in Messages
  BY <1>7
<1> HIDE DEF u
<1>11. x \in Messages /\ m \in Messages /\ u \in Messages
  BY <1>1, <1>10
<1>8. (x \o m) \o u = x \o (m \o u)
  BY <1>11, Regroup, Zenon
<1>9. (x \o m) \o Flat[q] = Flat[s]
  BY <1>2, <1>5, <1>8 DEF u
<1> QED
  BY <1>6, <1>7, <1>9

(* A beginning of some bytes, and the rest. *)
LEMMA CutInTwo ==
  ASSUME NEW w \in Messages, NEW k \in 0 .. Len(w)
  PROVE  /\ SubSeq(w, 1, k) \in Messages /\ Len(SubSeq(w, 1, k)) = k
         /\ SubSeq(w, k + 1, Len(w)) \in Messages
         /\ SubSeq(w, 1, k) \o SubSeq(w, k + 1, Len(w)) = w
PROOF
<1> DEFINE a == SubSeq(w, 1, k)
           b == SubSeq(w, k + 1, Len(w))
<1>1. w \in Seq(Bytes) /\ Len(w) \in Nat
  BY DEF Messages
<1>2. a \in Seq(Bytes) /\ Len(a) = k /\ \A i \in 1 .. k : a[i] = w[i]
  BY <1>1
<1>3. b \in Seq(Bytes) /\ Len(b) = Len(w) - k /\ \A i \in 1 .. Len(w) - k : b[i] = w[k + i]
  BY <1>1
<1> HIDE DEF a, b
<1>4. /\ a \o b \in Seq(Bytes) /\ Len(a \o b) = Len(w)
      /\ \A i \in 1 .. Len(w) : (a \o b)[i] = IF i <= k THEN a[i] ELSE b[i - k]
  <2>1. /\ a \o b \in Seq(Bytes) /\ Len(a \o b) = Len(a) + Len(b)
        /\ \A i \in 1 .. Len(a) + Len(b) :
             (a \o b)[i] = IF i <= Len(a) THEN a[i] ELSE b[i - Len(a)]
    BY <1>2, <1>3, ConcatProperties
  <2> QED
    BY <1>1, <1>2, <1>3, <2>1
<1>5. ASSUME NEW i \in 1 .. Len(w)
      PROVE  (a \o b)[i] = w[i]
  <2>1. CASE i <= k
    BY <1>2, <1>4, <2>1
  <2>2. CASE i > k
    <3>1. i - k \in 1 .. Len(w) - k /\ k + (i - k) = i /\ ~(i <= k)
      BY <1>1, <2>2
    <3>2. b[i - k] = w[i]
      BY <1>3, <3>1
    <3> QED
      BY <1>4, <3>1, <3>2
  <2>3. i <= k \/ i > k
    BY <1>1
  <2> QED
    BY <2>1, <2>2, <2>3
<1>6. a \o b = w
  BY <1>1, <1>4, <1>5, SeqEqual
<1> QED
  BY <1>2, <1>3, <1>6 DEF a, b, Messages

(* What processStream leaves on a stream, even one whose messages are cut. *)
LEMMA AfterInfoIsBytes ==
  ASSUME NEW w \in Messages, HasInfo(w), InfoLen(w) \in Nat
  PROVE  AfterInfo(w) \in Messages
PROOF
<1>1. HasVarint(w)
  BY DEF HasInfo
<1>2. w \in Seq(Bytes) /\ Len(w) \in Nat
  BY DEF Messages
<1> DEFINE T == {i \in 1 .. Len(w) : w[i] < Digits}
<1>3. T \in SUBSET Nat /\ T # {}
  BY <1>1 DEF HasVarint
<1> HIDE DEF T
<1>4. PICK k \in T : \A j \in T : k <= j
  BY <1>3, Smallest
<1>5. k \in 1 .. Len(w) /\ w[k] < Digits /\ \A j \in 1 .. k - 1 : ~(w[j] < Digits)
  BY <1>2, <1>4 DEF T
<1>6. \A j \in 1 .. k - 1 : w[j] >= Digits
  <2>1. ASSUME NEW j \in 1 .. k - 1
        PROVE  w[j] >= Digits
    <3>1. Digits \in Int
      BY BaseIsEven DEF Digits
    <3>2. w[j] \in Int
      BY <1>2, <1>5, BaseIsEven DEF Bytes
    <3> QED
      BY <1>5, <3>1, <3>2
  <2> QED
    BY <2>1
<1> DEFINE P(i) == w[i] < Digits /\ \A j \in 1 .. i - 1 : w[j] >= Digits
           e == CHOOSE i \in 1 .. Len(w) : P(i)
<1>7. e \in 1 .. Len(w)
  <2>1. \E i \in 1 .. Len(w) : P(i)
    BY <1>5, <1>6
  <2> QED
    BY <2>1
<1>8. VarintOf(w) = SubSeq(w, 1, e)
  BY DEF VarintOf
<1> HIDE DEF e
<1>9. Len(VarintOf(w)) = e
  BY <1>2, <1>7, <1>8
<1>10. SubSeq(w, e + InfoLen(w) + 1, Len(w)) \in Seq(Bytes)
  BY <1>2, <1>7
<1> QED
  BY <1>9, <1>10 DEF AfterInfo, Messages

(* Carried, and that no message left the stream before it was accepted. *)
Flow(w, cl, s, r, x) ==
  /\ Carried(w, cl, s, r, x)
  /\ r = "off" => cl # "open" /\ s = <<>>
  /\ r \in {"off", "info", "rejected"} => x = <<>>

(* OpenStream. *)
LEMMA FlowOpens ==
  ASSUME NEW w, NEW cl, NEW s, NEW x, Flow(w, cl, s, "off", x)
  PROVE  Flow(PutVarint(Len(Info)) \o Info, "open", s, "info", x)
  BY CarriedOpens DEF Flow

(* Send. *)
LEMMA FlowSends ==
  ASSUME NEW w \in Messages, NEW s \in Seq(Messages), NEW r, NEW x \in Messages,
         NEW d \in Messages, Flow(w, "open", s, r, x)
  PROVE  Flow(w \o WriteStreamByHeader(d), "open", Append(s, d), r, x)
  BY CarriedSends DEF Flow

(* End, with any loss. *)
LEMMA FlowEnds ==
  ASSUME NEW w \in Messages, NEW cl, NEW s, NEW r, NEW x, NEW k \in 0 .. Len(w),
         Flow(w, cl, s, r, x)
  PROVE  Flow(SubSeq(w, 1, k), "ended", s, r, x)
PROOF
<1> DEFINE v == SubSeq(w, 1, k)
           l == SubSeq(w, k + 1, Len(w))
<1>1. v \in Messages /\ l \in Messages /\ v \o l = w
  BY CutInTwo
<1> HIDE DEF v, l
<1>2. Carried(v \o l, cl, s, r, x)
  BY <1>1 DEF Flow
<1>3. Carried(v, "ended", s, r, x)
  BY <1>1, <1>2, CarriedCut
<1> QED
  BY <1>3 DEF Flow, v

(* ClearSlot and CloseConn: all that was under way is lost. *)
LEMMA FlowStops ==
  ASSUME NEW w \in Messages, NEW cl, NEW s, NEW r, NEW x, Flow(w, cl, s, r, x)
  PROVE  Flow(<<>>, "ended", s, r, x)
PROOF
<1>1. 0 \in 0 .. Len(w) /\ SubSeq(w, 1, 0) = <<>>
  BY DEF Messages
<1> QED
  BY <1>1, FlowEnds

(* Accept. *)
LEMMA FlowAccepts ==
  ASSUME NEW w \in Messages, NEW cl, NEW s \in Seq(Messages), NEW x,
         Flow(w, cl, s, "info", x), HasInfo(w)
  PROVE  Flow(AfterInfo(w), cl, s, "read", x)
  BY CarriedAccepts DEF Flow

(* ReadMessage: the message is in the reader's hands. *)
LEMMA FlowReads ==
  ASSUME NEW w \in Messages, NEW cl, NEW s \in Seq(Messages), NEW x \in Messages,
         Flow(w, cl, s, "read", x), HasMessage(w)
  PROVE  Flow(AfterMessage(w), cl, s, IF MessageOf(w) = <<>> THEN "exit" ELSE "offer",
              x \o MessageOf(w))
  BY CarriedReads DEF Flow

(* The reader has left, or never began to read. *)
LEMMA FlowLeaves ==
  ASSUME NEW w, NEW cl, NEW s, NEW r, NEW x, Flow(w, cl, s, r, x),
         NEW v, NEW c, NEW q, q \in {"exit", "closed", "gone"} \/ (q = "rejected" /\ r = "info")
  PROVE  Flow(v, c, s, q, x)
PROOF
<1>1. Carried(v, c, s, q, x)
  BY CarriedLeaves DEF Flow
<1> QED
  BY <1>1 DEF Flow

(* reflect.Select took the message that was offered. *)
LEMMA FlowTaken ==
  ASSUME NEW w, NEW cl, NEW s, NEW x, Flow(w, cl, s, "offer", x)
  PROVE  Flow(w, cl, s, "read", x)
  BY DEF Flow, Carried

-------------------------------------------------------------------------------
(* Types of the receive.                                                   *)

(* Sets of places, by name. *)
Ends == {"none", "open", "ended"}
Places == {"off", "info", "rejected", "read", "offer", "exit", "closed", "gone"}
Phases == {"off", "up", "closing", "closed", "told"}
Contexts == {"open", "clearing", "closed", "nil"}
Stages == {"idle", "wait", "list", "select", "copy"}
Troubles == {"none", "slot", "list"}
Buffers == [from : Channels, rest : Messages \ {<<>>}]

(* Types of the clients, of the readers, of the sockets and of the
   application, and that currentBuffer is empty when ServerSocketReceive
   looks for a message. *)
PeerTypes ==
  /\ wire \in [Channels -> Messages] /\ cli \in [Channels -> Ends]
  /\ sent \in [Channels -> Seq(Payloads)]
ReaderTypes ==
  /\ rpc \in [Channels -> Places] /\ inHand \in [Channels -> Messages]
  /\ \A c \in Channels : inHand[c] # <<>> <=> rpc[c] = "offer"
SockTypes ==
  /\ slot \in [Channels -> BOOLEAN] /\ phase \in [Sockets -> Phases]
  /\ mapped \in SUBSET Sockets /\ IsFiniteSet(mapped)
  /\ proxied \in BOOLEAN /\ ctx \in Contexts
AppTypes ==
  /\ apc \in Stages /\ room \in Nat /\ listed \in SUBSET Channels
  /\ current \in Buffers \cup {None}
  /\ apc \in {"list", "select"} => current = None
  /\ apc = "copy" => current # None
  /\ got \in [Channels -> Messages]

Types == PeerTypes /\ ReaderTypes /\ SockTypes /\ AppTypes /\ panic \in Troubles

(* The members of these sets. *)
LEMMA Names ==
  /\ "none" \in Ends /\ "open" \in Ends /\ "ended" \in Ends
  /\ "off" \in Places /\ "info" \in Places /\ "rejected" \in Places /\ "read" \in Places
  /\ "offer" \in Places /\ "exit" \in Places /\ "closed" \in Places /\ "gone" \in Places
  /\ "off" \in Phases /\ "up" \in Phases /\ "closing" \in Phases /\ "closed" \in Phases
  /\ "told" \in Phases
  /\ "open" \in Contexts /\ "clearing" \in Contexts /\ "closed" \in Contexts
  /\ "nil" \in Contexts
  /\ "idle" \in Stages /\ "wait" \in Stages /\ "list" \in Stages /\ "select" \in Stages
  /\ "copy" \in Stages
  /\ "none" \in Troubles /\ "slot" \in Troubles /\ "list" \in Troubles
  BY DEF Ends, Places, Phases, Contexts, Stages, Troubles

(* A step that does not touch the clients. *)
LEMMA PeerStays ==
  ASSUME PeerTypes, UNCHANGED peerVars
  PROVE  PeerTypes'
  BY DEF PeerTypes, peerVars

(* A step that does not touch the readers. *)
LEMMA ReaderStays ==
  ASSUME ReaderTypes, UNCHANGED readerVars
  PROVE  ReaderTypes'
  BY DEF ReaderTypes, readerVars

(* A step that does not touch the sockets. *)
LEMMA SockStays ==
  ASSUME SockTypes, UNCHANGED sockVars
  PROVE  SockTypes'
  BY DEF SockTypes, sockVars

(* A step that does not touch the application. *)
LEMMA AppStays ==
  ASSUME AppTypes, UNCHANGED appVars
  PROVE  AppTypes'
  BY DEF AppTypes, appVars

(* The types with the names imply the type invariant of the runs. *)
LEMMA TypesOfNames ==
  ASSUME Types
  PROVE  ReceiveTypeOK
PROOF
<1>1. /\ wire \in [Channels -> Seq(Bytes)] /\ cli \in [Channels -> {"none", "open", "ended"}]
      /\ inHand \in [Channels -> Seq(Bytes)] /\ slot \in [Channels -> BOOLEAN]
      /\ mapped \subseteq Sockets /\ proxied \in BOOLEAN
      /\ room \in Nat /\ listed \subseteq Channels /\ got \in [Channels -> Seq(Bytes)]
  BY DEF Types, PeerTypes, ReaderTypes, SockTypes, AppTypes, Messages, Ends
<1>2. \A c \in Channels : \A i \in DOMAIN sent[c] : sent[c][i] \in Payloads
  <2>1. sent \in [Channels -> Seq(Payloads)]
    BY DEF Types, PeerTypes
  <2>2. ASSUME NEW c \in Channels
        PROVE  \A i \in DOMAIN sent[c] : sent[c][i] \in Payloads
    <3>1. sent[c] \in Seq(Payloads)
      BY <2>1
    <3> QED
      BY <3>1
  <2> QED
    BY <2>2
<1>3. rpc \in [Channels -> {"off", "info", "rejected", "read", "offer", "exit", "closed", "gone"}]
  BY DEF Types, ReaderTypes, Places
<1>4. phase \in [Sockets -> {"off", "up", "closing", "closed", "told"}]
  BY DEF Types, SockTypes, Phases
<1>5. ctx \in {"open", "clearing", "closed", "nil"}
  BY DEF Types, SockTypes, Contexts
<1>6. apc \in {"idle", "wait", "list", "select", "copy"}
  BY DEF Types, AppTypes, Stages
<1>7. panic \in {"none", "slot", "list"}
  BY DEF Types, Troubles
<1>8. current = None \/ (current.from \in Channels /\ current.rest \in Seq(Bytes) \ {<<>>})
  BY DEF Types, AppTypes, Buffers, Messages
<1> QED
  BY <1>1, <1>2, <1>3, <1>4, <1>5, <1>6, <1>7, <1>8 DEF ReceiveTypeOK

(* The types hold at first. *)
LEMMA TypesInit == Init => Types
PROOF
<1> SUFFICES ASSUME Init PROVE Types
  OBVIOUS
<1>1. <<>> \in Messages /\ <<>> \in Seq(Payloads)
  BY DEF Messages
<1>2. PeerTypes
  BY <1>1, Names DEF Init, PeerTypes
<1>3. ReaderTypes
  BY <1>1, Names DEF Init, ReaderTypes
<1>4. SockTypes
  <2>1. IsFiniteSet({})
    BY FS_EmptySet
  <2> QED
    BY <2>1, Names DEF Init, SockTypes
<1>5. AppTypes
  <2>1. apc = "idle" /\ room = 0 /\ listed = {} /\ current = None
        /\ got = [c \in Channels |-> <<>>]
    BY DEF Init
  <2>2. got \in [Channels -> Messages]
    BY <1>1, <2>1
  <2>3. apc \notin {"list", "select", "copy"}
    BY <2>1
  <2> QED
    BY <2>1, <2>2, <2>3, Names DEF AppTypes
<1>6. panic \in Troubles
  BY Names DEF Init
<1> QED
  BY <1>2, <1>3, <1>4, <1>5, <1>6 DEF Types

(* A reader that goes from place to place with nothing in hand. *)
LEMMA ReaderGoesTypes ==
  ASSUME NEW from, NEW to \in Places, NEW c \in Channels, ReaderTypes,
         ReaderGoes(c, from, to), UNCHANGED inHand, from # "offer", to # "offer"
  PROVE  ReaderTypes'
PROOF
<1>1. rpc' \in [Channels -> Places]
  BY DEF ReaderGoes, ReaderTypes
<1>2. \A d \in Channels : rpc'[d] = "offer" <=> rpc[d] = "offer"
  BY DEF ReaderGoes, ReaderTypes
<1> QED
  BY <1>1, <1>2 DEF ReaderTypes

(* Every step keeps the types, and a reader offers exactly when it has a
   message. *)
LEMMA TypesNext == Types /\ [Next]_vars => Types'
PROOF
<1> SUFFICES ASSUME Types, [Next]_vars PROVE Types'
  OBVIOUS
<1>1. PeerTypes /\ ReaderTypes /\ SockTypes /\ AppTypes /\ panic \in Troubles
  BY DEF Types
<1>2. /\ UNCHANGED peerVars => PeerTypes'
      /\ UNCHANGED readerVars => ReaderTypes'
      /\ UNCHANGED sockVars => SockTypes'
      /\ UNCHANGED appVars => AppTypes'
      /\ UNCHANGED panic => (panic \in Troubles)'
  BY <1>1, PeerStays, ReaderStays, SockStays, AppStays
<1>3. <<>> \in Messages
  BY DEF Messages
<1>4. ASSUME NEW c \in Channels, OpenStream(c)
      PROVE  Types'
  <2>1. PutVarint(Len(Info)) \o Info \in Messages
    <3>1. PutVarint(Len(Info)) \in Messages /\ Info \in Messages
      <4>1. Len(Info) \in Nat
        BY InfoFits
      <4> QED
        BY <4>1, InfoFits, VarintSurvives DEF IsVarint, Messages
    <3> QED
      BY <3>1, MessageConcat
  <2>2. PeerTypes'
    BY <1>1, <1>4, <2>1, Names DEF OpenStream, PeerTypes
  <2>3. ReaderTypes'
    BY <1>1, <1>4, ReaderGoesTypes, Names DEF OpenStream
  <2> QED
    BY <1>1, <1>2, <1>4, <2>2, <2>3 DEF OpenStream, Types
<1>5. ASSUME NEW c \in Channels, NEW data \in Payloads, Send(c, data)
      PROVE  Types'
  <2>1. data \in Messages /\ wire[c] \in Messages /\ sent[c] \in Seq(Payloads)
    BY <1>1, Inputs DEF PeerTypes, Messages
  <2>2. wire[c] \o WriteStreamByHeader(data) \in Messages
    BY <2>1, WriteIsBytes, MessageConcat
  <2>3. Append(sent[c], data) \in Seq(Payloads)
    BY <2>1
  <2>4. PeerTypes'
    BY <1>1, <1>5, <2>2, <2>3 DEF Send, PeerTypes
  <2> QED
    BY <1>1, <1>2, <1>5, <2>4 DEF Send, Types
<1>6. ASSUME NEW c \in Channels, NEW lost \in 0 .. MaxLost, End(c, lost)
      PROVE  Types'
  <2>1. wire[c] \in Messages /\ Len(wire[c]) \in Nat /\ lost \in Nat /\ lost <= Len(wire[c])
    BY <1>1, <1>6, Numbers DEF PeerTypes, Messages, End
  <2>2. Len(wire[c]) - lost \in 0 .. Len(wire[c])
    BY <2>1
  <2>3. SubSeq(wire[c], 1, Len(wire[c]) - lost) \in Messages
    BY <2>1, <2>2, CutInTwo
  <2>4. PeerTypes'
    BY <1>1, <1>6, <2>3, Names DEF End, PeerTypes
  <2> QED
    BY <1>1, <1>2, <1>6, <2>4 DEF End, Types
<1>7. ASSUME NEW c \in Channels, Accept(c)
      PROVE  Types'
  <2>1. wire[c] \in Messages /\ HasInfo(wire[c]) /\ InfoLen(wire[c]) \in Nat
    BY <1>1, <1>7 DEF PeerTypes, Accept
  <2>2. AfterInfo(wire[c]) \in Messages
    BY <2>1, AfterInfoIsBytes
  <2>3. PeerTypes'
    BY <1>1, <1>7, <2>2 DEF Accept, PeerTypes
  <2>4. ReaderTypes'
    BY <1>1, <1>7, ReaderGoesTypes, Names DEF Accept
  <2>5. SockTypes'
    <3>1. c[1] \in Sockets
      BY DEF Channels
    <3>2. IsFiniteSet(mapped \cup {c[1]})
      BY <1>1, FS_AddElement DEF SockTypes
    <3>3. slot' \in [Channels -> BOOLEAN]
      BY <1>1, <1>7 DEF SockTypes, Accept
    <3>4. phase' \in [Sockets -> Phases]
      BY <1>1, <1>7, Names DEF SockTypes, Accept
    <3>5. mapped' \in SUBSET Sockets /\ IsFiniteSet(mapped')
      BY <1>1, <1>7, <3>1, <3>2 DEF SockTypes, Accept
    <3> QED
      BY <1>1, <1>7, <3>3, <3>4, <3>5 DEF SockTypes, Accept
  <2> QED
    BY <1>1, <1>2, <1>7, <2>3, <2>4, <2>5 DEF Accept, Types
<1>8. ASSUME NEW c \in Channels, Reject(c)
      PROVE  Types'
  <2>1. PeerTypes'
    BY <1>1, <1>3, <1>8, Names DEF Reject, PeerTypes
  <2>2. ReaderTypes'
    BY <1>1, <1>8, ReaderGoesTypes, Names DEF Reject
  <2> QED
    BY <1>1, <1>2, <1>8, <2>1, <2>2 DEF Reject, Types
<1>9. ASSUME NEW c \in Channels, ReadMessage(c)
      PROVE  Types'
  <2>1. MessageOf(wire[c]) \in Messages /\ AfterMessage(wire[c]) \in Messages
    BY <1>1, <1>9, MessageParts DEF PeerTypes, ReadMessage, Messages
  <2>2. PeerTypes'
    BY <1>1, <1>9, <2>1 DEF ReadMessage, PeerTypes
  <2>3. rpc' \in [Channels -> Places]
    <3>1. (IF MessageOf(wire[c]) = <<>> THEN "exit" ELSE "offer") \in Places
      BY Names
    <3> QED
      BY <1>1, <1>9, <3>1 DEF ReadMessage, ReaderGoes, ReaderTypes
  <2>4. inHand' \in [Channels -> Messages]
    BY <1>1, <1>9, <2>1 DEF ReadMessage, ReaderTypes
  <2>5. ASSUME NEW d \in Channels
        PROVE  inHand'[d] # <<>> <=> rpc'[d] = "offer"
    <3>1. CASE d = c
      BY <1>1, <1>9, <3>1 DEF ReadMessage, ReaderGoes, ReaderTypes
    <3>2. CASE d # c
      BY <1>1, <1>9, <3>2 DEF ReadMessage, ReaderGoes, ReaderTypes
    <3> QED
      BY <3>1, <3>2
  <2>6. ReaderTypes'
    BY <2>3, <2>4, <2>5 DEF ReaderTypes
  <2> QED
    BY <1>1, <1>2, <1>9, <2>2, <2>6 DEF ReadMessage, Types
<1>10. ASSUME NEW c \in Channels, ReadFails(c) \/ CloseChannel(c)
       PROVE  Types'
  <2>1. ReaderTypes'
    BY <1>1, <1>10, ReaderGoesTypes, Names DEF ReadFails, CloseChannel
  <2> QED
    BY <1>1, <1>2, <1>10, <2>1 DEF ReadFails, CloseChannel, peerVars, Types
<1>11. ASSUME NEW c \in Channels, Disconnect(c)
       PROVE  Types'
  <2>1. ReaderTypes'
    BY <1>1, <1>11, ReaderGoesTypes, Names DEF Disconnect
  <2>2. PeerTypes'
    BY <1>1, <1>3, <1>11, Names DEF Disconnect, PeerTypes
  <2>3. slot' \in [Channels -> BOOLEAN] /\ phase' \in [Sockets -> Phases]
    BY <1>1, <1>11, Names DEF Disconnect, SockTypes
  <2>4. SockTypes'
    BY <1>1, <1>11, <2>3 DEF Disconnect, SockTypes
  <2> QED
    BY <1>1, <1>2, <1>11, <2>1, <2>2, <2>4 DEF Disconnect, Types
<1>12. ASSUME NEW s \in Sockets, CloseSocket(s)
       PROVE  Types'
  <2>1. SockTypes'
    BY <1>1, <1>12, Names DEF CloseSocket, SockTypes
  <2> QED
    BY <1>1, <1>2, <1>12, <2>1 DEF CloseSocket, Types
<1>13. ASSUME NEW c \in Channels, ClearSlot(c)
       PROVE  Types'
  <2>1. SockTypes'
    BY <1>1, <1>13 DEF ClearSlot, SockTypes
  <2>2. PeerTypes'
    BY <1>1, <1>3, <1>13, Names DEF ClearSlot, PeerTypes
  <2> QED
    BY <1>1, <1>2, <1>13, <2>1, <2>2 DEF ClearSlot, Types
<1>14. ASSUME NEW s \in Sockets, CloseConn(s)
       PROVE  Types'
  <2>1. SockTypes'
    BY <1>1, <1>14, Names DEF CloseConn, SockTypes
  <2>2. wire' \in [Channels -> Messages] /\ cli' \in [Channels -> Ends]
    BY <1>1, <1>3, <1>14, Names DEF CloseConn, PeerTypes
  <2>3. PeerTypes'
    BY <1>1, <1>14, <2>2 DEF CloseConn, PeerTypes
  <2> QED
    BY <1>1, <1>2, <1>14, <2>1, <2>3 DEF CloseConn, Types
<1>15. ASSUME NEW s \in Sockets, OnDisconnect(s)
       PROVE  Types'
  <2>1. IsFiniteSet(mapped \ {s})
    BY <1>1, FS_RemoveElement DEF SockTypes
  <2>2. mapped' \in SUBSET Sockets /\ IsFiniteSet(mapped')
    BY <1>1, <1>15, <2>1 DEF OnDisconnect, SockTypes
  <2>3. SockTypes'
    BY <1>1, <1>15, <2>2, Names DEF OnDisconnect, SockTypes
  <2> QED
    BY <1>1, <1>2, <1>15, <2>3 DEF OnDisconnect, Types
<1>16. ASSUME ClearMap
       PROVE  Types'
  <2>1. SockTypes'
    BY <1>1, <1>16, FS_EmptySet, Names DEF ClearMap, SockTypes
  <2> QED
    BY <1>1, <1>2, <1>16, <2>1 DEF ClearMap, Types
<1>17. ASSUME ServerCloses
       PROVE  Types'
  <2>1. phase' \in [Sockets -> Phases] /\ ctx' \in Contexts
    BY <1>1, <1>17, Names DEF ServerCloses, SockTypes
  <2>2. SockTypes'
    BY <1>1, <1>17, <2>1 DEF ServerCloses, SockTypes
  <2> QED
    BY <1>1, <1>2, <1>17, <2>2 DEF ServerCloses, Types
<1>18. ASSUME ForgetServer
       PROVE  Types'
  <2>1. SockTypes'
    BY <1>1, <1>18, Names DEF ForgetServer, SockTypes
  <2> QED
    BY <1>1, <1>2, <1>18, <2>1 DEF ForgetServer, Types
<1>19. ASSUME Call
       PROVE  Types'
  <2>1. AppTypes'
    BY <1>1, <1>19, Names DEF Call, AppGoes, AppTypes
  <2> QED
    BY <1>1, <1>2, <1>19, <2>1 DEF Call, Types
<1>20. ASSUME WaitEnds
       PROVE  Types'
  <2>1. room' \in Nat
    <3>1. Cardinality(mapped) \in Nat
      BY <1>1, FS_CardinalityType DEF SockTypes
    <3>2. Cardinality(mapped) * PerSocket \in Nat
      BY <3>1, Numbers
    <3> QED
      BY <1>1, <1>20, <3>2 DEF WaitEnds, AppTypes
  <2>2. AppTypes'
    BY <1>1, <1>20, <2>1, Names DEF WaitEnds, AppGoes, AppTypes
  <2> QED
    BY <1>1, <1>2, <1>20, <2>2 DEF WaitEnds, Types
<1>21. ASSUME List
       PROVE  Types'
  <2>1. listed' \in SUBSET Channels
    BY <1>1, <1>21 DEF List, InTables, AppTypes
  <2>2. apc = "list" /\ apc' \in Stages /\ apc' # "copy"
    BY <1>1, <1>21, Names DEF List, AppGoes, AppTypes
  <2>3. room' = 0 /\ UNCHANGED <<current, got>>
    BY <1>21 DEF List
  <2>4. AppTypes'
    BY <1>1, <2>1, <2>2, <2>3 DEF AppTypes
  <2>5. panic' \in Troubles
    BY <1>1, <1>21, Names DEF List
  <2> QED
    BY <1>1, <1>2, <1>21, <2>4, <2>5 DEF List, Types
<1>22. ASSUME NEW c \in Channels, Select(c)
       PROVE  Types'
  <2>1. rpc[c] = "offer" /\ inHand[c] \in Messages /\ inHand[c] # <<>>
    BY <1>1, <1>22 DEF Select, ReaderGoes, ReaderTypes
  <2>2. rpc' = [rpc EXCEPT ![c] = "read"] /\ inHand' = [inHand EXCEPT ![c] = <<>>]
    BY <1>22 DEF Select, ReaderGoes
  <2>3. ReaderTypes'
    BY <1>1, <1>3, <2>2, Names DEF ReaderTypes
  <2>4. current' = [from |-> c, rest |-> inHand[c]]
    BY <1>22 DEF Select
  <2>5. current' \in Buffers
    BY <2>1, <2>4 DEF Buffers
  <2>6. current' # None
    <3>1. current'.rest # <<>> /\ None.rest = <<>>
      BY <2>1, <2>4 DEF None
    <3> QED
      BY <3>1
  <2>7. apc' = "copy" /\ listed' = {} /\ UNCHANGED <<room, got>>
    BY <1>22 DEF Select, AppGoes
  <2>8. AppTypes'
    BY <1>1, <2>5, <2>6, <2>7, Names DEF AppTypes
  <2> QED
    BY <1>1, <1>2, <1>22, <2>3, <2>8 DEF Select, Types
<1>23. ASSUME NEW c \in Channels, SelectClosed(c)
       PROVE  Types'
  <2>1. AppTypes'
    BY <1>1, <1>23, Names DEF SelectClosed, AppGoes, AppTypes
  <2> QED
    BY <1>1, <1>2, <1>23, <2>1 DEF SelectClosed, Types
<1>24. ASSUME NEW n \in Sizes, Copy(n)
       PROVE  Types'
  <2> DEFINE e == current.from
             all == current.rest
             k == IF n < Len(all) THEN n ELSE Len(all)
             copied == SubSeq(all, 1, k)
             rest == SubSeq(all, Len(copied) + 1, Len(all))
  <2>1. current \in Buffers /\ apc = "copy"
    BY <1>1, <1>24 DEF AppTypes, Copy, AppGoes
  <2>2. e \in Channels /\ all \in Messages
    BY <2>1 DEF Buffers
  <2>3. k \in 0 .. Len(all)
    BY <2>2, Inputs DEF Messages
  <2>4. copied \in Messages /\ Len(copied) = k
    BY <2>2, <2>3, CutInTwo
  <2>5. rest \in Messages
    BY <2>2, <2>3, <2>4, CutInTwo
  <2>6. /\ apc' = "idle" /\ got' = [got EXCEPT ![e] = @ \o copied]
        /\ current' = IF rest = <<>> THEN None ELSE [current EXCEPT !.rest = rest]
        /\ UNCHANGED <<room, listed>>
    BY <1>24 DEF Copy, AppGoes
  <2> HIDE DEF copied, rest
  <2>7. got' \in [Channels -> Messages]
    <3>1. got[e] \o copied \in Messages
      BY <1>1, <2>2, <2>4, MessageConcat DEF AppTypes
    <3> QED
      BY <1>1, <2>6, <3>1 DEF AppTypes
  <2>8. current' \in Buffers \cup {None}
    BY <2>1, <2>5, <2>6 DEF Buffers
  <2>9. AppTypes'
    BY <1>1, <2>6, <2>7, <2>8, Names DEF AppTypes
  <2> QED
    BY <1>1, <1>2, <1>24, <2>9 DEF Copy, Types
<1>25. ASSUME UNCHANGED vars
       PROVE  Types'
  BY <1>1, <1>2, <1>25 DEF vars, Types
<1> QED
  BY <1>4, <1>5, <1>6, <1>7, <1>8, <1>9, <1>10, <1>11, <1>12, <1>13, <1>14, <1>15, <1>16,
     <1>17, <1>18, <1>19, <1>20, <1>21, <1>22, <1>23, <1>24, <1>25
  DEF Next, ClientStep, ReaderStep, CloseStep, ServerStep, Receive

-------------------------------------------------------------------------------
(* What the application has, holds and is offered.                         *)

(* What the application has of a channel, what is left of it in currentBuffer
   and what its reader offers. *)
Shown(c) == (got[c] \o Pending(c)) \o inHand[c]

(* The flow of a channel, and of all. *)
FlowAt(c) == Flow(wire[c], cli[c], sent[c], rpc[c], Shown(c))

Flows == \A c \in Channels : FlowAt(c)

(* What the server has of a channel are bytes. *)
LEMMA ShownTypes ==
  ASSUME Types, NEW c \in Channels
  PROVE  /\ got[c] \in Messages /\ Pending(c) \in Messages /\ inHand[c] \in Messages
         /\ got[c] \o Pending(c) \in Messages /\ Shown(c) \in Messages
PROOF
<1>1. got[c] \in Messages /\ inHand[c] \in Messages
  BY DEF Types, ReaderTypes, AppTypes
<1>2. Pending(c) \in Messages
  <2>1. <<>> \in Messages
    BY DEF Messages
  <2>2. current # None => current.rest \in Messages
    BY DEF Types, AppTypes, Buffers
  <2> QED
    BY <2>1, <2>2 DEF Pending
<1>3. got[c] \o Pending(c) \in Messages
  BY <1>1, <1>2, MessageConcat
<1> HIDE DEF Pending
<1>4. (got[c] \o Pending(c)) \o inHand[c] \in Messages
  BY <1>1, <1>3, MessageConcat
<1> QED
  BY <1>1, <1>2, <1>3, <1>4 DEF Shown

(* So is what is under way, and what was sent are messages. *)
LEMMA PeerValues ==
  ASSUME Types, NEW c \in Channels
  PROVE  wire[c] \in Messages /\ sent[c] \in Seq(Messages) /\ Len(wire[c]) \in Nat
PROOF
<1>1. wire[c] \in Messages
  BY DEF Types, PeerTypes
<1>2. sent[c] \in Seq(Messages)
  <2>1. sent[c] \in Seq(Payloads)
    BY DEF Types, PeerTypes
  <2>2. \A i \in 1 .. Len(sent[c]) : sent[c][i] \in Messages
    BY <2>1, Inputs DEF Messages
  <2> QED
    BY <2>1, <2>2
<1>3. Len(wire[c]) \in Nat
  BY <1>1 DEF Messages
<1> QED
  BY <1>1, <1>2, <1>3

(* A step that touches none of the server's copies of a channel's bytes. *)
LEMMA ShownStays ==
  ASSUME NEW c \in Channels, UNCHANGED <<inHand, current, got>>
  PROVE  Shown(c)' = Shown(c)
  BY DEF Shown, Pending

(* A step that leaves a channel alone. *)
LEMMA FlowStays ==
  ASSUME NEW c \in Channels, FlowAt(c), Shown(c)' = Shown(c),
         wire'[c] = wire[c], cli'[c] = cli[c], sent'[c] = sent[c], rpc'[c] = rpc[c]
  PROVE  FlowAt(c)'
PROOF
<1>1. Flow(wire[c], cli[c], sent[c], rpc[c], Shown(c))
  BY DEF FlowAt
<1>2. Flow(wire'[c], cli'[c], sent'[c], rpc'[c], Shown(c)')
  BY <1>1
<1> QED
  BY <1>2 DEF FlowAt

(* The flow holds at first. *)
LEMMA FlowsInit == Init => Flows
PROOF
<1> SUFFICES ASSUME Init, NEW c \in Channels PROVE FlowAt(c)
  BY DEF Flows
<1>1. /\ cli[c] = "none" /\ sent[c] = <<>> /\ rpc[c] = "off"
      /\ inHand[c] = <<>> /\ got[c] = <<>> /\ current = None
  BY DEF Init
<1>2. <<>> \in Messages /\ <<>> \o <<>> = <<>>
  BY MessageConcat
<1>3. Shown(c) = <<>>
  BY <1>1, <1>2 DEF Shown, Pending
<1>4. Flat[<<>>] = <<>>
  BY FlatFacts
<1>5. Carried(wire[c], "none", <<>>, "off", <<>>)
  BY <1>2, <1>4 DEF Carried
<1> QED
  BY <1>1, <1>3, <1>5 DEF FlowAt, Flow

(* Every step keeps the flow of every channel: one case for each action that
   touches a stream, a reader or the application's copies, and one for the
   others. *)
LEMMA FlowsNext == Types /\ Flows /\ [Next]_vars => Flows'
PROOF
<1> SUFFICES ASSUME Types, Flows, [Next]_vars, NEW d \in Channels PROVE FlowAt(d)'
  BY DEF Flows
<1>1. FlowAt(d) /\ Flow(wire[d], cli[d], sent[d], rpc[d], Shown(d))
  BY DEF Flows, FlowAt
<1>2. wire[d] \in Messages /\ sent[d] \in Seq(Messages) /\ Len(wire[d]) \in Nat
  BY PeerValues
<1>3. Shown(d) \in Messages
  BY ShownTypes
<1>4. /\ wire \in [Channels -> Messages] /\ cli \in [Channels -> Ends]
      /\ sent \in [Channels -> Seq(Payloads)] /\ rpc \in [Channels -> Places]
      /\ inHand \in [Channels -> Messages] /\ got \in [Channels -> Messages]
  BY DEF Types, PeerTypes, ReaderTypes, AppTypes
(* A step of one channel leaves the others alone. *)
<1>5. ASSUME NEW c \in Channels, OpenStream(c)
      PROVE  FlowAt(d)'
  <2>1. Shown(d)' = Shown(d)
    BY <1>5, ShownStays DEF OpenStream, appVars
  <2>2. CASE d # c
    BY <1>1, <1>4, <1>5, <2>1, <2>2, FlowStays DEF OpenStream, ReaderGoes
  <2>3. CASE d = c
    <3>1. /\ rpc[d] = "off" /\ wire'[d] = PutVarint(Len(Info)) \o Info /\ cli'[d] = "open"
          /\ sent'[d] = sent[d] /\ rpc'[d] = "info"
      BY <1>4, <1>5, <2>3 DEF OpenStream, ReaderGoes
    <3>2. Flow(PutVarint(Len(Info)) \o Info, "open", sent[d], "info", Shown(d))
      BY <1>1, <3>1, FlowOpens
    <3> QED
      BY <2>1, <3>1, <3>2 DEF FlowAt
  <2> QED
    BY <2>2, <2>3
<1>6. ASSUME NEW c \in Channels, NEW data \in Payloads, Send(c, data)
      PROVE  FlowAt(d)'
  <2>1. Shown(d)' = Shown(d)
    BY <1>6, ShownStays DEF Send, readerVars, appVars
  <2>2. CASE d # c
    BY <1>1, <1>4, <1>6, <2>1, <2>2, FlowStays DEF Send, readerVars
  <2>3. CASE d = c
    <3>1. /\ cli[d] = "open" /\ wire'[d] = wire[d] \o WriteStreamByHeader(data)
          /\ cli'[d] = "open" /\ sent'[d] = Append(sent[d], data) /\ rpc'[d] = rpc[d]
      BY <1>4, <1>6, <2>3 DEF Send, readerVars
    <3>2. data \in Messages
      BY Inputs DEF Messages
    <3>3. Flow(wire[d] \o WriteStreamByHeader(data), "open", Append(sent[d], data), rpc[d],
               Shown(d))
      BY <1>1, <1>2, <1>3, <3>1, <3>2, FlowSends
    <3> QED
      BY <2>1, <3>1, <3>3 DEF FlowAt
  <2> QED
    BY <2>2, <2>3
<1>7. ASSUME NEW c \in Channels, NEW lost \in 0 .. MaxLost, End(c, lost)
      PROVE  FlowAt(d)'
  <2>1. Shown(d)' = Shown(d)
    BY <1>7, ShownStays DEF End, readerVars, appVars
  <2>2. CASE d # c
    BY <1>1, <1>4, <1>7, <2>1, <2>2, FlowStays DEF End, readerVars
  <2>3. CASE d = c
    <3>1. /\ wire'[d] = SubSeq(wire[d], 1, Len(wire[d]) - lost) /\ lost <= Len(wire[d])
          /\ cli'[d] = "ended" /\ sent'[d] = sent[d] /\ rpc'[d] = rpc[d]
      BY <1>4, <1>7, <2>3 DEF End, readerVars
    <3>2. Len(wire[d]) - lost \in 0 .. Len(wire[d])
      BY <1>2, <3>1, Numbers
    <3>3. Flow(SubSeq(wire[d], 1, Len(wire[d]) - lost), "ended", sent[d], rpc[d], Shown(d))
      BY <1>1, <1>2, <3>2, FlowEnds
    <3> QED
      BY <2>1, <3>1, <3>3 DEF FlowAt
  <2> QED
    BY <2>2, <2>3
<1>8. ASSUME NEW c \in Channels, Accept(c)
      PROVE  FlowAt(d)'
  <2>1. Shown(d)' = Shown(d)
    BY <1>8, ShownStays DEF Accept, appVars
  <2>2. CASE d # c
    BY <1>1, <1>4, <1>8, <2>1, <2>2, FlowStays DEF Accept, ReaderGoes
  <2>3. CASE d = c
    <3>1. /\ rpc[d] = "info" /\ HasInfo(wire[d]) /\ wire'[d] = AfterInfo(wire[d])
          /\ cli'[d] = cli[d] /\ sent'[d] = sent[d] /\ rpc'[d] = "read"
      BY <1>4, <1>8, <2>3 DEF Accept, ReaderGoes
    <3>2. Flow(AfterInfo(wire[d]), cli[d], sent[d], "read", Shown(d))
      BY <1>1, <1>2, <3>1, FlowAccepts
    <3> QED
      BY <2>1, <3>1, <3>2 DEF FlowAt
  <2> QED
    BY <2>2, <2>3
<1>9. ASSUME NEW c \in Channels, Reject(c)
      PROVE  FlowAt(d)'
  <2>1. Shown(d)' = Shown(d)
    BY <1>9, ShownStays DEF Reject, appVars
  <2>2. CASE d # c
    BY <1>1, <1>4, <1>9, <2>1, <2>2, FlowStays DEF Reject, ReaderGoes
  <2>3. CASE d = c
    <3>1. /\ rpc[d] = "info" /\ wire'[d] = <<>> /\ cli'[d] = "ended" /\ sent'[d] = sent[d]
          /\ rpc'[d] = "rejected"
      BY <1>4, <1>9, <2>3 DEF Reject, ReaderGoes
    <3>2. Flow(<<>>, "ended", sent[d], "rejected", Shown(d))
      BY <1>1, <3>1, FlowLeaves
    <3> QED
      BY <2>1, <3>1, <3>2 DEF FlowAt
  <2> QED
    BY <2>2, <2>3
<1>10. ASSUME NEW c \in Channels, ReadMessage(c)
       PROVE  FlowAt(d)'
  <2>1. UNCHANGED <<current, got>>
    BY <1>10 DEF ReadMessage, appVars
  <2>2. CASE d # c
    <3>1. Shown(d)' = Shown(d)
      BY <1>4, <1>10, <2>1, <2>2 DEF ReadMessage, Shown, Pending
    <3> QED
      BY <1>1, <1>4, <1>10, <2>2, <3>1, FlowStays DEF ReadMessage, ReaderGoes
  <2>3. CASE d = c
    <3>1. /\ rpc[d] = "read" /\ HasMessage(wire[d]) /\ wire'[d] = AfterMessage(wire[d])
          /\ cli'[d] = cli[d] /\ sent'[d] = sent[d] /\ inHand'[d] = MessageOf(wire[d])
          /\ rpc'[d] = IF MessageOf(wire[d]) = <<>> THEN "exit" ELSE "offer"
      BY <1>4, <1>10, <2>3 DEF ReadMessage, ReaderGoes
    <3>2. inHand[d] = <<>>
      BY <3>1 DEF Types, ReaderTypes
    <3> DEFINE x == got[d] \o Pending(d)
    <3>3. x \in Messages
      BY ShownTypes
    <3>4. Shown(d)' = x \o MessageOf(wire[d])
      BY <2>1, <3>1 DEF Shown, Pending
    <3>5. Shown(d) = x \o <<>>
      BY <3>2 DEF Shown
    <3> HIDE DEF x
    <3>6. Shown(d) = x
      BY <3>3, <3>5, MessageConcat
    <3>7. Flow(AfterMessage(wire[d]), cli[d], sent[d],
               IF MessageOf(wire[d]) = <<>> THEN "exit" ELSE "offer", x \o MessageOf(wire[d]))
      BY <1>1, <1>2, <3>1, <3>3, <3>6, FlowReads
    <3> QED
      BY <3>1, <3>4, <3>7 DEF FlowAt
  <2> QED
    BY <2>2, <2>3
<1>11. ASSUME NEW c \in Channels, ReadFails(c) \/ CloseChannel(c)
       PROVE  FlowAt(d)'
  <2>1. Shown(d)' = Shown(d)
    BY <1>11, ShownStays DEF ReadFails, CloseChannel, appVars
  <2>2. CASE d # c
    BY <1>1, <1>4, <1>11, <2>1, <2>2, FlowStays
    DEF ReadFails, CloseChannel, ReaderGoes, peerVars
  <2>3. CASE d = c
    <3>1. /\ wire'[d] = wire[d] /\ cli'[d] = cli[d] /\ sent'[d] = sent[d]
          /\ rpc'[d] \in {"exit", "closed"}
      BY <1>4, <1>11, <2>3 DEF ReadFails, CloseChannel, ReaderGoes, peerVars
    <3>2. Flow(wire[d], cli[d], sent[d], rpc'[d], Shown(d))
      BY <1>1, <3>1, FlowLeaves
    <3> QED
      BY <2>1, <3>1, <3>2 DEF FlowAt
  <2> QED
    BY <2>2, <2>3
<1>12. ASSUME NEW c \in Channels, Disconnect(c)
       PROVE  FlowAt(d)'
  <2>1. Shown(d)' = Shown(d)
    BY <1>12, ShownStays DEF Disconnect, appVars
  <2>2. CASE d # c
    BY <1>1, <1>4, <1>12, <2>1, <2>2, FlowStays DEF Disconnect, ReaderGoes
  <2>3. CASE d = c
    <3>1. sent'[d] = sent[d] /\ rpc'[d] = "gone"
      BY <1>4, <1>12, <2>3 DEF Disconnect, ReaderGoes
    <3>2. Flow(wire'[d], cli'[d], sent[d], "gone", Shown(d))
      BY <1>1, FlowLeaves
    <3> QED
      BY <2>1, <3>1, <3>2 DEF FlowAt
  <2> QED
    BY <2>2, <2>3
<1>13. ASSUME NEW c \in Channels, ClearSlot(c)
       PROVE  FlowAt(d)'
  <2>1. Shown(d)' = Shown(d)
    BY <1>13, ShownStays DEF ClearSlot, readerVars, appVars
  <2>2. CASE d # c
    BY <1>1, <1>4, <1>13, <2>1, <2>2, FlowStays DEF ClearSlot, readerVars
  <2>3. CASE d = c
    <3>1. wire'[d] = <<>> /\ cli'[d] = "ended" /\ sent'[d] = sent[d] /\ rpc'[d] = rpc[d]
      BY <1>4, <1>13, <2>3 DEF ClearSlot, readerVars
    <3>2. Flow(<<>>, "ended", sent[d], rpc[d], Shown(d))
      BY <1>1, <1>2, FlowStops
    <3> QED
      BY <2>1, <3>1, <3>2 DEF FlowAt
  <2> QED
    BY <2>2, <2>3
<1>14. ASSUME NEW s \in Sockets, CloseConn(s)
       PROVE  FlowAt(d)'
  <2>1. Shown(d)' = Shown(d)
    BY <1>14, ShownStays DEF CloseConn, readerVars, appVars
  <2>2. CASE d[1] # s
    BY <1>1, <1>4, <1>14, <2>1, <2>2, FlowStays DEF CloseConn, readerVars
  <2>3. CASE d[1] = s
    <3>1. wire'[d] = <<>> /\ cli'[d] = "ended" /\ sent'[d] = sent[d] /\ rpc'[d] = rpc[d]
      BY <1>4, <1>14, <2>3 DEF CloseConn, readerVars
    <3>2. Flow(<<>>, "ended", sent[d], rpc[d], Shown(d))
      BY <1>1, <1>2, FlowStops
    <3> QED
      BY <2>1, <3>1, <3>2 DEF FlowAt
  <2> QED
    BY <2>2, <2>3
<1>15. ASSUME NEW c \in Channels, Select(c)
       PROVE  FlowAt(d)'
  <2>1. /\ apc = "select" /\ rpc[c] = "offer" /\ rpc' = [rpc EXCEPT ![c] = "read"]
        /\ current' = [from |-> c, rest |-> inHand[c]]
        /\ inHand' = [inHand EXCEPT ![c] = <<>>]
        /\ UNCHANGED <<wire, cli, sent, got>>
    BY <1>15 DEF Select, AppGoes, ReaderGoes, peerVars
  <2>2. current = None
    BY <2>1 DEF Types, AppTypes
  <2>3. Pending(d) = <<>>
    BY <2>2 DEF Pending
  <2>4. got[d] \in Messages /\ inHand[d] \in Messages /\ got[d] \o inHand[d] \in Messages
    BY <1>4, MessageConcat
  <2>5. Shown(d) = got[d] \o inHand[d]
    BY <2>3, <2>4, MessageConcat DEF Shown
  <2>6. CASE d # c
    <3>1. current'.from # d
      BY <2>1, <2>6
    <3>2. Pending(d)' = <<>> /\ inHand'[d] = inHand[d] /\ got'[d] = got[d]
      BY <1>4, <2>1, <2>6, <3>1 DEF Pending
    <3>3. Shown(d)' = Shown(d)
      BY <2>3, <3>2 DEF Shown
    <3>4. rpc'[d] = rpc[d]
      BY <1>4, <2>1, <2>6
    <3> QED
      BY <1>1, <2>1, <3>3, <3>4, FlowStays
  <2>7. CASE d = c
    <3>1. inHand[d] # <<>>
      BY <2>1, <2>7 DEF Types, ReaderTypes
    <3>2. current' # None
      <4>1. current'.rest # <<>> /\ None.rest = <<>>
        BY <2>1, <2>7, <3>1 DEF None
      <4> QED
        BY <4>1
    <3>3. Pending(d)' = inHand[d] /\ inHand'[d] = <<>> /\ got'[d] = got[d]
      BY <1>4, <2>1, <2>7, <3>2 DEF Pending
    <3>4. Shown(d)' = (got[d] \o inHand[d]) \o <<>>
      BY <3>3 DEF Shown
    <3>5. Shown(d)' = Shown(d)
      BY <2>4, <2>5, <3>4, MessageConcat
    <3>6. Flow(wire[d], cli[d], sent[d], "read", Shown(d))
      BY <1>1, <2>1, <2>7, FlowTaken
    <3>7. rpc'[d] = "read"
      BY <1>4, <2>1, <2>7
    <3> QED
      BY <2>1, <3>5, <3>6, <3>7 DEF FlowAt
  <2> QED
    BY <2>6, <2>7
<1>16. ASSUME NEW n \in Sizes, Copy(n)
       PROVE  FlowAt(d)'
  <2> DEFINE e == current.from
             all == current.rest
             k == IF n < Len(all) THEN n ELSE Len(all)
             copied == SubSeq(all, 1, k)
             rest == SubSeq(all, Len(copied) + 1, Len(all))
  <2>1. current \in Buffers /\ current # None
    BY <1>16 DEF Types, AppTypes, Copy, AppGoes
  <2>2. e \in Channels /\ all \in Messages
    BY <2>1 DEF Buffers
  <2>3. k \in 0 .. Len(all)
    BY <2>2, Inputs DEF Messages
  <2>4. copied \in Messages /\ Len(copied) = k
    BY <2>2, <2>3, CutInTwo
  <2>5. rest \in Messages /\ copied \o rest = all
    BY <2>2, <2>3, <2>4, CutInTwo
  <2>6. /\ got' = [got EXCEPT ![e] = @ \o copied]
        /\ current' = IF rest = <<>> THEN None ELSE [current EXCEPT !.rest = rest]
        /\ UNCHANGED <<wire, cli, sent, rpc, inHand>>
    BY <1>16 DEF Copy, AppGoes, peerVars, readerVars
  <2> HIDE DEF copied, rest
  <2>7. current' # None => current'.from = e /\ current'.rest = rest
    BY <2>1, <2>6 DEF Buffers
  <2>8. Shown(d)' = Shown(d)
    <3>1. CASE d # e
      <4>1. Pending(d)' = <<>> /\ Pending(d) = <<>>
        BY <2>7, <3>1 DEF Pending
      <4>2. got'[d] = got[d] /\ inHand' = inHand
        BY <1>4, <2>6, <3>1
      <4> QED
        BY <4>1, <4>2 DEF Shown
    <3>2. CASE d = e
      <4>1. Pending(d) = all
        BY <2>1, <3>2 DEF Pending
      <4>2. Pending(d)' = rest
        <5>1. CASE rest = <<>>
          BY <2>6, <5>1 DEF Pending
        <5>2. CASE rest # <<>>
          <6>1. current' = [current EXCEPT !.rest = rest]
            BY <2>6, <5>2
          <6>2. current'.rest = rest /\ current'.from = e
            BY <2>1, <6>1 DEF Buffers
          <6>3. current' # None
            BY <5>2, <6>2 DEF None
          <6> QED
            BY <3>2, <6>2, <6>3 DEF Pending
        <5> QED
          BY <5>1, <5>2
      <4>3. got'[d] = got[d] \o copied /\ inHand'[d] = inHand[d]
        BY <1>4, <2>6, <3>2
      <4> DEFINE g == got[d]
      <4>4. g \in Messages
        BY <1>4
      <4> HIDE DEF g, all
      <4>5. g \in Messages /\ copied \in Messages /\ rest \in Messages
        BY <2>4, <2>5, <4>4
      <4>6. (g \o copied) \o rest = g \o (copied \o rest)
        BY <4>5, Regroup, Zenon
      <4>7. (g \o copied) \o rest = g \o all
        BY <2>5, <4>6
      <4>8. got'[d] \o Pending(d)' = got[d] \o Pending(d)
        BY <4>1, <4>2, <4>3, <4>7 DEF g
      <4> QED
        BY <4>3, <4>8 DEF Shown
    <3> QED
      BY <3>1, <3>2
  <2> QED
    BY <1>1, <2>6, <2>8, FlowStays
<1>17. ASSUME UNCHANGED <<peerVars, readerVars, current, got>>
       PROVE  FlowAt(d)'
  <2>1. Shown(d)' = Shown(d)
    BY <1>17, ShownStays DEF readerVars
  <2> QED
    BY <1>1, <1>17, <2>1, FlowStays DEF peerVars, readerVars
<1>18. ASSUME \/ \E s \in Sockets : CloseSocket(s) \/ OnDisconnect(s)
              \/ ClearMap \/ ServerCloses \/ ForgetServer
              \/ Call \/ WaitEnds \/ List \/ \E c \in Channels : SelectClosed(c)
              \/ UNCHANGED vars
       PROVE  UNCHANGED <<peerVars, readerVars, current, got>>
  BY <1>18 DEF CloseSocket, OnDisconnect, ClearMap, ServerCloses, ForgetServer, Call, WaitEnds,
     List, SelectClosed, vars, appVars
<1> QED
  BY <1>5, <1>6, <1>7, <1>8, <1>9, <1>10, <1>11, <1>12, <1>13, <1>14, <1>15, <1>16, <1>17, <1>18
  DEF Next, ClientStep, ReaderStep, CloseStep, ServerStep, Receive

-------------------------------------------------------------------------------
(* Theorems of the receive.                                                *)

(* The inductive invariant of the receive: its types, and for each channel
   that what is in the server's hands and what is under way make up what was
   sent. *)
THEOREM ReceiveInvariance == Spec => [](Types /\ Flows)
PROOF
<1>1. Init => Types /\ Flows
  BY TypesInit, FlowsInit
<1>2. Types /\ Flows /\ [Next]_vars => Types' /\ Flows'
  BY TypesNext, FlowsNext
<1> QED
  BY <1>1, <1>2, PTL DEF Spec

(* Every reachable state of the receive is well typed, for any number of
   clients, channels and messages. *)
THEOREM ReceiveTypeCorrect == Spec => []ReceiveTypeOK
PROOF
<1>1. Types /\ Flows => ReceiveTypeOK
  BY TypesOfNames
<1> QED
  BY <1>1, ReceiveInvariance, PTL

(* The invariant says of each channel what BytesIntact promises. *)
LEMMA IntactOfFlows == Types /\ Flows => BytesIntact
PROOF
<1> SUFFICES ASSUME Types, Flows, NEW c \in Channels,
                    \A i \in DOMAIN sent[c] : Len(sent[c][i]) < UShort
             PROVE  /\ got[c] = SubSeq(Flat[sent[c]], 1, Len(got[c]))
                    /\ cli[c] = "open" /\ rpc[c] \in {"read", "offer"} =>
                         got[c] \o Pending(c) \o inHand[c] \o Unframed[wire[c]] = Flat[sent[c]]
  BY DEF BytesIntact
<1>1. Carried(wire[c], cli[c], sent[c], rpc[c], Shown(c))
  BY DEF Flows, FlowAt, Flow
<1>2. /\ got[c] \in Messages /\ Pending(c) \in Messages /\ inHand[c] \in Messages
      /\ got[c] \o Pending(c) \in Messages /\ Shown(c) \in Messages
  BY ShownTypes
<1>3. wire[c] \in Messages /\ sent[c] \in Seq(Messages)
  BY PeerValues
<1>4. got[c] = SubSeq(Flat[sent[c]], 1, Len(got[c]))
  <2>1. PICK y \in Messages : Shown(c) \o y = Flat[sent[c]]
    BY <1>1 DEF Carried
  <2> DEFINE g == got[c]
             p == Pending(c)
             h == inHand[c]
             a == Flat[sent[c]]
             ph == p \o h
             phy == ph \o y
  <2>2. g \in Messages /\ p \in Messages /\ h \in Messages
    BY <1>2
  <2>3. ((g \o p) \o h) \o y = a
    BY <2>1 DEF Shown
  <2> HIDE DEF g, p, h, a
  <2>4. ph \in Messages
    BY <2>2, MessageConcat
  <2>5. (g \o p) \o h = g \o ph
    BY <2>2, Regroup, Zenon
  <2> HIDE DEF ph
  <2>6. phy \in Messages
    BY <2>4, MessageConcat
  <2>7. g \in Messages /\ ph \in Messages /\ y \in Messages
    BY <2>2, <2>4
  <2>8. (g \o ph) \o y = g \o phy
    BY <2>7, Regroup, Zenon
  <2> HIDE DEF phy
  <2>9. a = g \o phy
    BY <2>3, <2>5, <2>8
  <2>10. SubSeq(g \o phy, 1, Len(g)) = g
    BY <2>2, <2>6, ConcatLeft DEF Messages
  <2> QED
    BY <2>9, <2>10 DEF g, a
<1>5. ASSUME cli[c] = "open", rpc[c] \in {"read", "offer"}
      PROVE  got[c] \o Pending(c) \o inHand[c] \o Unframed[wire[c]] = Flat[sent[c]]
  <2>1. PICK rest \in Seq(Short) :
          OnItsWay(wire[c], cli[c], Framed(rest)) /\ Shown(c) \o Flat[rest] = Flat[sent[c]]
    BY <1>1, <1>5 DEF Carried
  <2>2. wire[c] = Framed(rest)
    BY <1>3, <1>5, <2>1, MessageConcat DEF OnItsWay
  <2>3. Unframed[wire[c]] = Flat[rest]
    BY <2>2, UnframedFramed
  <2> QED
    BY <2>1, <2>3 DEF Shown
<1> QED
  BY <1>4, <1>5

(* openapi.go:453-533 with stream.go:126 and channel.go:140: the application
   has of each channel a prefix of what its client sent on it, and nothing is
   lost while both ends of the stream are open, for any messages that two
   bytes can tell the length of. *)
THEOREM BytesArriveIntact == Spec => []BytesIntact
PROOF
<1>1. Types /\ Flows => BytesIntact
  BY IntactOfFlows
<1> QED
  BY <1>1, ReceiveInvariance, PTL

===============================================================================
