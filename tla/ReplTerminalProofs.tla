------------------------ MODULE ReplTerminalProofs ------------------------
(***************************************************************************)
(* Theorems about ReplTerminal, for every set of letters, number of tiles, *)
(* size of the print buffers and of the history, and choice of texts and   *)
(* completions: the command line the terminal shows is the one readline    *)
(* has, and what the host reports on a carriage return.                    *)
(***************************************************************************)
EXTENDS ReplTerminal, SequenceTheorems, NaturalsInduction, WellFoundedInduction, TLAPS

---------------------------------------------------------------------------
(***************************************************************************)
(* Display, a recursive function of the bytes, does what its definition    *)
(* says: the rows that a sequence of bytes goes through exist, by the      *)
(* least number of bytes for which they would not, and are unique.         *)
(***************************************************************************)

\* f is the terminal from s on, byte by byte.
Steps(f, s, bytes) ==
    f[0] = s /\ \A i \in 1 .. Len(bytes) : f[i] = Shown(f[i - 1], bytes[i])

\* A set of numbers that is not empty has a least one.
LEMMA LeastOf ==
    ASSUME NEW T \in SUBSET Nat, T # {}
    PROVE  \E n \in T : \A m \in T : n <= m
  <1>1. PICK n \in T : \A m \in T : ~(<<m, n>> \in OpToRel(<, Nat))
    BY WFMin, NatLessThanWellFounded
  <1>2. \A m \in T : m \in Nat /\ n \in Nat /\ ~(m < n)
    BY <1>1 DEF OpToRel
  <1> QED
    BY <1>2

\* The rows a sequence of bytes goes through exist.
LEMMA StepsExist ==
    ASSUME NEW s, NEW bytes, NEW n \in Nat
    PROVE  \E f : f = [i \in 0 .. n |-> IF i = 0 THEN s ELSE Shown(f[i - 1], bytes[i])]
  <1> DEFINE Good(m) == \E f : f = [i \in 0 .. m |-> IF i = 0 THEN s ELSE Shown(f[i - 1], bytes[i])]
             T == {m \in Nat : ~Good(m)}
  <1>1. SUFFICES ASSUME T # {} PROVE FALSE
    OBVIOUS
  <1>2. PICK m \in T : \A k \in T : m <= k
    <2> HIDE DEF T
    <2>1. T \in SUBSET Nat
      BY DEF T
    <2> QED
      BY <1>1, <2>1, LeastOf
  <1>3. CASE m = 0
    <2> DEFINE f == [i \in 0 .. 0 |-> s]
    <2>1. f = [i \in 0 .. 0 |-> IF i = 0 THEN s ELSE Shown(f[i - 1], bytes[i])]
      OBVIOUS
    <2>2. Good(0)
      BY <2>1
    <2> QED
      BY <1>3, <2>2
  <1>4. CASE m # 0
    <2>1. m \in Nat /\ m - 1 \in Nat /\ ~(m <= m - 1)
      BY <1>4
    <2>2. Good(m - 1)
      BY <1>2, <2>1
    <2>3. PICK f : f = [i \in 0 .. m - 1 |-> IF i = 0 THEN s ELSE Shown(f[i - 1], bytes[i])]
      BY <2>2
    <2> DEFINE g == [i \in 0 .. m |-> IF i = m THEN Shown(f[m - 1], bytes[m]) ELSE f[i]]
    <2>4. \A i \in 0 .. m : g[i] = IF i = 0 THEN s ELSE Shown(g[i - 1], bytes[i])
      <3> SUFFICES ASSUME NEW i \in 0 .. m
                   PROVE  g[i] = IF i = 0 THEN s ELSE Shown(g[i - 1], bytes[i])
        OBVIOUS
      <3>1. CASE i = 0
        BY <1>4, <2>1, <2>3, <3>1
      <3>2. CASE i # 0
        <4>1. i - 1 \in 0 .. m /\ i - 1 # m /\ i - 1 \in 0 .. m - 1
          BY <2>1, <3>2
        <4>2. g[i - 1] = f[i - 1]
          BY <4>1
        <4>3. CASE i = m
          BY <3>2, <4>2, <4>3
        <4>4. CASE i # m
          <5>1. i \in 0 .. m - 1
            BY <2>1, <4>4
          <5>2. g[i] = f[i]
            BY <4>4
          <5> QED
            BY <2>3, <3>2, <4>2, <5>1, <5>2
        <4> QED
          BY <4>3, <4>4
      <3> QED
        BY <3>1, <3>2
    <2>5. g = [i \in 0 .. m |-> IF i = 0 THEN s ELSE Shown(g[i - 1], bytes[i])]
      <3>1. g = [i \in 0 .. m |-> g[i]]
        OBVIOUS
      <3> HIDE DEF g
      <3> QED
        BY <2>4, <3>1
    <2>6. Good(m)
      <3> HIDE DEF g
      <3> QED
        BY <2>5
    <2> QED
      BY <2>6
  <1> QED
    BY <1>3, <1>4

\* Display computes the last of them.
LEMMA DisplaySteps ==
    ASSUME NEW s, NEW bytes, Len(bytes) \in Nat
    PROVE  \E f : Steps(f, s, bytes) /\ Display(s, bytes) = f[Len(bytes)]
  <1> DEFINE n == Len(bytes)
             f == CHOOSE f : f = [i \in 0 .. n |-> IF i = 0 THEN s ELSE Shown(f[i - 1], bytes[i])]
  <1>1. f = [i \in 0 .. n |-> IF i = 0 THEN s ELSE Shown(f[i - 1], bytes[i])]
    BY StepsExist
  <1>2. Display(s, bytes) = f[n]
    BY DEF Display
  <1> HIDE DEF f
  <1>3. Steps(f, s, bytes)
    BY <1>1 DEF Steps
  <1> QED
    BY <1>2, <1>3

\* There is one such sequence of rows only.
LEMMA StepsDisplay ==
    ASSUME NEW s, NEW bytes, Len(bytes) \in Nat, NEW f, Steps(f, s, bytes)
    PROVE  Display(s, bytes) = f[Len(bytes)]
  <1> DEFINE n == Len(bytes)
  <1>1. PICK g : Steps(g, s, bytes) /\ Display(s, bytes) = g[n]
    BY DisplaySteps
  <1> DEFINE T == {m \in Nat : m <= n /\ f[m] # g[m]}
  <1>2. SUFFICES ASSUME T # {} PROVE FALSE
    BY <1>1
  <1>3. PICK m \in T : \A k \in T : m <= k
    <2>1. T \in SUBSET Nat
      OBVIOUS
    <2> HIDE DEF T
    <2> QED
      BY <1>2, <2>1, LeastOf
  <1>4. m # 0
    BY <1>1 DEF Steps
  <1>5. m \in 1 .. n /\ m - 1 \in Nat /\ m - 1 <= n /\ ~(m <= m - 1)
    BY <1>4
  <1>6. f[m - 1] = g[m - 1]
    BY <1>3, <1>5
  <1>7. f[m] = g[m]
    BY <1>1, <1>5, <1>6 DEF Steps
  <1> QED
    BY <1>7

\* No byte changes nothing.
LEMMA DisplayEmpty ==
    ASSUME NEW s
    PROVE  Display(s, <<>>) = s
  <1> DEFINE f == [i \in 0 .. 0 |-> s]
  <1>1. Len(<<>>) = 0 /\ Len(<<>>) \in Nat
    OBVIOUS
  <1>2. Steps(f, s, <<>>)
    BY <1>1 DEF Steps
  <1>3. f[0] = s
    OBVIOUS
  <1> HIDE DEF f
  <1> QED
    BY <1>1, <1>2, <1>3, StepsDisplay

\* One byte is shown.
LEMMA DisplayByte ==
    ASSUME NEW s, NEW b
    PROVE  Display(s, <<b>>) = Shown(s, b)
  <1> DEFINE f == [i \in 0 .. 1 |-> IF i = 0 THEN s ELSE Shown(s, b)]
             x == <<b>>
  <1>1. Len(x) = 1 /\ x[1] = b
    OBVIOUS
  <1>2. f[0] = s /\ f[1] = Shown(s, b)
    OBVIOUS
  <1> HIDE DEF f, x
  <1>3. Steps(f, s, x)
    BY <1>1, <1>2 DEF Steps
  <1>4. Display(s, x) = f[Len(x)]
    <2>1. Len(x) \in Nat
      BY <1>1
    <2> QED
      BY <1>3, <2>1, StepsDisplay
  <1> QED
    BY <1>1, <1>2, <1>4 DEF x

\* What is displayed in two parts is displayed one part after the other.
LEMMA DisplayConcat ==
    ASSUME NEW S, NEW s, NEW a \in Seq(S), NEW b \in Seq(S)
    PROVE  Display(s, a \o b) = Display(Display(s, a), b)
  <1> DEFINE n == Len(a)
             m == Len(b)
             ab == a \o b
  <1>1. n \in Nat /\ m \in Nat
    BY LenProperties
  <1>2. /\ Len(ab) = n + m
        /\ \A i \in 1 .. n + m : ab[i] = IF i <= n THEN a[i] ELSE b[i - n]
    BY ConcatProperties
  <1> HIDE DEF n, m, ab
  <1>3. PICK f : Steps(f, s, ab) /\ Display(s, ab) = f[n + m]
    BY <1>1, <1>2, DisplaySteps
  <1>4. f[0] = s /\ \A i \in 1 .. n + m : f[i] = Shown(f[i - 1], ab[i])
    BY <1>2, <1>3 DEF Steps
  <1>5. Display(s, a) = f[n]
    <2>1. \A i \in 1 .. n : f[i] = Shown(f[i - 1], a[i])
      BY <1>1, <1>2, <1>4
    <2>2. Steps(f, s, a)
      BY <1>4, <2>1 DEF Steps, n
    <2> QED
      BY <1>1, <2>2, StepsDisplay DEF n
  <1> DEFINE g == [i \in 0 .. m |-> f[n + i]]
  <1>6. g[0] = f[n] /\ g[m] = f[n + m]
    BY <1>1
  <1>7. \A i \in 1 .. m : g[i] = Shown(g[i - 1], b[i])
    <2> SUFFICES ASSUME NEW i \in 1 .. m PROVE g[i] = Shown(g[i - 1], b[i])
      OBVIOUS
    <2>1. /\ i \in 0 .. m /\ i - 1 \in 0 .. m /\ n + i \in 1 .. n + m /\ ~(n + i <= n)
          /\ (n + i) - n = i /\ (n + i) - 1 = n + (i - 1)
      BY <1>1
    <2>2. g[i] = f[n + i] /\ g[i - 1] = f[n + (i - 1)]
      BY <2>1
    <2> HIDE DEF g
    <2>3. f[n + i] = Shown(f[n + (i - 1)], ab[n + i]) /\ ab[n + i] = b[i]
      BY <1>2, <1>4, <2>1
    <2> QED
      BY <2>2, <2>3
  <1> HIDE DEF g
  <1>8. Steps(g, f[n], b)
    BY <1>6, <1>7 DEF Steps, m
  <1>9. Display(f[n], b) = g[m]
    BY <1>1, <1>8, StepsDisplay DEF m
  <1> QED
    BY <1>3, <1>5, <1>6, <1>9 DEF ab

---------------------------------------------------------------------------
(***************************************************************************)
(* Bytes, rows, and what plain bytes do to a row.                          *)
(***************************************************************************)

Bytes == STRING \cup Letters
         \cup {"cr", "nl", "bs", "ESC", "[", "D", "K", ">", ".", " ", "m"}
         \cup {"0", "1", "2", "3", "4", "5", "6", "7", "8", "9"}

\* A row with its cursor, and no command going on.
At(row, col) == [row |-> row, col |-> col, num |-> NoNumber]

\* A byte the terminal just shows.
IsPlain(b) == b \notin {"ESC", "bs", "cr", "nl"}

\* A function over 1 .. n is a sequence.
LEMMA FunctionIsSequence ==
    ASSUME NEW S, NEW n \in Nat, NEW f \in [1 .. n -> S]
    PROVE  f \in Seq(S) /\ Len(f) = n
  OBVIOUS

\* The first n bytes of a sequence.
LEMMA PrefixProperties ==
    ASSUME NEW S, NEW x \in Seq(S), NEW n \in Nat, n <= Len(x)
    PROVE  /\ SubSeq(x, 1, n) \in Seq(S) /\ Len(SubSeq(x, 1, n)) = n
           /\ \A i \in 1 .. n : SubSeq(x, 1, n)[i] = x[i]
  <1>1. Len(x) \in Nat
    BY LenProperties
  <1>2. \A i \in 1 .. n : x[i] \in S
    BY <1>1, ElementOfSeq
  <1>3. 1 \in Int /\ n \in Int
    OBVIOUS
  <1>4. /\ SubSeq(x, 1, n) \in Seq(S)
        /\ Len(SubSeq(x, 1, n)) = IF 1 <= n THEN n - 1 + 1 ELSE 0
        /\ \A i \in 1 .. n - 1 + 1 : SubSeq(x, 1, n)[i] = x[1 + i - 1]
    BY <1>2, <1>3, SubSeqProperties
  <1>5. n - 1 + 1 = n /\ \A i \in 1 .. n : 1 + i - 1 = i
    OBVIOUS
  <1> QED
    BY <1>4, <1>5

\* The bytes of a sequence from the one behind place n on.
LEMMA SuffixProperties ==
    ASSUME NEW S, NEW x \in Seq(S), NEW n \in Nat, n <= Len(x)
    PROVE  /\ SubSeq(x, n + 1, Len(x)) \in Seq(S) /\ Len(SubSeq(x, n + 1, Len(x))) = Len(x) - n
           /\ \A i \in 1 .. Len(x) - n : SubSeq(x, n + 1, Len(x))[i] = x[n + i]
  <1> DEFINE l == Len(x)
             y == SubSeq(x, n + 1, l)
  <1>1. l \in Nat
    BY LenProperties
  <1>2. \A i \in n + 1 .. l : x[i] \in S
    BY <1>1, ElementOfSeq
  <1>3. n + 1 \in Int /\ l \in Int
    BY <1>1
  <1>4. /\ y \in Seq(S)
        /\ Len(y) = IF n + 1 <= l THEN l - (n + 1) + 1 ELSE 0
        /\ \A i \in 1 .. l - (n + 1) + 1 : y[i] = x[n + 1 + i - 1]
    BY <1>2, <1>3, SubSeqProperties
  <1> HIDE DEF y, l
  <1>5. n <= l
    BY DEF l
  <1>6. l - (n + 1) + 1 = l - n /\ \A i \in 1 .. l - n : n + 1 + i - 1 = n + i
    BY <1>1
  <1>7. Len(y) = l - n
    BY <1>1, <1>4, <1>5
  <1>8. \A i \in 1 .. l - n : y[i] = x[n + i]
    BY <1>4, <1>6
  <1> QED
    BY <1>4, <1>7, <1>8 DEF y, l

\* A plain byte takes the place at the cursor.
LEMMA ShownPlain ==
    ASSUME NEW R \in Seq(Bytes), NEW c \in 0 .. Len(R), NEW b \in Bytes, IsPlain(b),
           NEW n, n = IF c < Len(R) THEN Len(R) ELSE c + 1
    PROVE  Shown(At(R, c), b) = At([i \in 1 .. n |-> IF i = c + 1 THEN b ELSE R[i]], c + 1)
  <1> DEFINE l == Len(R)
             A == SubSeq(R, 1, c)
             Z == SubSeq(R, c + 2, l)
             Q == [i \in 1 .. n |-> IF i = c + 1 THEN b ELSE R[i]]
             AB == A \o <<b>>
  <1>0. \A p, q \in Nat : (p + 1) + (q - (p + 1)) = q
    OBVIOUS
  <1>1. l \in Nat /\ c \in Nat /\ n \in Nat
    BY LenProperties
  <1>2. A \in Seq(Bytes) /\ Len(A) = c /\ \A i \in 1 .. c : A[i] = R[i]
    BY <1>1, PrefixProperties
  <1>3. /\ Z \in Seq(Bytes) /\ Len(Z) = n - (c + 1)
        /\ \A i \in 1 .. n - (c + 1) : Z[i] = R[(c + 1) + i]
    <2>1. CASE c < l
      <3>1. c + 1 \in Nat /\ c + 1 <= l /\ (c + 1) + 1 = c + 2
        BY <1>1, <2>1
      <3>2. /\ SubSeq(R, (c + 1) + 1, l) \in Seq(Bytes)
            /\ Len(SubSeq(R, (c + 1) + 1, l)) = l - (c + 1)
            /\ \A i \in 1 .. l - (c + 1) : SubSeq(R, (c + 1) + 1, l)[i] = R[(c + 1) + i]
        BY <3>1, SuffixProperties
      <3>3. n = l
        BY <2>1
      <3> QED
        BY <3>1, <3>2, <3>3
    <2>2. CASE ~(c < l)
      <3>1. c = l /\ n = c + 1 /\ c + 2 > l /\ c + 2 \in Int /\ l \in Int
        BY <1>1, <2>2
      <3>2. Z = <<>>
        BY <3>1, SubSeqEmpty
      <3>3. n - (c + 1) = 0
        BY <1>1, <3>1
      <3> QED
        BY <3>2, <3>3
    <2> QED
      BY <2>1, <2>2
  <1>4. <<b>> \in Seq(Bytes) /\ Len(<<b>>) = 1 /\ <<b>>[1] = b
    OBVIOUS
  <1> DEFINE B1 == <<b>>
  <1> HIDE DEF A, Z, B1
  <1>5. /\ AB \in Seq(Bytes) /\ Len(AB) = c + 1
        /\ \A i \in 1 .. c + 1 : AB[i] = IF i <= c THEN R[i] ELSE b
    <2>1. B1 \in Seq(Bytes) /\ Len(B1) = 1 /\ B1[1] = b
      BY <1>4 DEF B1
    <2>2. /\ A \o B1 \in Seq(Bytes) /\ Len(A \o B1) = Len(A) + Len(B1)
          /\ \A i \in 1 .. Len(A) + Len(B1) : (A \o B1)[i] = IF i <= Len(A) THEN A[i] ELSE B1[i - Len(A)]
      BY <1>2, <2>1, ConcatProperties
    <2> DEFINE X == A \o B1
    <2>3. /\ X \in Seq(Bytes) /\ Len(X) = c + 1
          /\ \A i \in 1 .. c + 1 : X[i] = IF i <= c THEN A[i] ELSE B1[i - c]
      BY <1>1, <1>2, <2>1, <2>2
    <2> HIDE DEF X
    <2>4. ASSUME NEW i \in 1 .. c + 1 PROVE X[i] = IF i <= c THEN R[i] ELSE b
      <3>1. CASE i <= c
        BY <1>1, <1>2, <2>3, <3>1
      <3>2. CASE ~(i <= c)
        <4>1. i - c = 1
          BY <1>1, <3>2
        <4> QED
          BY <2>1, <2>3, <3>2, <4>1
      <3> QED
        BY <3>1, <3>2
    <2>5. X = AB
      BY DEF X, B1
    <2> QED
      BY <2>3, <2>4, <2>5
  <1> HIDE DEF AB
  <1>6. /\ AB \o Z \in Seq(Bytes) /\ Len(AB \o Z) = (c + 1) + (n - (c + 1))
        /\ \A i \in 1 .. (c + 1) + (n - (c + 1)) :
              (AB \o Z)[i] = IF i <= c + 1 THEN AB[i] ELSE Z[i - (c + 1)]
    <2>1. /\ AB \o Z \in Seq(Bytes) /\ Len(AB \o Z) = Len(AB) + Len(Z)
          /\ \A i \in 1 .. Len(AB) + Len(Z) :
                (AB \o Z)[i] = IF i <= Len(AB) THEN AB[i] ELSE Z[i - Len(AB)]
      BY <1>3, <1>5, ConcatProperties
    <2> QED
      BY <1>3, <1>5, <2>1
  <1> DEFINE W == AB \o Z
  <1> HIDE DEF W
  <1>7. W \in Seq(Bytes) /\ Len(W) = n
    <2>1. (c + 1) + (n - (c + 1)) = n
      BY <1>0, <1>1
    <2> QED
      BY <1>6, <2>1 DEF W
  <1>8. \A i \in 1 .. n : W[i] = IF i = c + 1 THEN b ELSE R[i]
    <2> SUFFICES ASSUME NEW i \in 1 .. n PROVE W[i] = IF i = c + 1 THEN b ELSE R[i]
      OBVIOUS
    <2>0. i \in 1 .. (c + 1) + (n - (c + 1))
      BY <1>0, <1>1
    <2>1. CASE i <= c + 1
      <3>1. i \in 1 .. c + 1 /\ (i <= c <=> ~(i = c + 1))
        BY <1>1, <2>1
      <3> QED
        BY <1>5, <1>6, <2>0, <2>1, <3>1 DEF W
    <2>2. CASE ~(i <= c + 1)
      <3>1. i - (c + 1) \in 1 .. n - (c + 1) /\ (c + 1) + (i - (c + 1)) = i /\ i # c + 1
        BY <1>1, <2>2
      <3> QED
        BY <1>3, <1>6, <2>0, <2>2, <3>1 DEF W
    <2> QED
      BY <2>1, <2>2
  <1>9. W = Q
    <2>1. W = [i \in 1 .. n |-> W[i]]
      BY <1>7, LenProperties
    <2> QED
      BY <1>8, <2>1
  <1>10. Shown(At(R, c), b) = [At(R, c) EXCEPT !.row = W, !.col = c + 1]
    BY DEF Shown, At, IsPlain, W, AB, A, Z, l, B1
  <1> QED
    BY <1>9, <1>10 DEF At

\* Plain bytes that continue T from the cursor on leave T.
LEMMA WriteTarget ==
    ASSUME NEW R \in Seq(Bytes), NEW c \in 0 .. Len(R), NEW x \in Seq(Bytes),
           \A i \in 1 .. Len(x) : IsPlain(x[i]),
           NEW T \in Seq(Bytes), c + Len(x) <= Len(T),
           \A i \in 1 .. c : T[i] = R[i],
           \A i \in 1 .. Len(x) : x[i] = T[c + i],
           R = T \/ (Len(R) <= c + Len(x) /\ Len(T) = c + Len(x))
    PROVE  Display(At(R, c), x) = At(T, c + Len(x))
  <1> DEFINE l == Len(R)
             m == Len(x)
             Wid(k) == IF c + k > l THEN c + k ELSE l
             W(k) == [i \in 1 .. Wid(k) |-> IF i <= c + k THEN T[i] ELSE R[i]]
             f == [k \in 0 .. m |-> At(W(k), c + k)]
  <1>1. l \in Nat /\ c \in Nat /\ m \in Nat /\ c <= l /\ Len(T) \in Nat
    BY LenProperties
  <1>2. \A i \in 1 .. l : R[i] \in Bytes
    BY ElementOfSeq
  <1>3. \A i \in 1 .. Len(T) : T[i] \in Bytes
    BY ElementOfSeq
  <1>3a. \A i \in 1 .. m : x[i] \in Bytes
    BY ElementOfSeq
  <1> DEFINE lt == Len(T)
  <1>3b. c + m <= lt /\ lt \in Nat /\ (R = T \/ (l <= c + m /\ lt = c + m))
    BY <1>1
  <1>3c. /\ \A i \in 1 .. m : x[i] = T[c + i] /\ IsPlain(x[i])
         /\ \A i \in 1 .. c : T[i] = R[i] 
    OBVIOUS
  <1>3d. R = [i \in 1 .. l |-> R[i]] /\ T = [i \in 1 .. lt |-> T[i]]
    BY LenProperties
  <1>3e. R = T => l = lt
    OBVIOUS
  <1> HIDE DEF l, m, lt
  <1>4. ASSUME NEW k \in 0 .. m PROVE W(k) \in Seq(Bytes) /\ Len(W(k)) = Wid(k) /\ Wid(k) \in Nat
    <2>1. Wid(k) \in Nat
      BY <1>1
    <2>2. W(k) \in [1 .. Wid(k) -> Bytes]
      <3> SUFFICES ASSUME NEW i \in 1 .. Wid(k)
                   PROVE  (IF i <= c + k THEN T[i] ELSE R[i]) \in Bytes
        OBVIOUS
      <3>1. CASE i <= c + k
        <4>1. i \in 1 .. lt
          BY <1>1, <1>3b, <3>1
        <4> QED
          BY <1>3, <3>1, <4>1 DEF lt
      <3>2. CASE ~(i <= c + k)
        <4>1. i \in 1 .. l
          BY <1>1, <3>2
        <4> QED
          BY <1>2, <3>2, <4>1
      <3> QED
        BY <3>1, <3>2
    <2> HIDE DEF W, Wid
    <2> QED
      BY <2>1, <2>2, FunctionIsSequence
  <1>5. W(0) = R
    <2>1. Wid(0) = l /\ c + 0 = c
      BY <1>1
    <2>2. \A i \in 1 .. l : (IF i <= c + 0 THEN T[i] ELSE R[i]) = R[i]
      BY <1>1, <1>3c
    <2> QED
      BY <1>3d, <2>1, <2>2
  <1>6. W(m) = T
    <2>1. Wid(m) = lt
      BY <1>1, <1>3b, <1>3e
    <2>2. \A i \in 1 .. lt : (IF i <= c + m THEN T[i] ELSE R[i]) = T[i]
      BY <1>1, <1>3b
    <2> QED
      BY <1>3d, <2>1, <2>2
  <1>7. ASSUME NEW k \in 1 .. m
        PROVE  At(W(k), c + k) = Shown(At(W(k - 1), c + (k - 1)), x[k])
    <2> DEFINE V == W(k - 1)
               d == c + (k - 1)
               n == IF d < Len(V) THEN Len(V) ELSE d + 1
               Q == [i \in 1 .. n |-> IF i = d + 1 THEN x[k] ELSE V[i]]
    <2>1. k - 1 \in 0 .. m /\ k \in 0 .. m /\ d + 1 = c + k /\ d \in Nat
      BY <1>1
    <2>2. V \in Seq(Bytes) /\ Len(V) = Wid(k - 1)
      BY <1>4, <2>1
    <2>3. d \in 0 .. Len(V)
      BY <1>1, <2>1, <2>2
    <2>4. n = Wid(k)
      BY <1>1, <2>1, <2>2
    <2>5. \A i \in 1 .. Wid(k) : (IF i = d + 1 THEN x[k] ELSE V[i]) = IF i <= c + k THEN T[i] ELSE R[i]
      <3> SUFFICES ASSUME NEW i \in 1 .. Wid(k)
                   PROVE  (IF i = d + 1 THEN x[k] ELSE V[i]) = IF i <= c + k THEN T[i] ELSE R[i]
        OBVIOUS
      <3>1. CASE i = d + 1
        BY <1>1, <1>3c, <2>1, <3>1
      <3>2. CASE i # d + 1
        <4>1. i \in 1 .. Wid(k - 1) /\ (i <= c + (k - 1) <=> i <= c + k)
          BY <1>1, <2>1, <3>2
        <4>2. V[i] = IF i <= c + (k - 1) THEN T[i] ELSE R[i]
          BY <4>1
        <4> QED
          BY <3>2, <4>1, <4>2
      <3> QED
        BY <3>1, <3>2
    <2>6. Q = W(k)
      BY <2>4, <2>5
    <2>7. x[k] \in Bytes /\ IsPlain(x[k])
      BY <1>3a, <1>3c
    <2> HIDE DEF V, d, W, Wid
    <2>8. Shown(At(V, d), x[k]) = At(Q, d + 1)
      <3> DEFINE nn == n
      <3>1. nn = IF d < Len(V) THEN Len(V) ELSE d + 1
        OBVIOUS
      <3> HIDE DEF nn
      <3>2. Shown(At(V, d), x[k]) = At([i \in 1 .. nn |-> IF i = d + 1 THEN x[k] ELSE V[i]], d + 1)
        BY <2>2, <2>3, <2>7, <3>1, ShownPlain
      <3> QED
        BY <3>2 DEF nn
    <2> HIDE DEF Q
    <2> QED
      BY <2>1, <2>6, <2>8 DEF V, d
  <1> HIDE DEF W, Wid
  <1>8. f[0] = At(R, c) /\ f[m] = At(T, c + m)
    <2>1. 0 \in 0 .. m /\ m \in 0 .. m /\ c + 0 = c
      BY <1>1
    <2> QED
      BY <1>5, <1>6, <2>1
  <1>9. \A k \in 1 .. m : f[k] = Shown(f[k - 1], x[k])
    <2> SUFFICES ASSUME NEW k \in 1 .. m PROVE f[k] = Shown(f[k - 1], x[k])
      OBVIOUS
    <2>1. k \in 0 .. m /\ k - 1 \in 0 .. m
      BY <1>1
    <2> QED
      BY <1>7, <2>1
  <1> HIDE DEF f
  <1>10. Steps(f, At(R, c), x)
    BY <1>8, <1>9 DEF Steps, m
  <1>11. Display(At(R, c), x) = f[m]
    BY <1>1, <1>10, StepsDisplay DEF m
  <1> QED
    BY <1>8, <1>11 DEF m

---------------------------------------------------------------------------
(***************************************************************************)
(* The commands readline moves and erases with.                            *)
(***************************************************************************)

\* The ten digits are ten bytes.
LEMMA DigitBytesDistinct ==
    ASSUME NEW n \in 0 .. 9
    PROVE  /\ Digit(n) \in {"0", "1", "2", "3", "4", "5", "6", "7", "8", "9"}
           /\ \A k \in 0 .. 9 : Digit(k) = Digit(n) => k = n
  <1>1. /\ Digit(0) = "0" /\ Digit(1) = "1" /\ Digit(2) = "2" /\ Digit(3) = "3" /\ Digit(4) = "4"
        /\ Digit(5) = "5" /\ Digit(6) = "6" /\ Digit(7) = "7" /\ Digit(8) = "8" /\ Digit(9) = "9"
    BY DEF Digit, DigitBytes
  <1>2. n \in {0, 1, 2, 3, 4, 5, 6, 7, 8, 9} /\ 0 .. 9 = {0, 1, 2, 3, 4, 5, 6, 7, 8, 9}
    OBVIOUS
  <1> HIDE DEF Digit
  <1> QED
    BY <1>1, <1>2

\* A digit is read as the number it was written for.
LEMMA DigitRead ==
    ASSUME NEW n \in 0 .. 9
    PROVE  /\ Digit(n) \in Bytes /\ Digit(n) \notin {"[", "D", "K", "nl"}
           /\ DigitValue(Digit(n)) = n
  <1>1. /\ Digit(n) \in {"0", "1", "2", "3", "4", "5", "6", "7", "8", "9"}
        /\ \A k \in 0 .. 9 : Digit(k) = Digit(n) => k = n
    BY DigitBytesDistinct
  <1> DEFINE v == CHOOSE k \in 0 .. 9 : Digit(k) = Digit(n)
  <1>2. v \in 0 .. 9 /\ Digit(v) = Digit(n)
    OBVIOUS
  <1>3. v = n
    <2> HIDE DEF v
    <2> QED
      BY <1>1, <1>2
  <1>4. DigitValue(Digit(n)) = v
    BY DEF DigitValue
  <1> HIDE DEF Digit, v
  <1> QED
    BY <1>1, <1>3, <1>4 DEF Bytes

\* What is displayed in two parts.
LEMMA DisplayThen ==
    ASSUME NEW s, NEW a \in Seq(Bytes), NEW b \in Seq(Bytes), NEW t, NEW u,
           Display(s, a) = t, Display(t, b) = u
    PROVE  a \o b \in Seq(Bytes) /\ Display(s, a \o b) = u
  <1>1. Display(s, a \o b) = Display(Display(s, a), b)
    BY DisplayConcat
  <1>2. a \o b \in Seq(Bytes)
    BY ConcatProperties
  <1> QED
    BY <1>1, <1>2

\* A row with ESC [ and a number behind it.
Command(row, col, n) == [row |-> row, col |-> col, num |-> n]

\* ESC [ starts a command.
LEMMA CommandStart ==
    ASSUME NEW R, NEW c
    PROVE  Display(At(R, c), <<"ESC", "[">>) = Command(R, c, 0)
  <1>1. Shown(At(R, c), "ESC") = Command(R, c, 0)
    BY DEF Shown, At, Command, NoNumber
  <1>2. Shown(Command(R, c, 0), "[") = Command(R, c, 0)
    BY DEF Shown, InCommand, Command, NoNumber
  <1>3. <<"ESC", "[">> = <<"ESC">> \o <<"[">>
    OBVIOUS
  <1>4. <<"ESC">> \in Seq(Bytes) /\ <<"[">> \in Seq(Bytes)
    <2>1. ASSUME NEW S, NEW a \in S PROVE <<a>> \in Seq(S)
      OBVIOUS
    <2>2. "ESC" \in Bytes /\ "[" \in Bytes
      BY DEF Bytes
    <2> QED
      BY <2>1, <2>2
  <1> DEFINE a == <<"ESC">>
             b == <<"[">>
  <1>5. Display(At(R, c), a) = Command(R, c, 0)
    BY <1>1, DisplayByte
  <1>6. Display(Command(R, c, 0), b) = Command(R, c, 0)
    BY <1>2, DisplayByte
  <1>7. <<"ESC", "[">> = a \o b
    BY <1>3
  <1>8. a \in Seq(Bytes) /\ b \in Seq(Bytes)
    BY <1>4
  <1> DEFINE s == At(R, c)
             t == Command(R, c, 0)
  <1> HIDE DEF a, b, s, t
  <1>9. Display(s, a \o b) = t
    BY <1>5, <1>6, <1>8, DisplayThen DEF s, t
  <1> QED
    BY <1>7, <1>9 DEF s, t

\* A digit continues the number of a command.
LEMMA CommandDigit ==
    ASSUME NEW R, NEW c, NEW n \in Nat, NEW d \in 0 .. 9
    PROVE  Shown(Command(R, c, n), Digit(d)) = Command(R, c, 10 * n + d)
  <1>1. n # NoNumber
    BY DEF NoNumber
  <1>2. Digit(d) \notin {"[", "D", "K"} /\ DigitValue(Digit(d)) = d
    BY DigitRead
  <1>3. Shown(Command(R, c, n), Digit(d)) = InCommand(Command(R, c, n), Digit(d))
    BY <1>1 DEF Shown, Command
  <1> HIDE DEF Digit, DigitValue
  <1>4. InCommand(Command(R, c, n), Digit(d)) = [Command(R, c, n) EXCEPT !.num = 10 * n + DigitValue(Digit(d))]
    BY <1>2 DEF InCommand, Command
  <1> QED
    BY <1>2, <1>3, <1>4 DEF Command

\* D ends a command: the cursor goes back.
LEMMA CommandBack ==
    ASSUME NEW R, NEW c \in Nat, NEW n \in 0 .. c
    PROVE  Shown(Command(R, c, n), "D") = At(R, c - n)
  <1>1. n # NoNumber /\ n \in Nat
    BY DEF NoNumber
  <1>2. Position(c - n) = c - n
    BY <1>1 DEF Position
  <1> QED
    BY <1>1, <1>2 DEF Shown, InCommand, Command, At

\* mp_hal_erase_line_from_cursor
LEMMA EraseShown ==
    ASSUME NEW R, NEW c
    PROVE  Display(At(R, c), EraseLine) = At(SubSeq(R, 1, c), c)
  <1> DEFINE a == <<"ESC", "[">>
             b == <<"K">>
  <1>1. EraseLine = a \o b
    BY DEF EraseLine
  <1>2. a \in Seq(Bytes) /\ b \in Seq(Bytes)
    <2>1. ASSUME NEW S, NEW u \in S, NEW v \in S PROVE <<u>> \in Seq(S) /\ <<u, v>> \in Seq(S)
      OBVIOUS
    <2>2. "ESC" \in Bytes /\ "[" \in Bytes /\ "K" \in Bytes
      BY DEF Bytes
    <2> QED
      BY <2>1, <2>2
  <1>3. Display(At(R, c), a) = Command(R, c, 0)
    BY CommandStart
  <1>4. Shown(Command(R, c, 0), "K") = At(SubSeq(R, 1, c), c)
    <2> DEFINE s == Command(R, c, 0)
               X == SubSeq(R, 1, c)
    <2>1. s.num = 0 /\ s.row = R /\ s.col = c
      BY DEF Command
    <2>2. Shown(s, "K") = InCommand(s, "K")
      BY <2>1 DEF Shown, NoNumber
    <2>3. InCommand(s, "K") = [s EXCEPT !.row = SubSeq(s.row, 1, s.col), !.num = NoNumber]
      BY DEF InCommand
    <2>4. InCommand(s, "K") = [s EXCEPT !.row = X, !.num = NoNumber]
      BY <2>1, <2>3
    <2> HIDE DEF X
    <2>5. [s EXCEPT !.row = X, !.num = NoNumber] = At(X, c)
      <3> DEFINE k == NoNumber
                 v == [s EXCEPT !.row = X]
      <3> HIDE DEF k
      <3>1. v = [row |-> X, col |-> c, num |-> 0]
        BY DEF Command
      <3>2. [s EXCEPT !.row = X, !.num = k] = [v EXCEPT !.num = k]
        OBVIOUS
      <3> HIDE DEF v
      <3>3. [v EXCEPT !.num = k] = [row |-> X, col |-> c, num |-> k]
        BY <3>1
      <3> QED
        BY <3>2, <3>3 DEF At, k
    <2> QED
      BY <2>2, <2>4, <2>5 DEF X
  <1>5. Display(Command(R, c, 0), b) = At(SubSeq(R, 1, c), c)
    BY <1>4, DisplayByte
  <1> HIDE DEF a, b
  <1> QED
    BY <1>1, <1>2, <1>3, <1>5, DisplayThen

\* An optional digit of a number that is built up.
LEMMA OptionalDigit ==
    ASSUME NEW R, NEW c, NEW n \in Nat, NEW d \in 0 .. 9, NEW given \in BOOLEAN,
           ~given => n = 0 /\ d = 0
    PROVE  /\ (IF given THEN <<Digit(d)>> ELSE <<>>) \in Seq(Bytes)
           /\ Display(Command(R, c, n), IF given THEN <<Digit(d)>> ELSE <<>>)
                = Command(R, c, 10 * n + d)
  <1>1. ASSUME NEW S, NEW u \in S PROVE <<u>> \in Seq(S) /\ <<>> \in Seq(S)
    OBVIOUS
  <1>2. Digit(d) \in Bytes
    BY DigitRead
  <1> HIDE DEF Digit
  <1>3. <<Digit(d)>> \in Seq(Bytes) /\ <<>> \in Seq(Bytes)
    BY <1>1, <1>2
  <1>4. CASE given
    <2>1. Display(Command(R, c, n), <<Digit(d)>>) = Command(R, c, 10 * n + d)
      <3>1. Shown(Command(R, c, n), Digit(d)) = Command(R, c, 10 * n + d)
        BY CommandDigit
      <3> QED
        BY <3>1, DisplayByte
    <2> QED
      BY <1>3, <1>4, <2>1
  <1>5. CASE ~given
    <2>1. 10 * n + d = n
      BY <1>5
    <2> QED
      BY <1>3, <1>5, <2>1, DisplayEmpty
  <1> QED
    BY <1>4, <1>5

\* mp_hal_move_cursor_back moves the cursor back by what it is asked to.
LEMMA MoveBackFar ==
    ASSUME NEW R, NEW c \in Nat, NEW pos \in 0 .. c, pos > 4, pos < 1000
    PROVE  /\ MoveBack(pos) \in Seq(Bytes)
           /\ Display(At(R, c), MoveBack(pos)) = At(R, c - pos)
  <1> DEFINE h == pos \div 100
             t == (pos % 100) \div 10
             u == pos % 10
             A == <<"ESC", "[">>
             H == IF pos > 99 THEN <<Digit(h)>> ELSE <<>>
             T == IF pos > 9 THEN <<Digit(t)>> ELSE <<>>
             U == <<Digit(u), "D">>
  <1>1. /\ h \in 0 .. 9 /\ t \in 0 .. 9 /\ u \in 0 .. 9
        /\ pos = 100 * h + 10 * t + u
        /\ (~(pos > 99) => h = 0) /\ (~(pos > 9) => h = 0 /\ t = 0)
    <2>1. pos \in 0 .. 999
      OBVIOUS
    <2> QED
      BY <2>1, Z3
  <1> HIDE DEF h, t, u
  <1>2. MoveBack(pos) = A \o H \o T \o U
    BY DEF MoveBack, h, t, u
  <1>3. ASSUME NEW S, NEW v \in S, NEW w \in S PROVE <<v>> \in Seq(S) /\ <<v, w>> \in Seq(S)
    OBVIOUS
  <1>4. "ESC" \in Bytes /\ "[" \in Bytes /\ "D" \in Bytes /\ Digit(u) \in Bytes
    <2>1. Digit(u) \in Bytes
      BY <1>1, DigitRead
    <2> QED
      BY <2>1 DEF Bytes
  <1> HIDE DEF Digit
  <1>5. A \in Seq(Bytes) /\ U \in Seq(Bytes)
    BY <1>3, <1>4
  <1>6. Display(At(R, c), A) = Command(R, c, 0)
    BY CommandStart
  <1>7. H \in Seq(Bytes) /\ Display(Command(R, c, 0), H) = Command(R, c, h)
    <2> DEFINE g == pos > 99
    <2>1. g \in BOOLEAN /\ (~g => 0 = 0 /\ h = 0) /\ 0 \in Nat /\ h \in 0 .. 9
      BY <1>1
    <2>2. H = IF g THEN <<Digit(h)>> ELSE <<>>
      OBVIOUS
    <2> HIDE DEF g, H
    <2>3. /\ (IF g THEN <<Digit(h)>> ELSE <<>>) \in Seq(Bytes)
          /\ Display(Command(R, c, 0), IF g THEN <<Digit(h)>> ELSE <<>>) = Command(R, c, 10 * 0 + h)
      BY <2>1, OptionalDigit
    <2>4. 10 * 0 + h = h
      BY <1>1
    <2> QED
      BY <2>2, <2>3, <2>4
  <1>8. T \in Seq(Bytes) /\ Display(Command(R, c, h), T) = Command(R, c, 10 * h + t)
    <2> DEFINE g == pos > 9
    <2>1. g \in BOOLEAN /\ (~g => h = 0 /\ t = 0) /\ h \in Nat /\ t \in 0 .. 9
      BY <1>1
    <2>2. T = IF g THEN <<Digit(t)>> ELSE <<>>
      OBVIOUS
    <2> HIDE DEF g, T
    <2>3. /\ (IF g THEN <<Digit(t)>> ELSE <<>>) \in Seq(Bytes)
          /\ Display(Command(R, c, h), IF g THEN <<Digit(t)>> ELSE <<>>) = Command(R, c, 10 * h + t)
      BY <2>1, OptionalDigit
    <2> QED
      BY <2>2, <2>3
  <1>9. Display(Command(R, c, 10 * h + t), U) = At(R, c - pos)
    <2> DEFINE k == 10 * h + t
               x == <<Digit(u)>>
               y == <<"D">>
    <2>1. k \in Nat /\ 10 * k + u = pos
      BY <1>1
    <2> HIDE DEF k
    <2>2. Shown(Command(R, c, k), Digit(u)) = Command(R, c, pos)
      BY <1>1, <2>1, CommandDigit
    <2>3. Shown(Command(R, c, pos), "D") = At(R, c - pos)
      BY CommandBack
    <2>4. U = x \o y /\ x \in Seq(Bytes) /\ y \in Seq(Bytes)
      BY <1>3, <1>4
    <2>5. Display(Command(R, c, k), x) = Command(R, c, pos)
      BY <2>2, DisplayByte
    <2>6. Display(Command(R, c, pos), y) = At(R, c - pos)
      BY <2>3, DisplayByte
    <2> HIDE DEF x, y, U
    <2>7. Display(Command(R, c, k), x \o y) = Display(Display(Command(R, c, k), x), y)
      BY <2>4, DisplayConcat
    <2> QED
      BY <2>4, <2>5, <2>6, <2>7 DEF k
  <1> HIDE DEF A, H, T, U
  <1> DEFINE s0 == At(R, c)
             s1 == Command(R, c, 0)
             s2 == Command(R, c, h)
             s3 == Command(R, c, 10 * h + t)
             s4 == At(R, c - pos)
             AH == A \o H
             AHT == AH \o T
  <1> HIDE DEF s0, s1, s2, s3, s4
  <1>10. AH \in Seq(Bytes) /\ Display(s0, AH) = s2
    BY <1>5, <1>6, <1>7, DisplayThen DEF s0, s1, s2
  <1> HIDE DEF AH
  <1>11. AHT \in Seq(Bytes) /\ Display(s0, AHT) = s3
    BY <1>8, <1>10, DisplayThen DEF s2, s3
  <1> HIDE DEF AHT
  <1>12. AHT \o U \in Seq(Bytes) /\ Display(s0, AHT \o U) = s4
    BY <1>5, <1>9, <1>11, DisplayThen DEF s3, s4
  <1> QED
    BY <1>2, <1>12 DEF s0, s4, AH, AHT

\* By at most four places: with backspaces.
LEMMA MoveBackNear ==
    ASSUME NEW R, NEW c \in Nat, NEW pos \in 0 .. c, pos <= 4
    PROVE  /\ MoveBack(pos) \in Seq(Bytes)
           /\ Display(At(R, c), MoveBack(pos)) = At(R, c - pos)
  <1> DEFINE x == [i \in 1 .. pos |-> "bs"]
             f == [k \in 0 .. pos |-> At(R, c - k)]
  <1>1. MoveBack(pos) = x
    BY DEF MoveBack
  <1>2. x \in Seq(Bytes) /\ Len(x) = pos /\ \A i \in 1 .. pos : x[i] = "bs"
    <2>1. "bs" \in Bytes /\ pos \in Nat
      BY DEF Bytes
    <2>2. x \in [1 .. pos -> Bytes]
      BY <2>1
    <2> QED
      BY <2>1, <2>2, FunctionIsSequence
  <1> HIDE DEF x
  <1>3. f[0] = At(R, c) /\ f[pos] = At(R, c - pos)
    <2>1. c - 0 = c /\ 0 \in 0 .. pos /\ pos \in 0 .. pos
      OBVIOUS
    <2> QED
      BY <2>1
  <1>4. \A k \in 1 .. pos : f[k] = Shown(f[k - 1], x[k])
    <2> SUFFICES ASSUME NEW k \in 1 .. pos PROVE f[k] = Shown(f[k - 1], x[k])
      OBVIOUS
    <2>1. f[k] = At(R, c - k) /\ f[k - 1] = At(R, c - (k - 1))
      OBVIOUS
    <2> DEFINE d == c - (k - 1)
    <2>2. Position(d - 1) = c - k
      BY DEF Position
    <2> HIDE DEF d
    <2>3. Shown(At(R, d), "bs") = At(R, Position(d - 1))
      BY DEF Shown, At
    <2> QED
      BY <1>2, <2>1, <2>2, <2>3 DEF d
  <1> HIDE DEF f
  <1>5. Steps(f, At(R, c), x)
    BY <1>2, <1>3, <1>4 DEF Steps
  <1>6. Len(x) \in Nat
    BY <1>2
  <1>7. Display(At(R, c), x) = f[Len(x)]
    BY <1>5, <1>6, StepsDisplay
  <1> QED
    BY <1>1, <1>2, <1>3, <1>7

\* And by any number of places below 1000.
LEMMA MoveBackShown ==
    ASSUME NEW R, NEW c \in Nat, NEW pos \in 0 .. c, pos < 1000
    PROVE  /\ MoveBack(pos) \in Seq(Bytes)
           /\ Display(At(R, c), MoveBack(pos)) = At(R, c - pos)
  <1>1. pos <= 4 \/ pos > 4
    OBVIOUS
  <1> QED
    BY <1>1, MoveBackFar, MoveBackNear

---------------------------------------------------------------------------
(***************************************************************************)
(* A line behind a prefix, and how its rest is written again.              *)
(***************************************************************************)

\* Sequences over a smaller set.
LEMMA SeqOfSubset ==
    ASSUME NEW S, NEW B, S \subseteq B, NEW x \in Seq(S)
    PROVE  x \in Seq(B)
  <1>1. x \in [1 .. Len(x) -> B] /\ Len(x) \in Nat
    BY LenProperties
  <1> QED
    BY <1>1, SeqDef

\* Letters are bytes the terminal just shows.
LEMMA LetterBytes ==
    ASSUME NEW x \in Seq(Letters)
    PROVE  /\ x \in Seq(Bytes) /\ Len(x) \in Nat
           /\ \A i \in 1 .. Len(x) : IsPlain(x[i]) /\ x[i] \in Letters
  <1>1. Letters \subseteq Bytes
    BY DEF Bytes
  <1>2. x \in Seq(Bytes)
    BY <1>1, SeqOfSubset
  <1>3. \A b \in Letters : IsPlain(b)
    BY ReadlineAssumption DEF ControlBytes, IsPlain
  <1>4. Len(x) \in Nat /\ \A i \in 1 .. Len(x) : x[i] \in Letters
    BY LenProperties, ElementOfSeq
  <1> QED
    BY <1>2, <1>3, <1>4

\* A prefix followed by a line.
LEMMA BehindPrefix ==
    ASSUME NEW P \in Seq(Bytes), NEW x \in Seq(Bytes)
    PROVE  /\ P \o x \in Seq(Bytes) /\ Len(P \o x) = Len(P) + Len(x)
           /\ \A i \in 1 .. Len(P) : (P \o x)[i] = P[i]
           /\ \A i \in 1 .. Len(x) : (P \o x)[Len(P) + i] = x[i]
  <1> DEFINE n == Len(P)
             m == Len(x)
             w == P \o x
  <1>1. n \in Nat /\ m \in Nat
    BY LenProperties
  <1>2. w \in Seq(Bytes) /\ Len(w) = n + m
    BY ConcatProperties
  <1>3. \A i \in 1 .. n + m : w[i] = IF i <= n THEN P[i] ELSE x[i - n]
    BY ConcatProperties
  <1> HIDE DEF n, m, w
  <1>4. \A i \in 1 .. n : w[i] = P[i]
    BY <1>1, <1>3
  <1>5. \A i \in 1 .. m : w[n + i] = x[i]
    <2> SUFFICES ASSUME NEW i \in 1 .. m PROVE w[n + i] = x[i]
      OBVIOUS
    <2>1. n + i \in 1 .. n + m /\ ~(n + i <= n) /\ (n + i) - n = i
      BY <1>1
    <2> QED
      BY <1>3, <2>1
  <1> QED
    BY <1>2, <1>4, <1>5 DEF n, m, w

\* Writing the rest of the new line over the old one, the old one's end erased before
\* when it would show.
LEMMA RestShown ==
    ASSUME NEW P \in Seq(Bytes), NEW old \in Seq(Letters), NEW new \in Seq(Letters),
           NEW from \in Nat, from <= Len(old), from <= Len(new),
           \A i \in 1 .. from : new[i] = old[i]
    PROVE  LET erase == IF Len(new) < Len(old) THEN EraseLine ELSE <<>>
               rest == SubSeq(new, from + 1, Len(new))
           IN  /\ erase \in Seq(Bytes) /\ rest \in Seq(Bytes)
               /\ erase \o rest \in Seq(Bytes)
               /\ Display(At(P \o old, Len(P) + from), erase \o rest)
                    = At(P \o new, Len(P) + Len(new))
  <1> DEFINE erase == IF Len(new) < Len(old) THEN EraseLine ELSE <<>>
             rest == SubSeq(new, from + 1, Len(new))
             R == P \o old
             T == P \o new
             p == Len(P)
             o == Len(old)
             n == Len(new)
             c == p + from
             E == IF n < o THEN SubSeq(R, 1, c) ELSE R
  <1>1. /\ old \in Seq(Bytes) /\ new \in Seq(Bytes)
        /\ \A i \in 1 .. n : IsPlain(new[i])
    BY LetterBytes
  <1>2. p \in Nat /\ o \in Nat /\ n \in Nat /\ from <= o /\ from <= n /\ c \in Nat
    BY LenProperties
  <1>3. /\ R \in Seq(Bytes) /\ Len(R) = p + o
        /\ (\A i \in 1 .. p : R[i] = P[i]) /\ \A i \in 1 .. o : R[p + i] = old[i]
    BY <1>1, BehindPrefix
  <1>4. /\ T \in Seq(Bytes) /\ Len(T) = p + n
        /\ (\A i \in 1 .. p : T[i] = P[i]) /\ \A i \in 1 .. n : T[p + i] = new[i]
    BY <1>1, BehindPrefix
  <1>5. /\ rest \in Seq(Bytes) /\ Len(rest) = n - from
        /\ \A i \in 1 .. n - from : rest[i] = new[from + i]
    BY <1>1, <1>2, SuffixProperties
  <1>6. erase \in Seq(Bytes)
    <2>1. ASSUME NEW S, NEW u \in S, NEW v \in S, NEW w \in S
          PROVE  <<u, v, w>> \in Seq(S) /\ <<>> \in Seq(S)
      OBVIOUS
    <2>2. "ESC" \in Bytes /\ "[" \in Bytes /\ "K" \in Bytes
      BY DEF Bytes
    <2>3. EraseLine \in Seq(Bytes) /\ <<>> \in Seq(Bytes)
      BY <2>1, <2>2 DEF EraseLine
    <2> QED
      BY <2>3
  <1>7. \A i \in 1 .. from : new[i] = old[i]
    OBVIOUS
  <1>8. erase = IF n < o THEN EraseLine ELSE <<>>
    OBVIOUS
  <1> HIDE DEF R, T, p, o, n, rest, erase
  <1>9. /\ E \in Seq(Bytes) /\ Len(E) = (IF n < o THEN c ELSE p + o)
        /\ \A i \in 1 .. c : E[i] = R[i]
    <2>1. CASE n < o
      <3>1. c <= Len(R)
        BY <1>2, <1>3
      <3> QED
        BY <1>2, <1>3, <2>1, <3>1, PrefixProperties
    <2>2. CASE ~(n < o)
      BY <1>3, <2>2
    <2> QED
      BY <2>1, <2>2
  <1>10. Display(At(R, c), erase) = At(E, c)
    <2>1. CASE n < o
      BY <1>8, <2>1, EraseShown
    <2>2. CASE ~(n < o)
      BY <1>8, <2>2, DisplayEmpty
    <2> QED
      BY <2>1, <2>2
  <1> HIDE DEF E
  <1>11. Display(At(E, c), rest) = At(T, c + Len(rest))
    <2>1. c \in 0 .. Len(E)
      BY <1>2, <1>9
    <2>2. \A i \in 1 .. Len(rest) : IsPlain(rest[i])
      <3> SUFFICES ASSUME NEW i \in 1 .. n - from PROVE IsPlain(rest[i])
        BY <1>5
      <3>1. from + i \in 1 .. n
        BY <1>2
      <3> QED
        BY <1>1, <1>5, <3>1 DEF n
    <2>3. c + Len(rest) = Len(T) /\ Len(E) <= c + Len(rest)
      BY <1>2, <1>4, <1>5, <1>9
    <2>4. \A i \in 1 .. c : T[i] = E[i]
      <3> SUFFICES ASSUME NEW i \in 1 .. c PROVE T[i] = R[i]
        BY <1>9
      <3>1. CASE i <= p
        BY <1>2, <1>3, <1>4, <3>1
      <3>2. CASE ~(i <= p)
        <4>1. /\ i - p \in 1 .. from /\ i - p \in 1 .. n /\ i - p \in 1 .. o
              /\ p + (i - p) = i
          BY <1>2, <3>2
        <4> QED
          BY <1>3, <1>4, <1>7, <4>1
      <3> QED
        BY <3>1, <3>2
    <2>5. \A i \in 1 .. Len(rest) : rest[i] = T[c + i]
      <3> SUFFICES ASSUME NEW i \in 1 .. n - from PROVE rest[i] = T[c + i]
        BY <1>5
      <3>1. from + i \in 1 .. n /\ c + i = p + (from + i)
        BY <1>2
      <3> QED
        BY <1>4, <1>5, <3>1
    <2>6. c + Len(rest) <= Len(T) /\ (Len(E) <= c + Len(rest) /\ Len(T) = c + Len(rest))
      BY <1>2, <1>4, <1>5, <2>3
    <2> HIDE DEF c
    <2> QED
      BY <1>4, <1>5, <1>9, <2>1, <2>2, <2>4, <2>5, <2>6, WriteTarget
  <1>12. c + Len(rest) = p + n
    BY <1>2, <1>5
  <1> DEFINE s0 == At(R, c)
             s1 == At(E, c)
             s2 == At(T, p + n)
  <1> HIDE DEF s0, s1, s2
  <1>13. erase \o rest \in Seq(Bytes) /\ Display(s0, erase \o rest) = s2
    BY <1>5, <1>6, <1>10, <1>11, <1>12, DisplayThen DEF s0, s1, s2
  <1> QED
    BY <1>5, <1>6, <1>13 DEF s0, s2, R, T, p, o, n, rest, erase

\* Writing some bytes of the line again moves the cursor over them.
LEMMA ForwardShown ==
    ASSUME NEW P \in Seq(Bytes), NEW line \in Seq(Letters), NEW from \in Nat, NEW k \in Nat,
           from + k <= Len(line)
    PROVE  LET again == SubSeq(SubSeq(line, from + 1, Len(line)), 1, k)
           IN  /\ again \in Seq(Bytes)
               /\ Display(At(P \o line, Len(P) + from), again) = At(P \o line, Len(P) + (from + k))
  <1> DEFINE rest == SubSeq(line, from + 1, Len(line))
             again == SubSeq(rest, 1, k)
             T == P \o line
             p == Len(P)
             n == Len(line)
             c == p + from
  <1>1. line \in Seq(Bytes) /\ \A i \in 1 .. n : IsPlain(line[i])
    BY LetterBytes
  <1>2. p \in Nat /\ n \in Nat /\ from + k <= n /\ from <= n
    BY LenProperties
  <1>3. /\ T \in Seq(Bytes) /\ Len(T) = p + n
        /\ \A i \in 1 .. n : T[p + i] = line[i]
    BY <1>1, BehindPrefix
  <1>4. /\ rest \in Seq(Bytes) /\ Len(rest) = n - from
        /\ \A i \in 1 .. n - from : rest[i] = line[from + i]
    BY <1>1, <1>2, SuffixProperties
  <1> HIDE DEF rest, T, p, n
  <1>5. k <= Len(rest)
    BY <1>2, <1>4
  <1>6. again \in Seq(Bytes) /\ Len(again) = k /\ \A i \in 1 .. k : again[i] = rest[i]
    BY <1>4, <1>5, PrefixProperties
  <1> HIDE DEF again
  <1>7. \A i \in 1 .. k : again[i] = T[c + i] /\ IsPlain(again[i])
    <2> SUFFICES ASSUME NEW i \in 1 .. k PROVE again[i] = T[c + i] /\ IsPlain(again[i])
      OBVIOUS
    <2>1. i \in 1 .. n - from /\ from + i \in 1 .. n /\ c + i = p + (from + i)
      BY <1>2
    <2> QED
      BY <1>1, <1>3, <1>4, <1>6, <2>1
  <1>8. c \in 0 .. Len(T) /\ c + k <= Len(T) /\ c + k = p + (from + k)
    BY <1>2, <1>3
  <1>9. Display(At(T, c), again) = At(T, c + Len(again))
    <2>1. /\ c + Len(again) <= Len(T)
          /\ \A i \in 1 .. Len(again) : IsPlain(again[i])
          /\ \A i \in 1 .. Len(again) : again[i] = T[c + i]
          /\ \A i \in 1 .. c : T[i] = T[i]
      BY <1>6, <1>7, <1>8
    <2> HIDE DEF c
    <2> QED
      BY <1>3, <1>6, <1>8, <2>1, WriteTarget
  <1> QED
    BY <1>6, <1>8, <1>9 DEF rest, again, T, p, n

\* The bytes that leave the terminal on its row.
RowBytes == Bytes \ {"nl"}

\* Moving the cursor back starts no row.
LEMMA MoveBackStaysOnRow ==
    ASSUME NEW pos \in Nat, pos < 1000
    PROVE  MoveBack(pos) \in Seq(RowBytes)
  <1>1. CASE pos <= 4
    <2>1. "bs" \in RowBytes
      BY DEF Bytes, RowBytes
    <2>2. [i \in 1 .. pos |-> "bs"] \in [1 .. pos -> RowBytes]
      BY <2>1
    <2>3. MoveBack(pos) = [i \in 1 .. pos |-> "bs"]
      BY <1>1 DEF MoveBack
    <2> DEFINE x == [i \in 1 .. pos |-> "bs"]
    <2> HIDE DEF x
    <2>4. x \in Seq(RowBytes)
      <3>1. x \in [1 .. pos -> RowBytes]
        BY <2>2 DEF x
      <3> QED
        BY <3>1, FunctionIsSequence
    <2> QED
      BY <2>3, <2>4 DEF x
  <1>2. CASE ~(pos <= 4)
    <2> DEFINE h == pos \div 100
               t == (pos % 100) \div 10
               u == pos % 10
               A == <<"ESC", "[">>
               H == IF pos > 99 THEN <<Digit(h)>> ELSE <<>>
               T == IF pos > 9 THEN <<Digit(t)>> ELSE <<>>
               U == <<Digit(u), "D">>
    <2>1. h \in 0 .. 9 /\ t \in 0 .. 9 /\ u \in 0 .. 9
      <3>1. pos \in 0 .. 999
        OBVIOUS
      <3> QED
        BY <3>1, Z3
    <2> HIDE DEF h, t, u
    <2>2. MoveBack(pos) = A \o H \o T \o U
      BY <1>2 DEF MoveBack, h, t, u
    <2>3. ASSUME NEW S, NEW v \in S, NEW w \in S
          PROVE  <<v>> \in Seq(S) /\ <<v, w>> \in Seq(S) /\ <<>> \in Seq(S)
      OBVIOUS
    <2>4. \A d \in 0 .. 9 : Digit(d) \in RowBytes
      <3> SUFFICES ASSUME NEW d \in 0 .. 9 PROVE Digit(d) \in RowBytes
        OBVIOUS
      <3>1. Digit(d) \in Bytes /\ Digit(d) # "nl"
        BY DigitRead
      <3> HIDE DEF Digit
      <3> QED
        BY <3>1 DEF RowBytes
    <2>5. "ESC" \in RowBytes /\ "[" \in RowBytes /\ "D" \in RowBytes
      BY DEF Bytes, RowBytes
    <2> HIDE DEF Digit
    <2>6. A \in Seq(RowBytes)
      BY <2>3, <2>5
    <2>7. U \in Seq(RowBytes)
      BY <2>1, <2>3, <2>4, <2>5
    <2>8. H \in Seq(RowBytes)
      BY <2>1, <2>3, <2>4
    <2>9. T \in Seq(RowBytes)
      BY <2>1, <2>3, <2>4
    <2> HIDE DEF A, H, T, U
    <2>10. A \o H \in Seq(RowBytes)
      BY <2>6, <2>8, ConcatProperties
    <2>11. (A \o H) \o T \in Seq(RowBytes)
      BY <2>9, <2>10, ConcatProperties
    <2>12. ((A \o H) \o T) \o U \in Seq(RowBytes)
      BY <2>7, <2>11, ConcatProperties
    <2> QED
      BY <2>2, <2>12
  <1> QED
    BY <1>1, <1>2

---------------------------------------------------------------------------
\* An edit readline may redraw: what it keeps in front of the cursor, and where it
\* leaves the cursor.
GoodEdit(r, e) ==
    /\ e.line \in Seq(Letters) /\ e.wrote = <<>>
    /\ e.back \in 0 .. r.cursor /\ e.forward \in Nat
    /\ (r.cursor - e.back) + e.forward <= Len(e.line)
    /\ \A i \in 1 .. r.cursor - e.back : e.line[i] = r.line[i]
    /\ ~e.redraw => e.line = r.line

\* The end of readline_process_char: what it writes turns the row of the old line and
\* cursor into the row of the new ones, whatever is in front of the line.
LEMMA RedrawShown ==
    ASSUME NEW r, r.line \in Seq(Letters), r.cursor \in 0 .. Len(r.line), Len(r.line) < 1000,
           NEW e, GoodEdit(r, e), Len(e.line) < 1000, e.redraw \in BOOLEAN,
           NEW P \in Seq(Bytes), NEW to, to = (r.cursor - e.back) + e.forward
    PROVE  /\ to \in 0 .. Len(e.line)
           /\ Redraw(r, e).out \in Seq(RowBytes)
           /\ Display(At(P \o r.line, Len(P) + r.cursor), Redraw(r, e).out)
                = At(P \o e.line, Len(P) + to)
  <1> DEFINE old == r.line
             new == e.line
             from == r.cursor - e.back
             o == Len(old)
             n == Len(new)
             p == Len(P)
             back == MoveBack(e.back)
             erase == IF Len(new) < Len(old) THEN EraseLine ELSE <<>>
             rest == SubSeq(new, from + 1, Len(new))
             home == MoveBack(n - to)
             again == SubSeq(rest, 1, e.forward)
  <1>1. /\ old \in Seq(Letters) /\ new \in Seq(Letters)
        /\ o \in Nat /\ n \in Nat /\ p \in Nat /\ o < 1000 /\ n < 1000
    BY LenProperties DEF GoodEdit
  <1>2. /\ e.back \in 0 .. r.cursor /\ r.cursor \in Nat /\ r.cursor <= o
        /\ e.forward \in Nat /\ from + e.forward <= n
        /\ \A i \in 1 .. from : new[i] = old[i]
    BY <1>1 DEF GoodEdit
  <1>3. from \in Nat /\ from <= o /\ from <= n /\ to \in 0 .. n
    BY <1>1, <1>2
  <1>4. n - to \in Nat /\ n - to < 1000 /\ e.back \in Nat /\ e.back < 1000
    BY <1>1, <1>2, <1>3
  <1> DEFINE s0 == At(P \o old, p + r.cursor)
             s1 == At(P \o old, p + from)
             s2 == At(P \o new, p + n)
             s3 == At(P \o new, p + to)
  <1>5. back \in Seq(Bytes) /\ Display(s0, back) = s1
    <2> DEFINE c == p + r.cursor
    <2>1. c \in Nat /\ e.back \in 0 .. c /\ c - e.back = p + from
      BY <1>1, <1>2
    <2> HIDE DEF c
    <2>2. back \in Seq(Bytes) /\ Display(At(P \o old, c), back) = At(P \o old, c - e.back)
      BY <1>4, <2>1, MoveBackShown
    <2> QED
      BY <2>1, <2>2 DEF c
  <1>6. back \in Seq(RowBytes) /\ home \in Seq(RowBytes)
    <2> DEFINE k == n - to
    <2> HIDE DEF k
    <2>1. MoveBack(k) \in Seq(RowBytes)
      BY <1>4, MoveBackStaysOnRow DEF k
    <2>2. back \in Seq(RowBytes)
      BY <1>4, MoveBackStaysOnRow
    <2> QED
      BY <2>1, <2>2 DEF k
  <1>7. Redraw(r, e).out = back \o IF e.redraw THEN erase \o rest \o home ELSE again
    <2>1. Redraw(r, e).out = e.wrote \o back \o IF e.redraw THEN erase \o rest \o home ELSE again
      BY DEF Redraw
    <2>2. e.wrote \o back = back
      BY <1>5, ConcatEmptySeq DEF GoodEdit
    <2> QED
      BY <2>1, <2>2
  <1>8. Letters \subseteq RowBytes
    BY ReadlineAssumption DEF ControlBytes, RowBytes, Bytes
  <1>9. rest \in Seq(Letters) /\ rest \in Seq(RowBytes)
    <2>1. rest \in Seq(Letters)
      BY <1>1, <1>3, SuffixProperties
    <2> HIDE DEF rest
    <2> QED
      BY <1>8, <2>1, SeqOfSubset
  <1>10. CASE e.redraw
    <2>1. Redraw(r, e).out = back \o ((erase \o rest) \o home)
      BY <1>7, <1>10
    <2>2. /\ erase \in Seq(Bytes) /\ rest \in Seq(Bytes) /\ erase \o rest \in Seq(Bytes)
          /\ Display(s1, erase \o rest) = s2
      <3>1. /\ old \in Seq(Letters) /\ new \in Seq(Letters) /\ from \in Nat
            /\ from <= Len(old) /\ from <= Len(new) /\ \A i \in 1 .. from : new[i] = old[i]
        BY <1>1, <1>2, <1>3
      <3> HIDE DEF old, new, from
      <3> QED
        BY <3>1, RestShown
    <2>3. home \in Seq(Bytes) /\ Display(s2, home) = s3
      <3> DEFINE c == p + n
                 k == n - to
      <3>1. c \in Nat /\ k \in 0 .. c /\ k < 1000 /\ c - k = p + to
        BY <1>1, <1>3
      <3> HIDE DEF c, k
      <3>2. MoveBack(k) \in Seq(Bytes) /\ Display(At(P \o new, c), MoveBack(k)) = At(P \o new, c - k)
        BY <3>1, MoveBackShown
      <3> QED
        BY <3>1, <3>2 DEF c, k
    <2>4. erase \in Seq(RowBytes)
      <3>1. ASSUME NEW S, NEW u \in S, NEW v \in S, NEW w \in S
            PROVE  <<u, v, w>> \in Seq(S) /\ <<>> \in Seq(S)
        OBVIOUS
      <3>2. "ESC" \in RowBytes /\ "[" \in RowBytes /\ "K" \in RowBytes
        BY DEF Bytes, RowBytes
      <3>3. EraseLine \in Seq(RowBytes) /\ <<>> \in Seq(RowBytes)
        BY <3>1, <3>2 DEF EraseLine
      <3> QED
        BY <3>3
    <2> DEFINE er == erase \o rest
               all == er \o home
    <2> HIDE DEF s0, s1, s2, s3, back, erase, rest, home
    <2>5. er \in Seq(RowBytes)
      BY <1>9, <2>4, ConcatProperties
    <2>6. er \in Seq(Bytes) /\ Display(s1, er) = s2
      BY <2>2
    <2> HIDE DEF er
    <2>7. all \in Seq(Bytes) /\ Display(s1, all) = s3
      BY <2>3, <2>6, DisplayThen
    <2>8. all \in Seq(RowBytes)
      BY <1>6, <2>5, ConcatProperties
    <2> HIDE DEF all
    <2>9. back \o all \in Seq(RowBytes)
      BY <1>6, <2>8, ConcatProperties
    <2>10. Display(s0, back \o all) = s3
      BY <1>5, <2>7, DisplayThen
    <2>11. Redraw(r, e).out = back \o all
      BY <2>1 DEF all, er
    <2> QED
      BY <1>3, <2>9, <2>10, <2>11 DEF s0, s3
  <1>11. CASE ~e.redraw
    <2>1. Redraw(r, e).out = back \o again /\ old = new
      BY <1>7, <1>11 DEF GoodEdit
    <2>2. again \in Seq(Bytes) /\ Display(s1, again) = s3
      <3> DEFINE k == e.forward
      <3>1. /\ to = from + k /\ old = new /\ new \in Seq(Letters) /\ from \in Nat /\ k \in Nat
            /\ from + k <= Len(new)
        BY <1>1, <1>2, <1>3, <2>1
      <3> HIDE DEF old, new, from, k
      <3>2. /\ SubSeq(rest, 1, k) \in Seq(Bytes)
            /\ Display(At(P \o new, Len(P) + from), SubSeq(rest, 1, k))
                  = At(P \o new, Len(P) + (from + k))
        BY <3>1, ForwardShown
      <3> QED
        BY <3>1, <3>2 DEF k
    <2>3. again \in Seq(RowBytes)
      <3>1. Len(rest) = n - from
        BY <1>1, <1>3, SuffixProperties
      <3> HIDE DEF rest
      <3>2. e.forward <= Len(rest)
        BY <1>1, <1>2, <1>3, <3>1
      <3> QED
        BY <1>2, <1>9, <3>2, PrefixProperties
    <2> HIDE DEF s0, s1, s2, s3, back, again
    <2>4. back \o again \in Seq(RowBytes)
      BY <1>6, <2>3, ConcatProperties
    <2>5. Display(s0, back \o again) = s3
      BY <1>5, <2>2, DisplayThen
    <2> QED
      BY <1>3, <2>1, <2>4, <2>5 DEF s0, s3
  <1> QED
    BY <1>10, <1>11

---------------------------------------------------------------------------
(***************************************************************************)
(* Readline: the edits it makes are ones it can redraw.                    *)
(***************************************************************************)

\* Readline's states.
Escapes == {"none", "esc", "bracket", "digit", "O"}
ReadlineOK(r) ==
    /\ r \in [line : Seq(Letters), cursor : Nat, esc : Escapes, digit : Digits \cup {"0"},
              hist : Seq(Seq(Letters)), cur : Nat]
    /\ r.cursor <= Len(r.line)
    /\ Len(r.hist) <= HistSize /\ r.cur <= Len(r.hist)

\* The fields of readline.
LEMMA ReadlineParts ==
    ASSUME NEW r, ReadlineOK(r)
    PROVE  /\ r.line \in Seq(Letters) /\ Len(r.line) \in Nat
           /\ r.cursor \in Nat /\ r.cursor <= Len(r.line) /\ r.cursor \in 0 .. Len(r.line)
           /\ r.hist \in Seq(Seq(Letters)) /\ Len(r.hist) \in Nat /\ r.cur \in Nat
           /\ Len(r.hist) <= HistSize /\ r.cur <= Len(r.hist)
           /\ r.esc \in Escapes /\ r.digit \in Digits \cup {"0"}
  <1>1. /\ r.line \in Seq(Letters) /\ r.cursor \in Nat /\ r.hist \in Seq(Seq(Letters))
        /\ r.cur \in Nat /\ r.cursor <= Len(r.line) /\ Len(r.hist) <= HistSize
        /\ r.cur <= Len(r.hist) /\ r.esc \in Escapes /\ r.digit \in Digits \cup {"0"}
    BY DEF ReadlineOK
  <1>2. Len(r.line) \in Nat /\ Len(r.hist) \in Nat
    BY <1>1, LenProperties
  <1> QED
    BY <1>1, <1>2

\* Edits that only move the cursor.
LEMMA MoveEdit ==
    ASSUME NEW r, ReadlineOK(r), NEW b \in 0 .. r.cursor, NEW f \in Nat,
           (r.cursor - b) + f <= Len(r.line), NEW e, e = Edit(r.line, b, FALSE, f)
    PROVE  GoodEdit(r, e) /\ e.redraw \in BOOLEAN
  <1>1. r.line \in Seq(Letters)
    BY ReadlineParts
  <1>2. e.line = r.line /\ e.back = b /\ e.redraw = FALSE /\ e.forward = f /\ e.wrote = <<>>
    BY DEF Edit
  <1> QED
    BY <1>1, <1>2 DEF GoodEdit

\* Home, end, left and right.
LEMMA MoveEdits ==
    ASSUME NEW r, ReadlineOK(r), NEW e, e \in {NoEdit(r), Home(r), End(r), Right(r), Left(r)}
    PROVE  GoodEdit(r, e) /\ e.redraw \in BOOLEAN
  <1> DEFINE l == r.line
             c == r.cursor
             n == Len(l)
  <1>1. n \in Nat /\ c \in Nat /\ c <= n
    BY ReadlineParts
  <1>2. PICK b, f : /\ b \in 0 .. c /\ f \in Nat /\ (c - b) + f <= n
                    /\ e = Edit(l, b, FALSE, f)
    <2>1. /\ NoEdit(r) = Edit(l, 0, FALSE, 0) /\ Home(r) = Edit(l, c, FALSE, 0)
          /\ End(r) = Edit(l, 0, FALSE, n - c)
          /\ Right(r) = Edit(l, 0, FALSE, IF c < n THEN 1 ELSE 0)
          /\ Left(r) = Edit(l, IF c > 0 THEN 1 ELSE 0, FALSE, 0)
      BY DEF NoEdit, Home, End, Right, Left
    <2> HIDE DEF l, c, n
    <2>2. /\ 0 \in 0 .. c /\ (c - 0) + 0 <= n /\ c \in 0 .. c /\ (c - c) + 0 <= n
          /\ n - c \in Nat /\ (c - 0) + (n - c) <= n
          /\ (IF c < n THEN 1 ELSE 0) \in Nat /\ (c - 0) + (IF c < n THEN 1 ELSE 0) <= n
          /\ (IF c > 0 THEN 1 ELSE 0) \in 0 .. c /\ (c - (IF c > 0 THEN 1 ELSE 0)) + 0 <= n
      BY <1>1
    <2> DEFINE one == IF c < n THEN 1 ELSE 0
               un == IF c > 0 THEN 1 ELSE 0
               rest == n - c
    <2>3. /\ one \in Nat /\ (c - 0) + one <= n /\ un \in 0 .. c /\ (c - un) + 0 <= n
          /\ rest \in Nat /\ (c - 0) + rest <= n
      BY <2>2
    <2>4. /\ Right(r) = Edit(l, 0, FALSE, one) /\ Left(r) = Edit(l, un, FALSE, 0)
          /\ End(r) = Edit(l, 0, FALSE, rest)
      BY <2>1
    <2> HIDE DEF one, un, rest
    <2> QED
      BY <2>1, <2>2, <2>3, <2>4, Zenon
  <1> QED
    BY <1>2, MoveEdit

\* Edits that change the line, from what is known of the new one.
LEMMA ChangeEdit ==
    ASSUME NEW r, ReadlineOK(r), NEW b \in 0 .. r.cursor, NEW f \in Nat, NEW new \in Seq(Letters),
           (r.cursor - b) + f <= Len(new), \A i \in 1 .. r.cursor - b : new[i] = r.line[i],
           NEW e, e = Edit(new, b, TRUE, f)
    PROVE  GoodEdit(r, e) /\ e.redraw \in BOOLEAN
  <1>1. /\ e.line = new /\ e.back = b /\ e.redraw = TRUE /\ e.forward = f /\ e.wrote = <<>>
    BY DEF Edit
  <1> QED
    BY <1>1 DEF GoodEdit

\* A sequence is what is in front of a place and what is behind it.
LEMMA ConcatFirst ==
    ASSUME NEW x \in Seq(Letters), NEW y \in Seq(Letters)
    PROVE  /\ x \o y \in Seq(Letters) /\ Len(x \o y) = Len(x) + Len(y)
           /\ \A i \in 1 .. Len(x) : (x \o y)[i] = x[i]
  <1> DEFINE n == Len(x)
             m == Len(y)
             w == x \o y
  <1>1. w \in Seq(Letters) /\ Len(w) = n + m
    BY ConcatProperties
  <1>2. \A i \in 1 .. n + m : w[i] = IF i <= n THEN x[i] ELSE y[i - n]
    BY ConcatProperties
  <1>3. n \in Nat /\ m \in Nat
    BY LenProperties
  <1> HIDE DEF n, m, w
  <1>4. \A i \in 1 .. n : w[i] = x[i]
    BY <1>2, <1>3
  <1> QED
    BY <1>1, <1>4 DEF n, m, w

\* Inserting bytes at the cursor: a letter, a completion.
LEMMA InsertGood ==
    ASSUME NEW r, ReadlineOK(r), NEW bytes \in Seq(Letters)
    PROVE  GoodEdit(r, Insert(r, bytes)) /\ Insert(r, bytes).redraw \in BOOLEAN
  <1> DEFINE l == r.line
             c == r.cursor
             A == SubSeq(l, 1, c)
             Z == SubSeq(l, c + 1, Len(l))
             Ab == A \o bytes
             w == Ab \o Z
             m == Len(bytes)
             e == Insert(r, bytes)
  <1>1. l \in Seq(Letters) /\ Len(l) \in Nat /\ c \in Nat /\ c <= Len(l) /\ m \in Nat
    BY ReadlineParts, LenProperties
  <1>2. e = Edit(w, 0, TRUE, m)
    BY DEF Insert
  <1> HIDE DEF l, c, e
  <1>3. A \in Seq(Letters) /\ Len(A) = c /\ \A i \in 1 .. c : A[i] = l[i]
    BY <1>1, PrefixProperties
  <1>4. Z \in Seq(Letters) /\ Len(Z) = Len(l) - c
    BY <1>1, SuffixProperties
  <1> HIDE DEF A, Z
  <1>5. Ab \in Seq(Letters) /\ Len(Ab) = c + m /\ \A i \in 1 .. c : Ab[i] = A[i]
    BY <1>3, ConcatFirst
  <1> HIDE DEF Ab, m
  <1>6. w \in Seq(Letters) /\ Len(w) = (c + m) + (Len(l) - c) /\ \A i \in 1 .. c + m : w[i] = Ab[i]
    BY <1>4, <1>5, ConcatFirst
  <1> HIDE DEF w
  <1>7. \A i \in 1 .. c : w[i] = l[i]
    BY <1>1, <1>3, <1>5, <1>6
  <1>8. (c - 0) + m <= Len(w) /\ 0 \in 0 .. c /\ c - 0 = c /\ m \in Nat
    BY <1>1, <1>6
  <1>9. /\ 0 \in 0 .. r.cursor /\ (r.cursor - 0) + m <= Len(w)
        /\ \A i \in 1 .. r.cursor - 0 : w[i] = r.line[i]
    BY <1>7, <1>8 DEF l, c
  <1> QED
    BY <1>2, <1>6, <1>8, <1>9, ChangeEdit DEF e

\* RemoveAt, of SequencesExt.
LEMMA Removed ==
    ASSUME NEW S, NEW x \in Seq(S), NEW k \in 1 .. Len(x)
    PROVE  /\ RemoveAt(x, k) \in Seq(S) /\ Len(RemoveAt(x, k)) = Len(x) - 1
           /\ \A i \in 1 .. k - 1 : RemoveAt(x, k)[i] = x[i]
  <1> DEFINE a == k - 1
             A == SubSeq(x, 1, a)
             Z == SubSeq(x, k + 1, Len(x))
             w == A \o Z
  <1>1. Len(x) \in Nat /\ a \in Nat /\ a <= Len(x) /\ k \in Nat /\ k <= Len(x)
    BY LenProperties
  <1>2. A \in Seq(S) /\ Len(A) = a /\ \A i \in 1 .. a : A[i] = x[i]
    BY <1>1, PrefixProperties
  <1>3. Z \in Seq(S) /\ Len(Z) = Len(x) - k
    BY <1>1, SuffixProperties
  <1>4. RemoveAt(x, k) = w
    BY DEF RemoveAt
  <1> HIDE DEF A, Z
  <1>5. w \in Seq(S) /\ Len(w) = Len(A) + Len(Z)
    BY <1>2, <1>3, ConcatProperties
  <1>6. \A i \in 1 .. Len(A) + Len(Z) : w[i] = IF i <= Len(A) THEN A[i] ELSE Z[i - Len(A)]
    BY <1>2, <1>3, ConcatProperties
  <1> HIDE DEF w
  <1>7. \A i \in 1 .. a : w[i] = x[i]
    <2> DEFINE m == Len(Z)
    <2>1. m \in Nat /\ a \in Nat /\ \A i \in 1 .. a + m : w[i] = IF i <= a THEN A[i] ELSE Z[i - a]
      BY <1>1, <1>2, <1>3, <1>6
    <2> HIDE DEF w, m, a
    <2>2. \A i \in 1 .. a : w[i] = A[i]
      BY <2>1
    <2> QED
      BY <1>2, <2>2
  <1>8. Len(w) = Len(x) - 1
    BY <1>1, <1>2, <1>3, <1>5
  <1> QED
    BY <1>4, <1>5, <1>7, <1>8

\* Deleting in front of the cursor.
LEMMA BackspaceGood ==
    ASSUME NEW r, ReadlineOK(r)
    PROVE  GoodEdit(r, Backspace(r)) /\ Backspace(r).redraw \in BOOLEAN
  <1> DEFINE l == r.line
             c == r.cursor
  <1>1. l \in Seq(Letters) /\ Len(l) \in Nat /\ c \in Nat /\ c <= Len(l)
    BY ReadlineParts
  <1>2. CASE c > 0
    <2> DEFINE w == RemoveAt(l, c)
    <2>1. Backspace(r) = Edit(w, 1, TRUE, 0)
      BY <1>2 DEF Backspace
    <2>2. c \in 1 .. Len(l)
      BY <1>1, <1>2
    <2> HIDE DEF l, c
    <2>3. w \in Seq(Letters) /\ Len(w) = Len(l) - 1 /\ \A i \in 1 .. c - 1 : w[i] = l[i]
      BY <1>1, <2>2, Removed
    <2> HIDE DEF w
    <2>4. 1 \in 0 .. c /\ (c - 1) + 0 <= Len(w)
      BY <1>1, <1>2, <2>3
    <2> QED
      BY <2>1, <2>3, <2>4, ChangeEdit DEF l, c
  <1>3. CASE ~(c > 0)
    <2>1. Backspace(r) = NoEdit(r)
      BY <1>3 DEF Backspace
    <2> QED
      BY <2>1, MoveEdits
  <1> QED
    BY <1>2, <1>3

\* Deleting under the cursor.
LEMMA DeleteGood ==
    ASSUME NEW r, ReadlineOK(r)
    PROVE  GoodEdit(r, Delete(r)) /\ Delete(r).redraw \in BOOLEAN
  <1> DEFINE l == r.line
             c == r.cursor
  <1>1. l \in Seq(Letters) /\ Len(l) \in Nat /\ c \in Nat /\ c <= Len(l)
    BY ReadlineParts
  <1>2. CASE c < Len(l)
    <2> DEFINE k == c + 1
               w == RemoveAt(l, k)
    <2>1. Delete(r) = Edit(w, 0, TRUE, 0)
      BY <1>2 DEF Delete
    <2>2. k \in 1 .. Len(l) /\ k - 1 = c
      BY <1>1, <1>2
    <2> HIDE DEF l, c, k
    <2>3. w \in Seq(Letters) /\ Len(w) = Len(l) - 1 /\ \A i \in 1 .. k - 1 : w[i] = l[i]
      BY <1>1, <2>2, Removed
    <2> HIDE DEF w
    <2>4. 0 \in 0 .. c /\ (c - 0) + 0 <= Len(w) /\ c - 0 = c
      BY <1>1, <1>2, <2>3
    <2> QED
      BY <2>1, <2>2, <2>3, <2>4, ChangeEdit DEF l, c
  <1>3. CASE ~(c < Len(l))
    <2>1. Delete(r) = NoEdit(r)
      BY <1>3 DEF Delete
    <2> QED
      BY <2>1, MoveEdits
  <1> QED
    BY <1>2, <1>3

\* Another line of the history, or none.
LEMMA RecallGood ==
    ASSUME NEW r, ReadlineOK(r), NEW k \in 0 .. Len(r.hist)
    PROVE  GoodEdit(r, Recall(r, k)) /\ Recall(r, k).redraw \in BOOLEAN
  <1> DEFINE w == IF k = 0 THEN <<>> ELSE r.hist[k]
             c == r.cursor
  <1>1. c \in Nat /\ r.hist \in Seq(Seq(Letters)) /\ Len(r.hist) \in Nat
    BY ReadlineParts
  <1>2. w \in Seq(Letters)
    <2>1. CASE k = 0
      BY <2>1
    <2>2. CASE k # 0
      <3>1. k \in 1 .. Len(r.hist)
        BY <1>1, <2>2
      <3>2. r.hist[k] \in Seq(Letters)
        BY <1>1, <3>1, ElementOfSeq
      <3> QED
        BY <2>2, <3>2
    <2> QED
      BY <2>1, <2>2
  <1>3. Recall(r, k) = Edit(w, c, TRUE, Len(w))
    BY DEF Recall
  <1> HIDE DEF w
  <1>4. Len(w) \in Nat
    BY <1>2, LenProperties
  <1>5. c \in 0 .. c /\ (c - c) + Len(w) <= Len(w) /\ \A i \in 1 .. c - c : w[i] = r.line[i]
    BY <1>1, <1>4
  <1> DEFINE e == Recall(r, k)
             m == Len(w)
  <1>6. e = Edit(w, c, TRUE, m)
    BY <1>3
  <1> HIDE DEF e, m, c
  <1>7. /\ c \in 0 .. r.cursor /\ (r.cursor - c) + m <= Len(w) /\ m \in Nat
        /\ \A i \in 1 .. r.cursor - c : w[i] = r.line[i]
    BY <1>4, <1>5 DEF c, m
  <1> QED
    BY <1>2, <1>6, <1>7, ChangeEdit DEF e

\* The edit readline_process_char makes, and its state before it redraws.
EditOf(r, c, found, prompt) ==
    CASE r.esc = "none" -> PlainEdit(r, c, found, prompt)
      [] r.esc = "bracket" -> BracketEdit(r, c)
      [] r.esc = "digit" -> DigitEdit(r, c)
      [] r.esc = "O" -> EscOEdit(r, c)
      [] OTHER -> NoEdit(r)

\* Readline, but for the line and the cursor.
Moved(r, c) ==
    [r EXCEPT !.esc = NextEsc(r, c), !.cur = NextCur(r, c),
              !.digit = IF NextEsc(r, c) = "digit" THEN c ELSE "0"]

\* TAB finds many completions.
Lists(r, c, found) == r.esc = "none" /\ c = "tab" /\ found.many

\* What mp_repl_autocomplete answers.
LEMMA FoundParts ==
    ASSUME NEW found \in Found
    PROVE  /\ found.many \in BOOLEAN /\ found.add \in Seq(Letters)
           /\ found.many => found = ManyMatches
  <1>1. NoMatch = [many |-> FALSE, add |-> <<>>] /\ ManyMatches = [many |-> TRUE, add |-> <<>>]
    BY DEF NoMatch, Match, ManyMatches
  <1>2. \A bytes : Match(bytes) = [many |-> FALSE, add |-> bytes]
    BY DEF Match
  <1>3. found = NoMatch \/ found = ManyMatches \/ \E bytes \in Completions : found = Match(bytes)
    BY DEF Found
  <1>4. Completions \subseteq Seq(Letters) /\ <<>> \in Seq(Letters)
    BY TerminalAssumption
  <1>5. CASE found = NoMatch
    BY <1>1, <1>4, <1>5
  <1>6. CASE found = ManyMatches
    BY <1>1, <1>4, <1>6
  <1>7. CASE \E bytes \in Completions : found = Match(bytes)
    <2>1. PICK bytes \in Completions : found = Match(bytes)
      BY <1>7
    <2>2. found = [many |-> FALSE, add |-> bytes] /\ bytes \in Seq(Letters)
      BY <1>2, <1>4, <2>1
    <2> QED
      BY <2>2
  <1> QED
    BY <1>3, <1>5, <1>6, <1>7

\* Every edit is one that readline may redraw.
LEMMA EditOfGood ==
    ASSUME NEW r, ReadlineOK(r), NEW c, NEW found \in Found, NEW prompt, ~Lists(r, c, found),
           NEW e, e = EditOf(r, c, found, prompt)
    PROVE  GoodEdit(r, e) /\ e.redraw \in BOOLEAN
  <1> DEFINE Good(x) == GoodEdit(r, x) /\ x.redraw \in BOOLEAN
  <1>1. Good(NoEdit(r)) /\ Good(Home(r)) /\ Good(End(r)) /\ Good(Right(r)) /\ Good(Left(r))
    <2>1. \A x \in {NoEdit(r), Home(r), End(r), Right(r), Left(r)} : Good(x)
      BY MoveEdits
    <2> HIDE DEF Good
    <2> QED
      BY <2>1
  <1>2. Good(Backspace(r)) /\ Good(Delete(r))
    BY BackspaceGood, DeleteGood
  <1>3. \A bytes \in Seq(Letters) : Good(Insert(r, bytes))
    BY InsertGood
  <1>4. \A k \in 0 .. Len(r.hist) : Good(Recall(r, k))
    BY RecallGood
  <1>5. found.many \in BOOLEAN /\ found.add \in Seq(Letters)
    BY FoundParts
  <1>6. r.cur \in Nat /\ Len(r.hist) \in Nat /\ r.cur <= Len(r.hist) /\ r.esc \in Escapes
    BY ReadlineParts
  <1> HIDE DEF Good
  <1>7. CASE r.esc = "none"
    <2>1. e = PlainEdit(r, c, found, prompt)
      BY <1>7 DEF EditOf
    <2>2. CASE c = "tab"
      <3>1. ~found.many
        BY <1>7, <2>2 DEF Lists
      <3>2. Good(Complete(r, found, prompt))
        <4>1. CASE found.add = <<>>
          BY <1>1, <3>1, <4>1 DEF Complete
        <4>2. CASE found.add # <<>>
          BY <1>3, <1>5, <3>1, <4>2 DEF Complete
        <4> QED
          BY <4>1, <4>2
      <3>3. e = Complete(r, found, prompt)
        BY <2>1, <2>2, ReadlineAssumption DEF PlainEdit, ControlBytes
      <3> QED
        BY <3>2, <3>3 DEF Good
    <2>3. CASE c \in Letters
      <3>1. e = Insert(r, <<c>>)
        BY <2>1, <2>3, ReadlineAssumption DEF PlainEdit, ControlBytes
      <3>2. <<c>> \in Seq(Letters)
        BY <2>3
      <3> QED
        BY <1>3, <3>1, <3>2 DEF Good
    <2>4. CASE c # "tab" /\ c \notin Letters
      <3>1. e \in {Home(r), End(r), Backspace(r), NoEdit(r)}
        BY <2>1, <2>4 DEF PlainEdit
      <3> QED
        BY <1>1, <1>2, <3>1 DEF Good
    <2> QED
      BY <2>2, <2>3, <2>4
  <1>8. CASE r.esc = "bracket"
    <2>1. e = BracketEdit(r, c)
      BY <1>8 DEF EditOf
    <2>2. CASE c = "A" /\ CanGoUp(r)
      <3>1. r.cur + 1 \in 0 .. Len(r.hist)
        BY <1>6, <2>2 DEF CanGoUp
      <3>2. e = Recall(r, r.cur + 1)
        BY <2>1, <2>2 DEF BracketEdit
      <3> QED
        BY <1>4, <3>1, <3>2 DEF Good
    <2>3. CASE c = "B" /\ r.cur > 0
      <3>1. r.cur - 1 \in 0 .. Len(r.hist)
        BY <1>6, <2>3
      <3>2. e = Recall(r, r.cur - 1)
        BY <2>1, <2>3 DEF BracketEdit
      <3> QED
        BY <1>4, <3>1, <3>2 DEF Good
    <2>4. CASE ~(c = "A" /\ CanGoUp(r)) /\ ~(c = "B" /\ r.cur > 0)
      <3>1. e \in {Right(r), Left(r), Home(r), End(r), NoEdit(r)}
        <4> DEFINE up == c = "A" /\ CanGoUp(r)
                   down == c = "B" /\ r.cur > 0
        <4>1. ~up /\ ~down
          BY <2>4
        <4>2. e = CASE up -> Recall(r, r.cur + 1)
                    [] down -> Recall(r, r.cur - 1)
                    [] c = "C" -> Right(r)
                    [] c = "D" -> Left(r)
                    [] c = "H" -> Home(r)
                    [] c = "F" -> End(r)
                    [] OTHER -> NoEdit(r)
          BY <2>1 DEF BracketEdit
        <4> HIDE DEF up, down
        <4> QED
          BY <4>1, <4>2
      <3> QED
        BY <1>1, <3>1 DEF Good
    <2> QED
      BY <2>2, <2>3, <2>4
  <1>9. CASE r.esc = "digit"
    <2>1. e = DigitEdit(r, c)
      BY <1>9 DEF EditOf
    <2>2. e \in {Home(r), End(r), Delete(r), NoEdit(r)}
      BY <2>1 DEF DigitEdit
    <2> QED
      BY <1>1, <1>2, <2>2 DEF Good
  <1>10. CASE r.esc = "O"
    <2>1. e = EscOEdit(r, c)
      BY <1>10 DEF EditOf
    <2>2. e \in {Home(r), End(r), NoEdit(r)}
      BY <2>1 DEF EscOEdit
    <2> QED
      BY <1>1, <2>2 DEF Good
  <1>11. CASE r.esc = "esc"
    <2>1. e = NoEdit(r)
      BY <1>11 DEF EditOf
    <2> QED
      BY <1>1, <2>1 DEF Good
  <1> QED
    BY <1>6, <1>7, <1>8, <1>9, <1>10, <1>11 DEF Escapes

\* The escape sequence and the place in the history stay in their ranges.
LEMMA MovedOK ==
    ASSUME NEW r, ReadlineOK(r), NEW c
    PROVE  /\ ReadlineOK(Moved(r, c))
           /\ Moved(r, c).line = r.line /\ Moved(r, c).cursor = r.cursor
  <1> DEFINE esc == NextEsc(r, c)
             cur == NextCur(r, c)
             digit == IF NextEsc(r, c) = "digit" THEN c ELSE "0"
  <1>1. r.cur \in Nat /\ Len(r.hist) \in Nat /\ r.cur <= Len(r.hist)
    BY ReadlineParts
  <1>2. esc \in Escapes /\ (esc = "digit" => c \in Digits)
    BY DEF NextEsc, Escapes
  <1>3. cur \in Nat /\ cur <= Len(r.hist)
    <2> DEFINE up == r.esc = "bracket" /\ c = "A" /\ CanGoUp(r)
               down == r.esc = "bracket" /\ c = "B" /\ r.cur > 0
    <2>1. cur = CASE up -> r.cur + 1 [] down -> r.cur - 1 [] OTHER -> r.cur
      BY DEF NextCur
    <2>2. up => r.cur + 1 <= Len(r.hist)
      BY DEF CanGoUp
    <2>3. (down => r.cur > 0) /\ ~(up /\ down)
      OBVIOUS
    <2> HIDE DEF up, down, cur
    <2> QED
      BY <1>1, <2>1, <2>2, <2>3
  <1>4. digit \in Digits \cup {"0"}
    BY <1>2
  <1>5. Moved(r, c) = [r EXCEPT !.esc = esc, !.cur = cur, !.digit = digit]
    BY DEF Moved
  <1> HIDE DEF esc, cur, digit
  <1>6. r \in [line : Seq(Letters), cursor : Nat, esc : Escapes, digit : Digits \cup {"0"},
               hist : Seq(Seq(Letters)), cur : Nat]
    BY DEF ReadlineOK
  <1>7. Moved(r, c) = [line |-> r.line, cursor |-> r.cursor, esc |-> esc, digit |-> digit,
                       hist |-> r.hist, cur |-> cur]
    BY <1>5, <1>6
  <1> QED
    BY <1>2, <1>3, <1>4, <1>7, ReadlineParts DEF ReadlineOK

---------------------------------------------------------------------------
(***************************************************************************)
(* What readline writes for one character.                                 *)
(***************************************************************************)

\* Redrawing sets the line and the cursor.
LEMMA RedrawState ==
    ASSUME NEW r, ReadlineOK(r), NEW e, e.line \in Seq(Letters),
           NEW to, to = (r.cursor - e.back) + e.forward, to \in 0 .. Len(e.line)
    PROVE  /\ ReadlineOK(Redraw(r, e).rl)
           /\ Redraw(r, e).rl.line = e.line /\ Redraw(r, e).rl.cursor = to
  <1> DEFINE new == e.line
  <1>1. Redraw(r, e).rl = [r EXCEPT !.line = new, !.cursor = to]
    BY DEF Redraw
  <1>2. new \in Seq(Letters) /\ Len(new) \in Nat /\ to \in Nat /\ to <= Len(new)
    BY LenProperties
  <1>3. r \in [line : Seq(Letters), cursor : Nat, esc : Escapes, digit : Digits \cup {"0"},
               hist : Seq(Seq(Letters)), cur : Nat]
    BY DEF ReadlineOK
  <1> HIDE DEF new
  <1>4. Redraw(r, e).rl = [line |-> new, cursor |-> to, esc |-> r.esc, digit |-> r.digit,
                           hist |-> r.hist, cur |-> r.cur]
    BY <1>1, <1>3
  <1> QED
    BY <1>2, <1>4, ReadlineParts DEF ReadlineOK, new

\* The row with line and cursor of r behind P.
RowBehind(P, r) == At(P \o r.line, Len(P) + r.cursor)

\* What was written for a character shows the new line and cursor in the place of the old
\* ones, behind anything, and stays on the row.
WellDrawn(r, p) ==
    /\ ReadlineOK(p.rl) /\ p.out \in Seq(RowBytes)
    /\ \A P \in Seq(Bytes) : Display(RowBehind(P, r), p.out) = RowBehind(P, p.rl)

\* A character readline goes on with.
LEMMA TypedShown ==
    ASSUME NEW r, ReadlineOK(r), Len(r.line) < 1000, NEW c, NEW found \in Found, NEW prompt,
           ~Lists(r, c, found), Returns(r, c) = "none",
           NEW p, p = ProcessChar(r, c, found, TRUE, prompt), Len(p.rl.line) < 1000
    PROVE  WellDrawn(r, p)
  <1> DEFINE m == Moved(r, c)
             e == EditOf(r, c, found, prompt)
             to == (m.cursor - e.back) + e.forward
  <1>1. p = Redraw(m, e)
    BY DEF ProcessChar, Moved, EditOf
  <1>2. ReadlineOK(m) /\ m.line = r.line /\ m.cursor = r.cursor
    BY MovedOK
  <1>3. GoodEdit(r, e) /\ e.redraw \in BOOLEAN
    <2> DEFINE x == e
    <2>1. x = EditOf(r, c, found, prompt)
      OBVIOUS
    <2> HIDE DEF x
    <2>2. GoodEdit(r, x) /\ x.redraw \in BOOLEAN
      BY <2>1, EditOfGood
    <2> QED
      BY <2>2 DEF x
  <1> HIDE DEF m, e
  <1>4. GoodEdit(m, e)
    BY <1>2, <1>3 DEF GoodEdit
  <1>5. /\ m.line \in Seq(Letters) /\ m.cursor \in 0 .. Len(m.line) /\ Len(m.line) < 1000
    BY <1>2, ReadlineParts
  <1> DEFINE k == to
  <1>6. k = (m.cursor - e.back) + e.forward /\ e.line \in Seq(Letters) /\ k \in 0 .. Len(e.line)
    BY <1>4, <1>5, LenProperties DEF GoodEdit
  <1> HIDE DEF k
  <1>7. /\ ReadlineOK(Redraw(m, e).rl)
        /\ Redraw(m, e).rl.line = e.line /\ Redraw(m, e).rl.cursor = k
    BY <1>2, <1>6, RedrawState
  <1>8. ReadlineOK(p.rl) /\ p.rl.line = e.line /\ p.rl.cursor = k /\ Len(e.line) < 1000
    BY <1>1, <1>7
  <1>9. ASSUME NEW P \in Seq(Bytes)
        PROVE  /\ Redraw(m, e).out \in Seq(RowBytes)
               /\ Display(At(P \o m.line, Len(P) + m.cursor), Redraw(m, e).out)
                    = At(P \o e.line, Len(P) + k)
    <2>1. k = (m.cursor - e.back) + e.forward /\ Len(e.line) < 1000 /\ e.redraw \in BOOLEAN
      BY <1>3, <1>6, <1>8
    <2> QED
      BY ONLY <1>4, <1>5, <2>1, P \in Seq(Bytes), RedrawShown
  <1>10. p.out \in Seq(RowBytes)
    <2>1. <<>> \in Seq(Bytes)
      OBVIOUS
    <2> QED
      BY <1>1, <1>9, <2>1
  <1>11. ASSUME NEW P \in Seq(Bytes)
         PROVE  Display(RowBehind(P, r), p.out) = RowBehind(P, p.rl)
    BY <1>1, <1>2, <1>8, <1>9 DEF RowBehind
  <1> QED
    BY <1>8, <1>10, <1>11 DEF WellDrawn

\* It is well drawn.
LEMMA TypedLine ==
    ASSUME NEW r, ReadlineOK(r), NEW c, NEW found \in Found, NEW prompt,
           ~Lists(r, c, found), Returns(r, c) = "none",
           NEW p, p = ProcessChar(r, c, found, TRUE, prompt)
    PROVE  p.rl.line \in Seq(Letters)
  <1> DEFINE m == Moved(r, c)
             e == EditOf(r, c, found, prompt)
             k == (m.cursor - e.back) + e.forward
             x == e
  <1>1. p = Redraw(m, e)
    BY DEF ProcessChar, Moved, EditOf
  <1>2. ReadlineOK(m) /\ m.line = r.line /\ m.cursor = r.cursor
    BY MovedOK
  <1>3. GoodEdit(r, x)
    <2>1. x = EditOf(r, c, found, prompt)
      OBVIOUS
    <2> HIDE DEF x
    <2> QED
      BY <2>1, EditOfGood
  <1> HIDE DEF m, e
  <1>4. k = (m.cursor - e.back) + e.forward /\ e.line \in Seq(Letters) /\ k \in 0 .. Len(e.line)
    <2>1. r.cursor \in Nat
      BY ReadlineParts
    <2> QED
      BY <1>2, <1>3, <2>1, LenProperties DEF GoodEdit, e
  <1> HIDE DEF k
  <1>5. Redraw(m, e).rl.line = e.line
    BY <1>2, <1>4, RedrawState
  <1> QED
    BY <1>1, <1>4, <1>5

\* TAB with many matches lists them: what is written starts with a newline and the list,
\* which the host cannot take for a continuation prompt.
LEMMA ListsShown ==
    ASSUME NEW r, ReadlineOK(r), Len(r.line) < 1000, NEW c, NEW found \in Found,
           NEW prompt \in Seq(Bytes), Lists(r, c, found),
           NEW p, p = ProcessChar(r, c, found, TRUE, prompt)
    PROVE  /\ ReadlineOK(p.rl) /\ p.rl.line = r.line
           /\ p.out \in Seq(Bytes) /\ Len(p.out) > 2 /\ p.out[3] = "m"
  <1> DEFINE m == Moved(r, c)
             e == Complete(r, found, prompt)
             head == <<"cr", "nl", "m", "cr", "nl">>
             pre == SubSeq(r.line, 1, r.cursor)
             w == head \o prompt \o pre
  <1>1. p = Redraw(m, e)
    <2>1. r.esc = "none" /\ c = "tab" /\ found.many
      BY DEF Lists
    <2>2. EditOf(r, c, found, prompt) = e
      BY <2>1, ReadlineAssumption DEF EditOf, PlainEdit, ControlBytes
    <2>3. Returns(r, c) = "none"
      BY <2>1 DEF Returns, Controls
    <2>4. p = Redraw(m, EditOf(r, c, found, prompt))
      BY <2>3 DEF ProcessChar, Moved, EditOf
    <2> QED
      BY <2>2, <2>4
  <1>2. ReadlineOK(m) /\ m.line = r.line /\ m.cursor = r.cursor
    BY MovedOK
  <1>3. /\ e.line = r.line /\ e.back = 0 /\ e.forward = 0 /\ e.redraw = TRUE /\ e.wrote = w
    <2> DEFINE x == Edit(r.line, 0, TRUE, 0)
               v == w
    <2> HIDE DEF v
    <2>1. e = [x EXCEPT !.wrote = v]
      BY DEF Complete, Lists, v
    <2>2. x = [line |-> r.line, back |-> 0, redraw |-> TRUE, forward |-> 0, wrote |-> <<>>]
      BY DEF Edit
    <2> HIDE DEF x, e
    <2>3. e = [line |-> r.line, back |-> 0, redraw |-> TRUE, forward |-> 0, wrote |-> v]
      BY <2>1, <2>2
    <2>4. /\ e.line = r.line /\ e.back = 0 /\ e.forward = 0 /\ e.redraw = TRUE /\ e.wrote = v
      BY <2>3
    <2> QED
      BY <2>4 DEF v
  <1>4. /\ r.line \in Seq(Letters) /\ Len(r.line) \in Nat /\ r.cursor \in Nat
        /\ r.cursor <= Len(r.line)
    BY ReadlineParts
  <1>5. r.line \in Seq(Bytes)
    BY <1>4, LetterBytes
  <1>6. pre \in Seq(Bytes)
    BY <1>4, <1>5, PrefixProperties
  <1>7. head \in Seq(Bytes) /\ Len(head) = 5 /\ head[3] = "m"
    <2>1. ASSUME NEW S, NEW t \in S, NEW u \in S, NEW v \in S PROVE <<t, u, v, t, u>> \in Seq(S)
      OBVIOUS
    <2>2. "cr" \in Bytes /\ "nl" \in Bytes /\ "m" \in Bytes
      BY DEF Bytes
    <2>3. head \in Seq(Bytes)
      BY <2>1, <2>2
    <2> QED
      BY <2>3
  <1> HIDE DEF m, e, head, pre
  <1>8. ASSUME NEW x \in Seq(Bytes), Len(x) > 2, x[3] = "m", NEW y \in Seq(Bytes)
        PROVE  x \o y \in Seq(Bytes) /\ Len(x \o y) > 2 /\ (x \o y)[3] = "m"
    <2> DEFINE n == Len(x)
    <2>1. x \o y \in Seq(Bytes) /\ Len(x \o y) = n + Len(y) /\ \A i \in 1 .. n : (x \o y)[i] = x[i]
      BY BehindPrefix
    <2>2. n \in Nat /\ Len(y) \in Nat /\ n > 2 /\ 3 \in 1 .. n
      BY <1>8, LenProperties
    <2> HIDE DEF n
    <2>3. Len(x \o y) > 2
      BY <2>1, <2>2
    <2>4. (x \o y)[3] = x[3]
      BY <2>1, <2>2
    <2> QED
      BY <1>8, <2>1, <2>3, <2>4
  <1>9. w \in Seq(Bytes) /\ Len(w) > 2 /\ w[3] = "m"
    <2> DEFINE hp == head \o prompt
    <2>0. head \in Seq(Bytes) /\ Len(head) > 2 /\ head[3] = "m"
      BY <1>7
    <2>1. hp \in Seq(Bytes) /\ Len(hp) > 2 /\ hp[3] = "m"
      BY <1>8, <2>0
    <2> HIDE DEF hp
    <2>2. hp \o pre \in Seq(Bytes) /\ Len(hp \o pre) > 2 /\ (hp \o pre)[3] = "m"
      BY <1>6, <1>8, <2>1
    <2> QED
      BY <2>2 DEF hp
  <1> HIDE DEF w
  <1> DEFINE n == Len(r.line)
             back == MoveBack(0)
             rest == SubSeq(r.line, r.cursor + 1, Len(r.line))
             home == MoveBack(n - r.cursor)
             wb == w \o back
             rh == (<<>> \o rest) \o home
  <1>10. p.out = wb \o rh
    <2>1. m.cursor - e.back = r.cursor /\ (m.cursor - e.back) + e.forward = r.cursor
      BY <1>2, <1>3, <1>4
    <2>2. ~(Len(e.line) < Len(m.line))
      BY <1>2, <1>3, <1>4
    <2>3. p.out = e.wrote \o MoveBack(e.back) \o
                  ((IF Len(e.line) < Len(m.line) THEN EraseLine ELSE <<>>)
                     \o SubSeq(e.line, (m.cursor - e.back) + 1, Len(e.line))
                     \o MoveBack(Len(e.line) - ((m.cursor - e.back) + e.forward)))
      <3> DEFINE drawn == (IF Len(e.line) < Len(m.line) THEN EraseLine ELSE <<>>)
                     \o SubSeq(e.line, (m.cursor - e.back) + 1, Len(e.line))
                     \o MoveBack(Len(e.line) - ((m.cursor - e.back) + e.forward))
                 moved == SubSeq(SubSeq(e.line, (m.cursor - e.back) + 1, Len(e.line)), 1, e.forward)
      <3>1. Redraw(m, e).out = e.wrote \o MoveBack(e.back) \o IF e.redraw THEN drawn ELSE moved
        BY DEF Redraw
      <3> HIDE DEF drawn, moved
      <3>2. (IF e.redraw THEN drawn ELSE moved) = drawn
        BY <1>3
      <3> QED
        BY <1>1, <3>1, <3>2 DEF drawn
    <2> HIDE DEF back, home
    <2>4. MoveBack(e.back) = back /\ MoveBack(Len(e.line) - ((m.cursor - e.back) + e.forward)) = home
      BY <1>3, <2>1 DEF back, home
    <2>5. SubSeq(e.line, (m.cursor - e.back) + 1, Len(e.line)) = rest
      BY <1>3, <2>1
    <2> HIDE DEF rest
    <2> QED
      BY <1>3, <2>2, <2>3, <2>4, <2>5
  <1>11. back \in Seq(Bytes) /\ home \in Seq(Bytes)
    <2> DEFINE k == n - r.cursor
    <2>1. k \in Nat /\ k \in 0 .. k /\ k < 1000 /\ 0 \in 0 .. k
      BY <1>4
    <2> HIDE DEF k
    <2>2. ASSUME NEW j \in Nat, j < 1000 PROVE MoveBack(j) \in Seq(Bytes)
      <3>1. MoveBack(j) \in Seq(RowBytes) /\ RowBytes \subseteq Bytes
        BY <2>2, MoveBackStaysOnRow DEF RowBytes
      <3> QED
        BY <3>1, SeqOfSubset
    <2>3. MoveBack(k) \in Seq(Bytes) /\ MoveBack(0) \in Seq(Bytes)
      BY <2>1, <2>2
    <2> QED
      BY <2>3 DEF k
  <1>12. rest \in Seq(Bytes)
    BY <1>4, <1>5, SuffixProperties
  <1> HIDE DEF back, rest, home
  <1>13. wb \in Seq(Bytes) /\ Len(wb) > 2 /\ wb[3] = "m"
    BY <1>8, <1>9, <1>11
  <1>14. rh \in Seq(Bytes)
    <2>1. <<>> \o rest = rest
      BY <1>12, ConcatEmptySeq
    <2> QED
      BY <1>11, <1>12, <2>1, ConcatProperties
  <1> HIDE DEF wb, rh
  <1>15. p.out \in Seq(Bytes) /\ Len(p.out) > 2 /\ p.out[3] = "m"
    BY <1>8, <1>10, <1>13, <1>14
  <1>16. ReadlineOK(p.rl) /\ p.rl.line = e.line
    <2> DEFINE to == (m.cursor - e.back) + e.forward
    <2>1. to = r.cursor /\ to \in 0 .. Len(e.line) /\ e.line \in Seq(Letters)
      BY <1>2, <1>3, <1>4
    <2> DEFINE k == to
    <2>2. k = (m.cursor - e.back) + e.forward /\ k \in 0 .. Len(e.line)
      BY <2>1
    <2> HIDE DEF k
    <2>3. ReadlineOK(Redraw(m, e).rl) /\ Redraw(m, e).rl.line = e.line
      BY ONLY <1>2, <2>1, <2>2, RedrawState
    <2> QED
      BY <1>1, <2>3
  <1> QED
    BY <1>3, <1>15, <1>16

\* readline_push_history keeps the history within its places and what was there shown.
LEMMA PushedHistory ==
    ASSUME NEW hist \in Seq(Seq(Letters)), Len(hist) <= HistSize, NEW line \in Seq(Letters),
           NEW room \in BOOLEAN, NEW h, h = PushHistory(hist, line, room)
    PROVE  h \in Seq(Seq(Letters)) /\ Len(h) <= HistSize /\ Len(hist) <= Len(h)
  <1> DEFINE n == Len(hist)
             k == IF n < HistSize THEN n ELSE HistSize - 1
             kept == SubSeq(hist, 1, k)
  <1>1. n \in Nat /\ HistSize \in Nat \ {0} /\ n <= HistSize
    BY LenProperties, ReadlineAssumption
  <1>2. h = hist \/ h = <<line>> \o kept
    BY DEF PushHistory
  <1>3. k \in Nat /\ k <= n /\ 1 + k <= HistSize /\ n <= 1 + k
    BY <1>1
  <1> HIDE DEF k
  <1>4. kept \in Seq(Seq(Letters)) /\ Len(kept) = k
    BY <1>3, PrefixProperties
  <1> HIDE DEF kept
  <1>5. <<line>> \in Seq(Seq(Letters)) /\ Len(<<line>>) = 1
    OBVIOUS
  <1> DEFINE one == <<line>>
  <1> HIDE DEF one
  <1>6. one \o kept \in Seq(Seq(Letters)) /\ Len(one \o kept) = Len(one) + Len(kept)
    BY <1>4, <1>5, ConcatProperties DEF one
  <1>7. Len(one \o kept) = 1 + k
    BY <1>4, <1>5, <1>6 DEF one
  <1>8. CASE h = hist
    BY <1>1, <1>8
  <1>9. CASE h = one \o kept
    BY <1>1, <1>3, <1>6, <1>7, <1>9
  <1> QED
    BY <1>2, <1>8, <1>9 DEF one

---------------------------------------------------------------------------
(***************************************************************************)
(* Newlines, prompts and what a command prints.                            *)
(***************************************************************************)

\* A newline starts a row.
LEMMA NewlineShown ==
    ASSUME NEW R, NEW c
    PROVE  /\ Newline \in Seq(Bytes) /\ Len(Newline) = 2
           /\ Display(At(R, c), Newline) = At(<<>>, 0)
  <1> DEFINE a == <<"cr">>
             b == <<"nl">>
  <1>1. Newline = a \o b
    BY DEF Newline
  <1>2. a \in Seq(Bytes) /\ b \in Seq(Bytes)
    <2>1. ASSUME NEW S, NEW u \in S PROVE <<u>> \in Seq(S)
      OBVIOUS
    <2>2. "cr" \in Bytes /\ "nl" \in Bytes
      BY DEF Bytes
    <2> QED
      BY <2>1, <2>2
  <1>3. Shown(At(R, c), "cr") = At(R, 0)
    BY DEF Shown, At
  <1>4. Shown(At(R, 0), "nl") = At(<<>>, 0)
    BY DEF Shown, At, Row
  <1>5. Display(At(R, c), a) = At(R, 0) /\ Display(At(R, 0), b) = At(<<>>, 0)
    BY <1>3, <1>4, DisplayByte
  <1>6. Len(Newline) = 2
    BY DEF Newline
  <1> DEFINE s == At(R, c)
             t == At(R, 0)
             u == At(<<>>, 0)
  <1> HIDE DEF a, b, s, t, u
  <1>7. a \o b \in Seq(Bytes) /\ Display(s, a \o b) = u
    BY <1>2, <1>5, DisplayThen DEF s, t, u
  <1> QED
    BY <1>1, <1>6, <1>7 DEF s, u

\* The prompts, in bytes.
LEMMA PromptBytes ==
    ASSUME NEW isCont \in BOOLEAN
    PROVE  /\ Prompt(isCont) \in Seq(Bytes) /\ Len(Prompt(isCont)) = 4
           /\ \A i \in 1 .. 4 : IsPlain(Prompt(isCont)[i])
  <1>1. ASSUME NEW S, NEW a \in S, NEW b \in S
        PROVE  <<a, a, a, b>> \in Seq(S) /\ Len(<<a, a, a, b>>) = 4
    OBVIOUS
  <1>2. ">" \in Bytes /\ "." \in Bytes /\ " " \in Bytes
    BY DEF Bytes
  <1>3. Ps1 \in Seq(Bytes) /\ Len(Ps1) = 4 /\ Ps2 \in Seq(Bytes) /\ Len(Ps2) = 4
    BY <1>1, <1>2 DEF Ps1, Ps2
  <1>4. \A i \in 1 .. 4 : IsPlain(Ps1[i]) /\ IsPlain(Ps2[i])
    <2>1. \A i \in 1 .. 4 : i \in {1, 2, 3, 4}
      OBVIOUS
    <2>2. /\ Ps1[1] = ">" /\ Ps1[2] = ">" /\ Ps1[3] = ">" /\ Ps1[4] = " "
          /\ Ps2[1] = "." /\ Ps2[2] = "." /\ Ps2[3] = "." /\ Ps2[4] = " "
      BY DEF Ps1, Ps2
    <2>3. IsPlain(">") /\ IsPlain(".") /\ IsPlain(" ")
      BY DEF IsPlain
    <2> HIDE DEF Ps1, Ps2, IsPlain
    <2> QED
      BY <2>1, <2>2, <2>3
  <1>5. Prompt(isCont) = Ps1 \/ Prompt(isCont) = Ps2
    BY DEF Prompt
  <1> QED
    BY <1>3, <1>4, <1>5

\* A prompt behind the end of a row.
LEMMA PromptShown ==
    ASSUME NEW R \in Seq(Bytes), NEW isCont \in BOOLEAN
    PROVE  Display(At(R, Len(R)), Prompt(isCont)) = At(R \o Prompt(isCont), Len(R) + 4)
  <1> DEFINE Q == Prompt(isCont)
             T == R \o Q
             c == Len(R)
  <1>1. Q \in Seq(Bytes) /\ Len(Q) = 4 /\ \A i \in 1 .. 4 : IsPlain(Q[i])
    BY PromptBytes
  <1> HIDE DEF Q
  <1>2. /\ T \in Seq(Bytes) /\ Len(T) = c + 4
        /\ (\A i \in 1 .. c : T[i] = R[i]) /\ \A i \in 1 .. 4 : T[c + i] = Q[i]
    <2>1. /\ T \in Seq(Bytes) /\ Len(T) = c + Len(Q)
          /\ (\A i \in 1 .. c : T[i] = R[i]) /\ \A i \in 1 .. Len(Q) : T[c + i] = Q[i]
      BY <1>1, BehindPrefix
    <2> HIDE DEF T
    <2> QED
      BY <1>1, <2>1
  <1>3. c \in Nat
    BY LenProperties
  <1> HIDE DEF T
  <1>4. /\ c \in 0 .. Len(R) /\ (\A i \in 1 .. Len(Q) : IsPlain(Q[i])) /\ c + Len(Q) <= Len(T)
        /\ (\A i \in 1 .. Len(Q) : Q[i] = T[c + i])
        /\ Len(R) <= c + Len(Q) /\ Len(T) = c + Len(Q)
    BY <1>1, <1>2, <1>3
  <1> HIDE DEF c
  <1>5. Display(At(R, c), Q) = At(T, c + Len(Q))
    BY <1>1, <1>2, <1>4, WriteTarget
  <1> QED
    BY <1>1, <1>5 DEF Q, T, c

\* The cursor is at the end of the row behind what a command printed.
LEMMA TextShown ==
    ASSUME NEW R \in Seq(Bytes), NEW x \in Texts
    PROVE  x \in Seq(Bytes) /\ \E Z \in Seq(Bytes) : Display(At(R, Len(R)), x) = At(Z, Len(Z))
  <1> DEFINE n == Len(x)
             s == At(R, Len(R))
             Ended(t) == \E Z \in Seq(Bytes) : t = At(Z, Len(Z))
             Return(t) == \E Z \in Seq(Bytes) : t = At(Z, 0)
  <1>1. x \in Seq(Bytes)
    <2>1. x \in Seq(STRING) /\ STRING \subseteq Bytes
      BY TerminalAssumption DEF Bytes
    <2> QED
      BY <2>1, SeqOfSubset
  <1>2. n \in Nat /\ \A i \in 1 .. n : x[i] \in Bytes
    BY <1>1, LenProperties, ElementOfSeq
  <1>3. \A i \in 1 .. n : /\ x[i] \notin {"ESC", "bs"}
                          /\ x[i] = "cr" => i + 1 <= n /\ x[i + 1] = "nl"
    BY TextsAssumption
  <1>4. PICK f : Steps(f, s, x) /\ Display(s, x) = f[n]
    BY <1>2, DisplaySteps
  <1>5. f[0] = s /\ \A i \in 1 .. n : f[i] = Shown(f[i - 1], x[i])
    BY <1>4 DEF Steps
  <1>6. \A t : Return(t) => Ended(Shown(t, "nl"))
    <2> SUFFICES ASSUME NEW Z \in Seq(Bytes) PROVE Ended(Shown(At(Z, 0), "nl"))
      OBVIOUS
    <2>1. Shown(At(Z, 0), "nl") = At(<<>>, Len(<<>>))
      BY DEF Shown, At, Row
    <2>2. <<>> \in Seq(Bytes)
      OBVIOUS
    <2> QED
      BY <2>1, <2>2
  <1>7. ASSUME NEW Z \in Seq(Bytes), NEW b \in Bytes, b \notin {"ESC", "bs"}
        PROVE  LET t == Shown(At(Z, Len(Z)), b) IN Ended(t) \/ (b = "cr" /\ Return(t))
    <2> DEFINE l == Len(Z)
               t == Shown(At(Z, l), b)
    <2>0. l \in Nat
      BY LenProperties
    <2>1. CASE b = "cr"
      <3>1. t = At(Z, 0)
        BY <2>1 DEF Shown, At
      <3> QED
        BY <2>1, <3>1
    <2>2. CASE b = "nl"
      <3>1. t = At(<<>>, Len(<<>>))
        BY <2>2 DEF Shown, At, Row
      <3>2. <<>> \in Seq(Bytes)
        OBVIOUS
      <3> QED
        BY <3>1, <3>2
    <2>3. CASE b \notin {"cr", "nl"}
      <3> DEFINE m == l + 1
                 Q == [i \in 1 .. m |-> IF i = l + 1 THEN b ELSE Z[i]]
      <3>1. IsPlain(b) /\ m = IF l < Len(Z) THEN Len(Z) ELSE l + 1
        BY <1>7, <2>0, <2>3 DEF IsPlain
      <3>2. l \in 0 .. Len(Z)
        BY <2>0
      <3>3. m \in Nat /\ \A i \in 1 .. m : i # l + 1 => i \in 1 .. l
        BY <2>0
      <3>4. \A i \in 1 .. l : Z[i] \in Bytes
        BY ElementOfSeq
      <3>4a. m = l + 1
        OBVIOUS
      <3> HIDE DEF m, l
      <3>5. t = At(Q, l + 1)
        BY <3>1, <3>2, ShownPlain
      <3>6. Q \in [1 .. m -> Bytes]
        BY <3>3, <3>4
      <3> HIDE DEF Q
      <3>7. Q \in Seq(Bytes) /\ Len(Q) = m
        BY <3>3, <3>6, FunctionIsSequence
      <3>8. t = At(Q, Len(Q))
        BY <3>4a, <3>5, <3>7
      <3> HIDE DEF t
      <3>9. Ended(t)
        BY <3>7, <3>8
      <3> QED
        BY <3>9 DEF t, l
    <2> QED
      BY <2>1, <2>2, <2>3
  <1> DEFINE Fine(i) == Ended(f[i]) \/ (i \in 1 .. n /\ x[i] = "cr" /\ Return(f[i]))
             Bad == {i \in Nat : i <= n /\ ~Fine(i)}
  <1>8. Bad = {}
    <2> SUFFICES ASSUME Bad # {} PROVE FALSE
      OBVIOUS
    <2>1. PICK i \in Bad : \A k \in Bad : i <= k
      <3>1. Bad \in SUBSET Nat
        OBVIOUS
      <3> HIDE DEF Bad
      <3> QED
        BY <3>1, LeastOf
    <2>2. i \in Nat /\ i <= n /\ ~Fine(i)
      OBVIOUS
    <2>3. i # 0
      BY <1>5, <2>2
    <2>4. i \in 1 .. n /\ i - 1 \in Nat /\ i - 1 <= n /\ ~(i <= i - 1)
      BY <1>2, <2>2, <2>3
    <2>5. Fine(i - 1)
      BY <2>1, <2>4
    <2>6. f[i] = Shown(f[i - 1], x[i]) /\ x[i] \in Bytes /\ x[i] \notin {"ESC", "bs"}
      BY <1>2, <1>3, <1>5, <2>4
    <2>7. CASE Ended(f[i - 1])
      <3>1. PICK Z \in Seq(Bytes) : f[i - 1] = At(Z, Len(Z))
        BY <2>7
      <3> DEFINE t == Shown(At(Z, Len(Z)), x[i])
      <3>2. Ended(t) \/ (x[i] = "cr" /\ Return(t))
        BY <1>7, <2>6
      <3>3. f[i] = t
        BY <2>6, <3>1
      <3> HIDE DEF t, Ended, Return
      <3> QED
        BY <2>2, <2>4, <3>2, <3>3
    <2>8. CASE i - 1 \in 1 .. n /\ x[i - 1] = "cr" /\ Return(f[i - 1])
      <3>1. (i - 1) + 1 = i
        BY <2>4
      <3>2. x[i] = "nl"
        BY <1>3, <2>8, <3>1
      <3> HIDE DEF Return, Ended
      <3>3. Ended(f[i])
        BY <1>6, <2>6, <2>8, <3>2
      <3> QED
        BY <2>2, <3>3
    <2> QED
      BY <2>5, <2>7, <2>8
  <1>9. Fine(n)
    BY <1>2, <1>8
  <1>10. ~(n \in 1 .. n /\ x[n] = "cr")
    BY <1>2, <1>3
  <1>11. Ended(f[n])
    BY <1>9, <1>10
  <1> QED
    BY <1>1, <1>4, <1>11

---------------------------------------------------------------------------
(***************************************************************************)
(* The inductive invariant.  While the row is the one the interpreters     *)
(* draw on, it is some bytes, the prompt and the line, with the cursor     *)
(* where readline has it; otherwise the model keeps an empty row.  The     *)
(* terminal is never left in the middle of a command.                      *)
(***************************************************************************)

\* The row of s ends with the prompt and the line of r, and its cursor is r's.
ShowsLine(s, isCont, r) ==
    \E k \in 0 .. Len(s.row) :
        s = At(SubSeq(s.row, 1, k) \o (Prompt(isCont) \o r.line), (k + 4) + r.cursor)

TerminalInv ==
    /\ ReadlineOK(rl) /\ WithinBounds(rl.line)
    /\ cont \in BOOLEAN /\ synced \in BOOLEAN /\ dots \in [2 .. 4 -> BOOLEAN]
    /\ screen.row \in Seq(Bytes)
    /\ synced => ShowsLine(screen, cont, rl)
    /\ ~synced => screen = Row(<<>>)

\* A row and a prompt behind it.
LEMMA BehindPrompt ==
    ASSUME NEW P \in Seq(Bytes), NEW Q \in Seq(Bytes), Len(Q) = 4
    PROVE  P \o Q \in Seq(Bytes) /\ Len(P \o Q) = Len(P) + 4
  <1>1. P \o Q \in Seq(Bytes) /\ Len(P \o Q) = Len(P) + Len(Q)
    BY BehindPrefix
  <1> QED
    BY <1>1

\* What is known of a row that ends with the prompt and the line.
LEMMA ShowsParts ==
    ASSUME NEW s, s.row \in Seq(Bytes), NEW isCont \in BOOLEAN, NEW r, ReadlineOK(r),
           ShowsLine(s, isCont, r)
    PROVE  \E P \in Seq(Bytes) :
              /\ s = At((P \o Prompt(isCont)) \o r.line, Len(P \o Prompt(isCont)) + r.cursor)
              /\ Len(P \o Prompt(isCont)) = Len(P) + 4
              /\ (P \o Prompt(isCont)) \in Seq(Bytes)
  <1> DEFINE Q == Prompt(isCont)
             l == r.line
  <1>1. PICK k \in 0 .. Len(s.row) : s = At(SubSeq(s.row, 1, k) \o (Q \o l), (k + 4) + r.cursor)
    BY DEF ShowsLine
  <1> DEFINE P == SubSeq(s.row, 1, k)
  <1>2. k \in Nat /\ k <= Len(s.row)
    BY LenProperties
  <1>3. P \in Seq(Bytes) /\ Len(P) = k
    BY <1>2, PrefixProperties
  <1>4. Q \in Seq(Bytes) /\ Len(Q) = 4
    BY PromptBytes
  <1>5. l \in Seq(Bytes)
    BY ReadlineParts, LetterBytes
  <1> HIDE DEF P, Q, l
  <1>6. P \o (Q \o l) = (P \o Q) \o l
    BY <1>3, <1>4, <1>5, ConcatAssociative
  <1>7. P \o Q \in Seq(Bytes) /\ Len(P \o Q) = Len(P) + 4
    BY <1>3, <1>4, BehindPrompt
  <1>8. s = At((P \o Q) \o l, Len(P \o Q) + r.cursor)
    BY <1>1, <1>3, <1>6, <1>7 DEF P
  <1> QED
    BY <1>3, <1>7, <1>8 DEF Q, l

\* And how it is shown to be one.
LEMMA ShowsFrom ==
    ASSUME NEW P \in Seq(Bytes), NEW isCont \in BOOLEAN, NEW r, ReadlineOK(r),
           NEW s, s = At((P \o Prompt(isCont)) \o r.line, Len(P \o Prompt(isCont)) + r.cursor)
    PROVE  s.row \in Seq(Bytes) /\ ShowsLine(s, isCont, r)
  <1> DEFINE Q == Prompt(isCont)
             l == r.line
             k == Len(P)
             w == P \o (Q \o l)
             c == (k + 4) + r.cursor
  <1>1. Q \in Seq(Bytes) /\ Len(Q) = 4
    BY PromptBytes
  <1>2. l \in Seq(Bytes)
    BY ReadlineParts, LetterBytes
  <1>3. s = At((P \o Q) \o l, Len(P \o Q) + r.cursor)
    OBVIOUS
  <1> HIDE DEF Q, l
  <1>4. (P \o Q) \o l = w
    BY <1>1, <1>2, ConcatAssociative
  <1>5. Len(P \o Q) = k + 4
    BY <1>1, BehindPrompt
  <1>6. Q \o l \in Seq(Bytes) /\ Len(Q \o l) \in Nat
    BY <1>1, <1>2, ConcatProperties, LenProperties
  <1> DEFINE y == Q \o l
  <1>7. w \in Seq(Bytes) /\ Len(w) = k + Len(y) /\ \A i \in 1 .. k : w[i] = P[i]
    BY <1>6, BehindPrefix
  <1>8. s = At(w, c)
    BY <1>3, <1>4, <1>5
  <1>9. k \in Nat
    BY LenProperties
  <1> HIDE DEF w, c
  <1>10. s.row = w
    <2>1. At(w, c).row = w
      BY DEF At
    <2> HIDE DEF At
    <2> QED
      BY ONLY <1>8, <2>1
  <1>11. SubSeq(w, 1, k) = P
    <2>0. k <= Len(w)
      BY <1>6, <1>7, <1>9
    <2> DEFINE v == SubSeq(w, 1, k)
    <2>1. v \in Seq(Bytes) /\ Len(v) = k /\ \A i \in 1 .. k : v[i] = w[i]
      BY <1>7, <1>9, <2>0, PrefixProperties
    <2> HIDE DEF v
    <2>2. Len(v) = Len(P) /\ \A i \in 1 .. Len(v) : v[i] = P[i]
      BY <1>7, <2>1
    <2>3. v = P
      BY <2>1, <2>2, SeqEqual
    <2> QED
      BY <2>3 DEF v
  <1>12. k \in 0 .. Len(w)
    BY <1>6, <1>7, <1>9
  <1>13. s = At(SubSeq(s.row, 1, k) \o y, c)
    BY <1>8, <1>10, <1>11 DEF w
  <1>14. s.row \in Seq(Bytes)
    BY <1>7, <1>10
  <1> HIDE DEF k
  <1>15. \E j \in 0 .. Len(s.row) : s = At(SubSeq(s.row, 1, j) \o y, (j + 4) + r.cursor)
    BY <1>10, <1>12, <1>13 DEF c
  <1> QED
    BY <1>14, <1>15 DEF ShowsLine, Q, l

\* A prompt at the end of the row, and an empty line.
LEMMA ShowsPrompt ==
    ASSUME NEW P \in Seq(Bytes), NEW isCont \in BOOLEAN, NEW r, ReadlineOK(r),
           r.line = <<>>, r.cursor = 0,
           NEW s, s = At(P \o Prompt(isCont), Len(P) + 4)
    PROVE  s.row \in Seq(Bytes) /\ ShowsLine(s, isCont, r)
  <1> DEFINE Q == Prompt(isCont)
             y == P \o Q
  <1>1. Q \in Seq(Bytes) /\ Len(Q) = 4
    BY PromptBytes
  <1>2. y \in Seq(Bytes) /\ Len(y) = Len(P) + 4
    BY <1>1, BehindPrompt
  <1> HIDE DEF y
  <1>3. y \o <<>> = y /\ Len(P) \in Nat
    BY <1>2, ConcatEmptySeq, LenProperties
  <1>4. Len(y) + r.cursor = Len(P) + 4
    BY <1>2, <1>3
  <1>5. s = At(y \o r.line, Len(y) + r.cursor)
    BY <1>3, <1>4 DEF y
  <1> QED
    BY <1>5, ShowsFrom DEF y

\* The row the host's own prompt is on.
LEMMA RowIsAt ==
    /\ Row(<<>>) = At(<<>>, 0)
    /\ Row(Ps1) = At(<<>> \o Prompt(FALSE), Len(<<>>) + 4)
    /\ <<>> \in Seq(Bytes)
  <1>1. Prompt(FALSE) = Ps1 /\ Prompt(FALSE) \in Seq(Bytes) /\ Len(Prompt(FALSE)) = 4
    BY PromptBytes DEF Prompt
  <1>2. <<>> \o Ps1 = Ps1
    BY <1>1, ConcatEmptySeq
  <1>3. Len(Ps1) = 4
    BY <1>1
  <1>4. Row(<<>>) = At(<<>>, 0)
    BY DEF Row, At
  <1>5. Row(Ps1) = At(Ps1, 4)
    BY <1>3 DEF Row, At
  <1>6. Len(<<>>) + 4 = 4 /\ <<>> \in Seq(Bytes)
    OBVIOUS
  <1>7. At(<<>> \o Prompt(FALSE), Len(<<>>) + 4) = At(Ps1, 4)
    BY <1>1, <1>2, <1>6
  <1> QED
    BY <1>4, <1>5, <1>6, <1>7

---------------------------------------------------------------------------
\* What the print callback does to the row.
LEMMA AnswerCases ==
    ASSUME NEW c, NEW bytes \in Seq(Bytes), NEW outs, outs[Tile0] = Buffered(bytes),
           Answer(c, outs), synced \in BOOLEAN, dots \in [2 .. 4 -> BOOLEAN], cont' \in BOOLEAN
    PROVE  /\ synced' \in BOOLEAN /\ dots' \in [2 .. 4 -> BOOLEAN]
           /\ ~synced' => screen' = Row(<<>>)
           /\ synced' =>
                \/ /\ PassesThrough(c) /\ screen' = Display(screen, bytes)
                   /\ synced \/ (rl'.line = <<>> /\ Contains(bytes, "nl"))
                   /\ Len(bytes) > 2 /\ bytes[3] # "." => dots'[2] = FALSE
                \/ rl'.line = <<>> /\ cont' = FALSE /\ screen' = Row(Ps1)
  <1> DEFINE out == outs[Tile0]
             whole == Len(out) < BufSize - 1
             fresh == rl'.line = <<>> /\ Contains(out, "nl")
  <1>1. dots' = [i \in 2 .. 4 |-> IF i < Len(out) THEN out[i + 1] = "." ELSE i > Len(out) /\ dots[i]]
    BY DEF Answer, DotsAfter
  <1>2. dots' \in [2 .. 4 -> BOOLEAN]
    BY <1>1
  <1>3. BufSize \in Nat \ {0} /\ Len(bytes) \in Nat
    BY TerminalAssumption, LenProperties
  <1>4. whole => out = bytes
    <2>1. CASE Len(bytes) < BufSize
      BY <2>1 DEF Buffered
    <2>2. CASE ~(Len(bytes) < BufSize)
      <3> DEFINE k == BufSize - 1
      <3>1. out = SubSeq(bytes, 1, k)
        BY <2>2 DEF Buffered
      <3>2. k \in Nat /\ k <= Len(bytes)
        BY <1>3, <2>2
      <3> HIDE DEF k, out
      <3>3. Len(out) = k
        BY <3>1, <3>2, PrefixProperties
      <3>4. ~whole
        BY <3>2, <3>3 DEF k
      <3> QED
        BY <3>4
    <2> QED
      BY <2>1, <2>2
  <1>5. CASE PassesThrough(c)
    <2>1. /\ synced' = (whole /\ (synced \/ fresh))
          /\ screen' = IF synced' THEN Display(screen, out) ELSE Row(<<>>)
      BY <1>5 DEF Answer
    <2>2. synced' \in BOOLEAN /\ (synced' <=> whole /\ (synced \/ fresh))
      BY <2>1
    <2>3. ASSUME synced', Len(bytes) > 2, bytes[3] # "." PROVE dots'[2] = FALSE
      <3>1. out = bytes
        BY <1>4, <2>2, <2>3
      <3> HIDE DEF out
      <3>2. 2 \in 2 .. 4 /\ 2 < Len(out) /\ 2 + 1 = 3 /\ out[3] # "."
        BY <1>3, <2>3, <3>1
      <3> QED
        BY <1>1, <3>2
    <2> HIDE DEF whole
    <2>4. ASSUME synced'
          PROVE  screen' = Display(screen, bytes) /\ (synced \/ (rl'.line = <<>> /\ Contains(bytes, "nl")))
      BY <1>4, <2>1, <2>2, <2>4
    <2> QED
      BY <1>2, <1>5, <2>1, <2>2, <2>3, <2>4
  <1>6. CASE ~PassesThrough(c)
    <2>1. /\ synced' = (rl'.line = <<>> /\ ~cont')
          /\ screen' = IF synced' THEN Row(Ps1) ELSE Row(<<>>)
      BY <1>6 DEF Answer
    <2> QED
      BY <1>2, <2>1
  <1> QED
    BY <1>5, <1>6

---------------------------------------------------------------------------
(***************************************************************************)
(* Every action keeps it.                                                  *)
(***************************************************************************)

\* The invariant of the next state.
LEMMA PrimedInv ==
    TerminalInv' <=> /\ ReadlineOK(rl') /\ WithinBounds(rl'.line)
                     /\ cont' \in BOOLEAN /\ synced' \in BOOLEAN /\ dots' \in [2 .. 4 -> BOOLEAN]
                     /\ screen'.row \in Seq(Bytes)
                     /\ synced' => ShowsLine(screen', cont', rl')
                     /\ ~synced' => screen' = Row(<<>>)
  BY DEF TerminalInv, ReadlineOK, WithinBounds, ShowsLine, Row, At, Prompt

\* A line within the bounds is one mp_hal_move_cursor_back can move in.
LEMMA LineLength ==
    ASSUME NEW line \in Seq(Letters), WithinBounds(line)
    PROVE  Len(line) < 1000
  <1>1. Len(line) \in Nat /\ MaxLine \in 0 .. 999 /\ MaxLong \in 0 .. 999
    BY LenProperties, BoundsAssumption
  <1>2. Len(line) <= MaxLine \/ Len(line) <= MaxLong
    BY DEF WithinBounds
  <1> QED
    BY <1>1, <1>2

\* The row is never left in the middle of a command, and its cursor is at its end when
\* the line is empty.
LEMMA ScreenIsAt ==
    ASSUME TerminalInv
    PROVE  \E R \in Seq(Bytes) : \E col : screen = At(R, col) /\ (rl.line = <<>> => col = Len(R))
  <1>1. CASE synced
    <2>1. ReadlineOK(rl) /\ cont \in BOOLEAN /\ screen.row \in Seq(Bytes) /\ ShowsLine(screen, cont, rl)
      BY <1>1 DEF TerminalInv
    <2>2. PICK P \in Seq(Bytes) :
              /\ screen = At((P \o Prompt(cont)) \o rl.line, Len(P \o Prompt(cont)) + rl.cursor)
              /\ (P \o Prompt(cont)) \in Seq(Bytes)
      BY <2>1, ShowsParts
    <2> DEFINE y == P \o Prompt(cont)
               R == y \o rl.line
               col == Len(y) + rl.cursor
    <2>3. /\ rl.line \in Seq(Letters) /\ rl.cursor \in Nat /\ rl.cursor <= Len(rl.line)
          /\ Len(rl.line) \in Nat
      BY <2>1, ReadlineParts
    <2>4. rl.line \in Seq(Bytes) /\ y \in Seq(Bytes)
      BY <2>2, <2>3, LetterBytes
    <2> HIDE DEF y
    <2>5. R \in Seq(Bytes) /\ Len(R) = Len(y) + Len(rl.line) /\ Len(y) \in Nat
      BY <2>4, BehindPrefix, LenProperties
    <2> HIDE DEF R
    <2>6. rl.line = <<>> => Len(rl.line) = 0
      OBVIOUS
    <2>7. rl.line = <<>> => col = Len(R)
      BY <2>3, <2>5, <2>6
    <2>8. screen = At(R, col)
      BY <2>2 DEF R, y
    <2> HIDE DEF col
    <2> QED
      BY <2>5, <2>7, <2>8
  <1>2. CASE ~synced
    <2>1. screen = At(<<>>, 0) /\ <<>> \in Seq(Bytes) /\ Len(<<>>) = 0
      BY <1>2, RowIsAt DEF TerminalInv
    <2> QED
      BY <2>1
  <1> QED
    BY <1>1, <1>2

\* A character readline goes on with.
LEMMA TypeKeeps ==
    ASSUME TerminalInv, NEW c, NEW found \in Found, Type(c, found)
    PROVE  TerminalInv'
  <1> DEFINE Q == Prompt(cont)
             p == ProcessChar(rl, c, found, TRUE, Q)
             out == p.out
  <1>1. /\ Returns(rl, c) = "none" /\ WithinBounds(p.rl.line) /\ rl' = p.rl /\ cont' = cont
        /\ Answer(c, Everyone(p.out))
    BY DEF Type
  <1>2. /\ ReadlineOK(rl) /\ WithinBounds(rl.line) /\ cont \in BOOLEAN /\ synced \in BOOLEAN
        /\ dots \in [2 .. 4 -> BOOLEAN] /\ screen.row \in Seq(Bytes)
        /\ synced => ShowsLine(screen, cont, rl)
    BY DEF TerminalInv
  <1>3. rl.line \in Seq(Letters) /\ Len(rl.line) < 1000
    BY <1>2, ReadlineParts, LineLength
  <1>4. Everyone(out)[Tile0] = Buffered(out)
    BY TerminalAssumption DEF Everyone
  <1>5. Q \in Seq(Bytes) /\ Len(Q) = 4
    BY <1>2, PromptBytes
  <1> DEFINE q == p
  <1>6. q = ProcessChar(rl, c, found, TRUE, Q)
    OBVIOUS
  <1> HIDE DEF p, q, Q, Answer, PassesThrough, Everyone, Buffered
  <1>7. ASSUME ReadlineOK(rl'), rl'.line = <<>>, cont' = FALSE, screen' = Row(Ps1)
        PROVE  screen'.row \in Seq(Bytes) /\ ShowsLine(screen', cont', rl')
    <2>1. rl'.cursor \in Nat /\ rl'.cursor <= Len(rl'.line)
      BY <1>7, ReadlineParts
    <2>2. rl'.cursor = 0
      BY <1>7, <2>1
    <2>3. screen' = At(<<>> \o Prompt(cont'), Len(<<>>) + 4) /\ <<>> \in Seq(Bytes) /\ cont' \in BOOLEAN
      BY <1>7, RowIsAt
    <2> QED
      BY <1>7, <2>2, <2>3, ShowsPrompt
  <1>8. ASSUME ~synced', screen' = Row(<<>>) PROVE screen'.row \in Seq(Bytes)
    BY <1>8 DEF Row
  <1>9. CASE Lists(rl, c, found)
    <2>1. /\ ReadlineOK(q.rl) /\ q.out \in Seq(Bytes) /\ Len(q.out) > 2 /\ q.out[3] = "m"
      BY <1>2, <1>3, <1>5, <1>6, <1>9, ListsShown
    <2>2. ReadlineOK(rl') /\ out \in Seq(Bytes) /\ Len(out) > 2 /\ out[3] # "."
      BY <1>1, <2>1 DEF q
    <2> HIDE DEF out
    <2>3. /\ synced' \in BOOLEAN /\ dots' \in [2 .. 4 -> BOOLEAN]
          /\ ~synced' => screen' = Row(<<>>)
          /\ synced' => \/ PassesThrough(c) /\ dots'[2] = FALSE
                        \/ rl'.line = <<>> /\ cont' = FALSE /\ screen' = Row(Ps1)
      <3>1. Answer(c, Everyone(out)) /\ cont' \in BOOLEAN
        BY <1>1, <1>2 DEF out
      <3> QED
        BY <1>2, <1>4, <2>2, <3>1, AnswerCases
    <2>4. ~(PassesThrough(c) /\ dots'[2] = FALSE)
      <3>1. c = "tab" /\ 2 \in 2 .. 4
        BY <1>9 DEF Lists
      <3> QED
        BY <3>1 DEF PassesThrough
    <2>5. synced' => screen'.row \in Seq(Bytes) /\ ShowsLine(screen', cont', rl')
      BY <1>7, <2>2, <2>3, <2>4
    <2> QED
      BY <1>1, <1>2, <1>8, <2>2, <2>3, <2>5, PrimedInv
  <1>10. CASE ~Lists(rl, c, found)
    <2>0. q.rl.line \in Seq(Letters) => Len(q.rl.line) < 1000
      BY <1>1, LineLength DEF q
    <2>1. /\ ReadlineOK(q.rl) /\ q.out \in Seq(RowBytes)
          /\ \A P \in Seq(Bytes) : Display(RowBehind(P, rl), q.out) = RowBehind(P, q.rl)
      <3>1. q.rl.line \in Seq(Letters)
        BY <1>1, <1>2, <1>6, <1>10, TypedLine
      <3>2. Len(q.rl.line) < 1000
        BY <2>0, <3>1
      <3>3. ReadlineOK(rl) /\ Len(rl.line) < 1000 /\ Returns(rl, c) = "none" /\ found \in Found
        BY <1>1, <1>2, <1>3
      <3>4. WellDrawn(rl, q)
        BY ONLY <1>6, <1>10, <3>2, <3>3, TypedShown
      <3> QED
        BY <3>4 DEF WellDrawn
    <2>2. /\ ReadlineOK(rl') /\ out \in Seq(RowBytes)
          /\ \A P \in Seq(Bytes) : Display(RowBehind(P, rl), out) = RowBehind(P, rl')
      BY <1>1, <2>1 DEF q
    <2> HIDE DEF out
    <2>3. out \in Seq(Bytes) /\ ~Contains(out, "nl")
      <3>1. RowBytes \subseteq Bytes /\ "nl" \notin RowBytes
        BY DEF RowBytes
      <3>2. \A i \in 1 .. Len(out) : out[i] \in RowBytes
        BY <2>2, ElementOfSeq
      <3>3. out \in Seq(Bytes)
        BY <2>2, <3>1, SeqOfSubset
      <3> QED
        BY <3>1, <3>2, <3>3 DEF Contains
    <2>4. /\ synced' \in BOOLEAN /\ dots' \in [2 .. 4 -> BOOLEAN]
          /\ ~synced' => screen' = Row(<<>>)
          /\ synced' => \/ screen' = Display(screen, out) /\ synced
                        \/ rl'.line = <<>> /\ cont' = FALSE /\ screen' = Row(Ps1)
      <3>1. Answer(c, Everyone(out)) /\ cont' \in BOOLEAN
        BY <1>1, <1>2 DEF out
      <3> QED
        BY <1>2, <1>4, <2>3, <3>1, AnswerCases
    <2>5. ASSUME synced, screen' = Display(screen, out)
          PROVE  screen'.row \in Seq(Bytes) /\ ShowsLine(screen', cont', rl')
      <3>1. PICK P \in Seq(Bytes) :
                /\ screen = At((P \o Prompt(cont)) \o rl.line, Len(P \o Prompt(cont)) + rl.cursor)
                /\ (P \o Prompt(cont)) \in Seq(Bytes)
        BY <1>2, <2>5, ShowsParts
      <3> DEFINE y == P \o Prompt(cont)
      <3>2. screen = At(y \o rl.line, Len(y) + rl.cursor) /\ y \in Seq(Bytes)
        BY <3>1
      <3> HIDE DEF y
      <3>3. screen' = At(y \o rl'.line, Len(y) + rl'.cursor)
        BY <2>2, <2>5, <3>2 DEF RowBehind
      <3>4. screen' = At((P \o Prompt(cont')) \o rl'.line, Len(P \o Prompt(cont')) + rl'.cursor)
        BY <1>1, <3>3 DEF y
      <3>5. cont' \in BOOLEAN
        BY <1>1, <1>2
      <3> QED
        BY <2>2, <3>4, <3>5, ShowsFrom
    <2>6. synced' => screen'.row \in Seq(Bytes) /\ ShowsLine(screen', cont', rl')
      BY <1>7, <2>2, <2>4, <2>5
    <2> QED
      BY <1>1, <1>2, <1>8, <2>2, <2>4, <2>6, PrimedInv
  <1> QED
    BY <1>9, <1>10

\* A line that is started anew, with the prompt behind whatever is on the row.
LEMMA FreshKeeps ==
    ASSUME TerminalInv, ReadlineOK(rl'), rl'.line = <<>>, rl'.cursor = 0, cont' \in BOOLEAN,
           NEW c, NEW outs, NEW bytes \in Seq(Bytes), outs[Tile0] = Buffered(bytes),
           Answer(c, outs),
           \E Z \in Seq(Bytes) : Display(screen, bytes) = At(Z \o Prompt(cont'), Len(Z) + 4)
    PROVE  TerminalInv'
  <1>1. synced \in BOOLEAN /\ dots \in [2 .. 4 -> BOOLEAN]
    BY DEF TerminalInv
  <1>2. /\ synced' \in BOOLEAN /\ dots' \in [2 .. 4 -> BOOLEAN]
        /\ ~synced' => screen' = Row(<<>>)
        /\ synced' => \/ screen' = Display(screen, bytes)
                      \/ cont' = FALSE /\ screen' = Row(Ps1)
    BY <1>1, AnswerCases
  <1> HIDE DEF Answer, Buffered
  <1>3. ASSUME screen' = Display(screen, bytes)
        PROVE  screen'.row \in Seq(Bytes) /\ ShowsLine(screen', cont', rl')
    <2>1. PICK Z \in Seq(Bytes) : screen' = At(Z \o Prompt(cont'), Len(Z) + 4)
      BY <1>3
    <2> QED
      BY <2>1, ShowsPrompt
  <1>4. ASSUME cont' = FALSE, screen' = Row(Ps1)
        PROVE  screen'.row \in Seq(Bytes) /\ ShowsLine(screen', cont', rl')
    <2>1. screen' = At(<<>> \o Prompt(cont'), Len(<<>>) + 4) /\ <<>> \in Seq(Bytes)
      BY <1>4, RowIsAt
    <2> QED
      BY <2>1, ShowsPrompt
  <1>5. synced' => screen'.row \in Seq(Bytes) /\ ShowsLine(screen', cont', rl')
    BY <1>2, <1>3, <1>4
  <1>6. ~synced' => screen'.row \in Seq(Bytes)
    <2>1. Row(<<>>).row = <<>> /\ <<>> \in Seq(Bytes)
      BY DEF Row
    <2> HIDE DEF Row
    <2> QED
      BY ONLY <1>2, <2>1
  <1>7. WithinBounds(rl'.line)
    <2>1. Len(rl'.line) = 0
      OBVIOUS
    <2> QED
      BY <2>1, BoundsAssumption DEF WithinBounds
  <1> QED
    BY <1>2, <1>5, <1>6, <1>7, PrimedInv

\* readline_init and readline_note_newline.
LEMMA LineStarted ==
    ASSUME NEW r, ReadlineOK(r), NEW q, q = ReadlineInit(r) \/ q = NoteNewline(r)
    PROVE  ReadlineOK(q) /\ q.line = <<>> /\ q.cursor = 0
  <1>1. r \in [line : Seq(Letters), cursor : Nat, esc : Escapes, digit : Digits \cup {"0"},
               hist : Seq(Seq(Letters)), cur : Nat]
    BY DEF ReadlineOK
  <1>2. /\ Len(r.hist) <= HistSize /\ r.cur <= Len(r.hist) /\ Len(r.hist) \in Nat
        /\ <<>> \in Seq(Letters) /\ 0 <= Len(<<>>) /\ 0 \in Nat /\ "none" \in Escapes
        /\ "0" \in Digits \cup {"0"}
    BY ReadlineParts DEF Escapes
  <1>3. CASE q = ReadlineInit(r)
    <2>1. q = [line |-> <<>>, cursor |-> 0, esc |-> "none", digit |-> "0", hist |-> r.hist, cur |-> 0]
      BY <1>1, <1>3 DEF ReadlineInit
    <2>2. r.hist \in Seq(Seq(Letters)) /\ 0 <= Len(r.hist)
      BY <1>2, ReadlineParts
    <2> QED
      BY <1>2, <2>1, <2>2 DEF ReadlineOK
  <1>4. CASE q = NoteNewline(r)
    <2>1. q = [line |-> <<>>, cursor |-> 0, esc |-> r.esc, digit |-> r.digit, hist |-> r.hist,
               cur |-> r.cur]
      BY <1>1, <1>4 DEF NoteNewline
    <2> QED
      BY <1>2, <2>1, ReadlineParts DEF ReadlineOK
  <1> QED
    BY <1>3, <1>4

\* A carriage return: the line goes to the history.
LEMMA ReturnPushes ==
    ASSUME NEW r, ReadlineOK(r), Returns(r, "cr") = "cr", NEW room \in BOOLEAN, NEW found, NEW prompt,
           NEW p, p = ProcessChar(r, "cr", found, room, prompt)
    PROVE  ReadlineOK(p.rl) /\ p.out = Newline
  <1> DEFINE h == PushHistory(r.hist, r.line, room)
  <1>1. p = [rl |-> [r EXCEPT !.hist = h], out |-> <<"cr", "nl">>]
    BY DEF ProcessChar
  <1>2. /\ r.hist \in Seq(Seq(Letters)) /\ Len(r.hist) <= HistSize /\ r.line \in Seq(Letters)
        /\ r.cur \in Nat /\ r.cur <= Len(r.hist) /\ Len(r.hist) \in Nat
    BY ReadlineParts
  <1> HIDE DEF h
  <1>3. h \in Seq(Seq(Letters)) /\ Len(h) <= HistSize /\ Len(r.hist) <= Len(h)
    BY <1>2, PushedHistory DEF h
  <1>4. r \in [line : Seq(Letters), cursor : Nat, esc : Escapes, digit : Digits \cup {"0"},
               hist : Seq(Seq(Letters)), cur : Nat]
    BY DEF ReadlineOK
  <1> DEFINE q == [r EXCEPT !.hist = h]
  <1>5. /\ q \in [line : Seq(Letters), cursor : Nat, esc : Escapes, digit : Digits \cup {"0"},
                 hist : Seq(Seq(Letters)), cur : Nat]
        /\ q.line = r.line /\ q.cursor = r.cursor /\ q.hist = h /\ q.cur = r.cur
    <2>1. h \in Seq(Seq(Letters))
      BY <1>3
    <2> QED
      BY ONLY <1>4, <2>1
  <1>6. p.rl = q /\ p.out = Newline
    BY <1>1 DEF Newline
  <1> HIDE DEF q
  <1>7. r.cur <= Len(h) /\ r.cursor <= Len(r.line)
    <2>1. Len(h) \in Nat
      BY <1>3, LenProperties
    <2> QED
      BY <1>2, <1>3, <2>1, ReadlineParts
  <1>8. ReadlineOK(q)
    BY <1>3, <1>4, <1>5, <1>7 DEF ReadlineOK
  <1> QED
    BY <1>6, <1>8

\* A newline and a prompt, whatever the row was.
LEMMA NewlinePrompt ==
    ASSUME NEW R, NEW c, NEW isCont \in BOOLEAN
    PROVE  /\ Newline \o Prompt(isCont) \in Seq(Bytes)
           /\ Display(At(R, c), Newline \o Prompt(isCont))
                = At(<<>> \o Prompt(isCont), Len(<<>>) + 4)
           /\ <<>> \in Seq(Bytes)
  <1> DEFINE e == <<>>
             Q == Prompt(isCont)
             s == At(R, c)
             t == At(e, Len(e))
             u == At(e \o Q, Len(e) + 4)
  <1>1. Newline \in Seq(Bytes) /\ Display(s, Newline) = At(<<>>, 0)
    BY NewlineShown
  <1>2. e \in Seq(Bytes) /\ Len(e) = 0 /\ t = At(<<>>, 0)
    OBVIOUS
  <1>3. Q \in Seq(Bytes)
    BY PromptBytes
  <1>4. Display(t, Q) = u
    <2>1. e \in Seq(Bytes)
      BY <1>2
    <2> HIDE DEF e
    <2> QED
      BY <2>1, PromptShown
  <1>5. Display(s, Newline) = t
    BY <1>1, <1>2
  <1> HIDE DEF s, t, u, Q, Newline
  <1>6. Newline \o Q \in Seq(Bytes) /\ Display(s, Newline \o Q) = u
    BY <1>1, <1>3, <1>4, <1>5, DisplayThen
  <1> QED
    BY <1>2, <1>6 DEF s, u, Q

\* A carriage return in the middle of a statement.
LEMMA ContinueKeeps ==
    ASSUME TerminalInv, NEW room \in BOOLEAN, Continue(room)
    PROVE  TerminalInv'
  <1> DEFINE p == ProcessChar(rl, "cr", NoMatch, room, Prompt(cont))
             bytes == Newline \o Prompt(TRUE)
  <1>1. /\ Returns(rl, "cr") = "cr" /\ rl' = NoteNewline(p.rl) /\ cont' = TRUE
        /\ Answer("cr", Everyone(p.out \o Ps2))
    BY DEF Continue
  <1>2. ReadlineOK(rl)
    BY DEF TerminalInv
  <1>3. ReadlineOK(p.rl) /\ p.out = Newline
    BY <1>1, <1>2, ReturnPushes
  <1> HIDE DEF p
  <1>4. ReadlineOK(rl') /\ rl'.line = <<>> /\ rl'.cursor = 0
    BY <1>1, <1>3, LineStarted
  <1>5. Answer("cr", Everyone(bytes))
    BY <1>1, <1>3 DEF Prompt
  <1>6. Everyone(bytes)[Tile0] = Buffered(bytes)
    BY TerminalAssumption DEF Everyone
  <1>7. PICK R \in Seq(Bytes) : \E col : screen = At(R, col)
    BY ScreenIsAt
  <1>8. PICK col : screen = At(R, col)
    BY <1>7
  <1>9. /\ bytes \in Seq(Bytes) /\ <<>> \in Seq(Bytes)
        /\ Display(screen, bytes) = At(<<>> \o Prompt(cont'), Len(<<>>) + 4)
    BY <1>1, <1>8, NewlinePrompt
  <1> HIDE DEF bytes, Everyone, Answer, Buffered
  <1>10. \E Z \in Seq(Bytes) : Display(screen, bytes) = At(Z \o Prompt(cont'), Len(Z) + 4)
    BY <1>9
  <1>11. cont' \in BOOLEAN
    BY <1>1
  <1> QED
    BY <1>4, <1>5, <1>6, <1>9, <1>10, <1>11, FreshKeeps

\* CTRL-C
LEMMA CancelKeeps ==
    ASSUME TerminalInv, Cancel
    PROVE  TerminalInv'
  <1> DEFINE bytes == Newline \o Prompt(FALSE)
  <1>1. rl' = ReadlineInit(rl) /\ cont' = FALSE /\ Answer("ctrlC", Everyone(Newline \o Ps1))
    BY DEF Cancel
  <1>2. ReadlineOK(rl)
    BY DEF TerminalInv
  <1>3. ReadlineOK(rl') /\ rl'.line = <<>> /\ rl'.cursor = 0
    BY <1>1, <1>2, LineStarted
  <1>4. Answer("ctrlC", Everyone(bytes))
    BY <1>1 DEF Prompt
  <1>5. Everyone(bytes)[Tile0] = Buffered(bytes)
    BY TerminalAssumption DEF Everyone
  <1>6. PICK R \in Seq(Bytes) : \E col : screen = At(R, col)
    BY ScreenIsAt
  <1>7. PICK col : screen = At(R, col)
    BY <1>6
  <1>8. /\ bytes \in Seq(Bytes) /\ <<>> \in Seq(Bytes)
        /\ Display(screen, bytes) = At(<<>> \o Prompt(cont'), Len(<<>>) + 4)
    BY <1>1, <1>7, NewlinePrompt
  <1> HIDE DEF bytes, Everyone, Answer, Buffered
  <1>9. \E Z \in Seq(Bytes) : Display(screen, bytes) = At(Z \o Prompt(cont'), Len(Z) + 4)
    BY <1>8
  <1>10. cont' \in BOOLEAN
    BY <1>1
  <1> QED
    BY <1>3, <1>4, <1>5, <1>8, <1>9, <1>10, FreshKeeps

\* A text and a prompt behind the end of a row.
LEMMA TextPrompt ==
    ASSUME NEW R \in Seq(Bytes), NEW x \in Texts
    PROVE  /\ x \o Ps1 \in Seq(Bytes)
           /\ \E Z \in Seq(Bytes) : Display(At(R, Len(R)), x \o Ps1) = At(Z \o Prompt(FALSE), Len(Z) + 4)
  <1>1. x \in Seq(Bytes)
    BY TextShown
  <1>2. PICK Z \in Seq(Bytes) : Display(At(R, Len(R)), x) = At(Z, Len(Z))
    BY TextShown
  <1>3. Prompt(FALSE) = Ps1 /\ Prompt(FALSE) \in Seq(Bytes)
    BY PromptBytes DEF Prompt
  <1>4. Display(At(Z, Len(Z)), Prompt(FALSE)) = At(Z \o Prompt(FALSE), Len(Z) + 4)
    BY PromptShown
  <1> DEFINE s == At(R, Len(R))
             t == At(Z, Len(Z))
             u == At(Z \o Prompt(FALSE), Len(Z) + 4)
             Q == Prompt(FALSE)
  <1>5. Q = Ps1 /\ Q \in Seq(Bytes) /\ Display(s, x) = t /\ Display(t, Q) = u
    BY <1>2, <1>3, <1>4
  <1> HIDE DEF s, t, u, Q, Ps1
  <1>6. x \o Q \in Seq(Bytes) /\ Display(s, x \o Q) = u
    BY ONLY <1>1, <1>5, DisplayThen
  <1> QED
    BY <1>5, <1>6 DEF s, u

\* A carriage return or CTRL-D at the end of a statement.
LEMMA ExecuteKeeps ==
    ASSUME TerminalInv, NEW c \in {"cr", "ctrlD"}, NEW room \in BOOLEAN, Execute(c, room)
    PROVE  TerminalInv'
  <1> DEFINE p == ProcessChar(rl, c, NoMatch, room, Prompt(cont))
  <1>1. PICK texts \in [Tiles -> Texts] :
            /\ rl' = ReadlineInit(p.rl) /\ cont' = FALSE
            /\ Answer(c, [t \in Tiles |-> Buffered(p.out \o texts[t] \o Ps1)])
    BY DEF Execute
  <1>2. \/ c = "cr" /\ Returns(rl, c) = "cr"
        \/ c = "ctrlD" /\ Returns(rl, c) = "ctrlD"
    BY DEF Execute
  <1>3. ReadlineOK(rl)
    BY DEF TerminalInv
  <1> DEFINE x == texts[Tile0]
             outs == [t \in Tiles |-> Buffered(p.out \o texts[t] \o Ps1)]
  <1>4. x \in Texts /\ outs[Tile0] = Buffered((p.out \o x) \o Ps1)
    BY TerminalAssumption
  <1>5. x \in Seq(Bytes) /\ Ps1 \in Seq(Bytes)
    <2>1. x \in Seq(STRING) /\ STRING \subseteq Bytes
      BY <1>4, TerminalAssumption DEF Bytes
    <2>2. Prompt(FALSE) = Ps1 /\ Prompt(FALSE) \in Seq(Bytes)
      BY PromptBytes DEF Prompt
    <2> QED
      BY <2>1, <2>2, SeqOfSubset
  <1>6. PICK R \in Seq(Bytes) : \E col : screen = At(R, col) /\ (rl.line = <<>> => col = Len(R))
    BY ScreenIsAt
  <1>7. PICK col : screen = At(R, col) /\ (rl.line = <<>> => col = Len(R))
    BY <1>6
  <1>8. Prompt(cont') = Prompt(FALSE) /\ cont' \in BOOLEAN
    BY <1>1
  <1> DEFINE y == x \o Ps1
  <1>9. /\ ReadlineOK(p.rl)
        /\ (p.out \o x) \o Ps1 \in Seq(Bytes)
        /\ \E Z \in Seq(Bytes) :
              Display(screen, (p.out \o x) \o Ps1) = At(Z \o Prompt(FALSE), Len(Z) + 4)
    <2>1. CASE c = "cr" /\ Returns(rl, c) = "cr"
      <3>1. ReadlineOK(p.rl) /\ p.out = Newline
        BY <1>3, <2>1, ReturnPushes
      <3>2. Newline \in Seq(Bytes) /\ Display(screen, Newline) = At(<<>>, 0)
        BY <1>7, NewlineShown
      <3>3. <<>> \in Seq(Bytes) /\ Len(<<>>) = 0
        OBVIOUS
      <3>4. y \in Seq(Bytes)
        BY <1>4, <1>5, TextPrompt
      <3>5. PICK Z \in Seq(Bytes) : Display(At(<<>>, 0), y) = At(Z \o Prompt(FALSE), Len(Z) + 4)
        <4> DEFINE e == <<>>
        <4>1. e \in Seq(Bytes) /\ At(e, Len(e)) = At(<<>>, 0)
          BY <3>3
        <4> HIDE DEF e
        <4>2. \E Z \in Seq(Bytes) : Display(At(e, Len(e)), x \o Ps1) = At(Z \o Prompt(FALSE), Len(Z) + 4)
          BY <1>4, <4>1, TextPrompt
        <4> QED
          BY <4>1, <4>2
      <3> DEFINE t == At(<<>>, 0)
                 u == At(Z \o Prompt(FALSE), Len(Z) + 4)
      <3>6. (Newline \o x) \o Ps1 = Newline \o y
        <4> DEFINE N == Newline
                   Q == Ps1
        <4>1. N \in Seq(Bytes) /\ x \in Seq(Bytes) /\ Q \in Seq(Bytes)
          BY <1>5, <3>2
        <4> HIDE DEF N, Q, x
        <4>2. (N \o x) \o Q = N \o (x \o Q)
          BY ONLY <4>1, ConcatAssociative
        <4> QED
          BY <4>2 DEF N, Q
      <3>7. Display(screen, Newline) = t /\ Display(t, y) = u
        BY <3>2, <3>5
      <3> HIDE DEF t, u, y, p, x
      <3>8. Newline \o y \in Seq(Bytes) /\ Display(screen, Newline \o y) = u
        BY <3>2, <3>4, <3>7, DisplayThen
      <3>9. (p.out \o x) \o Ps1 = Newline \o y
        BY <3>1, <3>6
      <3> QED
        BY <3>1, <3>8, <3>9 DEF u
    <2>2. CASE c = "ctrlD" /\ Returns(rl, c) = "ctrlD"
      <3>1. p.rl = rl /\ p.out = <<>>
        BY <2>2 DEF ProcessChar
      <3>2. rl.line = <<>>
        BY <2>2 DEF Returns
      <3> HIDE DEF p
      <3>3. (p.out \o x) \o Ps1 = y
        <4>1. <<>> \o x = x
          BY <1>5, ConcatEmptySeq
        <4> QED
          BY <3>1, <4>1
      <3>4. y \in Seq(Bytes) /\ \E Z \in Seq(Bytes) :
                Display(At(R, Len(R)), y) = At(Z \o Prompt(FALSE), Len(Z) + 4)
        BY <1>4, TextPrompt
      <3>5. screen = At(R, Len(R))
        BY <1>7, <3>2
      <3> QED
        BY <1>3, <3>1, <3>3, <3>4, <3>5
    <2> QED
      BY <1>2, <2>1, <2>2
  <1>10. ReadlineOK(rl') /\ rl'.line = <<>> /\ rl'.cursor = 0
    BY <1>1, <1>9, LineStarted
  <1> DEFINE bytes == (p.out \o x) \o Ps1
  <1>11. /\ bytes \in Seq(Bytes) /\ outs[Tile0] = Buffered(bytes) /\ Answer(c, outs)
         /\ \E Z \in Seq(Bytes) : Display(screen, bytes) = At(Z \o Prompt(cont'), Len(Z) + 4)
    BY <1>1, <1>4, <1>8, <1>9
  <1> HIDE DEF bytes, outs, Answer, Buffered, p, x, y
  <1> QED
    BY <1>8, <1>10, <1>11, FreshKeeps

\* What is written behind a row is a suffix of it.
LEMMA SuffixOf ==
    ASSUME NEW P \in Seq(Bytes), NEW x \in Seq(Bytes)
    PROVE  IsSuffix(x, P \o x)
  <1> DEFINE w == P \o x
             n == Len(P)
             m == Len(x)
             rx == Reverse(x)
             rw == Reverse(w)
  <1>1. w \in Seq(Bytes) /\ Len(w) = n + m /\ \A i \in 1 .. m : w[n + i] = x[i]
    BY BehindPrefix
  <1>2. n \in Nat /\ m \in Nat
    BY LenProperties
  <1>3. \A i \in 1 .. m : x[i] \in Bytes
    BY ElementOfSeq
  <1>4. \A i \in 1 .. n + m : w[i] \in Bytes
    BY <1>1, ElementOfSeq
  <1> HIDE DEF w, n
  <1>5. rx \in Seq(Bytes) /\ Len(rx) = m /\ \A i \in 1 .. m : rx[i] = x[(m - i) + 1]
    <2>1. rx = [i \in 1 .. m |-> x[(m - i) + 1]]
      BY DEF Reverse
    <2>2. \A i \in 1 .. m : (m - i) + 1 \in 1 .. m
      BY <1>2
    <2>3. rx \in [1 .. m -> Bytes]
      BY <1>3, <2>1, <2>2
    <2> HIDE DEF rx, m
    <2> QED
      BY <1>2, <2>1, <2>3, FunctionIsSequence
  <1>6. rw \in Seq(Bytes) /\ Len(rw) = n + m /\ \A i \in 1 .. n + m : rw[i] = w[((n + m) - i) + 1]
    <2>1. rw = [i \in 1 .. n + m |-> w[((n + m) - i) + 1]]
      BY <1>1 DEF Reverse
    <2>2. \A i \in 1 .. n + m : ((n + m) - i) + 1 \in 1 .. n + m
      BY <1>2
    <2>3. rw \in [1 .. n + m -> Bytes]
      BY <1>4, <2>1, <2>2
    <2>4. n + m \in Nat
      BY <1>2
    <2> HIDE DEF rw, m
    <2> QED
      BY <2>1, <2>3, <2>4, FunctionIsSequence
  <1> HIDE DEF rx, rw, m
  <1>7. \A i \in 1 .. m : rx[i] = rw[i]
    <2> TAKE i \in 1 .. m
    <2>1. /\ i \in 1 .. n + m /\ (m - i) + 1 \in 1 .. m
          /\ ((n + m) - i) + 1 = n + ((m - i) + 1)
      BY <1>2
    <2>2. rx[i] = x[(m - i) + 1] /\ rw[i] = w[((n + m) - i) + 1]
      BY <1>5, <1>6, <2>1
    <2>3. w[n + ((m - i) + 1)] = x[(m - i) + 1]
      BY <1>1, <2>1
    <2> QED
      BY <2>1, <2>2, <2>3
  <1> DEFINE a == SubSeq(rx, 1, m)
             b == SubSeq(rw, 1, m)
  <1>8. m <= Len(rx) /\ m <= Len(rw)
    BY <1>2, <1>5, <1>6
  <1>9. a \in Seq(Bytes) /\ Len(a) = m /\ \A i \in 1 .. m : a[i] = rx[i]
    BY <1>2, <1>5, <1>8, PrefixProperties
  <1>10. b \in Seq(Bytes) /\ Len(b) = m /\ \A i \in 1 .. m : b[i] = rw[i]
    BY <1>2, <1>6, <1>8, PrefixProperties
  <1> HIDE DEF a, b
  <1>11. a = b
    <2>1. Len(a) = Len(b) /\ \A i \in 1 .. Len(a) : a[i] = b[i]
      BY <1>7, <1>9, <1>10
    <2> QED
      BY <1>9, <1>10, <2>1, SeqEqual
  <1>12. IsPrefix(rx, rw)
    BY <1>5, <1>8, <1>11 DEF IsPrefix, a, b
  <1> QED
    BY <1>12 DEF IsSuffix, rx, rw, w

\* pyexec_event_repl_init: the prompt is on the row.
LEMMA InitKeeps == Init => TerminalInv
  <1> SUFFICES ASSUME Init PROVE TerminalInv
    OBVIOUS
  <1>1. rl = EmptyReadline /\ cont = FALSE /\ screen = Row(Ps1) /\ synced = TRUE
        /\ dots = [i \in 2 .. 4 |-> FALSE]
    BY DEF Init
  <1>2. ReadlineOK(rl) /\ rl.line = <<>> /\ rl.cursor = 0
    <2>1. HistSize \in Nat
      BY ReadlineAssumption
    <2> QED
      BY <1>1, <2>1 DEF EmptyReadline, ReadlineOK, Escapes
  <1>3. WithinBounds(rl.line)
    <2>1. Len(rl.line) = 0 /\ MaxLine \in Nat
      BY <1>2, BoundsAssumption
    <2> QED
      BY <2>1 DEF WithinBounds
  <1>4. screen = At(<<>> \o Prompt(cont), Len(<<>>) + 4) /\ <<>> \in Seq(Bytes) /\ cont \in BOOLEAN
    BY <1>1, RowIsAt
  <1>5. screen.row \in Seq(Bytes) /\ ShowsLine(screen, cont, rl)
    BY <1>2, <1>4, ShowsPrompt
  <1>6. dots \in [2 .. 4 -> BOOLEAN]
    BY <1>1
  <1> QED
    BY <1>1, <1>2, <1>3, <1>4, <1>5, <1>6 DEF TerminalInv

\* The invariant is inductive.
LEMMA NextKeeps ==
    ASSUME TerminalInv, [Next]_vars
    PROVE  TerminalInv'
  <1>1. ASSUME NEW c \in Keys, NEW found \in IF c = "tab" THEN Found ELSE {NoMatch}, Type(c, found)
        PROVE  TerminalInv'
    <2>1. found \in Found
      BY <1>1 DEF Found
    <2> QED
      BY <1>1, <2>1, TypeKeeps
  <1>2. ASSUME NEW room \in BOOLEAN, Continue(room) PROVE TerminalInv'
    BY <1>2, ContinueKeeps
  <1>3. ASSUME NEW c \in {"cr", "ctrlD"}, NEW room \in BOOLEAN, Execute(c, room) PROVE TerminalInv'
    BY <1>3, ExecuteKeeps
  <1>4. ASSUME Cancel PROVE TerminalInv'
    BY <1>4, CancelKeeps
  <1>5. ASSUME UNCHANGED vars PROVE TerminalInv'
    <2>1. rl' = rl /\ cont' = cont /\ screen' = screen /\ synced' = synced /\ dots' = dots
      BY <1>5 DEF vars
    <2>2. /\ ReadlineOK(rl) /\ WithinBounds(rl.line)
          /\ cont \in BOOLEAN /\ synced \in BOOLEAN /\ dots \in [2 .. 4 -> BOOLEAN]
          /\ screen.row \in Seq(Bytes)
          /\ synced => ShowsLine(screen, cont, rl)
          /\ ~synced => screen = Row(<<>>)
      BY DEF TerminalInv
    <2> QED
      BY <2>1, <2>2, PrimedInv
  <1> HIDE DEF TerminalInv
  <1> QED
    BY <1>1, <1>2, <1>3, <1>4, <1>5 DEF Next

\* What the inductive invariant says of a state.
LEMMA InvShows ==
    ASSUME TerminalInv
    PROVE  TypeOK /\ ScreenShowsLine
  <1>1. /\ ReadlineOK(rl) /\ WithinBounds(rl.line) /\ cont \in BOOLEAN /\ synced \in BOOLEAN
        /\ dots \in [2 .. 4 -> BOOLEAN] /\ screen.row \in Seq(Bytes)
        /\ synced => ShowsLine(screen, cont, rl)
        /\ ~synced => screen = Row(<<>>)
    BY DEF TerminalInv
  <1>2. /\ rl.line \in Seq(Letters) /\ Len(rl.line) \in Nat
        /\ rl.cursor \in Nat /\ rl.cursor <= Len(rl.line) /\ rl.cursor \in 0 .. Len(rl.line)
        /\ Len(rl.hist) \in Nat /\ rl.cur \in Nat
        /\ Len(rl.hist) <= HistSize /\ rl.cur <= Len(rl.hist)
        /\ rl.esc \in Escapes /\ rl.digit \in Digits \cup {"0"}
    BY <1>1, ReadlineParts
  <1>3. ASSUME screen.col \in 0 .. Len(screen.row), screen.num = NoNumber
        PROVE  TypeOK
    BY <1>1, <1>2, <1>3 DEF TypeOK, Escapes
  <1>4. CASE synced
    <2>1. PICK P \in Seq(Bytes) :
              /\ screen = At((P \o Prompt(cont)) \o rl.line, Len(P \o Prompt(cont)) + rl.cursor)
              /\ Len(P \o Prompt(cont)) = Len(P) + 4
              /\ (P \o Prompt(cont)) \in Seq(Bytes)
      BY <1>1, <1>4, ShowsParts
    <2> DEFINE Q == Prompt(cont)
               y == P \o Q
               l == rl.line
               w == y \o l
               col == Len(y) + rl.cursor
    <2>2. Q \in Seq(Bytes) /\ l \in Seq(Bytes) /\ y \in Seq(Bytes)
      BY <1>1, <1>2, <2>1, PromptBytes, LetterBytes
    <2>3. screen = At(w, col)
      BY <2>1
    <2>4. screen.row = w /\ screen.col = col /\ screen.num = NoNumber
      BY <2>3 DEF At
    <2>0. P \in Seq(Bytes)
      BY <2>1
    <2> HIDE DEF Q, l
    <2>5. w = P \o (Q \o l)
      BY ONLY <2>0, <2>2, ConcatAssociative
    <2>6. Q \o l \in Seq(Bytes)
      BY <2>2, ConcatProperties
    <2>7. IsSuffix(Q \o l, w)
      <3> DEFINE z == Q \o l
      <3>1. z \in Seq(Bytes) /\ w = P \o z
        BY <2>5, <2>6
      <3> HIDE DEF z, w
      <3>2. IsSuffix(z, w)
        BY ONLY <2>0, <3>1, SuffixOf
      <3> QED
        BY <3>2 DEF z
    <2> HIDE DEF y
    <2>8. Len(w) = Len(y) + Len(l) /\ Len(y) \in Nat
      BY <2>2, BehindPrefix, LenProperties
    <2> HIDE DEF w
    <2>9. col = (Len(w) - Len(l)) + rl.cursor /\ col \in 0 .. Len(w)
      BY <1>2, <2>8 DEF l
    <2> HIDE DEF col
    <2>10. /\ IsSuffix(Prompt(cont) \o rl.line, screen.row)
           /\ screen.col = (Len(screen.row) - Len(rl.line)) + rl.cursor
           /\ screen.col \in 0 .. Len(screen.row) /\ screen.num = NoNumber
      BY <2>4, <2>7, <2>9 DEF Q, l
    <2>11. ScreenShowsLine
      BY <2>10 DEF ScreenShowsLine
    <2>12. TypeOK
      BY ONLY <1>3, <2>10
    <2> QED
      BY <2>11, <2>12
  <1>5. CASE ~synced
    <2>1. screen.col \in 0 .. Len(screen.row) /\ screen.num = NoNumber
      BY <1>1, <1>5 DEF Row
    <2>2. TypeOK
      BY <1>3, <2>1
    <2> QED
      BY <1>5, <2>2 DEF ScreenShowsLine
  <1> QED
    BY <1>1, <1>4, <1>5

\* The inductive invariant: readline is well formed, its line is within the bounds, and
\* the row is the prompt and the line behind some bytes, with readline's cursor, until the
\* host puts a prompt of its own in front of a line that is not empty.
THEOREM TerminalInvariant == Spec => []TerminalInv
  <1>1. Init => TerminalInv
    BY InitKeeps
  <1>2. TerminalInv /\ [Next]_vars => TerminalInv'
    BY NextKeeps
  <1> QED
    BY <1>1, <1>2, PTL DEF Spec

\* Type correctness: the cursor never leaves the line, the place in the history never leaves
\* the history, the terminal's cursor never leaves its row, and readline_process_char never
\* leaves a command of the terminal unfinished.
THEOREM TerminalTypeCorrect == Spec => []TypeOK
  <1>1. TerminalInv => TypeOK
    BY InvShows
  <1> QED
    BY <1>1, TerminalInvariant, PTL

\* Whatever readline_process_char inserts, deletes, recalls or completes, the bytes it
\* writes leave the prompt and the line on the row, and the terminal's cursor where
\* readline's is.
THEOREM LineIsShown == Spec => []ScreenShowsLine
  <1>1. TerminalInv => ScreenShowsLine
    BY InvShows
  <1> QED
    BY <1>1, TerminalInvariant, PTL

---------------------------------------------------------------------------
(***************************************************************************)
(* What a tile writes for a carriage return whose command prints x: a      *)
(* newline, x and the prompt.                                              *)
(***************************************************************************)
Written(x) == (Newline \o x) \o Ps1

LEMMA ConstantBytes ==
    Newline \in Seq(Bytes) /\ Len(Newline) = 2 /\ Ps1 \in Seq(Bytes) /\ Len(Ps1) = 4
  <1>1. ASSUME NEW S, NEW a \in S, NEW b \in S
        PROVE  <<a, b>> \in Seq(S) /\ <<a, a, a, b>> \in Seq(S)
    OBVIOUS
  <1>2. "cr" \in Bytes /\ "nl" \in Bytes /\ ">" \in Bytes /\ " " \in Bytes
    BY DEF Bytes
  <1>3. Newline \in Seq(Bytes) /\ Ps1 \in Seq(Bytes)
    BY <1>1, <1>2 DEF Newline, Ps1
  <1>4. Len(Newline) = 2 /\ Len(Ps1) = 4
    BY DEF Newline, Ps1
  <1> QED
    BY <1>3, <1>4

LEMMA WrittenParts ==
    ASSUME NEW x \in Seq(Bytes)
    PROVE  /\ Written(x) \in Seq(Bytes) /\ Len(Written(x)) = Len(x) + 6
           /\ \A i \in 1 .. Len(x) : Written(x)[i + 2] = x[i]
           /\ Written(x)[Len(x) + 3] = ">" /\ Written(x)[Len(x) + 4] = ">"
  <1> DEFINE n == Len(x)
             a == Newline \o x
  <1>1. Newline \in Seq(Bytes) /\ Len(Newline) = 2 /\ Ps1 \in Seq(Bytes) /\ Len(Ps1) = 4
    BY ConstantBytes
  <1>2. n \in Nat
    BY LenProperties
  <1>3. /\ a \in Seq(Bytes) /\ Len(a) = 2 + n
        /\ \A i \in 1 .. 2 + n : a[i] = IF i <= 2 THEN Newline[i] ELSE x[i - 2]
    <2>1. /\ a \in Seq(Bytes) /\ Len(a) = Len(Newline) + Len(x)
          /\ \A i \in 1 .. Len(Newline) + Len(x) :
                a[i] = IF i <= Len(Newline) THEN Newline[i] ELSE x[i - Len(Newline)]
      BY <1>1, ConcatProperties
    <2> QED
      BY <1>1, <2>1
  <1> HIDE DEF a
  <1>4. /\ a \o Ps1 \in Seq(Bytes) /\ Len(a \o Ps1) = (2 + n) + 4
        /\ \A i \in 1 .. (2 + n) + 4 : (a \o Ps1)[i] = IF i <= 2 + n THEN a[i] ELSE Ps1[i - (2 + n)]
    <2>1. /\ a \o Ps1 \in Seq(Bytes) /\ Len(a \o Ps1) = Len(a) + Len(Ps1)
          /\ \A i \in 1 .. Len(a) + Len(Ps1) :
                (a \o Ps1)[i] = IF i <= Len(a) THEN a[i] ELSE Ps1[i - Len(a)]
      BY <1>1, <1>3, ConcatProperties
    <2> QED
      BY <1>1, <1>3, <2>1
  <1>5. Written(x) = a \o Ps1
    BY DEF Written, a
  <1> DEFINE w == Written(x)
  <1> HIDE DEF n, w
  <1>6. ASSUME NEW i \in 1 .. n PROVE w[i + 2] = x[i]
    <2>1. /\ i + 2 \in 1 .. 2 + n /\ i + 2 \in 1 .. (2 + n) + 4 /\ i + 2 <= 2 + n
          /\ ~(i + 2 <= 2) /\ (i + 2) - 2 = i
      BY <1>2
    <2>2. w[i + 2] = a[i + 2]
      BY <1>4, <1>5, <2>1 DEF w
    <2> QED
      BY <1>3, <2>1, <2>2
  <1>7. w[n + 3] = Ps1[1] /\ w[n + 4] = Ps1[2]
    <2>1. /\ n + 3 \in 1 .. (2 + n) + 4 /\ ~(n + 3 <= 2 + n) /\ (n + 3) - (2 + n) = 1
          /\ n + 4 \in 1 .. (2 + n) + 4 /\ ~(n + 4 <= 2 + n) /\ (n + 4) - (2 + n) = 2
      BY <1>2
    <2> QED
      BY <1>4, <1>5, <2>1 DEF w
  <1>8. Ps1[1] = ">" /\ Ps1[2] = ">"
    BY DEF Ps1
  <1>9. w \in Seq(Bytes) /\ Len(w) = n + 6
    BY <1>2, <1>4, <1>5 DEF w
  <1> QED
    BY <1>6, <1>7, <1>8, <1>9 DEF w, n

\* What the callback cuts out of it: all but the last byte, which ends the last line.
LEMMA WrittenTrimmed ==
    ASSUME NEW x \in Seq(Bytes), x # <<>>
    PROVE  SubSeq(Written(x), 3, Len(Written(x)) - 5) = SubSeq(x, 1, Len(x) - 1)
  <1> DEFINE n == Len(x)
             w == Written(x)
             s == SubSeq(w, 3, n + 1)
             u == SubSeq(x, 1, n - 1)
  <1>1. /\ w \in Seq(Bytes) /\ Len(w) = n + 6
        /\ \A i \in 1 .. n : w[i + 2] = x[i]
    BY WrittenParts
  <1>2. n \in Nat /\ n # 0
    BY LenProperties, EmptySeq
  <1>3. Len(w) - 5 = n + 1
    BY <1>1, <1>2
  <1> HIDE DEF w
  <1>4. \A i \in 3 .. n + 1 : w[i] \in Bytes
    <2> SUFFICES ASSUME NEW i \in 3 .. n + 1 PROVE w[i] \in Bytes
      OBVIOUS
    <2>1. i \in 1 .. Len(w)
      BY <1>1, <1>2
    <2> QED
      BY <1>1, <2>1, ElementOfSeq
  <1>5. \A i \in 1 .. n - 1 : x[i] \in Bytes
    <2> SUFFICES ASSUME NEW i \in 1 .. n - 1 PROVE x[i] \in Bytes
      OBVIOUS
    <2>1. i \in 1 .. Len(x)
      BY <1>2
    <2> QED
      BY <2>1, ElementOfSeq
  <1>6. /\ s \in Seq(Bytes)
        /\ Len(s) = IF 3 <= n + 1 THEN (n + 1) - 3 + 1 ELSE 0
        /\ \A i \in 1 .. (n + 1) - 3 + 1 : s[i] = w[3 + i - 1]
    <2>1. 3 \in Int /\ n + 1 \in Int
      BY <1>2
    <2> QED
      BY <1>4, <2>1, SubSeqProperties
  <1>7. /\ u \in Seq(Bytes)
        /\ Len(u) = IF 1 <= n - 1 THEN (n - 1) - 1 + 1 ELSE 0
        /\ \A i \in 1 .. (n - 1) - 1 + 1 : u[i] = x[1 + i - 1]
    <2>1. 1 \in Int /\ n - 1 \in Int
      BY <1>2
    <2> QED
      BY <1>5, <2>1, SubSeqProperties
  <1> HIDE DEF s, u, n
  <1>8. Len(s) = n - 1 /\ Len(u) = n - 1
    BY <1>2, <1>6, <1>7
  <1>9. \A i \in 1 .. Len(s) : s[i] = u[i]
    <2> SUFFICES ASSUME NEW i \in 1 .. n - 1 PROVE s[i] = u[i]
      BY <1>8
    <2>1. /\ i \in 1 .. (n + 1) - 3 + 1 /\ i \in 1 .. (n - 1) - 1 + 1 /\ i \in 1 .. n
          /\ 3 + i - 1 = i + 2 /\ 1 + i - 1 = i
      BY <1>2
    <2>2. s[i] = w[i + 2] /\ u[i] = x[i]
      BY <1>6, <1>7, <2>1
    <2> QED
      BY <1>1, <2>1, <2>2
  <1>10. s = u
    BY <1>6, <1>7, <1>8, <1>9, SeqEqual
  <1> QED
    BY <1>3, <1>10 DEF s, u, w, n

\* Different texts are told apart.
LEMMA WrittenInjective ==
    ASSUME NEW x \in Seq(Bytes), NEW y \in Seq(Bytes), Written(x) = Written(y)
    PROVE  x = y
  <1>1. Len(x) \in Nat /\ Len(y) \in Nat
    BY LenProperties
  <1>2. Len(x) + 6 = Len(y) + 6
    BY WrittenParts
  <1>3. Len(x) = Len(y)
    BY <1>1, <1>2
  <1>4. \A i \in 1 .. Len(x) : x[i] = y[i]
    <2> DEFINE w == Written(x)
    <2>1. \A i \in 1 .. Len(x) : w[i + 2] = x[i]
      BY WrittenParts
    <2>2. \A i \in 1 .. Len(y) : w[i + 2] = y[i]
      BY WrittenParts
    <2> HIDE DEF w
    <2> QED
      BY <1>3, <2>1, <2>2
  <1> QED
    BY <1>3, <1>4, SeqEqual

---------------------------------------------------------------------------
(***************************************************************************)
(* What reaches the host when the tiles print `texts'.                     *)
(***************************************************************************)
Outs(texts) == [t \in Tiles |-> Buffered(Written(texts[t]))]

Expected(texts) ==
    {[text |-> SubSeq(x, 1, Len(x) - 1), count |-> Cardinality({t \in Tiles : texts[t] = x})] :
        x \in {texts[t] : t \in Tiles} \ {<<>>}}

LEMMA BufferedLength ==
    ASSUME NEW x \in Seq(Bytes)
    PROVE  /\ Len(x) < BufSize => Buffered(x) = x
           /\ Len(Buffered(x)) <= Len(x)
  <1>1. Len(x) \in Nat /\ BufSize \in Nat \ {0}
    BY LenProperties, TerminalAssumption
  <1>2. CASE Len(x) < BufSize
    BY <1>1, <1>2 DEF Buffered
  <1>3. CASE ~(Len(x) < BufSize)
    <2>1. Buffered(x) = SubSeq(x, 1, BufSize - 1)
      BY <1>3 DEF Buffered
    <2>2. \A i \in 1 .. BufSize - 1 : x[i] \in Bytes
      <3> SUFFICES ASSUME NEW i \in 1 .. BufSize - 1 PROVE x[i] \in Bytes
        OBVIOUS
      <3>1. i \in 1 .. Len(x)
        BY <1>1, <1>3
      <3> QED
        BY <3>1, ElementOfSeq
    <2>3. Len(SubSeq(x, 1, BufSize - 1)) = IF 1 <= BufSize - 1 THEN (BufSize - 1) - 1 + 1 ELSE 0
      <3>1. 1 \in Int /\ BufSize - 1 \in Int
        BY <1>1
      <3> QED
        BY <2>2, <3>1, SubSeqProperties
    <2>4. Len(Buffered(x)) <= Len(x)
      BY <1>1, <1>3, <2>1, <2>3
    <2> QED
      BY <1>3, <2>4
  <1> QED
    BY <1>2, <1>3

\* A text that is not empty arrives whole, the others as a prompt at most.
LEMMA OutsArrive ==
    ASSUME NEW texts \in [Tiles -> Seq(Bytes)], Regular(texts), NEW t \in Tiles
    PROVE  /\ texts[t] # <<>> => Outs(texts)[t] = Written(texts[t])
           /\ texts[t] # <<>> => Len(Outs(texts)[t]) > 6
           /\ texts[t] = <<>> => ~(Len(Outs(texts)[t]) > 6)
  <1> DEFINE x == texts[t]
             w == Written(x)
  <1>1. x \in Seq(Bytes) /\ Len(x) \in Nat /\ BufSize \in Nat
    BY LenProperties, TerminalAssumption
  <1>2. w \in Seq(Bytes) /\ Len(w) = Len(x) + 6
    BY <1>1, WrittenParts
  <1>3. Outs(texts)[t] = Buffered(w)
    BY DEF Outs
  <1>4. x # <<>> => Len(x) + 6 < BufSize /\ Len(x) # 0
    BY <1>1, EmptySeq DEF Regular
  <1>5. x = <<>> => Len(x) = 0
    BY <1>1, EmptySeq
  <1> HIDE DEF w
  <1>6. CASE x # <<>>
    <2>1. Buffered(w) = w
      BY <1>2, <1>4, <1>6, BufferedLength
    <2>2. Len(w) > 6
      BY <1>1, <1>2, <1>4, <1>6
    <2> QED
      BY <1>3, <1>6, <2>1, <2>2 DEF w
  <1>7. CASE x = <<>>
    <2>1. Len(Buffered(w)) <= Len(w)
      BY <1>2, BufferedLength
    <2>2. Len(w) = 6
      BY <1>2, <1>5, <1>7
    <2>3. ~(Len(Buffered(w)) > 6)
      <3>1. Len(Buffered(w)) \in Int
        <4>1. Buffered(w) \in Seq(Bytes)
          <5>1. CASE Len(w) < BufSize
            BY <1>2, <5>1 DEF Buffered
          <5>2. CASE ~(Len(w) < BufSize)
            <6>1. \A i \in 1 .. BufSize - 1 : w[i] \in Bytes
              <7> SUFFICES ASSUME NEW i \in 1 .. BufSize - 1 PROVE w[i] \in Bytes
                OBVIOUS
              <7>1. i \in 1 .. Len(w)
                BY <1>1, <2>2, <5>2
              <7> QED
                BY <1>2, <7>1, ElementOfSeq
            <6>2. 1 \in Int /\ BufSize - 1 \in Int
              BY <1>1
            <6> QED
              BY <5>2, <6>1, <6>2, SubSeqProperties DEF Buffered
          <5> QED
            BY <5>1, <5>2
        <4> QED
          BY <4>1, LenProperties
      <3> QED
        BY <2>1, <2>2, <3>1
    <2> QED
      BY <1>3, <1>7, <2>3
  <1> QED
    BY <1>6, <1>7

\* The report on them is the one expected.
LEMMA ReportIsExpected ==
    ASSUME NEW texts \in [Tiles -> Seq(Bytes)], Regular(texts)
    PROVE  Report(Outs(texts)) = Expected(texts)
  <1> DEFINE outs == Outs(texts)
  <1>1. ASSUME NEW t \in Tiles
        PROVE  /\ texts[t] # <<>> => outs[t] = Written(texts[t]) /\ Len(outs[t]) > 6
               /\ texts[t] = <<>> => ~(Len(outs[t]) > 6)
    BY <1>1, OutsArrive
  <1> HIDE DEF outs
  <1>2. ASSUME NEW t \in Tiles, texts[t] # <<>>
        PROVE  Content(outs, outs[t]) =
                  [text |-> SubSeq(texts[t], 1, Len(texts[t]) - 1),
                   count |-> Cardinality({u \in Tiles : texts[u] = texts[t]})]
    <2> DEFINE x == texts[t]
    <2>1. x \in Seq(Bytes)
      OBVIOUS
    <2>2. outs[t] = Written(x) /\ Len(outs[t]) > 6
      BY <1>1, <1>2
    <2>3. SubSeq(outs[t], 3, Len(outs[t]) - 5) = SubSeq(x, 1, Len(x) - 1)
      BY <1>2, <2>1, <2>2, WrittenTrimmed
    <2>4. \A u \in Tiles : outs[u] = outs[t] <=> texts[u] = x
      <3> SUFFICES ASSUME NEW u \in Tiles PROVE outs[u] = outs[t] <=> texts[u] = x
        OBVIOUS
      <3>1. texts[u] = x => outs[u] = outs[t]
        BY <1>1, <1>2, <2>2
      <3>2. ASSUME outs[u] = outs[t] PROVE texts[u] = x
        <4>1. texts[u] # <<>>
          BY <1>1, <2>2, <3>2
        <4>2. Written(texts[u]) = Written(x)
          BY <1>1, <2>2, <3>2, <4>1
        <4>3. texts[u] \in Seq(Bytes)
          OBVIOUS
        <4> QED
          BY <2>1, <4>2, <4>3, WrittenInjective
      <3> QED
        BY <3>1, <3>2
    <2>5. {u \in Tiles : outs[u] = outs[t]} = {u \in Tiles : texts[u] = x}
      BY <2>4
    <2> QED
      BY <2>3, <2>5 DEF Content
  <1>3. ASSUME NEW c \in Report(outs) PROVE c \in Expected(texts)
    <2>1. PICK t \in Tiles : Len(outs[t]) > 6 /\ c = Content(outs, outs[t])
      BY <1>3 DEF Report
    <2>2. texts[t] # <<>>
      BY <1>1, <2>1
    <2> QED
      BY <1>2, <2>1, <2>2 DEF Expected
  <1>4. ASSUME NEW c \in Expected(texts) PROVE c \in Report(outs)
    <2>1. PICK t \in Tiles : texts[t] # <<>> /\
             c = [text |-> SubSeq(texts[t], 1, Len(texts[t]) - 1),
                  count |-> Cardinality({u \in Tiles : texts[u] = texts[t]})]
      BY <1>4 DEF Expected
    <2>2. c = Content(outs, outs[t]) /\ Len(outs[t]) > 6
      BY <1>1, <1>2, <2>1
    <2> QED
      BY <2>2 DEF Report
  <1> QED
    BY <1>3, <1>4 DEF outs

\* When there is something to report, tile 0's answer is not taken for a continuation
\* prompt.
LEMMA NotPassedThrough ==
    ASSUME NEW texts \in [Tiles -> Seq(Bytes)], Regular(texts), Expected(texts) # {},
           dots' = DotsAfter(Outs(texts)[Tile0])
    PROVE  ~PassesThrough("cr")
  <1> DEFINE x == texts[Tile0]
             n == Len(x)
             w == Written(x)
  <1>1. Tile0 \in Tiles /\ x \in Seq(Bytes) /\ n \in Nat /\ BufSize \in Nat
    BY TerminalAssumption, LenProperties
  <1>2. PICK t \in Tiles : texts[t] # <<>>
    BY DEF Expected
  <1>3. BufSize > 6
    <2>1. Len(texts[t]) \in Nat /\ Len(texts[t]) + 6 < BufSize
      BY <1>2, LenProperties DEF Regular
    <2> QED
      BY <1>1, <2>1
  <1>4. /\ w \in Seq(Bytes) /\ Len(w) = n + 6
        /\ \A i \in 1 .. n : w[i + 2] = x[i]
        /\ w[n + 3] = ">" /\ w[n + 4] = ">"
    BY <1>1, WrittenParts
  <1>5. x # <<>> => n # 0 /\ x[n] = "nl" /\ n + 6 < BufSize
    BY <1>1, EmptySeq DEF Regular
  <1>6. Outs(texts)[Tile0] = w
    <2>1. Len(w) < BufSize
      <3>1. x = <<>> => n = 0
        BY <1>1, EmptySeq
      <3> HIDE DEF n, w
      <3> QED
        BY <1>1, <1>3, <1>4, <1>5, <3>1
    <2>2. Buffered(w) = w
      BY <1>4, <2>1, BufferedLength
    <2> QED
      BY <1>1, <2>2 DEF Outs
  <1> HIDE DEF n, w
  <1>7. \A i \in 2 .. 4 : dots'[i] <=> w[i + 1] = "."
    <2> SUFFICES ASSUME NEW i \in 2 .. 4 PROVE dots'[i] <=> w[i + 1] = "."
      OBVIOUS
    <2>1. i < Len(w)
      BY <1>1, <1>4
    <2> QED
      BY <1>6, <2>1 DEF DotsAfter
  <1>8. SUFFICES ASSUME w[3] = ".", w[4] = ".", w[5] = "." PROVE FALSE
    <2>1. 2 \in 2 .. 4 /\ 3 \in 2 .. 4 /\ 4 \in 2 .. 4 /\ 2 + 1 = 3 /\ 3 + 1 = 4 /\ 4 + 1 = 5
      OBVIOUS
    <2>2. (\A i \in 2 .. 4 : dots'[i]) => w[3] = "." /\ w[4] = "." /\ w[5] = "."
      BY <1>7, <2>1
    <2> QED
      BY <2>2 DEF PassesThrough
  <1>9. CASE n = 0
    BY <1>4, <1>8, <1>9
  <1>10. CASE n = 1
    BY <1>1, <1>4, <1>5, <1>8, <1>10
  <1>11. CASE n = 2
    BY <1>1, <1>4, <1>5, <1>8, <1>11
  <1>12. CASE n >= 3
    <2>1. x[1] = "." /\ x[2] = "." /\ x[3] = "."
      <3>1. 1 \in 1 .. n /\ 2 \in 1 .. n /\ 3 \in 1 .. n /\ 1 + 2 = 3 /\ 2 + 2 = 4 /\ 3 + 2 = 5
        BY <1>1, <1>12
      <3> QED
        BY <1>4, <1>8, <3>1
    <2> DEFINE d == <<".", ".", ".">>
    <2>2. SubSeq(d, 1, Len(d)) = SubSeq(x, 1, Len(d))
      BY <1>1, <1>12, <2>1 DEF n
    <2>3. IsPrefix(d, x)
      BY <1>12, <2>2 DEF IsPrefix, n
    <2> QED
      BY <2>3 DEF Regular
  <1> QED
    BY <1>1, <1>9, <1>10, <1>11, <1>12

---------------------------------------------------------------------------
(***************************************************************************)
(* The theorem.                                                            *)
(***************************************************************************)
LEMMA ExecuteReports ==
    ASSUME NEW c, NEW room, Execute(c, room)
    PROVE  EveryResponseReported'
  <1> DEFINE p == ProcessChar(rl, c, NoMatch, room, Prompt(cont))
  <1>1. PICK texts \in [Tiles -> Texts] :
            /\ Answer(c, [t \in Tiles |-> Buffered(p.out \o texts[t] \o Ps1)])
            /\ ran' = IF c = "cr" THEN {texts} ELSE {}
    BY DEF Execute
  <1>2. CASE c # "cr"
    BY <1>1, <1>2 DEF EveryResponseReported
  <1>3. CASE c = "cr"
    <2>1. ran' = {texts}
      BY <1>1, <1>3
    <2>2. SUFFICES ASSUME Regular(texts) PROVE report' = Expected(texts)
      <3>1. EveryResponseReported' <=> \A x \in ran' : Regular(x)' => report' = Expected(x)'
        BY DEF EveryResponseReported, Expected
      <3>2. \A x : (Regular(x)' <=> Regular(x)) /\ Expected(x)' = Expected(x)
        BY DEF Regular, Expected
      <3> QED
        BY ONLY <2>1, <2>2, <3>1, <3>2
    <2>3. p.out = Newline
      <3>1. Returns(rl, c) = "cr"
        BY <1>3 DEF Execute
      <3> QED
        BY <3>1 DEF ProcessChar, Newline
    <2>4. [t \in Tiles |-> Buffered(p.out \o texts[t] \o Ps1)] = Outs(texts)
      BY <2>3 DEF Outs, Written
    <2> HIDE DEF p
    <2>5. Answer("cr", Outs(texts))
      BY <1>1, <1>3, <2>4
    <2>6. texts \in [Tiles -> Seq(Bytes)]
      <3>1. Seq(STRING) \subseteq Seq(Bytes)
        <4>1. ASSUME NEW S, NEW B, S \subseteq B, NEW s \in Seq(S) PROVE s \in Seq(B)
          <5>1. s \in [1 .. Len(s) -> B] /\ Len(s) \in Nat
            BY <4>1, LenProperties
          <5> QED
            BY <5>1, SeqDef
        <4> QED
          BY <4>1 DEF Bytes
      <3> QED
        BY <3>1, TerminalAssumption
    <2>7. /\ dots' = DotsAfter(Outs(texts)[Tile0])
          /\ report' = IF PassesThrough("cr") THEN {} ELSE Report(Outs(texts))
      BY <2>5 DEF Answer
    <2>8. Report(Outs(texts)) = Expected(texts)
      BY <2>2, <2>6, ReportIsExpected
    <2>9. Expected(texts) # {} => ~PassesThrough("cr")
      BY <2>2, <2>6, <2>7, NotPassedThrough
    <2> QED
      BY <2>7, <2>8, <2>9
  <1> QED
    BY <1>2, <1>3

\* The host's callback reports each response to a carriage return whole, up to its last
\* newline, with the number of tiles that gave it, whatever was printed before: what an
\* earlier answer left in tile 0's print buffer never makes it take the answer for a
\* continuation prompt.
THEOREM ResponsesAreReported == Spec => []EveryResponseReported
  <1>1. Init => EveryResponseReported
    BY DEF Init, EveryResponseReported
  <1>2. EveryResponseReported /\ [Next]_vars => EveryResponseReported'
    <2> SUFFICES ASSUME EveryResponseReported, [Next]_vars PROVE EveryResponseReported'
      OBVIOUS
    <2>1. CASE ran' = {}
      BY <2>1 DEF EveryResponseReported
    <2>2. ASSUME NEW c \in Keys, NEW found, Type(c, found) PROVE ran' = {}
      BY <2>2 DEF Type
    <2>3. ASSUME NEW room, Continue(room) PROVE ran' = {}
      BY <2>3 DEF Continue
    <2>4. Cancel => ran' = {}
      BY DEF Cancel
    <2>5. ASSUME NEW c, NEW room, Execute(c, room) PROVE EveryResponseReported'
      BY <2>5, ExecuteReports
    <2>6. CASE UNCHANGED vars
      BY <2>6 DEF vars, EveryResponseReported, Regular
    <2> QED
      BY <2>1, <2>2, <2>3, <2>4, <2>5, <2>6 DEF Next
  <1> QED
    BY <1>1, <1>2, PTL DEF Spec
===========================================================================
