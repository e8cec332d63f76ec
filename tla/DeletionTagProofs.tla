------------------------- MODULE DeletionTagProofs --------------------------
(***************************************************************************)
(* The translation of deletion parameters into tags and back, of           *)
(* pkg/util/util.go, proved for values of any length over any alphabet: a  *)
(* value whose tag can be read in one way only comes back as it was given. *)
(* The argument goes along the six passes of the decoding.  Let J be the   *)
(* JSON characters that are still translated; a pass takes one of them out *)
(* of J and touches nothing else, for the pattern it looks for can appear  *)
(* only where the encoding put it.                                         *)
(***************************************************************************)
EXTENDS ParameterUtil, TLAPS, SequenceTheorems, WellFoundedInduction

-----------------------------------------------------------------------------
(* Induction over the natural numbers, from the smallest counterexample.   *)

\* A set with 0 and with the successor of every number in it holds all numbers.
LEMMA SetInduction ==
    ASSUME NEW S, 0 \in S, \A n \in Nat : n \in S => n + 1 \in S
    PROVE  Nat \subseteq S
<1> DEFINE R == OpToRel(<, Nat)
           T == Nat \ S
<1>1. \A i, j \in Nat : <<i, j>> \in R <=> i < j BY DEF OpToRel
<1>2. IsWellFoundedOn(R, Nat) BY NatLessThanWellFounded
<1> HIDE DEF R
<1> SUFFICES ASSUME T # {} PROVE FALSE OBVIOUS
<1>3. PICK n \in T : \A m \in T : ~(<<m, n>> \in R) 
  <2> HIDE DEF T
  <2>1. T \subseteq Nat BY DEF T
  <2> QED BY <1>2, <2>1, WFMin
<1>4. n \in Nat /\ n # 0 /\ n - 1 \in Nat /\ n - 1 < n /\ (n - 1) + 1 = n OBVIOUS
<1>5. n - 1 \notin T BY <1>1, <1>3, <1>4
<1> QED BY <1>4, <1>5

\* f is the function that a recursion over 1 .. n with the step G builds from b.
Recurs(f, X, b, n, G) ==
    f \in [0 .. n -> X] /\ f[0] = b /\ \A i \in 1 .. n : f[i] = G[<<f[i - 1], i>>]

\* There is such a function.
LEMMA RecursionExists ==
    ASSUME NEW X, NEW b \in X, NEW n \in Nat, NEW G \in [X \X (1 .. n) -> X]
    PROVE  \E f : Recurs(f, X, b, n, G)
<1> DEFINE S == {m \in Nat : m <= n => \E f \in [0 .. m -> X] :
                                 f[0] = b /\ \A i \in 1 .. m : f[i] = G[<<f[i - 1], i>>]}
<1>1. 0 \in S
  <2> DEFINE f == [i \in 0 .. 0 |-> b]
  <2>1. f \in [0 .. 0 -> X] /\ f[0] = b OBVIOUS
  <2>2. \A i \in 1 .. 0 : FALSE OBVIOUS
  <2> HIDE DEF f
  <2> QED BY <2>1, <2>2
<1>2. ASSUME NEW m \in Nat, m \in S PROVE m + 1 \in S
  <2> SUFFICES ASSUME m + 1 <= n
               PROVE  \E f \in [0 .. m + 1 -> X] :
                         f[0] = b /\ \A i \in 1 .. m + 1 : f[i] = G[<<f[i - 1], i>>]
    OBVIOUS
  <2>1. PICK f \in [0 .. m -> X] : f[0] = b /\ \A i \in 1 .. m : f[i] = G[<<f[i - 1], i>>]
    BY <1>2
  <2> DEFINE g == [i \in 0 .. m + 1 |-> IF i <= m THEN f[i] ELSE G[<<f[m], m + 1>>]]
  <2>2. G[<<f[m], m + 1>>] \in X
    <3>1. <<f[m], m + 1>> \in X \X (1 .. n) OBVIOUS
    <3> QED BY <3>1
  <2>3. g \in [0 .. m + 1 -> X] BY <2>2
  <2>4. g[0] = b BY <2>1
  <2>5. ASSUME NEW i \in 1 .. m + 1 PROVE g[i] = G[<<g[i - 1], i>>]
    <3>1. g[i - 1] = f[i - 1] OBVIOUS
    <3>2. CASE i <= m BY <2>1, <3>1, <3>2
    <3>3. CASE ~(i <= m)
      <4>1. i = m + 1 /\ i - 1 = m BY <3>3
      <4>2. g[i] = G[<<f[m], m + 1>>] BY <3>3
      <4> QED BY <3>1, <4>1, <4>2
    <3> QED BY <3>2, <3>3
  <2> QED BY <2>3, <2>4, <2>5
<1> HIDE DEF S
<1>3. n \in S BY <1>1, <1>2, SetInduction
<1>4. \E f \in [0 .. n -> X] : f[0] = b /\ \A i \in 1 .. n : f[i] = G[<<f[i - 1], i>>]
  BY <1>3 DEF S
<1> QED BY <1>4 DEF Recurs

-----------------------------------------------------------------------------
(* strings.ReplaceAll, one character of input after the other.             *)

\* strings.ReplaceAll after one more character: the output grows by it, or its last
\* three characters become x if they are the pattern q.
Feed(o, a, x, q) ==
    LET p == Append(o, a)
        n == Len(p)
    IN  IF n >= 3 /\ SubSeq(p, n - 2, n) = q
        THEN Append(SubSeq(p, 1, n - 3), x) ELSE p

\* The output has the characters of the input, and x.
LEMMA FeedType ==
    ASSUME NEW S, NEW o \in Seq(S), NEW a \in S, NEW x \in S, NEW q
    PROVE  Feed(o, a, x, q) \in Seq(S)
<1> DEFINE p == Append(o, a)
           n == Len(p)
           u == SubSeq(p, 1, n - 3)
<1>1. p \in Seq(S) /\ n \in Nat /\ \A i \in 1 .. n : p[i] \in S BY AppendProperties
<1> HIDE DEF p
<1>2. u \in Seq(S)
  <2>1. 1 \in Int /\ n - 3 \in Int /\ \A i \in 1 .. n - 3 : i \in 1 .. n BY <1>1
  <2>2. \A i \in 1 .. n - 3 : p[i] \in S BY <1>1, <2>1
  <2> QED BY <2>1, <2>2, SubSeqProperties
<1>3. Append(u, x) \in Seq(S) BY <1>2, AppendProperties
<1> HIDE DEF u
<1> QED BY <1>1, <1>3 DEF Feed, p, u

\* Without the pattern at its end the output only grows.
LEMMA FeedKeeps ==
    ASSUME NEW S, NEW o \in Seq(S), NEW a \in S, NEW x, NEW q,
           ~(a = q[3] /\ Len(o) >= 2 /\ o[Len(o)] = q[2] /\ o[Len(o) - 1] = q[1])
    PROVE  Feed(o, a, x, q) = Append(o, a)
<1> DEFINE p == Append(o, a)
           n == Len(p)
           w == SubSeq(p, n - 2, n)
<1>1. p \in Seq(S) /\ n = Len(o) + 1 /\ p[n] = a /\ \A i \in 1 .. Len(o) : p[i] = o[i]
  BY AppendProperties
<1>2. Len(o) \in Nat OBVIOUS
<1>3. Feed(o, a, x, q) = IF n >= 3 /\ w = q THEN Append(SubSeq(p, 1, n - 3), x) ELSE p
  BY DEF Feed
<1> HIDE DEF p
<1>5. ASSUME n >= 3, w = q PROVE FALSE
  <2>1. n \in Nat /\ n - 2 \in Int /\ n \in Int BY <1>1, <1>2
  <2>2. \A i \in n - 2 .. n : p[i] \in S BY <1>1, <1>2, <1>5
  <2>3. \A i \in 1 .. n - (n - 2) + 1 : w[i] = p[n - 2 + i - 1]
    BY <2>1, <2>2, SubSeqProperties
  <2>4. w[1] = p[n - 2] /\ w[2] = p[n - 1] /\ w[3] = p[n]
    <3>1. /\ n - (n - 2) + 1 = 3 /\ n - 2 + 1 - 1 = n - 2 /\ n - 2 + 2 - 1 = n - 1
          /\ n - 2 + 3 - 1 = n
      BY <2>1
    <3> HIDE DEF w
    <3> QED BY <2>3, <3>1
  <2>5. n - 1 = Len(o) /\ n - 2 = Len(o) - 1 /\ Len(o) >= 2 BY <1>1, <1>2, <1>5
  <2>6. p[n - 1] = o[Len(o)] /\ p[n - 2] = o[Len(o) - 1] BY <1>1, <1>2, <2>5
  <2> HIDE DEF w
  <2> QED BY <1>1, <1>5, <2>4, <2>5, <2>6
<1> HIDE DEF w
<1> QED BY <1>3, <1>5 DEF p

\* With the pattern at its end it is replaced.
LEMMA FeedReplaces ==
    ASSUME NEW S, NEW o \in Seq(S), NEW x \in S, NEW q \in Seq(S), Len(q) = 3
    PROVE  Feed(Append(Append(o, q[1]), q[2]), q[3], x, q) = Append(o, x)
<1> DEFINE p1 == Append(o, q[1])
           p2 == Append(p1, q[2])
           p == Append(p2, q[3])
           n == Len(p)
           w == SubSeq(p, n - 2, n)
           u == SubSeq(p, 1, n - 3)
<1>1. q[1] \in S /\ q[2] \in S /\ q[3] \in S
  <2>1. \A i \in 1 .. Len(q) : q[i] \in S BY ElementOfSeq
  <2>2. 1 \in 1 .. Len(q) /\ 2 \in 1 .. Len(q) /\ 3 \in 1 .. Len(q) OBVIOUS
  <2> QED BY <2>1, <2>2
<1>2. Feed(p2, q[3], x, q) = IF n >= 3 /\ w = q THEN Append(u, x) ELSE p BY DEF Feed
<1>3. /\ p1 \in Seq(S) /\ Len(p1) = Len(o) + 1 /\ p1[Len(o) + 1] = q[1]
      /\ \A i \in 1 .. Len(o) : p1[i] = o[i]
  BY <1>1, AppendProperties
<1> HIDE DEF p1
<1>4. /\ p2 \in Seq(S) /\ Len(p2) = Len(p1) + 1 /\ p2[Len(p1) + 1] = q[2]
      /\ \A i \in 1 .. Len(p1) : p2[i] = p1[i]
  BY <1>1, <1>3, AppendProperties
<1> HIDE DEF p2
<1>5. /\ p \in Seq(S) /\ Len(p) = Len(p2) + 1 /\ p[Len(p2) + 1] = q[3]
      /\ \A i \in 1 .. Len(p2) : p[i] = p2[i]
  BY <1>1, <1>4, AppendProperties
<1> HIDE DEF p
<1>6. Len(o) \in Nat OBVIOUS
<1>7. n = Len(o) + 3 /\ n \in Nat /\ p[n] = q[3] /\ p[n - 1] = q[2] /\ p[n - 2] = q[1]
      /\ \A i \in 1 .. Len(o) : p[i] = o[i]
  <2>1. /\ Len(p1) = Len(o) + 1 /\ Len(p2) = Len(o) + 2 /\ n = Len(o) + 3 /\ n \in Nat
        /\ n - 1 = Len(p1) + 1 /\ n - 2 = Len(o) + 1 /\ n = Len(p2) + 1
    BY <1>3, <1>4, <1>5, <1>6
  <2>2. p[n] = q[3] BY <1>5, <2>1
  <2>3. n - 1 \in 1 .. Len(p2) /\ n - 2 \in 1 .. Len(p2) /\ n - 2 \in 1 .. Len(p1) BY <1>6, <2>1
  <2>4. p[n - 1] = q[2] BY <1>4, <1>5, <2>1, <2>3
  <2>5. p[n - 2] = q[1] BY <1>3, <1>4, <1>5, <2>1, <2>3
  <2>6. \A i \in 1 .. Len(o) : i \in 1 .. Len(p1) /\ i \in 1 .. Len(p2) BY <1>6, <2>1
  <2>7. \A i \in 1 .. Len(o) : p[i] = o[i] BY <1>3, <1>4, <1>5, <2>6
  <2> QED BY <2>1, <2>2, <2>4, <2>5, <2>7
<1>8. w = q
  <2>1. n \in Int /\ n - 2 \in Int /\ \A i \in n - 2 .. n : p[i] \in S BY <1>5, <1>6, <1>7
  <2>2. /\ w \in Seq(S) /\ Len(w) = IF n - 2 <= n THEN n - (n - 2) + 1 ELSE 0
        /\ \A i \in 1 .. n - (n - 2) + 1 : w[i] = p[n - 2 + i - 1]
    BY <2>1, SubSeqProperties
  <2> HIDE DEF w
  <2>3. /\ n - (n - 2) + 1 = 3 /\ n - 2 <= n
        /\ n - 2 + 1 - 1 = n - 2 /\ n - 2 + 2 - 1 = n - 1 /\ n - 2 + 3 - 1 = n
    BY <1>7
  <2>4. Len(w) = 3 /\ w[1] = q[1] /\ w[2] = q[2] /\ w[3] = q[3] BY <1>7, <2>2, <2>3
  <2>5. \A i \in 1 .. 3 : w[i] = q[i] BY <2>4
  <2> QED BY <2>2, <2>4, <2>5, SeqEqual
<1>9. u = o
  <2>1. 1 \in Int /\ n - 3 \in Int /\ \A i \in 1 .. n - 3 : p[i] \in S BY <1>5, <1>6, <1>7
  <2>2. /\ u \in Seq(S) /\ Len(u) = IF 1 <= n - 3 THEN n - 3 - 1 + 1 ELSE 0
        /\ \A i \in 1 .. n - 3 - 1 + 1 : u[i] = p[1 + i - 1]
    BY <2>1, SubSeqProperties
  <2> HIDE DEF u
  <2>3. Len(u) = Len(o) /\ \A i \in 1 .. Len(o) : u[i] = o[i] BY <1>6, <1>7, <2>2
  <2> QED BY <2>2, <2>3, SeqEqual
<1>10. n >= 3 BY <1>6, <1>7
<1> QED BY <1>2, <1>8, <1>9, <1>10 DEF p2, p1

\* A tag character between two spaces, as ReplaceAll looks for it.
Pattern(t) == <<" ", t, " ">>

\* f[i] is the output after the first i characters of s.
Runs(f, s, x, q) ==
    f[0] = <<>> /\ \A i \in 1 .. Len(s) : f[i] = Feed(f[i - 1], s[i], x, q)

\* Every input has its run.
LEMMA RunExists ==
    ASSUME NEW S, NEW s \in Seq(S), NEW x \in S, NEW q
    PROVE  \E f \in [0 .. Len(s) -> Seq(S)] : Runs(f, s, x, q)
<1> DEFINE X == Seq(S)
           n == Len(s)
           G == [p \in X \X (1 .. n) |-> Feed(p[1], s[p[2]], x, q)]
<1>1. n \in Nat /\ \A i \in 1 .. n : s[i] \in S OBVIOUS
<1>2. \A o \in X, a \in S : Feed(o, a, x, q) \in X BY FeedType
<1>3. <<>> \in X OBVIOUS
<1> HIDE DEF X, n
<1>4. G \in [X \X (1 .. n) -> X]
  <2>1. \A p \in X \X (1 .. n) : p[1] \in X /\ p[2] \in 1 .. n OBVIOUS
  <2>2. \A p \in X \X (1 .. n) : Feed(p[1], s[p[2]], x, q) \in X BY <1>1, <1>2, <2>1
  <2> QED BY <2>2
<1>5. \A o \in X, i \in 1 .. n : G[<<o, i>>] = Feed(o, s[i], x, q)
  <2> TAKE o \in X, i \in 1 .. n
  <2>1. <<o, i>> \in X \X (1 .. n) /\ <<o, i>>[1] = o /\ <<o, i>>[2] = i OBVIOUS
  <2> QED BY <2>1
<1> HIDE DEF G
<1>6. PICK f : Recurs(f, X, <<>>, n, G) BY Zenon, <1>1, <1>3, <1>4, RecursionExists
<1>7. ASSUME NEW i \in 1 .. n PROVE f[i] = Feed(f[i - 1], s[i], x, q)
  <2>1. i - 1 \in 0 .. n BY <1>1
  <2>2. f[i - 1] \in X BY <1>6, <2>1 DEF Recurs
  <2> QED BY <1>5, <1>6, <2>2 DEF Recurs
<1> QED BY <1>6, <1>7 DEF Recurs, Runs, X, n

\* Runs over inputs that agree in their first n characters agree after them.
LEMMA RunUnique ==
    ASSUME NEW s, NEW r, NEW n \in Nat, n <= Len(s), n <= Len(r), Len(s) \in Nat, Len(r) \in Nat,
           \A i \in 1 .. n : s[i] = r[i],
           NEW x, NEW q, NEW f, NEW g, Runs(f, s, x, q), Runs(g, r, x, q)
    PROVE  f[n] = g[n]
<1> DEFINE S == {m \in Nat : m <= n => f[m] = g[m]}
<1>1. 0 \in S BY DEF Runs
<1>2. ASSUME NEW m \in Nat, m \in S PROVE m + 1 \in S
  <2> SUFFICES ASSUME m + 1 <= n PROVE f[m + 1] = g[m + 1] OBVIOUS
  <2>1. f[m] = g[m] BY <1>2
  <2>2. m + 1 \in 1 .. Len(s) /\ m + 1 \in 1 .. Len(r) /\ (m + 1) - 1 = m /\ m + 1 \in 1 .. n OBVIOUS
  <2>3. s[m + 1] = r[m + 1] BY <2>2
  <2>4. f[m + 1] = Feed(f[m], s[m + 1], x, q) /\ g[m + 1] = Feed(g[m], r[m + 1], x, q)
    BY <2>2 DEF Runs
  <2> QED BY <2>1, <2>3, <2>4
<1> HIDE DEF S
<1>3. n \in S BY <1>1, <1>2, SetInduction
<1> QED BY <1>3 DEF S

\* ReplaceTag is the end of a run.
LEMMA ReplaceTagRuns ==
    ASSUME NEW S, NEW s \in Seq(S), NEW x \in S, NEW t, NEW f, Runs(f, s, x, Pattern(t))
    PROVE  ReplaceTag(s, x, t) = f[Len(s)]
<1> DEFINE q == Pattern(t)
           n == Len(s)
           Step(h, i) == IF i = 0 THEN <<>> ELSE Feed(h[i - 1], s[i], x, q)
           out == CHOOSE h : h = [i \in 0 .. Len(s) |-> Step(h, i)]
<1>1. ReplaceTag(s, x, t) = out[Len(s)] BY DEF ReplaceTag, Feed, Pattern
<1>2. n \in Nat OBVIOUS
<1> DEFINE g == [i \in 0 .. Len(s) |-> f[i]]
<1> HIDE DEF q
<1>3. g = [i \in 0 .. Len(s) |-> Step(g, i)]
  <2>1. \A i \in 0 .. Len(s) : g[i] = f[i] OBVIOUS
  <2> HIDE DEF g
  <2>2. f[0] = <<>> BY DEF Runs
  <2>3. ASSUME NEW i \in 0 .. Len(s) PROVE f[i] = Step(g, i)
    <3>1. CASE i = 0 BY <2>2, <3>1
    <3>2. CASE i # 0
      <4>1. i \in 1 .. Len(s) /\ i - 1 \in 0 .. Len(s) BY <1>2, <3>2
      <4>2. f[i] = Feed(f[i - 1], s[i], x, q) BY <4>1 DEF Runs, q
      <4> QED BY <2>1, <3>2, <4>1, <4>2
    <3> QED BY <3>1, <3>2
  <2> HIDE DEF Step
  <2> QED BY <2>3 DEF g
<1> HIDE DEF g, Step
<1>4. out = [i \in 0 .. Len(s) |-> Step(out, i)] BY <1>3
<1> HIDE DEF out
<1>5. \A i \in 0 .. Len(s) : out[i] = Step(out, i) BY <1>4
<1>6. out[0] = <<>> BY <1>2, <1>5 DEF Step
<1>7. ASSUME NEW i \in 1 .. Len(s) PROVE out[i] = Feed(out[i - 1], s[i], x, q)
  <2>1. i \in 0 .. Len(s) /\ i # 0 BY <1>2
  <2>2. out[i] = Step(out, i) BY <1>5, <2>1
  <2> QED BY <2>1, <2>2 DEF Step
<1>8. Runs(out, s, x, q) BY <1>6, <1>7 DEF Runs
<1>9. out[n] = f[n]
  <2>1. n \in Nat /\ n <= Len(s) /\ Len(s) \in Nat BY <1>2
  <2>2. \A i \in 1 .. n : s[i] = s[i] OBVIOUS
  <2>3. Runs(f, s, x, q) BY DEF q
  <2> HIDE DEF n
  <2> QED BY <1>8, <2>1, <2>2, <2>3, RunUnique
<1> QED BY <1>1, <1>9

\* Nothing is replaced in nothing.
LEMMA ReplaceTagEmpty == ASSUME NEW S, NEW x \in S, NEW t PROVE ReplaceTag(<<>>, x, t) = <<>>
<1>1. <<>> \in Seq(S) /\ Len(<<>>) = 0 OBVIOUS
<1>2. PICK f : Runs(f, <<>>, x, Pattern(t)) BY Zenon, <1>1, RunExists
<1>3. ReplaceTag(<<>>, x, t) = f[Len(<<>>)] BY <1>1, <1>2, ReplaceTagRuns
<1> QED BY <1>1, <1>2, <1>3 DEF Runs

\* One more character of input is one more step of ReplaceTag.
LEMMA ReplaceTagAppend ==
    ASSUME NEW S, NEW s \in Seq(S), NEW a \in S, NEW x \in S, NEW t
    PROVE  /\ ReplaceTag(Append(s, a), x, t) = Feed(ReplaceTag(s, x, t), a, x, Pattern(t))
<1> DEFINE r == Append(s, a)
           n == Len(s)
<1>1. r \in Seq(S) /\ Len(r) = n + 1 /\ r[n + 1] = a /\ (\A i \in 1 .. n : r[i] = s[i])
  BY AppendProperties
<1>2. n \in Nat OBVIOUS
<1> HIDE DEF r
<1>3. PICK f : Runs(f, s, x, Pattern(t)) BY RunExists
<1>4. PICK g : Runs(g, r, x, Pattern(t)) BY <1>1, RunExists
<1>5. g[n] = f[n]
  <2>1. n \in Nat /\ n <= Len(r) /\ n <= Len(s) /\ Len(r) \in Nat /\ Len(s) \in Nat BY <1>1, <1>2
  <2> HIDE DEF n
  <2>2. \A i \in 1 .. n : r[i] = s[i] BY <1>1
  <2> QED BY <1>3, <1>4, <2>1, <2>2, RunUnique
<1>6. g[n + 1] = Feed(g[n], a, x, Pattern(t))
  <2>1. n + 1 \in 1 .. Len(r) /\ (n + 1) - 1 = n BY <1>1, <1>2
  <2> QED BY <1>1, <1>4, <2>1 DEF Runs
<1>7. ReplaceTag(s, x, t) = f[n] BY <1>3, ReplaceTagRuns
<1>8. ReplaceTag(r, x, t) = g[n + 1] BY <1>1, <1>4, ReplaceTagRuns
<1> QED BY <1>5, <1>6, <1>7, <1>8 DEF r

-----------------------------------------------------------------------------
(* The translation table.  The space is named: the provers do not meet     *)
(* arithmetic and special characters in one step.                          *)

Space == " "

\* What the translation treats specially.
Reserved == JsonCharacters \cup TagCharacters \cup {Space}

\* The characters of a pattern.
LEMMA PatternType ==
    ASSUME NEW S, Reserved \subseteq S, NEW t \in S
    PROVE  /\ Pattern(t) \in Seq(S) /\ Len(Pattern(t)) = 3
           /\ Pattern(t)[1] = Space /\ Pattern(t)[2] = t /\ Pattern(t)[3] = Space
<1>1. Pattern(t) = <<Space, t, Space>> BY Zenon DEF Pattern, Space
<1>2. Space \in S BY DEF Reserved
<1> QED BY <1>1, <1>2

\* The table, entry by entry.
LEMMA TranslationParts ==
    /\ Len(Translation) = 6 /\ DOMAIN Translation = 1 .. 6
    /\ Translation[1] = <<"\"", "@">> /\ Translation[2] = <<",", ".">>
    /\ Translation[3] = <<"[", "-">> /\ Translation[4] = <<"]", "_">>
    /\ Translation[5] = <<"{", "+">> /\ Translation[6] = <<"}", "=">>
<1>1. \A a, b, c, d, e, f :
          LET s == <<a, b, c, d, e, f>> IN
          /\ Len(s) = 6 /\ DOMAIN s = 1 .. 6
          /\ s[1] = a /\ s[2] = b /\ s[3] = c /\ s[4] = d /\ s[5] = e /\ s[6] = f
  OBVIOUS
<1> QED BY Zenon, <1>1 DEF Translation

\* The six JSON characters differ, and so do the six tag characters; no tag character
\* is the space.
LEMMA TranslationOneToOne ==
    /\ \A i, j \in 1 .. 6 : Translation[i][1] = Translation[j][1] => i = j
    /\ \A i, j \in 1 .. 6 : Translation[i][2] = Translation[j][2] => i = j
    /\ \A i \in 1 .. 6 : Translation[i][2] # Space
<1> DEFINE x(i) == Translation[i][1]
           t(i) == Translation[i][2]
<1>1. \A s, a, b : s = <<a, b>> => s[1] = a /\ s[2] = b OBVIOUS
<1>2. /\ x(1) = "\"" /\ x(2) = "," /\ x(3) = "[" /\ x(4) = "]" /\ x(5) = "{" /\ x(6) = "}"
      /\ t(1) = "@" /\ t(2) = "." /\ t(3) = "-" /\ t(4) = "_" /\ t(5) = "+" /\ t(6) = "="
  <2>1. x(1) = "\"" /\ t(1) = "@"
    <3>1. Translation[1] = <<"\"", "@">> BY Zenon, TranslationParts
    <3> QED BY Zenon, <1>1, <3>1
  <2>2. x(2) = "," /\ t(2) = "."
    <3>1. Translation[2] = <<",", ".">> BY Zenon, TranslationParts
    <3> QED BY Zenon, <1>1, <3>1
  <2>3. x(3) = "[" /\ t(3) = "-"
    <3>1. Translation[3] = <<"[", "-">> BY Zenon, TranslationParts
    <3> QED BY Zenon, <1>1, <3>1
  <2>4. x(4) = "]" /\ t(4) = "_"
    <3>1. Translation[4] = <<"]", "_">> BY Zenon, TranslationParts
    <3> QED BY Zenon, <1>1, <3>1
  <2>5. x(5) = "{" /\ t(5) = "+"
    <3>1. Translation[5] = <<"{", "+">> BY Zenon, TranslationParts
    <3> QED BY Zenon, <1>1, <3>1
  <2>6. x(6) = "}" /\ t(6) = "="
    <3>1. Translation[6] = <<"}", "=">> BY Zenon, TranslationParts
    <3> QED BY Zenon, <1>1, <3>1
  <2> QED BY Zenon, <2>1, <2>2, <2>3, <2>4, <2>5, <2>6
<1> HIDE DEF x, t
<1>4. /\ x(1) # x(2) /\ x(1) # x(3) /\ x(1) # x(4) /\ x(1) # x(5) /\ x(1) # x(6)
      /\ x(2) # x(3) /\ x(2) # x(4) /\ x(2) # x(5) /\ x(2) # x(6)
      /\ x(3) # x(4) /\ x(3) # x(5) /\ x(3) # x(6)
      /\ x(4) # x(5) /\ x(4) # x(6) /\ x(5) # x(6)
  BY Zenon, <1>2
<1>5. /\ t(1) # t(2) /\ t(1) # t(3) /\ t(1) # t(4) /\ t(1) # t(5) /\ t(1) # t(6)
      /\ t(2) # t(3) /\ t(2) # t(4) /\ t(2) # t(5) /\ t(2) # t(6)
      /\ t(3) # t(4) /\ t(3) # t(5) /\ t(3) # t(6)
      /\ t(4) # t(5) /\ t(4) # t(6) /\ t(5) # t(6)
  BY Zenon, <1>2
<1>6. /\ t(1) # Space /\ t(2) # Space /\ t(3) # Space
      /\ t(4) # Space /\ t(5) # Space /\ t(6) # Space
  BY Zenon, <1>2 DEF Space
<1>7. \A i \in 1 .. 6 : i = 1 \/ i = 2 \/ i = 3 \/ i = 4 \/ i = 5 \/ i = 6 OBVIOUS
<1>8. \A i, j \in 1 .. 6 : x(i) = x(j) => i = j BY <1>4, <1>7
<1>9. \A i, j \in 1 .. 6 : t(i) = t(j) => i = j BY <1>5, <1>7
<1>10. \A i \in 1 .. 6 : t(i) # Space BY <1>6, <1>7
<1> QED BY <1>8, <1>9, <1>10 DEF x, t

\* What the passes rely on: a tag character stands for one JSON character only.
LEMMA TranslationFacts ==
    ASSUME NEW k \in 1 .. 6
    PROVE  /\ Translation[k][1] \in JsonCharacters /\ Translation[k][2] \in TagCharacters
           /\ Translation[k][2] # Space
           /\ \A a \in JsonCharacters :
                 /\ TagCharacter(a) \in TagCharacters /\ TagCharacter(a) # Space
                 /\ TagCharacter(a) = Translation[k][2] <=> a = Translation[k][1]
<1>1. DOMAIN Translation = 1 .. 6 BY Zenon, TranslationParts
<1>2. Translation[k][1] \in JsonCharacters /\ Translation[k][2] \in TagCharacters
  BY <1>1 DEF JsonCharacters, TagCharacters
<1>3. ASSUME NEW a \in JsonCharacters
      PROVE  /\ TagCharacter(a) \in TagCharacters /\ TagCharacter(a) # Space
             /\ TagCharacter(a) = Translation[k][2] <=> a = Translation[k][1]
  <2> DEFINE c == CHOOSE i \in DOMAIN Translation : Translation[i][1] = a
  <2>1. \E i \in DOMAIN Translation : Translation[i][1] = a BY DEF JsonCharacters
  <2>2. c \in 1 .. 6 /\ Translation[c][1] = a BY <1>1, <2>1
  <2>3. TagCharacter(a) = Translation[c][2] BY DEF TagCharacter
  <2> HIDE DEF c
  <2>4. TagCharacter(a) \in TagCharacters BY <1>1, <2>2, <2>3 DEF TagCharacters
  <2> QED BY <2>2, <2>3, <2>4, TranslationOneToOne
<1> QED BY <1>2, <1>3, TranslationOneToOne

-----------------------------------------------------------------------------
(* A value in which some of the JSON characters are translated: what the   *)
(* encoding makes of it, and what is left after each pass of the decoding. *)

\* Three characters appended one by one.
AppendAll(o, q) == Append(Append(Append(o, q[1]), q[2]), q[3])

\* One more character of a value: translated if it is in J.
CodeStep(J, o, a) ==
    IF a \in J THEN AppendAll(o, Pattern(TagCharacter(a))) ELSE Append(o, a)

\* e[i] is the partly translated form of the first i characters of v.
Codes(e, J, v) ==
    e[0] = <<>> /\ \A i \in 1 .. Len(v) : e[i] = CodeStep(J, e[i - 1], v[i])

\* A step ends with the space or with the character itself.
LEMMA CodeStepType ==
    ASSUME NEW S, Reserved \subseteq S, NEW J \in SUBSET JsonCharacters, NEW o \in Seq(S), NEW a \in S
    PROVE  /\ CodeStep(J, o, a) \in Seq(S)
           /\ Len(CodeStep(J, o, a)) >= 1
           /\ CodeStep(J, o, a)[Len(CodeStep(J, o, a))] = IF a \in J THEN Space ELSE a
<1>1. CASE a \notin J
  <2>1. CodeStep(J, o, a) = Append(o, a) BY <1>1 DEF CodeStep
  <2>2. /\ Append(o, a) \in Seq(S) /\ Len(Append(o, a)) = Len(o) + 1 /\ Append(o, a)[Len(o) + 1] = a
        /\ Len(o) \in Nat
    BY AppendProperties
  <2> QED BY <1>1, <2>1, <2>2
<1>2. CASE a \in J
  <2> DEFINE t == TagCharacter(a)
             q == Pattern(t)
             p1 == Append(o, q[1])
             p2 == Append(p1, q[2])
             p3 == Append(p2, q[3])
  <2>1. t \in S
    <3>1. 1 \in 1 .. 6 OBVIOUS
    <3> QED BY <1>2, <3>1, TranslationFacts DEF Reserved
  <2> HIDE DEF t
  <2>2. q[1] = Space /\ q[2] = t /\ q[3] = Space BY <2>1, PatternType
  <2>3. Space \in S BY DEF Reserved
  <2> HIDE DEF q
  <2>4. p1 \in Seq(S) BY <2>2, <2>3, AppendProperties
  <2> HIDE DEF p1
  <2>5. p2 \in Seq(S) BY <2>1, <2>2, <2>4, AppendProperties
  <2> HIDE DEF p2
  <2>6. p3 \in Seq(S) /\ Len(p3) = Len(p2) + 1 /\ p3[Len(p2) + 1] = Space /\ Len(p2) \in Nat
    BY <2>2, <2>3, <2>5, AppendProperties
  <2>7. CodeStep(J, o, a) = p3 BY <1>2 DEF CodeStep, AppendAll, p1, p2, q, t
  <2> HIDE DEF p3
  <2> QED BY <1>2, <2>6, <2>7
<1> QED BY <1>1, <1>2

\* Every value has such a form, for every J.
LEMMA CodesExist ==
    ASSUME NEW S, Reserved \subseteq S, NEW J \in SUBSET JsonCharacters, NEW v \in Seq(S)
    PROVE  \E e : Codes(e, J, v)
<1> DEFINE X == Seq(S)
           n == Len(v)
           G == [p \in X \X (1 .. n) |-> CodeStep(J, p[1], v[p[2]])]
<1>1. n \in Nat /\ \A i \in 1 .. n : v[i] \in S OBVIOUS
<1>2. \A o \in X, a \in S : CodeStep(J, o, a) \in X BY CodeStepType
<1>3. <<>> \in X OBVIOUS
<1> HIDE DEF X, n
<1>4. G \in [X \X (1 .. n) -> X]
  <2>1. \A p \in X \X (1 .. n) : p[1] \in X /\ p[2] \in 1 .. n OBVIOUS
  <2>2. \A p \in X \X (1 .. n) : CodeStep(J, p[1], v[p[2]]) \in X BY <1>1, <1>2, <2>1
  <2> QED BY <2>2
<1>5. \A o \in X, i \in 1 .. n : G[<<o, i>>] = CodeStep(J, o, v[i])
  <2> TAKE o \in X, i \in 1 .. n
  <2>1. <<o, i>> \in X \X (1 .. n) /\ <<o, i>>[1] = o /\ <<o, i>>[2] = i OBVIOUS
  <2> QED BY <2>1
<1> HIDE DEF G
<1>6. PICK f : Recurs(f, X, <<>>, n, G) BY Zenon, <1>1, <1>3, <1>4, RecursionExists
<1>7. ASSUME NEW i \in 1 .. n PROVE f[i] = CodeStep(J, f[i - 1], v[i])
  <2>1. i - 1 \in 0 .. n BY <1>1
  <2>2. f[i - 1] \in X BY <1>6, <2>1 DEF Recurs
  <2> QED BY <1>5, <1>6, <2>2 DEF Recurs
<1> QED BY <1>6, <1>7 DEF Recurs, Codes, X, n

\* Its characters are those of the value and reserved ones.
LEMMA CodesType ==
    ASSUME NEW S, Reserved \subseteq S, NEW J \in SUBSET JsonCharacters, NEW v \in Seq(S),
           NEW e, Codes(e, J, v), NEW m \in 0 .. Len(v)
    PROVE  e[m] \in Seq(S)
<1> DEFINE T == {i \in Nat : i <= Len(v) => e[i] \in Seq(S)}
<1>1. 0 \in T
  <2>1. e[0] = <<>> /\ <<>> \in Seq(S) BY DEF Codes
  <2>2. e[0] \in Seq(S) BY Zenon, <2>1
  <2> QED BY <2>2
<1>2. ASSUME NEW i \in Nat, i \in T PROVE i + 1 \in T
  <2> SUFFICES ASSUME i + 1 <= Len(v) PROVE e[i + 1] \in Seq(S) OBVIOUS
  <2>0. Len(v) \in Nat OBVIOUS
  <2>1. e[i] \in Seq(S) BY <1>2, <2>0
  <2>2. i + 1 \in 1 .. Len(v) /\ (i + 1) - 1 = i BY <2>0
  <2>3. e[i + 1] = CodeStep(J, e[i], v[i + 1]) BY <2>2 DEF Codes
  <2>4. v[i + 1] \in S BY <2>2, ElementOfSeq
  <2> QED BY <2>1, <2>3, <2>4, CodeStepType
<1> HIDE DEF T
<1>3. m \in T BY <1>1, <1>2, SetInduction
<1> QED BY <1>3 DEF T

\* Where a partly translated value ends with a space and a tag character, the value
\* has the tag character there, after a space or a JSON character.
LEMMA CodesEnd ==
    ASSUME NEW S, Reserved \subseteq S, NEW J \in SUBSET JsonCharacters, NEW v \in Seq(S),
           NEW f, Codes(f, J, v), NEW m \in 0 .. Len(v), NEW t, t # Space,
           Len(f[m]) >= 2, f[m][Len(f[m])] = t, f[m][Len(f[m]) - 1] = Space
    PROVE  m >= 2 /\ v[m] = t /\ v[m - 1] \in JsonCharacters \cup {Space}
<1>1. Len(v) \in Nat OBVIOUS
<1>2. f[0] = <<>> /\ Len(<<>>) = 0 BY DEF Codes
<1>3. m # 0
  <2>1. CASE m = 0
    <3>1. Len(f[m]) = 0 BY Zenon, <1>2, <2>1
    <3> QED BY <3>1
  <2> QED BY <2>1
<1>4. ASSUME NEW i \in 1 .. Len(v)
      PROVE  /\ v[i] \in S /\ f[i - 1] \in Seq(S) /\ f[i] = CodeStep(J, f[i - 1], v[i])
             /\ f[i][Len(f[i])] = IF v[i] \in J THEN Space ELSE v[i]
  <2>1. i - 1 \in 0 .. Len(v) BY <1>1
  <2>2. v[i] \in S BY ElementOfSeq
  <2>3. f[i - 1] \in Seq(S) BY <2>1, CodesType
  <2>4. f[i] = CodeStep(J, f[i - 1], v[i]) BY DEF Codes
  <2> QED BY <2>2, <2>3, <2>4, CodeStepType
<1>5. m \in 1 .. Len(v) BY <1>1, <1>3
<1>6. v[m] \notin J /\ v[m] = t BY <1>4, <1>5
<1> DEFINE o == f[m - 1]
<1>7. o \in Seq(S) /\ f[m] = Append(o, t) /\ t \in S BY <1>4, <1>5, <1>6 DEF CodeStep
<1>8. Len(o) >= 1 /\ o[Len(o)] = Space
  <2> DEFINE p == Append(o, t)
  <2> HIDE DEF o
  <2>1. Len(p) = Len(o) + 1 /\ Len(o) \in Nat /\ \A i \in 1 .. Len(o) : p[i] = o[i]
    BY <1>7, AppendProperties
  <2>2. p = f[m] BY <1>7
  <2> HIDE DEF p
  <2>3. Len(p) >= 2 /\ p[Len(p) - 1] = Space BY <2>2
  <2>4. Len(p) - 1 = Len(o) /\ Len(o) \in 1 .. Len(o) BY <2>1, <2>3
  <2> QED BY <2>1, <2>3, <2>4
<1>9. m - 1 # 0
  <2>1. CASE m - 1 = 0
    <3>1. Len(o) = 0 BY Zenon, <1>2, <2>1
    <3> QED BY <1>8, <3>1
  <2> QED BY <2>1
<1>10. m - 1 \in 1 .. Len(v) BY <1>1, <1>5, <1>9
<1>11. v[m - 1] \in J \/ v[m - 1] = Space BY <1>4, <1>8, <1>10
<1> QED BY <1>5, <1>6, <1>10, <1>11

\* One pass of the decoding translates one JSON character back, and nothing else.
LEMMA PassDecodes ==
    ASSUME NEW S, Reserved \subseteq S, NEW v \in Seq(S), Unambiguous(v),
           NEW J \in SUBSET JsonCharacters, NEW k \in 1 .. 6,
           NEW K, K = J \ {Translation[k][1]},
           NEW e, Codes(e, J, v), NEW f, Codes(f, K, v)
    PROVE  ReplaceTag(e[Len(v)], Translation[k][1], Translation[k][2]) = f[Len(v)]
<1> DEFINE x == Translation[k][1]
           t == Translation[k][2]
           q == Pattern(t)
           R(s) == ReplaceTag(s, x, t)
           T == {m \in Nat : m <= Len(v) => R(e[m]) = f[m]}
<1>1. /\ x \in JsonCharacters /\ t \in TagCharacters /\ t # Space /\ x \in S /\ t \in S /\ Space \in S
      /\ \A a \in JsonCharacters : /\ TagCharacter(a) \in TagCharacters /\ TagCharacter(a) # Space
                                   /\ TagCharacter(a) \in S
                                   /\ TagCharacter(a) = t <=> a = x
  BY TranslationFacts DEF Reserved
<1>2. K \in SUBSET JsonCharacters /\ Codes(f, K, v) /\ K = J \ {x} OBVIOUS
<1> HIDE DEF x, t
<1>3. q \in Seq(S) /\ Len(q) = 3 /\ q[1] = Space /\ q[2] = t /\ q[3] = Space BY <1>1, PatternType
<1>4. \A s \in Seq(S), a \in S : R(Append(s, a)) = Feed(R(s), a, x, q) BY <1>1, ReplaceTagAppend
<1> HIDE DEF q
<1>5. Len(v) \in Nat OBVIOUS
<1>6. 0 \in T
  <2>1. e[0] = <<>> /\ f[0] = <<>> BY DEF Codes
  <2>2. R(<<>>) = <<>> BY <1>1, ReplaceTagEmpty
  <2>3. R(e[0]) = f[0] BY Zenon, <2>1, <2>2
  <2> HIDE DEF R
  <2> QED BY <2>3
<1> HIDE DEF R
<1>7. ASSUME NEW m \in Nat, m \in T PROVE m + 1 \in T
  <2> SUFFICES ASSUME m + 1 <= Len(v) PROVE R(e[m + 1]) = f[m + 1] OBVIOUS
  <2> DEFINE a == v[m + 1]
             o == f[m]
  <2>1. /\ m \in 0 .. Len(v) /\ m + 1 \in 1 .. Len(v) /\ (m + 1) - 1 = m
    BY <1>5
  <2>2. R(e[m]) = o BY <1>5, <1>7
  <2>3. a \in S BY <2>1, ElementOfSeq
  <2>4. e[m] \in Seq(S) BY <2>1, CodesType
  <2>5. o \in Seq(S) BY <1>2, <2>1, CodesType
  <2>6. e[m + 1] = CodeStep(J, e[m], a) BY <2>1 DEF Codes
  <2>7. f[m + 1] = CodeStep(K, o, a) BY <1>2, <2>1 DEF Codes
  <2>8. ASSUME a \in JsonCharacters \cup {Space}
        PROVE  ~(Len(o) >= 2 /\ o[Len(o)] = t /\ o[Len(o) - 1] = Space)
    <3> SUFFICES ASSUME Len(o) >= 2, o[Len(o)] = t, o[Len(o) - 1] = Space PROVE FALSE OBVIOUS
    <3>1. m >= 2 /\ v[m] = t /\ v[m - 1] \in JsonCharacters \cup {Space}
      <4>1. t # Space /\ m \in 0 .. Len(v) BY <1>1, <2>1
      <4>2. /\ Len(f[m]) >= 2 /\ f[m][Len(f[m])] = t /\ f[m][Len(f[m]) - 1] = Space OBVIOUS
      <4> QED BY ZenonT(30), <1>2, <4>1, <4>2, CodesEnd
    <3>2. m \in 2 .. Len(v) - 1 BY <1>5, <2>1, <3>1
    <3>3. v[m] \in TagCharacters BY <1>1, <3>1
    <3>4. {v[m - 1], v[m + 1]} \subseteq JsonCharacters \cup {Space} BY <2>8, <3>1
    <3>5. \A i \in 2 .. Len(v) - 1 : v[i] \in TagCharacters
              => ~({v[i - 1], v[i + 1]} \subseteq JsonCharacters \cup {Space})
      BY Zenon DEF Unambiguous, Space
    <3> QED BY <3>2, <3>3, <3>4, <3>5
  <2> HIDE DEF a, o
  <2>9. CASE a \notin J
    <3>1. e[m + 1] = Append(e[m], a) BY <2>6, <2>9 DEF CodeStep
    <3>2. f[m + 1] = Append(o, a) BY <1>2, <2>7, <2>9 DEF CodeStep
    <3>3. R(e[m + 1]) = Feed(o, a, x, q) BY <1>4, <2>2, <2>3, <2>4, <3>1
    <3>4. ~(a = q[3] /\ Len(o) >= 2 /\ o[Len(o)] = q[2] /\ o[Len(o) - 1] = q[1])
      BY <1>3, <2>8
    <3>5. Feed(o, a, x, q) = Append(o, a) BY <2>3, <2>5, <3>4, FeedKeeps
    <3> QED BY <3>2, <3>3, <3>5
  <2>10. CASE a \in J
    <3> DEFINE u == TagCharacter(a)
               p == Pattern(u)
               e1 == Append(e[m], Space)
               e2 == Append(e1, u)
               o1 == Append(o, Space)
               o2 == Append(o1, u)
    <3>1. u \in S /\ u # Space /\ (u = t <=> a = x) BY <1>1, <2>10
    <3> HIDE DEF u
    <3>2. p[1] = Space /\ p[2] = u /\ p[3] = Space BY <3>1, PatternType
    <3>3. e[m + 1] = Append(e2, Space) BY <2>6, <2>10, <3>2 DEF CodeStep, AppendAll, u
    <3> HIDE DEF p
    <3>4. e1 \in Seq(S) BY <1>1, <2>4, AppendProperties
    <3>5. e2 \in Seq(S) BY <3>1, <3>4, AppendProperties
    <3>6. o1 \in Seq(S) BY <1>1, <2>5, AppendProperties
    <3>7. o2 \in Seq(S) /\ Len(o2) = Len(o1) + 1 /\ o2[Len(o1) + 1] = u BY <3>1, <3>6, AppendProperties
    <3>8. R(e1) = o1
      <4>1. R(e1) = Feed(o, Space, x, q) BY <1>1, <1>4, <2>2, <2>4
      <4>2. ~(Space = q[3] /\ Len(o) >= 2 /\ o[Len(o)] = q[2] /\ o[Len(o) - 1] = q[1])
        BY <1>3, <2>8, <2>10
      <4> QED BY <1>1, <2>5, <4>1, <4>2, FeedKeeps
    <3> HIDE DEF e1, o1
    <3>9. R(e2) = o2
      <4>1. R(e2) = Feed(o1, u, x, q) BY <1>4, <3>1, <3>4, <3>8
      <4>2. u # q[3] BY <1>3, <3>1
      <4> QED BY <3>1, <3>6, <4>1, <4>2, FeedKeeps
    <3> HIDE DEF e2, o2
    <3>10. R(e[m + 1]) = Feed(o2, Space, x, q) BY <1>1, <1>4, <3>3, <3>5, <3>9
    <3>11. CASE a = x
      <4>1. f[m + 1] = Append(o, x) BY <1>2, <2>7, <3>11 DEF CodeStep
      <4>2. o2 = Append(Append(o, q[1]), q[2]) BY <1>3, <3>1, <3>11 DEF o2, o1
      <4>3. Feed(o2, q[3], x, q) = Append(o, x) BY <1>1, <1>3, <2>5, <4>2, FeedReplaces
      <4> QED BY <1>3, <3>10, <4>1, <4>3
    <3>12. CASE a # x
      <4>1. f[m + 1] = Append(o2, Space)
        BY <1>2, <2>7, <2>10, <3>2, <3>12 DEF CodeStep, AppendAll, o2, o1, u, p
      <4>2. o2[Len(o2)] # q[2] BY <1>3, <3>1, <3>7, <3>12
      <4>3. Feed(o2, Space, x, q) = Append(o2, Space) BY <1>1, <3>7, <4>2, FeedKeeps
      <4> QED BY <3>10, <4>1, <4>3
    <3> QED BY <3>11, <3>12
  <2> QED BY <2>9, <2>10
<1> HIDE DEF T
<1>8. Len(v) \in T BY <1>5, <1>6, <1>7, SetInduction
<1>9. R(e[Len(v)]) = f[Len(v)] BY <1>5, <1>8 DEF T
<1> QED BY <1>9 DEF R, x, t

\* With nothing left to translate, it is the value.
LEMMA CodesNothing ==
    ASSUME NEW S, Reserved \subseteq S, NEW v \in Seq(S), NEW e, Codes(e, {}, v)
    PROVE  e[Len(v)] = v
<1> DEFINE T == {m \in Nat : m <= Len(v) => /\ e[m] \in Seq(S) /\ Len(e[m]) = m
                                            /\ \A i \in 1 .. m : e[m][i] = v[i]}
<1>1. Len(v) \in Nat OBVIOUS
<1>2. 0 \in T
  <2>1. e[0] = <<>> /\ <<>> \in Seq(S) /\ Len(<<>>) = 0 BY DEF Codes
  <2>2. e[0] \in Seq(S) /\ Len(e[0]) = 0 BY Zenon, <2>1
  <2> QED BY <2>2
<1>3. ASSUME NEW m \in Nat, m \in T PROVE m + 1 \in T
  <2> SUFFICES ASSUME m + 1 <= Len(v)
               PROVE  /\ e[m + 1] \in Seq(S) /\ Len(e[m + 1]) = m + 1
                      /\ \A i \in 1 .. m + 1 : e[m + 1][i] = v[i]
    OBVIOUS
  <2> DEFINE o == e[m]
             a == v[m + 1]
             p == Append(o, a)
  <2>1. m + 1 \in 1 .. Len(v) /\ (m + 1) - 1 = m BY <1>1
  <2>2. o \in Seq(S) /\ Len(o) = m /\ \A i \in 1 .. m : o[i] = v[i] BY <1>1, <1>3
  <2>3. a \in S BY <2>1, ElementOfSeq
  <2>4. e[m + 1] = p BY <2>1 DEF Codes, CodeStep
  <2> HIDE DEF o, a
  <2>5. /\ p \in Seq(S) /\ Len(p) = Len(o) + 1 /\ p[Len(o) + 1] = a
        /\ \A i \in 1 .. Len(o) : p[i] = o[i]
    BY <2>2, <2>3, AppendProperties
  <2> HIDE DEF p
  <2>6. Len(p) = m + 1 /\ p[m + 1] = a /\ \A i \in 1 .. m : p[i] = v[i] BY <2>2, <2>5
  <2>7. \A i \in 1 .. m + 1 : p[i] = v[i] BY <2>6 DEF a
  <2> QED BY <2>4, <2>5, <2>6, <2>7
<1> HIDE DEF T
<1>4. Len(v) \in T BY <1>1, <1>2, <1>3, SetInduction
<1>5. /\ e[Len(v)] \in Seq(S) /\ Len(e[Len(v)]) = Len(v)
      /\ \A i \in 1 .. Len(v) : e[Len(v)][i] = v[i]
  BY <1>1, <1>4 DEF T
<1> QED BY <1>5, SeqEqual

\* The decoding is six passes, one after the other.
LEMMA DecodeUnrolls ==
    ASSUME NEW d, \A k \in 1 .. 6 :
               d[k] = ReplaceTag(d[k - 1], Translation[k][1], Translation[k][2])
    PROVE  DecodeDeletionTag(d[0]) = d[6]
<1> DEFINE Step(f, i) == IF i = 0 THEN d[0]
                         ELSE ReplaceTag(f[i - 1], Translation[i][1], Translation[i][2])
           decoded == CHOOSE f : f = [i \in 0 .. Len(Translation) |-> Step(f, i)]
           g == [i \in 0 .. 6 |-> d[i]]
<1>1. DecodeDeletionTag(d[0]) = decoded[Len(Translation)] BY DEF DecodeDeletionTag
<1>2. Len(Translation) = 6 BY Zenon, TranslationParts
<1>3. \A f : Step(f, 0) = d[0] OBVIOUS
<1>4. ASSUME NEW f, NEW i \in 1 .. 6, f[i - 1] = d[i - 1] PROVE Step(f, i) = d[i]
  <2>1. i # 0 OBVIOUS
  <2>2. ReplaceTag(f[i - 1], Translation[i][1], Translation[i][2]) = d[i] BY Zenon, <1>4
  <2> QED BY Zenon, <2>1, <2>2
<1> HIDE DEF Step
<1>5. g = [i \in 0 .. 6 |-> Step(g, i)]
  <2>1. \A i \in 0 .. 6 : g[i] = d[i] OBVIOUS
  <2>2. g = [i \in 0 .. 6 |-> g[i]] OBVIOUS
  <2> HIDE DEF g
  <2>3. \A i \in 1 .. 6 : i - 1 \in 0 .. 6 OBVIOUS
  <2>4. \A i \in 1 .. 6 : Step(g, i) = d[i] BY <1>4, <2>1, <2>3
  <2>5. \A i \in 0 .. 6 : g[i] = Step(g, i) BY <1>3, <2>1, <2>4
  <2> QED BY <2>2, <2>5
<1> HIDE DEF g
<1>6. decoded = [i \in 0 .. 6 |-> Step(decoded, i)] BY <1>2, <1>5
<1> HIDE DEF decoded
<1>7. \A i \in 0 .. 6 : decoded[i] = Step(decoded, i) BY <1>6
<1>8. decoded[0] = d[0] BY <1>3, <1>7
<1>9. decoded[1] = d[1] BY <1>4, <1>7, <1>8
<1>10. decoded[2] = d[2] BY <1>4, <1>7, <1>9
<1>11. decoded[3] = d[3] BY <1>4, <1>7, <1>10
<1>12. decoded[4] = d[4] BY <1>4, <1>7, <1>11
<1>13. decoded[5] = d[5] BY <1>4, <1>7, <1>12
<1>14. decoded[6] = d[6] BY <1>4, <1>7, <1>13
<1> QED BY <1>1, <1>2, <1>14

\* What is translated, wholly or not at all, is decoded to the value.
LEMMA DecodeOfCodes ==
    ASSUME NEW S, Reserved \subseteq S, NEW v \in Seq(S), Unambiguous(v),
           NEW J \in SUBSET JsonCharacters, NEW e, Codes(e, J, v)
    PROVE  DecodeDeletionTag(e[Len(v)]) = v
<1> DEFINE Left(k) == J \ {Translation[i][1] : i \in 1 .. k}
           c(k) == IF k = 0 THEN e ELSE CHOOSE f : Codes(f, Left(k), v)
           d == [k \in 0 .. 6 |-> c(k)[Len(v)]]
<1>1. Left(0) = J OBVIOUS
<1>2. Left(6) = {}
  <2>1. DOMAIN Translation = 1 .. 6 BY Zenon, TranslationParts
  <2> QED BY <2>1 DEF JsonCharacters
<1>3. \A k \in 1 .. 6 : Left(k) = Left(k - 1) \ {Translation[k][1]}
  <2> TAKE k \in 1 .. 6
  <2>1. 1 .. k = (1 .. k - 1) \cup {k} OBVIOUS
  <2> QED BY <2>1
<1>4. \A k \in 0 .. 6 : Left(k) \in SUBSET JsonCharacters OBVIOUS
<1> HIDE DEF Left
<1>5. ASSUME NEW k \in 0 .. 6 PROVE Codes(c(k), Left(k), v)
  <2>1. CASE k = 0 BY <1>1, <2>1
  <2>2. CASE k # 0
    <3>1. \E f : Codes(f, Left(k), v) BY <1>4, CodesExist
    <3> QED BY <2>2, <3>1
  <2> QED BY <2>1, <2>2
<1>6. c(0) = e OBVIOUS
<1> HIDE DEF c
<1>7. ASSUME NEW k \in 1 .. 6
      PROVE  d[k] = ReplaceTag(d[k - 1], Translation[k][1], Translation[k][2])
  <2>1. k \in 0 .. 6 /\ k - 1 \in 0 .. 6 OBVIOUS
  <2>2. Codes(c(k - 1), Left(k - 1), v) /\ Left(k - 1) \in SUBSET JsonCharacters BY <1>4, <1>5, <2>1
  <2>3. Codes(c(k), Left(k), v) BY <1>5, <2>1
  <2>4. Left(k) = Left(k - 1) \ {Translation[k][1]} BY <1>3
  <2>5. ReplaceTag(c(k - 1)[Len(v)], Translation[k][1], Translation[k][2]) = c(k)[Len(v)]
    BY <2>2, <2>3, <2>4, PassDecodes
  <2> QED BY <2>1, <2>5
<1>8. d[0] = e[Len(v)] BY <1>6
<1>9. d[6] = v
  <2>1. Codes(c(6), {}, v) BY <1>2, <1>5
  <2>2. c(6)[Len(v)] = v BY <2>1, CodesNothing
  <2> QED BY <2>2
<1> HIDE DEF d
<1>10. DecodeDeletionTag(d[0]) = d[6] BY <1>7, DecodeUnrolls
<1> QED BY <1>8, <1>9, <1>10

\* Three characters appended one by one are a concatenation.
LEMMA AppendAllIsConcat ==
    ASSUME NEW S, NEW o \in Seq(S), NEW q \in Seq(S), Len(q) = 3
    PROVE  AppendAll(o, q) = o \o q
<1> DEFINE p1 == Append(o, q[1])
           p2 == Append(p1, q[2])
           p == Append(p2, q[3])
           c == o \o q
<1>1. q[1] \in S /\ q[2] \in S /\ q[3] \in S
  <2>1. \A i \in 1 .. Len(q) : q[i] \in S BY ElementOfSeq
  <2>2. 1 \in 1 .. Len(q) /\ 2 \in 1 .. Len(q) /\ 3 \in 1 .. Len(q) OBVIOUS
  <2> QED BY <2>1, <2>2
<1>2. AppendAll(o, q) = p BY DEF AppendAll
<1>3. /\ p1 \in Seq(S) /\ Len(p1) = Len(o) + 1 /\ p1[Len(o) + 1] = q[1]
      /\ \A i \in 1 .. Len(o) : p1[i] = o[i]
  BY <1>1, AppendProperties
<1> HIDE DEF p1
<1>4. /\ p2 \in Seq(S) /\ Len(p2) = Len(p1) + 1 /\ p2[Len(p1) + 1] = q[2]
      /\ \A i \in 1 .. Len(p1) : p2[i] = p1[i]
  BY <1>1, <1>3, AppendProperties
<1> HIDE DEF p2
<1>5. /\ p \in Seq(S) /\ Len(p) = Len(p2) + 1 /\ p[Len(p2) + 1] = q[3]
      /\ \A i \in 1 .. Len(p2) : p[i] = p2[i]
  BY <1>1, <1>4, AppendProperties
<1> HIDE DEF p
<1>6. /\ c \in Seq(S) /\ Len(c) = Len(o) + Len(q)
      /\ \A i \in 1 .. Len(o) + Len(q) : c[i] = IF i <= Len(o) THEN o[i] ELSE q[i - Len(o)]
  BY ConcatProperties
<1> HIDE DEF c
<1>7. Len(o) \in Nat /\ Len(p1) = Len(o) + 1 /\ Len(p2) = Len(o) + 2 /\ Len(p) = Len(o) + 3
      /\ Len(c) = Len(o) + 3
  <2>1. Len(o) \in Nat BY LenProperties
  <2> QED BY <1>3, <1>4, <1>5, <1>6, <2>1
<1>8. ASSUME NEW i \in 1 .. Len(p) PROVE p[i] = c[i]
  <2>1. i \in 1 .. Len(o) + 3 /\ i \in 1 .. Len(o) + Len(q) BY <1>7
  <2>2. CASE i <= Len(o)
    <3>1. i \in 1 .. Len(o) /\ i \in 1 .. Len(p1) /\ i \in 1 .. Len(p2) BY <1>7, <2>2
    <3> QED BY <1>3, <1>4, <1>5, <1>6, <2>1, <2>2, <3>1
  <2>3. CASE i = Len(o) + 1
    <3>1. i \in 1 .. Len(p1) /\ i \in 1 .. Len(p2) /\ i - Len(o) = 1 /\ ~(i <= Len(o)) BY <1>7, <2>3
    <3> QED BY <1>3, <1>4, <1>5, <1>6, <2>1, <2>3, <3>1
  <2>4. CASE i = Len(o) + 2
    <3>1. i = Len(p1) + 1 /\ i \in 1 .. Len(p2) /\ i - Len(o) = 2 /\ ~(i <= Len(o)) BY <1>7, <2>4
    <3> QED BY <1>4, <1>5, <1>6, <2>1, <3>1
  <2>5. CASE i = Len(o) + 3
    <3>1. i = Len(p2) + 1 /\ i - Len(o) = 3 /\ ~(i <= Len(o)) BY <1>7, <2>5
    <3> QED BY <1>5, <1>6, <2>1, <3>1
  <2>6. i <= Len(o) \/ i = Len(o) + 1 \/ i = Len(o) + 2 \/ i = Len(o) + 3 BY <1>7, <2>1
  <2> QED BY <2>2, <2>3, <2>4, <2>5, <2>6
<1>9. p = c BY <1>5, <1>6, <1>7, <1>8, SeqEqual
<1> QED BY <1>2, <1>9 DEF c

\* The encoding translates every JSON character.
LEMMA EncodeCodes ==
    ASSUME NEW S, Reserved \subseteq S, NEW v \in Seq(S), NEW e, Codes(e, JsonCharacters, v)
    PROVE  EncodeDeletionTag(v) = e[Len(v)]
<1> DEFINE Part(a) == IF a \in JsonCharacters THEN Pattern(TagCharacter(a)) ELSE <<a>>
           seqs == [i \in DOMAIN v |-> Part(v[i])]
           n == Len(v)
           Step(f, i) == IF i = 1 THEN seqs[i] ELSE f[i - 1] \o seqs[i]
           flatten == CHOOSE f : f = [i \in 1 .. Len(seqs) |-> Step(f, i)]
<1>1. EncodeDeletionTag(v) = FlattenSeq(seqs) BY DEF EncodeDeletionTag, Pattern
<1>2. FlattenSeq(seqs) = IF Len(seqs) = 0 THEN seqs ELSE flatten[Len(seqs)] BY DEF FlattenSeq
<1>3. n \in Nat /\ DOMAIN v = 1 .. n /\ \A i \in 1 .. n : v[i] \in S OBVIOUS
<1>4. ASSUME NEW a \in S
      PROVE  /\ Part(a) \in Seq(S)
             /\ \A o \in Seq(S) : CodeStep(JsonCharacters, o, a) = o \o Part(a)
  <2>1. CASE a \notin JsonCharacters
    <3>1. Part(a) = <<a>> BY <2>1
    <3>2. <<a>> \in Seq(S) OBVIOUS
    <3>3. ASSUME NEW o \in Seq(S) PROVE CodeStep(JsonCharacters, o, a) = o \o <<a>>
      <4>1. Append(o, a) = o \o <<a>> BY AppendIsConcat
      <4> QED BY <2>1, <4>1 DEF CodeStep
    <3> HIDE DEF Part
    <3> QED BY <3>1, <3>2, <3>3
  <2>2. CASE a \in JsonCharacters
    <3> DEFINE q == Pattern(TagCharacter(a))
    <3>1. TagCharacter(a) \in S
      <4>1. 1 \in 1 .. 6 OBVIOUS
      <4> QED BY <2>2, <4>1, TranslationFacts DEF Reserved
    <3>2. q \in Seq(S) /\ Len(q) = 3 BY <3>1, PatternType
    <3>3. Part(a) = q BY <2>2
    <3> HIDE DEF q, Part
    <3>4. ASSUME NEW o \in Seq(S) PROVE AppendAll(o, q) = o \o q BY <3>2, AppendAllIsConcat
    <3>5. \A o \in Seq(S) : CodeStep(JsonCharacters, o, a) = AppendAll(o, q) BY <2>2 DEF CodeStep, q
    <3> QED BY <3>2, <3>3, <3>4, <3>5
  <2> QED BY <2>1, <2>2
<1> HIDE DEF Part
<1>5. seqs \in Seq(Seq(S)) /\ Len(seqs) = n /\ \A i \in 1 .. n : seqs[i] = Part(v[i])
  <2>1. seqs = [i \in 1 .. n |-> Part(v[i])] BY <1>3
  <2>2. \A i \in 1 .. n : Part(v[i]) \in Seq(S) BY <1>3, <1>4
  <2> HIDE DEF seqs
  <2>3. seqs \in [1 .. n -> Seq(S)] BY <2>1, <2>2
  <2> QED BY <1>3, <2>1, <2>3
<1> HIDE DEF seqs
<1>6. ASSUME NEW i \in 1 .. n PROVE e[i] = e[i - 1] \o seqs[i] /\ e[i - 1] \in Seq(S)
  <2>1. i - 1 \in 0 .. Len(v) BY <1>3
  <2>2. e[i - 1] \in Seq(S) BY <2>1, CodesType
  <2>3. e[i] = CodeStep(JsonCharacters, e[i - 1], v[i]) BY DEF Codes
  <2>4. v[i] \in S /\ seqs[i] = Part(v[i]) BY <1>3, <1>5
  <2>5. CodeStep(JsonCharacters, e[i - 1], v[i]) = e[i - 1] \o Part(v[i]) BY <1>4, <2>2, <2>4
  <2> QED BY Zenon, <2>2, <2>3, <2>4, <2>5
<1>7. e[0] = <<>> BY DEF Codes
<1>8. CASE n = 0
  <2>1. seqs = <<>> BY <1>5, <1>8, EmptySeq
  <2>2. FlattenSeq(seqs) = seqs BY <1>2, <1>5, <1>8
  <2> QED BY Zenon, <1>1, <1>7, <1>8, <2>1, <2>2
<1>9. CASE n # 0
  <2>1. \A f : Step(f, 1) = seqs[1] OBVIOUS
  <2>2. e[1] = seqs[1]
    <3>1. 1 \in 1 .. n /\ 1 - 1 = 0 BY <1>3, <1>9
    <3>2. e[1] = <<>> \o seqs[1] BY Zenon, <1>6, <1>7, <3>1
    <3>3. seqs[1] \in Seq(S) BY <1>5, <3>1
    <3>4. <<>> \o seqs[1] = seqs[1] BY <3>3, ConcatEmptySeq
    <3> QED BY Zenon, <3>2, <3>4
  <2>3. ASSUME NEW f, NEW i \in 2 .. n, f[i - 1] = e[i - 1] PROVE Step(f, i) = e[i]
    <3>1. i # 1 /\ i \in 1 .. n BY <1>3
    <3> QED BY <1>6, <2>3, <3>1
  <2> DEFINE g == [i \in 1 .. n |-> e[i]]
  <2> HIDE DEF Step
  <2>4. g = [i \in 1 .. n |-> Step(g, i)]
    <3>1. \A i \in 1 .. n : g[i] = e[i] OBVIOUS
    <3>2. g = [i \in 1 .. n |-> g[i]] OBVIOUS
    <3> HIDE DEF g
    <3>3. \A i \in 2 .. n : i - 1 \in 1 .. n BY <1>3
    <3>4. \A i \in 2 .. n : Step(g, i) = e[i] BY <2>3, <3>1, <3>3
    <3>5. \A i \in 1 .. n : i = 1 \/ i \in 2 .. n BY <1>3
    <3>6. \A i \in 1 .. n : g[i] = Step(g, i) BY <2>1, <2>2, <3>1, <3>4, <3>5
    <3> QED BY <3>2, <3>6
  <2> HIDE DEF g
  <2>5. flatten = [i \in 1 .. n |-> Step(flatten, i)] BY <1>5, <2>4
  <2> HIDE DEF flatten
  <2>6. \A i \in 1 .. n : flatten[i] = Step(flatten, i) BY <2>5
  <2> DEFINE T == {m \in Nat : m + 1 <= n => flatten[m + 1] = e[m + 1]}
  <2>7. 0 \in T
    <3>1. 1 \in 1 .. n /\ 0 + 1 = 1 BY <1>3, <1>9
    <3> QED BY <2>1, <2>2, <2>6, <3>1
  <2>8. ASSUME NEW m \in Nat, m \in T PROVE m + 1 \in T
    <3> SUFFICES ASSUME (m + 1) + 1 <= n PROVE flatten[(m + 1) + 1] = e[(m + 1) + 1] OBVIOUS
    <3> DEFINE i == (m + 1) + 1
    <3>1. i \in 2 .. n /\ i \in 1 .. n /\ i - 1 = m + 1 /\ m + 1 <= n BY <1>3
    <3>2. flatten[m + 1] = e[m + 1] BY <2>8, <3>1
    <3> HIDE DEF i
    <3>3. flatten[i] = e[i] BY <2>3, <2>6, <3>1, <3>2
    <3> QED BY <3>3 DEF i
  <2> HIDE DEF T
  <2>9. n - 1 \in T /\ n - 1 \in Nat /\ (n - 1) + 1 = n BY <1>3, <1>9, <2>7, <2>8, SetInduction
  <2>10. flatten[n] = e[n] BY <1>3, <2>9 DEF T
  <2> QED BY <1>1, <1>2, <1>5, <1>9, <2>10
<1> QED BY <1>8, <1>9

-----------------------------------------------------------------------------
(* The round trip.                                                         *)

\* What the controller writes into a deletion tag, encoded or as it is, is read
\* back as it was given, for every value that can be read in one way only.
THEOREM TagRoundTrip ==
    ASSUME NEW A, NEW value \in Seq(A), Unambiguous(value)
    PROVE  /\ DecodeDeletionTag(EncodeDeletionTag(value)) = value
           /\ DecodeDeletionTag(value) = value
<1> DEFINE S == A \cup Reserved
<1>1. value \in Seq(S) /\ Reserved \subseteq S OBVIOUS
<1> HIDE DEF S
<1>2. DecodeDeletionTag(EncodeDeletionTag(value)) = value
  <2>1. PICK e : Codes(e, JsonCharacters, value) BY <1>1, CodesExist
  <2>2. EncodeDeletionTag(value) = e[Len(value)] BY <1>1, <2>1, EncodeCodes
  <2>3. DecodeDeletionTag(e[Len(value)]) = value BY <1>1, <2>1, DecodeOfCodes
  <2> QED BY Zenon, <2>2, <2>3
<1>3. DecodeDeletionTag(value) = value
  <2>1. {} \in SUBSET JsonCharacters OBVIOUS
  <2>2. PICK e : Codes(e, {}, value) BY <1>1, <2>1, CodesExist
  <2>3. e[Len(value)] = value BY <1>1, <2>2, CodesNothing
  <2>4. DecodeDeletionTag(e[Len(value)]) = value BY <1>1, <2>1, <2>2, DecodeOfCodes
  <2> QED BY Zenon, <2>3, <2>4
<1> QED BY <1>2, <1>3

=============================================================================
