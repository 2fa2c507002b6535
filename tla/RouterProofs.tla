----------------------------- MODULE RouterProofs -----------------------------
(***************************************************************************)
(* Proofs about Router, for every catalog, every chain of candidates and   *)
(* any number of queries that fail.                                        *)
(*                                                                         *)
(* dedupe is a fold; what it computes is proved by a minimal               *)
(* counterexample: a least set of places of the list for which the         *)
(* function behind the fold does not do what it should.                    *)
(***************************************************************************)
EXTENDS Router, SequenceTheorems, FiniteSetTheorems, WellFoundedInduction, TLAPS

----------------------------------------------------------------------------
(* Sequences and what is in them *)

LEMMA AppendedIs ==
  ASSUME NEW S, NEW s \in Seq(S), NEW x \in S
  PROVE  /\ Append(s, x) \in Seq(S) /\ ToSet(Append(s, x)) = ToSet(s) \union {x}
         /\ IsInjective(s) /\ x \notin ToSet(s) => IsInjective(Append(s, x))
<1> DEFINE n == Len(s)
           a == Append(s, x)
<1>1. /\ n \in Nat /\ DOMAIN s = 1..n /\ a \in Seq(S) /\ DOMAIN a = 1..(n + 1)
      /\ a[n + 1] = x /\ \A i \in 1..n : a[i] = s[i]
  OBVIOUS
<1> HIDE DEF n, a
<1>2. \A i \in DOMAIN a : i = n + 1 \/ i \in DOMAIN s
  BY <1>1
<1>3. n + 1 \in DOMAIN a /\ \A i \in DOMAIN s : i \in DOMAIN a
  BY <1>1
<1>4. ToSet(a) = ToSet(s) \union {x}
  BY <1>1, <1>2, <1>3 DEF ToSet
<1>5. ASSUME IsInjective(s), x \notin ToSet(s) PROVE IsInjective(a)
  <2>1. \A i \in DOMAIN s : s[i] # x
    BY <1>5 DEF ToSet
  <2>2. QED
    BY <1>1, <1>2, <1>5, <2>1 DEF IsInjective
<1>6. QED
  BY <1>1, <1>4, <1>5 DEF a

LEMMA TailIs ==
  ASSUME NEW S, NEW s \in Seq(S), s # <<>>
  PROVE  /\ Head(s) \in S /\ Tail(s) \in Seq(S) /\ Head(s) \in ToSet(s)
         /\ ToSet(s) = {Head(s)} \union ToSet(Tail(s))
         /\ Len(s) \in Nat /\ Len(Tail(s)) = Len(s) - 1
         /\ Head(s) = s[1] /\ DOMAIN Tail(s) = 1..(Len(s) - 1)
         /\ \A i \in 1..(Len(s) - 1) : Tail(s)[i] = s[i + 1]
         /\ IsInjective(s) => IsInjective(Tail(s)) /\ Head(s) \notin ToSet(Tail(s))
<1> DEFINE n == Len(s)
           t == Tail(s)
           h == Head(s)
<1>1. /\ n \in Nat /\ n >= 1 /\ DOMAIN s = 1..n /\ t \in Seq(S) /\ DOMAIN t = 1..(n - 1)
      /\ Len(t) = n - 1 /\ h = s[1] /\ h \in S /\ \A i \in 1..(n - 1) : t[i] = s[i + 1]
  <2>1. n # 0
    BY EmptySeq
  <2>2. n \in Nat /\ DOMAIN s = 1..n /\ h = s[1]
    OBVIOUS
  <2>3. t \in Seq(S) /\ Len(t) = n - 1 /\ h \in S /\ \A i \in 1..Len(t) : t[i] = s[i + 1]
    BY HeadTailProperties
  <2>4. DOMAIN t = 1..Len(t)
    BY <2>3
  <2>5. QED
    BY <2>1, <2>2, <2>3, <2>4
<1> HIDE DEF n, t, h
<1>2. \A i \in DOMAIN s : i = 1 \/ (i - 1 \in DOMAIN t /\ s[i] = t[i - 1])
  BY <1>1
<1>3. \A i \in DOMAIN t : i + 1 \in DOMAIN s /\ t[i] = s[i + 1] /\ i + 1 # 1
  BY <1>1
<1>4. 1 \in DOMAIN s /\ h = s[1]
  BY <1>1
<1>5. ToSet(s) = {h} \union ToSet(t)
  <2>1. ASSUME NEW x \in ToSet(s) PROVE x \in {h} \union ToSet(t)
    BY <1>2, <1>4 DEF ToSet
  <2>2. ASSUME NEW x \in {h} \union ToSet(t) PROVE x \in ToSet(s)
    BY <1>3, <1>4 DEF ToSet
  <2>3. QED
    BY <2>1, <2>2
<1>6. ASSUME IsInjective(s) PROVE IsInjective(t) /\ h \notin ToSet(t)
  <2>1. \A i, j \in DOMAIN t : t[i] = t[j] => i = j
    BY <1>1, <1>3, <1>6 DEF IsInjective
  <2>2. \A i \in DOMAIN t : t[i] # h
    BY <1>3, <1>4, <1>6 DEF IsInjective
  <2>3. QED
    BY <2>1, <2>2 DEF IsInjective, ToSet
<1>7. QED
  BY <1>1, <1>5, <1>6 DEF n, t, h

LEMMA JoinedIs ==
  ASSUME NEW S, NEW s \in Seq(S), NEW t \in Seq(S)
  PROVE  /\ s \o t \in Seq(S) /\ ToSet(s \o t) = ToSet(s) \union ToSet(t)
         /\ Len(s) \in Nat /\ DOMAIN s = 1..Len(s)
         /\ \A i \in DOMAIN (s \o t) : /\ i \in Int
              /\ \/ i \in DOMAIN s /\ (s \o t)[i] = s[i]
                 \/ i > Len(s) /\ i - Len(s) \in DOMAIN t /\ (s \o t)[i] = t[i - Len(s)]
         /\ IsInjective(s) /\ IsInjective(t) /\ ToSet(s) \cap ToSet(t) = {} => IsInjective(s \o t)
<1> DEFINE m == Len(s)
           n == Len(t)
           c == s \o t
<1>1. /\ m \in Nat /\ n \in Nat /\ DOMAIN s = 1..m /\ DOMAIN t = 1..n /\ c \in Seq(S)
      /\ DOMAIN c = 1..(m + n) /\ \A i \in 1..(m + n) : c[i] = IF i <= m THEN s[i] ELSE t[i - m]
  <2>1. m \in Nat /\ n \in Nat /\ DOMAIN s = 1..m /\ DOMAIN t = 1..n
    OBVIOUS
  <2>2. c \in Seq(S) /\ Len(c) = m + n /\ \A i \in 1..(m + n) : c[i] = IF i <= m THEN s[i] ELSE t[i - m]
    BY ConcatProperties
  <2>3. DOMAIN c = 1..Len(c)
    BY <2>2
  <2>4. QED
    BY <2>1, <2>2, <2>3
<1> HIDE DEF m, n, c
<1>2. \A i \in DOMAIN c : /\ i \in Int
        /\ \/ i \in DOMAIN s /\ c[i] = s[i]
           \/ i > m /\ i - m \in DOMAIN t /\ c[i] = t[i - m]
  BY <1>1
<1>3. \A i \in DOMAIN s : i \in DOMAIN c /\ c[i] = s[i]
  BY <1>1
<1>4. \A i \in DOMAIN t : m + i \in DOMAIN c /\ c[m + i] = t[i]
  <2> TAKE i \in DOMAIN t
  <2>1. m + i \in 1..(m + n) /\ ~(m + i <= m) /\ m + i - m = i
    BY <1>1
  <2>2. QED
    BY <1>1, <2>1
<1>5. ToSet(c) = ToSet(s) \union ToSet(t)
  <2>1. ASSUME NEW x \in ToSet(c) PROVE x \in ToSet(s) \union ToSet(t)
    BY <1>2 DEF ToSet
  <2>2. ASSUME NEW x \in ToSet(s) \union ToSet(t) PROVE x \in ToSet(c)
    BY <1>3, <1>4 DEF ToSet
  <2>3. QED
    BY <2>1, <2>2
<1>6. ASSUME IsInjective(s), IsInjective(t), ToSet(s) \cap ToSet(t) = {} PROVE IsInjective(c)
  <2> SUFFICES ASSUME NEW i \in DOMAIN c, NEW j \in DOMAIN c, c[i] = c[j] PROVE i = j
    BY DEF IsInjective
  <2>1. \A k \in DOMAIN s, l \in DOMAIN t : s[k] # t[l]
    BY <1>6 DEF ToSet
  <2>2. i \in Int /\ j \in Int
    BY <1>2
  <2>3. CASE i \in DOMAIN s /\ c[i] = s[i]
    BY <1>2, <1>6, <2>1, <2>3 DEF IsInjective
  <2>4. CASE i - m \in DOMAIN t /\ c[i] = t[i - m]
    <3>1. j - m \in DOMAIN t /\ c[j] = t[j - m]
      BY <1>2, <2>1, <2>4
    <3>2. i - m = j - m
      BY <1>6, <2>4, <3>1 DEF IsInjective
    <3>3. QED
      BY <1>1, <2>2, <3>2
  <2>5. QED
    BY <1>2, <2>3, <2>4
<1>7. QED
  BY <1>1, <1>2, <1>5, <1>6 DEF m, c

LEMMA EmptyIs == ToSet(<<>>) = {} /\ IsInjective(<<>>) /\ Len(<<>>) = 0 /\ DOMAIN <<>> = {}
BY DEF ToSet, IsInjective

\* What is in a sequence over a set is in the set.
LEMMA ElementsAre ==
  ASSUME NEW S, NEW s \in Seq(S)
  PROVE  ToSet(s) \subseteq S /\ DOMAIN s = 1..Len(s) /\ Len(s) \in Nat
BY DEF ToSet

----------------------------------------------------------------------------
(* dedupe *)

\* Families of sets of places of a list of length n.
Families(n) == SUBSET (SUBSET (1..n))

Within(U, T) == U \subseteq T /\ U # T

\* A family of sets of places has a least member.
LEMMA LeastPlaces ==
  ASSUME NEW n \in Nat, NEW F \in Families(n), F # {}
  PROVE  \E T \in F : \A U \in F : ~Within(U, T)
<1>a. IsFiniteSet(1..n)
  BY FS_Interval
<1> DEFINE S == 1..n
<1>1. IsWellFoundedOn(StrictSubsetOrdering(S), FiniteSubsetsOf(S))
  BY FS_StrictSubsetOrderingWellFounded
<1>2. F \subseteq FiniteSubsetsOf(S)
  BY <1>a, FS_Subset DEF FiniteSubsetsOf, Families
<1>3. PICK T \in F : \A U \in F : ~(<<U, T>> \in StrictSubsetOrdering(S))
  BY <1>1, <1>2, WFMin, Zenon
<1>4. QED
  BY <1>3 DEF StrictSubsetOrdering, Families, Within

\* A set of places that is not empty has a last one.
LEMMA LastPlace ==
  ASSUME NEW n \in Nat, NEW P \in SUBSET (1..n), P # {}
  PROVE  Max(P) \in P
<1> DEFINE T == {n - i : i \in P}
<1>1. T \in SUBSET Nat /\ T # {}
  <2>1. \A i \in P : n - i \in Nat
    OBVIOUS
  <2>2. PICK i : i \in P
    OBVIOUS
  <2>3. n - i \in T
    BY <2>2
  <2>4. T \subseteq Nat
    BY <2>1
  <2>5. QED
    BY <2>3, <2>4
<1>2. IsWellFoundedOn(OpToRel(<, Nat), Nat)
  BY NatLessThanWellFounded
<1> HIDE DEF T
<1>3. PICK x \in T : \A y \in T : ~(<<y, x>> \in OpToRel(<, Nat))
  BY <1>1, <1>2, WFMin, Zenon
<1>4. \A y \in T : ~(y < x)
  <2> TAKE y \in T
  <2>1. <<y, x>> \notin OpToRel(<, Nat) /\ <<y, x>> \in Nat \X Nat
    BY <1>1, <1>3
  <2>2. QED
    BY <2>1 DEF OpToRel
<1>5. PICK i \in P : x = n - i
  BY DEF T
<1>6. \A j \in P : i >= j
  <2> TAKE j \in P
  <2>1. n - j \in T
    BY DEF T
  <2>2. ~(n - j < n - i)
    BY <1>4, <1>5, <2>1
  <2>3. QED
    BY <2>2
<1>7. QED
  BY <1>6 DEF Max

\* A list with a model at its end, unless it has it already.
Once(out, m) == IF m \in ToSet(out) THEN out ELSE Append(out, m)

\* The equation of a function that gives what is left of seq, for sets of places.
Lefts(seq, P, f) ==
  f = [s \in SUBSET P |-> IF s = {} THEN <<>> ELSE Once(f[s \ {Max(s)}], seq[Max(s)])]

LeftFcn(seq, P) == CHOOSE f : Lefts(seq, P, f)

\* dedupe is such a function, if there is one.
LEMMA DedupeIsFcn == \A seq : dedupe(seq) = LeftFcn(seq, DOMAIN seq)[DOMAIN seq]
BY DEF dedupe, FoldLeft, MapThenFoldSet, LeftFcn, Lefts, Once

\* Named so that the provers do not take the set of all subsets apart.
Part(s, P) == s \in SUBSET P

\* Two of them agree where they both are defined.
LEMMA LeftsAgree ==
  ASSUME NEW seq, NEW n \in Nat, NEW P, Part(P, 1..n), NEW Q, Part(Q, P),
         NEW f, Lefts(seq, P, f), NEW g, Lefts(seq, Q, g), NEW s, Part(s, Q)
  PROVE  f[s] = g[s]
<1>a. P \in SUBSET (1..n) /\ Q \in SUBSET P /\ s \in SUBSET Q
  BY DEF Part
<1> DEFINE Differ == {u \in SUBSET Q : f[u] # g[u]}
<1>1. SUFFICES ASSUME Differ # {} PROVE FALSE
  BY <1>a
<1>3. PICK u \in Differ : \A v \in Differ : ~Within(v, u)
  <2>1. Differ \in Families(n)
    BY <1>a DEF Families
  <2> HIDE DEF Differ
  <2>2. QED
    BY <1>1, <2>1, LeastPlaces
<1>4. u # {} /\ u \in SUBSET (1..n) /\ u \in SUBSET P
  BY <1>a DEF Lefts
<1>5. Max(u) \in u
  BY <1>4, LastPlace
<1>6. f[u \ {Max(u)}] = g[u \ {Max(u)}]
  BY <1>3, <1>5 DEF Within
<1>7. /\ f[u] = Once(f[u \ {Max(u)}], seq[Max(u)])
      /\ g[u] = Once(g[u \ {Max(u)}], seq[Max(u)])
  BY <1>4 DEF Lefts
<1>8. QED
  BY <1>6, <1>7

\* There is one for every set of places.
LEMMA LeftsExist ==
  ASSUME NEW seq, NEW n \in Nat, NEW P \in SUBSET (1..n)
  PROVE  Lefts(seq, P, LeftFcn(seq, P))
<1> DEFINE Without == {T \in SUBSET P : ~\E f : Lefts(seq, T, f)}
<1>1. SUFFICES ASSUME Without # {} PROVE FALSE
  <2>1. P \notin Without
    OBVIOUS
  <2>2. QED
    BY <2>1 DEF LeftFcn
<1>2. PICK T \in Without : \A U \in Without : ~Within(U, T)
  <2>1. Without \in Families(n)
    BY DEF Families
  <2> HIDE DEF Without
  <2>2. QED
    BY <1>1, <2>1, LeastPlaces
<1>a. T \in SUBSET (1..n)
  OBVIOUS
<1>3. ASSUME NEW U \in SUBSET T, U # T
      PROVE  Lefts(seq, U, LeftFcn(seq, U))
  BY <1>2, <1>3 DEF LeftFcn, Within
<1> DEFINE rest(s) == s \ {Max(s)}
           f == [s \in SUBSET T |-> IF s = {} THEN <<>>
                                    ELSE Once(LeftFcn(seq, rest(s))[rest(s)], seq[Max(s)])]
<1>4. ASSUME NEW s \in SUBSET T, s # T
      PROVE  f[s] = LeftFcn(seq, s)[s]
  <2>1. LeftFcn(seq, s) =
          [t \in SUBSET s |-> IF t = {} THEN <<>> ELSE Once(LeftFcn(seq, s)[rest(t)], seq[Max(t)])]
    BY <1>3, <1>4 DEF Lefts
  <2>2. CASE s = {}
    BY <2>1, <2>2
  <2>3. CASE s # {}
    <3>1. Max(s) \in s
      BY <1>a, <2>3, LastPlace
    <3>2. rest(s) \in SUBSET s /\ rest(s) \in SUBSET T /\ rest(s) # T
      BY <3>1
    <3>3. LeftFcn(seq, s)[rest(s)] = LeftFcn(seq, rest(s))[rest(s)]
      <4>1. Lefts(seq, s, LeftFcn(seq, s)) /\ Lefts(seq, rest(s), LeftFcn(seq, rest(s)))
        BY <1>3, <1>4, <3>2
      <4>2. s \in SUBSET (1..n)
        BY <1>a
      <4> DEFINE r == rest(s)
                 f1 == LeftFcn(seq, s)
                 g1 == LeftFcn(seq, r)
      <4>3. /\ Part(s, 1..n) /\ Part(r, s) /\ Part(r, r)
            /\ Lefts(seq, s, f1) /\ Lefts(seq, r, g1)
        BY <3>2, <4>1, <4>2 DEF Part
      <4> HIDE DEF r, f1, g1
      <4>4. f1[r] = g1[r]
        BY <4>3, LeftsAgree
      <4>5. QED
        BY <4>4 DEF r, f1, g1
    <3>4. LeftFcn(seq, s)[s] = Once(LeftFcn(seq, s)[rest(s)], seq[Max(s)])
      BY <2>1, <2>3
    <3>5. QED
      BY <2>3, <3>3, <3>4
  <2>4. QED
    BY <2>2, <2>3
<1>5. ASSUME NEW s \in SUBSET T, s # {}
      PROVE  LeftFcn(seq, rest(s))[rest(s)] = f[rest(s)]
  <2>1. Max(s) \in s
    BY <1>a, <1>5, LastPlace
  <2>2. rest(s) \in SUBSET T /\ rest(s) # T
    BY <2>1
  <2> HIDE DEF rest, f
  <2>3. QED
    BY <1>4, <2>2
<1>6. Lefts(seq, T, f)
  <2> HIDE DEF rest
  <2>1. f = [s \in SUBSET T |-> IF s = {} THEN <<>> ELSE Once(f[rest(s)], seq[Max(s)])]
    BY <1>5
  <2> HIDE DEF f
  <2>2. QED
    BY <2>1 DEF Lefts, rest
<1> HIDE DEF f
<1>7. QED
  BY <1>6

\* dedupe leaves no model twice, and loses and invents none.
LEMMA DedupeIs ==
  ASSUME NEW S, NEW seq \in Seq(S)
  PROVE  dedupe(seq) \in Seq(S) /\ IsInjective(dedupe(seq)) /\ ToSet(dedupe(seq)) = ToSet(seq)
<1> DEFINE n == Len(seq)
           P == 1..n
           f == LeftFcn(seq, P)
<1>1. n \in Nat /\ DOMAIN seq = P /\ \A i \in P : seq[i] \in S
  OBVIOUS
<1>2. f = [s \in SUBSET P |-> IF s = {} THEN <<>> ELSE Once(f[s \ {Max(s)}], seq[Max(s)])]
  <2>1. P \in SUBSET (1..n)
    OBVIOUS
  <2>2. Lefts(seq, P, f)
    BY <1>1, <2>1, LeftsExist
  <2> HIDE DEF f, P
  <2>3. QED
    BY <2>2 DEF Lefts
<1> HIDE DEF f
<1> DEFINE Good(s) == f[s] \in Seq(S) /\ IsInjective(f[s]) /\ ToSet(f[s]) = {seq[i] : i \in s}
           Bad == {s \in SUBSET P : ~Good(s)}
<1>3. Bad = {}
  <2> SUFFICES ASSUME Bad # {} PROVE FALSE
    OBVIOUS
  <2>1. PICK s \in Bad : \A u \in Bad : ~Within(u, s)
    <3>1. n \in Nat /\ Bad \in Families(n)
      BY <1>1 DEF Families
    <3> HIDE DEF Bad, n, P
    <3>2. QED
      BY <3>1, LeastPlaces
  <2>2. s # {}
    <3> SUFFICES ASSUME s = {} PROVE FALSE
      OBVIOUS
    <3>1. f[s] = <<>>
      BY <1>2
    <3>2. <<>> \in Seq(S) /\ {seq[i] : i \in s} = {}
      OBVIOUS
    <3>3. Good(s)
      BY <3>1, <3>2, EmptyIs
    <3>4. QED
      BY <3>3
  <2> DEFINE k == Max(s)
             out == f[s \ {k}]
  <2>3. k \in s /\ k \in P
    BY <1>1, <2>2, LastPlace
  <2>4. Good(s \ {k})
    <3>1. s \ {k} \subseteq s /\ s \ {k} # s /\ s \ {k} \in SUBSET P
      BY <2>3
    <3>2. s \ {k} \notin Bad
      BY <2>1, <3>1 DEF Within
    <3> HIDE DEF Good, k
    <3>3. QED
      BY <3>1, <3>2
  <2>5. f[s] = Once(out, seq[k])
    BY <1>2, <2>2
  <2> HIDE DEF k
  <2>6. {seq[i] : i \in s} = {seq[i] : i \in s \ {k}} \union {seq[k]}
    BY <2>3
  <2>7. seq[k] \in S /\ out \in Seq(S) /\ IsInjective(out) /\ ToSet(out) = {seq[i] : i \in s \ {k}}
    BY <1>1, <2>3, <2>4
  <2> HIDE DEF out
  <2>8. CASE seq[k] \in ToSet(out)
    <3>1. f[s] = out
      BY <2>5, <2>8 DEF Once
    <3>2. ToSet(out) = {seq[i] : i \in s}
      BY <2>6, <2>7, <2>8
    <3>3. Good(s)
      BY <2>7, <3>1, <3>2
    <3>4. QED
      BY <3>3
  <2>9. CASE seq[k] \notin ToSet(out)
    <3>1. f[s] = Append(out, seq[k])
      BY <2>5, <2>9 DEF Once
    <3>2. /\ Append(out, seq[k]) \in Seq(S) /\ IsInjective(Append(out, seq[k]))
          /\ ToSet(Append(out, seq[k])) = ToSet(out) \union {seq[k]}
      BY <2>7, <2>9, AppendedIs
    <3>3. Good(s)
      BY <2>6, <2>7, <3>1, <3>2
    <3>4. QED
      BY <3>3
  <2>10. QED
    BY <2>8, <2>9
<1>4. Good(P)
  BY <1>3
<1>5. dedupe(seq) = f[P]
  BY <1>1, DedupeIsFcn DEF f
<1>6. {seq[i] : i \in P} = ToSet(seq)
  BY <1>1 DEF ToSet
<1>7. QED
  BY <1>4, <1>5, <1>6

----------------------------------------------------------------------------
(* The order of the viable models, and the insertion sort *)

\* The order of a list v of models in which no model is twice.
Before(v, a, b) == \E k, l \in DOMAIN v : k < l /\ v[k] = a /\ v[l] = b

Ordered(v, s) == \A i, j \in DOMAIN s : i < j => Before(v, s[i], s[j])

\* The order that the sort brings about under the prices of a catalog c.
InOrder(c, v, a, b) ==
  c[a].price < c[b].price \/ (c[a].price <= c[b].price /\ Before(v, a, b))

\* The first n models are in order but for the one at k, which is on its way to
\* the front past dearer models; what it has not met is as it was.
Inserting(c, v, s, n, k) ==
  \A i, j \in DOMAIN s : i < j =>
    /\ j <= n /\ i # k /\ j # k => InOrder(c, v, s[i], s[j])
    /\ j <= n /\ i = k => c[s[i]].price < c[s[j]].price
    /\ j = k \/ n < j => Before(v, s[i], s[j])

\* Where the model at i was before the models at j - 1 and j changed places.
Was(j, i) == IF i = j THEN j - 1 ELSE IF i = j - 1 THEN j ELSE i

\* Two neighbours that change places leave the same models, each once.
LEMMA SwappedIs ==
  ASSUME NEW S, NEW s \in Seq(S), NEW j \in 2..Len(s)
  PROVE  /\ Swapped(s, j) \in Seq(S) /\ Len(Swapped(s, j)) = Len(s)
         /\ DOMAIN Swapped(s, j) = DOMAIN s
         /\ \A i \in DOMAIN s : Was(j, i) \in DOMAIN s /\ Swapped(s, j)[i] = s[Was(j, i)]
         /\ ToSet(Swapped(s, j)) = ToSet(s)
         /\ IsInjective(s) => IsInjective(Swapped(s, j))
<1> DEFINE n == Len(s)
           t == Swapped(s, j)
<1>1. n \in Nat /\ DOMAIN s = 1..n /\ \A i \in 1..n : s[i] \in S
  OBVIOUS
<1>2. j - 1 \in 1..n /\ j \in 1..n /\ j - 1 # j
  BY <1>1
<1>3. \A i \in 1..n : Was(j, i) \in 1..n /\ Was(j, Was(j, i)) = i
  BY <1>1, <1>2 DEF Was
<1>4. DOMAIN t = 1..n /\ \A i \in 1..n : t[i] = s[Was(j, i)]
  BY <1>1, <1>2 DEF Swapped, Was
<1>5. t = [i \in 1..n |-> s[Was(j, i)]]
  BY <1>1, <1>2 DEF Swapped, Was
<1> HIDE DEF n, t
<1>6. [i \in 1..n |-> s[Was(j, i)]] \in Seq(S)
  BY <1>1, <1>3
<1>7. t \in Seq(S) /\ Len(t) = n
  <2>1. t \in Seq(S)
    BY <1>5, <1>6
  <2>2. QED
    BY <1>1, <1>4, <2>1, LenProperties
<1>8. ToSet(t) = ToSet(s)
  <2>1. ASSUME NEW x \in ToSet(t) PROVE x \in ToSet(s)
    BY <1>1, <1>3, <1>4 DEF ToSet
  <2>2. ASSUME NEW x \in ToSet(s) PROVE x \in ToSet(t)
    <3>1. PICK i \in 1..n : x = s[i]
      BY <1>1 DEF ToSet
    <3>2. Was(j, i) \in 1..n /\ t[Was(j, i)] = x
      BY <1>3, <1>4, <3>1
    <3>3. QED
      BY <1>4, <3>2 DEF ToSet
  <2>3. QED
    BY <2>1, <2>2
<1>9. ASSUME IsInjective(s) PROVE IsInjective(t)
  <2> SUFFICES ASSUME NEW a \in 1..n, NEW b \in 1..n, t[a] = t[b] PROVE a = b
    BY <1>4 DEF IsInjective
  <2>1. Was(j, a) = Was(j, b)
    BY <1>1, <1>3, <1>4, <1>9 DEF IsInjective
  <2>2. QED
    BY <1>3, <2>1
<1>10. QED
  BY <1>1, <1>3, <1>4, <1>7, <1>8, <1>9 DEF n, t

\* The cheaper model moves one place on.
LEMMA InsertSwap ==
  ASSUME NEW c, NEW v, NEW S, NEW s \in Seq(S), \A m \in S : c[m].price \in Nat,
         NEW n \in Nat, n <= Len(s), NEW k \in 2..n, Inserting(c, v, s, n, k),
         c[s[k]].price < c[s[k - 1]].price
  PROVE  Inserting(c, v, Swapped(s, k), n, k - 1)
<1> DEFINE t == Swapped(s, k)
           D == DOMAIN s
           P(i, j) == /\ j <= n /\ i # k /\ j # k => InOrder(c, v, s[i], s[j])
                      /\ j <= n /\ i = k => c[s[i]].price < c[s[j]].price
                      /\ j = k \/ n < j => Before(v, s[i], s[j])
<1>1. D = 1..Len(s) /\ Len(s) \in Nat /\ k - 1 \in D /\ k \in D /\ k - 1 < k /\ k \in Int
  OBVIOUS
<1>2. DOMAIN t = D /\ \A i \in D : Was(k, i) \in D /\ t[i] = s[Was(k, i)]
  <2>1. k \in 2..Len(s)
    BY <1>1
  <2>2. QED
    BY <2>1, SwappedIs
<1>3. \A i, j \in D : i < j => P(i, j)
  BY DEF Inserting
<1> HIDE DEF t, D, P
<1> SUFFICES ASSUME NEW i \in D, NEW j \in D, i < j
             PROVE  /\ j <= n /\ i # k - 1 /\ j # k - 1 => InOrder(c, v, t[i], t[j])
                    /\ j <= n /\ i = k - 1 => c[t[i]].price < c[t[j]].price
                    /\ j = k - 1 \/ n < j => Before(v, t[i], t[j])
  BY <1>2 DEF Inserting, t
<1>4. i \in Int /\ j \in Int /\ t[i] = s[Was(k, i)] /\ t[j] = s[Was(k, j)]
  BY <1>1, <1>2
<1>5. CASE i = k - 1 /\ j = k
  BY <1>1, <1>4, <1>5 DEF Was
<1>6. CASE i = k - 1 /\ j # k
  <2>1. Was(k, i) = k /\ Was(k, j) = j /\ k < j
    BY <1>1, <1>4, <1>6 DEF Was
  <2>2. P(k, j)
    BY <1>1, <1>3, <2>1
  <2>3. QED
    BY <1>1, <1>4, <1>6, <2>1, <2>2 DEF P
<1>7. CASE i = k
  <2>1. Was(k, i) = k - 1 /\ Was(k, j) = j /\ k - 1 < j
    BY <1>1, <1>4, <1>7 DEF Was
  <2>2. P(k - 1, j)
    BY <1>1, <1>3, <2>1
  <2>3. QED
    BY <1>1, <1>4, <1>7, <2>1, <2>2 DEF P
<1>8. CASE i # k /\ i # k - 1 /\ j = k - 1
  <2>1. Was(k, i) = i /\ Was(k, j) = k /\ i < k
    BY <1>1, <1>4, <1>8 DEF Was
  <2>2. P(i, k)
    BY <1>1, <1>3, <2>1
  <2>3. QED
    BY <1>1, <1>4, <1>8, <2>1, <2>2 DEF P
<1>9. CASE i # k /\ i # k - 1 /\ j = k
  <2>1. Was(k, i) = i /\ Was(k, j) = k - 1 /\ i < k - 1
    BY <1>1, <1>4, <1>9 DEF Was
  <2>2. P(i, k - 1)
    BY <1>1, <1>3, <2>1
  <2>3. QED
    BY <1>1, <1>4, <1>9, <2>1, <2>2 DEF P
<1>10. CASE i # k /\ i # k - 1 /\ j # k /\ j # k - 1
  <2>1. Was(k, i) = i /\ Was(k, j) = j
    BY <1>10 DEF Was
  <2>2. P(i, j)
    BY <1>3
  <2>3. QED
    BY <1>1, <1>4, <1>10, <2>1, <2>2 DEF P
<1>11. QED
  BY <1>5, <1>6, <1>7, <1>8, <1>9, <1>10

\* It has met one that is not dearer, or is at the front: the next one's turn.
LEMMA InsertNext ==
  ASSUME NEW c, NEW v, NEW S, NEW s \in Seq(S), \A m \in S : c[m].price \in Nat,
         NEW n \in Nat, n <= Len(s), NEW k \in 1..n, Inserting(c, v, s, n, k),
         k = 1 \/ ~(c[s[k]].price < c[s[k - 1]].price)
  PROVE  Inserting(c, v, s, n + 1, n + 1)
<1> DEFINE D == DOMAIN s
           P(i, j) == /\ j <= n /\ i # k /\ j # k => InOrder(c, v, s[i], s[j])
                      /\ j <= n /\ i = k => c[s[i]].price < c[s[j]].price
                      /\ j = k \/ n < j => Before(v, s[i], s[j])
<1>1. D = 1..Len(s) /\ Len(s) \in Nat /\ k \in D /\ k \in Int
  OBVIOUS
<1>2. \A i \in D : c[s[i]].price \in Nat
  OBVIOUS
<1>3. \A i, j \in D : i < j => P(i, j)
  BY DEF Inserting
<1> HIDE DEF D, P
<1> SUFFICES ASSUME NEW i \in D, NEW j \in D, i < j
             PROVE  /\ j <= n + 1 /\ i # n + 1 /\ j # n + 1 => InOrder(c, v, s[i], s[j])
                    /\ j <= n + 1 /\ i = n + 1 => c[s[i]].price < c[s[j]].price
                    /\ j = n + 1 \/ n + 1 < j => Before(v, s[i], s[j])
  BY DEF Inserting, D
<1>a. i \in Int /\ j \in Int
  BY <1>1
<1>4. i \in Int /\ j \in Int /\ c[s[i]].price \in Nat /\ c[s[j]].price \in Nat /\ P(i, j)
  BY <1>1, <1>2, <1>3
<1>5. CASE n < j
  <2>1. Before(v, s[i], s[j]) /\ ~(j <= n)
    BY <1>4, <1>5 DEF P
  <2>2. j <= n + 1 => j = n + 1
    BY <1>a, <1>5
  <2>3. j <= n + 1 => i # n + 1
    BY <1>a
  <2>4. QED
    BY <2>1, <2>2, <2>3
<1>6. CASE j <= n /\ i # k /\ j # k
  BY <1>4, <1>6 DEF P
<1>7. CASE j <= n /\ i = k
  BY <1>4, <1>7 DEF P, InOrder
<1>8. CASE j <= n /\ j = k
  <2>1. Before(v, s[i], s[j]) /\ k # 1
    BY <1>1, <1>4, <1>8 DEF P
  <2>2. c[s[i]].price <= c[s[j]].price
    <3>1. k - 1 \in D /\ c[s[k - 1]].price \in Nat /\ c[s[k - 1]].price <= c[s[k]].price
      BY <1>1, <1>2, <1>8, <2>1
    <3>2. CASE i = k - 1
      BY <1>8, <3>1, <3>2
    <3>3. CASE i # k - 1
      <4>1. i < k - 1 /\ k - 1 <= n /\ i # k /\ k - 1 # k
        BY <1>1, <1>4, <1>8, <3>3
      <4>2. InOrder(c, v, s[i], s[k - 1])
        BY <1>3, <3>1, <4>1 DEF P
      <4>3. QED
        BY <1>4, <1>8, <3>1, <4>2 DEF InOrder
    <3>4. QED
      BY <3>2, <3>3
  <2>3. QED
    BY <1>4, <1>8, <2>1, <2>2 DEF InOrder
<1>9. QED
  BY <1>4, <1>5, <1>6, <1>7, <1>8

LEMMA OrderedAppend ==
  ASSUME NEW v, NEW S, NEW s \in Seq(S), NEW x \in S, Ordered(v, s),
         \A a \in ToSet(s) : Before(v, a, x)
  PROVE  Ordered(v, Append(s, x))
<1> DEFINE n == Len(s)
           t == Append(s, x)
<1>1. /\ n \in Nat /\ DOMAIN s = 1..n /\ DOMAIN t = 1..(n + 1)
      /\ t[n + 1] = x /\ \A i \in 1..n : t[i] = s[i]
  OBVIOUS
<1>2. \A i \in DOMAIN s : s[i] \in ToSet(s)
  BY DEF ToSet
<1> HIDE DEF n, t
<1> SUFFICES ASSUME NEW i \in DOMAIN t, NEW j \in DOMAIN t, i < j
             PROVE  Before(v, t[i], t[j])
  BY DEF Ordered, t
<1>3. i \in DOMAIN s /\ t[i] = s[i]
  BY <1>1
<1>4. CASE j = n + 1
  BY <1>1, <1>2, <1>3, <1>4
<1>5. CASE j # n + 1
  <2>1. j \in DOMAIN s /\ t[j] = s[j]
    BY <1>1, <1>5
  <2>2. QED
    BY <1>3, <2>1 DEF Ordered
<1>6. QED
  BY <1>4, <1>5

LEMMA OrderedTail ==
  ASSUME NEW v, NEW S, NEW s \in Seq(S), s # <<>>, Ordered(v, s)
  PROVE  Ordered(v, Tail(s)) /\ \A b \in ToSet(Tail(s)) : Before(v, Head(s), b)
<1> DEFINE n == Len(s)
           t == Tail(s)
           h == Head(s)
<1>1. /\ n \in Nat /\ DOMAIN t = 1..(n - 1) /\ h = s[1] /\ DOMAIN s = 1..n
      /\ \A i \in 1..(n - 1) : t[i] = s[i + 1]
  BY TailIs
<1> HIDE DEF n, t, h
<1>2. \A i \in DOMAIN t : i \in Int /\ i + 1 \in DOMAIN s /\ t[i] = s[i + 1] /\ 1 \in DOMAIN s /\ 1 < i + 1
  BY <1>1
<1>3. Ordered(v, t)
  <2> SUFFICES ASSUME NEW i \in DOMAIN t, NEW j \in DOMAIN t, i < j
               PROVE  Before(v, t[i], t[j])
    BY DEF Ordered
  <2>1. i + 1 < j + 1
    BY <1>2
  <2>2. QED
    BY <1>2, <2>1 DEF Ordered
<1>4. \A b \in ToSet(t) : Before(v, h, b)
  <2> SUFFICES ASSUME NEW i \in DOMAIN t PROVE Before(v, h, t[i])
    BY DEF ToSet
  <2>1. QED
    BY <1>1, <1>2 DEF Ordered
<1>5. QED
  BY <1>3, <1>4 DEF t, h

\* The sort begins with a list in the order of the viable models.
LEMMA InsertFirst ==
  ASSUME NEW c, NEW v, NEW S, NEW s \in Seq(S), Ordered(v, s)
  PROVE  Inserting(c, v, s, 2, 2)
<1>1. DOMAIN s = 1..Len(s) /\ Len(s) \in Nat
  OBVIOUS
<1> SUFFICES ASSUME NEW i \in DOMAIN s, NEW j \in DOMAIN s, i < j
             PROVE  /\ j <= 2 /\ i # 2 /\ j # 2 => InOrder(c, v, s[i], s[j])
                    /\ j <= 2 /\ i = 2 => c[s[i]].price < c[s[j]].price
                    /\ j = 2 \/ 2 < j => Before(v, s[i], s[j])
  BY DEF Inserting
<1>2. i \in Int /\ j \in Int /\ i >= 1
  BY <1>1
<1>3. ~(j <= 2 /\ i # 2 /\ j # 2) /\ ~(j <= 2 /\ i = 2)
  BY <1>2
<1>4. QED
  BY <1>3 DEF Ordered

----------------------------------------------------------------------------
(* The inductive invariant *)

TypeOK ==
  /\ DOMAIN catalog \subseteq Models /\ \A m \in DOMAIN catalog : catalog[m] \in Cards
  /\ costAware \in BOOLEAN /\ jumped \in BOOLEAN
  /\ pc \in {"filter", "split", "sort", "done"}
  /\ candidates \in Seq(Models) /\ todo \in Seq(Models) /\ viable \in Seq(Models)
  /\ selfHosted \in Seq(Models) /\ thirdParty \in Seq(Models) /\ decision \in Seq(Models)
  /\ upto \in Nat /\ at \in Nat /\ failures \in Nat

\* The models of the catalog that the request may use.
Usable == {m \in DOMAIN catalog : MayUse(m)}

\* No query that fails lets a model through the filter.
ViableInv == ToSet(viable) \subseteq Usable /\ IsInjective(viable)

\* What the filter keeps in the end, if no query fails: of the candidates until the
\* catalog is listed, and then of the catalog.
Target == IF jumped THEN Usable ELSE ToSet(candidates) \cap Usable

FilterInv ==
  pc = "filter" =>
    /\ IsInjective(todo) /\ ToSet(todo) \cap ToSet(viable) = {}
    /\ selfHosted = <<>> /\ thirdParty = <<>> /\ upto = 2 /\ at = 2
    /\ failures = 0 =>
         /\ ToSet(viable) \union (ToSet(todo) \cap Usable) = Target
         /\ jumped => ToSet(candidates) \cap Usable = {}

Result ==
  IF ToSet(candidates) \cap Usable # {} THEN ToSet(candidates) \cap Usable ELSE Usable

ResultInv == pc # "filter" /\ failures = 0 => ToSet(viable) = Result

\* The two lists share no model; the first is in the order of the viable models, and
\* no model is in the wrong one if no query failed.
Parted ==
  /\ costAware /\ IsInjective(selfHosted) /\ IsInjective(thirdParty)
  /\ ToSet(selfHosted) \cap ToSet(thirdParty) = {}
  /\ Ordered(viable, selfHosted)
  /\ failures = 0 =>
       /\ \A m \in ToSet(selfHosted) : catalog[m].selfHosted
       /\ \A m \in ToSet(thirdParty) : ~catalog[m].selfHosted

SplitInv ==
  pc = "split" =>
    /\ Parted /\ todo # <<>> /\ upto = 2 /\ at = 2 /\ IsInjective(todo)
    /\ (ToSet(selfHosted) \union ToSet(thirdParty)) \cap ToSet(todo) = {}
    /\ Ordered(viable, thirdParty) /\ Ordered(viable, todo)
    /\ \A a \in ToSet(selfHosted) \union ToSet(thirdParty), b \in ToSet(todo) : Before(viable, a, b)
    /\ ToSet(viable) = ToSet(selfHosted) \union ToSet(thirdParty) \union ToSet(todo)

SortInv ==
  pc = "sort" =>
    /\ Parted
    /\ ToSet(viable) = ToSet(selfHosted) \union ToSet(thirdParty)
    /\ at \in 1..upto /\ (upto > Len(thirdParty) => at = upto)
    /\ failures = 0 => Inserting(catalog, viable, thirdParty, upto, at)

DoneInv ==
  /\ pc # "done" => decision = <<>>
  /\ pc = "done" => ToSet(decision) = ToSet(viable) /\ IsInjective(decision)
  /\ CostOrder

IInv ==
  /\ TypeOK /\ ViableInv /\ FilterInv /\ ResultInv /\ SplitInv /\ SortInv /\ DoneInv

----------------------------------------------------------------------------
(* The catalog *)

\* What a query answers: the truth or the empty card, which the filter refuses.
LEMMA GetIs ==
  ASSUME TypeOK, NEW m \in Models, NEW card \in Get(m)
  PROVE  /\ card.price \in Nat /\ Failed(m, card) \in {0, 1}
         /\ Failed(m, card) = 0 => card = Card(m)
         /\ Keep(card) => m \in Usable
         /\ card = Card(m) /\ m \in Usable => Keep(card)
         /\ card = Card(m) /\ m \in Usable => card = catalog[m]
<1>1. card = Card(m) \/ card = ZeroCard
  BY DEF Get
<1>2. ZeroCard.price \in Nat /\ ~Keep(ZeroCard)
  BY DEF ZeroCard, Keep
<1>3. m \in DOMAIN catalog => Card(m) = catalog[m]
  BY DEF Card
<1>4. m \notin DOMAIN catalog => Card(m) = ZeroCard
  BY DEF Card
<1>5. m \in DOMAIN catalog =>
        catalog[m] \in [capable : BOOLEAN, allowed : BOOLEAN, selfHosted : BOOLEAN,
                        health : {"healthy", "degraded", "down"}, price : Nat]
  BY RouterAssumption DEF TypeOK
<1>6. m \in DOMAIN catalog => catalog[m].price \in Nat /\ (Keep(catalog[m]) <=> MayUse(m))
  BY <1>5 DEF Keep, MayUse
<1>7. Failed(m, card) = IF card = Card(m) THEN 0 ELSE 1
  BY DEF Failed
<1>8. card.price \in Nat
  BY <1>1, <1>2, <1>3, <1>4, <1>6
<1>9. Keep(card) => m \in Usable
  BY <1>1, <1>2, <1>3, <1>4, <1>6 DEF Usable
<1>10. m \in Usable => m \in DOMAIN catalog /\ MayUse(m)
  BY DEF Usable
<1>11. card = Card(m) /\ m \in Usable => Keep(card) /\ card = catalog[m]
  BY <1>3, <1>6, <1>10
<1>12. QED
  BY <1>7, <1>8, <1>9, <1>11

LEMMA PricesAre ==
  ASSUME TypeOK
  PROVE  \A m \in DOMAIN catalog : catalog[m].price \in Nat /\ catalog[m].selfHosted \in BOOLEAN
BY RouterAssumption DEF TypeOK

\* A listing has no model twice, and models that are suitable.
LEMMA ListingIs ==
  ASSUME TypeOK, NEW list \in Listings
  PROVE  list \in Seq(Models) /\ IsInjective(list) /\ ToSet(list) \subseteq Suitable
<1>1. PICK s \in SUBSET Suitable : list \in SetToSeqs(s)
  BY DEF Listings, SetToAllKPermutations
<1>2. s \subseteq Models
  BY DEF Suitable, TypeOK
<1>3. IsFiniteSet(s)
  BY <1>2, RouterAssumption, FS_Subset
<1>4. PICK n \in Nat : n = Cardinality(s)
  BY <1>3, FS_CardinalityType
<1>5. list \in [1..n -> s] /\ \A i, j \in 1..n : i # j => list[i] # list[j]
  BY <1>1, <1>4 DEF SetToSeqs
<1>6. DOMAIN list = 1..n /\ \A i \in 1..n : list[i] \in s
  BY <1>5
<1>7. list \in Seq(s)
  BY <1>5, SeqDef
<1>8. list \in Seq(Models)
  BY <1>2, <1>7
<1>9. QED
  BY <1>5, <1>6, <1>8 DEF ToSet, IsInjective

LEMMA UsableIsSuitable == Usable \subseteq Suitable
BY DEF Usable, Suitable, MayUse

LEMMA ViableOfIs ==
  /\ \A s : ViableOf(s) = s \cap Usable
  /\ ViableOf(DOMAIN catalog) = Usable
BY DEF ViableOf, Usable, MayUse

----------------------------------------------------------------------------
(* The steps *)

LEMMA InitInv == Init => IInv
<1> SUFFICES ASSUME Init PROVE IInv
  OBVIOUS
<1> USE DEF Init
<1>1. PICK asked \in Asked : candidates = dedupe(asked \o Defaults)
  OBVIOUS
<1>2. asked \o Defaults \in Seq(Models)
  <2>1. asked \in Seq(Models) /\ Defaults \in Seq(Models)
    BY RouterAssumption
  <2>2. QED
    BY <2>1, ConcatProperties
<1>3. candidates \in Seq(Models) /\ IsInjective(candidates)
  BY <1>1, <1>2, DedupeIs
<1>4. DOMAIN catalog \subseteq Models /\ \A m \in DOMAIN catalog : catalog[m] \in Cards
  OBVIOUS
<1>5. <<>> \in Seq(Models)
  OBVIOUS
<1>6. TypeOK
  BY <1>3, <1>4, <1>5 DEF TypeOK
<1>7. viable = <<>> /\ todo = candidates /\ pc = "filter" /\ jumped = FALSE /\ decision = <<>>
  OBVIOUS
<1>8. ToSet(viable) = {} /\ IsInjective(viable)
  BY <1>7, EmptyIs
<1>9. ViableInv
  BY <1>8 DEF ViableInv
<1>10. FilterInv
  <2>1. ToSet(viable) \union (ToSet(todo) \cap Usable) = Target
    BY <1>7, <1>8 DEF Target
  <2>2. QED
    BY <1>3, <1>7, <1>8, <2>1 DEF FilterInv
<1>11. ResultInv /\ SplitInv /\ SortInv /\ DoneInv
  BY <1>7 DEF ResultInv, SplitInv, SortInv, DoneInv, CostOrder
<1>12. QED
  BY <1>6, <1>9, <1>10, <1>11 DEF IInv

\* As long as the filter goes on, the later parts have nothing to keep.
LEMMA StillFiltering ==
  pc = "filter" /\ decision = <<>> => ResultInv /\ SplitInv /\ SortInv /\ DoneInv
BY DEF ResultInv, SplitInv, SortInv, DoneInv, CostOrder

\* Which models may be used does not change.
LEMMA SameUsable == catalog' = catalog => Usable' = Usable
BY DEF Usable, MayUse

LEMMA FilterStep == IInv /\ Filter => IInv'
<1> SUFFICES ASSUME IInv, Filter PROVE IInv'
  OBVIOUS
<1> DEFINE m == Head(todo)
<1>1. TypeOK /\ ViableInv /\ FilterInv /\ DoneInv
  BY DEF IInv
<1>2. /\ pc = "filter" /\ pc' = "filter" /\ todo # <<>> /\ todo' = Tail(todo) /\ decision' = decision
      /\ catalog' = catalog /\ costAware' = costAware /\ candidates' = candidates /\ jumped' = jumped
      /\ selfHosted' = selfHosted /\ thirdParty' = thirdParty /\ upto' = upto /\ at' = at
  BY DEF Filter, given, lists
<1>3. PICK card \in Get(m) :
        /\ viable' = IF Keep(card) THEN Append(viable, m) ELSE viable
        /\ failures' = failures + Failed(m, card)
  BY DEF Filter
<1>4. todo \in Seq(Models) /\ viable \in Seq(Models) /\ failures \in Nat
  BY <1>1 DEF TypeOK
<1>5. /\ m \in Models /\ m \in ToSet(todo) /\ Tail(todo) \in Seq(Models)
      /\ ToSet(todo) = {m} \union ToSet(Tail(todo))
      /\ IsInjective(Tail(todo)) /\ m \notin ToSet(Tail(todo))
  BY <1>1, <1>2, <1>4, TailIs DEF FilterInv
<1> HIDE DEF m
<1>6. /\ Failed(m, card) \in {0, 1} /\ (Failed(m, card) = 0 => card = Card(m))
      /\ (Keep(card) => m \in Usable) /\ (card = Card(m) /\ m \in Usable => Keep(card))
  BY <1>1, <1>3, <1>5, GetIs
<1>7. failures' \in Nat /\ (failures' = 0 => failures = 0 /\ (Keep(card) <=> m \in Usable))
  BY <1>3, <1>4, <1>6
<1>8. m \notin ToSet(viable) /\ IsInjective(viable) /\ ToSet(viable) \subseteq Usable
  BY <1>1, <1>2, <1>5 DEF FilterInv, ViableInv
<1>9. /\ viable' \in Seq(Models) /\ IsInjective(viable')
      /\ ToSet(viable') = IF Keep(card) THEN ToSet(viable) \union {m} ELSE ToSet(viable)
  <2>1. CASE Keep(card)
    BY <1>3, <1>4, <1>5, <1>8, <2>1, AppendedIs
  <2>2. CASE ~Keep(card)
    BY <1>3, <1>4, <1>8, <2>2
  <2>3. QED
    BY <2>1, <2>2
<1>10. Usable' = Usable
  BY <1>2, SameUsable
<1>11. TypeOK'
  BY <1>1, <1>2, <1>5, <1>7, <1>9 DEF TypeOK
<1>12. ViableInv'
  BY <1>6, <1>8, <1>9, <1>10 DEF ViableInv
<1>13. FilterInv'
  <2>1. IsInjective(todo') /\ ToSet(todo') \cap ToSet(viable') = {}
    BY <1>1, <1>2, <1>5, <1>9 DEF FilterInv
  <2>2. ASSUME failures' = 0
        PROVE  /\ ToSet(viable') \union (ToSet(todo') \cap Usable) = Target
               /\ jumped => ToSet(candidates) \cap Usable = {}
    BY <1>1, <1>2, <1>5, <1>7, <1>9, <2>2 DEF FilterInv
  <2>3. Target' = Target
    BY <1>2, <1>10 DEF Target
  <2>4. QED
    BY <1>1, <1>2, <1>10, <2>1, <2>2, <2>3 DEF FilterInv
<1>14. ResultInv' /\ SplitInv' /\ SortInv' /\ DoneInv'
  <2>1. (pc = "filter" /\ decision = <<>>)'
    BY <1>1, <1>2 DEF DoneInv
  <2>2. QED
    BY <2>1, StillFiltering, PTL
<1>15. QED
  BY <1>11, <1>12, <1>13, <1>14 DEF IInv

LEMMA JumpStep == IInv /\ CapabilityJump => IInv'
<1> SUFFICES ASSUME IInv, CapabilityJump PROVE IInv'
  OBVIOUS
<1>1. TypeOK /\ ViableInv /\ FilterInv /\ DoneInv
  BY DEF IInv
<1>2. /\ pc = "filter" /\ pc' = "filter" /\ todo = <<>> /\ viable = <<>> /\ ~jumped /\ jumped' = TRUE
      /\ catalog' = catalog /\ costAware' = costAware /\ candidates' = candidates
      /\ viable' = viable /\ decision' = decision
      /\ selfHosted' = selfHosted /\ thirdParty' = thirdParty /\ upto' = upto /\ at' = at
      /\ todo' \in Listings /\ failures' = IF ToSet(todo') = Suitable THEN failures ELSE failures + 1
  BY DEF CapabilityJump, given, lists
<1>3. todo' \in Seq(Models) /\ IsInjective(todo')
  BY <1>1, <1>2, ListingIs
<1>4. failures \in Nat /\ failures' \in Nat
      /\ (failures' = 0 => failures = 0 /\ ToSet(todo') = Suitable)
  BY <1>1, <1>2 DEF TypeOK
<1>5. ToSet(viable) = {} /\ ToSet(todo) = {} /\ ToSet(viable') = {}
  BY <1>2, EmptyIs
<1>6. Usable' = Usable
  BY <1>2, SameUsable
<1>7. TypeOK'
  BY <1>1, <1>2, <1>3, <1>4 DEF TypeOK
<1>8. ViableInv'
  BY <1>1, <1>2, <1>6 DEF ViableInv
<1>9. FilterInv'
  <2>1. ASSUME failures' = 0
        PROVE  /\ ToSet(viable') \union (ToSet(todo') \cap Usable) = Usable
               /\ ToSet(candidates) \cap Usable = {}
    <3>1. ToSet(candidates) \cap Usable = {}
      BY <1>1, <1>2, <1>4, <1>5, <2>1 DEF FilterInv, Target
    <3>2. QED
      BY <1>4, <1>5, <2>1, <3>1, UsableIsSuitable
  <2>2. Target' = Usable
    BY <1>2, <1>6 DEF Target
  <2>3. QED
    BY <1>1, <1>2, <1>3, <1>5, <1>6, <2>1, <2>2 DEF FilterInv
<1>10. ResultInv' /\ SplitInv' /\ SortInv' /\ DoneInv'
  <2>1. (pc = "filter" /\ decision = <<>>)'
    BY <1>1, <1>2 DEF DoneInv
  <2>2. QED
    BY <2>1, StillFiltering, PTL
<1>11. QED
  BY <1>7, <1>8, <1>9, <1>10 DEF IInv

LEMMA SkipStep == IInv /\ SkipCandidate => IInv'
<1> SUFFICES ASSUME IInv, SkipCandidate PROVE IInv'
  OBVIOUS
<1> DEFINE m == Head(todo)
<1>1. TypeOK /\ ViableInv /\ FilterInv /\ DoneInv
  BY DEF IInv
<1>2. /\ pc = "filter" /\ pc' = "filter" /\ todo # <<>> /\ todo' = Tail(todo) /\ decision' = decision
      /\ catalog' = catalog /\ costAware' = costAware /\ candidates' = candidates
      /\ jumped /\ jumped' = jumped /\ viable' = viable /\ failures' = failures
      /\ selfHosted' = selfHosted /\ thirdParty' = thirdParty /\ upto' = upto /\ at' = at
      /\ m \in ToSet(candidates)
  BY DEF SkipCandidate, given, lists
<1>3. todo \in Seq(Models)
  BY <1>1 DEF TypeOK
<1>4. /\ Tail(todo) \in Seq(Models) /\ ToSet(todo) = {m} \union ToSet(Tail(todo))
      /\ IsInjective(Tail(todo))
  BY <1>1, <1>2, <1>3, TailIs DEF FilterInv
<1> HIDE DEF m
<1>5. Usable' = Usable
  BY <1>2, SameUsable
<1>6. TypeOK'
  BY <1>1, <1>2, <1>4 DEF TypeOK
<1>7. ViableInv'
  BY <1>1, <1>2, <1>5 DEF ViableInv
<1>8. FilterInv'
  <2>1. ASSUME failures = 0
        PROVE  /\ ToSet(viable) \union (ToSet(todo') \cap Usable) = Target
               /\ ToSet(candidates) \cap Usable = {}
    BY <1>1, <1>2, <1>4, <2>1 DEF FilterInv
  <2>2. Target' = Target
    BY <1>2, <1>5 DEF Target
  <2>3. QED
    BY <1>1, <1>2, <1>4, <1>5, <2>1, <2>2 DEF FilterInv
<1>9. ResultInv' /\ SplitInv' /\ SortInv' /\ DoneInv'
  <2>1. (pc = "filter" /\ decision = <<>>)'
    BY <1>1, <1>2 DEF DoneInv
  <2>2. QED
    BY <2>1, StillFiltering, PTL
<1>10. QED
  BY <1>6, <1>7, <1>8, <1>9 DEF IInv

\* What the filter leaves, when it is through.
LEMMA FilteredIs == IInv /\ Filtered /\ failures = 0 => ToSet(viable) = Result
<1> SUFFICES ASSUME IInv, Filtered, failures = 0 PROVE ToSet(viable) = Result
  OBVIOUS
<1>1. /\ pc = "filter" /\ todo = <<>> /\ (viable # <<>> \/ jumped) /\ ToSet(todo) = {}
      /\ FilterInv /\ viable \in Seq(Models)
  BY EmptyIs DEF Filtered, IInv, TypeOK
<1>2. ToSet(viable) = Target /\ (jumped => ToSet(candidates) \cap Usable = {})
  BY <1>1 DEF FilterInv
<1>3. viable # <<>> => ToSet(viable) # {}
  BY <1>1, TailIs
<1>4. QED
  BY <1>1, <1>2, <1>3 DEF Target, Result

LEMMA UnsortedStep == IInv /\ Unsorted => IInv'
<1> SUFFICES ASSUME IInv, Unsorted PROVE IInv'
  OBVIOUS
<1>1. TypeOK /\ ViableInv /\ FilterInv /\ DoneInv
  BY DEF IInv
<1>2. /\ Filtered /\ ~Sorts /\ pc' = "done" /\ decision' = viable
      /\ catalog' = catalog /\ costAware' = costAware /\ candidates' = candidates
      /\ jumped' = jumped /\ todo' = todo /\ viable' = viable /\ failures' = failures
      /\ selfHosted' = selfHosted /\ thirdParty' = thirdParty /\ upto' = upto /\ at' = at
  BY DEF Unsorted, given, lists
<1>3. Usable' = Usable
  BY <1>2, SameUsable
<1>4. TypeOK'
  BY <1>1, <1>2 DEF TypeOK
<1>5. ViableInv'
  BY <1>1, <1>2, <1>3 DEF ViableInv
<1>6. FilterInv' /\ SplitInv' /\ SortInv'
  BY <1>2 DEF FilterInv, SplitInv, SortInv
<1>7. ResultInv'
  <2>1. failures = 0 => ToSet(viable) = Result
    BY <1>2, FilteredIs
  <2>2. Result' = Result
    BY <1>2, <1>3 DEF Result
  <2>3. QED
    BY <1>2, <2>1, <2>2 DEF ResultInv
<1>8. CostOrder'
  <2>1. viable \in Seq(Models)
    BY <1>1 DEF TypeOK
  <2>2. DOMAIN viable = 1..Len(viable) /\ Len(viable) \in Nat
    BY <2>1, ElementsAre
  <2>3. costAware => \A i, j \in DOMAIN viable : ~(i < j)
    BY <1>2, <2>2 DEF Sorts
  <2>4. QED
    BY <1>2, <2>3 DEF CostOrder
<1>9. DoneInv'
  BY <1>1, <1>2, <1>8 DEF DoneInv, ViableInv
<1>10. QED
  BY <1>4, <1>5, <1>6, <1>7, <1>9 DEF IInv

LEMMA StartSortStep == IInv /\ StartSort => IInv'
<1> SUFFICES ASSUME IInv, StartSort PROVE IInv'
  OBVIOUS
<1>1. TypeOK /\ ViableInv /\ FilterInv /\ DoneInv
  BY DEF IInv
<1>2. /\ Filtered /\ Sorts /\ pc = "filter" /\ pc' = "split" /\ decision' = decision
      /\ catalog' = catalog /\ costAware' = costAware /\ candidates' = candidates
      /\ jumped' = jumped /\ todo' = viable /\ viable' = viable /\ failures' = failures
      /\ selfHosted' = selfHosted /\ thirdParty' = thirdParty /\ upto' = upto /\ at' = at
  BY DEF StartSort, Filtered, given, lists
<1>3. Usable' = Usable
  BY <1>2, SameUsable
<1>4. TypeOK'
  BY <1>1, <1>2 DEF TypeOK
<1>5. ViableInv'
  BY <1>1, <1>2, <1>3 DEF ViableInv
<1>6. FilterInv' /\ SortInv'
  BY <1>2 DEF FilterInv, SortInv
<1>7. ResultInv'
  <2>1. failures = 0 => ToSet(viable) = Result
    BY <1>2, FilteredIs
  <2>2. Result' = Result
    BY <1>2, <1>3 DEF Result
  <2>3. QED
    BY <1>2, <2>1, <2>2 DEF ResultInv
<1>8. DoneInv'
  BY <1>1, <1>2 DEF DoneInv, CostOrder
<1>9. SplitInv'
  <2>1. selfHosted = <<>> /\ thirdParty = <<>> /\ upto = 2 /\ at = 2
    BY <1>1, <1>2 DEF FilterInv
  <2>2. /\ ToSet(selfHosted) = {} /\ ToSet(thirdParty) = {}
        /\ IsInjective(selfHosted) /\ IsInjective(thirdParty)
        /\ DOMAIN selfHosted = {} /\ DOMAIN thirdParty = {}
    BY <2>1, EmptyIs
  <2>3. Ordered(viable, selfHosted) /\ Ordered(viable, thirdParty) /\ Ordered(viable, viable)
    BY <2>2 DEF Ordered, Before
  <2>4. viable # <<>> /\ costAware
    BY <1>2, EmptyIs DEF Sorts
  <2>5. Parted'
    BY <1>2, <2>2, <2>3, <2>4 DEF Parted
  <2>6. QED
    BY <1>1, <1>2, <2>1, <2>2, <2>3, <2>4, <2>5 DEF SplitInv, ViableInv
<1>10. QED
  BY <1>4, <1>5, <1>6, <1>7, <1>8, <1>9 DEF IInv

\* The sort leaves the viable models and the catalog alone.
LEMMA StillSorting ==
  /\ IInv /\ pc \in {"split", "sort"} /\ pc' \in {"split", "sort"}
  /\ catalog' = catalog /\ costAware' = costAware /\ candidates' = candidates
  /\ viable' = viable /\ decision' = decision /\ (failures' = 0 => failures = 0)
  => ViableInv' /\ FilterInv' /\ ResultInv' /\ DoneInv'
<1> SUFFICES ASSUME IInv, pc \in {"split", "sort"}, pc' \in {"split", "sort"},
                    catalog' = catalog, costAware' = costAware, candidates' = candidates,
                    viable' = viable, decision' = decision, failures' = 0 => failures = 0
             PROVE  ViableInv' /\ FilterInv' /\ ResultInv' /\ DoneInv'
  OBVIOUS
<1>1. ViableInv /\ ResultInv /\ DoneInv
  BY DEF IInv
<1>2. Usable' = Usable
  BY SameUsable
<1>3. Result' = Result
  BY <1>2 DEF Result
<1>4. ViableInv' /\ FilterInv'
  BY <1>1, <1>2 DEF ViableInv, FilterInv
<1>5. ResultInv'
  BY <1>1, <1>3 DEF ResultInv
<1>6. DoneInv'
  BY <1>1 DEF DoneInv, CostOrder
<1>7. QED
  BY <1>4, <1>5, <1>6

LEMMA SplitStep == IInv /\ Split => IInv'
<1> SUFFICES ASSUME IInv, Split PROVE IInv'
  OBVIOUS
<1> DEFINE m == Head(todo)
<1>1. TypeOK /\ ViableInv /\ SplitInv
  BY DEF IInv
<1>2. /\ pc = "split" /\ pc' = IF Len(todo) = 1 THEN "sort" ELSE "split"
      /\ todo' = Tail(todo) /\ decision' = decision
      /\ catalog' = catalog /\ costAware' = costAware /\ candidates' = candidates
      /\ jumped' = jumped /\ viable' = viable /\ upto' = upto /\ at' = at
  BY DEF Split, given
<1>3. PICK card \in Get(m) :
        /\ IF card.selfHosted
           THEN selfHosted' = Append(selfHosted, m) /\ thirdParty' = thirdParty
           ELSE thirdParty' = Append(thirdParty, m) /\ selfHosted' = selfHosted
        /\ failures' = failures + Failed(m, card)
  BY DEF Split
<1>4. /\ Parted /\ todo # <<>> /\ upto = 2 /\ at = 2 /\ IsInjective(todo)
      /\ (ToSet(selfHosted) \union ToSet(thirdParty)) \cap ToSet(todo) = {}
      /\ Ordered(viable, thirdParty) /\ Ordered(viable, todo)
      /\ \A a \in ToSet(selfHosted) \union ToSet(thirdParty), b \in ToSet(todo) : Before(viable, a, b)
      /\ ToSet(viable) = ToSet(selfHosted) \union ToSet(thirdParty) \union ToSet(todo)
  BY <1>1, <1>2 DEF SplitInv
<1>5. /\ costAware /\ IsInjective(selfHosted) /\ IsInjective(thirdParty)
      /\ ToSet(selfHosted) \cap ToSet(thirdParty) = {} /\ Ordered(viable, selfHosted)
      /\ failures = 0 => /\ \A x \in ToSet(selfHosted) : catalog[x].selfHosted
                         /\ \A x \in ToSet(thirdParty) : ~catalog[x].selfHosted
  BY <1>4 DEF Parted
<1>6. /\ todo \in Seq(Models) /\ selfHosted \in Seq(Models) /\ thirdParty \in Seq(Models)
      /\ failures \in Nat
  BY <1>1 DEF TypeOK
<1>7. /\ m \in Models /\ m \in ToSet(todo) /\ Tail(todo) \in Seq(Models)
      /\ ToSet(todo) = {m} \union ToSet(Tail(todo))
      /\ IsInjective(Tail(todo)) /\ m \notin ToSet(Tail(todo))
      /\ Len(todo) \in Nat /\ Len(Tail(todo)) = Len(todo) - 1
  BY <1>4, <1>6, TailIs
<1>8. Ordered(viable, Tail(todo)) /\ \A b \in ToSet(Tail(todo)) : Before(viable, m, b)
  BY <1>4, <1>6, OrderedTail
<1> HIDE DEF m
<1>9. m \in Usable /\ m \notin ToSet(selfHosted) /\ m \notin ToSet(thirdParty)
  BY <1>1, <1>4, <1>7 DEF ViableInv
<1>10. Failed(m, card) \in {0, 1} /\ (Failed(m, card) = 0 => card = catalog[m])
  BY <1>1, <1>3, <1>7, <1>9, GetIs
<1>11. failures' \in Nat /\ (failures' = 0 => failures = 0 /\ card = catalog[m])
  BY <1>3, <1>6, <1>10
<1>12. \A a \in ToSet(selfHosted) \union ToSet(thirdParty) : Before(viable, a, m)
  BY <1>4, <1>7
<1>13. /\ selfHosted' \in Seq(Models) /\ thirdParty' \in Seq(Models)
       /\ IsInjective(selfHosted') /\ IsInjective(thirdParty')
       /\ ToSet(selfHosted') \cap ToSet(thirdParty') = {}
       /\ ToSet(selfHosted') \union ToSet(thirdParty') = ToSet(selfHosted) \union ToSet(thirdParty) \union {m}
       /\ Ordered(viable, selfHosted') /\ Ordered(viable, thirdParty')
       /\ failures' = 0 => /\ \A x \in ToSet(selfHosted') : catalog[x].selfHosted
                           /\ \A x \in ToSet(thirdParty') : ~catalog[x].selfHosted
  <2>1. CASE card.selfHosted
    <3>1. selfHosted' = Append(selfHosted, m) /\ thirdParty' = thirdParty
      BY <1>3, <2>1
    <3>2. /\ selfHosted' \in Seq(Models) /\ IsInjective(selfHosted')
          /\ ToSet(selfHosted') = ToSet(selfHosted) \union {m}
      BY <1>5, <1>6, <1>7, <1>9, <3>1, AppendedIs
    <3>3. Ordered(viable, selfHosted')
      BY <1>5, <1>6, <1>7, <1>12, <3>1, OrderedAppend
    <3>4. QED
      BY <1>4, <1>5, <1>6, <1>9, <1>11, <2>1, <3>1, <3>2, <3>3
  <2>2. CASE ~card.selfHosted
    <3>1. thirdParty' = Append(thirdParty, m) /\ selfHosted' = selfHosted
      BY <1>3, <2>2
    <3>2. /\ thirdParty' \in Seq(Models) /\ IsInjective(thirdParty')
          /\ ToSet(thirdParty') = ToSet(thirdParty) \union {m}
      BY <1>5, <1>6, <1>7, <1>9, <3>1, AppendedIs
    <3>3. Ordered(viable, thirdParty')
      BY <1>4, <1>6, <1>7, <1>12, <3>1, OrderedAppend
    <3>4. QED
      BY <1>4, <1>5, <1>6, <1>9, <1>11, <2>2, <3>1, <3>2, <3>3
  <2>3. QED
    BY <2>1, <2>2
<1>14. pc' \in {"split", "sort"}
  BY <1>2
<1>15. TypeOK'
  BY <1>1, <1>2, <1>7, <1>11, <1>13, <1>14 DEF TypeOK
<1>16. ViableInv' /\ FilterInv' /\ ResultInv' /\ DoneInv'
  BY <1>2, <1>11, <1>14, StillSorting
<1>17. Parted'
  BY <1>2, <1>5, <1>13 DEF Parted
<1>18. SplitInv'
  <2> SUFFICES ASSUME pc' = "split" PROVE SplitInv'
    BY DEF SplitInv
  <2>1. Tail(todo) # <<>>
    BY <1>2, <1>7, EmptyIs
  <2>2. (ToSet(selfHosted') \union ToSet(thirdParty')) \cap ToSet(todo') = {}
    BY <1>2, <1>4, <1>7, <1>13
  <2>3. \A a \in ToSet(selfHosted') \union ToSet(thirdParty'), b \in ToSet(todo') : Before(viable, a, b)
    BY <1>2, <1>4, <1>7, <1>8, <1>13
  <2>4. ToSet(viable) = ToSet(selfHosted') \union ToSet(thirdParty') \union ToSet(todo')
    BY <1>2, <1>4, <1>7, <1>13
  <2>5. QED
    BY <1>2, <1>4, <1>7, <1>8, <1>13, <1>17, <2>1, <2>2, <2>3, <2>4 DEF SplitInv
<1>19. SortInv'
  <2> SUFFICES ASSUME pc' = "sort" PROVE SortInv'
    BY DEF SortInv
  <2>1. Tail(todo) = <<>>
    BY <1>2, <1>7, EmptySeq
  <2>2. ToSet(viable') = ToSet(selfHosted') \union ToSet(thirdParty')
    BY <1>2, <1>4, <1>7, <1>13, <2>1, EmptyIs
  <2>3. at' = 2 /\ upto' = 2
    BY <1>2, <1>4
  <2>4. Inserting(catalog, viable, thirdParty', 2, 2)
    BY <1>13, InsertFirst
  <2>5. QED
    BY <1>2, <1>17, <2>2, <2>3, <2>4 DEF SortInv
<1>20. QED
  BY <1>15, <1>16, <1>18, <1>19 DEF IInv

\* Two neighbours are compared, and change places or not.
LEMMA CompareStep == IInv /\ Compare => IInv'
<1> SUFFICES ASSUME IInv, Compare PROVE IInv'
  OBVIOUS
<1> DEFINE p == thirdParty[at - 1]
           q == thirdParty[at]
<1>1. TypeOK /\ ViableInv /\ SortInv
  BY DEF IInv
<1>2. /\ pc = "sort" /\ pc' = "sort" /\ upto <= Len(thirdParty) /\ at > 1 /\ decision' = decision
      /\ catalog' = catalog /\ costAware' = costAware /\ candidates' = candidates
      /\ jumped' = jumped /\ todo' = todo /\ viable' = viable /\ selfHosted' = selfHosted
  BY DEF Compare, given
<1>3. PICK a \in Get(p), b \in Get(q) :
        /\ failures' = failures + Failed(p, a) + Failed(q, b)
        /\ IF Cheaper(b, a)
           THEN thirdParty' = Swapped(thirdParty, at) /\ at' = at - 1 /\ upto' = upto
           ELSE upto' = upto + 1 /\ at' = upto + 1 /\ thirdParty' = thirdParty
  BY DEF Compare
<1>4. /\ Parted /\ ToSet(viable) = ToSet(selfHosted) \union ToSet(thirdParty)
      /\ at \in 1..upto
      /\ failures = 0 => Inserting(catalog, viable, thirdParty, upto, at)
  BY <1>1, <1>2 DEF SortInv
<1>5. /\ thirdParty \in Seq(Models) /\ Len(thirdParty) \in Nat /\ upto \in Nat /\ failures \in Nat
      /\ DOMAIN thirdParty = 1..Len(thirdParty)
  BY <1>1, ElementsAre DEF TypeOK
<1>6. /\ at \in 2..upto /\ at \in 2..Len(thirdParty) /\ at - 1 \in 1..upto
      /\ at \in DOMAIN thirdParty /\ at - 1 \in DOMAIN thirdParty /\ upto + 1 \in Nat
  BY <1>2, <1>4, <1>5
<1>7. p \in ToSet(thirdParty) /\ q \in ToSet(thirdParty)
  BY <1>6 DEF ToSet
<1>8. p \in Models /\ q \in Models /\ p \in Usable /\ q \in Usable
  BY <1>1, <1>4, <1>5, <1>7, ElementsAre DEF ViableInv
<1> HIDE DEF p, q
<1>9. /\ Failed(p, a) \in {0, 1} /\ (Failed(p, a) = 0 => a = catalog[p])
      /\ Failed(q, b) \in {0, 1} /\ (Failed(q, b) = 0 => b = catalog[q])
  BY <1>1, <1>3, <1>8, GetIs
<1>10. failures' \in Nat /\ (failures' = 0 => failures = 0 /\ a = catalog[p] /\ b = catalog[q])
  BY <1>3, <1>5, <1>9
<1>11. /\ thirdParty' \in Seq(Models) /\ Len(thirdParty') = Len(thirdParty)
       /\ ToSet(thirdParty') = ToSet(thirdParty)
       /\ IsInjective(thirdParty) => IsInjective(thirdParty')
       /\ at' \in Nat /\ upto' \in Nat /\ at' \in 1..upto' /\ (upto' > Len(thirdParty) => at' = upto')
  <2>1. CASE Cheaper(b, a)
    <3>1. thirdParty' = Swapped(thirdParty, at) /\ at' = at - 1 /\ upto' = upto
      BY <1>3, <2>1
    <3>2. /\ thirdParty' \in Seq(Models) /\ Len(thirdParty') = Len(thirdParty)
          /\ ToSet(thirdParty') = ToSet(thirdParty)
          /\ IsInjective(thirdParty) => IsInjective(thirdParty')
      BY <1>5, <1>6, <3>1, SwappedIs
    <3>3. at - 1 \in Nat /\ ~(upto > Len(thirdParty))
      BY <1>2, <1>5, <1>6
    <3>4. QED
      BY <1>5, <1>6, <3>1, <3>2, <3>3
  <2>2. CASE ~Cheaper(b, a)
    <3>1. upto' = upto + 1 /\ at' = upto + 1 /\ thirdParty' = thirdParty
      BY <1>3, <2>2
    <3>2. upto + 1 \in 1..(upto + 1)
      BY <1>5
    <3>3. QED
      BY <1>5, <1>6, <3>1, <3>2
  <2>3. QED
    BY <2>1, <2>2
<1>12. TypeOK'
  BY <1>1, <1>2, <1>10, <1>11 DEF TypeOK
<1>13. ViableInv' /\ FilterInv' /\ ResultInv' /\ DoneInv'
  BY <1>2, <1>10, StillSorting
<1>14. SplitInv'
  BY <1>2 DEF SplitInv
<1>15. Parted'
  BY <1>2, <1>4, <1>10, <1>11 DEF Parted
<1>16. ASSUME failures' = 0
       PROVE  Inserting(catalog, viable, thirdParty', upto', at')
  <2>1. /\ Inserting(catalog, viable, thirdParty, upto, at)
        /\ Cheaper(b, a) <=> catalog[thirdParty[at]].price < catalog[thirdParty[at - 1]].price
    BY <1>4, <1>10, <1>16 DEF Cheaper, p, q
  <2>2. thirdParty \in Seq(ToSet(thirdParty))
    BY <1>5 DEF ToSet
  <2>3. \A m \in ToSet(thirdParty) : catalog[m].price \in Nat
    BY <1>1, <1>4, PricesAre DEF ViableInv, Usable
  <2>4. CASE Cheaper(b, a)
    <3>1. Inserting(catalog, viable, Swapped(thirdParty, at), upto, at - 1)
      BY <1>2, <1>5, <1>6, <2>1, <2>2, <2>3, <2>4, InsertSwap
    <3>2. QED
      BY <1>3, <2>4, <3>1
  <2>5. CASE ~Cheaper(b, a)
    <3>1. at \in 1..upto
      BY <1>4
    <3>2. Inserting(catalog, viable, thirdParty, upto + 1, upto + 1)
      BY <1>2, <1>5, <2>1, <2>2, <2>3, <2>5, <3>1, InsertNext
    <3>3. QED
      BY <1>3, <2>5, <3>2
  <2>6. QED
    BY <2>4, <2>5
<1>17. SortInv'
  BY <1>2, <1>4, <1>11, <1>15, <1>16 DEF SortInv
<1>18. QED
  BY <1>12, <1>13, <1>14, <1>17 DEF IInv

LEMMA AtFrontStep == IInv /\ AtFront => IInv'
<1> SUFFICES ASSUME IInv, AtFront PROVE IInv'
  OBVIOUS
<1>1. TypeOK /\ ViableInv /\ SortInv
  BY DEF IInv
<1>2. /\ pc = "sort" /\ pc' = "sort" /\ upto <= Len(thirdParty) /\ at = 1 /\ decision' = decision
      /\ catalog' = catalog /\ costAware' = costAware /\ candidates' = candidates
      /\ jumped' = jumped /\ todo' = todo /\ viable' = viable /\ selfHosted' = selfHosted
      /\ thirdParty' = thirdParty /\ failures' = failures /\ upto' = upto + 1 /\ at' = upto + 1
  BY DEF AtFront, given
<1>3. /\ Parted /\ ToSet(viable) = ToSet(selfHosted) \union ToSet(thirdParty)
      /\ at \in 1..upto
      /\ failures = 0 => Inserting(catalog, viable, thirdParty, upto, at)
  BY <1>1, <1>2 DEF SortInv
<1>4. thirdParty \in Seq(Models) /\ Len(thirdParty) \in Nat /\ upto \in Nat
  BY <1>1, ElementsAre DEF TypeOK
<1>5. upto + 1 \in Nat /\ upto + 1 \in 1..(upto + 1)
  BY <1>4
<1>6. TypeOK'
  BY <1>1, <1>2, <1>5 DEF TypeOK
<1>7. ViableInv' /\ FilterInv' /\ ResultInv' /\ DoneInv'
  BY <1>2, StillSorting
<1>8. SplitInv'
  BY <1>2 DEF SplitInv
<1>9. Parted'
  BY <1>2, <1>3 DEF Parted
<1>10. ASSUME failures = 0
       PROVE  Inserting(catalog, viable, thirdParty, upto + 1, upto + 1)
  <2>1. thirdParty \in Seq(ToSet(thirdParty))
    BY <1>4 DEF ToSet
  <2>2. \A m \in ToSet(thirdParty) : catalog[m].price \in Nat
    BY <1>1, <1>3, PricesAre DEF ViableInv, Usable
  <2>3. QED
    BY <1>2, <1>3, <1>4, <1>10, <2>1, <2>2, InsertNext
<1>11. SortInv'
  BY <1>2, <1>3, <1>5, <1>9, <1>10 DEF SortInv
<1>12. QED
  BY <1>6, <1>7, <1>8, <1>11 DEF IInv

\* The two lists one after the other are in the order of costs.
LEMMA JoinedInOrder ==
  ASSUME IInv, pc = "sort", upto > Len(thirdParty), failures = 0,
         NEW i \in DOMAIN Joined, NEW j \in DOMAIN Joined, i < j
  PROVE  \/ CostsLess(Joined[i], Joined[j])
         \/ ~CostsLess(Joined[j], Joined[i]) /\ Before(viable, Joined[i], Joined[j])
<1> DEFINE n == Len(selfHosted)
           a == Joined[i]
           b == Joined[j]
<1>1. TypeOK /\ ViableInv /\ SortInv
  BY DEF IInv
<1>2. /\ ToSet(viable) = ToSet(selfHosted) \union ToSet(thirdParty)
      /\ at = upto /\ Inserting(catalog, viable, thirdParty, upto, at)
      /\ Ordered(viable, selfHosted)
      /\ \A m \in ToSet(selfHosted) : catalog[m].selfHosted
      /\ \A m \in ToSet(thirdParty) : ~catalog[m].selfHosted
  BY <1>1 DEF SortInv, Parted
<1>3. /\ selfHosted \in Seq(Models) /\ thirdParty \in Seq(Models) /\ upto \in Nat
      /\ DOMAIN thirdParty = 1..Len(thirdParty) /\ Len(thirdParty) \in Nat
  BY <1>1, ElementsAre DEF TypeOK
<1>4. /\ n \in Nat /\ DOMAIN selfHosted = 1..n
      /\ \A k \in DOMAIN Joined : /\ k \in Int
           /\ \/ k \in DOMAIN selfHosted /\ Joined[k] = selfHosted[k]
              \/ k > n /\ k - n \in DOMAIN thirdParty /\ Joined[k] = thirdParty[k - n]
  BY <1>3, JoinedIs DEF Joined
<1> HIDE DEF n, a, b
<1>5. i \in Int /\ j \in Int
  BY <1>4
<1>6. CASE i \in DOMAIN selfHosted /\ a = selfHosted[i] /\ j \in DOMAIN selfHosted /\ b = selfHosted[j]
  <2>1. Before(viable, a, b)
    BY <1>2, <1>6 DEF Ordered
  <2>2. catalog[a].selfHosted /\ catalog[b].selfHosted
    BY <1>2, <1>6 DEF ToSet
  <2>3. QED
    BY <2>1, <2>2 DEF CostsLess, a, b
<1>7. CASE i \in DOMAIN selfHosted /\ a = selfHosted[i] /\ j - n \in DOMAIN thirdParty /\ b = thirdParty[j - n]
  <2>1. catalog[a].selfHosted /\ ~catalog[b].selfHosted
    BY <1>2, <1>7 DEF ToSet
  <2>2. QED
    BY <2>1 DEF CostsLess, a, b
<1>8. CASE i - n \in DOMAIN thirdParty /\ a = thirdParty[i - n] /\ j - n \in DOMAIN thirdParty /\ b = thirdParty[j - n]
  <2>1. ~catalog[a].selfHosted /\ ~catalog[b].selfHosted /\ a \in ToSet(thirdParty) /\ b \in ToSet(thirdParty)
    BY <1>2, <1>8 DEF ToSet
  <2>2. catalog[a].price \in Nat /\ catalog[b].price \in Nat
    BY <1>1, <1>2, <2>1, PricesAre DEF ViableInv, Usable
  <2>3. i - n < j - n /\ j - n <= upto /\ i - n # at /\ j - n # at
    BY <1>2, <1>3, <1>4, <1>5, <1>8
  <2>4. InOrder(catalog, viable, a, b)
    BY <1>2, <1>8, <2>3 DEF Inserting
  <2>5. QED
    BY <2>1, <2>2, <2>4 DEF CostsLess, InOrder, a, b
<1>9. CASE i > n /\ j \in DOMAIN selfHosted
  BY <1>4, <1>5, <1>9
<1>10. QED
  BY <1>4, <1>6, <1>7, <1>8, <1>9 DEF a, b

LEMMA SortedStep == IInv /\ Sorted => IInv'
<1> SUFFICES ASSUME IInv, Sorted PROVE IInv'
  OBVIOUS
<1>1. TypeOK /\ ViableInv /\ SortInv /\ ResultInv
  BY DEF IInv
<1>2. /\ pc = "sort" /\ upto > Len(thirdParty) /\ pc' = "done" /\ decision' = Joined
      /\ catalog' = catalog /\ costAware' = costAware /\ candidates' = candidates
      /\ jumped' = jumped /\ todo' = todo /\ viable' = viable /\ failures' = failures
      /\ selfHosted' = selfHosted /\ thirdParty' = thirdParty /\ upto' = upto /\ at' = at
  BY DEF Sorted, given, lists
<1>3. /\ costAware /\ IsInjective(selfHosted) /\ IsInjective(thirdParty)
      /\ ToSet(selfHosted) \cap ToSet(thirdParty) = {}
      /\ ToSet(viable) = ToSet(selfHosted) \union ToSet(thirdParty)
  BY <1>1, <1>2 DEF SortInv, Parted
<1>4. selfHosted \in Seq(Models) /\ thirdParty \in Seq(Models)
  BY <1>1 DEF TypeOK
<1>5. Joined \in Seq(Models) /\ IsInjective(Joined) /\ ToSet(Joined) = ToSet(viable)
  BY <1>3, <1>4, JoinedIs DEF Joined
<1>6. Usable' = Usable
  BY <1>2, SameUsable
<1>7. TypeOK'
  BY <1>1, <1>2, <1>5 DEF TypeOK
<1>8. ViableInv'
  BY <1>1, <1>2, <1>6 DEF ViableInv
<1>9. ResultInv'
  <2>1. Result' = Result
    BY <1>2, <1>6 DEF Result
  <2>2. QED
    BY <1>1, <1>2, <2>1 DEF ResultInv
<1>10. FilterInv' /\ SplitInv' /\ SortInv'
  BY <1>2 DEF FilterInv, SplitInv, SortInv
<1>11. CostOrder'
  <2>1. PICK d : d = Joined
    OBVIOUS
  <2>2. ASSUME failures = 0, NEW i \in DOMAIN d, NEW j \in DOMAIN d, i < j
        PROVE  CostsLess(d[i], d[j]) \/ (~CostsLess(d[j], d[i]) /\ Before(viable, d[i], d[j]))
    BY <1>2, <2>1, <2>2, JoinedInOrder
  <2>3. \A a, b : CostsLess(a, b)' <=> CostsLess(a, b)
    BY <1>2 DEF CostsLess
  <2>4. failures = 0 =>
          \A i, j \in DOMAIN d : i < j =>
            CostsLess(d[i], d[j])' \/ (~CostsLess(d[j], d[i])' /\ Before(viable, d[i], d[j]))
    BY <2>2, <2>3
  <2>5. decision' = d
    BY <1>2, <2>1
  <2>6. QED
    BY <1>2, <1>3, <2>4, <2>5 DEF CostOrder, Before
<1>12. DoneInv'
  BY <1>2, <1>5, <1>11 DEF DoneInv
<1>13. QED
  BY <1>7, <1>8, <1>9, <1>10, <1>12 DEF IInv

LEMMA StutterStep == IInv /\ UNCHANGED vars => IInv'
<1> SUFFICES ASSUME IInv, UNCHANGED vars PROVE IInv'
  OBVIOUS
<1>1. UNCHANGED <<catalog, costAware, candidates, pc, jumped, todo, viable>>
  BY DEF vars, given
<1>2. UNCHANGED <<selfHosted, thirdParty, upto, at, decision, failures>>
  BY DEF vars, lists
<1>3. Usable' = Usable
  BY <1>1, SameUsable
<1>4. Target' = Target /\ Result' = Result
  BY <1>1, <1>3 DEF Target, Result
<1>5. TypeOK' /\ ViableInv' /\ FilterInv' /\ ResultInv'
  BY <1>1, <1>2, <1>3, <1>4 DEF IInv, TypeOK, ViableInv, FilterInv, ResultInv
<1>6. Parted' <=> Parted
  BY <1>1, <1>2 DEF Parted
<1>7. SplitInv' /\ SortInv'
  BY <1>1, <1>2, <1>6 DEF IInv, SplitInv, SortInv
<1>8. DoneInv'
  BY <1>1, <1>2 DEF IInv, DoneInv, CostOrder, CostsLess
<1>9. QED
  BY <1>5, <1>7, <1>8 DEF IInv

LEMMA NextStep == IInv /\ [Next]_vars => IInv'
BY FilterStep, JumpStep, SkipStep, UnsortedStep, StartSortStep, SplitStep, CompareStep,
   AtFrontStep, SortedStep, StutterStep DEF Next

----------------------------------------------------------------------------
(* The theorems *)

\* Whatever queries fail, the call of Resolve keeps its invariant.
THEOREM ResolveInvariant == Spec => []IInv
<1>1. Init => IInv
  BY InitInv
<1>2. IInv /\ [Next]_vars => IInv'
  BY NextStep
<1>3. QED
  BY <1>1, <1>2, PTL DEF Spec

\* Every model that Resolve decides for has the capability, allows the tenant and is
\* not down, and none is in the decision twice, however many queries fail.
THEOREM DecisionsAreViable == Spec => []OnlyViableModels
<1>1. IInv => OnlyViableModels
  <2> SUFFICES ASSUME IInv PROVE OnlyViableModels
    OBVIOUS
  <2>1. ViableInv /\ DoneInv /\ TypeOK
    BY DEF IInv
  <2>2. ToSet(decision) \subseteq Usable /\ IsInjective(decision)
    BY <2>1, EmptyIs DEF DoneInv, ViableInv
  <2>3. QED
    BY <2>2 DEF OnlyViableModels, Usable
<1>2. QED
  BY <1>1, ResolveInvariant, PTL

\* Resolve drops no viable model: neither dedupe nor the sort loses one at all, and
\* the filter and the capability jump lose none unless a query fails.
THEOREM DecisionsAreComplete == Spec => []NoViableModelIsLost
<1>1. IInv => NoViableModelIsLost
  <2> SUFFICES ASSUME IInv, pc = "done"
               PROVE  /\ ToSet(decision) = ToSet(viable)
                      /\ failures = 0 => ToSet(decision) = Result
    BY ViableOfIs DEF NoViableModelIsLost, Result
  <2>1. QED
    BY DEF IInv, DoneInv, ResultInv
<1>2. QED
  BY <1>1, ResolveInvariant, PTL

\* When no query fails the decision is in the order of costs, self-hosted models
\* first, and models that cost the same stay in the order in which they were asked for.
THEOREM DecisionsAreInOrder == Spec => []CostOrder
<1>1. IInv => CostOrder
  BY DEF IInv, DoneInv
<1>2. QED
  BY <1>1, ResolveInvariant, PTL
=============================================================================
