-------------------------- MODULE ProviderCallProofs --------------------------
(***************************************************************************)
(* Proofs about ProviderCall, for every number of messages, calls and      *)
(* parts of a reply, and any set of configured protocols.                  *)
(***************************************************************************)
EXTENDS ProviderCall, SequenceTheorems, WellFoundedInduction, TLAPS

----------------------------------------------------------------------------
(* Sequences and what is in them *)

\* A set of natural numbers that is not empty has a least element.
LEMMA LeastNatural ==
  ASSUME NEW T \in SUBSET Nat, T # {}
  PROVE  \E x \in T : \A y \in T : x <= y
<1>1. IsWellFoundedOn(OpToRel(<, Nat), Nat)
  BY NatLessThanWellFounded
<1>2. PICK x \in T : \A y \in T : ~(<<y, x>> \in OpToRel(<, Nat))
  BY <1>1, WFMin, Zenon
<1>3. \A y \in T : ~(y < x)
  <2> TAKE y \in T
  <2>1. <<y, x>> \notin OpToRel(<, Nat) /\ <<y, x>> \in Nat \X Nat
    BY <1>2
  <2>2. QED
    BY <2>1 DEF OpToRel
<1>4. QED
  BY <1>3

LEMMA JoinedIs ==
  ASSUME NEW S, NEW s \in Seq(S), NEW t \in Seq(S)
  PROVE  /\ s \o t \in Seq(S) /\ ToSet(s \o t) = ToSet(s) \union ToSet(t)
         /\ Len(s) \in Nat /\ DOMAIN s = 1..Len(s)
         /\ \A i \in DOMAIN (s \o t) : /\ i \in Int
              /\ \/ i \in DOMAIN s /\ (s \o t)[i] = s[i]
                 \/ i > Len(s) /\ i - Len(s) \in DOMAIN t /\ (s \o t)[i] = t[i - Len(s)]
<1> DEFINE m == Len(s)
           n == Len(t)
           c == s \o t
<1>1. /\ m \in Nat /\ n \in Nat /\ DOMAIN s = 1..m /\ DOMAIN t = 1..n /\ c \in Seq(S)
      /\ DOMAIN c = 1..(m + n) /\ \A i \in 1..(m + n) : c[i] = IF i <= m THEN s[i] ELSE t[i - m]
  <2>1. m \in Nat /\ n \in Nat /\ DOMAIN s = 1..m /\ DOMAIN t = 1..n
    OBVIOUS
  <2>2. c \in Seq(S) /\ Len(c) = m + n /\ \A i \in 1..(m + n) : c[i] = IF i <= m THEN s[i] ELSE t[i - m]
    BY ConcatProperties
  <2>3. DOMAIN c = 1..Len(c)
    BY <2>2
  <2>4. QED
    BY <2>1, <2>2, <2>3
<1> HIDE DEF m, n, c
<1>2. \A i \in DOMAIN c : /\ i \in Int
        /\ \/ i \in DOMAIN s /\ c[i] = s[i]
           \/ i > m /\ i - m \in DOMAIN t /\ c[i] = t[i - m]
  BY <1>1
<1>3. \A i \in DOMAIN s : i \in DOMAIN c /\ c[i] = s[i]
  BY <1>1
<1>4. \A i \in DOMAIN t : m + i \in DOMAIN c /\ c[m + i] = t[i]
  <2> TAKE i \in DOMAIN t
  <2>1. m + i \in 1..(m + n) /\ ~(m + i <= m) /\ m + i - m = i
    BY <1>1
  <2>2. QED
    BY <1>1, <2>1
<1>5. ToSet(c) = ToSet(s) \union ToSet(t)
  <2>1. ASSUME NEW x \in ToSet(c) PROVE x \in ToSet(s) \union ToSet(t)
    BY <1>2 DEF ToSet
  <2>2. ASSUME NEW x \in ToSet(s) \union ToSet(t) PROVE x \in ToSet(c)
    BY <1>3, <1>4 DEF ToSet
  <2>3. QED
    BY <2>1, <2>2
<1>6. QED
  BY <1>1, <1>2, <1>5 DEF m, c

----------------------------------------------------------------------------
(* What is chosen of a sequence *)

\* What is in T is in the order of its numbers.
InOrder(s, T) ==
  \A i, j \in DOMAIN s : i < j /\ s[i] \in T /\ s[j] \in T => s[i].id < s[j].id

\* One turn of the loop over the sequence.
Kept(out, x, T) == IF x \in T THEN Append(out, x) ELSE out

\* What f gives for the first n of them.
Keeps(s, T, n, f) ==
  f = [i \in 0..n |-> IF i = 0 THEN <<>> ELSE Kept(f[i - 1], s[i], T)]

\* The loop has an outcome for every number of them.
LEMMA KeepsExists ==
  ASSUME NEW s, NEW T
  PROVE  \A n \in Nat : \E f : Keeps(s, T, n, f)
<1> DEFINE Bad == {n \in Nat : ~\E f : Keeps(s, T, n, f)}
<1> SUFFICES ASSUME Bad # {} PROVE FALSE
  OBVIOUS
<1>1. PICK n \in Bad : \A k \in Bad : n <= k
  <2>1. Bad \in SUBSET Nat
    OBVIOUS
  <2> HIDE DEF Bad
  <2>2. QED
    BY <2>1, LeastNatural
<1>2. n \in Nat /\ ~\E f : Keeps(s, T, n, f)
  OBVIOUS
<1>3. n # 0
  <2> SUFFICES ASSUME n = 0 PROVE FALSE
    OBVIOUS
  <2> DEFINE f == [i \in 0..0 |-> <<>>]
  <2>1. f = [i \in 0..n |-> IF i = 0 THEN <<>> ELSE Kept(f[i - 1], s[i], T)]
    OBVIOUS
  <2> HIDE DEF f
  <2>2. Keeps(s, T, n, f)
    BY <2>1 DEF Keeps
  <2>3. QED
    BY <1>2, <2>2
<1>4. n - 1 \in Nat /\ ~(n <= n - 1)
  BY <1>2, <1>3
<1>5. PICK g : Keeps(s, T, n - 1, g)
  BY <1>1, <1>4
<1> DEFINE f == [i \in 0..n |-> IF i = n THEN Kept(g[n - 1], s[n], T) ELSE g[i]]
<1>6. \A i \in 0..(n - 1) : g[i] = IF i = 0 THEN <<>> ELSE Kept(g[i - 1], s[i], T)
  BY <1>5 DEF Keeps
<1>7. \A i \in 0..n : f[i] = IF i = 0 THEN <<>> ELSE Kept(f[i - 1], s[i], T)
  <2> TAKE i \in 0..n
  <2>1. CASE i = n
    <3>1. i # 0 /\ i - 1 \in 0..n /\ i - 1 # n /\ i - 1 = n - 1
      BY <1>2, <1>3, <2>1
    <3>2. f[i - 1] = g[n - 1]
      BY <3>1
    <3>3. QED
      BY <2>1, <3>1, <3>2
  <2>2. CASE i # n
    <3>1. i \in 0..(n - 1) /\ f[i] = g[i]
      BY <1>2, <2>2
    <3>2. i # 0 => i - 1 \in 0..n /\ i - 1 # n
      BY <1>2, <3>1
    <3>3. i # 0 => f[i - 1] = g[i - 1]
      BY <3>2
    <3>4. QED
      BY <1>6, <3>1, <3>3
  <2>3. QED
    BY <2>1, <2>2
<1>8. f = [i \in 0..n |-> f[i]]
  OBVIOUS
<1> HIDE DEF f
<1>9. Keeps(s, T, n, f)
  BY <1>7, <1>8 DEF Keeps
<1>10. QED
  BY <1>2, <1>9

\* All that is in T is kept, nothing else, and in order.
LEMMA ChosenIs ==
  ASSUME NEW S, NEW s \in Seq(S), NEW T
  PROVE  LET w == Chosen(s, T)
         IN  /\ w \in Seq(S)
             /\ ToSet(w) = ToSet(s) \cap T
             /\ InOrder(s, T) => Increasing(w)
<1> DEFINE N == Len(s)
           f == CHOOSE g : Keeps(s, T, N, g)
           Good(n) ==
             /\ f[n] \in Seq(S)
             /\ ToSet(f[n]) = {s[i] : i \in {k \in 1..n : s[k] \in T}}
             /\ InOrder(s, T) => Increasing(f[n])
<1>1. N \in Nat /\ DOMAIN s = 1..N /\ \A i \in 1..N : s[i] \in S
  OBVIOUS
<1>2. Keeps(s, T, N, f)
  BY <1>1, KeepsExists
<1>3. Chosen(s, T) = f[N]
  BY DEF Chosen, Keeps, Kept
<1> HIDE DEF f, N
<1>4. f[0] = <<>> /\ \A n \in 1..N : f[n] = Kept(f[n - 1], s[n], T)
  <2>1. f = [i \in 0..N |-> IF i = 0 THEN <<>> ELSE Kept(f[i - 1], s[i], T)]
    BY <1>2 DEF Keeps
  <2>2. 0 \in 0..N /\ \A n \in 1..N : n \in 0..N /\ n # 0
    BY <1>1
  <2>3. QED
    BY <2>1, <2>2
<1> DEFINE Bad == {n \in 0..N : ~Good(n)}
<1>5. Bad = {}
  <2> SUFFICES ASSUME Bad # {} PROVE FALSE
    OBVIOUS
  <2>1. PICK n \in Bad : \A k \in Bad : n <= k
    <3>1. Bad \in SUBSET Nat
      BY <1>1
    <3> HIDE DEF Bad
    <3>2. QED
      BY <3>1, LeastNatural
  <2>2. n \in 0..N /\ n \in Nat /\ ~Good(n)
    BY <1>1
  <2>3. n # 0
    <3> SUFFICES ASSUME n = 0 PROVE FALSE
      OBVIOUS
    <3>1. f[n] = <<>> /\ 1..n = {}
      BY <1>4
    <3>2. <<>> \in Seq(S) /\ ToSet(<<>>) = {} /\ DOMAIN <<>> = {}
      BY DEF ToSet
    <3>3. Good(n)
      BY <3>1, <3>2 DEF Increasing
    <3>4. QED
      BY <2>2, <3>3
  <2>4. n - 1 \in 0..N /\ ~(n <= n - 1) /\ n \in 1..N
    BY <1>1, <2>2, <2>3
  <2>5. Good(n - 1)
    <3>1. n - 1 \notin Bad
      BY <2>1, <2>4
    <3> HIDE DEF Good
    <3>2. QED
      BY <2>4, <3>1
  <2> DEFINE out == f[n - 1]
             x == s[n]
             Places(k) == {i \in 1..k : s[i] \in T}
  <2>6. /\ out \in Seq(S) /\ ToSet(out) = {s[i] : i \in Places(n - 1)}
        /\ InOrder(s, T) => Increasing(out)
    BY <2>5
  <2>7. f[n] = Kept(out, x, T) /\ x \in S
    BY <1>1, <1>4, <2>4
  <2>8. Places(n) = IF x \in T THEN Places(n - 1) \union {n} ELSE Places(n - 1)
    <3>1. \A i \in 1..n : i = n \/ i \in 1..(n - 1)
      BY <2>2
    <3>2. \A i \in 1..(n - 1) : i \in 1..n
      BY <2>2
    <3>3. n \in 1..n /\ n \notin 1..(n - 1)
      BY <2>2, <2>3
    <3>4. QED
      BY <3>1, <3>2, <3>3
  <2>9. \A i \in Places(n - 1) : i \in 1..N /\ i < n /\ s[i] \in T
    BY <1>1, <2>2, <2>4
  <2> HIDE DEF out, x, Places
  <2>10. CASE x \notin T
    <3>1. f[n] = out /\ Places(n) = Places(n - 1)
      BY <2>7, <2>8, <2>10 DEF Kept
    <3>2. Good(n)
      BY <2>6, <3>1 DEF Places
    <3>3. QED
      BY <2>2, <3>2
  <2>11. CASE x \in T
    <3> DEFINE l == Len(out)
               a == Append(out, x)
    <3>1. f[n] = a /\ Places(n) = Places(n - 1) \union {n}
      BY <2>7, <2>8, <2>11 DEF Kept
    <3>2. /\ a \in Seq(S) /\ l \in Nat /\ DOMAIN out = 1..l /\ DOMAIN a = 1..(l + 1)
          /\ a[l + 1] = x /\ \A i \in 1..l : a[i] = out[i]
      BY <2>6, <2>7
    <3> HIDE DEF a, l
    <3>3. ToSet(a) = ToSet(out) \union {x}
      <4>1. ASSUME NEW y \in ToSet(a) PROVE y \in ToSet(out) \union {x}
        <5>1. PICK i \in 1..(l + 1) : y = a[i]
          BY <3>2 DEF ToSet
        <5>2. i = l + 1 \/ i \in 1..l
          BY <3>2
        <5>3. QED
          BY <3>2, <5>1, <5>2 DEF ToSet
      <4>2. ASSUME NEW y \in ToSet(out) \union {x} PROVE y \in ToSet(a)
        <5>1. l + 1 \in 1..(l + 1) /\ \A i \in 1..l : i \in 1..(l + 1)
          BY <3>2
        <5>2. QED
          BY <3>2, <5>1 DEF ToSet
      <4>3. QED
        BY <4>1, <4>2
    <3>4. {s[i] : i \in Places(n)} = {s[i] : i \in Places(n - 1)} \union {x}
      BY <3>1 DEF x
    <3>5. ASSUME InOrder(s, T) PROVE Increasing(a)
      <4> SUFFICES ASSUME NEW i \in 1..(l + 1), NEW j \in 1..(l + 1), i < j
                   PROVE  a[i].id < a[j].id
        BY <3>2 DEF Increasing
      <4>1. i \in 1..l
        BY <3>2
      <4>2. CASE j = l + 1
        <5>1. a[i] \in ToSet(out)
          BY <3>2, <4>1 DEF ToSet
        <5>2. PICK k \in Places(n - 1) : a[i] = s[k]
          BY <2>6, <5>1
        <5>3. k \in DOMAIN s /\ n \in DOMAIN s /\ k < n /\ s[k] \in T /\ s[n] \in T
          BY <1>1, <2>4, <2>9, <2>11 DEF x
        <5>4. s[k].id < s[n].id
          BY <3>5, <5>3 DEF InOrder
        <5>5. QED
          BY <3>2, <4>2, <5>2, <5>4 DEF x
      <4>3. CASE j # l + 1
        <5>1. j \in 1..l
          BY <3>2, <4>3
        <5>2. out[i].id < out[j].id
          BY <2>6, <3>2, <3>5, <4>1, <5>1 DEF Increasing
        <5>3. QED
          BY <3>2, <4>1, <5>1, <5>2
      <4>4. QED
        BY <4>2, <4>3
    <3>6. Good(n)
      BY <2>6, <3>1, <3>2, <3>3, <3>4, <3>5 DEF Places
    <3>7. QED
      BY <2>2, <3>6
  <2>12. QED
    BY <2>10, <2>11
<1>6. Good(N)
  <2>1. N \in 0..N
    BY <1>1
  <2> HIDE DEF Good
  <2>2. N \in 0..N /\ ~Good(N) => N \in Bad
    OBVIOUS
  <2> HIDE DEF Bad
  <2>3. QED
    BY <1>5, <2>1, <2>2
<1>7. {s[i] : i \in {k \in 1..N : s[k] \in T}} = ToSet(s) \cap T
  BY <1>1 DEF ToSet
<1>8. QED
  BY <1>3, <1>6, <1>7

----------------------------------------------------------------------------
(* What is sent *)

Message == [id : Nat, role : Roles]
SystemMessage == [id : Nat, role : {"system"}]
Turn == [id : Nat, role : Roles \ {"system"}]

\* Every message is of one kind and not of the other.
LEMMA TwoKinds ==
  ASSUME NEW msgs \in Seq(Message)
  PROVE  \A m \in ToSet(msgs) :
           \/ m \in SystemMessage /\ m \notin Turn
           \/ m \in Turn /\ m \notin SystemMessage /\ m.role # "system"
<1>1. \A i \in DOMAIN msgs : msgs[i] \in Message
  OBVIOUS
<1>2. ASSUME NEW m \in Message
      PROVE  \/ m \in SystemMessage /\ m \notin Turn
             \/ m \in Turn /\ m \notin SystemMessage /\ m.role # "system"
  BY <1>2 DEF Message, SystemMessage, Turn
<1>3. QED
  BY <1>1, <1>2 DEF ToSet

\* Hoisting keeps the messages and the order of either kind.
LEMMA HoistIs ==
  ASSUME NEW msgs \in Seq(Message), Increasing(msgs)
  PROVE  LET h == hoistSystem(msgs)
         IN  /\ h \in Seq(Message) /\ ToSet(h) = ToSet(msgs)
             /\ InOrder(h, SystemMessage) /\ InOrder(h, Turn)
<1> DEFINE s == SystemMessages(msgs)
           t == Turns(msgs)
           h == hoistSystem(msgs)
<1>1. InOrder(msgs, SystemMessage) /\ InOrder(msgs, Turn)
  BY DEF Increasing, InOrder
<1>2. /\ s \in Seq(Message) /\ Increasing(s)
      /\ ToSet(s) = ToSet(msgs) \cap SystemMessage
  BY <1>1, ChosenIs DEF SystemMessages, SystemMessage
<1>3. /\ t \in Seq(Message) /\ Increasing(t)
      /\ ToSet(t) = ToSet(msgs) \cap Turn
  BY <1>1, ChosenIs DEF Turns, Turn
<1>4. h = s \o t
  BY DEF hoistSystem
<1> HIDE DEF s, t, h
<1>5. /\ h \in Seq(Message) /\ ToSet(h) = ToSet(s) \union ToSet(t)
      /\ Len(s) \in Nat /\ DOMAIN s = 1..Len(s)
      /\ \A i \in DOMAIN h : /\ i \in Int
           /\ \/ i \in DOMAIN s /\ h[i] = s[i]
              \/ i > Len(s) /\ i - Len(s) \in DOMAIN t /\ h[i] = t[i - Len(s)]
  BY <1>2, <1>3, <1>4, JoinedIs
<1>6. \A m \in ToSet(msgs) :
        \/ m \in SystemMessage /\ m \notin Turn
        \/ m \in Turn /\ m \notin SystemMessage
  BY TwoKinds
<1>7. ToSet(h) = ToSet(msgs)
  BY <1>2, <1>3, <1>5, <1>6
<1>8. /\ \A i \in DOMAIN s : s[i] \notin Turn
      /\ \A i \in DOMAIN t : t[i] \notin SystemMessage
  <2>1. \A i \in DOMAIN s : s[i] \in ToSet(s)
    BY DEF ToSet
  <2>2. \A i \in DOMAIN t : t[i] \in ToSet(t)
    BY DEF ToSet
  <2>3. QED
    BY <1>2, <1>3, <1>6, <2>1, <2>2
<1>9. InOrder(h, SystemMessage)
  <2> SUFFICES ASSUME NEW i \in DOMAIN h, NEW j \in DOMAIN h, i < j,
                      h[i] \in SystemMessage, h[j] \in SystemMessage
               PROVE  h[i].id < h[j].id
    BY DEF InOrder
  <2>1. i \in DOMAIN s /\ h[i] = s[i] /\ j \in DOMAIN s /\ h[j] = s[j]
    BY <1>5, <1>8
  <2>2. QED
    BY <1>2, <2>1 DEF Increasing
<1>10. InOrder(h, Turn)
  <2> SUFFICES ASSUME NEW i \in DOMAIN h, NEW j \in DOMAIN h, i < j,
                      h[i] \in Turn, h[j] \in Turn
               PROVE  h[i].id < h[j].id
    BY DEF InOrder
  <2> DEFINE n == Len(s)
  <2>1. /\ i - n \in DOMAIN t /\ h[i] = t[i - n] /\ j - n \in DOMAIN t /\ h[j] = t[j - n]
        /\ i \in Int /\ j \in Int /\ n \in Nat
    BY <1>5, <1>8
  <2> HIDE DEF n
  <2>2. i - n < j - n
    BY <2>1
  <2>3. QED
    BY <1>3, <2>1, <2>2 DEF Increasing
<1>11. QED
  BY <1>5, <1>7, <1>9, <1>10 DEF h

\* What an upstream gets: the same messages, each part in the client's order.
LEMMA WireIs ==
  ASSUME NEW msgs \in Seq(Message), Increasing(msgs), NEW card \in Card, NEW conf,
         Transport(Kind(card), conf) # "echo"
  PROVE  LET w == Wire(Transport(Kind(card), conf), normalize(card, msgs))
         IN  /\ ToSet(w.system \o w.turns) = ToSet(msgs)
             /\ Increasing(w.system) /\ Increasing(w.turns)
             /\ IF Kind(card) = "claude" THEN \A m \in ToSet(w.turns) : m.role # "system"
                ELSE w.system = <<>>
<1> DEFINE T == Transport(Kind(card), conf)
           w == Wire(T, normalize(card, msgs))
<1>1. CASE Kind(card) = "claude"
  <2> DEFINE h == hoistSystem(msgs)
             s == SystemMessages(h)
             t == Turns(h)
  <2>1. T = "claude" /\ normalize(card, msgs) = h
    BY <1>1 DEF Transport, normalize
  <2>2. w.system = s /\ w.turns = t
    BY <2>1 DEF Wire, splitSystem
  <2>3. /\ h \in Seq(Message) /\ ToSet(h) = ToSet(msgs)
        /\ InOrder(h, SystemMessage) /\ InOrder(h, Turn)
    BY HoistIs
  <2> HIDE DEF h
  <2>4. /\ s \in Seq(Message) /\ Increasing(s)
        /\ ToSet(s) = ToSet(h) \cap SystemMessage
    BY <2>3, ChosenIs DEF SystemMessages, SystemMessage
  <2>5. /\ t \in Seq(Message) /\ Increasing(t)
        /\ ToSet(t) = ToSet(h) \cap Turn
    BY <2>3, ChosenIs DEF Turns, Turn
  <2> HIDE DEF s, t
  <2>6. ToSet(s \o t) = ToSet(s) \union ToSet(t)
    BY <2>4, <2>5, JoinedIs
  <2>7. \A m \in ToSet(h) :
          \/ m \in SystemMessage /\ m \notin Turn
          \/ m \in Turn /\ m \notin SystemMessage /\ m.role # "system"
    BY <2>3, TwoKinds
  <2>8. ToSet(s \o t) = ToSet(msgs)
    BY <2>3, <2>4, <2>5, <2>6, <2>7
  <2>9. \A m \in ToSet(t) : m.role # "system"
    BY <2>5, <2>7
  <2> HIDE DEF w
  <2>10. QED
    BY <1>1, <2>2, <2>4, <2>5, <2>8, <2>9 DEF w
<1>2. CASE Kind(card) # "claude"
  <2>1. T = "openai" /\ normalize(card, msgs) = msgs
    BY <1>2 DEF Transport, normalize
  <2>2. w.system = <<>> /\ w.turns = msgs
    BY <2>1 DEF Wire
  <2>3. ToSet(<<>> \o msgs) = ToSet(msgs)
    BY ConcatEmptySeq
  <2>4. Increasing(<<>>)
    BY DEF Increasing
  <2> HIDE DEF w
  <2>5. QED
    BY <1>2, <2>2, <2>3, <2>4 DEF w
<1>3. QED
  BY <1>1, <1>2

----------------------------------------------------------------------------
(* The inductive invariant *)

TypeOK ==
  /\ chain \in Seq(Card) /\ (pc # "done" => chain # <<>>)
  /\ messages \in Seq(Message) /\ \A i \in DOMAIN messages : messages[i].id = i
  /\ stream \in BOOLEAN
  /\ pc \in {"new", "call", "waiting", "answered", "streaming", "done"}

\* What was posted is what transport and adapter make of the client's messages,
\* whatever models were called before.
PostInv ==
  pc = "waiting" =>
    /\ TransportNow # "echo"
    /\ posted = Wire(TransportNow, normalize(Head(chain), messages))

\* The last reply is one that serves any call.
Served == reply.ok /\ reply.decodes /\ "text" \in ToSet(reply.parts)

\* The answer is an echo of a model without credentials, or the upstream's, whole.
Real ==
  IF Kind(Head(chain)) \notin configured THEN answer = Echoed
  ELSE /\ reply.ok /\ Increasing(answer)
       /\ ToSet(answer) = {[id |-> i, kind |-> "text"] : i \in Texts(Kind(Head(chain)), reply)}

\* What the client has got when it is answered.
Complete ==
  IF stream THEN <<Frame("answer", answer), Frame("end", <<>>)>> ELSE <<Frame("answer", answer)>>

AnswerInv ==
  /\ pc \in {"new", "call", "waiting"} => written = <<>> /\ ~Served
  /\ pc = "answered" => written = <<>> /\ Real
  /\ pc = "streaming" => written = <<Frame("answer", answer)>> /\ stream /\ Real
  /\ pc = "done" =>
       \/ written = Error /\ ~Served
       \/ written = Complete /\ Real

IInv == TypeOK /\ PostInv /\ AnswerInv

----------------------------------------------------------------------------
(* The steps *)

LEMMA TwoFrames == ASSUME NEW x, NEW y PROVE Append(<<x>>, y) = <<x, y>>
<1>1. ASSUME NEW S, NEW a \in Seq(S), NEW e \in S, Len(a) = 1
      PROVE  /\ Append(a, e) \in Seq(S) /\ Len(Append(a, e)) = 2
             /\ Append(a, e)[1] = a[1] /\ Append(a, e)[2] = e
  <2>1. /\ Append(a, e) \in Seq(S) /\ Len(Append(a, e)) = Len(a) + 1
        /\ Append(a, e)[Len(a) + 1] = e
        /\ \A i \in 1..Len(a) : Append(a, e)[i] = a[i]
    BY AppendProperties
  <2>2. QED
    BY <1>1, <2>1
<1>2. ASSUME NEW S, NEW b \in Seq(S), NEW c \in Seq(S), Len(b) = 2, Len(c) = 2,
             b[1] = c[1], b[2] = c[2]
      PROVE  b = c
  <2>1. \A i \in 1..Len(b) : b[i] = c[i]
    BY <1>2
  <2>2. QED
    BY <1>2, <2>1, SeqEqual
<1> DEFINE S == {x, y}
           a == <<x>>
           c == <<x, y>>
<1>3. a \in Seq(S) /\ Len(a) = 1 /\ a[1] = x /\ y \in S
  OBVIOUS
<1>4. c \in Seq(S) /\ Len(c) = 2 /\ c[1] = x /\ c[2] = y
  OBVIOUS
<1> HIDE DEF S, a, c
<1>5. PICK e : e = y
  OBVIOUS
<1>6. a \in Seq(S) /\ e \in S /\ Len(a) = 1
  BY <1>3, <1>5
<1>7. /\ Append(a, e) \in Seq(S) /\ Len(Append(a, e)) = 2
      /\ Append(a, e)[1] = a[1] /\ Append(a, e)[2] = e
  BY <1>1, <1>6
<1> DEFINE b == Append(a, e)
<1> HIDE DEF b
<1>8. /\ b \in Seq(S) /\ c \in Seq(S) /\ Len(b) = 2 /\ Len(c) = 2
      /\ b[1] = c[1] /\ b[2] = c[2]
  BY <1>3, <1>4, <1>5, <1>7 DEF b
<1>9. b = c
  BY <1>2, <1>8
<1>10. QED
  BY <1>5, <1>9 DEF a, b, c

\* Whatever is written of an answer is no error,
LEMMA NoneIsError == <<>> # Error /\ <<Frame("answer", answer)>> # Error /\ Complete # Error
<1>1. /\ <<>> # <<Frame("error", <<>>)>>
      /\ <<Frame("answer", answer), Frame("end", <<>>)>> # <<Frame("error", <<>>)>>
  OBVIOUS
<1>2. Frame("answer", answer) # Frame("error", <<>>)
  <2>1. Frame("answer", answer).kind # Frame("error", <<>>).kind
    BY DEF Frame
  <2>2. QED
    BY <2>1
<1>3. <<Frame("answer", answer)>> # <<Frame("error", <<>>)>>
  BY <1>2
<1>4. QED
  BY <1>1, <1>3 DEF Complete, Error

\* and begins with its text.
LEMMA HeadIsAnswer ==
  /\ Head(<<Frame("answer", answer)>>).text = answer
  /\ Head(Complete).text = answer
<1>1. ASSUME NEW x, NEW y PROVE Head(<<x>>) = x /\ Head(<<x, y>>) = x
  OBVIOUS
<1>2. Frame("answer", answer).text = answer
  BY DEF Frame
<1>3. QED
  BY <1>1, <1>2 DEF Complete

\* It is the answer, and if streamed the end of it.
LEMMA CompleteHasItsForm ==
  [i \in DOMAIN Complete |-> Complete[i].kind] = IF stream THEN <<"answer", "end">> ELSE <<"answer">>
<1>1. ASSUME NEW x PROVE [i \in DOMAIN <<x>> |-> <<x>>[i].kind] = <<x.kind>>
  OBVIOUS
<1>2. ASSUME NEW x, NEW y
      PROVE  [i \in DOMAIN <<x, y>> |-> <<x, y>>[i].kind] = <<x.kind, y.kind>>
  OBVIOUS
<1>3. Frame("answer", answer).kind = "answer" /\ Frame("end", <<>>).kind = "end"
  BY DEF Frame
<1>4. QED
  BY <1>1, <1>2, <1>3 DEF Complete

LEMMA InitInv == Init => IInv
<1> SUFFICES ASSUME Init PROVE IInv
  OBVIOUS
<1>1. chain \in SeqOf(Card, MaxCalls) \ {<<>>}
  BY DEF Init
<1>2. chain \in Seq(Card) /\ chain # <<>>
  BY <1>1, ProviderAssumption DEF SeqOf
<1>3. /\ stream \in BOOLEAN /\ messages = <<>> /\ pc = "new" /\ written = <<>>
      /\ reply = NoReply
  BY DEF Init
<1>4. messages \in Seq(Message) /\ \A i \in DOMAIN messages : messages[i].id = i
  BY <1>3
<1>5. TypeOK
  BY <1>2, <1>3, <1>4 DEF TypeOK
<1>6. PostInv
  BY <1>3 DEF PostInv
<1>7. ~Served
  BY <1>3 DEF Served, NoReply
<1>8. AnswerInv
  BY <1>3, <1>7 DEF AnswerInv
<1>9. QED
  BY <1>5, <1>6, <1>8 DEF IInv

LEMMA RequestStep ==
  IInv /\ (BadRequest \/ \E roles \in SeqOf(Roles, MaxMessages) : ChatCompletions(roles)) => IInv'
<1> SUFFICES ASSUME IInv, BadRequest \/ \E roles \in SeqOf(Roles, MaxMessages) : ChatCompletions(roles)
             PROVE  IInv'
  OBVIOUS
<1>1. TypeOK /\ AnswerInv
  BY DEF IInv
<1>2. CASE BadRequest
  <2>1. /\ pc = "new" /\ pc' = "done" /\ written' = Error
        /\ chain' = chain /\ stream' = stream /\ messages' = messages /\ reply' = reply
    BY <1>2 DEF BadRequest, callVars
  <2>2. TypeOK' /\ PostInv'
    BY <1>1, <2>1 DEF TypeOK, PostInv
  <2>3. ~Served'
    BY <1>1, <2>1 DEF AnswerInv, Served
  <2>4. AnswerInv'
    BY <2>1, <2>3 DEF AnswerInv
  <2>5. QED
    BY <2>2, <2>4 DEF IInv
<1>3. ASSUME NEW roles \in SeqOf(Roles, MaxMessages), ChatCompletions(roles)
      PROVE  IInv'
  <2>1. /\ pc = "new" /\ pc' = "call" /\ written' = written
        /\ chain' = chain /\ stream' = stream /\ reply' = reply
        /\ messages' = [i \in DOMAIN roles |-> [id |-> i, role |-> roles[i]]]
    BY <1>3 DEF ChatCompletions
  <2>2. PICK n \in 0..MaxMessages : roles \in [1..n -> Roles]
    BY <1>3 DEF SeqOf
  <2>3. /\ messages' = [i \in 1..n |-> [id |-> i, role |-> roles[i]]] /\ n \in Nat
        /\ \A i \in 1..n : [id |-> i, role |-> roles[i]] \in Message
    BY <2>1, <2>2, ProviderAssumption DEF Message
  <2>4. messages' \in Seq(Message) /\ \A i \in DOMAIN messages' : messages'[i].id = i
    BY <2>3
  <2>5. TypeOK' /\ PostInv'
    BY <1>1, <2>1, <2>4 DEF TypeOK, PostInv
  <2>6. ~Served'
    BY <1>1, <2>1 DEF AnswerInv, Served
  <2>7. AnswerInv'
    BY <1>1, <2>1, <2>6 DEF AnswerInv
  <2>8. QED
    BY <2>5, <2>7 DEF IInv
<1>4. QED
  BY <1>2, <1>3

LEMMA AnsweringStep == IInv /\ Answering => IInv'
<1> SUFFICES ASSUME IInv, Answering PROVE IInv'
  OBVIOUS
<1>1. TypeOK /\ AnswerInv
  BY DEF IInv
<1>2. /\ chain' = chain /\ stream' = stream /\ messages' = messages
      /\ reply' = reply /\ answer' = answer /\ configured' = configured
      /\ pc' \in {"streaming", "done"}
  BY DEF Answering, WriteJSON, WriteDelta, WriteDone, callVars
<1>3. TypeOK' /\ PostInv'
  <2>1. chain # <<>>
    BY <1>1 DEF Answering, WriteJSON, WriteDelta, WriteDone, TypeOK
  <2>2. QED
    BY <1>1, <1>2, <2>1 DEF TypeOK, PostInv
<1>4. Real' <=> Real
  BY <1>2 DEF Real
<1>5. CASE WriteJSON
  <2>1. pc = "answered" /\ ~stream /\ pc' = "done" /\ written' = <<Frame("answer", answer)>>
    BY <1>5 DEF WriteJSON
  <2>2. QED
    BY <1>1, <1>2, <1>3, <1>4, <2>1 DEF IInv, AnswerInv, Complete
<1>6. CASE WriteDelta
  <2>1. pc = "answered" /\ stream /\ pc' = "streaming" /\ written' = <<Frame("answer", answer)>>
    BY <1>6 DEF WriteDelta
  <2>2. QED
    BY <1>1, <1>2, <1>3, <1>4, <2>1 DEF IInv, AnswerInv
<1>7. CASE WriteDone
  <2>1. pc = "streaming" /\ pc' = "done" /\ written' = Append(written, Frame("end", <<>>))
    BY <1>7 DEF WriteDone
  <2>2. written = <<Frame("answer", answer)>> /\ stream /\ Real
    BY <1>1, <2>1 DEF AnswerInv
  <2>3. written' = <<Frame("answer", answer), Frame("end", <<>>)>>
    BY <2>1, <2>2, TwoFrames, Zenon
  <2>4. written' = Complete'
    BY <1>2, <2>2, <2>3 DEF Complete
  <2>5. AnswerInv'
    BY <1>2, <1>4, <2>1, <2>2, <2>4 DEF AnswerInv
  <2>6. QED
    BY <1>3, <2>5 DEF IInv
<1>8. QED
  BY <1>5, <1>6, <1>7 DEF Answering

LEMMA EchoStep == IInv /\ Echo => IInv'
<1> SUFFICES ASSUME IInv, Echo PROVE IInv'
  OBVIOUS
<1>1. TypeOK /\ AnswerInv
  BY DEF IInv
<1>2. /\ pc = "call" /\ pc' = "answered" /\ answer' = Echoed /\ TransportNow = "echo"
      /\ chain' = chain /\ stream' = stream /\ messages' = messages
      /\ reply' = reply /\ configured' = configured /\ written' = written
  BY DEF Echo
<1>3. TypeOK' /\ PostInv'
  BY <1>1, <1>2 DEF TypeOK, PostInv
<1>4. Kind(Head(chain)) \notin configured
  BY <1>2 DEF TransportNow, Transport
<1>5. Real'
  BY <1>2, <1>4 DEF Real
<1>6. AnswerInv'
  BY <1>1, <1>2, <1>5 DEF AnswerInv
<1>7. QED
  BY <1>3, <1>6 DEF IInv

LEMMA PostStep == IInv /\ Post => IInv'
<1> SUFFICES ASSUME IInv, Post PROVE IInv'
  OBVIOUS
<1>1. TypeOK /\ AnswerInv
  BY DEF IInv
<1>2. /\ pc = "call" /\ pc' = "waiting" /\ TransportNow # "echo"
      /\ posted' = Wire(TransportNow, normalize(Head(chain), messages))
      /\ chain' = chain /\ stream' = stream /\ messages' = messages
      /\ reply' = reply /\ configured' = configured /\ written' = written
  BY DEF Post
<1>3. TypeOK'
  BY <1>1, <1>2 DEF TypeOK
<1>4. TransportNow' = TransportNow
  BY <1>2 DEF TransportNow
<1>5. PostInv'
  BY <1>2, <1>4 DEF PostInv
<1>6. Served' <=> Served
  BY <1>2 DEF Served
<1>7. AnswerInv'
  BY <1>1, <1>2, <1>6 DEF AnswerInv
<1>8. QED
  BY <1>3, <1>5, <1>7 DEF IInv

\* A call that fails leaves the request with the next model, or without an answer.
LEMMA FailsKeeps ==
  IInv /\ pc = "waiting" /\ Fails /\ ~Served' /\ UNCHANGED <<stream, messages, configured>> => IInv'
<1> SUFFICES ASSUME IInv, pc = "waiting", Fails, ~Served',
                    UNCHANGED <<stream, messages, configured>>
             PROVE  IInv'
  OBVIOUS
<1>1. TypeOK /\ AnswerInv
  BY DEF IInv
<1>2. chain \in Seq(Card) /\ chain # <<>>
  BY <1>1 DEF TypeOK
<1>3. Tail(chain) \in Seq(Card) /\ Len(Tail(chain)) = Len(chain) - 1
  BY <1>2, HeadTailProperties
<1>4. CASE Len(chain) = 1
  <2>1. chain' = Tail(chain) /\ pc' = "done" /\ written' = Error
    BY <1>4 DEF Fails
  <2>2. TypeOK' /\ PostInv'
    BY <1>1, <1>3, <2>1 DEF TypeOK, PostInv
  <2>3. AnswerInv'
    BY <2>1 DEF AnswerInv
  <2>4. QED
    BY <2>2, <2>3 DEF IInv
<1>5. CASE Len(chain) # 1
  <2>1. chain' = Tail(chain) /\ pc' = "call" /\ written' = written
    BY <1>5 DEF Fails
  <2>2. Tail(chain) # <<>>
    BY <1>2, <1>3, <1>5
  <2>3. TypeOK' /\ PostInv'
    BY <1>1, <1>3, <2>1, <2>2 DEF TypeOK, PostInv
  <2>4. AnswerInv'
    BY <1>1, <2>1 DEF AnswerInv
  <2>5. QED
    BY <2>3, <2>4 DEF IInv
<1>6. QED
  BY <1>4, <1>5

LEMMA UnansweredStep == IInv /\ Unanswered => IInv'
<1> SUFFICES ASSUME IInv, Unanswered PROVE IInv'
  OBVIOUS
<1>1. pc = "waiting" /\ Fails /\ stream' = stream /\ messages' = messages
      /\ configured' = configured /\ reply' = reply
  BY DEF Unanswered, callVars
<1>2. ~Served'
  BY <1>1 DEF IInv, AnswerInv, Served
<1>3. QED
  BY <1>1, <1>2, FailsKeeps

Part == [id : Nat, kind : {"text", "other"}]

\* What is made of a reply that serves, and which do not.
LEMMA ServesIs ==
  ASSUME NEW r \in Reply, NEW transport
  PROVE  /\ Serves(transport, r) => r.ok
         /\ r.ok /\ r.decodes /\ "text" \in ToSet(r.parts) => Serves(transport, r)
<1>1. "text" \in ToSet(r.parts) => r.parts # <<>>
  BY DEF ToSet
<1>2. QED
  BY <1>1 DEF Serves

\* The text of the first choice, and of all the blocks, in their order.
LEMMA ContentIs ==
  ASSUME NEW r \in Reply, NEW kind, NEW transport, transport = "openai" <=> kind # "claude"
  PROVE  /\ Increasing(Content(transport, r))
         /\ ToSet(Content(transport, r)) = {[id |-> i, kind |-> "text"] : i \in Texts(kind, r)}
<1> DEFINE s == Placed(r.parts)
           T == [id : IF transport = "openai" THEN {1} ELSE Nat, kind : {"text"}]
<1>1. PICK n \in 0..MaxParts : r.parts \in [1..n -> {"text", "other"}]
  BY DEF Reply, SeqOf
<1>2. n \in Nat /\ DOMAIN r.parts = 1..n /\ \A i \in 1..n : r.parts[i] \in {"text", "other"}
  BY <1>1, ProviderAssumption
<1>3. /\ s = [i \in 1..n |-> [id |-> i, kind |-> r.parts[i]]]
      /\ \A i \in 1..n : [id |-> i, kind |-> r.parts[i]] \in Part
  BY <1>2 DEF Placed, Part
<1>4. /\ s \in Seq(Part) /\ DOMAIN s = 1..n
      /\ \A i \in 1..n : s[i] = [id |-> i, kind |-> r.parts[i]]
  BY <1>2, <1>3
<1>5. Content(transport, r) = Chosen(s, T)
  BY DEF Content
<1> HIDE DEF s
<1>6. \A i \in 1..n : s[i].id = i
  BY <1>4
<1>7. InOrder(s, T)
  BY <1>4, <1>6 DEF InOrder
<1>8. \A i \in 1..n : s[i] \in T <=> i \in Texts(kind, r)
  <2> TAKE i \in 1..n
  <2>1. i \in Nat /\ s[i] = [id |-> i, kind |-> r.parts[i]]
    BY <1>2, <1>4
  <2>2. s[i] \in T <=> i \in (IF transport = "openai" THEN {1} ELSE Nat) /\ r.parts[i] = "text"
    BY <2>1
  <2>3. QED
    BY <1>2, <2>1, <2>2 DEF Texts
<1> HIDE DEF T
<1>9. /\ ToSet(Chosen(s, T)) = ToSet(s) \cap T
      /\ Increasing(Chosen(s, T))
  BY <1>4, <1>7, ChosenIs
<1>10. ToSet(s) \cap T = {[id |-> i, kind |-> "text"] : i \in Texts(kind, r)}
  <2>1. \A i \in Texts(kind, r) : i \in 1..n /\ r.parts[i] = "text"
    BY <1>2 DEF Texts
  <2>2. \A i \in Texts(kind, r) : s[i] = [id |-> i, kind |-> "text"]
    BY <1>4, <2>1
  <2>3. ToSet(s) \cap T = {s[i] : i \in Texts(kind, r)}
    BY <1>4, <1>8, <2>1 DEF ToSet
  <2>4. QED
    BY <2>2, <2>3
<1>11. QED
  BY <1>5, <1>9, <1>10

LEMMA RepliedStep == ASSUME NEW r \in Reply PROVE IInv /\ Replied(r) => IInv'
<1> SUFFICES ASSUME IInv, Replied(r) PROVE IInv'
  OBVIOUS
<1>1. TypeOK /\ PostInv /\ AnswerInv
  BY DEF IInv
<1>2. /\ pc = "waiting" /\ reply' = r
      /\ stream' = stream /\ messages' = messages /\ configured' = configured
  BY DEF Replied
<1>3. CASE Serves(TransportNow, r)
  <2>1. /\ pc' = "answered" /\ answer' = Content(TransportNow, r)
        /\ chain' = chain /\ written' = written
    BY <1>3 DEF Replied
  <2>2. TypeOK' /\ PostInv'
    BY <1>1, <1>2, <2>1 DEF TypeOK, PostInv
  <2>3. TransportNow # "echo"
    BY <1>1, <1>2 DEF PostInv
  <2>4. /\ Kind(Head(chain)) \in configured
        /\ TransportNow = "openai" <=> Kind(Head(chain)) # "claude"
    BY <2>3 DEF TransportNow, Transport
  <2>5. /\ r.ok /\ Increasing(answer')
        /\ ToSet(answer') = {[id |-> i, kind |-> "text"] : i \in Texts(Kind(Head(chain)), r)}
    BY <1>3, <2>1, <2>4, ServesIs, ContentIs
  <2>6. Real'
    BY <1>2, <2>1, <2>4, <2>5 DEF Real
  <2>7. AnswerInv'
    BY <1>1, <1>2, <2>1, <2>6 DEF AnswerInv
  <2>8. QED
    BY <2>2, <2>7 DEF IInv
<1>4. CASE ~Serves(TransportNow, r)
  <2>1. Fails
    BY <1>4 DEF Replied
  <2>2. ~Served'
    BY <1>2, <1>4, ServesIs DEF Served
  <2>3. QED
    BY <1>2, <2>1, <2>2, FailsKeeps
<1>5. QED
  BY <1>3, <1>4

LEMMA StutterStep == IInv /\ UNCHANGED vars => IInv'
<1> SUFFICES ASSUME IInv, UNCHANGED vars PROVE IInv'
  OBVIOUS
<1>1. UNCHANGED <<configured, chain, stream, pc, written, messages, answer, posted, reply>>
  BY DEF vars, callVars
<1>2. TransportNow' = TransportNow /\ (Served' <=> Served) /\ (Real' <=> Real)
  BY <1>1 DEF TransportNow, Served, Real, Texts, Increasing
<1>3. QED
  BY <1>1, <1>2 DEF IInv, TypeOK, PostInv, AnswerInv, Complete

LEMMA NextIInv == IInv /\ [Next]_vars => IInv'
BY RequestStep, AnsweringStep, EchoStep, PostStep, UnansweredStep, RepliedStep, StutterStep
   DEF Next, Calling

----------------------------------------------------------------------------
(* The theorems *)

\* The type invariant, what was posted and what is answered, together.
LEMMA Invariance == Spec => []IInv
<1>1. Init => IInv
  BY InitInv
<1>2. IInv /\ [Next]_vars => IInv'
  BY NextIInv
<1>3. QED
  BY <1>1, <1>2, PTL DEF Spec

\* Every upstream, whichever protocol it speaks and whatever models were called
\* before it, is sent each message of the request once: the turns and the system
\* messages in the client's order, for Claude apart, for the others as they came.
THEOREM WiresAreFaithful == Spec => []WireIsFaithful
<1>1. IInv => WireIsFaithful
  <2> SUFFICES ASSUME IInv, pc = "waiting" PROVE WireIsFaithful
    BY DEF WireIsFaithful
  <2>1. /\ chain \in Seq(Card) /\ chain # <<>> /\ messages \in Seq(Message)
        /\ \A i \in DOMAIN messages : messages[i].id = i
        /\ Transport(Kind(Head(chain)), configured) # "echo"
        /\ posted = Wire(Transport(Kind(Head(chain)), configured), normalize(Head(chain), messages))
    BY DEF IInv, TypeOK, PostInv, TransportNow
  <2>2. Head(chain) \in Card
    BY <2>1
  <2>3. Increasing(messages)
    BY <2>1 DEF Increasing
  <2>4. /\ ToSet(posted.system \o posted.turns) = ToSet(messages)
        /\ Increasing(posted.system) /\ Increasing(posted.turns)
        /\ IF Kind(Head(chain)) = "claude" THEN \A m \in ToSet(posted.turns) : m.role # "system"
           ELSE posted.system = <<>>
    BY <2>1, <2>2, <2>3, WireIs
  <2>5. ToSet(messages) = {[id |-> i, role |-> messages[i].role] : i \in DOMAIN messages}
    <3>1. \A i \in DOMAIN messages : messages[i] = [id |-> i, role |-> messages[i].role]
      <4>1. messages \in Seq(Message) /\ \A i \in DOMAIN messages : messages[i].id = i
        BY <2>1
      <4>2. \A i \in DOMAIN messages : messages[i] \in Message
        BY <4>1
      <4>3. \A m \in Message : m = [id |-> m.id, role |-> m.role]
        BY DEF Message
      <4>4. QED
        BY <4>1, <4>2, <4>3
    <3>2. QED
      BY <3>1 DEF ToSet
  <2>6. QED
    BY <2>4, <2>5 DEF WireIsFaithful, Increasing
<1>2. QED
  BY <1>1, Invariance, PTL

\* A call that an upstream serves is answered, to the end, with all the text of the
\* reply that is for the client, each piece once and in order, for replies of any
\* length; no failure is, and where there are no credentials the answer is an echo.
THEOREM AnswersArrive == Spec => []ServedIsAnswered
<1>1. IInv => ServedIsAnswered
  <2> SUFFICES ASSUME IInv PROVE ServedIsAnswered
    OBVIOUS
  <2>1. AnswerInv /\ pc \in {"new", "call", "waiting", "answered", "streaming", "done"}
    BY DEF IInv, TypeOK
  <2>2. <<>> # Error /\ <<Frame("answer", answer)>> # Error /\ Complete # Error
    BY NoneIsError
  <2>3. Served => pc \in {"answered", "streaming", "done"} /\ written # Error
    BY <2>1, <2>2 DEF AnswerInv
  <2>4. ASSUME written \notin {<<>>, Error} PROVE Real /\ Head(written).text = answer
    <3>1. Real /\ (written = <<Frame("answer", answer)>> \/ written = Complete)
      BY <2>1, <2>4 DEF AnswerInv
    <3>2. QED
      BY <3>1, HeadIsAnswer
  <2>5. pc = "done" /\ written # Error => written = Complete
    BY <2>1 DEF AnswerInv
  <2>6. pc = "done" /\ written # Error =>
          [i \in DOMAIN written |-> written[i].kind] = IF stream THEN <<"answer", "end">> ELSE <<"answer">>
    BY <2>5, CompleteHasItsForm
  <2>7. QED
    BY <2>3, <2>4, <2>6 DEF ServedIsAnswered, Served, Real
<1>2. QED
  BY <1>1, Invariance, PTL
=============================================================================
