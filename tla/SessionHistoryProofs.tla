------------------------- MODULE SessionHistoryProofs -------------------------
(***************************************************************************)
(* Proofs about SessionTurns and SessionHistory, for any number of turns   *)
(* and readers, on sessions of any length, on either repository.           *)
(***************************************************************************)
EXTENDS SessionHistory, SequenceTheorems, FiniteSetTheorems, WellFoundedInduction, TLAPS

----------------------------------------------------------------------------
(* The capacity of a backing array *)

\* A set of natural numbers that is not empty has a least element.
LEMMA LeastNatural ==
  ASSUME NEW T \in SUBSET Nat, T # {}
  PROVE  \E x \in T : \A y \in T : x <= y
<1>1. IsWellFoundedOn(OpToRel(<, Nat), Nat)
  BY NatLessThanWellFounded
<1>2. PICK x \in T : \A y \in T : ~(<<y, x>> \in OpToRel(<, Nat))
  BY <1>1, WFMin, Zenon
<1>3. \A y \in T : ~(y < x)
  <2> TAKE y \in T
  <2>1. <<y, x>> \notin OpToRel(<, Nat)
    BY <1>2
  <2>2. <<y, x>> \in Nat \X Nat
    OBVIOUS
  <2> QED
    BY <2>1, <2>2 DEF OpToRel
<1>4. QED
  BY <1>3

\* The capacity that one append more leaves behind.
NextCap(cap, length) == IF cap < length THEN NewCap(cap) ELSE cap

\* c gives the capacities up to n appends.
Capacities(c, n) ==
  c[0] = 0 /\ \A i \in 1..n : c[i] = NextCap(c[i - 1], i)

\* There are such capacities for every n.
LEMMA CapacitiesExist == \A n \in Nat : \E c \in [0..n -> Nat] : Capacities(c, n)
<1> DEFINE Bad == {n \in Nat : ~ \E c \in [0..n -> Nat] : Capacities(c, n)}
<1> SUFFICES ASSUME Bad # {} PROVE FALSE
  OBVIOUS
<1>1. PICK n \in Bad : \A k \in Bad : n <= k
  <2>1. Bad \in SUBSET Nat
    OBVIOUS
  <2> HIDE DEF Bad
  <2>2. QED
    BY <2>1, LeastNatural
<1>2. n \in Nat /\ ~ \E c \in [0..n -> Nat] : Capacities(c, n)
  OBVIOUS
<1>3. n # 0
  <2> SUFFICES ASSUME n = 0 PROVE FALSE
    OBVIOUS
  <2>1. [i \in 0..0 |-> 0] \in [0..n -> Nat] /\ Capacities([i \in 0..0 |-> 0], n)
    BY DEF Capacities
  <2>2. QED
    BY <1>2, <2>1
<1>4. n - 1 \in Nat /\ n - 1 \notin Bad
  <2>1. n - 1 \in Nat /\ ~(n <= n - 1)
    BY <1>2, <1>3
  <2>2. QED
    BY <1>1, <2>1
<1>5. PICK c \in [0..(n - 1) -> Nat] : Capacities(c, n - 1)
  BY <1>4
<1> DEFINE d == [i \in 0..n |-> IF i = n THEN NextCap(c[n - 1], n) ELSE c[i]]
<1>6. c[n - 1] \in Nat /\ NextCap(c[n - 1], n) \in Nat
  <2>1. c[n - 1] \in Nat
    BY <1>4, <1>5
  <2>2. QED
    BY <1>2, <2>1 DEF NextCap, NewCap
<1>7. d \in [0..n -> Nat]
  <2>1. \A i \in 0..n : i # n => i \in 0..(n - 1)
    BY <1>2
  <2>2. QED
    BY <1>5, <1>6, <2>1
<1>8. Capacities(d, n)
  <2>1. d[0] = 0
    BY <1>2, <1>3, <1>5 DEF Capacities
  <2>2. ASSUME NEW i \in 1..n PROVE d[i] = NextCap(d[i - 1], i)
    <3>1. d[i - 1] = c[i - 1] /\ i \in 0..n
      BY <1>2
    <3>2. CASE i = n
      BY <3>1, <3>2
    <3>3. CASE i # n
      <4>1. i \in 1..(n - 1) /\ d[i] = c[i]
        BY <1>2, <3>1, <3>3
      <4>2. c[i] = NextCap(c[i - 1], i)
        BY <1>5, <4>1 DEF Capacities
      <4>3. QED
        BY <3>1, <4>1, <4>2
    <3>4. QED
      BY <3>2, <3>3
  <2> HIDE DEF d
  <2>3. QED
    BY <2>1, <2>2 DEF Capacities
<1>9. QED
  BY <1>2, <1>7, <1>8

\* And they agree wherever both are given.
LEMMA CapacitiesAgree ==
  ASSUME NEW m \in Nat, NEW c \in [0..m -> Nat], Capacities(c, m),
         NEW n \in Nat, NEW d \in [0..n -> Nat], Capacities(d, n), m <= n
  PROVE  \A i \in 0..m : c[i] = d[i]
<1> DEFINE Bad == {i \in 0..m : c[i] # d[i]}
<1> SUFFICES ASSUME Bad # {} PROVE FALSE
  OBVIOUS
<1>1. PICK i \in Bad : \A k \in Bad : i <= k
  <2>1. Bad \in SUBSET Nat
    OBVIOUS
  <2> HIDE DEF Bad
  <2>2. QED
    BY <2>1, LeastNatural
<1>2. i \in 0..m /\ c[i] # d[i] /\ i \in Nat
  OBVIOUS
<1>3. i # 0
  BY <1>2 DEF Capacities
<1>4. i - 1 \in 0..m /\ ~(i <= i - 1)
  BY <1>2, <1>3
<1>5. c[i - 1] = d[i - 1]
  BY <1>1, <1>4
<1>6. c[i] = NextCap(c[i - 1], i) /\ d[i] = NextCap(d[i - 1], i)
  BY <1>2, <1>3 DEF Capacities
<1>7. QED
  BY <1>2, <1>5, <1>6

\* CapOf is what its definition says.
LEMMA CapOfIsDefined ==
  /\ CapOf[0] = 0
  /\ \A n \in Nat : CapOf[n] \in Nat
  /\ \A n \in Nat \ {0} : CapOf[n] = NextCap(CapOf[n - 1], n)
<1> DEFINE Table(n) == CHOOSE c \in [0..n -> Nat] : Capacities(c, n)
           f == [n \in Nat |-> Table(n)[n]]
           Equation(g) == g = [length \in Nat |->
             IF length = 0 THEN 0
             ELSE IF g[length - 1] < length THEN NewCap(g[length - 1]) ELSE g[length - 1]]
<1>1. \A n \in Nat : Table(n) \in [0..n -> Nat] /\ Capacities(Table(n), n)
  BY CapacitiesExist
<1> HIDE DEF Table
<1>2. f[0] = 0 /\ \A n \in Nat : f[n] \in Nat
  BY <1>1 DEF Capacities
<1>3. ASSUME NEW n \in Nat, n # 0 PROVE f[n] = NextCap(f[n - 1], n)
  <2>1. n - 1 \in Nat /\ n - 1 <= n /\ n \in 1..n /\ n - 1 \in 0..(n - 1)
    BY <1>3
  <2>2. Table(n - 1)[n - 1] = Table(n)[n - 1]
    <3> DEFINE m == n - 1
               c == Table(m)
               d == Table(n)
    <3>1. /\ m \in Nat /\ c \in [0..m -> Nat] /\ Capacities(c, m)
          /\ d \in [0..n -> Nat] /\ Capacities(d, n) /\ m <= n
      BY <1>1, <2>1
    <3>2. m \in 0..m
      BY <3>1
    <3> HIDE DEF m, c, d
    <3>3. \A i \in 0..m : c[i] = d[i]
      BY <3>1, CapacitiesAgree
    <3>4. c[m] = d[m]
      BY <3>2, <3>3
    <3>5. QED
      BY <3>4 DEF m, c, d
  <2>3. Table(n)[n] = NextCap(Table(n)[n - 1], n)
    BY <1>1, <2>1 DEF Capacities
  <2>4. QED
    BY <2>1, <2>2, <2>3
<1>4. Equation(f)
  <2>1. f = [length \in Nat |-> f[length]]
    OBVIOUS
  <2>2. \A length \in Nat : f[length] =
          IF length = 0 THEN 0
          ELSE IF f[length - 1] < length THEN NewCap(f[length - 1]) ELSE f[length - 1]
    BY <1>2, <1>3 DEF NextCap
  <2> HIDE DEF f
  <2>3. QED
    BY <2>1, <2>2
<1> HIDE DEF f
<1>5. CapOf = CHOOSE g : Equation(g)
  BY DEF CapOf
<1>6. Equation(CapOf)
  BY <1>4, <1>5
<1>7. CapOf[0] = 0 /\ \A n \in Nat \ {0} : CapOf[n] = NextCap(CapOf[n - 1], n)
  BY <1>6 DEF NextCap
<1>8. \A n \in Nat : CapOf[n] \in Nat
  <2> DEFINE Bad == {n \in Nat : CapOf[n] \notin Nat}
  <2> SUFFICES ASSUME Bad # {} PROVE FALSE
    OBVIOUS
  <2>1. PICK n \in Bad : \A k \in Bad : n <= k
    <3>1. Bad \in SUBSET Nat
      OBVIOUS
    <3> HIDE DEF Bad
    <3>2. QED
      BY <3>1, LeastNatural
  <2>2. n \in Nat /\ CapOf[n] \notin Nat /\ n # 0
    BY <1>7
  <2>3. n - 1 \in Nat /\ ~(n <= n - 1)
    BY <2>2
  <2>4. CapOf[n - 1] \in Nat
    BY <2>1, <2>3
  <2>5. QED
    BY <1>7, <2>2, <2>4 DEF NextCap, NewCap
<1>9. QED
  BY <1>7, <1>8

\* An array that appends have filled holds what was appended.
LEMMA CapacitySuffices == \A n \in Nat : CapOf[n] >= n
<1> DEFINE Bad == {n \in Nat : ~(CapOf[n] >= n)}
<1> SUFFICES ASSUME Bad # {} PROVE FALSE
  OBVIOUS
<1>1. PICK n \in Bad : \A k \in Bad : n <= k
  <2>1. Bad \in SUBSET Nat
    OBVIOUS
  <2> HIDE DEF Bad
  <2>2. QED
    BY <2>1, LeastNatural
<1>2. n \in Nat /\ ~(CapOf[n] >= n) /\ n # 0
  BY CapOfIsDefined
<1>3. n - 1 \in Nat /\ ~(n <= n - 1)
  BY <1>2
<1>4. CapOf[n - 1] \in Nat /\ CapOf[n - 1] >= n - 1
  BY <1>1, <1>3, CapOfIsDefined
<1>5. CapOf[n] = NextCap(CapOf[n - 1], n)
  BY <1>2, CapOfIsDefined
<1>6. QED
  BY <1>2, <1>4, <1>5 DEF NextCap, NewCap

----------------------------------------------------------------------------
(* Messages, arrays and slices *)

Post ==
  {Question(t) : t \in Turns} \union {Reply(t) : t \in Turns}
    \union {OldMessage(i) : i \in Nat} \union {Nothing}
Slot == [head : Post, rest : Post]

Local ==
  [pc : {"new", "ask", "asking", "local", "half", "prompting",
         "answering", "record", "recording", "done"},
   arr : Nat, base : Nat, read : Seq(Post), prompt : Seq(Slot),
   result : {"none", "ok", "refused", "error"}]

\* Every variable has its type.
TypeOK ==
  /\ kind \in {"memory", "postgres"}
  /\ heap \in Seq(Seq(Slot)) /\ stored \in [arr : Nat, len : Nat] /\ row \in Seq(Post)
  /\ turn \in [Turns -> Local]
  /\ old \in Seq(Post) /\ log \in Seq(Post) /\ overlapped \in BOOLEAN /\ quiet \in Seq(Slot)

\* Every slice lies within its backing array, and a turn that stores to its copy
\* has a place to store to.
SlicesOK ==
  /\ stored.arr <= Len(heap) /\ stored.len <= Cap(stored.arr)
  /\ \A t \in Turns :
       /\ turn[t].arr <= Len(heap)
       /\ kind = "memory" => turn[t].base <= Cap(turn[t].arr)
       /\ At(t, "half") \/ At(t, "prompting") => turn[t].base < Cap(turn[t].arr)

\* Each repository has steps of its own.
PathsOK ==
  \A t \in Turns :
    /\ kind = "memory" => ~At(t, "asking") /\ ~At(t, "recording")
    /\ kind = "postgres" => ~At(t, "local") /\ ~At(t, "half") /\ ~At(t, "prompting")

Base == TypeOK /\ SlicesOK /\ PathsOK

\* What the stored session needs to be well formed.
RepoOK ==
  /\ kind \in {"memory", "postgres"}
  /\ heap \in Seq(Seq(Slot)) /\ stored \in [arr : Nat, len : Nat] /\ row \in Seq(Post)
  /\ stored.arr <= Len(heap) /\ stored.len <= Cap(stored.arr)

\* A function on 1..n is a sequence of length n.
LEMMA TableIsSequence ==
  ASSUME NEW S, NEW n \in Nat, NEW f \in [1..n -> S]
  PROVE  f \in Seq(S) /\ Len(f) = n /\ DOMAIN f = 1..n
<1>1. f \in Seq(S)
  BY SeqDef
<1>2. DOMAIN f = 1..n /\ DOMAIN f = 1..Len(f) /\ Len(f) \in Nat
  BY <1>1, LenProperties
<1>3. QED
  BY <1>1, <1>2

\* The messages of a sequence, each stored whole.
Wholes(s) == [i \in DOMAIN s |-> Whole(s[i])]

LEMMA WholesAre ==
  ASSUME NEW s \in Seq(Post)
  PROVE  /\ Wholes(s) \in Seq(Slot) /\ Len(Wholes(s)) = Len(s)
         /\ \A i \in 1..Len(s) : Wholes(s)[i] = Whole(s[i])
<1>1. DOMAIN s = 1..Len(s) /\ Len(s) \in Nat
  OBVIOUS
<1>2. Wholes(s) \in [1..Len(s) -> Slot]
  <2>1. \A i \in 1..Len(s) : s[i] \in Post
    OBVIOUS
  <2>2. QED
    BY <1>1, <2>1 DEF Wholes, Whole, Slot
<1>3. QED
  BY <1>1, <1>2, TableIsSequence DEF Wholes

LEMMA MessagesArePosts ==
  /\ \A t \in Turns : Question(t) \in Post /\ Reply(t) \in Post
  /\ \A t \in Turns : Whole(Question(t)) \in Slot /\ Whole(Reply(t)) \in Slot
  /\ Whole(Nothing) \in Slot
BY DEF Post, Slot, Whole

LEMMA AppendingIsPost ==
  ASSUME NEW t \in Turns
  PROVE  Appending(t) \in Post /\ Whole(Appending(t)) \in Slot
BY MessagesArePosts DEF Appending

\* A filled array holds what it was filled with.
LEMMA FilledIs ==
  ASSUME NEW slots \in Seq(Slot), NEW cap \in Nat, Len(slots) <= cap
  PROVE  /\ Filled(slots, cap) \in Seq(Slot) /\ Len(Filled(slots, cap)) = cap
         /\ \A i \in 1..Len(slots) : Filled(slots, cap)[i] = slots[i]
<1>1. \A i \in 1..cap : i <= Len(slots) => slots[i] \in Slot
  OBVIOUS
<1>2. Filled(slots, cap) \in [1..cap -> Slot]
  BY <1>1, MessagesArePosts DEF Filled
<1>3. \A i \in 1..Len(slots) : i \in 1..cap
  BY DOMAIN slots = 1..Len(slots)
<1>4. QED
  BY <1>2, <1>3, TableIsSequence DEF Filled

\* What a slice shows is what its array holds.
LEMMA SlotsAre ==
  ASSUME NEW h \in Seq(Seq(Slot)), h = heap,
         NEW arr \in 0..Len(heap), NEW length \in 0..Cap(arr)
  PROVE  /\ Slots(arr, length) \in Seq(Slot) /\ Len(Slots(arr, length)) = length
         /\ \A i \in 1..length : arr # 0 /\ Slots(arr, length)[i] = heap[arr][i]
<1>0. heap \in Seq(Seq(Slot)) /\ Len(heap) \in Nat
  OBVIOUS
<1>1. CASE arr = 0
  <2>1. length = 0
    BY <1>1 DEF Cap
  <2>2. Slots(arr, length) = <<>>
    BY <1>1 DEF Slots
  <2>3. <<>> \in Seq(Slot) /\ Len(<<>>) = 0 /\ 1..0 = {}
    OBVIOUS
  <2>4. QED
    BY <2>1, <2>2, <2>3, Zenon
<1>2. CASE arr # 0
  <2>1. arr \in 1..Len(heap) /\ heap[arr] \in Seq(Slot) /\ length \in 0..Len(heap[arr])
    BY <1>0, <1>2 DEF Cap
  <2>2. length \in Nat /\ \A i \in 1..length : heap[arr][i] \in Slot
    BY <2>1
  <2>3. Slots(arr, length) = SubSeq(heap[arr], 1, length)
    BY <1>2 DEF Slots
  <2>4. /\ SubSeq(heap[arr], 1, length) \in Seq(Slot)
        /\ Len(SubSeq(heap[arr], 1, length)) = (IF 1 <= length THEN length - 1 + 1 ELSE 0)
        /\ \A i \in 1..(length - 1 + 1) : SubSeq(heap[arr], 1, length)[i] = heap[arr][1 + i - 1]
    BY <2>2, SubSeqProperties
  <2>5. \A i \in 1..length : i \in 1..(length - 1 + 1) /\ 1 + i - 1 = i
    BY <2>2
  <2>6. \A i \in 1..length : Slots(arr, length)[i] = heap[arr][i]
    BY <2>3, <2>4, <2>5
  <2>7. Slots(arr, length) \in Seq(Slot) /\ Len(Slots(arr, length)) = length
    BY <2>2, <2>3, <2>4
  <2>8. QED
    BY <1>2, <2>6, <2>7
<1>3. QED
  BY <1>1, <1>2

\* The stored messages, one by one.
LEMMA ContentIs ==
  ASSUME RepoOK
  PROVE  /\ Content \in Seq(Slot)
         /\ kind = "memory" =>
              /\ Content = Slots(stored.arr, stored.len) /\ Len(Content) = stored.len
              /\ \A i \in 1..Len(Content) : stored.arr # 0 /\ Content[i] = heap[stored.arr][i]
         /\ kind = "postgres" =>
              /\ Len(Content) = Len(row)
              /\ \A i \in 1..Len(Content) : Content[i] = Whole(row[i])
<1>1. CASE kind = "memory"
  <2>1. Content = Slots(stored.arr, stored.len)
    BY <1>1 DEF Content
  <2>2. stored.arr \in 0..Len(heap) /\ stored.len \in 0..Cap(stored.arr) /\ heap \in Seq(Seq(Slot))
    <3>1. /\ stored.arr \in Nat /\ stored.len \in Nat /\ heap \in Seq(Seq(Slot))
          /\ stored.arr <= Len(heap) /\ stored.len <= Cap(stored.arr)
      BY DEF RepoOK
    <3>2. Len(heap) \in Nat /\ Cap(stored.arr) \in Nat
      <4>1. stored.arr # 0 => heap[stored.arr] \in Seq(Slot)
        BY <3>1
      <4>2. QED
        BY <3>1, <4>1 DEF Cap
    <3>3. QED
      BY <3>1, <3>2
  <2>3. QED
    BY <1>1, <2>1, <2>2, SlotsAre
<1>2. CASE kind = "postgres"
  <2>1. Content = Wholes(row) /\ row \in Seq(Post)
    BY <1>2 DEF Content, Wholes, RepoOK
  <2>2. QED
    BY <1>2, <2>1, WholesAre
<1>3. QED
  BY <1>1, <1>2 DEF RepoOK

LEMMA BaseIsRepo == Base => RepoOK
BY DEF Base, TypeOK, SlicesOK, RepoOK

ContentLaw ==
  /\ Content \in Seq(Slot)
  /\ kind = "memory" =>
       /\ Len(Content) = stored.len
       /\ \A i \in 1..Len(Content) : stored.arr # 0 /\ Content[i] = heap[stored.arr][i]
  /\ kind = "postgres" =>
       /\ Len(Content) = Len(row)
       /\ \A i \in 1..Len(Content) : Content[i] = Whole(row[i])

LEMMA ContentLawHolds == RepoOK => ContentLaw
BY ContentIs DEF ContentLaw

LEMMA ContentLawGoesOn == RepoOK' => ContentLaw'
BY ContentLawHolds, PTL

\* The same of the next state.
LEMMA ContentNext ==
  ASSUME RepoOK'
  PROVE  /\ Content' \in Seq(Slot)
         /\ kind' = "memory" =>
              /\ Len(Content') = stored'.len
              /\ \A i \in 1..Len(Content') : stored'.arr # 0 /\ Content'[i] = heap'[stored'.arr][i]
         /\ kind' = "postgres" =>
              /\ Len(Content') = Len(row')
              /\ \A i \in 1..Len(Content') : Content'[i] = Whole(row'[i])
BY ContentLawGoesOn DEF ContentLaw

\* The arrays of a heap are sequences of slots.
LEMMA ArraysAre ==
  ASSUME TypeOK
  PROVE  /\ Len(heap) \in Nat
         /\ \A a \in 1..Len(heap) : heap[a] \in Seq(Slot) /\ Len(heap[a]) \in Nat
         /\ \A a \in 0..Len(heap) : Cap(a) \in Nat
<1>1. heap \in Seq(Seq(Slot)) /\ Len(heap) \in Nat
  BY DEF TypeOK
<1>2. \A a \in 1..Len(heap) : heap[a] \in Seq(Slot)
  BY <1>1
<1>3. \A a \in 1..Len(heap) : Len(heap[a]) \in Nat
  BY <1>2
<1>4. QED
  BY <1>1, <1>2, <1>3 DEF Cap

\* A sequence with one element replaced.
LEMMA ReplacedIs ==
  ASSUME NEW S, NEW s \in Seq(S), NEW i \in 1..Len(s), NEW x \in S
  PROVE  /\ [s EXCEPT ![i] = x] \in Seq(S) /\ Len([s EXCEPT ![i] = x]) = Len(s)
         /\ \A j \in 1..Len(s) : [s EXCEPT ![i] = x][j] = IF j = i THEN x ELSE s[j]
BY ExceptSeq

\* A store changes one place of one array.
LEMMA StoreIs ==
  ASSUME NEW h \in Seq(Seq(Slot)), NEW a \in 1..Len(h), NEW i \in 1..Len(h[a]), NEW m \in Slot,
         NEW g, g = [h EXCEPT ![a] = [h[a] EXCEPT ![i] = m]]
  PROVE  /\ g \in Seq(Seq(Slot)) /\ Len(g) = Len(h)
         /\ \A b \in 1..Len(h) :
              /\ Len(g[b]) = Len(h[b])
              /\ \A j \in 1..Len(h[b]) : g[b][j] = IF b = a /\ j = i THEN m ELSE h[b][j]
<1>1. h[a] \in Seq(Slot)
  OBVIOUS
<1> DEFINE b1 == [h[a] EXCEPT ![i] = m]
<1>2. /\ b1 \in Seq(Slot) /\ Len(b1) = Len(h[a])
      /\ \A j \in 1..Len(h[a]) : b1[j] = IF j = i THEN m ELSE h[a][j]
  BY <1>1, ExceptSeq
<1> HIDE DEF b1
<1>3. g = [h EXCEPT ![a] = b1]
  BY DEF b1
<1> DEFINE T == Seq(Slot)
<1>4. h \in Seq(T) /\ b1 \in T /\ a \in 1..Len(h)
  BY <1>2
<1> HIDE DEF T
<1>5. /\ [h EXCEPT ![a] = b1] \in Seq(T) /\ Len([h EXCEPT ![a] = b1]) = Len(h)
      /\ \A b \in 1..Len(h) : [h EXCEPT ![a] = b1][b] = IF b = a THEN b1 ELSE h[b]
  BY <1>4, ReplacedIs
<1>6. /\ g \in Seq(T) /\ Len(g) = Len(h)
      /\ \A b \in 1..Len(h) : g[b] = IF b = a THEN b1 ELSE h[b]
  BY <1>3, <1>5, Zenon
<1>7. QED
  BY <1>2, <1>6 DEF T

----------------------------------------------------------------------------
(* The initial states *)

\* A session that is as long as its old messages, on an array that they filled.
LEMMA InitIs ==
  ASSUME Init
  PROVE  /\ Base
         /\ log = <<>> /\ overlapped = FALSE /\ quiet = Content
         /\ \A t \in Turns : turn[t].pc = "new"
         /\ old \in Seq(Post) /\ \A i \in 1..Len(old) : old[i] = OldMessage(i)
         /\ kind = "memory" => stored.len = Len(old)
         /\ kind = "postgres" => row = old
         /\ Len(Content) = Len(old) /\ \A i \in 1..Len(old) : Content[i] = Whole(old[i])
<1>1. /\ kind \in {"memory", "postgres"} /\ log = <<>> /\ overlapped = FALSE /\ quiet = Content
      /\ turn = [t \in Turns |->
           [pc |-> "new", arr |-> 0, base |-> 0, read |-> <<>>, prompt |-> <<>>, result |-> "none"]]
  BY SessionAssumption DEF Init
<1>2. PICK n \in Nat : old = [i \in 1..n |-> OldMessage(i)]
  BY SessionAssumption DEF Init
<1>3. old \in [1..n -> Post]
  BY <1>2 DEF Post
<1>4. old \in Seq(Post) /\ Len(old) = n /\ DOMAIN old = 1..n
  BY <1>3, TableIsSequence
<1>5. \A i \in 1..Len(old) : old[i] = OldMessage(i)
  BY <1>2, <1>4
<1> DEFINE slots == Wholes(old)
<1>6. /\ slots \in Seq(Slot) /\ Len(slots) = n
      /\ \A i \in 1..n : slots[i] = Whole(old[i])
  BY <1>4, WholesAre
<1>7. IF kind = "memory"
      THEN /\ heap = IF slots = <<>> THEN <<>> ELSE <<Filled(slots, CapOf[Len(slots)])>>
           /\ stored = [arr |-> Len(heap), len |-> Len(slots)]
           /\ row = <<>>
      ELSE heap = <<>> /\ stored = [arr |-> 0, len |-> 0] /\ row = old
  BY DEF Init, Wholes
<1> HIDE DEF slots
<1>8. turn \in [Turns -> Local]
  <2>1. <<>> \in Seq(Post) /\ <<>> \in Seq(Slot)
    OBVIOUS
  <2>2. QED
    BY <1>1, <2>1 DEF Local
<1>9. /\ row \in Seq(Post) /\ heap \in Seq(Seq(Slot)) /\ stored \in [arr : Nat, len : Nat]
      /\ stored.arr <= Len(heap) /\ stored.len <= Cap(stored.arr)
      /\ kind = "memory" => stored.len = n
  <2>1. <<>> \in Seq(Post) /\ <<>> \in Seq(Seq(Slot)) /\ Len(<<>>) = 0
    OBVIOUS
  <2>2. CASE kind = "memory" /\ slots # <<>>
    <3> DEFINE arr == Filled(slots, CapOf[n])
    <3>1. CapOf[n] \in Nat /\ CapOf[n] >= n
      BY CapOfIsDefined, CapacitySuffices
    <3>2. arr \in Seq(Slot) /\ Len(arr) = CapOf[n]
      BY <1>6, <3>1, FilledIs
    <3> HIDE DEF arr
    <3>3. heap = <<arr>> /\ stored = [arr |-> Len(heap), len |-> n] /\ row = <<>>
      BY <1>6, <1>7, <2>2 DEF arr
    <3>4. heap \in Seq(Seq(Slot)) /\ Len(heap) = 1 /\ heap[1] = arr
      BY <3>2, <3>3
    <3>5. stored \in [arr : Nat, len : Nat] /\ stored.arr = 1 /\ stored.len = n
      BY <3>3, <3>4
    <3>6. Cap(stored.arr) = CapOf[n]
      BY <3>2, <3>4, <3>5 DEF Cap
    <3>7. QED
      BY <2>1, <3>1, <3>3, <3>4, <3>5, <3>6
  <2>3. CASE kind = "memory" /\ slots = <<>>
    <3>1. n = 0
      BY <1>6, <2>1, <2>3
    <3>2. heap = <<>> /\ stored = [arr |-> 0, len |-> 0] /\ row = <<>>
      BY <1>6, <1>7, <2>1, <2>3, <3>1
    <3>3. QED
      BY <2>1, <3>1, <3>2 DEF Cap
  <2>4. CASE kind # "memory"
    BY <1>4, <1>7, <2>1, <2>4 DEF Cap
  <2>5. QED
    BY <2>2, <2>3, <2>4
<1>10. Content \in Seq(Slot) /\ Len(Content) = n /\ \A i \in 1..n : Content[i] = Whole(old[i])
  <2>1. CASE kind = "memory" /\ slots # <<>>
    <3>1. CapOf[n] \in Nat /\ CapOf[n] >= n
      BY CapOfIsDefined, CapacitySuffices
    <3>2. /\ Filled(slots, CapOf[n]) \in Seq(Slot) /\ Len(Filled(slots, CapOf[n])) = CapOf[n]
          /\ \A i \in 1..n : Filled(slots, CapOf[n])[i] = slots[i]
      BY <1>6, <3>1, FilledIs
    <3>3. heap = <<Filled(slots, CapOf[n])>> /\ stored = [arr |-> Len(heap), len |-> n]
      BY <1>6, <1>7, <2>1
    <3>4. stored.arr = 1 /\ stored.len = n /\ heap[1] = Filled(slots, CapOf[n]) /\ Len(heap) = 1
      BY <3>3
    <3>5. Content = Slots(1, n)
      BY <2>1, <3>4 DEF Content
    <3>6. heap \in Seq(Seq(Slot)) /\ 1 \in 0..Len(heap) /\ n \in 0..Cap(1)
      BY <1>9, <3>1, <3>2, <3>4 DEF Cap
    <3>7. /\ Slots(1, n) \in Seq(Slot) /\ Len(Slots(1, n)) = n
          /\ \A i \in 1..n : Slots(1, n)[i] = heap[1][i]
      BY <3>6, SlotsAre
    <3>8. QED
      BY <1>6, <3>2, <3>4, <3>5, <3>7
  <2>2. CASE kind = "memory" /\ slots = <<>>
    <3>1. n = 0 /\ <<>> \in Seq(Slot) /\ Len(<<>>) = 0
      BY <1>6, <2>2
    <3>2. Content = <<>>
      <4>1. heap = <<>> /\ stored.arr = Len(heap)
        BY <1>7, <2>2
      <4>2. stored.arr = 0
        BY <4>1
      <4>3. QED
        BY <2>2, <4>2 DEF Content, Slots
    <3>3. QED
      BY <3>1, <3>2
  <2>3. CASE kind # "memory"
    <3>1. Content = slots
      BY <1>7, <2>3 DEF Content, Wholes, slots
    <3>2. QED
      BY <1>6, <3>1
  <2>4. QED
    BY <2>1, <2>2, <2>3
<1>11. Base
  <2>1. log \in Seq(Post) /\ quiet \in Seq(Slot)
    BY <1>1, <1>10
  <2>2. TypeOK
    BY <1>1, <1>4, <1>8, <1>9, <2>1 DEF TypeOK
  <2>3. SlicesOK
    <3>1. \A t \in Turns : turn[t].pc = "new" /\ turn[t].arr = 0 /\ turn[t].base = 0
      BY <1>1
    <3>2. Len(heap) \in Nat /\ Cap(0) = 0
      BY <1>9 DEF Cap
    <3>3. QED
      BY <1>9, <3>1, <3>2 DEF SlicesOK, At
  <2>4. PathsOK
    BY <1>1 DEF PathsOK, At
  <2>5. QED
    BY <2>2, <2>3, <2>4 DEF Base
<1>12. kind = "postgres" => row = old
  BY <1>7
<1>13. \A t \in Turns : turn[t].pc = "new"
  BY <1>1
<1>14. QED
  BY <1>1, <1>4, <1>5, <1>9, <1>10, <1>11, <1>12, <1>13

----------------------------------------------------------------------------
(* What each step of a turn does to the turn *)

\* The turn goes on as r; the other turns stay where they are.
Becomes(t, r) ==
  /\ r \in Local /\ turn' \in [Turns -> Local] /\ turn'[t] = r
  /\ \A u \in Turns \ {t} : turn'[u] = turn[u]

LEMMA TurnBecomes ==
  ASSUME TypeOK, NEW t \in Turns, NEW r \in Local, turn' = [turn EXCEPT ![t] = r]
  PROVE  Becomes(t, r)
BY DEF TypeOK, Becomes

\* The steps that leave the session alone.
Silent(t) ==
  /\ UNCHANGED <<kind, old, heap, stored, row, log>>
  /\ turn[t] \in Local

LEMMA SilentIs ==
  ASSUME TypeOK, NEW t \in Turns, UNCHANGED repoVars, Notes(t, <<>>)
  PROVE  Silent(t)
<1>1. log \in Seq(Post) /\ turn[t] \in Local
  BY DEF TypeOK
<1>2. log \o <<>> = log
  BY <1>1
<1>3. QED
  BY <1>1, <1>2 DEF Silent, Notes, repoVars

LEMMA GotIs ==
  ASSUME Base, NEW t \in Turns, Got(t)
  PROVE  /\ At(t, "new") /\ Silent(t)
         /\ Becomes(t, [turn[t] EXCEPT !.pc = "ask", !.arr = stored.arr, !.base = Len(Content),
              !.prompt = IF kind = "postgres" THEN Append(Content, Whole(Question(t))) ELSE <<>>])
<1> DEFINE p == IF kind = "postgres" THEN Append(Content, Whole(Question(t))) ELSE <<>>
           r == [turn[t] EXCEPT !.pc = "ask", !.arr = stored.arr, !.base = Len(Content), !.prompt = p]
<1>1. TypeOK /\ At(t, "new") /\ Silent(t)
  BY SilentIs DEF Got, Base
<1>2. Content \in Seq(Slot) /\ Len(Content) \in Nat
  BY ContentIs, BaseIsRepo
<1>3. Whole(Question(t)) \in Slot
  BY MessagesArePosts
<1>4. p \in Seq(Slot)
  BY <1>2, <1>3
<1>5. turn' = [turn EXCEPT ![t].pc = "ask", ![t].arr = stored.arr, ![t].base = Len(Content), ![t].prompt = p]
  BY DEF Got
<1> HIDE DEF p
<1>6. r \in Local
  BY <1>1, <1>2, <1>4 DEF TypeOK, Local
<1>7. turn' = [turn EXCEPT ![t] = r]
  BY <1>1, <1>5 DEF TypeOK
<1>8. QED
  BY <1>1, <1>6, <1>7, TurnBecomes DEF p

LEMMA GoesIs ==
  ASSUME TypeOK, NEW t \in Turns,
         NEW pc \in {"half", "prompting", "record"}, Goes(t, pc)
  PROVE  Becomes(t, [turn[t] EXCEPT !.pc = pc])
<1>1. [turn[t] EXCEPT !.pc = pc] \in Local
  BY DEF TypeOK, Local
<1>2. turn' = [turn EXCEPT ![t] = [turn[t] EXCEPT !.pc = pc]]
  BY DEF TypeOK, Goes
<1>3. QED
  BY <1>1, <1>2, TurnBecomes

LEMMA EndsIs ==
  ASSUME TypeOK, NEW t \in Turns,
         NEW result \in {"refused", "error"}, Ends(t, result)
  PROVE  Becomes(t, [turn[t] EXCEPT !.pc = "done", !.result = result])
<1>1. [turn[t] EXCEPT !.pc = "done", !.result = result] \in Local
  BY DEF TypeOK, Local
<1>2. turn' = [turn EXCEPT ![t] = [turn[t] EXCEPT !.pc = "done", !.result = result]]
  BY DEF TypeOK, Ends
<1>3. QED
  BY <1>1, <1>2, TurnBecomes

\* The steps that end the turn without touching the session.
Leaves(t) == NotGot(t) \/ Refused(t) \/ SelectFails(t) \/ Unanswered(t)

LEMMA LeavesIs ==
  ASSUME Base, NEW t \in Turns, Leaves(t)
  PROVE  /\ Silent(t)
         /\ \E result \in {"refused", "error"} :
              Becomes(t, [turn[t] EXCEPT !.pc = "done", !.result = result])
         /\ At(t, "new") => NotGot(t)
<1>1. TypeOK
  BY DEF Base
<1>2. Silent(t)
  BY <1>1, SilentIs DEF Leaves, NotGot, Refused, SelectFails, Unanswered
<1>3. \E result \in {"refused", "error"} : Ends(t, result)
  BY DEF Leaves, NotGot, Refused, SelectFails, Unanswered
<1>4. At(t, "new") => NotGot(t)
  BY DEF Leaves, Refused, SelectFails, Unanswered, At
<1>5. QED
  BY <1>1, <1>2, <1>3, <1>4, EndsIs

\* The copy that is prompted with, when the message is stored to an array of the
\* turn's own, and when it is stored behind what the copy showed.
LEMMA LocalGrowIs ==
  ASSUME Base, NEW t \in Turns, LocalGrow(t)
  PROVE  /\ At(t, "local") /\ turn[t].base = Cap(turn[t].arr) /\ Silent(t)
         /\ Slots(turn[t].arr, turn[t].base) \in Seq(Slot)
         /\ Becomes(t, [turn[t] EXCEPT !.pc = "answering",
              !.prompt = Append(Slots(turn[t].arr, turn[t].base), Whole(Question(t)))])
<1> DEFINE p == Append(Slots(turn[t].arr, turn[t].base), Whole(Question(t)))
           r == [turn[t] EXCEPT !.pc = "answering", !.prompt = p]
<1>1. TypeOK /\ At(t, "local") /\ turn[t].base = Cap(turn[t].arr) /\ Silent(t)
  BY SilentIs DEF LocalGrow, Base
<1>2. heap \in Seq(Seq(Slot)) /\ turn[t].arr \in 0..Len(heap) /\ turn[t].base \in 0..Cap(turn[t].arr)
  <2>1. turn[t].arr \in Nat /\ turn[t].arr <= Len(heap) /\ Len(heap) \in Nat
    BY <1>1, ArraysAre DEF TypeOK, Local, Base, SlicesOK
  <2>2. Cap(turn[t].arr) \in Nat
    BY <1>1, <2>1, ArraysAre
  <2>3. QED
    BY <1>1, <2>1, <2>2 DEF TypeOK
<1>3. Slots(turn[t].arr, turn[t].base) \in Seq(Slot)
  BY <1>2, SlotsAre
<1>4. p \in Seq(Slot)
  BY <1>3, MessagesArePosts
<1>5. turn' = [turn EXCEPT ![t].pc = "answering", ![t].prompt = p]
  BY DEF LocalGrow
<1> HIDE DEF p
<1>6. r \in Local
  BY <1>1, <1>4 DEF TypeOK, Local
<1>7. turn' = [turn EXCEPT ![t] = r]
  BY <1>1, <1>5 DEF TypeOK
<1>8. QED
  BY <1>1, <1>3, <1>6, <1>7, TurnBecomes DEF p

LEMMA PromptedIs ==
  ASSUME Base, NEW t \in Turns, Prompted(t)
  PROVE  /\ At(t, "prompting") /\ Silent(t)
         /\ Becomes(t, [turn[t] EXCEPT !.pc = "answering",
              !.prompt = Slots(turn[t].arr, turn[t].base + 1)])
<1> DEFINE p == Slots(turn[t].arr, turn[t].base + 1)
           r == [turn[t] EXCEPT !.pc = "answering", !.prompt = p]
<1>1. TypeOK /\ At(t, "prompting") /\ Silent(t)
  BY SilentIs DEF Prompted, Base
<1>2. heap \in Seq(Seq(Slot)) /\ turn[t].arr \in 0..Len(heap) /\ turn[t].base + 1 \in 0..Cap(turn[t].arr)
  <2>1. turn[t].arr \in Nat /\ turn[t].arr <= Len(heap) /\ Len(heap) \in Nat /\ turn[t].base \in Nat
    BY <1>1, ArraysAre DEF TypeOK, Local, Base, SlicesOK
  <2>2. Cap(turn[t].arr) \in Nat
    BY <1>1, <2>1, ArraysAre
  <2>3. turn[t].base < Cap(turn[t].arr)
    BY <1>1 DEF Base, SlicesOK
  <2>4. QED
    BY <1>1, <2>1, <2>2, <2>3 DEF TypeOK
<1>3. p \in Seq(Slot)
  BY <1>2, SlotsAre
<1>4. turn' = [turn EXCEPT ![t].pc = "answering", ![t].prompt = p]
  BY DEF Prompted
<1> HIDE DEF p
<1>5. r \in Local
  BY <1>1, <1>3 DEF TypeOK, Local
<1>6. turn' = [turn EXCEPT ![t] = r]
  BY <1>1, <1>4 DEF TypeOK
<1>7. QED
  BY <1>1, <1>5, <1>6, TurnBecomes DEF p

LEMMA SelectIs ==
  ASSUME Base, NEW t \in Turns, Select(t)
  PROVE  /\ kind = "postgres" /\ (At(t, "ask") \/ At(t, "record")) /\ Silent(t)
         /\ Becomes(t, [turn[t] EXCEPT
              !.pc = IF At(t, "ask") THEN "asking" ELSE "recording", !.read = row])
<1> DEFINE pc == IF At(t, "ask") THEN "asking" ELSE "recording"
           r == [turn[t] EXCEPT !.pc = pc, !.read = row]
<1>1. TypeOK /\ kind = "postgres" /\ (At(t, "ask") \/ At(t, "record")) /\ Silent(t)
  BY SilentIs DEF Select, Base
<1>2. pc \in {"asking", "recording"}
  OBVIOUS
<1>3. turn' = [turn EXCEPT ![t].pc = pc, ![t].read = row]
  BY DEF Select
<1> HIDE DEF pc
<1>4. r \in Local
  BY <1>1, <1>2 DEF TypeOK, Local
<1>5. turn' = [turn EXCEPT ![t] = r]
  BY <1>1, <1>3 DEF TypeOK
<1>6. QED
  BY <1>1, <1>4, <1>5, TurnBecomes DEF pc

LEMMA AnsweredIs ==
  ASSUME Base, NEW t \in Turns, Answered(t)
  PROVE  /\ At(t, "answering") /\ Silent(t)
         /\ Becomes(t, [turn[t] EXCEPT !.pc = "record"])
<1>1. TypeOK /\ At(t, "answering") /\ Silent(t) /\ Goes(t, "record")
  BY SilentIs DEF Answered, Base
<1>2. QED
  BY <1>1, GoesIs

\* A turn resumes after an append with the same copy.
LEMMA ResumedIs ==
  ASSUME Base, NEW t \in Turns
  PROVE  /\ Resumed(t) \in Local
         /\ Resumed(t).arr = turn[t].arr /\ Resumed(t).base = turn[t].base
         /\ Resumed(t).prompt = turn[t].prompt
         /\ At(t, "ask") \/ At(t, "asking") =>
              Resumed(t).pc = IF kind = "memory" THEN "local" ELSE "answering"
         /\ ~At(t, "ask") /\ ~At(t, "asking") => Resumed(t).pc = "done"
BY DEF Base, TypeOK, Local, Resumed

----------------------------------------------------------------------------
(* What the steps that touch the session do to it *)

\* Arrays keep their lengths, and an array that is there keeps what it holds but
\* for one place.
HeapKeepsBut(arr, place) ==
  /\ heap' \in Seq(Seq(Slot)) /\ Len(heap) <= Len(heap') /\ Len(heap') \in Nat
  /\ \A a \in 1..Len(heap) :
       /\ Len(heap'[a]) = Len(heap[a])
       /\ \A j \in 1..Len(heap[a]) : heap'[a][j] = heap[a][j] \/ (a = arr /\ j = place)

\* An append of the memory repository: in the array there is, or in one that is
\* twice as large and holds the same messages.
LEMMA AppendInPlace ==
  ASSUME Base, NEW t \in Turns, AppendMessage(t), AppendedInPlace(t)
  PROVE  /\ HeapKeepsBut(stored.arr, stored.len + 1)
         /\ stored' = [arr |-> stored.arr, len |-> stored.len + 1]
         /\ stored.arr \in 1..Len(heap) /\ stored.len + 1 <= Len(heap[stored.arr])
         /\ heap'[stored.arr][stored.len + 1] = Whole(Appending(t))
         /\ \A i \in 1..stored.len : heap'[stored.arr][i] = heap[stored.arr][i]
<1> DEFINE m == Whole(Appending(t))
           a == stored.arr
           i == stored.len + 1
<1>1. m \in Slot
  BY AppendingIsPost
<1>2. TypeOK /\ heap \in Seq(Seq(Slot)) /\ stored \in [arr : Nat, len : Nat]
  BY DEF Base, TypeOK
<1>3. a \in Nat /\ a <= Len(heap) /\ stored.len \in Nat /\ stored.len < Cap(a) /\ Len(heap) \in Nat
  BY <1>2, ArraysAre DEF Base, SlicesOK, AppendedInPlace
<1>4. a # 0
  BY <1>3 DEF Cap
<1>5. a \in 1..Len(heap) /\ stored.len < Len(heap[a]) /\ Len(heap[a]) \in Nat
  BY <1>2, <1>3, <1>4, ArraysAre DEF Cap
<1>6. i \in 1..Len(heap[a])
  BY <1>3, <1>5
<1>7. heap' = [heap EXCEPT ![a] = [heap[a] EXCEPT ![i] = m]]
  BY <1>2, <1>5 DEF AppendMessage
<1>8. /\ heap' \in Seq(Seq(Slot)) /\ Len(heap') = Len(heap)
      /\ \A b \in 1..Len(heap) :
           /\ Len(heap'[b]) = Len(heap[b])
           /\ \A j \in 1..Len(heap[b]) : heap'[b][j] = IF b = a /\ j = i THEN m ELSE heap[b][j]
  <2> HIDE DEF m, a, i
  <2>1. QED
    BY <1>1, <1>2, <1>5, <1>6, <1>7, StoreIs
<1>9. stored' = [stored EXCEPT !.len = stored.len + 1]
  BY DEF AppendMessage, Published
<1>10. stored' = [arr |-> stored.arr, len |-> stored.len + 1]
  BY <1>2, <1>9
<1>11. \A k \in 1..stored.len : k \in 1..Len(heap[a]) /\ k # i
  BY <1>3, <1>5
<1>12. HeapKeepsBut(a, i)
  BY <1>3, <1>8 DEF HeapKeepsBut
<1>13. heap'[a][i] = m /\ \A k \in 1..stored.len : heap'[a][k] = heap[a][k]
  BY <1>5, <1>6, <1>8, <1>11
<1>14. QED
  BY <1>5, <1>6, <1>10, <1>12, <1>13

LEMMA AppendGrows ==
  ASSUME Base, NEW t \in Turns, AppendMessage(t), ~AppendedInPlace(t)
  PROVE  /\ HeapKeepsBut(0, 0)
         /\ stored' = [arr |-> Len(heap) + 1, len |-> stored.len + 1]
         /\ Len(heap') = Len(heap) + 1 /\ stored.len + 1 <= Len(heap'[Len(heap) + 1])
         /\ heap'[Len(heap) + 1][stored.len + 1] = Whole(Appending(t))
         /\ \A i \in 1..stored.len :
              stored.arr # 0 /\ heap'[Len(heap) + 1][i] = heap[stored.arr][i]
<1> DEFINE m == Whole(Appending(t))
           n == stored.len
           cap == NewCap(Cap(stored.arr))
           arr == Filled(Append(Content, m), cap)
<1>1. m \in Slot
  BY AppendingIsPost
<1>2. /\ TypeOK /\ heap \in Seq(Seq(Slot)) /\ stored \in [arr : Nat, len : Nat]
      /\ stored.arr <= Len(heap) /\ stored.len <= Cap(stored.arr) /\ kind = "memory"
  BY DEF Base, TypeOK, SlicesOK, AppendMessage
<1>3. n \in Nat /\ n = Cap(stored.arr) /\ Len(heap) \in Nat /\ Cap(stored.arr) \in Nat
  <2>1. stored.arr \in 0..Len(heap) /\ n \in Nat /\ Len(heap) \in Nat
    BY <1>2, ArraysAre
  <2>2. Cap(stored.arr) \in Nat
    BY <1>2, <2>1, ArraysAre
  <2>3. QED
    BY <1>2, <2>1, <2>2 DEF AppendedInPlace
<1>4. cap \in Nat /\ n + 1 <= cap
  BY <1>3 DEF NewCap
<1>5. /\ Content \in Seq(Slot) /\ Len(Content) = n
      /\ \A i \in 1..n : stored.arr # 0 /\ Content[i] = heap[stored.arr][i]
  BY <1>2, ContentIs, BaseIsRepo
<1> DEFINE c == Append(Content, m)
<1>6. c \in Seq(Slot) /\ Len(c) = n + 1 /\ c[n + 1] = m /\ \A i \in 1..n : c[i] = Content[i]
  BY <1>1, <1>5, AppendProperties
<1>7. /\ heap' = Append(heap, Filled(c, cap))
      /\ stored' = [arr |-> Len(heap) + 1, len |-> n + 1]
  BY DEF AppendMessage, Grown, Published
<1> HIDE DEF m, c, cap
<1>8. /\ Filled(c, cap) \in Seq(Slot) /\ Len(Filled(c, cap)) = cap
      /\ \A i \in 1..(n + 1) : Filled(c, cap)[i] = c[i]
  BY <1>4, <1>6, FilledIs
<1> DEFINE f == Filled(c, cap)
           T == Seq(Slot)
<1>9. heap \in Seq(T) /\ f \in T /\ heap' = Append(heap, f)
  BY <1>2, <1>7, <1>8
<1> HIDE DEF f, T
<1>10. /\ heap' \in Seq(T) /\ Len(heap') = Len(heap) + 1 /\ heap'[Len(heap) + 1] = f
       /\ \A a \in 1..Len(heap) : heap'[a] = heap[a]
  BY <1>9, AppendProperties
<1>11. HeapKeepsBut(0, 0)
  BY <1>3, <1>10 DEF HeapKeepsBut, T
<1>12. n + 1 <= Len(f) /\ f[n + 1] = c[n + 1] /\ \A i \in 1..n : f[i] = c[i]
  <2>1. n + 1 \in 1..(n + 1) /\ \A i \in 1..n : i \in 1..(n + 1)
    BY <1>3
  <2>2. QED
    BY <1>4, <1>8, <2>1 DEF f
<1>13. n + 1 <= Len(heap'[Len(heap) + 1]) /\ heap'[Len(heap) + 1][n + 1] = Whole(Appending(t))
  BY <1>6, <1>10, <1>12 DEF m
<1>14. \A i \in 1..n : stored.arr # 0 /\ heap'[Len(heap) + 1][i] = heap[stored.arr][i]
  BY <1>5, <1>6, <1>10, <1>12
<1>15. QED
  BY <1>7, <1>10, <1>11, <1>13, <1>14

\* What both have in common.
LEMMA AppendIs ==
  ASSUME Base, NEW t \in Turns, AppendMessage(t)
  PROVE  /\ kind = "memory" /\ (At(t, "ask") \/ At(t, "record"))
         /\ Becomes(t, Resumed(t)) /\ UNCHANGED <<kind, old, row>>
         /\ log' = Append(log, Appending(t))
         /\ HeapKeepsBut(stored.arr, stored.len + 1)
         /\ stored' \in [arr : Nat, len : Nat] /\ stored'.len = stored.len + 1
         /\ stored'.arr \in 1..Len(heap') /\ stored'.len <= Len(heap'[stored'.arr])
         /\ stored'.arr = stored.arr \/ stored'.arr = Len(heap) + 1
         /\ heap'[stored'.arr][stored.len + 1] = Whole(Appending(t))
         /\ \A i \in 1..stored.len :
              stored.arr # 0 /\ heap'[stored'.arr][i] = heap[stored.arr][i]
<1>1. /\ kind = "memory" /\ (At(t, "ask") \/ At(t, "record"))
      /\ turn' = [turn EXCEPT ![t] = Resumed(t)] /\ row' = row /\ Notes(t, <<Appending(t)>>)
  BY DEF AppendMessage
<1>2. UNCHANGED <<kind, old>> /\ log' = Append(log, Appending(t))
  <2>1. log \in Seq(Post) /\ Appending(t) \in Post
    BY AppendingIsPost DEF Base, TypeOK
  <2>2. log \o <<Appending(t)>> = Append(log, Appending(t))
    BY <2>1
  <2>3. QED
    BY <1>1, <2>2 DEF Notes
<1>3. Becomes(t, Resumed(t))
  BY <1>1, ResumedIs, TurnBecomes DEF Base
<1>4. stored \in [arr : Nat, len : Nat] /\ Len(heap) \in Nat
  BY ArraysAre DEF Base, TypeOK
<1>5. CASE AppendedInPlace(t)
  <2>1. /\ HeapKeepsBut(stored.arr, stored.len + 1)
        /\ stored' = [arr |-> stored.arr, len |-> stored.len + 1]
        /\ stored.arr \in 1..Len(heap) /\ stored.len + 1 <= Len(heap[stored.arr])
        /\ heap'[stored.arr][stored.len + 1] = Whole(Appending(t))
        /\ \A i \in 1..stored.len : heap'[stored.arr][i] = heap[stored.arr][i]
    BY <1>5, AppendInPlace
  <2>2. /\ stored' \in [arr : Nat, len : Nat] /\ stored'.len = stored.len + 1
        /\ stored'.arr = stored.arr
    BY <1>4, <2>1
  <2>3. stored.arr \in 1..Len(heap') /\ stored.len + 1 <= Len(heap'[stored.arr]) /\ stored.arr # 0
    BY <1>4, <2>1 DEF HeapKeepsBut
  <2>4. QED
    BY <1>1, <1>2, <1>3, <2>1, <2>2, <2>3
<1>6. CASE ~AppendedInPlace(t)
  <2>1. /\ HeapKeepsBut(0, 0)
        /\ stored' = [arr |-> Len(heap) + 1, len |-> stored.len + 1]
        /\ Len(heap') = Len(heap) + 1 /\ stored.len + 1 <= Len(heap'[Len(heap) + 1])
        /\ heap'[Len(heap) + 1][stored.len + 1] = Whole(Appending(t))
        /\ \A i \in 1..stored.len :
             stored.arr # 0 /\ heap'[Len(heap) + 1][i] = heap[stored.arr][i]
    BY <1>6, AppendGrows
  <2>2. /\ stored' \in [arr : Nat, len : Nat] /\ stored'.len = stored.len + 1
        /\ stored'.arr = Len(heap) + 1
    BY <1>4, <2>1
  <2>3. HeapKeepsBut(stored.arr, stored.len + 1) /\ Len(heap) + 1 \in 1..Len(heap')
    BY <1>4, <2>1 DEF HeapKeepsBut
  <2>4. QED
    BY <1>1, <1>2, <1>3, <2>1, <2>2, <2>3
<1>7. QED
  BY <1>5, <1>6

\* The two stores to the turn's own copy.
LocalStore(t) == LocalHead(t) \/ LocalRest(t)

LEMMA LocalStoreIs ==
  ASSUME Base, NEW t \in Turns, LocalStore(t)
  PROVE  /\ kind = "memory" /\ (At(t, "local") \/ At(t, "half"))
         /\ turn[t].arr \in 1..Len(heap) /\ turn[t].base + 1 \in 1..Len(heap[turn[t].arr])
         /\ UNCHANGED <<kind, old, stored, row, log>>
         /\ Becomes(t, [turn[t] EXCEPT !.pc = IF At(t, "local") THEN "half" ELSE "prompting"])
         /\ HeapKeepsBut(turn[t].arr, turn[t].base + 1) /\ Len(heap') = Len(heap)
         /\ heap[turn[t].arr][turn[t].base + 1] = Whole(Question(t)) => HeapKeepsBut(0, 0)
<1> DEFINE a == turn[t].arr
           i == turn[t].base + 1
           q == Question(t)
<1>1. /\ TypeOK /\ heap \in Seq(Seq(Slot)) /\ Len(heap) \in Nat
      /\ a \in Nat /\ a <= Len(heap) /\ turn[t].base \in Nat /\ (At(t, "local") \/ At(t, "half"))
  BY ArraysAre DEF Base, TypeOK, Local, SlicesOK, LocalStore, LocalHead, LocalRest
<1>2. turn[t].base < Cap(a) /\ kind = "memory"
  BY <1>1 DEF Base, TypeOK, SlicesOK, PathsOK, LocalStore, LocalHead, LocalRest, At
<1>3. a # 0
  BY <1>1, <1>2 DEF Cap
<1>4. a \in 1..Len(heap) /\ heap[a] \in Seq(Slot) /\ Len(heap[a]) \in Nat /\ i \in 1..Len(heap[a])
  <2>1. a \in 1..Len(heap)
    BY <1>1, <1>3
  <2>2. turn[t].base < Len(heap[a])
    BY <1>2, <1>3 DEF Cap
  <2>3. QED
    BY <1>1, <2>1, <2>2, ArraysAre
<1>5. heap[a][i] \in Slot /\ q \in Post
  BY <1>4, MessagesArePosts
<1>6. PICK m \in Slot : /\ heap' = [heap EXCEPT ![a] = [heap[a] EXCEPT ![i] = m]]
                        /\ heap[a][i] = Whole(q) => m = Whole(q)
  <2>1. CASE LocalHead(t)
    <3> DEFINE m == [heap[a][i] EXCEPT !.head = q]
    <3>1. m \in Slot
      BY <1>5 DEF Slot
    <3>2. heap' = [heap EXCEPT ![a] = [heap[a] EXCEPT ![i] = m]]
      BY <1>1, <1>4, <2>1 DEF LocalHead, LocalSlot
    <3>3. heap[a][i] = Whole(q) => m = Whole(q)
      BY DEF Whole
    <3>4. QED
      BY <3>1, <3>2, <3>3
  <2>2. CASE LocalRest(t)
    <3> DEFINE m == [heap[a][i] EXCEPT !.rest = q]
    <3>1. m \in Slot
      BY <1>5 DEF Slot
    <3>2. heap' = [heap EXCEPT ![a] = [heap[a] EXCEPT ![i] = m]]
      BY <1>1, <1>4, <2>2 DEF LocalRest, LocalSlot
    <3>3. heap[a][i] = Whole(q) => m = Whole(q)
      BY DEF Whole
    <3>4. QED
      BY <3>1, <3>2, <3>3
  <2>3. QED
    BY <2>1, <2>2 DEF LocalStore
<1>7. Notes(t, <<>>) /\ UNCHANGED <<stored, row>>
      /\ Goes(t, IF At(t, "local") THEN "half" ELSE "prompting")
  BY DEF LocalStore, LocalHead, LocalRest, At
<1>8. Becomes(t, [turn[t] EXCEPT !.pc = IF At(t, "local") THEN "half" ELSE "prompting"])
  <2> DEFINE pc == IF At(t, "local") THEN "half" ELSE "prompting"
  <2>1. pc \in {"half", "prompting", "record"} /\ Goes(t, pc)
    BY <1>7
  <2> HIDE DEF pc
  <2>2. Becomes(t, [turn[t] EXCEPT !.pc = pc])
    BY <1>1, <2>1, GoesIs
  <2>3. QED
    BY <2>2 DEF pc
<1>9. UNCHANGED <<kind, old, stored, row, log>>
  <2>1. log \in Seq(Post)
    BY <1>1 DEF TypeOK
  <2>2. QED
    BY <1>7, <2>1 DEF Notes
<1>10. /\ heap' \in Seq(Seq(Slot)) /\ Len(heap') = Len(heap)
       /\ \A b \in 1..Len(heap) :
            /\ Len(heap'[b]) = Len(heap[b])
            /\ \A j \in 1..Len(heap[b]) : heap'[b][j] = IF b = a /\ j = i THEN m ELSE heap[b][j]
  <2> HIDE DEF a, i
  <2>1. QED
    BY <1>1, <1>4, <1>6, StoreIs
<1>11. HeapKeepsBut(a, i)
  BY <1>1, <1>10 DEF HeapKeepsBut
<1>12. heap[a][i] = Whole(q) => HeapKeepsBut(0, 0)
  BY <1>1, <1>6, <1>10 DEF HeapKeepsBut
<1>13. QED
  BY <1>1, <1>2, <1>4, <1>8, <1>9, <1>10, <1>11, <1>12

\* The two ends of an UPDATE that takes effect or does not.
LEMMA UpdateIs ==
  ASSUME Base, NEW t \in Turns, Update(t) \/ \E committed \in BOOLEAN : UpdateFails(t, committed)
  PROVE  /\ kind = "postgres" /\ (At(t, "asking") \/ At(t, "recording"))
         /\ UNCHANGED <<kind, old, heap, stored>>
         /\ \/ row' = row /\ log' = log
            \/ /\ row' = Append(turn[t].read, Appending(t))
               /\ log' = Append(log, Appending(t))
         /\ \/ /\ Becomes(t, Resumed(t))
               /\ row' = Append(turn[t].read, Appending(t))
            \/ Becomes(t, [turn[t] EXCEPT !.pc = "done", !.result = "error"])
<1>1. At(t, "asking") \/ At(t, "recording")
  BY DEF Update, UpdateFails
<1>2. TypeOK /\ kind = "postgres"
  BY <1>1 DEF Base, PathsOK, TypeOK
<1>3. log \in Seq(Post) /\ Appending(t) \in Post
  BY <1>2, AppendingIsPost DEF TypeOK
<1>4. log \o <<>> = log /\ log \o <<Appending(t)>> = Append(log, Appending(t))
  BY <1>3
<1>5. CASE Update(t)
  <2>1. /\ row' = Append(turn[t].read, Appending(t)) /\ turn' = [turn EXCEPT ![t] = Resumed(t)]
        /\ UNCHANGED <<heap, stored>> /\ Notes(t, <<Appending(t)>>)
    BY <1>5 DEF Update
  <2>2. Becomes(t, Resumed(t))
    BY <1>2, <2>1, ResumedIs, TurnBecomes
  <2>3. QED
    BY <1>1, <1>2, <1>4, <2>1, <2>2 DEF Notes
<1>6. ASSUME NEW committed \in BOOLEAN, UpdateFails(t, committed)
      PROVE  /\ UNCHANGED <<kind, old, heap, stored>>
             /\ \/ row' = row /\ log' = log
                \/ /\ row' = Append(turn[t].read, Appending(t))
                   /\ log' = Append(log, Appending(t))
             /\ Becomes(t, [turn[t] EXCEPT !.pc = "done", !.result = "error"])
  <2>1. /\ row' = IF committed THEN Append(turn[t].read, Appending(t)) ELSE row
        /\ Ends(t, "error") /\ UNCHANGED <<heap, stored>>
        /\ Notes(t, IF committed THEN <<Appending(t)>> ELSE <<>>)
    BY <1>6 DEF UpdateFails
  <2>2. Becomes(t, [turn[t] EXCEPT !.pc = "done", !.result = "error"])
    BY <1>2, <2>1, EndsIs
  <2>3. log' = IF committed THEN Append(log, Appending(t)) ELSE log
    <3>1. CASE committed
      BY <1>4, <2>1, <3>1 DEF Notes
    <3>2. CASE ~committed
      BY <1>4, <2>1, <3>2 DEF Notes
    <3>3. QED
      BY <3>1, <3>2
  <2>4. QED
    BY <2>1, <2>2, <2>3 DEF Notes
<1>7. QED
  BY <1>1, <1>2, <1>5, <1>6

----------------------------------------------------------------------------
(* The base of the invariant *)

\* The kinds of step there are.
LEMMA StepKinds ==
  ASSUME NEW t \in Turns, Step(t)
  PROVE  \/ Got(t) \/ Leaves(t) \/ LocalGrow(t) \/ Prompted(t) \/ Select(t) \/ Answered(t)
         \/ AppendMessage(t) \/ LocalStore(t)
         \/ Update(t) \/ \E committed \in BOOLEAN : UpdateFails(t, committed)
BY DEF Step, Leaves, LocalStore

\* Every step keeps the book on overlaps and on what was there in quiet times.
Booked(t) ==
  /\ overlapped' = (overlapped \/ (UnderWay(t)' /\ \E u \in Turns \ {t} : UnderWay(u)))
  /\ quiet' = IF \E u \in Turns : UnderWay(u)' THEN quiet ELSE Content'

LEMMA StepIsBooked ==
  ASSUME NEW t \in Turns, Step(t)
  PROVE  Booked(t)
BY DEF Step, Got, NotGot, Refused, AppendMessage, LocalGrow, LocalHead, LocalRest, Prompted,
       Select, SelectFails, UpdateFails, Update, Unanswered, Answered, Notes, Booked

\* What the silent steps make of a turn.
SilentStep(t) ==
  Got(t) \/ Leaves(t) \/ LocalGrow(t) \/ Prompted(t) \/ Select(t) \/ Answered(t)

LEMMA SilentSteps ==
  ASSUME Base, NEW t \in Turns, SilentStep(t)
  PROVE  /\ Silent(t)
         /\ \E r \in Local :
              /\ Becomes(t, r)
              /\ r.pc \notin {"new", "half", "prompting", "local"}
              /\ r.pc \in {"asking", "recording"} => kind = "postgres"
              /\ \/ r.arr = turn[t].arr /\ r.base = turn[t].base
                 \/ At(t, "new") /\ r.arr = stored.arr /\ r.base = Len(Content)
<1>0. turn[t] \in Local
  BY DEF Base, TypeOK
<1>1. CASE Got(t)
  <2> DEFINE p == IF kind = "postgres" THEN Append(Content, Whole(Question(t))) ELSE <<>>
             r == [turn[t] EXCEPT !.pc = "ask", !.arr = stored.arr, !.base = Len(Content), !.prompt = p]
  <2>1. Silent(t) /\ Becomes(t, r) /\ At(t, "new")
    BY <1>1, GotIs
  <2>2. r \in Local
    BY <2>1 DEF Becomes
  <2> HIDE DEF p
  <2>3. r.pc = "ask" /\ r.arr = stored.arr /\ r.base = Len(Content)
    BY <1>0 DEF Local
  <2> HIDE DEF r
  <2>4. QED
    BY <2>1, <2>2, <2>3
<1>2. CASE Leaves(t)
  <2>1. PICK result \in {"refused", "error"} :
          Becomes(t, [turn[t] EXCEPT !.pc = "done", !.result = result])
    BY <1>2, LeavesIs
  <2> DEFINE r == [turn[t] EXCEPT !.pc = "done", !.result = result]
  <2>2. r \in Local /\ r.pc = "done" /\ r.arr = turn[t].arr /\ r.base = turn[t].base
    BY <1>0, <2>1 DEF Becomes, Local
  <2>3. Silent(t)
    BY <1>2, LeavesIs
  <2> HIDE DEF r
  <2>4. QED
    BY <2>1, <2>2, <2>3 DEF r
<1>3. CASE LocalGrow(t)
  <2> DEFINE p == Append(Slots(turn[t].arr, turn[t].base), Whole(Question(t)))
             r == [turn[t] EXCEPT !.pc = "answering", !.prompt = p]
  <2>1. Silent(t) /\ Becomes(t, r)
    BY <1>3, LocalGrowIs
  <2> HIDE DEF p
  <2>2. r \in Local /\ r.pc = "answering" /\ r.arr = turn[t].arr /\ r.base = turn[t].base
    BY <1>0, <2>1 DEF Becomes, Local
  <2> HIDE DEF r
  <2>3. QED
    BY <2>1, <2>2
<1>4. CASE Prompted(t)
  <2> DEFINE p == Slots(turn[t].arr, turn[t].base + 1)
             r == [turn[t] EXCEPT !.pc = "answering", !.prompt = p]
  <2>1. Silent(t) /\ Becomes(t, r)
    BY <1>4, PromptedIs
  <2> HIDE DEF p
  <2>2. r \in Local /\ r.pc = "answering" /\ r.arr = turn[t].arr /\ r.base = turn[t].base
    BY <1>0, <2>1 DEF Becomes, Local
  <2> HIDE DEF r
  <2>3. QED
    BY <2>1, <2>2
<1>5. CASE Select(t)
  <2> DEFINE pc == IF At(t, "ask") THEN "asking" ELSE "recording"
             r == [turn[t] EXCEPT !.pc = pc, !.read = row]
  <2>1. Silent(t) /\ Becomes(t, r) /\ kind = "postgres"
    BY <1>5, SelectIs
  <2>2. pc \in {"asking", "recording"}
    OBVIOUS
  <2> HIDE DEF pc
  <2>3. r \in Local /\ r.pc = pc /\ r.arr = turn[t].arr /\ r.base = turn[t].base
    BY <1>0, <2>1 DEF Becomes, Local
  <2> HIDE DEF r
  <2>4. QED
    BY <2>1, <2>2, <2>3
<1>6. CASE Answered(t)
  <2> DEFINE r == [turn[t] EXCEPT !.pc = "record"]
  <2>1. Silent(t) /\ Becomes(t, r)
    BY <1>6, AnsweredIs
  <2>2. r \in Local /\ r.pc = "record" /\ r.arr = turn[t].arr /\ r.base = turn[t].base
    BY <1>0, <2>1 DEF Becomes, Local
  <2> HIDE DEF r
  <2>3. QED
    BY <2>1, <2>2
<1>7. QED
  BY <1>1, <1>2, <1>3, <1>4, <1>5, <1>6 DEF SilentStep

\* A step leaves the stored session well formed, and leads to a turn whose slice
\* lies within its array.
StepKeeps(t) ==
  /\ RepoOK' /\ kind' = kind /\ old' = old /\ log' \in Seq(Post)
  /\ Len(heap) <= Len(heap') /\ Len(heap') \in Nat
  /\ \A a \in 1..Len(heap) : Len(heap'[a]) = Len(heap[a])
  /\ \E r \in Local :
       /\ Becomes(t, r)
       /\ r.pc \in {"asking", "recording"} => kind = "postgres"
       /\ r.pc \in {"local", "half", "prompting"} => kind = "memory"
       /\ \/ r.arr = turn[t].arr /\ r.base = turn[t].base
          \/ At(t, "new") /\ r.arr = stored.arr /\ r.base = Len(Content)
       /\ r.pc \in {"half", "prompting"} =>
            r.arr = turn[t].arr /\ r.base = turn[t].base /\ turn[t].base < Cap(turn[t].arr)

LEMMA StepKept ==
  ASSUME Base, NEW t \in Turns, Step(t)
  PROVE  StepKeeps(t)
<1>0. /\ turn[t] \in Local /\ log \in Seq(Post) /\ row \in Seq(Post) /\ RepoOK /\ Len(heap) \in Nat
      /\ kind \in {"memory", "postgres"} /\ heap \in Seq(Seq(Slot))
  BY BaseIsRepo, ArraysAre DEF Base, TypeOK
<1>1. CASE SilentStep(t)
  <2>1. PICK r \in Local :
          /\ Becomes(t, r)
          /\ r.pc \notin {"new", "half", "prompting", "local"}
          /\ r.pc \in {"asking", "recording"} => kind = "postgres"
          /\ \/ r.arr = turn[t].arr /\ r.base = turn[t].base
             \/ At(t, "new") /\ r.arr = stored.arr /\ r.base = Len(Content)
    BY <1>1, SilentSteps
  <2>2. UNCHANGED <<kind, old, heap, stored, row, log>>
    BY <1>1, SilentSteps DEF Silent
  <2>3. RepoOK'
    BY <1>0, <2>2 DEF RepoOK, Cap
  <2>4. QED
    BY <1>0, <2>1, <2>2, <2>3 DEF StepKeeps
<1>2. CASE AppendMessage(t)
  <2>1. /\ kind = "memory" /\ (At(t, "ask") \/ At(t, "record"))
        /\ Becomes(t, Resumed(t)) /\ UNCHANGED <<kind, old, row>>
        /\ log' = Append(log, Appending(t))
        /\ HeapKeepsBut(stored.arr, stored.len + 1)
        /\ stored' \in [arr : Nat, len : Nat]
        /\ stored'.arr \in 1..Len(heap') /\ stored'.len <= Len(heap'[stored'.arr])
    BY <1>2, AppendIs
  <2>2. log' \in Seq(Post)
    BY <1>0, <2>1, AppendingIsPost
  <2>3. RepoOK'
    BY <1>0, <2>1 DEF RepoOK, Cap, HeapKeepsBut
  <2>4. /\ Resumed(t) \in Local /\ Resumed(t).arr = turn[t].arr /\ Resumed(t).base = turn[t].base
        /\ Resumed(t).pc \in {"local", "done"}
    BY <2>1, ResumedIs DEF At
  <2>5. QED
    BY <2>1, <2>2, <2>3, <2>4 DEF StepKeeps, HeapKeepsBut
<1>3. CASE LocalStore(t)
  <2> DEFINE pc == IF At(t, "local") THEN "half" ELSE "prompting"
             r == [turn[t] EXCEPT !.pc = pc]
  <2>1. /\ kind = "memory" /\ UNCHANGED <<kind, old, stored, row, log>>
        /\ turn[t].arr \in 1..Len(heap) /\ turn[t].base + 1 \in 1..Len(heap[turn[t].arr])
        /\ Becomes(t, r)
        /\ HeapKeepsBut(turn[t].arr, turn[t].base + 1)
    BY <1>3, LocalStoreIs
  <2> HIDE DEF pc
  <2>2. r \in Local /\ r.arr = turn[t].arr /\ r.base = turn[t].base /\ r.pc \in {"half", "prompting"}
    BY <1>0, <2>1 DEF Becomes, Local, pc
  <2> HIDE DEF r
  <2>3. RepoOK'
    <3>1. /\ heap' \in Seq(Seq(Slot)) /\ Len(heap) <= Len(heap') /\ Len(heap') \in Nat
          /\ \A a \in 1..Len(heap) : Len(heap'[a]) = Len(heap[a])
      BY <2>1 DEF HeapKeepsBut
    <3>2. stored.arr \in Nat /\ stored.arr <= Len(heap) /\ stored.len <= Cap(stored.arr)
          /\ stored \in [arr : Nat, len : Nat]
      BY <1>0 DEF RepoOK
    <3>3. stored.arr <= Len(heap')
      BY <1>0, <3>1, <3>2
    <3>4. stored.arr # 0 => stored.arr \in 1..Len(heap)
      BY <1>0, <3>2
    <3>5. stored.len <= IF stored.arr = 0 THEN 0 ELSE Len(heap'[stored.arr])
      BY <3>1, <3>2, <3>4 DEF Cap
    <3>6. QED
      BY <1>0, <2>1, <3>1, <3>2, <3>3, <3>5 DEF RepoOK, Cap
  <2>4. turn[t].base < Cap(turn[t].arr)
    <3>1. turn[t].base \in Nat /\ Len(heap[turn[t].arr]) \in Nat /\ turn[t].arr # 0
      BY <1>0, <2>1, ArraysAre DEF Local, Base
    <3>2. QED
      BY <2>1, <3>1 DEF Cap
  <2>5. QED
    BY <1>0, <2>1, <2>2, <2>3, <2>4 DEF StepKeeps, HeapKeepsBut
<1>4. CASE Update(t) \/ \E committed \in BOOLEAN : UpdateFails(t, committed)
  <2>1. /\ kind = "postgres" /\ (At(t, "asking") \/ At(t, "recording"))
        /\ UNCHANGED <<kind, old, heap, stored>>
        /\ \/ row' = row /\ log' = log
           \/ /\ row' = Append(turn[t].read, Appending(t))
              /\ log' = Append(log, Appending(t))
        /\ Becomes(t, Resumed(t)) \/ Becomes(t, [turn[t] EXCEPT !.pc = "done", !.result = "error"])
    BY <1>4, UpdateIs
  <2>2. row' \in Seq(Post) /\ log' \in Seq(Post)
    <3>1. turn[t].read \in Seq(Post) /\ Appending(t) \in Post
      BY <1>0, AppendingIsPost DEF Local
    <3>2. Append(turn[t].read, Appending(t)) \in Seq(Post) /\ Append(log, Appending(t)) \in Seq(Post)
      BY <1>0, <3>1
    <3>3. QED
      BY <1>0, <2>1, <3>2
  <2>3. RepoOK'
    BY <1>0, <2>1, <2>2 DEF RepoOK, Cap
  <2>4. \E r \in Local : /\ Becomes(t, r) /\ r.arr = turn[t].arr /\ r.base = turn[t].base
                         /\ r.pc \in {"answering", "done"}
    <3>1. CASE Becomes(t, Resumed(t))
      <4>1. /\ Resumed(t) \in Local /\ Resumed(t).arr = turn[t].arr /\ Resumed(t).base = turn[t].base
            /\ Resumed(t).pc \in {"answering", "done"}
        BY <2>1, ResumedIs DEF At
      <4>2. QED
        BY <3>1, <4>1
    <3>2. CASE Becomes(t, [turn[t] EXCEPT !.pc = "done", !.result = "error"])
      <4> DEFINE r == [turn[t] EXCEPT !.pc = "done", !.result = "error"]
      <4>1. r \in Local /\ r.arr = turn[t].arr /\ r.base = turn[t].base /\ r.pc = "done"
        BY <1>0, <3>2 DEF Becomes, Local
      <4>2. Becomes(t, r)
        BY <3>2
      <4> HIDE DEF r
      <4>3. QED
        BY <4>1, <4>2
    <3>3. QED
      BY <2>1, <3>1, <3>2
  <2>5. QED
    BY <1>0, <2>1, <2>2, <2>3, <2>4 DEF StepKeeps
<1>5. QED
  BY <1>1, <1>2, <1>3, <1>4, StepKinds DEF SilentStep

\* The capacity of an array after the step.
CapNext(arr) == IF arr = 0 THEN 0 ELSE Len(heap'[arr])

\* So every step keeps types, slices and paths.
LEMMA StepBase ==
  ASSUME Base, NEW t \in Turns, Step(t)
  PROVE  Base'
<1>0. StepKeeps(t) /\ Booked(t)
  BY StepKept, StepIsBooked
<1>1. /\ RepoOK' /\ kind' = kind /\ old' = old /\ log' \in Seq(Post)
      /\ Len(heap) <= Len(heap') /\ Len(heap') \in Nat
      /\ \A a \in 1..Len(heap) : Len(heap'[a]) = Len(heap[a])
  BY <1>0 DEF StepKeeps
<1>2. PICK r \in Local :
       /\ Becomes(t, r)
       /\ r.pc \in {"asking", "recording"} => kind = "postgres"
       /\ r.pc \in {"local", "half", "prompting"} => kind = "memory"
       /\ \/ r.arr = turn[t].arr /\ r.base = turn[t].base
          \/ At(t, "new") /\ r.arr = stored.arr /\ r.base = Len(Content)
       /\ r.pc \in {"half", "prompting"} =>
            r.arr = turn[t].arr /\ r.base = turn[t].base /\ turn[t].base < Cap(turn[t].arr)
  BY <1>0 DEF StepKeeps
<1>3. turn' \in [Turns -> Local] /\ turn'[t] = r /\ \A u \in Turns \ {t} : turn'[u] = turn[u]
  BY <1>2 DEF Becomes
<1>4. Content' \in Seq(Slot)
  BY <1>1, ContentNext
<1>5. TypeOK'
  <2>1. quiet' \in Seq(Slot) /\ overlapped' \in BOOLEAN
    BY <1>0, <1>4 DEF Booked, Base, TypeOK
  <2>2. old' \in Seq(Post)
    BY <1>1 DEF Base, TypeOK
  <2>3. QED
    BY <1>1, <1>3, <2>1, <2>2 DEF TypeOK, RepoOK
<1>6. SlicesOK'
  <2>1. Len(heap) \in Nat /\ \A u \in Turns : turn[u].arr \in 0..Len(heap)
    BY ArraysAre DEF Base, TypeOK, Local, SlicesOK
  <2>2. ASSUME NEW u \in Turns \ {t}
        PROVE  /\ turn'[u].arr <= Len(heap')
               /\ kind' = "memory" => turn'[u].base <= CapNext(turn'[u].arr)
               /\ At(u, "half")' \/ At(u, "prompting")' => turn'[u].base < CapNext(turn'[u].arr)
    <3>1. turn'[u] = turn[u] /\ turn[u].arr <= Len(heap')
      BY <1>1, <1>3, <2>1
    <3>2. IF turn[u].arr = 0 THEN TRUE ELSE Len(heap'[turn[u].arr]) = Len(heap[turn[u].arr])
      BY <1>1, <2>1
    <3>3. QED
      BY <1>1, <3>1, <3>2 DEF Base, SlicesOK, At, Cap, CapNext
  <2>3. r.arr \in 0..Len(heap) /\ (kind = "memory" => r.base <= Cap(r.arr))
    <3>1. CASE r.arr = turn[t].arr /\ r.base = turn[t].base
      BY <2>1, <3>1 DEF Base, SlicesOK
    <3>2. CASE r.arr = stored.arr /\ r.base = Len(Content)
      <4>1. /\ stored.arr \in Nat /\ stored.arr <= Len(heap) /\ stored.len <= Cap(stored.arr)
            /\ kind = "memory" => Len(Content) = stored.len
        BY ContentIs, BaseIsRepo DEF RepoOK
      <4>2. QED
        BY <2>1, <3>2, <4>1
    <3>3. QED
      BY <1>2, <3>1, <3>2
  <2>4. /\ turn'[t].arr <= Len(heap')
        /\ kind' = "memory" => turn'[t].base <= CapNext(turn'[t].arr)
        /\ At(t, "half")' \/ At(t, "prompting")' => turn'[t].base < CapNext(turn'[t].arr)
    <3>1. r.arr <= Len(heap')
      BY <1>1, <2>1, <2>3
    <3>2. IF r.arr = 0 THEN TRUE ELSE Len(heap'[r.arr]) = Len(heap[r.arr])
      BY <1>1, <2>3
    <3>3. QED
      BY <1>1, <1>2, <1>3, <2>3, <3>1, <3>2 DEF At, Cap, CapNext
  <2>5. QED
    BY <1>1, <2>2, <2>4 DEF SlicesOK, RepoOK, At, Cap, CapNext
<1>7. PathsOK'
  BY <1>1, <1>2, <1>3 DEF Base, PathsOK, At
<1>8. QED
  BY <1>5, <1>6, <1>7 DEF Base

----------------------------------------------------------------------------
(* What was appended *)

\* All messages the session was given, in the order of their appends.
All == old \o log

LEMMA AllIs ==
  ASSUME TypeOK
  PROVE  /\ All \in Seq(Post) /\ Len(All) = Len(old) + Len(log)
         /\ Len(old) \in Nat /\ Len(log) \in Nat /\ Len(All) \in Nat /\ DOMAIN All = 1..Len(All)
         /\ \A i \in 1..Len(All) : All[i] = IF i <= Len(old) THEN old[i] ELSE log[i - Len(old)]
<1>1. old \in Seq(Post) /\ log \in Seq(Post)
  BY DEF TypeOK
<1>2. QED
  BY <1>1, ConcatProperties DEF All

\* A place of them is among the old ones or among those appended.
LEMMA PlacesOfAll ==
  ASSUME TypeOK, NEW i \in DOMAIN All
  PROVE  /\ i \in Int /\ Len(old) \in Int
         /\ \/ i <= Len(old) /\ i \in DOMAIN old /\ All[i] = old[i]
            \/ ~(i <= Len(old)) /\ i - Len(old) \in DOMAIN log /\ All[i] = log[i - Len(old)]
<1>1. /\ old \in Seq(Post) /\ log \in Seq(Post)
      /\ DOMAIN old = 1..Len(old) /\ DOMAIN log = 1..Len(log)
  BY DEF TypeOK
<1>2. /\ Len(old) \in Nat /\ Len(log) \in Nat /\ i \in 1..(Len(old) + Len(log))
      /\ All[i] = IF i <= Len(old) THEN old[i] ELSE log[i - Len(old)]
  BY AllIs
<1>3. QED
  BY <1>1, <1>2

LEMMA AllGrows ==
  ASSUME TypeOK, NEW m \in Post, old' = old, log' = Append(log, m)
  PROVE  /\ All' = Append(All, m) /\ All' \in Seq(Post) /\ Len(All') = Len(All) + 1
         /\ All'[Len(All) + 1] = m
         /\ \A i \in 1..Len(All) : All'[i] = All[i]
<1>1. old \in Seq(Post) /\ log \in Seq(Post) /\ All \in Seq(Post)
  BY AllIs DEF TypeOK
<1>2. old \o Append(log, m) = Append(old \o log, m)
  BY <1>1
<1>3. All' = Append(All, m)
  BY <1>2 DEF All
<1>4. QED
  BY <1>1, <1>3, AppendProperties

\* How a step goes on in the turn's program, and what it appends.
LEMMA LogStep ==
  ASSUME Base, NEW t \in Turns, Step(t)
  PROVE  /\ ~At(t, "done") /\ turn'[t].pc # "new" /\ \A u \in Turns \ {t} : turn'[u] = turn[u]
         /\ turn[t].pc \notin {"new", "ask", "asking"} => turn'[t].pc \notin {"ask", "asking"}
         /\ \/ log' = log
            \/ /\ log' = Append(log, Appending(t))
               /\ turn[t].pc \in {"ask", "asking", "record", "recording"}
               /\ turn'[t].pc \notin {"ask", "asking"}
               /\ turn[t].pc \in {"record", "recording"} => turn'[t].pc = "done"
<1>0. turn[t] \in Local
  BY DEF Base, TypeOK
<1>1. CASE Got(t)
  <2> DEFINE p == IF kind = "postgres" THEN Append(Content, Whole(Question(t))) ELSE <<>>
             r == [turn[t] EXCEPT !.pc = "ask", !.arr = stored.arr, !.base = Len(Content), !.prompt = p]
  <2>1. At(t, "new") /\ Silent(t) /\ Becomes(t, r)
    BY <1>1, GotIs
  <2> HIDE DEF p
  <2>2. turn'[t].pc = "ask" /\ \A u \in Turns \ {t} : turn'[u] = turn[u]
    BY <1>0, <2>1 DEF Becomes, Local
  <2>3. QED
    BY <2>1, <2>2 DEF At, Silent
<1>2. CASE Leaves(t)
  <2>1. PICK result \in {"refused", "error"} :
          Becomes(t, [turn[t] EXCEPT !.pc = "done", !.result = result])
    BY <1>2, LeavesIs
  <2>2. turn'[t].pc = "done" /\ \A u \in Turns \ {t} : turn'[u] = turn[u]
    BY <1>0, <2>1 DEF Becomes, Local
  <2>3. Silent(t)
    BY <1>2, LeavesIs
  <2>4. ~At(t, "done")
    BY <1>2 DEF Leaves, NotGot, Refused, SelectFails, Unanswered, At
  <2>5. QED
    BY <2>2, <2>3, <2>4 DEF Silent
<1>3. CASE LocalGrow(t) \/ Prompted(t) \/ Answered(t)
  <2>1. /\ turn'[t].pc \in {"answering", "record"} /\ Silent(t)
        /\ turn[t].pc \in {"local", "prompting", "answering"}
        /\ \A u \in Turns \ {t} : turn'[u] = turn[u]
    <3>1. ASSUME NEW p, Becomes(t, [turn[t] EXCEPT !.pc = "answering", !.prompt = p])
          PROVE  turn'[t].pc = "answering" /\ \A u \in Turns \ {t} : turn'[u] = turn[u]
      BY <1>0, <3>1 DEF Becomes, Local
    <3>2. CASE LocalGrow(t)
      BY <3>1, <3>2, LocalGrowIs DEF At
    <3>3. CASE Prompted(t)
      BY <3>1, <3>3, PromptedIs DEF At
    <3>4. CASE Answered(t)
      BY <1>0, <3>4, AnsweredIs DEF Becomes, Local, At
    <3>5. QED
      BY <1>3, <3>2, <3>3, <3>4
  <2>2. QED
    BY <2>1 DEF At, Silent
<1>4. CASE Select(t)
  <2>1. /\ At(t, "ask") \/ At(t, "record")
        /\ turn'[t].pc = (IF At(t, "ask") THEN "asking" ELSE "recording") /\ Silent(t)
        /\ \A u \in Turns \ {t} : turn'[u] = turn[u]
    BY <1>0, <1>4, SelectIs DEF Becomes, Local
  <2>2. QED
    BY <2>1 DEF At, Silent
<1>5. CASE AppendMessage(t)
  <2>1. /\ kind = "memory" /\ (At(t, "ask") \/ At(t, "record"))
        /\ Becomes(t, Resumed(t)) /\ log' = Append(log, Appending(t))
    BY <1>5, AppendIs
  <2>2. QED
    BY <2>1, ResumedIs DEF Becomes, At
<1>6. CASE LocalStore(t)
  <2>1. /\ At(t, "local") \/ At(t, "half")
        /\ log' = log /\ turn'[t].pc \in {"half", "prompting"}
        /\ \A u \in Turns \ {t} : turn'[u] = turn[u]
    BY <1>0, <1>6, LocalStoreIs DEF Becomes, Local
  <2>2. QED
    BY <2>1 DEF At
<1>7. CASE Update(t) \/ \E committed \in BOOLEAN : UpdateFails(t, committed)
  <2>1. /\ kind = "postgres" /\ (At(t, "asking") \/ At(t, "recording"))
        /\ log' = log \/ log' = Append(log, Appending(t))
        /\ Becomes(t, Resumed(t)) \/ Becomes(t, [turn[t] EXCEPT !.pc = "done", !.result = "error"])
    BY <1>7, UpdateIs
  <2>2. /\ turn'[t].pc \in {"answering", "done"} /\ (At(t, "recording") => turn'[t].pc = "done")
        /\ \A u \in Turns \ {t} : turn'[u] = turn[u]
    <3>1. CASE Becomes(t, Resumed(t))
      BY <2>1, <3>1, ResumedIs DEF Becomes, At
    <3>2. CASE Becomes(t, [turn[t] EXCEPT !.pc = "done", !.result = "error"])
      BY <1>0, <3>2 DEF Becomes, Local
    <3>3. QED
      BY <2>1, <3>1, <3>2
  <2>3. QED
    BY <2>1, <2>2 DEF At
<1>8. QED
  BY <1>1, <1>2, <1>3, <1>4, <1>5, <1>6, <1>7, StepKinds

\* A turn's question is appended before it goes on, and its reply when it ends:
\* each at most once.
LogInv ==
  /\ \A i \in DOMAIN old : old[i] = OldMessage(i)
  /\ IsInjective(log)
  /\ \A i \in DOMAIN log : \E t \in Turns :
       \/ log[i] = Question(t) /\ turn[t].pc \notin {"new", "ask", "asking"}
       \/ log[i] = Reply(t) /\ turn[t].pc = "done"

\* Messages differ by who sent them and by their roles.
LEMMA MessagesDiffer ==
  /\ \A t, u : Question(t) = Question(u) => t = u
  /\ \A t, u : Reply(t) = Reply(u) => t = u
  /\ \A t, u : Question(t) # Reply(u)
  /\ \A t, i : OldMessage(i) # Question(t) /\ OldMessage(i) # Reply(t)
  /\ \A i, j : OldMessage(i) = OldMessage(j) => i = j
<1>1. \A t, u : Question(t) = Question(u) => t = u
  <2> TAKE t, u
  <2>1. Question(t).by = t /\ Question(u).by = u
    BY DEF Question
  <2>2. QED
    BY <2>1
<1>2. \A t, u : Reply(t) = Reply(u) => t = u
  <2> TAKE t, u
  <2>1. Reply(t).by = t /\ Reply(u).by = u
    BY DEF Reply
  <2>2. QED
    BY <2>1
<1>3. \A i, j : OldMessage(i) = OldMessage(j) => i = j
  <2> TAKE i, j
  <2>1. OldMessage(i).by = i /\ OldMessage(j).by = j
    BY DEF OldMessage
  <2>2. QED
    BY <2>1
<1>4. \A t : Question(t).role = "user" /\ Reply(t).role = "assistant" /\ OldMessage(t).role = "old"
  BY DEF Question, Reply, OldMessage
<1>5. (\A t, u : Question(t) # Reply(u)) /\ \A t, i : OldMessage(i) # Question(t) /\ OldMessage(i) # Reply(t)
  <2>1. "user" # "assistant" /\ "old" # "user" /\ "old" # "assistant"
    OBVIOUS
  <2>2. \A t, u : Question(t).role # Reply(u).role
    BY <1>4, <2>1
  <2>3. \A t, i : OldMessage(i).role # Question(t).role /\ OldMessage(i).role # Reply(t).role
    BY <1>4, <2>1
  <2>4. QED
    BY <2>2, <2>3
<1>6. QED
  BY <1>1, <1>2, <1>3, <1>5

\* What a turn is about to append was never appended.
LEMMA FreshMessage ==
  ASSUME Base, LogInv, NEW t \in Turns, turn[t].pc \in {"ask", "asking", "record", "recording"}
  PROVE  /\ \A i \in DOMAIN log : log[i] # Appending(t)
         /\ \A i \in DOMAIN All : All[i] # Appending(t)
         /\ Appending(t) = IF turn[t].pc \in {"ask", "asking"} THEN Question(t) ELSE Reply(t)
<1>1. Appending(t) = IF turn[t].pc \in {"ask", "asking"} THEN Question(t) ELSE Reply(t)
  BY DEF Appending, At
<1>2. \A i \in DOMAIN log : log[i] # Appending(t)
  <2> SUFFICES ASSUME NEW i \in DOMAIN log, log[i] = Appending(t) PROVE FALSE
    OBVIOUS
  <2>1. PICK u \in Turns : \/ log[i] = Question(u) /\ turn[u].pc \notin {"new", "ask", "asking"}
                           \/ log[i] = Reply(u) /\ turn[u].pc = "done"
    BY DEF LogInv
  <2>2. QED
    BY <1>1, <2>1, MessagesDiffer
<1>3. \A i \in DOMAIN old : old[i] # Appending(t)
  BY <1>1, MessagesDiffer DEF LogInv
<1>4. \A i \in DOMAIN All : All[i] # Appending(t)
  BY <1>2, <1>3, PlacesOfAll DEF Base
<1>5. QED
  BY <1>1, <1>2, <1>4

\* No message is there twice.
LEMMA AllDiffer ==
  ASSUME Base, LogInv
  PROVE  IsInjective(All)
<1> SUFFICES ASSUME NEW i \in DOMAIN All, NEW j \in DOMAIN All, All[i] = All[j] PROVE i = j
  BY DEF IsInjective
<1> DEFINE n == Len(old)
<1>1. /\ i \in Int /\ n \in Int
      /\ \/ i <= n /\ i \in DOMAIN old /\ All[i] = old[i]
         \/ ~(i <= n) /\ i - n \in DOMAIN log /\ All[i] = log[i - n]
  BY PlacesOfAll DEF Base
<1>2. /\ j \in Int
      /\ \/ j <= n /\ j \in DOMAIN old /\ All[j] = old[j]
         \/ ~(j <= n) /\ j - n \in DOMAIN log /\ All[j] = log[j - n]
  BY PlacesOfAll DEF Base
<1>3. \A k \in DOMAIN old, l \in DOMAIN log : old[k] # log[l]
  BY MessagesDiffer DEF LogInv
<1>4. \A k, l \in DOMAIN old : old[k] = old[l] => k = l
  BY MessagesDiffer DEF LogInv
<1>5. \A k, l \in DOMAIN log : log[k] = log[l] => k = l
  BY DEF LogInv, IsInjective
<1> HIDE DEF n
<1>6. CASE i <= n
  BY <1>1, <1>2, <1>3, <1>4, <1>6
<1>7. CASE ~(i <= n)
  <2>1. ~(j <= n)
    BY <1>1, <1>2, <1>3, <1>7
  <2>2. i - n = j - n
    BY <1>1, <1>2, <1>5, <1>7, <2>1
  <2>3. QED
    BY <1>1, <1>2, <2>2
<1>8. QED
  BY <1>6, <1>7

LEMMA StepLog ==
  ASSUME Base, LogInv, NEW t \in Turns, Step(t)
  PROVE  LogInv'
<1>1. /\ ~At(t, "done") /\ turn'[t].pc # "new" /\ \A u \in Turns \ {t} : turn'[u] = turn[u]
      /\ turn[t].pc \notin {"new", "ask", "asking"} => turn'[t].pc \notin {"ask", "asking"}
      /\ \/ log' = log
         \/ /\ log' = Append(log, Appending(t))
            /\ turn[t].pc \in {"ask", "asking", "record", "recording"}
            /\ turn'[t].pc \notin {"ask", "asking"}
            /\ turn[t].pc \in {"record", "recording"} => turn'[t].pc = "done"
  BY LogStep
<1>2. old' = old
  BY StepKept DEF StepKeeps
<1>3. \A u \in Turns : /\ turn[u].pc \notin {"new", "ask", "asking"} => turn'[u].pc \notin {"new", "ask", "asking"}
                       /\ turn[u].pc = "done" => turn'[u].pc = "done"
  BY <1>1 DEF At
<1>4. CASE log' = log
  BY <1>2, <1>3, <1>4 DEF LogInv
<1>5. CASE log' # log
  <2> DEFINE m == Appending(t)
             n == Len(log)
  <2>1. log \in Seq(Post) /\ m \in Post
    BY AppendingIsPost DEF Base, TypeOK
  <2>2. /\ log' = Append(log, m) /\ turn[t].pc \in {"ask", "asking", "record", "recording"}
        /\ turn'[t].pc \notin {"new", "ask", "asking"}
        /\ turn[t].pc \in {"record", "recording"} => turn'[t].pc = "done"
    BY <1>1, <1>5
  <2>3. /\ n \in Nat /\ DOMAIN log = 1..n /\ DOMAIN log' = 1..(n + 1)
        /\ log'[n + 1] = m /\ \A i \in 1..n : log'[i] = log[i]
    BY <2>1, <2>2
  <2>4. /\ \A i \in DOMAIN log : log[i] # m
        /\ m = IF turn[t].pc \in {"ask", "asking"} THEN Question(t) ELSE Reply(t)
    BY <2>2, FreshMessage
  <2> HIDE DEF m, n
  <2>5. IsInjective(log')
    BY <2>3, <2>4 DEF LogInv, IsInjective
  <2>6. \A i \in DOMAIN log' : \E u \in Turns :
          \/ log'[i] = Question(u) /\ turn'[u].pc \notin {"new", "ask", "asking"}
          \/ log'[i] = Reply(u) /\ turn'[u].pc = "done"
    <3> TAKE i \in DOMAIN log'
    <3>1. CASE i = n + 1
      BY <2>2, <2>3, <2>4, <3>1
    <3>2. CASE i # n + 1
      <4>1. i \in DOMAIN log /\ log'[i] = log[i]
        BY <2>3, <3>2
      <4>2. PICK u \in Turns : \/ log[i] = Question(u) /\ turn[u].pc \notin {"new", "ask", "asking"}
                               \/ log[i] = Reply(u) /\ turn[u].pc = "done"
        BY <4>1 DEF LogInv
      <4>3. QED
        BY <1>3, <4>1, <4>2
    <3>3. QED
      BY <3>1, <3>2
  <2>7. QED
    BY <1>2, <2>5, <2>6 DEF LogInv
<1>6. QED
  BY <1>4, <1>5

----------------------------------------------------------------------------
(* What each step does to the content *)

LEMMA ContentKept ==
  ASSUME UNCHANGED <<kind, heap, stored, row>>
  PROVE  Content' = Content
BY DEF Content, Slots

LEMMA AppendContent ==
  ASSUME Base, NEW t \in Turns, AppendMessage(t)
  PROVE  /\ Content \in Seq(Slot) /\ Len(Content) = stored.len /\ Len(Content) \in Nat
         /\ Content' \in Seq(Slot) /\ Len(Content') = Len(Content) + 1
         /\ Content'[Len(Content) + 1] = Whole(Appending(t))
         /\ \A i \in 1..Len(Content) : Content'[i] = Content[i]
<1>1. /\ Content \in Seq(Slot) /\ Len(Content) = stored.len
      /\ \A i \in 1..Len(Content) : Content[i] = heap[stored.arr][i]
  BY ContentIs, BaseIsRepo, AppendIs
<1>2. RepoOK' /\ kind' = kind /\ kind = "memory"
  BY StepKept, AppendIs DEF StepKeeps, Step
<1>3. /\ stored'.len = stored.len + 1
      /\ heap'[stored'.arr][stored.len + 1] = Whole(Appending(t))
      /\ \A i \in 1..stored.len : heap'[stored'.arr][i] = heap[stored.arr][i]
  BY AppendIs
<1>4. /\ Content' \in Seq(Slot) /\ Len(Content') = stored.len + 1
      /\ \A i \in 1..(stored.len + 1) : Content'[i] = heap'[stored'.arr][i]
  BY <1>2, <1>3, ContentNext
<1>5. stored.len \in Nat /\ stored.len + 1 \in 1..(stored.len + 1)
      /\ \A i \in 1..stored.len : i \in 1..(stored.len + 1)
  BY BaseIsRepo DEF RepoOK
<1>6. QED
  BY <1>1, <1>3, <1>4, <1>5

LEMMA LocalContent ==
  ASSUME Base, NEW t \in Turns, LocalStore(t)
  PROVE  /\ Content \in Seq(Slot) /\ Content' \in Seq(Slot) /\ Len(Content') = Len(Content)
         /\ \A i \in 1..Len(Content) : Content'[i] = Content[i] \/ i = turn[t].base + 1
         /\ HeapKeepsBut(0, 0) => \A i \in 1..Len(Content) : Content'[i] = Content[i]
<1>1. /\ kind = "memory" /\ UNCHANGED <<kind, stored>>
      /\ HeapKeepsBut(turn[t].arr, turn[t].base + 1)
  BY LocalStoreIs
<1>2. RepoOK /\ RepoOK'
  BY BaseIsRepo, StepKept DEF StepKeeps, Step, LocalStore
<1>3. /\ Content \in Seq(Slot) /\ Len(Content) = stored.len
      /\ \A i \in 1..Len(Content) : stored.arr # 0 /\ Content[i] = heap[stored.arr][i]
  BY <1>1, <1>2, ContentIs
<1>4. /\ Content' \in Seq(Slot) /\ Len(Content') = stored.len
      /\ \A i \in 1..Len(Content') : Content'[i] = heap'[stored.arr][i]
  BY <1>1, <1>2, ContentNext
<1>5. /\ stored.len \in Nat /\ stored.arr \in Nat /\ stored.arr <= Len(heap) /\ Len(heap) \in Nat
      /\ stored.len <= Cap(stored.arr)
  BY <1>2, ArraysAre DEF Base, RepoOK
<1>6. \A i \in 1..stored.len : stored.arr \in 1..Len(heap) /\ i \in 1..Len(heap[stored.arr])
  <2> TAKE i \in 1..stored.len
  <2>1. stored.arr \in 1..Len(heap)
    BY <1>3, <1>5
  <2>2. stored.len <= Len(heap[stored.arr]) /\ Len(heap[stored.arr]) \in Nat
    BY <1>5, <2>1, ArraysAre DEF Base, Cap
  <2>3. QED
    BY <1>5, <2>1, <2>2
<1>7. \A i \in 1..Len(Content) : Content'[i] = Content[i] \/ i = turn[t].base + 1
  BY <1>1, <1>3, <1>4, <1>6 DEF HeapKeepsBut
<1>8. ASSUME HeapKeepsBut(0, 0) PROVE \A i \in 1..Len(Content) : Content'[i] = Content[i]
  BY <1>3, <1>4, <1>6, <1>8 DEF HeapKeepsBut
<1>9. QED
  BY <1>3, <1>4, <1>7, <1>8

LEMMA UpdateContent ==
  ASSUME Base, NEW t \in Turns, Update(t) \/ \E committed \in BOOLEAN : UpdateFails(t, committed)
  PROVE  /\ Content \in Seq(Slot) /\ Len(Content) = Len(row)
         /\ \A i \in 1..Len(Content) : Content[i] = Whole(row[i])
         /\ Content' \in Seq(Slot) /\ Len(Content') = Len(row')
         /\ \A i \in 1..Len(Content') : Content'[i] = Whole(row'[i])
<1>1. kind = "postgres" /\ kind' = kind
  BY UpdateIs
<1>2. RepoOK /\ RepoOK'
  BY BaseIsRepo, StepKept DEF StepKeeps, Step
<1>3. QED
  BY <1>1, <1>2, ContentIs, ContentNext

\* From where it was, a turn's first step is a Get or a refusal.
LEMMA FirstStep ==
  ASSUME NEW t \in Turns, Step(t), At(t, "new")
  PROVE  Got(t) \/ NotGot(t)
BY DEF Step, At, Refused, AppendMessage, LocalGrow, LocalHead, LocalRest, Prompted, Select,
       SelectFails, UpdateFails, Update, Unanswered, Answered

----------------------------------------------------------------------------
(* Places and quiet times *)

\* The memory repository counts what it appends.
CountInv == kind = "memory" => stored.len = Len(old) + Len(log)

LEMMA StepCount ==
  ASSUME Base, CountInv, NEW t \in Turns, Step(t)
  PROVE  CountInv'
<1>0. log \in Seq(Post) /\ old \in Seq(Post) /\ Appending(t) \in Post
  BY AppendingIsPost DEF Base, TypeOK
<1>1. CASE SilentStep(t)
  BY <1>1, SilentSteps DEF Silent, CountInv
<1>2. CASE AppendMessage(t)
  <2>1. /\ kind' = kind /\ old' = old /\ log' = Append(log, Appending(t))
        /\ stored'.len = stored.len + 1
    BY <1>2, AppendIs
  <2>2. Len(log') = Len(log) + 1 /\ Len(log) \in Nat /\ Len(old) \in Nat
    BY <1>0, <2>1
  <2>3. QED
    BY <2>1, <2>2 DEF CountInv
<1>3. CASE LocalStore(t)
  BY <1>3, LocalStoreIs DEF CountInv
<1>4. CASE Update(t) \/ \E committed \in BOOLEAN : UpdateFails(t, committed)
  BY <1>4, UpdateIs DEF CountInv
<1>5. QED
  BY <1>1, <1>2, <1>3, <1>4, StepKinds DEF SilentStep

\* What was there in quiet times is there, and stays: turns that are under way store
\* behind it, and those that have read the row have read it.
QuietInv ==
  /\ Len(quiet) <= Len(Content) /\ \A i \in 1..Len(quiet) : Content[i] = quiet[i]
  /\ \A t \in Turns : kind = "memory" /\ UnderWay(t) => Len(quiet) <= turn[t].base
  /\ \A t \in Turns : At(t, "asking") \/ At(t, "recording") =>
       Len(quiet) <= Len(turn[t].read) /\ \A i \in 1..Len(quiet) : Whole(turn[t].read[i]) = quiet[i]

\* No step touches it.
LEMMA QuietStays ==
  ASSUME Base, QuietInv, NEW t \in Turns, Step(t)
  PROVE  /\ Content' \in Seq(Slot) /\ Len(quiet) <= Len(Content')
         /\ \A i \in 1..Len(quiet) : Content'[i] = quiet[i]
<1>0. quiet \in Seq(Slot) /\ Len(quiet) \in Nat /\ RepoOK /\ Content \in Seq(Slot) /\ Len(Content) \in Nat
  BY BaseIsRepo, ContentIs DEF Base, TypeOK
<1>1. CASE SilentStep(t)
  <2>1. Content' = Content
    BY <1>1, SilentSteps, ContentKept DEF Silent
  <2>2. QED
    BY <1>0, <2>1 DEF QuietInv
<1>2. CASE AppendMessage(t)
  <2>1. /\ Content' \in Seq(Slot) /\ Len(Content') = Len(Content) + 1
        /\ \A i \in 1..Len(Content) : Content'[i] = Content[i]
    BY <1>2, AppendContent
  <2>2. \A i \in 1..Len(quiet) : i \in 1..Len(Content)
    BY <1>0 DEF QuietInv
  <2>3. QED
    BY <1>0, <2>1, <2>2 DEF QuietInv
<1>3. CASE LocalStore(t)
  <2>1. /\ Content' \in Seq(Slot) /\ Len(Content') = Len(Content)
        /\ \A i \in 1..Len(Content) : Content'[i] = Content[i] \/ i = turn[t].base + 1
    BY <1>3, LocalContent
  <2>2. Len(quiet) <= turn[t].base /\ turn[t].base \in Nat
    <3>1. kind = "memory" /\ UnderWay(t)
      BY <1>3, LocalStoreIs DEF At, UnderWay
    <3>2. QED
      BY <3>1 DEF QuietInv, Base, TypeOK, Local
  <2>3. \A i \in 1..Len(quiet) : i \in 1..Len(Content) /\ i # turn[t].base + 1
    BY <1>0, <2>2 DEF QuietInv
  <2>4. QED
    BY <1>0, <2>1, <2>3 DEF QuietInv
<1>4. CASE Update(t) \/ \E committed \in BOOLEAN : UpdateFails(t, committed)
  <2>1. /\ Content' \in Seq(Slot) /\ Len(Content) = Len(row) /\ Len(Content') = Len(row')
        /\ \A i \in 1..Len(Content) : Content[i] = Whole(row[i])
        /\ \A i \in 1..Len(Content') : Content'[i] = Whole(row'[i])
    BY <1>4, UpdateContent
  <2>2. (At(t, "asking") \/ At(t, "recording"))
        /\ (row' = row \/ row' = Append(turn[t].read, Appending(t)))
    BY <1>4, UpdateIs
  <2>3. CASE row' = row
    BY <1>0, <2>1, <2>3 DEF QuietInv
  <2>4. CASE row' = Append(turn[t].read, Appending(t))
    <3>1. turn[t].read \in Seq(Post) /\ Appending(t) \in Post
      BY AppendingIsPost DEF Base, TypeOK, Local
    <3>2. /\ Len(row') = Len(turn[t].read) + 1 /\ Len(turn[t].read) \in Nat
          /\ \A i \in 1..Len(turn[t].read) : row'[i] = turn[t].read[i]
      BY <2>4, <3>1
    <3>3. Len(quiet) <= Len(turn[t].read) /\ \A i \in 1..Len(quiet) : Whole(turn[t].read[i]) = quiet[i]
      BY <2>2 DEF QuietInv
    <3>4. \A i \in 1..Len(quiet) : i \in 1..Len(turn[t].read) /\ i \in 1..Len(Content')
      BY <1>0, <2>1, <3>2, <3>3
    <3>5. QED
      BY <1>0, <2>1, <3>2, <3>3, <3>4
  <2>5. QED
    BY <2>2, <2>3, <2>4
<1>5. QED
  BY <1>1, <1>2, <1>3, <1>4, StepKinds DEF SilentStep

\* A turn that has just read the row has read the content.
LEMMA ReadsTheRow ==
  ASSUME Base, NEW t \in Turns, Step(t), turn'[t].pc \in {"asking", "recording"}
  PROVE  Select(t) /\ turn'[t].read = row
<1>0. turn[t] \in Local
  BY DEF Base, TypeOK
<1>1. Select(t)
  <2>1. CASE Got(t)
    <3> DEFINE p == IF kind = "postgres" THEN Append(Content, Whole(Question(t))) ELSE <<>>
    <3>1. Becomes(t, [turn[t] EXCEPT !.pc = "ask", !.arr = stored.arr, !.base = Len(Content), !.prompt = p])
      BY <2>1, GotIs
    <3> HIDE DEF p
    <3>2. QED
      BY <1>0, <3>1 DEF Becomes, Local
  <2>2. CASE Leaves(t)
    <3>1. PICK result \in {"refused", "error"} :
            Becomes(t, [turn[t] EXCEPT !.pc = "done", !.result = result])
      BY <2>2, LeavesIs
    <3>2. QED
      BY <1>0, <3>1 DEF Becomes, Local
  <2>3. ASSUME NEW p, Becomes(t, [turn[t] EXCEPT !.pc = "answering", !.prompt = p]) PROVE FALSE
    BY <1>0, <2>3 DEF Becomes, Local
  <2>4. CASE LocalGrow(t) \/ Prompted(t)
    BY <2>3, <2>4, LocalGrowIs, PromptedIs
  <2>5. CASE Answered(t)
    BY <1>0, <2>5, AnsweredIs DEF Becomes, Local
  <2>6. CASE AppendMessage(t)
    BY <2>6, AppendIs, ResumedIs DEF Becomes, At
  <2>7. CASE LocalStore(t)
    BY <1>0, <2>7, LocalStoreIs DEF Becomes, Local
  <2>8. CASE Update(t) \/ \E committed \in BOOLEAN : UpdateFails(t, committed)
    <3>1. CASE Becomes(t, Resumed(t))
      BY <2>8, <3>1, UpdateIs, ResumedIs DEF Becomes, At
    <3>2. CASE Becomes(t, [turn[t] EXCEPT !.pc = "done", !.result = "error"])
      BY <1>0, <3>2 DEF Becomes, Local
    <3>3. QED
      BY <2>8, <3>1, <3>2, UpdateIs
  <2>9. QED
    BY <2>1, <2>2, <2>4, <2>5, <2>6, <2>7, <2>8, StepKinds
<1>2. turn'[t].read = row
  <2> DEFINE pc == IF At(t, "ask") THEN "asking" ELSE "recording"
  <2>1. Becomes(t, [turn[t] EXCEPT !.pc = pc, !.read = row])
    BY <1>1, SelectIs
  <2> HIDE DEF pc
  <2>2. QED
    BY <1>0, <2>1 DEF Becomes, Local
<1>3. QED
  BY <1>1, <1>2

LEMMA StepQuiet ==
  ASSUME Base, QuietInv, NEW t \in Turns, Step(t)
  PROVE  /\ QuietInv'
         /\ Len(quiet) <= Len(quiet') /\ \A i \in 1..Len(quiet) : quiet'[i] = quiet[i]
<1>0. /\ Content' \in Seq(Slot) /\ Len(Content') \in Nat /\ quiet \in Seq(Slot) /\ Len(quiet) \in Nat
      /\ Len(quiet) <= Len(Content') /\ \A i \in 1..Len(quiet) : Content'[i] = quiet[i]
  BY QuietStays DEF Base, TypeOK
<1>1. quiet' = IF \E u \in Turns : UnderWay(u)' THEN quiet ELSE Content'
  BY StepIsBooked DEF Booked
<1>2. CASE \E u \in Turns : UnderWay(u)'
  <2>1. quiet' = quiet /\ kind' = kind
    BY <1>1, <1>2, StepKept DEF StepKeeps
  <2>2. /\ ~At(t, "done") /\ \A u \in Turns \ {t} : turn'[u] = turn[u]
    BY LogStep
  <2>3. ASSUME kind = "memory", UnderWay(t)' PROVE Len(quiet) <= turn'[t].base
    <3>1. CASE Got(t)
      <4> DEFINE p == IF kind = "postgres" THEN Append(Content, Whole(Question(t))) ELSE <<>>
      <4>1. Becomes(t, [turn[t] EXCEPT !.pc = "ask", !.arr = stored.arr, !.base = Len(Content), !.prompt = p])
        BY <3>1, GotIs
      <4> HIDE DEF p
      <4>2. turn'[t].base = Len(Content)
        BY <4>1 DEF Becomes, Base, TypeOK, Local
      <4>3. QED
        BY <4>2 DEF QuietInv
    <3>2. CASE ~Got(t)
      <4>1. ~At(t, "new")
        <5> SUFFICES ASSUME At(t, "new") PROVE FALSE
          OBVIOUS
        <5>1. Leaves(t)
          BY <3>2, FirstStep DEF Leaves
        <5>2. PICK result \in {"refused", "error"} :
                Becomes(t, [turn[t] EXCEPT !.pc = "done", !.result = result])
          BY <5>1, LeavesIs
        <5>3. turn'[t].pc = "done"
          BY <5>2 DEF Becomes, Base, TypeOK, Local
        <5>4. QED
          BY <2>3, <5>3 DEF UnderWay
      <4>2. turn'[t].base = turn[t].base
        BY <4>1, StepKept DEF StepKeeps, Becomes
      <4>3. UnderWay(t)
        BY <2>2, <4>1 DEF UnderWay, At
      <4>4. QED
        BY <2>3, <4>2, <4>3 DEF QuietInv
    <3>3. QED
      BY <3>1, <3>2
  <2>4. \A u \in Turns : kind' = "memory" /\ UnderWay(u)' => Len(quiet') <= turn'[u].base
    <3> TAKE u \in Turns
    <3>1. CASE u = t
      BY <2>1, <2>3, <3>1
    <3>2. CASE u # t
      BY <2>1, <2>2, <3>2 DEF QuietInv, UnderWay
    <3>3. QED
      BY <3>1, <3>2
  <2>5. ASSUME turn'[t].pc \in {"asking", "recording"}
        PROVE  /\ Len(quiet) <= Len(turn'[t].read)
               /\ \A i \in 1..Len(quiet) : Whole(turn'[t].read[i]) = quiet[i]
    <3>1. Select(t) /\ turn'[t].read = row
      BY <2>5, ReadsTheRow
    <3>2. Len(Content) = Len(row) /\ (\A i \in 1..Len(Content) : Content[i] = Whole(row[i])) /\ Len(Content) \in Nat
      <4>1. kind = "postgres" /\ RepoOK
        BY <3>1, SelectIs, BaseIsRepo
      <4>2. Content \in Seq(Slot)
        BY <4>1, ContentIs
      <4>3. Len(Content) \in Nat
        BY <4>2
      <4>4. QED
        BY <4>1, <4>3, ContentIs
    <3>3. \A i \in 1..Len(quiet) : i \in 1..Len(Content)
      BY <1>0, <3>2 DEF QuietInv
    <3>4. QED
      BY <3>1, <3>2, <3>3 DEF QuietInv
  <2>6. \A u \in Turns : At(u, "asking")' \/ At(u, "recording")' =>
          /\ Len(quiet') <= Len(turn'[u].read)
          /\ \A i \in 1..Len(quiet') : Whole(turn'[u].read[i]) = quiet'[i]
    <3> TAKE u \in Turns
    <3>1. CASE u = t
      BY <2>1, <2>5, <3>1 DEF At
    <3>2. CASE u # t
      BY <2>1, <2>2, <3>2 DEF QuietInv, At
    <3>3. QED
      BY <3>1, <3>2
  <2>7. QED
    BY <1>0, <2>1, <2>4, <2>6 DEF QuietInv
<1>3. CASE ~ \E u \in Turns : UnderWay(u)'
  <2>1. quiet' = Content'
    BY <1>1, <1>3
  <2>2. \A u \in Turns : ~At(u, "asking")' /\ ~At(u, "recording")'
    BY <1>3 DEF At, UnderWay
  <2>3. QED
    BY <1>0, <1>3, <2>1, <2>2 DEF QuietInv
<1>4. QED
  BY <1>2, <1>3

----------------------------------------------------------------------------
(* What the postgres repository keeps *)

\* s is what is left of all when some places are struck out.
Sub(s, all) ==
  \E kept \in SUBSET DOMAIN all :
    /\ Cardinality(kept) = Len(s)
    /\ \A i \in kept : all[i] = s[Cardinality({j \in kept : j <= i})]

\* A message's rank among those kept.
LEMMA RankIs ==
  ASSUME NEW n \in Nat, NEW kept \in SUBSET (1..n), NEW i \in kept
  PROVE  /\ IsFiniteSet(kept) /\ Cardinality(kept) \in Nat
         /\ Cardinality({j \in kept : j <= i}) \in 1..Cardinality(kept)
<1> DEFINE below == {j \in kept : j <= i}
<1>1. IsFiniteSet(1..n) /\ IsFiniteSet(kept)
  <2>1. IsFiniteSet(1..n)
    BY FS_Interval
  <2>2. QED
    BY <2>1, FS_Subset
<1>2. below \subseteq kept /\ i \in below
  OBVIOUS
<1>3. IsFiniteSet(below) /\ Cardinality(below) <= Cardinality(kept)
  BY <1>1, <1>2, FS_Subset
<1>4. Cardinality(below) \in Nat /\ Cardinality(kept) \in Nat
  BY <1>1, <1>3, FS_CardinalityType
<1>5. Cardinality(below) # 0
  BY <1>2, <1>3, FS_EmptySet
<1>6. QED
  BY <1>1, <1>3, <1>4, <1>5

LEMMA SubIsReflexive ==
  ASSUME NEW s \in Seq(Post)
  PROVE  Sub(s, s)
<1> DEFINE n == Len(s)
<1>1. n \in Nat /\ DOMAIN s = 1..n
  OBVIOUS
<1>2. Cardinality(1..n) = n
  BY <1>1, FS_Interval
<1>3. \A i \in 1..n : Cardinality({j \in 1..n : j <= i}) = i
  <2> TAKE i \in 1..n
  <2>1. {j \in 1..n : j <= i} = 1..i
    BY <1>1
  <2>2. Cardinality(1..i) = i
    BY <1>1, FS_Interval
  <2>3. QED
    BY <2>1, <2>2
<1>4. 1..n \in SUBSET DOMAIN s
  BY <1>1
<1>5. QED
  BY <1>2, <1>3, <1>4 DEF Sub

LEMMA SubStays ==
  ASSUME NEW s \in Seq(Post), NEW all \in Seq(Post), NEW m \in Post, Sub(s, all)
  PROVE  Sub(s, Append(all, m))
<1>1. PICK kept \in SUBSET DOMAIN all :
        /\ Cardinality(kept) = Len(s)
        /\ \A i \in kept : all[i] = s[Cardinality({j \in kept : j <= i})]
  BY DEF Sub
<1> DEFINE new == Append(all, m)
<1>2. /\ DOMAIN all = 1..Len(all) /\ DOMAIN new = 1..(Len(all) + 1) /\ Len(all) \in Nat
      /\ \A i \in 1..Len(all) : new[i] = all[i]
  OBVIOUS
<1> HIDE DEF new
<1>3. kept \in SUBSET DOMAIN new /\ \A i \in kept : new[i] = all[i]
  BY <1>2
<1>4. QED
  BY <1>1, <1>3 DEF Sub, new

LEMMA SubGrows ==
  ASSUME NEW s \in Seq(Post), NEW all \in Seq(Post), NEW m \in Post, Sub(s, all)
  PROVE  Sub(Append(s, m), Append(all, m))
<1>1. PICK kept \in SUBSET DOMAIN all :
        /\ Cardinality(kept) = Len(s)
        /\ \A i \in kept : all[i] = s[Cardinality({j \in kept : j <= i})]
  BY DEF Sub
<1> DEFINE n == Len(all)
           new == Append(all, m)
           new2 == Append(s, m)
           more == kept \union {n + 1}
<1>2. /\ DOMAIN all = 1..n /\ DOMAIN new = 1..(n + 1) /\ n \in Nat
      /\ new[n + 1] = m /\ \A i \in 1..n : new[i] = all[i]
  OBVIOUS
<1>3. /\ Len(s) \in Nat /\ Len(new2) = Len(s) + 1 /\ new2[Len(s) + 1] = m
      /\ \A i \in 1..Len(s) : new2[i] = s[i]
  OBVIOUS
<1> HIDE DEF new, new2, n
<1>4. kept \in SUBSET (1..n) /\ IsFiniteSet(kept) /\ n + 1 \notin kept /\ more \in SUBSET DOMAIN new
  <2>1. kept \in SUBSET (1..n) /\ IsFiniteSet(1..n)
    BY <1>2, FS_Interval
  <2>2. QED
    BY <1>2, <2>1, FS_Subset
<1>5. Cardinality(more) = Len(new2)
  BY <1>1, <1>3, <1>4, FS_AddElement
<1>6. ASSUME NEW i \in kept
      PROVE  new[i] = new2[Cardinality({j \in more : j <= i})]
  <2>1. {j \in more : j <= i} = {j \in kept : j <= i}
    BY <1>2, <1>4
  <2>2. Cardinality({j \in kept : j <= i}) \in 1..Len(s)
    BY <1>1, <1>2, <1>4, RankIs
  <2>3. QED
    BY <1>1, <1>2, <1>3, <1>4, <2>1, <2>2
<1>7. new[n + 1] = new2[Cardinality({j \in more : j <= n + 1})]
  <2>1. {j \in more : j <= n + 1} = more
    BY <1>2, <1>4
  <2>2. QED
    BY <1>2, <1>3, <1>5, <2>1
<1>8. \A i \in more : new[i] = new2[Cardinality({j \in more : j <= i})]
  BY <1>6, <1>7
<1> HIDE DEF more
<1>9. Sub(new2, new)
  BY <1>4, <1>5, <1>8 DEF Sub
<1>10. QED
  BY <1>9 DEF new, new2

\* No message is there twice, none that was not appended, and what is there is in
\* order.
KeptFrom(s, all) ==
  IsInjective(s) /\ (\A i \in DOMAIN s : \E j \in DOMAIN all : s[i] = all[j]) /\ Sub(s, all)

LEMMA KeptStays ==
  ASSUME NEW s \in Seq(Post), NEW all \in Seq(Post), NEW m \in Post, KeptFrom(s, all)
  PROVE  KeptFrom(s, Append(all, m))
<1>1. Sub(s, Append(all, m))
  BY SubStays DEF KeptFrom
<1>2. \A j \in DOMAIN all : j \in DOMAIN Append(all, m) /\ Append(all, m)[j] = all[j]
  BY DOMAIN all = 1..Len(all), DOMAIN Append(all, m) = 1..(Len(all) + 1)
<1>3. QED
  BY <1>1, <1>2 DEF KeptFrom

LEMMA KeptGrows ==
  ASSUME NEW s \in Seq(Post), NEW all \in Seq(Post), NEW m \in Post, KeptFrom(s, all),
         \A j \in DOMAIN all : all[j] # m
  PROVE  KeptFrom(Append(s, m), Append(all, m))
<1> DEFINE new == Append(all, m)
           new2 == Append(s, m)
<1>1. Sub(new2, new)
  BY SubGrows DEF KeptFrom
<1>2. /\ DOMAIN all = 1..Len(all) /\ DOMAIN new = 1..(Len(all) + 1) /\ Len(all) \in Nat
      /\ new[Len(all) + 1] = m /\ \A i \in 1..Len(all) : new[i] = all[i]
  OBVIOUS
<1>3. /\ DOMAIN s = 1..Len(s) /\ DOMAIN new2 = 1..(Len(s) + 1) /\ Len(s) \in Nat
      /\ new2[Len(s) + 1] = m /\ \A i \in 1..Len(s) : new2[i] = s[i]
  OBVIOUS
<1> HIDE DEF new, new2
<1>4. \A i \in DOMAIN s : s[i] # m
  BY DEF KeptFrom
<1>5. IsInjective(new2)
  <2> SUFFICES ASSUME NEW i \in DOMAIN new2, NEW j \in DOMAIN new2, new2[i] = new2[j] PROVE i = j
    BY DEF IsInjective
  <2>1. (i = Len(s) + 1 \/ i \in DOMAIN s) /\ (j = Len(s) + 1 \/ j \in DOMAIN s)
    BY <1>3
  <2>2. CASE i \in DOMAIN s /\ j \in DOMAIN s
    BY <1>3, <2>2 DEF KeptFrom, IsInjective
  <2>3. QED
    BY <1>3, <1>4, <2>1, <2>2
<1>6. \A i \in DOMAIN new2 : \E j \in DOMAIN new : new2[i] = new[j]
  <2> TAKE i \in DOMAIN new2
  <2>1. CASE i = Len(s) + 1
    <3>1. Len(all) + 1 \in DOMAIN new
      BY <1>2
    <3>2. QED
      BY <1>2, <1>3, <2>1, <3>1
  <2>2. CASE i # Len(s) + 1
    <3>1. i \in DOMAIN s /\ new2[i] = s[i]
      BY <1>3, <2>2
    <3>2. PICK j \in DOMAIN all : s[i] = all[j]
      BY <3>1 DEF KeptFrom
    <3>3. j \in DOMAIN new /\ new[j] = all[j]
      BY <1>2
    <3>4. QED
      BY <3>1, <3>2, <3>3
  <2>3. QED
    BY <2>1, <2>2
<1>7. KeptFrom(new2, new)
  BY <1>1, <1>5, <1>6 DEF KeptFrom
<1>8. QED
  BY <1>7 DEF new, new2

\* So are the row and what turns that will write it have read.
RowInv ==
  kind = "postgres" =>
    /\ KeptFrom(row, All)
    /\ \A t \in Turns : At(t, "asking") \/ At(t, "recording") => KeptFrom(turn[t].read, All)

LEMMA StepRow ==
  ASSUME Base, LogInv, RowInv, NEW t \in Turns, Step(t)
  PROVE  RowInv'
<1> SUFFICES ASSUME kind = "postgres" PROVE RowInv'
  BY StepKept DEF StepKeeps, RowInv
<1>0. /\ All \in Seq(Post) /\ row \in Seq(Post) /\ Appending(t) \in Post
      /\ \A u \in Turns : turn[u].read \in Seq(Post)
      /\ kind' = kind /\ old' = old /\ TypeOK
  BY AllIs, AppendingIsPost, StepKept DEF Base, TypeOK, StepKeeps, Local
<1>1. /\ \A u \in Turns \ {t} : turn'[u] = turn[u]
      /\ \/ log' = log
         \/ /\ log' = Append(log, Appending(t))
            /\ turn[t].pc \in {"ask", "asking", "record", "recording"}
  BY LogStep
<1>2. \/ All' = All
      \/ /\ All' = Append(All, Appending(t))
         /\ \A j \in DOMAIN All : All[j] # Appending(t)
  <2>1. CASE log' = log
    BY <1>0, <2>1 DEF All
  <2>2. CASE log' # log
    BY <1>0, <1>1, <2>2, AllGrows, FreshMessage
  <2>3. QED
    BY <2>1, <2>2
<1>3. \A s \in Seq(Post) : KeptFrom(s, All) => KeptFrom(s, All')
  BY <1>0, <1>2, KeptStays
<1>4. KeptFrom(row', All')
  <2>1. CASE Update(t) \/ \E committed \in BOOLEAN : UpdateFails(t, committed)
    <3>1. /\ At(t, "asking") \/ At(t, "recording")
          /\ \/ row' = row /\ log' = log
             \/ row' = Append(turn[t].read, Appending(t)) /\ log' = Append(log, Appending(t))
      BY <2>1, UpdateIs
    <3>2. CASE row' = row
      BY <1>0, <1>3, <3>2 DEF RowInv
    <3>3. CASE row' = Append(turn[t].read, Appending(t)) /\ log' = Append(log, Appending(t))
      <4>1. All' = Append(All, Appending(t))
        BY <1>0, <3>3, AllGrows
      <4>2. \A j \in DOMAIN All : All[j] # Appending(t)
        BY <3>1, FreshMessage DEF At
      <4>3. KeptFrom(turn[t].read, All)
        BY <3>1 DEF RowInv
      <4>4. QED
        BY <1>0, <3>3, <4>1, <4>2, <4>3, KeptGrows
    <3>4. QED
      BY <3>1, <3>2, <3>3
  <2>2. CASE SilentStep(t)
    BY <1>0, <1>3, <2>2, SilentSteps DEF Silent, RowInv
  <2>3. CASE AppendMessage(t)
    BY <2>3, AppendIs
  <2>4. CASE LocalStore(t)
    BY <2>4, LocalStoreIs
  <2>5. QED
    BY <2>1, <2>2, <2>3, <2>4, StepKinds DEF SilentStep
<1>5. \A u \in Turns : At(u, "asking")' \/ At(u, "recording")' => KeptFrom(turn'[u].read, All')
  <2> TAKE u \in Turns
  <2>1. CASE u = t
    <3> SUFFICES ASSUME turn'[t].pc \in {"asking", "recording"} PROVE KeptFrom(turn'[t].read, All')
      BY <2>1 DEF At
    <3>1. turn'[t].read = row
      BY ReadsTheRow
    <3>2. QED
      BY <1>0, <1>3, <3>1 DEF RowInv
  <2>2. CASE u # t
    BY <1>0, <1>1, <1>3, <2>2 DEF RowInv, At
  <2>3. QED
    BY <2>1, <2>2
<1>6. QED
  BY <1>0, <1>4, <1>5 DEF RowInv

----------------------------------------------------------------------------
(* One turn at a time *)

\* The first places of an array show the first messages, whole.
Shows(arr, length) ==
  length <= Len(All) /\ \A i \in 1..length : heap[arr][i] = Whole(All[i])

Exact ==
  Len(Content) = Len(All) /\ \A i \in 1..Len(All) : Content[i] = Whole(All[i])

\* What a turn knows of the session is the session, up to its own question.
InStep(t) ==
  /\ kind = "memory" /\ At(t, "ask") => turn[t].arr = stored.arr /\ turn[t].base = stored.len
  /\ At(t, "local") \/ At(t, "half") \/ At(t, "prompting") =>
       /\ turn[t].base + 1 = Len(All) /\ All[Len(All)] = Question(t)
       /\ Shows(turn[t].arr, turn[t].base)
       /\ turn[t].base < Cap(turn[t].arr) => Shows(turn[t].arr, turn[t].base + 1)
  /\ kind = "postgres" /\ At(t, "ask") => turn[t].prompt = Append(Content, Whole(Question(t)))
  /\ At(t, "asking") => turn[t].read = row /\ turn[t].prompt = Append(Content, Whole(Question(t)))
  /\ At(t, "recording") => turn[t].read = row
  /\ At(t, "answering") => turn[t].prompt = Content

SerialInv ==
  ~overlapped =>
    /\ \A t, u \in Turns : UnderWay(t) /\ UnderWay(u) => t = u
    /\ Exact
    /\ \A t \in Turns : InStep(t)

\* A step that overlaps with no other turn is the step of the only turn under way,
\* or leaves everything as it was.
LEMMA StepsAlone ==
  ASSUME Base, SerialInv, NEW t \in Turns, Step(t), ~overlapped'
  PROVE  /\ ~overlapped
         /\ NotGot(t) \/ \A u \in Turns \ {t} : ~UnderWay(u)
<1>1. overlapped' = (overlapped \/ (UnderWay(t)' /\ \E u \in Turns \ {t} : UnderWay(u)))
  BY StepIsBooked DEF Booked
<1>2. ~overlapped /\ (UnderWay(t)' => \A u \in Turns \ {t} : ~UnderWay(u))
  BY <1>1
<1>3. CASE UnderWay(t)
  BY <1>2, <1>3 DEF SerialInv
<1>4. CASE ~UnderWay(t)
  <2>1. At(t, "new")
    BY <1>4, LogStep DEF UnderWay, At
  <2>2. CASE Got(t)
    <3> DEFINE p == IF kind = "postgres" THEN Append(Content, Whole(Question(t))) ELSE <<>>
    <3>1. Becomes(t, [turn[t] EXCEPT !.pc = "ask", !.arr = stored.arr, !.base = Len(Content), !.prompt = p])
      BY <2>2, GotIs
    <3> HIDE DEF p
    <3>2. turn'[t].pc = "ask"
      BY <3>1 DEF Becomes, Base, TypeOK, Local
    <3>3. QED
      BY <1>2, <3>2 DEF UnderWay
  <2>3. QED
    BY <1>2, <2>1, <2>2, FirstStep
<1>5. QED
  BY <1>3, <1>4

\* A turn that is not under way is in step.
LEMMA IdleInStep ==
  ASSUME NEW t \in Turns, turn[t].pc \in {"new", "done", "record"}
  PROVE  InStep(t)
BY DEF InStep, At

LEMMA IdleInStepNext ==
  ASSUME NEW t \in Turns, turn'[t].pc \in {"new", "done", "record"}
  PROVE  InStep(t)'
BY DEF InStep, At

\* Two contents that agree place by place are one.
LEMMA SameSlots ==
  ASSUME NEW s \in Seq(Slot), NEW u \in Seq(Slot), Len(s) = Len(u), \A i \in 1..Len(s) : s[i] = u[i]
  PROVE  s = u
BY SeqEqual

\* What the single turn does when it leaves the session alone.
LEMMA SilentInStep ==
  ASSUME Base, Exact, NEW t \in Turns, InStep(t), SilentStep(t)
  PROVE  Exact' /\ InStep(t)'
<1>0. /\ Silent(t) /\ turn[t] \in Local /\ TypeOK /\ RepoOK
      /\ Content \in Seq(Slot) /\ Len(Content) \in Nat /\ All \in Seq(Post)
  BY SilentSteps, BaseIsRepo, ContentIs, AllIs DEF Base, TypeOK
<1>1. Content' = Content /\ All' = All /\ UNCHANGED <<kind, heap, stored, row>>
  BY <1>0, ContentKept DEF Silent, All
<1>2. Exact'
  BY <1>1 DEF Exact
<1>3. CASE Got(t)
  <2> DEFINE p == IF kind = "postgres" THEN Append(Content, Whole(Question(t))) ELSE <<>>
  <2>1. Becomes(t, [turn[t] EXCEPT !.pc = "ask", !.arr = stored.arr, !.base = Len(Content), !.prompt = p])
    BY <1>3, GotIs
  <2>2. kind = "postgres" => p = Append(Content, Whole(Question(t)))
    OBVIOUS
  <2> HIDE DEF p
  <2>3. /\ turn'[t].pc = "ask" /\ turn'[t].arr = stored.arr /\ turn'[t].base = Len(Content)
        /\ turn'[t].prompt = p
    BY <1>0, <2>1 DEF Becomes, Local
  <2>4. kind = "memory" => Len(Content) = stored.len
    BY <1>0, ContentIs
  <2>5. QED
    BY <1>1, <1>2, <2>2, <2>3, <2>4 DEF InStep, At
<1>4. CASE Leaves(t)
  <2>1. PICK result \in {"refused", "error"} :
          Becomes(t, [turn[t] EXCEPT !.pc = "done", !.result = result])
    BY <1>4, LeavesIs
  <2>2. turn'[t].pc = "done"
    BY <1>0, <2>1 DEF Becomes, Local
  <2>3. QED
    BY <1>2, <2>2, IdleInStepNext
<1>5. ASSUME NEW p \in Seq(Slot), p = Content,
             Becomes(t, [turn[t] EXCEPT !.pc = "answering", !.prompt = p])
      PROVE  InStep(t)'
  <2>1. turn'[t].pc = "answering" /\ turn'[t].prompt = Content
    BY <1>0, <1>5 DEF Becomes, Local
  <2>2. QED
    BY <1>1, <2>1 DEF InStep, At
<1>6. ASSUME At(t, "local") \/ At(t, "prompting")
      PROVE  /\ turn[t].arr \in 0..Len(heap) /\ turn[t].base \in Nat /\ Cap(turn[t].arr) \in Nat
             /\ turn[t].base <= Cap(turn[t].arr) /\ Len(heap) \in Nat
             /\ turn[t].base + 1 = Len(All) /\ All[Len(All)] = Question(t)
             /\ Shows(turn[t].arr, turn[t].base)
             /\ turn[t].base < Cap(turn[t].arr) => Shows(turn[t].arr, turn[t].base + 1)
  <2>1. kind = "memory"
    BY <1>0, <1>6 DEF Base, PathsOK, TypeOK
  <2>2. turn[t].arr \in Nat /\ turn[t].arr <= Len(heap) /\ Len(heap) \in Nat /\ turn[t].base \in Nat
        /\ turn[t].base <= Cap(turn[t].arr)
    BY <1>0, <2>1, ArraysAre DEF Base, SlicesOK, Local
  <2>3. turn[t].arr \in 0..Len(heap) /\ Cap(turn[t].arr) \in Nat
    BY <1>0, <2>2, ArraysAre
  <2>4. QED
    BY <1>6, <2>2, <2>3 DEF InStep
<1>7. CASE LocalGrow(t)
  <2> DEFINE b == turn[t].base
             s == Slots(turn[t].arr, b)
             p == Append(s, Whole(Question(t)))
  <2>1. At(t, "local") /\ Becomes(t, [turn[t] EXCEPT !.pc = "answering", !.prompt = p])
    BY <1>7, LocalGrowIs
  <2>2. /\ s \in Seq(Slot) /\ Len(s) = b /\ \A i \in 1..b : s[i] = heap[turn[t].arr][i]
    BY <1>0, <1>6, <2>1, SlotsAre DEF TypeOK
  <2>3. Whole(Question(t)) \in Slot
    BY MessagesArePosts
  <2> HIDE DEF s
  <2>4. /\ p \in Seq(Slot) /\ Len(p) = b + 1 /\ p[b + 1] = Whole(Question(t))
        /\ \A i \in 1..b : p[i] = s[i]
    BY <2>2, <2>3, AppendProperties
  <2> HIDE DEF p
  <2>5. \A i \in 1..Len(p) : p[i] = Content[i]
    <3> TAKE i \in 1..Len(p)
    <3>1. b \in Nat /\ i \in 1..(b + 1) /\ b + 1 = Len(All)
      BY <1>6, <2>1, <2>4
    <3>2. CASE i = b + 1
      BY <1>6, <2>1, <2>4, <3>1, <3>2 DEF Exact
    <3>3. CASE i # b + 1
      <4>1. i \in 1..b
        BY <3>1, <3>3
      <4>2. p[i] = Whole(All[i])
        BY <1>6, <2>1, <2>2, <2>4, <4>1 DEF Shows
      <4>3. QED
        BY <3>1, <4>2 DEF Exact
    <3>4. QED
      BY <3>2, <3>3
  <2>6. p = Content
    BY <1>0, <1>6, <2>1, <2>4, <2>5, SameSlots DEF Exact
  <2>7. QED
    BY <1>2, <1>5, <2>1, <2>4, <2>6
<1>8. CASE Prompted(t)
  <2> DEFINE b == turn[t].base
             p == Slots(turn[t].arr, b + 1)
  <2>1. At(t, "prompting") /\ Becomes(t, [turn[t] EXCEPT !.pc = "answering", !.prompt = p])
    BY <1>8, PromptedIs
  <2>2. b < Cap(turn[t].arr)
    BY <2>1 DEF Base, SlicesOK
  <2>3. b + 1 \in 0..Cap(turn[t].arr) /\ Shows(turn[t].arr, b + 1)
    BY <1>6, <2>1, <2>2
  <2>4. p \in Seq(Slot) /\ Len(p) = b + 1 /\ \A i \in 1..(b + 1) : p[i] = heap[turn[t].arr][i]
    BY <1>0, <1>6, <2>1, <2>3, SlotsAre DEF TypeOK
  <2> HIDE DEF p
  <2>5. \A i \in 1..Len(p) : p[i] = Content[i]
    BY <1>6, <2>1, <2>3, <2>4 DEF Shows, Exact
  <2>6. p = Content
    BY <1>0, <1>6, <2>1, <2>4, <2>5, SameSlots DEF Exact
  <2>7. QED
    BY <1>2, <1>5, <2>1, <2>4, <2>6
<1>9. CASE Select(t)
  <2> DEFINE pc == IF At(t, "ask") THEN "asking" ELSE "recording"
  <2>1. /\ kind = "postgres" /\ (At(t, "ask") \/ At(t, "record"))
        /\ Becomes(t, [turn[t] EXCEPT !.pc = pc, !.read = row])
    BY <1>9, SelectIs
  <2>2. pc = (IF At(t, "ask") THEN "asking" ELSE "recording")
    OBVIOUS
  <2> HIDE DEF pc
  <2>3. turn'[t].pc = pc /\ turn'[t].read = row /\ turn'[t].prompt = turn[t].prompt
    BY <1>0, <2>1 DEF Becomes, Local
  <2>4. At(t, "ask") => turn[t].prompt = Append(Content, Whole(Question(t)))
    BY <2>1 DEF InStep
  <2>5. CASE At(t, "ask")
    BY <1>1, <1>2, <2>2, <2>3, <2>4, <2>5 DEF InStep, At
  <2>6. CASE ~At(t, "ask")
    BY <1>1, <1>2, <2>2, <2>3, <2>6 DEF InStep, At
  <2>7. QED
    BY <2>5, <2>6
<1>10. CASE Answered(t)
  <2>1. turn'[t].pc = "record"
    BY <1>0, <1>10, AnsweredIs DEF Becomes, Local
  <2>2. QED
    BY <1>2, <2>1, IdleInStepNext
<1>11. QED
  BY <1>3, <1>4, <1>7, <1>8, <1>9, <1>10 DEF SilentStep

\* The first places of an array after the step, against the messages after it.
ShowsNext(arr, length) ==
  length <= Len(All') /\ \A i \in 1..length : heap'[arr][i] = Whole(All'[i])

LEMMA LocalInStepNext ==
  ASSUME NEW t \in Turns, kind' = "memory", turn'[t].pc \in {"local", "half", "prompting"},
         NEW a, NEW b, turn'[t].arr = a, turn'[t].base = b,
         b + 1 = Len(All'), All'[Len(All')] = Question(t),
         ShowsNext(a, b), b < CapNext(a) => ShowsNext(a, b + 1)
  PROVE  InStep(t)'
BY DEF InStep, At, Shows, ShowsNext, Cap, CapNext

\* What it does when it appends in memory.
LEMMA AppendInStep ==
  ASSUME Base, Exact, NEW t \in Turns, InStep(t), AppendMessage(t)
  PROVE  Exact' /\ InStep(t)'
<1> DEFINE m == Appending(t)
<1>a. PICK n \in Nat : n = Len(All)
  BY AllIs DEF Base
<1>b. PICK a \in Nat : a = stored.arr
  BY DEF Base, TypeOK
<1>0. /\ m \in Post /\ TypeOK /\ old' = old /\ log' = Append(log, m)
      /\ kind = "memory" /\ kind' = kind /\ (At(t, "ask") \/ At(t, "record"))
      /\ turn'[t] = Resumed(t) /\ stored'.len = stored.len + 1
      /\ HeapKeepsBut(a, stored.len + 1)
  BY <1>b, AppendingIsPost, AppendIs DEF Base, Becomes
<1>1. /\ All \in Seq(Post) /\ All' \in Seq(Post) /\ Len(All') = n + 1
      /\ All'[n + 1] = m /\ \A i \in 1..n : All'[i] = All[i]
  BY <1>0, <1>a, AllGrows, AllIs
<1>2. /\ Len(Content) = stored.len /\ Len(Content) = n /\ Len(Content') = n + 1
      /\ Content'[n + 1] = Whole(m) /\ \A i \in 1..n : Content'[i] = Content[i]
  BY <1>a, AppendContent DEF Exact
<1> HIDE DEF m
<1>3. Exact'
  <2>1. \A i \in 1..(n + 1) : Content'[i] = Whole(All'[i])
    <3> TAKE i \in 1..(n + 1)
    <3>1. i = n + 1 \/ i \in 1..n
      OBVIOUS
    <3>2. QED
      BY <1>a, <1>1, <1>2, <3>1 DEF Exact
  <2>2. QED
    BY <1>1, <1>2, <2>1 DEF Exact
<1>4. CASE At(t, "record")
  <2>1. turn'[t].pc = "done"
    BY <1>0, <1>4, ResumedIs DEF At
  <2>2. QED
    BY <1>3, <2>1, IdleInStepNext
<1>5. CASE At(t, "ask")
  <2>1. turn'[t].pc = "local" /\ turn'[t].arr = turn[t].arr /\ turn'[t].base = turn[t].base
    BY <1>0, <1>5, ResumedIs
  <2>2. turn[t].arr = a /\ turn[t].base = n /\ m = Question(t) /\ stored.len = n
    BY <1>0, <1>2, <1>5, <1>b DEF InStep, Appending, m
  <2>3. \A i \in 1..n : a # 0 /\ Content[i] = heap[a][i]
    BY <1>0, <1>2, <1>b, ContentIs, BaseIsRepo
  <2>4. a <= Len(heap) /\ Len(heap) \in Nat /\ n <= Cap(a)
    BY <1>b, <2>2, BaseIsRepo, ArraysAre DEF RepoOK, Base
  <2>5. \A i \in 1..n : a \in 1..Len(heap) /\ i \in 1..Len(heap[a]) /\ i # n + 1
    <3> TAKE i \in 1..n
    <3>1. a \in 1..Len(heap)
      BY <2>3, <2>4
    <3>2. n <= Len(heap[a]) /\ Len(heap[a]) \in Nat
      BY <2>4, <3>1, ArraysAre DEF Cap, Base
    <3>3. QED
      BY <3>1, <3>2
  <2>6. \A i \in 1..n : heap'[a][i] = Whole(All'[i])
    <3> TAKE i \in 1..n
    <3>1. heap'[a][i] = heap[a][i]
      BY <1>0, <2>2, <2>5 DEF HeapKeepsBut
    <3>2. QED
      BY <1>a, <1>1, <1>2, <2>3, <3>1 DEF Exact
  <2>7. ShowsNext(a, n)
    BY <1>1, <2>6 DEF ShowsNext
  <2>8. ASSUME n < CapNext(a) PROVE ShowsNext(a, n + 1)
    <3>1. a # 0 /\ a \in 1..Len(heap)
      BY <2>4, <2>8 DEF CapNext
    <3>2. Len(heap'[a]) = Len(heap[a])
      BY <1>0, <3>1 DEF HeapKeepsBut
    <3>3. AppendedInPlace(t)
      BY <1>b, <2>2, <2>8, <3>1, <3>2 DEF AppendedInPlace, Cap, CapNext
    <3>4. heap'[a][n + 1] = Whole(m)
      BY <1>b, <2>2, <3>3, AppendInPlace DEF m
    <3>5. \A i \in 1..(n + 1) : heap'[a][i] = Whole(All'[i])
      <4> TAKE i \in 1..(n + 1)
      <4>1. i = n + 1 \/ i \in 1..n
        OBVIOUS
      <4>2. QED
        BY <1>1, <2>6, <3>4, <4>1
    <3>6. QED
      BY <1>1, <3>5 DEF ShowsNext
  <2>9. n + 1 = Len(All') /\ All'[Len(All')] = Question(t) /\ turn'[t].arr = a /\ turn'[t].base = n
    BY <1>1, <2>1, <2>2
  <2>10. InStep(t)'
    BY <1>0, <2>1, <2>7, <2>8, <2>9, LocalInStepNext
  <2>11. QED
    BY <1>3, <2>10
<1>6. QED
  BY <1>0, <1>4, <1>5

\* The stores to the copy repeat what the repository has stored.
LEMMA LocalRepeats ==
  ASSUME Base, NEW t \in Turns, InStep(t), LocalStore(t)
  PROVE  /\ HeapKeepsBut(0, 0)
         /\ turn[t].base + 1 = Len(All) /\ All[Len(All)] = Question(t)
         /\ Shows(turn[t].arr, turn[t].base + 1)
<1>a. PICK a \in Nat : a = turn[t].arr
  BY DEF Base, TypeOK, Local
<1>b. PICK b \in Nat : b = turn[t].base
  BY DEF Base, TypeOK, Local
<1>0. /\ TypeOK /\ (At(t, "local") \/ At(t, "half"))
      /\ a \in 1..Len(heap) /\ b + 1 \in 1..Len(heap[a])
      /\ heap[a][b + 1] = Whole(Question(t)) => HeapKeepsBut(0, 0)
  BY <1>a, <1>b, LocalStoreIs DEF Base
<1>1. Len(heap[a]) \in Nat /\ All \in Seq(Post) /\ Len(All) \in Nat
  BY <1>0, ArraysAre, AllIs
<1>2. b < Cap(a)
  BY <1>0, <1>1 DEF Cap
<1>3. b + 1 = Len(All) /\ All[Len(All)] = Question(t) /\ Shows(a, b + 1)
  BY <1>0, <1>2, <1>a, <1>b DEF InStep
<1>4. heap[a][b + 1] = Whole(Question(t))
  BY <1>1, <1>3 DEF Shows
<1>5. QED
  BY <1>0, <1>3, <1>4, <1>a, <1>b

\* So they change nothing.
LEMMA LocalInStep ==
  ASSUME Base, Exact, NEW t \in Turns, InStep(t), LocalStore(t)
  PROVE  Exact' /\ InStep(t)'
<1>a. PICK a \in Nat : a = turn[t].arr
  BY DEF Base, TypeOK, Local
<1>b. PICK b \in Nat : b = turn[t].base
  BY DEF Base, TypeOK, Local
<1>0. /\ turn[t] \in Local /\ TypeOK /\ kind = "memory"
      /\ a \in 1..Len(heap) /\ b + 1 \in 1..Len(heap[a])
      /\ UNCHANGED <<kind, old, stored, row, log>>
      /\ Becomes(t, [turn[t] EXCEPT !.pc = IF At(t, "local") THEN "half" ELSE "prompting"])
  BY <1>a, <1>b, LocalStoreIs DEF Base, TypeOK
<1>1. Len(heap[a]) \in Nat /\ All \in Seq(Post) /\ Len(All) \in Nat
  BY <1>0, ArraysAre, AllIs
<1>3. b + 1 = Len(All) /\ All[Len(All)] = Question(t) /\ Shows(a, b + 1)
  BY <1>a, <1>b, LocalRepeats
<1>5. HeapKeepsBut(0, 0) /\ All' = All
  BY <1>0, LocalRepeats DEF All
<1>6. Exact'
  <2>1. /\ Len(Content') = Len(Content) /\ \A i \in 1..Len(Content) : Content'[i] = Content[i]
    BY <1>5, LocalContent
  <2>2. QED
    BY <1>5, <2>1 DEF Exact
<1>7. \A i \in 1..(b + 1) : heap'[a][i] = Whole(All'[i])
  <2> TAKE i \in 1..(b + 1)
  <2>1. i \in 1..Len(heap[a])
    BY <1>0, <1>1
  <2>2. heap'[a][i] = heap[a][i]
    BY <1>0, <1>5, <2>1 DEF HeapKeepsBut
  <2>3. QED
    BY <1>3, <1>5, <2>2 DEF Shows
<1>8. ShowsNext(a, b) /\ ShowsNext(a, b + 1)
  BY <1>1, <1>3, <1>5, <1>7 DEF ShowsNext
<1>9. turn'[t].pc \in {"half", "prompting"} /\ turn'[t].arr = a /\ turn'[t].base = b
  BY <1>0, <1>a, <1>b DEF Becomes, Local
<1>10. InStep(t)'
  BY <1>0, <1>3, <1>5, <1>8, <1>9, LocalInStepNext
<1>11. QED
  BY <1>6, <1>10

\* What it does when it writes the row that it has read.
LEMMA UpdateInStep ==
  ASSUME Base, Exact, NEW t \in Turns, InStep(t),
         Update(t) \/ \E committed \in BOOLEAN : UpdateFails(t, committed)
  PROVE  Exact' /\ InStep(t)'
<1> DEFINE m == Appending(t)
<1>a. PICK n \in Nat : n = Len(All)
  BY AllIs DEF Base
<1>0. /\ m \in Post /\ TypeOK /\ turn[t] \in Local /\ row \in Seq(Post) /\ All \in Seq(Post)
      /\ kind = "postgres" /\ (At(t, "asking") \/ At(t, "recording"))
      /\ UNCHANGED <<kind, old, heap, stored>>
      /\ \/ row' = row /\ log' = log
         \/ row' = Append(turn[t].read, m) /\ log' = Append(log, m)
      /\ \/ /\ Becomes(t, Resumed(t)) /\ row' = Append(turn[t].read, m)
         \/ Becomes(t, [turn[t] EXCEPT !.pc = "done", !.result = "error"])
  BY AppendingIsPost, UpdateIs, AllIs DEF Base, TypeOK
<1>1. /\ Content \in Seq(Slot) /\ Len(Content) = Len(row) /\ Len(row) \in Nat
      /\ \A i \in 1..Len(Content) : Content[i] = Whole(row[i])
      /\ Content' \in Seq(Slot) /\ Len(Content') = Len(row')
      /\ \A i \in 1..Len(Content') : Content'[i] = Whole(row'[i])
  BY <1>0, UpdateContent
<1>2. turn[t].read = row
  BY <1>0 DEF InStep, At
<1> HIDE DEF m
<1>3. CASE row' = row /\ log' = log
  <2>1. Content' = Content /\ All' = All
    BY <1>0, <1>3, ContentKept DEF All
  <2>2. row' # Append(turn[t].read, m)
    <3>1. Len(Append(row, m)) = Len(row) + 1
      BY <1>0
    <3>2. QED
      BY <1>1, <1>2, <1>3, <3>1
  <2>3. turn'[t].pc = "done"
    BY <1>0, <2>2 DEF Becomes, Local
  <2>4. QED
    BY <2>1, <2>3, IdleInStepNext DEF Exact
<1>4. CASE row' = Append(turn[t].read, m) /\ log' = Append(log, m)
  <2>1. Len(row) = n /\ \A i \in 1..n : Content[i] = Whole(All[i])
    BY <1>1, <1>a DEF Exact
  <2>2. /\ Len(row') = n + 1 /\ row'[n + 1] = m /\ \A i \in 1..n : row'[i] = row[i]
    BY <1>0, <1>2, <1>4, <2>1, AppendProperties
  <2>3. /\ All' \in Seq(Post) /\ Len(All') = n + 1
        /\ All'[n + 1] = m /\ \A i \in 1..n : All'[i] = All[i]
    BY <1>0, <1>4, <1>a, AllGrows
  <2>4. Exact'
    <3>1. \A i \in 1..(n + 1) : Content'[i] = Whole(All'[i])
      <4> TAKE i \in 1..(n + 1)
      <4>1. i = n + 1 \/ i \in 1..n
        OBVIOUS
      <4>2. QED
        BY <1>1, <2>1, <2>2, <2>3, <4>1
    <3>2. QED
      BY <1>1, <2>2, <2>3, <3>1 DEF Exact
  <2>5. Content' = Append(Content, Whole(m))
    <3>1. Whole(m) \in Slot
      BY <1>0 DEF Whole, Slot
    <3> DEFINE s == Append(Content, Whole(m))
    <3>2. /\ s \in Seq(Slot) /\ Len(s) = n + 1 /\ s[n + 1] = Whole(m)
          /\ \A i \in 1..n : s[i] = Content[i]
      BY <1>1, <2>1, <3>1, AppendProperties
    <3> HIDE DEF s
    <3>3. \A i \in 1..Len(Content') : Content'[i] = s[i]
      <4> TAKE i \in 1..Len(Content')
      <4>1. i = n + 1 \/ i \in 1..n
        BY <1>1, <2>2
      <4>2. QED
        BY <1>1, <2>1, <2>2, <3>2, <4>1
    <3>4. Len(Content') = Len(s)
      BY <1>1, <2>2, <3>2
    <3>5. Content' = s
      BY <1>1, <3>2, <3>3, <3>4, SameSlots
    <3>6. QED
      BY <3>5 DEF s
  <2>6. CASE Becomes(t, Resumed(t)) /\ At(t, "asking")
    <3>1. turn'[t].pc = "answering" /\ turn'[t].prompt = turn[t].prompt
      BY <1>0, <2>6, ResumedIs DEF Becomes
    <3>2. m = Question(t) /\ turn[t].prompt = Append(Content, Whole(Question(t)))
      BY <2>6 DEF InStep, Appending, m
    <3>3. QED
      BY <2>4, <2>5, <3>1, <3>2 DEF InStep, At
  <2>7. CASE Becomes(t, Resumed(t)) /\ ~At(t, "asking")
    <3>1. turn'[t].pc = "done"
      BY <1>0, <2>7, ResumedIs DEF Becomes, At
    <3>2. QED
      BY <2>4, <3>1, IdleInStepNext
  <2>8. CASE Becomes(t, [turn[t] EXCEPT !.pc = "done", !.result = "error"])
    <3>1. turn'[t].pc = "done"
      BY <1>0, <2>8 DEF Becomes, Local
    <3>2. QED
      BY <2>4, <3>1, IdleInStepNext
  <2>9. QED
    BY <1>0, <2>6, <2>7, <2>8
<1>5. QED
  BY <1>0, <1>3, <1>4

\* Turns that have no part in a silent step stay in step.
LEMMA OthersInStep ==
  ASSUME Base, NEW u \in Turns, InStep(u), turn'[u] = turn[u],
         UNCHANGED <<kind, old, heap, stored, row, log>>
  PROVE  InStep(u)'
<1>1. Content' = Content /\ All' = All
  BY ContentKept DEF All
<1>2. QED
  BY <1>1 DEF InStep, At, Shows, Cap

LEMMA StepSerial ==
  ASSUME Base, SerialInv, NEW t \in Turns, Step(t)
  PROVE  SerialInv'
<1> SUFFICES ASSUME ~overlapped'
             PROVE  /\ \A u, v \in Turns : UnderWay(u)' /\ UnderWay(v)' => u = v
                    /\ Exact' /\ \A u \in Turns : InStep(u)'
  BY DEF SerialInv
<1>0. ~overlapped /\ (NotGot(t) \/ \A u \in Turns \ {t} : ~UnderWay(u))
  BY StepsAlone
<1>1. Exact /\ (\A u \in Turns : InStep(u)) /\ (\A u, v \in Turns : UnderWay(u) /\ UnderWay(v) => u = v)
  BY <1>0 DEF SerialInv
<1>2. turn[t] \in Local /\ \A u \in Turns \ {t} : turn'[u] = turn[u]
  BY LogStep DEF Base, TypeOK
<1>3. CASE NotGot(t)
  <2>1. Leaves(t)
    BY <1>3 DEF Leaves
  <2>2. PICK result \in {"refused", "error"} :
          Becomes(t, [turn[t] EXCEPT !.pc = "done", !.result = result])
    BY <2>1, LeavesIs
  <2>3. turn'[t].pc = "done"
    BY <1>2, <2>2 DEF Becomes, Local
  <2>4. UNCHANGED <<kind, old, heap, stored, row, log>>
    BY <2>1, LeavesIs DEF Silent
  <2>5. Exact'
    BY <1>1, <2>1, SilentInStep DEF SilentStep
  <2>6. \A u \in Turns : InStep(u)'
    <3> TAKE u \in Turns
    <3>1. CASE u = t
      BY <2>3, <3>1, IdleInStepNext
    <3>2. CASE u # t
      BY <1>1, <1>2, <2>4, <3>2, OthersInStep
    <3>3. QED
      BY <3>1, <3>2
  <2>7. \A u \in Turns : UnderWay(u)' => UnderWay(u)
    BY <1>2, <2>3 DEF UnderWay
  <2>8. QED
    BY <1>1, <2>5, <2>6, <2>7
<1>4. CASE \A u \in Turns \ {t} : ~UnderWay(u)
  <2>1. Exact' /\ InStep(t)'
    <3>1. CASE SilentStep(t)
      BY <1>1, <3>1, SilentInStep
    <3>2. CASE AppendMessage(t)
      BY <1>1, <3>2, AppendInStep
    <3>3. CASE LocalStore(t)
      BY <1>1, <3>3, LocalInStep
    <3>4. CASE Update(t) \/ \E committed \in BOOLEAN : UpdateFails(t, committed)
      BY <1>1, <3>4, UpdateInStep
    <3>5. QED
      BY <3>1, <3>2, <3>3, <3>4, StepKinds DEF SilentStep
  <2>2. \A u \in Turns \ {t} : turn'[u].pc \in {"new", "done"}
    BY <1>2, <1>4 DEF UnderWay
  <2>3. \A u \in Turns \ {t} : InStep(u)' /\ ~UnderWay(u)'
    BY <2>2, IdleInStepNext DEF UnderWay
  <2>4. QED
    BY <2>1, <2>3
<1>5. QED
  BY <1>0, <1>3, <1>4

----------------------------------------------------------------------------
(* The invariant of the turns *)

IInv == Base /\ LogInv /\ CountInv /\ QuietInv /\ RowInv /\ SerialInv

LEMMA InitInvariant == Init => IInv
<1> SUFFICES ASSUME Init PROVE IInv
  OBVIOUS
<1>1. /\ Base /\ log = <<>> /\ overlapped = FALSE /\ quiet = Content
      /\ \A t \in Turns : turn[t].pc = "new"
      /\ old \in Seq(Post) /\ \A i \in 1..Len(old) : old[i] = OldMessage(i)
      /\ kind = "memory" => stored.len = Len(old)
      /\ kind = "postgres" => row = old
      /\ Len(Content) = Len(old) /\ \A i \in 1..Len(old) : Content[i] = Whole(old[i])
  BY InitIs
<1>2. DOMAIN old = 1..Len(old) /\ Len(old) \in Nat /\ DOMAIN log = {} /\ Len(log) = 0
  BY <1>1
<1>3. All = old
  BY <1>1 DEF All
<1>4. LogInv
  BY <1>1, <1>2 DEF LogInv, IsInjective
<1>5. CountInv
  BY <1>1, <1>2 DEF CountInv
<1>6. QuietInv
  BY <1>1, <1>2 DEF QuietInv, UnderWay, At
<1>7. RowInv
  <2>1. Sub(old, old)
    BY <1>1, SubIsReflexive
  <2>2. IsInjective(old)
    BY <1>1, <1>2, MessagesDiffer DEF IsInjective
  <2>3. KeptFrom(old, old)
    BY <2>1, <2>2 DEF KeptFrom
  <2>4. QED
    BY <1>1, <1>3, <2>3 DEF RowInv, At
<1>8. SerialInv
  <2>1. \A t \in Turns : InStep(t) /\ ~UnderWay(t)
    BY <1>1, IdleInStep DEF UnderWay
  <2>2. Exact
    BY <1>1, <1>3 DEF Exact
  <2>3. QED
    BY <2>1, <2>2 DEF SerialInv
<1>9. QED
  BY <1>1, <1>4, <1>5, <1>6, <1>7, <1>8 DEF IInv

LEMMA StepInvariant ==
  ASSUME IInv, NEW t \in Turns, Step(t)
  PROVE  IInv'
<1>1. Base /\ LogInv /\ CountInv /\ QuietInv /\ RowInv /\ SerialInv
  BY DEF IInv
<1>2. Base' /\ LogInv' /\ CountInv' /\ QuietInv' /\ RowInv' /\ SerialInv'
  BY <1>1, StepBase, StepLog, StepCount, StepQuiet, StepRow, StepSerial
<1>3. QED
  BY <1>2 DEF IInv

LEMMA InvariantStutters == IInv /\ UNCHANGED vars => IInv'
<1> SUFFICES ASSUME IInv, UNCHANGED vars PROVE IInv'
  OBVIOUS
<1>1. UNCHANGED <<kind, heap, stored, row, turn, old, log, overlapped, quiet>>
  BY DEF vars, repoVars, historyVars
<1>2. Content' = Content /\ All' = All
  BY <1>1, ContentKept DEF All
<1>3. Base' /\ LogInv' /\ CountInv'
  BY <1>1 DEF IInv, Base, TypeOK, SlicesOK, PathsOK, At, Cap, LogInv, CountInv
<1>4. QuietInv'
  BY <1>1, <1>2 DEF IInv, QuietInv, UnderWay, At
<1>5. RowInv'
  BY <1>1, <1>2 DEF IInv, RowInv, At
<1>6. SerialInv'
  <2>1. Exact <=> Exact'
    BY <1>2 DEF Exact
  <2>2. \A t \in Turns : InStep(t) => InStep(t)'
    BY <1>1, OthersInStep DEF IInv
  <2>3. \A t \in Turns : UnderWay(t)' => UnderWay(t)
    BY <1>1 DEF UnderWay
  <2>4. QED
    BY <1>1, <2>1, <2>2, <2>3 DEF IInv, SerialInv
<1>7. QED
  BY <1>3, <1>4, <1>5, <1>6 DEF IInv

LEMMA NextInvariant == IInv /\ [Next]_vars => IInv'
BY StepInvariant, InvariantStutters DEF Next

LEMMA Invariant == Spec => []IInv
BY InitInvariant, NextInvariant, PTL DEF Spec

\* The repositories, the turns and the histories keep their types, and no array holds
\* anything but whole messages and halves of two.
THEOREM TypeCorrect == Spec => []TypeOK
<1>1. IInv => TypeOK
  BY DEF IInv, Base
<1>2. QED
  BY <1>1, Invariant, PTL

----------------------------------------------------------------------------
(* What the invariant says *)

LEMMA InvariantImpliesQuiet == IInv => QuietHistoryStays
<1> SUFFICES ASSUME IInv PROVE QuietHistoryStays
  OBVIOUS
<1>1. /\ quiet \in Seq(Slot) /\ Content \in Seq(Slot) /\ Len(quiet) \in Nat /\ Len(Content) \in Nat
      /\ Len(quiet) <= Len(Content) /\ \A i \in 1..Len(quiet) : Content[i] = quiet[i]
  BY ContentIs, BaseIsRepo DEF IInv, QuietInv, Base, TypeOK
<1>2. SubSeq(quiet, 1, Len(quiet)) = SubSeq(Content, 1, Len(quiet))
  <2> DEFINE n == Len(quiet)
             s == SubSeq(quiet, 1, n)
             u == SubSeq(Content, 1, n)
  <2>1. /\ s \in Seq(Slot) /\ Len(s) = (IF 1 <= n THEN n - 1 + 1 ELSE 0)
        /\ \A i \in 1..(n - 1 + 1) : s[i] = quiet[1 + i - 1]
    BY <1>1, SubSeqProperties
  <2>2. /\ u \in Seq(Slot) /\ Len(u) = (IF 1 <= n THEN n - 1 + 1 ELSE 0)
        /\ \A i \in 1..(n - 1 + 1) : u[i] = Content[1 + i - 1]
    <3>1. \A i \in 1..n : Content[i] \in Slot
      BY <1>1
    <3>2. QED
      BY <1>1, <3>1, SubSeqProperties
  <2> HIDE DEF s, u
  <2>3. Len(s) = n /\ Len(u) = n
    BY <1>1, <2>1, <2>2
  <2>4. \A i \in 1..n : s[i] = u[i]
    <3> TAKE i \in 1..n
    <3>1. i \in 1..(n - 1 + 1) /\ 1 + i - 1 = i
      BY <1>1
    <3>2. QED
      BY <1>1, <2>1, <2>2, <3>1
  <2>5. s = u
    BY <2>1, <2>2, <2>3, <2>4, SameSlots
  <2>6. QED
    BY <2>5 DEF s, u
<1>3. QED
  BY <1>1, <1>2 DEF QuietHistoryStays, IsPrefix

\* Whatever turns overlap, on either repository: what the session held when no turn
\* was last under way is never lost, moved or overwritten.
THEOREM QuietHistoryIsKept == Spec => []QuietHistoryStays
BY Invariant, InvariantImpliesQuiet, PTL

LEMMA InvariantImpliesCount == IInv => AppendsAreCounted
<1> SUFFICES ASSUME IInv, kind = "memory" PROVE Len(Content) = Len(old) + Len(log)
  BY DEF AppendsAreCounted
<1>1. Len(Content) = stored.len
  BY ContentIs, BaseIsRepo DEF IInv
<1>2. QED
  BY <1>1 DEF IInv, CountInv

\* Turns on the memory repository may damage each other's messages, never the place
\* of one: the stored slice is as long as the messages appended are many.
THEOREM EveryAppendHasItsPlace == Spec => []AppendsAreCounted
BY Invariant, InvariantImpliesCount, PTL

LEMMA InvariantImpliesSerial == IInv => SerialIsExact
<1> SUFFICES ASSUME IInv, ~overlapped
             PROVE  /\ Content = [i \in DOMAIN (old \o log) |-> Whole((old \o log)[i])]
                    /\ \A t \in Turns : At(t, "answering") => turn[t].prompt = Content
  BY DEF SerialIsExact
<1>1. Exact /\ \A t \in Turns : InStep(t)
  BY DEF IInv, SerialInv
<1>2. All \in Seq(Post) /\ Content \in Seq(Slot)
  BY AllIs, ContentIs, BaseIsRepo DEF IInv, Base
<1>3. /\ Wholes(All) \in Seq(Slot) /\ Len(Wholes(All)) = Len(All)
      /\ \A i \in 1..Len(All) : Wholes(All)[i] = Whole(All[i])
  BY <1>2, WholesAre
<1>4. Content = Wholes(All)
  BY <1>1, <1>2, <1>3, SameSlots DEF Exact
<1>5. \A t \in Turns : At(t, "answering") => turn[t].prompt = Content
  BY <1>1 DEF InStep
<1>6. QED
  BY <1>4, <1>5 DEF Wholes, All

\* One turn at a time, a session holds what was appended to it and the model is asked
\* with just that, on either repository and whatever fails.
THEOREM SerialTurnsAreExact == Spec => []SerialIsExact
BY Invariant, InvariantImpliesSerial, PTL

LEMMA InvariantImpliesNothingInvented == IInv => NothingInvented
<1> SUFFICES ASSUME IInv, kind = "postgres"
             PROVE  /\ IsInjective(row)
                    /\ \E kept \in SUBSET DOMAIN (old \o log) :
                         /\ Cardinality(kept) = Len(row)
                         /\ \A i \in kept : (old \o log)[i] = row[Cardinality({j \in kept : j <= i})]
  BY DEF NothingInvented
<1>1. KeptFrom(row, All)
  BY DEF IInv, RowInv
<1>2. QED
  BY <1>1 DEF KeptFrom, Sub, All

\* However many turns overwrite each other's row, it holds only messages that were
\* appended, each once and in their order.
THEOREM RowInventsNothing == Spec => []NothingInvented
BY Invariant, InvariantImpliesNothingInvented, PTL

----------------------------------------------------------------------------
(* Histories that are read meanwhile *)

ReaderLocal ==
  [pc : {"new", "copy", "done"}, arr : Nat, len : Nat, shown : Seq(Slot),
   settled : Nat, result : {"none", "ok", "refused"}]

ReaderType == reader \in [Readers -> ReaderLocal]

\* What a reader has been shown: all that had settled, in its place, and no more than
\* it asked for; and, as long as turns are alone, just what was appended.
ShownOK(r) ==
  /\ reader[r].pc = "new" => reader[r].shown = <<>>
  /\ reader[r].result = "ok" => reader[r].pc = "done"
  /\ Len(reader[r].shown) <= reader[r].len
  /\ reader[r].settled <= reader[r].len /\ reader[r].settled <= Len(quiet)
  /\ \A i \in 1..Len(reader[r].shown) :
       i <= reader[r].settled => reader[r].shown[i] = quiet[i]
  /\ reader[r].result = "ok" => Len(reader[r].shown) = reader[r].len
  /\ ~overlapped =>
       /\ Len(reader[r].shown) <= Len(All)
       /\ \A i \in 1..Len(reader[r].shown) : reader[r].shown[i] = Whole(All[i])

\* And what is still in its array to be shown.
ToShowOK(r) ==
  reader[r].pc = "copy" =>
    /\ kind = "memory" /\ reader[r].arr <= Len(heap) /\ reader[r].len <= Cap(reader[r].arr)
    /\ \A i \in 1..reader[r].settled : heap[reader[r].arr][i] = quiet[i]
    /\ reader[r].arr = stored.arr => reader[r].len <= stored.len
    /\ ~overlapped => Shows(reader[r].arr, reader[r].len)

ReaderInv == ReaderType /\ \A r \in Readers : ShownOK(r) /\ ToShowOK(r)

\* A step of a turn stores behind what had settled, and, as long as turns are alone,
\* only behind the session, or leaves what it finds.
StoresBehind ==
  /\ Len(heap') \in Nat /\ Len(heap) <= Len(heap')
  /\ \A a \in 1..Len(heap) :
       /\ Len(heap'[a]) = Len(heap[a])
       /\ \A i \in 1..Len(heap[a]) : i <= Len(quiet) => heap'[a][i] = heap[a][i]
       /\ ~overlapped' =>
            \A i \in 1..Len(heap[a]) :
              heap'[a][i] = heap[a][i] \/ (a = stored.arr /\ i = stored.len + 1)
  /\ \A a \in 0..Len(heap) : a = stored'.arr => a = stored.arr /\ stored.len <= stored'.len

LEMMA StepStoresBehind ==
  ASSUME Base, QuietInv, SerialInv, NEW t \in Turns, Step(t)
  PROVE  StoresBehind
<1>0. /\ stored \in [arr : Nat, len : Nat] /\ Len(heap) \in Nat /\ quiet \in Seq(Slot)
      /\ Len(quiet) \in Nat /\ stored.len \in Nat /\ stored.arr \in Nat
      /\ \A a \in 1..Len(heap) : Len(heap[a]) \in Nat
  BY ArraysAre DEF Base, TypeOK
<1>1. CASE heap' = heap /\ stored' = stored
  BY <1>0, <1>1 DEF StoresBehind
<1>2. CASE AppendMessage(t)
  <2>1. /\ kind = "memory" /\ HeapKeepsBut(stored.arr, stored.len + 1)
        /\ stored'.len = stored.len + 1
        /\ stored'.arr = stored.arr \/ stored'.arr = Len(heap) + 1
    BY <1>2, AppendIs
  <2>2. Len(quiet) <= stored.len
    <3>1. Len(Content) = stored.len
      BY <2>1, ContentIs, BaseIsRepo
    <3>2. QED
      BY <3>1 DEF QuietInv
  <2>3. \A i \in Nat : i <= Len(quiet) => i # stored.len + 1
    BY <1>0, <2>2
  <2>4. \A a \in 1..Len(heap) :
          /\ Len(heap'[a]) = Len(heap[a])
          /\ \A i \in 1..Len(heap[a]) : i <= Len(quiet) => heap'[a][i] = heap[a][i]
          /\ \A i \in 1..Len(heap[a]) :
               heap'[a][i] = heap[a][i] \/ (a = stored.arr /\ i = stored.len + 1)
    BY <1>0, <2>1, <2>3 DEF HeapKeepsBut
  <2>5. \A a \in 0..Len(heap) : a = stored'.arr => a = stored.arr /\ stored.len <= stored'.len
    BY <1>0, <2>1
  <2>6. QED
    BY <2>1, <2>4, <2>5 DEF StoresBehind, HeapKeepsBut
<1>3. CASE LocalStore(t)
  <2>1. /\ kind = "memory" /\ HeapKeepsBut(turn[t].arr, turn[t].base + 1) /\ stored' = stored
        /\ UnderWay(t) /\ turn[t].base \in Nat
    BY <1>3, LocalStoreIs DEF UnderWay, At, Base, TypeOK, Local
  <2>2. Len(quiet) <= turn[t].base
    BY <2>1 DEF QuietInv
  <2>3. \A i \in Nat : i <= Len(quiet) => i # turn[t].base + 1
    BY <1>0, <2>1, <2>2
  <2>4. ASSUME ~overlapped' PROVE HeapKeepsBut(0, 0)
    <3>1. ~overlapped
      BY <2>4, StepsAlone DEF Step, LocalStore
    <3>2. InStep(t)
      BY <3>1 DEF SerialInv
    <3>3. QED
      BY <1>3, <3>2, LocalRepeats
  <2>5. \A a \in 1..Len(heap) :
          /\ Len(heap'[a]) = Len(heap[a])
          /\ \A i \in 1..Len(heap[a]) : i <= Len(quiet) => heap'[a][i] = heap[a][i]
    BY <1>0, <2>1, <2>3 DEF HeapKeepsBut
  <2>6. ASSUME ~overlapped', NEW a \in 1..Len(heap), NEW i \in 1..Len(heap[a])
        PROVE  heap'[a][i] = heap[a][i]
    BY <1>0, <2>4, <2>6 DEF HeapKeepsBut
  <2>7. QED
    BY <1>0, <2>1, <2>5, <2>6 DEF StoresBehind, HeapKeepsBut
<1>4. SilentStep(t) \/ Update(t) \/ (\E committed \in BOOLEAN : UpdateFails(t, committed))
        => heap' = heap /\ stored' = stored
  BY SilentSteps, UpdateIs DEF Silent
<1>5. QED
  BY <1>1, <1>2, <1>3, <1>4, StepKinds DEF SilentStep

\* Messages are only added.
LEMMA AllStays ==
  ASSUME Base, NEW t \in Turns, Step(t)
  PROVE  Len(All) <= Len(All') /\ Len(All') \in Nat /\ \A i \in 1..Len(All) : All'[i] = All[i]
<1>1. old' = old /\ (log' = log \/ log' = Append(log, Appending(t))) /\ TypeOK
  BY LogStep, StepKept DEF StepKeeps, Base
<1>2. All \in Seq(Post) /\ Len(All) \in Nat
  BY <1>1, AllIs
<1>3. CASE log' = log
  BY <1>1, <1>2, <1>3 DEF All
<1>4. CASE log' = Append(log, Appending(t))
  BY <1>1, <1>2, <1>4, AllGrows, AppendingIsPost
<1>5. QED
  BY <1>1, <1>3, <1>4

\* So a step of a turn changes nothing of what a reader was and will be shown.
LEMMA StepLeavesReaders ==
  ASSUME IInv, ReaderInv, NEW t \in Turns, Step(t), reader' = reader
  PROVE  ReaderInv'
<1>0. Base /\ QuietInv /\ SerialInv
  BY DEF IInv
<1>1. /\ Len(quiet) \in Nat /\ Len(quiet') \in Nat
      /\ Len(quiet) <= Len(quiet') /\ \A i \in 1..Len(quiet) : quiet'[i] = quiet[i]
  <2>1. quiet \in Seq(Slot) /\ quiet' \in Seq(Slot)
    BY <1>0, StepBase DEF Base, TypeOK
  <2>2. QED
    BY <1>0, <2>1, StepQuiet
<1>2. StoresBehind
  BY <1>0, StepStoresBehind
<1>3. Len(All) \in Nat /\ Len(All) <= Len(All') /\ Len(All') \in Nat /\ \A i \in 1..Len(All) : All'[i] = All[i]
  BY <1>0, AllStays, AllIs DEF Base
<1>4. kind' = kind /\ (~overlapped' => ~overlapped)
  BY <1>0, StepKept, StepsAlone DEF StepKeeps
<1>5. Len(heap) \in Nat /\ \A a \in 1..Len(heap) : Len(heap[a]) \in Nat
  BY <1>0, ArraysAre DEF Base
<1>6. ASSUME NEW r \in Readers PROVE ShownOK(r)' /\ ToShowOK(r)'
  <2> DEFINE x == reader[r]
  <2>0. ShownOK(r) /\ ToShowOK(r)
    BY DEF ReaderInv
  <2>1. /\ x.arr \in Nat /\ x.len \in Nat /\ x.settled \in Nat /\ Len(x.shown) \in Nat
        /\ reader'[r] = x
    BY DEF ReaderInv, ReaderType, ReaderLocal
  <2>2. PICK n \in Nat : n = Len(x.shown)
    BY <2>1
  <2>3. PICK s \in Nat : s = x.settled
    BY <2>1
  <2>4. PICK l \in Nat : l = x.len
    BY <2>1
  <2>5. PICK a \in Nat : a = x.arr
    BY <2>1
  <2>6. /\ x.pc = "new" => x.shown = <<>>
        /\ x.result = "ok" => x.pc = "done"
        /\ n <= l /\ s <= l /\ s <= Len(quiet) /\ s <= Len(quiet')
        /\ \A i \in 1..n : i <= s => x.shown[i] = quiet[i]
        /\ x.result = "ok" => n = l
        /\ ~overlapped => n <= Len(All) /\ \A i \in 1..n : x.shown[i] = Whole(All[i])
    BY <1>1, <2>0, <2>2, <2>3, <2>4 DEF ShownOK
  <2>7. \A i \in 1..n : i <= s => x.shown[i] = quiet'[i]
    <3> TAKE i \in 1..n
    <3>1. i <= s => i \in 1..Len(quiet)
      BY <1>1, <2>6
    <3>2. QED
      BY <1>1, <2>6, <3>1
  <2>8. ~overlapped' => n <= Len(All') /\ \A i \in 1..n : x.shown[i] = Whole(All'[i])
    BY <1>3, <1>4, <2>6
  <2>9. ShownOK(r)'
    BY <2>1, <2>2, <2>3, <2>4, <2>6, <2>7, <2>8 DEF ShownOK
  <2>10. ASSUME x.pc = "copy"
         PROVE  /\ kind' = "memory" /\ a <= Len(heap') /\ l <= CapNext(a)
                /\ \A i \in 1..s : heap'[a][i] = quiet'[i]
                /\ a = stored'.arr => l <= stored'.len
                /\ ~overlapped' => ShowsNext(a, l)
    <3>1. /\ kind = "memory" /\ a <= Len(heap) /\ l <= Cap(a)
          /\ \A i \in 1..s : heap[a][i] = quiet[i]
          /\ a = stored.arr => l <= stored.len
          /\ ~overlapped => Shows(a, l)
      BY <2>0, <2>3, <2>4, <2>5, <2>10 DEF ToShowOK
    <3>2. a = 0 \/ a \in 1..Len(heap)
      BY <1>5, <3>1
    <3>3. \A i \in 1..l : a \in 1..Len(heap) /\ i \in 1..Len(heap[a])
      <4>1. l # 0 => a # 0
        BY <3>1 DEF Cap
      <4>2. a # 0 => l <= Len(heap[a]) /\ Len(heap[a]) \in Nat
        BY <1>5, <3>1, <3>2 DEF Cap
      <4>3. QED
        BY <3>2, <4>1, <4>2
    <3>4. l <= CapNext(a)
      BY <1>2, <3>1, <3>2 DEF Cap, CapNext, StoresBehind
    <3>5. a <= Len(heap')
      BY <1>2, <1>5, <3>1 DEF StoresBehind
    <3>6. \A i \in 1..s : heap'[a][i] = quiet'[i]
      <4> TAKE i \in 1..s
      <4>1. i \in 1..l /\ i \in 1..Len(quiet) /\ i <= Len(quiet)
        BY <1>1, <2>6
      <4>2. heap'[a][i] = heap[a][i]
        BY <1>2, <3>3, <4>1 DEF StoresBehind
      <4>3. QED
        BY <1>1, <3>1, <4>1, <4>2
    <3>7. a = stored'.arr => l <= stored'.len
      <4>1. a \in 0..Len(heap)
        BY <1>5, <3>1
      <4>2. stored.len \in Nat /\ stored'.len \in Nat
        <5>1. Base'
          BY <1>0, StepBase
        <5>2. QED
          BY <1>0, <5>1 DEF Base, TypeOK
      <4>3. QED
        BY <1>2, <3>1, <4>1, <4>2 DEF StoresBehind
    <3>8. ASSUME ~overlapped' PROVE ShowsNext(a, l)
      <4>1. l <= Len(All) /\ \A i \in 1..l : heap[a][i] = Whole(All[i])
        BY <1>4, <3>1, <3>8 DEF Shows
      <4>2. \A i \in 1..l : ~(a = stored.arr /\ i = stored.len + 1)
        <5>1. stored.len \in Nat
          BY <1>0 DEF Base, TypeOK
        <5>2. QED
          BY <3>1, <5>1
      <4>3. \A i \in 1..l : heap'[a][i] = heap[a][i]
        BY <1>2, <3>3, <3>8, <4>2 DEF StoresBehind
      <4>4. QED
        BY <1>3, <4>1, <4>3 DEF ShowsNext
    <3>9. QED
      BY <1>4, <3>1, <3>4, <3>5, <3>6, <3>7, <3>8
  <2>11. ToShowOK(r)'
    BY <2>1, <2>3, <2>4, <2>5, <2>10 DEF ToShowOK, Cap, CapNext, Shows, ShowsNext
  <2>12. QED
    BY <2>9, <2>11
<1>7. QED
  BY <1>6 DEF ReaderInv, ReaderType

LEMMA ReaderInitially == ReaderInit => IInv /\ ReaderInv
<1> SUFFICES ASSUME ReaderInit PROVE IInv /\ ReaderInv
  OBVIOUS
<1>1. IInv
  BY InitInvariant DEF ReaderInit
<1>2. reader = [r \in Readers |->
        [pc |-> "new", arr |-> 0, len |-> 0, shown |-> <<>>, settled |-> 0, result |-> "none"]]
  BY DEF ReaderInit
<1>3. ReaderType
  <2>1. <<>> \in Seq(Slot)
    OBVIOUS
  <2>2. QED
    BY <1>2, <2>1 DEF ReaderType, ReaderLocal
<1>4. Len(quiet) \in Nat /\ Len(All) \in Nat
  <2>1. quiet \in Seq(Slot)
    BY <1>1 DEF IInv, Base, TypeOK
  <2>2. QED
    BY <1>1, <2>1, AllIs DEF IInv, Base
<1>5. \A r \in Readers : ShownOK(r) /\ ToShowOK(r)
  BY <1>2, <1>4 DEF ShownOK, ToShowOK
<1>6. QED
  BY <1>1, <1>3, <1>5 DEF ReaderInv

\* A reader that goes on as x.
ReaderBecomes(r, x) ==
  /\ reader' \in [Readers -> ReaderLocal]
  /\ reader'[r] = x /\ \A q \in Readers \ {r} : reader'[q] = reader[q]

\* What a reader that goes on as x needs to be in order.
InOrder(x) ==
  /\ x.pc = "new" => x.shown = <<>>
  /\ x.result = "ok" => x.pc = "done"
  /\ Len(x.shown) <= x.len /\ x.settled <= x.len /\ x.settled <= Len(quiet)
  /\ \A i \in 1..Len(x.shown) : i <= x.settled => x.shown[i] = quiet[i]
  /\ x.result = "ok" => Len(x.shown) = x.len
  /\ ~overlapped => Len(x.shown) <= Len(All) /\ \A i \in 1..Len(x.shown) : x.shown[i] = Whole(All[i])
  /\ x.pc = "copy" =>
       /\ kind = "memory" /\ x.arr <= Len(heap) /\ x.len <= Cap(x.arr)
       /\ \A i \in 1..x.settled : heap[x.arr][i] = quiet[i]
       /\ x.arr = stored.arr => x.len <= stored.len
       /\ ~overlapped => Shows(x.arr, x.len)

LEMMA ReaderStays ==
  ASSUME ReaderInv, NEW r \in Readers, NEW x, ReaderBecomes(r, x), InOrder(x), UNCHANGED vars
  PROVE  ReaderInv'
<1>1. UNCHANGED <<kind, heap, stored, row, turn, old, log, overlapped, quiet>>
  BY DEF vars, repoVars, historyVars
<1>2. All' = All
  BY <1>1 DEF All
<1>3. ASSUME NEW q \in Readers PROVE ShownOK(q)' /\ ToShowOK(q)'
  <2>1. CASE q = r
    <3>1. reader'[q] = x
      BY <2>1 DEF ReaderBecomes
    <3>2. QED
      BY <1>1, <1>2, <3>1 DEF InOrder, ShownOK, ToShowOK, Cap, Shows
  <2>2. CASE q # r
    <3>1. reader'[q] = reader[q] /\ ShownOK(q) /\ ToShowOK(q)
      BY <2>2 DEF ReaderBecomes, ReaderInv
    <3>2. QED
      BY <1>1, <1>2, <3>1 DEF ShownOK, ToShowOK, Cap, Shows
  <2>3. QED
    BY <2>1, <2>2
<1>4. QED
  BY <1>3 DEF ReaderInv, ReaderType, ReaderBecomes

LEMMA ReaderGoesOn ==
  ASSUME ReaderInv, NEW r \in Readers, NEW x \in ReaderLocal, reader' = [reader EXCEPT ![r] = x]
  PROVE  ReaderBecomes(r, x)
BY DEF ReaderInv, ReaderType, ReaderBecomes

LEMMA SessionIsGot ==
  ASSUME IInv, ReaderInv, NEW r \in Readers, GetSession(r), UNCHANGED vars
  PROVE  ReaderInv'
<1>0. /\ reader[r] \in ReaderLocal /\ reader[r].pc = "new" /\ ShownOK(r) /\ TypeOK /\ Base /\ RepoOK
      /\ reader \in [Readers -> ReaderLocal]
  BY BaseIsRepo DEF ReaderInv, ReaderType, GetSession, IInv, Base
<1>1. /\ Content \in Seq(Slot) /\ Len(Content) \in Nat /\ quiet \in Seq(Slot) /\ Len(quiet) \in Nat
      /\ Len(quiet) <= Len(Content) /\ \A i \in 1..Len(quiet) : Content[i] = quiet[i]
      /\ kind \in {"memory", "postgres"}
  BY <1>0, ContentIs DEF IInv, QuietInv, TypeOK
<1>2. ~overlapped => Exact
  BY DEF IInv, SerialInv
<1>3. All \in Seq(Post) /\ Len(All) \in Nat
  BY <1>0, AllIs
<1>4. CASE kind = "memory"
  <2> DEFINE x == [reader[r] EXCEPT !.pc = "copy", !.arr = stored.arr, !.len = stored.len,
                                    !.settled = Len(quiet)]
  <2>1. reader' = [reader EXCEPT ![r] = x]
    BY <1>0, <1>4 DEF GetSession
  <2>2. /\ stored.arr \in Nat /\ stored.len \in Nat /\ stored.arr <= Len(heap)
        /\ stored.len <= Cap(stored.arr)
    BY <1>0 DEF RepoOK
  <2>3. x \in ReaderLocal
    BY <1>0, <1>1, <2>2 DEF ReaderLocal
  <2>4. /\ x.pc = "copy" /\ x.arr = stored.arr /\ x.len = stored.len /\ x.settled = Len(quiet)
        /\ x.shown = reader[r].shown /\ x.result = reader[r].result
    BY <1>0 DEF ReaderLocal
  <2>5. ReaderBecomes(r, x)
    BY <2>1, <2>3, ReaderGoesOn
  <2> HIDE DEF x
  <2>6. /\ Len(Content) = stored.len
        /\ \A i \in 1..stored.len : Content[i] = heap[stored.arr][i]
    BY <1>0, <1>4, ContentIs
  <2>7. ~overlapped => Shows(stored.arr, stored.len)
    BY <1>2, <1>3, <2>6 DEF Exact, Shows
  <2>8. \A i \in 1..Len(quiet) : heap[stored.arr][i] = quiet[i]
    <3> TAKE i \in 1..Len(quiet)
    <3>1. i \in 1..stored.len
      BY <1>1, <2>2, <2>6
    <3>2. QED
      BY <1>1, <2>6, <3>1
  <2>9. reader[r].result # "ok" /\ Len(reader[r].shown) = 0
    BY <1>0 DEF ShownOK
  <2>10. InOrder(x)
    BY <1>1, <1>3, <1>4, <2>2, <2>4, <2>6, <2>7, <2>8, <2>9 DEF InOrder
  <2>11. QED
    BY <2>5, <2>10, ReaderStays
<1>5. CASE kind = "postgres"
  <2> DEFINE x == [reader[r] EXCEPT !.pc = "done", !.len = Len(row), !.shown = Content,
                                    !.settled = Len(quiet), !.result = "ok"]
  <2>1. reader' = [reader EXCEPT ![r] = x]
    BY <1>0, <1>5 DEF GetSession
  <2>2. Len(Content) = Len(row)
    BY <1>0, <1>5, ContentIs
  <2>3. x \in ReaderLocal
    BY <1>0, <1>1, <2>2 DEF ReaderLocal
  <2>4. /\ x.pc = "done" /\ x.len = Len(row) /\ x.settled = Len(quiet)
        /\ x.shown = Content /\ x.result = "ok"
    BY <1>0 DEF ReaderLocal
  <2>5. ReaderBecomes(r, x)
    BY <2>1, <2>3, ReaderGoesOn
  <2> HIDE DEF x
  <2>6. \A i \in 1..Len(Content) : i <= Len(quiet) => Content[i] = quiet[i]
    BY <1>1
  <2>7. ~overlapped => Len(Content) <= Len(All) /\ \A i \in 1..Len(Content) : Content[i] = Whole(All[i])
    BY <1>1, <1>2, <1>3 DEF Exact
  <2>8. InOrder(x)
    BY <1>1, <2>2, <2>4, <2>6, <2>7 DEF InOrder
  <2>9. QED
    BY <2>5, <2>8, ReaderStays
<1>6. QED
  BY <1>1, <1>4, <1>5

LEMMA HistoryStepKeeps ==
  ASSUME IInv, ReaderInv, NEW r \in Readers, GetChatHistory(r), UNCHANGED vars
  PROVE  ReaderInv'
<1>0. /\ reader[r] \in ReaderLocal /\ ShownOK(r) /\ ToShowOK(r) /\ Base
      /\ reader \in [Readers -> ReaderLocal] /\ Len(quiet) \in Nat /\ Len(All) \in Nat
  <2>1. quiet \in Seq(Slot)
    BY DEF IInv, Base, TypeOK
  <2>2. QED
    BY <2>1, AllIs DEF ReaderInv, ReaderType, IInv, Base
<1>1. CASE GetSession(r)
  BY <1>1, SessionIsGot
<1>2. CASE HistoryRefused(r)
  <2> DEFINE x == [reader[r] EXCEPT !.pc = "done", !.result = "refused"]
  <2>1. reader' = [reader EXCEPT ![r] = x]
    BY <1>0, <1>2 DEF HistoryRefused
  <2>2. x \in ReaderLocal
    BY <1>0 DEF ReaderLocal
  <2>3. /\ x.pc = "done" /\ x.result = "refused" /\ x.len = reader[r].len
        /\ x.shown = reader[r].shown /\ x.settled = reader[r].settled
    BY <1>0 DEF ReaderLocal
  <2>4. ReaderBecomes(r, x)
    BY <2>1, <2>2, ReaderGoesOn
  <2> HIDE DEF x
  <2>5. InOrder(x)
    BY <1>0, <2>3 DEF InOrder, ShownOK
  <2>6. QED
    BY <2>4, <2>5, ReaderStays
<1>3. CASE CopyMessage(r)
  <2> DEFINE i == Len(reader[r].shown) + 1
             m == heap[reader[r].arr][i]
             s == Append(reader[r].shown, m)
             x == [reader[r] EXCEPT !.shown = s]
  <2>1. /\ reader' = [reader EXCEPT ![r] = x] /\ reader[r].pc = "copy" /\ i <= reader[r].len
    BY <1>0, <1>3 DEF CopyMessage
  <2>2. PICK a \in Nat : a = reader[r].arr
    BY <1>0 DEF ReaderLocal
  <2>3. PICK l \in Nat : l = reader[r].len
    BY <1>0 DEF ReaderLocal
  <2>4. /\ kind = "memory" /\ a <= Len(heap) /\ l <= Cap(a)
        /\ \A j \in 1..reader[r].settled : heap[a][j] = quiet[j]
        /\ a = stored.arr => l <= stored.len
        /\ ~overlapped => Shows(a, l)
    BY <1>0, <2>1, <2>2, <2>3 DEF ToShowOK
  <2>5. PICK n \in Nat : n = Len(reader[r].shown)
    BY <1>0 DEF ReaderLocal
  <2>6. n + 1 \in 1..l /\ i = n + 1 /\ m = heap[a][n + 1]
    BY <2>1, <2>2, <2>3, <2>5
  <2>7. heap[a][n + 1] \in Slot
    <3>1. a # 0 /\ Len(heap) \in Nat
      BY <1>0, <2>4, <2>6, ArraysAre DEF Base, Cap
    <3>2. a \in 1..Len(heap)
      BY <2>4, <3>1
    <3>3. heap[a] \in Seq(Slot) /\ l <= Len(heap[a]) /\ Len(heap[a]) \in Nat
      BY <1>0, <2>4, <3>1, <3>2, ArraysAre DEF Base, Cap
    <3>4. n + 1 \in 1..Len(heap[a])
      BY <2>6, <3>3
    <3>5. QED
      BY <3>3, <3>4
  <2>8. reader[r].shown \in Seq(Slot)
    BY <1>0 DEF ReaderLocal
  <2>9. /\ s \in Seq(Slot) /\ Len(s) = n + 1 /\ s[n + 1] = heap[a][n + 1]
        /\ \A j \in 1..n : s[j] = reader[r].shown[j]
    <3> HIDE DEF i, m
    <3>1. m \in Slot
      BY <2>6, <2>7
    <3>2. QED
      BY <2>5, <2>6, <2>8, <3>1, AppendProperties
  <2> HIDE DEF s
  <2>10. x \in ReaderLocal
    BY <1>0, <2>9 DEF ReaderLocal
  <2>11. /\ x.pc = "copy" /\ x.result = reader[r].result /\ x.len = l /\ x.arr = a
         /\ x.shown = s /\ x.settled = reader[r].settled
    BY <1>0, <2>1, <2>2, <2>3 DEF ReaderLocal
  <2>12. ReaderBecomes(r, x)
    BY <2>1, <2>10, ReaderGoesOn
  <2> HIDE DEF x, i, m
  <2>13. PICK k \in Nat : k = reader[r].settled
    BY <1>0 DEF ReaderLocal
  <2>14. /\ k <= l /\ k <= Len(quiet) /\ \A j \in 1..n : j <= k => reader[r].shown[j] = quiet[j]
         /\ reader[r].result = "ok" => n = l
         /\ ~overlapped => n <= Len(All) /\ \A j \in 1..n : reader[r].shown[j] = Whole(All[j])
    BY <1>0, <2>3, <2>5, <2>13 DEF ShownOK
  <2>15. \A j \in 1..(n + 1) : j = n + 1 \/ j \in 1..n
    OBVIOUS
  <2>16. \A j \in 1..(n + 1) : j <= k => s[j] = quiet[j]
    <3> TAKE j \in 1..(n + 1)
    <3>1. j <= k => j \in 1..k
      BY <2>13
    <3>2. QED
      BY <2>4, <2>9, <2>13, <2>14, <2>15, <3>1
  <2>17. ASSUME ~overlapped
         PROVE  n + 1 <= Len(All) /\ \A j \in 1..(n + 1) : s[j] = Whole(All[j])
    <3>1. l <= Len(All) /\ heap[a][n + 1] = Whole(All[n + 1])
      BY <2>4, <2>6, <2>17 DEF Shows
    <3>2. QED
      BY <1>0, <2>6, <2>9, <2>14, <2>15, <2>17, <3>1
  <2>18. reader[r].result # "ok"
    BY <2>6, <2>14
  <2>19. InOrder(x)
    BY <2>4, <2>6, <2>9, <2>11, <2>13, <2>14, <2>16, <2>17, <2>18 DEF InOrder
  <2>20. QED
    BY <2>12, <2>19, ReaderStays
<1>4. CASE CopyEnds(r)
  <2> DEFINE x == [reader[r] EXCEPT !.pc = "done", !.result = "ok"]
  <2>1. reader' = [reader EXCEPT ![r] = x] /\ Len(reader[r].shown) = reader[r].len
    BY <1>0, <1>4 DEF CopyEnds
  <2>2. x \in ReaderLocal
    BY <1>0 DEF ReaderLocal
  <2>3. /\ x.pc = "done" /\ x.result = "ok" /\ x.len = reader[r].len
        /\ x.shown = reader[r].shown /\ x.settled = reader[r].settled
    BY <1>0 DEF ReaderLocal
  <2>4. ReaderBecomes(r, x)
    BY <2>1, <2>2, ReaderGoesOn
  <2> HIDE DEF x
  <2>5. InOrder(x)
    BY <1>0, <2>1, <2>3 DEF InOrder, ShownOK
  <2>6. QED
    BY <2>4, <2>5, ReaderStays
<1>5. QED
  BY <1>1, <1>2, <1>3, <1>4 DEF GetChatHistory

LEMMA ReadNextKeeps ==
  ASSUME IInv, ReaderInv, [ReadNext]_readVars
  PROVE  IInv' /\ ReaderInv'
<1>1. CASE Next /\ UNCHANGED reader
  <2>1. PICK t \in Turns : Step(t)
    BY <1>1 DEF Next
  <2>2. QED
    BY <1>1, <2>1, StepInvariant, StepLeavesReaders
<1>2. ASSUME NEW r \in Readers, GetChatHistory(r), UNCHANGED vars
      PROVE  IInv' /\ ReaderInv'
  BY <1>2, InvariantStutters, HistoryStepKeeps
<1>3. CASE UNCHANGED readVars
  <2>1. UNCHANGED vars /\ reader' = reader
    BY <1>3 DEF readVars
  <2>2. UNCHANGED <<kind, heap, stored, row, turn, old, log, overlapped, quiet>>
    BY <2>1 DEF vars, repoVars, historyVars
  <2>3. ReaderInv'
    BY <2>1, <2>2 DEF ReaderInv, ReaderType, ShownOK, ToShowOK, Shows, Cap, All
  <2>4. QED
    BY <2>1, <2>3, InvariantStutters
<1>4. QED
  BY <1>1, <1>2, <1>3 DEF ReadNext

LEMMA ReaderInvariant == ReadSpec => [](IInv /\ ReaderInv)
<1>1. IInv /\ ReaderInv /\ [ReadNext]_readVars => IInv' /\ ReaderInv'
  BY ReadNextKeeps
<1>2. QED
  BY <1>1, ReaderInitially, PTL DEF ReadSpec

LEMMA ReaderInvariantImplies == IInv /\ ReaderInv => HistoryIsHonest
<1> SUFFICES ASSUME IInv, ReaderInv, NEW r \in Readers, reader[r].result = "ok"
             PROVE  /\ Len(reader[r].shown) = reader[r].len
                    /\ \A i \in 1..reader[r].settled : reader[r].shown[i] = quiet[i]
                    /\ ~overlapped => \A i \in DOMAIN reader[r].shown :
                         i <= Len(old \o log) /\ reader[r].shown[i] = Whole((old \o log)[i])
  BY DEF HistoryIsHonest
<1>1. /\ reader[r].shown \in Seq(Slot) /\ reader[r].settled \in Nat /\ reader[r].len \in Nat
      /\ ShownOK(r) /\ Len(All) \in Nat
  BY AllIs DEF ReaderInv, ReaderType, ReaderLocal, IInv, Base
<1>2. DOMAIN reader[r].shown = 1..Len(reader[r].shown) /\ Len(reader[r].shown) \in Nat
  BY <1>1
<1>3. Len(reader[r].shown) = reader[r].len
  BY <1>1 DEF ShownOK
<1>4. \A i \in 1..reader[r].settled : i \in 1..Len(reader[r].shown) /\ i <= reader[r].settled
  BY <1>1, <1>3 DEF ShownOK
<1>5. \A i \in 1..reader[r].settled : reader[r].shown[i] = quiet[i]
  BY <1>1, <1>4 DEF ShownOK
<1>6. ~overlapped => \A i \in DOMAIN reader[r].shown : i <= Len(All) /\ reader[r].shown[i] = Whole(All[i])
  BY <1>1, <1>2 DEF ShownOK
<1>7. QED
  BY <1>3, <1>5, <1>6 DEF All

\* A history that is copied while turns write to the array it is copied from shows all
\* that had settled, whole and in place; and just what was appended by the time it was
\* asked for, as long as turns are alone.
THEOREM HistoriesAreHonest == ReadSpec => []HistoryIsHonest
BY ReaderInvariant, ReaderInvariantImplies, PTL
=============================================================================
