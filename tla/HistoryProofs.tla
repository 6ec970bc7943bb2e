--------------------------- MODULE HistoryProofs ---------------------------
(***************************************************************************)
(* What a reader of an aggregate's history may rely on, for every set of   *)
(* views and types, every snapshot interval and every length of the        *)
(* stream.  Joined is recursive: what it computes is proved by taking a    *)
(* least counterexample.                                                   *)
(***************************************************************************)
EXTENDS History, SequenceTheorems, WellFoundedInduction, TLAPS

-----------------------------------------------------------------------------
(* Joining sequences *)

\* A set of numbers that is not empty has a least element.
LEMMA LeastNat ==
  ASSUME NEW S \in SUBSET Nat, S # {}
  PROVE  \E x \in S : \A y \in S : x <= y
<1> DEFINE Less == {ss \in Nat \X Nat : ss[1] < ss[2]}
<1>1. IsWellFoundedOn(Less, Nat)
  BY NatLessThanWellFounded DEF OpToRel
<1> HIDE DEF Less
<1>2. PICK x \in S : \A y \in S : ~(<<y, x>> \in Less)
  BY <1>1, WFMin
<1>3. \A u, v \in Nat : <<v, u>> \in Less <=> v < u
  BY DEF Less
<1>4. \A y \in S : x \in Nat /\ y \in Nat /\ ~(y < x)
  BY <1>2, <1>3, Zenon
<1> QED
  BY <1>4

\* The recursion of Joined: h[n] is the sequences of f from i to n.
Sums(h, f, i, j) ==
  h = [n \in (i - 1)..j |-> IF n < i THEN <<>> ELSE h[n - 1] \o f[n]]

\* The recursion has a solution.
LEMMA SumsExist ==
  ASSUME NEW f, NEW i \in Nat \ {0}, NEW j \in Nat, j >= i - 1
  PROVE  \E h : Sums(h, f, i, j)
<1> SUFFICES ASSUME ~ \E h : Sums(h, f, i, j) PROVE FALSE
  OBVIOUS
<1> DEFINE Bad == {k \in Nat : k >= i - 1 /\ ~ \E h : Sums(h, f, i, k)}
<1>1. PICK k \in Bad : \A m \in Bad : k <= m
  BY LeastNat
<1>2. CASE k = i - 1
  <2> DEFINE g == [n \in (i - 1)..k |-> <<>>]
  <2>0. \A n \in (i - 1)..k : n < i
    BY <1>2
  <2>1. Sums(g, f, i, k)
    BY <2>0 DEF Sums
  <2> QED
    BY <1>1, <2>1
<1>3. CASE k # i - 1
  <2>1. k - 1 \in Nat /\ k - 1 >= i - 1 /\ k - 1 \notin Bad
    BY <1>1, <1>3
  <2>2. PICK h : Sums(h, f, i, k - 1)
    BY <2>1
  <2> DEFINE g == [n \in (i - 1)..k |-> IF n < i THEN <<>> ELSE h[n - 1] \o f[n]]
  <2>3. \A n \in (i - 1)..(k - 1) : h[n] = IF n < i THEN <<>> ELSE h[n - 1] \o f[n]
    BY <2>2 DEF Sums
  <2>4. \A n \in (i - 1)..(k - 1) : g[n] = h[n]
    BY <2>1, <2>3
  <2> HIDE DEF g
  <2>5. \A n \in i..k : n - 1 \in (i - 1)..(k - 1) /\ g[n - 1] = h[n - 1]
    BY <2>1, <2>4
  <2>6. \A n \in (i - 1)..k : (IF n < i THEN <<>> ELSE h[n - 1] \o f[n])
                             = (IF n < i THEN <<>> ELSE g[n - 1] \o f[n])
    BY <2>1, <2>5
  <2>7. Sums(g, f, i, k)
    BY <2>6 DEF Sums, g
  <2> QED
    BY <1>1, <2>7
<1> QED
  BY <1>2, <1>3

\* And only one, whatever the range it is taken over.
LEMMA SumsAgree ==
  ASSUME NEW f, NEW g, NEW i \in Nat \ {0}, NEW j \in Nat, NEW k \in Nat,
         i - 1 <= k, k <= j, \A n \in i..k : f[n] = g[n],
         NEW h, Sums(h, f, i, j), NEW e, Sums(e, g, i, k)
  PROVE  h[k] = e[k]
<1> SUFFICES ASSUME h[k] # e[k] PROVE FALSE
  OBVIOUS
<1> DEFINE Bad == {m \in Nat : m >= i - 1 /\ m <= k /\ h[m] # e[m]}
<1>0. k \in Bad
  OBVIOUS
<1>1. PICK m \in Bad : \A n \in Bad : m <= n
  BY <1>0, LeastNat
<1>2. m \in (i - 1)..j /\ m \in (i - 1)..k /\ h[m] # e[m]
  BY <1>1
<1>3. /\ h[m] = IF m < i THEN <<>> ELSE h[m - 1] \o f[m]
      /\ e[m] = IF m < i THEN <<>> ELSE e[m - 1] \o g[m]
  BY <1>2 DEF Sums
<1>4. ~(m < i)
  BY <1>2, <1>3
<1>5. m - 1 \in Nat /\ m - 1 >= i - 1 /\ m - 1 <= k /\ m - 1 \notin Bad /\ f[m] = g[m]
  BY <1>1, <1>2, <1>4
<1>6. h[m - 1] = e[m - 1]
  BY <1>5
<1> QED
  BY <1>2, <1>3, <1>5, <1>6

\* What Joined is, in terms of the recursion.
LEMMA JoinedIs ==
  ASSUME NEW f, NEW i \in Nat \ {0}, NEW j \in Nat, j >= i - 1
  PROVE  \E h : Sums(h, f, i, j) /\ Joined(f, i, j) = h[j]
<1> DEFINE h == CHOOSE h : h = [n \in (i - 1)..j |-> IF n < i THEN <<>> ELSE h[n - 1] \o f[n]]
<1>1. Joined(f, i, j) = h[j]
  BY DEF Joined
<1>2. \E e : e = [n \in (i - 1)..j |-> IF n < i THEN <<>> ELSE e[n - 1] \o f[n]]
  BY SumsExist DEF Sums
<1>3. h = [n \in (i - 1)..j |-> IF n < i THEN <<>> ELSE h[n - 1] \o f[n]]
  BY <1>2
<1> HIDE DEF h
<1>4. Sums(h, f, i, j)
  BY <1>3 DEF Sums
<1> QED
  BY <1>1, <1>4

\* Joined looks at the sequences of its range only.
LEMMA JoinedAgree ==
  ASSUME NEW f, NEW g, NEW i \in Nat \ {0}, NEW j \in Nat, j >= i - 1,
         \A n \in i..j : f[n] = g[n]
  PROVE  Joined(f, i, j) = Joined(g, i, j)
<1>1. PICK h : Sums(h, f, i, j) /\ Joined(f, i, j) = h[j]
  BY JoinedIs
<1>2. PICK e : Sums(e, g, i, j) /\ Joined(g, i, j) = e[j]
  BY JoinedIs
<1>3. h[j] = e[j]
  BY <1>1, <1>2, SumsAgree
<1> QED
  BY <1>1, <1>2, <1>3

\* Nothing is joined to the empty sequence, and one more sequence is appended.
LEMMA JoinedUnfold ==
  ASSUME NEW f, NEW i \in Nat \ {0}
  PROVE  /\ Joined(f, i, i - 1) = <<>>
         /\ \A j \in Nat : j >= i => Joined(f, i, j) = Joined(f, i, j - 1) \o f[j]
<1>1. Joined(f, i, i - 1) = <<>>
  <2>1. PICK h : Sums(h, f, i, i - 1) /\ Joined(f, i, i - 1) = h[i - 1]
    BY JoinedIs
  <2> QED
    BY <2>1 DEF Sums
<1>2. ASSUME NEW j \in Nat, j >= i
      PROVE  Joined(f, i, j) = Joined(f, i, j - 1) \o f[j]
  <2>0. PICK k \in Nat : k = j - 1 /\ i - 1 <= k /\ k >= i - 1 /\ k <= j /\ j >= i - 1
    BY <1>2
  <2>1. PICK h : Sums(h, f, i, j) /\ Joined(f, i, j) = h[j]
    BY <2>0, JoinedIs
  <2>2. PICK e : Sums(e, f, i, k) /\ Joined(f, i, k) = e[k]
    BY <2>0, JoinedIs
  <2>3. h[k] = e[k]
    <3>1. i - 1 <= k /\ k <= j
      BY <2>0
    <3>2. PICK g : g = f
      OBVIOUS
    <3>3. Sums(e, g, i, k) /\ (\A n \in i..k : f[n] = g[n]) /\ Sums(h, f, i, j)
      BY <2>1, <2>2, <3>2
    <3> HIDE <3>2
    <3> QED
      BY ONLY <3>1, <3>3, SumsAgree, i \in Nat \ {0}, j \in Nat, k \in Nat
  <2>4. h[j] = h[j - 1] \o f[j]
    <3>1. j \in (i - 1)..j /\ ~(j < i)
      BY <1>2
    <3>2. h[j] = IF j < i THEN <<>> ELSE h[j - 1] \o f[j]
      BY <2>1, <3>1 DEF Sums
    <3> QED
      BY <3>1, <3>2
  <2> QED
    BY <2>0, <2>1, <2>2, <2>3, <2>4
<1> QED
  BY <1>1, <1>2

\* Concatenation is associative.
Cat(a, b) == a \o b

LEMMA Regroup ==
  ASSUME NEW T, NEW a \in Seq(T), NEW b \in Seq(T), NEW c \in Seq(T)
  PROVE  Cat(Cat(a, b), c) = Cat(a, Cat(b, c))
BY ConcatAssociative DEF Cat

\* Joined sequences over T are a sequence over T.
LEMMA JoinedType ==
  ASSUME NEW T, NEW f, NEW i \in Nat \ {0}, NEW j \in Nat, j >= i - 1,
         \A n \in i..j : f[n] \in Seq(T)
  PROVE  Joined(f, i, j) \in Seq(T)
<1> SUFFICES ASSUME Joined(f, i, j) \notin Seq(T) PROVE FALSE
  OBVIOUS
<1> DEFINE Bad == {k \in Nat : k >= i - 1 /\ k <= j /\ Joined(f, i, k) \notin Seq(T)}
<1>0. j \in Bad
  OBVIOUS
<1>1. PICK k \in Bad : \A m \in Bad : k <= m
  BY <1>0, LeastNat
<1>2. k \in Nat /\ k >= i - 1 /\ k <= j /\ Joined(f, i, k) \notin Seq(T)
  BY <1>1
<1>3. CASE k = i - 1
  <2>1. Joined(f, i, i - 1) = <<>>
    BY JoinedUnfold
  <2> QED
    BY <1>2, <1>3, <2>1, EmptySeq
<1>4. CASE k # i - 1
  <2>1. k >= i /\ k - 1 \in Nat /\ k - 1 >= i - 1 /\ k - 1 <= j /\ k - 1 \notin Bad
    BY <1>1, <1>2, <1>4
  <2>2. Joined(f, i, k - 1) \in Seq(T) /\ f[k] \in Seq(T)
    BY <1>2, <2>1
  <2>3. Joined(f, i, k) = Joined(f, i, k - 1) \o f[k]
    BY <1>2, <2>1, JoinedUnfold
  <2> QED
    BY <1>2, <2>2, <2>3
<1> QED
  BY <1>3, <1>4

\* A range can be joined in two parts.
LEMMA JoinedSplit ==
  ASSUME NEW T, NEW f, NEW i \in Nat \ {0}, NEW j \in Nat, NEW k \in Nat,
         i - 1 <= k, k <= j, \A n \in i..j : f[n] \in Seq(T)
  PROVE  Joined(f, i, j) = Joined(f, i, k) \o Joined(f, k + 1, j)
<1> DEFINE Good(m) == Joined(f, i, m) = Joined(f, i, k) \o Joined(f, k + 1, m)
<1> SUFFICES ASSUME ~Good(j) PROVE FALSE
  OBVIOUS
<1> DEFINE Bad == {m \in Nat : m >= k /\ m <= j /\ ~Good(m)}
<1>0. j \in Bad
  OBVIOUS
<1>1. PICK m \in Bad : \A n \in Bad : m <= n
  BY <1>0, LeastNat
<1>2. m \in Nat /\ m >= k /\ m <= j /\ ~Good(m)
  BY <1>1
<1>3. \A n \in Nat : n >= i - 1 /\ n <= j => Joined(f, i, n) \in Seq(T)
  BY JoinedType
<1>4. CASE m = k
  <2>1. Joined(f, k + 1, k) = <<>>
    <3>1. k + 1 \in Nat \ {0} /\ (k + 1) - 1 = k
      OBVIOUS
    <3> QED
      BY <3>1, JoinedUnfold
  <2>2. Joined(f, i, k) \in Seq(T)
    BY <1>3
  <2>3. Good(m)
    BY <1>4, <2>1, <2>2
  <2> QED
    BY <1>2, <2>3
<1>5. CASE m # k
  <2>1. /\ m >= k + 1 /\ m - 1 \in Nat /\ m - 1 >= k /\ m - 1 <= j /\ m - 1 \notin Bad
        /\ m >= i /\ m \in i..j /\ k + 1 \in Nat \ {0} /\ m - 1 >= (k + 1) - 1
    <3> HIDE DEF Good
    <3>1. m > k
      BY <1>2, <1>5
    <3> QED
      BY <1>1, <1>2, <3>1
  <2>2. Good(m - 1)
    BY <2>1
  <2>3. Joined(f, i, m) = Joined(f, i, m - 1) \o f[m]
    BY <1>2, <2>1, JoinedUnfold
  <2>4. Joined(f, k + 1, m) = Joined(f, k + 1, m - 1) \o f[m]
    BY <1>2, <2>1, JoinedUnfold
  <2>5. Joined(f, i, k) \in Seq(T) /\ f[m] \in Seq(T)
    BY <1>2, <1>3, <2>1
  <2>6. Joined(f, k + 1, m - 1) \in Seq(T)
    <3>1. \A n \in (k + 1)..(m - 1) : f[n] \in Seq(T)
      BY <1>2
    <3> QED
      BY <2>1, <3>1, JoinedType
  <2>7. Joined(f, i, m - 1) \o f[m] = Joined(f, i, k) \o Joined(f, k + 1, m)
    <3>1. Joined(f, i, m - 1) = Joined(f, i, k) \o Joined(f, k + 1, m - 1)
      BY <2>2
    <3>2. Cat(Cat(Joined(f, i, k), Joined(f, k + 1, m - 1)), f[m])
            = Cat(Joined(f, i, k), Cat(Joined(f, k + 1, m - 1), f[m]))
      BY <2>5, <2>6, Regroup
    <3> QED
      BY <2>4, <3>1, <3>2 DEF Cat
  <2>8. Good(m)
    BY <2>3, <2>7
  <2> QED
    BY <1>2, <2>8
<1> QED
  BY <1>4, <1>5

-----------------------------------------------------------------------------
(* The events that a view declares *)

\* What view v keeps of one event type.
Keep(v, t) == IF t \in Known[v] THEN <<t>> ELSE <<>>

LEMMA DeclaredEmpty ==
  ASSUME NEW v
  PROVE  Declared(v, <<>>) = <<>>
<1>1. Joined([n \in DOMAIN <<>> |-> IF <<>>[n] \in Known[v] THEN <<<<>>[n]>> ELSE <<>>], 1, 0) = <<>>
  <2>1. 1 \in Nat \ {0} /\ 1 - 1 = 0
    OBVIOUS
  <2> QED
    BY <2>1, JoinedUnfold
<1> QED
  BY <1>1 DEF Declared

LEMMA DeclaredType ==
  ASSUME NEW v, NEW s \in Seq(Types)
  PROVE  Declared(v, s) \in Seq(Types)
<1> DEFINE f == [n \in DOMAIN s |-> IF s[n] \in Known[v] THEN <<s[n]>> ELSE <<>>]
<1>1. \A n \in 1..Len(s) : f[n] \in Seq(Types)
  OBVIOUS
<1> HIDE DEF f
<1>2. Joined(f, 1, Len(s)) \in Seq(Types)
  BY <1>1, JoinedType
<1> QED
  BY <1>2 DEF Declared, f

\* One event at a time.
LEMMA DeclaredAppend ==
  ASSUME NEW v, NEW s \in Seq(Types), NEW t \in Types
  PROVE  Declared(v, Append(s, t)) = Declared(v, s) \o Keep(v, t)
<1> DEFINE f == [n \in DOMAIN s |-> IF s[n] \in Known[v] THEN <<s[n]>> ELSE <<>>]
           u == Append(s, t)
           g == [n \in DOMAIN u |-> IF u[n] \in Known[v] THEN <<u[n]>> ELSE <<>>]
           L == Len(s)
<1>1. Declared(v, s) = Joined(f, 1, L)
  BY DEF Declared
<1>2. Declared(v, u) = Joined(g, 1, L + 1)
  <2>1. Len(u) = L + 1
    OBVIOUS
  <2> QED
    BY <2>1 DEF Declared
<1>3. /\ L \in Nat /\ L >= 1 - 1 /\ g[L + 1] = Keep(v, t) /\ 1 \in Nat \ {0}
      /\ \A n \in 1..L : g[n] = f[n]
  BY DEF Keep
<1> HIDE DEF f, g, u, L
<1>4. Joined(g, 1, L + 1) = Joined(g, 1, L) \o g[L + 1]
  <2>1. L + 1 \in Nat /\ L + 1 >= 1 /\ (L + 1) - 1 = L
    BY <1>3
  <2> QED
    BY <1>3, <2>1, JoinedUnfold
<1>5. Joined(g, 1, L) = Joined(f, 1, L)
  BY <1>3, JoinedAgree
<1>6. Declared(v, u) = Declared(v, s) \o Keep(v, t)
  BY <1>1, <1>2, <1>3, <1>4, <1>5
<1> QED
  BY <1>6 DEF u

\* What a view declares of two sequences, one after the other.
LEMMA DeclaredConcat ==
  ASSUME NEW v, NEW s \in Seq(Types), NEW u \in Seq(Types)
  PROVE  Declared(v, s \o u) = Declared(v, s) \o Declared(v, u)
<1> DEFINE Good(w) == Declared(v, s \o w) = Declared(v, s) \o Declared(v, w)
           Bad == {n \in Nat : \E w \in Seq(Types) : Len(w) = n /\ ~Good(w)}
<1> SUFFICES ASSUME ~Good(u) PROVE FALSE
  OBVIOUS
<1>0. Len(u) \in Bad
  OBVIOUS
<1>1. PICK n \in Bad : \A m \in Bad : n <= m
  BY <1>0, LeastNat
<1>2. PICK w \in Seq(Types) : Len(w) = n /\ ~Good(w)
  BY <1>1
<1>3. Declared(v, s) \in Seq(Types)
  BY DeclaredType
<1>4. CASE w = <<>>
  <2>1. s \o w = s /\ Declared(v, s) \o <<>> = Declared(v, s)
    BY <1>3, <1>4
  <2>2. Good(w)
    BY <1>4, <2>1, DeclaredEmpty
  <2> QED
    BY <1>2, <2>2
<1>5. CASE w # <<>>
  <2>1. PICK x \in Seq(Types), t \in Types : w = Append(x, t)
    <3> DEFINE x == [m \in 1..(Len(w) - 1) |-> w[m]]
    <3>1. Len(w) \in Nat \ {0} /\ w[Len(w)] \in Types
      BY <1>5
    <3>2. x \in Seq(Types) /\ w = Append(x, w[Len(w)])
      BY <3>1
    <3> QED
      BY <3>1, <3>2
  <2>2. Len(w) = Len(x) + 1 /\ Len(x) \in Nat
    BY <2>1
  <2>3. Good(x)
    <3>1. ~(n <= Len(x))
      BY <1>2, <2>2
    <3> QED
      BY <1>1, <2>2, <3>1
  <2>4. s \o w = Append(s \o x, t) /\ s \o x \in Seq(Types)
    BY <2>1
  <2>5. Declared(v, s \o w) = Declared(v, s \o x) \o Keep(v, t)
    BY <2>1, <2>4, DeclaredAppend
  <2>6. Declared(v, w) = Declared(v, x) \o Keep(v, t)
    BY <2>1, DeclaredAppend
  <2>7. Declared(v, s \o x) \o Keep(v, t) = Declared(v, s) \o Declared(v, w)
    <3>1. Declared(v, x) \in Seq(Types)
      BY <2>1, DeclaredType
    <3>2. Keep(v, t) \in Seq(Types)
      BY <2>1 DEF Keep
    <3>3. Declared(v, s \o x) = Declared(v, s) \o Declared(v, x)
      BY <2>3
    <3>4. Cat(Cat(Declared(v, s), Declared(v, x)), Keep(v, t))
            = Cat(Declared(v, s), Cat(Declared(v, x), Keep(v, t)))
      BY <1>3, <3>1, <3>2, Regroup
    <3> QED
      BY <2>6, <3>3, <3>4 DEF Cat
  <2>8. Good(w)
    BY <2>5, <2>7
  <2> QED
    BY <1>2, <2>8
<1> QED
  BY <1>4, <1>5

-----------------------------------------------------------------------------
(* Replays *)

\* The messages that a stream may hold.
Message ==
  {m \in [kind : {"event", "snapshot"}, type : Types \cup {""}, state : Seq(Types)] :
     m.kind = "event" => m.type \in Types}

\* Replay, Base, LastSnapshot and Load, of any sequence of messages.
ReplayOf(s, v, i, j) == Joined([n \in i..j |-> Apply(s[n], v)], i, j)
LatestOf(s, n) == Max({0} \cup {i \in 1..n : s[i].kind = "snapshot"})
BaseOf(s, n) == IF n = 0 THEN <<>> ELSE s[n].state
LoadOf(s, v, n) == BaseOf(s, LatestOf(s, n)) \o ReplayOf(s, v, LatestOf(s, n) + 1, n)

LEMMA ApplyType ==
  ASSUME NEW m \in Message, NEW v
  PROVE  Apply(m, v) \in Seq(Types)
<1>1. CASE IsKnown(m, v)
  <2>1. m.type \in Types
    BY <1>1 DEF IsKnown, Message
  <2> QED
    BY <1>1, <2>1 DEF Apply
<1>2. CASE ~IsKnown(m, v)
  BY <1>2 DEF Apply
<1> QED
  BY <1>1, <1>2

LEMMA ReplayType ==
  ASSUME NEW s \in Seq(Message), NEW v, NEW i \in Nat \ {0}, NEW j \in 0..Len(s), j >= i - 1
  PROVE  ReplayOf(s, v, i, j) \in Seq(Types)
<1> DEFINE f == [n \in i..j |-> Apply(s[n], v)]
<1>1. \A n \in i..j : s[n] \in Message
  OBVIOUS
<1>2. \A n \in i..j : f[n] \in Seq(Types)
  BY <1>1, ApplyType
<1> HIDE DEF f
<1>3. Joined(f, i, j) \in Seq(Types)
  BY <1>2, JoinedType
<1> QED
  BY <1>3 DEF ReplayOf, f

\* A replay looks at its own messages only.
LEMMA ReplayAgree ==
  ASSUME NEW s, NEW u, NEW v, NEW i \in Nat \ {0}, NEW j \in Nat, j >= i - 1,
         \A n \in i..j : s[n] = u[n]
  PROVE  ReplayOf(s, v, i, j) = ReplayOf(u, v, i, j)
<1> DEFINE f == [n \in i..j |-> Apply(s[n], v)]
           g == [n \in i..j |-> Apply(u[n], v)]
<1>1. \A n \in i..j : f[n] = g[n]
  OBVIOUS
<1> HIDE DEF f, g
<1>2. Joined(f, i, j) = Joined(g, i, j)
  BY <1>1, JoinedAgree
<1> QED
  BY <1>2 DEF ReplayOf, f, g

\* One message at a time.
LEMMA ReplayUnfold ==
  ASSUME NEW s, NEW v, NEW i \in Nat \ {0}
  PROVE  /\ ReplayOf(s, v, i, i - 1) = <<>>
         /\ \A j \in Nat : j >= i =>
              ReplayOf(s, v, i, j) = ReplayOf(s, v, i, j - 1) \o Apply(s[j], v)
<1>1. ReplayOf(s, v, i, i - 1) = <<>>
  BY JoinedUnfold DEF ReplayOf
<1>2. ASSUME NEW j \in Nat, j >= i
      PROVE  ReplayOf(s, v, i, j) = ReplayOf(s, v, i, j - 1) \o Apply(s[j], v)
  <2> DEFINE f == [n \in i..j |-> Apply(s[n], v)]
             g == [n \in i..(j - 1) |-> Apply(s[n], v)]
  <2>1. f[j] = Apply(s[j], v) /\ \A n \in i..(j - 1) : f[n] = g[n]
    BY <1>2
  <2>2. ReplayOf(s, v, i, j) = Joined(f, i, j) /\ ReplayOf(s, v, i, j - 1) = Joined(g, i, j - 1)
    BY DEF ReplayOf
  <2> HIDE DEF f, g
  <2>3. Joined(f, i, j) = Joined(f, i, j - 1) \o f[j]
    BY <1>2, JoinedUnfold
  <2>4. Joined(f, i, j - 1) = Joined(g, i, j - 1)
    <3>1. j - 1 \in Nat /\ j - 1 >= i - 1
      BY <1>2
    <3> QED
      BY <2>1, <3>1, JoinedAgree
  <2> QED
    BY <2>1, <2>2, <2>3, <2>4
<1> QED
  BY <1>1, <1>2

\* In two parts.
LEMMA ReplaySplit ==
  ASSUME NEW s \in Seq(Message), NEW v, NEW j \in 0..Len(s), NEW k \in 0..j
  PROVE  ReplayOf(s, v, 1, j) = ReplayOf(s, v, 1, k) \o ReplayOf(s, v, k + 1, j)
<1> DEFINE f == [n \in 1..j |-> Apply(s[n], v)]
           g == [n \in 1..k |-> Apply(s[n], v)]
           h == [n \in (k + 1)..j |-> Apply(s[n], v)]
<1>1. \A n \in 1..j : s[n] \in Message
  OBVIOUS
<1>2. \A n \in 1..j : f[n] \in Seq(Types)
  BY <1>1, ApplyType
<1>3. (\A n \in 1..k : g[n] = f[n]) /\ (\A n \in (k + 1)..j : h[n] = f[n])
  OBVIOUS
<1>4. /\ ReplayOf(s, v, 1, j) = Joined(f, 1, j)
      /\ ReplayOf(s, v, 1, k) = Joined(g, 1, k)
      /\ ReplayOf(s, v, k + 1, j) = Joined(h, k + 1, j)
  BY DEF ReplayOf
<1> HIDE DEF f, g, h
<1>5. /\ 1 \in Nat \ {0} /\ k + 1 \in Nat \ {0} /\ 1 - 1 <= k /\ k <= j /\ k \in Nat /\ j \in Nat
      /\ k >= 1 - 1 /\ j >= (k + 1) - 1
  OBVIOUS
<1>6. Joined(f, 1, j) = Joined(f, 1, k) \o Joined(f, k + 1, j)
  <2>1. ASSUME NEW i \in Nat \ {0}, i - 1 <= k, \A n \in i..j : f[n] \in Seq(Types)
        PROVE  Joined(f, i, j) = Joined(f, i, k) \o Joined(f, k + 1, j)
    <3>1. k \in Nat /\ j \in Nat /\ k <= j
      OBVIOUS
    <3> QED
      BY <2>1, <3>1, JoinedSplit
  <2> QED
    BY <1>2, <1>5, <2>1, Zenon
<1>7. Joined(g, 1, k) = Joined(f, 1, k)
  BY <1>3, <1>5, JoinedAgree
<1>8. Joined(h, k + 1, j) = Joined(f, k + 1, j)
  BY <1>3, <1>5, JoinedAgree
<1> QED
  BY <1>4, <1>6, <1>7, <1>8

\* The events that v declares, of those that a more complete view w replays,
\* are the ones that v replays.
LEMMA DeclaredReplay ==
  ASSUME NEW s \in Seq(Message), NEW v, NEW w, Known[v] \subseteq Known[w],
         NEW i \in Nat \ {0}, NEW j \in 0..Len(s), j >= i - 1
  PROVE  Declared(v, ReplayOf(s, w, i, j)) = ReplayOf(s, v, i, j)
<1> DEFINE Good(m) == Declared(v, ReplayOf(s, w, i, m)) = ReplayOf(s, v, i, m)
           Bad == {m \in Nat : m >= i - 1 /\ m <= j /\ ~Good(m)}
<1> SUFFICES ASSUME ~Good(j) PROVE FALSE
  OBVIOUS
<1>0. j \in Bad
  OBVIOUS
<1>1. PICK m \in Bad : \A n \in Bad : m <= n
  BY <1>0, LeastNat
<1>2. m \in Nat /\ m >= i - 1 /\ m <= j /\ ~Good(m)
  BY <1>1
<1>3. CASE m = i - 1
  <2>1. ReplayOf(s, w, i, m) = <<>> /\ ReplayOf(s, v, i, m) = <<>>
    BY <1>3, ReplayUnfold
  <2>2. Good(m)
    BY <2>1, DeclaredEmpty
  <2> QED
    BY <1>2, <2>2
<1>4. CASE m # i - 1
  <2>1. m >= i /\ m - 1 \in Nat /\ m - 1 >= i - 1 /\ m - 1 <= j /\ ~(m <= m - 1)
    BY <1>2, <1>4
  <2>2. Good(m - 1)
    BY <1>1, <2>1
  <2>3. /\ ReplayOf(s, w, i, m) = ReplayOf(s, w, i, m - 1) \o Apply(s[m], w)
        /\ ReplayOf(s, v, i, m) = ReplayOf(s, v, i, m - 1) \o Apply(s[m], v)
    BY <1>2, <2>1, ReplayUnfold
  <2>4. s[m] \in Message
    BY <1>2, <2>1
  <2>5. Apply(s[m], w) \in Seq(Types)
    BY <2>4, ApplyType
  <2>6. ReplayOf(s, w, i, m - 1) \in Seq(Types)
    <3>1. m - 1 \in 0..Len(s)
      BY <2>1
    <3> QED
      BY <2>1, <3>1, ReplayType
  <2>7. Declared(v, ReplayOf(s, w, i, m))
          = Declared(v, ReplayOf(s, w, i, m - 1)) \o Declared(v, Apply(s[m], w))
    BY <2>3, <2>5, <2>6, DeclaredConcat
  <2>8. Declared(v, Apply(s[m], w)) = Apply(s[m], v)
    <3>1. CASE IsKnown(s[m], w)
      <4>1. Apply(s[m], w) = Append(<<>>, s[m].type) /\ s[m].type \in Types /\ s[m].kind = "event"
        <5>1. Apply(s[m], w) = <<s[m].type>> /\ s[m].kind = "event"
          BY <3>1 DEF Apply, IsKnown
        <5>2. s[m].type \in Types
          BY <2>4, <5>1 DEF Message
        <5>3. <<s[m].type>> = Append(<<>>, s[m].type)
          OBVIOUS
        <5> QED
          BY <5>1, <5>2, <5>3
      <4>2. Declared(v, Append(<<>>, s[m].type)) = Declared(v, <<>>) \o Keep(v, s[m].type)
        BY <4>1, DeclaredAppend, EmptySeq
      <4>3. Keep(v, s[m].type) \in Seq(Types)
        BY <4>1 DEF Keep
      <4>4. Declared(v, Append(<<>>, s[m].type)) = Keep(v, s[m].type)
        BY <4>2, <4>3, DeclaredEmpty
      <4>5. Keep(v, s[m].type) = Apply(s[m], v)
        BY <4>1 DEF Keep, Apply, IsKnown
      <4> QED
        BY <4>1, <4>4, <4>5
    <3>2. CASE ~IsKnown(s[m], w)
      <4>1. ~IsKnown(s[m], v)
        BY <3>2 DEF IsKnown
      <4> QED
        BY <3>2, <4>1, DeclaredEmpty DEF Apply
    <3> QED
      BY <3>1, <3>2
  <2>9. Good(m)
    BY <2>2, <2>3, <2>7, <2>8
  <2> QED
    BY <1>2, <2>9
<1> QED
  BY <1>3, <1>4

\* The views whose events every view that writes declares too.
SafeViews == {v \in Views : \A w \in Writers : Known[v] \subseteq Known[w]}

\* A snapshot holds what the events before it make of these views.
Snaps(s) ==
  \A n \in DOMAIN s : s[n].kind = "snapshot" =>
    \A v \in SafeViews : Declared(v, s[n].state) = ReplayOf(s, v, 1, n)

\* The latest snapshot is one of the first n messages and a snapshot, or 0.
LEMMA LatestIs ==
  ASSUME NEW s, NEW n \in Nat
  PROVE  /\ LatestOf(s, n) \in 0..n
         /\ LatestOf(s, n) # 0 => s[LatestOf(s, n)].kind = "snapshot"
<1> DEFINE S == {0} \cup {i \in 1..n : s[i].kind = "snapshot"}
           Above == {m \in Nat : \A y \in S : y <= m}
<1>1. S \subseteq 0..n /\ 0 \in S
  OBVIOUS
<1>2. \A x \in S : x # 0 => s[x].kind = "snapshot"
  OBVIOUS
<1> HIDE DEF S
<1>3. n \in Above
  BY <1>1
<1>4. PICK m \in Above : \A k \in Above : m <= k
  BY <1>3, LeastNat
<1>5. m \in S
  <2>1. CASE m = 0
    BY <1>1, <2>1
  <2>2. CASE m # 0
    <3>1. m - 1 \in Nat /\ ~(m <= m - 1)
      BY <2>2
    <3>2. m - 1 \notin Above
      BY <1>4, <3>1
    <3>3. PICK y \in S : ~(y <= m - 1)
      BY <3>1, <3>2
    <3>4. y = m
      BY <1>1, <1>4, <3>1, <3>3
    <3> QED
      BY <3>4
  <2> QED
    BY <2>1, <2>2
<1>6. \A y \in S : m >= y
  BY <1>1, <1>4
<1>7. Max(S) \in S
  <2>1. Max(S) = CHOOSE x \in S : \A y \in S : x >= y
    BY DEF Max
  <2>2. \E x \in S : \A y \in S : x >= y
    BY <1>5, <1>6
  <2> QED
    BY <2>1, <2>2
<1>8. LatestOf(s, n) = Max(S)
  BY DEF LatestOf, S
<1> QED
  BY <1>1, <1>2, <1>7, <1>8

LEMMA LoadType ==
  ASSUME NEW s \in Seq(Message), NEW v, NEW n \in 0..Len(s)
  PROVE  /\ BaseOf(s, LatestOf(s, n)) \in Seq(Types)
         /\ ReplayOf(s, v, LatestOf(s, n) + 1, n) \in Seq(Types)
         /\ LoadOf(s, v, n) \in Seq(Types)
<1>1. PICK k : k = LatestOf(s, n)
  OBVIOUS
<1>2. k \in 0..n /\ k + 1 \in Nat \ {0} /\ n >= (k + 1) - 1 /\ (k # 0 => k \in 1..Len(s))
  BY <1>1, LatestIs
<1>3. BaseOf(s, k) \in Seq(Types)
  <2>1. k # 0 => s[k] \in Message
    BY <1>2
  <2> QED
    BY <2>1, EmptySeq DEF BaseOf, Message
<1>4. ReplayOf(s, v, k + 1, n) \in Seq(Types)
  BY <1>2, ReplayType
<1> QED
  BY <1>1, <1>3, <1>4 DEF LoadOf

\* Where every snapshot is right, what a base and the events after it give to a
\* view is what all the events give it.
LEMMA BaseAndRest ==
  ASSUME NEW s \in Seq(Message), Snaps(s), NEW v \in SafeViews, NEW n \in 0..Len(s),
         NEW k \in 0..n, k # 0 => s[k].kind = "snapshot",
         NEW r \in Seq(Types), Declared(v, r) = ReplayOf(s, v, k + 1, n)
  PROVE  Declared(v, BaseOf(s, k) \o r) = ReplayOf(s, v, 1, n)
<1>1. BaseOf(s, k) \in Seq(Types) /\ Declared(v, BaseOf(s, k)) = ReplayOf(s, v, 1, k)
  <2>1. CASE k = 0
    <3>1. \A i \in Nat \ {0} : ReplayOf(s, v, i, i - 1) = <<>>
      BY ReplayUnfold
    <3>2. ReplayOf(s, v, 1, 0) = <<>>
      <4>1. 1 \in Nat \ {0} /\ 1 - 1 = 0
        OBVIOUS
      <4> QED
        BY <3>1, <4>1, Zenon
    <3> QED
      BY <2>1, <3>2, DeclaredEmpty, EmptySeq DEF BaseOf
  <2>2. CASE k # 0
    <3>1. k \in DOMAIN s /\ s[k] \in Message
      BY <2>2
    <3>2. s[k].state \in Seq(Types)
      BY <3>1 DEF Message
    <3> QED
      BY <2>2, <3>1, <3>2 DEF BaseOf, Snaps
  <2> QED
    BY <2>1, <2>2
<1>2. Declared(v, BaseOf(s, k) \o r) = Declared(v, BaseOf(s, k)) \o Declared(v, r)
  BY <1>1, DeclaredConcat
<1>3. ReplayOf(s, v, 1, n) = ReplayOf(s, v, 1, k) \o ReplayOf(s, v, k + 1, n)
  BY ReplaySplit
<1> QED
  BY <1>1, <1>2, <1>3

\* Load, by a view w that knows what v knows, has all that v declares.
LEMMA LoadComplete ==
  ASSUME NEW s \in Seq(Message), Snaps(s), NEW v \in SafeViews, NEW w,
         Known[v] \subseteq Known[w], NEW n \in 0..Len(s)
  PROVE  Declared(v, LoadOf(s, w, n)) = ReplayOf(s, v, 1, n)
<1>1. PICK k : k = LatestOf(s, n)
  OBVIOUS
<1>2. k \in 0..n /\ k + 1 \in Nat \ {0} /\ n >= (k + 1) - 1 /\ (k # 0 => s[k].kind = "snapshot")
  BY <1>1, LatestIs
<1>3. PICK r : r = ReplayOf(s, w, k + 1, n)
  OBVIOUS
<1>4. Declared(v, r) = ReplayOf(s, v, k + 1, n)
  BY <1>2, <1>3, DeclaredReplay
<1>5. r \in Seq(Types)
  BY <1>2, <1>3, ReplayType
<1>6. Declared(v, BaseOf(s, k) \o r) = ReplayOf(s, v, 1, n)
  BY <1>2, <1>4, <1>5, BaseAndRest
<1> QED
  BY <1>1, <1>3, <1>6 DEF LoadOf

-----------------------------------------------------------------------------
(* The inductive invariant *)

\* The pcs of a call that has yielded what it has read, and may return nil.
Working == {"opening", "reading", "closing", "done"}

\* A reader is ahead of its start; the named consumer it reads from is its own.
PositionInv ==
  /\ pc = "opening" => at = Resume(IF start = 0 THEN 1 ELSE start)
  /\ pc \in Working => start <= at + 1
  /\ pc = "reading" /\ durable # NoDurable => durable.start = start
  /\ pc \in {"closing", "done"} /\ cut = "no" => at >= began

\* The first position of the window of a reader.
First == IF opts.include /\ start > 1 THEN start - 1 ELSE start

\* What has been yielded is what the reader may see, in order.
OutInv ==
  pc \in Working =>
    /\ \A i \in 1..at : i >= First /\ Yields(view, stream[i])
                          <=> \E j \in DOMAIN out : out[j] = i
    /\ \A j, k \in DOMAIN out : j < k => out[j] < out[k]

\* The types of the messages that have been yielded.
TypesRead == [j \in DOMAIN out |-> stream[out[j]].type]

StartBase == IF start = 0 THEN 0 ELSE start - 1

\* A typed reader with the default options has replayed its view from the
\* snapshot it started at.
ReadInv ==
  pc \in Working /\ view # "generic" /\ ~opts.skip /\ ~opts.include =>
    /\ StartBase # 0 => stream[StartBase].kind = "snapshot"
    /\ TypesRead = ReplayOf(stream, view, StartBase + 1, at)

StreamOK == stream \in Seq(Message)

HistoryInv == StreamOK /\ TypeOK /\ PositionInv /\ OutInv /\ ReadInv

\* The model's operators are those on sequences of messages, at the stream.
LEMMA AtStream ==
  /\ \A n : LastSnapshot(n) = LatestOf(stream, n)
  /\ \A n : Base(n) = BaseOf(stream, n)
  /\ \A v, i, j : Replay(v, i, j) = ReplayOf(stream, v, i, j)
  /\ \A v, n : Load(v, n) = LoadOf(stream, v, n)
BY DEF LastSnapshot, LatestOf, Base, BaseOf, Replay, ReplayOf, Load, LoadOf

\* What a Save stores.
LEMMA SaveEffect ==
  ASSUME StreamOK, NEW v, NEW t \in Types, Save(v, t)
  PROVE  /\ stream' \in Seq(Message)
         /\ Len(stream') \in (Len(stream) + 1)..(Len(stream) + 2)
         /\ \A n \in 1..Len(stream) : stream'[n] = stream[n]
         /\ stream'[Len(stream) + 1] = Event(t)
         /\ Len(stream') = Len(stream) + 2 =>
              stream'[Len(stream) + 2] = Snapshot(Append(LoadOf(stream, v, Len(stream)), t))
<1>1. PICK e : e = Event(t)
  OBVIOUS
<1>2. PICK p : p = Snapshot(Append(LoadOf(stream, v, Len(stream)), t))
  OBVIOUS
<1>3. Snapshot(StateToSave(v, t)) = p
  BY <1>2, AtStream DEF StateToSave
<1>4. e \in Message
  BY <1>1, EmptySeq DEF Event, Message
<1>5. p \in Message
  <2>1. LoadOf(stream, v, Len(stream)) \in Seq(Types)
    <3>1. Len(stream) \in 0..Len(stream)
      BY DEF StreamOK
    <3> QED
      BY <3>1, LoadType DEF StreamOK
  <2>2. Append(LoadOf(stream, v, Len(stream)), t) \in Seq(Types)
    BY <2>1
  <2> QED
    BY <1>2, <2>2 DEF Snapshot, Message
<1>6. stream' = stream \o <<e>> \o <<p>> \/ stream' = stream \o <<e>> \o <<>>
  BY <1>1, <1>3 DEF Save
<1>7. CASE stream' = stream \o <<e>> \o <<p>>
  <2>1. /\ stream' \in Seq(Message) /\ Len(stream') = Len(stream) + 2
        /\ \A n \in 1..Len(stream) : stream'[n] = stream[n]
        /\ stream'[Len(stream) + 1] = e /\ stream'[Len(stream) + 2] = p
        /\ Len(stream) \in Nat
    BY <1>4, <1>5, <1>7 DEF StreamOK
  <2> QED
    BY <1>1, <1>2, <2>1
<1>8. CASE stream' = stream \o <<e>> \o <<>>
  <2>1. /\ stream' \in Seq(Message) /\ Len(stream') = Len(stream) + 1
        /\ \A n \in 1..Len(stream) : stream'[n] = stream[n]
        /\ stream'[Len(stream) + 1] = e
        /\ Len(stream) \in Nat
    BY <1>4, <1>8 DEF StreamOK
  <2> QED
    BY <1>1, <2>1
<1> QED
  BY <1>6, <1>7, <1>8

\* A step that leaves the reader alone keeps what is known of it, even if the
\* stream grows.
LEMMA Frame ==
  ASSUME HistoryInv, stream' \in Seq(Message), Len(stream') >= Len(stream),
         \A n \in 1..Len(stream) : stream'[n] = stream[n],
         UNCHANGED <<explicit, view, opts, start, at, out>>,
         pc' \in Working => pc \in Working
  PROVE  OutInv' /\ ReadInv'
<1>1. at \in Nat /\ at <= Len(stream) /\ start \in Nat /\ out \in Seq(1..at) /\ Len(stream) \in Nat
  BY DEF HistoryInv, StreamOK, TypeOK
<1>2. \A i \in 1..at : stream'[i] = stream[i]
  BY <1>1
<1>3. OutInv'
  <2>1. \A i \in 1..at : Yields(view, stream[i])' <=> Yields(view, stream[i])
    BY <1>2 DEF Yields
  <2>2. First' = First
    BY DEF First
  <2> QED
    BY <2>1, <2>2 DEF OutInv, HistoryInv
<1>4. ReadInv'
  <2> SUFFICES ASSUME pc' \in Working, view # "generic", ~opts.skip, ~opts.include
               PROVE  /\ StartBase # 0 => stream'[StartBase].kind = "snapshot"
                      /\ TypesRead' = ReplayOf(stream', view, StartBase + 1, at)
    BY DEF ReadInv, StartBase
  <2>1. /\ StartBase # 0 => stream[StartBase].kind = "snapshot"
        /\ TypesRead = ReplayOf(stream, view, StartBase + 1, at)
    BY DEF HistoryInv, ReadInv
  <2>2. PICK b : b = StartBase
    OBVIOUS
  <2>3. b \in 0..at
    BY <1>1, <2>2 DEF StartBase, PositionInv, HistoryInv
  <2>4. ReplayOf(stream', view, b + 1, at) = ReplayOf(stream, view, b + 1, at)
    <3>1. b + 1 \in Nat \ {0} /\ at \in Nat /\ at >= (b + 1) - 1 /\ \A n \in (b + 1)..at : stream'[n] = stream[n]
      BY <1>1, <1>2, <2>3
    <3> QED
      BY <3>1, ReplayAgree
  <2>5. TypesRead' = TypesRead
    <3>1. \A j \in DOMAIN out : out[j] \in 1..at
      BY <1>1
    <3> QED
      BY <1>2, <3>1 DEF TypesRead
  <2>6. b # 0 => stream'[b] = stream[b]
    BY <1>2, <2>3
  <2> QED
    BY <2>1, <2>2, <2>4, <2>5, <2>6
<1> QED
  BY <1>3, <1>4

\* The first step of a call.
LEMMA BeginKeeps ==
  ASSUME HistoryAssumption, HistoryInv,
         NEW r \in Views \cup {"generic"}, NEW o \in Options, Begin(r, o)
  PROVE  HistoryInv'
<1>1. PICK last : last = FastPath(r, o)
  OBVIOUS
<1>2. PICK L : L = Len(stream)
  OBVIOUS
<1>3. L \in Nat /\ stream \in Seq(Message)
  BY <1>2 DEF HistoryInv, StreamOK
<1>4. /\ last \in 0..L
      /\ last # 0 => stream[last].kind = "snapshot" /\ r # "generic" /\ ~o.skip
  <2>1. LastSnapshot(L) = LatestOf(stream, L)
    BY AtStream
  <2>2. last = 0 \/ (last = LatestOf(stream, L) /\ r # "generic" /\ ~o.skip)
    BY <1>1, <1>2, <2>1 DEF FastPath
  <2>3. /\ LatestOf(stream, L) \in 0..L
        /\ LatestOf(stream, L) # 0 => stream[LatestOf(stream, L)].kind = "snapshot"
    BY <1>3, LatestIs
  <2> QED
    BY <1>3, <2>2, <2>3
<1>6. /\ view' = r /\ opts' = o
      /\ start' = IF r = "generic" THEN 1 ELSE IF last = 0 THEN 0 ELSE last + 1
      /\ last > 0 /\ o.include /\ explicit => out' = <<last>>
      /\ ~(last > 0 /\ o.include /\ explicit) => out' = <<>>
      /\ at' = last /\ began' = L
      /\ cut' \in {"no", "caller"}
      /\ pc' \in {"refused", "done", "opening"}
      /\ pc' \in Working /\ last > 0 /\ o.include => explicit
      /\ pc' = "done" => cut' = "caller"
      /\ UNCHANGED <<stream, explicit, named, durable, crashes>>
  BY <1>1, <1>2 DEF Begin, Working
<1>7. o.include \in BOOLEAN /\ o.skip \in BOOLEAN
  BY DEF Options
<1>8. TypeOK'
  <2>1. out' \in Seq(1..last)
    <3>1. CASE last > 0 /\ o.include /\ explicit
      <4>1. out' = <<last>> /\ last \in 1..last
        BY <1>4, <1>6, <3>1
      <4> QED
        BY <4>1
    <3>2. CASE ~(last > 0 /\ o.include /\ explicit)
      BY <1>6, <3>2, EmptySeq
    <3> QED
      BY <3>1, <3>2
  <2>2. start' \in 0..(L + 1)
    BY <1>3, <1>4, <1>6
  <2> QED
    BY <1>2, <1>3, <1>4, <1>6, <2>1, <2>2 DEF HistoryInv, TypeOK
<1>9. PositionInv'
  BY <1>3, <1>4, <1>6 DEF PositionInv, Resume, Working
<1>10. OutInv'
  <2> SUFFICES ASSUME pc' \in Working
               PROVE  /\ \A i \in 1..last : i >= First' /\ Yields(view, stream[i])'
                                              <=> \E j \in DOMAIN out' : out'[j] = i
                      /\ \A j, k \in DOMAIN out' : j < k => out'[j] < out'[k]
    BY <1>6 DEF OutInv
  <2>1. First' = IF o.include /\ start' > 1 THEN start' - 1 ELSE start'
    BY <1>6 DEF First
  <2>2. CASE last = 0
    <3>1. out' = <<>> /\ 1..last = {}
      BY <1>6, <2>2
    <3> QED
      BY <3>1
  <2>3. CASE last # 0 /\ o.include
    <3>0. last > 0
      BY <1>4, <2>3
    <3>1. explicit /\ out' = <<last>> /\ start' = last + 1
      BY <1>4, <1>6, <2>3, <3>0
    <3>2. First' = last
      BY <1>4, <2>1, <2>3, <3>1
    <3>3. Yields(view, stream[last])'
      BY <1>4, <1>6, <2>3, <3>1 DEF Yields
    <3>4. DOMAIN out' = {1} /\ out'[1] = last
      BY <3>1
    <3>5. \A i \in 1..last : i >= First' <=> i = last
      BY <1>4, <3>2
    <3>6. \A i \in 1..last : i = last => (Yields(view, stream[i])' <=> Yields(view, stream[last])')
      BY <1>6
    <3> QED
      BY <3>3, <3>4, <3>5, <3>6
  <2>4. CASE last # 0 /\ ~o.include
    <3>1. out' = <<>> /\ start' = last + 1
      BY <1>4, <1>6, <2>4
    <3>2. First' = last + 1
      BY <2>1, <2>4, <3>1
    <3>3. \A i \in 1..last : ~(i >= First')
      BY <1>4, <3>2
    <3> QED
      BY <3>1, <3>3
  <2> QED
    BY <2>2, <2>3, <2>4
<1>11. ReadInv'
  <2> SUFFICES ASSUME pc' \in Working, r # "generic", ~o.skip, ~o.include
               PROVE  /\ StartBase' # 0 => stream[StartBase'].kind = "snapshot"
                      /\ TypesRead' = ReplayOf(stream, r, StartBase' + 1, last)
    BY <1>6 DEF ReadInv
  <2>1. StartBase' = last
    BY <1>4, <1>6 DEF StartBase
  <2>2. TypesRead' = <<>>
    <3>1. out' = <<>>
      BY <1>6
    <3> QED
      BY <3>1 DEF TypesRead
  <2>3. ReplayOf(stream, r, last + 1, last) = <<>>
    <3>1. \A i \in Nat \ {0} : ReplayOf(stream, r, i, i - 1) = <<>>
      BY ReplayUnfold
    <3>2. last + 1 \in Nat \ {0} /\ (last + 1) - 1 = last
      BY <1>3, <1>4
    <3> QED
      BY <3>1, <3>2, Zenon
  <2> QED
    BY <1>4, <2>1, <2>2, <2>3
<1> QED
  BY <1>3, <1>6, <1>8, <1>9, <1>10, <1>11 DEF HistoryInv, StreamOK

\* One message is read.
LEMMA ReadKeeps ==
  ASSUME HistoryAssumption, HistoryInv, Read
  PROVE  HistoryInv'
<1>1. /\ pc = "reading" /\ at \in Nat /\ at < Len(stream) /\ Len(stream) \in Nat
      /\ stream \in Seq(Message) /\ start \in Nat /\ start <= at + 1 /\ out \in Seq(1..at)
      /\ began \in 0..Len(stream)
  BY DEF HistoryInv, StreamOK, TypeOK, PositionInv, Read, Working
<1>2. PICK n : n = at + 1
  OBVIOUS
<1>3. n \in 1..Len(stream) /\ n \in Nat /\ n - 1 = at /\ stream[n] \in Message /\ start <= n
  BY <1>1, <1>2
<1>4. PICK y \in BOOLEAN : y = Yields(view, stream[n])
  BY DEF Yields
<1>5. /\ at' = n
      /\ out' = IF y THEN Append(out, n) ELSE out
      /\ cut' \in {"no", "caller"}
      /\ pc' \in {"closing", "reading"}
      /\ pc' = "closing" /\ cut' = "no" => n = Len(stream)
      /\ durable' = IF named THEN [durable EXCEPT !.next = n + 1] ELSE durable
      /\ named => durable # NoDurable
      /\ UNCHANGED <<stream, explicit, named, view, opts, start, began, crashes>>
  BY <1>2, <1>4 DEF Read, LastOne
<1>6. out' \in Seq(1..n)
  <2>1. out \in Seq(1..n)
    BY <1>1, <1>2
  <2>2. CASE y
    <3>1. out' = Append(out, n) /\ n \in 1..n
      BY <1>3, <1>5, <2>2
    <3> QED
      BY <2>1, <3>1
  <2>3. CASE ~y
    BY <1>5, <2>1, <2>3
  <2> QED
    BY <2>2, <2>3
<1>7. durable' \in [start : 0..(Len(stream) + 1), next : 0..(Len(stream) + 1)]
      /\ (durable' # NoDurable => named /\ durable'.next >= durable'.start)
      /\ (durable' # NoDurable => durable'.start = start)
  <2>1. /\ durable \in [start : 0..(Len(stream) + 1), next : 0..(Len(stream) + 1)]
        /\ durable # NoDurable => named /\ durable.start = start
    BY <1>1 DEF HistoryInv, TypeOK, PositionInv
  <2>2. CASE named
    <3>1. durable' = [start |-> durable.start, next |-> n + 1]
      BY <1>5, <2>1, <2>2
    <3>2. durable.start = start /\ durable.start \in 0..(Len(stream) + 1)
      BY <1>5, <2>1, <2>2
    <3>3. n + 1 \in 0..(Len(stream) + 1) /\ n + 1 >= start
      BY <1>1, <1>3
    <3> QED
      BY <2>2, <3>1, <3>2, <3>3
  <2>3. CASE ~named
    BY <1>5, <2>1, <2>3
  <2> QED
    BY <2>2, <2>3
<1>8. TypeOK'
  <2>1. at' \in 0..Len(stream)' /\ out' \in Seq(1..at')
    BY <1>1, <1>3, <1>5, <1>6
  <2>2. pc' \in {"idle", "opening", "reading", "closing", "done", "failed", "refused"}
        /\ cut' \in {"no", "caller", "error"}
    BY <1>5
  <2>3. durable' \in [start : 0..(Len(stream)' + 1), next : 0..(Len(stream)' + 1)]
        /\ (durable' # NoDurable => named' /\ durable'.next >= durable'.start)
    BY <1>5, <1>7
  <2> QED
    BY <1>5, <2>1, <2>2, <2>3 DEF HistoryInv, TypeOK
<1>9. PositionInv'
  BY <1>1, <1>3, <1>5, <1>7 DEF PositionInv, Working
<1>10. OutInv'
  <2>1. /\ \A i \in 1..at : i >= First /\ Yields(view, stream[i])
                              <=> \E j \in DOMAIN out : out[j] = i
        /\ \A j, k \in DOMAIN out : j < k => out[j] < out[k]
    BY <1>1 DEF HistoryInv, OutInv, Working
  <2>2. First' = First /\ n >= First
    BY <1>1, <1>3, <1>5 DEF First
  <2>3. \A i \in 1..n : Yields(view, stream[i])' <=> Yields(view, stream[i])
    BY <1>5 DEF Yields
  <2>4. \A j \in DOMAIN out : out[j] \in 1..at
    BY <1>1
  <2>5. \A i \in 1..n : i >= First /\ Yields(view, stream[i])
                          <=> \E j \in DOMAIN out' : out'[j] = i
    <3>1. CASE y
      <4>1. /\ DOMAIN out' = DOMAIN out \cup {Len(out) + 1} /\ out'[Len(out) + 1] = n
            /\ \A j \in DOMAIN out : out'[j] = out[j]
        BY <1>1, <1>5, <3>1
      <4>2. ASSUME NEW i \in 1..n
            PROVE  i >= First /\ Yields(view, stream[i]) <=> \E j \in DOMAIN out' : out'[j] = i
        <5>1. CASE i = n
          BY <1>4, <2>2, <3>1, <4>1, <5>1
        <5>2. CASE i # n
          <6>1. i \in 1..at
            BY <1>1, <1>3, <5>2
          <6>2. (\E j \in DOMAIN out' : out'[j] = i) <=> (\E j \in DOMAIN out : out[j] = i)
            BY <4>1, <5>2
          <6> QED
            BY <2>1, <6>1, <6>2
        <5> QED
          BY <5>1, <5>2
      <4> QED
        BY <4>2
    <3>2. CASE ~y
      <4>1. out' = out /\ ~(\E j \in DOMAIN out : out[j] = n)
        BY <1>1, <1>3, <1>5, <2>4, <3>2
      <4>2. ASSUME NEW i \in 1..n
            PROVE  i >= First /\ Yields(view, stream[i]) <=> \E j \in DOMAIN out' : out'[j] = i
        <5>1. CASE i = n
          BY <1>4, <3>2, <4>1, <5>1
        <5>2. CASE i # n
          <6>1. i \in 1..at
            BY <1>1, <1>3, <5>2
          <6> QED
            BY <2>1, <4>1, <6>1
        <5> QED
          BY <5>1, <5>2
      <4> QED
        BY <4>2
    <3> QED
      BY <3>1, <3>2
  <2>6. \A j, k \in DOMAIN out' : j < k => out'[j] < out'[k]
    <3>1. CASE y
      <4>1. /\ DOMAIN out' = DOMAIN out \cup {Len(out) + 1} /\ out'[Len(out) + 1] = n
            /\ \A j \in DOMAIN out : out'[j] = out[j] /\ j \in 1..Len(out) /\ Len(out) \in Nat
        BY <1>1, <1>5, <3>1
      <4>2. \A j \in DOMAIN out : out'[j] < n
        BY <1>1, <1>3, <2>4, <4>1
      <4> QED
        BY <2>1, <4>1, <4>2
    <3>2. CASE ~y
      BY <1>5, <2>1, <3>2
    <3> QED
      BY <3>1, <3>2
  <2> QED
    BY <1>5, <2>2, <2>3, <2>5, <2>6 DEF OutInv
<1>11. ReadInv'
  <2> SUFFICES ASSUME view # "generic", ~opts.skip, ~opts.include
               PROVE  /\ StartBase # 0 => stream[StartBase].kind = "snapshot"
                      /\ TypesRead' = ReplayOf(stream, view, StartBase + 1, n)
    BY <1>5 DEF ReadInv, StartBase
  <2>1. /\ StartBase # 0 => stream[StartBase].kind = "snapshot"
        /\ TypesRead = ReplayOf(stream, view, StartBase + 1, at)
    BY <1>1 DEF HistoryInv, ReadInv, Working
  <2>2. PICK b : b = StartBase
    OBVIOUS
  <2>3. b \in 0..at /\ b + 1 \in Nat \ {0} /\ n >= b + 1
    BY <1>1, <1>3, <2>2 DEF StartBase
  <2>4. ReplayOf(stream, view, b + 1, n) = ReplayOf(stream, view, b + 1, at) \o Apply(stream[n], view)
    BY <1>3, <2>3, ReplayUnfold
  <2>5. Apply(stream[n], view) = IF y THEN <<stream[n].type>> ELSE <<>>
    BY <1>4 DEF Apply, IsKnown, Yields
  <2>6. TypesRead' = TypesRead \o Apply(stream[n], view)
    <3>1. TypesRead \in Seq(Types)
      <4>1. at \in 0..Len(stream) /\ at >= (b + 1) - 1
        BY <1>1, <2>3
      <4> QED
        BY <1>1, <2>1, <2>2, <2>3, <4>1, ReplayType
    <3>2. Len(TypesRead) = Len(out)
      BY <1>1 DEF TypesRead
    <3>3. CASE y
      <4>1. stream[n].type \in Types
        BY <1>3, <1>4, <3>3 DEF Yields, Message
      <4>2. TypesRead' = Append(TypesRead, stream[n].type)
        BY <1>1, <1>5, <3>3 DEF TypesRead
      <4> QED
        BY <2>5, <3>1, <3>3, <4>1, <4>2
    <3>4. CASE ~y
      <4>1. TypesRead' = TypesRead
        BY <1>5, <3>4 DEF TypesRead
      <4> QED
        BY <2>5, <3>1, <3>4, <4>1
    <3> QED
      BY <3>3, <3>4
  <2> QED
    BY <2>1, <2>2, <2>4, <2>6
<1> QED
  BY <1>1, <1>5, <1>8, <1>9, <1>10, <1>11 DEF HistoryInv, StreamOK

\* Initially.
LEMMA HistoryInit ==
  ASSUME HistoryAssumption, Init
  PROVE  HistoryInv
<1>1. stream = <<>> /\ out = <<>> /\ Len(stream) = 0 /\ at = 0 /\ start = 0 /\ pc = "idle"
  BY DEF Init
<1>2. StreamOK
  BY <1>1, EmptySeq DEF StreamOK
<1>3. TypeOK
  <2>1. out \in Seq(1..at) /\ durable \in [start : 0..(Len(stream) + 1), next : 0..(Len(stream) + 1)]
    BY <1>1, EmptySeq DEF Init, NoDurable
  <2> QED
    BY <1>1, <2>1 DEF Init, TypeOK, HistoryAssumption, Options
<1>4. PositionInv /\ OutInv /\ ReadInv
  BY <1>1 DEF PositionInv, OutInv, ReadInv, Working
<1> QED
  BY <1>2, <1>3, <1>4 DEF HistoryInv

\* Every step keeps the invariant.
LEMMA HistoryStep ==
  ASSUME HistoryAssumption, HistoryInv, [Next]_vars
  PROVE  HistoryInv'
<1> USE DEF HistoryInv
<1>0. stream \in Seq(Message) /\ Len(stream) \in Nat /\ TypeOK /\ PositionInv
  BY DEF StreamOK
<1>1. ASSUME NEW v \in Writers, NEW t \in Types, Save(v, t)
      PROVE  HistoryInv'
  <2>1. /\ stream' \in Seq(Message)
        /\ Len(stream') \in Nat /\ Len(stream') >= Len(stream)
        /\ \A n \in 1..Len(stream) : stream'[n] = stream[n]
    BY <1>0, <1>1, SaveEffect
  <2>2. durable' = NoDurable /\ UNCHANGED <<explicit, named, pc, at, readVars, crashes>>
    BY <1>1 DEF Save
  <2>3. OutInv' /\ ReadInv'
    BY <2>1, <2>2, Frame DEF readVars
  <2>4. TypeOK'
    <3>1. \A i \in DOMAIN stream' :
            \/ stream'[i].kind = "event" /\ stream'[i].type \in Types
            \/ stream'[i].kind = "snapshot" /\ stream'[i].state \in Seq(Types)
      <4>1. \A i \in DOMAIN stream' : stream'[i] \in Message
        BY <2>1
      <4> QED
        BY <4>1 DEF Message
    <3>2. durable' \in [start : 0..(Len(stream') + 1), next : 0..(Len(stream') + 1)]
      BY <2>1, <2>2 DEF NoDurable
    <3>3. start' \in 0..(Len(stream') + 1) /\ at' \in 0..Len(stream') /\ began' \in 0..Len(stream')
      BY <1>0, <2>1, <2>2 DEF TypeOK, readVars
    <3> QED
      BY <1>0, <2>2, <3>1, <3>2, <3>3 DEF TypeOK, readVars
  <2>5. PositionInv'
    BY <1>0, <2>2 DEF PositionInv, readVars
  <2> QED
    BY <2>1, <2>3, <2>4, <2>5 DEF StreamOK
<1>2. ASSUME NEW r \in Views \cup {"generic"}, NEW o \in Options, Begin(r, o)
      PROVE  HistoryInv'
  BY <1>2, BeginKeeps
<1>3. CASE Open
  <2>1. PICK mine : mine = [start |-> start, next |-> IF start = 0 THEN 1 ELSE start]
    OBVIOUS
  <2>2. /\ pc = "opening"
        /\ at' = Resume(mine.next)
        /\ durable' = IF named THEN mine ELSE durable
        /\ pc' = IF at' = Len(stream) THEN "closing" ELSE "reading"
        /\ UNCHANGED <<stream, explicit, named, readVars, crashes>>
    BY <1>3, <2>1 DEF Open, Existing, LastOne
  <2>3. at' = at
    BY <1>0, <2>1, <2>2 DEF PositionInv
  <2>4. OutInv' /\ ReadInv'
    <3>1. pc \in Working /\ Len(stream') >= Len(stream)
      BY <1>0, <2>2 DEF Working
    <3> QED
      BY <1>0, <2>2, <2>3, <3>1, Frame DEF readVars
  <2>5. start \in 0..(Len(stream) + 1)
    BY <1>0 DEF TypeOK
  <2>6. /\ durable' \in [start : 0..(Len(stream) + 1), next : 0..(Len(stream) + 1)]
        /\ durable' # NoDurable => named /\ durable'.next >= durable'.start /\ durable'.start = start
    <3>1. CASE named
      BY <1>0, <2>1, <2>2, <2>5, <3>1
    <3>2. CASE ~named
      BY <1>0, <2>2, <3>2 DEF TypeOK
    <3> QED
      BY <3>1, <3>2
  <2>7. TypeOK'
    BY <1>0, <2>2, <2>3, <2>6 DEF TypeOK, readVars
  <2>8. PositionInv'
    BY <1>0, <2>2, <2>3, <2>6 DEF PositionInv, TypeOK, Working, readVars
  <2> QED
    BY <1>0, <2>2, <2>4, <2>7, <2>8 DEF StreamOK
<1>4. ASSUME /\ UNCHANGED <<stream, explicit, named, view, opts, start, at, out, began>>
             /\ durable' \in {durable, NoDurable}
             /\ pc' \in {"idle", "opening", "reading", "closing", "done", "failed", "refused"}
             /\ pc' = pc \/ pc' \notin Working \/ (pc' = "closing" /\ pc = "reading" /\ cut' # "no")
                  \/ (pc' = "done" /\ pc = "closing" /\ cut' = cut)
             /\ cut' = cut \/ cut' = "error"
             /\ crashes' \in 0..MaxCrashes
      PROVE  HistoryInv'
  <2>1. OutInv' /\ ReadInv'
    <3>1. (pc' \in Working => pc \in Working) /\ Len(stream') >= Len(stream)
      BY <1>0, <1>4 DEF Working
    <3> QED
      BY <1>0, <1>4, <3>1, Frame
  <2>2. TypeOK'
    <3>1. /\ durable' \in [start : 0..(Len(stream) + 1), next : 0..(Len(stream) + 1)]
          /\ durable' # NoDurable => named /\ durable'.next >= durable'.start
      BY <1>0, <1>4 DEF TypeOK, NoDurable
    <3> QED
      BY <1>0, <1>4, <3>1 DEF TypeOK
  <2>3. PositionInv'
    BY <1>0, <1>4 DEF PositionInv, Working
  <2> QED
    BY <1>0, <1>4, <2>1, <2>2, <2>3 DEF StreamOK
<1>5. crashes \in 0..MaxCrashes /\ cut \in {"no", "caller", "error"}
  BY <1>0 DEF TypeOK
<1>6. CASE OpenFails
  BY <1>4, <1>5, <1>6 DEF OpenFails, Working
<1>7. CASE Read
  BY <1>7, ReadKeeps
<1>8. CASE Interrupted
  BY <1>4, <1>5, <1>8 DEF Interrupted, Working
<1>9. CASE Close
  BY <1>4, <1>5, <1>9 DEF Close, Working, readVars
<1>10. CASE Crash
  <2>1. crashes' \in 0..MaxCrashes
    BY <1>5, <1>10 DEF Crash, HistoryAssumption
  <2> QED
    BY <1>4, <1>10, <2>1 DEF Crash, Working, readVars
<1>11. CASE Inactive
  <2>1. pc' = pc /\ pc \in {"idle", "opening", "reading", "closing", "done", "failed", "refused"}
    BY <1>0, <1>11 DEF Inactive, TypeOK
  <2> QED
    BY <1>4, <1>5, <1>11, <2>1 DEF Inactive, readVars
<1>12. CASE UNCHANGED vars
  <2>1. pc' = pc /\ pc \in {"idle", "opening", "reading", "closing", "done", "failed", "refused"}
    BY <1>0, <1>12 DEF vars, TypeOK
  <2> QED
    BY <1>4, <1>5, <1>12, <2>1 DEF vars, readVars
<1> QED
  BY <1>1, <1>2, <1>3, <1>6, <1>7, <1>8, <1>9, <1>10, <1>11, <1>12 DEF Next

-----------------------------------------------------------------------------
(* The theorems *)

\* The inductive invariant: the stream holds well-formed messages, a reader is
\* where its consumer is, and what it has yielded is what its window holds.
THEOREM HistoryInvariant == Spec => []HistoryInv
<1>1. Init => HistoryInv
  BY HistoryAssumption, HistoryInit
<1>2. HistoryInv /\ [Next]_vars => HistoryInv'
  BY HistoryAssumption, HistoryStep
<1> QED
  BY <1>1, <1>2, PTL DEF Spec

\* The stream, the consumer and the reader are always well formed.
THEOREM HistoryTypeCorrect == Spec => []TypeOK
<1>1. HistoryInv => TypeOK
  BY DEF HistoryInv
<1> QED
  BY <1>1, HistoryInvariant, PTL

\* A call that returns without an error has yielded every message of its window
\* that its reader may see, once each and in order, and unless its caller
\* stopped it up to what was stored when it began.
THEOREM StreamsAreHistory == Spec => []StreamIsHistory
<1>1. HistoryInv => StreamIsHistory
  BY DEF HistoryInv, PositionInv, OutInv, StreamIsHistory, Working, First
<1> QED
  BY <1>1, HistoryInvariant, PTL

SnapshotsRight == Snaps(stream)

\* A Save stores a snapshot that is right for every safe view.
LEMMA SaveKeepsSnapshots ==
  ASSUME StreamOK, Snaps(stream),
         NEW w \in Writers, NEW t \in Types, Save(w, t)
  PROVE  Snaps(stream')
<1>1. PICK L : L = Len(stream)
  OBVIOUS
<1>2. stream \in Seq(Message) /\ L \in Nat /\ L \in 0..Len(stream)
  BY <1>1 DEF StreamOK
<1>3. /\ stream' \in Seq(Message)
      /\ Len(stream') \in (L + 1)..(L + 2)
      /\ \A n \in 1..L : stream'[n] = stream[n]
      /\ stream'[L + 1] = Event(t)
      /\ Len(stream') = L + 2 => stream'[L + 2] = Snapshot(Append(LoadOf(stream, w, L), t))
  BY <1>1, SaveEffect
<1>4. SUFFICES ASSUME NEW n \in DOMAIN stream', stream'[n].kind = "snapshot", NEW v \in SafeViews
               PROVE  Declared(v, stream'[n].state) = ReplayOf(stream', v, 1, n)
  BY DEF Snaps
<1>5. n \in 1..L \/ n = L + 1 \/ (n = L + 2 /\ Len(stream') = L + 2)
  BY <1>2, <1>3
<1>6. CASE n \in 1..L
  <2>1. stream'[n] = stream[n] /\ n \in DOMAIN stream
    BY <1>1, <1>2, <1>3, <1>6
  <2>2. Declared(v, stream[n].state) = ReplayOf(stream, v, 1, n)
    BY <1>4, <2>1 DEF Snaps
  <2>3. ReplayOf(stream', v, 1, n) = ReplayOf(stream, v, 1, n)
    <3>1. 1 \in Nat \ {0} /\ n \in Nat /\ n >= 1 - 1 /\ \A i \in 1..n : stream'[i] = stream[i]
      BY <1>2, <1>3, <1>6
    <3> QED
      BY <3>1, ReplayAgree
  <2> QED
    BY <2>1, <2>2, <2>3
<1>7. CASE n = L + 1
  BY <1>3, <1>4, <1>7 DEF Event
<1>8. CASE n = L + 2 /\ Len(stream') = L + 2
  <2>1. PICK x : x = LoadOf(stream, w, L)
    OBVIOUS
  <2>2. x \in Seq(Types)
    BY <1>2, <2>1, LoadType
  <2>3. stream'[n] = Snapshot(Append(x, t))
    BY <1>3, <1>8, <2>1
  <2>4. Declared(v, x) = ReplayOf(stream, v, 1, L)
    BY <1>2, <2>1, LoadComplete DEF SafeViews
  <2>5. Declared(v, Append(x, t)) = ReplayOf(stream, v, 1, L) \o Keep(v, t)
    BY <2>2, <2>4, DeclaredAppend
  <2>6. ReplayOf(stream', v, 1, L) = ReplayOf(stream, v, 1, L)
    <3>1. 1 \in Nat \ {0} /\ L \in Nat /\ L >= 1 - 1 /\ \A i \in 1..L : stream'[i] = stream[i]
      BY <1>2, <1>3
    <3> QED
      BY <3>1, ReplayAgree
  <2>7. \A i \in Nat \ {0} : \A j \in Nat : j >= i =>
          ReplayOf(stream', v, i, j) = ReplayOf(stream', v, i, j - 1) \o Apply(stream'[j], v)
    BY ReplayUnfold
  <2>8. ReplayOf(stream', v, 1, L + 1) = ReplayOf(stream', v, 1, L) \o Apply(stream'[L + 1], v)
    <3>1. 1 \in Nat \ {0} /\ L + 1 \in Nat /\ L + 1 >= 1 /\ (L + 1) - 1 = L
      BY <1>2
    <3> QED
      BY <2>7, <3>1, Zenon
  <2>9. ReplayOf(stream', v, 1, L + 2) = ReplayOf(stream', v, 1, L + 1) \o Apply(stream'[L + 2], v)
    <3>1. 1 \in Nat \ {0} /\ L + 2 \in Nat /\ L + 2 >= 1 /\ (L + 2) - 1 = L + 1
      BY <1>2
    <3> QED
      BY <2>7, <3>1, Zenon
  <2>10. Apply(stream'[L + 1], v) = Keep(v, t)
    BY <1>3 DEF Apply, IsKnown, Event, Keep
  <2>11. Apply(stream'[L + 2], v) = <<>>
    <3>1. stream'[L + 2].kind = "snapshot"
      BY <1>4, <1>8
    <3> QED
      BY <3>1 DEF Apply, IsKnown
  <2>12. ReplayOf(stream', v, 1, L + 1) \in Seq(Types)
    <3>1. 1 \in Nat \ {0} /\ L + 1 \in 0..Len(stream') /\ L + 1 >= 1 - 1
      BY <1>2, <1>3
    <3> QED
      BY <1>3, <3>1, ReplayType
  <2>13. ReplayOf(stream', v, 1, L + 2) = ReplayOf(stream', v, 1, L + 1)
    BY <2>9, <2>11, <2>12, ConcatEmptySeq
  <2>14. stream'[n].state = Append(x, t)
    <3>1. \A y : Snapshot(y).state = y
      BY DEF Snapshot
    <3> QED
      BY <2>3, <3>1
  <2> QED
    BY <1>8, <2>5, <2>6, <2>8, <2>10, <2>13, <2>14
<1> QED
  BY <1>5, <1>6, <1>7, <1>8

\* No other step writes to the stream.
LEMMA SnapshotsStep ==
  ASSUME HistoryInv, SnapshotsRight, [Next]_vars
  PROVE  SnapshotsRight'
<1>1. ASSUME NEW w \in Writers, NEW t \in Types, Save(w, t)
      PROVE  SnapshotsRight'
  BY <1>1, SaveKeepsSnapshots DEF SnapshotsRight, HistoryInv
<1>2. ASSUME stream' = stream
      PROVE  SnapshotsRight'
  BY <1>2 DEF SnapshotsRight
<1>3. ASSUME NEW r \in Views \cup {"generic"}, NEW o \in Options, Begin(r, o)
      PROVE  SnapshotsRight'
  BY <1>2, <1>3 DEF Begin
<1>4. CASE Open \/ OpenFails \/ Read \/ Interrupted \/ Close \/ Crash \/ Inactive \/ UNCHANGED vars
  BY <1>2, <1>4 DEF Open, OpenFails, Read, Interrupted, Close, Crash, Inactive, vars
<1> QED
  BY <1>1, <1>3, <1>4 DEF Next

\* A snapshot holds, for every safe view, what all the events before it make of
\* that view: snapshotForSave writes down nothing stale and loses nothing.
THEOREM SnapshotsAreRight == Spec => []SnapshotsRight
<1>1. Init => SnapshotsRight
  BY DEF Init, SnapshotsRight, Snaps
<1>2. HistoryInv /\ SnapshotsRight /\ [Next]_vars => SnapshotsRight'
  BY SnapshotsStep
<1> QED
  BY <1>1, <1>2, HistoryInvariant, PTL DEF Spec

\* LoadsDeclared and StreamMatchesLoad, where they hold whoever writes.
SafeLoads ==
  \A v \in SafeViews :
    Declared(v, Load(v, Len(stream))) = Replay(v, 1, Len(stream))
SafeStreams == view \in SafeViews => StreamMatchesLoad

\* Load rebuilds a safe view from all the events of the types it declares,
\* however many snapshots were taken, and by whom.
THEOREM SafeViewsLoad == Spec => []SafeLoads
<1>1. HistoryInv /\ SnapshotsRight => SafeLoads
  <2> SUFFICES ASSUME HistoryInv, SnapshotsRight, NEW v \in SafeViews
               PROVE  Declared(v, LoadOf(stream, v, Len(stream)))
                        = ReplayOf(stream, v, 1, Len(stream))
    BY AtStream DEF SafeLoads
  <2>1. stream \in Seq(Message) /\ Len(stream) \in 0..Len(stream) /\ Snaps(stream)
    BY DEF HistoryInv, StreamOK, SnapshotsRight
  <2> QED
    BY <2>1, LoadComplete
<1> QED
  BY <1>1, HistoryInvariant, SnapshotsAreRight, PTL

\* What a typed reader with the default options streams to a safe view is, on
\* top of the snapshot it started at, what Load builds, even if snapshots were
\* taken meanwhile.
THEOREM SafeViewsStream == Spec => []SafeStreams
<1>1. HistoryInv /\ SnapshotsRight => SafeStreams
  <2> SUFFICES ASSUME HistoryInv, SnapshotsRight, view \in SafeViews, pc = "done", cut = "no",
                      view # "generic", ~opts.skip, ~opts.include
               PROVE  Declared(view, BaseOf(stream, StartBase) \o TypesRead)
                        = Declared(view, LoadOf(stream, view, at))
    BY AtStream DEF SafeStreams, StreamMatchesLoad, StartBase, TypesRead
  <2>1. /\ stream \in Seq(Message) /\ Snaps(stream)
        /\ at \in 0..Len(stream) /\ start \in Nat /\ start <= at + 1 /\ Len(stream) \in Nat
        /\ StartBase # 0 => stream[StartBase].kind = "snapshot"
        /\ TypesRead = ReplayOf(stream, view, StartBase + 1, at)
    BY DEF HistoryInv, StreamOK, SnapshotsRight, TypeOK, PositionInv, ReadInv, Working
  <2>2. PICK b : b = StartBase
    OBVIOUS
  <2>3. PICK r : r = TypesRead
    OBVIOUS
  <2>4. b \in 0..at /\ b + 1 \in Nat \ {0} /\ at >= (b + 1) - 1
    BY <2>1, <2>2 DEF StartBase
  <2>5. r \in Seq(Types)
    BY <2>1, <2>2, <2>3, <2>4, ReplayType
  <2>6. Declared(view, r) = ReplayOf(stream, view, b + 1, at)
    BY <2>1, <2>2, <2>3, <2>4, DeclaredReplay
  <2>7. Declared(view, BaseOf(stream, b) \o r) = ReplayOf(stream, view, 1, at)
    BY <2>1, <2>2, <2>4, <2>5, <2>6, BaseAndRest
  <2>8. Declared(view, LoadOf(stream, view, at)) = ReplayOf(stream, view, 1, at)
    BY <2>1, LoadComplete
  <2> QED
    BY <2>2, <2>3, <2>7, <2>8
<1> QED
  BY <1>1, HistoryInvariant, SnapshotsAreRight, PTL

\* Every view that writes declares all that the other views declare.
WritersDeclareAll == \A w \in Writers, v \in Views : Known[v] \subseteq Known[w]

\* Then LoadsDeclared holds: Load rebuilds every view from all the events of
\* the types it declares.
THEOREM LoadsAreDeclared ==
  ASSUME WritersDeclareAll
  PROVE  Spec => []LoadsDeclared
<1>1. SafeLoads => LoadsDeclared
  BY DEF SafeLoads, LoadsDeclared, SafeViews, WritersDeclareAll
<1> QED
  BY <1>1, SafeViewsLoad, PTL

\* And StreamMatchesLoad: the streamed events, on top of the snapshot that
\* Stream started at, give the aggregate that Load builds.
THEOREM StreamsMatchLoad ==
  ASSUME WritersDeclareAll
  PROVE  Spec => []StreamMatchesLoad
<1>1. HistoryInv /\ SafeStreams => StreamMatchesLoad
  <2>1. HistoryInv /\ view # "generic" => view \in SafeViews
    BY DEF HistoryInv, TypeOK, SafeViews, WritersDeclareAll
  <2> QED
    BY <2>1 DEF SafeStreams, StreamMatchesLoad
<1> QED
  BY <1>1, HistoryInvariant, SafeViewsStream, PTL
=============================================================================
