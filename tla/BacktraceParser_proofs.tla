------------------------ MODULE BacktraceParser_proofs ------------------------
(***************************************************************************)
(* What TLAPS proves of BacktraceParser: for any kinds of lines, however   *)
(* many there are and whenever somebody asks, what gdb's parser shows and  *)
(* what it rates is what the whole output says, read at once.              *)
(*                                                                         *)
(* The reference definitions select lines of the output by their rank, so  *)
(* the argument is about ranks first: those of the lines so far stay when  *)
(* a line comes after them, and when all from some line on are dropped.    *)
(* Then come the threads, which a line either continues or begins, and the *)
(* flags that parseLine() keeps for the thread it is in, the one line by   *)
(* which newLine() is behind, and the loop that rates the frames.          *)
(***************************************************************************)
EXTENDS BacktraceParser, FiniteSetTheorems, TLAPS

-----------------------------------------------------------------------------
(* Ranks. *)

Rank(S, i) == Cardinality({j \in S : j <= i})

\* The rank of a line among others counts from 1 and tells them apart.
LEMMA RankIsOneToOne ==
  ASSUME NEW n \in Nat, NEW S \in SUBSET (1 .. n)
  PROVE  /\ IsFiniteSet(S) /\ Cardinality(S) \in Nat
         /\ \A i \in S : Rank(S, i) \in 1 .. Cardinality(S)
         /\ \A i, j \in S : i < j => Rank(S, i) < Rank(S, j)
<1> DEFINE Upto(i) == {j \in S : j <= i}
<1>1. IsFiniteSet(S) /\ Cardinality(S) \in Nat
  <2>1. IsFiniteSet(1 .. n)
    BY FS_Interval
  <2> QED BY <2>1, FS_Subset, FS_CardinalityType
<1>2. ASSUME NEW i \in S
      PROVE  /\ IsFiniteSet(Upto(i)) /\ Cardinality(Upto(i)) \in Nat
             /\ Cardinality(Upto(i)) <= Cardinality(S)
             /\ Cardinality(Upto(i)) # 0
  <2>1. Upto(i) \in SUBSET S
    OBVIOUS
  <2>2. i \in Upto(i)
    OBVIOUS
  <2> HIDE DEF Upto
  <2> QED BY <1>1, <2>1, <2>2, FS_Subset, FS_CardinalityType, FS_EmptySet
<1>3. ASSUME NEW i \in S, NEW j \in S, i < j
      PROVE  Cardinality(Upto(i)) < Cardinality(Upto(j))
  <2>1. \A k \in S : k \in Int
    OBVIOUS
  <2>2. Upto(i) \in SUBSET Upto(j)
    <3>1. ASSUME NEW k \in S, k <= i PROVE k <= j
      BY <1>3, <2>1, <3>1
    <3> QED BY <3>1
  <2>3. j \in Upto(j) /\ j \notin Upto(i)
    BY <1>3, <2>1
  <2> HIDE DEF Upto
  <2> QED BY <1>2, <2>2, <2>3, FS_Subset
<1> QED BY <1>1, <1>2, <1>3 DEF Rank

\* There is one of every rank.
LEMMA NthHasRank ==
  ASSUME NEW n \in Nat, NEW S \in SUBSET (1 .. n), NEW k \in 1 .. Cardinality(S)
  PROVE  Nth(S, k) \in S /\ Rank(S, Nth(S, k)) = k
<1> DEFINE r == [i \in S |-> Rank(S, i)]
           T == 1 .. Cardinality(S)
<1>1. /\ IsFiniteSet(S) /\ Cardinality(S) \in Nat
      /\ \A i \in S : Rank(S, i) \in T
      /\ \A i, j \in S : i < j => Rank(S, i) < Rank(S, j)
  BY RankIsOneToOne
<1>2. IsFiniteSet(T) /\ Cardinality(T) = Cardinality(S)
  BY <1>1, FS_Interval
<1>3. r \in Injection(S, T)
  <2>1. r \in [S -> T]
    BY <1>1
  <2>2. ASSUME NEW i \in S, NEW j \in S, r[i] = r[j] PROVE i = j
    <3>1. i \in Int /\ j \in Int /\ Rank(S, i) \in Int /\ Rank(S, j) \in Int
      BY <1>1
    <3>2. Rank(S, i) = Rank(S, j)
      BY <2>2
    <3>3. ~(i < j) /\ ~(j < i)
      BY <1>1, <3>1, <3>2
    <3> QED BY <3>1, <3>3
  <2> QED BY <2>1, <2>2 DEF Injection, IsInjective
<1>4. r \in Surjection(S, T)
  BY <1>2, <1>3, FS_Injection
<1>5. PICK i \in S : r[i] = k
  BY <1>4 DEF Surjection
<1>6. \E x \in S : Cardinality({j \in S : j <= x}) = k
  BY <1>5 DEF Rank
<1> QED BY <1>6 DEF Nth, Rank

\* And only one.
LEMMA NthOfRank ==
  ASSUME NEW n \in Nat, NEW S \in SUBSET (1 .. n), NEW i \in S
  PROVE  Nth(S, Rank(S, i)) = i
<1> DEFINE x == Nth(S, Rank(S, i))
<1>1. Rank(S, i) \in 1 .. Cardinality(S)
  BY RankIsOneToOne
<1>2. x \in S /\ Rank(S, x) = Rank(S, i)
  BY <1>1, NthHasRank
<1> HIDE DEF x
<1>3. x \in Int /\ i \in Int /\ Rank(S, x) \in Int /\ Rank(S, i) \in Int
  BY <1>1, <1>2
<1>4. ~(x < i) /\ ~(i < x)
  <2>1. \A a, b \in S : a < b => Rank(S, a) < Rank(S, b)
    BY RankIsOneToOne
  <2> QED BY <1>2, <1>3, <2>1
<1> QED BY <1>3, <1>4 DEF x

\* What is selected depends on nothing else.
LEMMA SelectSame ==
  ASSUME NEW n \in Nat, NEW S \in SUBSET (1 .. n), NEW v, NEW w, \A i \in S : v[i] = w[i]
  PROVE  Selected(v, S) = Selected(w, S)
BY NthHasRank DEF Selected

\* Selecting yields a sequence of what there is.
LEMMA SelectType ==
  ASSUME NEW X, NEW n \in Nat, NEW S \in SUBSET (1 .. n), NEW w, \A i \in S : w[i] \in X
  PROVE  Selected(w, S) \in Seq(X) /\ Len(Selected(w, S)) = Cardinality(S)
<1> DEFINE s == Selected(w, S)
<1>1. Cardinality(S) \in Nat
  BY RankIsOneToOne
<1>2. s \in [1 .. Cardinality(S) -> X]
  BY NthHasRank DEF Selected
<1> HIDE DEF s
<1>3. s \in Seq(X) /\ Len(s) = Cardinality(S)
  BY <1>1, <1>2
<1> QED BY <1>3 DEF s

\* A line after all others has the next rank and changes no other.  (The premises
\* have a name, by which the provers find the instance.)
OneAfter(n, S, T, v, w) ==
    /\ n \in Nat /\ S \in SUBSET (1 .. n) /\ T = S \cup {n + 1}
    /\ \A i \in S : v[i] = w[i]

LEMMA SelectMore ==
  ASSUME NEW n, NEW S, NEW T, NEW v, NEW w, OneAfter(n, S, T, v, w)
  PROVE  /\ Selected(v, T) = Append(Selected(w, S), v[n + 1])
         /\ Cardinality(T) = Cardinality(S) + 1
<1> USE DEF OneAfter
<1> DEFINE c == Cardinality(S)
           s == Selected(w, S)
           t == Selected(v, T)
           X == {w[i] : i \in S}
<1>1. T \in SUBSET (1 .. n + 1) /\ n + 1 \in Nat /\ n + 1 \notin S /\ n + 1 \in T
  OBVIOUS
<1>2. IsFiniteSet(S) /\ c \in Nat
  BY RankIsOneToOne
<1>3. Cardinality(T) = c + 1
  BY <1>1, <1>2, FS_AddElement
<1>4. ASSUME NEW i \in S PROVE Rank(T, i) = Rank(S, i)
  <2>1. {j \in T : j <= i} = {j \in S : j <= i}
    OBVIOUS
  <2> QED BY <2>1 DEF Rank
<1>5. Rank(T, n + 1) = c + 1
  <2>1. {j \in T : j <= n + 1} = T
    <3>1. \A j \in T : j <= n + 1
      OBVIOUS
    <3> QED BY <3>1
  <2> QED BY <1>3, <2>1 DEF Rank
<1>6. s \in Seq(X) /\ Len(s) = c
  <2>1. \A i \in S : w[i] \in X
    OBVIOUS
  <2> HIDE DEF X
  <2> QED BY <2>1, SelectType
<1> HIDE DEF X
<1>7. ASSUME NEW k \in 1 .. c PROVE t[k] = s[k]
  <2>1. Nth(S, k) \in S /\ Rank(S, Nth(S, k)) = k
    BY NthHasRank
  <2>2. Nth(T, k) = Nth(S, k)
    <3>1. Nth(S, k) \in T /\ Rank(T, Nth(S, k)) = k
      BY <1>4, <2>1
    <3>2. Nth(T, Rank(T, Nth(S, k))) = Nth(S, k)
      BY <1>1, <3>1, NthOfRank
    <3> QED BY <3>1, <3>2
  <2>3. k \in 1 .. c + 1
    BY <1>2
  <2>4. t[k] = v[Nth(T, k)]
    <3>1. k \in 1 .. Cardinality(T)
      BY <1>3, <2>3
    <3> QED BY <3>1 DEF Selected
  <2>5. s[k] = w[Nth(S, k)]
    BY DEF Selected
  <2> QED BY <2>1, <2>2, <2>4, <2>5
<1>8. t[c + 1] = v[n + 1]
  <2>1. Nth(T, c + 1) = n + 1
    BY <1>1, <1>5, NthOfRank
  <2>2. c + 1 \in 1 .. c + 1
    BY <1>2
  <2> QED BY <1>3, <2>1, <2>2 DEF Selected
<1>9. t = [k \in 1 .. c + 1 |-> t[k]]
  BY <1>3 DEF Selected
<1> HIDE DEF s, t, c
<1>10. t = Append(s, v[n + 1])
  <2>1. Append(s, v[n + 1]) = [k \in 1 .. c + 1 |-> IF k = c + 1 THEN v[n + 1] ELSE s[k]]
    BY <1>2, <1>6
  <2>2. ASSUME NEW k \in 1 .. c + 1
        PROVE  t[k] = IF k = c + 1 THEN v[n + 1] ELSE s[k]
    <3>1. k = c + 1 \/ k \in 1 .. c
      BY <1>2
    <3> QED BY <1>2, <1>7, <1>8, <3>1
  <2> QED BY <1>9, <2>1, <2>2
<1> QED BY <1>3, <1>10 DEF s, t, c

\* Without the lines from some line on, the others keep their ranks.
LEMMA SelectFirst ==
  ASSUME NEW n \in Nat, NEW S \in SUBSET (1 .. n), NEW w, NEW m \in Nat
  PROVE  LET T == {i \in S : i <= m}
         IN  SubSeq(Selected(w, S), 1, Cardinality(T)) = Selected(w, T)
<1> DEFINE T == {i \in S : i <= m}
           c == Cardinality(T)
           s == Selected(w, S)
           t == Selected(w, T)
           X == {w[i] : i \in S}
<1>1. T \in SUBSET (1 .. n) /\ T \in SUBSET S
  OBVIOUS
<1>2. IsFiniteSet(S) /\ Cardinality(S) \in Nat /\ c \in Nat /\ c <= Cardinality(S)
  BY <1>1, RankIsOneToOne, FS_Subset
<1>3. ASSUME NEW i \in T PROVE Rank(T, i) = Rank(S, i)
  <2>1. {j \in T : j <= i} = {j \in S : j <= i}
    <3>1. ASSUME NEW j \in S, j <= i PROVE j \in T
      BY <3>1
    <3> QED BY <3>1
  <2> QED BY <2>1 DEF Rank
<1>4. s \in Seq(X) /\ Len(s) = Cardinality(S)
  <2>1. \A i \in S : w[i] \in X
    OBVIOUS
  <2> HIDE DEF X
  <2> QED BY <2>1, SelectType
<1> HIDE DEF T, X
<1>5. ASSUME NEW k \in 1 .. c PROVE t[k] = s[k]
  <2>1. Nth(T, k) \in T /\ Rank(T, Nth(T, k)) = k
    BY <1>1, NthHasRank
  <2>2. Nth(S, k) = Nth(T, k)
    BY <1>1, <1>3, <2>1, NthOfRank
  <2>3. k \in 1 .. Cardinality(S)
    BY <1>2
  <2> QED BY <2>2, <2>3 DEF Selected
<1>6. t = [k \in 1 .. c |-> t[k]]
  BY DEF Selected
<1> HIDE DEF s, t, c
<1>7. SubSeq(s, 1, c) = [k \in 1 .. c |-> s[k]]
  BY <1>2, <1>4
<1>8. SubSeq(s, 1, c) = t
  BY <1>5, <1>6, <1>7
<1> QED BY <1>8 DEF s, t, c, T

-----------------------------------------------------------------------------
(* One more line. *)

Kinds == Frames \cup OtherLines \cup {"unknown"}

\* The output so far, and with the next line.
LEMMA OneMore ==
  ASSUME NEW w \in Seq(Kinds), NEW line \in Kinds
  PROVE  LET v == Append(w, line)
         IN  /\ v \in Seq(Kinds) /\ Len(w) \in Nat /\ Len(v) = Len(w) + 1
             /\ DOMAIN w = 1 .. Len(w) /\ DOMAIN v = 1 .. Len(w) + 1
             /\ \A i \in 1 .. Len(w) : v[i] = w[i]
             /\ v[Len(w) + 1] = line
OBVIOUS

\* t is where the thread of line i begins, 0 if nobody said.
IsThread(w, i, t) ==
    /\ t \in 0 .. i
    /\ t > 0 => w[t] = "thread"
    /\ \A j \in t + 1 .. i : w[j] # "thread"

Threaded(w) == \A i \in 0 .. Len(w) : IsThread(w, i, ThreadOf(w, i))

\* There is but one such line.
LEMMA ThreadIsOne ==
  ASSUME NEW w, NEW i \in Nat, NEW t, IsThread(w, i, t)
  PROVE  ThreadOf(w, i) = t
<1>1. ASSUME NEW u, IsThread(w, i, u) PROVE u = t
  <2>1. t \in Nat /\ u \in Nat /\ t <= i /\ u <= i
    BY <1>1 DEF IsThread
  <2>2. ~(t < u)
    <3>1. t < u => u > 0 /\ u \in t + 1 .. i
      BY <2>1
    <3> QED BY <1>1, <3>1 DEF IsThread
  <2>3. ~(u < t)
    <3>1. u < t => t > 0 /\ t \in u + 1 .. i
      BY <2>1
    <3> QED BY <1>1, <3>1 DEF IsThread
  <2> QED BY <2>1, <2>2, <2>3
<1>2. ThreadOf(w, i) = CHOOSE u \in 0 .. i : IsThread(w, i, u)
  <2>1. \A u \in 0 .. i : IsThread(w, i, u) <=> /\ u > 0 => w[u] = "thread"
                                                /\ \A j \in u + 1 .. i : w[j] # "thread"
    BY DEF IsThread
  <2> QED BY <2>1 DEF ThreadOf
<1>3. t \in 0 .. i
  BY DEF IsThread
<1> QED BY <1>1, <1>2, <1>3

\* The line where the thread of the last line begins, and the lines of that thread.
Current(w) == ThreadOf(w, Len(w))

LEMMA CurrentLines ==
  ASSUME NEW w \in Seq(Kinds), Threaded(w), NEW i \in 1 .. Len(w)
  PROVE  /\ Current(w) \in 0 .. Len(w) /\ ThreadOf(w, i) \in 0 .. i
         /\ ThreadOf(w, i) = Current(w) <=> Current(w) <= i
         /\ Current(w) < i => w[i] # "thread"
<1> DEFINE c == Current(w)
<1>1. Len(w) \in Nat /\ i \in 0 .. Len(w) /\ Len(w) \in 0 .. Len(w) /\ i \in Nat
  OBVIOUS
<1>2. IsThread(w, Len(w), c) /\ IsThread(w, i, ThreadOf(w, i))
  BY <1>1 DEF Threaded, Current
<1>3. c \in Nat /\ c <= Len(w) /\ ThreadOf(w, i) \in Nat /\ ThreadOf(w, i) <= i
  BY <1>1, <1>2 DEF IsThread
<1> HIDE DEF c
<1>4. ASSUME c <= i PROVE ThreadOf(w, i) = c
  <2>1. IsThread(w, i, c)
    <3>1. \A j \in c + 1 .. i : j \in c + 1 .. Len(w)
      BY <1>1, <1>3
    <3>2. c \in 0 .. i
      BY <1>1, <1>3, <1>4
    <3> QED BY <1>2, <3>1, <3>2 DEF IsThread
  <2> QED BY <1>1, <2>1, ThreadIsOne
<1>5. c < i => i \in c + 1 .. Len(w)
  BY <1>1, <1>3
<1> QED BY <1>1, <1>2, <1>3, <1>4, <1>5 DEF c, IsThread

\* A line belongs to the current thread or begins one; the others stay where they are.
LEMMA OneMoreThread ==
  ASSUME NEW w \in Seq(Kinds), NEW line \in Kinds, Threaded(w)
  PROVE  LET v == Append(w, line)
         IN  /\ Threaded(v)
             /\ \A i \in 0 .. Len(w) : ThreadOf(v, i) = ThreadOf(w, i)
             /\ Current(v) = IF line = "thread" THEN Len(w) + 1 ELSE Current(w)
<1> DEFINE v == Append(w, line)
           n == Len(w) + 1
           c == Current(w)
<1>1. /\ v \in Seq(Kinds) /\ Len(w) \in Nat /\ Len(v) = n /\ v[n] = line
      /\ \A i \in 1 .. Len(w) : v[i] = w[i]
  BY OneMore
<1> HIDE DEF v
<1>2. ASSUME NEW i \in 0 .. Len(w)
      PROVE  IsThread(v, i, ThreadOf(w, i)) /\ ThreadOf(v, i) = ThreadOf(w, i)
  <2>1. IsThread(w, i, ThreadOf(w, i)) /\ i \in Nat /\ i <= Len(w)
    BY <1>1 DEF Threaded
  <2>2. ThreadOf(w, i) \in 0 .. i
    BY <2>1 DEF IsThread
  <2>3. \A j \in 1 .. i : v[j] = w[j]
    BY <1>1, <2>1
  <2>4. \A j \in ThreadOf(w, i) + 1 .. i : j \in 1 .. i
    BY <2>1, <2>2
  <2>5. ThreadOf(w, i) > 0 => ThreadOf(w, i) \in 1 .. i
    BY <2>1, <2>2
  <2>6. IsThread(v, i, ThreadOf(w, i))
    BY <2>1, <2>3, <2>4, <2>5 DEF IsThread
  <2> QED BY <2>1, <2>6, ThreadIsOne
<1>3. LET t == IF line = "thread" THEN n ELSE c
      IN  IsThread(v, n, t) /\ ThreadOf(v, n) = t
  <2>1. CASE line = "thread"
    <3>1. IsThread(v, n, n)
      BY <1>1, <2>1 DEF IsThread
    <3>2. n \in Nat
      BY <1>1
    <3> QED BY <2>1, <3>1, <3>2, ThreadIsOne
  <2>2. CASE line # "thread"
    <3>1. IsThread(w, Len(w), c)
      BY <1>1 DEF Threaded, Current
    <3>2. c \in 0 .. Len(w)
      BY <3>1 DEF IsThread
    <3>3. \A j \in c + 1 .. n : (j \in c + 1 .. Len(w) /\ j \in 1 .. Len(w)) \/ j = n
      BY <1>1, <3>2
    <3>4. c > 0 => c \in 1 .. Len(w)
      BY <1>1, <3>2
    <3>5. c \in 0 .. n /\ n \in Nat
      BY <1>1, <3>2
    <3> HIDE DEF c, n
    <3>6. IsThread(v, n, c)
      BY <1>1, <2>2, <3>1, <3>3, <3>4, <3>5 DEF IsThread
    <3> QED BY <2>2, <3>5, <3>6, ThreadIsOne
  <2> QED BY <2>1, <2>2
<1>4. Threaded(v)
  <2>1. \A i \in 0 .. n : i \in 0 .. Len(w) \/ i = n
    BY <1>1
  <2> QED BY <1>1, <1>2, <1>3, <2>1 DEF Threaded
<1> QED BY <1>1, <1>2, <1>3, <1>4 DEF v, Current

\* What was said of the lines so far, but whether they are hidden.
LEMMA OneMoreSays ==
  ASSUME NEW w \in Seq(Kinds), NEW line \in Kinds, Threaded(w), NEW i \in 1 .. Len(w)
  PROVE  LET v == Append(w, line)
         IN  /\ HandlersAbove(v, i) = HandlersAbove(w, i)
             /\ IsRepeat(v, i) = IsRepeat(w, i)
             /\ Message(v)[i] = Message(w)[i]
<1> DEFINE v == Append(w, line)
<1>1. /\ Len(w) \in Nat /\ DOMAIN w = 1 .. Len(w) /\ DOMAIN v = 1 .. Len(w) + 1
      /\ \A j \in 1 .. Len(w) : v[j] = w[j]
  BY OneMore
<1>2. \A j \in 0 .. Len(w) : ThreadOf(v, j) = ThreadOf(w, j)
  BY OneMoreThread
<1> HIDE DEF v
<1>3. \A j \in 1 .. i - 1 : j \in 1 .. Len(w) /\ j \in 0 .. Len(w)
  BY <1>1
<1>4. i \in 0 .. Len(w) /\ i \in 1 .. Len(w) + 1
  BY <1>1
<1>5. HandlersAbove(v, i) = HandlersAbove(w, i)
  BY <1>1, <1>2, <1>3, <1>4 DEF HandlersAbove
<1>6. IsRepeat(v, i) = IsRepeat(w, i)
  BY <1>1, <1>2, <1>3, <1>4 DEF IsRepeat
<1>7. Message(v)[i] = Message(w)[i]
  BY <1>1, <1>4, <1>5 DEF Message
<1> QED BY <1>5, <1>6, <1>7 DEF v

-----------------------------------------------------------------------------
(* What one more line does to what is shown and what is rated. *)

\* The current thread has had KCrash's handler, or a frame #0.
SeenHandler(w) == \E h \in 1 .. Len(w) : w[h] = "handler" /\ ThreadOf(w, h) = Current(w)
SeenFirst(w) == \E j \in 1 .. Len(w) : w[j] = "first" /\ ThreadOf(w, j) = Current(w)

\* A handler hides what its thread had above it, nothing else hides anything.
LEMMA OneMoreHides ==
  ASSUME NEW w \in Seq(Kinds), NEW line \in Kinds, Threaded(w), NEW i \in 1 .. Len(w)
  PROVE  IsHidden(Append(w, line), i) <=>
            \/ IsHidden(w, i)
            \/ /\ line = "handler" /\ w[i] \notin {"thread", "handler"}
               /\ HandlersAbove(w, i) = {} /\ ThreadOf(w, i) = Current(w)
<1> DEFINE v == Append(w, line)
           n == Len(w) + 1
<1>1. /\ Len(w) \in Nat /\ Len(v) = n /\ v[n] = line
      /\ \A j \in 1 .. Len(w) : v[j] = w[j]
  BY OneMore
<1>2. /\ \A j \in 0 .. Len(w) : ThreadOf(v, j) = ThreadOf(w, j)
      /\ Current(v) = IF line = "thread" THEN n ELSE Current(w)
  BY OneMoreThread
<1>3. HandlersAbove(v, i) = HandlersAbove(w, i)
  BY OneMoreSays
<1> HIDE DEF v
<1>4. ThreadOf(v, n) = Current(v)
  BY <1>1 DEF Current
<1>5. i \in 0 .. Len(w) /\ n \in i + 1 .. n /\ v[i] = w[i]
  BY <1>1
<1>6. \A h \in i + 1 .. n : h = n \/ (h \in i + 1 .. Len(w) /\ h \in 1 .. Len(w) /\ h \in 0 .. Len(w))
  BY <1>1
<1>7. \A h \in i + 1 .. Len(w) : h \in i + 1 .. n /\ h \in 1 .. Len(w) /\ h \in 0 .. Len(w)
  BY <1>1
<1>8. (\E h \in i + 1 .. n : v[h] = "handler" /\ ThreadOf(v, h) = ThreadOf(v, i))
      <=> \/ \E h \in i + 1 .. Len(w) : w[h] = "handler" /\ ThreadOf(w, h) = ThreadOf(w, i)
          \/ line = "handler" /\ ThreadOf(w, i) = Current(w)
  <2> HIDE DEF n
  <2> QED BY <1>1, <1>2, <1>4, <1>5, <1>6, <1>7
<1> HIDE DEF n
<1>9. IsHidden(v, i) <=>
         /\ w[i] \notin {"thread", "handler"} /\ HandlersAbove(w, i) = {}
         /\ \E h \in i + 1 .. n : v[h] = "handler" /\ ThreadOf(v, h) = ThreadOf(v, i)
  BY <1>1, <1>3, <1>5 DEF IsHidden
<1>10. IsHidden(w, i) <=>
         /\ w[i] \notin {"thread", "handler"} /\ HandlersAbove(w, i) = {}
         /\ \E h \in i + 1 .. Len(w) : w[h] = "handler" /\ ThreadOf(w, h) = ThreadOf(w, i)
  BY DEF IsHidden
<1> QED BY <1>8, <1>9, <1>10 DEF v

\* The new line itself.
LEMMA NewestLine ==
  ASSUME NEW w \in Seq(Kinds), NEW line \in Kinds, Threaded(w)
  PROVE  LET v == Append(w, line)
             n == Len(w) + 1
         IN  /\ ~IsHidden(v, n)
             /\ IsRepeat(v, n) <=> line = "first" /\ SeenFirst(w)
             /\ HandlersAbove(v, n) # {} <=> line # "thread" /\ SeenHandler(w)
             /\ SeenHandler(v) <=> line # "thread" /\ (SeenHandler(w) \/ line = "handler")
             /\ SeenFirst(v) <=> line # "thread" /\ (SeenFirst(w) \/ line = "first")
             /\ Message(v)[n] = IF line = "handler" /\ ~SeenHandler(w) THEN "kcrash" ELSE line
<1> DEFINE v == Append(w, line)
           n == Len(w) + 1
<1>1. /\ Len(w) \in Nat /\ Len(v) = n /\ v[n] = line /\ DOMAIN v = 1 .. n
      /\ \A j \in 1 .. Len(w) : v[j] = w[j]
  BY OneMore
<1>2. /\ \A j \in 0 .. Len(w) : ThreadOf(v, j) = ThreadOf(w, j)
      /\ Current(v) = IF line = "thread" THEN n ELSE Current(w)
  BY OneMoreThread
<1>3. \A j \in 1 .. Len(w) : ThreadOf(w, j) \in 0 .. j
  BY CurrentLines
<1> HIDE DEF v
<1>4. ThreadOf(v, n) = Current(v)
  BY <1>1 DEF Current
<1>5. n - 1 = Len(w) /\ n \in 1 .. n /\ n + 1 .. n = {} /\ n \notin 1 .. Len(w)
  BY <1>1
<1>6. \A j \in 1 .. n : j = n \/ j \in 1 .. Len(w)
  BY <1>1
<1>7. \A j \in 1 .. Len(w) : j \in 0 .. Len(w) /\ j \in 1 .. n
  BY <1>1
<1>8. \A j \in 1 .. Len(w) : line = "thread" => ThreadOf(v, j) # n
  <2>1. ASSUME NEW j \in 1 .. Len(w) PROVE ThreadOf(w, j) # n
    BY <1>1, <1>3
  <2> QED BY <1>2, <1>7, <2>1
<1>9. \A j \in 1 .. Len(w) : /\ v[j] = w[j]
                             /\ ThreadOf(v, j) = Current(v)
                                <=> line # "thread" /\ ThreadOf(w, j) = Current(w)
  BY <1>1, <1>2, <1>7, <1>8
<1> HIDE DEF n
<1>10. ~IsHidden(v, n)
  BY <1>1, <1>5 DEF IsHidden
<1>11. HandlersAbove(v, n) # {} <=> line # "thread" /\ SeenHandler(w)
  BY <1>4, <1>5, <1>9 DEF HandlersAbove, SeenHandler
<1>12. IsRepeat(v, n) <=> line = "first" /\ SeenFirst(w)
  BY <1>1, <1>4, <1>5, <1>9 DEF IsRepeat, FrameZero, SeenFirst
<1>13. SeenHandler(v) <=> line # "thread" /\ (SeenHandler(w) \/ line = "handler")
  BY <1>1, <1>4, <1>5, <1>6, <1>7, <1>9 DEF SeenHandler
<1>14. SeenFirst(v) <=> line # "thread" /\ (SeenFirst(w) \/ line = "first")
  BY <1>1, <1>4, <1>5, <1>6, <1>7, <1>9 DEF SeenFirst
<1>15. Message(v)[n] = IF line = "handler" /\ ~SeenHandler(w) THEN "kcrash" ELSE line
  BY <1>1, <1>5, <1>11 DEF Message
<1> QED BY <1>10, <1>11, <1>12, <1>13, <1>14, <1>15 DEF v, n

\* The shown lines: all so far and the new one, unless it is a repeat or no line of the
\* trace, or the first handler of its thread.
LEMMA OneMoreShown ==
  ASSUME NEW w \in Seq(Kinds), NEW line \in Kinds, Threaded(w)
  PROVE  LET n == Len(w) + 1
         IN  ShownIn(Append(w, line)) =
                IF line = "info" \/ (line = "first" /\ SeenFirst(w)) THEN ShownIn(w)
                ELSE IF line = "handler" /\ ~SeenHandler(w)
                THEN {i \in ShownIn(w) : i <= Current(w)} \cup {n}
                ELSE ShownIn(w) \cup {n}
<1> DEFINE v == Append(w, line)
           n == Len(w) + 1
           Hides(i) == /\ line = "handler" /\ w[i] \notin {"thread", "handler"}
                       /\ HandlersAbove(w, i) = {} /\ ThreadOf(w, i) = Current(w)
<1>1. /\ Len(w) \in Nat /\ v[n] = line /\ DOMAIN v = 1 .. n /\ DOMAIN w = 1 .. Len(w)
      /\ \A j \in 1 .. Len(w) : v[j] = w[j]
  BY OneMore
<1>2. \A i \in 1 .. Len(w) : IsRepeat(v, i) = IsRepeat(w, i)
  BY OneMoreSays
<1>3. \A i \in 1 .. Len(w) : IsHidden(v, i) <=> IsHidden(w, i) \/ Hides(i)
  BY OneMoreHides
<1>4. ~IsHidden(v, n) /\ (IsRepeat(v, n) <=> line = "first" /\ SeenFirst(w))
  BY NewestLine
<1>5. /\ Current(w) \in Nat
      /\ \A i \in 1 .. Len(w) : ThreadOf(w, i) = Current(w) <=> Current(w) <= i
      /\ \A i \in 1 .. Len(w) : Current(w) < i => w[i] # "thread"
  <2>1. Current(w) \in Nat
    <3>1. IsThread(w, Len(w), Current(w)) /\ Len(w) \in Nat
      BY <1>1 DEF Threaded, Current
    <3> QED BY <3>1 DEF IsThread
  <2> QED BY <2>1, CurrentLines
<1> HIDE DEF v
<1>6. n \notin 1 .. Len(w) /\ 1 .. n = 1 .. Len(w) \cup {n}
  BY <1>1
<1> HIDE DEF n
<1>7. n \in ShownIn(v) <=> line # "info" /\ ~(line = "first" /\ SeenFirst(w))
  BY <1>1, <1>4, <1>6 DEF ShownIn
<1>8. \A i \in 1 .. Len(w) : i \in ShownIn(v) <=> i \in ShownIn(w) /\ ~Hides(i)
  BY <1>1, <1>2, <1>3, <1>6 DEF ShownIn
<1>9. ShownIn(v) \subseteq 1 .. Len(w) \cup {n} /\ ShownIn(w) \subseteq 1 .. Len(w)
  BY <1>1, <1>6 DEF ShownIn
<1>10. CASE line = "handler" /\ ~SeenHandler(w)
  <2>1. ASSUME NEW i \in 1 .. Len(w), i \in ShownIn(w)
        PROVE  ~Hides(i) <=> i <= Current(w)
    <3>1. CASE i < Current(w)
      BY <1>5, <3>1
    <3>2. CASE i = Current(w)
      <4>1. w[i] = "thread"
        <5>1. IsThread(w, Len(w), Current(w)) /\ i > 0
          BY <1>1 DEF Threaded, Current
        <5> QED BY <3>2, <5>1 DEF IsThread
      <4> QED BY <1>5, <3>2, <4>1
    <3>3. CASE Current(w) < i
      <4>1. ThreadOf(w, i) = Current(w) /\ w[i] # "thread"
        BY <1>5, <3>3
      <4>2. w[i] # "handler"
        BY <1>10, <4>1 DEF SeenHandler
      <4>3. HandlersAbove(w, i) = {}
        <5>1. \A h \in 1 .. i - 1 : h \in 1 .. Len(w)
          BY <1>1
        <5> QED BY <1>10, <4>1, <5>1 DEF SeenHandler, HandlersAbove
      <4> QED BY <1>5, <1>10, <3>3, <4>1, <4>2, <4>3
    <3> QED BY <1>5, <3>1, <3>2, <3>3
  <2> HIDE DEF Hides
  <2>2. n \in ShownIn(v) /\ line # "info" /\ line # "first"
    BY <1>7, <1>10
  <2>3. ShownIn(v) = {i \in ShownIn(w) : i <= Current(w)} \cup {n}
    BY <1>6, <1>8, <1>9, <2>1, <2>2
  <2> QED BY <1>10, <2>2, <2>3 DEF v, n
<1>11. CASE ~(line = "handler" /\ ~SeenHandler(w))
  <2>1. ASSUME NEW i \in 1 .. Len(w), i \in ShownIn(w)
        PROVE  ~Hides(i)
    <3> SUFFICES ASSUME Hides(i) PROVE FALSE
      OBVIOUS
    <3>1. PICK h \in 1 .. Len(w) : w[h] = "handler" /\ ThreadOf(w, h) = Current(w)
      BY <1>11 DEF SeenHandler
    <3>2. h \in i + 1 .. Len(w)
      <4>1. h # i
        BY <3>1
      <4>2. ~(h \in 1 .. i - 1)
        BY <3>1 DEF HandlersAbove
      <4> QED BY <1>1, <4>1, <4>2
    <3>3. IsHidden(w, i)
      BY <3>1, <3>2 DEF IsHidden
    <3> QED BY <2>1, <3>3 DEF ShownIn
  <2> HIDE DEF Hides
  <2>2. CASE n \in ShownIn(v)
    <3>1. ShownIn(v) = ShownIn(w) \cup {n}
      BY <1>8, <1>9, <2>1, <2>2
    <3> QED BY <1>7, <1>11, <2>2, <3>1 DEF v, n
  <2>3. CASE n \notin ShownIn(v)
    <3>1. ShownIn(v) = ShownIn(w)
      BY <1>6, <1>8, <1>9, <2>1, <2>3
    <3> QED BY <1>7, <1>11, <2>3, <3>1 DEF v
  <2> QED BY <2>2, <2>3
<1> QED BY <1>10, <1>11

\* The rated lines: a new frame below its thread's handler.
LEMMA OneMoreRated ==
  ASSUME NEW w \in Seq(Kinds), NEW line \in Kinds, Threaded(w)
  PROVE  RatedIn(Append(w, line)) =
            IF line \in Frames /\ ~(line = "first" /\ SeenFirst(w)) /\ SeenHandler(w)
            THEN RatedIn(w) \cup {Len(w) + 1}
            ELSE RatedIn(w)
<1> DEFINE v == Append(w, line)
           n == Len(w) + 1
<1>1. /\ Len(w) \in Nat /\ v[n] = line /\ DOMAIN v = 1 .. n /\ DOMAIN w = 1 .. Len(w)
      /\ \A j \in 1 .. Len(w) : v[j] = w[j]
  BY OneMore
<1>2. \A i \in 1 .. Len(w) : IsRepeat(v, i) = IsRepeat(w, i) /\ HandlersAbove(v, i) = HandlersAbove(w, i)
  BY OneMoreSays
<1>3. /\ IsRepeat(v, n) <=> line = "first" /\ SeenFirst(w)
      /\ HandlersAbove(v, n) # {} <=> line # "thread" /\ SeenHandler(w)
  BY NewestLine
<1> HIDE DEF v
<1>4. n \notin 1 .. Len(w) /\ 1 .. n = 1 .. Len(w) \cup {n}
  BY <1>1
<1>5. "thread" \notin Frames
  BY DEF Frames
<1> HIDE DEF n
<1>6. n \in RatedIn(v) <=> line \in Frames /\ ~(line = "first" /\ SeenFirst(w)) /\ SeenHandler(w)
  BY <1>1, <1>3, <1>4, <1>5 DEF RatedIn
<1>7. \A i \in 1 .. Len(w) : i \in RatedIn(v) <=> i \in RatedIn(w)
  BY <1>1, <1>2, <1>4 DEF RatedIn
<1>8. RatedIn(v) \subseteq 1 .. Len(w) \cup {n} /\ RatedIn(w) \subseteq 1 .. Len(w)
  BY <1>1, <1>4 DEF RatedIn
<1>9. RatedIn(v) = IF line \in Frames /\ ~(line = "first" /\ SeenFirst(w)) /\ SeenHandler(w)
                   THEN RatedIn(w) \cup {n} ELSE RatedIn(w)
  <2>1. CASE n \in RatedIn(v)
    <3>1. RatedIn(v) = RatedIn(w) \cup {n}
      BY <1>7, <1>8, <2>1
    <3> QED BY <1>6, <2>1, <3>1
  <2>2. CASE n \notin RatedIn(v)
    <3>1. RatedIn(v) = RatedIn(w)
      BY <1>4, <1>7, <1>8, <2>2
    <3> QED BY <1>6, <2>2, <3>1
  <2> QED BY <2>1, <2>2
<1> QED BY <1>9 DEF v, n

-----------------------------------------------------------------------------
(* What parseLine() makes of it. *)

Texts == Kinds \cup {"kcrash"}

\* What is to be shown of one line more.
LEMMA MoreToShow ==
  ASSUME NEW w \in Seq(Kinds), NEW line \in Kinds, Threaded(w)
  PROVE  LET v == Append(w, line)
             kept == {i \in ShownIn(w) : i <= Current(w)}
         IN  /\ ToShow(w) \in Seq(Texts) /\ Len(ToShow(w)) = Cardinality(ShownIn(w))
             /\ ToShow(v) =
                   IF line = "info" \/ (line = "first" /\ SeenFirst(w)) THEN ToShow(w)
                   ELSE IF line = "handler" /\ ~SeenHandler(w)
                   THEN Append(SubSeq(ToShow(w), 1, Cardinality(kept)), "kcrash")
                   ELSE Append(ToShow(w), line)
<1> DEFINE v == Append(w, line)
           n == Len(w)
           kept == {i \in ShownIn(w) : i <= Current(w)}
<1>1. /\ n \in Nat /\ v \in Seq(Kinds) /\ DOMAIN v = 1 .. n + 1 /\ DOMAIN w = 1 .. n
  BY OneMore
<1>2. \A i \in 1 .. n : Message(v)[i] = Message(w)[i]
  BY OneMoreSays
<1>3. Message(v)[n + 1] = IF line = "handler" /\ ~SeenHandler(w) THEN "kcrash" ELSE line
  BY NewestLine
<1>4. /\ ShownIn(v) = IF line = "info" \/ (line = "first" /\ SeenFirst(w)) THEN ShownIn(w)
                      ELSE IF line = "handler" /\ ~SeenHandler(w) THEN kept \cup {n + 1}
                      ELSE ShownIn(w) \cup {n + 1}
  BY OneMoreShown
<1>5. \A i \in 1 .. n : Message(w)[i] \in Texts
  BY <1>1 DEF Message, Texts
<1>6. ShownIn(w) \in SUBSET (1 .. n) /\ kept \in SUBSET (1 .. n)
  BY <1>1 DEF ShownIn
<1>7. Current(w) \in Nat
  BY <1>1 DEF Threaded, Current, IsThread
<1>8. ToShow(w) \in Seq(Texts) /\ Len(ToShow(w)) = Cardinality(ShownIn(w))
  BY <1>1, <1>5, <1>6, SelectType DEF ToShow
<1> HIDE DEF v, n
<1>9. CASE line = "info" \/ (line = "first" /\ SeenFirst(w))
  <2>1. Selected(Message(v), ShownIn(w)) = Selected(Message(w), ShownIn(w))
    BY <1>1, <1>2, <1>6, SelectSame
  <2> QED BY <1>4, <1>8, <1>9, <2>1 DEF ToShow, v
<1>10. CASE line = "handler" /\ ~SeenHandler(w)
  <2>1. SubSeq(ToShow(w), 1, Cardinality(kept)) = Selected(Message(w), kept)
    BY <1>1, <1>6, <1>7, SelectFirst DEF ToShow
  <2>2. \A i \in kept : Message(v)[i] = Message(w)[i]
    BY <1>2, <1>6
  <2>3. Selected(Message(v), kept \cup {n + 1})
        = Append(Selected(Message(w), kept), Message(v)[n + 1])
    <3> DEFINE mv == Message(v)
               mw == Message(w)
               T == kept \cup {n + 1}
    <3>1. OneAfter(n, kept, T, mv, mw)
      BY <1>1, <1>6, <2>2 DEF OneAfter
    <3> HIDE DEF kept, mv, mw, T
    <3>2. Selected(mv, T) = Append(Selected(mw, kept), mv[n + 1])
      BY <3>1, SelectMore
    <3> QED BY <3>2 DEF mv, mw, T
  <2>4. ShownIn(v) = kept \cup {n + 1} /\ Message(v)[n + 1] = "kcrash"
    BY <1>3, <1>4, <1>10
  <2> QED BY <1>8, <1>10, <2>1, <2>3, <2>4 DEF ToShow, v
<1>11. CASE ~(line = "info" \/ (line = "first" /\ SeenFirst(w)))
            /\ ~(line = "handler" /\ ~SeenHandler(w))
  <2>1. \A i \in ShownIn(w) : Message(v)[i] = Message(w)[i]
    BY <1>2, <1>6
  <2>2. Selected(Message(v), ShownIn(w) \cup {n + 1})
        = Append(Selected(Message(w), ShownIn(w)), Message(v)[n + 1])
    <3> DEFINE mv == Message(v)
               mw == Message(w)
               S == ShownIn(w)
               T == S \cup {n + 1}
    <3>1. OneAfter(n, S, T, mv, mw)
      BY <1>1, <1>6, <2>1 DEF OneAfter
    <3> HIDE DEF S, mv, mw, T
    <3>2. Selected(mv, T) = Append(Selected(mw, S), mv[n + 1])
      BY <3>1, SelectMore
    <3> QED BY <3>2 DEF mv, mw, T, S
  <2>3. ShownIn(v) = ShownIn(w) \cup {n + 1} /\ Message(v)[n + 1] = line
    BY <1>3, <1>4, <1>11
  <2> QED BY <1>8, <1>11, <2>2, <2>3 DEF ToShow, v
<1> QED BY <1>9, <1>10, <1>11

\* What is to be rated.
LEMMA MoreToRate ==
  ASSUME NEW w \in Seq(Kinds), NEW line \in Kinds, Threaded(w)
  PROVE  ToRate(Append(w, line)) =
            IF line \in Frames /\ ~(line = "first" /\ SeenFirst(w)) /\ SeenHandler(w)
            THEN Append(ToRate(w), line)
            ELSE ToRate(w)
<1> DEFINE v == Append(w, line)
           n == Len(w)
           counts == line \in Frames /\ ~(line = "first" /\ SeenFirst(w)) /\ SeenHandler(w)
<1>1. /\ n \in Nat /\ DOMAIN w = 1 .. n /\ v[n + 1] = line
      /\ \A i \in 1 .. n : v[i] = w[i]
  BY OneMore
<1>2. RatedIn(v) = IF counts THEN RatedIn(w) \cup {n + 1} ELSE RatedIn(w)
  BY OneMoreRated
<1>3. RatedIn(w) \in SUBSET (1 .. n)
  BY <1>1 DEF RatedIn
<1>4. \A i \in RatedIn(w) : v[i] = w[i]
  BY <1>1, <1>3
<1> HIDE DEF v, n, counts
<1>5. Selected(v, RatedIn(w)) = Selected(w, RatedIn(w))
  BY <1>1, <1>3, <1>4, SelectSame
<1>6. Selected(v, RatedIn(w) \cup {n + 1}) = Append(Selected(w, RatedIn(w)), line)
  <2> DEFINE S == RatedIn(w)
             T == S \cup {n + 1}
  <2>1. OneAfter(n, S, T, v, w)
    BY <1>1, <1>3, <1>4 DEF OneAfter
  <2> HIDE DEF S, T
  <2>2. Selected(v, T) = Append(Selected(w, S), v[n + 1])
    BY <2>1, SelectMore
  <2> QED BY <1>1, <2>2 DEF S, T
<1>7. ToRate(v) = IF counts THEN Append(ToRate(w), line) ELSE ToRate(w)
  BY <1>2, <1>5, <1>6 DEF ToRate
<1> QED BY <1>7 DEF v, counts

\* Where the kept lines end: at the line that began the thread.
LEMMA MoreKept ==
  ASSUME NEW w \in Seq(Kinds), NEW line \in Kinds, Threaded(w)
  PROVE  LET v == Append(w, line)
         IN  {i \in ShownIn(v) : i <= Current(v)} =
                IF line = "thread" THEN ShownIn(v) ELSE {i \in ShownIn(w) : i <= Current(w)}
<1> DEFINE v == Append(w, line)
           n == Len(w)
<1>1. /\ n \in Nat /\ DOMAIN v = 1 .. n + 1 /\ DOMAIN w = 1 .. n
  BY OneMore
<1>2. Current(v) = IF line = "thread" THEN n + 1 ELSE Current(w)
  BY OneMoreThread
<1>3. ShownIn(v) = IF line = "info" \/ (line = "first" /\ SeenFirst(w)) THEN ShownIn(w)
                   ELSE IF line = "handler" /\ ~SeenHandler(w)
                   THEN {i \in ShownIn(w) : i <= Current(w)} \cup {n + 1}
                   ELSE ShownIn(w) \cup {n + 1}
  BY OneMoreShown
<1>4. ShownIn(v) \subseteq 1 .. n + 1 /\ ShownIn(w) \subseteq 1 .. n
  BY <1>1 DEF ShownIn
<1>5. Current(w) \in 0 .. n
  BY <1>1 DEF Threaded, Current, IsThread
<1> HIDE DEF v, n
<1>6. ~(n + 1 <= Current(w))
  BY <1>1, <1>5
<1>7. CASE line = "thread"
  <2>1. \A i \in ShownIn(v) : i <= n + 1
    BY <1>1, <1>4
  <2> QED BY <1>2, <1>7, <2>1 DEF v
<1>8. CASE line # "thread"
  <2>1. {i \in ShownIn(v) : i <= Current(w)} = {i \in ShownIn(w) : i <= Current(w)}
    BY <1>3, <1>6
  <2> QED BY <1>2, <1>8, <2>1 DEF v
<1> QED BY <1>7, <1>8

\* The parser, and what it has made of the lines w.
IsParser(p) ==
    p = [lines |-> p.lines, rate |-> p.rate, info |-> p.info, simplified |-> p.simplified,
         libraries |-> p.libraries, compositor |-> p.compositor, usefulness |-> p.usefulness,
         buffer |-> p.buffer, start |-> p.start, threads |-> p.threads, below |-> p.below,
         zero |-> p.zero]

Follows(p, w) ==
    /\ w \in Seq(Kinds) /\ Threaded(w)
    /\ p.lines = ToShow(w) /\ p.rate = ToRate(w)
    /\ p.below = SeenHandler(w) /\ p.zero = SeenFirst(w)
    /\ p.start = Cardinality({i \in ShownIn(w) : i <= Current(w)})

\* What parseLine() does to the members that matter here.
LEMMA ParseLineDoes ==
  ASSUME NEW p, IsParser(p), NEW line \in Kinds, p.below \in BOOLEAN, p.zero \in BOOLEAN
  PROVE  LET q == ParseLine(p, line)
         IN  /\ IsParser(q) /\ q.buffer = p.buffer
             /\ q.lines = IF line = "info" \/ (line = "first" /\ p.zero) THEN p.lines
                          ELSE IF line = "handler" /\ ~p.below
                          THEN Append(SubSeq(p.lines, 1, p.start), "kcrash")
                          ELSE Append(p.lines, line)
             /\ q.rate = IF line \in Frames /\ ~(line = "first" /\ p.zero) /\ p.below
                         THEN Append(p.rate, line) ELSE p.rate
             /\ q.below = (line # "thread" /\ (p.below \/ line = "handler"))
             /\ q.zero = (line # "thread" /\ (p.zero \/ line = "first"))
             /\ q.start = IF line = "thread" THEN Len(q.lines) ELSE p.start
<1> DEFINE q == ParseLine(p, line)
<1>1. CASE line = "thread"
  <2>1. q = StartThread(p)
    BY <1>1 DEF ParseLine, Frames
  <2> QED BY <1>1, <2>1 DEF StartThread, AppendLine, IsParser, Frames
<1>2. CASE line = "handler"
  <2>1. q = StartHandler(p)
    BY <1>2 DEF ParseLine, Frames
  <2> QED BY <1>2, <2>1 DEF StartHandler, AppendLine, IsParser, Frames
<1>3. CASE line = "info"
  <2>1. q = [p EXCEPT !.info = @ + 1]
    BY <1>3 DEF ParseLine, Frames
  <2> QED BY <1>3, <2>1 DEF IsParser, Frames
<1>4. CASE line \in Frames
  <2>1. q = AddFrame(p, line) /\ line \notin {"thread", "handler", "info"}
    BY <1>4 DEF ParseLine, Frames
  <2> QED BY <1>4, <2>1 DEF AddFrame, AppendLine, FrameZero, IsParser
<1>5. CASE line \notin Frames \cup {"thread", "handler", "info"}
  <2>1. q = AppendLine(p, line) /\ line # "first"
    BY <1>5 DEF ParseLine, Frames
  <2> QED BY <1>5, <2>1 DEF AppendLine, IsParser
<1> QED BY <1>1, <1>2, <1>3, <1>4, <1>5

\* parseLine() keeps up with the output.
LEMMA ParseLineFollows ==
  ASSUME NEW p, NEW w, NEW line \in Kinds, IsParser(p), Follows(p, w)
  PROVE  LET q == ParseLine(p, line)
         IN  IsParser(q) /\ q.buffer = p.buffer /\ Follows(q, Append(w, line))
<1> DEFINE q == ParseLine(p, line)
           v == Append(w, line)
<1>1. /\ w \in Seq(Kinds) /\ Threaded(w) /\ p.lines = ToShow(w) /\ p.rate = ToRate(w)
      /\ p.below = SeenHandler(w) /\ p.zero = SeenFirst(w)
      /\ p.start = Cardinality({i \in ShownIn(w) : i <= Current(w)})
  BY DEF Follows
<1>2. p.below \in BOOLEAN /\ p.zero \in BOOLEAN
  BY <1>1 DEF SeenHandler, SeenFirst
<1>3. /\ IsParser(q) /\ q.buffer = p.buffer
      /\ q.lines = IF line = "info" \/ (line = "first" /\ p.zero) THEN p.lines
                   ELSE IF line = "handler" /\ ~p.below
                   THEN Append(SubSeq(p.lines, 1, p.start), "kcrash")
                   ELSE Append(p.lines, line)
      /\ q.rate = IF line \in Frames /\ ~(line = "first" /\ p.zero) /\ p.below
                  THEN Append(p.rate, line) ELSE p.rate
      /\ q.below = (line # "thread" /\ (p.below \/ line = "handler"))
      /\ q.zero = (line # "thread" /\ (p.zero \/ line = "first"))
      /\ q.start = IF line = "thread" THEN Len(q.lines) ELSE p.start
  BY <1>2, ParseLineDoes
<1>4. v \in Seq(Kinds) /\ Threaded(v)
  BY <1>1, OneMore, OneMoreThread
<1> HIDE DEF q
<1>5. q.lines = ToShow(v)
  BY <1>1, <1>3, MoreToShow
<1>6. q.rate = ToRate(v)
  BY <1>1, <1>3, MoreToRate
<1>7. q.below = SeenHandler(v) /\ q.zero = SeenFirst(v)
  <2>1. /\ SeenHandler(v) <=> line # "thread" /\ (SeenHandler(w) \/ line = "handler")
        /\ SeenFirst(v) <=> line # "thread" /\ (SeenFirst(w) \/ line = "first")
    BY <1>1, NewestLine
  <2>2. SeenHandler(v) \in BOOLEAN /\ SeenFirst(v) \in BOOLEAN
    BY DEF SeenHandler, SeenFirst
  <2> HIDE DEF v
  <2> QED BY <1>1, <1>2, <1>3, <2>1, <2>2
<1>8. q.start = Cardinality({i \in ShownIn(v) : i <= Current(v)})
  <2>1. {i \in ShownIn(v) : i <= Current(v)} =
           IF line = "thread" THEN ShownIn(v) ELSE {i \in ShownIn(w) : i <= Current(w)}
    BY <1>1, MoreKept
  <2>2. Len(ToShow(v)) = Cardinality(ShownIn(v))
    <3>1. line \in Kinds
      OBVIOUS
    <3> QED BY <1>4, <3>1, MoreToShow
  <2> QED BY <1>1, <1>3, <1>5, <2>1, <2>2
<1> QED BY <1>3, <1>4, <1>5, <1>6, <1>7, <1>8 DEF q, Follows

-----------------------------------------------------------------------------
(* The line by which newLine() is behind. *)

IsLast(f, h) == h \in Heads(f) /\ \A i \in Heads(f) : i <= h
Put(f) == [h \in Heads(f) |-> Joined(LineAt(f, h))]

LEMMA JoinedIsALine ==
  ASSUME NEW head \in GdbLines, NEW tail
  PROVE  Joined([head |-> head, tail |-> tail]) \in Kinds
BY ParserAssumption DEF Joined, Kinds, Frames, OtherLines

\* What is complete is all but the last line, which the end completes.
LEMMA AllButTheLast ==
  ASSUME NEW f \in Seq(GdbLines), NEW h, IsLast(f, h)
  PROVE  LET S == {i \in Heads(f) : i < h}
         IN  /\ PutTogether(f, FALSE) = Selected(Put(f), S)
             /\ PutTogether(f, FALSE) \in Seq(Kinds)
             /\ PutTogether(f, TRUE) = Selected(Put(f), Heads(f))
             /\ PutTogether(f, TRUE) = Append(PutTogether(f, FALSE), Joined(LineAt(f, h)))
<1> DEFINE S == {i \in Heads(f) : i < h}
           T == Heads(f)
           n == h - 1
           w == Put(f)
           c == Cardinality(S)
<1>1. /\ Len(f) \in Nat /\ DOMAIN f = 1 .. Len(f) /\ \A i \in DOMAIN f : f[i] \in GdbLines
      /\ T \in SUBSET (1 .. Len(f)) /\ h \in 1 .. Len(f) /\ h \in T /\ \A i \in T : i <= h
  BY DEF Heads, IsLast
<1>2. OneAfter(n, S, T, w, w)
  <2>1. n \in Nat /\ n + 1 = h
    BY <1>1
  <2>2. S \in SUBSET (1 .. n)
    BY <1>1, <2>1
  <2>3. T = S \cup {h}
    BY <1>1
  <2> HIDE DEF n, S, T, w
  <2> QED BY <2>1, <2>2, <2>3 DEF OneAfter
<1>3. n + 1 = h /\ n \in Nat /\ S \in SUBSET (1 .. n)
  BY <1>1, <1>2 DEF OneAfter
<1>4. \A i \in T : w[i] = Joined(LineAt(f, i)) /\ w[i] \in Kinds
  BY <1>1, JoinedIsALine DEF Put, LineAt
<1> HIDE DEF n, S, T, w
<1>5. Selected(w, T) = Append(Selected(w, S), w[n + 1]) /\ Cardinality(T) = c + 1
  BY <1>2, SelectMore
<1>6. S \subseteq T
  BY DEF S, T
<1>7. Selected(w, S) \in Seq(Kinds) /\ Len(Selected(w, S)) = c /\ c \in Nat
  <2>1. \A i \in S : w[i] \in Kinds
    BY <1>4, <1>6
  <2> QED BY <1>3, <2>1, SelectType, RankIsOneToOne
<1>8. ASSUME NEW k \in 1 .. c + 1
      PROVE  Joined(LineAt(f, Nth(T, k))) = Selected(w, T)[k]
  <2>1. k \in 1 .. Cardinality(T)
    BY <1>5, <1>8
  <2>2. Nth(T, k) \in T
    BY <1>1, <2>1, NthHasRank
  <2> QED BY <1>4, <2>1, <2>2 DEF Selected
<1>9. PutTogether(f, TRUE) = Selected(w, T)
  <2>1. PutTogether(f, TRUE) = [k \in 1 .. c + 1 |-> Joined(LineAt(f, Nth(T, k)))]
    BY <1>5 DEF PutTogether, T
  <2>2. Selected(w, T) = [k \in 1 .. c + 1 |-> Selected(w, T)[k]]
    BY <1>5 DEF Selected
  <2> QED BY <1>8, <2>1, <2>2
<1>10. PutTogether(f, FALSE) = Selected(w, S)
  <2>1. PutTogether(f, FALSE) = [k \in 1 .. c |-> Joined(LineAt(f, Nth(T, k)))]
    <3>1. (c + 1) - 1 = c
      BY <1>7
    <3> QED BY <1>5, <3>1 DEF PutTogether, T
  <2>2. Selected(w, S) = [k \in 1 .. c |-> Selected(w, S)[k]]
    BY <1>5 DEF Selected, c
  <2>3. ASSUME NEW k \in 1 .. c
        PROVE  Joined(LineAt(f, Nth(T, k))) = Selected(w, S)[k]
    <3>1. k \in 1 .. c + 1 /\ k # c + 1
      BY <1>7
    <3>2. Append(Selected(w, S), w[n + 1])[k] = Selected(w, S)[k]
      <4> DEFINE s == Selected(w, S)
                 e == w[n + 1]
      <4>1. s \in Seq(Kinds) /\ Len(s) = c /\ k \in 1 .. Len(s)
        BY <1>7
      <4> HIDE DEF s, e
      <4>2. Append(s, e)[k] = s[k]
        BY <4>1
      <4> QED BY <4>2 DEF s, e
    <3> QED BY <1>5, <1>8, <3>1, <3>2
  <2> QED BY <2>1, <2>2, <2>3
<1>11. w[n + 1] = Joined(LineAt(f, h))
  BY <1>1, <1>3, <1>4
<1> QED BY <1>5, <1>7, <1>9, <1>10, <1>11 DEF S, T, w

\* The first line of a run.
LEMMA TheFirstLine ==
  /\ \A over \in BOOLEAN : PutTogether(<<>>, over) = <<>>
  /\ \A line : LET f == <<line>>
               IN  /\ PutTogether(f, FALSE) = <<>> /\ IsLast(f, 1)
                   /\ LineAt(f, 1) = [head |-> line, tail |-> FALSE]
<1>1. ASSUME NEW over \in BOOLEAN PROVE PutTogether(<<>>, over) = <<>>
  <2>1. Heads(<<>>) = {}
    BY DEF Heads
  <2>2. Cardinality(Heads(<<>>)) = 0
    BY <2>1, FS_EmptySet
  <2> QED BY <2>2 DEF PutTogether
<1>2. ASSUME NEW line
      PROVE  LET f == <<line>>
             IN  /\ PutTogether(f, FALSE) = <<>> /\ IsLast(f, 1)
                 /\ LineAt(f, 1) = [head |-> line, tail |-> FALSE]
  <2> DEFINE f == <<line>>
  <2>1. Heads(f) = {1} /\ Len(f) = 1 /\ f[1] = line
    BY DEF Heads
  <2>2. Cardinality(Heads(f)) = 1
    BY <2>1, FS_Singleton
  <2> HIDE DEF f
  <2>3. PutTogether(f, FALSE) = <<>>
    BY <2>2 DEF PutTogether
  <2>4. IsLast(f, 1)
    BY <2>1 DEF IsLast
  <2>5. LineAt(f, 1) = [head |-> line, tail |-> FALSE]
    <3>1. ~(1 < Len(f))
      BY <2>1
    <3> QED BY <2>1, <3>1 DEF LineAt
  <2> QED BY <2>3, <2>4, <2>5 DEF f
<1> QED BY <1>1, <1>2

\* A line more completes the last one, unless it is its tail.
LEMMA TheNextLine ==
  ASSUME NEW f \in Seq(GdbLines), NEW line \in GdbLines, NEW h, IsLast(f, h)
  PROVE  LET g == Append(f, line)
             next == Len(f) + 1
         IN  IF line = "tail"
             THEN /\ IsLast(g, h) /\ PutTogether(g, FALSE) = PutTogether(f, FALSE)
                  /\ LineAt(g, h) = [head |-> f[h], tail |-> TRUE]
             ELSE /\ IsLast(g, next) /\ PutTogether(g, FALSE) = PutTogether(f, TRUE)
                  /\ LineAt(g, next) = [head |-> line, tail |-> FALSE]
<1> DEFINE g == Append(f, line)
           L == Len(f)
<1>1. /\ L \in Nat /\ DOMAIN f = 1 .. L /\ Heads(f) \in SUBSET (1 .. L)
      /\ h \in Heads(f) /\ h \in 1 .. L /\ \A i \in Heads(f) : i <= h
  BY DEF Heads, IsLast
<1>2. /\ g \in Seq(GdbLines) /\ Len(g) = L + 1 /\ DOMAIN g = 1 .. L + 1 /\ g[L + 1] = line
      /\ \A i \in 1 .. L : g[i] = f[i]
  BY <1>1
<1> HIDE DEF g
<1>3. \A i \in 1 .. L : i \in Heads(g) <=> i \in Heads(f)
  BY <1>1, <1>2 DEF Heads
<1>4. L + 1 \in Heads(g) <=> line # "tail"
  BY <1>1, <1>2 DEF Heads
<1>5. Heads(g) \in SUBSET (1 .. L + 1)
  BY <1>2 DEF Heads
<1> HIDE DEF L
<1>6. ASSUME NEW i \in 1 .. L, i < L \/ line # "tail"
      PROVE  LineAt(g, i) = LineAt(f, i)
  <2>1. CASE i < L
    <3>1. i + 1 \in 1 .. L
      BY <1>1, <2>1
    <3> QED BY <1>1, <1>2, <1>3, <2>1, <3>1 DEF LineAt, L
  <2>2. CASE i = L /\ line # "tail"
    <3>1. i + 1 \in Heads(g) /\ ~(i < L)
      BY <1>1, <1>4, <2>2
    <3>2. g[i] = f[i] /\ Len(f) = i
      BY <1>2, <2>2 DEF L
    <3> QED BY <3>1, <3>2 DEF LineAt, L
  <2>3. i < L \/ i = L
    BY <1>1
  <2> QED BY <1>6, <2>1, <2>2, <2>3
<1>7. CASE line = "tail"
  <2> DEFINE S == {i \in Heads(f) : i < h}
  <2>1. Heads(g) = Heads(f)
    <3>1. \A i \in 1 .. L + 1 : i \in 1 .. L \/ i = L + 1
      BY <1>1
    <3> QED BY <1>1, <1>3, <1>4, <1>5, <1>7, <3>1
  <2>2. IsLast(g, h)
    BY <1>1, <2>1 DEF IsLast
  <2>3. LineAt(g, h) = [head |-> f[h], tail |-> TRUE]
    <3>1. h < L + 1 /\ h + 1 \notin Heads(g)
      BY <1>1, <2>1
    <3> QED BY <1>1, <1>2, <3>1 DEF LineAt
  <2>4. \A i \in S : Put(g)[i] = Put(f)[i]
    <3>1. ASSUME NEW i \in S PROVE LineAt(g, i) = LineAt(f, i)
      BY <1>1, <1>6
    <3> QED BY <2>1, <3>1 DEF Put
  <2>5. Selected(Put(g), S) = Selected(Put(f), S)
    <3>1. L \in Nat /\ S \in SUBSET (1 .. L)
      BY <1>1
    <3> HIDE DEF S
    <3> QED BY <2>4, <3>1, SelectSame
  <2>6. PutTogether(g, FALSE) = Selected(Put(g), S)
    BY <1>2, <2>1, <2>2, AllButTheLast
  <2>7. PutTogether(f, FALSE) = Selected(Put(f), S)
    BY AllButTheLast
  <2> QED BY <1>7, <2>2, <2>3, <2>5, <2>6, <2>7 DEF g
<1>8. CASE line # "tail"
  <2> DEFINE next == L + 1
  <2>1. IsLast(g, next)
    BY <1>1, <1>4, <1>5, <1>8 DEF IsLast
  <2>2. LineAt(g, next) = [head |-> line, tail |-> FALSE]
    <3>1. ~(next < L + 1) /\ g[next] = line /\ Len(g) = L + 1
      BY <1>1, <1>2
    <3> HIDE DEF next
    <3> QED BY <3>1 DEF LineAt
  <2>3. {i \in Heads(g) : i < next} = Heads(f)
    <3>1. ASSUME NEW i \in Heads(g), i < next PROVE i \in Heads(f)
      BY <1>1, <1>3, <1>5, <3>1
    <3>2. ASSUME NEW i \in Heads(f) PROVE i \in Heads(g) /\ i < next
      BY <1>1, <1>3
    <3> QED BY <3>1, <3>2
  <2>4. \A i \in Heads(f) : Put(g)[i] = Put(f)[i]
    <3>1. ASSUME NEW i \in Heads(f) PROVE LineAt(g, i) = LineAt(f, i) /\ i \in Heads(g)
      BY <1>1, <1>3, <1>6, <1>8
    <3> QED BY <3>1 DEF Put
  <2>5. Selected(Put(g), Heads(f)) = Selected(Put(f), Heads(f))
    BY <1>1, <2>4, SelectSame
  <2>6. PutTogether(g, FALSE) = Selected(Put(g), Heads(f))
    BY <1>2, <2>1, <2>3, AllButTheLast
  <2>7. PutTogether(f, TRUE) = Selected(Put(f), Heads(f))
    BY AllButTheLast
  <2> QED BY <1>8, <2>1, <2>2, <2>5, <2>6, <2>7 DEF g, L
<1> QED BY <1>7, <1>8

-----------------------------------------------------------------------------
(* The rating. *)

\* Induction over the frames is by the last one that is an exception.
LEMMA Greatest ==
  ASSUME NEW n \in Nat, NEW S \in SUBSET (1 .. n), S # {}
  PROVE  \E x \in S : \A y \in S : y <= x
<1> DEFINE c == Cardinality(S)
           x == Nth(S, c)
<1>1. IsFiniteSet(S) /\ c \in Nat /\ c # 0
  BY RankIsOneToOne, FS_EmptySet
<1>2. c \in 1 .. c
  BY <1>1
<1>3. x \in S /\ Rank(S, x) = c
  BY <1>2, NthHasRank
<1> HIDE DEF x
<1>4. ASSUME NEW y \in S PROVE y <= x
  <2>1. y \in Int /\ x \in Int
    BY <1>3
  <2>2. Rank(S, y) \in 1 .. c /\ (x < y => Rank(S, x) < Rank(S, y))
    BY <1>3, RankIsOneToOne
  <2>3. ~(x < y)
    BY <1>1, <1>3, <2>2
  <2> QED BY <2>1, <2>3
<1> QED BY <1>3, <1>4

Steps(f, g, m) ==
    \A i \in m .. Len(f) + 1 : g[i] = IF i > Len(f) THEN NoRating ELSE RateLine(g[i + 1], f, i)

\* The loop comes to something at every frame.
LEMMA LoopComesTo ==
  ASSUME NEW f, Len(f) \in Nat
  PROVE  \E g : Steps(f, g, 1)
<1> DEFINE n == Len(f)
           Bad == {m \in 1 .. n + 1 : ~\E g : Steps(f, g, m)}
<1>1. ASSUME Bad # {} PROVE FALSE
  <2>1. n + 1 \in Nat /\ Bad \in SUBSET (1 .. n + 1)
    OBVIOUS
  <2>2. PICK b \in Bad : \A m \in Bad : m <= b
    <3> HIDE DEF Bad
    <3> QED BY <1>1, <2>1, Greatest
  <2>3. b \in 1 .. n + 1 /\ ~\E g : Steps(f, g, b)
    OBVIOUS
  <2>4. CASE b = n + 1
    <3> DEFINE g == [i \in {n + 1} |-> NoRating]
    <3>1. g[n + 1] = NoRating
      OBVIOUS
    <3> HIDE DEF g
    <3>2. Steps(f, g, n + 1)
      <4>1. \A i \in n + 1 .. n + 1 : i = n + 1 /\ i > n
        BY <2>1
      <4> QED BY <3>1, <4>1 DEF Steps
    <3> QED BY <2>3, <2>4, <3>2
  <2>5. CASE b # n + 1
    <3>1. b \in 1 .. n /\ b + 1 \in 1 .. n + 1 /\ ~(b + 1 <= b)
      BY <2>3, <2>5
    <3>2. PICK g : Steps(f, g, b + 1)
      BY <2>2, <3>1
    <3> DEFINE h == [i \in b .. n + 1 |-> IF i = b THEN RateLine(g[b + 1], f, b) ELSE g[i]]
    <3>3. ASSUME NEW i \in b + 1 .. n + 1 PROVE h[i] = g[i]
      BY <3>1
    <3>4. h[b] = RateLine(g[b + 1], f, b)
      BY <3>1
    <3> HIDE DEF h
    <3>5. Steps(f, h, b)
      <4>1. ASSUME NEW i \in b .. n + 1
            PROVE  h[i] = IF i > n THEN NoRating ELSE RateLine(h[i + 1], f, i)
        <5>1. CASE i = b
          <6>1. b + 1 \in b + 1 .. n + 1 /\ ~(b > n)
            BY <3>1
          <6> QED BY <3>3, <3>4, <5>1, <6>1
        <5>2. CASE i # b
          <6>1. i \in b + 1 .. n + 1 /\ (~(i > n) => i + 1 \in b + 1 .. n + 1)
            BY <3>1, <5>2
          <6>2. g[i] = IF i > n THEN NoRating ELSE RateLine(g[i + 1], f, i)
            BY <3>2, <6>1 DEF Steps
          <6> QED BY <3>3, <6>1, <6>2
        <5> QED BY <5>1, <5>2
      <4> QED BY <4>1 DEF Steps
    <3> QED BY <2>3, <3>5
  <2> QED BY <2>4, <2>5
<1>2. 1 \in 1 .. n + 1
  OBVIOUS
<1> QED BY <1>1, <1>2

LEMMA LoopIsRecursive ==
  ASSUME NEW f, Len(f) \in Nat
  PROVE  Steps(f, RatingFrom(f), 1)
<1> DEFINE Body(r) == [i \in 1 .. Len(f) + 1 |->
                          IF i > Len(f) THEN NoRating ELSE RateLine(r[i + 1], f, i)]
<1>1. PICK g : Steps(f, g, 1)
  BY LoopComesTo
<1> DEFINE h == [i \in 1 .. Len(f) + 1 |-> g[i]]
<1>2. h = Body(h)
  <2>1. ASSUME NEW i \in 1 .. Len(f) + 1 PROVE h[i] = Body(h)[i]
    <3>1. CASE i > Len(f)
      BY <1>1, <3>1 DEF Steps
    <3>2. CASE ~(i > Len(f))
      <4>1. i + 1 \in 1 .. Len(f) + 1
        BY <3>2
      <4> QED BY <1>1, <3>2, <4>1 DEF Steps
    <3> QED BY <3>1, <3>2
  <2> QED BY <2>1
<1>3. RatingFrom(f) = CHOOSE r : r = Body(r)
  BY DEF RatingFrom
<1> HIDE DEF h, Body
<1>4. RatingFrom(f) = Body(RatingFrom(f))
  BY <1>2, <1>3
<1> DEFINE R == RatingFrom(f)
<1> HIDE DEF R
<1>5. R = Body(R)
  BY <1>4 DEF R
<1>6. ASSUME NEW i \in 1 .. Len(f) + 1
      PROVE  R[i] = IF i > Len(f) THEN NoRating ELSE RateLine(R[i + 1], f, i)
  <2>1. Body(R)[i] = IF i > Len(f) THEN NoRating ELSE RateLine(R[i + 1], f, i)
    BY DEF Body
  <2> QED BY <1>5, <2>1
<1> QED BY <1>6 DEF Steps, R

\* The points of a frame on top of others: one for each of them and for itself, as often as
\* its rating says.
LEMMA MorePoints ==
  ASSUME NEW f, NEW n \in Nat, NEW S \in SUBSET (1 .. n), NEW i \in 1 .. n,
         \A j \in S : i < j, RatingOf(f[i]) \in 0 .. BestRating, IsFiniteSet(Points(f, S))
  PROVE  LET T == S \cup {i}
         IN  /\ IsFiniteSet(Points(f, T)) /\ Cardinality(T) = Cardinality(S) + 1
             /\ Cardinality(Points(f, T)) =
                   Cardinality(Points(f, S)) + RatingOf(f[i]) * (Cardinality(S) + 1)
<1> DEFINE T == S \cup {i}
           R == RatingOf(f[i])
           J == T \X (1 .. R)
           g == [x \in J |-> <<i, x[1], x[2]>>]
           New == {<<i, x[1], x[2]>> : x \in J}
<1>1. /\ IsFiniteSet(S) /\ Cardinality(S) \in Nat /\ i \notin S
      /\ IsFiniteSet(T) /\ Cardinality(T) = Cardinality(S) + 1
  <2>1. IsFiniteSet(S) /\ Cardinality(S) \in Nat
    BY RankIsOneToOne
  <2>2. i \notin S
    OBVIOUS
  <2> QED BY <2>1, <2>2, FS_AddElement
<1>2. IsFiniteSet(J) /\ Cardinality(J) = Cardinality(T) * R
  <2>1. IsFiniteSet(1 .. R) /\ Cardinality(1 .. R) = R
    <3>1. R \in Int /\ 1 \in Int /\ R >= 0
      BY DEF BestRating
    <3> HIDE DEF R
    <3>2. IsFiniteSet(1 .. R) /\ Cardinality(1 .. R) = IF 1 > R THEN 0 ELSE R - 1 + 1
      BY <3>1, FS_Interval
    <3> QED BY <3>1, <3>2
  <2> HIDE DEF T, R
  <2> QED BY <1>1, <2>1, FS_Product
<1>3. IsFiniteSet(New) /\ Cardinality(New) = Cardinality(J)
  <2>1. g \in [J -> New]
    OBVIOUS
  <2>2. ASSUME NEW x \in J, NEW y \in J, g[x] = g[y] PROVE x = y
    <3>1. x = <<x[1], x[2]>> /\ y = <<y[1], y[2]>>
      OBVIOUS
    <3>2. x[1] = y[1] /\ x[2] = y[2]
      BY <2>2
    <3> QED BY <3>1, <3>2
  <2>3. \A z \in New : \E x \in J : g[x] = z
    OBVIOUS
  <2> HIDE DEF g, J, New
  <2>4. g \in Bijection(J, New)
    BY <2>1, <2>2, <2>3 DEF Bijection, Injection, Surjection, IsInjective
  <2> QED BY <1>2, <2>4, FS_Bijection DEF ExistsBijection
<1>4. Points(f, T) = Points(f, S) \cup New
  <2>1. ASSUME NEW p \in Points(f, T) PROVE p \in Points(f, S) \cup New
    <3>1. /\ p \in T \X T \X (1 .. BestRating) /\ p[1] <= p[2] /\ p[3] <= RatingOf(f[p[1]])
      BY DEF Points
    <3>2. /\ p = <<p[1], p[2], p[3]>> /\ p[1] \in T /\ p[2] \in T /\ p[3] \in 1 .. BestRating
      BY <3>1
    <3>3. CASE p[1] = i
      <4>1. p[3] \in 1 .. R
        BY <3>1, <3>2, <3>3 DEF BestRating
      <4> DEFINE x == <<p[2], p[3]>>
      <4>2. x \in J /\ p = <<i, x[1], x[2]>>
        BY <3>2, <3>3, <4>1
      <4> QED BY <4>2
    <3>4. CASE p[1] # i
      <4>1. p[1] \in S
        BY <3>2, <3>4
      <4>2. i < p[1] /\ p[1] \in Int /\ p[2] \in Int
        BY <3>2, <4>1
      <4>3. p[2] # i
        BY <3>1, <4>2
      <4>4. p[2] \in S
        BY <3>2, <4>3
      <4>5. p \in S \X S \X (1 .. BestRating)
        BY <3>2, <4>1, <4>4
      <4> QED BY <3>1, <4>5 DEF Points
    <3> QED BY <3>3, <3>4
  <2>2. ASSUME NEW p \in Points(f, S) PROVE p \in Points(f, T)
    <3>1. /\ p \in S \X S \X (1 .. BestRating) /\ p[1] <= p[2] /\ p[3] <= RatingOf(f[p[1]])
      BY DEF Points
    <3>2. p \in T \X T \X (1 .. BestRating)
      BY <3>1
    <3> QED BY <3>1, <3>2 DEF Points
  <2>3. ASSUME NEW x \in J PROVE <<i, x[1], x[2]>> \in Points(f, T)
    <3> DEFINE p == <<i, x[1], x[2]>>
    <3>1. x[1] \in T /\ x[2] \in 1 .. R /\ i \in T
      OBVIOUS
    <3>2. p[1] = i /\ p[2] = x[1] /\ p[3] = x[2]
      OBVIOUS
    <3>3. i <= x[1] /\ x[2] <= R /\ x[2] \in 1 .. BestRating
      <4>1. R \in 0 .. BestRating /\ BestRating \in Int
        BY DEF BestRating
      <4> HIDE DEF R
      <4>2. x[2] <= R /\ x[2] \in 1 .. BestRating
        BY <3>1, <4>1
      <4>3. ASSUME NEW j \in T PROVE i <= j
        <5>1. j = i \/ (j \in S /\ j \in Int /\ i < j)
          OBVIOUS
        <5> QED BY <5>1
      <4>4. i <= x[1]
        BY <3>1, <4>3
      <4> QED BY <4>2, <4>4
    <3>4. p \in T \X T \X (1 .. BestRating)
      BY <3>1, <3>3
    <3> HIDE DEF p, T
    <3>5. p \in Points(f, T)
      BY <3>2, <3>3, <3>4 DEF Points
    <3> QED BY <3>5 DEF p
  <2> QED BY <2>1, <2>2, <2>3
<1>5. Points(f, S) \cap New = {}
  <2>1. ASSUME NEW p \in Points(f, S) PROVE p[1] \in S
    BY DEF Points
  <2>2. ASSUME NEW x \in J PROVE <<i, x[1], x[2]>>[1] = i
    OBVIOUS
  <2> QED BY <1>1, <2>1, <2>2
<1>6. Cardinality(Points(f, S)) \in Nat /\ Cardinality(New) \in Nat
  BY <1>3, FS_CardinalityType
<1>7. /\ IsFiniteSet(Points(f, T))
      /\ Cardinality(Points(f, T)) = Cardinality(Points(f, S)) + Cardinality(New)
  <2> DEFINE P == Points(f, S)
             Q == Points(f, T)
  <2> HIDE DEF P, Q, New
  <2>1. /\ IsFiniteSet(P \cup New)
        /\ Cardinality(P \cup New) = Cardinality(P) + Cardinality(New) - Cardinality(P \cap New)
    BY <1>3, FS_Union DEF P
  <2>2. Cardinality(P \cap New) = 0
    BY <1>5, FS_EmptySet DEF P
  <2>3. Q = P \cup New /\ Cardinality(P) \in Nat
    BY <1>4, <1>6 DEF P, Q
  <2>4. IsFiniteSet(Q) /\ Cardinality(Q) = Cardinality(P) + Cardinality(New)
    BY <1>6, <2>1, <2>2, <2>3
  <2> QED BY <2>4 DEF P, Q
<1>8. Cardinality(New) = R * (Cardinality(S) + 1)
  <2>1. R \in Nat
    BY DEF BestRating
  <2> HIDE DEF R, New, J
  <2> QED BY <1>1, <1>2, <1>3, <2>1
<1> QED BY <1>1, <1>7, <1>8

\* What the loop counts, as long as the sums do not wrap.
IsRating(r) ==
    r = [rating |-> r.rating, best |-> r.best, counter |-> r.counter, base |-> r.base,
         top |-> r.top]

MostOf(n) == 2 * n * (n + 1)

Counts(r, f, S) ==
    LET n == Cardinality(S)
        points == Cardinality(Points(f, S))
    IN  /\ IsFiniteSet(Points(f, S)) /\ points <= MostOf(n)
        /\ MostOf(n) < Word => r.counter = n /\ r.rating = points /\ r.best = MostOf(n)

LEMMA NothingCounts ==
  ASSUME NEW f, NEW r, r.counter = 0, r.rating = 0, r.best = 0
  PROVE  Counts(r, f, {})
<1>1. Points(f, {}) = {}
  <2>1. {} \X {} \X (1 .. BestRating) = {}
    OBVIOUS
  <2> QED BY <2>1 DEF Points
<1>2. IsFiniteSet({}) /\ Cardinality({}) = 0 /\ MostOf(0) = 0
  BY FS_EmptySet DEF MostOf
<1> QED BY <1>1, <1>2 DEF Counts

LEMMA SmallMod ==
  ASSUME NEW x \in Nat, x < Word
  PROVE  x % Word = x
BY ParserAssumption

LEMMA NextMost ==
  ASSUME NEW n \in Nat, NEW r \in {0, 3, 4}
  PROVE  /\ MostOf(n) \in Nat /\ MostOf(n + 1) \in Nat
         /\ MostOf(n + 1) = MostOf(n) + 4 * (n + 1)
         /\ r * (n + 1) \in Nat /\ r * (n + 1) <= 4 * (n + 1)
         /\ n + 1 <= MostOf(n + 1)
<1>1. n * (n + 1) \in Nat /\ (n + 1) * (n + 2) = n * (n + 1) + 2 * (n + 1)
  OBVIOUS
<1>2. MostOf(n) = 2 * (n * (n + 1)) /\ MostOf(n + 1) = 2 * ((n + 1) * (n + 2))
  BY DEF MostOf
<1> QED BY <1>1, <1>2

LEMMA WeighCounts ==
  ASSUME NEW f \in Seq(Frames), NEW i \in 1 .. Len(f), NEW S \in SUBSET (1 .. Len(f)),
         \A j \in S : i < j, NEW r, IsRating(r), Counts(r, f, S)
  PROVE  LET q == Weigh(r, f[i])
             T == IF LineShouldBeIgnored(f[i]) THEN S ELSE S \cup {i}
         IN  IsRating(q) /\ q.base = r.base /\ q.top = r.top /\ Counts(q, f, T)
<1> DEFINE q == Weigh(r, f[i])
           T == S \cup {i}
           n == Cardinality(S)
           R == RatingOf(f[i])
           P == Cardinality(Points(f, S))
           Q == Cardinality(Points(f, T))
<1>1. CASE LineShouldBeIgnored(f[i])
  BY <1>1 DEF Weigh
<1>2. CASE ~LineShouldBeIgnored(f[i])
  <2>1. Len(f) \in Nat /\ n \in Nat /\ R \in {0, 3, 4} /\ BestRating = 4
    <3>1. Len(f) \in Nat
      OBVIOUS
    <3>2. n \in Nat
      BY <3>1, RankIsOneToOne
    <3> QED BY <3>1, <3>2 DEF RatingOf, BestRating
  <2>2. IsFiniteSet(Points(f, S)) /\ P \in Nat /\ P <= MostOf(n)
    BY FS_CardinalityType DEF Counts
  <2>3. IsFiniteSet(Points(f, T)) /\ Cardinality(T) = n + 1 /\ Q = P + R * (n + 1)
    <3>1. RatingOf(f[i]) \in 0 .. BestRating
      BY <2>1
    <3>2. IsFiniteSet(Points(f, S)) /\ Len(f) \in Nat
      BY <2>1, <2>2
    <3> QED BY <3>1, <3>2, MorePoints
  <2>4. q = [r EXCEPT !.counter = (r.counter + 1) % Word,
                      !.rating = (r.rating + R * ((r.counter + 1) % Word)) % Word,
                      !.best = (r.best + 4 * ((r.counter + 1) % Word)) % Word]
    BY <1>2, <2>1 DEF Weigh, IsRating
  <2> HIDE DEF q, n, R, P, Q, T
  <2>5. /\ IsRating(q) /\ q.base = r.base /\ q.top = r.top
        /\ q.counter = (r.counter + 1) % Word
        /\ q.rating = (r.rating + R * ((r.counter + 1) % Word)) % Word
        /\ q.best = (r.best + 4 * ((r.counter + 1) % Word)) % Word
    BY <2>4 DEF IsRating
  <2>6. /\ MostOf(n) \in Nat /\ MostOf(n + 1) = MostOf(n) + 4 * (n + 1)
        /\ R * (n + 1) \in Nat /\ R * (n + 1) <= 4 * (n + 1) /\ n + 1 <= MostOf(n + 1)
    BY <2>1, NextMost
  <2>7. Q \in Nat /\ Q <= MostOf(n + 1) /\ MostOf(n) <= MostOf(n + 1)
    BY <2>1, <2>2, <2>3, <2>6
  <2>8. ASSUME MostOf(n + 1) < Word
        PROVE  q.counter = n + 1 /\ q.rating = Q /\ q.best = MostOf(n + 1)
    <3>1. Word \in Nat
      BY ParserAssumption
    <3>2. MostOf(n) < Word /\ n + 1 < Word /\ Q < Word /\ n + 1 \in Nat /\ MostOf(n + 1) \in Nat
      BY <2>1, <2>6, <2>7, <2>8, <3>1
    <3>3. r.counter = n /\ r.rating = P /\ r.best = MostOf(n)
      BY <3>2 DEF Counts, n, P
    <3>4. (n + 1) % Word = n + 1 /\ Q % Word = Q /\ MostOf(n + 1) % Word = MostOf(n + 1)
      BY <2>7, <2>8, <3>2, SmallMod
    <3> QED BY <2>3, <2>5, <2>6, <3>3, <3>4
  <2>9. Counts(q, f, T)
    BY <2>3, <2>7, <2>8 DEF Counts, Q
  <2> QED BY <1>2, <2>5, <2>9 DEF q, T
<1> QED BY <1>1, <1>2

\* The frames from one on, as they would be without those before it.
RelevantFrom(f, i) ==
    {j \in i .. Len(f) :
        /\ BelowTop(f, j)
        /\ \A k \in i .. j - 1 : LineIsStackBase(f[k]) => ~BelowTop(f, k)
        /\ ~LineShouldBeIgnored(f[j]) /\ ~IsInvalidCall(f, j)}
HasBaseFrom(f, i) == \E j \in i .. Len(f) : LineIsStackBase(f[j]) /\ BelowTop(f, j)

\* What a frame on top of the others makes of them.
LEMMA FrameOnTop ==
  ASSUME NEW f \in Seq(Frames), NEW i \in 1 .. Len(f)
  PROVE  LET line == f[i]
             S == RelevantFrom(f, i + 1)
             T == RelevantFrom(f, i)
         IN  /\ S \in SUBSET (1 .. Len(f)) /\ \A j \in S : i < j
             /\ BelowTop(f, i) <=> BelowTop(f, i + 1) /\ ~LineIsStackTop(line)
             /\ HasBaseFrom(f, i) <=>
                   HasBaseFrom(f, i + 1) \/ (LineIsStackBase(line) /\ BelowTop(f, i))
             /\ ~BelowTop(f, i) \/ IsInvalidCall(f, i) => T = S
             /\ BelowTop(f, i) /\ LineIsStackBase(line)
                   => T = IF LineShouldBeIgnored(line) THEN {} ELSE {i}
             /\ BelowTop(f, i) /\ ~IsInvalidCall(f, i) /\ ~LineIsStackBase(line)
                   => T = IF LineShouldBeIgnored(line) THEN S ELSE S \cup {i}
<1> DEFINE n == Len(f)
           line == f[i]
           S == RelevantFrom(f, i + 1)
           T == RelevantFrom(f, i)
           Base(k) == LineIsStackBase(f[k]) /\ BelowTop(f, k)
           Fit(j) == BelowTop(f, j) /\ ~LineShouldBeIgnored(f[j]) /\ ~IsInvalidCall(f, j)
<1>1. n \in Nat /\ i \in 1 .. n /\ i \in Int
  OBVIOUS
<1> HIDE DEF n
<1>2. \A j \in i .. n : j = i \/ j \in i + 1 .. n
  BY <1>1
<1>3. i \in i .. n /\ \A j \in i + 1 .. n : j \in i .. n /\ j \in 1 .. n /\ i < j
  BY <1>1
<1>4. BelowTop(f, i) <=> BelowTop(f, i + 1) /\ ~LineIsStackTop(line)
  BY <1>2, <1>3 DEF BelowTop, n
<1>5. HasBaseFrom(f, i) <=> HasBaseFrom(f, i + 1) \/ (LineIsStackBase(line) /\ BelowTop(f, i))
  BY <1>2, <1>3 DEF HasBaseFrom, n
<1>6. S = {j \in i + 1 .. n : Fit(j) /\ \A k \in i + 1 .. j - 1 : ~Base(k)}
  BY DEF RelevantFrom, n
<1>7. T = {j \in i .. n : Fit(j) /\ \A k \in i .. j - 1 : ~Base(k)}
  BY DEF RelevantFrom, n
<1>8. IsInvalidCall(f, i) => ~Base(i) /\ ~Fit(i)
  BY DEF IsInvalidCall, LineIsStackBase
<1>9. ~BelowTop(f, i) => ~Base(i) /\ ~Fit(i)
  OBVIOUS
<1>10. LineIsStackBase(line) => ~IsInvalidCall(f, i)
  BY DEF IsInvalidCall, LineIsStackBase
<1>11. Fit(i) <=> BelowTop(f, i) /\ ~LineShouldBeIgnored(line) /\ ~IsInvalidCall(f, i)
  OBVIOUS
<1>12. Base(i) <=> LineIsStackBase(line) /\ BelowTop(f, i)
  OBVIOUS
<1> HIDE DEF S, T, Base, Fit, line
<1>13. i \in T <=> Fit(i)
  <2>1. \A k \in i .. i - 1 : FALSE
    BY <1>1
  <2> QED BY <1>3, <1>7, <2>1
<1>14. ASSUME NEW j \in i + 1 .. n PROVE j \in T <=> j \in S /\ ~Base(i)
  <2>1. \A k \in i .. j - 1 : k = i \/ k \in i + 1 .. j - 1
    BY <1>1
  <2>2. i \in i .. j - 1 /\ \A k \in i + 1 .. j - 1 : k \in i .. j - 1
    BY <1>1
  <2>3. (\A k \in i .. j - 1 : ~Base(k)) <=> ~Base(i) /\ \A k \in i + 1 .. j - 1 : ~Base(k)
    BY <2>1, <2>2
  <2> QED BY <1>3, <1>6, <1>7, <2>3
<1>15. S \subseteq i + 1 .. n /\ T \subseteq i .. n
  BY <1>6, <1>7
<1>16. ~Base(i) => T = IF Fit(i) THEN S \cup {i} ELSE S
  <2>1. \A j \in T : j = i \/ j \in i + 1 .. n
    BY <1>2, <1>15
  <2>2. \A j \in S : j \in i + 1 .. n
    BY <1>15
  <2>3. CASE ~Base(i) /\ Fit(i)
    <3>1. T \subseteq S \cup {i}
      BY <1>14, <2>1, <2>3
    <3>2. S \cup {i} \subseteq T
      BY <1>13, <1>14, <2>2, <2>3
    <3> QED BY <2>3, <3>1, <3>2
  <2>4. CASE ~Base(i) /\ ~Fit(i)
    <3>1. T \subseteq S
      BY <1>13, <1>14, <2>1, <2>4
    <3>2. S \subseteq T
      BY <1>14, <2>2, <2>4
    <3> QED BY <2>4, <3>1, <3>2
  <2> QED BY <2>3, <2>4
<1>17. Base(i) => T = IF Fit(i) THEN {i} ELSE {}
  <2>1. \A j \in T : j = i \/ j \in i + 1 .. n
    BY <1>2, <1>15
  <2> QED BY <1>13, <1>14, <2>1
<1>18. S \in SUBSET (1 .. n) /\ \A j \in S : i < j
  BY <1>3, <1>15
<1>19. ~BelowTop(f, i) \/ IsInvalidCall(f, i) => T = S
  BY <1>8, <1>9, <1>16
<1>20. BelowTop(f, i) /\ LineIsStackBase(line)
         => T = IF LineShouldBeIgnored(line) THEN {} ELSE {i}
  BY <1>10, <1>11, <1>12, <1>17
<1>21. BelowTop(f, i) /\ ~IsInvalidCall(f, i) /\ ~LineIsStackBase(line)
         => T = IF LineShouldBeIgnored(line) THEN S ELSE S \cup {i}
  BY <1>11, <1>12, <1>16
<1> QED BY <1>4, <1>5, <1>18, <1>19, <1>20, <1>21 DEF n, S, T, line

\* The loop invariant of calculateRatingData().
Rates(r, f, i) ==
    /\ IsRating(r)
    /\ r.top = ~BelowTop(f, i) /\ r.base = HasBaseFrom(f, i)
    /\ Counts(r, f, RelevantFrom(f, i))

LEMMA RateLineRates ==
  ASSUME NEW f \in Seq(Frames), NEW i \in 1 .. Len(f), NEW r, Rates(r, f, i + 1)
  PROVE  Rates(RateLine(r, f, i), f, i)
<1> DEFINE line == f[i]
           S == RelevantFrom(f, i + 1)
           T == RelevantFrom(f, i)
           q == RateLine(r, f, i)
<1>1. /\ S \in SUBSET (1 .. Len(f)) /\ \A j \in S : i < j
      /\ BelowTop(f, i) <=> BelowTop(f, i + 1) /\ ~LineIsStackTop(line)
      /\ HasBaseFrom(f, i) <=>
            HasBaseFrom(f, i + 1) \/ (LineIsStackBase(line) /\ BelowTop(f, i))
      /\ ~BelowTop(f, i) \/ IsInvalidCall(f, i) => T = S
      /\ BelowTop(f, i) /\ LineIsStackBase(line)
            => T = IF LineShouldBeIgnored(line) THEN {} ELSE {i}
      /\ BelowTop(f, i) /\ ~IsInvalidCall(f, i) /\ ~LineIsStackBase(line)
            => T = IF LineShouldBeIgnored(line) THEN S ELSE S \cup {i}
  BY FrameOnTop
<1>2. /\ IsRating(r) /\ Counts(r, f, S)
      /\ r.top = ~BelowTop(f, i + 1) /\ r.base = HasBaseFrom(f, i + 1)
  BY DEF Rates
<1>3. IsInvalidCall(f, i) => ~LineIsStackBase(line) /\ ~LineIsStackTop(line)
  BY DEF IsInvalidCall, LineIsStackBase, LineIsStackTop
<1>4. ~(LineIsStackBase(line) /\ LineIsStackTop(line))
  BY DEF LineIsStackBase, LineIsStackTop
<1>5. /\ BelowTop(f, i) \in BOOLEAN /\ BelowTop(f, i + 1) \in BOOLEAN
      /\ HasBaseFrom(f, i) \in BOOLEAN /\ HasBaseFrom(f, i + 1) \in BOOLEAN
  BY DEF BelowTop, HasBaseFrom
<1>6. CASE ~BelowTop(f, i + 1) \/ IsInvalidCall(f, i)
  <2>1. q = r
    BY <1>2, <1>6 DEF RateLine
  <2>2. T = S
    BY <1>1, <1>6
  <2>3. BelowTop(f, i) = BelowTop(f, i + 1)
    BY <1>1, <1>3, <1>5, <1>6
  <2>4. HasBaseFrom(f, i) = HasBaseFrom(f, i + 1)
    BY <1>1, <1>3, <1>5, <1>6
  <2> HIDE DEF q
  <2> QED BY <1>2, <2>1, <2>2, <2>3, <2>4 DEF Rates, q
<1>7. CASE BelowTop(f, i + 1) /\ ~IsInvalidCall(f, i) /\ LineIsStackBase(line)
  <2> DEFINE r0 == [NoRating EXCEPT !.base = TRUE]
  <2>1. q = Weigh(r0, line)
    BY <1>2, <1>7 DEF RateLine
  <2>2. /\ IsRating(r0) /\ r0.counter = 0 /\ r0.rating = 0 /\ r0.best = 0
        /\ r0.base = TRUE /\ r0.top = FALSE
    <3> DEFINE yes == TRUE
               no == FALSE
    <3>1. NoRating = [rating |-> 0, best |-> 0, counter |-> 0, base |-> no, top |-> no]
      BY DEF NoRating
    <3>2. r0 = [NoRating EXCEPT !.base = yes]
      OBVIOUS
    <3> HIDE DEF r0, yes, no
    <3>3. /\ IsRating(r0) /\ r0.counter = 0 /\ r0.rating = 0 /\ r0.best = 0
          /\ r0.base = yes /\ r0.top = no
      BY <3>1, <3>2 DEF IsRating
    <3> QED BY <3>3 DEF yes, no
  <2> HIDE DEF r0, q
  <2>3. Counts(r0, f, {})
    BY <2>2, NothingCounts
  <2>4. /\ IsRating(q) /\ q.base = TRUE /\ q.top = FALSE
        /\ Counts(q, f, IF LineShouldBeIgnored(line) THEN {} ELSE {} \cup {i})
    <3>1. {} \in SUBSET (1 .. Len(f)) /\ \A j \in {} : i < j
      OBVIOUS
    <3> QED BY <2>1, <2>2, <2>3, <3>1, WeighCounts
  <2>5. BelowTop(f, i) = TRUE /\ HasBaseFrom(f, i) = TRUE
    BY <1>1, <1>4, <1>5, <1>7
  <2>6. T = IF LineShouldBeIgnored(line) THEN {} ELSE {} \cup {i}
    BY <1>1, <1>7, <2>5
  <2> QED BY <2>4, <2>5, <2>6 DEF Rates, q
<1>8. CASE /\ BelowTop(f, i + 1) /\ ~IsInvalidCall(f, i)
           /\ ~LineIsStackBase(line) /\ LineIsStackTop(line)
  <2>1. q = [r EXCEPT !.top = TRUE]
    BY <1>2, <1>8 DEF RateLine
  <2> HIDE DEF q
  <2>2. /\ IsRating(q) /\ q.top = TRUE /\ q.base = r.base /\ q.counter = r.counter
        /\ q.rating = r.rating /\ q.best = r.best
    BY <1>2, <2>1 DEF IsRating
  <2>3. BelowTop(f, i) = FALSE /\ HasBaseFrom(f, i) = HasBaseFrom(f, i + 1) /\ T = S
    BY <1>1, <1>5, <1>8
  <2>4. Counts(q, f, S)
    BY <1>2, <2>2 DEF Counts
  <2> QED BY <1>2, <2>2, <2>3, <2>4 DEF Rates, q
<1>9. CASE /\ BelowTop(f, i + 1) /\ ~IsInvalidCall(f, i)
           /\ ~LineIsStackBase(line) /\ ~LineIsStackTop(line)
  <2>1. q = Weigh(r, line)
    BY <1>2, <1>9 DEF RateLine
  <2> HIDE DEF q
  <2>2. /\ IsRating(q) /\ q.base = r.base /\ q.top = r.top
        /\ Counts(q, f, IF LineShouldBeIgnored(line) THEN S ELSE S \cup {i})
    <3> HIDE DEF S
    <3>1. /\ S \in SUBSET (1 .. Len(f)) /\ (\A j \in S : i < j)
          /\ IsRating(r) /\ Counts(r, f, S)
      BY <1>1, <1>2
    <3> QED BY <2>1, <3>1, WeighCounts
  <2>3. BelowTop(f, i) = BelowTop(f, i + 1) /\ HasBaseFrom(f, i) = HasBaseFrom(f, i + 1)
    BY <1>1, <1>5, <1>9
  <2>4. T = IF LineShouldBeIgnored(line) THEN S ELSE S \cup {i}
    BY <1>1, <1>9, <2>3
  <2> QED BY <1>2, <2>2, <2>3, <2>4 DEF Rates, q
<1> QED BY <1>6, <1>7, <1>8, <1>9

\* So the loop ends with what the reference definitions say of the frames.
LEMMA RateTraceRates ==
  ASSUME NEW f \in Seq(Frames)
  PROVE  Rates(RateTrace(f), f, 1)
<1> DEFINE n == Len(f)
           R == RatingFrom(f)
           Bad == {i \in 1 .. n + 1 : ~Rates(R[i], f, i)}
<1>1. n \in Nat
  OBVIOUS
<1>2. Steps(f, R, 1)
  BY <1>1, LoopIsRecursive
<1> HIDE DEF R
<1>3. Rates(R[n + 1], f, n + 1)
  <2>1. R[n + 1] = NoRating
    <3>1. n + 1 \in 1 .. n + 1 /\ n + 1 > n
      BY <1>1
    <3> QED BY <1>2, <3>1 DEF Steps
  <2>2. IsRating(NoRating) /\ NoRating.top = FALSE /\ NoRating.base = FALSE
    BY DEF NoRating, IsRating
  <2>3. \A j \in n + 1 .. n : FALSE
    BY <1>1
  <2>4. BelowTop(f, n + 1) = TRUE /\ HasBaseFrom(f, n + 1) = FALSE
    BY <2>3 DEF BelowTop, HasBaseFrom
  <2>5. RelevantFrom(f, n + 1) = {}
    BY <2>3 DEF RelevantFrom
  <2>6. Counts(NoRating, f, {})
    <3>1. NoRating.counter = 0 /\ NoRating.rating = 0 /\ NoRating.best = 0
      BY DEF NoRating
    <3> QED BY <3>1, NothingCounts
  <2> QED BY <2>1, <2>2, <2>4, <2>5, <2>6 DEF Rates
<1>4. ASSUME Bad # {} PROVE FALSE
  <2>1. n + 1 \in Nat /\ Bad \in SUBSET (1 .. n + 1)
    BY <1>1
  <2>2. PICK b \in Bad : \A m \in Bad : m <= b
    <3> HIDE DEF Bad
    <3> QED BY <1>4, <2>1, Greatest
  <2>3. b \in 1 .. n + 1 /\ ~Rates(R[b], f, b)
    OBVIOUS
  <2>4. b \in 1 .. n /\ b + 1 \in 1 .. n + 1 /\ ~(b + 1 <= b) /\ ~(b > n)
    BY <1>1, <1>3, <2>3
  <2>5. Rates(R[b + 1], f, b + 1)
    BY <2>2, <2>4
  <2>6. R[b] = RateLine(R[b + 1], f, b)
    BY <1>2, <2>3, <2>4 DEF Steps
  <2> QED BY <2>3, <2>4, <2>5, <2>6, RateLineRates
<1>5. 1 \in 1 .. n + 1
  BY <1>1
<1>6. Rates(R[1], f, 1)
  BY <1>4, <1>5
<1> QED BY <1>6 DEF R, RateTrace

LEMMA ThreeOfThem ==
  /\ Cardinality({}) = 0 /\ Cardinality({40}) = 1 /\ Cardinality({40, 70}) = 2
  /\ Cardinality({40, 70, 90}) = 3
<1>1. Cardinality({}) = 0 /\ Cardinality({40}) = 1 /\ IsFiniteSet({40})
  BY FS_EmptySet, FS_Singleton
<1>2. Cardinality({40} \cup {70}) = 2 /\ IsFiniteSet({40} \cup {70})
  <2>1. 70 \notin {40}
    OBVIOUS
  <2> QED BY <1>1, <2>1, FS_AddElement
<1>3. Cardinality({40, 70} \cup {90}) = 3
  <2>1. 90 \notin {40, 70} /\ {40} \cup {70} = {40, 70}
    OBVIOUS
  <2>2. Cardinality({40, 70}) = 2 /\ IsFiniteSet({40, 70})
    BY <1>2, <2>1
  <2> QED BY <2>1, <2>2, FS_AddElement
<1>4. {40} \cup {70} = {40, 70} /\ {40, 70} \cup {90} = {40, 70, 90}
  OBVIOUS
<1> QED BY <1>1, <1>2, <1>3, <1>4

\* The levels are those of the weighted mean.
LEMMA VerdictIsVerdict ==
  ASSUME NEW f \in Seq(Frames), Most(f) < Word
  PROVE  Verdict(RateTrace(f)) = VerdictOn(f)
<1> DEFINE r == RateTrace(f)
           S == Relevant(f)
           n == Cardinality(S)
           sum == Sum(f)
           most == Most(f)
           level == IF 100 * r.rating >= 90 * r.best THEN ReallyUseful
                    ELSE IF 100 * r.rating >= 70 * r.best THEN MayBeUseful
                    ELSE IF 100 * r.rating >= 40 * r.best THEN ProbablyUseless
                    ELSE Useless
<1>1. DOMAIN f = 1 .. Len(f) /\ Len(f) \in Nat
  OBVIOUS
<1>2. RelevantFrom(f, 1) = S /\ HasBaseFrom(f, 1) = HasBase(f)
  BY <1>1 DEF Relevant, RelevantFrom, HasBase, HasBaseFrom
<1>3. S \in SUBSET (1 .. Len(f)) /\ n \in Nat
  <2>1. S \in SUBSET (1 .. Len(f))
    BY <1>1 DEF Relevant
  <2> QED BY <1>1, <2>1, RankIsOneToOne
<1>4. IsFiniteSet(S)
  BY <1>1, <1>3, RankIsOneToOne
<1>5. most = MostOf(n)
  BY DEF Most, MostOf
<1>6. /\ r.counter = n /\ r.rating = sum /\ r.best = most /\ r.base = HasBase(f)
      /\ sum \in Nat
  <2>1. Rates(r, f, 1)
    BY RateTraceRates
  <2> HIDE DEF r
  <2>2. Counts(r, f, S) /\ r.base = HasBase(f)
    BY <1>2, <2>1 DEF Rates
  <2>3. MostOf(n) < Word
    BY <1>5
  <2>4. Cardinality(Points(f, S)) \in Nat
    BY <2>2, FS_CardinalityType DEF Counts
  <2> QED BY <1>5, <2>2, <2>3, <2>4 DEF Counts, Sum
<1>7. most \in Nat
  <2> HIDE DEF n
  <2> QED BY <1>3, <1>5, NextMost
<1>8. Verdict(r) = IF r.base THEN level
                   ELSE IF r.counter < 1 THEN Useless
                   ELSE IF level > Useless THEN level - 1 ELSE level
  <2> HIDE DEF r
  <2> QED BY DEF Verdict
<1>9. n < 1 <=> S = {}
  BY <1>3, <1>4, FS_EmptySet
<1> HIDE DEF r, S, n, sum, most
<1>10. level = Grade(f)
  <2> DEFINE P == {percent \in {40, 70, 90} : 100 * sum >= percent * most}
  <2>1. Grade(f) = 1 + Cardinality(P)
    BY DEF Grade, sum, most
  <2>0. level = IF 100 * sum >= 90 * most THEN 4 ELSE IF 100 * sum >= 70 * most THEN 3
                ELSE IF 100 * sum >= 40 * most THEN 2 ELSE 1
    BY <1>6 DEF ReallyUseful, MayBeUseful, ProbablyUseless, Useless
  <2> HIDE DEF level
  <2>2. CASE 100 * sum >= 90 * most
    <3>1. P = {40, 70, 90}
      BY <1>6, <1>7, <2>2
    <3>2. Cardinality({40, 70, 90}) = 3
      BY ThreeOfThem
    <3> HIDE DEF P
    <3> QED BY <2>0, <2>1, <2>2, <3>1, <3>2
  <2>3. CASE ~(100 * sum >= 90 * most) /\ 100 * sum >= 70 * most
    <3>1. P = {40, 70}
      BY <1>6, <1>7, <2>3
    <3>2. Cardinality({40, 70}) = 2
      BY ThreeOfThem
    <3> HIDE DEF P
    <3> QED BY <2>0, <2>1, <2>3, <3>1, <3>2
  <2>4. CASE ~(100 * sum >= 70 * most) /\ 100 * sum >= 40 * most
    <3>1. P = {40} /\ ~(100 * sum >= 90 * most)
      BY <1>6, <1>7, <2>4
    <3>2. Cardinality({40}) = 1
      BY ThreeOfThem
    <3> HIDE DEF P
    <3> QED BY <2>0, <2>1, <2>4, <3>1, <3>2
  <2>5. CASE ~(100 * sum >= 40 * most)
    <3>1. P = {} /\ ~(100 * sum >= 90 * most) /\ ~(100 * sum >= 70 * most)
      BY <1>6, <1>7, <2>5
    <3>2. Cardinality({}) = 0
      BY ThreeOfThem
    <3> HIDE DEF P
    <3> QED BY <2>0, <2>1, <2>5, <3>1, <3>2
  <2> QED BY <2>2, <2>3, <2>4, <2>5
<1>11. level \in 1 .. 4
  BY DEF Useless, ProbablyUseless, MayBeUseful, ReallyUseful
<1> HIDE DEF level
<1> QED BY <1>6, <1>8, <1>9, <1>10, <1>11 DEF VerdictOn, Useless, r, S, n

LEMMA FramesAreRated ==
  ASSUME NEW w \in Seq(Kinds)
  PROVE  ToRate(w) \in Seq(Frames)
<1>1. Len(w) \in Nat /\ RatedIn(w) \in SUBSET (1 .. Len(w))
  BY DEF RatedIn
<1>2. \A i \in RatedIn(w) : w[i] \in Frames
  BY DEF RatedIn
<1> QED BY <1>1, <1>2, SelectType DEF ToRate

-----------------------------------------------------------------------------
(* The run. *)

\* newLine() holds the last line back; so far it is as the debugger wrote it.
Behind(p, f) ==
    IF f = <<>> THEN p.buffer = NoLine
    ELSE \E h \in Heads(f) : IsLast(f, h) /\ p.buffer = LineAt(f, h)

GdbInv ==
    /\ fed \in Seq(GdbLines) /\ ended \in BOOLEAN
    /\ IsParser(d) /\ Follows(d, Whole)
    /\ ended \/ Behind(d, fed)
    /\ d.usefulness = Invalid \/ d.usefulness = Verdict(RateTrace(d.rate))
ParserInv == debugger = "gdb" => GdbInv

\* A parser that has seen nothing has made nothing of it.
LEMMA NewParserFollows ==
  LET p == ConstructPrivate("gdb")
  IN  /\ IsParser(p) /\ p.usefulness = Invalid /\ p.buffer = NoLine
      /\ \A over \in BOOLEAN : Follows(p, PutTogether(<<>>, over))
<1> DEFINE p == ConstructPrivate("gdb")
<1>1. /\ IsParser(p) /\ p.usefulness = Invalid /\ p.buffer = NoLine /\ p.lines = <<>>
      /\ p.rate = <<>> /\ p.below = FALSE /\ p.zero = FALSE /\ p.start = 0
  BY DEF ConstructPrivate, IsParser
<1> HIDE DEF p
<1>2. Follows(p, <<>>)
  <2> DEFINE w == <<>>
  <2>1. w \in Seq(Kinds) /\ Len(w) = 0 /\ DOMAIN w = {}
    OBVIOUS
  <2> HIDE DEF w
  <2>2. Threaded(w)
    <3>1. IsThread(w, 0, 0)
      BY DEF IsThread
    <3>2. ThreadOf(w, 0) = 0
      BY <3>1, ThreadIsOne
    <3>3. \A i \in 0 .. Len(w) : i = 0
      BY <2>1
    <3> QED BY <3>1, <3>2, <3>3 DEF Threaded
  <2>3. ShownIn(w) = {} /\ RatedIn(w) = {}
    BY <2>1 DEF ShownIn, RatedIn
  <2>4. \A v : Selected(v, {}) = <<>>
    BY FS_EmptySet DEF Selected
  <2>5. ToShow(w) = <<>> /\ ToRate(w) = <<>>
    BY <2>3, <2>4 DEF ToShow, ToRate
  <2>6. SeenHandler(w) = FALSE /\ SeenFirst(w) = FALSE
    BY <2>1 DEF SeenHandler, SeenFirst
  <2>7. Cardinality({i \in ShownIn(w) : i <= Current(w)}) = 0
    <3>1. {i \in ShownIn(w) : i <= Current(w)} = {}
      BY <2>3
    <3> QED BY <3>1, FS_EmptySet
  <2> QED BY <1>1, <2>1, <2>2, <2>5, <2>6, <2>7 DEF Follows, w
<1> QED BY <1>1, <1>2, TheFirstLine DEF p

LEMMA NewParserInv ==
  ASSUME NEW over \in BOOLEAN
  PROVE  LET p == ConstructPrivate("gdb")
         IN  /\ <<>> \in Seq(GdbLines) /\ IsParser(p) /\ Follows(p, PutTogether(<<>>, over))
             /\ Behind(p, <<>>) /\ p.usefulness = Invalid
BY NewParserFollows DEF Behind

\* A parser that is otherwise the same follows the same lines.
LEMMA FollowsStill ==
  ASSUME NEW p, NEW q, NEW w, Follows(p, w), q.lines = p.lines, q.rate = p.rate,
         q.below = p.below, q.zero = p.zero, q.start = p.start
  PROVE  Follows(q, w)
BY DEF Follows

\* The line that newLine() holds back.
LEMMA LineRecord ==
  ASSUME NEW head, NEW tail, NEW other
  PROVE  LET l == [head |-> head, tail |-> tail]
         IN  /\ l.head = head /\ [l EXCEPT !.head = other] = [head |-> other, tail |-> tail]
             /\ [l EXCEPT !.tail = other] = [head |-> head, tail |-> other]
OBVIOUS

LEMMA NoLineRecord ==
  /\ NoLine.head = ""
  /\ \A line : [NoLine EXCEPT !.head = line] = [head |-> line, tail |-> FALSE]
<1> DEFINE no == FALSE
           none == ""
<1>1. NoLine = [head |-> none, tail |-> no]
  BY DEF NoLine
<1> HIDE DEF no, none
<1>2. ASSUME NEW line
      PROVE  /\ NoLine.head = none
             /\ [NoLine EXCEPT !.head = line] = [head |-> line, tail |-> no]
  BY <1>1, LineRecord
<1> QED BY <1>2 DEF no, none

LEMMA LastLine ==
  ASSUME NEW f \in Seq(GdbLines), NEW h, IsLast(f, h)
  PROVE  \E tail : LineAt(f, h) = [head |-> f[h], tail |-> tail] /\ f[h] \in GdbLines \ {""}
<1> DEFINE tail == h < Len(f) /\ h + 1 \notin Heads(f)
<1>1. LineAt(f, h) = [head |-> f[h], tail |-> tail]
  BY DEF LineAt
<1>2. f[h] \in GdbLines
  BY DEF IsLast, Heads
<1>3. "" \notin GdbLines
  BY ParserAssumption DEF Frames, OtherLines
<1> HIDE DEF tail
<1> QED BY <1>1, <1>2, <1>3

\* newLine() takes in what is complete by it.
LEMMA NewLineFollows ==
  ASSUME NEW p, NEW f \in Seq(GdbLines), NEW h, IsLast(f, h), p.buffer = LineAt(f, h),
         IsParser(p), Follows(p, PutTogether(f, FALSE)), NEW line, line # "tail"
  PROVE  LET q == Invalidate(NewLineGdb(p, line))
         IN  /\ IsParser(q) /\ q.usefulness = Invalid
             /\ q.buffer = [head |-> line, tail |-> FALSE]
             /\ Follows(q, PutTogether(f, TRUE))
<1> DEFINE whole == Joined(p.buffer)
           r == ParseLine(p, whole)
           q == Invalidate(NewLineGdb(p, line))
<1>1. /\ whole \in Kinds /\ p.buffer # NoLine
      /\ PutTogether(f, TRUE) = Append(PutTogether(f, FALSE), whole)
  <2>1. PICK tail : p.buffer = [head |-> f[h], tail |-> tail] /\ f[h] \in GdbLines \ {""}
    BY LastLine
  <2>2. p.buffer.head # "" /\ NoLine.head = ""
    <3>1. p.buffer.head = f[h]
      <4>1. [head |-> f[h], tail |-> tail].head = f[h]
        BY LineRecord
      <4> QED BY <2>1, <4>1
    <3>2. f[h] # ""
      BY <2>1
    <3> QED BY <3>1, <3>2, NoLineRecord
  <2>3. p.buffer # NoLine
    BY <2>2
  <2>4. whole \in Kinds
    BY <2>1, JoinedIsALine
  <2> QED BY <2>3, <2>4, AllButTheLast
<1> HIDE DEF whole
<1>2. IsParser(r) /\ Follows(r, PutTogether(f, TRUE))
  BY <1>1, ParseLineFollows
<1>3. q = [r EXCEPT !.buffer = [head |-> line, tail |-> FALSE], !.usefulness = Invalid]
  <2>1. NewLineGdb(p, line) = [r EXCEPT !.buffer = [NoLine EXCEPT !.head = line]]
    BY <1>1 DEF NewLineGdb, whole
  <2>2. [NoLine EXCEPT !.head = line] = [head |-> line, tail |-> FALSE]
    BY NoLineRecord
  <2> HIDE DEF r
  <2> QED BY <1>2, <2>1, <2>2 DEF Invalidate, IsParser
<1> HIDE DEF r, q
<1>4. /\ IsParser(q) /\ q.lines = r.lines /\ q.rate = r.rate /\ q.below = r.below
      /\ q.zero = r.zero /\ q.start = r.start /\ q.usefulness = Invalid
      /\ q.buffer = [head |-> line, tail |-> FALSE]
  BY <1>2, <1>3 DEF IsParser
<1>5. Follows(q, PutTogether(f, TRUE))
  BY <1>2, <1>4, FollowsStill
<1> QED BY <1>4, <1>5 DEF q

\* What a line, or the end as a line of no kind, is to a parser with an empty buffer.
LEMMA NewLineBegins ==
  ASSUME NEW p, NEW w, p.buffer = NoLine, IsParser(p), Follows(p, w), NEW line
  PROVE  LET q == Invalidate(NewLineGdb(p, line))
         IN  /\ IsParser(q) /\ q.usefulness = Invalid
             /\ q.buffer = [head |-> line, tail |-> FALSE] /\ Follows(q, w)
<1> DEFINE q == Invalidate(NewLineGdb(p, line))
<1>1. q = [p EXCEPT !.buffer = [head |-> line, tail |-> FALSE], !.usefulness = Invalid]
  <2>1. NewLineGdb(p, line) = [p EXCEPT !.buffer = [NoLine EXCEPT !.head = line]]
    BY DEF NewLineGdb
  <2>2. [NoLine EXCEPT !.head = line] = [head |-> line, tail |-> FALSE]
    BY NoLineRecord
  <2> QED BY <2>1, <2>2 DEF Invalidate, IsParser
<1> HIDE DEF q
<1>2. /\ IsParser(q) /\ q.lines = p.lines /\ q.rate = p.rate /\ q.below = p.below
      /\ q.zero = p.zero /\ q.start = p.start /\ q.usefulness = Invalid
      /\ q.buffer = [head |-> line, tail |-> FALSE]
  BY <1>1 DEF IsParser
<1> QED BY <1>2, FollowsStill DEF q

\* A tail stays with the line it ends.
LEMMA TailFollows ==
  ASSUME NEW p, NEW f \in Seq(GdbLines), NEW h, IsLast(f, h), p.buffer = LineAt(f, h),
         IsParser(p), NEW w, Follows(p, w)
  PROVE  LET q == Invalidate(NewLineGdb(p, "tail"))
         IN  /\ IsParser(q) /\ q.usefulness = Invalid
             /\ q.buffer = [head |-> f[h], tail |-> TRUE] /\ Follows(q, w)
<1> DEFINE q == Invalidate(NewLineGdb(p, "tail"))
<1>1. PICK tail : p.buffer = [head |-> f[h], tail |-> tail] /\ p.buffer # NoLine
  <2>1. PICK tail : p.buffer = [head |-> f[h], tail |-> tail] /\ f[h] \in GdbLines \ {""}
    BY LastLine
  <2>2. p.buffer.head # "" /\ NoLine.head = ""
    <3>1. p.buffer.head = f[h]
      <4>1. [head |-> f[h], tail |-> tail].head = f[h]
        BY LineRecord
      <4> QED BY <2>1, <4>1
    <3>2. f[h] # ""
      BY <2>1
    <3> QED BY <3>1, <3>2, NoLineRecord
  <2> QED BY <2>1, <2>2
<1>2. q = [p EXCEPT !.buffer = [head |-> f[h], tail |-> TRUE], !.usefulness = Invalid]
  <2>1. NewLineGdb(p, "tail") = [p EXCEPT !.buffer = [p.buffer EXCEPT !.tail = TRUE]]
    BY <1>1 DEF NewLineGdb, IsParser
  <2>2. [p.buffer EXCEPT !.tail = TRUE] = [head |-> f[h], tail |-> TRUE]
    <3> DEFINE yes == TRUE
    <3> HIDE DEF yes
    <3>1. [p.buffer EXCEPT !.tail = yes] = [head |-> f[h], tail |-> yes]
      BY <1>1
    <3> QED BY <3>1 DEF yes
  <2> QED BY <2>1, <2>2 DEF Invalidate, IsParser
<1> HIDE DEF q
<1>3. /\ IsParser(q) /\ q.lines = p.lines /\ q.rate = p.rate /\ q.below = p.below
      /\ q.zero = p.zero /\ q.start = p.start /\ q.usefulness = Invalid
      /\ q.buffer = [head |-> f[h], tail |-> TRUE]
  BY <1>2 DEF IsParser
<1> QED BY <1>3, FollowsStill DEF q

LEMMA ParserInitOK == Init => ParserInv
<1>1. ASSUME Init, debugger = "gdb" PROVE GdbInv
  <2>1. d = ConstructPrivate("gdb") /\ fed = <<>> /\ ended = FALSE
    BY <1>1 DEF Init
  <2> QED BY <2>1, NewParserInv DEF GdbInv, Whole
<1> QED BY <1>1 DEF ParserInv

LEMMA ParserInvStep == ParserInv /\ [Next]_vars => ParserInv'
<1> SUFFICES ASSUME ParserInv, [Next]_vars, debugger' = "gdb" PROVE GdbInv'
  BY DEF ParserInv
<1>1. GdbInv /\ debugger = "gdb"
  BY DEF ParserInv, Next, ResetState, GetLine, End, Ask, vars
<1>2. CASE ResetState
  <2>1. d' = ConstructPrivate("gdb") /\ fed' = <<>> /\ ended' = FALSE
    BY <1>1, <1>2 DEF ResetState
  <2> QED BY <2>1, NewParserInv DEF GdbInv, Whole
<1>3. ASSUME NEW line \in LinesOf(debugger), GetLine(line) PROVE GdbInv'
  <2>1. /\ line \in GdbLines /\ ~ended /\ ended' = ended /\ fed' = Append(fed, line)
        /\ d' = Invalidate(NewLineGdb(d, line))
    BY <1>1, <1>3 DEF GetLine, LinesOf, NewLine
  <2>2. /\ fed \in Seq(GdbLines) /\ IsParser(d) /\ Behind(d, fed) /\ ended = FALSE
        /\ Follows(d, PutTogether(fed, FALSE))
    BY <1>1, <2>1 DEF GdbInv, Whole
  <2>3. fed' \in Seq(GdbLines) /\ ended' = FALSE
    BY <2>1, <2>2
  <2>4. /\ IsParser(d') /\ d'.usefulness = Invalid /\ Behind(d', fed')
        /\ Follows(d', PutTogether(fed', FALSE))
    <3>1. CASE fed = <<>>
      <4>1. fed' = <<line>> /\ d.buffer = NoLine
        BY <2>1, <2>2, <3>1 DEF Behind
      <4>2. /\ IsParser(d') /\ d'.usefulness = Invalid
            /\ d'.buffer = [head |-> line, tail |-> FALSE]
            /\ Follows(d', PutTogether(fed, FALSE))
        BY <2>1, <2>2, <4>1, NewLineBegins
      <4>3. PutTogether(fed', FALSE) = PutTogether(fed, FALSE)
        BY <3>1, <4>1, TheFirstLine
      <4>4. Behind(d', fed')
        <5>1. fed' # <<>> /\ IsLast(fed', 1) /\ d'.buffer = LineAt(fed', 1)
          BY <4>1, <4>2, TheFirstLine
        <5> QED BY <5>1 DEF Behind, IsLast
      <4> QED BY <4>2, <4>3, <4>4
    <3>2. CASE fed # <<>>
      <4>1. PICK h \in Heads(fed) : IsLast(fed, h) /\ d.buffer = LineAt(fed, h)
        BY <2>2, <3>2 DEF Behind
      <4>2. fed' # <<>>
        BY <2>1, <2>2
      <4>3. CASE line = "tail"
        <5>1. /\ IsParser(d') /\ d'.usefulness = Invalid
              /\ d'.buffer = [head |-> fed[h], tail |-> TRUE]
              /\ Follows(d', PutTogether(fed, FALSE))
          BY <2>1, <2>2, <4>1, <4>3, TailFollows
        <5>2. /\ IsLast(fed', h) /\ PutTogether(fed', FALSE) = PutTogether(fed, FALSE)
              /\ LineAt(fed', h) = [head |-> fed[h], tail |-> TRUE]
          BY <2>1, <2>2, <4>1, <4>3, TheNextLine
        <5> QED BY <4>2, <5>1, <5>2 DEF Behind, IsLast
      <4>4. CASE line # "tail"
        <5> DEFINE next == Len(fed) + 1
        <5>1. /\ IsParser(d') /\ d'.usefulness = Invalid
              /\ d'.buffer = [head |-> line, tail |-> FALSE]
              /\ Follows(d', PutTogether(fed, TRUE))
          BY <2>1, <2>2, <4>1, <4>4, NewLineFollows
        <5>2. /\ IsLast(fed', next) /\ PutTogether(fed', FALSE) = PutTogether(fed, TRUE)
              /\ LineAt(fed', next) = [head |-> line, tail |-> FALSE]
          BY <2>1, <2>2, <4>1, <4>4, TheNextLine
        <5> HIDE DEF next
        <5> QED BY <4>2, <5>1, <5>2 DEF Behind, IsLast
      <4> QED BY <4>3, <4>4
    <3> QED BY <3>1, <3>2
  <2> QED BY <2>3, <2>4 DEF GdbInv, Whole
<1>4. CASE End
  <2>1. /\ ~ended /\ ended' = TRUE /\ fed' = fed /\ d' = Invalidate(NewLineGdb(d, ""))
    BY <1>1, <1>4 DEF End, NewLine
  <2>2. /\ fed \in Seq(GdbLines) /\ IsParser(d) /\ Behind(d, fed) /\ ended = FALSE
        /\ Follows(d, PutTogether(fed, FALSE))
    BY <1>1, <2>1 DEF GdbInv, Whole
  <2>3. IsParser(d') /\ d'.usefulness = Invalid /\ Follows(d', PutTogether(fed, TRUE))
    <3>1. CASE fed = <<>>
      <4>1. d.buffer = NoLine
        BY <2>2, <3>1 DEF Behind
      <4>2. IsParser(d') /\ d'.usefulness = Invalid /\ Follows(d', PutTogether(fed, FALSE))
        BY <2>1, <2>2, <4>1, NewLineBegins
      <4>3. PutTogether(fed, TRUE) = PutTogether(fed, FALSE)
        BY <3>1, TheFirstLine
      <4> QED BY <4>2, <4>3
    <3>2. CASE fed # <<>>
      <4>1. PICK h \in Heads(fed) : IsLast(fed, h) /\ d.buffer = LineAt(fed, h)
        BY <2>2, <3>2 DEF Behind
      <4> QED BY <2>1, <2>2, <4>1, NewLineFollows
    <3> QED BY <3>1, <3>2
  <2> QED BY <2>1, <2>2, <2>3 DEF GdbInv, Whole
<1>5. CASE Ask
  <2>1. d' = CalculateRatingData(d) /\ fed' = fed /\ ended' = ended
    BY <1>5 DEF Ask
  <2>2. /\ IsParser(d') /\ d'.lines = d.lines /\ d'.rate = d.rate /\ d'.below = d.below
        /\ d'.zero = d.zero /\ d'.start = d.start /\ d'.buffer = d.buffer
        /\ d'.usefulness = IF d.usefulness = Invalid THEN Verdict(RateTrace(d.rate))
                           ELSE d.usefulness
    BY <1>1, <2>1 DEF GdbInv, CalculateRatingData, IsParser
  <2>3. Follows(d', Whole)
    BY <1>1, <2>2, FollowsStill DEF GdbInv
  <2>4. ended \/ Behind(d', fed)
    BY <1>1, <2>2 DEF GdbInv, Behind
  <2> QED BY <1>1, <2>1, <2>2, <2>3, <2>4 DEF GdbInv, Whole
<1>6. CASE UNCHANGED vars
  BY <1>1, <1>6 DEF vars, GdbInv, Whole, Behind
<1> QED BY <1>2, <1>3, <1>4, <1>5, <1>6 DEF Next

LEMMA ParserInvHolds == Spec => []ParserInv
BY ParserInitOK, ParserInvStep, PTL DEF Spec

(* For any lines, split as they may be, at any moment: gdb's parser shows  *)
(* what is to be shown of the whole output and rates what is to be rated   *)
(* (parseLine(), newLine() and the flags they keep per thread).            *)
THEOREM ShowsAndRatesTheCrash == Spec => []ShowsTheCrash
<1>1. ParserInv => ShowsTheCrash
  BY DEF ParserInv, GdbInv, Follows, ShowsTheCrash
<1> QED BY <1>1, ParserInvHolds, PTL

(* A verdict that anybody gets is the weighted mean of exactly the frames  *)
(* that count among those the output names by now, for as many as a uint   *)
(* can sum up (the loops and the cache of calculateRatingData()).          *)
THEOREM VerdictsAreTrue == Spec => []VerdictIsOfTheTrace
<1>1. ASSUME ParserInv, debugger = "gdb", d.usefulness # Invalid, Most(ToRate(Whole)) < Word
      PROVE  d.usefulness = VerdictOn(ToRate(Whole))
  <2>1. GdbInv
    BY <1>1 DEF ParserInv
  <2>2. Whole \in Seq(Kinds) /\ d.usefulness = Verdict(RateTrace(ToRate(Whole)))
    BY <1>1, <2>1 DEF GdbInv, Follows
  <2>3. ToRate(Whole) \in Seq(Frames)
    BY <2>2, FramesAreRated
  <2> QED BY <1>1, <2>2, <2>3, VerdictIsVerdict
<1>2. ParserInv => VerdictIsOfTheTrace
  BY <1>1 DEF VerdictIsOfTheTrace
<1> QED BY <1>2, ParserInvHolds, PTL
=============================================================================
