-------------------------- MODULE KeysetPagesProofs --------------------------
(***************************************************************************)
(* What a client that reads page by page can rely on while other clients   *)
(* mutate the tree: for every tree, request and number of mutations, every *)
(* sort order, page size and statement at which an instance answers.       *)
(*                                                                         *)
(* The argument: the places of the result are strictly ordered at every    *)
(* moment, a page is the next stretch of them, and a row that stays at its *)
(* place is on one side of the cursor once and for all.                    *)
(***************************************************************************)
EXTENDS KeysetPages, FiniteSetTheorems, TLAPS

-----------------------------------------------------------------------------
(* Counting: finite orders, induction and recursion *)

Below(S, R, a) == {b \in S : <<b, a>> \in R}

StrictlyOrders(R, S) ==
    /\ R \in SUBSET (S \X S)
    /\ \A a \in S : <<a, a>> \notin R
    /\ \A a, b \in S : a # b => <<a, b>> \in R \/ <<b, a>> \in R
    /\ \A a, b, c \in S : <<a, b>> \in R /\ <<b, c>> \in R => <<a, c>> \in R

Rank(S, R, a) == Cardinality(Below(S, R, a))

RanksBelowSize(S, R) ==
    /\ \A a \in S : Rank(S, R, a) \in 0..(Cardinality(S) - 1)
    /\ \A a, b \in S : <<a, b>> \in R => Rank(S, R, a) < Rank(S, R, b)
    /\ \A a, b \in S : Rank(S, R, a) = Rank(S, R, b) => a = b
    /\ \A n \in 0..(Cardinality(S) - 1) : \E a \in S : Rank(S, R, a) = n

\* In a finite set with a strict total order, every rank below the size of the
\* set is taken, by one member.
LEMMA Ranks ==
    ASSUME NEW S, IsFiniteSet(S), NEW R, StrictlyOrders(R, S)
    PROVE  RanksBelowSize(S, R)
<1> USE DEF StrictlyOrders
<1>1. Cardinality(S) \in Nat
  BY FS_CardinalityType
<1>2. ASSUME NEW a \in S, NEW T \in SUBSET S, a \in T, Below(S, R, a) \subseteq T
      PROVE  Rank(S, R, a) \in Nat /\ Rank(S, R, a) < Cardinality(T)
  <2>1. IsFiniteSet(T)
    BY FS_Subset
  <2>2. Below(S, R, a) \in SUBSET (T \ {a})
    BY <1>2 DEF Below
  <2>3. IsFiniteSet(T \ {a}) /\ Cardinality(T \ {a}) = Cardinality(T) - 1
    BY <1>2, <2>1, FS_RemoveElement
  <2>4. /\ IsFiniteSet(Below(S, R, a))
        /\ Cardinality(Below(S, R, a)) <= Cardinality(T \ {a})
    BY <2>2, <2>3, FS_Subset
  <2>5. Cardinality(T) \in Nat /\ Rank(S, R, a) \in Nat
    BY <2>1, <2>4, FS_CardinalityType DEF Rank
  <2>6. QED
    BY <2>3, <2>4, <2>5 DEF Rank
<1>3. \A a \in S : Rank(S, R, a) \in 0..(Cardinality(S) - 1)
  <2> SUFFICES ASSUME NEW a \in S PROVE Rank(S, R, a) \in 0..(Cardinality(S) - 1)
    OBVIOUS
  <2>1. Rank(S, R, a) \in Nat /\ Rank(S, R, a) < Cardinality(S)
    BY <1>2 DEF Below
  <2>2. QED
    BY <1>1, <2>1
<1>4. ASSUME NEW a \in S, NEW b \in S, <<a, b>> \in R
      PROVE  Rank(S, R, a) < Rank(S, R, b)
  <2>1. /\ a \in Below(S, R, b) /\ Below(S, R, a) \subseteq Below(S, R, b)
        /\ Below(S, R, b) \in SUBSET S
    BY <1>4 DEF Below
  <2>2. Rank(S, R, a) < Cardinality(Below(S, R, b))
    BY <1>2, <2>1
  <2>3. QED
    BY <2>2 DEF Rank
<1>5. ASSUME NEW a \in S, NEW b \in S, Rank(S, R, a) = Rank(S, R, b)
      PROVE  a = b
  <2> SUFFICES ASSUME a # b PROVE FALSE
    OBVIOUS
  <2>1. Rank(S, R, a) \in Int
    BY <1>3
  <2>2. Rank(S, R, a) < Rank(S, R, b) \/ Rank(S, R, b) < Rank(S, R, a)
    BY <1>4
  <2>3. QED
    BY <1>5, <2>1, <2>2
<1>6. ASSUME NEW n \in 0..(Cardinality(S) - 1) PROVE \E a \in S : Rank(S, R, a) = n
  <2> SUFFICES ASSUME \A a \in S : Rank(S, R, a) # n PROVE FALSE
    OBVIOUS
  <2> DEFINE N == 0..(Cardinality(S) - 1)
             U == N \ {n}
             r == [a \in S |-> Rank(S, R, a)]
  <2>1. IsFiniteSet(N) /\ Cardinality(N) = Cardinality(S) /\ n \in N
    <3>1. 0 \in Int /\ Cardinality(S) - 1 \in Int
      BY <1>1
    <3>2. /\ IsFiniteSet(N)
          /\ Cardinality(N) = IF 0 > Cardinality(S) - 1 THEN 0 ELSE Cardinality(S) - 1 - 0 + 1
      BY <3>1, FS_Interval
    <3>3. QED
      BY <1>1, <1>6, <3>2
  <2>2. IsFiniteSet(U) /\ Cardinality(U) = Cardinality(S) - 1
    <3> HIDE DEF N
    <3>1. QED
      BY <2>1, FS_RemoveElement
  <2>3. r \in [S -> U]
    BY <1>3
  <2>4. Cardinality(U) < Cardinality(S)
    BY <1>1, <2>2
  <2>5. \A a \in S : r[a] = Rank(S, R, a)
    OBVIOUS
  <2> HIDE DEF U, r
  <2>6. PICK a, b \in S : a # b /\ r[a] = r[b]
    BY <2>2, <2>3, <2>4, FS_PigeonHole
  <2>7. QED
    BY <1>5, <2>5, <2>6
<1>7. QED
  BY <1>3, <1>4, <1>5, <1>6 DEF RanksBelowSize

\* s lists S in the order R.
Lists(s, S, R) ==
    /\ Cardinality(S) \in Nat
    /\ s = [n \in 1..Cardinality(S) |-> s[n]]
    /\ \A n \in 1..Cardinality(S) : s[n] \in S /\ Rank(S, R, s[n]) = n - 1
    /\ \A m, n \in 1..Cardinality(S) : m < n => <<s[m], s[n]>> \in R
    /\ \A a \in S : \E n \in 1..Cardinality(S) : s[n] = a

\* Choosing the member of each rank lists a finite set in its order.
LEMMA ByRank ==
    ASSUME NEW S, IsFiniteSet(S), NEW R, StrictlyOrders(R, S), NEW s,
           s = [n \in 1..Cardinality(S) |-> CHOOSE a \in S : Rank(S, R, a) = n - 1]
    PROVE  Lists(s, S, R)
<1> DEFINE rank(a) == Rank(S, R, a)
<1>1. Cardinality(S) \in Nat
  BY FS_CardinalityType
<1>2. /\ \A a \in S : rank(a) \in 0..(Cardinality(S) - 1)
      /\ \A a, b \in S : <<a, b>> \in R => rank(a) < rank(b)
      /\ \A a, b \in S : rank(a) = rank(b) => a = b
      /\ \A n \in 0..(Cardinality(S) - 1) : \E a \in S : rank(a) = n
  <2>1. RanksBelowSize(S, R)
    BY Ranks
  <2>2. QED
    BY <2>1 DEF RanksBelowSize
<1>3. \A n \in 1..Cardinality(S) : s[n] = CHOOSE a \in S : rank(a) = n - 1
  OBVIOUS
<1>4. s = [n \in 1..Cardinality(S) |-> s[n]]
  OBVIOUS
<1> HIDE DEF rank
<1>5. \A n \in 1..Cardinality(S) : s[n] \in S /\ rank(s[n]) = n - 1
  <2> SUFFICES ASSUME NEW n \in 1..Cardinality(S) PROVE s[n] \in S /\ rank(s[n]) = n - 1
    OBVIOUS
  <2>1. \E a \in S : rank(a) = n - 1
    BY <1>1, <1>2
  <2>2. QED
    BY <1>3, <2>1
<1>6. ASSUME NEW m \in 1..Cardinality(S), NEW n \in 1..Cardinality(S), m < n
      PROVE  <<s[m], s[n]>> \in R
  <2>1. rank(s[m]) < rank(s[n]) /\ rank(s[m]) \in Int /\ rank(s[n]) \in Int
    BY <1>1, <1>5, <1>6
  <2>2. s[m] # s[n] /\ <<s[n], s[m]>> \notin R
    BY <1>2, <1>5, <2>1
  <2>3. QED
    BY <1>5, <2>2 DEF StrictlyOrders
<1>7. ASSUME NEW a \in S PROVE \E n \in 1..Cardinality(S) : s[n] = a
  <2>1. rank(a) + 1 \in 1..Cardinality(S) /\ rank(a) = (rank(a) + 1) - 1
    BY <1>1, <1>2
  <2>2. s[rank(a) + 1] = a
    BY <1>2, <1>5, <2>1
  <2>3. QED
    BY <2>1, <2>2
<1>8. QED
  BY <1>1, <1>4, <1>5, <1>6, <1>7 DEF Lists, rank

\* Integers are strictly ordered.
LEMMA LessOrders ==
    ASSUME NEW S, S \subseteq Int, NEW R, R = {p \in S \X S : p[1] < p[2]}
    PROVE  StrictlyOrders(R, S)
<1>1. R \in SUBSET (S \X S) /\ \A a, b \in S : <<a, b>> \in R <=> a < b
  OBVIOUS
<1>2. /\ \A a \in S : ~(a < a)
      /\ \A a, b \in S : a # b => a < b \/ b < a
      /\ \A a, b, c \in S : a < b /\ b < c => a < c
  OBVIOUS
<1>3. QED
  BY <1>1, <1>2 DEF StrictlyOrders

\* A finite, non-empty set of numbers has a greatest member.
LEMMA Maximum ==
    ASSUME NEW S \in SUBSET Nat, IsFiniteSet(S), S # {}
    PROVE  \E a \in S : \A b \in S : b <= a
<1>1. PICK R : R = {p \in S \X S : p[1] < p[2]}
  OBVIOUS
<1>2. RanksBelowSize(S, R) /\ \A a, b \in S : <<a, b>> \in R <=> a < b
  <2>1. S \subseteq Int
    OBVIOUS
  <2>2. StrictlyOrders(R, S)
    BY <1>1, <2>1, LessOrders
  <2>3. RanksBelowSize(S, R)
    BY <2>2, Ranks
  <2>4. QED
    BY <1>1, <2>3
<1>3. Cardinality(S) \in Nat /\ Cardinality(S) # 0
  BY FS_CardinalityType, FS_EmptySet
<1>4. PICK a \in S : Rank(S, R, a) = Cardinality(S) - 1
  BY <1>2, <1>3 DEF RanksBelowSize
<1>5. ASSUME NEW b \in S, ~(b <= a) PROVE FALSE
  <2>1. <<a, b>> \in R
    BY <1>2, <1>5
  <2>2. Rank(S, R, a) < Rank(S, R, b) /\ Rank(S, R, b) \in 0..(Cardinality(S) - 1)
    BY <1>2, <2>1 DEF RanksBelowSize
  <2>3. QED
    BY <1>3, <1>4, <2>2
<1>6. QED
  BY <1>5

\* Induction on Nat, for the members of a set instead of a predicate: the
\* greatest number up to n in S has its successor in S.
LEMMA Induction ==
    ASSUME NEW S, 0 \in S, \A n \in S : n \in Nat => n + 1 \in S
    PROVE  Nat \subseteq S
<1> SUFFICES ASSUME NEW n \in Nat, n \notin S PROVE FALSE
  OBVIOUS
<1> DEFINE T == S \cap (0..n)
<1>1. T \in SUBSET Nat /\ 0 \in T /\ \A x \in T : x <= n
  OBVIOUS
<1>2. IsFiniteSet(T)
  <2> HIDE DEF T
  <2>1. QED
    BY <1>1, FS_BoundedSetOfNaturals
<1>3. PICK m \in T : \A b \in T : b <= m
  <2> HIDE DEF T
  <2>1. QED
    BY <1>1, <1>2, Maximum
<1>4. m + 1 \in S /\ m \in Nat /\ m <= n
  OBVIOUS
<1>5. m + 1 \in T
  BY <1>4
<1>6. QED
  BY <1>3, <1>4, <1>5

Iterates(X, a, step) ==
    \E f \in [Nat -> X] : f[0] = a /\ \A n \in Nat : f[n + 1] = step[<<n, f[n]>>]

\* A function on the naturals that is defined by recursion exists.
LEMMA Recursion ==
    ASSUME NEW X, NEW a \in X, NEW step \in [Nat \X X -> X]
    PROVE  Iterates(X, a, step)
<1> DEFINE Upto(n, g) == g[0] = a /\ \A k \in 0..(n - 1) : g[k + 1] = step[<<k, g[k]>>]
           S == {n \in Nat : \E g \in [Nat -> X] : Upto(n, g)}
<1>1. 0 \in S
  <2>1. [k \in Nat |-> a] \in [Nat -> X] /\ Upto(0, [k \in Nat |-> a])
    OBVIOUS
  <2>2. QED
    BY <2>1
<1>2. ASSUME NEW n \in S PROVE n + 1 \in S
  <2>1. PICK g \in [Nat -> X] : Upto(n, g)
    OBVIOUS
  <2> DEFINE h == [g EXCEPT ![n + 1] = step[<<n, g[n]>>]]
  <2>2. n \in Nat /\ h \in [Nat -> X]
    OBVIOUS
  <2>3. h[n + 1] = step[<<n, g[n]>>] /\ \A k \in 0..n : h[k] = g[k]
    BY <2>2
  <2> HIDE DEF h
  <2>4. Upto(n + 1, h)
    BY <2>1, <2>2, <2>3
  <2>5. QED
    BY <2>2, <2>4
<1>3. Nat \subseteq S
  <2> HIDE DEF S
  <2>1. QED
    BY <1>1, <1>2, Induction
<1> DEFINE g == [n \in Nat |-> CHOOSE h \in [Nat -> X] : Upto(n, h)]
           f == [n \in Nat |-> g[n][n]]
<1>4. \A n \in Nat : g[n] \in [Nat -> X] /\ Upto(n, g[n])
  BY <1>3
<1> HIDE DEF g
\* What two of them say of the same argument is the same.
<1>5. \A n \in Nat : \A k \in Nat : k <= n => g[n][k] = f[k]
  <2> DEFINE V == {k \in Nat : \A m, l \in Nat : k <= m /\ k <= l => g[m][k] = g[l][k]}
  <2>1. 0 \in V
    BY <1>4
  <2>2. ASSUME NEW k \in V, k \in Nat PROVE k + 1 \in V
    <3> SUFFICES ASSUME NEW m \in Nat, k + 1 <= m, NEW l \in Nat, k + 1 <= l
                 PROVE  g[m][k + 1] = g[l][k + 1]
      OBVIOUS
    <3>1. k \in 0..(m - 1) /\ k \in 0..(l - 1)
      OBVIOUS
    <3>2. g[m][k + 1] = step[<<k, g[m][k]>>] /\ g[l][k + 1] = step[<<k, g[l][k]>>]
      BY <1>4, <3>1
    <3>3. g[m][k] = g[l][k]
      OBVIOUS
    <3>4. QED
      BY <3>2, <3>3
  <2>3. Nat \subseteq V
    <3> HIDE DEF V
    <3>1. QED
      BY <2>1, <2>2, Induction
  <2>4. QED
    BY <2>3
<1>6. f[0] = a
  BY <1>4
<1>7. ASSUME NEW n \in Nat PROVE f[n + 1] = step[<<n, f[n]>>]
  <2>1. f[n + 1] = g[n + 1][n + 1] /\ f[n] = g[n + 1][n]
    BY <1>5
  <2>2. Upto(n + 1, g[n + 1])
    BY <1>4
  <2>3. QED
    BY <2>1, <2>2
<1>8. f \in [Nat -> X]
  BY <1>4
<1>9. QED
  BY <1>6, <1>7, <1>8 DEF Iterates

-----------------------------------------------------------------------------
(* The inductive invariant *)

\* s is a finite sequence, whatever its elements.
IsList(s) == Len(s) \in Nat /\ s = [n \in 1..Len(s) |-> s[n]]

\* The tree: rows of their type, parents that are objects, a root that is
\* never deleted, siblings with different names, a finite feed.
TreeKept ==
    /\ objects = [i \in AllIds |-> objects[i]]
    /\ \A i \in AllIds : IsRow(objects[i])
    /\ \A i \in Ids : objects[i].parent \in AllIds
    /\ Store!is_live(Root)
    /\ SiblingsDiffer(objects)
    /\ IsList(changes)

\* The request, and what it may be waiting for.
Asked ==
    /\ stage = "idle" \/ query \in Queries
    /\ stage = "idle" => query = None /\ steady = {} /\ delivered = << >> /\ ~more
    /\ query # None => stage # "idle"
    /\ stage \in {"folder", "not_a_folder"} => query.what = "children"
    /\ stage = "rows" => query.what # "resolve"
    /\ stage \in {"resolve", "load", "invalid_request"} => query.what = "resolve"
    /\ stage \in {"idle", "folder", "rows", "paths", "resolve", "load"} \cup Outcomes

\* The items answered or about to be: each place names its own row, and is
\* where the row still is if it has been steady.
ItemsSound(items) ==
    /\ IsList(items)
    /\ \A n \in 1..Len(items) :
          /\ items[n].id \in AllIds
          /\ items[n].place \in Int \X Int
          /\ items[n].place[2] = items[n].id
          /\ items[n].id \in steady => items[n].place = Place(query, items[n].id)

InOneOrder(items) ==
    \A m, n \in 1..Len(items) : m < n => Behind(query, items[m].place, items[n].place)

Read ==
    /\ ItemsSound(delivered) /\ InOneOrder(delivered)
    /\ ItemsSound(rows) /\ InOneOrder(rows)
    /\ \A m \in 1..Len(delivered), n \in 1..Len(rows) :
          Behind(query, delivered[m].place, rows[n].place)
    /\ stage \notin {"paths", "load"} => rows = << >>

\* Nothing that was read lies behind the cursor; there is one as long as there
\* is more to read.
CursorKept ==
    /\ more \in BOOLEAN
    /\ ~more => cursor = None
    /\ more =>
          /\ cursor \in Int \X Int /\ cursor[2] \in AllIds
          /\ \A n \in 1..Len(delivered) : ~Behind(query, cursor, delivered[n].place)
          /\ \A n \in 1..Len(rows) : ~Behind(query, cursor, rows[n].place)
    /\ stage = "done" => ~more
    /\ stage \in {"folder", "rows"} /\ ~more => delivered = << >>

Told(i) ==
    \/ \E n \in 1..Len(delivered) : delivered[n].id = i
    \/ \E n \in 1..Len(rows) : rows[n].id = i

\* A steady row that is not behind the cursor has been read; at the end of the
\* chain all of them have.
SteadyTold ==
    /\ query # None => steady \subseteq Wanted(query)
    /\ query # None /\ query.what # "resolve" =>
          \A i \in steady :
             \/ stage \in {"paths", "done"} /\ ~more
             \/ more /\ ~Behind(query, cursor, Place(query, i))
             => Told(i)

\* A path leads to one object at most; the answer is the steady one if any.
OneResolved ==
    query # None /\ query.what = "resolve" =>
        /\ ~more
        /\ stage # "done" => delivered = << >>
        /\ stage = "not_found" => steady = {}
        /\ stage \in {"load", "paths"} => Len(rows) = 1 /\ steady \subseteq {rows[1].id}
        /\ stage = "done" =>
              /\ Len(delivered) = 1 /\ steady \subseteq {delivered[1].id}
              /\ steady # {} => delivered[1].path = split_path(query.path)

Inv == TreeKept /\ Asked /\ Read /\ CursorKept /\ SteadyTold /\ OneResolved

-----------------------------------------------------------------------------
(* Lists *)

\* A function on 1..k is a list of length k.
LEMMA ListOf ==
    ASSUME NEW k \in Nat, NEW s, s = [n \in 1..k |-> s[n]]
    PROVE  IsList(s) /\ Len(s) = k /\ DOMAIN s = 1..k
<1> DEFINE X == {s[n] : n \in 1..k}
<1>1. s \in [1..k -> X]
  OBVIOUS
<1>2. s \in Seq(X)
  BY <1>1
<1>3. Len(s) = k /\ DOMAIN s = 1..k
  <2>1. DOMAIN s = 1..k /\ DOMAIN s = 1..Len(s) /\ Len(s) \in Nat
    BY <1>1, <1>2
  <2>2. QED
    BY <2>1
<1>4. QED
  BY <1>3 DEF IsList

\* A list of members of X is a sequence over X.
LEMMA ListElements ==
    ASSUME NEW s, IsList(s), NEW X, \A n \in 1..Len(s) : s[n] \in X
    PROVE  s \in Seq(X) /\ DOMAIN s = 1..Len(s)
<1>1. Len(s) \in Nat /\ s = [n \in 1..Len(s) |-> s[n]]
  BY DEF IsList
<1>2. s \in [1..Len(s) -> X]
  BY <1>1
<1>3. QED
  BY <1>1, <1>2

\* A sequence is a list.
LEMMA SeqIsList ==
    ASSUME NEW X, NEW s \in Seq(X)
    PROVE  IsList(s)
<1>1. Len(s) \in Nat /\ s \in [1..Len(s) -> X]
  OBVIOUS
<1>2. QED
  BY <1>1 DEF IsList

\* t is s followed by r.
Joined(t, s, r) ==
    /\ IsList(t) /\ Len(t) = Len(s) + Len(r)
    /\ \A n \in 1..Len(s) : t[n] = s[n]
    /\ \A n \in 1..Len(r) : t[Len(s) + n] = r[n]

\* s \o t is s followed by t.
LEMMA ListConcat ==
    ASSUME NEW s, IsList(s), NEW t, IsList(t)
    PROVE  Joined(s \o t, s, t)
<1> DEFINE X == {s[n] : n \in 1..Len(s)} \cup {t[n] : n \in 1..Len(t)}
<1>1. s \in Seq(X) /\ t \in Seq(X)
  BY ListElements
<1>2. Len(s) \in Nat /\ Len(t) \in Nat
  BY DEF IsList
<1> HIDE DEF X
<1>3. /\ s \o t \in Seq(X) /\ Len(s \o t) = Len(s) + Len(t)
      /\ \A n \in 1..Len(s) : (s \o t)[n] = s[n]
      /\ \A n \in 1..Len(t) : (s \o t)[Len(s) + n] = t[n]
  BY <1>1, <1>2
<1>4. IsList(s \o t)
  BY <1>3, SeqIsList
<1>5. QED
  BY <1>3, <1>4 DEF Joined

\* What SubSeq cuts out of a list.
LEMMA ListPart ==
    ASSUME NEW s, IsList(s), NEW m \in Int, NEW n \in Int, 1 <= m, m - 1 <= n, n <= Len(s)
    PROVE  /\ SubSeq(s, m, n) = [k \in 1..(n - m + 1) |-> s[m + k - 1]]
           /\ IsList(SubSeq(s, m, n)) /\ Len(SubSeq(s, m, n)) = n - m + 1
<1>1. SubSeq(s, m, n) = [k \in 1..(n - m + 1) |-> s[m + k - 1]]
  <2>1. s \in Seq({s[k] : k \in 1..Len(s)})
    BY ListElements
  <2>2. Len(s) \in Nat
    BY DEF IsList
  <2>3. QED
    BY <2>1, <2>2
<1>2. n - m + 1 \in Nat
  OBVIOUS
<1>3. QED
  BY <1>1, <1>2, ListOf

\* The empty list.
LEMMA Lists0 == IsList(<< >>) /\ Len(<< >>) = 0
  BY DEF IsList

-----------------------------------------------------------------------------
(* Places: strictly ordered, one for each row *)

\* The objects: numbers, finitely many, the root and the others.
LEMMA FiniteTree == IsFiniteSet(AllIds) /\ AllIds \subseteq Nat /\ Root = 0 /\ AllIds = Ids \cup {0}
<1>1. AllIds = Ids \cup {0} /\ Root = 0
  BY DEF AllIds, Root, Store!AllIds, Store!Root
<1>2. IsFiniteSet(Ids \cup {0})
  BY TreeAssumption, FS_AddElement
<1>3. QED
  BY <1>1, <1>2, TreeAssumption

\* Of any two places one is behind the other.
LEMMA BehindOrders ==
    ASSUME NEW q
    PROVE  /\ \A a \in Int \X Int : ~Behind(q, a, a)
           /\ \A a, b \in Int \X Int : a # b => Behind(q, a, b) \/ Behind(q, b, a)
           /\ \A a, b, c \in Int \X Int : Behind(q, a, b) /\ Behind(q, b, c) => Behind(q, a, c)
<1>1. /\ \A a \in Int \X Int : ~Less(a, a)
      /\ \A a, b \in Int \X Int : a # b => Less(a, b) \/ Less(b, a)
      /\ \A a, b, c \in Int \X Int : Less(a, b) /\ Less(b, c) => Less(a, c)
  BY DEF Less
<1>2. CASE Descending(q)
  BY <1>1, <1>2 DEF Behind
<1>3. CASE ~Descending(q)
  BY <1>1, <1>3 DEF Behind
<1>4. QED
  BY <1>2, <1>3

\* A place is the pair of a sort key and the id of its row.
LEMMA PlaceType ==
    ASSUME TreeKept, NEW q \in Queries, NEW i \in AllIds
    PROVE  Place(q, i) \in Int \X Int /\ Place(q, i)[2] = i
<1>1. OrderBy(q) \in {"name", "created_at", "updated_at", "size", "id"}
  BY PageAssumption DEF IsQuery, OrderBy
<1>2. ASSUME NEW P \in SUBSET (1..Len(changes)) PROVE Cardinality(P) \in Int
  <2>1. Len(changes) \in Nat
    BY DEF TreeKept, IsList
  <2>2. IsFiniteSet(1..Len(changes))
    BY <2>1, FS_Interval
  <2>3. IsFiniteSet(P)
    BY <2>2, FS_Subset
  <2>4. QED
    BY <2>3, FS_CardinalityType
<1>3. DOMAIN changes = 1..Len(changes)
  BY DEF TreeKept, IsList
<1>4. LastChange(i) \in Int /\ CreatedAt(i) \in Int
  BY <1>2, <1>3 DEF LastChange, CreatedAt
<1>5. objects[i].name \in Int
  BY DEF TreeKept, IsRow
<1>6. SortKey(OrderBy(q), i) \in Int
  BY <1>1, <1>4, <1>5 DEF SortKey
<1>7. i \in Int
  BY FiniteTree
<1>8. QED
  BY <1>6, <1>7 DEF Place

\* s lists the members of S from the first place to the last.
InPlaces(s, q, S) ==
    /\ IsList(s) /\ Len(s) = Cardinality(S)
    /\ \A n \in 1..Len(s) : s[n] \in S
    /\ \A m, n \in 1..Len(s) : m < n => Behind(q, Place(q, s[m]), Place(q, s[n]))
    /\ \A i \in S : \E n \in 1..Len(s) : s[n] = i

\* As many places as rows.
LEMMA PlacesCount ==
    ASSUME TreeKept, NEW q \in Queries, NEW S \in SUBSET AllIds, NEW places,
           places = {Place(q, i) : i \in S}
    PROVE  IsFiniteSet(places) /\ Cardinality(places) = Cardinality(S)
<1>1. \A i \in S : Place(q, i)[2] = i
  BY PlaceType
<1>2. IsFiniteSet(S)
  BY FiniteTree, FS_Subset
<1> DEFINE f == [i \in S |-> Place(q, i)]
<1>3. f \in [S -> places] /\ \A i \in S : f[i] = Place(q, i)
  OBVIOUS
<1> HIDE DEF f
<1>4. f \in Bijection(S, places)
  BY <1>1, <1>3 DEF Bijection, Injection, Surjection, IsInjective
<1>5. ExistsBijection(S, places)
  BY <1>4 DEF ExistsBijection
<1>6. QED
  BY <1>2, <1>5, FS_Bijection

\* ORDER BY: every row of the result once, in the order of the places.
LEMMA OrderedLists ==
    ASSUME TreeKept, NEW q \in Queries, NEW S \in SUBSET AllIds
    PROVE  InPlaces(Ordered(q, S), q, S)
<1> DEFINE places == {Place(q, i) : i \in S}
           R == {p \in places \X places : Behind(q, p[1], p[2])}
           f == [n \in 1..Cardinality(places) |->
                    CHOOSE a \in places : Rank(places, R, a) = n - 1]
<1>1. IsFiniteSet(places) /\ Cardinality(places) = Cardinality(S)
  BY PlacesCount
<1>2. \A i \in S : Place(q, i) \in Int \X Int /\ Place(q, i)[2] = i
  BY PlaceType
<1>3. places \subseteq Int \X Int
  BY <1>2
<1>4. \A a, b \in places : <<a, b>> \in R <=> Behind(q, a, b)
  OBVIOUS
<1>5. StrictlyOrders(R, places)
  <2>1. R \in SUBSET (places \X places)
    OBVIOUS
  <2> HIDE DEF places, R
  <2>2. QED
    BY <1>3, <1>4, <2>1, BehindOrders DEF StrictlyOrders
<1>6. \A a \in places : Rank(places, R, a) = Cardinality({b \in places : Behind(q, b, a)})
  BY <1>4 DEF Rank, Below
<1>7. Ordered(q, S) = [n \in 1..Cardinality(S) |-> f[n][2]]
  <2> DEFINE nth(n) == CHOOSE a \in places : Cardinality({b \in places : Behind(q, b, a)}) = n - 1
  <2>1. \A n : nth(n) = CHOOSE a \in places : Rank(places, R, a) = n - 1
    BY <1>6
  <2>2. \A n \in 1..Cardinality(S) : f[n] = nth(n)
    <3> HIDE DEF places, R, nth
    <3>1. QED
      BY <1>1, <2>1
  <2>3. Ordered(q, S) = [n \in 1..Cardinality(S) |-> nth(n)[2]]
    BY DEF Ordered
  <2> HIDE DEF f, nth
  <2>4. QED
    BY <2>2, <2>3
<1>8. Lists(f, places, R)
  <2> HIDE DEF places, R
  <2>1. QED
    BY <1>1, <1>5, ByRank
<1>9. /\ Cardinality(S) \in Nat
      /\ \A n \in 1..Cardinality(S) : f[n] \in places
      /\ \A m, n \in 1..Cardinality(S) : m < n => Behind(q, f[m], f[n])
      /\ \A a \in places : \E n \in 1..Cardinality(S) : f[n] = a
  <2> HIDE DEF places, R, f
  <2>1. QED
    BY <1>1, <1>4, <1>8 DEF Lists
<1>10. /\ \A a \in places : a[2] \in S /\ a = Place(q, a[2])
       /\ \A i \in S : Place(q, i) \in places /\ Place(q, i)[2] = i
  BY <1>2
<1> HIDE DEF f, places, R
<1>11. /\ \A n \in 1..Cardinality(S) : f[n][2] \in S /\ f[n] = Place(q, f[n][2])
       /\ \A i \in S : \E n \in 1..Cardinality(S) : f[n][2] = i
  BY <1>9, <1>10
<1>12. /\ IsList(Ordered(q, S)) /\ Len(Ordered(q, S)) = Cardinality(S)
       /\ \A n \in 1..Cardinality(S) : Ordered(q, S)[n] = f[n][2]
  BY <1>7, <1>9, ListOf
<1>13. QED
  BY <1>9, <1>11, <1>12 DEF InPlaces

-----------------------------------------------------------------------------
(* A page *)

\* The page is the next stretch of the result after the cursor; what it leaves
\* is behind the place it ends at.
PageSound(page) ==
    /\ IsList(page.items)
    /\ \A n \in 1..Len(page.items) :
          /\ page.items[n].id \in AfterCursor
          /\ page.items[n].place = Place(query, page.items[n].id)
    /\ InOneOrder(page.items)
    /\ page.more \in BOOLEAN
    /\ ~page.more =>
          /\ page.next = None
          /\ \A i \in AfterCursor : \E n \in 1..Len(page.items) : page.items[n].id = i
    /\ page.more =>
          /\ Len(page.items) >= 1 /\ page.next = page.items[Len(page.items)].place
          /\ \A i \in AfterCursor :
                \/ \E n \in 1..Len(page.items) : page.items[n].id = i
                \/ Behind(query, page.next, Place(query, i))

\* A page has room for a row, whatever limit was asked for.
LEMMA LimitPositive ==
    ASSUME NEW q \in Queries, q.what # "resolve"
    PROVE  clamp_limit(q.limit) \in Nat \ {0}
<1>1. q.limit \in Nat \cup {None}
  BY PageAssumption DEF IsQuery
<1>2. None \notin Nat /\ DefaultLimit \in Nat \ {0} /\ MaxLimit \in Nat \ {0}
  BY PageAssumption
<1>3. QED
  BY <1>1, <1>2 DEF clamp_limit

\* finish_page takes the next stretch behind the cursor and points to its end.
LEMMA PageIsSound ==
    ASSUME TreeKept, query \in Queries, query.what # "resolve"
    PROVE  PageSound(finish_page)
<1> DEFINE found == Ordered(query, AfterCursor)
           limit == clamp_limit(query.limit)
           m == IF Len(found) > limit THEN limit ELSE Len(found)
           kept == SubSeq(found, 1, m)
<1>1. InPlaces(found, query, AfterCursor)
  <2>1. AfterCursor \in SUBSET AllIds
    BY DEF AfterCursor
  <2>2. QED
    BY <2>1, OrderedLists
<1>2. IsList(found) /\ Len(found) \in Nat /\ limit \in Nat \ {0}
  BY <1>1, LimitPositive DEF InPlaces, IsList
<1> HIDE DEF found, limit
<1>3. m \in Nat /\ m <= Len(found) /\ (Len(found) > limit => m = limit)
      /\ (~(Len(found) > limit) => m = Len(found))
  BY <1>2
<1> HIDE DEF m
<1>4. IsList(kept) /\ Len(kept) = m /\ \A n \in 1..m : kept[n] = found[n]
  <2>1. /\ SubSeq(found, 1, m) = [k \in 1..(m - 1 + 1) |-> found[1 + k - 1]]
        /\ IsList(SubSeq(found, 1, m)) /\ Len(SubSeq(found, 1, m)) = m - 1 + 1
    BY <1>2, <1>3, ListPart
  <2>2. QED
    BY <1>3, <2>1
<1> HIDE DEF kept
<1> DEFINE items == [n \in DOMAIN kept |-> Item(kept[n])]
<1>5. DOMAIN kept = 1..m
  BY <1>4 DEF IsList
<1>6. IsList(items) /\ Len(items) = m /\ \A n \in 1..m : items[n] = Item(found[n])
  <2>1. items = [n \in 1..m |-> items[n]]
    BY <1>5
  <2>2. IsList(items) /\ Len(items) = m
    <3> HIDE DEF items
    <3>1. QED
      BY <1>3, <2>1, ListOf
  <2>3. QED
    BY <1>4, <1>5, <2>2
<1>7. \A n \in 1..m : items[n].id = found[n] /\ items[n].place = Place(query, found[n])
  <2> HIDE DEF items
  <2>1. QED
    BY <1>6 DEF Item
<1>8. /\ finish_page.items = items
      /\ finish_page.more = (Len(found) > limit)
      /\ finish_page.next = IF Len(found) > limit /\ kept # << >>
                            THEN Place(query, kept[Len(kept)]) ELSE None
  BY DEF finish_page, found, limit, m, kept
<1> HIDE DEF items
<1>9. Len(found) > limit => kept # << >>
  BY <1>2, <1>3, <1>4, Lists0
<1>10. Len(found) > limit => finish_page.next = items[m].place /\ m >= 1
  BY <1>2, <1>3, <1>4, <1>7, <1>8, <1>9
<1>11. /\ \A n \in 1..Len(found) : found[n] \in AfterCursor
       /\ \A k, n \in 1..Len(found) : k < n =>
             Behind(query, Place(query, found[k]), Place(query, found[n]))
       /\ \A i \in AfterCursor : \E n \in 1..Len(found) : found[n] = i
  BY <1>1 DEF InPlaces
<1>12. \A n \in 1..m : n \in 1..Len(found)
  BY <1>2, <1>3
<1>13. InOneOrder(items)
  BY <1>6, <1>7, <1>11, <1>12 DEF InOneOrder
<1>14. ASSUME ~(Len(found) > limit), NEW i \in AfterCursor
       PROVE  \E n \in 1..m : items[n].id = i
  BY <1>3, <1>7, <1>11, <1>14
<1>15. ASSUME Len(found) > limit, NEW i \in AfterCursor
       PROVE  (\E n \in 1..m : items[n].id = i) \/ Behind(query, items[m].place, Place(query, i))
  <2>1. PICK n \in 1..Len(found) : found[n] = i
    BY <1>11
  <2>2. CASE n <= m
    BY <1>3, <1>7, <2>1, <2>2
  <2>3. CASE ~(n <= m)
    <3>1. m \in 1..m /\ m \in 1..Len(found) /\ m < n
      BY <1>2, <1>3, <1>15, <2>3
    <3>2. QED
      BY <1>7, <1>11, <2>1, <3>1
  <2>4. QED
    BY <2>2, <2>3
<1>16. \A n \in 1..m :
          items[n].id \in AfterCursor /\ items[n].place = Place(query, items[n].id)
  BY <1>7, <1>11, <1>12
<1>17. finish_page.more \in BOOLEAN
  BY <1>8
<1>18. ~finish_page.more => /\ finish_page.next = None
                           /\ \A i \in AfterCursor : \E n \in 1..m : items[n].id = i
  BY <1>8, <1>14
<1>19. finish_page.more => /\ m >= 1 /\ finish_page.next = items[m].place
                          /\ \A i \in AfterCursor :
                                \/ \E n \in 1..m : items[n].id = i
                                \/ Behind(query, finish_page.next, Place(query, i))
  BY <1>8, <1>10, <1>15
<1>20. finish_page.items = items /\ IsList(items) /\ Len(items) = m
  BY <1>6, <1>8
<1>21. QED
  BY <1>13, <1>16, <1>17, <1>18, <1>19, <1>20 DEF PageSound

-----------------------------------------------------------------------------
(* Mutations of the tree *)

\* A row written so that it has no namesake among its siblings keeps the tree.
LEMMA OneRowChanged ==
    ASSUME TreeKept, NEW i \in AllIds, NEW row, IsRow(row),
           i \in Ids => row.parent \in AllIds,
           i = Root => row.exists /\ ~row.deleted,
           \A j \in AllIds \ {i} :
               Store!is_live(j) /\ objects[j].parent = row.parent => objects[j].name # row.name,
           objects' = [objects EXCEPT ![i] = row],
           IsList(changes')
    PROVE  TreeKept'
<1>1. /\ objects' = [j \in AllIds |-> objects'[j]]
      /\ \A j \in AllIds : objects'[j] = IF j = i THEN row ELSE objects[j]
  BY DEF TreeKept
<1>2. AllIds = Ids \cup {0} /\ Root = 0
  BY FiniteTree
<1>3. /\ \A j \in AllIds : IsRow(objects'[j])
      /\ \A j \in Ids : objects'[j].parent \in AllIds
  BY <1>1, <1>2 DEF TreeKept
<1>4. Store!is_live(Root)'
  BY <1>1, <1>2 DEF TreeKept, Store!is_live
<1>5. SiblingsDiffer(objects')
  <2> SUFFICES ASSUME NEW j \in Ids, NEW k \in Ids, j # k,
                      objects'[j].exists, ~objects'[j].deleted,
                      objects'[k].exists, ~objects'[k].deleted,
                      objects'[j].parent = objects'[k].parent,
                      objects'[j].name = objects'[k].name
               PROVE  FALSE
    BY DEF SiblingsDiffer
  <2>1. CASE i = j
    BY <1>1, <1>2, <2>1 DEF Store!is_live
  <2>2. CASE i = k
    BY <1>1, <1>2, <2>2 DEF Store!is_live
  <2>3. CASE i # j /\ i # k
    BY <1>1, <1>2, <2>3 DEF TreeKept, SiblingsDiffer
  <2>4. QED
    BY <2>1, <2>2, <2>3
<1>6. QED
  BY <1>1, <1>3, <1>4, <1>5 DEF TreeKept

\* The Changes of one mutation are appended to the feed.
LEMMA FeedStaysList ==
    ASSUME TreeKept, NEW c, NEW after, NEW es, IsList(es), Store!append_changes(c, after, es)
    PROVE  objects' = after /\ IsList(changes')
<1> DEFINE new == [n \in DOMAIN es |->
                     [id |-> es[n][1], revision |-> after[es[n][1]].revision,
                      action |-> es[n][2], tx |-> c]]
<1>1. objects' = after /\ changes' = changes \o new
  BY DEF Store!append_changes
<1>2. new = [n \in 1..Len(es) |-> new[n]] /\ Len(es) \in Nat
  BY DEF IsList
<1> HIDE DEF new
<1>3. IsList(new)
  BY <1>2, ListOf
<1>4. Joined(changes \o new, changes, new)
  BY <1>3, ListConcat DEF TreeKept
<1>5. QED
  BY <1>1, <1>4 DEF Joined

\* create_object of the store.
LEMMA CreateKeepsTree ==
    ASSUME TreeKept, NEW c, NEW q \in Requests, Store!create_object(c, q)
    PROVE  TreeKept' /\ objects' # objects
<1> DEFINE row == [exists |-> TRUE, kind |-> q.kind, parent |-> q.parent, name |-> q.name,
                   meta |-> q.meta, deleted |-> FALSE, revision |-> 1]
           es == << <<q.id, "created">> >>
<1>1. /\ q.op = "create" /\ ~objects[q.id].exists
      /\ Store!ParentFolder(q.parent)
      /\ ~Store!name_taken(q.parent, q.name, q.id)
      /\ Store!append_changes(c, [objects EXCEPT ![q.id] = row], es)
  BY DEF Store!create_object
<1>2. q.id \in Ids /\ q.name \in Int /\ q.id \in AllIds /\ q.id # Root
  BY <1>1, TreeAssumption, FiniteTree
<1>3. IsRow(row)
  BY <1>2 DEF IsRow, RowFields
<1>4. IsList(es)
  BY DEF IsList
<1>5. objects' = [objects EXCEPT ![q.id] = row] /\ IsList(changes')
  <2> HIDE DEF es, row
  <2>1. QED
    BY <1>1, <1>4, FeedStaysList
<1>6. row.parent = q.parent /\ row.name = q.name /\ row.exists /\ q.parent \in AllIds
  BY <1>1 DEF Store!ParentFolder, AllIds
<1>7. \A j \in AllIds \ {q.id} :
          Store!is_live(j) /\ objects[j].parent = row.parent => objects[j].name # row.name
  BY <1>1 DEF Store!name_taken, Store!Child, AllIds
<1> HIDE DEF row
<1>8. TreeKept'
  BY <1>2, <1>3, <1>5, <1>6, <1>7, OneRowChanged
<1>9. objects'[q.id] = row
  BY <1>2, <1>5 DEF TreeKept
<1>10. QED
  BY <1>1, <1>6, <1>8, <1>9

\* The counting operator of TreeStore is the one of this module.
LEMMA SameCount == \A S : Store!Cardinality(S) = Cardinality(S)
  BY DEF Store!Cardinality, Cardinality

\* A set of positions is finite.
LEMMA SmallSets ==
    ASSUME NEW n \in Nat, NEW S \in SUBSET (1..n)
    PROVE  IsFiniteSet(S) /\ Cardinality(S) \in Nat
<1>1. IsFiniteSet(1..n)
  BY FS_Interval
<1>2. QED
  BY <1>1, FS_Subset, FS_CardinalityType

\* patch_object of the store: a rename or a move to a free name.
LEMMA PatchKeepsTree ==
    ASSUME TreeKept, NEW c, NEW q \in Requests, Store!patch_object(c, q)
    PROVE  TreeKept' /\ objects' # objects
<1> DEFINE old == objects[q.id]
           new == [old EXCEPT !.name = Store!Given(q.name, @), !.parent = Store!Given(q.parent, @),
                              !.meta = Store!Patched(q.meta, @)]
           row == [new EXCEPT !.revision = @ + 1]
           es == Store!PatchEmits(old, new, q.id)
<1>1. /\ q.op = "patch" /\ Store!is_live(q.id)
      /\ q.id = Root => q.parent = Keep /\ q.name = Keep
      /\ new.parent # old.parent => Store!ParentFolder(new.parent)
      /\ ~Store!name_taken(new.parent, new.name, q.id)
      /\ Store!append_changes(c, [objects EXCEPT ![q.id] = row], es)
  BY DEF Store!patch_object, Root
<1>2. q.id \in AllIds /\ q.name \in Int \cup {Keep}
  BY <1>1, TreeAssumption
<1>3. IsRow(old)
  BY <1>2 DEF TreeKept
<1>4. IsRow(row) /\ row.parent = new.parent /\ row.name = new.name
      /\ row.exists = old.exists /\ row.deleted = old.deleted /\ row.revision = old.revision + 1
  <2> HIDE DEF old
  <2>1. Store!Given(q.name, old.name) \in Int
    BY <1>2, <1>3 DEF Store!Given, IsRow
  <2>2. /\ new = [f \in RowFields |-> new[f]] /\ new.name \in Int /\ new.revision = old.revision
        /\ new.exists = old.exists /\ new.deleted = old.deleted
    BY <1>3, <2>1 DEF IsRow, RowFields
  <2>3. old.revision \in Nat /\ old.exists \in BOOLEAN /\ old.deleted \in BOOLEAN
    BY <1>3 DEF IsRow
  <2> HIDE DEF new
  <2>4. QED
    BY <2>2, <2>3 DEF IsRow, RowFields
<1>5. q.id \in Ids => row.parent \in AllIds
  BY <1>1, <1>4 DEF Store!ParentFolder, AllIds, TreeKept
<1>6. IsList(es)
  <2> HIDE DEF old, new
  <2> DEFINE differs == <<new.name # old.name, new.parent # old.parent, new.meta # old.meta>>
             S == {n \in 1..3 : differs[n]}
             emitted == Store!InOrder(S, LAMBDA m, n : m < n)
  <2>1. DOMAIN emitted = 1..Cardinality(S)
    <3> HIDE DEF S
    <3>1. emitted = [n \in 1..Cardinality(S) |->
                       CHOOSE a \in S : Store!Cardinality({b \in S : b < a}) = n - 1]
      BY SameCount DEF Store!InOrder
    <3> HIDE DEF emitted
    <3>2. QED
      BY <3>1
  <2>2. S \in SUBSET (1..3)
    <3> HIDE DEF differs
    <3>1. QED
      OBVIOUS
  <2>3. Cardinality(S) \in Nat
    <3> HIDE DEF S
    <3>1. QED
      BY <2>2, SmallSets
  <2>4. DOMAIN es = DOMAIN emitted /\ es = [n \in DOMAIN es |-> es[n]]
    BY DEF Store!PatchEmits
  <2> HIDE DEF es, S, emitted
  <2>5. DOMAIN es = 1..Cardinality(S)
    BY <2>1, <2>4
  <2>6. QED
    BY <2>3, <2>4, <2>5, ListOf
<1> HIDE DEF es, row
<1>7. objects' = [objects EXCEPT ![q.id] = row] /\ IsList(changes')
  BY <1>1, <1>6, FeedStaysList
<1>8. \A j \in AllIds \ {q.id} :
          Store!is_live(j) /\ objects[j].parent = row.parent => objects[j].name # row.name
  BY <1>1, <1>4 DEF Store!name_taken, Store!Child, AllIds
<1>9. row.exists /\ ~row.deleted
  BY <1>1, <1>4 DEF Store!is_live
<1>10. TreeKept'
  BY <1>2, <1>4, <1>5, <1>7, <1>8, <1>9, OneRowChanged
<1>11. objects'[q.id].revision = objects[q.id].revision + 1 /\ objects[q.id].revision \in Nat
  BY <1>2, <1>3, <1>4, <1>7 DEF TreeKept, IsRow
<1>12. QED
  BY <1>10, <1>11

Recurs(X, a, step) ==
    \E f \in [Nat -> X] : f = [n \in Nat |-> IF n = 0 THEN a ELSE step[<<n - 1, f[n - 1]>>]]

\* In the form of a recursive definition: the function such a definition
\* chooses exists.
LEMMA Recursive ==
    ASSUME NEW X, NEW a \in X, NEW step \in [Nat \X X -> X]
    PROVE  Recurs(X, a, step)
<1>1. PICK f \in [Nat -> X] : f[0] = a /\ \A n \in Nat : f[n + 1] = step[<<n, f[n]>>]
  <2>1. Iterates(X, a, step)
    BY Recursion
  <2>2. QED
    BY <2>1 DEF Iterates
<1>2. \A n \in Nat : f[n] = IF n = 0 THEN a ELSE step[<<n - 1, f[n - 1]>>]
  <2> SUFFICES ASSUME NEW n \in Nat, n # 0 PROVE f[n] = step[<<n - 1, f[n - 1]>>]
    BY <1>1
  <2>1. n - 1 \in Nat /\ (n - 1) + 1 = n
    OBVIOUS
  <2>2. f[(n - 1) + 1] = step[<<n - 1, f[n - 1]>>]
    BY <1>1, <2>1
  <2>3. QED
    BY <2>1, <2>2
<1>3. f = [n \in Nat |-> IF n = 0 THEN a ELSE step[<<n - 1, f[n - 1]>>]]
  BY <1>1, <1>2
<1>4. QED
  BY <1>3 DEF Recurs

\* The rows below i, each with its depth; the root is not below another.
LEMMA BelowNodes ==
    ASSUME NEW i \in AllIds
    PROVE  /\ Store!Below(i) \in SUBSET ((0..Cardinality(Ids)) \X AllIds)
           /\ <<0, i>> \in Store!Below(i)
           /\ i # Root => \A b \in Store!Below(i) : b[2] # Root
<1> DEFINE under(S) == {j \in Ids : \E p \in S : Store!Child(j, p)}
           Levels(f) == f = [n \in Nat |-> IF n = 0 THEN {i} ELSE under(f[n - 1])]
           level == CHOOSE f : Levels(f)
           X == SUBSET AllIds
           step == [p \in Nat \X X |-> under(p[2])]
<1>1. \E f : Levels(f)
  <2>1. {i} \in X /\ \A S : under(S) \in X
    BY FiniteTree
  <2> HIDE DEF X, under
  <2>2. step \in [Nat \X X -> X]
    BY <2>1
  <2>3. \A n \in Nat, S \in X : step[<<n, S>>] = under(S)
    OBVIOUS
  <2> HIDE DEF step
  <2>4. PICK f \in [Nat -> X] : f = [n \in Nat |-> IF n = 0 THEN {i} ELSE step[<<n - 1, f[n - 1]>>]]
    <3>1. Recurs(X, {i}, step)
      BY <2>1, <2>2, Recursive
    <3>2. QED
      BY <3>1 DEF Recurs
  <2>5. \A n \in Nat : n # 0 => step[<<n - 1, f[n - 1]>>] = under(f[n - 1])
    <3> SUFFICES ASSUME NEW n \in Nat, n # 0
                 PROVE  step[<<n - 1, f[n - 1]>>] = under(f[n - 1])
      OBVIOUS
    <3>1. n - 1 \in Nat
      OBVIOUS
    <3>2. f[n - 1] \in X
      BY <2>4, <3>1
    <3>3. QED
      BY <2>3, <3>1, <3>2
  <2>6. \A n \in Nat : f[n] = IF n = 0 THEN {i} ELSE under(f[n - 1])
    BY <2>4, <2>5
  <2>7. f = [n \in Nat |-> IF n = 0 THEN {i} ELSE under(f[n - 1])]
    BY <2>4, <2>6
  <2>8. QED
    BY <2>7
<1>2. Levels(level)
  <2> HIDE DEF Levels
  <2>1. QED
    BY <1>1
<1>3. Store!Below(i) = UNION {{n} \X level[n] : n \in 0..Store!Cardinality(Ids)}
  BY DEF Store!Below
<1> HIDE DEF level, X
<1>4. level[0] = {i} /\ \A n \in Nat : n # 0 => level[n] \subseteq Ids
  <2>1. \A n \in Nat : level[n] = IF n = 0 THEN {i} ELSE under(level[n - 1])
    <3> HIDE DEF under
    <3>1. QED
      BY <1>2
  <2>2. QED
    BY <2>1
<1>5. Store!Cardinality(Ids) = Cardinality(Ids) /\ Cardinality(Ids) \in Nat
  BY SameCount, TreeAssumption, FS_CardinalityType
<1>6. ASSUME NEW b \in Store!Below(i)
      PROVE  \E n \in 0..Cardinality(Ids) : b \in {n} \X level[n]
  BY <1>3, <1>5
<1>7. ASSUME NEW b \in Store!Below(i)
      PROVE  b \in (0..Cardinality(Ids)) \X AllIds /\ (i # Root => b[2] # Root)
  <2>1. PICK n \in 0..Cardinality(Ids) : b \in {n} \X level[n]
    BY <1>6
  <2>2. b = <<n, b[2]>> /\ b[2] \in level[n] /\ n \in Nat
    BY <1>5, <2>1
  <2>3. b[2] \in AllIds /\ (i # Root => b[2] # Root)
    BY <1>4, <2>2, FiniteTree, TreeAssumption
  <2>4. QED
    BY <2>2, <2>3
<1>8. <<0, i>> \in Store!Below(i)
  BY <1>3, <1>4, <1>5
<1>9. QED
  BY <1>7, <1>8

\* descendants lists i and what is below it.
LEMMA DescendantsList ==
    ASSUME NEW i \in AllIds, NEW t, t = Store!descendants(i)
    PROVE  /\ IsList(t)
           /\ \E n \in 1..Len(t) : t[n] = i
           /\ i # Root => \A n \in 1..Len(t) : t[n] # Root
<1> DEFINE B == Store!Below(i)
           R == {p \in B \X B : Store!Deeper(p[1], p[2])}
           nodes == Store!InOrder(B, Store!Deeper)
<1>1. /\ B \in SUBSET ((0..Cardinality(Ids)) \X AllIds)
      /\ <<0, i>> \in B /\ (i # Root => \A b \in B : b[2] # Root)
  BY BelowNodes
<1>2. B \subseteq Nat \X Nat /\ IsFiniteSet(B)
  <2>1. Cardinality(Ids) \in Nat
    BY TreeAssumption, FS_CardinalityType
  <2>2. IsFiniteSet(0..Cardinality(Ids))
    BY <2>1, FS_Interval
  <2>3. IsFiniteSet((0..Cardinality(Ids)) \X AllIds)
    BY <2>2, FiniteTree, FS_Product
  <2> HIDE DEF B
  <2>4. IsFiniteSet(B)
    BY <1>1, <2>3, FS_Subset
  <2>5. 0..Cardinality(Ids) \subseteq Nat /\ AllIds \subseteq Nat
    BY <2>1, FiniteTree
  <2>6. QED
    BY <1>1, <2>4, <2>5
<1> HIDE DEF B
<1>3. /\ R \in SUBSET (B \X B)
      /\ \A a, b \in B : <<a, b>> \in R <=> Store!Deeper(a, b)
  OBVIOUS
<1> HIDE DEF R
<1>4. StrictlyOrders(R, B)
  <2>1. /\ \A a \in B : ~Store!Deeper(a, a)
        /\ \A a, b \in B : a # b => Store!Deeper(a, b) \/ Store!Deeper(b, a)
        /\ \A a, b, c \in B : Store!Deeper(a, b) /\ Store!Deeper(b, c) => Store!Deeper(a, c)
    BY <1>2 DEF Store!Deeper
  <2>2. QED
    BY <1>3, <2>1 DEF StrictlyOrders
<1>5. nodes = [n \in 1..Cardinality(B) |-> CHOOSE a \in B : Rank(B, R, a) = n - 1]
  <2> DEFINE nth(n) == CHOOSE a \in B : Store!Cardinality({b \in B : Store!Deeper(b, a)}) = n - 1
  <2>1. nodes = [n \in 1..Cardinality(B) |-> nth(n)]
    BY SameCount DEF Store!InOrder
  <2>2. \A a \in B : Store!Cardinality({b \in B : Store!Deeper(b, a)}) = Rank(B, R, a)
    BY <1>3, SameCount DEF Rank, Below
  <2>3. \A n : nth(n) = CHOOSE a \in B : Rank(B, R, a) = n - 1
    BY <2>2
  <2> HIDE DEF nth, nodes
  <2>4. QED
    BY <2>1, <2>3
<1> HIDE DEF nodes
<1>6. Lists(nodes, B, R)
  BY <1>2, <1>4, <1>5, ByRank
<1>7. /\ Cardinality(B) \in Nat /\ DOMAIN nodes = 1..Cardinality(B)
      /\ \A n \in 1..Cardinality(B) : nodes[n] \in B
      /\ \E n \in 1..Cardinality(B) : nodes[n] = <<0, i>>
  BY <1>1, <1>5, <1>6 DEF Lists
<1>8. t = [n \in 1..Cardinality(B) |-> nodes[n][2]]
  <2>1. t = [n \in DOMAIN nodes |-> nodes[n][2]]
    BY DEF Store!descendants, nodes, B
  <2>2. QED
    BY <1>7, <2>1
<1>9. IsList(t) /\ Len(t) = Cardinality(B)
  <2>1. t = [n \in 1..Cardinality(B) |-> t[n]]
    BY <1>8
  <2>2. QED
    BY <1>7, <2>1, ListOf
<1>10. QED
  BY <1>1, <1>7, <1>8, <1>9

\* delete_object of the store, one row or a whole subtree.
LEMMA DeleteKeepsTree ==
    ASSUME TreeKept, NEW c, NEW q \in Requests, Store!delete_object(c, q)
    PROVE  TreeKept' /\ objects' # objects
<1> DEFINE recursive == objects[q.id].kind = "folder" /\ q.recursive
           targets == IF recursive THEN Store!descendants(q.id) ELSE << q.id >>
           dropped(i) == [objects[i] EXCEPT !.deleted = TRUE, !.revision = @ + 1]
           after == [i \in AllIds |-> IF \E n \in DOMAIN targets : targets[n] = i
                                      THEN dropped(i) ELSE objects[i]]
           es == [n \in DOMAIN targets |-> <<targets[n], "deleted">>]
<1>1. /\ q.op = "delete" /\ Store!is_live(q.id) /\ q.id # Root
      /\ Store!append_changes(c, after, es)
  BY DEF Store!delete_object, Root, AllIds
<1>2. q.id \in AllIds
  BY <1>1, TreeAssumption
<1>3. /\ IsList(targets)
      /\ \E n \in 1..Len(targets) : targets[n] = q.id
      /\ \A n \in 1..Len(targets) : targets[n] # Root
  <2>1. CASE recursive
    <3>1. targets = Store!descendants(q.id)
      BY <2>1
    <3> HIDE DEF targets
    <3>2. QED
      BY <1>1, <1>2, <3>1, DescendantsList
  <2>2. CASE ~recursive
    <3>1. targets = << q.id >>
      BY <2>2
    <3> HIDE DEF targets
    <3>2. Len(targets) = 1 /\ IsList(targets) /\ targets[1] = q.id
      BY <3>1 DEF IsList
    <3>3. \A n : n \in 1..Len(targets) <=> n = 1
      BY <3>2
    <3>4. QED
      BY <1>1, <3>2, <3>3
  <2>3. QED
    BY <2>1, <2>2
<1> HIDE DEF targets
<1>4. DOMAIN targets = 1..Len(targets)
  BY <1>3 DEF IsList
<1>5. IsList(es)
  <2>1. es = [n \in 1..Len(targets) |-> es[n]] /\ Len(targets) \in Nat
    BY <1>3, <1>4 DEF IsList
  <2> HIDE DEF es
  <2>2. QED
    BY <2>1, ListOf
<1> HIDE DEF es
<1>6. objects' = after /\ IsList(changes')
  <2> HIDE DEF after
  <2>1. QED
    BY <1>1, <1>5, FeedStaysList
<1> DEFINE gone == {i \in AllIds : \E n \in DOMAIN targets : targets[n] = i}
<1>7. /\ objects' = [i \in AllIds |-> objects'[i]]
      /\ \A i \in AllIds : objects'[i] = IF i \in gone THEN dropped(i) ELSE objects[i]
  BY <1>6
<1>8. q.id \in gone /\ Root \notin gone
  BY <1>2, <1>3, <1>4
<1> HIDE DEF gone, after
<1>9. \A i \in AllIds : /\ IsRow(objects[i]) /\ IsRow(dropped(i)) /\ dropped(i).deleted
                        /\ dropped(i).parent = objects[i].parent
  <2> SUFFICES ASSUME NEW i \in AllIds
               PROVE  /\ IsRow(objects[i]) /\ IsRow(dropped(i)) /\ dropped(i).deleted
                      /\ dropped(i).parent = objects[i].parent
    OBVIOUS
  <2>1. IsRow(objects[i])
    BY DEF TreeKept
  <2>2. /\ dropped(i) = [f \in RowFields |-> dropped(i)[f]]
        /\ dropped(i).deleted = TRUE /\ dropped(i).revision = objects[i].revision + 1
        /\ dropped(i).exists = objects[i].exists /\ dropped(i).parent = objects[i].parent
        /\ dropped(i).name = objects[i].name
    BY <2>1 DEF IsRow, RowFields
  <2> HIDE DEF dropped
  <2>3. /\ dropped(i).exists \in BOOLEAN /\ dropped(i).deleted \in BOOLEAN
        /\ dropped(i).name \in Int /\ dropped(i).revision \in Nat
    <3>1. /\ objects[i].exists \in BOOLEAN /\ objects[i].name \in Int
          /\ objects[i].revision \in Nat
      BY <2>1 DEF IsRow
    <3>2. dropped(i).exists \in BOOLEAN
      BY <2>2, <3>1, Zenon
    <3>3. dropped(i).deleted \in BOOLEAN
      BY <2>2, Zenon
    <3>4. QED
      BY <2>2, <3>1, <3>2, <3>3
  <2>4. IsRow(dropped(i))
    BY <2>2, <2>3 DEF IsRow
  <2>5. dropped(i).deleted /\ dropped(i).parent = objects[i].parent
    BY <2>2, Zenon
  <2>6. QED
    BY <2>1, <2>4, <2>5
<1> HIDE DEF dropped
<1>10. AllIds = Ids \cup {0} /\ Root = 0
  BY FiniteTree
<1>11. /\ \A i \in AllIds : IsRow(objects'[i])
       /\ \A i \in Ids : objects'[i].parent \in AllIds
  BY <1>7, <1>9, <1>10 DEF TreeKept
<1>12. Store!is_live(Root)'
  BY <1>7, <1>8, <1>10 DEF TreeKept, Store!is_live
<1>13. SiblingsDiffer(objects')
  BY <1>7, <1>9, <1>10 DEF TreeKept, SiblingsDiffer
<1>14. TreeKept'
  BY <1>6, <1>7, <1>11, <1>12, <1>13 DEF TreeKept
<1>15. objects'[q.id] # objects[q.id]
  BY <1>1, <1>2, <1>7, <1>8, <1>9 DEF Store!is_live
<1>16. QED
  BY <1>14, <1>15

\* Every mutation keeps the tree well formed and changes a row.
LEMMA MutationKeepsTree ==
    ASSUME TreeKept, Store!Next
    PROVE  TreeKept' /\ objects' # objects
<1>1. PICK c \in Clients : \E q \in Requests : Store!Mutation(c, q)
  BY DEF Store!Next
<1>2. PICK q \in Requests : Store!Mutation(c, q)
  BY <1>1
<1>3. CASE Store!create_object(c, q)
  BY <1>3, CreateKeepsTree
<1>4. CASE Store!patch_object(c, q)
  BY <1>4, PatchKeepsTree
<1>5. CASE Store!delete_object(c, q)
  BY <1>5, DeleteKeepsTree
<1>6. QED
  BY <1>2, <1>3, <1>4, <1>5 DEF Store!Mutation

-----------------------------------------------------------------------------
(* Paths *)

\* split_path gives a list of names.
LEMMA SplitIsList ==
    ASSUME NEW path \in Seq(Int)
    PROVE  IsList(split_path(path)) /\ Len(split_path(path)) \in Nat
<1> DEFINE S == {n \in DOMAIN path : path[n] # Blank}
           kept == Store!InOrder(S, LAMBDA m, n : m < n)
<1>1. S \in SUBSET (1..Len(path)) /\ Len(path) \in Nat
  OBVIOUS
<1> HIDE DEF S
<1>2. Cardinality(S) \in Nat
  BY <1>1, SmallSets
<1>3. DOMAIN kept = 1..Cardinality(S)
  <2>1. kept = [n \in 1..Cardinality(S) |->
                  CHOOSE a \in S : Store!Cardinality({b \in S : b < a}) = n - 1]
    BY SameCount DEF Store!InOrder
  <2>2. QED
    BY <2>1
<1>4. split_path(path) = [n \in DOMAIN kept |-> path[kept[n]]]
  BY DEF split_path, S
<1> HIDE DEF kept
<1>5. split_path(path) = [n \in 1..Cardinality(S) |-> split_path(path)[n]]
  BY <1>3, <1>4
<1>6. QED
  BY <1>2, <1>5, ListOf DEF IsList

\* The children of S that bear the n-th name.
NamedChildren(names, S, n) ==
    {j \in Ids : objects[j].name = names[n] /\ \E p \in S : Store!Child(j, p)}

Descends(path, g) ==
    /\ g \in [Nat -> SUBSET AllIds]
    /\ g[0] = {Root}
    /\ \A n \in Nat : n # 0 => g[n] = NamedChildren(split_path(path), g[n - 1], n)
    /\ Resolve(path) = g[Len(split_path(path))]

\* RESOLVE_QUERY follows the names of the path down from the root.
LEMMA ResolveDescends ==
    ASSUME NEW path
    PROVE  \E g : Descends(path, g)
<1> DEFINE names == split_path(path)
           Walks(g) == g = [n \in Nat |-> IF n = 0 THEN {Root} ELSE NamedChildren(names, g[n - 1], n)]
           walk == CHOOSE g : Walks(g)
           X == SUBSET AllIds
           step == [p \in Nat \X X |-> NamedChildren(names, p[2], p[1] + 1)]
<1>1. \E g : Walks(g)
  <2>1. {Root} \in X /\ \A S, n : NamedChildren(names, S, n) \in X
    BY FiniteTree DEF NamedChildren
  <2> HIDE DEF X, names
  <2>2. step \in [Nat \X X -> X]
    BY <2>1
  <2>3. \A n \in Nat, S \in X : step[<<n, S>>] = NamedChildren(names, S, n + 1)
    OBVIOUS
  <2> HIDE DEF step
  <2>4. PICK g \in [Nat -> X] : g = [n \in Nat |-> IF n = 0 THEN {Root} ELSE step[<<n - 1, g[n - 1]>>]]
    <3>1. Recurs(X, {Root}, step)
      BY <2>1, <2>2, Recursive
    <3>2. QED
      BY <3>1 DEF Recurs
  <2>5. \A n \in Nat : n # 0 => step[<<n - 1, g[n - 1]>>] = NamedChildren(names, g[n - 1], n)
    <3> SUFFICES ASSUME NEW n \in Nat, n # 0
                 PROVE  step[<<n - 1, g[n - 1]>>] = NamedChildren(names, g[n - 1], n)
      OBVIOUS
    <3>1. n - 1 \in Nat /\ g[n - 1] \in X /\ (n - 1) + 1 = n
      BY <2>4
    <3>2. QED
      BY <2>3, <3>1
  <2>6. \A n \in Nat : g[n] = IF n = 0 THEN {Root} ELSE NamedChildren(names, g[n - 1], n)
    BY <2>4, <2>5
  <2>7. g = [n \in Nat |-> IF n = 0 THEN {Root} ELSE NamedChildren(names, g[n - 1], n)]
    BY <2>4, <2>6
  <2>8. QED
    BY <2>7
<1>2. Walks(walk)
  <2> HIDE DEF Walks
  <2>1. QED
    BY <1>1
<1>3. Resolve(path) = walk[Len(split_path(path))]
  BY DEF Resolve, NamedChildren
<1> HIDE DEF walk, X
<1>4. walk[0] = {Root}
      /\ \A n \in Nat : n # 0 => walk[n] = NamedChildren(split_path(path), walk[n - 1], n)
  BY <1>2
<1>5. \A n \in Nat : walk[n] \in SUBSET AllIds
  BY <1>4, FiniteTree DEF NamedChildren
<1>6. walk \in [Nat -> SUBSET AllIds]
  BY <1>2, <1>5
<1>7. QED
  BY <1>3, <1>4, <1>6 DEF Descends

\* A path leads to one live object at most.
LEMMA ResolvesToOne ==
    ASSUME TreeKept, NEW path \in Seq(Int)
    PROVE  /\ \A i \in Resolve(path) : i \in AllIds /\ Store!is_live(i)
           /\ \A i, j \in Resolve(path) : i = j
<1>1. PICK g : Descends(path, g)
  BY ResolveDescends
<1> DEFINE S == {n \in Nat : /\ \A i \in g[n] : Store!is_live(i)
                             /\ \A i, j \in g[n] : i = j}
<1>2. 0 \in S
  BY <1>1 DEF Descends, TreeKept
<1>3. ASSUME NEW n \in S PROVE n + 1 \in S
  <2>1. g[n + 1] = NamedChildren(split_path(path), g[n], n + 1)
    BY <1>1 DEF Descends
  <2>2. \A i \in g[n + 1] : Store!is_live(i)
    BY <2>1 DEF NamedChildren, Store!Child
  <2>3. \A i, j \in g[n + 1] : i = j
    BY <2>1 DEF NamedChildren, Store!Child, Store!is_live, TreeKept, SiblingsDiffer
  <2>4. QED
    BY <2>2, <2>3
<1>4. Nat \subseteq S
  <2> HIDE DEF S
  <2>1. QED
    BY <1>2, <1>3, Induction
<1>5. Len(split_path(path)) \in Nat
  BY SplitIsList
<1>6. QED
  BY <1>1, <1>4, <1>5 DEF Descends

\* u[n] is the n-th parent of i.
Ascends(i, u) ==
    /\ u \in [Nat -> AllIds]
    /\ u[0] = i
    /\ \A n \in Nat : n # 0 =>
          u[n] = IF u[n - 1] = Root THEN Root ELSE objects[u[n - 1]].parent
    /\ LET depth == Cardinality({n \in 0..Cardinality(Ids) : u[n] # Root}) IN
       render_path(i) = [n \in 1..depth |-> objects[u[depth - n]].name]

\* PATH_QUERY follows the parents up to the root.
LEMMA RenderAscends ==
    ASSUME TreeKept, NEW i \in AllIds
    PROVE  \E u : Ascends(i, u)
<1> DEFINE up(j) == IF j = Root THEN Root ELSE objects[j].parent
           Form(w, n) == LET j == IF n = 0 THEN i ELSE w[n - 1] IN
                         IF n = 0 \/ j = Root THEN j ELSE objects[j].parent
           Walks(w) == w = [n \in Nat |-> Form(w, n)]
           walk == CHOOSE w : Walks(w)
           X == AllIds
           step == [p \in Nat \X X |-> up(p[2])]
<1>1. \A w, n : Form(w, n) = IF n = 0 THEN i ELSE up(w[n - 1])
  OBVIOUS
<1>2. \A j \in AllIds : up(j) \in AllIds
  BY FiniteTree DEF TreeKept
<1>3. \E w : Walks(w)
  <2>1. i \in X /\ \A j \in X : up(j) \in X
    BY <1>2
  <2> HIDE DEF X, up, Form
  <2>2. step \in [Nat \X X -> X] /\ \A n \in Nat, j \in X : step[<<n, j>>] = up(j)
    BY <2>1
  <2> HIDE DEF step
  <2>3. PICK w \in [Nat -> X] : w = [n \in Nat |-> IF n = 0 THEN i ELSE step[<<n - 1, w[n - 1]>>]]
    <3>1. Recurs(X, i, step)
      BY <2>1, <2>2, Recursive
    <3>2. QED
      BY <3>1 DEF Recurs
  <2>4. \A n \in Nat : n # 0 => step[<<n - 1, w[n - 1]>>] = up(w[n - 1])
    <3> SUFFICES ASSUME NEW n \in Nat, n # 0 PROVE step[<<n - 1, w[n - 1]>>] = up(w[n - 1])
      OBVIOUS
    <3>1. n - 1 \in Nat /\ w[n - 1] \in X
      BY <2>3
    <3>2. QED
      BY <2>2, <3>1
  <2>5. \A n \in Nat : w[n] = Form(w, n)
    BY <1>1, <2>3, <2>4
  <2>6. w = [n \in Nat |-> Form(w, n)]
    BY <2>3, <2>5
  <2>7. QED
    BY <2>6
<1>4. Walks(walk)
  <2> HIDE DEF Walks
  <2>1. QED
    BY <1>3
<1>5. LET depth == Cardinality({n \in 0..Cardinality(Ids) : walk[n] # Root}) IN
      render_path(i) = [n \in 1..depth |-> objects[walk[depth - n]].name]
  BY DEF render_path
<1> HIDE DEF walk
<1>6. \A n \in Nat : walk[n] = IF n = 0 THEN i ELSE up(walk[n - 1])
  <2> HIDE DEF up, Form
  <2>1. QED
    BY <1>1, <1>4
<1>7. \A n \in Nat : walk[n] \in AllIds
  <2> DEFINE S == {n \in Nat : walk[n] \in AllIds}
  <2> HIDE DEF up
  <2>1. 0 \in S
    BY <1>6
  <2>2. ASSUME NEW n \in S PROVE n + 1 \in S
    BY <1>2, <1>6
  <2> HIDE DEF S
  <2>3. Nat \subseteq S
    BY <2>1, <2>2, Induction
  <2>4. QED
    BY <2>3 DEF S
<1>8. walk \in [Nat -> AllIds]
  <2> HIDE DEF Form
  <2>1. QED
    BY <1>4, <1>7
<1>9. QED
  BY <1>5, <1>6, <1>8 DEF Ascends

\* The parents of the object at a path bear its names, last one first.
LEMMA AscentRetraces ==
    ASSUME TreeKept, NEW path \in Seq(Int), NEW g, Descends(path, g),
           NEW i \in Resolve(path), NEW u, Ascends(i, u),
           NEW L, L = Len(split_path(path))
    PROVE  /\ L \in Nat
           /\ \A k \in 0..(L - 1) : u[k] \in Ids /\ objects[u[k]].name = split_path(path)[L - k]
           /\ \A k \in Nat : k >= L => u[k] = Root
<1>1. L \in Nat
  BY SplitIsList
<1>2. /\ \A n \in Nat : n # 0 => g[n] = NamedChildren(split_path(path), g[n - 1], n)
      /\ g[0] = {Root} /\ i \in g[L]
  BY DEF Descends
<1>3. /\ u[0] = i
      /\ \A n \in Nat : n # 0 =>
            u[n] = IF u[n - 1] = Root THEN Root ELSE objects[u[n - 1]].parent
  BY DEF Ascends
<1> DEFINE S == {k \in Nat : k <= L => u[k] \in g[L - k]}
<1>4. 0 \in S
  BY <1>1, <1>2, <1>3
<1>5. ASSUME NEW k \in S PROVE k + 1 \in S
  <2> SUFFICES ASSUME k + 1 <= L PROVE u[k + 1] \in g[L - (k + 1)]
    OBVIOUS
  <2>1. /\ L - k \in Nat /\ L - k # 0 /\ (L - k) - 1 = L - (k + 1)
        /\ u[k] \in g[L - k] /\ k + 1 \in Nat /\ k + 1 # 0 /\ (k + 1) - 1 = k
    BY <1>1
  <2>2. u[k] \in NamedChildren(split_path(path), g[L - (k + 1)], L - k)
    BY <1>2, <2>1
  <2>3. u[k] \in Ids /\ objects[u[k]].parent \in g[L - (k + 1)]
    BY <2>2 DEF NamedChildren, Store!Child
  <2>4. u[k + 1] = objects[u[k]].parent
    <3>1. u[k] # Root
      BY <2>3, FiniteTree, TreeAssumption
    <3>2. u[k + 1] = IF u[(k + 1) - 1] = Root THEN Root ELSE objects[u[(k + 1) - 1]].parent
      BY <1>3, <2>1
    <3>3. QED
      BY <2>1, <3>1, <3>2
  <2>5. QED
    BY <2>3, <2>4
<1>6. Nat \subseteq S
  <2> HIDE DEF S
  <2>1. QED
    BY <1>4, <1>5, Induction
<1>7. ASSUME NEW k \in 0..(L - 1)
      PROVE  u[k] \in Ids /\ objects[u[k]].name = split_path(path)[L - k]
  <2>1. L - k \in Nat /\ L - k # 0 /\ k \in Nat /\ k <= L
    BY <1>1
  <2>2. u[k] \in NamedChildren(split_path(path), g[L - k - 1], L - k)
    BY <1>2, <1>6, <2>1
  <2>3. QED
    BY <2>2 DEF NamedChildren
<1> DEFINE T == {m \in Nat : u[L + m] = Root}
<1>8. 0 \in T
  <2>1. u[L] \in g[L - L] /\ L - L = 0 /\ L + 0 = L
    BY <1>1, <1>6
  <2>2. QED
    BY <1>2, <2>1
<1>9. ASSUME NEW m \in T PROVE m + 1 \in T
  <2>1. L + (m + 1) \in Nat /\ L + (m + 1) # 0 /\ (L + (m + 1)) - 1 = L + m
    BY <1>1
  <2>2. QED
    BY <1>3, <2>1
<1>10. Nat \subseteq T
  <2> HIDE DEF T
  <2>1. QED
    BY <1>8, <1>9, Induction
<1>11. ASSUME NEW k \in Nat, k >= L PROVE u[k] = Root
  <2>1. k - L \in Nat /\ L + (k - L) = k
    BY <1>1, <1>11
  <2>2. u[L + (k - L)] = Root
    BY <1>10, <2>1
  <2>3. QED
    BY <2>1, <2>2
<1>12. QED
  BY <1>1, <1>7, <1>11

\* The objects on the way to the root are different ones, so the bound on the
\* walk of render_path is never reached.
LEMMA AscentIsShort ==
    ASSUME TreeKept, NEW i, NEW u, Ascends(i, u), NEW L \in Nat,
           \A k \in 0..(L - 1) : u[k] \in Ids,
           \A k \in Nat : k >= L => u[k] = Root
    PROVE  L <= Cardinality(Ids)
<1> SUFFICES ASSUME Cardinality(Ids) < L PROVE FALSE
  <2>1. Cardinality(Ids) \in Nat
    BY TreeAssumption, FS_CardinalityType
  <2>2. QED
    BY <2>1
<1> DEFINE f == [k \in 0..(L - 1) |-> u[k]]
<1>1. PICK a, b \in 0..(L - 1) : a # b /\ u[a] = u[b]
  <2>1. IsFiniteSet(0..(L - 1)) /\ Cardinality(0..(L - 1)) = L
    <3>1. 0 \in Int /\ L - 1 \in Int
      OBVIOUS
    <3>2. /\ IsFiniteSet(0..(L - 1))
          /\ Cardinality(0..(L - 1)) = IF 0 > L - 1 THEN 0 ELSE L - 1 - 0 + 1
      BY <3>1, FS_Interval
    <3>3. QED
      BY <3>2
  <2>2. f \in [0..(L - 1) -> Ids] /\ \A k \in 0..(L - 1) : f[k] = u[k]
    OBVIOUS
  <2> HIDE DEF f
  <2>3. \E a, b \in 0..(L - 1) : a # b /\ f[a] = f[b]
    <3> DEFINE D == 0..(L - 1)
    <3>1. IsFiniteSet(D) /\ IsFiniteSet(Ids) /\ Cardinality(Ids) < Cardinality(D) /\ f \in [D -> Ids]
      BY <2>1, <2>2, TreeAssumption
    <3> HIDE DEF D
    <3>2. \E a, b \in D : a # b /\ f[a] = f[b]
      BY <3>1, FS_PigeonHole
    <3>3. QED
      BY <3>2 DEF D
  <2>4. QED
    BY <2>2, <2>3
\* From equal objects on the parents are equal.
<1>2. ASSUME NEW c \in 0..(L - 1), NEW d \in 0..(L - 1), u[c] = u[d]
      PROVE  \A m \in Nat : u[c + m] = u[d + m]
  <2> DEFINE S == {m \in Nat : u[c + m] = u[d + m]}
  <2>1. 0 \in S
    BY <1>2
  <2>2. ASSUME NEW m \in S PROVE m + 1 \in S
    <3>1. /\ c + (m + 1) \in Nat /\ c + (m + 1) # 0 /\ (c + (m + 1)) - 1 = c + m
          /\ d + (m + 1) \in Nat /\ d + (m + 1) # 0 /\ (d + (m + 1)) - 1 = d + m
      OBVIOUS
    <3>2. QED
      BY <3>1 DEF Ascends
  <2> HIDE DEF S
  <2>3. Nat \subseteq S
    BY <2>1, <2>2, Induction
  <2>4. QED
    BY <2>3 DEF S
<1>3. ASSUME NEW c \in 0..(L - 1), NEW d \in 0..(L - 1), c < d, u[c] = u[d]
      PROVE  FALSE
  <2>1. L - d \in Nat /\ d + (L - d) = L /\ c + (L - d) \in 0..(L - 1)
    BY <1>3
  <2>2. u[c + (L - d)] = u[d + (L - d)]
    BY <1>2, <1>3, <2>1
  <2>3. u[c + (L - d)] \in Ids /\ u[L] = Root
    BY <2>1
  <2>4. QED
    BY <2>1, <2>2, <2>3, FiniteTree, TreeAssumption
<1>4. a < b \/ b < a
  BY <1>1
<1>5. QED
  BY <1>1, <1>3, <1>4

\* The path of the object at a path is that path, empty segments collapsed.
LEMMA RenderedAsAsked ==
    ASSUME TreeKept, NEW path \in Seq(Int), NEW i \in Resolve(path)
    PROVE  render_path(i) = split_path(path)
<1> DEFINE L == Len(split_path(path))
<1>1. PICK g : Descends(path, g)
  BY ResolveDescends
<1>2. PICK u : Ascends(i, u)
  BY ResolvesToOne, RenderAscends
<1>3. /\ L \in Nat
      /\ \A k \in 0..(L - 1) : u[k] \in Ids /\ objects[u[k]].name = split_path(path)[L - k]
      /\ \A k \in Nat : k >= L => u[k] = Root
  BY <1>1, <1>2, AscentRetraces
<1>4. L <= Cardinality(Ids) /\ Cardinality(Ids) \in Nat
  <2>1. \A k \in 0..(L - 1) : u[k] \in Ids
    BY <1>3
  <2> HIDE DEF L
  <2>2. L <= Cardinality(Ids)
    BY <1>2, <1>3, <2>1, AscentIsShort
  <2>3. QED
    BY <2>2, TreeAssumption, FS_CardinalityType
<1>5. {n \in 0..Cardinality(Ids) : u[n] # Root} = 0..(L - 1)
  BY <1>3, <1>4, FiniteTree, TreeAssumption
<1>6. Cardinality(0..(L - 1)) = L
  <2>1. 0 \in Int /\ L - 1 \in Int
    BY <1>3
  <2>2. Cardinality(0..(L - 1)) = IF 0 > L - 1 THEN 0 ELSE L - 1 - 0 + 1
    BY <2>1, FS_Interval
  <2>3. QED
    BY <1>3, <2>2
<1>7. render_path(i) = [n \in 1..L |-> objects[u[L - n]].name]
  <2> DEFINE depth == Cardinality({n \in 0..Cardinality(Ids) : u[n] # Root})
  <2>1. render_path(i) = [n \in 1..depth |-> objects[u[depth - n]].name]
    BY <1>2 DEF Ascends
  <2>2. depth = L
    BY <1>5, <1>6
  <2> HIDE DEF depth, L
  <2>3. QED
    BY <2>1, <2>2
<1>8. \A n \in 1..L : objects[u[L - n]].name = split_path(path)[n]
  <2> SUFFICES ASSUME NEW n \in 1..L PROVE objects[u[L - n]].name = split_path(path)[n]
    OBVIOUS
  <2>1. L - n \in 0..(L - 1) /\ L - (L - n) = n
    BY <1>3
  <2>2. QED
    BY <1>3, <2>1
<1>9. split_path(path) = [n \in 1..L |-> split_path(path)[n]]
  BY SplitIsList DEF IsList
<1>10. QED
  BY <1>7, <1>8, <1>9

-----------------------------------------------------------------------------
(* The reader's steps leave the tree alone *)

\* The tree is as good as it was.
LEMMA SameRows ==
    ASSUME UNCHANGED objects, UNCHANGED changes, TreeKept
    PROVE  TreeKept'
  BY DEF TreeKept, Store!is_live

\* A row keeps its place.
LEMMA SamePlaces ==
    ASSUME UNCHANGED objects, UNCHANGED changes, UNCHANGED query
    PROVE  \A i : Place(query, i)' = Place(query, i)
<1> SUFFICES ASSUME NEW i PROVE Place(query, i)' = Place(query, i)
  OBVIOUS
<1>1. LastChange(i)' = LastChange(i)
  BY DEF LastChange
<1>2. CreatedAt(i)' = CreatedAt(i)
  BY DEF CreatedAt
<1>3. QED
  BY <1>1, <1>2 DEF Place, SortKey, OrderBy

AllDescend == \A path : \E g : Descends(path, g)

\* ResolveDescends in the next state.
LEMMA NextDescends == AllDescend'
<1>1. AllDescend
  BY ResolveDescends DEF AllDescend
<1>2. QED
  BY <1>1, PTL

\* A path leads where it led.
LEMMA SameResolve ==
    ASSUME UNCHANGED objects, NEW path \in Seq(Int)
    PROVE  Resolve(path)' = Resolve(path)
<1>1. PICK g : Descends(path, g)
  BY ResolveDescends
<1>2. AllDescend'
  BY NextDescends
<1>3. PICK h : Descends(path, h)'
  BY <1>2 DEF AllDescend
<1> DEFINE S == {n \in Nat : g[n] = h[n]}
<1>4. 0 \in S
  BY <1>1, <1>3 DEF Descends
<1>5. ASSUME NEW n \in S PROVE n + 1 \in S
  <2>1. g[n + 1] = NamedChildren(split_path(path), g[n], n + 1)
    BY <1>1 DEF Descends
  <2>2. h[n + 1] = NamedChildren(split_path(path), h[n], n + 1)
    BY <1>3 DEF Descends, NamedChildren, Store!Child, Store!is_live
  <2>3. QED
    BY <2>1, <2>2
<1>6. Nat \subseteq S
  <2> HIDE DEF S
  <2>1. QED
    BY <1>4, <1>5, Induction
<1>7. Len(split_path(path)) \in Nat
  BY SplitIsList
<1>8. QED
  BY <1>1, <1>3, <1>6, <1>7 DEF Descends

\* A request asks for the same rows.
LEMMA SameAnswer ==
    ASSUME UNCHANGED objects, NEW q \in Queries
    PROVE  Wanted(q)' = Wanted(q)
<1>1. q.what = "resolve" => q.path \in Seq(Int)
  BY PageAssumption DEF IsQuery
<1>2. CASE q.what = "resolve"
  <2>1. Resolve(q.path)' = Resolve(q.path)
    BY <1>1, <1>2, SameResolve
  <2>2. QED
    BY <1>2, <2>1 DEF Wanted
<1>3. CASE q.what # "resolve"
  BY <1>3 DEF Wanted, Selected, Store!is_live, MatchesAll, Holds
<1>4. QED
  BY <1>2, <1>3

\* The reader asks for the same rows.
LEMMA SameWanted ==
    ASSUME UNCHANGED objects, UNCHANGED query, query \in Queries
    PROVE  Wanted(query)' = Wanted(query)
<1>1. PICK q \in Queries : q = query
  OBVIOUS
<1>2. Wanted(q)' = Wanted(q)
  BY SameAnswer
<1>3. QED
  BY <1>1, <1>2

-----------------------------------------------------------------------------
(* The invariant is inductive *)

\* Nothing has been asked yet.
LEMMA InitHolds == Init => Inv
<1> SUFFICES ASSUME Init PROVE Inv
  OBVIOUS
<1> USE DEF Init
<1>1. objects = InitialRows /\ changes = << >>
  BY DEF Store!Init
<1>2. TreeKept
  <2>1. IsList(changes)
    BY <1>1, Lists0
  <2>2. Store!is_live(Root)
    BY <1>1, TreeAssumption DEF Store!is_live
  <2>3. QED
    BY <1>1, <2>1, <2>2, TreeAssumption DEF TreeKept
<1>3. Asked
  BY DEF Asked
<1>4. Read
  BY Lists0 DEF Read, ItemsSound, InOneOrder
<1>5. CursorKept /\ SteadyTold /\ OneResolved
  BY DEF CursorKept, SteadyTold, OneResolved
<1>6. QED
  BY <1>2, <1>3, <1>4, <1>5 DEF Inv

LEMMA MutateKeeps ==
    ASSUME Inv, Mutate
    PROVE  Inv' /\ objects' # objects
<1>1. TreeKept' /\ objects' # objects
  BY MutationKeepsTree DEF Inv, Mutate
<1>2. UNCHANGED <<query, stage, cursor, rows, more, delivered>>
  BY DEF Mutate
<1>3. /\ steady' \subseteq steady /\ steady' \subseteq Wanted(query)'
      /\ \A i \in steady' : Place(query, i)' = Place(query, i)
  BY DEF Mutate, Staying
<1>4. Asked'
  BY <1>2, <1>3 DEF Inv, Asked
<1>5. ASSUME NEW items, ItemsSound(items)
      PROVE  /\ IsList(items)
             /\ \A n \in 1..Len(items) :
                   /\ items[n].id \in AllIds
                   /\ items[n].place \in Int \X Int
                   /\ items[n].place[2] = items[n].id
                   /\ items[n].id \in steady' => items[n].place = Place(query, items[n].id)'
  BY <1>3, <1>5 DEF ItemsSound
<1>6. ItemsSound(delivered)' /\ ItemsSound(rows)'
  BY <1>2, <1>5 DEF Inv, Read, ItemsSound
<1>7. Read'
  BY <1>2, <1>6 DEF Inv, Read, InOneOrder, Behind, Descending
<1>8. CursorKept'
  BY <1>2 DEF Inv, CursorKept, Behind, Descending
<1>9. SteadyTold'
  BY <1>2, <1>3 DEF Inv, SteadyTold, Told, Behind, Descending
<1>10. OneResolved'
  BY <1>2, <1>3 DEF Inv, OneResolved
<1>11. QED
  BY <1>1, <1>4, <1>7, <1>8, <1>9, <1>10 DEF Inv

LEMMA BeginKeeps ==
    ASSUME Inv, Begin
    PROVE  Inv'
<1>1. /\ stage = "idle" /\ UNCHANGED <<objects, changes, cursor, rows, more, delivered>>
      /\ query' \in Queries /\ stage' = Start(query') /\ steady' = Wanted(query')
  BY DEF Begin, tree
<1>2. /\ query = None /\ steady = {} /\ delivered = << >> /\ more = FALSE /\ rows = << >>
      /\ cursor = None
  BY <1>1 DEF Inv, Asked, Read, CursorKept
<1>3. stage' \in {"folder", "rows", "resolve"}
      /\ (stage' = "folder" => query'.what = "children")
      /\ (stage' = "rows" => query'.what = "query")
      /\ (stage' = "resolve" => query'.what = "resolve")
  BY <1>1, PageAssumption DEF Start, IsQuery
<1>4. query' # None
  BY <1>1, PageAssumption
<1>5. Asked'
  BY <1>1, <1>2, <1>3, <1>4 DEF Asked
<1>6. Read'
  BY <1>1, <1>2, <1>3, Lists0 DEF Read, ItemsSound, InOneOrder
<1>7. CursorKept'
  BY <1>1, <1>2, <1>3 DEF CursorKept
<1>8. SteadyTold'
  <2>1. PICK q \in Queries : query' = q /\ steady' = Wanted(q)
    BY DEF Begin
  <2>2. Wanted(q)' = Wanted(q)
    BY <1>1, SameAnswer
  <2>3. steady' \subseteq Wanted(query)'
    BY <2>1, <2>2
  <2>4. stage' \notin {"paths", "done"} /\ ~more'
    BY <1>1, <1>2, <1>3
  <2>5. QED
    BY <2>3, <2>4 DEF SteadyTold
<1>9. OneResolved'
  BY <1>1, <1>2, <1>3 DEF OneResolved
<1>10. TreeKept'
  BY <1>1, SameRows DEF Inv
<1>11. QED
  BY <1>5, <1>6, <1>7, <1>8, <1>9, <1>10 DEF Inv

\* What a step that only reads leaves alone.
LEMMA ReadingFrame ==
    ASSUME Inv, query \in Queries, UNCHANGED <<objects, changes, query, steady>>
    PROVE  /\ TreeKept'
           /\ query # None => steady' \subseteq Wanted(query)'
           /\ \A i : Place(query, i)' = Place(query, i)
           /\ \A items : ItemsSound(items) =>
                 /\ IsList(items)
                 /\ \A n \in 1..Len(items) :
                       /\ items[n].id \in AllIds
                       /\ items[n].place \in Int \X Int
                       /\ items[n].place[2] = items[n].id
                       /\ items[n].id \in steady' => items[n].place = Place(query, items[n].id)'
<1>1. TreeKept'
  BY SameRows DEF Inv
<1>2. \A i : Place(query, i)' = Place(query, i)
  BY SamePlaces
<1>3. Wanted(query)' = Wanted(query)
  BY SameWanted
<1>4. query # None => steady' \subseteq Wanted(query)'
  BY <1>3 DEF Inv, SteadyTold
<1>5. QED
  BY <1>1, <1>2, <1>4 DEF ItemsSound

LEMMA CheckFolderKeeps ==
    ASSUME Inv, CheckFolder
    PROVE  Inv'
<1>1. /\ stage = "folder" /\ stage' \in {"not_found", "not_a_folder", "rows"}
      /\ UNCHANGED <<objects, changes, query, cursor, rows, more, delivered, steady>>
  BY DEF CheckFolder, tree
<1>2. query \in Queries /\ query.what = "children" /\ query # None
  BY <1>1, PageAssumption DEF Inv, Asked
<1>3. /\ TreeKept' /\ steady' \subseteq Wanted(query)'
      /\ \A i : Place(query, i)' = Place(query, i)
  BY <1>1, <1>2, ReadingFrame
<1>4. Asked'
  BY <1>1, <1>2 DEF Inv, Asked, Outcomes
<1>5. ItemsSound(delivered)' /\ ItemsSound(rows)'
  BY <1>1, <1>3 DEF Inv, Read, ItemsSound
<1>6. Read'
  BY <1>1, <1>5 DEF Inv, Read, InOneOrder, Behind, Descending
<1>7. CursorKept'
  BY <1>1 DEF Inv, CursorKept, Behind, Descending
<1>8. SteadyTold'
  BY <1>1, <1>3 DEF Inv, SteadyTold, Told, Behind, Descending
<1>9. OneResolved'
  BY <1>1, <1>2 DEF OneResolved
<1>10. QED
  BY <1>3, <1>4, <1>6, <1>7, <1>8, <1>9 DEF Inv

\* The rows of the next page continue what was delivered.
LEMMA PageContinues ==
    ASSUME Inv, stage = "rows", NEW page, page = finish_page
    PROVE  /\ query \in Queries /\ query.what # "resolve" /\ query # None /\ rows = << >>
           /\ PageSound(page)
           /\ ItemsSound(page.items) /\ InOneOrder(page.items)
           /\ \A m \in 1..Len(delivered), n \in 1..Len(page.items) :
                 Behind(query, delivered[m].place, page.items[n].place)
           /\ page.more \in BOOLEAN /\ (~page.more => page.next = None)
           /\ page.more =>
                 /\ page.next \in Int \X Int /\ page.next[2] \in AllIds
                 /\ \A n \in 1..Len(delivered) : ~Behind(query, page.next, delivered[n].place)
                 /\ \A n \in 1..Len(page.items) : ~Behind(query, page.next, page.items[n].place)
                 /\ cursor = None \/ Behind(query, cursor, page.next)
           /\ \A i \in steady :
                 ~page.more \/ ~Behind(query, page.next, Place(query, i)) =>
                    \/ \E n \in 1..Len(delivered) : delivered[n].id = i
                    \/ \E n \in 1..Len(page.items) : page.items[n].id = i
<1>1. query \in Queries /\ query.what # "resolve" /\ query # None /\ rows = << >>
  BY PageAssumption DEF Inv, Asked, Read
<1>2. PageSound(page)
  BY <1>1, PageIsSound DEF Inv
<1>3. TreeKept /\ ItemsSound(delivered)
  BY DEF Inv, Read
<1>4. \A i \in AfterCursor : /\ i \in AllIds /\ Selected(query, i)
                             /\ cursor = None \/ Behind(query, cursor, Place(query, i))
  BY DEF AfterCursor
<1>5. \A i \in AllIds : Place(query, i) \in Int \X Int /\ Place(query, i)[2] = i
  BY <1>1, <1>3, PlaceType
<1>6. /\ IsList(page.items) /\ Len(page.items) \in Nat
      /\ \A n \in 1..Len(page.items) :
          /\ page.items[n].id \in AfterCursor /\ page.items[n].id \in AllIds
          /\ page.items[n].place = Place(query, page.items[n].id)
          /\ page.items[n].place \in Int \X Int
          /\ page.items[n].place[2] = page.items[n].id
  BY <1>2, <1>4, <1>5 DEF PageSound, IsList
<1>7. ItemsSound(page.items) /\ InOneOrder(page.items)
  BY <1>2, <1>6 DEF ItemsSound, PageSound
<1>8. /\ \A a \in Int \X Int : ~Behind(query, a, a)
      /\ \A a, b \in Int \X Int : a # b => Behind(query, a, b) \/ Behind(query, b, a)
      /\ \A a, b, c \in Int \X Int : Behind(query, a, b) /\ Behind(query, b, c) => Behind(query, a, c)
  BY BehindOrders
<1>9. \A n \in 1..Len(delivered) : delivered[n].place \in Int \X Int
  BY <1>3 DEF ItemsSound
\* Behind the cursor is behind what is not behind it.
<1>10. \A m \in 1..Len(delivered), n \in 1..Len(page.items) :
          Behind(query, delivered[m].place, page.items[n].place)
  <2> SUFFICES ASSUME NEW m \in 1..Len(delivered), NEW n \in 1..Len(page.items)
               PROVE  Behind(query, delivered[m].place, page.items[n].place)
    OBVIOUS
  <2>1. more /\ cursor \in Int \X Int /\ ~Behind(query, cursor, delivered[m].place)
    BY Lists0 DEF Inv, CursorKept
  <2>2. cursor # None
    BY <2>1, PageAssumption
  <2>3. Behind(query, cursor, page.items[n].place)
    BY <1>4, <1>6, <2>2
  <2>4. delivered[m].place = cursor \/ Behind(query, delivered[m].place, cursor)
    BY <1>8, <1>9, <2>1
  <2>5. QED
    BY <1>6, <1>8, <1>9, <2>1, <2>3, <2>4
<1>11. page.more \in BOOLEAN /\ (~page.more => page.next = None)
  BY <1>2 DEF PageSound
<1>12. ASSUME page.more
       PROVE  /\ Len(page.items) \in 1..Len(page.items)
              /\ page.next = page.items[Len(page.items)].place
  BY <1>2, <1>6, <1>12 DEF PageSound
<1>13. ASSUME page.more
       PROVE  /\ page.next \in Int \X Int /\ page.next[2] \in AllIds
              /\ cursor = None \/ Behind(query, cursor, page.next)
  BY <1>4, <1>6, <1>12, <1>13
<1>14. ASSUME page.more, NEW n \in 1..Len(delivered)
       PROVE  ~Behind(query, page.next, delivered[n].place)
  <2>1. Behind(query, delivered[n].place, page.next)
    BY <1>10, <1>12, <1>14
  <2>2. QED
    BY <1>8, <1>9, <1>13, <1>14, <2>1
<1>15. ASSUME page.more, NEW n \in 1..Len(page.items)
       PROVE  ~Behind(query, page.next, page.items[n].place)
  <2>1. n = Len(page.items) \/ n < Len(page.items)
    BY <1>6
  <2>2. page.items[n].place = page.next \/ Behind(query, page.items[n].place, page.next)
    BY <1>7, <1>12, <1>15, <2>1 DEF InOneOrder
  <2>3. QED
    BY <1>6, <1>8, <1>13, <1>15, <2>2
<1>16. ASSUME NEW i \in steady,
              ~page.more \/ ~Behind(query, page.next, Place(query, i)),
              ~\E n \in 1..Len(delivered) : delivered[n].id = i
       PROVE  \E n \in 1..Len(page.items) : page.items[n].id = i
  <2>1. i \in AllIds /\ Selected(query, i)
    BY <1>1 DEF Inv, SteadyTold, Wanted
  <2>2. cursor = None \/ Behind(query, cursor, Place(query, i))
    <3>1. ~Told(i)
      BY <1>1, <1>16, Lists0 DEF Told
    <3>2. ~more => cursor = None
      BY DEF Inv, CursorKept
    <3>3. more => Behind(query, cursor, Place(query, i))
      BY <1>1, <3>1 DEF Inv, SteadyTold
    <3>4. QED
      BY <3>2, <3>3
  <2>3. i \in AfterCursor
    BY <2>1, <2>2 DEF AfterCursor
  <2>4. QED
    BY <1>2, <1>16, <2>3 DEF PageSound
<1>17. QED
  BY <1>1, <1>2, <1>7, <1>10, <1>11, <1>13, <1>14, <1>15, <1>16

LEMMA ReadRowsKeeps ==
    ASSUME Inv, ReadRows
    PROVE  Inv'
<1> DEFINE page == finish_page
<1>1. /\ stage = "rows" /\ stage' = "paths"
      /\ rows' = page.items /\ more' = page.more /\ cursor' = page.next
      /\ UNCHANGED <<objects, changes, query, delivered, steady>>
  BY DEF ReadRows, tree
<1> HIDE DEF page
<1>2. /\ query \in Queries /\ query.what # "resolve" /\ query # None /\ rows = << >>
      /\ ItemsSound(page.items) /\ InOneOrder(page.items)
      /\ \A m \in 1..Len(delivered), n \in 1..Len(page.items) :
            Behind(query, delivered[m].place, page.items[n].place)
      /\ page.more \in BOOLEAN /\ (~page.more => page.next = None)
      /\ page.more =>
            /\ page.next \in Int \X Int /\ page.next[2] \in AllIds
            /\ \A n \in 1..Len(delivered) : ~Behind(query, page.next, delivered[n].place)
            /\ \A n \in 1..Len(page.items) : ~Behind(query, page.next, page.items[n].place)
      /\ \A i \in steady :
            ~page.more \/ ~Behind(query, page.next, Place(query, i)) =>
               \/ \E n \in 1..Len(delivered) : delivered[n].id = i
               \/ \E n \in 1..Len(page.items) : page.items[n].id = i
  BY <1>1, PageContinues DEF page
<1>3. /\ TreeKept' /\ steady' \subseteq Wanted(query)'
      /\ \A i : Place(query, i)' = Place(query, i)
  BY <1>1, <1>2, ReadingFrame
<1>4. Asked'
  BY <1>1, <1>2 DEF Asked
<1>5. ItemsSound(delivered)' /\ ItemsSound(rows)'
  BY <1>1, <1>2, <1>3 DEF Inv, Read, ItemsSound
<1>6. Read'
  BY <1>1, <1>2, <1>5 DEF Inv, Read, InOneOrder, Behind, Descending
<1>7. CursorKept'
  BY <1>1, <1>2 DEF CursorKept, Behind, Descending
<1>8. SteadyTold'
  BY <1>1, <1>2, <1>3 DEF SteadyTold, Told, Behind, Descending
<1>9. OneResolved'
  BY <1>1, <1>2 DEF OneResolved
<1>10. QED
  BY <1>3, <1>4, <1>6, <1>7, <1>8, <1>9 DEF Inv

Answered(s, items) == s \o WithPaths(items)

\* The answer to a page follows what was delivered before.
LEMMA AnswerFollows ==
    ASSUME NEW s, IsList(s), NEW items, IsList(items), NEW t, t = Answered(s, items)
    PROVE  /\ IsList(t) /\ Len(t) = Len(s) + Len(items)
           /\ \A n \in 1..Len(s) : t[n] = s[n]
           /\ \A n \in 1..Len(items) :
                 /\ t[Len(s) + n].id = items[n].id
                 /\ t[Len(s) + n].place = items[n].place
                 /\ t[Len(s) + n].path = render_path(items[n].id)
           /\ \A k \in 1..Len(t) :
                 \/ k \in 1..Len(s)
                 \/ \E n \in 1..Len(items) : k = Len(s) + n
<1>1. Len(s) \in Nat /\ Len(items) \in Nat /\ DOMAIN items = 1..Len(items)
  BY DEF IsList
<1> DEFINE w == WithPaths(items)
<1>2. /\ w = [n \in 1..Len(items) |-> w[n]]
      /\ \A n \in 1..Len(items) : /\ w[n].id = items[n].id /\ w[n].place = items[n].place
                                  /\ w[n].path = render_path(items[n].id)
  BY <1>1 DEF WithPaths
<1> HIDE DEF w
<1>3. IsList(w) /\ Len(w) = Len(items)
  BY <1>1, <1>2, ListOf
<1>4. /\ IsList(t) /\ Len(t) = Len(s) + Len(w)
      /\ \A n \in 1..Len(s) : t[n] = s[n]
      /\ \A n \in 1..Len(w) : t[Len(s) + n] = w[n]
  <2>1. t = s \o w
    BY DEF Answered, w
  <2>2. IsList(w)
    BY <1>3
  <2>3. Joined(s \o w, s, w)
    BY <2>2, ListConcat
  <2>4. QED
    BY <2>1, <2>3 DEF Joined
<1>5. ASSUME NEW k \in 1..Len(t), k \notin 1..Len(s)
      PROVE  \E n \in 1..Len(items) : k = Len(s) + n
  <2>1. k - Len(s) \in 1..Len(items) /\ k = Len(s) + (k - Len(s))
    BY <1>1, <1>3, <1>4, <1>5
  <2>2. QED
    BY <2>1
<1>6. QED
  BY <1>2, <1>3, <1>4, <1>5

\* t is what was delivered in s, then items, all of it in order.
Continues(t, s, items) ==
    /\ ItemsSound(t) /\ InOneOrder(t)
    /\ \A i : (\E n \in 1..Len(t) : t[n].id = i) <=>
                 \/ \E n \in 1..Len(s) : s[n].id = i
                 \/ \E n \in 1..Len(items) : items[n].id = i
    /\ \A n \in 1..Len(t) :
          \/ \E m \in 1..Len(s) : t[n].place = s[m].place
          \/ \E m \in 1..Len(items) : t[n].place = items[m].place

\* A page appended to the pages before it gives one chain in one order.
LEMMA AnswerSound ==
    ASSUME NEW s, ItemsSound(s), InOneOrder(s), NEW items, ItemsSound(items), InOneOrder(items),
           \A m \in 1..Len(s), n \in 1..Len(items) : Behind(query, s[m].place, items[n].place),
           NEW t, t = Answered(s, items)
    PROVE  Continues(t, s, items)
<1>1. IsList(s) /\ IsList(items) /\ Len(s) \in Nat /\ Len(items) \in Nat
  BY DEF ItemsSound, IsList
<1>2. /\ IsList(t) /\ Len(t) = Len(s) + Len(items)
      /\ \A n \in 1..Len(s) : t[n] = s[n]
      /\ \A n \in 1..Len(items) : /\ t[Len(s) + n].id = items[n].id
                                  /\ t[Len(s) + n].place = items[n].place
      /\ \A k \in 1..Len(t) : \/ k \in 1..Len(s)
                              \/ \E n \in 1..Len(items) : k = Len(s) + n
  BY <1>1, AnswerFollows
<1>3. /\ \A n \in 1..Len(s) : n \in 1..Len(t)
      /\ \A n \in 1..Len(items) : Len(s) + n \in 1..Len(t)
  BY <1>1, <1>2
<1>4. ItemsSound(t)
  <2> DEFINE Right(x) == /\ x.id \in AllIds /\ x.place \in Int \X Int /\ x.place[2] = x.id
                         /\ x.id \in steady => x.place = Place(query, x.id)
  <2>1. /\ \A n \in 1..Len(s) : Right(s[n])
        /\ \A n \in 1..Len(items) : Right(items[n])
    BY DEF ItemsSound
  <2>2. ASSUME NEW k \in 1..Len(t) PROVE Right(t[k])
    <3>1. CASE k \in 1..Len(s)
      <4>1. t[k] = s[k]
        BY <1>2, <3>1
      <4>2. QED
        BY <2>1, <3>1, <4>1
    <3>2. CASE k \notin 1..Len(s)
      <4>1. PICK n \in 1..Len(items) : k = Len(s) + n
        BY <1>2, <3>2
      <4>2. t[k].id = items[n].id /\ t[k].place = items[n].place
        BY <1>2, <4>1
      <4>3. QED
        BY <2>1, <4>2
    <3>3. QED
      BY <3>1, <3>2
  <2>3. QED
    BY <1>2, <2>2 DEF ItemsSound
<1>5. InOneOrder(t)
  <2> SUFFICES ASSUME NEW m \in 1..Len(t), NEW n \in 1..Len(t), m < n
               PROVE  Behind(query, t[m].place, t[n].place)
    BY DEF InOneOrder
  <2>1. CASE n \in 1..Len(s)
    <3>1. m \in 1..Len(s)
      BY <1>1, <2>1
    <3>2. QED
      BY <1>2, <2>1, <3>1 DEF InOneOrder
  <2>2. CASE n \notin 1..Len(s)
    <3>1. PICK j \in 1..Len(items) : n = Len(s) + j
      BY <1>2, <2>2
    <3>2. CASE m \in 1..Len(s)
      BY <1>2, <3>1, <3>2
    <3>3. CASE m \notin 1..Len(s)
      <4>1. PICK k \in 1..Len(items) : m = Len(s) + k
        BY <1>2, <3>3
      <4>2. k < j
        BY <1>1, <3>1, <4>1
      <4>3. QED
        BY <1>2, <3>1, <4>1, <4>2 DEF InOneOrder
    <3>4. QED
      BY <3>2, <3>3
  <2>3. QED
    BY <2>1, <2>2
<1>6. ASSUME NEW i
      PROVE  (\E n \in 1..Len(t) : t[n].id = i) <=>
                \/ \E n \in 1..Len(s) : s[n].id = i
                \/ \E n \in 1..Len(items) : items[n].id = i
  <2>1. ASSUME NEW n \in 1..Len(t), t[n].id = i
        PROVE  \/ \E m \in 1..Len(s) : s[m].id = i
               \/ \E m \in 1..Len(items) : items[m].id = i
    <3>1. CASE n \in 1..Len(s)
      BY <1>2, <2>1, <3>1
    <3>2. CASE n \notin 1..Len(s)
      <4>1. PICK m \in 1..Len(items) : n = Len(s) + m
        BY <1>2, <3>2
      <4>2. QED
        BY <1>2, <2>1, <4>1
    <3>3. QED
      BY <3>1, <3>2
  <2>2. ASSUME NEW m \in 1..Len(s), s[m].id = i
        PROVE  \E n \in 1..Len(t) : t[n].id = i
    BY <1>2, <1>3, <2>2
  <2>3. ASSUME NEW m \in 1..Len(items), items[m].id = i
        PROVE  \E n \in 1..Len(t) : t[n].id = i
    <3>1. Len(s) + m \in 1..Len(t) /\ t[Len(s) + m].id = i
      BY <1>2, <1>3, <2>3
    <3>2. QED
      BY <3>1
  <2>4. QED
    BY <2>1, <2>2, <2>3
<1>7. ASSUME NEW n \in 1..Len(t)
      PROVE  \/ \E m \in 1..Len(s) : t[n].place = s[m].place
             \/ \E m \in 1..Len(items) : t[n].place = items[m].place
  BY <1>2
<1>8. QED
  BY <1>4, <1>5, <1>6, <1>7 DEF Continues

\* The stage that follows an answered page.
LEMMA AfterPageStage ==
    ASSUME query \in Queries, NEW m \in BOOLEAN, NEW next, next = AfterPage(m)
    PROVE  /\ ~m => next = "done"
           /\ m => \/ next = "folder" /\ query.what = "children"
                   \/ next = "rows" /\ query.what = "query"
                   \/ next = "resolve" /\ query.what = "resolve"
<1>1. query.what \in {"children", "query", "resolve"}
  BY PageAssumption DEF IsQuery
<1>2. CASE m
  <2>1. next = Start(query)
    BY <1>2 DEF AfterPage
  <2>2. \/ query.what = "children" /\ Start(query) = "folder"
        \/ query.what = "query" /\ Start(query) = "rows"
        \/ query.what = "resolve" /\ Start(query) = "resolve"
    BY <1>1 DEF Start
  <2>3. QED
    BY <1>2, <2>1, <2>2, Zenon
<1>3. CASE ~m
  BY <1>3 DEF AfterPage
<1>4. QED
  BY <1>2, <1>3

LEMMA AttachPathsKeeps ==
    ASSUME Inv, AttachPaths
    PROVE  Inv'
<1>1. /\ stage = "paths" /\ stage' = AfterPage(more)
      /\ delivered' = Answered(delivered, rows) /\ rows' = << >>
      /\ UNCHANGED <<objects, changes, query, cursor, more, steady>>
  BY DEF AttachPaths, Answered, tree
<1>2. query \in Queries /\ query # None /\ more \in BOOLEAN
  BY <1>1, PageAssumption DEF Inv, Asked, CursorKept
<1>3. /\ TreeKept' /\ steady' \subseteq Wanted(query)'
      /\ \A i : Place(query, i)' = Place(query, i)
  BY <1>1, <1>2, ReadingFrame
<1>4. /\ ~more => stage' = "done"
      /\ more => \/ stage' = "folder" /\ query.what = "children"
                 \/ stage' = "rows" /\ query.what = "query"
                 \/ stage' = "resolve" /\ query.what = "resolve"
  BY <1>1, <1>2, AfterPageStage
<1>5. /\ ItemsSound(delivered) /\ InOneOrder(delivered) /\ ItemsSound(rows) /\ InOneOrder(rows)
      /\ \A m \in 1..Len(delivered), n \in 1..Len(rows) :
            Behind(query, delivered[m].place, rows[n].place)
  BY DEF Inv, Read
<1>6. /\ ItemsSound(delivered') /\ InOneOrder(delivered')
      /\ \A i : (\E n \in 1..Len(delivered') : delivered'[n].id = i) <=> Told(i)
      /\ \A n \in 1..Len(delivered') :
            \/ \E m \in 1..Len(delivered) : delivered'[n].place = delivered[m].place
            \/ \E m \in 1..Len(rows) : delivered'[n].place = rows[m].place
  <2>1. Continues(delivered', delivered, rows)
    BY <1>1, <1>5, AnswerSound
  <2>2. QED
    BY <2>1 DEF Continues, Told
<1>7. query.what = "resolve" => ~more
  BY <1>2 DEF Inv, OneResolved
<1>8. Asked'
  BY <1>1, <1>2, <1>4, <1>7 DEF Asked, Outcomes
<1>9. ItemsSound(delivered)' /\ InOneOrder(delivered)' /\ ItemsSound(rows)' /\ InOneOrder(rows)'
  BY <1>1, <1>3, <1>6, Lists0 DEF ItemsSound, InOneOrder, Behind, Descending
<1>10. Read'
  BY <1>1, <1>9, Lists0 DEF Read
<1>11. CursorKept'
  <2>1. ASSUME more, NEW n \in 1..Len(delivered') PROVE ~Behind(query, cursor, delivered'[n].place)
    BY <1>6, <2>1 DEF Inv, CursorKept
  <2>2. QED
    BY <1>1, <1>4, <2>1, Lists0 DEF Inv, CursorKept, Behind, Descending
<1>12. SteadyTold'
  <2>1. \A i : Told(i)' <=> Told(i)
    <3>1. \A i : Told(i)' <=> \E n \in 1..Len(delivered') : delivered'[n].id = i
      BY <1>1, Lists0 DEF Told
    <3>2. QED
      BY <1>6, <3>1
  <2>2. QED
    BY <1>1, <1>3, <1>4, <2>1 DEF Inv, SteadyTold, Behind, Descending
<1>13. OneResolved'
  <2> SUFFICES ASSUME query.what = "resolve"
               PROVE  /\ ~more /\ stage' = "done"
                      /\ Len(delivered') = 1 /\ steady \subseteq {delivered'[1].id}
                      /\ steady # {} => delivered'[1].path = split_path(query.path)
    BY <1>1 DEF OneResolved
  <2>1. delivered = << >> /\ Len(rows) = 1 /\ steady \subseteq {rows[1].id} /\ ~more
    BY <1>1, <1>2 DEF Inv, OneResolved
  <2>2. /\ Len(delivered') = 1 /\ delivered'[1].id = rows[1].id
        /\ delivered'[1].path = render_path(rows[1].id)
    <3>1. /\ Len(delivered') = Len(delivered) + Len(rows)
          /\ \A n \in 1..Len(rows) :
                /\ delivered'[Len(delivered) + n].id = rows[n].id
                /\ delivered'[Len(delivered) + n].path = render_path(rows[n].id)
      BY <1>1, <1>5, AnswerFollows DEF ItemsSound
    <3>2. Len(delivered) = 0 /\ 1 \in 1..Len(rows)
      BY <2>1, Lists0
    <3>3. QED
      BY <2>1, <3>1, <3>2
  <2>3. ASSUME steady # {} PROVE render_path(rows[1].id) = split_path(query.path)
    <3>1. rows[1].id \in Resolve(query.path)
      BY <1>2, <2>1, <2>3 DEF Inv, SteadyTold, Wanted
    <3>2. query.path \in Seq(Int)
      BY <1>2, PageAssumption DEF IsQuery
    <3>3. QED
      BY <3>1, <3>2, RenderedAsAsked DEF Inv
  <2>4. QED
    BY <1>4, <2>1, <2>2, <2>3
<1>14. QED
  BY <1>3, <1>8, <1>10, <1>11, <1>12, <1>13 DEF Inv

LEMMA OneCallKeeps ==
    ASSUME Inv, OneCall
    PROVE  Inv'
<1> DEFINE page == finish_page
<1>1. /\ stage = "rows" /\ stage' = AfterPage(page.more)
      /\ delivered' = Answered(delivered, page.items)
      /\ more' = page.more /\ cursor' = page.next
      /\ UNCHANGED <<objects, changes, query, rows, steady>>
  BY DEF OneCall, Answered, tree
<1> HIDE DEF page
<1>2. /\ query \in Queries /\ query.what # "resolve" /\ query # None /\ rows = << >>
      /\ ItemsSound(page.items) /\ InOneOrder(page.items)
      /\ \A m \in 1..Len(delivered), n \in 1..Len(page.items) :
            Behind(query, delivered[m].place, page.items[n].place)
      /\ page.more \in BOOLEAN /\ (~page.more => page.next = None)
      /\ page.more =>
            /\ page.next \in Int \X Int /\ page.next[2] \in AllIds
            /\ \A n \in 1..Len(delivered) : ~Behind(query, page.next, delivered[n].place)
            /\ \A n \in 1..Len(page.items) : ~Behind(query, page.next, page.items[n].place)
      /\ \A i \in steady :
            ~page.more \/ ~Behind(query, page.next, Place(query, i)) =>
               \/ \E n \in 1..Len(delivered) : delivered[n].id = i
               \/ \E n \in 1..Len(page.items) : page.items[n].id = i
  BY <1>1, PageContinues DEF page
<1>3. /\ TreeKept' /\ steady' \subseteq Wanted(query)'
      /\ \A i : Place(query, i)' = Place(query, i)
  BY <1>1, <1>2, ReadingFrame
<1>4. /\ ~page.more => stage' = "done"
      /\ page.more => \/ stage' = "folder" /\ query.what = "children"
                      \/ stage' = "rows" /\ query.what = "query"
                      \/ stage' = "resolve" /\ query.what = "resolve"
  BY <1>1, <1>2, AfterPageStage
<1>5. Continues(delivered', delivered, page.items)
  <2>1. ItemsSound(delivered) /\ InOneOrder(delivered)
    BY DEF Inv, Read
  <2>2. QED
    BY <1>1, <1>2, <2>1, AnswerSound
<1>6. Asked'
  BY <1>1, <1>2, <1>4 DEF Asked, Outcomes
<1>7. ItemsSound(delivered)' /\ InOneOrder(delivered)' /\ ItemsSound(rows)' /\ InOneOrder(rows)'
  BY <1>1, <1>2, <1>3, <1>5, Lists0 DEF Continues, ItemsSound, InOneOrder, Behind, Descending
<1>8. Read'
  BY <1>1, <1>2, <1>7, Lists0 DEF Read
<1>9. CursorKept'
  <2>1. ASSUME page.more, NEW n \in 1..Len(delivered')
        PROVE  ~Behind(query, page.next, delivered'[n].place)
    BY <1>2, <1>5, <2>1 DEF Continues
  <2>2. QED
    BY <1>1, <1>2, <1>4, <2>1, Lists0 DEF CursorKept, Behind, Descending
<1>10. SteadyTold'
  <2>1. \A i : Told(i)' <=> \E n \in 1..Len(delivered') : delivered'[n].id = i
    BY <1>1, <1>2, Lists0 DEF Told
  <2>2. \A i \in steady : ~page.more \/ ~Behind(query, page.next, Place(query, i)) => Told(i)'
    BY <1>2, <1>5, <2>1 DEF Continues
  <2>3. QED
    BY <1>1, <1>2, <1>3, <2>2 DEF SteadyTold, Behind, Descending
<1>11. OneResolved'
  BY <1>1, <1>2 DEF OneResolved
<1>12. QED
  BY <1>3, <1>6, <1>8, <1>9, <1>10, <1>11 DEF Inv

\* What the steps of a path request start from.
LEMMA ResolvingFacts ==
    ASSUME Inv, stage \in {"resolve", "load"}
    PROVE  /\ query \in Queries /\ query # None /\ query.what = "resolve"
           /\ query.path \in Seq(Int)
           /\ more = FALSE /\ delivered = << >>
           /\ steady \subseteq Resolve(query.path)
           /\ \A i \in Resolve(query.path) : i \in AllIds /\ Store!is_live(i)
           /\ \A i \in Resolve(query.path) : steady \subseteq {i}
<1>1. query \in Queries /\ query # None /\ query.what = "resolve"
  BY PageAssumption DEF Inv, Asked
<1>2. query.path \in Seq(Int)
  BY <1>1, PageAssumption DEF IsQuery
<1>3. more = FALSE /\ delivered = << >>
  BY <1>1 DEF Inv, OneResolved, CursorKept
<1>4. steady \subseteq Resolve(query.path)
  BY <1>1 DEF Inv, SteadyTold, Wanted
<1>5. /\ \A i \in Resolve(query.path) : i \in AllIds /\ Store!is_live(i)
      /\ \A i, j \in Resolve(query.path) : i = j
  BY <1>2, ResolvesToOne DEF Inv
<1>6. QED
  BY <1>1, <1>2, <1>3, <1>4, <1>5

\* A single item, read now.
LEMMA ItemNow ==
    ASSUME Inv, query \in Queries, NEW i \in AllIds
    PROVE  ItemsSound(<< Item(i) >>) /\ InOneOrder(<< Item(i) >>) /\ Len(<< Item(i) >>) = 1
<1> DEFINE s == << Item(i) >>
<1>1. Place(query, i) \in Int \X Int /\ Place(query, i)[2] = i
  BY PlaceType DEF Inv
<1>2. /\ Len(s) = 1 /\ IsList(s)
      /\ \A n \in 1..Len(s) : s[n] = Item(i)
  BY DEF IsList
<1> HIDE DEF s
<1>3. ItemsSound(s)
  BY <1>1, <1>2 DEF ItemsSound, Item
<1>4. InOneOrder(s)
  BY <1>2 DEF InOneOrder
<1>5. QED
  BY <1>2, <1>3, <1>4 DEF s

LEMMA ResolvePathKeeps ==
    ASSUME Inv, ResolvePath
    PROVE  Inv'
<1>1. stage = "resolve" /\ UNCHANGED <<objects, changes, query, cursor, more, delivered, steady>>
  BY DEF ResolvePath, tree
<1>2. /\ query \in Queries /\ query # None /\ query.what = "resolve"
      /\ more = FALSE /\ delivered = << >>
      /\ steady \subseteq Resolve(query.path)
      /\ \A i \in Resolve(query.path) : i \in AllIds /\ Store!is_live(i)
      /\ \A i \in Resolve(query.path) : steady \subseteq {i}
  BY <1>1, ResolvingFacts
<1>3. /\ TreeKept' /\ steady' \subseteq Wanted(query)'
      /\ \A i : Place(query, i)' = Place(query, i)
  BY <1>1, <1>2, ReadingFrame
<1>4. rows = << >>
  BY <1>1 DEF Inv, Read
<1>5. \/ stage' = "invalid_request" /\ rows' = << >>
      \/ stage' = "not_found" /\ rows' = << >> /\ steady = {}
      \/ stage' = "load" /\ \E i \in Resolve(query.path) : rows' = << Item(i) >>
  BY <1>2, <1>4 DEF ResolvePath
<1>6. Asked'
  BY <1>1, <1>2, <1>5 DEF Asked, Outcomes
<1>7. CursorKept'
  BY <1>1, <1>2, <1>5 DEF Inv, CursorKept
<1>8. SteadyTold'
  BY <1>1, <1>2, <1>3 DEF SteadyTold
<1>9. ItemsSound(rows') /\ InOneOrder(rows')
      /\ (stage' = "load" => Len(rows') = 1 /\ steady \subseteq {rows'[1].id})
  <2>1. CASE rows' = << >> /\ stage' # "load"
    BY <2>1, Lists0 DEF ItemsSound, InOneOrder
  <2>2. CASE stage' = "load" /\ \E i \in Resolve(query.path) : rows' = << Item(i) >>
    <3>1. PICK i \in Resolve(query.path) : rows' = << Item(i) >>
      BY <2>2
    <3>2. ItemsSound(rows') /\ InOneOrder(rows') /\ Len(rows') = 1
      BY <1>2, <3>1, ItemNow
    <3>3. rows'[1].id = i
      BY <3>1 DEF Item
    <3>4. QED
      BY <1>2, <3>2, <3>3
  <2>3. QED
    BY <1>5, <2>1, <2>2
<1>10. ItemsSound(delivered)' /\ InOneOrder(delivered)' /\ ItemsSound(rows)' /\ InOneOrder(rows)'
  BY <1>1, <1>2, <1>3, <1>9, Lists0 DEF ItemsSound, InOneOrder, Behind, Descending
<1>11. Read'
  BY <1>1, <1>2, <1>5, <1>10, Lists0 DEF Read
<1>12. OneResolved'
  BY <1>1, <1>2, <1>5, <1>9 DEF OneResolved
<1>13. QED
  BY <1>3, <1>6, <1>7, <1>8, <1>11, <1>12 DEF Inv

LEMMA LoadObjectKeeps ==
    ASSUME Inv, LoadObject
    PROVE  Inv'
<1>1. stage = "load" /\ UNCHANGED <<objects, changes, query, cursor, more, delivered, steady>>
  BY DEF LoadObject, tree
<1>2. /\ query \in Queries /\ query # None /\ query.what = "resolve"
      /\ more = FALSE /\ delivered = << >>
      /\ steady \subseteq Resolve(query.path)
      /\ \A i \in Resolve(query.path) : i \in AllIds /\ Store!is_live(i)
  BY <1>1, ResolvingFacts
<1>3. /\ TreeKept' /\ steady' \subseteq Wanted(query)'
      /\ \A i : Place(query, i)' = Place(query, i)
  BY <1>1, <1>2, ReadingFrame
<1>4. /\ Len(rows) = 1 /\ steady \subseteq {rows[1].id}
      /\ rows[1].id \in AllIds
  BY <1>1, <1>2 DEF Inv, OneResolved, Read, ItemsSound
<1>5. \/ stage' = "not_found" /\ rows' = << >> /\ steady = {}
      \/ stage' = "paths" /\ rows' = << Item(rows[1].id) >>
  BY <1>2, <1>4 DEF LoadObject
<1>6. Asked'
  BY <1>1, <1>2, <1>5 DEF Asked, Outcomes
<1>7. CursorKept'
  BY <1>1, <1>2, <1>5 DEF Inv, CursorKept
<1>8. SteadyTold'
  BY <1>1, <1>2, <1>3 DEF SteadyTold
<1>9. ItemsSound(rows') /\ InOneOrder(rows')
      /\ (stage' = "paths" => Len(rows') = 1 /\ steady \subseteq {rows'[1].id})
  <2>1. CASE rows' = << >> /\ stage' # "paths"
    BY <2>1, Lists0 DEF ItemsSound, InOneOrder
  <2>2. CASE stage' = "paths" /\ rows' = << Item(rows[1].id) >>
    <3>1. ItemsSound(rows') /\ InOneOrder(rows') /\ Len(rows') = 1
      BY <1>2, <1>4, <2>2, ItemNow
    <3>2. rows'[1].id = rows[1].id
      BY <2>2 DEF Item
    <3>3. QED
      BY <1>4, <3>1, <3>2
  <2>3. QED
    BY <1>5, <2>1, <2>2
<1>10. ItemsSound(delivered)' /\ InOneOrder(delivered)' /\ ItemsSound(rows)' /\ InOneOrder(rows)'
  BY <1>1, <1>2, <1>3, <1>9, Lists0 DEF ItemsSound, InOneOrder, Behind, Descending
<1>11. Read'
  BY <1>1, <1>2, <1>5, <1>10, Lists0 DEF Read
<1>12. OneResolved'
  BY <1>1, <1>2, <1>5, <1>9 DEF OneResolved
<1>13. QED
  BY <1>3, <1>6, <1>7, <1>8, <1>11, <1>12 DEF Inv

LEMMA RpcResolveKeeps ==
    ASSUME Inv, RpcResolve
    PROVE  Inv'
<1>1. stage = "resolve" /\ UNCHANGED <<objects, changes, query, cursor, rows, more, steady>>
  BY DEF RpcResolve, tree
<1>2. /\ query \in Queries /\ query # None /\ query.what = "resolve"
      /\ query.path \in Seq(Int)
      /\ more = FALSE /\ delivered = << >>
      /\ steady \subseteq Resolve(query.path)
      /\ \A i \in Resolve(query.path) : i \in AllIds /\ Store!is_live(i)
      /\ \A i \in Resolve(query.path) : steady \subseteq {i}
  BY <1>1, ResolvingFacts
<1>3. /\ TreeKept' /\ steady' \subseteq Wanted(query)'
      /\ \A i : Place(query, i)' = Place(query, i)
  BY <1>1, <1>2, ReadingFrame
<1>4. rows = << >>
  BY <1>1 DEF Inv, Read
<1>5. \/ stage' = "not_found" /\ delivered' = << >> /\ steady = {}
      \/ stage' = "done" /\ \E i \in Resolve(query.path) : delivered' = WithPaths(<< Item(i) >>)
  BY <1>2 DEF RpcResolve
<1>6. Asked'
  BY <1>1, <1>2, <1>5 DEF Asked, Outcomes
<1>7. CursorKept'
  BY <1>1, <1>2, <1>5 DEF Inv, CursorKept
<1>8. SteadyTold'
  BY <1>1, <1>2, <1>3 DEF SteadyTold
<1>9. /\ ItemsSound(delivered') /\ InOneOrder(delivered')
      /\ stage' = "done" =>
            /\ Len(delivered') = 1 /\ steady \subseteq {delivered'[1].id}
            /\ delivered'[1].path = split_path(query.path)
  <2>1. CASE delivered' = << >> /\ stage' # "done"
    BY <2>1, Lists0 DEF ItemsSound, InOneOrder
  <2>2. CASE stage' = "done" /\ \E i \in Resolve(query.path) : delivered' = WithPaths(<< Item(i) >>)
    <3>1. PICK i \in Resolve(query.path) : delivered' = WithPaths(<< Item(i) >>)
      BY <2>2
    <3>2. i \in AllIds /\ Place(query, i) \in Int \X Int /\ Place(query, i)[2] = i
      BY <1>2, PlaceType DEF Inv
    <3> DEFINE answer == [id |-> i, place |-> Place(query, i), path |-> render_path(i)]
    <3>3. delivered' = << answer >>
      <4>1. /\ DOMAIN << Item(i) >> = 1..1 /\ << Item(i) >>[1] = Item(i)
            /\ Item(i).id = i /\ Item(i).place = Place(query, i)
        BY DEF Item
      <4>2. delivered' = [n \in 1..1 |-> answer]
        BY <3>1, <4>1 DEF WithPaths
      <4> HIDE DEF answer
      <4>3. QED
        BY <4>2
    <3>4. /\ Len(delivered') = 1 /\ IsList(delivered')
          /\ \A n \in 1..Len(delivered') : delivered'[n] = answer
      <4> HIDE DEF answer
      <4>1. QED
        BY <3>3 DEF IsList
    <3>5. answer.id = i /\ answer.place = Place(query, i) /\ answer.path = render_path(i)
      OBVIOUS
    <3> HIDE DEF answer
    <3>6. ItemsSound(delivered') /\ InOneOrder(delivered')
      BY <3>2, <3>4, <3>5 DEF ItemsSound, InOneOrder
    <3>7. render_path(i) = split_path(query.path)
      BY <1>2, RenderedAsAsked DEF Inv
    <3>8. QED
      BY <1>2, <3>4, <3>5, <3>6, <3>7
  <2>3. QED
    BY <1>5, <2>1, <2>2
<1>10. ItemsSound(delivered)' /\ InOneOrder(delivered)' /\ ItemsSound(rows)' /\ InOneOrder(rows)'
  BY <1>1, <1>3, <1>4, <1>9, Lists0 DEF ItemsSound, InOneOrder, Behind, Descending
<1>11. Read'
  BY <1>1, <1>4, <1>10, Lists0 DEF Read
<1>12. OneResolved'
  BY <1>1, <1>2, <1>5, <1>9 DEF OneResolved
<1>13. QED
  BY <1>3, <1>6, <1>7, <1>8, <1>11, <1>12 DEF Inv

\* Every step of the readers and of the mutations keeps the invariant.
LEMMA StepKeeps == Inv /\ [Next]_vars => Inv'
<1> SUFFICES ASSUME Inv, [Next]_vars PROVE Inv'
  OBVIOUS
<1>1. CASE Mutate
  BY <1>1, MutateKeeps
<1>2. CASE Begin
  BY <1>2, BeginKeeps
<1>3. CASE CheckFolder
  BY <1>3, CheckFolderKeeps
<1>4. CASE ReadRows
  BY <1>4, ReadRowsKeeps
<1>5. CASE AttachPaths
  BY <1>5, AttachPathsKeeps
<1>6. CASE OneCall
  BY <1>6, OneCallKeeps
<1>7. CASE ResolvePath
  BY <1>7, ResolvePathKeeps
<1>8. CASE LoadObject
  BY <1>8, LoadObjectKeeps
<1>9. CASE RpcResolve
  BY <1>9, RpcResolveKeeps
<1>10. CASE UNCHANGED vars
  <2>1. UNCHANGED <<objects, changes, query, stage, cursor, rows, more, delivered, steady>>
    BY <1>10 DEF vars
  <2>2. CASE query \in Queries
    <3>1. /\ TreeKept' /\ (query # None => steady' \subseteq Wanted(query)')
          /\ \A i : Place(query, i)' = Place(query, i)
      BY <2>1, <2>2, ReadingFrame
    <3>2. Asked' /\ CursorKept' /\ OneResolved'
      BY <2>1 DEF Inv, Asked, CursorKept, OneResolved, Behind, Descending
    <3>3. Read'
      BY <2>1, <3>1 DEF Inv, Read, ItemsSound, InOneOrder, Behind, Descending
    <3>4. SteadyTold'
      BY <2>1, <3>1 DEF Inv, SteadyTold, Told, Behind, Descending
    <3>5. QED
      BY <3>1, <3>2, <3>3, <3>4 DEF Inv
  <2>3. CASE query \notin Queries
    <3>1. stage = "idle" /\ query = None /\ rows = << >> /\ delivered = << >> /\ steady = {}
      BY <2>3 DEF Inv, Asked, Read
    <3>2. TreeKept'
      BY <2>1, SameRows DEF Inv
    <3>3. Asked' /\ CursorKept' /\ OneResolved'
      BY <2>1 DEF Inv, Asked, CursorKept, OneResolved, Behind, Descending
    <3>4. Read' /\ SteadyTold'
      BY <2>1, <3>1, Lists0 DEF Read, ItemsSound, InOneOrder, SteadyTold
    <3>5. QED
      BY <3>2, <3>3, <3>4 DEF Inv
  <2>4. QED
    BY <2>2, <2>3
<1>11. QED
  BY <1>1, <1>2, <1>3, <1>4, <1>5, <1>6, <1>7, <1>8, <1>9, <1>10
     DEF Next, ReaderStep, RpcPage, RpcQuery

\* The invariant of the reader and of the tree it reads.
THEOREM Invariance == Spec => []Inv
<1>1. Init => Inv
  BY InitHolds
<1>2. Inv /\ [Next]_vars => Inv'
  BY StepKeeps
<1>3. QED
  BY <1>1, <1>2, PTL DEF Spec

-----------------------------------------------------------------------------
(* What the reader gets *)

\* A row that stays where it is while a listing or a query is followed to its
\* end (list_children, query_objects, finish_page) is delivered exactly once.
THEOREM DeliveredOnce == Spec => []SteadyRowsOnce
<1>1. Inv => SteadyRowsOnce
  <2> SUFFICES ASSUME Inv, stage = "done", NEW i \in steady
               PROVE  Cardinality({n \in DOMAIN delivered : delivered[n].id = i}) = 1
    BY DEF SteadyRowsOnce
  <2> DEFINE S == {n \in DOMAIN delivered : delivered[n].id = i}
  <2>1. query \in Queries /\ query # None /\ ~more /\ rows = << >>
    BY PageAssumption DEF Inv, Asked, CursorKept, Read
  <2>2. DOMAIN delivered = 1..Len(delivered)
    BY DEF Inv, Read, ItemsSound, IsList
  <2>3. \E n \in 1..Len(delivered) : delivered[n].id = i
    <3>1. CASE query.what = "resolve"
      <4>1. Len(delivered) = 1 /\ i = delivered[1].id
        BY <2>1, <3>1 DEF Inv, OneResolved
      <4>2. QED
        BY <4>1
    <3>2. CASE query.what # "resolve"
      <4>1. Told(i)
        BY <2>1, <3>2 DEF Inv, SteadyTold
      <4>2. QED
        BY <2>1, <4>1, Lists0 DEF Told
    <3>3. QED
      BY <3>1, <3>2
  <2>4. PICK k \in 1..Len(delivered) : delivered[k].id = i
    BY <2>3
  <2>5. ASSUME NEW m \in 1..Len(delivered), NEW n \in 1..Len(delivered), m < n,
               delivered[m].id = i, delivered[n].id = i
        PROVE  FALSE
    <3>1. Behind(query, delivered[m].place, delivered[n].place)
      BY <2>5 DEF Inv, Read, InOneOrder
    <3>2. /\ delivered[m].place = Place(query, i) /\ delivered[n].place = Place(query, i)
          /\ delivered[m].place \in Int \X Int
      BY <2>5 DEF Inv, Read, ItemsSound
    <3>3. QED
      BY <3>1, <3>2, BehindOrders
  <2>6. \A n \in 1..Len(delivered) : delivered[n].id = i => n = k
    <3>1. \A n \in 1..Len(delivered) : n < k \/ n = k \/ k < n
      BY <2>4
    <3>2. QED
      BY <2>4, <2>5, <3>1
  <2>7. S = {k}
    BY <2>2, <2>4, <2>6
  <2>8. QED
    BY <2>7, FS_Singleton
<1>2. QED
  BY <1>1, Invariance, PTL

\* All pages of one chain are in one order and no place occurs twice, from
\* whichever trees and instances they come.
THEOREM ChainInOrder == Spec => []PagesInOrder
<1>1. Inv => PagesInOrder
  <2>1. Inv => DOMAIN delivered = 1..Len(delivered) /\ InOneOrder(delivered)
    BY DEF Inv, Read, ItemsSound, IsList
  <2>2. QED
    BY <2>1 DEF InOneOrder, PagesInOrder
<1>2. QED
  BY <1>1, Invariance, PTL

\* A path that leads to one object throughout resolve_path is answered with
\* that object and that path.
THEOREM AnsweredWhereAsked == Spec => []ResolvedWhereAsked
<1>1. Inv => ResolvedWhereAsked
  <2> SUFFICES ASSUME Inv, query # None, query.what = "resolve", steady # {}
               PROVE  /\ stage \notin {"not_found", "not_a_folder"}
                      /\ stage = "done" =>
                            /\ {delivered[n].id : n \in DOMAIN delivered} = steady
                            /\ delivered[1].path = split_path(query.path)
    BY DEF ResolvedWhereAsked
  <2>1. stage \notin {"not_found", "not_a_folder"}
    BY DEF Inv, Asked, OneResolved
  <2>2. ASSUME stage = "done"
        PROVE  /\ Len(delivered) = 1 /\ steady \subseteq {delivered[1].id}
               /\ delivered[1].path = split_path(query.path)
    BY <2>2 DEF Inv, OneResolved
  <2>3. DOMAIN delivered = 1..Len(delivered)
    BY DEF Inv, Read, ItemsSound, IsList
  <2>4. QED
    BY <2>1, <2>2, <2>3
<1>2. QED
  BY <1>1, Invariance, PTL

\* A page that leaves something behind (has_more) moves the cursor forward, by
\* whatever key the rows are ordered and however small the page.
THEOREM CursorAdvances == Spec => EveryPageAdvances
<1>1. Inv /\ [Next]_vars =>
         [stage = "rows" /\ objects' = objects /\ more'
             => cursor' # None /\ (cursor = None \/ Behind(query, cursor, cursor'))]_vars
  <2> SUFFICES ASSUME Inv, Next, stage = "rows", objects' = objects, more'
               PROVE  cursor' # None /\ (cursor = None \/ Behind(query, cursor, cursor'))
    OBVIOUS
  <2>1. ~Mutate
    BY MutateKeeps
  <2>2. ReadRows \/ OneCall
    BY <2>1 DEF Next, ReaderStep, Begin, CheckFolder, AttachPaths, RpcPage, RpcQuery,
                ResolvePath, LoadObject, RpcResolve
  <2> DEFINE page == finish_page
  <2>3. more' = page.more /\ cursor' = page.next
    BY <2>2 DEF ReadRows, OneCall
  <2> HIDE DEF page
  <2>4. page.next \in Int \X Int /\ (cursor = None \/ Behind(query, cursor, page.next))
    BY <2>3, PageContinues DEF page
  <2>5. QED
    BY <2>3, <2>4, PageAssumption
<1>2. QED
  BY <1>1, Invariance, PTL DEF Spec, EveryPageAdvances

-----------------------------------------------------------------------------
(* The keyset page and the page by position *)

\* s lists the members of S, in the order of their places.
Arranges(s, q, S) ==
    /\ IsList(s)
    /\ \A n \in 1..Len(s) : s[n] \in S
    /\ \A m, n \in 1..Len(s) : m < n => Behind(q, Place(q, s[m]), Place(q, s[n]))
    /\ \A i \in S : \E n \in 1..Len(s) : s[n] = i

\* There is one way to do that.
LEMMA ArrangedOneWay ==
    ASSUME TreeKept, NEW q \in Queries, NEW S \in SUBSET AllIds,
           NEW s, Arranges(s, q, S), NEW t, Arranges(t, q, S)
    PROVE  s = t
<1>1. Len(s) \in Nat /\ Len(t) \in Nat
  BY DEF Arranges, IsList
<1>2. \A i \in S : Place(q, i) \in Int \X Int
  BY PlaceType
<1> DEFINE Before(i, j) == Behind(q, Place(q, i), Place(q, j))
<1>3. /\ \A i \in S : ~Before(i, i)
      /\ \A i, j, k \in S : Before(i, j) /\ Before(j, k) => Before(i, k)
  BY <1>2, BehindOrders
<1>4. /\ \A n \in 1..Len(s) : s[n] \in S
      /\ \A m, n \in 1..Len(s) : m < n => Before(s[m], s[n])
      /\ \A i \in S : \E n \in 1..Len(s) : s[n] = i
      /\ \A n \in 1..Len(t) : t[n] \in S
      /\ \A m, n \in 1..Len(t) : m < n => Before(t[m], t[n])
      /\ \A i \in S : \E n \in 1..Len(t) : t[n] = i
  BY DEF Arranges
<1> HIDE DEF Before
<1> DEFINE U == {n \in Nat : \A k \in 1..n :
                    /\ k \in 1..Len(s) <=> k \in 1..Len(t)
                    /\ k \in 1..Len(s) => s[k] = t[k]}
<1>5. 0 \in U
  OBVIOUS
<1>6. ASSUME NEW n \in U PROVE n + 1 \in U
  <2>1. n \in Nat /\ n + 1 \in Nat
    OBVIOUS
  <2>2. ASSUME n + 1 \in 1..Len(s)
        PROVE  \E j \in 1..Len(t) : j >= n + 1 /\ t[j] = s[n + 1]
    <3>1. PICK j \in 1..Len(t) : t[j] = s[n + 1]
      BY <1>4, <2>2
    <3>2. ASSUME j <= n PROVE FALSE
      <4>1. j \in 1..n /\ j \in 1..Len(s) /\ s[j] = t[j] /\ j < n + 1
        BY <1>1, <3>1, <3>2, <2>1
      <4>2. Before(s[j], s[n + 1]) /\ s[j] = s[n + 1] /\ s[j] \in S
        BY <1>4, <2>2, <3>1, <4>1
      <4>3. QED
        BY <1>3, <4>2
    <3>3. j >= n + 1
      BY <1>1, <2>1, <3>2
    <3>4. QED
      BY <3>1, <3>3
  <2>3. ASSUME n + 1 \in 1..Len(t)
        PROVE  \E j \in 1..Len(s) : j >= n + 1 /\ s[j] = t[n + 1]
    <3>1. PICK j \in 1..Len(s) : s[j] = t[n + 1]
      BY <1>4, <2>3
    <3>2. ASSUME j <= n PROVE FALSE
      <4>1. j \in 1..n /\ j \in 1..Len(t) /\ s[j] = t[j] /\ j < n + 1
        BY <1>1, <3>1, <3>2, <2>1
      <4>2. Before(t[j], t[n + 1]) /\ t[j] = t[n + 1] /\ t[j] \in S
        BY <1>4, <2>3, <3>1, <4>1
      <4>3. QED
        BY <1>3, <4>2
    <3>3. j >= n + 1
      BY <1>1, <2>1, <3>2
    <3>4. QED
      BY <3>1, <3>3
  <2>4. n + 1 \in 1..Len(s) <=> n + 1 \in 1..Len(t)
    BY <1>1, <2>1, <2>2, <2>3
  <2>5. ASSUME n + 1 \in 1..Len(s) PROVE s[n + 1] = t[n + 1]
    <3>1. PICK j \in 1..Len(t) : j >= n + 1 /\ t[j] = s[n + 1]
      BY <2>2, <2>5
    <3>2. PICK k \in 1..Len(s) : k >= n + 1 /\ s[k] = t[n + 1]
      BY <2>3, <2>4, <2>5
    <3>3. ASSUME j > n + 1 PROVE FALSE
      <4>1. Before(t[n + 1], s[n + 1])
        BY <1>4, <2>4, <2>5, <3>1, <3>3
      <4>2. k = n + 1 \/ Before(s[n + 1], t[n + 1])
        <5>1. k = n + 1 \/ n + 1 < k
          BY <2>1, <3>2
        <5>2. QED
          BY <1>4, <2>5, <3>2, <5>1
      <4>3. s[n + 1] \in S /\ t[n + 1] \in S
        BY <1>4, <2>4, <2>5
      <4>4. QED
        BY <1>3, <3>2, <4>1, <4>2, <4>3
    <3>4. j = n + 1
      BY <2>1, <3>1, <3>3
    <3>5. QED
      BY <3>1, <3>4
  <2>6. ASSUME NEW k \in 1..(n + 1)
        PROVE  /\ k \in 1..Len(s) <=> k \in 1..Len(t)
               /\ k \in 1..Len(s) => s[k] = t[k]
    <3>1. k \in 1..n \/ k = n + 1
      BY <2>1
    <3>2. QED
      BY <2>4, <2>5, <3>1
  <2>7. QED
    BY <2>1, <2>6
<1>7. Nat \subseteq U
  <2> HIDE DEF U
  <2>1. QED
    BY <1>5, <1>6, Induction
<1>8. ASSUME NEW k \in 1..Len(s) PROVE k \in 1..Len(t) /\ s[k] = t[k]
  <2>1. k \in U /\ k \in 1..k
    BY <1>1, <1>7
  <2>2. QED
    BY <2>1
<1>9. ASSUME NEW k \in 1..Len(t) PROVE k \in 1..Len(s)
  <2>1. k \in U /\ k \in 1..k
    BY <1>1, <1>7
  <2>2. QED
    BY <2>1
<1> HIDE DEF U
<1>10. Len(s) = Len(t)
  <2>1. ASSUME Len(s) # 0 PROVE Len(s) \in 1..Len(t)
    <3>1. Len(s) \in 1..Len(s)
      BY <1>1, <2>1
    <3>2. QED
      BY <1>8, <3>1
  <2>2. ASSUME Len(t) # 0 PROVE Len(t) \in 1..Len(s)
    <3>1. Len(t) \in 1..Len(t)
      BY <1>1, <2>2
    <3>2. QED
      BY <1>9, <3>1
  <2>3. QED
    BY <1>1, <2>1, <2>2
<1>11. s = [k \in 1..Len(s) |-> s[k]] /\ t = [k \in 1..Len(t) |-> t[k]]
  BY DEF Arranges, IsList
<1>12. QED
  BY <1>8, <1>10, <1>11

AtItsPlace == cursor = None \/ (Selected(query, cursor[2]) /\ Place(query, cursor[2]) = cursor)

\* How many rows the in-memory store skips.
Skipped(items) == IF cursor = None THEN 0 ELSE CHOOSE n \in DOMAIN items : items[n] = cursor[2]

\* With the cursor's row in place, the rows behind it are the tail of the list.
LEMMA TailFollowsCursor ==
    ASSUME Inv, stage = "rows", AtItsPlace,
           NEW all, all = Ordered(query, Wanted(query)), NEW skip, skip = Skipped(all)
    PROVE  /\ IsList(all) /\ Len(all) \in Nat /\ skip \in 0..Len(all)
           /\ Ordered(query, AfterCursor) = [n \in 1..(Len(all) - skip) |-> all[skip + n]]
<1> DEFINE W == {i \in AllIds : Selected(query, i)}
           tail == [n \in 1..(Len(all) - skip) |-> all[skip + n]]
<1>1. /\ query \in Queries /\ query.what # "resolve" /\ TreeKept
      /\ cursor # None => cursor \in Int \X Int /\ cursor[2] \in AllIds
  BY DEF Inv, Asked, CursorKept
<1>2. Wanted(query) = W /\ W \in SUBSET AllIds
  BY <1>1 DEF Wanted
<1>3. Arranges(all, query, W) /\ IsList(all) /\ Len(all) \in Nat
  <2> HIDE DEF W
  <2>1. InPlaces(all, query, W)
    BY <1>1, <1>2, OrderedLists
  <2>2. QED
    BY <2>1 DEF InPlaces, Arranges, IsList
<1>4. DOMAIN all = 1..Len(all)
  BY <1>3 DEF IsList
<1>5. /\ skip \in 0..Len(all)
      /\ cursor # None => skip \in 1..Len(all) /\ Place(query, all[skip]) = cursor
  <2>1. CASE cursor = None
    BY <1>3, <2>1 DEF Skipped
  <2>2. CASE cursor # None
    <3>1. cursor[2] \in W /\ Place(query, cursor[2]) = cursor
      BY <1>1, <2>2 DEF AtItsPlace
    <3>2. \E n \in DOMAIN all : all[n] = cursor[2]
      BY <1>3, <1>4, <3>1 DEF Arranges
    <3>3. skip \in DOMAIN all /\ all[skip] = cursor[2]
      BY <2>2, <3>2 DEF Skipped
    <3>4. QED
      BY <1>3, <1>4, <3>1, <3>3
  <2>3. QED
    BY <2>1, <2>2
<1>6. /\ \A n \in 1..Len(all) : all[n] \in W /\ Place(query, all[n]) \in Int \X Int
      /\ \A m, n \in 1..Len(all) : m < n => Behind(query, Place(query, all[m]), Place(query, all[n]))
      /\ \A i \in W : \E n \in 1..Len(all) : all[n] = i
  BY <1>1, <1>3, PlaceType DEF Arranges
<1>7. \A n \in 1..Len(all) : all[n] \in AfterCursor <=> n > skip
  <2> SUFFICES ASSUME NEW n \in 1..Len(all) PROVE all[n] \in AfterCursor <=> n > skip
    OBVIOUS
  <2>1. all[n] \in AfterCursor <=> cursor = None \/ Behind(query, cursor, Place(query, all[n]))
    BY <1>6 DEF AfterCursor
  <2>2. CASE cursor = None
    <3>1. skip = 0
      BY <2>2 DEF Skipped
    <3>2. QED
      BY <2>1, <2>2, <3>1
  <2>3. CASE cursor # None
    <3>1. skip \in 1..Len(all) /\ Place(query, all[skip]) = cursor
      BY <1>5, <2>3
    <3>2. skip < n => Behind(query, cursor, Place(query, all[n]))
      BY <1>6, <3>1
    <3>3. n < skip => Behind(query, Place(query, all[n]), cursor)
      BY <1>6, <3>1
    <3>4. n < skip \/ n = skip \/ skip < n
      BY <3>1
    <3>5. n < skip => ~Behind(query, cursor, Place(query, all[n]))
      BY <1>6, <3>1, <3>3, BehindOrders
    <3>6. n = skip => ~Behind(query, cursor, Place(query, all[n]))
      BY <1>6, <3>1, BehindOrders
    <3>7. QED
      BY <2>1, <2>3, <3>1, <3>2, <3>4, <3>5, <3>6
  <2>4. QED
    BY <2>2, <2>3
<1>8. Len(all) - skip \in Nat /\ \A n \in 1..(Len(all) - skip) :
          skip + n \in 1..Len(all) /\ skip + n > skip
  BY <1>3, <1>5
<1>9. /\ tail = [n \in 1..(Len(all) - skip) |-> tail[n]]
      /\ \A n \in 1..(Len(all) - skip) : tail[n] = all[skip + n]
  OBVIOUS
<1> HIDE DEF tail
<1>10. IsList(tail) /\ Len(tail) = Len(all) - skip
  BY <1>8, <1>9, ListOf
<1>11. AfterCursor \subseteq W
  BY DEF AfterCursor
<1>12. Arranges(tail, query, AfterCursor)
  <2>1. \A n \in 1..Len(tail) : tail[n] \in AfterCursor
    BY <1>7, <1>8, <1>9, <1>10
  <2>2. ASSUME NEW m \in 1..Len(tail), NEW n \in 1..Len(tail), m < n
        PROVE  Behind(query, Place(query, tail[m]), Place(query, tail[n]))
    <3>1. skip + m < skip + n
      BY <1>5, <2>2
    <3>2. /\ skip + m \in 1..Len(all) /\ skip + n \in 1..Len(all)
          /\ tail[m] = all[skip + m] /\ tail[n] = all[skip + n]
      BY <1>8, <1>9, <1>10
    <3>3. QED
      BY <1>6, <3>1, <3>2
  <2>3. ASSUME NEW i \in AfterCursor PROVE \E n \in 1..Len(tail) : tail[n] = i
    <3>1. PICK n \in 1..Len(all) : all[n] = i
      BY <1>6, <1>11
    <3>2. n > skip
      BY <1>7, <3>1
    <3>3. n - skip \in 1..Len(tail) /\ skip + (n - skip) = n
      BY <1>3, <1>5, <1>10, <3>2
    <3>4. tail[n - skip] = i
      <4>1. tail[n - skip] = all[skip + (n - skip)]
        BY <1>9, <1>10, <3>3
      <4>2. QED
        BY <3>1, <3>3, <4>1
    <3>5. QED
      BY <3>3, <3>4
  <2>4. QED
    BY <1>10, <2>1, <2>2, <2>3 DEF Arranges
<1>13. Arranges(Ordered(query, AfterCursor), query, AfterCursor) /\ AfterCursor \in SUBSET AllIds
  <2>1. AfterCursor \in SUBSET AllIds
    BY <1>11
  <2>2. InPlaces(Ordered(query, AfterCursor), query, AfterCursor)
    BY <1>1, <2>1, OrderedLists
  <2>3. QED
    BY <2>1, <2>2 DEF InPlaces, Arranges
<1>14. Ordered(query, AfterCursor) = tail
  BY <1>1, <1>12, <1>13, ArrangedOneWay
<1>15. QED
  BY <1>3, <1>5, <1>14 DEF tail

\* A page behind a cursor that is still at its place is a page by position.
LEMMA PageByPosition ==
    ASSUME Inv, stage = "rows", AtItsPlace,
           NEW limit, limit = clamp_limit(query.limit), NEW page, page = finish_page
    PROVE  /\ [n \in DOMAIN page.items |-> page.items[n].id] = MemoryPage(limit)
           /\ page.more <=> Len(MemoryPage(limit + 1)) > Len(page.items)
<1> DEFINE all == Ordered(query, Wanted(query))
           skip == Skipped(all)
           found == Ordered(query, AfterCursor)
           K == Len(all) - skip
<1>1. /\ IsList(all) /\ Len(all) \in Nat /\ skip \in 0..Len(all)
      /\ found = [n \in 1..K |-> all[skip + n]]
  BY TailFollowsCursor
<1>2. \A l : MemoryPage(l) =
          SubSeq(all, skip + 1, IF Len(all) > skip + l THEN skip + l ELSE Len(all))
  BY DEF MemoryPage, Skipped
<1> HIDE DEF all, skip, found
<1>3. limit \in Nat \ {0}
  BY LimitPositive, PageAssumption DEF Inv, Asked
<1>4. K \in Nat
  BY <1>1
<1>5. IsList(found) /\ Len(found) = K /\ \A n \in 1..K : found[n] = all[skip + n]
  <2> HIDE DEF K
  <2>1. found = [n \in 1..K |-> found[n]]
    BY <1>1
  <2>2. QED
    BY <1>1, <1>4, <2>1, ListOf
<1> DEFINE least(l) == IF K > l THEN l ELSE K
<1>6. ASSUME NEW l \in Nat
      PROVE  MemoryPage(l) = [n \in 1..least(l) |-> all[skip + n]] /\ Len(MemoryPage(l)) = least(l)
  <2> DEFINE last == IF Len(all) > skip + l THEN skip + l ELSE Len(all)
  <2>1. /\ skip + 1 \in Int /\ last \in Int /\ 1 <= skip + 1 /\ (skip + 1) - 1 <= last
        /\ last <= Len(all) /\ last - (skip + 1) + 1 = least(l)
    BY <1>1
  <2> HIDE DEF last, least
  <2>2. /\ SubSeq(all, skip + 1, last)
             = [k \in 1..(last - (skip + 1) + 1) |-> all[(skip + 1) + k - 1]]
        /\ Len(SubSeq(all, skip + 1, last)) = last - (skip + 1) + 1
    BY <1>1, <2>1, ListPart
  <2>3. MemoryPage(l) = SubSeq(all, skip + 1, last)
    BY <1>2 DEF last
  <2>4. \A k \in 1..least(l) : all[(skip + 1) + k - 1] = all[skip + k]
    <3> SUFFICES ASSUME NEW k \in 1..least(l) PROVE (skip + 1) + k - 1 = skip + k
      OBVIOUS
    <3>1. QED
      BY <1>1
  <2>5. QED
    BY <2>1, <2>2, <2>3, <2>4
<1>7. /\ page.more <=> K > limit
      /\ page.items = [n \in 1..least(limit) |-> Item(found[n])]
  <2> DEFINE m == IF Len(found) > limit THEN limit ELSE Len(found)
             kept == SubSeq(found, 1, m)
  <2>1. m = least(limit) /\ m \in Nat /\ m <= Len(found)
    BY <1>3, <1>4, <1>5
  <2>2. page.items = [n \in DOMAIN kept |-> Item(kept[n])] /\ page.more = (Len(found) > limit)
    BY DEF finish_page, found
  <2> HIDE DEF m
  <2>3. /\ SubSeq(found, 1, m) = [k \in 1..(m - 1 + 1) |-> found[1 + k - 1]]
        /\ IsList(SubSeq(found, 1, m)) /\ Len(SubSeq(found, 1, m)) = m - 1 + 1
    <3>1. IsList(found) /\ m \in Nat /\ m <= Len(found)
      BY <1>5, <2>1
    <3>2. QED
      BY <3>1, ListPart
  <2>4. kept = [k \in 1..m |-> found[k]]
    BY <2>1, <2>3
  <2> HIDE DEF kept
  <2>5. page.items = [n \in 1..m |-> Item(found[n])]
    BY <2>2, <2>4
  <2>6. QED
    BY <1>5, <2>1, <2>2, <2>5
<1> HIDE DEF least
<1>8. \A n \in 1..least(limit) : page.items[n].id = all[skip + n]
  <2> SUFFICES ASSUME NEW n \in 1..least(limit) PROVE page.items[n].id = all[skip + n]
    OBVIOUS
  <2>1. n \in 1..K
    BY <1>3, <1>4 DEF least
  <2>2. QED
    BY <1>5, <1>7, <2>1 DEF Item
<1>9. DOMAIN page.items = 1..least(limit) /\ Len(page.items) = least(limit)
  <2>1. least(limit) \in Nat
    BY <1>3, <1>4 DEF least
  <2>2. page.items = [n \in 1..least(limit) |-> page.items[n]]
    BY <1>7
  <2>3. QED
    BY <2>1, <2>2, ListOf
<1>10. [n \in DOMAIN page.items |-> page.items[n].id] = MemoryPage(limit)
  BY <1>3, <1>6, <1>8, <1>9
<1>11. Len(MemoryPage(limit + 1)) = least(limit + 1)
  BY <1>3, <1>6
<1>12. page.more <=> least(limit + 1) > least(limit)
  BY <1>3, <1>4, <1>7 DEF least
<1>13. QED
  BY <1>9, <1>10, <1>11, <1>12

\* While the cursor's row is where it was, the keyset page of the SQL is the
\* page that the in-memory store of the test kit computes by position, however
\* the tree changed before and behind it.
THEOREM PagesByPosition == Spec => AgreesWithMemoryStore
<1>1. Inv /\ [Next]_vars =>
        [stage = "rows" /\ stage' = "paths" /\ (cursor = None \/ (Selected(query, cursor[2]) /\ Place(query, cursor[2]) = cursor))
            => /\ [n \in DOMAIN rows' |-> rows'[n].id] = MemoryPage(clamp_limit(query.limit))
               /\ more' = (Len(MemoryPage(clamp_limit(query.limit) + 1)) > Len(rows'))]_vars
  <2> SUFFICES ASSUME Inv, Next, stage = "rows", stage' = "paths", AtItsPlace
               PROVE  /\ [n \in DOMAIN rows' |-> rows'[n].id] = MemoryPage(clamp_limit(query.limit))
                      /\ more' = (Len(MemoryPage(clamp_limit(query.limit) + 1)) > Len(rows'))
    BY DEF AtItsPlace
  <2> DEFINE page == finish_page
             limit == clamp_limit(query.limit)
  <2>1. /\ ~Mutate /\ ~Begin /\ ~CheckFolder /\ ~AttachPaths /\ ~ResolvePath /\ ~LoadObject
        /\ ~RpcResolve
    BY DEF Mutate, Begin, CheckFolder, AttachPaths, ResolvePath, LoadObject, RpcResolve
  <2>2. ~OneCall
    <3> SUFFICES ASSUME OneCall PROVE FALSE
      OBVIOUS
    <3>1. query \in Queries /\ page.more \in BOOLEAN /\ stage' = AfterPage(page.more)
      BY PageContinues DEF OneCall
    <3> HIDE DEF page
    <3>2. QED
      BY <3>1, AfterPageStage
  <2>3. rows' = page.items /\ more' = page.more
    BY <2>1, <2>2 DEF Next, ReaderStep, RpcPage, RpcQuery, ReadRows
  <2>4. page.more \in BOOLEAN /\ more' \in BOOLEAN
    <3>1. page.more \in BOOLEAN
      BY PageContinues
    <3>2. QED
      BY <2>3, <3>1
  <2>5. /\ [n \in DOMAIN page.items |-> page.items[n].id] = MemoryPage(limit)
        /\ page.more <=> Len(MemoryPage(limit + 1)) > Len(page.items)
    BY PageByPosition
  <2> HIDE DEF page, limit
  <2>6. [n \in DOMAIN rows' |-> rows'[n].id] = MemoryPage(limit)
    BY <2>3, <2>5
  <2>7. more' = (Len(MemoryPage(limit + 1)) > Len(rows'))
    BY <2>3, <2>4, <2>5
  <2>8. QED
    BY <2>6, <2>7 DEF limit
<1>2. QED
  BY <1>1, Invariance, PTL DEF Spec, AgreesWithMemoryStore

=============================================================================
