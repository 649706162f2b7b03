------------------------------ MODULE PodProofs ------------------------------
(***************************************************************************)
(* Theorems about the merge and the pods, for configurations and requests  *)
(* of any size and for any number of browsers.                             *)
(*                                                                         *)
(* First what the operators of ConfigMerge and PodBuild yield, for all     *)
(* inputs: lists are told by their positions, and a list of variables by   *)
(* the last position of each name (EnvironmentIs).  The order in which a   *)
(* Go map is iterated is any sequence of its keys (OrderIs).  Then the     *)
(* invariant PodInv: what the store keeps is what the merge made, and a    *)
(* pod is what was made of that; the properties are read off the two.      *)
(*                                                                         *)
(* All of it takes Nil, the Go nil, to be told from a list and a map       *)
(* (NilIsNoFunction).                                                      *)
(***************************************************************************)
EXTENDS PodProperties, FiniteSetTheorems, SequenceTheorems, TLAPS

-----------------------------------------------------------------------------
(* Positions *)

Rank(S, k) == Cardinality({j \in S : j <= k})

(* Every finite set of numbers can be counted off in order.                *)
LEMMA CountedOff ==
  ASSUME NEW S \in SUBSET Nat, IsFiniteSet(S)
  PROVE  /\ Cardinality(S) \in Nat
         /\ \A k, l \in S : k < l => Rank(S, k) < Rank(S, l)
         /\ \A k \in S : Rank(S, k) \in 1 .. Cardinality(S)
         /\ \A i \in 1 .. Cardinality(S) : \E k \in S : Rank(S, k) = i
<1> DEFINE upto(k) == {j \in S : j <= k}
           n == Cardinality(S)
           f == [k \in S |-> Rank(S, k)]
<1>1. n \in Nat
  BY FS_CardinalityType
<1>2. ASSUME NEW k \in S
      PROVE  IsFiniteSet(upto(k)) /\ Rank(S, k) \in 1 .. n
  <2>1. upto(k) \in SUBSET S /\ k \in upto(k)
    OBVIOUS
  <2>2. IsFiniteSet(upto(k)) /\ Cardinality(upto(k)) <= n
    BY <2>1, FS_Subset
  <2>3. Cardinality(upto(k)) \in Nat /\ Cardinality(upto(k)) # 0
    BY <2>1, <2>2, FS_EmptySet, FS_CardinalityType
  <2> QED
    BY <1>1, <2>2, <2>3 DEF Rank
<1>3. ASSUME NEW k \in S, NEW l \in S, k < l
      PROVE  Rank(S, k) < Rank(S, l)
  <2>0. k \in Nat /\ l \in Nat /\ \A j \in S : j \in Nat
    OBVIOUS
  <2>1. upto(k) \in SUBSET upto(l)
    <3> SUFFICES ASSUME NEW j \in S, j <= k  PROVE j <= l
      OBVIOUS
    <3> QED
      BY <1>3, <2>0
  <2>2. l \in upto(l) /\ l \notin upto(k)
    BY <1>3, <2>0
  <2>3. Cardinality(upto(k)) <= Cardinality(upto(l)) /\ Cardinality(upto(k)) # Cardinality(upto(l))
    BY <1>2, <2>1, <2>2, FS_Subset
  <2>4. Rank(S, k) = Cardinality(upto(k)) /\ Rank(S, l) = Cardinality(upto(l))
    BY DEF Rank
  <2>5. Rank(S, k) \in 1 .. n /\ Rank(S, l) \in 1 .. n
    BY <1>2
  <2> HIDE DEF upto
  <2> QED
    BY <1>1, <2>3, <2>4, <2>5
<1>4. f \in Injection(S, 1 .. n)
  <2>1. f \in [S -> 1 .. n]
    BY <1>2
  <2>2. ASSUME NEW k \in S, NEW l \in S, f[k] = f[l]
        PROVE  k = l
    <3>1. k \in Nat /\ l \in Nat /\ Rank(S, k) = Rank(S, l)
      BY <2>2
    <3>2. Rank(S, k) \in 1 .. n
      BY <1>2
    <3>3. Rank(S, k) \in Nat
      BY <1>1, <3>2
    <3> QED
      BY <1>3, <3>1, <3>3
  <2> QED
    BY <2>1, <2>2 DEF Injection, IsInjective
<1>5. IsFiniteSet(1 .. n) /\ Cardinality(1 .. n) = n
  BY <1>1, FS_Interval
<1>6. f \in Surjection(S, 1 .. n)
  BY <1>4, <1>5, FS_Injection
<1> QED
  BY <1>1, <1>2, <1>3, <1>6 DEF Surjection

(* A set of positions that is not empty has a first one and a last one.    *)
LEMMA FirstAndLast ==
  ASSUME NEW n \in Nat, NEW S \in SUBSET (1 .. n), S # {}
  PROVE  /\ \E k \in S : \A j \in S : j <= k
         /\ \E k \in S : \A j \in S : k <= j
<1>1. IsFiniteSet(1 .. n)
  BY FS_Interval
<1>2. IsFiniteSet(S) /\ S \in SUBSET Nat
  <2>1. IsFiniteSet(S)
    BY <1>1, FS_Subset
  <2>2. \A i \in 1 .. n : i \in Nat
    OBVIOUS
  <2> QED
    BY <2>1, <2>2
<1>3. Cardinality(S) \in Nat /\ Cardinality(S) # 0
  BY <1>2, FS_EmptySet, FS_CardinalityType
<1>4. PICK k \in S : Rank(S, k) = Cardinality(S)
  BY <1>2, <1>3, CountedOff
<1>5. PICK l \in S : Rank(S, l) = 1
  BY <1>2, <1>3, CountedOff
<1>6. ASSUME NEW j \in S
      PROVE  j <= k /\ l <= j
  <2>0. j \in Nat /\ k \in Nat /\ l \in Nat
    OBVIOUS
  <2>1. Rank(S, j) \in 1 .. Cardinality(S)
    BY <1>2, CountedOff
  <2>2. /\ k < j => Rank(S, k) < Rank(S, j)
        /\ j < l => Rank(S, j) < Rank(S, l)
    BY <1>2, CountedOff
  <2> QED
    BY <1>3, <1>4, <1>5, <2>0, <2>1, <2>2
<1> QED
  BY <1>6

-----------------------------------------------------------------------------
(* Lists *)

(* Nil is told from every list and every map.                              *)
NilIsNoFunction == \A f : f = [x \in DOMAIN f |-> f[x]] => f # Nil

(* What it is to be a list: positions from 1 to a length.                  *)
LEMMA ListIs ==
  ASSUME NEW l, IsList(l)
  PROVE  /\ Items(l) \in Seq(Elements(l))
         /\ Len(Items(l)) \in Nat /\ DOMAIN Items(l) = 1 .. Len(Items(l))
         /\ Elements(l) = {Items(l)[i] : i \in DOMAIN Items(l)}
         /\ NamesIn(l) = {Items(l)[i].name : i \in DOMAIN Items(l)}
<1>1. Items(l) \in Seq(Elements(l))
  <2>1. CASE l = Nil
    BY <2>1 DEF Items
  <2>2. CASE l # Nil /\ l \in Seq(ToSet(l))
    BY <2>2 DEF Items, Elements
  <2> QED
    BY <2>1, <2>2 DEF IsList
<1> QED
  BY <1>1 DEF Elements, NamesIn, ToSet

(* A function on such positions is a list.                                 *)
LEMMA FunctionIsList ==
  ASSUME NilIsNoFunction, NEW n \in Nat, NEW l, l = [i \in 1 .. n |-> l[i]]
  PROVE  IsList(l) /\ Items(l) = l /\ Len(l) = n /\ DOMAIN l = 1 .. n
<1>1. DOMAIN l = 1 .. n
  OBVIOUS
<1>2. l # Nil
  BY <1>1 DEF NilIsNoFunction
<1>3. l \in [1 .. n -> ToSet(l)]
  BY <1>1 DEF ToSet
<1>4. l \in Seq(ToSet(l))
  BY <1>3
<1> QED
  BY <1>1, <1>2, <1>3, <1>4 DEF IsList, Items

(* One list after the other.                                               *)
LEMMA JoinedIs ==
  ASSUME NilIsNoFunction, NEW l, NEW m, IsList(l), IsList(m)
  PROVE  LET both == Items(l) \o Items(m)
         IN  /\ IsList(both) /\ Items(both) = both
             /\ Len(both) = Len(Items(l)) + Len(Items(m))
             /\ DOMAIN both = 1 .. Len(both)
             /\ \A i \in DOMAIN Items(l) : i \in DOMAIN both /\ both[i] = Items(l)[i]
             /\ \A i \in DOMAIN Items(m) : /\ Len(Items(l)) + i \in DOMAIN both
                                           /\ both[Len(Items(l)) + i] = Items(m)[i]
             /\ \A i \in DOMAIN both : \/ i \in DOMAIN Items(l)
                                       \/ i - Len(Items(l)) \in DOMAIN Items(m)
<1> DEFINE s == Items(l)
           t == Items(m)
           both == s \o t
           X == Elements(l) \cup Elements(m)
<1>1. s \in Seq(X) /\ t \in Seq(X)
  BY ListIs
<1>2. both \in Seq(X) /\ Len(both) = Len(s) + Len(t) /\ DOMAIN both = 1 .. Len(both)
  BY <1>1
<1>3. Len(s) \in Nat /\ Len(t) \in Nat /\ DOMAIN s = 1 .. Len(s) /\ DOMAIN t = 1 .. Len(t)
  BY <1>1
<1>4. \A i \in 1 .. Len(both) : both[i] = IF i <= Len(s) THEN s[i] ELSE t[i - Len(s)]
  BY <1>1
<1>5. both = [i \in 1 .. Len(both) |-> both[i]]
  <2>1. both \in [1 .. Len(both) -> X]
    BY <1>2, LenProperties
  <2> QED
    BY <2>1
<1> HIDE DEF s, t, both
<1>6. IsList(both) /\ Items(both) = both
  BY <1>2, <1>3, <1>5, FunctionIsList
<1>7. ASSUME NEW i \in DOMAIN s
      PROVE  i \in DOMAIN both /\ both[i] = s[i]
  BY <1>2, <1>3, <1>4
<1>8. ASSUME NEW i \in DOMAIN t
      PROVE  Len(s) + i \in DOMAIN both /\ both[Len(s) + i] = t[i]
  <2>1. Len(s) + i \in 1 .. Len(both) /\ ~(Len(s) + i <= Len(s)) /\ (Len(s) + i) - Len(s) = i
    BY <1>2, <1>3
  <2> QED
    BY <1>2, <1>4, <2>1
<1>9. ASSUME NEW i \in DOMAIN both
      PROVE  i \in DOMAIN s \/ i - Len(s) \in DOMAIN t
  BY <1>2, <1>3
<1> QED
  BY <1>2, <1>6, <1>7, <1>8, <1>9 DEF s, t, both

(* A list has finitely many names.                                         *)
LEMMA FiniteNames ==
  ASSUME NEW l, IsList(l)
  PROVE  IsFiniteSet(NamesIn(l))
<1> DEFINE s == Items(l)
           f == [i \in DOMAIN s |-> s[i].name]
<1>1. DOMAIN s = 1 .. Len(s) /\ Len(s) \in Nat /\ NamesIn(l) = {s[i].name : i \in DOMAIN s}
  BY ListIs
<1>2. f \in Surjection(DOMAIN s, NamesIn(l))
  BY <1>1 DEF Surjection
<1>3. IsFiniteSet(DOMAIN s)
  BY <1>1, FS_Interval
<1> QED
  BY <1>2, <1>3, FS_Surjection

(* The sequences of a set list each of its elements once.                  *)
LEMMA OrderIs ==
  ASSUME NEW S, IsFiniteSet(S), NEW s \in SetToSeqs(S)
  PROVE  /\ Cardinality(S) \in Nat /\ s \in [1 .. Cardinality(S) -> S]
         /\ DOMAIN s = 1 .. Cardinality(S)
         /\ \A i, j \in DOMAIN s : s[i] = s[j] => i = j
         /\ \A x \in S : \E i \in DOMAIN s : s[i] = x
<1> DEFINE n == Cardinality(S)
<1>1. n \in Nat
  BY FS_CardinalityType
<1>2. s \in [1 .. n -> S] /\ \A i, j \in 1 .. n : i # j => s[i] # s[j]
  BY DEF SetToSeqs
<1>3. s \in Injection(1 .. n, S)
  BY <1>2 DEF Injection, IsInjective
<1>4. Cardinality(1 .. n) = n
  BY <1>1, FS_Interval
<1>5. s \in Surjection(1 .. n, S)
  BY <1>3, <1>4, FS_Injection
<1> QED
  BY <1>1, <1>2, <1>5 DEF Surjection

-----------------------------------------------------------------------------
(* Items by name *)

IsFirst(l, n, i) ==
  /\ i \in DOMAIN l /\ l[i].name = n
  /\ \A j \in DOMAIN l : l[j].name = n => i <= j
IsLast(l, n, i) ==
  /\ i \in DOMAIN l /\ l[i].name = n
  /\ \A j \in DOMAIN l : l[j].name = n => j <= i

(* A name of a list has a first and a last item.                           *)
LEMMA NamedIs ==
  ASSUME NEW l, IsList(l), NEW n \in NamesIn(l)
  PROVE  /\ l # Nil
         /\ \E i \in DOMAIN l : IsFirst(l, n, i) /\ Named(l, n) = l[i]
         /\ \E i \in DOMAIN l : IsLast(l, n, i) /\ LastNamed(l, n) = l[i]
<1>1. l # Nil /\ Items(l) = l
  <2>1. Items(Nil) = <<>> /\ NamesIn(Nil) = {}
    BY DEF Items, NamesIn, Elements, ToSet
  <2> QED
    BY <2>1 DEF Items
<1>2. DOMAIN l = 1 .. Len(l) /\ Len(l) \in Nat /\ NamesIn(l) = {l[i].name : i \in DOMAIN l}
  BY <1>1, ListIs
<1> DEFINE S == {i \in DOMAIN l : l[i].name = n}
<1>3. S \in SUBSET (1 .. Len(l)) /\ S # {}
  BY <1>2
<1>4. (\E k \in S : \A j \in S : j <= k) /\ (\E k \in S : \A j \in S : k <= j)
  BY <1>2, <1>3, FirstAndLast
<1>5. (\E i \in DOMAIN l : IsFirst(l, n, i)) /\ (\E i \in DOMAIN l : IsLast(l, n, i))
  BY <1>4 DEF IsFirst, IsLast
<1>6. /\ Named(l, n) = l[CHOOSE i \in DOMAIN l : IsFirst(l, n, i)]
      /\ LastNamed(l, n) = l[CHOOSE i \in DOMAIN l : IsLast(l, n, i)]
  <2>1. \A i : (i \in DOMAIN l /\ l[i].name = n /\ \A j \in DOMAIN l : l[j].name = n => i <= j)
                 <=> (i \in DOMAIN l /\ IsFirst(l, n, i))
    BY DEF IsFirst
  <2>2. \A i : (i \in DOMAIN l /\ l[i].name = n /\ \A j \in DOMAIN l : l[j].name = n => j <= i)
                 <=> (i \in DOMAIN l /\ IsLast(l, n, i))
    BY DEF IsLast
  <2> QED
    BY <2>1, <2>2, Zenon DEF Named, LastNamed
<1> QED
  BY <1>1, <1>5, <1>6

(* Positions are counted from 1, so that there is one last item.           *)
LEMMA OneLast ==
  ASSUME NEW l, IsList(l), NEW n, NEW i, NEW j, IsLast(Items(l), n, i), IsLast(Items(l), n, j)
  PROVE  i = j
<1>1. DOMAIN Items(l) = 1 .. Len(Items(l)) /\ Len(Items(l)) \in Nat
  BY ListIs
<1>2. i <= j /\ j <= i /\ i \in Nat /\ j \in Nat
  BY <1>1 DEF IsLast
<1> QED
  BY <1>2

(* What a list of variables comes to is told by its last items.            *)
LEMMA EnvironmentIs ==
  ASSUME NEW l, IsList(l)
  PROVE  /\ DOMAIN Environment(l) = NamesIn(l)
         /\ Environment(l) = [n \in NamesIn(l) |-> Environment(l)[n]]
         /\ \A n, i : IsLast(Items(l), n, i) =>
              n \in NamesIn(l) /\ Environment(l)[n] = Items(l)[i].value
         /\ \A n \in NamesIn(l) : \E i : IsLast(Items(l), n, i)
<1>1. Environment(l) = [n \in NamesIn(l) |-> LastNamed(Items(l), n).value]
  BY DEF Environment
<1>2. ASSUME NEW n \in NamesIn(l)
      PROVE  \E i : IsLast(Items(l), n, i) /\ LastNamed(Items(l), n) = Items(l)[i]
  <2>1. l # Nil
    BY NamedIs
  <2>2. Items(l) = l
    BY <2>1 DEF Items
  <2> QED
    BY <2>2, NamedIs
<1>3. ASSUME NEW n, NEW i, IsLast(Items(l), n, i)
      PROVE  n \in NamesIn(l) /\ LastNamed(Items(l), n) = Items(l)[i]
  <2>1. n \in NamesIn(l)
    BY <1>3, ListIs DEF IsLast
  <2> QED
    BY <1>2, <1>3, <2>1, OneLast
<1> QED
  BY <1>1, <1>2, <1>3

(* A function that agrees with the last items is what the list comes to.   *)
LEMMA EnvironmentFrom ==
  ASSUME NEW l, IsList(l), NEW e, e = [n \in NamesIn(l) |-> e[n]],
         \A n \in NamesIn(l) : \E i : IsLast(Items(l), n, i) /\ e[n] = Items(l)[i].value
  PROVE  Environment(l) = e
<1> DEFINE f == Environment(l)
<1>1. f = [n \in NamesIn(l) |-> f[n]]
  BY EnvironmentIs
<1>2. \A n \in NamesIn(l) : f[n] = e[n]
  BY EnvironmentIs
<1> HIDE DEF f
<1> QED
  BY <1>1, <1>2 DEF f

(* The last of a name in two lists is the second one's, if it has any.     *)
LEMMA LastOfJoined ==
  ASSUME NilIsNoFunction, NEW l, NEW m, IsList(l), IsList(m)
  PROVE  LET both == Items(l) \o Items(m)
         IN  /\ NamesIn(both) = NamesIn(l) \cup NamesIn(m)
             /\ Elements(both) = Elements(l) \cup Elements(m)
             /\ \A n, j : IsLast(Items(m), n, j) => IsLast(both, n, Len(Items(l)) + j)
             /\ \A n, i : n \notin NamesIn(m) /\ IsLast(Items(l), n, i) => IsLast(both, n, i)
<1> DEFINE s == Items(l)
           t == Items(m)
           both == s \o t
<1>1. /\ IsList(both) /\ Items(both) = both
      /\ Len(both) = Len(s) + Len(t) /\ DOMAIN both = 1 .. Len(both)
      /\ \A i \in DOMAIN s : i \in DOMAIN both /\ both[i] = s[i]
      /\ \A i \in DOMAIN t : Len(s) + i \in DOMAIN both /\ both[Len(s) + i] = t[i]
      /\ \A i \in DOMAIN both : i \in DOMAIN s \/ i - Len(s) \in DOMAIN t
  BY JoinedIs
<1>2. /\ Len(s) \in Nat /\ DOMAIN s = 1 .. Len(s) /\ Len(t) \in Nat /\ DOMAIN t = 1 .. Len(t)
      /\ Elements(l) = {s[i] : i \in DOMAIN s} /\ Elements(m) = {t[i] : i \in DOMAIN t}
      /\ NamesIn(l) = {s[i].name : i \in DOMAIN s} /\ NamesIn(m) = {t[i].name : i \in DOMAIN t}
  BY ListIs
<1> HIDE DEF s, t, both
<1>3. /\ Elements(both) = {both[i] : i \in DOMAIN both}
      /\ NamesIn(both) = {both[i].name : i \in DOMAIN both}
  <2>1. IsList(both) /\ Items(both) = both
    BY <1>1
  <2> QED
    BY <2>1, ListIs
<1>4. ASSUME NEW i \in DOMAIN both
      PROVE  \/ i \in DOMAIN s /\ both[i] = s[i]
             \/ \E j \in DOMAIN t : i = Len(s) + j /\ both[i] = t[j]
  <2>1. CASE i \in DOMAIN s
    BY <1>1, <2>1
  <2>2. CASE i - Len(s) \in DOMAIN t
    <3>1. i = Len(s) + (i - Len(s))
      BY <1>1, <1>2
    <3> QED
      BY <1>1, <2>2, <3>1
  <2> QED
    BY <1>1, <2>1, <2>2
<1>5. /\ Elements(both) = Elements(l) \cup Elements(m)
      /\ NamesIn(both) = NamesIn(l) \cup NamesIn(m)
  BY <1>1, <1>2, <1>3, <1>4
<1>6. ASSUME NEW n, NEW j, IsLast(t, n, j)
      PROVE  IsLast(both, n, Len(s) + j)
  <2>1. j \in DOMAIN t /\ t[j].name = n
    BY <1>6 DEF IsLast
  <2>2. ASSUME NEW i \in DOMAIN both, both[i].name = n
        PROVE  i <= Len(s) + j
    <3>1. CASE i \in DOMAIN s
      BY <1>2, <2>1, <3>1
    <3>2. CASE \E k \in DOMAIN t : i = Len(s) + k /\ both[i] = t[k]
      BY <1>2, <1>6, <2>1, <2>2, <3>2 DEF IsLast
    <3> QED
      BY <1>4, <3>1, <3>2
  <2> QED
    BY <1>1, <2>1, <2>2 DEF IsLast
<1>7. ASSUME NEW n, NEW i, n \notin NamesIn(m), IsLast(s, n, i)
      PROVE  IsLast(both, n, i)
  <2>1. i \in DOMAIN s /\ s[i].name = n
    BY <1>7 DEF IsLast
  <2>2. ASSUME NEW j \in DOMAIN both, both[j].name = n
        PROVE  j <= i
    <3>1. j \in DOMAIN s /\ both[j] = s[j]
      BY <1>2, <1>4, <1>7, <2>2
    <3> QED
      BY <1>7, <2>2, <3>1 DEF IsLast
  <2> QED
    BY <1>1, <2>1, <2>2 DEF IsLast
<1> QED
  BY <1>5, <1>6, <1>7 DEF s, t, both

(* What two lists come to together.                                        *)
LEMMA EnvironmentOfJoined ==
  ASSUME NilIsNoFunction, NEW l, NEW m, IsList(l), IsList(m)
  PROVE  Environment(Items(l) \o Items(m)) = Overriding(Environment(m), Environment(l))
<1> DEFINE both == Items(l) \o Items(m)
           e == Overriding(Environment(m), Environment(l))
<1>1. IsList(both) /\ Items(both) = both /\ NamesIn(both) = NamesIn(l) \cup NamesIn(m)
  BY JoinedIs, LastOfJoined
<1>2. DOMAIN Environment(l) = NamesIn(l) /\ DOMAIN Environment(m) = NamesIn(m)
  BY EnvironmentIs
<1>3. /\ e = [n \in NamesIn(both) |-> e[n]]
      /\ \A n \in NamesIn(both) :
           e[n] = IF n \in NamesIn(m) THEN Environment(m)[n] ELSE Environment(l)[n]
  BY <1>1, <1>2 DEF Overriding
<1>4. ASSUME NEW n \in NamesIn(both)
      PROVE  \E i : IsLast(both, n, i) /\ e[n] = both[i].value
  <2> HIDE DEF e
  <2>1. CASE n \in NamesIn(m)
    <3>1. PICK j : IsLast(Items(m), n, j) /\ Environment(m)[n] = Items(m)[j].value
      BY <2>1, EnvironmentIs
    <3>2. IsLast(both, n, Len(Items(l)) + j)
      BY <3>1, LastOfJoined
    <3>3. both[Len(Items(l)) + j] = Items(m)[j]
      <4>1. j \in DOMAIN Items(m)
        BY <3>1 DEF IsLast
      <4> QED
        BY <4>1, JoinedIs
    <3> QED
      BY <1>3, <2>1, <3>1, <3>2, <3>3
  <2>2. CASE n \notin NamesIn(m)
    <3>1. PICK i : IsLast(Items(l), n, i) /\ Environment(l)[n] = Items(l)[i].value
      BY <1>1, <2>2, EnvironmentIs
    <3>2. IsLast(both, n, i)
      BY <2>2, <3>1, LastOfJoined
    <3>3. both[i] = Items(l)[i]
      BY <3>1, JoinedIs DEF IsLast
    <3> QED
      BY <1>3, <2>2, <3>1, <3>2, <3>3
  <2> QED
    BY <2>1, <2>2
<1>5. e = [n \in NamesIn(both) |-> e[n]]
  BY <1>3
<1> HIDE DEF e, both
<1>6. Environment(both) = e
  <2>1. IsList(both) /\ Items(both) = both
    BY <1>1
  <2>2. \A n \in NamesIn(both) : \E i : IsLast(Items(both), n, i) /\ e[n] = Items(both)[i].value
    BY <1>4, <2>1
  <2> QED
    BY <1>5, <2>1, <2>2, EnvironmentFrom
<1> QED
  BY <1>6 DEF e, both

(* Nothing is in a list that is not given.                                 *)
LEMMA NothingInNil ==
  /\ IsList(Nil) /\ Items(Nil) = <<>> /\ Elements(Nil) = {} /\ NamesIn(Nil) = {}
  /\ DOMAIN Environment(Nil) = {} /\ Len(Items(Nil)) = 0
<1>1. IsList(Nil) /\ Items(Nil) = <<>>
  BY DEF IsList, Items
<1>2. Elements(Nil) = {} /\ NamesIn(Nil) = {}
  BY <1>1 DEF Elements, NamesIn, ToSet
<1> QED
  BY <1>1, <1>2, EnvironmentIs

(* mergeEnvPtr merges by name.                                             *)
LEMMA MergeEnvIs ==
  ASSUME NilIsNoFunction, NEW t, NEW v, IsEnv(t), IsEnv(v), NEW m \in MergeEnv(t, v)
  PROVE  IsEnv(m) /\ EnvMerged(t, v, m)
<1> DEFINE both == Items(t) \o Items(v)
           S == NamesIn(both)
<1>1. IsList(t) /\ IsList(v)
  BY DEF IsEnv
<1>2. CASE t = Nil /\ v = Nil
  <2>1. m = Nil
    BY <1>2 DEF MergeEnv
  <2>2. Environment(Nil) = Overriding(Environment(Nil), Environment(Nil))
    <3> DEFINE e == Overriding(Environment(Nil), Environment(Nil))
    <3>1. e = [n \in NamesIn(Nil) |-> e[n]]
      BY NothingInNil DEF Overriding
    <3> HIDE DEF e
    <3>2. Environment(Nil) = e
      BY <3>1, NothingInNil, EnvironmentFrom
    <3> QED
      BY <3>2 DEF e
  <2>3. Len(Items(Nil)) = Cardinality(NamesIn(Nil))
    BY NothingInNil, FS_EmptySet
  <2> QED
    BY <1>2, <2>1, <2>2, <2>3, NothingInNil DEF EnvMerged, IsEnv
<1>3. CASE ~(t = Nil /\ v = Nil)
  <2>1. PICK s \in SetToSeqs(S) : m = [i \in DOMAIN s |-> LastNamed(both, s[i])]
    BY <1>3 DEF MergeEnv
  <2>2. IsList(both) /\ Items(both) = both /\ Elements(both) = Elements(t) \cup Elements(v)
    BY <1>1, JoinedIs, LastOfJoined
  <2> HIDE DEF both
  <2>3. IsFiniteSet(S)
    BY <2>2, FiniteNames
  <2>4. /\ Cardinality(S) \in Nat /\ s \in [1 .. Cardinality(S) -> S]
        /\ DOMAIN s = 1 .. Cardinality(S)
        /\ \A i, j \in DOMAIN s : s[i] = s[j] => i = j
        /\ \A x \in S : \E i \in DOMAIN s : s[i] = x
    BY <2>3, OrderIs
  <2>5. IsList(m) /\ Items(m) = m /\ Len(m) = Cardinality(S) /\ DOMAIN m = 1 .. Cardinality(S)
    BY <2>1, <2>4, FunctionIsList
  <2>6. ASSUME NEW i \in DOMAIN m
        PROVE  /\ m[i] \in Elements(both) /\ m[i].name = s[i] /\ s[i] \in S
               /\ m[i].value = Environment(both)[s[i]]
    <3>1. m[i] = LastNamed(both, s[i]) /\ s[i] \in S
      BY <2>1, <2>4, <2>5
    <3>2. PICK k \in DOMAIN both : IsLast(both, s[i], k) /\ LastNamed(both, s[i]) = both[k]
      BY <2>2, <3>1, NamedIs
    <3>3. Environment(both)[s[i]] = both[k].value
      BY <2>2, <3>2, EnvironmentIs
    <3>4. both[k] \in Elements(both)
      BY <2>2, <3>2, ListIs
    <3> QED
      BY <3>1, <3>2, <3>3, <3>4 DEF IsLast
  <2>7. IsEnv(m)
    <3>1. Elements(m) = {m[i] : i \in DOMAIN m}
      BY <2>5, ListIs
    <3> QED
      BY <2>2, <2>5, <2>6, <3>1 DEF IsEnv
  <2>8. NamesIn(m) = S
    <3>1. NamesIn(m) = {m[i].name : i \in DOMAIN m}
      BY <2>5, ListIs
    <3> QED
      BY <2>4, <2>5, <2>6, <3>1
  <2>9. Environment(both) = Environment(m)
    <3> DEFINE e == Environment(both)
    <3>1. e = [n \in NamesIn(m) |-> e[n]]
      BY <2>2, <2>8, EnvironmentIs
    <3> HIDE DEF e
    <3>2. ASSUME NEW n \in NamesIn(m)
          PROVE  \E i : IsLast(m, n, i) /\ e[n] = m[i].value
      <4>1. PICK i \in DOMAIN s : s[i] = n
        BY <2>4, <2>8
      <4>2. ASSUME NEW j \in DOMAIN m, m[j].name = n
            PROVE  j <= i
        <5>1. j = i /\ i \in Nat
          BY <2>4, <2>5, <2>6, <4>1, <4>2
        <5> QED
          BY <5>1
      <4>3. m[i].name = n /\ i \in DOMAIN m /\ e[n] = m[i].value
        BY <2>4, <2>5, <2>6, <4>1 DEF e
      <4> QED
        BY <4>2, <4>3 DEF IsLast
    <3>3. Environment(m) = e
      BY <2>5, <3>1, <3>2, EnvironmentFrom
    <3> QED
      BY <3>3 DEF e
  <2>10. Environment(both) = Overriding(Environment(v), Environment(t))
    BY <1>1, EnvironmentOfJoined DEF both
  <2> QED
    BY <2>5, <2>7, <2>8, <2>9, <2>10 DEF EnvMerged
<1> QED
  BY <1>2, <1>3

-----------------------------------------------------------------------------
(* Sidecars *)

(* What is left of a list are the items at the free positions, each once.  *)
LEMMA WithoutIs ==
  ASSUME NilIsNoFunction, NEW l, IsList(l), NEW names
  PROVE  LET w == Without(l, names)
             free == {i \in DOMAIN Items(l) : Items(l)[i].name \notin names}
         IN  /\ IsList(w) /\ Items(w) = w
             /\ \E pos \in Bijection(DOMAIN w, free) : \A i \in DOMAIN w : w[i] = Items(l)[pos[i]]
<1> DEFINE w == Without(l, names)
           free == {i \in DOMAIN Items(l) : Items(l)[i].name \notin names}
           n == Cardinality(free)
           pos == [i \in 1 .. n |-> CHOOSE k \in free : Rank(free, k) = i]
<1>1. DOMAIN Items(l) = 1 .. Len(Items(l)) /\ Len(Items(l)) \in Nat
  BY ListIs
<1>2. IsFiniteSet(free) /\ free \in SUBSET Nat
  <2>1. free \in SUBSET (1 .. Len(Items(l))) /\ \A i \in 1 .. Len(Items(l)) : i \in Nat
    BY <1>1
  <2>2. IsFiniteSet(1 .. Len(Items(l)))
    BY <1>1, FS_Interval
  <2> QED
    BY <2>1, <2>2, FS_Subset
<1>3. w = [i \in 1 .. n |-> Items(l)[pos[i]]]
  BY DEF Without, Rank
<1> HIDE DEF free
<1>4. /\ n \in Nat
      /\ \A k, j \in free : k < j => Rank(free, k) < Rank(free, j)
      /\ \A k \in free : Rank(free, k) \in 1 .. n
      /\ \A i \in 1 .. n : \E k \in free : Rank(free, k) = i
  BY <1>2, CountedOff
<1>5. \A i \in 1 .. n : pos[i] \in free /\ Rank(free, pos[i]) = i
  BY <1>4
<1>6. ASSUME NEW k \in free, NEW j \in free, Rank(free, k) = Rank(free, j)
      PROVE  k = j
  <2>1. k \in Nat /\ j \in Nat
    BY <1>2
  <2>2. Rank(free, k) \in Nat
    BY <1>4
  <2> QED
    BY <1>4, <1>6, <2>1, <2>2
<1>7. pos = [i \in 1 .. n |-> pos[i]]
  OBVIOUS
<1> HIDE DEF pos
<1>8. pos \in Bijection(1 .. n, free)
  <2>1. pos \in [1 .. n -> free]
    BY <1>5, <1>7
  <2>2. \A i, j \in 1 .. n : pos[i] = pos[j] => i = j
    BY <1>5
  <2>3. ASSUME NEW k \in free
        PROVE  \E i \in 1 .. n : pos[i] = k
    BY <1>4, <1>5, <1>6
  <2> QED
    BY <2>1, <2>2, <2>3 DEF Bijection, Injection, Surjection, IsInjective
<1> HIDE DEF w, n
<1>9. w = [i \in 1 .. n |-> w[i]] /\ \A i \in 1 .. n : w[i] = Items(l)[pos[i]]
  BY <1>3
<1>10. IsList(w) /\ Items(w) = w /\ DOMAIN w = 1 .. n
  BY <1>4, <1>9, FunctionIsList
<1> QED
  BY <1>8, <1>9, <1>10 DEF w, free

(* mergeSidecarPtr merges by name: the override's items and the others of  *)
(* the template.                                                           *)
LEMMA MergeSidecarsIs ==
  ASSUME NilIsNoFunction, NEW t, NEW v, IsList(t), IsList(v)
  PROVE  LET ms == Items(v) \o Without(t, NamesIn(v))
         IN  /\ IsList(ms) /\ Items(ms) = ms
             /\ Elements(ms) = Elements(v) \cup {x \in Elements(t) : x.name \notin NamesIn(v)}
             /\ ByName(t, v, ms)
<1> DEFINE s == Items(v)
           w == Without(t, NamesIn(v))
           ms == s \o w
           free == {i \in DOMAIN Items(t) : Items(t)[i].name \notin NamesIn(v)}
<1>1. PICK pos \in Bijection(DOMAIN w, free) :
        IsList(w) /\ Items(w) = w /\ \A i \in DOMAIN w : w[i] = Items(t)[pos[i]]
  BY WithoutIs
<1>2. /\ DOMAIN s = 1 .. Len(s) /\ Len(s) \in Nat
      /\ Elements(v) = {s[i] : i \in DOMAIN s} /\ NamesIn(v) = {s[i].name : i \in DOMAIN s}
      /\ Elements(t) = {Items(t)[i] : i \in DOMAIN Items(t)}
      /\ NamesIn(t) = {Items(t)[i].name : i \in DOMAIN Items(t)}
      /\ DOMAIN Items(t) = 1 .. Len(Items(t)) /\ Len(Items(t)) \in Nat
  BY ListIs
<1> HIDE DEF w
<1>3. DOMAIN w = 1 .. Len(w) /\ Len(w) \in Nat /\ Elements(w) = {w[i] : i \in DOMAIN w}
  <2>1. IsList(w) /\ Items(w) = w
    BY <1>1
  <2> QED
    BY <2>1, ListIs
<1>4. /\ IsList(ms) /\ Items(ms) = ms
      /\ DOMAIN ms = 1 .. Len(ms) /\ Len(ms) = Len(s) + Len(w)
      /\ \A i \in DOMAIN s : i \in DOMAIN ms /\ ms[i] = s[i]
      /\ \A i \in DOMAIN w : Len(s) + i \in DOMAIN ms /\ ms[Len(s) + i] = w[i]
      /\ \A i \in DOMAIN ms : i \in DOMAIN s \/ i - Len(s) \in DOMAIN w
      /\ Elements(ms) = Elements(v) \cup Elements(w)
  <2> DEFINE j == Items(v) \o Items(w)
  <2>1. IsList(w)
    BY <1>1
  <2>2. /\ IsList(j) /\ Items(j) = j
        /\ DOMAIN j = 1 .. Len(j) /\ Len(j) = Len(Items(v)) + Len(Items(w))
        /\ \A i \in DOMAIN Items(v) : i \in DOMAIN j /\ j[i] = Items(v)[i]
        /\ \A i \in DOMAIN Items(w) :
             Len(Items(v)) + i \in DOMAIN j /\ j[Len(Items(v)) + i] = Items(w)[i]
        /\ \A i \in DOMAIN j : i \in DOMAIN Items(v) \/ i - Len(Items(v)) \in DOMAIN Items(w)
    BY <2>1, JoinedIs
  <2>3. Elements(j) = Elements(v) \cup Elements(w)
    BY <2>1, LastOfJoined
  <2>4. Items(w) = w /\ ms = j
    BY <1>1
  <2> HIDE DEF j, ms
  <2> QED
    BY <2>2, <2>3, <2>4
<1>5. /\ \A i \in DOMAIN w : pos[i] \in free
      /\ \A i, j \in DOMAIN w : pos[i] = pos[j] => i = j
      /\ \A k \in free : \E i \in DOMAIN w : pos[i] = k
  BY <1>1 DEF Bijection, Injection, Surjection, IsInjective
<1>6. Elements(ms) = Elements(v) \cup {x \in Elements(t) : x.name \notin NamesIn(v)}
  <2>1. ASSUME NEW x \in Elements(w)
        PROVE  x \in Elements(t) /\ x.name \notin NamesIn(v)
    BY <1>1, <1>2, <1>3, <1>5
  <2>2. ASSUME NEW x \in Elements(t), x.name \notin NamesIn(v)
        PROVE  x \in Elements(w)
    <3>1. PICK k \in DOMAIN Items(t) : x = Items(t)[k]
      BY <1>2
    <3> QED
      BY <1>1, <1>3, <1>5, <2>2, <3>1
  <2> QED
    BY <1>4, <2>1, <2>2
<1>7. NamesIn(ms) = NamesIn(t) \cup NamesIn(v)
  BY <1>6 DEF NamesIn
<1> HIDE DEF s, ms
<1>8. ASSUME NEW i \in DOMAIN ms
      PROVE  \/ i \in DOMAIN s /\ ms[i] = s[i] /\ s[i].name \in NamesIn(v)
             \/ /\ i - Len(s) \in DOMAIN w /\ i \notin DOMAIN s
                /\ ms[i] = w[i - Len(s)] /\ ms[i].name \notin NamesIn(v)
  <2>1. CASE i \in DOMAIN s
    BY <1>2, <1>4, <2>1
  <2>2. CASE i - Len(s) \in DOMAIN w
    <3>1. i = Len(s) + (i - Len(s)) /\ i \notin DOMAIN s
      BY <1>2, <1>3, <1>4, <2>2
    <3>2. ms[i] = w[i - Len(s)]
      BY <1>4, <2>2, <3>1
    <3>3. w[i - Len(s)] = Items(t)[pos[i - Len(s)]] /\ pos[i - Len(s)] \in free
      BY <1>1, <1>5, <2>2
    <3> QED
      BY <2>2, <3>1, <3>2, <3>3
  <2> QED
    BY <1>4, <2>1, <2>2
<1>9. ASSUME NEW n \in NamesIn(v)
      PROVE  Called(ms, n) = Called(v, n)
  <2>1. ASSUME NEW i \in Called(ms, n)
        PROVE  i \in Called(v, n)
    BY <1>4, <1>8, <1>9 DEF Called, s
  <2>2. ASSUME NEW i \in Called(v, n)
        PROVE  i \in Called(ms, n)
    BY <1>4 DEF Called, s
  <2> QED
    BY <2>1, <2>2
<1>10. ASSUME NEW n, n \notin NamesIn(v)
       PROVE  Cardinality(Called(ms, n)) = Cardinality(Called(t, n))
  <2> DEFINE f == [i \in Called(ms, n) |-> pos[i - Len(s)]]
  <2>1. ASSUME NEW i \in Called(ms, n)
        PROVE  i - Len(s) \in DOMAIN w /\ pos[i - Len(s)] \in Called(t, n) /\ i \in Nat
    <3>1. i \in DOMAIN ms /\ ms[i].name = n
      BY <1>4 DEF Called
    <3>2. i - Len(s) \in DOMAIN w /\ ms[i] = w[i - Len(s)]
      BY <1>8, <1>10, <3>1
    <3>3. w[i - Len(s)] = Items(t)[pos[i - Len(s)]] /\ pos[i - Len(s)] \in free
      BY <1>1, <1>5, <3>2
    <3>4. i \in Nat
      BY <1>4, <3>1
    <3> QED
      BY <3>1, <3>2, <3>3, <3>4 DEF Called
  <2>2. f \in [Called(ms, n) -> Called(t, n)]
    BY <2>1
  <2>3. ASSUME NEW i \in Called(ms, n), NEW j \in Called(ms, n), f[i] = f[j]
        PROVE  i = j
    <3>1. i - Len(s) = j - Len(s)
      BY <1>5, <2>1, <2>3
    <3> QED
      BY <1>2, <2>1, <3>1
  <2>4. ASSUME NEW k \in Called(t, n)
        PROVE  \E i \in Called(ms, n) : f[i] = k
    <3>1. k \in free
      BY <1>10 DEF Called
    <3>2. PICK i \in DOMAIN w : pos[i] = k
      BY <1>5, <3>1
    <3>3. Len(s) + i \in DOMAIN ms /\ ms[Len(s) + i] = Items(t)[k]
      BY <1>1, <1>4, <3>2
    <3>4. Len(s) + i \in Called(ms, n)
      BY <1>4, <3>3 DEF Called
    <3>5. (Len(s) + i) - Len(s) = i
      BY <1>2, <1>3
    <3> QED
      BY <3>2, <3>4, <3>5
  <2>5. f \in Bijection(Called(ms, n), Called(t, n))
    BY <2>2, <2>3, <2>4 DEF Bijection, Injection, Surjection, IsInjective
  <2>6. IsFiniteSet(Called(ms, n))
    <3>1. IsFiniteSet(1 .. Len(ms))
      BY <1>2, <1>3, <1>4, FS_Interval
    <3>2. Called(ms, n) \in SUBSET (1 .. Len(ms))
      BY <1>4 DEF Called
    <3> QED
      BY <3>1, <3>2, FS_Subset
  <2> HIDE DEF f
  <2> QED
    BY <2>5, <2>6, FS_Bijection DEF ExistsBijection
<1>11. ASSUME NEW n \in NamesIn(ms)
       PROVE  Images(ms, n) = Images(IF n \in NamesIn(v) THEN v ELSE t, n)
  <2>1. CASE n \in NamesIn(v)
    <3>1. {x \in Elements(ms) : x.name = n} = {x \in Elements(v) : x.name = n}
      BY <1>6, <2>1
    <3> QED
      BY <2>1, <3>1 DEF Images
  <2>2. CASE n \notin NamesIn(v)
    <3>1. \A x \in Elements(v) : x.name \in NamesIn(v)
      BY DEF NamesIn
    <3>2. {x \in Elements(ms) : x.name = n} = {x \in Elements(t) : x.name = n}
      BY <1>6, <2>2, <3>1
    <3> QED
      BY <2>2, <3>2 DEF Images
  <2> QED
    BY <2>1, <2>2
<1>12. ByName(t, v, ms)
  BY <1>7, <1>9, <1>10, <1>11 DEF ByName
<1> QED
  BY <1>4, <1>6, <1>12 DEF ms, s, w

(* In two lists in a row an item is as often as in both together: its      *)
(* positions are those in the first and, shifted, those in the second.     *)
LEMMA OccursInJoined ==
  ASSUME NilIsNoFunction, NEW l, NEW m, IsList(l), IsList(m), NEW x
  PROVE  /\ Occurs(l, x) \in Nat /\ Occurs(m, x) \in Nat
         /\ Occurs(Items(l) \o Items(m), x) = Occurs(l, x) + Occurs(m, x)
<1> DEFINE s == Items(l)
           t == Items(m)
           both == s \o t
           P == {i \in DOMAIN s : s[i] = x}
           Q == {i \in DOMAIN t : t[i] = x}
           R == {i \in DOMAIN both : both[i] = x}
           shifted == {Len(s) + i : i \in Q}
           f == [i \in Q |-> Len(s) + i]
<1>1. /\ IsList(both) /\ Items(both) = both /\ DOMAIN both = 1 .. Len(both)
      /\ Len(both) = Len(s) + Len(t)
      /\ \A i \in DOMAIN s : i \in DOMAIN both /\ both[i] = s[i]
      /\ \A i \in DOMAIN t : Len(s) + i \in DOMAIN both /\ both[Len(s) + i] = t[i]
      /\ \A i \in DOMAIN both : i \in DOMAIN s \/ i - Len(s) \in DOMAIN t
  BY JoinedIs
<1>2. /\ Len(s) \in Nat /\ DOMAIN s = 1 .. Len(s)
      /\ Len(t) \in Nat /\ DOMAIN t = 1 .. Len(t)
  BY ListIs
<1>3. Occurs(l, x) = Cardinality(P) /\ Occurs(m, x) = Cardinality(Q)
  BY DEF Occurs
<1>4. Occurs(both, x) = Cardinality(R)
  BY <1>1 DEF Occurs
<1> HIDE DEF s, t, both
<1>5. /\ IsFiniteSet(P) /\ P \in SUBSET (1 .. Len(s))
      /\ IsFiniteSet(Q) /\ Q \in SUBSET (1 .. Len(t))
  <2>1. IsFiniteSet(1 .. Len(s)) /\ IsFiniteSet(1 .. Len(t))
    BY <1>2, FS_Interval
  <2>2. P \in SUBSET (1 .. Len(s)) /\ Q \in SUBSET (1 .. Len(t))
    BY <1>2
  <2> HIDE DEF P, Q
  <2> QED
    BY <2>1, <2>2, FS_Subset
<1>6. R = P \cup shifted
  <2>1. ASSUME NEW i \in R
        PROVE  i \in P \cup shifted
    <3>1. CASE i \in DOMAIN s
      BY <1>1, <3>1
    <3>2. CASE i - Len(s) \in DOMAIN t
      <4>1. i = Len(s) + (i - Len(s))
        BY <1>1, <1>2
      <4>2. t[i - Len(s)] = x
        BY <1>1, <3>2, <4>1
      <4> QED
        BY <3>2, <4>1, <4>2
    <3> QED
      BY <1>1, <3>1, <3>2
  <2>2. ASSUME NEW i \in P \cup shifted
        PROVE  i \in R
    BY <1>1
  <2> QED
    BY <2>1, <2>2
<1>7. P \cap shifted = {}
  BY <1>2
<1>8. IsFiniteSet(shifted) /\ Cardinality(shifted) = Cardinality(Q)
  <2>1. f \in [Q -> shifted] /\ \A k \in shifted : \E i \in Q : f[i] = k
    OBVIOUS
  <2>2. ASSUME NEW i \in Q, NEW j \in Q, f[i] = f[j]
        PROVE  i = j
    <3>1. Len(s) + i = Len(s) + j /\ i \in Nat /\ j \in Nat
      BY <1>2, <2>2
    <3> QED
      BY <1>2, <3>1
  <2> HIDE DEF f, shifted, Q
  <2>3. f \in Bijection(Q, shifted)
    BY <2>1, <2>2 DEF Bijection, Injection, Surjection, IsInjective
  <2> QED
    BY <1>5, <2>3, FS_Bijection DEF ExistsBijection
<1> HIDE DEF P, Q, R, shifted, f
<1>9. Cardinality(P) \in Nat /\ Cardinality(Q) \in Nat
  BY <1>5, FS_CardinalityType
<1>10. Cardinality(P \cup shifted) = Cardinality(P) + Cardinality(shifted) - Cardinality(P \cap shifted)
  BY <1>5, <1>8, FS_Union
<1>11. Cardinality(P \cap shifted) = 0
  BY <1>7, FS_EmptySet
<1> QED
  BY <1>3, <1>4, <1>6, <1>8, <1>9, <1>10, <1>11 DEF both, s, t

(* Lists that are joined hold the items of both, each as often as both do. *)
LEMMA JoinIs ==
  ASSUME NilIsNoFunction, NEW l, NEW m, IsList(l), IsList(m)
  PROVE  /\ IsList(Join(l, m)) /\ Elements(Join(l, m)) = Elements(l) \cup Elements(m)
         /\ \A x : /\ Occurs(l, x) \in Nat /\ Occurs(m, x) \in Nat
                   /\ Occurs(Join(l, m), x) = Occurs(l, x) + Occurs(m, x)
<1> DEFINE both == Items(l) \o Items(m)
<1>1. IsList(both) /\ Elements(both) = Elements(l) \cup Elements(m)
  BY JoinedIs, LastOfJoined
<1>2. Join(l, m) = IF both = <<>> THEN Nil ELSE both
  BY DEF Join
<1>3. Items(<<>>) = Items(Nil) /\ Elements(<<>>) = {}
  BY DEF Elements, Items, ToSet
<1>4. ASSUME NEW x
      PROVE  /\ Occurs(l, x) \in Nat /\ Occurs(m, x) \in Nat
             /\ Occurs(both, x) = Occurs(l, x) + Occurs(m, x)
             /\ Occurs(<<>>, x) = Occurs(Nil, x)
  <2>1. /\ Occurs(l, x) \in Nat /\ Occurs(m, x) \in Nat
        /\ Occurs(both, x) = Occurs(l, x) + Occurs(m, x)
    BY OccursInJoined
  <2>2. Occurs(<<>>, x) = Occurs(Nil, x)
    BY <1>3 DEF Occurs
  <2> QED
    BY <2>1, <2>2
<1> HIDE DEF both
<1> QED
  BY <1>1, <1>2, <1>3, <1>4, NothingInNil

(* And so one list is the two others.                                      *)
LEMMA JoinIsBoth ==
  ASSUME NilIsNoFunction, NEW l, NEW m, IsList(l), IsList(m)
  PROVE  Both(Join(l, m), l, m) /\ Both(Join(l, m), m, l)
BY JoinIs DEF Both

(* A list and nothing are that list.                                       *)
LEMMA BothWithNil ==
  ASSUME NilIsNoFunction, NEW l, IsList(l)
  PROVE  Both(l, Nil, l)
<1>1. ASSUME NEW x
      PROVE  Occurs(l, x) \in Nat /\ Occurs(Nil, x) = 0
  <2>1. Occurs(l, x) \in Nat
    BY JoinIs
  <2>2. {i \in DOMAIN Items(Nil) : Items(Nil)[i] = x} = {}
    BY DEF Items
  <2> QED
    BY <2>1, <2>2, FS_EmptySet DEF Occurs
<1> QED
  BY <1>1 DEF Both

(* Sidecar.mergeWithTemplate keeps a sidecar's name and image and completes *)
(* the rest.                                                               *)
LEMMA WithTemplateIs ==
  ASSUME NilIsNoFunction, NEW s, NEW t, IsSidecar(s), IsSidecar(t), NEW c \in WithTemplate(s, t)
  PROVE  /\ IsSidecar(c) /\ c.name = s.name /\ c.image = s.image
         /\ c.command = Inherit(t.command, s.command)
         /\ c.resources = Inherit(t.resources, s.resources)
         /\ c.pull = s.pull /\ c.workingDir = t.workingDir
         /\ EnvMerged(t.env, s.env, c.env)
         /\ Both(c.ports, t.ports, s.ports) /\ Both(c.mounts, t.mounts, s.mounts)
<1>1. PICK env \in MergeEnv(t.env, s.env) :
        c = [s EXCEPT !.command    = Inherit(t.command, @),
                      !.workingDir = t.workingDir,
                      !.env        = env,
                      !.ports      = Join(t.ports, @),
                      !.mounts     = Join(t.mounts, @),
                      !.resources  = Inherit(t.resources, @)]
  BY DEF WithTemplate
<1>2. IsEnv(env) /\ EnvMerged(t.env, s.env, env)
  BY MergeEnvIs DEF IsSidecar
<1>3. /\ IsList(Join(t.ports, s.ports)) /\ IsList(Join(t.mounts, s.mounts))
      /\ Both(Join(t.ports, s.ports), t.ports, s.ports)
      /\ Both(Join(t.mounts, s.mounts), t.mounts, s.mounts)
  BY JoinIs, JoinIsBoth DEF IsSidecar
<1>4. s = [name |-> s.name, image |-> s.image, command |-> s.command, workingDir |-> s.workingDir,
           env |-> s.env, ports |-> s.ports, mounts |-> s.mounts, pull |-> s.pull,
           resources |-> s.resources]
  BY DEF IsSidecar
<1>5. c = [name |-> s.name, image |-> s.image, command |-> Inherit(t.command, s.command),
           workingDir |-> t.workingDir, env |-> env, ports |-> Join(t.ports, s.ports),
           mounts |-> Join(t.mounts, s.mounts), pull |-> s.pull,
           resources |-> Inherit(t.resources, s.resources)]
  BY <1>1, <1>4
<1> QED
  BY <1>2, <1>3, <1>5 DEF IsSidecar

(* Where a sidecar of the merged list is from: one that both sides name    *)
(* was the version's and has been completed.                               *)
SidecarFrom(c, ts, vs) ==
  IF c.name \in NamesIn(ts) \cap NamesIn(vs)
    THEN \E x \in Elements(vs) : x.name = c.name /\ c \in WithTemplate(x, Named(ts, c.name))
    ELSE c \in Elements(ts) \cup Elements(vs)

(* The merged and completed list.                                          *)
LEMMA CompletedIs ==
  ASSUME NilIsNoFunction, NEW t, NEW v, AreSidecars(t), AreSidecars(v),
         NEW l \in Completed(MergeSidecars(t, v), v, t)
  PROVE  /\ AreSidecars(l) /\ ByName(t, v, l)
         /\ \A c \in Elements(l) : SidecarFrom(c, t, v)
<1> DEFINE ms == Items(v) \o Without(t, NamesIn(v))
<1>1. /\ IsList(t) /\ IsList(v)
      /\ \A x \in Elements(t) \cup Elements(v) : IsSidecar(x)
  BY DEF AreSidecars
<1>2. /\ IsList(ms) /\ Items(ms) = ms /\ ByName(t, v, ms)
      /\ Elements(ms) = Elements(v) \cup {x \in Elements(t) : x.name \notin NamesIn(v)}
  BY <1>1, MergeSidecarsIs
<1>3. MergeSidecars(t, v) = IF t = Nil /\ v = Nil THEN Nil ELSE ms
  BY DEF MergeSidecars
<1> HIDE DEF ms
<1>4. CASE t = Nil /\ v = Nil
  <2>1. l = Nil
    BY <1>3, <1>4 DEF Completed
  <2>2. ByName(Nil, Nil, Nil)
    BY NothingInNil DEF ByName
  <2> QED
    BY <1>4, <2>1, <2>2, NothingInNil DEF AreSidecars
<1>5. CASE ~(t = Nil /\ v = Nil) /\ (v = Nil \/ t = Nil)
  <2>1. l = ms
    BY <1>3, <1>5 DEF Completed
  <2>2. NamesIn(t) \cap NamesIn(v) = {}
    BY <1>5, NothingInNil
  <2> QED
    BY <1>1, <1>2, <2>1, <2>2 DEF AreSidecars, SidecarFrom
<1>6. CASE v # Nil /\ t # Nil
  <2> DEFINE shared == NamesIn(v) \cap NamesIn(t)
             become(s) == IF s.name \in shared THEN WithTemplate(s, Named(t, s.name)) ELSE {s}
  <2>1. /\ l = [i \in DOMAIN ms |-> l[i]]
        /\ \A i \in DOMAIN ms : l[i] \in become(ms[i])
    BY <1>3, <1>6 DEF Completed
  <2>2. /\ DOMAIN ms = 1 .. Len(ms) /\ Len(ms) \in Nat
        /\ Elements(ms) = {ms[i] : i \in DOMAIN ms}
        /\ NamesIn(ms) = {ms[i].name : i \in DOMAIN ms}
    BY <1>2, ListIs
  <2>3. IsList(l) /\ Items(l) = l /\ DOMAIN l = DOMAIN ms
    BY <2>1, <2>2, FunctionIsList
  <2>4. Elements(l) = {l[i] : i \in DOMAIN l} /\ NamesIn(l) = {l[i].name : i \in DOMAIN l}
    BY <2>3, ListIs
  <2>5. ASSUME NEW i \in DOMAIN l
        PROVE  /\ IsSidecar(l[i]) /\ l[i].name = ms[i].name /\ l[i].image = ms[i].image
               /\ SidecarFrom(l[i], t, v)
    <3>1. ms[i] \in Elements(ms) /\ IsSidecar(ms[i]) /\ l[i] \in become(ms[i])
      BY <1>1, <1>2, <2>1, <2>2, <2>3
    <3>2. CASE ms[i].name \in shared
      <4>1. IsSidecar(Named(t, ms[i].name))
        <5>1. PICK k \in DOMAIN t : Named(t, ms[i].name) = t[k]
          BY <1>1, <3>2, NamedIs
        <5>2. t[k] \in Elements(t)
          BY <1>6, <5>1 DEF Elements, Items, ToSet
        <5> QED
          BY <1>1, <5>1, <5>2
      <4>2. l[i] \in WithTemplate(ms[i], Named(t, ms[i].name))
        BY <3>1, <3>2
      <4>3. IsSidecar(l[i]) /\ l[i].name = ms[i].name /\ l[i].image = ms[i].image
        BY <3>1, <4>1, <4>2, WithTemplateIs
      <4>4. ms[i] \in Elements(v)
        BY <1>2, <3>1, <3>2
      <4> QED
        BY <3>2, <4>2, <4>3, <4>4 DEF SidecarFrom
    <3>3. CASE ms[i].name \notin shared
      <4>1. l[i] = ms[i]
        BY <3>1, <3>3
      <4> QED
        BY <1>2, <3>1, <3>3, <4>1 DEF SidecarFrom
    <3> QED
      BY <3>2, <3>3
  <2>6. AreSidecars(l) /\ \A c \in Elements(l) : SidecarFrom(c, t, v)
    BY <2>3, <2>4, <2>5 DEF AreSidecars
  <2>7. NamesIn(l) = NamesIn(ms)
    BY <2>2, <2>3, <2>4, <2>5
  <2>8. ASSUME NEW n
        PROVE  Called(l, n) = Called(ms, n)
    BY <1>2, <2>3, <2>5 DEF Called
  <2>9. ASSUME NEW n
        PROVE  Images(l, n) = Images(ms, n)
    <3>1. ASSUME NEW c \in Elements(l), c.name = n
          PROVE  \E x \in Elements(ms) : x.name = n /\ x.image = c.image
      BY <2>2, <2>3, <2>4, <2>5, <3>1
    <3>2. ASSUME NEW x \in Elements(ms), x.name = n
          PROVE  \E c \in Elements(l) : c.name = n /\ c.image = x.image
      BY <2>2, <2>3, <2>4, <2>5, <3>2
    <3>3. ASSUME NEW y
          PROVE  y \in Images(l, n) <=> y \in Images(ms, n)
      BY <3>1, <3>2 DEF Images
    <3> QED
      BY <3>3 DEF Images
  <2>10. ByName(t, v, l)
    BY <1>2, <2>7, <2>8, <2>9 DEF ByName
  <2> QED
    BY <2>6, <2>10
<1> QED
  BY <1>4, <1>5, <1>6

-----------------------------------------------------------------------------
(* What the store keeps *)

(* Maps are merged key by key, and the override's keys win.                *)
LEMMA MergeMapIs ==
  ASSUME NilIsNoFunction, NEW t, NEW v, IsMap(t), IsMap(v)
  PROVE  IsMap(MergeMap(t, v)) /\ Items(MergeMap(t, v)) = Overriding(Items(v), Items(t))
<1> DEFINE keys == DOMAIN Items(t) \cup DOMAIN Items(v)
           m == [k \in keys |-> IF k \in DOMAIN Items(v) THEN Items(v)[k] ELSE Items(t)[k]]
<1>1. Overriding(Items(v), Items(t)) = m
  BY DEF Overriding
<1>2. IsFiniteSet(keys)
  <2>1. \A x : IsMap(x) => IsFiniteSet(DOMAIN Items(x))
    <3>1. DOMAIN Items(Nil) = {}
      BY DEF Items
    <3> QED
      BY <3>1, FS_EmptySet DEF IsMap, Items
  <2> QED
    BY <2>1, FS_Union
<1>3. m = [k \in DOMAIN m |-> m[k]] /\ DOMAIN m = keys
  OBVIOUS
<1>4. m # Nil
  <2> HIDE DEF m
  <2> QED
    BY <1>3 DEF NilIsNoFunction
<1>5. CASE t = Nil /\ v = Nil
  <2>1. MergeMap(t, v) = Nil
    BY <1>5 DEF MergeMap
  <2>2. Items(Nil) = <<>> /\ IsMap(Nil)
    BY DEF Items, IsMap
  <2>3. Overriding(<<>>, <<>>) = <<>>
    BY DEF Overriding
  <2> QED
    BY <1>5, <2>1, <2>2, <2>3
<1>6. CASE ~(t = Nil /\ v = Nil)
  <2>1. MergeMap(t, v) = m
    <3>1. MergeMap(t, v) =
            [k \in keys |-> IF k \in DOMAIN Items(v) THEN v[k] ELSE t[k]]
      BY <1>6 DEF MergeMap, Items
    <3>2. /\ \A k \in DOMAIN Items(v) : Items(v)[k] = v[k]
          /\ \A k \in DOMAIN Items(t) : Items(t)[k] = t[k]
      BY DEF Items
    <3> QED
      BY <3>1, <3>2
  <2> HIDE DEF m
  <2>2. Items(m) = m
    BY <1>4 DEF Items
  <2>3. IsMap(m)
    BY <1>2, <1>3 DEF IsMap
  <2> QED
    BY <1>1, <2>1, <2>2, <2>3
<1> QED
  BY <1>5, <1>6

IsRecord(c) ==
  c = [labels |-> c.labels, annotations |-> c.annotations, env |-> c.env,
       resources |-> c.resources, workingDir |-> c.workingDir, pull |-> c.pull,
       volumes |-> c.volumes, mounts |-> c.mounts, sidecars |-> c.sidecars, inits |-> c.inits]

(* A configuration m that says all that the version v and the template t   *)
(* say, and says the version's where they differ.                          *)
Merged(t, v, m) ==
  /\ IsRecord(m)
  /\ IsMap(m.labels) /\ Items(m.labels) = Overriding(Items(v.labels), Items(t.labels))
  /\ IsMap(m.annotations)
  /\ Items(m.annotations) = Overriding(Items(v.annotations), Items(t.annotations))
  /\ IsEnv(m.env) /\ Environment(m.env) = Overriding(Environment(v.env), Environment(t.env))
  /\ m.resources = Inherit(t.resources, v.resources) /\ m.pull = Inherit(t.pull, v.pull)
  /\ m.workingDir = Inherit(t.workingDir, v.workingDir)
  /\ Both(m.volumes, t.volumes, v.volumes) /\ Both(m.mounts, t.mounts, v.mounts)
  /\ AreSidecars(m.sidecars) /\ ByName(t.sidecars, v.sidecars, m.sidecars)
  /\ \A c \in Elements(m.sidecars) : SidecarFrom(c, t.sidecars, v.sidecars)

(* With a template, mergeWithSpec makes such a configuration,              *)
LEMMA MergeWithSpecIs ==
  ASSUME NilIsNoFunction, NEW t, NEW v, IsConfig(t), IsConfig(v), NEW m \in MergeWithSpec(v, t)
  PROVE  Merged(t, v, m) /\ EnvMerged(t.env, v.env, m.env)
<1>1. PICK env \in MergeEnv(t.env, v.env),
           sidecars \in Completed(MergeSidecars(t.sidecars, v.sidecars), v.sidecars, t.sidecars),
           inits \in Completed(MergeSidecars(v.inits, t.inits), v.inits, t.inits) :
        m = Filled(v, t, env, sidecars, inits)
  BY DEF MergeWithSpec
<1>2. m = [labels |-> MergeMap(t.labels, v.labels),
           annotations |-> MergeMap(t.annotations, v.annotations), env |-> env,
           resources |-> Inherit(t.resources, v.resources),
           workingDir |-> Inherit(t.workingDir, v.workingDir), pull |-> Inherit(t.pull, v.pull),
           volumes |-> Join(t.volumes, v.volumes), mounts |-> Join(v.mounts, t.mounts),
           sidecars |-> sidecars, inits |-> inits]
  BY <1>1 DEF IsConfig, Filled
<1>3. /\ IsMap(MergeMap(t.labels, v.labels)) /\ IsMap(MergeMap(t.annotations, v.annotations))
      /\ Items(MergeMap(t.labels, v.labels)) = Overriding(Items(v.labels), Items(t.labels))
      /\ Items(MergeMap(t.annotations, v.annotations))
           = Overriding(Items(v.annotations), Items(t.annotations))
  BY MergeMapIs DEF IsConfig
<1>4. IsEnv(env) /\ EnvMerged(t.env, v.env, env)
  BY MergeEnvIs DEF IsConfig
<1>5. /\ Both(Join(t.volumes, v.volumes), t.volumes, v.volumes)
      /\ Both(Join(v.mounts, t.mounts), t.mounts, v.mounts)
  BY JoinIsBoth DEF IsConfig
<1>6. /\ AreSidecars(sidecars) /\ ByName(t.sidecars, v.sidecars, sidecars)
      /\ \A c \in Elements(sidecars) : SidecarFrom(c, t.sidecars, v.sidecars)
  BY CompletedIs DEF IsConfig
<1> QED
  BY <1>2, <1>3, <1>4, <1>5, <1>6 DEF Merged, IsRecord, EnvMerged

Template(s) == IF s = Nil THEN Bare ELSE s

(* and without one the version is such a configuration itself.             *)
LEMMA MergeWithTemplateIs ==
  ASSUME NilIsNoFunction, NEW s, NEW v, s = Nil \/ IsConfig(s), IsConfig(v), v # Nil,
         NEW m \in MergeWithTemplate(v, s)
  PROVE  /\ Merged(Template(s), v, m)
         /\ s # Nil => EnvMerged(s.env, v.env, m.env)
<1>1. CASE s # Nil
  BY <1>1, MergeWithSpecIs DEF MergeWithTemplate, Template
<1>2. CASE s = Nil
  <2>1. m = v /\ Template(s) = Bare
    BY <1>2 DEF MergeWithTemplate, Template
  <2>2. /\ Bare.labels = Nil /\ Bare.annotations = Nil /\ Bare.env = Nil /\ Bare.resources = Nil
        /\ Bare.pull = Nil /\ Bare.workingDir = Nil /\ Bare.volumes = Nil /\ Bare.mounts = Nil
        /\ Bare.sidecars = Nil
    BY DEF Bare
  <2>3. ASSUME NEW x, IsMap(x)
        PROVE  Items(x) = Overriding(Items(x), Items(Nil))
    <3>1. Items(x) = [k \in DOMAIN Items(x) |-> Items(x)[k]] /\ DOMAIN Items(Nil) = {}
      BY <2>3 DEF IsMap, Items
    <3> DEFINE y == Items(x)
    <3> HIDE DEF y
    <3>2. y = [k \in DOMAIN y |-> y[k]] => y = Overriding(y, Items(Nil))
      BY <3>1 DEF Overriding
    <3> QED
      BY <3>1, <3>2 DEF y
  <2>4. ASSUME NEW x, IsList(x)
        PROVE  Environment(x) = Overriding(Environment(x), Environment(Nil))
    <3>1. Environment(x) = [k \in DOMAIN Environment(x) |-> Environment(x)[k]]
      BY <2>4, EnvironmentIs
    <3> QED
      BY <3>1, NothingInNil DEF Overriding
  <2>5. ASSUME NEW x
        PROVE  Inherit(Nil, x) = x
    BY DEF Inherit
  <2>6. ByName(Nil, v.sidecars, v.sidecars)
    BY NothingInNil DEF ByName
  <2>7. \A c \in Elements(v.sidecars) : SidecarFrom(c, Nil, v.sidecars)
    BY NothingInNil DEF SidecarFrom
  <2>8. /\ Items(v.labels) = Overriding(Items(v.labels), Items(Nil))
        /\ Items(v.annotations) = Overriding(Items(v.annotations), Items(Nil))
        /\ Environment(v.env) = Overriding(Environment(v.env), Environment(Nil))
    BY <2>3, <2>4 DEF IsConfig, IsEnv
  <2>9. Both(v.volumes, Nil, v.volumes) /\ Both(v.mounts, Nil, v.mounts)
    BY BothWithNil DEF IsConfig
  <2>10. /\ IsRecord(v) /\ IsMap(v.labels) /\ IsMap(v.annotations) /\ IsEnv(v.env)
         /\ AreSidecars(v.sidecars)
    BY DEF IsConfig, IsRecord
  <2> QED
    BY <1>2, <2>1, <2>2, <2>5, <2>6, <2>7, <2>8, <2>9, <2>10 DEF Merged
<1> QED
  BY <1>1, <1>2

-----------------------------------------------------------------------------
(* Pods *)

(* What a field holds is a list itself.                                    *)
LEMMA ItemsAreAList ==
  ASSUME NilIsNoFunction, NEW l, IsList(l)
  PROVE  /\ IsList(Items(l)) /\ Items(Items(l)) = Items(l)
         /\ NamesIn(Items(l)) = NamesIn(l) /\ Elements(Items(l)) = Elements(l)
         /\ Environment(Items(l)) = Environment(l)
<1> DEFINE s == Items(l)
<1>1. s \in Seq(Elements(l)) /\ Len(s) \in Nat /\ DOMAIN s = 1 .. Len(s)
  BY ListIs
<1>2. s = [i \in 1 .. Len(s) |-> s[i]]
  <2>1. s \in [1 .. Len(s) -> Elements(l)]
    BY <1>1, LenProperties
  <2> QED
    BY <2>1
<1> HIDE DEF s
<1>3. IsList(s) /\ Items(s) = s
  BY <1>1, <1>2, FunctionIsList
<1>4. Items(Items(l)) = Items(l)
  BY <1>3 DEF s
<1>5. NamesIn(Items(l)) = NamesIn(l) /\ Elements(Items(l)) = Elements(l)
  BY <1>4 DEF NamesIn, Elements
<1>6. Environment(Items(l)) = Environment(l)
  BY <1>4, <1>5 DEF Environment
<1> QED
  BY <1>3, <1>4, <1>5, <1>6 DEF s

(* The variables that are replaced keep their places: what the list comes  *)
(* to changes at the names of the map that it has.                         *)
LEMMA ReplacedIs ==
  ASSUME NilIsNoFunction, NEW base, IsEnv(base), Items(base) = base, NEW override
  PROVE  LET r == Replaced(base, override)
             e == Environment(base)
         IN  /\ IsList(r) /\ Items(r) = r /\ NamesIn(r) = NamesIn(base)
             /\ Environment(r) =
                  [n \in NamesIn(base) |-> IF n \in DOMAIN override THEN override[n] ELSE e[n]]
<1> DEFINE r == Replaced(base, override)
           e == Environment(base)
           new == [n \in NamesIn(base) |-> IF n \in DOMAIN override THEN override[n] ELSE e[n]]
           last(i) == \A j \in DOMAIN base : base[j].name = base[i].name => j <= i
<1>1. /\ IsList(base) /\ DOMAIN base = 1 .. Len(base) /\ Len(base) \in Nat
      /\ Elements(base) = {base[i] : i \in DOMAIN base}
      /\ NamesIn(base) = {base[i].name : i \in DOMAIN base}
  <2>1. IsList(base)
    BY DEF IsEnv
  <2> QED
    BY <2>1, ListIs
<1>2. /\ r = [i \in 1 .. Len(base) |-> r[i]]
      /\ \A i \in DOMAIN base :
           r[i] = IF base[i].name \in DOMAIN override /\ last(i)
                    THEN Var(base[i].name, override[base[i].name]) ELSE base[i]
  BY <1>1 DEF Replaced
<1> HIDE DEF r
<1>3. IsList(r) /\ Items(r) = r /\ DOMAIN r = DOMAIN base
  BY <1>1, <1>2, FunctionIsList
<1>4. ASSUME NEW i \in DOMAIN base
      PROVE  r[i].name = base[i].name
  <2>1. CASE base[i].name \in DOMAIN override /\ last(i)
    <3>1. r[i] = Var(base[i].name, override[base[i].name])
      BY <1>2, <2>1
    <3> QED
      BY <3>1 DEF Var
  <2>2. CASE ~(base[i].name \in DOMAIN override /\ last(i))
    BY <1>2, <2>2
  <2> QED
    BY <2>1, <2>2
<1>5. NamesIn(r) = NamesIn(base)
  <2>1. NamesIn(r) = {r[i].name : i \in DOMAIN r}
    BY <1>3, ListIs
  <2> QED
    BY <1>1, <1>3, <1>4, <2>1
<1>6. ASSUME NEW n \in NamesIn(r)
      PROVE  \E i : IsLast(r, n, i) /\ new[n] = r[i].value
  <2>1. PICK i : IsLast(base, n, i) /\ e[n] = base[i].value
    <3>1. \E i : IsLast(Items(base), n, i)
      BY <1>1, <1>5, EnvironmentIs
    <3> QED
      BY <1>1, <3>1, EnvironmentIs
  <2>2. i \in DOMAIN base /\ base[i].name = n /\ last(i)
    BY <2>1 DEF IsLast
  <2>3. IsLast(r, n, i)
    BY <1>3, <1>4, <2>1 DEF IsLast
  <2>4. new[n] = r[i].value
    <3>1. CASE n \in DOMAIN override
      <4>1. r[i] = Var(n, override[n])
        BY <1>2, <2>2, <3>1
      <4> QED
        BY <1>5, <3>1, <4>1 DEF Var
    <3>2. CASE n \notin DOMAIN override
      <4>1. r[i] = base[i]
        BY <1>2, <2>2, <3>2
      <4> QED
        BY <1>5, <2>1, <3>2, <4>1
    <3> QED
      BY <3>1, <3>2
  <2> QED
    BY <2>3, <2>4
<1>7. new = [n \in NamesIn(r) |-> new[n]]
  BY <1>5
<1> HIDE DEF new
<1>8. Environment(r) = new
  BY <1>3, <1>6, <1>7, EnvironmentFrom
<1> QED
  BY <1>3, <1>5, <1>8 DEF r, new

(* A browser's options come before what a container has, name by name      *)
(* (mergeEnvVars).                                                         *)
LEMMA ExtendedIs ==
  ASSUME NilIsNoFunction, NEW base, IsEnv(base), Items(base) = base,
         NEW override, IsMap(override), override # Nil, NEW x \in Extended(base, override)
  PROVE  Environment(x) = Overriding(override, Environment(base))
<1> DEFINE new == DOMAIN override \ NamesIn(base)
           r == Replaced(base, override)
           e == Environment(base)
           replaced == [n \in NamesIn(base) |-> IF n \in DOMAIN override THEN override[n] ELSE e[n]]
           both == Overriding(override, e)
<1>1. PICK s \in SetToSeqs(new) :
        x = r \o [i \in DOMAIN s |-> Var(s[i], override[s[i]])]
  BY DEF Extended
<1> DEFINE t == [i \in DOMAIN s |-> Var(s[i], override[s[i]])]
<1>2. IsFiniteSet(new)
  <2>1. IsFiniteSet(DOMAIN override)
    BY DEF IsMap
  <2> QED
    BY <2>1, FS_Subset
<1>3. /\ Cardinality(new) \in Nat /\ s \in [1 .. Cardinality(new) -> new]
      /\ DOMAIN s = 1 .. Cardinality(new)
      /\ \A i, j \in DOMAIN s : s[i] = s[j] => i = j
      /\ \A n \in new : \E i \in DOMAIN s : s[i] = n
  BY <1>2, OrderIs
<1>4. /\ t = [i \in 1 .. Cardinality(new) |-> t[i]]
      /\ \A i \in DOMAIN s : /\ t[i].name = s[i] /\ s[i] \in new
                             /\ t[i].value = override[s[i]]
  BY <1>3 DEF Var
<1> HIDE DEF t, new
<1>5. IsList(t) /\ Items(t) = t /\ DOMAIN t = DOMAIN s
  BY <1>3, <1>4, FunctionIsList
<1>6. NamesIn(t) = new
  <2>1. NamesIn(t) = {t[i].name : i \in DOMAIN t}
    BY <1>5, ListIs
  <2>2. ASSUME NEW n
        PROVE  n \in NamesIn(t) <=> n \in new
    BY <1>3, <1>4, <1>5, <2>1
  <2> QED
    BY <2>2
<1>7. \A n \in new : Environment(t)[n] = override[n]
  <2> SUFFICES ASSUME NEW n \in new  PROVE Environment(t)[n] = override[n]
    OBVIOUS
  <2>1. PICK i : IsLast(t, n, i)
    BY <1>5, <1>6, EnvironmentIs
  <2>2. Environment(t)[n] = t[i].value
    BY <1>5, <2>1, EnvironmentIs
  <2>3. i \in DOMAIN s /\ s[i] = n
    BY <1>4, <1>5, <2>1 DEF IsLast
  <2> QED
    BY <1>4, <2>2, <2>3
<1>8. /\ IsList(r) /\ Items(r) = r /\ NamesIn(r) = NamesIn(base)
      /\ Environment(r) = replaced
  BY ReplacedIs
<1> HIDE DEF r
<1>9. Environment(x) = Overriding(Environment(t), replaced)
  <2>1. Environment(Items(r) \o Items(t)) = Overriding(Environment(t), Environment(r))
    BY <1>5, <1>8, EnvironmentOfJoined
  <2> QED
    BY <1>1, <1>5, <1>8, <2>1 DEF t
<1>10. DOMAIN Environment(t) = new /\ DOMAIN e = NamesIn(base)
  <2>1. IsList(base)
    BY DEF IsEnv
  <2> QED
    BY <1>5, <1>6, <2>1, EnvironmentIs
<1>11. Overriding(Environment(t), replaced) =
         [n \in new \cup NamesIn(base) |->
            IF n \in new THEN Environment(t)[n] ELSE replaced[n]]
  BY <1>10 DEF Overriding
<1>12. both = [n \in new \cup NamesIn(base) |-> IF n \in DOMAIN override THEN override[n] ELSE e[n]]
  BY <1>10 DEF Overriding, new
<1>13. ASSUME NEW n \in new \cup NamesIn(base)
       PROVE  (IF n \in new THEN Environment(t)[n] ELSE replaced[n])
                = (IF n \in DOMAIN override THEN override[n] ELSE e[n])
  <2>1. CASE n \in new
    BY <1>7, <2>1 DEF new
  <2>2. CASE n \notin new
    BY <2>2
  <2> QED
    BY <2>1, <2>2
<1> QED
  BY <1>9, <1>11, <1>12, <1>13

(* What options ask for in a container.                                    *)
AskedFor(opts, c) ==
  IF opts = Nil THEN <<>>
  ELSE IF c \in DOMAIN opts.containers THEN opts.containers[c] ELSE <<>>

(* Where nothing is asked for, a container keeps what it has.              *)
LEMMA NothingOver ==
  ASSUME NEW e, e = [n \in DOMAIN e |-> e[n]], NEW over, DOMAIN over = {}
  PROVE  Overriding(over, e) = e /\ Overriding(e, over) = e
BY DEF Overriding

(* One container under applySelenosisOptions; the given slice is left as   *)
(* it was.                                                                 *)
LEMMA EnvOptionsIs ==
  ASSUME NilIsNoFunction, NEW c, IsEnv(c.env), Items(c.env) = c.env,
         NEW opts, opts # Nil, IsOptions(opts), NEW x \in EnvOptions(c, opts)
  PROVE  /\ x.left = c.env
         /\ Environment(x.env) = Overriding(AskedFor(opts, c.name), Environment(c.env))
<1>1. CASE c.name \in DOMAIN opts.containers /\ DOMAIN opts.containers[c.name] # {}
  <2> DEFINE over == opts.containers[c.name]
  <2>1. IsMap(over) /\ over # Nil /\ AskedFor(opts, c.name) = over
    BY <1>1 DEF IsOptions, AskedFor
  <2>2. PICK e \in Extended(c.env, over) : x = [env |-> e, left |-> c.env]
    BY <1>1 DEF EnvOptions, MergeEnvVars
  <2>3. Environment(e) = Overriding(over, Environment(c.env))
    BY <2>1, ExtendedIs
  <2> QED
    BY <2>1, <2>2, <2>3
<1>2. CASE ~(c.name \in DOMAIN opts.containers /\ DOMAIN opts.containers[c.name] # {})
  <2>1. x = [env |-> c.env, left |-> c.env]
    BY <1>2 DEF EnvOptions
  <2>2. DOMAIN AskedFor(opts, c.name) = {}
    BY <1>2 DEF AskedFor
  <2>3. Environment(c.env) = [n \in DOMAIN Environment(c.env) |-> Environment(c.env)[n]]
    BY EnvironmentIs DEF IsEnv
  <2> QED
    BY <2>1, <2>2, <2>3, NothingOver
<1> QED
  BY <1>1, <1>2

IsContainer(c) ==
  /\ c = [name |-> c.name, image |-> c.image, command |-> c.command, workingDir |-> c.workingDir,
          env |-> c.env, ports |-> c.ports, mounts |-> c.mounts, pull |-> c.pull,
          resources |-> c.resources]
  /\ IsEnv(c.env) /\ Items(c.env) = c.env

(* applySelenosisOptions changes a pod's labels and its containers'        *)
(* variables, and leaves the first container's slice as it was.            *)
LEMMA ApplyOptionsIs ==
  ASSUME NilIsNoFunction, NEW p,
         p = [labels |-> p.labels, annotations |-> p.annotations, containers |-> p.containers,
              inits |-> p.inits, volumes |-> p.volumes],
         p.containers = [i \in DOMAIN p.containers |-> p.containers[i]],
         1 \in DOMAIN p.containers, \A i \in DOMAIN p.containers : IsContainer(p.containers[i]),
         NEW opts, opts = Nil \/ IsOptions(opts), NEW x \in ApplyOptions(p, opts)
  PROVE  /\ x.left = p.containers[1].env
         /\ DOMAIN x.pod.containers = DOMAIN p.containers
         /\ \A i \in DOMAIN p.containers :
              LET c == p.containers[i]
              IN  /\ x.pod.containers[i].name = c.name
                  /\ Environment(x.pod.containers[i].env)
                       = Overriding(AskedFor(opts, c.name), Environment(c.env))
         /\ x.pod.labels = IF opts = Nil THEN p.labels ELSE Put(opts.labels, p.labels)
         /\ x.pod.annotations = p.annotations
<1>1. CASE opts = Nil
  <2>1. x = [pod |-> p, left |-> p.containers[1].env]
    BY <1>1 DEF ApplyOptions
  <2>2. ASSUME NEW i \in DOMAIN p.containers
        PROVE  LET e == Environment(p.containers[i].env)
               IN  e = Overriding(AskedFor(opts, p.containers[i].name), e)
    <3> DEFINE e == Environment(p.containers[i].env)
    <3>1. e = [n \in DOMAIN e |-> e[n]]
      BY EnvironmentIs DEF IsContainer, IsEnv
    <3>2. DOMAIN AskedFor(opts, p.containers[i].name) = {}
      BY <1>1 DEF AskedFor
    <3> HIDE DEF e
    <3>3. e = Overriding(AskedFor(opts, p.containers[i].name), e)
      BY <3>1, <3>2, NothingOver
    <3> QED
      BY <3>3 DEF e
  <2> QED
    BY <1>1, <2>1, <2>2
<1>2. CASE opts # Nil /\ IsOptions(opts)
  <2> DEFINE cs == p.containers
             choices(i) == EnvOptions(cs[i], opts)
             all == UNION {choices(i) : i \in DOMAIN cs}
             chosen == {f \in [DOMAIN cs -> all] : \A i \in DOMAIN cs : f[i] \in choices(i)}
  <2>1. PICK ch \in chosen :
          x = [pod  |-> [p EXCEPT !.labels = Put(opts.labels, @),
                                  !.containers = [i \in DOMAIN @ |-> [@[i] EXCEPT !.env = ch[i].env]]],
               left |-> ch[1].left]
    BY <1>2 DEF ApplyOptions
  <2>2. /\ x.left = ch[1].left
        /\ x.pod.labels = Put(opts.labels, p.labels) /\ x.pod.annotations = p.annotations
        /\ x.pod.containers = [i \in DOMAIN cs |-> [cs[i] EXCEPT !.env = ch[i].env]]
    BY <2>1
  <2>3. ASSUME NEW i \in DOMAIN cs
        PROVE  /\ ch[i].left = cs[i].env
               /\ Environment(ch[i].env) = Overriding(AskedFor(opts, cs[i].name), Environment(cs[i].env))
    <3>1. ch[i] \in EnvOptions(cs[i], opts) /\ IsContainer(cs[i])
      BY <2>1
    <3> QED
      BY <1>2, <3>1, EnvOptionsIs DEF IsContainer
  <2>4. ASSUME NEW i \in DOMAIN cs
        PROVE  x.pod.containers[i].name = cs[i].name /\ x.pod.containers[i].env = ch[i].env
    <3>1. x.pod.containers[i] = [cs[i] EXCEPT !.env = ch[i].env]
      BY <2>2
    <3> QED
      BY <3>1 DEF IsContainer
  <2> QED
    BY <1>2, <2>2, <2>3, <2>4
<1> QED
  BY <1>1, <1>2

(* The list of a pod's containers: the browser, then the sidecars.         *)
LEMMA ContainersAre ==
  ASSUME NilIsNoFunction, NEW m, IsEnv(m.env), AreSidecars(m.sidecars)
  PROVE  LET cs == Containers(m)
             side == Items(m.sidecars)
         IN  /\ Len(side) \in Nat /\ DOMAIN side = 1 .. Len(side)
             /\ cs = [i \in DOMAIN cs |-> cs[i]] /\ DOMAIN cs = 1 .. (1 + Len(side))
             /\ cs[1] = BrowserContainer(m)
             /\ \A i \in DOMAIN side : cs[1 + i] = ContainerOf(side[i]) /\ IsSidecar(side[i])
             /\ \A i \in DOMAIN cs : IsContainer(cs[i])
<1> DEFINE cs == Containers(m)
           side == Items(m.sidecars)
           rest == [i \in DOMAIN side |-> ContainerOf(side[i])]
<1>1. /\ IsList(m.sidecars) /\ Len(side) \in Nat /\ DOMAIN side = 1 .. Len(side)
      /\ \A i \in DOMAIN side : IsSidecar(side[i])
  <2>1. IsList(m.sidecars) /\ \A x \in Elements(m.sidecars) : IsSidecar(x)
    BY DEF AreSidecars
  <2> QED
    BY <2>1, ListIs
<1>2. rest = [i \in DOMAIN side |-> ContainerOf(m.sidecars[i])]
  <2>1. \A i \in DOMAIN side : m.sidecars[i] = side[i]
    BY DEF Items
  <2> QED
    BY <2>1
<1>3. cs = <<BrowserContainer(m)>> \o rest
  BY <1>2 DEF Containers
<1> HIDE DEF cs, side
<1>4. /\ cs = [i \in 1 .. (1 + Len(side)) |-> cs[i]] /\ cs[1] = BrowserContainer(m)
      /\ \A i \in DOMAIN side : cs[1 + i] = ContainerOf(side[i])
  <2> DEFINE one == <<BrowserContainer(m)>>
  <2>1. one = [i \in 1 .. 1 |-> one[i]] /\ one[1] = BrowserContainer(m)
    OBVIOUS
  <2>2. rest = [i \in 1 .. Len(side) |-> rest[i]] /\ \A i \in DOMAIN side : rest[i] = ContainerOf(side[i])
    BY <1>1
  <2> HIDE DEF rest, one
  <2>3. IsList(one) /\ Items(one) = one /\ Len(one) = 1 /\ DOMAIN one = 1 .. 1
    BY <2>1, FunctionIsList
  <2>4. IsList(rest) /\ Items(rest) = rest /\ Len(rest) = Len(side) /\ DOMAIN rest = 1 .. Len(side)
    BY <1>1, <2>2, FunctionIsList
  <2>5. cs = one \o rest
    BY <1>3 DEF rest, one
  <2>6. /\ IsList(cs) /\ Items(cs) = cs /\ Len(cs) = 1 + Len(side) /\ DOMAIN cs = 1 .. Len(cs)
        /\ \A i \in DOMAIN one : cs[i] = one[i]
        /\ \A i \in DOMAIN rest : cs[1 + i] = rest[i]
    <3> DEFINE both == Items(one) \o Items(rest)
    <3>1. /\ IsList(both) /\ Items(both) = both
          /\ Len(both) = Len(Items(one)) + Len(Items(rest)) /\ DOMAIN both = 1 .. Len(both)
          /\ \A i \in DOMAIN Items(one) : both[i] = Items(one)[i]
          /\ \A i \in DOMAIN Items(rest) : both[Len(Items(one)) + i] = Items(rest)[i]
      <4>1. IsList(one) /\ IsList(rest)
        BY <2>3, <2>4
      <4> QED
        BY <4>1, JoinedIs
    <3>2. cs = both
      BY <2>3, <2>4, <2>5
    <3> HIDE DEF both
    <3> QED
      BY <2>3, <2>4, <3>1, <3>2
  <2>7. cs = [i \in 1 .. (1 + Len(side)) |-> cs[i]]
    <3>1. cs \in Seq(Elements(cs)) /\ Len(cs) = 1 + Len(side)
      BY <2>6, ListIs
    <3>2. cs \in [1 .. Len(cs) -> Elements(cs)]
      BY <3>1, LenProperties
    <3> QED
      BY <3>1, <3>2
  <2>8. cs[1] = BrowserContainer(m)
    BY <2>1, <2>3, <2>6
  <2>9. \A i \in DOMAIN side : cs[1 + i] = ContainerOf(side[i])
    BY <1>1, <2>2, <2>4, <2>6
  <2> QED
    BY <2>7, <2>8, <2>9
<1>5. DOMAIN cs = 1 .. (1 + Len(side)) /\ cs = [i \in DOMAIN cs |-> cs[i]]
  BY <1>4
<1>6. \A e : IsEnv(e) => IsEnv(Items(e)) /\ Items(Items(e)) = Items(e)
  BY ItemsAreAList DEF IsEnv
<1>7. ASSUME NEW i \in DOMAIN cs
      PROVE  IsContainer(cs[i])
  <2>1. CASE i = 1
    <3>1. cs[i] = BrowserContainer(m)
      BY <1>4, <2>1
    <3> QED
      BY <1>6, <3>1 DEF IsContainer, BrowserContainer
  <2>2. CASE i # 1
    <3>1. i - 1 \in DOMAIN side /\ i = 1 + (i - 1)
      BY <1>1, <1>5, <2>2
    <3>2. cs[i] = ContainerOf(side[i - 1]) /\ IsSidecar(side[i - 1])
      BY <1>1, <1>4, <3>1
    <3> QED
      BY <1>6, <3>2 DEF IsContainer, ContainerOf, IsSidecar
  <2> QED
    BY <2>1, <2>2
<1> QED
  BY <1>1, <1>4, <1>5, <1>7 DEF cs, side

(* What a browser's annotation asks for. *)
OptionsIn(r) == ParseOptions(r.annotations)
NotesOf(r) == [k \in DOMAIN Items(r.annotations) \ {OptionsKey} |-> r.annotations[k]]

(* What a pass makes of a request and a configuration.                     *)
LEMMA BuiltIs ==
  ASSUME NilIsNoFunction, NEW r \in Requests, OptionsIn(r) # Malformed,
         NEW m, IsEnv(m.env), AreSidecars(m.sidecars), IsMap(m.labels), IsMap(m.annotations),
         NEW x \in BuildBrowserPod(r, m)
  PROVE  LET opts == OptionsIn(r)
             cs == x.pod.containers
             side == Items(m.sidecars)
         IN  /\ x.left = Items(m.env)
             /\ DOMAIN cs = 1 .. (1 + Len(side)) /\ DOMAIN side = 1 .. Len(side) /\ Len(side) \in Nat
             /\ cs[1].name = "browser"
             /\ Environment(cs[1].env) = Overriding(AskedFor(opts, "browser"), Environment(m.env))
             /\ \A i \in DOMAIN side :
                  /\ cs[1 + i].name = side[i].name
                  /\ Environment(cs[1 + i].env)
                       = Overriding(AskedFor(opts, side[i].name), Environment(side[i].env))
             /\ Items(x.pod.labels)
                  = Overriding(IF opts = Nil THEN <<>> ELSE Items(opts.labels),
                               Overriding(Items(m.labels), Items(r.labels)))
             /\ x.pod.annotations = Overriding(Items(m.annotations), NotesOf(r))
<1> DEFINE opts == OptionsIn(r)
           side == Items(m.sidecars)
           p == [labels |-> PodLabels(r, m), annotations |-> PodAnnotations(r, m),
                 containers |-> Containers(m), inits |-> InitContainers(m),
                 volumes |-> Items(m.volumes)]
<1>1. x \in ApplyOptions(p, opts)
  BY DEF BuildBrowserPod, OptionsIn
<1>2. opts = Nil \/ IsOptions(opts)
  <2>1. CASE OptionsKey \notin DOMAIN Items(r.annotations)
    BY <2>1 DEF OptionsIn, ParseOptions
  <2>2. CASE OptionsKey \in DOMAIN Items(r.annotations)
    <3>1. r.annotations[OptionsKey] \in {Empty, Malformed} \/ IsOptions(r.annotations[OptionsKey])
      BY <2>2, RequestsAssumption
    <3>2. opts = IF r.annotations[OptionsKey] = Empty THEN Nil ELSE r.annotations[OptionsKey]
      BY <2>2 DEF OptionsIn, ParseOptions
    <3> QED
      BY <3>1, <3>2
  <2> QED
    BY <2>1, <2>2
<1>3. /\ Len(side) \in Nat /\ DOMAIN side = 1 .. Len(side)
      /\ Containers(m) = [i \in DOMAIN Containers(m) |-> Containers(m)[i]]
      /\ DOMAIN Containers(m) = 1 .. (1 + Len(side))
      /\ Containers(m)[1] = BrowserContainer(m)
      /\ \A i \in DOMAIN side :
           Containers(m)[1 + i] = ContainerOf(side[i]) /\ IsSidecar(side[i])
      /\ \A i \in DOMAIN Containers(m) : IsContainer(Containers(m)[i])
  BY ContainersAre
<1>4. 1 \in DOMAIN Containers(m) /\ \A i \in DOMAIN side : 1 + i \in DOMAIN Containers(m)
  BY <1>3
<1> HIDE DEF opts, side
<1>5. /\ x.left = Containers(m)[1].env
      /\ DOMAIN x.pod.containers = DOMAIN Containers(m)
      /\ \A i \in DOMAIN Containers(m) :
           LET c == Containers(m)[i]
           IN  /\ x.pod.containers[i].name = c.name
               /\ Environment(x.pod.containers[i].env)
                    = Overriding(AskedFor(opts, c.name), Environment(c.env))
      /\ x.pod.labels = IF opts = Nil THEN PodLabels(r, m) ELSE Put(opts.labels, PodLabels(r, m))
      /\ x.pod.annotations = PodAnnotations(r, m)
  <2>1. /\ p.labels = PodLabels(r, m) /\ p.annotations = PodAnnotations(r, m)
        /\ p.containers = Containers(m)
        /\ p = [labels |-> p.labels, annotations |-> p.annotations, containers |-> p.containers,
                inits |-> p.inits, volumes |-> p.volumes]
    OBVIOUS
  <2> HIDE DEF p
  <2> QED
    BY <1>1, <1>2, <1>3, <1>4, <2>1, ApplyOptionsIs
<1>6. IsMap(r.labels) /\ IsMap(r.annotations)
  BY RequestsAssumption
<1>7. Items(x.pod.labels)
        = Overriding(IF opts = Nil THEN <<>> ELSE Items(opts.labels),
                     Overriding(Items(m.labels), Items(r.labels)))
  <2> DEFINE under == Overriding(Items(m.labels), Items(r.labels))
  <2>1. IsMap(PodLabels(r, m)) /\ Items(PodLabels(r, m)) = under
    BY <1>6, MergeMapIs DEF PodLabels, Put
  <2>2. CASE opts = Nil
    <3>1. under = [k \in DOMAIN under |-> under[k]] /\ DOMAIN <<>> = {}
      BY DEF Overriding
    <3> HIDE DEF under
    <3>2. Overriding(<<>>, under) = under
      BY <3>1, NothingOver
    <3> QED
      BY <1>5, <2>1, <2>2, <3>2 DEF under
  <2>3. CASE opts # Nil
    <3>1. IsMap(opts.labels)
      BY <1>2, <2>3 DEF IsOptions
    <3>2. Items(Put(opts.labels, PodLabels(r, m))) = Overriding(Items(opts.labels), under)
      BY <2>1, <3>1, MergeMapIs DEF Put
    <3> QED
      BY <1>5, <2>3, <3>2
  <2> QED
    BY <2>2, <2>3
<1>8. x.pod.annotations = Overriding(Items(m.annotations), NotesOf(r))
  <2> DEFINE notes == NotesOf(r)
  <2>1. notes = [k \in DOMAIN notes |-> notes[k]]
    BY DEF NotesOf
  <2>2. PodAnnotations(r, m) = MergeMap(notes, m.annotations)
    BY DEF PodAnnotations, Put, NotesOf
  <2>3. Overriding(Items(m.annotations), notes) =
          [k \in DOMAIN notes \cup DOMAIN Items(m.annotations) |->
             IF k \in DOMAIN Items(m.annotations) THEN Items(m.annotations)[k] ELSE notes[k]]
    BY DEF Overriding
  <2> HIDE DEF notes
  <2>4. notes # Nil
    BY <2>1 DEF NilIsNoFunction
  <2>5. \A k \in DOMAIN Items(m.annotations) : Items(m.annotations)[k] = m.annotations[k]
    BY DEF Items
  <2>6. MergeMap(notes, m.annotations) =
          [k \in DOMAIN notes \cup DOMAIN Items(m.annotations) |->
             IF k \in DOMAIN Items(m.annotations) THEN m.annotations[k] ELSE notes[k]]
    BY <2>4 DEF MergeMap, Items
  <2> QED
    BY <1>5, <2>2, <2>3, <2>5, <2>6 DEF notes
<1>9. /\ x.left = Items(m.env) /\ x.pod.containers[1].name = "browser"
      /\ Environment(x.pod.containers[1].env)
           = Overriding(AskedFor(opts, "browser"), Environment(m.env))
  <2>1. Containers(m)[1].name = "browser" /\ Containers(m)[1].env = Items(m.env)
    BY <1>3 DEF BrowserContainer
  <2>2. Environment(Items(m.env)) = Environment(m.env)
    BY ItemsAreAList DEF IsEnv
  <2> QED
    BY <1>4, <1>5, <2>1, <2>2
<1>10. ASSUME NEW i \in DOMAIN side
       PROVE  /\ x.pod.containers[1 + i].name = side[i].name
              /\ Environment(x.pod.containers[1 + i].env)
                   = Overriding(AskedFor(opts, side[i].name), Environment(side[i].env))
  <2>1. Containers(m)[1 + i].name = side[i].name /\ Containers(m)[1 + i].env = Items(side[i].env)
    <3>1. Containers(m)[1 + i] = ContainerOf(side[i])
      BY <1>3
    <3> QED
      BY <3>1 DEF ContainerOf
  <2>2. Environment(Items(side[i].env)) = Environment(side[i].env)
    BY <1>3, ItemsAreAList DEF IsEnv, IsSidecar
  <2> QED
    BY <1>4, <1>5, <2>1, <2>2
<1> QED
  BY <1>3, <1>5, <1>7, <1>8, <1>9, <1>10 DEF opts, side

-----------------------------------------------------------------------------
(* The invariant *)

MergedOnes == MergeWithTemplate(version, source[1])

PodTypeOK ==
  /\ source \in Sources
  /\ request \in [Browsers -> Requests]
  /\ pod = [b \in Browsers |-> pod[b]]

(* What the store keeps is, at every moment, what the merge made of the    *)
(* declaration: no pod that was made of it has changed it.                 *)
StoredAsMerged == stored # Nil => stored \in MergedOnes

(* A pod was made of its browser's request and such a configuration, and   *)
(* the server has accepted it.                                             *)
PodsAsBuilt ==
  \A b \in Browsers : pod[b] # Nil =>
    /\ Accepted(pod[b]) /\ OptionsIn(request[b]) # Malformed
    /\ \E m \in MergedOnes : \E x \in BuildBrowserPod(request[b], m) : pod[b] = x.pod

PodInv == PodTypeOK /\ StoredAsMerged /\ PodsAsBuilt

(* What the assumptions say of the declaration.                            *)
LEMMA MergedOneIs ==
  ASSUME NilIsNoFunction, source \in Sources, NEW m \in MergedOnes
  PROVE  /\ source[1] = Nil \/ IsConfig(source[1])
         /\ IsConfig(version) /\ template = Template(source[1])
         /\ Merged(template, version, m)
         /\ source[1] # Nil => EnvMerged(template.env, version.env, m.env)
<1>1. (source[1] = Nil \/ IsConfig(source[1])) /\ IsConfig(version)
  BY SourcesAssumption DEF version
<1>2. version # Nil
  <2>1. version = [labels |-> version.labels, annotations |-> version.annotations,
                   env |-> version.env, resources |-> version.resources,
                   workingDir |-> version.workingDir, pull |-> version.pull,
                   volumes |-> version.volumes, mounts |-> version.mounts,
                   sidecars |-> version.sidecars, inits |-> version.inits]
    BY <1>1 DEF IsConfig
  <2> DEFINE v == version
  <2> HIDE DEF v
  <2>2. v = [k \in DOMAIN v |-> v[k]]
    BY <2>1 DEF v
  <2>3. v # Nil
    BY <2>2 DEF NilIsNoFunction
  <2> QED
    BY <2>3 DEF v
<1>3. template = Template(source[1])
  BY DEF template, Template
<1>4. m \in MergeWithTemplate(version, source[1])
  BY DEF MergedOnes
<1> HIDE DEF version
<1>5. /\ Merged(Template(source[1]), version, m)
      /\ source[1] # Nil => EnvMerged(source[1].env, version.env, m.env)
  BY <1>1, <1>2, <1>4, MergeWithTemplateIs
<1> QED
  BY <1>1, <1>3, <1>5 DEF Template

(* A pass that makes a pod leaves what the store keeps as it was, accepted *)
(* or not: the slice that the variables were taken from is not written to. *)
LEMMA CreateLeavesStored ==
  ASSUME NilIsNoFunction, PodInv, NEW b \in Browsers, Create(b)
  PROVE  stored' = stored
<1>1. PICK built \in BuildBrowserPod(request[b], stored) :
        stored' = IF stored.env = Nil THEN stored ELSE [stored EXCEPT !.env = built.left]
  BY DEF Create
<1>2. stored \in MergedOnes /\ source \in Sources /\ request[b] \in Requests
  BY DEF Create, PodInv, PodTypeOK, StoredAsMerged
<1>3. Merged(template, version, stored)
  BY <1>2, MergedOneIs
<1>4. built.left = Items(stored.env)
  <2>1. OptionsIn(request[b]) # Malformed
    BY DEF Create, OptionsIn
  <2> QED
    BY <1>1, <1>2, <1>3, <2>1, BuiltIs DEF Merged
<1>5. stored.env # Nil => [stored EXCEPT !.env = stored.env] = stored
  BY <1>3 DEF Merged, IsRecord
<1> QED
  BY <1>1, <1>4, <1>5 DEF Items

LEMMA PodInvInit ==
  ASSUME Init  PROVE PodInv
BY DEF Init, PodInv, PodTypeOK, StoredAsMerged, PodsAsBuilt

LEMMA PodInvNext ==
  ASSUME NilIsNoFunction, PodInv, [Next]_vars
  PROVE  PodInv'
<1> USE DEF PodInv
<1>1. CASE Load
  <2>1. UNCHANGED <<source, request, pod>> /\ stored' \in MergedOnes
    BY <1>1 DEF Load, MergedOnes, version
  <2> QED
    BY <2>1 DEF PodTypeOK, StoredAsMerged, PodsAsBuilt, MergedOnes, version
<1>2. ASSUME NEW b \in Browsers, Create(b)
      PROVE  PodInv'
  <2>1. stored' = stored /\ UNCHANGED <<source, request>>
    BY <1>2, CreateLeavesStored DEF Create
  <2>2. PICK built \in BuildBrowserPod(request[b], stored) :
          pod' = IF Accepted(built.pod) THEN [pod EXCEPT ![b] = built.pod] ELSE pod
    BY <1>2 DEF Create
  <2>3. stored \in MergedOnes /\ OptionsIn(request[b]) # Malformed
    BY <1>2 DEF Create, StoredAsMerged, OptionsIn
  <2>4. MergedOnes' = MergedOnes
    BY <2>1 DEF MergedOnes, version
  <2>5. PodTypeOK' /\ StoredAsMerged'
    BY <2>1, <2>2, <2>4 DEF PodTypeOK, StoredAsMerged
  <2>6. PodsAsBuilt'
    <3> SUFFICES ASSUME NEW a \in Browsers, pod'[a] # Nil
                 PROVE  /\ Accepted(pod'[a]) /\ OptionsIn(request[a]) # Malformed
                        /\ \E m \in MergedOnes : \E x \in BuildBrowserPod(request[a], m) : pod'[a] = x.pod
      BY <2>1, <2>4 DEF PodsAsBuilt
    <3>1. CASE a = b /\ Accepted(built.pod)
      <4>1. pod'[a] = built.pod
        BY <2>2, <3>1 DEF PodTypeOK
      <4> QED
        BY <2>2, <2>3, <3>1, <4>1
    <3>2. CASE ~(a = b /\ Accepted(built.pod))
      <4>1. pod'[a] = pod[a]
        BY <2>2, <3>2 DEF PodTypeOK
      <4> QED
        BY <4>1 DEF PodsAsBuilt
    <3> QED
      BY <3>1, <3>2
  <2> QED
    BY <2>5, <2>6
<1>3. ASSUME NEW b \in Browsers, Replace(b)
      PROVE  PodInv'
  <2>1. UNCHANGED <<source, stored>> /\ pod' = [pod EXCEPT ![b] = Nil]
    BY <1>3 DEF Replace
  <2>2. PICK r \in Requests : request' = [request EXCEPT ![b] = r]
    BY <1>3 DEF Replace
  <2>3. MergedOnes' = MergedOnes
    BY <2>1 DEF MergedOnes, version
  <2>4. PodTypeOK' /\ StoredAsMerged'
    BY <2>1, <2>2, <2>3 DEF PodTypeOK, StoredAsMerged
  <2>5. ASSUME NEW a \in Browsers, pod'[a] # Nil
        PROVE  a # b /\ pod'[a] = pod[a] /\ request'[a] = request[a]
    BY <2>1, <2>2, <2>5 DEF PodTypeOK
  <2>6. PodsAsBuilt'
    BY <2>3, <2>5 DEF PodsAsBuilt
  <2> QED
    BY <2>4, <2>6
<1>4. CASE UNCHANGED vars
  BY <1>4 DEF vars, PodTypeOK, StoredAsMerged, PodsAsBuilt, MergedOnes, version
<1> QED
  BY <1>1, <1>2, <1>3, <1>4 DEF Next

(* The store keeps what the merge made, and every pod was made of that and *)
(* of its browser's request: in all states.                                *)
THEOREM PodInvariant ==
  ASSUME NilIsNoFunction
  PROVE  Spec => []PodInv
<1>1. Init => PodInv
  BY PodInvInit
<1>2. PodInv /\ [Next]_vars => PodInv'
  BY PodInvNext
<1> QED
  BY <1>1, <1>2, PTL DEF Spec

-----------------------------------------------------------------------------
(* What the merge promises *)

(* A sidecar's name on either side is that of an item there.               *)
LEMMA NamedSidecar ==
  ASSUME NEW l, AreSidecars(l), NEW n \in NamesIn(l)
  PROVE  IsSidecar(Named(l, n)) /\ Named(l, n) \in Elements(l) /\ Named(l, n).name = n
<1>1. IsList(l) /\ \A x \in Elements(l) : IsSidecar(x)
  BY DEF AreSidecars
<1>2. l # Nil /\ \E i \in DOMAIN l : IsFirst(l, n, i) /\ Named(l, n) = l[i]
  BY <1>1, NamedIs
<1>3. Items(l) = l
  BY <1>2 DEF Items
<1>4. \A i \in DOMAIN l : l[i] \in Elements(l)
  BY <1>1, <1>3, ListIs
<1> QED
  BY <1>1, <1>2, <1>4 DEF IsFirst

(* A sidecar that both sides name is the version's, completed by the       *)
(* template's.                                                             *)
LEMMA SharedSidecar ==
  ASSUME NilIsNoFunction, NEW ts, NEW vs, AreSidecars(ts), AreSidecars(vs),
         NEW c, SidecarFrom(c, ts, vs), c.name \in NamesIn(ts) \cap NamesIn(vs)
  PROVE  \E x \in Elements(vs) :
           LET t == Named(ts, c.name)
           IN  /\ x.name = c.name /\ c.image = x.image
               /\ c.command = Inherit(t.command, x.command)
               /\ c.resources = Inherit(t.resources, x.resources)
               /\ c.pull = x.pull /\ c.workingDir = t.workingDir
               /\ EnvMerged(t.env, x.env, c.env)
               /\ Both(c.ports, t.ports, x.ports) /\ Both(c.mounts, t.mounts, x.mounts)
<1>1. PICK x \in Elements(vs) : x.name = c.name /\ c \in WithTemplate(x, Named(ts, c.name))
  BY DEF SidecarFrom
<1>2. IsSidecar(x) /\ IsSidecar(Named(ts, c.name))
  BY NamedSidecar DEF AreSidecars
<1> QED
  BY <1>1, <1>2, WithTemplateIs

LEMMA EnvMergedStep ==
  ASSUME NilIsNoFunction, PodInv
  PROVE  EnvMergedByName
<1> SUFFICES ASSUME source[1] # Nil, stored # Nil
             PROVE  /\ EnvMerged(template.env, version.env, stored.env)
                    /\ \A c \in Elements(stored.sidecars) :
                         BothName(c.name) =>
                           \E v \in Elements(version.sidecars) :
                             /\ v.name = c.name
                             /\ EnvMerged(Named(template.sidecars, c.name).env, v.env, c.env)
  BY DEF EnvMergedByName
<1>1. /\ IsConfig(template) /\ IsConfig(version) /\ Merged(template, version, stored)
      /\ EnvMerged(template.env, version.env, stored.env)
  BY MergedOneIs DEF PodInv, PodTypeOK, StoredAsMerged, Template
<1>2. ASSUME NEW c \in Elements(stored.sidecars), BothName(c.name)
      PROVE  \E v \in Elements(version.sidecars) :
               v.name = c.name /\ EnvMerged(Named(template.sidecars, c.name).env, v.env, c.env)
  <2>1. SidecarFrom(c, template.sidecars, version.sidecars)
    BY <1>1 DEF Merged
  <2>2. AreSidecars(template.sidecars) /\ AreSidecars(version.sidecars)
    BY <1>1 DEF IsConfig
  <2> HIDE DEF template, version
  <2> QED
    BY <1>2, <2>1, <2>2, SharedSidecar DEF BothName
<1> QED
  BY <1>1, <1>2

(* Environment variables are merged by name (mergeEnvPtr), in the browser  *)
(* and in the sidecars that both sides name, and the store's slices stay   *)
(* like this whatever pods are made of them.                               *)
THEOREM EnvironmentMergedByName ==
  ASSUME NilIsNoFunction
  PROVE  Spec => []EnvMergedByName
<1>1. PodInv => EnvMergedByName
  BY EnvMergedStep
<1> QED
  BY <1>1, PodInvariant, PTL

LEMMA BareIsEmpty ==
  /\ Bare.sidecars = Nil /\ Bare.labels = Nil /\ Bare.env = Nil
  /\ AreSidecars(Nil) /\ NamesIn(Nil) = {}
BY NothingInNil DEF Bare, AreSidecars

LEMMA SidecarsMergedStep ==
  ASSUME NilIsNoFunction, PodInv
  PROVE  SidecarsMergedByName
<1> SUFFICES ASSUME stored # Nil
             PROVE  ByName(template.sidecars, version.sidecars, stored.sidecars)
  BY DEF SidecarsMergedByName
<1>1. Merged(template, version, stored)
  BY MergedOneIs DEF PodInv, PodTypeOK, StoredAsMerged
<1> QED
  BY <1>1 DEF Merged

(* A version's sidecars and its template's are merged by name, and the     *)
(* version's win (mergeSidecarPtr): none is lost, none comes twice that    *)
(* did not, for lists of any length.                                       *)
THEOREM SidecarListsMergedByName ==
  ASSUME NilIsNoFunction
  PROVE  Spec => []SidecarsMergedByName
<1>1. PodInv => SidecarsMergedByName
  BY SidecarsMergedStep
<1> QED
  BY <1>1, PodInvariant, PTL

(* What the invariant says of the fields and of the lists.                 *)
LEMMA FieldsAndLists ==
  ASSUME NilIsNoFunction, PodInv, stored # Nil
  PROVE  /\ Merged(template, version, stored)
         /\ \A c \in Elements(stored.sidecars) :
              BothName(c.name) =>
                LET t == Named(template.sidecars, c.name)
                IN  \E v \in Elements(version.sidecars) :
                      /\ v.name = c.name
                      /\ c.command = Inherit(t.command, v.command)
                      /\ c.resources = Inherit(t.resources, v.resources)
                      /\ c.pull = v.pull /\ c.workingDir = t.workingDir
                      /\ Both(c.ports, t.ports, v.ports) /\ Both(c.mounts, t.mounts, v.mounts)
<1>1. /\ Merged(template, version, stored) /\ IsConfig(version)
      /\ source[1] = Nil \/ IsConfig(source[1])
      /\ template = Template(source[1])
  BY MergedOneIs DEF PodInv, PodTypeOK, StoredAsMerged
<1>2. AreSidecars(template.sidecars) /\ AreSidecars(version.sidecars)
  BY <1>1, BareIsEmpty DEF Template, IsConfig
<1> HIDE DEF template, version
<1>3. \A c \in Elements(stored.sidecars) : SidecarFrom(c, template.sidecars, version.sidecars)
  BY <1>1 DEF Merged
<1> QED
  BY <1>1, <1>2, <1>3, SharedSidecar DEF BothName

LEMMA FieldsInheritedStep ==
  ASSUME NilIsNoFunction, PodInv
  PROVE  FieldsInherited
<1> SUFFICES ASSUME stored # Nil
             PROVE  FieldsInherited
  BY DEF FieldsInherited
<1>1. \A t, v : Inherit(t, v) = Completing(v, t)
  BY DEF Inherit, Completing
<1> HIDE DEF template, version
<1> QED
  BY <1>1, FieldsAndLists DEF FieldsInherited, Merged

(* What a version leaves out it has from its template, and what it says    *)
(* wins (mergeWithSpec), in its fields, its maps and in the command and    *)
(* the resources of a shared sidecar; the sidecar's pull policy is its own *)
(* and its working directory the template's, in every case.                *)
THEOREM FieldsAreInherited ==
  ASSUME NilIsNoFunction
  PROVE  Spec => []FieldsInherited
<1>1. PodInv => FieldsInherited
  BY FieldsInheritedStep
<1> QED
  BY <1>1, PodInvariant, PTL

LEMMA JoinedOnceStep ==
  ASSUME NilIsNoFunction, PodInv
  PROVE  JoinedOnce
<1> SUFFICES ASSUME stored # Nil
             PROVE  JoinedOnce
  BY DEF JoinedOnce
<1> HIDE DEF template, version
<1> QED
  BY FieldsAndLists DEF JoinedOnce, Merged

(* What the store keeps has each volume, mount and port as often as        *)
(* template and version together, for lists of any length, however often   *)
(* the configuration is merged (onAddOrUpdate) and whatever pods are made. *)
THEOREM ListsAreJoinedOnce ==
  ASSUME NilIsNoFunction
  PROVE  Spec => []JoinedOnce
<1>1. PodInv => JoinedOnce
  BY JoinedOnceStep
<1> QED
  BY <1>1, PodInvariant, PTL

-----------------------------------------------------------------------------
(* What a pod promises *)

(* A name that one item has is the first item's.                           *)
LEMMA OnlyOne ==
  ASSUME NEW l, IsList(l), NEW n, Cardinality(Called(l, n)) = 1,
         NEW x \in Elements(l), x.name = n
  PROVE  n \in NamesIn(l) /\ x = Named(l, n)
<1>1. /\ DOMAIN Items(l) = 1 .. Len(Items(l)) /\ Len(Items(l)) \in Nat
      /\ Elements(l) = {Items(l)[i] : i \in DOMAIN Items(l)}
  BY ListIs
<1>2. IsFiniteSet(Called(l, n))
  <2>1. Called(l, n) \in SUBSET (1 .. Len(Items(l))) /\ IsFiniteSet(1 .. Len(Items(l)))
    BY <1>1, FS_Interval DEF Called
  <2> QED
    BY <2>1, FS_Subset
<1>3. PICK k : Called(l, n) = {k}
  BY <1>2, FS_Singleton
<1>4. PICK i \in DOMAIN Items(l) : x = Items(l)[i]
  BY <1>1
<1>5. n \in NamesIn(l)
  BY DEF NamesIn
<1>6. l # Nil /\ \E j \in DOMAIN l : IsFirst(l, n, j) /\ Named(l, n) = l[j]
  BY <1>5, NamedIs
<1>7. Items(l) = l
  BY <1>6 DEF Items
<1>8. PICK j \in DOMAIN l : IsFirst(l, n, j) /\ Named(l, n) = l[j]
  BY <1>6
<1>9. i \in Called(l, n) /\ j \in Called(l, n)
  BY <1>4, <1>7, <1>8 DEF Called, IsFirst
<1> QED
  BY <1>3, <1>4, <1>5, <1>7, <1>8, <1>9

(* Where no container is called like another, a sidecar of the store's has *)
(* the variables that the version and the template declare for its name.   *)
LEMMA SidecarDeclares ==
  ASSUME NilIsNoFunction, NEW ts, NEW vs, NEW ms, AreSidecars(ts), AreSidecars(vs), AreSidecars(ms),
         ByName(ts, vs, ms), NEW c \in Elements(ms), SidecarFrom(c, ts, vs),
         Cardinality(Called(ms, c.name)) = 1
  PROVE  LET n == c.name
             env(side) == IF n \in NamesIn(side) THEN Environment(Named(side, n).env) ELSE <<>>
         IN  Environment(c.env) = Overriding(env(vs), env(ts))
<1> DEFINE n == c.name
           env(side) == IF n \in NamesIn(side) THEN Environment(Named(side, n).env) ELSE <<>>
<1>1. /\ IsList(ts) /\ IsList(vs)
      /\ \A x \in Elements(ts) \cup Elements(vs) : IsSidecar(x)
  BY DEF AreSidecars
<1>2. n \in NamesIn(ms) /\ (n \in NamesIn(ts) \/ n \in NamesIn(vs))
  BY DEF ByName, NamesIn
<1>3. Cardinality(Called(IF n \in NamesIn(vs) THEN vs ELSE ts, n)) = 1
  BY <1>2 DEF ByName
<1>4. IsSidecar(c) /\ Environment(c.env) = [k \in DOMAIN Environment(c.env) |-> Environment(c.env)[k]]
  BY EnvironmentIs DEF AreSidecars, IsSidecar, IsEnv
<1>5. DOMAIN <<>> = {}
  OBVIOUS
<1>6. CASE n \in NamesIn(vs) /\ n \in NamesIn(ts)
  <2>1. PICK x \in Elements(vs) : x.name = n /\ EnvMerged(Named(ts, n).env, x.env, c.env)
    BY <1>6, SharedSidecar
  <2>2. x = Named(vs, n)
    BY <1>1, <1>3, <1>6, <2>1, OnlyOne
  <2> QED
    BY <1>6, <2>1, <2>2 DEF EnvMerged
<1>7. CASE n \in NamesIn(vs) /\ n \notin NamesIn(ts)
  <2>1. c \in Elements(ts) \cup Elements(vs)
    BY <1>7 DEF SidecarFrom
  <2>2. c \in Elements(vs)
    BY <1>7, <2>1 DEF NamesIn
  <2>3. c = Named(vs, n)
    BY <1>1, <1>3, <1>7, <2>2, OnlyOne
  <2>4. env(vs) = Environment(c.env) /\ env(ts) = <<>>
    BY <1>7, <2>3
  <2> HIDE DEF env
  <2> QED
    BY <1>4, <1>5, <2>4, NothingOver DEF env
<1>8. CASE n \notin NamesIn(vs)
  <2>1. c \in Elements(ts) \cup Elements(vs)
    BY <1>8 DEF SidecarFrom
  <2>2. c \in Elements(ts)
    BY <1>8, <2>1 DEF NamesIn
  <2>3. n \in NamesIn(ts) /\ c = Named(ts, n)
    BY <1>1, <1>3, <1>8, <2>2, OnlyOne
  <2>4. env(ts) = Environment(c.env) /\ env(vs) = <<>>
    BY <1>8, <2>3
  <2> HIDE DEF env
  <2> QED
    BY <1>4, <1>5, <2>4, NothingOver DEF env
<1> QED
  BY <1>2, <1>6, <1>7, <1>8

LEMMA EnvByPrecedenceStep ==
  ASSUME NilIsNoFunction, PodInv
  PROVE  EnvByPrecedence
<1> SUFFICES ASSUME NEW b \in Browsers, pod[b] # Nil, NEW i \in DOMAIN pod[b].containers
             PROVE  Environment(pod[b].containers[i].env)
                      = Overriding(AskedEnv(b, pod[b].containers[i].name),
                                   Declared(pod[b].containers[i].name))
  BY DEF EnvByPrecedence
<1>1. /\ source \in Sources /\ request[b] \in Requests
      /\ Accepted(pod[b]) /\ OptionsIn(request[b]) # Malformed
  BY DEF PodInv, PodTypeOK, PodsAsBuilt
<1>2. PICK m \in MergedOnes : \E x \in BuildBrowserPod(request[b], m) : pod[b] = x.pod
  BY DEF PodInv, PodsAsBuilt
<1>3. PICK x \in BuildBrowserPod(request[b], m) : pod[b] = x.pod
  BY <1>2
<1> DEFINE side == Items(m.sidecars)
           cs == pod[b].containers
           opts == OptionsIn(request[b])
           ts == template.sidecars
           vs == version.sidecars
<1>4. /\ Merged(template, version, m) /\ IsConfig(version)
      /\ source[1] = Nil \/ IsConfig(source[1])
      /\ template = Template(source[1])
  BY <1>1, MergedOneIs
<1>5. AreSidecars(ts) /\ AreSidecars(vs) /\ AreSidecars(m.sidecars) /\ ByName(ts, vs, m.sidecars)
  BY <1>4, BareIsEmpty DEF Template, IsConfig, Merged
<1>6. /\ DOMAIN cs = 1 .. (1 + Len(side)) /\ DOMAIN side = 1 .. Len(side) /\ Len(side) \in Nat
      /\ cs[1].name = "browser"
      /\ Environment(cs[1].env) = Overriding(AskedFor(opts, "browser"), Environment(m.env))
      /\ \A k \in DOMAIN side :
           /\ cs[1 + k].name = side[k].name
           /\ Environment(cs[1 + k].env)
                = Overriding(AskedFor(opts, side[k].name), Environment(side[k].env))
  BY <1>1, <1>3, <1>4, BuiltIs DEF Merged
<1>7. \A j, k \in DOMAIN cs : cs[j].name = cs[k].name => j = k
  BY <1>1 DEF Accepted
<1>8. ASSUME NEW c
      PROVE  AskedEnv(b, c) = AskedFor(opts, c)
  BY DEF AskedEnv, Asked, AskedFor, OptionsIn
<1> HIDE DEF side, cs, opts
<1>9. CASE i = 1
  <2>1. Declared("browser") = Environment(m.env)
    BY <1>4 DEF Declared, Merged
  <2> QED
    BY <1>6, <1>8, <1>9, <2>1 DEF cs
<1>10. CASE i # 1
  <2>1. PICK k \in DOMAIN side : i = 1 + k
    <3>1. i \in 1 .. (1 + Len(side))
      BY <1>6 DEF cs
    <3>2. i - 1 \in DOMAIN side /\ i = 1 + (i - 1)
      BY <1>6, <1>10, <3>1
    <3> QED
      BY <3>2
  <2> DEFINE c == side[k]
             n == c.name
             env(list) == IF n \in NamesIn(list) THEN Environment(Named(list, n).env) ELSE <<>>
  <2>2. IsList(m.sidecars) /\ c \in Elements(m.sidecars)
    <3>1. IsList(m.sidecars)
      BY <1>5 DEF AreSidecars
    <3> QED
      BY <3>1, ListIs DEF side
  <2>3. n # "browser"
    <3>1. 1 \in DOMAIN cs /\ i \in DOMAIN cs /\ cs[i].name = n
      BY <1>6, <2>1 DEF cs
    <3> QED
      BY <1>6, <1>7, <1>10, <3>1
  <2>4. Cardinality(Called(m.sidecars, n)) = 1
    <3>1. ASSUME NEW j \in Called(m.sidecars, n)
          PROVE  j = k
      <4>1. j \in DOMAIN side /\ side[j].name = n
        BY DEF Called, side
      <4>2. 1 + j \in DOMAIN cs /\ 1 + k \in DOMAIN cs /\ j \in Nat /\ k \in Nat
        BY <1>6, <2>1, <4>1
      <4>3. cs[1 + j].name = cs[1 + k].name
        BY <1>6, <2>1, <4>1
      <4> QED
        BY <1>7, <4>2, <4>3
    <3>2. k \in Called(m.sidecars, n)
      BY <2>1 DEF Called, side
    <3>3. Called(m.sidecars, n) = {k}
      BY <3>1, <3>2
    <3> QED
      BY <3>3, FS_Singleton
  <2>5. Environment(c.env) = Overriding(env(vs), env(ts))
    <3>1. SidecarFrom(c, ts, vs)
      BY <1>4, <2>2 DEF Merged
    <3> HIDE DEF c, ts, vs
    <3> QED
      BY <1>5, <2>2, <2>4, <3>1, SidecarDeclares
  <2>6. Declared(n) = Overriding(env(vs), env(ts))
    BY <2>3 DEF Declared
  <2>7. cs[i].name = n /\ Environment(cs[i].env) = Overriding(AskedFor(opts, n), Environment(c.env))
    BY <1>6, <2>1
  <2> HIDE DEF env, c
  <2> QED
    BY <1>8, <2>5, <2>6, <2>7 DEF cs
<1> QED
  BY <1>9, <1>10

(* In every container of a pod the browser's own options come before the   *)
(* version's variables and these before the template's, whatever pods were *)
(* made before.                                                            *)
THEOREM EnvironmentByPrecedence ==
  ASSUME NilIsNoFunction
  PROVE  Spec => []EnvByPrecedence
<1>1. PodInv => EnvByPrecedence
  BY EnvByPrecedenceStep
<1> QED
  BY <1>1, PodInvariant, PTL

LEMMA LabelsByPrecedenceStep ==
  ASSUME NilIsNoFunction, PodInv
  PROVE  LabelsByPrecedence
<1> SUFFICES ASSUME NEW b \in Browsers, pod[b] # Nil
             PROVE  LET opts == Asked(b)
                        asked == IF opts = Nil THEN <<>> ELSE Items(opts.labels)
                        config == Overriding(Items(version.labels), Items(template.labels))
                        notes  == Overriding(Items(version.annotations), Items(template.annotations))
                    IN  /\ Items(pod[b].labels)
                              = Overriding(asked, Overriding(config, Items(request[b].labels)))
                        /\ \A k \in DOMAIN Items(request[b].annotations) \cup DOMAIN notes :
                             IF k \in DOMAIN notes THEN pod[b].annotations[k] = notes[k]
                             ELSE IF k = OptionsKey THEN k \notin DOMAIN pod[b].annotations
                             ELSE pod[b].annotations[k] = request[b].annotations[k]
  BY DEF LabelsByPrecedence
<1>1. source \in Sources /\ request[b] \in Requests /\ OptionsIn(request[b]) # Malformed
  BY DEF PodInv, PodTypeOK, PodsAsBuilt
<1>2. PICK m \in MergedOnes : \E x \in BuildBrowserPod(request[b], m) : pod[b] = x.pod
  BY DEF PodInv, PodsAsBuilt
<1>3. PICK x \in BuildBrowserPod(request[b], m) : pod[b] = x.pod
  BY <1>2
<1> DEFINE opts == Asked(b)
           notes == Overriding(Items(version.annotations), Items(template.annotations))
           own == Items(request[b].annotations)
<1>4. Merged(template, version, m)
  BY <1>1, MergedOneIs
<1>5. /\ Items(x.pod.labels)
           = Overriding(IF opts = Nil THEN <<>> ELSE Items(opts.labels),
                        Overriding(Items(m.labels), Items(request[b].labels)))
      /\ x.pod.annotations = Overriding(Items(m.annotations), NotesOf(request[b]))
  BY <1>1, <1>3, <1>4, BuiltIs DEF Merged, Asked, OptionsIn
<1>6. /\ Items(m.labels) = Overriding(Items(version.labels), Items(template.labels))
      /\ Items(m.annotations) = notes
  BY <1>4 DEF Merged
<1> HIDE DEF notes
<1>7. pod[b].annotations = Overriding(notes, NotesOf(request[b]))
  BY <1>3, <1>5, <1>6
<1>8. /\ DOMAIN NotesOf(request[b]) = DOMAIN own \ {OptionsKey}
      /\ \A k \in DOMAIN own \ {OptionsKey} : NotesOf(request[b])[k] = request[b].annotations[k]
  BY DEF NotesOf
<1>9. ASSUME NEW k \in DOMAIN own \cup DOMAIN notes
      PROVE  IF k \in DOMAIN notes THEN pod[b].annotations[k] = notes[k]
             ELSE IF k = OptionsKey THEN k \notin DOMAIN pod[b].annotations
             ELSE pod[b].annotations[k] = request[b].annotations[k]
  BY <1>7, <1>8 DEF Overriding
<1> QED
  BY <1>3, <1>5, <1>6, <1>9 DEF notes

(* The options' labels come before the configuration's and these before    *)
(* the browser's; so do the annotations, and the one with the options is   *)
(* not passed on.                                                          *)
THEOREM MetadataByPrecedence ==
  ASSUME NilIsNoFunction
  PROVE  Spec => []LabelsByPrecedence
<1>1. PodInv => LabelsByPrecedence
  BY LabelsByPrecedenceStep
<1> QED
  BY <1>1, PodInvariant, PTL

=============================================================================
