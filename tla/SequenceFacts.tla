--------------------------- MODULE SequenceFacts ---------------------------
(***************************************************************************)
(* Facts about naturals, lists and how often something is in a list, for   *)
(* the proofs about KvsConnection, RecoverySink and BufferManager.         *)
(***************************************************************************)
EXTENDS Integers, SequencesExt, FiniteSetTheorems, WellFoundedInduction, TLAPS

\* Every set of naturals has a least element: induction without a predicate.
LEMMA LeastNatural ==
    ASSUME NEW S, S \subseteq Nat, S # {}
    PROVE  \E n \in S : \A m \in S : n <= m
<1> DEFINE L == {ss \in Nat \X Nat : ss[1] < ss[2]}
<1>1. IsWellFoundedOn(L, Nat)
  <2>1. OpToRel(<, Nat) = L
    BY DEF OpToRel
  <2>2. QED
    BY <2>1, NatLessThanWellFounded
<1>2. PICK n \in S : \A m \in S : <<m, n>> \notin L
  <2> HIDE DEF L
  <2>1. QED
    BY <1>1, WFMin
<1>3. \A m \in S : ~(m < n)
  BY <1>2
<1>4. QED
  BY <1>3

\* What is in a list that gets one element more, or loses its first.
LEMMA ElementsAppend ==
    ASSUME NEW E, NEW s \in Seq(E), NEW e \in E
    PROVE  ToSet(Append(s, e)) = ToSet(s) \cup {e}
<1> DEFINE t == Append(s, e)
<1>1. /\ DOMAIN t = DOMAIN s \cup {Len(s) + 1} /\ t[Len(s) + 1] = e
      /\ \A i \in DOMAIN s : t[i] = s[i]
  OBVIOUS
<1> HIDE DEF t
<1>2. \A x : x \in ToSet(t) <=> x \in ToSet(s) \/ x = e
  BY <1>1 DEF ToSet
<1>3. ToSet(t) = ToSet(s) \cup {e}
  BY <1>2
<1>4. QED
  BY <1>3 DEF t

\* A list is its head and what is left of it.
LEMMA ElementsTail ==
    ASSUME NEW E, NEW s \in Seq(E), s # <<>>
    PROVE  /\ Head(s) \in E /\ Tail(s) \in Seq(E)
           /\ ToSet(s) = {Head(s)} \cup ToSet(Tail(s))
<1>1. /\ Head(s) = s[1] /\ Head(s) \in E /\ Tail(s) \in Seq(E) /\ 1 \in DOMAIN s
      /\ \A i \in DOMAIN Tail(s) : i + 1 \in DOMAIN s /\ Tail(s)[i] = s[i + 1]
      /\ \A i \in DOMAIN s : i # 1 => /\ i - 1 \in DOMAIN Tail(s)
                                      /\ Tail(s)[i - 1] = s[i]
  OBVIOUS
<1>2. \A x : x \in ToSet(s) => x = Head(s) \/ x \in ToSet(Tail(s))
  BY <1>1 DEF ToSet
<1>3. \A x : x = Head(s) \/ x \in ToSet(Tail(s)) => x \in ToSet(s)
  BY <1>1 DEF ToSet
<1>4. QED
  BY <1>1, <1>2, <1>3

\* How often: the places at which a list holds something.
Places(s, x) == {i \in DOMAIN s : s[i] = x}

\* A set of places is no larger than the list is long.
LEMMA PlacesFinite ==
    ASSUME NEW E, NEW s \in Seq(E), NEW S, S \subseteq DOMAIN s
    PROVE  IsFiniteSet(S) /\ Cardinality(S) \in Nat /\ Cardinality(S) <= Len(s)
<1>1. DOMAIN s = 1..Len(s) /\ Len(s) \in Nat
  OBVIOUS
<1>2. IsFiniteSet(1..Len(s)) /\ Cardinality(1..Len(s)) = Len(s)
  <2> DEFINE n == Len(s)
  <2>1. 1 \in Int /\ n \in Int /\ n \in Nat
    BY <1>1
  <2> HIDE DEF n
  <2>2. /\ IsFiniteSet(1..n)
        /\ Cardinality(1..n) = IF 1 > n THEN 0 ELSE n - 1 + 1
    BY <2>1, FS_Interval, Zenon
  <2>3. Cardinality(1..n) = n
    BY <2>1, <2>2
  <2>4. QED
    BY <2>2, <2>3 DEF n
<1>3. S \in SUBSET (1..Len(s))
  BY <1>1
<1>4. IsFiniteSet(S) /\ Cardinality(S) <= Len(s)
  BY <1>2, <1>3, FS_Subset
<1>5. QED
  BY <1>4, FS_CardinalityType

\* An element that is appended adds a place to its own.
LEMMA PlacesAppend ==
    ASSUME NEW E, NEW s \in Seq(E), NEW e \in E, NEW x
    PROVE  Cardinality(Places(Append(s, e), x))
             = IF e = x THEN Cardinality(Places(s, x)) + 1 ELSE Cardinality(Places(s, x))
<1> DEFINE t == Append(s, e)
<1>1. /\ DOMAIN t = DOMAIN s \cup {Len(s) + 1} /\ t[Len(s) + 1] = e
      /\ \A i \in DOMAIN s : t[i] = s[i]
      /\ Len(s) + 1 \notin DOMAIN s
  OBVIOUS
<1> HIDE DEF t
<1>2. Places(t, x) = IF e = x THEN Places(s, x) \cup {Len(s) + 1} ELSE Places(s, x)
  BY <1>1 DEF Places
<1>3. IsFiniteSet(Places(s, x)) /\ Len(s) + 1 \notin Places(s, x)
  BY <1>1, PlacesFinite DEF Places
<1>4. Cardinality(Places(s, x) \cup {Len(s) + 1}) = Cardinality(Places(s, x)) + 1
  BY <1>3, FS_AddElement
<1>5. Cardinality(Places(t, x))
        = IF e = x THEN Cardinality(Places(s, x)) + 1 ELSE Cardinality(Places(s, x))
  BY <1>2, <1>4
<1>6. QED
  BY <1>5 DEF t

\* The head takes a place from its own.
LEMMA PlacesTail ==
    ASSUME NEW E, NEW s \in Seq(E), s # <<>>, NEW x
    PROVE  Cardinality(Places(Tail(s), x))
             <= IF Head(s) = x THEN Cardinality(Places(s, x)) - 1
                ELSE Cardinality(Places(s, x))
<1> DEFINE old == Places(s, x) \ {1}
           new == Places(Tail(s), x)
           shift == [i \in new |-> i + 1]
<1>1. /\ Head(s) = s[1] /\ 1 \in DOMAIN s /\ DOMAIN Tail(s) \subseteq Nat \ {0}
      /\ \A i \in DOMAIN Tail(s) : i + 1 \in DOMAIN s /\ Tail(s)[i] = s[i + 1]
  OBVIOUS
<1>2. new \subseteq Nat \ {0} /\ \A i \in new : i + 1 \in old
  BY <1>1 DEF Places
<1>3. IsFiniteSet(Places(s, x)) /\ Cardinality(Places(s, x)) \in Nat
  BY PlacesFinite DEF Places
<1>4. /\ IsFiniteSet(old)
      /\ Cardinality(old) = IF Head(s) = x THEN Cardinality(Places(s, x)) - 1
                            ELSE Cardinality(Places(s, x))
  <2>1. 1 \in Places(s, x) <=> Head(s) = x
    BY <1>1 DEF Places
  <2>2. QED
    BY <1>3, <2>1, FS_RemoveElement
<1> HIDE DEF old, new
<1>5. shift \in Injection(new, old)
  <2>1. shift \in [new -> old]
    BY <1>2
  <2>2. \A a, b \in new : a + 1 = b + 1 => a = b
    BY <1>2
  <2>3. IsInjective(shift)
    BY <2>2 DEF IsInjective
  <2>4. QED
    BY <2>1, <2>3 DEF Injection
<1>6. Cardinality(new) <= Cardinality(old)
  <2> HIDE DEF shift
  <2>1. QED
    BY <1>4, <1>5, FS_Injection
<1>7. QED
  BY <1>4, <1>6 DEF new
=============================================================================
