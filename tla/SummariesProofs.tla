---------------------------- MODULE SummariesProofs ----------------------------
(* The views of Summaries tell the same story of any entries, over any         *)
(* calendar: first what sums over finite sets are, then the views.             *)
EXTENDS Summaries, FiniteSetTheorems, TLAPS

-----------------------------------------------------------------------------
(* Sums over finite sets *)

\* A nonempty collection of subsets of a finite set has a smallest one: the
\* induction over finite sets that every lemma on sums needs.
LEMMA SmallestSubset ==
    ASSUME NEW S, IsFiniteSet(S), NEW T \in SUBSET SUBSET S, T # {}
    PROVE  \E s \in T : \A t \in T : t \subseteq s => t = s
<1>1. IsWellFoundedOn(StrictSubsetOrdering(S), SUBSET S)
  BY FS_FiniteSubsetsOfFinite, FS_StrictSubsetOrderingWellFounded
<1>2. PICK s \in T : \A t \in T : <<t, s>> \notin StrictSubsetOrdering(S)
  BY <1>1, WFMin, Zenon
<1> QED
  BY <1>2 DEF StrictSubsetOrdering

\* The element a fold over s takes first.
First(s) == CHOOSE x \in s : TRUE

\* What the fold of f over the subsets of S has to be.
IsFold(f, S, it) ==
    it = [s \in SUBSET S |-> IF s = {} THEN 0 ELSE f[First(s)] + it[s \ {First(s)}]]

FoldOf(f, S) == CHOOSE it : IsFold(f, S, it)

\* A sum is the value of such a fold at the whole set.
LEMMA SumIsFold == ASSUME NEW f, NEW S PROVE SumFunctionOnSet(f, S) = FoldOf(f, S)[S]
  BY DEF SumFunctionOnSet, FoldFunctionOnSet, MapThenFoldSet, FoldOf, IsFold, First

\* A set that is not empty has a first element.
LEMMA FirstIsIn == ASSUME NEW s, s # {} PROVE First(s) \in s
  BY DEF First

\* Two such folds agree where both are defined.
LEMMA FoldIsUnique ==
    ASSUME NEW f, NEW S, NEW T, IsFiniteSet(T), T \subseteq S, NEW a, NEW b,
           IsFold(f, S, a), IsFold(f, T, b)
    PROVE  \A s \in SUBSET T : a[s] = b[s]
<1> DEFINE bad == {s \in SUBSET T : a[s] # b[s]}
<1> SUFFICES ASSUME bad # {}
             PROVE  FALSE
  OBVIOUS
<1>1. PICK s \in bad : \A t \in bad : t \subseteq s => t = s
  <2>1. bad \in SUBSET SUBSET T
    OBVIOUS
  <2> HIDE DEF bad
  <2> QED
    BY <2>1, SmallestSubset
<1>2. /\ a[s] = IF s = {} THEN 0 ELSE f[First(s)] + a[s \ {First(s)}]
      /\ b[s] = IF s = {} THEN 0 ELSE f[First(s)] + b[s \ {First(s)}]
  BY DEF IsFold
<1>3. s # {} => a[s \ {First(s)}] = b[s \ {First(s)}]
  <2> SUFFICES ASSUME s # {}
               PROVE  a[s \ {First(s)}] = b[s \ {First(s)}]
    OBVIOUS
  <2>1. First(s) \in s
    BY FirstIsIn
  <2>2. s \ {First(s)} \subseteq s /\ s \ {First(s)} # s
    BY <2>1
  <2> QED
    BY <1>1, <2>2
<1> QED
  BY <1>2, <1>3

\* There is one.
LEMMA FoldExists ==
    ASSUME NEW f, NEW S, IsFiniteSet(S)
    PROVE  IsFold(f, S, FoldOf(f, S))
<1> DEFINE bad == {s \in SUBSET S : ~ \E it : IsFold(f, s, it)}
<1>1. ASSUME bad # {}
      PROVE  FALSE
  <2>1. PICK T \in bad : \A t \in bad : t \subseteq T => t = T
    <3>1. bad \in SUBSET SUBSET S
      OBVIOUS
    <3> HIDE DEF bad
    <3> QED
      BY <1>1, <3>1, SmallestSubset
  <2>2. T \in SUBSET S /\ ~ \E it : IsFold(f, T, it)
    OBVIOUS
  <2>3. ASSUME NEW U \in SUBSET T, U # T
        PROVE  IsFold(f, U, FoldOf(f, U))
    <3>1. \E it : IsFold(f, U, it)
      BY <2>1, <2>2, <2>3
    <3> QED
      BY <3>1 DEF FoldOf
  <2> HIDE DEF bad
  <2> DEFINE it == [s \in SUBSET T |-> IF s = {} THEN 0
                      ELSE f[First(s)] + FoldOf(f, s \ {First(s)})[s \ {First(s)}]]
  <2>4. ASSUME NEW U \in SUBSET T, U # T
        PROVE  it[U] = FoldOf(f, U)[U]
    <3>1. FoldOf(f, U)[U] = IF U = {} THEN 0 ELSE f[First(U)] + FoldOf(f, U)[U \ {First(U)}]
      BY <2>3, <2>4 DEF IsFold
    <3>2. CASE U = {}
      BY <3>1, <3>2
    <3>3. CASE U # {}
      <4> DEFINE V == U \ {First(U)}
      <4>1. First(U) \in U
        BY <3>3, FirstIsIn
      <4>2. V \subseteq U /\ V \in SUBSET T /\ V # T
        BY <4>1
      <4>3. IsFold(f, U, FoldOf(f, U)) /\ IsFold(f, V, FoldOf(f, V))
        BY <2>3, <2>4, <4>2
      <4>4. IsFiniteSet(V)
        BY <2>2, <4>2, FS_Subset
      <4> HIDE DEF V
      <4>5. \A s \in SUBSET V : FoldOf(f, U)[s] = FoldOf(f, V)[s]
        BY <4>2, <4>3, <4>4, FoldIsUnique
      <4>6. FoldOf(f, U)[V] = FoldOf(f, V)[V]
        BY <4>5
      <4> USE DEF V
      <4> QED
        BY <3>1, <3>3, <4>6
    <3> QED
      BY <3>2, <3>3
  <2>5. ASSUME NEW s \in SUBSET T, s # {}
        PROVE  FoldOf(f, s \ {First(s)})[s \ {First(s)}] = it[s \ {First(s)}]
    <3>1. First(s) \in s
      BY <2>5, FirstIsIn
    <3>2. s \ {First(s)} \in SUBSET T /\ s \ {First(s)} # T
      BY <3>1
    <3> HIDE DEF it
    <3> QED
      BY <2>4, <3>2
  <2>6. IsFold(f, T, it)
    <3>1. \A s \in SUBSET T : (IF s = {} THEN 0
                                ELSE f[First(s)] + FoldOf(f, s \ {First(s)})[s \ {First(s)}])
                              = (IF s = {} THEN 0 ELSE f[First(s)] + it[s \ {First(s)}])
      BY <2>5
    <3> QED
      BY <3>1 DEF IsFold
  <2> QED
    BY <2>2, <2>6
<1>2. \E it : IsFold(f, S, it)
  BY <1>1
<1> QED
  BY <1>2 DEF FoldOf

\* So a sum over a finite set can be taken element by element.
LEMMA SumOfNone == ASSUME NEW f PROVE SumFunctionOnSet(f, {}) = 0
<1>1. IsFold(f, {}, FoldOf(f, {}))
  BY FoldExists, FS_EmptySet
<1> QED
  BY <1>1, SumIsFold DEF IsFold

\* A sum starts with the first element.
LEMMA SumTakesFirst ==
    ASSUME NEW f, NEW S, IsFiniteSet(S), S # {}
    PROVE  SumFunctionOnSet(f, S) = f[First(S)] + SumFunctionOnSet(f, S \ {First(S)})
<1> DEFINE T == S \ {First(S)}
<1>1. T \subseteq S /\ IsFiniteSet(T)
  BY FS_Subset
<1>2. IsFold(f, S, FoldOf(f, S)) /\ IsFold(f, T, FoldOf(f, T))
  BY <1>1, FoldExists
<1>3. FoldOf(f, S)[S] = f[First(S)] + FoldOf(f, S)[T]
  BY <1>2 DEF IsFold
<1> HIDE DEF T
<1>4. FoldOf(f, S)[T] = FoldOf(f, T)[T]
  BY <1>1, <1>2, FoldIsUnique
<1> USE DEF T
<1> QED
  BY <1>3, <1>4, SumIsFold

\* The sum of numbers is one, and takes any of them first.
LEMMA SumIsNat ==
    ASSUME NEW f, NEW S, IsFiniteSet(S), \A x \in S : f[x] \in Nat
    PROVE  SumFunctionOnSet(f, S) \in Nat
<1> DEFINE bad == {s \in SUBSET S : SumFunctionOnSet(f, s) \notin Nat}
<1>1. ASSUME bad # {}
      PROVE  FALSE
  <2>1. PICK s \in bad : \A t \in bad : t \subseteq s => t = s
    <3>1. bad \in SUBSET SUBSET S
      OBVIOUS
    <3> HIDE DEF bad
    <3> QED
      BY <1>1, <3>1, SmallestSubset
  <2>2. s \in SUBSET S /\ IsFiniteSet(s) /\ SumFunctionOnSet(f, s) \notin Nat
    BY FS_Subset
  <2>3. s # {}
    BY <2>2, SumOfNone
  <2>4. First(s) \in s /\ f[First(s)] \in Nat
    BY <2>2, <2>3, FirstIsIn
  <2>5. SumFunctionOnSet(f, s \ {First(s)}) \in Nat
    BY <2>1, <2>2, <2>4
  <2> QED
    BY <2>2, <2>3, <2>4, <2>5, SumTakesFirst
<1> QED
  BY <1>1

\* Addition does not mind the order: a sum may start with any element.
LEMMA SumTakesAny ==
    ASSUME NEW f, NEW S, IsFiniteSet(S), \A x \in S : f[x] \in Nat
    PROVE  \A y \in S : SumFunctionOnSet(f, S) = f[y] + SumFunctionOnSet(f, S \ {y})
<1> DEFINE Takes(s, y) == SumFunctionOnSet(f, s) = f[y] + SumFunctionOnSet(f, s \ {y})
           bad == {s \in SUBSET S : \E y \in s : ~ Takes(s, y)}
<1>1. ASSUME bad # {}
      PROVE  FALSE
  <2>1. PICK s \in bad : \A t \in bad : t \subseteq s => t = s
    <3>1. bad \in SUBSET SUBSET S
      OBVIOUS
    <3> HIDE DEF bad
    <3> QED
      BY <1>1, <3>1, SmallestSubset
  <2>2. s \in SUBSET S /\ IsFiniteSet(s)
    BY FS_Subset
  <2>3. PICK y \in s : ~ Takes(s, y)
    OBVIOUS
  <2> DEFINE z == First(s)
             t == s \ {z}
             r == s \ {y}
  <2>4. z \in s
    BY <2>3, FirstIsIn
  <2>5. SumFunctionOnSet(f, s) = f[z] + SumFunctionOnSet(f, t)
    BY <2>2, <2>3, SumTakesFirst
  <2>6. z # y
    BY <2>3, <2>5
  <2>7. Takes(t, y) /\ Takes(r, z)
    <3>1. /\ t \in SUBSET S /\ t \subseteq s /\ t # s /\ y \in t
          /\ r \in SUBSET S /\ r \subseteq s /\ r # s /\ z \in r
      BY <2>2, <2>3, <2>4, <2>6
    <3> HIDE DEF t, r, Takes
    <3> QED
      BY <2>1, <3>1
  <2>8. t \ {y} = r \ {z} /\ t \ {y} \in SUBSET S /\ IsFiniteSet(t \ {y})
    BY <2>2, FS_Subset
  <2>9. SumFunctionOnSet(f, t \ {y}) \in Nat
    BY <2>8, SumIsNat
  <2>10. f[y] \in Nat /\ f[z] \in Nat
    BY <2>2, <2>3, <2>4
  <2> QED
    BY <2>3, <2>5, <2>7, <2>8, <2>9, <2>10
<1> QED
  BY <1>1

\* Only what is summed matters, and a sum of more is no less.
LEMMA SumIsMonotone ==
    ASSUME NEW S, IsFiniteSet(S), NEW f, NEW g,
           \A x \in S : f[x] \in Nat /\ g[x] \in Nat /\ f[x] <= g[x]
    PROVE  SumFunctionOnSet(f, S) <= SumFunctionOnSet(g, S)
<1> DEFINE bad == {s \in SUBSET S : ~ SumFunctionOnSet(f, s) <= SumFunctionOnSet(g, s)}
<1>1. ASSUME bad # {}
      PROVE  FALSE
  <2>1. PICK s \in bad : \A t \in bad : t \subseteq s => t = s
    <3>1. bad \in SUBSET SUBSET S
      OBVIOUS
    <3> HIDE DEF bad
    <3> QED
      BY <1>1, <3>1, SmallestSubset
  <2>2. /\ s \in SUBSET S /\ IsFiniteSet(s)
        /\ ~ SumFunctionOnSet(f, s) <= SumFunctionOnSet(g, s)
    BY FS_Subset
  <2> DEFINE t == s \ {First(s)}
  <2>3. s # {}
    BY <2>2, SumOfNone
  <2>4. First(s) \in s
    BY <2>3, FirstIsIn
  <2>5. t \in SUBSET S /\ IsFiniteSet(t)
    BY <2>2, FS_Subset
  <2>6. SumFunctionOnSet(f, t) <= SumFunctionOnSet(g, t)
    BY <2>1, <2>4, <2>5
  <2>7. SumFunctionOnSet(f, t) \in Nat /\ SumFunctionOnSet(g, t) \in Nat
    BY <2>5, SumIsNat
  <2> HIDE DEF bad
  <2> QED
    BY <2>2, <2>3, <2>4, <2>6, <2>7, SumTakesFirst
<1> QED
  BY <1>1

\* Equal terms have equal sums.
LEMMA SameSums ==
    ASSUME NEW S, IsFiniteSet(S), NEW f, NEW g, \A x \in S : f[x] \in Nat /\ f[x] = g[x]
    PROVE  SumFunctionOnSet(f, S) = SumFunctionOnSet(g, S)
<1>1. /\ SumFunctionOnSet(f, S) <= SumFunctionOnSet(g, S)
      /\ SumFunctionOnSet(g, S) <= SumFunctionOnSet(f, S)
  BY SumIsMonotone
<1> QED
  BY <1>1, SumIsNat

\* The sum over two sets that share nothing is the sum of both.
LEMMA SumOfTwo ==
    ASSUME NEW f, NEW A, NEW B, IsFiniteSet(A), IsFiniteSet(B), A \cap B = {},
           \A x \in A \cup B : f[x] \in Nat
    PROVE  SumFunctionOnSet(f, A \cup B) = SumFunctionOnSet(f, A) + SumFunctionOnSet(f, B)
<1> DEFINE bad == {b \in SUBSET B : SumFunctionOnSet(f, A \cup b)
                                       # SumFunctionOnSet(f, A) + SumFunctionOnSet(f, b)}
<1>1. ASSUME bad # {}
      PROVE  FALSE
  <2>1. PICK b \in bad : \A t \in bad : t \subseteq b => t = b
    <3>1. bad \in SUBSET SUBSET B
      OBVIOUS
    <3> HIDE DEF bad
    <3> QED
      BY <1>1, <3>1, SmallestSubset
  <2>2. /\ b \in SUBSET B /\ IsFiniteSet(b) /\ IsFiniteSet(A \cup b)
        /\ SumFunctionOnSet(f, A \cup b) # SumFunctionOnSet(f, A) + SumFunctionOnSet(f, b)
    BY FS_Subset, FS_Union
  <2>3. SumFunctionOnSet(f, A) \in Nat
    BY SumIsNat
  <2>4. b # {}
    BY <2>2, <2>3, SumOfNone
  <2> DEFINE z == First(b)
             t == b \ {z}
  <2>5. z \in b /\ z \in A \cup b /\ f[z] \in Nat
    BY <2>2, <2>4, FirstIsIn
  <2>6. SumFunctionOnSet(f, A \cup t) = SumFunctionOnSet(f, A) + SumFunctionOnSet(f, t)
    BY <2>1, <2>2, <2>5
  <2>7. SumFunctionOnSet(f, b) = f[z] + SumFunctionOnSet(f, t)
    BY <2>2, <2>4, SumTakesFirst
  <2>8. SumFunctionOnSet(f, A \cup b) = f[z] + SumFunctionOnSet(f, (A \cup b) \ {z})
    BY <2>2, <2>5, SumTakesAny
  <2>9. (A \cup b) \ {z} = A \cup t
    BY <2>2, <2>5
  <2>10. SumFunctionOnSet(f, t) \in Nat
    <3>1. IsFiniteSet(t) /\ \A x \in t : f[x] \in Nat
      BY <2>2, FS_Subset
    <3> QED
      BY <3>1, SumIsNat
  <2> HIDE DEF bad, t
  <2> QED
    BY <2>2, <2>3, <2>5, <2>6, <2>7, <2>8, <2>9, <2>10
<1> QED
  BY <1>1

\* A set summed part by part, over parts that share nothing and leave nothing out.
LEMMA SumOfParts ==
    ASSUME NEW S, IsFiniteSet(S), NEW f, \A x \in S : f[x] \in Nat,
           NEW K, IsFiniteSet(K), NEW part, NEW g,
           \A x \in S : \E k \in K : x \in part[k],
           \A k \in K : part[k] \subseteq S /\ g[k] = SumFunctionOnSet(f, part[k]),
           \A k, l \in K : k # l => part[k] \cap part[l] = {}
    PROVE  SumFunctionOnSet(f, S) = SumFunctionOnSet(g, K)
<1> DEFINE Of(J) == {x \in S : \E k \in J : x \in part[k]}
           bad == {J \in SUBSET K : SumFunctionOnSet(f, Of(J)) # SumFunctionOnSet(g, J)}
<1>1. ASSUME bad # {}
      PROVE  FALSE
  <2>1. PICK J \in bad : \A t \in bad : t \subseteq J => t = J
    <3>1. bad \in SUBSET SUBSET K
      OBVIOUS
    <3> HIDE DEF bad
    <3> QED
      BY <1>1, <3>1, SmallestSubset
  <2>2. /\ J \in SUBSET K /\ IsFiniteSet(J)
        /\ SumFunctionOnSet(f, Of(J)) # SumFunctionOnSet(g, J)
    BY FS_Subset
  <2>3. J # {}
    <3>1. Of({}) = {}
      OBVIOUS
    <3> QED
      BY <2>2, <3>1, SumOfNone
  <2> DEFINE z == First(J)
             t == J \ {z}
  <2>4. z \in J
    BY <2>3, FirstIsIn
  <2>5. SumFunctionOnSet(f, Of(t)) = SumFunctionOnSet(g, t)
    BY <2>1, <2>2, <2>4
  <2>6. SumFunctionOnSet(g, J) = g[z] + SumFunctionOnSet(g, t)
    BY <2>2, <2>3, SumTakesFirst
  <2>7. Of(J) = part[z] \cup Of(t) /\ part[z] \cap Of(t) = {}
    BY <2>2, <2>4
  <2>8. IsFiniteSet(part[z]) /\ IsFiniteSet(Of(t)) /\ part[z] \cup Of(t) \subseteq S
    BY <2>2, <2>4, FS_Subset
  <2> HIDE DEF Of, bad
  <2> HIDE DEF t
  <2>9. SumFunctionOnSet(f, Of(J)) = SumFunctionOnSet(f, part[z]) + SumFunctionOnSet(f, Of(t))
    <3>1. \A x \in part[z] \cup Of(t) : f[x] \in Nat
      BY <2>8
    <3>2. SumFunctionOnSet(f, part[z] \cup Of(t))
            = SumFunctionOnSet(f, part[z]) + SumFunctionOnSet(f, Of(t))
      BY <2>7, <2>8, <3>1, SumOfTwo
    <3> QED
      BY <2>7, <3>2
  <2> QED
    BY <2>2, <2>4, <2>5, <2>6, <2>9 DEF t
<1>2. Of(K) = S
  OBVIOUS
<1> QED
  BY <1>1, <1>2

\* The sum of one.
LEMMA SumOfOne == ASSUME NEW f, NEW x, f[x] \in Nat PROVE SumFunctionOnSet(f, {x}) = f[x]
<1>1. SumFunctionOnSet(f, {x}) = f[First({x})] + SumFunctionOnSet(f, {x} \ {First({x})})
  BY FS_Singleton, SumTakesFirst
<1>2. First({x}) = x /\ {x} \ {First({x})} = {}
  BY FirstIsIn
<1> QED
  BY <1>1, <1>2, SumOfNone

\* What is renamed one to one adds up the same.
LEMMA SumOfImage ==
    ASSUME NEW S, IsFiniteSet(S), NEW f, \A x \in S : f[x] \in Nat,
           NEW h, \A x, y \in S : h[x] = h[y] => x = y,
           NEW g, \A x \in S : g[h[x]] = f[x]
    PROVE  SumFunctionOnSet(g, {h[x] : x \in S}) = SumFunctionOnSet(f, S)
<1> DEFINE K == {h[x] : x \in S}
           part == [k \in K |-> {x \in S : h[x] = k}]
<1>1. IsFiniteSet(K)
  <2> DEFINE onto == [x \in S |-> h[x]]
  <2>1. onto \in Surjection(S, K)
    BY DEF Surjection
  <2> HIDE DEF onto, K
  <2> QED
    BY <2>1, FS_Surjection
<1>2. \A x \in S : \E k \in K : x \in part[k]
  OBVIOUS
<1>3. ASSUME NEW k \in K
      PROVE  part[k] \subseteq S /\ g[k] = SumFunctionOnSet(f, part[k])
  <2>1. PICK x \in S : k = h[x]
    OBVIOUS
  <2>2. part[k] = {x}
    BY <2>1
  <2>3. SumFunctionOnSet(f, {x}) = f[x] /\ g[h[x]] = f[x]
    BY <2>1, SumOfOne
  <2> HIDE DEF part, K
  <2> QED
    BY <2>1, <2>2, <2>3
<1>4. \A k, l \in K : k # l => part[k] \cap part[l] = {}
  OBVIOUS
<1> HIDE DEF part, K
<1>5. SumFunctionOnSet(f, S) = SumFunctionOnSet(g, K)
  BY <1>1, <1>2, <1>3, <1>4, SumOfParts
<1> QED
  BY <1>5 DEF K

-----------------------------------------------------------------------------
(* Types *)

\* The entries, the non-working days and the clock stay what the tables hold.
THEOREM SummariesAreTyped == Spec => []TypeOK
<1>1. Init => TypeOK
  BY DEF Init, TypeOK
<1>2. TypeOK /\ [Next]_vars => TypeOK'
  <2> SUFFICES ASSUME TypeOK, [Next]_vars
               PROVE  TypeOK'
    OBVIOUS
  <2>1. ASSUME NEW k \in Users \X Items \X Days, NEW quantity \in Quantities \cup {0},
               Book(k, quantity)
        PROVE  TypeOK'
    BY <2>1 DEF Book, TypeOK
  <2>2. CASE CalendarStep
    <3>1. ASSUME NEW d \in Days, NEW kind \in Kinds, AddNonWorkingDay(d, kind)
          PROVE  TypeOK'
      BY <3>1, SummariesAssumption DEF AddNonWorkingDay, TypeOK
    <3>2. ASSUME NEW d \in Days, NEW new \in Days, UpdateNonWorkingDay(d, new)
          PROVE  TypeOK'
      BY <3>2 DEF UpdateNonWorkingDay, TypeOK
    <3>3. ASSUME NEW d \in Days, DeleteNonWorkingDay(d)
          PROVE  TypeOK'
      BY <3>3 DEF DeleteNonWorkingDay, TypeOK
    <3>4. ASSUME NEW m \in Months, ImportPublicHolidays(YearOf[m])
          PROVE  TypeOK'
      BY <3>4 DEF ImportPublicHolidays, TypeOK, NonWorkingDayKind
    <3> QED
      BY <2>2, <3>1, <3>2, <3>3, <3>4 DEF CalendarStep
  <2>3. CASE Midnight
    BY <2>3 DEF Midnight, TypeOK
  <2>4. CASE UNCHANGED vars
    BY <2>4 DEF vars, TypeOK
  <2> QED
    BY <2>1, <2>2, <2>3, <2>4 DEF Next
<1> QED
  BY <1>1, <1>2, PTL DEF Spec

-----------------------------------------------------------------------------
(* Quantities *)

\* There are finitely many rows to add up.
LEMMA KeysAreFinite == IsFiniteSet(Users \X Items \X Days)
<1> DEFINE pairs == (Users \X Items) \X Days
           onto == [q \in pairs |-> <<q[1][1], q[1][2], q[2]>>]
<1>1. IsFiniteSet(pairs)
  <2>1. IsFiniteSet(Users \X Items) /\ IsFiniteSet(Days)
    BY SummariesAssumption, FS_Product
  <2> QED
    BY <2>1, FS_Product
<1>2. onto \in Surjection(pairs, Users \X Items \X Days)
  <2>1. \A q \in pairs : onto[q] \in Users \X Items \X Days
    OBVIOUS
  <2>2. ASSUME NEW k \in Users \X Items \X Days
        PROVE  \E q \in pairs : onto[q] = k
    <3>1. <<<<k[1], k[2]>>, k[3]>> \in pairs
      OBVIOUS
    <3>2. onto[<<<<k[1], k[2]>>, k[3]>>] = k
      BY <3>1
    <3> QED
      BY <3>1, <3>2
  <2> QED
    BY <2>1, <2>2 DEF Surjection
<1> HIDE DEF pairs, onto
<1> QED
  BY <1>1, <1>2, FS_Surjection

\* The rows a query of these users, items and days adds up.
Selected(us, is, ds) == {k \in us \X is \X ds : entry[k] > 0}

\* The selected rows are finitely many, and a quantity is the sum of theirs.
LEMMA SelectedRows ==
    ASSUME TypeOK, NEW us \in SUBSET Users, NEW is \in SUBSET Items, NEW ds \in SUBSET Days
    PROVE  /\ IsFiniteSet(Selected(us, is, ds))
           /\ Selected(us, is, ds) \subseteq Users \X Items \X Days
           /\ \A k \in Selected(us, is, ds) : entry[k] \in Nat
           /\ Quantity(us, is, ds) = SumFunctionOnSet(entry, Selected(us, is, ds))
           /\ Quantity(us, is, ds) \in Nat
<1>1. Selected(us, is, ds) \in SUBSET (Users \X Items \X Days)
  BY DEF Selected
<1>2. \A k \in Users \X Items \X Days : entry[k] \in Nat
  <2> DEFINE keys == Users \X Items \X Days
  <2>1. entry \in [keys -> Quantities \cup {0}] /\ Quantities \cup {0} \subseteq Nat
    BY SummariesAssumption DEF TypeOK
  <2> HIDE DEF keys
  <2>2. \A k \in keys : entry[k] \in Nat
    BY <2>1
  <2> QED
    BY <2>2 DEF keys
<1>3. IsFiniteSet(Selected(us, is, ds))
  BY <1>1, KeysAreFinite, FS_Subset
<1>4. Quantity(us, is, ds) = SumFunctionOnSet(entry, Selected(us, is, ds))
  BY DEF Quantity, Selected
<1>5. SumFunctionOnSet(entry, Selected(us, is, ds)) \in Nat
  BY <1>1, <1>2, <1>3, SumIsNat
<1> QED
  BY <1>1, <1>2, <1>3, <1>4, <1>5

\* A quantity is the sum of those of its days, or groups of days: weeks and months.
LEMMA QuantityByDays ==
    ASSUME TypeOK, NEW us \in SUBSET Users, NEW is \in SUBSET Items, NEW ds \in SUBSET Days,
           NEW K, IsFiniteSet(K), NEW dd, NEW g,
           \A d \in ds : \E k \in K : d \in dd[k],
           \A k \in K : dd[k] \subseteq ds /\ g[k] = Quantity(us, is, dd[k]),
           \A k, l \in K : k # l => dd[k] \cap dd[l] = {}
    PROVE  Quantity(us, is, ds) = SumFunctionOnSet(g, K)
<1> DEFINE S == Selected(us, is, ds)
           part == [k \in K |-> Selected(us, is, dd[k])]
<1>1. /\ IsFiniteSet(S) /\ \A k \in S : entry[k] \in Nat
      /\ Quantity(us, is, ds) = SumFunctionOnSet(entry, S)
  BY SelectedRows
<1>2. \A k \in K : g[k] = SumFunctionOnSet(entry, part[k])
  BY SelectedRows
<1>3. /\ \A x \in S : \E k \in K : x \in part[k]
      /\ \A k \in K : part[k] \subseteq S
      /\ \A k, l \in K : k # l => part[k] \cap part[l] = {}
  BY DEF Selected
<1> HIDE DEF S, part
<1> QED
  BY <1>1, <1>2, <1>3, SumOfParts

\* By billing items, or groups of them: the projects.
LEMMA QuantityByItems ==
    ASSUME TypeOK, NEW us \in SUBSET Users, NEW is \in SUBSET Items, NEW ds \in SUBSET Days,
           NEW K, IsFiniteSet(K), NEW ii, NEW g,
           \A i \in is : \E k \in K : i \in ii[k],
           \A k \in K : ii[k] \subseteq is /\ g[k] = Quantity(us, ii[k], ds),
           \A k, l \in K : k # l => ii[k] \cap ii[l] = {}
    PROVE  Quantity(us, is, ds) = SumFunctionOnSet(g, K)
<1> DEFINE S == Selected(us, is, ds)
           part == [k \in K |-> Selected(us, ii[k], ds)]
<1>1. /\ IsFiniteSet(S) /\ \A k \in S : entry[k] \in Nat
      /\ Quantity(us, is, ds) = SumFunctionOnSet(entry, S)
  BY SelectedRows
<1>2. \A k \in K : g[k] = SumFunctionOnSet(entry, part[k])
  BY SelectedRows
<1>3. /\ \A x \in S : \E k \in K : x \in part[k]
      /\ \A k \in K : part[k] \subseteq S
      /\ \A k, l \in K : k # l => part[k] \cap part[l] = {}
  BY DEF Selected
<1> HIDE DEF S, part
<1> QED
  BY <1>1, <1>2, <1>3, SumOfParts

\* And by users.
LEMMA QuantityByUsers ==
    ASSUME TypeOK, NEW us \in SUBSET Users, NEW is \in SUBSET Items, NEW ds \in SUBSET Days,
           NEW K, IsFiniteSet(K), NEW uu, NEW g,
           \A u \in us : \E k \in K : u \in uu[k],
           \A k \in K : uu[k] \subseteq us /\ g[k] = Quantity(uu[k], is, ds),
           \A k, l \in K : k # l => uu[k] \cap uu[l] = {}
    PROVE  Quantity(us, is, ds) = SumFunctionOnSet(g, K)
<1> DEFINE S == Selected(us, is, ds)
           part == [k \in K |-> Selected(uu[k], is, ds)]
<1>1. /\ IsFiniteSet(S) /\ \A k \in S : entry[k] \in Nat
      /\ Quantity(us, is, ds) = SumFunctionOnSet(entry, S)
  BY SelectedRows
<1>2. \A k \in K : g[k] = SumFunctionOnSet(entry, part[k])
  BY SelectedRows
<1>3. /\ \A x \in S : \E k \in K : x \in part[k]
      /\ \A k \in K : part[k] \subseteq S
      /\ \A k, l \in K : k # l => part[k] \cap part[l] = {}
  BY DEF Selected
<1> HIDE DEF S, part
<1> QED
  BY <1>1, <1>2, <1>3, SumOfParts

\* The presets of hours are four.
LEMMA HoursAreFinite ==
    /\ IsFiniteSet({"other"}) /\ IsFiniteSet({"travel", "other"})
    /\ IsFiniteSet({"overtime", "travel", "other"}) /\ IsFiniteSet(HourPresets)
<1>1. IsFiniteSet({"other"})
  BY FS_Singleton
<1>2. IsFiniteSet({"other"} \cup {"travel"})
  BY <1>1, FS_AddElement
<1>3. IsFiniteSet(({"other"} \cup {"travel"}) \cup {"overtime"})
  BY <1>2, FS_AddElement
<1>4. IsFiniteSet((({"other"} \cup {"travel"}) \cup {"overtime"}) \cup {"normal"})
  BY <1>3, FS_AddElement
<1>5. /\ {"other"} \cup {"travel"} = {"travel", "other"}
      /\ ({"other"} \cup {"travel"}) \cup {"overtime"} = {"overtime", "travel", "other"}
      /\ (({"other"} \cup {"travel"}) \cup {"overtime"}) \cup {"normal"} = HourPresets
  BY DEF HourPresets
<1> QED
  BY <1>1, <1>2, <1>3, <1>4, <1>5

\* The hours of an accumulator are its four presets, so those of the hour items.
LEMMA SumOfHours ==
    ASSUME NEW acc, \A preset \in HourPresets : acc[preset] \in Nat
    PROVE  SumFunctionOnSet(acc, HourPresets) = TotalHours(acc)
<1>1. /\ HourPresets \ {"normal"} = {"overtime", "travel", "other"}
      /\ {"overtime", "travel", "other"} \ {"overtime"} = {"travel", "other"}
      /\ {"travel", "other"} \ {"travel"} = {"other"}
  BY DEF HourPresets
<1>2. \A preset \in {"normal", "overtime", "travel", "other"} : acc[preset] \in Nat
  BY DEF HourPresets
<1>3. SumFunctionOnSet(acc, {"travel", "other"})
        = acc["travel"] + SumFunctionOnSet(acc, {"other"})
  BY HoursAreFinite, <1>1, <1>2, SumTakesAny
<1>4. SumFunctionOnSet(acc, {"overtime", "travel", "other"})
        = acc["overtime"] + SumFunctionOnSet(acc, {"travel", "other"})
  BY HoursAreFinite, <1>1, <1>2, SumTakesAny
<1>5. SumFunctionOnSet(acc, HourPresets)
        = acc["normal"] + SumFunctionOnSet(acc, {"overtime", "travel", "other"})
  BY HoursAreFinite, <1>1, <1>2, SumTakesAny DEF HourPresets
<1>6. SumFunctionOnSet(acc, {"other"}) = acc["other"]
  BY <1>2, SumOfOne
<1> QED
  BY <1>2, <1>3, <1>4, <1>5, <1>6 DEF TotalHours

\* By presets, too, a quantity is the sum of its parts.
LEMMA HoursOfAccumulated ==
    ASSUME TypeOK, NEW us \in SUBSET Users, NEW is \in SUBSET Items, NEW ds \in SUBSET Days
    PROVE  TotalHours(Accumulated(us, is, ds)) = Quantity(us, is \cap HourItems, ds)
<1> DEFINE acc == Accumulated(us, is, ds)
           ii == [preset \in HourPresets |-> {i \in is : PresetOf[i] = preset}]
<1>1. \A preset \in HourPresets :
        /\ acc[preset] = Quantity(us, ii[preset], ds)
        /\ ii[preset] \in SUBSET Items
  BY DEF Accumulated, Presets
<1>2. ASSUME NEW preset \in HourPresets
      PROVE  acc[preset] \in Nat
  <2> HIDE DEF acc, ii
  <2> QED
    BY <1>1, SelectedRows
<1>3. /\ \A i \in is \cap HourItems : \E preset \in HourPresets : i \in ii[preset]
      /\ \A preset \in HourPresets : ii[preset] \subseteq is \cap HourItems
      /\ \A k, l \in HourPresets : k # l => ii[k] \cap ii[l] = {}
  BY DEF HourItems
<1> HIDE DEF acc, ii
<1>4. Quantity(us, is \cap HourItems, ds) = SumFunctionOnSet(acc, HourPresets)
  <2>1. is \cap HourItems \in SUBSET Items
    OBVIOUS
  <2> QED
    BY <1>1, <1>3, <2>1, HoursAreFinite, QuantityByItems
<1> QED
  BY <1>2, <1>4, SumOfHours DEF acc

-----------------------------------------------------------------------------
(* Weeks *)

\* There are finitely many weeks.
LEMMA WeeksAreFinite == IsFiniteSet({WeekOf[d] : d \in Days})
<1> DEFINE weeks == {WeekOf[d] : d \in Days}
           onto == [d \in Days |-> WeekOf[d]]
<1>1. onto \in Surjection(Days, weeks)
  BY DEF Surjection
<1> HIDE DEF onto, weeks
<1>2. IsFiniteSet(weeks)
  BY <1>1, SummariesAssumption, FS_Surjection
<1> QED
  BY <1>2 DEF weeks

\* The weeks of the rolling window have the hours of its days, and so do its projects.
LEMMA WindowByWeek ==
    ASSUME TypeOK, NEW u \in Users, NEW n \in 1..MaxWeeks
    PROVE  SumFunction([w \in WeeksShown(n) |-> TotalHours(WeekRow(u, w).totals)])
             = Quantity({u}, HourItems, WindowDays(n))
<1> DEFINE K == WeeksShown(n)
           dd == [w \in K |-> DaysOfWeek(w)]
           g == [w \in K |-> TotalHours(WeekRow(u, w).totals)]
<1>1. IsFiniteSet(K)
  BY WeeksAreFinite, FS_Subset DEF WeeksShown
<1>2. HourItems \in SUBSET Items /\ WindowDays(n) \in SUBSET Days /\ {u} \in SUBSET Users
  BY DEF HourItems, WindowDays
<1>3. /\ \A d \in WindowDays(n) : \E w \in K : d \in dd[w]
      /\ \A w \in K : dd[w] \subseteq WindowDays(n)
      /\ \A v, w \in K : v # w => dd[v] \cap dd[w] = {}
  BY DEF WindowDays, DaysOfWeek
<1>4. ASSUME NEW w \in K
      PROVE  g[w] = Quantity({u}, HourItems, dd[w])
  <2>1. g[w] = TotalHours(Accumulated({u}, HourItems, DaysOfWeek(w)))
    BY DEF WeekRow
  <2>2. DaysOfWeek(w) \in SUBSET Days /\ HourItems \cap HourItems = HourItems
    BY DEF DaysOfWeek
  <2> QED
    BY <1>2, <2>1, <2>2, HoursOfAccumulated
<1>5. SumFunction(g) = SumFunctionOnSet(g, K)
  BY DEF SumFunction
<1> HIDE DEF K, dd, g
<1>6. Quantity({u}, HourItems, WindowDays(n)) = SumFunctionOnSet(g, K)
  <2> DEFINE us == {u}
  <2>1. us \in SUBSET Users /\ \A w \in K : g[w] = Quantity(us, HourItems, dd[w])
    BY <1>4
  <2> HIDE DEF us
  <2>2. Quantity(us, HourItems, WindowDays(n)) = SumFunctionOnSet(g, K)
    BY <1>1, <1>2, <1>3, <2>1, QuantityByDays
  <2> QED
    BY <2>2 DEF us
<1> QED
  BY <1>5, <1>6 DEF g, K

\* Every hour item is of one project.
LEMMA HoursByProject ==
    ASSUME TypeOK, NEW u \in Users, NEW ds \in SUBSET Days, NEW g,
           \A p \in Projects : g[p] = TotalHours(Accumulated({u}, HourItems \cap ItemsOf(p), ds))
    PROVE  SumFunctionOnSet(g, Projects) = Quantity({u}, HourItems, ds)
<1> DEFINE ii == [p \in Projects |-> HourItems \cap ItemsOf(p)]
<1>1. HourItems \in SUBSET Items /\ {u} \in SUBSET Users /\ IsFiniteSet(Projects)
  BY SummariesAssumption DEF HourItems
<1>2. /\ \A i \in HourItems : \E p \in Projects : i \in ii[p]
      /\ \A p \in Projects : ii[p] \subseteq HourItems
      /\ \A p, q \in Projects : p # q => ii[p] \cap ii[q] = {}
  BY SummariesAssumption DEF HourItems, ItemsOf
<1>3. ASSUME NEW p \in Projects
      PROVE  g[p] = Quantity({u}, ii[p], ds)
  <2>1. /\ HourItems \cap ItemsOf(p) \in SUBSET Items
        /\ (HourItems \cap ItemsOf(p)) \cap HourItems = HourItems \cap ItemsOf(p)
    BY DEF HourItems
  <2> QED
    BY <1>1, <2>1, HoursOfAccumulated
<1> HIDE DEF ii
<1> DEFINE us == {u}
<1>4. us \in SUBSET Users /\ \A p \in Projects : g[p] = Quantity(us, ii[p], ds)
  BY <1>3
<1> HIDE DEF us
<1>5. Quantity(us, HourItems, ds) = SumFunctionOnSet(g, Projects)
  BY <1>1, <1>2, <1>4, QuantityByItems
<1> QED
  BY <1>5 DEF us

\* The projects of the rolling window have the hours of its days.
LEMMA WindowByProject ==
    ASSUME TypeOK, NEW u \in Users, NEW n \in 1..MaxWeeks
    PROVE  SumFunction([p \in Projects |-> TotalHours(WeeklyHours(u, n).projects[p])])
             = Quantity({u}, HourItems, WindowDays(n))
<1> DEFINE g == [p \in Projects |-> TotalHours(WeeklyHours(u, n).projects[p])]
<1>1. \A p \in Projects :
        g[p] = TotalHours(Accumulated({u}, HourItems \cap ItemsOf(p), WindowDays(n)))
  BY DEF WeeklyHours
<1>2. WindowDays(n) \in SUBSET Days
  BY DEF WindowDays
<1>3. SumFunction(g) = SumFunctionOnSet(g, Projects)
  BY DEF SumFunction
<1> HIDE DEF g
<1>4. SumFunctionOnSet(g, Projects) = Quantity({u}, HourItems, WindowDays(n))
  BY <1>1, <1>2, HoursByProject
<1> QED
  BY <1>3, <1>4 DEF g

\* A week is the same in the rolling window and in the calendar of every month it is a
\* part of, and the window's projects have all of its hours.
THEOREM WeeksAlwaysAgree == Spec => []WeeksAgree
<1>1. TypeOK => WeeksAgree
  <2> SUFFICES ASSUME TypeOK, NEW u \in Users, NEW n \in 1..MaxWeeks
               PROVE  LET window == WeeklyHours(u, n)
                          hours(w) == TotalHours(window.weeks[w].totals)
                      IN  /\ \A w \in DOMAIN window.weeks, m \in Months :
                               w \in WeeksOfMonth(m) =>
                                 /\ MonthCalendar(u, m).weeks[w].hours = hours(w)
                                 /\ MonthCalendar(u, m).weeks[w].expected
                                      = window.weeks[w].expected
                          /\ SumFunction([w \in DOMAIN window.weeks |-> hours(w)])
                               = SumFunction([p \in Projects |-> TotalHours(window.projects[p])])
    BY DEF WeeksAgree
  <2> DEFINE window == WeeklyHours(u, n)
             hours(w) == TotalHours(window.weeks[w].totals)
  <2>1. window.weeks = [w \in WeeksShown(n) |-> WeekRow(u, w)]
    BY DEF WeeklyHours
  <2>2. ASSUME NEW w \in WeeksShown(n), NEW m \in Months, w \in WeeksOfMonth(m)
        PROVE  /\ MonthCalendar(u, m).weeks[w].hours = hours(w)
               /\ MonthCalendar(u, m).weeks[w].expected = window.weeks[w].expected
    <3>1. MonthCalendar(u, m).weeks[w] = CalendarWeek(u, w)
      BY <2>2 DEF MonthCalendar
    <3>2. hours(w) = TotalHours(Accumulated({u}, HourItems, DaysOfWeek(w)))
      BY <2>1 DEF WeekRow
    <3>3. window.weeks[w].expected = Expected(DaysOfWeek(w))
      BY <2>1 DEF WeekRow
    <3>4. /\ HourItems \in SUBSET Items /\ DaysOfWeek(w) \in SUBSET Days
          /\ {u} \in SUBSET Users /\ HourItems \cap HourItems = HourItems
      BY DEF HourItems, DaysOfWeek
    <3>5. hours(w) = Quantity({u}, HourItems, DaysOfWeek(w))
      BY <3>2, <3>4, HoursOfAccumulated
    <3> QED
      BY <3>1, <3>3, <3>5 DEF CalendarWeek
  <2>3. [w \in DOMAIN window.weeks |-> hours(w)]
          = [w \in WeeksShown(n) |-> TotalHours(WeekRow(u, w).totals)]
    BY <2>1
  <2>4. SumFunction([w \in DOMAIN window.weeks |-> hours(w)])
          = SumFunction([p \in Projects |-> TotalHours(window.projects[p])])
    BY <2>3, WindowByWeek, WindowByProject
  <2>5. DOMAIN window.weeks = WeeksShown(n)
    BY <2>1
  <2> QED
    BY <2>2, <2>4, <2>5
<1> QED
  BY <1>1, SummariesAreTyped, PTL

-----------------------------------------------------------------------------
(* Months and years *)

\* A month that merges its billing items has the hours of a query over all of them.
LEMMA ItemsMerge ==
    ASSUME TypeOK, NEW u \in Users, NEW m \in Months
    PROVE  MonthRow(u, m).totals = Accumulated({u}, HourItems, DaysOfMonth(m))
<1> DEFINE ds == DaysOfMonth(m)
           us == {u}
           byItem == [i \in HourItems |-> Accumulated(us, {i}, ds)]
<1>1. us \in SUBSET Users /\ ds \in SUBSET Days /\ IsFiniteSet(HourItems)
  BY SummariesAssumption, FS_Subset DEF DaysOfMonth, HourItems
<1>2. MonthRow(u, m).totals
        = [preset \in Presets |-> SumFunction([i \in HourItems |-> byItem[i][preset]])]
  BY DEF MonthRow, Merged
<1>3. ASSUME NEW preset \in Presets
      PROVE  SumFunction([i \in HourItems |-> byItem[i][preset]])
               = Quantity(us, {i \in HourItems : PresetOf[i] = preset}, ds)
  <2> DEFINE g == [i \in HourItems |-> byItem[i][preset]]
             is == {i \in HourItems : PresetOf[i] = preset}
             ii == [i \in HourItems |-> {j \in {i} : PresetOf[j] = preset}]
  <2>1. \A i \in HourItems : g[i] = Quantity(us, ii[i], ds)
    BY DEF Accumulated
  <2>2. SumFunction(g) = SumFunctionOnSet(g, HourItems)
    BY DEF SumFunction
  <2>3. /\ is \in SUBSET Items
        /\ \A i \in is : \E k \in HourItems : i \in ii[k]
        /\ \A k \in HourItems : ii[k] \subseteq is
        /\ \A k, l \in HourItems : k # l => ii[k] \cap ii[l] = {}
    BY DEF HourItems
  <2> HIDE DEF g, is, ii, us, ds
  <2>4. Quantity(us, is, ds) = SumFunctionOnSet(g, HourItems)
    BY <1>1, <2>1, <2>3, QuantityByItems
  <2> QED
    BY <2>2, <2>4 DEF g, is
<1>4. Accumulated({u}, HourItems, DaysOfMonth(m))
        = [preset \in Presets |-> Quantity(us, {i \in HourItems : PresetOf[i] = preset}, ds)]
  BY DEF Accumulated
<1> HIDE DEF byItem, us, ds
<1> QED
  BY <1>2, <1>3, <1>4

\* A year that merges its months has those of a query over all of their days.
LEMMA MonthsMerge ==
    ASSUME TypeOK, NEW u \in Users, NEW y
    PROVE  YearHours(u, y).totals
             = Accumulated({u}, HourItems, {d \in Days : MonthOf[d] \in MonthsShown(y)})
<1> DEFINE K == MonthsShown(y)
           ds == {d \in Days : MonthOf[d] \in K}
           us == {u}
           accs == [m \in K |-> Accumulated(us, HourItems, DaysOfMonth(m))]
<1>1. us \in SUBSET Users /\ ds \in SUBSET Days /\ K \in SUBSET Months /\ IsFiniteSet(K)
  BY SummariesAssumption, FS_Subset DEF MonthsShown
<1>2. YearHours(u, y).totals = Merged(accs, K)
  <2>1. YearHours(u, y).totals = Merged([m \in K |-> MonthRow(u, m).totals], K)
    <3>1. [m \in K |-> [n \in K |-> MonthRow(u, n)][m].totals]
            = [m \in K |-> MonthRow(u, m).totals]
      OBVIOUS
    <3> QED
      BY <3>1 DEF YearHours
  <2>2. \A m \in K : MonthRow(u, m).totals = Accumulated(us, HourItems, DaysOfMonth(m))
    BY <1>1, ItemsMerge
  <2>3. [m \in K |-> MonthRow(u, m).totals] = accs
    BY <2>2
  <2> QED
    BY <2>1, <2>3
<1>3. ASSUME NEW preset \in Presets
      PROVE  SumFunction([m \in K |-> accs[m][preset]])
               = Quantity(us, {i \in HourItems : PresetOf[i] = preset}, ds)
  <2> DEFINE g == [m \in K |-> accs[m][preset]]
             is == {i \in HourItems : PresetOf[i] = preset}
             dd == [m \in K |-> DaysOfMonth(m)]
  <2>1. \A m \in K : g[m] = Quantity(us, is, dd[m])
    BY DEF Accumulated
  <2>2. SumFunction(g) = SumFunctionOnSet(g, K)
    BY DEF SumFunction
  <2>3. /\ is \in SUBSET Items
        /\ \A d \in ds : \E m \in K : d \in dd[m]
        /\ \A m \in K : dd[m] \subseteq ds
        /\ \A k, l \in K : k # l => dd[k] \cap dd[l] = {}
    BY DEF HourItems, DaysOfMonth
  <2> HIDE DEF g, is, dd, us, ds, K
  <2>4. Quantity(us, is, ds) = SumFunctionOnSet(g, K)
    BY <1>1, <2>1, <2>3, QuantityByDays
  <2> QED
    BY <2>2, <2>4 DEF g, is
<1>4. Accumulated(us, HourItems, ds)
        = [preset \in Presets |-> Quantity(us, {i \in HourItems : PresetOf[i] = preset}, ds)]
  BY DEF Accumulated
<1>5. Merged(accs, K) = [preset \in Presets |-> SumFunction([m \in K |-> accs[m][preset]])]
  BY DEF Merged
<1> HIDE DEF accs
<1> QED
  BY <1>2, <1>3, <1>4, <1>5

\* The hours of the projects listed under a month are the month's.
LEMMA MonthByProject ==
    ASSUME TypeOK, NEW u \in Users, NEW m \in Months
    PROVE  /\ SumFunction([p \in Projects |-> TotalHours(MonthRow(u, m).projects[p])])
                = Quantity({u}, HourItems, DaysOfMonth(m))
           /\ TotalHours(MonthRow(u, m).totals) = Quantity({u}, HourItems, DaysOfMonth(m))
<1> DEFINE ds == DaysOfMonth(m)
           us == {u}
           g == [p \in Projects |-> TotalHours(MonthRow(u, m).projects[p])]
<1>1. us \in SUBSET Users /\ ds \in SUBSET Days /\ HourItems \in SUBSET Items
  BY DEF DaysOfMonth, HourItems
<1>2. ASSUME NEW p \in Projects
      PROVE  g[p] = TotalHours(Accumulated(us, HourItems \cap ItemsOf(p), ds))
  <2>1. g[p] = TotalHours(Accumulated(us, ItemsOf(p), ds))
    BY DEF MonthRow, ProjectHours
  <2>2. /\ ItemsOf(p) \in SUBSET Items /\ HourItems \cap ItemsOf(p) \in SUBSET Items
        /\ ItemsOf(p) \cap HourItems = (HourItems \cap ItemsOf(p)) \cap HourItems
    BY DEF ItemsOf
  <2> HIDE DEF g, us, ds
  <2> QED
    BY <1>1, <2>1, <2>2, HoursOfAccumulated
<1>3. SumFunction(g) = SumFunctionOnSet(g, Projects)
  BY DEF SumFunction
<1>4. SumFunctionOnSet(g, Projects) = Quantity({u}, HourItems, ds)
  <2> HIDE DEF g, ds
  <2> QED
    BY <1>1, <1>2, HoursByProject
<1>5. TotalHours(MonthRow(u, m).totals) = Quantity(us, HourItems, ds)
  <2>1. HourItems \cap HourItems = HourItems
    OBVIOUS
  <2>2. MonthRow(u, m).totals = Accumulated(us, HourItems, ds)
    BY ItemsMerge
  <2> HIDE DEF us, ds
  <2> QED
    BY <1>1, <2>1, <2>2, HoursOfAccumulated
<1> QED
  BY <1>3, <1>4, <1>5

\* More days are not fewer hours.
LEMMA ExpectedGrows ==
    ASSUME NEW ds \in SUBSET Days, NEW es \in SUBSET ds
    PROVE  Expected(es) \in Nat /\ Expected(ds) \in Nat /\ Expected(es) <= Expected(ds)
<1> DEFINE a == {d \in es : IsWorkingDay(d)}
           b == {d \in ds : IsWorkingDay(d)}
<1>1. IsFiniteSet(b) /\ a \in SUBSET b
  BY SummariesAssumption, FS_Subset
<1>2. Expected(es) = HoursPerDay * Cardinality(a) /\ Expected(ds) = HoursPerDay * Cardinality(b)
  BY DEF Expected
<1> HIDE DEF a, b
<1>3. /\ Cardinality(a) \in Nat /\ Cardinality(b) \in Nat /\ HoursPerDay \in Nat
      /\ Cardinality(a) <= Cardinality(b)
  BY <1>1, SummariesAssumption, FS_Subset, FS_CardinalityType
<1>4. \A h, x, y \in Nat : x <= y => h * x \in Nat /\ h * y \in Nat /\ h * x <= h * y
  OBVIOUS
<1> QED
  BY <1>2, <1>3, <1>4

\* Before the current month every day has passed.
LEMMA PastMonthsHavePassed ==
    ASSUME TypeOK, NEW m \in Months, m <= ThisMonth, m # ThisMonth
    PROVE  ToDate(DaysOfMonth(m)) = DaysOfMonth(m)
<1>1. ASSUME NEW d \in Days, MonthOf[d] = m
      PROVE  d <= today
  <2>1. /\ today \in Days /\ d \in Nat /\ today \in Nat /\ m \in Nat
        /\ MonthOf[today] \in Nat
        /\ today <= d => MonthOf[today] <= m
    BY <1>1, SummariesAssumption DEF TypeOK
  <2> QED
    BY <2>1 DEF ThisMonth
<1> QED
  BY <1>1 DEF ToDate, DaysOfMonth

\* So a month's hours to date are those of its days until today, and no more than it has.
LEMMA MonthExpected ==
    ASSUME TypeOK, NEW m \in Months, m <= ThisMonth
    PROVE  /\ ExpectedToDate(DaysOfMonth(m), m = ThisMonth) = Expected(ToDate(DaysOfMonth(m)))
           /\ ExpectedToDate(DaysOfMonth(m), m = ThisMonth) \in Nat
           /\ Expected(DaysOfMonth(m)) \in Nat
           /\ ExpectedToDate(DaysOfMonth(m), m = ThisMonth) <= Expected(DaysOfMonth(m))
<1>1. DaysOfMonth(m) \in SUBSET Days /\ ToDate(DaysOfMonth(m)) \in SUBSET DaysOfMonth(m)
  BY DEF DaysOfMonth, ToDate
<1>2. ExpectedToDate(DaysOfMonth(m), m = ThisMonth) = Expected(ToDate(DaysOfMonth(m)))
  BY PastMonthsHavePassed DEF ExpectedToDate
<1> QED
  BY <1>1, <1>2, ExpectedGrows

\* The total of a year, and of each of its months, is that of the projects listed under
\* the months.
THEOREM YearsAlwaysAddUp == Spec => []YearAddsUp
<1>1. ASSUME TypeOK, NEW u \in Users, NEW y \in Years
      PROVE  LET year == YearHours(u, y)
                 hours(m) == SumFunction([p \in Projects |->
                                            TotalHours(year.months[m].projects[p])])
             IN  /\ \A m \in DOMAIN year.months :
                        hours(m) = TotalHours(year.months[m].totals)
                 /\ TotalHours(year.totals)
                        = SumFunction([m \in DOMAIN year.months |-> hours(m)])
                 /\ year.toDate <= year.expected
  <2> DEFINE year == YearHours(u, y)
             hours(m) == SumFunction([p \in Projects |-> TotalHours(year.months[m].projects[p])])
             K == MonthsShown(y)
             ds == {d \in Days : MonthOf[d] \in K}
             us == {u}
             g == [m \in K |-> hours(m)]
             dd == [m \in K |-> DaysOfMonth(m)]
  <2>1. year.months = [m \in K |-> MonthRow(u, m)]
    BY DEF YearHours
  <2>2. /\ us \in SUBSET Users /\ ds \in SUBSET Days /\ HourItems \in SUBSET Items
        /\ K \in SUBSET Months /\ IsFiniteSet(K) /\ \A m \in K : m <= ThisMonth
    BY SummariesAssumption, FS_Subset DEF MonthsShown, HourItems
  <2>3. ASSUME NEW m \in K
        PROVE  /\ hours(m) = Quantity({u}, HourItems, DaysOfMonth(m))
               /\ hours(m) = TotalHours(year.months[m].totals)
    <3>1. year.months[m] = MonthRow(u, m) /\ m \in Months
      BY <2>1, <2>2
    <3>2. hours(m) = SumFunction([p \in Projects |-> TotalHours(MonthRow(u, m).projects[p])])
      BY <3>1
    <3> QED
      BY <1>1, <3>1, <3>2, MonthByProject
  <2>4. TotalHours(year.totals) = Quantity(us, HourItems, ds)
    <3>1. year.totals = Accumulated(us, HourItems, ds) /\ HourItems \cap HourItems = HourItems
      BY <1>1, MonthsMerge
    <3> HIDE DEF year, us, ds
    <3> QED
      BY <1>1, <2>2, <3>1, HoursOfAccumulated
  <2>5. SumFunctionOnSet(g, K) = Quantity(us, HourItems, ds)
    <3>1. /\ \A d \in ds : \E m \in K : d \in dd[m]
          /\ \A m \in K : dd[m] \subseteq ds
          /\ \A k, l \in K : k # l => dd[k] \cap dd[l] = {}
      BY DEF DaysOfMonth
    <3>2. \A m \in K : g[m] = Quantity(us, HourItems, dd[m])
      BY <2>3
    <3> HIDE DEF g, dd, us, ds, K
    <3> QED
      BY <1>1, <2>2, <3>1, <3>2, QuantityByDays
  <2>6. TotalHours(year.totals) = SumFunction([m \in DOMAIN year.months |-> hours(m)])
    <3>1. [m \in DOMAIN year.months |-> hours(m)] = g
      BY <2>1
    <3>2. SumFunction(g) = SumFunctionOnSet(g, K)
      BY DEF SumFunction
    <3> QED
      BY <2>4, <2>5, <3>1, <3>2
  <2>7. year.toDate <= year.expected
    <3> DEFINE e == [m \in K |-> Expected(DaysOfMonth(m))]
               t == [m \in K |-> ExpectedToDate(DaysOfMonth(m), m = ThisMonth)]
    <3>1. /\ [m \in K |-> [n \in K |-> MonthRow(u, n)][m].expected] = e
          /\ [m \in K |-> [n \in K |-> MonthRow(u, n)][m].toDate] = t
      BY DEF MonthRow
    <3>2. year.expected = SumFunction(e) /\ year.toDate = SumFunction(t)
      BY <3>1 DEF YearHours
    <3>3. SumFunction(e) = SumFunctionOnSet(e, K) /\ SumFunction(t) = SumFunctionOnSet(t, K)
      BY DEF SumFunction
    <3>4. \A m \in K : t[m] \in Nat /\ e[m] \in Nat /\ t[m] <= e[m]
      BY <1>1, <2>2, MonthExpected
    <3> HIDE DEF e, t, K, year
    <3> QED
      BY <2>2, <3>2, <3>3, <3>4, SumIsMonotone
  <2>8. DOMAIN year.months = K
    BY <2>1
  <2> QED
    BY <2>3, <2>6, <2>7, <2>8
<1>2. TypeOK => YearAddsUp
  BY <1>1 DEF YearAddsUp
<1> QED
  BY <1>2, SummariesAreTyped, PTL

\* The calendar, the month's summary and its row in the year's add up the same hours,
\* and expect the same of them, until today too.
THEOREM MonthsAlwaysAgree == Spec => []MonthsAgree
<1>1. ASSUME TypeOK, NEW u \in Users, NEW y \in Years, NEW m \in MonthsShown(y)
      PROVE  LET row == YearHours(u, y).months[m]
                 calendar == MonthCalendar(u, m)
                 summary == MonthTimeSummary(u, m)
             IN  /\ calendar.hours = TotalHours(summary.hours)
                 /\ calendar.hours = TotalHours(row.totals)
                 /\ \A preset \in HourPresets : row.totals[preset] = summary.hours[preset]
                 /\ {calendar.expected, summary.expected} = {row.expected}
                 /\ {calendar.toDate, summary.toDate} = {row.toDate}
  <2> DEFINE row == YearHours(u, y).months[m]
             calendar == MonthCalendar(u, m)
             summary == MonthTimeSummary(u, m)
             ds == DaysOfMonth(m)
             us == {u}
  <2>1. m \in Months /\ m <= ThisMonth
    BY DEF MonthsShown
  <2>2. /\ us \in SUBSET Users /\ ds \in SUBSET Days /\ IsFiniteSet(ds)
        /\ HourItems \in SUBSET Items /\ Items \in SUBSET Items /\ Items \cap HourItems = HourItems
    BY SummariesAssumption, FS_Subset DEF DaysOfMonth, HourItems
  <2>3. row = MonthRow(u, m)
    BY DEF YearHours
  <2>4. calendar.hours = Quantity(us, HourItems, ds)
    <3> DEFINE g == [d \in ds |-> Quantity(us, HourItems, {d})]
               dd == [d \in ds |-> {d}]
    <3>1. calendar.hours = SumFunction(g)
      BY DEF MonthCalendar, DaysOfMonth
    <3>2. SumFunction(g) = SumFunctionOnSet(g, ds)
      BY DEF SumFunction
    <3>3. /\ \A d \in ds : \E k \in ds : d \in dd[k]
          /\ \A k \in ds : dd[k] \subseteq ds /\ g[k] = Quantity(us, HourItems, dd[k])
          /\ \A k, l \in ds : k # l => dd[k] \cap dd[l] = {}
      OBVIOUS
    <3> HIDE DEF g, dd, us, ds, calendar
    <3> QED
      BY <1>1, <2>2, <3>1, <3>2, <3>3, QuantityByDays
  <2>5. summary.hours = Accumulated(us, Items, ds) /\ row.totals = Accumulated(us, HourItems, ds)
    BY <1>1, <2>1, <2>3, ItemsMerge DEF MonthTimeSummary
  <2>6. TotalHours(summary.hours) = Quantity(us, HourItems, ds)
    <3> HIDE DEF us, ds, summary
    <3> QED
      BY <1>1, <2>2, <2>5, HoursOfAccumulated
  <2>7. TotalHours(row.totals) = Quantity(us, HourItems, ds)
    BY <1>1, <2>1, <2>3, MonthByProject
  <2>8. ASSUME NEW preset \in HourPresets
        PROVE  row.totals[preset] = summary.hours[preset]
    <3>1. {i \in HourItems : PresetOf[i] = preset} = {i \in Items : PresetOf[i] = preset}
      BY DEF HourItems
    <3>2. preset \in Presets
      BY DEF Presets
    <3> HIDE DEF row, summary
    <3> QED
      BY <2>5, <3>1, <3>2 DEF Accumulated
  <2>9. /\ calendar.expected = Expected(ds) /\ summary.expected = Expected(ds)
        /\ row.expected = Expected(ds)
    BY <2>3 DEF MonthCalendar, MonthTimeSummary, MonthRow
  <2>10. /\ calendar.toDate = Expected(ToDate(ds))
         /\ summary.toDate = ExpectedToDate(ds, m = ThisMonth)
         /\ row.toDate = ExpectedToDate(ds, m = ThisMonth)
    BY <2>3 DEF MonthCalendar, MonthTimeSummary, MonthRow
  <2>11. ExpectedToDate(ds, m = ThisMonth) = Expected(ToDate(ds))
    BY <1>1, <2>1, MonthExpected
  <2> HIDE DEF row, calendar, summary, us, ds
  <2>12. /\ calendar.hours = TotalHours(summary.hours)
         /\ calendar.hours = TotalHours(row.totals)
         /\ {calendar.expected, summary.expected} = {row.expected}
         /\ {calendar.toDate, summary.toDate} = {row.toDate}
    BY <2>4, <2>6, <2>7, <2>9, <2>10, <2>11
  <2> QED
    BY <2>8, <2>12 DEF row, calendar, summary
<1>2. TypeOK => MonthsAgree
  BY <1>1 DEF MonthsAgree
<1> QED
  BY <1>2, SummariesAreTyped, PTL

-----------------------------------------------------------------------------
(* A project's month *)

\* Every user with a row of a project's month is on its team, whose weeks are the month.
LEMMA TeamHours ==
    ASSUME TypeOK, NEW p \in Projects, NEW m \in Months, NEW u \in Users
    PROVE  TeamMember(u, p, m).hours = Quantity({u}, HourItems \cap ItemsOf(p), DaysOfMonth(m))
<1> DEFINE K == WeeksOfMonth(m)
           ds == DaysOfMonth(m)
           us == {u}
           is == HourItems \cap ItemsOf(p)
           dd == [w \in K |-> DaysOfWeek(w) \cap ds]
           g == [w \in K |-> ProjectWeek(u, p, m, w)]
<1>1. /\ us \in SUBSET Users /\ ds \in SUBSET Days /\ is \in SUBSET Items
      /\ K \in SUBSET {WeekOf[d] : d \in Days}
  BY DEF DaysOfMonth, HourItems, WeeksOfMonth
<1>2. IsFiniteSet(K)
  BY <1>1, WeeksAreFinite, FS_Subset
<1>3. TeamMember(u, p, m).hours = SumFunctionOnSet(g, K)
  BY DEF TeamMember, SumFunction
<1>4. /\ \A d \in ds : \E w \in K : d \in dd[w]
      /\ \A w \in K : dd[w] \subseteq ds
      /\ \A v, w \in K : v # w => dd[v] \cap dd[w] = {}
  BY DEF WeeksOfMonth, DaysOfWeek, DaysOfMonth
<1>5. \A w \in K : g[w] = Quantity(us, is, dd[w])
  BY DEF ProjectWeek
<1> HIDE DEF K, ds, us, is, dd, g
<1>6. us \in SUBSET Users /\ ds \in SUBSET Days /\ is \in SUBSET Items
  BY <1>1
<1>7. Quantity(us, is, ds) = SumFunctionOnSet(g, K)
  BY <1>2, <1>4, <1>5, <1>6, QuantityByDays
<1> QED
  BY <1>3, <1>7 DEF us, is, ds

\* The hours of the team are those of the period.
LEMMA TeamByUser ==
    ASSUME TypeOK, NEW p \in Projects, NEW m \in Months
    PROVE  SumFunction([u \in TeamUsers(p, m) |-> TeamMember(u, p, m).hours])
             = TotalHours(BillingPeriod(p, m))
<1> DEFINE us == TeamUsers(p, m)
           ds == DaysOfMonth(m)
           is == HourItems \cap ItemsOf(p)
           uu == [u \in us |-> {u}]
           g == [u \in us |-> TeamMember(u, p, m).hours]
<1>1. us \in SUBSET Users /\ IsFiniteSet(us)
  <2>1. us \in SUBSET Users
    BY SummariesAssumption DEF TeamUsers, RowsOf, DaysOfMonth, ItemsOf
  <2> QED
    BY <2>1, SummariesAssumption, FS_Subset
<1>2. /\ ds \in SUBSET Days /\ is \in SUBSET Items
      /\ ItemsOf(p) \in SUBSET Items /\ ItemsOf(p) \cap HourItems = is
  BY DEF DaysOfMonth, ItemsOf
<1>3. Quantity(Users, is, ds) = Quantity(us, is, ds)
  <2>1. {k \in Users \X is \X ds : entry[k] > 0} = {k \in us \X is \X ds : entry[k] > 0}
    BY <1>1 DEF TeamUsers, RowsOf
  <2> QED
    BY <2>1 DEF Quantity
<1>4. /\ \A u \in us : \E v \in us : u \in uu[v]
      /\ \A u \in us : uu[u] \subseteq us
      /\ \A u, v \in us : u # v => uu[u] \cap uu[v] = {}
  OBVIOUS
<1>5. \A u \in us : g[u] = Quantity(uu[u], is, ds)
  BY <1>1, TeamHours
<1>6. SumFunction(g) = SumFunctionOnSet(g, us)
  BY DEF SumFunction
<1> HIDE DEF us, ds, is, uu, g
<1>7. Quantity(us, is, ds) = SumFunctionOnSet(g, us)
  BY <1>1, <1>2, <1>4, <1>5, QuantityByUsers
<1>8. TotalHours(Accumulated(Users, ItemsOf(p), ds)) = Quantity(Users, is, ds)
  BY <1>2, HoursOfAccumulated
<1> QED
  BY <1>3, <1>6, <1>7, <1>8 DEF BillingPeriod, us, ds, g

\* Part of the users, items and days has no more than all of them.
LEMMA QuantityGrows ==
    ASSUME TypeOK, NEW us \in SUBSET Users, NEW is \in SUBSET Items, NEW ds \in SUBSET Days,
           NEW js \in SUBSET is, NEW es \in SUBSET ds
    PROVE  Quantity(us, js, es) <= Quantity(us, is, ds)
<1> DEFINE S == Selected(us, is, ds)
           T == Selected(us, js, es)
           R == S \ T
<1>1. /\ IsFiniteSet(S) /\ \A k \in S : entry[k] \in Nat
      /\ Quantity(us, is, ds) = SumFunctionOnSet(entry, S)
  BY SelectedRows
<1>2. /\ IsFiniteSet(T)
      /\ Quantity(us, js, es) = SumFunctionOnSet(entry, T)
  BY SelectedRows
<1>3. T \cup R = S /\ T \cap R = {}
  BY DEF Selected
<1>4. IsFiniteSet(R)
  BY <1>1, FS_Subset
<1> HIDE DEF S, T, R
<1>5. /\ SumFunctionOnSet(entry, T) \in Nat /\ SumFunctionOnSet(entry, R) \in Nat
      /\ SumFunctionOnSet(entry, S) = SumFunctionOnSet(entry, T) + SumFunctionOnSet(entry, R)
  <2>1. (\A k \in T : entry[k] \in Nat) /\ (\A k \in R : entry[k] \in Nat)
    BY <1>1, <1>3
  <2>2. \A k \in T \cup R : entry[k] \in Nat
    BY <2>1
  <2>3. SumFunctionOnSet(entry, T \cup R)
          = SumFunctionOnSet(entry, T) + SumFunctionOnSet(entry, R)
    BY <1>2, <1>3, <1>4, <2>2, SumOfTwo
  <2> QED
    BY <1>2, <1>3, <1>4, <2>1, <2>3, SumIsNat
<1> QED
  BY <1>1, <1>2, <1>5

\* The exported rows of a unit are the entries of the project's items of that unit, one each.
LEMMA ExportedByUnit ==
    ASSUME TypeOK, NEW p \in Projects, NEW m \in Months, NEW unit
    PROVE  SumFunction([r \in {x \in ExportRows(p, m) : x.unit = unit} |-> r.quantity])
             = Quantity(Users,
                        {i \in ItemsOf(p) : unit = IF i \in HourItems THEN "hour" ELSE "day"},
                        DaysOfMonth(m))
<1> DEFINE us == Users
           is == {i \in ItemsOf(p) : unit = IF i \in HourItems THEN "hour" ELSE "day"}
           ds == DaysOfMonth(m)
           S == Selected(us, is, ds)
           h == [k \in S |-> ExportRow(k)]
           image == {h[k] : k \in S}
           g == [r \in image |-> r.quantity]
<1>1. us \in SUBSET Users /\ is \in SUBSET Items /\ ds \in SUBSET Days
  BY DEF ItemsOf, DaysOfMonth
<1>2. /\ IsFiniteSet(S) /\ \A k \in S : entry[k] \in Nat
      /\ Quantity(us, is, ds) = SumFunctionOnSet(entry, S)
  <2> HIDE DEF us, is, ds
  <2> QED
    BY <1>1, SelectedRows
<1>3. \A k \in S : h[k].user = k[1] /\ h[k].item = k[2] /\ h[k].day = k[3]
                   /\ h[k].quantity = entry[k]
  BY DEF ExportRow
<1>4. \A k, l \in S : h[k] = h[l] => k = l
  <2>1. \A k \in S : k = <<k[1], k[2], k[3]>>
    BY DEF Selected
  <2> HIDE DEF S, h
  <2> QED
    BY <1>3, <2>1
<1>5. image = {x \in ExportRows(p, m) : x.unit = unit}
  <2>1. S = {k \in RowsOf(p, m) : unit = IF k[2] \in HourItems THEN "hour" ELSE "day"}
    BY DEF Selected, RowsOf
  <2>2. \A k \in RowsOf(p, m) :
          ExportRow(k).unit = IF k[2] \in HourItems THEN "hour" ELSE "day"
    BY DEF ExportRow
  <2>3. image = {ExportRow(k) : k \in S}
    OBVIOUS
  <2> HIDE DEF S, image
  <2> QED
    BY <2>1, <2>2, <2>3 DEF ExportRows
<1>6. \A k \in S : g[h[k]] = entry[k]
  <2> HIDE DEF S, h
  <2> QED
    BY <1>3
<1>7. SumFunction(g) = SumFunctionOnSet(g, image)
  BY DEF SumFunction
<1>8. SumFunctionOnSet(g, image) = SumFunctionOnSet(entry, S)
  <2> HIDE DEF S, h, g
  <2> QED
    BY <1>2, <1>4, <1>6, SumOfImage
<1> HIDE DEF S, is, ds, image
<1> QED
  BY <1>2, <1>5, <1>7, <1>8 DEF is, ds

\* What a manager sees of a project's month before it is sent is what is billed: the
\* members' hours, the period's and the exported rows come to the same.
THEOREM TeamAlwaysSeesWhatIsBilled == Spec => []TeamSeesWhatIsBilled
<1>1. ASSUME TypeOK, NEW p \in Projects, NEW m \in Months
      PROVE  LET billed == BillingPeriod(p, m)
                 exported(unit) ==
                     SumFunction([r \in {x \in ExportRows(p, m) : x.unit = unit} |-> r.quantity])
                 team == [u \in TeamUsers(p, m) |-> TeamMember(u, p, m)]
             IN  /\ SumFunction([u \in DOMAIN team |-> team[u].hours]) = TotalHours(billed)
                 /\ \A u \in DOMAIN team, w \in WeeksOfMonth(m) :
                        team[u].weeks[w].projectHours <= team[u].weeks[w].totalHours
                 /\ exported("hour") = TotalHours(billed)
                 /\ exported("day") = billed["day"]
  <2> DEFINE billed == BillingPeriod(p, m)
             exported(unit) ==
                 SumFunction([r \in {x \in ExportRows(p, m) : x.unit = unit} |-> r.quantity])
             team == [u \in TeamUsers(p, m) |-> TeamMember(u, p, m)]
             ds == DaysOfMonth(m)
             is == HourItems \cap ItemsOf(p)
  <2>1. /\ Users \in SUBSET Users /\ ds \in SUBSET Days /\ HourItems \in SUBSET Items
        /\ ItemsOf(p) \in SUBSET Items /\ is = ItemsOf(p) \cap HourItems /\ is \in SUBSET HourItems
    BY DEF DaysOfMonth, HourItems, ItemsOf
  <2>2. SumFunction([u \in DOMAIN team |-> team[u].hours]) = TotalHours(billed)
    <3>1. [u \in DOMAIN team |-> team[u].hours]
            = [u \in TeamUsers(p, m) |-> TeamMember(u, p, m).hours]
      OBVIOUS
    <3> QED
      BY <1>1, <3>1, TeamByUser
  <2>3. ASSUME NEW u \in TeamUsers(p, m), NEW w \in WeeksOfMonth(m)
        PROVE  team[u].weeks[w].projectHours <= team[u].weeks[w].totalHours
    <3> DEFINE us == {u}
               week == DaysOfWeek(w)
               es == DaysOfWeek(w) \cap ds
    <3>1. us \in SUBSET Users /\ week \in SUBSET Days /\ es \in SUBSET week
      BY SummariesAssumption DEF TeamUsers, RowsOf, DaysOfMonth, ItemsOf, DaysOfWeek
    <3>2. /\ team[u].weeks[w].projectHours = Quantity(us, is, es)
          /\ team[u].weeks[w].totalHours = Quantity(us, HourItems, week)
      BY DEF TeamMember, TeamMemberWeek, ProjectWeek
    <3> HIDE DEF us, week, es, is, ds, team
    <3>3. Quantity(us, is, es) <= Quantity(us, HourItems, week)
      BY <1>1, <2>1, <3>1, QuantityGrows
    <3> QED
      BY <3>2, <3>3
  <2>4. exported("hour") = TotalHours(billed)
    <3>1. {i \in ItemsOf(p) : "hour" = IF i \in HourItems THEN "hour" ELSE "day"} = is
      OBVIOUS
    <3>2. exported("hour") = Quantity(Users, is, ds)
      BY <1>1, <3>1, ExportedByUnit
    <3>3. TotalHours(Accumulated(Users, ItemsOf(p), ds)) = Quantity(Users, is, ds)
      <4> HIDE DEF is, ds
      <4> QED
        BY <1>1, <2>1, HoursOfAccumulated
    <3> QED
      BY <3>2, <3>3 DEF BillingPeriod
  <2>5. exported("day") = billed["day"]
    <3>1. {i \in ItemsOf(p) : "day" = IF i \in HourItems THEN "hour" ELSE "day"}
            = {i \in ItemsOf(p) : PresetOf[i] = "day"}
      BY SummariesAssumption DEF ItemsOf, HourItems, HourPresets, Presets
    <3>2. exported("day") = Quantity(Users, {i \in ItemsOf(p) : PresetOf[i] = "day"}, ds)
      BY <1>1, <3>1, ExportedByUnit
    <3>3. billed["day"] = Quantity(Users, {i \in ItemsOf(p) : PresetOf[i] = "day"}, ds)
      BY DEF BillingPeriod, Accumulated, Presets
    <3> QED
      BY <3>2, <3>3
  <2>6. DOMAIN team = TeamUsers(p, m)
    OBVIOUS
  <2> QED
    BY <2>2, <2>3, <2>4, <2>5, <2>6
<1>2. TypeOK => TeamSeesWhatIsBilled
  BY <1>1 DEF TeamSeesWhatIsBilled
<1> QED
  BY <1>2, SummariesAreTyped, PTL
=============================================================================
