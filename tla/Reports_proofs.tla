--------------------------- MODULE Reports_proofs ---------------------------
(***************************************************************************)
(* The figures of Reports for any people, numbers, leads and logs: counts   *)
(* and sums of rows, in every state of Customers.                           *)
(***************************************************************************)
EXTENDS Customers_proofs

-----------------------------------------------------------------------------
(* Finite sets.  The library's induction has a predicate for a parameter;   *)
(* here it has the set of the sets for which a fact is shown.               *)

LEMMA SetInduction ==
  ASSUME NEW S, IsFiniteSet(S), NEW G \in SUBSET SUBSET S,
         \A T \in SUBSET S : (\A x \in T : T \ {x} \in G) => T \in G
  PROVE  G = SUBSET S
<1> DEFINE B == (SUBSET S) \ G
           R == StrictSubsetOrdering(S)
<1> HIDE DEF R
<1>1. IsWellFoundedOn(R, SUBSET S)
  BY FS_StrictSubsetOrderingWellFounded, FS_FiniteSubsetsOfFinite DEF R
<1>2. B = {}
  <2> SUFFICES ASSUME B # {} PROVE FALSE
    OBVIOUS
  <2> HIDE DEF B
  <2>1. B \subseteq SUBSET S
    BY DEF B
  <2>2. PICK T \in B : \A U \in B : <<U, T>> \notin R
    BY <1>1, <2>1, WFMin
  <2>3. ASSUME NEW x \in T PROVE T \ {x} \in G
    <3>1. T \ {x} \in SUBSET S /\ T \ {x} \subseteq T /\ T \ {x} # T
      BY <2>1
    <3>2. <<T \ {x}, T>> \in R
      BY <3>1, <2>1 DEF R, StrictSubsetOrdering
    <3> QED BY <2>2, <3>1, <3>2 DEF B
  <2> QED BY <2>1, <2>3 DEF B
<1> QED BY <1>2

Units(f, T) == UNION {{x} \X (1..f[x]) : x \in T}

LEMMA UnitsAdd ==
  ASSUME NEW S, NEW f \in [S -> Nat], NEW T \in SUBSET S, IsFiniteSet(T), NEW x \in T,
         IsFiniteSet(Units(f, T \ {x}))
  PROVE  /\ IsFiniteSet(Units(f, T))
         /\ Cardinality(Units(f, T)) = f[x] + Cardinality(Units(f, T \ {x}))
<1> DEFINE U == Units(f, T \ {x})
           V == {x} \X (1..f[x])
<1>1. IsFiniteSet(V) /\ Cardinality(V) = f[x]
  <2>1. f[x] \in Nat
    OBVIOUS
  <2>2. IsFiniteSet(1..f[x]) /\ Cardinality(1..f[x]) = f[x]
    BY <2>1, FS_Interval
  <2>3. IsFiniteSet({x}) /\ Cardinality({x}) = 1
    BY FS_Singleton
  <2>4. IsFiniteSet(V) /\ Cardinality(V) = Cardinality({x}) * Cardinality(1..f[x])
    BY <2>2, <2>3, FS_Product
  <2> QED BY <2>1, <2>2, <2>3, <2>4
<1>2. Units(f, T) = U \cup V
  BY DEF Units
<1>3. U \cap V = {}
  BY DEF Units
<1>4. Cardinality(U \cap V) = 0
  BY <1>3, FS_EmptySet
<1>5. Cardinality(U) \in Nat /\ Cardinality(V) \in Nat
  BY <1>1, FS_CardinalityType
<1> HIDE DEF U, V
<1>6. IsFiniteSet(U \cup V) /\ Cardinality(U \cup V) = Cardinality(U) + Cardinality(V) - Cardinality(U \cap V)
  BY <1>1, FS_Union DEF U
<1> QED BY <1>1, <1>2, <1>4, <1>5, <1>6 DEF U

LEMMA UnitsFinite ==
  ASSUME NEW S, IsFiniteSet(S), NEW f \in [S -> Nat]
  PROVE  \A T \in SUBSET S : IsFiniteSet(Units(f, T))
<1> DEFINE G == {T \in SUBSET S : IsFiniteSet(Units(f, T))}
<1>1. ASSUME NEW T \in SUBSET S, \A x \in T : T \ {x} \in G
      PROVE  T \in G
  <2>1. CASE T = {}
    <3>1. Units(f, T) = {}
      BY <2>1 DEF Units
    <3> QED BY <3>1, FS_EmptySet
  <2>2. CASE T # {}
    <3>1. PICK x \in T : TRUE
      BY <2>2
    <3>2. IsFiniteSet(T)
      BY FS_Subset
    <3> QED BY <1>1, <3>1, <3>2, UnitsAdd
  <2> QED BY <2>1, <2>2
<1>2. G = SUBSET S
  <2> HIDE DEF G
  <2>1. G \in SUBSET SUBSET S
    BY DEF G
  <2> QED BY <1>1, <2>1, SetInduction
<1> QED BY <1>2

LEMMA SumCounts ==
  ASSUME NEW S, IsFiniteSet(S), NEW f \in [S -> Nat]
  PROVE  SumFunction(f) = Cardinality(Units(f, S))
<1> DEFINE pick(T) == CHOOSE x \in T : TRUE
           Sums(g) == g = [T \in SUBSET S |-> IF T = {} THEN 0 ELSE f[pick(T)] + g[T \ {pick(T)}]]
           count == [T \in SUBSET S |-> Cardinality(Units(f, T))]
           sum == CHOOSE g : Sums(g)
<1>1. SumFunction(f) = sum[S]
  BY DEF SumFunction, SumFunctionOnSet, FoldFunctionOnSet, MapThenFoldSet
<1> HIDE DEF pick
<1>2. \A T \in SUBSET S : T # {} => pick(T) \in T
  BY DEF pick
<1>3. count = [T \in SUBSET S |-> IF T = {} THEN 0 ELSE f[pick(T)] + count[T \ {pick(T)}]]
  <2> SUFFICES ASSUME NEW T \in SUBSET S
               PROVE  count[T] = IF T = {} THEN 0 ELSE f[pick(T)] + count[T \ {pick(T)}]
    OBVIOUS
  <2>1. CASE T = {}
    <3>1. Units(f, T) = {}
      BY <2>1 DEF Units
    <3> QED BY <2>1, <3>1, FS_EmptySet
  <2>2. CASE T # {}
    <3>1. pick(T) \in T
      BY <1>2, <2>2
    <3>2. IsFiniteSet(T) /\ IsFiniteSet(Units(f, T \ {pick(T)}))
      BY FS_Subset, UnitsFinite
    <3>3. Cardinality(Units(f, T)) = f[pick(T)] + Cardinality(Units(f, T \ {pick(T)}))
      BY <3>1, <3>2, UnitsAdd
    <3> QED BY <2>2, <3>3
  <2> QED BY <2>1, <2>2
<1>4. Sums(sum)
  <2> HIDE DEF count
  <2>1. \E g : Sums(g)
    <3> WITNESS count
    <3> QED BY <1>3
  <2> HIDE DEF Sums
  <2> QED BY <2>1
<1> HIDE DEF sum
<1>5. \A T \in SUBSET S : sum[T] = count[T]
  <2> DEFINE G == {T \in SUBSET S : sum[T] = count[T]}
  <2>1. ASSUME NEW T \in SUBSET S, \A x \in T : T \ {x} \in G
        PROVE  T \in G
    <3>1. sum[T] = IF T = {} THEN 0 ELSE f[pick(T)] + sum[T \ {pick(T)}]
      BY <1>4
    <3>2. count[T] = IF T = {} THEN 0 ELSE f[pick(T)] + count[T \ {pick(T)}]
      <4> HIDE DEF count
      <4> QED BY <1>3
    <3>3. T # {} => sum[T \ {pick(T)}] = count[T \ {pick(T)}]
      <4> HIDE DEF count
      <4> QED BY <1>2, <2>1
    <3> HIDE DEF count
    <3> QED BY <3>1, <3>2, <3>3
  <2>2. G = SUBSET S
    <3> HIDE DEF G
    <3>1. G \in SUBSET SUBSET S
      BY DEF G
    <3> QED BY <2>1, <3>1, SetInduction
  <2> QED BY <2>2
<1> QED BY <1>1, <1>5
-----------------------------------------------------------------------------
(* Counting.                                                                *)

LEMMA SameCount ==
  ASSUME NEW S, NEW T, IsFiniteSet(S), NEW f \in [S -> T],
         \A x, y \in S : f[x] = f[y] => x = y,
         \A t \in T : \E x \in S : f[x] = t
  PROVE  IsFiniteSet(T) /\ Cardinality(T) = Cardinality(S)
<1>1. f \in Bijection(S, T)
  BY DEF Bijection, Injection, Surjection, IsInjective
<1>2. ExistsBijection(S, T)
  BY <1>1 DEF ExistsBijection
<1> QED BY <1>2, FS_Bijection

(* A finite set is counted part by part.                                    *)
LEMMA CountOfParts ==
  ASSUME NEW S, IsFiniteSet(S), NEW T, IsFiniteSet(T), NEW g \in [S -> T]
  PROVE  Cardinality(S) = SumFunction([t \in T |-> Cardinality({x \in S : g[x] = t})])
<1> DEFINE part(t) == {x \in S : g[x] = t}
           within(U) == {x \in S : g[x] \in U}
           h == [t \in T |-> Cardinality(part(t))]
           G == {U \in SUBSET T : Cardinality(within(U)) = Cardinality(Units(h, U))}
<1>1. \A P \in SUBSET S : IsFiniteSet(P) /\ Cardinality(P) \in Nat
  BY FS_Subset, FS_CardinalityType
<1>2. h \in [T -> Nat]
  BY <1>1
<1>3. ASSUME NEW U \in SUBSET T, \A t \in U : U \ {t} \in G
      PROVE  U \in G
  <2>1. CASE U = {}
    <3>1. within(U) = {} /\ Units(h, U) = {}
      BY <2>1 DEF Units
    <3> QED BY <3>1
  <2>2. CASE U # {}
    <3>1. PICK t \in U : TRUE
      BY <2>2
    <3>2. /\ within(U) = within(U \ {t}) \cup part(t)
          /\ within(U \ {t}) \cap part(t) = {}
      BY <3>1
    <3>3. Cardinality(within(U \ {t}) \cap part(t)) = 0
      BY <3>2, FS_EmptySet
    <3>4. /\ IsFiniteSet(within(U \ {t})) /\ IsFiniteSet(part(t))
          /\ Cardinality(within(U \ {t})) \in Nat /\ Cardinality(part(t)) \in Nat
      BY <1>1
    <3>5. Cardinality(within(U)) = Cardinality(within(U \ {t})) + Cardinality(part(t))
      <4> HIDE DEF within, part
      <4>1. Cardinality(within(U \ {t}) \cup part(t))
              = Cardinality(within(U \ {t})) + Cardinality(part(t))
                  - Cardinality(within(U \ {t}) \cap part(t))
        BY <3>4, FS_Union
      <4> QED BY <3>2, <3>3, <3>4, <4>1
    <3>6. Cardinality(Units(h, U)) = h[t] + Cardinality(Units(h, U \ {t}))
      <4> HIDE DEF h
      <4>1. IsFiniteSet(U) /\ IsFiniteSet(Units(h, U \ {t}))
        BY <1>2, FS_Subset, UnitsFinite
      <4> QED BY <1>2, <3>1, <4>1, UnitsAdd
    <3>7. Cardinality(within(U \ {t})) = Cardinality(Units(h, U \ {t}))
      BY <1>3, <3>1
    <3>8. h[t] = Cardinality(part(t))
      BY <3>1
    <3> HIDE DEF within, part, h
    <3>9. Cardinality(within(U)) = Cardinality(Units(h, U))
      BY <3>4, <3>5, <3>6, <3>7, <3>8
    <3> QED BY <3>9
  <2> QED BY <2>1, <2>2
<1>4. G = SUBSET T
  <2> HIDE DEF G
  <2>1. G \in SUBSET SUBSET T
    BY DEF G
  <2> QED BY <1>3, <2>1, SetInduction
<1>5. Cardinality(within(T)) = Cardinality(Units(h, T))
  BY <1>4
<1>6. within(T) = S
  OBVIOUS
<1>7. SumFunction(h) = Cardinality(Units(h, T))
  <2> HIDE DEF h
  <2> QED BY <1>2, SumCounts
<1> QED BY <1>5, <1>6, <1>7

(* A sum is taken part by part.                                             *)
LEMMA SumOfParts ==
  ASSUME NEW S, IsFiniteSet(S), NEW f \in [S -> Nat],
         NEW T, IsFiniteSet(T), NEW g \in [S -> T], NEW h,
         h = [t \in T |-> SumFunction([x \in {y \in S : g[y] = t} |-> f[x]])]
  PROVE  SumFunction(h) = SumFunction(f)
<1> DEFINE U == Units(f, S)
           k == [u \in U |-> g[u[1]]]
<1>1. IsFiniteSet(U)
  BY UnitsFinite
<1>2. k \in [U -> T]
  BY DEF Units
<1>3. Cardinality(U) = SumFunction([t \in T |-> Cardinality({u \in U : k[u] = t})])
  <2> HIDE DEF U, k
  <2> QED BY <1>1, <1>2, CountOfParts
<1>4. ASSUME NEW t \in T
      PROVE  h[t] = Cardinality({u \in U : k[u] = t})
  <2> DEFINE P == {y \in S : g[y] = t}
             e == [x \in P |-> f[x]]
  <2>1. IsFiniteSet(P) /\ e \in [P -> Nat]
    BY FS_Subset
  <2>2. SumFunction(e) = Cardinality(Units(e, P))
    <3> HIDE DEF P, e
    <3> QED BY <2>1, SumCounts
  <2>3. ASSUME NEW u PROVE u \in Units(e, P) <=> u \in U /\ k[u] = t
    <3>1. u \in U <=> \E x \in S : u \in {x} \X (1..f[x])
      BY DEF Units
    <3>2. u \in Units(e, P) <=> \E x \in S : g[x] = t /\ u \in {x} \X (1..f[x])
      BY DEF Units
    <3>3. \A x \in S : u \in {x} \X (1..f[x]) => u[1] = x
      OBVIOUS
    <3>4. u \in U => k[u] = g[u[1]]
      OBVIOUS
    <3> HIDE DEF U, k, P, e
    <3> QED BY <3>1, <3>2, <3>3, <3>4
  <2>4. Units(e, P) = {u \in U : k[u] = t}
    <3> HIDE DEF U, k, P, e
    <3> QED BY <2>3
  <2> QED BY <2>2, <2>4
<1>5. h = [t \in T |-> Cardinality({u \in U : k[u] = t})]
  BY <1>4
<1>6. SumFunction(f) = Cardinality(U)
  BY SumCounts
<1> QED BY <1>3, <1>5, <1>6

LEMMA SumOfOne ==
  ASSUME NEW x, NEW f \in [{x} -> Nat]
  PROVE  SumFunction(f) = f[x]
<1>1. IsFiniteSet({x}) /\ f[x] \in Nat
  BY FS_Singleton
<1>2. Units(f, {x} \ {x}) = {}
  BY DEF Units
<1>3. IsFiniteSet(Units(f, {x} \ {x})) /\ Cardinality(Units(f, {x} \ {x})) = 0
  BY <1>2, FS_EmptySet
<1>4. Cardinality(Units(f, {x})) = f[x] + Cardinality(Units(f, {x} \ {x}))
  BY <1>1, <1>3, UnitsAdd
<1>5. SumFunction(f) = Cardinality(Units(f, {x}))
  BY <1>1, SumCounts
<1> QED BY <1>1, <1>3, <1>4, <1>5

LEMMA ImageFinite ==
  ASSUME NEW S, IsFiniteSet(S), NEW f, f = [x \in S |-> f[x]]
  PROVE  IsFiniteSet({f[x] : x \in S})
<1> DEFINE T == {f[x] : x \in S}
<1>1. f \in Surjection(S, T)
  BY DEF Surjection
<1> HIDE DEF T
<1> QED BY <1>1, FS_Surjection DEF T

LEMMA FamilyFinite ==
  ASSUME NEW S, IsFiniteSet(S), NEW f, f = [x \in S |-> f[x]], \A x \in S : IsFiniteSet(f[x])
  PROVE  IsFiniteSet(UNION {f[x] : x \in S})
<1> DEFINE T == {f[x] : x \in S}
<1>1. \A y \in T : IsFiniteSet(y)
  OBVIOUS
<1>2. IsFiniteSet(T)
  BY ImageFinite
<1> HIDE DEF T
<1> QED BY <1>1, <1>2, FS_UNION DEF T

-----------------------------------------------------------------------------
(* The rows of the tables.                                                  *)

LEMMA RowFacts ==
  /\ \A r : r \in CustomerRows <=> \E p \in Known : r = [who |-> p]
  /\ \A r : r \in ThreadRows <=> \E p \in Known : \E n \in Threads(p) : r = [who |-> p, on |-> n]
  /\ \A r : r \in LinkRows <=> \E p \in Known : \E t \in LinksOf(p) : r = [who |-> p, token |-> t]
  /\ \A r : r \in LeadRows <=>
              \E p \in Known : \E i \in DOMAIN LeadsOf[p] : r = [who |-> p, lead |-> i]
  /\ Known \subseteq People
  /\ \A p \in Known : Threads(p) \subseteq Numbers
BY DEF CustomerRows, ThreadRows, LinkRows, LeadRows, Known, Threads

(* Nobody has infinitely many leads, threads or links.                      *)
LEMMA HangingFinite ==
  ASSUME NEW p \in Known
  PROVE  IsFiniteSet(Threads(p)) /\ IsFiniteSet(LinksOf(p)) /\ IsFiniteSet(DOMAIN LeadsOf[p])
<1>1. IsFiniteSet(Threads(p))
  BY RowFacts, ReportsAssumption, FS_Subset
<1>2. IsFiniteSet(LinksOf(p))
  <2>1. IsFiniteSet(Tokens)
    BY CustomersAssumption, FS_Interval DEF Tokens
  <2> QED BY <2>1, FS_Subset DEF LinksOf
<1>3. IsFiniteSet(DOMAIN LeadsOf[p])
  <2>1. Len(LeadsOf[p]) \in Nat /\ DOMAIN LeadsOf[p] = 1..Len(LeadsOf[p])
    BY RowFacts, ReportsAssumption
  <2>2. IsFiniteSet(1..Len(LeadsOf[p]))
    BY <2>1, FS_Interval
  <2> QED BY <2>1, <2>2
<1> QED BY <1>1, <1>2, <1>3

LEMMA RowsFinite ==
  /\ IsFiniteSet(Known) /\ IsFiniteSet(CustomerRows)
  /\ IsFiniteSet(ThreadRows) /\ IsFiniteSet(LinkRows) /\ IsFiniteSet(LeadRows)
<1>1. IsFiniteSet(Known)
  BY RowFacts, ReportsAssumption, FS_Subset
<1>2. IsFiniteSet(CustomerRows)
  <2> DEFINE f == [p \in Known |-> [who |-> p]]
  <2>1. CustomerRows = {f[p] : p \in Known}
    BY DEF CustomerRows
  <2> QED BY <1>1, <2>1, ImageFinite
<1>3. IsFiniteSet(ThreadRows)
  <2> DEFINE f == [p \in Known |-> {[who |-> p, on |-> n] : n \in Threads(p)}]
  <2>1. ASSUME NEW p \in Known PROVE IsFiniteSet(f[p])
    <3> DEFINE g == [n \in Threads(p) |-> [who |-> p, on |-> n]]
    <3>1. f[p] = {g[n] : n \in Threads(p)} /\ g = [n \in Threads(p) |-> g[n]]
      OBVIOUS
    <3>2. IsFiniteSet(Threads(p))
      BY HangingFinite
    <3> HIDE DEF f, g
    <3> QED BY <3>1, <3>2, ImageFinite
  <2>2. ThreadRows = UNION {f[p] : p \in Known}
    BY DEF ThreadRows
  <2> HIDE DEF f
  <2>3. f = [p \in Known |-> f[p]]
    BY DEF f
  <2> QED BY <1>1, <2>1, <2>2, <2>3, FamilyFinite
<1>4. IsFiniteSet(LinkRows)
  <2> DEFINE f == [p \in Known |-> {[who |-> p, token |-> t] : t \in LinksOf(p)}]
  <2>1. ASSUME NEW p \in Known PROVE IsFiniteSet(f[p])
    <3> DEFINE g == [t \in LinksOf(p) |-> [who |-> p, token |-> t]]
    <3>1. f[p] = {g[t] : t \in LinksOf(p)} /\ g = [t \in LinksOf(p) |-> g[t]]
      OBVIOUS
    <3>2. IsFiniteSet(LinksOf(p))
      BY HangingFinite
    <3> HIDE DEF f, g
    <3> QED BY <3>1, <3>2, ImageFinite
  <2>2. LinkRows = UNION {f[p] : p \in Known}
    BY DEF LinkRows
  <2> HIDE DEF f
  <2>3. f = [p \in Known |-> f[p]]
    BY DEF f
  <2> QED BY <1>1, <2>1, <2>2, <2>3, FamilyFinite
<1>5. IsFiniteSet(LeadRows)
  <2> DEFINE f == [p \in Known |-> {[who |-> p, lead |-> i] : i \in DOMAIN LeadsOf[p]}]
  <2>1. ASSUME NEW p \in Known PROVE IsFiniteSet(f[p])
    <3> DEFINE g == [i \in DOMAIN LeadsOf[p] |-> [who |-> p, lead |-> i]]
    <3>1. f[p] = {g[i] : i \in DOMAIN LeadsOf[p]} /\ g = [i \in DOMAIN LeadsOf[p] |-> g[i]]
      OBVIOUS
    <3>2. IsFiniteSet(DOMAIN LeadsOf[p])
      BY HangingFinite
    <3> HIDE DEF f, g
    <3> QED BY <3>1, <3>2, ImageFinite
  <2>2. LeadRows = UNION {f[p] : p \in Known}
    BY DEF LeadRows
  <2> HIDE DEF f
  <2>3. f = [p \in Known |-> f[p]]
    BY DEF f
  <2> QED BY <1>1, <2>1, <2>2, <2>3, FamilyFinite
<1> QED BY <1>1, <1>2, <1>3, <1>4, <1>5

-----------------------------------------------------------------------------
(* The funnel report: what a column of the join holds, each value once.     *)

LEMMA OuterFacts ==
  ASSUME NEW rows
  PROVE  /\ rows \subseteq Outer(rows) /\ Outer(rows) \subseteq rows \cup {None}
         /\ Outer(rows) # {}
BY DEF Outer

LEMMA RowIsNotNone ==
  None \notin LeadRows \cup ThreadRows \cup LinkRows \cup Known
<1>1. LeadRows \subseteq [who : People, lead : Nat]
  BY RowFacts, ReportsAssumption
<1>2. ThreadRows \subseteq [who : People, on : Numbers]
  BY RowFacts
<1>3. LinkRows \subseteq [who : People, token : Nat]
  <2>1. \A p \in People : LinksOf(p) \subseteq Nat
    BY CustomersAssumption DEF Tokens, LinksOf
  <2> QED BY <2>1, RowFacts
<1> QED BY <1>1, <1>2, <1>3, RowFacts, ReportsAssumption, CustomersAssumption

LEMMA JoinedFacts ==
  ASSUME NEW k
  PROVE  LET brought == Owners({row \in LeadRows : CampaignOf(row) = k})
             join == Joined(k)
         IN  /\ brought \subseteq Known
             /\ {r.lead : r \in join} = {row \in LeadRows : CampaignOf(row) = k}
             /\ {r.customer : r \in join} = brought
             /\ {r.conversation : r \in join} \ {None} = {r \in ThreadRows : r.who \in brought}
             /\ {r.link : r \in join} \ {None} = {r \in LinkRows : r.who \in brought}
<1> DEFINE leads == {row \in LeadRows : CampaignOf(row) = k}
           brought == Owners(leads)
           join == Joined(k)
           threads(p) == Outer(OfPerson(ThreadRows, p))
           tokens(p) == Outer(OfPerson(LinkRows, p))
<1>1. \A r : r \in join <=>
        \E lead \in leads : \E c \in threads(lead.who) : \E l \in tokens(lead.who) :
          r = [lead |-> lead, customer |-> lead.who, conversation |-> c, link |-> l]
  BY DEF Joined
<1>2. \A p : /\ \A r \in ThreadRows : r.who = p => r \in threads(p)
             /\ \A r \in threads(p) : r = None \/ (r \in ThreadRows /\ r.who = p)
             /\ \E r \in threads(p) : TRUE
  BY OuterFacts DEF OfPerson
<1>3. \A p : /\ \A r \in LinkRows : r.who = p => r \in tokens(p)
             /\ \A r \in tokens(p) : r = None \/ (r \in LinkRows /\ r.who = p)
             /\ \E r \in tokens(p) : TRUE
  BY OuterFacts DEF OfPerson
<1>4. \A p : p \in brought <=> \E lead \in leads : p = lead.who
  BY DEF Owners
<1>5. None \notin ThreadRows /\ None \notin LinkRows
  BY RowIsNotNone
<1>6. brought \subseteq Known
  BY RowFacts DEF Owners
<1> HIDE DEF leads, brought, join, threads, tokens
<1>7. \A r \in join : /\ r.lead \in leads /\ r.customer = r.lead.who
                        /\ r.conversation \in threads(r.customer) /\ r.link \in tokens(r.customer)
  BY <1>1
<1>8. ASSUME NEW lead \in leads, NEW c \in threads(lead.who), NEW l \in tokens(lead.who)
       PROVE  \E r \in join : /\ r.lead = lead /\ r.customer = lead.who
                             /\ r.conversation = c /\ r.link = l
  <2> DEFINE r == [lead |-> lead, customer |-> lead.who, conversation |-> c, link |-> l]
  <2>1. r \in join
    BY <1>1
  <2> QED BY <2>1
<1>9. {r.lead : r \in join} = leads
  <2>1. ASSUME NEW lead \in leads PROVE \E r \in join : r.lead = lead
    BY <1>2, <1>3, <1>8
  <2> QED BY <1>7, <2>1
<1>10. {r.customer : r \in join} = brought
  <2>1. ASSUME NEW lead \in leads PROVE \E r \in join : r.customer = lead.who
    BY <1>2, <1>3, <1>8
  <2> QED BY <1>4, <1>7, <2>1
<1>11. {r.conversation : r \in join} \ {None} = {r \in ThreadRows : r.who \in brought}
  <2>1. ASSUME NEW c \in ThreadRows, c.who \in brought PROVE \E r \in join : r.conversation = c
    <3>1. PICK lead \in leads : lead.who = c.who
      BY <1>4, <2>1
    <3>2. c \in threads(lead.who) /\ \E l \in tokens(lead.who) : TRUE
      BY <1>2, <1>3, <3>1
    <3> QED BY <1>8, <3>2
  <2>2. ASSUME NEW r \in join, r.conversation # None
        PROVE  r.conversation \in ThreadRows /\ r.conversation.who \in brought
    BY <1>2, <1>4, <1>7, <2>2
  <2> QED BY <1>5, <2>1, <2>2
<1>12. {r.link : r \in join} \ {None} = {r \in LinkRows : r.who \in brought}
  <2>1. ASSUME NEW l \in LinkRows, l.who \in brought PROVE \E r \in join : r.link = l
    <3>1. PICK lead \in leads : lead.who = l.who
      BY <1>4, <2>1
    <3>2. l \in tokens(lead.who) /\ \E c \in threads(lead.who) : TRUE
      BY <1>2, <1>3, <3>1
    <3> QED BY <1>8, <3>2
  <2>2. ASSUME NEW r \in join, r.link # None
        PROVE  r.link \in LinkRows /\ r.link.who \in brought
    BY <1>3, <1>4, <1>7, <2>2
  <2> QED BY <1>5, <2>1, <2>2
<1> QED BY <1>6, <1>9, <1>10, <1>11, <1>12 DEF leads, brought, join

LEMMA CountedOnce == CustomersInv => FunnelCountsOnce
<1> SUFFICES ASSUME CustomersInv, NEW k \in Campaigns \cup {None}
             PROVE  LET brought == Owners({row \in LeadRows : CampaignOf(row) = k})
                        row == FunnelRow(k)
                    IN  /\ row.leads = Cardinality({r \in LeadRows : CampaignOf(r) = k})
                        /\ row.conversations = Cardinality({r \in ThreadRows : r.who \in brought})
                        /\ row.downloads = Cardinality({p \in brought : customer[p].downloaded})
                        /\ row.linksSent = Cardinality({r \in LinkRows : r.who \in brought /\ links[r.token].sent})
                        /\ row.activations <= row.downloads /\ row.downloads <= Cardinality(brought)
  BY DEF FunnelCountsOnce
<1> DEFINE leads == {row \in LeadRows : CampaignOf(row) = k}
           brought == Owners(leads)
           join == Joined(k)
           down == {p \in brought : customer[p].downloaded}
           act == {p \in brought : customer[p].activated}
           sent == {r \in join : r.link # None /\ links[r.link.token].sent}
<1>1. /\ brought \subseteq Known
      /\ {r.lead : r \in join} = leads
      /\ {r.customer : r \in join} = brought
      /\ {r.conversation : r \in join} \ {None} = {r \in ThreadRows : r.who \in brought}
      /\ {r.link : r \in join} \ {None} = {r \in LinkRows : r.who \in brought}
  BY JoinedFacts
<1>2. None \notin leads /\ None \notin brought
  BY <1>1, RowIsNotNone
<1>3. FunnelRow(k).leads = Cardinality(leads)
  <2>1. {r["lead"] : r \in join} \ {None} = leads
    BY <1>1, <1>2
  <2> QED BY <2>1 DEF FunnelRow, CountDistinct
<1>4. FunnelRow(k).conversations = Cardinality({r \in ThreadRows : r.who \in brought})
  BY <1>1 DEF FunnelRow, CountDistinct
<1>5. FunnelRow(k).downloads = Cardinality(down) /\ FunnelRow(k).activations = Cardinality(act)
  <2> HIDE DEF brought, join
  <2>1. {r["customer"] : r \in {x \in join : customer[x.customer].downloaded}} \ {None} = down
    BY <1>1, <1>2
  <2>2. {r["customer"] : r \in {x \in join : customer[x.customer].activated}} \ {None} = act
    BY <1>1, <1>2
  <2> QED BY <2>1, <2>2 DEF FunnelRow, CountDistinct, join
<1>6. FunnelRow(k).linksSent = Cardinality({r \in LinkRows : r.who \in brought /\ links[r.token].sent})
  <2> HIDE DEF brought, join
  <2>1. {r["link"] : r \in sent} \ {None} = {r \in LinkRows : r.who \in brought /\ links[r.token].sent}
    BY <1>1
  <2> QED BY <2>1 DEF FunnelRow, CountDistinct, join
<1>7. /\ IsFiniteSet(brought) /\ IsFiniteSet(down)
      /\ Cardinality(down) <= Cardinality(brought)
      /\ Cardinality(act) <= Cardinality(down)
  <2>1. IsFiniteSet(brought)
    BY <1>1, RowsFinite, FS_Subset
  <2>2. down \in SUBSET brought
    OBVIOUS
  <2>3. act \in SUBSET down
    BY <1>1, RowFacts DEF CustomersInv, LinkTellsTheTruth
  <2> HIDE DEF brought, down, act
  <2> QED BY <2>1, <2>2, <2>3, FS_Subset
<1> QED BY <1>3, <1>4, <1>5, <1>6, <1>7

(* FunnelCountsOnce holds: the join multiplies rows, not people.            *)
THEOREM JoinCountsOnce == Spec => []FunnelCountsOnce
BY CustomersInvHolds, CountedOnce, PTL

-----------------------------------------------------------------------------
(* The dashboard: the people who are not the team's own, and their rows.    *)

Kept(tests) == Known \ tests

LEMMA ConversationFacts ==
  ASSUME NEW tests
  PROVE  \A r : r \in Conversations(tests) <=>
                  \E p \in Kept(tests) : \E n \in Threads(p) : r = [who |-> p, on |-> n]
BY RowFacts DEF Conversations, Excluding, Kept

LEMMA TableFacts ==
  ASSUME NEW tests
  PROVE  /\ Table(tests) = {CustomerRow(p) : p \in Kept(tests)}
         /\ Excluding(CustomerRows, tests) = {[who |-> p] : p \in Kept(tests)}
         /\ IsFiniteSet(Kept(tests))
<1>1. Excluding(CustomerRows, tests) = {[who |-> p] : p \in Kept(tests)}
  BY RowFacts DEF Excluding, Kept
<1>2. Table(tests) = {CustomerRow(p) : p \in Kept(tests)}
  <2>1. \A p \in Kept(tests) : [who |-> p] \in Excluding(CustomerRows, tests)
    BY <1>1
  <2>2. \A row \in Excluding(CustomerRows, tests) : row.who \in Kept(tests)
    BY <1>1
  <2>3. \A p : [who |-> p].who = p
    OBVIOUS
  <2>4. ASSUME NEW p \in Kept(tests) PROVE CustomerRow(p) \in Table(tests)
    <3>1. CustomerRow([who |-> p].who) \in Table(tests)
      BY <2>1 DEF Table
    <3> QED BY <2>3, <3>1
  <2> QED BY <2>2, <2>4 DEF Table
<1> QED BY <1>1, <1>2, RowsFinite, FS_Subset DEF Kept

(* A filter of the table, of the customers and of the people counts alike.  *)
LEMMA CountPeople ==
  ASSUME NEW tests, NEW P \in SUBSET Kept(tests), NEW f, f = [p \in P |-> f[p]],
         \A p \in P : f[p].who = p
  PROVE  /\ IsFiniteSet(P) /\ Cardinality(P) \in Nat
         /\ IsFiniteSet({f[p] : p \in P})
         /\ Cardinality({f[p] : p \in P}) = Cardinality(P)
<1>1. IsFiniteSet(P) /\ Cardinality(P) \in Nat
  BY TableFacts, FS_Subset, FS_CardinalityType
<1> DEFINE T == {f[p] : p \in P}
<1>2. /\ f \in [P -> T]
      /\ \A x, y \in P : f[x] = f[y] => x = y
      /\ \A t \in T : \E x \in P : f[x] = t
  OBVIOUS
<1> HIDE DEF T
<1>3. IsFiniteSet(T) /\ Cardinality(T) = Cardinality(P)
  BY <1>1, <1>2, SameCount
<1> QED BY <1>1, <1>3 DEF T

LEMMA RowsOfPeople ==
  ASSUME NEW tests, NEW P \in SUBSET Kept(tests)
  PROVE  /\ IsFiniteSet(P) /\ Cardinality(P) \in Nat
         /\ Cardinality({CustomerRow(p) : p \in P}) = Cardinality(P)
         /\ Cardinality({[who |-> p] : p \in P}) = Cardinality(P)
<1> DEFINE f == [p \in P |-> CustomerRow(p)]
           g == [p \in P |-> [who |-> p]]
<1>1. f = [p \in P |-> f[p]] /\ \A p \in P : f[p].who = p
  BY DEF CustomerRow
<1>2. g = [p \in P |-> g[p]] /\ \A p \in P : g[p].who = p
  OBVIOUS
<1>3. {f[p] : p \in P} = {CustomerRow(p) : p \in P} /\ {g[p] : p \in P} = {[who |-> p] : p \in P}
  OBVIOUS
<1> HIDE DEF f, g
<1>4. /\ IsFiniteSet(P) /\ Cardinality(P) \in Nat
      /\ Cardinality({f[p] : p \in P}) = Cardinality(P)
  BY <1>1, CountPeople
<1>5. Cardinality({g[p] : p \in P}) = Cardinality(P)
  BY <1>2, CountPeople
<1> QED BY <1>3, <1>4, <1>5

(* The counts of people on the overview are those of the filtered table.    *)
LEMMA PeopleAgree ==
  ASSUME NEW tests
  PROVE  LET o == Overview(tests)
             page == Table(tests)
         IN  /\ o.customers = Cardinality(page)
             /\ o.downloaded = Cardinality(CustomerPage(page, "downloaded"))
             /\ o.activated = Cardinality(CustomerPage(page, "activated"))
             /\ o.clicked = Cardinality(CustomerPage(page, "clicked"))
             /\ o.customers - o.downloaded = Cardinality(CustomerPage(page, "not_downloaded"))
             /\ o.direct = Cardinality({row \in page : row.source = "direct"})
<1> DEFINE kept == Kept(tests)
           down == {p \in kept : customer[p].downloaded}
           act == {p \in kept : customer[p].activated}
           not == {p \in kept : ~customer[p].downloaded}
           click == {p \in kept : \E t \in LinksOf(p) : links[t].clicked}
           direct == {p \in kept : LeadsOf[p] = <<>>}
           led == {p \in kept : LeadsOf[p] # <<>>}
           page == Table(tests)
           rows == Excluding(CustomerRows, tests)
<1>1. page = {CustomerRow(p) : p \in kept} /\ rows = {[who |-> p] : p \in kept}
  BY TableFacts
<1>2. Overview(tests).customers = Cardinality(kept) /\ Cardinality(page) = Cardinality(kept)
  <2>1. Overview(tests).customers = Cardinality(rows)
    BY DEF Overview
  <2> QED BY <1>1, <2>1, RowsOfPeople
<1>3. Overview(tests).downloaded = Cardinality(down) /\ Cardinality(CustomerPage(page, "downloaded")) = Cardinality(down)
  <2>1. Overview(tests).downloaded = Cardinality({r \in rows : customer[r.who].downloaded})
    BY DEF Overview
  <2>2. {r \in rows : customer[r.who].downloaded} = {[who |-> p] : p \in down}
    BY <1>1
  <2>3. CustomerPage(page, "downloaded") = {CustomerRow(p) : p \in down}
    BY <1>1 DEF CustomerPage, CustomerFilter, CustomerRow
  <2> QED BY <2>1, <2>2, <2>3, RowsOfPeople
<1>4. Overview(tests).activated = Cardinality(act) /\ Cardinality(CustomerPage(page, "activated")) = Cardinality(act)
  <2>1. Overview(tests).activated = Cardinality({r \in rows : customer[r.who].activated})
    BY DEF Overview
  <2>2. {r \in rows : customer[r.who].activated} = {[who |-> p] : p \in act}
    BY <1>1
  <2>3. CustomerPage(page, "activated") = {CustomerRow(p) : p \in act}
    BY <1>1 DEF CustomerPage, CustomerFilter, CustomerRow
  <2> QED BY <2>1, <2>2, <2>3, RowsOfPeople
<1>5. Overview(tests).clicked = Cardinality(click) /\ Cardinality(CustomerPage(page, "clicked")) = Cardinality(click)
  <2>1. Overview(tests).clicked
          = Cardinality(Owners({r \in Excluding(LinkRows, tests) : links[r.token].clicked}))
    BY DEF Overview
  <2>2. Owners({r \in Excluding(LinkRows, tests) : links[r.token].clicked}) = click
    <3>1. ASSUME NEW p \in click
          PROVE  \E r \in Excluding(LinkRows, tests) : links[r.token].clicked /\ r.who = p
      <4>1. PICK t \in LinksOf(p) : links[t].clicked
        OBVIOUS
      <4>2. [who |-> p, token |-> t] \in LinkRows
        BY RowFacts DEF Kept
      <4> QED BY <4>1, <4>2 DEF Excluding, Kept
    <3>2. ASSUME NEW r \in Excluding(LinkRows, tests), links[r.token].clicked
          PROVE  r.who \in click
      BY <3>2, RowFacts DEF Excluding, Kept
    <3> QED BY <3>1, <3>2 DEF Owners
  <2>3. CustomerPage(page, "clicked") = {CustomerRow(p) : p \in click}
    BY <1>1 DEF CustomerPage, CustomerFilter, CustomerRow
  <2> QED BY <2>1, <2>2, <2>3, RowsOfPeople
<1>6. Cardinality(CustomerPage(page, "not_downloaded")) = Cardinality(kept) - Cardinality(down)
  <2>1. CustomerPage(page, "not_downloaded") = {CustomerRow(p) : p \in not}
    BY <1>1 DEF CustomerPage, CustomerFilter, CustomerRow
  <2>2. not = kept \ down /\ kept \cap down = down
    OBVIOUS
  <2>3. IsFiniteSet(kept)
    BY RowsOfPeople
  <2>4. Cardinality(kept \ down) = Cardinality(kept) - Cardinality(kept \cap down)
    BY <2>3, FS_Difference
  <2> QED BY <2>1, <2>2, <2>4, RowsOfPeople
<1>7. Overview(tests).direct = Cardinality(direct)
  <2>1. Overview(tests).direct = Cardinality(rows) - Cardinality(Owners(Excluding(LeadRows, tests)))
    BY DEF Overview
  <2>2. ASSUME NEW p \in kept PROVE LeadsOf[p] # <<>> <=> \E i \in DOMAIN LeadsOf[p] : TRUE
    <3>1. LeadsOf[p] \in Seq(Lead)
      BY RowFacts, ReportsAssumption DEF Kept
    <3>2. LeadsOf[p] # <<>> => 1 \in DOMAIN LeadsOf[p]
      BY <3>1
    <3>3. LeadsOf[p] = <<>> => DOMAIN LeadsOf[p] = {}
      OBVIOUS
    <3> QED BY <3>2, <3>3
  <2>3. Owners(Excluding(LeadRows, tests)) = led
    <3>1. ASSUME NEW p \in led
          PROVE  \E r \in Excluding(LeadRows, tests) : r.who = p
      <4>1. PICK i \in DOMAIN LeadsOf[p] : TRUE
        BY <2>2
      <4>2. [who |-> p, lead |-> i] \in LeadRows
        BY RowFacts DEF Kept
      <4> QED BY <4>2 DEF Excluding, Kept
    <3>2. ASSUME NEW r \in Excluding(LeadRows, tests)
          PROVE  r.who \in led
      <4>1. PICK p \in Known : \E i \in DOMAIN LeadsOf[p] : r = [who |-> p, lead |-> i]
        BY RowFacts DEF Excluding
      <4>2. r.who = p /\ p \in kept
        BY <4>1 DEF Excluding, Kept
      <4> QED BY <2>2, <4>1, <4>2
    <3> QED BY <3>1, <3>2 DEF Owners
  <2>4. direct = kept \ led /\ kept \cap led = led
    OBVIOUS
  <2>5. IsFiniteSet(kept)
    BY RowsOfPeople
  <2>6. Cardinality(kept \ led) = Cardinality(kept) - Cardinality(kept \cap led)
    BY <2>5, FS_Difference
  <2>7. Cardinality(rows) = Cardinality(kept)
    BY <1>1, RowsOfPeople
  <2> QED BY <2>1, <2>3, <2>4, <2>6, <2>7
<1>8. Cardinality({row \in page : row.source = "direct"}) = Cardinality(direct)
  <2>1. \A p \in kept : CustomerRow(p).source = "direct" <=> LeadsOf[p] = <<>>
    <3> TAKE p \in kept
    <3>1. LeadsOf[p] \in Seq(Lead)
      BY RowFacts, ReportsAssumption DEF Kept
    <3>2. LeadsOf[p] # <<>> => LeadsOf[p][1] \in Lead
      BY <3>1
    <3>3. CustomerRow(p).source = Origin(p)
      BY DEF CustomerRow
    <3> QED BY <3>2, <3>3 DEF Origin, Lead
  <2>2. {row \in page : row.source = "direct"} = {CustomerRow(p) : p \in direct}
    BY <1>1, <2>1
  <2> QED BY <2>2, RowsOfPeople
<1> QED BY <1>2, <1>3, <1>4, <1>5, <1>6, <1>7, <1>8

-----------------------------------------------------------------------------
(* The sums of the dashboard.                                               *)

LEMMA LogFacts ==
  ASSUME CustomersInv, NEW r \in ThreadRows
  PROVE  Log(r) \in Seq({"reply", "link"}) /\ Len(Log(r)) \in Nat
<1>1. PICK p \in Known : \E n \in Threads(p) : r = [who |-> p, on |-> n]
  BY RowFacts
<1>2. r.who \in People /\ r.on \in Numbers
  BY <1>1, RowFacts
<1>3. thread[r.who][r.on] \in OpenThread
  BY <1>2 DEF CustomersInv, RowsTyped
<1> QED BY <1>3 DEF Log, OpenThread

\* the threads of a person, and the numbers they are on
LEMMA ThreadsOf ==
  ASSUME NEW p \in Known
  PROVE  /\ \A r : r \in OfPerson(ThreadRows, p) <=> \E n \in Threads(p) : r = [who |-> p, on |-> n]
         /\ IsFiniteSet(OfPerson(ThreadRows, p))
         /\ Cardinality(OfPerson(ThreadRows, p)) = Cardinality(Threads(p))
<1> DEFINE f == [n \in Threads(p) |-> [who |-> p, on |-> n]]
           T == OfPerson(ThreadRows, p)
<1>1. \A r : r \in T <=> \E n \in Threads(p) : r = [who |-> p, on |-> n]
  BY RowFacts DEF OfPerson
<1>2. /\ f \in [Threads(p) -> T]
      /\ \A x, y \in Threads(p) : f[x] = f[y] => x = y
      /\ \A r \in T : \E n \in Threads(p) : f[n] = r
  BY <1>1
<1> HIDE DEF f, T
<1>3. IsFiniteSet(T) /\ Cardinality(T) = Cardinality(Threads(p))
  BY <1>2, HangingFinite, SameCount
<1> QED BY <1>1, <1>3 DEF T

LEMMA ConversationsAgree ==
  ASSUME NEW tests
  PROVE  Overview(tests).conversations
           = SumFunction([row \in Table(tests) |-> Cardinality(row.numbers)])
<1> DEFINE S == Conversations(tests)
           T == Table(tests)
           g == [r \in S |-> CustomerRow(r.who)]
<1>1. IsFiniteSet(S) /\ IsFiniteSet(T)
  <2>1. S \in SUBSET ThreadRows
    BY DEF Conversations, Excluding
  <2> DEFINE f == [p \in Kept(tests) |-> CustomerRow(p)]
  <2>2. T = {f[p] : p \in Kept(tests)} /\ f = [p \in Kept(tests) |-> f[p]]
    BY TableFacts
  <2> HIDE DEF S, T, f
  <2> QED BY <2>1, <2>2, RowsFinite, FS_Subset, TableFacts, ImageFinite
<1>2. g \in [S -> T]
  BY ConversationFacts, TableFacts
<1>3. Cardinality(S) = SumFunction([row \in T |-> Cardinality({r \in S : g[r] = row})])
  <2> HIDE DEF S, T, g
  <2> QED BY <1>1, <1>2, CountOfParts
<1>4. ASSUME NEW row \in T
      PROVE  Cardinality({r \in S : g[r] = row}) = Cardinality(row.numbers)
  <2>1. PICK p \in Kept(tests) : row = CustomerRow(p)
    BY TableFacts
  <2>2. p \in Known
    BY DEF Kept
  <2>3. \A q : CustomerRow(q).who = q /\ CustomerRow(q).numbers = Threads(q)
    BY DEF CustomerRow
  <2>4. \A r \in S : g[r] = CustomerRow(r.who)
    OBVIOUS
  <2>5. {r \in S : g[r] = row} = OfPerson(ThreadRows, p)
    <3>1. \A r \in S : g[r] = row <=> r.who = p
      BY <2>1, <2>3, <2>4
    <3>2. \A r \in ThreadRows : r.who = p => r \in S
      BY <2>1 DEF Conversations, Excluding, Kept
    <3>3. S \subseteq ThreadRows
      BY DEF Conversations, Excluding
    <3> HIDE DEF S, g
    <3> QED BY <3>1, <3>2, <3>3 DEF OfPerson
  <2> QED BY <2>1, <2>2, <2>3, <2>5, ThreadsOf
<1>5. Overview(tests).conversations = Cardinality(S)
  BY DEF Overview
<1>6. [row \in T |-> Cardinality({r \in S : g[r] = row})] = [row \in T |-> Cardinality(row.numbers)]
  BY <1>4
<1> QED BY <1>3, <1>5, <1>6

LEMMA MessagesAgree ==
  ASSUME CustomersInv, NEW tests
  PROVE  Overview(tests).messages = SumFunction([row \in Table(tests) |-> row.messages])
<1> DEFINE S == Conversations(tests)
           T == Table(tests)
           f == [r \in S |-> Len(Log(r))]
           g == [r \in S |-> CustomerRow(r.who)]
           h == [row \in T |-> row.messages]
<1>0. S \subseteq ThreadRows
  BY DEF Conversations, Excluding
<1>1. IsFiniteSet(S) /\ IsFiniteSet(T)
  <2> DEFINE e == [p \in Kept(tests) |-> CustomerRow(p)]
  <2>2. T = {e[p] : p \in Kept(tests)} /\ e = [p \in Kept(tests) |-> e[p]]
    BY TableFacts
  <2> HIDE DEF S, T, e
  <2> QED BY <1>0, <2>2, RowsFinite, FS_Subset, TableFacts, ImageFinite
<1>2. g \in [S -> T]
  BY ConversationFacts, TableFacts
<1>3. f \in [S -> Nat]
  BY <1>0, LogFacts
<1>4. ASSUME NEW row \in T
      PROVE  h[row] = SumFunction([x \in {y \in S : g[y] = row} |-> f[x]])
  <2>1. PICK p \in Kept(tests) : row = CustomerRow(p)
    BY TableFacts
  <2>2. p \in Known
    BY DEF Kept
  <2>3. \A q : CustomerRow(q).who = q /\ CustomerRow(q).messages = Messages(OfPerson(ThreadRows, q))
    BY DEF CustomerRow
  <2>4. \A r \in S : g[r] = CustomerRow(r.who) /\ f[r] = Len(Log(r))
    OBVIOUS
  <2>5. {r \in S : g[r] = row} = OfPerson(ThreadRows, p)
    <3>1. \A r \in S : g[r] = row <=> r.who = p
      BY <2>1, <2>3, <2>4
    <3>2. \A r \in ThreadRows : r.who = p => r \in S
      BY <2>1 DEF Conversations, Excluding, Kept
    <3> HIDE DEF S, g
    <3> QED BY <1>0, <3>1, <3>2 DEF OfPerson
  <2>6. h[row] = SumFunction([r \in OfPerson(ThreadRows, p) |-> Len(Log(r))])
    BY <2>1, <2>3 DEF Messages
  <2>7. \A r \in OfPerson(ThreadRows, p) : f[r] = Len(Log(r))
    BY <2>5, <2>4
  <2>8. [r \in {y \in S : g[y] = row} |-> f[r]] = [r \in OfPerson(ThreadRows, p) |-> Len(Log(r))]
    <3> HIDE DEF S, g, f
    <3> QED BY <2>5, <2>7
  <2> QED BY <2>6, <2>8
<1>5. h = [row \in T |-> SumFunction([x \in {y \in S : g[y] = row} |-> f[x]])]
  BY <1>4
<1>6. SumFunction(h) = SumFunction(f)
  <2> HIDE DEF S, T, f, g, h
  <2> QED BY <1>1, <1>2, <1>3, <1>5, SumOfParts
<1>7. Overview(tests).messages = SumFunction(f)
  BY DEF Overview, Messages
<1> QED BY <1>6, <1>7

LEMMA LastMessages ==
  ASSUME NEW A, NEW log \in Seq(A), Len(log) <= MessageLimit
  PROVE  Len(SubSeq(log, Max({1, Len(log) - MessageLimit + 1}), Len(log))) = Len(log)
<1>1. Len(log) \in Nat /\ MessageLimit \in Nat
  BY ReportsAssumption
<1> DEFINE k == Len(log) - MessageLimit + 1
<1>2. k \in Int /\ k <= 1
  BY <1>1
<1> HIDE DEF k
<1>3. Max({1, k}) = 1
  BY <1>2 DEF Max
<1>4. Len(SubSeq(log, 1, Len(log))) = Len(log)
  BY <1>1
<1> QED BY <1>3, <1>4 DEF k

(* Unless the detail is cut, its threads add up to the row of the table.    *)
LEMMA DetailsAgree ==
  ASSUME CustomersInv, NEW p \in Known,
         \A n \in Threads(p) : ~CustomerDetail(p)[n].truncated
  PROVE  CustomerRow(p).messages
           = SumFunction([n \in Threads(p) |-> Len(CustomerDetail(p)[n].messages)])
<1> DEFINE S == OfPerson(ThreadRows, p)
           T == Threads(p)
           f == [r \in S |-> Len(Log(r))]
           g == [r \in S |-> r.on]
           h == [n \in T |-> Len(CustomerDetail(p)[n].messages)]
<1>0. IsFiniteSet(S) /\ IsFiniteSet(T)
  BY ThreadsOf, HangingFinite
<1>1. \A r : r \in S <=> \E n \in T : r = [who |-> p, on |-> n]
  BY ThreadsOf
<1>2. S \subseteq ThreadRows
  BY DEF OfPerson
<1>3. f \in [S -> Nat]
  BY <1>2, LogFacts
<1>4. g \in [S -> T]
  BY <1>1
<1>5. ASSUME NEW n \in T
      PROVE  h[n] = SumFunction([x \in {y \in S : g[y] = n} |-> f[x]])
  <2> DEFINE r == [who |-> p, on |-> n]
             e == [x \in {r} |-> f[x]]
  <2>1. r \in S /\ {y \in S : g[y] = n} = {r}
    BY <1>1
  <2>2. SumFunction(e) = f[r]
    <3>1. e \in [{r} -> Nat] /\ e[r] = f[r]
      BY <1>3, <2>1
    <3> HIDE DEF e, f
    <3> QED BY <3>1, SumOfOne
  <2>3. f[r] = Len(Log(r)) /\ Log(r) = thread[p][n].log
    BY <2>1 DEF Log
  <2>4. h[n] = Len(Log(r))
    <3>1. h[n] = Len(SubSeq(Log(r), Max({1, Len(Log(r)) - MessageLimit + 1}), Len(Log(r))))
      BY <2>3 DEF CustomerDetail
    <3>2. ~(Len(Log(r)) > MessageLimit)
      <4>1. CustomerDetail(p)[n].truncated = (Len(Log(r)) > MessageLimit)
        BY <2>3 DEF CustomerDetail
      <4> QED BY <4>1
    <3>3. Log(r) \in Seq({"reply", "link"}) /\ Len(Log(r)) \in Nat /\ MessageLimit \in Nat
      BY <1>2, <2>1, LogFacts, ReportsAssumption
    <3>4. Len(Log(r)) <= MessageLimit
      BY <3>2, <3>3
    <3> QED BY <3>1, <3>3, <3>4, LastMessages
  <2>5. [x \in {y \in S : g[y] = n} |-> f[x]] = e
    BY <2>1
  <2> QED BY <2>2, <2>3, <2>4, <2>5
<1>6. h = [n \in T |-> SumFunction([x \in {y \in S : g[y] = n} |-> f[x]])]
  BY <1>5
<1>7. SumFunction(h) = SumFunction(f)
  <2> HIDE DEF S, T, f, g, h
  <2> QED BY <1>0, <1>3, <1>4, <1>6, SumOfParts
<1>8. CustomerRow(p).messages = SumFunction(f)
  BY DEF CustomerRow, Messages
<1> QED BY <1>7, <1>8

LEMMA TheFiguresAgree == CustomersInv => FiguresAgree
<1> SUFFICES ASSUME CustomersInv, NEW tests \in SUBSET Known
             PROVE  LET o == Overview(tests)
                        page == Table(tests)
                    IN  /\ o.customers = Cardinality(page)
                        /\ o.downloaded = Cardinality(CustomerPage(page, "downloaded"))
                        /\ o.activated = Cardinality(CustomerPage(page, "activated"))
                        /\ o.clicked = Cardinality(CustomerPage(page, "clicked"))
                        /\ o.customers - o.downloaded = Cardinality(CustomerPage(page, "not_downloaded"))
                        /\ o.direct = Cardinality({row \in page : row.source = "direct"})
                        /\ o.conversations = SumFunction([row \in page |-> Cardinality(row.numbers)])
                        /\ o.messages = SumFunction([row \in page |-> row.messages])
                        /\ \A row \in page :
                             \/ \E n \in row.numbers : CustomerDetail(row.who)[n].truncated
                             \/ row.messages = SumFunction([n \in row.numbers |->
                                                             Len(CustomerDetail(row.who)[n].messages)])
  BY DEF FiguresAgree
<1>1. ASSUME NEW row \in Table(tests),
             \A n \in row.numbers : ~CustomerDetail(row.who)[n].truncated
      PROVE  row.messages = SumFunction([n \in row.numbers |-> Len(CustomerDetail(row.who)[n].messages)])
  <2>1. PICK p \in Kept(tests) : row = CustomerRow(p)
    BY TableFacts
  <2>2. row.who = p /\ row.numbers = Threads(p)
    BY <2>1 DEF CustomerRow
  <2>3. p \in Known
    BY DEF Kept
  <2> QED BY <1>1, <2>1, <2>2, <2>3, DetailsAgree
<1> QED BY <1>1, PeopleAgree, ConversationsAgree, MessagesAgree

(* FiguresAgree holds: with any of the numbers left out as the team's own,  *)
(* the overview is what the table adds up to, and the table what the        *)
(* details do, as long as they are not cut.                                 *)
THEOREM OverviewIsTheSum == Spec => []FiguresAgree
BY CustomersInvHolds, TheFiguresAgree, PTL


-----------------------------------------------------------------------------
(* A message that reached the customer.  We know of it - the link is        *)
(* stamped, or a session is about to, or it is one of those we did not hear *)
(* of - until the person is removed: then nobody makes the link again.      *)

HeardOf(t) ==
  \/ links[t].sent
  \/ t \in unheard
  \/ \E s \in Slots : slot[s].pc = "sent" /\ slot[s].token = t

Removed(t) == links[t].of = None /\ ~\E s \in Slots : slot[s].makes /\ slot[s].token = t

ReachedInv ==
  /\ \A t \in held : t <= issued
  /\ \A t \in held : HeardOf(t) \/ Removed(t)
  /\ \A t \in Tokens : links[t].clicked => t \in held

LEMMA MakerFacts ==
  ASSUME CustomersInv, NEW s \in Slots, slot[s].makes
  PROVE  /\ slot[s].pc \in InTurn /\ slot[s].token \in Tokens
         /\ links[slot[s].token] = NoLink
         /\ links[slot[s].token].of = None /\ ~links[slot[s].token].sent
<1>1. NoLink.of = None /\ ~NoLink.sent
  BY DEF NoLink
<1> QED BY <1>1 DEF CustomersInv, SessionsOK, TokenOK

LEMMA TurnTokenFacts ==
  ASSUME CustomersInv, NEW s \in Slots, slot[s].pc \in InTurn
  PROVE  /\ slot[s].who \in People
         /\ slot[s].token # None => slot[s].token \in Tokens
         /\ slot[s].token # None /\ ~slot[s].makes =>
              links[slot[s].token].of = slot[s].who /\ links[slot[s].token].of # None
<1>1. slot[s].who \in People /\ slot[s] \in Session
  BY DEF CustomersInv, RowsTyped, SessionsOK, TurnOK, OnThread
<1>2. slot[s].who # None
  BY <1>1, CustomersAssumption
<1> QED BY <1>1, <1>2 DEF CustomersInv, SessionsOK, TokenOK, Session

\* a session that begins is none that is about to stamp a link; what it makes is new
LEMMA BeginningReaches ==
  ASSUME CustomersInv, ReachedInv, NEW s \in Slots, NEW X, Begins(s, X),
         UNCHANGED <<links, held, unheard>>, issued' \in {issued, issued + 1},
         X.makes => X.token = issued + 1
  PROVE  ReachedInv'
<1>1. /\ slot[s] = Idle /\ slot'[s] = X
      /\ \A r \in Slots \ {s} : slot'[r] = slot[r]
  BY Begun DEF Begins, Free
<1>2. issued \in Nat /\ held \subseteq Nat
  BY CustomersAssumption DEF CustomersInv, RowsTyped, Tokens
<1>3. \A t \in held : HeardOf(t) => HeardOf(t)'
  BY <1>1, IdleFacts DEF HeardOf
<1>4. \A t \in held : Removed(t) => Removed(t)'
  <2> SUFFICES ASSUME NEW t \in held, Removed(t), NEW r \in Slots, slot'[r].makes, slot'[r].token = t
               PROVE  FALSE
    BY DEF Removed
  <2>1. CASE r = s
    BY <1>1, <1>2, <2>1 DEF ReachedInv
  <2>2. CASE r # s
    BY <1>1, <2>2 DEF Removed
  <2> QED BY <2>1, <2>2
<1>5. \A t \in held' : t <= issued'
  BY <1>2 DEF ReachedInv
<1> QED BY <1>3, <1>4, <1>5 DEF ReachedInv

\* a session that ends without a stamp to set
LEMMA EndingReaches ==
  ASSUME CustomersInv, ReachedInv, UNCHANGED <<issued, held, unheard>>,
         \A r \in Slots : slot'[r] = slot[r] \/ (slot'[r] = Idle /\ slot[r].pc # "sent"),
         \A t \in Tokens : /\ links'[t].of = links[t].of
                           /\ links'[t].sent = links[t].sent
                           /\ links'[t].clicked => links[t].clicked \/ t \in held
  PROVE  ReachedInv'
<1>1. held \subseteq Tokens
  BY DEF CustomersInv, RowsTyped
<1>2. \A t \in held : HeardOf(t) => HeardOf(t)'
  BY <1>1 DEF HeardOf
<1>3. \A t \in held : Removed(t) => Removed(t)'
  BY <1>1, IdleFacts DEF Removed
<1> QED BY <1>2, <1>3 DEF ReachedInv

LEMMA SendLinkReaches ==
  ASSUME CustomersInv, ReachedInv, NEW s \in Slots, NEW delivered \in BOOLEAN, NEW heard \in BOOLEAN,
         SendLink(s, delivered, heard)
  PROVE  ReachedInv'
<1> DEFINE token == slot[s].token
           X == [slot[s] EXCEPT !.pc = IF heard THEN "sent" ELSE "failed",
                                !.next = IF heard THEN Moved(@, "link_sent", FALSE) ELSE @]
<1>1. /\ slot[s].pc = "linking" /\ (heard => delivered)
      /\ held' = IF delivered THEN held \cup {token} ELSE held
      /\ unheard' = IF delivered /\ ~heard THEN unheard \cup {token} ELSE unheard
      /\ UNCHANGED <<links, issued>>
  BY DEF SendLink, tables
<1>2. slot[s] \in Session /\ slot \in [Slots -> Session]
  BY DEF CustomersInv, RowsTyped
<1>3. slot' = [slot EXCEPT ![s] = X]
  BY <1>2 DEF SendLink, Session
<1>4. /\ X.makes = slot[s].makes /\ X.token = token
      /\ X.pc = IF heard THEN "sent" ELSE "failed"
  BY <1>2 DEF Session
<1>5. slot'[s] = X /\ \A r \in Slots \ {s} : slot'[r] = slot[r]
  BY <1>2, <1>3
<1> HIDE DEF X
<1>6. token \in Tokens /\ token <= issued
  <2>1. token # None
    BY <1>1 DEF CustomersInv, SessionsOK, TurnOK, InTurn
  <2>2. token \in Tokens
    BY <1>2, <2>1 DEF Session
  <2>3. links[token].of # None => token <= issued
    BY <2>2, CustomersAssumption DEF CustomersInv, RowsTyped, RowsOwned, NoLink, Tokens
  <2>4. slot[s].makes => token <= issued
    BY DEF CustomersInv, SessionsOK, TokenOK
  <2>5. ~slot[s].makes => links[token].of # None
    BY <1>1, <2>1, TurnTokenFacts DEF InTurn
  <2> QED BY <2>2, <2>3, <2>4, <2>5
<1>7. \A t : HeardOf(t) => HeardOf(t)'
  BY <1>1, <1>4, <1>5 DEF HeardOf
<1>8. \A t : Removed(t) => Removed(t)'
  BY <1>1, <1>4, <1>5 DEF Removed
<1>9. \A t : t = token /\ delivered => HeardOf(t)'
  BY <1>1, <1>4, <1>5 DEF HeardOf
<1> HIDE DEF token
<1>10. \A t \in held' : t \in held \/ (t = token /\ delivered)
  <2>1. CASE delivered
    BY <1>1, <2>1
  <2>2. CASE ~delivered
    BY <1>1, <2>2
  <2> QED BY <2>1, <2>2
<1>11. \A t \in held' : t <= issued'
  BY <1>1, <1>6, <1>10 DEF ReachedInv
<1>12. \A t \in held' : HeardOf(t)' \/ Removed(t)'
  <2> TAKE t \in held'
  <2>1. CASE t \in held
    BY <1>7, <1>8, <2>1 DEF ReachedInv
  <2>2. CASE t = token /\ delivered
    BY <1>9, <2>2
  <2> QED BY <1>10, <2>1, <2>2
<1>13. \A t \in Tokens : links'[t].clicked => t \in held'
  BY <1>1 DEF ReachedInv
<1> QED BY <1>11, <1>12, <1>13 DEF ReachedInv

LEMMA AbortReaches ==
  ASSUME CustomersInv, ReachedInv, NEW s \in Slots, Abort(s)
  PROVE  ReachedInv'
<1>1. /\ Ends(s) /\ UNCHANGED <<links, issued, held>>
      /\ unheard' = IF slot[s].pc = "sent" THEN unheard \cup ({slot[s].token} \ {None}) ELSE unheard
  BY DEF Abort, tables
<1>2. /\ slot'[s] = Idle
      /\ \A r \in Slots \ {s} : slot'[r] = slot[r]
  BY <1>1, Ending
<1>3. held \subseteq Tokens /\ None \notin Tokens
  BY CustomersAssumption DEF CustomersInv, RowsTyped, Tokens
<1>4. \A t \in held : HeardOf(t) => HeardOf(t)'
  BY <1>1, <1>2, <1>3 DEF HeardOf
<1>5. \A t \in held : Removed(t) => Removed(t)'
  BY <1>1, <1>2, IdleFacts DEF Removed
<1> QED BY <1>1, <1>4, <1>5 DEF ReachedInv

LEMMA StoreTurnReaches ==
  ASSUME CustomersInv, ReachedInv, NEW s \in Slots, StoreTurn(s)
  PROVE  ReachedInv'
<1> DEFINE c == slot[s]
           row == IF c.makes THEN [NoLink EXCEPT !.of = c.who, !.on = c.on] ELSE links[c.token]
<1>1. /\ c.pc \in {"sent", "failed"} /\ Ends(s) /\ UNCHANGED <<issued, held, unheard>>
      /\ links' = IF c.token = None THEN links ELSE [links EXCEPT ![c.token] = Stamped(row, c)]
  BY DEF StoreTurn
<1>2. /\ slot'[s] = Idle
      /\ \A r \in Slots \ {s} : slot'[r] = slot[r]
  BY <1>1, Ending
<1>3. /\ links \in [Tokens -> Link] /\ held \subseteq Tokens /\ None \notin Tokens
      /\ c.token # None => c.token \in Tokens
      /\ c.token # None /\ ~c.makes => links[c.token].of # None
      /\ c.makes => c.token # None /\ links[c.token] = NoLink
  <2>1. links \in [Tokens -> Link] /\ held \subseteq Tokens /\ None \notin Tokens
    BY CustomersAssumption DEF CustomersInv, RowsTyped, Tokens
  <2>2. c.pc \in InTurn
    BY <1>1 DEF InTurn
  <2> QED BY <2>1, <2>2, MakerFacts, TurnTokenFacts
<1>4. c.token # None =>
        /\ row \in [of : People \cup {None}, on : Numbers \cup {None}, sent : BOOLEAN, clicked : BOOLEAN,
                    downloaded : BOOLEAN, activated : BOOLEAN]
        /\ row.clicked = links[c.token].clicked /\ row.sent = links[c.token].sent
  <2>1. CASE c.makes
    <3>1. c.who \in People /\ c.on \in Numbers
      BY <1>1 DEF InTurn, CustomersInv, SessionsOK, TurnOK, OnThread
    <3> QED BY <1>3, <2>1, <3>1 DEF NoLink
  <2>2. CASE ~c.makes
    BY <1>3, <2>2 DEF Link
  <2> QED BY <2>1, <2>2
<1> HIDE DEF row
<1>5. c.token # None =>
        /\ links'[c.token].clicked = links[c.token].clicked
        /\ links'[c.token].sent <=> links[c.token].sent \/ c.pc = "sent"
  <2> SUFFICES ASSUME c.token # None
               PROVE  /\ links'[c.token].clicked = links[c.token].clicked
                      /\ links'[c.token].sent <=> links[c.token].sent \/ c.pc = "sent"
    OBVIOUS
  <2>1. links'[c.token] = Stamped(row, c)
    BY <1>1, <1>3
  <2> HIDE DEF c
  <2>2. /\ Stamped(row, c).clicked = row.clicked
        /\ Stamped(row, c).sent <=> row.sent \/ c.pc = "sent"
    BY <1>4 DEF Stamped
  <2> QED BY <1>4, <2>1, <2>2
<1>6. \A t \in Tokens : t # c.token => links'[t] = links[t]
  BY <1>1, <1>3
<1>7. \A t \in held : HeardOf(t) => HeardOf(t)'
  <2> SUFFICES ASSUME NEW t \in held, HeardOf(t)
               PROVE  HeardOf(t)'
    OBVIOUS
  <2>1. CASE links[t].sent
    BY <1>3, <1>5, <1>6, <2>1 DEF HeardOf
  <2>2. CASE t \in unheard
    BY <1>1, <2>2 DEF HeardOf
  <2>3. ASSUME NEW r \in Slots, slot[r].pc = "sent", slot[r].token = t
        PROVE  HeardOf(t)'
    BY <1>2, <1>3, <1>5, <2>3 DEF HeardOf
  <2> QED BY <2>1, <2>2, <2>3 DEF HeardOf
<1>8. \A t \in held : Removed(t) => Removed(t)'
  <2> SUFFICES ASSUME NEW t \in held, Removed(t)
               PROVE  Removed(t)'
    OBVIOUS
  <2>1. t # c.token
    BY <1>3 DEF Removed
  <2> QED BY <1>2, <1>3, <1>6, <2>1, IdleFacts DEF Removed
<1>9. \A t \in Tokens : links'[t].clicked => links[t].clicked
  BY <1>3, <1>5, <1>6
<1> QED BY <1>1, <1>7, <1>8, <1>9 DEF ReachedInv

LEMMA ResetReaches ==
  ASSUME CustomersInv, ReachedInv, NEW p \in People, Reset(p)
  PROVE  ReachedInv'
<1> DEFINE doomed == [Idle EXCEPT !.pc = "doomed"]
<1>1. /\ links' = [t \in Tokens |-> IF links[t].of = p THEN NoLink ELSE links[t]]
      /\ slot' = [s \in Slots |-> IF slot[s].who = p /\ slot[s].facts.known THEN doomed ELSE slot[s]]
      /\ UNCHANGED <<issued, held, unheard>>
  BY DEF Reset
<1>2. ~doomed.makes /\ NoLink.of = None /\ ~NoLink.clicked /\ None \notin People
  BY CustomersAssumption DEF Idle, NoLink
<1>3. held \subseteq Tokens
  BY DEF CustomersInv, RowsTyped
<1>4. /\ \A t \in Tokens : links[t].of = p => links'[t] = NoLink
      /\ \A t \in Tokens : links[t].of # p => links'[t] = links[t]
      /\ \A s \in Slots : slot'[s] = slot[s] \/ (slot'[s] = doomed /\ slot[s].who = p)
  <2> HIDE DEF doomed
  <2>1. \A s \in Slots : slot'[s] = slot[s] \/ (slot'[s] = doomed /\ slot[s].who = p)
    BY <1>1
  <2>2. /\ \A t \in Tokens : links[t].of = p => links'[t] = NoLink
        /\ \A t \in Tokens : links[t].of # p => links'[t] = links[t]
    BY <1>1
  <2> QED BY <2>1, <2>2
<1> HIDE DEF doomed
<1>5. \A t \in held : Removed(t) => Removed(t)'
  BY <1>2, <1>3, <1>4 DEF Removed
<1>6. \A t \in held : links[t].of = p => Removed(t)'
  <2> SUFFICES ASSUME NEW t \in held, links[t].of = p, NEW s \in Slots, slot'[s].makes, slot'[s].token = t
               PROVE  FALSE
    BY <1>2, <1>3, <1>4 DEF Removed
  <2>1. slot[s].makes /\ slot[s].token = t
    BY <1>2, <1>4
  <2> QED BY <1>2, <2>1, MakerFacts
\* the session that was to stamp the link is ended: it, and nobody else, was making it
<1>7. ASSUME NEW t \in held, links[t].of # p, NEW s \in Slots, slot[s].pc = "sent", slot[s].token = t
      PROVE  HeardOf(t)' \/ Removed(t)'
  <2>1. CASE slot'[s] = slot[s]
    BY <1>7, <2>1 DEF HeardOf
  <2>2. CASE slot'[s] = doomed /\ slot[s].who = p
    <3>1. slot[s].makes
      <4>1. slot[s].token # None
        BY <1>3, <1>7, CustomersAssumption DEF Tokens
      <4> QED BY <1>7, <2>2, <4>1, TurnTokenFacts DEF InTurn
    <3>2. links'[t].of = None
      BY <1>2, <1>3, <1>4, <1>7, <3>1, MakerFacts
    <3>3. \A r \in Slots : slot'[r].makes => slot'[r].token # t
      <4> SUFFICES ASSUME NEW r \in Slots, slot'[r].makes
                   PROVE  slot'[r].token # t
        OBVIOUS
      <4>1. r # s /\ slot'[r] = slot[r]
        BY <1>2, <1>4, <2>2
      <4> QED BY <1>7, <3>1, <4>1 DEF CustomersInv, SessionsApart, Apart
    <3> QED BY <3>2, <3>3 DEF Removed
  <2> QED BY <1>4, <2>1, <2>2
<1>8. \A t \in held : HeardOf(t) \/ Removed(t) => HeardOf(t)' \/ Removed(t)'
  <2> SUFFICES ASSUME NEW t \in held, HeardOf(t), links[t].of # p
               PROVE  HeardOf(t)' \/ Removed(t)'
    BY <1>5, <1>6
  <2>1. links[t].sent \/ t \in unheard => HeardOf(t)'
    BY <1>1, <1>3, <1>4 DEF HeardOf
  <2> QED BY <1>7, <2>1 DEF HeardOf
<1>9. \A t \in Tokens : links'[t].clicked => links[t].clicked
  BY <1>2, <1>4
<1> QED BY <1>1, <1>8, <1>9 DEF ReachedInv

LEMMA ReachedStep == CustomersInv /\ ReachedInv /\ [Next]_vars => ReachedInv'
<1> SUFFICES ASSUME CustomersInv, ReachedInv, [Next]_vars
             PROVE  ReachedInv'
  OBVIOUS
<1>1. ASSUME NEW s \in Slots, NEW p \in People, NEW n \in Numbers,
             LoadCustomer(s, p, n) \/ LoadReminder(s, p, n) \/ \E g \in Suggests : LoadTurn(s, p, n, g)
      PROVE  ReachedInv'
  <2>1. ASSUME LoadCustomer(s, p, n)
        PROVE  \E X : Begins(s, X) /\ X.makes = FALSE
    <3> DEFINE X == [Idle EXCEPT !.pc = "writing", !.who = p, !.on = n, !.facts = customer[p]]
    <3>1. Begins(s, X)
      BY <2>1 DEF LoadCustomer
    <3>2. X.makes = FALSE
      BY DEF Idle
    <3> HIDE DEF X
    <3> QED BY <3>1, <3>2
  <2>2. ASSUME LoadReminder(s, p, n)
        PROVE  \E X : Begins(s, X) /\ X.makes = FALSE
    <3> DEFINE X == [Idle EXCEPT !.pc = "chasing", !.who = p, !.on = n, !.facts = customer[p]]
    <3>1. Begins(s, X)
      BY <2>2 DEF LoadReminder
    <3>2. X.makes = FALSE
      BY DEF Idle
    <3> HIDE DEF X
    <3> QED BY <3>1, <3>2
  <2>3. ASSUME NEW g \in Suggests, LoadTurn(s, p, n, g)
        PROVE  \E X : Begins(s, X) /\ X.makes = FALSE
    <3> DEFINE X == [Turn(p, n) EXCEPT !.pc = "sent", !.next = Moved(@, g, FALSE)]
    <3>1. Begins(s, X)
      BY <2>3 DEF LoadTurn
    <3>2. X.makes = FALSE
      BY DEF Turn, Idle
    <3> HIDE DEF X
    <3> QED BY <3>1, <3>2
  <2>4. \E X : Begins(s, X) /\ X.makes = FALSE
    BY <1>1, <2>1, <2>2, <2>3
  <2>5. UNCHANGED <<links, held, unheard, issued>>
    BY <1>1 DEF LoadCustomer, LoadReminder, LoadTurn, tables, history
  <2> QED BY <2>4, <2>5, BeginningReaches
<1>2. ASSUME NEW s \in Slots, NEW p \in People, NEW n \in Numbers, LoadLink(s, p, n)
      PROVE  ReachedInv'
  <2> DEFINE makes == Reused(p) = None
             X == [Turn(p, n) EXCEPT !.pc = "linking", !.makes = makes,
                                     !.token = IF makes THEN issued + 1 ELSE Reused(p)]
  <2>1. /\ Begins(s, X) /\ UNCHANGED <<links, held, unheard>>
        /\ issued' \in {issued, issued + 1}
    BY <1>2 DEF LoadLink, tables
  <2>2. X.makes => X.token = issued + 1
    BY DEF Turn, Idle
  <2> HIDE DEF X
  <2> QED BY <2>1, <2>2, BeginningReaches
<1>3. CASE Reports
  <2>1. PICK s \in Slots, level \in {"downloaded", "activated"}, t \in held \cup {None},
             typed \in {None} \cup UNION {Typed[p] : p \in People} : LoadReport(s, level, t, typed)
    BY <1>3 DEF Reports
  <2>2. \E X : Begins(s, X) /\ X.makes = FALSE
    <3>1. PICK p \in Resolved(t, typed) :
            Begins(s, [Idle EXCEPT !.pc = "reporting", !.who = p, !.level = level, !.facts = customer[p],
                                   !.token = IF t = None THEN ActiveLink(p)
                                             ELSE IF links[t].of = None THEN None ELSE t])
      BY <2>1 DEF LoadReport
    <3> DEFINE X == [Idle EXCEPT !.pc = "reporting", !.who = p, !.level = level, !.facts = customer[p],
                                 !.token = IF t = None THEN ActiveLink(p)
                                           ELSE IF links[t].of = None THEN None ELSE t]
    <3>2. X.makes = FALSE
      BY DEF Idle
    <3>3. Begins(s, X)
      BY <3>1
    <3> HIDE DEF X
    <3> QED BY <3>2, <3>3
  <2>3. UNCHANGED <<links, held, unheard, issued>>
    BY <2>1 DEF LoadReport, tables, history
  <2> QED BY <2>2, <2>3, BeginningReaches
<1>4. ASSUME NEW s \in Slots, StoreMessage(s) \/ SendReminder(s) \/ StoreReport(s)
      PROVE  ReachedInv'
  <2>1. Ends(s) /\ slot[s].pc # "sent" /\ UNCHANGED <<issued, held, unheard>>
    BY <1>4 DEF StoreMessage, SendReminder, StoreReport, history
  <2>2. \A r \in Slots : slot'[r] = slot[r] \/ (slot'[r] = Idle /\ slot[r].pc # "sent")
    <3>1. slot'[s] = Idle /\ \A r \in Slots \ {s} : slot'[r] = slot[r]
      BY <2>1, Ending
    <3> QED BY <2>1, <3>1
  <2>3. links' = links \/ links' = [links EXCEPT ![slot[s].token] = Confirmed(@, slot[s].level)]
    BY <1>4 DEF StoreMessage, SendReminder, StoreReport
  <2>4. ASSUME NEW t \in Tokens
        PROVE  /\ links'[t].of = links[t].of
               /\ links'[t].sent = links[t].sent
               /\ links'[t].clicked => links[t].clicked \/ t \in held
    <3>1. links[t] \in Link /\ links \in [Tokens -> Link]
      BY DEF CustomersInv, RowsTyped
    <3>2. links'[t] \in {links[t], Confirmed(links[t], slot[s].level)}
      BY <2>3, <3>1
    <3> QED BY <3>1, <3>2 DEF Confirmed, Link
  <2> QED BY <2>1, <2>2, <2>4, EndingReaches
<1>5. ASSUME NEW t \in Tokens, Click(t)
      PROVE  ReachedInv'
  <2>1. /\ t \in held /\ links' = [links EXCEPT ![t].clicked = TRUE]
        /\ UNCHANGED <<issued, held, slot, unheard>>
    BY <1>5 DEF Click, history
  <2>2. ASSUME NEW u \in Tokens
        PROVE  /\ links'[u].of = links[u].of
               /\ links'[u].sent = links[u].sent
               /\ links'[u].clicked => links[u].clicked \/ u \in held
    BY <2>1 DEF CustomersInv, RowsTyped, Link
  <2>3. \A r \in Slots : slot'[r] = slot[r] \/ (slot'[r] = Idle /\ slot[r].pc # "sent")
    BY <2>1
  <2>4. UNCHANGED <<issued, held, unheard>>
    BY <2>1
  <2> QED BY <2>2, <2>3, <2>4, EndingReaches
<1>6. CASE UNCHANGED vars \/ \E p \in People, n \in Numbers : QuietPeriodEnds(p, n)
  <2>1. UNCHANGED <<links, issued, held, slot, unheard>>
    BY <1>6 DEF vars, tables, history, QuietPeriodEnds
  <2>2. \A t \in Tokens : /\ links'[t].of = links[t].of
                          /\ links'[t].sent = links[t].sent
                          /\ links'[t].clicked => links[t].clicked \/ t \in held
    BY <2>1
  <2>3. \A r \in Slots : slot'[r] = slot[r] \/ (slot'[r] = Idle /\ slot[r].pc # "sent")
    BY <2>1
  <2>4. UNCHANGED <<issued, held, unheard>>
    BY <2>1
  <2> QED BY <2>2, <2>3, <2>4, EndingReaches
<1> QED BY <1>1, <1>2, <1>3, <1>4, <1>5, <1>6, SendLinkReaches, AbortReaches, StoreTurnReaches,
           ResetReaches DEF Next

LEMMA ReachedStart == Init => ReachedInv
BY DEF Init, ReachedInv, NoLink

LEMMA ReachedInvHolds == Spec => []ReachedInv
<1>1. CustomersInv /\ ReachedInv /\ [Next]_vars => ReachedInv'
  BY ReachedStep
<1> QED BY <1>1, ReachedStart, CustomersInvHolds, PTL DEF Spec

(* FunnelShrinks holds: a link that was clicked reached its customer, who   *)
(* is still there; so its sending is recorded, or about to be, or was one   *)
(* that we did not hear of.                                                 *)
THEOREM ClickedWasSent == Spec => []FunnelShrinks
<1>1. CustomersInv /\ ReachedInv => FunnelShrinks
  <2> SUFFICES ASSUME CustomersInv, ReachedInv, NEW p \in Known, CustomerRow(p).clicked
               PROVE  \E t \in LinksOf(p) :
                        /\ links[t].clicked
                        /\ links[t].sent
                           \/ t \in unheard \cup {slot[s].token : s \in {r \in Slots : slot[r].pc = "sent"}}
    BY DEF FunnelShrinks
  <2>1. PICK t \in LinksOf(p) : links[t].clicked
    BY DEF CustomerRow
  <2>2. t \in held /\ links[t].of = p /\ p \in People /\ None \notin People
    BY <2>1, CustomersAssumption DEF ReachedInv, LinksOf, Known
  <2>3. HeardOf(t)
    BY <2>2 DEF ReachedInv, Removed
  <2> QED BY <2>1, <2>3 DEF HeardOf
<1> QED BY <1>1, CustomersInvHolds, ReachedInvHolds, PTL

-----------------------------------------------------------------------------
(* The median.  Least and greatest elements of sets of naturals first.      *)

LEMMA LeastOf ==
  ASSUME NEW S \in SUBSET Nat, S # {}
  PROVE  Min(S) \in S /\ \A y \in S : Min(S) <= y
<1> DEFINE R == OpToRel(<, Nat)
<1>1. IsWellFoundedOn(R, Nat)
  BY NatLessThanWellFounded
<1> HIDE DEF R
<1>2. PICK x \in S : \A y \in S : <<y, x>> \notin R
  BY <1>1, WFMin
<1>3. \A y \in S : x <= y
  <2> TAKE y \in S
  <2>1. ~(y < x)
    BY <1>2 DEF R, OpToRel
  <2> QED BY <2>1
<1> QED BY <1>3 DEF Min

LEMMA MinIs ==
  ASSUME NEW S \in SUBSET Nat, NEW u \in S, \A y \in S : u <= y
  PROVE  Min(S) = u
<1>1. Min(S) \in S /\ \A y \in S : Min(S) <= y
  BY LeastOf
<1>2. Min(S) <= u /\ u <= Min(S) /\ Min(S) \in Nat /\ u \in Nat
  BY <1>1
<1> QED BY <1>2

LEMMA MaxIs ==
  ASSUME NEW S \in SUBSET Nat, NEW u \in S, \A y \in S : y <= u
  PROVE  Max(S) = u
<1>1. \A y \in S : u >= y
  OBVIOUS
<1>2. Max(S) \in S /\ \A y \in S : Max(S) >= y
  BY <1>1 DEF Max
<1>3. Max(S) >= u /\ u >= Max(S) /\ Max(S) \in Nat /\ u \in Nat
  BY <1>1, <1>2
<1> QED BY <1>3

\* a set of naturals that one of them bounds has a greatest
LEMMA GreatestOf ==
  ASSUME NEW S \in SUBSET Nat, S # {}, NEW b \in Nat, \A y \in S : y <= b
  PROVE  \E u \in S : \A y \in S : y <= u
<1> DEFINE above == {b - y : y \in S}
<1>1. above \in SUBSET Nat /\ above # {}
  <2>1. \A y \in S : b - y \in Nat
    OBVIOUS
  <2>2. PICK y \in S : TRUE
    OBVIOUS
  <2> QED BY <2>1, <2>2
<1>2. Min(above) \in above /\ \A x \in above : Min(above) <= x
  <2> HIDE DEF above
  <2> QED BY <1>1, LeastOf
<1>3. PICK u \in S : Min(above) = b - u
  BY <1>2
<1>4. \A y \in S : y <= u
  <2> TAKE y \in S
  <2>1. b - u <= b - y
    BY <1>2, <1>3
  <2> QED BY <2>1
<1> QED BY <1>4

-----------------------------------------------------------------------------
(* The search for a conversation's first link: what the counter holds after *)
(* so many of its rows, in closed form.                                     *)

After(log) ==
  [i \in 0..Len(log) |->
     IF i = 0 THEN None ELSE IF \E j \in 1..i : log[j] = "link" THEN 0 ELSE i]

LEMMA TurnsAreCounted ==
  ASSUME NEW log \in Seq({"reply", "link"})
  PROVE  TurnsAfter(log) = After(log)
<1> DEFINE D == 0..Len(log)
           next(f, i) == IF i = 0 THEN None
                         ELSE IF f[i - 1] = 0 \/ log[i] = "link" THEN 0 ELSE OneMore(f[i - 1])
           w == After(log)
           t == TurnsAfter(log)
<1>1. Len(log) \in Nat /\ None \notin Nat
  BY CustomersAssumption
<1>2. ASSUME NEW i \in D, i # 0
      PROVE  i - 1 \in D /\ i \in Nat /\ i - 1 \in Nat /\ i \in 1..Len(log)
  BY <1>1, <1>2
<1>3. ASSUME NEW i \in D
      PROVE  w[i] = next(w, i)
  <2>1. CASE i = 0
    BY <2>1 DEF After
  <2>2. CASE i # 0
    <3>1. i - 1 \in D /\ i \in Nat /\ i - 1 \in Nat
      BY <1>2, <2>2
    <3>2. w[i - 1] = IF i - 1 = 0 THEN None ELSE IF \E j \in 1..(i - 1) : log[j] = "link" THEN 0 ELSE i - 1
      BY <3>1 DEF After
    <3>3. w[i] = IF \E j \in 1..i : log[j] = "link" THEN 0 ELSE i
      BY <2>2 DEF After
    <3>4. (\E j \in 1..i : log[j] = "link") <=> log[i] = "link" \/ \E j \in 1..(i - 1) : log[j] = "link"
      <4>1. \A j : j \in 1..i <=> j = i \/ j \in 1..(i - 1)
        BY <2>2, <3>1
      <4> QED BY <4>1
    <3>5. w[i - 1] = 0 <=> \E j \in 1..(i - 1) : log[j] = "link"
      BY <1>1, <3>1, <3>2
    <3>6. w[i - 1] # 0 => OneMore(w[i - 1]) = i
      <4>1. CASE i - 1 = 0
        BY <3>1, <3>2, <4>1 DEF OneMore
      <4>2. CASE i - 1 # 0
        BY <1>1, <3>1, <3>2, <4>2 DEF OneMore
      <4> QED BY <4>1, <4>2
    <3> HIDE DEF w, D
    <3> QED BY <2>2, <3>3, <3>4, <3>5, <3>6
  <2> QED BY <2>1, <2>2
<1>4. w = [i \in D |-> next(w, i)]
  <2>1. w = [i \in D |-> w[i]]
    BY DEF After
  <2> HIDE DEF w, D, next
  <2> QED BY <1>3, <2>1
<1>5. t = [i \in D |-> next(t, i)]
  <2>1. t = CHOOSE f : f = [i \in D |-> next(f, i)]
    BY DEF TurnsAfter
  <2> HIDE DEF w, D, next, t
  <2> QED BY <1>4, <2>1
<1>6. \A i \in D : t[i] = w[i]
  <2> DEFINE B == {i \in D : t[i] # w[i]}
  <2> SUFFICES ASSUME B # {} PROVE FALSE
    OBVIOUS
  <2>1. B \in SUBSET Nat
    BY <1>1
  <2>2. PICK i \in B : \A y \in B : i <= y
    <3> HIDE DEF B
    <3> QED BY <2>1, LeastOf
  <2>3. t[i] = next(t, i) /\ w[i] = next(w, i)
    <3>1. i \in D
      OBVIOUS
    <3> HIDE DEF w, D, next, t
    <3> QED BY <1>3, <1>5, <3>1
  <2>4. CASE i = 0
    BY <2>3, <2>4
  <2>5. CASE i # 0
    <3>1. i - 1 \in D /\ i \in Nat /\ i - 1 \in Nat
      BY <1>2, <2>5
    <3>2. t[i - 1] = w[i - 1]
      <4>1. i - 1 \notin B
        <5>1. ~(i <= i - 1)
          BY <3>1
        <5> HIDE DEF B
        <5> QED BY <2>2, <5>1
      <4> QED BY <3>1, <4>1
    <3>3. next(t, i) = next(w, i)
      <4> HIDE DEF w, D, t
      <4> QED BY <3>2
    <3> QED BY <2>3, <3>3
  <2> QED BY <2>4, <2>5
<1> HIDE DEF w, D, next, t
<1>7. t = [i \in D |-> t[i]] /\ w = [i \in D |-> w[i]]
  BY <1>4, <1>5
<1>8. t = w
  BY <1>6, <1>7
<1> QED BY <1>8 DEF t, w

FirstLink(log) == Min({i \in DOMAIN log : log[i] = "link"})

\* one value at most for each conversation: the place of its first link
LEMMA OneValueEach ==
  ASSUME NEW log \in Seq({"reply", "link"})
  PROVE  /\ (\E i \in DOMAIN log : log[i] = "link") =>
              /\ FirstLink(log) \in Nat
              /\ Appended(log) = {FirstLink(log)}
              /\ OneMore(TurnsAfter(log)[FirstLink(log) - 1]) = FirstLink(log)
         /\ ~(\E i \in DOMAIN log : log[i] = "link") => Appended(log) = {}
<1>1. Len(log) \in Nat /\ None \notin Nat /\ DOMAIN log = 1..Len(log)
  BY CustomersAssumption
<1>2. CASE ~\E i \in DOMAIN log : log[i] = "link"
  BY <1>2 DEF Appended
<1>3. CASE \E i \in DOMAIN log : log[i] = "link"
  <2> DEFINE L == {i \in DOMAIN log : log[i] = "link"}
             m == FirstLink(log)
  <2>1. L \in SUBSET Nat /\ L # {}
    BY <1>1, <1>3
  <2>2. m \in L /\ \A i \in L : m <= i
    <3> HIDE DEF L
    <3>1. Min(L) \in L /\ \A i \in L : Min(L) <= i
      BY <2>1, LeastOf
    <3>2. m = Min(L)
      BY DEF FirstLink, L
    <3> QED BY <3>1, <3>2
  <2>3. ASSUME NEW i \in DOMAIN log
        PROVE  /\ i - 1 \in 0..Len(log) /\ i \in Nat
               /\ TurnsAfter(log)[i - 1] =
                    IF i - 1 = 0 THEN None ELSE IF \E j \in 1..(i - 1) : log[j] = "link" THEN 0 ELSE i - 1
    <3>1. i - 1 \in 0..Len(log) /\ i \in Nat
      BY <1>1
    <3>2. TurnsAfter(log)[i - 1] = After(log)[i - 1]
      BY TurnsAreCounted
    <3> QED BY <3>1, <3>2 DEF After
  <2>4. m \in DOMAIN log /\ log[m] = "link" /\ m \in 1..Len(log)
    BY <1>1, <2>2
  <2> HIDE DEF m
  <2>5. ~\E j \in 1..(m - 1) : log[j] = "link"
    <3> SUFFICES ASSUME NEW j \in 1..(m - 1), log[j] = "link" PROVE FALSE
      OBVIOUS
    <3>1. j \in DOMAIN log /\ j < m /\ j \in Nat /\ m \in Nat
      BY <1>1, <2>4
    <3>2. m <= j
      BY <2>2, <3>1
    <3> QED BY <3>1, <3>2
  <2>6. TurnsAfter(log)[m - 1] = IF m - 1 = 0 THEN None ELSE m - 1
    BY <2>3, <2>4, <2>5
  <2>7. TurnsAfter(log)[m - 1] # 0 /\ OneMore(TurnsAfter(log)[m - 1]) = m
    <3>1. m \in Nat /\ m - 1 \in Nat
      BY <2>4
    <3>2. CASE m - 1 = 0
      BY <1>1, <2>6, <3>1, <3>2 DEF OneMore
    <3>3. CASE m - 1 # 0
      BY <1>1, <2>6, <3>1, <3>3 DEF OneMore
    <3> QED BY <3>2, <3>3
  <2>8. ASSUME NEW i \in Appended(log)
        PROVE  i = m
    <3>1. i \in DOMAIN log /\ log[i] = "link" /\ TurnsAfter(log)[i - 1] # 0
      BY DEF Appended
    <3>2. m <= i /\ i \in Nat /\ m \in Nat /\ i >= 1 /\ m >= 1
      BY <1>1, <2>2, <2>4, <3>1
    <3>3. CASE m < i
      <4>1. m \in 1..(i - 1) /\ i - 1 # 0
        BY <3>2, <3>3
      <4>2. \E j \in 1..(i - 1) : log[j] = "link"
        BY <2>4, <4>1
      <4> QED BY <2>3, <3>1, <4>1, <4>2
    <3> QED BY <3>2, <3>3
  <2>9. Appended(log) = {m}
    BY <2>4, <2>7, <2>8 DEF Appended
  <2> QED BY <1>3, <2>4, <2>7, <2>9 DEF m
<1> QED BY <1>2, <1>3

-----------------------------------------------------------------------------
(* What is sorted, and its middle.  A multiset of naturals here is a finite *)
(* set S and a value f[x] of each x in it.                                  *)

UpTo(S, f, v) == Cardinality({x \in S : f[x] <= v})
From(S, f, v) == Cardinality({x \in S : f[x] >= v})
Values(S, f) == {f[x] : x \in S}
Place(S, f, k) == Min({v \in Values(S, f) : UpTo(S, f, v) >= k})

\* the value in place k: k are up to it, fewer than k below it
LEMMA PlaceFacts ==
  ASSUME NEW S, IsFiniteSet(S), NEW f \in [S -> Nat], NEW b \in Nat, \A x \in S : f[x] <= b,
         NEW k \in 1..Cardinality(S)
  PROVE  /\ Place(S, f, k) \in Values(S, f)
         /\ Place(S, f, k) \in Nat
         /\ UpTo(S, f, Place(S, f, k)) >= k
         /\ \A v \in Values(S, f) : UpTo(S, f, v) >= k => Place(S, f, k) <= v
         /\ Cardinality({x \in S : f[x] < Place(S, f, k)}) < k
<1> DEFINE V == Values(S, f)
           C == {v \in V : UpTo(S, f, v) >= k}
           u == Place(S, f, k)
<1>1. V \in SUBSET Nat /\ \A v \in V : v <= b
  BY DEF Values
<1>2. \A T \in SUBSET S : IsFiniteSet(T) /\ Cardinality(T) \in Nat
  BY FS_Subset, FS_CardinalityType
<1>3. Cardinality(S) \in Nat /\ k \in Nat /\ k >= 1
  BY FS_CardinalityType
<1>4. C # {}
  <2>1. V # {}
    <3>1. S # {}
      BY <1>3, FS_EmptySet
    <3> QED BY <3>1 DEF Values
  <2>2. PICK m \in V : \A v \in V : v <= m
    <3> HIDE DEF V
    <3> QED BY <1>1, <2>1, GreatestOf
  <2>3. {x \in S : f[x] <= m} = S
    BY <2>2 DEF Values
  <2>4. UpTo(S, f, m) >= k
    BY <1>3, <2>3 DEF UpTo
  <2> QED BY <2>2, <2>4
<1>5. u \in C /\ \A v \in C : u <= v
  <2>1. C \in SUBSET Nat
    BY <1>1
  <2>2. u = Min(C)
    BY DEF Place
  <2> HIDE DEF C, u
  <2> QED BY <1>4, <2>1, <2>2, LeastOf
<1>6. u \in V /\ u \in Nat /\ UpTo(S, f, u) >= k
  BY <1>1, <1>5
<1> HIDE DEF u
<1>7. Cardinality({x \in S : f[x] < u}) < k
  <2> DEFINE below == {x \in S : f[x] < u}
  <2>1. CASE below = {}
    BY <1>3, <2>1, FS_EmptySet
  <2>2. CASE below # {}
    <3> DEFINE W == {f[x] : x \in below}
    <3>1. W \in SUBSET Nat /\ W # {} /\ \A v \in W : v <= b
      BY <2>2
    <3>2. PICK w \in W : \A v \in W : v <= w
      <4> HIDE DEF W
      <4> QED BY <3>1, GreatestOf
    <3>3. w \in V /\ w < u /\ w \in Nat
      BY <1>6, <3>2 DEF Values
    <3>4. ~(UpTo(S, f, w) >= k)
      <4>1. w \notin C
        <5>1. ~(u <= w)
          BY <1>6, <3>3
        <5> HIDE DEF C
        <5> QED BY <1>5, <5>1
      <4> QED BY <3>3, <4>1
    <3>5. below \in SUBSET {x \in S : f[x] <= w}
      BY <3>2
    <3>6. IsFiniteSet({x \in S : f[x] <= w})
      BY <1>2
    <3>7. Cardinality(below) <= UpTo(S, f, w)
      <4> HIDE DEF below, W
      <4> QED BY <3>5, <3>6, FS_Subset DEF UpTo
    <3>8. UpTo(S, f, w) \in Nat /\ Cardinality(below) \in Nat
      BY <1>2 DEF UpTo
    <3> HIDE DEF below
    <3>9. Cardinality(below) < k
      BY <1>3, <3>4, <3>7, <3>8
    <3> QED BY <3>9 DEF below
  <2> QED BY <2>1, <2>2
<1> QED BY <1>5, <1>6, <1>7 DEF u

LEMMA Complement ==
  ASSUME NEW S, IsFiniteSet(S), NEW f \in [S -> Nat], NEW v \in Nat
  PROVE  /\ Cardinality({x \in S : f[x] < v}) \in Nat /\ Cardinality(S) \in Nat
         /\ UpTo(S, f, v) \in Nat /\ From(S, f, v) \in Nat
         /\ From(S, f, v) = Cardinality(S) - Cardinality({x \in S : f[x] < v})
<1> DEFINE below == {x \in S : f[x] < v}
<1>1. \A T \in SUBSET S : IsFiniteSet(T) /\ Cardinality(T) \in Nat
  BY FS_Subset, FS_CardinalityType
<1>2. {x \in S : f[x] >= v} = S \ below
  OBVIOUS
<1>3. Cardinality(S \ below) = Cardinality(S) - Cardinality(S \cap below) /\ S \cap below = below
  BY FS_Difference
<1> QED BY <1>1, <1>2, <1>3 DEF UpTo, From

\* the least value with half of them up to it, and the greatest with half of them from it on
LEMMA MiddleFacts ==
  ASSUME NEW S, IsFiniteSet(S), S # {}, NEW f \in [S -> Nat], NEW b \in Nat, \A x \in S : f[x] <= b,
         NEW k, k = Cardinality(S) \div 2
  PROVE  LET n == Cardinality(S)
             low == Min({v \in Values(S, f) : 2 * UpTo(S, f, v) >= n})
             high == Max({v \in Values(S, f) : 2 * From(S, f, v) >= n})
         IN  /\ n \in Nat /\ n # 0 /\ k \in Nat
             /\ low \in Nat /\ high \in Nat
             /\ n % 2 = 1 => k + 1 \in 1..n /\ low = Place(S, f, k + 1) /\ high = Place(S, f, k + 1)
             /\ n % 2 # 1 => /\ k \in 1..n /\ k + 1 \in 1..n
                             /\ low = Place(S, f, k) /\ high = Place(S, f, k + 1)
<1> DEFINE n == Cardinality(S)
           V == Values(S, f)
           L == {v \in V : 2 * UpTo(S, f, v) >= n}
           H == {v \in V : 2 * From(S, f, v) >= n}
           j == IF n % 2 = 1 THEN k + 1 ELSE k
<1>1. n \in Nat /\ n # 0
  BY FS_CardinalityType, FS_EmptySet
<1>2. /\ k \in Nat /\ n % 2 \in {0, 1} /\ n = 2 * k + (n % 2)
  <2> HIDE DEF n
  <2>1. k = n \div 2
    BY DEF n
  <2> QED BY <1>1, <2>1
<1>3. j \in 1..n /\ k + 1 \in 1..n
  <2> HIDE DEF n
  <2>1. CASE n % 2 = 1
    BY <1>1, <1>2, <2>1
  <2>2. CASE n % 2 = 0
    BY <1>1, <1>2, <2>2
  <2> QED BY <1>2, <2>1, <2>2
<1>4. V \in SUBSET Nat
  BY DEF Values
<1> DEFINE u == Place(S, f, j)
           w == Place(S, f, k + 1)
<1>5. /\ u \in V /\ u \in Nat /\ UpTo(S, f, u) >= j
      /\ \A v \in V : UpTo(S, f, v) >= j => u <= v
  <2> HIDE DEF j, n
  <2>1. j \in 1..Cardinality(S)
    BY <1>3 DEF n
  <2> QED BY <2>1, PlaceFacts
<1>6. /\ w \in V /\ w \in Nat /\ UpTo(S, f, w) >= k + 1
      /\ Cardinality({x \in S : f[x] < w}) < k + 1
  <2> HIDE DEF n
  <2>1. k + 1 \in 1..Cardinality(S)
    BY <1>3 DEF n
  <2> QED BY <2>1, PlaceFacts
<1> HIDE DEF u, w
<1>7. \A v \in V : UpTo(S, f, v) \in Nat /\ From(S, f, v) \in Nat
  BY <1>4, Complement
<1>8. Min(L) = u
  <2>1. \A v \in V : 2 * UpTo(S, f, v) >= n <=> UpTo(S, f, v) >= j
    <3> TAKE v \in V
    <3>1. UpTo(S, f, v) \in Nat
      BY <1>7
    <3> HIDE DEF n, V
    <3> QED BY <1>1, <1>2, <3>1
  <2>2. u \in L /\ \A v \in L : u <= v
    <3> HIDE DEF n, j, V
    <3> QED BY <1>5, <2>1
  <2>3. L \in SUBSET Nat
    BY <1>4
  <2> HIDE DEF L
  <2> QED BY <2>2, <2>3, MinIs
<1>9. Max(H) = w
  <2>1. w \in H
    <3> DEFINE below == Cardinality({x \in S : f[x] < w})
    <3>1. below \in Nat /\ From(S, f, w) = n - below /\ below < k + 1
      BY <1>6, Complement
    <3> HIDE DEF n, V, below
    <3>2. 2 * From(S, f, w) >= n
      BY <1>1, <1>2, <3>1
    <3> QED BY <1>6, <3>2
  <2>2. ASSUME NEW v \in H
        PROVE  v <= w
    <3> SUFFICES ASSUME w < v PROVE FALSE
      BY <1>4, <1>6
    <3> DEFINE below == {x \in S : f[x] < v}
               upto == {x \in S : f[x] <= w}
    <3>1. v \in Nat /\ 2 * From(S, f, v) >= n
      BY <1>4
    <3>2. upto \in SUBSET below /\ below \in SUBSET S
      BY <1>6, <3>1
    <3>3. Cardinality(upto) <= Cardinality(below)
      <4>1. IsFiniteSet(below)
        BY <3>2, FS_Subset
      <4> HIDE DEF upto, below
      <4> QED BY <3>2, <4>1, FS_Subset
    <3>4. Cardinality(upto) >= k + 1 /\ Cardinality(upto) \in Nat
      BY <1>6, <1>7 DEF UpTo
    <3>5. Cardinality(below) \in Nat /\ From(S, f, v) = n - Cardinality(below)
      <4>1. v \in Nat
        BY <3>1
      <4> HIDE DEF H
      <4> QED BY <4>1, Complement
    <3> HIDE DEF below, upto, n, H
    <3> QED BY <1>1, <1>2, <3>1, <3>3, <3>4, <3>5
  <2>3. H \in SUBSET Nat
    BY <1>4
  <2> HIDE DEF H
  <2> QED BY <2>1, <2>2, <2>3, MaxIs
<1>10. /\ n % 2 = 1 => u = w
       /\ n % 2 # 1 => u = Place(S, f, k) /\ k \in 1..n
  <2> HIDE DEF n
  <2> QED BY <1>3 DEF u, w
<1> QED BY <1>1, <1>2, <1>3, <1>5, <1>6, <1>8, <1>9, <1>10 DEF w

-----------------------------------------------------------------------------
(* The values counted, and the threads that they are of.                    *)

Linked == {r \in ThreadRows : \E i \in DOMAIN Log(r) : Log(r)[i] = "link"}
Firsts == [r \in Linked |-> FirstLink(Log(r))]
Value(r) == [of |-> r, at |-> Firsts[r], turns |-> Firsts[r]]

LEMMA FirstsFacts ==
  ASSUME CustomersInv
  PROVE  /\ IsFiniteSet(Linked)
         /\ Firsts \in [Linked -> Nat]
         /\ MaxSessions \in Nat /\ \A r \in Linked : Firsts[r] <= MaxSessions
         /\ Counts = {Value(r) : r \in Linked}
<1>1. IsFiniteSet(Linked)
  BY RowsFinite, FS_Subset DEF Linked
<1>2. ASSUME NEW r \in Linked
      PROVE  /\ Firsts[r] \in Nat /\ Firsts[r] \in DOMAIN Log(r)
             /\ Appended(Log(r)) = {Firsts[r]}
             /\ OneMore(TurnsAfter(Log(r))[Firsts[r] - 1]) = Firsts[r]
  <2>1. r \in ThreadRows /\ \E i \in DOMAIN Log(r) : Log(r)[i] = "link"
    BY DEF Linked
  <2>2. Log(r) \in Seq({"reply", "link"})
    BY <2>1, LogFacts
  <2>3. Firsts[r] = FirstLink(Log(r))
    BY DEF Firsts
  <2>4. /\ Firsts[r] \in Nat /\ Appended(Log(r)) = {Firsts[r]}
        /\ OneMore(TurnsAfter(Log(r))[Firsts[r] - 1]) = Firsts[r]
    BY <2>1, <2>2, <2>3, OneValueEach
  <2> QED BY <2>4 DEF Appended
<1>3. ASSUME NEW r \in ThreadRows, r \notin Linked
      PROVE  Appended(Log(r)) = {}
  <2>1. ~\E i \in DOMAIN Log(r) : Log(r)[i] = "link"
    BY <1>3 DEF Linked
  <2> QED BY <2>1 DEF Appended
<1>4. Firsts \in [Linked -> Nat]
  BY <1>2 DEF Firsts
<1>5. MaxSessions \in Nat
  BY CustomersAssumption
<1>6. ASSUME NEW r \in Linked
      PROVE  Firsts[r] <= MaxSessions
  <2>1. r \in ThreadRows
    BY DEF Linked
  <2>2. PICK p \in Known : \E n \in Threads(p) : r = [who |-> p, on |-> n]
    BY <2>1, RowFacts
  <2>3. r.who \in People /\ r.on \in Numbers
    BY <2>2, RowFacts
  <2>4. Len(Log(r)) <= begun /\ begun \in 0..MaxSessions
    BY <2>3 DEF CustomersInv, LogsShort, RowsTyped, Log
  <2>5. Log(r) \in Seq({"reply", "link"}) /\ Len(Log(r)) \in Nat
    BY <2>1, LogFacts
  <2>6. DOMAIN Log(r) = 1..Len(Log(r))
    BY <2>5
  <2>7. Firsts[r] \in 1..Len(Log(r))
    BY <1>2, <2>6
  <2> QED BY <1>5, <2>4, <2>5, <2>7
<1>7. ASSUME NEW c \in Counts
      PROVE  \E r \in Linked : c = Value(r)
  <2>1. PICK r \in ThreadRows : \E i \in Appended(Log(r)) :
          c = [of |-> r, at |-> i, turns |-> OneMore(TurnsAfter(Log(r))[i - 1])]
    BY DEF Counts
  <2>2. r \in Linked
    BY <1>3, <2>1
  <2>3. c = [of |-> r, at |-> Firsts[r], turns |-> OneMore(TurnsAfter(Log(r))[Firsts[r] - 1])]
    BY <1>2, <2>1, <2>2
  <2> QED BY <1>2, <2>2, <2>3 DEF Value
<1>8. ASSUME NEW r \in Linked
      PROVE  Value(r) \in Counts
  <2>1. r \in ThreadRows /\ Firsts[r] \in Appended(Log(r))
    BY <1>2 DEF Linked
  <2>2. Value(r) = [of |-> r, at |-> Firsts[r], turns |-> OneMore(TurnsAfter(Log(r))[Firsts[r] - 1])]
    BY <1>2 DEF Value
  <2> QED BY <2>1, <2>2 DEF Counts
<1>9. Counts = {Value(r) : r \in Linked}
  BY <1>7, <1>8
<1> QED BY <1>1, <1>4, <1>5, <1>6, <1>9

LEMMA CountsAgree ==
  ASSUME CustomersInv
  PROVE  /\ Cardinality(Counts) = Cardinality(Linked)
         /\ \A k \in 1..Cardinality(Linked) : Sorted(Counts)[k] = Place(Linked, Firsts, k)
<1>1. \A r \in Linked : Value(r).turns = Firsts[r] /\ Value(r).of = r
  BY DEF Value
<1>2. ASSUME NEW T \in SUBSET Linked
      PROVE  Cardinality({Value(r) : r \in T}) = Cardinality(T)
  <2> DEFINE h == [r \in T |-> Value(r)]
             U == {Value(r) : r \in T}
  <2>1. IsFiniteSet(T)
    BY FirstsFacts, FS_Subset
  <2>2. h \in [T -> U] /\ \A u \in U : \E r \in T : h[r] = u
    OBVIOUS
  <2>3. \A r, q \in T : h[r] = h[q] => r = q
    BY <1>1
  <2> HIDE DEF h, U
  <2>4. Cardinality(U) = Cardinality(T)
    BY <2>1, <2>2, <2>3, SameCount
  <2> QED BY <2>4 DEF U
<1>3. Cardinality(Counts) = Cardinality(Linked)
  BY <1>2, FirstsFacts
<1>4. {c.turns : c \in Counts} = Values(Linked, Firsts)
  <2>1. Counts = {Value(r) : r \in Linked}
    BY FirstsFacts
  <2>2. ASSUME NEW c \in Counts PROVE c.turns \in Values(Linked, Firsts)
    BY <1>1, <2>1 DEF Values
  <2>3. ASSUME NEW r \in Linked PROVE \E c \in Counts : Firsts[r] = c.turns
    BY <1>1, <2>1
  <2> QED BY <2>2, <2>3 DEF Values
<1>5. ASSUME NEW v
      PROVE  Cardinality({c \in Counts : c.turns <= v}) = UpTo(Linked, Firsts, v)
  <2> DEFINE T == {r \in Linked : Firsts[r] <= v}
  <2>1. Counts = {Value(r) : r \in Linked}
    BY FirstsFacts
  <2>2. {c \in Counts : c.turns <= v} = {Value(r) : r \in T}
    <3>1. ASSUME NEW c \in Counts, c.turns <= v PROVE \E r \in T : c = Value(r)
      BY <1>1, <2>1, <3>1
    <3>2. ASSUME NEW r \in T PROVE Value(r) \in Counts /\ Value(r).turns <= v
      BY <1>1, <2>1
    <3> HIDE DEF T
    <3> QED BY <3>1, <3>2
  <2>3. Cardinality({Value(r) : r \in T}) = Cardinality(T)
    <3>1. T \in SUBSET Linked
      OBVIOUS
    <3> HIDE DEF T
    <3> QED BY <1>2, <3>1
  <2> QED BY <2>2, <2>3 DEF UpTo
<1>6. ASSUME NEW k \in 1..Cardinality(Linked)
      PROVE  Sorted(Counts)[k] = Place(Linked, Firsts, k)
  <2>1. Sorted(Counts)[k] =
          Min({v \in {c.turns : c \in Counts} : Cardinality({c \in Counts : c.turns <= v}) >= k})
    BY <1>3 DEF Sorted
  <2>2. {v \in {c.turns : c \in Counts} : Cardinality({c \in Counts : c.turns <= v}) >= k}
          = {v \in Values(Linked, Firsts) : UpTo(Linked, Firsts, v) >= k}
    BY <1>4, <1>5
  <2> QED BY <2>1, <2>2 DEF Place
<1> QED BY <1>3, <1>6

(* MedianIsOfFirstLinks holds: the search for a conversation's first link   *)
(* counts each conversation once, on the turn that its first link went on,  *)
(* and the places that the report looks in are the middle ones.             *)
THEOREM MedianOfFirstLinks == Spec => []MedianIsOfFirstLinks
<1>1. CustomersInv => MedianIsOfFirstLinks
  <2> SUFFICES ASSUME CustomersInv
               PROVE  MedianIsOfFirstLinks
    OBVIOUS
  <2> DEFINE n == Cardinality(Linked)
             k == n \div 2
             low == Min({v \in Values(Linked, Firsts) : 2 * UpTo(Linked, Firsts, v) >= n})
             high == Max({v \in Values(Linked, Firsts) : 2 * From(Linked, Firsts, v) >= n})
  <2>1. MedianIsOfFirstLinks <=> MedianTurnsToLink = IF Linked = {} THEN None ELSE low + high
    <3>1. AgentReport.medianTurns = MedianTurnsToLink
      BY DEF AgentReport
    <3> QED BY <3>1 DEF MedianIsOfFirstLinks, Linked, Firsts, FirstLink, Values, UpTo, From
  <2>2. CASE Linked = {}
    <3>1. n = 0
      BY <2>2, FS_EmptySet
    <3>2. MedianTurnsToLink = None
      BY <3>1, CountsAgree DEF MedianTurnsToLink
    <3> QED BY <2>1, <2>2, <3>2
  <2>3. CASE Linked # {}
    <3>1. /\ n \in Nat /\ n # 0 /\ k \in Nat
          /\ low \in Nat /\ high \in Nat
          /\ n % 2 = 1 => /\ k + 1 \in 1..n
                          /\ low = Place(Linked, Firsts, k + 1) /\ high = Place(Linked, Firsts, k + 1)
          /\ n % 2 # 1 => /\ k \in 1..n /\ k + 1 \in 1..n
                          /\ low = Place(Linked, Firsts, k) /\ high = Place(Linked, Firsts, k + 1)
      BY <2>3, FirstsFacts, MiddleFacts
    <3>2. MedianTurnsToLink = IF n % 2 = 1 THEN 2 * Sorted(Counts)[k + 1]
                              ELSE Sorted(Counts)[k] + Sorted(Counts)[k + 1]
      BY <3>1, CountsAgree DEF MedianTurnsToLink
    <3>3. \A i \in 1..n : Sorted(Counts)[i] = Place(Linked, Firsts, i)
      BY CountsAgree
    <3> HIDE DEF n, k, low, high
    <3>4. MedianTurnsToLink = low + high
      <4>1. CASE n % 2 = 1
        BY <3>1, <3>2, <3>3, <4>1
      <4>2. CASE n % 2 # 1
        BY <3>1, <3>2, <3>3, <4>2
      <4> QED BY <4>1, <4>2
    <3> QED BY <2>1, <2>3, <3>4
  <2> QED BY <2>2, <2>3
<1> QED BY <1>1, CustomersInvHolds, PTL
=============================================================================
