--------------------------- MODULE RegistryProofs ---------------------------
(***************************************************************************)
(* What the registry guarantees for any number of clients, contracts and   *)
(* schemas: stored contracts account for their own history, the versions   *)
(* of a contract are compatible one by one and therefore substitutable,    *)
(* and only a Save of a stale copy departs from ContractHistory.           *)
(***************************************************************************)
EXTENDS Registry, FiniteSetTheorems, FunctionTheorems, SequenceTheorems, WellFoundedInduction, TLAPS

-----------------------------------------------------------------------------
(* Canonical schemas                                                       *)

(* The order SortedByName sorts places by, and the place each one gets.    *)
Before(fields, i, j) ==
    \/ fields[i].name < fields[j].name
    \/ fields[i].name = fields[j].name /\ i < j

Earlier(fields, i) == {j \in DOMAIN fields : Before(fields, j, i)}

Rank(fields, i) == Cardinality(Earlier(fields, i)) + 1

Ranked(fields, k) == CHOOSE i \in DOMAIN fields : Rank(fields, i) = k

(* Sorting takes the field of each rank.                                   *)
LEMMA SortedByRank ==
    ASSUME NEW fields
    PROVE  SortedByName(fields) = [k \in DOMAIN fields |-> fields[Ranked(fields, k)]]
  BY DEF SortedByName, Ranked, Rank, Earlier, Before

(* The places of a list and what is known of the names on them.            *)
LEMMA FieldFacts ==
    ASSUME NEW fields \in Seq(Field)
    PROVE  /\ Len(fields) \in Nat /\ DOMAIN fields = 1 .. Len(fields)
           /\ \A i \in DOMAIN fields : fields[i] \in Field /\ fields[i].name \in Int
<1>1. Len(fields) \in Nat /\ DOMAIN fields = 1 .. Len(fields)
  OBVIOUS
<1>2. \A i \in DOMAIN fields : fields[i] \in Field
  OBVIOUS
<1>3. \A f \in Field : f.name \in Int
  BY TextAssumption DEF Field
<1> QED BY <1>1, <1>2, <1>3

(* A list has finitely many places.                                        *)
LEMMA PlacesFinite ==
    ASSUME NEW fields \in Seq(Field)
    PROVE  IsFiniteSet(DOMAIN fields) /\ Cardinality(DOMAIN fields) = Len(fields)
<1>1. Len(fields) \in Nat /\ DOMAIN fields = 1 .. Len(fields)
  BY FieldFacts
<1>2. ASSUME NEW n \in Nat
      PROVE  IsFiniteSet(1 .. n) /\ Cardinality(1 .. n) = n
  BY FS_Interval
<1> QED BY <1>1, <1>2

(* A field that comes before another has the lower rank.                   *)
LEMMA RankMonotonic ==
    ASSUME NEW fields \in Seq(Field), NEW i \in DOMAIN fields, NEW j \in DOMAIN fields,
           Before(fields, i, j)
    PROVE  Rank(fields, i) < Rank(fields, j)
<1>1. IsFiniteSet(Earlier(fields, i)) /\ IsFiniteSet(Earlier(fields, j))
  <2>1. IsFiniteSet(DOMAIN fields)
    BY PlacesFinite
  <2> QED BY <2>1, FS_Subset DEF Earlier
<1>2. Earlier(fields, i) \subseteq Earlier(fields, j)
  BY FieldFacts DEF Earlier, Before
<1>3. i \in Earlier(fields, j) /\ i \notin Earlier(fields, i)
  BY FieldFacts DEF Earlier, Before
<1>4. Cardinality(Earlier(fields, i)) \in Nat /\ Cardinality(Earlier(fields, j)) \in Nat
  BY <1>1, FS_CardinalityType
<1>5. Cardinality(Earlier(fields, i)) < Cardinality(Earlier(fields, j))
  BY <1>1, <1>2, <1>3, <1>4, FS_Subset
<1> QED BY <1>4, <1>5 DEF Rank

(* A rank is a place.                                                      *)
LEMMA RankIsPlace ==
    ASSUME NEW fields \in Seq(Field), NEW i \in DOMAIN fields
    PROVE  Rank(fields, i) \in DOMAIN fields
<1> DEFINE D == DOMAIN fields
<1>1. IsFiniteSet(D) /\ Cardinality(D) = Len(fields) /\ D = 1 .. Len(fields) /\ Len(fields) \in Nat
  BY FieldFacts, PlacesFinite
<1>2. Earlier(fields, i) \subseteq D \ {i}
  BY FieldFacts DEF Earlier, Before
<1>3. IsFiniteSet(D \ {i}) /\ Cardinality(D \ {i}) = Len(fields) - 1
  BY <1>1, FS_RemoveElement
<1>4. IsFiniteSet(Earlier(fields, i)) /\ Cardinality(Earlier(fields, i)) <= Len(fields) - 1
  BY <1>2, <1>3, FS_Subset
<1>5. Cardinality(Earlier(fields, i)) \in Nat
  BY <1>4, FS_CardinalityType
<1> QED BY <1>1, <1>4, <1>5 DEF Rank

(* No two fields have the same rank.                                       *)
LEMMA RanksDiffer ==
    ASSUME NEW fields \in Seq(Field), NEW i \in DOMAIN fields, NEW j \in DOMAIN fields, i # j
    PROVE  Rank(fields, i) # Rank(fields, j)
<1>1. Before(fields, i, j) \/ Before(fields, j, i)
  BY FieldFacts DEF Before
<1>2. Rank(fields, i) < Rank(fields, j) \/ Rank(fields, j) < Rank(fields, i)
  BY <1>1, RankMonotonic
<1>3. Rank(fields, i) \in Nat /\ Rank(fields, j) \in Nat
  BY RankIsPlace, FieldFacts
<1> QED BY <1>2, <1>3

(* The ranks are the places.                                               *)
LEMMA RanksArePlaces ==
    ASSUME NEW fields \in Seq(Field)
    PROVE  /\ \A i \in DOMAIN fields : Rank(fields, i) \in DOMAIN fields
           /\ \A k \in DOMAIN fields : \E i \in DOMAIN fields : Rank(fields, i) = k
<1> DEFINE D == DOMAIN fields
           R == [i \in D |-> Rank(fields, i)]
<1>1. IsFiniteSet(D)
  BY PlacesFinite
<1>2. \A i \in D : Rank(fields, i) \in D
  BY RankIsPlace
<1>3. \A i, j \in D : Rank(fields, i) = Rank(fields, j) => i = j
  BY RanksDiffer
<1>4. R \in Injection(D, D)
  BY <1>2, <1>3, Fun_IsInj
<1>5. R \in Surjection(D, D)
  BY <1>1, <1>4, FS_Injection
<1>6. \A k \in D : \E i \in D : R[i] = k
  BY <1>5, Fun_SurjectionProperties
<1> QED BY <1>2, <1>6

(* Sorting is a permutation of the places that keeps fields of one name in *)
(* their order.                                                            *)
LEMMA SortsStably ==
    ASSUME NEW fields \in Seq(Field)
    PROVE  \E p \in [DOMAIN fields -> DOMAIN fields] :
             /\ SortedByName(fields) = [k \in DOMAIN fields |-> fields[p[k]]]
             /\ \A i \in DOMAIN fields : \E k \in DOMAIN fields : p[k] = i
             /\ \A k, m \in DOMAIN fields :
                   k < m /\ fields[p[k]].name = fields[p[m]].name => p[k] < p[m]
<1> DEFINE p == [k \in DOMAIN fields |-> Ranked(fields, k)]
<1>1. \A k \in DOMAIN fields : p[k] \in DOMAIN fields /\ Rank(fields, p[k]) = k
  BY RanksArePlaces DEF Ranked
<1>2. SortedByName(fields) = [k \in DOMAIN fields |-> fields[p[k]]]
  BY SortedByRank
<1>3. p \in [DOMAIN fields -> DOMAIN fields]
  BY <1>1
<1> HIDE DEF p
<1>4. ASSUME NEW i \in DOMAIN fields
      PROVE  \E k \in DOMAIN fields : p[k] = i
  <2>1. \A a, b \in DOMAIN fields : Rank(fields, a) = Rank(fields, b) => a = b
    BY RanksDiffer
  <2>2. Rank(fields, i) \in DOMAIN fields
    BY RanksArePlaces
  <2> QED BY <1>1, <2>1, <2>2
<1>5. ASSUME NEW k \in DOMAIN fields, NEW m \in DOMAIN fields,
             k < m, fields[p[k]].name = fields[p[m]].name
      PROVE  p[k] < p[m]
  <2>1. p[k] \in DOMAIN fields /\ p[m] \in DOMAIN fields
    BY <1>1
  <2>2. /\ Rank(fields, p[k]) < Rank(fields, p[m])
        /\ Rank(fields, p[k]) \in Nat /\ Rank(fields, p[m]) \in Nat
    <3>1. Rank(fields, p[k]) = k /\ Rank(fields, p[m]) = m
      BY <1>1
    <3>2. k \in Nat /\ m \in Nat
      BY FieldFacts
    <3> QED BY <1>5, <3>1, <3>2
  <2>3. ~Before(fields, p[m], p[k])
    BY <2>1, <2>2, RankMonotonic
  <2>4. p[k] # p[m]
    BY <2>2
  <2> QED BY <1>5, <2>1, <2>3, <2>4, FieldFacts DEF Before
<1> QED BY <1>2, <1>3, <1>4, <1>5

-----------------------------------------------------------------------------
(* The last field of a name                                                *)

(* A set of places that is not empty has a last one.                       *)
LEMMA LastPlace ==
    ASSUME NEW n \in Nat, NEW T \in SUBSET (1 .. n), T # {}
    PROVE  \E i \in T : \A j \in T : j <= i
<1> DEFINE U == {n - i : i \in T}
           R == OpToRel(<, Nat)
<1>1. U \subseteq Nat /\ U # {}
  <2>1. \A i \in T : n - i \in Nat
    BY SMT
  <2>2. \E i \in T : n - i \in U
    OBVIOUS
  <2> QED BY <2>1, <2>2
<1>2. PICK u \in U : \A v \in U : ~(<<v, u>> \in R)
  <2>1. IsWellFoundedOn(R, Nat)
    BY NatLessThanWellFounded
  <2> HIDE DEF R, U
  <2> QED BY <1>1, <2>1, WFMin
<1>3. \A v \in U : ~(v < u)
  BY <1>1, <1>2 DEF OpToRel
<1>4. PICK i \in T : u = n - i
  OBVIOUS
<1>5. \A j \in T : n - j \in U
  OBVIOUS
<1>6. \A j \in T : j <= i
  <2> HIDE DEF U, R
  <2> SUFFICES ASSUME NEW j \in T PROVE j <= i
    OBVIOUS
  <2>1. j \in 1 .. n /\ i \in 1 .. n
    OBVIOUS
  <2>2. ~(n - j < n - i)
    BY <1>3, <1>4, <1>5
  <2> QED BY <2>1, <2>2
<1> QED BY <1>6

IsLast(s, n, i) ==
    /\ i \in DOMAIN s.fields /\ s.fields[i].name = n
    /\ \A j \in DOMAIN s.fields : s.fields[j].name = n => j <= i

(* FieldOf finds the last field of a name, if there is one.                *)
LEMMA LastField ==
    ASSUME NEW s \in SchemaType, NEW n \in FieldsNamed(s)
    PROVE  \E i : IsLast(s, n, i) /\ FieldOf(s, n) = s.fields[i]
<1> DEFINE T == {i \in DOMAIN s.fields : s.fields[i].name = n}
<1>1. s.fields \in Seq(Field)
  BY DEF SchemaType
<1>2. PICK i \in T : \A j \in T : j <= i
  <2>1. T # {} /\ T \in SUBSET (1 .. Len(s.fields)) /\ Len(s.fields) \in Nat
    BY <1>1, FieldFacts DEF FieldsNamed
  <2> HIDE DEF T
  <2> QED BY <2>1, LastPlace
<1>3. \E j \in DOMAIN s.fields : /\ s.fields[j].name = n
                                 /\ \A k \in DOMAIN s.fields : s.fields[k].name = n => k <= j
  BY <1>2
<1> QED BY <1>3 DEF FieldOf, IsLast

(* The last field of a name is one field.                                  *)
LEMMA FieldOfLast ==
    ASSUME NEW s \in SchemaType, NEW n, NEW i, IsLast(s, n, i)
    PROVE  n \in FieldsNamed(s) /\ FieldOf(s, n) = s.fields[i]
<1>1. n \in FieldsNamed(s)
  BY DEF FieldsNamed, IsLast
<1>2. PICK j : IsLast(s, n, j) /\ FieldOf(s, n) = s.fields[j]
  BY <1>1, LastField
<1>3. DOMAIN s.fields = 1 .. Len(s.fields) /\ Len(s.fields) \in Nat
  BY FieldFacts DEF SchemaType
<1>4. i = j
  BY <1>2, <1>3 DEF IsLast
<1> QED BY <1>1, <1>2, <1>4

-----------------------------------------------------------------------------
(* Canonical schemas                                                       *)

(* What Canonical makes of a field.                                        *)
Tidy(f) == [f EXCEPT !.name = Trim[@], !.type = Plain[@]]

IsClean(f) == Trim[f.name] = f.name /\ Plain[f.type] = f.type

Clean(s) == \A i \in DOMAIN s.fields : IsClean(s.fields[i])

(* A tidied field is clean, and a clean field stays as it is.              *)
LEMMA TidyFacts ==
    ASSUME NEW f \in Field
    PROVE  /\ Tidy(f) \in Field /\ IsClean(Tidy(f))
           /\ Tidy(f).name = Trim[f.name]
           /\ IsClean(f) => Tidy(f) = f
  BY TextAssumption DEF Tidy, IsClean, Field

(* Canonical permutes the fields and tidies each of them.                  *)
LEMMA CanonicalForm ==
    ASSUME NEW s \in SchemaType
    PROVE  \E p \in [DOMAIN s.fields -> DOMAIN s.fields] :
             /\ Canonical(s) = [kind   |-> s.kind,
                                fields |-> [k \in DOMAIN s.fields |-> Tidy(s.fields[p[k]])]]
             /\ \A i \in DOMAIN s.fields : \E k \in DOMAIN s.fields : p[k] = i
             /\ \A k, m \in DOMAIN s.fields :
                   k < m /\ s.fields[p[k]].name = s.fields[p[m]].name => p[k] < p[m]
<1>1. s = [kind |-> s.kind, fields |-> s.fields] /\ s.fields \in Seq(Field)
  BY DEF SchemaType
<1>2. PICK p \in [DOMAIN s.fields -> DOMAIN s.fields] :
         /\ SortedByName(s.fields) = [k \in DOMAIN s.fields |-> s.fields[p[k]]]
         /\ \A i \in DOMAIN s.fields : \E k \in DOMAIN s.fields : p[k] = i
         /\ \A k, m \in DOMAIN s.fields :
               k < m /\ s.fields[p[k]].name = s.fields[p[m]].name => p[k] < p[m]
  BY <1>1, SortsStably
<1> DEFINE sorted == SortedByName(s.fields)
<1>3. Canonical(s) = [s EXCEPT !.fields = [i \in DOMAIN sorted |-> Tidy(sorted[i])]]
  BY DEF Canonical, Tidy
<1>4. [i \in DOMAIN sorted |-> Tidy(sorted[i])] = [k \in DOMAIN s.fields |-> Tidy(s.fields[p[k]])]
  BY <1>2
<1>5. Canonical(s) = [kind   |-> s.kind,
                      fields |-> [k \in DOMAIN s.fields |-> Tidy(s.fields[p[k]])]]
  BY <1>1, <1>3, <1>4
<1> QED BY <1>2, <1>5

(* A canonical schema is a schema of clean fields.                         *)
LEMMA CanonicalIsClean ==
    ASSUME NEW s \in SchemaType
    PROVE  Canonical(s) \in SchemaType /\ Clean(Canonical(s))
<1>1. PICK p \in [DOMAIN s.fields -> DOMAIN s.fields] :
         Canonical(s) = [kind   |-> s.kind,
                         fields |-> [k \in DOMAIN s.fields |-> Tidy(s.fields[p[k]])]]
  BY CanonicalForm
<1>2. s.kind \in Kinds /\ s.fields \in Seq(Field)
  BY DEF SchemaType
<1>3. \A k \in DOMAIN s.fields : Tidy(s.fields[p[k]]) \in Field /\ IsClean(Tidy(s.fields[p[k]]))
  BY <1>2, FieldFacts, TidyFacts
<1>4. DOMAIN s.fields = 1 .. Len(s.fields) /\ Len(s.fields) \in Nat
  BY <1>2, FieldFacts
<1>5. [k \in DOMAIN s.fields |-> Tidy(s.fields[p[k]])] \in Seq(Field)
  BY <1>3, <1>4
<1>6. Canonical(s) \in SchemaType
  BY <1>1, <1>2, <1>5 DEF SchemaType
<1>7. Clean(Canonical(s))
  BY <1>1, <1>3 DEF Clean
<1> QED BY <1>6, <1>7

(* Making a clean schema canonical sorts it; every name keeps its field.   *)
LEMMA CanonicalKeeps ==
    ASSUME NEW s \in SchemaType, Clean(s)
    PROVE  /\ FieldsNamed(Canonical(s)) = FieldsNamed(s)
           /\ \A n \in FieldsNamed(s) : FieldOf(Canonical(s), n) = FieldOf(s, n)
<1> DEFINE D == DOMAIN s.fields
           c == Canonical(s)
<1>1. s.fields \in Seq(Field) /\ D = 1 .. Len(s.fields) /\ Len(s.fields) \in Nat
  BY FieldFacts DEF SchemaType
<1>2. PICK p \in [D -> D] :
         /\ c = [kind |-> s.kind, fields |-> [k \in D |-> Tidy(s.fields[p[k]])]]
         /\ \A i \in D : \E k \in D : p[k] = i
         /\ \A k, m \in D : k < m /\ s.fields[p[k]].name = s.fields[p[m]].name => p[k] < p[m]
  BY CanonicalForm
<1>3. c \in SchemaType
  BY CanonicalIsClean
<1> HIDE DEF c
<1>4. \A k \in D : Tidy(s.fields[p[k]]) = s.fields[p[k]]
  BY <1>1, FieldFacts, TidyFacts DEF Clean
<1>5. DOMAIN c.fields = D /\ \A k \in D : c.fields[k] = s.fields[p[k]]
  BY <1>2, <1>4
<1>6. FieldsNamed(c) = FieldsNamed(s)
  <2>1. \A n : n \in FieldsNamed(c) => n \in FieldsNamed(s)
    BY <1>5 DEF FieldsNamed
  <2>2. \A n : n \in FieldsNamed(s) => n \in FieldsNamed(c)
    <3> SUFFICES ASSUME NEW i \in D PROVE s.fields[i].name \in FieldsNamed(c)
      BY DEF FieldsNamed
    <3>1. PICK k \in D : p[k] = i
      BY <1>2
    <3> QED BY <1>5, <3>1 DEF FieldsNamed
  <2> QED BY <2>1, <2>2
<1>7. ASSUME NEW n \in FieldsNamed(s)
      PROVE  FieldOf(c, n) = FieldOf(s, n)
  <2>1. PICK k : IsLast(c, n, k) /\ FieldOf(c, n) = c.fields[k]
    BY <1>3, <1>6, LastField
  <2>2. k \in D /\ p[k] \in D /\ c.fields[k] = s.fields[p[k]] /\ s.fields[p[k]].name = n
    BY <1>5, <2>1 DEF IsLast
  <2>3. ASSUME NEW j \in D, s.fields[j].name = n
        PROVE  j <= p[k]
    <3>1. PICK m \in D : p[m] = j
      BY <1>2
    <3>2. c.fields[m].name = n
      BY <1>5, <2>3, <3>1
    <3>3. m <= k
      BY <1>5, <2>1, <3>2 DEF IsLast
    <3>4. m = k \/ p[m] < p[k]
      <4>1. m = k \/ m < k
        BY <1>1, <2>2, <3>3
      <4>2. s.fields[p[m]].name = s.fields[p[k]].name
        BY <2>2, <2>3, <3>1
      <4> QED BY <1>2, <2>2, <4>1, <4>2
    <3> QED BY <1>1, <2>2, <3>1, <3>4
  <2>4. IsLast(s, n, p[k])
    BY <2>2, <2>3 DEF IsLast
  <2> QED BY <2>1, <2>2, <2>4, FieldOfLast
<1> QED BY <1>6, <1>7 DEF c

-----------------------------------------------------------------------------
(* Compatible schemas                                                      *)

SafeField(f, nf) ==
    f.type = nf.type /\ ~RequiredStrengthened(f, nf) /\ ~EnumNarrowed(f, nf)

(* What it means, field by field, that compare reports nothing breaking.   *)
Safe(old, new, mode) ==
    /\ \A n \in FieldsNamed(old) \cap FieldsNamed(new) : SafeField(FieldOf(old, n), FieldOf(new, n))
    /\ mode = "forward" \/ FieldsNamed(old) \subseteq FieldsNamed(new)
    /\ \A n \in FieldsNamed(new) \ FieldsNamed(old) :
          AddedSeverity(FieldOf(new, n), mode) # "breaking"

(* The changes to a field, one by one.                                     *)
LEMMA FieldChanges ==
    ASSUME NEW f, NEW nf
    PROVE  (\A c \in ChangesToField(f, nf) : c[2] # "breaking") <=> SafeField(f, nf)
<1>1. f.type # nf.type <=> <<"type-changed", "breaking">> \in ChangesToField(f, nf)
  BY DEF ChangesToField
<1>2. RequiredStrengthened(f, nf) <=>
         <<"required-strengthened", "breaking">> \in ChangesToField(f, nf)
  BY DEF ChangesToField
<1>3. EnumNarrowed(f, nf) <=> <<"enum-narrowed", "breaking">> \in ChangesToField(f, nf)
  BY DEF ChangesToField
<1>4. \A c \in ChangesToField(f, nf) :
         c[2] = "breaking" => \/ c = <<"type-changed", "breaking">>
                              \/ c = <<"required-strengthened", "breaking">>
                              \/ c = <<"enum-narrowed", "breaking">>
  BY DEF ChangesToField
<1> QED BY <1>1, <1>2, <1>3, <1>4 DEF SafeField

(* The union of the changes is free of breaking ones iff each part is.     *)
LEMMA NothingBreaking ==
    ASSUME NEW old, NEW new, NEW mode
    PROVE  (\A c \in Changes(old, new, mode) : c[2] # "breaking") <=> Safe(old, new, mode)
<1> DEFINE was == FieldsNamed(old)
           is  == FieldsNamed(new)
           Kept(n)  == ChangesToField(FieldOf(old, n), FieldOf(new, n))
           Added(n) == AddedSeverity(FieldOf(new, n), mode)
<1>1. \A c : c \in Changes(old, new, mode) <=>
         \/ \E n \in was \cap is : c \in Kept(n)
         \/ \E n \in was \ is : c = <<"field-removed", RemovedSeverity(mode)>>
         \/ \E n \in is \ was : c = <<"field-added", Added(n)>>
  <2>1. \A n \in was \cap is : \A c \in Kept(n) : c \in Changes(old, new, mode)
    BY DEF Changes
  <2>2. \A n \in was \ is : <<"field-removed", RemovedSeverity(mode)>> \in Changes(old, new, mode)
    BY DEF Changes
  <2>3. \A n \in is \ was : <<"field-added", Added(n)>> \in Changes(old, new, mode)
    BY DEF Changes
  <2>4. ASSUME NEW c \in Changes(old, new, mode)
        PROVE  \/ \E n \in was \cap is : c \in Kept(n)
               \/ \E n \in was \ is : c = <<"field-removed", RemovedSeverity(mode)>>
               \/ \E n \in is \ was : c = <<"field-added", Added(n)>>
    BY <2>4 DEF Changes
  <2> HIDE DEF was, is, Kept, Added
  <2> QED BY <2>1, <2>2, <2>3, <2>4
<1> HIDE DEF was, is, Kept, Added
<1>2. ASSUME \A c \in Changes(old, new, mode) : c[2] # "breaking"
      PROVE  /\ \A n \in was \cap is : \A c \in Kept(n) : c[2] # "breaking"
             /\ was \ is # {} => RemovedSeverity(mode) # "breaking"
             /\ \A n \in is \ was : Added(n) # "breaking"
  <2>1. \A n \in was \cap is : \A c \in Kept(n) : c[2] # "breaking"
    BY <1>1, <1>2
  <2>2. was \ is # {} => <<"field-removed", RemovedSeverity(mode)>>[2] # "breaking"
    BY <1>1, <1>2
  <2>3. \A n \in is \ was : <<"field-added", Added(n)>>[2] # "breaking"
    BY <1>1, <1>2
  <2> QED BY <2>1, <2>2, <2>3
<1>3. ASSUME /\ \A n \in was \cap is : \A c \in Kept(n) : c[2] # "breaking"
             /\ was \ is # {} => RemovedSeverity(mode) # "breaking"
             /\ \A n \in is \ was : Added(n) # "breaking",
             NEW c \in Changes(old, new, mode)
      PROVE  c[2] # "breaking"
  BY <1>1, <1>3
<1>4. (was \ is # {} => RemovedSeverity(mode) # "breaking") <=> (mode = "forward" \/ was \subseteq is)
  BY DEF RemovedSeverity
<1>5. \A n : (\A c \in Kept(n) : c[2] # "breaking") <=> SafeField(FieldOf(old, n), FieldOf(new, n))
  BY FieldChanges DEF Kept
<1> QED BY <1>2, <1>3, <1>4, <1>5 DEF Safe, was, is, Added

(* A stored schema is compared as it is, whatever the other one is.        *)
LEMMA CompatibleIsSafe ==
    ASSUME NEW old \in SchemaType, Clean(old), NEW new \in SchemaType, NEW mode
    PROVE  Compatible(old, new, mode) <=> Safe(old, Canonical(new), mode)
<1>1. Compatible(old, new, mode) <=> Safe(Canonical(old), Canonical(new), mode)
  BY NothingBreaking DEF Compatible
<1>2. /\ FieldsNamed(Canonical(old)) = FieldsNamed(old)
      /\ \A n \in FieldsNamed(old) : FieldOf(Canonical(old), n) = FieldOf(old, n)
  BY CanonicalKeeps
<1>3. Safe(Canonical(old), Canonical(new), mode) <=> Safe(old, Canonical(new), mode)
  BY <1>2 DEF Safe
<1> QED BY <1>1, <1>3

(* Two stored schemas are compared as they are.                            *)
LEMMA CompatibleWhenClean ==
    ASSUME NEW old \in SchemaType, Clean(old), NEW new \in SchemaType, Clean(new), NEW mode
    PROVE  Compatible(old, new, mode) <=> Safe(old, new, mode)
<1>1. /\ FieldsNamed(Canonical(new)) = FieldsNamed(new)
      /\ \A n \in FieldsNamed(new) : FieldOf(Canonical(new), n) = FieldOf(new, n)
  BY CanonicalKeeps
<1>2. Safe(old, Canonical(new), mode) <=> Safe(old, new, mode)
  BY <1>1 DEF Safe
<1> QED BY <1>2, CompatibleIsSafe

(* A schema that was checked as submitted is compatible as stored, though  *)
(* Canonical trims the names after it has sorted them.                     *)
LEMMA StoredAsChecked ==
    ASSUME NEW old \in SchemaType, Clean(old), NEW new \in SchemaType, NEW mode,
           Compatible(old, new, mode)
    PROVE  Compatible(old, Canonical(new), mode)
<1>1. Canonical(new) \in SchemaType /\ Clean(Canonical(new))
  BY CanonicalIsClean
<1>2. Safe(old, Canonical(new), mode)
  BY CompatibleIsSafe
<1> QED BY <1>1, <1>2, CompatibleWhenClean

(* What compare lets pass keeps payloads valid, but for what it does not   *)
(* look at.                                                                *)
LEMMA SafeMeansSubstitutable ==
    ASSUME NEW old \in SchemaType, NEW new \in SchemaType, NEW mode, mode # "forward",
           Safe(old, new, mode), ~Unchecked(old, new),
           NEW payload \in PayloadsOver(FieldsNamed(old)), NEW saturates \in BOOLEAN,
           Accepts(old, payload, saturates)
    PROVE  Accepts(new, payload, saturates)
<1> SUFFICES ASSUME NEW i \in DOMAIN new.fields
             PROVE  FieldAccepts(payload, new.fields[i], saturates)
  BY DEF Accepts
<1> DEFINE nf == new.fields[i]
           n  == nf.name
<1>1. n \in FieldsNamed(new)
  BY DEF FieldsNamed
<1>2. FieldOf(new, n) = nf
  <2>1. PICK j : IsLast(new, n, j) /\ FieldOf(new, n) = new.fields[j]
    BY <1>1, LastField
  <2>2. j = i
    BY <2>1 DEF IsLast, Unchecked
  <2> QED BY <2>1, <2>2
<1>3. ~(nf.required /\ nf.default)
  BY <1>1, <1>2 DEF Unchecked
<1>4. nf \in Field
  BY FieldFacts DEF SchemaType
<1>5. DOMAIN payload \subseteq FieldsNamed(old)
  BY DEF PayloadsOver
<1>6. CASE n \in FieldsNamed(old)
  <2>1. PICK j : IsLast(old, n, j) /\ FieldOf(old, n) = old.fields[j]
    BY <1>6, LastField
  <2> DEFINE f == old.fields[j]
  <2>2. f.name = n /\ FieldAccepts(payload, f, saturates)
    BY <2>1 DEF IsLast, Accepts
  <2>3. f.type = nf.type /\ ~RequiredStrengthened(f, nf) /\ ~EnumNarrowed(f, nf)
    BY <1>1, <1>2, <1>6, <2>1 DEF Safe, SafeField
  <2>4. f.enum = {} => nf.enum = {}
    BY <1>1, <1>2, <1>6, <2>1 DEF Unchecked
  <2>5. CASE n \in DOMAIN payload
    <3>1. /\ payload[n].class \in ClassesOfType(Plain[f.type], saturates)
          /\ f.enum # {} => payload[n].text \in f.enum
      BY <2>2, <2>5 DEF FieldAccepts
    <3>2. nf.enum # {} => payload[n].text \in nf.enum
      BY <2>3, <2>4, <3>1 DEF EnumNarrowed
    <3> QED BY <2>3, <2>5, <3>1, <3>2 DEF FieldAccepts
  <2>6. CASE n \notin DOMAIN payload
    <3>1. ~f.required
      BY <2>2, <2>6 DEF FieldAccepts
    <3>2. ~nf.required
      BY <1>3, <2>3, <3>1 DEF RequiredStrengthened
    <3> QED BY <2>6, <3>2 DEF FieldAccepts
  <2> QED BY <2>5, <2>6
<1>7. CASE n \notin FieldsNamed(old)
  <2>1. AddedSeverity(nf, mode) # "breaking"
    BY <1>1, <1>2, <1>7 DEF Safe
  <2>2. ~nf.required
    BY <1>3, <2>1 DEF AddedSeverity
  <2>3. n \notin DOMAIN payload
    BY <1>5, <1>7
  <2> QED BY <2>2, <2>3 DEF FieldAccepts
<1> QED BY <1>6, <1>7

-----------------------------------------------------------------------------
(* Sound contracts                                                         *)

Accounts(c) == c.revision = 1 + Len(c.versions) + Cardinality(PublishedOf(c))

Tagged(c) ==
    /\ \A i, j \in DOMAIN c.versions : c.versions[i].tag = c.versions[j].tag => i = j
    /\ c.versions # <<>> => \E i \in DOMAIN c.versions : c.versions[i].tag = c.revision
    /\ \A i \in DOMAIN c.versions : c.versions[i].number = i /\ c.versions[i].tag <= c.revision

Chained(c) ==
    \A i \in 1 .. Len(c.versions) - 1 :
        Compatible(c.versions[i].schema, c.versions[i + 1].schema, c.mode)

Sound(c) ==
    /\ c \in Contract /\ Accounts(c) /\ Tagged(c) /\ Chained(c)
    /\ \A i \in DOMAIN c.versions : Clean(c.versions[i].schema)

(* How a copy differs from the contract it was taken of.                   *)
Adds(base, copy) == \E s \in Submitted : CanAdd(base, s) /\ copy = WithVersion(base, s)

Publishes(base, copy) ==
    \E i \in DOMAIN base.versions :
        base.versions[i].lifecycle = "draft" /\ copy = WithPublished(base, i)

(* The goroutines work on sound copies, each one change away from what the *)
(* store held when the copy was taken, and the store holds sound contracts.*)
RegistryInv ==
    /\ TypeOK
    /\ DOMAIN store = 1 .. Cardinality(DOMAIN store) /\ IsFiniteSet(DOMAIN store)
    /\ \A id \in DOMAIN store : Sound(store[id])
    /\ \A cl \in Clients : job[cl] # Idle =>
          /\ Sound(job[cl].base)
          /\ Adds(job[cl].base, job[cl].copy) \/ Publishes(job[cl].base, job[cl].copy)
    /\ \A view \in shown : view.id \in DOMAIN store

(* The parts of a contract.                                                *)
LEMMA ContractFacts ==
    ASSUME NEW c \in Contract
    PROVE  /\ c.tenant \in Tenants /\ c.mode \in Modes /\ c.revision \in Nat
           /\ c.versions \in Seq(Version) /\ Len(c.versions) \in Nat
           /\ DOMAIN c.versions = 1 .. Len(c.versions)
           /\ \A i \in DOMAIN c.versions :
                 /\ c.versions[i] \in Version
                 /\ c.versions[i].tag \in Nat /\ c.versions[i].schema \in SchemaType
                 /\ c.versions[i].lifecycle \in Lifecycles
           /\ IsFiniteSet(PublishedOf(c)) /\ Cardinality(PublishedOf(c)) \in Nat
<1>1. c.tenant \in Tenants /\ c.mode \in Modes /\ c.revision \in Nat /\ c.versions \in Seq(Version)
  BY DEF Contract
<1>2. Len(c.versions) \in Nat /\ DOMAIN c.versions = 1 .. Len(c.versions)
  BY <1>1
<1>3. \A i \in DOMAIN c.versions : c.versions[i] \in Version
  BY <1>1, <1>2
<1>4. \A v \in Version : v.tag \in Nat /\ v.schema \in SchemaType /\ v.lifecycle \in Lifecycles
  BY DEF Version
<1>5. IsFiniteSet(PublishedOf(c))
  <2>1. IsFiniteSet(DOMAIN c.versions)
    BY <1>2, FS_Interval
  <2> QED BY <2>1, FS_Subset DEF PublishedOf
<1>6. Cardinality(PublishedOf(c)) \in Nat
  BY <1>5, FS_CardinalityType
<1> QED BY <1>1, <1>2, <1>3, <1>4, <1>5, <1>6

(* A version to be added.                                                  *)
LEMMA NewVersionFacts ==
    ASSUME NEW c \in Contract, NEW s \in Submitted
    PROVE  /\ NewVersion(c, s) \in Version
           /\ NewVersion(c, s).number = Len(c.versions) + 1
           /\ NewVersion(c, s).tag = c.revision + 1
           /\ NewVersion(c, s).lifecycle = "draft"
           /\ NewVersion(c, s).schema = Canonical(s)
<1>1. Canonical(s) \in SchemaType
  BY SubmittedAssumption, CanonicalIsClean
<1>2. Fingerprint(s) \in Fingerprints
  BY DEF Fingerprints
<1>3. Len(c.versions) \in Nat /\ c.revision \in Nat
  BY ContractFacts
<1> QED BY <1>1, <1>2, <1>3 DEF NewVersion, Version, Lifecycles

(* What WithVersion leaves and what it adds.                               *)
LEMMA WithVersionFacts ==
    ASSUME NEW c \in Contract, NEW s \in Submitted, NEW d, d = WithVersion(c, s)
    PROVE  /\ d \in Contract /\ d.tenant = c.tenant /\ d.mode = c.mode
           /\ d.revision = c.revision + 1
           /\ Len(d.versions) = Len(c.versions) + 1
           /\ \A i \in DOMAIN c.versions : d.versions[i] = c.versions[i]
           /\ d.versions[Len(c.versions) + 1] = NewVersion(c, s)
           /\ d.versions = Append(c.versions, NewVersion(c, s))
<1>1. c = [tenant |-> c.tenant, mode |-> c.mode, revision |-> c.revision, versions |-> c.versions]
  BY DEF Contract
<1>2. NewVersion(c, s) \in Version
  BY NewVersionFacts
<1> DEFINE w == Append(c.versions, NewVersion(c, s))
<1>3. d = [tenant |-> c.tenant, mode |-> c.mode, revision |-> c.revision + 1, versions |-> w]
  BY <1>1 DEF WithVersion
<1>4. /\ w \in Seq(Version) /\ Len(w) = Len(c.versions) + 1
      /\ \A i \in DOMAIN c.versions : w[i] = c.versions[i]
      /\ w[Len(c.versions) + 1] = NewVersion(c, s)
  BY <1>2, ContractFacts
<1> HIDE DEF w
<1>5. d \in Contract
  BY <1>3, <1>4, ContractFacts DEF Contract
<1> QED BY <1>3, <1>4, <1>5 DEF w

(* What WithPublished leaves and what it changes.                          *)
LEMMA WithPublishedFacts ==
    ASSUME NEW c \in Contract, NEW k \in DOMAIN c.versions, NEW d, d = WithPublished(c, k)
    PROVE  /\ d \in Contract /\ d.tenant = c.tenant /\ d.mode = c.mode
           /\ d.revision = c.revision + 1
           /\ Len(d.versions) = Len(c.versions)
           /\ \A i \in DOMAIN c.versions : i # k => d.versions[i] = c.versions[i]
           /\ d.versions[k].lifecycle = "published" /\ d.versions[k].tag = c.revision + 1
           /\ d.versions[k].number = c.versions[k].number
           /\ d.versions[k].schema = c.versions[k].schema
<1>1. c = [tenant |-> c.tenant, mode |-> c.mode, revision |-> c.revision, versions |-> c.versions]
  BY DEF Contract
<1> DEFINE v == [c.versions[k] EXCEPT !.lifecycle = "published", !.tag = c.revision + 1]
           w == [c.versions EXCEPT ![k] = v]
<1>2. d = [tenant |-> c.tenant, mode |-> c.mode, revision |-> c.revision + 1, versions |-> w]
  BY <1>1 DEF WithPublished
<1>3. v \in Version
  <2>1. c.versions[k] \in Version /\ c.revision + 1 \in Nat
    BY ContractFacts
  <2> QED BY <2>1 DEF Version, Lifecycles
<1>4. /\ w \in Seq(Version) /\ Len(w) = Len(c.versions) /\ w[k] = v
      /\ \A i \in DOMAIN c.versions : i # k => w[i] = c.versions[i]
  <2> HIDE DEF v
  <2> QED BY <1>3, ContractFacts
<1> HIDE DEF w
<1>5. d \in Contract
  BY <1>2, <1>4, ContractFacts DEF Contract
<1>6. /\ v.lifecycle = "published" /\ v.tag = c.revision + 1
      /\ v.number = c.versions[k].number /\ v.schema = c.versions[k].schema
  <2>1. c.versions[k] \in Version
    BY ContractFacts
  <2> QED BY <2>1 DEF Version
<1> HIDE DEF v
<1> QED BY <1>2, <1>4, <1>5, <1>6

(* Adding a version makes a sound contract of a sound one.                 *)
LEMMA AddsSound ==
    ASSUME NEW c, Sound(c), NEW s \in Submitted, CanAdd(c, s), NEW d, d = WithVersion(c, s)
    PROVE  Sound(d)
<1> DEFINE n == Len(c.versions)
<1>1. /\ c \in Contract /\ n \in Nat /\ DOMAIN c.versions = 1 .. n /\ c.revision \in Nat
      /\ \A i \in 1 .. n : c.versions[i].tag \in Nat
  BY ContractFacts DEF Sound
<1>2. /\ d \in Contract /\ d.mode = c.mode /\ d.revision = c.revision + 1
      /\ Len(d.versions) = n + 1 /\ DOMAIN d.versions = 1 .. n + 1
      /\ \A i \in 1 .. n : d.versions[i] = c.versions[i]
      /\ d.versions[n + 1] = NewVersion(c, s)
  <2>1. /\ d \in Contract /\ d.mode = c.mode /\ d.revision = c.revision + 1
        /\ Len(d.versions) = n + 1
        /\ \A i \in DOMAIN c.versions : d.versions[i] = c.versions[i]
        /\ d.versions[n + 1] = NewVersion(c, s)
    BY <1>1, WithVersionFacts
  <2>2. DOMAIN d.versions = 1 .. Len(d.versions)
    BY <2>1, ContractFacts
  <2> QED BY <1>1, <2>1, <2>2
<1>3. /\ NewVersion(c, s).number = n + 1 /\ NewVersion(c, s).tag = c.revision + 1
      /\ NewVersion(c, s).lifecycle = "draft" /\ NewVersion(c, s).schema = Canonical(s)
  BY <1>1, NewVersionFacts
<1> HIDE DEF n
<1>4. Accounts(d)
  <2>1. PublishedOf(d) = PublishedOf(c)
    BY <1>1, <1>2, <1>3 DEF PublishedOf
  <2>2. Cardinality(PublishedOf(c)) \in Nat
    BY <1>1, ContractFacts
  <2> QED BY <1>1, <1>2, <2>1, <2>2 DEF Sound, Accounts, n
<1>5. Tagged(d)
  <2>1. \A i \in 1 .. n : d.versions[i].tag <= c.revision /\ d.versions[i].number = i
    <3>1. \A i \in 1 .. n : c.versions[i].tag <= c.revision /\ c.versions[i].number = i
      BY <1>1 DEF Sound, Tagged
    <3> QED BY <1>2, <3>1
  <2>2. \A i, j \in 1 .. n : d.versions[i].tag = d.versions[j].tag => i = j
    <3>1. \A i, j \in 1 .. n : c.versions[i].tag = c.versions[j].tag => i = j
      BY <1>1 DEF Sound, Tagged
    <3> QED BY <1>2, <3>1
  <2>3. d.versions[n + 1].tag = d.revision /\ d.versions[n + 1].number = n + 1
    BY <1>2, <1>3
  <2>4. \A i \in 1 .. n : d.versions[i].tag # d.versions[n + 1].tag /\ d.versions[i].tag <= d.revision
    <3>1. d.revision = c.revision + 1 /\ c.revision \in Nat
      BY <1>1, <1>2
    <3>2. \A i \in 1 .. n : d.versions[i].tag \in Nat
      BY <1>1, <1>2
    <3> QED BY <2>1, <2>3, <3>1, <3>2
  <2>5. \A i \in DOMAIN d.versions : i \in 1 .. n \/ i = n + 1
    BY <1>1, <1>2
  <2>6. \A i, j \in DOMAIN d.versions : d.versions[i].tag = d.versions[j].tag => i = j
    BY <2>2, <2>4, <2>5
  <2>7. n + 1 \in DOMAIN d.versions
    BY <1>1, <1>2
  <2>8. \A i \in DOMAIN d.versions : d.versions[i].number = i /\ d.versions[i].tag <= d.revision
    BY <1>1, <1>2, <2>1, <2>3, <2>4, <2>5
  <2> QED BY <2>3, <2>6, <2>7, <2>8 DEF Tagged
<1>6. s \in SchemaType /\ Canonical(s) \in SchemaType /\ Clean(Canonical(s))
  BY SubmittedAssumption, CanonicalIsClean
<1>7. Chained(d)
  <2>1. ASSUME NEW i \in 1 .. n - 1
        PROVE  Compatible(d.versions[i].schema, d.versions[i + 1].schema, d.mode)
    <3>1. i \in 1 .. n /\ i + 1 \in 1 .. n
      BY <1>1
    <3> QED BY <1>2, <3>1 DEF Sound, Chained, n
  <2>2. ASSUME n # 0
        PROVE  Compatible(d.versions[n].schema, d.versions[n + 1].schema, d.mode)
    <3>1. n \in DOMAIN c.versions /\ c.versions # <<>>
      BY <1>1, <2>2
    <3>2. Compatible(c.versions[n].schema, s, c.mode)
      BY <3>1 DEF CanAdd, n
    <3>3. c.versions[n].schema \in SchemaType /\ Clean(c.versions[n].schema)
      BY <1>1, <3>1, ContractFacts DEF Sound
    <3>4. Compatible(c.versions[n].schema, Canonical(s), c.mode)
      BY <1>6, <3>2, <3>3, StoredAsChecked
    <3> QED BY <1>1, <1>2, <1>3, <3>1, <3>4
  <2>3. \A i \in 1 .. Len(d.versions) - 1 : i \in 1 .. n - 1 \/ (n # 0 /\ i = n)
    BY <1>1, <1>2
  <2> QED BY <2>1, <2>2, <2>3 DEF Chained
<1>8. \A i \in DOMAIN d.versions : Clean(d.versions[i].schema)
  <2>1. \A i \in 1 .. n : Clean(d.versions[i].schema)
    BY <1>1, <1>2 DEF Sound
  <2>2. \A i \in DOMAIN d.versions : i \in 1 .. n \/ i = n + 1
    BY <1>1, <1>2
  <2> QED BY <1>2, <1>3, <1>6, <2>1, <2>2
<1> QED BY <1>2, <1>4, <1>5, <1>7, <1>8 DEF Sound

(* Publishing a draft makes a sound contract of a sound one.               *)
LEMMA PublishesSound ==
    ASSUME NEW c, Sound(c), NEW k \in DOMAIN c.versions, c.versions[k].lifecycle = "draft",
           NEW d, d = WithPublished(c, k)
    PROVE  Sound(d)
<1> DEFINE n == Len(c.versions)
<1>1. /\ c \in Contract /\ n \in Nat /\ DOMAIN c.versions = 1 .. n /\ c.revision \in Nat
      /\ \A i \in 1 .. n : c.versions[i] \in Version /\ c.versions[i].tag \in Nat
      /\ IsFiniteSet(PublishedOf(c)) /\ Cardinality(PublishedOf(c)) \in Nat
  BY ContractFacts DEF Sound
<1>2. /\ d \in Contract /\ d.mode = c.mode /\ d.revision = c.revision + 1
      /\ Len(d.versions) = n
      /\ \A i \in DOMAIN c.versions : i # k => d.versions[i] = c.versions[i]
      /\ d.versions[k].lifecycle = "published" /\ d.versions[k].tag = c.revision + 1
      /\ d.versions[k].number = c.versions[k].number /\ d.versions[k].schema = c.versions[k].schema
  BY <1>1, WithPublishedFacts
<1>3. DOMAIN d.versions = 1 .. n
  BY <1>2, ContractFacts
<1> HIDE DEF n
<1>4. Accounts(d)
  <2>1. k \notin PublishedOf(c)
    BY DEF PublishedOf
  <2>2. \A i \in 1 .. n : i \in PublishedOf(d) <=> i \in PublishedOf(c) \/ i = k
    BY <1>1, <1>2, <1>3 DEF PublishedOf
  <2>3. PublishedOf(d) = PublishedOf(c) \cup {k}
    BY <1>1, <1>3, <2>2 DEF PublishedOf
  <2>4. Cardinality(PublishedOf(d)) = Cardinality(PublishedOf(c)) + 1
    BY <1>1, <2>1, <2>3, FS_AddElement
  <2>5. c.revision = 1 + n + Cardinality(PublishedOf(c))
    BY DEF Sound, Accounts, n
  <2>6. d.revision = 1 + n + Cardinality(PublishedOf(d))
    BY <1>1, <1>2, <2>4, <2>5
  <2> QED BY <1>2, <2>6 DEF Accounts
<1>5. Tagged(d)
  <2>1. \A i \in 1 .. n : i # k => d.versions[i].tag <= c.revision /\ d.versions[i].tag \in Nat
    BY <1>1, <1>2 DEF Sound, Tagged
  <2>2. \A i \in 1 .. n : d.versions[i].number = i
    <3>1. \A i \in 1 .. n : c.versions[i].number = i
      BY <1>1 DEF Sound, Tagged
    <3> QED BY <1>1, <1>2, <3>1
  <2>3. \A i, j \in 1 .. n : i # k /\ j # k /\ d.versions[i].tag = d.versions[j].tag => i = j
    <3>1. \A i, j \in 1 .. n : c.versions[i].tag = c.versions[j].tag => i = j
      BY <1>1 DEF Sound, Tagged
    <3>2. \A i \in 1 .. n : i # k => d.versions[i] = c.versions[i]
      BY <1>1, <1>2
    <3> QED BY <3>1, <3>2
  <2>4. d.versions[k].tag = d.revision
    BY <1>2
  <2>5. \A i \in 1 .. n : i # k => d.versions[i].tag # d.versions[k].tag
    BY <1>1, <1>2, <2>1, <2>4
  <2>6. \A i \in 1 .. n : d.versions[i].tag <= d.revision
    <3>1. d.revision = c.revision + 1 /\ c.revision \in Nat
      BY <1>1, <1>2
    <3>2. \A i \in 1 .. n : i # k => d.versions[i].tag <= d.revision
      BY <2>1, <3>1
    <3> QED BY <2>4, <3>1, <3>2
  <2>7. \A i, j \in 1 .. n : d.versions[i].tag = d.versions[j].tag => i = j
    BY <2>3, <2>5
  <2> QED BY <1>1, <1>3, <2>2, <2>4, <2>6, <2>7 DEF Tagged
<1>6. \A i \in 1 .. n : d.versions[i].schema = c.versions[i].schema
  BY <1>1, <1>2
<1>7. Chained(d)
  <2>1. \A i \in 1 .. n - 1 : i \in 1 .. n /\ i + 1 \in 1 .. n
    BY <1>1
  <2>2. \A i \in 1 .. n - 1 :
            Compatible(c.versions[i].schema, c.versions[i + 1].schema, c.mode)
    BY DEF Sound, Chained, n
  <2>3. d.mode = c.mode /\ Len(d.versions) = n
    BY <1>2
  <2> QED BY <1>6, <2>1, <2>2, <2>3 DEF Chained
<1>8. \A i \in DOMAIN d.versions : Clean(d.versions[i].schema)
  BY <1>1, <1>3, <1>6 DEF Sound
<1> QED BY <1>2, <1>4, <1>5, <1>7, <1>8 DEF Sound

(* A goroutine never saves an unsound contract.                            *)
LEMMA CopiesSound ==
    ASSUME NEW base, Sound(base), NEW copy, Adds(base, copy) \/ Publishes(base, copy)
    PROVE  Sound(copy)
  BY AddsSound, PublishesSound DEF Adds, Publishes

-----------------------------------------------------------------------------
(* The registry keeps its contracts sound                                  *)

(* What a goroutine that has a copy in hand knows.                         *)
LEMMA JobFacts ==
    ASSUME TypeOK, NEW cl \in Clients, job[cl] # Idle
    PROVE  /\ job[cl].saving /\ job[cl].id \in DOMAIN store
           /\ job[cl].base \in Contract /\ job[cl].copy \in Contract /\ job[cl].result \in Version
<1>1. job[cl] \in [saving: {TRUE}, id: Nat, base: Contract, copy: Contract, result: Version]
  BY DEF TypeOK, Job
<1>2. job[cl].saving
  BY <1>1
<1> QED BY <1>1, <1>2 DEF TypeOK

(* A new contract is sound.                                                *)
LEMMA NewContractSound ==
    ASSUME NEW tenant \in Tenants, NEW mode \in Requested
    PROVE  Sound(NewContract(tenant, mode))
<1> DEFINE c == NewContract(tenant, mode)
<1>1. c.tenant = tenant /\ c.revision = 1 /\ c.versions = <<>> /\ c.mode \in Modes
  BY SubmittedAssumption DEF NewContract, Modes
<1>2. c \in Contract
  <2>1. PICK m \in Modes : c = [tenant |-> tenant, mode |-> m, revision |-> 1, versions |-> <<>>]
    BY <1>1 DEF NewContract
  <2>2. <<>> \in Seq(Version) /\ 1 \in Nat
    OBVIOUS
  <2> HIDE DEF c
  <2> QED BY <2>1, <2>2 DEF Contract
<1> HIDE DEF c
<1>3. PublishedOf(c) = {}
  BY <1>1 DEF PublishedOf
<1>4. Accounts(c)
  BY <1>1, <1>3, FS_EmptySet DEF Accounts
<1>5. Tagged(c) /\ Chained(c) /\ \A i \in DOMAIN c.versions : Clean(c.versions[i].schema)
  BY <1>1 DEF Tagged, Chained
<1> QED BY <1>2, <1>4, <1>5 DEF Sound, c

(* An empty store is sound.                                                *)
LEMMA RegistryInit == Init => RegistryInv
<1> SUFFICES ASSUME Init PROVE RegistryInv
  OBVIOUS
<1>1. DOMAIN store = {} /\ store \in [{} -> Contract]
  BY DEF Init
<1>2. Cardinality(DOMAIN store) = 0 /\ IsFiniteSet(DOMAIN store)
  BY <1>1, FS_EmptySet
<1>3. 1 .. 0 = {}
  OBVIOUS
<1>4. TypeOK
  BY <1>1 DEF Init, TypeOK, Job, Idle
<1>5. \A cl \in Clients : job[cl] = Idle
  BY DEF Init
<1> QED BY <1>1, <1>2, <1>3, <1>4, <1>5 DEF RegistryInv, Init

(* A goroutine takes a copy and changes it.                                *)
LEMMA BeginKeepsInv ==
    ASSUME RegistryInv, NEW cl \in Clients, NEW id \in DOMAIN store, NEW copy \in Contract,
           NEW result \in Version, Adds(store[id], copy) \/ Publishes(store[id], copy),
           job' = [job EXCEPT ![cl] = [saving |-> TRUE, id |-> id, base |-> store[id],
                                       copy |-> copy, result |-> result]],
           UNCHANGED <<store, shown>>
    PROVE  RegistryInv'
<1> DEFINE j == [saving |-> TRUE, id |-> id, base |-> store[id], copy |-> copy, result |-> result]
<1>1. store[id] \in Contract /\ id \in Nat /\ job \in [Clients -> Job] /\ Sound(store[id])
  BY DEF RegistryInv, TypeOK
<1>2. j \in Job /\ j.saving /\ j.id = id /\ j.base = store[id] /\ j.copy = copy
  BY <1>1 DEF Job
<1> HIDE DEF j
<1>3. job' = [job EXCEPT ![cl] = j]
  BY DEF j
<1>4. job' \in [Clients -> Job] /\ job'[cl] = j /\ \A x \in Clients : x # cl => job'[x] = job[x]
  <2>1. job \in [Clients -> Job] /\ j \in Job
    BY <1>1, <1>2
  <2> QED BY <1>3, <2>1
<1>5. TypeOK'
  <2>1. \A x \in Clients : job'[x].saving => job'[x].id \in DOMAIN store
    BY <1>2, <1>4 DEF RegistryInv, TypeOK
  <2> QED BY <1>4, <2>1 DEF RegistryInv, TypeOK
<1>6. \A x \in Clients : job'[x] # Idle =>
         /\ Sound(job'[x].base)
         /\ Adds(job'[x].base, job'[x].copy) \/ Publishes(job'[x].base, job'[x].copy)
  BY <1>1, <1>2, <1>4 DEF RegistryInv
<1> QED BY <1>5, <1>6 DEF RegistryInv

(* AddVersion takes a copy with a version more.                            *)
LEMMA AddVersionBegins ==
    ASSUME RegistryInv, NEW cl \in Clients, NEW t \in Tenants, NEW id \in DOMAIN store,
           NEW s \in Submitted, AddVersion(cl, t, id, s)
    PROVE  RegistryInv'
<1>1. store[id] \in Contract
  BY DEF RegistryInv, TypeOK
<1>2. WithVersion(store[id], s) \in Contract /\ NewVersion(store[id], s) \in Version
  BY <1>1, WithVersionFacts, NewVersionFacts
<1>3. Adds(store[id], WithVersion(store[id], s))
  BY DEF Adds, AddVersion
<1> QED BY <1>2, <1>3, BeginKeepsInv DEF AddVersion

(* Publish takes a copy with a version published.                          *)
LEMMA PublishBegins ==
    ASSUME RegistryInv, NEW cl \in Clients, NEW t \in Tenants, NEW view \in shown,
           Publish(cl, t, view)
    PROVE  RegistryInv'
<1>1. view.id \in DOMAIN store /\ store[view.id] \in Contract
  BY DEF RegistryInv, TypeOK
<1>2. PICK i \in DOMAIN store[view.id].versions :
         /\ CanPublish(store[view.id], i, view.version.tag)
         /\ job' = [job EXCEPT ![cl] =
                      [saving |-> TRUE, id |-> view.id, base |-> store[view.id],
                       copy   |-> WithPublished(store[view.id], i),
                       result |-> WithPublished(store[view.id], i).versions[i]]]
  BY DEF Publish
<1> DEFINE d == WithPublished(store[view.id], i)
<1>3. d \in Contract /\ Len(d.versions) = Len(store[view.id].versions)
  BY <1>1, WithPublishedFacts
<1>4. d.versions[i] \in Version
  BY <1>1, <1>3, ContractFacts
<1>5. Publishes(store[view.id], d)
  BY <1>2 DEF Publishes, CanPublish
<1>6. UNCHANGED <<store, shown>>
  BY DEF Publish
<1> QED BY <1>1, <1>2, <1>3, <1>4, <1>5, <1>6, BeginKeepsInv

(* Register stores a new contract under the next id.                       *)
LEMMA RegisterKeepsInv ==
    ASSUME RegistryInv, NEW cl \in Clients, NEW t \in Tenants, NEW mode \in Requested,
           Register(cl, t, mode)
    PROVE  RegistryInv'
<1>1. PICK id : id = Cardinality(DOMAIN store) + 1
  OBVIOUS
<1>2. Cardinality(DOMAIN store) \in Nat /\ DOMAIN store = 1 .. Cardinality(DOMAIN store)
  BY FS_CardinalityType DEF RegistryInv
<1>3. id \in Nat \ {0} /\ id \notin DOMAIN store /\ DOMAIN store \cup {id} = 1 .. id
  BY <1>1, <1>2
<1>4. PICK c : c = NewContract(t, mode)
  OBVIOUS
<1>5. Sound(c) /\ c \in Contract
  BY <1>4, NewContractSound DEF Sound
<1>6. /\ store' = [x \in DOMAIN store \cup {id} |-> IF x = id THEN c ELSE store[x]]
      /\ UNCHANGED <<job, shown>>
  BY <1>1, <1>4 DEF Register
<1>7. /\ DOMAIN store' = DOMAIN store \cup {id} /\ store'[id] = c
      /\ \A x \in DOMAIN store : store'[x] = store[x]
  BY <1>3, <1>6
<1>8. Cardinality(DOMAIN store') = id /\ IsFiniteSet(DOMAIN store')
  <2>1. IsFiniteSet(DOMAIN store)
    BY DEF RegistryInv
  <2>2. /\ IsFiniteSet(DOMAIN store \cup {id})
        /\ Cardinality(DOMAIN store \cup {id}) = Cardinality(DOMAIN store) + 1
    BY <1>3, <2>1, FS_AddElement
  <2> QED BY <1>1, <1>7, <2>2
<1>9. TypeOK'
  <2>1. store' \in [DOMAIN store' -> Contract] /\ DOMAIN store' \subseteq Nat \ {0}
    BY <1>3, <1>5, <1>6, <1>7 DEF RegistryInv, TypeOK
  <2>2. job' \in [Clients -> Job] /\ shown' \subseteq View
    BY <1>6 DEF RegistryInv, TypeOK
  <2>3. \A x \in Clients : job'[x].saving => job'[x].id \in DOMAIN store'
    BY <1>6, <1>7 DEF RegistryInv, TypeOK
  <2> QED BY <2>1, <2>2, <2>3 DEF TypeOK
<1>10. \A x \in DOMAIN store' : Sound(store'[x])
  BY <1>5, <1>7 DEF RegistryInv
<1> QED BY <1>3, <1>6, <1>7, <1>8, <1>9, <1>10 DEF RegistryInv

(* Save writes a sound copy, stale or not.                                 *)
LEMMA SaveKeepsInv ==
    ASSUME RegistryInv, NEW cl \in Clients, Save(cl)
    PROVE  RegistryInv'
<1>1. PICK id, copy, result : id = job[cl].id /\ copy = job[cl].copy /\ result = job[cl].result
  OBVIOUS
<1>2. id \in DOMAIN store /\ copy \in Contract /\ result \in Version /\ Sound(copy)
  <2>1. job[cl] # Idle
    BY DEF Save
  <2> QED BY <1>1, <2>1, JobFacts, CopiesSound DEF RegistryInv
<1>3. /\ store' = [store EXCEPT ![id] = copy]
      /\ shown' = shown \cup {[id |-> id, version |-> result]}
      /\ job' = [job EXCEPT ![cl] = Idle]
  BY <1>1 DEF Save
<1>4. DOMAIN store' = DOMAIN store /\ \A x \in DOMAIN store' : Sound(store'[x])
  BY <1>2, <1>3 DEF RegistryInv
<1>5. store' \in [DOMAIN store' -> Contract] /\ DOMAIN store' \subseteq Nat \ {0}
  BY <1>2, <1>3, <1>4 DEF RegistryInv, TypeOK
<1>6. [id |-> id, version |-> result] \in View
  BY <1>2 DEF View, RegistryInv, TypeOK
<1>7. shown' \subseteq View /\ \A view \in shown' : view.id \in DOMAIN store'
  BY <1>2, <1>3, <1>4, <1>6 DEF RegistryInv, TypeOK
<1>8. job' \in [Clients -> Job] /\ \A x \in Clients : job'[x] = Idle \/ job'[x] = job[x]
  BY <1>3 DEF RegistryInv, TypeOK, Job
<1>9. ~Idle.saving
  BY DEF Idle
<1>10. TypeOK'
  <2>1. \A x \in Clients : job'[x].saving => job'[x].id \in DOMAIN store'
    BY <1>4, <1>8, <1>9 DEF RegistryInv, TypeOK
  <2> QED BY <1>5, <1>7, <1>8, <2>1 DEF TypeOK
<1>11. \A x \in Clients : job'[x] # Idle =>
         /\ Sound(job'[x].base)
         /\ Adds(job'[x].base, job'[x].copy) \/ Publishes(job'[x].base, job'[x].copy)
  BY <1>8 DEF RegistryInv
<1> QED BY <1>4, <1>7, <1>10, <1>11 DEF RegistryInv

(* Every contract is sound, always.                                        *)
LEMMA RegistryInvariant == Spec => []RegistryInv
<1>1. RegistryInv /\ [Next]_vars => RegistryInv'
  <2> SUFFICES ASSUME RegistryInv, [Next]_vars PROVE RegistryInv'
    OBVIOUS
  <2>1. CASE UNCHANGED vars
    BY <2>1 DEF RegistryInv, TypeOK, vars
  <2>2. CASE Next
    BY <2>2, RegisterKeepsInv, AddVersionBegins, PublishBegins, SaveKeepsInv DEF Next
  <2> QED BY <2>1, <2>2
<1> QED BY <1>1, RegistryInit, PTL DEF Spec

(* The store, the copies and the responses are what the code's types say,  *)
(* and a contract that is being saved is in the store.                     *)
THEOREM RegistryTypes == Spec => []TypeOK
  BY RegistryInvariant, PTL DEF RegistryInv

(* However writers overwrite each other (memory.go:39-48), the revision of *)
(* a stored contract counts its versions and its publications.             *)
THEOREM RevisionsAccount == Spec => []RevisionAccounts
<1>1. RegistryInv => RevisionAccounts
  BY DEF RegistryInv, Sound, Accounts, RevisionAccounts
<1> QED BY <1>1, RegistryInvariant, PTL

(* An ETag names one version of a stored contract (model.go:215, 239).     *)
THEOREM TagsAreUnique == Spec => []TagsIdentify
<1>1. RegistryInv => TagsIdentify
  BY DEF RegistryInv, Sound, Tagged, TagsIdentify
<1> QED BY <1>1, RegistryInvariant, PTL

(* Neighbouring versions of a stored contract are compatible as they are   *)
(* stored, whichever copies were saved over which (model.go:209-213).      *)
THEOREM ChainsAreCompatible == Spec => []ChainCompatible
<1>1. RegistryInv => ChainCompatible
  BY DEF RegistryInv, Sound, Chained, ChainCompatible
<1> QED BY <1>1, RegistryInvariant, PTL

(* A payload that is valid for a version is valid for the next one, but    *)
(* for the changes compare does not look at, for all schemas, names and    *)
(* values (model.go:139-183 against typecheck.go:27-46, 96-111).           *)
THEOREM VersionsAreSubstitutable == Spec => []VersionsSubstitutable
<1>1. RegistryInv => VersionsSubstitutable
  <2> SUFFICES ASSUME RegistryInv, NEW id \in DOMAIN store,
                      NEW i \in 1 .. Len(store[id].versions) - 1,
                      store[id].mode # "forward",
                      ~Unchecked(store[id].versions[i].schema, store[id].versions[i + 1].schema),
                      NEW payload \in PayloadsOver(FieldsNamed(store[id].versions[i].schema)),
                      NEW saturates \in BOOLEAN,
                      Accepts(store[id].versions[i].schema, payload, saturates)
               PROVE  Accepts(store[id].versions[i + 1].schema, payload, saturates)
    BY DEF VersionsSubstitutable
  <2>1. PICK c, old, new : c = store[id] /\ old = c.versions[i].schema /\ new = c.versions[i + 1].schema
    OBVIOUS
  <2>2. Sound(c) /\ c \in Contract
    BY <2>1 DEF RegistryInv, Sound
  <2>3. i \in DOMAIN c.versions /\ i + 1 \in DOMAIN c.versions
    BY <2>1, <2>2, ContractFacts
  <2>4. old \in SchemaType /\ new \in SchemaType /\ Clean(old) /\ Clean(new)
    BY <2>1, <2>2, <2>3, ContractFacts DEF Sound
  <2>5. Compatible(old, new, c.mode)
    BY <2>1, <2>2 DEF Sound, Chained
  <2>6. Safe(old, new, c.mode)
    BY <2>4, <2>5, CompatibleWhenClean
  <2> QED BY <2>1, <2>4, <2>6, SafeMeansSubstitutable
<1> QED BY <1>1, RegistryInvariant, PTL

-----------------------------------------------------------------------------
(* The abstract history                                                    *)

HistoryOf(c) ==
    [i \in DOMAIN c.versions |-> [schema    |-> c.versions[i].schema,
                                  lifecycle |-> c.versions[i].lifecycle]]

(* The history that is stored, contract by contract.                       *)
LEMMA HistoryByContract ==
    /\ DOMAIN StoredHistory = DOMAIN store
    /\ \A id \in DOMAIN store : StoredHistory[id] = HistoryOf(store[id])
  BY DEF StoredHistory, HistoryOf

(* Adding a version appends a draft to the history.                        *)
LEMMA HistoryAdds ==
    ASSUME NEW c \in Contract, NEW s \in Submitted
    PROVE  HistoryOf(WithVersion(c, s)) =
             Append(HistoryOf(c), [schema |-> Canonical(s), lifecycle |-> "draft"])
<1>1. PICK d, n : d = WithVersion(c, s) /\ n = Len(c.versions)
  OBVIOUS
<1>2. n \in Nat /\ DOMAIN c.versions = 1 .. n
  BY <1>1, ContractFacts
<1>3. /\ d \in Contract /\ Len(d.versions) = n + 1
      /\ \A i \in 1 .. n : d.versions[i] = c.versions[i]
      /\ d.versions[n + 1] = NewVersion(c, s)
  BY <1>1, <1>2, WithVersionFacts
<1>4. DOMAIN d.versions = 1 .. n + 1
  BY <1>2, <1>3, ContractFacts
<1>5. NewVersion(c, s).schema = Canonical(s) /\ NewVersion(c, s).lifecycle = "draft"
  BY NewVersionFacts
<1> DEFINE e == [schema |-> Canonical(s), lifecycle |-> "draft"]
           h == HistoryOf(c)
           g == HistoryOf(d)
<1>6. /\ h = [i \in 1 .. n |-> h[i]] /\ g = [i \in 1 .. n + 1 |-> g[i]]
      /\ \A i \in 1 .. n : g[i] = h[i]
      /\ g[n + 1] = e
  <2>1. h = [i \in 1 .. n |-> h[i]] /\ g = [i \in 1 .. n + 1 |-> g[i]]
    BY <1>2, <1>4 DEF HistoryOf
  <2>2. \A i \in 1 .. n : g[i] = h[i]
    BY <1>2, <1>3, <1>4 DEF HistoryOf
  <2>3. g[n + 1] = e
    BY <1>2, <1>3, <1>4, <1>5 DEF HistoryOf
  <2> QED BY <2>1, <2>2, <2>3
<1> HIDE DEF e, h, g
<1>7. PICK S : (\A i \in 1 .. n : h[i] \in S) /\ e \in S
  <2>1. \A i \in 1 .. n : h[i] \in {h[j] : j \in 1 .. n} \cup {e}
    OBVIOUS
  <2> QED BY <2>1
<1>8. h \in Seq(S) /\ Len(h) = n
  BY <1>2, <1>6, <1>7
<1>9. /\ Append(h, e) \in Seq(S) /\ Len(Append(h, e)) = n + 1
      /\ Append(h, e)[n + 1] = e /\ \A i \in 1 .. n : Append(h, e)[i] = h[i]
  BY <1>7, <1>8, AppendProperties
<1>10. g = Append(h, e)
  <2>1. g \in Seq(S) /\ Len(g) = n + 1
    <3>1. \A i \in 1 .. n + 1 : g[i] \in S
      <4>1. \A i \in 1 .. n + 1 : i \in 1 .. n \/ i = n + 1
        BY <1>2
      <4> QED BY <1>6, <1>7, <4>1
    <3>2. g \in [1 .. n + 1 -> S] /\ n + 1 \in Nat
      BY <1>2, <1>6, <3>1
    <3> QED BY <3>2
  <2>2. \A i \in 1 .. n + 1 : g[i] = Append(h, e)[i]
    <3>1. \A i \in 1 .. n + 1 : i \in 1 .. n \/ i = n + 1
      BY <1>2
    <3> QED BY <1>6, <1>9, <3>1
  <2> QED BY <1>9, <2>1, <2>2, SeqEqual
<1> QED BY <1>1, <1>10 DEF g, h, e

(* Publishing changes the lifecycle of one version.                        *)
LEMMA HistoryPublishes ==
    ASSUME NEW c \in Contract, NEW k \in DOMAIN c.versions
    PROVE  HistoryOf(WithPublished(c, k)) = [HistoryOf(c) EXCEPT ![k].lifecycle = "published"]
<1>1. PICK d : d = WithPublished(c, k)
  OBVIOUS
<1>2. /\ d \in Contract /\ Len(d.versions) = Len(c.versions)
      /\ \A i \in DOMAIN c.versions : i # k => d.versions[i] = c.versions[i]
      /\ d.versions[k].lifecycle = "published" /\ d.versions[k].schema = c.versions[k].schema
  BY <1>1, WithPublishedFacts
<1>3. DOMAIN d.versions = DOMAIN c.versions
  BY <1>2, ContractFacts
<1>4. HistoryOf(d) = [HistoryOf(c) EXCEPT ![k].lifecycle = "published"]
  BY <1>2, <1>3 DEF HistoryOf
<1> QED BY <1>1, <1>4

(* A copy that is saved in time appends to the history or publishes in it. *)
LEMMA SaveIsHistory ==
    ASSUME RegistryInv, NEW cl \in Clients, Save(cl), ~Stale(cl)
    PROVE  History!Next
<1>1. PICK id, base, copy : id = job[cl].id /\ base = job[cl].base /\ copy = job[cl].copy
  OBVIOUS
<1>2. id \in DOMAIN store /\ base \in Contract /\ store[id] = base
  BY <1>1, JobFacts DEF RegistryInv, Save, Stale
<1>3. store' = [store EXCEPT ![id] = copy]
  BY <1>1 DEF Save
<1>4. StoredHistory' = [StoredHistory EXCEPT ![id] = HistoryOf(copy)]
  BY <1>2, <1>3 DEF StoredHistory, HistoryOf
<1>5. id \in DOMAIN StoredHistory /\ StoredHistory[id] = HistoryOf(base)
  BY <1>2, HistoryByContract
<1>6. CASE Adds(base, copy)
  <2>1. PICK s \in Submitted : copy = WithVersion(base, s)
    BY <1>6 DEF Adds
  <2>2. History!AddVersion(id, Canonical(s))
    BY <1>2, <1>4, <1>5, <2>1, HistoryAdds DEF History!AddVersion
  <2> QED BY <1>5, <2>2 DEF History!Next
<1>7. CASE Publishes(base, copy)
  <2>1. PICK k \in DOMAIN base.versions :
           base.versions[k].lifecycle = "draft" /\ copy = WithPublished(base, k)
    BY <1>7 DEF Publishes
  <2>2. k \in DOMAIN StoredHistory[id] /\ StoredHistory[id][k].lifecycle = "draft"
    BY <1>5, <2>1 DEF HistoryOf
  <2>3. HistoryOf(copy) = [StoredHistory[id] EXCEPT ![k].lifecycle = "published"]
    BY <1>2, <1>5, <2>1, HistoryPublishes
  <2>4. History!Publish(id, k)
    BY <1>4, <1>5, <2>2, <2>3 DEF History!Publish
  <2> QED BY <1>5, <2>2, <2>4 DEF History!Next
<1> QED BY <1>1, <1>6, <1>7 DEF RegistryInv, Save

(* Registering starts a history.                                           *)
LEMMA RegisterIsHistory ==
    ASSUME RegistryInv, NEW cl \in Clients, NEW t \in Tenants, NEW mode \in Requested,
           Register(cl, t, mode)
    PROVE  History!Next
<1>1. PICK id : id = Cardinality(DOMAIN store) + 1
  OBVIOUS
<1>2. Cardinality(DOMAIN store) \in Nat /\ DOMAIN store = 1 .. Cardinality(DOMAIN store)
  BY FS_CardinalityType DEF RegistryInv
<1>3. id \in 1 .. MaxContracts /\ id \notin DOMAIN store
  <2>1. id <= MaxContracts /\ MaxContracts \in Nat
    BY <1>1, SubmittedAssumption DEF Register
  <2> QED BY <1>1, <1>2, <2>1
<1>4. store' = [x \in DOMAIN store \cup {id} |->
                   IF x = id THEN NewContract(t, mode) ELSE store[x]]
  BY <1>1 DEF Register
<1>5. HistoryOf(NewContract(t, mode)) = <<>>
  BY DEF HistoryOf, NewContract
<1>6. StoredHistory' = [x \in DOMAIN StoredHistory \cup {id} |->
                           IF x = id THEN <<>> ELSE StoredHistory[x]]
  BY <1>3, <1>4, <1>5 DEF StoredHistory, HistoryOf
<1>7. History!Register(id)
  BY <1>3, <1>6, HistoryByContract DEF History!Register
<1> QED BY <1>3, <1>7 DEF History!Next

(* Every step but a stale Save is one of the abstract history.             *)
LEMMA StepIsHistory ==
    ASSUME RegistryInv, [Next]_vars
    PROVE  (\E cl \in Clients : Stale(cl) /\ Save(cl)) \/ [History!Next]_StoredHistory
<1>1. CASE store' = store
  BY <1>1 DEF StoredHistory
<1>2. CASE \E cl \in Clients, t \in Tenants, mode \in Requested : Register(cl, t, mode)
  BY <1>2, RegisterIsHistory
<1>3. CASE \E cl \in Clients : Save(cl)
  BY <1>3, SaveIsHistory
<1> QED BY <1>1, <1>2, <1>3 DEF Next, AddVersion, Publish, vars

(* The overwriting Save is the only way to lose a version or to take a     *)
(* publication back (memory.go:39-48, service.go:40-61).                   *)
THEOREM OnlyStaleSavesDepart == Spec => OnlyStaleSavesLose
<1>1. RegistryInv /\ [Next]_vars =>
        [(\E cl \in Clients : Stale(cl) /\ Save(cl)) \/ [History!Next]_StoredHistory]_vars
  BY StepIsHistory
<1> QED BY <1>1, RegistryInvariant, PTL DEF Spec, OnlyStaleSavesLose

OneClient == \A a, b \in Clients : a = b

(* The copy in hand of a lone client is never stale.                       *)
FreshInv == \A cl \in Clients : ~Stale(cl)

(* Nobody else moves the store on.                                         *)
LEMMA FreshInvariant ==
    ASSUME OneClient
    PROVE  Spec => []FreshInv
<1>1. Init => FreshInv
  BY DEF Init, FreshInv, Stale
<1>2. RegistryInv /\ FreshInv /\ [Next]_vars => FreshInv'
  <2> SUFFICES ASSUME RegistryInv, FreshInv, [Next]_vars PROVE FreshInv'
    OBVIOUS
  <2>1. job \in [Clients -> Job]
    BY DEF RegistryInv, TypeOK
  <2>2. ASSUME NEW cl \in Clients, job[cl] = Idle, job' = job
        PROVE  FreshInv'
    BY <2>2 DEF OneClient, FreshInv, Stale
  <2>3. ASSUME NEW cl \in Clients, NEW t \in Tenants, NEW mode \in Requested, Register(cl, t, mode)
        PROVE  FreshInv'
    BY <2>2, <2>3 DEF Register
  <2>4. ASSUME NEW cl \in Clients, store' = store, job'[cl].base = store[job'[cl].id]
        PROVE  FreshInv'
    BY <2>4 DEF OneClient, FreshInv, Stale
  <2>5. ASSUME NEW cl \in Clients, NEW t \in Tenants, NEW id \in DOMAIN store, NEW s \in Submitted,
               AddVersion(cl, t, id, s)
        PROVE  FreshInv'
    BY <2>1, <2>4, <2>5 DEF AddVersion
  <2>6. ASSUME NEW cl \in Clients, NEW t \in Tenants, NEW view \in shown, Publish(cl, t, view)
        PROVE  FreshInv'
    BY <2>1, <2>4, <2>6 DEF Publish
  <2>7. ASSUME NEW cl \in Clients, Save(cl)
        PROVE  FreshInv'
    <3>1. job'[cl] = Idle
      BY <2>1, <2>7 DEF Save
    <3> QED BY <3>1 DEF OneClient, FreshInv, Stale
  <2>8. CASE UNCHANGED vars
    BY <2>8 DEF FreshInv, Stale, vars
  <2> QED BY <2>3, <2>5, <2>6, <2>7, <2>8 DEF Next
<1> QED BY <1>1, <1>2, RegistryInvariant, PTL DEF Spec

(* Requests of one client after the other implement ContractHistory: no    *)
(* version is lost, changed or taken back.                                 *)
THEOREM SequentialImplementsHistory ==
    ASSUME OneClient
    PROVE  Spec => ImplementsHistory
<1>1. Init => History!Init
  BY DEF Init, History!Init, StoredHistory
<1>2. RegistryInv /\ FreshInv /\ [Next]_vars => [History!Next]_StoredHistory
  BY StepIsHistory DEF FreshInv
<1> QED
  BY <1>1, <1>2, RegistryInvariant, FreshInvariant, PTL DEF Spec, ImplementsHistory, History!Spec

-----------------------------------------------------------------------------
(* What readers of the store may find published                            *)

Canonicals == {Canonical(s) : s \in Submitted}

(* The bounds of a contract, and where its schemas come from.              *)
Bounded(c) ==
    /\ Len(c.versions) <= MaxVersions
    /\ \A i \in DOMAIN c.versions : c.versions[i].schema \in Canonicals

(* Every published version of a contract is among the given views.         *)
PublicationsIn(views, id, c) ==
    \A i \in PublishedOf(c) : \E v \in views :
        /\ v.id = id /\ v.version.number = i /\ v.version.lifecycle = "published"
        /\ v.version.schema = c.versions[i].schema

(* What is stored as published was shown as published; a copy adds at most *)
(* what the response to its Save will show, and is of the same tenant.     *)
PublicationInv ==
    /\ DOMAIN store \subseteq 1 .. MaxContracts
    /\ \A id \in DOMAIN store : Bounded(store[id]) /\ PublicationsIn(shown, id, store[id])
    /\ \A cl \in Clients : job[cl] # Idle =>
          LET j == job[cl] IN
          /\ j.copy.tenant = store[j.id].tenant /\ Bounded(j.copy)
          /\ PublicationsIn(shown \cup {[id |-> j.id, version |-> j.result]}, j.id, j.copy)

(* Responses take nothing back.                                            *)
LEMMA MoreViews ==
    ASSUME NEW V, NEW W, V \subseteq W, NEW id, NEW c, PublicationsIn(V, id, c)
    PROVE  PublicationsIn(W, id, c)
  BY DEF PublicationsIn

(* A new version is a draft and within the bound.                          *)
LEMMA AddsPublishNothing ==
    ASSUME NEW c \in Contract, Bounded(c), Len(c.versions) < MaxVersions, NEW s \in Submitted,
           NEW V, NEW id, PublicationsIn(V, id, c)
    PROVE  /\ WithVersion(c, s).tenant = c.tenant /\ Bounded(WithVersion(c, s))
           /\ PublicationsIn(V, id, WithVersion(c, s))
<1>1. PICK d, n, v : d = WithVersion(c, s) /\ n = Len(c.versions) /\ v = NewVersion(c, s)
  OBVIOUS
<1>2. n \in Nat /\ DOMAIN c.versions = 1 .. n /\ MaxVersions \in Nat
  BY <1>1, ContractFacts, SubmittedAssumption
<1>3. /\ d \in Contract /\ d.tenant = c.tenant /\ Len(d.versions) = n + 1
      /\ \A i \in 1 .. n : d.versions[i] = c.versions[i]
      /\ d.versions[n + 1] = v
  BY <1>1, <1>2, WithVersionFacts
<1>4. v.schema \in Canonicals /\ v.lifecycle = "draft"
  BY <1>1, NewVersionFacts DEF Canonicals
<1>5. DOMAIN d.versions = 1 .. n + 1
  BY <1>2, <1>3, ContractFacts
<1>6. \A i \in 1 .. n + 1 : i \in 1 .. n \/ i = n + 1
  BY <1>2
<1>7. Bounded(d)
  BY <1>1, <1>2, <1>3, <1>4, <1>5, <1>6 DEF Bounded
<1>8. PublicationsIn(V, id, d)
  <2>1. \A i \in PublishedOf(d) : i \in PublishedOf(c) /\ d.versions[i].schema = c.versions[i].schema
    BY <1>2, <1>3, <1>4, <1>5, <1>6 DEF PublishedOf
  <2> QED BY <2>1 DEF PublicationsIn
<1> QED BY <1>1, <1>3, <1>7, <1>8

(* A publication is the one that its response will show.                   *)
LEMMA PublishesOne ==
    ASSUME NEW c \in Contract, Bounded(c), Tagged(c), NEW k \in DOMAIN c.versions,
           NEW V, NEW id, PublicationsIn(V, id, c)
    PROVE  LET d == WithPublished(c, k) IN
           /\ d.tenant = c.tenant /\ Bounded(d)
           /\ PublicationsIn(V \cup {[id |-> id, version |-> d.versions[k]]}, id, d)
<1>1. PICK d : d = WithPublished(c, k)
  OBVIOUS
<1>2. /\ d \in Contract /\ d.tenant = c.tenant /\ Len(d.versions) = Len(c.versions)
      /\ \A i \in DOMAIN c.versions : i # k => d.versions[i] = c.versions[i]
      /\ d.versions[k].lifecycle = "published" /\ d.versions[k].schema = c.versions[k].schema
      /\ d.versions[k].number = c.versions[k].number
  BY <1>1, WithPublishedFacts
<1>3. DOMAIN d.versions = DOMAIN c.versions
  BY <1>2, ContractFacts
<1>4. Bounded(d)
  BY <1>2, <1>3 DEF Bounded
<1>5. d.versions[k].number = k
  BY <1>2 DEF Tagged
<1>6. PICK v : v = [id |-> id, version |-> d.versions[k]]
  OBVIOUS
<1>7. v.id = id /\ v.version = d.versions[k]
  BY <1>6
<1>8. PublicationsIn(V \cup {v}, id, d)
  <2> SUFFICES ASSUME NEW i \in PublishedOf(d)
               PROVE  \E w \in V \cup {v} :
                        /\ w.id = id /\ w.version.number = i /\ w.version.lifecycle = "published"
                        /\ w.version.schema = d.versions[i].schema
    BY DEF PublicationsIn
  <2>1. CASE i = k
    BY <1>2, <1>5, <1>7, <2>1
  <2>2. CASE i # k
    <3>1. i \in PublishedOf(c) /\ d.versions[i] = c.versions[i]
      BY <1>2, <1>3, <2>2 DEF PublishedOf
    <3> QED BY <3>1 DEF PublicationsIn
  <2> QED BY <2>1, <2>2
<1> QED BY <1>1, <1>2, <1>4, <1>6, <1>8

(* A goroutine takes a copy that its response will account for.            *)
LEMMA BeginPublication ==
    ASSUME RegistryInv, PublicationInv, NEW cl \in Clients, NEW id \in DOMAIN store,
           NEW copy, NEW result, copy.tenant = store[id].tenant, Bounded(copy),
           PublicationsIn(shown \cup {[id |-> id, version |-> result]}, id, copy),
           job' = [job EXCEPT ![cl] = [saving |-> TRUE, id |-> id, base |-> store[id],
                                       copy |-> copy, result |-> result]],
           UNCHANGED <<store, shown>>
    PROVE  PublicationInv'
<1>1. PICK j : j = [saving |-> TRUE, id |-> id, base |-> store[id], copy |-> copy, result |-> result]
  OBVIOUS
<1>2. j.id = id /\ j.copy = copy /\ j.result = result
  BY <1>1
<1>3. job'[cl] = j /\ \A x \in Clients : x # cl => job'[x] = job[x]
  BY <1>1 DEF RegistryInv, TypeOK
<1> QED BY <1>2, <1>3 DEF PublicationInv

(* Save shows what it stores.                                              *)
LEMMA SavePublication ==
    ASSUME RegistryInv, PublicationInv, NEW cl \in Clients, Save(cl)
    PROVE  /\ PublicationInv'
           /\ DOMAIN store' = DOMAIN store
           /\ \A x \in DOMAIN store : store'[x].tenant = store[x].tenant
<1>1. PICK id, copy, result : id = job[cl].id /\ copy = job[cl].copy /\ result = job[cl].result
  OBVIOUS
<1>2. PICK W : W = shown \cup {[id |-> id, version |-> result]}
  OBVIOUS
<1>3. job[cl] # Idle
  BY DEF Save
<1>4. /\ id \in DOMAIN store /\ copy.tenant = store[id].tenant /\ Bounded(copy)
      /\ PublicationsIn(W, id, copy)
  BY <1>1, <1>2, <1>3, JobFacts DEF RegistryInv, PublicationInv
<1>5. /\ store' = [store EXCEPT ![id] = copy] /\ shown' = W
      /\ job' = [job EXCEPT ![cl] = Idle]
  BY <1>1, <1>2 DEF Save
<1>6. /\ DOMAIN store' = DOMAIN store /\ store'[id] = copy
      /\ \A x \in DOMAIN store : x # id => store'[x] = store[x]
  BY <1>4, <1>5
<1>7. \A x \in DOMAIN store : store'[x].tenant = store[x].tenant
  BY <1>4, <1>6
<1>8. job'[cl] = Idle /\ \A x \in Clients : x # cl => job'[x] = job[x]
  BY <1>5 DEF RegistryInv, TypeOK
<1>9. \A x \in DOMAIN store' : Bounded(store'[x]) /\ PublicationsIn(W, x, store'[x])
  BY <1>2, <1>4, <1>6, MoreViews DEF PublicationInv
<1>10. ASSUME NEW x \in Clients, job'[x] # Idle
       PROVE  LET k == job'[x] IN
              /\ k.copy.tenant = store'[k.id].tenant /\ Bounded(k.copy)
              /\ PublicationsIn(W \cup {[id |-> k.id, version |-> k.result]}, k.id, k.copy)
  <2>1. PICK k : k = job[x]
    OBVIOUS
  <2>2. job'[x] = k /\ k # Idle /\ x # cl
    BY <1>8, <1>10, <2>1
  <2>3. k.id \in DOMAIN store
    BY <2>1, <2>2, JobFacts DEF RegistryInv
  <2>4. /\ k.copy.tenant = store[k.id].tenant /\ Bounded(k.copy)
        /\ PublicationsIn(shown \cup {[id |-> k.id, version |-> k.result]}, k.id, k.copy)
    BY <2>1, <2>2 DEF PublicationInv
  <2>5. PublicationsIn(W \cup {[id |-> k.id, version |-> k.result]}, k.id, k.copy)
    BY <1>2, <2>4, MoreViews
  <2> QED BY <1>7, <2>2, <2>3, <2>4, <2>5
<1> QED BY <1>5, <1>6, <1>7, <1>9, <1>10 DEF PublicationInv

(* A new contract has no version.                                          *)
LEMMA RegisterPublication ==
    ASSUME RegistryInv, PublicationInv, NEW cl \in Clients, NEW t \in Tenants,
           NEW mode \in Requested, Register(cl, t, mode)
    PROVE  /\ PublicationInv'
           /\ DOMAIN store \subseteq DOMAIN store'
           /\ \A x \in DOMAIN store : store'[x].tenant = store[x].tenant
<1>1. PICK id : id = Cardinality(DOMAIN store) + 1
  OBVIOUS
<1>2. Cardinality(DOMAIN store) \in Nat /\ DOMAIN store = 1 .. Cardinality(DOMAIN store)
  BY FS_CardinalityType DEF RegistryInv
<1>3. id \in 1 .. MaxContracts /\ id \notin DOMAIN store
  <2>1. id <= MaxContracts /\ MaxContracts \in Nat
    BY <1>1, SubmittedAssumption DEF Register
  <2> QED BY <1>1, <1>2, <2>1
<1>4. PICK c : c = NewContract(t, mode)
  OBVIOUS
<1>5. /\ store' = [x \in DOMAIN store \cup {id} |-> IF x = id THEN c ELSE store[x]]
      /\ UNCHANGED <<job, shown>>
  BY <1>1, <1>4 DEF Register
<1>6. /\ DOMAIN store' = DOMAIN store \cup {id} /\ store'[id] = c
      /\ \A x \in DOMAIN store : store'[x] = store[x]
  BY <1>3, <1>5
<1>7. c.versions = <<>>
  BY <1>4 DEF NewContract
<1>8. Bounded(c) /\ PublicationsIn(shown, id, c)
  <2>1. Len(c.versions) = 0 /\ DOMAIN c.versions = {}
    BY <1>7
  <2>2. PublishedOf(c) = {}
    BY <2>1 DEF PublishedOf
  <2>3. MaxVersions \in Nat
    BY SubmittedAssumption
  <2>4. Bounded(c)
    BY <2>1, <2>3 DEF Bounded
  <2> QED BY <2>2, <2>4 DEF PublicationsIn
<1>9. \A x \in Clients : job[x] # Idle => job[x].id \in DOMAIN store
  BY JobFacts DEF RegistryInv
<1> QED BY <1>3, <1>5, <1>6, <1>8, <1>9 DEF PublicationInv

(* Every step keeps the tenants, the views and what was shown.             *)
LEMMA PublicationStep ==
    ASSUME RegistryInv, PublicationInv, [Next]_vars
    PROVE  /\ PublicationInv'
           /\ DOMAIN store \subseteq DOMAIN store' /\ shown \subseteq shown'
           /\ \A x \in DOMAIN store : store'[x].tenant = store[x].tenant
<1>1. ASSUME NEW cl \in Clients, NEW t \in Tenants, NEW id \in DOMAIN store, NEW s \in Submitted,
             AddVersion(cl, t, id, s)
      PROVE  PublicationInv' /\ UNCHANGED <<store, shown>>
  <2>1. PICK c, copy, result : /\ c = store[id] /\ copy = WithVersion(c, s)
                               /\ result = NewVersion(c, s)
    OBVIOUS
  <2>2. /\ c \in Contract /\ Bounded(c) /\ Len(c.versions) < MaxVersions
        /\ PublicationsIn(shown, id, c)
    BY <1>1, <2>1 DEF AddVersion, RegistryInv, TypeOK, PublicationInv
  <2>3. copy.tenant = c.tenant /\ Bounded(copy) /\ PublicationsIn(shown, id, copy)
    BY <2>1, <2>2, AddsPublishNothing
  <2>4. PublicationsIn(shown \cup {[id |-> id, version |-> result]}, id, copy)
    BY <2>3, MoreViews
  <2>5. /\ job' = [job EXCEPT ![cl] = [saving |-> TRUE, id |-> id, base |-> store[id],
                                       copy |-> copy, result |-> result]]
        /\ UNCHANGED <<store, shown>>
    BY <1>1, <2>1 DEF AddVersion
  <2> QED BY <2>1, <2>3, <2>4, <2>5, BeginPublication
<1>2. ASSUME NEW cl \in Clients, NEW t \in Tenants, NEW view \in shown, Publish(cl, t, view)
      PROVE  PublicationInv' /\ UNCHANGED <<store, shown>>
  <2>1. PICK id, c : id = view.id /\ c = store[id]
    OBVIOUS
  <2>2. PICK i \in DOMAIN c.versions :
           job' = [job EXCEPT ![cl] =
                     [saving |-> TRUE, id |-> id, base |-> store[id], copy |-> WithPublished(c, i),
                      result |-> WithPublished(c, i).versions[i]]]
    BY <1>2, <2>1 DEF Publish
  <2>3. PICK copy, result : copy = WithPublished(c, i) /\ result = WithPublished(c, i).versions[i]
    OBVIOUS
  <2>4. /\ id \in DOMAIN store /\ c \in Contract /\ Tagged(c) /\ Bounded(c)
        /\ PublicationsIn(shown, id, c)
    BY <2>1 DEF RegistryInv, Sound, PublicationInv
  <2>5. /\ copy.tenant = c.tenant /\ Bounded(copy)
        /\ PublicationsIn(shown \cup {[id |-> id, version |-> result]}, id, copy)
    BY <2>3, <2>4, PublishesOne
  <2>6. UNCHANGED <<store, shown>>
    BY <1>2 DEF Publish
  <2> QED BY <2>1, <2>2, <2>3, <2>4, <2>5, <2>6, BeginPublication
<1>3. CASE UNCHANGED vars
  BY <1>3 DEF vars, PublicationInv
<1>4. ASSUME NEW cl \in Clients, NEW t \in Tenants, NEW mode \in Requested, Register(cl, t, mode)
      PROVE  shown' = shown
  BY <1>4 DEF Register
<1>5. ASSUME NEW cl \in Clients, Save(cl) PROVE shown \subseteq shown'
  BY <1>5 DEF Save
<1> QED BY <1>1, <1>2, <1>3, <1>4, <1>5, SavePublication, RegisterPublication DEF Next

(* The bounds, tenants and publications of the store, always.              *)
LEMMA PublicationInvariant == Spec => []PublicationInv
<1>1. Init => PublicationInv
  BY DEF Init, PublicationInv
<1>2. RegistryInv /\ PublicationInv /\ [Next]_vars => PublicationInv'
  BY PublicationStep
<1> QED BY <1>1, <1>2, RegistryInvariant, PTL DEF Spec

StoredWasShown == \A id \in DOMAIN store : PublicationsIn(shown, id, store[id])

(* A reader of the store never finds a version published that no client    *)
(* was told of, stale copies or not: a copy is either saved and answered   *)
(* or not seen at all (service.go:51-61, memory.go:39-48).                 *)
THEOREM PublicationsWereShown == Spec => []StoredWasShown
<1>1. PublicationInv => StoredWasShown
  BY DEF PublicationInv, StoredWasShown
<1> QED BY <1>1, PublicationInvariant, PTL
=============================================================================
