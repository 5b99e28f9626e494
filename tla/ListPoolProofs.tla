--------------------------- MODULE ListPoolProofs ---------------------------
(***************************************************************************)
(* No lookup of sltest finds its list empty, for any elements, lists and   *)
(* hash function.                                                          *)
(***************************************************************************)
EXTENDS ListPool, FiniteSetTheorems, TLAPS

(* A list holds nothing that has not been inserted.                        *)
Inside == \A l \in Lists : content[l] \subseteq inserted

(* Whichever element a lookup takes, one is gone and one turn is over, so  *)
(* counting suffices: a turn that is still to come on list l, being one of *)
(* the Balanced many, leaves content[l] something.                         *)
IInv == TypeOK /\ Inside /\ Balanced /\ NeverEmptyHanded

LEMMA PartsFinite ==
  ASSUME Hashing, TypeOK, NEW l \in Lists
  PROVE  /\ IsFiniteSet(content[l])
         /\ IsFiniteSet(Of(inserted, l))
         /\ IsFiniteSet(Of(served, l))
<1>1. content[l] \in SUBSET Elements
  BY DEF TypeOK
<1>2. Of(inserted, l) \in SUBSET Elements /\ Of(served, l) \in SUBSET Elements
  BY DEF TypeOK, Of
<1> QED BY <1>1, <1>2, FS_Subset DEF Hashing

LEMMA InitIInv == Init => IInv
<1> SUFFICES ASSUME Init PROVE IInv
  OBVIOUS
<1>1. TypeOK /\ Inside /\ NeverEmptyHanded
  BY DEF Init, TypeOK, Inside, NeverEmptyHanded
<1>2. ASSUME NEW l \in Lists
      PROVE  Cardinality(content[l]) =
               Cardinality(Of(inserted, l)) - Cardinality(Of(served, l))
  <2>1. content[l] = {} /\ Of(inserted, l) = {} /\ Of(served, l) = {}
    BY DEF Init, Of
  <2>2. Cardinality({}) = 0
    BY FS_EmptySet
  <2> QED BY <2>1, <2>2
<1> QED BY <1>1, <1>2 DEF IInv, Balanced

LEMMA InsertKeepsIInv ==
  ASSUME Hashing, IInv, NEW e \in Elements, Insert(e)
  PROVE  IInv'
<1> USE DEF IInv
<1>1. e \notin inserted /\ e \notin served /\ ListOf[e] \in Lists
  BY DEF Hashing, Insert, TypeOK
<1>2. TypeOK' /\ Inside' /\ NeverEmptyHanded'
  BY <1>1 DEF Insert, TypeOK, Inside, NeverEmptyHanded
<1>3. ASSUME NEW l \in Lists
      PROVE  Cardinality(content'[l]) =
               Cardinality(Of(inserted', l)) - Cardinality(Of(served', l))
  <2>1. /\ IsFiniteSet(content[l]) /\ IsFiniteSet(Of(inserted, l))
        /\ IsFiniteSet(Of(served, l))
    BY PartsFinite
  <2>2. Of(served', l) = Of(served, l)
    BY DEF Insert
  <2>3. Cardinality(content[l]) =
          Cardinality(Of(inserted, l)) - Cardinality(Of(served, l))
    BY DEF Balanced
  <2>4. CASE l = ListOf[e]
    <3>1. /\ content'[l] = content[l] \cup {e}
          /\ Of(inserted', l) = Of(inserted, l) \cup {e}
      BY <2>4 DEF Insert, TypeOK, Of
    <3>2. e \notin content[l] /\ e \notin Of(inserted, l)
      BY <1>1 DEF Inside, Of
    <3>3. /\ Cardinality(content'[l]) = Cardinality(content[l]) + 1
          /\ Cardinality(Of(inserted', l)) = Cardinality(Of(inserted, l)) + 1
      BY <2>1, <3>1, <3>2, FS_AddElement
    <3>4. /\ Cardinality(Of(inserted, l)) \in Nat
          /\ Cardinality(Of(served, l)) \in Nat
      BY <2>1, FS_CardinalityType
    <3> QED BY <2>2, <2>3, <3>3, <3>4
  <2>5. CASE l # ListOf[e]
    <3>1. content'[l] = content[l] /\ Of(inserted', l) = Of(inserted, l)
      BY <2>5 DEF Insert, TypeOK, Of
    <3> QED BY <2>2, <2>3, <3>1
  <2> QED BY <2>4, <2>5
<1> QED BY <1>2, <1>3 DEF Balanced

LEMMA DeleteKeepsIInv ==
  ASSUME Hashing, IInv, NEW e \in Elements, NEW target \in content[ListOf[e]],
         Delete(e, target)
  PROVE  IInv'
<1> USE DEF IInv
<1>1. e \in inserted /\ e \notin served /\ ListOf[e] \in Lists
  BY DEF Hashing, Delete, TypeOK
<1>2. TypeOK' /\ Inside' /\ NeverEmptyHanded'
  BY <1>1 DEF Delete, TypeOK, Inside, NeverEmptyHanded
<1>3. ASSUME NEW l \in Lists
      PROVE  Cardinality(content'[l]) =
               Cardinality(Of(inserted', l)) - Cardinality(Of(served', l))
  <2>1. /\ IsFiniteSet(content[l]) /\ IsFiniteSet(Of(inserted, l))
        /\ IsFiniteSet(Of(served, l))
    BY PartsFinite
  <2>2. Of(inserted', l) = Of(inserted, l)
    BY DEF Delete
  <2>3. Cardinality(content[l]) =
          Cardinality(Of(inserted, l)) - Cardinality(Of(served, l))
    BY DEF Balanced
  <2>4. CASE l = ListOf[e]
    <3>1. /\ content'[l] = content[l] \ {target}
          /\ Of(served', l) = Of(served, l) \cup {e}
      BY <2>4 DEF Delete, TypeOK, Of
    <3>2. target \in content[l] /\ e \notin Of(served, l)
      BY <1>1, <2>4 DEF Of
    <3>3. Cardinality(content'[l]) = Cardinality(content[l]) - 1
      BY <2>1, <3>1, <3>2, FS_RemoveElement
    <3>4. Cardinality(Of(served', l)) = Cardinality(Of(served, l)) + 1
      BY <2>1, <3>1, <3>2, FS_AddElement
    <3>5. /\ Cardinality(Of(inserted, l)) \in Nat
          /\ Cardinality(Of(served, l)) \in Nat
      BY <2>1, FS_CardinalityType
    <3> QED BY <2>2, <2>3, <3>3, <3>4, <3>5
  <2>5. CASE l # ListOf[e]
    <3>1. content'[l] = content[l] /\ Of(served', l) = Of(served, l)
      BY <2>5 DEF Delete, TypeOK, Of
    <3> QED BY <2>2, <2>3, <3>1
  <2> QED BY <2>4, <2>5
<1> QED BY <1>2, <1>3 DEF Balanced

(* A turn that is still to come finds something.                           *)
LEMMA SomethingLeft ==
  ASSUME Hashing, IInv, NEW e \in Elements, e \in inserted \ served
  PROVE  content[ListOf[e]] # {}
<1> USE DEF IInv
<1> DEFINE l == ListOf[e]
<1>1. l \in Lists
  BY DEF Hashing
<1>2. /\ IsFiniteSet(content[l]) /\ IsFiniteSet(Of(inserted, l))
      /\ IsFiniteSet(Of(served, l))
  BY <1>1, PartsFinite
<1>3. Of(served, l) \subseteq Of(inserted, l) \ {e}
  BY DEF TypeOK, Of
<1>4. e \in Of(inserted, l)
  BY DEF Of
<1>5. /\ IsFiniteSet(Of(inserted, l) \ {e})
      /\ Cardinality(Of(inserted, l) \ {e}) = Cardinality(Of(inserted, l)) - 1
  BY <1>2, <1>4, FS_RemoveElement
<1>6. Cardinality(Of(served, l)) <= Cardinality(Of(inserted, l) \ {e})
  BY <1>3, <1>5, FS_Subset
<1>7. /\ Cardinality(Of(inserted, l)) \in Nat
      /\ Cardinality(Of(served, l)) \in Nat
  BY <1>2, FS_CardinalityType
<1>8. Cardinality(content[l]) =
        Cardinality(Of(inserted, l)) - Cardinality(Of(served, l))
  BY <1>1 DEF Balanced
<1>9. Cardinality(content[l]) > 0
  BY <1>5, <1>6, <1>7, <1>8
<1>10. Cardinality({}) = 0
  BY FS_EmptySet
<1> QED BY <1>9, <1>10

LEMMA NextKeepsIInv ==
  ASSUME Hashing
  PROVE  IInv /\ [Next]_vars => IInv'
<1> SUFFICES ASSUME IInv, [Next]_vars PROVE IInv'
  OBVIOUS
<1>1. ASSUME NEW e \in Elements, Insert(e) PROVE IInv'
  BY <1>1, InsertKeepsIInv
<1>2. ASSUME NEW e \in Elements, Turn(e) PROVE IInv'
  <2>1. CASE content[ListOf[e]] = {}
    BY <1>2, <2>1, SomethingLeft DEF Turn, FindNothing
  <2>2. CASE content[ListOf[e]] # {}
    BY <1>2, <2>2, DeleteKeepsIInv DEF Turn
  <2> QED BY <2>1, <2>2
<1>3. CASE UNCHANGED vars
  BY <1>3 DEF vars, IInv, TypeOK, Inside, Balanced, NeverEmptyHanded, Of
<1> QED BY <1>1, <1>2, <1>3 DEF Next

LEMMA Inductive ==
  ASSUME Hashing
  PROVE  Spec => []IInv
<1>1. IInv /\ [Next]_vars => IInv'
  BY NextKeepsIInv
<1> QED BY InitIInv, <1>1, PTL DEF Spec

(* No turn finds its list empty.                                           *)
THEOREM LookupsFindSomething ==
  ASSUME Hashing
  PROVE  Spec => []NeverEmptyHanded
<1>1. IInv => NeverEmptyHanded
  BY DEF IInv
<1> QED BY Inductive, <1>1, PTL

(* Each list holds as many elements as turns on it are to come.            *)
THEOREM ListsBalanced ==
  ASSUME Hashing
  PROVE  Spec => []Balanced
<1>1. IInv => Balanced
  BY DEF IInv
<1> QED BY Inductive, <1>1, PTL
=============================================================================
