------------------------------ MODULE ListPool ------------------------------
(***************************************************************************)
(* What lab4/sltest.c relies on: a pool of lists, each operation on one of *)
(* them indivisible.  Every element is inserted once into the list its key *)
(* hashes to; later, once for every element, something is looked up in     *)
(* that list and deleted.  The lookup takes whatever element comes first,  *)
(* not the one whose turn it is, so an element's owner may find its own    *)
(* element gone; what may not happen is that it finds nothing.             *)
(***************************************************************************)
EXTENDS FiniteSets, Integers

CONSTANTS
  Elements,
  Lists,
  ListOf       \* ListOf[e]: the list that e's key hashes to

(* What the constants are: finitely many keys, each of which has a list.   *)
Hashing == IsFiniteSet(Elements) /\ ListOf \in [Elements -> Lists]

VARIABLES
  content,     \* content[l]: the elements that list l holds
  inserted,    \* the elements that have been inserted
  served,      \* the elements whose turn to look up and delete is over
  failed       \* those among them that found their list empty

vars == <<content, inserted, served, failed>>

Init ==
  /\ content = [l \in Lists |-> {}]
  /\ inserted = {}
  /\ served = {}
  /\ failed = {}

Insert(e) ==
  /\ e \in Elements \ inserted
  /\ content' = [content EXCEPT ![ListOf[e]] = @ \cup {e}]
  /\ inserted' = inserted \cup {e}
  /\ UNCHANGED <<served, failed>>

(* It is e's turn, and target is what the lookup returns.                  *)
Delete(e, target) ==
  /\ e \in inserted \ served
  /\ target \in content[ListOf[e]]
  /\ content' = [content EXCEPT ![ListOf[e]] = @ \ {target}]
  /\ served' = served \cup {e}
  /\ UNCHANGED <<inserted, failed>>

FindNothing(e) ==
  /\ e \in inserted \ served
  /\ content[ListOf[e]] = {}
  /\ served' = served \cup {e}
  /\ failed' = failed \cup {e}
  /\ UNCHANGED <<content, inserted>>

Turn(e) ==
  IF content[ListOf[e]] = {}
  THEN FindNothing(e)
  ELSE \E target \in content[ListOf[e]] : Delete(e, target)

Next == \E e \in Elements : Insert(e) \/ Turn(e)

Spec == Init /\ [][Next]_vars

-----------------------------------------------------------------------------
TypeOK ==
  /\ content \in [Lists -> SUBSET Elements]
  /\ inserted \in SUBSET Elements
  /\ served \in SUBSET inserted
  /\ failed \in SUBSET served

Of(S, l) == {e \in S : ListOf[e] = l}

(* No turn finds its list empty: the branch "should never be here" of      *)
(* sltest.c:241 is dead.                                                   *)
NeverEmptyHanded == failed = {}

(* Each list holds exactly as many elements as turns on it are to come, so *)
(* that in the end all of them are empty (sltest.c:463).                   *)
Balanced ==
  \A l \in Lists : Cardinality(content[l]) =
                     Cardinality(Of(inserted, l)) - Cardinality(Of(served, l))
=============================================================================
