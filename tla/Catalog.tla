------------------------------ MODULE Catalog ------------------------------
(***************************************************************************)
(* What saving and deleting view tables promises, abstractly: a catalog of *)
(* saved SELECTs in which saving and removing are single steps.  A saved    *)
(* SELECT is a dataset of the catalog as well; a removal that overlaps the  *)
(* save of the same name may leave the relation and only forget the        *)
(* dataset.                                                                *)
(***************************************************************************)
EXTENDS SequencesExt

CONSTANTS Names, Bases, Sources, Absent

VARIABLES relations,  \* the view defined under each name, or Absent
          datasets    \* the source each name is listed with, or Absent

catalogVars == <<relations, datasets>>

\* What a SELECT may read: tables and generated views, and defined views.
Readable == Bases \cup {n \in Names : relations[n] # Absent}

Init == /\ relations = [n \in Names |-> Absent]
        /\ datasets = [n \in Names |-> Absent]

\* A source is saved under a name, in place of one whose columns it extends.
Save(n, s) ==
  /\ s.reads \subseteq Readable
  /\ relations[n] # Absent => IsPrefix(relations[n].columns, s.columns)
  /\ relations' = [relations EXCEPT ![n] = s]
  /\ datasets' = [datasets EXCEPT ![n] = s]

\* A name nobody else reads is removed.
Delete(n) ==
  /\ \A m \in Names \ {n} : relations[m] # Absent => n \notin relations[m].reads
  /\ relations' = [relations EXCEPT ![n] = Absent]
  /\ datasets' = [datasets EXCEPT ![n] = Absent]

\* The dataset of a name is forgotten while its relation stays.
Forget(n) == /\ datasets' = [datasets EXCEPT ![n] = Absent]
             /\ UNCHANGED relations

Next == \E n \in Names : Delete(n) \/ Forget(n) \/ \E s \in Sources : Save(n, s)

CatalogSpec == Init /\ [][Next]_catalogVars
=============================================================================
