---------------------------- MODULE ClassMapping ----------------------------
(***************************************************************************)
(* What number a class gets (src/class_mapping.py). Torchvision's          *)
(* ImageFolder numbers the directories it finds; a client's share, or a    *)
(* tree that is not finished, does not have them all.                      *)
(***************************************************************************)
EXTENDS Integers, FiniteSets

CONSTANT
  Classes      \* class directories of the source dataset

ASSUME ClassesAssumption == IsFiniteSet(Classes)

VARIABLE
  naming       \* [rank, digits]: a name's place in sorted order, the number in it

NoDigits == -1

\* How ImageFolder numbers the directories of one tree.
ImageFolderMap(names) ==
  [n \in names |-> Cardinality({m \in names : naming.rank[m] < naming.rank[n]})]

\* Every name has a number in it and no two have the same.
Numeric(names) ==
  /\ \A n \in names : naming.digits[n] # NoDigits
  /\ \A m, n \in names : naming.digits[m] = naming.digits[n] => m = n

CanonicalMap(names) ==
  IF Numeric(names) THEN [n \in names |-> naming.digits[n]] ELSE ImageFolderMap(names)

\* Mutant: ImageFolder's own numbers.
NotRemapped(names) == ImageFolderMap(names)

\* The labels ModelManagerExt gives a client's directories.
RemappedMap(names) == [n \in names |-> CanonicalMap(Classes)[n]]

\* assert_canonical_labels, which only knows the tree it is given.
AcceptedAsIs(names) == ImageFolderMap(names) = CanonicalMap(names)

NamingInit(namings) == naming \in namings
=============================================================================
