---------------------- MODULE DatasetPreparation_proof ----------------------
(***************************************************************************)
(* For every dataset and every sequence of requests and crashes: what is   *)
(* drawn for a file of the test set depends on image and condition alone   *)
(* wherever the corruption draws from the seeded generator, a finished     *)
(* build is complete, and a split keeps signs together, handles each image *)
(* once and holds out what it was asked to.  A class has one label in the  *)
(* trees that lack others.                                                 *)
(***************************************************************************)
EXTENDS DatasetPreparation, SequenceTheorems, FiniteSetTheorems, FunctionTheorems,
        WellFoundedInduction, TLAPS

-----------------------------------------------------------------------------
\* A finite set has a subset of every size up to its own.
LEMMA SubsetOfSize ==
  ASSUME NEW S, IsFiniteSet(S), NEW n \in 0 .. Cardinality(S)
  PROVE  \E T \in SUBSET S : Cardinality(T) = n
<1>1. /\ Cardinality(S) \in Nat
      /\ ExistsBijection(1 .. Cardinality(S), S)
  BY FS_CardinalityType
<1>2. PICK f : f \in Bijection(1 .. Cardinality(S), S)
  BY <1>1 DEF ExistsBijection
<1> DEFINE R == 1 .. n
           T == Range(Restrict(f, R))
<1>3. R \in SUBSET (1 .. Cardinality(S))
  BY <1>1
<1>4. Restrict(f, R) \in Bijection(R, T)
  BY <1>2, <1>3, Fun_BijRestrict
<1>5. IsFiniteSet(R) /\ Cardinality(R) = n
  <2>1. IsFiniteSet(1 .. n) /\ Cardinality(1 .. n) = IF 1 > n THEN 0 ELSE n - 1 + 1
    BY <1>1, FS_Interval
  <2> QED  BY <2>1, <1>1
<1>6. Cardinality(T) = n
  <2>1. ExistsBijection(R, T)
    BY <1>4 DEF ExistsBijection
  <2> QED  BY <2>1, <1>5, FS_Bijection
<1>7. T \subseteq S
  <2>1. f \in [1 .. Cardinality(S) -> S]
    BY <1>2, Fun_BijectionProperties
  <2> QED  BY <2>1, <1>3 DEF Range, Restrict
<1> QED  BY <1>6, <1>7

\* A share in proportion is no more than the whole.
LEMMA ShareOfWhole ==
  ASSUME NEW s \in Nat, NEW n \in Nat, NEW T \in Nat, s < T
  PROVE  /\ s * n \in Nat
         /\ (s * n) \div T \in Nat
         /\ (s * n) \div T <= n
         /\ s * n >= T => (s * n) \div T >= 1
<1> DEFINE p == s * n
           q == p \div T
<1>1. p \in Nat
  OBVIOUS
<1>2. q \in Int /\ T * q <= p /\ p < T * q + T
  <2> HIDE DEF p
  <2> QED  BY <1>1
<1>3. q >= 0
  <2>1. SUFFICES ASSUME q <= -1 PROVE FALSE
    BY <1>2
  <2>2. T * q <= T * (-1)
    BY <2>1, <1>2
  <2> QED  BY <2>2, <1>2, <1>1
<1>4. q <= n
  <2>1. SUFFICES ASSUME q >= n + 1 PROVE FALSE
    BY <1>2
  <2>2. T * q >= T * (n + 1)
    BY <2>1, <1>2
  <2>3. p <= T * n
    OBVIOUS
  <2>4. T * (n + 1) = T * n + T
    OBVIOUS
  <2> QED  BY <2>2, <2>3, <2>4, <1>2
<1>5. p >= T => q >= 1
  <2>1. SUFFICES ASSUME p >= T, q = 0 PROVE FALSE
    BY <1>2, <1>3
  <2> QED  BY <2>1, <1>2
<1> QED  BY <1>1, <1>2, <1>3, <1>4, <1>5

-----------------------------------------------------------------------------
Asked == order \in BuildRequests /\ test_set \in TestSets

\* Every class of the test set gets at least one image, and no more than it has.
LEMMA EveryClassKept ==
  ASSUME Asked, NEW c \in TestClasses
  PROVE  Allocation[c] \in 1 .. Cardinality(InClass(c))
<1> DEFINE count == Cardinality(InClass(c))
           exact == order.size * count
           share == IF exact < Total THEN 1 ELSE exact \div Total
<1>1. IsFiniteSet(DOMAIN test_set) /\ order.size \in Nat
  BY BuildAssumption DEF Asked
<1>2. Total \in Nat
  BY <1>1, FS_CardinalityType DEF Total
<1>3. IsFiniteSet(InClass(c)) /\ count <= Total
  BY <1>1, FS_Subset DEF InClass, Total
<1>4. count \in Nat /\ count # 0
  BY <1>3, FS_CardinalityType, FS_EmptySet DEF TestClasses
<1>5. order.size < Total => share \in 1 .. count
  <2> HIDE DEF count
  <2>1. SUFFICES ASSUME order.size < Total PROVE share \in 1 .. count
    OBVIOUS
  <2>2. /\ exact \in Nat
        /\ exact \div Total \in Nat
        /\ exact \div Total <= count
        /\ exact >= Total => exact \div Total >= 1
    BY <2>1, <1>1, <1>2, <1>4, ShareOfWhole
  <2> HIDE DEF exact
  <2> QED  BY <2>2, <1>2, <1>4
<1>6. \/ order.size >= Total /\ Allocation[c] = count
      \/ /\ order.size < Total
         /\ \/ share < count /\ Allocation[c] = share + 1
            \/ share > 1 /\ Allocation[c] = share - 1
            \/ Allocation[c] = share
  BY <1>1, <1>2 DEF Allocation
<1>7. Allocation[c] \in 1 .. count
  <2> HIDE DEF share, count
  <2> QED  BY <1>1, <1>2, <1>4, <1>5, <1>6
<1> QED  BY <1>7

LEMMA SubsampleDrawn ==
  ASSUME Asked
  PROVE  /\ Subsample \subseteq DOMAIN test_set
         /\ \A c \in TestClasses : Subsample \cap InClass(c) # {}
<1> DEFINE pick(c) == CHOOSE S \in SUBSET InClass(c) : Cardinality(S) = Allocation[c]
<1>1. ASSUME NEW c \in TestClasses
      PROVE  pick(c) \in SUBSET InClass(c) /\ pick(c) # {}
  <2>1. IsFiniteSet(InClass(c))
    BY BuildAssumption, FS_Subset DEF Asked, InClass
  <2>2. Cardinality(InClass(c)) \in Nat
    BY <2>1, FS_CardinalityType
  <2>3. Allocation[c] \in 1 .. Cardinality(InClass(c))
    BY EveryClassKept
  <2>4. \E S \in SUBSET InClass(c) : Cardinality(S) = Allocation[c]
    BY <2>1, <2>2, <2>3, SubsetOfSize
  <2>5. pick(c) \in SUBSET InClass(c) /\ Cardinality(pick(c)) = Allocation[c]
    BY <2>4
  <2>6. Cardinality({}) = 0
    BY FS_EmptySet
  <2> HIDE DEF pick
  <2>7. Cardinality(pick(c)) # Cardinality({})
    BY <2>2, <2>3, <2>5, <2>6
  <2> QED  BY <2>5, <2>7
<1>2. Subsample = UNION {pick(c) : c \in TestClasses}
  BY DEF Subsample
<1> HIDE DEF pick
<1> QED  BY <1>1, <1>2 DEF InClass

-----------------------------------------------------------------------------
Whole(files, condition, i) ==
  <<condition, i>> \in DOMAIN files /\ files[<<condition, i>>] # Truncated

\* Where the conditions of image i are: still to come, at a worker, or on disk.
Accounted(i) ==
  \/ i \in queue
  \/ \E w \in DOMAIN working : working[w].image = i
  \/ \A n \in DOMAIN Conditions(order) : Whole(content, Conditions(order)[n], i)

AtWork ==
  building = "pool" =>
    /\ queue \subseteq DOMAIN test_set
    /\ \A w \in DOMAIN working : working[w].image # NoImage =>
         /\ working[w].next \in DOMAIN Conditions(order)
         /\ \A n \in DOMAIN Conditions(order) :
              n < working[w].next => Whole(content, Conditions(order)[n], working[w].image)
    /\ \A i \in Subsample : Accounted(i)

Complete ==
  building = "done" =>
    /\ manifest = AsSet(Conditions(order))
    /\ \A condition \in manifest, i \in Subsample : Whole(content, condition, i)

\* What a file holds once it is saved, when nothing but its image and its
\* condition has a say.
Settled(file) ==
  IF file[1] = "clean" THEN <<"resized">>
  ELSE IF file[1] \in DrawsGlobal THEN Seed(file[2], file[1])
  ELSE <<"nothing">>

AsSettled == \A x \in written : x.file[1] \notin DrawsOwn => x.what = Settled(x.file)

\* A worker that has seeded has done so for the file it is at.
SeededInv ==
  /\ DOMAIN working = DOMAIN generator
  /\ \A w \in DOMAIN working :
       /\ DOMAIN working[w] = {"image", "next", "seeded"}
       /\ working[w].seeded \in BOOLEAN
       /\ building = "pool" /\ working[w].seeded
            => At(w)[1] # "clean" /\ generator[w] = Seed(At(w)[2], At(w)[1])

BuildInv == Asked /\ AsSettled /\ SeededInv /\ AtWork /\ Complete

LEMMA ConditionsType ==
  ASSUME Asked
  PROVE  /\ Conditions(order) \in Seq(Corruptions \cup {"clean"})
         /\ Len(Conditions(order)) \in Nat \ {0}
         /\ DOMAIN Conditions(order) = 1 .. Len(Conditions(order))
<1> DEFINE S == Corruptions \cup {"clean"}
           clean == <<"clean">>
<1>1. order.corruptions \in Seq(S)
  <2>1. order.corruptions \in Seq(Corruptions)
    BY BuildAssumption DEF Asked
  <2> QED  BY <2>1
<1>2. clean \in Seq(S) /\ Len(clean) = 1
  OBVIOUS
<1>3. Conditions(order) = clean \o order.corruptions
  BY DEF Conditions
<1> HIDE DEF S, clean
<1>4. Conditions(order) \in Seq(S) /\ Len(Conditions(order)) = 1 + Len(order.corruptions)
  <2>1. /\ clean \o order.corruptions \in Seq(S)
        /\ Len(clean \o order.corruptions) = Len(clean) + Len(order.corruptions)
    BY <1>1, <1>2, ConcatProperties, Zenon
  <2> QED  BY <1>2, <1>3, <2>1
<1> QED  BY <1>1, <1>4 DEF S

LEMMA SubsampleStays ==
  ASSUME UNCHANGED <<naming, test_set, order>>
  PROVE  Subsample' = Subsample
  BY DEF Subsample, Allocation, TestClasses, InClass, Total

\* A file that is saved holds what it was saved with, the others what they held.
LEMMA SaveSaves ==
  ASSUME NEW w, NEW what, Save(w, what)
  PROVE  /\ DOMAIN content' = DOMAIN content \cup {At(w)}
         /\ \A f \in DOMAIN content : f # At(w) => content'[f] = content[f]
         /\ content'[At(w)] = what
  BY DEF Save, Saved

LEMMA NotTruncated ==
  ASSUME NEW i, NEW condition
  PROVE  /\ <<"resized">> # Truncated
         /\ <<"nothing">> # Truncated
         /\ <<"entropy", i>> # Truncated
         /\ Seed(i, condition) # Truncated
<1>1. <<"resized">>[1] # <<"truncated">>[1] /\ <<"nothing">>[1] # <<"truncated">>[1]
  OBVIOUS
<1>2. /\ Len(<<"seed", i, condition>>) # Len(<<"truncated">>)
      /\ Len(<<"entropy", i>>) # Len(<<"truncated">>)
  OBVIOUS
<1> QED  BY <1>1, <1>2 DEF Truncated, Seed

\* A worker saves the file it is at, whole, and unless the corruption draws from
\* a generator of its own, with what image and condition settle.
LEMMA SavesSettled ==
  ASSUME BuildInv, NEW w \in DOMAIN working, SaveClean(w) \/ CorruptAndSave(w)
  PROVE  /\ AtImage(w)
         /\ DOMAIN generator' = DOMAIN generator
         /\ \A v \in DOMAIN generator : v # w => generator'[v] = generator[v]
         /\ \E what : /\ Save(w, what)
                      /\ what # Truncated
                      /\ At(w)[1] \notin DrawsOwn => what = Settled(At(w))
<1>1. CASE SaveClean(w)
  <2>1. AtImage(w) /\ Save(w, <<"resized">>) /\ generator' = generator
    BY <1>1 DEF SaveClean
  <2>2. <<"resized">> = Settled(At(w))
    BY <1>1 DEF SaveClean, Settled
  <2> QED  BY <2>1, <2>2, NotTruncated
<1>2. CASE CorruptAndSave(w)
  <2>1. /\ AtImage(w) /\ working[w].seeded /\ building = "pool"
        /\ generator' = [generator EXCEPT ![w] = Left(At(w)[1], generator[w])]
    BY <1>2 DEF CorruptAndSave, AtImage
  <2>2. PICK what \in Draws(At(w)[1], generator[w]) : Save(w, what)
    BY <1>2 DEF CorruptAndSave
  <2>3. At(w)[1] # "clean" /\ generator[w] = Seed(At(w)[2], At(w)[1])
    BY <2>1 DEF BuildInv, SeededInv
  <2>4. /\ what # Truncated
        /\ At(w)[1] \notin DrawsOwn => what = Settled(At(w))
    <3> DEFINE c == At(w)[1]
    <3>1. CASE c \in DrawsGlobal
      <4>0. c \notin DrawsOwn
        BY <3>1, BuildAssumption
      <4>1. what = Seed(At(w)[2], c)
        BY <2>2, <2>3, <3>1, <4>0 DEF Draws
      <4> QED  BY <2>3, <3>1, <4>1, NotTruncated DEF Settled
    <3>2. CASE c \in DrawsOwn
      <4>1. c \notin DrawsGlobal
        BY <3>2, BuildAssumption
      <4>2. PICK e \in Entropy : what = <<"entropy", e>>
        BY <2>2, <3>2, <4>1 DEF Draws
      <4> QED  BY <3>2, <4>2, NotTruncated
    <3>3. CASE c \notin DrawsGlobal /\ c \notin DrawsOwn
      <4>1. what = <<"nothing">>
        BY <2>2, <3>3 DEF Draws
      <4> QED  BY <2>3, <3>3, <4>1, NotTruncated DEF Settled
    <3> QED  BY <3>1, <3>2, <3>3
  <2> QED  BY <2>1, <2>2, <2>4
<1> QED  BY <1>1, <1>2

LEMMA SaveKeepsWhole ==
  ASSUME NEW w, NEW what, Save(w, what), what # Truncated, NEW condition, NEW i,
         Whole(content, condition, i) \/ <<condition, i>> = At(w)
  PROVE  Whole(content', condition, i)
<1>1. /\ DOMAIN content' = DOMAIN content \cup {At(w)}
      /\ \A f \in DOMAIN content : f # At(w) => content'[f] = content[f]
      /\ content'[At(w)] = what
  BY SaveSaves
<1> QED  BY <1>1 DEF Whole

-----------------------------------------------------------------------------
\* A step that leaves the files and what is at work alone.
LEMMA BuildUntouched ==
  ASSUME BuildInv, UNCHANGED <<naming, test_set, order, content, queue, working, manifest>>,
         UNCHANGED <<generator, written, building>>
  PROVE  BuildInv'
<1>1. Subsample' = Subsample
  BY SubsampleStays
<1>2. AsSettled' /\ SeededInv'
  BY DEF BuildInv, AsSettled, Settled, SeededInv, Seed, At, Conditions
<1>3. AtWork' /\ Complete'
  BY <1>1 DEF BuildInv, AtWork, Complete, Accounted, Whole, Truncated, Conditions, AsSet
<1> QED  BY <1>2, <1>3 DEF BuildInv, Asked

LEMMA TakeTaskKeeps ==
  ASSUME BuildInv, UNCHANGED naming, NEW w \in DOMAIN working, TakeTask(w)
  PROVE  BuildInv'
<1>1. PICK i \in queue : /\ queue' = queue \ {i}
                         /\ working' = [working EXCEPT ![w] =
                              [image |-> i, next |-> 1, seeded |-> FALSE]]
  BY DEF TakeTask, Free
<1>2. /\ building = "pool" /\ building' = "pool" /\ working[w].image = NoImage
      /\ UNCHANGED <<naming, test_set, order, content, generator, manifest, written>>
  BY DEF TakeTask
<1>3. AtWork
  BY DEF BuildInv
<1>4. i # NoImage
  BY <1>2, <1>3, BuildAssumption DEF AtWork, BuildInv, Asked
<1>5. DOMAIN Conditions(order) = 1 .. Len(Conditions(order)) /\ 1 \in DOMAIN Conditions(order)
  BY ConditionsType DEF BuildInv
<1>6. Subsample' = Subsample /\ Conditions(order)' = Conditions(order)
  BY <1>2, SubsampleStays DEF Conditions
<1>7. content' = content
  BY <1>2
<1>8. ASSUME NEW v \in DOMAIN working', working'[v].image # NoImage
      PROVE  /\ working'[v].next \in DOMAIN Conditions(order)
             /\ \A n \in DOMAIN Conditions(order) :
                  n < working'[v].next => Whole(content, Conditions(order)[n], working'[v].image)
  <2>1. CASE v = w
    BY <1>1, <1>5, <2>1
  <2>2. CASE v # w
    BY <1>1, <1>2, <1>3, <1>8, <2>2 DEF AtWork
  <2> QED  BY <2>1, <2>2
<1>9. ASSUME NEW j \in Subsample
      PROVE  \/ j \in queue'
             \/ \E v \in DOMAIN working' : working'[v].image = j
             \/ \A n \in DOMAIN Conditions(order) : Whole(content, Conditions(order)[n], j)
  <2>1. Accounted(j) /\ j # NoImage
    BY <1>2, <1>3, SubsampleDrawn, BuildAssumption DEF AtWork, BuildInv, Asked
  <2>2. CASE j = i
    BY <1>1, <2>2
  <2>3. CASE j # i /\ j \in queue
    BY <1>1, <2>3
  <2>4. ASSUME NEW v \in DOMAIN working, working[v].image = j
        PROVE  v \in DOMAIN working' /\ working'[v].image = j
    BY <1>1, <1>2, <2>1, <2>4
  <2> QED  BY <2>1, <2>2, <2>3, <2>4 DEF Accounted
<1>10. AtWork'
  BY <1>1, <1>2, <1>3, <1>6, <1>7, <1>8, <1>9 DEF AtWork, Accounted
<1>11. AsSettled' /\ Complete' /\ Asked'
  BY <1>2 DEF BuildInv, AsSettled, Settled, Complete, Seed, Asked
<1>12. SeededInv'
  <2>1. DOMAIN working' = DOMAIN generator'
    BY <1>1, <1>2 DEF BuildInv, SeededInv
  <2>2. ASSUME NEW v \in DOMAIN working'
        PROVE  /\ DOMAIN working'[v] = {"image", "next", "seeded"}
               /\ working'[v].seeded \in BOOLEAN
               /\ working'[v].seeded => v # w
    BY <1>1, <2>2 DEF BuildInv, SeededInv
  <2>3. ASSUME NEW v \in DOMAIN working', v # w
        PROVE  v \in DOMAIN working /\ At(v)' = At(v) /\ working'[v] = working[v]
    BY <1>1, <1>6, <2>3 DEF At
  <2>4. ASSUME NEW v \in DOMAIN working', working'[v].seeded
        PROVE  At(v)'[1] # "clean" /\ generator'[v] = Seed(At(v)'[2], At(v)'[1])
    BY <1>2, <2>2, <2>3, <2>4 DEF BuildInv, SeededInv
  <2> QED  BY <2>1, <2>2, <2>4 DEF SeededInv, Seed
<1> QED  BY <1>10, <1>11, <1>12 DEF BuildInv

LEMMA SeedKeeps ==
  ASSUME BuildInv, UNCHANGED naming, NEW w \in DOMAIN working, SeedGenerator(w)
  PROVE  BuildInv'
<1>1. /\ building = "pool" /\ At(w)[1] # "clean"
      /\ UNCHANGED <<naming, test_set, order, building, content, queue, manifest, written>>
  BY DEF SeedGenerator, AtImage
<1>2. /\ generator' = [generator EXCEPT ![w] = Seed(At(w)[2], At(w)[1])]
      /\ working' = [working EXCEPT ![w].seeded = TRUE]
  BY DEF SeedGenerator
<1>3. DOMAIN working' = DOMAIN working /\ DOMAIN generator' = DOMAIN generator
  BY <1>2
<1>4. ASSUME NEW v \in DOMAIN working
      PROVE  /\ working'[v].image = working[v].image /\ working'[v].next = working[v].next
             /\ DOMAIN working'[v] = {"image", "next", "seeded"}
             /\ working'[v].seeded = (v = w \/ working[v].seeded)
  <2>1. DOMAIN working[v] = {"image", "next", "seeded"} /\ working[v].seeded \in BOOLEAN
    BY DEF BuildInv, SeededInv
  <2>2. CASE v = w
    BY <1>2, <2>1, <2>2
  <2>3. CASE v # w
    BY <1>2, <2>1, <2>3
  <2> QED  BY <2>2, <2>3
<1>5. Subsample' = Subsample /\ Conditions(order)' = Conditions(order)
  BY <1>1, SubsampleStays DEF Conditions
<1>6. AtWork'
  BY <1>1, <1>3, <1>4, <1>5 DEF BuildInv, AtWork, Accounted, Whole, Truncated
<1>7. AsSettled' /\ Complete' /\ Asked'
  BY <1>1 DEF BuildInv, AsSettled, Settled, Complete, Seed, Asked
<1>8. SeededInv'
  <2>1. ASSUME NEW v \in DOMAIN working PROVE At(v)' = At(v)
    BY <1>4, <1>5 DEF At
  <2>2. ASSUME NEW v \in DOMAIN working, working'[v].seeded
        PROVE  At(v)[1] # "clean" /\ generator'[v] = Seed(At(v)[2], At(v)[1])
    <3>1. CASE v = w
      BY <1>1, <1>2, <3>1 DEF BuildInv, SeededInv
    <3>2. CASE v # w
      <4>1. working[v].seeded /\ v \in DOMAIN generator
        BY <1>4, <2>2, <3>2 DEF BuildInv, SeededInv
      <4> QED  BY <1>1, <1>2, <3>2, <4>1 DEF BuildInv, SeededInv
    <3> QED  BY <3>1, <3>2
  <2>3. ASSUME NEW v \in DOMAIN working PROVE working'[v].seeded \in BOOLEAN
    BY <1>4 DEF BuildInv, SeededInv
  <2>4. DOMAIN working' = DOMAIN generator'
    BY <1>3 DEF BuildInv, SeededInv
  <2> QED  BY <1>3, <1>4, <2>1, <2>2, <2>3, <2>4 DEF SeededInv, Seed
<1> QED  BY <1>6, <1>7, <1>8 DEF BuildInv


LEMMA SaveKeeps ==
  ASSUME BuildInv, UNCHANGED naming, NEW w \in DOMAIN working,
         SaveClean(w) \/ CorruptAndSave(w)
  PROVE  BuildInv'
<1> DEFINE list == Conditions(order)
           at == working[w].next
           free == [image |-> NoImage, next |-> 1, seeded |-> FALSE]
<1>0. PICK what : /\ Save(w, what)
                  /\ what # Truncated
                  /\ At(w)[1] \notin DrawsOwn => what = Settled(At(w))
  BY SavesSettled
<1>1. /\ building = "pool" /\ building' = "pool" /\ working[w].image # NoImage
      /\ UNCHANGED <<naming, test_set, order, queue, manifest>>
  <2>1. AtImage(w)
    BY SavesSettled
  <2> QED  BY <1>0, <2>1 DEF Save, AtImage
<1>2. working' = [working EXCEPT ![w] =
        IF at = Len(list) THEN free
        ELSE [image |-> working[w].image, next |-> at + 1, seeded |-> FALSE]]
  BY <1>0 DEF Save, Free
<1>3. AtWork /\ Asked
  BY DEF BuildInv
<1>4. /\ DOMAIN list = 1 .. Len(list) /\ Len(list) \in Nat \ {0}
      /\ at \in 1 .. Len(list)
      /\ \A n \in 1 .. Len(list) : n < at => Whole(content, list[n], working[w].image)
  <2>1. DOMAIN list = 1 .. Len(list) /\ Len(list) \in Nat \ {0}
    BY <1>3, ConditionsType
  <2> QED  BY <1>1, <1>3, <2>1 DEF AtWork
<1>5. Subsample' = Subsample /\ Conditions(order)' = Conditions(order)
  BY <1>1, SubsampleStays DEF Conditions
<1>6. ASSUME NEW condition, NEW j,
             \/ Whole(content, condition, j)
             \/ condition = list[at] /\ j = working[w].image
      PROVE  Whole(content', condition, j)
  <2>1. Whole(content, condition, j) \/ <<condition, j>> = At(w)
    BY <1>6 DEF At
  <2> QED  BY <1>0, <2>1, SaveKeepsWhole
<1> HIDE DEF list, at
<1>7. \A n \in 1 .. Len(list) : n <= at => Whole(content', list[n], working[w].image)
  <2> SUFFICES ASSUME NEW n \in 1 .. Len(list), n <= at
               PROVE  Whole(content', list[n], working[w].image)
    OBVIOUS
  <2>1. CASE n < at
    BY <1>4, <1>6, <2>1
  <2>2. CASE n = at
    BY <1>6, <2>2
  <2> QED  BY <1>4, <2>1, <2>2
<1>8. ASSUME NEW v \in DOMAIN working', working'[v].image # NoImage
      PROVE  /\ working'[v].next \in 1 .. Len(list)
             /\ \A n \in 1 .. Len(list) :
                  n < working'[v].next => Whole(content', list[n], working'[v].image)
  <2>1. CASE v = w
    <3>1. at # Len(list) /\ working'[v].image = working[w].image /\ working'[v].next = at + 1
      BY <1>2, <1>8, <2>1
    <3>2. at + 1 \in 1 .. Len(list) /\ \A n \in 1 .. Len(list) : n < at + 1 => n <= at
      <4> DEFINE N == Len(list)
      <4>1. N \in Nat /\ at \in 1 .. N /\ at # N
        BY <1>4, <3>1
      <4> HIDE DEF N
      <4>2. at + 1 \in 1 .. N /\ \A n \in 1 .. N : n < at + 1 => n <= at
        BY <4>1
      <4> QED  BY <4>2 DEF N
    <3>3. \A n \in 1 .. Len(list) : n < at + 1 => Whole(content', list[n], working[w].image)
      BY <1>7, <3>2
    <3> QED  BY <3>1, <3>2, <3>3
  <2>2. CASE v # w
    <3>1. v \in DOMAIN working /\ working'[v] = working[v]
      BY <1>2, <2>2
    <3>2. /\ working[v].next \in 1 .. Len(list)
          /\ \A n \in 1 .. Len(list) :
               n < working[v].next => Whole(content, list[n], working[v].image)
      BY <1>1, <1>3, <1>4, <1>8, <3>1 DEF AtWork, list
    <3> QED  BY <1>6, <3>1, <3>2
  <2> QED  BY <2>1, <2>2
<1>9. ASSUME NEW j \in Subsample
      PROVE  \/ j \in queue
             \/ \E v \in DOMAIN working' : working'[v].image = j
             \/ \A n \in 1 .. Len(list) : Whole(content', list[n], j)
  <2>1. \/ j \in queue
        \/ \E v \in DOMAIN working : working[v].image = j
        \/ \A n \in 1 .. Len(list) : Whole(content, list[n], j)
    BY <1>1, <1>3, <1>4 DEF AtWork, Accounted, list
  <2>2. CASE \A n \in 1 .. Len(list) : Whole(content, list[n], j)
    BY <1>6, <2>2
  <2>3. ASSUME NEW v \in DOMAIN working, working[v].image = j, v # w
        PROVE  v \in DOMAIN working' /\ working'[v].image = j
    BY <1>2, <2>3
  <2>4. CASE working[w].image = j
    <3>1. CASE at = Len(list)
      BY <1>4, <1>7, <2>4, <3>1
    <3>2. CASE at # Len(list)
      BY <1>2, <2>4, <3>2
    <3> QED  BY <3>1, <3>2
  <2> QED  BY <2>1, <2>2, <2>3, <2>4
<1>10. AtWork'
  BY <1>1, <1>3, <1>4, <1>5, <1>8, <1>9 DEF AtWork, Accounted, list
<1>11. AsSettled'
  <2>1. written' = written \cup {[file |-> At(w), what |-> what]}
    BY <1>0 DEF Save
  <2>2. ASSUME NEW x \in written', x.file[1] \notin DrawsOwn PROVE x.what = Settled(x.file)
    <3>1. CASE x \in written
      BY <2>2, <3>1 DEF BuildInv, AsSettled
    <3>2. CASE x = [file |-> At(w), what |-> what]
      BY <1>0, <2>2, <3>2
    <3> QED  BY <2>1, <3>1, <3>2
  <2> QED  BY <2>2 DEF AsSettled, Settled, Seed
<1>12. SeededInv'
  <2>1. /\ DOMAIN generator' = DOMAIN generator
        /\ \A v \in DOMAIN generator : v # w => generator'[v] = generator[v]
    BY SavesSettled
  <2>2. DOMAIN working' = DOMAIN working /\ ~ working'[w].seeded
    BY <1>2
  <2>3. ASSUME NEW v \in DOMAIN working
        PROVE  /\ DOMAIN working'[v] = {"image", "next", "seeded"}
               /\ working'[v].seeded \in BOOLEAN
    BY <1>2 DEF BuildInv, SeededInv
  <2>4. ASSUME NEW v \in DOMAIN working, working'[v].seeded
        PROVE  At(v)'[1] # "clean" /\ generator'[v] = Seed(At(v)'[2], At(v)'[1])
    <3>1. v # w /\ working'[v] = working[v]
      BY <1>2, <2>2, <2>4
    <3>2. At(v)' = At(v)
      BY <1>5, <3>1 DEF At
    <3>3. v \in DOMAIN generator
      BY DEF BuildInv, SeededInv
    <3> QED  BY <1>1, <2>1, <2>4, <3>1, <3>2, <3>3 DEF BuildInv, SeededInv
  <2>5. DOMAIN working' = DOMAIN generator'
    BY <2>1, <2>2 DEF BuildInv, SeededInv
  <2> QED  BY <2>2, <2>3, <2>4, <2>5 DEF SeededInv, Seed
<1>13. Complete' /\ Asked'
  BY <1>1, <1>3 DEF Complete, Asked
<1> QED  BY <1>10, <1>11, <1>12, <1>13 DEF BuildInv

LEMMA BuildInvInit ==
  Init => BuildInv
<1> SUFFICES ASSUME Init PROVE BuildInv
  OBVIOUS
<1>1. order \in BuildRequests
  BY BuildAssumption DEF Init, BuildInit
<1>2. written = {} /\ DOMAIN working = {} /\ DOMAIN generator = {}
  BY DEF Init, BuildInit
<1> QED
  BY <1>1, <1>2
  DEF Init, BuildInit, BuildInv, Asked, AsSettled, SeededInv, AtWork, Complete

LEMMA BuildStep ==
  ASSUME BuildInv, [Next]_vars
  PROVE  BuildInv'
<1>1. CASE Split \/ UNCHANGED vars
  <2>1. /\ UNCHANGED <<naming, test_set, order, content, queue, working, manifest>>
        /\ UNCHANGED <<generator, written, building>>
    BY <1>1 DEF Split, SplitNext, vars, buildVars
  <2> QED  BY <2>1, BuildUntouched
<1>2. ASSUME BuildNext PROVE BuildInv'
  <2>1. UNCHANGED naming
    BY <1>2 DEF BuildNext
  <2>2. CASE StartBuild
    <3>1. Asked' /\ building' = "dirs" /\ UNCHANGED <<working, generator, written>>
      BY <2>2 DEF StartBuild, BuildInv, Asked
    <3> QED
      BY <3>1 DEF BuildInv, AtWork, Complete, AsSettled, Settled, SeededInv, Seed
  <2>3. CASE MakeDir
    <3>1. /\ UNCHANGED <<naming, test_set, order, content, queue, working, manifest>>
          /\ UNCHANGED <<generator, written, building>>
      BY <2>1, <2>3 DEF MakeDir
    <3> QED  BY <3>1, BuildUntouched
  <2>4. CASE StartPool
    <3>1. /\ UNCHANGED <<naming, test_set, order, content, manifest, written>>
          /\ building' = "pool" /\ queue' = Subsample
          /\ working' = [w \in 1 .. order.jobs |->
                          [image |-> NoImage, next |-> 1, seeded |-> FALSE]]
          /\ DOMAIN generator' = 1 .. order.jobs
      BY <2>1, <2>4 DEF StartPool, Free
    <3>2. Subsample' = Subsample /\ Asked /\ Asked'
      BY <3>1, SubsampleStays DEF BuildInv, Asked
    <3>3. Subsample \subseteq DOMAIN test_set
      BY <3>2, SubsampleDrawn
    <3>4. \A w \in DOMAIN working' :
            /\ working'[w].image = NoImage /\ working'[w].seeded = FALSE
            /\ DOMAIN working'[w] = {"image", "next", "seeded"}
      BY <3>1
    <3>5. SeededInv'
      BY <3>1, <3>4 DEF SeededInv
    <3>6. AsSettled'
      BY <3>1 DEF BuildInv, AsSettled, Settled, Seed
    <3> QED
      BY <3>1, <3>2, <3>3, <3>4, <3>5, <3>6 DEF BuildInv, AtWork, Accounted, Complete
  <2>5. ASSUME NEW w \in DOMAIN working, TakeTask(w) PROVE BuildInv'
    BY <2>1, <2>5, TakeTaskKeeps
  <2>6. ASSUME NEW w \in DOMAIN working, SaveClean(w) \/ CorruptAndSave(w) PROVE BuildInv'
    BY <2>1, <2>6, SaveKeeps
  <2>9. ASSUME NEW w \in DOMAIN working, SeedGenerator(w) PROVE BuildInv'
    BY <2>1, <2>9, SeedKeeps
  <2>7. CASE WriteManifest
    <3>1. /\ UNCHANGED <<naming, test_set, order, content, working, generator, written>>
          /\ building = "pool" /\ building' = "done" /\ manifest' = AsSet(Conditions(order))
          /\ queue = {} /\ \A w \in DOMAIN working : working[w].image = NoImage
      BY <2>1, <2>7 DEF WriteManifest, PoolDrained
    <3>2. Subsample' = Subsample /\ Asked /\ Asked' /\ AsSet(Conditions(order))' = manifest'
      BY <3>1, SubsampleStays DEF BuildInv, Asked, AsSet, Conditions
    <3>3. ASSUME NEW i \in Subsample, NEW condition \in AsSet(Conditions(order))
          PROVE  Whole(content, condition, i)
      <4>1. i # NoImage
        BY <3>2, SubsampleDrawn, BuildAssumption DEF Asked
      <4>2. Accounted(i)
        BY <3>1 DEF BuildInv, AtWork
      <4>3. \A n \in DOMAIN Conditions(order) : Whole(content, Conditions(order)[n], i)
        BY <3>1, <4>1, <4>2 DEF Accounted
      <4> QED  BY <4>3 DEF AsSet
    <3>4. Complete'
      BY <3>1, <3>2, <3>3 DEF Complete
    <3>5. SeededInv' /\ AsSettled'
      BY <3>1 DEF BuildInv, SeededInv, AsSettled, Settled, Seed
    <3> QED  BY <3>1, <3>2, <3>4, <3>5 DEF BuildInv, AtWork
  <2>8. CASE KillBuild
    <3>1. /\ Asked' /\ building' = "idle" /\ written' = written
          /\ DOMAIN working' = {} /\ DOMAIN generator' = {}
      BY <2>8 DEF KillBuild, BuildInv, Asked
    <3>2. AsSettled' /\ SeededInv'
      BY <3>1 DEF BuildInv, AsSettled, Settled, Seed, SeededInv
    <3> QED  BY <3>1, <3>2 DEF BuildInv, AtWork, Complete
  <2> QED  BY <1>2, <2>2, <2>3, <2>4, <2>5, <2>6, <2>7, <2>8, <2>9 DEF BuildNext
<1> QED  BY <1>1, <1>2 DEF Next, Build

LEMMA BuildInvariance ==
  Spec => []BuildInv
<1>1. Init => BuildInv
  BY BuildInvInit
<1>2. BuildInv /\ [Next]_vars => BuildInv'
  BY BuildStep
<1> QED  BY <1>1, <1>2, PTL DEF Spec

\* Two files saved for one image and one condition, by whichever workers of
\* whichever builds and after whatever those workers drew before, hold the same,
\* of every condition that does not draw from a generator of its own: a worker
\* seeds the global one between taking a file up and corrupting it, and nobody
\* else touches it meanwhile.
THEOREM WorkersDoNotShow ==
  Spec => []SameWheneverBuilt
<1>1. BuildInv => SameWheneverBuilt
  BY DEF BuildInv, AsSettled, SameWheneverBuilt
<1> QED  BY <1>1, BuildInvariance, PTL

\* A build that comes to its end is complete, whatever died before it, and its
\* subsample has every class, however rare and however small the sample.
THEOREM BuildsAreComplete ==
  Spec => []FinishedIsComplete
<1>1. BuildInv => FinishedIsComplete
  BY SubsampleDrawn DEF BuildInv, Complete, FinishedIsComplete, Whole
<1> QED  BY <1>1, BuildInvariance, PTL

-----------------------------------------------------------------------------
\* The splitter.
LEMMA LeastNat ==
  ASSUME NEW T, T \subseteq Nat, T # {}
  PROVE  \E n \in T : \A m \in T : n <= m
<1>1. PICK n \in T : \A m \in T : ~ (<<m, n>> \in OpToRel(<, Nat))
  BY NatLessThanWellFounded, WFMin
<1>2. ASSUME NEW m \in T PROVE n <= m
  <2>1. SUFFICES ASSUME m < n PROVE FALSE
    OBVIOUS
  <2>2. <<m, n>> \in OpToRel(<, Nat)
    BY <2>1 DEF OpToRel
  <2> QED  BY <1>1, <2>2
<1> QED  BY <1>2

\* The atoms of the split that is asked for.
TheUnits == Units(IF request.strategy = "dirichlet" THEN request.unit ELSE "image")

LEMMA UnitsDisjoint ==
  ASSUME NEW u \in TheUnits
  PROVE  /\ u # {} /\ u \subseteq DOMAIN Source
         /\ \A v \in TheUnits : u \cap v # {} => u = v
         /\ ClassOf(u) \in Classes
<1>1. u # {} /\ u \subseteq DOMAIN Source
  BY DEF TheUnits, Units
<1>2. \A v \in TheUnits : u \cap v # {} => u = v
  BY DEF TheUnits, Units
<1>3. ClassOf(u) \in Classes
  BY <1>1, SplitAssumption DEF ClassOf
<1> QED  BY <1>1, <1>2, <1>3

LEMMA UnitsFinite ==
  IsFiniteSet(TheUnits)
<1>1. IsFiniteSet(SUBSET DOMAIN Source)
  BY SplitAssumption, FS_SUBSET
<1>2. TheUnits \subseteq SUBSET DOMAIN Source
  BY DEF TheUnits, Units
<1> QED  BY <1>1, <1>2, FS_Subset

\* How many buckets there are.
Clients == IF request.strategy = "dirichlet" THEN request.clients ELSE EffectiveClients

LEMMA ClientsType ==
  ASSUME request \in SplitRequests
  PROVE  Clients \in Nat
<1>1. request.clients \in Nat
  BY SplitAssumption
<1> DEFINE images == Units("image")
           counts == {Cardinality(OfClass(images, c)) : c \in ClassesOf(images)}
<1>2. counts \subseteq Nat
  <2>1. IsFiniteSet(images)
    <3>1. IsFiniteSet(SUBSET DOMAIN Source)
      BY SplitAssumption, FS_SUBSET
    <3>2. images \subseteq SUBSET DOMAIN Source
      BY DEF Units
    <3> QED  BY <3>1, <3>2, FS_Subset
  <2>2. ASSUME NEW c \in ClassesOf(images) PROVE Cardinality(OfClass(images, c)) \in Nat
    <3>1. OfClass(images, c) \subseteq images
      BY DEF OfClass
    <3> QED  BY <2>1, <3>1, FS_Subset, FS_CardinalityType
  <2> HIDE DEF images
  <2> QED  BY <2>2
<1>3. \E n \in counts \cup {request.clients} :
        \A m \in counts \cup {request.clients} : n <= m
  <2> HIDE DEF counts
  <2> QED  BY <1>1, <1>2, LeastNat
<1>4. EffectiveClients \in counts \cup {request.clients}
  BY <1>3 DEF EffectiveClients
<1> HIDE DEF counts
<1> QED  BY <1>1, <1>2, <1>4 DEF Clients

\* Cutting a permutation into consecutive chunks neither loses nor repeats.
LEMMA ChunksPartition ==
  ASSUME NEW own, IsFiniteSet(own), request.clients \in Nat \ {0},
         NEW places \in Orders(own), NEW cuts \in Cuts(Cardinality(own))
  PROVE  /\ \A k \in 1 .. request.clients : Chunk(places, cuts, k) \subseteq own
         /\ \A u \in own : \E k \in 1 .. request.clients : u \in Chunk(places, cuts, k)
         /\ \A j, k \in 1 .. request.clients :
              j # k => Chunk(places, cuts, j) \cap Chunk(places, cuts, k) = {}
<1> DEFINE n == Cardinality(own)
           N == request.clients
           I == 1 .. n
           In(i, k) == (k # 1 => cuts[k - 1] < i) /\ (k # N => i <= cuts[k])
<1>1. n \in Nat
  BY FS_CardinalityType
<1>2. places \in [I -> own]
  BY DEF Orders
<1>3. \A u \in own : \E i \in I : \A j \in I : places[j] = u <=> j = i
  BY <1>2 DEF Orders
<1>4. /\ cuts \in [1 .. N - 1 -> 0 .. n]
      /\ \A j, k \in 1 .. N - 1 : j <= k => cuts[j] <= cuts[k]
  BY DEF Cuts
<1>5. \A k : Chunk(places, cuts, k) = {places[i] : i \in {j \in I : In(j, k)}}
  BY <1>2 DEF Chunk
<1>6. ASSUME NEW i \in I PROVE \E k \in 1 .. N : In(i, k)
  <2> DEFINE K == {k \in 1 .. N : k = N \/ i <= cuts[k]}
  <2>1. K \subseteq Nat /\ N \in K
    OBVIOUS
  <2>2. PICK k \in K : \A m \in K : k <= m
    <3> HIDE DEF K
    <3> QED  BY <2>1, LeastNat
  <2>3. k # 1 => cuts[k - 1] < i
    <3> SUFFICES ASSUME k # 1 PROVE cuts[k - 1] < i
      OBVIOUS
    <3>1. k \in 1 .. N /\ k - 1 \in 1 .. N - 1
      OBVIOUS
    <3>2. k - 1 \notin K
      BY <2>2, <3>1
    <3>3. cuts[k - 1] \in 0 .. n
      BY <1>4, <3>1
    <3> QED  BY <1>1, <3>1, <3>2, <3>3
  <2> QED  BY <2>3
<1>7. ASSUME NEW i \in I, NEW j \in 1 .. N, NEW k \in 1 .. N, j < k, In(i, j), In(i, k)
      PROVE  FALSE
  <2>1. j \in 1 .. N - 1 /\ k - 1 \in 1 .. N - 1 /\ j <= k - 1 /\ j # N /\ k # 1
    BY <1>7
  <2>2. cuts[j] \in 0 .. n /\ cuts[k - 1] \in 0 .. n /\ cuts[j] <= cuts[k - 1]
    BY <1>4, <2>1
  <2>3. i <= cuts[j] /\ cuts[k - 1] < i
    BY <1>7, <2>1
  <2> QED  BY <1>1, <2>2, <2>3
<1> HIDE DEF In, I
<1>8. \A j, k \in 1 .. N : j # k => Chunk(places, cuts, j) \cap Chunk(places, cuts, k) = {}
  <2> SUFFICES ASSUME NEW j \in 1 .. N, NEW k \in 1 .. N, j # k,
                      NEW u \in Chunk(places, cuts, j), u \in Chunk(places, cuts, k)
               PROVE  FALSE
    OBVIOUS
  <2>1. PICK a \in I, b \in I : In(a, j) /\ In(b, k) /\ places[a] = u /\ places[b] = u
    BY <1>5
  <2>2. a = b
    BY <1>2, <1>3, <2>1
  <2>3. j < k \/ k < j
    OBVIOUS
  <2> QED  BY <1>7, <2>1, <2>2, <2>3
<1>9. \A u \in own : \E k \in 1 .. N : u \in Chunk(places, cuts, k)
  BY <1>3, <1>5, <1>6
<1> QED  BY <1>2, <1>5, <1>8, <1>9

-----------------------------------------------------------------------------
\* The units that have been dealt are each in one bucket, the others are of
\* classes still to come.
Dealt ==
  /\ DOMAIN buckets = 1 .. Clients
  /\ kept \subseteq TheUnits
  /\ \A k \in 1 .. Clients : \A u \in buckets[k] : u \in kept /\ ClassOf(u) \notin todo
  /\ \A j, k \in 1 .. Clients : j # k => buckets[j] \cap buckets[k] = {}
  /\ \A u \in kept : ClassOf(u) \in todo \/ \E k \in 1 .. Clients : u \in buckets[k]
  /\ todo \subseteq Classes

\* Unit u of client k is on disk.
Written(k, u) ==
  /\ k \in 1 .. Clients /\ u \in buckets[k]
  /\ k < client \/ (splitting = "valid" /\ k = client /\ u \notin held_out)

\* The files are those of the units written, each unit in one place.
OnDisk ==
  /\ \A f \in Handled : /\ f = [client |-> f.client, side |-> f.side, image |-> f.image]
                     /\ \E u \in kept : Written(f.client, u) /\ f.image \in u
  /\ \A k \in 1 .. Clients, u \in kept : Written(k, u) =>
       \A i \in u : \E f \in Handled : f.image = i
  /\ \A u \in kept : \A f, g \in Handled : f.image \in u /\ g.image \in u =>
       f.client = g.client /\ f.side = g.side

SplitInv ==
  /\ request \in SplitRequests
  /\ splitting \in {"idle", "clearing", "limiting", "drawing", "train", "valid", "done", "failed"}
  /\ splitting \in {"limiting", "drawing"} => tree = {} /\ skipped = {}
  /\ splitting = "clearing" => skipped = {}
  /\ splitting = "drawing" => Clients >= 1
  /\ splitting \in {"drawing", "train", "valid", "done"} => Dealt
  /\ splitting \in {"train", "valid", "done"} => todo = {} /\ OnDisk
  /\ splitting \in {"train", "valid"} => client \in 1 .. Clients
  /\ splitting = "valid" => held_out \subseteq buckets[client]
  /\ splitting = "done" => \A k \in 1 .. Clients : k < client

\* A class is dealt when its units are shared out as `part` says.
LEMMA DealClass ==
  ASSUME Dealt, NEW c \in todo, NEW part,
         \A k \in 1 .. Clients : part[k] \subseteq OfClass(kept, c),
         \A u \in OfClass(kept, c) : \E k \in 1 .. Clients : u \in part[k],
         \A j, k \in 1 .. Clients : j # k => part[j] \cap part[k] = {},
         buckets' = [k \in DOMAIN buckets |-> buckets[k] \cup part[k]],
         todo' = todo \ {c}, UNCHANGED <<request, kept>>
  PROVE  Dealt'
<1>1. TheUnits' = TheUnits /\ Clients' = Clients
  BY DEF TheUnits, Units, Clients, EffectiveClients, ClassesOf, ClassOf, OfClass
<1>2. \A k \in 1 .. Clients : buckets'[k] = buckets[k] \cup part[k]
  BY DEF Dealt
<1>3. \A u \in OfClass(kept, c) : u \in kept /\ ClassOf(u) = c
  BY DEF OfClass
<1>4. ASSUME NEW k \in 1 .. Clients, NEW u \in buckets'[k]
      PROVE  u \in kept /\ ClassOf(u) \notin todo'
  BY <1>2, <1>3 DEF Dealt
<1>5. ASSUME NEW j \in 1 .. Clients, NEW k \in 1 .. Clients, j # k,
             NEW u \in buckets'[j], u \in buckets'[k]
      PROVE  FALSE
  <2>1. u \notin part[j] \/ u \notin part[k]
    BY <1>5
  <2>2. u \notin buckets[j] \/ u \notin buckets[k]
    BY <1>5 DEF Dealt
  <2>3. ASSUME NEW h \in 1 .. Clients, NEW i \in 1 .. Clients, u \in part[h], u \in buckets[i]
        PROVE  FALSE
    <3>1. ClassOf(u) = c
      BY <1>3, <2>3
    <3> QED  BY <2>3, <3>1 DEF Dealt
  <2> QED  BY <1>2, <1>5, <2>1, <2>2, <2>3
<1>6. ASSUME NEW u \in kept
      PROVE  ClassOf(u) \in todo' \/ \E k \in 1 .. Clients : u \in buckets'[k]
  <2>1. CASE ClassOf(u) = c
    BY <1>2, <2>1 DEF OfClass
  <2>2. CASE ClassOf(u) # c
    BY <1>2, <2>2 DEF Dealt
  <2> QED  BY <2>1, <2>2
<1>7. \A u : ClassOf(u)' = ClassOf(u)
  BY DEF ClassOf
<1>8. DOMAIN buckets' = 1 .. Clients /\ todo' \subseteq Classes /\ kept \subseteq TheUnits
  BY DEF Dealt
<1> QED  BY <1>1, <1>4, <1>5, <1>6, <1>7, <1>8 DEF Dealt

\* Copying handles every file, whichever images are not found.
LEMMA CopyHandles ==
  ASSUME NEW k, NEW side, NEW us, Copy(k, side, us)
  PROVE  Handled' = Handled \cup Files(k, side, us)
  BY DEF Copy, Handled

\* Writing units of the client that were not written yet.
LEMMA CopyUnits ==
  ASSUME request \in SplitRequests, Dealt, OnDisk, client \in 1 .. Clients,
         NEW side, NEW us \in SUBSET buckets[client],
         \A u \in us : ~ Written(client, u),
         Handled' = Handled \cup Files(client, side, us),
         UNCHANGED <<request, kept, buckets>>,
         \A k \in 1 .. Clients, u \in kept :
           Written(k, u)' <=> Written(k, u) \/ (k = client /\ u \in us)
  PROVE  OnDisk'
<1>1. Clients' = Clients
  BY DEF Clients, EffectiveClients, Units, ClassesOf, ClassOf, OfClass
<1>2. us \subseteq kept /\ kept \subseteq TheUnits
  BY DEF Dealt
<1>3. ASSUME NEW f \in Files(client, side, us)
      PROVE  /\ f = [client |-> client, side |-> side, image |-> f.image]
             /\ f.client = client /\ f.side = side
             /\ \E u \in us : f.image \in u
  BY DEF Files
<1>4. \A u \in us : \A i \in u : [client |-> client, side |-> side, image |-> i] \in Handled'
  BY DEF Files
<1>5. ASSUME NEW f \in Handled'
      PROVE  /\ f = [client |-> f.client, side |-> f.side, image |-> f.image]
             /\ \E u \in kept : Written(f.client, u)' /\ f.image \in u
  <2>1. CASE f \in Handled
    <3>1. PICK u \in kept : Written(f.client, u) /\ f.image \in u
      BY <2>1 DEF OnDisk
    <3>2. f.client \in 1 .. Clients
      BY <3>1 DEF Written
    <3> QED  BY <2>1, <3>1, <3>2 DEF OnDisk
  <2>2. CASE f \in Files(client, side, us)
    BY <1>2, <1>3, <2>2
  <2> QED  BY <2>1, <2>2
<1>6. ASSUME NEW k \in 1 .. Clients, NEW u \in kept, Written(k, u)', NEW i \in u
      PROVE  \E f \in Handled' : f.image = i
  <2>1. CASE Written(k, u)
    BY <2>1 DEF OnDisk
  <2>2. CASE k = client /\ u \in us
    <3>1. [client |-> client, side |-> side, image |-> i] \in Handled'
      BY <1>4, <2>2
    <3> QED  BY <3>1
  <2> QED  BY <1>6, <2>1, <2>2
<1>7. ASSUME NEW u \in kept, NEW f \in Handled, NEW g \in Files(client, side, us),
             f.image \in u, g.image \in u
      PROVE  FALSE
  <2>1. PICK v \in us : g.image \in v
    BY <1>3
  <2>2. PICK w \in kept : Written(f.client, w) /\ f.image \in w
    BY DEF OnDisk
  <2>3. u = v /\ u = w
    BY <1>2, <1>7, <2>1, <2>2, UnitsDisjoint
  <2>4. f.client \in 1 .. Clients /\ u \in buckets[f.client] /\ u \in buckets[client]
    BY <2>1, <2>2, <2>3 DEF Written
  <2>5. f.client = client
    BY <2>4 DEF Dealt
  <2> QED  BY <2>1, <2>2, <2>3, <2>5
<1>8. ASSUME NEW u \in kept, NEW f \in Handled', NEW g \in Handled', f.image \in u, g.image \in u
      PROVE  f.client = g.client /\ f.side = g.side
  <2>1. CASE f \in Handled /\ g \in Handled
    BY <1>8, <2>1 DEF OnDisk
  <2>2. CASE f \in Files(client, side, us) /\ g \in Files(client, side, us)
    BY <1>3, <2>2
  <2> QED  BY <1>7, <1>8, <2>1, <2>2
<1> QED  BY <1>1, <1>5, <1>6, <1>8 DEF OnDisk

\* A step of the splitter that leaves everything it is about alone.
LEMMA SplitUntouched ==
  ASSUME SplitInv,
         UNCHANGED <<request, splitting, kept, todo, buckets, client, held_out, tree,
                   skipped>>
  PROVE  SplitInv'
<1>1. Clients' = Clients /\ TheUnits' = TheUnits
  BY DEF Clients, EffectiveClients, TheUnits, Units, ClassesOf, ClassOf, OfClass
<1>2. Dealt' <=> Dealt
  BY <1>1 DEF Dealt, ClassOf
<1>3. OnDisk' <=> OnDisk
  BY <1>1 DEF OnDisk, Written, Handled
<1> QED  BY <1>1, <1>2, <1>3 DEF SplitInv

LEMMA SplitInvInit ==
  Init => SplitInv
<1> SUFFICES ASSUME Init PROVE SplitInv
  OBVIOUS
<1>1. request \in SplitRequests
  BY SplitAssumption DEF Init, SplitInit
<1> QED  BY <1>1 DEF Init, SplitInit, SplitInv

\* The steps before anything is dealt.
LEMMA PrepareKeeps ==
  ASSUME SplitInv, AskSplit \/ Clear \/ Limit \/ KillSplit
  PROVE  SplitInv'
<1>1. CASE AskSplit
  BY <1>1 DEF SplitInv, AskSplit
<1>2. CASE Clear
  BY <1>2 DEF SplitInv, Clear, ToRemove
<1>3. CASE KillSplit
  BY <1>3 DEF SplitInv, KillSplit
<1>4. CASE Limit
  <2>1. /\ splitting = "limiting" /\ UNCHANGED <<request, tree, skipped>>
        /\ tree = {} /\ skipped = {}
        /\ request \in SplitRequests
    BY <1>4 DEF SplitInv, Limit
  <2>2. Clients' = Clients /\ TheUnits' = TheUnits /\ Clients \in Nat
    BY <2>1, ClientsType
    DEF Clients, EffectiveClients, TheUnits, Units, ClassesOf, ClassOf, OfClass
  <2>3. CASE splitting' = "failed"
    BY <2>1, <2>3 DEF SplitInv
  <2>4. CASE splitting' # "failed"
    <3>1. /\ splitting' = "drawing" /\ buckets' = [k \in 1 .. Clients |-> {}]
          /\ kept' \subseteq TheUnits /\ todo' = ClassesOf(kept')
      BY <1>4, <2>4 DEF Limit, Clients, TheUnits, EmptyBuckets, Limited
    <3>2. Clients >= 1
      BY <1>4, <2>1, <2>2, <2>4, SplitAssumption DEF Limit, Clients
    <3>3. \A u \in kept' : ClassOf(u) \in Classes
      BY <3>1, UnitsDisjoint
    <3>4. \A u \in kept' : ClassOf(u) \in todo' 
      BY <3>1 DEF ClassesOf
    <3>5. todo' \subseteq Classes
      BY <3>1, <3>3 DEF ClassesOf
    <3>6. \A u : ClassOf(u)' = ClassOf(u)
      BY DEF ClassOf
    <3>7. Dealt'
      BY <2>2, <3>1, <3>4, <3>5, <3>6 DEF Dealt
    <3> QED  BY <2>1, <2>2, <3>1, <3>2, <3>7 DEF SplitInv
  <2> QED  BY <2>3, <2>4
<1> QED  BY <1>1, <1>2, <1>3, <1>4

LEMMA NextClassIsNext ==
  ASSUME naming \in Namings, todo \subseteq Classes, todo # {}
  PROVE  NextClass \in todo
<1> DEFINE label == CanonicalMap(Classes)
           labels == {label[c] : c \in todo}
<1>1. \A c \in Classes : label[c] \in Nat
  <2>1. CASE Numeric(Classes)
    <3>1. \A c \in Classes : label[c] = naming.digits[c] /\ naming.digits[c] # NoDigits
      BY <2>1 DEF CanonicalMap, Numeric
    <3> QED  BY <3>1, NamingAssumption
  <2>2. CASE ~ Numeric(Classes)
    <3> DEFINE before(c) == {m \in Classes : naming.rank[m] < naming.rank[c]}
    <3>1. \A c \in Classes : label[c] = Cardinality(before(c))
      BY <2>2 DEF CanonicalMap, ImageFolderMap
    <3>2. ASSUME NEW c \in Classes PROVE Cardinality(before(c)) \in Nat
      <4>1. IsFiniteSet(before(c))
        BY ClassesAssumption, FS_Subset
      <4> QED  BY <4>1, FS_CardinalityType
    <3> QED  BY <3>1, <3>2
  <2> QED  BY <2>1, <2>2
<1> HIDE DEF label
<1>2. labels \subseteq Nat /\ labels # {}
  BY <1>1
<1>3. PICK r \in labels : \A q \in labels : r <= q
  <2> HIDE DEF labels
  <2> QED  BY <1>2, LeastNat
<1>4. \E c \in todo : \A d \in todo : label[c] <= label[d]
  BY <1>3
<1> QED  BY <1>4 DEF NextClass, label

\* What stays put while units are dealt.
LEMMA DealKeeps ==
  ASSUME SplitInv, naming \in Namings, UNCHANGED naming,
         CutClass \/ FoldClass \/ Accept \/ Redraw
  PROVE  SplitInv'
<1>1. /\ splitting = "drawing" /\ UNCHANGED <<request, kept, tree, skipped>>
      /\ tree = {} /\ skipped = {} /\ request \in SplitRequests /\ Dealt /\ Clients >= 1
  BY DEF SplitInv, CutClass, FoldClass, Accept, Redraw, Drawn
<1>2. Clients' = Clients /\ TheUnits' = TheUnits /\ Clients \in Nat
  BY <1>1, ClientsType
  DEF Clients, EffectiveClients, TheUnits, Units, ClassesOf, ClassOf, OfClass
<1> DEFINE c == NextClass
           own == OfClass(kept, c)
<1>3. own \subseteq kept /\ IsFiniteSet(own)
  <2>1. own \subseteq TheUnits /\ own \subseteq kept
    BY <1>1 DEF OfClass, Dealt
  <2> QED  BY <2>1, UnitsFinite, FS_Subset
<1>4. todo # {} => c \in todo
  BY <1>1, NextClassIsNext DEF Dealt
<1>5. ASSUME Dealt', splitting' = "drawing" PROVE SplitInv'
  BY <1>1, <1>2, <1>5 DEF SplitInv
<1>6. CASE CutClass
  <2>1. /\ splitting' = "drawing" /\ todo # {} /\ todo' = todo \ {c}
        /\ request.clients \in Nat \ {0} /\ Clients = request.clients
    BY <1>1, <1>6, SplitAssumption DEF CutClass, Clients
  <2>2. PICK places \in Orders(own), cuts \in Cuts(Cardinality(own)) :
          buckets' = [k \in DOMAIN buckets |-> buckets[k] \cup Chunk(places, cuts, k)]
    BY <1>6 DEF CutClass
  <2> DEFINE part == [k \in DOMAIN buckets |-> Chunk(places, cuts, k)]
  <2>3. DOMAIN buckets = 1 .. Clients
    BY <1>1 DEF Dealt
  <2>4. /\ \A k \in 1 .. Clients : part[k] = Chunk(places, cuts, k)
        /\ buckets' = [k \in DOMAIN buckets |-> buckets[k] \cup part[k]]
    BY <2>2, <2>3
  <2>5. /\ \A k \in 1 .. Clients : Chunk(places, cuts, k) \subseteq own
        /\ \A u \in own : \E k \in 1 .. Clients : u \in Chunk(places, cuts, k)
        /\ \A j, k \in 1 .. Clients :
             j # k => Chunk(places, cuts, j) \cap Chunk(places, cuts, k) = {}
    <3> HIDE DEF own
    <3> QED  BY <1>3, <2>1, ChunksPartition
  <2> HIDE DEF part, c
  <2>6. Dealt'
    BY <1>1, <1>4, <2>1, <2>4, <2>5, DealClass
  <2> QED  BY <1>5, <2>1, <2>6
<1>7. CASE FoldClass
  <2>1. /\ splitting' = "drawing" /\ todo # {} /\ todo' = todo \ {c}
        /\ Clients = EffectiveClients
    BY <1>7 DEF FoldClass, Clients
  <2>2. PICK fold \in Folds(own, EffectiveClients) :
          buckets' = [k \in DOMAIN buckets |-> buckets[k] \cup {u \in own : fold[u] = k}]
    BY <1>7 DEF FoldClass
  <2>3. fold \in [own -> 1 .. Clients]
    BY <2>1, <2>2 DEF Folds
  <2> DEFINE part == [k \in DOMAIN buckets |-> {u \in own : fold[u] = k}]
  <2>4. DOMAIN buckets = 1 .. Clients
    BY <1>1 DEF Dealt
  <2>5. /\ \A k \in 1 .. Clients : part[k] = {u \in own : fold[u] = k}
        /\ buckets' = [k \in DOMAIN buckets |-> buckets[k] \cup part[k]]
    BY <2>2, <2>4
  <2>6. /\ \A k \in 1 .. Clients : part[k] \subseteq own
        /\ \A u \in own : \E k \in 1 .. Clients : u \in part[k]
        /\ \A j, k \in 1 .. Clients : j # k => part[j] \cap part[k] = {}
    <3> HIDE DEF part, own
    <3> QED  BY <2>3, <2>5
  <2> HIDE DEF part, c
  <2>7. Dealt'
    BY <1>1, <1>4, <2>1, <2>5, <2>6, DealClass
  <2> QED  BY <1>5, <2>1, <2>7
<1>8. CASE Redraw
  <2>1. CASE splitting' = "failed"
    BY <1>1, <2>1 DEF SplitInv
  <2>2. CASE splitting' # "failed"
    <3>1. /\ splitting' = "drawing" /\ request.strategy = "dirichlet"
          /\ buckets' = [k \in 1 .. Clients |-> {}] /\ todo' = ClassesOf(kept)
      <4>1. request.strategy = "dirichlet" /\ Clients = request.clients
        BY <1>8 DEF Redraw, Acceptable, Clients
      <4>2. UNCHANGED splitting /\ buckets' = EmptyBuckets(request.clients) /\ todo' = ClassesOf(kept)
        BY <1>8, <2>2 DEF Redraw
      <4> QED  BY <1>1, <4>1, <4>2 DEF EmptyBuckets
    <3>2. kept \subseteq TheUnits
      BY <1>1 DEF Dealt
    <3>3. \A u \in kept : ClassOf(u) \in todo' /\ ClassOf(u) \in Classes
      BY <3>1, <3>2, UnitsDisjoint DEF ClassesOf
    <3>4. todo' \subseteq Classes
      BY <3>1, <3>3 DEF ClassesOf
    <3>5. \A u : ClassOf(u)' = ClassOf(u)
      BY DEF ClassOf
    <3>6. Dealt'
      BY <1>1, <1>2, <3>1, <3>2, <3>3, <3>4, <3>5 DEF Dealt
    <3> QED  BY <1>5, <3>1, <3>6
  <2> QED  BY <2>1, <2>2
<1>9. CASE Accept
  <2>1. /\ splitting' = "train" /\ client' = 1 /\ todo = {} /\ UNCHANGED <<todo, buckets>>
    BY <1>9 DEF Accept, Drawn
  <2>2. Dealt'
    BY <1>1, <1>2, <2>1 DEF Dealt, ClassOf
  <2>3. \A k, u : ~ Written(k, u)'
    BY <1>2, <2>1 DEF Written
  <2>4. OnDisk'
    BY <1>1, <2>3 DEF OnDisk, Handled
  <2> QED  BY <1>1, <1>2, <2>1, <2>2, <2>4 DEF SplitInv
<1> QED  BY <1>6, <1>7, <1>8, <1>9

LEMMA CopyKeeps ==
  ASSUME SplitInv, CopyTrain \/ CopyValid
  PROVE  SplitInv'
<1>1. /\ UNCHANGED <<request, kept, todo, buckets>> /\ request \in SplitRequests
      /\ Dealt /\ OnDisk /\ todo = {} /\ client \in 1 .. Clients
  BY DEF SplitInv, CopyTrain, CopyValid
<1>2. Clients' = Clients /\ TheUnits' = TheUnits /\ Clients \in Nat
  BY <1>1, ClientsType
  DEF Clients, EffectiveClients, TheUnits, Units, ClassesOf, ClassOf, OfClass
<1>3. Dealt'
  BY <1>1, <1>2 DEF Dealt, ClassOf
<1>4. CASE CopyTrain
  <2>1. /\ splitting = "train" /\ splitting' = "valid" /\ client' = client
        /\ held_out' \in HoldOut(buckets[client])
        /\ Handled' = Handled \cup Files(client, "train", buckets[client] \ held_out')
    BY <1>4, CopyHandles DEF CopyTrain
  <2>2. \A units : \A V \in HoldOut(units) : V \subseteq units
    <3>1. \A units : \A V \in RandomShares(units) : V \subseteq units
      BY DEF RandomShares
    <3>2. \A units : \A V \in StratifiedShares(units) : V \in RandomShares(units)
      BY DEF StratifiedShares
    <3>3. \A units : \A V \in LastOnly(units) : V \subseteq units
      BY DEF LastOnly
    <3> QED  BY <3>1, <3>2, <3>3 DEF HoldOut, UnitShares, InheritedShares
  <2>3. held_out' \subseteq buckets[client]
    BY <2>1, <2>2
  <2> DEFINE us == buckets[client] \ held_out'
  <2>4. us \in SUBSET buckets[client]
    OBVIOUS
  <2>5. \A u \in us : ~ Written(client, u)
    BY <1>1, <1>2, <2>1 DEF Written
  <2>6. \A k \in 1 .. Clients, u \in kept :
          Written(k, u)' <=> Written(k, u) \/ (k = client /\ u \in us)
    BY <1>1, <1>2, <2>1 DEF Written
  <2>7. Handled' = Handled \cup Files(client, "train", us)
    BY <2>1
  <2> HIDE DEF us
  <2>8. OnDisk'
    BY <1>1, <2>4, <2>5, <2>6, <2>7, CopyUnits
  <2> QED  BY <1>1, <1>2, <1>3, <2>1, <2>3, <2>8 DEF SplitInv
<1>5. CASE CopyValid
  <2>1. /\ splitting = "valid" /\ client' = client + 1 /\ held_out' = held_out
        /\ splitting' = IF client' \in DOMAIN buckets THEN "train" ELSE "done"
        /\ Handled' = Handled \cup Files(client, "valid", held_out)
    BY <1>5, CopyHandles DEF CopyValid
  <2>2. held_out \in SUBSET buckets[client]
    BY <2>1 DEF SplitInv
  <2>3. \A u \in held_out : ~ Written(client, u)
    BY <1>1, <1>2 DEF Written
  <2>4. \A k \in 1 .. Clients, u \in kept :
          Written(k, u)' <=> Written(k, u) \/ (k = client /\ u \in held_out)
    <3>1. \A k \in 1 .. Clients : k < client + 1 <=> k < client \/ k = client
      BY <1>1, <1>2
    <3>2. splitting' # "valid"
      BY <2>1
    <3> QED  BY <1>1, <1>2, <2>1, <2>2, <3>1, <3>2 DEF Written
  <2>5. OnDisk'
    BY <1>1, <2>1, <2>2, <2>3, <2>4, CopyUnits
  <2>6. /\ splitting' = "train" => client' \in 1 .. Clients
        /\ splitting' = "done" => \A k \in 1 .. Clients : k < client'
    BY <1>1, <1>2, <2>1 DEF Dealt
  <2> QED  BY <1>1, <1>2, <1>3, <2>1, <2>5, <2>6 DEF SplitInv
<1> QED  BY <1>4, <1>5

LEMMA SplitStep ==
  ASSUME SplitInv, naming \in Namings, [Next]_vars
  PROVE  SplitInv' /\ (naming \in Namings)'
<1>1. naming' = naming
  BY DEF Next, Split, Build, SplitNext, BuildNext, vars
<1>2. CASE Build \/ UNCHANGED vars
  <2>1. UNCHANGED <<request, splitting, kept, todo, buckets, client, held_out, tree,
                   skipped>>
    BY <1>2 DEF Build, vars, splitVars
  <2> QED  BY <1>1, <2>1, SplitUntouched
<1>3. CASE Split
  <2>1. SplitNext
    BY <1>3 DEF Split
  <2> QED  BY <1>1, <2>1, PrepareKeeps, DealKeeps, CopyKeeps DEF SplitNext
<1> QED  BY <1>2, <1>3 DEF Next

LEMMA SplitInvariance ==
  Spec => []SplitInv
<1>1. Init => SplitInv /\ naming \in Namings
  BY SplitInvInit DEF Init, NamingInit
<1>2. (SplitInv /\ naming \in Namings) /\ [Next]_vars => (SplitInv /\ naming \in Namings)'
  BY SplitStep
<1> QED  BY <1>1, <1>2, PTL DEF Spec

\* However often a draw is rejected and whatever split was there before, every
\* image a finished split was to distribute is on disk once and nothing else is.
THEOREM NothingLostOrDoubled ==
  Spec => []OnceOnDisk
<1>1. SplitInv => OnceOnDisk
  <2> SUFFICES ASSUME SplitInv, splitting = "done" PROVE OnceOnDisk
    BY DEF OnceOnDisk
  <2>1. Dealt /\ OnDisk /\ todo = {} /\ \A k \in 1 .. Clients : k < client
    BY DEF SplitInv
  <2>2. \A f \in Handled : /\ f.client \in DOMAIN buckets
                        /\ \E u \in kept : f.image \in u
    BY <2>1 DEF OnDisk, Dealt, Written
  <2>3. ASSUME NEW u \in kept, NEW i \in u PROVE \E f \in Handled : f.image = i
    <3>1. PICK k \in 1 .. Clients : u \in buckets[k]
      BY <2>1 DEF Dealt
    <3>2. Written(k, u)
      BY <2>1, <3>1 DEF Written
    <3> QED  BY <2>1, <3>2 DEF OnDisk
  <2>4. ASSUME NEW f \in Handled, NEW g \in Handled, f.image = g.image PROVE f = g
    BY <2>1, <2>2, <2>4 DEF OnDisk
  <2>5. {f.image : f \in Handled} = UNION kept
    BY <2>2, <2>3
  <2> QED  BY <2>2, <2>4, <2>5 DEF OnceOnDisk
<1> QED  BY <1>1, SplitInvariance, PTL

\* With tracks as units no two frames of one physical sign are ever apart.
THEOREM NoSignIsTornApart ==
  Spec => []SignsTogether
<1>1. SplitInv => SignsTogether
  <2> SUFFICES ASSUME SplitInv, request.strategy = "dirichlet", request.unit = "track",
                      splitting \in {"train", "valid", "done"},
                      NEW f \in Handled, NEW g \in Handled, Source[f.image] = Source[g.image]
               PROVE  f.client = g.client /\ f.side = g.side
    BY DEF SignsTogether, SplitInv, Handled
  <2>1. Dealt /\ OnDisk
    BY DEF SplitInv
  <2>2. PICK u \in kept, v \in kept : f.image \in u /\ g.image \in v
    BY <2>1 DEF OnDisk
  <2>3. u \in Units("track") /\ v \in Units("track")
    BY <2>1 DEF Dealt, TheUnits
  <2>4. g.image \in u
    BY <2>2, <2>3 DEF Units
  <2> QED  BY <2>1, <2>2, <2>4 DEF OnDisk
<1> QED  BY <1>1, SplitInvariance, PTL

-----------------------------------------------------------------------------
\* Types. What the splitter holds are units of the split that is asked for.
SplitTypes ==
  /\ kept \subseteq TheUnits
  /\ todo \subseteq Classes
  /\ \A k \in DOMAIN buckets : k \in Nat \ {0} /\ buckets[k] \subseteq kept
  /\ attempt \in 0 .. MaxAttempts + 1
  /\ splitting = "drawing" => attempt <= MaxAttempts
  /\ client \in Nat
  /\ held_out \subseteq kept
  /\ splitting \in {"clearing", "limiting"} => held_out = {}
  /\ tree \subseteq TreeFiles
  /\ skipped \subseteq TreeFiles /\ {f.image : f \in skipped} \subseteq Missing
  /\ splits \in 0 .. MaxSplits

LEMMA FilesTyped ==
  ASSUME NEW k \in Nat \ {0}, NEW side \in Sides, NEW us \in SUBSET TheUnits
  PROVE  Files(k, side, us) \subseteq TreeFiles
<1>1. UNION us \subseteq Images
  BY UnitsDisjoint DEF Images
<1> QED  BY <1>1 DEF Files, TreeFiles

LEMMA SplitTypesStep ==
  ASSUME SplitInv, SplitInv', SplitTypes, SplitNext
  PROVE  SplitTypes'
<1>1. ASSUME request' = request PROVE TheUnits' = TheUnits
  BY <1>1 DEF TheUnits, Units
<1>2. TreeFiles' = TreeFiles
  BY DEF TreeFiles, Images
<1>3. CASE AskSplit
  BY <1>2, <1>3, SplitAssumption DEF AskSplit, SplitTypes
<1>4. CASE Clear
  BY <1>1, <1>2, <1>4 DEF Clear, SplitTypes
<1>5. CASE KillSplit
  BY <1>2, <1>5, SplitAssumption DEF KillSplit, SplitTypes
<1>6. CASE Limit
  <2>1. /\ splitting = "limiting" /\ splitting' \in {"drawing", "failed"} /\ held_out = {}
        /\ UNCHANGED <<request, client, held_out, tree, skipped, splits>>
        /\ attempt' = 1 /\ todo' = ClassesOf(kept')
    BY <1>6 DEF Limit, SplitTypes
  <2>2. kept' \subseteq TheUnits
    <3>1. CASE splitting' = "failed"
      BY <1>6, <3>1 DEF Limit, SplitTypes
    <3>2. CASE splitting' = "drawing"
      BY <1>1, <2>1, <3>2 DEF SplitInv, Dealt
    <3> QED  BY <2>1, <3>1, <3>2
  <2>3. todo' \subseteq Classes
    BY <2>1, <2>2, UnitsDisjoint DEF ClassesOf
  <2>4. \A k \in DOMAIN buckets' : k \in Nat \ {0} /\ buckets'[k] \subseteq kept'
    <3>1. CASE splitting' = "failed"
      BY <1>6, <3>1 DEF Limit, SplitTypes
    <3>2. CASE splitting' = "drawing"
      <4>1. \E n : buckets' = EmptyBuckets(n) /\ n \in Nat
        <5>1. request.strategy # "dirichlet" => EffectiveClients \in Nat
          BY ClientsType DEF SplitInv, Clients
        <5>2. request.clients \in Nat
          BY SplitAssumption DEF SplitInv
        <5>3. request.strategy \in {"dirichlet", "stratified"}
          BY SplitAssumption DEF SplitInv
        <5>5. \/ request.strategy = "dirichlet" /\ buckets' = EmptyBuckets(request.clients)
              \/ request.strategy # "dirichlet" /\ buckets' = EmptyBuckets(EffectiveClients)
          BY <1>6, <3>2, <5>3 DEF Limit
        <5> QED  BY <5>1, <5>2, <5>5
      <4> QED  BY <4>1 DEF EmptyBuckets
    <3> QED  BY <2>1, <3>1, <3>2
  <2> QED  BY <1>1, <1>2, <2>1, <2>2, <2>3, <2>4, SplitAssumption DEF SplitTypes
<1>7. CASE CutClass \/ FoldClass \/ Accept \/ Redraw
  <2>1. /\ UNCHANGED <<request, kept, client, held_out, tree, skipped, splits>> \/ Accept
        /\ UNCHANGED <<request, kept, held_out, tree, skipped, splits>>
        /\ client' \in Nat
        /\ splitting = "drawing" /\ splitting' \in {"drawing", "train", "failed"}
    BY <1>7 DEF CutClass, FoldClass, Accept, Redraw, Drawn, SplitTypes
  <2>2. attempt' \in 0 .. MaxAttempts + 1 /\ (splitting' = "drawing" => attempt' <= MaxAttempts)
    <3>1. CASE Redraw
      <4>1. /\ attempt' = attempt + 1 /\ attempt \in 0 .. MaxAttempts
            /\ splitting' = "drawing" => attempt < MaxAttempts
        BY <2>1, <3>1, SplitAssumption DEF Redraw, AttemptsLeft, SplitTypes
      <4> QED  BY <4>1, SplitAssumption
    <3>2. CASE ~ Redraw
      BY <1>7, <2>1, <3>2 DEF CutClass, FoldClass, Accept, SplitTypes
    <3> QED  BY <3>1, <3>2
  <2>3. (\A k \in DOMAIN buckets : k \in Nat \ {0} /\ buckets[k] \subseteq kept)'
    <3>1. CASE splitting' = "failed"
      BY <1>7, <2>1, <3>1 DEF CutClass, FoldClass, Accept, Redraw, SplitTypes
    <3>2. CASE splitting' # "failed"
      <4>1. Dealt' /\ request' \in SplitRequests
        BY <2>1, <3>2 DEF SplitInv
      <4>2. Clients' \in Nat
        <5>1. Clients' = Clients
          BY <2>1 DEF Clients, EffectiveClients, Units, ClassesOf, ClassOf, OfClass
        <5> QED  BY <2>1, <4>1, <5>1, ClientsType
      <4> QED  BY <4>1, <4>2 DEF Dealt
    <3> QED  BY <3>1, <3>2
  <2>4. todo' \subseteq Classes
    <3>1. CASE splitting' = "failed" \/ Accept
      BY <1>7, <2>1, <3>1 DEF CutClass, FoldClass, Accept, Redraw, SplitTypes
    <3>2. CASE splitting' # "failed" /\ ~ Accept
      BY <2>1, <3>2 DEF SplitInv, Dealt
    <3> QED  BY <3>1, <3>2
  <2> QED  BY <1>1, <1>2, <2>1, <2>2, <2>3, <2>4 DEF SplitTypes
<1>8. CASE CopyTrain \/ CopyValid
  <2>1. /\ UNCHANGED <<request, kept, todo, buckets, attempt, splits>>
        /\ client \in 1 .. Clients /\ Clients \in Nat
        /\ client' \in Nat
        /\ splitting' \in {"train", "valid", "done"}
        /\ Dealt
    BY <1>8, ClientsType DEF CopyTrain, CopyValid, SplitInv, SplitTypes
  <2>2. buckets[client] \subseteq kept /\ buckets[client] \subseteq TheUnits
    BY <2>1 DEF Dealt
  <2>3. held_out' \subseteq kept
    <3>1. CASE CopyTrain
      <4>1. splitting' = "valid" /\ client' = client /\ buckets' = buckets
        BY <3>1 DEF CopyTrain
      <4>2. held_out' \subseteq buckets'[client']
        BY <4>1 DEF SplitInv
      <4> QED  BY <2>2, <4>1, <4>2
    <3>2. CASE CopyValid
      BY <3>2 DEF CopyValid, SplitTypes
    <3> QED  BY <1>8, <3>1, <3>2
  <2>4. /\ tree' \subseteq TreeFiles
        /\ skipped' \subseteq TreeFiles /\ {f.image : f \in skipped'} \subseteq Missing
    <3>1. PICK side \in Sides, us \in SUBSET TheUnits : Copy(client, side, us)
      <4>1. CASE CopyTrain
        BY <2>2, <4>1 DEF CopyTrain, Sides
      <4>2. CASE CopyValid
        BY <4>2 DEF CopyValid, Sides, SplitTypes
      <4> QED  BY <1>8, <4>1, <4>2
    <3>2. Files(client, side, us) \subseteq TreeFiles
      BY <2>1, FilesTyped
    <3>3. PICK gone \in SUBSET Missing :
            /\ tree' = tree \cup {f \in Files(client, side, us) : f.image \notin gone}
            /\ skipped' = skipped \cup {f \in Files(client, side, us) : f.image \in gone}
      BY <3>1 DEF Copy
    <3> QED  BY <3>2, <3>3 DEF SplitTypes
  <2> QED  BY <1>1, <1>2, <2>1, <2>3, <2>4 DEF SplitTypes
<1> QED  BY <1>3, <1>4, <1>5, <1>6, <1>7, <1>8 DEF SplitNext

\* What the builder holds: images of the test set, directories of its classes,
\* and no directory missing once the pool has started.
BuildTypes ==
  /\ building \in {"idle", "dirs", "pool", "done"}
  /\ dirs \subseteq AllConditions \X TestClasses
  /\ building \in {"pool", "done"} => DirsMade
  /\ DOMAIN content \subseteq AllConditions \X DOMAIN test_set
  /\ queue \subseteq DOMAIN test_set
  /\ \A w \in DOMAIN working :
       /\ working[w].image \in DOMAIN test_set \cup {NoImage}
       /\ working[w].next \in DOMAIN Conditions(order)
       /\ working[w].image = NoImage => working[w].next = 1
       /\ building # "pool" => working[w].image = NoImage
  /\ manifest \subseteq AllConditions
  /\ builds \in 0 .. MaxBuilds
  /\ \A x \in written : x.file \in AllConditions \X DOMAIN test_set

LEMMA ConditionsKnown ==
  ASSUME Asked
  PROVE  /\ AsSet(Conditions(order)) \subseteq AllConditions
         /\ \A n \in DOMAIN Conditions(order) : Conditions(order)[n] \in AllConditions
         /\ 1 \in DOMAIN Conditions(order)
<1>1. AsSet(Conditions(order)) \subseteq AllConditions
  BY DEF AllConditions, Asked
<1>2. 1 \in DOMAIN Conditions(order)
  BY ConditionsType
<1> QED  BY <1>1, <1>2 DEF AsSet

\* The next directory is one that is missing.
LEMMA NextDirMissing ==
  ASSUME Asked, naming \in Namings, ~ DirsMade
  PROVE  NextDir \in AsSet(Conditions(order)) \X TestClasses
<1> DEFINE list == Conditions(order)
           missing == {d \in AsSet(list) \X TestClasses : d \notin dirs}
           at(d) == CHOOSE i \in DOMAIN list : list[i] = d[1]
           places == {at(d) : d \in missing}
<1>1. missing # {}
  BY DEF DirsMade
<1>2. \A d \in missing : at(d) \in Nat
  <2>1. DOMAIN list \subseteq Nat
    BY ConditionsType
  <2>2. \A d \in missing : \E i \in DOMAIN list : list[i] = d[1]
    BY DEF AsSet
  <2> QED  BY <2>1, <2>2
<1>3. \A d \in missing : naming.rank[d[2]] \in Nat
  BY NamingAssumption DEF TestClasses
<1> HIDE DEF missing, at
<1>4. PICK p \in places : \A q \in places : p <= q
  <2>1. places \subseteq Nat /\ places # {}
    BY <1>1, <1>2
  <2> QED  BY <2>1, LeastNat
<1> DEFINE first == {d \in missing : at(d) = p}
           ranks == {naming.rank[d[2]] : d \in first}
<1>5. PICK r \in ranks : \A q \in ranks : r <= q
  <2>1. ranks \subseteq Nat /\ ranks # {}
    BY <1>3, <1>4
  <2> HIDE DEF ranks
  <2> QED  BY <2>1, LeastNat
<1>6. PICK d \in first : naming.rank[d[2]] = r
  BY <1>5
<1>7. \A e \in missing :
        at(d) < at(e) \/ (at(d) = at(e) /\ naming.rank[d[2]] <= naming.rank[e[2]])
  <2> SUFFICES ASSUME NEW e \in missing
               PROVE  at(d) < at(e) \/ (at(d) = at(e) /\ naming.rank[d[2]] <= naming.rank[e[2]])
    OBVIOUS
  <2>1. p <= at(e) /\ at(e) \in Nat /\ p \in Nat
    BY <1>2, <1>4
  <2>2. at(e) = p => r <= naming.rank[e[2]]
    BY <1>5
  <2> QED  BY <1>6, <2>1, <2>2
<1>8. NextDir \in missing
  <2>1. NextDir = CHOOSE x \in missing : \A e \in missing :
                    at(x) < at(e) \/ (at(x) = at(e) /\ naming.rank[x[2]] <= naming.rank[e[2]])
    BY DEF NextDir, missing, at
  <2> QED  BY <1>6, <1>7, <2>1
<1> QED  BY <1>8 DEF missing

LEMMA SaveTypes ==
  ASSUME BuildTypes, BuildInv, NEW w \in DOMAIN working, SaveClean(w) \/ CorruptAndSave(w)
  PROVE  BuildTypes'
<1> DEFINE list == Conditions(order)
           at == working[w].next
           here == At(w)
<1>0. AtImage(w) /\ \E w1 : Save(w, w1)
  BY SavesSettled
<1> PICK what : Save(w, what)
  BY <1>0
<1>1. /\ building = "pool" /\ working[w].image # NoImage
      /\ UNCHANGED <<test_set, order, building, dirs, queue, manifest, builds>>
  BY <1>0 DEF Save, AtImage
<1>2. at \in DOMAIN list /\ working[w].image \in DOMAIN test_set
  BY <1>1 DEF BuildTypes
<1>3. DOMAIN content' = DOMAIN content \cup {here}
  BY SaveSaves
<1>4. here \in AllConditions \X DOMAIN test_set
  BY <1>2, ConditionsKnown DEF At, BuildInv
<1>5. DOMAIN working' = DOMAIN working
  BY DEF Save
<1>6. ASSUME NEW v \in DOMAIN working'
      PROVE  /\ working'[v].image \in DOMAIN test_set \cup {NoImage}
             /\ working'[v].next \in DOMAIN list
             /\ working'[v].image = NoImage => working'[v].next = 1
  <2>1. CASE v # w
    BY <1>5, <2>1 DEF Save, BuildTypes
  <2>2. CASE v = w
    <3>1. working' = [working EXCEPT ![w] =
            IF at = Len(list) THEN [image |-> NoImage, next |-> 1, seeded |-> FALSE]
            ELSE [image |-> working[w].image, next |-> at + 1, seeded |-> FALSE]]
      BY DEF Save, Free
    <3>2. DOMAIN list = 1 .. Len(list) /\ Len(list) \in Nat \ {0}
      BY ConditionsType DEF BuildInv
    <3> HIDE DEF list, at
    <3>3. CASE at = Len(list)
      BY <2>2, <3>1, <3>2, <3>3
    <3>4. CASE at # Len(list)
      <4>1. working'[v] = [image |-> working[w].image, next |-> at + 1, seeded |-> FALSE]
        BY <2>2, <3>1, <3>4
      <4>2. at + 1 \in DOMAIN list
        BY <1>2, <3>2, <3>4
      <4> QED  BY <1>1, <1>2, <4>1, <4>2
    <3> QED  BY <3>3, <3>4
  <2> QED  BY <2>1, <2>2
<1>7. AllConditions' = AllConditions /\ TestClasses' = TestClasses /\ (DirsMade' <=> DirsMade)
      /\ Conditions(order)' = list
  BY <1>1 DEF AllConditions, TestClasses, InClass, DirsMade, AsSet, Conditions
<1> HIDE DEF here, list
<1>8. (DOMAIN content \subseteq AllConditions \X DOMAIN test_set)'
  BY <1>1, <1>3, <1>4, <1>7 DEF BuildTypes
<1>9. (\A x \in written : x.file \in AllConditions \X DOMAIN test_set)'
  <2>1. written' = written \cup {[file |-> here, what |-> what]}
    BY DEF Save, here
  <2> QED  BY <1>1, <1>4, <1>7, <2>1 DEF BuildTypes
<1> QED  BY <1>1, <1>6, <1>7, <1>8, <1>9 DEF BuildTypes

LEMMA SeedTypes ==
  ASSUME BuildTypes, BuildInv, NEW w \in DOMAIN working, SeedGenerator(w)
  PROVE  BuildTypes'
<1>1. /\ building = "pool"
      /\ UNCHANGED <<test_set, order, building, dirs, content, queue, manifest, builds, written>>
  BY DEF SeedGenerator, AtImage
<1>2. /\ DOMAIN working' = DOMAIN working
      /\ \A v \in DOMAIN working : /\ working'[v].image = working[v].image
                                  /\ working'[v].next = working[v].next
  BY DEF SeedGenerator, BuildInv, SeededInv
<1>3. AllConditions' = AllConditions /\ TestClasses' = TestClasses /\ (DirsMade' <=> DirsMade)
      /\ Conditions(order)' = Conditions(order)
  BY <1>1 DEF AllConditions, TestClasses, InClass, DirsMade, AsSet, Conditions
<1> QED  BY <1>1, <1>2, <1>3 DEF BuildTypes

LEMMA BuildTypesStep ==
  ASSUME BuildTypes, BuildInv, naming \in Namings, BuildNext
  PROVE  BuildTypes'
<1>1. /\ test_set' = test_set
      /\ AllConditions' = AllConditions /\ TestClasses' = TestClasses
  <2>1. test_set' = test_set
    BY DEF BuildNext, StartBuild, MakeDir, StartPool, TakeTask, SaveClean, CorruptAndSave, Save,
           SeedGenerator, WriteManifest, KillBuild
  <2> QED  BY <2>1 DEF AllConditions, TestClasses, InClass, AsSet, Conditions
<1>0. Asked
  BY DEF BuildInv
<1>2. ASSUME UNCHANGED order
      PROVE  /\ Conditions(order)' = Conditions(order)
             /\ dirs \subseteq dirs' /\ DirsMade => DirsMade'
  BY <1>1, <1>2 DEF Conditions, AsSet, DirsMade
<1>3. ASSUME NEW r \in BuildRequests PROVE 1 \in DOMAIN Conditions(r)
  <2>1. r.corruptions \in Seq(Corruptions)
    BY BuildAssumption
  <2> QED  BY <2>1 DEF Conditions
<1>4. CASE StartBuild
  <2>1. /\ UNCHANGED <<dirs, content, queue, working, manifest, written>>
        /\ building' = "dirs" /\ building # "pool" /\ builds' = builds + 1
        /\ builds < MaxBuilds
        /\ order' \in BuildRequests
    BY <1>4 DEF StartBuild
  <2>2. 1 \in DOMAIN Conditions(order')
    BY <1>3, <2>1
  <2>3. (\A w \in DOMAIN working :
           /\ working[w].image \in DOMAIN test_set \cup {NoImage}
           /\ working[w].next \in DOMAIN Conditions(order)
           /\ working[w].image = NoImage => working[w].next = 1
           /\ building # "pool" => working[w].image = NoImage)'
    BY <1>1, <2>1, <2>2 DEF BuildTypes
  <2> QED  BY <1>1, <2>1, <2>3, BuildAssumption DEF BuildTypes
<1>5. CASE MakeDir
  <2>1. /\ UNCHANGED <<order, building, content, queue, working, manifest, builds, written>>
        /\ dirs' = dirs \cup {NextDir} /\ building = "dirs"
        /\ ~ DirsMade
    BY <1>5 DEF MakeDir
  <2>2. NextDir \in AllConditions \X TestClasses
    BY <1>0, <2>1, NextDirMissing, ConditionsKnown
  <2>3. Conditions(order)' = Conditions(order)
    BY <2>1 DEF Conditions
  <2>4. dirs' \subseteq AllConditions \X TestClasses
    BY <2>1, <2>2 DEF BuildTypes
  <2> QED  BY <1>1, <2>1, <2>3, <2>4 DEF BuildTypes
<1>6. CASE StartPool
  <2>1. /\ UNCHANGED <<order, dirs, content, manifest, builds, written>>
        /\ building' = "pool" /\ queue' = Subsample /\ DirsMade
        /\ working' = [w \in 1 .. order.jobs |->
                        [image |-> NoImage, next |-> 1, seeded |-> FALSE]]
    BY <1>6 DEF StartPool, Free
  <2>2. Conditions(order)' = Conditions(order) /\ DirsMade'
    BY <1>2, <2>1
  <2>3. queue' \subseteq DOMAIN test_set /\ 1 \in DOMAIN Conditions(order)
    BY <1>0, <2>1, SubsampleDrawn, ConditionsKnown
  <2>5. \A w \in DOMAIN working' : working'[w].image = NoImage /\ working'[w].next = 1
    BY <2>1
  <2> QED  BY <1>1, <2>1, <2>2, <2>3, <2>5 DEF BuildTypes
<1>7. ASSUME NEW w \in DOMAIN working, TakeTask(w) PROVE BuildTypes'
  <2>1. PICK i \in queue : /\ queue' = queue \ {i}
                           /\ working' = [working EXCEPT ![w] =
                              [image |-> i, next |-> 1, seeded |-> FALSE]]
    BY <1>7 DEF TakeTask, Free
  <2>2. /\ building = "pool"
        /\ UNCHANGED <<order, building, dirs, content, manifest, builds, written>>
    BY <1>7 DEF TakeTask
  <2>3. i \in DOMAIN test_set /\ i # NoImage /\ 1 \in DOMAIN Conditions(order)
    BY <1>0, <2>1, ConditionsKnown, BuildAssumption DEF BuildTypes, Asked
  <2>4. Conditions(order)' = Conditions(order) /\ (DirsMade => DirsMade')
    BY <1>2, <2>2
  <2>5. ASSUME NEW v \in DOMAIN working'
        PROVE  /\ working'[v].image \in DOMAIN test_set \cup {NoImage}
               /\ working'[v].next \in DOMAIN Conditions(order)
               /\ working'[v].image = NoImage => working'[v].next = 1
    <3>1. CASE v = w
      BY <2>1, <2>3, <3>1
    <3>2. CASE v # w
      BY <2>1, <3>2 DEF BuildTypes
    <3> QED  BY <3>1, <3>2
  <2>6. queue' \subseteq DOMAIN test_set
    BY <1>1, <2>1 DEF BuildTypes
  <2> QED  BY <1>1, <2>2, <2>4, <2>5, <2>6 DEF BuildTypes
<1>8. ASSUME NEW w \in DOMAIN working, SaveClean(w) \/ CorruptAndSave(w) PROVE BuildTypes'
  BY <1>8, SaveTypes
<1>11. ASSUME NEW w \in DOMAIN working, SeedGenerator(w) PROVE BuildTypes'
  BY <1>11, SeedTypes
<1>9. CASE WriteManifest
  <2>1. /\ UNCHANGED <<order, dirs, content, queue, working, builds, written>>
        /\ building = "pool" /\ building' = "done"
        /\ manifest' = AsSet(Conditions(order))
        /\ \A w \in DOMAIN working : working[w].image = NoImage
    BY <1>9 DEF WriteManifest, PoolDrained
  <2>2. Conditions(order)' = Conditions(order) /\ (DirsMade => DirsMade')
    BY <1>2, <2>1
  <2>3. manifest' \subseteq AllConditions
    BY <1>0, <2>1, ConditionsKnown
  <2> QED  BY <1>1, <2>1, <2>2, <2>3 DEF BuildTypes
<1>10. CASE KillBuild
  <2>1. /\ UNCHANGED <<order, dirs, manifest, builds, written>>
        /\ building' = "idle" /\ queue' = {} /\ working' = <<>>
    BY <1>10 DEF KillBuild
  <2>2. PICK saving \in SUBSET {w \in DOMAIN working : AtImage(w)} :
          content' = Saved({At(w) : w \in saving}, Truncated)
    BY <1>10 DEF KillBuild
  <2>3. \A w \in saving : At(w) \in AllConditions \X DOMAIN test_set
    BY <1>0, ConditionsKnown DEF BuildTypes, At, AtImage
  <2>4. DOMAIN content' \subseteq AllConditions \X DOMAIN test_set
    BY <2>2, <2>3 DEF Saved, BuildTypes
  <2> QED  BY <1>1, <2>1, <2>4 DEF BuildTypes
<1> QED  BY <1>4, <1>5, <1>6, <1>7, <1>8, <1>9, <1>10, <1>11 DEF BuildNext

ToolTypes ==
  naming \in Namings /\ tool \in {"split", "build"} /\ SplitTypes /\ BuildTypes

LEMMA ToolTypesStep ==
  ASSUME SplitInv, SplitInv', BuildInv, ToolTypes, [Next]_vars
  PROVE  ToolTypes'
<1>1. UNCHANGED <<naming, tool>>
  BY DEF Next, Split, Build, SplitNext, BuildNext, vars
<1>2. ASSUME UNCHANGED splitVars PROVE SplitTypes'
  BY <1>2 DEF ToolTypes, SplitTypes, splitVars, TheUnits, Units, TreeFiles, Images
<1>3. ASSUME UNCHANGED buildVars PROVE BuildTypes'
  BY <1>3 DEF ToolTypes, BuildTypes, buildVars, AllConditions, AsSet, Conditions, TestClasses,
              InClass, DirsMade
<1>4. CASE Split
  BY <1>1, <1>3, <1>4, SplitTypesStep DEF Split, ToolTypes
<1>5. CASE Build
  BY <1>1, <1>2, <1>5, BuildTypesStep DEF Build, ToolTypes
<1>6. CASE UNCHANGED vars
  BY <1>1, <1>2, <1>3, <1>6 DEF ToolTypes, vars
<1> QED  BY <1>4, <1>5, <1>6 DEF Next

LEMMA ToolTypesInvariance ==
  Spec => []ToolTypes
<1>1. Init => ToolTypes
  <2> SUFFICES ASSUME Init PROVE ToolTypes
    OBVIOUS
  <2>1. SplitTypes
    BY SplitAssumption DEF Init, SplitInit, SplitTypes
  <2>2. BuildTypes
    BY BuildAssumption DEF Init, BuildInit, BuildTypes
  <2> QED  BY <2>1, <2>2 DEF Init, NamingInit, ToolTypes
<1>2. SplitInv /\ SplitInv' /\ BuildInv /\ ToolTypes /\ [Next]_vars => ToolTypes'
  BY ToolTypesStep
<1> QED  BY <1>1, <1>2, SplitInvariance, BuildInvariance, PTL DEF Spec

\* Every reachable state of the two tools is well typed.
THEOREM TypeCorrect ==
  Spec => []TypeOK
<1>1. SplitInv /\ BuildInv /\ ToolTypes => TypeOK
  <2> SUFFICES ASSUME SplitInv, BuildInv, ToolTypes PROVE TypeOK
    OBVIOUS
  <2>1. TheUnits \subseteq AllUnits
    <3>1. request.unit \in {"image", "track"}
      BY SplitAssumption DEF SplitInv
    <3> QED  BY <3>1 DEF TheUnits, AllUnits
  <2>2. TestClasses \subseteq Classes
    BY DEF TestClasses
  <2> QED
    BY <2>1, <2>2
    DEF SplitInv, BuildInv, SeededInv, Asked, ToolTypes, SplitTypes, BuildTypes, TypeOK
<1> QED  BY <1>1, SplitInvariance, BuildInvariance, ToolTypesInvariance, PTL

-----------------------------------------------------------------------------
\* Class numbers. When the names hold no numbers, a complete tree gives the
\* canonical ones, and assert_canonical_labels cannot tell whether it is complete.
NumbersInNames ==
  \A n \in Namings : /\ \A c \in Classes : n.digits[c] # NoDigits
                     /\ \A c, d \in Classes : n.digits[c] = n.digits[d] => c = d

EveryClassTested ==
  \A t \in TestSets : \A c \in Classes : \E i \in DOMAIN t : t[i] = c

\* Trees that lack classes give those they have one label, on a client's disk by
\* the relabelling, in the test set because it accepts no other. What the second
\* rests on is that names hold their numbers, or the test set all classes.
THEOREM LabelsTogether ==
  ASSUME NumbersInNames \/ EveryClassTested
  PROVE  Spec => []LabelsAgree
<1>1. BuildInv /\ ToolTypes => LabelsAgree
  <2> SUFFICES ASSUME BuildInv, ToolTypes PROVE LabelsAgree
    OBVIOUS
  <2> DEFINE names(condition) == ClassesOfCondition(condition)
  <2>1. ASSUME NEW condition PROVE names(condition) \subseteq TestClasses
    BY DEF ClassesOfCondition, ToolTypes, BuildTypes
  <2>2. TestClasses \subseteq Classes
    BY DEF TestClasses
  <2>3. ASSUME NEW condition, AcceptedAsIs(names(condition)),
               Numeric(Classes) \/ (building = "done" /\ condition \in manifest)
        PROVE  \A c \in names(condition) :
                 ImageFolderMap(names(condition))[c] = RemappedMap(names(condition))[c]
    <3>1. CASE Numeric(Classes)
      <4>1. Numeric(names(condition))
        BY <2>1, <2>2, <3>1 DEF Numeric
      <4>2. ImageFolderMap(names(condition)) = [n \in names(condition) |-> naming.digits[n]]
        BY <2>3, <4>1 DEF AcceptedAsIs, CanonicalMap
      <4>3. CanonicalMap(Classes) = [n \in Classes |-> naming.digits[n]]
        BY <3>1 DEF CanonicalMap
      <4> HIDE DEF names
      <4> QED  BY <2>1, <2>2, <4>2, <4>3 DEF RemappedMap
    <3>2. CASE ~ Numeric(Classes)
      <4>1. building = "done" /\ condition \in manifest
        BY <2>3, <3>2
      <4>2. EveryClassTested
        BY <3>2 DEF NumbersInNames, Numeric, ToolTypes
      <4>3. TestClasses = Classes
        BY <4>2 DEF EveryClassTested, TestClasses, InClass, BuildInv, Asked
      <4>4. manifest = AsSet(Conditions(order)) /\ DirsMade
        BY <4>1 DEF BuildInv, Complete, ToolTypes, BuildTypes
      <4>5. ASSUME NEW c \in Classes PROVE c \in names(condition)
        <5>1. <<condition, c>> \in dirs
          BY <4>1, <4>3, <4>4 DEF DirsMade
        <5> QED  BY <5>1 DEF ClassesOfCondition
      <4>6. names(condition) = Classes
        BY <2>1, <2>2, <4>5
      <4> HIDE DEF names
      <4> QED  BY <3>2, <4>6 DEF RemappedMap, CanonicalMap
    <3> QED  BY <3>1, <3>2
  <2>4. ASSUME NEW j, NEW k, NEW s, NEW t,
               NEW c \in ClassesOnSide(j, s) \cap ClassesOnSide(k, t)
        PROVE  RemappedMap(ClassesOnSide(j, s))[c] = RemappedMap(ClassesOnSide(k, t))[c]
    BY DEF RemappedMap
  <2> QED  BY <2>3, <2>4 DEF LabelsAgree
<1> QED  BY <1>1, BuildInvariance, ToolTypesInvariance, PTL

-----------------------------------------------------------------------------
\* Hold-out. Two units are enough to have one on either side.
LEMMA ValidUnitsRange ==
  ASSUME NEW units, Cardinality(units) \in Nat, Cardinality(units) >= 2
  PROVE  ValidUnits(units) \in 1 .. Cardinality(units) - 1
<1> DEFINE n == Cardinality(units)
           s == ValidShare
           p == n + s - 1
           q == p \div s
<1>1. n \in Nat /\ n >= 2 /\ s \in Nat /\ s >= 2
  BY SplitAssumption
<1> HIDE DEF n, s
<1>2. p \in Nat /\ s > 0
  BY <1>1
<1>3. q \in Int /\ s * q <= p /\ p < s * q + s
  <2> HIDE DEF p
  <2> QED  BY <1>1, <1>2
<1>4. q >= 1
  <2>1. SUFFICES ASSUME q <= 0 PROVE FALSE
    BY <1>3
  <2>2. s * q <= 0
    BY <1>1, <1>3, <2>1
  <2> QED  BY <1>1, <1>3, <2>2
<1>5. q <= n - 1
  <2>1. SUFFICES ASSUME q >= n PROVE FALSE
    BY <1>1, <1>3
  <2>2. s * q >= s * n
    BY <1>1, <1>3, <2>1
  <2>3. (s - 1) * (n - 1) >= 1
    <3> DEFINE a == s - 1
               b == n - 1
    <3>1. a \in Nat /\ b \in Nat /\ a >= 1 /\ b >= 1
      BY <1>1
    <3> HIDE DEF a, b
    <3>2. a * b >= b
      BY <3>1
    <3> QED  BY <3>1, <3>2 DEF a, b
  <2>4. s * n > p
    BY <1>1, <2>3
  <2> QED  BY <1>1, <1>3, <2>2, <2>4
<1>6. ValidUnits(units) = q
  BY DEF ValidUnits, n, s
<1> QED  BY <1>1, <1>3, <1>4, <1>5, <1>6 DEF n

\* With two units there is a random hold-out of the size asked for, so the last
\* resort is never taken.
LEMMA ShareAsAsked ==
  ASSUME NEW units, IsFiniteSet(units), Cardinality(units) >= 2, NEW V \in UnitShares(units)
  PROVE  V \subseteq units /\ Cardinality(V) = ValidUnits(units)
<1>1. Cardinality(units) \in Nat
  BY FS_CardinalityType
<1>2. ValidUnits(units) \in 1 .. Cardinality(units) - 1
  BY <1>1, ValidUnitsRange
<1>3. \E T \in SUBSET units : Cardinality(T) = ValidUnits(units)
  BY <1>1, <1>2, SubsetOfSize
<1>4. RandomShares(units) # {}
  BY <1>1, <1>2, <1>3 DEF RandomShares
<1>5. StratifiedShares(units) \subseteq RandomShares(units)
  BY DEF StratifiedShares
<1>6. V \in RandomShares(units)
  BY <1>4, <1>5 DEF UnitShares
<1> QED  BY <1>6 DEF RandomShares

\* What is held out of each client that has been written, and that the rest of
\* its units are on the other side.
HeldOut(k, V) ==
  /\ V \subseteq buckets[k]
  /\ Cardinality(V) = ValidUnits(buckets[k])

SidesInv ==
  request.strategy = "dirichlet" /\ splitting \in {"train", "valid", "done"} =>
    /\ \A k \in 1 .. Clients : Cardinality(buckets[k]) >= 2
    /\ \A k \in 1 .. Clients : k < client =>
         \E V : /\ HeldOut(k, V)
                /\ Files(k, "valid", V) \subseteq Handled
                /\ Files(k, "train", buckets[k] \ V) \subseteq Handled
    /\ splitting = "valid" =>
         /\ HeldOut(client, held_out)
         /\ Files(client, "train", buckets[client] \ held_out) \subseteq Handled

LEMMA SidesStep ==
  ASSUME SplitInv, SidesInv, [Next]_vars
  PROVE  SidesInv'
<1>1. CASE UNCHANGED splitVars
  <2>1. Clients' = Clients
    BY <1>1 DEF splitVars, Clients, EffectiveClients, Units, ClassesOf, ClassOf, OfClass
  <2> QED  BY <1>1, <2>1 DEF splitVars, SidesInv, HeldOut, ValidUnits, Files, Handled
<1>2. ASSUME SplitNext PROVE SidesInv'
  <2>1. CASE AskSplit \/ Clear \/ Limit \/ CutClass \/ FoldClass \/ Redraw \/ KillSplit
    <3>1. splitting' \notin {"train", "valid", "done"}
      BY <2>1 DEF AskSplit, Clear, Limit, CutClass, FoldClass, Redraw, Drawn, KillSplit
    <3> QED  BY <3>1 DEF SidesInv
  <2>2. CASE Accept
    <3>1. /\ UNCHANGED <<request, buckets>> /\ splitting' = "train" /\ client' = 1
          /\ Acceptable /\ Dealt
      BY <2>2 DEF Accept, Drawn, SplitInv
    <3>2. Clients' = Clients /\ Clients \in Nat
      BY <3>1, ClientsType
      DEF SplitInv, Clients, EffectiveClients, Units, ClassesOf, ClassOf, OfClass
    <3>3. request.strategy = "dirichlet" =>
            \A k \in 1 .. Clients : Cardinality(buckets[k]) >= 2
      BY <3>1 DEF Acceptable, Dealt, MinUnitsPerClient
    <3>4. \A k \in 1 .. Clients : ~ (k < 1)
      BY <3>2
    <3> QED  BY <3>1, <3>2, <3>3, <3>4 DEF SidesInv
  <2>3. ASSUME CopyTrain \/ CopyValid, request'.strategy = "dirichlet" PROVE SidesInv'
    <3>1. /\ UNCHANGED <<request, kept, buckets>> /\ splitting \in {"train", "valid"}
          /\ Dealt /\ client \in 1 .. Clients /\ Handled \subseteq Handled'
          /\ splitting' \in {"train", "valid", "done"}
      BY <2>3, CopyHandles DEF CopyTrain, CopyValid, SplitInv
    <3>2. Clients' = Clients /\ Clients \in Nat
      BY <3>1, ClientsType
      DEF SplitInv, Clients, EffectiveClients, Units, ClassesOf, ClassOf, OfClass
    <3>3. \A k \in 1 .. Clients : Cardinality(buckets[k]) >= 2
      BY <2>3, <3>1 DEF SidesInv
    <3>4. ASSUME NEW k \in 1 .. Clients, k < client
          PROVE  \E V : /\ HeldOut(k, V)
                        /\ Files(k, "valid", V) \subseteq Handled'
                        /\ Files(k, "train", buckets[k] \ V) \subseteq Handled'
      BY <2>3, <3>1, <3>4 DEF SidesInv
    <3>5. \A k, V : HeldOut(k, V)' <=> HeldOut(k, V)
      BY <3>1 DEF HeldOut, ValidUnits
    <3>6. \A k, side, us : Files(k, side, us)' = Files(k, side, us)
      BY DEF Files
    <3>7. CASE CopyTrain
      <4>1. /\ splitting' = "valid" /\ client' = client
            /\ held_out' \in UnitShares(buckets[client])
            /\ Handled' = Handled \cup Files(client, "train", buckets[client] \ held_out')
        BY <2>3, <3>1, <3>7, CopyHandles DEF CopyTrain, HoldOut
      <4>2. IsFiniteSet(buckets[client])
        <5>1. buckets[client] \subseteq TheUnits
          BY <3>1 DEF Dealt
        <5> QED  BY <5>1, UnitsFinite, FS_Subset
      <4>3. HeldOut(client, held_out')
        BY <3>1, <3>3, <4>1, <4>2, ShareAsAsked DEF HeldOut
      <4>4. (/\ HeldOut(client, held_out)
             /\ Files(client, "train", buckets[client] \ held_out) \subseteq Handled)'
        BY <3>1, <4>1, <4>3 DEF HeldOut, ValidUnits, Files
      <4>5. (\A k \in 1 .. Clients : k < client =>
               \E V : /\ HeldOut(k, V)
                      /\ Files(k, "valid", V) \subseteq Handled
                      /\ Files(k, "train", buckets[k] \ V) \subseteq Handled)'
        BY <3>1, <3>2, <3>4, <4>1 DEF HeldOut, ValidUnits, Files
      <4> QED  BY <3>1, <3>2, <3>3, <4>4, <4>5 DEF SidesInv
    <3>8. CASE CopyValid
      <4>1. /\ splitting = "valid" /\ client' = client + 1 /\ splitting' # "valid"
            /\ Handled' = Handled \cup Files(client, "valid", held_out)
        BY <3>8, CopyHandles DEF CopyValid
      <4>2. /\ HeldOut(client, held_out)
            /\ Files(client, "train", buckets[client] \ held_out) \subseteq Handled'
            /\ Files(client, "valid", held_out) \subseteq Handled'
        BY <2>3, <3>1, <4>1 DEF SidesInv
      <4>3. \A k \in 1 .. Clients : k < client' => k < client \/ k = client
        BY <3>1, <3>2, <4>1
      <4>4. ASSUME NEW k \in 1 .. Clients, k < client'
            PROVE  \E V : /\ HeldOut(k, V)
                          /\ Files(k, "valid", V) \subseteq Handled'
                          /\ Files(k, "train", buckets[k] \ V) \subseteq Handled'
        BY <3>4, <4>2, <4>3, <4>4
      <4>5. (\A k \in 1 .. Clients : k < client =>
               \E V : /\ HeldOut(k, V)
                      /\ Files(k, "valid", V) \subseteq Handled
                      /\ Files(k, "train", buckets[k] \ V) \subseteq Handled)'
        BY <3>1, <3>2, <4>4 DEF HeldOut, ValidUnits, Files
      <4> QED  BY <3>1, <3>2, <3>3, <4>1, <4>5 DEF SidesInv
    <3> QED  BY <2>3, <3>7, <3>8
  <2>4. ASSUME request'.strategy # "dirichlet" PROVE SidesInv'
    BY <2>4 DEF SidesInv
  <2> QED  BY <1>2, <2>1, <2>2, <2>3, <2>4 DEF SplitNext
<1> QED  BY <1>1, <1>2 DEF Next, Split, Build, vars

LEMMA SidesInvariance ==
  Spec => []SidesInv
<1>1. Init => SidesInv
  BY DEF Init, SplitInit, SidesInv
<1>2. SplitInv /\ SidesInv /\ [Next]_vars => SidesInv'
  BY SidesStep
<1> QED  BY <1>1, <1>2, SplitInvariance, PTL DEF Spec

\* However the draw falls, each client of a finished Dirichlet split validates on
\* the share it was asked for and has units left to train on.
THEOREM ShareHeldOut ==
  Spec => []ValidationAsAsked
<1>1. SplitInv /\ SidesInv => ValidationAsAsked
  <2> SUFFICES ASSUME SplitInv, SidesInv, splitting = "done",
                      request.strategy = "dirichlet", NEW k \in DOMAIN buckets
               PROVE  /\ Cardinality(OnSide(k, "valid")) = ValidUnits(buckets[k])
                      /\ OnSide(k, "train") = buckets[k] \ OnSide(k, "valid")
                      /\ OnSide(k, "train") # {}
    BY DEF ValidationAsAsked
  <2>1. Dealt /\ OnDisk /\ k \in 1 .. Clients /\ k < client
    BY DEF SplitInv, Dealt
  <2>2. PICK V : /\ HeldOut(k, V)
                 /\ Files(k, "valid", V) \subseteq Handled
                 /\ Files(k, "train", buckets[k] \ V) \subseteq Handled
    BY <2>1 DEF SidesInv
  <2>3. /\ V \subseteq buckets[k] /\ Cardinality(V) = ValidUnits(buckets[k])
        /\ buckets[k] \subseteq kept /\ buckets[k] \subseteq TheUnits
    BY <2>1, <2>2 DEF HeldOut, Dealt
  <2>4. ASSUME NEW side, NEW us \in SUBSET buckets[k], Files(k, side, us) \subseteq Handled
        PROVE  us \subseteq OnSide(k, side)
    BY <2>4 DEF OnSide, Files
  <2>5. ASSUME NEW u \in OnSide(k, "valid"), u \in OnSide(k, "train") PROVE FALSE
    <3>1. u \in kept /\ u \in TheUnits
      BY <2>3 DEF OnSide
    <3>2. PICK i \in u : TRUE
      BY <3>1, UnitsDisjoint
    <3>3. ASSUME NEW side, u \in OnSide(k, side)
          PROVE  [client |-> k, side |-> side, image |-> i] \in Handled
      BY <3>2, <3>3 DEF OnSide, Files
    <3> DEFINE f == [client |-> k, side |-> "valid", image |-> i]
               g == [client |-> k, side |-> "train", image |-> i]
    <3>4. f \in Handled /\ g \in Handled
      BY <2>5, <3>3
    <3>5. f.side = g.side
      <4>1. f.image \in u /\ g.image \in u
        BY <3>2
      <4> HIDE DEF f, g
      <4> QED  BY <2>1, <3>1, <3>4, <4>1 DEF OnDisk
    <3> QED  BY <3>5
  <2>6. V \subseteq OnSide(k, "valid") /\ buckets[k] \ V \subseteq OnSide(k, "train")
    BY <2>2, <2>3, <2>4
  <2>7. OnSide(k, "valid") = V /\ OnSide(k, "train") = buckets[k] \ V
    BY <2>3, <2>5, <2>6 DEF OnSide
  <2>8. Cardinality(buckets[k]) \in Nat /\ Cardinality(buckets[k]) >= 2
    <3>1. IsFiniteSet(buckets[k])
      BY <2>3, UnitsFinite, FS_Subset
    <3> QED  BY <2>1, <3>1, FS_CardinalityType DEF SidesInv
  <2>9. V # buckets[k]
    BY <2>3, <2>8, ValidUnitsRange
  <2> QED  BY <2>3, <2>7, <2>9
<1> QED  BY <1>1, SplitInvariance, SidesInvariance, PTL
=============================================================================
