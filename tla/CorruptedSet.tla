---------------------------- MODULE CorruptedSet ----------------------------
(***************************************************************************)
(* Building the corrupted test set (src/iot/gtsrb_c.py): a pool of worker  *)
(* processes writes every condition of every image of one subsample. A     *)
(* build may be killed and started again with other corruptions, another   *)
(* size or another number of workers.                                      *)
(*                                                                         *)
(* What is in a file is the term that says what was drawn for it: the      *)
(* state numpy's global generator had, what the operating system gave a    *)
(* generator made for the one call, or nothing.                            *)
(***************************************************************************)
EXTENDS ClassMapping, Sequences

CONSTANTS
  TestSets,        \* [image -> class directory], the test images there may be
  Corruptions,     \* one per corruption and severity
  DrawsGlobal,     \* those that draw from numpy's global generator
  DrawsOwn,        \* those that draw from a generator of their own
  Entropy,         \* what the operating system may seed such a one with
  BuildRequests,   \* [corruptions, size, jobs], the corruptions a sequence
  NoImage,         \* what a free worker is at
  MaxBuilds        \* bound: builds of one behaviour

ASSUME BuildAssumption ==
  /\ \A t \in TestSets : NoImage \notin DOMAIN t /\ \A i \in DOMAIN t : t[i] \in Classes
  /\ "clean" \notin Corruptions
  /\ DrawsGlobal \subseteq Corruptions /\ DrawsOwn \subseteq Corruptions \ DrawsGlobal
  /\ \A t \in TestSets : IsFiniteSet(DOMAIN t)
  /\ BuildRequests # {}
  /\ \A r \in BuildRequests :
       r.jobs \in Nat \ {0} /\ r.size \in Nat /\ r.corruptions \in Seq(Corruptions)
  /\ MaxBuilds \in Nat

VARIABLES
  test_set,   \* the images of the test directory
  order,      \* what the build is asked for
  building,   \* "idle", "dirs", "pool" or "done"
  dirs,       \* <<condition, class>> directories below the output
  content,    \* [<<condition, image>> -> what the file holds]
  queue,      \* images no worker has taken
  working,    \* [worker -> [image, next, seeded]], next an index into its conditions
  generator,  \* [worker -> state of its global generator]
  manifest,   \* the conditions the manifest lists, {} before there is one
  builds,
  written     \* history: [file, what] of the files any build has saved whole

buildVars == <<test_set, order, building, dirs, content, queue, working, generator,
               manifest, builds, written>>

BuildInit ==
  /\ test_set \in TestSets
  /\ order = CHOOSE r \in BuildRequests : TRUE
  /\ building = "idle"
  /\ dirs = {} /\ content = <<>>
  /\ queue = {}
  /\ working = <<>> /\ generator = <<>>
  /\ manifest = {}
  /\ builds = 0
  /\ written = {}

-----------------------------------------------------------------------------
InClass(c) == {i \in DOMAIN test_set : test_set[i] = c}

TestClasses == {c \in Classes : InClass(c) # {}}

Total == Cardinality(DOMAIN test_set)

\* `size` in proportion to the classes: the floor, but at least one image. What
\* is left over goes one by one to the largest remainders, what is too much is
\* taken one by one from the largest shares, ties in order of the names.
Allocation ==
  LET count(c)     == Cardinality(InClass(c))
      exact(c)     == order.size * count(c)
      share(c)     == IF exact(c) < Total THEN 1 ELSE exact(c) \div Total
      left         == order.size - Cardinality(UNION {{c} \X (1 .. share(c)) : c \in TestClasses})
      open         == {c \in TestClasses : share(c) < count(c)}
      large        == {c \in TestClasses : share(c) > 1}
      ahead(a, b, c, d) == a > b \/ (a = b /\ naming.rank[c] < naming.rank[d])
      byRemainder(c) == {d \in open : ahead(exact(d) % Total, exact(c) % Total, d, c)}
      bySize(c)    == {d \in large : ahead(share(d), share(c), d, c)}
  IN  [c \in TestClasses |->
         IF order.size >= Total THEN count(c)
         ELSE IF c \in open /\ Cardinality(byRemainder(c)) < left THEN share(c) + 1
         ELSE IF c \in large /\ Cardinality(bySize(c)) < -left THEN share(c) - 1
         ELSE share(c)]

\* The draw of a class is seeded by the class: builds of one size pick the same.
Subsample ==
  UNION {CHOOSE S \in SUBSET InClass(c) : Cardinality(S) = Allocation[c] : c \in TestClasses}

Conditions(request) == <<"clean">> \o request.corruptions

AsSet(sequence) == {sequence[i] : i \in DOMAIN sequence}

\* The directories of the build, in the order they are made.
NextDir ==
  LET list    == Conditions(order)
      missing == {d \in AsSet(list) \X TestClasses : d \notin dirs}
      at(d)   == CHOOSE i \in DOMAIN list : list[i] = d[1]
  IN  CHOOSE d \in missing : \A e \in missing :
        at(d) < at(e) \/ (at(d) = at(e) /\ naming.rank[d[2]] <= naming.rank[e[2]])

StartBuild ==
  /\ building \in {"idle", "done"}
  /\ builds < MaxBuilds
  /\ builds' = builds + 1
  /\ order' \in BuildRequests
  /\ building' = "dirs"
  /\ UNCHANGED <<test_set, dirs, content, queue, working, generator, manifest,
                 written>>

DirsMade == AsSet(Conditions(order)) \X TestClasses \subseteq dirs

\* Every directory up front, in the parent.
MakeDir ==
  /\ building = "dirs" /\ ~DirsMade
  /\ dirs' = dirs \cup {NextDir}
  /\ UNCHANGED <<test_set, order, building, content, queue, working, generator, manifest, builds,
                 written>>

Free == [image |-> NoImage, next |-> 1, seeded |-> FALSE]

\* The workers of the pool start from the parent's generator.
StartPool ==
  /\ building = "dirs" /\ DirsMade
  /\ building' = "pool"
  /\ queue' = Subsample
  /\ working' = [w \in 1 .. order.jobs |-> Free]
  /\ generator' = [w \in 1 .. order.jobs |-> <<"process">>]
  /\ UNCHANGED <<test_set, order, dirs, content, manifest, builds, written>>

\* The pool hands out tasks in any order.
TakeTask(w) ==
  /\ building = "pool" /\ working[w].image = NoImage
  /\ \E i \in queue :
       /\ queue' = queue \ {i}
       /\ working' = [working EXCEPT ![w] = [Free EXCEPT !.image = i]]
  /\ UNCHANGED <<test_set, order, building, dirs, content, generator, manifest, builds, written>>

AtImage(w) == building = "pool" /\ working[w].image # NoImage

\* The file a worker is at: the condition, and the image.
At(w) == <<Conditions(order)[working[w].next], working[w].image>>

\* derive_seed over image, corruption and severity.
Seed(i, condition) == <<"seed", i, condition>>

\* Mutant: seeded for the first file of a worker only.
SeedOnce(w) ==
  /\ AtImage(w) /\ At(w)[1] # "clean" /\ ~working[w].seeded
  /\ generator' = [generator EXCEPT ![w] =
       IF @ = <<"process">> THEN Seed(At(w)[2], At(w)[1]) ELSE @]
  /\ working' = [working EXCEPT ![w].seeded = TRUE]
  /\ UNCHANGED <<test_set, order, building, dirs, content, queue, manifest, builds, written>>

\* np.random.seed, before every corruption.
SeedGenerator(w) ==
  /\ AtImage(w) /\ At(w)[1] # "clean" /\ ~working[w].seeded
  /\ generator' = [generator EXCEPT ![w] = Seed(At(w)[2], At(w)[1])]
  /\ working' = [working EXCEPT ![w].seeded = TRUE]
  /\ UNCHANGED <<test_set, order, building, dirs, content, queue, manifest, builds, written>>

\* What a corruption may draw, when the global generator is in this state, and
\* the state it leaves. impulse_noise goes through skimage's random_noise, whose
\* default_rng() np.random.seed does not reach; a blur draws nothing.
Draws(condition, state) ==
  CASE condition \in DrawsGlobal -> {state}
    [] condition \in DrawsOwn    -> {<<"entropy", e>> : e \in Entropy}
    [] OTHER                     -> {<<"nothing">>}

Left(condition, state) == IF condition \in DrawsGlobal THEN <<"after", state>> ELSE state

Saved(files, what) ==
  [f \in DOMAIN content \cup files |-> IF f \in files THEN what ELSE content[f]]

\* One file is on disk; after the last condition the worker is free.
Save(w, what) ==
  /\ content' = Saved({At(w)}, what)
  /\ written' = written \cup {[file |-> At(w), what |-> what]}
  /\ working' = [working EXCEPT ![w] =
       IF working[w].next = Len(Conditions(order)) THEN Free
       ELSE [image |-> working[w].image, next |-> working[w].next + 1, seeded |-> FALSE]]
  /\ UNCHANGED <<test_set, order, building, dirs, queue, manifest, builds>>

SaveClean(w) ==
  /\ AtImage(w) /\ At(w)[1] = "clean"
  /\ Save(w, <<"resized">>)
  /\ UNCHANGED generator

CorruptAndSave(w) ==
  /\ AtImage(w) /\ working[w].seeded
  /\ \E drawn \in Draws(At(w)[1], generator[w]) : Save(w, drawn)
  /\ generator' = [generator EXCEPT ![w] = Left(At(w)[1], @)]

\* Mutant: the parent does not wait for the tasks it has handed out.
NothingQueued == queue = {}

PoolDrained == queue = {} /\ \A w \in DOMAIN working : working[w].image = NoImage

WriteManifest ==
  /\ building = "pool" /\ PoolDrained
  /\ building' = "done"
  /\ manifest' = AsSet(Conditions(order))
  /\ UNCHANGED <<test_set, order, dirs, content, queue, working, generator, builds, written>>

Truncated == <<"truncated">>

\* The build is killed, or an exception in a worker takes the pool down, and each
\* worker leaves the file it was saving half written or has not opened it yet.
KillBuild ==
  /\ building \in {"dirs", "pool"}
  /\ building' = "idle"
  /\ \E saving \in SUBSET {w \in DOMAIN working :
                              AtImage(w) /\ (At(w)[1] = "clean" \/ working[w].seeded)} :
       content' = Saved({At(w) : w \in saving}, Truncated)
  /\ queue' = {}
  /\ working' = <<>> /\ generator' = <<>>
  /\ UNCHANGED <<test_set, order, dirs, manifest, builds, written>>

BuildNext ==
  /\ \/ StartBuild \/ MakeDir \/ StartPool
     \/ \E w \in DOMAIN working :
          TakeTask(w) \/ SaveClean(w) \/ SeedGenerator(w) \/ CorruptAndSave(w)
     \/ WriteManifest \/ KillBuild
  /\ UNCHANGED naming
=============================================================================
