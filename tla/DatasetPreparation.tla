------------------------- MODULE DatasetPreparation -------------------------
(***************************************************************************)
(* The two tools that write image trees the rest of the program reads:     *)
(* the clients' shares (Partitioning) and the corrupted test set           *)
(* (CorruptedSet). They run in different processes over different          *)
(* directories and share the names of the classes and nothing else, so a   *)
(* behaviour runs one of them.                                             *)
(***************************************************************************)
EXTENDS Partitioning, CorruptedSet

CONSTANT
  Namings      \* what the class directories may be called

ASSUME NamingAssumption ==
  \A n \in Namings : n.rank \in [Classes -> Nat] /\ n.digits \in [Classes -> Nat \cup {NoDigits}]

Sides == {"train", "valid"}

VARIABLE
  tool         \* the tool at work, "split" or "build"

vars == <<naming, tool, splitVars, buildVars>>

Init ==
  /\ NamingInit(Namings)
  /\ tool \in {"split", "build"}
  /\ SplitInit
  /\ BuildInit
  /\ tool = "split" => test_set = CHOOSE t \in TestSets : TRUE   \* it never looks

Split ==
  /\ tool = "split"
  /\ SplitNext
  /\ UNCHANGED <<tool, buildVars>>

Build ==
  /\ tool = "build"
  /\ BuildNext
  /\ UNCHANGED <<tool, splitVars>>

Next == Split \/ Build

Spec == Init /\ [][Next]_vars

-----------------------------------------------------------------------------
Images == DOMAIN Source

AllUnits == Units("image") \cup Units("track")

TreeFiles == [client : Nat \ {0}, side : Sides, image : Images]

AllConditions == UNION {AsSet(Conditions(r)) : r \in BuildRequests}

\* Every variable of the two tools stays in its type.
TypeOK ==
  /\ naming \in Namings
  /\ tool \in {"split", "build"}
  /\ request \in SplitRequests
  /\ splitting \in {"idle", "clearing", "limiting", "drawing", "train", "valid", "done",
                   "failed"}
  /\ kept \subseteq AllUnits
  /\ todo \subseteq Classes
  /\ \A k \in DOMAIN buckets : k \in Nat \ {0} /\ buckets[k] \subseteq kept
  /\ attempt \in 0 .. MaxAttempts + 1
  /\ client \in Nat
  /\ held_out \subseteq kept
  /\ tree \subseteq TreeFiles
  /\ skipped \subseteq TreeFiles /\ {f.image : f \in skipped} \subseteq Missing
  /\ splits \in 0 .. MaxSplits
  /\ test_set \in TestSets
  /\ order \in BuildRequests
  /\ building \in {"idle", "dirs", "pool", "done"}
  /\ dirs \subseteq AllConditions \X Classes
  /\ DOMAIN content \subseteq AllConditions \X DOMAIN test_set
  /\ queue \subseteq DOMAIN test_set
  /\ DOMAIN working = DOMAIN generator
  /\ \A w \in DOMAIN working :
       /\ working[w].image \in DOMAIN test_set \cup {NoImage}
       /\ working[w].next \in DOMAIN Conditions(order)
       /\ working[w].seeded \in BOOLEAN
  /\ manifest \subseteq AllConditions
  /\ builds \in 0 .. MaxBuilds
  /\ \A x \in written : x.file \in AllConditions \X DOMAIN test_set

\* What this split has copied, or would have if it had found the image.
Handled == tree \cup skipped

\* A finished split has handled every image it was to distribute once, for one
\* client and one side, and nothing else is on disk: neither a draw that was
\* thrown away nor an earlier split, finished or killed, with more clients than
\* this one leaves a file (data_splitter.py 95-134, data_splitter_ext.py 322-355).
OnceOnDisk ==
  splitting = "done" =>
    /\ {f.image : f \in Handled} = UNION kept
    /\ \A f, g \in Handled : f.image = g.image => f = g
    /\ {f.client : f \in Handled} \subseteq DOMAIN buckets

\* When the unit is the track, the frames of one physical sign are never with
\* two clients nor on both sides of one, at any moment a client may be reading
\* (data_splitter_ext.py 205-237, 377-398).
SignsTogether ==
  /\ request.strategy = "dirichlet" /\ request.unit = "track"
  /\ splitting \in {"drawing", "train", "valid", "done"}
  => \A f, g \in tree : Source[f.image] = Source[g.image]
                          => f.client = g.client /\ f.side = g.side

\* Validation of a client in whole units.
OnSide(k, side) == {u \in buckets[k] : Files(k, side, {u}) \subseteq Handled}

\* However the classes fall, each client of a Dirichlet split validates on the
\* share it was asked to hold out and not on the one-unit last resort, and has
\* something left to train on (data_splitter_ext.py 400-461).
ValidationAsAsked ==
  splitting = "done" /\ request.strategy = "dirichlet" =>
    \A k \in DOMAIN buckets :
      /\ Cardinality(OnSide(k, "valid")) = ValidUnits(buckets[k])
      /\ OnSide(k, "train") = buckets[k] \ OnSide(k, "valid")
      /\ OnSide(k, "train") # {}

\* Classes a side of a client has a directory of, made before the image is looked for.
ClassesOnSide(k, side) ==
  {Source[f.image].class : f \in {g \in Handled : g.client = k /\ g.side = side}}

ClassesOfCondition(condition) == {d[2] : d \in {e \in dirs : e[1] = condition}}

\* A class has one label: on both sides of every client, though neither has all
\* classes, and in every condition of the test set whose own numbers
\* assert_canonical_labels accepts, if the names have numbers or the build came
\* to its end (class_mapping.py 117-187, model_manager_ext.py 178-218).
LabelsAgree ==
  LET labels(k, side) == RemappedMap(ClassesOnSide(k, side))
      clients == {f.client : f \in Handled}
      tested(condition) == ImageFolderMap(ClassesOfCondition(condition))
  IN
  /\ \A j, k \in clients, s, t \in Sides :
       \A c \in ClassesOnSide(j, s) \cap ClassesOnSide(k, t) : labels(j, s)[c] = labels(k, t)[c]
  /\ \A condition \in {d[1] : d \in dirs} :
       /\ AcceptedAsIs(ClassesOfCondition(condition))
       /\ Numeric(Classes) \/ (building = "done" /\ condition \in manifest)
       => \A c \in ClassesOfCondition(condition) :
            tested(condition)[c] = RemappedMap(ClassesOfCondition(condition))[c]

\* Whoever writes a file of an image and a condition, in whichever build, with
\* however many workers and after whatever tasks, draws the same for it, unless
\* the corruption draws from a generator that is not seeded (gtsrb_c.py 292-296).
SameWheneverBuilt ==
  \A x, y \in written :
    x.file = y.file /\ x.file[1] \notin DrawsOwn => x.what = y.what

\* When a build comes to its end, after whatever builds died before it, each
\* condition of the manifest holds every image of the subsample, whole, and the
\* subsample leaves no class out (gtsrb_c.py 198-235, 307-362).
FinishedIsComplete ==
  building = "done" =>
    /\ \A condition \in manifest, i \in Subsample :
         /\ <<condition, i>> \in DOMAIN content
         /\ content[<<condition, i>>] # Truncated
    /\ \A c \in TestClasses : Subsample \cap InClass(c) # {}
    /\ manifest = AsSet(Conditions(order))
=============================================================================
