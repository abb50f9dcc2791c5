---------------------------- MODULE Partitioning ----------------------------
(***************************************************************************)
(* Splitting the training images among the clients (src/data_splitter.py,  *)
(* src/data_splitter_ext.py), one request after another over the same      *)
(* directory, each of which may be killed.                                 *)
(*                                                                         *)
(* A unit is the set of its images: one image, or the frames of one        *)
(* physical sign. A draw is a permutation of a class's units and the       *)
(* places where it is cut.                                                 *)
(***************************************************************************)
EXTENDS ClassMapping

CONSTANTS
  Source,          \* [image -> [class, track]], the training images
  SplitRequests,   \* [clients, strategy, unit, cap, min_samples]
  MaxAttempts,     \* max_resample_attempts
  StratifyFrom,    \* units needed to stratify, 10 in the code
  ValidShare,      \* one unit in so many is held out
  Missing,         \* images that may be gone by the time they are copied
  MaxSplits        \* bound: splits of one behaviour

NoCap == 0

ASSUME SplitAssumption ==
  /\ IsFiniteSet(DOMAIN Source)
  /\ \A i \in DOMAIN Source : Source[i].class \in Classes
  /\ Missing \subseteq DOMAIN Source
  /\ SplitRequests # {}
  /\ \A r \in SplitRequests :
       /\ r.clients \in Nat \ {0}
       /\ r.strategy \in {"stratified", "dirichlet"}
       /\ r.unit \in {"image", "track"}
       /\ r.cap \in Nat /\ r.min_samples \in Nat
  /\ MaxAttempts \in Nat \ {0} /\ StratifyFrom \in Nat /\ MaxSplits \in Nat
  /\ ValidShare \in Nat /\ ValidShare >= 2   \* a share is held out, not everything

VARIABLES
  request,    \* the configuration the splitter was made from
  splitting,  \* where split_dataset is
  kept,       \* units to be distributed
  todo,       \* classes not yet cut
  buckets,    \* [client -> units]
  attempt,
  client,     \* the client being written
  held_out,   \* its validation units
  tree,       \* files below the output directory: [client, side, image]
  skipped,    \* history: those this split would have copied, had it found the image
  splits

splitVars == <<request, splitting, kept, todo, buckets, attempt, client, held_out, tree,
               skipped, splits>>

SplitInit ==
  /\ request = CHOOSE r \in SplitRequests : TRUE
  /\ splitting = "idle"
  /\ kept = {} /\ todo = {} /\ buckets = <<>> /\ attempt = 0
  /\ client = 0 /\ held_out = {}
  /\ tree = {} /\ skipped = {}
  /\ splits = 0

-----------------------------------------------------------------------------
ClassOf(unit) == Source[CHOOSE i \in unit : TRUE].class

OfClass(units, c) == {u \in units : ClassOf(u) = c}

ClassesOf(units) == {ClassOf(u) : u \in units}

\* Mutant: images whatever the unit asked for.
EveryImage(unit) == {{i} : i \in DOMAIN Source}

\* The grouping key is (class, track): track numbers restart in every class.
Units(unit) ==
  IF unit = "image" THEN {{i} : i \in DOMAIN Source}
  ELSE {{j \in DOMAIN Source : Source[j] = Source[i]} : i \in DOMAIN Source}

AtMost(n, m) == IF n <= m THEN n ELSE m

\* At most `cap` units of each class, drawn at random.
Limited(units, cap) ==
  IF cap = NoCap THEN {units}
  ELSE {K \in SUBSET units : \A c \in ClassesOf(units) :
          Cardinality(OfClass(K, c)) = AtMost(Cardinality(OfClass(units, c)), cap)}

\* A class with fewer images than clients lowers the number of clients.
EffectiveClients ==
  LET counts == {Cardinality(OfClass(Units("image"), c)) : c \in ClassesOf(Units("image"))}
  IN  CHOOSE n \in counts \cup {request.clients} : \A m \in counts \cup {request.clients} : n <= m

AskSplit ==
  /\ splitting \in {"idle", "done", "failed"}
  /\ splits < MaxSplits
  /\ splits' = splits + 1
  /\ request' \in SplitRequests
  /\ splitting' = "clearing"
  /\ kept' = {} /\ todo' = {} /\ buckets' = <<>> /\ attempt' = 0
  /\ client' = 0 /\ held_out' = {} /\ skipped' = {}
  /\ UNCHANGED tree

\* Mutant: only the directories of the clients asked for are removed.
OldClientsKept == {f.client : f \in tree} \cap 1 .. request.clients

\* The directories _clear_existing_split removes.
ToRemove == {f.client : f \in tree}

Clear ==
  /\ splitting = "clearing"
  /\ \/ \E k \in ToRemove :
          /\ tree' = {f \in tree : f.client # k}
          /\ UNCHANGED splitting
     \/ /\ ToRemove = {}
        /\ splitting' = "limiting"
        /\ UNCHANGED tree
  /\ UNCHANGED <<request, kept, todo, buckets, attempt, client, held_out, skipped, splits>>

EmptyBuckets(n) == [k \in 1 .. n |-> {}]

Limit ==
  /\ splitting = "limiting"
  /\ \/ /\ request.strategy = "dirichlet"
        /\ kept' \in Limited(Units(request.unit), request.cap)
        /\ buckets' = EmptyBuckets(request.clients)
        /\ splitting' = "drawing"
     \/ /\ request.strategy = "stratified" /\ EffectiveClients >= 2
        /\ kept' = Units("image")
        /\ buckets' = EmptyBuckets(EffectiveClients)
        /\ splitting' = "drawing"
     \/ \* StratifiedKFold raises: it makes no fewer than two folds.
        /\ request.strategy = "stratified" /\ EffectiveClients < 2
        /\ splitting' = "failed"
        /\ UNCHANGED <<kept, buckets>>
  /\ todo' = ClassesOf(kept')
  /\ attempt' = 1
  /\ UNCHANGED <<request, client, held_out, tree, skipped, splits>>

-----------------------------------------------------------------------------
\* Classes come in the order of their labels.
NextClass ==
  LET label == CanonicalMap(Classes)
  IN  CHOOSE c \in todo : \A d \in todo : label[c] <= label[d]

\* The orders rng.shuffle may leave.
Orders(units) ==
  {order \in [1 .. Cardinality(units) -> units] :
     \A u \in units : \E i \in DOMAIN order : \A j \in DOMAIN order : order[j] = u <=> j = i}

\* The cut points a cumulative sum of proportions may give n units.
Cuts(n) ==
  {cuts \in [1 .. request.clients - 1 -> 0 .. n] :
     \A j, k \in 1 .. request.clients - 1 : j <= k => cuts[j] <= cuts[k]}

\* np.split: the last chunk is whatever is left.
Chunk(order, cuts, k) ==
  {order[i] : i \in {j \in DOMAIN order :
     /\ k # 1 => cuts[k - 1] < j
     /\ k # request.clients => j <= cuts[k]}}

CutClass ==
  /\ splitting = "drawing" /\ request.strategy = "dirichlet" /\ todo # {}
  /\ LET own == OfClass(kept, NextClass) IN
     \E order \in Orders(own), cuts \in Cuts(Cardinality(own)) :
       buckets' = [k \in DOMAIN buckets |-> buckets[k] \cup Chunk(order, cuts, k)]
  /\ todo' = todo \ {NextClass}
  /\ UNCHANGED <<request, splitting, kept, attempt, client, held_out, tree, skipped,
                 splits>>

\* StratifiedKFold, external: folds that share a class as evenly as they can.
Folds(units, n) ==
  {fold \in [units -> 1 .. n] : \A j, k \in 1 .. n :
     Cardinality({u \in units : fold[u] = j}) <= Cardinality({u \in units : fold[u] = k}) + 1}

FoldClass ==
  /\ splitting = "drawing" /\ request.strategy = "stratified" /\ todo # {}
  /\ LET own == OfClass(kept, NextClass) IN
     \E fold \in Folds(own, EffectiveClients) :
       buckets' = [k \in DOMAIN buckets |-> buckets[k] \cup {u \in own : fold[u] = k}]
  /\ todo' = todo \ {NextClass}
  /\ UNCHANGED <<request, splitting, kept, attempt, client, held_out, tree, skipped,
                 splits>>

MinUnitsPerClient == 2

Acceptable ==
  request.strategy = "dirichlet" => \A k \in DOMAIN buckets :
    /\ Cardinality(buckets[k]) >= MinUnitsPerClient
    /\ Cardinality(UNION buckets[k]) >= request.min_samples

Drawn == splitting = "drawing" /\ todo = {}

Accept ==
  /\ Drawn /\ Acceptable
  /\ splitting' = "train"
  /\ client' = 1
  /\ UNCHANGED <<request, kept, todo, buckets, attempt, held_out, tree, skipped, splits>>

\* Mutant: one attempt too many.
AttemptsLeftOrNone == attempt <= MaxAttempts

AttemptsLeft == attempt < MaxAttempts

\* Rejection sampling, and the ValueError after the last attempt.
Redraw ==
  /\ Drawn /\ ~Acceptable
  /\ attempt' = attempt + 1
  /\ \/ /\ AttemptsLeft
        /\ buckets' = EmptyBuckets(request.clients)
        /\ todo' = ClassesOf(kept)
        /\ UNCHANGED splitting
     \/ /\ ~AttemptsLeft
        /\ splitting' = "failed"
        /\ UNCHANGED <<buckets, todo>>
  /\ UNCHANGED <<request, kept, client, held_out, tree, skipped, splits>>

-----------------------------------------------------------------------------
\* ceil(n * validation_split_size).
ValidUnits(units) == (Cardinality(units) + ValidShare - 1) \div ValidShare

\* train_test_split, external: the validation sides it may choose, none when it
\* raises. Stratified it needs a place for every class on both sides.
RandomShares(units) ==
  IF ValidUnits(units) = Cardinality(units) THEN {}
  ELSE {V \in SUBSET units : Cardinality(V) = ValidUnits(units)}

StratifiedShares(units) ==
  LET classes == Cardinality(ClassesOf(units))
      n       == Cardinality(units)
      share(V, c) == n * Cardinality(OfClass(V, c))
                       - ValidUnits(units) * Cardinality(OfClass(units, c))
  IN  IF ValidUnits(units) < classes \/ n - ValidUnits(units) < classes THEN {}
      ELSE {V \in RandomShares(units) : \A c \in ClassesOf(units) :
              -n < share(V, c) /\ share(V, c) < n}

TwoOfEachClass(units) ==
  \A c \in ClassesOf(units) : Cardinality(OfClass(units, c)) >= 2

LastOnly(units) == {{u} : u \in units}

\* The inherited rule, for folds of images; the mutant is to use it for units.
InheritedShares(units) ==
  LET shares == IF Cardinality(units) >= StratifyFrom /\ TwoOfEachClass(units)
                THEN StratifiedShares(units) ELSE RandomShares(units)
  IN  IF shares # {} THEN shares ELSE LastOnly(units)

\* Stratify where every class can have its place, retry without, and only then
\* hold out a single unit.
UnitShares(units) ==
  LET stratify == /\ Cardinality(units) >= StratifyFrom
                  /\ TwoOfEachClass(units)
                  /\ ValidUnits(units) >= Cardinality(ClassesOf(units))
      shares == IF stratify THEN StratifiedShares(units) ELSE RandomShares(units)
  IN  IF shares # {} THEN shares
      ELSE IF RandomShares(units) # {} THEN RandomShares(units) ELSE LastOnly(units)

HoldOut(units) ==
  IF request.strategy = "dirichlet" THEN UnitShares(units) ELSE InheritedShares(units)

Files(k, side, units) == {[client |-> k, side |-> side, image |-> i] : i \in UNION units}

\* A source image that is not found is skipped with a warning.
Copy(k, side, units) ==
  \E gone \in SUBSET Missing :
    /\ tree' = tree \cup {f \in Files(k, side, units) : f.image \notin gone}
    /\ skipped' = skipped \cup {f \in Files(k, side, units) : f.image \in gone}

CopyTrain ==
  /\ splitting = "train"
  /\ held_out' \in HoldOut(buckets[client])
  /\ Copy(client, "train", buckets[client] \ held_out')
  /\ splitting' = "valid"
  /\ UNCHANGED <<request, kept, todo, buckets, attempt, client, splits>>

CopyValid ==
  /\ splitting = "valid"
  /\ Copy(client, "valid", held_out)
  /\ client' = client + 1
  /\ splitting' = IF client' \in DOMAIN buckets THEN "train" ELSE "done"
  /\ UNCHANGED <<request, kept, todo, buckets, attempt, held_out, splits>>

\* The launcher dies wherever it is; what is on disk stays.
KillSplit ==
  /\ splitting \notin {"idle", "done", "failed"}
  /\ splitting' = "idle"
  /\ kept' = {} /\ todo' = {} /\ buckets' = <<>> /\ attempt' = 0
  /\ client' = 0 /\ held_out' = {}
  /\ UNCHANGED <<request, tree, skipped, splits>>

SplitNext ==
  /\ \/ AskSplit \/ Clear \/ Limit \/ CutClass \/ FoldClass \/ Accept \/ Redraw
     \/ CopyTrain \/ CopyValid \/ KillSplit
  /\ UNCHANGED naming
=============================================================================
