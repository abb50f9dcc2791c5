------------------------ MODULE MCDatasetPreparation ------------------------
(***************************************************************************)
(* Seven signs in three classes, one of them with two frames; one to three *)
(* clients, requests that always, sometimes and never find an acceptable   *)
(* draw. A test set of seven or nine images, of which three or four are    *)
(* built with one or two workers.                                          *)
(***************************************************************************)
EXTENDS DatasetPreparation

CONSTANTS a, b, c

MCClasses == {a, b, c}

\* <<class, track>> of each training image; track numbers restart in a class.
MCSource ==
  LET where == <<<<a, 1>>, <<a, 1>>, <<a, 2>>, <<a, 3>>, <<b, 1>>, <<b, 2>>, <<c, 1>>, <<c, 2>>>>
  IN  [i \in DOMAIN where |-> [class |-> where[i][1], track |-> where[i][2]]]

\* Numbers from zero whose sorted order is not their own (0, 10, 2); names without
\* a number.
MCNamings ==
  LET called(ranks, digits) ==
        [rank   |-> [n \in MCClasses |-> ranks[CASE n = a -> 1 [] n = b -> 2 [] n = c -> 3]],
         digits |-> [n \in MCClasses |-> digits[CASE n = a -> 1 [] n = b -> 2 [] n = c -> 3]]]
  IN  {called(<<0, 2, 1>>, <<0, 2, 10>>),
       called(<<2, 0, 1>>, <<NoDigits, NoDigits, NoDigits>>)}

Wanted(clients, strategy, unit, cap, min_samples) ==
  [clients |-> clients, strategy |-> strategy, unit |-> unit, cap |-> cap,
   min_samples |-> min_samples]

MCSplitRequests ==
  {Wanted(1, "dirichlet", "track", 2, 3), Wanted(2, "dirichlet", "track", NoCap, 3),
   Wanted(3, "dirichlet", "track", 2, 2), Wanted(2, "dirichlet", "image", 1, 3),
   Wanted(3, "stratified", "image", NoCap, 3), Wanted(1, "stratified", "image", NoCap, 3)}

MCTestSets == {<<a, a, a, b, b, b, c>>, <<a, a, a, a, a, a, b, b, c>>}

MCBuildRequests ==
  {[corruptions |-> <<"fog_s5">>, size |-> 4, jobs |-> 2],
   [corruptions |-> <<"impulse_noise_s5", "fog_s5">>, size |-> 3, jobs |-> 1]}
=============================================================================
