----------------------------- MODULE BinPacking -----------------------------
(***************************************************************************)
(* obsolete_to_clean_up/bin_packing_best_worst_fit.cpp: the objects are    *)
(* put into bins one after the other, by the worst-fit and then by the     *)
(* best-fit heuristic. Both keep a bag of numbers: a priority queue of the *)
(* used amount of each bin, and a multiset of the amount that is free.     *)
(* They are floats: a sum or a difference is rounded to the nearest one.   *)
(* Amounts are counted in units so small that each float is a whole number *)
(* of them. MAX_VAL - e is a double, exact for the weights that main()     *)
(* draws, and rounded when the multiset takes it as a float.               *)
(***************************************************************************)
EXTENDS Integers, SequencesExt

CONSTANTS
  MAX_VAL,   \* what one bin holds
  Rounded,   \* the float that a sum or difference is rounded to
  Objects    \* the sequences of weights main() may draw

(* The amounts up to MAX_VAL that are floats.                              *)
Floats == {x \in 0 .. MAX_VAL : Rounded[x] = x}

(* MAX_VAL is a float, a float is not rounded, and rounding keeps order.   *)
ASSUME PackingAssumption ==
  /\ MAX_VAL \in Nat
  /\ Rounded \in [0 .. 2 * MAX_VAL -> 0 .. 2 * MAX_VAL]
  /\ Rounded[MAX_VAL] = MAX_VAL
  /\ \A x \in 0 .. 2 * MAX_VAL : Rounded[Rounded[x]] = Rounded[x]
  /\ \A x, y \in 0 .. 2 * MAX_VAL : x <= y => Rounded[x] <= Rounded[y]
  /\ Objects \subseteq Seq(Floats)

VARIABLES
  loop,            \* where main() is: which of the loops runs
  metal_objects,   \* the weights
  object,          \* the position in them of the loop
  worst_fit_bins,  \* the used amounts
  best_fit_bins    \* the free amounts

packVars == <<loop, metal_objects, object, worst_fit_bins, best_fit_bins>>

NoBins == EmptyBag

(* One bin more, and one less.                                             *)
AddBin(bins, amount) == bins (+) SetToBag({amount})
RemoveBin(bins, amount) == bins (-) SetToBag({amount})

(* A bin of the bag gets another amount.                                   *)
Change(bins, old, new) == AddBin(RemoveBin(bins, old), new)

-----------------------------------------------------------------------------
(* main() draws the weights.                                               *)
GenerateObjects ==
  /\ loop = "generate"
  /\ loop' = "worst fit"
  /\ metal_objects' \in Objects
  /\ UNCHANGED <<object, worst_fit_bins, best_fit_bins>>

(* What both loops do: one more object, or the end of the loop.            *)
Turn(name) ==
  /\ loop = name /\ object <= Len(metal_objects)
  /\ object' = object + 1
  /\ UNCHANGED <<loop, metal_objects>>

LoopEnds(name, next) ==
  /\ loop = name /\ object > Len(metal_objects)
  /\ loop' = next
  /\ object' = 1
  /\ UNCHANGED <<metal_objects, worst_fit_bins, best_fit_bins>>

(* The bin that top() and pop() take from the priority queue.              *)
Top(bins, top) ==
  top \in BagToSet(bins) /\ \A b \in BagToSet(bins) : top <= b

(* Wrong on purpose: an object that fills a bin exactly opens a new one.   *)
WorstFitStrict ==
  /\ Turn("worst fit")
  /\ LET e == metal_objects[object] IN
       \/ /\ \A b \in BagToSet(worst_fit_bins) :
               Top(worst_fit_bins, b) => Rounded[b + e] >= MAX_VAL
          /\ worst_fit_bins' = AddBin(worst_fit_bins, e)
       \/ \E top \in BagToSet(worst_fit_bins) :
            /\ Top(worst_fit_bins, top) /\ Rounded[top + e] < MAX_VAL
            /\ worst_fit_bins' = Change(worst_fit_bins, top, Rounded[top + e])
  /\ UNCHANGED best_fit_bins

(* The object goes to the emptiest bin, or to a new one if there is no bin *)
(* or the object does not fit in.                                          *)
WorstFit ==
  /\ Turn("worst fit")
  /\ LET e == metal_objects[object] IN
       \/ /\ \A b \in BagToSet(worst_fit_bins) :
               Top(worst_fit_bins, b) => Rounded[b + e] > MAX_VAL
          /\ worst_fit_bins' = AddBin(worst_fit_bins, e)
       \/ \E top \in BagToSet(worst_fit_bins) :
            /\ Top(worst_fit_bins, top) /\ Rounded[top + e] <= MAX_VAL
            /\ worst_fit_bins' = Change(worst_fit_bins, top, Rounded[top + e])
  /\ UNCHANGED best_fit_bins

WorstFitEnds == LoopEnds("worst fit", "print")

(* main() takes the bins out of the priority queue to print them.          *)
PrintWorst ==
  /\ loop = "print"
  /\ \E top \in BagToSet(worst_fit_bins) :
       /\ Top(worst_fit_bins, top)
       /\ worst_fit_bins' = RemoveBin(worst_fit_bins, top)
  /\ UNCHANGED <<loop, metal_objects, object, best_fit_bins>>

PrintWorstEnds ==
  /\ loop = "print" /\ BagToSet(worst_fit_bins) = {}
  /\ loop' = "best fit"
  /\ UNCHANGED <<metal_objects, object, worst_fit_bins, best_fit_bins>>

(* Wrong on purpose: upper_bound().                                        *)
UpperBound(bins, e, b) ==
  /\ b \in BagToSet(bins) /\ b > e
  /\ \A c \in BagToSet(bins) : c > e => b <= c

(* lower_bound(): the least element of the multiset that is not below e.   *)
LowerBound(bins, e, b) ==
  /\ b \in BagToSet(bins) /\ b >= e
  /\ \A c \in BagToSet(bins) : c >= e => b <= c

(* The object goes to the bin with the least room that takes it, or to a   *)
(* new one when lower_bound() finds none.                                  *)
BestFit ==
  /\ Turn("best fit")
  /\ LET e == metal_objects[object] IN
       \/ /\ \A b \in BagToSet(best_fit_bins) : ~LowerBound(best_fit_bins, e, b)
          /\ best_fit_bins' = AddBin(best_fit_bins, Rounded[MAX_VAL - e])
       \/ \E b \in BagToSet(best_fit_bins) :
            /\ LowerBound(best_fit_bins, e, b)
            /\ best_fit_bins' = Change(best_fit_bins, b, Rounded[b - e])
  /\ UNCHANGED worst_fit_bins

BestFitEnds == LoopEnds("best fit", "done")

-----------------------------------------------------------------------------
PackInit ==
  /\ loop = "generate"
  /\ metal_objects = << >> /\ object = 1
  /\ worst_fit_bins = NoBins /\ best_fit_bins = NoBins

PackNext ==
  \/ GenerateObjects
  \/ WorstFit \/ WorstFitEnds
  \/ PrintWorst \/ PrintWorstEnds
  \/ BestFit \/ BestFitEnds

PackSpec == PackInit /\ [][PackNext]_packVars

-----------------------------------------------------------------------------
(* A bin with room a could not take an object that, alone in a bin, leaves *)
(* no less room than b.                                                    *)
OpenedFor(a, b) == \E e \in Floats : e > a /\ b <= Rounded[MAX_VAL - e]

(* No bin is overfull as the program counts, and none is opened while      *)
(* another has room: with the worst fit two bins always are too much for   *)
(* one, and with the best fit one of them has no room for what is in the   *)
(* other.                                                                  *)
NoTwoBinsFitInOne ==
  /\ BagToSet(worst_fit_bins) \cup BagToSet(best_fit_bins) \subseteq Floats
  /\ \A a, b \in BagToSet(worst_fit_bins) :
       (a # b \/ worst_fit_bins[a] > 1) => Rounded[a + b] > MAX_VAL
  /\ \A a, b \in BagToSet(best_fit_bins) :
       (a # b \/ best_fit_bins[a] > 1) => OpenedFor(a, b) \/ OpenedFor(b, a)

-----------------------------------------------------------------------------
(* Reference definitions. *)

(* f[1] + ... + f[n].                                                      *)
SumTo(f, n) ==
  LET sum[k \in 0 .. n] == IF k = 0 THEN 0 ELSE sum[k - 1] + f[k] IN sum[n]

(* How many bins of the bag have the amount.                               *)
Copies(x, bins) == IF x \in DOMAIN bins THEN bins[x] ELSE 0

-----------------------------------------------------------------------------
(* The heuristics in the words of the exercise, for bins that can be told  *)
(* apart: the object goes to one of the bins that can take it, the one     *)
(* with the largest (smallest) room, else to a new bin. p are the used     *)
(* (free) amounts of the bins.                                             *)
WorstFitPlaces(p, e) ==
  LET fits == {k \in DOMAIN p : Rounded[p[k] + e] <= MAX_VAL} IN
  IF fits = {} THEN {Append(p, e)}
  ELSE {[p EXCEPT ![k] = Rounded[@ + e]] :
          k \in {m \in fits : \A l \in fits : p[m] <= p[l]}}

BestFitPlaces(p, e) ==
  LET fits == {k \in DOMAIN p : p[k] >= e} IN
  IF fits = {} THEN {Append(p, Rounded[MAX_VAL - e])}
  ELSE {[p EXCEPT ![k] = Rounded[@ - e]] :
          k \in {m \in fits : \A l \in fits : p[m] <= p[l]}}

(* The bins a bag of amounts can stand for.                                *)
BinsOf(bins, most) ==
  {p \in UNION {[1 .. n -> BagToSet(bins)] : n \in 0 .. most} : ToBag(p) = bins}

(* Whatever bins the amounts belong to, there is one to which the exercise *)
(* may send the object and which leads to the amounts the program keeps.   *)
PlacedAsAsked ==
  object <= Len(metal_objects) =>
    LET e == metal_objects[object]
        most == Len(metal_objects)
    IN /\ loop = "worst fit" =>
            \A p \in BinsOf(worst_fit_bins, most) :
              \E q \in WorstFitPlaces(p, e) : ToBag(q) = worst_fit_bins'
       /\ loop = "best fit" =>
            \A p \in BinsOf(best_fit_bins, most) :
              \E q \in BestFitPlaces(p, e) : ToBag(q) = best_fit_bins'

(* Every step of the two loops places its object as the exercise asks.     *)
FollowsHeuristics == [][PlacedAsAsked]_packVars
=============================================================================
