--------------------------- MODULE Rearrangements ---------------------------
(***************************************************************************)
(* What the two permutation programs of obsolete_to_clean_up/ are about:   *)
(* the strings with the letters of a given one. Letters are numbers, in    *)
(* the order that std::map gives them.                                     *)
(***************************************************************************)
EXTENDS Integers, SequencesExt

CONSTANTS
  Letters,
  Texts     \* the strings to permute

ASSUME TextAssumption == Letters \subseteq Int /\ Texts \subseteq Seq(Letters)

(* The distinct strings with the letters of the text.                      *)
Rearranged(text) ==
  {t \in [DOMAIN text -> Range(text)] : ToBag(t) = ToBag(text)}

(* x comes before y, of the same length, in the dictionary.                *)
Before(x, y) ==
  \E k \in DOMAIN x : x[k] < y[k] /\ \A l \in 1 .. k - 1 : x[l] = y[l]

Factorial[n \in Nat] == IF n = 0 THEN 1 ELSE n * Factorial[n - 1]
=============================================================================
