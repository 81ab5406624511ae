--------------------------- MODULE PermuteLetters ---------------------------
(***************************************************************************)
(* obsolete_to_clean_up/permute_string_letters.cpp: permute() swaps each   *)
(* letter in turn to the current level and recurs. It does not swap back,  *)
(* so every call works on what the previous one has left in the string.    *)
(* Levels and positions count from 1.                                      *)
(***************************************************************************)
EXTENDS Rearrangements

VARIABLES
  input,     \* the string that all calls share
  given,     \* what it was before the outermost call
  indexes,   \* the i of each call that is in its loop, by its level
  printed,   \* what the outermost call has printed
  permuting  \* what the innermost call is doing

permuteVars == <<input, given, indexes, printed, permuting>>

(* Wrong on purpose: the letter of the level is lost.                      *)
SwapCopies(text, level, k) == [text EXCEPT ![level] = text[k]]

(* std::swap(input[level], input[i])                                       *)
Swap(text, level, k) == [text EXCEPT ![level] = text[k], ![k] = text[level]]

(* main() calls permute().                                                 *)
PermuteText ==
  /\ permuting \in {"none", "done"}
  /\ permuting' = "called"
  /\ given' \in Texts /\ input' = given'
  /\ indexes' = << >> /\ printed' = << >>

(* A call at a level that the string has begins its loop.                  *)
BeginLoop ==
  /\ permuting = "called" /\ Len(indexes) < Len(input)
  /\ permuting' = "loop"
  /\ indexes' = Append(indexes, Len(indexes) + 1)
  /\ UNCHANGED <<input, given, printed>>

(* A call is over: the calls below it are callers, the last one goes on    *)
(* with its next letter.                                                   *)
ReturnTo(callers) ==
  \/ /\ callers = << >>
     /\ permuting' = "done" /\ indexes' = callers
  \/ /\ callers # << >>
     /\ permuting' = "loop"
     /\ indexes' = [callers EXCEPT ![Len(callers)] = @ + 1]

(* A call below the last level prints the string.                          *)
PrintText ==
  /\ permuting = "called" /\ Len(indexes) >= Len(input)
  /\ printed' = Append(printed, input)
  /\ ReturnTo(indexes)
  /\ UNCHANGED <<input, given>>

SwapAndRecur ==
  /\ permuting = "loop" /\ Last(indexes) <= Len(input)
  /\ permuting' = "called"
  /\ input' = Swap(input, Len(indexes), Last(indexes))
  /\ UNCHANGED <<given, indexes, printed>>

EndLoop ==
  /\ permuting = "loop" /\ Last(indexes) > Len(input)
  /\ ReturnTo(Front(indexes))
  /\ UNCHANGED <<input, given, printed>>

PermuteInit ==
  /\ input = << >> /\ given = << >>
  /\ indexes = << >> /\ printed = << >> /\ permuting = "none"

PermuteNext ==
  PermuteText \/ BeginLoop \/ PrintText \/ SwapAndRecur \/ EndLoop

PermuteSpec == PermuteInit /\ [][PermuteNext]_permuteVars

-----------------------------------------------------------------------------
(* As many strings are printed as n letters have permutations, the given   *)
(* one first, and each has its letters, although no call puts the letters  *)
(* back that it has swapped.                                               *)
PermutesLetters ==
  permuting = "done" =>
    /\ Len(printed) = Factorial[Len(given)]
    /\ printed[1] = given
    /\ Range(printed) \subseteq Rearranged(given)

(* "find all permutations of the letters in a particular string" (l. 13),  *)
(* "Permute recursively all the letters in a string" (l. 22).              *)
FindsAllPermutations ==
  permuting = "done" => Range(printed) = Rearranged(given)
=============================================================================
