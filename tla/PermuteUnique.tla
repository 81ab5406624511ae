---------------------------- MODULE PermuteUnique ----------------------------
(***************************************************************************)
(* obsolete_to_clean_up/permute_unique_string_letters.cpp: perm() prints   *)
(* the permutations of a string by backtracking. One map counts the        *)
(* letters that are left and one string holds the letters that were        *)
(* picked; all calls of the recursion share them, so each must leave them  *)
(* as it found them. The iterator of a loop is a slot in memory: when a    *)
(* deeper call has erased the entry there, it points to nothing.           *)
(***************************************************************************)
EXTENDS Rearrangements

CONSTANT Slots   \* where the allocator may put the entry of a letter

VARIABLES
  word,         \* the input of permute()
  permutation,
  char_map,
  slot,        \* of the entry of each letter, the last one if erased
  loops,        \* of each call in its loop: the letter and the slot i
                \* is at, and whether it was erased from the map
  out,          \* what was printed
  perming       \* what the innermost call is doing

uniqueVars == <<word, permutation, char_map, slot, loops, out, perming>>

(* permute(): the histogram of the input, and the outermost call of perm() *)
PermuteWord ==
  /\ perming \in {"none", "done"}
  /\ perming' = "called"
  /\ word' \in Texts
  /\ permutation' = << >> /\ loops' = << >> /\ out' = << >>
  /\ char_map' = ToBag(word')
  /\ slot' \in [Range(word') -> Slots]

(* The loop appends letter c, takes one instance of it and recurs.         *)
Recur(string, map, slots, callers, c) ==
  /\ perming' = "called"
  /\ permutation' = Append(string, c)
  /\ char_map' = map (-) SetToBag({c})
  /\ slot' = slots
  /\ loops' = Append(callers, [letter |-> c, slot |-> slots[c],
                              erased |-> map[c] = 1])

PermReturns(callers) ==
  /\ perming' = IF callers = << >> THEN "done" ELSE "returned"
  /\ loops' = callers

PrintPermutation ==
  /\ perming = "called" /\ BagToSet(char_map) = {}
  /\ out' = Append(out, permutation)
  /\ PermReturns(loops)
  /\ UNCHANGED <<word, permutation, char_map, slot>>

(* i = char_map.begin()                                                    *)
FirstLetter ==
  /\ perming = "called"
  /\ \E c \in BagToSet(char_map) :
       /\ \A d \in BagToSet(char_map) : c <= d
       /\ Recur(permutation, char_map, slot, loops, c)
  /\ UNCHANGED <<word, out>>

(* The letter to restore after the recursion: if it was erased, the last   *)
(* one of the string is inserted, else i still is where it was.            *)
LetterBack ==
  IF Last(loops).erased THEN Last(permutation) ELSE Last(loops).letter

(* Wrong on purpose: the last instance of a letter is not put back.        *)
RestoreCounted ==
  IF Last(loops).erased THEN char_map
  ELSE [char_map EXCEPT ![LetterBack] = @ + 1]

(* char_map.insert({ c, 1 }): an entry that is there stays.                *)
Insert(map, c) ==
  [d \in BagToSet(map) \cup {c} |-> IF d \in BagToSet(map) THEN map[d] ELSE 1]

(* The map after the recursion: the letter is inserted with one instance,  *)
(* or counted again.                                                       *)
Restore ==
  IF Last(loops).erased THEN Insert(char_map, LetterBack)
  ELSE [char_map EXCEPT ![LetterBack] = @ + 1]

(* The entries, when the allocator puts the inserted one at n.             *)
Replaced(n) ==
  IF Last(loops).erased THEN [slot EXCEPT ![LetterBack] = n] ELSE slot

(* Wrong on purpose: the iterator that insert() returns is not kept.       *)
IteratorKept(slots) == Last(loops).slot

(* i after the recursion: what insert() returns, or still the same.        *)
Iterator(slots) ==
  IF Last(loops).erased THEN slots[LetterBack] ELSE Last(loops).slot

(* The entry of the letter is where i points to. It is not if i was kept   *)
(* and a deeper call has erased the entry and inserted it elsewhere; at    *)
(* the same slot the use of i works, although its entry was erased.        *)
Points(slots) == Iterator(slots) = slots[LetterBack]

(* The letters that are still to come in the loop.                         *)
Greater == {d \in BagToSet(Restore) : d > LetterBack}

(* The letter is restored and trimmed off, and ++i finds another one.      *)
NextLetter ==
  /\ perming = "returned"
  /\ \E n \in Slots, c \in Greater :
       /\ Points(Replaced(n))
       /\ \A d \in Greater : c <= d
       /\ Recur(Front(permutation), Restore, Replaced(n), Front(loops), c)
  /\ UNCHANGED <<word, out>>

(* The letter is restored and trimmed off, and i reaches end().            *)
EndLetters ==
  /\ perming = "returned" /\ Greater = {}
  /\ \E n \in Slots : Points(Replaced(n)) /\ slot' = Replaced(n)
  /\ permutation' = Front(permutation)
  /\ char_map' = Restore
  /\ PermReturns(Front(loops))
  /\ UNCHANGED <<word, out>>

(* ++(i->second) and ++i with an iterator to memory that was freed: what   *)
(* the program does from there on is not defined.                          *)
UseInvalid ==
  /\ perming = "returned"
  /\ \E n \in Slots : ~Points(Replaced(n))
  /\ perming' = "undefined"
  /\ UNCHANGED <<word, permutation, char_map, slot, loops, out>>

UniqueInit ==
  /\ word = << >> /\ permutation = << >> /\ char_map = EmptyBag
  /\ slot = << >> /\ loops = << >> /\ out = << >> /\ perming = "none"

UniqueNext ==
  \/ PermuteWord \/ PrintPermutation
  \/ FirstLetter \/ NextLetter \/ EndLetters \/ UseInvalid

UniqueSpec == UniqueInit /\ [][UniqueNext]_uniqueVars

-----------------------------------------------------------------------------
(* Where perm() comes to its end, every distinct permutation is printed,   *)
(* once, in the order of the dictionary, and the recursion leaves the      *)
(* string empty and the map full as it found them. With a repeated letter  *)
(* this is up to the allocator: see UndefinedIfRepeated.                   *)
PermutesUnique ==
  perming = "done" =>
    /\ Range(out) = Rearranged(word)
    /\ \A k, l \in DOMAIN out : k < l => Before(out[k], out[l])
    /\ permutation = << >> /\ char_map = ToBag(word)

(* A letter that occurs once is erased and inserted by the same call: only *)
(* the iterator of a repeated letter is ever used after its entry is gone. *)
UndefinedIfRepeated ==
  perming = "undefined" => \E k, l \in DOMAIN word : k # l /\ word[k] = word[l]

(* The loop manages the iterator while the calls below modify the map: it  *)
(* never restores a letter through an entry that was erased.               *)
ManagesIterator == perming # "undefined"
=============================================================================
