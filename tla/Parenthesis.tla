----------------------------- MODULE Parenthesis -----------------------------
(***************************************************************************)
(* obsolete_to_clean_up/test_parenthesis.cpp: main() reads one expression  *)
(* after the other. check() counts the nesting level along it, reports the *)
(* first ')' that closes nothing, and throws at a character that is no     *)
(* parenthesis, which ends the program.                                    *)
(***************************************************************************)
EXTENDS Integers, Sequences, FiniteSets

CONSTANTS
  Characters,   \* what can be typed
  Expressions   \* the inputs

ASSUME ExpressionAssumption == Expressions \subseteq Seq(Characters)

VARIABLES
  s,             \* the expression
  i,             \* the position in it of the loop, from 0
  nested_level,
  answer         \* what check() is doing or has done

checkVars == <<s, i, nested_level, answer>>

(* std::cin >> input, then check(input).                                   *)
ReadExpression ==
  /\ answer \in {"none", "silent", "unbalanced"}
  /\ answer' = "checking"
  /\ s' \in Expressions
  /\ i' = 0 /\ nested_level' = 0

(* case '('                                                                *)
Open ==
  /\ answer = "checking" /\ i # Len(s) /\ s[i + 1] = "("
  /\ nested_level' = nested_level + 1
  /\ i' = i + 1
  /\ UNCHANGED <<s, answer>>

(* Wrong on purpose: the level is tested before it is decremented.         *)
CloseLate ==
  /\ answer = "checking" /\ i # Len(s) /\ s[i + 1] = ")"
  /\ nested_level' = nested_level - 1
  /\ \/ nested_level < 0 /\ answer' = "unbalanced" /\ i' = i
     \/ nested_level >= 0 /\ answer' = answer /\ i' = i + 1
  /\ UNCHANGED s

(* Wrong on purpose: --nested_level <= 0.                                  *)
CloseEager ==
  /\ answer = "checking" /\ i # Len(s) /\ s[i + 1] = ")"
  /\ nested_level' = nested_level - 1
  /\ \/ nested_level' <= 0 /\ answer' = "unbalanced" /\ i' = i
     \/ nested_level' > 0 /\ answer' = answer /\ i' = i + 1
  /\ UNCHANGED s

(* case ')': --nested_level < 0                                            *)
Close ==
  /\ answer = "checking" /\ i # Len(s) /\ s[i + 1] = ")"
  /\ nested_level' = nested_level - 1
  /\ \/ nested_level' < 0 /\ answer' = "unbalanced" /\ i' = i
     \/ nested_level' >= 0 /\ answer' = answer /\ i' = i + 1
  /\ UNCHANGED s

(* default: throw, and nobody catches it.                                  *)
Throw ==
  /\ answer = "checking" /\ i # Len(s) /\ s[i + 1] \notin {"(", ")"}
  /\ answer' = "thrown"
  /\ UNCHANGED <<s, i, nested_level>>

(* The end of the loop: check() returns without a word.                    *)
Return ==
  /\ answer = "checking" /\ i = Len(s)
  /\ answer' = "silent"
  /\ UNCHANGED <<s, i, nested_level>>

CheckInit == s = << >> /\ i = 0 /\ nested_level = 0 /\ answer = "none"

CheckNext == ReadExpression \/ Open \/ Close \/ Throw \/ Return

CheckSpec == CheckInit /\ [][CheckNext]_checkVars

-----------------------------------------------------------------------------
(* How often character c is among the first k.                             *)
Count(c, k) == Cardinality({j \in 1 .. k : s[j] = c})

(* The k-th character is no parenthesis, or closes one that nobody opened. *)
Foreign(k) == s[k] \notin {"(", ")"}
Offends(k) == Foreign(k) \/ (s[k] = ")" /\ Count(")", k) > Count("(", k))

FirstOffender(k) ==
  k \in DOMAIN s /\ Offends(k) /\ \A j \in 1 .. k - 1 : ~Offends(j)

(* What is reported is the first ')' without a '(' before it; something    *)
(* else than a parenthesis is noticed only before that; and nothing is     *)
(* reported only of an expression without either.                          *)
ReportsFirstOffender ==
  /\ answer = "unbalanced" => FirstOffender(i + 1) /\ s[i + 1] = ")"
  /\ answer = "thrown" => FirstOffender(i + 1) /\ Foreign(i + 1)
  /\ answer = "silent" => \A k \in DOMAIN s : ~Offends(k)

-----------------------------------------------------------------------------
(* A string of parentheses is balanced when each '(' is paired with a ')'  *)
(* after it, so that no two pairs cross.                                   *)
Places(t, c) == {k \in DOMAIN t : t[k] = c}

Pairs(pair) ==
  \A j \in DOMAIN pair :
    /\ j < pair[j]
    /\ \A k \in DOMAIN pair : j < k => pair[j] < k \/ pair[k] < pair[j]

Balanced(t) ==
  LET opens == Places(t, "(")
      closes == Places(t, ")")
  IN /\ opens \cup closes = DOMAIN t
     /\ Cardinality(opens) = Cardinality(closes)
     /\ \E pair \in [opens -> closes] :
          {pair[k] : k \in opens} = closes /\ Pairs(pair)

Answered == answer \in {"silent", "unbalanced", "thrown"}

(* A properly nested and balanced expression is never reported.            *)
BalancedAccepted == Answered /\ Balanced(s) => answer = "silent"

(* What the exercise asks for besides: any other expression is reported.   *)
UnbalancedReported == Answered /\ ~Balanced(s) => answer # "silent"

(* t with n more ')' at its end.                                           *)
Completed(t, n) == t \o [k \in 1 .. n |-> ")"]

(* All that the program misses: a string passes exactly when it is         *)
(* balanced or becomes so with more ')' at its end.                        *)
SilentWhenCompletable ==
  Answered =>
    (answer = "silent" <=>
       \E n \in 0 .. Len(s) : Balanced(Completed(s, n)))
=============================================================================
