----------------------------- MODULE MCExamples -----------------------------
(***************************************************************************)
(* The smaller programs, one at a time: the sequential ones on all inputs  *)
(* up to a length, the channel example with several sizes, and the second  *)
(* router with the sizes of its program.                                   *)
(***************************************************************************)
EXTENDS BinPacking, Parenthesis, PermuteLetters, PermuteUnique, Fibonacci,
        ChannelExample, AsyncRouter

CONSTANTS
  Kinds,      \* the programs to check
  MaxLength   \* of the inputs

VARIABLE kind   \* the program

(* All sequences over S with a length from m to n.                         *)
Sequences(S, m, n) == UNION {[1 .. k -> S] : k \in m .. n}

(* Floats with two significant bits: 0 to 4, 6, 8, 12, 16. A number is     *)
(* rounded to the nearest of them, of two to the one with an even last bit.*)
Spacing(x) == IF x < 4 THEN 1 ELSE IF x < 8 THEN 2 ELSE 4

ToFloat == [x \in 0 .. 2 * MAX_VAL |->
  LET unit == Spacing(x)
      steps == x \div unit
      twice == 2 * (x % unit)
  IN unit * IF twice > unit \/ (twice = unit /\ steps % 2 = 1)
            THEN steps + 1 ELSE steps]

Weights == Sequences(Floats, 0, MaxLength - 1)
Typed == {"(", ")", "x"}
Lines == Sequences(Typed, 1, MaxLength + 1)
Alphabet == 1 .. 4
Words == Sequences(Alphabet, 0, MaxLength - 2)
Counts == -2 .. 20

sequentialVars == <<packVars, checkVars, permuteVars, uniqueVars, fibVars>>
allVars == <<kind, sequentialVars, exampleVars, asyncVars>>

Init ==
  /\ kind \in Kinds
  /\ PackInit /\ CheckInit /\ PermuteInit /\ UniqueInit /\ FibInit
  /\ ExampleInit /\ AsyncInit
  /\ kind # "messages" => capacity = 4 /\ message_length = 10

Sequential ==
  \/ /\ kind = "weights" /\ PackNext
     /\ UNCHANGED <<checkVars, permuteVars, uniqueVars, fibVars>>
  \/ /\ kind = "parentheses" /\ CheckNext
     /\ UNCHANGED <<packVars, permuteVars, uniqueVars, fibVars>>
  \/ /\ kind = "letters" /\ PermuteNext
     /\ UNCHANGED <<packVars, checkVars, uniqueVars, fibVars>>
  \/ /\ kind = "distinct" /\ UniqueNext
     /\ UNCHANGED <<packVars, checkVars, permuteVars, fibVars>>
  \/ /\ kind = "fibonacci" /\ FibNext
     /\ UNCHANGED <<packVars, checkVars, permuteVars, uniqueVars>>

Messages ==
  /\ kind = "messages" /\ ExampleNext
  /\ UNCHANGED <<kind, sequentialVars, asyncVars>>

Packets ==
  /\ kind = "packets" /\ AsyncNext
  /\ UNCHANGED <<kind, sequentialVars, exampleVars>>

Next ==
  \/ Sequential /\ UNCHANGED <<kind, exampleVars, asyncVars>>
  \/ Messages
  \/ Packets

Spec == Init /\ [][Next]_allVars

(* The fairness of ExampleFairSpec and AsyncFairSpec, for the program that *)
(* runs.                                                                   *)
FairSpec ==
  /\ Spec
  /\ WF_allVars(Messages)
  /\ WF_allVars(Packets /\ AsyncMainStep)
  /\ WF_allVars(Packets /\ RouterStep)
  /\ \A t \in Clients : WF_allVars(Packets /\ ClientStep(t))

-----------------------------------------------------------------------------
(* The main() of the channel example returns: see MainReturns.             *)
ExampleReturns == kind = "messages" => MainReturns

(* The main() of the second router ends: see MainEnds.                     *)
AsyncEnds == kind = "packets" => MainEnds
=============================================================================
