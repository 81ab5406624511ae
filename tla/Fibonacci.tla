------------------------------ MODULE Fibonacci ------------------------------
(***************************************************************************)
(* constexpr/constexpr_fibonacci.cpp: the loop that computes a Fibonacci   *)
(* number. Its long long int holds every number up to fibonacci(92).       *)
(***************************************************************************)
EXTENDS Integers

CONSTANT Arguments   \* of the calls

ASSUME ArgumentAssumption == Arguments \subseteq {n \in Int : n <= 92}

VARIABLES
  v,             \* the argument
  turn,          \* the i of the loop
  u_n,
  u_n_minus_1,
  call           \* what fibonacci() is doing or has done

fibVars == <<v, turn, u_n, u_n_minus_1, call>>

(* Wrong on purpose: the loop runs once more.                              *)
LoopLonger == turn <= v

(* The condition of the loop. *)
Loop == turn < v

(* A call, up to the loop.                                                 *)
Call ==
  /\ call # "loop"
  /\ call' = "loop"
  /\ v' \in Arguments
  /\ u_n_minus_1' = 0 /\ u_n' = 0 + 1
  /\ turn' = 1

Advance ==
  /\ call = "loop" /\ Loop
  /\ u_n' = u_n + u_n_minus_1
  /\ u_n_minus_1' = u_n
  /\ turn' = turn + 1
  /\ UNCHANGED <<v, call>>

ReturnNumber ==
  /\ call = "loop" /\ ~Loop
  /\ call' = "returned"
  /\ UNCHANGED <<v, turn, u_n, u_n_minus_1>>

FibInit == v = 0 /\ turn = 0 /\ u_n = 0 /\ u_n_minus_1 = 0 /\ call = "none"

FibNext == Call \/ Advance \/ ReturnNumber

FibSpec == FibInit /\ [][FibNext]_fibVars

-----------------------------------------------------------------------------
(* The Fibonacci numbers. *)
Fib[n \in Nat] == IF n < 2 THEN n ELSE Fib[n - 1] + Fib[n - 2]

(* What is returned is the Fibonacci number of the argument, and 1 for an  *)
(* argument that has none; the number of 0, which is 0, is not known.      *)
FibonacciSums ==
  call = "returned" => u_n = IF v < 1 THEN 1 ELSE Fib[v]
=============================================================================
