------------------------------- MODULE Words -------------------------------
(***************************************************************************)
(* The arithmetic of the language and of the machine: an int is a word of  *)
(* Word values, 2^32 in the code, and the operators wrap around.           *)
(***************************************************************************)
EXTENDS Integers

CONSTANT Word  \* number of values of a word

ASSUME WordAssumption == Word \in Nat /\ Word > 1 /\ Word % 2 = 0

Values == 0 .. Word - 1

Signed(x) == IF x < Word \div 2 THEN x ELSE x - Word

Abs(x) == IF x < 0 THEN 0 - x ELSE x

\* Division rounds to zero.
Quotient(n, d) ==
  LET q == Abs(n) \div Abs(d) IN IF (n < 0) = (d < 0) THEN q ELSE 0 - q

\* The divisor is zero, or the quotient is not a word.
NoQuotient(n, d) ==
  d # 0 => Quotient(n, d) \notin -(Word \div 2) .. Word \div 2 - 1

\* Variant of Meaning: sums, differences and products do not wrap around.
WithoutWrapping(type, x, y) ==
  CASE type = "add" -> x + y [] type = "sub" -> x - y [] OTHER -> x * y

\* What an operation means for its operands.
Meaning(type, x, y) ==
  CASE type = "add" -> (x + y) % Word
    [] type = "sub" -> (x - y) % Word
    [] type = "mul" -> (x * y) % Word
    [] type = "div" -> Quotient(Signed(x), Signed(y)) % Word
=============================================================================
