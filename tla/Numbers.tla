-------------------------------- MODULE Numbers --------------------------------
(***************************************************************************)
(* The arithmetic that the key exchanges of tlslite take from their big    *)
(* number library.                                                         *)
(***************************************************************************)
EXTENDS Integers

Prime(q) == q \in Nat /\ q > 1 /\ \A d \in 2..(q - 1) : q % d # 0

powMod(base, power, n) ==
    LET f[i \in 0..power] == IF i = 0 THEN 1 % n ELSE (f[i - 1] * base) % n
    IN  f[power]
=============================================================================
