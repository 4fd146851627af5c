------------------------------ MODULE BigIntBase ------------------------------
(***************************************************************************)
(* The integers of the dex, which have a width and wrap around: the        *)
(* operations of them that are not those of the mathematical integers.     *)
(***************************************************************************)
EXTENDS Integers

\* BigIntBase.hof: a result out of bounds comes back at the other end.
Hof(value, min, max) == ((value - min) % (max - min + 1)) + min

\* BigIntBase.div, by a positive number: towards zero, unlike \div
Quotient(a, b) == IF a >= 0 THEN a \div b ELSE -((-a) \div b)

\* BigIntBase.mod, by a positive number: never negative
Remainder(a, b) == a % b

\* BigIntBase.shr, towards minus infinity
ShiftedRight(a, bits) == a \div 2^bits
===============================================================================
