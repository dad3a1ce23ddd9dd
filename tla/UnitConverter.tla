----------------------------- MODULE UnitConverter -----------------------------
(***************************************************************************)
(* UnitConverter (src/utils/UnitConverter.cpp): which unit a number of     *)
(* bytes or bits is shown in.  A result is the fraction num / den and the  *)
(* unit; the unit 0 of a result means that there is none.  Where num / den *)
(* is cut to two digits is left out.                                       *)
(***************************************************************************)
EXTENDS Integers

CONSTANTS Decimal, Binary \* the divisors 1000 and 1024; bits use Decimal

\* UnitType: 0 and 5 stand for the best unit; KB to TB and KiB to TiB follow.
AUTO == 0
AUTO_I == 5

\* What a unit of the n-th size holds.
Powers(d) == <<d, d * d, d * (d * d), d * (d * (d * d))>>

Divisor(unit) == IF unit < AUTO_I THEN Decimal ELSE Binary

\* How often the loop divides; C++ cuts a quotient off, which makes no difference
\* below 0, where the loop is not entered.
Divisions(d) == LET n[b \in Int] == IF b \div d >= d THEN 1 + n[b \div d] ELSE 0 IN n

\* Mutant: a value that reaches the divisor stays in its unit.
GetBestUnitForBytes_Above(bytes, auto) ==
  LET d == Divisor(auto)
      n[b \in Int] == IF b \div d > d THEN 1 + n[b \div d] ELSE 0
  IN  auto + n[bytes] + 1

\* GetBestUnitForBytes, and the same loop in ConvertBytes; for very many bytes the
\* result is a unit of the other kind, or none.
GetBestUnitForBytes(bytes, auto) == auto + Divisions(Divisor(auto))[bytes] + 1

\* ConvertBytes with one of the units
InUnit(bytes, unit) ==
  IF unit \in {AUTO, AUTO_I} \/ unit > AUTO_I + 4
  THEN [num |-> bytes, den |-> 1, unit |-> AUTO]
  ELSE [num |-> bytes, den |-> Powers(Divisor(unit))[unit % AUTO_I], unit |-> unit]

\* ConvertBytes
ConvertBytes(bytes, unit) ==
  IF unit \notin {AUTO, AUTO_I} THEN InUnit(bytes, unit)
  ELSE InUnit(bytes, GetBestUnitForBytes(bytes, unit))

\* ConvertBytesToBits: Kbit, Mbit and Gbit, or bits.
ConvertBytesToBits(bytes) ==
  LET bits == 8 * bytes
      unit == Divisions(Decimal)[bits] + 1
  IN  IF unit > 3 THEN [num |-> bits, den |-> 1, unit |-> AUTO]
      ELSE [num |-> bits, den |-> Powers(Decimal)[unit], unit |-> unit]
=============================================================================
