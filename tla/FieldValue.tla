----------------------------- MODULE FieldValue -----------------------------
(***************************************************************************)
(* How a Field's value gets from a text to its variable and back to a text  *)
(* (BranchField::writeValue, print, and the "wrt" of printToFile): the      *)
(* conversions of the integer types and of Boolean, with the widths of the  *)
(* C types as parameters.  Float and Double are left out, a DateTime has no *)
(* value of its own.                                                        *)
(***************************************************************************)
EXTENDS Integers

CONSTANTS
  UnsignedType, SignedType,  \* names of the integer types; "int64" and "uint64" are two of them
  Modulus                    \* type |-> 2^(its width in bits); "int" is C's int, "long" its long

IntType == UnsignedType \cup SignedType

(* A long is as wide as Int64, an int as Int32 and no narrower than any type*)
(* but the two of 64 bits; every modulus is even.                           *)
ASSUME WidthsOK ==
  /\ {"byte", "uint64"} \subseteq UnsignedType /\ {"sbyte", "int64"} \subseteq SignedType
  /\ UnsignedType \cap SignedType = {}
  /\ Modulus \in [IntType \cup {"int", "long"} -> Nat]
  /\ \A t \in DOMAIN Modulus : Modulus[t] > 0 /\ Modulus[t] % 2 = 0
  /\ Modulus["sbyte"] = Modulus["byte"] /\ Modulus["byte"] * Modulus["byte"] <= Modulus["int"]
  /\ Modulus["int64"] = Modulus["long"] /\ Modulus["uint64"] = Modulus["long"]
  /\ \A t \in IntType \ {"int64", "uint64"} : Modulus["int"] % Modulus[t] = 0
  /\ 2 * Modulus["int"] <= Modulus["long"]

\* The values of a type with m values.
UnsignedRange(m) == 0 .. m - 1
SignedRange(m) == -(m \div 2) .. m \div 2 - 1
Value(t) == IF t \in SignedType THEN SignedRange(Modulus[t]) ELSE UnsignedRange(Modulus[t])

\* Conversions keep the low bits.
ToUnsigned(n, m) == n % m
ToSigned(n, m) == ((n + m \div 2) % m) - m \div 2
Converted(t, n) == IF t \in SignedType THEN ToSigned(n, Modulus[t]) ELSE ToUnsigned(n, Modulus[t])

\* strtol stops at the ends of long; atol is strtol, atoi is strtol as an int.
Atol(n) ==
  LET half == Modulus["long"] \div 2
  IN  IF n < -half THEN -half ELSE IF n > half - 1 THEN half - 1 ELSE n
Atoi(n) == ToSigned(Atol(n), Modulus["int"])

\* Mutant: the value is not cut to the type.
WrittenAsRead(t, n) == IF t = "int64" THEN Atol(n) ELSE Atoi(n)

\* writeValue of the number n; only Int64 is read with atol.
Written(t, n) == Converted(t, IF t = "int64" THEN Atol(n) ELSE Atoi(n))

(* The number print and printToFile show for the value v.  A Byte is read   *)
(* as a UInt16 and an SByte as an Int16, so that g, the byte behind the     *)
(* variable, comes with it.                                                 *)
Shown(t, v, g) ==
  LET m == Modulus["byte"]
  IN  CASE t = "byte" -> v + m * g
        [] t = "sbyte" -> ToSigned((v % m) + m * g, m * m)
        [] OTHER -> v
=============================================================================
