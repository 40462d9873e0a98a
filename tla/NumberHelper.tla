---------------------------- MODULE NumberHelper ----------------------------
(***************************************************************************)
(* The overflow checks of util.cpp and NumberHelper::ARandRange, with the  *)
(* 32 bits of int and unsigned int.  Signed overflow, undefined in C++, is *)
(* taken to wrap, as it does when gcc does not optimise.                   *)
(***************************************************************************)
EXTENDS Integers

UintMod == 4294967296
IntMax == 2147483647
IntMin == -2147483648
Uint == {n \in Nat : n < UintMod}
Int32 == {n \in Int : IntMin <= n /\ n <= IntMax}
RAND_MAX == 2147483647

ToUint(n) == n % UintMod
ToInt(n) == IF n % UintMod > IntMax THEN (n % UintMod) - UintMod ELSE n % UintMod

-----------------------------------------------------------------------------
(* "Determine whether arguments can be added without overflow." *)
uadd_ok(x, y) == ~(ToUint(x + y) < x)
usub_ok(x, y) == y = 0 \/ ~uadd_ok(x, ToUint(-y))

tadd_ok(x, y) ==
  ~(((x < 0) = (y < 0)) /\ ((ToInt(x + y) < 0) # (x < 0)))

(* The overload for a signed second argument; abs(INT_MIN) is INT_MIN. *)
Abs32(y) == IF y < 0 THEN ToInt(-y) ELSE y
uadd_ok_int(x, y) == IF y >= 0 THEN uadd_ok(x, y) ELSE usub_ok(x, ToUint(Abs32(y)))

-----------------------------------------------------------------------------
(* A number in a .. b from r \in 0 .. RAND_MAX; the rounding of the double *)
(* product is left out.                                                    *)
ARandRange(a, b, r) ==
  IF a >= b THEN a
  ELSE LET n == ToInt(ToInt(b + 1) - a)
       IN  ToInt(a + (IF n >= 0 THEN (n * r) \div (RAND_MAX + 1)
                                ELSE -((-n * r) \div (RAND_MAX + 1))))
=============================================================================
