--------------------------------- MODULE Int32 ---------------------------------
(***************************************************************************)
(* The 32-bit int of C, as two halves of 16 bits in two's complement, for  *)
(* the products that the timeouts of the library go through: these leave   *)
(* the range of an int, and the builds of the library wrap around.  A      *)
(* result is stored in tv_nsec, a 64-bit long, with its sign.              *)
(***************************************************************************)
EXTENDS Integers

Half == 65536

Int32 == [hi : 0 .. Half - 1, lo : 0 .. Half - 1]

(* A natural number below 2^31. *)
ToInt32(n) == [hi |-> n \div Half, lo |-> n % Half]

(* The product with a factor below 2^15. *)
Times(p, k) ==
  LET low == p.lo * k
  IN [hi |-> (p.hi * k + low \div Half) % Half, lo |-> low % Half]

Negative(p) == p.hi >= Half \div 2

(* What the system calls accept as nanoseconds: 10^9 is 15258 * 2^16 +     *)
(* 51712.                                                                  *)
ValidNsec(p) == p.hi < 15258 \/ (p.hi = 15258 /\ p.lo < 51712)
=============================================================================
