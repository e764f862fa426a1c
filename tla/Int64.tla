------------------------------- MODULE Int64 --------------------------------
(***************************************************************************)
(* Arithmetic on double words that the processor does not have, with words *)
(* of B bits instead of 32: the division of klib                           *)
(* (src/abstract-machine/klib/src/int64.c) and the multiplication, shift   *)
(* and division routines linked into programs for NPC, which has no M      *)
(* extension (src/abstract-machine/am/src/riscv/npc/libgcc).               *)
(***************************************************************************)
EXTENDS Integers, Sequences

CONSTANTS B,       \* bits of a word; a double word has 2 * B
          Halves   \* the steps of __clzsi2: <<B \div 2, B \div 4, ..., 2>>

Words == 0..(2^B - 1)
Dwords == 0..(2^(2*B) - 1)
W1(x) == x % 2^B
W2(x) == x % 2^(2*B)
Lo(x) == x % 2^B
Hi(x) == x \div 2^B
Join(high, low) == high * 2^B + low
Shl(x, k) == W1(x * 2^k)
Shr(x, k) == x \div 2^k
Flag(b) == IF b THEN 1 ELSE 0
IsPow2(x) == \E k \in 0..B : x = 2^k       \* (x & (x - 1)) == 0, x # 0
Neg2(x) == W2(-x)
IsNeg(x) == x >= 2^(2*B - 1)

-----------------------------------------------------------------------------
(* __clzsi2: one step per half; t is the half if the upper half is empty.  *)
RECURSIVE ClzStep(_, _, _)
ClzStep(x, r, i) ==
  IF i > Len(Halves) THEN r + (IF x < 2 THEN 2 - x ELSE 0)
  ELSE LET h == Halves[i]
           t == IF Shr(x, h) = 0 THEN h ELSE 0
       IN ClzStep(Shr(x, h - t), r + t, i + 1)
clzsi2(x) == ClzStep(x, 0, 1)

(* __ctzsi2, likewise from the other end; the garbage above is masked last.*)
RECURSIVE CtzStep(_, _, _)
CtzStep(x, r, i) ==
  IF i > Len(Halves)
  THEN LET y == x % 4 IN r + (IF y % 2 = 0 THEN 2 - Shr(y, 1) ELSE 0)
  ELSE LET h == Halves[i]
           t == IF x % 2^h = 0 THEN h ELSE 0
       IN CtzStep(Shr(x, t), r + t, i + 1)
ctzsi2(x) == CtzStep(x, 0, 1)

(* __clzdi2 and __ctzdi2: the word that decides, and B if it is the other. *)
clzdi2(a) == IF Hi(a) = 0 THEN clzsi2(Lo(a)) + B ELSE clzsi2(Hi(a))
ctzdi2(a) == IF Lo(a) = 0 THEN ctzsi2(Hi(a)) + B ELSE ctzsi2(Lo(a))

-----------------------------------------------------------------------------
(* q = n << (2B - sr) and r = n >> sr, by words: a shift by B bits does    *)
(* not exist, hence the cases.                                             *)
Align(n, sr) ==
  CASE sr = B -> [q |-> Join(Lo(n), 0), r |-> Hi(n), sr |-> sr]
    [] sr < B -> [q |-> Join(Shl(Lo(n), B - sr), 0),
                  r |-> Join(Shr(Hi(n), sr), Shl(Hi(n), B - sr) + Shr(Lo(n), sr)),
                  sr |-> sr]
    [] sr > B -> [q |-> Join(Shl(Hi(n), 2*B - sr) + Shr(Lo(n), sr - B),
                             Shl(Lo(n), 2*B - sr)),
                  r |-> Shr(Hi(n), sr - B),
                  sr |-> sr]

(* The loop: shift r:q left by one bit and subtract the divisor when it    *)
(* fits, found out by the sign of d - r - 1.                               *)
RECURSIVE DivLoop(_, _, _, _, _)
DivLoop(q, r, carry, sr, d) ==
  IF sr = 0 THEN [q |-> W2(2*q + carry), r |-> r]
  ELSE LET r1 == W2(2*r + Shr(q, 2*B - 1))
           s == IsNeg(W2(d - r1 - 1))
       IN DivLoop(W2(2*q + carry), IF s THEN W2(r1 - d) ELSE r1, Flag(s), sr - 1, d)

Long(n, sr, d) == LET a == Align(n, sr) IN DivLoop(a.q, a.r, 0, a.sr, d)

(* __udivmoddi4 for d # 0.  sr is unsigned: a negative difference is large.*)
udivmoddi4(n, d) ==
  LET nh == Hi(n)  nl == Lo(n)  dh == Hi(d)  dl == Lo(d)
      k == clzsi2(dh) - clzsi2(nh)
      sr0 == 1 + B + clzsi2(dl) - clzsi2(nh)
      c == ctzsi2(dl)
  IN CASE nh = 0 /\ dh = 0 -> [q |-> nl \div dl, r |-> nl % dl]
       [] nh = 0 /\ dh # 0 -> [q |-> 0, r |-> nl]
       [] nh # 0 /\ dl = 0 /\ nl = 0 ->
            [q |-> nh \div dh, r |-> Join(nh % dh, 0)]
       [] nh # 0 /\ dl = 0 /\ nl # 0 /\ IsPow2(dh) ->
            [q |-> Shr(nh, ctzsi2(dh)), r |-> Join(nh % dh, nl)]
       [] nh # 0 /\ dl = 0 /\ nl # 0 /\ ~IsPow2(dh) ->
            IF k < 0 \/ k > B - 2 THEN [q |-> 0, r |-> n] ELSE Long(n, k + 1, d)
       [] nh # 0 /\ dl # 0 /\ dh = 0 /\ IsPow2(dl) ->
            [q |-> IF dl = 1 THEN n
                   ELSE Join(Shr(nh, c), Shl(nh, B - c) + Shr(nl, c)),
             r |-> nl % dl]
       [] nh # 0 /\ dl # 0 /\ dh = 0 /\ ~IsPow2(dl) -> Long(n, sr0, d)
       [] OTHER ->
            IF k < 0 \/ k > B - 1 THEN [q |-> 0, r |-> n] ELSE Long(n, k + 1, d)

(* __divdi3, __moddi3: on the absolute values, the sign put back after.    *)
Abs2(x) == IF IsNeg(x) THEN Neg2(x) ELSE x
divdi3(a, b) ==
  LET q == udivmoddi4(Abs2(a), Abs2(b)).q
  IN IF IsNeg(a) # IsNeg(b) THEN Neg2(q) ELSE q
moddi3(a, b) ==
  LET r == udivmoddi4(Abs2(a), Abs2(b)).r IN IF IsNeg(a) THEN Neg2(r) ELSE r
divmoddi4(a, b) == LET d == divdi3(a, b) IN [q |-> d, r |-> W2(a - d * b)]

-----------------------------------------------------------------------------
(* libgcc for NPC, words of B bits (xlen).  div.S: the divisor is shifted  *)
(* up until it is not below the dividend or its sign bit is set, then down.*)
NegW(x) == W1(-x)
IsNegW(x) == x >= 2^(B - 1)
RECURSIVE ShiftUp(_, _, _)
ShiftUp(n, d, bit) ==
  IF IsNegW(d) THEN [d |-> d, bit |-> bit]
  ELSE LET d2 == Shl(d, 1)
       IN IF n > d2 THEN ShiftUp(n, d2, Shl(bit, 1)) ELSE [d |-> d2, bit |-> Shl(bit, 1)]
RECURSIVE ShiftDown(_, _, _, _)
ShiftDown(n, d, bit, q) ==
  IF bit = 0 THEN [q |-> q, r |-> n]
  ELSE ShiftDown(IF n < d THEN n ELSE n - d, Shr(d, 1), Shr(bit, 1),
                 IF n < d THEN q ELSE q + bit)
udivsi3(n, d) ==
  LET up == ShiftUp(n, d, 1)
  IN CASE d = 0 -> [q |-> 2^B - 1, r |-> n]
       [] d >= n /\ d # 0 -> ShiftDown(n, d, 1, 0)
       [] OTHER -> ShiftDown(n, up.d, up.bit, 0)
AbsW(x) == IF IsNegW(x) THEN NegW(x) ELSE x
(* A negative dividend with a divisor that is 0 is not negated again.      *)
divsi3(a, b) ==
  LET q == udivsi3(AbsW(a), AbsW(b)).q
  IN CASE ~IsNegW(a) /\ ~IsNegW(b) -> q
       [] ~IsNegW(a) /\ IsNegW(b) -> NegW(q)
       [] IsNegW(a) /\ ~IsNegW(b) /\ b # 0 -> NegW(q)
       [] OTHER -> q
modsi3(a, b) ==
  LET r == udivsi3(AbsW(a), AbsW(b)).r IN IF IsNegW(a) THEN NegW(r) ELSE r

(* muldi3.S: __mulsi3 by shift and add.                                    *)
RECURSIVE MulLoop(_, _, _)
MulLoop(acc, u, v) ==
  LET acc1 == IF v % 2 = 1 THEN W1(acc + u) ELSE acc
  IN IF Shr(v, 1) = 0 THEN acc1 ELSE MulLoop(acc1, Shl(u, 1), Shr(v, 1))
mulsi3(u, v) == MulLoop(0, u, v)

(* multi3.c: the product of the low words with its carries in w_high_tmp,  *)
(* then the two cross products into the high word.                         *)
RECURSIVE LowProduct(_, _, _, _, _)
LowProduct(u_low, v_low, w_low, w_high, tmp) ==
  LET new == W1(w_low + u_low)
      odd == v_low % 2 = 1
      low == IF odd THEN new ELSE w_low
      high == IF odd THEN W1(Flag(new < w_low) + tmp + w_high) ELSE w_high
      tmp1 == Shr(u_low, B - 1) + Shl(tmp, 1)
  IN IF Shr(v_low, 1) = 0 THEN [low |-> low, high |-> high]
     ELSE LowProduct(Shl(u_low, 1), Shr(v_low, 1), low, high, tmp1)
muldi3(u, v) ==
  LET w == LowProduct(Lo(u), Lo(v), 0, 0, 0)
      h1 == IF Hi(u) # 0 THEN W1(w.high + mulsi3(Lo(v), Hi(u))) ELSE w.high
      h2 == IF Hi(v) # 0 THEN W1(h1 + mulsi3(Lo(u), Hi(v))) ELSE h1
  IN Join(h2, w.low)

(* ashldi3.c                                                               *)
ashldi3(u, b) ==
  LET bm == B - b
  IN CASE b = 0 -> u
       [] b # 0 /\ bm <= 0 -> Join(Shl(Lo(u), -bm), 0)
       [] OTHER -> Join(W1(Shl(Hi(u), b) + Shr(Lo(u), bm)), Shl(Lo(u), b))

-----------------------------------------------------------------------------
(* longlong.h: __ll_B, the halves of a word, and the macros in plain C.    *)
llB == 2^(B \div 2)
LoPart(x) == x % llB
HiPart(x) == x \div llB
add_ssaaaa(ah, al, bh, bl) ==
  LET x == W1(al + bl) IN Join(W1(ah + bh + Flag(x < al)), x)
sub_ddmmss(ah, al, bh, bl) ==
  LET x == W1(al - bl) IN Join(W1(ah - bh - Flag(x > al)), x)
umul_ppmm(u, v) ==
  LET x0 == mulsi3(LoPart(u), LoPart(v))
      x2 == mulsi3(HiPart(u), LoPart(v))
      x1 == W1(W1(mulsi3(LoPart(u), HiPart(v)) + HiPart(x0)) + x2)
      x3 == W1(mulsi3(HiPart(u), HiPart(v)) + (IF x1 < x2 THEN llB ELSE 0))
  IN Join(W1(x3 + HiPart(x1)), W1(LoPart(x1) * llB + LoPart(x0)))

(* Faulty variant: corrected once only.                                    *)
QDigit_once(n, low, d) ==
  LET q == n \div HiPart(d)
      m == W1(q * LoPart(d))
      r == W1((n % HiPart(d)) * llB + low)
  IN IF r >= m THEN [q |-> q, r |-> r - m] ELSE [q |-> q - 1, r |-> W1(r + d - m)]
(* One digit of __udiv_qrnnd_c: the quotient by the upper half of d is     *)
(* corrected at most twice, unless the addition to r carried.              *)
QDigit(n, low, d) ==
  LET q == n \div HiPart(d)
      m == W1(q * LoPart(d))
      r == W1((n % HiPart(d)) * llB + low)
      r1 == W1(r + d)
      r2 == W1(r1 + d)
  IN CASE r >= m -> [q |-> q, r |-> r - m]
       [] r < m /\ r1 >= d /\ r1 < m -> [q |-> q - 2, r |-> W1(r2 - m)]
       [] OTHER -> [q |-> q - 1, r |-> W1(r1 - m)]
udiv_qrnnd_c(n1, n0, d) ==
  LET hi == QDigit(n1, HiPart(n0), d)
      lo == QDigit(hi.r, LoPart(n0), d)
  IN [q |-> W1(hi.q * llB + lo.q), r |-> lo.r]

(* count_leading_zeros with __clz_tab (bits of a quarter word).            *)
ClzTab(x) == CHOOSE k \in 0..B : x < 2^k /\ (k = 0 \/ x >= 2^(k - 1))
count_leading_zeros(x) ==
  LET qt == B \div 4
      a == IF x < 2^(2*qt) THEN (IF x < 2^qt THEN 0 ELSE qt)
           ELSE (IF x < 2^(3*qt) THEN 2*qt ELSE 3*qt)
  IN B - (ClzTab(Shr(x, a)) + a)
(* count_trailing_zeros: the lowest set bit (x & -x), counted from above.  *)
count_trailing_zeros(x) ==
  LET low == CHOOSE p \in {2^k : k \in 0..(B-1)} : x % (2*p) = p
  IN B - 1 - count_leading_zeros(low)
=============================================================================
