-------------------------------- MODULE Klib --------------------------------
(***************************************************************************)
(* klib, the C library of AM programs (src/abstract-machine/klib/src):     *)
(* string.c, stdlib.c and stdio.c as functions.  A memory is a function    *)
(* from addresses to bytes, a character is a byte, 0 ends a string, and a  *)
(* format is the sequence of its directives, already parsed.               *)
(***************************************************************************)
EXTENDS Integers, Sequences

CONSTANTS IntMin, IntMax,        \* the range of int
          HeapStart, HeapEnd     \* heap, of the AM runtime

NUL == 0

-----------------------------------------------------------------------------
(* string.c                                                                *)
strlen(m, s) == CHOOSE k \in 0..(Len(m) - s) :
                  m[s + k] = NUL /\ \A i \in 0..(k - 1) : m[s + i] # NUL

memset(m, s, c, n) == [i \in DOMAIN m |-> IF i \in s..(s + n - 1) THEN c ELSE m[i]]

RECURSIVE CopyUp(_, _, _, _), CopyDown(_, _, _, _)
CopyUp(m, dst, src, n) ==
  IF n = 0 THEN m ELSE CopyUp([m EXCEPT ![dst] = m[src]], dst + 1, src + 1, n - 1)
CopyDown(m, dst, src, n) ==
  IF n = 0 THEN m
  ELSE CopyDown([m EXCEPT ![dst + n - 1] = m[src + n - 1]], dst, src, n - 1)

memcpy(m, out, in, n) == CopyUp(m, out, in, n)

memmove(m, dst, src, n) ==
  IF src < dst /\ dst < src + n THEN CopyDown(m, dst, src, n) ELSE CopyUp(m, dst, src, n)

strcpy(m, dst, src) == memmove(m, dst, src, strlen(m, src) + 1)
strncpy(m, dst, src, n) ==
  LET len == strlen(m, src)
  IN IF len < n THEN memset(memmove(m, dst, src, len), dst + len, NUL, n - len)
     ELSE memmove(m, dst, src, n)
strcat(m, dst, src) == memmove(m, dst + strlen(m, dst), src, strlen(m, src) + 1)

memcmp(m, s1, s2, n) ==
  LET diff == {i \in 0..(n - 1) : m[s1 + i] # m[s2 + i]}
      f == CHOOSE i \in diff : \A j \in diff : i <= j
  IN IF diff = {} THEN 0 ELSE m[s1 + f] - m[s2 + f]

strcmp(m, s1, s2) ==
  LET l1 == strlen(m, s1)  l2 == strlen(m, s2)
      r == memcmp(m, s1, s2, IF l1 < l2 THEN l1 ELSE l2)
  IN IF r = 0 THEN l1 - l2 ELSE r

-----------------------------------------------------------------------------
(* stdlib.c.  An allocator that only moves up: h is [is_init, addr]; a     *)
(* failed assertion halts the program.  NULL is 0.                         *)
RoundUp(a, sz) == ((a + sz - 1) \div sz) * sz
(* Faulty variant: the size is not rounded up.                             *)
malloc_exact(h, size) ==
  LET head == IF h.is_init THEN h.addr ELSE RoundUp(HeapStart, 8)
  IN [ptr |-> head, ok |-> head + size < HeapEnd,
      h |-> [is_init |-> TRUE, addr |-> head + size]]
malloc(h, size) ==
  LET head == IF h.is_init THEN h.addr ELSE RoundUp(HeapStart, 8)
      addr == head + RoundUp(size, 8)
  IN CASE size = 0 -> [ptr |-> 0, ok |-> TRUE, h |-> h]
       [] size # 0 /\ HeapStart <= addr /\ addr < HeapEnd ->
            [ptr |-> head, ok |-> TRUE, h |-> [is_init |-> TRUE, addr |-> addr]]
       [] OTHER -> [ptr |-> 0, ok |-> FALSE, h |-> [is_init |-> TRUE, addr |-> addr]]

(* Digits are the characters 48..57.                                       *)
RECURSIVE AtoiFrom(_, _)
AtoiFrom(s, x) == IF s # <<>> /\ Head(s) \in 48..57
                  THEN AtoiFrom(Tail(s), x * 10 + Head(s) - 48) ELSE x
RECURSIVE atoi(_)
atoi(s) == IF s # <<>> /\ Head(s) = 32 THEN atoi(Tail(s)) ELSE AtoiFrom(s, 0)

-----------------------------------------------------------------------------
(* stdio.c.  itoa: % and / truncate, so a value that stayed negative       *)
(* (-IntMin overflows and is IntMin again) still gives its digits.         *)
Trunc(a, b) == IF a < 0 THEN -((-a) \div b) ELSE a \div b
AbsInt(x) == IF x < 0 THEN -x ELSE x
RECURSIVE Digits(_, _)
Digits(v, base) ==
  IF v = 0 THEN <<>>
  ELSE Append(Digits(Trunc(v, base), base), 48 + AbsInt(v - base * Trunc(v, base)))
itoa(value) ==
  LET v == IF value < 0 /\ value # IntMin THEN -value ELSE value
  IN (IF value < 0 THEN <<45>> ELSE <<>>) \o Digits(v, 10)

Least(a, b) == IF a < b THEN a ELSE b
Fill(c, k) == [i \in 1..k |-> c]

(* The number of padding characters of %d.  "precision > num_len" compares *)
(* as unsigned, so it is true when no precision is given (-1).             *)
PadWidth(it, num_len) ==
  LET bigger == it.prec = -1 \/ it.prec > num_len
      w == IF bigger THEN it.prec - num_len + 1 ELSE 0
      total == IF it.prec > num_len THEN it.prec
               ELSE IF it.pad > num_len THEN it.pad ELSE num_len
  IN IF total > num_len THEN total - num_len - w ELSE 0

(* The characters that still fit, one place kept for the terminator.       *)
Room(n, o) == n - Len(o.out) - 1

(* One directive, with the text written so far, room for n - 1 characters, *)
(* and the running total; returns both.                                    *)
Directive(it, n, o) ==
  LET left == Room(n, o)
      num == itoa(it.num)
      w == PadWidth(it, Len(num))
      pads == Fill(IF it.zero THEN 48 ELSE 32, IF w < 0 THEN 0 ELSE Least(w, left))
      body == IF it.k = "d" THEN num ELSE it.str
      cut == IF it.k = "s" /\ it.prec >= 0 THEN Least(it.prec, Len(body)) ELSE Len(body)
      text == (IF it.k = "d" THEN pads ELSE <<>>) \o SubSeq(body, 1, cut)
  IN [out |-> o.out \o SubSeq(text, 1, Least(left, Len(text))),
      total |-> o.total + Len(body)]

RECURSIVE Format(_, _, _)
Format(fmt, n, o) ==
  IF fmt = <<>> THEN o ELSE Format(Tail(fmt), n, Directive(Head(fmt), n, o))

(* vsnprintf, n >= 1: the text (before the terminator) and the result.  A  *)
(* plain character is the directive "c".                                   *)
vsnprintf(n, fmt) == Format(fmt, n, [out |-> <<>>, total |-> 0])
=============================================================================
