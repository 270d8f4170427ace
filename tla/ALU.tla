-------------------------------- MODULE ALU --------------------------------
(***************************************************************************)
(* The arithmetic of the 8088: the values and flags its instructions leave *)
(* behind.  M is the number of values of an operand, 256 or 65536 as i_w_  *)
(* says; an operand is in 0 .. M - 1, op_result_ is not cut to its width   *)
(* where the code does not.                                                *)
(*                                                                         *)
(* Shift counts of 0 and above 31, and rotations through carry by a        *)
(* multiple of their length, shift a C++ integer by a negative or too      *)
(* large number: they are left out.                                        *)
(***************************************************************************)
EXTENDS Integers

Words == {256, 65536}

Flag(b) == IF b THEN 1 ELSE 0
Bit(x, weight) == (x \div weight) % 2       \* x >> log2(weight) & 1
Sign(M, x) == Bit(x, M \div 2)
Signed(M, x) == IF x < M \div 2 THEN x ELSE x - M

Szp(M, r) ==
  [sf |-> Sign(M, r), zf |-> Flag(r % M = 0),
   pf |-> 1 - ((Bit(r, 1) + Bit(r, 2) + Bit(r, 4) + Bit(r, 8)
                + Bit(r, 16) + Bit(r, 32) + Bit(r, 64) + Bit(r, 128)) % 2)]

\* AF and OF are found in the exclusive or of operands and result, OF by
\* means of CF.
Arith(M, d, s, r, cf) ==
  LET xor(weight) == (Bit(d, weight) + Bit(s, weight) + Bit(r, weight)) % 2
  IN  [val |-> r % M, cf |-> cf, af |-> xor(16),
       of |-> IF r = d THEN 0 ELSE (cf + xor(M \div 2)) % 2]

Add(M, d, s) == Arith(M, d, s, d + s, Flag((d + s) % M < d))
Sub(M, d, s) == Arith(M, d, s, d - s, Flag(d < s))

Adc(M, d, s, c) ==
  LET r == d + s + c
  IN  Arith(M, d, s, r, Flag((c = 1 /\ r = d) \/ r % M < d))

Sbb(M, d, s, c) ==
  LET r == d - s - c
  IN  Arith(M, d, s, r, Flag((c = 1 /\ r = d) \/ d < (s + c) % M))

\* 0 - d, the carry from the sign of the result.
Neg(M, d) == Arith(M, 0, d, -d, Flag(d # 0))

\* CF is kept, OF is not the arithmetic's.
Inc(M, d, cf) == [Arith(M, d, 1, d + 1, cf) EXCEPT !.of = Flag(d + 1 = M \div 2)]
Dec(M, d, cf) == [Arith(M, d, 1, d - 1, cf) EXCEPT !.of = Flag(d = M \div 2)]

Mul(M, a, b) ==
  [lo |-> (a * b) % M, hi |-> (a * b) \div M, cf |-> Flag(a * b # (a * b) % M)]

Imul(M, a, b) ==
  LET r == Signed(M, a) * Signed(M, b)
  IN  [lo |-> r % M, hi |-> (r \div M) % M, cf |-> Flag(r # Signed(M, r % M))]

DivError == [error |-> TRUE, quot |-> 0, rem |-> 0]

Div(M, hi, lo, v) ==
  LET n == hi * M + lo
  IN  IF v = 0 THEN DivError
      ELSE IF n \div v >= M THEN DivError
      ELSE [error |-> FALSE, quot |-> n \div v, rem |-> n - v * (n \div v)]

\* Division of C++: towards zero.
Magnitude(x) == IF x < 0 THEN -x ELSE x
Quotient(n, v) ==
  LET q == Magnitude(n) \div Magnitude(v)
  IN  IF (n < 0) = (v < 0) THEN q ELSE -q

Idiv(M, hi, lo, v) ==
  LET n == Signed(M * M, hi * M + lo)
      w == Signed(M, v)
      q == Quotient(n, w)
  IN  IF w = 0 THEN DivError
      ELSE IF q # Signed(M, q % M) THEN DivError
      ELSE [error |-> FALSE, quot |-> q % M, rem |-> (n - w * q) % M]

(***************************************************************************)
(* Decimal adjustment, of AL, and of AX where it is unpacked.              *)
(***************************************************************************)
LowAdjust(al, af) == al % 16 > 9 \/ af = 1

\* The high digit is judged by itself, before the low one is adjusted.
Daa(al, cf, af) ==
  LET low == LowAdjust(al, af)
      a1  == IF low THEN (al + 6) % 256 ELSE al
      c1  == IF low THEN Flag(cf = 1 \/ a1 < al) ELSE cf
      high == al - (al % 16) > 144 \/ c1 = 1
  IN  [al |-> IF high THEN (a1 + 96) % 256 ELSE a1, af |-> Flag(low),
       cf |-> IF high THEN 1 ELSE c1]

Das(al, cf, af) ==
  LET low == LowAdjust(al, af)
      a1  == IF low THEN (al - 6) % 256 ELSE al
      c1  == IF low THEN Flag(cf = 1 \/ a1 >= al) ELSE cf
      high == al > 153 \/ c1 = 1
  IN  [al |-> IF high THEN (a1 - 96) % 256 ELSE a1, af |-> Flag(low),
       cf |-> IF high THEN 1 ELSE c1]

\* AAA and AAS, with way 1 and -1: AX moves by 0106h.
AAA_AAS(ax, af, way) ==
  LET adj == LowAdjust(ax % 256, af)
      a1  == IF adj THEN (ax + 262 * way) % 65536 ELSE ax
  IN  [ax |-> a1 - (a1 % 256) + (a1 % 16), af |-> Flag(adj), cf |-> Flag(adj)]

Aam(al, base) == [ah |-> al \div base, al |-> al % base]
Aad(ah, al, base) == (al + base * ah) % 256

Cbw(al) == al + 65280 * Bit(al, 128)
Cwd(ax) == 65535 * Bit(ax, 32768)

(***************************************************************************)
(* Shifts and rotations by n places.  OF is the code's for every count.    *)
(***************************************************************************)
Xor(a, b) == (a + b) % 2

Rol(M, v, n) ==
  LET r == (v * 2^n + (v * 2^n) \div M) % M
  IN  [val |-> r, cf |-> r % 2, of |-> Xor(Sign(M, r), r % 2)]

Ror(M, v, n) ==
  LET r == v \div 2^n + (v % 2^n) * (M \div 2^n)
  IN  [val |-> r, cf |-> Sign(M, r), of |-> Xor(Sign(M, 2 * r), Sign(M, r))]

Rcl(M, v, n, cf) ==
  LET r == (v * 2^n + cf * 2^(n - 1) + (v * 2^n) \div (2 * M)) % M
      out == Bit(v, M \div 2^n)
  IN  [val |-> r, cf |-> out, of |-> Xor(Sign(M, r), out)]

Rcr(M, v, n, cf) ==
  LET r == (v \div 2^n + cf * (M \div 2^n) + v * ((2 * M) \div 2^n)) % M
  IN  [val |-> r, cf |-> Bit(v, 2^(n - 1)), of |-> Xor(Sign(M, r), Sign(M, 2 * r))]

Shl(M, v, n) ==
  LET out == Sign(M, v * 2^(n - 1))
  IN  [val |-> (v * 2^n) % M, cf |-> out, of |-> Xor(Sign(M, v * 2^n), out)]

Shr(M, v, n) ==
  [val |-> v \div 2^n, cf |-> Bit(v, 2^(n - 1)), of |-> Sign(M, v)]

Sar(M, v, n) ==
  LET s == Sign(M, v)
      fill == s * (M - 1 - (M - 1) \div 2^n)
  IN  [val |-> (v \div 2^n + fill) % M,
       cf |-> IF 2^n < M THEN Bit(v, 2^(n - 1)) ELSE s, of |-> 0]

(***************************************************************************)
(* Conditions.                                                             *)
(***************************************************************************)
\* jxx_dec_a to jxx_dec_d, by bits 1 to 3 of the opcode; bit 0 negates.
Tested(kind, f) ==
  CASE kind = 0 -> f.of = 1
    [] kind = 1 -> f.cf = 1
    [] kind = 2 -> f.zf = 1
    [] kind = 3 -> f.cf = 1 \/ f.zf = 1
    [] kind = 4 -> f.sf = 1
    [] kind = 5 -> f.pf = 1
    [] kind = 6 -> f.sf # f.of
    [] kind = 7 -> f.zf = 1 \/ f.sf # f.of

Taken(opcode, f) == (opcode % 2 = 1) # Tested((opcode \div 2) % 8, f)

\* LOOPNZ, LOOPZ, LOOP and JCXZ: what CX becomes and whether the jump is made.
LoopCount(kind, cx, zf) ==
  LET less == (cx - 1) % 65536
  IN  CASE kind = 0 -> [cx |-> less, taken |-> less # 0 /\ zf = 0]
        [] kind = 1 -> [cx |-> less, taken |-> less # 0 /\ zf = 1]
        [] kind = 2 -> [cx |-> less, taken |-> less # 0]
        [] kind = 3 -> [cx |-> cx, taken |-> cx = 0]

(***************************************************************************)
(* What an addition and a subtraction with carry mean, and decimal digits. *)
(***************************************************************************)
Overflows(M, x) == x < -(M \div 2) \/ x >= M \div 2

Adds(M, d, s, c, f) ==
  /\ f.val = (d + s + c) % M
  /\ f.cf = 1 <=> d + s + c >= M
  /\ f.af = 1 <=> (d % 16) + (s % 16) + c >= 16
  /\ f.of = 1 <=> Overflows(M, Signed(M, d) + Signed(M, s) + c)

Subtracts(M, d, s, c, f) ==
  /\ f.val = (d - s - c) % M
  /\ f.cf = 1 <=> d < s + c
  /\ f.af = 1 <=> d % 16 < (s % 16) + c
  /\ f.of = 1 <=> Overflows(M, Signed(M, d) - Signed(M, s) - c)

Decimal(n) == 16 * (n \div 10) + (n % 10)     \* two packed digits

=============================================================================
