----------------------------- MODULE ALUChecks -----------------------------
(***************************************************************************)
(* The operators of ALU against what they should compute, over all byte    *)
(* operands or a sample of them; ALUProofs has the additions for words.    *)
(***************************************************************************)
EXTENDS ALU

LOCAL B == 0 .. 255
LOCAL Sample == {0, 1, 2, 7, 8, 9, 15, 16, 17, 100, 127, 128, 129, 200, 239, 240, 254, 255}
LOCAL Digits == 0 .. 99

\* Addition and subtraction, the increments with the carry they keep.
ASSUME SumsChecked ==
  \A d, s \in B :
    /\ Adds(256, d, s, 0, Add(256, d, s))
    /\ Subtracts(256, d, s, 0, Sub(256, d, s))
    /\ \A c \in {0, 1} :
         (s = 255 /\ c = 1) # (/\ Adds(256, d, s, c, Adc(256, d, s, c))
                               /\ Subtracts(256, d, s, c, Sbb(256, d, s, c)))

ASSUME StepsChecked ==
  \A d \in B, cf \in {0, 1} :
    LET i == Inc(256, d, cf)
        j == Dec(256, d, cf)
    IN  /\ i.cf = cf /\ Adds(256, d, 1, 0, [i EXCEPT !.cf = Flag(d = 255)])
        /\ j.cf = cf /\ Subtracts(256, d, 1, 0, [j EXCEPT !.cf = Flag(d = 0)])
        /\ Subtracts(256, 0, d, 0, Neg(256, d))

\* The conditional jumps after a comparison.
ASSUME ConditionsChecked ==
  \A d, s \in B :
    LET f == Sub(256, d, s)
        z == Szp(256, d - s)
        all == [of |-> f.of, cf |-> f.cf, zf |-> z.zf, sf |-> z.sf, pf |-> z.pf]
        a == Signed(256, d)
        b == Signed(256, s)
    IN  /\ Taken(114, all) = (d < s) /\ Taken(116, all) = (d = s)
        /\ Taken(118, all) = (d <= s) /\ Taken(119, all) = (d > s)
        /\ Taken(124, all) = (a < b) /\ Taken(126, all) = (a <= b)
        /\ Taken(125, all) = (a >= b) /\ Taken(127, all) = (a > b)

ASSUME ProductsChecked ==
  \A a, b \in Sample :
    LET f == Mul(256, a, b)
        g == Imul(256, a, b)
    IN  /\ f.hi * 256 + f.lo = a * b /\ (f.cf = 0) = (f.hi = 0)
        /\ Signed(65536, g.hi * 256 + g.lo) = Signed(256, a) * Signed(256, b)
        /\ (g.cf = 0) = (g.hi = 255 * Sign(256, g.lo))

\* A quotient of -128 is accepted, where the 8088 has a divide error.
ASSUME QuotientsChecked ==
  \A hi, lo, v \in Sample :
    LET f == Div(256, hi, lo, v)
        g == Idiv(256, hi, lo, v)
        n == Signed(65536, hi * 256 + lo)
        w == Signed(256, v)
    IN  /\ f.error = (v = 0 \/ hi >= v)
        /\ f.error \/ (f.quot * v + f.rem = hi * 256 + lo /\ f.rem \in 0 .. v - 1)
        /\ g.error = (w = 0 \/ ~\E q \in -128 .. 127 :
                        /\ Magnitude(n - q * w) < Magnitude(w)
                        /\ n = q * w \/ (n - q * w < 0) = (n < 0))
        /\ g.error \/ Signed(256, g.quot) * w + Signed(256, g.rem) = n

\* Packed sums are right unless the binary sum is 9Ah to 9Fh without carry;
\* packed differences, unpacked sums and products always.
ASSUME DecimalsChecked ==
  /\ \A a, b \in Digits :
       LET f == Add(256, Decimal(a), Decimal(b))
           g == Daa(f.val, f.cf, f.af)
           h == Sub(256, Decimal(a), Decimal(b))
           k == Das(h.val, h.cf, h.af)
       IN  /\ (g.al = Decimal((a + b) % 100) /\ g.cf = (a + b) \div 100)
                # (f.val \in 154 .. 159 /\ f.cf = 0)
           /\ k.al = Decimal((a - b) % 100) /\ k.cf = Flag(a < b)
  /\ \A a, b \in 0 .. 9 :
       LET f == Add(256, a, b)
           g == AAA_AAS(f.val, f.af, 1)
           h == Sub(256, a, b)
           k == AAA_AAS(h.val, h.af, -1)
       IN  /\ g.ax = 256 * ((a + b) \div 10) + ((a + b) % 10)
           /\ k.ax % 256 = (a - b) % 10 /\ k.cf = Flag(a < b)
  /\ \A x \in Digits : Aad(Aam(x, 10).ah, Aam(x, 10).al, 10) = x

\* A rotation is multiplication modulo its length's all ones; the others are
\* products and quotients by powers of two.
ASSUME ShiftsChecked ==
  \A v \in B, cf \in {0, 1}, n \in 1 .. 12 :
    LET l == Rcl(256, v, n, cf)
        r == Rcr(256, l.val, n, l.cf)
    IN  /\ n < 8 => /\ Rol(256, v, n).val % 255 = (v * 2^n) % 255
                    /\ Ror(256, Rol(256, v, n).val, n).val = v
        /\ n < 9 => /\ (l.cf * 256 + l.val) % 511 = ((cf * 256 + v) * 2^n) % 511
                    /\ r.val = v /\ r.cf = cf
        /\ Shl(256, v, n).cf = Bit(v * 2^n, 256)
        /\ Signed(256, Sar(256, v, n).val) = Signed(256, v) \div 2^n
        /\ Sar(256, v, n).cf = Bit(Signed(256, v), 2^(n - 1))
        /\ Shr(256, v, n).val = v \div 2^n

ASSUME WideningChecked ==
  /\ \A v \in B : Signed(65536, Cbw(v)) = Signed(256, v)
  /\ \A v \in {0, 1, 32767, 32768, 65535} : Cwd(v) = (Signed(65536, v) \div 65536) % 65536
  /\ \A v \in {0, 1, 2, 65535}, z \in {0, 1} :
       /\ LoopCount(2, v, z).taken = (v # 1) /\ LoopCount(3, v, z) = [cx |-> v, taken |-> v = 0]
       /\ LoopCount(0, v, z).taken # LoopCount(1, v, z).taken \/ v = 1

=============================================================================
