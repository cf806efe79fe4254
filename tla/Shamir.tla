------------------------------- MODULE Shamir -------------------------------
(***************************************************************************)
(* Secret sharing over GF(2^8), which cuts the unseal key into shares      *)
(* (internal/crypto/shamir/shamir.go).                                     *)
(*                                                                         *)
(* A byte is the set of its one bits, 0 the lowest, so that exclusive or   *)
(* is symmetric difference.  The secret is one byte: the code treats the   *)
(* bytes of a secret separately, each with coefficients of its own.        *)
(***************************************************************************)
EXTENDS Naturals, FiniteSets, Sequences, SequencesExt

CONSTANTS Secrets,    \* the bytes tried as secrets and as coefficients
          Shares,     \* n, the number of shares
          Thresholds  \* the values of t tried

VARIABLES coeffs,  \* the polynomial: the secret, then random coefficients
          pile     \* the shares handed in, in order, repetitions included

shamirVars == <<coeffs, pile>>

Byte == SUBSET (0..7)
Zero == {}
One == {0}
Xor(a, b) == (a \ b) \cup (b \ a)
BitsOf(n) == {i \in 0..7 : (n \div 2^i) % 2 = 1}

\* a <<= 1, reduced by 0x1b when the top bit falls out
Doubled(a) == {i + 1 : i \in a \ {7}}
Reduction == {0, 1, 3, 4}
Xtime(a) == IF 7 \in a THEN Xor(Doubled(a), Reduction) ELSE Doubled(a)

\* gfMul: eight rounds of add and double
gfMul(a, b) ==
  FoldLeft(LAMBDA acc, i : [p |-> IF i \in b THEN Xor(acc.p, acc.a) ELSE acc.p, a |-> Xtime(acc.a)],
           [p |-> Zero, a |-> a], <<0, 1, 2, 3, 4, 5, 6, 7>>).p

\* gfExp(a, 254) and gfInv: 254 is seven ones and a zero in binary
gfInv(a) ==
  IF a = Zero THEN Zero
  ELSE FoldLeft(LAMBDA acc, bit : [r |-> IF bit = 1 THEN gfMul(acc.r, acc.a) ELSE acc.r,
                                   a |-> gfMul(acc.a, acc.a)],
                [r |-> One, a |-> a], <<0, 1, 1, 1, 1, 1, 1, 1>>).r

gfDiv(a, b) == IF b = Zero THEN Zero ELSE gfMul(a, gfInv(b))

\* evalPoly, by Horner's rule from the highest coefficient down
evalPoly(cs, x) == FoldRight(LAMBDA c, y : Xor(gfMul(y, x), c), cs, Zero)

\* interpolate at 0: the points are a function from x to y
interpolate(points) ==
  LET factor(xi, f(_)) ==
        FoldLeft(LAMBDA acc, xj : gfMul(acc, f(xj)), One, SetToSeq(DOMAIN points \ {xi}))
      term(xi) == gfMul(points[xi], gfDiv(factor(xi, LAMBDA xj : xj), factor(xi, LAMBDA xj : Xor(xi, xj))))
  IN FoldLeft(LAMBDA acc, xi : Xor(acc, term(xi)), Zero, SetToSeq(DOMAIN points))

\* Combine: shares with the same x count once, the last one wins
Combine(shares) ==
  interpolate([x \in {s.x : s \in ToSet(shares)} |->
                 shares[CHOOSE i \in DOMAIN shares :
                          shares[i].x = x /\ \A j \in DOMAIN shares : shares[j].x = x => j <= i].y])

ShareOf(n) == [x |-> BitsOf(n), y |-> evalPoly(coeffs, BitsOf(n))]

\* Split: a coefficient per unit of the threshold, the first one the secret
ShamirInit ==
  /\ \E t \in Thresholds : t \in 1..Shares /\ coeffs \in [1..t -> {BitsOf(n) : n \in Secrets}]
  /\ pile = <<>>

\* An operator hands in a share, perhaps one handed in before.
HandIn ==
  /\ Len(pile) <= Len(coeffs)
  /\ \E n \in 1..Shares : pile' = Append(pile, ShareOf(n))
  /\ UNCHANGED coeffs

-----------------------------------------------------------------------------
\* As soon as t different shares are among those handed in, in any order
\* and with repetitions, Combine returns the secret, and further shares do
\* not change that (shamir.go Split and Combine).
ThresholdRecovers ==
  Cardinality(ToSet(pile)) >= Len(coeffs) => Combine(pile) = coeffs[1]

\* Fewer than t shares leave every value of the secret possible: for each
\* of them some coefficients give the very same shares.
FewerTellNothing ==
  (Cardinality(ToSet(pile)) = 1 /\ Len(coeffs) = 2)
  => \A n \in Secrets : \E c \in Byte :
       \A s \in ToSet(pile) : evalPoly(<<BitsOf(n), c>>, s.x) = s.y
============================================================================
