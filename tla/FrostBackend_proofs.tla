------------------------ MODULE FrostBackend_proofs ------------------------
(***************************************************************************)
(* For every prime order: the key generation hands each participant what   *)
(* it needs, so that all three finish with the same group key, and any two *)
(* of them produce a signature that verifies under it.  The backend around *)
(* the ceremonies implements the trait, chooses two available signers      *)
(* whenever there are two, and these produce a signature under the public  *)
(* key that was given out.                                                 *)
(*                                                                         *)
(* Everything is computed modulo P.  Two integers are congruent when they  *)
(* differ by a multiple of P; the proof follows sums and products by the   *)
(* congruence laws and meets equality again between scalars.               *)
(***************************************************************************)
EXTENDS FrostBackend, FiniteSetTheorems, TLAPS

Cong(a, b) == \E k \in Int : a = b + k * P

\* What the arithmetic uses of the order.
LEMMA PFacts == P \in Nat /\ P > 3
  BY PrimeAssumption

\* An integer is congruent to its residue, which is a scalar.
LEMMA ModCong ==
  ASSUME NEW a \in Int
  PROVE  a % P \in Scalar /\ Cong(a % P, a)
<1>1. a % P \in 0 .. P - 1
  BY PFacts
<1>2. a = P * (a \div P) + (a % P) /\ a \div P \in Int
  BY PFacts
<1>3. a % P = a + (- (a \div P)) * P
  BY <1>1, <1>2, PFacts
<1> QED
  BY <1>1, <1>2, <1>3 DEF Cong, Scalar

\* Congruence is reflexive,
LEMMA CongRefl == ASSUME NEW a \in Int PROVE Cong(a, a)
<1>1. a = a + 0 * P
  BY PFacts
<1> QED
  BY <1>1 DEF Cong

\* symmetric,
LEMMA CongSym ==
  ASSUME NEW a \in Int, NEW b \in Int, Cong(a, b) PROVE Cong(b, a)
<1>1. PICK k \in Int : a = b + k * P
  BY DEF Cong
<1>2. b = a + (- k) * P
  BY <1>1, PFacts
<1> QED
  BY <1>2 DEF Cong

\* transitive,
LEMMA CongTrans ==
  ASSUME NEW a \in Int, NEW b \in Int, NEW c \in Int, Cong(a, b), Cong(b, c)
  PROVE  Cong(a, c)
<1>1. PICK k \in Int : a = b + k * P
  BY DEF Cong
<1>2. PICK l \in Int : b = c + l * P
  BY DEF Cong
<1>3. a = c + (k + l) * P
  BY <1>1, <1>2, PFacts
<1> QED
  BY <1>3 DEF Cong

\* and respected by sums,
LEMMA CongAdd ==
  ASSUME NEW a \in Int, NEW b \in Int, NEW c \in Int, NEW d \in Int,
         Cong(a, b), Cong(c, d)
  PROVE  Cong(a + c, b + d)
<1>1. PICK k \in Int : a = b + k * P
  BY DEF Cong
<1>2. PICK l \in Int : c = d + l * P
  BY DEF Cong
<1>3. a + c = (b + d) + (k + l) * P
  BY <1>1, <1>2, PFacts
<1> QED
  BY <1>3 DEF Cong

\* by multiples,
LEMMA CongTimes ==
  ASSUME NEW a \in Int, NEW b \in Int, NEW x \in Int, Cong(a, b)
  PROVE  Cong(x * a, x * b)
<1>1. PICK k \in Int : a = b + k * P
  BY DEF Cong
<1>2. x * a = x * b + (x * k) * P
  BY <1>1, PFacts
<1>3. x * k \in Int
  OBVIOUS
<1> QED
  BY <1>2, <1>3 DEF Cong

\* and by products.
LEMMA CongMul ==
  ASSUME NEW a \in Int, NEW b \in Int, NEW c \in Int, NEW d \in Int,
         Cong(a, b), Cong(c, d)
  PROVE  Cong(a * c, b * d)
<1>1. Cong(a * c, a * d)
  BY CongTimes
<1>2. Cong(d * a, d * b)
  BY CongTimes
<1>3. d * a = a * d /\ d * b = b * d
  OBVIOUS
<1>4. a * c \in Int /\ a * d \in Int /\ b * d \in Int
  OBVIOUS
<1> QED
  BY <1>1, <1>2, <1>3, <1>4, CongTrans

\* Two scalars that are congruent are equal.
LEMMA CongScalars ==
  ASSUME NEW a \in Scalar, NEW b \in Scalar, Cong(a, b)
  PROVE  a = b
<1>1. PICK k \in Int : a = b + k * P
  BY DEF Cong
<1>2. a \in 0 .. P - 1 /\ b \in 0 .. P - 1
  BY DEF Scalar
<1>3. CASE k >= 1
  <2>1. k * P >= P
    BY <1>3, PFacts
  <2> QED
    BY <1>1, <1>2, <2>1, PFacts
<1>4. CASE k <= -1
  <2>1. k * P <= - P
    BY <1>4, PFacts
  <2> QED
    BY <1>1, <1>2, <2>1, PFacts
<1>5. CASE k = 0
  BY <1>1, <1>2, <1>5, PFacts
<1> QED
  BY <1>3, <1>4, <1>5

\* Residues are equal when the integers are congruent.
LEMMA CongMod ==
  ASSUME NEW a \in Int, NEW b \in Int, Cong(a, b)
  PROVE  a % P = b % P
<1>1. /\ a % P \in Scalar /\ Cong(a % P, a)
      /\ b % P \in Scalar /\ Cong(b % P, b)
  BY ModCong
<1>2. a % P \in Int /\ b % P \in Int
  BY <1>1 DEF Scalar
<1>3. Cong(b, b % P)
  BY <1>1, <1>2, CongSym
<1>4. Cong(a % P, b % P)
  BY <1>1, <1>2, <1>3, CongTrans
<1> QED
  BY <1>1, <1>4, CongScalars

-----------------------------------------------------------------------------
(***************************************************************************)
(* Key generation.                                                         *)
(***************************************************************************)

\* The integer Total reduces.
RawTotal(f) ==
  LET at(i) == IF i \in DOMAIN f THEN f[i] ELSE 0 IN at(1) + at(2) + at(3)

\* Total adds up the values of the participants, modulo P.
LEMMA TotalCong ==
  ASSUME NEW f, \A i \in DOMAIN f : f[i] \in Int
  PROVE  /\ RawTotal(f) \in Int
         /\ Total(f) \in Scalar
         /\ Cong(Total(f), RawTotal(f))
<1>1. RawTotal(f) \in Int
  BY DEF RawTotal
<1>2. Total(f) = RawTotal(f) % P
  BY DEF Total, RawTotal
<1> QED
  BY <1>1, <1>2, ModCong

\* Scalars are integers.
LEMMA ScalarInt == Scalar \subseteq Int
  BY DEF Scalar

\* What a participant is given and what it receives: one of each from both
\* others, filed under its sender.
LEMMA PackagesRouted ==
  ASSUME NEW polys \in [Participants -> Polynomial], NEW i \in Participants
  PROVE  /\ DOMAIN Incoming(polys, i) = Others(i)
         /\ \A j \in Others(i) : Incoming(polys, i)[j] = polys[j]
         /\ DOMAIN ReceivedRound2(polys, i) = Others(i)
         /\ \A j \in Others(i) :
              ReceivedRound2(polys, i)[j] = Eval(polys[j], i)
<1>1. \A k \in Participants :
        /\ DOMAIN Incoming(polys, k) = Others(k)
        /\ \A j \in Others(k) : Incoming(polys, k)[j] = polys[j]
  BY DEF Incoming, Others, Round1Broadcasts
<1>2. \A j \in Participants :
        Outgoing(polys[j], Incoming(polys, j))
          = [r \in Others(j) |-> Eval(polys[j], r)]
  BY <1>1 DEF Outgoing
<1>3. {j \in Participants :
         i \in DOMAIN Outgoing(polys[j], Incoming(polys, j))} = Others(i)
  BY <1>2 DEF Others
<1>4. \A j \in Others(i) : i \in Others(j) /\ j \in Participants
  BY DEF Others
<1>5. DOMAIN ReceivedRound2(polys, i) = Others(i)
  BY <1>3 DEF ReceivedRound2
<1>6. \A j \in Others(i) :
        ReceivedRound2(polys, i)[j]
          = Outgoing(polys[j], Incoming(polys, j))[i]
  BY <1>3 DEF ReceivedRound2
<1> QED
  BY <1>1, <1>2, <1>4, <1>5, <1>6

\* part3 refuses nothing.
LEMMA Part3AlwaysAccepts ==
  ASSUME NEW polys \in [Participants -> Polynomial], NEW i \in Participants
  PROVE  Part3Accepts(polys, i)
  BY PackagesRouted DEF Part3Accepts

\* The sums of everyone's secrets and slopes: the group's polynomial.
Secret(polys) == polys[1].secret + polys[2].secret + polys[3].secret
Slope(polys)  == polys[1].slope + polys[2].slope + polys[3].slope

\* The sums of what three participants have drawn are integers.
LEMMA CoefficientsInt ==
  ASSUME NEW polys \in [Participants -> Polynomial]
  PROVE  /\ \A i \in Participants : /\ polys[i].secret \in Int
                                    /\ polys[i].slope \in Int
         /\ Secret(polys) \in Int /\ Slope(polys) \in Int
  BY PFacts DEF Polynomial, Scalar, Participants, Secret, Slope

\* A value and the values for the others add up to those of all three.
LEMMA TotalWithOwn ==
  ASSUME NEW i \in Participants, NEW g \in [Participants -> Int], NEW f,
         DOMAIN f = Others(i), \A j \in Others(i) : f[j] = g[j]
  PROVE  g[i] + RawTotal(f) = g[1] + g[2] + g[3]
<1>1. i \in {1, 2, 3} /\ \A j \in {1, 2, 3} : j \in Others(i) <=> j # i
  BY DEF Participants, Others
<1>2. CASE i = 1
  BY <1>1, <1>2 DEF RawTotal, Participants
<1>3. CASE i = 2
  BY <1>1, <1>3 DEF RawTotal, Participants
<1>4. CASE i = 3
  BY <1>1, <1>4 DEF RawTotal, Participants
<1> QED
  BY <1>1, <1>2, <1>3, <1>4

\* Everyone derives the group's secret in the exponent.
LEMMA PublicPackageCong ==
  ASSUME NEW polys \in [Participants -> Polynomial], NEW i \in Participants
  PROVE  /\ PublicPackage(polys, i) \in Scalar
         /\ Cong(PublicPackage(polys, i), Secret(polys))
<1> DEFINE g == [j \in Participants |-> polys[j].secret]
           incoming == Incoming(polys, i)
           f == [j \in DOMAIN incoming |-> incoming[j].secret]
<1>1. g \in [Participants -> Int]
  BY CoefficientsInt
<1>2. DOMAIN f = Others(i) /\ \A j \in Others(i) : f[j] = g[j] /\ f[j] \in Int
  <2>1. DOMAIN incoming = Others(i) /\ \A j \in Others(i) : incoming[j] = polys[j]
    BY PackagesRouted
  <2>2. \A j \in Others(i) : j \in Participants /\ polys[j].secret \in Int
    BY CoefficientsInt DEF Others
  <2> HIDE DEF incoming
  <2> QED
    BY <2>1, <2>2
<1>3. g[i] + RawTotal(f) = Secret(polys)
  <2>1. g[i] + RawTotal(f) = g[1] + g[2] + g[3]
    BY <1>1, <1>2, TotalWithOwn
  <2> QED
    BY <2>1 DEF Secret, Participants
<1>4. Total(f) \in Int /\ RawTotal(f) \in Int /\ Cong(Total(f), RawTotal(f))
  BY <1>2, TotalCong, ScalarInt
<1>5. g[i] \in Int /\ Cong(g[i], g[i])
  BY <1>1, CongRefl
<1>6. Cong(g[i] + Total(f), Secret(polys))
  BY <1>3, <1>4, <1>5, CongAdd
<1>7. PublicPackage(polys, i) = (g[i] + Total(f)) % P
  BY DEF PublicPackage
<1>8. g[i] + Total(f) \in Int
  BY <1>4, <1>5
<1>9. /\ PublicPackage(polys, i) \in Scalar
      /\ Cong(PublicPackage(polys, i), g[i] + Total(f))
  BY <1>7, <1>8, ModCong
<1> QED
  BY <1>6, <1>8, <1>9, CoefficientsInt, ScalarInt, CongTrans

\* Key generation succeeds, whatever is drawn.
THEOREM CeremonyAlwaysSucceeds ==
  ASSUME NEW polys \in [Participants -> Polynomial]
  PROVE  CeremonySucceeds(polys)
<1>1. ASSUME NEW i \in Participants
      PROVE  PublicPackage(polys, i) = PublicPackage(polys, 1)
  <2>1. 1 \in Participants
    BY DEF Participants
  <2>2. /\ PublicPackage(polys, i) \in Scalar
        /\ Cong(PublicPackage(polys, i), Secret(polys))
        /\ PublicPackage(polys, 1) \in Scalar
        /\ Cong(PublicPackage(polys, 1), Secret(polys))
    BY <2>1, PublicPackageCong
  <2>3. Cong(Secret(polys), PublicPackage(polys, 1))
    BY <2>2, CoefficientsInt, ScalarInt, CongSym
  <2>4. Cong(PublicPackage(polys, i), PublicPackage(polys, 1))
    BY <2>2, <2>3, CoefficientsInt, ScalarInt, CongTrans
  <2> QED
    BY <2>2, <2>4, CongScalars
<1> QED
  BY <1>1, Part3AlwaysAccepts DEF CeremonySucceeds

\* A signing share is the value of the group's polynomial at the participant.
LEMMA SigningShareCong ==
  ASSUME NEW polys \in [Participants -> Polynomial], NEW i \in Participants
  PROVE  /\ SigningShare(polys, i) \in Scalar
         /\ Cong(SigningShare(polys, i), Secret(polys) + Slope(polys) * i)
<1> DEFINE g == [j \in Participants |-> Eval(polys[j], i)]
           f == ReceivedRound2(polys, i)
           raw == [j \in Participants |-> polys[j].secret + polys[j].slope * i]
<1>1. i \in Int
  BY DEF Participants
<1>2. /\ raw \in [Participants -> Int]
      /\ g \in [Participants -> Int]
      /\ \A j \in Participants : Cong(g[j], raw[j])
  <2>1. raw \in [Participants -> Int]
    BY <1>1, CoefficientsInt
  <2>2. \A j \in Participants : g[j] = raw[j] % P
    BY DEF Eval
  <2> QED
    BY <2>1, <2>2, ModCong, ScalarInt
<1>3. DOMAIN f = Others(i) /\ \A j \in Others(i) : f[j] = g[j] /\ f[j] \in Int
  BY <1>2, PackagesRouted DEF Others
<1>4. g[i] + RawTotal(f) = g[1] + g[2] + g[3]
  BY <1>2, <1>3, TotalWithOwn
<1>5. Total(f) \in Int /\ RawTotal(f) \in Int /\ Cong(Total(f), RawTotal(f))
  BY <1>3, TotalCong, ScalarInt
<1>6. g[i] \in Int /\ Cong(g[i], g[i])
  BY <1>2, CongRefl
<1>7. Cong(g[i] + Total(f), g[1] + g[2] + g[3])
  BY <1>4, <1>5, <1>6, CongAdd
<1>8. /\ g[1] \in Int /\ g[2] \in Int /\ g[3] \in Int
      /\ raw[1] \in Int /\ raw[2] \in Int /\ raw[3] \in Int
      /\ Cong(g[1], raw[1]) /\ Cong(g[2], raw[2]) /\ Cong(g[3], raw[3])
  BY <1>2 DEF Participants
<1>9. Cong(g[1] + g[2], raw[1] + raw[2])
  BY <1>8, CongAdd
<1>10. g[1] + g[2] \in Int /\ raw[1] + raw[2] \in Int
  BY <1>8
<1>11. Cong(g[1] + g[2] + g[3], raw[1] + raw[2] + raw[3])
  BY <1>8, <1>9, <1>10, CongAdd
<1>12. raw[1] + raw[2] + raw[3] = Secret(polys) + Slope(polys) * i
  <2>1. /\ polys[1].secret \in Int /\ polys[1].slope \in Int
        /\ polys[2].secret \in Int /\ polys[2].slope \in Int
        /\ polys[3].secret \in Int /\ polys[3].slope \in Int
    BY CoefficientsInt DEF Participants
  <2>2. /\ raw[1] = polys[1].secret + polys[1].slope * i
        /\ raw[2] = polys[2].secret + polys[2].slope * i
        /\ raw[3] = polys[3].secret + polys[3].slope * i
    BY DEF Participants
  <2> QED
    BY <1>1, <2>1, <2>2 DEF Secret, Slope
<1>13. g[i] + Total(f) \in Int /\ g[1] + g[2] + g[3] \in Int
       /\ raw[1] + raw[2] + raw[3] \in Int
  BY <1>5, <1>6, <1>8
<1>14. Cong(g[i] + Total(f), Secret(polys) + Slope(polys) * i)
  BY <1>7, <1>11, <1>12, <1>13, CongTrans
<1>15. SigningShare(polys, i) = (g[i] + Total(f)) % P
  BY DEF SigningShare
<1>16. /\ SigningShare(polys, i) \in Scalar
       /\ Cong(SigningShare(polys, i), g[i] + Total(f))
  BY <1>13, <1>15, ModCong
<1> QED
  BY <1>12, <1>13, <1>14, <1>16, ScalarInt, CongTrans

-----------------------------------------------------------------------------
(***************************************************************************)
(* Signing.                                                                *)
(***************************************************************************)

\* A prime above 3 is odd.
LEMMA POdd == \E h \in Nat : P = 2 * h + 1
<1>1. P % 2 # 0
  <2>1. 2 \in 2 .. P - 1
    BY PFacts
  <2> QED
    BY <2>1, PrimeAssumption
<1>2. P = 2 * (P \div 2) + (P % 2) /\ P \div 2 \in Nat /\ P % 2 \in 0 .. 1
  BY PFacts
<1> QED
  BY <1>1, <1>2

\* The differences of participants have inverses.
LEMMA DifferencesInvertible ==
  ASSUME NEW d \in {-2, -1, 1, 2}
  PROVE  \E y \in Scalar : Cong(d * y, 1)
<1>1. PICK h \in Nat : P = 2 * h + 1
  BY POdd
<1>2. CASE d = 1
  <2>1. 1 \in Scalar /\ d * 1 = 1 + 0 * P
    BY <1>2, PFacts DEF Scalar
  <2> QED
    BY <2>1 DEF Cong
<1>3. CASE d = -1
  <2>1. P - 1 \in Scalar /\ d * (P - 1) = 1 + (-1) * P
    BY <1>3, PFacts DEF Scalar
  <2> QED
    BY <2>1 DEF Cong
<1>4. CASE d = 2
  <2>1. h + 1 \in Scalar /\ d * (h + 1) = 1 + 1 * P
    BY <1>1, <1>4, PFacts DEF Scalar
  <2> QED
    BY <2>1 DEF Cong
<1>5. CASE d = -2
  <2>1. h \in Scalar /\ d * h = 1 + (-1) * P
    BY <1>1, <1>5, PFacts DEF Scalar
  <2> QED
    BY <2>1 DEF Cong
<1> QED
  BY <1>2, <1>3, <1>4, <1>5

\* Inverse is an inverse, for every difference of participants.
LEMMA InverseCong ==
  ASSUME NEW i \in Participants, NEW j \in Participants, i # j
  PROVE  /\ Inverse_((j - i) % P) \in Scalar
         /\ Cong((j - i) * Inverse_((j - i) % P), 1)
<1> DEFINE x == (j - i) % P
           d == j - i
<1>1. d \in {-2, -1, 1, 2} /\ d \in Int
  BY DEF Participants
<1>2. x \in Scalar /\ x \in Int /\ Cong(x, d) /\ Cong(d, x)
  BY <1>1, ModCong, ScalarInt, CongSym
<1>3. \A y \in Scalar : y \in Int /\ y * x = x * y /\ y * d = d * y
                        /\ x * y \in Int /\ d * y \in Int
  BY <1>1, <1>2, ScalarInt
<1>4. \A y \in Scalar : Cong(x * y, d * y) /\ Cong(d * y, x * y)
  <2> SUFFICES ASSUME NEW y \in Scalar
               PROVE  Cong(x * y, d * y) /\ Cong(d * y, x * y)
    OBVIOUS
  <2>1. Cong(y * x, y * d)
    BY <1>1, <1>2, <1>3, CongTimes
  <2> QED
    BY <1>3, <2>1, CongSym
<1>5. 1 \in Scalar /\ 1 % P = 1
  BY PFacts DEF Scalar
<1>6. \E y \in Scalar : (x * y) % P = 1
  <2>1. PICK y \in Scalar : Cong(d * y, 1)
    BY <1>1, DifferencesInvertible
  <2>2. Cong(x * y, 1)
    BY <1>3, <1>4, <2>1, CongTrans
  <2>3. (x * y) % P = 1 % P
    BY <1>3, <2>2, CongMod
  <2> QED
    BY <1>5, <2>3
<1>7. Inverse_(x) \in Scalar /\ (x * Inverse_(x)) % P = 1
  BY <1>6 DEF Inverse_
<1>8. Cong(1, x * Inverse_(x))
  BY <1>3, <1>7, ModCong
<1>9. Cong(x * Inverse_(x), 1)
  BY <1>3, <1>7, <1>8, CongSym
<1> QED
  BY <1>3, <1>4, <1>7, <1>9, CongTrans

\* The inverses of a difference and of its negation cancel.
LEMMA InversesCancel ==
  ASSUME NEW d \in Int, NEW u \in Int, NEW v \in Int,
         Cong(d * u, 1), Cong((- d) * v, 1)
  PROVE  Cong(u + v, 0)
<1>1. PICK k \in Int : d * u = 1 + k * P
  BY DEF Cong
<1>2. PICK l \in Int : (- d) * v = 1 + l * P
  BY DEF Cong
<1>3. d * (u + v) = (k - l) * P
  <2>1. d * (u + v) = d * u - (- d) * v
    OBVIOUS
  <2> QED
    BY <1>1, <1>2, <2>1, PFacts
<1>4. u + v = (d * u) * (u + v) - (k * P) * (u + v)
  BY <1>1, PFacts
<1>5. (d * u) * (u + v) = u * (d * (u + v))
  OBVIOUS
<1>6. u * (d * (u + v)) = (u * (k - l)) * P
  BY <1>3, PFacts
<1>7. (k * P) * (u + v) = (k * (u + v)) * P
  BY PFacts
<1>8. u + v = 0 + (u * (k - l) - k * (u + v)) * P
  BY <1>4, <1>5, <1>6, <1>7, PFacts
<1>9. u * (k - l) - k * (u + v) \in Int
  OBVIOUS
<1> QED
  BY <1>8, <1>9 DEF Cong

\* Interpolation: the weights of two points give back the value at zero of a
\* polynomial A + B * x.
LEMMA Interpolation ==
  ASSUME NEW i \in Int, NEW j \in Int, NEW u \in Int, NEW v \in Int,
         NEW A \in Int, NEW B \in Int,
         Cong((j - i) * u, 1), Cong((i - j) * v, 1)
  PROVE  Cong((j * u) * (A + B * i) + (i * v) * (A + B * j), A)
<1>1. Cong(u + v, 0)
  <2>1. i - j = - (j - i) /\ j - i \in Int
    OBVIOUS
  <2> QED
    BY <2>1, InversesCancel
<1>2. PICK k \in Int : (j - i) * u = 1 + k * P
  BY DEF Cong
<1>3. PICK l \in Int : u + v = 0 + l * P
  BY <1>1 DEF Cong
<1>4. v = l * P - u
  BY <1>3, PFacts
<1> DEFINE w == l * P
<1>5. w \in Int
  BY PFacts
<1>6. (j * u) * (A + B * i) + (i * v) * (A + B * j)
        = A * ((j - i) * u) + (i * (A + B * j)) * w
  <2>1. v = w - u
    BY <1>4
  <2> HIDE DEF w
  <2>2. (i * v) * (A + B * j) = (i * (A + B * j)) * w - (i * u) * (A + B * j)
    BY <1>5, <2>1
  <2>3. (j * u) * (A + B * i) - (i * u) * (A + B * j) = A * ((j - i) * u)
    OBVIOUS
  <2> QED
    BY <1>5, <2>2, <2>3
<1>7. A * ((j - i) * u) = A + (A * k) * P
  BY <1>2, PFacts
<1>8. (i * (A + B * j)) * w = ((i * (A + B * j)) * l) * P
  BY PFacts
<1>9. A * k \in Int /\ (i * (A + B * j)) * l \in Int
  OBVIOUS
<1>10. (j * u) * (A + B * i) + (i * v) * (A + B * j)
         = A + (A * k + (i * (A + B * j)) * l) * P
  BY <1>6, <1>7, <1>8, <1>9, PFacts
<1> QED
  BY <1>9, <1>10 DEF Cong

\* The Lagrange coefficient of one of two signers is its weight.
LEMMA LagrangeCong ==
  ASSUME NEW i \in Participants, NEW j \in Participants, i # j
  PROVE  /\ Lagrange(i, j) \in Scalar
         /\ Cong(Lagrange(i, j), j * Inverse_((j - i) % P))
<1>1. j \in Int /\ Inverse_((j - i) % P) \in Int
  <2>1. Inverse_((j - i) % P) \in Int
    BY InverseCong, ScalarInt
  <2> QED
    BY <2>1 DEF Participants
<1>2. j * Inverse_((j - i) % P) \in Int
  BY <1>1
<1> QED
  BY <1>2, ModCong DEF Lagrange

\* The weighted shares of any two participants add up to the group's secret.
LEMMA SharesInterpolate ==
  ASSUME NEW polys \in [Participants -> Polynomial],
         NEW i \in Participants, NEW j \in Participants, i # j
  PROVE  Cong(Lagrange(i, j) * SigningShare(polys, i)
                + Lagrange(j, i) * SigningShare(polys, j), Secret(polys))
<1> DEFINE u == Inverse_((j - i) % P)
           v == Inverse_((i - j) % P)
           A == Secret(polys)
           B == Slope(polys)
           Li == Lagrange(i, j)
           Lj == Lagrange(j, i)
           Si == SigningShare(polys, i)
           Sj == SigningShare(polys, j)
<1>1. i \in Int /\ j \in Int /\ A \in Int /\ B \in Int
  BY CoefficientsInt DEF Participants
<1>2. u \in Int /\ v \in Int /\ Cong((j - i) * u, 1) /\ Cong((i - j) * v, 1)
  BY InverseCong, ScalarInt
<1>3. /\ Li \in Int /\ Cong(Li, j * u)
      /\ Lj \in Int /\ Cong(Lj, i * v)
  BY LagrangeCong, ScalarInt
<1>4. /\ Si \in Int /\ Cong(Si, A + B * i)
      /\ Sj \in Int /\ Cong(Sj, A + B * j)
  BY SigningShareCong, ScalarInt
<1> HIDE DEF u, v, A, B, Li, Lj, Si, Sj
<1>5. /\ j * u \in Int /\ i * v \in Int
      /\ A + B * i \in Int /\ A + B * j \in Int
      /\ Li * Si \in Int /\ Lj * Sj \in Int
      /\ (j * u) * (A + B * i) \in Int /\ (i * v) * (A + B * j) \in Int
  BY <1>1, <1>2, <1>3, <1>4
<1>6. Cong(Li * Si, (j * u) * (A + B * i))
  BY <1>3, <1>4, <1>5, CongMul
<1>7. Cong(Lj * Sj, (i * v) * (A + B * j))
  BY <1>3, <1>4, <1>5, CongMul
<1>8. Cong(Li * Si + Lj * Sj, (j * u) * (A + B * i) + (i * v) * (A + B * j))
  BY <1>5, <1>6, <1>7, CongAdd
<1>9. Cong((j * u) * (A + B * i) + (i * v) * (A + B * j), A)
  BY <1>1, <1>2, Interpolation
<1>10. /\ Li * Si + Lj * Sj \in Int
       /\ (j * u) * (A + B * i) + (i * v) * (A + B * j) \in Int
  BY <1>5
<1>11. Cong(Li * Si + Lj * Sj, A)
  BY <1>1, <1>8, <1>9, <1>10, CongTrans
<1> QED
  BY <1>11 DEF Li, Lj, Si, Sj, A

\* A sum over two signers has no other terms.
LEMMA TotalOfTwo ==
  ASSUME NEW i \in Participants, NEW j \in Participants, i # j, NEW f,
         DOMAIN f = {i, j}, f[i] \in Int, f[j] \in Int
  PROVE  RawTotal(f) = f[i] + f[j]
<1>1. i \in {1, 2, 3} /\ j \in {1, 2, 3}
  BY DEF Participants
<1>2. CASE i = 1
  BY <1>1, <1>2 DEF RawTotal
<1>3. CASE i = 2
  BY <1>1, <1>3 DEF RawTotal
<1>4. CASE i = 3
  BY <1>1, <1>4 DEF RawTotal
<1> QED
  BY <1>1, <1>2, <1>3, <1>4

\* The aggregate of any two participants verifies under the group key, whatever
\* nonces they have drawn and whatever the hashes are.
THEOREM AnyTwoSign ==
  ASSUME NEW polys \in [Participants -> Polynomial],
         NEW i \in Participants, NEW j \in Participants, i # j,
         NEW nonces \in [Participants -> Nonces], NEW hash \in Hashing
  PROVE  Verifies(Aggregate(FrostCredential(polys), <<i, j>>, nonces, hash),
                  hash, FrostCredential(polys).public_key_package)
<1> DEFINE credential == FrostCredential(polys)
           pair == <<i, j>>
           com == Commitments(pair, nonces)
           c == hash.challenge
           Y == PublicPackage(polys, 1)
           Ri == nonces[i].hiding + nonces[i].binding * hash.rho[i]
           Rj == nonces[j].hiding + nonces[j].binding * hash.rho[j]
           Ki == Lagrange(i, j) * SigningShare(polys, i)
           Kj == Lagrange(j, i) * SigningShare(polys, j)
           rs == [k \in DOMAIN com |->
                    com[k].hiding + com[k].binding * hash.rho[k]]
           zs == [k \in DOMAIN com |->
                    SignatureShare(credential, pair, k, nonces, hash)]
<1>1. c \in Int /\ Ri \in Int /\ Rj \in Int
  <2>1. /\ nonces[i].hiding \in Int /\ nonces[i].binding \in Int
        /\ nonces[j].hiding \in Int /\ nonces[j].binding \in Int
    BY ScalarInt DEF Nonces
  <2>2. hash.rho[i] \in Int /\ hash.rho[j] \in Int /\ c \in Int
    BY ScalarInt DEF Hashing
  <2> QED
    BY <2>1, <2>2
<1>2. Ki \in Int /\ Kj \in Int /\ Cong(Ki + Kj, Secret(polys))
  <2>1. /\ Lagrange(i, j) \in Int /\ Lagrange(j, i) \in Int
        /\ SigningShare(polys, i) \in Int /\ SigningShare(polys, j) \in Int
    BY LagrangeCong, SigningShareCong, ScalarInt
  <2> QED
    BY <2>1, SharesInterpolate
<1>3. Y \in Int /\ Cong(Y, Secret(polys)) /\ Cong(Secret(polys), Y)
  <2>1. 1 \in Participants
    BY DEF Participants
  <2>2. Y \in Scalar /\ Cong(Y, Secret(polys))
    BY <2>1, PublicPackageCong
  <2> HIDE DEF Y
  <2> QED
    BY <2>2, CoefficientsInt, ScalarInt, CongSym
<1>4. DOMAIN com = {i, j} /\ com[i] = nonces[i] /\ com[j] = nonces[j]
  BY DEF Commitments
<1>5. /\ DOMAIN rs = {i, j} /\ rs[i] = Ri /\ rs[j] = Rj
      /\ \A k \in DOMAIN rs : rs[k] \in Int
  BY <1>1, <1>4
<1>6. Total(rs) \in Int /\ Cong(Total(rs), Ri + Rj)
  <2> HIDE DEF rs, Ri, Rj
  <2>1. RawTotal(rs) = Ri + Rj
    BY <1>1, <1>5, TotalOfTwo
  <2> QED
    BY <1>5, <2>1, TotalCong, ScalarInt
<1>7. /\ DOMAIN zs = {i, j}
      /\ zs[i] = (Ri + Ki * c) % P /\ zs[j] = (Rj + Kj * c) % P
  <2>1. /\ credential.participants[i] = SigningShare(polys, i)
        /\ credential.participants[j] = SigningShare(polys, j)
    BY DEF FrostCredential
  <2>2. pair[1] = i /\ pair[2] = j
    OBVIOUS
  <2>3. /\ SignatureShare(credential, pair, i, nonces, hash) = (Ri + Ki * c) % P
        /\ SignatureShare(credential, pair, j, nonces, hash) = (Rj + Kj * c) % P
    <3> HIDE DEF credential, pair
    <3> QED
      BY <2>1, <2>2 DEF SignatureShare
  <2> HIDE DEF credential, pair
  <2> QED
    BY <1>4, <2>3
<1> HIDE DEF credential, pair, com, c, Y, Ri, Rj, Ki, Kj, rs, zs
<1>8. /\ zs[i] \in Int /\ Cong(zs[i], Ri + Ki * c)
      /\ zs[j] \in Int /\ Cong(zs[j], Rj + Kj * c)
      /\ \A k \in DOMAIN zs : zs[k] \in Int
      /\ Ri + Ki * c \in Int /\ Rj + Kj * c \in Int
  <2>1. Ri + Ki * c \in Int /\ Rj + Kj * c \in Int
    BY <1>1, <1>2
  <2> QED
    BY <1>7, <2>1, ModCong, ScalarInt
<1>9. Total(zs) \in Scalar /\ Total(zs) \in Int /\ Cong(Total(zs), zs[i] + zs[j])
  BY <1>7, <1>8, TotalCong, TotalOfTwo, ScalarInt
<1>10. Cong(zs[i] + zs[j], (Ri + Ki * c) + (Rj + Kj * c))
  BY <1>8, CongAdd
<1>11. Cong(Total(zs), (Ri + Rj) + c * (Ki + Kj))
  <2>1. (Ri + Ki * c) + (Rj + Kj * c) = (Ri + Rj) + c * (Ki + Kj)
    BY <1>1, <1>2
  <2>2. zs[i] + zs[j] \in Int /\ (Ri + Ki * c) + (Rj + Kj * c) \in Int
    BY <1>8
  <2>3. Cong(Total(zs), (Ri + Ki * c) + (Rj + Kj * c))
    BY <1>9, <1>10, <2>2, CongTrans
  <2> QED
    BY <2>1, <2>3
<1>12. Cong(c * (Ki + Kj), c * Y)
  <2>1. Ki + Kj \in Int
    BY <1>2
  <2>2. Cong(Ki + Kj, Y)
    BY <1>2, <1>3, <2>1, CoefficientsInt, CongTrans
  <2> QED
    BY <1>1, <1>3, <2>1, <2>2, CongTimes
<1>13. Cong(Ri + Rj, Total(rs))
  <2>1. Ri + Rj \in Int
    BY <1>1
  <2> QED
    BY <1>6, <2>1, CongSym
<1>14. /\ Ri + Rj \in Int /\ c * (Ki + Kj) \in Int /\ c * Y \in Int
       /\ (Ri + Rj) + c * (Ki + Kj) \in Int
       /\ Total(rs) + c * Y \in Int
  BY <1>1, <1>2, <1>3, <1>6
<1>15. Cong((Ri + Rj) + c * (Ki + Kj), Total(rs) + c * Y)
  BY <1>6, <1>12, <1>13, <1>14, CongAdd
<1>16. Cong(Total(zs), Total(rs) + c * Y)
  BY <1>9, <1>11, <1>14, <1>15, CongTrans
<1>17. Total(zs) = (Total(rs) + c * Y) % P
  <2>1. /\ (Total(rs) + c * Y) % P \in Scalar
        /\ Cong((Total(rs) + c * Y) % P, Total(rs) + c * Y)
    BY <1>14, ModCong
  <2>2. Cong(Total(rs) + c * Y, (Total(rs) + c * Y) % P)
    BY <1>14, <2>1, ScalarInt, CongSym
  <2>3. Cong(Total(zs), (Total(rs) + c * Y) % P)
    BY <1>9, <1>14, <1>16, <2>1, <2>2, ScalarInt, CongTrans
  <2> QED
    BY <1>9, <2>1, <2>3, CongScalars
<1>18. credential.public_key_package = Y
  BY DEF FrostCredential, credential, Y
<1>19. /\ Aggregate(credential, pair, nonces, hash).R = Total(rs)
       /\ Aggregate(credential, pair, nonces, hash).z = Total(zs)
  BY DEF Aggregate, com, rs, zs
<1>20. Verifies(Aggregate(credential, pair, nonces, hash), hash,
                credential.public_key_package)
  BY <1>17, <1>18, <1>19 DEF Verifies, c
<1> QED
  BY <1>20 DEF credential, pair

-----------------------------------------------------------------------------
(***************************************************************************)
(* The backend.                                                            *)
(***************************************************************************)

\* What is drawn is a polynomial over the scalars.
LEMMA PolynomialsDrawn ==
  [Participants -> Polynomials] \subseteq [Participants -> Polynomial]
  BY DrawAssumption

-----------------------------------------------------------------------------
(***************************************************************************)
(* Each operation is one of the trait's.                                   *)
(***************************************************************************)

\* No credentials, and no call made yet.
LEMMA InitImplements == Init => Contract!BackendInit
  BY DEF Init, EmptyMap, Contract!BackendInit, Contract!EmptyMap, Contract!Done

\* create_credential: a public key under a handle no credential has.
LEMMA CreateImplements ==
  ASSUME NEW rp \in Rps, CreateCredential(rp)
  PROVE  Contract!Create(rp) \/ Contract!CreateFails(rp)
<1>1. CASE rp = EmptyRp
  BY <1>1 DEF CreateCredential, Contract!CreateFails, Contract!Failure
<1>2. CASE rp # EmptyRp
  <2>1. PICK polys \in [Participants -> Polynomials] :
          IF CeremonySucceeds(polys)
          THEN \E h \in Handles :
                 /\ Drawn(h)
                 /\ credentials' = Put(credentials, h, FrostCredential(polys))
                 /\ reply' = [handle |-> h,
                              public_key |-> PublicPackage(polys, 1)]
          ELSE reply' = [error |-> "Internal"] /\ UNCHANGED credentials
    BY <1>2 DEF CreateCredential
  <2>2. CASE CeremonySucceeds(polys)
    <3>1. PICK h \in Handles :
            /\ Drawn(h)
            /\ credentials' = Put(credentials, h, FrostCredential(polys))
            /\ reply' = [handle |-> h, public_key |-> PublicPackage(polys, 1)]
      BY <2>1, <2>2
    <3>2. PublicPackage(polys, 1) \in Scalar
      <4>1. 1 \in Participants
        BY DEF Participants
      <4> QED
        BY <4>1, PolynomialsDrawn, PublicPackageCong
    <3> QED
      BY <1>2, <3>1, <3>2
         DEF Drawn, Put, FrostCredential, Contract!Create, Contract!Created,
             Contract!Put
  <2>3. CASE ~CeremonySucceeds(polys)
    BY <1>2, <2>1, <2>3 DEF Contract!CreateFails, Contract!Failure
  <2> QED
    BY <2>2, <2>3
<1> QED
  BY <1>1, <1>2

\* sign: under the public key of the handle, or an error, whichever
\* participants sign and whatever they draw.
LEMMA SignImplements ==
  ASSUME NEW h \in Handles, NEW m \in Payloads, Sign(h, m)
  PROVE  Contract!Sign(h, m) \/ Contract!SignFails(h, m)
<1>1. CASE h \notin DOMAIN credentials
  BY <1>1 DEF Sign, SignReplies, Contract!SignFails, Contract!Failure
<1>2. CASE h \in DOMAIN credentials
  <2>1. reply' \in {[key |-> credentials[h].public_key_package, message |-> m],
                    [error |-> "Internal"]}
    BY <1>2 DEF Sign, SignReplies, SignWith
  <2> QED
    BY <1>2, <2>1
       DEF Sign, Contract!Sign, Contract!SignFails, Contract!Signature,
           Contract!Failure
<1> QED
  BY <1>1, <1>2

\* delete_credential: the shares go, or an unknown handle is reported.
LEMMA DeleteImplements ==
  ASSUME NEW h \in Handles, DeleteCredential(h)
  PROVE  Contract!Delete(h) \/ Contract!DeleteFails(h)
<1>1. CASE h \in DOMAIN credentials
  BY <1>1 DEF DeleteCredential, Remove, Contract!Delete, Contract!Remove,
              Contract!Done
<1>2. CASE h \notin DOMAIN credentials
  <2>1. DOMAIN credentials \ {h} = DOMAIN credentials
    BY <1>2
  <2> QED
    BY <1>2, <2>1
       DEF DeleteCredential, Remove, Contract!DeleteFails, Contract!Failure
<1> QED
  BY <1>1, <1>2

\* Every step is one of the abstract backend or leaves its state alone.
LEMMA NextImplements ==
  [Next]_vars => [Contract!BackendNext]_Contract!backendVars
<1> SUFFICES ASSUME [Next]_vars
             PROVE  Contract!BackendNext \/ UNCHANGED Contract!backendVars
  OBVIOUS
<1>1. ASSUME NEW rp \in Rps, CreateCredential(rp) PROVE Contract!BackendNext
  BY <1>1, CreateImplements DEF Contract!BackendNext
<1>2. ASSUME NEW h \in Handles, NEW m \in Payloads, Sign(h, m)
      PROVE  Contract!BackendNext
  BY <1>2, SignImplements DEF Contract!BackendNext
<1>3. ASSUME NEW h \in Handles, DeleteCredential(h) PROVE Contract!BackendNext
  BY <1>3, DeleteImplements DEF Contract!BackendNext
<1>4. ASSUME NEW i \in Participants, NEW available \in BOOLEAN,
             SetParticipantAvailable(i, available)
      PROVE  UNCHANGED Contract!backendVars
  BY <1>4 DEF SetParticipantAvailable, Contract!backendVars
<1>5. CASE UNCHANGED vars
  BY <1>5 DEF vars, Contract!backendVars
<1> QED
  BY <1>1, <1>2, <1>3, <1>4, <1>5 DEF Next

\* For every group order, every sets of handles and messages and everything
\* that may be drawn, the FROST backend keeps every promise of the trait.
THEOREM FrostImplements == Spec => ImplementsCredentialBackend
  BY InitImplements, NextImplements, PTL
     DEF Spec, ImplementsCredentialBackend, Contract!BackendSpec

-----------------------------------------------------------------------------
(***************************************************************************)
(* The choice of signers: the four candidates contain every pair.          *)
(***************************************************************************)

SignersOK ==
  /\ preferred_signers \in ValidSigners
  /\ participant_available \in [Participants -> BOOLEAN]

\* Preference and availability keep their types, and the preferred pair is of two.
LEMMA SignersStayOK == Spec => []SignersOK
<1>1. Init => SignersOK
  BY DEF Init, SignersOK
<1>2. SignersOK /\ [Next]_vars => SignersOK'
  BY DEF SignersOK, Next, vars, SetParticipantAvailable
<1> QED
  BY <1>1, <1>2, PTL DEF Spec

\* Two participants are available just when one of the three pairs is.
LEMMA TwoAvailable ==
  ASSUME NEW S \in SUBSET Participants
  PROVE  Cardinality(S) >= 2 <=>
           {1, 2} \subseteq S \/ {1, 3} \subseteq S \/ {2, 3} \subseteq S
<1>1. Participants = {1, 2, 3}
  BY DEF Participants
<1>2. IsFiniteSet(Participants)
  <2>1. 1 \in Int /\ 3 \in Int
    OBVIOUS
  <2> QED
    BY <2>1, FS_Interval DEF Participants
<1>3. IsFiniteSet(S)
  BY <1>2, FS_Subset
<1>4. ASSUME NEW i \in Participants, NEW j \in Participants, i # j,
             {i, j} \subseteq S
      PROVE  Cardinality(S) >= 2
  <2>1. IsFiniteSet({i}) /\ Cardinality({i}) = 1
    BY FS_Singleton
  <2>2. Cardinality({i} \cup {j}) = 2
    <3>1. j \notin {i}
      BY <1>4
    <3> QED
      BY <2>1, <3>1, FS_AddElement
  <2>3. {i, j} = {i} \cup {j}
    OBVIOUS
  <2> QED
    BY <1>3, <1>4, <2>2, <2>3, FS_Subset, FS_CardinalityType
<1>5. ASSUME ~ {1, 2} \subseteq S, ~ {1, 3} \subseteq S, ~ {2, 3} \subseteq S
      PROVE  Cardinality(S) < 2
  <2>1. PICK i \in Participants : S \subseteq {i}
    BY <1>1, <1>5
  <2>2. IsFiniteSet({i}) /\ Cardinality({i}) = 1
    BY FS_Singleton
  <2>3. Cardinality(S) <= 1
    BY <2>1, <2>2, FS_Subset
  <2> QED
    BY <1>3, <2>3, FS_CardinalityType
<1>6. Cardinality(S) \in Nat
  BY <1>3, FS_CardinalityType
<1> QED
  BY <1>1, <1>4, <1>5, <1>6

\* The candidates, by their place.
LEMMA CandidateFacts ==
  ASSUME SignersOK
  PROVE  /\ DOMAIN Candidates = 1 .. 4 /\ Len(Candidates) = 4
         /\ Candidates[1] = preferred_signers
         /\ Candidates[2] = <<1, 2>>
         /\ Candidates[3] = <<1, 3>>
         /\ Candidates[4] = <<2, 3>>
         /\ \A n \in 1 .. 4 : Candidates[n] \in ValidSigners
  BY DEF Candidates, SignersOK, ValidSigners, Participants

\* selected_signers returns a pair just when two participants are available.
LEMMA SelectableFacts ==
  ASSUME SignersOK
  PROVE  Selectable # {} <=> Cardinality(Available) >= 2
<1>1. Available \in SUBSET Participants
  BY DEF Available
<1>2. ASSUME NEW n \in Selectable
      PROVE  \/ {1, 2} \subseteq Available \/ {1, 3} \subseteq Available
             \/ {2, 3} \subseteq Available
  <2>1. n \in 1 .. 4 /\ CanSign(Candidates[n])
    BY CandidateFacts DEF Selectable
  <2>2. PICK i \in Participants, j \in Participants :
          Candidates[n] = <<i, j>> /\ i # j
    BY <2>1, CandidateFacts DEF ValidSigners
  <2>3. i \in Available /\ j \in Available
    BY <2>1, <2>2 DEF CanSign, Available
  <2>4. i \in {1, 2, 3} /\ j \in {1, 2, 3}
    BY <2>2 DEF Participants
  <2> QED
    BY <2>2, <2>3, <2>4
<1>3. ASSUME NEW n \in 1 .. 4, NEW i \in Participants, NEW j \in Participants,
             Candidates[n] = <<i, j>>, {i, j} \subseteq Available
      PROVE  n \in Selectable
  <2>1. participant_available[i] /\ participant_available[j]
    BY <1>3 DEF Available
  <2>2. CanSign(<<i, j>>)
    BY <2>1 DEF CanSign
  <2>3. n \in 1 .. Len(Candidates)
    BY CandidateFacts
  <2> QED
    BY <1>3, <2>2, <2>3 DEF Selectable
<1>4. {1, 2} \subseteq Available \/ {1, 3} \subseteq Available
         \/ {2, 3} \subseteq Available => Selectable # {}
  BY <1>3, CandidateFacts DEF Participants
<1> QED
  BY <1>1, <1>2, <1>4, TwoAvailable

\* The first selectable candidate is the preferred pair when that can sign.
LEMMA SelectedFacts ==
  ASSUME SignersOK, Selectable # {}
  PROVE  /\ Selected \in ValidSigners
         /\ CanSign(Selected)
         /\ CanSign(preferred_signers) => Selected = preferred_signers
<1> DEFINE First(n) == \A k \in Selectable : n <= k
           n == CHOOSE n \in Selectable : First(n)
<1>1. Selectable \subseteq 1 .. 4
  BY CandidateFacts DEF Selectable
<1>2. \E n_1 \in Selectable : First(n_1)
  <2>1. CASE 1 \in Selectable
    BY <1>1, <2>1
  <2>2. CASE 1 \notin Selectable /\ 2 \in Selectable
    BY <1>1, <2>2
  <2>3. CASE 1 \notin Selectable /\ 2 \notin Selectable /\ 3 \in Selectable
    BY <1>1, <2>3
  <2>4. CASE Selectable \subseteq {4}
    <3>1. Selectable = {4}
      BY <2>4
    <3> QED
      BY <3>1
  <2> QED
    BY <1>1, <2>1, <2>2, <2>3, <2>4
<1>3. n \in Selectable /\ First(n)
  BY <1>2
<1>4. Selected = Candidates[n]
  BY DEF Selected
<1>5. CanSign(preferred_signers) => 1 \in Selectable
  BY CandidateFacts DEF Selectable
<1>6. ASSUME CanSign(preferred_signers) PROVE n = 1
  <2>1. n <= 1
    BY <1>3, <1>5, <1>6
  <2>2. n \in 1 .. 4
    BY <1>1, <1>3
  <2> HIDE DEF n
  <2> QED
    BY <2>1, <2>2
<1> QED
  BY <1>1, <1>3, <1>4, <1>6, CandidateFacts DEF Selectable

\* For every preferred pair and every availability: a pair is selected just when
\* two participants are available, it is of two available ones, and it is the
\* preferred one whenever that can sign.
THEOREM QuorumAlwaysSelects == Spec => []QuorumSelects
<1>1. SignersOK => QuorumSelects
  <2> SUFFICES ASSUME SignersOK PROVE QuorumSelects
    OBVIOUS
  <2>1. (Selectable # {}) <=> (Cardinality(Available) >= 2)
    BY SelectableFacts
  <2>2. ASSUME Selectable # {}
        PROVE  /\ Selected \in ValidSigners
               /\ Selected[1] \in Available /\ Selected[2] \in Available
               /\ CanSign(preferred_signers) => Selected = preferred_signers
    BY <2>2, SelectedFacts DEF Available, CanSign, ValidSigners
  <2> QED
    BY <2>1, <2>2 DEF QuorumSelects
<1> QED
  BY <1>1, SignersStayOK, PTL

-----------------------------------------------------------------------------
(***************************************************************************)
(* The ceremonies within the backend.                                      *)
(***************************************************************************)

\* A registration never takes an error path of generate_credential: all three
\* participants finish with the same public package, whatever they draw.
THEOREM CeremonyAlwaysAgrees == Spec => CeremonyAgrees
<1>1. ASSUME NEW rp \in Rps \ {EmptyRp}, CreateCredential(rp)
      PROVE  "public_key" \in DOMAIN reply'
  <2>1. PICK polys \in [Participants -> Polynomials] :
          IF CeremonySucceeds(polys)
          THEN \E h \in Handles :
                 /\ Drawn(h)
                 /\ credentials' = Put(credentials, h, FrostCredential(polys))
                 /\ reply' = [handle |-> h,
                              public_key |-> PublicPackage(polys, 1)]
          ELSE reply' = [error |-> "Internal"] /\ UNCHANGED credentials
    BY <1>1 DEF CreateCredential
  <2>2. CeremonySucceeds(polys)
    BY PolynomialsDrawn, CeremonyAlwaysSucceeds
  <2>3. PICK h \in Handles :
          reply' = [handle |-> h, public_key |-> PublicPackage(polys, 1)]
    BY <2>1, <2>2
  <2> QED
    BY <2>3
<1>2. \A rp \in Rps \ {EmptyRp} :
        CreateCredential(rp) => "public_key" \in DOMAIN reply'
  BY <1>1
<1> QED
  BY <1>2, PTL DEF CeremonyAgrees

\* Every credential is the outcome of a ceremony.
SharesOK ==
  \A h \in DOMAIN credentials :
    \E polys \in [Participants -> Polynomials] :
      credentials[h] = FrostCredential(polys)

\* Every stored credential is what a key generation made.
LEMMA SharesStayOK == Spec => []SharesOK
<1>1. Init => SharesOK
  BY DEF Init, SharesOK, EmptyMap
<1>2. SharesOK /\ [Next]_vars => SharesOK'
  <2> SUFFICES ASSUME SharesOK, [Next]_vars PROVE SharesOK'
    OBVIOUS
  <2>1. ASSUME NEW rp \in Rps, CreateCredential(rp) PROVE SharesOK'
    <3>1. CASE UNCHANGED credentials
      BY <3>1 DEF SharesOK
    <3>2. CASE \E polys \in [Participants -> Polynomials], h \in Handles :
                 credentials' = Put(credentials, h, FrostCredential(polys))
      BY <3>2 DEF SharesOK, Put
    <3> QED
      BY <2>1, <3>1, <3>2 DEF CreateCredential
  <2>2. ASSUME NEW h \in Handles, NEW m \in Payloads, Sign(h, m)
        PROVE  SharesOK'
    BY <2>2 DEF Sign, SharesOK
  <2>3. ASSUME NEW h \in Handles, DeleteCredential(h) PROVE SharesOK'
    BY <2>3 DEF DeleteCredential, Remove, SharesOK
  <2>4. ASSUME NEW i \in Participants, NEW available \in BOOLEAN,
               SetParticipantAvailable(i, available)
        PROVE  SharesOK'
    BY <2>4 DEF SetParticipantAvailable, SharesOK
  <2>5. CASE UNCHANGED vars
    BY <2>5 DEF vars, SharesOK
  <2> QED
    BY <2>1, <2>2, <2>3, <2>4, <2>5 DEF Next
<1> QED
  BY <1>1, <1>2, PTL DEF Spec

\* sign_with succeeds for every pair and whatever is drawn.
LEMMA SignWithSucceeds ==
  ASSUME NEW polys \in [Participants -> Polynomials], NEW pair \in ValidSigners,
         NEW m, NEW nonces \in [Participants -> NonceDraws],
         NEW hash \in Hashings
  PROVE  SignWith(FrostCredential(polys), pair, m, nonces, hash)
           = [key |-> FrostCredential(polys).public_key_package, message |-> m]
<1>1. PICK i \in Participants, j \in Participants : pair = <<i, j>> /\ i # j
  BY DEF ValidSigners
<1>2. nonces \in [Participants -> Nonces] /\ hash \in Hashing
  BY DrawAssumption
<1>3. Verifies(Aggregate(FrostCredential(polys), pair, nonces, hash), hash,
               FrostCredential(polys).public_key_package)
  BY <1>1, <1>2, PolynomialsDrawn, AnyTwoSign
<1>4. Round2Accepts(pair, nonces)
  BY DEF Round2Accepts, Commitments
<1> QED
  BY <1>3, <1>4 DEF SignWith

\* For every prime order, every preferred pair and every availability, any two
\* participants that remain sign under the public key that was given out,
\* whatever was drawn at the key generation and is drawn for the signature.
THEOREM QuorumAlwaysSigns == Spec => []QuorumSigns
<1>1. SignersOK /\ SharesOK => QuorumSigns
  <2> SUFFICES ASSUME SignersOK, SharesOK, Cardinality(Available) >= 2,
                      NEW h \in DOMAIN credentials, NEW m \in Payloads
               PROVE  SignReplies(h, m) =
                        {[key |-> credentials[h].public_key_package,
                          message |-> m]}
    BY DEF QuorumSigns
  <2>1. Selectable # {} /\ Selected \in ValidSigners
    BY SelectableFacts, SelectedFacts
  <2>2. PICK polys \in [Participants -> Polynomials] :
          credentials[h] = FrostCredential(polys)
    BY DEF SharesOK
  <2> DEFINE signed == [key |-> credentials[h].public_key_package, message |-> m]
             reply_(nonces, hash) ==
               SignWith(credentials[h], Selected, m, nonces, hash)
  <2>3. \A nonces \in [Participants -> NonceDraws], hash \in Hashings :
          reply_(nonces, hash) = signed
    BY <2>1, <2>2, SignWithSucceeds
  <2>4. \A x : x \in SignReplies(h, m) <=>
          \E nonces \in [Participants -> NonceDraws], hash \in Hashings :
            x = reply_(nonces, hash)
    BY <2>1 DEF SignReplies
  <2>5. PICK draw \in NonceDraws, hash \in Hashings : TRUE
    BY DrawAssumption
  <2>6. [i \in Participants |-> draw] \in [Participants -> NonceDraws]
    OBVIOUS
  <2> HIDE DEF signed, reply_
  <2>7. \A x : x \in SignReplies(h, m) <=> x = signed
    BY <2>3, <2>4, <2>5, <2>6
  <2> QED
    BY <2>7 DEF signed
<1> QED
  BY <1>1, SignersStayOK, SharesStayOK, PTL

=============================================================================
