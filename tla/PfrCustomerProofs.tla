------------------------- MODULE PfrCustomerProofs -------------------------
(***************************************************************************)
(* Proofs about PfrCustomer, for every size of an octet and every table of *)
(* prefixes and local networks: the ranges of signed integers that         *)
(* pfr_prefix4 builds octet by octet are the blocks of addresses that the  *)
(* prefixes mean, and so are the masks of pfr_localnets.                   *)
(***************************************************************************)
EXTENDS PfrCustomer, WellFoundedInduction, TLAPS

(***************************************************************************)
(* Induction and recursion on the natural numbers.                         *)
(***************************************************************************)

\* Induction on the natural numbers, for a set of them.
LEMMA NatInd ==
    ASSUME NEW S, 0 \in S, \A n \in Nat : n \in S => n + 1 \in S
    PROVE  Nat \subseteq S
<1> DEFINE Less == {p \in Nat \X Nat : p[1] < p[2]}
           T == Nat \ S
<1>1. IsWellFoundedOn(Less, Nat)
  BY Zenon, NatLessThanWellFounded DEF OpToRel
<1>2. SUFFICES ASSUME T # {} PROVE FALSE
  OBVIOUS
<1> HIDE DEF Less
<1>3. PICK x \in T : \A y \in T : ~(<<y, x>> \in Less)
  BY <1>1, <1>2, WFMin
<1>4. x \in Nat /\ x # 0
  BY <1>3
<1>5. x - 1 \in Nat /\ <<x - 1, x>> \in Less
  BY <1>4 DEF Less
<1>6. x - 1 \in S
  BY <1>3, <1>5
<1> QED
  BY <1>3, <1>4, <1>5, <1>6

\* Function f starts with x0 and goes on with F.
Recursive(f, x0, F) == f[0] = x0 /\ \A n \in Nat : f[n + 1] = F[<<n + 1, f[n]>>]

\* There is such a function.
LEMMA Recursion ==
    ASSUME NEW X, NEW x0 \in X, NEW F \in [Nat \X X -> X]
    PROVE  \E f \in [Nat -> X] : Recursive(f, x0, F)
<1> DEFINE Start(n, g) == /\ g \in [0 .. n -> X] /\ g[0] = x0
                          /\ \A i \in Nat : i < n => g[i + 1] = F[<<i + 1, g[i]>>]
           Good == {n \in Nat : \E g \in [0 .. n -> X] : Start(n, g)}
           Partial(n) == CHOOSE g : Start(n, g)
           f == [n \in Nat |-> Partial(n)[n]]
<1>1. 0 \in Good
  <2>1. Start(0, [i \in 0 .. 0 |-> x0])
    OBVIOUS
  <2> QED
    BY <2>1
<1>2. ASSUME NEW n \in Nat, n \in Good PROVE n + 1 \in Good
  <2>1. PICK g : Start(n, g)
    BY <1>2
  <2> DEFINE h == [i \in 0 .. n + 1 |-> IF i = n + 1 THEN F[<<n + 1, g[n]>>] ELSE g[i]]
  <2>2. n + 1 \in Nat /\ h \in [0 .. n + 1 -> X]
    BY <2>1
  <2>3. h[0] = x0
    BY <2>1
  <2>4. ASSUME NEW i \in Nat, i < n + 1 PROVE h[i + 1] = F[<<i + 1, h[i]>>]
    <3>1. h[i] = g[i]
      BY <2>4
    <3>2. CASE i = n
      <4>1. h[n + 1] = F[<<n + 1, g[n]>>]
        BY <2>2
      <4> QED
        BY Zenon, <3>1, <3>2, <4>1
    <3>3. CASE i < n
      <4>1. h[i + 1] = g[i + 1]
        BY <3>3
      <4>2. g[i + 1] = F[<<i + 1, g[i]>>]
        BY <2>1, <3>3
      <4> QED
        BY <3>1, <4>1, <4>2
    <3> QED
      BY <2>4, <3>2, <3>3
  <2> HIDE DEF h
  <2>5. Start(n + 1, h)
    BY <2>2, <2>3, <2>4
  <2> HIDE DEF Start
  <2> QED
    BY <2>2, <2>5
<1>3. \A n \in Nat : Start(n, Partial(n))
  <2>1. Nat \subseteq Good
    <3> HIDE DEF Good
    <3> QED
      BY <1>1, <1>2, NatInd
  <2> QED
    BY <2>1
<1> HIDE DEF Partial
<1>4. ASSUME NEW n \in Nat PROVE Partial(n + 1)[n] = Partial(n)[n]
  <2> DEFINE g == Partial(n)
             h == Partial(n + 1)
             Same == {i \in Nat : i <= n => h[i] = g[i]}
  <2>1. Start(n, g) /\ Start(n + 1, h)
    BY <1>3
  <2> HIDE DEF g, h
  <2>2. 0 \in Same
    BY <2>1
  <2>3. ASSUME NEW i \in Nat, i \in Same PROVE i + 1 \in Same
    <3> SUFFICES ASSUME i + 1 <= n PROVE h[i + 1] = g[i + 1]
      OBVIOUS
    <3>1. h[i] = g[i] /\ i < n /\ i < n + 1
      BY <2>3
    <3> QED
      BY <2>1, <3>1
  <2>4. Nat \subseteq Same
    <3> HIDE DEF Same
    <3> QED
      BY <2>2, <2>3, NatInd
  <2> QED
    BY <2>4 DEF g, h
<1>5. f \in [Nat -> X]
  BY <1>3
<1>6. f[0] = x0
  BY <1>3
<1>7. ASSUME NEW n \in Nat PROVE f[n + 1] = F[<<n + 1, f[n]>>]
  <2>1. Start(n + 1, Partial(n + 1)) /\ n < n + 1
    BY <1>3
  <2>2. Partial(n + 1)[n + 1] = F[<<n + 1, Partial(n + 1)[n]>>]
    BY <2>1
  <2> QED
    BY <1>4, <2>2
<1> QED
  BY <1>5, <1>6, <1>7 DEF Recursive

----------------------------------------------------------------------------
(***************************************************************************)
(* Powers of 2 and division.                                               *)
(***************************************************************************)

\* The equations of the recursion.
LEMMA PowDef ==
    /\ \A n \in Nat : pow2[n] \in Nat /\ pow2[n] >= 1
    /\ pow2[0] = 1
    /\ \A n \in Nat : pow2[n + 1] = 2 * pow2[n]
<1> DEFINE Double == [p \in Nat \X Nat |-> 2 * p[2]]
           Eqn(g) == g = [n \in Nat |-> IF n = 0 THEN 1 ELSE 2 * g[n - 1]]
<1>1. Double \in [Nat \X Nat -> Nat]
  OBVIOUS
<1>2. \A n \in Nat, x \in Nat : <<n, x>> \in Nat \X Nat /\ Double[<<n, x>>] = 2 * x
  OBVIOUS
<1> HIDE DEF Double
<1>3. PICK h \in [Nat -> Nat] : Recursive(h, 1, Double)
  <2>1. 1 \in Nat
    OBVIOUS
  <2> QED
    BY Zenon, <1>1, <2>1, Recursion
<1>4. \A n \in Nat : h[n + 1] = 2 * h[n]
  <2> SUFFICES ASSUME NEW n \in Nat PROVE h[n + 1] = 2 * h[n]
    OBVIOUS
  <2>1. n + 1 \in Nat /\ h[n] \in Nat /\ h[n + 1] = Double[<<n + 1, h[n]>>]
    BY <1>3 DEF Recursive
  <2> QED
    BY <1>2, <2>1
<1>5. ASSUME NEW n \in Nat PROVE h[n] = IF n = 0 THEN 1 ELSE 2 * h[n - 1]
  <2>1. CASE n = 0
    BY <1>3, <2>1 DEF Recursive
  <2>2. CASE n # 0
    <3>1. n - 1 \in Nat /\ (n - 1) + 1 = n
      BY <2>2
    <3> QED
      BY <1>4, <2>2, <3>1
  <2> QED
    BY <2>1, <2>2
<1>6. Eqn(h)
  BY <1>5
<1>7. pow2 = CHOOSE g : Eqn(g)
  BY DEF pow2
<1>8. Eqn(pow2)
  <2> HIDE DEF Eqn
  <2> QED
    BY <1>6, <1>7
<1>9. pow2 = [n \in Nat |-> IF n = 0 THEN 1 ELSE 2 * pow2[n - 1]]
  BY <1>8
<1>10. pow2[0] = 1
  BY <1>9
<1>11. \A n \in Nat : pow2[n + 1] = 2 * pow2[n]
  <2> SUFFICES ASSUME NEW n \in Nat PROVE pow2[n + 1] = 2 * pow2[n]
    OBVIOUS
  <2>1. n + 1 \in Nat /\ n + 1 # 0 /\ (n + 1) - 1 = n
    OBVIOUS
  <2> QED
    BY <1>9, <2>1
<1> DEFINE S == {n \in Nat : pow2[n] \in Nat /\ pow2[n] >= 1}
<1>12. 0 \in S /\ \A n \in Nat : n \in S => n + 1 \in S
  BY <1>10, <1>11
<1>13. Nat \subseteq S
  <2> HIDE DEF S
  <2> QED
    BY <1>12, NatInd
<1> QED
  BY <1>10, <1>11, <1>13

\* Exponents add up.
LEMMA PowSum ==
    ASSUME NEW a \in Nat, NEW b \in Nat
    PROVE  pow2[a + b] = pow2[a] * pow2[b]
<1> DEFINE S == {n \in Nat : pow2[a + n] = pow2[a] * pow2[n]}
<1>1. 0 \in S
  BY PowDef
<1>2. ASSUME NEW n \in Nat, n \in S PROVE n + 1 \in S
  <2>1. a + n \in Nat /\ a + (n + 1) = (a + n) + 1
    OBVIOUS
  <2>2. pow2[(a + n) + 1] = 2 * pow2[a + n] /\ pow2[n + 1] = 2 * pow2[n]
    BY <2>1, PowDef
  <2>3. pow2[a + n] = pow2[a] * pow2[n] /\ pow2[a] \in Nat /\ pow2[n] \in Nat
    BY <1>2, PowDef
  <2>4. 2 * (pow2[a] * pow2[n]) = pow2[a] * (2 * pow2[n])
    BY <2>3
  <2> QED
    BY <2>1, <2>2, <2>3, <2>4
<1>3. b \in S
  <2> HIDE DEF S
  <2> QED
    BY <1>1, <1>2, NatInd
<1> QED
  BY <1>3

\* Division with remainder.
LEMMA DivMod ==
    ASSUME NEW x \in Nat, NEW k \in Nat, k >= 1
    PROVE  /\ x \div k \in Nat /\ x % k \in Nat
           /\ x = k * (x \div k) + (x % k) /\ x % k < k
  OBVIOUS

\* The quotient is the only number of a block that contains x.
LEMMA DivUnique ==
    ASSUME NEW x \in Nat, NEW k \in Nat, k >= 1, NEW q \in Nat, k * q <= x, x < k * q + k
    PROVE  x \div k = q
<1> DEFINE p == x \div k
<1>1. p \in Nat /\ k * p <= x /\ x < k * p + k
  BY DivMod
<1> HIDE DEF p
<1>2. ~(p < q)
  <2> SUFFICES ASSUME p < q PROVE FALSE
    OBVIOUS
  <2>1. k * (p + 1) <= k * q
    <3>1. q - (p + 1) \in Nat /\ k * (q - (p + 1)) \in Nat
      BY <1>1
    <3>2. k * q = k * (p + 1) + k * (q - (p + 1))
      BY <1>1
    <3> QED
      BY <1>1, <3>1, <3>2
  <2>2. k * (p + 1) = k * p + k
    BY <1>1
  <2> QED
    BY <1>1, <2>1, <2>2
<1>3. ~(q < p)
  <2> SUFFICES ASSUME q < p PROVE FALSE
    OBVIOUS
  <2>1. k * (q + 1) <= k * p
    <3>1. p - (q + 1) \in Nat /\ k * (p - (q + 1)) \in Nat
      BY <1>1
    <3>2. k * p = k * (q + 1) + k * (p - (q + 1))
      BY <1>1
    <3> QED
      BY <1>1, <3>1, <3>2
  <2>2. k * (q + 1) = k * q + k
    OBVIOUS
  <2> QED
    BY <1>1, <2>1, <2>2
<1>4. p = q
  BY <1>1, <1>2, <1>3
<1> QED
  BY <1>4 DEF p

\* The block of x: the numbers with the same quotient.
LEMMA SameBlock ==
    ASSUME NEW x \in Nat, NEW y \in Nat, NEW k \in Nat, k >= 1
    PROVE  y \div k = x \div k <=> (k * (x \div k) <= y /\ y < k * (x \div k) + k)
<1>1. x \div k \in Nat /\ k * (y \div k) <= y /\ y < k * (y \div k) + k
  BY DivMod
<1> QED
  BY <1>1, DivUnique

\* A product grows with its factor.
LEMMA MulMono ==
    ASSUME NEW k \in Nat, NEW x \in Nat, NEW y \in Nat, x <= y
    PROVE  k * x <= k * y
<1>1. y - x \in Nat /\ k * (y - x) \in Nat /\ k * y = k * x + k * (y - x)
  OBVIOUS
<1>2. k * x \in Nat /\ k * y \in Nat
  OBVIOUS
<1> QED
  BY <1>1, <1>2

----------------------------------------------------------------------------
(***************************************************************************)
(* The range of a prefix.                                                  *)
(***************************************************************************)

\* Rows with a possible length.
Possible(p) == p.addr \in Nat /\ p.addr < pow2[Width] /\ p.len \in Nat /\ p.len <= Width

\* The number of addresses in the prefix, and its last address.
Size(p) == pow2[Width - p.len]
Last(p) == Size(p) * (p.addr \div Size(p)) + Size(p) - 1

\* The bit behind the prefix lies in one of the four octets, or behind the last.
LEMMA SplitIs ==
    ASSUME NEW len \in Nat, len <= Width
    PROVE  /\ SplitOctet(len) \in 0..3
           /\ len - OctetBits * SplitOctet(len) \in 0..OctetBits
<1> DEFINE B == OctetBits
           q == len \div B
<1>1. B \in Nat /\ B >= 1 /\ Width = 4 * B
  BY OctetAssumption DEF Width
<1>2. CASE len = Width
  BY <1>1, <1>2 DEF SplitOctet
<1>3. CASE len # Width
  <2>1. len < 4 * B /\ SplitOctet(len) = q
    BY <1>1, <1>3 DEF SplitOctet
  <2>2. q \in Nat /\ len = B * q + (len % B) /\ len % B \in Nat /\ len % B < B
    BY <1>1, DivMod
  <2> HIDE DEF q
  <2>3. B * q \in Nat
    BY <1>1, <2>2
  <2>4. q <= 3
    <3>1. ASSUME q >= 4 PROVE FALSE
      <4>1. B * 4 <= B * q
        BY <1>1, <2>2, <3>1, MulMono
      <4> QED
        BY <1>1, <2>1, <2>2, <2>3, <4>1
    <3> QED
      BY <2>2, <3>1
  <2>5. len - B * q \in 0..B
    BY <1>1, <2>2, <2>3
  <2> QED
    BY <2>1, <2>2, <2>4, <2>5
<1> QED
  BY <1>2, <1>3

\* The host bits of the octet that is split.
LEMMA HbitsIs ==
    ASSUME NEW e \in Nat, NEW B \in Nat, e <= B
    PROVE  (pow2[B] - 1) \div pow2[e] = pow2[B - e] - 1
<1> DEFINE h == pow2[B - e]
           k == pow2[e]
<1>1. B - e \in Nat /\ e + (B - e) = B
  OBVIOUS
<1>2. h \in Nat /\ h >= 1 /\ k \in Nat /\ k >= 1 /\ pow2[B] = k * h
  BY <1>1, PowDef, PowSum
<1> HIDE DEF h, k
<1>3. k * (h - 1) = k * h - k /\ k * h \in Nat /\ k * h >= k /\ h - 1 \in Nat
  <2>1. h - 1 \in Nat /\ k * (h - 1) \in Nat /\ k * h = k * (h - 1) + k
    BY <1>2
  <2> QED
    BY <1>2, <2>1
<1>4. (k * h - 1) \div k = h - 1
  <2> DEFINE x == k * h - 1
  <2>1. x \in Nat /\ k * (h - 1) <= x /\ x < k * (h - 1) + k
    BY <1>2, <1>3
  <2> HIDE DEF x
  <2>2. x \div k = h - 1
    BY <1>2, <1>3, <2>1, DivUnique
  <2> QED
    BY <2>2 DEF x
<1> QED
  BY <1>2, <1>4 DEF h, k

\* Dividing twice is dividing by the product.
LEMMA DivTwice ==
    ASSUME NEW x \in Nat, NEW u \in Nat, u >= 1, NEW h \in Nat, h >= 1
    PROVE  x \div (u * h) = (x \div u) \div h
<1> DEFINE y == x \div u
           z == y \div h
           k == u * h
<1>1. y \in Nat /\ u * y <= x /\ x < u * y + u
  BY DivMod
<1> HIDE DEF y
<1>2. z \in Nat /\ h * z <= y /\ y < h * z + h
  BY <1>1, DivMod
<1> HIDE DEF z
<1>3. k \in Nat /\ k >= 1
  <2>1. u * 1 <= u * h /\ u * h \in Nat
    BY MulMono
  <2> QED
    BY <2>1
<1>4. h * z \in Nat /\ k * z = u * (h * z) /\ u * (h * z + h) = k * z + k
  BY <1>2
<1>5. u * (h * z) <= u * y /\ u * (y + 1) <= u * (h * z + h)
  <2>1. y + 1 \in Nat /\ h * z + h \in Nat /\ y + 1 <= h * z + h
    BY <1>1, <1>2, <1>4
  <2> QED
    BY <1>1, <1>2, <1>4, <2>1, MulMono
<1>6. u * (y + 1) = u * y + u
  BY <1>1
<1> HIDE DEF k
<1>7. k * z <= x /\ x < k * z + k
  <2>1. u * y \in Nat /\ k * z \in Nat
    BY <1>1, <1>2, <1>3
  <2> QED
    BY <1>1, <1>3, <1>4, <1>5, <1>6, <2>1
<1>8. x \div k = z
  BY <1>2, <1>3, <1>7, DivUnique
<1> QED
  BY <1>8 DEF k, y, z

\* hir, built octet by octet, is the last address of the prefix.
LEMMA HighIs == ASSUME NEW p, Possible(p) PROVE HighAddress(p) = Last(p)
<1> DEFINE B == OctetBits
           len == p.len
           s == SplitOctet(len)
           e == len - B * s
           u == pow2[B * (3 - s)]
           h == pow2[B - e]
           y == p.addr \div u
           z == y \div h
<1>1. B \in Nat /\ B >= 1 /\ Width = 4 * B /\ len \in Nat /\ len <= Width /\ PrefixLen(p) = len
  BY OctetAssumption DEF Width, Possible, PrefixLen, NoLen
<1>2. s \in 0..3 /\ e \in 0..B
  BY <1>1, SplitIs
<1>3. Hbits(len) = h - 1
  BY <1>1, <1>2, HbitsIs DEF Hbits
<1>4. HighAddress(p) = OrOnes(y, h - 1) * u + u - 1
  BY <1>1, <1>3 DEF HighAddress
<1>5. B * (3 - s) \in Nat /\ B - e \in Nat /\ B * (3 - s) + (B - e) = Width - len
  <2> HIDE DEF s
  <2>1. B * s \in Nat /\ B * (3 - s) = 3 * B - B * s
    BY <1>1, <1>2
  <2>2. 3 - s \in Nat
    BY <1>2
  <2> QED
    BY <1>1, <1>2, <2>1, <2>2
<1>6. u \in Nat /\ u >= 1 /\ h \in Nat /\ h >= 1 /\ Size(p) = u * h
  BY <1>5, PowDef, PowSum DEF Size
<1>7. p.addr \in Nat /\ y \in Nat
  BY <1>6, DivMod DEF Possible
<1> HIDE DEF u, h
<1>11. p.addr \div (u * h) = z
  BY <1>6, <1>7, DivTwice
<1> HIDE DEF y
<1>8. z \in Nat /\ y = h * z + (y % h) /\ y % h \in Nat
  BY <1>6, <1>7, DivMod
<1> HIDE DEF z
<1>9. OrOnes(y, h - 1) = h * z + h - 1
  <2>1. (h - 1) + 1 = h /\ h * z \in Nat
    BY <1>6, <1>8
  <2>2. OrOnes(y, h - 1) = (y - (y % h)) + (h - 1)
    BY <2>1 DEF OrOnes
  <2> DEFINE m == y % h
  <2>3. m \in Nat /\ y = h * z + m /\ OrOnes(y, h - 1) = (y - m) + (h - 1)
    BY <1>8, <2>2
  <2> HIDE DEF m
  <2> QED
    BY <1>6, <1>7, <2>1, <2>3
<1>10. (h * z + h - 1) * u + u - 1 = (u * h) * z + (u * h) - 1
  <2>1. h * z \in Nat /\ u * h \in Nat
    BY <1>6, <1>8
  <2>2. (h * z + h - 1) * u = (h * z) * u + h * u - u
    BY <1>6, <2>1
  <2>3. (h * z) * u = (u * h) * z /\ h * u = u * h
    BY <1>6, <1>8
  <2>4. (u * h) * z \in Nat
    BY <1>8, <2>1
  <2> QED
    BY <1>6, <2>1, <2>2, <2>3, <2>4
<1> QED
  BY <1>4, <1>6, <1>9, <1>10, <1>11 DEF Last

\* A prefix of length 1 or more lies on one side of the sign bit.
LEMMA SignIs ==
    ASSUME NEW p, Possible(p), p.len >= 1
    PROVE  /\ Size(p) \in Nat /\ Size(p) >= 1 /\ p.addr \div Size(p) \in Nat
           /\ Last(p) \in Nat /\ p.addr <= Last(p) /\ Last(p) < pow2[Width]
           /\ p.addr < pow2[Width - 1] <=> Last(p) < pow2[Width - 1]
           /\ pow2[Width] = 2 * pow2[Width - 1] /\ pow2[Width - 1] \in Nat
<1> DEFINE k == Size(p)
           c == pow2[p.len - 1]
           q == p.addr \div k
           H == pow2[Width - 1]
<1>1. Width \in Nat /\ Width >= 1 /\ p.len \in Nat /\ p.len <= Width /\ p.addr \in Nat
  BY OctetAssumption DEF Possible, Width
<1>2. /\ Width - p.len \in Nat /\ p.len - 1 \in Nat /\ Width - 1 \in Nat /\ (Width - 1) + 1 = Width
      /\ (Width - p.len) + (p.len - 1) = Width - 1
  BY <1>1
<1>3. /\ k \in Nat /\ k >= 1 /\ c \in Nat /\ H \in Nat /\ H = k * c
      /\ pow2[Width] = 2 * H
  BY <1>2, PowDef, PowSum DEF Size
<1>5. p.addr < 2 * H /\ Last(p) = k * q + k - 1
  BY <1>3 DEF Possible, Last
<1> HIDE DEF k, c, H
<1>4. q \in Nat /\ k * q <= p.addr /\ p.addr < k * q + k
  BY <1>1, <1>3, SameBlock, DivMod
<1> HIDE DEF q
<1>6. k * q \in Nat
  BY <1>3, <1>4
<1>7. ASSUME NEW b \in Nat, p.addr < k * b PROVE k * q + k <= k * b
  <2>1. q < b
    <3>1. ASSUME b <= q PROVE FALSE
      <4>1. k * b <= k * q /\ k * b \in Nat
        BY <1>3, <1>4, <1>7, <3>1, MulMono
      <4> QED
        BY <1>1, <1>4, <1>6, <1>7, <4>1
    <3> QED
      BY <1>4, <1>7, <3>1
  <2>2. q + 1 \in Nat /\ q + 1 <= b /\ k * (q + 1) = k * q + k
    BY <1>3, <1>4, <1>7, <2>1
  <2>3. k * (q + 1) <= k * b
    BY <1>3, <1>7, <2>2, MulMono
  <2> QED
    BY <2>2, <2>3
<1>8. p.addr < H => k * q + k <= H
  BY <1>3, <1>7
<1>9. k * q + k <= 2 * H
  <2>1. 2 * c \in Nat /\ k * (2 * c) = 2 * H
    BY <1>3
  <2> QED
    BY <1>5, <1>7, <2>1
<1>10. /\ Last(p) \in Nat /\ p.addr <= Last(p) /\ Last(p) < 2 * H
       /\ p.addr < H <=> Last(p) < H
  BY <1>1, <1>3, <1>4, <1>5, <1>6, <1>8, <1>9
<1> QED
  BY <1>3, <1>4, <1>10 DEF k, q, H

\* The comparison of signed integers finds the addresses from the one written to the
\* last one of the prefix.
LEMMA HitIs ==
    ASSUME NEW p, Possible(p), p.len >= 1, NEW a \in Address, NEW range \in Ranges(p)
    PROVE  IsPfxHit(a, range) <=> p.addr <= a /\ a <= Last(p)
<1> DEFINE H == pow2[Width - 1]
           l == Last(p)
<1>1. range.lor = ToInt(p.addr) /\ range.hir = ToInt(l)
  <2>1. PrefixLen(p) = p.len /\ p.len \in 0..Width
    BY OctetAssumption DEF Possible, PrefixLen, NoLen, Width
  <2>2. range = [lor |-> ToInt(p.addr), hir |-> ToInt(HighAddress(p))]
    BY <2>1 DEF Ranges
  <2> QED
    BY <2>2, HighIs
<1>2. /\ l \in Nat /\ p.addr <= l /\ l < 2 * H /\ H \in Nat
      /\ p.addr < H <=> l < H
      /\ pow2[Width] = 2 * H
  BY SignIs
<1>3. p.addr \in Nat /\ p.addr < 2 * H /\ a \in Nat /\ a < 2 * H
  BY <1>2 DEF Possible, Address
<1>4. \A x : ToInt(x) = IF x >= H THEN x - 2 * H ELSE x
  BY <1>2 DEF ToInt
<1> HIDE DEF H, l
<1>5. IsPfxHit(a, range) <=> ToInt(a) >= ToInt(p.addr) /\ ToInt(a) <= ToInt(l)
  BY <1>1 DEF IsPfxHit
<1>6. ToInt(a) >= ToInt(p.addr) /\ ToInt(a) <= ToInt(l) <=> p.addr <= a /\ a <= l
  BY <1>2, <1>3, <1>4
<1> QED
  BY <1>5, <1>6 DEF l

\* The reference in terms of the block.
LEMMA InsideIs ==
    ASSUME NEW p, Possible(p), p.len >= 1, NEW a \in Address
    PROVE  Inside(a, p) <=> (Size(p) * (p.addr \div Size(p)) <= a /\ a <= Last(p))
<1>1. /\ Size(p) \in Nat /\ Size(p) >= 1 /\ p.addr \div Size(p) \in Nat /\ Last(p) \in Nat
      /\ pow2[Width] \in Nat
  BY SignIs
<1>2. p.addr \in Nat /\ a \in Nat
  BY <1>1 DEF Possible, Address
<1>3. Inside(a, p) <=> a \div Size(p) = p.addr \div Size(p)
  BY DEF Inside, Size
<1> DEFINE k == Size(p)
           q == p.addr \div k
<1>4. Last(p) = k * q + k - 1
  BY DEF Last
<1> HIDE DEF k
<1>5. a \div k = q <=> (k * q <= a /\ a < k * q + k)
  BY <1>1, <1>2, SameBlock DEF k
<1>6. k \in Nat /\ q \in Nat /\ k * q \in Nat
  BY <1>1 DEF k
<1> HIDE DEF q
<1>7. a < k * q + k <=> a <= Last(p)
  BY <1>2, <1>4, <1>6
<1> QED
  BY <1>3, <1>5, <1>7 DEF k, q

\* The masks find the block of the entry.
LEMMA NetIs ==
    ASSUME NEW p, Possible(p), p.len >= 1, NEW a \in Address,
           NEW n, n.net = p.addr, n.mask = Width - p.len
    PROVE  InNetwork(a, n) <=> Inside(a, p)
<1> DEFINE k == Size(p)
           q == p.addr \div k
           t == a \div k
<1>1. k \in Nat /\ k >= 1 /\ pow2[Width] \in Nat
  BY SignIs
<1>2. p.addr \in Nat /\ a \in Nat
  BY <1>1 DEF Possible, Address
<1>3. InNetwork(a, n) <=> p.addr - (p.addr % k) = a - (a % k)
  BY DEF InNetwork, Masked, Size
<1>4. Inside(a, p) <=> t = q
  BY DEF Inside, Size
<1> HIDE DEF k
<1>5. /\ q \in Nat /\ p.addr = k * q + (p.addr % k) /\ p.addr % k \in Nat
      /\ t \in Nat /\ a = k * t + (a % k) /\ a % k \in Nat
  BY <1>1, <1>2, DivMod
<1> HIDE DEF q, t
<1> DEFINE x == p.addr % k
           y == a % k
<1>6. x \in Nat /\ y \in Nat /\ p.addr = k * q + x /\ a = k * t + y
  BY <1>5
<1>7. InNetwork(a, n) <=> p.addr - x = a - y
  BY <1>3
<1> HIDE DEF x, y
<1>8. k * q \in Nat /\ k * t \in Nat
  BY <1>1, <1>5
<1>9. p.addr - x = k * q /\ a - y = k * t
  BY <1>6, <1>8
<1>10. k * q = k * t => q = t
  <2> SUFFICES ASSUME k * q = k * t PROVE q = t
    OBVIOUS
  <2>1. (k * t) \div k = t /\ (k * t) \div k = q
    BY <1>1, <1>5, <1>8, DivUnique
  <2> QED
    BY <2>1
<1> QED
  BY <1>4, <1>7, <1>9, <1>10

----------------------------------------------------------------------------
(***************************************************************************)
(* The loaded tables: every range is one of its row, every network that of *)
(* its entry.                                                              *)
(***************************************************************************)
TableInv ==
    /\ \A x \in prefix4 : x.row \in Rows /\ x.range \in Ranges(x.row)
    /\ \A n \in nets : n.row \in Entries /\ n.net = n.row.addr /\ n.mask \in Masks(n.row.len)

\* The tables are as stated in every reachable state.
LEMMA TableCorrect == Spec => []TableInv
<1>1. Init => TableInv
  BY DEF Init, TableInv
<1>2. TableInv /\ [Next]_vars => TableInv'
  BY DEF TableInv, Next, LoadRow, LoadNet, Done, vars
<1> QED
  BY <1>1, <1>2, PTL DEF Spec

\* Well-formed rows and the entries have a possible length.
LEMMA RowsPossible ==
    ASSUME NEW p \in Prefix, p.len \in 0..Width
    PROVE  Possible(p)
<1>1. pow2[Width] \in Nat /\ Width \in Nat
  BY OctetAssumption, PowDef DEF Width
<1> QED
  BY <1>1 DEF Prefix, Address, Possible

\* Everything is inside a prefix of length 0.
LEMMA InsideAll ==
    ASSUME NEW p, Possible(p), p.len = 0, NEW a \in Address
    PROVE  Inside(a, p)
<1> DEFINE k == pow2[Width]
<1>1. Width \in Nat /\ k \in Nat /\ k >= 1 /\ Width - p.len = Width
  BY OctetAssumption, PowDef DEF Width
<1>2. p.addr \in Nat /\ p.addr < k /\ a \in Nat /\ a < k
  BY <1>1 DEF Possible, Address
<1>3. Inside(a, p) <=> a \div k = p.addr \div k
  BY <1>1 DEF Inside
<1> HIDE DEF k
<1>4. a \div k = 0 /\ p.addr \div k = 0
  <2>1. k * 0 = 0
    BY <1>1
  <2> QED
    BY <1>1, <1>2, <2>1, DivUnique
<1> QED
  BY <1>3, <1>4

\* An address that ispfxhit accepts lies in one of the rows, if these are well-formed.
THEOREM HitCorrect == Spec => []HitOnlyInside
<1>1. TableInv => HitOnlyInside
  <2> SUFFICES ASSUME TableInv, \A x \in prefix4 : WellFormed(x.row),
                      NEW a \in Address, NEW x \in prefix4, IsPfxHit(a, x.range)
               PROVE  Inside(a, x.row)
    BY DEF HitOnlyInside, Ispfxhit
  <2>1. Possible(x.row) /\ x.range \in Ranges(x.row)
    BY CustomerAssumption, RowsPossible DEF TableInv, WellFormed
  <2>2. CASE x.row.len = 0
    BY <2>1, <2>2, InsideAll
  <2>3. CASE x.row.len # 0
    <3>1. x.row.len >= 1
      BY <2>1, <2>3 DEF Possible
    <3>2. x.row.addr <= a /\ a <= Last(x.row)
      BY <2>1, <3>1, HitIs
    <3> DEFINE b == Size(x.row) * (x.row.addr \div Size(x.row))
    <3>3. b \in Nat /\ b <= x.row.addr
      <4>1. Size(x.row) \in Nat /\ Size(x.row) >= 1 /\ x.row.addr \in Nat
        BY <2>1, <3>1, SignIs DEF Possible
      <4> QED
        BY <4>1, DivMod
    <3>4. a \in Nat /\ x.row.addr \in Nat
      <4>1. pow2[Width] \in Nat
        BY <2>1, <3>1, SignIs
      <4> QED
        BY <2>1, <4>1 DEF Address, Possible
    <3>5. b <= a
      <4> HIDE DEF b
      <4> QED
        BY <3>2, <3>3, <3>4
    <3> QED
      BY <2>1, <3>1, <3>2, <3>5, InsideIs
  <2> QED
    BY <2>2, <2>3
<1> QED
  BY <1>1, TableCorrect, PTL

\* An address of the customer is missed only because of a row of length 0 or of host
\* bits in the row.
THEOREM MissCorrect == Spec => []MissNeedsCause
<1>1. TableInv => MissNeedsCause
  <2> SUFFICES ASSUME TableInv, NEW x \in prefix4, WellFormed(x.row), NEW a \in Address,
                      Inside(a, x.row), x.row.len # 0, ~(a < x.row.addr)
               PROVE  IsPfxHit(a, x.range)
    BY DEF MissNeedsCause, Ispfxhit
  <2>1. Possible(x.row) /\ x.range \in Ranges(x.row)
    BY CustomerAssumption, RowsPossible DEF TableInv, WellFormed
  <2>2. x.row.len >= 1
    BY <2>1 DEF Possible
  <2>3. a <= Last(x.row)
    BY <2>1, <2>2, InsideIs
  <2>4. x.row.addr <= a
    <3>1. pow2[Width] \in Nat
      BY <2>1, <2>2, SignIs
    <3> QED
      BY <2>1, <3>1 DEF Address, Possible
  <2> QED
    BY <2>1, <2>2, <2>3, <2>4, HitIs
<1> QED
  BY <1>1, TableCorrect, PTL

\* With lengths from 1 on, is_host_in_network accepts exactly the addresses of the
\* entries.
THEOREM LocalnetsCorrect == Spec => []LocalnetsExact
<1>1. TableInv => LocalnetsExact
  <2> SUFFICES ASSUME TableInv, NEW a \in Address, NEW n \in nets, n.row.len # 0
               PROVE  InNetwork(a, n) <=> Inside(a, n.row)
    BY DEF LocalnetsExact, IsHostInNetwork
  <2>1. Possible(n.row)
    BY CustomerAssumption, RowsPossible DEF TableInv
  <2>2. n.row.len >= 1
    BY <2>1 DEF Possible
  <2>3. n.net = n.row.addr /\ n.mask = Width - n.row.len
    BY DEF TableInv, Masks
  <2> QED
    BY <2>1, <2>2, <2>3, NetIs
<1> QED
  BY <1>1, TableCorrect, PTL
=============================================================================
