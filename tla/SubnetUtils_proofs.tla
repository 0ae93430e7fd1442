------------------------- MODULE SubnetUtils_proofs -------------------------
(***************************************************************************)
(* Proofs about SubnetUtils: that its signed, wrapping integers find the   *)
(* usable addresses of a subnet, all of them and in order, on either side  *)
(* of the sign bit, for octets of any width and addresses of any length.   *)
(* Induction is over sets of numbers: the least number outside the set.    *)
(***************************************************************************)
EXTENDS SubnetUtils, FiniteSetTheorems, WellFoundedInduction, TLAPS

(***************************************************************************)
(* Induction, over a set of numbers.                                       *)
(***************************************************************************)
LEMMA LeastOf ==
  ASSUME NEW T \in SUBSET Nat, T # {}
  PROVE  \E x \in T : \A y \in T : x <= y
<1>1. \E x \in T : \A y \in T : ~(<<y, x>> \in OpToRel(<, Nat))
  BY NatLessThanWellFounded, WFMin
<1>2. PICK x \in T : \A y \in T : ~(<<y, x>> \in OpToRel(<, Nat))
  BY <1>1
<1>3. \A y \in T : y < x => <<y, x>> \in OpToRel(<, Nat)
  BY DEF OpToRel
<1>4. \A y \in T : x \in Nat /\ y \in Nat /\ ~(y < x)
  BY <1>2, <1>3
<1>5. \A y \in T : x <= y
  BY <1>4
<1> QED
  BY <1>2, <1>5

LEMMA Upward ==
  ASSUME NEW m \in Nat, NEW S, 0 \in S, \A n \in 0 .. m - 1 : n \in S => n + 1 \in S
  PROVE  \A n \in 0 .. m : n \in S
<1> DEFINE T == {n \in 0 .. m : n \notin S}
<1> SUFFICES ASSUME T # {} PROVE FALSE
  OBVIOUS
<1>1. T \in SUBSET Nat
  OBVIOUS
<1>2. PICK x \in T : \A y \in T : x <= y
  BY <1>1, LeastOf
<1>3. x # 0 /\ x - 1 \in 0 .. m - 1 /\ x - 1 \notin T /\ x - 1 \in 0 .. m /\ x = (x - 1) + 1
  BY <1>2
<1> QED
  BY <1>2, <1>3

(***************************************************************************)
(* Division and powers of two.                                             *)
(***************************************************************************)
LEMMA Quotient ==
  ASSUME NEW a \in Nat, NEW h \in Nat \ {0}
  PROVE  /\ a \div h \in Nat /\ a % h \in 0 .. h - 1 /\ a = h * (a \div h) + (a % h)
         /\ (a \div h) * h <= a /\ a < (a \div h) * h + h
OBVIOUS

LEMMA QuotientIs ==
  ASSUME NEW a \in Nat, NEW h \in Nat \ {0}, NEW q \in Nat, q * h <= a, a < q * h + h
  PROVE  a \div h = q
OBVIOUS

LEMMA TwoQuotients ==
  ASSUME NEW a \in Nat, NEW g \in Nat \ {0}, NEW h \in Nat \ {0}
  PROVE  (a \div g) \div h = a \div (g * h)
<1>1. PICK b \in Nat : b = a \div g /\ b * g <= a /\ a < b * g + g
  BY Quotient
<1>2. PICK q \in Nat : q = b \div h /\ q * h <= b /\ b <= q * h + h - 1
  BY Quotient
<1>3. (q * h) * g <= b * g /\ b * g <= (q * h + h - 1) * g
  BY <1>1, <1>2
<1>4. PICK gh \in Nat \ {0} : gh = g * h
  OBVIOUS
<1>5. q * gh <= a /\ a < q * gh + gh
  BY <1>1, <1>3, <1>4
<1>6. a \div gh = q
  BY <1>5, QuotientIs
<1> QED
  BY <1>1, <1>2, <1>4, <1>6

LEMMA Multiples ==
  ASSUME NEW c \in Nat, NEW a \in Nat, NEW b \in Nat, a <= b
  PROVE  c * a <= c * b /\ c * a \in Nat
OBVIOUS

LEMMA Widths ==
  /\ OctetBits \in Nat \ {0} /\ Octets \in Nat \ {0} /\ NBITS \in Nat \ {0}
  /\ \A i \in 0 .. Octets : OctetBits * i \in 0 .. NBITS
  /\ \A i \in 0 .. Octets - 1 : OctetBits * (i + 1) = OctetBits * i + OctetBits
<1>1. OctetBits \in Nat \ {0} /\ Octets \in Nat \ {0} /\ NBITS \in Nat \ {0}
  BY WidthAssumption DEF NBITS
<1>2. \A i \in 0 .. Octets : OctetBits * i \in 0 .. NBITS
  BY <1>1, Multiples DEF NBITS
<1> QED
  BY <1>1, <1>2

LEMMA Powers ==
  /\ 2 ^ 0 = 1
  /\ \A n \in 0 .. NBITS : 2 ^ n \in Nat \ {0}
  /\ \A n \in 0 .. NBITS - 1 : 2 ^ (n + 1) = 2 * 2 ^ n
<1> DEFINE S == {n \in Nat : 2 ^ n \in Nat \ {0}}
<1>1. \A n \in 0 .. NBITS - 1 : 2 ^ (n + 1) = 2 * 2 ^ n
  BY PowerAssumption
<1>2. 0 \in S
  OBVIOUS
<1>3. \A n \in 0 .. NBITS - 1 : n \in S => n + 1 \in S
  BY <1>1
<1>4. \A n \in 0 .. NBITS : n \in S
  BY <1>2, <1>3, Widths, Upward
<1> QED
  BY <1>1, <1>4

LEMMA PowerSum ==
  ASSUME NEW a \in 0 .. NBITS, NEW b \in 0 .. NBITS, a + b <= NBITS
  PROVE  2 ^ (a + b) = 2 ^ a * 2 ^ b
<1> DEFINE S == {n \in Nat : 2 ^ (a + n) = 2 ^ a * 2 ^ n}
<1>1. 2 ^ a \in Nat /\ NBITS - a \in Nat /\ b \in 0 .. NBITS - a
  BY Powers, Widths
<1>2. 0 \in S
  BY <1>1, Powers
<1>3. ASSUME NEW n \in 0 .. (NBITS - a) - 1, n \in S
      PROVE  n + 1 \in S
  <2>1. a + n \in 0 .. NBITS - 1 /\ n \in 0 .. NBITS - 1 /\ n \in 0 .. NBITS /\ a + (n + 1) = (a + n) + 1
    BY <1>1, Widths
  <2>2. 2 ^ ((a + n) + 1) = 2 * 2 ^ (a + n) /\ 2 ^ (n + 1) = 2 * 2 ^ n /\ 2 ^ n \in Nat
    BY <2>1, Powers
  <2>3. 2 ^ (a + n) = 2 ^ a * 2 ^ n
    BY <1>3
  <2>4. 2 * (2 ^ a * 2 ^ n) = 2 ^ a * (2 * 2 ^ n)
    BY <1>1, <2>2
  <2>5. 2 ^ (a + (n + 1)) = 2 ^ a * 2 ^ (n + 1)
    BY <2>1, <2>2, <2>3, <2>4
  <2> QED
    BY <2>5
<1>4. \A n \in 0 .. NBITS - a : n \in S
  BY <1>1, <1>2, <1>3, Upward
<1> QED
  BY <1>1, <1>4

LEMMA PowersGrow ==
  ASSUME NEW a \in 0 .. NBITS, NEW b \in 0 .. NBITS, a <= b
  PROVE  2 ^ a <= 2 ^ b
<1>1. b - a \in 0 .. NBITS /\ a + (b - a) = b
  BY Widths
<1>2. 2 ^ b = 2 ^ a * 2 ^ (b - a) /\ 2 ^ a \in Nat /\ 2 ^ (b - a) \in Nat \ {0}
  BY <1>1, PowerSum, Powers
<1> QED
  BY <1>2

\* The int of an address, on either side of the sign bit.
LEMMA Ints ==
  /\ Half \in Nat \ {0} /\ 2 ^ NBITS = 2 * Half
  /\ \A v \in Signed : Bits(v) \in 0 .. 2 * Half - 1 /\ Wrap(Bits(v)) = v
  /\ \A x \in 0 .. 2 * Half - 1 : Wrap(x) \in Signed /\ Bits(Wrap(x)) = x
<1>1. NBITS - 1 \in 0 .. NBITS /\ NBITS - 1 \in 0 .. NBITS - 1 /\ (NBITS - 1) + 1 = NBITS
  BY Widths
<1>2. Half \in Nat \ {0} /\ 2 ^ NBITS = 2 * Half
  BY <1>1, Powers DEF Half
<1> QED
  BY <1>2 DEF Signed, Bits, Wrap

LEMMA OctetPowers ==
  /\ 2 ^ OctetBits \in Nat \ {0}
  /\ \A i \in 0 .. Octets : 2 ^ (OctetBits * i) \in Nat \ {0}
  /\ \A i \in 0 .. Octets - 1 : 2 ^ (OctetBits * (i + 1)) = 2 ^ (OctetBits * i) * 2 ^ OctetBits
  /\ 2 ^ (OctetBits * 0) = 1 /\ 2 ^ (OctetBits * Octets) = 2 * Half
<1>1. OctetBits \in 0 .. NBITS
  <2>1. OctetBits * 1 \in 0 .. NBITS /\ OctetBits * 1 = OctetBits
    BY Widths
  <2> QED
    BY <2>1
<1>2. \A i \in 0 .. Octets : 2 ^ (OctetBits * i) \in Nat \ {0}
  BY Widths, Powers
<1>3. ASSUME NEW i \in 0 .. Octets - 1
      PROVE  2 ^ (OctetBits * (i + 1)) = 2 ^ (OctetBits * i) * 2 ^ OctetBits
  <2>1. /\ OctetBits * i \in 0 .. NBITS /\ OctetBits * (i + 1) \in 0 .. NBITS
        /\ OctetBits * (i + 1) = OctetBits * i + OctetBits
    BY Widths
  <2> QED
    BY <1>1, <2>1, PowerSum
<1>4. OctetBits * 0 = 0 /\ OctetBits * Octets = NBITS
  BY Widths DEF NBITS
<1> QED
  BY <1>1, <1>2, <1>3, <1>4, Powers, Ints

(***************************************************************************)
(* Octets packed into an int, and taken from one.                          *)
(***************************************************************************)
\* The function that matchAddress() computes octet by octet.
Packs(f, address) == f = [i \in 0 .. Octets |->
                            IF i = 0 THEN 0 ELSE (f[i - 1] * 2 ^ OctetBits) + address[i]]

LEMMA PackingExists ==
  ASSUME NEW address
  PROVE  \E f : Packs(f, address)
<1> DEFINE Part(f, n) == f = [i \in 0 .. n |->
                                IF i = 0 THEN 0 ELSE (f[i - 1] * 2 ^ OctetBits) + address[i]]
           S == {n \in Nat : \E f : Part(f, n)}
<1>1. 0 \in S
  <2>1. Part([i \in 0 .. 0 |-> 0], 0)
    OBVIOUS
  <2> QED
    BY <2>1
<1>2. ASSUME NEW n \in 0 .. Octets - 1, n \in S
      PROVE  n + 1 \in S
  <2>1. PICK f : Part(f, n)
    BY <1>2
  <2> DEFINE g == [i \in 0 .. n + 1 |->
                     IF i = n + 1 THEN (f[n] * 2 ^ OctetBits) + address[n + 1] ELSE f[i]]
  <2>2. n \in Nat /\ n + 1 \in Nat
    BY Widths
  <2>3. ASSUME NEW i \in 0 .. n + 1
        PROVE  g[i] = IF i = 0 THEN 0 ELSE (g[i - 1] * 2 ^ OctetBits) + address[i]
    <3>1. CASE i = n + 1
      <4>1. i - 1 = n /\ n \in 0 .. n + 1 /\ n # n + 1 /\ i # 0
        BY <2>2, <3>1
      <4>2. g[i] = (f[n] * 2 ^ OctetBits) + address[n + 1] /\ g[i - 1] = f[n]
        BY <3>1, <4>1
      <4> QED
        BY <3>1, <4>1, <4>2
    <3>2. CASE i # n + 1 /\ i # 0
      <4>1. i \in 0 .. n /\ i - 1 \in 0 .. n + 1 /\ i - 1 # n + 1
        BY <2>2, <3>2
      <4>2. g[i] = f[i] /\ g[i - 1] = f[i - 1]
        BY <3>2, <4>1
      <4>3. f[i] = (f[i - 1] * 2 ^ OctetBits) + address[i]
        BY <2>1, <3>2, <4>1
      <4> QED
        BY <3>2, <4>2, <4>3
    <3>3. CASE i = 0
      <4>1. 0 \in 0 .. n /\ 0 # n + 1
        BY <2>2
      <4> QED
        BY <2>1, <3>3, <4>1
    <3> QED
      BY <3>1, <3>2, <3>3
  <2>4. g = [i \in 0 .. n + 1 |-> g[i]]
    OBVIOUS
  <2>5. Part(g, n + 1)
    BY <2>3, <2>4
  <2>6. \E f1 : Part(f1, n + 1)
    BY <2>5
  <2> QED
    BY <2>2, <2>6
<1>3. \A n \in 0 .. Octets : n \in S
  BY <1>1, <1>2, Widths, Upward
<1>4. Octets \in 0 .. Octets
  BY Widths
<1> QED
  BY <1>3, <1>4 DEF Packs

LEMMA Packing ==
  ASSUME NEW address
  PROVE  \E f : Packs(f, address) /\ ToInteger(address) = Wrap(f[Octets])
<1> DEFINE f == CHOOSE g : g = [i \in 0 .. Octets |->
                           IF i = 0 THEN 0 ELSE (g[i - 1] * 2 ^ OctetBits) + address[i]]
<1>1. ToInteger(address) = Wrap(f[Octets])
  BY DEF ToInteger
<1>2. Packs(f, address)
  BY PackingExists DEF Packs
<1> QED
  BY <1>1, <1>2

LEMMA PackSteps ==
  ASSUME NEW f, NEW address, Packs(f, address)
  PROVE  /\ f[0] = 0
         /\ \A i \in 0 .. Octets - 1 : f[i + 1] = (f[i] * 2 ^ OctetBits) + address[i + 1]
<1>1. 0 \in 0 .. Octets
  BY Widths
<1>2. ASSUME NEW i \in 0 .. Octets - 1
      PROVE  f[i + 1] = (f[i] * 2 ^ OctetBits) + address[i + 1]
  <2>1. i + 1 \in 0 .. Octets /\ i + 1 # 0 /\ (i + 1) - 1 = i
    BY Widths
  <2> QED
    BY <2>1 DEF Packs
<1> QED
  BY <1>1, <1>2 DEF Packs

LEMMA OctetKnown ==
  ASSUME NEW address \in Address, NEW i \in 0 .. Octets - 1
  PROVE  address[i + 1] \in 0 .. 2 ^ OctetBits - 1 /\ i + 1 \in 1 .. Octets
<1>1. i + 1 \in 1 .. Octets
  BY Widths
<1> QED
  BY <1>1 DEF Address, Octet

\* One more octet, below a power of two.
LEMMA NextOctet ==
  ASSUME NEW x \in Nat, NEW b \in Nat \ {0}, NEW y \in 0 .. b - 1, NEW q \in Nat \ {0}
  PROVE  /\ x <= q - 1 => (x * b) + y \in 0 .. (q * b) - 1
         /\ x = q - 1 /\ y = b - 1 => (x * b) + y = (q * b) - 1
         /\ x <= q - 1 /\ (x # q - 1 \/ y # b - 1) => (x * b) + y <= (q * b) - 2
<1>1. (q - 1) * b = (q * b) - b /\ (q - 2) * b = (q * b) - (2 * b)
  OBVIOUS
<1>2. x <= q - 1 => x * b <= (q - 1) * b
  OBVIOUS
<1>3. x <= q - 2 => x * b <= (q - 2) * b
  OBVIOUS
<1>4. x * b \in Nat /\ q * b \in Nat
  OBVIOUS
<1>5. x <= q - 1 => (x * b) + y \in 0 .. (q * b) - 1
  BY <1>1, <1>2, <1>4
<1>6. x = q - 1 /\ y = b - 1 => (x * b) + y = (q * b) - 1
  BY <1>1
<1>7. x <= q - 2 => (x * b) + y <= (q * b) - 2
  BY <1>1, <1>3, <1>4
<1>8. x = q - 1 /\ y # b - 1 => (x * b) + y <= (q * b) - 2
  BY <1>1, <1>4
<1> QED
  BY <1>5, <1>6, <1>7, <1>8

LEMMA PackBounds ==
  ASSUME NEW address \in Address, NEW f, Packs(f, address)
  PROVE  \A i \in 0 .. Octets : f[i] \in 0 .. 2 ^ (OctetBits * i) - 1
<1> DEFINE S == {i \in Nat : f[i] \in 0 .. 2 ^ (OctetBits * i) - 1}
<1>1. 0 \in S
  BY PackSteps, OctetPowers
<1>2. ASSUME NEW i \in 0 .. Octets - 1, i \in S
      PROVE  i + 1 \in S
  <2>1. /\ f[i + 1] = (f[i] * 2 ^ OctetBits) + address[i + 1]
        /\ address[i + 1] \in 0 .. 2 ^ OctetBits - 1
    BY PackSteps, OctetKnown
  <2>2. i \in 0 .. Octets /\ i + 1 \in Nat
    BY Widths
  <2>3. /\ 2 ^ (OctetBits * (i + 1)) = 2 ^ (OctetBits * i) * 2 ^ OctetBits
        /\ 2 ^ (OctetBits * i) \in Nat \ {0} /\ 2 ^ OctetBits \in Nat \ {0}
    BY <2>2, OctetPowers
  <2>4. f[i] \in Nat /\ f[i] <= 2 ^ (OctetBits * i) - 1
    BY <1>2, <2>3
  <2>5. f[i + 1] \in 0 .. 2 ^ (OctetBits * (i + 1)) - 1
    BY <2>1, <2>3, <2>4, NextOctet
  <2> QED
    BY <2>2, <2>5
<1>3. \A i \in 0 .. Octets : i \in S
  BY <1>1, <1>2, Widths, Upward
<1> QED
  BY <1>3

LEMMA ToIntegerType ==
  ASSUME NEW address \in Address
  PROVE  /\ ToInteger(address) \in Signed
         /\ \E f : Packs(f, address) /\ Bits(ToInteger(address)) = f[Octets]
<1>1. PICK f : Packs(f, address) /\ ToInteger(address) = Wrap(f[Octets])
  BY Packing
<1>2. Octets \in 0 .. Octets
  BY Widths
<1>3. f[Octets] \in 0 .. 2 * Half - 1
  BY <1>1, <1>2, PackBounds, OctetPowers
<1> QED
  BY <1>1, <1>3, Ints

LEMMA Taken ==
  ASSUME NEW v \in Signed
  PROVE  ToArray(v) \in Address /\ IntToIp(v) \in Address
<1>1. ASSUME NEW k \in 0 .. Octets
      PROVE  (Bits(v) \div 2 ^ (OctetBits * k)) % 2 ^ OctetBits \in Octet
  <2>1. 2 ^ (OctetBits * k) \in Nat \ {0} /\ 2 ^ OctetBits \in Nat \ {0} /\ Bits(v) \in Nat
    BY OctetPowers, Ints
  <2> QED
    BY <2>1, Quotient DEF Octet
<1>2. \A i \in 1 .. Octets : Octets - i \in 0 .. Octets /\ i - 1 \in 0 .. Octets
  BY Widths
<1> QED
  BY <1>1, <1>2 DEF ToArray, IntToIp, Address

\* format(toArray(v)) is read back as v.
LEMMA ReadBack ==
  ASSUME NEW v \in Signed
  PROVE  ToInteger(ToArray(v)) = v
<1>1. PICK f : Packs(f, ToArray(v)) /\ ToInteger(ToArray(v)) = Wrap(f[Octets])
  BY Packing
<1>2. PICK x \in Nat : x = Bits(v) /\ x \in 0 .. 2 * Half - 1
  BY Ints
<1> DEFINE S == {i \in Nat : f[i] = x \div 2 ^ (OctetBits * (Octets - i))}
<1>3. 0 \in S
  <2>1. Octets - 0 = Octets /\ 2 * Half \in Nat \ {0} /\ 0 * (2 * Half) = 0
    BY Widths, Ints
  <2>2. x \div (2 * Half) = 0
    BY <1>2, <2>1, QuotientIs
  <2>3. x \div 2 ^ (OctetBits * (Octets - 0)) = 0
    BY <2>1, <2>2, OctetPowers
  <2> QED
    BY <1>1, <2>3, PackSteps
<1>4. ASSUME NEW i \in 0 .. Octets - 1, i \in S
      PROVE  i + 1 \in S
  <2>1. PICK k \in 0 .. Octets - 1 : k = Octets - (i + 1) /\ Octets - i = k + 1 /\ k \in 0 .. Octets
    BY Widths
  <2>2. /\ 2 ^ (OctetBits * (k + 1)) = 2 ^ (OctetBits * k) * 2 ^ OctetBits
        /\ 2 ^ (OctetBits * k) \in Nat \ {0} /\ 2 ^ OctetBits \in Nat \ {0}
    BY <2>1, OctetPowers
  <2>3. PICK y \in Nat : y = x \div 2 ^ (OctetBits * k)
    BY <2>2, Quotient
  <2>4. f[i] = y \div 2 ^ OctetBits
    BY <1>4, <2>1, <2>2, <2>3, TwoQuotients
  <2>5. f[i + 1] = (f[i] * 2 ^ OctetBits) + ToArray(v)[i + 1]
    BY <1>1, PackSteps
  <2>6. ToArray(v)[i + 1] = y % 2 ^ OctetBits
    <3>1. i + 1 \in 1 .. Octets
      BY Widths
    <3> QED
      BY <1>2, <2>1, <2>3, <3>1 DEF ToArray
  <2>7. f[i + 1] = y
    <3>1. y = 2 ^ OctetBits * (y \div 2 ^ OctetBits) + (y % 2 ^ OctetBits)
          /\ y \div 2 ^ OctetBits \in Nat
      BY <2>2, Quotient
    <3> QED
      BY <2>2, <2>4, <2>5, <2>6, <3>1
  <2> QED
    BY <2>1, <2>3, <2>7
<1>5. \A i \in 0 .. Octets : i \in S
  BY <1>3, <1>4, Widths, Upward
<1>6. f[Octets] = x
  <2>1. f[Octets] = x \div 2 ^ (OctetBits * (Octets - Octets))
    BY <1>5, Widths
  <2>2. Octets - Octets = 0 /\ x \div 1 = x
    BY Widths, Ints
  <2> QED
    BY <2>1, <2>2, OctetPowers
<1> QED
  BY <1>1, <1>2, <1>6, Ints

(***************************************************************************)
(* Netmasks: the ones of an int, and of its octets.                        *)
(***************************************************************************)
AllOnes(address) == \A k \in 1 .. Octets : address[k] = 2 ^ OctetBits - 1

LEMMA OnesPacked ==
  ASSUME NEW address \in Address
  PROVE  AllOnes(address) <=> Bits(ToInteger(address)) = 2 * Half - 1
<1>1. PICK f : Packs(f, address) /\ Bits(ToInteger(address)) = f[Octets]
  BY ToIntegerType
<1>2. \A i \in 0 .. Octets : f[i] \in Nat /\ f[i] <= 2 ^ (OctetBits * i) - 1 /\ i \in Nat
  BY <1>1, PackBounds, OctetPowers, Widths
<1>3. ASSUME NEW i \in 0 .. Octets - 1
      PROVE  /\ f[i + 1] = (f[i] * 2 ^ OctetBits) + address[i + 1]
             /\ address[i + 1] \in 0 .. 2 ^ OctetBits - 1 /\ i + 1 \in 1 .. Octets
             /\ i \in 0 .. Octets /\ 2 ^ OctetBits \in Nat \ {0} /\ 2 ^ (OctetBits * i) \in Nat \ {0}
             /\ 2 ^ (OctetBits * (i + 1)) = 2 ^ (OctetBits * i) * 2 ^ OctetBits
  <2>1. i \in 0 .. Octets
    BY Widths
  <2> QED
    BY <1>1, <2>1, PackSteps, OctetKnown, OctetPowers
<1>4. ASSUME AllOnes(address)
      PROVE  f[Octets] = 2 * Half - 1
  <2> DEFINE S == {i \in Nat : f[i] = 2 ^ (OctetBits * i) - 1}
  <2>1. 0 \in S
    BY <1>1, PackSteps, OctetPowers
  <2>2. ASSUME NEW i \in 0 .. Octets - 1, i \in S
        PROVE  i + 1 \in S
    <3>1. f[i] = 2 ^ (OctetBits * i) - 1 /\ address[i + 1] = 2 ^ OctetBits - 1 /\ i + 1 \in Nat
      BY <1>3, <1>4, <2>2, Widths DEF AllOnes
    <3>2. f[i + 1] = 2 ^ (OctetBits * (i + 1)) - 1
      BY <1>2, <1>3, <3>1, NextOctet
    <3> QED
      BY <3>1, <3>2
  <2>3. \A i \in 0 .. Octets : i \in S
    BY <2>1, <2>2, Widths, Upward
  <2> QED
    BY <2>3, Widths, OctetPowers
<1>5. ASSUME NEW k \in 1 .. Octets, address[k] # 2 ^ OctetBits - 1
      PROVE  f[Octets] # 2 * Half - 1
  <2> DEFINE S == {i \in Nat : i < k \/ f[i] <= 2 ^ (OctetBits * i) - 2}
  <2>1. 0 \in S
    BY Widths
  <2>2. ASSUME NEW i \in 0 .. Octets - 1, i \in S
        PROVE  i + 1 \in S
    <3>1. i \in Nat /\ i + 1 \in Nat /\ k \in Nat
      BY Widths
    <3>2. ASSUME ~(i + 1 < k)
          PROVE  f[i] # 2 ^ (OctetBits * i) - 1 \/ address[i + 1] # 2 ^ OctetBits - 1
      <4>1. CASE i + 1 = k
        BY <1>5, <4>1
      <4>2. CASE i + 1 # k
        <5>1. ~(i < k)
          BY <3>1, <3>2, <4>2
        <5>2. f[i] <= 2 ^ (OctetBits * i) - 2
          BY <2>2, <5>1
        <5> QED
          BY <1>2, <1>3, <5>2
      <4> QED
        BY <4>1, <4>2
    <3>3. ASSUME ~(i + 1 < k)
          PROVE  f[i + 1] <= 2 ^ (OctetBits * (i + 1)) - 2
      <4>1. PICK q \in Nat \ {0} : q = 2 ^ (OctetBits * i)
        BY <1>3
      <4>2. PICK b \in Nat \ {0} : b = 2 ^ OctetBits
        BY <1>3
      <4>3. PICK y \in 0 .. b - 1 : y = address[i + 1]
        BY <1>3, <4>2
      <4>4. PICK z \in Nat : z = f[i]
        BY <1>2, <1>3
      <4>5. (z * b) + y <= (q * b) - 2
        BY <1>2, <1>3, <3>2, <3>3, <4>1, <4>2, <4>3, <4>4, NextOctet
      <4> QED
        BY <1>3, <4>1, <4>2, <4>3, <4>4, <4>5
    <3> QED
      BY <3>1, <3>3
  <2>3. \A i \in 0 .. Octets : i \in S
    BY <2>1, <2>2, Widths, Upward
  <2>4. Octets \in S /\ ~(Octets < k)
    BY <2>3, Widths
  <2> QED
    BY <2>4, OctetPowers, Ints
<1> QED
  BY <1>1, <1>4, <1>5 DEF AllOnes

\* The ones of a number are all there when it is the greatest.
LEMMA AllBits ==
  ASSUME NEW x \in 0 .. 2 * Half - 1
  PROVE  (\A b \in 0 .. NBITS - 1 : (x \div 2 ^ b) % 2 = 1) <=> x = 2 * Half - 1
<1>1. x \in Nat /\ 2 * Half \in Nat \ {0} /\ 2 ^ NBITS = 2 * Half /\ NBITS \in Nat
  BY Ints, Widths
<1>2. ASSUME \A b \in 0 .. NBITS - 1 : (x \div 2 ^ b) % 2 = 1
      PROVE  x = 2 * Half - 1
  <2> DEFINE S == {k \in Nat : x \div 2 ^ (NBITS - k) = 2 ^ k - 1}
  <2>1. 0 \in S
    <3>1. NBITS - 0 = NBITS /\ 0 * (2 * Half) = 0
      BY <1>1
    <3>2. x \div (2 * Half) = 0
      BY <1>1, <3>1, QuotientIs
    <3> QED
      BY <1>1, <3>1, <3>2, Powers
  <2>2. ASSUME NEW k \in 0 .. NBITS - 1, k \in S
        PROVE  k + 1 \in S
    <3>1. PICK b \in 0 .. NBITS - 1 : b = NBITS - (k + 1) /\ NBITS - k = b + 1 /\ b \in 0 .. NBITS
      BY <1>1
    <3>2. /\ 2 ^ b \in Nat \ {0} /\ 2 ^ (b + 1) = 2 * 2 ^ b /\ k + 1 \in Nat /\ k \in 0 .. NBITS
          /\ 2 ^ (k + 1) = 2 * 2 ^ k
      BY <1>1, <3>1, Powers
    <3>3. PICK z \in Nat : z = x \div 2 ^ b
      BY <1>1, <3>2, Quotient
    <3>4. z \div 2 = x \div 2 ^ (b + 1)
      <4>1. 2 ^ b * 2 = 2 ^ (b + 1)
        BY <3>2
      <4>2. z \div 2 = x \div (2 ^ b * 2)
        <5>1. \A h \in Nat \ {0} : (x \div 2 ^ b) \div h = x \div (2 ^ b * h)
          BY <1>1, <3>2, TwoQuotients
        <5> QED
          BY <3>3, <5>1
      <4> QED
        BY <4>1, <4>2
    <3>5. z \div 2 = 2 ^ k - 1 /\ z % 2 = 1
      BY <1>2, <2>2, <3>1, <3>3, <3>4
    <3>6. z = 2 * (z \div 2) + (z % 2)
      BY Quotient
    <3>7. z = 2 ^ (k + 1) - 1
      <4>1. 2 ^ k \in Nat
        BY <3>2, Powers
      <4> QED
        BY <3>2, <3>5, <3>6, <4>1
    <3> QED
      BY <3>1, <3>2, <3>3, <3>7
  <2>3. \A k \in 0 .. NBITS : k \in S
    BY <1>1, <2>1, <2>2, Upward
  <2>4. x \div 2 ^ (NBITS - NBITS) = 2 ^ NBITS - 1
    BY <1>1, <2>3
  <2>5. NBITS - NBITS = 0 /\ x \div 1 = x
    BY <1>1
  <2> QED
    BY <1>1, <2>4, <2>5, Powers
<1>3. ASSUME x = 2 * Half - 1, NEW b \in 0 .. NBITS - 1
      PROVE  (x \div 2 ^ b) % 2 = 1
  <2>1. PICK c \in 0 .. NBITS - 1 : c = NBITS - b - 1
    BY <1>1
  <2>2. b \in 0 .. NBITS /\ c \in 0 .. NBITS /\ c + 1 \in 0 .. NBITS /\ b + (c + 1) = NBITS
    BY <1>1, <2>1
  <2>3. 2 * Half = 2 ^ b * 2 ^ (c + 1) /\ 2 ^ (c + 1) = 2 * 2 ^ c
    BY <1>1, <2>2, PowerSum, Powers
  <2>4. PICK m \in Nat \ {0} : m = 2 ^ c
    BY <2>2, Powers
  <2>5. PICK h \in Nat \ {0} : h = 2 ^ b
    BY <2>2, Powers
  <2>6. x = h * (2 * m) - 1
    BY <1>3, <2>3, <2>4, <2>5
  <2>7. 2 * m - 1 \in Nat /\ (2 * m - 1) * h = (h * (2 * m)) - h
    OBVIOUS
  <2>8. x \div h = 2 * m - 1
    <3>1. (2 * m - 1) * h <= x /\ x < (2 * m - 1) * h + h
      BY <2>6, <2>7
    <3> QED
      BY <1>1, <2>7, <3>1, QuotientIs
  <2>9. (2 * m - 1) % 2 = 1
    OBVIOUS
  <2> QED
    BY <2>5, <2>8, <2>9
<1> QED
  BY <1>2, <1>3

\* toCidrNotation() is at most the width, and the width of a mask of ones only.
LEMMA CidrKnown ==
  ASSUME NEW mask \in Address
  PROVE  Cidr(mask) \in 0 .. NBITS /\ (Cidr(mask) = NBITS <=> AllOnes(mask))
<1>1. PICK x \in 0 .. 2 * Half - 1 : x = Bits(ToInteger(mask))
  BY ToIntegerType, Ints
<1> DEFINE I == 0 .. NBITS - 1
           S == {b \in I : (x \div 2 ^ b) % 2 = 1}
<1>2. Cidr(mask) = Cardinality(S)
  BY <1>1 DEF Cidr, Pop
<1>3. IsFiniteSet(I) /\ Cardinality(I) = NBITS
  BY Widths, FS_Interval
<1>4. S \subseteq I /\ IsFiniteSet(S) /\ Cardinality(S) \in Nat /\ Cardinality(S) <= NBITS
      /\ (Cardinality(S) = NBITS => S = I)
  BY <1>3, FS_Subset, FS_CardinalityType
<1>5. S = I <=> x = 2 * Half - 1
  BY AllBits
<1>6. Cardinality(S) = NBITS <=> S = I
  BY <1>3, <1>4
<1> QED
  BY <1>1, <1>2, <1>4, <1>5, <1>6, OnesPacked, Widths

(***************************************************************************)
(* The subnet: consecutive ints on one side of the sign bit.               *)
(***************************************************************************)
LEMMA HostBitsKnown ==
  ASSUME NEW cidr \in 1 .. NBITS
  PROVE  /\ HostBits(cidr) \in Nat \ {0} /\ \E k \in Nat \ {0} : Half = HostBits(cidr) * k
         /\ (cidr = NBITS => HostBits(cidr) = 1) /\ (cidr = NBITS - 1 => HostBits(cidr) = 2)
         /\ (cidr < NBITS - 1 => HostBits(cidr) >= 4)
<1>1. PICK c \in 0 .. NBITS - 1 : c = NBITS - cidr /\ c \in 0 .. NBITS /\ c \in Nat
  BY Widths
<1>2. HostBits(cidr) = 2 ^ c /\ 2 ^ c \in Nat \ {0}
  BY <1>1, Powers DEF HostBits
<1>3. \E k \in Nat \ {0} : Half = HostBits(cidr) * k
  <2>1. cidr - 1 \in 0 .. NBITS /\ c + (cidr - 1) = NBITS - 1 /\ NBITS - 1 <= NBITS
    BY <1>1, Widths
  <2>2. 2 ^ (NBITS - 1) = 2 ^ c * 2 ^ (cidr - 1) /\ 2 ^ (cidr - 1) \in Nat \ {0}
    BY <1>1, <2>1, PowerSum, Powers
  <2> QED
    BY <1>2, <2>2 DEF Half
<1>4. cidr = NBITS => HostBits(cidr) = 1
  <2>1. cidr = NBITS => c = 0
    BY <1>1
  <2> QED
    BY <1>2, <2>1, Powers
<1>5. ASSUME cidr # NBITS
      PROVE  \E m \in Nat \ {0} : /\ 2 ^ c = 2 * m
                                  /\ cidr = NBITS - 1 => m = 1
                                  /\ cidr < NBITS - 1 => m >= 2
  <2>1. PICK d \in 0 .. NBITS - 1 : c = d + 1 /\ d \in 0 .. NBITS
    BY <1>1, <1>5, Widths
  <2>2. 2 ^ c = 2 * 2 ^ d /\ 2 ^ d \in Nat \ {0}
    BY <2>1, Powers
  <2>3. cidr = NBITS - 1 => 2 ^ d = 1
    <3>1. cidr = NBITS - 1 => d = 0
      BY <1>1, <2>1, Widths
    <3> QED
      BY <3>1, Powers
  <2>4. ASSUME cidr < NBITS - 1 PROVE 2 ^ d >= 2
    <3>1. PICK e \in 0 .. NBITS - 1 : d = e + 1 /\ e \in 0 .. NBITS
      BY <1>1, <2>1, <2>4, Widths
    <3>2. 2 ^ d = 2 * 2 ^ e /\ 2 ^ e \in Nat \ {0}
      BY <3>1, Powers
    <3> QED
      BY <3>2
  <2> QED
    BY <2>2, <2>3, <2>4
<1>6. (cidr = NBITS - 1 => HostBits(cidr) = 2) /\ (cidr < NBITS - 1 => HostBits(cidr) >= 4)
  BY <1>2, <1>5, Widths
<1> QED
  BY <1>2, <1>3, <1>4, <1>6

\* A block of h numbers that starts at a multiple of h does not contain Half.
LEMMA Blocks ==
  ASSUME NEW x \in Nat, NEW h \in Nat \ {0}, NEW k \in Nat \ {0}, Half = h * k, x < 2 * Half
  PROVE  \E n \in Nat : /\ n = x - (x % h)
                        /\ n + h <= 2 * Half /\ (n >= Half \/ n + h <= Half)
                        /\ \A y \in Nat : y \div h = x \div h <=> n <= y /\ y < n + h
<1>0. PICK q \in Nat, r \in Nat : q = x \div h /\ r = x % h /\ x = h * q + r
  BY Quotient
<1>1. PICK n \in Nat : n = x - (x % h) /\ n = q * h /\ q * h <= x
  <2>1. q * h \in Nat /\ x - (x % h) = q * h /\ q * h <= x
    BY <1>0
  <2> QED
    BY <2>1
<1>2. q < 2 * k
  <2>1. q >= 2 * k => q * h >= (2 * k) * h
    OBVIOUS
  <2>2. (2 * k) * h = 2 * Half
    OBVIOUS
  <2> QED
    BY <1>1, <2>1, <2>2, Ints
<1>3. n + h <= 2 * Half
  <2>1. (q + 1) * h <= (2 * k) * h
    BY <1>2
  <2>2. (q + 1) * h = n + h /\ (2 * k) * h = 2 * Half
    BY <1>1
  <2> QED
    BY <2>1, <2>2
<1>4. n >= Half \/ n + h <= Half
  <2>1. CASE q >= k
    <3>1. q * h >= k * h /\ k * h = Half
      BY <2>1
    <3> QED
      BY <1>1, <3>1
  <2>2. CASE q < k
    <3>1. (q + 1) * h <= k * h /\ k * h = Half /\ (q + 1) * h = n + h
      BY <1>1, <2>2
    <3> QED
      BY <3>1
  <2> QED
    BY <2>1, <2>2
<1>5. ASSUME NEW y \in Nat
      PROVE  y \div h = x \div h <=> n <= y /\ y < n + h
  <2>1. ASSUME n <= y, y < n + h PROVE y \div h = q
    <3>1. q * h <= y /\ y < q * h + h
      BY <1>1, <2>1
    <3> QED
      BY <3>1, QuotientIs
  <2>2. y \div h = q => n <= y /\ y < n + h
    BY <1>1, Quotient
  <2> QED
    BY <1>0, <2>1, <2>2
<1> QED
  BY <1>1, <1>3, <1>4, <1>5

LEMMA SubnetShape ==
  ASSUME NEW address \in Address, NEW cidr \in 1 .. NBITS,
         NEW n, n = Network(address, cidr), NEW h \in Nat \ {0}, h = HostBits(cidr)
  PROVE  /\ n \in Signed /\ n + h - 1 \in Signed
         /\ Broadcast(address, cidr) = n + h - 1
         /\ n >= 0 \/ n + h <= 0
         /\ \A a \in Signed : Bits(a) \div h = Bits(ToInteger(address)) \div h
                                <=> n <= a /\ a < n + h
<1>1. PICK x \in Nat : x = Bits(ToInteger(address)) /\ x < 2 * Half
  BY ToIntegerType, Ints
<1>2. Half \in Nat \ {0}
  BY Ints
<1>3. PICK k \in Nat \ {0} : Half = h * k
  BY HostBitsKnown
<1>4. \E m \in Nat : /\ m = x - (x % h)
                     /\ m + h <= 2 * Half /\ (m >= Half \/ m + h <= Half)
                     /\ \A y \in Nat : y \div h = x \div h <=> m <= y /\ y < m + h
  BY <1>1, <1>3, Blocks
<1>5. PICK m \in Nat : /\ m = x - (x % h)
                      /\ m + h <= 2 * Half /\ (m >= Half \/ m + h <= Half)
                      /\ \A y \in Nat : y \div h = x \div h <=> m <= y /\ y < m + h
  BY <1>4
<1>6. n = Wrap(m) /\ Bits(n) = m /\ n \in Signed
  <2>1. n = Wrap(m)
    BY <1>1, <1>5 DEF Network
  <2> QED
    BY <1>2, <1>5, <2>1, Ints
<1>7. Broadcast(address, cidr) = Wrap(m + h - 1)
  BY <1>6 DEF Broadcast
<1>8. n = IF m >= Half THEN m - 2 * Half ELSE m
  BY <1>2, <1>6 DEF Wrap
<1>9. Wrap(m + h - 1) = n + h - 1 /\ n + h - 1 \in Signed /\ (n >= 0 \/ n + h <= 0)
  <2>1. m + h <= 2 * Half /\ (m >= Half \/ m + h <= Half)
    BY <1>5
  <2>2. CASE m >= Half
    BY <1>2, <1>8, <2>1, <2>2 DEF Wrap, Signed
  <2>3. CASE m + h <= Half
    BY <1>2, <1>8, <2>1, <2>3 DEF Wrap, Signed
  <2> QED
    BY <2>1, <2>2, <2>3
<1>10. ASSUME NEW a \in Signed
       PROVE  Bits(a) \div h = x \div h <=> n <= a /\ a < n + h
  <2>1. Bits(a) \in Nat
    BY Ints
  <2>2. m <= Bits(a) /\ Bits(a) < m + h <=> n <= a /\ a < n + h
    <3>1. a \in Int /\ -Half <= a /\ a < Half /\ Bits(a) = IF a < 0 THEN a + 2 * Half ELSE a
      BY <1>2 DEF Bits, Signed
    <3>2. CASE m >= Half
      <4>1. n = m - 2 * Half /\ n + h <= 0
        BY <1>2, <1>5, <1>8, <3>2
      <4> QED
        BY <1>2, <3>1, <3>2, <4>1
    <3>3. CASE m + h <= Half
      <4>1. n = m
        BY <1>2, <1>8, <3>3
      <4> QED
        BY <1>2, <3>1, <3>3, <4>1
    <3> QED
      BY <1>5, <3>2, <3>3
  <2> QED
    BY <1>5, <2>1, <2>2
<1> QED
  BY <1>1, <1>2, <1>6, <1>7, <1>9, <1>10

(***************************************************************************)
(* The inductive invariant of the loops.                                   *)
(***************************************************************************)
Masked == Cidr(subnet) \in 1 .. NBITS
H == HostBits(Cidr(subnet))

InfoInv ==
  /\ pc # "new" /\ Masked => /\ network = Network(ip, Cidr(subnet))
                             /\ broadcast = Broadcast(ip, Cidr(subnet))
  /\ pc \notin {"new", "thrown"} => Masked
  /\ pc = "thrown" => Cidr(subnet) \in {0, NBITS - 1}

\* The addresses of count ints from first on.
Listed(s, first, count) == Len(s) = count /\ \A k \in 1 .. count : s[k] = ToArray(first + k - 1)

\* The array a loop fills has the first j of them, and the next is add.
Filled(count) == /\ Len(addresses) = count /\ add = Low + j
                 /\ \A k \in 1 .. j : addresses[k] = ToArray(Low + k - 1)

LoopInv ==
  /\ pc = "all" => ~AllOnes(subnet) /\ Filled(AddressCount)
  /\ pc = "start" => IF HasHosts THEN Listed(possibleHosts, Low, H - 2)
                     ELSE AllOnes(subnet) /\ possibleHosts = <<ip>>
  /\ pc = "between" => IF HasHosts THEN Filled(H - 3) /\ limit = High
                       ELSE addresses = <<>> /\ add = limit
  /\ pc = "ready" => IF HasHosts THEN Listed(possibleHosts, Low, H - 3) ELSE possibleHosts = <<>>

IInv == TypeOK /\ InfoInv /\ LoopInv

(***************************************************************************)
(* What the fields of SubnetUtils are.                                     *)
(***************************************************************************)
LEMMA TypesKnown ==
  TypeOK => /\ ip \in Address /\ subnet \in Address /\ Cidr(subnet) \in 0 .. NBITS
            /\ (Cidr(subnet) = NBITS <=> AllOnes(subnet))
BY CidrKnown DEF TypeOK

\* Differences, and the next int, that do not leave the width.
LEMMA WrapKnown ==
  /\ Half \in Nat \ {0} /\ \A x \in Int : x \in Signed <=> -Half <= x /\ x < Half
  /\ Signed \subseteq Int /\ 0 \in Signed /\ \A x \in Signed : Wrap(x) = x
BY Ints DEF Signed, Wrap

LEMMA SubnetKnown ==
  ASSUME TypeOK, InfoInv, pc # "new", Masked
  PROVE  /\ H \in Nat \ {0} /\ network \in Signed /\ network + H - 1 \in Signed
         /\ broadcast = network + H - 1 /\ (network >= 0 \/ network + H <= 0)
         /\ \A a \in Signed : a \in Subnet <=> network <= a /\ a < network + H
         /\ (AllOnes(subnet) => H = 1) /\ (Cidr(subnet) = NBITS - 1 => H = 2)
         /\ (Cidr(subnet) < NBITS - 1 => H >= 4)
<1>1. Cidr(subnet) \in 1 .. NBITS /\ ip \in Address
  BY TypesKnown DEF Masked
<1>2. H \in Nat \ {0} /\ H = HostBits(Cidr(subnet))
  BY <1>1, HostBitsKnown DEF H
<1>3. network = Network(ip, Cidr(subnet)) /\ broadcast = Broadcast(ip, Cidr(subnet))
  BY DEF InfoInv
<1>4. /\ network \in Signed /\ network + H - 1 \in Signed
      /\ broadcast = network + H - 1 /\ (network >= 0 \/ network + H <= 0)
      /\ \A a \in Signed : Bits(a) \div H = Bits(ToInteger(ip)) \div H
                             <=> network <= a /\ a < network + H
  BY <1>1, <1>2, <1>3, SubnetShape
<1>5. \A a \in Signed : a \in Subnet <=> network <= a /\ a < network + H
  BY <1>2, <1>4 DEF Subnet
<1>6. /\ AllOnes(subnet) => H = 1
      /\ Cidr(subnet) = NBITS - 1 => H = 2
      /\ Cidr(subnet) < NBITS - 1 => H >= 4
  BY <1>1, <1>2, TypesKnown, HostBitsKnown
<1> QED
  BY <1>2, <1>4, <1>5, <1>6

LEMMA FieldsKnown ==
  ASSUME TypeOK, InfoInv, pc # "new", Masked
  PROVE  /\ HasHosts <=> Cidr(subnet) < NBITS - 1
         /\ HasHosts => /\ H >= 4 /\ Low = network + 1 /\ High = network + H - 2
                        /\ Low \in Signed /\ High \in Signed /\ AddressCount = H - 2
         /\ ~HasHosts => Low = 0 /\ High = 0 /\ AddressCount = 0
         /\ ~HasHosts => AllOnes(subnet) \/ Cidr(subnet) = NBITS - 1
<1>1. PICK h \in Nat \ {0} : h = H
  BY SubnetKnown
<1>2. PICK n \in Int : n = network
  BY SubnetKnown, WrapKnown
<1>3. /\ -Half <= n /\ n < Half /\ n + h - 1 < Half /\ broadcast = n + h - 1
      /\ n >= 0 \/ n + h <= 0
  BY <1>1, <1>2, SubnetKnown, WrapKnown
<1>4. /\ Cidr(subnet) = NBITS => h = 1
      /\ Cidr(subnet) = NBITS - 1 => h = 2
      /\ Cidr(subnet) < NBITS - 1 => h >= 4
      /\ Cidr(subnet) \in 0 .. NBITS
  BY <1>1, SubnetKnown, TypesKnown
<1>5. Diff(broadcast, network) = h - 1
  BY <1>2, <1>3, WrapKnown DEF Diff, Wrap
<1>6. (HasHosts <=> h > 2) /\ (HasHosts <=> Cidr(subnet) < NBITS - 1)
  BY <1>4, <1>5, Widths DEF HasHosts
<1>7. ASSUME HasHosts
      PROVE  /\ h >= 4 /\ Low = n + 1 /\ High = n + h - 2
             /\ Low \in Signed /\ High \in Signed /\ AddressCount = h - 2
  <2>1. h >= 4
    BY <1>4, <1>6, <1>7
  <2>2. n + 1 \in Signed /\ n + h - 2 \in Signed
    BY <1>3, <2>1, WrapKnown
  <2>3. network + 1 = n + 1 /\ broadcast - 1 = n + h - 2
    BY <1>2, <1>3
  <2>4. Low = n + 1 /\ High = n + h - 2
    BY <1>7, <2>2, <2>3, WrapKnown DEF Low, High
  <2>5. AddressCount = h - 2
    BY <1>5, <2>1 DEF AddressCount
  <2> QED
    BY <2>1, <2>2, <2>4, <2>5
<1>8. ~HasHosts => AddressCount = 0
  BY <1>5, <1>6 DEF AddressCount
<1> QED
  BY <1>1, <1>2, <1>4, <1>6, <1>7, <1>8, TypesKnown, Widths DEF Low, High

\* The addresses of the subnet are in the order of their ints.
LEMMA SameOrder ==
  ASSUME NEW n \in Int, NEW h \in Nat, n >= 0 \/ n + h <= 0,
         NEW a \in Int, NEW b \in Int, n <= a, a < n + h, n <= b, b < n + h
  PROVE  Bits(a) < Bits(b) <=> a < b
BY WrapKnown DEF Bits

LEMMA UsableKnown ==
  ASSUME TypeOK, InfoInv, pc # "new", Masked
  PROVE  /\ Usable = network + 1 .. network + H - 2
         /\ {a \in Usable : \E b \in Usable : Bits(a) < Bits(b)} = network + 1 .. network + H - 3
<1>1. PICK h \in Nat \ {0} : h = H
  BY SubnetKnown
<1>2. PICK n \in Int : n = network
  BY SubnetKnown, WrapKnown
<1>3. /\ n >= 0 \/ n + h <= 0
      /\ n \in Signed /\ n + h - 1 \in Signed
      /\ \A a \in Int : n <= a /\ a < n + h => a \in Signed
      /\ \A a \in Signed : a \in Subnet <=> n <= a /\ a < n + h
  BY <1>1, <1>2, SubnetKnown, WrapKnown
<1>4. Subnet \subseteq Signed
  BY DEF Subnet
<1>5. \A a \in Subnet : a \in Int /\ n <= a /\ a < n + h
  BY <1>3, <1>4, WrapKnown
<1>6. \A a, b \in Subnet : Bits(a) < Bits(b) <=> a < b
  BY <1>3, <1>5, SameOrder
<1>7. n \in Subnet /\ n + h - 1 \in Subnet
  BY <1>3
<1>8. ASSUME NEW a \in Subnet
      PROVE  a \in Usable <=> n < a /\ a < n + h - 1
  <2>1. (\E first \in Subnet : Bits(first) < Bits(a)) <=> n < a
    BY <1>5, <1>6, <1>7
  <2>2. (\E last \in Subnet : Bits(last) > Bits(a)) <=> a < n + h - 1
    <3>1. \A last \in Subnet : Bits(last) > Bits(a) <=> a < last
      <4> TAKE last \in Subnet
      <4>1. Bits(a) \in Int /\ Bits(last) \in Int
        BY <1>5, WrapKnown DEF Bits
      <4> QED
        BY <1>6, <4>1
    <3> QED
      BY <1>5, <1>7, <3>1
  <2> QED
    BY <2>1, <2>2 DEF Usable
<1>9. Usable \subseteq Subnet
  BY DEF Usable
<1>10. Usable = n + 1 .. n + h - 2
  <2>1. ASSUME NEW a \in n + 1 .. n + h - 2 PROVE a \in Usable
    BY <1>3, <1>8
  <2>2. ASSUME NEW a \in Usable PROVE a \in n + 1 .. n + h - 2
    BY <1>5, <1>8, <1>9
  <2> QED
    BY <2>1, <2>2
<1>11. {a \in Usable : \E b \in Usable : Bits(a) < Bits(b)} = n + 1 .. n + h - 3
  <2>1. ASSUME NEW a \in Usable
        PROVE  (\E b \in Usable : Bits(a) < Bits(b)) <=> a < n + h - 2
    <3>1. a < n + h - 2 => n + h - 2 \in Usable
      BY <1>10
    <3> QED
      BY <1>6, <1>9, <1>10, <3>1
  <2> QED
    BY <1>10, <2>1
<1> QED
  BY <1>1, <1>2, <1>10, <1>11

LEMMA ListedInOrder ==
  ASSUME NEW n \in Int, NEW h \in Nat \ {0}, n >= 0 \/ n + h <= 0, n \in Signed, n + h - 1 \in Signed,
         NEW c \in Nat, c <= h - 2, NEW s, Listed(s, n + 1, c)
  PROVE  Ascending(s) /\ {ToInteger(s[k]) : k \in 1 .. Len(s)} = n + 1 .. n + c
<1>1. ASSUME NEW k \in 1 .. c
      PROVE  ToInteger(s[k]) = n + k /\ n <= n + k /\ n + k < n + h
  <2>1. s[k] = ToArray(n + k) /\ n + k \in Signed
    <3>1. (n + 1) + k - 1 = n + k /\ n + k \in Signed
      BY WrapKnown
    <3> QED
      BY <3>1 DEF Listed
  <2> QED
    BY <2>1, ReadBack
<1>2. Len(s) = c
  BY DEF Listed
<1>3. Ascending(s)
  <2> SUFFICES ASSUME NEW k \in 1 .. c - 1
               PROVE  Bits(ToInteger(s[k])) < Bits(ToInteger(s[k + 1]))
    BY <1>2 DEF Ascending
  <2>1. k \in 1 .. c /\ k + 1 \in 1 .. c
    OBVIOUS
  <2>2. /\ ToInteger(s[k]) = n + k /\ ToInteger(s[k + 1]) = n + (k + 1)
        /\ n <= n + k /\ n + k < n + h /\ n <= n + (k + 1) /\ n + (k + 1) < n + h
    BY <1>1, <2>1
  <2>3. n + k \in Int /\ n + (k + 1) \in Int /\ n + k < n + (k + 1)
    OBVIOUS
  <2> QED
    BY <2>2, <2>3, SameOrder
<1>4. {ToInteger(s[k]) : k \in 1 .. c} = n + 1 .. n + c
  <2>1. \A k \in 1 .. c : ToInteger(s[k]) \in n + 1 .. n + c
    BY <1>1
  <2>2. ASSUME NEW a \in n + 1 .. n + c PROVE \E k \in 1 .. c : ToInteger(s[k]) = a
    <3>1. a - n \in 1 .. c /\ n + (a - n) = a
      OBVIOUS
    <3> QED
      BY <1>1, <3>1
  <2> QED
    BY <2>1, <2>2
<1> QED
  BY <1>2, <1>3, <1>4

\* isInRange() compares differences that wrap; none of an address outside falls
\* between 0 and the number of hosts.
LEMMA InRangeKnown ==
  ASSUME TypeOK, InfoInv, pc # "new", Masked, HasHosts
  PROVE  Diff(High, Low) = H - 3 /\ \A a \in Signed : IsInRange(a) <=> Low <= a /\ a <= High
<1>1. PICK h \in Nat \ {0} : h = H
  BY SubnetKnown
<1>2. PICK l \in Int : l = Low
  BY FieldsKnown, WrapKnown
<1>3. h >= 4 /\ High = l + h - 3 /\ -Half <= l /\ l + h - 3 < Half /\ Half \in Nat \ {0} /\ h <= Half
  <2>1. PICK n \in Int : n = network
    BY SubnetKnown, WrapKnown
  <2>2. h <= Half
    <3>1. (n >= 0 \/ n + h <= 0) /\ -Half <= n /\ n + h - 1 < Half
      BY <1>1, <2>1, SubnetKnown, WrapKnown
    <3> QED
      BY <3>1, WrapKnown
  <2>3. h >= 4 /\ High = l + h - 3
    BY <1>1, <1>2, <2>1, FieldsKnown
  <2>4. -Half <= l /\ l + h - 3 < Half
    BY <1>1, <1>2, <2>1, <2>3, FieldsKnown, WrapKnown
  <2> QED
    BY <2>2, <2>3, <2>4, WrapKnown
<1>4. Diff(High, Low) = h - 3
  <2>1. High - Low = h - 3
    BY <1>2, <1>3
  <2> QED
    BY <1>3, <2>1 DEF Diff, Wrap
<1>5. ASSUME NEW a \in Signed
      PROVE  IsInRange(a) <=> l <= a /\ a <= l + h - 3
  <2>1. a \in Int /\ -Half <= a /\ a < Half
    BY WrapKnown
  <2>2. IsInRange(a) <=> Wrap(a - l) >= 0 /\ Wrap(a - l) <= h - 3
    BY <1>2, <1>4 DEF IsInRange, Diff
  <2>3. CASE a - l >= Half
    BY <1>3, <2>1, <2>2, <2>3 DEF Wrap
  <2>4. CASE a - l < -Half
    BY <1>3, <2>1, <2>2, <2>4 DEF Wrap
  <2>5. CASE ~(a - l >= Half) /\ ~(a - l < -Half)
    BY <1>3, <2>1, <2>2, <2>5 DEF Wrap
  <2> QED
    BY <2>3, <2>4, <2>5
<1> QED
  BY <1>1, <1>2, <1>3, <1>4, <1>5

LEMMA NewArrayKnown ==
  ASSUME NEW n \in Nat
  PROVE  NewArray(n) \in Seq(Address) /\ Len(NewArray(n)) = n /\ (n = 0 => NewArray(n) = <<>>)
<1>1. Unset \in Address
  <2>1. 0 \in Octet
    BY OctetPowers DEF Octet
  <2> QED
    BY <2>1 DEF Unset, Address
<1>2. NewArray(n) \in [1 .. n -> Address]
  BY <1>1 DEF NewArray
<1>3. NewArray(n) \in Seq(Address) /\ Len(NewArray(n)) = n
  BY <1>2
<1>4. n = 0 => NewArray(n) = <<>>
  BY <1>3
<1> QED
  BY <1>3, <1>4

(***************************************************************************)
(* The steps.                                                              *)
(***************************************************************************)
LEMMA InfoStands ==
  ASSUME UNCHANGED info
  PROVE  /\ Low' = Low /\ High' = High /\ H' = H /\ Masked' = Masked /\ AddressCount' = AddressCount
         /\ (HasHosts' <=> HasHosts) /\ Cidr(subnet)' = Cidr(subnet)
         /\ UNCHANGED <<ip, subnet, network, broadcast>>
BY DEF info, Low, High, H, Masked, AddressCount, HasHosts, Diff

LEMMA InfoKept ==
  ASSUME IInv, UNCHANGED info, pc # "new", pc # "thrown",
         pc' = "thrown" => Cidr(subnet) = NBITS - 1
  PROVE  InfoInv'
<1>1. ip' = ip /\ subnet' = subnet /\ network' = network /\ broadcast' = broadcast
  BY DEF info
<1>2. Cidr(subnet)' = Cidr(subnet) /\ (Masked' <=> Masked) /\ Masked
  BY <1>1 DEF Masked, IInv, InfoInv
<1>3. network = Network(ip, Cidr(subnet)) /\ broadcast = Broadcast(ip, Cidr(subnet))
  BY <1>2 DEF IInv, InfoInv
<1> QED
  BY <1>1, <1>2, <1>3 DEF InfoInv

LEMMA CalculateStep ==
  ASSUME IInv, Calculate
  PROVE  IInv'
<1>1. /\ UNCHANGED <<ip, subnet, addresses, add, j, limit, possibleHosts>>
      /\ TypeOK /\ Cidr(subnet)' = Cidr(subnet) /\ (Masked' <=> Masked)
  BY DEF Calculate, IInv, Masked
<1>2. CASE /\ Cidr(subnet) \notin 1 .. NBITS /\ pc' = "thrown" /\ UNCHANGED <<network, broadcast>>
  <2>1. Cidr(subnet) = 0 /\ ~Masked
    BY <1>1, <1>2, TypesKnown, Widths DEF Masked
  <2>2. TypeOK'
    BY <1>1, <1>2 DEF TypeOK
  <2>3. InfoInv' /\ LoopInv'
    BY <1>1, <1>2, <2>1 DEF InfoInv, LoopInv
  <2> QED
    BY <2>2, <2>3 DEF IInv
<1>3. CASE \E cidr \in {Cidr(subnet)} \cap 1 .. NBITS :
             network' = Network(ip, cidr) /\ broadcast' = Broadcast(ip, cidr) /\ pc' = "init"
  <2>1. PICK cidr \in 1 .. NBITS : /\ cidr = Cidr(subnet) /\ network' = Network(ip, cidr)
                                  /\ broadcast' = Broadcast(ip, cidr) /\ pc' = "init"
    BY <1>3
  <2>2. PICK h \in Nat \ {0} : h = HostBits(cidr)
    BY HostBitsKnown
  <2>3. network' \in Signed /\ broadcast' \in Signed
    BY <1>1, <2>1, <2>2, TypesKnown, SubnetShape
  <2>4. TypeOK'
    BY <1>1, <2>1, <2>3 DEF TypeOK
  <2>5. InfoInv' /\ LoopInv'
    BY <1>1, <2>1 DEF InfoInv, LoopInv, Masked
  <2> QED
    BY <2>4, <2>5 DEF IInv
<1> QED
  BY <1>2, <1>3 DEF Calculate

LEMMA Parts ==
  IInv => /\ TypeOK /\ InfoInv /\ LoopInv
          /\ (pc \notin {"new", "thrown"} => Masked)
BY DEF IInv, InfoInv

LEMMA GetRangeStep ==
  ASSUME IInv, GetRange
  PROVE  IInv'
<1>1. /\ pc = "init" /\ UNCHANGED info /\ limit' = limit /\ Masked /\ TypeOK /\ InfoInv
      /\ pc' \in {"start", "all"}
  BY Parts DEF GetRange
<1>2. InfoInv'
  BY <1>1, InfoKept
<1>3. CASE AllOnes(subnet) /\ possibleHosts' = <<ip>> /\ pc' = "start" /\ UNCHANGED <<addresses, add, j>>
  <2>1. ip \in Address
    BY <1>1 DEF TypeOK
  <2>2. <<ip>> \in Seq(Address)
    BY <2>1
  <2>3. TypeOK'
    BY <1>1, <1>3, <2>2 DEF TypeOK, info
  <2>4. ~HasHosts
    BY <1>1, <1>3, SubnetKnown, FieldsKnown
  <2>5. LoopInv'
    BY <1>1, <1>3, <2>4, InfoStands DEF LoopInv, AllOnes
  <2> QED
    BY <1>2, <2>3, <2>5 DEF IInv
<1>4. CASE /\ ~AllOnes(subnet) /\ addresses' = NewArray(AddressCount) /\ add' = Low /\ j' = 0
           /\ pc' = "all" /\ UNCHANGED possibleHosts
  <2>1. AddressCount \in Nat /\ Low \in Signed
    <3>1. HasHosts => H - 2 \in Nat
      BY <1>1, FieldsKnown, SubnetKnown
    <3> QED
      BY <1>1, <3>1, FieldsKnown, WrapKnown
  <2>2. addresses' \in Seq(Address) /\ Len(addresses') = AddressCount
    BY <1>4, <2>1, NewArrayKnown
  <2>3. TypeOK'
    BY <1>1, <1>4, <2>1, <2>2 DEF TypeOK, info
  <2>4. Filled(AddressCount)'
    <3>1. add' = Low + 0
      BY <1>4, <2>1, WrapKnown
    <3> QED
      BY <1>1, <1>4, <2>2, <3>1, InfoStands DEF Filled
  <2>5. LoopInv'
    BY <1>1, <1>4, <2>4, InfoStands DEF LoopInv, AllOnes
  <2> QED
    BY <1>2, <2>3, <2>5 DEF IInv
<1> QED
  BY <1>3, <1>4 DEF GetRange, AllOnes

\* One more element of the array.
LEMMA AssignEffect ==
  ASSUME TypeOK, NEW count \in Nat, Filled(count), j < count, Low \in Signed, Low + j + 1 \in Signed,
         Assign, UNCHANGED <<info, limit, possibleHosts>>
  PROVE  TypeOK' /\ Filled(count)' /\ pc' = pc
<1>1. /\ addresses \in Seq(Address) /\ Len(addresses) = count /\ add = Low + j /\ j \in Nat
      /\ \A k \in 1 .. j : addresses[k] = ToArray(Low + k - 1)
      /\ add \in Signed
  BY DEF TypeOK, Filled
<1>2. addresses' = [addresses EXCEPT ![j + 1] = ToArray(add)] /\ add' = Wrap(add + 1)
      /\ j' = j + 1 /\ pc' = pc
  BY <1>1 DEF Assign
<1>3. add' = Low + (j + 1) /\ add' \in Signed
  <2>1. add + 1 = Low + j + 1 /\ Low + j + 1 = Low + (j + 1)
    BY <1>1, WrapKnown
  <2> QED
    BY <1>2, <2>1, WrapKnown
<1>4. ToArray(add) \in Address
  BY <1>1, Taken
<1>5. addresses' \in Seq(Address) /\ Len(addresses') = count
  BY <1>1, <1>2, <1>4
<1>6. TypeOK'
  <2>1. j' \in 0 .. Len(addresses')
    BY <1>1, <1>2, <1>5
  <2> QED
    BY <1>2, <1>3, <1>5, <2>1 DEF TypeOK, info
<1>7. ASSUME NEW k \in 1 .. j + 1
      PROVE  addresses'[k] = ToArray(Low + k - 1)
  <2>1. CASE k = j + 1
    <3>1. k \in 1 .. Len(addresses) /\ Low + k - 1 = add
      BY <1>1, <2>1, WrapKnown
    <3> QED
      BY <1>1, <1>2, <2>1, <3>1
  <2>2. CASE k # j + 1
    <3>1. k \in 1 .. j /\ k \in 1 .. Len(addresses)
      BY <1>1, <2>2
    <3> QED
      BY <1>1, <1>2, <2>2, <3>1
  <2> QED
    BY <2>1, <2>2
<1>8. Filled(count)'
  BY <1>2, <1>3, <1>5, <1>7, InfoStands DEF Filled
<1> QED
  BY <1>2, <1>6, <1>8

LEMMA AllAddressesStep ==
  ASSUME IInv, AllAddresses
  PROVE  IInv'
<1>1. /\ pc = "all" /\ add <= High /\ Assign /\ UNCHANGED <<info, limit, possibleHosts>>
      /\ TypeOK /\ InfoInv /\ Masked /\ ~AllOnes(subnet) /\ Filled(AddressCount)
  BY Parts DEF AllAddresses, LoopInv
<1>2. j \in Nat /\ add = Low + j /\ Len(addresses) = AddressCount /\ j <= Len(addresses)
  BY <1>1 DEF Filled, TypeOK
<1>3. CASE HasHosts
  <2>1. PICK h \in Nat : h = H /\ h >= 4
    BY <1>1, <1>3, SubnetKnown, FieldsKnown
  <2>2. PICK n \in Int : n = network /\ n \in Signed /\ n + h - 1 \in Signed
    BY <1>1, <2>1, SubnetKnown, WrapKnown
  <2>3. Low = n + 1 /\ High = n + h - 2 /\ AddressCount = h - 2 /\ Low \in Signed
    BY <1>1, <1>3, <2>1, <2>2, FieldsKnown
  <2>4. j < h - 2 /\ h - 2 \in Nat /\ Low + j + 1 \in Signed
    BY <1>1, <1>2, <2>1, <2>2, <2>3, WrapKnown
  <2>5. TypeOK' /\ Filled(h - 2)' /\ pc' = pc
    BY <1>1, <2>3, <2>4, AssignEffect
  <2>6. InfoInv'
    BY <1>1, <2>5, InfoKept
  <2>7. AddressCount' = h - 2 /\ subnet' = subnet
    BY <1>1, <2>3, InfoStands
  <2>8. Filled(AddressCount)'
    BY <2>5, <2>7 DEF Filled
  <2>9. LoopInv'
    BY <1>1, <2>5, <2>7, <2>8 DEF LoopInv, AllOnes
  <2> QED
    BY <2>5, <2>6, <2>9 DEF IInv
<1>4. CASE ~HasHosts
  <2>1. AddressCount = 0 /\ Cidr(subnet) = NBITS - 1
    BY <1>1, <1>4, FieldsKnown
  <2>2. pc' = "thrown" /\ UNCHANGED <<addresses, add, j>>
    BY <1>1, <1>2, <2>1 DEF Assign
  <2>3. TypeOK'
    BY <1>1, <2>2 DEF TypeOK, info
  <2>4. InfoInv'
    BY <1>1, <2>1, InfoKept
  <2> QED
    BY <2>2, <2>3, <2>4 DEF IInv, LoopInv
<1> QED
  BY <1>3, <1>4

LEMMA AllAddressesEndsStep ==
  ASSUME IInv, AllAddressesEnds
  PROVE  IInv'
<1>1. /\ pc = "all" /\ add > High /\ possibleHosts' = addresses /\ pc' = "start"
      /\ UNCHANGED <<info, addresses, add, j, limit>>
      /\ TypeOK /\ InfoInv /\ Masked /\ Filled(AddressCount)
  BY Parts DEF AllAddressesEnds, LoopInv
<1>2. /\ j \in Nat /\ add = Low + j /\ Len(addresses) = AddressCount /\ j <= Len(addresses)
      /\ \A k \in 1 .. j : addresses[k] = ToArray(Low + k - 1)
  BY <1>1 DEF Filled, TypeOK
<1>3. HasHosts
  <2>1. ~HasHosts => Low = 0 /\ High = 0 /\ AddressCount = 0
    BY <1>1, FieldsKnown
  <2> QED
    BY <1>1, <1>2, <2>1
<1>4. PICK h \in Nat : h = H /\ h >= 4
  BY <1>1, <1>3, SubnetKnown, FieldsKnown
<1>5. PICK n \in Int : n = network
  BY <1>1, SubnetKnown, WrapKnown
<1>6. Low = n + 1 /\ High = n + h - 2 /\ AddressCount = h - 2
  BY <1>1, <1>3, <1>4, <1>5, FieldsKnown
<1>7. j = h - 2
  BY <1>1, <1>2, <1>4, <1>5, <1>6
<1>8. Listed(addresses, Low, h - 2)
  BY <1>2, <1>6, <1>7 DEF Listed
<1>9. TypeOK' /\ InfoInv'
  <2>1. TypeOK'
    BY <1>1 DEF TypeOK, info
  <2> QED
    BY <1>1, <2>1, InfoKept
<1>10. Low' = Low /\ H' = h /\ HasHosts'
  BY <1>1, <1>3, <1>4, InfoStands
<1>11. LoopInv'
  BY <1>1, <1>8, <1>10 DEF LoopInv, Listed
<1> QED
  BY <1>9, <1>11 DEF IInv

LEMMA StartStep ==
  ASSUME IInv, Start
  PROVE  IInv'
<1>1. /\ pc = "start" /\ UNCHANGED <<info, possibleHosts>> /\ pc' \in {"between", "invalid"}
      /\ TypeOK /\ InfoInv /\ Masked /\ LoopInv
  BY Parts DEF Start
<1>2. InfoInv'
  BY <1>1, InfoKept
<1>3. CASE pc' = "invalid"
  <2>1. UNCHANGED <<addresses, add, j, limit>>
    BY <1>3 DEF Start
  <2>2. TypeOK'
    BY <1>1, <1>3, <2>1 DEF TypeOK, info
  <2> QED
    BY <1>2, <1>3, <2>2 DEF IInv, LoopInv
<1>4. CASE pc' = "between"
  <2>1. PICK low, high : /\ low = ToInteger(possibleHosts[1])
                         /\ high = ToInteger(possibleHosts[Len(possibleHosts)])
                         /\ addresses' = NewArray(Diff(high, low)) /\ add' = low /\ j' = 0
                         /\ limit' = high
    BY <1>4 DEF Start
  <2>2. ASSUME NEW n \in Nat, Diff(high, low) = n, low \in Signed, high \in Signed
        PROVE  TypeOK' /\ addresses' = NewArray(n) /\ Len(addresses') = n
    <3>1. addresses' \in Seq(Address) /\ Len(addresses') = n
      BY <2>1, <2>2, NewArrayKnown
    <3>2. TypeOK'
      BY <1>1, <1>4, <2>1, <2>2, <3>1 DEF TypeOK, info
    <3> QED
      BY <2>1, <2>2, <3>1, <3>2
  <2>3. CASE HasHosts
    <3>1. PICK h \in Nat : h = H /\ h >= 4
      BY <1>1, <2>3, SubnetKnown, FieldsKnown
    <3>2. PICK l \in Int : l = Low /\ l \in Signed /\ High \in Signed
      BY <1>1, <2>3, FieldsKnown, WrapKnown
    <3>3. High = l + h - 3
      <4>1. PICK n \in Int : n = network
        BY <1>1, SubnetKnown, WrapKnown
      <4> QED
        BY <1>1, <2>3, <3>1, <3>2, <4>1, FieldsKnown
    <3>4. Len(possibleHosts) = h - 2 /\ \A k \in 1 .. h - 2 : possibleHosts[k] = ToArray(l + k - 1)
      BY <1>1, <2>3, <3>1, <3>2 DEF LoopInv, Listed
    <3>5. possibleHosts[1] = ToArray(l) /\ possibleHosts[h - 2] = ToArray(High)
      <4>1. 1 \in 1 .. h - 2 /\ h - 2 \in 1 .. h - 2 /\ l + 1 - 1 = l /\ l + (h - 2) - 1 = High
        BY <3>1, <3>2, <3>3
      <4> QED
        BY <3>4, <4>1
    <3>6. low = Low /\ high = High
      BY <2>1, <3>2, <3>4, <3>5, ReadBack
    <3>7. Diff(high, low) = h - 3 /\ h - 3 \in Nat
      BY <1>1, <2>3, <3>1, <3>6, InRangeKnown
    <3>8. TypeOK' /\ Len(addresses') = h - 3
      BY <2>2, <3>2, <3>6, <3>7
    <3>9. Low' = Low /\ High' = High /\ H' = h /\ HasHosts'
      BY <1>1, <2>3, <3>1, InfoStands
    <3>10. Filled(H - 3)'
      <4>1. add' = Low + 0
        BY <2>1, <3>2, <3>6
      <4> QED
        BY <2>1, <3>8, <3>9, <4>1 DEF Filled
    <3>11. LoopInv'
      BY <1>4, <2>1, <3>6, <3>9, <3>10 DEF LoopInv
    <3> QED
      BY <1>2, <3>8, <3>11 DEF IInv
  <2>4. CASE ~HasHosts
    <3>1. possibleHosts = <<ip>> /\ ip \in Address
      BY <1>1, <2>4, TypesKnown DEF LoopInv
    <3>2. low = ToInteger(ip) /\ high = low /\ low \in Signed
      BY <2>1, <3>1, ToIntegerType
    <3>3. Diff(high, low) = 0
      <4>1. high - low = 0
        BY <3>2, WrapKnown
      <4> QED
        BY <4>1, WrapKnown DEF Diff
    <3>4. TypeOK' /\ addresses' = <<>>
      BY <2>2, <3>2, <3>3, NewArrayKnown
    <3>5. LoopInv'
      BY <1>1, <1>4, <2>1, <2>4, <3>2, <3>4, InfoStands DEF LoopInv
    <3> QED
      BY <1>2, <3>4, <3>5 DEF IInv
  <2> QED
    BY <2>3, <2>4
<1> QED
  BY <1>1, <1>3, <1>4

LEMMA AddressesBetweenStep ==
  ASSUME IInv, AddressesBetween \/ AddressesBetweenEnds
  PROVE  IInv'
<1>1. /\ pc = "between" /\ TypeOK /\ InfoInv /\ Masked /\ LoopInv /\ UNCHANGED <<info, limit>>
  BY Parts DEF AddressesBetween, AddressesBetweenEnds
<1>2. CASE HasHosts
  <2>1. PICK h \in Nat : h = H /\ h >= 4
    BY <1>1, <1>2, SubnetKnown, FieldsKnown
  <2>2. PICK n \in Int : n = network /\ n \in Signed /\ n + h - 1 \in Signed
    BY <1>1, <2>1, SubnetKnown, WrapKnown
  <2>3. Low = n + 1 /\ High = n + h - 2 /\ Low \in Signed /\ limit = High
    BY <1>1, <1>2, <2>1, <2>2, FieldsKnown DEF LoopInv
  <2>4. Filled(h - 3) /\ h - 3 \in Nat
    BY <1>1, <1>2, <2>1 DEF LoopInv
  <2>5. /\ j \in Nat /\ add = Low + j /\ Len(addresses) = h - 3 /\ j <= Len(addresses)
        /\ \A k \in 1 .. j : addresses[k] = ToArray(Low + k - 1)
    BY <1>1, <2>4 DEF Filled, TypeOK
  <2>6. Low' = Low /\ High' = High /\ H' = h /\ HasHosts'
    BY <1>1, <1>2, <2>1, InfoStands
  <2>7. CASE AddressesBetween
    <3>1. add < limit /\ Assign /\ UNCHANGED <<info, limit, possibleHosts>>
      BY <2>7 DEF AddressesBetween
    <3>2. j < h - 3 /\ Low + j + 1 \in Signed
      BY <2>1, <2>2, <2>3, <2>5, <3>1, WrapKnown
    <3>3. TypeOK' /\ Filled(h - 3)' /\ pc' = pc
      BY <1>1, <2>3, <2>4, <3>1, <3>2, AssignEffect
    <3>4. InfoInv'
      BY <1>1, <3>3, InfoKept
    <3>5. Filled(H - 3)'
      BY <2>6, <3>3 DEF Filled
    <3>6. LoopInv'
      BY <1>1, <2>3, <2>6, <3>3, <3>5 DEF LoopInv
    <3> QED
      BY <3>3, <3>4, <3>6 DEF IInv
  <2>8. CASE AddressesBetweenEnds
    <3>1. /\ add >= limit /\ possibleHosts' = addresses /\ pc' = "ready"
          /\ UNCHANGED <<info, addresses, add, j, limit>>
      BY <2>8 DEF AddressesBetweenEnds
    <3>2. j = h - 3
      BY <2>1, <2>2, <2>3, <2>5, <3>1
    <3>3. Listed(addresses, Low, h - 3)
      BY <2>5, <3>2 DEF Listed
    <3>4. TypeOK'
      BY <1>1, <3>1 DEF TypeOK, info
    <3>5. InfoInv'
      BY <1>1, <3>1, InfoKept
    <3>6. LoopInv'
      BY <2>6, <3>1, <3>3 DEF LoopInv, Listed
    <3> QED
      BY <3>4, <3>5, <3>6 DEF IInv
  <2> QED
    BY <2>7, <2>8
<1>3. CASE ~HasHosts
  <2>1. addresses = <<>> /\ add = limit /\ add \in Int
    BY <1>1, <1>3, WrapKnown DEF LoopInv, TypeOK
  <2>2. possibleHosts' = addresses /\ pc' = "ready" /\ UNCHANGED <<info, addresses, add, j, limit>>
    BY <2>1 DEF AddressesBetween, AddressesBetweenEnds
  <2>3. TypeOK'
    BY <1>1, <2>2 DEF TypeOK, info
  <2>4. InfoInv'
    BY <1>1, <2>2, InfoKept
  <2>5. LoopInv'
    BY <1>1, <1>3, <2>1, <2>2, InfoStands DEF LoopInv
  <2> QED
    BY <2>3, <2>4, <2>5 DEF IInv
<1> QED
  BY <1>2, <1>3

LEMMA StutterStep ==
  ASSUME IInv, UNCHANGED vars
  PROVE  IInv'
<1>1. UNCHANGED <<info, addresses, add, j, limit, possibleHosts, pc>>
  BY DEF vars
<1>2. TypeOK'
  BY <1>1 DEF IInv, TypeOK, info
<1>3. InfoInv'
  BY <1>1, InfoStands DEF IInv, InfoInv, info, Masked
<1>4. LoopInv'
  BY <1>1, InfoStands DEF IInv, LoopInv, Filled, Listed, AllOnes
<1> QED
  BY <1>2, <1>3, <1>4 DEF IInv

(***************************************************************************)
(* The theorems.                                                           *)
(***************************************************************************)
LEMMA Invariance == Spec => []IInv
<1>1. Init => IInv
  <2> SUFFICES ASSUME Init PROVE IInv
    OBVIOUS
  <2>1. ip \in Address
    BY Taken DEF Init
  <2>2. TypeOK
    BY <2>1, WrapKnown DEF Init, TypeOK
  <2> QED
    BY <2>2 DEF Init, IInv, InfoInv, LoopInv
<1>2. IInv /\ [Next]_vars => IInv'
  BY CalculateStep, GetRangeStep, AllAddressesStep, AllAddressesEndsStep, StartStep,
     AddressesBetweenStep, StutterStep DEF Next
<1> QED
  BY <1>1, <1>2, PTL DEF Spec

\* Every int stays within its width, and every array holds addresses.
THEOREM AddressTypes == Spec => []TypeOK
<1>1. IInv => TypeOK
  BY DEF IInv
<1> QED
  BY <1>1, Invariance, PTL

\* getAllAddresses(): for addresses of any width, the usable addresses of the
\* subnet, each once and in ascending order.
THEOREM RangeComplete == Spec => []RangeIsUsable
<1>1. IInv => RangeIsUsable
  <2> SUFFICES ASSUME IInv, pc = "start", Cidr(subnet) < NBITS
               PROVE  /\ Ascending(possibleHosts)
                      /\ {ToInteger(possibleHosts[k]) : k \in 1 .. Len(possibleHosts)} = Usable
    BY DEF RangeIsUsable
  <2>1. TypeOK /\ InfoInv /\ Masked /\ LoopInv
    BY Parts
  <2>2. HasHosts
    <3>1. ~AllOnes(subnet)
      BY <2>1, TypesKnown, Widths
    <3> QED
      BY <2>1, <3>1 DEF LoopInv
  <2>3. PICK h \in Nat \ {0} : h = H /\ h >= 4
    BY <2>1, <2>2, SubnetKnown, FieldsKnown
  <2>4. PICK n \in Int : /\ n = network /\ n \in Signed /\ n + h - 1 \in Signed
                         /\ n >= 0 \/ n + h <= 0
    BY <2>1, <2>3, SubnetKnown, WrapKnown
  <2>5. Listed(possibleHosts, n + 1, h - 2) /\ h - 2 \in Nat /\ h - 2 <= h - 2
    BY <2>1, <2>2, <2>3, <2>4, FieldsKnown DEF LoopInv
  <2>6. /\ Ascending(possibleHosts)
        /\ {ToInteger(possibleHosts[k]) : k \in 1 .. Len(possibleHosts)} = n + 1 .. n + (h - 2)
    BY <2>4, <2>5, ListedInOrder
  <2>7. Usable = n + 1 .. n + h - 2 /\ n + (h - 2) = n + h - 2
    BY <2>1, <2>3, <2>4, UsableKnown
  <2> QED
    BY <2>6, <2>7
<1> QED
  BY <1>1, Invariance, PTL

\* getAllAddressess(low, high) with the first and the last of them, as start()
\* calls it: what a discovery tries is the usable addresses but the highest.
THEOREM DiscoveryMissesOne == Spec => []DiscoveryRange
<1>1. IInv => DiscoveryRange
  <2> SUFFICES ASSUME IInv, pc = "ready"
               PROVE  /\ Ascending(possibleHosts)
                      /\ {ToInteger(possibleHosts[k]) : k \in 1 .. Len(possibleHosts)} =
                           {a \in Usable : \E b \in Usable : Bits(a) < Bits(b)}
    BY DEF DiscoveryRange
  <2>1. TypeOK /\ InfoInv /\ Masked /\ LoopInv
    BY Parts
  <2>2. PICK h \in Nat \ {0} : h = H /\ (HasHosts => h >= 4) /\ (~HasHosts => h <= 2)
    BY <2>1, SubnetKnown, FieldsKnown
  <2>3. PICK n \in Int : /\ n = network /\ n \in Signed /\ n + h - 1 \in Signed
                         /\ n >= 0 \/ n + h <= 0
    BY <2>1, <2>2, SubnetKnown, WrapKnown
  <2>4. {a \in Usable : \E b \in Usable : Bits(a) < Bits(b)} = n + 1 .. n + h - 3
    BY <2>1, <2>2, <2>3, UsableKnown
  <2>5. CASE HasHosts
    <3>1. Listed(possibleHosts, n + 1, h - 3) /\ h - 3 \in Nat /\ h - 3 <= h - 2
      BY <2>1, <2>2, <2>3, <2>5, FieldsKnown DEF LoopInv
    <3>2. /\ Ascending(possibleHosts)
          /\ {ToInteger(possibleHosts[k]) : k \in 1 .. Len(possibleHosts)} = n + 1 .. n + (h - 3)
      BY <2>3, <3>1, ListedInOrder
    <3>3. n + (h - 3) = n + h - 3
      OBVIOUS
    <3> QED
      BY <2>4, <3>2, <3>3
  <2>6. CASE ~HasHosts
    <3>1. possibleHosts = <<>> /\ Len(possibleHosts) = 0
      BY <2>1, <2>6 DEF LoopInv
    <3>2. n + 1 .. n + h - 3 = {}
      BY <2>2, <2>6
    <3>3. Ascending(possibleHosts)
      BY <3>1 DEF Ascending
    <3>4. {ToInteger(possibleHosts[k]) : k \in 1 .. Len(possibleHosts)} = {}
      BY <3>1
    <3> QED
      BY <2>4, <3>2, <3>3, <3>4
  <2> QED
    BY <2>5, <2>6
<1> QED
  BY <1>1, Invariance, PTL

\* isInRange(): whatever wraps, an address is valid when it is usable, in every
\* subnet with two host bits or more.
THEOREM ValidityIsRight == Spec => []ValidIsUsable
<1>1. IInv => ValidIsUsable
  <2> SUFFICES ASSUME IInv, pc # "new", Cidr(subnet) \in 1 .. NBITS - 2
               PROVE  {a \in Signed : IsInRange(a)} = Usable
    BY DEF ValidIsUsable
  <2>1. TypeOK /\ InfoInv /\ Masked
    <3>1. Cidr(subnet) \in 1 .. NBITS
      BY Widths
    <3> QED
      BY <3>1, Parts DEF Masked
  <2>2. HasHosts
    BY <2>1, FieldsKnown, Widths
  <2>3. PICK h \in Nat \ {0} : h = H
    BY <2>1, SubnetKnown
  <2>4. PICK n \in Int : n = network /\ n \in Signed /\ n + h - 1 \in Signed
    BY <2>1, <2>3, SubnetKnown, WrapKnown
  <2>5. Low = n + 1 /\ High = n + h - 2
    BY <2>1, <2>2, <2>3, <2>4, FieldsKnown
  <2>6. Usable = n + 1 .. n + h - 2
    BY <2>1, <2>3, <2>4, UsableKnown
  <2>7. \A a \in Signed : IsInRange(a) <=> n + 1 <= a /\ a <= n + h - 2
    BY <2>1, <2>2, <2>5, InRangeKnown
  <2>8. \A a \in n + 1 .. n + h - 2 : a \in Signed
    BY <2>4, WrapKnown
  <2>9. \A a \in Signed : a \in Int
    BY WrapKnown
  <2> QED
    BY <2>6, <2>7, <2>8, <2>9
<1> QED
  BY <1>1, Invariance, PTL

\* calculate() and getAllAddresses(): no loop leaves its array but for a subnet
\* without usable addresses.
THEOREM ThrowsExplained == Spec => []ThrowsOnlyWithoutHosts
<1>1. IInv => ThrowsOnlyWithoutHosts
  BY DEF IInv, InfoInv, ThrowsOnlyWithoutHosts
<1> QED
  BY <1>1, Invariance, PTL
=============================================================================
