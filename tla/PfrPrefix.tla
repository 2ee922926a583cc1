----------------------------- MODULE PfrPrefix -----------------------------
(***************************************************************************)
(* The two ways in which pfrd decides whether an IPv4 address lies in a    *)
(* prefix: the ranges of pfr_prefix4 (pfr_customer.cpp), built octet by    *)
(* octet and compared as signed integers, and the masks of pfr_localnets   *)
(* (pfr_localnets.cpp).  Operators only.                                   *)
(*                                                                         *)
(* An address is its four octets read as one number.  The size of an octet *)
(* is a parameter; a mask is the number of its zero bits.                  *)
(***************************************************************************)
EXTENDS Integers

CONSTANT OctetBits    \* 8

ASSUME OctetAssumption == OctetBits \in Nat \ {0}

\* The powers of 2, as a recursive function.
pow2[n \in Nat] == IF n = 0 THEN 1 ELSE 2 * pow2[n - 1]

Width == 4 * OctetBits
Address == 0..(pow2[Width] - 1)

\* A prefix as written, "address/len"; len = NoLen when there is no slash.
NoLen == -1
Prefix == [addr : Address, len : Nat \cup {NoLen}]

\* The length that std::stoi finds.  Without a slash find returns npos, npos + 1
\* is 0, and the text it reads begins with the first octet of the address.
PrefixLen(p) == IF p.len = NoLen THEN p.addr \div pow2[3 * OctetBits] ELSE p.len

\* ip4_bin gives ssize_t; lor, hir and the address looked for are int.
ToInt(x) == IF x >= pow2[Width - 1] THEN x - pow2[Width] ELSE x

\* x | ones, where ones is one less than a power of 2.
OrOnes(x, ones) == (x - (x % (ones + 1))) + ones

\* The octet that holds the last bit of the prefix.
SplitOctet(len) == IF len = Width THEN 3 ELSE len \div OctetBits

\* hbits.  Mutant: shifted by one bit less.
HbitsWide(len) == (pow2[OctetBits + 1] - 1) \div pow2[len - OctetBits * SplitOctet(len)]

Hbits(len) == (pow2[OctetBits] - 1) \div pow2[len - OctetBits * SplitOctet(len)]

\* sshir: the octets before the split as they are, the split one with its host
\* bits set, all ones behind.
HighAddress(p) ==
    LET len == PrefixLen(p)
        unit == pow2[OctetBits * (3 - SplitOctet(len))]
    IN  OrOnes(p.addr \div unit, Hbits(len)) * unit + unit - 1

\* The ranges the constructor may build.  lor is the address as written.  For an
\* impossible length sshir is empty, inet_pton stores nothing and hir is what was
\* on the stack.
Ranges(p) ==
    {[lor |-> ToInt(p.addr), hir |-> h] :
        h \in IF PrefixLen(p) \in 0..Width THEN {ToInt(HighAddress(p))}
              ELSE {ToInt(a) : a \in Address}}

\* Mutant: the address is compared before it is converted to int.
IsPfxHitUnsigned(a, range) == a >= range.lor /\ a <= range.hir

\* pfr_prefix4::ispfxhit
IsPfxHit(a, range) == ToInt(a) >= range.lor /\ ToInt(a) <= range.hir

\* The masks the constructor of pfr_localnets may build.  For length 0 it shifts
\* 32 bits by 32, which is undefined: no bit is left, or all are.
Masks(len) == IF len = 0 THEN {0, Width} ELSE {Width - len}

Masked(a, mask) == a - (a % pow2[mask])

\* Mutant: the network is taken as written.
InNetworkAsWritten(a, net) == net.net = Masked(a, net.mask)

\* One turn of the loop of is_host_in_network.
InNetwork(a, net) == Masked(net.net, net.mask) = Masked(a, net.mask)

\* The reference: a is inside p when it has the first len bits of p.
Inside(a, p) == a \div pow2[Width - p.len] = p.addr \div pow2[Width - p.len]
=============================================================================
