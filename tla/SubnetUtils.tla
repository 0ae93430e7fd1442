----------------------------- MODULE SubnetUtils -----------------------------
(***************************************************************************)
(* From the address and the netmask of an interface to the hosts of a      *)
(* discovery: SubnetUtils.java, whose integers are signed and wrap, and    *)
(* the way networkInfo and HostDiscovery use it: getRange() in init(),     *)
(* isValid() and getRange(low, high) in start().  An address is a sequence *)
(* of octets, which is what its text says.                                 *)
(***************************************************************************)
EXTENDS Integers, Sequences, FiniteSets

CONSTANTS OctetBits,   \* bits of an octet (8)
          Octets       \* octets of an address (4)

ASSUME WidthAssumption == OctetBits \in Nat \ {0} /\ Octets \in Nat \ {0}

NBITS == OctetBits * Octets
Half == 2 ^ (NBITS - 1)

\* What ^ means to the proofs: no backend knows it.
ASSUME PowerAssumption == \A n \in 0 .. NBITS - 1 : 2 ^ (n + 1) = 2 * 2 ^ n

\* int: the sum or difference of two of them wraps once at most.
Signed == -Half .. Half - 1
Wrap(x) == IF x >= Half THEN x - 2 * Half ELSE IF x < -Half THEN x + 2 * Half ELSE x
Bits(x) == IF x < 0 THEN x + 2 * Half ELSE x   \* x as an unsigned number

Octet == 0 .. 2 ^ OctetBits - 1
Address == [1 .. Octets -> Octet]

\* matchAddress() and toArray().
ToInteger(address) ==
  LET packed[i \in 0 .. Octets] ==
        IF i = 0 THEN 0 ELSE (packed[i - 1] * 2 ^ OctetBits) + address[i]
  IN Wrap(packed[Octets])

ToArray(val) == [j \in 1 .. Octets |-> (Bits(val) \div 2 ^ (OctetBits * (Octets - j))) % 2 ^ OctetBits]

\* networkInfo.intToIp(): the DHCP server's integers have the first octet lowest.
IntToIp(i) == [j \in 1 .. Octets |-> (Bits(i) \div 2 ^ (OctetBits * (j - 1))) % 2 ^ OctetBits]

\* toCidrNotation(): the ones of the mask are counted, wherever they are.
Pop(x) == Cardinality({b \in 0 .. NBITS - 1 : (Bits(x) \div 2 ^ b) % 2 = 1})
Cidr(mask) == Pop(ToInteger(mask))

\* calculate(): the netmask has cidr ones from the top.
HostBits(cidr) == 2 ^ (NBITS - cidr)
Network(address, cidr) == LET a == Bits(ToInteger(address)) IN Wrap(a - (a % HostBits(cidr)))
\* Mutant of Broadcast: computed as a long.
BroadcastUnwrapped(address, cidr) == Bits(Network(address, cidr)) + HostBits(cidr) - 1

Broadcast(address, cidr) == Wrap(Bits(Network(address, cidr)) + HostBits(cidr) - 1)

-----------------------------------------------------------------------------
VARIABLES ip, subnet,          \* what the interface says
          network, broadcast,  \* of SubnetUtils
          addresses, add, j,   \* the array a loop fills, its variables
          limit,               \* high of getAllAddressess(low, high)
          possibleHosts,
          pc

info == <<ip, subnet, network, broadcast>>
vars == <<info, addresses, add, j, limit, possibleHosts, pc>>

Diff(a, b) == Wrap(a - b)
HasHosts == Diff(broadcast, network) > 1
Low == IF HasHosts THEN Wrap(network + 1) ELSE 0
\* Mutant of High: the broadcast address is counted in.
HighInclusive == IF HasHosts THEN broadcast ELSE 0

High == IF HasHosts THEN Wrap(broadcast - 1) ELSE 0
AddressCount == IF Diff(broadcast, network) < 1 THEN 0 ELSE Diff(broadcast, network) - 1

\* Mutant of IsInRange: the sign of the difference is not looked at.
IsInRangeUnchecked(a) == Diff(a, Low) <= Diff(High, Low)

IsInRange(a) == Diff(a, Low) >= 0 /\ Diff(a, Low) <= Diff(High, Low)

Unset == [k \in 1 .. Octets |-> 0]
NewArray(n) == [k \in 1 .. n |-> Unset]

\* calculate(), which refuses a mask without ones.
Calculate ==
  /\ pc = "new"
  /\ \/ /\ Cidr(subnet) \notin 1 .. NBITS
        /\ pc' = "thrown"
        /\ UNCHANGED <<network, broadcast>>
     \/ \E cidr \in {Cidr(subnet)} \cap 1 .. NBITS :
          /\ network' = Network(ip, cidr)
          /\ broadcast' = Broadcast(ip, cidr)
          /\ pc' = "init"
  /\ UNCHANGED <<ip, subnet, addresses, add, j, limit, possibleHosts>>

\* getRange(): a mask of ones is a case of its own.
GetRange ==
  /\ pc = "init"
  /\ \/ /\ \A k \in 1 .. Octets : subnet[k] = 2 ^ OctetBits - 1
        /\ possibleHosts' = <<ip>>
        /\ pc' = "start"
        /\ UNCHANGED <<addresses, add, j>>
     \/ /\ \E k \in 1 .. Octets : subnet[k] # 2 ^ OctetBits - 1
        /\ addresses' = NewArray(AddressCount)
        /\ add' = Low /\ j' = 0
        /\ pc' = "all"
        /\ UNCHANGED possibleHosts
  /\ UNCHANGED <<info, limit>>

\* Mutant of Assign: add stays.
AssignStuck ==
  /\ j < Len(addresses)
  /\ addresses' = [addresses EXCEPT ![j + 1] = ToArray(add)]
  /\ UNCHANGED <<add, j, pc>>

\* addresses[j] = format(toArray(add)); ++add; ++j
Assign ==
  \/ /\ j < Len(addresses)
     /\ addresses' = [addresses EXCEPT ![j + 1] = ToArray(add)]
     /\ add' = Wrap(add + 1) /\ j' = j + 1
     /\ UNCHANGED pc
  \/ /\ j >= Len(addresses)
     /\ pc' = "thrown"
     /\ UNCHANGED <<addresses, add, j>>

\* getAllAddresses()
AllAddresses ==
  /\ pc = "all" /\ add <= High
  /\ Assign
  /\ UNCHANGED <<info, limit, possibleHosts>>

\* Mutant of AllAddressesEnds: add < high().
AllAddressesEndsEarly ==
  /\ pc = "all" /\ add >= High
  /\ possibleHosts' = addresses
  /\ pc' = "start"
  /\ UNCHANGED <<info, addresses, add, j, limit>>

AllAddressesEnds ==
  /\ pc = "all" /\ add > High
  /\ possibleHosts' = addresses
  /\ pc' = "start"
  /\ UNCHANGED <<info, addresses, add, j, limit>>

\* start(), with the first and the last address as init() took them.
Start ==
  /\ pc = "start"
  /\ LET low == ToInteger(possibleHosts[1])
         high == ToInteger(possibleHosts[Len(possibleHosts)])
     IN \/ /\ IsInRange(low) /\ IsInRange(high)
           /\ addresses' = NewArray(Diff(high, low))
           /\ add' = low /\ j' = 0 /\ limit' = high
           /\ pc' = "between"
        \/ /\ ~(IsInRange(low) /\ IsInRange(high))
           /\ pc' = "invalid"
           /\ UNCHANGED <<addresses, add, j, limit>>
  /\ UNCHANGED <<info, possibleHosts>>

\* getAllAddressess(low, high)
AddressesBetween ==
  /\ pc = "between" /\ add < limit
  /\ Assign
  /\ UNCHANGED <<info, limit, possibleHosts>>

\* Mutant of AddressesBetweenEnds: add < high - 1.
AddressesBetweenEndsEarly ==
  /\ pc = "between" /\ add >= limit - 1
  /\ possibleHosts' = addresses
  /\ pc' = "ready"
  /\ UNCHANGED <<info, addresses, add, j, limit>>

AddressesBetweenEnds ==
  /\ pc = "between" /\ add >= limit
  /\ possibleHosts' = addresses
  /\ pc' = "ready"
  /\ UNCHANGED <<info, addresses, add, j, limit>>

Init ==
  /\ \E dhcp \in Signed : ip = IntToIp(dhcp)
  /\ subnet \in Address
  /\ network = 0 /\ broadcast = 0
  /\ addresses = <<>> /\ possibleHosts = <<>>
  /\ add = 0 /\ j = 0 /\ limit = 0
  /\ pc = "new"

Next == Calculate \/ GetRange \/ AllAddresses \/ AllAddressesEnds \/ Start \/ AddressesBetween
          \/ AddressesBetweenEnds

\* The calls run on the main thread to their end.
Spec == Init /\ [][Next]_vars /\ WF_vars(Next)

-----------------------------------------------------------------------------
TypeOK ==
  /\ ip \in Address /\ subnet \in Address
  /\ network \in Signed /\ broadcast \in Signed
  /\ addresses \in Seq(Address) /\ possibleHosts \in Seq(Address)
  /\ add \in Signed /\ j \in 0 .. Len(addresses) /\ limit \in Signed
  /\ pc \in {"new", "init", "all", "start", "between", "ready", "invalid", "thrown"}

\* The reference: the addresses with the leading bits of ip that the mask has
\* ones, but for the first and the last of them.
Subnet == LET size == HostBits(Cidr(subnet))
              prefix == Bits(ToInteger(ip)) \div size
          IN {a \in Signed : Bits(a) \div size = prefix}
Usable == LET S == Subnet
          IN {a \in S : /\ \E first \in S : Bits(first) < Bits(a)
                        /\ \E last \in S : Bits(last) > Bits(a)}
Ascending(s) == \A k \in 1 .. Len(s) - 1 : Bits(ToInteger(s[k])) < Bits(ToInteger(s[k + 1]))

\* getAllAddresses() returns the usable addresses of the subnet, each once and in
\* ascending order, on either side of the sign bit.
RangeIsUsable ==
  pc = "start" /\ Cidr(subnet) < NBITS =>
    /\ Ascending(possibleHosts)
    /\ {ToInteger(possibleHosts[k]) : k \in 1 .. Len(possibleHosts)} = Usable

\* A discovery is given the usable addresses but the highest, which is the range
\* the model of the discovery starts from; with a mask of ones there is none.
DiscoveryRange ==
  pc = "ready" =>
    /\ Ascending(possibleHosts)
    /\ {ToInteger(possibleHosts[k]) : k \in 1 .. Len(possibleHosts)} =
         {a \in Usable : \E b \in Usable : Bits(a) < Bits(b)}

\* isInRange() says which addresses can be used, although it compares signed
\* differences, in every subnet that has such addresses.
ValidIsUsable ==
  pc # "new" /\ Cidr(subnet) \in 1 .. NBITS - 2 => {a \in Signed : IsInRange(a)} = Usable

\* An exception comes of a mask without ones only, which is refused, and of one
\* host bit, where a loop runs over its array: there is no usable address.
ThrowsOnlyWithoutHosts == pc = "thrown" => Cidr(subnet) \in {0, NBITS - 1}

\* Both loops end, at whatever address the subnet ends.
RangeIsFound == <>(pc \in {"ready", "invalid", "thrown"})
=============================================================================
