----------------------------- MODULE Addresses -----------------------------
(***************************************************************************)
(* How an address is written (src/utility.cpp, src/crypto/bech32.cpp).     *)
(* Bytes are numbers below 256.  A character is its place in the alphabet  *)
(* of its encoding.  Hash functions are parameters.                        *)
(***************************************************************************)
EXTENDS Integers, Sequences, FiniteSets, SequencesExt

CONSTANTS
    p2pkhVersion, p2shVersion,  \* the version bytes of the coin
    bech32Prefix,               \* its prefix: a sequence of character codes
    Hash160,                    \* the function ripeMD160(sha256(bytes))
    Sum                         \* the first 4 bytes of sha256(sha256(bytes))

-----------------------------------------------------------------------------
(* Base 58.                                                                *)

LeadingZeros(bytes) ==
    Cardinality({i \in DOMAIN bytes : \A j \in 1..i : bytes[j] = 0})

Without(n, list) == SubSeq(list, n + 1, Len(list))

\* digits * from + d, where the digits are of base to; it has two digits more,
\* since from and d are below the square of to.
TimesPlus(digits, from, to, d) ==
    LET n[i \in DOMAIN digits] ==
            from * digits[i] + IF i = Len(digits) THEN d ELSE n[i + 1] \div to
        carry == n[1] \div to
    IN  <<carry \div to, carry % to>> \o [i \in DOMAIN digits |-> n[i] % to]

\* A number in base from, in base to.
Converted(list, from, to) ==
    LET digits[i \in 0..Len(list)] ==
            IF i = 0 THEN <<0>> ELSE TimesPlus(digits[i - 1], from, to, list[i])
    IN  digits[Len(list)]

\* The code makes room for so many digits, and asserts that they are enough.
Room(n) == (n * 138) \div 100 + 1

base58(bytes) ==
    LET zeros == LeadingZeros(bytes)
        all == Converted(Without(zeros, bytes), 256, 58)
        digits == Without(Len(all) - Room(Len(bytes) - zeros), all)
    IN  [prefix |-> <<>>,
         data |-> [i \in 1..zeros |-> 0] \o Without(LeadingZeros(digits), digits)]

ripeMD160ToAddress(version, hash) ==
    base58(<<version>> \o hash \o Sum[<<version>> \o hash])

publicKeyToAddress(key) == ripeMD160ToAddress(p2pkhVersion, Hash160[key])

-----------------------------------------------------------------------------
(* Bech32.                                                                 *)

\* Groups of 5 bits from groups of 8, the last one filled up with zeros; the
\* accumulator has 12 bits.
convertbits(bytes) ==
    LET read[i \in 0..Len(bytes)] ==
            IF i = 0 THEN [acc |-> 0, bits |-> 0, out |-> <<>>]
            ELSE LET before == read[i - 1]
                     acc == (before.acc * 256 + bytes[i]) % 4096
                     bits == before.bits + 8
                     groups == bits \div 5
                 IN  [acc |-> acc, bits |-> bits - 5 * groups,
                      out |-> before.out \o [g \in 1..groups |->
                                                (acc \div 2^(bits - 5 * g)) % 32]]
        all == read[Len(bytes)]
    IN  IF all.bits = 0 THEN all.out
        ELSE Append(all.out, (all.acc * 2^(5 - all.bits)) % 32)

\* A 30-bit number as the set of its bits, where exclusive or is the symmetric
\* difference.
Bits(n) == {i \in 0..29 : (n \div 2^i) % 2 = 1}
Xor(S, T) == (S \ T) \cup (T \ S)

\* The multiples of the generator by the bits that leave the number.
Generator == [i \in 25..29 |->
    Bits(CASE i = 25 -> 996825010 [] i = 26 -> 642813549 [] i = 27 -> 513874426
           [] i = 28 -> 1027748829 [] i = 29 -> 705979059)]

PolyMod(values) ==
    LET c[i \in 0..Len(values)] ==
            IF i = 0 THEN Bits(1)
            ELSE LET old == c[i - 1]
                     shifted == {b + 5 : b \in old \cap (0..24)}
                     out == {b \in 0..29 :
                               Cardinality({g \in old \cap (25..29) : b \in Generator[g]}) % 2 = 1}
                 IN  Xor(Xor(shifted, Bits(values[i])), out)
    IN  c[Len(values)]

ExpandHRP(hrp) ==
    [i \in DOMAIN hrp |-> hrp[i] \div 32] \o <<0>> \o [i \in DOMAIN hrp |-> hrp[i] % 32]

CreateChecksum(hrp, values) ==
    LET mod == Xor(PolyMod(ExpandHRP(hrp) \o values \o <<0, 0, 0, 0, 0, 0>>), Bits(1))
        bit(n) == IF n \in mod THEN 1 ELSE 0
        group(g) == 5 * (6 - g)
    IN  [g \in 1..6 |-> bit(group(g)) + 2 * bit(group(g) + 1) + 4 * bit(group(g) + 2)
                        + 8 * bit(group(g) + 3) + 16 * bit(group(g) + 4)]

VerifyChecksum(hrp, values) == PolyMod(ExpandHRP(hrp) \o values) = Bits(1)

\* The witness version is 0.
bech32Address(program) ==
    LET values == <<0>> \o convertbits(program)
    IN  [prefix |-> bech32Prefix, data |-> values \o CreateChecksum(bech32Prefix, values)]

-----------------------------------------------------------------------------
(* The reference: what an address says to a wallet that reads it.          *)

Unbase58(digits) ==
    LET zeros == LeadingZeros(digits)
        bytes == Converted(Without(zeros, digits), 58, 256)
    IN  [i \in 1..zeros |-> 0] \o Without(LeadingZeros(bytes), bytes)

\* The bit at place p of a sequence of groups of w bits.
BitAt(groups, w, p) == (groups[p \div w + 1] \div 2^(w - 1 - (p % w))) % 2

BytesOf(groups) ==
    [i \in 1..((5 * Len(groups)) \div 8) |->
        LET bit(k) == BitAt(groups, 5, 8 * (i - 1) + k)
        IN  128 * bit(0) + 64 * bit(1) + 32 * bit(2) + 16 * bit(3)
            + 8 * bit(4) + 4 * bit(5) + 2 * bit(6) + bit(7)]

Bad == <<"bad">>

\* Version and hash, if the checksum is that of both.
ReadBase58(address) ==
    LET bytes == Unbase58(address.data)
        body == SubSeq(bytes, 1, Len(bytes) - 4)
    IN  IF Len(bytes) = 25 /\ bytes = body \o Sum[body]
        THEN <<"base58", bytes[1], Tail(body)>> ELSE Bad

\* The program, if the checksum and the unused bits are as they must be.
ReadBech32(address) ==
    LET groups == SubSeq(address.data, 2, Len(address.data) - 6)
        bytes == BytesOf(groups)
    IN  IF /\ address.data[1] = 0
           /\ VerifyChecksum(address.prefix, address.data)
           /\ \A p \in (8 * Len(bytes))..(5 * Len(groups) - 1) : BitAt(groups, 5, p) = 0
        THEN <<"bech32", address.prefix, bytes>> ELSE Bad

ReadAddress(address) ==
    IF address.prefix = <<>> THEN ReadBase58(address) ELSE ReadBech32(address)
=============================================================================
