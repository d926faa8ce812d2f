--------------------------- MODULE MCDoubleSpends ---------------------------
(***************************************************************************)
(* A chain "a" with a fork "b" at its start, a fork "c" of that fork, and  *)
(* two forks "d" and "e" further up, in files of several layouts; the      *)
(* number of a block is its height above the genesis block "g0".           *)
(***************************************************************************)
EXTENDS DoubleSpends

MCPrev == [b \in Blocks |->
    CASE b = "g0" -> ZeroHash
      [] b \in {"a1", "b1"} -> "g0"
      [] b = "a2" -> "a1"
      [] b \in {"b2", "c2"} -> "b1"
      [] b = "a3" -> "a2"
      [] b \in {"a4", "d4", "e4"} -> "a3"
      [] b = "a5" -> "a4"]

MCBlocks == {"g0", "a1", "a2", "a3", "a4", "a5", "b1", "b2", "c2", "d4", "e4"}

\* "k.." are the coinbases.
MCContents == [b \in Blocks |->
    CASE b = "g0" -> <<"kg">>
      [] b = "a1" -> <<"ka1", "pay">>
      [] b = "b1" -> <<"kb1", "both">>
      [] b = "a2" -> <<"ka2", "both">>
      [] b = "b2" -> <<"kb2", "steal", "spendkb">>
      [] b = "c2" -> <<"kc2", "alt">>
      [] b = "a3" -> <<"ka3">>
      [] b = "a4" -> <<"ka4", "buy">>
      [] b = "d4" -> <<"kd4", "resell">>
      [] b = "e4" -> <<"ke4", "odd">>
      [] b = "a5" -> <<"ka5">>]

Payments == {"pay", "both", "steal", "spendkb", "alt", "buy", "resell", "odd"}
MCTxs == UNION {ToSet(MCContents[b]) : b \in MCBlocks}

Out(t, n) == [tx |-> t, n |-> n]

MCInputs == [t \in Txs |->
    CASE t \in {"pay", "steal", "alt"} -> <<Out("kg", 0)>>
      [] t = "both" -> <<Out("kg", 1)>>
      [] t = "spendkb" -> <<Out("kb1", 0)>>
      [] t \in {"buy", "odd"} -> <<Out("kg", 2)>>
      [] t = "resell" -> <<Out("pay", 0), Out("kg", 2)>>
      [] OTHER -> <<>>]

MCWitness == [t \in Txs |->
    CASE t \in {"steal", "buy"} -> <<2>>
      [] t = "resell" -> <<0, 2>>
      [] OTHER -> <<>>]

-----------------------------------------------------------------------------
(* Scripts, each with whom it pays: keys and hashes of one repeated byte,  *)
(* among them the bytes that the classification looks for.                 *)

Bytes(n, byte) == [i \in 1..n |-> byte]

MCHash160 == [key \in Seq(0..255) |->
    [i \in 1..20 |-> (key[1] * 7 + Len(key) * i + Last(key)) % 256]]
MCSum == [bytes \in Seq(0..255) |->
    LET sum[i \in 0..Len(bytes)] ==
            IF i = 0 THEN 1 ELSE (sum[i - 1] * 7 + bytes[i]) % 256
    IN  [i \in 1..4 |-> (sum[Len(bytes)] * i) % 256]]

\* The shortest valid string of BIP 173, "A12UEL5L".
ASSUME KnownChecksum == VerifyChecksum(<<97>>, <<10, 28, 25, 31, 20, 31>>)

MCPrefix == <<118, 116, 99>>
KeyHash(hash) == <<"base58", 0, hash>>
KeysHash(key) == KeyHash(MCHash160[key])
ScriptHash(hash) == <<"base58", 5, hash>>
Program(program) == <<"bech32", MCPrefix, program>>

ToHash(byte) == [script |-> <<118, 169, 20>> \o Bytes(20, byte) \o <<136, 172>>,
                 payees |-> <<KeyHash(Bytes(20, byte))>>]
ToHashNop(byte) == [script |-> <<118, 169, 20>> \o Bytes(20, byte) \o <<136, 172, 97>>,
                    payees |-> <<KeyHash(Bytes(20, byte))>>]
ToKey(n, byte) == [script |-> <<n>> \o Bytes(n, byte) \o <<172>>,
                   payees |-> <<KeysHash(Bytes(n, byte))>>]
ToProgram(n, byte) == [script |-> <<0, n>> \o Bytes(n, byte),
                       payees |-> <<Program(Bytes(n, byte))>>]
ToScript(byte) == [script |-> <<169, 20>> \o Bytes(20, byte) \o <<135>>,
                   payees |-> <<ScriptHash(Bytes(20, byte))>>]
ToTwoKeys(m, n) == [script |-> <<81, m>> \o Bytes(m, 33) \o <<n>> \o Bytes(n, 174) \o <<82, 174>>,
                    payees |-> <<KeysHash(Bytes(m, 33)),
                                 KeysHash(Bytes(n, 174))>>]
ToNobody(data) == [script |-> <<106>> \o data, payees |-> <<>>]
Nonstandard == [script |-> <<118, 169, 0, 136, 172>>, payees |-> <<>>]

Paid == [t \in MCTxs |->
    CASE t = "kg" -> <<ToHash(1), ToHash(2), ToHash(3)>>
      [] t = "pay" -> <<ToHash(174), ToHashNop(97)>>
      [] t = "steal" -> <<ToProgram(20, 174), ToProgram(32, 174)>>
      [] t = "alt" -> <<ToScript(174), ToNobody(<<2, 174, 174>>)>>
      [] t = "buy" -> <<ToTwoKeys(33, 65), ToNobody(<<76, 174>>)>>
      [] t = "resell" -> <<ToKey(33, 172), ToKey(65, 65), ToTwoKeys(65, 65)>>
      [] t = "odd" -> <<Nonstandard>>
      [] OTHER -> <<ToHash(0)>>]

MCOutputs == [t \in Txs |-> [i \in DOMAIN Paid[t] |-> Paid[t][i].script]]
MCPayees == [t \in Txs |-> [i \in DOMAIN Paid[t] |-> Paid[t][i].payees]]

-----------------------------------------------------------------------------
In(first, second) == [f \in Files |-> IF f = "blk0" THEN first ELSE second]

\* In order of the chain; a fork first; backwards; a tie; blocks stored twice;
\* a branch that forks again; the genesis block alone.
MCLayouts == {
    In(<<"g0", "a1", "b1", "a2", "b2", "a3">>, <<"a4", "d4", "a5">>),
    In(<<"g0", "b1", "b2", "a1", "a2", "a3">>, <<"e4", "a4", "a5">>),
    In(<<"a3", "a2", "b2">>, <<"b1", "a1", "g0">>),
    In(<<"g0", "a1", "b1">>, <<"b2", "a2">>),
    In(<<"g0", "a1", "b1", "b2">>, <<"a1", "a2", "b1", "a3">>),
    In(<<"g0", "a1", "b1", "a2">>, <<"b2", "c2", "a3">>),
    In(<<"g0">>, <<>>)}

\* What the theorems about the report suppose of the daemon.
ASSUME DaemonAssumption == ValidSpends /\ WrittenOnce /\ ValidBlocks
=============================================================================
