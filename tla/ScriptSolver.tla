---------------------------- MODULE ScriptSolver ----------------------------
(***************************************************************************)
(* What an output script pays to (src/scriptsolver.cpp).  A script is its  *)
(* sequence of bytes, of which there are two at least; position p of the   *)
(* code is p + 1 here.                                                     *)
(***************************************************************************)
EXTENDS Addresses, TLC

\* A script of this size that has these bytes at these positions.
Is(script, size, bytes) ==
    Len(script) = size /\ \A p \in DOMAIN bytes : script[p] = bytes[p]

StartsWith(script, bytes) ==
    Len(script) >= Len(bytes) /\ SubSeq(script, 1, Len(bytes)) = bytes

\* The loop over a script that starts with OP_RETURN: pushes of at most 75
\* bytes and nothing else.  The last push may run past the end.
OnlyPushes(script) ==
    LET clean[p \in 1..(Len(script) + 76)] ==
            \/ p > Len(script)
            \/ script[p] \in 1..75 /\ clean[p + script[p] + 1]
    IN  clean[2]

isMultiSig(script) == script[Len(script)] = 174

P2PKH == 1          P2PK == 2           P2SH == 3
P2WPKH == 4         P2WSH == 5          NULLDATA == 6
MULTISIG == 7       P2CPK == 8          KNOWN_NONSTANDARD == 9
UNKNOWN == 255

\* The tests in the order of the code.  The names of the two witness kinds are
\* the code's: it is the program of 20 bytes that it calls P2WSH.
Tests(script) ==
    LET size == Len(script)
        hashes(n) == size = n /\ StartsWith(script, <<118, 169, 20>>)
    IN  <<<<P2PKH, \/ hashes(25) /\ script[24] = 136 /\ script[25] \in {172, 176}
                   \/ hashes(26) /\ SubSeq(script, 24, 26) = <<136, 172, 97>> >>,
          <<P2PK, Is(script, 67, 1 :> 65 @@ 67 :> 172)>>,
          <<P2CPK, Is(script, 35, 1 :> 33 @@ 35 :> 172)>>,
          <<P2WSH, Is(script, 22, 1 :> 0 @@ 2 :> 20)>>,
          <<P2WPKH, Is(script, 34, 1 :> 0 @@ 2 :> 32)>>,
          <<P2SH, Is(script, 23, 1 :> 169 @@ 2 :> 20 @@ 23 :> 135)>>,
          <<NULLDATA, script[1] = 106 /\ OnlyPushes(script)>>,
          <<UNKNOWN, script[1] = 106>>,
          <<MULTISIG, isMultiSig(script)>>,
          <<KNOWN_NONSTANDARD,
               \/ <<size, script[1]>> \in {<<33, 32>>, <<37, 36>>, <<24, 20>>}
               \/ script \in {<<115, 99, 114, 105, 112, 116>>, <<118, 169, 0, 136, 172>>}>>,
          <<UNKNOWN, TRUE>> >>

Fitting(script) == SelectSeq(Tests(script), LAMBDA test : test[2])

\* Mutant of getScriptType: the tests are made from the last one up.
TypeOfLastTest(script) ==
    LET fitting == Fitting(script)
    IN  IF Len(fitting) = 1 THEN UNKNOWN ELSE fitting[Len(fitting) - 1][1]

getScriptType(script) == Fitting(script)[1][1]

\* The keys of a multi-signature script, from position p: compressed or not,
\* up to the first byte that pushes neither.
KeysFrom(script) ==
    LET size == Len(script)
        keys[p \in 1..(size + 66)] ==
            IF p > size - 2 THEN <<>>
            ELSE IF script[p] = 33
                 THEN <<publicKeyToAddress(SubSeq(script, p + 1, p + 33))>> \o keys[p + 34]
            ELSE IF script[p] = 65
                 THEN <<publicKeyToAddress(SubSeq(script, p + 1, p + 65))>> \o keys[p + 66]
            ELSE <<>>
    IN  keys[2]

getAddressesFromScript(script) ==
    LET type == getScriptType(script)
    IN  CASE type = P2PKH -> <<ripeMD160ToAddress(p2pkhVersion, SubSeq(script, 4, 23))>>
          [] type = P2PK -> <<publicKeyToAddress(SubSeq(script, 2, 66))>>
          [] type = P2CPK -> <<publicKeyToAddress(SubSeq(script, 2, 34))>>
          [] type = P2WSH -> <<bech32Address(SubSeq(script, 3, 22))>>
          [] type = P2WPKH -> <<bech32Address(SubSeq(script, 3, 34))>>
          [] type = P2SH -> <<ripeMD160ToAddress(p2shVersion, SubSeq(script, 3, 22))>>
          [] type = MULTISIG -> KeysFrom(script)
          [] OTHER -> <<>>

\* getScriptTypeName looks the type up in a vector of nine names, which throws
\* for the last kind.
HasTypeName(script) == getScriptType(script) # KNOWN_NONSTANDARD
=============================================================================
