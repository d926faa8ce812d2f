-------------------------- MODULE BlockFilesProofs --------------------------
(***************************************************************************)
(* Theorems about BlockFiles: the scan finds every block where it is, and  *)
(* readBlock reads each found block back as it was written, for any        *)
(* blocks, transactions and files, and any moment at which the daemon      *)
(* writes on.                                                              *)
(***************************************************************************)
EXTENDS BlockFiles, CommonLemmas

-----------------------------------------------------------------------------
(* What stands in the files: tokens.                                       *)

Outpoint == [tx : Txs, n : Nat]
WitnessItem == [kind |-> "witness"]
InputToken(o, t) == [kind |-> "input", from |-> o, by |-> t]
OutputToken(s) == [kind |-> "output", script |-> s]

Token == {Magic, WitnessItem}
         \cup {Number(n) : n \in Nat} \cup {Header(b) : b \in Blocks}
         \cup {InputToken(o, t) : o \in Outpoint \cup {ZeroHash}, t \in Txs}
         \cup {OutputToken(s) : s \in Seq(0..255)}

OutputTokens(t) == [i \in DOMAIN Outputs[t] |-> OutputToken(Outputs[t][i])]

\* What the tokens are.
LEMMA TokensAre ==
    /\ Magic \in Token /\ WitnessItem \in Token
    /\ \A n \in Nat : Number(n) \in Token
    /\ \A b \in Blocks : Header(b) \in Token
    /\ \A o \in Outpoint \cup {ZeroHash}, t \in Txs : InputToken(o, t) \in Token
    /\ \A s \in Seq(0..255) : OutputToken(s) \in Token
BY DEF Token

\* Tokens of different kinds differ, and name what they are made from.
LEMMA Kinds ==
    /\ \A n : Number(n).kind = "number" /\ Number(n).n = n
    /\ \A b : Header(b).kind = "header" /\ Header(b).block = b
    /\ \A n, b : Number(n) # Magic /\ Header(b) # Magic
    /\ \A o, t : InputToken(o, t).kind = "input" /\ InputToken(o, t).by = t
    /\ \A x \in Token : x.kind = "header" => x.block \in Blocks /\ x = Header(x.block)
<1>1. /\ \A n : Number(n).kind = "number" /\ Number(n).n = n
      /\ \A b : Header(b).kind = "header" /\ Header(b).block = b
      /\ \A o, t : InputToken(o, t).kind = "input" /\ InputToken(o, t).by = t
      /\ \A s : OutputToken(s).kind = "output"
      /\ Magic.kind = "magic" /\ WitnessItem.kind = "witness"
  BY DEF Number, Header, InputToken, OutputToken, Magic, WitnessItem
<1>2. \A x \in Token : x.kind = "header" => \E b \in Blocks : x = Header(b)
  BY <1>1 DEF Token
<1> QED
  BY <1>1, <1>2

\* The input tokens of a transaction name it, and there is one at least.
LEMMA InputTokensAre ==
    ASSUME NEW t \in Txs
    PROVE  /\ InputTokens(t) \in Seq(Token) /\ Len(InputTokens(t)) \in Nat \ {0}
           /\ \A i \in 1..Len(InputTokens(t)) : InputTokens(t)[i].by = t
           /\ Inputs[t] # <<>> => Len(InputTokens(t)) = Len(Inputs[t])
<1>1. Inputs[t] \in Seq(Outpoint)
  BY FilesAssumption DEF Outpoint
<1>2. CASE Inputs[t] = <<>>
  <2>1. InputTokens(t) = <<InputToken(ZeroHash, t)>>
    BY <1>2 DEF InputTokens, InputToken
  <2>2. InputToken(ZeroHash, t) \in Token /\ InputToken(ZeroHash, t).by = t
    BY TokensAre, Kinds
  <2> HIDE DEF Token
  <2> QED
    BY <1>2, <2>1, <2>2
<1>3. CASE Inputs[t] # <<>>
  <2> DEFINE n == Len(Inputs[t])
  <2>1. n \in Nat \ {0} /\ DOMAIN Inputs[t] = 1..n /\ \A i \in 1..n : Inputs[t][i] \in Outpoint
    BY <1>1, <1>3
  <2>2. InputTokens(t) = [i \in 1..n |-> InputToken(Inputs[t][i], t)]
    BY <1>3, <2>1 DEF InputTokens, InputToken
  <2>3. \A i \in 1..n : /\ InputToken(Inputs[t][i], t) \in Token
                        /\ InputToken(Inputs[t][i], t).by = t
    BY <2>1, TokensAre, Kinds
  <2> HIDE DEF n
  <2> QED
    BY <2>1, <2>2, <2>3 DEF n
<1> QED
  BY <1>2, <1>3

\* There is a token for each output.
LEMMA OutputTokensAre ==
    ASSUME NEW t \in Txs
    PROVE  /\ OutputTokens(t) \in Seq(Token)
           /\ Len(OutputTokens(t)) = Len(Outputs[t]) /\ Len(Outputs[t]) \in Nat
           /\ DOMAIN Outputs[t] = 1..Len(Outputs[t])
<1>1. Outputs[t] \in Seq(Seq(0..255))
  BY FilesAssumption
<1> DEFINE n == Len(Outputs[t])
           S == Seq(0..255)
<1>2. n \in Nat /\ DOMAIN Outputs[t] = 1..n /\ \A i \in 1..n : Outputs[t][i] \in S
  <2> HIDE DEF S
  <2> QED
    BY <1>1 DEF S
<1>3. \A i \in 1..n : OutputToken(Outputs[t][i]) \in Token
  BY <1>2, TokensAre
<1>4. OutputTokens(t) = [i \in 1..n |-> OutputToken(Outputs[t][i])]
  BY <1>2 DEF OutputTokens
<1> HIDE DEF n
<1> QED
  BY <1>2, <1>3, <1>4 DEF n

\* A sequence of one member.
LEMMA One ==
    ASSUME NEW S, NEW x \in S
    PROVE  <<x>> \in Seq(S) /\ Len(<<x>>) = 1 /\ <<x>>[1] = x
OBVIOUS

Ins(t) == Len(InputTokens(t))
Outs(t) == Len(Outputs[t])

\* Number of inputs, inputs, number of outputs, outputs.
LEMMA InsAndOutsAre ==
    ASSUME NEW t \in Txs
    PROVE  /\ Ins(t) \in Nat \ {0} /\ Outs(t) \in Nat
           /\ InsAndOuts(t) \in Seq(Token) /\ Len(InsAndOuts(t)) = Ins(t) + Outs(t) + 2
           /\ InsAndOuts(t)[1] = Number(Ins(t))
           /\ InsAndOuts(t)[Ins(t) + 2] = Number(Outs(t))
           /\ \A i \in 1..Ins(t) : InsAndOuts(t)[i + 1] = InputTokens(t)[i]
           /\ \A i \in 1..Outs(t) : InsAndOuts(t)[Ins(t) + 2 + i] = OutputTokens(t)[i]
<1> DEFINE n == Ins(t)
           m == Outs(t)
<1>0. n \in Nat \ {0} /\ m \in Nat
  BY InputTokensAre, OutputTokensAre DEF Ins, Outs
<1> DEFINE a == <<Number(n)>>
           b == InputTokens(t)
           c == <<Number(m)>>
           d == OutputTokens(t)
<1>1. /\ a \in Seq(Token) /\ Len(a) = 1 /\ a[1] = Number(n)
      /\ c \in Seq(Token) /\ Len(c) = 1 /\ c[1] = Number(m)
  BY <1>0, TokensAre, One
<1>2. /\ b \in Seq(Token) /\ d \in Seq(Token) /\ n \in Nat /\ m \in Nat /\ Len(d) = m /\ Len(b) = n
  BY <1>0, InputTokensAre, OutputTokensAre DEF Ins, Outs
<1>3. InsAndOuts(t) = ((a \o b) \o c) \o d
  BY DEF InsAndOuts, OutputTokens, OutputToken, Ins, Outs
<1> HIDE DEF a, b, c, d, n, m, Token
<1> DEFINE s == InsAndOuts(t)
<1>4. /\ s \in Seq(Token) /\ Len(s) = Len(a) + Len(b) + Len(c) + Len(d)
      /\ \A i \in 1..Len(a) : s[i] = a[i]
      /\ \A i \in 1..Len(b) : s[Len(a) + i] = b[i]
      /\ \A i \in 1..Len(c) : s[Len(a) + Len(b) + i] = c[i]
      /\ \A i \in 1..Len(d) : s[Len(a) + Len(b) + Len(c) + i] = d[i]
  <2>1. /\ a \in Seq(Token) /\ b \in Seq(Token) /\ c \in Seq(Token) /\ d \in Seq(Token)
        /\ s = ((a \o b) \o c) \o d
    BY <1>1, <1>2, <1>3
  <2> QED
    BY <2>1, Concat4, SMTT(60)
<1> HIDE DEF s
<1>5. Len(s) = n + m + 2 /\ 1 + n + 1 = n + 2 /\ \A i \in 1..n : 1 + i = i + 1
  BY <1>0, <1>1, <1>2, <1>4
<1>6. s[1] = Number(n) /\ s[1 + n + 1] = Number(m)
  BY <1>0, <1>1, <1>2, <1>4
<1>7. \A i \in 1..n : s[i + 1] = b[i]
  BY <1>0, <1>1, <1>2, <1>4, <1>5
<1>8. \A i \in 1..m : s[1 + n + 1 + i] = d[i]
  BY <1>0, <1>1, <1>2, <1>4
<1>9. \A i \in 1..m : s[n + 2 + i] = d[i]
  BY <1>0, <1>5, <1>8
<1> QED
  BY <1>0, <1>4, <1>5, <1>6, <1>7, <1>9 DEF b, d, n, m, s

-----------------------------------------------------------------------------
(* A transaction in the file.                                              *)

\* The transaction without its witnesses, from which its hash is taken, names
\* it.
LEMMA StrippedIs ==
    ASSUME NEW t \in Txs
    PROVE  /\ Stripped[t] = (<<Version>> \o InsAndOuts(t)) \o <<LockTime>>
           /\ Stripped[t] \in Seq(Token) /\ Stripped[t][3].by = t
<1> DEFINE a == <<Version>>
           b == InsAndOuts(t)
           c == <<LockTime>>
           n == Ins(t)
<1>1. Version \in Token /\ LockTime \in Token
  BY TokensAre DEF Version, LockTime
<1>2. a \in Seq(Token) /\ Len(a) = 1 /\ c \in Seq(Token) /\ Len(c) = 1
  <2> HIDE DEF Token
  <2> QED
    BY <1>1
<1>3. /\ b \in Seq(Token) /\ Len(b) = n + Outs(t) + 2
      /\ n \in Nat \ {0} /\ Outs(t) \in Nat
      /\ \A i \in 1..n : b[i + 1] = InputTokens(t)[i]
  BY InsAndOutsAre
<1>4. Stripped[t] = (a \o b) \o c
  BY DEF Stripped
<1> HIDE DEF a, b, c, n
<1> DEFINE ab == a \o b
<1>5. ab \in Seq(Token)
  <2>1. a \in Seq(Token) /\ b \in Seq(Token)
    BY <1>2, <1>3
  <2> QED
    BY <2>1, Concat
<1>6. Len(ab) = Len(a) + Len(b) /\ \A i \in 1..Len(b) : ab[Len(a) + i] = b[i]
  <2>1. a \in Seq(Token) /\ b \in Seq(Token)
    BY <1>2, <1>3
  <2> QED
    BY <2>1, Concat
<1> HIDE DEF ab
<1>7. ab \o c \in Seq(Token) /\ \A i \in 1..Len(ab) : (ab \o c)[i] = ab[i]
  <2>1. c \in Seq(Token)
    BY <1>2
  <2> QED
    BY <1>5, <2>1, Concat
<1>8. (ab \o c)[3].by = t
  <2>1. 2 \in 1..Len(b) /\ 3 \in 1..Len(ab) /\ 1 \in 1..n /\ Len(a) + 2 = 3 /\ 1 + 1 = 2
    BY <1>2, <1>3, <1>6
  <2>2. (ab \o c)[3] = InputTokens(t)[1]
    BY <1>3, <1>6, <1>7, <2>1
  <2>3. 1 \in 1..Len(InputTokens(t))
    BY <2>1 DEF n, Ins
  <2> QED
    BY <2>2, <2>3, InputTokensAre
<1> QED
  BY <1>4, <1>7, <1>8 DEF ab, a, b, c

\* The hash of what a transaction is without its witnesses is its name.
LEMMA HashOfStripped ==
    ASSUME NEW t \in Txs
    PROVE  HashOf(Stripped[t]) = t
<1>1. DOMAIN Stripped = Txs
  BY DEF Stripped
<1>2. Stripped[t] \in Range(Stripped)
  BY <1>1 DEF Range
<1>3. \A u \in Txs : Stripped[u] = Stripped[t] => u = t
  BY StrippedIs
<1> QED
  BY <1>2, <1>3 DEF HashOf

\* What comes before the inputs and after the outputs.
Lead(t) == IF Witness[t] = <<>> THEN <<Version>> ELSE <<Version, Number(0), Number(1)>>
WitnessLists(t) == [i \in DOMAIN Witness[t] |-> WitnessItems(Witness[t][i])]
Wits(t) == FlattenSeq(WitnessLists(t))

\* The witness of an input: how many items it has, and the items.
LEMMA WitnessItemsAre ==
    ASSUME NEW n \in Nat
    PROVE  /\ WitnessItems(n) \in Seq(Token) /\ Len(WitnessItems(n)) = n + 1
           /\ WitnessItems(n)[1] = Number(n)
<1> DEFINE a == <<Number(n)>>
           b == [i \in 1..n |-> WitnessItem]
<1>1. a \in Seq(Token) /\ Len(a) = 1 /\ a[1] = Number(n)
  BY TokensAre, One
<1>2. b \in Seq(Token) /\ Len(b) = n
  <2>1. WitnessItem \in Token
    BY TokensAre
  <2> HIDE DEF Token
  <2> QED
    BY <2>1
<1>3. WitnessItems(n) = a \o b
  BY DEF WitnessItems, WitnessItem
<1> HIDE DEF a, b
<1>4. /\ a \o b \in Seq(Token) /\ Len(a \o b) = Len(a) + Len(b)
      /\ \A i \in 1..Len(a) : (a \o b)[i] = a[i]
  BY <1>1, <1>2, Concat
<1> QED
  BY <1>1, <1>2, <1>3, <1>4

\* There is a witness for each input, if there are any.
LEMMA WitnessListsAre ==
    ASSUME NEW t \in Txs
    PROVE  /\ Witness[t] \in Seq(Nat) /\ Len(Witness[t]) \in Nat
           /\ WitnessLists(t) \in Seq(Seq(Token)) /\ Len(WitnessLists(t)) = Len(Witness[t])
           /\ \A i \in 1..Len(Witness[t]) :
                 /\ Witness[t][i] \in Nat
                 /\ WitnessLists(t)[i] = WitnessItems(Witness[t][i])
           /\ Wits(t) \in Seq(Token) /\ Len(Wits(t)) \in Nat
           /\ Witness[t] = <<>> => Wits(t) = <<>>
<1> DEFINE n == Len(Witness[t])
           ss == WitnessLists(t)
<1>1. Witness[t] \in Seq(Nat)
  BY FilesAssumption
<1>2. n \in Nat /\ DOMAIN Witness[t] = 1..n /\ \A i \in 1..n : Witness[t][i] \in Nat
  BY <1>1
<1>3. \A i \in 1..n : WitnessItems(Witness[t][i]) \in Seq(Token)
  BY <1>2, WitnessItemsAre
<1>4. ss = [i \in 1..n |-> WitnessItems(Witness[t][i])]
  BY <1>2 DEF WitnessLists
<1> HIDE DEF n, ss, Token
<1>5. ss \in Seq(Seq(Token)) /\ Len(ss) = n /\ \A i \in 1..n : ss[i] = WitnessItems(Witness[t][i])
  BY <1>2, <1>3, <1>4
<1>6. FlattenSeq(ss) \in Seq(Token)
  <2>1. 0 \in 0..Len(ss) /\ Len(ss) \in 0..Len(ss)
    BY <1>2, <1>5
  <2> QED
    BY <1>5, <2>1, JoinedSteps
<1>7. ASSUME Witness[t] = <<>> PROVE FlattenSeq(ss) = <<>>
  <2>1. Len(ss) = 0
    BY <1>5, <1>7 DEF n
  <2> QED
    BY <1>5, <2>1, JoinedSteps
<1> QED
  BY <1>1, <1>2, <1>5, <1>6, <1>7, LenProperties DEF n, ss, Wits

\* What stands before the inputs: the version, and the marker and flag of
\* witnesses.
LEMMA LeadIs ==
    ASSUME NEW t \in Txs
    PROVE  /\ Lead(t) \in Seq(Token)
           /\ Len(Lead(t)) = IF Witness[t] = <<>> THEN 1 ELSE 3
           /\ Lead(t)[1] = Version
           /\ Witness[t] # <<>> => Lead(t)[2] = Number(0) /\ Lead(t)[3] = Number(1)
<1>1. Version \in Token /\ Number(0) \in Token /\ Number(1) \in Token
  BY TokensAre DEF Version
<1> HIDE DEF Token
<1> QED
  BY <1>1 DEF Lead

\* The parts of a serialized transaction, one after the other.
LEMMA SerializedIs ==
    ASSUME NEW t \in Txs, NEW s, s = Serialized(t)
    PROVE  /\ s \in Seq(Token) /\ Len(s) = Len(Lead(t)) + Len(InsAndOuts(t)) + Len(Wits(t)) + 1
           /\ \A i \in 1..Len(Lead(t)) : s[i] = Lead(t)[i]
           /\ \A i \in 1..Len(InsAndOuts(t)) : s[Len(Lead(t)) + i] = InsAndOuts(t)[i]
           /\ \A i \in 1..Len(Wits(t)) :
                 s[Len(Lead(t)) + Len(InsAndOuts(t)) + i] = Wits(t)[i]
           /\ s[Len(Lead(t)) + Len(InsAndOuts(t)) + Len(Wits(t)) + 1] = LockTime
<1> DEFINE a == Lead(t)
           b == InsAndOuts(t)
           c == Wits(t)
           d == <<LockTime>>
<1>1. a \in Seq(Token) /\ b \in Seq(Token) /\ c \in Seq(Token)
  BY LeadIs, InsAndOutsAre, WitnessListsAre
<1>2. d \in Seq(Token) /\ Len(d) = 1 /\ d[1] = LockTime
  BY TokensAre, One DEF LockTime
<1>3. s = ((a \o b) \o c) \o d
  <2>1. CASE Witness[t] = <<>>
    <3>1. s = (a \o b) \o d
      BY <2>1, StrippedIs DEF Serialized, Lead
    <3>2. c = <<>>
      BY <2>1, WitnessListsAre
    <3>3. a \o b \in Seq(Token)
      BY <1>1, Concat
    <3> HIDE DEF a, b, c, d
    <3>4. (a \o b) \o <<>> = a \o b
      BY <3>3, ConcatEmptySeq
    <3> QED
      BY <3>1, <3>2, <3>4
  <2>2. CASE Witness[t] # <<>>
    BY <2>2 DEF Serialized, Lead, Wits, WitnessLists
  <2> QED
    BY <2>1, <2>2
<1> HIDE DEF a, b, c, d
<1>4. /\ s \in Seq(Token) /\ Len(s) = Len(a) + Len(b) + Len(c) + Len(d)
      /\ \A i \in 1..Len(a) : s[i] = a[i]
      /\ \A i \in 1..Len(b) : s[Len(a) + i] = b[i]
      /\ \A i \in 1..Len(c) : s[Len(a) + Len(b) + i] = c[i]
      /\ \A i \in 1..Len(d) : s[Len(a) + Len(b) + Len(c) + i] = d[i]
  <2>1. d \in Seq(Token)
    BY <1>2
  <2> QED
    BY <1>1, <1>3, <2>1, Concat4
<1>5. 1 \in 1..Len(d)
  BY <1>2
<1> QED
  BY <1>2, <1>4, <1>5 DEF a, b, c, d

-----------------------------------------------------------------------------
(* A block in the file.                                                    *)

BodyLists(b) == [i \in DOMAIN Contents[b] |-> Serialized(Contents[b][i])]

\* There is a serialized transaction for each one of a block.
LEMMA BodyListsAre ==
    ASSUME NEW b \in Blocks
    PROVE  /\ BodyLists(b) \in Seq(Seq(Token)) /\ Len(BodyLists(b)) = Len(Contents[b])
           /\ Len(Contents[b]) \in Nat \ {0} /\ DOMAIN Contents[b] = 1..Len(Contents[b])
           /\ \A i \in 1..Len(Contents[b]) :
                 Contents[b][i] \in Txs /\ BodyLists(b)[i] = Serialized(Contents[b][i])
<1> DEFINE n == Len(Contents[b])
<1>1. Contents[b] \in Seq(Txs) /\ Contents[b] # <<>>
  BY FilesAssumption
<1>2. n \in Nat \ {0} /\ DOMAIN Contents[b] = 1..n /\ \A i \in 1..n : Contents[b][i] \in Txs
  BY <1>1
<1>3. \A i \in 1..n : Serialized(Contents[b][i]) \in Seq(Token)
  BY <1>2, SerializedIs
<1>4. BodyLists(b) = [i \in 1..n |-> Serialized(Contents[b][i])]
  BY <1>2 DEF BodyLists
<1> HIDE DEF n, Token
<1> QED
  BY <1>2, <1>3, <1>4 DEF n

\* The number of transactions, and these.
LEMMA BodyIs ==
    ASSUME NEW b \in Blocks
    PROVE  /\ Body(b) \in Seq(Token) /\ FlattenSeq(BodyLists(b)) \in Seq(Token)
           /\ Len(Body(b)) = Len(FlattenSeq(BodyLists(b))) + 1
           /\ Len(FlattenSeq(BodyLists(b))) \in Nat
           /\ Body(b)[1] = Number(Len(Contents[b]))
           /\ \A i \in 1..Len(FlattenSeq(BodyLists(b))) :
                 Body(b)[i + 1] = FlattenSeq(BodyLists(b))[i]
<1> DEFINE a == <<Number(Len(Contents[b]))>>
           c == FlattenSeq(BodyLists(b))
<1>1. a \in Seq(Token) /\ Len(a) = 1 /\ a[1] = Number(Len(Contents[b]))
  BY BodyListsAre, TokensAre, One
<1>2. c \in Seq(Token)
  <2>1. BodyLists(b) \in Seq(Seq(Token)) /\ 1 \in 1..Len(BodyLists(b))
    BY BodyListsAre
  <2> HIDE DEF Token
  <2> QED
    BY <2>1, FlattenPlaces
<1>3. Body(b) = a \o c
  BY DEF Body, BodyLists
<1> HIDE DEF a, c
<1>4. a \in Seq(Token)
  BY <1>1
<1>5. /\ a \o c \in Seq(Token) /\ Len(a \o c) = Len(a) + Len(c) /\ Len(c) \in Nat
      /\ \A i \in 1..Len(a) : (a \o c)[i] = a[i]
      /\ \A i \in 1..Len(c) : (a \o c)[Len(a) + i] = c[i]
  BY <1>2, <1>4, Concat
<1>6. 1 \in 1..Len(a) /\ \A i \in 1..Len(c) : Len(a) + i = i + 1
  BY <1>1, <1>5
<1>7. Len(Body(b)) = Len(c) + 1
  BY <1>1, <1>3, <1>5
<1> QED
  BY <1>1, <1>2, <1>3, <1>5, <1>6, <1>7 DEF c

\* How long the body is when the first transaction is written.
FirstPart(b) == 1 + Len(Serialized(Contents[b][1]))

\* The four parts in which the daemon writes a block.
LEMMA PartsAre ==
    ASSUME NEW b \in Blocks
    PROVE  /\ FirstPart(b) \in 1..Len(Body(b))
           /\ Parts(b) \in Seq(Seq(Token)) /\ Len(Parts(b)) = 4
           /\ Parts(b)[1] = <<Magic, Number(1 + Len(Body(b)))>>
           /\ Parts(b)[2] = <<Header(b)>>
           /\ Parts(b)[3] = SubSeq(Body(b), 1, FirstPart(b))
           /\ Parts(b)[4] = SubSeq(Body(b), FirstPart(b) + 1, Len(Body(b)))
<1> DEFINE ss == BodyLists(b)
           n == Len(FlattenSeq(ss))
           f == FirstPart(b)
           body == Body(b)
           k == Len(Serialized(Contents[b][1]))
<1>1. f \in 1..Len(body) /\ Len(body) \in Nat
  <2>1. /\ ss \in Seq(Seq(Token)) /\ 1 \in 1..Len(ss) /\ ss[1] = Serialized(Contents[b][1])
    BY BodyListsAre
  <2>2. Len(body) = n + 1 /\ n \in Nat
    BY BodyIs
  <2>3. PICK l : l = 1
    OBVIOUS
  <2> HIDE DEF ss, body, n, Token
  <2>8. l - 1 = 0
    BY <2>3
  <2>9. ss \in Seq(Seq(Token))
    BY <2>1
  <2>4. l - 1 = 0 /\ Joined(ss, 0) = <<>>
    BY <2>8, <2>9, JoinedSteps
  <2>5. /\ Len(ss[l]) \in Nat /\ Len(Joined(ss, l)) = Len(Joined(ss, l - 1)) + Len(ss[l])
        /\ Len(Joined(ss, l)) <= Len(FlattenSeq(ss))
    BY <2>1, <2>3, FlattenPlaces
  <2>6. k \in Nat /\ k <= n
    BY <2>1, <2>3, <2>4, <2>5 DEF n
  <2> HIDE DEF k
  <2>7. f = 1 + k
    BY DEF f, FirstPart, k
  <2> QED
    BY <2>2, <2>6, <2>7
<1>2. body \in Seq(Token) /\ \A i \in 1..Len(body) : body[i] \in Token
  <2>1. body \in Seq(Token)
    BY BodyIs
  <2> HIDE DEF Token
  <2> QED
    BY <2>1, ElementOfSeq
<1> DEFINE p == <<Magic, Number(1 + Len(body))>>
           q == <<Header(b)>>
           r == SubSeq(body, 1, f)
           s == SubSeq(body, f + 1, Len(body))
<1>3. p \in Seq(Token) /\ q \in Seq(Token)
  <2>1. Magic \in Token /\ Number(1 + Len(body)) \in Token /\ Header(b) \in Token
    BY <1>1, TokensAre
  <2> HIDE DEF Token, body
  <2> QED
    BY <2>1
<1>4. r \in Seq(Token) /\ s \in Seq(Token)
  <2> HIDE DEF body, f, Token
  <2> QED
    BY <1>1, <1>2, SubSeqProperties
<1>5. Parts(b) = <<p, q, r, s>>
  BY DEF Parts, FirstPart
<1> HIDE DEF p, q, r, s, Token
<1>6. Parts(b) \in Seq(Seq(Token)) /\ Len(Parts(b)) = 4
  BY <1>3, <1>4, <1>5
<1>7. Parts(b)[1] = p /\ Parts(b)[2] = q /\ Parts(b)[3] = r /\ Parts(b)[4] = s
  BY <1>5
<1> QED
  BY <1>1, <1>6, <1>7 DEF p, q, r, s

\* A block as it is in a file.
Whole(b) == FlattenSeq(Parts(b))

\* A block as a whole: magic, size, header, and the body behind them.
LEMMA WholeIs ==
    ASSUME NEW b \in Blocks
    PROVE  /\ Whole(b) \in Seq(Token) /\ Len(Whole(b)) = Len(Body(b)) + 3
           /\ Len(Body(b)) \in Nat
           /\ Whole(b)[1] = Magic /\ Whole(b)[2] = Number(1 + Len(Body(b)))
           /\ Whole(b)[3] = Header(b)
           /\ \A i \in 1..Len(Body(b)) : Whole(b)[i + 3] = Body(b)[i]
           /\ Joined(Parts(b), 0) = <<>>
           /\ Len(Joined(Parts(b), 1)) = 2 /\ Len(Joined(Parts(b), 2)) = 3
           /\ Len(Joined(Parts(b), 3)) = 3 + FirstPart(b)
<1> DEFINE ss == Parts(b)
           p == ss[1]
           q == ss[2]
           r == ss[3]
           s == ss[4]
           w == Whole(b)
           body == Body(b)
           f == FirstPart(b)
           n == Len(body)
<1>1. f \in 1..n /\ n \in Nat /\ body \in Seq(Token)
  BY PartsAre, BodyIs
<1>2. /\ ss \in Seq(Seq(Token)) /\ Len(ss) = 4
  BY PartsAre
<1>3. /\ p = <<Magic, Number(1 + n)>> /\ q = <<Header(b)>>
      /\ r = SubSeq(body, 1, f) /\ s = SubSeq(body, f + 1, n)
  BY PartsAre
<1> HIDE DEF ss, w, body, f, n, Token
<1>4. p \in Seq(Token) /\ q \in Seq(Token) /\ r \in Seq(Token) /\ s \in Seq(Token)
  BY <1>2, SMTT(60)
<1>5. Len(p) = 2 /\ p[1] = Magic /\ p[2] = Number(1 + n) /\ Len(q) = 1 /\ q[1] = Header(b)
  BY <1>3
<1>6. /\ Len(r) = f /\ Len(s) = n - f
      /\ \A i \in 1..f : r[i] = body[i]
      /\ \A i \in 1..(n - f) : s[i] = body[f + i]
  <2>1. \A i \in 1..n : body[i] \in Token
    BY <1>1 DEF n
  <2>2. /\ Len(r) = IF 1 <= f THEN f - 1 + 1 ELSE 0
        /\ \A i \in 1..(f - 1 + 1) : r[i] = body[1 + i - 1]
    BY <1>1, <1>3, <2>1, SubSeqProperties
  <2>3. /\ Len(s) = IF f + 1 <= n THEN n - (f + 1) + 1 ELSE 0
        /\ \A i \in 1..(n - (f + 1) + 1) : s[i] = body[f + 1 + i - 1]
    BY <1>1, <1>3, <2>1, SubSeqProperties
  <2>4. Len(r) = f /\ Len(s) = n - f
    BY <1>1, <2>2, <2>3
  <2>5. \A i \in 1..f : i \in 1..(f - 1 + 1) /\ 1 + i - 1 = i
    BY <1>1
  <2>6. \A i \in 1..(n - f) : i \in 1..(n - (f + 1) + 1) /\ f + 1 + i - 1 = f + i
    BY <1>1
  <2> QED
    BY <2>2, <2>3, <2>4, <2>5, <2>6
<1>7. /\ Joined(ss, 0) = <<>> /\ Joined(ss, 4) = w
      /\ Joined(ss, 1) = Joined(ss, 0) \o p /\ Joined(ss, 2) = Joined(ss, 1) \o q
      /\ Joined(ss, 3) = Joined(ss, 2) \o r /\ Joined(ss, 4) = Joined(ss, 3) \o s
  <2>1. 1 - 1 = 0 /\ 2 - 1 = 1 /\ 3 - 1 = 2 /\ 4 - 1 = 3 /\ 1..4 = {1, 2, 3, 4}
    OBVIOUS
  <2>2. \A k \in {1, 2, 3, 4} : Joined(ss, k) = Joined(ss, k - 1) \o ss[k]
    BY <1>2, <2>1, JoinedSteps
  <2>3. Joined(ss, 0) = <<>> /\ Joined(ss, 4) = w
    BY <1>2, JoinedSteps DEF w, Whole, ss
  <2> QED
    BY <2>1, <2>2, <2>3
<1>8. Joined(ss, 1) = p
  BY <1>4, <1>7, ConcatEmptySeq
<1>9. w = ((p \o q) \o r) \o s
  BY <1>7, <1>8
<1> HIDE DEF p, q, r, s
<1>10. /\ w \in Seq(Token) /\ Len(w) = Len(p) + Len(q) + Len(r) + Len(s)
       /\ \A i \in 1..Len(p) : w[i] = p[i]
       /\ \A i \in 1..Len(q) : w[Len(p) + i] = q[i]
       /\ \A i \in 1..Len(r) : w[Len(p) + Len(q) + i] = r[i]
       /\ \A i \in 1..Len(s) : w[Len(p) + Len(q) + Len(r) + i] = s[i]
  BY <1>4, <1>9, Concat4
<1>11. Len(w) = n + 3
  BY <1>1, <1>5, <1>6, <1>10
<1>12. w[1] = Magic /\ w[2] = Number(1 + n) /\ w[3] = Header(b)
  <2>1. 1 \in 1..Len(p) /\ 2 \in 1..Len(p) /\ 1 \in 1..Len(q) /\ Len(p) + 1 = 3
    BY <1>5
  <2> QED
    BY <1>5, <1>10, <2>1
<1>13. ASSUME NEW i \in 1..n PROVE w[i + 3] = body[i]
  <2>1. CASE i <= f
    <3>1. i \in 1..f /\ i \in 1..Len(r) /\ Len(p) + Len(q) + i = i + 3
      BY <1>1, <1>5, <1>6, <2>1
    <3> QED
      BY <1>6, <1>10, <3>1
  <2>2. CASE ~(i <= f)
    <3>1. PICK j : j = i - f
      OBVIOUS
    <3>2. /\ j \in 1..(n - f) /\ j \in 1..Len(s) /\ f + j = i
          /\ Len(p) + Len(q) + Len(r) + j = i + 3
      BY <1>1, <1>5, <1>6, <2>2, <3>1
    <3>3. w[Len(p) + Len(q) + Len(r) + j] = s[j]
      BY <1>10, <3>2
    <3>4. s[j] = body[f + j]
      BY <1>6, <3>2
    <3> QED
      BY <3>2, <3>3, <3>4
  <2> QED
    BY <2>1, <2>2
<1>14. Len(p \o q) = 3 /\ Len((p \o q) \o r) = 3 + f
  <2>1. p \o q \in Seq(Token) /\ Len(p \o q) = Len(p) + Len(q)
    BY <1>4, Concat
  <2>2. Len((p \o q) \o r) = Len(p \o q) + Len(r)
    BY <1>4, <2>1, Concat
  <2> QED
    BY <1>1, <1>5, <1>6, <2>1, <2>2
<1> QED
  BY <1>1, <1>5, <1>7, <1>8, <1>10, <1>11, <1>12, <1>13, <1>14 DEF w, n, body, f, ss

-----------------------------------------------------------------------------
(* Files as sequences of blocks.                                           *)

\* The blocks of a file, each as it is there, and where they start.
Wholes(blocks) == [i \in DOMAIN blocks |-> Whole(blocks[i])]
Start(blocks, k) == 1 + Len(Joined(Wholes(blocks), k - 1))

\* The blocks of a file are written as they are, one after the other.
LEMMA WholesAre ==
    ASSUME NEW blocks \in Seq(Blocks)
    PROVE  /\ Wholes(blocks) \in Seq(Seq(Token)) /\ Len(Wholes(blocks)) = Len(blocks)
           /\ \A k \in 1..Len(blocks) : blocks[k] \in Blocks /\ Wholes(blocks)[k] = Whole(blocks[k])
           /\ Written(blocks) = FlattenSeq(Wholes(blocks)) /\ Written(blocks) \in Seq(Token)
           /\ Len(blocks) \in Nat /\ Len(Written(blocks)) \in Nat
<1> DEFINE n == Len(blocks)
           ss == Wholes(blocks)
<1>1. n \in Nat /\ DOMAIN blocks = 1..n /\ \A i \in 1..n : blocks[i] \in Blocks
  OBVIOUS
<1>2. \A i \in 1..n : Whole(blocks[i]) \in Seq(Token)
  BY <1>1, WholeIs
<1>3. ss = [i \in 1..n |-> Whole(blocks[i])]
  BY <1>1 DEF Wholes
<1> HIDE DEF n, Token, ss
<1>4. ss \in Seq(Seq(Token)) /\ Len(ss) = n /\ \A i \in 1..n : ss[i] = Whole(blocks[i])
  BY <1>1, <1>2, <1>3
<1>5. Written(blocks) = FlattenSeq(ss)
  BY DEF Written, Whole, Wholes, ss
<1>6. n \in 0..Len(ss)
  BY <1>1, <1>4
<1>7. FlattenSeq(ss) \in Seq(Token)
  BY <1>4, <1>6, JoinedSteps
<1>8. Len(FlattenSeq(ss)) \in Nat
  BY <1>7, LenProperties
<1> QED
  BY <1>1, <1>4, <1>5, <1>7, <1>8 DEF n, ss

\* Magic, size, header and body of block k, and where the next one starts.
LEMMA WrittenPlaces ==
    ASSUME NEW blocks \in Seq(Blocks), NEW k \in 1..Len(blocks)
    PROVE  /\ Start(blocks, k) \in Nat \ {0} /\ Len(Body(blocks[k])) \in Nat
           /\ Start(blocks, k + 1) = Start(blocks, k) + Len(Body(blocks[k])) + 3
           /\ Start(blocks, k + 1) <= Len(Written(blocks)) + 1
           /\ Written(blocks)[Start(blocks, k)] = Magic
           /\ Written(blocks)[Start(blocks, k) + 1] = Number(1 + Len(Body(blocks[k])))
           /\ Written(blocks)[Start(blocks, k) + 2] = Header(blocks[k])
           /\ \A j \in 1..Len(Body(blocks[k])) :
                 Written(blocks)[Start(blocks, k) + 2 + j] = Body(blocks[k])[j]
<1> DEFINE ss == Wholes(blocks)
           w == Written(blocks)
           b == blocks[k]
           s == ss[k]
           p == Len(Joined(ss, k - 1))
           n == Len(Body(b))
           body == Body(b)
<1>1. ss \in Seq(Seq(Token)) /\ k \in 1..Len(ss) /\ w = FlattenSeq(ss) /\ b \in Blocks
      /\ s = Whole(b)
  BY WholesAre
<1>2. k + 1 - 1 = k
  OBVIOUS
<1>3. Start(blocks, k) = 1 + p /\ Start(blocks, k + 1) = 1 + Len(Joined(ss, k))
  BY <1>2 DEF Start
<1>4. /\ Len(s) = n + 3 /\ n \in Nat
      /\ s[1] = Magic /\ s[2] = Number(1 + n) /\ s[3] = Header(b)
      /\ \A i \in 1..n : s[i + 3] = body[i]
  BY <1>1, WholeIs
<1> HIDE DEF ss, w, s, b, Token
<1>5. /\ p \in Nat /\ Len(w) \in Nat
      /\ Len(Joined(ss, k)) = p + Len(s)
      /\ Len(Joined(ss, k)) <= Len(w)
      /\ \A j \in 1..Len(s) : w[p + j] = s[j]
  <2>1. ss \in Seq(Seq(Token)) /\ k \in 1..Len(ss) /\ w = FlattenSeq(ss)
    BY <1>1
  <2> QED
    BY <2>1, FlattenPlaces DEF s
<1> HIDE DEF p, n, body
<1>6. /\ w[1 + p] = Magic /\ w[1 + p + 1] = Number(1 + n) /\ w[1 + p + 2] = Header(b)
  <2>1. 1 \in 1..Len(s) /\ 2 \in 1..Len(s) /\ 3 \in 1..Len(s)
        /\ p + 1 = 1 + p /\ p + 2 = 1 + p + 1 /\ p + 3 = 1 + p + 2
    BY <1>4, <1>5
  <2>2. w[p + 1] = s[1] /\ w[p + 2] = s[2] /\ w[p + 3] = s[3]
    BY <1>5, <2>1
  <2> QED
    BY <1>4, <2>1, <2>2
<1>7. ASSUME NEW j \in 1..n PROVE w[1 + p + 2 + j] = body[j]
  <2>1. PICK i : i = j + 3
    OBVIOUS
  <2>2. i \in 1..Len(s) /\ p + i = 1 + p + 2 + j
    BY <1>4, <1>5, <2>1
  <2>3. w[p + i] = s[i]
    BY <1>5, <2>2
  <2> QED
    BY <1>4, <2>1, <2>2, <2>3
<1>8. /\ 1 + Len(Joined(ss, k)) = 1 + p + n + 3
      /\ 1 + Len(Joined(ss, k)) <= Len(w) + 1 /\ 1 + p \in Nat \ {0}
  BY <1>4, <1>5
<1> QED
  BY <1>3, <1>4, <1>6, <1>7, <1>8 DEF w, b, n, body

\* The first block starts at 1, and one behind the last would start at the
\* end.
LEMMA StartEnds ==
    ASSUME NEW blocks \in Seq(Blocks)
    PROVE  /\ Start(blocks, 1) = 1 /\ Start(blocks, Len(blocks) + 1) = Len(Written(blocks)) + 1
           /\ \A k \in 1..Len(blocks) + 1 : Start(blocks, k) \in Nat \ {0}
<1> DEFINE ss == Wholes(blocks)
           n == Len(blocks)
<1>1. ss \in Seq(Seq(Token)) /\ Len(ss) = n /\ n \in Nat /\ Written(blocks) = FlattenSeq(ss)
      /\ Len(Written(blocks)) \in Nat
  BY WholesAre
<1>8. \A k \in Int : Start(blocks, k) = 1 + Len(Joined(ss, k - 1))
  BY DEF Start
<1> HIDE DEF ss, n, Token
<1>2. ss \in Seq(Seq(Token))
  BY <1>1
<1>3. Joined(ss, 0) = <<>> /\ Joined(ss, Len(ss)) = FlattenSeq(ss)
  BY <1>2, JoinedSteps
<1>4. 1 - 1 = 0 /\ n + 1 - 1 = n /\ Len(<<>>) = 0 /\ 1 + 0 = 1
  BY <1>1
<1>5. Start(blocks, 1) = 1 + Len(Joined(ss, 0)) /\ Start(blocks, n + 1) = 1 + Len(Joined(ss, n))
  <2>1. PICK i \in Int, j \in Int : i = 1 /\ j = n + 1
    BY <1>1
  <2>2. Start(blocks, i) = 1 + Len(Joined(ss, i - 1)) /\ Start(blocks, j) = 1 + Len(Joined(ss, j - 1))
    BY <1>8
  <2>3. i - 1 = 0 /\ j - 1 = n
    BY <1>1, <2>1
  <2> QED
    BY <2>1, <2>2, <2>3
<1>6. Start(blocks, 1) = 1 /\ Start(blocks, n + 1) = Len(Written(blocks)) + 1
  BY <1>1, <1>3, <1>4, <1>5
<1>7. ASSUME NEW k \in 1..n + 1 PROVE Start(blocks, k) \in Nat \ {0}
  <2>1. CASE k = n + 1
    BY <1>1, <1>6, <2>1
  <2>2. CASE k # n + 1
    <3>1. k \in 1..Len(blocks)
      BY <1>1, <2>2 DEF n
    <3> QED
      BY <3>1, WrittenPlaces
  <2> QED
    BY <2>1, <2>2
<1> QED
  BY <1>6, <1>7 DEF n

\* Blocks are written one after the other.
LEMMA WrittenFront ==
    ASSUME NEW blocks \in Seq(Blocks), blocks # <<>>
    PROVE  /\ Last(blocks) \in Blocks /\ Front(blocks) \in Seq(Blocks)
           /\ Last(blocks) = blocks[Len(blocks)] /\ Len(blocks) \in 1..Len(blocks)
           /\ Written(Front(blocks)) \in Seq(Token)
           /\ Len(Written(Front(blocks))) = Start(blocks, Len(blocks)) - 1
           /\ Written(blocks) = Written(Front(blocks)) \o Whole(Last(blocks))
<1> DEFINE n == Len(blocks)
           ss == Wholes(blocks)
           tt == Wholes(Front(blocks))
<1>1. /\ Front(blocks) = SubSeq(blocks, 1, n - 1) /\ Last(blocks) = blocks[n]
      /\ n \in Nat \ {0} /\ DOMAIN blocks = 1..n
  BY DEF Front, Last
<1>2. Front(blocks) \in Seq(Blocks) /\ Len(Front(blocks)) = n - 1
      /\ DOMAIN Front(blocks) = 1..(n - 1)
      /\ \A i \in 1..(n - 1) : Front(blocks)[i] = blocks[i]
  BY <1>1
<1>3. ss \in Seq(Seq(Token)) /\ Len(ss) = n /\ n \in 1..n /\ Last(blocks) \in Blocks
      /\ ss[n] = Whole(Last(blocks))
  BY <1>1, WholesAre
<1>4. tt = SubSeq(ss, 1, n - 1)
  <2>1. ss = [i \in 1..n |-> Whole(blocks[i])] /\ tt = [i \in 1..(n - 1) |-> Whole(Front(blocks)[i])]
    BY <1>1, <1>2 DEF Wholes
  <2> HIDE DEF ss, n
  <2>2. SubSeq(ss, 1, n - 1) = [i \in 1..(n - 1) |-> ss[i]]
    <3> HIDE DEF Token
    <3> QED
      BY <1>1, <1>3
  <2> QED
    BY <1>1, <1>2, <2>1, <2>2
<1>5. Written(Front(blocks)) = Joined(ss, n - 1) /\ Written(Front(blocks)) \in Seq(Token)
  BY <1>2, <1>4, WholesAre DEF Joined
<1>6. Start(blocks, n) - 1 = Len(Joined(ss, n - 1))
  <2>1. Len(Joined(ss, n - 1)) \in Nat
    BY <1>5, LenProperties
  <2> QED
    BY <2>1 DEF Start
<1>7. Written(blocks) = FlattenSeq(ss)
  BY WholesAre
<1> HIDE DEF n, ss, tt, Token
<1>8. ss \in Seq(Seq(Token)) /\ n \in 1..Len(ss)
  BY <1>3
<1>9. FlattenSeq(ss) = Joined(ss, n - 1) \o ss[n]
  BY <1>3, <1>8, JoinedSteps
<1> QED
  BY <1>1, <1>2, <1>3, <1>5, <1>6, <1>7, <1>9 DEF n

-----------------------------------------------------------------------------
(* What is read where a block starts, and elsewhere.                       *)

\* Later blocks start later.
LEMMA StartOrder ==
    ASSUME NEW blocks \in Seq(Blocks), NEW k \in 1..Len(blocks) + 1, NEW m \in k..Len(blocks) + 1
    PROVE  Start(blocks, k) <= Start(blocks, m)
<1> DEFINE ss == Wholes(blocks)
           n == Len(blocks)
<1>1. ss \in Seq(Seq(Token)) /\ Len(ss) = n /\ n \in Nat
  BY WholesAre
<1>2. PICK i \in Nat, j \in Nat : i = k - 1 /\ j = m - 1
  BY <1>1
<1>3. Start(blocks, k) = 1 + Len(Joined(ss, i)) /\ Start(blocks, m) = 1 + Len(Joined(ss, j))
  BY <1>2 DEF Start
<1> HIDE DEF ss, n, Token
<1>4. ss \in Seq(Seq(Token)) /\ i \in 0..Len(ss) /\ j \in i..Len(ss)
  BY <1>1, <1>2 DEF n
<1>5. Len(Joined(ss, i)) <= Len(Joined(ss, j))
  BY <1>4, JoinedFront
<1>6. Start(blocks, k) \in Nat /\ Start(blocks, m) \in Nat
  BY <1>1, StartEnds DEF n
<1>7. Joined(ss, i) \in Seq(Token) /\ Joined(ss, j) \in Seq(Token)
  <2>1. j \in 0..Len(ss)
    BY <1>1, <1>4
  <2> QED
    BY <1>4, <2>1, JoinedSteps
<1>8. Len(Joined(ss, i)) \in Nat /\ Len(Joined(ss, j)) \in Nat
  BY <1>7, LenProperties
<1> QED
  BY <1>3, <1>5, <1>8

\* The files hold the blocks of lay, but for the parts after n of the last
\* block of the growing one.
FilesAre(lay, n) ==
    /\ lay \in Layouts /\ n \in 0..4
    /\ growing \in Files /\ lay[growing] # <<>>
    /\ disk = [g \in Files |->
           IF g # growing THEN Written(lay[g])
           ELSE Written(Front(lay[g])) \o Joined(Parts(Last(lay[g])), n)]
    /\ unwritten = SubSeq(Parts(Last(lay[growing])), n + 1, 4)

\* What is in file f of the blocks it holds or will hold.
Prefix(f, blocks) ==
    /\ disk[f] \in Seq(Token) /\ Len(disk[f]) <= Len(Written(blocks))
    /\ \A p \in 1..Len(disk[f]) : disk[f][p] = Written(blocks)[p]
    /\ \A k \in 1..Len(blocks) :
          /\ Start(blocks, k) <= Len(disk[f]) + 1
          /\ Start(blocks, k) <= Len(disk[f]) => Start(blocks, k) + 1 <= Len(disk[f])

\* What a file holds is a beginning of its layout; only the growing file is
\* unfinished.
LEMMA DiskIs ==
    ASSUME NEW lay, NEW n, FilesAre(lay, n), NEW f \in Files
    PROVE  /\ lay[f] \in Seq(Blocks) /\ Prefix(f, lay[f]) /\ Len(disk[f]) \in Nat
           /\ f # growing \/ n = 4 => disk[f] = Written(lay[f])
<1>1. lay[f] \in Seq(Blocks)
  BY FilesAssumption DEF FilesAre
<1> DEFINE blocks == lay[f]
           w == Written(blocks)
           L == Len(blocks)
<1>2. /\ w \in Seq(Token) /\ L \in Nat /\ Len(w) \in Nat
      /\ \A k \in 1..L : Start(blocks, k) \in Nat \ {0} /\ Start(blocks, k) <= Start(blocks, L)
  <2>1. \A k \in 1..L : L \in k..L + 1 /\ k \in 1..L + 1
    BY <1>1
  <2> QED
    BY <1>1, <2>1, WholesAre, StartEnds, StartOrder
<1>3. \A k \in 1..L : /\ Len(Body(blocks[k])) \in Nat
                      /\ Start(blocks, k + 1) = Start(blocks, k) + Len(Body(blocks[k])) + 3
                      /\ Start(blocks, k + 1) <= Len(w) + 1
  BY <1>1, WrittenPlaces
<1>4. CASE f # growing
  <2>1. disk[f] = w
    BY <1>4 DEF FilesAre
  <2> HIDE DEF blocks, w, L, Token
  <2>2. \A k \in 1..L : Start(blocks, k) + 1 <= Len(w)
    BY <1>2, <1>3, SMTT(60)
  <2>3. Prefix(f, blocks)
    BY <1>2, <2>1, <2>2 DEF Prefix, w, L
  <2> QED
    BY <1>1, <1>2, <2>1, <2>3 DEF blocks, w
<1>5. CASE f = growing
  <2> DEFINE last == Last(blocks)
             ss == Parts(last)
             a == Written(Front(blocks))
             p == Joined(ss, n)
             q == Whole(last)
             N == Len(a)
  <2>1. n \in 0..4 /\ blocks # <<>> /\ disk[f] = a \o p
    BY <1>5 DEF FilesAre
  <2>2. /\ last \in Blocks /\ a \in Seq(Token) /\ w = a \o q /\ L \in 1..L
        /\ N = Start(blocks, L) - 1
    BY <1>1, <2>1, WrittenFront
  <2>3. ss \in Seq(Seq(Token)) /\ Len(ss) = 4 /\ q = FlattenSeq(ss)
    BY <2>2, PartsAre DEF Whole
  <2>4. Joined(ss, 0) = <<>> /\ Len(Joined(ss, 1)) = 2
    BY <2>2, WholeIs
  <2> HIDE DEF last, ss, a, w, L, Token, p, q, blocks
  <2>5. ss \in Seq(Seq(Token)) /\ n \in 0..Len(ss) /\ 4 \in n..Len(ss)
    BY <2>1, <2>3
  <2>6. /\ p \in Seq(Token) /\ q \in Seq(Token) /\ q = Joined(ss, Len(ss)) /\ q = Joined(ss, 4)
    <3>1. 4 \in 0..Len(ss)
      BY <2>3
    <3> QED
      BY <2>3, <2>5, <3>1, JoinedSteps DEF p
  <2>7. Len(p) <= Len(q) /\ \A j \in 1..Len(p) : q[j] = p[j]
    BY <2>5, <2>6, JoinedFront DEF p
  <2>8. Len(p) \in Nat /\ Len(q) \in Nat /\ (n = 0 => Len(p) = 0) /\ (n # 0 => 2 <= Len(p))
    <3>1. Len(p) \in Nat /\ Len(q) \in Nat
      BY <2>6, LenProperties
    <3>2. CASE n = 0
      BY <2>4, <3>1, <3>2 DEF p
    <3>3. CASE n # 0
      <4>1. ss \in Seq(Seq(Token)) /\ 1 \in 0..Len(ss) /\ n \in 1..Len(ss)
        BY <2>1, <2>3, <3>3
      <4>2. Len(Joined(ss, 1)) <= Len(Joined(ss, n))
        BY <4>1, JoinedFront
      <4> QED
        BY <2>4, <3>1, <3>3, <4>2 DEF p
    <3> QED
      BY <3>2, <3>3
  <2>9. /\ a \o p \in Seq(Token) /\ Len(a \o p) = N + Len(p) /\ N \in Nat
        /\ \A i \in 1..N : (a \o p)[i] = a[i]
        /\ \A i \in 1..Len(p) : (a \o p)[N + i] = p[i]
    BY <2>2, <2>6, Concat
  <2>10. /\ Len(w) = N + Len(q)
         /\ \A i \in 1..N : w[i] = a[i]
         /\ \A i \in 1..Len(q) : w[N + i] = q[i]
    <3>1. a \in Seq(Token) /\ q \in Seq(Token)
      BY <2>2, <2>6
    <3>2. /\ Len(a \o q) = N + Len(q)
          /\ \A i \in 1..N : (a \o q)[i] = a[i]
          /\ \A i \in 1..Len(q) : (a \o q)[N + i] = q[i]
      BY <3>1, Concat
    <3> QED
      BY <2>2, <3>2
  <2> DEFINE d == disk[f]
  <2>11. d \in Seq(Token) /\ Len(d) = N + Len(p) /\ Len(d) <= Len(w)
    BY <2>1, <2>7, <2>8, <2>9, <2>10
  <2>12. ASSUME NEW i \in 1..Len(d) PROVE d[i] = w[i]
    <3>1. CASE i <= N
      <4>1. i \in 1..N
        BY <2>9, <3>1, <2>11, <2>8
      <4> QED
        BY <2>1, <2>9, <2>10, <4>1
    <3>2. CASE ~(i <= N)
      <4>1. PICK j : j = i - N
        OBVIOUS
      <4>2. j \in 1..Len(p) /\ j \in 1..Len(q) /\ N + j = i
        BY <2>7, <2>8, <2>9, <2>11, <3>2, <4>1
      <4>3. (a \o p)[N + j] = p[j] /\ w[N + j] = q[j] /\ q[j] = p[j]
        BY <2>7, <2>9, <2>10, <4>2
      <4> QED
        BY <2>1, <4>2, <4>3
    <3> QED
      BY <3>1, <3>2
  <2>13. ASSUME NEW k \in 1..L
         PROVE  /\ Start(blocks, k) <= Len(d) + 1
                /\ Start(blocks, k) <= Len(d) => Start(blocks, k) + 1 <= Len(d)
    <3>1. Start(blocks, L) = N + 1
      <4>1. Start(blocks, L) \in Nat
        BY <1>2, <2>2
      <4> QED
        BY <2>2, <2>9, <4>1
    <3>2. Start(blocks, k) \in Nat /\ Start(blocks, k) <= N + 1
      BY <1>2, <3>1
    <3>3. CASE k = L
      BY <2>8, <2>9, <2>11, <3>1, <3>3
    <3>4. CASE k # L
      <4>1. PICK m : m = k + 1
        OBVIOUS
      <4>2. m \in 1..L
        BY <1>2, <3>4, <4>1
      <4>3. Start(blocks, m) <= N + 1 /\ Start(blocks, m) \in Nat
        BY <1>2, <3>1, <4>2
      <4>4. Start(blocks, m) = Start(blocks, k) + Len(Body(blocks[k])) + 3 /\ Len(Body(blocks[k])) \in Nat
        BY <1>3, <4>1
      <4> QED
        BY <2>8, <2>9, <2>11, <3>2, <4>3, <4>4
    <3> QED
      BY <3>3, <3>4
  <2>14. n = 4 => d = w
    BY <2>1, <2>2, <2>6 DEF p
  <2>15. Len(d) \in Nat
    BY <2>8, <2>9, <2>11
  <2> QED
    BY <1>1, <1>5, <2>11, <2>12, <2>13, <2>14, <2>15 DEF Prefix, blocks, w, L
<1> QED
  BY <1>4, <1>5

-----------------------------------------------------------------------------
(* The files at the start and as the daemon writes on.                     *)

\* The files at the start are a layout of which n parts of the last block are
\* written.
LEMMA FilesStart ==
    ASSUME FilesInit
    PROVE  \E lay \in Layouts, n \in 0..4 :
              /\ FilesAre(lay, n)
              /\ stored = (UNION {ToSet(lay[g]) : g \in Files \ {growing}})
                    \cup ToSet(IF n = 4 THEN lay[growing] ELSE Front(lay[growing]))
<1>1. PICK lay \in Layouts, f \in Files, n \in 0..4 :
        /\ lay[f] # <<>>
        /\ growing = f
        /\ disk = [g \in Files |->
               IF g # f THEN Written(lay[g])
               ELSE Written(Front(lay[f])) \o FlattenSeq(SubSeq(Parts(Last(lay[f])), 1, n))]
        /\ unwritten = SubSeq(Parts(Last(lay[f])), n + 1, 4)
        /\ stored = (UNION {ToSet(lay[g]) : g \in Files \ {f}})
                    \cup ToSet(IF n = 4 THEN lay[f] ELSE Front(lay[f]))
  BY DEF FilesInit
<1> QED
  BY <1>1 DEF FilesAre, Joined

\* The next part of the last block is appended to its file.
LEMMA FilesGrow ==
    ASSUME NEW lay, NEW n, FilesAre(lay, n), DaemonWrites
    PROVE  /\ n + 1 \in 0..4 /\ FilesAre(lay, n + 1)'
           /\ \A f \in Files : /\ Len(disk'[f]) \in Nat /\ Len(disk[f]) <= Len(disk'[f])
                              /\ \A p \in DOMAIN disk[f] :
                                    p \in DOMAIN disk'[f] /\ disk'[f][p] = disk[f][p]
<1> DEFINE last == Last(lay[growing])
           ss == Parts(last)
           a == Written(Front(lay[growing]))
<1>1. /\ n \in 0..4 /\ growing \in Files /\ lay \in Layouts /\ lay[growing] # <<>>
      /\ unwritten = SubSeq(ss, n + 1, 4) /\ disk[growing] = a \o Joined(ss, n)
      /\ \A f \in Files \ {growing} : disk[f] = Written(lay[f])
  BY DEF FilesAre
<1>2. /\ unwritten # <<>> /\ growing' = growing
      /\ disk' = [disk EXCEPT ![growing] = disk[growing] \o Head(unwritten)]
      /\ unwritten' = Tail(unwritten)
  BY DEF DaemonWrites
<1>3. lay[growing] \in Seq(Blocks)
  BY <1>1, FilesAssumption
<1>4. last \in Blocks /\ a \in Seq(Token)
  BY <1>1, <1>3, WrittenFront
<1>5. ss \in Seq(Seq(Token)) /\ Len(ss) = 4
  BY <1>4, PartsAre
<1> HIDE DEF last, ss, a, Token
<1>6. PICK m \in Nat : m = n + 1
  BY <1>1
<1>7. m \in 1..4 /\ Head(unwritten) = ss[m] /\ Tail(unwritten) = SubSeq(ss, m + 1, 4)
  <2>1. n # 4
    BY <1>1, <1>2, <1>5
  <2>2. m \in 1..4 /\ unwritten = SubSeq(ss, m, 4)
    BY <1>1, <1>6, <2>1
  <2> QED
    BY <1>5, <2>2
<1>8. ss \in Seq(Seq(Token)) /\ m \in 1..Len(ss) /\ n \in 0..Len(ss) /\ m - 1 = n
  BY <1>1, <1>5, <1>6, <1>7
<1> DEFINE p == Joined(ss, n)
<1>9. Joined(ss, m) = p \o ss[m] /\ p \in Seq(Token)
  BY <1>8, JoinedSteps
<1>10. ss[m] \in Seq(Token)
  BY <1>8
<1> HIDE DEF p
<1>11. (a \o p) \o ss[m] = a \o (p \o ss[m])
  <2> DEFINE s == ss[m]
  <2> HIDE DEF s
  <2>1. a \in Seq(Token) /\ p \in Seq(Token) /\ s \in Seq(Token)
    BY <1>4, <1>9, <1>10 DEF s, p
  <2>2. (a \o p) \o s = a \o (p \o s)
    BY <2>1, ConcatAssociative
  <2> QED
    BY <2>2 DEF s
<1>12. disk'[growing] = a \o Joined(ss, m)
  <2>1. growing \in DOMAIN disk
    BY <1>1 DEF FilesAre
  <2>2. disk'[growing] = disk[growing] \o ss[m]
    BY <1>2, <1>7, <2>1
  <2> QED
    BY <1>1, <1>9, <1>11, <2>2 DEF p
<1>13. /\ Len(disk'[growing]) \in Nat /\ Len(disk[growing]) <= Len(disk'[growing])
       /\ \A i \in DOMAIN disk[growing] :
             i \in DOMAIN disk'[growing] /\ disk'[growing][i] = disk[growing][i]
  <2>1. disk[growing] \in Seq(Token)
    BY <1>1, <1>4, <1>9, ConcatProperties DEF p
  <2>2. disk'[growing] = disk[growing] \o ss[m]
    BY <1>1, <1>9, <1>11, <1>12 DEF p
  <2> DEFINE d == disk[growing]
             s == ss[m]
  <2> HIDE DEF d, s
  <2>4. d \in Seq(Token) /\ s \in Seq(Token)
    BY <1>10, <2>1 DEF d, s
  <2>5. Len(d \o s) = Len(d) + Len(s) /\ Len(d) \in Nat /\ Len(s) \in Nat
    BY <2>4, Concat
  <2>3. Len(d \o s) \in Nat /\ Len(d) <= Len(d \o s)
    BY <2>5
  <2>6. disk'[growing] = d \o s
    BY <2>2 DEF d, s
  <2>7. \A i \in DOMAIN d : i \in DOMAIN (d \o s) /\ (d \o s)[i] = d[i]
    BY <2>4
  <2> QED
    BY <2>3, <2>6, <2>7 DEF d
<1>14. \A f \in Files \ {growing} : disk'[f] = disk[f] /\ Len(disk[f]) \in Nat
  <2>1. ASSUME NEW f \in Files \ {growing} PROVE disk'[f] = disk[f] /\ Len(disk[f]) \in Nat
    BY <1>1, <1>2, DiskIs DEF FilesAre
  <2> QED
    BY <2>1
<1>15. disk' = [g \in Files |-> IF g # growing THEN Written(lay[g])
                               ELSE Written(Front(lay[g])) \o Joined(Parts(Last(lay[g])), m)]
  <2>1. disk' = [g \in Files |-> disk'[g]]
    BY <1>2 DEF FilesAre
  <2>2. \A g \in Files : disk'[g] = IF g # growing THEN Written(lay[g])
                               ELSE Written(Front(lay[g])) \o Joined(Parts(Last(lay[g])), m)
    BY <1>1, <1>12, <1>14 DEF a, ss, last
  <2> QED
    BY <2>1, <2>2
<1>16. FilesAre(lay, m)'
  <2>1. m \in 0..4 /\ growing' \in Files /\ lay \in Layouts /\ lay[growing'] # <<>>
    BY <1>1, <1>2, <1>7
  <2>2. unwritten' = SubSeq(Parts(Last(lay[growing'])), m + 1, 4)
    BY <1>2, <1>7 DEF ss, last
  <2>3. disk' = [g \in Files |-> IF g # growing' THEN Written(lay[g])
                               ELSE Written(Front(lay[g])) \o Joined(Parts(Last(lay[g])), m)]
    BY <1>2, <1>15
  <2> QED
    BY <2>1, <2>2, <2>3 DEF FilesAre
<1>17. ASSUME NEW f \in Files
       PROVE  /\ Len(disk'[f]) \in Nat /\ Len(disk[f]) <= Len(disk'[f])
              /\ \A i \in DOMAIN disk[f] : i \in DOMAIN disk'[f] /\ disk'[f][i] = disk[f][i]
  <2>1. CASE f = growing
    BY <1>13, <2>1
  <2>2. CASE f # growing
    BY <1>14, <2>2
  <2> QED
    BY <2>1, <2>2
<1> QED
  BY <1>6, <1>7, <1>16, <1>17

\* What is read at the places of a block, and past the last one.
LEMMA ReadsAre ==
    ASSUME NEW lay, NEW n, FilesAre(lay, n), NEW f \in Files, NEW k \in 1..Len(lay[f])
    PROVE  /\ lay[f][k] \in Blocks
           /\ Start(lay[f], k) <= Len(disk[f]) =>
                 NumberAt(f, Start(lay[f], k) + 1) = 1 + Len(Body(lay[f][k]))
           /\ Start(lay[f], k) > Len(disk[f]) => TokenAt(f, Start(lay[f], k)) # Magic
           /\ Start(lay[f], k) <= Len(disk[f]) => TokenAt(f, Start(lay[f], k)) = Magic
           /\ Start(lay[f], k) + 2 <= Len(disk[f]) =>
                 TokenAt(f, Start(lay[f], k) + 2) = Header(lay[f][k])
           /\ Start(lay[f], k) + 2 > Len(disk[f]) =>
                 TokenAt(f, Start(lay[f], k) + 2) = Number(0)
<1> DEFINE blocks == lay[f]
           b == blocks[k]
           w == Written(blocks)
           s == Start(blocks, k)
           d == disk[f]
<1>1. /\ blocks \in Seq(Blocks) /\ d \in Seq(Token) /\ Len(d) \in Nat
      /\ \A p \in 1..Len(d) : d[p] = w[p]
      /\ s <= Len(d) => s + 1 <= Len(d)
  BY DiskIs DEF Prefix
<1>2. /\ s \in Nat \ {0} /\ w[s] = Magic /\ w[s + 1] = Number(1 + Len(Body(b)))
      /\ w[s + 2] = Header(b)
  BY <1>1, WrittenPlaces
<1>3. b \in Blocks
  BY <1>1
<1> HIDE DEF blocks, b, w, s, d, Token
<1>4. \A p : TokenAt(f, p) = IF p \in 1..Len(d) THEN d[p] ELSE Number(0)
  BY <1>1 DEF TokenAt, d
<1>5. \A p \in Nat : p \in 1..Len(d) => TokenAt(f, p) = w[p]
  BY <1>1, <1>4
<1>6. \A p \in Nat : p > Len(d) => TokenAt(f, p) = Number(0)
  BY <1>1, <1>4
<1>7. s <= Len(d) => TokenAt(f, s) = Magic /\ TokenAt(f, s + 1) = Number(1 + Len(Body(b)))
  <2>1. ASSUME s <= Len(d) PROVE s \in 1..Len(d) /\ s + 1 \in 1..Len(d)
    BY <1>1, <1>2, <2>1
  <2> QED
    BY <1>2, <1>5, <2>1
<1>8. s <= Len(d) => NumberAt(f, s + 1) = 1 + Len(Body(b))
  BY <1>7, Kinds DEF NumberAt
<1>9. s > Len(d) => TokenAt(f, s) # Magic
  BY <1>2, <1>6, Kinds
<1>10. s + 2 <= Len(d) => TokenAt(f, s + 2) = Header(b)
  <2>1. ASSUME s + 2 <= Len(d) PROVE s + 2 \in 1..Len(d)
    BY <1>1, <1>2, <2>1
  <2> QED
    BY <1>2, <1>5, <2>1
<1>11. s + 2 > Len(d) => TokenAt(f, s + 2) = Number(0)
  BY <1>2, <1>6
<1> QED
  BY <1>3, <1>7, <1>8, <1>9, <1>10, <1>11 DEF blocks, b, s, d

\* Behind its last block a file has no magic.
LEMMA ReadsNothingAtEnd ==
    ASSUME NEW lay, NEW n, FilesAre(lay, n), NEW f \in Files
    PROVE  TokenAt(f, Start(lay[f], Len(lay[f]) + 1)) # Magic
<1> DEFINE s == Start(lay[f], Len(lay[f]) + 1)
<1>1. /\ lay[f] \in Seq(Blocks) /\ disk[f] \in Seq(Token) /\ Len(disk[f]) \in Nat
      /\ Len(disk[f]) <= Len(Written(lay[f]))
  BY DiskIs DEF Prefix
<1>2. s = Len(Written(lay[f])) + 1 /\ Len(Written(lay[f])) \in Nat
  BY <1>1, StartEnds, WholesAre
<1> HIDE DEF s, Token
<1>3. s \notin DOMAIN disk[f]
  BY <1>1, <1>2
<1> QED
  BY <1>3, Kinds DEF TokenAt, s

-----------------------------------------------------------------------------
(* What the scan notes down.                                               *)

PrevOf(h) == IF h = ZeroHeader THEN ZeroHash ELSE Prev[h]
Entry == [hash : Blocks \cup {ZeroHeader}, prev : Blocks \cup {ZeroHash}, file : Files, at : Nat]

\* What is noted down is block number k of its file, or zeros read in its place
\* when it was the block that the daemon was writing.
Noted(e, blocks) ==
    /\ e.prev = PrevOf(e.hash)
    /\ \E k \in 1..Len(blocks) :
          /\ e.at = Start(blocks, k) + 2
          /\ \/ e.hash = blocks[k] /\ e.at <= Len(disk[e.file])
             \/ e.hash = ZeroHeader /\ e.file = growing /\ k = Len(blocks)

FoundHash(h) == \E i \in 1..Len(found) : found[i].hash = h
FoundOnce == \A i, j \in 1..Len(found) : found[i].hash = found[j].hash => i = j

\* The first n blocks of a file have been found.
Covered(blocks, n) == \A j \in 1..n : FoundHash(blocks[j])

Scanning == step \in {"magic", "block"}

\* old[f]: how many blocks of f were wholly written when the scan began.
OldAre(lay, old) ==
    /\ \A f \in Files : /\ old[f] \in 0..Len(lay[f])
                        /\ Start(lay[f], old[f] + 1) <= Len(disk[f]) + 1
    /\ \A b \in stored : \E f \in Files : \E k \in 1..old[f] : b = lay[f][k]
    /\ stored \subseteq Blocks

ScanIs(lay, old) ==
    /\ pending \subseteq Files /\ file \in Files
    /\ found \in Seq(Entry) /\ FoundOnce
    /\ \A i \in 1..Len(found) : Noted(found[i], lay[found[i].file])
    /\ Scanning => file \notin pending
    /\ step = "magic" =>
          \E k \in 1..Len(lay[file]) + 1 :
             /\ pos = Start(lay[file], k)
             /\ \A j \in 1..old[file] : j < k => FoundHash(lay[file][j])
    /\ step = "block" =>
          \E k \in 1..Len(lay[file]) :
             /\ pos = Start(lay[file], k) + 1 /\ pos <= Len(disk[file])
             /\ \A j \in 1..old[file] : j < k => FoundHash(lay[file][j])
    /\ \A f \in Files \ pending : (f = file /\ Scanning) \/ Covered(lay[f], old[f])
    /\ ScanDone => pending = {}

\* What is stored stands in the files.
LEMMA OldStart ==
    ASSUME NEW lay \in Layouts, NEW n \in 0..4, FilesAre(lay, n),
           stored = (UNION {ToSet(lay[g]) : g \in Files \ {growing}})
                    \cup ToSet(IF n = 4 THEN lay[growing] ELSE Front(lay[growing]))
    PROVE  \E old \in [Files -> Nat] : OldAre(lay, old)
<1> DEFINE Old(f) == IF f # growing \/ n = 4 THEN Len(lay[f]) ELSE Len(lay[f]) - 1
           old == [f \in Files |-> Old(f)]
<1> DEFINE Most == UNION {ToSet(lay[g]) : g \in Files \ {growing}}
           Rest == ToSet(IF n = 4 THEN lay[growing] ELSE Front(lay[growing]))
<1>0. stored = Most \cup Rest
  OBVIOUS
<1>1. \A f \in Files : /\ lay[f] \in Seq(Blocks) /\ Prefix(f, lay[f]) /\ Len(disk[f]) \in Nat
                       /\ f # growing \/ n = 4 => disk[f] = Written(lay[f])
  BY DiskIs
<1>2. growing \in Files /\ lay[growing] # <<>>
  BY DEF FilesAre
<1>3. \A f \in Files : old[f] \in 0..Len(lay[f]) /\ old[f] = Old(f) /\ Len(lay[f]) \in Nat
  BY <1>1, <1>2
<1>4. ASSUME NEW f \in Files PROVE Start(lay[f], old[f] + 1) <= Len(disk[f]) + 1
  <2>1. CASE f # growing \/ n = 4
    <3>1. disk[f] = Written(lay[f]) /\ old[f] + 1 = Len(lay[f]) + 1
      BY <1>1, <1>3, <2>1
    <3>2. Start(lay[f], Len(lay[f]) + 1) = Len(Written(lay[f])) + 1
      BY <1>1, StartEnds
    <3>3. Len(Written(lay[f])) \in Nat
      BY <1>1, WholesAre
    <3> QED
      BY <3>1, <3>2, <3>3
  <2>2. CASE ~(f # growing \/ n = 4)
    <3>1. old[f] + 1 = Len(lay[f]) /\ Len(lay[f]) \in 1..Len(lay[f])
      BY <1>1, <1>2, <1>3, <2>2
    <3> QED
      BY <1>1, <3>1 DEF Prefix
  <2> QED
    BY <2>1, <2>2
<1>5. ASSUME NEW b \in stored
      PROVE  b \in Blocks /\ \E f \in Files : \E k \in 1..old[f] : b = lay[f][k]
  <2>1. CASE \E f \in Files \ {growing} : b \in ToSet(lay[f])
    <3>1. PICK f \in Files \ {growing} : b \in ToSet(lay[f])
      BY <2>1
    <3>2. PICK k \in DOMAIN lay[f] : b = lay[f][k]
      BY <3>1 DEF ToSet
    <3>3. k \in 1..old[f] /\ lay[f][k] \in Blocks
      BY <1>1, <1>3, <3>1
    <3> QED
      BY <3>1, <3>2, <3>3
  <2>2. CASE b \in Rest
    <3> DEFINE blocks == lay[growing]
    <3>1. blocks \in Seq(Blocks) /\ old[growing] = IF n = 4 THEN Len(blocks) ELSE Len(blocks) - 1
      BY <1>1, <1>2, <1>3
    <3>2. Front(blocks) \in Seq(Blocks) /\ Len(Front(blocks)) = Len(blocks) - 1
          /\ \A k \in 1..(Len(blocks) - 1) : Front(blocks)[k] = blocks[k]
      BY <1>1, <1>2 DEF Front
    <3>3. CASE n = 4
      <4>1. PICK k \in DOMAIN blocks : b = blocks[k]
        BY <2>2, <3>3 DEF ToSet
      <4>2. k \in 1..old[growing] /\ blocks[k] \in Blocks
        BY <3>1, <3>3, <4>1
      <4> QED
        BY <1>2, <4>1, <4>2
    <3>4. CASE n # 4
      <4>1. PICK k \in DOMAIN Front(blocks) : b = Front(blocks)[k]
        BY <2>2, <3>4 DEF ToSet
      <4>2. k \in 1..(Len(blocks) - 1)
        BY <3>2, <4>1
      <4>3. k \in 1..old[growing] /\ k \in DOMAIN blocks /\ b = blocks[k]
        BY <3>1, <3>2, <3>4, <4>1, <4>2
      <4> QED
        BY <1>2, <3>1, <4>3
    <3> QED
      BY <3>3, <3>4
  <2>3. b \in Most \/ b \in Rest
    <3> HIDE DEF Most, Rest
    <3> QED
      BY <1>0, <1>5
  <2>4. CASE b \in Most
    <3>1. PICK g \in Files \ {growing} : b \in ToSet(lay[g])
      BY <2>4
    <3> QED
      BY <2>1, <3>1
  <2> QED
    BY <2>2, <2>3, <2>4
<1>6. old \in [Files -> Nat]
  BY <1>3
<1> QED
  BY <1>3, <1>4, <1>5, <1>6 DEF OldAre

\* At the start of a scan nothing is noted down.
LEMMA ScanStart ==
    ASSUME NEW lay, NEW old, NEW n, FilesAre(lay, n), ScanInit
    PROVE  ScanIs(lay, old)
BY DEF FilesAre, ScanInit, ScanIs, Scanning, ScanDone, FoundOnce

\* What is noted stays so as the files grow.
LEMMA DaemonKeepsScan ==
    ASSUME NEW lay \in Layouts, NEW old \in [Files -> Nat], NEW n, FilesAre(lay, n),
           OldAre(lay, old), ScanIs(lay, old), DaemonWrites
    PROVE  OldAre(lay, old)' /\ ScanIs(lay, old)'
<1>1. \A f \in Files : /\ Len(disk[f]) \in Nat /\ Len(disk'[f]) \in Nat
                       /\ Len(disk[f]) <= Len(disk'[f]) /\ lay[f] \in Seq(Blocks)
  BY DiskIs, FilesGrow
<1>2. UNCHANGED <<stored, growing, pending, file, pos, step, found>>
  BY DEF DaemonWrites, scanVars
<1>3. OldAre(lay, old)'
  <2>1. ASSUME NEW f \in Files PROVE Start(lay[f], old[f] + 1) <= Len(disk'[f]) + 1
    <3>1. old[f] \in 0..Len(lay[f]) /\ Start(lay[f], old[f] + 1) <= Len(disk[f]) + 1
      BY DEF OldAre
    <3>2. old[f] + 1 \in 1..Len(lay[f]) + 1
      BY <1>1, <3>1
    <3>3. Start(lay[f], old[f] + 1) \in Nat
      BY <1>1, <3>2, StartEnds
    <3> QED
      BY <1>1, <3>1, <3>3
  <2> QED
    BY <1>2, <2>1 DEF OldAre
<1>4. ASSUME NEW i \in 1..Len(found) PROVE Noted(found[i], lay[found[i].file])'
  <2> DEFINE e == found[i]
             blocks == lay[e.file]
  <2>1. e \in Entry /\ Noted(e, blocks)
    BY DEF ScanIs
  <2>2. e.file \in Files /\ e.at \in Nat /\ found' = found /\ growing' = growing
    BY <1>2, <2>1 DEF Entry
  <2>3. e.at <= Len(disk[e.file]) => e.at <= Len(disk'[e.file])
    BY <1>1, <2>2
  <2> QED
    BY <2>1, <2>2, <2>3 DEF Noted
<1>5. step = "block" =>
          \E k \in 1..Len(lay[file]) :
             /\ pos = Start(lay[file], k) + 1 /\ pos <= Len(disk'[file])
             /\ \A j \in 1..old[file] : j < k => FoundHash(lay[file][j])
  <2> SUFFICES ASSUME step = "block"
               PROVE  \E k \in 1..Len(lay[file]) :
                         /\ pos = Start(lay[file], k) + 1 /\ pos <= Len(disk'[file])
                         /\ \A j \in 1..old[file] : j < k => FoundHash(lay[file][j])
    OBVIOUS
  <2>1. file \in Files
    BY DEF ScanIs
  <2>2. PICK k \in 1..Len(lay[file]) :
             /\ pos = Start(lay[file], k) + 1 /\ pos <= Len(disk[file])
             /\ \A j \in 1..old[file] : j < k => FoundHash(lay[file][j])
    BY DEF ScanIs
  <2>3. Start(lay[file], k) \in Nat
    BY <1>1, <2>1, WrittenPlaces
  <2>4. pos <= Len(disk'[file])
    BY <1>1, <2>1, <2>2, <2>3
  <2> QED
    BY <2>2, <2>4
<1>6. ScanIs(lay, old)'
  BY <1>2, <1>4, <1>5 DEF ScanIs, Scanning, ScanDone, FoundHash, FoundOnce, Covered
<1> QED
  BY <1>3, <1>6

\* A file that is opened is read from its start.
LEMMA OpenFileKeepsScan ==
    ASSUME NEW lay \in Layouts, NEW old \in [Files -> Nat], NEW n, FilesAre(lay, n),
           OldAre(lay, old), ScanIs(lay, old), NEW f \in Files, OpenFile(f)
    PROVE  ScanIs(lay, old)'
<1>1. /\ step = "open" /\ f \in pending /\ step' = "magic"
      /\ pending' = pending \ {f} /\ file' = f /\ pos' = 1
      /\ UNCHANGED <<disk, growing, found>>
  BY DEF OpenFile, fileVars
<1>2. lay[f] \in Seq(Blocks)
  BY DiskIs
<1>3. 1 \in 1..Len(lay[f]) + 1 /\ 1 = Start(lay[f], 1) /\ \A j \in 1..old[f] : ~(j < 1)
  BY <1>2, StartEnds
<1> QED
  BY <1>1, <1>3 DEF ScanIs, Scanning, ScanDone, FoundHash, FoundOnce, Covered, Noted

\* The scan comes to the starts of blocks only, and reads the magic of each.
LEMMA moveNextKeepsScan ==
    ASSUME NEW lay \in Layouts, NEW old \in [Files -> Nat], NEW n, FilesAre(lay, n),
           OldAre(lay, old), ScanIs(lay, old), moveNext
    PROVE  ScanIs(lay, old)'
<1> DEFINE blocks == lay[file]
           L == Len(blocks)
           d == Len(disk[file])
<1>1. /\ step = "magic" /\ pos' = pos + 1
      /\ step' = IF TokenAt(file, pos) = Magic THEN "block" ELSE "open"
      /\ UNCHANGED <<disk, growing, pending, file, found>>
  BY DEF moveNext, fileVars
<1>2. file \in Files /\ file \notin pending
  BY <1>1 DEF ScanIs, Scanning
<1>3. PICK k \in 1..L + 1 : /\ pos = Start(blocks, k)
                            /\ \A j \in 1..old[file] : j < k => FoundHash(blocks[j])
  BY <1>1 DEF ScanIs
<1>4. /\ blocks \in Seq(Blocks) /\ d \in Nat /\ L \in Nat
      /\ \A m \in 1..L : Start(blocks, m) <= d => Start(blocks, m) + 1 <= d
  BY <1>2, DiskIs DEF Prefix
<1>5. CASE TokenAt(file, pos) = Magic
  <2>1. k # L + 1
    BY <1>2, <1>3, <1>5, ReadsNothingAtEnd
  <2>2. k \in 1..L
    BY <1>4, <2>1
  <2>3. Start(blocks, k) \in Nat /\ ~(Start(blocks, k) > d)
    BY <1>2, <1>3, <1>4, <1>5, <2>2, ReadsAre, WrittenPlaces
  <2>4. pos + 1 = Start(blocks, k) + 1 /\ pos + 1 <= d
    BY <1>3, <1>4, <2>2, <2>3
  <2>5. step' = "block"
    BY <1>1, <1>5
  <2> QED
    BY <1>1, <1>2, <1>3, <2>2, <2>4, <2>5
    DEF ScanIs, Scanning, ScanDone, FoundHash, FoundOnce, Covered, Noted
<1>6. CASE TokenAt(file, pos) # Magic
  <2>1. old[file] \in 0..L /\ Start(blocks, old[file] + 1) <= d + 1
    BY <1>2 DEF OldAre
  <2>2. ~(k <= old[file])
    <3> SUFFICES ASSUME k <= old[file] PROVE FALSE
      OBVIOUS
    <3>1. k \in 1..L /\ k + 1 \in 1..L + 1 /\ old[file] + 1 \in (k + 1)..(L + 1)
      BY <1>4, <2>1
    <3>2. Start(blocks, k + 1) <= Start(blocks, old[file] + 1)
      BY <1>4, <3>1, StartOrder
    <3>3. /\ Start(blocks, k) \in Nat /\ Len(Body(blocks[k])) \in Nat
          /\ Start(blocks, k + 1) = Start(blocks, k) + Len(Body(blocks[k])) + 3
      BY <1>4, <3>1, WrittenPlaces
    <3>4. Start(blocks, old[file] + 1) \in Nat
      BY <1>4, <3>1, StartEnds
    <3>5. Start(blocks, k) <= d
      BY <1>4, <2>1, <3>2, <3>3, <3>4
    <3> QED
      BY <1>2, <1>3, <1>6, <3>1, <3>5, ReadsAre
  <2>3. Covered(blocks, old[file])
    <3>1. \A j \in 1..old[file] : j < k
      BY <1>4, <2>1, <2>2
    <3> QED
      BY <1>3, <3>1 DEF Covered
  <2>4. step' = "open"
    BY <1>1, <1>6
  <2>5. \A f \in Files \ pending : Covered(lay[f], old[f])
    BY <2>3 DEF ScanIs
  <2>6. \A f \in Files \ pending : Covered(lay[f], old[f])'
    BY <1>1, <2>5 DEF Covered, FoundHash
  <2>7. \A i \in 1..Len(found) : Noted(found[i], lay[found[i].file])'
    BY <1>1 DEF ScanIs, Noted
  <2> QED
    BY <1>1, <2>4, <2>6, <2>7 DEF ScanIs, Scanning, ScanDone, FoundOnce
<1> QED
  BY <1>5, <1>6

-----------------------------------------------------------------------------
(* The scan, step by step.                                                 *)

\* Keep adds an entry or puts it in the place of the one with its hash.
LEMMA KeepIs ==
    ASSUME found \in Seq(Entry), FoundOnce, NEW e \in Entry, found' = Keep(e)
    PROVE  /\ found' \in Seq(Entry) /\ FoundOnce'
           /\ \A i \in 1..Len(found') :
                 found'[i] = e \/ \E j \in 1..Len(found) : found'[i] = found[j]
           /\ \A h : FoundHash(h) => FoundHash(h)'
           /\ FoundHash(e.hash)'
<1>1. Len(found) \in Nat /\ DOMAIN found = 1..Len(found)
  OBVIOUS
<1>2. CASE \E i \in DOMAIN found : found[i].hash = e.hash
  <2>1. found' = found
    BY <1>2 DEF Keep
  <2> QED
    BY <1>1, <1>2, <2>1 DEF FoundOnce, FoundHash
<1>3. CASE ~\E i \in DOMAIN found : found[i].hash = e.hash
  <2> HIDE DEF Entry
  <2>1. found' = Append(found, e)
    BY <1>3 DEF Keep
  <2>2. /\ found' \in Seq(Entry) /\ Len(found') = Len(found) + 1
        /\ found'[Len(found) + 1] = e
        /\ \A i \in 1..Len(found) : found'[i] = found[i]
    BY <2>1
  <2>3. \A i \in 1..Len(found') : i \in 1..Len(found) \/ i = Len(found) + 1
    BY <1>1, <2>2
  <2>4. \A i \in 1..Len(found) : i \in 1..Len(found') /\ found'[i].hash # e.hash
    BY <1>1, <1>3, <2>2
  <2>5. FoundOnce'
    <3> SUFFICES ASSUME NEW i \in 1..Len(found'), NEW j \in 1..Len(found'),
                        found'[i].hash = found'[j].hash
                 PROVE  i = j
      BY DEF FoundOnce
    <3>1. CASE i \in 1..Len(found) /\ j \in 1..Len(found)
      BY <2>2, <3>1 DEF FoundOnce
    <3>2. CASE i \notin 1..Len(found) \/ j \notin 1..Len(found)
      BY <2>2, <2>3, <2>4, <3>2
    <3> QED
      BY <3>1, <3>2
  <2>6. Len(found) + 1 \in 1..Len(found')
    BY <1>1, <2>2
  <2> QED
    BY <2>2, <2>3, <2>4, <2>5, <2>6 DEF FoundHash
<1> QED
  BY <1>2, <1>3

\* A block that is noted down stands where the scan is, and the scan goes on
\* behind it or at the end of what is written.
LEMMA scanNextBlockKeepsScan ==
    ASSUME NEW lay \in Layouts, NEW old \in [Files -> Nat], NEW n, FilesAre(lay, n),
           OldAre(lay, old), ScanIs(lay, old), scanNextBlock
    PROVE  ScanIs(lay, old)'
<1>0. PICK blocks, e : blocks = lay[file] /\ e = Scanned(pos + 1)
  OBVIOUS
<1> DEFINE L == Len(blocks)
           d == Len(disk[file])
<1>1. /\ step = "block" /\ found' = Keep(e)
      /\ pos' = pos + 1 + NumberAt(file, pos)
      /\ step' \in {"magic"} \cup IF pos + 1 \in DOMAIN disk[file] THEN {} ELSE {"open"}
      /\ UNCHANGED <<disk, growing, pending, file>>
  BY <1>0 DEF scanNextBlock, fileVars
<1>2. file \in Files /\ file \notin pending /\ found \in Seq(Entry) /\ FoundOnce
  BY <1>1 DEF ScanIs, Scanning
<1>3. PICK k \in 1..L : /\ pos = Start(blocks, k) + 1 /\ pos <= d
                        /\ \A j \in 1..old[file] : j < k => FoundHash(blocks[j])
  BY <1>0, <1>1 DEF ScanIs
<1>4. blocks \in Seq(Blocks) /\ d \in Nat /\ L \in Nat /\ DOMAIN disk[file] = 1..d
  BY <1>0, <1>2, DiskIs DEF Prefix
<1> DEFINE s == Start(blocks, k)
           b == blocks[k]
<1>5. /\ s \in Nat \ {0} /\ Len(Body(b)) \in Nat
      /\ Start(blocks, k + 1) = s + Len(Body(b)) + 3
  BY <1>4, WrittenPlaces
<1>6. /\ b \in Blocks /\ NumberAt(file, s + 1) = 1 + Len(Body(b))
      /\ s + 2 <= d => TokenAt(file, s + 2) = Header(b)
      /\ s + 2 > d => TokenAt(file, s + 2) = Number(0)
  <2>1. s <= d
    BY <1>3, <1>4, <1>5
  <2> QED
    BY <1>0, <1>2, <2>1, ReadsAre
<1>7. pos + 1 = s + 2 /\ pos' = Start(blocks, k + 1)
  <2> DEFINE m == Len(Body(b))
  <2>1. pos' = s + 1 + 1 + (1 + m) /\ pos = s + 1
    BY <1>1, <1>3, <1>6
  <2>2. s \in Nat /\ m \in Nat /\ Start(blocks, k + 1) = s + m + 3
    BY <1>5
  <2> HIDE DEF s, m
  <2> QED
    BY <2>1, <2>2
<1>8. /\ e.file = file /\ e.at = s + 2 /\ e.prev = PrevOf(e.hash) /\ e \in Entry
      /\ s + 2 <= d => e.hash = b
      /\ s + 2 > d => e.hash = ZeroHeader
  <2>1. e = [hash |-> HeaderAt(file, s + 2).hash, prev |-> HeaderAt(file, s + 2).prev,
             file |-> file, at |-> s + 2]
    BY <1>0, <1>7 DEF Scanned
  <2> HIDE DEF d, s, b
  <2>4. s \in Nat /\ d \in Nat /\ s + 2 \in Nat
    BY <1>4, <1>5
  <2>2. CASE s + 2 <= d
    <3>1. TokenAt(file, s + 2) = Header(b)
      BY <1>6, <2>2
    <3>2. HeaderAt(file, s + 2) = [hash |-> b, prev |-> Prev[b]]
      BY <3>1, Kinds DEF HeaderAt
    <3>3. b # ZeroHeader /\ Prev[b] \in Blocks \cup {ZeroHash}
      BY <1>6, FilesAssumption
    <3>4. e = [hash |-> b, prev |-> Prev[b], file |-> file, at |-> s + 2]
      BY <2>1, <3>2
    <3>5. e \in Entry /\ PrevOf(b) = Prev[b]
      BY <1>2, <1>6, <2>4, <3>3, <3>4 DEF Entry, PrevOf
    <3> QED
      BY <2>2, <2>4, <3>4, <3>5
  <2>3. CASE ~(s + 2 <= d)
    <3>1. TokenAt(file, s + 2) = Number(0)
      BY <1>4, <1>5, <1>6, <2>3
    <3>2. HeaderAt(file, s + 2) = [hash |-> ZeroHeader, prev |-> ZeroHash]
      BY <3>1, Kinds DEF HeaderAt
    <3>4. e = [hash |-> ZeroHeader, prev |-> ZeroHash, file |-> file, at |-> s + 2]
      BY <2>1, <3>2
    <3>5. e \in Entry /\ PrevOf(ZeroHeader) = ZeroHash
      BY <1>2, <2>4, <3>4 DEF Entry, PrevOf
    <3> QED
      BY <2>3, <2>4, <3>4, <3>5
  <2> QED
    BY <2>2, <2>3
<1>9. /\ found' \in Seq(Entry) /\ FoundOnce'
      /\ \A i \in 1..Len(found') :
            found'[i] = e \/ \E j \in 1..Len(found) : found'[i] = found[j]
      /\ \A h : FoundHash(h) => FoundHash(h)'
      /\ FoundHash(e.hash)'
  BY <1>1, <1>2, <1>8, KeepIs
<1>10. Noted(e, blocks)
  <2>1. CASE s + 2 <= d
    BY <1>4, <1>5, <1>8, <2>1 DEF Noted
  <2>2. CASE s + 2 > d
    <3>1. file = growing /\ k = L
      <4>1. /\ s + 2 <= Len(Written(blocks)) /\ Len(Written(blocks)) \in Nat
        <5>1. PICK x \in Nat, y \in Nat, w \in Nat :
                  x = s /\ y = Len(Body(b)) /\ w = Len(Written(blocks))
          BY <1>4, <1>5, WholesAre
        <5>2. x + y + 3 <= w + 1
          BY <1>4, <1>5, <5>1, WrittenPlaces
        <5>3. x + 2 <= w
          BY <5>2
        <5> QED
          BY <5>1, <5>3
      <4>2. file = growing
        <5>1. file # growing => disk[file] = Written(blocks)
          BY <1>0, <1>2, DiskIs
        <5> QED
          BY <2>2, <4>1, <5>1, <1>4, <1>5
      <4>3. k # L => k + 1 \in 1..L /\ Start(blocks, k + 1) <= d + 1
        <5>1. Prefix(file, blocks)
          BY <1>0, <1>2, DiskIs
        <5>2. k # L => k + 1 \in 1..L
          BY <1>4
        <5> QED
          BY <5>1, <5>2 DEF Prefix
      <4>4. k = L
        BY <1>4, <1>5, <2>2, <4>3
      <4> QED
        BY <4>2, <4>4
    <3> QED
      BY <1>4, <1>5, <1>8, <2>2, <3>1 DEF Noted
  <2> QED
    BY <1>4, <1>5, <2>1, <2>2
<1>11. \A i \in 1..Len(found') : Noted(found[i], lay[found[i].file])'
  <2>1. ASSUME NEW i \in 1..Len(found') PROVE Noted(found'[i], lay[found'[i].file])
    BY <1>0, <1>8, <1>9, <1>10 DEF ScanIs
  <2> QED
    BY <1>1, <2>1 DEF Noted
<1>12. \A f \in Files \ pending : f # file => Covered(lay[f], old[f])'
  BY <1>1, <1>9 DEF ScanIs, Covered
<1>13. old[file] \in 0..L /\ Start(blocks, old[file] + 1) <= d + 1
  BY <1>0, <1>2 DEF OldAre
<1>14. s + 2 > d => ~(k <= old[file])
  <2> SUFFICES ASSUME s + 2 > d, k <= old[file] PROVE FALSE
    OBVIOUS
  <2>1. k + 1 \in 1..L + 1 /\ old[file] + 1 \in (k + 1)..(L + 1) /\ old[file] + 1 \in 1..L + 1
    BY <1>4, <1>13
  <2>2. Start(blocks, k + 1) <= Start(blocks, old[file] + 1)
        /\ Start(blocks, old[file] + 1) \in Nat
    BY <1>4, <2>1, StartOrder, StartEnds
  <2> QED
    BY <1>4, <1>5, <1>13, <2>2
<1>15. \A j \in 1..old[file] : j < k + 1 => FoundHash(blocks[j])'
  <2> SUFFICES ASSUME NEW j \in 1..old[file], j < k + 1 PROVE FoundHash(blocks[j])'
    OBVIOUS
  <2>1. CASE j < k
    BY <1>3, <1>9, <2>1
  <2>2. CASE ~(j < k)
    <3>1. j = k
      BY <1>4, <1>13, <2>2
    <3>2. s + 2 <= d
      BY <1>4, <1>5, <1>13, <1>14, <3>1
    <3> QED
      BY <1>8, <1>9, <3>1, <3>2
  <2> QED
    BY <2>1, <2>2
<1>16. CASE step' = "magic"
  <2>1. k + 1 \in 1..L + 1
    BY <1>4
  <2>2. (\E m \in 1..Len(lay[file]) + 1 :
             /\ pos = Start(lay[file], m)
             /\ \A j \in 1..old[file] : j < m => FoundHash(lay[file][j]))'
    BY <1>0, <1>1, <1>7, <1>15, <2>1
  <2>3. (\A f \in Files \ pending : (f = file /\ Scanning) \/ Covered(lay[f], old[f]))'
    BY <1>1, <1>12, <1>16 DEF Scanning
  <2> QED
    BY <1>1, <1>2, <1>9, <1>11, <1>16, <2>2, <2>3 DEF ScanIs, Scanning, ScanDone
<1>17. CASE step' = "open"
  <2>1. s + 2 > d
    BY <1>1, <1>4, <1>5, <1>7, <1>17
  <2>2. \A j \in 1..old[file] : j < k + 1
    BY <1>4, <1>13, <1>14, <2>1
  <2>3. Covered(blocks, old[file])'
    BY <1>1, <1>15, <2>2 DEF Covered
  <2>4. \A f \in Files \ pending' : Covered(lay[f], old[f])'
    BY <1>0, <1>1, <1>12, <2>3
  <2> QED
    BY <1>1, <1>2, <1>9, <1>11, <1>17, <2>4 DEF ScanIs, Scanning, ScanDone
<1> QED
  BY <1>1, <1>16, <1>17

\* What holds of the files and the scan.
FilesInv == \E lay \in Layouts, old \in [Files -> Nat], n \in 0..4 :
                FilesAre(lay, n) /\ OldAre(lay, old) /\ ScanIs(lay, old)

\* At the start what is found is right.
LEMMA FilesInvStart == FilesInit /\ ScanInit => FilesInv
<1> SUFFICES ASSUME FilesInit, ScanInit PROVE FilesInv
  OBVIOUS
<1>1. PICK lay \in Layouts, n \in 0..4 :
              /\ FilesAre(lay, n)
              /\ stored = (UNION {ToSet(lay[g]) : g \in Files \ {growing}})
                          \cup ToSet(IF n = 4 THEN lay[growing] ELSE Front(lay[growing]))
  BY FilesStart
<1>2. PICK old \in [Files -> Nat] : OldAre(lay, old)
  BY <1>1, OldStart
<1>3. ScanIs(lay, old)
  BY <1>1, ScanStart
<1> QED
  BY <1>1, <1>2, <1>3 DEF FilesInv

\* It stays so through the steps of the daemon and of the scan.
LEMMA FilesInvKept ==
    FilesInv /\ (DaemonWrites \/ ScanStep \/ UNCHANGED <<fileVars, scanVars>>) => FilesInv'
<1> SUFFICES ASSUME FilesInv, DaemonWrites \/ ScanStep \/ UNCHANGED <<fileVars, scanVars>>
             PROVE  FilesInv'
  OBVIOUS
<1>1. PICK lay \in Layouts, old \in [Files -> Nat], n \in 0..4 :
          FilesAre(lay, n) /\ OldAre(lay, old) /\ ScanIs(lay, old)
  BY DEF FilesInv
<1>2. CASE DaemonWrites
  <2>1. n + 1 \in 0..4 /\ FilesAre(lay, n + 1)' /\ OldAre(lay, old)' /\ ScanIs(lay, old)'
    BY <1>1, <1>2, FilesGrow, DaemonKeepsScan
  <2> QED
    BY <2>1 DEF FilesInv
<1>3. CASE ScanStep
  <2>1. UNCHANGED fileVars
    BY <1>3 DEF ScanStep, OpenFile, moveNext, scanNextBlock
  <2>2. FilesAre(lay, n)' /\ OldAre(lay, old)'
    BY <1>1, <2>1 DEF fileVars, FilesAre, OldAre
  <2>3. ScanIs(lay, old)'
    BY <1>1, <1>3, OpenFileKeepsScan, moveNextKeepsScan, scanNextBlockKeepsScan DEF ScanStep
  <2> QED
    BY <2>2, <2>3 DEF FilesInv
<1>4. CASE UNCHANGED <<fileVars, scanVars>>
  <2>1. UNCHANGED <<disk, stored, unwritten, growing, pending, file, pos, step, found>>
    BY <1>4 DEF fileVars, scanVars
  <2>2. FilesAre(lay, n)' /\ OldAre(lay, old)'
    BY <1>1, <2>1 DEF FilesAre, OldAre
  <2>3. ScanIs(lay, old)'
    BY <1>1, <2>1 DEF ScanIs, Scanning, ScanDone, FoundHash, FoundOnce, Covered, Noted
  <2> QED
    BY <2>2, <2>3 DEF FilesInv
<1> QED
  BY <1>2, <1>3, <1>4

\* After the scan only the step changes.
LEMMA FilesInvAfter ==
    ASSUME FilesInv, UNCHANGED <<fileVars, pending, file, pos, found>>,
           step \notin {"magic", "block"}, pending = {} \/ ScanDone, ScanDone'
    PROVE  FilesInv'
<1>1. PICK lay \in Layouts, old \in [Files -> Nat], n \in 0..4 :
          FilesAre(lay, n) /\ OldAre(lay, old) /\ ScanIs(lay, old)
  BY DEF FilesInv
<1>2. FilesAre(lay, n)' /\ OldAre(lay, old)'
  BY <1>1 DEF fileVars, FilesAre, OldAre
<1>3. step' \notin {"magic", "block"}
  BY DEF ScanDone
<1>4. \A i \in 1..Len(found) : Noted(found[i], lay[found[i].file])'
  BY <1>1 DEF fileVars, ScanIs, Noted
<1>5. ScanIs(lay, old)'
  BY <1>1, <1>3, <1>4 DEF fileVars, ScanIs, Scanning, ScanDone, FoundHash, FoundOnce, Covered
<1> QED
  BY <1>2, <1>5 DEF FilesInv

\* Then every stored block is found, once, where its header stands.
LEMMA FilesInvMeansFound == FilesInv => FoundWhereStored
<1> SUFFICES ASSUME FilesInv PROVE FoundWhereStored
  OBVIOUS
<1>1. PICK lay \in Layouts, old \in [Files -> Nat], n \in 0..4 :
          FilesAre(lay, n) /\ OldAre(lay, old) /\ ScanIs(lay, old)
  BY DEF FilesInv
<1>2. found \in Seq(Entry) /\ FoundOnce /\ DOMAIN found = 1..Len(found)
  BY <1>1 DEF ScanIs
<1>3. ASSUME ScanDone PROVE stored \subseteq {found[i].hash : i \in DOMAIN found}
  <2>1. pending = {} /\ ~Scanning
    BY <1>1, <1>3 DEF ScanIs, ScanDone, Scanning
  <2>2. \A f \in Files : Covered(lay[f], old[f])
    BY <1>1, <2>1 DEF ScanIs
  <2>3. ASSUME NEW b \in stored PROVE b \in {found[i].hash : i \in DOMAIN found}
    <3>1. PICK f \in Files : \E k \in 1..old[f] : b = lay[f][k]
      BY <1>1 DEF OldAre
    <3>2. FoundHash(b)
      BY <2>2, <3>1 DEF Covered
    <3> QED
      BY <1>2, <3>2 DEF FoundHash
  <2> QED
    BY <2>3
<1>4. ASSUME NEW i \in DOMAIN found, found[i].hash # ZeroHeader
      PROVE  TokenAt(found[i].file, found[i].at) = Header(found[i].hash)
  <2> DEFINE e == found[i]
             blocks == lay[e.file]
  <2>1. e.file \in Files /\ Noted(e, blocks)
    <3>1. e \in Entry
      BY <1>2, <1>4
    <3> QED
      BY <1>1, <1>2, <1>4, <3>1 DEF ScanIs, Entry
  <2>2. PICK k \in 1..Len(blocks) :
          e.at = Start(blocks, k) + 2 /\ e.hash = blocks[k] /\ e.at <= Len(disk[e.file])
    BY <1>4, <2>1 DEF Noted
  <2> QED
    BY <1>1, <2>1, <2>2, ReadsAre
<1> QED
  BY <1>2, <1>3, <1>4 DEF FoundWhereStored, FoundOnce

-----------------------------------------------------------------------------
(* Reading a part of a block again.                                        *)

\* At p in file f stands what s is.
Stands(f, p, s) ==
    /\ disk[f] \in Seq(Token) /\ p \in Nat \ {0} /\ p + Len(s) <= Len(disk[f]) + 1
    /\ \A i \in 1..Len(s) : disk[f][p - 1 + i] = s[i]

\* What stands in the file is read there.
LEMMA StandsReads ==
    ASSUME NEW f, NEW p, NEW s \in Seq(Token), Stands(f, p, s)
    PROVE  \A i \in 1..Len(s) : TokenAt(f, p - 1 + i) = s[i]
<1> HIDE DEF Token
<1>1. /\ disk[f] \in Seq(Token) /\ p \in Nat \ {0} /\ p + Len(s) <= Len(disk[f]) + 1
      /\ \A i \in 1..Len(s) : disk[f][p - 1 + i] = s[i]
  BY DEF Stands
<1>2. Len(s) \in Nat /\ Len(disk[f]) \in Nat /\ DOMAIN disk[f] = 1..Len(disk[f])
  BY <1>1
<1>3. \A i \in 1..Len(s) : p - 1 + i \in 1..Len(disk[f])
  BY <1>1, <1>2
<1> QED
  BY <1>1, <1>2, <1>3 DEF TokenAt

\* A part of what stands there.
LEMMA StandsPart ==
    ASSUME NEW f, NEW p, NEW s \in Seq(Token), Stands(f, p, s),
           NEW k \in Nat, NEW u \in Seq(Token), k + Len(u) <= Len(s),
           \A i \in 1..Len(u) : s[k + i] = u[i]
    PROVE  Stands(f, p + k, u)
<1> HIDE DEF Token
<1>1. /\ disk[f] \in Seq(Token) /\ p \in Nat \ {0} /\ p + Len(s) <= Len(disk[f]) + 1
      /\ \A i \in 1..Len(s) : disk[f][p - 1 + i] = s[i]
  BY DEF Stands
<1>2. Len(s) \in Nat /\ Len(u) \in Nat /\ Len(disk[f]) \in Nat
  BY <1>1
<1>3. ASSUME NEW i \in 1..Len(u) PROVE disk[f][p + k - 1 + i] = u[i]
  <2>1. PICK j : j = k + i
    OBVIOUS
  <2>2. j \in 1..Len(s) /\ p - 1 + j = p + k - 1 + i
    BY <1>1, <1>2, <2>1
  <2>3. disk[f][p - 1 + j] = s[j] /\ s[j] = u[i]
    BY <1>1, <2>1, <2>2
  <2> QED
    BY <2>2, <2>3
<1>4. p + k \in Nat \ {0} /\ p + k + Len(u) <= Len(disk[f]) + 1
  BY <1>1, <1>2
<1> QED
  BY <1>1, <1>3, <1>4 DEF Stands

\* What is read between its ends.
LEMMA StandsBetween ==
    ASSUME NEW f, NEW p, NEW s \in Seq(Token), Stands(f, p, s), NEW q, q = p + Len(s)
    PROVE  Between(f, p, q) = s
<1> HIDE DEF Token
<1> DEFINE d == disk[f]
           n == Len(s)
           part == SubSeq(d, p, q - 1)
<1>1. /\ d \in Seq(Token) /\ p \in Nat \ {0} /\ p + n <= Len(d) + 1
      /\ \A i \in 1..n : d[p - 1 + i] = s[i]
  BY DEF Stands
<1>2. n \in Nat /\ Len(d) \in Nat /\ q \in Nat \ {0} /\ q - 1 <= Len(d) /\ q - p = n /\ q - 1 \in Nat
  BY <1>1
<1>3. \A i \in 1..Len(d) : d[i] \in Token
  BY <1>1, ElementOfSeq
<1>4. part \in Seq(Token) /\ Len(part) = n /\ \A i \in 1..n : part[i] = s[i]
  <2> HIDE DEF d
  <2>1. \A i \in p..(q - 1) : d[i] \in Token
    BY <1>1, <1>2, <1>3
  <2>2. /\ part \in Seq(Token)
        /\ Len(part) = IF p <= q - 1 THEN q - 1 - p + 1 ELSE 0
        /\ \A i \in 1..(q - 1 - p + 1) : part[i] = d[p + i - 1]
    BY <1>1, <1>2, <2>1, SubSeqProperties
  <2>3. Len(part) = n /\ q - 1 - p + 1 = n
    BY <1>1, <1>2, <2>2
  <2>4. \A i \in 1..n : p + i - 1 = p - 1 + i
    BY <1>1, <1>2
  <2> QED
    BY <1>1, <2>2, <2>3, <2>4
<1>5. (IF q <= Len(d) THEN q - 1 ELSE Len(d)) = q - 1
  BY <1>1, <1>2, SMTT(60)
<1>6. part = s
  <2> HIDE DEF part, n
  <2> QED
    BY <1>4 DEF n
<1>7. Between(f, p, q) = part \o [i \in 1..(q - p - Len(part)) |-> Number(0)]
  BY <1>5 DEF Between
<1>8. [i \in 1..(q - p - Len(part)) |-> Number(0)] = <<>>
  <2>1. PICK m : m = q - p - Len(part)
    OBVIOUS
  <2>2. m = 0
    <3> HIDE DEF part, n, d
    <3> QED
      BY <1>2, <1>4, <2>1
  <2>3. [i \in 1..m |-> Number(0)] = <<>>
    BY <2>2
  <2> QED
    BY <2>1, <2>3
<1> HIDE DEF part
<1> QED
  BY <1>6, <1>7, <1>8, ConcatEmptySeq

\* Sequences put together are a sequence.
LEMMA JoinedIn ==
    ASSUME NEW S, NEW ss \in Seq(Seq(S)), NEW k \in 0..Len(ss)
    PROVE  Joined(ss, k) \in Seq(S) /\ Len(Joined(ss, k)) \in Nat
<1>1. Joined(ss, k) \in Seq(S)
  BY JoinedSteps
<1> QED
  BY <1>1, LenProperties

\* The witnesses are stepped over input by input.
Skips(f, n, end, h) ==
    h = [i \in 0..n |-> IF i = 0 THEN end ELSE LET at == h[i - 1] IN at + 1 + NumberAt(f, at)]

\* Reading over the witnesses ends behind the last one.
LEMMA WitnessesSkipped ==
    ASSUME NEW f, NEW t \in Txs, NEW end, Stands(f, end, Wits(t)), Witness[t] # <<>>,
           NEW g, g = CHOOSE h : Skips(f, Ins(t), end, h)
    PROVE  g[Ins(t)] = end + Len(Wits(t))
<1> DEFINE ss == WitnessLists(t)
           n == Ins(t)
           Rec(h) == h = [i \in 0..n |->
                  IF i = 0 THEN end ELSE LET at == h[i - 1] IN at + 1 + NumberAt(f, at)]
           z == [i \in 0..n |-> end + Len(Joined(ss, i))]
<1>1. /\ n \in Nat \ {0} /\ ss \in Seq(Seq(Token)) /\ Len(ss) = n
      /\ Wits(t) = FlattenSeq(ss) /\ Wits(t) \in Seq(Token)
      /\ \A i \in 1..n : Witness[t][i] \in Nat /\ ss[i] = WitnessItems(Witness[t][i])
  <2>1. Len(Witness[t]) = Len(Inputs[t])
    BY FilesAssumption
  <2>2. Witness[t] \in Seq(Nat) /\ Inputs[t] \in Seq(Outpoint)
    BY FilesAssumption DEF Outpoint
  <2>3. Inputs[t] # <<>>
    BY <2>1, <2>2
  <2>4. n = Len(Inputs[t]) /\ n \in Nat \ {0}
    BY <2>3, InputTokensAre DEF Ins
  <2> QED
    BY <2>1, <2>4, WitnessListsAre DEF Wits
<1>2. end \in Nat
  BY DEF Stands
<1> HIDE DEF ss, n, Token
<1>3. /\ Joined(ss, 0) = <<>> /\ Joined(ss, n) = Wits(t)
      /\ \A i \in 0..n : Len(Joined(ss, i)) \in Nat
  <2>1. ss \in Seq(Seq(Token))
    BY <1>1
  <2> QED
    BY <1>1, <2>1, JoinedSteps, JoinedIn
<1>4. \A i \in 0..n : z[i] \in Nat
  BY <1>2, <1>3
<1>5. z[0] = end /\ z[n] = end + Len(Wits(t))
  <2>1. 0 \in 0..n /\ n \in 0..n
    BY <1>1
  <2>2. z[0] = end + Len(Joined(ss, 0)) /\ z[n] = end + Len(Joined(ss, n))
    BY <2>1
  <2>3. Len(<<>>) = 0 /\ end + 0 = end
    BY <1>2
  <2> QED
    BY <1>3, <2>2, <2>3
<1>6. ASSUME NEW i \in 1..n PROVE z[i] = z[i - 1] + 1 + NumberAt(f, z[i - 1])
  <2> DEFINE u == ss[i]
             a == Len(Joined(ss, i - 1))
             m == Witness[t][i]
  <2>1. u = WitnessItems(m) /\ m \in Nat
    BY <1>1
  <2>2. u \in Seq(Token) /\ Len(u) = m + 1 /\ u[1] = Number(m)
    BY <2>1, WitnessItemsAre
  <2>3. /\ a \in Nat /\ Len(Joined(ss, i)) = a + Len(u) /\ Len(Joined(ss, i)) <= Len(Wits(t))
        /\ \A j \in 1..Len(u) : Wits(t)[a + j] = u[j]
    <3>1. ss \in Seq(Seq(Token)) /\ i \in 1..Len(ss)
      BY <1>1
    <3>2. /\ a \in Nat /\ Len(Joined(ss, i)) = a + Len(u)
          /\ Len(Joined(ss, i)) <= Len(FlattenSeq(ss))
          /\ \A j \in 1..Len(u) : FlattenSeq(ss)[a + j] = u[j]
      BY <3>1, FlattenPlaces
    <3> QED
      BY <1>1, <3>2
  <2>4. i - 1 \in 0..n /\ i \in 0..n
    BY <1>1
  <2>5. z[i - 1] = end + a /\ z[i] = end + Len(Joined(ss, i))
    BY <2>4
  <2> HIDE DEF u, a, z, m
  <2>6. Stands(f, end + a, u)
    <3>1. a + Len(u) <= Len(Wits(t))
      BY <2>3
    <3> QED
      BY <1>1, <2>2, <2>3, <3>1, StandsPart
  <2>7. PICK q : q = end + a
    OBVIOUS
  <2>8. TokenAt(f, z[i - 1]) = Number(m)
    <3>1. 1 \in 1..Len(u)
      BY <2>1, <2>2
    <3>2. u \in Seq(Token) /\ Stands(f, q, u)
      BY <2>2, <2>6, <2>7
    <3>3. \A j \in 1..Len(u) : TokenAt(f, q - 1 + j) = u[j]
      BY <3>2, StandsReads
    <3>40. PICK j \in 1..Len(u) : j = 1
      BY <3>1
    <3>4. PICK r : j \in 1..Len(u) /\ j = 1 /\ r = q - 1 + j
      BY <3>40
    <3>5. TokenAt(f, r) = u[j]
      BY <3>3, <3>4
    <3>6. r = z[i - 1]
      BY <1>2, <2>3, <2>5, <2>7, <3>4
    <3> QED
      BY <2>2, <3>4, <3>5, <3>6
  <2>9. NumberAt(f, z[i - 1]) = m
    BY <2>8, Kinds DEF NumberAt
  <2> QED
    BY <1>2, <2>1, <2>2, <2>3, <2>5, <2>9
<1>7. Rec(z)
  <2>1. z = [i \in 0..n |-> z[i]]
    OBVIOUS
  <2> HIDE DEF z
  <2>2. \A i \in 0..n : z[i] = IF i = 0 THEN end ELSE LET at == z[i - 1] IN at + 1 + NumberAt(f, at)
    <3>1. \A i \in 0..n : i # 0 => i \in 1..n
      BY <1>1
    <3> QED
      BY <1>5, <1>6, <3>1
  <2> QED
    BY <2>1, <2>2
<1>8. Rec(g)
  <2>1. g = CHOOSE h : Rec(h)
    BY DEF n, Skips
  <2> HIDE DEF Rec
  <2> QED
    BY <1>7, <2>1
<1>9. g[0] = end /\ \A i \in 1..n : g[i] = g[i - 1] + 1 + NumberAt(f, g[i - 1])
  <2>1. \A i \in 0..n : g[i] = IF i = 0 THEN end ELSE LET at == g[i - 1] IN at + 1 + NumberAt(f, at)
    BY <1>8
  <2>2. 0 \in 0..n /\ \A i \in 1..n : i \in 0..n /\ i # 0
    BY <1>1
  <2> HIDE DEF Rec
  <2> QED
    BY <2>1, <2>2
<1> HIDE DEF Rec, z
<1> DEFINE T == {i \in Nat : i \in 0..n => g[i] = z[i]}
<1>10. 0 \in T
  BY <1>5, <1>9
<1>11. ASSUME NEW i \in Nat, i \in T PROVE i + 1 \in T
  <2> SUFFICES ASSUME i + 1 \in 0..n PROVE g[i + 1] = z[i + 1]
    OBVIOUS
  <2>1. PICK j : j = i + 1
    OBVIOUS
  <2>2. j \in 1..n /\ j - 1 = i /\ i \in 0..n
    BY <1>1, <2>1
  <2> QED
    BY <1>6, <1>9, <1>11, <2>1, <2>2
<1>12. n \in T
  <2> HIDE DEF T
  <2> QED
    BY <1>1, <1>10, <1>11, Induction
<1> QED
  BY <1>1, <1>5, <1>12 DEF n

-----------------------------------------------------------------------------
(* Reading a transaction again.                                            *)

\* The parts of a transaction, at p in file f.
Places(t, p, start, end, lock) ==
    /\ start = p + Len(Lead(t)) /\ end = start + Ins(t) + Outs(t) + 2
    /\ lock = end + Len(Wits(t))
    /\ p \in Nat /\ start \in Nat /\ end \in Nat /\ lock \in Nat

\* The parts of a transaction stand where the ones before them end.
LEMMA PartsStand ==
    ASSUME NEW f, NEW p, NEW t \in Txs, NEW start, NEW end, NEW lock,
           Stands(f, p, Serialized(t)), Places(t, p, start, end, lock)
    PROVE  /\ Stands(f, p, <<Version>>) /\ Stands(f, start, InsAndOuts(t))
           /\ Stands(f, end, Wits(t)) /\ Stands(f, lock, <<LockTime>>)
           /\ lock + 1 = p + Len(Serialized(t))
<1> DEFINE s == Serialized(t)
           a == Lead(t)
           b == InsAndOuts(t)
           c == Wits(t)
           d == <<LockTime>>
<1>1. /\ s \in Seq(Token) /\ Len(s) = Len(a) + Len(b) + Len(c) + 1
      /\ \A i \in 1..Len(a) : s[i] = a[i]
      /\ \A i \in 1..Len(b) : s[Len(a) + i] = b[i]
      /\ \A i \in 1..Len(c) : s[Len(a) + Len(b) + i] = c[i]
      /\ s[Len(a) + Len(b) + Len(c) + 1] = LockTime
  BY SerializedIs
<1>2. /\ Len(a) \in Nat \ {0} /\ a[1] = Version
  BY LeadIs
<1>3. /\ b \in Seq(Token) /\ Len(b) \in Nat /\ Len(b) = Ins(t) + Outs(t) + 2
      /\ c \in Seq(Token) /\ Len(c) \in Nat /\ Ins(t) \in Nat /\ Outs(t) \in Nat
  BY InsAndOutsAre, WitnessListsAre
<1>4. <<Version>> \in Seq(Token) /\ Len(<<Version>>) = 1 /\ <<Version>>[1] = Version
      /\ d \in Seq(Token) /\ Len(d) = 1 /\ d[1] = LockTime
  BY TokensAre, One DEF Version, LockTime
<1> DEFINE v == <<Version>>
<1>5. Stands(f, p, s) /\ Places(t, p, start, end, lock)
  OBVIOUS
<1> HIDE DEF s, a, b, c, d, v, Token
<1>6. /\ start = p + Len(a) /\ end = start + Len(b) /\ lock = end + Len(c) /\ p \in Nat
  BY <1>3, <1>5, SMTT(60) DEF Places, a, c
<1>12. PICK la \in Nat, lb \in Nat, lc \in Nat : la = Len(a) /\ lb = Len(b) /\ lc = Len(c)
  BY <1>2, <1>3
<1>13. /\ start = p + la /\ end = start + lb /\ lock = end + lc /\ p \in Nat
       /\ Len(s) = la + lb + lc + 1
  BY <1>1, <1>6, <1>12
<1>7. Stands(f, p, v)
  <2>1. v \in Seq(Token) /\ 0 + Len(v) <= Len(s) /\ \A i \in 1..Len(v) : s[0 + i] = v[i]
    <3>1. Len(v) = 1 /\ v[1] = Version /\ v \in Seq(Token)
      BY <1>4 DEF v
    <3>2. 1 \in 1..Len(a) /\ s[1] = Version
      BY <1>1, <1>2
    <3> QED
      BY <1>1, <1>2, <1>3, <3>1, <3>2
  <2>2. PICK k \in Nat : k = 0
    OBVIOUS
  <2>3. k + Len(v) <= Len(s) /\ \A i \in 1..Len(v) : s[k + i] = v[i]
    BY <2>1, <2>2
  <2>4. Stands(f, p + k, v)
    BY <1>1, <1>5, <2>1, <2>3, StandsPart
  <2> QED
    BY <1>6, <2>2, <2>4
<1>8. Stands(f, start, b)
  <2>1. PICK k \in Nat : k = Len(a)
    BY <1>2
  <2>2. k + Len(b) <= Len(s) /\ \A i \in 1..Len(b) : s[k + i] = b[i]
    BY <1>1, <1>2, <1>3, <2>1
  <2>3. Stands(f, p + k, b)
    BY <1>1, <1>3, <1>5, <2>2, StandsPart
  <2> QED
    BY <1>6, <2>1, <2>3
<1>9. Stands(f, end, c)
  <2>1. PICK k \in Nat : k = Len(a) + Len(b)
    BY <1>2, <1>3
  <2>2. k + Len(c) <= Len(s) /\ \A i \in 1..Len(c) : s[k + i] = c[i]
    BY <1>1, <1>2, <1>3, <2>1
  <2>3. Stands(f, p + k, c)
    BY <1>1, <1>3, <1>5, <2>2, StandsPart
  <2>4. p + k = end
    BY <1>2, <1>3, <1>6, <2>1, SMTT(60)
  <2> QED
    BY <2>3, <2>4
<1>10. Stands(f, lock, d)
  <2>1. PICK k \in Nat : k = Len(a) + Len(b) + Len(c)
    BY <1>2, <1>3
  <2>6. k + 1 = Len(s) /\ s[k + 1] = LockTime
    BY <1>1, <2>1
  <2>7. Len(d) = 1 /\ d[1] = LockTime
    BY <1>4
  <2>2. k + Len(d) <= Len(s) /\ \A i \in 1..Len(d) : s[k + i] = d[i]
    <3>1. \A i \in 1..1 : i = 1
      OBVIOUS
    <3> QED
      BY <2>6, <2>7, <3>1
  <2>3. Stands(f, p + k, d)
    BY <1>1, <1>4, <1>5, <2>2, StandsPart
  <2>5. k = la + lb + lc
    BY <1>12, <2>1
  <2>4. p + k = lock
    BY <1>13, <2>5
  <2> QED
    BY <2>3, <2>4
<1>11. lock + 1 = p + Len(s)
  BY <1>13
<1> QED
  BY <1>7, <1>8, <1>9, <1>10, <1>11 DEF s, b, c, d, v

\* A number that stands in the file is read there.
LEMMA NumberStands ==
    ASSUME NEW f, NEW p, NEW s \in Seq(Token), Stands(f, p, s),
           NEW i \in 1..Len(s), NEW n, s[i] = Number(n), NEW q, q = p - 1 + i
    PROVE  NumberAt(f, q) = n
<1>1. TokenAt(f, q) = Number(n)
  BY StandsReads
<1> QED
  BY <1>1, Kinds DEF NumberAt

\* readTransaction reads what the daemon writes: a transaction, wherever it
\* stands in a file, with the hash it has on the network, its inputs and its
\* outputs, with witnesses or without, up to where it ends.
THEOREM TransactionRead ==
    ASSUME NEW f, NEW p, NEW t \in Txs, Stands(f, p, Serialized(t))
    PROVE  readTransaction(f, p) =
             [hash |-> t, inputs |-> InputTokens(t), outputs |-> OutputTokens(t),
              next |-> p + Len(Serialized(t))]
<1> DEFINE segwit == NumberAt(f, p + 1) = 0 /\ NumberAt(f, p + 2) # 0
           start0 == IF segwit THEN p + 3 ELSE p + 1
           outs0 == start0 + 1 + NumberAt(f, start0)
           end0 == outs0 + 1 + NumberAt(f, outs0)
           skip == CHOOSE h : h = [i \in 0..NumberAt(f, start0) |->
                      IF i = 0 THEN end0 ELSE LET at == h[i - 1] IN at + 1 + NumberAt(f, at)]
           lock0 == IF segwit THEN skip[NumberAt(f, start0)] ELSE end0
<1>1. readTransaction(f, p) =
        [hash |-> HashOf(Between(f, p, p + 1) \o Between(f, start0, end0)
                         \o Between(f, lock0, lock0 + 1)),
         inputs |-> Between(f, start0 + 1, outs0),
         outputs |-> Between(f, outs0 + 1, end0),
         next |-> lock0 + 1]
  BY DEF readTransaction
<1> HIDE DEF Token
<1>2. p \in Nat /\ Ins(t) \in Nat \ {0} /\ Outs(t) \in Nat
      /\ Len(Wits(t)) \in Nat /\ Len(Lead(t)) = IF Witness[t] = <<>> THEN 1 ELSE 3
  BY InsAndOutsAre, WitnessListsAre, LeadIs DEF Stands
<1>3. PICK start, end, lock : Places(t, p, start, end, lock)
  <2>1. PICK la \in Nat, lc \in Nat, m \in Nat, n \in Nat :
           la = Len(Lead(t)) /\ lc = Len(Wits(t)) /\ m = Ins(t) /\ n = Outs(t)
    BY <1>2
  <2>2. PICK start \in Nat, end \in Nat, lock \in Nat :
           start = p + la /\ end = start + m + n + 2 /\ lock = end + lc
    <3>1. p \in Nat
      BY <1>2
    <3> QED
      BY <3>1
  <2>3. Places(t, p, start, end, lock)
    BY <1>2, <2>1, <2>2 DEF Places
  <2> QED
    BY <2>3
<1>4. /\ Stands(f, p, <<Version>>) /\ Stands(f, start, InsAndOuts(t))
      /\ Stands(f, end, Wits(t)) /\ Stands(f, lock, <<LockTime>>)
      /\ lock + 1 = p + Len(Serialized(t))
  BY <1>3, PartsStand
<1>5. /\ start = p + Len(Lead(t)) /\ end = start + Ins(t) + Outs(t) + 2
      /\ lock = end + Len(Wits(t))
      /\ p \in Nat /\ start \in Nat /\ end \in Nat /\ lock \in Nat
  BY <1>3 DEF Places
<1> DEFINE b == InsAndOuts(t)
<1>6. /\ b \in Seq(Token) /\ Len(b) = Ins(t) + Outs(t) + 2
      /\ b[1] = Number(Ins(t)) /\ b[Ins(t) + 2] = Number(Outs(t))
      /\ \A i \in 1..Ins(t) : b[i + 1] = InputTokens(t)[i]
      /\ \A i \in 1..Outs(t) : b[Ins(t) + 2 + i] = OutputTokens(t)[i]
  BY InsAndOutsAre
<1>7. /\ InputTokens(t) \in Seq(Token) /\ Len(InputTokens(t)) = Ins(t)
      /\ OutputTokens(t) \in Seq(Token) /\ Len(OutputTokens(t)) = Outs(t)
  BY InputTokensAre, OutputTokensAre DEF Ins, Outs
<1> HIDE DEF b
<1>19. PICK m \in Nat, n \in Nat : m = Ins(t) /\ n = Outs(t)
  BY <1>2
<1>20. end = start + m + n + 2 /\ start \in Nat /\ end \in Nat
  BY <1>5, <1>19
<1>8. NumberAt(f, start) = Ins(t) /\ NumberAt(f, start + 1 + Ins(t)) = Outs(t)
  <2>1. PICK i \in 1..Len(b), j \in 1..Len(b) : i = 1 /\ j = Ins(t) + 2
    BY <1>2, <1>6
  <2>2. b[i] = Number(Ins(t)) /\ b[j] = Number(Outs(t)) /\ b \in Seq(Token) /\ Stands(f, start, b)
    BY <1>4, <1>6, <2>1 DEF b
  <2>3. start = start - 1 + i /\ start + 1 + Ins(t) = start - 1 + j
    <3>1. start + 1 + m = start - 1 + j /\ start = start - 1 + i
      BY <1>19, <1>20, <2>1
    <3> QED
      BY <1>19, <3>1
  <2> QED
    BY <2>2, <2>3, NumberStands
<1>9. segwit <=> Witness[t] # <<>>
  <2> DEFINE s == Serialized(t)
             a == Lead(t)
  <2>1. /\ s \in Seq(Token) /\ Stands(f, p, s) /\ Len(s) = Len(a) + Len(b) + Len(Wits(t)) + 1
        /\ \A i \in 1..Len(a) : s[i] = a[i]
        /\ \A i \in 1..Len(b) : s[Len(a) + i] = b[i]
    BY SerializedIs DEF b
  <2> HIDE DEF s, a
  <2>2. CASE Witness[t] = <<>>
    <3>1. PICK i \in 1..Len(b), j \in 1..Len(s) : i = 1 /\ j = 2
      BY <1>2, <1>6, <2>1, <2>2 DEF a
    <3>2. Len(a) + i = j /\ p + 1 = p - 1 + j
      BY <1>2, <2>2, <3>1 DEF a
    <3>3. s[j] = Number(Ins(t))
      BY <1>6, <2>1, <3>1, <3>2
    <3>4. NumberAt(f, p + 1) = Ins(t)
      BY <2>1, <3>2, <3>3, NumberStands
    <3> QED
      BY <1>2, <2>2, <3>4
  <2>3. CASE Witness[t] # <<>>
    <3>1. a[2] = Number(0) /\ a[3] = Number(1) /\ Len(a) = 3
      BY <2>3, LeadIs DEF a
    <3>2. PICK i \in 1..Len(s), j \in 1..Len(s) : i = 2 /\ j = 3
      BY <1>2, <1>6, <2>1, <3>1
    <3>3. i \in 1..Len(a) /\ j \in 1..Len(a) /\ p + 1 = p - 1 + i /\ p + 2 = p - 1 + j
      BY <1>2, <3>1, <3>2
    <3>4. s[i] = Number(0) /\ s[j] = Number(1)
      BY <2>1, <3>1, <3>2, <3>3
    <3>5. NumberAt(f, p + 1) = 0 /\ NumberAt(f, p + 2) = 1
      BY <2>1, <3>3, <3>4, NumberStands
    <3> QED
      BY <2>3, <3>5
  <2> QED
    BY <2>2, <2>3
<1>10. start0 = start
  BY <1>2, <1>5, <1>9
<1>11. outs0 = start + 1 + Ins(t)
  BY <1>8, <1>10
<1>12. end0 = end
  <2>1. end0 = start + 1 + Ins(t) + 1 + Outs(t)
    BY <1>8, <1>11
  <2> HIDE DEF end0
  <2> QED
    BY <1>2, <1>5, <2>1, SMTT(60)
<1>13. lock0 = lock
  <2>1. CASE Witness[t] = <<>>
    <3>1. Wits(t) = <<>>
      BY <2>1, WitnessListsAre
    <3>2. lock = end
      BY <1>5, <3>1
    <3> QED
      BY <1>9, <1>12, <2>1, <3>2
  <2>2. CASE Witness[t] # <<>>
    <3>1. skip = CHOOSE h : Skips(f, Ins(t), end, h)
      <4> HIDE DEF start0, end0
      <4> QED
        BY <1>8, <1>10, <1>12 DEF Skips
    <3> HIDE DEF skip, segwit, start0, end0
    <3>2. skip[Ins(t)] = end + Len(Wits(t))
      <4>1. Stands(f, end, Wits(t))
        BY <1>4
      <4> QED
        BY <2>2, <3>1, <4>1, WitnessesSkipped
    <3> QED
      BY <1>5, <1>8, <1>9, <1>10, <2>2, <3>2
  <2> QED
    BY <2>1, <2>2
<1> HIDE DEF segwit, start0, outs0, end0, skip, lock0
<1> DEFINE v == <<Version>>
           d == <<LockTime>>
<1>14. v \in Seq(Token) /\ Len(v) = 1 /\ d \in Seq(Token) /\ Len(d) = 1
  BY TokensAre, One DEF Version, LockTime, Token
<1> HIDE DEF v, d
<1>15. Between(f, p, p + 1) = v /\ Between(f, lock, lock + 1) = d /\ Between(f, start, end) = b
  <2>1. p + 1 = p + Len(v) /\ lock + 1 = lock + Len(d) /\ end = start + Len(b)
    <3>1. Len(v) = 1 /\ Len(d) = 1 /\ Len(b) = m + n + 2
      BY <1>6, <1>14, <1>19
    <3> QED
      BY <1>20, <3>1
  <2>2. Stands(f, p, v) /\ Stands(f, lock, d) /\ Stands(f, start, b)
    BY <1>4 DEF v, d, b
  <2>3. v \in Seq(Token) /\ d \in Seq(Token) /\ b \in Seq(Token)
    BY <1>6, <1>14
  <2>4. PICK q, r : q = p + 1 /\ r = lock + 1
    OBVIOUS
  <2>5. Between(f, p, q) = v /\ Between(f, lock, r) = d /\ Between(f, start, end) = b
    <3>1. q = p + Len(v) /\ r = lock + Len(d) /\ end = start + Len(b)
      BY <2>1, <2>4
    <3> QED
      BY <2>2, <2>3, <3>1, StandsBetween
  <2> QED
    BY <2>4, <2>5
<1>16. Between(f, start + 1, start + 1 + Ins(t)) = InputTokens(t)
  <2> DEFINE u == InputTokens(t)
  <2>0. u \in Seq(Token) /\ Len(u) = Ins(t) /\ \A i \in 1..Len(u) : b[i + 1] = u[i]
    BY <1>6, <1>7
  <2> HIDE DEF u
  <2>10. PICK k \in Nat : k = 1
    OBVIOUS
  <2>1. PICK q : k \in Nat /\ k = 1 /\ q = start + k
    BY <2>10
  <2>2. k + Len(u) <= Len(b) /\ \A i \in 1..Len(u) : k + i = i + 1
    BY <1>2, <1>6, <2>0, <2>1
  <2>3. \A i \in 1..Len(u) : b[k + i] = u[i]
    BY <2>0, <2>2
  <2>4. Stands(f, start, b)
    BY <1>4 DEF b
  <2>5. Stands(f, q, u)
    BY <1>6, <2>0, <2>1, <2>2, <2>3, <2>4, StandsPart
  <2>6. PICK r : r = q + Len(u)
    OBVIOUS
  <2>7. Between(f, q, r) = u
    BY <2>0, <2>5, <2>6, StandsBetween
  <2>8. q = start + 1 /\ r = start + 1 + Ins(t)
    BY <1>2, <1>5, <2>0, <2>1, <2>6
  <2> QED
    BY <2>7, <2>8 DEF u
<1>17. Between(f, start + 1 + Ins(t) + 1, end) = OutputTokens(t)
  <2> DEFINE u == OutputTokens(t)
  <2>0. u \in Seq(Token) /\ Len(u) = Outs(t) /\ \A i \in 1..Len(u) : b[Ins(t) + 2 + i] = u[i]
    BY <1>6, <1>7
  <2> HIDE DEF u
  <2>10. PICK k \in Nat : k = Ins(t) + 2
    BY <1>2
  <2>1. PICK q : k \in Nat /\ k = Ins(t) + 2 /\ q = start + k
    BY <2>10
  <2>2. k + Len(u) <= Len(b)
    BY <1>2, <1>6, <2>0, <2>1
  <2>3. \A i \in 1..Len(u) : b[k + i] = u[i]
    BY <2>0, <2>1
  <2>4. Stands(f, start, b)
    BY <1>4 DEF b
  <2>5. Stands(f, q, u)
    BY <1>6, <2>0, <2>1, <2>2, <2>3, <2>4, StandsPart
  <2>6. q = start + 1 + Ins(t) + 1 /\ end = q + Len(u)
    <3>1. Len(u) = n /\ k = m + 2
      BY <1>19, <2>0, <2>1
    <3>2. q = start + 1 + m + 1 /\ end = q + n
      BY <1>20, <2>1, <3>1
    <3> QED
      BY <1>19, <3>1, <3>2
  <2>7. Between(f, q, end) = u
    BY <2>0, <2>5, <2>6, StandsBetween
  <2> QED
    BY <2>6, <2>7 DEF u
<1>18. HashOf(v \o b \o d) = t
  <2>1. v \o b \o d = Stripped[t]
    BY StrippedIs DEF v, b, d
  <2> QED
    BY <2>1, HashOfStripped
<1> QED
  BY <1>1, <1>4, <1>10, <1>11, <1>12, <1>13, <1>15, <1>16, <1>17, <1>18

-----------------------------------------------------------------------------
(* Reading a block again.                                                  *)

\* What the transactions of b are read as when the first is at p.
ReadAs(b, p, j) ==
    [hash |-> Contents[b][j], inputs |-> InputTokens(Contents[b][j]),
     outputs |-> OutputTokens(Contents[b][j]),
     next |-> p + Len(Joined(BodyLists(b), j))]

ReadsOn(f, n, p, h) ==
    h = [i \in 0..n |->
            IF i = 0 THEN [txs |-> <<>>, next |-> p]
            ELSE LET before == h[i - 1]
                     tx == readTransaction(f, before.next)
                 IN  [txs |-> Append(before.txs, tx), next |-> tx.next]]

ReadsRight(f, b, p) ==
    /\ \E h : ReadsOn(f, Len(Contents[b]), p, h)
    /\ \A h : ReadsOn(f, Len(Contents[b]), p, h) =>
          h[Len(Contents[b])].txs = [j \in 1..Len(Contents[b]) |-> ReadAs(b, p, j)]

\* A sequence with one more member.
LEMMA AppendOne ==
    ASSUME NEW S, NEW n \in Nat, NEW a \in [1..(n + 1) -> S]
    PROVE  Append([j \in 1..n |-> a[j]], a[n + 1]) = [j \in 1..(n + 1) |-> a[j]]
<1> DEFINE u == [j \in 1..n |-> a[j]]
           v == [j \in 1..(n + 1) |-> a[j]]
<1>1. u \in Seq(S) /\ Len(u) = n /\ \A j \in 1..n : u[j] = a[j]
  OBVIOUS
<1>2. v \in Seq(S) /\ Len(v) = n + 1 /\ \A j \in 1..(n + 1) : v[j] = a[j]
  OBVIOUS
<1>3. a[n + 1] \in S
  OBVIOUS
<1> HIDE DEF u, v
<1>4. /\ Append(u, a[n + 1]) \in Seq(S) /\ Len(Append(u, a[n + 1])) = n + 1
      /\ \A j \in 1..n : Append(u, a[n + 1])[j] = a[j]
      /\ Append(u, a[n + 1])[n + 1] = a[n + 1]
  BY <1>1, <1>3
<1>5. \A j \in 1..(n + 1) : j \in 1..n \/ j = n + 1
  OBVIOUS
<1>6. Append(u, a[n + 1]) = v
  BY <1>2, <1>4, <1>5
<1> QED
  BY <1>6 DEF u, v

\* The transactions of a block are read in order, each from where the one
\* before it ends.
LEMMA TransactionsRead ==
    ASSUME NEW f, NEW b \in Blocks, NEW p, Stands(f, p, FlattenSeq(BodyLists(b)))
    PROVE  ReadsRight(f, b, p)
<1> DEFINE ss == BodyLists(b)
           n == Len(Contents[b])
           whole == FlattenSeq(ss)
           a == [j \in 1..n |-> ReadAs(b, p, j)]
           Upto(i) == [j \in 1..i |-> a[j]]
           z == [i \in 0..n |-> [txs |-> Upto(i), next |-> p + Len(Joined(ss, i))]]
<1>1. /\ ss \in Seq(Seq(Token)) /\ Len(ss) = n /\ n \in Nat \ {0}
      /\ \A i \in 1..n : Contents[b][i] \in Txs /\ ss[i] = Serialized(Contents[b][i])
  BY BodyListsAre
<1>2. p \in Nat /\ whole \in Seq(Token)
  BY BodyIs DEF Stands
<1>3. \A i \in 1..n : a[i] = ReadAs(b, p, i)
  OBVIOUS
<1> HIDE DEF ss, n, Token, a
<1>4. Joined(ss, 0) = <<>> /\ \A i \in 0..n : Len(Joined(ss, i)) \in Nat
  <2>1. ss \in Seq(Seq(Token))
    BY <1>1
  <2> QED
    BY <1>1, <2>1, JoinedSteps, JoinedIn
<1>5. ASSUME NEW i \in 1..n
      PROVE  /\ readTransaction(f, z[i - 1].next) = a[i]
             /\ z[i].txs = Append(z[i - 1].txs, a[i]) /\ z[i].next = a[i].next
  <2> DEFINE u == ss[i]
             m == Len(Joined(ss, i - 1))
             t == Contents[b][i]
  <2>1. u = Serialized(t) /\ t \in Txs
    BY <1>1
  <2>2. u \in Seq(Token) /\ Len(u) \in Nat
    <3>1. Serialized(t) \in Seq(Token)
      BY <2>1, SerializedIs
    <3> QED
      BY <2>1, <3>1, LenProperties
  <2>3. /\ m \in Nat /\ Len(Joined(ss, i)) = m + Len(u) /\ Len(Joined(ss, i)) <= Len(whole)
        /\ \A j \in 1..Len(u) : whole[m + j] = u[j]
    <3>1. ss \in Seq(Seq(Token)) /\ i \in 1..Len(ss)
      BY <1>1
    <3> QED
      BY <3>1, FlattenPlaces
  <2>4. i - 1 \in 0..n /\ i \in 0..n
    BY <1>1
  <2>5. /\ z[i - 1] = [txs |-> Upto(i - 1), next |-> p + m]
        /\ z[i] = [txs |-> Upto(i), next |-> p + Len(Joined(ss, i))]
    BY <2>4
  <2> HIDE DEF u, m, z, t, Upto, whole
  <2>6. Stands(f, p, whole)
    BY DEF whole, ss
  <2>7. PICK q : q = p + m
    OBVIOUS
  <2>8. Stands(f, q, u)
    <3>1. m + Len(u) <= Len(whole)
      BY <2>3
    <3>2. Stands(f, p + m, u)
      BY <1>2, <2>2, <2>3, <2>6, <3>1, StandsPart
    <3> QED
      BY <2>7, <3>2
  <2>9. readTransaction(f, q) =
             [hash |-> t, inputs |-> InputTokens(t), outputs |-> OutputTokens(t),
              next |-> q + Len(u)]
    BY <2>1, <2>8, TransactionRead
  <2>10. q + Len(u) = p + Len(Joined(ss, i))
    BY <1>2, <2>2, <2>3, <2>7
  <2>11. readTransaction(f, q) = a[i]
    BY <1>3, <2>9, <2>10 DEF ReadAs, ss, t
  <2>12. a[i].next = p + Len(Joined(ss, i))
    <3>1. ReadAs(b, p, i).next = p + Len(Joined(BodyLists(b), i))
      BY DEF ReadAs
    <3> QED
      BY <1>3, <3>1 DEF ss
  <2>13. Upto(i) = Append(Upto(i - 1), a[i])
    <3>1. PICK k \in Nat : k = i - 1
      BY <1>1
    <3>2. i = k + 1
      BY <1>1, <3>1
    <3> DEFINE c == [j \in 1..(k + 1) |-> a[j]]
               S == {a[j] : j \in 1..(k + 1)}
    <3>3. c \in [1..(k + 1) -> S] /\ k + 1 \in 1..(k + 1)
      OBVIOUS
    <3>4. /\ [j \in 1..k |-> c[j]] = [j \in 1..k |-> a[j]] /\ c[k + 1] = a[k + 1]
          /\ [j \in 1..(k + 1) |-> c[j]] = [j \in 1..(k + 1) |-> a[j]]
      OBVIOUS
    <3> HIDE DEF c, S
    <3>5. Append([j \in 1..k |-> c[j]], c[k + 1]) = [j \in 1..(k + 1) |-> c[j]]
      BY <3>3, AppendOne
    <3>6. Append(Upto(k), a[k + 1]) = Upto(k + 1)
      BY <3>4, <3>5 DEF Upto
    <3> QED
      BY <3>1, <3>2, <3>6
  <2> QED
    BY <2>5, <2>7, <2>11, <2>12, <2>13
<1>6. z[0] = [txs |-> <<>>, next |-> p]
  <2>1. 0 \in 0..n /\ Len(<<>>) = 0 /\ p + 0 = p /\ Upto(0) = <<>>
    BY <1>1, <1>2
  <2>2. z[0] = [txs |-> Upto(0), next |-> p + Len(Joined(ss, 0))]
    BY <2>1
  <2> QED
    BY <1>4, <2>1, <2>2
<1>7. \A i \in 0..n : z[i] = [txs |-> z[i].txs, next |-> z[i].next]
  OBVIOUS
<1>8. z[n].txs = [j \in 1..n |-> ReadAs(b, p, j)]
  <2>1. z[n].txs = Upto(n)
    BY <1>1
  <2>2. Upto(n) = [j \in 1..n |-> ReadAs(b, p, j)]
    BY DEF a
  <2> QED
    BY <2>1, <2>2
<1> DEFINE Step(h, i) == IF i = 0 THEN [txs |-> <<>>, next |-> p]
            ELSE LET before == h[i - 1]
                     tx == readTransaction(f, before.next)
                 IN  [txs |-> Append(before.txs, tx), next |-> tx.next]
<1>9. z = [i \in 0..n |-> z[i]]
  OBVIOUS
<1> HIDE DEF z
<1>10. \A i \in 0..n : z[i] = Step(z, i)
  <2> SUFFICES ASSUME NEW i \in 0..n PROVE z[i] = Step(z, i)
    OBVIOUS
  <2>1. CASE i = 0
    BY <1>6, <2>1
  <2>2. CASE i # 0
    <3>1. i \in 1..n
      BY <1>1, <2>2
    <3>2. z[i] = [txs |-> Append(z[i - 1].txs, a[i]), next |-> a[i].next]
          /\ readTransaction(f, z[i - 1].next) = a[i]
      BY <1>5, <1>7, <3>1
    <3> QED
      BY <2>2, <3>2
  <2> QED
    BY <2>1, <2>2
<1>11. ReadsOn(f, n, p, z)
  BY <1>9, <1>10 DEF ReadsOn
<1>12. ASSUME NEW g, ReadsOn(f, n, p, g) PROVE g[n] = z[n]
  <2>1. \A i \in 0..n : g[i] = Step(g, i)
    BY <1>12 DEF ReadsOn
  <2> DEFINE T == {i \in Nat : i \in 0..n => g[i] = z[i]}
  <2>2. 0 \in T
    BY <1>1, <1>10, <2>1
  <2>3. ASSUME NEW i \in Nat, i \in T PROVE i + 1 \in T
    <3> SUFFICES ASSUME i + 1 \in 0..n PROVE g[i + 1] = z[i + 1]
      OBVIOUS
    <3>1. PICK j : j = i + 1
      OBVIOUS
    <3>2. j \in 0..n /\ j # 0 /\ j - 1 = i /\ i \in 0..n
      BY <1>1, <3>1
    <3>3. g[j - 1] = z[j - 1]
      BY <2>3, <3>2
    <3>4. Step(g, j) = Step(z, j)
      BY <3>2, <3>3
    <3> HIDE DEF Step
    <3> QED
      BY <1>10, <2>1, <3>1, <3>2, <3>4
  <2>4. n \in T
    <3> HIDE DEF T
    <3> QED
      BY <1>1, <2>2, <2>3, Induction
  <2> QED
    BY <1>1, <2>4
<1> QED
  BY <1>8, <1>11, <1>12 DEF n, ReadsRight

\* readBlock reads all transactions of a block whose body stands in the file, in
\* order, each from where the one before it ends.
THEOREM BlockRead ==
    ASSUME NEW f, NEW b \in Blocks, NEW p \in Nat, NEW q, q = p + 1, Stands(f, q, Body(b))
    PROVE  readBlock(f, p).transactions =
             [j \in 1..Len(Contents[b]) |-> ReadAs(b, p + 2, j)]
<1> DEFINE n == Len(Contents[b])
           c == FlattenSeq(BodyLists(b))
           body == Body(b)
<1>1. /\ body \in Seq(Token) /\ c \in Seq(Token) /\ Len(body) = Len(c) + 1 /\ Len(c) \in Nat
      /\ body[1] = Number(n) /\ \A i \in 1..Len(c) : body[i + 1] = c[i]
  BY BodyIs
<1> HIDE DEF n, c, body, Token
<1>2. Stands(f, q, body)
  BY DEF body
<1>3. PICK i \in 1..Len(body) : i = 1
  BY <1>1
<1>4. NumberAt(f, q) = n
  <2>1. body \in Seq(Token) /\ body[i] = Number(n) /\ q = q - 1 + i
    BY <1>1, <1>3
  <2> QED
    BY <1>2, <2>1, NumberStands
<1>5. PICK r : r = p + 2
  OBVIOUS
<1>6. Stands(f, r, c)
  <2>1. PICK k \in Nat : k = 1
    OBVIOUS
  <2>2. k + Len(c) <= Len(body) /\ \A j \in 1..Len(c) : k + j = j + 1
    BY <1>1, <2>1
  <2>3. \A j \in 1..Len(c) : body[k + j] = c[j]
    BY <1>1, <2>2
  <2>4. Stands(f, q + k, c)
    BY <1>1, <1>2, <2>2, <2>3, StandsPart
  <2>5. q + k = r
    BY <1>5, <2>1
  <2> QED
    BY <2>4, <2>5
<1> DEFINE g == CHOOSE h : ReadsOn(f, n, r, h)
<1>7. readBlock(f, p).transactions = g[n].txs
  <2>1. NumberAt(f, p + 1) = n
    BY <1>4
  <2> QED
    BY <1>5, <2>1 DEF readBlock, ReadsOn
<1>8. g[n].txs = [j \in 1..n |-> ReadAs(b, r, j)]
  <2>1. Stands(f, r, FlattenSeq(BodyLists(b)))
    BY <1>6 DEF c
  <2>2. /\ \E h : ReadsOn(f, n, r, h)
        /\ \A h : ReadsOn(f, n, r, h) => h[n].txs = [j \in 1..n |-> ReadAs(b, r, j)]
    <3>1. ReadsRight(f, b, r)
      BY <2>1, TransactionsRead
    <3> QED
      BY <3>1 DEF ReadsRight, n
  <2>3. ReadsOn(f, n, r, g)
    BY <2>2
  <2> HIDE DEF g
  <2> QED
    BY <2>2, <2>3
<1> QED
  BY <1>5, <1>7, <1>8 DEF n

\* So the blocks found are read back as they are.
LEMMA FilesInvMeansReadBack == FilesInv => BlocksReadBack
<1> SUFFICES ASSUME FilesInv, ScanDone, unwritten = <<>>,
                    NEW i \in DOMAIN found, found[i].hash \in stored
             PROVE  LET txs == readBlock(found[i].file, found[i].at).transactions
                    IN  /\ [k \in DOMAIN txs |-> txs[k].hash] = Contents[found[i].hash]
                        /\ \A k \in DOMAIN txs :
                              /\ txs[k].inputs = InputTokens(txs[k].hash)
                              /\ [o \in DOMAIN txs[k].outputs |-> txs[k].outputs[o].script]
                                 = Outputs[txs[k].hash]
  BY DEF BlocksReadBack
<1> DEFINE txs == readBlock(found[i].file, found[i].at).transactions
<1>1. PICK lay \in Layouts, old \in [Files -> Nat], n \in 0..4 :
          FilesAre(lay, n) /\ OldAre(lay, old) /\ ScanIs(lay, old)
  BY DEF FilesInv
<1>2. PICK e, f, b, blocks : e = found[i] /\ f = e.file /\ b = e.hash /\ blocks = lay[f]
  OBVIOUS
<1>3. f \in Files /\ Noted(e, blocks) /\ b \in Blocks
  <2>1. found \in Seq(Entry) /\ DOMAIN found = 1..Len(found)
    BY <1>1 DEF ScanIs
  <2>2. e \in Entry
    BY <1>2, <2>1
  <2> QED
    BY <1>1, <1>2, <2>1, <2>2 DEF ScanIs, OldAre, Entry
<1>4. PICK k \in 1..Len(blocks) : e.at = Start(blocks, k) + 2 /\ b = blocks[k]
  BY <1>2, <1>3, FilesAssumption DEF Noted
<1>5. n = 4
  <2>1. lay[growing] \in Seq(Blocks) /\ lay[growing] # <<>>
    BY <1>1, DiskIs DEF FilesAre
  <2>2. Last(lay[growing]) \in Blocks
    BY <2>1, WrittenFront
  <2>3. PICK ss : ss = Parts(Last(lay[growing]))
    OBVIOUS
  <2>4. ss \in Seq(Seq(Token)) /\ Len(ss) = 4
    BY <2>2, <2>3, PartsAre
  <2>5. SubSeq(ss, n + 1, 4) = <<>>
    BY <1>1, <2>3 DEF FilesAre
  <2> HIDE DEF Token
  <2>6. Len(SubSeq(ss, n + 1, 4)) = IF n + 1 <= 4 THEN 4 - (n + 1) + 1 ELSE 0
    BY <2>4
  <2>7. n \in 0..4 /\ Len(SubSeq(ss, n + 1, 4)) = 0
    BY <1>1, <2>5
  <2> QED
    BY <2>6, <2>7
<1>6. blocks \in Seq(Blocks) /\ disk[f] = Written(blocks) /\ Prefix(f, blocks)
  BY <1>1, <1>2, <1>3, <1>5, DiskIs
<1> DEFINE s == Start(blocks, k)
           w == Written(blocks)
           body == Body(b)
<1>7. /\ s \in Nat \ {0} /\ Len(body) \in Nat
      /\ Start(blocks, k + 1) = s + Len(body) + 3
      /\ Start(blocks, k + 1) <= Len(w) + 1
      /\ \A j \in 1..Len(body) : w[s + 2 + j] = body[j]
  BY <1>4, <1>6, WrittenPlaces
<1>80. PICK p \in Nat : p = e.at
  BY <1>4, <1>7
<1>8. PICK q : p \in Nat /\ p = e.at /\ q = p + 1
  BY <1>80
<1>9. Stands(f, q, body)
  <2>1. disk[f] \in Seq(Token) /\ disk[f] = w
    BY <1>6 DEF Prefix
  <2> HIDE DEF s, w, body, Token
  <2>2. Len(w) \in Nat
    BY <2>1, LenProperties
  <2>3. q = s + 3
    BY <1>4, <1>7, <1>8 DEF s
  <2>4. q \in Nat \ {0} /\ q + Len(body) <= Len(w) + 1
    BY <1>7, <2>2, <2>3
  <2>5. \A j \in 1..Len(body) : q - 1 + j = s + 2 + j
    BY <1>7, <2>3
  <2>6. \A j \in 1..Len(body) : w[q - 1 + j] = body[j]
    BY <1>7, <2>5
  <2> QED
    BY <2>1, <2>4, <2>6 DEF Stands
<1>10. txs = [j \in 1..Len(Contents[b]) |-> ReadAs(b, p + 2, j)]
  <2>1. readBlock(f, p).transactions = [j \in 1..Len(Contents[b]) |-> ReadAs(b, p + 2, j)]
    BY <1>3, <1>8, <1>9, BlockRead
  <2> QED
    BY <1>2, <1>8, <2>1
<1> HIDE DEF txs
<1>11. Contents[b] \in Seq(Txs) /\ DOMAIN Contents[b] = 1..Len(Contents[b])
  BY <1>3, FilesAssumption
<1>12. [j \in DOMAIN txs |-> txs[j].hash] = Contents[b]
  <2>1. DOMAIN txs = 1..Len(Contents[b]) /\ \A j \in DOMAIN txs : txs[j].hash = Contents[b][j]
    BY <1>10 DEF ReadAs
  <2> QED
    BY <1>11, <2>1
<1>13. ASSUME NEW j \in DOMAIN txs
       PROVE  /\ txs[j].inputs = InputTokens(txs[j].hash)
              /\ [o \in DOMAIN txs[j].outputs |-> txs[j].outputs[o].script]
                 = Outputs[txs[j].hash]
  <2>1. PICK t : t = Contents[b][j]
    OBVIOUS
  <2>2. /\ txs[j].hash = t /\ txs[j].inputs = InputTokens(t)
        /\ txs[j].outputs = OutputTokens(t)
    BY <1>10, <2>1 DEF ReadAs
  <2>3. t \in Txs
    BY <1>10, <1>11, <2>1
  <2>4. Outputs[t] \in Seq(Seq(0..255))
    BY <2>3, FilesAssumption
  <2>5. [o \in DOMAIN OutputTokens(t) |-> OutputTokens(t)[o].script] = Outputs[t]
    <3>1. PICK o : o = Outputs[t]
      OBVIOUS
    <3>2. o \in Seq(Seq(0..255)) /\ o = [m \in DOMAIN o |-> o[m]]
      BY <2>4, <3>1
    <3>3. OutputTokens(t) = [m \in DOMAIN o |-> OutputToken(o[m])]
      BY <3>1 DEF OutputTokens
    <3>4. /\ DOMAIN OutputTokens(t) = DOMAIN o
          /\ \A m \in DOMAIN o : OutputTokens(t)[m].script = o[m]
      BY <3>3 DEF OutputToken
    <3>5. [m \in DOMAIN OutputTokens(t) |-> OutputTokens(t)[m].script] = [m \in DOMAIN o |-> o[m]]
      BY <3>4, Zenon
    <3> QED
      BY <3>1, <3>2, <3>5
  <2> QED
    BY <2>2, <2>5
<1> QED
  BY <1>2, <1>12, <1>13 DEF txs

-----------------------------------------------------------------------------
(* Where a file ends.                                                      *)

\* Where a file ends, seen from one of its blocks: behind it, before its body,
\* or behind its first transaction.
LEMMA DiskEnds ==
    ASSUME NEW lay, NEW n, FilesAre(lay, n), NEW f \in Files, NEW k \in 1..Len(lay[f])
    PROVE  \E p, m, d \in Nat :
              /\ p = Start(lay[f], k) + 2 /\ m = Len(Body(lay[f][k])) /\ d = Len(disk[f])
              /\ lay[f][k] \in Blocks
              /\ p + m <= d \/ d <= p \/ d = p + FirstPart(lay[f][k])
<1>1. PICK blocks \in Seq(Blocks) : blocks = lay[f]
  BY DiskIs
<1>2. /\ Prefix(f, blocks) /\ Len(disk[f]) \in Nat
      /\ f # growing \/ n = 4 => disk[f] = Written(blocks)
  BY <1>1, DiskIs
<1>4. PICK b \in Blocks : b = blocks[k]
  BY <1>1
<1>3. PICK s \in Nat, m \in Nat, w \in Nat, d \in Nat :
        /\ s = Start(blocks, k) /\ m = Len(Body(b)) /\ w = Len(Written(blocks))
        /\ d = Len(disk[f])
  BY <1>1, <1>2, <1>4, WrittenPlaces, WholesAre
<1>5. Start(blocks, k + 1) = s + m + 3 /\ s + m + 3 <= w + 1 /\ s # 0
  <2>1. k \in 1..Len(blocks)
    BY <1>1
  <2>2. /\ Start(blocks, k) \in Nat \ {0}
        /\ Start(blocks, k + 1) = Start(blocks, k) + Len(Body(blocks[k])) + 3
        /\ Start(blocks, k + 1) <= Len(Written(blocks)) + 1
    BY <2>1, WrittenPlaces
  <2>3. Len(Body(blocks[k])) = m
    BY <1>3, <1>4
  <2> QED
    BY <1>3, <2>2, <2>3
<1>6. PICK p \in Nat : p = s + 2
  OBVIOUS
<1>7. CASE f # growing \/ n = 4
  <2>1. d = w
    BY <1>2, <1>3, <1>7
  <2>2. p + m <= d
    BY <1>5, <1>6, <2>1
  <2> QED
    BY <1>1, <1>3, <1>4, <1>6, <2>2
<1>8. CASE k # Len(blocks)
  <2>1. k + 1 \in 1..Len(blocks)
    BY <1>1, <1>8
  <2>2. Start(blocks, k + 1) <= Len(disk[f]) + 1
    BY <1>2, <2>1 DEF Prefix
  <2>3. s + m + 3 <= d + 1
    BY <1>3, <1>5, <2>2
  <2>4. p + m <= d
    BY <1>6, <2>3
  <2> QED
    BY <1>1, <1>3, <1>4, <1>6, <2>4
<1>9. CASE f = growing /\ n # 4 /\ k = Len(blocks)
  <2>1. n \in 0..3 /\ blocks # <<>>
        /\ disk[f] = Written(Front(blocks)) \o Joined(Parts(Last(blocks)), n)
    BY <1>1, <1>9 DEF FilesAre
  <2>2. /\ Last(blocks) = b /\ Written(Front(blocks)) \in Seq(Token)
        /\ Len(Written(Front(blocks))) = s - 1
    BY <1>1, <1>3, <1>4, <1>9, <2>1, WrittenFront
  <2>3. PICK u \in Nat : u = FirstPart(b)
    BY <1>4, PartsAre, WholeIs
  <2>4. /\ Joined(Parts(b), 0) = <<>>
        /\ Len(Joined(Parts(b), 1)) = 2 /\ Len(Joined(Parts(b), 2)) = 3
        /\ Len(Joined(Parts(b), 3)) = 3 + u
    BY <1>4, <2>3, WholeIs
  <2>5. PICK ss : ss = Parts(b)
    OBVIOUS
  <2>60. ss \in Seq(Seq(Token)) /\ Len(ss) = 4
    BY <1>4, <2>5, PartsAre
  <2> HIDE DEF Token
  <2>6. ss \in Seq(Seq(Token)) /\ n \in 0..Len(ss)
    BY <2>1, <2>60
  <2>7. Joined(ss, n) \in Seq(Token)
    BY <2>6, JoinedSteps
  <2>8. PICK a \in Seq(Token), c \in Seq(Token) : a = Written(Front(blocks)) /\ c = Joined(ss, n)
    BY <2>2, <2>7
  <2>9. Len(a \o c) = Len(a) + Len(c)
    BY Concat
  <2>10. d = s - 1 + Len(c)
    BY <1>3, <2>1, <2>2, <2>5, <2>8, <2>9
  <2>11. Len(c) \in {0, 2, 3, 3 + u}
    BY <2>1, <2>4, <2>5, <2>8
  <2>13. PICK l \in Nat : l = Len(c)
    OBVIOUS
  <2>12. d <= p \/ d = p + u
    <3>1. d = s - 1 + l /\ (l = 0 \/ l = 2 \/ l = 3 \/ l = 3 + u)
      BY <2>10, <2>11, <2>13
    <3> QED
      BY <1>6, <3>1
  <2> QED
    BY <1>1, <1>3, <1>4, <1>6, <2>3, <2>12
<1> QED
  BY <1>1, <1>7, <1>8, <1>9

\* Behind the end, a transaction is read that has no inputs.
LEMMA ReadsPastEnd ==
    ASSUME NEW f, disk[f] \in Seq(Token), NEW p \in Nat, p > Len(disk[f])
    PROVE  readTransaction(f, p).inputs = <<>> /\ readTransaction(f, p).next = p + 4
<1> HIDE DEF Token
<1>1. PICK d \in Nat : d = Len(disk[f]) /\ DOMAIN disk[f] = 1..d /\ p > d
  OBVIOUS
<1>2. \A q \in Nat : q > d => NumberAt(f, q) = 0
  <2>1. ASSUME NEW q \in Nat, q > d PROVE TokenAt(f, q) = Number(0)
    <3>1. q \notin DOMAIN disk[f]
      BY <1>1, <2>1
    <3> QED
      BY <3>1 DEF TokenAt
  <2> QED
    BY <2>1, Kinds DEF NumberAt
<1>3. NumberAt(f, p + 1) = 0 /\ NumberAt(f, p + 2) = 0
  BY <1>1, <1>2
<1>4. PICK q \in Nat : q = p + 2
  OBVIOUS
<1>5. readTransaction(f, p).inputs = Between(f, p + 1 + 1, p + 1 + 1 + 0)
      /\ readTransaction(f, p).next = p + 1 + 1 + 0 + 1 + 0 + 1
  <2>1. NumberAt(f, p + 1 + 1 + 0) = 0
    BY <1>1, <1>2
  <2> QED
    BY <1>3, <2>1 DEF readTransaction
<1>6. Between(f, q, q) = <<>>
  <2>1. q > d /\ ~(q <= Len(disk[f]))
    BY <1>1, <1>4
  <2>2. SubSeq(disk[f], q, d) = <<>>
    BY <1>1, <2>1
  <2>3. Between(f, q, q) = <<>> \o [i \in 1..(q - q - Len(<<>>)) |-> Number(0)]
    BY <1>1, <2>1, <2>2 DEF Between
  <2>4. [i \in 1..(q - q - Len(<<>>)) |-> Number(0)] = <<>>
    OBVIOUS
  <2> QED
    BY <2>3, <2>4
<1> QED
  BY <1>4, <1>5, <1>6

-----------------------------------------------------------------------------
(* Reading on behind the end.                                              *)

\* The second transaction of a block of which only the first is written has no
\* inputs.
HalfRead(txs) == 2 \in DOMAIN txs /\ txs[2].inputs = <<>>

LEMMA HalfBlockRead ==
    ASSUME NEW f, disk[f] \in Seq(Token), NEW p \in Nat, NEW q \in Nat, q > Len(disk[f]),
           readTransaction(f, p).next = q, NEW n \in Nat, n > 1
    PROVE  /\ \E h : ReadsOn(f, n, p, h)
           /\ \A h : ReadsOn(f, n, p, h) => HalfRead(h[n].txs)
<1> DEFINE W == {r \in Nat : r > Len(disk[f])}
           V == {p} \cup W
           U == {readTransaction(f, v) : v \in V}
           X == [txs : Seq(U), next : V]
           To(x) == [txs |-> Append(x.txs, readTransaction(f, x.next)),
                     next |-> readTransaction(f, x.next).next]
           start == [txs |-> <<>>, next |-> p]
<1>1. PICK d \in Nat : d = Len(disk[f])
  <2> HIDE DEF Token
  <2> QED
    OBVIOUS
<1>2. \A r \in W : /\ readTransaction(f, r).inputs = <<>>
                   /\ readTransaction(f, r).next \in W
  <2> SUFFICES ASSUME NEW r \in W
               PROVE  readTransaction(f, r).inputs = <<>> /\ readTransaction(f, r).next \in W
    OBVIOUS
  <2>1. r \in Nat /\ r > Len(disk[f])
    OBVIOUS
  <2>2. readTransaction(f, r).inputs = <<>> /\ readTransaction(f, r).next = r + 4
    BY <2>1, ReadsPastEnd
  <2>3. r + 4 \in W
    BY <1>1, <2>1
  <2> QED
    BY <2>2, <2>3
<1>3. readTransaction(f, p).next \in W /\ W \subseteq V /\ p \in V
  OBVIOUS
<1> HIDE DEF W
<1>4. \A v \in V : readTransaction(f, v) \in U /\ readTransaction(f, v).next \in W
  BY <1>2, <1>3
<1>5. \A x \in X : /\ To(x) \in X /\ Len(To(x).txs) = Len(x.txs) + 1 /\ To(x).next \in W
                   /\ Len(x.txs) \in Nat
                   /\ \A j \in 1..Len(x.txs) : To(x).txs[j] = x.txs[j]
                   /\ To(x).txs[Len(x.txs) + 1] = readTransaction(f, x.next)
  <2> SUFFICES ASSUME NEW x \in X
      PROVE  /\ To(x) \in X /\ Len(To(x).txs) = Len(x.txs) + 1 /\ To(x).next \in W
             /\ Len(x.txs) \in Nat
             /\ \A j \in 1..Len(x.txs) : To(x).txs[j] = x.txs[j]
             /\ To(x).txs[Len(x.txs) + 1] = readTransaction(f, x.next)
    OBVIOUS
  <2>1. x.txs \in Seq(U) /\ x.next \in V
    OBVIOUS
  <2>2. PICK t \in U : t = readTransaction(f, x.next) /\ t.next \in W
    BY <1>4, <2>1
  <2>3. PICK s \in Seq(U) : s = x.txs
    BY <2>1
  <2>4. To(x) = [txs |-> Append(s, t), next |-> t.next]
    BY <2>2, <2>3
  <2> HIDE DEF U, V, To
  <2>5. /\ Append(s, t) \in Seq(U) /\ Len(Append(s, t)) = Len(s) + 1 /\ Len(s) \in Nat
        /\ \A j \in 1..Len(s) : Append(s, t)[j] = s[j]
        /\ Append(s, t)[Len(s) + 1] = t
    OBVIOUS
  <2>7. PICK a \in Seq(U), v \in V : a = Append(s, t) /\ v = t.next
    BY <1>3, <2>2, <2>5
  <2>6. To(x) \in X
    BY <2>4, <2>7
  <2> QED
    BY <2>2, <2>3, <2>4, <2>5, <2>6
<1>6. start \in X /\ Len(start.txs) = 0
  BY <1>3
<1>7. \A h : ReadsOn(f, n, p, h) <=>
               h = [i \in 0..n |-> IF i = 0 THEN start ELSE To(h[i - 1])]
  BY DEF ReadsOn
<1> HIDE DEF U, V, X, To, start
<1>8. \E h : ReadsOn(f, n, p, h)
  <2> DEFINE G == [y \in Nat \X X |-> To(y[2])]
  <2>1. G \in [Nat \X X -> X]
    BY <1>5
  <2>2. PICK h : Iterated(h, X, start, G, n)
    <3> HIDE DEF G
    <3> QED
      BY <1>6, <2>1, Iterates
  <2>3. h \in [0..n -> X] /\ h[0] = start /\ \A i \in 1..n : h[i] = G[<<i, h[i - 1]>>]
    BY <2>2 DEF Iterated
  <2>4. \A i \in 1..n : h[i] = To(h[i - 1])
    <3> SUFFICES ASSUME NEW i \in 1..n PROVE h[i] = To(h[i - 1])
      OBVIOUS
    <3>1. i - 1 \in 0..n /\ i \in Nat
      OBVIOUS
    <3>2. <<i, h[i - 1]>> \in Nat \X X
      BY <2>3, <3>1
    <3> QED
      BY <2>3, <3>2
  <2>5. h = [i \in 0..n |-> h[i]] /\ \A i \in 0..n : i = 0 \/ i \in 1..n
    BY <2>3
  <2>6. \A i \in 0..n : h[i] = IF i = 0 THEN start ELSE To(h[i - 1])
    BY <2>3, <2>4, <2>5
  <2>7. h = [i \in 0..n |-> IF i = 0 THEN start ELSE To(h[i - 1])]
    BY <2>5, <2>6
  <2> QED
    BY <1>7, <2>7
<1>9. ASSUME NEW h, ReadsOn(f, n, p, h) PROVE HalfRead(h[n].txs)
  <2>1. h = [i \in 0..n |-> IF i = 0 THEN start ELSE To(h[i - 1])]
    BY <1>7, <1>9
  <2>2. h[0] = start /\ \A i \in 0..n : i # 0 => h[i] = To(h[i - 1])
    <3>1. 0 \in 0..n
      OBVIOUS
    <3> QED
      BY <2>1, <3>1, Zenon
  <2> DEFINE Fits(x) == x \in X /\ x.next \in W /\ HalfRead(x.txs) /\ Len(x.txs) > 1
             T == {i \in Nat : i + 2 <= n => Fits(h[i + 2])}
  <2>3. /\ h[1] = To(start) /\ h[1] \in X /\ h[1].next \in W /\ Len(h[1].txs) = 1
    <3>1. h[1] = To(h[0])
      <4>1. 1 \in 0..n /\ 1 # 0 /\ 1 - 1 = 0
        OBVIOUS
      <4> QED
        BY <2>2, <4>1
    <3>2. /\ To(start) \in X /\ To(start).next \in W
          /\ Len(To(start).txs) = Len(start.txs) + 1
      BY <1>5, <1>6
    <3> QED
      BY <1>6, <2>2, <3>1, <3>2
  <2>4. Fits(h[2])
    <3>1. h[2] = To(h[1])
      <4>1. 2 \in 0..n /\ 2 # 0 /\ 2 - 1 = 1
        OBVIOUS
      <4> QED
        BY <2>2, <4>1
    <3>2. /\ h[2] \in X /\ h[2].next \in W /\ Len(h[2].txs) = 2
          /\ h[2].txs[2] = readTransaction(f, h[1].next)
      <4>1. /\ To(h[1]) \in X /\ To(h[1]).next \in W
            /\ Len(To(h[1]).txs) = Len(h[1].txs) + 1
            /\ To(h[1]).txs[Len(h[1].txs) + 1] = readTransaction(f, h[1].next)
        BY <1>5, <2>3
      <4>2. Len(h[1].txs) + 1 = 2
        BY <2>3
      <4> QED
        BY <3>1, <4>1, <4>2
    <3>3. 2 \in DOMAIN h[2].txs
      <4>1. h[2].txs \in Seq(U)
        BY <3>2 DEF X
      <4> QED
        BY <3>2, <4>1
    <3> QED
      BY <1>2, <2>3, <3>2, <3>3 DEF HalfRead
  <2>5. 0 \in T
    <3>1. 0 + 2 = 2
      OBVIOUS
    <3> HIDE DEF Fits
    <3> QED
      BY <2>4, <3>1
  <2>6. ASSUME NEW i \in Nat, i \in T PROVE i + 1 \in T
    <3> SUFFICES ASSUME (i + 1) + 2 <= n PROVE Fits(h[(i + 1) + 2])
      <4> HIDE DEF Fits
      <4> QED
        OBVIOUS
    <3>1. PICK k \in Nat, m \in Nat : k = i + 2 /\ m = (i + 1) + 2
      OBVIOUS
    <3>2. Fits(h[k])
      <4> HIDE DEF Fits
      <4> QED
        BY <2>6, <3>1
    <3>3. h[m] = To(h[k])
      <4>1. m \in 0..n /\ m # 0 /\ m - 1 = k
        BY <3>1
      <4> QED
        BY <2>2, <4>1
    <3>4. PICK x \in X : x = h[k]
      BY <3>2
    <3>5. Fits(To(x))
      <4>1. /\ To(x) \in X /\ To(x).next \in W /\ Len(To(x).txs) = Len(x.txs) + 1
            /\ Len(x.txs) \in Nat /\ Len(x.txs) > 1
            /\ \A j \in 1..Len(x.txs) : To(x).txs[j] = x.txs[j]
        BY <1>5, <3>2, <3>4
      <4>2. 2 \in 1..Len(x.txs) /\ Len(To(x).txs) > 1
        BY <4>1
      <4>3. To(x).txs \in Seq(U)
        BY <4>1 DEF X
      <4>4. 2 \in DOMAIN To(x).txs
        BY <4>2, <4>3
      <4>5. x.txs[2].inputs = <<>>
        BY <3>2, <3>4 DEF HalfRead
      <4> QED
        BY <4>1, <4>2, <4>4, <4>5 DEF HalfRead
    <3> QED
      BY <3>1, <3>3, <3>4, <3>5
  <2>7. n - 2 \in Nat /\ (n - 2) + 2 = n
    OBVIOUS
  <2>8. n - 2 \in T
    <3> HIDE DEF T
    <3> QED
      BY <2>5, <2>6, <2>7, Induction
  <2> QED
    BY <2>7, <2>8
<1> QED
  BY <1>8, <1>9

-----------------------------------------------------------------------------
(* Reading a block that is being written.                                  *)

\* Some transaction was read that has no inputs: the comparison throws.
Faulty(txs) == \E i \in DOMAIN txs : txs[i].inputs = <<>>

\* All that was read are transactions of block b as they are.
Right(txs, b) ==
    /\ \E S : txs \in Seq(S)
    /\ \A i \in 1..Len(txs) : /\ b \in Blocks /\ txs[i].hash \in ToSet(Contents[b])
                              /\ txs[i].inputs = InputTokens(txs[i].hash)

\* readBlock reads a number of transactions.
LEMMA ReadsTransactions ==
    ASSUME NEW f, NEW p \in Nat, NEW n, NumberAt(f, p + 1) = n
    PROVE  readBlock(f, p).transactions = (CHOOSE h : ReadsOn(f, n, p + 2, h))[n].txs
BY DEF readBlock, ReadsOn

\* If none has been written, it reads none.
LEMMA ReadsNone ==
    ASSUME NEW f, NEW p \in Nat, NumberAt(f, p + 1) = 0
    PROVE  readBlock(f, p).transactions = <<>>
<1> DEFINE start == [txs |-> <<>>, next |-> p + 2]
           Step(h, i) == IF i = 0 THEN start
                         ELSE LET before == h[i - 1]
                                  tx == readTransaction(f, before.next)
                              IN  [txs |-> Append(before.txs, tx), next |-> tx.next]
           g == CHOOSE h : ReadsOn(f, 0, p + 2, h)
           z == [i \in 0..0 |-> start]
<1>1. \A h : ReadsOn(f, 0, p + 2, h) <=> h = [i \in 0..0 |-> Step(h, i)]
  BY DEF ReadsOn
<1>2. \A h : \A i \in 0..0 : Step(h, i) = start
  OBVIOUS
<1> HIDE DEF start, Step
<1>3. z = [i \in 0..0 |-> Step(z, i)]
  BY <1>2
<1>4. ReadsOn(f, 0, p + 2, z)
  BY <1>1, <1>3
<1>5. ReadsOn(f, 0, p + 2, g)
  <2> HIDE DEF z
  <2> QED
    BY <1>4
<1>6. g[0] = start
  <2>1. g = [i \in 0..0 |-> Step(g, i)]
    BY <1>1, <1>5
  <2> HIDE DEF g
  <2>2. g[0] = Step(g, 0)
    BY <2>1
  <2> QED
    BY <1>2, <2>2
<1>7. readBlock(f, p).transactions = g[0].txs
  BY ReadsTransactions
<1> QED
  BY <1>6, <1>7 DEF start

\* Where the first transaction stands in the body of a block.
LEMMA FirstListPlaces ==
    ASSUME NEW b \in Blocks, NEW ss, ss = BodyLists(b), NEW s, s = ss[1]
    PROVE  /\ Joined(ss, 0) = <<>> /\ Len(Joined(ss, 1)) = Len(s)
           /\ Len(s) <= Len(FlattenSeq(ss)) /\ Len(s) \in Nat
           /\ Len(FlattenSeq(ss)) \in Nat
           /\ \A j \in 1..Len(s) : FlattenSeq(ss)[j] = s[j]
           /\ Joined(ss, Len(ss)) = FlattenSeq(ss)
<1>1. PICK list \in Seq(Seq(Token)) : list = ss /\ 1 \in 1..Len(list)
  BY BodyListsAre
<1> HIDE DEF Token
<1>2. /\ Len(FlattenSeq(list)) \in Nat /\ Len(list[1]) \in Nat
      /\ Len(Joined(list, 1)) = Len(Joined(list, 1 - 1)) + Len(list[1])
      /\ Len(Joined(list, 1)) <= Len(FlattenSeq(list))
      /\ \A j \in 1..Len(list[1]) :
            FlattenSeq(list)[Len(Joined(list, 1 - 1)) + j] = list[1][j]
  <2>1. \A k \in 1..Len(list) :
           /\ Len(FlattenSeq(list)) \in Nat /\ Len(list[k]) \in Nat
           /\ Len(Joined(list, k)) = Len(Joined(list, k - 1)) + Len(list[k])
           /\ Len(Joined(list, k)) <= Len(FlattenSeq(list))
           /\ \A j \in 1..Len(list[k]) :
                 FlattenSeq(list)[Len(Joined(list, k - 1)) + j] = list[k][j]
    BY FlattenPlaces
  <2> QED
    BY <1>1, <2>1, Zenon
<1>3. Joined(list, 0) = <<>> /\ Joined(list, Len(list)) = FlattenSeq(list)
  BY <1>1, JoinedSteps
<1>4. Len(Joined(list, 1 - 1)) = 0
  BY <1>3
<1>5. PICK a \in Nat : a = Len(list[1])
  BY <1>2
<1>6. Len(Joined(list, 1)) = a
  BY <1>2, <1>4, <1>5
<1>7. \A j \in 1..a : FlattenSeq(list)[j] = list[1][j]
  BY <1>2, <1>4, <1>5
<1>8. list[1] = s
  BY <1>1
<1> QED
  BY <1>1, <1>2, <1>3, <1>5, <1>6, <1>7, <1>8

\* What is read of a block that is written as far as its first transaction.
LEMMA FirstPartRead ==
    ASSUME NEW f, disk[f] \in Seq(Token), NEW b \in Blocks, NEW p \in Nat,
           Len(disk[f]) = p + FirstPart(b), FirstPart(b) < Len(Body(b)),
           \A j \in 1..FirstPart(b) : disk[f][p + j] = Body(b)[j]
    PROVE  HalfRead(readBlock(f, p).transactions)
<1> DEFINE ss == BodyLists(b)
           t == Contents[b][1]
           s == Serialized(t)
           n == Len(Contents[b])
           body == Body(b)
<1>1. /\ ss \in Seq(Seq(Token)) /\ Len(ss) = n /\ n \in Nat \ {0} /\ t \in Txs /\ ss[1] = s
  BY BodyListsAre
<1>2. /\ s \in Seq(Token) /\ Len(s) \in Nat
  <2>1. s \in Seq(Token)
    BY <1>1, SerializedIs
  <2> QED
    BY <2>1, LenProperties
<1>3. /\ body[1] = Number(n) /\ Len(body) = Len(FlattenSeq(ss)) + 1
      /\ \A i \in 1..Len(FlattenSeq(ss)) : body[i + 1] = FlattenSeq(ss)[i]
  BY BodyIs
<1> HIDE DEF ss, t, n, Token, body
<1>4. /\ Joined(ss, 0) = <<>> /\ Len(Joined(ss, 1)) = Len(s) /\ Len(s) <= Len(FlattenSeq(ss))
      /\ Len(FlattenSeq(ss)) \in Nat
      /\ \A j \in 1..Len(s) : FlattenSeq(ss)[j] = s[j]
      /\ Joined(ss, n) = FlattenSeq(ss)
  <2>1. ss = BodyLists(b) /\ s = ss[1]
    BY <1>1 DEF ss
  <2> HIDE DEF s
  <2> QED
    BY <1>1, <2>1, FirstListPlaces
<1>5. PICK l \in Nat, w \in Nat, d \in Nat :
        l = Len(s) /\ w = Len(FlattenSeq(ss)) /\ d = Len(disk[f])
  BY <1>2, <1>4
<1>6. FirstPart(b) = 1 + l /\ d = p + 1 + l /\ 1 + l < w + 1
  BY <1>3, <1>5 DEF FirstPart, s, t, body
<1>7. n > 1
  BY <1>1, <1>4, <1>5, <1>6
<1>8. PICK q \in Nat, r \in Nat : q = p + 2 /\ r = d + 1
  OBVIOUS
<1>9. \A j \in 1..l : disk[f][q - 1 + j] = s[j]
  <2> SUFFICES ASSUME NEW j \in 1..l PROVE disk[f][q - 1 + j] = s[j]
    OBVIOUS
  <2>1. PICK i : i = j + 1
    OBVIOUS
  <2>2. i \in 1..FirstPart(b) /\ p + i = q - 1 + j
    BY <1>6, <1>8, <2>1
  <2>3. disk[f][p + i] = body[i]
    BY <2>2 DEF body
  <2>4. body[j + 1] = s[j]
    BY <1>3, <1>4, <1>5
  <2> QED
    BY <2>1, <2>2, <2>3, <2>4
<1>10. Stands(f, q, s)
  <2>1. q + Len(s) <= Len(disk[f]) + 1 /\ q \in Nat \ {0}
    BY <1>5, <1>6, <1>8
  <2> QED
    BY <1>5, <1>9, <2>1 DEF Stands
<1>11. readTransaction(f, q).next = r
  <2>1. readTransaction(f, q).next = q + Len(s)
    BY <1>1, <1>10, TransactionRead DEF s
  <2>2. q + l = r
    BY <1>6, <1>8
  <2> QED
    BY <1>5, <2>1, <2>2
<1>12. NumberAt(f, p + 1) = n
  <2>1. p + 1 \in 1..d /\ 1 \in 1..FirstPart(b)
    BY <1>6
  <2>2. disk[f][p + 1] = Number(n)
    BY <1>3, <2>1 DEF body
  <2>3. TokenAt(f, p + 1) = Number(n)
    BY <1>5, <2>1, <2>2 DEF TokenAt
  <2> QED
    BY <2>3, Kinds DEF NumberAt
<1>13. /\ \E h : ReadsOn(f, n, q, h)
       /\ \A h : ReadsOn(f, n, q, h) => HalfRead(h[n].txs)
  <2>1. r > Len(disk[f]) /\ n \in Nat
    BY <1>1, <1>5, <1>8
  <2> QED
    BY <1>7, <1>11, <2>1, HalfBlockRead
<1>14. readBlock(f, p).transactions = (CHOOSE h : ReadsOn(f, n, q, h))[n].txs
  BY <1>8, <1>12, ReadsTransactions
<1> QED
  BY <1>13, <1>14

-----------------------------------------------------------------------------
(* Reading what was found.                                                 *)

\* What is known of the entries and of the scan's place.
LEMMA ScanPlace ==
    ASSUME FilesInv
    PROVE  /\ found \in Seq(Entry) /\ Len(found) \in Nat /\ DOMAIN found = 1..Len(found)
           /\ \A i \in 1..Len(found) : found[i].at \in Nat /\ found[i].file \in Files
           /\ Scanning => pos \in Nat /\ file \notin pending
           /\ step = "block" => NumberAt(file, pos) \in Nat \ {0}
<1>1. PICK lay \in Layouts, old \in [Files -> Nat], n \in 0..4 :
          FilesAre(lay, n) /\ OldAre(lay, old) /\ ScanIs(lay, old)
  BY DEF FilesInv
<1>2. found \in Seq(Entry) /\ file \in Files
  BY <1>1 DEF ScanIs
<1>3. \A i \in 1..Len(found) : found[i].at \in Nat /\ found[i].file \in Files
  <2>1. \A i \in 1..Len(found) : found[i] \in Entry
    <3> HIDE DEF Entry
    <3> QED
      BY <1>2
  <2> QED
    BY <2>1 DEF Entry
<1>4. Len(found) \in Nat /\ DOMAIN found = 1..Len(found)
  BY <1>2
<1> HIDE DEF Entry
<1>5. lay[file] \in Seq(Blocks)
  BY <1>1, <1>2, DiskIs
<1>6. CASE step = "magic"
  <2>1. PICK k \in 1..Len(lay[file]) + 1 : pos = Start(lay[file], k)
    BY <1>1, <1>6 DEF ScanIs
  <2>2. pos \in Nat
    BY <1>5, <2>1, StartEnds
  <2> QED
    BY <1>1, <1>2, <1>3, <1>4, <1>6, <2>2 DEF ScanIs, Scanning
<1>7. CASE step = "block"
  <2>1. PICK k \in 1..Len(lay[file]) : pos = Start(lay[file], k) + 1 /\ pos <= Len(disk[file])
    BY <1>1, <1>7 DEF ScanIs
  <2>2. PICK s \in Nat : s = Start(lay[file], k)
    BY <1>5, <2>1, WrittenPlaces
  <2>3. Len(disk[file]) \in Nat /\ s <= Len(disk[file])
    BY <1>1, <1>2, <2>1, <2>2, DiskIs
  <2>4. NumberAt(file, s + 1) = 1 + Len(Body(lay[file][k])) /\ Len(Body(lay[file][k])) \in Nat
    BY <1>1, <1>2, <1>5, <2>2, <2>3, ReadsAre, WrittenPlaces
  <2>5. pos \in Nat /\ NumberAt(file, pos) \in Nat \ {0}
    BY <2>1, <2>2, <2>4
  <2> QED
    BY <1>1, <1>2, <1>3, <1>4, <1>7, <2>5 DEF ScanIs, Scanning
<1>8. CASE ~Scanning
  BY <1>2, <1>3, <1>4, <1>8 DEF Scanning
<1> QED
  BY <1>6, <1>7, <1>8 DEF Scanning

\* A block is read that has the hash of its entry, or the header that was still
\* to be written when the entry was made.
ReadFrom(hash, e) ==
    \/ hash = e.hash
    \/ e.hash = ZeroHeader /\ hash \in Blocks /\ TokenAt(e.file, e.at) = Header(hash)

\* A found block is read back right, or with a transaction that has no inputs.
LEMMA EntryRead ==
    ASSUME FilesInv, NEW i \in 1..Len(found), NEW x,
           x = readBlock(found[i].file, found[i].at)
    PROVE  /\ ReadFrom(x.hash, found[i])
           /\ Faulty(x.transactions) \/ Right(x.transactions, x.hash)
<1>1. PICK lay \in Layouts, old \in [Files -> Nat], n \in 0..4 :
          FilesAre(lay, n) /\ OldAre(lay, old) /\ ScanIs(lay, old)
  BY DEF FilesInv
<1>0. PICK e : e = found[i]
  OBVIOUS
<1>2. PICK f \in Files, blocks \in Seq(Blocks) :
          /\ f = e.file /\ blocks = lay[f] /\ Noted(e, blocks)
          /\ disk[f] \in Seq(Token) /\ Prefix(f, blocks)
  <2>1. found[i].file \in Files /\ Noted(found[i], lay[found[i].file])
    BY <1>1, ScanPlace DEF ScanIs
  <2>2. lay[found[i].file] \in Seq(Blocks) /\ Prefix(found[i].file, lay[found[i].file])
    BY <1>1, <2>1, DiskIs
  <2>3. disk[found[i].file] \in Seq(Token)
    BY <2>2 DEF Prefix
  <2> HIDE DEF Token
  <2> QED
    BY <1>0, <2>1, <2>2, <2>3
<1>3. PICK k \in 1..Len(blocks) :
          /\ e.at = Start(blocks, k) + 2
          /\ e.hash = ZeroHeader \/ (e.hash = blocks[k] /\ e.at <= Len(disk[f]))
  BY <1>2 DEF Noted
<1>4. PICK b \in Blocks : b = blocks[k]
  BY <1>2
<1>5. PICK p \in Nat, m \in Nat, d \in Nat :
          /\ p = Start(blocks, k) + 2 /\ m = Len(Body(b)) /\ d = Len(disk[f])
          /\ p + m <= d \/ d <= p \/ d = p + FirstPart(b)
  <2>1. k \in 1..Len(lay[f])
    BY <1>2
  <2>2. FilesAre(lay, n)
    BY <1>1
  <2>3. \E p, m, d \in Nat :
              /\ p = Start(lay[f], k) + 2 /\ m = Len(Body(lay[f][k])) /\ d = Len(disk[f])
              /\ lay[f][k] \in Blocks
              /\ p + m <= d \/ d <= p \/ d = p + FirstPart(lay[f][k])
    BY <2>1, <2>2, DiskEnds
  <2> QED
    BY <1>2, <1>4, <2>3
<1>6. x = readBlock(f, p) /\ x.hash = HeaderAt(f, p).hash /\ e.at = p
  <2>1. e.file = f /\ e.at = p
    BY <1>2, <1>3, <1>5
  <2>2. x = readBlock(f, p)
    BY <1>0, <2>1
  <2>3. readBlock(f, p).hash = HeaderAt(f, p).hash
    BY DEF readBlock
  <2> QED
    BY <2>1, <2>2, <2>3
<1>7. TokenAt(f, p) = IF p <= d THEN Header(b) ELSE Number(0)
  <2>1. k \in 1..Len(lay[f])
    BY <1>2
  <2>2. /\ Start(lay[f], k) + 2 <= Len(disk[f]) =>
              TokenAt(f, Start(lay[f], k) + 2) = Header(lay[f][k])
        /\ Start(lay[f], k) + 2 > Len(disk[f]) =>
              TokenAt(f, Start(lay[f], k) + 2) = Number(0)
    BY <1>1, <2>1, ReadsAre
  <2>3. /\ p <= d => TokenAt(f, p) = Header(b)
        /\ p > d => TokenAt(f, p) = Number(0)
    BY <1>2, <1>4, <1>5, <2>2
  <2> QED
    BY <1>5, <2>3
<1>8. x.hash = IF p <= d THEN b ELSE ZeroHeader
  BY <1>6, <1>7, Kinds DEF HeaderAt
<1>9. ReadFrom(x.hash, e)
  <2>1. CASE p <= d
    BY <1>2, <1>3, <1>4, <1>6, <1>7, <1>8, <2>1 DEF ReadFrom
  <2>2. CASE ~(p <= d)
    BY <1>3, <1>5, <1>6, <1>8, <2>2 DEF ReadFrom
  <2> QED
    BY <2>1, <2>2
<1> DEFINE txs == x.transactions
           body == Body(b)
           N == Len(Contents[b])
<1>10. \A j \in 1..m : p + j <= d => disk[f][p + j] = body[j]
  <2>1. /\ Start(blocks, k) \in Nat \ {0}
        /\ \A j \in 1..m : Written(blocks)[Start(blocks, k) + 2 + j] = body[j]
    BY <1>4, <1>5, WrittenPlaces
  <2>2. \A j \in 1..d : disk[f][j] = Written(blocks)[j]
    BY <1>2, <1>5 DEF Prefix
  <2> SUFFICES ASSUME NEW j \in 1..m, p + j <= d PROVE disk[f][p + j] = body[j]
    OBVIOUS
  <2>3. p + j \in 1..d
    OBVIOUS
  <2>4. Written(blocks)[p + j] = body[j]
    BY <1>5, <2>1
  <2> QED
    BY <2>2, <2>3, <2>4
<1>11. CASE p + m <= d
  <2>1. PICK q \in Nat : q = p + 1
    OBVIOUS
  <2>2. Stands(f, q, body)
    <3> HIDE DEF body
    <3>0. Len(body) = m /\ Len(disk[f]) = d
      BY <1>5 DEF body
    <3>1. q \in Nat \ {0} /\ q + Len(body) <= Len(disk[f]) + 1
      <4>1. q \in Nat \ {0} /\ q + m <= d + 1
        BY <1>11, <2>1
      <4> QED
        BY <3>0, <4>1
    <3>2. \A j \in 1..Len(body) : disk[f][q - 1 + j] = body[j]
      <4> SUFFICES ASSUME NEW j \in 1..m PROVE disk[f][q - 1 + j] = body[j]
        BY <3>0
      <4>1. p + j <= d /\ q - 1 + j = p + j
        BY <1>11, <2>1
      <4> QED
        BY <1>10, <4>1
    <3> QED
      BY <1>2, <3>1, <3>2 DEF Stands
  <2>3. txs = [j \in 1..N |-> ReadAs(b, p + 2, j)]
    <3>1. readBlock(f, p).transactions = [j \in 1..Len(Contents[b]) |-> ReadAs(b, p + 2, j)]
      BY <2>1, <2>2, BlockRead
    <3> QED
      BY <1>6, <3>1
  <2>4. x.hash = b
    BY <1>5, <1>8, <1>11
  <2>5. N \in Nat /\ DOMAIN Contents[b] = 1..N
    BY BodyListsAre
  <2>6. \A j \in 1..N : Contents[b][j] \in ToSet(Contents[b])
    BY <2>5 DEF ToSet
  <2> DEFINE S == {ReadAs(b, p + 2, j) : j \in 1..N}
  <2>7. txs \in Seq(S) /\ Len(txs) = N
    <3>1. PICK l \in Nat : l = N
      BY <2>5
    <3>2. PICK s : s = [j \in 1..l |-> ReadAs(b, p + 2, j)]
      OBVIOUS
    <3>3. \A j \in 1..l : s[j] \in S
      BY <3>1, <3>2
    <3> HIDE DEF S
    <3>4. s \in Seq(S) /\ Len(s) = l
      BY <3>2, <3>3
    <3> QED
      BY <2>3, <3>1, <3>2, <3>4
  <2>8. ASSUME NEW j \in 1..N
        PROVE  /\ txs[j].hash = Contents[b][j]
               /\ txs[j].inputs = InputTokens(Contents[b][j])
    BY <2>3, <2>8 DEF ReadAs
  <2> HIDE DEF S, txs, N
  <2>9. Right(txs, b)
    BY <2>6, <2>7, <2>8 DEF Right
  <2> QED
    BY <1>0, <1>9, <2>4, <2>9 DEF txs
<1>12. CASE d <= p
  <2>1. NumberAt(f, p + 1) = 0
    <3>1. p + 1 \notin DOMAIN disk[f]
      <4>1. DOMAIN disk[f] = 1..d
        BY <1>2, <1>5
      <4> QED
        BY <1>12, <4>1
    <3>2. TokenAt(f, p + 1) = Number(0)
      BY <3>1 DEF TokenAt
    <3> QED
      BY <3>2, Kinds DEF NumberAt
  <2>2. txs = <<>>
    BY <1>6, <2>1, ReadsNone
  <2>3. Right(txs, x.hash)
    <3>1. <<>> \in Seq({}) /\ Len(<<>>) = 0
      OBVIOUS
    <3> QED
      BY <2>2, <3>1 DEF Right
  <2> QED
    BY <1>0, <1>9, <2>3
<1>13. CASE d = p + FirstPart(b) /\ ~(p + m <= d)
  <2>1. FirstPart(b) \in 1..m
    BY <1>5, PartsAre
  <2>2. PICK u \in 1..m : u = FirstPart(b)
    BY <2>1
  <2>3. d = p + u /\ u < m
    BY <1>13, <2>2
  <2>4. \A j \in 1..u : disk[f][p + j] = body[j]
    <3>1. \A j \in 1..u : j \in 1..m /\ p + j <= d
      BY <2>3
    <3> QED
      BY <1>10, <3>1
  <2>5. HalfRead(readBlock(f, p).transactions)
    BY <1>2, <1>5, <2>2, <2>3, <2>4, FirstPartRead
  <2> QED
    BY <1>0, <1>6, <1>9, <2>5 DEF HalfRead, Faulty
<1> QED
  BY <1>5, <1>11, <1>12, <1>13
=============================================================================
