---------------------------- MODULE LongestChain ----------------------------
(***************************************************************************)
(* The loop of findLongestChain (src/blockfilewatcher.cpp), which decides  *)
(* between several blocks: those that follow one block when the chain is   *)
(* walked, all blocks of one height for the report of double spends.  It   *)
(* advances every candidate's chain by one block in turn, calling itself   *)
(* where that chain forks, and returns the candidate whose chain is the    *)
(* last one left.  The calls in progress are a stack of frames.            *)
(***************************************************************************)
EXTENDS Integers, Sequences, FiniteSets

CONSTANT MaxBlocks      \* bound: blocks on disk, numbered above their predecessor

ASSUME MaxBlocksAssumption == MaxBlocks \in Nat

Blocks == 1..MaxBlocks
Root == 0               \* the predecessor of the first blocks
Ended == -1             \* a chain that has come to its end: the empty string

VARIABLES
    prevOf,     \* the predecessor of each block
    scanned,    \* all blocks, in the order of the scan
    asked,      \* the blocks between which it is called to decide
    stack,      \* the calls in progress, the innermost last
    answer      \* what the outermost call has returned, Ended before

vars == <<prevOf, scanned, asked, stack, answer>>

Chain == INSTANCE ChainSelection WITH AllBlocks <- Blocks, PrevOf <- prevOf

Followers(p) == Chain!Followers(p, scanned)

\* The blocks of the height above: those that follow one block after those
\* that follow another.
Above(below) ==
    LET above[n \in 0..Len(below)] ==
            IF n = 0 THEN <<>> ELSE above[n - 1] \o Followers(below[n])
    IN  above[Len(below)]

\* The blocks of each height.
Levels ==
    LET level[h \in 0..MaxBlocks] == IF h = 0 THEN <<Root>> ELSE Above(level[h - 1])
    IN  {level[h] : h \in 1..MaxBlocks}

\* One call: its argument matchingBlocks, nextBlockHashes and the loop index.
Frame(candidates) == [matching |-> candidates, next |-> candidates, i |-> 1]

Top == stack[Len(stack)]
Live(frame) == {j \in DOMAIN frame.next : frame.next[j] # Ended}

\* Mutant of Moved: the index runs past the last chain.
MovedNoWrap(frame, b) == [frame EXCEPT !.next[frame.i] = b, !.i = frame.i + 1]

\* A frame after its i-th chain has moved to block b.
Moved(frame, b) == [frame EXCEPT !.next[frame.i] = b,
                                 !.i = (frame.i % Len(frame.next)) + 1]

Trees == {p \in [Blocks -> 0..MaxBlocks] : \A b \in Blocks : p[b] < b}
Orders == {s \in [Blocks -> Blocks] : \A b \in Blocks : \E i \in Blocks : s[i] = b}

Init ==
    /\ prevOf \in Trees
    /\ scanned \in Orders
    /\ asked \in {s \in {Followers(p) : p \in 0..MaxBlocks} \cup Levels : Len(s) > 1}
    /\ stack = <<Frame(asked)>>
    /\ answer = Ended

Running == stack # <<>>

\* Mutant of Return: the first candidate, whichever chain is left.
ReturnFirst ==
    /\ Running
    /\ Cardinality(Live(Top)) = 1
    /\ LET rest == SubSeq(stack, 1, Len(stack) - 1)
       IN  IF rest = <<>>
           THEN stack' = <<>> /\ answer' = Top.matching[1]
           ELSE /\ stack' = [rest EXCEPT ![Len(rest)] = Moved(@, Top.matching[1])]
                /\ UNCHANGED answer
    /\ UNCHANGED <<prevOf, scanned, asked>>

\* One chain is left: its candidate is the answer, to the calling frame, which
\* follows it, or to the first caller.
Return ==
    /\ Running
    /\ Cardinality(Live(Top)) = 1
    /\ LET best == Top.matching[CHOOSE j \in Live(Top) : TRUE]
           rest == SubSeq(stack, 1, Len(stack) - 1)
       IN  IF rest = <<>>
           THEN stack' = <<>> /\ answer' = best
           ELSE /\ stack' = [rest EXCEPT ![Len(rest)] = Moved(@, best)]
                /\ UNCHANGED answer
    /\ UNCHANGED <<prevOf, scanned, asked>>

\* Mutant of Continues: the chains left are not counted.
ContinuesPastLast == Running

Continues == Running /\ Cardinality(Live(Top)) # 1

\* Mutant of EndChain: the end is not recorded.
EndChainForgotten ==
    /\ Continues
    /\ Followers(Top.next[Top.i]) = <<>>
    /\ stack' = [stack EXCEPT ![Len(stack)] = Moved(@, @.next[@.i])]
    /\ UNCHANGED <<prevOf, scanned, asked, answer>>

\* The i-th chain has no further block, or ended in an earlier round.
EndChain ==
    /\ Continues
    /\ Followers(Top.next[Top.i]) = <<>>
    /\ stack' = [stack EXCEPT ![Len(stack)] = Moved(@, Ended)]
    /\ UNCHANGED <<prevOf, scanned, asked, answer>>

FollowOnly ==
    /\ Continues
    /\ Len(Followers(Top.next[Top.i])) = 1
    /\ stack' = [stack EXCEPT ![Len(stack)] = Moved(@, Followers(Top.next[Top.i])[1])]
    /\ UNCHANGED <<prevOf, scanned, asked, answer>>

\* The i-th chain forks: which branch it takes is another call's answer.
Call ==
    /\ Continues
    /\ Len(Followers(Top.next[Top.i])) > 1
    /\ stack' = Append(stack, Frame(Followers(Top.next[Top.i])))
    /\ UNCHANGED <<prevOf, scanned, asked, answer>>

Next == Return \/ EndChain \/ FollowOnly \/ Call

Spec == Init /\ [][Next]_vars /\ WF_vars(Next)

-----------------------------------------------------------------------------
(* Properties.                                                             *)

\* The loop index is inside the vector at every step of every call, as the
\* calls of at() demand.
TypeOK ==
    /\ prevOf \in Trees /\ scanned \in Orders /\ asked \in Seq(Blocks)
    /\ answer \in Blocks \cup {Ended}
    /\ \A k \in DOMAIN stack :
          /\ Len(stack[k].next) = Len(stack[k].matching)
          /\ stack[k].i \in DOMAIN stack[k].next
          /\ \A j \in DOMAIN stack[k].next : stack[k].next[j] \in Blocks \cup {Ended}

\* How many blocks follow b on the longest chain above it.
Depth ==
    LET depth[b \in Blocks] ==
            LET next == {depth[scanned[i]] : i \in Chain!Children(b, scanned)}
            IN  IF next = {} THEN 0
                ELSE 1 + CHOOSE d \in next : \A e \in next : e <= d
    IN  depth

\* Every call returns the candidate with the longest chain above it and, of
\* several, the one that was found last: what the walk and the report of
\* double spends take it to return.
ReturnsDeepest ==
    ~Running =>
        LET depth == Depth
            deepest == {i \in DOMAIN asked : \A j \in DOMAIN asked :
                           depth[asked[j]] <= depth[asked[i]]}
        IN  /\ answer = asked[CHOOSE i \in deepest : \A j \in deepest : j <= i]
            /\ answer = Chain!Best(asked, scanned)

\* No call ever sees all its chains end: it would go round for ever.
SomeChainLives == \A k \in DOMAIN stack : Live(stack[k]) # {}

\* The loop, which has no bound of its own, ends.
Terminates == <>~Running
=============================================================================
