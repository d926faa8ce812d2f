--------------------------- MODULE ChainSelection ---------------------------
(***************************************************************************)
(* Which of several blocks the watcher follows: those with the same        *)
(* predecessor or, for its report of double spends, all of one height      *)
(* (src/blockfilewatcher.cpp, processNextBlock and findLongestChain).      *)
(* The scanned blocks are a sequence without repetitions; those with one   *)
(* predecessor, taken in order, are the code's blocks[previousBlockHash].  *)
(***************************************************************************)
EXTENDS Integers, Sequences

CONSTANTS AllBlocks, PrevOf

IsIn(b, scanned) == \E i \in DOMAIN scanned : scanned[i] = b

\* Positions of the blocks whose predecessor is p.
Children(p, scanned) == {i \in DOMAIN scanned : PrevOf[scanned[i]] = p}

\* FollowedBy(scanned)[n]: the blocks that n scanned blocks follow, each the
\* predecessor of the next.
FollowedBy(scanned) ==
    LET follow[n \in 0..Len(scanned)] ==
            IF n = 0 THEN AllBlocks
            ELSE LET above == follow[n - 1]
                 IN  {PrevOf[scanned[i]] :
                         i \in {j \in DOMAIN scanned : scanned[j] \in above}}
    IN  follow

\* The candidates, positions of list, whose chains are left after n rounds.
Left(n, positions, list, follow) ==
    LET above == follow[n] IN {i \in positions : n = 0 \/ list[i] \in above}

\* Mutant of BestPosition: the first candidate, whatever follows it.
FirstPosition(positions, list, scanned) ==
    CHOOSE i \in positions : \A j \in positions : i <= j

\* The candidate that findLongestChain returns: of those left in the last
\* round in which any is, the last.
BestPosition(positions, list, scanned) ==
    LET follow == FollowedBy(scanned)
        rounds == CHOOSE n \in 0..Len(scanned) :
                     /\ Left(n, positions, list, follow) # {}
                     /\ \A m \in 0..Len(scanned) :
                           Left(m, positions, list, follow) # {} => m <= n
        last == Left(rounds, positions, list, follow)
    IN  CHOOSE i \in last : \A j \in last : j <= i

\* The choice between the blocks of one height.
Best(candidates, scanned) ==
    candidates[BestPosition(DOMAIN candidates, candidates, scanned)]

\* blocks[p] of the watcher: the blocks that follow p, in scan order.
Followers(p, scanned) ==
    LET taken[n \in 0..Len(scanned)] ==
            IF n = 0 THEN <<>>
            ELSE IF PrevOf[scanned[n]] = p THEN Append(taken[n - 1], scanned[n])
            ELSE taken[n - 1]
    IN  taken[Len(scanned)]

\* The block that the walk follows from p, one of blocks[p].
BestChild(p, scanned) ==
    scanned[BestPosition(Children(p, scanned), scanned, scanned)]
=============================================================================
