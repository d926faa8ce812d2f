------------------------------- MODULE Ledger -------------------------------
(***************************************************************************)
(* What the index promises its readers, in the keys that                   *)
(* src/blockindexer.cpp writes and src/httpserver.cpp reads: a ledger of   *)
(* blocks that are posted and withdrawn whole.  It says nothing of         *)
(* database writes, key numbers, counters or lists of keys.                *)
(***************************************************************************)
EXTENDS Naturals, FiniteSets

CONSTANTS
    Blocks,
    Below,          \* Below[b]: the block b stands on, in Blocks or not
    Level,          \* Level[b]: its height
    Gives,          \* Gives[b]: the outputs b credits to addresses
    Takes           \* Takes[b]: the outputs b spends, as records with field out

VARIABLES
    posted,         \* the blocks in the ledger
    credits,        \* what they give
    spends          \* what they take

ledgerVars == <<posted, credits, spends>>

LedgerInit == posted = {} /\ credits = {} /\ spends = {}

\* A block is posted where no other is, on the block it stands on.  Nothing it
\* takes is taken already.
Post(b) ==
    /\ \A c \in posted : Level[c] # Level[b]
    /\ Below[b] \in Blocks => Below[b] \in posted
    /\ \A s \in spends, t \in Takes[b] : s.out # t.out
    /\ posted' = posted \cup {b}
    /\ credits' = credits \cup Gives[b]
    /\ spends' = spends \cup Takes[b]

\* A block goes with everything it brought and with nothing else.
Withdraw(b) ==
    /\ b \in posted
    /\ posted' = posted \ {b}
    /\ credits' = credits \ Gives[b]
    /\ spends' = spends \ Takes[b]

LedgerNext == \E b \in Blocks : Post(b) \/ Withdraw(b)

LedgerSpec == LedgerInit /\ [][LedgerNext]_ledgerVars
=============================================================================
