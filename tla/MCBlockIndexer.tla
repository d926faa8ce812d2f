--------------------------- MODULE MCBlockIndexer ---------------------------
(***************************************************************************)
(* Small chains for the model checker.  Blocks are named by branch and     *)
(* height: "g0" is the genesis block, the "a" and "b" blocks fork from it. *)
(* An output is named by the transaction that makes it.                    *)
(***************************************************************************)
EXTENDS IndexerLedger

ForkBlocks == {"g0", "a1", "a2", "b1", "b2", "b3"}
LineBlocks == {"g0", "a1", "a2", "a3"}

MCPrev == [b \in Blocks |->
    CASE b = "g0" -> ZeroHash
      [] b \in {"a1", "b1"} -> "g0"
      [] b = "a2" -> "a1"
      [] b = "a3" -> "a2"
      [] b = "b2" -> "b1"
      [] b = "b3" -> "b2"]

MCHeightOf == [b \in Blocks |->
    CASE b = "g0" -> 0
      [] b \in {"a1", "b1"} -> 1
      [] b \in {"a2", "b2"} -> 2
      [] b \in {"a3", "b3"} -> 3]

\* "a2" and "b2" carry the same timestamp.
MCTimeOf == [b \in Blocks |->
    CASE b \in {"a2", "b2"} -> 3
      [] OTHER -> MCHeightOf[b]]

MCTxs == {"cg", "ca", "cb", "pay", "alt", "late", "side"}
MCOutpoints == MCTxs
MCAddresses == {"alice", "bob"}

To(o, a) == [out |-> o, address |-> a]
By(o, t) == [out |-> o, tx |-> t]

\* "pay" is mined in both branches, as is "late", which spends what "pay"
\* made; "side" is mined in branch b only.
MCTxsOf == [b \in Blocks |->
    CASE b = "g0" -> {"cg"}
      [] b = "a1" -> {"ca", "pay"}
      [] b = "b1" -> {"cb", "pay"}
      [] b = "a2" -> {"late"}
      [] b = "b2" -> {"late", "side"}
      [] b \in {"a3", "b3"} -> {"alt"}]

\* An output of "pay" is a multi-signature script: two addresses share it.
MCCredits == [b \in Blocks |->
    CASE b = "g0" -> <<To("cg", "alice")>>
      [] b = "a1" -> <<To("ca", "alice"), To("pay", "bob"), To("pay", "alice")>>
      [] b = "b1" -> <<To("cb", "bob"), To("pay", "bob"), To("pay", "alice")>>
      [] b \in {"a2", "b2"} -> <<To("late", "bob")>>
      [] b \in {"a3", "b3"} -> <<To("alt", "alice")>>]

\* What both branches spend, they spend at the same height.
MCDebits == [b \in Blocks |->
    CASE b \in {"a1", "b1"} -> <<By("cg", "pay")>>
      [] b = "a2" -> <<By("pay", "late")>>
      [] b = "b2" -> <<By("pay", "late"), By("cb", "side")>>
      [] b \in {"a3", "b3"} -> <<By("late", "alt")>>
      [] OTHER -> <<>>]
=============================================================================
