------------------------- MODULE MCBlockFileWatcher -------------------------
(***************************************************************************)
(* A fork of two blocks against two (or three) above genesis, small enough *)
(* to let the daemon store the blocks in every order and in two files.     *)
(***************************************************************************)
EXTENDS BlockFileWatcher

MCPrev == [b \in Blocks |->
    CASE b = "g0" -> ZeroHash
      [] b \in {"a1", "b1"} -> "g0"
      [] b = "a2" -> "a1"
      [] b = "b2" -> "b1"
      [] b = "b3" -> "b2"]

MCHeightOf == [b \in Blocks |->
    CASE b = "g0" -> 0
      [] b \in {"a1", "b1"} -> 1
      [] b \in {"a2", "b2"} -> 2
      [] b = "b3" -> 3]

MCTxs == {"cg", "ca", "cb", "pay", "late"}
MCAddresses == {"alice"}

\* "pay", which has no output that pays an address, is mined at height 1 of
\* branch a and at height 2 of branch b.
MCTxsOf == [b \in Blocks |->
    CASE b = "g0" -> {"cg"}
      [] b = "a1" -> {"ca", "pay"}
      [] b = "b1" -> {"cb"}
      [] b = "b2" -> {"late", "pay"}
      [] OTHER -> {"late"}]

To(o, a) == [out |-> o, address |-> a]
By(o, t) == [out |-> o, tx |-> t]

MCCredits == [b \in Blocks |->
    CASE b = "g0" -> <<To("cg", "alice")>>
      [] b = "a1" -> <<To("ca", "alice")>>
      [] b = "b1" -> <<To("cb", "alice")>>
      [] OTHER -> <<To("late", "alice")>>]

MCDebits == [b \in Blocks |->
    CASE b \in {"a1", "b2"} -> <<By("cg", "pay")>>
      [] OTHER -> <<>>]

\* "pay" is mined at height 2 of branch a and at height 1 of branch b.
EarlyTxsOf == [b \in Blocks |->
    CASE b \in {"a2", "b1"} -> {"pay"}
      [] b = "g0" -> {"cg"}
      [] OTHER -> {}]
EarlyDebits == [b \in Blocks |->
    CASE b \in {"a2", "b1"} -> <<By("cg", "pay")>>
      [] OTHER -> <<>>]
=============================================================================
