---------------------------- MODULE MCHttpServer ----------------------------
(***************************************************************************)
(* The chains of MCBlockIndexer, with their transactions taken apart.      *)
(***************************************************************************)
EXTENDS MCBlockIndexer, HttpServer

ServedBlocks == {"g0", "a1", "a2", "b1", "b2"}

ServedTxs == MCTxs \ {"alt"}

MCMakes == [t \in Txs |->
    CASE t \in {"cg", "ca"} -> {To(t, "alice")}
      [] t \in {"cb", "late"} -> {To(t, "bob")}
      [] t = "pay" -> {To("pay", "bob"), To("pay", "alice")}
      [] OTHER -> {}]

MCTakes == [t \in Txs |->
    CASE t = "pay" -> {"cg"}
      [] t = "late" -> {"pay"}
      [] t = "side" -> {"cb"}
      [] OTHER -> {}]

MCMadeBy == [o \in Outpoints |-> o]

MCTxList == [b \in Blocks |->
    CASE b = "a1" -> <<"ca", "pay">>
      [] b = "b1" -> <<"cb", "pay">>
      [] b = "b2" -> <<"late", "side">>
      [] OTHER -> SetToSeq(MCTxsOf[b])]

MCTxosRequests == {[address |-> "alice", since |-> 0, unspent |-> FALSE],
                   [address |-> "alice", since |-> 1, unspent |-> TRUE],
                   [address |-> "bob", since |-> 2, unspent |-> FALSE],
                   [address |-> "bob", since |-> 0, unspent |-> TRUE]}

MCPageRequests == {[block |-> "a1", page |-> 0], [block |-> "b1", page |-> 1],
                   [block |-> "a2", page |-> 0], [block |-> "b2", page |-> 0]}

MCSpendLists == {<<"cg", "pay">>, <<"late", "cb">>, <<>>}
=============================================================================
