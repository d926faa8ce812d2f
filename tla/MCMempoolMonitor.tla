-------------------------- MODULE MCMempoolMonitor --------------------------
(***************************************************************************)
(* Two transactions that pay one address, one of them another one as well. *)
(***************************************************************************)
EXTENDS MempoolMonitor

MCTxs == {"pay", "refund"}
MCAddresses == {"alice", "bob"}
MCAddressesOf == [t \in MCTxs |-> CASE t = "pay" -> <<"alice", "bob">>
                                    [] t = "refund" -> <<"alice">>]
=============================================================================
