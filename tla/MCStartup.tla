----------------------------- MODULE MCStartup -----------------------------
(* The chains of MCBlockIndexer under a program that is started.           *)
EXTENDS MCBlockIndexer, Startup
=============================================================================
