----------------------------- MODULE MCProfBufs -----------------------------
(* Constant values for the run of ProfBufs.                                *)
EXTENDS ProfBufs, TLC

CONSTANTS h1, m1, m2

\* h1 interrupts the code registrar m1; the registrar m2 runs in another thread.
OneHost == h1 :> m1
=============================================================================
