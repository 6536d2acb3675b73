------------------------------ MODULE MCMcpGateway ------------------------------
(***************************************************************************)
(* McpGateway for TLC: two callers and two actions under one key.          *)
(***************************************************************************)
EXTENDS McpGateway, TLC

CONSTANTS c1, c2

MCDeliveries == {c1, c2} \X {1, 2}

\* The second caller may keep no ledger and may ask for another action.
MCConnectors == c1 :> {<<"a1", TRUE>>} @@ 
                c2 :> {<<"a1", TRUE>>, <<"a2", TRUE>>, <<"a2", FALSE>>}
==================================================================================
