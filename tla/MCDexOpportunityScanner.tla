----------------------- MODULE MCDexOpportunityScanner -----------------------
(* Values for the constants of DexOpportunityScanner. *)
EXTENDS DexOpportunityScanner

CONSTANTS mainnet, testnet, g, r1, x1

MCChain == {mainnet, testnet}
MCReference == {testnet}
MCFallback == {mainnet}
MCGroup == {g}
MCRequest == {r1}
MCTester == {x1}

=============================================================================
