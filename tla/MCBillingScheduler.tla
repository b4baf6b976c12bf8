------------------------- MODULE MCBillingScheduler -------------------------
(***************************************************************************)
(* A small instance of BillingScheduler for TLC.                           *)
(***************************************************************************)
EXTENDS BillingScheduler

MCSol    == [acct \in Accounts |->
                IF acct \in {VaultPda, PaymasterPda, TraderPda} THEN 1 ELSE 0]
MCTokens == [h \in Holders |-> [mint \in Mints |-> IF h = TraderPda THEN 3 ELSE 0]]
MCGrants == {[cap |-> 3, spent |-> 0, expires |-> 3, revoked |-> FALSE,
              sponsorEligible |-> FALSE]}
=============================================================================
