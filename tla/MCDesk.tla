------------------------------- MODULE MCDesk -------------------------------
(***************************************************************************)
(* Small instances of Desk for TLC.                                        *)
(***************************************************************************)
EXTENDS Desk

\* The trader has just been created; SOL to trade with is still in the vault.
MCSol    == [acct \in Accounts |-> CASE acct = VaultPda -> VaultRent + 2
                                     [] acct = PaymasterPda -> PaymasterRent + 1
                                     [] acct = TraderPda -> TraderRent
                                     [] OTHER -> 0]
MCTokens == [h \in Holders |-> [mint \in Mints |-> IF h = TraderPda THEN 1 ELSE 0]]
MCGrants == {[cap |-> 2, spent |-> 0, expires |-> 1, revoked |-> FALSE, sponsorEligible |-> TRUE]}
=============================================================================
