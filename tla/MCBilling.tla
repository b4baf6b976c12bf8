----------------------------- MODULE MCBilling -----------------------------
(***************************************************************************)
(* Small instances of Billing for TLC.                                     *)
(***************************************************************************)
EXTENDS Billing, TLC

MCAccounts(pm) == [acct \in Accounts |-> CASE acct = PaymasterPda -> pm
                                           [] acct = VaultPda -> VaultRent
                                           [] acct = TraderPda -> TraderRent
                                           [] OTHER -> 0]
MCSol     == MCAccounts(PaymasterRent + 2)
MCNoFloat == MCAccounts(PaymasterRent)
MCTokens  == [h \in Holders |-> [mint \in Mints |-> IF h = TraderPda THEN 3 ELSE 0]]

MCGrant(cap, expires, eligible) ==
    [cap |-> cap, spent |-> 0, expires |-> expires, revoked |-> FALSE,
     sponsorEligible |-> eligible]

MCOneGrant  == {MCGrant(3, 5, FALSE)}
MCTwoGrants == {MCGrant(2, 5, TRUE), MCGrant(1, 3, FALSE)}

\* Agents, relayers, merchants and mints are interchangeable: no constant
\* above and no action tells one from another.
MCSymmetry == Permutations(Agents) \cup Permutations(Relayers)
              \cup Permutations(Merchants) \cup Permutations(Mints)
=============================================================================
