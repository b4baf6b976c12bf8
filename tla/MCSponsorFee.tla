---------------------------- MODULE MCSponsorFee ----------------------------
(***************************************************************************)
(* A small instance of SponsorFee for TLC: two fee accounts of one         *)
(* GrokAccount and one of another.                                         *)
(***************************************************************************)
EXTENDS SponsorFee

CONSTANTS g1, g2, f1, f2, f3

MCAuthorityOf == [acct \in FeeAccounts |-> IF acct = f3 THEN g2 ELSE g1]
MCBalance     == [acct \in TokenAccounts |-> IF acct \in Wallets THEN 3 ELSE 0]
=============================================================================
