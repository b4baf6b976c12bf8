------------------------------ MODULE Intents ------------------------------
(***************************************************************************)
(* The intents an agent signs that spend SOL or nothing: pay (pay.rs),     *)
(* swap (swap.rs, a SOL send with a minimum), deploy (deploy.rs, a logged  *)
(* request) and call (call.rs, an invoke of another program).  Each makes  *)
(* one CORE check_grant, then debits the spend vault, then reimburses the  *)
(* relayer from the paymaster; any failure reverts the three.              *)
(*                                                                         *)
(* Recipients are whatever account the caller passes, the custody accounts *)
(* and the relayer included, and the root works on the custody accounts    *)
(* between any two intents.                                                *)
(***************************************************************************)
EXTENDS Custody

CONSTANTS
    MinOuts     \* min_out_lamports a swap may name

intentVars == <<coreVars, custodyVars>>

ASSUME IntentsAssumption == MinOuts \subseteq Nat

IntentsTypeOK == CoreTypeOK /\ CustodyTypeOK

IntentsInit == CoreInit /\ CustodyInit

-----------------------------------------------------------------------------
\* debit_spend_vault: the balances after it, and whether it may be made.
CanDebitVault(recipient, amount) ==
    /\ MoveSucceeds(sol, VaultPda, recipient, amount, VaultRent)
    /\ RentExempt(Moved(sol, VaultPda, recipient, amount), recipient)

Debited(recipient, amount) == Moved(sol, VaultPda, recipient, amount)

\* The end of every intent: reimburse the relayer from the balances the
\* intent left.
Settle(a, bal, sponsor, payer) ==
    /\ CanReimburse(bal, grants[a], sponsor, payer)
    /\ sol' = Reimbursed(bal, sponsor, payer)
    /\ UNCHANGED <<now, tokens, vaultOpen, paymaster>>

\* Mutant: debits without asking CORE for the amount.
PayUnmetered(a, recipient, amount, sponsor, payer) ==
    /\ amount > 0
    /\ SponsorAsked(sponsor, payer)
    /\ vaultOpen
    /\ CheckGrant(a, 0)
    /\ CanDebitVault(recipient, amount)
    /\ Settle(a, Debited(recipient, amount), sponsor, payer)

Pay(a, recipient, amount, sponsor, payer) ==
    /\ amount > 0
    /\ SponsorAsked(sponsor, payer)
    /\ vaultOpen
    /\ CheckGrant(a, amount)
    /\ CanDebitVault(recipient, amount)
    /\ Settle(a, Debited(recipient, amount), sponsor, payer)

Swap(a, destination, amountIn, minOut, sponsor, payer) ==
    /\ amountIn >= minOut
    /\ Pay(a, destination, amountIn, sponsor, payer)

\* deploy: check_grant(0) and an event.
Deploy(a, sponsor, payer) ==
    /\ SponsorAsked(sponsor, payer)
    /\ vaultOpen
    /\ CheckGrant(a, 0)
    /\ Settle(a, sol, sponsor, payer)

\* What the invoked program may do: it is not signed for by any custody
\* account, so it can only move what wallets that signed the transaction
\* hold, and only to accounts it was handed: never the vault, nor the
\* paymaster when the call names it (reject_protected_remaining).
Invoked(bal, from, to, amount, payer) ==
    /\ from \in Relayers
    /\ to \notin {VaultPda} \cup (IF payer = NoAccount THEN {} ELSE {PaymasterPda})
    /\ MoveSucceeds(bal, from, to, amount, 0)
    /\ RentExempt(Moved(bal, from, to, amount), to)

\* call: amount 0 is a policy ping, with no debit.  `from` is NoAccount when
\* nothing is invoked or the program invoked moves nothing.
Call(a, recipient, amount, from, to, inner, sponsor, payer) ==
    LET debited == IF amount > 0 THEN Debited(recipient, amount) ELSE sol
    IN  /\ SponsorAsked(sponsor, payer)
        /\ vaultOpen
        /\ CheckGrant(a, amount)
        /\ amount > 0 => CanDebitVault(recipient, amount)
        /\ IF from = NoAccount
           THEN Settle(a, debited, sponsor, payer)
           ELSE /\ Invoked(debited, from, to, inner, payer)
                /\ Settle(a, Moved(debited, from, to, inner), sponsor, payer)

-----------------------------------------------------------------------------
IntentByAgent(a, sponsor, payer) ==
    \/ \E recipient \in Accounts, amount \in Lamports :
          \/ Pay(a, recipient, amount, sponsor, payer)
          \/ \E minOut \in MinOuts : Swap(a, recipient, amount, minOut, sponsor, payer)
    \/ Deploy(a, sponsor, payer)
    \/ \E recipient, to \in Accounts, amount \in Lamports \cup {0},
          from \in Relayers \cup {NoAccount}, inner \in Lamports :
          Call(a, recipient, amount, from, to, inner, sponsor, payer)

IntentsNext ==
    \/ \E a \in Agents, sponsor \in SponsorLamports, payer \in Relayers \cup {NoAccount} :
          IntentByAgent(a, sponsor, payer)
    \/ CustodyNext /\ UNCHANGED coreVars
    \/ CoreNext /\ UNCHANGED custodyVars

IntentsSpec == IntentsInit /\ [][IntentsNext]_intentVars

-----------------------------------------------------------------------------
(* Properties.                                                             *)

\* A trader that was initialised stays ready for trades, fundings and sweeps
\* of its tokens, whatever its root withdraws and whichever intents pay it:
\* withdraw_pump_trader "leaves rent-exempt minimum" and "does not close",
\* though the runtime would let it leave nothing (pump_trader.rs).
TraderNeverCloses == [][TraderReady => TraderReady']_intentVars

\* SOL leaves the spend vault only to the root, to the trader on the root's
\* order, or by charging exactly as much to one agent whose grant was live:
\* after a revoke or a soft kill nothing more can be taken.
VaultOutflow ==
    [][LET out == sol[VaultPda] - sol'[VaultPda]
       IN  out > 0 =>
             \/ /\ sol' = [sol EXCEPT ![VaultPda] = sol[VaultPda] - out, ![Root] = sol[Root] + out]
                /\ UNCHANGED grants
             \/ /\ sol' = [sol EXCEPT ![VaultPda] = sol[VaultPda] - out,
                                      ![TraderPda] = sol[TraderPda] + out]
                /\ UNCHANGED grants
             \/ \E a \in Agents :
                   /\ ~grants[a].revoked /\ now < grants[a].expires
                   /\ grants[a].spent + out <= grants[a].cap
                   /\ grants' = [grants EXCEPT ![a].spent = grants[a].spent + out]]_intentVars

\* SOL leaves the paymaster only to the root or, while it is not paused and at
\* most MaxSponsor at a time, in an intent of a live sponsor-eligible agent.
SponsorOutflow ==
    [][LET out == sol[PaymasterPda] - sol'[PaymasterPda]
       IN  out > 0 =>
             \/ sol' = [sol EXCEPT ![PaymasterPda] = sol[PaymasterPda] - out, ![Root] = sol[Root] + out]
             \/ /\ paymaster.open /\ ~paymaster.paused
                /\ out <= MaxSponsor
                /\ \E a \in Agents : /\ grants[a].sponsorEligible
                                     /\ ~grants[a].revoked /\ now < grants[a].expires]_intentVars
=============================================================================
