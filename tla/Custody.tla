------------------------------ MODULE Custody ------------------------------
(***************************************************************************)
(* Where the money is: the three custody accounts of one GrokAccount and   *)
(* the instructions only the human root can call on them.                  *)
(*                                                                         *)
(*   spend vault   program-owned PDA, pays the agent's SOL intents         *)
(*                 (spend_vault.rs)                                        *)
(*   paymaster     program-owned PDA, reimburses the relayer that paid a   *)
(*                 transaction's fee (paymaster.rs, common.rs)             *)
(*   pump trader   system-owned PDA that holds SOL and tokens and signs    *)
(*                 for them (pump_trader.rs)                               *)
(*                                                                         *)
(* Every instruction is one atomic transaction: a failed require! reverts  *)
(* it all, so an action is enabled exactly when every check on its path    *)
(* passes.  Network fees and the rent of small records are left out.       *)
(***************************************************************************)
EXTENDS CoreGrant

CONSTANTS
    Root,                               \* the human's wallet
    Relayers,                           \* wallets that may submit and pay fees
    Payees,                             \* other wallets SOL may be sent to
    VaultPda, PaymasterPda, TraderPda,  \* the custody accounts
    Merchants, Mints,                   \* payees and denominations of tokens
    NoAccount,                          \* an Option<..> account left out
    VaultRent, PaymasterRent, TraderRent,  \* Rent::minimum_balance of each
    MaxSponsor,                         \* MAX_SPONSOR_LAMPORTS
    U64Max,
    Lamports,                           \* amounts of SOL a call may name
    SponsorLamports,                    \* amounts a call may ask to sponsor
    InitialSol, InitialTokens           \* balances before the model starts

VARIABLES
    sol,        \* account -> lamports
    tokens,     \* owner -> mint -> tokens over the owner's token accounts
    vaultOpen,  \* the SpendVault account exists
    paymaster   \* [open, relayer, paused]

custodyVars == <<sol, tokens, vaultOpen, paymaster>>

Wallets  == Relayers \cup Payees
Accounts == Wallets \cup {Root, VaultPda, PaymasterPda, TraderPda}
Holders  == Merchants \cup {Root, TraderPda}

ASSUME CustodyAssumption ==
    /\ VaultRent \in Nat /\ PaymasterRent \in Nat
    /\ TraderRent \in Nat \ {0}
    /\ MaxSponsor \in Nat /\ U64Max \in Nat
    /\ Lamports \subseteq Nat /\ SponsorLamports \subseteq Nat
    /\ InitialSol \in [Accounts -> Nat]
    /\ InitialTokens \in [Holders -> [Mints -> Nat]]
    /\ VaultPda \notin Wallets \cup {Root, PaymasterPda, TraderPda}
    /\ PaymasterPda \notin Wallets \cup {Root, TraderPda}
    /\ TraderPda \notin Wallets \cup Merchants \cup {Root}
    /\ Root \notin Wallets \cup Merchants
    /\ NoAccount \notin Accounts

CustodyTypeOK ==
    /\ sol \in [Accounts -> Nat]
    /\ tokens \in [Holders -> [Mints -> Nat]]
    /\ vaultOpen \in BOOLEAN
    /\ paymaster \in [open: BOOLEAN, relayer: Relayers \cup {NoAccount}, paused: BOOLEAN]

CustodyInit ==
    /\ sol = InitialSol
    /\ tokens = InitialTokens
    /\ vaultOpen = FALSE
    /\ paymaster = [open |-> FALSE, relayer |-> NoAccount, paused |-> FALSE]

-----------------------------------------------------------------------------
(* Moving lamports.  Handlers that move twice in one transaction thread    *)
(* the balances through these two operators.                               *)

\* Mutant of CanMove: the debit wraps instead of failing.
CanMoveWrapping(bal, from, to, amount, floor) == bal[to] + amount <= U64Max

\* What try_debit_program_owned checks: a debit leaves at least floor behind.
CanMove(bal, from, to, amount, floor) ==
    /\ bal[from] - amount >= floor
    /\ bal[to] + amount <= U64Max

\* What the runtime checks when the instruction ends: its balances add up to
\* what they were.  Both new balances are computed before either is written,
\* so a debit of an account to itself would add `amount` to it; the code does
\* not compare the two accounts and leaves that to this rule
\* (UnbalancedInstruction).
Balanced(from, to) == from # to

MoveSucceeds(bal, from, to, amount, floor) ==
    CanMove(bal, from, to, amount, floor) /\ Balanced(from, to)

Moved(bal, from, to, amount) ==
    [bal EXCEPT ![from] = bal[from] - amount, ![to] = bal[to] + amount]

\* The runtime refuses to leave a funded account below the rent of an empty one.
RentExempt(bal, account) == bal[account] >= TraderRent

\* What an account still lacks of its rent when it is created at `rent`.
RentDue(pda, rent) == IF sol[pda] >= rent THEN 0 ELSE rent - sol[pda]

\* Anchor's init: the root pays the missing rent.
CreateAt(pda, rent) ==
    /\ sol[Root] >= RentDue(pda, rent)
    /\ sol' = Moved(sol, Root, pda, RentDue(pda, rent))

MoveSol(from, to, amount, floor) ==
    /\ amount > 0
    /\ MoveSucceeds(sol, from, to, amount, floor)
    /\ sol' = Moved(sol, from, to, amount)

-----------------------------------------------------------------------------
(* Spend vault.                                                            *)

InitSpendVault ==
    /\ ~vaultOpen
    /\ CreateAt(VaultPda, VaultRent)
    /\ vaultOpen' = TRUE
    /\ UNCHANGED <<tokens, paymaster>>

FundSpendVault(amount) ==
    /\ vaultOpen
    /\ MoveSol(Root, VaultPda, amount, 0)
    /\ UNCHANGED <<tokens, vaultOpen, paymaster>>

\* Mutant: withdraws down to nothing, rent included.
WithdrawSpendVaultRent(amount) ==
    /\ vaultOpen
    /\ MoveSol(VaultPda, Root, amount, 0)
    /\ UNCHANGED <<tokens, vaultOpen, paymaster>>

WithdrawSpendVault(amount) ==
    /\ vaultOpen
    /\ MoveSol(VaultPda, Root, amount, VaultRent)
    /\ UNCHANGED <<tokens, vaultOpen, paymaster>>

-----------------------------------------------------------------------------
(* Paymaster.                                                              *)

InitPaymaster(relayer) ==
    /\ ~paymaster.open
    /\ CreateAt(PaymasterPda, PaymasterRent)
    /\ paymaster' = [open |-> TRUE, relayer |-> relayer, paused |-> FALSE]
    /\ UNCHANGED <<tokens, vaultOpen>>

FundPaymaster(amount) ==
    /\ paymaster.open
    /\ MoveSol(Root, PaymasterPda, amount, 0)
    /\ UNCHANGED <<tokens, vaultOpen, paymaster>>

WithdrawPaymaster(amount) ==
    /\ paymaster.open
    /\ MoveSol(PaymasterPda, Root, amount, PaymasterRent)
    /\ UNCHANGED <<tokens, vaultOpen, paymaster>>

SetRelayer(relayer) ==
    /\ paymaster.open
    /\ paymaster' = [paymaster EXCEPT !.relayer = relayer]
    /\ UNCHANGED <<sol, tokens, vaultOpen>>

PausePaymaster ==
    /\ paymaster.open
    /\ paymaster' = [paymaster EXCEPT !.paused = TRUE]
    /\ UNCHANGED <<sol, tokens, vaultOpen>>

UnpausePaymaster ==
    /\ paymaster.open
    /\ paymaster' = [paymaster EXCEPT !.paused = FALSE]
    /\ UNCHANGED <<sol, tokens, vaultOpen>>

-----------------------------------------------------------------------------
(* Sponsorship, a part of every intent: the transaction's fee payer is     *)
(* paid back from the paymaster.  `payer` is the optional fee_payer        *)
(* account, NoAccount when it or the paymaster is left out.                *)

\* precheck_sponsor, before the CORE CPI.
SponsorAsked(lamports, payer) ==
    /\ lamports <= MaxSponsor
    /\ lamports > 0 => payer # NoAccount /\ paymaster.open

\* Mutants of CanReimburse: reimburses into the rent; reimburses whoever the
\* fee payer is; reimburses while paused.
CanReimburseRent(bal, g, lamports, payer) ==
    lamports > 0 => /\ g.sponsorEligible /\ ~paymaster.paused /\ payer = paymaster.relayer
                    /\ MoveSucceeds(bal, PaymasterPda, payer, lamports, 0)
CanReimburseAnyone(bal, g, lamports, payer) ==
    lamports > 0 => /\ g.sponsorEligible /\ ~paymaster.paused
                    /\ MoveSucceeds(bal, PaymasterPda, payer, lamports, PaymasterRent)
CanReimbursePaused(bal, g, lamports, payer) ==
    lamports > 0 => /\ g.sponsorEligible /\ payer = paymaster.relayer
                    /\ MoveSucceeds(bal, PaymasterPda, payer, lamports, PaymasterRent)

\* reimburse_sponsor's checks, at the end, on the balances the intent left.
CanReimburse(bal, g, lamports, payer) ==
    lamports > 0 =>
        /\ g.sponsorEligible
        /\ ~paymaster.paused
        /\ payer = paymaster.relayer
        /\ MoveSucceeds(bal, PaymasterPda, payer, lamports, PaymasterRent)

Reimbursed(bal, lamports, payer) ==
    IF lamports = 0 THEN bal ELSE Moved(bal, PaymasterPda, payer, lamports)

-----------------------------------------------------------------------------
(* Pump trader.                                                            *)

TraderReady == sol[TraderPda] >= TraderRent

InitPumpTrader ==
    /\ sol[TraderPda] = 0
    /\ CreateAt(TraderPda, TraderRent)
    /\ UNCHANGED <<tokens, vaultOpen, paymaster>>

FundPumpTrader(amount) ==
    /\ vaultOpen
    /\ TraderReady
    /\ MoveSol(VaultPda, TraderPda, amount, VaultRent)
    /\ UNCHANGED <<tokens, vaultOpen, paymaster>>

\* Mutant: withdraws down to nothing, which the runtime accepts.
WithdrawPumpTraderRent(amount, swept) ==
    /\ TraderReady
    /\ amount > 0 => MoveSucceeds(sol, TraderPda, Root, amount, 0)
    /\ sol[TraderPda] - amount = 0 \/ sol[TraderPda] - amount >= TraderRent
    /\ sol' = Moved(sol, TraderPda, Root, amount)
    /\ UNCHANGED <<tokens, vaultOpen, paymaster>>

\* SOL (0 is a no-op) and the whole balance of every mint named in `swept`.
WithdrawPumpTrader(amount, swept) ==
    /\ TraderReady
    /\ amount > 0 => MoveSucceeds(sol, TraderPda, Root, amount, TraderRent)
    /\ sol' = Moved(sol, TraderPda, Root, amount)
    /\ tokens' = [h \in Holders |-> [mint \in Mints |->
          CASE mint \in swept /\ h = TraderPda -> 0
            [] mint \in swept /\ h = Root -> tokens[Root][mint] + tokens[TraderPda][mint]
            [] OTHER -> tokens[h][mint]]]
    /\ UNCHANGED <<vaultOpen, paymaster>>

-----------------------------------------------------------------------------
\* Anyone may send SOL to any account; the runtime wants it rent exempt after.
ExternalTransfer(from, to, amount) ==
    /\ MoveSol(from, to, amount, 0)
    /\ RentExempt(sol', to)
    /\ sol'[from] = 0 \/ RentExempt(sol', from)
    /\ UNCHANGED <<tokens, vaultOpen, paymaster>>

CustodyNext ==
    \/ InitSpendVault
    \/ \E r \in Relayers : InitPaymaster(r) \/ SetRelayer(r)
    \/ PausePaymaster \/ UnpausePaymaster
    \/ InitPumpTrader
    \/ \E amount \in Lamports :
          \/ FundSpendVault(amount) \/ WithdrawSpendVault(amount)
          \/ FundPaymaster(amount)  \/ WithdrawPaymaster(amount)
          \/ FundPumpTrader(amount)
          \/ \E from \in Wallets \cup {Root}, to \in Accounts :
                ExternalTransfer(from, to, amount)
    \/ \E amount \in Lamports \cup {0}, swept \in SUBSET Mints :
          WithdrawPumpTrader(amount, swept)

-----------------------------------------------------------------------------
(* Every program-owned account stays rent exempt whatever mix of intents,  *)
(* sponsorships and withdrawals debits it (the `min` floors of             *)
(* common.rs, spend_vault.rs and paymaster.rs); otherwise the runtime      *)
(* would collect the account and the human's funds in it.                  *)
RentFloors ==
    /\ vaultOpen => sol[VaultPda] >= VaultRent
    /\ paymaster.open => sol[PaymasterPda] >= PaymasterRent
=============================================================================
