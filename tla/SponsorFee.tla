------------------------------ MODULE SponsorFee ------------------------------
(***************************************************************************)
(* The sponsorship fee and its burn (sponsor_fee.rs).  Each GrokAccount    *)
(* has a fee rate its root sets and an authority, a PDA of the program,    *)
(* that owns token accounts of the $GrokChain mint.  Nothing in the        *)
(* program charges the rate yet: what reaches those accounts are transfers *)
(* anyone makes, into any of them and at any time, a burn's included.      *)
(*                                                                         *)
(* Token-2022 is external.  An account is burned from only by the          *)
(* signature of its owner, which for a fee account only the program can    *)
(* give.                                                                   *)
(***************************************************************************)
EXTENDS Integers, Sums

CONSTANTS
    Groks,          \* the GrokAccounts
    Wallets,        \* token accounts that people own
    FeeAccounts,    \* token accounts that fee authorities own
    AuthorityOf,    \* fee account -> the GrokAccount of its authority
    MaxFee,         \* MAX_FEE_PER_INTENT
    Fees,           \* rates a root may ask for
    Amounts,        \* amounts of a transfer
    InitialBalance  \* token account -> balance before the model starts

VARIABLES
    config,         \* GrokAccount -> its SponsorFeeConfig
    balance,        \* token account -> tokens
    supply,         \* the mint's supply
    collected,      \* history: GrokAccount -> what its fee accounts were sent
    burned          \* history: GrokAccount -> what was reported as burned

feeVars == <<config, balance, supply, collected, burned>>

TokenAccounts == Wallets \cup FeeAccounts

ASSUME SponsorFeeAssumption ==
    /\ Wallets \cap FeeAccounts = {}
    /\ IsFiniteSet(TokenAccounts)
    /\ AuthorityOf \in [FeeAccounts -> Groks]
    /\ MaxFee \in Nat /\ Fees \subseteq Nat /\ Amounts \subseteq Nat \ {0}
    /\ InitialBalance \in [TokenAccounts -> Nat]
    /\ \A acct \in FeeAccounts : InitialBalance[acct] = 0

TotalOf(accounts) == SumOver(balance, accounts)

FeeTypeOK ==
    /\ config \in [Groks -> [open: BOOLEAN, fee: 0 .. MaxFee]]
    /\ balance \in [TokenAccounts -> Nat]
    /\ supply \in Nat
    /\ collected \in [Groks -> Nat] /\ burned \in [Groks -> Nat]

FeeInit ==
    /\ config = [g \in Groks |-> [open |-> FALSE, fee |-> 0]]
    /\ balance = InitialBalance
    /\ supply = SumOver(InitialBalance, TokenAccounts)
    /\ collected = [g \in Groks |-> 0]
    /\ burned = [g \in Groks |-> 0]

-----------------------------------------------------------------------------
InitFee(g) ==
    /\ ~config[g].open
    /\ config' = [config EXCEPT ![g] = [open |-> TRUE, fee |-> 0]]
    /\ UNCHANGED <<balance, supply, collected, burned>>

\* Mutant: no ceiling.
SetFeeUncapped(g, fee) ==
    /\ config[g].open
    /\ config' = [config EXCEPT ![g].fee = fee]
    /\ UNCHANGED <<balance, supply, collected, burned>>

SetFee(g, fee) ==
    /\ fee <= MaxFee
    /\ config[g].open
    /\ config' = [config EXCEPT ![g].fee = fee]
    /\ UNCHANGED <<balance, supply, collected, burned>>

\* Any holder of tokens sends some, to a person or into a fee account.
Transfer(from, to, amount) ==
    /\ from # to
    /\ balance[from] >= amount
    /\ balance' = [balance EXCEPT ![from] = @ - amount, ![to] = @ + amount]
    /\ collected' = IF to \in FeeAccounts
                    THEN [collected EXCEPT ![AuthorityOf[to]] = @ + amount]
                    ELSE collected
    /\ UNCHANGED <<config, supply, burned>>

\* Mutant of MayBurn: the owner of the account is not compared.
MayBurnAnything(g, acct) == balance[acct] > 0

\* The account's owner is the authority of the GrokAccount the burner names,
\* and there is something to burn.  No config is looked at.
MayBurn(g, acct) ==
    /\ acct \in FeeAccounts /\ AuthorityOf[acct] = g
    /\ balance[acct] > 0

Burned(g, acct, amount) ==
    /\ balance' = [balance EXCEPT ![acct] = @ - amount]
    /\ supply' = supply - amount
    /\ burned' = [burned EXCEPT ![g] = @ + amount]
    /\ UNCHANGED <<config, collected>>

\* Mutant: burns less than there is and does not look again.
BurnSome(g, acct) == MayBurn(g, acct) /\ Burned(g, acct, 1)

\* burn_collected_fees, by anyone: everything the account holds as the burn
\* executes, verified by reading the balance back.
Burn(g, acct) ==
    /\ MayBurn(g, acct)
    /\ Burned(g, acct, balance[acct])
    /\ balance'[acct] = 0

-----------------------------------------------------------------------------
FeeNext ==
    \/ \E g \in Groks : InitFee(g) \/ \E fee \in Fees : SetFee(g, fee)
    \/ \E from \in Wallets, to \in TokenAccounts, amount \in Amounts : Transfer(from, to, amount)
    \/ \E g \in Groks, acct \in TokenAccounts : Burn(g, acct)

FeeSpec == FeeInit /\ [][FeeNext]_feeVars

-----------------------------------------------------------------------------
(* Properties.                                                             *)

\* "Total supply falls by exactly what was collected" (sponsor_fee.rs): of
\* what each GrokAccount's fee accounts were ever sent, all is burned or still
\* there, however deposits and burns of several accounts interleave, and the
\* supply is what the token accounts hold.
CollectedIsBurnedOrHeld ==
    /\ \A g \in Groks :
          collected[g] = burned[g] + TotalOf({acct \in FeeAccounts : AuthorityOf[acct] = g})
    /\ supply = TotalOf(TokenAccounts)

\* "A vault whose only exit is destruction": when a fee account loses tokens it
\* loses them all, the supply falls by as many and nobody receives any.
OnlyExitIsDestruction ==
    [][\A acct \in FeeAccounts :
          balance'[acct] < balance[acct] =>
             /\ balance' = [balance EXCEPT ![acct] = 0]
             /\ supply' = supply - balance[acct]]_feeVars
=============================================================================
