-------------------------------- MODULE Desk --------------------------------
(***************************************************************************)
(* The trading desk: token_buy and token_sell (token.rs), which hand the   *)
(* trader's token accounts to a Jupiter route the client built, and        *)
(* pump_create (pump.rs), which has pump.fun mint a token at the trader's  *)
(* expense.  Both draw on the grants and the balances pay_token uses.      *)
(*                                                                         *)
(* Jupiter and pump.fun are other programs.  A route may do anything to    *)
(* the two token accounts of the pair it was asked to trade, and a         *)
(* creation may cost anything the trader has.  That a route touches        *)
(* nothing else of the trader's, its lamports and other token accounts, is *)
(* trusted here as it is by token.rs, which measures the pair and no more. *)
(***************************************************************************)
EXTENDS Billing

CONSTANTS
    Wsol,       \* WSOL_MINT, SOL wrapped as a token
    Quotes,     \* the mints one pays with: Wsol and stablecoins
    MinOuts,    \* min_out a trade may name
    MaxTokens   \* bound: the most a route leaves on a token account

VARIABLES
    outlay      \* history: what each agent's trades and payments really took

deskVars == <<paymentVars, outlay>>

ASSUME DeskAssumption ==
    /\ Wsol \in Quotes /\ Quotes \subseteq Mints
    /\ MinOuts \subseteq Nat
    /\ MaxTokens \in Nat

DeskTypeOK ==
    /\ BillingTypeOK
    /\ outlay \in [Agents -> Nat]

DeskInit == BillingInit /\ outlay = [a \in Agents |-> 0]

\* What the trader holds of an asset; SOL counts wrapped or not.
Holding(mint) ==
    tokens[TraderPda][mint] + (IF mint = Wsol THEN sol[TraderPda] ELSE 0)

-----------------------------------------------------------------------------
(* Trades.                                                                 *)

\* Mutants of GrantAmount: only what is wrapped in this transaction counts;
\* every input counts.
GrantAmountWrapped(input, wrap, amount) == IF wrap THEN amount ELSE 0
GrantAmountAlways(input, wrap, amount)  == amount

\* token_check_grant_amount: the grant is a budget of SOL.
GrantAmount(input, wrap, amount) == IF wrap \/ input = Wsol THEN amount ELSE 0

\* Mutant: forgets the rent.
PrefundedToTheLast(amount) == sol[TraderPda] >= amount

\* require_pump_trader_prefunded.
Prefunded(amount) == sol[TraderPda] >= amount + TraderRent

\* The trader after a system transfer out of it; the runtime wants it empty
\* or rent exempt.
TraderPays(amount) == [sol EXCEPT ![TraderPda] = @ - amount]
RuntimeAccepts(bal) == bal[TraderPda] = 0 \/ RentExempt(bal, TraderPda)

\* Mutant: the snapshot is taken before the wrap.
AvailableUnwrapped(input, wrap, amount) == tokens[TraderPda][input]

\* source_before: the snapshot is taken after the wrap.
Available(input, wrap, amount) ==
    tokens[TraderPda][input] + (IF wrap THEN amount ELSE 0)

SaturatingSub(x, y) == IF x >= y THEN x - y ELSE 0

\* enforce_swap_outcome, on the balances before and after the route.
OutcomeAccepted(sourceBefore, sourceAfter, destBefore, destAfter, amount, minOut) ==
    /\ SaturatingSub(sourceBefore, sourceAfter) <= amount
    /\ SaturatingSub(destAfter, destBefore) >= minOut

\* token_buy and token_sell are one handler but for the event they emit.  The
\* route leaves sourceAfter and destAfter on the two accounts.
Trade(a, input, output, wrap, amount, minOut, sourceAfter, destAfter, sponsor, payer) ==
    LET bal == IF wrap THEN TraderPays(amount) ELSE sol
    IN  /\ amount > 0
        /\ input # output
        /\ wrap => input = Wsol
        /\ SponsorAsked(sponsor, payer)
        /\ vaultOpen
        /\ TraderReady
        /\ CheckGrant(a, GrantAmount(input, wrap, amount))
        /\ wrap => Prefunded(amount) /\ RuntimeAccepts(bal)
        /\ OutcomeAccepted(Available(input, wrap, amount), sourceAfter,
                           tokens[TraderPda][output], destAfter, amount, minOut)
        /\ tokens' = [tokens EXCEPT ![TraderPda][input] = sourceAfter,
                                    ![TraderPda][output] = destAfter]
        /\ CanReimburse(bal, grants[a], sponsor, payer)
        /\ sol' = Reimbursed(bal, sponsor, payer)
        /\ UNCHANGED <<now, vaultOpen, paymaster, billingVars>>

-----------------------------------------------------------------------------
(* pump_create.                                                            *)

\* The caller's budget is metered and must be there; what pump.fun then takes
\* is compared with neither.
PumpCreate(a, maxSolCost, cost, sponsor, payer) ==
    LET bal == TraderPays(cost)
    IN  /\ maxSolCost > 0
        /\ SponsorAsked(sponsor, payer)
        /\ vaultOpen
        /\ TraderReady
        /\ CheckGrant(a, maxSolCost)
        /\ Prefunded(maxSolCost)
        /\ cost <= sol[TraderPda] /\ RuntimeAccepts(bal)
        /\ CanReimburse(bal, grants[a], sponsor, payer)
        /\ sol' = Reimbursed(bal, sponsor, payer)
        /\ UNCHANGED <<now, tokens, vaultOpen, paymaster, billingVars>>

-----------------------------------------------------------------------------
\* What a step took from the trader on the agent's account.  A sale for SOL
\* that names no minimum is left out: see DestinationNeverShrinks.
Took(a, taken) == outlay' = [outlay EXCEPT ![a] = @ + taken]

AgentTrades(a, sponsor, payer) ==
    \E input, output \in Mints, wrap \in BOOLEAN, amount \in Lamports, minOut \in MinOuts,
       sourceAfter, destAfter \in 0 .. MaxTokens :
        /\ Trade(a, input, output, wrap, amount, minOut, sourceAfter, destAfter, sponsor, payer)
        /\ IF output = Wsol /\ minOut = 0 THEN UNCHANGED outlay
           ELSE Took(a, SaturatingSub(Holding(Wsol), Holding(Wsol)'))

AgentPays(a, sponsor, payer) ==
    \E m \in Merchants, mint \in Mints, amount \in TokenAmounts :
        PayToken(a, m, mint, amount, sponsor, payer) /\ Took(a, amount)

AgentCreates(a, sponsor, payer) ==
    \E maxSolCost \in Lamports, cost \in Lamports \cup {0} :
        PumpCreate(a, maxSolCost, cost, sponsor, payer) /\ UNCHANGED outlay

\* What the root does meanwhile.
DeskAdmin ==
    \/ InitPumpTrader
    \/ \E amount \in Lamports : FundPumpTrader(amount) \/ WithdrawPumpTrader(amount, {})

DeskNext ==
    \/ \E a \in Agents, sponsor \in SponsorLamports, payer \in Relayers \cup {NoAccount} :
          AgentTrades(a, sponsor, payer) \/ AgentPays(a, sponsor, payer)
            \/ AgentCreates(a, sponsor, payer)
    \/ DeskAdmin /\ UNCHANGED <<coreVars, billingVars, outlay>>
    \/ \E mint \in Mints : InitMerchantRegistry(mint) /\ UNCHANGED outlay
    \/ \E m \in Merchants : AddMerchant(m) /\ UNCHANGED outlay
    \/ CoreNext /\ UNCHANGED <<custodyVars, billingVars, outlay>>

DeskSpec == DeskInit /\ [][DeskNext]_deskVars

-----------------------------------------------------------------------------
(* Properties.                                                             *)

\* What an agent really took from the trader, SOL by trading and tokens by
\* paying, was metered beforehand and within its cap, although one agent may
\* mix lamports and raw tokens on the same counter, wrap SOL in one trade and
\* spend the wrapped rest in another, and have its cap revised in between.
OutlayCovered ==
    \A a \in Agents : outlay[a] <= grants[a].spent /\ grants[a].spent <= grants[a].cap

\* "revise_grant to cap = spent ... still permits sells" (README.md): an agent
\* with no budget left can always sell one unit of a token the trader holds.
SoftKillStillSells ==
    \A a \in Agents, mint \in Mints \ {Wsol} :
        /\ Live(grants[a]) /\ grants[a].spent = grants[a].cap
        /\ vaultOpen /\ TraderReady
        /\ tokens[TraderPda][mint] > 0
        => ENABLED Trade(a, mint, Wsol, FALSE, 1, 1, tokens[TraderPda][mint] - 1,
                         tokens[TraderPda][Wsol] + 1, 0, NoAccount)

\* Over the whole transaction, the wrap included, a trade takes no more than
\* in_amount of its input and, if it names a minimum, brings that much of its
\* output, whatever the route was.
TradeHoldsItsBounds ==
    [][\A a \in Agents, input, output \in Mints, wrap \in BOOLEAN,
          amount \in Lamports, minOut \in MinOuts,
          sponsor \in SponsorLamports, payer \in Relayers \cup {NoAccount} :
          Trade(a, input, output, wrap, amount, minOut,
                tokens'[TraderPda][input], tokens'[TraderPda][output], sponsor, payer)
          => /\ Holding(input) - Holding(input)' <= amount
             /\ minOut > 0 => Holding(output)' - Holding(output) >= minOut]_deskVars

\* No trade or payment costs the trader its rent: whoever trades next finds it
\* ready, without the root having to create it anew.
TraderStaysReady == [][TraderReady /\ tokens' # tokens => TraderReady']_deskVars

-----------------------------------------------------------------------------
(* Two statements the source makes that its code does not keep.            *)

\* "revise_grant to cap = spent blocks buys" (README.md): an agent with no
\* budget left does not buy, that is, pay with a quote mint for another token.
SoftKillBlocksBuys ==
    [][\A a \in Agents, input \in Quotes, output \in Mints \ Quotes, wrap \in BOOLEAN,
          amount \in Lamports, minOut \in MinOuts :
          Trade(a, input, output, wrap, amount, minOut,
                tokens'[TraderPda][input], tokens'[TraderPda][output], 0, NoAccount)
          => grants[a].spent < grants[a].cap]_deskVars

\* "A destination that shrank is not a receipt" and is "caught by the bounds
\* below" (token.rs): no trade leaves the trader with less of its output.
DestinationNeverShrinks ==
    [][\A a \in Agents, input, output \in Mints, wrap \in BOOLEAN,
          amount \in Lamports, minOut \in MinOuts :
          Trade(a, input, output, wrap, amount, minOut,
                tokens'[TraderPda][input], tokens'[TraderPda][output], 0, NoAccount)
          => Holding(output)' >= Holding(output)]_deskVars
=============================================================================
