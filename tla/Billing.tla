------------------------------ MODULE Billing ------------------------------
(***************************************************************************)
(* Paying merchants in tokens: the root's merchant registry                *)
(* (merchants.rs), one-off payments (pay_token.rs) and recurring ones      *)
(* (subscription.rs), all drawing on the trader's token balance and on the *)
(* same CORE grants.                                                       *)
(*                                                                         *)
(* A transaction may be sent twice, late, by several agents at once, or    *)
(* for a period its sender only believes to be the current one.  The       *)
(* actions therefore take every argument from the caller, in any order and *)
(* any number of times; BillingScheduler adds the sender.                  *)
(***************************************************************************)
EXTENDS Custody, Sums

CONSTANTS
    MaxMerchants,   \* MAX_MERCHANTS, the registry's capacity
    MinPeriod,      \* MIN_PERIOD_SECONDS
    MaxPayments,    \* u32::MAX, where the payments counter saturates
    TokenAmounts,   \* amounts a payment or a subscription may name
    PeriodLengths,  \* period_seconds a subscription may name
    StartTimes      \* start_unix a subscription may name

VARIABLES
    registry,   \* MerchantRegistry: [open, mint, merchants]
    subs,       \* the Subscription accounts that exist, by merchant and mint
    charges,    \* history: transfers made for each subscription and period
    direct      \* history: tokens pay_token moved to each merchant

billingVars == <<registry, subs, charges, direct>>
paymentVars == <<coreVars, custodyVars, billingVars>>

PeriodNone == -1
SubKeys    == Merchants \X Mints
Periods    == 0 .. MaxTime

Subscription == [amount: Nat \ {0}, period: Nat \ {0}, start: Nat,
                 lastPaid: Periods \cup {PeriodNone}, payments: 0 .. MaxPayments,
                 active: BOOLEAN]

\* The vault and the paymaster are open when the model starts: the root has
\* paid their rent.
ASSUME BillingAssumption ==
    /\ MaxMerchants \in Nat
    /\ MinPeriod \in Nat \ {0}
    /\ MaxPayments \in Nat \ {0}
    /\ TokenAmounts \subseteq Nat
    /\ PeriodLengths \subseteq Int /\ StartTimes \subseteq Int
    /\ IsFiniteSet(Agents) /\ IsFiniteSet(Merchants)
    /\ InitialSol[VaultPda] >= VaultRent /\ InitialSol[PaymasterPda] >= PaymasterRent

BillingTypeOK ==
    /\ CoreTypeOK /\ CustodyTypeOK
    /\ registry \in [open: BOOLEAN, mint: Mints \cup {NoAccount}, merchants: SUBSET Merchants]
    /\ DOMAIN subs \subseteq SubKeys
    /\ subs \in [DOMAIN subs -> Subscription]
    /\ charges \in [SubKeys -> [Periods -> Nat]]
    /\ direct \in [SubKeys -> Nat]

BillingInit ==
    /\ CoreInit
    /\ sol = InitialSol /\ tokens = InitialTokens
    /\ vaultOpen = TRUE
    /\ \E r \in Relayers : paymaster = [open |-> TRUE, relayer |-> r, paused |-> FALSE]
    /\ registry = [open |-> FALSE, mint |-> NoAccount, merchants |-> {}]
    /\ subs = [k \in {} |-> 0]
    /\ charges = [k \in SubKeys |-> [p \in Periods |-> 0]]
    /\ direct = [k \in SubKeys |-> 0]

-----------------------------------------------------------------------------
(* Merchant registry.  Root only.                                          *)

InitMerchantRegistry(mint) ==
    /\ ~registry.open
    /\ registry' = [open |-> TRUE, mint |-> mint, merchants |-> {}]
    /\ UNCHANGED <<coreVars, custodyVars, subs, charges, direct>>

AddMerchant(m) ==
    /\ registry.open
    /\ Cardinality(registry.merchants) < MaxMerchants
    /\ m \notin registry.merchants
    /\ registry' = [registry EXCEPT !.merchants = @ \cup {m}]
    /\ UNCHANGED <<coreVars, custodyVars, subs, charges, direct>>

RemoveMerchant(m) ==
    /\ m \in registry.merchants
    /\ registry' = [registry EXCEPT !.merchants = @ \ {m}]
    /\ UNCHANGED <<coreVars, custodyVars, subs, charges, direct>>

\* Mutants of Listed: any mint; any merchant.
ListedAnyMint(m, mint)     == registry.open /\ m \in registry.merchants
ListedAnyMerchant(m, mint) == registry.open /\ registry.mint = mint

\* The registry exists, pins this mint and lists this merchant, now.
Listed(m, mint) ==
    /\ registry.open
    /\ registry.mint = mint
    /\ m \in registry.merchants

-----------------------------------------------------------------------------
(* A token payment: the trader can cover it, CORE meters the raw token     *)
(* amount against the agent's grant, the tokens move.                      *)

\* Mutants of MeteredTransfer: the source's balance is not looked at; CORE is
\* asked for a policy ping instead of the amount.
UncoveredTransfer(a, m, mint, amount) ==
    /\ CheckGrant(a, amount)
    /\ tokens' = [tokens EXCEPT ![TraderPda][mint] = @ - amount, ![m][mint] = @ + amount]
UnmeteredTransfer(a, m, mint, amount) ==
    /\ tokens[TraderPda][mint] >= amount
    /\ CheckGrant(a, 0)
    /\ tokens' = [tokens EXCEPT ![TraderPda][mint] = @ - amount, ![m][mint] = @ + amount]

MeteredTransfer(a, m, mint, amount) ==
    /\ tokens[TraderPda][mint] >= amount
    /\ CheckGrant(a, amount)
    /\ tokens' = [tokens EXCEPT ![TraderPda][mint] = @ - amount,
                                ![m][mint] = @ + amount]

\* pay_token.  The vault account must be passed, though nothing debits it.
PayToken(a, m, mint, amount, sponsor, payer) ==
    /\ amount > 0
    /\ SponsorAsked(sponsor, payer)
    /\ vaultOpen
    /\ Listed(m, mint)
    /\ MeteredTransfer(a, m, mint, amount)
    /\ CanReimburse(sol, grants[a], sponsor, payer)
    /\ sol' = Reimbursed(sol, sponsor, payer)
    /\ direct' = [direct EXCEPT ![<<m, mint>>] = @ + amount]
    /\ UNCHANGED <<now, vaultOpen, paymaster, registry, subs, charges>>

-----------------------------------------------------------------------------
(* Subscriptions.                                                          *)

\* start_unix of a new subscription: a start in the past becomes now.
StartFrom(start) == IF start > now THEN start ELSE now

NewSubscription(amount, period, start) ==
    [amount |-> amount, period |-> period, start |-> StartFrom(start),
     lastPaid |-> PeriodNone, payments |-> 0, active |-> TRUE]

\* `init` on the subscription's address refuses one that exists, cancelled or
\* not: there is one Subscription per merchant and mint, for ever.
CreateSubscription(m, mint, amount, period, start) ==
    /\ amount > 0
    /\ period >= MinPeriod
    /\ Listed(m, mint)
    /\ <<m, mint>> \notin DOMAIN subs
    /\ subs' = [k \in DOMAIN subs \cup {<<m, mint>>} |->
                   IF k \in DOMAIN subs THEN subs[k]
                   ELSE NewSubscription(amount, period, start)]
    /\ UNCHANGED <<coreVars, custodyVars, registry, charges, direct>>

CancelSubscription(k) ==
    /\ subs[k].active
    /\ subs' = [subs EXCEPT ![k].active = FALSE]
    /\ UNCHANGED <<coreVars, custodyVars, registry, charges, direct>>

Started(s) == now >= s.start

\* current_period, for a subscription that has started.
CurrentPeriod(s) == (now - s.start) \div s.period

\* Mutants of NotYetPaid: off by one; the periods must be paid in turn.
NotPaidAfter(s, p) == p >= s.lastPaid
NextToPay(s, p)    == p = s.lastPaid + 1

\* The idempotency check.
NotYetPaid(s, p) == p > s.lastPaid

\* Mutants of Payable: trusts the caller's period; forgets the cancellation;
\* lets the bot catch up on the periods it missed, in order.
PayableAsStated(s, p)   == s.active /\ Started(s) /\ NotYetPaid(s, p)
PayableCancelled(s, p)  == Started(s) /\ p = CurrentPeriod(s) /\ NotYetPaid(s, p)
PayableMissed(s, p)     == s.active /\ Started(s) /\ p <= CurrentPeriod(s) /\ NotYetPaid(s, p)

\* The caller states the period it believes it is paying.
Payable(s, p) ==
    /\ s.active
    /\ Started(s)
    /\ p = CurrentPeriod(s)
    /\ NotYetPaid(s, p)

\* Mutant: the counter does not saturate.
AfterPaymentCounted(s, p) == [s EXCEPT !.lastPaid = p, !.payments = @ + 1]

AfterPayment(s, p) ==
    [s EXCEPT !.lastPaid = p,
              !.payments = IF @ < MaxPayments THEN @ + 1 ELSE @]

\* pay_subscription.  Sponsorship is asked for (and refused on the same
\* grounds as anywhere) but never paid: the handler has no reimburse_sponsor.
PaySubscription(a, k, p, sponsor, payer) ==
    /\ Payable(subs[k], p)
    /\ SponsorAsked(sponsor, payer)
    /\ Listed(k[1], k[2])
    /\ MeteredTransfer(a, k[1], k[2], subs[k].amount)
    /\ subs' = [subs EXCEPT ![k] = AfterPayment(@, p)]
    /\ charges' = [charges EXCEPT ![k][p] = @ + 1]
    /\ UNCHANGED <<now, sol, vaultOpen, paymaster, registry, direct>>

-----------------------------------------------------------------------------
PaymentByAgent(a, sponsor, payer) ==
    \/ \E m \in Merchants, mint \in Mints, amount \in TokenAmounts :
          PayToken(a, m, mint, amount, sponsor, payer)
    \/ \E k \in DOMAIN subs, p \in Periods :
          PaySubscription(a, k, p, sponsor, payer)

\* What the root does to the billing accounts.
BillingAdmin ==
    \/ \E mint \in Mints : InitMerchantRegistry(mint)
    \/ \E m \in Merchants : AddMerchant(m) \/ RemoveMerchant(m)
    \/ \E m \in Merchants, mint \in Mints, amount \in TokenAmounts,
          period \in PeriodLengths, start \in StartTimes :
          CreateSubscription(m, mint, amount, period, start)
    \/ \E k \in DOMAIN subs : CancelSubscription(k)

\* What the root does to the paymaster and the trader while agents pay.
CustodyAdmin ==
    \/ \E r \in Relayers : SetRelayer(r)
    \/ PausePaymaster \/ UnpausePaymaster
    \/ \E amount \in Lamports : WithdrawPaymaster(amount)
    \/ \E swept \in SUBSET Mints : WithdrawPumpTrader(0, swept)

BillingNext ==
    \/ \E a \in Agents, sponsor \in SponsorLamports, payer \in Relayers \cup {NoAccount} :
          PaymentByAgent(a, sponsor, payer)
    \/ BillingAdmin
    \/ CustodyAdmin /\ UNCHANGED <<coreVars, billingVars>>
    \/ CoreNext /\ UNCHANGED <<custodyVars, billingVars>>

BillingSpec == BillingInit /\ [][BillingNext]_paymentVars

-----------------------------------------------------------------------------
(* Properties.                                                             *)

\* However often, late or concurrently pay_subscription is sent, at most one
\* transfer is ever made for a subscription and period (the promise in the
\* header of subscription.rs: exactly-once settlement).
NoDoubleCharge == \A k \in SubKeys, p \in Periods : charges[k][p] <= 1

\* A merchant collects at most one payment per period that has begun, so the
\* money a subscription can cost is bounded by the time it has run; and the
\* counters record exactly what was charged ("payments and last_paid_period
\* make the gap auditable").
PaymentsTrackTime ==
    \A k \in DOMAIN subs :
        LET s    == subs[k]
            paid == {p \in Periods : charges[k][p] > 0}
        IN  /\ \A p \in paid : p <= s.lastPaid
            /\ s.lastPaid # PeriodNone => /\ s.lastPaid \in paid
                                          /\ Started(s)
                                          /\ s.lastPaid <= CurrentPeriod(s)
            /\ Cardinality(paid) <= MaxPayments => s.payments = Cardinality(paid)

\* "Missed periods are not backfilled" (subscription.rs, header): a transfer
\* for period p is made between the start of p and its end, neither ahead of
\* time nor, by a payment that was delayed or a bot that was offline, after
\* it; so there is no surprise triple charge.
MissedPeriodsAreNotBackfilled ==
    [][\A k \in SubKeys, p \in Periods :
          charges'[k][p] # charges[k][p] =>
             LET begins(q) == subs[k].start + q * subs[k].period
             IN  /\ k \in DOMAIN subs
                 /\ begins(p) <= now /\ now < begins(p + 1)]_paymentVars

\* The merchant's tokens are what pay_token sent it plus the subscription's
\* amount times its payments: no other path of the program pays a merchant.
MerchantBooks ==
    \A k \in SubKeys :
        tokens[k[1]][k[2]] = InitialTokens[k[1]][k[2]] + direct[k]
            + (IF k \in DOMAIN subs
               THEN subs[k].amount * Cardinality({p \in Periods : charges[k][p] > 0})
               ELSE 0)

\* A grant never pays out more than its cap, however the root revises the cap
\* between payments already on their way.
SpendWithinCap == \A a \in Agents : grants[a].spent <= grants[a].cap

\* Every token a merchant ever received was metered by CORE, once, against
\* some agent's cap, and only in the mint the registry pins: one-off and
\* recurring payments share the caps and cannot escape them.
EveryTokenIsMetered ==
    LET gained(mint) ==
            SumOver([m \in Merchants |-> tokens[m][mint] - InitialTokens[m][mint]], Merchants)
    IN  /\ SpendWithinCap
        /\ \A mint \in Mints :
               gained(mint) = IF registry.open /\ mint = registry.mint
                              THEN SumOver([a \in Agents |-> grants[a].spent], Agents)
                              ELSE 0

\* cancel_subscription is final: nothing the root, an agent or the passing of
\* time does later reactivates, rewrites or charges that subscription.
CancelIsFinal ==
    [][\A k \in DOMAIN subs : ~subs[k].active =>
          /\ k \in DOMAIN subs'
          /\ subs'[k] = subs[k]
          /\ charges'[k] = charges[k]]_paymentVars

\* A merchant is paid only while the root's registry lists it, in the
\* registry's mint, and by exactly one agent whose grant is live at that
\* moment: removing the merchant, revoking the grant or letting it expire
\* stops a payment that was already sent.
PaymentHasAuthority ==
    [][\A m \in Merchants, mint \in Mints :
          LET paid == tokens'[m][mint] - tokens[m][mint]
          IN  paid > 0 =>
                /\ registry.open /\ mint = registry.mint /\ m \in registry.merchants
                /\ \E a \in Agents :
                      /\ ~grants[a].revoked /\ now < grants[a].expires
                      /\ grants' = [grants EXCEPT ![a].spent = @ + paid]]_paymentVars

\* Agents can only make the paymaster pay the relayer set at that moment, at
\* most MaxSponsor at a time, never while it is paused, and only in the step
\* that charges a sponsor-eligible grant; anything else that leaves it goes
\* to the root.
PaymasterOutflow ==
    [][LET out == sol[PaymasterPda] - sol'[PaymasterPda]
       IN  out > 0 =>
             \/ sol' = [sol EXCEPT ![PaymasterPda] = @ - out, ![Root] = @ + out]
             \/ /\ sol' = [sol EXCEPT ![PaymasterPda] = @ - out,
                                      ![paymaster.relayer] = @ + out]
                /\ ~paymaster.paused
                /\ out <= MaxSponsor
                /\ \E a \in Agents : /\ grants[a].sponsorEligible
                                     /\ grants'[a].spent > grants[a].spent]_paymentVars

-----------------------------------------------------------------------------
(* The abstract specification.  A contract is a Subscription account, it is *)
(* in the period the chain's clock is in, settled for the periods that were *)
(* charged, and its income is what the merchant really received beyond     *)
(* one-off payments.                                                       *)

Promise == INSTANCE ExactlyOnce WITH
    Keys      <- SubKeys,
    Terms     <- Periods,
    Prices    <- TokenAmounts \ {0},
    current   <- [k \in SubKeys |-> IF k \in DOMAIN subs /\ Started(subs[k])
                                    THEN CurrentPeriod(subs[k]) ELSE PeriodNone],
    contracts <- [k \in DOMAIN subs |-> [price |-> subs[k].amount, open |-> subs[k].active]],
    settled   <- [k \in SubKeys |-> {p \in Periods : charges[k][p] > 0}],
    income    <- [k \in SubKeys |-> tokens[k[1]][k[2]] - InitialTokens[k[1]][k[2]] - direct[k]]

\* Billing implements ExactlyOnce: seen through money and history, whatever
\* is sent, repeated, late or refused amounts to agreeing, closing, settling
\* the current period once at the agreed price, or the passing of time.
SettlesExactlyOnce == Promise!Spec

-----------------------------------------------------------------------------
(* Two statements the source makes that its code does not keep.            *)

\* A subscription created "with start_unix a few days in the past so the
\* current period is already non-zero" (subscription.rs, header): if a whole
\* period lies between start_unix and now, the period is at least 1.
BackdatedStartIsKept ==
    [][\A m \in Merchants, mint \in Mints, amount \in TokenAmounts,
          period \in PeriodLengths, start \in StartTimes :
          /\ CreateSubscription(m, mint, amount, period, start)
          /\ start + period <= now
          => LET s == subs'[<<m, mint>>]
             IN  now >= s.start + s.period]_paymentVars

\* A subscription has "everything pay_token has" (subscription.rs, header),
\* so a call that asks for sponsorship and succeeds pays the relayer back.
SponsoredPaymentIsPaidBack ==
    [][\A a \in Agents, k \in DOMAIN subs, p \in Periods,
          sponsor \in SponsorLamports, payer \in Relayers \cup {NoAccount} :
          PaySubscription(a, k, p, sponsor, payer)
          => sol' = Reimbursed(sol, sponsor, payer)]_paymentVars
=============================================================================
