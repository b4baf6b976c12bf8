# grok_chain_intents: models, checks and proofs

TLA+ models of the `grok_chain_intents` Solana program
(`src/programs/grok_chain_intents`), checked with TLC on small instances, with
the properties that matter most proved by TLAPS for every instance.

The program lets a human (the *root*) give software agents a budget. CORE,
another program, holds the grants; this one holds the money and spends it only
when CORE's `check_grant` says so. Every instruction is a transaction: its
checks and effects are atomic and a failed `require!` reverts it all. What is
hard is therefore never inside an instruction but between them: the root, several
agents, their relayers, a scheduler that retries and the clock interleave
freely, and each instruction trusts records another one left behind.

## 1. Inventory

| Component | State | Operations | Interacts with |
| --- | --- | --- | --- |
| CORE grants (external; `core_cpi.rs`) | cap, spent, expiry, revoked, sponsor eligibility per agent; the clock | `check_grant`; root: `revise_grant`, `revoke_grant` | called once by every intent, before anything moves |
| Spend vault (`spend_vault.rs`) | lamports on a PDA | root: init, fund, withdraw | debited by SOL intents and `fund_pump_trader` |
| Paymaster (`paymaster.rs`, `common.rs`) | lamports, relayer, paused | root: init, fund, withdraw, set_relayer, pause, unpause | debited at the end of a sponsored intent, to the relayer |
| Pump trader (`pump_trader.rs`) | lamports and token accounts of a system-owned PDA | root: init, fund, withdraw and sweep | source of token payments and of desk trades |
| SOL intents (`pay.rs`, `swap.rs`, `deploy.rs`, `call.rs`) | none of their own | pay, swap, deploy, call | CORE, vault, paymaster, an invoked program |
| Merchant registry (`merchants.rs`) | one mint, up to 32 payees | root: init, add, remove | read by every token payment and by `create_subscription` |
| Token payments (`pay_token.rs`) | none of its own | pay_token | CORE, registry, trader, paymaster |
| Subscriptions (`subscription.rs`) | price, period, start, lastPaid, payments, active | root: create, cancel; agent: pay | CORE, registry, trader |
| Subscription scheduler (off chain; `subscription.rs` header) | a database of what it believes paid | send, record, crash, restart | sends `pay_subscription`, any number of times |
| Sub-grants (`sub_grant.rs`) | a tree of cap, spent, expiry, revoked, depth | issue, revise, revoke, walk and meter | reads CORE grants; no instruction spends through it yet |
| Token desk (`token.rs`) | none of its own | token_buy, token_sell | CORE, trader, Jupiter |
| pump.fun (`pump.rs`) | none of its own | pump_create | CORE, trader, pump.fun |
| Sponsor fee (`sponsor_fee.rs`) | a rate, a fee vault | init_fee, set_fee, burn | nothing fills the vault yet |
| `pump_amm.rs` | | | not compiled: no `mod` names it |

What makes each correct:

* **Subscriptions**: one charge per period whatever is sent; none after cancel;
  a period is charged only while it lasts; counters that tell the truth.
* **Token payments**: only listed merchants, one mint, metered once each.
* **Grants**: shared by all intents of an agent, revised under way, never exceeded.
* **Custody**: rent floors kept, a trader once open stays open, outflow only on authority.
* **Sponsorship**: the relayer set now, capped, never while paused, eligible agents.
* **Scheduler**: a database never ahead of the chain; a bill that stays due is
  settled, whatever crashes and gets lost.
* **Desk**: what an agent takes is metered; a trade keeps its bounds whatever
  the route was; an agent without budget can sell and not buy; the trader stays
  usable.
* **Sponsor fee**: collected tokens can only be burned, and the supply falls by as many.
* **Sub-grants**: a forest; a cap binds everyone beneath it together; revocation
  and expiry reach descendants that are never written; a holder can spend exactly
  when all its ancestors allow it; nothing widens.

The hard behaviours, each at its line and with the properties that watch it, are
the `hazards` of `PROJECT.json`.

## 2. Modules

```
CoreGrant ──┬── Custody ──┬── Billing ──┬── BillingScheduler ── MCBillingScheduler  (SchedulerProofs)
            │             │     ┊       ├── Desk ────────────── MCDesk              (DeskProofs)
            │             │     ┊       └── MCBilling                               (BillingProofs)
            │             │  ExactlyOnce  (abstract; Billing implements it: SchedulerProofs)
            │             └── Intents ──── MCIntents                                (IntentsProofs)
            └── SubGrants ──────────────── MCSubGrants                              (SubGrantsProofs)
SponsorFee ─────────────────────────────── MCSponsorFee                             (SponsorFeeProofs)

SumProofs ──┬── CustodyProofs ──┬── BillingProofs ──┬── SchedulerProofs
            │                   │                   └── DeskProofs
            │                   └── IntentsProofs
            ├── SubGrantsProofs
            └── SponsorFeeProofs
```

**Sums.** `SumOver(f, S)`: what a function's values over a set add up to. The
totals in Billing, SubGrants and SponsorFee are stated with it.

**CoreGrant.** `now` and `grants[agent]`. `CheckGrant(a, amount)` is the one CPI:
a live grant with room, to which the amount is added. CORE's source is not here;
the module says only what the intents program's code and the README's kill
switches rely on. One GrokAccount is modelled: every account of the program is a
PDA seeded with the GrokAccount's key.

**Custody.** `sol[account]`, `tokens[owner][mint]`, whether the vault exists, and
the `paymaster` record; the root's instructions on them. `CanMove` and `Moved`
are `try_debit_program_owned`, which computes both new balances before it writes
either and does not compare the two accounts: that a debit of an account to
itself fails is the runtime's rule (`Balanced`), kept apart as external. `SponsorAsked`, `CanReimburse` and `Reimbursed`
are `precheck_sponsor` and `reimburse_sponsor`, which intents apply to the
balances their own debit left. `ExternalTransfer` is any wallet sending SOL to
any account, which no program can prevent.

**Intents.** `Pay`, `Swap`, `Deploy`, `Call`: the whole handler each, CORE
metering, vault debit and reimbursement in one step. The recipient is any
account, the custody PDAs and the relayer included. The program `Call` invokes
is signed for by no custody account, so it can only move a signing wallet's SOL,
to accounts `reject_protected_remaining` lets it see. (The runtime refuses some
combinations of a raw debit and a CPI that the model allows: it has more
behaviours than the program, which is the safe side for these properties.)

**Billing.** The registry, the subscriptions by merchant and mint, and two
history variables: `charges[merchant, mint][period]` counts transfers,
`direct` adds up one-off payments. `PayToken` and `PaySubscription` take every
argument from the caller, the period included: a duplicate, late or mistimed
transaction is simply another call, so all delivery orders of at-least-once
senders are behaviours. `init` on the subscription's address is the guard
`<<m, mint>> \notin DOMAIN subs`: it exists for ever, cancelled or not.

**SubGrants.** `sub[holder]`, and two histories: `own` (what each holder spent as
a leaf) and `tree` (the CORE agent a chain ends at). `Meter` takes any sequence
of sub-grants as the caller's chain; `WalkAllows` is `walk_and_meter`'s
validation. No instruction calls the pair yet (docs/SUB_GRANTS.md, "Not built");
it is modelled as the one step its doc comments describe: nothing is metered
until everything is checked.

**ExactlyOnce.** The abstract specification of billing: contracts that are
agreed, closed, and settled at their price, once, for the period they are in
(`current`); a period that has passed is never settled. Time is a step of its own
(`Pass`) and only moves contracts forward. It has no grants, registry, start times,
counters or retries. `Billing` instantiates it (`Promise`) with contracts from the
Subscription accounts, the current period from the clock, the settled periods from
the history of transfers, and the income from the merchant's token balance itself;
`SettlesExactlyOnce` says that every behaviour is one of the abstract
specification.

**BillingScheduler.** The bot the header of subscription.rs is written for:
"it sends, crashes before writing, restarts, and sends again". Its source is
not here; the module keeps what the program's comments and checks expect of it.
`database` survives a crash and `answers` does not. A transaction in `inFlight`
can execute any number of times and at any later time (`Land` leaves it there, and
is enabled whenever `pay_subscription` would succeed), its answer can be lost, and
it can expire (`Lose`). `Refuse`
is the error `SubscriptionAlreadyPaid`, which the bot takes as paid. The bot's
clock may be a period early (`Believed`). Root, one-off payments and the chain
clock go on meanwhile (`World`).

**Desk.** `Trade` is the shared handler of `token_buy` and `token_sell`: the
checks, the metered amount (`GrantAmount`), the wrap, the balances before the
route (`Available`, after the wrap), the route as *any* pair of balances it may
leave, `enforce_swap_outcome` on saturating differences, the reimbursement.
`PumpCreate` takes any cost the trader can pay. The history `outlay` adds up what
an agent really took: SOL, wrapped or not, lost in trades and tokens paid to merchants.

**SponsorFee.** Token accounts of several GrokAccounts' fee authorities and of
people, anyone's transfers, `InitFee`, `SetFee`, `Burn`. Nothing in the program
charges the fee yet (`note_collected` has no caller), so deposits are plain transfers.

### Left out, everywhere

Network fees and the rent of small records; token account layout, decimals and
program ids (calls are well formed); Token-2022 transfer fees (a merchant would
receive less than is metered); several token accounts of one owner are added up.
Agents own no SOL account and fee payers are relayers. The root is not a
registered merchant. Grants' generations and allowed programs are only passed
along by this code. A parent sub-grant is of the same GrokAccount (the code does
not require it: a hazard without a property).

In Desk, a Jupiter route changes only the two token accounts of the pair it was
asked to trade. That is an assumption about other programs and not something
token.rs enforces: the route gets the trader's signature and every remaining
account, and only the pair is measured. `OutlayCovered` leaves out what the code
does not bound at all: a sale for SOL with `min_out` = 0 (see finding 5) and
what pump.fun takes for a creation. The root's token sweeps are left out of Desk
(they are in Billing and Intents).

BillingScheduler's world leaves out the root's paymaster and trader instructions
(Billing has them): one-off payments already take the balance from under a bill.

### Not modelled

* `pump_amm.rs`: not compiled, no `mod` names it. `buy_handler` and `sell_handler`
  of `pump.rs`: no instruction calls them any more.
* `validate_pump_create_pdas` and the other account layout, id and length checks
  (`policy.rs`, `constants.rs`): they compare caller-supplied accounts with fixed
  ones, keep no state, and a call that fails them is no step.
* `lib.rs`'s generated dispatch, `events.rs`, `errors.rs`: no state.
* `capability_audit.rs` and `tests/`: tests, read for what they say of the program.
* CORE, SPL Token, Jupiter, pump.fun and the bot are outside the repository:
  modelled from their use, as `external` definitions.

## 3. Runs

| Run | Instance | What it shows |
| --- | --- | --- |
| `billing` | 1 agent, 2 merchants for 1 registry place, 2 mints, clock 0..4, minimum period 2, caps 2 and 3 | every order of payments, repeats, cancels, removals, re-listings, revisions and ticks: at most one charge per period and only while the period lasts, counters and books agree, cancel is final, every payment had authority |
| `billing_sponsor` | 2 agents (one sponsor eligible, one expiring at 3), 2 relayers, float 2 | reimbursements race pause, set_relayer and withdraw: only the present relayer, never into the rent |
| `subgrants` | 1 CORE agent, 3 delegates, caps 1..2, clock 0..1 | all trees up to depth 3, all claimed chains: forest, metering, caps of whole subtrees, who can spend, cascade, narrowing |
| `intents` | 1 agent, 1 relayer, vault and paymaster rent 2, trader rent 2 | under all aliasing of recipients: rent floors, a trader that stays open, who can take SOL from vault and paymaster |
| `scheduler` | 1 agent, 1 merchant, 1 mint, three periods, clock 0..2, cap 3 revised to 2, 1 subscription | the bot's database is never ahead of the chain; billing implements ExactlyOnce beneath it; a due bill can be sent and land; one that stays due is settled |
| `desk` | 1 agent with cap 2 revised to 1, WSOL and one token, in-amounts 1 and 2, `min_out` 0 and 1, balances up to 2 | all routes and costs: the cap covers what was taken, trades keep their bounds, the soft kill still sells, the trader keeps its rent |
| `sponsor_fee` | 2 GrokAccounts, 3 fee accounts, 2 wallets with 3 tokens each, rates up to one past the ceiling | deposits, burns and configuration in any order: what was collected is burned or still there, and only destroyed |
| `soft_kill` | as `desk`, with a stablecoin | violation: a stablecoin buys with no budget left |
| `dest_shrinks` | as `soft_kill` | violation: `min_out` = 0 accepts a smaller destination |
| `backdated` | as `billing` | violation: a past start is clamped to now |
| `paid_back` | as `billing_sponsor` | violation: pay_subscription never reimburses |
| `subgrants_core` | 2 CORE agents, 2 delegates | violation: issuing below a revoked CORE grant with another's |

**Bounds, and why they are enough.** The billing clock spans a start in the future
(3), a boundary inside the run (periods begin at 0, 2 and 4) and three payments
of one subscription, so the counter (saturating at `MaxPayments` = 2 instead of
2^32-1) saturates. The registry holds one merchant of two, so the capacity and the
replace-and-relist cycle occur. Trader tokens (3) and caps (2, 3) run out before the
clock. Sponsor amounts go one past `MaxSponsor`, period lengths one below
`MinPeriod`. In `intents` every debit can reach the floor exactly and miss it by
one. In `subgrants` three delegates reach depth 3 (`MAX_SUB_DEPTH`, the code's
own value), so the longest chain the walk takes occurs; refusing depth 4 needs a fourth, which the theorem about `Forest`
and `SubGrantTypeOK` covers. Only `MaxTime` is an artificial bound in a guard (`Tick`);
all others are sets of arguments or initial balances. The `billing` grant
does not expire before the clock stops; `billing_sponsor`'s second one does.
Caps are revised to one value per run, below the first. In `scheduler` the
clock passes through three periods of length 1, so a bill can be missed, sent
late, paid after a missed one, and the counter (`MaxPayments` = 2) saturates when
the tokens (3) allow a third payment. In `desk` the trader starts with its bare rent, so every
wrap needs a funding first and one lamport too many would leave it below the rent;
`MaxTokens` = 2 bounds what a route leaves. In all of these, as in `billing`,
balances and caps run out within the instance.

Symmetry is used over agents, relayers, merchants, mints and delegates, only in
runs of invariants and action properties, and no initial value distinguishes
them. Deadlock is not checked in the passing runs where the clock, the
balances and the caps are all finite and the system may really stop.

**Fairness** is stated in `BillingScheduler` only: weak fairness of `Restart` (a
supervisor brings a crashed bot back) and, per bill (`Retried`), strong fairness of `Send` (a
bot that is up again and again with an unpaid bill in the current period sends
it, although crashes and losses keep disabling the action) and of `Land` (the
header's "at-least-once delivery": a transaction that is submitted again and again lands while it
can). Nothing is assumed of the root, of other agents or of the clock, so a period
may end, a merchant be removed or the balance be spent before the bill is settled: hence
`DueIsSettledOrPasses` and not "every bill is paid". Weak fairness of `Land` would
not do, nor would it of `Send`, for a loss or a crash may disable each of them again and again. No other module needs fairness, and
the violation runs are counterexamples of one bad step. `scheduler` uses no symmetry.

Every property of every passing run has a mutant: a definition of the model
with a plausible bug (a dropped guard, an off-by-one, `init_if_needed` for
`init`), under which TLC finds that property violated. Mutants stand directly
before what they change.

## 4. Properties

* `NoDoubleCharge`, `PaymentsTrackTime`: subscription.rs's promise, "at-least-once
  delivery becomes exactly-once settlement", with auditable counters.
  `MissedPeriodsAreNotBackfilled`: whatever transaction lands late, the period it
  charges began at or before the clock and has not ended. `MerchantBooks` ties the merchant's balance to both kinds of payment.
* `EveryTokenIsMetered`: what merchants received equals what CORE metered, in the
  registry's mint only, and no grant exceeds its cap.
* `CancelIsFinal`, `PaymentHasAuthority`: the three scopes of cancelling
  (subscription, merchant, grant) each stop a payment already sent.
* `RentFloors`, `TraderNeverCloses`, `VaultOutflow`, `SponsorOutflow`,
  `PaymasterOutflow`: custody. `TraderNeverCloses` is about withdraw_pump_trader's own
  minimum: the runtime would let it empty the trader, which would then refuse every
  trade, funding and sweep. `PaymasterOutflow` (Billing) also says who is paid;
  `SponsorOutflow` (Intents) does not, because within one transaction the program that
  `Call` invokes may move the relayer's SOL and hide what it received.
* `SettlesExactlyOnce`: the refinement; `DatabaseTellsTheTruth`: an answer
  "already paid" may be believed only because the period is compared before the
  counter and `lastPaid` is never in the future; `DueIsSettledOrPasses`: liveness, with
  dueness stated on the history of transfers, not on the record the code decides by;
  `DueCanBeSettled`: neither the bot's database nor `lastPaid` nor a missed period
  can stand in the way of a bill that is due.
* `OutlayCovered`, `TradeHoldsItsBounds`, `SoftKillStillSells`, `TraderStaysReady`: the
  desk, over whole transactions and sequences of them (a wrap in one, its rest
  spent in another, a payment in tokens between).
* `CollectedIsBurnedOrHeld`, `OnlyExitIsDestruction`: the fee.
* `Forest`, `MeteringWalksUp`, `SubSpendWithinCap`, `SubtreeWithinCap`,
  `SpendsUnderLiveAncestors`, `AuthorityOnlyNarrows`: delegation. `AncestorsDecide`
  says that the walk's checks are exactly the ancestors' consent: the bound on a
  chain's length never refuses a holder that the bound on depth let be issued. Note what they do *not* say: the walk does
  not meter the CORE grant, so sub-grants issued directly beneath it may together
  spend more than its cap until the spending instruction that would also call
  `check_grant` is written.

## 5. Proofs

Every invariant and action property that a passing run checks is also a theorem
of its specification, except the two with ENABLED (`SoftKillStillSells`,
`DueCanBeSettled`); so is the refinement, and the liveness property is one under the
second of the two. The
theorems hold for any number of agents, merchants, mints, wallets, delegates,
any depth, any amounts, any clock.

**What is assumed.** Only the named assumptions on the constants, which TLC
evaluates on every run. Besides the types of the parameters they say:

* sets that a total is taken over are finite (`Agents`, `Merchants`,
  `Keys`, `TokenAccounts`): there are finitely many accounts;
* in Billing and Desk the vault and the paymaster, which are open when these
  models start, hold their rent (`init` pays it before it returns); Intents
  starts with both closed and assumes nothing of them.

**SumProofs.** The library's `MapThenSumSet` picks the next element with CHOOSE and
recurs on the rest, and the induction theorems of the library cannot be
instantiated here. The argument avoids them: a nonempty set of natural numbers has
a least element (from the well-foundedness of `<`, which is stated for a set and
not for a predicate), and so a nonempty set of finite subsets has one from which no
element can be taken away (`LeastSubset`). With a set of *counterexamples* in
place of an induction hypothesis this gives that the recursion has exactly one
solution (`TotalsExist`, `TotalsAgree`), that any element can be set apart
whatever CHOOSE picked (`SumSplit`), and from there what the models need: a total changes
by as much as one value changes (`SumChange`), moving an amount conserves it
(`SumMoved`), it is natural and at least each of its terms (`SumNat`).

**CustodyProofs.** One debit-and-credit (`Moved`) is the atom. Lemmas say what it
leaves on each account, under which floor it keeps the custody accounts covered,
and that an open trader stays open when its rent is the floor (`MoveKeepsCovered`). `CustodyMoves` shows that each of the root's instructions and
a reimbursement is such a move, once; the components above never
open those actions again.

**IntentsProofs.** `IntentsInv` is types and rent floors. `IntentsHaveOneForm` shows
that all four intents are one step: CORE charges what the vault pays, the balances
before the reimbursement are fair (`FairBalances`: above the floors, an open trader
still open, nothing taken from the paymaster), and the relayer is reimbursed last;
it composes debit and a call's inner transfer for every aliasing of the accounts.
`TraderStaysOpen` follows from it and from the floor of the root's withdrawal. `VaultPaysOnlyItsOwners` and
`PaymasterPaysOnlySponsorships` are action properties: what is to be shown is that each step that lowers the balance has the charge, the
eligibility or the root's name beside it.

**BillingProofs.** `TypeCorrect` first, action by action. `NoDoubleCharge` is not
inductive: a second charge is refused because `p > lastPaid`, so the invariant
must say that what was charged is never above `lastPaid` (part of
`PaymentsTrackTime`) and that only subscriptions that exist were ever charged
(`ChargedExists`, so that a new one starts with no charges). `BillingInv` is the
conjunction of types, caps and these; `Invariance` proves it, and
`ExactlyOnceSettlement`, `CountersTellTheTruth` and `CapBindsPayments` follow.
That `CurrentPeriod` never shrinks is a lemma about integer division
(`PeriodsOnlyGrow`), and that the clock is inside it another (`PeriodIsUnderWay`), from
which `NothingIsBackfilled` follows. `BooksBalance` adds that a subscription's price is fixed and
that a payment adds exactly one period. `EveryTokenWasMetered` compares two totals,
over merchants and over agents: one payment changes one term of each by the
same amount. It needs that nothing was metered before the registry is open,
since the mint that counts is the one the registry pins then. `CancellationIsFinal` and
`PaymentsHaveAuthority` are action properties, from the type invariant and two
lemmas that say what one step can do to subscriptions and to tokens;
`PaymasterPaysOnlyItsRelayer` and `BillingKeepsRentFloors` rest on CustodyProofs.

**SchedulerProofs.** First the refinement, `BillingImplementsExactlyOnce`: the initial
states map to the initial state, and a step is sorted by what it does to merchants' tokens
(`PaymentStep`). If it moves none, it agrees on a contract, closes one, or lets time pass
(`UnpaidStep`): a new subscription starts now or later, so its period is not begun or
the first, and the clock takes none back (`PeriodPasses`). A one-off payment adds the same to
both sides of the income. A charge is a `Settle` (`PaidStep`): it is for the period under way;
that period was not settled before because every charged period is at or below
`lastPaid` (from `BillingInv`), which is below it; and exactly the agreed price was
transferred. Then the bot: every step of it, of the network or of the world is a step of
Billing or leaves its state alone (`SchedulerStepsAreBillingSteps`; it needs
that bills are only sent for subscriptions that exist), so all of Billing's
invariant holds beneath the bot, and the refinement too
(`SchedulerSettlesExactlyOnce`). `DatabaseIsNeverAhead` needs `PaymentsTrackTime`: the
refusal is trusted because `p` is the current period and `lastPaid`, which is at
least `p` and never in the future, is therefore `p` and was charged.
`SchedulerImplementsBilling` says it as a whole: a behaviour with the bot is a behaviour of
Billing, and inherits each of its theorems.

*Liveness.* `DueBillsAreSettled` proves `DueIsSettledOrPasses` for every instance from
`SchedulerSpec` and `[]DueCanBeSettled`. The hypothesis is the one place where the
argument needs ENABLED, of which the prover knows nothing; TLC checks it as an
invariant of `scheduler`, and its content is proved with the successor written out:
`DueCanLand` (a due bill in flight lands, since the idempotency check lets every due bill through,
`DueIsPayable`) and `DueCanBeSent` (one that is not in flight can be sent, since the database
does not have it). The argument for one bill is propositional temporal logic: were it due
for ever, the bot would be up again and again (weak fairness of `Restart`), so the
bill would be sent (strong fairness of `Send`), so it would be in flight again and again
and land (strong fairness of `Land`), after which it is not due (`LandingSettles`).

**DeskProofs.** `OutlayCovered` is a chain, outlay at most spent at most cap, and is
inductive with the types: a charge keeps the second link because CORE looked, and
the first because `enforce_swap_outcome` bounds what a route took by what was metered
before it (`TradesHoldTheirBounds` states the bounds themselves, over the whole
transaction, wrap included). `TradesLeaveTheTraderReady` needs the order of the
checks: the wrap leaves the rent, and no route touches lamports.
`SoftKilledAgentCanSell` is `SoftKillStillSells` with the successor written out instead
of ENABLED: the sale of one unit of any token the trader holds passes every check of
`Trade` when cap = spent, whatever else the reachable state holds.

**SponsorFeeProofs.** That the supply stays natural is not inductive by itself: a burn
subtracts an account's whole balance, so the invariant must say that the supply is the
total of all balances. `SupplyFallsByWhatWasCollected` splits that total by
GrokAccount; `FeesAreOnlyDestroyed` is the action property.

**SubGrantsProofs.** The invariant adds to types, forest and caps that a parent
has been metered at least as much as each of its children (`ParentPaysToo`).
Because parents are written once and depth grows by one, a linked
chain from a holder to a node without parent is exactly the holder's ancestors:
this is what `RevocationCascades` needs, and `DelegationOnlyNarrows` follows
because ancestors never change and each of them only loses authority.
`SpendingWalksUp` is the exact form of `ParentPaysToo`, an equation with the total over the
children. A spend meters each member of the chain once, and each member's children include
exactly one other member, or none (`ChainRises`: depths fall by one along the
chain, so no node occurs twice); a new child starts at 0, and so does what its key ever
spent as a leaf. `CapsBindSubtrees` is inductive as an equation (`SubtreeMetered`: what was
metered on a sub-grant is the total of what its subtree spent itself): a spend changes the total of
exactly those subtrees the spender is in, which are those of its ancestors, which are the
chain (`ChainIsAncestors`); a new member joins the subtrees above it with nothing
spent. `AncestorsDecideWhoSpends` has one direction from the same lemma; for the other a chain
is built for every holder from its parent's (`ClimbOneMore`), by the least depth
for which there is none (`ChainToTheTop`).

**Only model-checked.** `SoftKillStillSells` and `DueCanBeSettled`
contain ENABLED, which is out of the prover's reach; each has its theorems with the
successor written out (above), and it is only the step from there to ENABLED that TLC
checks. The five violation runs are counterexamples and have nothing to prove.

## 6. Disagreements found

1. **A back-dated subscription** (`backdated`). The header of subscription.rs
   (lines 39-42) tells how to exercise the code: "create with start_unix a few
   days in the past so the current period is already non-zero". Line 103 clamps
   the start to now; the recipe cannot work.
2. **Sponsored subscriptions are not paid back** (`paid_back`). pay_subscription
   takes `sponsor_lamports`, checks the accounts for it and stops there; the
   header says it has everything pay_token has, which lists the sponsor.
3. **Which CORE grant** (`subgrants_core`). "The CORE grant this whole tree hangs
   beneath" (sub_grant.rs:307) is, below depth 1, any CORE grant of the account.
   A spend would have to check the right one.

4. **The soft kill** (`soft_kill`). The README says that `cap = spent` blocks buys.
   `token_check_grant_amount` meters 0 for every input that is not SOL, so an agent
   with no budget left still buys with the stablecoins the trader holds.
5. **A destination that shrank** (`dest_shrinks`) is "caught by the bounds below"
   (token.rs:164-166). The difference saturates to 0 and `min_out` may be 0, so it is not.

Noted without a run: the comment on `revise` (sub_grant.rs:162-163) sends an issuer that
wants to grant more to "re-issue, which is visible as a new generation"; the account is
`init` and its comment (318-321) says "issuing to a fresh key", which is what the code does.

## 7. Plan

Done: CoreGrant, Custody, Billing with its abstract specification, the scheduler,
Intents, SubGrants, Desk and SponsorFee, with their runs, and the proofs of
all of them. What the code would have to grow before there is more to model:

1. An instruction that spends through a sub-grant (docs/SUB_GRANTS.md, "Not
   built"). It would call `check_grant` as well, so that the CORE cap binds a tree as
   `SubtreeWithinCap` says each sub-grant's does, and it would have to settle which
   CORE grant that is (finding 3) and that a parent is of the same GrokAccount
   (sub_grant.rs:91, the hazard without a property).
2. An instruction that charges the sponsor fee (`note_collected` has no caller).
