--------------------------- MODULE BillingScheduler ---------------------------
(***************************************************************************)
(* The off-chain bot that the header of subscription.rs is written for,    *)
(* beside the program: "it sends, crashes before writing, restarts, and    *)
(* sends again".  The bot's source is not in the repository; it is         *)
(* modelled from what the program's comments and checks expect of it.      *)
(*                                                                         *)
(* The bot keeps a database of the bills it believes paid, submits a       *)
(* transaction for any bill that is not in it, with the period its own     *)
(* clock tells, and records a bill when the chain answers that it was paid *)
(* or had been already.  Transactions are delayed, repeated or lost, and   *)
(* so are answers; a crash loses everything but the database.              *)
(***************************************************************************)
EXTENDS Billing

VARIABLES
    botUp,      \* the bot is running
    database,   \* the bills it recorded as paid; survives a crash
    inFlight,   \* the bills a submitted transaction may still pay
    answers     \* the bills the chain reported paid, not yet recorded

botVars       == <<botUp, database, inFlight, answers>>
schedulerVars == <<paymentVars, botVars>>

\* The bot asks for no sponsorship (pay_subscription would not pay it anyway).
ASSUME SchedulerAssumption == 0 \in SponsorLamports

\* A bill is a period of a subscription.
Bills == SubKeys \X Periods

SchedulerTypeOK ==
    /\ BillingTypeOK
    /\ botUp \in BOOLEAN
    /\ database \subseteq Bills /\ inFlight \subseteq Bills /\ answers \subseteq Bills

SchedulerInit ==
    /\ BillingInit
    /\ botUp = TRUE
    /\ database = {} /\ inFlight = {} /\ answers = {}

-----------------------------------------------------------------------------
\* The periods the bot's clock may tell: it may be early by one.  A period
\* that is over is reached by delay.
Believed(s) == {CurrentPeriod(s), CurrentPeriod(s) + 1} \cap Periods

\* Mutant: records what it sent, before the chain has answered.
SendRecorded(k, p) ==
    /\ botUp
    /\ k \in DOMAIN subs
    /\ Started(subs[k])
    /\ p \in Believed(subs[k])
    /\ <<k, p>> \notin database \cup inFlight
    /\ inFlight' = inFlight \cup {<<k, p>>}
    /\ database' = database \cup {<<k, p>>}
    /\ UNCHANGED <<paymentVars, botUp, answers>>

Send(k, p) ==
    /\ botUp
    /\ k \in DOMAIN subs
    /\ Started(subs[k])
    /\ p \in Believed(subs[k])
    /\ <<k, p>> \notin database \cup inFlight
    /\ inFlight' = inFlight \cup {<<k, p>>}
    /\ UNCHANGED <<paymentVars, botUp, database, answers>>

\* The transaction executes and pays; it stays in flight, for it may have been
\* submitted twice, and the answer may be lost.
Land(k, p) ==
    /\ <<k, p>> \in inFlight
    /\ \E a \in Agents : PaySubscription(a, k, p, 0, NoAccount)
    /\ answers' \in {answers, answers \cup {<<k, p>>}}
    /\ UNCHANGED <<botUp, database, inFlight>>

\* Mutant: the idempotency check comes before the period is compared.
AlreadyPaidUnordered(s, p) == s.active /\ Started(s) /\ ~NotYetPaid(s, p)

\* pay_subscription fails with SubscriptionAlreadyPaid: every earlier check
\* passed and the idempotency check did not.
AlreadyPaid(s, p) ==
    /\ s.active
    /\ Started(s)
    /\ p = CurrentPeriod(s)
    /\ ~NotYetPaid(s, p)

\* The transaction executes and fails, and the error says why.
Refuse(k, p) ==
    /\ <<k, p>> \in inFlight
    /\ AlreadyPaid(subs[k], p)
    /\ answers' = answers \cup {<<k, p>>}
    /\ UNCHANGED <<paymentVars, botUp, database, inFlight>>

\* The transaction expires, or fails for another reason: nothing is known.
Lose(k, p) ==
    /\ <<k, p>> \in inFlight
    /\ inFlight' = inFlight \ {<<k, p>>}
    /\ UNCHANGED <<paymentVars, botUp, database, answers>>

Record(k, p) ==
    /\ botUp
    /\ <<k, p>> \in answers
    /\ database' = database \cup {<<k, p>>}
    /\ answers' = answers \ {<<k, p>>}
    /\ UNCHANGED <<paymentVars, botUp, inFlight>>

Crash ==
    /\ botUp
    /\ botUp' = FALSE
    /\ answers' = {}
    /\ UNCHANGED <<paymentVars, database, inFlight>>

Restart ==
    /\ ~botUp
    /\ botUp' = TRUE
    /\ UNCHANGED <<paymentVars, database, inFlight, answers>>

-----------------------------------------------------------------------------
\* Meanwhile the root edits the billing accounts and the grants, agents
\* make one-off payments from the same balance and caps, and time passes.
World ==
    \/ BillingAdmin
    \/ \E a \in Agents, m \in Merchants, mint \in Mints, amount \in TokenAmounts :
          PayToken(a, m, mint, amount, 0, NoAccount)
    \/ CoreNext /\ UNCHANGED <<custodyVars, billingVars>>

SchedulerNext ==
    \/ \E k \in SubKeys, p \in Periods :
          \/ Send(k, p) \/ Land(k, p) \/ Refuse(k, p) \/ Lose(k, p) \/ Record(k, p)
    \/ Crash \/ Restart
    \/ World /\ UNCHANGED botVars

\* A crashed bot is restarted; one that keeps being up with a bill unpaid
\* sends it, whatever its clock told before; a transaction sent again and
\* again lands while it can ("at-least-once delivery").  Nothing is assumed
\* of the root, of other agents or of the clock: a period may last for ever
\* or no time at all.
Retried(k, p) == SF_schedulerVars(Send(k, p)) /\ SF_schedulerVars(Land(k, p))

BillsAreRetried == \A k \in SubKeys, p \in Periods : Retried(k, p)

Fairness == WF_schedulerVars(Restart) /\ BillsAreRetried

SchedulerSpec == SchedulerInit /\ [][SchedulerNext]_schedulerVars /\ Fairness

-----------------------------------------------------------------------------
(* Properties.                                                             *)

\* The database is never ahead of the chain: what the bot records as paid was
\* paid, in that very period, so a bill it stops sending is never one the
\* merchant waits for.  SubscriptionAlreadyPaid is safe to trust only because
\* the period is compared first and lastPaid is never in the future.
DatabaseTellsTheTruth == \A b \in database \cup answers : charges[b[1]][b[2]] = 1

\* The subscription could be charged for p now: what pay_subscription's
\* documentation asks for, stated on the history and not on lastPaid.
Due(k, p) ==
    /\ k \in DOMAIN subs
    /\ subs[k].active
    /\ Started(subs[k]) /\ p = CurrentPeriod(subs[k])
    /\ charges[k][p] = 0
    /\ Listed(k[1], k[2])
    /\ tokens[TraderPda][k[2]] >= subs[k].amount
    /\ \E a \in Agents : GrantAllows(grants[a], subs[k].amount)

\* Nothing the bot remembers and nothing the program recorded stands in the way
\* of a bill that is due: the bot can come up, send it, and it can execute.  A
\* database ahead of the chain, or lastPaid ahead of the clock, would hold it
\* back.
DueCanBeSettled ==
    /\ ~botUp => ENABLED <<Restart>>_schedulerVars
    /\ \A k \in SubKeys, p \in Periods : Due(k, p) =>
          IF <<k, p>> \in inFlight THEN ENABLED <<Land(k, p)>>_schedulerVars
          ELSE botUp => ENABLED <<Send(k, p)>>_schedulerVars

\* A bill does not stay due for ever, however often the bot crashes and the
\* network loses what it sends, whatever periods were missed before: a failed
\* or lost attempt leaves the period payable, and a retry in the same period
\* settles it, unless the root, the clock or the balance takes it away first.
SettledOrPasses(k, p) == Due(k, p) ~> ~Due(k, p)

DueIsSettledOrPasses == \A k \in SubKeys, p \in Periods : SettledOrPasses(k, p)
=============================================================================
