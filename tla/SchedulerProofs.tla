-------------------------- MODULE SchedulerProofs --------------------------
(***************************************************************************)
(* What is proved about the abstract specification and the sender, for     *)
(* every value of the constants.  Billing implements ExactlyOnce: each     *)
(* step, seen through the Subscription accounts, the chain's clock, the    *)
(* history of charges and the merchants' tokens, agrees on a contract,     *)
(* closes one, settles the period one is in, lets time pass, or changes    *)
(* nothing.  Beneath a bot that crashes, repeats and loses what it sends,  *)
(* billing keeps its invariant and still implements ExactlyOnce; and the   *)
(* bot's database is never ahead of the chain.                             *)
(***************************************************************************)
EXTENDS BillingScheduler, BillingProofs, TLAPS

(* Billing implements ExactlyOnce.                                         *)

\* What a merchant received for a subscription, beyond one-off payments.
Income(k) == tokens[k[1]][k[2]] - InitialTokens[k[1]][k[2]] - direct[k]

\* The period a subscription is in.
PeriodOf(k) == IF k \in DOMAIN subs /\ Started(subs[k]) THEN CurrentPeriod(subs[k])
               ELSE PeriodNone

\* The abstract state.
Contracts == [k \in DOMAIN subs |-> [price |-> subs[k].amount, open |-> subs[k].active]]
Current   == [k \in SubKeys |-> PeriodOf(k)]
Settled   == [k \in SubKeys |-> PaidPeriods(k)]
Incomes   == [k \in SubKeys |-> Income(k)]

\* It is the state Promise is instantiated with.
LEMMA AbstractState ==
    Promise!vars = <<Contracts, Current, Settled, Incomes>>
BY DEF Promise!vars, Contracts, Current, PeriodOf, Settled, Incomes, PaidPeriods, Income

\* A token payment adds to one merchant's balance in one mint.
LEMMA TransferMoves ==
    ASSUME BillingTypeOK, NEW a \in Agents, NEW k \in SubKeys, NEW amount \in Nat,
           MeteredTransfer(a, k[1], k[2], amount),
           NEW j \in SubKeys
    PROVE  tokens'[j[1]][j[2]] = tokens[j[1]][j[2]] + (IF j = k THEN amount ELSE 0)
<1>1. /\ tokens \in [Holders -> [Mints -> Nat]]
      /\ TraderPda \notin Merchants /\ Merchants \subseteq Holders /\ TraderPda \in Holders
      /\ \A i \in SubKeys : i = <<i[1], i[2]>> /\ i[1] \in Merchants /\ i[2] \in Mints
  BY CustodyAssumption DEF BillingTypeOK, CustodyTypeOK, Holders, SubKeys
<1>2. tokens' = [tokens EXCEPT ![TraderPda][k[2]] = @ - amount, ![k[1]][k[2]] = @ + amount]
  BY DEF MeteredTransfer
<1>3. j = k <=> j[1] = k[1] /\ j[2] = k[2]
  BY <1>1
<1> QED BY <1>1, <1>2, <1>3

\* A step that keeps the clock keeps the period of every subscription whose
\* start and length it keeps.
LEMMA SamePeriod ==
    ASSUME NEW k, UNCHANGED now, k \in DOMAIN subs <=> k \in DOMAIN subs',
           k \in DOMAIN subs => /\ subs'[k].start = subs[k].start
                                /\ subs'[k].period = subs[k].period
    PROVE  PeriodOf(k)' = PeriodOf(k)
BY DEF PeriodOf, Started, CurrentPeriod

\* The clock takes no subscription back to an earlier period.
LEMMA PeriodPasses ==
    ASSUME BillingTypeOK, BillingTypeOK', UNCHANGED subs, now' >= now, NEW k \in SubKeys
    PROVE  /\ PeriodOf(k) \in Int /\ PeriodOf(k)' \in Int
           /\ PeriodOf(k)' >= PeriodOf(k)
           /\ k \notin DOMAIN subs => PeriodOf(k)' = PeriodNone
<1>0. now \in Nat /\ now' \in Nat
  BY DEF BillingTypeOK, CoreTypeOK
<1>1. CASE k \notin DOMAIN subs
  BY <1>1 DEF PeriodOf, PeriodNone
<1>2. CASE k \in DOMAIN subs
  <2> DEFINE s == subs[k]
  <2>1. s.start \in Nat /\ s.period \in Nat \ {0}
    BY <1>2 DEF BillingTypeOK, Subscription
  <2>2. CASE now < s.start
    <3>1. PeriodOf(k) = -1
      BY <1>0, <2>1, <2>2 DEF PeriodOf, Started, PeriodNone
    <3>2. PeriodOf(k)' = -1 \/ PeriodOf(k)' \in Nat
      <4>1. PeriodOf(k)' = IF now' >= s.start THEN (now' - s.start) \div s.period ELSE -1
        BY <1>2 DEF PeriodOf, Started, CurrentPeriod, PeriodNone
      <4>2. now' >= s.start => (now' - s.start) \div s.period \in Nat
        BY <1>0, <2>1, PeriodsOnlyGrow
      <4> QED BY <4>1, <4>2
    <3> QED BY <1>2, <3>1, <3>2
  <2>3. CASE now >= s.start
    <3>1. /\ PeriodOf(k) = (now - s.start) \div s.period
          /\ PeriodOf(k)' = (now' - s.start) \div s.period
      BY <1>0, <1>2, <2>1, <2>3 DEF PeriodOf, Started, CurrentPeriod
    <3>2. /\ (now - s.start) \div s.period \in Nat
          /\ (now' - s.start) \div s.period \in Nat
          /\ (now - s.start) \div s.period <= (now' - s.start) \div s.period
      <4>1. s.start <= now /\ now <= now' /\ s.start <= now' /\ now' <= now'
        BY <1>0, <2>1, <2>3
      <4> HIDE DEF s
      <4> QED BY <1>0, <2>1, <4>1, PeriodsOnlyGrow
    <3> QED BY <1>2, <3>1, <3>2
  <2> QED BY <1>0, <2>1, <2>2, <2>3
<1> QED BY <1>1, <1>2

\* Nothing is settled or earned before the first step.
LEMMA PromiseInit == BillingInit => Promise!Init
<1> SUFFICES ASSUME BillingInit PROVE Promise!Init
  OBVIOUS
<1>1. Contracts = [k \in {} |-> 0]
  BY DEF BillingInit, Contracts
<1>2. /\ Settled = [k \in SubKeys |-> {}]
      /\ Current = [k \in SubKeys |-> -1]
  BY DEF BillingInit, Settled, PaidPeriods, Current, PeriodOf, PeriodNone
<1>3. Incomes = [k \in SubKeys |-> 0]
  <2>1. \A k \in SubKeys : k[1] \in Holders /\ k[2] \in Mints
    BY DEF SubKeys, Holders
  <2> QED BY <2>1, CustodyAssumption DEF BillingInit, Incomes, Income
<1> QED BY <1>1, <1>2, <1>3
        DEF Promise!Init, Promise!NotBegun, Contracts, Current, PeriodOf, Settled, Incomes, PaidPeriods, Income

\* No money for subscriptions moves: the step agrees, closes, or lets time pass.
LEMMA UnpaidStep ==
    ASSUME BillingInv, [BillingNext]_paymentVars, UNCHANGED <<charges, Incomes>>
    PROVE  Promise!Next
<1>0. BillingTypeOK /\ BillingTypeOK' /\ DOMAIN subs \subseteq SubKeys /\ now \in Nat
  BY StepTypeOK DEF BillingInv, BillingTypeOK, CoreTypeOK
<1>1. UNCHANGED Settled
  BY DEF Settled, PaidPeriods
<1>2. CASE UNCHANGED subs /\ now' \in {now, now + 1}
  <2>1. UNCHANGED Contracts /\ DOMAIN Contracts = DOMAIN subs
    BY <1>2 DEF Contracts
  <2>2. \A k \in SubKeys : /\ PeriodOf(k)' \in Int /\ PeriodOf(k)' >= PeriodOf(k)
                           /\ k \notin DOMAIN subs => PeriodOf(k)' = -1
    BY <1>0, <1>2, PeriodPasses DEF PeriodNone
  <2>3. /\ Current' \in [SubKeys -> Int]
        /\ \A k \in SubKeys : /\ Current'[k] >= Current[k]
                              /\ k \notin DOMAIN Contracts => Current'[k] = -1
    BY <2>1, <2>2 DEF Current
  <2>4. Promise!Pass
    BY <1>1, <2>1, <2>3
       DEF Promise!Pass, Promise!NotBegun, Contracts, Current, PeriodOf, Settled, Incomes,
           PaidPeriods, Income
  <2> QED BY <2>4 DEF Promise!Next
<1>3. ASSUME NEW k \in SubKeys, NEW s \in Subscription, Created(k, s), UNCHANGED now
      PROVE  Promise!Next
  <2>1. /\ k \notin DOMAIN Contracts
        /\ Contracts' = [j \in DOMAIN Contracts \cup {k} |->
                            IF j \in DOMAIN Contracts THEN Contracts[j]
                            ELSE [price |-> s.amount, open |-> TRUE]]
    BY <1>3 DEF Created, Contracts
  <2>2. s.amount \in TokenAmounts \ {0}
    BY <1>3 DEF Created
  <2>3. PeriodOf(k)' \in {-1, 0}
    <3>1. /\ k \in DOMAIN subs' /\ subs'[k] = s /\ s.start >= now
          /\ s.start \in Nat /\ s.period \in Nat \ {0}
      BY <1>3 DEF Created, Subscription
    <3>2. s.start <= now => (now - s.start) \div s.period = 0
      BY <1>0, <3>1
    <3> QED BY <1>0, <1>3, <3>1, <3>2 DEF PeriodOf, Started, CurrentPeriod, PeriodNone
  <2>4. \A j \in SubKeys \ {k} : PeriodOf(j)' = PeriodOf(j)
    BY <1>3, SamePeriod DEF Created
  <2>5. Current' = [Current EXCEPT ![k] = PeriodOf(k)']
    BY <2>4 DEF Current
  <2>6. \E first \in {-1, 0} : Current' = [Current EXCEPT ![k] = first]
    BY <2>3, <2>5
  <2>7. Promise!Agree(k, s.amount)
    BY <1>1, <2>1, <2>6
       DEF Promise!Agree, Promise!NotBegun, Contracts, Current, PeriodOf, Settled, Incomes,
           PaidPeriods, Income
  <2> QED BY <2>2, <2>7 DEF Promise!Next
<1>4. ASSUME NEW k \in SubKeys, Cancelled(k), UNCHANGED now
      PROVE  Promise!Next
  <2>1. /\ k \in DOMAIN Contracts /\ Contracts[k].open
        /\ Contracts' = [Contracts EXCEPT ![k].open = FALSE]
    BY <1>0, <1>4 DEF Cancelled, Contracts, BillingTypeOK, Subscription
  <2>2. \A j \in SubKeys : PeriodOf(j)' = PeriodOf(j)
    BY <1>0, <1>4, SamePeriod DEF Cancelled, BillingTypeOK, Subscription
  <2>3. UNCHANGED Current
    BY <2>2 DEF Current
  <2>4. Promise!Close(k)
    BY <1>1, <2>1, <2>3
       DEF Promise!Close, Contracts, Current, PeriodOf, Settled, Incomes, PaidPeriods, Income
  <2> QED BY <2>4 DEF Promise!Next
<1>5. ASSUME NEW k \in SubKeys, NEW p \in Periods, Paid(k, p)
      PROVE  FALSE
  BY <1>0, <1>5 DEF Paid, BillingTypeOK
<1> QED BY <1>0, <1>2, <1>3, <1>4, <1>5, StepOfSubs

\* A charge settles the period under way, which was not, at the agreed price.
LEMMA PaidStep ==
    ASSUME BillingInv, [BillingNext]_paymentVars, UNCHANGED <<now, direct>>,
           NEW a \in Agents, NEW k \in SubKeys, NEW p \in Periods, Paid(k, p),
           MeteredTransfer(a, k[1], k[2], subs[k].amount)
    PROVE  Promise!Next
<1>0. BillingTypeOK
  BY DEF BillingInv
<1>1. /\ k \in DOMAIN subs /\ subs[k] \in Subscription /\ subs[k].amount \in Nat
      /\ DOMAIN subs \subseteq SubKeys
  BY <1>0 DEF Paid, BillingTypeOK, Subscription
<1>2. TracksTime(k)
  BY <1>1, TracksTimeDef DEF BillingInv
<1>3. k \in DOMAIN Contracts /\ Contracts[k].open /\ Contracts[k].price = subs[k].amount
  BY <1>1 DEF Contracts, Paid, Payable
<1>4. Current[k] = p /\ p \notin Settled[k]
  <2>1. p > subs[k].lastPaid /\ subs[k].lastPaid \in Int
    BY <1>1 DEF Paid, Payable, NotYetPaid, Subscription, Periods, PeriodNone
  <2>2. Current[k] = p
    BY <1>1 DEF Current, PeriodOf, Paid, Payable
  <2> QED BY <1>2, <2>1, <2>2 DEF TracksTime, Settled, PaidPeriods, Periods
<1>5. Contracts' = Contracts
  <2>1. DOMAIN subs' = DOMAIN subs
    BY DEF Paid
  <2>2. \A j \in DOMAIN subs : subs'[j].amount = subs[j].amount /\ subs'[j].active = subs[j].active
    BY <1>0, <1>1 DEF Paid, AfterPayment, BillingTypeOK, Subscription
  <2> QED BY <2>1, <2>2 DEF Contracts
<1>6. Settled' = [Settled EXCEPT ![k] = @ \cup {p}]
  <2>1. charges \in [SubKeys -> [Periods -> Nat]]
    BY <1>0 DEF BillingTypeOK
  <2>2. \A j \in SubKeys : PaidPeriods(j)' = IF j = k THEN PaidPeriods(j) \cup {p}
                                             ELSE PaidPeriods(j)
    BY <2>1 DEF Paid, PaidPeriods
  <2> QED BY <2>2 DEF Settled
<1>7. Incomes' = [Incomes EXCEPT ![k] = @ + Contracts[k].price]
  <2>1. \A j \in SubKeys : /\ tokens[j[1]][j[2]] \in Nat /\ InitialTokens[j[1]][j[2]] \in Nat
                           /\ direct[j] \in Nat
    BY <1>0, CustodyAssumption DEF BillingTypeOK, CustodyTypeOK, Holders, SubKeys
  <2>2. \A j \in SubKeys : Income(j)' = Income(j) + (IF j = k THEN subs[k].amount ELSE 0)
    BY <1>0, <1>1, <2>1, TransferMoves DEF Income
  <2>3. \A j \in SubKeys : Income(j) \in Int
    BY <2>1 DEF Income
  <2>4. Incomes' = [j \in SubKeys |-> Income(j)']
    BY DEF Incomes
  <2>5. [Incomes EXCEPT ![k] = @ + Contracts[k].price]
            = [j \in SubKeys |-> IF j = k THEN Income(j) + subs[k].amount ELSE Income(j)]
    BY <1>3 DEF Incomes
  <2>6. \A j \in SubKeys :
            Income(j)' = IF j = k THEN Income(j) + subs[k].amount ELSE Income(j)
    BY <2>2, <2>3
  <2> QED BY <2>4, <2>5, <2>6
<1>8. Current' = Current
  <2>1. \A j \in SubKeys : PeriodOf(j)' = PeriodOf(j)
    BY <1>0, <1>1, SamePeriod DEF Paid, AfterPayment, BillingTypeOK, Subscription
  <2> QED BY <2>1 DEF Current
<1>9. Promise!Settle(k)
  <2>1. Settled' = [Settled EXCEPT ![k] = @ \cup {Current[k]}] /\ Current[k] \in Periods \ Settled[k]
    BY <1>4, <1>6
  <2> QED BY <1>3, <1>5, <1>7, <1>8, <2>1
          DEF Promise!Settle, Contracts, Current, PeriodOf, Settled, Incomes, PaidPeriods, Income
<1> QED BY <1>9 DEF Promise!Next

LEMMA PromiseStep ==
    BillingInv /\ [BillingNext]_paymentVars => [Promise!Next]_(Promise!vars)
<1> SUFFICES ASSUME BillingInv, [BillingNext]_paymentVars
             PROVE  Promise!Next \/ UNCHANGED Promise!vars
  OBVIOUS
<1>0. /\ BillingTypeOK
      /\ \A k \in SubKeys : /\ k[1] \in Merchants /\ k[2] \in Mints
                            /\ tokens[k[1]][k[2]] \in Nat /\ InitialTokens[k[1]][k[2]] \in Nat
                            /\ direct[k] \in Nat
  BY CustodyAssumption DEF BillingInv, BillingTypeOK, CustodyTypeOK, Holders, SubKeys
<1>1. CASE /\ \A m \in Merchants, mint \in Mints : tokens'[m][mint] = tokens[m][mint]
           /\ UNCHANGED <<charges, direct>>
  <2>1. UNCHANGED Incomes
    BY <1>0, <1>1 DEF Incomes, Income
  <2> QED BY <1>1, <2>1, UnpaidStep
<1>2. ASSUME NEW a \in Agents, NEW k \in SubKeys, NEW amount \in Nat,
             MeteredTransfer(a, k[1], k[2], amount),
             UNCHANGED <<subs, charges>>, direct' = [direct EXCEPT ![k] = @ + amount]
      PROVE  Promise!Next
  <2>1. direct \in [SubKeys -> Nat]
    BY <1>0 DEF BillingTypeOK
  <2>2. \A j \in SubKeys : Income(j)' = Income(j)
    BY <1>0, <1>2, <2>1, TransferMoves DEF Income
  <2>3. UNCHANGED Incomes
    BY <2>2 DEF Incomes
  <2> QED BY <1>2, <2>3, UnpaidStep
<1> QED BY <1>0, <1>1, <1>2, PaymentStep, PaidStep

\* Billing implements ExactlyOnce: whatever is sent, repeated, delayed or
\* refused, subscriptions are agreements settled at most once per period,
\* while that period lasts, at their price, and never after they are closed.
THEOREM BillingImplementsExactlyOnce == BillingSpec => SettlesExactlyOnce
<1>1. BillingInit => Promise!Init
  BY PromiseInit
<1>2. BillingInv /\ [BillingNext]_paymentVars => [Promise!Next]_(Promise!vars)
  BY PromiseStep
<1> QED BY <1>1, <1>2, Invariance, PTL DEF BillingSpec, SettlesExactlyOnce, Promise!Spec

-----------------------------------------------------------------------------
(* The sender.                                                              *)


\* Bills are only ever sent for subscriptions that exist.
SentExists == \A b \in inFlight : b[1] \in DOMAIN subs

(* The inductive invariant.  It takes BillingInv's PaymentsTrackTime to     *)
(* see that an answer "already paid" is true: the period compared first is  *)
(* the current one, lastPaid is at least that and never in the future, so   *)
(* it is that very period, and lastPaid was charged.                        *)
SchedulerInv ==
    /\ SchedulerTypeOK
    /\ BillingInv
    /\ SentExists
    /\ DatabaseTellsTheTruth

-----------------------------------------------------------------------------
\* Whatever the bot or anybody else does is a step of Billing or leaves the
\* billing instructions' state alone.
LEMMA SchedulerStepsAreBillingSteps ==
    SchedulerInv /\ [SchedulerNext]_schedulerVars => [BillingNext]_paymentVars
<1> SUFFICES ASSUME SchedulerInv, [SchedulerNext]_schedulerVars
             PROVE  [BillingNext]_paymentVars
  OBVIOUS
<1> USE SchedulerAssumption
<1>1. CASE \E k \in SubKeys, p \in Periods : Land(k, p)
  <2>1. PICK k \in SubKeys, p \in Periods : Land(k, p)
    BY <1>1
  <2>2. k \in DOMAIN subs
    BY <2>1 DEF Land, SchedulerInv, SentExists
  <2>3. PICK a \in Agents : PaySubscription(a, k, p, 0, NoAccount)
    BY <2>1 DEF Land
  <2> QED BY <2>2, <2>3 DEF BillingNext, PaymentByAgent
<1>2. CASE World
  BY <1>2 DEF World, BillingNext, PaymentByAgent
<1>3. CASE UNCHANGED paymentVars
  BY <1>3
<1> QED BY <1>1, <1>2, <1>3
        DEF SchedulerNext, Send, Refuse, Lose, Record, Crash, Restart, schedulerVars

\* A subscription, once there, stays.
LEMMA SubsStay ==
    ASSUME BillingTypeOK, [BillingNext]_paymentVars
    PROVE  DOMAIN subs \subseteq DOMAIN subs'
BY PriceIsFixed

\* A period that was charged stays charged.
LEMMA ChargesStay ==
    ASSUME BillingInv, [BillingNext]_paymentVars,
           NEW k \in SubKeys, NEW p \in Periods, charges[k][p] = 1
    PROVE  charges'[k][p] = 1
<1>0. /\ BillingTypeOK
      /\ charges \in [SubKeys -> [Periods -> Nat]] /\ charges' \in [SubKeys -> [Periods -> Nat]]
      /\ charges'[k][p] <= 1
  BY InvStep DEF BillingInv, BillingTypeOK, NoDoubleCharge
<1>1. CASE UNCHANGED charges
  BY <1>1
<1>2. ASSUME NEW j \in SubKeys, NEW q \in Periods, Paid(j, q)
      PROVE  charges'[k][p] = 1
  <2>1. charges'[k][p] \in {charges[k][p], charges[k][p] + 1}
    BY <1>0, <1>2 DEF Paid
  <2> QED BY <1>0, <2>1
<1> QED BY <1>0, <1>1, <1>2, StepOfSubs DEF Created, Cancelled

\* The chain reports "already paid" only for a period that was charged.
LEMMA RefusalTellsTheTruth ==
    ASSUME BillingInv, NEW k \in DOMAIN subs, NEW p \in Periods, AlreadyPaid(subs[k], p)
    PROVE  charges[k][p] = 1
<1> DEFINE s == subs[k]
<1>1. /\ k \in SubKeys
      /\ s.lastPaid \in Periods \cup {PeriodNone}
      /\ charges[k][p] \in Nat /\ charges[k][p] <= 1
  BY DEF BillingInv, BillingTypeOK, Subscription, NoDoubleCharge
<1>2. TracksTime(k)
  BY TracksTimeDef DEF BillingInv
<1>3. s.lastPaid # PeriodNone /\ s.lastPaid >= p /\ p = CurrentPeriod(s)
  BY <1>1 DEF AlreadyPaid, NotYetPaid, Periods, PeriodNone
<1>4. s.lastPaid = p /\ s.lastPaid \in PaidPeriods(k)
  BY <1>1, <1>2, <1>3 DEF TracksTime, Periods, PeriodNone
<1> QED BY <1>1, <1>4 DEF PaidPeriods

\* So does a payment that lands.
LEMMA LandingCharges ==
    ASSUME BillingInv, BillingInv', NEW a \in Agents, NEW k \in DOMAIN subs, NEW p \in Periods,
           PaySubscription(a, k, p, 0, NoAccount)
    PROVE  charges'[k][p] = 1
<1>1. /\ k \in SubKeys /\ charges \in [SubKeys -> [Periods -> Nat]]
      /\ charges' = [charges EXCEPT ![k][p] = @ + 1]
      /\ charges'[k][p] <= 1
  BY DEF PaySubscription, BillingInv, BillingTypeOK, NoDoubleCharge
<1>2. charges'[k][p] = charges[k][p] + 1 /\ charges[k][p] \in Nat
  BY <1>1
<1> QED BY <1>1, <1>2

-----------------------------------------------------------------------------
LEMMA SchedulerInvInit == SchedulerInit => SchedulerInv
BY InvInit DEF SchedulerInit, SchedulerInv, SchedulerTypeOK, BillingInv, SentExists,
               DatabaseTellsTheTruth

LEMMA SchedulerInvStep == SchedulerInv /\ [SchedulerNext]_schedulerVars => SchedulerInv'
<1> SUFFICES ASSUME SchedulerInv, [SchedulerNext]_schedulerVars PROVE SchedulerInv'
  OBVIOUS
<1>0. [BillingNext]_paymentVars
  BY SchedulerStepsAreBillingSteps
<1>1. /\ BillingInv /\ BillingInv' /\ BillingTypeOK /\ BillingTypeOK'
      /\ DOMAIN subs \subseteq DOMAIN subs'
  BY <1>0, InvStep, SubsStay DEF SchedulerInv, BillingInv
<1>2. /\ botUp \in BOOLEAN
      /\ database \subseteq Bills /\ inFlight \subseteq Bills /\ answers \subseteq Bills
      /\ \A b \in inFlight : b[1] \in DOMAIN subs'
      /\ \A b \in database \cup answers : charges'[b[1]][b[2]] = 1
  <2>1. /\ botUp \in BOOLEAN
        /\ database \subseteq Bills /\ inFlight \subseteq Bills /\ answers \subseteq Bills
        /\ \A b \in inFlight : b[1] \in DOMAIN subs
        /\ \A b \in database \cup answers : charges[b[1]][b[2]] = 1
    BY DEF SchedulerInv, SchedulerTypeOK, SentExists, DatabaseTellsTheTruth
  <2>2. \A b \in database \cup answers : b[1] \in SubKeys /\ b[2] \in Periods
    BY <2>1 DEF Bills
  <2> QED BY <1>0, <1>1, <2>1, <2>2, ChargesStay
<1> SUFFICES /\ botUp' \in BOOLEAN
             /\ database' \subseteq Bills /\ inFlight' \subseteq Bills /\ answers' \subseteq Bills
             /\ \A b \in inFlight' : b[1] \in DOMAIN subs'
             /\ \A b \in database' \cup answers' : charges'[b[1]][b[2]] = 1
  BY <1>1 DEF SchedulerInv, SchedulerTypeOK, SentExists, DatabaseTellsTheTruth
<1>3. ASSUME NEW k \in SubKeys, NEW p \in Periods, Send(k, p)
      PROVE  /\ UNCHANGED <<botUp, database, answers>>
             /\ inFlight' = inFlight \cup {<<k, p>>}
             /\ k \in DOMAIN subs' /\ <<k, p>> \in Bills
  BY <1>1, <1>3 DEF Send, Bills
<1>4. ASSUME NEW k \in SubKeys, NEW p \in Periods, Land(k, p) \/ Refuse(k, p)
      PROVE  /\ UNCHANGED <<botUp, database, inFlight>>
             /\ answers' \subseteq answers \cup {<<k, p>>}
             /\ charges'[k][p] = 1 /\ <<k, p>> \in Bills
  <2>1. k \in DOMAIN subs
    BY <1>4 DEF Land, Refuse, SchedulerInv, SentExists
  <2>2. CASE Land(k, p)
    <3>1. PICK a \in Agents : PaySubscription(a, k, p, 0, NoAccount)
      BY <2>2 DEF Land
    <3>2. charges'[k][p] = 1
      BY <1>1, <2>1, <3>1, LandingCharges
    <3> QED BY <2>2, <3>2 DEF Land, Bills
  <2>3. CASE Refuse(k, p)
    <3>1. charges[k][p] = 1
      BY <1>1, <2>1, <2>3, RefusalTellsTheTruth DEF Refuse
    <3>2. charges'[k][p] = 1
      BY <1>0, <1>1, <3>1, ChargesStay
    <3> QED BY <2>3, <3>2 DEF Refuse, Bills
  <2> QED BY <1>4, <2>2, <2>3
<1>5. ASSUME NEW k \in SubKeys, NEW p \in Periods, Lose(k, p) \/ Record(k, p)
      PROVE  /\ UNCHANGED botUp
             /\ inFlight' \subseteq inFlight
             /\ database' \cup answers' \subseteq database \cup answers
  BY <1>5 DEF Lose, Record
<1>6. CASE Crash \/ Restart
  BY <1>2, <1>6 DEF Crash, Restart
<1>7. CASE UNCHANGED botVars
  BY <1>2, <1>7 DEF botVars
<1>8. CASE \E k \in SubKeys, p \in Periods : Send(k, p)
  <2>1. PICK k \in SubKeys, p \in Periods : Send(k, p)
    BY <1>8
  <2>2. /\ UNCHANGED <<botUp, database, answers>>
        /\ inFlight' = inFlight \cup {<<k, p>>}
        /\ k \in DOMAIN subs' /\ <<k, p>> \in Bills
    BY <1>3, <2>1
  <2>3. <<k, p>>[1] = k
    OBVIOUS
  <2> QED BY <1>2, <2>2, <2>3
<1>9. CASE \E k \in SubKeys, p \in Periods : Land(k, p) \/ Refuse(k, p)
  <2>1. PICK k \in SubKeys, p \in Periods : Land(k, p) \/ Refuse(k, p)
    BY <1>9
  <2>2. /\ UNCHANGED <<botUp, database, inFlight>>
        /\ answers' \subseteq answers \cup {<<k, p>>}
        /\ charges'[k][p] = 1 /\ <<k, p>> \in Bills
    BY <1>4, <2>1
  <2>3. <<k, p>>[1] = k /\ <<k, p>>[2] = p
    OBVIOUS
  <2> QED BY <1>2, <2>2, <2>3
<1>10. CASE \E k \in SubKeys, p \in Periods : Lose(k, p) \/ Record(k, p)
  <2>1. PICK k \in SubKeys, p \in Periods : Lose(k, p) \/ Record(k, p)
    BY <1>10
  <2>2. /\ botUp' \in BOOLEAN
        /\ inFlight' \subseteq inFlight
        /\ database' \subseteq Bills /\ answers' \subseteq Bills
        /\ database' \cup answers' \subseteq database \cup answers
    BY <1>2, <1>5, <2>1
  <2> QED BY <1>2, <2>2
<1> QED BY <1>6, <1>7, <1>8, <1>9, <1>10 DEF SchedulerNext, schedulerVars

\* Billing's invariant and the bot's hold together, however the bot crashes
\* and the network behaves.
THEOREM SchedulerInvariance == SchedulerSpec => []SchedulerInv
<1>1. SchedulerInit => SchedulerInv
  BY SchedulerInvInit
<1>2. SchedulerInv /\ [SchedulerNext]_schedulerVars => SchedulerInv'
  BY SchedulerInvStep
<1> QED BY <1>1, <1>2, PTL DEF SchedulerSpec

\* The bot's records name bills only, and billing stays well typed beneath it.
THEOREM SchedulerTypeCorrect == SchedulerSpec => []SchedulerTypeOK
<1>1. SchedulerInv => SchedulerTypeOK
  BY DEF SchedulerInv
<1> QED BY <1>1, SchedulerInvariance, PTL

\* What the bot records as paid was paid, in that period, once: it may stop
\* sending what is in its database.
THEOREM DatabaseIsNeverAhead == SchedulerSpec => []DatabaseTellsTheTruth
<1>1. SchedulerInv => DatabaseTellsTheTruth
  BY DEF SchedulerInv
<1> QED BY <1>1, SchedulerInvariance, PTL

\* At-least-once delivery becomes exactly-once settlement: with the bot, its
\* crashes and the network around it, billing still implements ExactlyOnce.
THEOREM SchedulerSettlesExactlyOnce == SchedulerSpec => SettlesExactlyOnce
<1>1. SchedulerInit => Promise!Init
  BY PromiseInit DEF SchedulerInit
<1>2. SchedulerInv /\ [SchedulerNext]_schedulerVars => [Promise!Next]_(Promise!vars)
  BY SchedulerStepsAreBillingSteps, PromiseStep DEF SchedulerInv
<1> QED BY <1>1, <1>2, SchedulerInvariance, PTL
        DEF SchedulerSpec, SettlesExactlyOnce, Promise!Spec

-----------------------------------------------------------------------------
(* A due bill is settled.                                                  *)

\* The bot beside it does nothing that the billing instructions forbid: every
\* behaviour of the whole is a behaviour of Billing, so each property proved of
\* BillingSpec holds beneath a bot that crashes, repeats and loses.
THEOREM SchedulerImplementsBilling == SchedulerSpec => BillingSpec
<1>1. SchedulerInit => BillingInit
  BY DEF SchedulerInit
<1>2. SchedulerInv /\ [SchedulerNext]_schedulerVars => [BillingNext]_paymentVars
  BY SchedulerStepsAreBillingSteps
<1> QED BY <1>1, <1>2, SchedulerInvariance, PTL DEF SchedulerSpec, BillingSpec

\* The idempotency check lets every due bill through: were its period at or
\* below lastPaid, that period would be lastPaid itself, and charged.
LEMMA DueIsPayable ==
    ASSUME BillingInv, NEW k \in SubKeys, NEW p \in Periods, Due(k, p)
    PROVE  Payable(subs[k], p)
<1> DEFINE s == subs[k]
<1>1. /\ k \in DOMAIN subs /\ s.active /\ Started(s) /\ p = CurrentPeriod(s)
      /\ charges[k][p] = 0
  BY DEF Due
<1>2. s.lastPaid \in Periods \cup {PeriodNone}
  BY <1>1 DEF BillingInv, BillingTypeOK, Subscription
<1>3. TracksTime(k)
  BY <1>1, TracksTimeDef DEF BillingInv
<1>4. CASE s.lastPaid = PeriodNone
  BY <1>1, <1>4 DEF Payable, NotYetPaid, PeriodNone, Periods
<1>5. CASE s.lastPaid # PeriodNone
  <2>1. s.lastPaid \in PaidPeriods(k) /\ s.lastPaid <= p
    BY <1>1, <1>3, <1>5 DEF TracksTime
  <2>2. s.lastPaid # p
    BY <1>1, <2>1 DEF PaidPeriods
  <2> QED BY <1>1, <1>2, <1>5, <2>1, <2>2 DEF Payable, NotYetPaid, Periods
<1> QED BY <1>4, <1>5

\* What a payment of the bill by agent a leaves of every variable.
Settlement(a, k, p) ==
    /\ grants' = [grants EXCEPT ![a].spent = @ + subs[k].amount]
    /\ tokens' = [tokens EXCEPT ![TraderPda][k[2]] = @ - subs[k].amount,
                                ![k[1]][k[2]] = @ + subs[k].amount]
    /\ subs' = [subs EXCEPT ![k] = AfterPayment(@, p)]
    /\ charges' = [charges EXCEPT ![k][p] = @ + 1]
    /\ UNCHANGED <<now, sol, vaultOpen, paymaster, registry, direct, botVars>>

\* What sending the bill leaves of every variable.
Submission(k, p) ==
    /\ inFlight' = inFlight \cup {<<k, p>>}
    /\ UNCHANGED <<paymentVars, botUp, database, answers>>

\* The half of DueCanBeSettled about landing, without ENABLED: a bill that is
\* due and in flight lands in the step to the state Settlement describes, which
\* is another one, with any agent whose grant has room for it; Due says there
\* is one.
THEOREM DueCanLand ==
    ASSUME SchedulerInv, NEW k \in SubKeys, NEW p \in Periods, Due(k, p),
           <<k, p>> \in inFlight,
           NEW a \in Agents, GrantAllows(grants[a], subs[k].amount), Settlement(a, k, p)
    PROVE  <<Land(k, p)>>_schedulerVars
<1>1. PaySubscription(a, k, p, 0, NoAccount)
  <2>1. Payable(subs[k], p)
    BY DueIsPayable DEF SchedulerInv
  <2>2. SponsorAsked(0, NoAccount)
    BY CustodyAssumption DEF SponsorAsked
  <2>3. Listed(k[1], k[2]) /\ tokens[TraderPda][k[2]] >= subs[k].amount
    BY DEF Due
  <2> QED BY <2>1, <2>2, <2>3 DEF PaySubscription, MeteredTransfer, CheckGrant, Settlement
<1>2. charges'[k][p] # charges[k][p]
  <2>1. charges \in [SubKeys -> [Periods -> Nat]]
    BY DEF SchedulerInv, SchedulerTypeOK, BillingTypeOK
  <2>2. charges'[k][p] = charges[k][p] + 1 /\ charges[k][p] \in Nat
    BY <2>1 DEF Settlement
  <2> QED BY <2>2
<1>3. UNCHANGED <<botUp, database, inFlight>> /\ answers' \in {answers, answers \cup {<<k, p>>}}
  BY DEF Settlement, botVars
<1> QED BY <1>1, <1>2, <1>3 DEF Land, schedulerVars, paymentVars, billingVars

\* And the half about sending: a due bill that is not in flight can be sent
\* when the bot is up, because its database, which is never ahead of the chain,
\* does not have it.
THEOREM DueCanBeSent ==
    ASSUME SchedulerInv, NEW k \in SubKeys, NEW p \in Periods, Due(k, p),
           botUp, <<k, p>> \notin inFlight, Submission(k, p)
    PROVE  <<Send(k, p)>>_schedulerVars
<1>1. <<k, p>> \notin database
  BY DEF SchedulerInv, DatabaseTellsTheTruth, Due
<1>2. k \in DOMAIN subs /\ Started(subs[k]) /\ p \in Believed(subs[k])
  BY DEF Due, Believed
<1>3. inFlight' # inFlight
  BY DEF Submission
<1> QED BY <1>1, <1>2, <1>3 DEF Send, Submission, schedulerVars, botVars

\* A bill that lands is due no more.
LEMMA LandingSettles ==
    ASSUME SchedulerInv, [SchedulerNext]_schedulerVars,
           NEW k \in SubKeys, NEW p \in Periods, Land(k, p)
    PROVE  ~Due(k, p)'
<1>1. BillingInv /\ BillingInv' /\ k \in DOMAIN subs
  BY SchedulerInvStep DEF Land, SchedulerInv, SentExists
<1>2. PICK a \in Agents : PaySubscription(a, k, p, 0, NoAccount)
  BY DEF Land
<1>3. charges'[k][p] = 1
  BY <1>1, <1>2, LandingCharges
<1> QED BY <1>3 DEF Due

InFlight(k, p) == <<k, p>> \in inFlight

\* However often the bot crashes and the network loses what it sends, a bill
\* does not stay due for ever (DueIsSettledOrPasses).  DueCanBeSettled supplies
\* what ENABLED means, which the prover knows nothing about: were the bill due
\* for ever, the bot would be up again and again, so the bill would be sent, so
\* it would be in flight again and again, so it would land.
THEOREM DueBillsAreSettled == SchedulerSpec /\ []DueCanBeSettled => DueIsSettledOrPasses
<1>1. ASSUME NEW CONSTANT k \in SubKeys, NEW CONSTANT p \in Periods
      PROVE  SchedulerSpec /\ []DueCanBeSettled => SettledOrPasses(k, p)
  <2>1. BillsAreRetried => Retried(k, p)
    BY DEF BillsAreRetried
  <2>2. DueCanBeSettled =>
          /\ ~botUp => ENABLED <<Restart>>_schedulerVars
          /\ Due(k, p) /\ InFlight(k, p) => ENABLED <<Land(k, p)>>_schedulerVars
          /\ Due(k, p) /\ ~InFlight(k, p) /\ botUp => ENABLED <<Send(k, p)>>_schedulerVars
    BY DEF DueCanBeSettled, InFlight
  <2>3. Restart => botUp'
    BY DEF Restart
  <2>4. Send(k, p) => InFlight(k, p)'
    BY DEF Send, InFlight
  <2>5. SchedulerInv /\ [SchedulerNext]_schedulerVars /\ Land(k, p) => ~Due(k, p)'
    BY LandingSettles
  <2> QED BY <2>1, <2>2, <2>3, <2>4, <2>5, SchedulerInvariance, PTL
          DEF SchedulerSpec, Fairness, Retried, SettledOrPasses
<1> QED BY <1>1 DEF DueIsSettledOrPasses
=============================================================================
