--------------------------- MODULE BillingProofs ---------------------------
(***************************************************************************)
(* What is proved about Billing for every value of its constants: the type *)
(* invariant, that no period is ever charged twice and the counters record *)
(* what was charged, that no period is charged before it begins or after   *)
(* it ends, that no grant pays out more than its cap, that a cancelled     *)
(* subscription never moves again, that merchants are paid only with       *)
(* authority, that their books balance and agree with what CORE metered,   *)
(* that the vault and the paymaster keep their rent, and whom the          *)
(* paymaster can be made to pay.                                           *)
(***************************************************************************)
EXTENDS Billing, CustodyProofs, TLAPS

\* Only a subscription that exists was ever charged.
ChargedExists ==
    \A k \in SubKeys, p \in Periods : charges[k][p] > 0 => k \in DOMAIN subs

(* The inductive invariant.  NoDoubleCharge alone is not inductive: it is   *)
(* PaymentsTrackTime that says every charged period is at or below          *)
(* lastPaid, so that the period pay_subscription charges next, which is     *)
(* above lastPaid, was never charged; and ChargedExists that says a new     *)
(* subscription starts with nothing charged.                                *)
BillingInv ==
    /\ BillingTypeOK
    /\ SpendWithinCap
    /\ ChargedExists
    /\ NoDoubleCharge
    /\ PaymentsTrackTime

\* A token payment keeps grants and token balances well typed.
LEMMA MeteredTransferTypeOK ==
    ASSUME CoreTypeOK, CustodyTypeOK,
           NEW a \in Agents, NEW m \in Merchants, NEW mint \in Mints, NEW amount \in Nat,
           MeteredTransfer(a, m, mint, amount)
    PROVE  /\ grants' \in [Agents -> Grant]
           /\ tokens' \in [Holders -> [Mints -> Nat]]
<1>1. grants' \in [Agents -> Grant]
  BY CheckGrantCharges DEF MeteredTransfer
<1>2. tokens' \in [Holders -> [Mints -> Nat]]
  <2>1. /\ tokens \in [Holders -> [Mints -> Nat]]
        /\ TraderPda \in Holders /\ m \in Holders /\ TraderPda # m
    BY CustodyAssumption DEF CustodyTypeOK, Holders
  <2>2. /\ tokens[TraderPda][mint] >= amount
        /\ tokens' = [tokens EXCEPT ![TraderPda][mint] = @ - amount, ![m][mint] = @ + amount]
    BY DEF MeteredTransfer
  <2>3. /\ tokens[TraderPda][mint] - amount \in Nat
        /\ tokens[m][mint] + amount \in Nat
    BY <2>1, <2>2
  <2> QED BY <2>1, <2>2, <2>3
<1> QED BY <1>1, <1>2

-----------------------------------------------------------------------------
(* Type correctness, one lemma per group of actions.                       *)

LEMMA InitTypeOK == BillingInit => BillingTypeOK
<1> SUFFICES ASSUME BillingInit PROVE BillingTypeOK
  OBVIOUS
<1> USE CoreAssumption, CustodyAssumption, BillingAssumption
<1>1. CoreTypeOK
  BY DEF BillingInit, CoreInit, CoreTypeOK
<1>2. CustodyTypeOK
  BY DEF BillingInit, CustodyTypeOK
<1>3. BillingTypeOK
  BY <1>1, <1>2 DEF BillingInit, BillingTypeOK, SubKeys, Periods
<1> QED BY <1>3

LEMMA CoreStepTypeOK ==
    BillingTypeOK /\ CoreNext /\ UNCHANGED <<custodyVars, billingVars>> => BillingTypeOK'
<1> SUFFICES ASSUME BillingTypeOK, CoreNext, UNCHANGED <<custodyVars, billingVars>>
             PROVE  BillingTypeOK'
  OBVIOUS
<1>1. CoreTypeOK'
  BY CoreStepKeepsType DEF BillingTypeOK
<1>2. CustodyTypeOK' /\ UNCHANGED billingVars
  BY DEF BillingTypeOK, CustodyTypeOK, custodyVars
<1> QED BY <1>1, <1>2 DEF BillingTypeOK, billingVars

\* What the root does to the custody accounts here it may do anywhere.
LEMMA CustodyAdminIsCustody == CustodyAdmin => CustodyNext
BY DEF CustodyAdmin, CustodyNext

LEMMA CustodyStepTypeOK ==
    BillingTypeOK /\ CustodyAdmin /\ UNCHANGED <<coreVars, billingVars>> => BillingTypeOK'
<1> SUFFICES ASSUME BillingTypeOK, CustodyAdmin, UNCHANGED <<coreVars, billingVars>>
             PROVE  BillingTypeOK'
  OBVIOUS
<1>1. CustodyTypeOK'
  BY CustodyAdminIsCustody, CustodyMoves, CustodyStepKeepsType DEF BillingTypeOK
<1>2. CoreTypeOK' /\ UNCHANGED billingVars
  BY DEF BillingTypeOK, CoreTypeOK, coreVars
<1> QED BY <1>1, <1>2 DEF BillingTypeOK, billingVars

\* A subscription built from arguments the handler accepts is well typed.
LEMMA NewSubscriptionTypeOK ==
    ASSUME BillingTypeOK,
           NEW amount \in TokenAmounts, NEW period \in PeriodLengths, NEW start \in StartTimes,
           amount > 0, period >= MinPeriod
    PROVE  NewSubscription(amount, period, start) \in Subscription
<1>1. amount \in Nat \ {0} /\ period \in Nat \ {0}
  BY BillingAssumption
<1>2. StartFrom(start) \in Nat
  BY BillingAssumption DEF StartFrom, CoreTypeOK, BillingTypeOK
<1>3. 0 \in 0 .. MaxPayments
  BY BillingAssumption
<1> QED BY <1>1, <1>2, <1>3 DEF NewSubscription, Subscription

LEMMA AdminStepTypeOK == BillingTypeOK /\ BillingAdmin => BillingTypeOK'
<1> SUFFICES ASSUME BillingTypeOK, BillingAdmin PROVE BillingTypeOK'
  OBVIOUS
<1> USE DEF BillingTypeOK
<1>1. CoreTypeOK' /\ CustodyTypeOK' /\ UNCHANGED <<charges, direct>>
  <2>1. UNCHANGED <<coreVars, custodyVars, charges, direct>>
    BY DEF BillingAdmin, InitMerchantRegistry, AddMerchant, RemoveMerchant,
           CreateSubscription, CancelSubscription
  <2> QED BY <2>1 DEF CoreTypeOK, coreVars, CustodyTypeOK, custodyVars
<1>2. CASE \E mint \in Mints : InitMerchantRegistry(mint)
  BY <1>1, <1>2 DEF InitMerchantRegistry
<1>3. CASE \E m \in Merchants : AddMerchant(m) \/ RemoveMerchant(m)
  BY <1>1, <1>3 DEF AddMerchant, RemoveMerchant
<1>4. CASE \E m \in Merchants, mint \in Mints, amount \in TokenAmounts,
              period \in PeriodLengths, start \in StartTimes :
              CreateSubscription(m, mint, amount, period, start)
  <2>1. PICK m \in Merchants, mint \in Mints, amount \in TokenAmounts,
             period \in PeriodLengths, start \in StartTimes :
             CreateSubscription(m, mint, amount, period, start)
    BY <1>4
  <2>2. NewSubscription(amount, period, start) \in Subscription
    BY <2>1, NewSubscriptionTypeOK DEF CreateSubscription
  <2>3. <<m, mint>> \in SubKeys
    BY DEF SubKeys
  <2> QED BY <1>1, <2>1, <2>2, <2>3 DEF CreateSubscription
<1>5. CASE \E k \in DOMAIN subs : CancelSubscription(k)
  <2>1. PICK k \in DOMAIN subs : CancelSubscription(k)
    BY <1>5
  <2>2. [subs[k] EXCEPT !.active = FALSE] \in Subscription
    BY DEF Subscription
  <2>3. subs' = [subs EXCEPT ![k] = [subs[k] EXCEPT !.active = FALSE]]
    BY <2>1 DEF CancelSubscription
  <2>4. DOMAIN subs' = DOMAIN subs /\ subs' \in [DOMAIN subs -> Subscription]
    BY <2>2, <2>3
  <2>5. UNCHANGED registry
    BY <2>1 DEF CancelSubscription
  <2> QED BY <1>1, <2>4, <2>5
<1> QED BY <1>2, <1>3, <1>4, <1>5 DEF BillingAdmin

LEMMA PayTokenTypeOK ==
    ASSUME BillingTypeOK,
           NEW a \in Agents, NEW m \in Merchants, NEW mint \in Mints,
           NEW amount \in TokenAmounts, NEW sponsor \in SponsorLamports,
           NEW payer \in Relayers \cup {NoAccount},
           PayToken(a, m, mint, amount, sponsor, payer)
    PROVE  BillingTypeOK'
<1>0. CoreTypeOK /\ CustodyTypeOK /\ amount \in Nat
  BY BillingAssumption DEF BillingTypeOK
<1>1. grants' \in [Agents -> Grant] /\ tokens' \in [Holders -> [Mints -> Nat]]
  BY <1>0, MeteredTransferTypeOK DEF PayToken
<1>2. sol' \in [Accounts -> Nat]
  BY <1>0, ReimbursedAt DEF PayToken, CustodyTypeOK
<1>3. UNCHANGED <<now, vaultOpen, paymaster, registry, subs, charges>>
  BY DEF PayToken
<1>4. CoreTypeOK' /\ CustodyTypeOK'
  BY <1>0, <1>1, <1>2, <1>3 DEF CoreTypeOK, CustodyTypeOK
<1>5. direct' \in [SubKeys -> Nat]
  BY <1>0 DEF PayToken, BillingTypeOK, SubKeys
<1> QED BY <1>3, <1>4, <1>5 DEF BillingTypeOK

LEMMA PaySubscriptionTypeOK ==
    ASSUME BillingTypeOK,
           NEW a \in Agents, NEW k \in DOMAIN subs, NEW p \in Periods,
           NEW sponsor \in SponsorLamports, NEW payer \in Relayers \cup {NoAccount},
           PaySubscription(a, k, p, sponsor, payer)
    PROVE  BillingTypeOK'
<1>0. /\ CoreTypeOK /\ CustodyTypeOK
      /\ k \in SubKeys /\ k[1] \in Merchants /\ k[2] \in Mints
      /\ subs[k] \in Subscription /\ subs[k].amount \in Nat
  BY DEF BillingTypeOK, SubKeys, Subscription
<1>1. grants' \in [Agents -> Grant] /\ tokens' \in [Holders -> [Mints -> Nat]]
  BY <1>0, MeteredTransferTypeOK DEF PaySubscription
<1>2. UNCHANGED <<now, sol, vaultOpen, paymaster, registry, direct>>
  BY DEF PaySubscription
<1>3. CoreTypeOK' /\ CustodyTypeOK'
  BY <1>0, <1>1, <1>2 DEF CoreTypeOK, CustodyTypeOK
<1>4. DOMAIN subs' = DOMAIN subs /\ subs' \in [DOMAIN subs -> Subscription]
  <2>1. AfterPayment(subs[k], p) \in Subscription
    <3>1. (IF subs[k].payments < MaxPayments THEN subs[k].payments + 1 ELSE subs[k].payments)
            \in 0 .. MaxPayments
      BY <1>0, BillingAssumption DEF Subscription
    <3> QED BY <1>0, <3>1 DEF AfterPayment, Subscription
  <2>2. subs' = [subs EXCEPT ![k] = AfterPayment(subs[k], p)]
    BY DEF PaySubscription
  <2> QED BY <2>1, <2>2 DEF BillingTypeOK
<1>5. charges' \in [SubKeys -> [Periods -> Nat]]
  BY <1>0 DEF PaySubscription, BillingTypeOK
<1> QED BY <1>2, <1>3, <1>4, <1>5 DEF BillingTypeOK

LEMMA StepTypeOK == BillingTypeOK /\ [BillingNext]_paymentVars => BillingTypeOK'
<1> SUFFICES ASSUME BillingTypeOK, [BillingNext]_paymentVars PROVE BillingTypeOK'
  OBVIOUS
<1>1. CASE \E a \in Agents, sponsor \in SponsorLamports, payer \in Relayers \cup {NoAccount} :
              PaymentByAgent(a, sponsor, payer)
  BY <1>1, PayTokenTypeOK, PaySubscriptionTypeOK DEF PaymentByAgent
<1>2. CASE BillingAdmin
  BY <1>2, AdminStepTypeOK
<1>3. CASE CustodyAdmin /\ UNCHANGED <<coreVars, billingVars>>
  BY <1>3, CustodyStepTypeOK
<1>4. CASE CoreNext /\ UNCHANGED <<custodyVars, billingVars>>
  BY <1>4, CoreStepTypeOK
<1>5. CASE UNCHANGED paymentVars
  BY <1>5 DEF paymentVars, coreVars, custodyVars, billingVars, BillingTypeOK,
              CoreTypeOK, CustodyTypeOK
<1> QED BY <1>1, <1>2, <1>3, <1>4, <1>5 DEF BillingNext

\* Every reachable state of the billing instructions is well typed: no balance
\* or counter ever leaves its range.
THEOREM TypeCorrect == BillingSpec => []BillingTypeOK
<1>1. BillingInit => BillingTypeOK
  BY InitTypeOK
<1>2. BillingTypeOK /\ [BillingNext]_paymentVars => BillingTypeOK'
  BY StepTypeOK
<1> QED BY <1>1, <1>2, PTL DEF BillingSpec

-----------------------------------------------------------------------------
(* What a step can do to the subscriptions.                                *)

\* The three ways a step changes a subscription or what it was charged.
Created(k, s) ==
    /\ k \in SubKeys \ DOMAIN subs
    /\ s \in Subscription /\ s.lastPaid = PeriodNone /\ s.payments = 0
    /\ s.active /\ s.amount \in TokenAmounts \ {0}
    /\ s.start >= now
    /\ subs' = [j \in DOMAIN subs \cup {k} |-> IF j \in DOMAIN subs THEN subs[j] ELSE s]
    /\ UNCHANGED charges

Cancelled(k) ==
    /\ k \in DOMAIN subs
    /\ subs[k].active
    /\ subs' = [subs EXCEPT ![k] = [subs[k] EXCEPT !.active = FALSE]]
    /\ UNCHANGED charges

Paid(k, p) ==
    /\ k \in DOMAIN subs /\ p \in Periods
    /\ Payable(subs[k], p)
    /\ subs' = [subs EXCEPT ![k] = AfterPayment(subs[k], p)]
    /\ charges' = [charges EXCEPT ![k][p] = @ + 1]

\* Every step is one of them or leaves subscriptions and charges alone; and
\* the clock moves only in a step that leaves them alone.
LEMMA StepOfSubs ==
    ASSUME BillingTypeOK, [BillingNext]_paymentVars
    PROVE  \/ UNCHANGED <<subs, charges>> /\ now' \in {now, now + 1}
           \/ /\ UNCHANGED now
              /\ \E k \in SubKeys : \/ \E s \in Subscription : Created(k, s)
                                    \/ Cancelled(k)
                                    \/ \E p \in Periods : Paid(k, p)
<1>1. CASE \E a \in Agents, sponsor \in SponsorLamports, payer \in Relayers \cup {NoAccount} :
              PaymentByAgent(a, sponsor, payer)
  <2>1. PICK a \in Agents, sponsor \in SponsorLamports, payer \in Relayers \cup {NoAccount} :
             PaymentByAgent(a, sponsor, payer)
    BY <1>1
  <2>2. CASE \E m \in Merchants, mint \in Mints, amount \in TokenAmounts :
                PayToken(a, m, mint, amount, sponsor, payer)
    BY <2>2 DEF PayToken
  <2>3. CASE \E k \in DOMAIN subs, p \in Periods : PaySubscription(a, k, p, sponsor, payer)
    <3>1. PICK k \in DOMAIN subs, p \in Periods : PaySubscription(a, k, p, sponsor, payer)
      BY <2>3
    <3>2. Paid(k, p) /\ UNCHANGED now
      BY <3>1 DEF PaySubscription, Paid
    <3>3. k \in SubKeys
      BY DEF BillingTypeOK
    <3> QED BY <3>2, <3>3
  <2> QED BY <2>1, <2>2, <2>3 DEF PaymentByAgent
<1>2. CASE BillingAdmin
  <2>1. UNCHANGED now
    BY <1>2 DEF BillingAdmin, InitMerchantRegistry, AddMerchant, RemoveMerchant,
                CreateSubscription, CancelSubscription, coreVars
  <2>2. CASE \E mint \in Mints : InitMerchantRegistry(mint)
    BY <2>1, <2>2 DEF InitMerchantRegistry
  <2>3. CASE \E m \in Merchants : AddMerchant(m) \/ RemoveMerchant(m)
    BY <2>1, <2>3 DEF AddMerchant, RemoveMerchant
  <2>4. CASE \E m \in Merchants, mint \in Mints, amount \in TokenAmounts,
                period \in PeriodLengths, start \in StartTimes :
                CreateSubscription(m, mint, amount, period, start)
    <3>1. PICK m \in Merchants, mint \in Mints, amount \in TokenAmounts,
               period \in PeriodLengths, start \in StartTimes :
               CreateSubscription(m, mint, amount, period, start)
      BY <2>4
    <3> DEFINE k == <<m, mint>>
               s == NewSubscription(amount, period, start)
    <3>2. /\ s \in Subscription /\ s.lastPaid = PeriodNone /\ s.payments = 0
          /\ s.active /\ s.amount \in TokenAmounts \ {0}
      BY <3>1, NewSubscriptionTypeOK DEF CreateSubscription, NewSubscription
    <3>3. k \in SubKeys
      BY DEF SubKeys
    <3>4. s.start >= now
      <4>1. s.start = IF start > now THEN start ELSE now
        BY DEF NewSubscription, StartFrom
      <4> QED BY <4>1, BillingAssumption DEF BillingTypeOK, CoreTypeOK
    <3>5. Created(k, s)
      BY <3>1, <3>2, <3>3, <3>4 DEF CreateSubscription, Created
    <3> QED BY <2>1, <3>2, <3>3, <3>5
  <2>5. CASE \E k \in DOMAIN subs : CancelSubscription(k)
    <3>1. PICK k \in DOMAIN subs : CancelSubscription(k)
      BY <2>5
    <3>2. Cancelled(k) /\ k \in SubKeys
      BY <3>1 DEF CancelSubscription, Cancelled, BillingTypeOK
    <3> QED BY <2>1, <3>2
  <2> QED BY <1>2, <2>2, <2>3, <2>4, <2>5 DEF BillingAdmin
<1>3. CASE CustodyAdmin /\ UNCHANGED <<coreVars, billingVars>>
  BY <1>3 DEF coreVars, billingVars
<1>4. CASE CoreNext /\ UNCHANGED <<custodyVars, billingVars>>
  BY <1>4 DEF CoreNext, ReviseGrant, RevokeGrant, Tick, billingVars
<1>5. CASE UNCHANGED paymentVars
  BY <1>5 DEF paymentVars, coreVars, billingVars
<1> QED BY <1>1, <1>2, <1>3, <1>4, <1>5 DEF BillingNext

-----------------------------------------------------------------------------
(* No period is charged twice, and the counters tell what was charged.     *)

\* The clock never takes a subscription back to an earlier period.
LEMMA PeriodsOnlyGrow ==
    ASSUME NEW t \in Nat, NEW u \in Nat, NEW start \in Nat, NEW period \in Nat \ {0},
           start <= t, t <= u
    PROVE  /\ (t - start) \div period \in Nat
           /\ (t - start) \div period <= (u - start) \div period
<1>1. t - start \in Nat /\ u - start \in Nat /\ t - start <= u - start
  OBVIOUS
<1>2. \A x, y \in Nat : x <= y => x \div period \in Nat /\ x \div period <= y \div period
  OBVIOUS
<1> QED BY <1>1, <1>2

\* It is always within the period the division finds.
LEMMA PeriodIsUnderWay ==
    ASSUME NEW t \in Nat, NEW start \in Nat, NEW period \in Nat \ {0}, start <= t,
           NEW p, p = (t - start) \div period
    PROVE  /\ start + p * period <= t
           /\ t < start + (p + 1) * period
<1>1. t - start \in Nat
  OBVIOUS
<1>2. \A x \in Nat : x = (x \div period) * period + (x % period)
  OBVIOUS
<1>3. \A x \in Nat : x \div period \in Nat /\ x % period \in 0 .. (period - 1)
  OBVIOUS
<1>4. p \in Nat /\ t - start = p * period + ((t - start) % period)
  BY <1>1, <1>2, <1>3
<1>5. p * period \in Int /\ (p + 1) * period = p * period + period
  BY <1>4
<1>6. (t - start) % period \in 0 .. (period - 1)
  BY <1>1, <1>3
<1> QED BY <1>4, <1>5, <1>6

PaidPeriods(k) == {p \in Periods : charges[k][p] > 0}

\* PaymentsTrackTime for one subscription.
TracksTime(k) ==
    LET s == subs[k]
    IN  /\ \A p \in PaidPeriods(k) : p <= s.lastPaid
        /\ s.lastPaid # PeriodNone => /\ s.lastPaid \in PaidPeriods(k)
                                      /\ Started(s)
                                      /\ s.lastPaid <= CurrentPeriod(s)
        /\ Cardinality(PaidPeriods(k)) <= MaxPayments
             => s.payments = Cardinality(PaidPeriods(k))

LEMMA TracksTimeDef == PaymentsTrackTime <=> \A k \in DOMAIN subs : TracksTime(k)
BY DEF PaymentsTrackTime, TracksTime, PaidPeriods

\* A subscription that a step does not touch keeps tracking time, even when
\* the clock ticks.
LEMMA UntouchedTracksTime ==
    ASSUME BillingTypeOK, BillingTypeOK', now' >= now,
           NEW k \in DOMAIN subs, TracksTime(k), k \in DOMAIN subs',
           \/ subs'[k] = subs[k]
           \/ subs'[k] = [subs[k] EXCEPT !.active = FALSE],
           charges'[k] = charges[k]
    PROVE  TracksTime(k)'
<1> DEFINE s == subs[k]
           t == subs'[k]
<1>1. /\ s \in Subscription
      /\ t.lastPaid = s.lastPaid /\ t.payments = s.payments
      /\ t.start = s.start /\ t.period = s.period
  BY DEF BillingTypeOK, Subscription
<1>2. PaidPeriods(k)' = PaidPeriods(k)
  BY DEF PaidPeriods
<1>3. ASSUME s.lastPaid # PeriodNone
      PROVE  now' >= s.start /\ s.lastPaid <= (now' - s.start) \div s.period
  <2>1. now >= s.start /\ s.lastPaid <= (now - s.start) \div s.period
    BY <1>3 DEF TracksTime, Started, CurrentPeriod
  <2>2. /\ now \in Nat /\ now' \in Nat
        /\ s.start \in Nat /\ s.period \in Nat \ {0} /\ s.lastPaid \in Int
    BY <1>1 DEF BillingTypeOK, CoreTypeOK, Subscription, Periods, PeriodNone
  <2>3. /\ (now - s.start) \div s.period \in Nat
        /\ (now - s.start) \div s.period <= (now' - s.start) \div s.period
    BY <2>1, <2>2, PeriodsOnlyGrow
  <2>4. (now' - s.start) \div s.period \in Nat
    BY <2>1, <2>2, PeriodsOnlyGrow
  <2> QED BY <2>1, <2>2, <2>3, <2>4
<1> QED BY <1>1, <1>2, <1>3 DEF TracksTime, Started, CurrentPeriod

\* A payment charges a period that was never charged, and is counted.
LEMMA PaidTracksTime ==
    ASSUME BillingTypeOK, UNCHANGED now,
           NEW k \in SubKeys, NEW p \in Periods, TracksTime(k), Paid(k, p)
    PROVE  /\ charges[k][p] = 0
           /\ TracksTime(k)'
           /\ Cardinality(PaidPeriods(k)) \in Nat
           /\ Cardinality(PaidPeriods(k)') = Cardinality(PaidPeriods(k)) + 1
<1> DEFINE s == subs[k]
           t == subs'[k]
<1>1. /\ s \in Subscription
      /\ s.lastPaid \in Periods \cup {PeriodNone}
      /\ charges[k] \in [Periods -> Nat]
      /\ s.payments \in 0 .. MaxPayments /\ MaxPayments \in Nat
  BY BillingAssumption DEF Paid, BillingTypeOK, Subscription
<1>2. /\ p > s.lastPaid /\ p = CurrentPeriod(s) /\ Started(s)
  BY DEF Paid, Payable, NotYetPaid
<1>3. t = AfterPayment(s, p)
  BY DEF Paid
<1>4. /\ t.lastPaid = p /\ t.start = s.start /\ t.period = s.period
      /\ t.payments = IF s.payments < MaxPayments THEN s.payments + 1 ELSE s.payments
  BY <1>1, <1>3 DEF AfterPayment, Subscription
<1>5. p \notin PaidPeriods(k)
  BY <1>1, <1>2 DEF TracksTime, Periods, PeriodNone, PaidPeriods
<1>6. charges[k][p] = 0
  BY <1>1, <1>5 DEF PaidPeriods
<1>7. PaidPeriods(k)' = PaidPeriods(k) \cup {p}
  BY <1>1, <1>6 DEF Paid, BillingTypeOK, PaidPeriods
<1>8. /\ IsFiniteSet(PaidPeriods(k))
      /\ Cardinality(PaidPeriods(k)) \in Nat
      /\ Cardinality(PaidPeriods(k)') = Cardinality(PaidPeriods(k)) + 1
  <2>1. IsFiniteSet(Periods)
    BY CoreAssumption, FS_Interval DEF Periods
  <2>2. IsFiniteSet(PaidPeriods(k))
    BY <2>1, FS_Subset DEF PaidPeriods
  <2> QED BY <1>5, <1>7, <2>2, FS_AddElement, FS_CardinalityType
<1>9. \A q \in PaidPeriods(k)' : q <= p
  BY <1>1, <1>2, <1>7 DEF TracksTime, Periods, PeriodNone, PaidPeriods
<1>10. /\ now' >= t.start
       /\ p <= (now' - t.start) \div t.period
       /\ p \in PaidPeriods(k)'
  BY <1>2, <1>4, <1>7 DEF Started, CurrentPeriod, Periods
<1>11. Cardinality(PaidPeriods(k)') <= MaxPayments
         => t.payments = Cardinality(PaidPeriods(k)')
  BY <1>1, <1>4, <1>8 DEF TracksTime
<1> QED BY <1>4, <1>6, <1>8, <1>9, <1>10, <1>11 DEF TracksTime, Started, CurrentPeriod

\* A new subscription has charged nothing and counts nothing.
LEMMA CreatedTracksTime ==
    ASSUME BillingTypeOK, ChargedExists, NEW k \in SubKeys, NEW s \in Subscription,
           Created(k, s)
    PROVE  TracksTime(k)'
<1>1. subs'[k] = s /\ s.lastPaid = PeriodNone /\ s.payments = 0
  BY DEF Created
<1>2. PaidPeriods(k)' = {}
  BY DEF Created, ChargedExists, PaidPeriods
<1>3. Cardinality(PaidPeriods(k)') = 0
  BY <1>2, FS_EmptySet
<1> QED BY <1>1, <1>2, <1>3 DEF TracksTime

\* The charging part of the invariant is preserved.
LEMMA ChargesStep ==
    ASSUME BillingInv, [BillingNext]_paymentVars
    PROVE  (ChargedExists /\ NoDoubleCharge /\ PaymentsTrackTime)'
<1>0. /\ BillingTypeOK /\ BillingTypeOK'
      /\ ChargedExists /\ NoDoubleCharge
      /\ \A k \in DOMAIN subs : TracksTime(k)
  BY StepTypeOK, TracksTimeDef DEF BillingInv
<1>a. now \in Nat /\ DOMAIN subs \subseteq SubKeys
  BY <1>0 DEF BillingTypeOK, CoreTypeOK
<1> SUFFICES (ChargedExists /\ NoDoubleCharge)' /\ \A k \in DOMAIN subs' : TracksTime(k)'
  BY DEF PaymentsTrackTime, TracksTime, PaidPeriods
<1>1. CASE UNCHANGED <<subs, charges>> /\ now' \in {now, now + 1}
  <2>1. (ChargedExists /\ NoDoubleCharge)'
    BY <1>0, <1>1 DEF ChargedExists, NoDoubleCharge
  <2>2. now' >= now
    BY <1>1, <1>a
  <2> QED BY <1>0, <1>1, <2>1, <2>2, UntouchedTracksTime
<1>2. ASSUME UNCHANGED now, NEW k \in SubKeys, NEW s \in Subscription, Created(k, s)
      PROVE  (ChargedExists /\ NoDoubleCharge)' /\ \A j \in DOMAIN subs' : TracksTime(j)'
  <2>1. (ChargedExists /\ NoDoubleCharge)'
    BY <1>0, <1>2 DEF ChargedExists, NoDoubleCharge, Created
  <2>2. \A j \in DOMAIN subs : j \in DOMAIN subs' /\ subs'[j] = subs[j] /\ charges'[j] = charges[j]
    BY <1>2 DEF Created
  <2>3. now' >= now
    BY <1>2, <1>a
  <2>4. \A j \in DOMAIN subs : TracksTime(j)'
    BY <1>0, <2>2, <2>3, UntouchedTracksTime
  <2>5. TracksTime(k)'
    BY <1>0, <1>2, CreatedTracksTime
  <2>6. DOMAIN subs' = DOMAIN subs \cup {k}
    BY <1>2 DEF Created
  <2> QED BY <2>1, <2>4, <2>5, <2>6
<1>3. ASSUME UNCHANGED now, NEW k \in SubKeys, Cancelled(k)
      PROVE  (ChargedExists /\ NoDoubleCharge)' /\ \A j \in DOMAIN subs' : TracksTime(j)'
  <2>1. DOMAIN subs' = DOMAIN subs /\ charges' = charges
    BY <1>0, <1>3 DEF Cancelled
  <2>2. (ChargedExists /\ NoDoubleCharge)'
    BY <1>0, <2>1 DEF ChargedExists, NoDoubleCharge
  <2>3. \A j \in DOMAIN subs : \/ subs'[j] = subs[j]
                               \/ subs'[j] = [subs[j] EXCEPT !.active = FALSE]
    BY <1>0, <1>3 DEF Cancelled, BillingTypeOK
  <2>4. now' >= now
    BY <1>3, <1>a
  <2> QED BY <1>0, <2>1, <2>2, <2>3, <2>4, UntouchedTracksTime
<1>4. ASSUME UNCHANGED now, NEW k \in SubKeys, NEW p \in Periods, Paid(k, p)
      PROVE  (ChargedExists /\ NoDoubleCharge)' /\ \A j \in DOMAIN subs' : TracksTime(j)'
  <2>1. k \in DOMAIN subs /\ DOMAIN subs' = DOMAIN subs
    BY <1>4 DEF Paid
  <2>2. charges[k][p] = 0 /\ TracksTime(k)'
    BY <1>0, <1>4, <2>1, PaidTracksTime
  <2>3. \A j \in SubKeys, q \in Periods :
            charges'[j][q] = IF j = k /\ q = p THEN 1 ELSE charges[j][q]
    BY <1>0, <1>4, <2>2 DEF Paid, BillingTypeOK
  <2>4. (ChargedExists /\ NoDoubleCharge)'
    BY <1>0, <2>1, <2>3 DEF ChargedExists, NoDoubleCharge
  <2>5. \A j \in DOMAIN subs \ {k} : subs'[j] = subs[j] /\ charges'[j] = charges[j]
    BY <1>0, <1>4 DEF Paid, BillingTypeOK
  <2>6. now' >= now
    BY <1>4, <1>a
  <2>7. \A j \in DOMAIN subs \ {k} : TracksTime(j)'
    BY <1>0, <2>1, <2>5, <2>6, UntouchedTracksTime
  <2> QED BY <2>1, <2>2, <2>4, <2>7
<1> QED BY <1>0, <1>1, <1>2, <1>3, <1>4, StepOfSubs

-----------------------------------------------------------------------------
(* No grant pays out more than its cap.                                    *)

LEMMA SpendStep ==
    ASSUME BillingTypeOK, SpendWithinCap, [BillingNext]_paymentVars
    PROVE  SpendWithinCap'
<1>0. \A a \in Agents : grants[a].spent \in Nat /\ grants[a].cap \in Nat
  BY DEF BillingTypeOK, CoreTypeOK, Grant
<1>1. ASSUME NEW a \in Agents, NEW amount \in Nat, CheckGrant(a, amount) PROVE SpendWithinCap'
  BY <1>0, <1>1 DEF CheckGrant, GrantAllows, SpendWithinCap, BillingTypeOK, CoreTypeOK, Grant
<1>2. CASE UNCHANGED grants
  BY <1>2 DEF SpendWithinCap
<1>3. CASE \E a \in Agents, sponsor \in SponsorLamports, payer \in Relayers \cup {NoAccount} :
              PaymentByAgent(a, sponsor, payer)
  <2>1. PICK a \in Agents, sponsor \in SponsorLamports, payer \in Relayers \cup {NoAccount} :
             PaymentByAgent(a, sponsor, payer)
    BY <1>3
  <2>2. \A amount \in TokenAmounts : amount \in Nat
    BY BillingAssumption
  <2>3. \A k \in DOMAIN subs : subs[k].amount \in Nat
    BY DEF BillingTypeOK, Subscription
  <2> QED BY <1>1, <2>1, <2>2, <2>3
          DEF PaymentByAgent, PayToken, PaySubscription, MeteredTransfer
<1>4. CASE CoreNext
  <2>1. CASE \E a \in Agents, cap \in Caps : ReviseGrant(a, cap)
    BY <1>0, <2>1, CoreAssumption
       DEF ReviseGrant, SpendWithinCap, BillingTypeOK, CoreTypeOK, Grant
  <2>2. CASE \E a \in Agents : RevokeGrant(a)
    BY <1>0, <2>2 DEF RevokeGrant, SpendWithinCap, BillingTypeOK, CoreTypeOK, Grant
  <2>3. CASE Tick
    BY <2>3 DEF Tick, SpendWithinCap
  <2> QED BY <1>4, <2>1, <2>2, <2>3 DEF CoreNext
<1>5. CASE BillingAdmin
  <2>1. UNCHANGED coreVars
    BY <1>5 DEF BillingAdmin, InitMerchantRegistry, AddMerchant, RemoveMerchant,
                CreateSubscription, CancelSubscription
  <2> QED BY <1>2, <2>1 DEF coreVars
<1> QED BY <1>2, <1>3, <1>4, <1>5 DEF BillingNext, paymentVars, coreVars

-----------------------------------------------------------------------------
LEMMA InvInit == BillingInit => BillingInv
<1> SUFFICES ASSUME BillingInit PROVE BillingInv
  OBVIOUS
<1>1. BillingTypeOK
  BY InitTypeOK
<1>2. SpendWithinCap
  BY CoreAssumption DEF BillingInit, CoreInit, SpendWithinCap, Grant
<1>3. ChargedExists /\ NoDoubleCharge /\ PaymentsTrackTime
  BY DEF BillingInit, ChargedExists, NoDoubleCharge, PaymentsTrackTime, Periods
<1> QED BY <1>1, <1>2, <1>3 DEF BillingInv

LEMMA InvStep == BillingInv /\ [BillingNext]_paymentVars => BillingInv'
BY StepTypeOK, SpendStep, ChargesStep DEF BillingInv

\* BillingInv holds in every reachable state.
THEOREM Invariance == BillingSpec => []BillingInv
<1>1. BillingInit => BillingInv
  BY InvInit
<1>2. BillingInv /\ [BillingNext]_paymentVars => BillingInv'
  BY InvStep
<1> QED BY <1>1, <1>2, PTL DEF BillingSpec

\* However pay_subscription is retried, duplicated or delayed, a period of a
\* subscription is charged at most once: the promise of subscription.rs, for
\* any number of agents, merchants, mints and periods.
THEOREM ExactlyOnceSettlement == BillingSpec => []NoDoubleCharge
<1>1. BillingInv => NoDoubleCharge
  BY DEF BillingInv
<1> QED BY <1>1, Invariance, PTL

\* lastPaid and payments record exactly the periods charged, and no period is
\* charged before it begins.
THEOREM CountersTellTheTruth == BillingSpec => []PaymentsTrackTime
<1>1. BillingInv => PaymentsTrackTime
  BY DEF BillingInv
<1> QED BY <1>1, Invariance, PTL

\* One-off and recurring payments together never exceed a grant's cap, though
\* the root revises it while payments are under way.
THEOREM CapBindsPayments == BillingSpec => []SpendWithinCap
<1>1. BillingInv => SpendWithinCap
  BY DEF BillingInv
<1> QED BY <1>1, Invariance, PTL

\* Once cancelled, a subscription is never changed or charged again.
THEOREM CancellationIsFinal == BillingSpec => CancelIsFinal
<1> DEFINE Stays == \A k \in DOMAIN subs : ~subs[k].active =>
                        /\ k \in DOMAIN subs'
                        /\ subs'[k] = subs[k]
                        /\ charges'[k] = charges[k]
<1>1. BillingTypeOK /\ [BillingNext]_paymentVars => [Stays]_paymentVars
  <2> SUFFICES ASSUME BillingTypeOK, [BillingNext]_paymentVars PROVE Stays
    OBVIOUS
  <2>1. CASE UNCHANGED <<subs, charges>>
    BY <2>1
  <2>2. ASSUME NEW k \in SubKeys, NEW s \in Subscription, Created(k, s) PROVE Stays
    BY <2>2 DEF Created
  <2>3. ASSUME NEW k \in SubKeys, Cancelled(k) PROVE Stays
    BY <2>3 DEF Cancelled, BillingTypeOK
  <2>4. ASSUME NEW k \in SubKeys, NEW p \in Periods, Paid(k, p) PROVE Stays
    BY <2>4 DEF Paid, Payable, BillingTypeOK
  <2> QED BY <2>1, <2>2, <2>3, <2>4, StepOfSubs
<1> QED BY <1>1, TypeCorrect, PTL DEF BillingSpec, CancelIsFinal

-----------------------------------------------------------------------------
(* When a period is charged.                                               *)

\* A period is charged while it is under way, whenever the payment was built
\* and whatever was missed before (MissedPeriodsAreNotBackfilled).
THEOREM NothingIsBackfilled == BillingSpec => MissedPeriodsAreNotBackfilled
<1> DEFINE Began(k, p) == subs[k].start + p * subs[k].period
<1>1. BillingTypeOK /\ [BillingNext]_paymentVars =>
        [\A k \in SubKeys, p \in Periods :
            charges'[k][p] # charges[k][p] =>
               LET begins(q) == subs[k].start + q * subs[k].period
               IN  /\ k \in DOMAIN subs
                   /\ begins(p) <= now /\ now < begins(p + 1)]_paymentVars
  <2> SUFFICES ASSUME BillingTypeOK, [BillingNext]_paymentVars,
                      NEW k \in SubKeys, NEW p \in Periods, charges'[k][p] # charges[k][p]
               PROVE  /\ k \in DOMAIN subs
                      /\ Began(k, p) <= now /\ now < Began(k, p + 1)
    OBVIOUS
  <2>1. PICK j \in SubKeys, q \in Periods : Paid(j, q)
    BY StepOfSubs DEF Created, Cancelled
  <2>2. j = k /\ q = p
    BY <2>1 DEF BillingTypeOK, Paid
  <2>3. /\ k \in DOMAIN subs /\ subs[k] \in Subscription /\ now \in Nat
        /\ Started(subs[k]) /\ p = CurrentPeriod(subs[k])
    BY <2>1, <2>2 DEF BillingTypeOK, CoreTypeOK, Paid, Payable
  <2>4. /\ subs[k].start \in Nat /\ subs[k].period \in Nat \ {0}
        /\ subs[k].start <= now /\ p = (now - subs[k].start) \div subs[k].period
    BY <2>3 DEF Subscription, Started, CurrentPeriod
  <2> QED BY <2>3, <2>4, PeriodIsUnderWay
<1> QED BY <1>1, TypeCorrect, PTL DEF BillingSpec, MissedPeriodsAreNotBackfilled

-----------------------------------------------------------------------------
(* Where a merchant's tokens come from.                                    *)

\* A step pays at most one merchant in one mint, by charging one live grant
\* the same amount; and then it is pay_token or pay_subscription.
LEMMA PaymentStep ==
    ASSUME BillingTypeOK, [BillingNext]_paymentVars
    PROVE  \/ /\ \A m \in Merchants, mint \in Mints : tokens'[m][mint] = tokens[m][mint]
              /\ \A a \in Agents : grants'[a].spent = grants[a].spent
              /\ registry.open => registry'.open /\ registry'.mint = registry.mint
              /\ UNCHANGED <<charges, direct>>
           \/ \E a \in Agents, k \in SubKeys, amount \in Nat :
                 /\ Listed(k[1], k[2])
                 /\ UNCHANGED registry
                 /\ MeteredTransfer(a, k[1], k[2], amount)
                 /\ \/ UNCHANGED <<subs, charges>> /\ direct' = [direct EXCEPT ![k] = @ + amount]
                    \/ /\ UNCHANGED <<now, direct>>
                       /\ amount = subs[k].amount
                       /\ \E p \in Periods : Paid(k, p)
<1>1. CASE \E a \in Agents, sponsor \in SponsorLamports, payer \in Relayers \cup {NoAccount} :
              PaymentByAgent(a, sponsor, payer)
  <2>1. PICK a \in Agents, sponsor \in SponsorLamports, payer \in Relayers \cup {NoAccount} :
             PaymentByAgent(a, sponsor, payer)
    BY <1>1
  <2>2. CASE \E m \in Merchants, mint \in Mints, amount \in TokenAmounts :
                PayToken(a, m, mint, amount, sponsor, payer)
    <3>1. PICK m \in Merchants, mint \in Mints, amount \in TokenAmounts :
               PayToken(a, m, mint, amount, sponsor, payer)
      BY <2>2
    <3> DEFINE k == <<m, mint>>
    <3>2. k \in SubKeys /\ k[1] = m /\ k[2] = mint /\ amount \in Nat
      BY BillingAssumption DEF SubKeys
    <3>3. /\ Listed(k[1], k[2])
          /\ MeteredTransfer(a, k[1], k[2], amount)
          /\ UNCHANGED <<registry, subs, charges>>
          /\ direct' = [direct EXCEPT ![k] = @ + amount]
      BY <3>1, <3>2 DEF PayToken
    <3> QED BY <3>2, <3>3
  <2>3. CASE \E k \in DOMAIN subs, p \in Periods : PaySubscription(a, k, p, sponsor, payer)
    <3>1. PICK k \in DOMAIN subs, p \in Periods : PaySubscription(a, k, p, sponsor, payer)
      BY <2>3
    <3>2. k \in SubKeys /\ subs[k].amount \in Nat
      BY DEF BillingTypeOK, Subscription
    <3>3. /\ Listed(k[1], k[2])
          /\ MeteredTransfer(a, k[1], k[2], subs[k].amount)
          /\ UNCHANGED <<now, registry, direct>>
          /\ Paid(k, p)
      BY <3>1 DEF PaySubscription, Paid
    <3> QED BY <3>2, <3>3
  <2> QED BY <2>1, <2>2, <2>3 DEF PaymentByAgent
<1>2. CASE BillingAdmin
  <2>1. UNCHANGED <<coreVars, custodyVars, charges, direct>>
    BY <1>2 DEF BillingAdmin, InitMerchantRegistry, AddMerchant, RemoveMerchant,
                CreateSubscription, CancelSubscription
  <2>2. registry.open => registry'.open /\ registry'.mint = registry.mint
    BY <1>2 DEF BillingAdmin, InitMerchantRegistry, AddMerchant, RemoveMerchant,
                CreateSubscription, CancelSubscription, BillingTypeOK
  <2> QED BY <2>1, <2>2 DEF custodyVars, coreVars
<1>3. CASE CustodyAdmin /\ UNCHANGED <<coreVars, billingVars>>
  <2>1. \A m \in Merchants : m # Root /\ m # TraderPda /\ m \in Holders
    BY CustodyAssumption DEF Holders
  <2>2. \A m \in Merchants, mint \in Mints : tokens'[m][mint] = tokens[m][mint]
    BY <1>3, <2>1 DEF CustodyAdmin, SetRelayer, PausePaymaster, UnpausePaymaster,
                      WithdrawPaymaster, WithdrawPumpTrader
  <2> QED BY <1>3, <2>2 DEF billingVars, coreVars
<1>4. CASE CoreNext /\ UNCHANGED <<custodyVars, billingVars>>
  <2>1. \A a \in Agents : grants'[a].spent = grants[a].spent
    BY <1>4, CoreStepKeepsSpent DEF BillingTypeOK
  <2> QED BY <1>4, <2>1 DEF custodyVars, billingVars
<1>5. CASE UNCHANGED paymentVars
  BY <1>5 DEF paymentVars, coreVars, custodyVars, billingVars
<1> QED BY <1>1, <1>2, <1>3, <1>4, <1>5 DEF BillingNext

\* A merchant is paid only with authority: listed now, in the pinned mint,
\* charged to one grant that is live now and for the same amount.
THEOREM PaymentsHaveAuthority == BillingSpec => PaymentHasAuthority
<1> DEFINE Authorised ==
        \A m \in Merchants, mint \in Mints :
          LET paid == tokens'[m][mint] - tokens[m][mint]
          IN  paid > 0 =>
                /\ registry.open /\ mint = registry.mint /\ m \in registry.merchants
                /\ \E a \in Agents :
                      /\ ~grants[a].revoked /\ now < grants[a].expires
                      /\ grants' = [grants EXCEPT ![a].spent = @ + paid]
<1>1. BillingTypeOK /\ [BillingNext]_paymentVars => [Authorised]_paymentVars
  <2> SUFFICES ASSUME BillingTypeOK, [BillingNext]_paymentVars PROVE Authorised
    OBVIOUS
  <2>0. /\ tokens \in [Holders -> [Mints -> Nat]]
        /\ TraderPda \notin Merchants /\ Merchants \subseteq Holders /\ TraderPda \in Holders
    BY CustodyAssumption DEF BillingTypeOK, CustodyTypeOK, Holders
  <2>1. CASE \A m \in Merchants, mint \in Mints : tokens'[m][mint] = tokens[m][mint]
    BY <2>0, <2>1
  <2>2. ASSUME NEW a \in Agents, NEW k \in SubKeys, NEW amount \in Nat,
               Listed(k[1], k[2]), MeteredTransfer(a, k[1], k[2], amount)
        PROVE  Authorised
    <3>1. k[1] \in Merchants /\ k[2] \in Mints
      BY DEF SubKeys
    <3>2. SUFFICES ASSUME NEW m \in Merchants, NEW mint \in Mints,
                          tokens'[m][mint] - tokens[m][mint] > 0
                   PROVE  /\ registry.open /\ mint = registry.mint /\ m \in registry.merchants
                          /\ \E b \in Agents :
                                /\ ~grants[b].revoked /\ now < grants[b].expires
                                /\ grants' = [grants EXCEPT ![b].spent =
                                                @ + (tokens'[m][mint] - tokens[m][mint])]
      OBVIOUS
    <3>3. tokens' = [tokens EXCEPT ![TraderPda][k[2]] = @ - amount, ![k[1]][k[2]] = @ + amount]
      BY <2>2 DEF MeteredTransfer
    <3>4. m = k[1] /\ mint = k[2] /\ tokens'[m][mint] - tokens[m][mint] = amount
      BY <2>0, <3>1, <3>2, <3>3
    <3>5. /\ ~grants[a].revoked /\ now < grants[a].expires
          /\ grants' = [grants EXCEPT ![a].spent = @ + amount]
      BY <2>2 DEF MeteredTransfer, CheckGrant, GrantAllows, Live
    <3>6. registry.open /\ mint = registry.mint /\ m \in registry.merchants
      BY <2>2, <3>4 DEF Listed
    <3> QED BY <3>4, <3>5, <3>6
  <2> QED BY <2>1, <2>2, PaymentStep
<1> QED BY <1>1, TypeCorrect, PTL DEF BillingSpec, PaymentHasAuthority

-----------------------------------------------------------------------------
(* The books balance.                                                      *)

\* What a subscription has cost so far.
Billed(k) == IF k \in DOMAIN subs THEN subs[k].amount * Cardinality(PaidPeriods(k)) ELSE 0

LEMMA MerchantBooksDef ==
    MerchantBooks <=>
        \A k \in SubKeys :
            tokens[k[1]][k[2]] = InitialTokens[k[1]][k[2]] + direct[k] + Billed(k)
BY DEF MerchantBooks, Billed, PaidPeriods

LEMMA BilledType ==
    ASSUME BillingTypeOK, NEW k \in SubKeys
    PROVE  Billed(k) \in Nat
<1>1. IsFiniteSet(PaidPeriods(k))
  <2>1. IsFiniteSet(Periods)
    BY CoreAssumption, FS_Interval DEF Periods
  <2> QED BY <2>1, FS_Subset DEF PaidPeriods
<1>2. Cardinality(PaidPeriods(k)) \in Nat
  BY <1>1, FS_CardinalityType
<1>3. k \in DOMAIN subs => subs[k].amount \in Nat
  BY DEF BillingTypeOK, Subscription
<1> QED BY <1>2, <1>3 DEF Billed

\* The price of a subscription is fixed when it is created.
LEMMA PriceIsFixed ==
    ASSUME BillingTypeOK, [BillingNext]_paymentVars, NEW k \in DOMAIN subs
    PROVE  k \in DOMAIN subs' /\ subs'[k].amount = subs[k].amount
<1>1. CASE UNCHANGED subs
  BY <1>1
<1>2. ASSUME NEW j \in SubKeys, NEW s \in Subscription, Created(j, s)
      PROVE  k \in DOMAIN subs' /\ subs'[k].amount = subs[k].amount
  BY <1>2 DEF Created
<1>3. ASSUME NEW j \in SubKeys, Cancelled(j)
      PROVE  k \in DOMAIN subs' /\ subs'[k].amount = subs[k].amount
  BY <1>3 DEF Cancelled, BillingTypeOK, Subscription
<1>4. ASSUME NEW j \in SubKeys, NEW p \in Periods, Paid(j, p)
      PROVE  k \in DOMAIN subs' /\ subs'[k].amount = subs[k].amount
  BY <1>4 DEF Paid, AfterPayment, BillingTypeOK, Subscription
<1> QED BY <1>1, <1>2, <1>3, <1>4, StepOfSubs

\* A subscription whose charges a step leaves alone costs what it did.
LEMMA UnchargedBilled ==
    ASSUME BillingInv, [BillingNext]_paymentVars, NEW k \in SubKeys, charges'[k] = charges[k]
    PROVE  Billed(k)' = Billed(k)
<1>0. BillingTypeOK /\ BillingTypeOK'
  BY StepTypeOK DEF BillingInv
<1>1. PaidPeriods(k)' = PaidPeriods(k)
  BY DEF PaidPeriods
<1>2. CASE k \in DOMAIN subs
  BY <1>0, <1>1, <1>2, PriceIsFixed DEF Billed
<1>3. CASE k \notin DOMAIN subs
  <2>1. PaidPeriods(k)' = {}
    BY <1>1, <1>3 DEF PaidPeriods, BillingInv, ChargedExists
  <2>2. Cardinality(PaidPeriods(k)') = 0
    BY <2>1, FS_EmptySet
  <2>3. k \in DOMAIN subs' => subs'[k].amount \in Nat
    BY <1>0 DEF BillingTypeOK, Subscription
  <2>4. k \in DOMAIN subs' => subs'[k].amount * Cardinality(PaidPeriods(k)') = 0
    BY <2>2, <2>3
  <2> QED BY <1>3, <2>4 DEF Billed
<1> QED BY <1>2, <1>3

\* Between them, direct payments and charges explain every token transfer.
LEMMA BooksStep ==
    ASSUME BillingInv, MerchantBooks, [BillingNext]_paymentVars
    PROVE  MerchantBooks'
<1>0. /\ BillingTypeOK /\ BillingTypeOK'
      /\ \A k \in SubKeys : tokens[k[1]][k[2]] = InitialTokens[k[1]][k[2]] + direct[k] + Billed(k)
  BY StepTypeOK, MerchantBooksDef DEF BillingInv
<1>t. /\ tokens \in [Holders -> [Mints -> Nat]] /\ direct \in [SubKeys -> Nat]
      /\ InitialTokens \in [Holders -> [Mints -> Nat]]
      /\ TraderPda \notin Merchants /\ Merchants \subseteq Holders /\ TraderPda \in Holders
      /\ \A k \in SubKeys : k = <<k[1], k[2]>> /\ k[1] \in Merchants /\ k[2] \in Mints
  BY <1>0, CustodyAssumption DEF BillingTypeOK, CustodyTypeOK, Holders, SubKeys
<1>b. \A k \in SubKeys : Billed(k) \in Nat
  BY <1>0, BilledType
<1> SUFFICES ASSUME NEW j \in SubKeys
             PROVE  tokens'[j[1]][j[2]] = InitialTokens[j[1]][j[2]] + direct'[j] + Billed(j)'
  BY DEF MerchantBooks, Billed, PaidPeriods
<1>1. CASE /\ \A m \in Merchants, mint \in Mints : tokens'[m][mint] = tokens[m][mint]
           /\ UNCHANGED <<charges, direct>>
  BY <1>0, <1>t, <1>1, UnchargedBilled
<1>2. ASSUME NEW a \in Agents, NEW k \in SubKeys, NEW amount \in Nat,
             MeteredTransfer(a, k[1], k[2], amount),
             \/ UNCHANGED <<subs, charges>> /\ direct' = [direct EXCEPT ![k] = @ + amount]
             \/ /\ UNCHANGED <<now, direct>>
                /\ amount = subs[k].amount
                /\ \E p \in Periods : Paid(k, p)
      PROVE  tokens'[j[1]][j[2]] = InitialTokens[j[1]][j[2]] + direct'[j] + Billed(j)'
  <2>1. tokens'[j[1]][j[2]] = tokens[j[1]][j[2]] + (IF j = k THEN amount ELSE 0)
    <3>1. tokens' = [tokens EXCEPT ![TraderPda][k[2]] = @ - amount, ![k[1]][k[2]] = @ + amount]
      BY <1>2 DEF MeteredTransfer
    <3>2. j = k <=> j[1] = k[1] /\ j[2] = k[2]
      BY <1>t
    <3> QED BY <1>t, <3>1, <3>2
  <2>2. CASE UNCHANGED <<subs, charges>> /\ direct' = [direct EXCEPT ![k] = @ + amount]
    <3>1. Billed(j)' = Billed(j)
      BY <2>2, UnchargedBilled
    <3>2. direct'[j] = direct[j] + (IF j = k THEN amount ELSE 0)
      BY <1>t, <2>2
    <3> QED BY <1>0, <1>t, <1>b, <2>1, <3>1, <3>2
  <2>3. ASSUME NEW p \in Periods, Paid(k, p), UNCHANGED <<now, direct>>, amount = subs[k].amount
        PROVE  tokens'[j[1]][j[2]] = InitialTokens[j[1]][j[2]] + direct'[j] + Billed(j)'
    <3>1. CASE j # k
      <4>1. charges'[j] = charges[j]
        BY <1>0, <2>3, <3>1 DEF Paid, BillingTypeOK
      <4> QED BY <1>0, <1>t, <1>b, <2>1, <2>3, <3>1, <4>1, UnchargedBilled
    <3>2. CASE j = k
      <4>1. k \in DOMAIN subs /\ k \in DOMAIN subs' /\ subs'[k].amount = amount
        BY <1>0, <2>3, PriceIsFixed DEF Paid
      <4>2. TracksTime(k)
        BY <4>1, TracksTimeDef DEF BillingInv
      <4>3. /\ Cardinality(PaidPeriods(k)) \in Nat
            /\ Cardinality(PaidPeriods(k)') = Cardinality(PaidPeriods(k)) + 1
        BY <1>0, <2>3, <4>2, PaidTracksTime
      <4>4. \A c \in Nat : amount * (c + 1) = amount * c + amount
        OBVIOUS
      <4>5. Billed(k)' = Billed(k) + amount
        BY <2>3, <4>1, <4>3, <4>4 DEF Billed
      <4> QED BY <1>0, <1>t, <1>b, <2>1, <2>3, <3>2, <4>5
    <3> QED BY <3>1, <3>2
  <2> QED BY <1>2, <2>2, <2>3
<1> QED BY <1>0, <1>1, <1>2, PaymentStep

\* A merchant holds exactly what it was paid: its pay_token payments plus its
\* subscription's amount times the periods charged.
THEOREM BooksBalance == BillingSpec => []MerchantBooks
<1>1. BillingInit => MerchantBooks
  <2> SUFFICES ASSUME BillingInit PROVE MerchantBooks
    OBVIOUS
  <2>1. /\ tokens = InitialTokens /\ InitialTokens \in [Holders -> [Mints -> Nat]]
        /\ DOMAIN subs = {} /\ \A k \in SubKeys : direct[k] = 0
    BY CustodyAssumption DEF BillingInit
  <2>2. \A k \in SubKeys : k[1] \in Holders /\ k[2] \in Mints
    BY DEF SubKeys, Holders
  <2> QED BY <2>1, <2>2 DEF MerchantBooks
<1>2. BillingInv /\ MerchantBooks /\ [BillingNext]_paymentVars => MerchantBooks'
  BY BooksStep
<1> QED BY <1>1, <1>2, Invariance, PTL DEF BillingSpec

-----------------------------------------------------------------------------
(* Every token is metered.                                                 *)

Gained(mint) == SumOver([m \in Merchants |-> tokens[m][mint] - InitialTokens[m][mint]], Merchants)
SpentInAll   == SumOver([a \in Agents |-> grants[a].spent], Agents)

(* The inductive form.  That no grant is charged before the registry opens  *)
(* is needed when it does: from then on what merchants gained in the mint   *)
(* it pins must equal what was spent in all.                                *)
Metered ==
    /\ ~registry.open => \A a \in Agents : grants[a].spent = 0
    /\ \A mint \in Mints :
          Gained(mint) = IF registry.open /\ mint = registry.mint THEN SpentInAll ELSE 0

LEMMA MeteredDef == EveryTokenIsMetered <=> /\ SpendWithinCap
                                            /\ \A mint \in Mints :
                                                  Gained(mint) =
                                                     IF registry.open /\ mint = registry.mint
                                                     THEN SpentInAll ELSE 0
BY DEF EveryTokenIsMetered, Gained, SpentInAll

LEMMA MeteredInit == BillingInit => Metered
<1> SUFFICES ASSUME BillingInit PROVE Metered
  OBVIOUS
<1>1. \A a \in Agents : grants[a].spent = 0
  BY CoreAssumption DEF BillingInit, CoreInit
<1>2. ~registry.open
  BY DEF BillingInit
<1>3. ASSUME NEW mint \in Mints PROVE Gained(mint) = 0
  <2> DEFINE g == [m \in Merchants |-> tokens[m][mint] - InitialTokens[m][mint]]
  <2>1. \A m \in Merchants : g[m] = 0
    BY CustodyAssumption DEF BillingInit, Holders
  <2>2. IsFiniteSet(Merchants)
    BY BillingAssumption
  <2> HIDE DEF g
  <2>3. SumOver(g, Merchants) = 0
    BY <2>1, <2>2, SumZero
  <2> QED BY <2>3 DEF g, Gained
<1> QED BY <1>1, <1>2, <1>3 DEF Metered

\* A payment adds the same amount to what the merchants gained in its mint and
\* to what the agents spent, and to nothing else.
LEMMA PaymentIsMetered ==
    ASSUME BillingTypeOK, NEW a \in Agents, NEW k \in SubKeys, NEW amount \in Nat,
           MeteredTransfer(a, k[1], k[2], amount)
    PROVE  /\ SpentInAll' = SpentInAll + amount
           /\ \A mint \in Mints :
                 Gained(mint)' = Gained(mint) + (IF mint = k[2] THEN amount ELSE 0)
<1>0. /\ k[1] \in Merchants /\ k[2] \in Mints
      /\ IsFiniteSet(Merchants) /\ IsFiniteSet(Agents)
      /\ tokens \in [Holders -> [Mints -> Nat]] /\ InitialTokens \in [Holders -> [Mints -> Nat]]
      /\ Merchants \subseteq Holders /\ TraderPda \in Holders /\ TraderPda \notin Merchants
  BY BillingAssumption, CustodyAssumption DEF SubKeys, BillingTypeOK, CustodyTypeOK, Holders
<1>1. SpentInAll' = SpentInAll + amount
  <2> DEFINE f == [b \in Agents |-> grants[b].spent]
             g == [b \in Agents |-> grants'[b].spent]
  <2>1. \A b \in Agents : grants[b].spent \in Int /\ grants'[b].spent \in Int
    BY CheckGrantCharges DEF MeteredTransfer, BillingTypeOK, CoreTypeOK, Grant
  <2>2. /\ grants'[a].spent = grants[a].spent + amount
        /\ \A b \in Agents \ {a} : grants'[b] = grants[b]
    BY CheckGrantCharges DEF MeteredTransfer, BillingTypeOK
  <2>3. /\ \A b \in Agents : f[b] \in Int
        /\ g[a] \in Int
        /\ \A b \in Agents \ {a} : g[b] = f[b]
    BY <2>1, <2>2
  <2>4. g[a] - f[a] = amount
    BY <2>1, <2>2
  <2>5. IsFiniteSet(Agents)
    BY <1>0
  <2> HIDE DEF f, g
  <2>6. SumOver(g, Agents) = SumOver(f, Agents) + (g[a] - f[a])
    BY <2>3, <2>5, SumChange
  <2> QED BY <2>4, <2>6 DEF f, g, SpentInAll
<1>2. ASSUME NEW mint \in Mints
      PROVE  Gained(mint)' = Gained(mint) + (IF mint = k[2] THEN amount ELSE 0)
  <2> DEFINE f == [m \in Merchants |-> tokens[m][mint] - InitialTokens[m][mint]]
             g == [m \in Merchants |-> tokens'[m][mint] - InitialTokens[m][mint]]
  <2>1. tokens' = [tokens EXCEPT ![TraderPda][k[2]] = @ - amount, ![k[1]][k[2]] = @ + amount]
    BY DEF MeteredTransfer
  <2>2. \A m \in Merchants : tokens[m][mint] \in Int /\ InitialTokens[m][mint] \in Int
    BY <1>0
  <2>3. tokens'[k[1]][mint] = tokens[k[1]][mint] + (IF mint = k[2] THEN amount ELSE 0)
    BY <1>0, <2>1
  <2>4. \A m \in Merchants \ {k[1]} : tokens'[m][mint] = tokens[m][mint]
    BY <1>0, <2>1
  <2>5. /\ \A m \in Merchants : f[m] \in Int
        /\ g[k[1]] \in Int
        /\ \A m \in Merchants \ {k[1]} : g[m] = f[m]
    BY <1>0, <2>2, <2>3, <2>4
  <2>6. g[k[1]] - f[k[1]] = IF mint = k[2] THEN amount ELSE 0
    BY <1>0, <2>2, <2>3
  <2>7. IsFiniteSet(Merchants) /\ k[1] \in Merchants
    BY <1>0
  <2> HIDE DEF f, g
  <2>8. SumOver(g, Merchants) = SumOver(f, Merchants) + (g[k[1]] - f[k[1]])
    <3> DEFINE e == k[1]
    <3>1. /\ IsFiniteSet(Merchants) /\ e \in Merchants
          /\ \A m \in Merchants : f[m] \in Int
          /\ g[e] \in Int
          /\ \A m \in Merchants \ {e} : g[m] = f[m]
      BY <2>5, <2>7
    <3> HIDE DEF e
    <3>2. SumOver(g, Merchants) = SumOver(f, Merchants) + (g[e] - f[e])
      BY <3>1, SumChange
    <3> QED BY <3>2 DEF e
  <2> QED BY <2>6, <2>8 DEF f, g, Gained
<1> QED BY <1>1, <1>2

LEMMA MeteredStep ==
    ASSUME BillingTypeOK, Metered, [BillingNext]_paymentVars
    PROVE  Metered'
<1>0. IsFiniteSet(Merchants) /\ IsFiniteSet(Agents)
  BY BillingAssumption
<1>1. CASE /\ \A m \in Merchants, mint \in Mints : tokens'[m][mint] = tokens[m][mint]
           /\ \A a \in Agents : grants'[a].spent = grants[a].spent
           /\ registry.open => registry'.open /\ registry'.mint = registry.mint
  <2>1. SpentInAll' = SpentInAll
    BY <1>1 DEF SpentInAll
  <2>2. ASSUME NEW mint \in Mints PROVE Gained(mint)' = Gained(mint)
    BY <1>1 DEF Gained
  <2>3. CASE registry.open
    BY <1>1, <2>1, <2>2, <2>3 DEF Metered
  <2>4. CASE ~registry.open
    <3>1. \A a \in Agents : grants[a].spent = 0 /\ grants'[a].spent = 0
      BY <1>1, <2>4 DEF Metered
    <3>2. SpentInAll' = 0
      <4> DEFINE g == [a \in Agents |-> grants'[a].spent]
      <4>1. \A a \in Agents : g[a] = 0
        BY <3>1
      <4> HIDE DEF g
      <4>2. SumOver(g, Agents) = 0
        BY <1>0, <4>1, SumZero
      <4> QED BY <4>2 DEF g, SpentInAll
    <3> QED BY <2>2, <2>4, <3>1, <3>2 DEF Metered
  <2> QED BY <2>3, <2>4
<1>2. ASSUME NEW a \in Agents, NEW k \in SubKeys, NEW amount \in Nat,
             Listed(k[1], k[2]), UNCHANGED registry, MeteredTransfer(a, k[1], k[2], amount)
      PROVE  Metered'
  <2>1. registry.open /\ registry.mint = k[2] /\ registry'.open /\ registry'.mint = k[2]
    BY <1>2 DEF Listed
  <2>2. /\ SpentInAll' = SpentInAll + amount
        /\ \A mint \in Mints :
              Gained(mint)' = Gained(mint) + (IF mint = k[2] THEN amount ELSE 0)
    BY <1>2, PaymentIsMetered
  <2>3. \A mint \in Mints : Gained(mint) = IF mint = k[2] THEN SpentInAll ELSE 0
    BY <2>1 DEF Metered
  <2>4. \A mint \in Mints : Gained(mint)' = IF mint = k[2] THEN SpentInAll' ELSE 0
    BY <2>2, <2>3
  <2> QED BY <2>1, <2>4 DEF Metered
<1> QED BY <1>1, <1>2, PaymentStep

\* What merchants gained is, in the mint the registry pins, what CORE metered
\* against all the grants, and nothing in any other mint (EveryTokenIsMetered).
THEOREM EveryTokenWasMetered == BillingSpec => []EveryTokenIsMetered
<1>1. BillingInit => Metered
  BY MeteredInit
<1>2. BillingInv /\ Metered /\ [BillingNext]_paymentVars => Metered'
  BY MeteredStep DEF BillingInv
<1>3. BillingInv /\ Metered => EveryTokenIsMetered
  BY MeteredDef DEF BillingInv, Metered
<1> QED BY <1>1, <1>2, <1>3, Invariance, PTL DEF BillingSpec

-----------------------------------------------------------------------------
(* SOL while agents pay.                                                   *)

\* The only step of an agent that moves SOL reimburses a relayer in a pay_token.
LEMMA SponsorStep ==
    ASSUME BillingTypeOK, [BillingNext]_paymentVars
    PROVE  \/ UNCHANGED sol /\ UNCHANGED <<vaultOpen, paymaster>>
           \/ CustodyTypeOK /\ CustodyNext
           \/ /\ UNCHANGED <<vaultOpen, paymaster>>
              /\ \E a \in Agents, sponsor \in SponsorLamports, payer \in Relayers \cup {NoAccount} :
                    /\ SponsorAsked(sponsor, payer)
                    /\ CanReimburse(sol, grants[a], sponsor, payer)
                    /\ sol' = Reimbursed(sol, sponsor, payer)
                    /\ grants'[a].spent > grants[a].spent
<1>0. CoreTypeOK /\ CustodyTypeOK
  BY DEF BillingTypeOK
<1>1. ASSUME NEW a \in Agents, NEW sponsor \in SponsorLamports,
             NEW payer \in Relayers \cup {NoAccount},
             NEW m \in Merchants, NEW mint \in Mints, NEW amount \in TokenAmounts,
             PayToken(a, m, mint, amount, sponsor, payer)
      PROVE  /\ UNCHANGED <<vaultOpen, paymaster>>
             /\ SponsorAsked(sponsor, payer)
             /\ CanReimburse(sol, grants[a], sponsor, payer)
             /\ sol' = Reimbursed(sol, sponsor, payer)
             /\ grants'[a].spent > grants[a].spent
  <2>1. amount \in Nat /\ amount > 0 /\ CheckGrant(a, amount)
    BY <1>1, BillingAssumption DEF PayToken, MeteredTransfer
  <2>2. grants'[a].spent = grants[a].spent + amount /\ grants[a].spent \in Nat
    BY <1>0, <2>1, CheckGrantCharges DEF CoreTypeOK, Grant
  <2>3. grants'[a].spent > grants[a].spent
    BY <2>1, <2>2
  <2> QED BY <1>1, <2>3 DEF PayToken
<1>2. ASSUME NEW a \in Agents, NEW sponsor \in SponsorLamports,
             NEW payer \in Relayers \cup {NoAccount},
             NEW k \in DOMAIN subs, NEW p \in Periods, PaySubscription(a, k, p, sponsor, payer)
      PROVE  UNCHANGED <<sol, vaultOpen, paymaster>>
  BY <1>2 DEF PaySubscription
<1>3. CASE BillingAdmin
  <2>1. UNCHANGED custodyVars
    BY <1>3 DEF BillingAdmin, InitMerchantRegistry, AddMerchant, RemoveMerchant,
                CreateSubscription, CancelSubscription
  <2> QED BY <2>1 DEF custodyVars
<1>4. CASE CustodyAdmin
  BY <1>0, <1>4, CustodyAdminIsCustody
<1>5. CASE UNCHANGED custodyVars
  BY <1>5 DEF custodyVars
<1> QED BY <1>1, <1>2, <1>3, <1>4, <1>5 DEF BillingNext, PaymentByAgent, paymentVars

LEMMA RentFloorsStep ==
    ASSUME BillingTypeOK, RentFloors, [BillingNext]_paymentVars
    PROVE  RentFloors'
<1>1. CASE UNCHANGED sol /\ UNCHANGED <<vaultOpen, paymaster>>
  BY <1>1 DEF RentFloors
<1>2. CASE CustodyTypeOK /\ CustodyNext
  BY <1>2, CustodyMoves, CustodyStep
<1>3. ASSUME NEW a \in Agents, NEW sponsor \in SponsorLamports,
             NEW payer \in Relayers \cup {NoAccount},
             UNCHANGED <<vaultOpen, paymaster>>,
             SponsorAsked(sponsor, payer), CanReimburse(sol, grants[a], sponsor, payer),
             sol' = Reimbursed(sol, sponsor, payer)
      PROVE  RentFloors'
  <2>1. /\ VaultFloor \in Nat /\ PaymasterFloor \in Nat /\ PaymasterFloor <= PaymasterRent
        /\ Covered(sol, VaultFloor, PaymasterFloor)
    BY FloorsCover DEF BillingTypeOK
  <2>2. Covered(sol', VaultFloor, PaymasterFloor)
    BY <1>3, <2>1, ReimbursedKeepsCovered
  <2> QED BY <1>3, <2>2 DEF Covered, VaultFloor, PaymasterFloor, RentFloors
<1> QED BY <1>1, <1>2, <1>3, SponsorStep

\* Paying merchants and sponsoring the fees never takes the vault or the
\* paymaster below its rent (RentFloors).
THEOREM BillingKeepsRentFloors == BillingSpec => []RentFloors
<1>1. BillingInit => RentFloors
  BY BillingAssumption DEF BillingInit, RentFloors
<1>2. BillingTypeOK /\ RentFloors /\ [BillingNext]_paymentVars => RentFloors'
  BY RentFloorsStep
<1> QED BY <1>1, <1>2, TypeCorrect, PTL DEF BillingSpec

\* Agents can only make the paymaster pay the relayer set at that moment, at
\* most MaxSponsor, unpaused, in a step that charges an eligible grant; the
\* rest that leaves it goes to the root (PaymasterOutflow).
THEOREM PaymasterPaysOnlyItsRelayer == BillingSpec => PaymasterOutflow
<1> DEFINE Outflow ==
        LET out == sol[PaymasterPda] - sol'[PaymasterPda]
        IN  out > 0 =>
              \/ sol' = [sol EXCEPT ![PaymasterPda] = @ - out, ![Root] = @ + out]
              \/ /\ sol' = [sol EXCEPT ![PaymasterPda] = @ - out,
                                       ![paymaster.relayer] = @ + out]
                 /\ ~paymaster.paused
                 /\ out <= MaxSponsor
                 /\ \E a \in Agents : /\ grants[a].sponsorEligible
                                      /\ grants'[a].spent > grants[a].spent
<1>1. BillingTypeOK /\ [BillingNext]_paymentVars => [Outflow]_paymentVars
  <2> SUFFICES ASSUME BillingTypeOK, [BillingNext]_paymentVars,
                      NEW out, out = sol[PaymasterPda] - sol'[PaymasterPda], out > 0
               PROVE  \/ sol' = [sol EXCEPT ![PaymasterPda] = @ - out, ![Root] = @ + out]
                      \/ /\ sol' = [sol EXCEPT ![PaymasterPda] = @ - out,
                                               ![paymaster.relayer] = @ + out]
                         /\ ~paymaster.paused
                         /\ out <= MaxSponsor
                         /\ \E a \in Agents : /\ grants[a].sponsorEligible
                                              /\ grants'[a].spent > grants[a].spent
    OBVIOUS
  <2>0. /\ CustodyTypeOK /\ CustodyTypeOK' /\ sol \in [Accounts -> Nat]
        /\ PaymasterPda \in Accounts /\ MaxSponsor \in Nat
        /\ sol[PaymasterPda] \in Nat /\ sol'[PaymasterPda] \in Nat
    BY StepTypeOK, AccountsDiffer DEF BillingTypeOK, CustodyTypeOK
  <2>1. ASSUME NEW x \in Accounts, x # PaymasterPda, sol' = Moved(sol, PaymasterPda, x, out)
        PROVE  sol' = [sol EXCEPT ![PaymasterPda] = @ - out, ![x] = @ + out]
    BY <2>0, <2>1 DEF Moved
  <2>2. CASE UNCHANGED sol
    BY <2>0, <2>2
  <2>3. CASE CustodyNext
    <3>1. sol' = Moved(sol, PaymasterPda, Root, out)
      BY <2>0, <2>3, AdminOutflow
    <3>2. Root \in Accounts /\ Root # PaymasterPda
      BY AccountsDiffer
    <3> QED BY <2>1, <3>1, <3>2
  <2>4. ASSUME NEW a \in Agents, NEW sponsor \in SponsorLamports,
               NEW payer \in Relayers \cup {NoAccount},
               SponsorAsked(sponsor, payer), CanReimburse(sol, grants[a], sponsor, payer),
               sol' = Reimbursed(sol, sponsor, payer)
        PROVE  /\ sol' = [sol EXCEPT ![PaymasterPda] = @ - out, ![paymaster.relayer] = @ + out]
               /\ ~paymaster.paused
               /\ out <= MaxSponsor
               /\ grants[a].sponsorEligible
    <3>1. sponsor \in Nat /\ out = sponsor /\ sponsor > 0
      BY <2>0, <2>4, ReimbursedAt, AccountsDiffer
    <3>2. /\ payer \in Accounts /\ payer # PaymasterPda
          /\ sol' = Moved(sol, PaymasterPda, payer, out)
      BY <2>0, <2>4, <3>1, ReimbursedMoves
    <3>3. /\ grants[a].sponsorEligible /\ ~paymaster.paused
          /\ payer = paymaster.relayer /\ out <= MaxSponsor
      BY <2>4, <3>1 DEF CanReimburse, SponsorAsked
    <3>4. sol' = [sol EXCEPT ![PaymasterPda] = @ - out, ![payer] = @ + out]
      BY <2>1, <3>2
    <3> QED BY <3>3, <3>4
  <2> QED BY <2>2, <2>3, <2>4, SponsorStep
<1> QED BY <1>1, TypeCorrect, PTL DEF BillingSpec, PaymasterOutflow
=============================================================================
