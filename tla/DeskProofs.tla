----------------------------- MODULE DeskProofs -----------------------------
(***************************************************************************)
(* What is proved about Desk for every value of its constants: the type    *)
(* invariant, that what an agent's trades and payments really took was     *)
(* metered within its cap, that every trade holds the bounds its caller    *)
(* gave whatever the route did, that none costs the trader its rent, and   *)
(* that the vault and the paymaster keep theirs.                           *)
(***************************************************************************)
EXTENDS Desk, BillingProofs, TLAPS

(* The inductive invariant.  Both halves of OutlayCovered are needed at     *)
(* once: a charge fits under the cap because CORE looked, an outlay fits    *)
(* under what was charged because the handler looked.                       *)
DeskInv ==
    /\ DeskTypeOK
    /\ OutlayCovered
    /\ RentFloors

LEMMA DeskFacts ==
    ASSUME DeskTypeOK
    PROVE  /\ CoreTypeOK /\ CustodyTypeOK /\ BillingTypeOK
           /\ sol \in [Accounts -> Nat] /\ tokens \in [Holders -> [Mints -> Nat]]
           /\ outlay \in [Agents -> Nat]
           /\ TraderPda \in Accounts /\ TraderPda \in Holders
           /\ TraderRent \in Nat \ {0} /\ Wsol \in Mints
           /\ Lamports \subseteq Nat /\ MinOuts \subseteq Nat /\ MaxTokens \in Nat
           /\ TokenAmounts \subseteq Nat
BY AccountsDiffer, DeskAssumption, BillingAssumption
   DEF DeskTypeOK, BillingTypeOK, CustodyTypeOK, Holders

\* What the trader holds of an asset is a number.
LEMMA HoldingType ==
    ASSUME DeskTypeOK, NEW mint \in Mints
    PROVE  Holding(mint) \in Nat
BY DeskFacts DEF Holding

-----------------------------------------------------------------------------
(* The steps.                                                              *)

\* A payment out of the trader touches the trader.
LEMMA TraderPaysAt ==
    ASSUME CustodyTypeOK, NEW amount \in Nat, amount <= sol[TraderPda]
    PROVE  /\ TraderPays(amount) \in [Accounts -> Nat]
           /\ TraderPays(amount)[TraderPda] = sol[TraderPda] - amount
           /\ \A x \in Accounts \ {TraderPda} : TraderPays(amount)[x] = sol[x]
<1>1. sol \in [Accounts -> Nat] /\ TraderPda \in Accounts
  BY AccountsDiffer DEF CustodyTypeOK
<1>2. TraderPays(amount) = [sol EXCEPT ![TraderPda] = sol[TraderPda] - amount]
  BY <1>1 DEF TraderPays
<1>3. sol[TraderPda] - amount \in Nat
  BY <1>1
<1> QED BY <1>1, <1>2, <1>3

\* What is left of the SOL after the trader paid and the relayer was paid back.
LEMMA PaidAndReimbursed ==
    ASSUME CustodyTypeOK, RentFloors, UNCHANGED <<vaultOpen, paymaster>>,
           NEW amount \in Nat, amount <= sol[TraderPda],
           NEW bal, bal = IF amount = 0 THEN sol ELSE TraderPays(amount),
           NEW g, NEW sponsor \in SponsorLamports, NEW payer \in Relayers \cup {NoAccount},
           SponsorAsked(sponsor, payer), CanReimburse(bal, g, sponsor, payer),
           sol' = Reimbursed(bal, sponsor, payer)
    PROVE  /\ sol' \in [Accounts -> Nat]
           /\ sol'[TraderPda] = sol[TraderPda] - amount
           /\ RentFloors'
<1>1. /\ sol \in [Accounts -> Nat]
      /\ {TraderPda, VaultPda, PaymasterPda} \subseteq Accounts
      /\ TraderPda # VaultPda /\ TraderPda # PaymasterPda
  BY AccountsDiffer DEF CustodyTypeOK
<1>2. /\ bal \in [Accounts -> Nat]
      /\ bal[TraderPda] = sol[TraderPda] - amount
      /\ bal[VaultPda] = sol[VaultPda] /\ bal[PaymasterPda] = sol[PaymasterPda]
  <2>1. CASE amount = 0
    BY <1>1, <2>1
  <2>2. CASE amount # 0
    BY <1>1, <2>2, TraderPaysAt
  <2> QED BY <2>1, <2>2
<1>3. /\ sol' \in [Accounts -> Nat]
      /\ sol'[TraderPda] = bal[TraderPda]
  BY <1>2, ReimbursedAt
<1>4. /\ VaultFloor \in Nat /\ PaymasterFloor \in Nat /\ PaymasterFloor <= PaymasterRent
      /\ Covered(sol, VaultFloor, PaymasterFloor)
  BY FloorsCover
<1>5. Covered(bal, VaultFloor, PaymasterFloor)
  BY <1>2, <1>4 DEF Covered
<1>6. Covered(sol', VaultFloor, PaymasterFloor)
  BY <1>4, <1>5, ReimbursedKeepsCovered
<1>7. RentFloors'
  BY <1>6 DEF Covered, VaultFloor, PaymasterFloor, RentFloors
<1> QED BY <1>2, <1>3, <1>7

\* What a trade leaves the trader with, whatever the route did.
TradeLeft(input, output, wrap, amount, minOut) ==
    /\ input # output
    /\ wrap => input = Wsol
    /\ tokens' \in [Holders -> [Mints -> Nat]]
    /\ tokens'[TraderPda][input] + amount
         >= tokens[TraderPda][input] + (IF wrap THEN amount ELSE 0)
    /\ minOut > 0 => tokens'[TraderPda][output] >= tokens[TraderPda][output] + minOut
    /\ \A mint \in Mints : mint # input /\ mint # output =>
          tokens'[TraderPda][mint] = tokens[TraderPda][mint]

LEMMA TradeLeaves ==
    ASSUME DeskTypeOK, NEW a \in Agents, NEW input \in Mints, NEW output \in Mints,
           NEW wrap \in BOOLEAN, NEW amount \in Lamports, NEW minOut \in MinOuts,
           NEW sourceAfter \in Nat, NEW destAfter \in Nat,
           NEW sponsor \in SponsorLamports, NEW payer \in Relayers \cup {NoAccount},
           Trade(a, input, output, wrap, amount, minOut, sourceAfter, destAfter, sponsor, payer)
    PROVE  TradeLeft(input, output, wrap, amount, minOut)
<1>0. /\ tokens \in [Holders -> [Mints -> Nat]] /\ TraderPda \in Holders
      /\ amount \in Nat /\ minOut \in Nat
      /\ tokens[TraderPda][input] \in Nat /\ tokens[TraderPda][output] \in Nat
  BY DeskFacts
<1>1. /\ input # output
      /\ wrap => input = Wsol
      /\ tokens' = [tokens EXCEPT ![TraderPda][input] = sourceAfter,
                                  ![TraderPda][output] = destAfter]
      /\ SaturatingSub(Available(input, wrap, amount), sourceAfter) <= amount
      /\ SaturatingSub(destAfter, tokens[TraderPda][output]) >= minOut
  BY DEF Trade, OutcomeAccepted
<1>2. /\ tokens' \in [Holders -> [Mints -> Nat]]
      /\ tokens'[TraderPda][input] = sourceAfter
      /\ tokens'[TraderPda][output] = destAfter
      /\ \A mint \in Mints : mint # input /\ mint # output =>
            tokens'[TraderPda][mint] = tokens[TraderPda][mint]
  BY <1>0, <1>1
<1>3. sourceAfter + amount >= tokens[TraderPda][input] + (IF wrap THEN amount ELSE 0)
  BY <1>0, <1>1 DEF SaturatingSub, Available
<1>4. minOut > 0 => destAfter >= tokens[TraderPda][output] + minOut
  BY <1>0, <1>1 DEF SaturatingSub
<1>5. tokens'[TraderPda][input] + amount
         >= tokens[TraderPda][input] + (IF wrap THEN amount ELSE 0)
  BY <1>2, <1>3
<1>6. minOut > 0 => tokens'[TraderPda][output] >= tokens[TraderPda][output] + minOut
  BY <1>2, <1>4
<1> QED BY <1>1, <1>2, <1>5, <1>6 DEF TradeLeft

\* What it does to SOL and to the grant.
TradePaid(a, input, wrap, amount) ==
    /\ sol' \in [Accounts -> Nat]
    /\ sol'[TraderPda] = sol[TraderPda] - (IF wrap THEN amount ELSE 0)
    /\ sol'[TraderPda] >= TraderRent
    /\ RentFloors'
    /\ GrantAmount(input, wrap, amount) \in Nat
    /\ CheckGrant(a, GrantAmount(input, wrap, amount))
    /\ UNCHANGED <<now, vaultOpen, paymaster, billingVars>>

LEMMA TradePays ==
    ASSUME DeskTypeOK, RentFloors, NEW a \in Agents, NEW input \in Mints, NEW output \in Mints,
           NEW wrap \in BOOLEAN, NEW amount \in Lamports, NEW minOut \in MinOuts,
           NEW sourceAfter \in Nat, NEW destAfter \in Nat,
           NEW sponsor \in SponsorLamports, NEW payer \in Relayers \cup {NoAccount},
           Trade(a, input, output, wrap, amount, minOut, sourceAfter, destAfter, sponsor, payer)
    PROVE  TradePaid(a, input, wrap, amount)
<1> DEFINE paid == IF wrap THEN amount ELSE 0
           bal  == IF wrap THEN TraderPays(amount) ELSE sol
<1>0. /\ CustodyTypeOK /\ sol \in [Accounts -> Nat] /\ sol[TraderPda] \in Nat
      /\ TraderRent \in Nat /\ amount \in Nat
  BY DeskFacts
<1>1. /\ amount > 0
      /\ SponsorAsked(sponsor, payer)
      /\ sol[TraderPda] >= TraderRent
      /\ CheckGrant(a, GrantAmount(input, wrap, amount))
      /\ wrap => sol[TraderPda] >= amount + TraderRent
      /\ CanReimburse(bal, grants[a], sponsor, payer)
      /\ sol' = Reimbursed(bal, sponsor, payer)
      /\ UNCHANGED <<now, vaultOpen, paymaster, billingVars>>
  BY DEF Trade, TraderReady, Prefunded
<1>2. /\ paid \in Nat /\ paid <= sol[TraderPda] /\ sol[TraderPda] - paid >= TraderRent
      /\ bal = IF paid = 0 THEN sol ELSE TraderPays(paid)
  BY <1>0, <1>1
<1>3. GrantAmount(input, wrap, amount) \in Nat
  BY <1>0 DEF GrantAmount
<1> HIDE DEF bal
<1>4. /\ sol' \in [Accounts -> Nat]
      /\ sol'[TraderPda] = sol[TraderPda] - paid
      /\ RentFloors'
  <2> HIDE DEF paid
  <2> QED BY <1>0, <1>1, <1>2, PaidAndReimbursed
<1>5. sol'[TraderPda] >= TraderRent
  BY <1>2, <1>4
<1> QED BY <1>1, <1>3, <1>4, <1>5 DEF TradePaid

\* A trade takes no more of its input than the caller allowed and brings the
\* minimum it named; and unless it sells for SOL without naming one, the SOL
\* it took, wrapped or not, was metered.
LEMMA TradeBounds ==
    ASSUME DeskTypeOK, RentFloors, NEW a \in Agents, NEW input \in Mints, NEW output \in Mints,
           NEW wrap \in BOOLEAN, NEW amount \in Lamports, NEW minOut \in MinOuts,
           NEW sourceAfter \in Nat, NEW destAfter \in Nat,
           NEW sponsor \in SponsorLamports, NEW payer \in Relayers \cup {NoAccount},
           Trade(a, input, output, wrap, amount, minOut, sourceAfter, destAfter, sponsor, payer)
    PROVE  /\ Holding(input) - Holding(input)' <= amount
           /\ minOut > 0 => Holding(output)' - Holding(output) >= minOut
           /\ ~(output = Wsol /\ minOut = 0) =>
                 Holding(Wsol) - Holding(Wsol)' <= GrantAmount(input, wrap, amount)
<1> DEFINE t     == tokens[TraderPda]
           tNext == tokens'[TraderPda]
           s     == sol[TraderPda]
           sNext == sol'[TraderPda]
<1>0. /\ TraderPda \in Holders /\ TraderPda \in Accounts /\ Wsol \in Mints
      /\ tokens \in [Holders -> [Mints -> Nat]] /\ sol \in [Accounts -> Nat]
      /\ minOut \in Nat /\ amount \in Nat
  BY DeskFacts
<1>1. /\ input # output
      /\ wrap => input = Wsol
      /\ tokens' \in [Holders -> [Mints -> Nat]]
      /\ tNext[input] + amount >= t[input] + (IF wrap THEN amount ELSE 0)
      /\ minOut > 0 => tNext[output] >= t[output] + minOut
      /\ \A mint \in Mints : mint # input /\ mint # output => tNext[mint] = t[mint]
  <2>1. TradeLeft(input, output, wrap, amount, minOut)
    BY TradeLeaves
  <2> QED BY <2>1 DEF TradeLeft
<1>2. sol' \in [Accounts -> Nat] /\ sNext = s - (IF wrap THEN amount ELSE 0)
  <2>1. TradePaid(a, input, wrap, amount)
    BY TradePays
  <2> QED BY <2>1 DEF TradePaid
<1>3. /\ \A mint \in Mints : t[mint] \in Nat /\ tNext[mint] \in Nat
      /\ s \in Nat /\ sNext \in Nat
  BY <1>0, <1>1, <1>2
<1>4. \A mint \in Mints : /\ Holding(mint) = t[mint] + (IF mint = Wsol THEN s ELSE 0)
                          /\ Holding(mint)' = tNext[mint] + (IF mint = Wsol THEN sNext ELSE 0)
  BY DEF Holding
<1> HIDE DEF t, tNext, s, sNext
<1>5. Holding(input) - Holding(input)' <= amount
  BY <1>0, <1>1, <1>2, <1>3, <1>4
<1>6. minOut > 0 => Holding(output)' - Holding(output) >= minOut
  BY <1>0, <1>1, <1>2, <1>3, <1>4
<1>7. ASSUME ~(output = Wsol /\ minOut = 0)
      PROVE  Holding(Wsol) - Holding(Wsol)' <= GrantAmount(input, wrap, amount)
  <2>1. CASE input = Wsol
    BY <1>5, <2>1 DEF GrantAmount
  <2>2. CASE input # Wsol /\ output = Wsol
    BY <1>0, <1>1, <1>2, <1>3, <1>4, <1>6, <1>7, <2>2 DEF GrantAmount
  <2>3. CASE input # Wsol /\ output # Wsol
    BY <1>0, <1>1, <1>2, <1>3, <1>4, <2>3 DEF GrantAmount
  <2> QED BY <2>1, <2>2, <2>3
<1> QED BY <1>5, <1>6, <1>7

\* pump_create charges the caller's budget; what pump.fun takes is the trader's.
CreatePaid(a, maxSolCost) ==
    /\ sol' \in [Accounts -> Nat]
    /\ RentFloors'
    /\ CheckGrant(a, maxSolCost)
    /\ UNCHANGED <<now, tokens, vaultOpen, paymaster, billingVars>>

LEMMA CreatePays ==
    ASSUME DeskTypeOK, RentFloors, NEW a \in Agents,
           NEW maxSolCost \in Lamports, NEW cost \in Lamports \cup {0},
           NEW sponsor \in SponsorLamports, NEW payer \in Relayers \cup {NoAccount},
           PumpCreate(a, maxSolCost, cost, sponsor, payer)
    PROVE  CreatePaid(a, maxSolCost)
<1> DEFINE bal == TraderPays(cost)
<1>0. CustodyTypeOK /\ cost \in Nat /\ sol \in [Accounts -> Nat] /\ TraderPda \in Accounts
  BY DeskFacts
<1>1. /\ SponsorAsked(sponsor, payer)
      /\ CheckGrant(a, maxSolCost)
      /\ cost <= sol[TraderPda]
      /\ CanReimburse(bal, grants[a], sponsor, payer)
      /\ sol' = Reimbursed(bal, sponsor, payer)
      /\ UNCHANGED <<now, tokens, vaultOpen, paymaster, billingVars>>
  BY DEF PumpCreate
<1>2. bal = IF cost = 0 THEN sol ELSE TraderPays(cost)
  <2>1. CASE cost = 0
    BY <1>0, <2>1 DEF TraderPays
  <2> QED BY <2>1
<1> HIDE DEF bal
<1>3. sol' \in [Accounts -> Nat] /\ RentFloors'
  BY <1>0, <1>1, <1>2, PaidAndReimbursed
<1> QED BY <1>1, <1>3 DEF CreatePaid

\* What the root does to the custody accounts here it may do anywhere.
LEMMA DeskAdminIsCustody == DeskAdmin => CustodyNext
BY DEF DeskAdmin, CustodyNext

\* What PayToken and the registry do here they do in Billing.
LEMMA DeskPayIsBilling ==
    ASSUME NEW a \in Agents, NEW m \in Merchants, NEW mint \in Mints,
           NEW amount \in TokenAmounts, NEW sponsor \in SponsorLamports,
           NEW payer \in Relayers \cup {NoAccount},
           PayToken(a, m, mint, amount, sponsor, payer)
    PROVE  [BillingNext]_paymentVars
BY DEF BillingNext, PaymentByAgent

-----------------------------------------------------------------------------
(* The invariant, and its preservation.                                    *)

LEMMA DeskInvInit == DeskInit => DeskInv
<1> SUFFICES ASSUME DeskInit PROVE DeskInv
  OBVIOUS
<1>1. BillingInv /\ BillingTypeOK /\ RentFloors
  BY InvInit, BillingAssumption DEF DeskInit, BillingInv, BillingInit, RentFloors
<1>2. outlay \in [Agents -> Nat]
  BY DEF DeskInit
<1>3. ASSUME NEW a \in Agents
      PROVE  outlay[a] <= grants[a].spent /\ grants[a].spent <= grants[a].cap
  <2>1. outlay[a] = 0
    BY DEF DeskInit
  <2>2. grants[a].spent \in Nat
    BY <1>1 DEF BillingTypeOK, CoreTypeOK, Grant
  <2>3. grants[a].spent <= grants[a].cap
    BY <1>1 DEF BillingInv, SpendWithinCap
  <2> QED BY <2>1, <2>2, <2>3
<1> QED BY <1>1, <1>2, <1>3 DEF DeskInv, DeskTypeOK, OutlayCovered

\* An outlay that CORE charged first stays covered.
LEMMA OutlayGrows ==
    ASSUME DeskInv, NEW a \in Agents, NEW charge \in Nat, NEW taken \in Nat,
           taken <= charge, CheckGrant(a, charge),
           outlay' = [outlay EXCEPT ![a] = outlay[a] + taken]
    PROVE  outlay' \in [Agents -> Nat] /\ OutlayCovered'
<1>0. /\ CoreTypeOK /\ outlay \in [Agents -> Nat]
      /\ \A b \in Agents : /\ grants[b].spent \in Nat /\ grants[b].cap \in Nat
                           /\ outlay[b] <= grants[b].spent /\ grants[b].spent <= grants[b].cap
  BY DEF DeskInv, DeskTypeOK, BillingTypeOK, CoreTypeOK, Grant, OutlayCovered
<1>1. /\ grants'[a].spent = grants[a].spent + charge
      /\ grants'[a].cap = grants[a].cap
      /\ grants[a].spent + charge <= grants[a].cap
      /\ \A b \in Agents \ {a} : grants'[b] = grants[b]
  BY <1>0, CheckGrantCharges
<1>2. outlay'[a] = outlay[a] + taken /\ \A b \in Agents \ {a} : outlay'[b] = outlay[b]
  BY <1>0
<1>3. outlay' \in [Agents -> Nat]
  BY <1>0
<1>4. outlay'[a] <= grants'[a].spent /\ grants'[a].spent <= grants'[a].cap
  BY <1>0, <1>1, <1>2
<1> QED BY <1>0, <1>1, <1>2, <1>3, <1>4 DEF OutlayCovered

\* A trade or a creation leaves everything well typed.
LEMMA TradeTypeOK ==
    ASSUME DeskInv, NEW a \in Agents, NEW charge \in Nat, CheckGrant(a, charge),
           sol' \in [Accounts -> Nat], tokens' \in [Holders -> [Mints -> Nat]],
           UNCHANGED <<now, vaultOpen, paymaster, billingVars>>
    PROVE  BillingTypeOK'
<1>1. BillingTypeOK /\ CoreTypeOK /\ CustodyTypeOK
  BY DEF DeskInv, DeskTypeOK, BillingTypeOK
<1>2. grants' \in [Agents -> Grant]
  BY <1>1, CheckGrantCharges
<1>3. CoreTypeOK' /\ CustodyTypeOK'
  BY <1>1, <1>2 DEF CoreTypeOK, CustodyTypeOK
<1> QED BY <1>1, <1>3 DEF BillingTypeOK, billingVars

LEMMA TradeKeepsInv ==
    ASSUME DeskInv, NEW a \in Agents, NEW sponsor \in SponsorLamports,
           NEW payer \in Relayers \cup {NoAccount}, AgentTrades(a, sponsor, payer)
    PROVE  DeskInv'
<1>0. DeskTypeOK /\ RentFloors /\ outlay \in [Agents -> Nat] /\ Wsol \in Mints
  BY DeskFacts DEF DeskInv
<1>1. PICK input \in Mints, output \in Mints, wrap \in BOOLEAN, amount \in Lamports,
           minOut \in MinOuts, sourceAfter \in 0 .. MaxTokens, destAfter \in 0 .. MaxTokens :
        /\ Trade(a, input, output, wrap, amount, minOut, sourceAfter, destAfter, sponsor, payer)
        /\ IF output = Wsol /\ minOut = 0 THEN UNCHANGED outlay
           ELSE Took(a, SaturatingSub(Holding(Wsol), Holding(Wsol)'))
  BY DEF AgentTrades
<1> DEFINE charge == GrantAmount(input, wrap, amount)
<1>2. sourceAfter \in Nat /\ destAfter \in Nat
  BY <1>0, DeskFacts
<1>3. TradeLeft(input, output, wrap, amount, minOut) /\ TradePaid(a, input, wrap, amount)
  BY <1>0, <1>1, <1>2, TradeLeaves, TradePays
<1>4. /\ sol' \in [Accounts -> Nat] /\ tokens' \in [Holders -> [Mints -> Nat]]
      /\ RentFloors'
      /\ charge \in Nat /\ CheckGrant(a, charge)
      /\ UNCHANGED <<now, vaultOpen, paymaster, billingVars>>
  BY <1>3 DEF TradeLeft, TradePaid
<1>5. ~(output = Wsol /\ minOut = 0) => Holding(Wsol) - Holding(Wsol)' <= charge
  BY <1>0, <1>1, <1>2, TradeBounds
<1> HIDE DEF charge
<1>6. Holding(Wsol) \in Nat /\ Holding(Wsol)' \in Nat
  BY <1>0, <1>4, DeskFacts DEF Holding
<1>7. \E taken \in Nat : taken <= charge /\ outlay' = [outlay EXCEPT ![a] = outlay[a] + taken]
  <2>1. CASE output = Wsol /\ minOut = 0
    <3>1. outlay' = [outlay EXCEPT ![a] = outlay[a] + 0]
      BY <1>0, <1>1, <2>1
    <3>2. 0 <= charge
      BY <1>4
    <3> WITNESS 0 \in Nat
    <3> QED BY <3>1, <3>2
  <2>2. CASE ~(output = Wsol /\ minOut = 0)
    <3> DEFINE taken == SaturatingSub(Holding(Wsol), Holding(Wsol)')
    <3>1. taken \in Nat /\ taken <= charge
      BY <1>4, <1>5, <1>6, <2>2 DEF SaturatingSub
    <3>2. outlay' = [outlay EXCEPT ![a] = outlay[a] + taken]
      BY <1>0, <1>1, <2>2 DEF Took
    <3> HIDE DEF taken
    <3> QED BY <3>1, <3>2
  <2> QED BY <2>1, <2>2
<1>8. outlay' \in [Agents -> Nat] /\ OutlayCovered'
  BY <1>4, <1>7, OutlayGrows
<1>9. BillingTypeOK'
  BY <1>4, TradeTypeOK
<1> QED BY <1>4, <1>8, <1>9 DEF DeskInv, DeskTypeOK

LEMMA CreateKeepsInv ==
    ASSUME DeskInv, NEW a \in Agents, NEW sponsor \in SponsorLamports,
           NEW payer \in Relayers \cup {NoAccount}, AgentCreates(a, sponsor, payer)
    PROVE  DeskInv'
<1>0. /\ DeskTypeOK /\ RentFloors /\ outlay \in [Agents -> Nat]
      /\ tokens \in [Holders -> [Mints -> Nat]]
  BY DeskFacts DEF DeskInv
<1>1. PICK maxSolCost \in Lamports, cost \in Lamports \cup {0} :
           PumpCreate(a, maxSolCost, cost, sponsor, payer) /\ UNCHANGED outlay
  BY DEF AgentCreates
<1>2. maxSolCost \in Nat /\ CreatePaid(a, maxSolCost)
  BY <1>0, <1>1, CreatePays, DeskFacts
<1>3. /\ sol' \in [Accounts -> Nat] /\ RentFloors' /\ CheckGrant(a, maxSolCost)
      /\ UNCHANGED <<now, tokens, vaultOpen, paymaster, billingVars>>
  BY <1>2 DEF CreatePaid
<1> DEFINE taken == 0
<1>4. /\ outlay' = [outlay EXCEPT ![a] = outlay[a] + taken]
      /\ taken \in Nat /\ taken <= maxSolCost
  BY <1>0, <1>1, <1>2
<1> HIDE DEF taken
<1>5. outlay' \in [Agents -> Nat] /\ OutlayCovered'
  BY <1>2, <1>3, <1>4, OutlayGrows
<1>6. BillingTypeOK'
  BY <1>0, <1>2, <1>3, TradeTypeOK
<1> QED BY <1>3, <1>5, <1>6 DEF DeskInv, DeskTypeOK

LEMMA PayKeepsInv ==
    ASSUME DeskInv, NEW a \in Agents, NEW sponsor \in SponsorLamports,
           NEW payer \in Relayers \cup {NoAccount}, AgentPays(a, sponsor, payer)
    PROVE  DeskInv'
<1>0. BillingTypeOK /\ RentFloors /\ outlay \in [Agents -> Nat]
  BY DEF DeskInv, DeskTypeOK
<1>1. PICK m \in Merchants, mint \in Mints, amount \in TokenAmounts :
           PayToken(a, m, mint, amount, sponsor, payer) /\ Took(a, amount)
  BY DEF AgentPays
<1>2. amount \in Nat /\ amount <= amount
  BY BillingAssumption
<1>3. CheckGrant(a, amount) /\ outlay' = [outlay EXCEPT ![a] = outlay[a] + amount]
  BY <1>0, <1>1 DEF PayToken, MeteredTransfer, Took
<1>4. outlay' \in [Agents -> Nat] /\ OutlayCovered'
  BY <1>2, <1>3, OutlayGrows
<1>5. [BillingNext]_paymentVars
  BY <1>1, DeskPayIsBilling
<1>6. BillingTypeOK' /\ RentFloors'
  BY <1>0, <1>5, StepTypeOK, RentFloorsStep
<1> QED BY <1>4, <1>6 DEF DeskInv, DeskTypeOK

LEMMA DeskInvStep == DeskInv /\ [DeskNext]_deskVars => DeskInv'
<1> SUFFICES ASSUME DeskInv, [DeskNext]_deskVars PROVE DeskInv'
  OBVIOUS
<1>0. /\ BillingTypeOK /\ CustodyTypeOK /\ CoreTypeOK /\ RentFloors
      /\ outlay \in [Agents -> Nat] /\ OutlayCovered /\ SpendWithinCap
  BY DEF DeskInv, DeskTypeOK, BillingTypeOK, OutlayCovered, SpendWithinCap
<1>1. ASSUME UNCHANGED outlay, [BillingNext]_paymentVars,
             \A a \in Agents : grants'[a].spent = grants[a].spent
      PROVE  DeskInv'
  <2>1. BillingTypeOK' /\ RentFloors' /\ SpendWithinCap'
    BY <1>0, <1>1, StepTypeOK, RentFloorsStep, SpendStep
  <2>2. OutlayCovered'
    BY <1>0, <1>1, <2>1 DEF OutlayCovered, SpendWithinCap
  <2> QED BY <1>0, <1>1, <2>1, <2>2 DEF DeskInv, DeskTypeOK
<1>2. CASE DeskAdmin /\ UNCHANGED <<coreVars, billingVars, outlay>>
  <2>1. GoodCustodyStep
    BY <1>0, <1>2, DeskAdminIsCustody, CustodyMoves
  <2>2. CustodyTypeOK' /\ RentFloors'
    BY <1>0, <2>1, CustodyStepKeepsType, CustodyStep
  <2>3. CoreTypeOK' /\ UNCHANGED grants /\ UNCHANGED billingVars
    BY <1>0, <1>2 DEF CoreTypeOK, coreVars
  <2>4. BillingTypeOK'
    BY <1>0, <2>2, <2>3 DEF BillingTypeOK, billingVars
  <2>5. OutlayCovered'
    BY <1>0, <1>2, <2>3 DEF OutlayCovered
  <2> QED BY <1>0, <1>2, <2>2, <2>4, <2>5 DEF DeskInv, DeskTypeOK
<1>3. ASSUME NEW mint \in Mints, InitMerchantRegistry(mint), UNCHANGED outlay
      PROVE  DeskInv'
  <2>1. BillingNext /\ UNCHANGED grants
    BY <1>3 DEF BillingNext, BillingAdmin, InitMerchantRegistry, coreVars
  <2> QED BY <1>1, <1>3, <2>1
<1>4. ASSUME NEW m \in Merchants, AddMerchant(m), UNCHANGED outlay
      PROVE  DeskInv'
  <2>1. BillingNext /\ UNCHANGED grants
    BY <1>4 DEF BillingNext, BillingAdmin, AddMerchant, coreVars
  <2> QED BY <1>1, <1>4, <2>1
<1>5. CASE CoreNext /\ UNCHANGED <<custodyVars, billingVars, outlay>>
  <2>1. BillingNext /\ \A a \in Agents : grants'[a].spent = grants[a].spent
    BY <1>0, <1>5, CoreStepKeepsSpent DEF BillingNext
  <2> QED BY <1>1, <1>5, <2>1
<1>6. CASE UNCHANGED deskVars
  <2>1. UNCHANGED paymentVars /\ UNCHANGED outlay /\ UNCHANGED grants
    BY <1>6 DEF deskVars, paymentVars, coreVars
  <2> QED BY <1>1, <2>1
<1> QED BY <1>2, <1>3, <1>4, <1>5, <1>6, TradeKeepsInv, PayKeepsInv, CreateKeepsInv DEF DeskNext

-----------------------------------------------------------------------------
\* The invariant above holds in every reachable state.
THEOREM DeskInvariance == DeskSpec => []DeskInv
<1>1. DeskInit => DeskInv
  BY DeskInvInit
<1>2. DeskInv /\ [DeskNext]_deskVars => DeskInv'
  BY DeskInvStep
<1> QED BY <1>1, <1>2, PTL DEF DeskSpec

\* Every reachable state of the trading desk is well typed.
THEOREM DeskTypeCorrect == DeskSpec => []DeskTypeOK
<1>1. DeskInv => DeskTypeOK
  BY DEF DeskInv
<1> QED BY <1>1, DeskInvariance, PTL

\* What an agent's trades and payments really took was metered beforehand and
\* within its cap, however it mixes assets, wraps SOL, or has its cap revised
\* (OutlayCovered).
THEOREM OutlaysAreCovered == DeskSpec => []OutlayCovered
<1>1. DeskInv => OutlayCovered
  BY DEF DeskInv
<1> QED BY <1>1, DeskInvariance, PTL

\* Neither trades nor creations take the vault or the paymaster below its rent
\* (RentFloors).
THEOREM DeskKeepsRentFloors == DeskSpec => []RentFloors
<1>1. DeskInv => RentFloors
  BY DEF DeskInv
<1> QED BY <1>1, DeskInvariance, PTL

\* No trade takes more of its input than its caller allowed, or brings less of
\* its output than the minimum it named (TradeHoldsItsBounds).
THEOREM TradesHoldTheirBounds == DeskSpec => TradeHoldsItsBounds
<1> DEFINE Bounded ==
        \A a \in Agents, input, output \in Mints, wrap \in BOOLEAN,
           amount \in Lamports, minOut \in MinOuts,
           sponsor \in SponsorLamports, payer \in Relayers \cup {NoAccount} :
          Trade(a, input, output, wrap, amount, minOut,
                tokens'[TraderPda][input], tokens'[TraderPda][output], sponsor, payer)
          => /\ Holding(input) - Holding(input)' <= amount
             /\ minOut > 0 => Holding(output)' - Holding(output) >= minOut
<1>1. DeskInv /\ [DeskNext]_deskVars => [Bounded]_deskVars
  <2> SUFFICES ASSUME DeskInv, [DeskNext]_deskVars PROVE Bounded
    OBVIOUS
  <2>1. DeskTypeOK /\ RentFloors /\ DeskTypeOK'
    BY DeskInvStep DEF DeskInv
  <2>2. /\ tokens' \in [Holders -> [Mints -> Nat]] /\ TraderPda \in Holders
    BY <2>1, DeskFacts DEF DeskTypeOK, BillingTypeOK, CustodyTypeOK
  <2> SUFFICES ASSUME NEW a \in Agents, NEW input \in Mints, NEW output \in Mints,
                      NEW wrap \in BOOLEAN, NEW amount \in Lamports, NEW minOut \in MinOuts,
                      NEW sponsor \in SponsorLamports, NEW payer \in Relayers \cup {NoAccount},
                      Trade(a, input, output, wrap, amount, minOut,
                            tokens'[TraderPda][input], tokens'[TraderPda][output],
                            sponsor, payer)
               PROVE  /\ Holding(input) - Holding(input)' <= amount
                      /\ minOut > 0 => Holding(output)' - Holding(output) >= minOut
    OBVIOUS
  <2>3. tokens'[TraderPda][input] \in Nat /\ tokens'[TraderPda][output] \in Nat
    BY <2>2
  <2> QED BY <2>1, <2>3, TradeBounds
<1> QED BY <1>1, DeskInvariance, PTL DEF DeskSpec, TradeHoldsItsBounds

\* No trade or payment costs the trader its rent (TraderStaysReady).
THEOREM TradesLeaveTheTraderReady == DeskSpec => TraderStaysReady
<1>1. DeskInv /\ [DeskNext]_deskVars =>
        [TraderReady /\ tokens' # tokens => TraderReady']_deskVars
  <2> SUFFICES ASSUME DeskInv, [DeskNext]_deskVars, TraderReady, tokens' # tokens
               PROVE  TraderReady'
    OBVIOUS
  <2>0. /\ DeskTypeOK /\ RentFloors /\ CustodyTypeOK
        /\ sol \in [Accounts -> Nat] /\ TraderPda \in Accounts /\ TraderRent \in Nat
        /\ sol[TraderPda] >= TraderRent
    BY DeskFacts DEF DeskInv, TraderReady
  <2>1. ASSUME NEW a \in Agents, NEW sponsor \in SponsorLamports,
               NEW payer \in Relayers \cup {NoAccount}, AgentTrades(a, sponsor, payer)
        PROVE  TraderReady'
    <3>1. PICK input \in Mints, output \in Mints, wrap \in BOOLEAN, amount \in Lamports,
               minOut \in MinOuts, sourceAfter \in 0 .. MaxTokens, destAfter \in 0 .. MaxTokens :
            Trade(a, input, output, wrap, amount, minOut, sourceAfter, destAfter, sponsor, payer)
      BY <2>1 DEF AgentTrades
    <3>2. sourceAfter \in Nat /\ destAfter \in Nat
      BY <2>0, DeskFacts
    <3>3. TradePaid(a, input, wrap, amount)
      BY <2>0, <3>1, <3>2, TradePays
    <3> QED BY <3>3 DEF TradePaid, TraderReady
  <2>2. ASSUME NEW a \in Agents, NEW sponsor \in SponsorLamports,
               NEW payer \in Relayers \cup {NoAccount}, AgentPays(a, sponsor, payer)
        PROVE  TraderReady'
    <3>1. /\ SponsorAsked(sponsor, payer) /\ CanReimburse(sol, grants[a], sponsor, payer)
          /\ sol' = Reimbursed(sol, sponsor, payer)
      BY <2>2 DEF AgentPays, PayToken
    <3>2. sol'[TraderPda] = sol[TraderPda]
      BY <2>0, <3>1, ReimbursedAt
    <3> QED BY <2>0, <3>2 DEF TraderReady
  <2>3. CASE DeskAdmin
    <3>1. UNCHANGED sol \/ SomeAdminMove
      BY <2>0, <2>3, DeskAdminIsCustody, CustodyMoves DEF GoodCustodyStep
    <3>2. CASE UNCHANGED sol
      BY <2>0, <3>2 DEF TraderReady
    <3>3. CASE SomeAdminMove
      <4>1. PICK from \in Accounts, to \in Accounts, amount \in Nat, floor \in Nat :
                 AdminMove(from, to, amount, floor)
        BY <3>3 DEF SomeAdminMove
      <4>2. /\ from # to /\ sol[from] - amount >= floor /\ sol[from] >= amount
            /\ sol' = Moved(sol, from, to, amount)
            /\ from = TraderPda => floor = TraderRent
        BY <2>0, <4>1 DEF AdminMove
      <4>3. /\ sol'[from] = sol[from] - amount
            /\ sol'[to] = sol[to] + amount
            /\ \A x \in Accounts \ {from, to} : sol'[x] = sol[x]
        BY <2>0, <4>2, MovedAt
      <4> QED BY <2>0, <4>2, <4>3 DEF TraderReady
    <3> QED BY <3>1, <3>2, <3>3
  <2>4. ASSUME NEW a \in Agents, NEW sponsor \in SponsorLamports,
               NEW payer \in Relayers \cup {NoAccount}, AgentCreates(a, sponsor, payer)
        PROVE  FALSE
    BY <2>4 DEF AgentCreates, PumpCreate
  <2> QED BY <2>1, <2>2, <2>3, <2>4
          DEF DeskNext, InitMerchantRegistry, AddMerchant, custodyVars, deskVars, paymentVars
<1> QED BY <1>1, DeskInvariance, PTL DEF DeskSpec, TraderStaysReady

-----------------------------------------------------------------------------
\* What selling one unit of mint for one unit of SOL leaves of every variable.
SaleOfOne(mint) ==
    /\ tokens' = [tokens EXCEPT ![TraderPda][mint] = @ - 1, ![TraderPda][Wsol] = @ + 1]
    /\ UNCHANGED <<coreVars, sol, vaultOpen, paymaster, billingVars>>

\* SoftKillStillSells without ENABLED: from every reachable state where an
\* agent has no budget left, Trade leads to the state where one unit of a
\* token the trader holds was sold, for nothing metered.
THEOREM SoftKilledAgentCanSell ==
    ASSUME DeskInv, NEW a \in Agents, NEW mint \in Mints \ {Wsol},
           Live(grants[a]), grants[a].spent = grants[a].cap,
           vaultOpen, TraderReady, tokens[TraderPda][mint] > 0, SaleOfOne(mint)
    PROVE  Trade(a, mint, Wsol, FALSE, 1, 1, tokens[TraderPda][mint] - 1,
                 tokens[TraderPda][Wsol] + 1, 0, NoAccount)
<1>1. /\ tokens \in [Holders -> [Mints -> Nat]] /\ TraderPda \in Holders
      /\ Wsol \in Mints /\ mint # Wsol
      /\ grants \in [Agents -> Grant]
  BY DeskFacts, AccountsDiffer, DeskAssumption DEF DeskInv, CoreTypeOK
<1>2. SponsorAsked(0, NoAccount)
  BY CustodyAssumption DEF SponsorAsked
<1>3. CheckGrant(a, GrantAmount(mint, FALSE, 1))
  <2>1. GrantAmount(mint, FALSE, 1) = 0
    BY <1>1 DEF GrantAmount
  <2>2. grants[a].spent \in Nat /\ grants[a].cap \in Nat
    BY <1>1 DEF Grant
  <2>3. grants' = [grants EXCEPT ![a].spent = @ + 0]
    <3>1. grants[a].spent + 0 = grants[a].spent
      BY <2>2
    <3>2. [grants[a] EXCEPT !.spent = grants[a].spent] = grants[a]
      BY <1>1 DEF Grant
    <3>3. [grants EXCEPT ![a] = grants[a]] = grants
      BY <1>1
    <3>4. [grants EXCEPT ![a].spent = @ + 0] = grants
      BY <3>1, <3>2, <3>3, Zenon
    <3>5. grants' = grants
      BY DEF SaleOfOne, coreVars
    <3> QED BY <3>4, <3>5, Zenon
  <2>4. GrantAllows(grants[a], 0)
    BY <2>2 DEF GrantAllows
  <2>5. CheckGrant(a, 0)
    BY <2>3, <2>4, Zenon DEF CheckGrant
  <2> QED BY <2>1, <2>5, Zenon
<1>4. OutcomeAccepted(Available(mint, FALSE, 1), tokens[TraderPda][mint] - 1,
                      tokens[TraderPda][Wsol], tokens[TraderPda][Wsol] + 1, 1, 1)
  <2>1. tokens[TraderPda][mint] \in Nat /\ tokens[TraderPda][Wsol] \in Nat
    BY <1>1
  <2> QED BY <2>1 DEF OutcomeAccepted, Available, SaturatingSub
<1>5. /\ tokens' = [tokens EXCEPT ![TraderPda][mint] = tokens[TraderPda][mint] - 1,
                                  ![TraderPda][Wsol] = tokens[TraderPda][Wsol] + 1]
      /\ sol' = Reimbursed(sol, 0, NoAccount)
      /\ CanReimburse(sol, grants[a], 0, NoAccount)
  BY <1>1 DEF SaleOfOne, Reimbursed, CanReimburse
<1> QED BY <1>1, <1>2, <1>3, <1>4, <1>5 DEF Trade, SaleOfOne, coreVars
=============================================================================
