--------------------------- MODULE IntentsProofs ---------------------------
(***************************************************************************)
(* What is proved about the SOL intents and the root's custody operations, *)
(* for any number of agents, relayers and wallets, any amounts and any     *)
(* mix of accounts passed twice: the type invariant, that program-owned    *)
(* accounts stay rent exempt and an open trader stays open, and what can   *)
(* make SOL leave the vault and the paymaster.                             *)
(***************************************************************************)
EXTENDS Intents, CustodyProofs, TLAPS

(* The inductive invariant.  The floors need the types, for they compare    *)
(* balances that must be the natural numbers they are typed as; the types   *)
(* do not need the floors, because every debit leaves at least zero.        *)
IntentsInv == IntentsTypeOK /\ RentFloors

LEMMA IntentsInvInit == IntentsInit => IntentsInv
<1> SUFFICES ASSUME IntentsInit PROVE IntentsInv
  OBVIOUS
<1>1. CoreTypeOK
  BY CoreAssumption DEF IntentsInit, CoreInit, CoreTypeOK
<1>2. CustodyTypeOK
  BY CustodyAssumption DEF IntentsInit, CustodyInit, CustodyTypeOK
<1>3. RentFloors
  BY DEF IntentsInit, CustodyInit, RentFloors
<1> QED BY <1>1, <1>2, <1>3 DEF IntentsInv, IntentsTypeOK

-----------------------------------------------------------------------------
(* One form for every intent.                                              *)

\* Balances an intent may leave when it charges the grant and the vault alike:
\* well typed, above the rent floors, with an open trader still open, and
\* nothing taken from the paymaster.
FairBalances(bal, charge) ==
    /\ Covered(bal, VaultFloor, PaymasterFloor)
    /\ ReadyOn(sol) => ReadyOn(bal)
    /\ bal[VaultPda] = sol[VaultPda] - charge
    /\ bal[PaymasterPda] >= sol[PaymasterPda]

\* What CORE charges is what the vault pays; the relayer is reimbursed last.
IntentStep(a, charge, bal, sponsor, payer) ==
    /\ SponsorAsked(sponsor, payer)
    /\ vaultOpen
    /\ CheckGrant(a, charge)
    /\ FairBalances(bal, charge)
    /\ Settle(a, bal, sponsor, payer)

LEMMA NoDebitIsFair == IntentsInv => FairBalances(sol, 0)
BY AccountsDiffer, FloorsCover
   DEF IntentsInv, IntentsTypeOK, FairBalances, CustodyTypeOK

LEMMA VaultDebitIsFair ==
    ASSUME IntentsInv, vaultOpen, NEW recipient \in Accounts, NEW amount \in Nat,
           CanDebitVault(recipient, amount)
    PROVE  FairBalances(Debited(recipient, amount), amount)
<1> DEFINE bal == Debited(recipient, amount)
<1>0. /\ sol \in [Accounts -> Nat] /\ CustodyTypeOK
      /\ Covered(sol, VaultFloor, PaymasterFloor)
      /\ VaultFloor = VaultRent /\ PaymasterFloor \in Nat
  BY FloorsCover DEF IntentsInv, IntentsTypeOK, CustodyTypeOK, VaultFloor
<1>1. /\ sol[VaultPda] - amount >= VaultRent
      /\ VaultPda # recipient
      /\ bal = Moved(sol, VaultPda, recipient, amount)
  BY DEF CanDebitVault, MoveSucceeds, CanMove, Balanced, Debited
<1> HIDE DEF bal
<1>2. sol[VaultPda] >= amount
  BY <1>0, <1>1, AccountsDiffer
<1>3. /\ bal[VaultPda] = sol[VaultPda] - amount
      /\ bal[recipient] = sol[recipient] + amount
      /\ \A x \in Accounts \ {VaultPda, recipient} : bal[x] = sol[x]
  BY <1>0, <1>1, <1>2, AccountsDiffer, MovedAt
<1>4. bal[PaymasterPda] >= sol[PaymasterPda]
  BY <1>0, <1>3, AccountsDiffer
<1>5. Covered(bal, VaultFloor, PaymasterFloor) /\ (ReadyOn(sol) => ReadyOn(bal))
  BY <1>0, <1>1, AccountsDiffer, MoveKeepsCovered
<1> QED BY <1>3, <1>4, <1>5 DEF FairBalances, bal

\* What an invoked program does on top of the debit takes nothing from custody.
LEMMA InvocationIsFair ==
    ASSUME IntentsInv, NEW bal, NEW charge \in Nat, FairBalances(bal, charge),
           NEW from, NEW to \in Accounts, NEW inner \in Nat, NEW payer,
           Invoked(bal, from, to, inner, payer)
    PROVE  FairBalances(Moved(bal, from, to, inner), charge)
<1> DEFINE end == Moved(bal, from, to, inner)
<1>0. /\ bal \in [Accounts -> Nat] /\ VaultFloor \in Nat /\ PaymasterFloor \in Nat
      /\ Covered(bal, VaultFloor, PaymasterFloor)
  BY FloorsCover DEF IntentsInv, IntentsTypeOK, FairBalances, Covered
<1>1. /\ from \in Accounts /\ from # VaultPda /\ from # PaymasterPda /\ from # TraderPda
      /\ from # to /\ to # VaultPda
      /\ bal[from] - inner >= 0
  BY AccountsDiffer DEF Invoked, MoveSucceeds, CanMove, Balanced
<1>2. bal[from] >= inner
  BY <1>0, <1>1
<1>3. /\ end[to] = bal[to] + inner
      /\ \A x \in Accounts \ {from, to} : end[x] = bal[x]
  BY <1>0, <1>1, <1>2, MovedAt
<1>4. Covered(end, VaultFloor, PaymasterFloor) /\ (ReadyOn(bal) => ReadyOn(end))
  BY <1>0, <1>1, MoveKeepsCovered
<1> HIDE DEF end
<1>5. end[VaultPda] = bal[VaultPda] /\ end[PaymasterPda] >= bal[PaymasterPda]
  BY <1>0, <1>1, <1>3, AccountsDiffer
<1>6. sol[PaymasterPda] \in Nat /\ bal[PaymasterPda] \in Nat /\ end[PaymasterPda] \in Nat
  BY <1>0, <1>4, AccountsDiffer DEF IntentsInv, IntentsTypeOK, CustodyTypeOK, Covered
<1>7. end[PaymasterPda] >= sol[PaymasterPda]
  BY <1>5, <1>6 DEF FairBalances
<1> QED BY <1>4, <1>5, <1>7 DEF FairBalances, end

LEMMA IntentsHaveOneForm ==
    ASSUME IntentsInv, NEW a \in Agents, NEW sponsor \in SponsorLamports,
           NEW payer \in Relayers \cup {NoAccount}, IntentByAgent(a, sponsor, payer)
    PROVE  \E charge \in Nat, bal \in [Accounts -> Nat] : IntentStep(a, charge, bal, sponsor, payer)
<1> SUFFICES \E charge \in Nat : \E bal : IntentStep(a, charge, bal, sponsor, payer)
  BY DEF IntentStep, FairBalances, Covered
<1>1. ASSUME NEW recipient \in Accounts, NEW amount \in Lamports,
             Pay(a, recipient, amount, sponsor, payer)
      PROVE  IntentStep(a, amount, Debited(recipient, amount), sponsor, payer)
  BY <1>1, AccountsDiffer, VaultDebitIsFair DEF Pay, IntentStep
<1>2. ASSUME Deploy(a, sponsor, payer)
      PROVE  IntentStep(a, 0, sol, sponsor, payer)
  BY <1>2, NoDebitIsFair DEF Deploy, IntentStep
<1>3. ASSUME NEW recipient \in Accounts, NEW to \in Accounts, NEW amount \in Lamports \cup {0},
             NEW from \in Relayers \cup {NoAccount}, NEW inner \in Lamports,
             Call(a, recipient, amount, from, to, inner, sponsor, payer)
      PROVE  \E bal : IntentStep(a, amount, bal, sponsor, payer)
  <2> DEFINE debited == IF amount > 0 THEN Debited(recipient, amount) ELSE sol
  <2>1. amount \in Nat /\ inner \in Nat
    BY AccountsDiffer
  <2>2. /\ SponsorAsked(sponsor, payer) /\ vaultOpen /\ CheckGrant(a, amount)
        /\ amount > 0 => CanDebitVault(recipient, amount)
        /\ IF from = NoAccount
           THEN Settle(a, debited, sponsor, payer)
           ELSE /\ Invoked(debited, from, to, inner, payer)
                /\ Settle(a, Moved(debited, from, to, inner), sponsor, payer)
    BY <1>3 DEF Call
  <2>3. FairBalances(debited, amount)
    <3>1. CASE amount > 0
      BY <2>1, <2>2, <3>1, VaultDebitIsFair
    <3>2. CASE amount = 0
      BY <3>2, NoDebitIsFair
    <3> QED BY <2>1, <3>1, <3>2
  <2> HIDE DEF debited
  <2>4. CASE from = NoAccount
    BY <2>2, <2>3, <2>4 DEF IntentStep
  <2>5. CASE from # NoAccount
    <3>1. FairBalances(Moved(debited, from, to, inner), amount)
      BY <2>1, <2>2, <2>3, <2>5, InvocationIsFair
    <3> QED BY <2>2, <2>5, <3>1 DEF IntentStep
  <2> QED BY <2>4, <2>5
<1>4. CASE \E recipient \in Accounts, amount \in Lamports :
              \/ Pay(a, recipient, amount, sponsor, payer)
              \/ \E minOut \in MinOuts : Swap(a, recipient, amount, minOut, sponsor, payer)
  <2>1. PICK recipient \in Accounts, amount \in Lamports : Pay(a, recipient, amount, sponsor, payer)
    BY <1>4 DEF Swap
  <2> QED BY <1>1, <2>1, AccountsDiffer
<1>5. CASE Deploy(a, sponsor, payer)
  BY <1>2, <1>5
<1>6. CASE \E recipient, to \in Accounts, amount \in Lamports \cup {0},
              from \in Relayers \cup {NoAccount}, inner \in Lamports :
              Call(a, recipient, amount, from, to, inner, sponsor, payer)
  <2>1. PICK recipient \in Accounts, to \in Accounts, amount \in Lamports \cup {0},
             from \in Relayers \cup {NoAccount}, inner \in Lamports :
             Call(a, recipient, amount, from, to, inner, sponsor, payer)
    BY <1>6
  <2>2. \E bal : IntentStep(a, amount, bal, sponsor, payer)
    BY <1>3, <2>1
  <2> QED BY <2>2, AccountsDiffer
<1> QED BY <1>4, <1>5, <1>6 DEF IntentByAgent

\* What such a step leaves.
LEMMA IntentStepEnd ==
    ASSUME IntentsInv, NEW a \in Agents, NEW charge \in Nat, NEW bal \in [Accounts -> Nat],
           NEW sponsor \in SponsorLamports, NEW payer \in Relayers \cup {NoAccount},
           IntentStep(a, charge, bal, sponsor, payer)
    PROVE  /\ IntentsInv'
           /\ TraderReady => TraderReady'
           /\ sol'[VaultPda] = sol[VaultPda] - charge
           /\ sol'[PaymasterPda] >= sol[PaymasterPda] - sponsor
<1>0. /\ CoreTypeOK /\ CustodyTypeOK /\ sol \in [Accounts -> Nat]
      /\ VaultFloor \in Nat /\ PaymasterFloor \in Nat /\ PaymasterFloor <= PaymasterRent
  BY FloorsCover DEF IntentsInv, IntentsTypeOK, CustodyTypeOK
<1>1. /\ SponsorAsked(sponsor, payer)
      /\ CanReimburse(bal, grants[a], sponsor, payer)
      /\ sol' = Reimbursed(bal, sponsor, payer)
      /\ UNCHANGED <<now, tokens, vaultOpen, paymaster>>
      /\ FairBalances(bal, charge)
  BY DEF IntentStep, Settle
<1>2. /\ Covered(sol', VaultFloor, PaymasterFloor)
      /\ ReadyOn(sol) => ReadyOn(sol')
      /\ sol'[VaultPda] = bal[VaultPda]
      /\ sol'[PaymasterPda] = bal[PaymasterPda] - sponsor
  <2>1. Covered(bal, VaultFloor, PaymasterFloor) /\ (ReadyOn(sol) => ReadyOn(bal))
    BY <1>1 DEF FairBalances
  <2>2. SponsorAsked(sponsor, payer) /\ CanReimburse(bal, grants[a], sponsor, payer)
    BY <1>1
  <2>3. Covered(sol', VaultFloor, PaymasterFloor) /\ (ReadyOn(sol) => ReadyOn(sol'))
    BY <1>0, <1>1, <2>1, <2>2, ReimbursedKeepsCovered
  <2>4. sol'[VaultPda] = bal[VaultPda] /\ sol'[PaymasterPda] = bal[PaymasterPda] - sponsor
    BY <1>1, <2>2, ReimbursedAt
  <2> QED BY <2>3, <2>4
<1>3. CoreTypeOK'
  BY <1>0, <1>1, CheckGrantCharges DEF IntentStep, CoreTypeOK
<1>4. CustodyTypeOK'
  BY <1>0, <1>1, <1>2 DEF CustodyTypeOK, Covered
<1>5. RentFloors'
  BY <1>1, <1>2 DEF RentFloors, Covered, VaultFloor, PaymasterFloor
<1>6. TraderReady => TraderReady'
  BY <1>2 DEF TraderReady, ReadyOn
<1>7. /\ sol'[VaultPda] = sol[VaultPda] - charge
      /\ sol'[PaymasterPda] >= sol[PaymasterPda] - sponsor
  BY <1>0, <1>1, <1>2, AccountsDiffer DEF FairBalances
<1> QED BY <1>3, <1>4, <1>5, <1>6, <1>7 DEF IntentsInv, IntentsTypeOK

-----------------------------------------------------------------------------
LEMMA IntentsInvStep == IntentsInv /\ [IntentsNext]_intentVars => IntentsInv'
<1> SUFFICES ASSUME IntentsInv, [IntentsNext]_intentVars PROVE IntentsInv'
  OBVIOUS
<1>0. CoreTypeOK /\ CustodyTypeOK /\ RentFloors
  BY DEF IntentsInv, IntentsTypeOK
<1>1. ASSUME NEW a \in Agents, NEW sponsor \in SponsorLamports,
             NEW payer \in Relayers \cup {NoAccount}, IntentByAgent(a, sponsor, payer)
      PROVE  IntentsInv'
  <2>1. PICK charge \in Nat, bal \in [Accounts -> Nat] : IntentStep(a, charge, bal, sponsor, payer)
    BY <1>1, IntentsHaveOneForm
  <2> QED BY <2>1, IntentStepEnd
<1>2. CASE CustodyNext /\ UNCHANGED coreVars
  <2>1. CustodyTypeOK' /\ RentFloors'
    BY <1>0, <1>2, CustodyMoves, CustodyStepKeepsType, CustodyStep
  <2>2. CoreTypeOK'
    BY <1>0, <1>2 DEF CoreTypeOK, coreVars
  <2> QED BY <2>1, <2>2 DEF IntentsInv, IntentsTypeOK
<1>3. CASE CoreNext /\ UNCHANGED custodyVars
  <2>1. CoreTypeOK'
    BY <1>0, <1>3, CoreStepKeepsType
  <2> QED BY <1>3, <2>1 DEF custodyVars, IntentsInv, IntentsTypeOK, CustodyTypeOK, RentFloors
<1>4. CASE UNCHANGED intentVars
  BY <1>4 DEF intentVars, coreVars, custodyVars, IntentsInv, IntentsTypeOK, CoreTypeOK,
              CustodyTypeOK, RentFloors
<1> QED BY <1>1, <1>2, <1>3, <1>4 DEF IntentsNext

\* The invariant above holds in every reachable state.
THEOREM IntentsInvariance == IntentsSpec => []IntentsInv
<1>1. IntentsInit => IntentsInv
  BY IntentsInvInit
<1>2. IntentsInv /\ [IntentsNext]_intentVars => IntentsInv'
  BY IntentsInvStep
<1> QED BY <1>1, <1>2, PTL DEF IntentsSpec

\* Every reachable state of the intents is well typed: no balance goes negative
\* whichever accounts a caller passes (IntentsTypeOK).
THEOREM IntentsTypeCorrect == IntentsSpec => []IntentsTypeOK
<1>1. IntentsInv => IntentsTypeOK
  BY DEF IntentsInv
<1> QED BY <1>1, IntentsInvariance, PTL

\* The spend vault and the paymaster always keep their rent (RentFloors).
THEOREM CustodyStaysRentExempt == IntentsSpec => []RentFloors
<1>1. IntentsInv => RentFloors
  BY DEF IntentsInv
<1> QED BY <1>1, IntentsInvariance, PTL

\* One step of the intents leaves an open trader open.
LEMMA TraderStep == IntentsInv /\ [IntentsNext]_intentVars /\ TraderReady => TraderReady'
<1> SUFFICES ASSUME IntentsInv, [IntentsNext]_intentVars, TraderReady PROVE TraderReady'
  OBVIOUS
<1>1. ASSUME NEW a \in Agents, NEW sponsor \in SponsorLamports,
             NEW payer \in Relayers \cup {NoAccount}, IntentByAgent(a, sponsor, payer)
      PROVE  TraderReady'
  <2>1. PICK charge \in Nat, bal \in [Accounts -> Nat] : IntentStep(a, charge, bal, sponsor, payer)
    BY <1>1, IntentsHaveOneForm
  <2> QED BY <2>1, IntentStepEnd
<1>2. CASE CustodyNext
  <2>1. ReadyOn(sol) => ReadyOn(sol')
    BY <1>2, CustodyMoves, CustodyStep DEF IntentsInv, IntentsTypeOK
  <2> QED BY <2>1 DEF TraderReady, ReadyOn
<1>3. CASE UNCHANGED sol
  BY <1>3 DEF TraderReady
<1> QED BY <1>1, <1>2, <1>3 DEF IntentsNext, intentVars, custodyVars

\* No intent, sponsorship or custody operation ever closes a trader that was
\* initialised (TraderNeverCloses).
THEOREM TraderStaysOpen == IntentsSpec => TraderNeverCloses
<1>1. IntentsInv /\ [IntentsNext]_intentVars => [TraderReady => TraderReady']_intentVars
  BY TraderStep
<1> QED BY <1>1, IntentsInvariance, PTL DEF IntentsSpec, TraderNeverCloses

-----------------------------------------------------------------------------
(* What takes SOL out of the vault and the paymaster.                      *)

\* One step of the intents satisfies the vault's outflow property.
LEMMA VaultOutflowStep ==
    ASSUME IntentsInv, [IntentsNext]_intentVars,
           NEW out \in Int, out = sol[VaultPda] - sol'[VaultPda], out > 0
    PROVE  \/ /\ \E to \in {Root, TraderPda} : sol' = Moved(sol, VaultPda, to, out)
              /\ UNCHANGED grants
           \/ \E a \in Agents :
                 /\ ~grants[a].revoked /\ now < grants[a].expires
                 /\ grants[a].spent + out <= grants[a].cap
                 /\ grants' = [grants EXCEPT ![a].spent = grants[a].spent + out]
<1>0. /\ CoreTypeOK /\ CustodyTypeOK
      /\ sol \in [Accounts -> Nat] /\ VaultPda \in Accounts /\ sol[VaultPda] \in Nat
  BY AccountsDiffer DEF IntentsInv, IntentsTypeOK, CustodyTypeOK
<1>1. ASSUME NEW a \in Agents, NEW sponsor \in SponsorLamports,
             NEW payer \in Relayers \cup {NoAccount}, IntentByAgent(a, sponsor, payer)
      PROVE  /\ ~grants[a].revoked /\ now < grants[a].expires
             /\ grants[a].spent + out <= grants[a].cap
             /\ grants' = [grants EXCEPT ![a].spent = grants[a].spent + out]
  <2>1. PICK charge \in Nat, bal \in [Accounts -> Nat] : IntentStep(a, charge, bal, sponsor, payer)
    BY <1>1, IntentsHaveOneForm
  <2>2. sol'[VaultPda] = sol[VaultPda] - charge
    BY <2>1, IntentStepEnd
  <2>3. out = charge
    BY <1>0, <2>2
  <2> QED BY <1>0, <2>1, <2>3, CheckGrantCharges DEF IntentStep
<1>2. CASE CustodyNext /\ UNCHANGED coreVars
  BY <1>0, <1>2, AdminOutflow DEF coreVars
<1>3. CASE UNCHANGED sol
  BY <1>0, <1>3
<1> QED BY <1>1, <1>2, <1>3 DEF IntentsNext, intentVars, custodyVars

\* SOL leaves the spend vault only to the root, to the trader, or by charging
\* exactly as much to one live grant with room for it (VaultOutflow).
THEOREM VaultPaysOnlyItsOwners == IntentsSpec => VaultOutflow
<1>1. IntentsInv /\ [IntentsNext]_intentVars =>
        [LET out == sol[VaultPda] - sol'[VaultPda]
         IN  out > 0 =>
               \/ /\ sol' = [sol EXCEPT ![VaultPda] = sol[VaultPda] - out, ![Root] = sol[Root] + out]
                  /\ UNCHANGED grants
               \/ /\ sol' = [sol EXCEPT ![VaultPda] = sol[VaultPda] - out,
                                        ![TraderPda] = sol[TraderPda] + out]
                  /\ UNCHANGED grants
               \/ \E a \in Agents :
                     /\ ~grants[a].revoked /\ now < grants[a].expires
                     /\ grants[a].spent + out <= grants[a].cap
                     /\ grants' = [grants EXCEPT ![a].spent = grants[a].spent + out]]_intentVars
  <2> SUFFICES ASSUME IntentsInv, [IntentsNext]_intentVars,
                      NEW out, out = sol[VaultPda] - sol'[VaultPda], out > 0
               PROVE  \/ /\ sol' = Moved(sol, VaultPda, Root, out)
                         /\ UNCHANGED grants
                      \/ /\ sol' = Moved(sol, VaultPda, TraderPda, out)
                         /\ UNCHANGED grants
                      \/ \E a \in Agents :
                            /\ ~grants[a].revoked /\ now < grants[a].expires
                            /\ grants[a].spent + out <= grants[a].cap
                            /\ grants' = [grants EXCEPT ![a].spent = grants[a].spent + out]
    BY DEF Moved
  <2>1. out \in Int
    <3>1. IntentsTypeOK'
      BY IntentsInvStep DEF IntentsInv
    <3> QED BY <3>1, AccountsDiffer DEF IntentsInv, IntentsTypeOK, CustodyTypeOK
  <2> QED BY <2>1, VaultOutflowStep
<1> QED BY <1>1, IntentsInvariance, PTL DEF IntentsSpec, VaultOutflow

\* SOL leaves the paymaster only to the root or, while it is not paused and at
\* most MaxSponsor at a time, in an intent of a live sponsor-eligible agent
\* (SponsorOutflow).
THEOREM PaymasterPaysOnlySponsorships == IntentsSpec => SponsorOutflow
<1>1. IntentsInv /\ [IntentsNext]_intentVars =>
        [LET out == sol[PaymasterPda] - sol'[PaymasterPda]
         IN  out > 0 =>
               \/ sol' = [sol EXCEPT ![PaymasterPda] = sol[PaymasterPda] - out,
                                     ![Root] = sol[Root] + out]
               \/ /\ paymaster.open /\ ~paymaster.paused
                  /\ out <= MaxSponsor
                  /\ \E a \in Agents : /\ grants[a].sponsorEligible
                                       /\ ~grants[a].revoked /\ now < grants[a].expires]_intentVars
  <2> SUFFICES ASSUME IntentsInv, [IntentsNext]_intentVars,
                      NEW out, out = sol[PaymasterPda] - sol'[PaymasterPda], out > 0
               PROVE  \/ sol' = Moved(sol, PaymasterPda, Root, out)
                      \/ /\ paymaster.open /\ ~paymaster.paused
                         /\ out <= MaxSponsor
                         /\ \E a \in Agents : /\ grants[a].sponsorEligible
                                              /\ ~grants[a].revoked
                                              /\ now < grants[a].expires
    BY DEF Moved
  <2>0. /\ CoreTypeOK /\ CustodyTypeOK
        /\ sol[PaymasterPda] \in Nat /\ sol'[PaymasterPda] \in Nat /\ MaxSponsor \in Nat
    BY IntentsInvStep, AccountsDiffer DEF IntentsInv, IntentsTypeOK, CustodyTypeOK
  <2>1. ASSUME NEW a \in Agents, NEW sponsor \in SponsorLamports,
               NEW payer \in Relayers \cup {NoAccount}, IntentByAgent(a, sponsor, payer)
        PROVE  /\ paymaster.open /\ ~paymaster.paused /\ out <= MaxSponsor
               /\ grants[a].sponsorEligible /\ ~grants[a].revoked /\ now < grants[a].expires
    <3>1. PICK charge \in Nat, bal \in [Accounts -> Nat] : IntentStep(a, charge, bal, sponsor, payer)
      BY <2>1, IntentsHaveOneForm
    <3>2. sol'[PaymasterPda] >= sol[PaymasterPda] - sponsor
      BY <3>1, IntentStepEnd
    <3>3. sponsor \in Nat /\ out <= sponsor /\ sponsor > 0
      BY <2>0, <3>2, AccountsDiffer
    <3>4. sponsor <= MaxSponsor /\ paymaster.open
      BY <3>1, <3>3 DEF IntentStep, SponsorAsked
    <3>5. grants[a].sponsorEligible /\ ~paymaster.paused
      BY <3>1, <3>3 DEF IntentStep, Settle, CanReimburse
    <3>6. ~grants[a].revoked /\ now < grants[a].expires
      BY <2>0, <3>1, CheckGrantCharges DEF IntentStep
    <3> QED BY <2>0, <3>3, <3>4, <3>5, <3>6
  <2>2. CASE CustodyNext /\ UNCHANGED coreVars
    BY <2>0, <2>2, AdminOutflow
  <2>3. CASE UNCHANGED sol
    BY <2>0, <2>3
  <2> QED BY <2>1, <2>2, <2>3 DEF IntentsNext, intentVars, custodyVars
<1> QED BY <1>1, IntentsInvariance, PTL DEF IntentsSpec, SponsorOutflow
=============================================================================
