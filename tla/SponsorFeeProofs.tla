-------------------------- MODULE SponsorFeeProofs --------------------------
(***************************************************************************)
(* What is proved about SponsorFee for any token accounts, rates and       *)
(* amounts: the type invariant, that what each GrokAccount collected is    *)
(* burned or still held and the supply is what the accounts hold, and that *)
(* nothing leaves a fee account but by being destroyed, all at once.       *)
(***************************************************************************)
EXTENDS SponsorFee, SumProofs, TLAPS

\* The fee accounts of one GrokAccount.
HeldFor(g) == {acct \in FeeAccounts : AuthorityOf[acct] = g}

(* The inductive invariant.  The types alone are not inductive: that the    *)
(* supply never falls below 0 takes the second half of                      *)
(* CollectedIsBurnedOrHeld, which says it is at least what any one account  *)
(* holds, and so at least what a burn destroys.                             *)
FeeInv ==
    /\ FeeTypeOK
    /\ CollectedIsBurnedOrHeld

LEMMA AccountsFinite ==
    /\ IsFiniteSet(TokenAccounts)
    /\ \A g : IsFiniteSet(HeldFor(g)) /\ HeldFor(g) \subseteq TokenAccounts
BY SponsorFeeAssumption, FS_Subset DEF HeldFor, TokenAccounts

LEMMA BooksDef ==
    CollectedIsBurnedOrHeld <=>
        /\ \A g \in Groks : collected[g] = burned[g] + SumOver(balance, HeldFor(g))
        /\ supply = SumOver(balance, TokenAccounts)
BY DEF CollectedIsBurnedOrHeld, TotalOf, HeldFor

LEMMA FeeInvInit == FeeInit => FeeInv
<1> SUFFICES ASSUME FeeInit PROVE FeeInv
  OBVIOUS
<1>1. balance = InitialBalance /\ InitialBalance \in [TokenAccounts -> Nat]
  BY SponsorFeeAssumption DEF FeeInit
<1>2. SumOver(InitialBalance, TokenAccounts) \in Nat
  BY <1>1, AccountsFinite, SumNat
<1>3. FeeTypeOK
  BY <1>1, <1>2, SponsorFeeAssumption DEF FeeInit, FeeTypeOK
<1>4. ASSUME NEW g \in Groks PROVE SumOver(balance, HeldFor(g)) = 0
  <2>1. \A acct \in HeldFor(g) : balance[acct] = 0
    BY <1>1, SponsorFeeAssumption DEF HeldFor
  <2> QED BY <2>1, AccountsFinite, SumZero
<1>5. /\ \A g \in Groks : collected[g] = burned[g] + SumOver(balance, HeldFor(g))
      /\ supply = SumOver(balance, TokenAccounts)
  BY <1>4 DEF FeeInit
<1> QED BY <1>3, <1>5, BooksDef DEF FeeInv

-----------------------------------------------------------------------------
(* The two operations that touch tokens.                                   *)

LEMMA TransferKeepsInv ==
    ASSUME FeeInv, NEW from \in Wallets, NEW to \in TokenAccounts, NEW amount \in Amounts,
           Transfer(from, to, amount)
    PROVE  FeeInv'
<1>0. /\ amount \in Nat /\ from \in TokenAccounts /\ from # to /\ from \notin FeeAccounts
      /\ balance \in [TokenAccounts -> Nat] /\ balance[from] >= amount
      /\ balance \in [TokenAccounts -> Int]
      /\ collected \in [Groks -> Nat] /\ burned \in [Groks -> Nat] /\ supply \in Nat
      /\ \A acct \in FeeAccounts : AuthorityOf[acct] \in Groks
  BY SponsorFeeAssumption DEF FeeInv, FeeTypeOK, Transfer, TokenAccounts
<1>1. balance' = [balance EXCEPT ![from] = balance[from] - amount,
                                 ![to] = balance[to] + amount]
  BY <1>0 DEF Transfer
<1>2. /\ balance' \in [TokenAccounts -> Nat]
      /\ balance'[to] = balance[to] + amount
      /\ \A acct \in TokenAccounts \ {from, to} : balance'[acct] = balance[acct]
  BY <1>0, <1>1
<1>3. /\ collected' = IF to \in FeeAccounts
                      THEN [collected EXCEPT ![AuthorityOf[to]] = @ + amount] ELSE collected
      /\ UNCHANGED <<config, supply, burned>>
  BY DEF Transfer
<1>4. collected' \in [Groks -> Nat]
  BY <1>0, <1>3
<1>5. FeeTypeOK'
  BY <1>2, <1>3, <1>4 DEF FeeInv, FeeTypeOK
<1>6. supply' = SumOver(balance', TokenAccounts)
  <2>1. SumOver(balance', TokenAccounts) = SumOver(balance, TokenAccounts)
    <3>1. /\ \A x \in TokenAccounts : balance[x] \in Int
          /\ balance'[from] = balance[from] - amount
      BY <1>0, <1>1
    <3>2. amount \in Int /\ IsFiniteSet(TokenAccounts)
      BY <1>0, AccountsFinite
    <3> QED BY <1>0, <1>2, <3>1, <3>2, SumMoved
  <2> QED BY <1>3, <2>1, BooksDef DEF FeeInv
<1>7. ASSUME NEW g \in Groks
      PROVE  collected'[g] = burned'[g] + SumOver(balance', HeldFor(g))
  <2>0. /\ IsFiniteSet(HeldFor(g)) /\ HeldFor(g) \subseteq TokenAccounts
        /\ \A acct \in HeldFor(g) : balance[acct] \in Int
        /\ from \notin HeldFor(g)
    BY <1>0, AccountsFinite DEF HeldFor
  <2>1. collected[g] = burned[g] + SumOver(balance, HeldFor(g)) /\ burned' = burned
    BY <1>3, BooksDef DEF FeeInv
  <2>2. SumOver(balance, HeldFor(g)) \in Int
    BY <2>0, SumType
  <2>3. CASE to \in HeldFor(g)
    <3>1. \A acct \in HeldFor(g) \ {to} : balance'[acct] = balance[acct]
      BY <1>2, <2>0
    <3>2. balance'[to] \in Int
      BY <1>2
    <3>3. SumOver(balance', HeldFor(g))
            = SumOver(balance, HeldFor(g)) + (balance'[to] - balance[to])
      BY <2>0, <2>3, <3>1, <3>2, SumChange
    <3>4. to \in FeeAccounts /\ AuthorityOf[to] = g
      BY <2>3 DEF HeldFor
    <3>5. collected'[g] = collected[g] + amount
      BY <1>0, <1>3, <3>4
    <3>6. balance[to] \in Int
      BY <1>0
    <3> QED BY <1>0, <1>2, <2>1, <2>2, <3>3, <3>5, <3>6
  <2>4. CASE to \notin HeldFor(g)
    <3>1. \A acct \in HeldFor(g) : balance'[acct] = balance[acct]
      BY <1>2, <2>0, <2>4
    <3>2. SumOver(balance', HeldFor(g)) = SumOver(balance, HeldFor(g))
      BY <2>0, <3>1, SumEqual
    <3>3. collected'[g] = collected[g]
      BY <1>0, <1>3, <2>4 DEF HeldFor
    <3> QED BY <2>1, <3>2, <3>3
  <2> QED BY <2>3, <2>4
<1>8. /\ \A g \in Groks : collected'[g] = burned'[g] + SumOver(balance', HeldFor(g))
      /\ supply' = SumOver(balance', TokenAccounts)
  BY <1>6, <1>7
<1> QED BY <1>5, <1>8, BooksDef DEF FeeInv, CollectedIsBurnedOrHeld, TotalOf, HeldFor

\* What a burn does to the accounts.
LEMMA BurnStep ==
    ASSUME FeeTypeOK, NEW g \in Groks, NEW acct \in TokenAccounts, Burn(g, acct)
    PROVE  /\ acct \in HeldFor(g)
           /\ balance' = [balance EXCEPT ![acct] = 0]
           /\ supply' = supply - balance[acct]
           /\ burned' = [burned EXCEPT ![g] = burned[g] + balance[acct]]
           /\ UNCHANGED <<config, collected>>
<1>1. /\ acct \in FeeAccounts /\ AuthorityOf[acct] = g
      /\ balance' = [balance EXCEPT ![acct] = balance[acct] - balance[acct]]
      /\ supply' = supply - balance[acct]
      /\ burned' = [burned EXCEPT ![g] = burned[g] + balance[acct]]
      /\ UNCHANGED <<config, collected>>
  BY DEF Burn, MayBurn, Burned, FeeTypeOK
<1>2. balance[acct] - balance[acct] = 0
  BY DEF FeeTypeOK
<1> QED BY <1>1, <1>2 DEF HeldFor

LEMMA BurnKeepsInv ==
    ASSUME FeeInv, NEW g \in Groks, NEW acct \in TokenAccounts, Burn(g, acct)
    PROVE  FeeInv'
<1>0. /\ FeeTypeOK
      /\ balance \in [TokenAccounts -> Nat] /\ burned \in [Groks -> Nat] /\ supply \in Nat
      /\ supply = SumOver(balance, TokenAccounts)
  BY BooksDef DEF FeeInv, FeeTypeOK
<1>1. /\ acct \in HeldFor(g)
      /\ balance' = [balance EXCEPT ![acct] = 0]
      /\ supply' = supply - balance[acct]
      /\ burned' = [burned EXCEPT ![g] = burned[g] + balance[acct]]
      /\ UNCHANGED <<config, collected>>
  BY <1>0, BurnStep
<1>2. /\ balance' \in [TokenAccounts -> Nat]
      /\ balance'[acct] = 0
      /\ \A x \in TokenAccounts \ {acct} : balance'[x] = balance[x]
  BY <1>0, <1>1
<1>3. \A x \in TokenAccounts : balance[x] \in Nat /\ balance[x] \in Int
  BY <1>0
<1>4. balance[acct] <= supply
  BY <1>0, <1>3, AccountsFinite, SumNat
<1>5. FeeTypeOK'
  <2>1. supply' \in Nat
    BY <1>0, <1>1, <1>3, <1>4
  <2>2. burned' \in [Groks -> Nat]
    BY <1>0, <1>1, <1>3
  <2> QED BY <1>0, <1>1, <1>2, <2>1, <2>2 DEF FeeTypeOK
<1>6. supply' = SumOver(balance', TokenAccounts)
  <2>1. SumOver(balance', TokenAccounts)
          = SumOver(balance, TokenAccounts) + (balance'[acct] - balance[acct])
    <3>1. /\ IsFiniteSet(TokenAccounts) /\ acct \in TokenAccounts
          /\ \A x \in TokenAccounts : balance[x] \in Int
          /\ balance'[acct] \in Int
          /\ \A x \in TokenAccounts \ {acct} : balance'[x] = balance[x]
      BY <1>2, <1>3, AccountsFinite
    <3> QED BY <3>1, SumChange
  <2> QED BY <1>0, <1>1, <1>2, <1>3, <2>1
<1>7. ASSUME NEW h \in Groks
      PROVE  collected'[h] = burned'[h] + SumOver(balance', HeldFor(h))
  <2>0. /\ IsFiniteSet(HeldFor(h)) /\ HeldFor(h) \subseteq TokenAccounts
        /\ \A x \in HeldFor(h) : balance[x] \in Int
    BY <1>3, AccountsFinite
  <2>1. collected[h] = burned[h] + SumOver(balance, HeldFor(h)) /\ collected' = collected
    BY <1>1, BooksDef DEF FeeInv
  <2>2. SumOver(balance, HeldFor(h)) \in Int
    BY <2>0, SumType
  <2>3. CASE h = g
    <3>1. /\ acct \in HeldFor(h) /\ balance'[acct] \in Int
          /\ \A x \in HeldFor(h) \ {acct} : balance'[x] = balance[x]
      BY <1>1, <1>2, <2>0, <2>3
    <3>2. SumOver(balance', HeldFor(h))
            = SumOver(balance, HeldFor(h)) + (balance'[acct] - balance[acct])
      BY <2>0, <3>1, SumChange
    <3>3. burned'[h] = burned[h] + balance[acct] /\ burned[h] \in Nat
      BY <1>0, <1>1, <2>3
    <3> QED BY <1>2, <1>3, <2>1, <2>2, <3>2, <3>3
  <2>4. CASE h # g
    <3>1. acct \notin HeldFor(h)
      BY <1>1, <2>4 DEF HeldFor
    <3>2. \A x \in HeldFor(h) : balance'[x] = balance[x]
      BY <1>2, <2>0, <3>1
    <3>3. SumOver(balance', HeldFor(h)) = SumOver(balance, HeldFor(h))
      BY <2>0, <3>2, SumEqual
    <3>4. burned'[h] = burned[h]
      BY <1>0, <1>1, <2>4
    <3> QED BY <2>1, <3>3, <3>4
  <2> QED BY <2>3, <2>4
<1>8. /\ \A h \in Groks : collected'[h] = burned'[h] + SumOver(balance', HeldFor(h))
      /\ supply' = SumOver(balance', TokenAccounts)
  BY <1>6, <1>7
<1> QED BY <1>5, <1>8, BooksDef DEF FeeInv, CollectedIsBurnedOrHeld, TotalOf, HeldFor

LEMMA FeeInvStep == FeeInv /\ [FeeNext]_feeVars => FeeInv'
<1> SUFFICES ASSUME FeeInv, [FeeNext]_feeVars PROVE FeeInv'
  OBVIOUS
<1>1. ASSUME UNCHANGED <<balance, supply, collected, burned>>,
             config' \in [Groks -> [open: BOOLEAN, fee: 0 .. MaxFee]]
      PROVE  FeeInv'
  BY <1>1 DEF FeeInv, FeeTypeOK, CollectedIsBurnedOrHeld, TotalOf
<1>2. ASSUME NEW g \in Groks, InitFee(g) PROVE FeeInv'
  BY <1>1, <1>2, SponsorFeeAssumption DEF InitFee, FeeInv, FeeTypeOK
<1>3. ASSUME NEW g \in Groks, NEW fee \in Fees, SetFee(g, fee) PROVE FeeInv'
  <2>1. fee \in 0 .. MaxFee
    BY <1>3, SponsorFeeAssumption DEF SetFee
  <2>2. config' \in [Groks -> [open: BOOLEAN, fee: 0 .. MaxFee]]
    BY <1>3, <2>1 DEF SetFee, FeeInv, FeeTypeOK
  <2> QED BY <1>1, <1>3, <2>2 DEF SetFee
<1>4. CASE UNCHANGED feeVars
  BY <1>1, <1>4 DEF feeVars, FeeInv, FeeTypeOK
<1> QED BY <1>2, <1>3, <1>4, TransferKeepsInv, BurnKeepsInv DEF FeeNext

\* The invariant above holds in every reachable state.
THEOREM FeeInvariance == FeeSpec => []FeeInv
<1>1. FeeInit => FeeInv
  BY FeeInvInit
<1>2. FeeInv /\ [FeeNext]_feeVars => FeeInv'
  BY FeeInvStep
<1> QED BY <1>1, <1>2, PTL DEF FeeSpec

\* Every reachable state is well typed: no rate exceeds MaxFee and the supply
\* never falls below 0.
THEOREM FeeTypeCorrect == FeeSpec => []FeeTypeOK
<1>1. FeeInv => FeeTypeOK
  BY DEF FeeInv
<1> QED BY <1>1, FeeInvariance, PTL

\* What each GrokAccount's fee accounts were ever sent is burned or still there,
\* and the supply is what the accounts hold (CollectedIsBurnedOrHeld).
THEOREM SupplyFallsByWhatWasCollected == FeeSpec => []CollectedIsBurnedOrHeld
<1>1. FeeInv => CollectedIsBurnedOrHeld
  BY DEF FeeInv
<1> QED BY <1>1, FeeInvariance, PTL

\* A fee account that loses tokens loses all of them, to nobody
\* (OnlyExitIsDestruction).
THEOREM FeesAreOnlyDestroyed == FeeSpec => OnlyExitIsDestruction
<1> DEFINE Destroyed ==
        \A acct \in FeeAccounts :
          balance'[acct] < balance[acct] =>
             /\ balance' = [balance EXCEPT ![acct] = 0]
             /\ supply' = supply - balance[acct]
<1>1. FeeInv /\ [FeeNext]_feeVars => [Destroyed]_feeVars
  <2> SUFFICES ASSUME FeeInv, [FeeNext]_feeVars, NEW acct \in FeeAccounts,
                      balance'[acct] < balance[acct]
               PROVE  /\ balance' = [balance EXCEPT ![acct] = 0]
                      /\ supply' = supply - balance[acct]
    OBVIOUS
  <2>0. /\ FeeTypeOK /\ balance \in [TokenAccounts -> Nat] /\ acct \in TokenAccounts
        /\ acct \notin Wallets
    BY SponsorFeeAssumption DEF FeeInv, FeeTypeOK, TokenAccounts
  <2>1. CASE UNCHANGED balance
    BY <2>0, <2>1
  <2>2. ASSUME NEW from \in Wallets, NEW to \in TokenAccounts, NEW amount \in Amounts,
               Transfer(from, to, amount)
        PROVE  FALSE
    <3>1. amount \in Nat /\ from \in TokenAccounts /\ from # to /\ from # acct
      BY <2>0, <2>2, SponsorFeeAssumption DEF Transfer, TokenAccounts
    <3>2. balance'[acct] = balance[acct] + (IF acct = to THEN amount ELSE 0)
      BY <2>0, <2>2, <3>1 DEF Transfer
    <3> QED BY <2>0, <3>1, <3>2
  <2>3. ASSUME NEW g \in Groks, NEW x \in TokenAccounts, Burn(g, x)
        PROVE  /\ balance' = [balance EXCEPT ![acct] = 0]
               /\ supply' = supply - balance[acct]
    <3>1. balance' = [balance EXCEPT ![x] = 0] /\ supply' = supply - balance[x]
      BY <2>0, <2>3, BurnStep
    <3>2. x = acct
      BY <2>0, <3>1
    <3> QED BY <3>1, <3>2
  <2> QED BY <2>1, <2>2, <2>3 DEF FeeNext, InitFee, SetFee, feeVars
<1> QED BY <1>1, FeeInvariance, PTL DEF FeeSpec, OnlyExitIsDestruction
=============================================================================
