--------------------------- MODULE CustodyProofs ---------------------------
(***************************************************************************)
(* Facts about grants and the three custody accounts that the proofs of    *)
(* every component with money in it rest on.                               *)
(***************************************************************************)
EXTENDS Custody, SumProofs, TLAPS

-----------------------------------------------------------------------------
(* Grants.                                                                 *)

\* A grant is still a grant after one of its fields is rewritten.
LEMMA GrantFields ==
    ASSUME NEW g \in Grant
    PROVE  /\ \A n \in Nat : [g EXCEPT !.cap = n] \in Grant
           /\ \A n \in Nat : [g EXCEPT !.spent = n] \in Grant
           /\ [g EXCEPT !.revoked = TRUE] \in Grant
BY DEF Grant

\* Revising, revoking and the clock keep grants well typed.
LEMMA CoreStepKeepsType == CoreTypeOK /\ CoreNext => CoreTypeOK'
<1> SUFFICES ASSUME CoreTypeOK, CoreNext PROVE CoreTypeOK'
  OBVIOUS
<1>0. now \in Nat /\ grants \in [Agents -> Grant]
  BY DEF CoreTypeOK
<1>1. ASSUME NEW a \in Agents, NEW cap \in Caps, ReviseGrant(a, cap) PROVE CoreTypeOK'
  <2>1. grants' = [grants EXCEPT ![a] = [grants[a] EXCEPT !.cap = cap]] /\ UNCHANGED now
    BY <1>1 DEF ReviseGrant
  <2>2. [grants[a] EXCEPT !.cap = cap] \in Grant
    BY <1>0, CoreAssumption, GrantFields
  <2> QED BY <1>0, <2>1, <2>2 DEF CoreTypeOK
<1>2. ASSUME NEW a \in Agents, RevokeGrant(a) PROVE CoreTypeOK'
  <2>1. grants' = [grants EXCEPT ![a] = [grants[a] EXCEPT !.revoked = TRUE]] /\ UNCHANGED now
    BY <1>2 DEF RevokeGrant
  <2>2. [grants[a] EXCEPT !.revoked = TRUE] \in Grant
    BY <1>0, GrantFields
  <2> QED BY <1>0, <2>1, <2>2 DEF CoreTypeOK
<1>3. CASE Tick
  BY <1>0, <1>3 DEF Tick, CoreTypeOK
<1> QED BY <1>1, <1>2, <1>3 DEF CoreNext

\* They leave what was spent alone.
LEMMA CoreStepKeepsSpent ==
    ASSUME CoreTypeOK, CoreNext
    PROVE  \A a \in Agents : grants'[a].spent = grants[a].spent
<1>0. grants \in [Agents -> Grant]
  BY DEF CoreTypeOK
<1>1. ASSUME NEW a \in Agents, NEW cap \in Caps, ReviseGrant(a, cap)
      PROVE  \A b \in Agents : grants'[b].spent = grants[b].spent
  BY <1>0, <1>1 DEF ReviseGrant, Grant
<1>2. ASSUME NEW a \in Agents, RevokeGrant(a)
      PROVE  \A b \in Agents : grants'[b].spent = grants[b].spent
  BY <1>0, <1>2 DEF RevokeGrant, Grant
<1>3. CASE Tick
  BY <1>3 DEF Tick
<1> QED BY <1>1, <1>2, <1>3 DEF CoreNext

\* A grant that CORE charged is well typed, and was live with room for the
\* charge.
LEMMA CheckGrantCharges ==
    ASSUME CoreTypeOK, NEW a \in Agents, NEW amount \in Nat, CheckGrant(a, amount)
    PROVE  /\ grants' \in [Agents -> Grant]
           /\ grants' = [grants EXCEPT ![a].spent = grants[a].spent + amount]
           /\ grants'[a].spent = grants[a].spent + amount
           /\ grants'[a].cap = grants[a].cap
           /\ \A b \in Agents \ {a} : grants'[b] = grants[b]
           /\ ~grants[a].revoked /\ now < grants[a].expires
           /\ grants[a].spent + amount <= grants[a].cap
<1>1. grants \in [Agents -> Grant] /\ grants[a] \in Grant
  BY DEF CoreTypeOK
<1>2. grants' = [grants EXCEPT ![a].spent = grants[a].spent + amount]
  BY <1>1 DEF CheckGrant
<1>3. grants[a].spent + amount \in Nat
  BY <1>1 DEF Grant
<1>4. [grants[a] EXCEPT !.spent = grants[a].spent + amount] \in Grant
  BY <1>1, <1>3, GrantFields
<1>5. grants' \in [Agents -> Grant]
  BY <1>1, <1>2, <1>4
<1>6. /\ grants'[a].spent = grants[a].spent + amount
      /\ grants'[a].cap = grants[a].cap
  BY <1>1, <1>2 DEF Grant
<1>7. \A b \in Agents \ {a} : grants'[b] = grants[b]
  BY <1>1, <1>2
<1> QED BY <1>2, <1>5, <1>6, <1>7 DEF CheckGrant, GrantAllows, Live

-----------------------------------------------------------------------------
(* Balances.                                                               *)

\* What a move leaves on every account.
LEMMA MovedAt ==
    ASSUME NEW S, NEW bal \in [S -> Nat], NEW from \in S, NEW to \in S,
           NEW amount \in Nat, from # to, bal[from] >= amount
    PROVE  /\ Moved(bal, from, to, amount) \in [S -> Nat]
           /\ Moved(bal, from, to, amount)[from] = bal[from] - amount
           /\ Moved(bal, from, to, amount)[to] = bal[to] + amount
           /\ \A x \in S \ {from, to} : Moved(bal, from, to, amount)[x] = bal[x]
BY DEF Moved

(* Balances the custody accounts may be in.  The rents are those of the     *)
(* accounts that are open in a given state.                                 *)
Covered(bal, vaultRent, paymasterRent) ==
    /\ bal \in [Accounts -> Nat]
    /\ bal[VaultPda] >= vaultRent
    /\ bal[PaymasterPda] >= paymasterRent

\* The trader is open: it holds at least its rent.
ReadyOn(bal) == bal[TraderPda] >= TraderRent

\* The accounts are different accounts.
LEMMA AccountsDiffer ==
    /\ {Root, VaultPda, PaymasterPda, TraderPda} \cup Relayers \cup Wallets \subseteq Accounts
    /\ VaultPda # PaymasterPda /\ VaultPda # TraderPda /\ VaultPda # Root
    /\ PaymasterPda # TraderPda /\ PaymasterPda # Root /\ TraderPda # Root
    /\ \A w \in Wallets \cup Relayers :
          w # Root /\ w # VaultPda /\ w # PaymasterPda /\ w # TraderPda /\ w # NoAccount
    /\ NoAccount \notin Accounts
    /\ VaultRent \in Nat /\ PaymasterRent \in Nat /\ TraderRent \in Nat \ {0}
    /\ Lamports \subseteq Nat /\ SponsorLamports \subseteq Nat /\ MaxSponsor \in Nat
BY CustodyAssumption DEF Accounts, Wallets

(* The one lemma about every movement of SOL in the program.  A debit that  *)
(* leaves its floor behind keeps the custody accounts covered when the      *)
(* floor is at least the rent of the account debited; and an open trader is *)
(* still open when a debit of it leaves its rent behind.                    *)
LEMMA MoveKeepsCovered ==
    ASSUME NEW vr \in Nat, NEW pr \in Nat, NEW bal, Covered(bal, vr, pr),
           NEW from \in Accounts, NEW to \in Accounts, NEW amount \in Nat, NEW floor \in Nat,
           from # to, bal[from] - amount >= floor,
           from = VaultPda => floor >= vr, from = PaymasterPda => floor >= pr
    PROVE  /\ Covered(Moved(bal, from, to, amount), vr, pr)
           /\ ReadyOn(bal) /\ (from = TraderPda => floor >= TraderRent)
              => ReadyOn(Moved(bal, from, to, amount))
<1> DEFINE end == Moved(bal, from, to, amount)
<1>0. {VaultPda, PaymasterPda, TraderPda} \subseteq Accounts /\ TraderRent \in Nat
  BY AccountsDiffer
<1>1. bal \in [Accounts -> Nat] /\ bal[from] >= amount
  BY DEF Covered
<1>2. /\ end \in [Accounts -> Nat]
      /\ end[from] = bal[from] - amount
      /\ end[to] = bal[to] + amount
      /\ \A x \in Accounts \ {from, to} : end[x] = bal[x]
  BY <1>1, MovedAt
<1> HIDE DEF end
<1>3. end[VaultPda] >= vr
  BY <1>0, <1>1, <1>2 DEF Covered
<1>4. end[PaymasterPda] >= pr
  BY <1>0, <1>1, <1>2 DEF Covered
<1>5. ASSUME ReadyOn(bal), from = TraderPda => floor >= TraderRent
      PROVE  ReadyOn(end)
  BY <1>0, <1>1, <1>2, <1>5 DEF ReadyOn
<1> QED BY <1>2, <1>3, <1>4, <1>5 DEF Covered, end

\* A reimbursement is no movement at all or one from the paymaster, above its
\* floor, to a relayer.
LEMMA ReimbursedMoves ==
    ASSUME NEW bal \in [Accounts -> Nat],
           NEW g, NEW lamports \in SponsorLamports, NEW payer \in Relayers \cup {NoAccount},
           SponsorAsked(lamports, payer), CanReimburse(bal, g, lamports, payer)
    PROVE  \/ lamports = 0 /\ Reimbursed(bal, lamports, payer) = bal
           \/ /\ payer \in Relayers /\ payer \in Accounts
              /\ payer # PaymasterPda /\ payer # TraderPda /\ payer # VaultPda
              /\ bal[PaymasterPda] - lamports >= PaymasterRent
              /\ bal[PaymasterPda] >= lamports
              /\ Reimbursed(bal, lamports, payer) = Moved(bal, PaymasterPda, payer, lamports)
<1>0. lamports \in Nat /\ PaymasterPda \in Accounts /\ PaymasterRent \in Nat
  BY AccountsDiffer
<1>1. CASE lamports = 0
  BY <1>1 DEF Reimbursed
<1>2. CASE lamports # 0
  <2>1. Reimbursed(bal, lamports, payer) = Moved(bal, PaymasterPda, payer, lamports)
    BY <1>2 DEF Reimbursed
  <2>2. payer \in Relayers
    BY <1>0, <1>2 DEF SponsorAsked
  <2>3. payer \in Accounts /\ payer # TraderPda /\ payer # PaymasterPda /\ payer # VaultPda
    BY <2>2, AccountsDiffer
  <2>4. bal[PaymasterPda] - lamports >= PaymasterRent
    BY <1>0, <1>2 DEF CanReimburse, MoveSucceeds, CanMove
  <2>5. bal[PaymasterPda] >= lamports
    BY <1>0, <2>4
  <2> QED BY <2>1, <2>2, <2>3, <2>4, <2>5
<1> QED BY <1>1, <1>2

LEMMA ReimbursedAt ==
    ASSUME NEW bal \in [Accounts -> Nat],
           NEW g, NEW lamports \in SponsorLamports, NEW payer \in Relayers \cup {NoAccount},
           SponsorAsked(lamports, payer), CanReimburse(bal, g, lamports, payer)
    PROVE  /\ Reimbursed(bal, lamports, payer) \in [Accounts -> Nat]
           /\ Reimbursed(bal, lamports, payer)[PaymasterPda] = bal[PaymasterPda] - lamports
           /\ Reimbursed(bal, lamports, payer)[VaultPda] = bal[VaultPda]
           /\ Reimbursed(bal, lamports, payer)[TraderPda] = bal[TraderPda]
<1> DEFINE end == Reimbursed(bal, lamports, payer)
<1>0. lamports \in Nat /\ {PaymasterPda, VaultPda, TraderPda} \subseteq Accounts
  BY AccountsDiffer
<1>1. CASE lamports = 0 /\ end = bal
  BY <1>0, <1>1
<1>2. CASE /\ payer \in Accounts
           /\ payer # PaymasterPda /\ payer # TraderPda /\ payer # VaultPda
           /\ bal[PaymasterPda] >= lamports
           /\ end = Moved(bal, PaymasterPda, payer, lamports)
  <2> HIDE DEF end
  <2>1. /\ end \in [Accounts -> Nat]
        /\ end[PaymasterPda] = bal[PaymasterPda] - lamports
        /\ \A x \in Accounts \ {PaymasterPda, payer} : end[x] = bal[x]
    BY <1>0, <1>2, MovedAt
  <2>2. end[VaultPda] = bal[VaultPda] /\ end[TraderPda] = bal[TraderPda]
    BY <1>0, <1>2, <2>1, AccountsDiffer
  <2> QED BY <2>1, <2>2 DEF end
<1> QED BY <1>1, <1>2, ReimbursedMoves

\* It keeps the custody accounts covered and an open trader open.
LEMMA ReimbursedKeepsCovered ==
    ASSUME NEW vr \in Nat, NEW pr \in Nat, pr <= PaymasterRent,
           NEW bal, Covered(bal, vr, pr),
           NEW g, NEW lamports \in SponsorLamports, NEW payer \in Relayers \cup {NoAccount},
           SponsorAsked(lamports, payer), CanReimburse(bal, g, lamports, payer)
    PROVE  /\ Covered(Reimbursed(bal, lamports, payer), vr, pr)
           /\ ReadyOn(bal) => ReadyOn(Reimbursed(bal, lamports, payer))
<1>0. /\ bal \in [Accounts -> Nat] /\ lamports \in Nat
      /\ PaymasterPda \in Accounts /\ PaymasterRent \in Nat /\ PaymasterPda # VaultPda
      /\ PaymasterPda # TraderPda
  BY AccountsDiffer DEF Covered
<1>1. CASE lamports = 0 /\ Reimbursed(bal, lamports, payer) = bal
  BY <1>1
<1>2. CASE /\ payer \in Accounts
           /\ payer # PaymasterPda /\ payer # TraderPda /\ payer # VaultPda
           /\ bal[PaymasterPda] - lamports >= PaymasterRent
           /\ Reimbursed(bal, lamports, payer) = Moved(bal, PaymasterPda, payer, lamports)
  BY <1>0, <1>2, MoveKeepsCovered
<1> QED BY <1>0, <1>1, <1>2, ReimbursedMoves

-----------------------------------------------------------------------------
(* What the root and the world do to the custody accounts.                 *)

VaultFloor     == IF vaultOpen THEN VaultRent ELSE 0
PaymasterFloor == IF paymaster.open THEN PaymasterRent ELSE 0

LEMMA FloorsCover ==
    ASSUME CustodyTypeOK
    PROVE  /\ VaultFloor \in Nat /\ PaymasterFloor \in Nat /\ PaymasterFloor <= PaymasterRent
           /\ RentFloors <=> Covered(sol, VaultFloor, PaymasterFloor)
BY AccountsDiffer DEF CustodyTypeOK, RentFloors, Covered, VaultFloor, PaymasterFloor

\* A movement of SOL outside the intents.
AdminMove(from, to, amount, floor) ==
    /\ from # to
    /\ sol[from] - amount >= floor
    /\ sol' = Moved(sol, from, to, amount)
    /\ from = VaultPda => vaultOpen /\ floor = VaultRent /\ to \in {Root, TraderPda}
    /\ from = PaymasterPda => paymaster.open /\ floor = PaymasterRent /\ to = Root
    /\ from = TraderPda => floor = TraderRent

SomeAdminMove ==
    \E from, to \in Accounts, amount, floor \in Nat : AdminMove(from, to, amount, floor)

\* Creating an account at its rent moves what it lacks from the root.
LEMMA CreateAtMoves ==
    ASSUME CustodyTypeOK, NEW pda \in {VaultPda, PaymasterPda, TraderPda}, NEW rent \in Nat,
           CreateAt(pda, rent)
    PROVE  SomeAdminMove /\ sol'[pda] >= rent
<1>1. /\ sol \in [Accounts -> Nat]
      /\ Root \in Accounts /\ pda \in Accounts /\ Root # pda
      /\ Root # VaultPda /\ Root # PaymasterPda /\ Root # TraderPda
  BY AccountsDiffer DEF CustodyTypeOK
<1> DEFINE due == RentDue(pda, rent)
<1>2. due \in Nat /\ sol[pda] + due >= rent
  BY <1>1 DEF RentDue
<1>3. sol[Root] >= due /\ sol' = Moved(sol, Root, pda, due)
  BY DEF CreateAt
<1> HIDE DEF due
<1>4. sol'[pda] = sol[pda] + due
  BY <1>1, <1>2, <1>3, MovedAt
<1>5. sol[Root] - due >= 0
  BY <1>1, <1>2, <1>3
<1>6. AdminMove(Root, pda, due, 0)
  BY <1>1, <1>2, <1>3, <1>4, <1>5 DEF AdminMove
<1> QED BY <1>1, <1>2, <1>4, <1>6 DEF SomeAdminMove

\* What holds of every such step: SOL moves once, from an account to a different
\* one, above the floor of the account it debits, or not at all; and an account
\* that is opened has its rent.
GoodCustodyStep ==
    /\ UNCHANGED sol \/ SomeAdminMove
    /\ tokens' \in [Holders -> [Mints -> Nat]]
    /\ vaultOpen' \in BOOLEAN
    /\ vaultOpen' => vaultOpen \/ sol'[VaultPda] >= VaultRent
    /\ paymaster' \in [open: BOOLEAN, relayer: Relayers \cup {NoAccount}, paused: BOOLEAN]
    /\ paymaster'.open => paymaster.open \/ sol'[PaymasterPda] >= PaymasterRent

LEMMA MoveSolMoves ==
    ASSUME NEW from \in Accounts, NEW to \in Accounts, NEW amount \in Nat, NEW floor \in Nat,
           MoveSol(from, to, amount, floor),
           from = VaultPda => vaultOpen /\ floor = VaultRent /\ to \in {Root, TraderPda},
           from = PaymasterPda => paymaster.open /\ floor = PaymasterRent /\ to = Root,
           from = TraderPda => floor = TraderRent
    PROVE  SomeAdminMove
<1>1. AdminMove(from, to, amount, floor)
  BY DEF MoveSol, MoveSucceeds, CanMove, Balanced, AdminMove
<1> QED BY <1>1 DEF SomeAdminMove

LEMMA CustodyMoves == CustodyTypeOK /\ CustodyNext => GoodCustodyStep
<1> SUFFICES ASSUME CustodyTypeOK, CustodyNext PROVE GoodCustodyStep
  OBVIOUS
<1> USE DEF CustodyTypeOK
<1>0. sol \in [Accounts -> Nat]
  OBVIOUS
<1>1. CASE InitSpendVault
  <2>1. SomeAdminMove /\ sol'[VaultPda] >= VaultRent
    BY <1>1, AccountsDiffer, CreateAtMoves DEF InitSpendVault
  <2> QED BY <1>1, <2>1 DEF InitSpendVault, GoodCustodyStep
<1>2. ASSUME NEW r \in Relayers, InitPaymaster(r) PROVE GoodCustodyStep
  <2>1. SomeAdminMove /\ sol'[PaymasterPda] >= PaymasterRent
    BY <1>2, AccountsDiffer, CreateAtMoves DEF InitPaymaster
  <2> QED BY <1>2, <2>1 DEF InitPaymaster, GoodCustodyStep
<1>3. ASSUME NEW r \in Relayers, SetRelayer(r) PROVE GoodCustodyStep
  BY <1>3 DEF SetRelayer, GoodCustodyStep
<1>4. CASE PausePaymaster \/ UnpausePaymaster
  <2>1. /\ paymaster' \in [open: BOOLEAN, relayer: Relayers \cup {NoAccount}, paused: BOOLEAN]
        /\ paymaster'.open = paymaster.open
    BY <1>4 DEF PausePaymaster, UnpausePaymaster
  <2>2. UNCHANGED <<sol, tokens, vaultOpen>>
    BY <1>4 DEF PausePaymaster, UnpausePaymaster
  <2> QED BY <2>1, <2>2 DEF GoodCustodyStep
<1>5. CASE InitPumpTrader
  <2>1. SomeAdminMove
    BY <1>5, AccountsDiffer, CreateAtMoves DEF InitPumpTrader
  <2> QED BY <1>5, <2>1 DEF InitPumpTrader, GoodCustodyStep
<1>6. ASSUME NEW amount \in Lamports,
             FundSpendVault(amount) \/ FundPaymaster(amount)
      PROVE  GoodCustodyStep
  <2>1. SomeAdminMove
    BY <1>6, AccountsDiffer, MoveSolMoves DEF FundSpendVault, FundPaymaster
  <2> QED BY <1>6, <2>1 DEF FundSpendVault, FundPaymaster, GoodCustodyStep
<1>7. ASSUME NEW amount \in Lamports,
             WithdrawSpendVault(amount) \/ WithdrawPaymaster(amount)
      PROVE  GoodCustodyStep
  <2>1. SomeAdminMove
    BY <1>7, AccountsDiffer, MoveSolMoves DEF WithdrawSpendVault, WithdrawPaymaster
  <2> QED BY <1>7, <2>1 DEF WithdrawSpendVault, WithdrawPaymaster, GoodCustodyStep
<1>8. ASSUME NEW amount \in Lamports, FundPumpTrader(amount) PROVE GoodCustodyStep
  <2>1. SomeAdminMove
    BY <1>8, AccountsDiffer, MoveSolMoves DEF FundPumpTrader
  <2> QED BY <1>8, <2>1 DEF FundPumpTrader, GoodCustodyStep
<1>9. ASSUME NEW amount \in Lamports, NEW from \in Wallets \cup {Root}, NEW to \in Accounts,
             ExternalTransfer(from, to, amount)
      PROVE  GoodCustodyStep
  <2>1. SomeAdminMove
    BY <1>9, AccountsDiffer, MoveSolMoves DEF ExternalTransfer
  <2> QED BY <1>9, <2>1 DEF ExternalTransfer, GoodCustodyStep
<1>10. ASSUME NEW amount \in Lamports \cup {0}, NEW swept \in SUBSET Mints,
              WithdrawPumpTrader(amount, swept)
       PROVE  GoodCustodyStep
  <2>1. /\ sol[TraderPda] >= TraderRent
        /\ amount > 0 => sol[TraderPda] - amount >= TraderRent
        /\ sol' = Moved(sol, TraderPda, Root, amount)
        /\ UNCHANGED <<vaultOpen, paymaster>>
    BY <1>10 DEF WithdrawPumpTrader, TraderReady, MoveSucceeds, CanMove
  <2>2. amount \in Nat /\ sol[TraderPda] - amount >= TraderRent
    BY <1>0, <2>1, AccountsDiffer
  <2>3. AdminMove(TraderPda, Root, amount, TraderRent)
    BY <2>1, <2>2, AccountsDiffer DEF AdminMove
  <2>4. SomeAdminMove
    BY <2>2, <2>3, AccountsDiffer DEF SomeAdminMove
  <2>5. tokens' \in [Holders -> [Mints -> Nat]]
    <3>1. Root \in Holders /\ TraderPda \in Holders
      BY DEF Holders
    <3> QED BY <1>10, <3>1 DEF WithdrawPumpTrader
  <2> QED BY <2>1, <2>4, <2>5 DEF GoodCustodyStep
<1> QED BY <1>1, <1>2, <1>3, <1>4, <1>5, <1>6, <1>7, <1>8, <1>9, <1>10 DEF CustodyNext

\* So such a step keeps the custody accounts well typed ...
LEMMA CustodyStepKeepsType == CustodyTypeOK /\ GoodCustodyStep => CustodyTypeOK'
<1> SUFFICES ASSUME CustodyTypeOK, GoodCustodyStep PROVE CustodyTypeOK'
  OBVIOUS
<1>1. CASE UNCHANGED sol
  BY <1>1 DEF GoodCustodyStep, CustodyTypeOK
<1>2. CASE SomeAdminMove
  <2>1. PICK from \in Accounts, to \in Accounts, amount \in Nat, floor \in Nat :
             AdminMove(from, to, amount, floor)
    BY <1>2 DEF SomeAdminMove
  <2>2. /\ from # to /\ sol[from] >= amount
        /\ sol' = Moved(sol, from, to, amount)
    BY <2>1 DEF AdminMove, CustodyTypeOK
  <2>3. sol' \in [Accounts -> Nat]
    BY <2>2, MovedAt DEF CustodyTypeOK
  <2> QED BY <2>3 DEF GoodCustodyStep, CustodyTypeOK
<1> QED BY <1>1, <1>2 DEF GoodCustodyStep

\* ... and above their rent floors, and never closes the trader.
LEMMA CustodyStep ==
    ASSUME CustodyTypeOK, RentFloors, GoodCustodyStep
    PROVE  /\ RentFloors'
           /\ ReadyOn(sol) => ReadyOn(sol')
<1> DEFINE vr == VaultFloor
           pr == PaymasterFloor
<1>1. vr \in Nat /\ pr \in Nat /\ Covered(sol, vr, pr)
  BY FloorsCover
<1>2. /\ Covered(sol', vr, pr)
      /\ ReadyOn(sol) => ReadyOn(sol')
  <2>1. CASE UNCHANGED sol
    BY <1>1, <2>1
  <2>2. CASE SomeAdminMove
    <3>1. PICK from \in Accounts, to \in Accounts, amount \in Nat, floor \in Nat :
               AdminMove(from, to, amount, floor)
      BY <2>2 DEF SomeAdminMove
    <3>2. /\ from # to /\ sol[from] - amount >= floor
          /\ sol' = Moved(sol, from, to, amount)
          /\ from = VaultPda => floor >= vr
          /\ from = PaymasterPda => floor >= pr
          /\ from = TraderPda => floor >= TraderRent
      BY <3>1, AccountsDiffer DEF AdminMove, VaultFloor, PaymasterFloor
    <3>3. sol \in [Accounts -> Nat] /\ sol[from] >= amount
      BY <3>2 DEF CustodyTypeOK
    <3> HIDE DEF vr, pr
    <3> QED BY <1>1, <3>2, <3>3, MoveKeepsCovered
  <2> QED BY <2>1, <2>2 DEF GoodCustodyStep
<1>3. RentFloors'
  BY <1>2, AccountsDiffer DEF Covered, GoodCustodyStep, RentFloors, VaultFloor, PaymasterFloor
<1> QED BY <1>2, <1>3

\* Outside the intents, SOL leaves the two only in one move, which the property
\* names by what it took.
LEMMA AdminOutflow ==
    ASSUME CustodyTypeOK, CustodyNext
    PROVE  /\ LET out == sol[VaultPda] - sol'[VaultPda]
              IN  out > 0 =>
                    \E to \in {Root, TraderPda} : sol' = Moved(sol, VaultPda, to, out)
           /\ LET out == sol[PaymasterPda] - sol'[PaymasterPda]
              IN  out > 0 => sol' = Moved(sol, PaymasterPda, Root, out)
<1>0. sol \in [Accounts -> Nat] /\ VaultPda \in Accounts /\ PaymasterPda \in Accounts
  BY AccountsDiffer DEF CustodyTypeOK
<1>1. CASE UNCHANGED sol
  BY <1>0, <1>1
<1>2. CASE SomeAdminMove
  <2>1. PICK from \in Accounts, to \in Accounts, amount \in Nat, floor \in Nat :
             AdminMove(from, to, amount, floor)
    BY <1>2 DEF SomeAdminMove
  <2>2. /\ from # to /\ sol[from] - amount >= floor
        /\ sol' = Moved(sol, from, to, amount)
        /\ from = VaultPda => to \in {Root, TraderPda}
        /\ from = PaymasterPda => to = Root
    BY <2>1 DEF AdminMove
  <2>3. sol[from] >= amount
    BY <1>0, <2>2
  <2>4. /\ sol'[from] = sol[from] - amount
        /\ sol'[to] = sol[to] + amount
        /\ \A x \in Accounts \ {from, to} : sol'[x] = sol[x]
    BY <1>0, <2>2, <2>3, MovedAt
  <2>5. ASSUME NEW x \in Accounts, sol[x] - sol'[x] > 0
        PROVE  x = from /\ sol[x] - sol'[x] = amount
    BY <1>0, <2>4, <2>5
  <2> QED BY <1>0, <2>2, <2>5
<1> QED BY <1>1, <1>2, CustodyMoves DEF GoodCustodyStep
=============================================================================
