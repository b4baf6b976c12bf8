-------------------------- MODULE SubGrantsProofs --------------------------
(***************************************************************************)
(* What is proved about SubGrants for any number of agents, any depth and  *)
(* any caps: the type invariant, the shape of the delegation forest, that  *)
(* no cap is overspent, that metering walks up every level exactly once,   *)
(* that a cap binds its whole subtree together, that a spend is possible   *)
(* exactly when all ancestors allow it, and that authority only narrows.   *)
(***************************************************************************)
EXTENDS SubGrants, SumProofs, TLAPS

\* A grant is still a grant after one of its fields is rewritten.
LEMMA GrantFields ==
    ASSUME NEW g \in Grant
    PROVE  /\ \A n \in Nat : [g EXCEPT !.cap = n] \in Grant
           /\ \A n \in Nat : [g EXCEPT !.spent = n] \in Grant
           /\ [g EXCEPT !.revoked = TRUE] \in Grant
BY DEF Grant

\* Revising, revoking and the clock keep grants well typed.
LEMMA CoreStepKeepsType == CoreTypeOK /\ CoreNext => CoreTypeOK'
<1> SUFFICES ASSUME CoreTypeOK, CoreNext PROVE CoreTypeOK'
  OBVIOUS
<1>0. now \in Nat /\ grants \in [Agents -> Grant]
  BY DEF CoreTypeOK
<1>1. ASSUME NEW a \in Agents, NEW cap \in Caps, ReviseGrant(a, cap) PROVE CoreTypeOK'
  <2>1. grants' = [grants EXCEPT ![a] = [grants[a] EXCEPT !.cap = cap]] /\ UNCHANGED now
    BY <1>1 DEF ReviseGrant
  <2>2. [grants[a] EXCEPT !.cap = cap] \in Grant
    BY <1>0, CoreAssumption, GrantFields
  <2> QED BY <1>0, <2>1, <2>2 DEF CoreTypeOK
<1>2. ASSUME NEW a \in Agents, RevokeGrant(a) PROVE CoreTypeOK'
  <2>1. grants' = [grants EXCEPT ![a] = [grants[a] EXCEPT !.revoked = TRUE]] /\ UNCHANGED now
    BY <1>2 DEF RevokeGrant
  <2>2. [grants[a] EXCEPT !.revoked = TRUE] \in Grant
    BY <1>0, GrantFields
  <2> QED BY <1>0, <2>1, <2>2 DEF CoreTypeOK
<1>3. CASE Tick
  BY <1>0, <1>3 DEF Tick, CoreTypeOK
<1> QED BY <1>1, <1>2, <1>3 DEF CoreNext

-----------------------------------------------------------------------------

\* An existing account's fields that decide its place in the forest.
SamePlace(n) ==
    /\ sub'[n].parent = sub[n].parent
    /\ sub'[n].issuer = sub[n].issuer
    /\ sub'[n].depth = sub[n].depth
    /\ tree'[n] = tree[n]

Added(issuer, agent, parent, depth, cap, expires, core) ==
    /\ agent \in Keys /\ issuer \in Keys /\ core \in Agents
    /\ cap \in SubCaps /\ expires \in Expiries
    /\ IF parent = NoParent
       THEN depth = 1 /\ core = issuer
       ELSE /\ parent = issuer /\ issuer \in DOMAIN sub
            /\ sub[issuer].depth < MaxDepth
            /\ depth = sub[issuer].depth + 1
            /\ core = tree[issuer]
    /\ NewSubGrant(issuer, agent, parent, depth, cap, expires, core)
    /\ UNCHANGED <<coreVars, own>>

-----------------------------------------------------------------------------
LEMMA IssueAdds ==
    ASSUME SubGrantTypeOK,
           NEW issuer \in Keys, NEW agent \in Keys, NEW core \in Agents,
           NEW withParent \in BOOLEAN, NEW cap \in SubCaps, NEW expires \in Expiries,
           Issue(issuer, agent, core, withParent, cap, expires)
    PROVE  \E parent \in Keys \cup {NoParent}, depth \in 1 .. MaxDepth, top \in Agents :
              Added(issuer, agent, parent, depth, cap, expires, top)
<1>1. CASE withParent
  <2>1. /\ issuer \in DOMAIN sub
        /\ sub[issuer].depth < MaxDepth
        /\ NewSubGrant(issuer, agent, issuer, sub[issuer].depth + 1, cap, expires, tree[issuer])
        /\ UNCHANGED <<coreVars, own>>
    BY <1>1 DEF Issue, BelowParent
  <2>2. issuer # NoParent /\ sub[issuer].depth + 1 \in 1 .. MaxDepth /\ tree[issuer] \in Agents
    BY <2>1, SubGrantAssumption DEF SubGrantTypeOK, SubGrant
  <2>3. Added(issuer, agent, issuer, sub[issuer].depth + 1, cap, expires, tree[issuer])
    BY <2>1, <2>2 DEF Added
  <2> QED BY <2>2, <2>3
<1>2. CASE ~withParent
  <2>1. /\ core = issuer
        /\ NewSubGrant(issuer, agent, NoParent, 1, cap, expires, core)
        /\ UNCHANGED <<coreVars, own>>
    BY <1>2 DEF Issue, DirectlyBelow
  <2>2. 1 \in 1 .. MaxDepth
    BY SubGrantAssumption
  <2>3. Added(issuer, agent, NoParent, 1, cap, expires, core)
    BY <2>1 DEF Added
  <2> QED BY <2>2, <2>3
<1> QED BY <1>1, <1>2

\* Revising and revoking write one account and leave its place alone.
LEMMA ManageStep ==
    ASSUME SubGrantTypeOK, NEW authority, NEW n \in DOMAIN sub,
           \/ \E cap \in SubCaps, expires \in Expiries : Revise(authority, n, cap, expires)
           \/ Revoke(authority, n)
    PROVE  /\ DOMAIN sub' = DOMAIN sub /\ sub' \in [DOMAIN sub -> SubGrant]
           /\ UNCHANGED <<coreVars, own, tree>>
           /\ \A m \in DOMAIN sub :
                 /\ SamePlace(m)
                 /\ sub'[m].spent = sub[m].spent
                 /\ sub[m].spent <= sub[m].cap => sub[m].spent <= sub'[m].cap
<1>0. sub \in [DOMAIN sub -> SubGrant]
  BY DEF SubGrantTypeOK
<1>1. ASSUME NEW cap \in SubCaps, NEW expires \in Expiries, Revise(authority, n, cap, expires)
      PROVE  /\ DOMAIN sub' = DOMAIN sub /\ sub' \in [DOMAIN sub -> SubGrant]
             /\ UNCHANGED <<coreVars, own, tree>>
             /\ \A m \in DOMAIN sub :
                   /\ SamePlace(m)
                   /\ sub'[m].spent = sub[m].spent
                   /\ sub[m].spent <= sub[m].cap => sub[m].spent <= sub'[m].cap
  <2>1. cap \in Nat /\ expires \in Int
    BY SubGrantAssumption
  <2>2. /\ sub' = [sub EXCEPT ![n].cap = cap, ![n].expires = expires]
        /\ cap >= sub[n].spent
        /\ UNCHANGED <<coreVars, own, tree>>
    BY <1>1 DEF Revise
  <2>3. sub' = [sub EXCEPT ![n] = [sub[n] EXCEPT !.cap = cap, !.expires = expires]]
    BY <1>0, <2>2 DEF SubGrant
  <2>4. [sub[n] EXCEPT !.cap = cap, !.expires = expires] \in SubGrant
    BY <1>0, <2>1 DEF SubGrant
  <2>5. DOMAIN sub' = DOMAIN sub /\ sub' \in [DOMAIN sub -> SubGrant]
    BY <1>0, <2>3, <2>4
  <2>6. sub[n].spent \in Nat
    BY <1>0 DEF SubGrant
  <2> QED BY <1>0, <2>1, <2>2, <2>3, <2>5, <2>6 DEF SamePlace, SubGrant
<1>2. CASE Revoke(authority, n)
  <2>1. /\ sub' = [sub EXCEPT ![n] = [sub[n] EXCEPT !.revoked = TRUE]]
        /\ UNCHANGED <<coreVars, own, tree>>
    BY <1>2 DEF Revoke
  <2>2. [sub[n] EXCEPT !.revoked = TRUE] \in SubGrant
    BY <1>0 DEF SubGrant
  <2> QED BY <1>0, <2>1, <2>2 DEF SamePlace, SubGrant
<1> QED BY <1>1, <1>2

\* The sub-grants a chain names.
Nodes(chain) == {chain[i] : i \in 1 .. Len(chain)}

\* A chain the walk accepts holds its spender and, with every sub-grant, that
\* sub-grant's parent: nothing above the spender can be left out of it.
LEMMA WalkedChainIsClosed ==
    ASSUME SubGrantTypeOK, NEW chain \in Chains, NEW spender, NEW amount,
           WalkAllows(chain, spender, amount)
    PROVE  /\ Nodes(chain) \subseteq DOMAIN sub
           /\ spender \in Nodes(chain)
           /\ \A n \in Nodes(chain) : NodeAllows(n, amount)
           /\ \A n \in Nodes(chain) : sub[n].parent \in Nodes(chain) \cup {NoParent}
<1>1. PICK len \in 1 .. MaxDepth : chain \in [1 .. len -> DOMAIN sub]
  BY DEF Chains
<1>2. chain \in Seq(DOMAIN sub) /\ Len(chain) = len
  BY <1>1
<1>3. len \in Nat /\ len >= 1
  BY SubGrantAssumption
<1>4. Nodes(chain) \subseteq DOMAIN sub
  BY <1>1, <1>2 DEF Nodes
<1>5. spender \in Nodes(chain)
  BY <1>2, <1>3 DEF WalkAllows, Nodes
<1>6. \A n \in Nodes(chain) : NodeAllows(n, amount)
  BY DEF WalkAllows, Nodes
<1>7. ASSUME NEW i \in 1 .. len
      PROVE  sub[chain[i]].parent \in Nodes(chain) \cup {NoParent}
  <2>1. CASE i = len
    BY <1>2, <2>1 DEF WalkAllows, ReachesTop
  <2>2. CASE i # len
    <3>1. i + 1 \in 2 .. Len(chain) /\ i + 1 \in 1 .. Len(chain) /\ (i + 1) - 1 = i
      BY <1>2, <1>3, <2>2
    <3>2. sub[chain[(i + 1) - 1]].parent = chain[i + 1]
      BY <3>1 DEF WalkAllows, Linked
    <3> QED BY <3>1, <3>2 DEF Nodes
  <2> QED BY <2>1, <2>2
<1> QED BY <1>2, <1>4, <1>5, <1>6, <1>7 DEF Nodes

\* Metering charges the chain, all of it and nothing else.
LEMMA MeterStep ==
    ASSUME SubGrantTypeOK, SubSpendWithinCap,
           NEW chain \in Chains, NEW spender \in DOMAIN sub, NEW amount \in Amounts,
           Meter(chain, spender, amount)
    PROVE  /\ DOMAIN sub' = DOMAIN sub /\ sub' \in [DOMAIN sub -> SubGrant]
           /\ UNCHANGED <<coreVars, tree>>
           /\ own' = [own EXCEPT ![spender] = @ + amount]
           /\ Nodes(chain) \subseteq DOMAIN sub /\ spender \in Nodes(chain)
           /\ \A n \in Nodes(chain) : /\ NodeAllows(n, amount)
                                      /\ sub[n].parent \in Nodes(chain) \cup {NoParent}
           /\ \A n \in DOMAIN sub :
                 /\ SamePlace(n)
                 /\ sub'[n].cap = sub[n].cap
                 /\ sub'[n].expires = sub[n].expires
                 /\ sub'[n].revoked = sub[n].revoked
                 /\ sub'[n].spent = sub[n].spent + (IF n \in Nodes(chain) THEN amount ELSE 0)
                 /\ sub'[n].spent <= sub'[n].cap
<1>0. sub \in [DOMAIN sub -> SubGrant] /\ amount \in Nat
  BY SubGrantAssumption DEF SubGrantTypeOK
<1>1. /\ Nodes(chain) \subseteq DOMAIN sub
      /\ spender \in Nodes(chain)
      /\ \A n \in Nodes(chain) : /\ NodeAllows(n, amount)
                                 /\ sub[n].parent \in Nodes(chain) \cup {NoParent}
  BY WalkedChainIsClosed DEF Meter
<1>2. /\ sub' = [n \in DOMAIN sub |-> IF n \in Nodes(chain)
                                      THEN [sub[n] EXCEPT !.spent = @ + amount] ELSE sub[n]]
      /\ UNCHANGED <<coreVars, tree>>
      /\ own' = [own EXCEPT ![spender] = @ + amount]
  BY DEF Meter, Nodes
<1>3. ASSUME NEW n \in DOMAIN sub
      PROVE  /\ sub'[n] \in SubGrant
             /\ SamePlace(n)
             /\ sub'[n].cap = sub[n].cap
             /\ sub'[n].expires = sub[n].expires
             /\ sub'[n].revoked = sub[n].revoked
             /\ sub'[n].spent = sub[n].spent + (IF n \in Nodes(chain) THEN amount ELSE 0)
             /\ sub'[n].spent <= sub'[n].cap
  <2>1. sub[n] \in SubGrant /\ sub[n].spent \in Nat /\ sub[n].cap \in Nat
        /\ sub[n].spent <= sub[n].cap
    BY <1>0 DEF SubGrant, SubSpendWithinCap
  <2>2. CASE n \in Nodes(chain)
    <3>1. sub'[n] = [sub[n] EXCEPT !.spent = sub[n].spent + amount]
      BY <1>2, <2>2
    <3>2. sub[n].spent + amount <= sub[n].cap
      BY <1>0, <1>1, <2>1, <2>2 DEF NodeAllows, Headroom
    <3> QED BY <1>0, <1>2, <2>1, <2>2, <3>1, <3>2 DEF SamePlace, SubGrant
  <2>3. CASE n \notin Nodes(chain)
    BY <1>2, <2>1, <2>3 DEF SamePlace
  <2> QED BY <2>2, <2>3
<1>4. DOMAIN sub' = DOMAIN sub /\ sub' \in [DOMAIN sub -> SubGrant]
  BY <1>2, <1>3
<1> QED BY <1>1, <1>2, <1>3, <1>4

-----------------------------------------------------------------------------
(* The invariant, and its preservation by each kind of step.               *)

\* A parent is charged whatever each of its children is.
ParentPaysToo ==
    \A n \in DOMAIN sub : sub[n].parent # NoParent => sub[n].spent <= sub[sub[n].parent].spent

(* SubSpendWithinCap is inductive once the types are; ParentPaysToo needs   *)
(* Forest, which gives every child a parent that exists for ever.           *)
SubGrantInv ==
    /\ SubGrantTypeOK
    /\ Forest
    /\ SubSpendWithinCap
    /\ ParentPaysToo

LEMMA SubGrantInvInit == SubGrantInit => SubGrantInv
<1> SUFFICES ASSUME SubGrantInit PROVE SubGrantInv
  OBVIOUS
<1>1. CoreTypeOK
  BY CoreAssumption DEF SubGrantInit, CoreInit, CoreTypeOK
<1>2. DOMAIN sub = {} /\ DOMAIN tree = {}
  BY DEF SubGrantInit
<1>3. SubGrantTypeOK
  BY <1>1, <1>2 DEF SubGrantInit, SubGrantTypeOK
<1> QED BY <1>2, <1>3 DEF SubGrantInv, Forest, SubSpendWithinCap, ParentPaysToo

LEMMA AddedKeepsInv ==
    ASSUME SubGrantInv,
           NEW issuer \in Keys, NEW agent \in Keys, NEW parent \in Keys \cup {NoParent},
           NEW depth \in 1 .. MaxDepth, NEW cap \in SubCaps, NEW expires \in Expiries,
           NEW core \in Agents,
           Added(issuer, agent, parent, depth, cap, expires, core)
    PROVE  SubGrantInv'
<1> DEFINE new == [parent |-> parent, issuer |-> issuer, cap |-> cap, spent |-> 0,
                   expires |-> expires, revoked |-> FALSE, depth |-> depth]
<1>0. /\ SubGrantTypeOK
      /\ sub \in [DOMAIN sub -> SubGrant]
      /\ cap \in Nat /\ expires \in Int
  BY SubGrantAssumption DEF SubGrantInv, SubGrantTypeOK
<1>1. new \in SubGrant
  BY <1>0 DEF SubGrant
<1>2. /\ agent \notin DOMAIN sub
      /\ sub' = [n \in DOMAIN sub \cup {agent} |-> IF n \in DOMAIN sub THEN sub[n] ELSE new]
      /\ tree' = [n \in DOMAIN sub \cup {agent} |-> IF n \in DOMAIN sub THEN tree[n] ELSE core]
      /\ UNCHANGED <<coreVars, own>>
  BY DEF Added, NewSubGrant
<1>3. /\ DOMAIN sub' = DOMAIN sub \cup {agent}
      /\ sub'[agent] = new /\ tree'[agent] = core
      /\ \A n \in DOMAIN sub : sub'[n] = sub[n] /\ tree'[n] = tree[n]
  BY <1>2
<1>4. SubGrantTypeOK'
  BY <1>0, <1>1, <1>2 DEF SubGrantTypeOK, CoreTypeOK, coreVars
<1>5. Forest'
  <2>1. /\ new.parent = parent /\ new.issuer = issuer /\ new.depth = depth
        /\ IF parent = NoParent
           THEN depth = 1 /\ core = issuer
           ELSE /\ parent = issuer /\ issuer \in DOMAIN sub
                /\ depth = sub[issuer].depth + 1
                /\ core = tree[issuer]
    BY DEF Added
  <2> QED BY <1>3, <2>1 DEF Forest, SubGrantInv
<1>6. SubSpendWithinCap'
  <2>1. new.spent <= new.cap
    BY <1>0
  <2> QED BY <1>3, <2>1 DEF SubSpendWithinCap, SubGrantInv
<1>7. ParentPaysToo'
  <2>1. parent # NoParent => parent \in DOMAIN sub /\ 0 <= sub[parent].spent
    BY <1>0 DEF Added, SubGrant
  <2>2. new.parent = parent /\ new.spent = 0
    OBVIOUS
  <2>3. \A n \in DOMAIN sub : sub[n].parent # NoParent => sub[n].parent \in DOMAIN sub
    BY DEF SubGrantInv, Forest
  <2> QED BY <1>3, <2>1, <2>2, <2>3 DEF ParentPaysToo, SubGrantInv
<1> QED BY <1>4, <1>5, <1>6, <1>7 DEF SubGrantInv

LEMMA ManageKeepsInv ==
    ASSUME SubGrantInv, NEW authority, NEW n \in DOMAIN sub,
           \/ \E cap \in SubCaps, expires \in Expiries : Revise(authority, n, cap, expires)
           \/ Revoke(authority, n)
    PROVE  SubGrantInv'
<1>0. SubGrantTypeOK /\ \A m \in DOMAIN sub : sub[m].spent <= sub[m].cap
  BY DEF SubGrantInv, SubSpendWithinCap
<1>1. /\ DOMAIN sub' = DOMAIN sub /\ sub' \in [DOMAIN sub -> SubGrant]
      /\ UNCHANGED <<coreVars, own, tree>>
      /\ \A m \in DOMAIN sub : SamePlace(m) /\ sub'[m].spent = sub[m].spent
                               /\ sub[m].spent <= sub'[m].cap
  BY <1>0, ManageStep
<1>2. SubGrantTypeOK'
  BY <1>0, <1>1 DEF SubGrantTypeOK, CoreTypeOK, coreVars
<1>3. Forest'
  BY <1>1 DEF SubGrantInv, Forest, SamePlace
<1>4. SubSpendWithinCap'
  BY <1>1 DEF SubSpendWithinCap
<1>5. ParentPaysToo'
  BY <1>1 DEF SubGrantInv, Forest, ParentPaysToo, SamePlace
<1> QED BY <1>2, <1>3, <1>4, <1>5 DEF SubGrantInv

LEMMA MeterKeepsInv ==
    ASSUME SubGrantInv,
           NEW chain \in Chains, NEW spender \in DOMAIN sub, NEW amount \in Amounts,
           Meter(chain, spender, amount)
    PROVE  SubGrantInv'
<1>0. /\ SubGrantTypeOK /\ SubSpendWithinCap /\ amount \in Nat
      /\ \A n \in DOMAIN sub : sub[n].spent \in Nat
  BY SubGrantAssumption DEF SubGrantInv, SubGrantTypeOK, SubGrant
<1>1. /\ DOMAIN sub' = DOMAIN sub /\ sub' \in [DOMAIN sub -> SubGrant]
      /\ UNCHANGED <<coreVars, tree>>
      /\ own' = [own EXCEPT ![spender] = @ + amount]
      /\ \A n \in Nodes(chain) : sub[n].parent \in Nodes(chain) \cup {NoParent}
      /\ \A n \in DOMAIN sub :
            /\ SamePlace(n)
            /\ sub'[n].spent = sub[n].spent + (IF n \in Nodes(chain) THEN amount ELSE 0)
            /\ sub'[n].spent <= sub'[n].cap
  BY <1>0, MeterStep
<1>2. SubGrantTypeOK'
  BY <1>0, <1>1 DEF SubGrantTypeOK, CoreTypeOK, coreVars
<1>3. Forest'
  BY <1>1 DEF SubGrantInv, Forest, SamePlace
<1>4. SubSpendWithinCap'
  BY <1>1 DEF SubSpendWithinCap
<1>5. ParentPaysToo'
  <2> SUFFICES ASSUME NEW n \in DOMAIN sub, sub[n].parent # NoParent
               PROVE  sub'[n].spent <= sub'[sub[n].parent].spent
    BY <1>1 DEF ParentPaysToo, SamePlace
  <2> DEFINE p == sub[n].parent
  <2>1. p \in DOMAIN sub /\ sub[n].spent <= sub[p].spent
    BY DEF SubGrantInv, Forest, ParentPaysToo
  <2>2. n \in Nodes(chain) => p \in Nodes(chain)
    BY <1>1
  <2> QED BY <1>0, <1>1, <2>1, <2>2
<1> QED BY <1>2, <1>3, <1>4, <1>5 DEF SubGrantInv

LEMMA CoreKeepsInv ==
    ASSUME SubGrantInv, CoreNext, UNCHANGED delegationVars
    PROVE  SubGrantInv'
<1>1. CoreTypeOK'
  BY CoreStepKeepsType DEF SubGrantInv, SubGrantTypeOK
<1> QED BY <1>1 DEF SubGrantInv, SubGrantTypeOK, Forest, SubSpendWithinCap, ParentPaysToo,
                    delegationVars

LEMMA SubGrantInvStep == SubGrantInv /\ [SubGrantNext]_subGrantVars => SubGrantInv'
<1> SUFFICES ASSUME SubGrantInv, [SubGrantNext]_subGrantVars PROVE SubGrantInv'
  OBVIOUS
<1>0. SubGrantTypeOK /\ Delegates \subseteq Keys
  BY DEF SubGrantInv, Keys
<1>1. CASE \E issuer \in Keys, agent \in Delegates, core \in Agents, withParent \in BOOLEAN,
              cap \in SubCaps, expires \in Expiries :
              Issue(issuer, agent, core, withParent, cap, expires)
  BY <1>0, <1>1, IssueAdds, AddedKeepsInv
<1>2. CASE \E authority \in Keys \cup {Human}, n \in DOMAIN sub :
              \/ \E cap \in SubCaps, expires \in Expiries : Revise(authority, n, cap, expires)
              \/ Revoke(authority, n)
  BY <1>2, ManageKeepsInv
<1>3. CASE \E chain \in Chains, spender \in DOMAIN sub, amount \in Amounts :
              Meter(chain, spender, amount)
  BY <1>3, MeterKeepsInv
<1>4. CASE CoreNext /\ UNCHANGED delegationVars
  BY <1>4, CoreKeepsInv
<1>5. CASE UNCHANGED subGrantVars
  BY <1>5 DEF subGrantVars, coreVars, delegationVars, SubGrantInv, SubGrantTypeOK, CoreTypeOK,
              Forest, SubSpendWithinCap, ParentPaysToo
<1> QED BY <1>1, <1>2, <1>3, <1>4, <1>5 DEF SubGrantNext

\* The invariant above holds in every reachable state.
THEOREM SubGrantInvariance == SubGrantSpec => []SubGrantInv
<1>1. SubGrantInit => SubGrantInv
  BY SubGrantInvInit
<1>2. SubGrantInv /\ [SubGrantNext]_subGrantVars => SubGrantInv'
  BY SubGrantInvStep
<1> QED BY <1>1, <1>2, PTL DEF SubGrantSpec

\* Every reachable state is well typed; in particular no depth exceeds MaxDepth.
THEOREM SubGrantTypeCorrect == SubGrantSpec => []SubGrantTypeOK
<1>1. SubGrantInv => SubGrantTypeOK
  BY DEF SubGrantInv
<1> QED BY <1>1, SubGrantInvariance, PTL

\* Delegations form a forest rooted in CORE grants, however they are issued.
THEOREM DelegationIsAForest == SubGrantSpec => []Forest
<1>1. SubGrantInv => Forest
  BY DEF SubGrantInv
<1> QED BY <1>1, SubGrantInvariance, PTL

\* No sub-grant's cap is overspent, though caps are lowered at any moment.
THEOREM SubCapsBind == SubGrantSpec => []SubSpendWithinCap
<1>1. SubGrantInv => SubSpendWithinCap
  BY DEF SubGrantInv
<1> QED BY <1>1, SubGrantInvariance, PTL

-----------------------------------------------------------------------------
(* Revocation cascades.                                                    *)

\* The walk cannot skip an ancestor: a chain that is closed upward and holds
\* n holds every ancestor of n.
LEMMA AncestorsInClosedSet ==
    ASSUME NEW n, NEW S \in SUBSET DOMAIN sub, n \in S,
           \A m \in S : sub[m].parent \in S \cup {NoParent}
    PROVE  Ancestors(n) \subseteq S
BY DEF Ancestors

\* A spend happens only under live ancestors, and charges each of them.
THEOREM RevocationCascades == SubGrantSpec => SpendsUnderLiveAncestors
<1> DEFINE Cascades ==
        \A n \in DOMAIN sub : own'[n] > own[n] =>
          \A a \in Ancestors(n) :
              /\ ~sub[a].revoked
              /\ now < sub[a].expires
              /\ sub'[a].spent - sub[a].spent = own'[n] - own[n]
<1>1. SubGrantInv /\ [SubGrantNext]_subGrantVars => [Cascades]_subGrantVars
  <2> SUFFICES ASSUME SubGrantInv, [SubGrantNext]_subGrantVars PROVE Cascades
    OBVIOUS
  <2>0. /\ SubGrantTypeOK /\ SubSpendWithinCap
        /\ own \in [Keys -> Nat] /\ DOMAIN sub \subseteq Keys
        /\ now \in Nat
        /\ \A n \in DOMAIN sub : sub[n].spent \in Nat /\ sub[n].expires \in Int
    BY DEF SubGrantInv, SubGrantTypeOK, CoreTypeOK, SubGrant
  <2>1. CASE UNCHANGED own
    BY <2>0, <2>1
  <2>2. ASSUME NEW chain \in Chains, NEW spender \in DOMAIN sub, NEW amount \in Amounts,
               Meter(chain, spender, amount)
        PROVE  Cascades
    <3>1. /\ own' = [own EXCEPT ![spender] = @ + amount]
          /\ Nodes(chain) \subseteq DOMAIN sub /\ spender \in Nodes(chain)
          /\ \A n \in Nodes(chain) : /\ NodeAllows(n, amount)
                                     /\ sub[n].parent \in Nodes(chain) \cup {NoParent}
          /\ \A n \in DOMAIN sub :
                sub'[n].spent = sub[n].spent + (IF n \in Nodes(chain) THEN amount ELSE 0)
      BY <2>0, <2>2, MeterStep
    <3>2. Ancestors(spender) \subseteq Nodes(chain)
      BY <3>1, AncestorsInClosedSet
    <3>3. amount \in Nat
      BY SubGrantAssumption
    <3>4. \A n \in DOMAIN sub : own'[n] > own[n] => n = spender /\ own'[n] - own[n] = amount
      BY <2>0, <3>1, <3>3
    <3>5. \A a \in Nodes(chain) : /\ ~sub[a].revoked
                                  /\ now < sub[a].expires
                                  /\ sub'[a].spent - sub[a].spent = amount
      BY <2>0, <3>1, <3>3 DEF NodeAllows, Unexpired
    <3> QED BY <3>2, <3>4, <3>5
  <2>3. CASE \E issuer \in Keys, agent \in Delegates, core \in Agents, withParent \in BOOLEAN,
                cap \in SubCaps, expires \in Expiries :
                Issue(issuer, agent, core, withParent, cap, expires)
    BY <2>1, <2>3 DEF Issue
  <2>4. CASE \E authority \in Keys \cup {Human}, n \in DOMAIN sub :
                \/ \E cap \in SubCaps, expires \in Expiries : Revise(authority, n, cap, expires)
                \/ Revoke(authority, n)
    BY <2>1, <2>4 DEF Revise, Revoke
  <2> QED BY <2>1, <2>2, <2>3, <2>4 DEF SubGrantNext, subGrantVars, delegationVars
<1> QED BY <1>1, SubGrantInvariance, PTL DEF SubGrantSpec, SpendsUnderLiveAncestors

-----------------------------------------------------------------------------
(* Authority only narrows.                                                 *)

\* What a step may do to an account that exists.
Narrows(n) ==
    /\ n \in DOMAIN sub'
    /\ sub'[n].parent = sub[n].parent
    /\ sub[n].revoked => sub'[n].revoked
    /\ sub'[n].expires <= sub[n].expires
    /\ Headroom(sub'[n].cap, sub'[n].spent) <= Headroom(sub[n].cap, sub[n].spent)

LEMMA StepNarrows ==
    ASSUME SubGrantInv, [SubGrantNext]_subGrantVars
    PROVE  now' >= now /\ \A n \in DOMAIN sub : Narrows(n)
<1>0. /\ SubGrantTypeOK /\ SubSpendWithinCap
      /\ now \in Nat
      /\ sub \in [DOMAIN sub -> SubGrant]
      /\ \A n \in DOMAIN sub : /\ sub[n].spent \in Nat /\ sub[n].cap \in Nat
                               /\ sub[n].expires \in Int
                               /\ sub[n].spent <= sub[n].cap
  BY DEF SubGrantInv, SubGrantTypeOK, SubSpendWithinCap, CoreTypeOK, SubGrant
<1>1. CASE UNCHANGED sub /\ now' \in {now, now + 1}
  BY <1>0, <1>1 DEF Narrows, Headroom
<1>2. CASE \E issuer \in Keys, agent \in Delegates, core \in Agents, withParent \in BOOLEAN,
              cap \in SubCaps, expires \in Expiries :
              Issue(issuer, agent, core, withParent, cap, expires)
  <2>1. UNCHANGED now /\ \A n \in DOMAIN sub : n \in DOMAIN sub' /\ sub'[n] = sub[n]
    BY <1>2 DEF Issue, NewSubGrant, coreVars
  <2> QED BY <1>0, <2>1 DEF Narrows, Headroom
<1>3. ASSUME NEW authority \in Keys \cup {Human}, NEW n \in DOMAIN sub,
             NEW cap \in SubCaps, NEW expires \in Expiries, Revise(authority, n, cap, expires)
      PROVE  now' >= now /\ \A m \in DOMAIN sub : Narrows(m)
  <2>1. cap \in Nat /\ expires \in Int
    BY SubGrantAssumption
  <2>2. /\ sub' = [sub EXCEPT ![n].cap = cap, ![n].expires = expires]
        /\ cap <= sub[n].cap /\ cap >= sub[n].spent /\ expires <= sub[n].expires
        /\ UNCHANGED now
    BY <1>3 DEF Revise, coreVars
  <2>3. sub' = [sub EXCEPT ![n] = [sub[n] EXCEPT !.cap = cap, !.expires = expires]]
    BY <1>0, <2>2 DEF SubGrant
  <2>4. /\ sub'[n].parent = sub[n].parent /\ sub'[n].revoked = sub[n].revoked
        /\ sub'[n].spent = sub[n].spent /\ sub'[n].cap = cap /\ sub'[n].expires = expires
    BY <1>0, <2>3 DEF SubGrant
  <2>5. \A m \in DOMAIN sub \ {n} : m \in DOMAIN sub' /\ sub'[m] = sub[m]
    BY <1>0, <2>3
  <2>6. n \in DOMAIN sub'
    BY <2>3
  <2>7. Narrows(n)
    BY <1>0, <2>1, <2>2, <2>4, <2>6 DEF Narrows, Headroom
  <2>8. \A m \in DOMAIN sub \ {n} : Narrows(m)
    BY <1>0, <2>5 DEF Narrows, Headroom
  <2> QED BY <1>0, <2>2, <2>7, <2>8
<1>4. ASSUME NEW authority \in Keys \cup {Human}, NEW n \in DOMAIN sub, Revoke(authority, n)
      PROVE  now' >= now /\ \A m \in DOMAIN sub : Narrows(m)
  <2>1. sub' = [sub EXCEPT ![n] = [sub[n] EXCEPT !.revoked = TRUE]] /\ UNCHANGED now
    BY <1>4 DEF Revoke, coreVars
  <2> QED BY <1>0, <2>1 DEF Narrows, Headroom, SubGrant
<1>5. ASSUME NEW chain \in Chains, NEW spender \in DOMAIN sub, NEW amount \in Amounts,
             Meter(chain, spender, amount)
      PROVE  now' >= now /\ \A n \in DOMAIN sub : Narrows(n)
  <2>1. /\ DOMAIN sub' = DOMAIN sub
        /\ UNCHANGED now
        /\ \A n \in DOMAIN sub :
              /\ SamePlace(n)
              /\ sub'[n].cap = sub[n].cap
              /\ sub'[n].expires = sub[n].expires
              /\ sub'[n].revoked = sub[n].revoked
              /\ sub'[n].spent = sub[n].spent + (IF n \in Nodes(chain) THEN amount ELSE 0)
              /\ sub'[n].spent <= sub'[n].cap
    BY <1>0, <1>5, MeterStep DEF coreVars
  <2>2. amount \in Nat
    BY SubGrantAssumption
  <2> QED BY <1>0, <2>1, <2>2 DEF Narrows, SamePlace, Headroom
<1>6. CASE CoreNext /\ UNCHANGED delegationVars
  BY <1>0, <1>1, <1>6 DEF CoreNext, ReviseGrant, RevokeGrant, Tick, delegationVars
<1>7. CASE UNCHANGED subGrantVars
  BY <1>0, <1>1, <1>7 DEF subGrantVars, coreVars, delegationVars
<1> QED BY <1>2, <1>3, <1>4, <1>5, <1>6, <1>7 DEF SubGrantNext

\* Nothing that happens elsewhere takes an ancestor away.
LEMMA AncestorsStay ==
    ASSUME SubGrantInv, \A m \in DOMAIN sub : Narrows(m), NEW n \in DOMAIN sub
    PROVE  Ancestors(n) \subseteq Ancestors(n)'
<1> SUFFICES ASSUME NEW a \in Ancestors(n),
                    NEW T \in SUBSET DOMAIN sub',
                    n \in T,
                    \A m \in T : sub'[m].parent \in T \cup {NoParent}
             PROVE  a \in DOMAIN sub' /\ a \in T
  BY DEF Ancestors, Narrows
<1> DEFINE S == T \cap DOMAIN sub
<1>1. \A m \in S : sub[m].parent \in S \cup {NoParent}
  BY DEF Narrows, SubGrantInv, Forest
<1>2. Ancestors(n) \subseteq S
  BY <1>1, AncestorsInClosedSet
<1> QED BY <1>2

\* No step of anyone lets a holder spend what it could not spend before.
THEOREM DelegationOnlyNarrows == SubGrantSpec => AuthorityOnlyNarrows
<1> DEFINE Narrowing ==
        \A n \in DOMAIN sub :
          /\ n \in DOMAIN sub'
          /\ \A amount \in Amounts : MaySpend(n, amount)' => MaySpend(n, amount)
<1>1. SubGrantInv /\ [SubGrantNext]_subGrantVars => [Narrowing]_subGrantVars
  <2> SUFFICES ASSUME SubGrantInv, [SubGrantNext]_subGrantVars PROVE Narrowing
    OBVIOUS
  <2>1. now' >= now /\ \A m \in DOMAIN sub : Narrows(m)
    BY StepNarrows
  <2> SUFFICES ASSUME NEW n \in DOMAIN sub, NEW amount \in Amounts, MaySpend(n, amount)'
               PROVE  MaySpend(n, amount)
    BY <2>1 DEF Narrows
  <2>2. Ancestors(n) \subseteq Ancestors(n)' /\ Ancestors(n) \subseteq DOMAIN sub
    BY <2>1, AncestorsStay DEF Ancestors
  <2>3. ASSUME NEW a \in Ancestors(n), NodeAllows(a, amount)'
        PROVE  NodeAllows(a, amount)
    <3>1. Narrows(a) /\ SubGrantTypeOK /\ SubGrantTypeOK'
      BY <2>1, <2>2, SubGrantInvStep DEF SubGrantInv
    <3>2. /\ amount \in Nat /\ now \in Nat /\ now' \in Nat
          /\ sub[a] \in SubGrant /\ sub'[a] \in SubGrant
      BY <2>2, <3>1, SubGrantAssumption DEF Narrows, SubGrantTypeOK, CoreTypeOK
    <3>3. sub[a].expires \in Int /\ sub'[a].expires \in Int
      BY <3>2 DEF SubGrant
    <3>4. Headroom(sub[a].cap, sub[a].spent) \in Nat /\ Headroom(sub'[a].cap, sub'[a].spent) \in Nat
      BY <3>2 DEF SubGrant, Headroom
    <3>5. /\ ~sub'[a].revoked
          /\ sub'[a].expires > now'
          /\ Headroom(sub'[a].cap, sub'[a].spent) >= amount
      BY <2>3 DEF NodeAllows, Unexpired, Headroom
    <3> QED BY <2>1, <3>1, <3>2, <3>3, <3>4, <3>5 DEF NodeAllows, Unexpired, Narrows
  <2> QED BY <2>2, <2>3 DEF MaySpend
<1> QED BY <1>1, SubGrantInvariance, PTL DEF SubGrantSpec, AuthorityOnlyNarrows

-----------------------------------------------------------------------------
(* Metering walks up.                                                      *)

SpentBelow(n) == SumOver([c \in DOMAIN sub |-> sub[c].spent], Children(n))

(* The inductive form.  A sub-grant issued to a key starts at 0, and so    *)
(* must what that key has spent as a leaf.                                 *)
WalksUp ==
    /\ MeteringWalksUp
    /\ \A n \in Keys \ DOMAIN sub : own[n] = 0

\* Depth falls by one at each step of a chain the walk accepts ...
LEMMA ChainRises ==
    ASSUME SubGrantTypeOK, Forest, NEW len \in 1 .. MaxDepth,
           NEW chain \in [1 .. len -> DOMAIN sub], Linked(chain)
    PROVE  \A i \in 1 .. len : sub[chain[i]].depth + i = sub[chain[1]].depth + 1
<1>0. /\ MaxDepth \in Nat /\ len \in Nat /\ len >= 1 /\ Len(chain) = len
      /\ \A n \in DOMAIN sub : sub[n].depth \in Nat /\ n # NoParent
  BY SubGrantAssumption DEF SubGrantTypeOK, SubGrant
<1> DEFINE Bad == {i \in 1 .. len : sub[chain[i]].depth + i # sub[chain[1]].depth + 1}
<1>1. ASSUME Bad # {} PROVE FALSE
  <2>1. Bad \subseteq Nat
    BY <1>0
  <2>2. PICK m \in Bad : \A i \in Bad : m <= i
    <3> HIDE DEF Bad
    <3> QED BY <1>1, <2>1, LeastNumber
  <2>3. m \in 1 .. len /\ m # 1
    BY <1>0
  <2>4. m - 1 \in 1 .. len /\ m \in 2 .. Len(chain) /\ m - 1 < m
    BY <1>0, <2>3
  <2>5. m - 1 \notin Bad
    BY <1>0, <2>2, <2>3, <2>4
  <2>6. sub[chain[m - 1]].depth + (m - 1) = sub[chain[1]].depth + 1
    BY <2>4, <2>5
  <2>7. sub[chain[m - 1]].parent = chain[m]
    BY <2>4 DEF Linked
  <2>8. chain[m - 1] \in DOMAIN sub /\ chain[m] \in DOMAIN sub /\ chain[m] # NoParent
    BY <1>0, <2>3, <2>4
  <2>9. sub[chain[m - 1]].depth = sub[chain[m]].depth + 1
    BY <2>7, <2>8 DEF Forest
  <2> QED BY <1>0, <2>2, <2>3, <2>6, <2>8, <2>9
<1> QED BY <1>1

\* ... so no sub-grant is on it twice, and each one but the spender has exactly
\* one child on it: the one metered just before.
LEMMA OneChildIsMetered ==
    ASSUME SubGrantTypeOK, Forest,
           NEW chain \in Chains, NEW spender \in DOMAIN sub, NEW amount,
           WalkAllows(chain, spender, amount)
    PROVE  /\ Children(spender) \cap Nodes(chain) = {}
           /\ \A n \in DOMAIN sub \ Nodes(chain) : Children(n) \cap Nodes(chain) = {}
           /\ \A n \in Nodes(chain) \ {spender} :
                 \E c \in Children(n) : Children(n) \cap Nodes(chain) = {c}
<1>1. PICK len \in 1 .. MaxDepth : chain \in [1 .. len -> DOMAIN sub]
  BY DEF Chains
<1>2. /\ len \in Nat /\ len >= 1 /\ Len(chain) = len
      /\ Nodes(chain) = {chain[i] : i \in 1 .. len}
      /\ chain[1] = spender /\ Linked(chain) /\ sub[chain[len]].parent = NoParent
      /\ \A n \in DOMAIN sub : sub[n].depth \in Nat /\ n # NoParent
  <2>1. len \in Nat /\ len >= 1 /\ Len(chain) = len
    BY <1>1, SubGrantAssumption
  <2>2. Nodes(chain) = {chain[i] : i \in 1 .. len}
    BY <2>1 DEF Nodes
  <2>3. chain[1] = spender /\ Linked(chain) /\ sub[chain[len]].parent = NoParent
    BY <2>1 DEF WalkAllows, ReachesTop
  <2>4. \A n \in DOMAIN sub : sub[n].depth \in Nat /\ n # NoParent
    BY SubGrantAssumption DEF SubGrantTypeOK, SubGrant
  <2> QED BY <2>1, <2>2, <2>3, <2>4
<1>3. \A i \in 1 .. len : sub[chain[i]].depth + i = sub[chain[1]].depth + 1
  BY <1>1, <1>2, ChainRises
<1>4. ASSUME NEW i \in 1 .. len, NEW j \in 1 .. len, chain[i] = chain[j]
      PROVE  i = j
  <2>1. sub[chain[i]].depth + i = sub[chain[j]].depth + j
    BY <1>3
  <2>2. sub[chain[i]].depth \in Nat
    BY <1>1, <1>2
  <2> QED BY <1>2, <1>4, <2>1, <2>2
<1>5. ASSUME NEW n \in DOMAIN sub, NEW c \in Children(n) \cap Nodes(chain)
      PROVE  \E j \in 1 .. len : j + 1 \in 1 .. len /\ c = chain[j] /\ n = chain[j + 1]
  <2>1. PICK j \in 1 .. len : c = chain[j]
    BY <1>2, <1>5
  <2>2. sub[chain[j]].parent = n
    BY <2>1 DEF Children
  <2>3. j # len
    BY <1>2, <2>2
  <2>4. j + 1 \in 1 .. len /\ j + 1 \in 2 .. Len(chain) /\ (j + 1) - 1 = j
    BY <1>2, <2>3
  <2>5. sub[chain[(j + 1) - 1]].parent = chain[j + 1]
    BY <1>2, <2>4 DEF Linked
  <2> QED BY <2>1, <2>2, <2>4, <2>5
<1>6. Children(spender) \cap Nodes(chain) = {}
  <2> SUFFICES ASSUME NEW c \in Children(spender) \cap Nodes(chain) PROVE FALSE
    OBVIOUS
  <2>1. PICK j \in 1 .. len : j + 1 \in 1 .. len /\ spender = chain[j + 1]
    BY <1>5
  <2>2. 1 \in 1 .. len /\ j + 1 # 1
    BY <1>2
  <2> QED BY <1>2, <1>4, <2>1, <2>2
<1>7. ASSUME NEW n \in DOMAIN sub \ Nodes(chain), NEW c \in Children(n) \cap Nodes(chain)
      PROVE  FALSE
  BY <1>2, <1>5
<1>8. ASSUME NEW n \in Nodes(chain) \ {spender}
      PROVE  \E c \in Children(n) : Children(n) \cap Nodes(chain) = {c}
  <2>1. PICK i \in 1 .. len : n = chain[i]
    BY <1>2
  <2>2. /\ i - 1 \in 1 .. len /\ i \in 2 .. Len(chain)
        /\ n \in DOMAIN sub /\ chain[i - 1] \in DOMAIN sub
    BY <1>1, <1>2, <2>1
  <2>3. chain[i - 1] \in Children(n) /\ chain[i - 1] \in Nodes(chain)
    BY <1>2, <2>1, <2>2 DEF Linked, Children
  <2>4. ASSUME NEW c \in Children(n) \cap Nodes(chain) PROVE c = chain[i - 1]
    <3>1. PICK j \in 1 .. len : j + 1 \in 1 .. len /\ c = chain[j] /\ n = chain[j + 1]
      BY <1>5, <2>2
    <3>2. j + 1 = i
      BY <1>4, <2>1, <3>1
    <3>3. j = i - 1
      BY <3>2
    <3> QED BY <3>1, <3>3
  <2> QED BY <2>3, <2>4
<1> QED BY <1>6, <1>7, <1>8

\* Children are finitely many.
LEMMA ChildrenFinite ==
    ASSUME SubGrantTypeOK, NEW n
    PROVE  /\ IsFiniteSet(Children(n)) /\ Children(n) \subseteq DOMAIN sub
           /\ \A c \in Children(n) : sub[c].spent \in Int
BY SubGrantAssumption, FS_Subset DEF Children, SubGrantTypeOK, SubGrant

\* A step that keeps every account and what was spent from it keeps the books.
LEMMA SameBooks ==
    ASSUME SubGrantTypeOK, WalksUp, UNCHANGED own, DOMAIN sub' = DOMAIN sub,
           \A n \in DOMAIN sub : /\ sub'[n].parent = sub[n].parent
                                 /\ sub'[n].spent = sub[n].spent
    PROVE  WalksUp'
<1>1. \A n \in DOMAIN sub : Children(n)' = Children(n)
  BY DEF Children
<1>2. [c \in DOMAIN sub |-> sub[c].spent]' = [c \in DOMAIN sub |-> sub[c].spent]
  OBVIOUS
<1>3. \A n \in DOMAIN sub : SpentBelow(n)' = SpentBelow(n)
  BY <1>1, <1>2 DEF SpentBelow
<1> QED BY <1>3 DEF WalksUp, MeteringWalksUp, SpentBelow

\* A new sub-grant starts at 0, has no children, and adds nothing to its parent's.
LEMMA AddedKeepsBooks ==
    ASSUME SubGrantInv, WalksUp,
           NEW issuer \in Keys, NEW agent \in Keys, NEW parent \in Keys \cup {NoParent},
           NEW depth \in 1 .. MaxDepth, NEW cap \in SubCaps, NEW expires \in Expiries,
           NEW core \in Agents,
           Added(issuer, agent, parent, depth, cap, expires, core)
    PROVE  WalksUp'
<1> DEFINE f == [c \in DOMAIN sub |-> sub[c].spent]
           g == [c \in DOMAIN sub' |-> sub'[c].spent]
<1>1. /\ SubGrantTypeOK /\ SubGrantTypeOK' /\ UNCHANGED own
      /\ agent \notin DOMAIN sub /\ agent # NoParent
      /\ parent # NoParent => parent \in DOMAIN sub
      /\ DOMAIN sub' = DOMAIN sub \cup {agent}
      /\ sub'[agent].parent = parent /\ sub'[agent].spent = 0
      /\ \A n \in DOMAIN sub : sub'[n] = sub[n]
      /\ \A n \in DOMAIN sub : sub[n].parent # NoParent => sub[n].parent \in DOMAIN sub
  BY AddedKeepsInv, SubGrantAssumption DEF SubGrantInv, Added, NewSubGrant, Forest
<1>2. /\ g[agent] = 0
      /\ \A c \in DOMAIN sub : g[c] = f[c]
  BY <1>1
<1>3. /\ Children(agent)' = {}
      /\ \A n \in DOMAIN sub : Children(n)' = IF n = parent THEN Children(n) \cup {agent}
                                              ELSE Children(n)
  BY <1>1 DEF Children
<1>4. \A n : SpentBelow(n) = SumOver(f, Children(n)) /\ SpentBelow(n)' = SumOver(g, Children(n)')
  BY DEF SpentBelow
<1>5. ASSUME NEW n \in DOMAIN sub PROVE SpentBelow(n)' = SpentBelow(n)
  <2>1. IsFiniteSet(Children(n)) /\ agent \notin Children(n)
    BY <1>1, ChildrenFinite
  <2>2. \A c \in Children(n) : g[c] = f[c] /\ g[c] \in Int
    <3>1. \A c \in Children(n) : c \in DOMAIN sub /\ sub[c].spent \in Int
      BY <1>1, ChildrenFinite
    <3> QED BY <1>1, <3>1
  <2> HIDE DEF f, g
  <2>3. SumOver(f, Children(n)) = SumOver(g, Children(n))
    BY <2>1, <2>2, SumEqual
  <2>4. CASE n = parent
    <3> DEFINE T == Children(n) \cup {agent}
    <3>1. Children(n)' = T /\ T \ {agent} = Children(n) /\ agent \in T
      BY <1>3, <2>1, <2>4
    <3>2. IsFiniteSet(T) /\ \A c \in T : g[c] \in Int
      BY <1>2, <2>1, <2>2, FS_AddElement
    <3> HIDE DEF T
    <3>3. SumOver(g, T) = g[agent] + SumOver(g, T \ {agent})
      BY <3>1, <3>2, SumSplit
    <3>4. SumOver(g, Children(n)) \in Int
      BY <2>1, <2>2, SumType
    <3>5. SumOver(g, T) = SumOver(f, Children(n))
      <4>1. SumOver(g, T \ {agent}) = SumOver(g, Children(n))
        BY <3>1, Zenon
      <4> QED BY <1>2, <2>3, <3>3, <3>4, <4>1
    <3>6. SpentBelow(n)' = SumOver(g, Children(n)') /\ SpentBelow(n) = SumOver(f, Children(n))
      BY DEF SpentBelow, f, g
    <3> QED BY <3>1, <3>5, <3>6
  <2>5. CASE n # parent
    BY <1>3, <1>4, <2>3, <2>5
  <2> QED BY <2>4, <2>5
<1>6. SpentBelow(agent)' = 0
  BY <1>3, <1>4, SumEmpty
<1>7. own[agent] = 0
  BY <1>1 DEF WalksUp
<1>8. \A n \in DOMAIN sub : sub[n].spent = own[n] + SpentBelow(n)
  BY DEF WalksUp, MeteringWalksUp, SpentBelow
<1>9. \A n \in DOMAIN sub' : sub'[n].spent = own'[n] + SpentBelow(n)'
  BY <1>1, <1>5, <1>6, <1>7, <1>8
<1> QED BY <1>1, <1>9 DEF WalksUp, MeteringWalksUp, SpentBelow

\* Metering adds the amount to the spender itself and, at each level above, to
\* exactly one of the children.
LEMMA MeterKeepsBooks ==
    ASSUME SubGrantInv, WalksUp,
           NEW chain \in Chains, NEW spender \in DOMAIN sub, NEW amount \in Amounts,
           Meter(chain, spender, amount)
    PROVE  WalksUp'
<1> DEFINE f == [c \in DOMAIN sub |-> sub[c].spent]
           g == [c \in DOMAIN sub' |-> sub'[c].spent]
<1>0. SubGrantTypeOK /\ SubSpendWithinCap /\ Forest /\ amount \in Nat
  BY SubGrantAssumption DEF SubGrantInv
<1>1. /\ DOMAIN sub' = DOMAIN sub
      /\ own' = [own EXCEPT ![spender] = @ + amount]
      /\ spender \in Nodes(chain)
      /\ \A n \in DOMAIN sub :
            /\ sub'[n].parent = sub[n].parent
            /\ sub'[n].spent = sub[n].spent + (IF n \in Nodes(chain) THEN amount ELSE 0)
  BY <1>0, MeterStep DEF SamePlace
<1>2. /\ Children(spender) \cap Nodes(chain) = {}
      /\ \A n \in DOMAIN sub \ Nodes(chain) : Children(n) \cap Nodes(chain) = {}
      /\ \A n \in Nodes(chain) \ {spender} :
            \E c \in Children(n) : Children(n) \cap Nodes(chain) = {c}
  BY <1>0, OneChildIsMetered DEF Meter
<1>3. \A n \in DOMAIN sub : /\ SpentBelow(n) = SumOver(f, Children(n))
                            /\ SpentBelow(n)' = SumOver(g, Children(n))
  BY <1>1 DEF SpentBelow, Children
<1>4. \A n \in DOMAIN sub : SpentBelow(n) \in Int
  <2> HIDE DEF f, g
  <2>1. ASSUME NEW n \in DOMAIN sub PROVE SumOver(f, Children(n)) \in Int
    <3>1. IsFiniteSet(Children(n)) /\ \A c \in Children(n) : f[c] \in Int
      BY <1>0, ChildrenFinite DEF f
    <3> QED BY <3>1, SumType
  <2> QED BY <1>3, <2>1
<1>5. ASSUME NEW n \in DOMAIN sub
      PROVE  /\ IsFiniteSet(Children(n))
             /\ \A c \in Children(n) : f[c] \in Int /\ g[c] \in Int
             /\ \A c \in Children(n) :
                   g[c] = f[c] + (IF c \in Nodes(chain) THEN amount ELSE 0)
  BY <1>0, <1>1, ChildrenFinite
<1>6. ASSUME NEW n \in DOMAIN sub, Children(n) \cap Nodes(chain) = {}
      PROVE  SpentBelow(n)' = SpentBelow(n)
  <2>1. IsFiniteSet(Children(n)) /\ \A c \in Children(n) : g[c] = f[c]
    BY <1>5, <1>6
  <2> HIDE DEF f, g
  <2>2. SumOver(g, Children(n)) = SumOver(f, Children(n))
    BY <2>1, SumEqual
  <2> QED BY <1>3, <2>2
<1>7. ASSUME NEW n \in DOMAIN sub, NEW c \in Children(n), Children(n) \cap Nodes(chain) = {c}
      PROVE  SpentBelow(n)' = SpentBelow(n) + amount
  <2>1. /\ IsFiniteSet(Children(n)) /\ g[c] \in Int
        /\ \A x \in Children(n) : f[x] \in Int
        /\ \A x \in Children(n) \ {c} : g[x] = f[x]
    <3>1. /\ IsFiniteSet(Children(n))
          /\ \A x \in Children(n) : f[x] \in Int /\ g[x] \in Int
      BY <1>5
    <3>2. \A x \in Children(n) \ {c} : x \notin Nodes(chain)
      BY <1>7
    <3>3. \A x \in Children(n) : g[x] = f[x] + (IF x \in Nodes(chain) THEN amount ELSE 0)
      BY <1>5
    <3> HIDE DEF f, g
    <3> QED BY <3>1, <3>2, <3>3
  <2>2. g[c] - f[c] = amount
    <3>1. c \in Nodes(chain)
      BY <1>7
    <3>2. f[c] \in Int /\ g[c] = f[c] + (IF c \in Nodes(chain) THEN amount ELSE 0)
      BY <1>5
    <3> HIDE DEF f, g
    <3> QED BY <1>0, <3>1, <3>2
  <2> HIDE DEF f, g
  <2>3. SumOver(g, Children(n)) = SumOver(f, Children(n)) + (g[c] - f[c])
    BY <2>1, SumChange
  <2> QED BY <1>3, <2>2, <2>3
<1>8. \A n \in DOMAIN sub : sub[n].spent = own[n] + SpentBelow(n)
  BY DEF WalksUp, MeteringWalksUp, SpentBelow
<1>9. /\ \A n \in DOMAIN sub : sub[n].spent \in Nat
      /\ own \in [Keys -> Nat] /\ DOMAIN sub \subseteq Keys
  BY <1>0 DEF SubGrantTypeOK, SubGrant
<1>10. ASSUME NEW n \in DOMAIN sub PROVE sub'[n].spent = own'[n] + SpentBelow(n)'
  <2>1. CASE n = spender
    BY <1>0, <1>1, <1>2, <1>4, <1>6, <1>8, <1>9, <2>1
  <2>2. CASE n \in Nodes(chain) \ {spender}
    <3>1. SpentBelow(n)' = SpentBelow(n) + amount
      BY <1>2, <1>7, <2>2
    <3> QED BY <1>0, <1>1, <1>4, <1>8, <1>9, <2>2, <3>1
  <2>3. CASE n \notin Nodes(chain)
    <3>1. SpentBelow(n)' = SpentBelow(n)
      BY <1>2, <1>6, <2>3
    <3> QED BY <1>0, <1>1, <1>4, <1>8, <1>9, <2>3, <3>1
  <2> QED BY <2>1, <2>2, <2>3
<1>11. \A n \in Keys \ DOMAIN sub : own'[n] = 0
  BY <1>1, <1>9 DEF WalksUp
<1> QED BY <1>1, <1>10, <1>11 DEF WalksUp, MeteringWalksUp, SpentBelow

LEMMA WalksUpStep ==
    ASSUME SubGrantInv, WalksUp, [SubGrantNext]_subGrantVars
    PROVE  WalksUp'
<1>0. SubGrantTypeOK /\ Delegates \subseteq Keys
  BY DEF SubGrantInv, Keys
<1>1. CASE \E issuer \in Keys, agent \in Delegates, core \in Agents, withParent \in BOOLEAN,
              cap \in SubCaps, expires \in Expiries :
              Issue(issuer, agent, core, withParent, cap, expires)
  BY <1>0, <1>1, IssueAdds, AddedKeepsBooks
<1>2. ASSUME NEW authority \in Keys \cup {Human}, NEW n \in DOMAIN sub,
             \/ \E cap \in SubCaps, expires \in Expiries : Revise(authority, n, cap, expires)
             \/ Revoke(authority, n)
      PROVE  WalksUp'
  <2>1. /\ DOMAIN sub' = DOMAIN sub /\ UNCHANGED own
        /\ \A m \in DOMAIN sub : sub'[m].parent = sub[m].parent /\ sub'[m].spent = sub[m].spent
    BY <1>0, <1>2, ManageStep DEF SamePlace
  <2> QED BY <1>0, <2>1, SameBooks
<1>3. CASE \E chain \in Chains, spender \in DOMAIN sub, amount \in Amounts :
              Meter(chain, spender, amount)
  BY <1>3, MeterKeepsBooks
<1>4. CASE UNCHANGED <<sub, own>>
  BY <1>0, <1>4, SameBooks
<1> QED BY <1>1, <1>2, <1>3, <1>4 DEF SubGrantNext, subGrantVars, delegationVars

\* What was spent from a sub-grant is what its holder spent plus what was spent
\* from its children (MeteringWalksUp): each spend is metered once per level,
\* so siblings cannot together spend more than their parent has.
THEOREM SpendingWalksUp == SubGrantSpec => []MeteringWalksUp
<1>1. SubGrantInit => WalksUp
  BY DEF SubGrantInit, WalksUp, MeteringWalksUp
<1>2. SubGrantInv /\ WalksUp /\ [SubGrantNext]_subGrantVars => WalksUp'
  BY WalksUpStep
<1>3. WalksUp => MeteringWalksUp
  BY DEF WalksUp
<1> QED BY <1>1, <1>2, <1>3, SubGrantInvariance, PTL DEF SubGrantSpec
-----------------------------------------------------------------------------
(* A cap binds the whole subtree.                                          *)

\* What stands above a sub-grant is settled when it is issued.
LEMMA AncestorsAreFixed ==
    ASSUME SubGrantInv, \A m \in DOMAIN sub : Narrows(m), NEW n \in DOMAIN sub
    PROVE  Ancestors(n)' = Ancestors(n)
<1>1. Ancestors(n) \subseteq Ancestors(n)'
  BY AncestorsStay
<1>2. /\ DOMAIN sub \subseteq DOMAIN sub'
      /\ \A m \in DOMAIN sub : sub'[m].parent = sub[m].parent
      /\ \A m \in DOMAIN sub : sub[m].parent \in DOMAIN sub \cup {NoParent}
  BY DEF Narrows, SubGrantInv, Forest
<1>3. ASSUME NEW S \in SUBSET DOMAIN sub, n \in S,
             \A m \in S : sub[m].parent \in S \cup {NoParent}
      PROVE  Ancestors(n)' \subseteq S
  <2>1. S \in SUBSET DOMAIN sub' /\ \A m \in S : sub'[m].parent \in S \cup {NoParent}
    BY <1>2, <1>3
  <2> QED BY <1>3, <2>1 DEF Ancestors
<1>4. Ancestors(n)' \subseteq DOMAIN sub
  BY <1>2, <1>3
<1>5. Ancestors(n)' \subseteq Ancestors(n)
  BY <1>3, <1>4 DEF Ancestors
<1> QED BY <1>1, <1>5

\* Each link of a chain stays among the ancestors of where it started.
LEMMA ChainInAncestors ==
    ASSUME SubGrantTypeOK, NEW len \in 1 .. MaxDepth,
           NEW chain \in [1 .. len -> DOMAIN sub], Linked(chain)
    PROVE  \A i \in 1 .. len : chain[i] \in Ancestors(chain[1])
<1>1. /\ len \in Nat /\ len >= 1 /\ Len(chain) = len
      /\ \A n \in DOMAIN sub : n # NoParent
  BY SubGrantAssumption DEF SubGrantTypeOK
<1>2. ASSUME NEW S \in SUBSET DOMAIN sub, chain[1] \in S,
             \A m \in S : sub[m].parent \in S \cup {NoParent}
      PROVE  \A i \in 1 .. len : chain[i] \in S
  <2> DEFINE Bad == {i \in 1 .. len : chain[i] \notin S}
  <2>1. ASSUME Bad # {} PROVE FALSE
    <3>1. Bad \subseteq Nat
      BY <1>1
    <3>2. PICK i \in Bad : \A j \in Bad : i <= j
      <4> HIDE DEF Bad
      <4> QED BY <2>1, <3>1, LeastNumber
    <3>3. i \in 1 .. len /\ i # 1
      BY <1>1, <1>2
    <3>4. i - 1 \in 1 .. len /\ i \in 2 .. Len(chain) /\ i - 1 < i
      BY <1>1, <3>3
    <3>5. i - 1 \notin Bad
      BY <1>1, <3>2, <3>3, <3>4
    <3>6. chain[i - 1] \in S /\ sub[chain[i - 1]].parent = chain[i]
      BY <3>4, <3>5 DEF Linked
    <3>7. chain[i] # NoParent
      BY <1>1, <3>3
    <3> QED BY <1>2, <3>2, <3>6, <3>7
  <2> QED BY <2>1
<1>3. \A i \in 1 .. len : chain[i] \in DOMAIN sub
  OBVIOUS
<1> QED BY <1>2, <1>3 DEF Ancestors

\* A walk accepts only the chain of the spender's ancestors, all of them.
LEMMA ChainIsAncestors ==
    ASSUME SubGrantTypeOK,
           NEW chain \in Chains, NEW spender \in DOMAIN sub, NEW amount,
           WalkAllows(chain, spender, amount)
    PROVE  Nodes(chain) = Ancestors(spender)
<1>1. PICK len \in 1 .. MaxDepth : chain \in [1 .. len -> DOMAIN sub]
  BY DEF Chains
<1>2. Len(chain) = len /\ chain[1] = spender /\ Linked(chain)
  BY <1>1, SubGrantAssumption DEF WalkAllows
<1>3. Ancestors(spender) \subseteq Nodes(chain)
  BY WalkedChainIsClosed, AncestorsInClosedSet
<1>4. \A i \in 1 .. len : chain[i] \in Ancestors(spender)
  BY <1>1, <1>2, ChainInAncestors
<1> QED BY <1>2, <1>3, <1>4 DEF Nodes

(* The inductive form: what was metered on a sub-grant is what its subtree  *)
(* has spent.  That a new member has spent nothing is WalksUp's.            *)
SubtreeMetered == \A n \in DOMAIN sub : sub[n].spent = SumOver(own, Subtree(n))

\* Subtrees are finite, and own is a number on each of their members.
LEMMA SubtreeFinite ==
    ASSUME SubGrantTypeOK, NEW n
    PROVE  /\ IsFiniteSet(Subtree(n)) /\ Subtree(n) \subseteq DOMAIN sub
           /\ \A m \in Subtree(n) : own[m] \in Int
BY SubGrantAssumption, FS_Subset DEF Subtree, SubGrantTypeOK

\* Between the accounts that exist nothing moves.
LEMMA SubtreesKept ==
    ASSUME SubGrantInv, [SubGrantNext]_subGrantVars, NEW n \in DOMAIN sub
    PROVE  Subtree(n)' \cap DOMAIN sub = Subtree(n) /\ DOMAIN sub \subseteq DOMAIN sub'
<1>1. \A m \in DOMAIN sub : Narrows(m)
  BY StepNarrows
<1>2. \A m \in DOMAIN sub : Ancestors(m)' = Ancestors(m)
  BY <1>1, AncestorsAreFixed
<1> QED BY <1>1, <1>2 DEF Subtree, Narrows

\* A step that neither issues nor spends.
LEMMA SameSubtrees ==
    ASSUME SubGrantInv, SubtreeMetered, [SubGrantNext]_subGrantVars,
           UNCHANGED own, DOMAIN sub' = DOMAIN sub,
           \A n \in DOMAIN sub : sub'[n].spent = sub[n].spent
    PROVE  SubtreeMetered'
<1>1. ASSUME NEW n \in DOMAIN sub PROVE Subtree(n)' = Subtree(n)
  <2>1. Subtree(n)' \subseteq DOMAIN sub'
    BY DEF Subtree
  <2> QED BY <2>1, SubtreesKept
<1> QED BY <1>1 DEF SubtreeMetered

\* A new sub-grant joins the subtrees above it with nothing spent.
LEMMA IssueKeepsSubtrees ==
    ASSUME SubGrantInv, WalksUp, SubtreeMetered, [SubGrantNext]_subGrantVars,
           NEW issuer \in Keys, NEW agent \in Keys, NEW parent \in Keys \cup {NoParent},
           NEW depth \in 1 .. MaxDepth, NEW cap \in SubCaps, NEW expires \in Expiries,
           NEW core \in Agents,
           Added(issuer, agent, parent, depth, cap, expires, core)
    PROVE  SubtreeMetered'
<1>1. /\ SubGrantTypeOK /\ SubGrantTypeOK' /\ own' = own
      /\ agent \notin DOMAIN sub
      /\ DOMAIN sub' = DOMAIN sub \cup {agent}
      /\ sub'[agent].spent = 0
      /\ \A n \in DOMAIN sub : sub'[n] = sub[n]
      /\ \A n \in DOMAIN sub : sub[n].parent \in DOMAIN sub \cup {NoParent}
  BY AddedKeepsInv DEF SubGrantInv, Added, NewSubGrant, Forest
<1>2. own[agent] = 0
  BY <1>1 DEF WalksUp
<1>3. ASSUME NEW n \in DOMAIN sub PROVE SumOver(own, Subtree(n)') = SumOver(own, Subtree(n))
  <2>1. /\ IsFiniteSet(Subtree(n)') /\ \A m \in Subtree(n)' : own[m] \in Int
        /\ Subtree(n)' \subseteq DOMAIN sub \cup {agent}
    <3>1. Subtree(n)' \subseteq DOMAIN sub' /\ DOMAIN sub' \subseteq Keys /\ own \in [Keys -> Nat]
      BY <1>1 DEF Subtree, SubGrantTypeOK
    <3> QED BY <1>1, <3>1, SubGrantAssumption, FS_Subset
  <2>2. Subtree(n)' \cap DOMAIN sub = Subtree(n)
    BY SubtreesKept
  <2>3. CASE agent \in Subtree(n)'
    <3>1. SumOver(own, Subtree(n)') = own[agent] + SumOver(own, Subtree(n)' \ {agent})
      BY <2>1, <2>3, SumSplit
    <3>2. Subtree(n)' \ {agent} = Subtree(n)
      BY <1>1, <2>1, <2>2
    <3>3. SumOver(own, Subtree(n)' \ {agent}) = SumOver(own, Subtree(n))
      BY <3>2, Zenon
    <3>4. SumOver(own, Subtree(n)) \in Int
      BY <1>1, SubtreeFinite, SumType
    <3> QED BY <1>2, <3>1, <3>3, <3>4
  <2>4. CASE agent \notin Subtree(n)'
    <3>1. Subtree(n)' = Subtree(n)
      BY <2>1, <2>2, <2>4
    <3> QED BY <3>1, Zenon
  <2> QED BY <2>3, <2>4
<1>4. SumOver(own, Subtree(agent)') = 0
  <2>1. ASSUME NEW m \in DOMAIN sub PROVE agent \notin Ancestors(m)'
    <3>1. Ancestors(m)' = Ancestors(m)
      BY StepNarrows, AncestorsAreFixed
    <3> QED BY <1>1, <3>1 DEF Ancestors
  <2>2. \A m \in Subtree(agent)' : own[m] = 0
    BY <1>1, <1>2, <2>1 DEF Subtree
  <2>3. IsFiniteSet(Subtree(agent)')
    <3>1. Subtree(agent)' \subseteq {agent}
      BY <1>1, <2>1 DEF Subtree
    <3> QED BY <3>1, FS_Subset, FS_Singleton
  <2> QED BY <2>2, <2>3, SumZero
<1> QED BY <1>1, <1>3, <1>4 DEF SubtreeMetered

\* A spend is metered on the spender's ancestors, and those are the sub-grants
\* whose subtree the spender is in.
LEMMA MeterKeepsSubtrees ==
    ASSUME SubGrantInv, SubtreeMetered, [SubGrantNext]_subGrantVars,
           NEW chain \in Chains, NEW spender \in DOMAIN sub, NEW amount \in Amounts,
           Meter(chain, spender, amount)
    PROVE  SubtreeMetered'
<1>0. /\ SubGrantTypeOK /\ SubSpendWithinCap /\ amount \in Nat
      /\ own \in [Keys -> Nat] /\ DOMAIN sub \subseteq Keys
  BY SubGrantAssumption DEF SubGrantInv, SubGrantTypeOK
<1>1. /\ DOMAIN sub' = DOMAIN sub
      /\ own' = [own EXCEPT ![spender] = @ + amount]
      /\ \A n \in DOMAIN sub :
            sub'[n].spent = sub[n].spent + (IF n \in Nodes(chain) THEN amount ELSE 0)
  BY <1>0, MeterStep
<1>2. Nodes(chain) = Ancestors(spender)
  BY <1>0, ChainIsAncestors DEF Meter
<1>3. ASSUME NEW n \in DOMAIN sub
      PROVE  SumOver(own', Subtree(n))
                = SumOver(own, Subtree(n)) + (IF n \in Nodes(chain) THEN amount ELSE 0)
  <2>1. /\ IsFiniteSet(Subtree(n)) /\ Subtree(n) \subseteq DOMAIN sub
        /\ \A m \in Subtree(n) : own[m] \in Int
    BY <1>0, SubtreeFinite
  <2>2. SumOver(own, Subtree(n)) \in Int
    BY <2>1, SumType
  <2>3. CASE n \in Nodes(chain)
    <3>1. spender \in Subtree(n)
      BY <1>2, <2>3 DEF Subtree
    <3>2. /\ own'[spender] = own[spender] + amount /\ own[spender] \in Int
          /\ \A m \in Subtree(n) \ {spender} : own'[m] = own[m]
      BY <1>0, <1>1, <2>1
    <3>3. SumOver(own', Subtree(n)) = SumOver(own, Subtree(n)) + (own'[spender] - own[spender])
      <4>1. own'[spender] \in Int
        BY <1>0, <3>2
      <4> QED BY <2>1, <3>1, <3>2, <4>1, SumChange
    <3> QED BY <1>0, <2>2, <2>3, <3>2, <3>3
  <2>4. CASE n \notin Nodes(chain)
    <3>1. spender \notin Subtree(n)
      BY <1>2, <2>4 DEF Subtree
    <3>2. \A m \in Subtree(n) : own'[m] = own[m]
      BY <1>0, <1>1, <2>1, <3>1
    <3>3. SumOver(own', Subtree(n)) = SumOver(own, Subtree(n))
      BY <2>1, <3>2, SumEqual
    <3> QED BY <2>2, <2>4, <3>3
  <2> QED BY <2>3, <2>4
<1>4. ASSUME NEW n \in DOMAIN sub PROVE Subtree(n)' = Subtree(n)
  <2>1. Subtree(n)' \subseteq DOMAIN sub'
    BY DEF Subtree
  <2> QED BY <1>1, <2>1, SubtreesKept
<1>5. ASSUME NEW n \in DOMAIN sub PROVE sub'[n].spent = SumOver(own', Subtree(n)')
  <2>1. SumOver(own', Subtree(n)') = SumOver(own', Subtree(n))
    BY <1>4, Zenon
  <2>2. sub[n].spent = SumOver(own, Subtree(n))
    BY DEF SubtreeMetered
  <2> QED BY <1>1, <1>3, <2>1, <2>2
<1> QED BY <1>1, <1>5 DEF SubtreeMetered

LEMMA SubtreeMeteredStep ==
    ASSUME SubGrantInv, WalksUp, SubtreeMetered, [SubGrantNext]_subGrantVars
    PROVE  SubtreeMetered'
<1>0. SubGrantTypeOK /\ Delegates \subseteq Keys
  BY DEF SubGrantInv, Keys
<1>1. CASE \E issuer \in Keys, agent \in Delegates, core \in Agents, withParent \in BOOLEAN,
              cap \in SubCaps, expires \in Expiries :
              Issue(issuer, agent, core, withParent, cap, expires)
  BY <1>0, <1>1, IssueAdds, IssueKeepsSubtrees
<1>2. ASSUME NEW authority \in Keys \cup {Human}, NEW n \in DOMAIN sub,
             \/ \E cap \in SubCaps, expires \in Expiries : Revise(authority, n, cap, expires)
             \/ Revoke(authority, n)
      PROVE  SubtreeMetered'
  <2>1. /\ DOMAIN sub' = DOMAIN sub /\ UNCHANGED own
        /\ \A m \in DOMAIN sub : sub'[m].spent = sub[m].spent
    BY <1>0, <1>2, ManageStep
  <2> QED BY <2>1, SameSubtrees
<1>3. CASE \E chain \in Chains, spender \in DOMAIN sub, amount \in Amounts :
              Meter(chain, spender, amount)
  BY <1>3, MeterKeepsSubtrees
<1>4. CASE UNCHANGED <<sub, own>>
  BY <1>4, SameSubtrees
<1> QED BY <1>1, <1>2, <1>3, <1>4 DEF SubGrantNext, subGrantVars, delegationVars

\* A holder and everybody beneath it, at any depth, spend within its cap
\* together (SubtreeWithinCap), however the caps were issued and revised.
THEOREM CapsBindSubtrees == SubGrantSpec => []SubtreeWithinCap
<1>1. SubGrantInit => WalksUp /\ SubtreeMetered
  BY DEF SubGrantInit, WalksUp, MeteringWalksUp, SubtreeMetered
<1>2. SubGrantInv /\ WalksUp /\ SubtreeMetered /\ [SubGrantNext]_subGrantVars
      => WalksUp' /\ SubtreeMetered'
  BY WalksUpStep, SubtreeMeteredStep
<1>3. SubGrantInv /\ SubtreeMetered => SubtreeWithinCap
  BY DEF SubGrantInv, SubSpendWithinCap, SubtreeMetered, SubtreeWithinCap
<1> QED BY <1>1, <1>2, <1>3, SubGrantInvariance, PTL DEF SubGrantSpec
-----------------------------------------------------------------------------
(* Who can spend.                                                          *)

\* A chain from n to the top, as long as n is deep.
ClimbsFrom(chain, n) ==
    /\ chain \in [1 .. sub[n].depth -> DOMAIN sub]
    /\ chain[1] = n /\ Linked(chain) /\ ReachesTop(chain)

\* One more link beneath a chain that climbs from the parent.
LEMMA ClimbOneMore ==
    ASSUME SubGrantTypeOK, Forest, NEW n \in DOMAIN sub, sub[n].parent # NoParent,
           NEW above, ClimbsFrom(above, sub[n].parent)
    PROVE  \E chain : ClimbsFrom(chain, n)
<1> DEFINE p == sub[n].parent
           depth == sub[n].depth
           chain == [i \in 1 .. depth |-> IF i = 1 THEN n ELSE above[i - 1]]
<1>1. /\ p \in DOMAIN sub /\ depth = sub[p].depth + 1
      /\ sub[p].depth \in Nat /\ sub[p].depth >= 1
  BY DEF Forest, SubGrantTypeOK, SubGrant
<1>2. /\ above \in [1 .. sub[p].depth -> DOMAIN sub] /\ Len(above) = sub[p].depth
      /\ above[1] = p /\ Linked(above) /\ ReachesTop(above)
  BY <1>1 DEF ClimbsFrom
<1>3. \A i \in 2 .. depth : i - 1 \in 1 .. sub[p].depth
  BY <1>1
<1>4. chain \in [1 .. depth -> DOMAIN sub] /\ Len(chain) = depth
  BY <1>1, <1>2, <1>3
<1>5. chain[1] = n /\ \A i \in 2 .. depth : chain[i] = above[i - 1]
  BY <1>1
<1> HIDE DEF chain
<1>6. Linked(chain)
  <2> SUFFICES ASSUME NEW i \in 2 .. depth PROVE sub[chain[i - 1]].parent = chain[i]
    BY <1>4 DEF Linked
  <2>1. CASE i = 2
    BY <1>1, <1>2, <1>5, <2>1
  <2>2. CASE i # 2
    <3>1. i - 1 \in 2 .. Len(above) /\ i - 1 \in 2 .. depth
      BY <1>1, <1>2, <2>2
    <3>2. sub[above[(i - 1) - 1]].parent = above[i - 1]
      BY <1>2, <3>1 DEF Linked
    <3> QED BY <1>5, <3>1, <3>2
  <2> QED BY <2>1, <2>2
<1>7. ReachesTop(chain)
  <2>1. depth \in 2 .. depth /\ depth - 1 = sub[p].depth
    BY <1>1
  <2>2. chain[depth] = above[sub[p].depth]
    BY <1>5, <2>1
  <2> QED BY <1>2, <1>4, <2>2 DEF ReachesTop
<1> QED BY <1>4, <1>5, <1>6, <1>7 DEF ClimbsFrom

\* Every sub-grant has a chain to the top, by its depth.
LEMMA ChainToTheTop ==
    ASSUME SubGrantTypeOK, Forest
    PROVE  \A n \in DOMAIN sub : \E chain : ClimbsFrom(chain, n)
<1> DEFINE Stuck == {n \in DOMAIN sub : ~ \E chain : ClimbsFrom(chain, n)}
           Depths == {sub[n].depth : n \in Stuck}
<1>1. \A n \in DOMAIN sub : sub[n].depth \in Nat
  BY DEF SubGrantTypeOK, SubGrant
<1>2. ASSUME Stuck # {} PROVE FALSE
  <2>1. Depths \subseteq Nat /\ Depths # {}
    BY <1>1, <1>2
  <2>2. PICK d \in Depths : \A e \in Depths : d <= e
    <3> HIDE DEF Depths
    <3> QED BY <2>1, LeastNumber
  <2>3. PICK n \in Stuck : sub[n].depth = d
    BY <2>2
  <2>4. CASE sub[n].parent = NoParent
    <3> DEFINE chain == [i \in 1 .. 1 |-> n]
    <3>1. sub[n].depth = 1
      BY <2>3, <2>4 DEF Forest
    <3>2. chain \in [1 .. 1 -> DOMAIN sub] /\ Len(chain) = 1 /\ chain[1] = n
      BY <2>3
    <3> HIDE DEF chain
    <3>3. Linked(chain)
      BY <3>2 DEF Linked
    <3>4. ReachesTop(chain)
      BY <2>4, <3>2 DEF ReachesTop
    <3>5. chain \in [1 .. sub[n].depth -> DOMAIN sub]
      BY <3>1, <3>2
    <3>6. ClimbsFrom(chain, n)
      BY <3>2, <3>3, <3>4, <3>5 DEF ClimbsFrom
    <3> QED BY <2>3, <3>6
  <2>5. CASE sub[n].parent # NoParent
    <3>1. /\ sub[n].parent \in DOMAIN sub
          /\ sub[n].depth = sub[sub[n].parent].depth + 1
      BY <2>3, <2>5 DEF Forest
    <3>2. sub[sub[n].parent].depth < d /\ d \in Nat
      BY <1>1, <2>3, <3>1
    <3>3. sub[sub[n].parent].depth \notin Depths
      <4> HIDE DEF Depths
      <4> QED BY <1>1, <2>2, <3>1, <3>2
    <3>4. sub[n].parent \notin Stuck
      <4> HIDE DEF Stuck
      <4> QED BY <3>3
    <3>5. PICK above : ClimbsFrom(above, sub[n].parent)
      BY <3>1, <3>4
    <3> QED BY <2>3, <2>5, <3>5, ClimbOneMore
  <2> QED BY <2>4, <2>5
<1> QED BY <1>2

\* A holder can spend exactly when it and all its ancestors allow the amount
\* (AncestorsDecide), whatever the depth it was issued at.
THEOREM AncestorsDecideWhoSpends == SubGrantSpec => []AncestorsDecide
<1>1. ASSUME SubGrantTypeOK, Forest PROVE AncestorsDecide
  <2> SUFFICES ASSUME NEW n \in DOMAIN sub, NEW amount \in Amounts
               PROVE  MaySpend(n, amount) <=> \E chain \in Chains : WalkAllows(chain, n, amount)
    BY DEF AncestorsDecide
  <2>1. ASSUME NEW chain \in Chains, WalkAllows(chain, n, amount) PROVE MaySpend(n, amount)
    <3>1. Nodes(chain) = Ancestors(n) /\ \A m \in Nodes(chain) : NodeAllows(m, amount)
      BY <1>1, <2>1, ChainIsAncestors, WalkedChainIsClosed
    <3> QED BY <3>1 DEF MaySpend
  <2>2. ASSUME MaySpend(n, amount) PROVE \E chain \in Chains : WalkAllows(chain, n, amount)
    <3> DEFINE depth == sub[n].depth
    <3>1. PICK chain : ClimbsFrom(chain, n)
      BY <1>1, ChainToTheTop
    <3>2. depth \in 1 .. MaxDepth /\ depth \in Nat
      BY <1>1, SubGrantAssumption DEF SubGrantTypeOK, SubGrant
    <3>3. /\ chain \in [1 .. depth -> DOMAIN sub] /\ Len(chain) = depth
          /\ chain[1] = n /\ Linked(chain) /\ ReachesTop(chain)
      BY <3>1, <3>2 DEF ClimbsFrom
    <3>4. \A i \in 1 .. depth : chain[i] \in Ancestors(n)
      BY <1>1, <3>2, <3>3, ChainInAncestors
    <3>5. \A i \in 1 .. depth : NodeAllows(chain[i], amount)
      BY <2>2, <3>4 DEF MaySpend
    <3>6. chain \in Chains
      BY <3>2, <3>3 DEF Chains
    <3>7. WalkAllows(chain, n, amount)
      BY <3>2, <3>3, <3>5 DEF WalkAllows
    <3> QED BY <3>6, <3>7
  <2> QED BY <2>1, <2>2
<1>2. SubGrantInv => AncestorsDecide
  BY <1>1 DEF SubGrantInv
<1> QED BY <1>2, SubGrantInvariance, PTL
=============================================================================
