----------------------------- MODULE SubGrants -----------------------------
(***************************************************************************)
(* Delegation (sub_grant.rs): an agent that holds a CORE grant, or a       *)
(* sub-grant, hands a slice of it to another agent.  A SubGrant account    *)
(* names its parent; a spend names the whole chain up to the CORE grant,   *)
(* which the program checks and then meters.                               *)
(*                                                                         *)
(* Issuing, revising, revoking and spending are separate transactions of   *)
(* different signers, and CORE grants and the clock change between them,   *)
(* so what was true of a parent when a child was issued need not be true   *)
(* when the child spends.  The chain is the caller's claim: Meter takes    *)
(* any sequence of sub-grants.                                             *)
(***************************************************************************)
EXTENDS CoreGrant, Sequences, Sums

CONSTANTS
    Delegates,      \* keys a sub-grant may be issued to
    Human,          \* the GrokAccount's root
    NoParent,       \* Pubkey::default(), the parent of a depth-1 sub-grant
    MaxDepth,       \* MAX_SUB_DEPTH
    SubCaps,        \* caps a sub-grant may be issued with or revised to
    Expiries,       \* expires_at_unix of the same
    Amounts         \* amounts a spend may name

VARIABLES
    sub,    \* the SubGrant accounts that exist, by the agent that holds them
    own,    \* history: what each holder spent itself, as the leaf of a chain
    tree    \* history: the CORE agent the chain above each sub-grant ends at

delegationVars == <<sub, own, tree>>
subGrantVars == <<coreVars, delegationVars>>

Keys == Agents \cup Delegates

SubGrant == [parent: Keys \cup {NoParent}, issuer: Keys, cap: Nat, spent: Nat,
             expires: Int, revoked: BOOLEAN, depth: 1 .. MaxDepth]

ASSUME SubGrantAssumption ==
    /\ MaxDepth \in Nat \ {0}
    /\ NoParent \notin Keys /\ IsFiniteSet(Keys)
    /\ SubCaps \subseteq Nat /\ Expiries \subseteq Int /\ Amounts \subseteq Nat

SubGrantTypeOK ==
    /\ CoreTypeOK
    /\ DOMAIN sub \subseteq Keys
    /\ sub \in [DOMAIN sub -> SubGrant]
    /\ own \in [Keys -> Nat]
    /\ tree \in [DOMAIN sub -> Agents]

SubGrantInit ==
    /\ CoreInit
    /\ sub = [n \in {} |-> 0]
    /\ own = [n \in Keys |-> 0]
    /\ tree = [n \in {} |-> 0]

-----------------------------------------------------------------------------
Headroom(cap, spent) == IF cap >= spent THEN cap - spent ELSE 0

Unexpired(expires) == expires > now

\* What a new sub-grant hangs beneath: the issuer's CORE grant at depth 1 ...
DirectlyBelow(issuer, core, cap, expires) ==
    /\ core = issuer
    /\ cap <= Headroom(grants[core].cap, grants[core].spent)
    /\ expires <= grants[core].expires

\* ... or a live sub-grant the issuer holds.
BelowParent(issuer, cap, expires) ==
    LET parent == sub[issuer]
    IN  /\ ~parent.revoked
        /\ Unexpired(parent.expires)
        /\ parent.depth < MaxDepth
        /\ cap <= Headroom(parent.cap, parent.spent)
        /\ expires <= parent.expires

\* Mutants of NewSubGrant: init_if_needed for init; depth counted from 0.
NewSubGrantIfNeeded(issuer, agent, parent, depth, cap, expires, core) ==
    /\ sub' = [n \in DOMAIN sub \cup {agent} |->
                 IF n # agent THEN sub[n]
                 ELSE [parent |-> parent, issuer |-> issuer, cap |-> cap, spent |-> 0,
                       expires |-> expires, revoked |-> FALSE, depth |-> depth]]
    /\ tree' = [n \in DOMAIN sub \cup {agent} |-> IF n # agent THEN tree[n] ELSE core]
NewSubGrantFromZero(issuer, agent, parent, depth, cap, expires, core) ==
    /\ agent \notin DOMAIN sub
    /\ sub' = [n \in DOMAIN sub \cup {agent} |->
                 IF n \in DOMAIN sub THEN sub[n]
                 ELSE [parent |-> parent, issuer |-> issuer, cap |-> cap, spent |-> 0,
                       expires |-> expires, revoked |-> FALSE, depth |-> depth - 1]]
    /\ tree' = [n \in DOMAIN sub \cup {agent} |-> IF n \in DOMAIN sub THEN tree[n] ELSE core]

\* `init`: an agent holds at most one sub-grant, written once.
NewSubGrant(issuer, agent, parent, depth, cap, expires, core) ==
    /\ agent \notin DOMAIN sub
    /\ sub' = [n \in DOMAIN sub \cup {agent} |->
                 IF n \in DOMAIN sub THEN sub[n]
                 ELSE [parent |-> parent, issuer |-> issuer, cap |-> cap, spent |-> 0,
                       expires |-> expires, revoked |-> FALSE, depth |-> depth]]
    /\ tree' = [n \in DOMAIN sub \cup {agent} |-> IF n \in DOMAIN sub THEN tree[n] ELSE core]

\* issue_sub_grant.  `core` is the agent of the CORE grant the caller passes,
\* any grant of the GrokAccount; with a parent it need not be the issuer's.
Issue(issuer, agent, core, withParent, cap, expires) ==
    /\ cap > 0
    /\ agent # issuer
    /\ Unexpired(expires)
    /\ ~grants[core].revoked
    /\ Unexpired(grants[core].expires)
    /\ IF withParent
       THEN /\ issuer \in DOMAIN sub
            /\ BelowParent(issuer, cap, expires)
            /\ NewSubGrant(issuer, agent, issuer, sub[issuer].depth + 1, cap, expires, tree[issuer])
       ELSE /\ DirectlyBelow(issuer, core, cap, expires)
            /\ NewSubGrant(issuer, agent, NoParent, 1, cap, expires, core)
    /\ UNCHANGED <<coreVars, own>>

\* revise_sub_grant and revoke_sub_grant are signed by the issuer or the human.
MayManage(authority, n) == authority = sub[n].issuer \/ authority = Human

\* Mutants of Revise: a cap below what was spent; a wider cap.
ReviseBelowSpent(authority, n, cap, expires) ==
    /\ MayManage(authority, n)
    /\ cap <= sub[n].cap /\ expires <= sub[n].expires
    /\ sub' = [sub EXCEPT ![n].cap = cap, ![n].expires = expires]
    /\ UNCHANGED <<coreVars, own, tree>>
ReviseWider(authority, n, cap, expires) ==
    /\ MayManage(authority, n)
    /\ cap >= sub[n].spent /\ expires <= sub[n].expires
    /\ sub' = [sub EXCEPT ![n].cap = cap, ![n].expires = expires]
    /\ UNCHANGED <<coreVars, own, tree>>

\* Revising narrows; a revoked sub-grant may still be narrowed.
Revise(authority, n, cap, expires) ==
    /\ MayManage(authority, n)
    /\ cap <= sub[n].cap
    /\ cap >= sub[n].spent
    /\ expires <= sub[n].expires
    /\ sub' = [sub EXCEPT ![n].cap = cap, ![n].expires = expires]
    /\ UNCHANGED <<coreVars, own, tree>>

\* Nothing is written to the sub-grants beneath.
Revoke(authority, n) ==
    /\ MayManage(authority, n)
    /\ ~sub[n].revoked
    /\ sub' = [sub EXCEPT ![n].revoked = TRUE]
    /\ UNCHANGED <<coreVars, own, tree>>

-----------------------------------------------------------------------------
(* Spending: walk_and_meter checks the caller's chain, leaf first, then    *)
(* commit_meter charges all of it.                                         *)

NodeAllows(n, amount) ==
    /\ ~sub[n].revoked
    /\ Unexpired(sub[n].expires)
    /\ Headroom(sub[n].cap, sub[n].spent) >= amount

\* Each step is the parent of the one before it ...
Linked(chain) == \A i \in 2 .. Len(chain) : sub[chain[i - 1]].parent = chain[i]

\* ... and the last has none, or ancestors were left out.
ReachesTop(chain) == sub[chain[Len(chain)]].parent = NoParent

\* Mutants of WalkAllows: ancestors may be left out; only the leaf is checked;
\* a chain of full depth is refused.
WalkAllowsTruncated(chain, spender, amount) ==
    /\ Len(chain) \in 1 .. MaxDepth
    /\ \A i \in 1 .. Len(chain) : NodeAllows(chain[i], amount)
    /\ chain[1] = spender /\ Linked(chain)
WalkAllowsLeafOnly(chain, spender, amount) ==
    /\ Len(chain) \in 1 .. MaxDepth
    /\ NodeAllows(chain[1], amount)
    /\ chain[1] = spender /\ Linked(chain) /\ ReachesTop(chain)
WalkAllowsShort(chain, spender, amount) ==
    /\ Len(chain) \in 1 .. MaxDepth - 1
    /\ \A i \in 1 .. Len(chain) : NodeAllows(chain[i], amount)
    /\ chain[1] = spender /\ Linked(chain) /\ ReachesTop(chain)

WalkAllows(chain, spender, amount) ==
    /\ Len(chain) \in 1 .. MaxDepth
    /\ \A i \in 1 .. Len(chain) : NodeAllows(chain[i], amount)
    /\ chain[1] = spender
    /\ Linked(chain)
    /\ ReachesTop(chain)

Meter(chain, spender, amount) ==
    /\ WalkAllows(chain, spender, amount)
    /\ sub' = [n \in DOMAIN sub |->
                 IF \E i \in 1 .. Len(chain) : chain[i] = n
                 THEN [sub[n] EXCEPT !.spent = @ + amount] ELSE sub[n]]
    /\ own' = [own EXCEPT ![spender] = @ + amount]
    /\ UNCHANGED <<coreVars, tree>>

Chains == UNION {[1 .. len -> DOMAIN sub] : len \in 1 .. MaxDepth}

-----------------------------------------------------------------------------
SubGrantNext ==
    \/ \E issuer \in Keys, agent \in Delegates, core \in Agents, withParent \in BOOLEAN,
          cap \in SubCaps, expires \in Expiries :
          Issue(issuer, agent, core, withParent, cap, expires)
    \/ \E authority \in Keys \cup {Human}, n \in DOMAIN sub :
          \/ \E cap \in SubCaps, expires \in Expiries : Revise(authority, n, cap, expires)
          \/ Revoke(authority, n)
    \/ \E chain \in Chains, spender \in DOMAIN sub, amount \in Amounts :
          Meter(chain, spender, amount)
    \/ CoreNext /\ UNCHANGED delegationVars

SubGrantSpec == SubGrantInit /\ [][SubGrantNext]_subGrantVars

-----------------------------------------------------------------------------
(* Properties.                                                             *)

\* n and everything above it: the least set that holds n and the parent of
\* whatever it holds.
Ancestors(n) ==
    LET UpwardClosed(S) == \A m \in S : sub[m].parent \in S \cup {NoParent}
        closed == {S \in SUBSET DOMAIN sub : n \in S /\ UpwardClosed(S)}
    IN  {a \in DOMAIN sub : \A S \in closed : a \in S}

Children(n) == {c \in DOMAIN sub : sub[c].parent = n}

\* The delegation is a forest that cannot close on itself and is at most
\* MaxDepth deep: a parent exists, was held by the issuer, is one level up
\* and hangs beneath the same CORE grant; a sub-grant without a parent was
\* issued by the CORE agent itself.
Forest ==
    \A n \in DOMAIN sub :
        IF sub[n].parent = NoParent
        THEN sub[n].depth = 1 /\ sub[n].issuer = tree[n]
        ELSE LET p == sub[n].parent
             IN  /\ p \in DOMAIN sub
                 /\ p = sub[n].issuer
                 /\ sub[n].depth = sub[p].depth + 1
                 /\ tree[n] = tree[p]

\* Metering walks up: what was spent from a sub-grant is what its holder spent
\* plus what was spent from its children, so siblings that were together
\* issued more than their parent has still cannot spend more.
MeteringWalksUp ==
    \A n \in DOMAIN sub :
        sub[n].spent = own[n] + SumOver([c \in DOMAIN sub |-> sub[c].spent], Children(n))

\* No cap is overspent, though caps are lowered while chains are being walked.
SubSpendWithinCap == \A n \in DOMAIN sub : sub[n].spent <= sub[n].cap

\* A cap binds everyone beneath it together: what a holder and all those that
\* hold sub-grants under its own, at any depth, have spent themselves stays
\* within its cap, though each of them was issued a cap of its own.
Subtree(n) == {m \in DOMAIN sub : n \in Ancestors(m)}

SubtreeWithinCap == \A n \in DOMAIN sub : SumOver(own, Subtree(n)) <= sub[n].cap

\* Revocation and expiry cascade without a traversal: whoever spends, every
\* sub-grant above it is live at that moment, whatever chain it claimed, and
\* every one of them is metered.
SpendsUnderLiveAncestors ==
    [][\A n \in DOMAIN sub : own'[n] > own[n] =>
          \A a \in Ancestors(n) :
              /\ ~sub[a].revoked
              /\ now < sub[a].expires
              /\ sub'[a].spent - sub[a].spent = own'[n] - own[n]]_subGrantVars

\* Authority only narrows: whatever a holder could not spend before a step,
\* because of itself or of anything above it, it cannot spend after, whoever
\* takes the step.
MaySpend(n, amount) == \A a \in Ancestors(n) : NodeAllows(a, amount)

AuthorityOnlyNarrows ==
    [][\A n \in DOMAIN sub :
          /\ n \in DOMAIN sub'
          /\ \A amount \in Amounts : MaySpend(n, amount)' => MaySpend(n, amount)]_subGrantVars

\* A holder can spend exactly when it and everything above it allow the amount:
\* the deepest holder that could be issued still finds a chain the walk takes,
\* and no chain opens what an ancestor closes.
AncestorsDecide ==
    \A n \in DOMAIN sub, amount \in Amounts :
        MaySpend(n, amount) <=> \E chain \in Chains : WalkAllows(chain, n, amount)

-----------------------------------------------------------------------------
(* A statement the source makes that its code does not keep.               *)

\* "The CORE grant this whole tree hangs beneath" (sub_grant.rs, IssueSubGrant):
\* the CORE grant whose liveness issuing checks is that of the tree the new
\* sub-grant joins.
IssuesUnderLiveCoreGrant ==
    [][\A n \in DOMAIN sub' \ DOMAIN sub : Live(grants[tree'[n]])]_subGrantVars
=============================================================================
