----------------------------- MODULE CoreGrant -----------------------------
(***************************************************************************)
(* The part of the CORE program (grok_chain_core) that the intents program *)
(* relies on: the grants a human root gives to agents, and the chain clock *)
(* they expire by.  CORE's source is not in the repository, so this module *)
(* is modelled from how the intents program uses it: the fields it reads   *)
(* off a Grant, the one CPI it makes (check_grant, core_cpi.rs), and the   *)
(* root operations README.md and upgrade-pay-token/README.md tell a human  *)
(* to call (revise_grant, revoke_grant).                                   *)
(*                                                                         *)
(* One GrokAccount is modelled.  Every account of the intents program is a *)
(* PDA whose seeds contain the GrokAccount's key, so two GrokAccounts      *)
(* share nothing but the clock.                                            *)
(***************************************************************************)
EXTENDS Integers

CONSTANTS
    Agents,         \* the agent keys that hold a CORE grant
    InitialGrants,  \* fresh grants the root may have issued
    Caps,           \* the caps the root may revise a grant to
    MaxTime         \* bound: the clock stops here

VARIABLES
    now,            \* Clock::get()?.unix_timestamp
    grants          \* agent -> its Grant account

coreVars == <<now, grants>>

Grant == [cap: Nat,                  \* spend_cap_lamports
          spent: Nat,                \* spent_lamports
          expires: Int,              \* expires_at_unix
          revoked: BOOLEAN,
          sponsorEligible: BOOLEAN]

ASSUME CoreAssumption ==
    /\ InitialGrants \subseteq {g \in Grant : g.spent = 0 /\ ~g.revoked}
    /\ Caps \subseteq Nat
    /\ MaxTime \in Nat

CoreTypeOK ==
    /\ now \in Nat
    /\ grants \in [Agents -> Grant]

CoreInit ==
    /\ now = 0
    /\ grants \in [Agents -> InitialGrants]

-----------------------------------------------------------------------------
(* check_grant, the CPI every intent makes before it moves anything.  The  *)
(* grant must be live and must still have room for the amount; the amount  *)
(* is then added to what was spent.  An amount of 0 is a policy ping.      *)

Live(g) == ~g.revoked /\ now < g.expires

GrantAllows(g, amount) == Live(g) /\ g.spent + amount <= g.cap

CheckGrant(a, amount) ==
    /\ GrantAllows(grants[a], amount)
    /\ grants' = [grants EXCEPT ![a].spent = @ + amount]

-----------------------------------------------------------------------------
(* What the root and the world do to the grants and the clock.             *)

\* revise_grant: a new cap, never below what was already spent ("cap = spent"
\* is the soft kill of README.md).
ReviseGrant(a, cap) ==
    /\ ~grants[a].revoked
    /\ cap >= grants[a].spent
    /\ grants' = [grants EXCEPT ![a].cap = cap]
    /\ UNCHANGED now

\* revoke_grant: final.
RevokeGrant(a) ==
    /\ ~grants[a].revoked
    /\ grants' = [grants EXCEPT ![a].revoked = TRUE]
    /\ UNCHANGED now

Tick ==
    /\ now < MaxTime
    /\ now' = now + 1
    /\ UNCHANGED grants

CoreNext ==
    \/ \E a \in Agents : \/ \E cap \in Caps : ReviseGrant(a, cap)
                         \/ RevokeGrant(a)
    \/ Tick
=============================================================================
