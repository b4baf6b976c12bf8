---------------------------- MODULE MCSubGrants ----------------------------
(***************************************************************************)
(* Small instances of SubGrants for TLC.                                   *)
(***************************************************************************)
EXTENDS SubGrants, TLC

MCGrants == {[cap |-> 2, spent |-> 0, expires |-> 2, revoked |-> FALSE,
              sponsorEligible |-> FALSE]}

\* Delegates are interchangeable, and so are the CORE agents.
MCSymmetry == Permutations(Agents) \cup Permutations(Delegates)
=============================================================================
