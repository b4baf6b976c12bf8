----------------------------- MODULE MCIntents -----------------------------
(***************************************************************************)
(* A small instance of Intents for TLC.                                    *)
(***************************************************************************)
EXTENDS Intents

\* The root starts with everything but the relayer's own float.
MCSol    == [acct \in Accounts |-> CASE acct = Root -> 7
                                     [] acct \in Relayers -> 2
                                     [] OTHER -> 0]
MCTokens == [h \in Holders |-> [mint \in Mints |-> 1]]
MCGrants == {[cap |-> 2, spent |-> 0, expires |-> 1, revoked |-> FALSE, sponsorEligible |-> e] :
                 e \in BOOLEAN}
=============================================================================
