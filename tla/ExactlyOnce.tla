----------------------------- MODULE ExactlyOnce -----------------------------
(***************************************************************************)
(* What recurring billing promises, without grants, registry, start times  *)
(* or retries: a merchant and its payer agree on a price; the period a     *)
(* contract is in may be settled, once, at that price; a period that has   *)
(* passed never is; a closed contract is closed for ever.                  *)
(* ("At-least-once delivery becomes exactly-once settlement", "missed      *)
(* periods are not backfilled": the header of subscription.rs.)            *)
(***************************************************************************)
EXTENDS Integers

CONSTANTS
    Keys,       \* the contracts there can be
    Terms,      \* the periods a contract can have
    Prices      \* the prices a contract can name

VARIABLES
    contracts,  \* the contracts agreed on: key -> [price, open]
    current,    \* key -> the period its contract is in; NotBegun before its first
    settled,    \* key -> the periods settled
    income      \* key -> what the settled periods brought in

vars == <<contracts, current, settled, income>>

NotBegun == -1

Init ==
    /\ contracts = [k \in {} |-> 0]
    /\ current = [k \in Keys |-> NotBegun]
    /\ settled = [k \in Keys |-> {}]
    /\ income = [k \in Keys |-> 0]

\* A contract begins now or later: nothing is owed for the time before it.
Agree(k, price) ==
    /\ k \notin DOMAIN contracts
    /\ contracts' = [j \in DOMAIN contracts \cup {k} |->
                        IF j \in DOMAIN contracts THEN contracts[j]
                        ELSE [price |-> price, open |-> TRUE]]
    /\ \E first \in {NotBegun, 0} : current' = [current EXCEPT ![k] = first]
    /\ UNCHANGED <<settled, income>>

Close(k) ==
    /\ k \in DOMAIN contracts
    /\ contracts[k].open
    /\ contracts' = [contracts EXCEPT ![k].open = FALSE]
    /\ UNCHANGED <<current, settled, income>>

Settle(k) ==
    /\ k \in DOMAIN contracts
    /\ contracts[k].open
    /\ current[k] \in Terms \ settled[k]
    /\ settled' = [settled EXCEPT ![k] = @ \cup {current[k]}]
    /\ income' = [income EXCEPT ![k] = @ + contracts[k].price]
    /\ UNCHANGED <<contracts, current>>

\* Time passes: no contract is ever in an earlier period again.
Pass ==
    /\ current' \in [Keys -> Int]
    /\ \A k \in Keys : /\ current'[k] >= current[k]
                       /\ k \notin DOMAIN contracts => current'[k] = NotBegun
    /\ UNCHANGED <<contracts, settled, income>>

Next ==
    \/ \E k \in Keys :
          \/ \E price \in Prices : Agree(k, price)
          \/ Close(k)
          \/ Settle(k)
    \/ Pass

Spec == Init /\ [][Next]_vars
=============================================================================
