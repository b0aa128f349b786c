---------------------------- MODULE AtomicLedger ----------------------------
(***************************************************************************)
(* What the point service promises about balances: every accepted request  *)
(* changes its owner's balance once, by exactly its own amount, in one     *)
(* atomic step.  With Overdraft = FALSE it also promises that a debit is   *)
(* accepted only when the balance covers it.                               *)
(***************************************************************************)
EXTENDS Integers

CONSTANTS User, Request, InitBalance, Overdraft

VARIABLES
    owner,      \* the user each request is about
    delta,      \* the signed amount of each request
    balance,    \* the balance of each user
    applied     \* the requests that took effect

vars == <<owner, delta, balance, applied>>

Init ==
    /\ owner \in [Request -> User]
    /\ delta \in [Request -> Int]
    /\ balance = [u \in User |-> InitBalance]
    /\ applied = {}

Covered(r) == delta[r] >= 0 \/ balance[owner[r]] + delta[r] >= 0

Apply(r) ==
    /\ r \notin applied
    /\ Overdraft \/ Covered(r)
    /\ balance' = [balance EXCEPT ![owner[r]] = @ + delta[r]]
    /\ applied' = applied \cup {r}
    /\ UNCHANGED <<owner, delta>>

Next == \E r \in Request : Apply(r)

Spec == Init /\ [][Next]_vars
=============================================================================
