-------------------------- MODULE SignatureLedger --------------------------
(***************************************************************************)
(* What the PointManager contract promises to those who sign: signatures   *)
(* carry the signer's nonces, each nonce is used up by one signature, in   *)
(* order, and the signatures of one transaction are used up together.      *)
(***************************************************************************)
EXTENDS Integers

CONSTANT Signer

VARIABLES
    next,    \* the nonce of each signer's next signature
    used     \* the signatures used up

vars == <<next, used>>

Init ==
    /\ next = [a \in Signer |-> 0]
    /\ used = {}

\* A transaction used up the signatures in "new", those of signer a among
\* them with the nonces from next[a] up to its next one.
Use ==
    LET new == used' \ used
    IN  /\ used \subseteq used'
        /\ new # {}
        /\ next' \in [Signer -> Nat]
        /\ \A a \in Signer :
               /\ next[a] <= next'[a]
               /\ {s.nonce : s \in {n \in new : n.signer = a}}
                     = next[a] .. (next'[a] - 1)
        /\ \A s, t \in new :
               s.signer = t.signer /\ s.nonce = t.nonce => s = t

Next == Use

Spec == Init /\ [][Next]_vars
=============================================================================
