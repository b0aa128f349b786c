---------------------------- MODULE SwapOutcome ----------------------------
(***************************************************************************)
(* What the processing of swaps promises: a swap that waits is paid on the *)
(* chain or marked as failed, one of the two, and once.  The swaps of one  *)
(* transaction are paid together.                                          *)
(***************************************************************************)
CONSTANT Swap

VARIABLES
    paid,      \* the swaps whose tokens moved
    failed     \* the swaps whose users are told that they failed

vars == <<paid, failed>>

Open == Swap \ (paid \cup failed)

Init == paid = {} /\ failed = {}

Pay(batch) ==
    /\ paid' = paid \cup batch
    /\ UNCHANGED failed

Reject(s) ==
    /\ failed' = failed \cup {s}
    /\ UNCHANGED paid

Next ==
    \/ \E batch \in SUBSET Open : Pay(batch)
    \/ \E s \in Open : Reject(s)

Spec == Init /\ [][Next]_vars
=============================================================================
