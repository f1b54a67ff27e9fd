---------------------------- MODULE JobLifecycle ----------------------------
(***************************************************************************)
(* What the job queue promises to the rest of Rushes, without workers,     *)
(* leases or time: a job is submitted once, executed, possibly lost and    *)
(* executed again while it has tries left, or handed back at no cost, and  *)
(* settles at most once.                                                   *)
(***************************************************************************)
EXTENDS Naturals

CONSTANTS Job, MaxRetries
VARIABLES phase, tries
vars == <<phase, tries>>

Open == {"pending", "running"}

Init == /\ phase = [j \in Job |-> "absent"]
        /\ tries = [j \in Job |-> 0]

Move(j, from, to) == phase[j] \in from /\ phase' = [phase EXCEPT ![j] = to]

Submit(j)   == Move(j, {"absent"}, "pending") /\ UNCHANGED tries
Begin(j)    == Move(j, {"pending"}, "running") /\ UNCHANGED tries
HandBack(j) == Move(j, {"running"}, "pending") /\ UNCHANGED tries
Lose(j)     == /\ Move(j, {"running"}, "pending")
               /\ tries[j] < MaxRetries[j]
               /\ tries' = [tries EXCEPT ![j] = @ + 1]
Succeed(j)  == Move(j, {"running"}, "succeeded") /\ UNCHANGED tries
Fail(j)     == Move(j, {"running"}, "failed") /\ UNCHANGED tries
Cancel(j)   == Move(j, Open, "cancelled") /\ UNCHANGED tries

Next == \E j \in Job : \/ Submit(j) \/ Begin(j) \/ HandBack(j) \/ Lose(j)
                       \/ Succeed(j) \/ Fail(j) \/ Cancel(j)

Spec == Init /\ [][Next]_vars
=============================================================================
