---------------------------- MODULE OperationGate ----------------------------
(***************************************************************************)
(* What a busy gate promises of the operations that pass it: one works at  *)
(* a time, each works at most once, and one that has started ends.  The    *)
(* gate of ServerUpdaterCoordinator._async_busy implements it (see         *)
(* TakesTurns in ServerCoordinator).                                       *)
(***************************************************************************)
CONSTANT Ops

VARIABLE status

Init == status = [o \in Ops |-> "idle"]

Start(o) ==
    /\ status[o] = "idle"
    /\ \A p \in Ops : status[p] # "working"
    /\ status' = [status EXCEPT ![o] = "working"]

Refuse(o) ==
    /\ status[o] = "idle"
    /\ status' = [status EXCEPT ![o] = "over"]

End(o) ==
    /\ status[o] = "working"
    /\ status' = [status EXCEPT ![o] = "over"]

Next == \E o \in Ops : Start(o) \/ Refuse(o) \/ End(o)

Spec == Init /\ [][Next]_status
FairSpec == Spec /\ \A o \in Ops : WF_status(End(o))
=============================================================================
