-------------------------- MODULE HandoffLifecycle --------------------------
(***************************************************************************)
(* What the reboot workflow promises, without files, locks or processes.   *)
(* One transaction is bound to the user and the runtime that armed it and  *)
(* is never rebound; it advances one stage at a time; the display driver   *)
(* goes only after Safe Boot was cleared; the sign-in handoff exists from  *)
(* before Phase 3 is armed until the receipt of the final benchmark is     *)
(* part of the transaction.                                                *)
(***************************************************************************)
EXTENDS Integers

CONSTANTS Users, NoUser, MaxGenerations

VARIABLES
    stage,    \* RebootStage, 0 when there is no transaction
    owner,    \* initiator_user_sid
    runtime,  \* the runtime generation the transaction is bound to
    removed,  \* the driver was removed
    handoff,  \* the owner's sign-in starts Phase 3
    receipt   \* the final benchmark receipt

avars == <<stage, owner, runtime, removed, handoff, receipt>>

Init == /\ stage = 0 /\ owner = NoUser /\ runtime = 0
        /\ ~removed /\ ~handoff /\ ~receipt

Arm == /\ stage = 0 /\ stage' = 1
       /\ owner' \in Users /\ runtime' \in 1 .. MaxGenerations
       /\ UNCHANGED <<removed, handoff, receipt>>

ClearSafeBoot == /\ stage = 1 /\ stage' = 2
                 /\ UNCHANGED <<owner, runtime, removed, handoff, receipt>>

RemoveDriver == /\ stage >= 2 /\ removed'
                /\ UNCHANGED <<stage, owner, runtime, handoff, receipt>>

RegisterHandoff == /\ stage = 2 /\ removed /\ handoff'
                   /\ UNCHANGED <<stage, owner, runtime, removed, receipt>>

ArmPhaseThree == /\ stage = 2 /\ handoff /\ stage' = 3
                 /\ UNCHANGED <<owner, runtime, removed, handoff, receipt>>

Complete == /\ stage = 3 /\ handoff /\ stage' = 4 /\ receipt'
            /\ UNCHANGED <<owner, runtime, removed, handoff>>

ReleaseHandoff == /\ stage = 4 /\ receipt /\ ~handoff'
                  /\ UNCHANGED <<stage, owner, runtime, removed, receipt>>

Next == \/ Arm \/ ClearSafeBoot \/ RemoveDriver \/ RegisterHandoff
        \/ ArmPhaseThree \/ Complete \/ ReleaseHandoff

Spec == Init /\ [][Next]_avars
=============================================================================
