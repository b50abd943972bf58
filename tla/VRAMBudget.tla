----------------------------- MODULE VRAMBudget -----------------------------
(***************************************************************************)
(* VRAMBudgetManager: the video memory that its clients may use together.  *)
(* One mutex and a condition variable; usedBytes_ is an atomic of its own, *)
(* which release() lowers before it has the mutex.  It has no sign: the    *)
(* arithmetic is modulo VrmModulus, which is 2^64 in the code.             *)
(***************************************************************************)
EXTENDS Integers, FiniteSets

CONSTANTS
  VrmClients,
  VrmBudgets,  (* the budget of the two performance modes                   *)
  VrmModulus,
  VrmCalls     (* bound: calls of reset() and setPerformanceMode()          *)

ASSUME VramAssumption ==
  /\ VrmBudgets \in SUBSET Nat
  /\ \E b \in VrmBudgets : \A c \in VrmBudgets : b >= c
  /\ VrmModulus \in Nat /\ VrmCalls \in Nat
  /\ IsFiniteSet(VrmClients) /\ Cardinality(VrmClients) < VrmModulus

VARIABLES
  vrmUsed, vrmBudget,
  vrmPc,      (* [VrmClients]: "idle", "asleep" in requestAllocation, awake *)
              (* in it, "using" what it got, or about to "notify"           *)
  vrmForgot,  (* what was in use when reset() last set usedBytes_ to zero    *)
  vrmCalls

VrmVars == <<vrmUsed, vrmBudget, vrmPc, vrmForgot, vrmCalls>>

VrmTypeOK ==
  /\ vrmUsed \in 0 .. VrmModulus - 1 /\ vrmBudget \in VrmBudgets
  /\ vrmPc \in [VrmClients -> {"idle", "awake", "asleep", "using", "notify"}]
  /\ vrmForgot \in 0 .. Cardinality(VrmClients)
  /\ vrmCalls \in 0 .. VrmCalls

VrmInit ==
  /\ vrmUsed = 0 /\ vrmBudget = CHOOSE b \in VrmBudgets : \A c \in VrmBudgets : b >= c
  /\ vrmPc = [c \in VrmClients |-> "idle"]
  /\ vrmForgot = 0 /\ vrmCalls = 0

(* canAllocate(), for one unit.                                            *)
VrmFits == vrmUsed < vrmBudget
VrmUsing == {c \in VrmClients : vrmPc[c] = "using"}
VrmWoken == [c \in VrmClients |-> IF vrmPc[c] = "asleep" THEN "awake" ELSE vrmPc[c]]

(* requestAllocation(): it gets the memory, or sleeps, or times out.       *)
VrmAllocate(c) ==
  /\ vrmPc[c] \in {"idle", "awake"} /\ VrmFits
  /\ vrmUsed' = (vrmUsed + 1) % VrmModulus
  /\ vrmPc' = [vrmPc EXCEPT ![c] = "using"]
  /\ UNCHANGED <<vrmBudget, vrmForgot, vrmCalls>>

VrmSleep(c) ==
  /\ vrmPc[c] \in {"idle", "awake"} /\ ~VrmFits
  /\ vrmPc' = [vrmPc EXCEPT ![c] = "asleep"]
  /\ UNCHANGED <<vrmUsed, vrmBudget, vrmForgot, vrmCalls>>

VrmTimeout(c) ==
  /\ vrmPc[c] = "asleep"
  /\ vrmPc' = [vrmPc EXCEPT ![c] = "idle"]
  /\ UNCHANGED <<vrmUsed, vrmBudget, vrmForgot, vrmCalls>>

(* release(): the memory first, then the mutex and notify_all.             *)
VrmRelease(c) ==
  /\ vrmPc[c] = "using"
  /\ vrmUsed' = (vrmUsed - 1) % VrmModulus
  /\ vrmPc' = [vrmPc EXCEPT ![c] = "notify"]
  /\ UNCHANGED <<vrmBudget, vrmForgot, vrmCalls>>

VrmNotify(c) ==
  /\ vrmPc[c] = "notify"
  /\ vrmPc' = [VrmWoken EXCEPT ![c] = "idle"]
  /\ UNCHANGED <<vrmUsed, vrmBudget, vrmForgot, vrmCalls>>

VrmSetPerformanceMode(budget) ==
  /\ vrmCalls < VrmCalls /\ budget # vrmBudget
  /\ vrmBudget' = budget /\ vrmPc' = VrmWoken
  /\ vrmCalls' = vrmCalls + 1
  /\ UNCHANGED <<vrmUsed, vrmForgot>>

(* reset() forgets what is in use: its release() comes nevertheless.       *)
VrmReset ==
  /\ vrmCalls < VrmCalls
  /\ vrmUsed' = 0 /\ vrmPc' = VrmWoken
  /\ vrmForgot' = Cardinality(VrmUsing)
  /\ vrmCalls' = vrmCalls + 1
  /\ UNCHANGED vrmBudget

VrmClientMoves(c) ==
  \/ VrmAllocate(c) \/ VrmSleep(c) \/ VrmTimeout(c) \/ VrmRelease(c) \/ VrmNotify(c)
VrmNext == \/ \E c \in VrmClients : VrmClientMoves(c)
           \/ \E b \in VrmBudgets : VrmSetPerformanceMode(b)
           \/ VrmReset
VrmSpec == VrmInit /\ [][VrmNext]_VrmVars

-----------------------------------------------------------------------------
(* What is counted is what the clients use: no wait, time-out or change of *)
(* the budget loses or repeats a unit.  After a reset() it is behind for   *)
(* good by what was in use, and wraps below zero when that is released.    *)
VrmAccounts == vrmUsed = (Cardinality(VrmUsing) - vrmForgot) % VrmModulus

(* Nobody sleeps beside free memory unless the wake-up is on its way.      *)
VrmNobodyOversleeps ==
  (\E c \in VrmClients : vrmPc[c] = "asleep") /\ VrmFits
    => \E c \in VrmClients : vrmPc[c] = "notify"
=============================================================================
