-------------------------- MODULE VSRCircuitBreaker --------------------------
(***************************************************************************)
(* VSRCircuitBreaker, shared by the thread that upscales (recordInference, *)
(* tryStartProbing, handleProbeResult) and a controlling one (forceDisable,*)
(* forceEnable, reset, checkVRAMPressure).  state_ is an atomic; the count *)
(* of slow frames and the time the circuit opened are under a mutex of     *)
(* their own, so that a call changes the two in two steps: brkVsr, brkUi   *)
(* say what a thread has still to do.                                      *)
(***************************************************************************)
EXTENDS Integers

CONSTANTS
  BrkSlowFrames,   (* slowFrameCount                                        *)
  BrkCalls         (* bound: calls of the controlling thread                *)

ASSUME BreakerAssumption == BrkSlowFrames \in Nat \ {0} /\ BrkCalls \in Nat

BrkStates == {"Active", "CircuitOpen", "Probing", "Disabled"}

VARIABLES
  brkState, brkSlow,
  brkCooled,   (* cooldownSeconds have passed since circuitOpenTime_        *)
  brkFresh,    (* ... and since the circuit did open                        *)
  brkVsr, brkUi, brkCalls

BrkVars == <<brkState, brkSlow, brkCooled, brkFresh, brkVsr, brkUi, brkCalls>>

BrkTypeOK ==
  /\ brkState \in BrkStates /\ brkSlow \in 0 .. BrkSlowFrames
  /\ brkCooled \in BOOLEAN /\ brkFresh \in BOOLEAN
  /\ brkVsr \in {"idle", "slow", "fast", "probe", "zero", "time"}
  /\ brkUi \in {"idle", "enabled", "reset", "time"}
  /\ brkCalls \in 0 .. BrkCalls

BrkInit ==
  /\ brkState = "Active" /\ brkSlow = 0 /\ brkCooled = TRUE /\ brkFresh = FALSE
  /\ brkVsr = "idle" /\ brkUi = "idle" /\ brkCalls = 0

(* recordInference(): the state is Active ...                              *)
BrkRecord ==
  /\ brkVsr = "idle" /\ brkState = "Active"
  /\ brkVsr' \in {"slow", "fast"}
  /\ UNCHANGED <<brkState, brkSlow, brkCooled, brkFresh, brkUi, brkCalls>>

(* ... and with the mutex, if it still is after the last slow frame, opens.*)
BrkCount ==
  /\ brkVsr \in {"slow", "fast"}
  /\ LET opens == brkVsr = "slow" /\ brkSlow + 1 >= BrkSlowFrames
         done  == opens /\ brkState = "Active"
     IN  /\ brkSlow' = IF brkVsr = "fast" \/ opens THEN 0 ELSE brkSlow + 1
         /\ brkState'  = IF done THEN "CircuitOpen" ELSE brkState
         /\ brkCooled' = (brkCooled /\ ~done)
         /\ brkFresh'  = (brkFresh \/ done)
  /\ brkVsr' = "idle"
  /\ UNCHANGED <<brkUi, brkCalls>>

(* tryStartProbing(): the cooldown is looked at, then the state is swapped.*)
BrkCooldownOver ==
  /\ brkVsr = "idle" /\ brkState = "CircuitOpen" /\ brkCooled
  /\ brkVsr' = "probe"
  /\ UNCHANGED <<brkState, brkSlow, brkCooled, brkFresh, brkUi, brkCalls>>

BrkProbe_Mutant ==
  /\ brkVsr = "probe"
  /\ brkState' = "Probing"
  /\ brkVsr' = "idle"
  /\ UNCHANGED <<brkSlow, brkCooled, brkFresh, brkUi, brkCalls>>

BrkProbe ==
  /\ brkVsr = "probe"
  /\ brkState' = IF brkState = "CircuitOpen" THEN "Probing" ELSE brkState
  /\ brkVsr' = "idle"
  /\ UNCHANGED <<brkSlow, brkCooled, brkFresh, brkUi, brkCalls>>

(* handleProbeResult(): the swap, and then the count or the time.          *)
BrkProbed(success) ==
  /\ brkVsr = "idle" /\ brkState = "Probing"
  /\ brkState' = IF success THEN "Active" ELSE "CircuitOpen"
  /\ brkFresh' = ~success
  /\ brkVsr' = IF success THEN "zero" ELSE "time"
  /\ UNCHANGED <<brkSlow, brkCooled, brkUi, brkCalls>>

BrkProbeNoted ==
  /\ brkVsr \in {"zero", "time"}
  /\ brkSlow' = IF brkVsr = "zero" THEN 0 ELSE brkSlow
  /\ brkCooled' = (brkCooled /\ brkVsr = "zero")
  /\ brkVsr' = "idle"
  /\ UNCHANGED <<brkState, brkFresh, brkUi, brkCalls>>

BrkCall == brkUi = "idle" /\ brkCalls < BrkCalls /\ brkCalls' = brkCalls + 1

BrkForceDisable ==
  /\ BrkCall /\ brkState' = "Disabled"
  /\ UNCHANGED <<brkSlow, brkCooled, brkFresh, brkVsr, brkUi>>

BrkForceEnable ==
  /\ BrkCall /\ brkState = "Disabled"
  /\ brkState' = "Active" /\ brkUi' = "enabled"
  /\ UNCHANGED <<brkSlow, brkCooled, brkFresh, brkVsr>>

BrkReset ==
  /\ BrkCall /\ brkState' = "Active"
  /\ brkUi' = IF brkState = "Active" THEN "idle" ELSE "reset"
  /\ UNCHANGED <<brkSlow, brkCooled, brkFresh, brkVsr>>

(* checkVRAMPressure() in an emergency.                                    *)
BrkEmergency ==
  /\ BrkCall /\ brkState \in {"Active", "Probing"}
  /\ brkState' = "CircuitOpen" /\ brkFresh' = TRUE
  /\ brkUi' = "time"
  /\ UNCHANGED <<brkSlow, brkCooled, brkVsr>>

BrkCallNoted ==
  /\ brkUi # "idle"
  /\ brkSlow' = IF brkUi = "time" THEN brkSlow ELSE 0
  /\ brkCooled' = (brkCooled /\ brkUi # "time")
  /\ brkUi' = "idle"
  /\ UNCHANGED <<brkState, brkFresh, brkVsr, brkCalls>>

BrkTimePasses ==
  /\ ~brkCooled \/ brkFresh
  /\ brkCooled' = TRUE /\ brkFresh' = FALSE
  /\ UNCHANGED <<brkState, brkSlow, brkVsr, brkUi, brkCalls>>

BrkNext ==
  \/ BrkRecord \/ BrkCount \/ BrkCooldownOver \/ BrkProbe
  \/ (\E s \in BOOLEAN : BrkProbed(s)) \/ BrkProbeNoted
  \/ BrkForceDisable \/ BrkForceEnable \/ BrkReset \/ BrkEmergency \/ BrkCallNoted
  \/ BrkTimePasses
BrkSpec == BrkInit /\ [][BrkNext]_BrkVars

-----------------------------------------------------------------------------
(* A manual disable is undone by the thread that made it and never by the  *)
(* result of an inference, a probe or a cooldown that was on its way.      *)
BrkDisabledStays ==
  [][brkState = "Disabled" /\ brkState' # "Disabled" =>
       brkState' = "Active" /\ brkVsr' = brkVsr]_BrkVars

(* The circuit is probed before its cooldown only in the window between    *)
(* the swap of state_ and the store of circuitOpenTime_ of one thread.     *)
BrkCoolsDown ==
  brkFresh /\ brkCooled => brkVsr \in {"time"} \/ brkUi = "time"
=============================================================================
