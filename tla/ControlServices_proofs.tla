---------------------- MODULE ControlServices_proofs ----------------------
(***************************************************************************)
(* Proofs about the objects that threads share: the budget of the video     *)
(* memory, the circuit breaker, the messages of the user interface, the     *)
(* event bus, the cache of session keys, and the encoder of a recording's   *)
(* sound, for every number of clients, publishers, subscribers, files,      *)
(* calls, events and samples. Each has an inductive invariant of its own,   *)
(* named <prefix>IInv; the last lemma of each draws from it what the runs   *)
(* check, and the theorem says it of its specification.                     *)
(***************************************************************************)
EXTENDS VRAMBudget, VSRCircuitBreaker, MediaPlayer, EventBus,
        SessionKeyCache, AudioEncoder, FiniteSetTheorems, SequenceTheorems,
        WellFoundedInduction, TLAPS

(* A set of naturals that holds 0 and each successor holds them all: the   *)
(* induction principle, from the least number that would not be in it.     *)
LEMMA Induction ==
  ASSUME NEW T, T \subseteq Nat, 0 \in T, \A n \in T : n + 1 \in T
  PROVE  T = Nat
<1> DEFINE R == OpToRel(<, Nat)
           Others == Nat \ T
<1> SUFFICES ASSUME Others # {} PROVE FALSE
  OBVIOUS
<1>1. IsWellFoundedOn(R, Nat)
  BY NatLessThanWellFounded
<1>2. \A x, y \in Nat : y < x => <<y, x>> \in R
  BY DEF OpToRel
<1> HIDE DEF R
<1>3. PICK n \in Others : \A m \in Others : ~ (<<m, n>> \in R)
  BY <1>1, WFMin
<1>4. n # 0 /\ n - 1 \in Nat /\ n - 1 < n
  BY <1>3
<1>5. n - 1 \in T
  BY <1>2, <1>3, <1>4
<1>6. (n - 1) + 1 \in T
  BY <1>5
<1>7. QED
  BY <1>3, <1>4, <1>6

(* The remainder of a division is one ...                                  *)
LEMMA ModIs ==
  ASSUME NEW m \in Nat, m > 0, NEW a \in Int
  PROVE  a % m \in 0 .. m - 1 /\ \E q \in Int : a = q * m + (a % m)
<1>1. a % m \in 0 .. m - 1
  OBVIOUS
<1>2. a = (a \div m) * m + (a % m) /\ a \div m \in Int
  OBVIOUS
<1>3. QED
  BY <1>1, <1>2

(* ... and there is no other.                                              *)
LEMMA ModUnique ==
  ASSUME NEW m \in Nat, m > 0, NEW q \in Int, NEW p \in Int,
         NEW r \in 0 .. m - 1, NEW s \in 0 .. m - 1,
         q * m + r = p * m + s
  PROVE  r = s
<1>1. CASE q >= p + 1
  <2>1. (q - p - 1) * m >= 0
    BY <1>1
  <2>2. (q - p - 1) * m = q * m - p * m - m
    OBVIOUS
  <2>3. QED
    BY <2>1, <2>2
<1>2. CASE p >= q + 1
  <2>1. (p - q - 1) * m >= 0
    BY <1>2
  <2>2. (p - q - 1) * m = p * m - q * m - m
    OBVIOUS
  <2>3. QED
    BY <2>1, <2>2
<1>3. CASE p = q
  BY <1>3
<1>4. QED
  BY <1>1, <1>2, <1>3

(* Nothing is twice in a list.                                             *)
Distinct(list) == \A i, j \in 1 .. Len(list) : list[i] = list[j] => i = j

(* What is left of a list without its k-th.                                *)
Without(list, k, rest) ==
  /\ Len(rest) = Len(list) - 1
  /\ \A i \in 1 .. Len(list) - 1 :
       rest[i] = IF i < k THEN list[i] ELSE list[i + 1]

(* RemoveFirst is that, for the only place of f.                           *)
LEMMA Removed ==
  ASSUME NEW S, NEW f, NEW list \in Seq(S), Distinct(list),
         NEW k \in 1 .. Len(list), list[k] = f
  PROVE  RemoveFirst(list, f) \in Seq(S)
           /\ Without(list, k, RemoveFirst(list, f))
<1> DEFINE n == Len(list)
           I == {i \in 1 .. n : list[i] = f}
<1>1. n \in Nat /\ k \in Nat /\ k >= 1 /\ k <= n
  BY LenProperties
<1>2. I = {k}
  BY DEF Distinct
<1>3. RemoveFirst(list, f) = RemoveAt(list, Min(I))
  BY <1>2 DEF RemoveFirst, SelectInSeq
<1>4. Min(I) = k
  <2> HIDE DEF I
  <2>1. QED
    BY <1>1, <1>2 DEF Min
<1> DEFINE a == SubSeq(list, 1, k - 1)
           b == SubSeq(list, k + 1, n)
<1>5. RemoveFirst(list, f) = a \o b
  BY <1>3, <1>4 DEF RemoveAt
<1>6. /\ a \in Seq(S) /\ Len(a) = k - 1
      /\ \A i \in 1 .. k - 1 : a[i] = list[i]
  <2>1. \A i \in 1 .. k - 1 : list[i] \in S
    BY <1>1, ElementOfSeq
  <2>2. QED
    BY <1>1, <2>1, SubSeqProperties
<1>7. /\ b \in Seq(S) /\ Len(b) = n - k
      /\ \A i \in 1 .. n - k : b[i] = list[k + i]
  <2>1. \A i \in k + 1 .. n : list[i] \in S
    BY <1>1, ElementOfSeq
  <2>2. k + 1 \in Int /\ n \in Int /\ (k + 1 <= n \/ k + 1 = n + 1)
    BY <1>1
  <2>3. QED
    BY <1>1, <2>1, <2>2, SubSeqProperties
<1> HIDE DEF a, b, I
<1>8. /\ a \o b \in Seq(S) /\ Len(a \o b) = n - 1
      /\ \A i \in 1 .. n - 1 : (a \o b)[i]
           = IF i < k THEN a[i] ELSE b[i - (k - 1)]
  <2>1. Len(a) + Len(b) = n - 1
    BY <1>1, <1>6, <1>7
  <2>2. /\ a \o b \in Seq(S) /\ Len(a \o b) = Len(a) + Len(b)
        /\ \A i \in 1 .. Len(a) + Len(b) :
             (a \o b)[i] = IF i <= Len(a) THEN a[i] ELSE b[i - Len(a)]
    BY <1>6, <1>7, ConcatProperties, Zenon
  <2>3. Len(a) = k - 1 /\ \A i \in 1 .. n - 1 : i <= k - 1 <=> i < k
    BY <1>1, <1>6
  <2>4. QED
    BY <2>1, <2>2, <2>3
<1>9. ASSUME NEW i \in 1 .. n - 1
      PROVE  (a \o b)[i] = IF i < k THEN list[i] ELSE list[i + 1]
  <2>1. CASE i < k
    BY <1>1, <1>6, <1>8, <2>1
  <2>2. CASE ~(i < k)
    <3>1. i - (k - 1) \in 1 .. n - k /\ k + (i - (k - 1)) = i + 1
      BY <1>1, <2>2
    <3>2. QED
      BY <1>7, <1>8, <2>2, <3>1
  <2>3. QED
    BY <2>1, <2>2
<1>10. QED
  BY <1>5, <1>8, <1>9 DEF Without

-----------------------------------------------------------------------------
(* VRAMBudget.                                                             *)

(* One more or one less before the division is one more or less after it.  *)
LEMMA ModStep ==
  ASSUME NEW a \in Int, NEW d \in Int
  PROVE  ((a % VrmModulus) + d) % VrmModulus = (a + d) % VrmModulus
<1> DEFINE m == VrmModulus
           r == a % m
           s == (r + d) % m
           t == (a + d) % m
<1>1. m \in Nat /\ m > 0
  <2>1. Cardinality(VrmClients) \in Nat
    BY VramAssumption, FS_CardinalityType
  <2>2. QED
    BY <2>1, VramAssumption
<1> HIDE DEF m
<1>2. r \in 0 .. m - 1
  BY <1>1, ModIs
<1>3. PICK q \in Int : a = q * m + r
  BY <1>1, ModIs
<1>4. r + d \in Int /\ a + d \in Int
  BY <1>1, <1>2
<1>5. s \in 0 .. m - 1 /\ t \in 0 .. m - 1
  BY <1>1, <1>4, ModIs
<1>6. PICK p \in Int : r + d = p * m + s
  BY <1>1, <1>4, ModIs
<1>7. PICK o \in Int : a + d = o * m + t
  BY <1>1, <1>4, ModIs
<1> HIDE DEF r, s, t
<1>8. (q + p) * m = q * m + p * m
  BY <1>1
<1>9. q * m \in Int /\ p * m \in Int /\ o * m \in Int
  BY <1>1
<1>10. (q + p) * m + s = o * m + t
  BY <1>1, <1>2, <1>3, <1>5, <1>6, <1>7, <1>8, <1>9
<1>11. s = t
  BY <1>1, <1>5, <1>10, ModUnique
<1>12. QED
  BY <1>11 DEF m, r, s, t

VrmIInv == VrmTypeOK /\ VrmAccounts /\ VrmNobodyOversleeps

(* The clients that use memory are finitely many.                          *)
LEMMA VrmCount ==
  ASSUME VrmTypeOK
  PROVE  /\ IsFiniteSet(VrmUsing) /\ Cardinality(VrmUsing) \in Nat
         /\ Cardinality(VrmUsing) <= Cardinality(VrmClients)
BY VramAssumption, FS_Subset, FS_CardinalityType DEF VrmUsing

(* A byte count has a modulus.                                             *)
LEMMA VrmModulusIs == VrmModulus \in Nat /\ VrmModulus > 0
<1>1. Cardinality(VrmClients) \in Nat
  BY VramAssumption, FS_CardinalityType
<1>2. QED
  BY <1>1, VramAssumption

(* It holds at first ...                                                   *)
LEMMA VrmInitIInv == VrmInit => VrmIInv
<1> SUFFICES ASSUME VrmInit PROVE VrmIInv
  OBVIOUS
<1> USE VramAssumption DEF VrmInit
<1>1. Cardinality(VrmClients) \in Nat
  BY FS_CardinalityType
<1>2. vrmUsed \in 0 .. VrmModulus - 1
  BY VrmModulusIs
<1>3. VrmTypeOK
  <2>1. vrmForgot \in 0 .. Cardinality(VrmClients)
          /\ vrmCalls \in 0 .. VrmCalls
    BY <1>1
  <2>2. vrmBudget \in VrmBudgets
    OBVIOUS
  <2>3. vrmPc \in [VrmClients -> {"idle", "awake", "asleep", "using",
          "notify"}]
    OBVIOUS
  <2>4. QED
    BY <1>2, <2>1, <2>2, <2>3, Zenon DEF VrmTypeOK
<1>4. VrmUsing = {}
  BY DEF VrmUsing
<1>5. Cardinality(VrmUsing) = 0
  BY <1>4, FS_EmptySet
<1>6. VrmAccounts
  BY <1>5, VrmModulusIs DEF VrmAccounts
<1>7. QED
  BY <1>3, <1>6 DEF VrmIInv, VrmNobodyOversleeps

(* The clients that use memory, before and after a step.                   *)
LEMMA VrmUsingSteps ==
  ASSUME VrmTypeOK, NEW c \in VrmClients
  PROVE  /\ VrmAllocate(c)
           => VrmUsing' = VrmUsing \cup {c} /\ c \notin VrmUsing
         /\ VrmRelease(c) => VrmUsing' = VrmUsing \ {c} /\ c \in VrmUsing
         /\ VrmSleep(c) \/ VrmTimeout(c) \/ VrmNotify(c)
              => VrmUsing' = VrmUsing
         /\ vrmPc' = VrmWoken \/ vrmPc' = vrmPc => VrmUsing' = VrmUsing
<1> USE DEF VrmTypeOK, VrmUsing, VrmWoken
<1>1. ASSUME VrmAllocate(c)
      PROVE  VrmUsing' = VrmUsing \cup {c} /\ c \notin VrmUsing
  BY <1>1 DEF VrmAllocate
<1>2. ASSUME VrmRelease(c)
      PROVE  VrmUsing' = VrmUsing \ {c} /\ c \in VrmUsing
  BY <1>2 DEF VrmRelease
<1>3. ASSUME VrmSleep(c) \/ VrmTimeout(c) \/ VrmNotify(c)
      PROVE  VrmUsing' = VrmUsing
  BY <1>3 DEF VrmSleep, VrmTimeout, VrmNotify
<1>4. ASSUME vrmPc' = VrmWoken \/ vrmPc' = vrmPc
      PROVE  VrmUsing' = VrmUsing
  BY <1>4
<1>5. QED
  BY <1>1, <1>2, <1>3, <1>4

(* The memory that is counted stays what is in use.                        *)
LEMMA VrmNextAccounts == VrmIInv /\ [VrmNext]_VrmVars => VrmAccounts'
<1> SUFFICES ASSUME VrmIInv, [VrmNext]_VrmVars PROVE VrmAccounts'
  OBVIOUS
<1> USE DEF VrmIInv
<1> DEFINE n == Cardinality(VrmUsing)
<1>1. n \in Nat /\ IsFiniteSet(VrmUsing) /\ vrmForgot \in Int
  BY VrmCount, FS_CardinalityType, VramAssumption DEF VrmTypeOK
<1>2. vrmUsed = (n - vrmForgot) % VrmModulus
  BY DEF VrmAccounts
<1>3. ASSUME NEW c \in VrmClients, VrmAllocate(c)
      PROVE  VrmAccounts'
  <2>1. Cardinality(VrmUsing') = n + 1
    BY <1>1, <1>3, VrmUsingSteps, FS_AddElement
  <2>2. vrmUsed' = (vrmUsed + 1) % VrmModulus /\ vrmForgot' = vrmForgot
    BY <1>3 DEF VrmAllocate
  <2> HIDE DEF n
  <2>3. vrmUsed' = ((n - vrmForgot) + 1) % VrmModulus
    BY <1>1, <1>2, <2>2, ModStep
  <2>4. (n - vrmForgot) + 1 = (n + 1) - vrmForgot
    BY <1>1
  <2>5. QED
    BY <2>1, <2>2, <2>3, <2>4 DEF VrmAccounts
<1>4. ASSUME NEW c \in VrmClients, VrmRelease(c)
      PROVE  VrmAccounts'
  <2>1. Cardinality(VrmUsing') = n - 1
    BY <1>1, <1>4, VrmUsingSteps, FS_RemoveElement
  <2>2. vrmUsed' = (vrmUsed - 1) % VrmModulus /\ vrmForgot' = vrmForgot
    BY <1>4 DEF VrmRelease
  <2> HIDE DEF n
  <2>3. vrmUsed' = (vrmUsed + -1) % VrmModulus
    <3>1. vrmUsed \in Int
      BY DEF VrmTypeOK
    <3>2. vrmUsed - 1 = vrmUsed + -1
      BY <3>1
    <3>3. QED
      BY <2>2, <3>2
  <2>4. vrmUsed' = ((n - vrmForgot) + -1) % VrmModulus
    BY <1>1, <1>2, <2>3, ModStep
  <2>5. (n - vrmForgot) + -1 = (n - 1) - vrmForgot
    BY <1>1
  <2>6. QED
    BY <2>1, <2>2, <2>4, <2>5 DEF VrmAccounts
<1>5. ASSUME NEW c \in VrmClients, VrmSleep(c) \/ VrmTimeout(c) \/ VrmNotify(c)
      PROVE  VrmAccounts'
  <2>1. VrmUsing' = VrmUsing
    BY <1>5, VrmUsingSteps
  <2>2. vrmUsed' = vrmUsed /\ vrmForgot' = vrmForgot
    BY <1>5 DEF VrmSleep, VrmTimeout, VrmNotify
  <2>3. QED
    BY <1>2, <2>1, <2>2 DEF VrmAccounts
<1>6. ASSUME VrmReset
      PROVE  VrmAccounts'
  <2>1. VrmUsing' = VrmUsing
    <3>1. vrmPc' = VrmWoken
      BY <1>6 DEF VrmReset
    <3>2. QED
      BY <3>1 DEF VrmUsing, VrmWoken, VrmTypeOK
  <2>2. vrmUsed' = 0 /\ vrmForgot' = n
    BY <1>6 DEF VrmReset
  <2> HIDE DEF n
  <2>3. n - n = 0 /\ 0 % VrmModulus = 0
    BY <1>1, VrmModulusIs
  <2>4. QED
    BY <2>1, <2>2, <2>3 DEF VrmAccounts, n
<1>7. ASSUME (\E b \in VrmBudgets : VrmSetPerformanceMode(b))
               \/ UNCHANGED VrmVars
      PROVE  VrmAccounts'
  <2>1. vrmPc' = VrmWoken \/ vrmPc' = vrmPc
    BY <1>7 DEF VrmSetPerformanceMode, VrmVars
  <2>2. vrmUsed' = vrmUsed /\ vrmForgot' = vrmForgot
    BY <1>7 DEF VrmSetPerformanceMode, VrmVars
  <2>3. VrmUsing' = VrmUsing
    BY <2>1 DEF VrmUsing, VrmWoken, VrmTypeOK
  <2>4. QED
    BY <1>2, <2>2, <2>3 DEF VrmAccounts
<1>8. QED
  BY <1>3, <1>4, <1>5, <1>6, <1>7 DEF VrmNext, VrmClientMoves

(* Types, and whom a step leaves asleep.                                   *)
LEMMA VrmNextTypes ==
  VrmIInv /\ [VrmNext]_VrmVars => VrmTypeOK' /\ VrmNobodyOversleeps'
<1> SUFFICES ASSUME VrmIInv, [VrmNext]_VrmVars
             PROVE  VrmTypeOK' /\ VrmNobodyOversleeps'
  OBVIOUS
<1> USE VrmModulusIs, VramAssumption
    DEF VrmIInv, VrmTypeOK, VrmNobodyOversleeps, VrmFits, VrmWoken
<1>1. ASSUME NEW c \in VrmClients, VrmAllocate(c)
      PROVE  VrmTypeOK' /\ VrmNobodyOversleeps'
  <2>1. VrmTypeOK'
    BY <1>1 DEF VrmAllocate
  <2>2. VrmNobodyOversleeps'
    BY <1>1 DEF VrmAllocate
  <2>3. QED
    BY <2>1, <2>2
<1>2. ASSUME NEW c \in VrmClients, VrmSleep(c) \/ VrmTimeout(c)
      PROVE  VrmTypeOK' /\ VrmNobodyOversleeps'
  BY <1>2 DEF VrmSleep, VrmTimeout
<1>3. ASSUME NEW c \in VrmClients, VrmRelease(c)
      PROVE  VrmTypeOK' /\ VrmNobodyOversleeps'
  <2>1. VrmTypeOK'
    BY <1>3 DEF VrmRelease
  <2>2. VrmNobodyOversleeps'
    BY <1>3 DEF VrmRelease
  <2>3. QED
    BY <2>1, <2>2
<1>4. ASSUME NEW c \in VrmClients, VrmNotify(c)
      PROVE  VrmTypeOK' /\ VrmNobodyOversleeps'
  BY <1>4 DEF VrmNotify
<1>5. ASSUME NEW b \in VrmBudgets, VrmSetPerformanceMode(b)
      PROVE  VrmTypeOK' /\ VrmNobodyOversleeps'
  BY <1>5 DEF VrmSetPerformanceMode
<1>6. ASSUME VrmReset
      PROVE  VrmTypeOK' /\ VrmNobodyOversleeps'
  <2>1. Cardinality(VrmUsing) \in 0 .. Cardinality(VrmClients)
    BY VrmCount, FS_CardinalityType
  <2>2. VrmTypeOK'
    BY <1>6, <2>1 DEF VrmReset
  <2>3. VrmNobodyOversleeps'
    BY <1>6 DEF VrmReset
  <2>4. QED
    BY <2>2, <2>3
<1>7. CASE UNCHANGED VrmVars
  BY <1>7 DEF VrmVars
<1>8. QED
  BY <1>1, <1>2, <1>3, <1>4, <1>5, <1>6, <1>7 DEF VrmNext, VrmClientMoves

(* ... and every step keeps it, action by action.                          *)
LEMMA VrmNextIInv == VrmIInv /\ [VrmNext]_VrmVars => VrmIInv'
BY VrmNextTypes, VrmNextAccounts DEF VrmIInv

(* It implies what is claimed.                                             *)
LEMMA VrmSafe == VrmIInv => VrmTypeOK /\ VrmAccounts /\ VrmNobodyOversleeps
BY DEF VrmIInv

(* The memory counted as used is that of the clients that use it, modulo   *)
(* what a reset() forgot, and nobody sleeps beside free memory unless a    *)
(* wake-up is on its way (VRAMBudgetManager).                              *)
THEOREM BudgetSafety ==
  VrmSpec => [](VrmTypeOK /\ VrmAccounts /\ VrmNobodyOversleeps)
BY VrmInitIInv, VrmNextIInv, VrmSafe, PTL DEF VrmSpec

-----------------------------------------------------------------------------
(* VSRCircuitBreaker.                                                      *)

BrkIInv == BrkTypeOK /\ BrkCoolsDown

(* It holds at first ...                                                   *)
LEMMA BrkInitIInv == BrkInit => BrkIInv
<1> SUFFICES ASSUME BrkInit PROVE BrkIInv
  OBVIOUS
<1>1. BrkTypeOK
  <2>1. brkSlow \in 0 .. BrkSlowFrames /\ brkCalls \in 0 .. BrkCalls
    BY BreakerAssumption DEF BrkInit
  <2>2. QED
    BY <2>1 DEF BrkInit, BrkTypeOK, BrkStates
<1>2. QED
  BY <1>1 DEF BrkInit, BrkIInv, BrkCoolsDown

(* ... and every step keeps it, action by action.                          *)
LEMMA BrkNextIInv == BrkIInv /\ [BrkNext]_BrkVars => BrkIInv'
<1> SUFFICES ASSUME BrkIInv, [BrkNext]_BrkVars PROVE BrkIInv'
  OBVIOUS
<1> USE BreakerAssumption
    DEF BrkIInv, BrkTypeOK, BrkStates, BrkCoolsDown
<1>1. CASE BrkRecord \/ BrkCooldownOver
  BY <1>1 DEF BrkRecord, BrkCooldownOver
<1>2. CASE BrkCount
  BY <1>2 DEF BrkCount
<1>3. CASE BrkProbe
  BY <1>3 DEF BrkProbe
<1>4. CASE (\E s \in BOOLEAN : BrkProbed(s))
  BY <1>4 DEF BrkProbed
<1>5. CASE BrkProbeNoted
  <2>1. BrkTypeOK'
    BY <1>5 DEF BrkProbeNoted
  <2>2. BrkCoolsDown'
    BY <1>5 DEF BrkProbeNoted
  <2>3. QED
    BY <2>1, <2>2
<1>6. CASE BrkForceDisable \/ BrkForceEnable \/ BrkReset
  BY <1>6 DEF BrkCall, BrkForceDisable, BrkForceEnable, BrkReset
<1>7. CASE BrkEmergency
  BY <1>7 DEF BrkCall, BrkEmergency
<1>8. CASE BrkCallNoted
  <2>1. BrkTypeOK'
    BY <1>8 DEF BrkCallNoted
  <2>2. BrkCoolsDown'
    BY <1>8 DEF BrkCallNoted
  <2>3. QED
    BY <2>1, <2>2
<1>9. CASE BrkTimePasses \/ UNCHANGED BrkVars
  <2>1. BrkTypeOK'
    BY <1>9 DEF BrkTimePasses, BrkVars
  <2>2. BrkCoolsDown'
    BY <1>9 DEF BrkTimePasses, BrkVars
  <2>3. QED
    BY <2>1, <2>2
<1>10. QED
  BY <1>1, <1>2, <1>3, <1>4, <1>5, <1>6, <1>7, <1>8, <1>9 DEF BrkNext

(* What a step makes of the state Disabled.                                *)
LEMMA BrkNextDisabled ==
  [BrkNext]_BrkVars =>
    [brkState = "Disabled" /\ brkState' # "Disabled" =>
       brkState' = "Active" /\ brkVsr' = brkVsr]_BrkVars
BY DEF BrkNext, BrkRecord, BrkCooldownOver, BrkCount, BrkProbe, BrkProbed,
   BrkProbeNoted, BrkForceDisable, BrkForceEnable, BrkReset, BrkEmergency,
   BrkCallNoted, BrkTimePasses, BrkVars

(* It implies what is claimed.                                             *)
LEMMA BrkSafe == BrkIInv => BrkTypeOK /\ BrkCoolsDown
BY DEF BrkIInv

(* The circuit is not taken for cooled down before its cooldown is over,   *)
(* but between the two steps of a thread that opens it                     *)
(* (VSRCircuitBreaker).                                                    *)
THEOREM BreakerSafety ==
  BrkSpec => [](BrkTypeOK /\ BrkCoolsDown)
BY BrkInitIInv, BrkNextIInv, BrkSafe, PTL DEF BrkSpec

(* A manual disable is undone by the thread that made it, and never by the *)
(* result of an inference, a probe or a cooldown on its way                *)
(* (VSRCircuitBreaker).                                                    *)
THEOREM DisabledStays == BrkSpec => BrkDisabledStays
BY BrkNextDisabled, PTL DEF BrkSpec, BrkDisabledStays

-----------------------------------------------------------------------------
(* MediaPlayer.                                                            *)

MplHas(queue) == \E i \in DOMAIN queue : queue[i] = "seek"

(* There is one message of a seek at most.                                 *)
MplSingle(queue) ==
  \A i, j \in DOMAIN queue : queue[i] = "seek" /\ queue[j] = "seek" => i = j

MplMessages == {"open", "command", "seek", "shutdown"}

(* A message is appended ...                                               *)
LEMMA MplAppended ==
  ASSUME NEW queue \in Seq(MplMessages), NEW m \in MplMessages
  PROVE  /\ Append(queue, m) \in Seq(MplMessages)
         /\ MplHas(Append(queue, m)) <=> MplHas(queue) \/ m = "seek"
         /\ m # "seek" => (MplSingle(Append(queue, m)) <=> MplSingle(queue))
         /\ ~MplHas(queue) => MplSingle(Append(queue, m))
<1> DEFINE n == Len(queue)
           q == Append(queue, m)
<1>1. /\ n \in Nat /\ DOMAIN queue = 1 .. n /\ DOMAIN q = 1 .. n + 1
      /\ q \in Seq(MplMessages)
  OBVIOUS
<1>2. \A i \in 1 .. n : q[i] = queue[i]
  OBVIOUS
<1>3. q[n + 1] = m
  OBVIOUS
<1> HIDE DEF n, q
<1>4. MplHas(q) <=> MplHas(queue) \/ m = "seek"
  BY <1>1, <1>2, <1>3 DEF MplHas
<1>5. m # "seek" => (MplSingle(q) <=> MplSingle(queue))
  BY <1>1, <1>2, <1>3 DEF MplSingle
<1>6. ~MplHas(queue) => MplSingle(q)
  BY <1>1, <1>2, <1>3 DEF MplSingle, MplHas
<1>7. QED
  BY <1>1, <1>4, <1>5, <1>6 DEF q

(* ... and taken.                                                          *)
LEMMA MplTailed ==
  ASSUME NEW queue \in Seq(MplMessages), queue # << >>, MplSingle(queue)
  PROVE  /\ Tail(queue) \in Seq(MplMessages) /\ MplSingle(Tail(queue))
         /\ Head(queue) \in MplMessages
         /\ Head(queue) = "seek" => ~MplHas(Tail(queue)) /\ MplHas(queue)
         /\ Head(queue) # "seek" => (MplHas(Tail(queue)) <=> MplHas(queue))
<1> DEFINE n == Len(queue)
           q == Tail(queue)
<1>1. /\ n \in Nat /\ n > 0 /\ DOMAIN queue = 1 .. n /\ DOMAIN q = 1 .. n - 1
      /\ q \in Seq(MplMessages)
  OBVIOUS
<1>2. \A i \in 1 .. n - 1 : q[i] = queue[i + 1]
  OBVIOUS
<1>3. Head(queue) = queue[1] /\ Head(queue) \in MplMessages
  OBVIOUS
<1> HIDE DEF n, q
<1>4. MplSingle(q)
  <2>1. SUFFICES ASSUME NEW i \in 1 .. n - 1, NEW j \in 1 .. n - 1,
                        q[i] = "seek", q[j] = "seek"
                 PROVE  i = j
    BY <1>1 DEF MplSingle
  <2>2. /\ i + 1 \in 1 .. n /\ j + 1 \in 1 .. n
        /\ queue[i + 1] = "seek" /\ queue[j + 1] = "seek"
    BY <1>1, <1>2, <2>1
  <2>3. i + 1 = j + 1
    BY <1>1, <2>2 DEF MplSingle
  <2>4. QED
    BY <1>1, <2>3
<1>5. ASSUME Head(queue) = "seek"
      PROVE  ~MplHas(q) /\ MplHas(queue)
  BY <1>1, <1>2, <1>3, <1>5 DEF MplSingle, MplHas
<1>6. ASSUME Head(queue) # "seek"
      PROVE  MplHas(q) <=> MplHas(queue)
  <2>1. MplHas(queue) => MplHas(q)
    <3>1. SUFFICES ASSUME NEW i \in 1 .. n, queue[i] = "seek"
                   PROVE  MplHas(q)
      BY <1>1 DEF MplHas
    <3>2. i - 1 \in 1 .. n - 1 /\ q[i - 1] = queue[(i - 1) + 1]
      BY <1>1, <1>2, <1>3, <1>6, <3>1
    <3>3. (i - 1) + 1 = i
      OBVIOUS
    <3>4. QED
      BY <1>1, <3>1, <3>2, <3>3 DEF MplHas
  <2>2. MplHas(q) => MplHas(queue)
    <3>1. SUFFICES ASSUME NEW i \in 1 .. n - 1, q[i] = "seek"
                   PROVE  MplHas(queue)
      BY <1>1 DEF MplHas
    <3>2. i + 1 \in 1 .. n /\ queue[i + 1] = "seek"
      BY <1>1, <1>2, <3>1
    <3>3. QED
      BY <1>1, <3>2 DEF MplHas
  <2>3. QED
    BY <2>1, <2>2
<1>7. QED
  BY <1>1, <1>3, <1>4, <1>5, <1>6 DEF q

(* A message of a seek is about to be posted, or queued, or in hand, and   *)
(* then the flag is set.                                                   *)
MplOne ==
  /\ MplSingle(mplQueue)
  /\ mplUi = "posting"
       => ~MplHas(mplQueue) /\ mplLoop \notin {"seek", "loaded"}
  /\ mplLoop \in {"seek", "loaded"} => ~MplHas(mplQueue)

MplFlagged ==
  mplQueued <=> mplUi = "posting" \/ mplLoop \in {"seek", "loaded"}
    \/ MplHas(mplQueue)

(* The position is still to be read.                                       *)
MplUnread ==
  mplUi \in {"stored", "posting"} \/ MplHas(mplQueue) \/ mplLoop = "seek"

(* One that was read is that of the last seek, unless it came too late.    *)
MplRead ==
  ~MplUnread /\ ~mplMissed =>
    IF mplLoop \in {"loaded", "call"} THEN mplLatest = mplPending
    ELSE mplSought = mplPending

MplNumbers ==
  /\ mplPending \in 0 .. MplCalls /\ mplLatest \in 0 .. MplCalls
  /\ mplSought \in 0 .. MplCalls /\ mplCalls \in 0 .. MplCalls

MplPlaces ==
  /\ mplQueue \in Seq(MplMessages)
  /\ mplQueued \in BOOLEAN /\ mplMissed \in BOOLEAN
  /\ mplLoop \in {"wait", "seek", "loaded", "call", "asking", "prompt", "over"}
  /\ mplUi \in {"idle", "stored", "posting", "joining", "gone"}

MplIInv == MplNumbers /\ MplPlaces /\ MplOne /\ MplFlagged /\ MplRead

(* It holds at first ...                                                   *)
LEMMA MplInitIInv == MplInit => MplIInv
<1> SUFFICES ASSUME MplInit PROVE MplIInv
  OBVIOUS
<1> USE MediaPlayerAssumption DEF MplInit
<1>1. MplNumbers
  BY DEF MplNumbers
<1>2. MplPlaces
  <2>1. mplQueue \in Seq(MplMessages)
    OBVIOUS
  <2>2. QED
    BY <2>1, Zenon DEF MplPlaces
<1>3. ~MplHas(mplQueue) /\ MplSingle(mplQueue)
  BY DEF MplHas, MplSingle
<1>4. QED
  BY <1>1, <1>2, <1>3 DEF MplIInv, MplOne, MplFlagged, MplRead

(* What a step does to the queue.                                          *)
LEMMA MplQueueSteps ==
  ASSUME MplPlaces, MplSingle(mplQueue)
  PROVE  /\ \A m \in MplMessages :
              mplQueue' = Append(mplQueue, m) =>
                /\ mplQueue' \in Seq(MplMessages)
                /\ MplHas(mplQueue') <=> MplHas(mplQueue) \/ m = "seek"
                /\ m # "seek" \/ ~MplHas(mplQueue) => MplSingle(mplQueue')
         /\ MplTake =>
              /\ mplQueue' \in Seq(MplMessages) /\ MplSingle(mplQueue')
              /\ mplLoop' \in {"wait", "asking", "seek", "over"}
              /\ IF mplLoop' = "seek" THEN ~MplHas(mplQueue')
                   /\ MplHas(mplQueue)
                 ELSE MplHas(mplQueue') <=> MplHas(mplQueue)
<1>1. mplQueue \in Seq(MplMessages)
  BY DEF MplPlaces
<1>2. ASSUME MplTake
      PROVE  /\ mplQueue' \in Seq(MplMessages) /\ MplSingle(mplQueue')
             /\ mplLoop' \in {"wait", "asking", "seek", "over"}
             /\ IF mplLoop' = "seek" THEN ~MplHas(mplQueue')
                  /\ MplHas(mplQueue)
                ELSE MplHas(mplQueue') <=> MplHas(mplQueue)
  <2>1. mplQueue # << >> /\ mplQueue' = Tail(mplQueue)
          /\ mplLoop' \in MplHandlers(Head(mplQueue))
    BY <1>2 DEF MplTake
  <2>2. /\ mplQueue' \in Seq(MplMessages) /\ MplSingle(mplQueue')
        /\ Head(mplQueue) \in MplMessages
        /\ Head(mplQueue) = "seek" => ~MplHas(mplQueue') /\ MplHas(mplQueue)
        /\ Head(mplQueue) # "seek" => (MplHas(mplQueue') <=> MplHas(mplQueue))
    BY <1>1, <2>1, MplTailed
  <2>3. /\ mplLoop' \in {"wait", "asking", "seek", "over"}
        /\ mplLoop' = "seek" <=> Head(mplQueue) = "seek"
    BY <2>1, <2>2 DEF MplHandlers, MplMessages
  <2>4. QED
    BY <2>2, <2>3
<1>3. QED
  BY <1>1, <1>2, MplAppended, ZenonT(30)

(* ... and every step keeps it, action by action.                          *)
LEMMA MplNextIInv == MplIInv /\ [MplNext]_MplVars => MplIInv'
<1> SUFFICES ASSUME MplIInv, [MplNext]_MplVars PROVE MplIInv'
  OBVIOUS
<1> USE MediaPlayerAssumption, MplQueueSteps
    DEF MplIInv, MplNumbers, MplPlaces, MplOne, MplFlagged, MplRead,
    MplUnread, MplMessages
<1>1. CASE (\E m \in {"open", "command"} : MplCommand(m))
  BY <1>1 DEF MplCommand
<1>2. CASE MplSeek
  <2>1. MplNumbers'
    BY <1>2 DEF MplSeek
  <2>2. MplPlaces'
    BY <1>2 DEF MplSeek
  <2>3. MplOne'
    BY <1>2 DEF MplSeek
  <2>4. MplFlagged' /\ MplRead'
    BY <1>2 DEF MplSeek
  <2>5. QED
    BY <2>1, <2>2, <2>3, <2>4
<1>3. CASE MplDestroy
  BY <1>3 DEF MplDestroy
<1>4. CASE MplAnswers \/ MplPrompts \/ MplJoined
  BY <1>4 DEF MplAnswers, MplPrompts, MplJoined
<1>5. CASE MplSwap
  BY <1>5 DEF MplSwap
<1>6. CASE MplPost
  BY <1>6 DEF MplPost
<1>7. CASE MplTake
  BY <1>7 DEF MplTake
<1>8. CASE MplLoad
  BY <1>8 DEF MplLoad
<1>9. CASE MplClear
  BY <1>9 DEF MplClear
<1>10. CASE MplPlayerSeek
  BY <1>10 DEF MplPlayerSeek
<1>11. CASE UNCHANGED MplVars
  BY <1>11 DEF MplVars
<1>12. QED
  BY <1>1, <1>2, <1>3, <1>4, <1>5, <1>6, <1>7, <1>8, <1>9, <1>10, <1>11
     DEF MplNext, MplUiStep, MplLoopStep

(* It implies what is claimed.                                             *)
LEMMA MplSafe == MplIInv => MplTypeOK /\ MplSeekReaches /\ MplFlagHasMessage
<1> SUFFICES ASSUME MplIInv
             PROVE  MplTypeOK /\ MplSeekReaches /\ MplFlagHasMessage
  OBVIOUS
<1> USE DEF MplIInv
<1>1. MplTypeOK
  BY DEF MplTypeOK, MplNumbers, MplPlaces, MplMessages
<1>2. MplSeekReaches
  BY DEF MplSeekReaches, MplUnderWay, MplRead, MplUnread, MplHas
<1>3. MplFlagHasMessage
  BY DEF MplFlagHasMessage, MplFlagged, MplHas
<1>4. QED
  BY <1>1, <1>2, <1>3

(* The coalescing of seeks loses none, and its flag is set exactly while a *)
(* message that will read the position is on its way (MediaPlayer).        *)
THEOREM MessagesSafety ==
  MplSpec => [](MplTypeOK /\ MplSeekReaches /\ MplFlagHasMessage)
BY MplInitIInv, MplNextIInv, MplSafe, PTL DEF MplSpec

-----------------------------------------------------------------------------
(* EventBus.                                                               *)

(* The places of p's events in a batch.                                    *)
BusOf(batch, p) == {i \in DOMAIN batch : batch[i] = p}

(* They are finitely many.                                                 *)
LEMMA BusOfIs ==
  ASSUME NEW batch \in Seq(BusPublishers), NEW p
  PROVE  /\ IsFiniteSet(BusOf(batch, p))
           /\ Cardinality(BusOf(batch, p)) \in Nat
         /\ batch = << >> => Cardinality(BusOf(batch, p)) = 0
<1>1. DOMAIN batch = 1 .. Len(batch) /\ Len(batch) \in Nat
  OBVIOUS
<1>2. IsFiniteSet(1 .. Len(batch))
  BY <1>1, FS_Interval
<1>3. BusOf(batch, p) \subseteq 1 .. Len(batch)
  BY <1>1 DEF BusOf
<1>4. batch = << >> => BusOf(batch, p) = {}
  BY DEF BusOf
<1>5. QED
  BY <1>2, <1>3, <1>4, FS_Subset, FS_CardinalityType, FS_EmptySet

(* One more event at the end of a batch ...                                *)
LEMMA BusOfAppend ==
  ASSUME NEW batch \in Seq(BusPublishers), NEW q \in BusPublishers, NEW p
  PROVE  /\ q = p => Cardinality(BusOf(Append(batch, q), p))
                       = Cardinality(BusOf(batch, p)) + 1
         /\ q # p => Cardinality(BusOf(Append(batch, q), p))
                       = Cardinality(BusOf(batch, p))
<1> DEFINE n == Len(batch)
           a == Append(batch, q)
<1>1. n \in Nat /\ DOMAIN batch = 1 .. n /\ DOMAIN a = 1 .. n + 1
  OBVIOUS
<1>2. a[n + 1] = q /\ \A i \in 1 .. n : a[i] = batch[i]
  OBVIOUS
<1> HIDE DEF n, a
<1>3. CASE q = p
  <2>1. BusOf(a, p) = BusOf(batch, p) \cup {n + 1}
          /\ n + 1 \notin BusOf(batch, p)
    BY <1>1, <1>2, <1>3 DEF BusOf
  <2>2. QED
    BY <1>3, <2>1, BusOfIs, FS_AddElement DEF a
<1>4. CASE q # p
  <2>1. BusOf(a, p) = BusOf(batch, p)
    BY <1>1, <1>2, <1>4 DEF BusOf
  <2>2. QED
    BY <1>4, <2>1 DEF a
<1>5. QED
  BY <1>3, <1>4

(* ... and one less at its beginning.                                      *)
LEMMA BusOfTail ==
  ASSUME NEW batch \in Seq(BusPublishers), batch # << >>, NEW p
  PROVE  /\ Head(batch) = p => Cardinality(BusOf(batch, p))
                                = Cardinality(BusOf(Tail(batch), p)) + 1
         /\ Head(batch) # p => Cardinality(BusOf(batch, p))
                                = Cardinality(BusOf(Tail(batch), p))
<1> DEFINE n == Len(batch)
           t == Tail(batch)
           S == BusOf(t, p)
           T == BusOf(batch, p) \ {1}
           f == [i \in S |-> i + 1]
<1>1. /\ n \in Nat /\ n > 0 /\ DOMAIN batch = 1 .. n /\ DOMAIN t = 1 .. n - 1
      /\ t \in Seq(BusPublishers)
  OBVIOUS
<1>2. Head(batch) = batch[1] /\ \A i \in 1 .. n - 1 : t[i] = batch[i + 1]
  OBVIOUS
<1> HIDE DEF n, t
<1>3. S \subseteq 1 .. n - 1
  BY <1>1 DEF BusOf
<1>4. \A i \in S : i + 1 \in T
  BY <1>1, <1>2 DEF BusOf
<1>5. \A j \in T : j - 1 \in S /\ (j - 1) + 1 = j
  <2>1. SUFFICES ASSUME NEW j \in T
                 PROVE  j - 1 \in S /\ (j - 1) + 1 = j
    OBVIOUS
  <2>2. j \in 2 .. n /\ batch[j] = p
    BY <1>1 DEF BusOf
  <2>3. j - 1 \in 1 .. n - 1 /\ (j - 1) + 1 = j
    BY <1>1, <2>2
  <2>4. t[j - 1] = p
    BY <1>2, <2>2, <2>3
  <2>5. QED
    BY <1>1, <2>3, <2>4 DEF BusOf
<1>6. f \in Bijection(S, T)
  <2> HIDE DEF S, T
  <2>1. f \in [S -> T]
    BY <1>4
  <2>2. \A i, j \in S : f[i] = f[j] => i = j
    BY <1>1, <1>3
  <2>3. \A j \in T : \E i \in S : f[i] = j
    BY <1>5
  <2>4. QED
    BY <2>1, <2>2, <2>3 DEF Bijection, Injection, Surjection, IsInjective
<1>7. IsFiniteSet(S) /\ Cardinality(S) \in Nat
  BY <1>1, BusOfIs
<1>8. IsFiniteSet(T) /\ Cardinality(T) = Cardinality(S)
  <2> HIDE DEF S, T, f
  <2>1. QED
    BY <1>6, <1>7, FS_Bijection DEF ExistsBijection
<1>9. IsFiniteSet(BusOf(batch, p)) /\ Cardinality(BusOf(batch, p)) \in Nat
  BY BusOfIs
<1>10. CASE Head(batch) = p
  <2>1. 1 \in BusOf(batch, p)
    BY <1>1, <1>2, <1>10 DEF BusOf
  <2>2. Cardinality(T) = Cardinality(BusOf(batch, p)) - 1
    BY <1>9, <2>1, FS_RemoveElement
  <2>3. QED
    BY <1>7, <1>8, <1>9, <1>10, <2>2 DEF t
<1>11. CASE Head(batch) # p
  <2>1. 1 \notin BusOf(batch, p)
    BY <1>1, <1>2, <1>11 DEF BusOf
  <2>2. T = BusOf(batch, p)
    BY <2>1
  <2>3. QED
    BY <1>8, <1>11, <2>2 DEF t
<1>12. QED
  BY <1>10, <1>11

(* The types.                                                              *)
BusTypes ==
  /\ busQueue \in [BusPublishers -> Nat] /\ busTaken \in [BusPublishers -> Nat]
  /\ busSeen \in [BusSubscribers -> [BusPublishers -> Nat]]

BusPlaces ==
  /\ busBatch \in Seq(BusPublishers) /\ busList \in Seq(BusSubscribers)
  /\ busAt \in {"idle", "drained", "calling"}
  /\ busCursor \in Nat /\ busCursor >= 1

BusDistinct == Distinct(busList)

(* The events of a publisher: those in the batch were taken.               *)
BusCounted ==
  \A p \in BusPublishers :
    /\ busQueue[p] + busTaken[p] <= BusEvents
    /\ Cardinality(BusOf(busBatch, p)) <= busTaken[p]

(* The i-th subscriber has been called with the event in hand.             *)
BusCalled(i, p) ==
  /\ busAt = "calling" /\ i < busCursor
  /\ busBatch # << >> /\ Head(busBatch) = p

(* What a subscriber has seen: all that was taken and is not in the batch. *)
BusSeenSoFar ==
  \A i \in 1 .. Len(busList), p \in BusPublishers :
    /\ ~BusCalled(i, p) => busSeen[busList[i]][p]
                             = busTaken[p] - Cardinality(BusOf(busBatch, p))
    /\ BusCalled(i, p)  => busSeen[busList[i]][p]
                             = (busTaken[p] - Cardinality(BusOf(busBatch,
                               p))) + 1

BusIInv == BusTypes /\ BusPlaces /\ BusDistinct /\ BusCounted /\ BusSeenSoFar

(* It holds at first ...                                                   *)
LEMMA BusInitIInv == BusInit => BusIInv
<1> SUFFICES ASSUME BusInit PROVE BusIInv
  OBVIOUS
<1> USE EventBusAssumption DEF BusInit, BusZero
<1>1. BusTypes
  BY DEF BusTypes
<1>2. BusPlaces
  BY DEF BusPlaces
<1>3. \A p : Cardinality(BusOf(busBatch, p)) = 0
  BY <1>2, BusOfIs DEF BusPlaces
<1>4. BusDistinct /\ BusSeenSoFar
  BY DEF BusDistinct, Distinct, BusSeenSoFar
<1>5. BusCounted
  BY <1>3 DEF BusCounted
<1>6. QED
  BY <1>1, <1>2, <1>4, <1>5 DEF BusIInv

(* A publisher's event is queued ...                                       *)
LEMMA BusPublishKeeps ==
  ASSUME BusIInv, NEW p \in BusPublishers, BusPublish(p)
  PROVE  BusIInv'
<1> USE EventBusAssumption DEF BusIInv, BusPublish
<1>1. BusTypes'
  BY DEF BusTypes
<1>2. BusCounted'
  BY DEF BusCounted, BusTypes
<1>3. BusPlaces' /\ BusDistinct' /\ BusSeenSoFar'
  BY DEF BusPlaces, BusDistinct, BusSeenSoFar, BusCalled
<1>4. QED
  BY <1>1, <1>2, <1>3

(* ... and drained.                                                        *)
LEMMA BusDrainKeeps ==
  ASSUME BusIInv, NEW p \in BusPublishers, BusDrain(p)
  PROVE  BusIInv'
<1> USE EventBusAssumption DEF BusIInv
<1>1. /\ busAt = "idle" /\ busQueue[p] > 0
      /\ busQueue' = [busQueue EXCEPT ![p] = @ - 1]
      /\ busTaken' = [busTaken EXCEPT ![p] = @ + 1]
      /\ busBatch' = Append(busBatch, p)
      /\ UNCHANGED <<busList, busAt, busCursor, busSeen>>
  BY DEF BusDrain
<1>2. busBatch \in Seq(BusPublishers)
  BY DEF BusPlaces
<1>3. \A q \in BusPublishers :
        /\ Cardinality(BusOf(busBatch, q)) \in Nat
        /\ q = p => Cardinality(BusOf(busBatch', q))
                      = Cardinality(BusOf(busBatch, q)) + 1
        /\ q # p => Cardinality(BusOf(busBatch', q))
                      = Cardinality(BusOf(busBatch, q))
  BY <1>1, <1>2, BusOfAppend, BusOfIs
<1>4. \A q \in BusPublishers :
        /\ busTaken[q] \in Nat /\ busQueue[q] \in Nat
        /\ q = p
             => busTaken'[q] = busTaken[q] + 1
               /\ busQueue'[q] = busQueue[q] - 1
        /\ q # p => busTaken'[q] = busTaken[q] /\ busQueue'[q] = busQueue[q]
  BY <1>1 DEF BusTypes
<1>5. BusTypes'
  BY <1>1 DEF BusTypes
<1>6. BusCounted'
  <2>1. SUFFICES ASSUME NEW q \in BusPublishers
                 PROVE  /\ busQueue'[q] + busTaken'[q] <= BusEvents
                        /\ Cardinality(BusOf(busBatch', q)) <= busTaken'[q]
    BY DEF BusCounted
  <2>2. /\ busQueue[q] + busTaken[q] <= BusEvents
        /\ Cardinality(BusOf(busBatch, q)) <= busTaken[q]
    BY DEF BusCounted
  <2>3. QED
    BY <1>3, <1>4, <2>2
<1>7. BusSeenSoFar'
  <2>1. \A i, q : ~BusCalled(i, q) /\ ~BusCalled(i, q)'
    BY <1>1 DEF BusCalled
  <2>2. SUFFICES ASSUME NEW i \in 1 .. Len(busList), NEW q \in BusPublishers
                 PROVE  busSeen[busList[i]][q]
                          = busTaken'[q] - Cardinality(BusOf(busBatch', q))
    BY <1>1, <2>1 DEF BusSeenSoFar
  <2>3. busSeen[busList[i]][q] = busTaken[q] - Cardinality(BusOf(busBatch, q))
    BY <2>1 DEF BusSeenSoFar
  <2>4. QED
    BY <1>3, <1>4, <2>3, SMTT(30)
<1>8. BusPlaces'
  BY <1>1, <1>2 DEF BusPlaces
<1>9. QED
  BY <1>1, <1>5, <1>6, <1>7, <1>8 DEF BusDistinct

(* A new subscriber has seen what is over ...                              *)
LEMMA BusSubscribeKeeps ==
  ASSUME BusIInv, NEW s \in BusSubscribers, BusSubscribe(s)
  PROVE  BusIInv'
<1> USE EventBusAssumption DEF BusIInv
<1> DEFINE n == Len(busList)
<1>1. /\ busAt # "calling" /\ \A i \in DOMAIN busList : busList[i] # s
      /\ busList' = Append(busList, s)
      /\ busSeen' = [busSeen EXCEPT
           ![s] = [p \in BusPublishers |->
                     busTaken[p] - Cardinality(BusOf(busBatch, p))]]
      /\ UNCHANGED <<busQueue, busTaken, busBatch, busAt, busCursor>>
  BY DEF BusSubscribe, BusMutexFree, BusSubscribed, BusInBatch, BusOf
<1>2. /\ n \in Nat /\ busList \in Seq(BusSubscribers)
           /\ DOMAIN busList = 1 .. n
      /\ Len(busList') = n + 1 /\ busList' \in Seq(BusSubscribers)
      /\ busList'[n + 1] = s /\ \A i \in 1 .. n : busList'[i] = busList[i]
  BY <1>1 DEF BusPlaces
<1> HIDE DEF n
<1>3. \A p \in BusPublishers : busTaken[p] - Cardinality(BusOf(busBatch,
        p)) \in Nat
  <2>1. SUFFICES ASSUME NEW p \in BusPublishers
                 PROVE  busTaken[p] - Cardinality(BusOf(busBatch, p)) \in Nat
    OBVIOUS
  <2>2. busTaken[p] \in Nat /\ Cardinality(BusOf(busBatch, p)) \in Nat
    BY BusOfIs DEF BusTypes, BusPlaces
  <2>3. QED
    BY <2>2 DEF BusCounted
<1>4. BusTypes'
  BY <1>1, <1>3 DEF BusTypes
<1>5. BusDistinct'
  BY <1>1, <1>2 DEF BusDistinct, Distinct
<1>6. BusSeenSoFar'
  <2>1. \A i, q : ~BusCalled(i, q) /\ ~BusCalled(i, q)'
    BY <1>1 DEF BusCalled
  <2>2. SUFFICES ASSUME NEW i \in 1 .. n + 1, NEW q \in BusPublishers
                 PROVE  busSeen'[busList'[i]][q]
                          = busTaken[q] - Cardinality(BusOf(busBatch, q))
    BY <1>1, <1>2, <2>1 DEF BusSeenSoFar
  <2>3. CASE i = n + 1
    BY <1>1, <1>2, <2>3 DEF BusTypes
  <2>4. CASE i # n + 1
    <3>1. i \in 1 .. n
      BY <1>2, <2>4
    <3>2. busSeen[busList[i]][q]
            = busTaken[q] - Cardinality(BusOf(busBatch, q))
      BY <2>1, <3>1 DEF BusSeenSoFar, n
    <3>3. busList'[i] # s /\ busList'[i] = busList[i]
      BY <1>1, <1>2, <3>1
    <3>4. busSeen'[busList[i]] = busSeen[busList[i]]
      BY <1>1, <3>3 DEF BusTypes
    <3>5. QED
      BY <3>2, <3>3, <3>4
  <2>5. QED
    BY <2>3, <2>4
<1>7. BusPlaces' /\ BusCounted'
  BY <1>1, <1>2 DEF BusPlaces, BusCounted
<1>8. QED
  BY <1>4, <1>5, <1>6, <1>7

(* ... and one that goes leaves the others in their order.                 *)
LEMMA BusUnsubscribeKeeps ==
  ASSUME BusIInv, NEW s \in BusSubscribers, BusUnsubscribe(s)
  PROVE  BusIInv'
<1> USE EventBusAssumption DEF BusIInv
<1> DEFINE n == Len(busList)
<1>1. /\ busAt # "calling" /\ \E i \in DOMAIN busList : busList[i] = s
      /\ busList' = RemoveFirst(busList, s)
      /\ UNCHANGED <<busQueue, busTaken, busBatch, busAt, busCursor, busSeen>>
  BY DEF BusUnsubscribe, BusMutexFree, BusSubscribed
<1>2. n \in Nat /\ busList \in Seq(BusSubscribers) /\ DOMAIN busList = 1 .. n
  BY DEF BusPlaces
<1>3. PICK k \in 1 .. n : busList[k] = s
  BY <1>1, <1>2
<1>4. /\ busList' \in Seq(BusSubscribers) /\ Len(busList') = n - 1
      /\ \A i \in 1 .. n - 1 :
           busList'[i] = IF i < k THEN busList[i] ELSE busList[i + 1]
  <2>1. Distinct(busList)
    BY DEF BusDistinct
  <2>2. /\ busList \in Seq(BusSubscribers) /\ k \in 1 .. Len(busList)
        /\ busList[k] = s
    BY <1>2, <1>3
  <2>3. /\ RemoveFirst(busList, s) \in Seq(BusSubscribers)
        /\ Without(busList, k, RemoveFirst(busList, s))
    BY <2>1, <2>2, Removed, Zenon
  <2>4. QED
    BY <1>1, <2>3 DEF Without
<1> DEFINE At(i) == IF i < k THEN i ELSE i + 1
<1> HIDE DEF n
<1>5. /\ \A i \in 1 .. n - 1 : At(i) \in 1 .. n /\ busList'[i] = busList[At(i)]
      /\ \A i, j \in 1 .. n - 1 : At(i) = At(j) => i = j
  BY <1>2, <1>4
<1> HIDE DEF At
<1>6. BusDistinct'
  <2>1. SUFFICES ASSUME NEW i \in 1 .. n - 1, NEW j \in 1 .. n - 1,
                        busList'[i] = busList'[j]
                 PROVE  i = j
    BY <1>4 DEF BusDistinct, Distinct
  <2>2. At(i) = At(j)
    BY <1>2, <1>5, <2>1 DEF BusDistinct, Distinct, n
  <2>3. QED
    BY <1>5, <2>2
<1>7. BusSeenSoFar'
  <2>1. \A i, q : ~BusCalled(i, q) /\ ~BusCalled(i, q)'
    BY <1>1 DEF BusCalled
  <2>2. SUFFICES ASSUME NEW i \in 1 .. n - 1, NEW q \in BusPublishers
                 PROVE  busSeen[busList'[i]][q]
                          = busTaken[q] - Cardinality(BusOf(busBatch, q))
    BY <1>1, <1>4, <2>1 DEF BusSeenSoFar
  <2>3. At(i) \in 1 .. Len(busList) /\ busList'[i] = busList[At(i)]
    BY <1>5 DEF n
  <2>4. QED
    BY <2>1, <2>3 DEF BusSeenSoFar
<1>8. BusPlaces' /\ BusCounted' /\ BusTypes'
  BY <1>1, <1>4 DEF BusPlaces, BusCounted, BusTypes
<1>9. QED
  BY <1>6, <1>7, <1>8

(* One callback: the subscriber has now been called with the event.        *)
LEMMA BusCallKeeps ==
  ASSUME BusIInv, BusCall
  PROVE  BusIInv'
<1> USE EventBusAssumption DEF BusIInv
<1> DEFINE n == Len(busList)
           c == busList[busCursor]
           h == Head(busBatch)
<1>1. /\ busAt = "calling" /\ busBatch # << >> /\ busCursor <= n
      /\ busSeen' = [busSeen EXCEPT ![c][h] = @ + 1]
      /\ busCursor' = busCursor + 1
      /\ UNCHANGED <<busQueue, busTaken, busBatch, busList, busAt>>
  BY DEF BusCall
<1>2. /\ n \in Nat /\ busCursor \in 1 .. n /\ h \in BusPublishers
      /\ \A i \in 1 .. n : busList[i] \in BusSubscribers
  BY <1>1 DEF BusPlaces
<1> HIDE DEF h
<1>3. c \in BusSubscribers
  BY <1>2
<1>4. BusTypes'
  BY <1>1, <1>2, <1>3 DEF BusTypes
<1>5. BusSeenSoFar'
  <2>1. SUFFICES ASSUME NEW i \in 1 .. n, NEW q \in BusPublishers
                 PROVE  /\ ~BusCalled(i, q)' => busSeen'[busList[i]][q]
                             = busTaken[q] - Cardinality(BusOf(busBatch, q))
                        /\ BusCalled(i, q)' => busSeen'[busList[i]][q]
                             = (busTaken[q] - Cardinality(BusOf(busBatch,
                               q))) + 1
    BY <1>1 DEF BusSeenSoFar
  <2>2. /\ ~BusCalled(i, q) => busSeen[busList[i]][q]
             = busTaken[q] - Cardinality(BusOf(busBatch, q))
        /\ BusCalled(i, q) => busSeen[busList[i]][q]
             = (busTaken[q] - Cardinality(BusOf(busBatch, q))) + 1
    BY DEF BusSeenSoFar
  <2>3. BusCalled(i, q)' <=> BusCalled(i, q) \/ (i = busCursor /\ q = h)
    BY <1>1, <1>2 DEF BusCalled, h
  <2>4. CASE i = busCursor /\ q = h
    <3>1. ~BusCalled(i, q) /\ BusCalled(i, q)'
      BY <1>2, <2>3, <2>4 DEF BusCalled
    <3>2. busSeen'[c][h] = busSeen[c][h] + 1
      BY <1>1, <1>2, <1>3 DEF BusTypes
    <3>3. QED
      BY <2>2, <2>4, <3>1, <3>2
  <2>5. CASE ~(i = busCursor /\ q = h)
    <3>1. busList[i] = c => i = busCursor
      BY <1>2 DEF BusDistinct, Distinct
    <3>2. busSeen'[busList[i]][q] = busSeen[busList[i]][q]
      BY <1>1, <1>2, <1>3, <2>5, <3>1 DEF BusTypes
    <3>3. QED
      BY <2>2, <2>3, <2>5, <3>2
  <2>6. QED
    BY <2>4, <2>5
<1>6. BusPlaces' /\ BusCounted' /\ BusDistinct'
  BY <1>1 DEF BusPlaces, BusCounted, BusDistinct
<1>7. QED
  BY <1>4, <1>5, <1>6

(* The next event: everybody has been called with the one before.          *)
LEMMA BusNextEventKeeps ==
  ASSUME BusIInv, BusNextEvent
  PROVE  BusIInv'
<1> USE EventBusAssumption DEF BusIInv
<1>1. /\ busAt = "calling" /\ busBatch # << >> /\ busCursor > Len(busList)
      /\ busBatch' = Tail(busBatch) /\ busCursor' = 1
      /\ UNCHANGED <<busQueue, busTaken, busList, busAt, busSeen>>
  BY DEF BusNextEvent
<1>2. busBatch \in Seq(BusPublishers) /\ busBatch' \in Seq(BusPublishers)
  BY <1>1 DEF BusPlaces
<1>3. \A q \in BusPublishers :
        /\ Cardinality(BusOf(busBatch, q)) \in Nat
        /\ Cardinality(BusOf(busBatch', q)) \in Nat
        /\ Head(busBatch) = q => Cardinality(BusOf(busBatch, q))
                                   = Cardinality(BusOf(busBatch', q)) + 1
        /\ Head(busBatch) # q => Cardinality(BusOf(busBatch, q))
                                   = Cardinality(BusOf(busBatch', q))
  BY <1>1, <1>2, BusOfTail, BusOfIs
<1>4. \A q \in BusPublishers : busTaken[q] \in Nat
  BY DEF BusTypes
<1>5. BusSeenSoFar'
  <2>1. SUFFICES ASSUME NEW i \in 1 .. Len(busList), NEW q \in BusPublishers
                 PROVE  busSeen[busList[i]][q]
                          = busTaken[q] - Cardinality(BusOf(busBatch', q))
    BY <1>1 DEF BusSeenSoFar, BusCalled
  <2>2. Head(busBatch) = q <=> BusCalled(i, q)
    BY <1>1 DEF BusCalled, BusPlaces
  <2>3. /\ Head(busBatch) # q => busSeen[busList[i]][q]
             = busTaken[q] - Cardinality(BusOf(busBatch, q))
        /\ Head(busBatch) = q => busSeen[busList[i]][q]
             = (busTaken[q] - Cardinality(BusOf(busBatch, q))) + 1
    BY <2>2 DEF BusSeenSoFar
  <2>4. QED
    BY <1>3, <1>4, <2>3, SMTT(30)
<1>6. BusCounted'
  BY <1>1, <1>3, <1>4 DEF BusCounted
<1>7. BusPlaces' /\ BusTypes' /\ BusDistinct'
  BY <1>1, <1>2 DEF BusPlaces, BusTypes, BusDistinct
<1>8. QED
  BY <1>5, <1>6, <1>7

(* ... and every step keeps it, action by action.                          *)
LEMMA BusNextIInv == BusIInv /\ [BusNext]_BusVars => BusIInv'
<1> SUFFICES ASSUME BusIInv, [BusNext]_BusVars PROVE BusIInv'
  OBVIOUS
<1>1. CASE BusDrained \/ BusLock \/ BusUnlock
  <2> USE <1>1 DEF BusDrained, BusLock, BusUnlock, BusIInv
  <2>1. BusTypes' /\ BusPlaces' /\ BusDistinct' /\ BusCounted'
    BY DEF BusTypes, BusPlaces, BusDistinct, BusCounted
  <2>2. \A i \in 1 .. Len(busList) : \A q : ~BusCalled(i, q) /\ ~BusCalled(i, q)'
    BY DEF BusCalled
  <2>3. BusSeenSoFar'
    BY <2>2 DEF BusSeenSoFar
  <2>4. QED
    BY <2>1, <2>3
<1>2. CASE UNCHANGED BusVars
  BY <1>2 DEF BusVars, BusIInv, BusTypes, BusPlaces, BusDistinct, BusCounted,
     BusSeenSoFar, BusCalled
<1>3. QED
  BY <1>1, <1>2, BusPublishKeeps, BusDrainKeeps, BusSubscribeKeeps,
     BusUnsubscribeKeeps, BusCallKeeps, BusNextEventKeeps
     DEF BusNext, BusDispatch

(* It implies what is claimed.                                             *)
LEMMA BusSafe == BusIInv => BusTypeOK /\ BusNothingMissed
<1> SUFFICES ASSUME BusIInv PROVE BusTypeOK /\ BusNothingMissed
  OBVIOUS
<1> USE EventBusAssumption DEF BusIInv
<1>1. BusTypeOK
  <2>1. \A p \in BusPublishers :
          busQueue[p] \in 0 .. BusEvents /\ busTaken[p] \in 0 .. BusEvents
    BY DEF BusCounted, BusTypes
  <2>2. /\ busQueue \in [BusPublishers -> 0 .. BusEvents]
        /\ busTaken \in [BusPublishers -> 0 .. BusEvents]
    BY <2>1 DEF BusTypes
  <2>3. QED
    BY <2>2 DEF BusTypeOK, BusTypes, BusPlaces
<1>2. BusNothingMissed
  <2>1. SUFFICES ASSUME busAt # "calling", NEW i \in 1 .. Len(busList),
                        NEW p \in BusPublishers
                 PROVE  busSeen[busList[i]][p]
                          = busTaken[p] - Cardinality(BusOf(busBatch, p))
    BY DEF BusNothingMissed, BusSubscribed, BusInBatch, BusOf, BusPlaces
  <2>2. QED
    BY <2>1 DEF BusSeenSoFar, BusCalled
<1>3. QED
  BY <1>1, <1>2

(* Every subscriber is called with every event taken since it subscribed,  *)
(* once, whoever subscribes, unsubscribes and publishes meanwhile          *)
(* (EventBus).                                                             *)
THEOREM BusSafety ==
  BusSpec => [](BusTypeOK /\ BusNothingMissed)
BY BusInitIInv, BusNextIInv, BusSafe, PTL DEF BusSpec

-----------------------------------------------------------------------------
(* SessionKeyCache.                                                        *)

(* The list without f, which is at most once in it: k is the place of f,   *)
(* or the one after the last.                                              *)
KeyPlace(f, k) ==
  /\ k \in 1 .. Len(keyRecent) + 1
  /\ k <= Len(keyRecent) => keyRecent[k] = f
  /\ k > Len(keyRecent) => \A i \in 1 .. Len(keyRecent) : keyRecent[i] # f

KeyDistinct ==
  \A i, j \in 1 .. Len(keyRecent) : keyRecent[i] = keyRecent[j] => i = j

(* Every file has its place.                                               *)
LEMMA KeyHasPlace ==
  ASSUME NEW f, keyRecent \in Seq(KeyFiles)
  PROVE  \E k \in Nat : KeyPlace(f, k)
<1>1. Len(keyRecent) \in Nat
  BY LenProperties
<1>2. CASE \E k \in 1 .. Len(keyRecent) : keyRecent[k] = f
  BY <1>1, <1>2 DEF KeyPlace
<1>3. CASE ~ \E k \in 1 .. Len(keyRecent) : keyRecent[k] = f
  <2>1. KeyPlace(f, Len(keyRecent) + 1)
    BY <1>1, <1>3 DEF KeyPlace
  <2>2. QED
    BY <1>1, <2>1
<1>4. QED
  BY <1>2, <1>3

(* The list with f moved, or put, to its front.                            *)
LEMMA KeyLatestIs ==
  ASSUME NEW f \in KeyFiles, keyRecent \in Seq(KeyFiles), KeyDistinct,
         NEW k \in Nat, KeyPlace(f, k)
  PROVE  /\ KeyLatest(f) \in Seq(KeyFiles)
         /\ Len(KeyLatest(f))
              = IF k <= Len(keyRecent)
                THEN Len(keyRecent) ELSE Len(keyRecent) + 1
         /\ KeyLatest(f)[1] = f
         /\ \A i \in 2 .. Len(KeyLatest(f)) :
              KeyLatest(f)[i]
                = IF i <= k THEN keyRecent[i - 1] ELSE keyRecent[i]
<1> DEFINE n == Len(keyRecent)
           r == RemoveFirst(keyRecent, f)
           m == IF k <= n THEN n - 1 ELSE n
<1>1. n \in Nat /\ k \in 1 .. n + 1
  BY LenProperties DEF KeyPlace
<1>2. /\ r \in Seq(KeyFiles) /\ Len(r) = m
      /\ \A i \in 1 .. m : r[i]
           = IF i < k THEN keyRecent[i] ELSE keyRecent[i + 1]
  <2>1. CASE k <= n
    BY <1>1, <2>1, Removed DEF KeyPlace, KeyDistinct, Distinct, Without
  <2>2. CASE ~(k <= n)
    <3>1. r = keyRecent
      BY <1>1, <2>2 DEF KeyPlace, RemoveFirst
    <3>2. k = n + 1
      BY <1>1, <2>2
    <3>3. QED
      BY <1>1, <2>2, <3>1, <3>2
  <2>3. QED
    BY <2>1, <2>2
<1>3. <<f>> \in Seq(KeyFiles) /\ Len(<<f>>) = 1 /\ <<f>>[1] = f
  OBVIOUS
<1>4. KeyLatest(f) = <<f>> \o r
  BY DEF KeyLatest
<1>5. m \in Nat
  BY <1>1
<1> HIDE DEF r, m
<1>6. /\ KeyLatest(f) \in Seq(KeyFiles) /\ Len(KeyLatest(f)) = m + 1
      /\ \A i \in 1 .. m + 1 :
           KeyLatest(f)[i] = IF i <= 1 THEN <<f>>[i] ELSE r[i - 1]
  <2>1. Len(<<f>>) + Len(r) = m + 1
    BY <1>2, <1>3, <1>5
  <2>2. QED
    BY <1>2, <1>3, <1>4, <1>5, <2>1, ConcatProperties
<1>7. ASSUME NEW i \in 2 .. m + 1
      PROVE  KeyLatest(f)[i]
               = IF i <= k THEN keyRecent[i - 1] ELSE keyRecent[i]
  <2>1. i \in 1 .. m + 1 /\ ~(i <= 1) /\ i - 1 \in 1 .. m /\ (i - 1) + 1 = i
    BY <1>5
  <2>2. KeyLatest(f)[i] = r[i - 1]
    BY <1>6, <2>1
  <2>3. i - 1 < k <=> i <= k
    BY <1>1, <1>5
  <2>4. QED
    BY <1>2, <2>1, <2>2, <2>3
<1>8. KeyLatest(f)[1] = f
  <2>1. 1 \in 1 .. m + 1 /\ 1 <= 1
    BY <1>5
  <2>2. QED
    BY <1>3, <1>6, <2>1
<1>9. m + 1 = IF k <= n THEN n ELSE n + 1
  BY <1>1 DEF m
<1>10. QED
  BY <1>6, <1>7, <1>8, <1>9

KeyTypes ==
  /\ DOMAIN keyUsed \subseteq KeyFiles
  /\ keyClock \in 0 .. KeyCalls
  /\ keyRecent \in Seq(KeyFiles)

(* The uses are in the past, and in the order of the list.                 *)
KeyOrdered ==
  /\ \A f \in DOMAIN keyUsed : keyUsed[f] \in Nat /\ keyUsed[f] < keyClock
  /\ \A i, j \in 1 .. Len(keyRecent) :
       i < j /\ j <= KeyEntries =>
         keyUsed[keyRecent[j]] < keyUsed[keyRecent[i]]

KeyIInv == KeyTypes /\ KeyDistinct /\ KeyOrdered /\ KeyRecentKept

(* KeyRecentKept, file by file; and how many entries that are.             *)
LEMMA KeyKeptIs ==
  ASSUME keyRecent \in Seq(KeyFiles)
  PROVE  KeyRecentKept <=>
           \A f : f \in DOMAIN keyUsed <=>
                  \E i \in 1 .. Len(keyRecent) : i <= KeyEntries
                    /\ keyRecent[i] = f
<1>1. DOMAIN keyRecent = 1 .. Len(keyRecent)
  BY LenProperties
<1>2. QED
  BY <1>1 DEF KeyRecentKept

(* ... and are after a step.                                               *)
LEMMA KeyKeptLater ==
  ASSUME keyRecent' \in Seq(KeyFiles)
  PROVE  KeyRecentKept' <=>
           \A f : f \in DOMAIN keyUsed' <=>
                  \E i \in 1 .. Len(keyRecent') : i <= KeyEntries
                    /\ keyRecent'[i] = f
<1>1. DOMAIN keyRecent' = 1 .. Len(keyRecent')
  BY LenProperties
<1>2. QED
  BY <1>1 DEF KeyRecentKept

(* The cache has as many entries as it has room for, or as files were      *)
(* used.                                                                   *)
LEMMA KeyCount ==
  ASSUME KeyIInv
  PROVE  /\ IsFiniteSet(DOMAIN keyUsed)
         /\ Cardinality(DOMAIN keyUsed)
              = IF Len(keyRecent) <= KeyEntries
                THEN Len(keyRecent) ELSE KeyEntries
<1> DEFINE m == IF Len(keyRecent) <= KeyEntries
                THEN Len(keyRecent) ELSE KeyEntries
           g == [i \in 1 .. m |-> keyRecent[i]]
<1>1. keyRecent \in Seq(KeyFiles) /\ Len(keyRecent) \in Nat
  BY LenProperties DEF KeyIInv, KeyTypes
<1>2. m \in Nat /\ \A i \in Nat : i <= m <=> i <= Len(keyRecent)
        /\ i <= KeyEntries
  BY <1>1, KeyAssumption
<1> HIDE DEF m
<1>3. \A i, j \in 1 .. m : g[i] = g[j] => i = j
  BY <1>1, <1>2 DEF KeyIInv, KeyDistinct
<1>4. \A f : f \in DOMAIN keyUsed <=> \E i \in 1 .. m : g[i] = f
  <2>1. \A f : f \in DOMAIN keyUsed <=>
          \E i \in 1 .. Len(keyRecent) : i <= KeyEntries /\ keyRecent[i] = f
    BY <1>1, KeyKeptIs DEF KeyIInv
  <2>2. QED
    BY <1>1, <1>2, <2>1
<1>5. g \in Bijection(1 .. m, DOMAIN keyUsed)
  <2>1. g \in [1 .. m -> DOMAIN keyUsed]
    BY <1>4
  <2>2. QED
    BY <1>3, <1>4, <2>1 DEF Bijection, Injection, Surjection, IsInjective
<1>6. ExistsBijection(1 .. m, DOMAIN keyUsed)
  BY <1>5 DEF ExistsBijection
<1>7. IsFiniteSet(DOMAIN keyUsed) /\ Cardinality(DOMAIN keyUsed) = m
  BY <1>2, <1>6, FS_CountingElements, FS_NatBijection
<1>8. QED
  BY <1>7 DEF m

(* It holds at first ...                                                   *)
LEMMA KeyInitIInv == KeyInit => KeyIInv
<1> SUFFICES ASSUME KeyInit PROVE KeyIInv
  OBVIOUS
<1>1. keyRecent = <<>> /\ keyUsed = <<>> /\ keyClock = 0
  BY DEF KeyInit
<1>2. keyRecent \in Seq(KeyFiles) /\ Len(keyRecent) = 0 /\ DOMAIN keyUsed = {}
  BY <1>1
<1>3. KeyTypes /\ KeyDistinct /\ KeyOrdered
  BY <1>1, <1>2, KeyAssumption DEF KeyTypes, KeyDistinct, KeyOrdered
<1>4. KeyRecentKept
  BY <1>2, KeyKeptIs
<1>5. QED
  BY <1>3, <1>4 DEF KeyIInv

(* Where the list after an open has its entries from.                      *)
LEMMA KeyListStep ==
  ASSUME KeyTypes, KeyDistinct, NEW f \in KeyFiles, keyRecent' = KeyLatest(f),
         NEW k \in Nat, KeyPlace(f, k)
  PROVE  /\ keyRecent' \in Seq(KeyFiles) /\ Len(keyRecent') \in Nat
         /\ Len(keyRecent')
              = IF k <= Len(keyRecent)
                THEN Len(keyRecent) ELSE Len(keyRecent) + 1
         /\ keyRecent'[1] = f /\ Len(keyRecent') >= 1
         /\ \A j \in 2 .. Len(keyRecent') :
              /\ j <= k => j - 1 \in 1 .. Len(keyRecent)
                          /\ keyRecent'[j] = keyRecent[j - 1] /\ j - 1 < k
              /\ j > k  => j \in 1 .. Len(keyRecent)
                          /\ keyRecent'[j] = keyRecent[j]
              /\ keyRecent'[j] # f
         /\ KeyDistinct'
<1>1. keyRecent \in Seq(KeyFiles) /\ Len(keyRecent) \in Nat
  BY LenProperties DEF KeyTypes
<1>2. /\ k \in 1 .. Len(keyRecent) + 1
      /\ k <= Len(keyRecent) => keyRecent[k] = f
      /\ k > Len(keyRecent) => \A i \in 1 .. Len(keyRecent) : keyRecent[i] # f
  BY DEF KeyPlace
<1>3. /\ keyRecent' \in Seq(KeyFiles)
      /\ Len(keyRecent')
           = IF k <= Len(keyRecent) THEN Len(keyRecent) ELSE Len(keyRecent) + 1
      /\ keyRecent'[1] = f
      /\ \A i \in 2 .. Len(keyRecent') :
           keyRecent'[i] = IF i <= k THEN keyRecent[i - 1] ELSE keyRecent[i]
  BY <1>1, KeyLatestIs
<1>4. Len(keyRecent') \in Nat /\ Len(keyRecent') >= 1
  BY <1>1, <1>2, <1>3
<1>5. ASSUME NEW j \in 2 .. Len(keyRecent')
      PROVE  /\ j <= k => j - 1 \in 1 .. Len(keyRecent)
                         /\ keyRecent'[j] = keyRecent[j - 1] /\ j - 1 < k
             /\ j > k  => j \in 1 .. Len(keyRecent)
                         /\ keyRecent'[j] = keyRecent[j]
             /\ keyRecent'[j] # f
  <2>1. CASE j <= k
    <3>1. j - 1 \in 1 .. Len(keyRecent) /\ j - 1 < k /\ j - 1 # k
      BY <1>1, <1>2, <2>1
    <3>2. keyRecent'[j] = keyRecent[j - 1]
      BY <1>3, <2>1
    <3>3. keyRecent[j - 1] # f
      BY <1>1, <1>2, <3>1 DEF KeyDistinct
    <3>4. QED
      BY <1>2, <2>1, <3>1, <3>2, <3>3
  <2>2. CASE j > k
    <3>1. j \in 1 .. Len(keyRecent) /\ k <= Len(keyRecent) /\ ~(j <= k)
      BY <1>1, <1>2, <1>3, <2>2
    <3>2. keyRecent'[j] = keyRecent[j]
      BY <1>3, <3>1
    <3>3. k \in 1 .. Len(keyRecent) /\ keyRecent[k] = f /\ j # k
      BY <1>1, <1>2, <2>2, <3>1
    <3>4. keyRecent[j] # f
      BY <3>1, <3>3 DEF KeyDistinct
    <3>5. QED
      BY <3>1, <3>2, <3>4
  <2>3. QED
    BY <1>2, <2>1, <2>2
<1>6. KeyDistinct'
  <2> SUFFICES ASSUME NEW i \in 1 .. Len(keyRecent'),
                        NEW j \in 1 .. Len(keyRecent'),
                      i < j, keyRecent'[i] = keyRecent'[j]
               PROVE  FALSE
    BY <1>4 DEF KeyDistinct
  <2>1. j \in 2 .. Len(keyRecent')
    BY <1>4
  <2>2. i # 1
    BY <1>3, <1>5, <2>1
  <2>3. i \in 2 .. Len(keyRecent')
    BY <1>4, <2>2
  <2> DEFINE a == IF i <= k THEN i - 1 ELSE i
             b == IF j <= k THEN j - 1 ELSE j
  <2>4. a \in 1 .. Len(keyRecent) /\ b \in 1 .. Len(keyRecent)
        /\ keyRecent[a] = keyRecent[b]
    BY <1>2, <1>5, <2>1, <2>3
  <2>5. a # b
    BY <1>2
  <2> HIDE DEF a, b
  <2>6. QED
    BY <2>4, <2>5 DEF KeyDistinct
<1>7. QED
  BY <1>3, <1>4, <1>5, <1>6

(* The entry that has to go is the last one of the list kept.              *)
LEMMA KeyEvictedIs ==
  ASSUME KeyIInv
  PROVE  \A g : g \in KeyEvicted <=>
           \E i \in 1 .. Len(keyRecent) : i <= KeyEntries - 1
             /\ keyRecent[i] = g
<1>1. keyRecent \in Seq(KeyFiles) /\ Len(keyRecent) \in Nat
      /\ KeyEntries \in Nat /\ KeyEntries >= 1
  BY LenProperties, KeyAssumption DEF KeyIInv, KeyTypes
<1>2. \A f : f \in DOMAIN keyUsed <=>
        \E i \in 1 .. Len(keyRecent) : i <= KeyEntries /\ keyRecent[i] = f
  BY <1>1, KeyKeptIs DEF KeyIInv
<1>3. CASE Len(keyRecent) < KeyEntries
  <2>1. KeyEvicted = DOMAIN keyUsed
    BY <1>1, <1>3, KeyCount DEF KeyEvicted
  <2>2. \A i \in 1 .. Len(keyRecent) : i <= KeyEntries <=> i <= KeyEntries - 1
    BY <1>1, <1>3
  <2>3. QED
    BY <1>2, <2>1, <2>2
<1>4. CASE ~(Len(keyRecent) < KeyEntries)
  <2> DEFINE last == keyRecent[KeyEntries]
  <2>1. KeyEvicted = {f \in DOMAIN keyUsed :
                        \E g \in DOMAIN keyUsed : keyUsed[g] < keyUsed[f]}
    BY <1>1, <1>4, KeyCount DEF KeyEvicted
  <2>2. KeyEntries \in 1 .. Len(keyRecent) /\ last \in DOMAIN keyUsed
    BY <1>1, <1>2, <1>4
  <2>3. ASSUME NEW i \in 1 .. Len(keyRecent), i <= KeyEntries - 1
        PROVE  keyRecent[i] \in KeyEvicted
    <3>1. i < KeyEntries /\ i <= KeyEntries
      BY <1>1, <2>3
    <3>2. keyUsed[last] < keyUsed[keyRecent[i]]
      BY <1>1, <2>2, <3>1 DEF KeyIInv, KeyOrdered
    <3>3. QED
      BY <1>2, <2>1, <2>2, <3>1, <3>2
  <2>4. ASSUME NEW g \in KeyEvicted
        PROVE  \E i \in 1 .. Len(keyRecent) : i <= KeyEntries - 1
                 /\ keyRecent[i] = g
    <3>1. g \in DOMAIN keyUsed
      BY <2>1
    <3>1a. PICK h \in DOMAIN keyUsed : keyUsed[h] < keyUsed[g]
      BY <2>1
    <3>2. PICK i \in 1 .. Len(keyRecent) : i <= KeyEntries /\ keyRecent[i] = g
      BY <1>2, <3>1
    <3>3. PICK j \in 1 .. Len(keyRecent) : j <= KeyEntries /\ keyRecent[j] = h
      BY <1>2
    <3>4. keyUsed[g] \in Nat /\ keyUsed[h] \in Nat
      BY <3>1 DEF KeyIInv, KeyOrdered
    <3>5. ASSUME i = KeyEntries PROVE FALSE
      <4>1. CASE j = i
        BY <3>1a, <3>2, <3>3, <3>4, <4>1
      <4>2. CASE j < i
        <5>1. keyUsed[g] < keyUsed[h]
          BY <3>2, <3>3, <4>2 DEF KeyIInv, KeyOrdered
        <5>2. QED
          BY <3>1a, <3>4, <5>1
      <4>3. QED
        BY <1>1, <3>3, <3>5, <4>1, <4>2
    <3>6. i <= KeyEntries - 1
      BY <1>1, <3>2, <3>5
    <3>7. QED
      BY <3>2, <3>6
  <2>5. QED
    BY <2>3, <2>4
<1>5. QED
  BY <1>3, <1>4

(* An open whose key is kept keeps the invariant ...                       *)
LEMMA KeyHitKeeps ==
  ASSUME KeyIInv, NEW f \in KeyFiles, KeyHit(f)
  PROVE  KeyIInv'
<1>1. keyRecent \in Seq(KeyFiles) /\ Len(keyRecent) \in Nat
        /\ KeyEntries \in Nat
      /\ KeyEntries >= 1 /\ keyClock \in Nat /\ KeyCalls \in Nat
  BY LenProperties, KeyAssumption DEF KeyIInv, KeyTypes
<1>2. PICK k \in Nat : KeyPlace(f, k)
  BY <1>1, KeyHasPlace
<1>3. /\ keyRecent' = KeyLatest(f) /\ f \in DOMAIN keyUsed
      /\ keyUsed' = [keyUsed EXCEPT ![f] = keyClock]
      /\ keyClock < KeyCalls /\ keyClock' = keyClock + 1
  BY DEF KeyHit, KeyTick
<1>4. /\ keyRecent' \in Seq(KeyFiles) /\ Len(keyRecent') \in Nat
      /\ keyRecent'[1] = f /\ Len(keyRecent') >= 1 /\ KeyDistinct'
      /\ \A j \in 2 .. Len(keyRecent') :
           /\ j <= k => j - 1 \in 1 .. Len(keyRecent)
                       /\ keyRecent'[j] = keyRecent[j - 1] /\ j - 1 < k
           /\ j > k  => j \in 1 .. Len(keyRecent)
                       /\ keyRecent'[j] = keyRecent[j]
           /\ keyRecent'[j] # f
  BY <1>2, <1>3, KeyListStep DEF KeyIInv
<1>5. \A g : g \in DOMAIN keyUsed <=>
        \E i \in 1 .. Len(keyRecent) : i <= KeyEntries /\ keyRecent[i] = g
  BY <1>1, KeyKeptIs DEF KeyIInv
<1>6. /\ k \in 1 .. Len(keyRecent) /\ k <= KeyEntries /\ keyRecent[k] = f
      /\ Len(keyRecent') = Len(keyRecent)
  <2>1. PICK i \in 1 .. Len(keyRecent) : i <= KeyEntries /\ keyRecent[i] = f
    BY <1>3, <1>5
  <2>2. k \in 1 .. Len(keyRecent) /\ keyRecent[k] = f
    BY <1>1, <1>2, <2>1 DEF KeyPlace
  <2>3. k = i
    BY <2>1, <2>2 DEF KeyIInv, KeyDistinct
  <2>4. QED
    BY <1>2, <1>3, <2>1, <2>2, <2>3, KeyListStep DEF KeyIInv
<1>7. DOMAIN keyUsed' = DOMAIN keyUsed /\ keyUsed'[f] = keyClock
      /\ \A g \in DOMAIN keyUsed : g # f => keyUsed'[g] = keyUsed[g]
  BY <1>3
<1>8. \A g \in DOMAIN keyUsed : keyUsed[g] \in Nat /\ keyUsed[g] < keyClock
  BY DEF KeyIInv, KeyOrdered
<1>9. KeyTypes'
  BY <1>1, <1>3, <1>4, <1>7 DEF KeyIInv, KeyTypes
<1>10. KeyRecentKept'
  <2>1. ASSUME NEW i \in 1 .. Len(keyRecent'), i <= KeyEntries
        PROVE  keyRecent'[i] \in DOMAIN keyUsed
    <3>1. CASE i = 1
      BY <1>3, <1>4, <3>1
    <3>2. CASE i # 1
      <4>1. i \in 2 .. Len(keyRecent')
        BY <1>4, <3>2
      <4>2. CASE i <= k
        BY <1>1, <1>4, <1>5, <2>1, <4>1, <4>2
      <4>3. CASE i > k
        BY <1>1, <1>4, <1>5, <2>1, <4>1, <4>3
      <4>4. QED
        BY <1>2, <4>2, <4>3
    <3>3. QED
      BY <3>1, <3>2
  <2>2. ASSUME NEW g \in DOMAIN keyUsed
        PROVE  \E i \in 1 .. Len(keyRecent') : i <= KeyEntries
                 /\ keyRecent'[i] = g
    <3>1. PICK i \in 1 .. Len(keyRecent) : i <= KeyEntries /\ keyRecent[i] = g
      BY <1>5
    <3>2. CASE i < k
      <4>1. i + 1 \in 2 .. Len(keyRecent') /\ i + 1 <= k /\ (i + 1) - 1 = i
        BY <1>1, <1>6, <3>2
      <4>2. keyRecent'[i + 1] = g
        BY <1>4, <3>1, <4>1
      <4>3. i + 1 \in 1 .. Len(keyRecent') /\ i + 1 <= KeyEntries
        BY <1>1, <1>6, <4>1
      <4>4. QED
        BY <4>2, <4>3
    <3>3. CASE i = k
      BY <1>1, <1>4, <1>6, <3>1, <3>3
    <3>4. CASE i > k
      <4>1. i \in 2 .. Len(keyRecent') /\ i \in 1 .. Len(keyRecent')
        BY <1>1, <1>6, <3>4
      <4>2. QED
        BY <1>4, <3>1, <3>4, <4>1
    <3>5. QED
      BY <1>2, <3>2, <3>3, <3>4
  <2>3. QED
    BY <1>4, <1>7, <2>1, <2>2, KeyKeptLater
<1>11. KeyOrdered'
  <2>1. \A g \in DOMAIN keyUsed' : keyUsed'[g] \in Nat
          /\ keyUsed'[g] < keyClock'
    BY <1>1, <1>3, <1>7, <1>8
  <2>2. ASSUME NEW i \in 1 .. Len(keyRecent'), NEW j \in 1 .. Len(keyRecent'),
               i < j, j <= KeyEntries
        PROVE  keyUsed'[keyRecent'[j]] < keyUsed'[keyRecent'[i]]
    <3>1. j \in 2 .. Len(keyRecent')
      BY <1>4, <2>2
    <3> DEFINE b == IF j <= k THEN j - 1 ELSE j
               a == IF i <= k THEN i - 1 ELSE i
    <3>2. /\ b \in 1 .. Len(keyRecent) /\ b <= KeyEntries
          /\ keyRecent'[j] = keyRecent[b] /\ keyRecent[b] # f
      BY <1>1, <1>2, <1>4, <2>2, <3>1
    <3>3. keyRecent[b] \in DOMAIN keyUsed
      BY <1>5, <3>2
    <3>4. CASE i = 1
      <4>1. keyUsed'[keyRecent'[j]] < keyClock
        BY <1>7, <1>8, <3>2, <3>3
      <4>2. QED
        BY <1>4, <1>7, <3>4, <4>1
    <3>5. CASE i # 1
      <4>1. i \in 2 .. Len(keyRecent')
        BY <1>4, <3>5
      <4>2. /\ a \in 1 .. Len(keyRecent) /\ a < b /\ a <= KeyEntries
            /\ keyRecent'[i] = keyRecent[a] /\ keyRecent[a] # f
        BY <1>1, <1>2, <1>4, <2>2, <4>1
      <4> HIDE DEF a, b
      <4>3. keyUsed[keyRecent[b]] < keyUsed[keyRecent[a]]
        BY <3>2, <4>2 DEF KeyIInv, KeyOrdered
      <4>4. keyRecent[a] \in DOMAIN keyUsed
        BY <1>5, <4>2
      <4>5. QED
        BY <1>7, <3>2, <3>3, <4>2, <4>3, <4>4
    <3>6. QED
      BY <3>4, <3>5
  <2>3. QED
    BY <2>1, <2>2 DEF KeyOrdered
<1>12. QED
  BY <1>4, <1>9, <1>10, <1>11 DEF KeyIInv

(* ... and so does one that asks for the key, and may evict another.       *)
LEMMA KeyAskedKeeps ==
  ASSUME KeyIInv, NEW f \in KeyFiles, KeyAsked(f)
  PROVE  KeyIInv'
<1>1. keyRecent \in Seq(KeyFiles) /\ Len(keyRecent) \in Nat
        /\ KeyEntries \in Nat
      /\ KeyEntries >= 1 /\ keyClock \in Nat /\ KeyCalls \in Nat
  BY LenProperties, KeyAssumption DEF KeyIInv, KeyTypes
<1>2. PICK k \in Nat : KeyPlace(f, k)
  BY <1>1, KeyHasPlace
<1>3. /\ keyRecent' = KeyLatest(f) /\ f \notin DOMAIN keyUsed
      /\ keyUsed' = [g \in KeyEvicted \cup {f} |->
                       IF g = f THEN keyClock ELSE keyUsed[g]]
      /\ keyClock < KeyCalls /\ keyClock' = keyClock + 1
  BY DEF KeyAsked, KeyTick
<1>4. /\ keyRecent' \in Seq(KeyFiles) /\ Len(keyRecent') \in Nat
      /\ keyRecent'[1] = f /\ Len(keyRecent') >= 1 /\ KeyDistinct'
      /\ Len(keyRecent')
           = IF k <= Len(keyRecent) THEN Len(keyRecent) ELSE Len(keyRecent) + 1
      /\ \A j \in 2 .. Len(keyRecent') :
           /\ j <= k => j - 1 \in 1 .. Len(keyRecent)
                       /\ keyRecent'[j] = keyRecent[j - 1] /\ j - 1 < k
           /\ j > k  => j \in 1 .. Len(keyRecent)
                       /\ keyRecent'[j] = keyRecent[j]
           /\ keyRecent'[j] # f
  BY <1>2, <1>3, KeyListStep DEF KeyIInv
<1>5. \A g : g \in DOMAIN keyUsed <=>
        \E i \in 1 .. Len(keyRecent) : i <= KeyEntries /\ keyRecent[i] = g
  BY <1>1, KeyKeptIs DEF KeyIInv
<1>6. \A g : g \in KeyEvicted <=>
        \E i \in 1 .. Len(keyRecent) : i <= KeyEntries - 1 /\ keyRecent[i] = g
  BY KeyEvictedIs
<1>7. k \in 1 .. Len(keyRecent) + 1 /\ (k <= Len(keyRecent) => k > KeyEntries)
  BY <1>1, <1>2, <1>3, <1>5 DEF KeyPlace
<1>8. DOMAIN keyUsed' = KeyEvicted \cup {f} /\ keyUsed'[f] = keyClock
      /\ \A g \in KeyEvicted : g # f => keyUsed'[g] = keyUsed[g]
  BY <1>3
<1>9. \A g \in KeyEvicted : g \in DOMAIN keyUsed /\ g # f
  BY <1>3 DEF KeyEvicted
<1>10. \A g \in DOMAIN keyUsed : keyUsed[g] \in Nat /\ keyUsed[g] < keyClock
  BY DEF KeyIInv, KeyOrdered
<1>11. ASSUME NEW j \in 2 .. Len(keyRecent'), j <= KeyEntries
       PROVE  /\ j - 1 \in 1 .. Len(keyRecent) /\ j - 1 <= KeyEntries - 1
              /\ keyRecent'[j] = keyRecent[j - 1]
                   /\ keyRecent'[j] \in KeyEvicted
  <2>1. j <= k
    BY <1>1, <1>4, <1>7, <1>11
  <2>2. j - 1 \in 1 .. Len(keyRecent) /\ keyRecent'[j] = keyRecent[j - 1]
    BY <1>4, <2>1
  <2>3. j - 1 <= KeyEntries - 1
    BY <1>1, <1>11
  <2>4. QED
    BY <1>6, <2>2, <2>3
<1>12. KeyTypes'
  BY <1>1, <1>3, <1>4, <1>8, <1>9 DEF KeyIInv, KeyTypes
<1>13. KeyRecentKept'
  <2>1. ASSUME NEW i \in 1 .. Len(keyRecent'), i <= KeyEntries
        PROVE  keyRecent'[i] \in KeyEvicted \cup {f}
    <3>1. CASE i = 1
      BY <1>4, <3>1
    <3>2. CASE i # 1
      BY <1>4, <1>11, <2>1, <3>2
    <3>3. QED
      BY <3>1, <3>2
  <2>2. ASSUME NEW g \in KeyEvicted
        PROVE  \E i \in 1 .. Len(keyRecent') : i <= KeyEntries
                 /\ keyRecent'[i] = g
    <3>1. PICK i \in 1 .. Len(keyRecent) : i <= KeyEntries - 1
            /\ keyRecent[i] = g
      BY <1>6
    <3>2. i + 1 \in 2 .. Len(keyRecent') /\ i + 1 <= KeyEntries
            /\ (i + 1) - 1 = i
      BY <1>1, <1>4, <1>7, <3>1
    <3>3. keyRecent'[i + 1] = g
      BY <1>11, <3>1, <3>2
    <3>4. QED
      BY <1>4, <3>2, <3>3
  <2>3. \E i \in 1 .. Len(keyRecent') : i <= KeyEntries /\ keyRecent'[i] = f
    BY <1>1, <1>4
  <2>4. QED
    BY <1>4, <1>8, <2>1, <2>2, <2>3, KeyKeptLater
<1>14. KeyOrdered'
  <2>1. \A g \in DOMAIN keyUsed' : keyUsed'[g] \in Nat
          /\ keyUsed'[g] < keyClock'
    BY <1>1, <1>3, <1>8, <1>9, <1>10
  <2>2. ASSUME NEW i \in 1 .. Len(keyRecent'), NEW j \in 1 .. Len(keyRecent'),
               i < j, j <= KeyEntries
        PROVE  keyUsed'[keyRecent'[j]] < keyUsed'[keyRecent'[i]]
    <3>1. j \in 2 .. Len(keyRecent')
      BY <1>4, <2>2
    <3>2. keyUsed'[keyRecent'[j]] = keyUsed[keyRecent[j - 1]]
          /\ keyUsed[keyRecent[j - 1]] < keyClock
      BY <1>8, <1>9, <1>10, <1>11, <2>2, <3>1
    <3>3. CASE i = 1
      BY <1>4, <1>8, <3>2, <3>3
    <3>4. CASE i # 1
      <4>1. i \in 2 .. Len(keyRecent') /\ i <= KeyEntries
        BY <1>1, <1>4, <2>2, <3>4
      <4>2. keyUsed'[keyRecent'[i]] = keyUsed[keyRecent[i - 1]]
        BY <1>8, <1>9, <1>11, <4>1
      <4>3. i - 1 \in 1 .. Len(keyRecent) /\ j - 1 \in 1 .. Len(keyRecent)
            /\ i - 1 < j - 1 /\ j - 1 <= KeyEntries
        BY <1>1, <1>11, <2>2, <3>1, <4>1
      <4>4. keyUsed[keyRecent[j - 1]] < keyUsed[keyRecent[i - 1]]
        BY <4>3 DEF KeyIInv, KeyOrdered
      <4>5. QED
        BY <3>2, <4>2, <4>4
    <3>5. QED
      BY <3>3, <3>4
  <2>3. QED
    BY <2>1, <2>2 DEF KeyOrdered
<1>15. QED
  BY <1>4, <1>12, <1>13, <1>14 DEF KeyIInv

(* ... and every step keeps it, action by action.                          *)
LEMMA KeyNextIInv == KeyIInv /\ [KeyNext]_KeyVars => KeyIInv'
<1> SUFFICES ASSUME KeyIInv, [KeyNext]_KeyVars PROVE KeyIInv'
  OBVIOUS
<1>1. ASSUME NEW f \in KeyFiles, KeyWrong(f) PROVE KeyIInv'
  <2>1. /\ keyUsed' = keyUsed /\ keyRecent' = keyRecent
        /\ keyClock < KeyCalls /\ keyClock' = keyClock + 1
    BY <1>1 DEF KeyWrong, KeyTick
  <2>2. KeyTypes'
    BY <2>1, KeyAssumption DEF KeyIInv, KeyTypes
  <2>3. KeyDistinct' /\ KeyRecentKept'
    BY <2>1 DEF KeyIInv, KeyDistinct, KeyRecentKept
  <2>4. KeyOrdered'
    BY <2>1, KeyAssumption DEF KeyIInv, KeyTypes, KeyOrdered
  <2>5. QED
    BY <2>2, <2>3, <2>4 DEF KeyIInv
<1>2. CASE UNCHANGED KeyVars
  BY <1>2
     DEF KeyVars, KeyIInv, KeyTypes, KeyDistinct, KeyOrdered, KeyRecentKept
<1>3. QED
  BY <1>1, <1>2, KeyHitKeeps, KeyAskedKeeps DEF KeyNext

(* It implies what is claimed.                                             *)
LEMMA KeySafe == KeyIInv => KeyTypeOK /\ KeyRecentKept
<1> SUFFICES ASSUME KeyIInv PROVE KeyTypeOK
  BY DEF KeyIInv
<1>1. \A f \in DOMAIN keyUsed : keyUsed[f] \in 0 .. KeyCalls
  BY KeyAssumption DEF KeyIInv, KeyTypes, KeyOrdered
<1>2. Cardinality(DOMAIN keyUsed) <= KeyEntries
  <2>1. Len(keyRecent) \in Nat /\ KeyEntries \in Nat
    BY LenProperties, KeyAssumption DEF KeyIInv, KeyTypes
  <2>2. QED
    BY <2>1, KeyCount
<1>3. QED
  BY <1>1, <1>2 DEF KeyIInv, KeyTypes, KeyTypeOK

(* The keys that the cache keeps are those of the files used last          *)
(* (SessionKeyCache).                                                      *)
THEOREM KeysSafety ==
  KeySpec => [](KeyTypeOK /\ KeyRecentKept)
BY KeyInitIInv, KeyNextIInv, KeySafe, PTL DEF KeySpec

-----------------------------------------------------------------------------
(* AudioEncoder.                                                           *)

AacFrames == [pts : 0 .. AacSamples, samples : 1 .. AacFrame]

(* The sums of the samples of the first frames of s.                       *)
AacSums(g, s, n) ==
  g = [i \in 0 .. n |-> IF i = 0 THEN 0 ELSE g[i - 1] + s[i].samples]

(* AacSamplesOf(s), without its LET.                                       *)
LEMMA AacSumIs ==
  ASSUME NEW s
  PROVE  AacSamplesOf(s) = (CHOOSE g : AacSums(g, s, Len(s)))[Len(s)]
BY DEF AacSamplesOf, AacSums

(* The recursion defines a function, ...                                   *)
LEMMA AacSumsExist ==
  ASSUME NEW s \in Seq(AacFrames)
  PROVE  \A n \in Nat : n <= Len(s) => \E g : AacSums(g, s, n)
<1> DEFINE T == {n \in Nat : n <= Len(s) => \E g : AacSums(g, s, n)}
<1>1. 0 \in T
  <2> DEFINE g == [i \in 0 .. 0 |-> 0]
  <2>1. AacSums(g, s, 0)
    BY DEF AacSums
  <2>2. QED
    BY <2>1
<1>2. ASSUME NEW n \in T PROVE n + 1 \in T
  <2> SUFFICES ASSUME n + 1 <= Len(s) PROVE \E g : AacSums(g, s, n + 1)
    OBVIOUS
  <2>1. PICK h : AacSums(h, s, n)
    OBVIOUS
  <2> DEFINE g == [i \in 0 .. n + 1 |->
                     IF i = 0 THEN 0 ELSE h[i - 1] + s[i].samples]
  <2>2. \A i \in 0 .. n : g[i] = h[i]
    BY <2>1 DEF AacSums
  <2>3. g = [i \in 0 .. n + 1 |->
               IF i = 0 THEN 0 ELSE h[i - 1] + s[i].samples]
    OBVIOUS
  <2> HIDE DEF g
  <2>4. \A i \in 0 .. n + 1 : i # 0 => i - 1 \in 0 .. n
    OBVIOUS
  <2>5. \A i \in 0 .. n + 1 : i # 0 => h[i - 1] = g[i - 1]
    BY <2>2, <2>4
  <2>6. AacSums(g, s, n + 1)
    BY <2>3, <2>5 DEF AacSums
  <2>7. QED
    BY <2>6
<1>3. T = Nat
  <2> HIDE DEF T
  <2>1. T \subseteq Nat
    BY DEF T
  <2>2. QED
    BY <1>1, <1>2, <2>1, Induction
<1>4. QED
  BY <1>3

(* ... step by step.                                                       *)
LEMMA AacSumsStep ==
  ASSUME NEW g, NEW s, NEW n \in Nat, AacSums(g, s, n)
  PROVE  /\ g[0] = 0
         /\ \A i \in 1 .. n : g[i] = g[i - 1] + s[i].samples
BY DEF AacSums

(* The sum of all is the last of them.                                     *)
LEMMA AacSumOf ==
  ASSUME NEW s \in Seq(AacFrames)
  PROVE  \E g : AacSums(g, s, Len(s)) /\ AacSamplesOf(s) = g[Len(s)]
<1>1. \E g : AacSums(g, s, Len(s))
  BY AacSumsExist
<1>2. QED
  BY <1>1, AacSumIs

(* No frame has no samples ...                                             *)
LEMMA AacSumEmpty == AacSamplesOf(<<>>) = 0
<1> <<>> \in Seq(AacFrames) /\ Len(<<>>) = 0
  OBVIOUS
<1>1. PICK g : AacSums(g, <<>>, 0) /\ AacSamplesOf(<<>>) = g[0]
  BY AacSumOf
<1>2. QED
  BY <1>1, AacSumsStep

(* ... and one more frame adds its own.                                    *)
LEMMA AacSumAppend ==
  ASSUME NEW s \in Seq(AacFrames), NEW f \in AacFrames
  PROVE  AacSamplesOf(Append(s, f)) = AacSamplesOf(s) + f.samples
<1> DEFINE t == Append(s, f)
           n == Len(s)
<1>1. PICK h : AacSums(h, s, n) /\ AacSamplesOf(s) = h[n]
  BY AacSumOf
<1>2. t \in Seq(AacFrames) /\ Len(t) = n + 1 /\ t[n + 1] = f
      /\ \A i \in 1 .. n : s[i] = t[i]
  OBVIOUS
<1>3. n \in Nat
  OBVIOUS
<1> HIDE DEF t, n
<1>4. PICK g : AacSums(g, t, n + 1) /\ AacSamplesOf(t) = g[n + 1]
  BY <1>2, AacSumOf
<1>5. g[n + 1] = g[n] + f.samples /\ g[0] = 0
  <2>1. n + 1 \in Nat /\ n + 1 \in 1 .. n + 1 /\ (n + 1) - 1 = n
    BY <1>3
  <2>2. QED
    BY <1>2, <1>4, <2>1, AacSumsStep
<1>6. g[n] = h[n]
  <2> DEFINE T == {i \in Nat : i <= n => g[i] = h[i]}
  <2>1. 0 \in T
    BY <1>1, <1>3, <1>5, AacSumsStep
  <2>2. ASSUME NEW i \in T PROVE i + 1 \in T
    <3> SUFFICES ASSUME i + 1 <= n PROVE g[i + 1] = h[i + 1]
      OBVIOUS
    <3>1. /\ i + 1 \in 1 .. n /\ i + 1 \in 1 .. n + 1 /\ (i + 1) - 1 = i
          /\ g[i] = h[i] /\ n + 1 \in Nat
      BY <1>3
    <3>2. g[i + 1] = g[i] + t[i + 1].samples
      <4>1. \A j \in 1 .. n + 1 : g[j] = g[j - 1] + t[j].samples
        BY <1>4, <3>1, AacSumsStep, ZenonT(30)
      <4>2. QED
        BY <3>1, <4>1
    <3>3. h[i + 1] = h[i] + s[i + 1].samples
      BY <1>1, <1>3, <3>1, AacSumsStep
    <3>4. QED
      BY <1>2, <3>1, <3>2, <3>3
  <2> HIDE DEF T
  <2>3. T \subseteq Nat
    BY DEF T
  <2>4. n \in T
    BY <1>3, <2>1, <2>2, <2>3, Induction
  <2>5. QED
    BY <2>4 DEF T
<1>7. QED
  BY <1>1, <1>4, <1>5, <1>6 DEF t

AacNumbers ==
  /\ aacHeld \in Nat /\ aacIndex \in Nat /\ aacFed \in 0 .. AacSamples
  /\ aacLost \in 0 .. AacSamples /\ aacMissed \in 0 .. AacSamples
  /\ aacIndex <= AacSamples /\ aacHeld <= AacSamples

(* Sent, refused, kept or missed: nothing else becomes of what was fed.    *)
AacAccounted ==
  aacOpen # "closed" =>
    /\ AacSamplesOf(aacSent) \in Nat
    /\ AacSamplesOf(aacSent) + aacLost = aacIndex
    /\ aacIndex + aacHeld + aacMissed = aacFed

(* A stamp is not before the end of the frame before, nor the next one     *)
(* before the end of the last.                                             *)
AacStamped ==
  /\ aacSent \in Seq(AacFrames)
  /\ \A i \in 1 .. Len(aacSent) - 1 :
       aacSent[i].pts + aacSent[i].samples <= aacSent[i + 1].pts
  /\ aacOpen # "closed" /\ Len(aacSent) > 0 =>
       aacSent[Len(aacSent)].pts + aacSent[Len(aacSent)].samples <= aacIndex

AacOpened == aacOpen \in {"new", "open", "flushed", "closed"}

AacIInv ==
  /\ AacOpened /\ AacNumbers /\ AacAccounted /\ AacStamped /\ AacDrained

(* It holds at first ...                                                   *)
LEMMA AacInitIInv == AacInit => AacIInv
<1> SUFFICES ASSUME AacInit PROVE AacIInv
  OBVIOUS
<1> USE AudioEncoderAssumption DEF AacInit
<1>1. AacNumbers /\ AacOpened
  BY DEF AacNumbers, AacOpened
<1>2. AacAccounted
  BY AacSumEmpty DEF AacAccounted
<1>3. AacStamped
  BY DEF AacStamped
<1>4. QED
  BY <1>1, <1>2, <1>3 DEF AacIInv, AacDrained

(* A frame is sent, or refused: what was kept is n less.                   *)
LEMMA AacSendKeeps ==
  ASSUME AacOpened, AacStamped, AacNumbers, AacAccounted, aacOpen = "open",
         NEW n \in 1 .. AacFrame, NEW fed \in 0 .. AacSamples,
         NEW held \in Nat, AacSend(n), aacIndex + held + aacMissed = fed,
         n <= held, aacMissed' = aacMissed, aacFed' = fed, aacHeld' = held - n,
         aacOpen' \in {"open", "flushed"}
  PROVE  AacOpened' /\ AacStamped' /\ AacNumbers' /\ AacAccounted'
<1> USE AudioEncoderAssumption
<1> DEFINE f == [pts |-> aacIndex, samples |-> n]
           k == Len(aacSent)
<1>1. /\ aacIndex \in 0 .. AacSamples /\ aacLost \in 0 .. AacSamples
      /\ aacMissed \in 0 .. AacSamples
      /\ aacSent \in Seq(AacFrames) /\ k \in Nat
      /\ AacSamplesOf(aacSent) \in Nat
      /\ AacSamplesOf(aacSent) + aacLost = aacIndex
  BY DEF AacNumbers, AacStamped, AacAccounted
<1>2. /\ f \in AacFrames /\ f.pts = aacIndex /\ f.samples = n
  BY <1>1 DEF AacFrames
<1>3. aacIndex' = aacIndex + n /\ aacIndex + n <= fed
  BY <1>1 DEF AacSend
<1>4. CASE aacSent' = Append(aacSent, f) /\ aacLost' = aacLost
  <2>1. /\ aacSent' \in Seq(AacFrames) /\ Len(aacSent') = k + 1
        /\ aacSent'[k + 1] = f
        /\ \A i \in 1 .. k : aacSent'[i] = aacSent[i]
    BY <1>1, <1>2, <1>4
  <2>2. AacSamplesOf(aacSent') = AacSamplesOf(aacSent) + n
    BY <1>1, <1>2, <1>4, AacSumAppend
  <2>3. AacNumbers' /\ AacAccounted' /\ AacOpened'
    <3>1. AacNumbers' /\ AacOpened'
      BY <1>1, <1>3, <1>4 DEF AacNumbers, AacOpened
    <3>2. AacAccounted'
      <4> DEFINE u == AacSamplesOf(aacSent)
      <4> HIDE DEF u
      <4>1. u \in Nat /\ u + aacLost = aacIndex
              /\ AacSamplesOf(aacSent') = u + n
        BY <1>1, <2>2 DEF u
      <4>2. AacSamplesOf(aacSent') \in Nat
        BY <4>1
      <4>3. AacSamplesOf(aacSent') + aacLost = aacIndex + n
        BY <1>1, <4>1
      <4>4. (aacIndex + n) + (held - n) + aacMissed = fed
        BY <1>1
      <4>5. QED
        BY <1>3, <1>4, <4>2, <4>3, <4>4 DEF AacAccounted
    <3>3. QED
      BY <3>1, <3>2
  <2>4. ASSUME NEW i \in 1 .. k
        PROVE  aacSent'[i].pts + aacSent'[i].samples <= aacSent'[i + 1].pts
    <3>1. CASE i = k
      BY <1>1, <1>2, <2>1, <3>1 DEF AacStamped
    <3>2. CASE i # k
      <4>1. i \in 1 .. k - 1 /\ i + 1 \in 1 .. k
        BY <1>1, <3>2
      <4>2. QED
        BY <2>1, <4>1 DEF AacStamped
    <3>3. QED
      BY <3>1, <3>2
  <2> HIDE DEF k, f
  <2>5. (k + 1) - 1 = k
    BY <1>1
  <2>6. AacStamped'
    <3>1. aacSent' \in Seq(AacFrames)
      BY <2>1
    <3>2. \A i \in 1 .. Len(aacSent') - 1 :
            aacSent'[i].pts + aacSent'[i].samples <= aacSent'[i + 1].pts
      BY <2>1, <2>4, <2>5
    <3>3. aacSent'[Len(aacSent')].pts + aacSent'[Len(aacSent')].samples <= aacIndex'
      BY <1>2, <1>3, <2>1
    <3>4. QED
      BY <3>1, <3>2, <3>3 DEF AacStamped
  <2>7. QED
    BY <2>3, <2>6
<1>5. CASE aacSent' = aacSent /\ aacLost' = aacLost + n
  <2>1. AacNumbers' /\ AacAccounted' /\ AacOpened'
    BY <1>1, <1>3, <1>5 DEF AacNumbers, AacAccounted, AacOpened
  <2>2. k > 0 => aacSent[k].pts + aacSent[k].samples <= aacIndex + n
    <3>1. k > 0 => aacSent[k] \in AacFrames
      BY <1>1
    <3>2. QED
      BY <1>1, <3>1 DEF AacStamped, AacFrames
  <2>3. AacStamped'
    BY <1>1, <1>3, <1>5, <2>2 DEF AacStamped
  <2>4. QED
    BY <2>1, <2>3
<1>6. QED
  BY <1>4, <1>5 DEF AacSend

(* What the resampler does not keep of n more samples it missed.           *)
LEMMA AacMisses ==
  ASSUME NEW index \in Nat, NEW held \in Nat, NEW missed \in Nat,
         NEW fed \in Nat, index + held + missed = fed, fed <= AacSamples,
         NEW kept \in 0 .. held
  PROVE  /\ kept <= AacSamples /\ missed + (held - kept) \in 0 .. AacSamples
         /\ index + kept + (missed + (held - kept)) = fed
BY AudioEncoderAssumption

(* ... and every step keeps it, action by action.                          *)
LEMMA AacNextIInv == AacIInv /\ [AacNext]_AacVars => AacIInv'
<1> SUFFICES ASSUME AacIInv, [AacNext]_AacVars PROVE AacIInv'
  OBVIOUS
<1> USE AudioEncoderAssumption
<1>1. AacOpened /\ AacNumbers /\ AacAccounted /\ AacStamped /\ AacDrained
  BY DEF AacIInv
<1>2. ASSUME NEW n \in 1 .. AacPiece, AacEncode(n)
      PROVE  AacIInv'
  <2> DEFINE out == AacConverted(aacHeld + n)
  <2>1. /\ aacOpen = "open" /\ aacOpen' = "open" /\ aacFed + n <= AacSamples
        /\ aacFed' = aacFed + n
    BY <1>2 DEF AacEncode
  <2>2. /\ n \in Nat /\ aacHeld \in Nat /\ aacHeld + n \in Nat
        /\ out \in 1 .. AacFrame /\ out <= aacHeld + n
        /\ aacFed + n \in 0 .. AacSamples
        /\ aacIndex + (aacHeld + n) + aacMissed = aacFed + n
    BY <1>1, <2>1 DEF AacNumbers, AacAccounted, AacConverted
  <2>3. CASE AacSend(out) /\ aacHeld' = aacHeld + n - out
             /\ UNCHANGED aacMissed
    <3> HIDE DEF out
    <3>1. aacHeld' = (aacHeld + n) - out
      BY <2>2, <2>3
    <3>2. AacOpened' /\ AacStamped' /\ AacNumbers' /\ AacAccounted'
      BY <1>1, <2>1, <2>2, <2>3, <3>1, AacSendKeeps
    <3>3. QED
      BY <2>1, <3>2 DEF AacIInv, AacDrained
  <2>4. CASE /\ aacHeld' \in 0 .. aacHeld + n
             /\ aacMissed' = aacMissed + (aacHeld + n - aacHeld')
             /\ UNCHANGED <<aacIndex, aacSent, aacLost>>
    <3>1. /\ aacHeld' \in Nat /\ aacHeld' <= aacHeld + n /\ aacMissed \in Nat
          /\ aacIndex \in Nat /\ aacFed \in Nat
      BY <1>1, <2>2, <2>4 DEF AacNumbers
    <3>2. /\ aacHeld' <= AacSamples /\ aacMissed' \in 0 .. AacSamples
          /\ aacIndex + aacHeld' + aacMissed' = aacFed + n
      <4> DEFINE held == aacHeld + n
                 fed  == aacFed + n
                 kept == aacHeld'
                 missed == aacMissed'
      <4>1. /\ held \in Nat /\ fed \in Nat /\ fed <= AacSamples
            /\ kept \in 0 .. held
        BY <2>1, <2>2, <2>4, <3>1
      <4>2. aacIndex + held + aacMissed = fed
        BY <2>2
      <4>3. missed = aacMissed + (held - kept)
        BY <2>2, <2>4, <3>1
      <4> HIDE DEF held, fed, kept, missed
      <4>4. /\ kept <= AacSamples /\ missed \in 0 .. AacSamples
            /\ aacIndex + kept + missed = fed
        BY <3>1, <4>1, <4>2, <4>3, AacMisses
      <4>5. QED
        BY <4>4 DEF kept, missed, fed
    <3>3. AacNumbers'
      BY <1>1, <2>1, <2>2, <2>4, <3>1, <3>2 DEF AacNumbers
    <3>4. AacAccounted'
      BY <1>1, <2>1, <2>4, <3>2 DEF AacAccounted
    <3>5. AacStamped' /\ AacOpened'
      BY <1>1, <2>1, <2>4 DEF AacStamped, AacOpened
    <3>6. QED
      BY <2>1, <3>3, <3>4, <3>5 DEF AacIInv, AacDrained
  <2>5. QED
    BY <1>2, <2>3, <2>4 DEF AacEncode
<1>3. CASE AacFlush
  <2>1. CASE /\ aacOpen = "open" /\ aacOpen' = "flushed"
             /\ aacHeld' = 0 /\ aacMissed' = aacMissed + aacHeld
             /\ UNCHANGED <<aacIndex, aacSent, aacLost, aacFed>>
    BY <1>1, <2>1 DEF AacIInv, AacOpened, AacNumbers, AacAccounted, AacStamped,
       AacDrained
  <2> DEFINE out == AacConverted(aacHeld)
  <2>2. CASE /\ aacOpen = "open" /\ aacHeld > 0
             /\ aacOpen' = IF aacLost' # aacLost THEN "flushed" ELSE "open"
             /\ AacSend(out) /\ aacHeld' = aacHeld - out
             /\ UNCHANGED <<aacFed, aacMissed>>
    <3>1. /\ out \in 1 .. AacFrame /\ out <= aacHeld /\ aacHeld \in Nat
          /\ aacFed \in 0 .. AacSamples
          /\ aacIndex + aacHeld + aacMissed = aacFed
      BY <1>1, <2>2 DEF AacNumbers, AacAccounted, AacConverted
    <3> HIDE DEF out
    <3>2. /\ aacOpen' \in {"open", "flushed"}
          /\ aacOpen' = "flushed" => aacLost' # aacLost
      BY <2>2
    <3>3. AacOpened' /\ AacStamped' /\ AacNumbers' /\ AacAccounted'
      BY <1>1, <2>2, <3>1, <3>2, AacSendKeeps
    <3>4. aacLost' # aacLost => aacLost' > 0
      BY <1>1, <2>2, <3>1 DEF AacSend, AacNumbers
    <3>5. AacDrained'
      BY <3>2, <3>4 DEF AacDrained
    <3>6. QED
      BY <3>3, <3>5 DEF AacIInv
  <2>3. QED
    BY <1>3, <2>1, <2>2 DEF AacFlush
<1>4. CASE AacInitialize
  BY <1>1, <1>4 DEF AacInitialize, AacIInv, AacOpened, AacNumbers,
     AacAccounted, AacStamped, AacDrained
<1>5. CASE AacClose
  BY <1>1, <1>5 DEF AacClose, AacIInv, AacOpened, AacNumbers, AacAccounted,
     AacStamped, AacDrained
<1>6. CASE UNCHANGED AacVars
  BY <1>1, <1>6 DEF AacVars, AacIInv, AacOpened, AacNumbers, AacAccounted,
     AacStamped, AacDrained
<1>7. QED
  BY <1>2, <1>3, <1>4, <1>5, <1>6 DEF AacNext

(* It implies what is claimed.                                             *)
LEMMA AacSafe == AacIInv => AacTypeOK /\ AacTimeline /\ AacDrained
<1> SUFFICES ASSUME AacIInv PROVE AacTypeOK /\ AacTimeline /\ AacDrained
  OBVIOUS
<1> USE AudioEncoderAssumption DEF AacIInv
<1>1. AacTypeOK
  BY DEF AacOpened, AacNumbers, AacStamped, AacFrames, AacTypeOK
<1>2. AacTimeline
  BY DEF AacAccounted, AacStamped, AacTimeline
<1>3. QED
  BY <1>1, <1>2

(* The stamps of a recording's sound count the samples converted before    *)
(* them, sent or refused, whatever the resampler or the codec fails on: a  *)
(* later frame never starts before the end of an earlier one, and what a   *)
(* stamp lags behind the samples fed is what the resampler keeps or failed *)
(* on; a flush leaves none in it (AudioEncoder).                           *)
THEOREM SoundSafety ==
  AacSpec => [](AacTypeOK /\ AacTimeline /\ AacDrained)
BY AacInitIInv, AacNextIInv, AacSafe, PTL DEF AacSpec

=============================================================================
