------------------------ MODULE LonPostProcess_proof ------------------------
(***************************************************************************)
(* Proofs about LonPostProcess for all timers, clamps and configurations.  *)
(***************************************************************************)
EXTENDS LonPostProcess, TLAPS

\* No counter holds more frames than were counted since the counters were
\* cleared.  Dwelling follows: a counter at its threshold was filled here.
CountersOfThisStay == acc_counter <= in_zone /\ dec_counter <= in_zone

\* What lets IntegralOfThisMode be carried through a change of mode: only the
\* integral of the mode that was last calibrated can be larger than zero, and
\* after a manual frame none is.
LoopFollowsMode ==
    speed_mode_last # speed_mode =>
        throttle_integral = 0 /\ brake_integral = 0

\* Without the closed loop no mode is ever recorded.
LoopOff == ~EnableClosedLoopAcc => speed_mode_last = "DISABLE"

LoopInv == TypeOK /\ CountersOfThisStay /\ IntegralOfThisMode /\ LoopFollowsMode
           /\ LoopOff

USE ThresholdsAssumption, WindupAssumption, EnableAssumption
-----------------------------------------------------------------------------
(* Counting saturates at its bound and keeps the order of two counts.      *)
LEMMA CountedUpToIsBounded ==
    ASSUME NEW max \in Nat, NEW n \in 0..max
    PROVE  CountedUpTo(n, max) \in 0..max /\ CountedUpTo(n, max) >= n
  BY DEF CountedUpTo

LEMMA CountedUpToIsMonotone ==
    ASSUME NEW max \in Nat, NEW n \in 0..max, NEW k \in 0..max, k <= n
    PROVE  CountedUpTo(k, max) <= CountedUpTo(n, max)
  BY DEF CountedUpTo

LEMMA LimitIsNat ==
    /\ Limit \in Nat
    /\ AccCounterThreshold <= Limit /\ DecCounterThreshold <= Limit
  BY DEF Limit

THEOREM InitLoopInv == Init => LoopInv
  BY LimitIsNat DEF Init, LoopInv, TypeOK, CountersOfThisStay, IntegralOfThisMode,
         LoopFollowsMode, LoopOff, Modes, Inputs, Levels, Zone

-----------------------------------------------------------------------------
(* What is kept about the mode and its counters.                           *)
ModeOK ==
    /\ speed_mode \in Modes
    /\ acc_counter \in 0..AccCounterThreshold
    /\ dec_counter \in 0..DecCounterThreshold
    /\ in_zone \in 0..Limit
    /\ CountersOfThisStay

LEMMA SetModeKeepsModeOK ==
    ASSUME NEW mode \in Modes, SetMode(mode)
    PROVE  ModeOK'
  BY LimitIsNat DEF SetMode, ModeOK, CountersOfThisStay

LEMMA UpdateSpeedModeKeepsModeOK ==
    ASSUME ModeOK, NEW level \in Zone, NEW mode \in Modes,
           UpdateSpeedMode(level, mode)
    PROVE  ModeOK'
  <1>1. CountedUpTo(in_zone, Limit) \in 0..Limit
        /\ CountedUpTo(in_zone, Limit) >= in_zone
        /\ (in_zone < Limit => CountedUpTo(in_zone, Limit) = in_zone + 1)
    BY LimitIsNat DEF ModeOK, CountedUpTo
  <1>2. CASE CountAcc(mode)
    <2>1. CASE SwitchTo("ACC")
      BY <2>1, SetModeKeepsModeOK DEF SwitchTo, Modes
    <2>2. CASE ~SwitchTo("ACC")
      <3>1. /\ acc_counter # AccCounterThreshold
            /\ speed_mode' = mode /\ acc_counter' = acc_counter + 1
            /\ in_zone' = CountedUpTo(in_zone, Limit) /\ dec_counter' = dec_counter
        BY <1>2, <2>2 DEF CountAcc
      <3> QED
        BY <3>1, <1>1, LimitIsNat DEF ModeOK, CountersOfThisStay
    <2> QED BY <2>1, <2>2
  <1>3. CASE CountDec(mode)
    <2>1. CASE SwitchTo("DEC")
      BY <2>1, SetModeKeepsModeOK DEF SwitchTo, Modes
    <2>2. CASE ~SwitchTo("DEC")
      <3>1. /\ dec_counter # DecCounterThreshold
            /\ speed_mode' = mode /\ dec_counter' = dec_counter + 1
            /\ in_zone' = CountedUpTo(in_zone, Limit) /\ acc_counter' = acc_counter
        BY <1>3, <2>2 DEF CountDec
      <3> QED
        BY <3>1, <1>1, LimitIsNat DEF ModeOK, CountersOfThisStay
    <2> QED BY <2>1, <2>2
  <1>4. CASE CountDown(mode)
    BY <1>4, <1>1 DEF CountDown, Decrement, ModeOK, CountersOfThisStay
  <1> QED BY <1>2, <1>3, <1>4 DEF UpdateSpeedMode

LEMMA UpdateAccCommandKeepsModeOK ==
    ASSUME ModeOK, is_first_frame \in BOOLEAN, NEW f \in Inputs, UpdateAccCommand(f)
    PROVE  ModeOK' /\ is_first_frame' \in BOOLEAN
  <1>1. StartMode(f) \in Modes
    BY DEF StartMode, ModeOK, Modes
  <1>2. is_first_frame' \in BOOLEAN
    BY DEF UpdateAccCommand
  <1>3. CASE SetMode("ACC") \/ SetMode("DEC")
    BY <1>2, <1>3, SetModeKeepsModeOK DEF Modes
  <1>4. CASE f.acc_calib \in Zone /\ UpdateSpeedMode(f.acc_calib, StartMode(f))
    BY <1>1, <1>2, <1>4, UpdateSpeedModeKeepsModeOK
  <1> QED BY <1>3, <1>4 DEF UpdateAccCommand

-----------------------------------------------------------------------------
(* What is kept about the integrals.                                       *)
LoopOK ==
    /\ speed_mode_last \in Modes \union {"DISABLE"}
    /\ throttle_integral \in 0..Windup
    /\ brake_integral \in 0..Windup
    /\ in_mode \in 0..Windup
    /\ IntegralOfThisMode
    /\ LoopFollowsMode

LEMMA UpdateCalibrationCmdKeepsLoopOK ==
    ASSUME LoopOK, speed_mode \in Modes, speed_mode' \in Modes,
           NEW f \in Inputs, UpdateCalibrationCmd(f)
    PROVE  LoopOK'
  <1>1. CASE ~f.is_auto_mode
    BY <1>1 DEF UpdateCalibrationCmd, LoopOK, IntegralOfThisMode, LoopFollowsMode
  <1>2. CASE f.is_auto_mode
    <2> DEFINE throttle == ClearedOnSwitch(throttle_integral)
               brake == ClearedOnSwitch(brake_integral)
               stay == IF speed_mode' = speed_mode THEN in_mode ELSE 0
    <2>1. throttle \in 0..Windup /\ brake \in 0..Windup /\ stay \in 0..Windup
      BY DEF ClearedOnSwitch, LoopOK
    <2>2. (speed_mode' = "ACC" => throttle <= stay)
          /\ (speed_mode' = "DEC" => brake <= stay)
      BY DEF ClearedOnSwitch, LoopOK, IntegralOfThisMode, LoopFollowsMode
    <2>3. /\ in_mode' = CountedUpTo(stay, Windup)
          /\ speed_mode_last' = speed_mode'
          /\ throttle_integral' = IF speed_mode' = "ACC"
                                  THEN CountedUpTo(throttle, Windup) ELSE throttle
          /\ \/ brake_integral' \in {0, brake} /\ speed_mode' = "ACC"
             \/ brake_integral' \in {0, CountedUpTo(brake, Windup)}
      BY <1>2 DEF UpdateCalibrationCmd
    <2> HIDE DEF throttle, brake, stay
    <2>4. throttle_integral' \in 0..Windup /\ brake_integral' \in 0..Windup
          /\ in_mode' \in 0..Windup
      BY <2>1, <2>3, CountedUpToIsBounded
    <2>5. IntegralOfThisMode'
      <3>1. speed_mode' = "ACC" => throttle_integral' <= in_mode'
        BY <2>1, <2>2, <2>3, CountedUpToIsMonotone
      <3>2. speed_mode' = "DEC" => brake_integral' <= in_mode'
        <4> SUFFICES ASSUME speed_mode' = "DEC" PROVE brake_integral' <= in_mode'
          OBVIOUS
        <4>1. CASE brake_integral' = 0
          BY <4>1, <2>4
        <4>2. CASE brake_integral' = CountedUpTo(brake, Windup)
          BY <4>2, <2>1, <2>2, <2>3, CountedUpToIsMonotone
        <4> QED BY <2>3, <4>1, <4>2
      <3> QED BY <3>1, <3>2 DEF IntegralOfThisMode
    <2>6. LoopFollowsMode'
      BY <2>3 DEF LoopFollowsMode
    <2>7. speed_mode_last' \in Modes \union {"DISABLE"}
      BY <2>3
    <2> QED
      BY <2>4, <2>5, <2>6, <2>7 DEF LoopOK
  <1> QED BY <1>1, <1>2
-----------------------------------------------------------------------------
THEOREM NextLoopInv == ASSUME LoopInv, [Next]_vars PROVE LoopInv'
  <1>1. CASE UNCHANGED vars
    BY <1>1 DEF vars, modeVars, loopVars, LoopInv, TypeOK, CountersOfThisStay,
         IntegralOfThisMode, LoopFollowsMode, LoopOff
  <1>2. ASSUME NEW f \in Inputs, Process(f)
        PROVE  LoopInv'
    <2>1. ModeOK /\ LoopOK /\ LoopOff /\ is_first_frame \in BOOLEAN
      BY DEF LoopInv, TypeOK, ModeOK, LoopOK
    <2>2. input' \in Inputs
      BY <1>2 DEF Process
    <2>3. ModeOK' /\ is_first_frame' \in BOOLEAN
      <3>1. CASE UNCHANGED modeVars
        BY <2>1, <3>1 DEF modeVars, ModeOK, CountersOfThisStay
      <3>2. CASE UpdateAccCommand(f)
        BY <2>1, <3>2, UpdateAccCommandKeepsModeOK
      <3> QED BY <1>2, <3>1, <3>2 DEF Process
    <2>4. LoopOK' /\ LoopOff'
      <3>1. speed_mode \in Modes /\ speed_mode' \in Modes
        BY <2>1, <2>3 DEF ModeOK
      <3>2. CASE f.is_gear_shifting
        <4>1. UNCHANGED <<modeVars, loopVars>>
          BY <1>2, <3>2 DEF Process
        <4> QED BY <2>1, <4>1 DEF modeVars, loopVars, LoopOK, LoopOff,
                  IntegralOfThisMode, LoopFollowsMode
      <3>3. CASE ~f.is_gear_shifting /\ EnableClosedLoopAcc
        <4>1. UpdateCalibrationCmd(f)
          BY <1>2, <3>3 DEF Process
        <4> QED BY <2>1, <3>1, <3>3, <4>1, UpdateCalibrationCmdKeepsLoopOK DEF LoopOff
      <3>4. CASE ~f.is_gear_shifting /\ ~EnableClosedLoopAcc
        <4>1. UNCHANGED loopVars
          BY <1>2, <3>4 DEF Process
        <4> QED BY <2>1, <3>1, <3>4, <4>1 DEF loopVars, LoopOK, LoopOff, Modes,
                  IntegralOfThisMode, LoopFollowsMode
      <3> QED BY <3>2, <3>3, <3>4
    <2> QED
      BY <2>2, <2>3, <2>4 DEF LoopInv, TypeOK, ModeOK, LoopOK
  <1> QED BY <1>1, <1>2 DEF Next

THEOREM LoopInvariant == Spec => []LoopInv
  BY InitLoopInv, NextLoopInv, PTL DEF Spec

(* Types, and the counters under their thresholds: the assertions at the   *)
(* head of UpdateSpeedMode hold for every configuration of the timers.     *)
THEOREM CountersUnderThresholds == Spec => []TypeOK
  <1>1. LoopInv => TypeOK
    BY DEF LoopInv
  <1> QED BY <1>1, LoopInvariant, PTL

(* The integral in use was accumulated in the present stay in its mode.    *)
THEOREM IntegralIsOfThisMode == Spec => []IntegralOfThisMode
  <1>1. LoopInv => IntegralOfThisMode
    BY DEF LoopInv
  <1> QED BY <1>1, LoopInvariant, PTL

(* Inside the hysteresis zone the mode changes only after as many frames   *)
(* as the timer of that change asks for.                                   *)
THEOREM ModeDwells == Spec => ModeHasDwelt
  <1> DEFINE Dwelt ==
        (Counted(input') /\ ~is_first_frame /\ speed_mode' # speed_mode)
        => in_zone >= IF speed_mode' = "ACC" THEN AccCounterThreshold
                                             ELSE DecCounterThreshold
  <1>1. ASSUME LoopInv, [Next]_vars PROVE [Dwelt]_vars
    <2> SUFFICES ASSUME NEW f \in Inputs, Process(f), Counted(f),
                        ~is_first_frame, speed_mode' # speed_mode
                 PROVE  in_zone >= IF speed_mode' = "ACC" THEN AccCounterThreshold
                                                          ELSE DecCounterThreshold
      BY <1>1 DEF Next, Process
    <2>1. UpdateSpeedMode(f.acc_calib, speed_mode)
      BY DEF Process, Counted, UpdateAccCommand, StartMode, Zone
    <2>2. CountersOfThisStay
          /\ acc_counter \in Nat /\ dec_counter \in Nat /\ in_zone \in Nat
      BY <1>1, LimitIsNat DEF LoopInv, TypeOK
    <2>3. \/ acc_counter = AccCounterThreshold /\ speed_mode' = "ACC"
          \/ dec_counter = DecCounterThreshold /\ speed_mode' = "DEC"
      BY <2>1 DEF UpdateSpeedMode, CountAcc, CountDec, CountDown, SwitchTo, SetMode
    <2> QED BY <2>2, <2>3 DEF CountersOfThisStay
  <1> QED BY <1>1, LoopInvariant, PTL DEF Spec, ModeHasDwelt
=============================================================================
