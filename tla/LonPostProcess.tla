--------------------------- MODULE LonPostProcess ---------------------------
(***************************************************************************)
(* The longitudinal post-processing of vehicle control: every 10 ms        *)
(* LonPostProcess::Process decides whether the vehicle is driven by the    *)
(* throttle or by the brake (the speed mode of ClosedLoopAcc) and lets the *)
(* closed loop of that mode correct the calibrated command                 *)
(* (control/longitudinal_postprocess/lon_postprocess.cc,                   *)
(* control/closed_loop_acc/speed_mode_manager.cc).                         *)
(*                                                                         *)
(* An acceleration is abstracted to where it lies in the hysteresis zone   *)
(* around the idle acceleration, and an integral to the number of frames   *)
(* whose error it holds.  Frames that VehicleControlModule gives up before *)
(* Process leave all of this alone and are the stuttering steps.           *)
(***************************************************************************)
EXTENDS Naturals

CONSTANTS
    AccCounterThreshold,    \* frames from brake to throttle, acc_counter_threshold_
    DecCounterThreshold,    \* frames from throttle to brake, dec_counter_threshold_
    EnableClosedLoopAcc,    \* closed_loop_acc_conf().enable_closed_loop_acc()
    Windup                  \* frames that fill an integral to its clamp

ASSUME ThresholdsAssumption ==
    AccCounterThreshold \in Nat /\ DecCounterThreshold \in Nat
ASSUME WindupAssumption == Windup \in Nat
ASSUME EnableAssumption == EnableClosedLoopAcc \in BOOLEAN

VARIABLES
    speed_mode,             \* "ACC" (throttle) or "DEC" (brake)
    speed_mode_last,        \* the mode of the last calibrated frame
    is_first_frame,
    acc_counter, dec_counter,
    throttle_integral, brake_integral,
    input,                  \* what the last frame was given
    in_zone,                \* history: frames counted since the counters were cleared
    in_mode                 \* history: frames calibrated since the mode was entered

modeVars == <<speed_mode, is_first_frame, acc_counter, dec_counter, in_zone>>
loopVars == <<speed_mode_last, throttle_integral, brake_integral, in_mode>>
vars == <<modeVars, loopVars, input>>

Modes == {"ACC", "DEC"}

\* Where acc_calib_ lies: under acc_lowerbound_, in the zone on either side of
\* acc_bound_ or on it, over dec_upperbound_.
Zone   == {"low", "idle", "high"}
Levels == Zone \union {"below", "above"}

\* positive is the sign of the command, which the idle acceleration does not
\* decide: the bound moves with the speed and the slope.
Inputs == [is_auto_mode: BOOLEAN, is_full_stop: BOOLEAN,
           is_gear_shifting: BOOLEAN, acc_calib: Levels, positive: BOOLEAN]

Limit == AccCounterThreshold + DecCounterThreshold
CountedUpTo(n, max) == IF n < max THEN n + 1 ELSE max

-----------------------------------------------------------------------------
Init ==
    /\ speed_mode = "ACC"
    /\ speed_mode_last = "DISABLE"
    /\ is_first_frame = TRUE
    /\ acc_counter = 0 /\ dec_counter = 0
    /\ throttle_integral = 0 /\ brake_integral = 0
    /\ input = [is_auto_mode |-> FALSE, is_full_stop |-> FALSE,
                is_gear_shifting |-> FALSE, acc_calib |-> "idle",
                positive |-> FALSE]
    /\ in_zone = 0 /\ in_mode = 0

\* a slip: a command outside the zone sets the mode and leaves the counters
SetModeKeepsCounters(mode) ==
    /\ speed_mode' = mode
    /\ UNCHANGED <<acc_counter, dec_counter>>
    /\ in_zone' = 0

\* The mode is set outright and both counters start again.
SetMode(mode) ==
    /\ speed_mode' = mode
    /\ acc_counter' = 0 /\ dec_counter' = 0
    /\ in_zone' = 0

SwitchTo(mode) == SetMode(mode)

Decrement(n) == IF n > 0 THEN n - 1 ELSE 0

\* a slip: the frame that reaches the threshold counts on
CountAccPastThreshold(mode) ==
    \/ /\ acc_counter > AccCounterThreshold
       /\ SwitchTo("ACC")
    \/ /\ acc_counter <= AccCounterThreshold
       /\ speed_mode' = mode
       /\ acc_counter' = acc_counter + 1
       /\ in_zone' = CountedUpTo(in_zone, Limit)
       /\ UNCHANGED dec_counter

\* a slip: the frames of the throttle command are counted as the brake's
CountAccAsDec(mode) ==
    \/ /\ acc_counter = AccCounterThreshold
       /\ SwitchTo("ACC")
    \/ /\ acc_counter # AccCounterThreshold
       /\ speed_mode' = mode
       /\ dec_counter' = CountedUpTo(dec_counter, DecCounterThreshold)
       /\ in_zone' = CountedUpTo(in_zone, Limit)
       /\ UNCHANGED acc_counter

\* The command asks for the throttle while the brake is on.
CountAcc(mode) ==
    \/ /\ acc_counter = AccCounterThreshold
       /\ SwitchTo("ACC")
    \/ /\ acc_counter # AccCounterThreshold
       /\ speed_mode' = mode
       /\ acc_counter' = acc_counter + 1
       /\ in_zone' = CountedUpTo(in_zone, Limit)
       /\ UNCHANGED dec_counter

\* The command asks for the brake while the throttle is on.
CountDec(mode) ==
    \/ /\ dec_counter = DecCounterThreshold
       /\ SwitchTo("DEC")
    \/ /\ dec_counter # DecCounterThreshold
       /\ speed_mode' = mode
       /\ dec_counter' = dec_counter + 1
       /\ in_zone' = CountedUpTo(in_zone, Limit)
       /\ UNCHANGED acc_counter

\* The command agrees with the mode or lies on the bound.
CountDown(mode) ==
    /\ speed_mode' = mode
    /\ acc_counter' = Decrement(acc_counter)
    /\ dec_counter' = Decrement(dec_counter)
    /\ in_zone' = CountedUpTo(in_zone, Limit)

UpdateSpeedMode(level, mode) ==
    \/ level = "high" /\ mode = "DEC" /\ CountAcc(mode)
    \/ level = "low" /\ mode = "ACC" /\ CountDec(mode)
    \/ /\ <<level, mode>> \notin {<<"high", "DEC">>, <<"low", "ACC">>}
       /\ CountDown(mode)

\* The mode a frame starts with: the first one takes it from the sign.
StartMode(f) ==
    IF is_first_frame THEN IF f.positive THEN "ACC" ELSE "DEC"
                      ELSE speed_mode

UpdateAccCommand(f) ==
    \/ /\ ~f.is_auto_mode                       \* ResetSpeedMode
       /\ SetMode("ACC")
       /\ is_first_frame' = TRUE
    \/ /\ f.is_auto_mode /\ f.is_full_stop
       /\ SetMode("DEC")
       /\ is_first_frame' = TRUE
    \/ /\ f.is_auto_mode /\ ~f.is_full_stop
       /\ is_first_frame' = FALSE
       /\ \/ f.acc_calib = "above" /\ SetMode("ACC")
          \/ f.acc_calib = "below" /\ SetMode("DEC")
          \/ f.acc_calib \in Zone /\ UpdateSpeedMode(f.acc_calib, StartMode(f))

-----------------------------------------------------------------------------
\* a slip: a change of mode keeps the integrals of the last one
ClearedOnSwitchNever(integral) == integral

\* ResetControlStatus when the mode is not that of the last calibrated frame.
ClearedOnSwitch(integral) ==
    IF speed_mode' = speed_mode_last THEN integral ELSE 0

\* UpdateThrottle and UpdateBrake add the error of this frame to the integral
\* of their mode; a full stop clears the brake's.  A manual frame clears both
\* and does not record the mode.
UpdateCalibrationCmd(f) ==
    \/ /\ ~f.is_auto_mode
       /\ throttle_integral' = 0 /\ brake_integral' = 0
       /\ in_mode' = 0
       /\ UNCHANGED speed_mode_last
    \/ /\ f.is_auto_mode
       /\ throttle_integral' =
            IF speed_mode' = "ACC"
            THEN CountedUpTo(ClearedOnSwitch(throttle_integral), Windup)
            ELSE ClearedOnSwitch(throttle_integral)
       /\ brake_integral' =
            IF speed_mode' = "ACC" THEN ClearedOnSwitch(brake_integral)
            ELSE IF f.is_full_stop THEN 0
            ELSE CountedUpTo(ClearedOnSwitch(brake_integral), Windup)
       /\ in_mode' = IF speed_mode' = speed_mode
                     THEN CountedUpTo(in_mode, Windup)
                     ELSE CountedUpTo(0, Windup)
       /\ speed_mode_last' = speed_mode'

\* One frame of LonPostProcess::Process.  While the gear shifts neither the
\* mode nor the loop is run, and a manual frame passes unseen.
Process(f) ==
    /\ input' = f
    /\ \/ /\ f.is_gear_shifting
          /\ UNCHANGED <<modeVars, loopVars>>
       \/ /\ ~f.is_gear_shifting
          /\ UpdateAccCommand(f)
          /\ IF EnableClosedLoopAcc THEN UpdateCalibrationCmd(f)
                                    ELSE UNCHANGED loopVars

Next == \E f \in Inputs : Process(f)

\* The control module's timer calls Proc as long as the vehicle is on.
Spec == Init /\ [][Next]_vars /\ WF_vars(Next)

-----------------------------------------------------------------------------
\* Types, and the two assertions UpdateSpeedMode starts with: a counter never
\* passes its threshold, whatever order modes, stops and shifts come in.
TypeOK ==
    /\ speed_mode \in Modes
    /\ speed_mode_last \in Modes \union {"DISABLE"}
    /\ is_first_frame \in BOOLEAN
    /\ acc_counter \in 0..AccCounterThreshold
    /\ dec_counter \in 0..DecCounterThreshold
    /\ throttle_integral \in 0..Windup
    /\ brake_integral \in 0..Windup
    /\ input \in Inputs
    /\ in_zone \in 0..Limit
    /\ in_mode \in 0..Windup

\* A frame that decided by counting.
Counted(f) ==
    /\ f.is_auto_mode /\ ~f.is_full_stop /\ ~f.is_gear_shifting
    /\ f.acc_calib \in Zone

\* Throttle and brake do not chatter: inside the hysteresis zone the mode
\* changes only after as many frames there as the timer of that change asks
\* for, counted from the last frame that set the mode; no count of an earlier
\* stay in the zone is carried over.
ModeHasDwelt ==
    [][ (Counted(input') /\ ~is_first_frame /\ speed_mode' # speed_mode)
        => in_zone >= IF speed_mode' = "ACC" THEN AccCounterThreshold
                                             ELSE DecCounterThreshold ]_vars

\* The integral in use holds only errors of the present stay in its mode:
\* neither a manual period, a stop nor a stay in the other mode leaves anything
\* in it that would then press the pedal.
IntegralOfThisMode ==
    /\ speed_mode = "ACC" => throttle_integral <= in_mode
    /\ speed_mode = "DEC" => brake_integral <= in_mode

Steady(level) == Counted(input) /\ input.acc_calib = level

\* The hysteresis delays a command and does not swallow it: one that stays on
\* one side of the idle acceleration gets its mode in the end.
CommandIsFollowed ==
    /\ <>[]Steady("high") => <>[](speed_mode = "ACC")
    /\ <>[]Steady("low") => <>[](speed_mode = "DEC")
=============================================================================
