----------------------------- MODULE EisProcessor -----------------------------
(***************************************************************************)
(* The image stabiliser (src/src/media/eis/eis_processor.cpp).  The first  *)
(* kCalibrationSamples samples after Start are summed up and become the    *)
(* bias; later ones go through the ring to the processor thread, which     *)
(* corrects each by the bias, filters it and moves the crop window towards *)
(* the offset that results.                                                *)
(*                                                                         *)
(* A sample is its number.  A bias is known by the samples in it and the   *)
(* number it was divided by (0 while it is a sum).  The filter and         *)
(* AngleToPixel are one arbitrary offset.  The window is followed along    *)
(* one axis, since both are treated alike.  This module has the steps of   *)
(* the processor; GyroPath says who takes them.                            *)
(***************************************************************************)
EXTENDS RingBuffer, Integers

CONSTANTS
    kCalibrationSamples,
    Input,    \* extent of the sensor along the axis
    Output,   \* extent of the window
    Offsets   \* what AngleToPixel may return

ASSUME CalibrationAssumption == kCalibrationSamples \in Nat \ {0}

\* What EisProcessor::Init accepts.
ASSUME ExtentAssumption == Input \in Nat /\ Output \in 1..Input
ASSUME OffsetAssumption == Offsets \subseteq Int

VARIABLES
    running,     \* running_
    calibrated,  \* calibrated_
    count,       \* calibration_samples_
    bias,        \* bias_x_, bias_y_
    wpc,         \* the processor thread; "none" when thread_ is 0
    item,        \* frame_data
    x,           \* crop_window_.x
    received,    \* history: samples PushGyroData took while running, this run
    accepted,    \* history: those of them that went into the ring
    filtered     \* history: what the filter saw, and the bias it was corrected by

biasVars  == <<calibrated, count, bias>>
workVars  == <<wpc, item, x, filtered>>
eisVars   == <<running, biasVars, workVars, received, accepted>>

NoBias == [of |-> {}, by |-> 0]
Center == (Input - Output) \div 2

EisInit ==
    /\ RingInit
    /\ running = FALSE /\ calibrated = FALSE /\ count = 0 /\ bias = NoBias
    /\ wpc = "none" /\ item = NoItem
    /\ x = Center
    /\ received = <<>> /\ accepted = <<>> /\ filtered = <<>>

-----------------------------------------------------------------------------
(* Start and Stop, in the controller. *)

\* Mutant: the samples of the run before still count.
ResetBiasOnly == bias' = NoBias /\ calibrated' = FALSE /\ UNCHANGED count

ResetBias == bias' = NoBias /\ count' = 0 /\ calibrated' = FALSE

\* Init centres the window; Start resets filter and calibration, and begins Clear with its
\* first store.
StartResets ==
    /\ ~running
    /\ x' = Center
    /\ ResetBias
    /\ ClearsHead
    /\ received' = <<>> /\ accepted' = <<>> /\ filtered' = <<>>
    /\ UNCHANGED <<running, wpc, item>>

StartCreates ==
    /\ running' = TRUE /\ wpc' = "loop"
    /\ UNCHANGED <<ringVars, biasVars, item, x, filtered, received, accepted>>

\* pthread_create fails, and running_ is cleared again.
StartCreateFails == UNCHANGED <<ringVars, eisVars>>

StopClearsRunning ==
    /\ running' = FALSE
    /\ UNCHANGED <<ringVars, biasVars, workVars, received, accepted>>

StopJoins ==
    /\ wpc = "ended"
    /\ wpc' = "none"
    /\ UNCHANGED <<ringVars, running, biasVars, item, x, filtered, received, accepted>>

-----------------------------------------------------------------------------
(* PushGyroData(s), in the thread of the IMU. *)

PushNotRunning == ~running /\ UNCHANGED <<ringVars, eisVars>>

\* The sample completes the calibration.
Complete == count + 1 >= kCalibrationSamples

PushCalibrates(s) ==
    /\ running /\ ~calibrated
    /\ count' = count + 1
    /\ bias' = [of |-> bias.of \cup {s}, by |-> IF Complete THEN count' ELSE 0]
    /\ calibrated' = Complete
    /\ received' = Append(received, s)
    /\ UNCHANGED <<ringVars, running, workVars, accepted>>

\* The ring is full: BUSY, and the sample is gone.
PushDrops(s) ==
    /\ running /\ calibrated /\ PushRefused
    /\ received' = Append(received, s)
    /\ UNCHANGED <<running, biasVars, workVars, accepted>>

PushBegins(s) ==
    /\ running /\ calibrated /\ PushFindsRoom
    /\ received' = Append(received, s)
    /\ UNCHANGED <<running, biasVars, workVars, accepted>>

PushFills(s) == PushStores(s) /\ UNCHANGED eisVars

PushEnds(s) ==
    /\ PushPublishes
    /\ accepted' = Append(accepted, s)
    /\ UNCHANGED <<running, biasVars, workVars, received>>

-----------------------------------------------------------------------------
(* The processor thread. *)

\* Mutant: the thread ends when it finds nothing to do.
WorkerEndsIdle ==
    /\ wpc = "loop" /\ (~running \/ Empty)
    /\ wpc' = "ended"
    /\ UNCHANGED <<ringVars, running, biasVars, item, x, filtered, received, accepted>>

WorkerEnds ==
    /\ wpc = "loop" /\ ~running
    /\ wpc' = "ended"
    /\ UNCHANGED <<ringVars, running, biasVars, item, x, filtered, received, accepted>>

\* Pop finds the ring empty, and the thread sleeps for a moment.
WorkerIdles ==
    /\ wpc = "loop" /\ running
    /\ PopRefused
    /\ UNCHANGED eisVars

WorkerFinds ==
    /\ wpc = "loop" /\ running
    /\ PopFindsItem
    /\ wpc' = "found"
    /\ UNCHANGED <<running, biasVars, item, x, filtered, received, accepted>>

WorkerReads ==
    /\ wpc = "found"
    /\ item' = PopRead
    /\ wpc' = "read"
    /\ UNCHANGED <<ringVars, running, biasVars, x, filtered, received, accepted>>

WorkerReleases ==
    /\ wpc = "read"
    /\ PopReleases
    /\ wpc' = "popped"
    /\ UNCHANGED <<running, biasVars, item, x, filtered, received, accepted>>

\* Mutant: only the near edge is looked after.
ClampedLow(c) == IF c < 0 THEN 0 ELSE c

\* The window is kept on the sensor.
Clamped(c) == IF c < 0 THEN 0 ELSE IF c + Output > Input THEN Input - Output ELSE c

\* x * 0.7 + c * 0.3, cut off to an integer.  Neither factor is exact in binary: where
\* the sum would be whole, what is left of it may be one less.
Smoothed(old, c) ==
    LET tenths == 7 * old + 3 * c
        whole == tenths \div 10
    IN  IF tenths % 10 = 0 /\ whole > 0 THEN {whole, whole - 1} ELSE {whole}

WorkerFilters(dx) ==
    /\ wpc = "popped"
    /\ filtered' = Append(filtered, [sample |-> item, bias |-> bias])
    /\ x' \in Smoothed(x, Clamped(Center - dx))
    /\ wpc' = "loop"
    /\ UNCHANGED <<ringVars, running, biasVars, item, received, accepted>>

Worker ==
    \/ WorkerEnds \/ WorkerIdles \/ WorkerFinds \/ WorkerReads \/ WorkerReleases
    \/ \E dx \in Offsets : WorkerFilters(dx)
===============================================================================
