-------------------------------- MODULE GyroPath --------------------------------
(***************************************************************************)
(* From the gyro to the crop window: the driver of the ICM-20948           *)
(* (src/src/hal/icm20948_hal.cpp) and its polling thread, the stabiliser   *)
(* it feeds, and the order in which main (src/src/app/main.cpp, start_eis  *)
(* and system_shutdown) starts and stops them.  main does so once; the     *)
(* interfaces allow it again, which is what shows whether one run leaves   *)
(* anything behind for the next.                                           *)
(*                                                                         *)
(* The I2C bus may fail at every transfer.  A descriptor that Init loses   *)
(* track of is forgotten here as well.  A pthread_create that fails is     *)
(* taken to leave the handle of the thread alone.                          *)
(***************************************************************************)
EXTENDS EisProcessor

CONSTANTS
    MaxStarts,  \* bound: runs of start_eis
    MaxSamples  \* bound: samples the sensor delivers

ASSUME GyroBounds == MaxStarts \in Nat /\ MaxSamples \in Nat /\ 1..MaxSamples \subseteq Items

VARIABLES
    ctl,           \* where start_eis or system_shutdown is
    fdOpen,        \* i2c_fd_ >= 0
    bank,          \* the register bank the device has selected
    setup,         \* transfers of Init that succeeded
    polling,       \* running_ of the driver
    imuAvailable,  \* g_imu_available
    ppc,           \* the polling thread; "none" when polling_thread_ is 0
    sample,        \* data, in the polling thread
    sensed,        \* history: samples delivered
    starts         \* history: runs of start_eis

busVars   == <<fdOpen, bank, setup>>
pollVars  == <<ppc, sample, sensed>>
imuVars   == <<busVars, polling, imuAvailable, pollVars>>
vars == <<ctl, starts, imuVars, ringVars, eisVars>>

\* The transfers of Init in their order: the bank each selects, or the bank whose
\* register it reads or writes.
Select(b) == [op |-> "select", bank |-> b]
Access(b) == [op |-> "access", bank |-> b]
SetRange == <<Select(2), Access(2), Select(0)>>
SetOdr == <<Select(2), Access(2), Access(2), Access(2), Select(0)>>
Identify == <<Select(0), Access(0)>>
Setup == Identify \o <<Access(0)>> \o SetRange \o SetRange \o SetOdr

Init ==
    /\ EisInit
    /\ ctl = "off" /\ starts = 0
    /\ fdOpen = FALSE /\ bank \in 0..3 /\ setup = 0
    /\ polling = FALSE /\ imuAvailable = FALSE
    /\ ppc = "none" /\ sample = NoItem /\ sensed = 0

-----------------------------------------------------------------------------
(* start_eis, in the controller. *)

EisStartResets ==
    /\ ctl = "off" /\ starts < MaxStarts
    /\ StartResets
    /\ ctl' = "clearing" /\ starts' = starts + 1
    /\ UNCHANGED imuVars

EisStartClears ==
    /\ ctl = "clearing"
    /\ ClearsTail
    /\ ctl' = "creating"
    /\ UNCHANGED <<starts, imuVars, eisVars>>

\* Without the processor no IMU is started either.
EisStartEnds ==
    /\ ctl = "creating"
    /\ \/ StartCreates /\ ctl' = "imu_open"
       \/ StartCreateFails /\ ctl' = "off"
    /\ UNCHANGED <<starts, imuVars>>

\* open, or the choice of the slave address, may fail: the crop stays centred.
ImuOpens ==
    /\ ctl = "imu_open"
    /\ setup' = 0
    /\ \/ fdOpen' = TRUE /\ ctl' = "imu_setup"
       \/ fdOpen' = FALSE /\ ctl' = "up"
    /\ UNCHANGED <<starts, bank, polling, imuAvailable, pollVars, ringVars, eisVars>>

ImuSetup ==
    /\ ctl = "imu_setup" /\ setup < Len(Setup)
    /\ setup' = setup + 1
    /\ bank' = IF Setup[setup'].op = "select" THEN Setup[setup'].bank ELSE bank
    /\ UNCHANGED <<ctl, starts, fdOpen, polling, imuAvailable, pollVars, ringVars, eisVars>>

\* A transfer fails, or WHO_AM_I is another's.  Only a failure of the configuration
\* closes the descriptor.
ImuSetupFails ==
    /\ ctl = "imu_setup" /\ setup < Len(Setup)
    /\ fdOpen' = (setup < Len(Identify))
    /\ ctl' = "up"
    /\ UNCHANGED <<starts, bank, setup, polling, imuAvailable, pollVars, ringVars, eisVars>>

\* Mutant: the outcome of the configuration is not looked at.
ImuStartsAnyway ==
    /\ ctl = "imu_setup"
    /\ \/ polling' = TRUE /\ imuAvailable' = TRUE /\ ppc' = "loop"
       \/ UNCHANGED <<polling, imuAvailable, ppc>>
    /\ ctl' = "up"
    /\ UNCHANGED <<starts, busVars, sample, sensed, ringVars, eisVars>>

ImuStarts ==
    /\ ctl = "imu_setup" /\ setup = Len(Setup)
    /\ \/ polling' = TRUE /\ imuAvailable' = TRUE /\ ppc' = "loop"
       \/ UNCHANGED <<polling, imuAvailable, ppc>>
    /\ ctl' = "up"
    /\ UNCHANGED <<starts, busVars, sample, sensed, ringVars, eisVars>>

-----------------------------------------------------------------------------
(* system_shutdown, in the controller. *)

ImuStops ==
    /\ ctl = "up"
    /\ polling' = FALSE
    /\ ctl' = IF imuAvailable THEN "imu_join" ELSE "eis_stop"
    /\ UNCHANGED <<starts, busVars, imuAvailable, pollVars, ringVars, eisVars>>

\* Mutant: the driver does not wait for its thread.
ImuDetaches ==
    /\ ctl = "imu_join"
    /\ ctl' = "eis_stop"
    /\ UNCHANGED <<starts, imuVars, ringVars, eisVars>>

\* There is no thread if g_imu_available, which nobody clears, is of an earlier run.
ImuJoins ==
    /\ ctl = "imu_join" /\ ppc \in {"none", "ended"}
    /\ ppc' = "none"
    /\ ctl' = "eis_stop"
    /\ UNCHANGED <<starts, busVars, polling, imuAvailable, sample, sensed, ringVars, eisVars>>

EisStops ==
    /\ ctl = "eis_stop"
    /\ StopClearsRunning
    /\ ctl' = "eis_join"
    /\ UNCHANGED <<starts, imuVars>>

EisJoins ==
    /\ ctl = "eis_join"
    /\ StopJoins
    /\ ctl' = "stop_head"
    /\ UNCHANGED <<starts, imuVars>>

EisStopClears ==
    /\ \/ ctl = "stop_head" /\ ClearsHead /\ ctl' = "stop_tail"
       \/ ctl = "stop_tail" /\ ClearsTail /\ ctl' = "off"
    /\ UNCHANGED <<starts, imuVars, eisVars>>

-----------------------------------------------------------------------------
(* The polling thread. *)

PollEnds ==
    /\ ppc = "loop" /\ ~polling
    /\ ppc' = "ended"
    /\ UNCHANGED <<ctl, starts, busVars, polling, imuAvailable, sample, sensed, ringVars, eisVars>>

\* ReadData begins: bank 0, or the transfer fails and the loop goes on.
PollSelects ==
    /\ ppc = "loop" /\ polling
    /\ \/ bank' = 0 /\ ppc' = "selected"
       \/ UNCHANGED <<bank, ppc>>
    /\ UNCHANGED <<ctl, starts, fdOpen, setup, polling, imuAvailable, sample, sensed, ringVars,
                   eisVars>>

PollReads ==
    /\ ppc = "selected"
    /\ \/ /\ sensed < MaxSamples
          /\ sensed' = sensed + 1 /\ sample' = sensed'
          /\ ppc' = "sampled"
       \/ ppc' = "loop" /\ UNCHANGED <<sensed, sample>>
    /\ UNCHANGED <<ctl, starts, busVars, polling, imuAvailable, ringVars, eisVars>>

\* The callback: PushGyroData comes to an end at once, or begins to fill a slot.
PollPushes ==
    /\ ppc = "sampled"
    /\ \/ PushNotRunning /\ ppc' = "loop"
       \/ PushCalibrates(sample) /\ ppc' = "loop"
       \/ PushDrops(sample) /\ ppc' = "loop"
       \/ PushBegins(sample) /\ ppc' = "room"
    /\ UNCHANGED <<ctl, starts, busVars, polling, imuAvailable, sample, sensed>>

PollFills ==
    /\ ppc = "room"
    /\ PushFills(sample)
    /\ ppc' = "filled"
    /\ UNCHANGED <<ctl, starts, busVars, polling, imuAvailable, sample, sensed>>

PollPublishes ==
    /\ ppc = "filled"
    /\ PushEnds(sample)
    /\ ppc' = "loop"
    /\ UNCHANGED <<ctl, starts, busVars, polling, imuAvailable, sample, sensed>>

Poller == PollEnds \/ PollSelects \/ PollReads \/ PollPushes \/ PollFills \/ PollPublishes

-----------------------------------------------------------------------------
Controller ==
    \/ EisStartResets \/ EisStartClears \/ EisStartEnds
    \/ ImuOpens \/ ImuSetup \/ ImuSetupFails \/ ImuStarts
    \/ ImuStops \/ ImuJoins \/ EisStops \/ EisJoins \/ EisStopClears

Processor == Worker /\ UNCHANGED <<ctl, starts, imuVars>>

Next == Controller \/ Poller \/ Processor

Spec == Init /\ [][Next]_vars

\* The processor thread is scheduled; nothing is asked of the sensor or of main.
FairSpec == Spec /\ WF_vars(Processor)

-----------------------------------------------------------------------------
(* Properties *)

TypeOK ==
    /\ RingTypeOK
    /\ running \in BOOLEAN /\ calibrated \in BOOLEAN /\ polling \in BOOLEAN
    /\ count \in 0..kCalibrationSamples
    /\ bias.of \subseteq 1..MaxSamples /\ bias.by \in 0..kCalibrationSamples
    /\ wpc \in {"none", "loop", "found", "read", "popped", "ended"}
    /\ ppc \in {"none", "loop", "selected", "sampled", "room", "filled", "ended"}
    /\ item \in Items \cup {NoItem} /\ sample \in Items \cup {NoItem}
    /\ ctl \in {"off", "clearing", "creating", "imu_open", "imu_setup", "up", "imu_join",
                "eis_stop", "eis_join", "stop_head", "stop_tail"}
    /\ fdOpen \in BOOLEAN /\ imuAvailable \in BOOLEAN
    /\ bank \in 0..3 /\ setup \in 0..Len(Setup)
    /\ sensed \in 0..MaxSamples /\ starts \in 0..MaxStarts

Samples(entries) == [i \in DOMAIN entries |-> entries[i].sample]

\* The ring loses, repeats and reorders nothing, although Push and Pop share no lock and
\* Clear touches both indices: while the processor thread lives, the samples accepted in
\* this run are those filtered, then the one just popped, then what the ring holds.
SamplesInOrder ==
    wpc # "none" =>
        accepted = Samples(filtered)
                   \o (IF wpc = "popped" THEN <<item>> ELSE <<>>)
                   \o Contents

\* Each sample the filter sees is corrected by the mean of exactly the first
\* kCalibrationSamples samples of this run, none of them of an earlier run and none
\* filtered itself, although the bias is written by the IMU's thread with no lock.
BiasIsFinished ==
    \A i \in DOMAIN filtered :
        /\ filtered[i].bias.by = kCalibrationSamples
        /\ filtered[i].bias.of = {received[j] : j \in 1..kCalibrationSamples}
        /\ filtered[i].sample \notin filtered[i].bias.of

\* The crop window never leaves the sensor, whatever the filter makes of the samples
\* (the test TestEisCropBounds looks at one series of them).
CropOnSensor == x >= 0 /\ x + Output <= Input

\* The polling thread only ever reads a sensor that was configured to the end, over an
\* open descriptor and, when it comes to the data registers, in their bank.
PollsReadySensor ==
    ppc # "none" =>
        /\ fdOpen /\ setup = Len(Setup)
        /\ ppc = "selected" => bank = 0

\* A sample in the ring is filtered, unless the stabiliser is being stopped.
SamplesAreFiltered ==
    \A s \in 1..MaxSamples :
        (\E i \in DOMAIN Contents : Contents[i] = s)
            ~> (~running \/ \E i \in DOMAIN filtered : filtered[i].sample = s)
=================================================================================
