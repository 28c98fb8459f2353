---------------------------- MODULE GyroPathProofs ----------------------------
(***************************************************************************)
(* Proofs about GyroPath, for every capacity of the ring, length of the    *)
(* calibration, sensor and window, set of offsets and number of runs and   *)
(* samples: the window, the driver, the order of the samples and the bias  *)
(* they are corrected by.  The sequences are compared place by place;      *)
(* OrderImplies puts the places together.                                  *)
(***************************************************************************)
EXTENDS GyroPath, SequenceTheorems, TLAPS

USE DEF vars, busVars, pollVars, imuVars, ringVars, pushVars, eisVars, biasVars, workVars

-----------------------------------------------------------------------------
(* The window *)

Positions == 0..(Input - Output)

\* ClampCrop puts every offset on the sensor.
LEMMA ClampedOnSensor ==
    ASSUME NEW c \in Int
    PROVE  Clamped(c) \in Positions
BY ExtentAssumption DEF Clamped, Positions

\* Smoothing between two positions on the sensor stays between them.
LEMMA SmoothedOnSensor ==
    ASSUME NEW old \in Positions, NEW c \in Positions, NEW new \in Smoothed(old, c)
    PROVE  new \in Positions
<1> DEFINE tenths == 7 * old + 3 * c
           whole == tenths \div 10
<1>1. old \in Nat /\ c \in Nat /\ Input - Output \in Nat
  BY ExtentAssumption DEF Positions
<1>2. tenths \in Nat /\ tenths <= 10 * (Input - Output)
  BY <1>1 DEF Positions
<1>3. whole \in Nat /\ whole <= Input - Output
  BY <1>1, <1>2
<1>4. new = whole \/ (new = whole - 1 /\ whole > 0)
  BY DEF Smoothed
<1> QED
  BY <1>1, <1>3, <1>4 DEF Positions

-----------------------------------------------------------------------------
(* The window stays, since only the processor thread moves it. *)

Window == x \in Positions

\* The window of the stabiliser lies on the sensor in every reachable state.
THEOREM WindowOnSensor == Spec => []CropOnSensor
<1>1. Init => Window
  BY ExtentAssumption DEF Init, EisInit, Window, Positions, Center
<1>2. Window /\ [Next]_vars => Window'
  <2> SUFFICES ASSUME Window, [Next]_vars PROVE Window'
    OBVIOUS
  <2>1. CASE UNCHANGED x
    BY <2>1 DEF Window
  <2>2. CASE \E dx \in Offsets : WorkerFilters(dx)
    <3>1. PICK dx \in Offsets : WorkerFilters(dx)
      BY <2>2
    <3>2. Center - dx \in Int
      BY ExtentAssumption, OffsetAssumption DEF Center
    <3>3. Clamped(Center - dx) \in Positions
      BY <3>2, ClampedOnSensor
    <3>4. x' \in Smoothed(x, Clamped(Center - dx))
      BY <3>1 DEF WorkerFilters
    <3> QED
      BY <3>3, <3>4, SmoothedOnSensor DEF Window
  <2>3. CASE Controller
    <3>1. CASE EisStartResets
      BY <3>1, ExtentAssumption DEF EisStartResets, StartResets, Window, Positions, Center
    <3>2. CASE EisStartClears
      BY <2>1, <3>2 DEF EisStartClears, eisVars, workVars
    <3>3. CASE EisStartEnds
      BY <2>1, <3>3 DEF EisStartEnds, StartCreates, StartCreateFails, eisVars, workVars
    <3>4. CASE ImuOpens \/ ImuSetup \/ ImuSetupFails \/ ImuStarts \/ ImuStops \/ ImuJoins
      BY <2>1, <3>4 DEF ImuOpens, ImuSetup, ImuSetupFails, ImuStarts, ImuStops, ImuJoins,
                        eisVars, workVars
    <3>5. CASE EisStops \/ EisJoins
      BY <2>1, <3>5 DEF EisStops, EisJoins, StopClearsRunning, StopJoins, workVars
    <3>6. CASE EisStopClears
      BY <2>1, <3>6 DEF EisStopClears, eisVars, workVars
    <3> QED
      BY <2>3, <3>1, <3>2, <3>3, <3>4, <3>5, <3>6 DEF Controller
  <2>4. CASE Poller
    BY <2>1, <2>4 DEF Poller, PollEnds, PollSelects, PollReads, PollPushes, PollFills,
                      PollPublishes, PushNotRunning, PushCalibrates, PushDrops, PushBegins,
                      PushFills, PushEnds, eisVars, workVars
  <2>5. CASE Processor
    BY <2>1, <2>2, <2>5 DEF Processor, Worker, WorkerEnds, WorkerIdles, WorkerFinds,
                            WorkerReads, WorkerReleases, eisVars, workVars
  <2>6. CASE UNCHANGED vars
    BY <2>1, <2>6 DEF vars, eisVars, workVars
  <2> QED
    BY <2>3, <2>4, <2>5, <2>6 DEF Next
<1>3. Window => CropOnSensor
  BY ExtentAssumption DEF Window, Positions, CropOnSensor
<1> QED
  BY <1>1, <1>2, <1>3, PTL DEF Spec

-----------------------------------------------------------------------------
(* Types *)

Numbers == 1..MaxSamples
Biases == [of : SUBSET Numbers, by : 0..kCalibrationSamples]

\* The types of driver and controller.
DriverTypes ==
    /\ polling \in BOOLEAN /\ fdOpen \in BOOLEAN /\ imuAvailable \in BOOLEAN
    /\ ppc \in {"none", "loop", "selected", "sampled", "room", "filled", "ended"}
    /\ ctl \in {"off", "clearing", "creating", "imu_open", "imu_setup", "up", "imu_join",
                "eis_stop", "eis_join", "stop_head", "stop_tail"}
    /\ bank \in 0..3 /\ setup \in 0..Len(Setup)
    /\ sensed \in 0..MaxSamples /\ starts \in 0..MaxStarts
    /\ sample \in Numbers \cup {NoItem}
    /\ ppc \in {"sampled", "room", "filled"} => sample \in Numbers

\* The types of the calibration, and what keeps its count in bounds.
BiasTypes ==
    /\ calibrated \in BOOLEAN
    /\ count \in 0..kCalibrationSamples
    /\ bias \in Biases
    /\ ~calibrated => count < kCalibrationSamples
    /\ received \in Seq(Numbers)

\* The types of what happens behind the ring.
WorkTypes ==
    /\ running \in BOOLEAN
    /\ wpc \in {"none", "loop", "found", "read", "popped", "ended"}
    /\ item \in Items \cup {NoItem}
    /\ accepted \in Seq(Numbers)
    /\ filtered \in Seq([sample : Items \cup {NoItem}, bias : Biases])

Types == DriverTypes /\ BiasTypes /\ WorkTypes /\ RingTypeOK

Transfers == [op : {"select", "access"}, bank : 0..3]

\* An element of a sequence over a set lies in it.
LEMMA ElementInSet ==
    ASSUME NEW T, NEW s \in Seq(T), NEW i \in 1..Len(s)
    PROVE  s[i] \in T
OBVIOUS

\* The transfers of Init are of the kinds that ImuSetup tells apart.
LEMMA SetupTransfers == Setup \in Seq(Transfers)
<1>1. \A b \in 0..3 : Select(b) \in Transfers /\ Access(b) \in Transfers
  BY DEF Select, Access, Transfers
<1>2. /\ Select(0) \in Transfers /\ Select(2) \in Transfers
      /\ Access(0) \in Transfers /\ Access(2) \in Transfers
  BY <1>1
<1>3. /\ SetRange \in Seq(Transfers) /\ SetOdr \in Seq(Transfers)
      /\ Identify \in Seq(Transfers) /\ <<Access(0)>> \in Seq(Transfers)
  BY <1>2 DEF SetRange, SetOdr, Identify
<1>4. Identify \o <<Access(0)>> \in Seq(Transfers)
  BY <1>3, ConcatProperties
<1>5. Identify \o <<Access(0)>> \o SetRange \in Seq(Transfers)
  BY <1>3, <1>4, ConcatProperties
<1>6. Identify \o <<Access(0)>> \o SetRange \o SetRange \in Seq(Transfers)
  BY <1>3, <1>5, ConcatProperties
<1> QED
  BY <1>3, <1>6, ConcatProperties DEF Setup

\* Each transfer selects, or works in, one of the four banks of the sensor.
LEMMA SetupBanks ==
    /\ Len(Setup) \in Nat
    /\ \A i \in 1..Len(Setup) : Setup[i].bank \in 0..3
<1>1. Len(Setup) \in Nat
  BY SetupTransfers
<1>2. ASSUME NEW i \in 1..Len(Setup) PROVE Setup[i].bank \in 0..3
  <2>1. Setup[i] \in Transfers
    BY SetupTransfers, ElementInSet
  <2> QED
    BY <2>1 DEF Transfers
<1> QED
  BY <1>1, <1>2

\* The types hold before anything is started.
LEMMA TypeInit == Init => Types
<1> SUFFICES ASSUME Init PROVE Types
  OBVIOUS
<1>1. DriverTypes
  <2>1. /\ polling \in BOOLEAN /\ fdOpen \in BOOLEAN /\ imuAvailable \in BOOLEAN
        /\ ppc = "none" /\ ctl = "off"
    BY DEF Init
  <2>2. bank \in 0..3 /\ setup \in 0..Len(Setup)
    BY SetupBanks DEF Init
  <2>3. sensed \in 0..MaxSamples /\ starts \in 0..MaxStarts
    BY GyroBounds DEF Init
  <2>4. sample \in Numbers \cup {NoItem}
    BY DEF Init
  <2> QED
    BY <2>1, <2>2, <2>3, <2>4 DEF DriverTypes
<1>2. bias \in Biases
  BY CalibrationAssumption DEF Init, EisInit, NoBias, Biases
<1>3. BiasTypes
  <2>1. calibrated = FALSE /\ count = 0 /\ received = <<>>
    BY DEF Init, EisInit
  <2>2. <<>> \in Seq(Numbers)
    OBVIOUS
  <2>3. received \in Seq(Numbers)
    BY <2>1, <2>2
  <2>4. count \in 0..kCalibrationSamples /\ count < kCalibrationSamples
    BY <2>1, CalibrationAssumption
  <2> QED
    BY <1>2, <2>1, <2>3, <2>4 DEF BiasTypes
<1>4. WorkTypes
  <2>1. /\ running = FALSE /\ wpc = "none" /\ item = NoItem
        /\ accepted = <<>> /\ filtered = <<>>
    BY DEF Init, EisInit
  <2>2. <<>> \in Seq(Numbers)
    OBVIOUS
  <2>3. <<>> \in Seq([sample : Items \cup {NoItem}, bias : Biases])
    OBVIOUS
  <2>4. accepted \in Seq(Numbers)
    BY <2>1, <2>2
  <2>5. filtered \in Seq([sample : Items \cup {NoItem}, bias : Biases])
    BY <2>1, <2>3
  <2>6. item \in Items \cup {NoItem}
    BY <2>1
  <2> QED
    BY <2>1, <2>4, <2>5, <2>6 DEF WorkTypes
<1>5. RingTypeOK
  BY CapacityAssumption DEF Init, EisInit, RingInit, RingTypeOK, Slots
<1> QED
  BY <1>1, <1>3, <1>4, <1>5 DEF Types

\* The conjuncts of TypeOK are among the types.
LEMMA TypesImply == Types => TypeOK
BY GyroBounds DEF Types, DriverTypes, BiasTypes, WorkTypes, TypeOK, Numbers, Biases

\* No step of controller or polling thread breaks the driver's types.
LEMMA DriverTypeStep ==
    ASSUME DriverTypes, [Next]_vars
    PROVE  DriverTypes'
<1> USE GyroBounds DEF DriverTypes
<1>0. Len(Setup) \in Nat
  BY SetupBanks
<1>1. CASE EisStartResets
  BY <1>1 DEF EisStartResets
<1>2. CASE EisStartClears \/ EisStartEnds
  BY <1>2 DEF EisStartClears, EisStartEnds
<1>3. CASE ImuOpens
  <2>1. setup' \in 0..Len(Setup)
    BY <1>0, <1>3 DEF ImuOpens
  <2>2. fdOpen' \in BOOLEAN /\ ctl' \in {"imu_setup", "up"}
    BY <1>3 DEF ImuOpens
  <2> QED
    BY <1>3, <2>1, <2>2 DEF ImuOpens
<1>4. CASE ImuSetup
  <2>1. setup' \in 1..Len(Setup)
    BY <1>0, <1>4 DEF ImuSetup
  <2>2. Setup[setup'].bank \in 0..3
    BY <2>1, SetupBanks
  <2>3. bank' \in 0..3
    BY <1>4, <2>2 DEF ImuSetup
  <2> QED
    BY <1>0, <1>4, <2>1, <2>3 DEF ImuSetup
<1>5. CASE ImuSetupFails
  BY <1>0, <1>5 DEF ImuSetupFails
<1>6. CASE ImuStarts
  BY <1>6 DEF ImuStarts
<1>7. CASE ImuStops
  BY <1>7 DEF ImuStops
<1>8. CASE ImuJoins
  BY <1>8 DEF ImuJoins
<1>9. CASE EisStops \/ EisJoins \/ EisStopClears
  BY <1>9 DEF EisStops, EisJoins, EisStopClears
<1>10. CASE PollEnds \/ PollSelects
  BY <1>10 DEF PollEnds, PollSelects
<1>11. CASE PollReads
  BY <1>11 DEF PollReads, Numbers
<1>12. CASE PollPushes
  BY <1>12 DEF PollPushes
<1>13. CASE PollFills \/ PollPublishes
  BY <1>13 DEF PollFills, PollPublishes
<1>14. CASE Processor \/ UNCHANGED vars
  BY <1>14 DEF Processor
<1> QED
  BY <1>1, <1>2, <1>3, <1>4, <1>5, <1>6, <1>7, <1>8, <1>9, <1>10, <1>11, <1>12, <1>13, <1>14
     DEF Next, Controller, Poller

\* The count stops where the calibration is complete.
LEMMA BiasTypeStep ==
    ASSUME BiasTypes, DriverTypes, [Next]_vars
    PROVE  BiasTypes'
<1> USE CalibrationAssumption DEF BiasTypes
<1>1. CASE EisStartResets
  <2>1. NoBias \in Biases
    BY DEF NoBias, Biases
  <2>2. <<>> \in Seq(Numbers)
    OBVIOUS
  <2>3. calibrated' = FALSE /\ count' = 0 /\ bias' = NoBias /\ received' = <<>>
    BY <1>1 DEF EisStartResets, StartResets, ResetBias
  <2>4. received' \in Seq(Numbers)
    BY <2>2, <2>3
  <2>5. count' \in 0..kCalibrationSamples /\ count' < kCalibrationSamples
    BY <2>3
  <2> QED
    BY <2>1, <2>3, <2>4, <2>5
<1>2. CASE PollPushes /\ PushCalibrates(sample)
  <2>1. sample \in Numbers
    BY <1>2 DEF PollPushes, DriverTypes
  <2>2. received' \in Seq(Numbers)
    BY <1>2, <2>1 DEF PushCalibrates
  <2>3. count' \in 0..kCalibrationSamples /\ (~calibrated' => count' < kCalibrationSamples)
    <3>1. count < kCalibrationSamples /\ count' = count + 1 /\ calibrated' = Complete
      BY <1>2 DEF PushCalibrates
    <3>2. ~Complete => count + 1 < kCalibrationSamples
      BY DEF Complete
    <3> QED
      BY <3>1, <3>2
  <2>4. bias' \in Biases
    <3>1. bias' = [of |-> bias.of \cup {sample}, by |-> IF Complete THEN count' ELSE 0]
      BY <1>2 DEF PushCalibrates
    <3>2. bias.of \cup {sample} \in SUBSET Numbers
      BY <2>1 DEF Biases
    <3> QED
      BY <2>3, <3>1, <3>2 DEF Biases
  <2>5. calibrated' \in BOOLEAN
    BY <1>2 DEF PushCalibrates, Complete
  <2> QED
    BY <2>2, <2>3, <2>4, <2>5
<1>3. CASE PollPushes /\ ~PushCalibrates(sample)
  <2>1. sample \in Numbers
    BY <1>3 DEF PollPushes, DriverTypes
  <2>2. UNCHANGED biasVars /\ received' \in Seq(Numbers)
    BY <1>3, <2>1 DEF PollPushes, PushNotRunning, PushDrops, PushBegins
  <2> QED
    BY <2>2
<1>4. CASE UNCHANGED <<biasVars, received>>
  BY <1>4
<1>5. CASE Controller /\ ~EisStartResets
  BY <1>4, <1>5 DEF Controller, EisStartClears, EisStartEnds, StartCreates, StartCreateFails,
     ImuOpens, ImuSetup, ImuSetupFails, ImuStarts, ImuStops, ImuJoins, EisStops,
     StopClearsRunning, EisJoins, StopJoins, EisStopClears
<1>6. CASE PollEnds \/ PollSelects \/ PollReads \/ PollFills \/ PollPublishes
  BY <1>4, <1>6 DEF PollEnds, PollSelects, PollReads, PollFills, PushFills, PollPublishes, PushEnds
<1>7. CASE Processor \/ UNCHANGED vars
  BY <1>4, <1>7 DEF Processor, Worker, WorkerEnds, WorkerIdles, WorkerFinds, WorkerReads,
     WorkerReleases, WorkerFilters
<1> QED
  BY <1>1, <1>2, <1>3, <1>5, <1>6, <1>7 DEF Next, Poller

\* The indices stay inside the ring: each is reset or moves to its successor.
LEMMA RingTypeStep ==
    ASSUME RingTypeOK, DriverTypes, [Next]_vars
    PROVE  RingTypeOK'
<1> USE DEF RingTypeOK
<1>0. 0 \in Slots /\ \A i \in Slots : Successor(i) \in Slots
  BY CapacityAssumption DEF Slots, Successor
<1>1. CASE EisStartResets \/ EisStartClears \/ EisStopClears
  BY <1>0, <1>1 DEF EisStartResets, StartResets, EisStartClears, EisStopClears, ClearsHead,
     ClearsTail
<1>2. CASE PollPushes
  BY <1>2 DEF PollPushes, PushNotRunning, PushCalibrates, PushDrops, PushRefused, PushBegins,
     PushFindsRoom
<1>3. CASE PollFills
  <2>1. sample \in Items
    BY <1>3, GyroBounds DEF PollFills, DriverTypes, Numbers
  <2> QED
    BY <1>3, <2>1 DEF PollFills, PushFills, PushStores
<1>4. CASE PollPublishes
  BY <1>0, <1>4 DEF PollPublishes, PushEnds, PushPublishes
<1>5. CASE Processor
  BY <1>0, <1>5 DEF Processor, Worker, WorkerEnds, WorkerIdles, PopRefused, WorkerFinds,
     PopFindsItem, WorkerReads, WorkerReleases, PopReleases, WorkerFilters
<1>6. CASE UNCHANGED ringVars
  BY <1>6
<1>7. CASE Controller /\ ~(EisStartResets \/ EisStartClears \/ EisStopClears)
  BY <1>6, <1>7 DEF Controller, EisStartEnds, StartCreates, StartCreateFails, ImuOpens,
     ImuSetup, ImuSetupFails, ImuStarts, ImuStops, ImuJoins, EisStops, StopClearsRunning,
     EisJoins, StopJoins
<1>8. CASE PollEnds \/ PollSelects \/ PollReads \/ UNCHANGED vars
  BY <1>6, <1>8 DEF PollEnds, PollSelects, PollReads
<1> QED
  BY <1>1, <1>2, <1>3, <1>4, <1>5, <1>7, <1>8 DEF Next, Poller

\* What leaves the ring is an item of it, and is filtered with a bias.
LEMMA WorkTypeStep ==
    ASSUME Types, [Next]_vars
    PROVE  WorkTypes'
<1> USE DEF WorkTypes
<1>0. WorkTypes
  BY DEF Types
<1>1. CASE EisStartResets
  BY <1>0, <1>1 DEF EisStartResets, StartResets
<1>2. CASE PollPublishes
  <2>1. sample \in Numbers
    BY <1>2 DEF PollPublishes, Types, DriverTypes
  <2> QED
    BY <1>0, <1>2, <2>1 DEF PollPublishes, PushEnds
<1>3. CASE WorkerReads
  <2>1. cTail \in Slots /\ slots \in [Slots -> Items \cup {NoItem}]
    BY DEF Types, RingTypeOK
  <2>2. item' \in Items \cup {NoItem}
    BY <1>3, <2>1 DEF WorkerReads, PopRead
  <2> QED
    BY <1>0, <1>3, <2>2 DEF WorkerReads
<1>4. CASE \E dx \in Offsets : WorkerFilters(dx)
  <2>1. [sample |-> item, bias |-> bias] \in [sample : Items \cup {NoItem}, bias : Biases]
    BY <1>0 DEF Types, BiasTypes
  <2> QED
    BY <1>0, <1>4, <2>1 DEF WorkerFilters
<1>5. CASE WorkerEnds \/ WorkerIdles \/ WorkerFinds \/ WorkerReleases
  BY <1>0, <1>5 DEF WorkerEnds, WorkerIdles, WorkerFinds, WorkerReleases
<1>6. CASE UNCHANGED <<running, wpc, item, accepted, filtered>>
  BY <1>0, <1>6
<1>7. CASE EisStartEnds \/ EisStops \/ EisJoins
  BY <1>0, <1>7 DEF EisStartEnds, StartCreates, StartCreateFails, EisStops, StopClearsRunning,
     EisJoins, StopJoins
<1>8. CASE EisStartClears \/ EisStopClears \/ ImuOpens \/ ImuSetup \/ ImuSetupFails
           \/ ImuStarts \/ ImuStops \/ ImuJoins
  BY <1>6, <1>8 DEF EisStartClears, EisStopClears, ImuOpens, ImuSetup, ImuSetupFails, ImuStarts,
     ImuStops, ImuJoins
<1>9. CASE PollEnds \/ PollSelects \/ PollReads \/ PollPushes \/ PollFills \/ UNCHANGED vars
  BY <1>6, <1>9 DEF PollEnds, PollSelects, PollReads, PollPushes, PushNotRunning,
     PushCalibrates, PushDrops, PushBegins, PollFills, PushFills
<1> QED
  BY <1>1, <1>2, <1>3, <1>4, <1>5, <1>7, <1>8, <1>9
     DEF Next, Controller, Poller, Processor, Worker

\* Every step keeps every type.
LEMMA TypeStep ==
    ASSUME Types, [Next]_vars
    PROVE  Types'
BY DriverTypeStep, BiasTypeStep, RingTypeStep, WorkTypeStep DEF Types

\* Every variable of driver, ring and stabiliser keeps its type: no index leaves the ring,
\* and no more samples than kCalibrationSamples are counted.
THEOREM TypeCorrect == Spec => []TypeOK
BY TypeInit, TypeStep, TypesImply, PTL DEF Spec

-----------------------------------------------------------------------------
(* The driver *)

\* The polling thread exists beside a descriptor and a finished setup, and only while the
\* controller is between the driver's Start and its join.
Driver ==
    /\ ctl = "imu_setup" => fdOpen
    /\ ppc # "none" =>
         fdOpen /\ setup = Len(Setup) /\ imuAvailable /\ ctl \in {"up", "imu_join"}
    /\ ppc = "selected" => bank = 0

\* No step reads a sensor the driver lost, or lets the thread outlive its join.
LEMMA DriverStep ==
    ASSUME Driver, [Next]_vars
    PROVE  Driver'
<1> USE DEF Driver
<1>1. CASE EisStartResets \/ EisStartClears \/ EisStartEnds
  BY <1>1 DEF EisStartResets, EisStartClears, EisStartEnds
<1>2. CASE ImuOpens \/ ImuSetup \/ ImuSetupFails \/ ImuStarts
  BY <1>2 DEF ImuOpens, ImuSetup, ImuSetupFails, ImuStarts
<1>3. CASE ImuStops \/ ImuJoins
  BY <1>3 DEF ImuStops, ImuJoins
<1>4. CASE EisStops \/ EisJoins \/ EisStopClears
  BY <1>4 DEF EisStops, EisJoins, EisStopClears
<1>5. CASE PollEnds \/ PollSelects \/ PollReads
  BY <1>5 DEF PollEnds, PollSelects, PollReads
<1>6. CASE PollPushes \/ PollFills \/ PollPublishes
  BY <1>6 DEF PollPushes, PollFills, PollPublishes
<1>7. CASE Processor \/ UNCHANGED vars
  BY <1>7 DEF Processor
<1> QED
  BY <1>1, <1>2, <1>3, <1>4, <1>5, <1>6, <1>7 DEF Next, Controller, Poller

\* The polling thread reads only a sensor that was configured to the end.
THEOREM SensorIsReady == Spec => []PollsReadySensor
<1>1. Init => Driver
  BY DEF Init, Driver
<1>2. Driver => PollsReadySensor
  BY DEF Driver, PollsReadySensor
<1> QED
  BY <1>1, <1>2, DriverStep, PTL DEF Spec
-----------------------------------------------------------------------------
(* Places in the ring *)

\* Where the i-th oldest item is.
Place(i) == IF tail + i - 1 >= Capacity THEN tail + i - 1 - Capacity ELSE tail + i - 1

\* A number below the modulus is its own remainder.
LEMMA ModBelow ==
    ASSUME NEW c \in Nat \ {0}, NEW n \in Nat, n < c
    PROVE  n % c = n
OBVIOUS

\* A number below twice the modulus goes round once.
LEMMA ModOnce ==
    ASSUME NEW c \in Nat \ {0}, NEW n \in Nat, n >= c, n < 2 * c
    PROVE  n % c = n - c
OBVIOUS

\* Place is what Contents computes with a remainder.
LEMMA PlaceIsMod ==
    ASSUME tail \in Slots, NEW i \in 1..Capacity
    PROVE  (tail + i - 1) % Capacity = Place(i)
<1> DEFINE n == tail + i - 1
<1>1. Capacity \in Nat \ {0} /\ n \in Nat /\ n < 2 * Capacity
  BY CapacityAssumption DEF Slots
<1>2. CASE n < Capacity
  <2>1. n % Capacity = n
    BY <1>1, <1>2, ModBelow
  <2> QED
    BY <1>1, <1>2, <2>1 DEF Place
<1>3. CASE n >= Capacity
  <2> HIDE DEF n
  <2>1. n % Capacity = n - Capacity
    BY <1>1, <1>3, ModOnce, Zenon
  <2>2. Place(i) = n - Capacity
    BY <1>1, <1>3, CapacityAssumption DEF n, Place, Slots
  <2> QED
    BY <2>1, <2>2, Zenon DEF n
<1> QED
  BY <1>1, <1>2, <1>3

\* One slot always stays free.
LEMMA SizeType ==
    ASSUME head \in Slots, tail \in Slots
    PROVE  Size \in 0..(Capacity - 1)
BY CapacityAssumption DEF Slots, Size

\* A push puts its item behind the others.
LEMMA SizeGrows ==
    ASSUME head \in Slots, tail \in Slots, ~Full, head' = Successor(head), tail' = tail
    PROVE  Size' = Size + 1 /\ head = Place(Size + 1)
BY CapacityAssumption DEF Slots, Size, Full, Successor, Place

\* A pop takes the oldest and moves the others up by one.
LEMMA SizeShrinks ==
    ASSUME head \in Slots, tail \in Slots, ~Empty, tail' = Successor(tail), head' = head
    PROVE  /\ Size >= 1 /\ Size' = Size - 1
           /\ Place(1) = tail
           /\ \A i \in 1..(Size - 1) : Place(i)' = Place(i + 1)
BY CapacityAssumption DEF Slots, Size, Empty, Successor, Place

\* The slot at head_ holds none of the items.
LEMMA HeadIsFree ==
    ASSUME head \in Slots, tail \in Slots
    PROVE  \A i \in 1..Size : Place(i) \in Slots /\ Place(i) # head
BY CapacityAssumption DEF Slots, Size, Place

-----------------------------------------------------------------------------
(* Who is there when *)

\* The processor thread, its flag and the polling thread by the place of the controller;
\* from Start on nothing is left of the run before.
Phases ==
    /\ ctl \in {"off", "clearing", "creating", "stop_head", "stop_tail"} => wpc = "none"
    /\ running => wpc # "none"
    /\ ctl = "eis_join" => ~running
    /\ ctl \in {"clearing", "creating"} => head = 0 /\ accepted = <<>> /\ filtered = <<>>
    /\ ctl = "creating" => tail = 0

\* What every step keeps of it.
LEMMA PhasesStep ==
    ASSUME Phases, Driver, [Next]_vars
    PROVE  Phases'
<1> USE DEF Phases
<1>1. CASE EisStartResets
  BY <1>1 DEF EisStartResets, StartResets, ClearsHead
<1>2. CASE EisStartClears
  BY <1>2 DEF EisStartClears, ClearsTail
<1>3. CASE EisStartEnds
  BY <1>3 DEF EisStartEnds, StartCreates, StartCreateFails
<1>4. CASE ImuOpens \/ ImuSetup \/ ImuSetupFails \/ ImuStarts \/ ImuStops \/ ImuJoins
  BY <1>4 DEF ImuOpens, ImuSetup, ImuSetupFails, ImuStarts, ImuStops, ImuJoins
<1>5. CASE EisStops \/ EisJoins
  BY <1>5 DEF EisStops, EisJoins, StopClearsRunning, StopJoins
<1>6. CASE EisStopClears
  BY <1>6 DEF EisStopClears, ClearsHead, ClearsTail
<1>7. CASE PollEnds \/ PollSelects \/ PollReads
  BY <1>7 DEF PollEnds, PollSelects, PollReads
<1>8. CASE PollPushes
  BY <1>8 DEF PollPushes, PushNotRunning, PushCalibrates, PushDrops, PushRefused, PushBegins,
     PushFindsRoom
<1>9. CASE PollFills \/ PollPublishes
  <2>1. ctl \in {"up", "imu_join"} /\ UNCHANGED <<ctl, wpc, running>>
    BY <1>9 DEF Driver, PollFills, PollPublishes, PushFills, PushEnds
  <2> QED
    BY <2>1
<1>10. CASE Processor
  BY <1>10 DEF Processor, Worker, WorkerEnds, WorkerIdles, PopRefused, WorkerFinds,
     PopFindsItem, WorkerReads, WorkerReleases, PopReleases, WorkerFilters
<1>11. CASE UNCHANGED vars
  BY <1>11
<1> QED
  BY <1>1, <1>2, <1>3, <1>4, <1>5, <1>6, <1>7, <1>8, <1>9, <1>10, <1>11
     DEF Next, Controller, Poller

-----------------------------------------------------------------------------
(* The order of the samples *)

\* Samples that have left the ring.
Popped == Len(filtered) + (IF wpc = "popped" THEN 1 ELSE 0)

\* What Push has found and done between its steps.
Pushing ==
    /\ ppc \in {"room", "filled"} => pHead = head /\ ~Full
    /\ ppc = "filled" => slots[head] = sample

\* What Pop has found and done between its steps.
Popping ==
    /\ wpc \in {"found", "read"} => cTail = tail /\ ~Empty
    /\ wpc = "read" => item = slots[tail]
    /\ wpc = "popped" => item = accepted[Popped]

\* The accepted samples are those that left the ring and those in it, in their order.
Matching ==
    /\ Len(accepted) = Popped + Size
    /\ \A i \in 1..Len(filtered) : filtered[i].sample = accepted[i]
    /\ \A i \in 1..Size : slots[Place(i)] = accepted[Popped + i]

Order == Pushing /\ (wpc # "none" => Popping /\ Matching)

\* Nothing is pushed or popped before anything is started.
LEMMA OrderInit == Init => Phases /\ Order
BY DEF Init, EisInit, RingInit, Phases, Order, Pushing

\* What a step that leaves ring and histories alone keeps.
LEMMA MatchingStays ==
    ASSUME Matching, UNCHANGED <<head, tail, slots, accepted, filtered>>, Popped' = Popped
    PROVE  Matching'
<1>1. Size' = Size /\ \A i : Place(i)' = Place(i)
  BY DEF Size, Place
<1> QED
  BY <1>1 DEF Matching

\* What a step that leaves the processor alone as well keeps.
LEMMA OrderStays ==
    ASSUME Order, UNCHANGED <<ringVars, wpc, item, accepted, filtered>>,
           ppc' \in {"room", "filled"} => UNCHANGED <<ppc, sample>>
    PROVE  Order'
<1>1. Pushing'
  BY DEF Order, Pushing, Full
<1>2. Popped' = Popped
  BY DEF Popped
<1>3. wpc' # "none" => Popping' /\ Matching'
  BY <1>2, MatchingStays DEF Order, Popping, Empty
<1> QED
  BY <1>1, <1>3 DEF Order

\* Start creates the thread beside an empty ring; no other call of the controller finds a
\* thread and touches the ring.
LEMMA ControllerOrder ==
    ASSUME Phases, Driver, Order, Controller
    PROVE  Order'
<1>1. CASE EisStartResets \/ EisStartClears \/ EisStopClears \/ EisJoins
  <2>1. ppc' = "none" /\ wpc' = "none"
    BY <1>1 DEF Phases, Driver, EisStartResets, StartResets, EisStartClears, EisStopClears,
       EisJoins, StopJoins
  <2> QED
    BY <2>1 DEF Order, Pushing
<1>2. CASE EisStartEnds /\ StartCreates
  <2>1. ppc' = "none" /\ wpc' = "loop"
    BY <1>2 DEF Driver, EisStartEnds, StartCreates
  <2>2. head' = 0 /\ tail' = 0 /\ accepted' = <<>> /\ filtered' = <<>>
    BY <1>2 DEF Phases, EisStartEnds, StartCreates
  <2>3. Size' = 0 /\ Popped' = 0
    BY <2>1, <2>2 DEF Size, Popped
  <2>4. Matching'
    BY <2>2, <2>3 DEF Matching
  <2> QED
    BY <2>1, <2>4 DEF Order, Pushing, Popping
<1>3. CASE EisStartEnds /\ StartCreateFails
  BY <1>3, OrderStays DEF EisStartEnds, StartCreateFails
<1>4. CASE ImuOpens \/ ImuSetup \/ ImuSetupFails \/ ImuStarts \/ ImuStops \/ ImuJoins
  BY <1>4, OrderStays DEF ImuOpens, ImuSetup, ImuSetupFails, ImuStarts, ImuStops, ImuJoins
<1>5. CASE EisStops
  BY <1>5, OrderStays DEF EisStops, StopClearsRunning
<1> QED
  BY <1>1, <1>2, <1>3, <1>4, <1>5 DEF Controller, EisStartEnds

\* Push fills a slot that no item is in, then lets it be seen as the youngest.
LEMMA PollerOrder ==
    ASSUME RingTypeOK, WorkTypes, DriverTypes, Order, Poller
    PROVE  Order'
<1>1. CASE PollEnds \/ PollSelects \/ PollReads
  BY <1>1, OrderStays DEF PollEnds, PollSelects, PollReads
<1>2. CASE PollPushes /\ ~PushBegins(sample)
  BY <1>2, OrderStays DEF PollPushes, PushNotRunning, PushCalibrates, PushDrops, PushRefused
<1>3. CASE PollPushes /\ PushBegins(sample)
  <2>1. /\ UNCHANGED <<head, tail, slots, cTail, wpc, item, accepted, filtered>>
        /\ pHead' = head /\ ~Full /\ ppc' # "filled"
    BY <1>3 DEF PollPushes, PushBegins, PushFindsRoom, PushNotRunning, PushCalibrates, PushDrops,
       DriverTypes
  <2>2. Popped' = Popped
    BY <2>1 DEF Popped
  <2>3. Pushing'
    BY <2>1 DEF Pushing, Full
  <2> QED
    BY <2>1, <2>2, <2>3, MatchingStays DEF Order, Popping, Empty
<1>4. CASE PollFills
  <2>1. /\ UNCHANGED <<head, tail, pHead, cTail, wpc, item, accepted, filtered, sample>>
        /\ slots' = [slots EXCEPT ![head] = sample] /\ ~Full /\ pHead = head /\ ppc' = "filled"
    BY <1>4 DEF PollFills, PushFills, PushStores, Order, Pushing
  <2>2. head \in Slots /\ tail \in Slots /\ slots \in [Slots -> Items \cup {NoItem}]
    BY DEF RingTypeOK
  <2>3. slots'[head] = sample /\ \A j \in Slots \ {head} : slots'[j] = slots[j]
    BY <2>1, <2>2
  <2>4. Pushing'
    BY <2>1, <2>3 DEF Pushing, Full
  <2>5. Popped' = Popped /\ Size' = Size /\ \A i : Place(i)' = Place(i)
    BY <2>1 DEF Popped, Size, Place
  <2>6. \A i \in 1..Size : slots'[Place(i)] = slots[Place(i)]
    BY <2>2, <2>3, HeadIsFree
  <2>7. Matching => Matching'
    BY <2>1, <2>5, <2>6 DEF Matching
  <2>8. Popping => Popping'
    BY <2>1, <2>2, <2>3, <2>5 DEF Popping, Empty
  <2> QED
    BY <2>1, <2>4, <2>7, <2>8 DEF Order
<1>5. CASE PollPublishes
  <2>1. /\ UNCHANGED <<tail, slots, pHead, cTail, wpc, item, filtered, sample>>
        /\ head' = Successor(head) /\ ~Full /\ slots[head] = sample /\ ppc' = "loop"
        /\ accepted' = Append(accepted, sample)
    BY <1>5 DEF PollPublishes, PushEnds, PushPublishes, Order, Pushing
  <2>2. head \in Slots /\ tail \in Slots
    BY DEF RingTypeOK
  <2>3. Pushing'
    BY <2>1 DEF Pushing
  <2>4. Size' = Size + 1 /\ head = Place(Size + 1) /\ Size \in Nat
    BY <2>1, <2>2, SizeGrows, SizeType
  <2>5. Popped' = Popped /\ \A i : Place(i)' = Place(i)
    BY <2>1 DEF Popped, Place
  <2>6. Popped \in Nat /\ Len(filtered) <= Popped
    BY DEF WorkTypes, Popped
  <2>7. ASSUME wpc # "none" PROVE Matching'
    <3>1. Matching
      BY <2>7 DEF Order
    <3>2. /\ Len(accepted') = Len(accepted) + 1
          /\ \A i \in 1..Len(accepted) : accepted'[i] = accepted[i]
          /\ accepted'[Len(accepted) + 1] = sample
      BY <2>1 DEF WorkTypes
    <3>3. Len(accepted') = Popped' + Size'
      BY <2>4, <2>5, <2>6, <3>1, <3>2 DEF Matching
    <3>4. \A i \in 1..Len(filtered) : filtered'[i].sample = accepted'[i]
      BY <2>1, <2>4, <2>6, <3>1, <3>2 DEF Matching, WorkTypes
    <3>5. ASSUME NEW i \in 1..(Size + 1) PROVE slots'[Place(i)] = accepted'[Popped + i]
      <4>1. CASE i \in 1..Size
        BY <2>1, <2>4, <2>6, <3>1, <3>2, <4>1 DEF Matching
      <4>2. CASE i = Size + 1
        <5>1. Popped + i = Len(accepted) + 1
          BY <2>4, <2>6, <3>1, <4>2 DEF Matching
        <5> QED
          BY <2>1, <2>4, <3>2, <4>2, <5>1
      <4> QED
        BY <2>4, <4>1, <4>2
    <3> QED
      BY <2>1, <2>4, <2>5, <3>3, <3>4, <3>5 DEF Matching
  <2>8. ASSUME wpc # "none" PROVE Popping'
    <3>1. Popping /\ Matching
      BY <2>8 DEF Order
    <3>2. ~Empty => ~Empty'
      BY <2>1, <2>2, <2>4, SizeType DEF Empty, Full
    <3>3. wpc = "popped" => Popped \in 1..Len(accepted)
      BY <2>4, <2>6, <3>1 DEF Matching, Popped, WorkTypes
    <3>4. \A i \in 1..Len(accepted) : accepted'[i] = accepted[i]
      BY <2>1 DEF WorkTypes
    <3> QED
      BY <2>1, <2>5, <3>1, <3>2, <3>3, <3>4 DEF Popping
  <2> QED
    BY <2>1, <2>3, <2>7, <2>8 DEF Order
<1> QED
  BY <1>1, <1>2, <1>3, <1>4, <1>5 DEF Poller

\* Pop reads the oldest item while it is still in the ring, then lets its slot be used again.
LEMMA WorkerOrder ==
    ASSUME RingTypeOK, WorkTypes, Order, Processor
    PROVE  Order'
<1> USE DEF Processor
<1>0. wpc # "none" /\ Popping /\ Matching /\ Pushing
  BY DEF Worker, WorkerEnds, WorkerIdles, WorkerFinds, WorkerReads, WorkerReleases,
     WorkerFilters, Order
<1>1. CASE WorkerEnds \/ WorkerIdles \/ WorkerFinds \/ WorkerReads
  <2>1. /\ UNCHANGED <<head, tail, slots, pHead, accepted, filtered, ppc, sample>>
        /\ wpc # "popped" /\ wpc' # "popped"
    BY <1>1 DEF WorkerEnds, WorkerIdles, PopRefused, WorkerFinds, PopFindsItem, WorkerReads
  <2>2. Matching' /\ Pushing'
    BY <1>0, <2>1, MatchingStays DEF Popped, Pushing, Full
  <2>3. Popping'
    BY <1>0, <1>1, <2>1 DEF Popping, Empty, WorkerEnds, WorkerIdles, PopRefused, WorkerFinds,
       PopFindsItem, WorkerReads, PopRead
  <2> QED
    BY <2>2, <2>3 DEF Order
<1>2. CASE WorkerReleases
  <2>1. /\ UNCHANGED <<head, slots, pHead, item, accepted, filtered, ppc, sample>>
        /\ tail' = Successor(tail) /\ wpc = "read" /\ wpc' = "popped"
        /\ ~Empty /\ item = slots[tail]
    BY <1>0, <1>2 DEF WorkerReleases, PopReleases, Popping
  <2>2. head \in Slots /\ tail \in Slots
    BY DEF RingTypeOK
  <2>3. /\ Size >= 1 /\ Size' = Size - 1 /\ Size \in Nat
        /\ Place(1) = tail /\ \A i \in 1..(Size - 1) : Place(i)' = Place(i + 1)
    BY <2>1, <2>2, SizeShrinks, SizeType
  <2>4. Popped' = Popped + 1 /\ Popped \in Nat
    BY <2>1 DEF Popped, WorkTypes
  <2>5. Pushing'
    <3>1. ~Full'
      BY <2>1, <2>2, CapacityAssumption DEF Full, Empty, Successor, Slots
    <3> QED
      BY <1>0, <2>1, <3>1 DEF Pushing
  <2>6. Popping'
    <3>1. slots[Place(1)] = accepted[Popped + 1]
      BY <1>0, <2>3 DEF Matching
    <3> QED
      BY <2>1, <2>3, <2>4, <3>1 DEF Popping
  <2>7. Matching'
    <3>1. Len(accepted') = Popped' + Size'
      BY <1>0, <2>1, <2>3, <2>4 DEF Matching
    <3>2. ASSUME NEW i \in 1..(Size - 1) PROVE slots'[Place(i)'] = accepted'[Popped' + i]
      <4>1. slots[Place(i + 1)] = accepted[Popped + (i + 1)]
        BY <1>0, <2>3 DEF Matching
      <4> QED
        BY <2>1, <2>3, <2>4, <4>1
    <3> QED
      BY <1>0, <2>1, <2>3, <3>1, <3>2 DEF Matching
  <2> QED
    BY <2>5, <2>6, <2>7 DEF Order
<1>3. CASE \E dx \in Offsets : WorkerFilters(dx)
  <2>1. /\ UNCHANGED <<ringVars, item, accepted, ppc, sample>>
        /\ wpc = "popped" /\ wpc' = "loop"
        /\ filtered' = Append(filtered, [sample |-> item, bias |-> bias])
    BY <1>3 DEF WorkerFilters
  <2>2. /\ Len(filtered') = Len(filtered) + 1 /\ Len(filtered) \in Nat
        /\ \A i \in 1..Len(filtered) : filtered'[i] = filtered[i]
        /\ filtered'[Len(filtered) + 1] = [sample |-> item, bias |-> bias]
    BY <2>1 DEF WorkTypes
  <2>3. Popped = Len(filtered) + 1 /\ Popped' = Popped
    BY <2>1, <2>2 DEF Popped
  <2>4. filtered'[Len(filtered) + 1].sample = accepted[Len(filtered) + 1]
    BY <1>0, <2>1, <2>2, <2>3 DEF Popping
  <2>5. \A i \in 1..Len(filtered') : filtered'[i].sample = accepted'[i]
    BY <1>0, <2>1, <2>2, <2>4 DEF Matching
  <2>6. Size' = Size /\ \A i : Place(i)' = Place(i)
    BY <2>1 DEF Size, Place
  <2>7. Matching'
    BY <1>0, <2>1, <2>3, <2>5, <2>6 DEF Matching
  <2>8. Popping' /\ Pushing'
    BY <1>0, <2>1 DEF Popping, Pushing, Full
  <2> QED
    BY <2>7, <2>8 DEF Order
<1> QED
  BY <1>1, <1>2, <1>3 DEF Worker

\* The invariant that the order of the samples follows from.
OrderInv == Types /\ Driver /\ Phases /\ Order

\* It holds in every reachable state.
THEOREM OrderInvariance == Spec => []OrderInv
<1>1. Init => OrderInv
  BY TypeInit, OrderInit DEF OrderInv, Init, Driver
<1>2. OrderInv /\ [Next]_vars => OrderInv'
  <2> SUFFICES ASSUME OrderInv, [Next]_vars PROVE OrderInv'
    OBVIOUS
  <2>1. Types' /\ Driver' /\ Phases'
    BY TypeStep, DriverStep, PhasesStep DEF OrderInv
  <2>2. Order'
    <3>1. CASE Controller
      BY <3>1, ControllerOrder DEF OrderInv
    <3>2. CASE Poller
      BY <3>2, PollerOrder DEF OrderInv, Types
    <3>3. CASE Processor
      BY <3>3, WorkerOrder DEF OrderInv, Types
    <3>4. CASE UNCHANGED vars
      BY <3>4, OrderStays DEF OrderInv
    <3> QED
      BY <3>1, <3>2, <3>3, <3>4 DEF Next
  <2> QED
    BY <2>1, <2>2 DEF OrderInv
<1> QED
  BY <1>1, <1>2, PTL DEF Spec

\* Place by place the accepted samples are the three parts that SamplesInOrder names.
LEMMA OrderImplies == OrderInv => SamplesInOrder
<1> SUFFICES ASSUME OrderInv, wpc # "none"
             PROVE  accepted = Samples(filtered)
                               \o (IF wpc = "popped" THEN <<item>> ELSE <<>>) \o Contents
  BY DEF SamplesInOrder
<1> DEFINE hand == IF wpc = "popped" THEN <<item>> ELSE <<>>
           E == Numbers \cup Items \cup {NoItem}
<1>1. Popping /\ Matching /\ RingTypeOK /\ WorkTypes
  BY DEF OrderInv, Order, Types
<1>2. /\ Samples(filtered) \in Seq(E) /\ Len(Samples(filtered)) = Len(filtered)
      /\ \A i \in 1..Len(filtered) : Samples(filtered)[i] = filtered[i].sample
  <2>1. filtered \in Seq([sample : Items \cup {NoItem}, bias : Biases])
    BY <1>1 DEF WorkTypes
  <2>2. ASSUME NEW i \in 1..Len(filtered) PROVE filtered[i].sample \in E
    <3>1. filtered[i] \in [sample : Items \cup {NoItem}, bias : Biases]
      BY <2>1, ElementInSet
    <3> QED
      BY <3>1
  <2>3. DOMAIN filtered = 1..Len(filtered) /\ Len(filtered) \in Nat
    BY <2>1
  <2> QED
    BY <2>2, <2>3 DEF Samples
<1>3. /\ Contents \in Seq(E) /\ Len(Contents) = Size /\ Size \in Nat
      /\ \A i \in 1..Size : Contents[i] = slots[Place(i)]
  <2>1. head \in Slots /\ tail \in Slots /\ slots \in [Slots -> Items \cup {NoItem}]
    BY <1>1 DEF RingTypeOK
  <2>2. Size \in 0..(Capacity - 1) /\ 1..Size \subseteq 1..Capacity
    BY <2>1, SizeType, CapacityAssumption
  <2>3. \A i \in 1..Size : slots[(tail + i - 1) % Capacity] = slots[Place(i)]
    BY <2>1, <2>2, PlaceIsMod
  <2>4. \A i \in 1..Size : slots[Place(i)] \in E
    BY <2>1, HeadIsFree
  <2>5. Size \in Nat
    BY <2>2, CapacityAssumption
  <2>6. Contents = [i \in 1..Size |-> slots[Place(i)]]
    BY <2>3, Zenon DEF Contents
  <2> QED
    BY <2>4, <2>5, <2>6
<1>4. hand \in Seq(E) /\ Len(hand) = Popped - Len(filtered)
  <2>1. Len(filtered) \in Nat
    BY <1>1 DEF WorkTypes
  <2>2. CASE wpc = "popped"
    <3>1. item \in E
      BY <1>1 DEF WorkTypes
    <3> QED
      BY <2>1, <2>2, <3>1 DEF Popped
  <2>3. CASE wpc # "popped"
    <3>1. <<>> \in Seq(E) /\ Len(<<>>) = 0
      OBVIOUS
    <3> QED
      BY <2>1, <2>3, <3>1 DEF Popped
  <2> QED
    BY <2>2, <2>3
<1> DEFINE front == Samples(filtered) \o hand
<1>5. /\ front \in Seq(E) /\ Len(front) = Popped /\ Popped \in Nat
      /\ \A i \in 1..Popped : front[i] = accepted[i]
  <2>1. Popped \in Nat /\ Popped = Len(filtered) + Len(hand) /\ Len(filtered) \in Nat
    BY <1>1, <1>4 DEF WorkTypes, Popped
  <2>2. front \in Seq(E) /\ Len(front) = Popped
    BY <1>2, <1>4, <2>1, ConcatProperties
  <2>3. ASSUME NEW i \in 1..Len(filtered) PROVE front[i] = accepted[i]
    BY <1>1, <1>2, <1>4, <2>1, ConcatProperties DEF Matching
  <2>4. ASSUME NEW i \in (Len(filtered) + 1)..Popped PROVE front[i] = accepted[i]
    <3>1. wpc = "popped" /\ i = Popped /\ i = Len(filtered) + 1
      BY <2>1, <2>4 DEF Popped
    <3>2. front[i] = hand[1]
      BY <1>2, <1>4, <2>1, <3>1, ConcatProperties
    <3> QED
      BY <1>1, <3>1, <3>2 DEF Popping
  <2> QED
    BY <2>1, <2>2, <2>3, <2>4
<1> HIDE DEF front
<1>6. /\ front \o Contents \in Seq(E) /\ Len(front \o Contents) = Popped + Size
      /\ \A i \in 1..(Popped + Size) : (front \o Contents)[i] = accepted[i]
  <2>1. front \o Contents \in Seq(E) /\ Len(front \o Contents) = Popped + Size
    BY <1>3, <1>5, ConcatProperties
  <2>2. ASSUME NEW i \in 1..Popped PROVE (front \o Contents)[i] = accepted[i]
    BY <1>3, <1>5, ConcatProperties
  <2>3. ASSUME NEW i \in (Popped + 1)..(Popped + Size)
        PROVE  (front \o Contents)[i] = accepted[i]
    <3>0. i \in 1..(Popped + Size) /\ ~(i <= Popped) /\ i - Popped \in 1..Size
      BY <1>3, <1>5
    <3>1. (front \o Contents)[i] = Contents[i - Popped] /\ i - Popped \in 1..Size
      BY <1>3, <1>5, <3>0, ConcatProperties
    <3>2. slots[Place(i - Popped)] = accepted[Popped + (i - Popped)]
      BY <1>1, <3>1 DEF Matching
    <3>3. Popped + (i - Popped) = i
      BY <1>5
    <3> QED
      BY <1>3, <3>1, <3>2, <3>3
  <2> QED
    BY <1>3, <1>5, <2>1, <2>2, <2>3
<1>7. accepted \in Seq(E) /\ Len(accepted) = Popped + Size
  BY <1>1 DEF WorkTypes, Matching
<1>8. accepted = front \o Contents
  BY <1>6, <1>7, SeqEqual
<1> QED
  BY <1>8 DEF front

\* The ring loses, repeats and reorders no sample, in any interleaving of Push, Pop, Start
\* and Stop.
THEOREM OrderKept == Spec => []SamplesInOrder
BY OrderInvariance, OrderImplies, PTL

-----------------------------------------------------------------------------
(* The bias *)

\* The bias is of the samples counted, which are the first received.
Calibration ==
    /\ count <= Len(received) /\ (~calibrated => count = Len(received))
    /\ bias.of = {received[j] : j \in 1..count}
    /\ calibrated => count = kCalibrationSamples /\ bias.by = kCalibrationSamples
    /\ ~calibrated => accepted = <<>> /\ filtered = <<>>

\* No sample is both in the bias and on its way to the filter.
Apart ==
    /\ bias.of \subseteq 1..sensed
    /\ ppc \in {"sampled", "room", "filled"} => sample \in 1..sensed /\ sample \notin bias.of
    /\ ppc \in {"room", "filled"} => calibrated
    /\ \A i \in 1..Len(accepted) : accepted[i] \notin bias.of
    /\ \A i \in 1..Len(filtered) : filtered[i].bias = bias /\ filtered[i].sample \notin bias.of

BiasInv == Calibration /\ Apart

\* Nothing is counted before anything is started.
LEMMA BiasInit == Init => BiasInv
<1> SUFFICES ASSUME Init PROVE BiasInv
  OBVIOUS
<1>1. /\ count = 0 /\ bias = NoBias /\ ~calibrated /\ ppc = "none"
      /\ received = <<>> /\ accepted = <<>> /\ filtered = <<>>
  BY DEF Init, EisInit
<1> QED
  BY <1>1 DEF BiasInv, Calibration, Apart, NoBias

\* A step that touches neither the calibration nor the histories, and hands on no new sample.
LEMMA BiasStays ==
    ASSUME BiasInv, UNCHANGED <<biasVars, received, accepted, filtered, sensed>>,
           ppc' \in {"sampled", "room", "filled"} =>
             /\ sample' = sample /\ ppc \in {"sampled", "room", "filled"}
             /\ ppc' \in {"room", "filled"} => ppc \in {"room", "filled"}
    PROVE  BiasInv'
BY DEF BiasInv, Calibration, Apart

\* Until the calibration is complete samples go into the bias, and none goes on; then it
\* stays as it is.
LEMMA PushesBias ==
    ASSUME BiasInv, Types, PollPushes
    PROVE  BiasInv'
<1>1. /\ sample \in 1..sensed /\ sample \notin bias.of /\ sample \in Numbers
      /\ received \in Seq(Numbers) /\ count \in Nat /\ kCalibrationSamples \in Nat
  BY CalibrationAssumption DEF BiasInv, Apart, PollPushes, Types, DriverTypes, BiasTypes
<1>2. CASE PushNotRunning /\ ppc' = "loop"
  BY <1>2, BiasStays DEF PollPushes, PushNotRunning
<1>3. CASE PushCalibrates(sample) /\ ppc' = "loop"
  <2>1. /\ ~calibrated /\ count' = count + 1 /\ received' = Append(received, sample)
        /\ bias' = [of |-> bias.of \cup {sample}, by |-> IF Complete THEN count' ELSE 0]
        /\ calibrated' = Complete /\ UNCHANGED <<accepted, filtered, sensed>>
    BY <1>3 DEF PollPushes, PushCalibrates
  <2>2. count = Len(received) /\ Len(received') = count' /\ count' \in Nat
        /\ received'[count'] = sample /\ \A j \in 1..count : received'[j] = received[j]
    BY <1>1, <2>1 DEF BiasInv, Calibration
  <2>3. 1..count' = 1..count \cup {count'}
    BY <1>1, <2>1
  <2>4. bias'.of = {received'[j] : j \in 1..count'}
    BY <2>1, <2>2, <2>3 DEF BiasInv, Calibration
  <2>5. calibrated' => count' = kCalibrationSamples /\ bias'.by = kCalibrationSamples
    <3>1. count < kCalibrationSamples
      BY <2>1 DEF Types, BiasTypes
    <3>2. Complete => count' = kCalibrationSamples /\ bias'.by = kCalibrationSamples
      BY <1>1, <2>1, <3>1 DEF Complete
    <3>3. calibrated' => Complete
      BY <2>1, Zenon
    <3> QED
      BY <3>2, <3>3
  <2>6. accepted' = <<>> /\ filtered' = <<>>
    BY <2>1 DEF BiasInv, Calibration
  <2>7. Calibration'
    BY <2>2, <2>4, <2>5, <2>6 DEF Calibration
  <2>8. Apart'
    BY <1>1, <1>3, <2>1, <2>6 DEF BiasInv, Apart
  <2> QED
    BY <2>7, <2>8 DEF BiasInv
<1>4. CASE (PushDrops(sample) /\ ppc' = "loop") \/ (PushBegins(sample) /\ ppc' = "room")
  <2>1. /\ calibrated /\ UNCHANGED <<biasVars, accepted, filtered, sensed, sample>>
        /\ received' = Append(received, sample)
    BY <1>4 DEF PollPushes, PushDrops, PushBegins
  <2>2. count \in 0..Len(received) /\ Len(received') = Len(received) + 1
    BY <1>1, <2>1 DEF BiasInv, Calibration
  <2>3. \A j \in 1..count : received'[j] = received[j]
    BY <1>1, <2>1, <2>2
  <2>4. {received'[j] : j \in 1..count} = {received[j] : j \in 1..count}
    BY <2>3
  <2>5. Calibration'
    BY <1>1, <2>1, <2>2, <2>4 DEF BiasInv, Calibration
  <2>6. Apart'
    BY <1>1, <1>4, <2>1 DEF BiasInv, Apart
  <2> QED
    BY <2>5, <2>6 DEF BiasInv
<1> QED
  BY <1>2, <1>3, <1>4 DEF PollPushes

\* What is filtered was accepted, so it came after the calibration and finds it complete.
LEMMA FilterBias ==
    ASSUME BiasInv, OrderInv, NEW dx \in Offsets, WorkerFilters(dx),
           UNCHANGED <<ctl, starts, imuVars>>
    PROVE  BiasInv'
<1>1. /\ UNCHANGED <<biasVars, received, accepted, sensed, ppc, sample>> /\ wpc = "popped"
      /\ filtered' = Append(filtered, [sample |-> item, bias |-> bias])
  BY DEF WorkerFilters
<1>2. /\ Popping /\ Matching /\ filtered \in Seq([sample : Items \cup {NoItem}, bias : Biases])
      /\ head \in Slots /\ tail \in Slots
  BY <1>1 DEF OrderInv, Order, Types, WorkTypes, RingTypeOK
<1>3. Size \in Nat
  BY <1>2, SizeType, CapacityAssumption
<1>4. Popped \in 1..Len(accepted) /\ item = accepted[Popped]
  BY <1>1, <1>2, <1>3 DEF Popped, Popping, Matching
<1>5. item \notin bias.of /\ calibrated
  <2>1. item \notin bias.of
    BY <1>4 DEF BiasInv, Apart
  <2>2. accepted # <<>>
    BY <1>4
  <2> QED
    BY <2>1, <2>2 DEF BiasInv, Calibration
<1>6. /\ Len(filtered') = Len(filtered) + 1 /\ Len(filtered) \in Nat
      /\ \A i \in 1..Len(filtered) : filtered'[i] = filtered[i]
      /\ filtered'[Len(filtered) + 1] = [sample |-> item, bias |-> bias]
  BY <1>1, <1>2
<1>7. Calibration'
  BY <1>1, <1>5 DEF BiasInv, Calibration
<1>8. \A i \in 1..Len(filtered') : filtered'[i].bias = bias' /\ filtered'[i].sample \notin bias'.of
  BY <1>1, <1>5, <1>6 DEF BiasInv, Apart
<1>9. Apart'
  BY <1>1, <1>8 DEF BiasInv, Apart
<1> QED
  BY <1>7, <1>9 DEF BiasInv

\* Start begins a new calibration, and no other step but a push changes it.
LEMMA BiasStep ==
    ASSUME BiasInv, OrderInv, [Next]_vars
    PROVE  BiasInv'
<1>1. CASE EisStartResets
  <2>1. /\ count' = 0 /\ bias' = NoBias /\ calibrated' = FALSE /\ ppc' = "none"
        /\ received' = <<>> /\ accepted' = <<>> /\ filtered' = <<>>
    BY <1>1 DEF OrderInv, Driver, EisStartResets, StartResets, ResetBias
  <2> QED
    BY <2>1 DEF BiasInv, Calibration, Apart, NoBias
<1>2. CASE EisStartClears \/ EisStopClears
  BY <1>2, BiasStays DEF EisStartClears, EisStopClears
<1>3. CASE EisStartEnds
  BY <1>3, BiasStays DEF EisStartEnds, StartCreates, StartCreateFails
<1>4. CASE ImuOpens \/ ImuSetup \/ ImuSetupFails \/ ImuStarts \/ ImuStops \/ ImuJoins
  BY <1>4, BiasStays DEF ImuOpens, ImuSetup, ImuSetupFails, ImuStarts, ImuStops, ImuJoins
<1>5. CASE EisStops \/ EisJoins
  BY <1>5, BiasStays DEF EisStops, EisJoins, StopClearsRunning, StopJoins
<1>6. CASE PollEnds \/ PollSelects
  BY <1>6, BiasStays DEF PollEnds, PollSelects
<1>7. CASE PollReads
  <2>1. CASE ppc' = "loop"
    BY <1>7, <2>1, BiasStays DEF PollReads
  <2>2. CASE ppc' = "sampled"
    <3>1. /\ UNCHANGED <<biasVars, received, accepted, filtered>>
          /\ sensed' = sensed + 1 /\ sample' = sensed'
      BY <1>7, <2>2 DEF PollReads
    <3>2. sensed \in Nat
      BY GyroBounds DEF OrderInv, Types, DriverTypes
    <3>3. Calibration'
      BY <3>1 DEF BiasInv, Calibration
    <3>4. bias'.of \subseteq 1..sensed' /\ sample' \in 1..sensed' /\ sample' \notin bias'.of
      BY <3>1, <3>2 DEF BiasInv, Apart
    <3>5. Apart'
      BY <2>2, <3>1, <3>4 DEF BiasInv, Apart
    <3> QED
      BY <3>3, <3>5 DEF BiasInv
  <2> QED
    BY <1>7, <2>1, <2>2 DEF PollReads
<1>8. CASE PollPushes
  BY <1>8, PushesBias DEF OrderInv
<1>9. CASE PollFills
  BY <1>9, BiasStays DEF PollFills, PushFills
<1>10. CASE PollPublishes
  <2>1. /\ UNCHANGED <<biasVars, received, filtered, sensed, sample>>
        /\ ppc = "filled" /\ ppc' = "loop" /\ accepted' = Append(accepted, sample)
    BY <1>10 DEF PollPublishes, PushEnds
  <2>2. accepted \in Seq(Numbers)
    BY DEF OrderInv, Types, WorkTypes
  <2>3. calibrated /\ sample \notin bias.of
    BY <2>1 DEF BiasInv, Apart
  <2>4. Calibration'
    BY <2>1, <2>3 DEF BiasInv, Calibration
  <2>5. \A i \in 1..Len(accepted') : accepted'[i] \notin bias.of
    BY <2>1, <2>2, <2>3 DEF BiasInv, Apart
  <2>6. Apart'
    BY <2>1, <2>5 DEF BiasInv, Apart
  <2> QED
    BY <2>4, <2>6 DEF BiasInv
<1>11. CASE Processor
  <2>1. CASE WorkerEnds \/ WorkerIdles \/ WorkerFinds \/ WorkerReads \/ WorkerReleases
    BY <1>11, <2>1, BiasStays DEF Processor, WorkerEnds, WorkerIdles, WorkerFinds, WorkerReads,
       WorkerReleases
  <2>2. CASE \E dx \in Offsets : WorkerFilters(dx)
    BY <1>11, <2>2, FilterBias DEF Processor
  <2> QED
    BY <1>11, <2>1, <2>2 DEF Processor, Worker
<1>12. CASE UNCHANGED vars
  BY <1>12, BiasStays
<1> QED
  BY <1>1, <1>2, <1>3, <1>4, <1>5, <1>6, <1>7, <1>8, <1>9, <1>10, <1>11, <1>12
     DEF Next, Controller, Poller

\* A complete calibration is of the first kCalibrationSamples received.
LEMMA BiasImplies == OrderInv /\ BiasInv => BiasIsFinished
<1> SUFFICES ASSUME OrderInv, BiasInv, NEW i \in DOMAIN filtered
             PROVE  /\ filtered[i].bias.by = kCalibrationSamples
                    /\ filtered[i].bias.of = {received[j] : j \in 1..kCalibrationSamples}
                    /\ filtered[i].sample \notin filtered[i].bias.of
  BY DEF BiasIsFinished
<1>1. filtered \in Seq([sample : Items \cup {NoItem}, bias : Biases])
  BY DEF OrderInv, Types, WorkTypes
<1>2. i \in 1..Len(filtered) /\ filtered # <<>>
  BY <1>1
<1>3. filtered[i].bias = bias /\ filtered[i].sample \notin bias.of
  BY <1>2 DEF BiasInv, Apart
<1>4. calibrated
  BY <1>2 DEF BiasInv, Calibration
<1> QED
  BY <1>3, <1>4 DEF BiasInv, Calibration

\* Whatever the interleaving of the polling thread, the processor and the controller, no
\* sample is corrected by an unfinished bias or by one of another run.
THEOREM BiasFinished == Spec => []BiasIsFinished
<1>1. BiasInv /\ OrderInv /\ [Next]_vars => BiasInv'
  BY BiasStep
<1> QED
  BY <1>1, BiasInit, BiasImplies, OrderInvariance, PTL DEF Spec
================================================================================
