------------------------------ MODULE EccClient ------------------------------
(* src/runcontrol/EccClient.cpp: what each routine of the client asks of the  *)
(* ECC server.  A routine is the sequence of its accesses: remote calls that  *)
(* select a node, a device, boards or chips, and reads and writes of the      *)
(* registers of what is selected.  Nothing is kept in the client but the two  *)
(* masks of the CoBo it works on, the argument cl of the routines below.      *)
(*                                                                            *)
(* An access has a field "rest", which says what the code does when it fails: *)
(* Raise ends the program, a number n goes on n accesses later, behind the    *)
(* block whose catch clause swallows the error.  The value written is only    *)
(* told apart as the configured one (good) or any other; consecutive writes   *)
(* of a routine to one device are one access to a group of registers.         *)
EXTENDS Integers, Sequences, FiniteSets

AsAds == 0..3
ChipsOf(i) == (4 * i)..(4 * i + 3)
Chips == 0..15

Raise == -1
NoCoBo == -1
All == -1
Access(op, dev, arg) == << [op |-> op, dev |-> dev, arg |-> arg, rest |-> Raise,
                            cobo |-> NoCoBo, board |-> All, chip |-> All] >>

\* What the accesses of s are meant for: CoBo c, the AsAd board i, the AGET
\* chip k.  No call names its target, it reaches what has been selected.
On(c, s) == [n \in DOMAIN s |-> [s[n] EXCEPT !.cobo = c]]
OnBoard(i, s) == [n \in DOMAIN s |-> [s[n] EXCEPT !.board = i]]
OnChip(k, s) == [n \in DOMAIN s |-> [s[n] EXCEPT !.chip = k]]

\* Blocks.  Try swallows the errors of s, TryElse runs h after one of them and
\* TryReturn leaves out h after one of them.
OnError(s, skipped) ==
    [k \in DOMAIN s |-> IF s[k].rest = Raise
                        THEN [s[k] EXCEPT !.rest = Len(s) - k + 1 + skipped] ELSE s[k]]
Try(s) == OnError(s, 0)
TryReturn(s, h) == OnError(s, Len(h)) \o h
Jump(n) == Access("jump", "none", n)
TryElse(s, h) == Try(s \o Jump(Len(h))) \o h
When(cond, s) == IF cond THEN s ELSE << >>
Throw == Access("throw", "none", 0)
EachAsAd(Body(_)) == Body(0) \o Body(1) \o Body(2) \o Body(3)
EachChip(i, Body(_)) == Body(4 * i) \o Body(4 * i + 1) \o Body(4 * i + 2) \o Body(4 * i + 3)

\* A write reaches what the device has selected (Reach), the chip that the
\* mask selector names (Masked) or one named chip; the CoBo itself is Whole.
Reach == -1
Masked == -2
Whole == -1
Write(op, dev, groups, good, of) ==
    Access(op, dev, [groups |-> groups, good |-> good, of |-> of])
Put(dev, groups) == Write("write", dev, groups, TRUE, Reach)
Alter(dev, groups) == Write("write", dev, groups, FALSE, Reach)
PutField(dev, group) == Write("field", dev, {group}, TRUE, Reach)
AlterField(dev, group) == Write("field", dev, {group}, FALSE, Reach)
Setting(group) == Put("node", {group})

\* Mutant: the node of the first CoBo, whichever is asked for
ConnectFirstNode(c) == Access("node", "server", 0)
ConnectNode(c) == Access("node", "server", c)
RemoveAllNodes == Access("removeAll", "server", 0)
Device(d) == Access("device", "node", d)
Read(dev) == Access("read", dev, 0)
Pulse(S) == Access("pulse", "ctrl", S)
HitRegister(b) == Access("hitRegister", "ctrl", b)
Enable(S) == Access("enable", "ctrl", S)

LoadHwDescription(c) == ConnectNode(c) \o Access("describe", "node", 0)
DaqConnect == Access("router", "node", 0)
CheckHardwareVersion == Device("ctrl") \o Try(Read("ctrl"))
CheckFirmwareRelease == Device("ctrl") \o Try(Read("ctrl"))
SetCoBoInitDone(b) == Try(Device("ctrl") \o Access("initDone", "ctrl", b))
SetCoBoMutantMode == Try(Device("ctrl") \o Put("ctrl", {"mutantMode"}))

\* ---- boards: selection, power, calibration and monitoring of the AsAds
SetAgetSlowControlMask(S) == Device("ctrl") \o Enable(S)
SetAsAdSlowControlMask(S) == Device("ctrl") \o Try(Access("select", "ctrl", S))
\* Mutant: the number of the board for that of the chip
SelectBoardForRead(k) == Device("ctrl") \o Access("chip", "ctrl", 4 * k)
SelectAgetForRead(k) == Device("ctrl") \o Access("chip", "ctrl", k)
SelectAsAdForRead(i) == Device("ctrl") \o Access("asad", "ctrl", i)
\* Mutants: only one of the two selections
SelectAsAdToReadOnly(i) == SelectAsAdForRead(i)
SelectAsAdToWriteOnly(i) == SetAsAdSlowControlMask({i})
SelectAsAdForSlowControl(i) == SetAsAdSlowControlMask({i}) \o SelectAsAdForRead(i)
IsAsAdConnected == Device("ctrl") \o Read("ctrl")
GetAsAdAlarmFlag == Device("ctrl") \o Read("ctrl")
IsAsAdPoweredOn == Device("ctrl") \o Read("ctrl")
GetAsAdAlertStatus == Device("asad") \o Read("asad")
AsAdPowerStatus == IsAsAdConnected \o GetAsAdAlarmFlag \o IsAsAdPoweredOn

PipeInit == Device("ctrl")
            \o Alter("ctrl", {"mem2p", "readout", "testMode", "zeroSuppression", "firmware",
                              "scrScw"})
TriggerInit == Device("ctrl")
               \o Alter("ctrl", {"readDataDelay", "triggerDelay", "2p", "multThreshold",
                                 "multThreshold2p", "multWindow", "triggerPeriod", "trigger",
                                 "readDepth"})
               \o Write("write", "ctrl", {"readAlways", "readIfHit"}, FALSE, Masked)

Buffer(i, first, last) ==
    Access("buffer", "ctrl", [asad |-> i, start |-> first, end |-> last])
\* 4 buffers of 32 MiB above 128 MiB
CircularBufferInit ==
    Device("ctrl") \o EachAsAd(LAMBDA i : Buffer(i, 128 + 32 * i, 160 + 32 * i))
    \o Try(Alter("ctrl", {"interruptRate"})) \o Alter("ctrl", {"bufferLevels"})

\* The board's flags are read before and after power on: a read that fails
\* stands also for the exceptions that their values lead to.
AsAdInit(cl, connected) ==
    LET Board(i) ==
            IsAsAdConnected
            \o When(i \in connected, SetAsAdSlowControlMask({i}) \o SelectAsAdForRead(i)
                                     \o GetAsAdAlertStatus)
            \o Device("ctrl") \o Access("powerOff", "ctrl", i)
            \o When(i \in cl.asads,
                    IsAsAdConnected \o When(i \notin connected, Throw) \o GetAsAdAlarmFlag
                    \o Access("powerOn", "ctrl", i) \o AsAdPowerStatus)
    IN  Device("ctrl") \o Alter("ctrl", {"asadController"}) \o EachAsAd(Board)

AsAdSetBoardUserID == Device("asad") \o Put("asad", {"userID"})
\* The first byte is the user's: when it cannot be read it does not match the
\* one just written and the program ends.  Errors of the other three are lost.
AsAdGetIdentifier == Device("asad") \o Read("asad") \o Try(Read("asad"))
AsAdCal(cl) ==
    LET Board(i) == When(i \in cl.asads,
                         OnBoard(i, SelectAsAdForSlowControl(i) \o Device("asad") \o Read("asad")
                                    \o AsAdSetBoardUserID \o AsAdGetIdentifier))
    IN  SetAsAdSlowControlMask(cl.asads) \o Device("ctrl") \o Put("ctrl", {"asadController"})
        \o EachAsAd(Board) \o SetAsAdSlowControlMask(cl.asads)

AsAdSetAgetInputProtections(cl) ==
    SetAsAdSlowControlMask(cl.asads) \o Device("asad") \o Alter("asad", {"inputs"})
AsAdConfigureAgetInputs == Device("asad") \o Put("asad", {"adcPower"}) \o Put("asad", {"inputs"})
SetAsAdLcm1Register == Device("asad") \o Put("asad", {"LCM1"})
SetAsAdLcm2Register == Device("asad") \o Put("asad", {"LCM2"})
AsAdMonitoringStop == Device("asad") \o Alter("asad", {"monitoring"})
AsAdMonitoringReset == Device("asad") \o GetAsAdAlertStatus \o Alter("asad", {"monitoring"})
AsAdDisableAutoProtection == Device("asad") \o Alter("asad", {"protection"})
AsAdSetAutoProtectionLevel == Device("asad") \o Put("asad", {"protection"})
AsAdSetMonitoringMode(good) ==
    Device("asad") \o (IF good THEN Put("asad", {"monitoring"}) ELSE Alter("asad", {"monitoring"}))
WriteLimits(group) == Try(Device("asad") \o Put("asad", {group}))
ReadSensor(i) == Try(Device("ctrl") \o Access("asad", "ctrl", i) \o Device("asad") \o Read("asad"))
AsAdSetISPM == Device("asad") \o Put("asad", {"ISPM"})

\* TRG: the pulser is triggered from outside
AsAdConfigureTcmDevice(TRG) ==
    Device("asad") \o PutField("asad", "TCM0") \o Setting("pulserDefault")
    \o When(TRG, Device("asad") \o PutField("asad", "TCM0") \o Setting("pulserTrigger"))
    \o Setting("pulserExternal")

AdcReset == Device("asad") \o Alter("asad", {"adcPower", "adcMode"})
AdcTest == Device("asad") \o Alter("asad", {"adcMode"})
AdcCal == Device("asad") \o Alter("asad", {"adcMode"}) \o Device("ctrl") \o Alter("ctrl", {"deskew"})
          \o Device("asad") \o Alter("asad", {"adcMode"})
          \o Device("ctrl") \o Alter("ctrl", {"bitSlip"})
\* Mutant: it ends with another device
AsAdAdcInitFirst(cl) == SetAsAdSlowControlMask(cl.asads) \o AdcReset
                        \o Device("asad") \o Put("asad", {"adcMode"}) \o AdcCal
AsAdAdcInit(cl) == SetAsAdSlowControlMask(cl.asads) \o AdcReset \o AdcCal
                   \o Device("asad") \o Put("asad", {"adcMode"})
\* It selects no device of its own.
AsAdDacInit == Put("asad", {"DAC"})

\* ---- AGET chips: switching between slow control and hit register mode
SwitchTo(hitRegister, cl) ==
    Enable({}) \o Pulse(cl.chips) \o HitRegister(hitRegister) \o Access("fire", "ctrl", 0)
    \o Enable(cl.chips) \o Pulse({})
SwitchToFastControl(cl) == Device("ctrl") \o SwitchTo(TRUE, cl)
\* Mutant: the bit of fast control
SwitchToSlowControlWrong(cl) == Device("ctrl") \o Put("ctrl", {"firmware"}) \o SwitchTo(TRUE, cl)
SwitchToSlowControl(cl) == Device("ctrl") \o Put("ctrl", {"firmware"}) \o SwitchTo(FALSE, cl)

\* An unknown version ends the program as a read that fails does.
PrintAgetChipVersionNumbers(cl) ==
    SwitchToSlowControl(cl)
    \o EachAsAd(LAMBDA i : EachChip(i, LAMBDA k :
           When(k \in cl.chips, SelectAgetForRead(k) \o Device("aget") \o Read("aget"))))
CoboSetCalibrationAgetChips == Try(Device("ctrl") \o Put("ctrl", {"calibrationAget"}))
AgetCal(cl) ==
    LET WriteHit(S) == Pulse(S) \o HitRegister(TRUE) \o Device("aget")
                       \o Alter("aget", {"hit"}) \o Device("ctrl")
        ReadVersion == Pulse(cl.chips) \o HitRegister(FALSE) \o Device("aget")
                       \o Read("aget") \o Device("ctrl")
    IN  CoboSetCalibrationAgetChips \o AdcReset \o AdcTest
        \o Device("ctrl") \o Enable(cl.chips) \o ReadVersion \o ReadVersion
        \o WriteHit(cl.chips) \o WriteHit({}) \o ReadVersion
        \o PrintAgetChipVersionNumbers(cl)
AgetInit(cl) ==
    Device("ctrl") \o SetAgetSlowControlMask(cl.chips) \o Read("ctrl")
    \o SetAsAdSlowControlMask(cl.asads)
    \o Device("asad") \o Alter("asad", {"resetFast"})
    \o AgetCal(cl)
    \o Device("aget") \o AlterField("aget", "reg1") \o Device("ctrl") \o Put("ctrl", {"initSCA"})
AgetRegWSC(k, reg, good) ==
    Try(Device("ctrl") \o Enable({k}) \o Device("aget")
        \o Write("write", "aget", {reg}, good, Reach))
AgetRegRSC(k) == Device("ctrl") \o Access("chip", "ctrl", k) \o Device("aget")
EnableFPNRead == Device("ctrl") \o Put("ctrl", {"FPN"}) \o Device("aget") \o AlterField("aget", "reg1")
\* The field and, when the description does not know it, its new name
CalibrateAutoReadDataDelay(cl) ==
    Device("ctrl") \o Enable(cl.chips) \o Device("aget") \o Alter("aget", {"reg1", "reg2"})
    \o Device("ctrl") \o TryElse(Alter("ctrl", {"autoDelay"}), Alter("ctrl", {"autoDelay"}))
    \o Alter("ctrl", {"scrScw", "firmware"}) \o Put("ctrl", {"firmware"}) \o Put("ctrl", {"scrScw"})
AsAdSetAutoReadDataDelayEnabled ==
    Device("ctrl") \o TryElse(Put("ctrl", {"autoDelay"}), Put("ctrl", {"autoDelay"}))

\* The three masks of the chip that maskSelect names
SetReadMask(k, group) == Device("ctrl") \o Access("mask", "ctrl", k)
                         \o Write("write", "ctrl", {group}, TRUE, Masked)
ZeroSuppress(i) == <<"zeroSuppress", "zeroSuppress_AsAd1", "zeroSuppress_AsAd2",
                     "zeroSuppress_AsAd3">>[i + 1]
SetCoBoZeroSuppressionThreshold(k) ==
    LET dev == ZeroSuppress(k \div 4)
    IN  Device(dev) \o Write("write", dev, {"zeroThreshold"}, TRUE, k)

\* ---- registers of the CoBo
SetCtrl(group) == Device("ctrl") \o Put("ctrl", {group})
SetCtrlIfKnown(group) == Device("ctrl") \o Try(Put("ctrl", {group}))
SetCoBoLemoMode(l) == SetCtrl("lemo")
SetReadDataDelay == SetCtrl("readDataDelay")
SetThreshold(group) == SetCtrl(group)
SetWriteHitRegisterEnabled == SetCtrl("writeHit")
AcqTestMode == SetCtrl("testMode")
SetCoBoReadDepth == SetCtrl("readDepth")
SetCoBoReadOffset == SetCtrlIfKnown("readOffset")
SetFullReadOutMode == SetCtrl("readout")
TriggerTimes == SetCtrl("triggerDelay") \o SetCtrl("2p") \o SetCtrl("2p") \o SetCtrl("2p")
                \o SetCtrl("2p")
SetCoBoReadingClockFrequency(valid) ==
    Device("ctrl") \o (IF valid THEN Put("ctrl", {"ckr"}) ELSE Throw)
SetWritingClockFrequency == Setting("ckw")
Aget2pInitNow == SetCtrl("init2p")
SetTriggerMode == SetCtrl("trigger")
SetSecondaryTriggerMode ==
    Device("ctrl") \o TryReturn(Alter("ctrl", {"secondaryTrigger"}), Put("ctrl", {"secondaryTrigger"}))
SetCoBoZeroSuppressionMode ==
    Device("ctrl") \o Put("ctrl", {"zeroSuppression"}) \o Try(Put("ctrl", {"zeroInvert"}))
SetAsAdCircularBuffer(i, first, last) == Device("ctrl") \o Buffer(i, first, last)
SetCircularBufferCommonParameters ==
    Try(Put("ctrl", {"interruptRate"})) \o Put("ctrl", {"bufferLevels"})

\* The memory is shared out among the active boards, those of 3 get a quarter
\* each; a board that is not active gets an empty buffer.
Shares(asads) == LET n == Cardinality(asads) IN IF n = 3 THEN 4 ELSE n
BufferSize(asads, first, last) == (last - first) \div Shares(asads)
BufferStart(asads, i, first, last) ==
    first + Cardinality({j \in asads : j < i}) * BufferSize(asads, first, last)
\* Mutant: every board has a buffer
BufferEndOfAll(asads, i, first, last) ==
    BufferStart(asads, i, first, last) + BufferSize(asads, first, last)
BufferEnd(asads, i, first, last) ==
    BufferStart(asads, i, first, last)
        + (IF i \in asads THEN BufferSize(asads, first, last) ELSE 0)
SetCircularBuffers(cl, first, last) ==
    IF cl.asads = {} THEN Throw      \* the division by 0 ends the program
    ELSE Device("ctrl")
         \o TryElse(EachAsAd(LAMBDA i : Buffer(i, BufferStart(cl.asads, i, first, last),
                                                  BufferEnd(cl.asads, i, first, last))),
                    Put("ctrl", {"memory"}))

\* ---- data acquisition
DaqStart(cl) == Device("ctrl") \o Put("ctrl", {"resetTime"}) \o Access("daqStart", "node", 0)
                \o SwitchToFastControl(cl)
DaqSetCircularBuffersEnabled == Setting("circularBuffers")
StartPulser == Access("startPulser", "node", 0)
StopPulser == Access("stopPulser", "node", 0)
\* Mutant: only the pulser is stopped
DaqStopPulser == StopPulser
DaqStop == StopPulser \o Access("daqStop", "node", 0)
=============================================================================
