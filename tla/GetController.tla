---------------------------- MODULE GetController ----------------------------
(* src/runcontrol/GetController.cpp: the order in which loadHw and configure  *)
(* go through the routines of the ECC client, and the programs of             *)
(* src/runcontrol that call them.                                             *)
EXTENDS EccClient, SequencesExt

\* What the condition file and the hardware say of each CoBo, as far as the
\* order of the accesses depends on it:
\*   active, asads, chips   what is marked active, the chips numbered 0 to 15
\*   connected              the AsAd boards plugged in
\*   version                of the hardware, as the CoBo reports it
\*   validClock             the reading clock frequency is one the CoBo has
\*   calibrate              calibrateAutoReadDataDelay
\*   scCheck, zeros         the chips whose registers are read back, and the
\*                          registers whose configured value is 0
\*   suppress, partial      the chips with suppressMultiplicity, and those
\*                          without isAllChannelRead
\*   external, periodic     modes of the pulser
\*   inspected              the boards with inspection lines
\*   memory, own            the limits of the circular buffers' memory, in MiB, and
\*                          those of the boards that have limits of their own
\* AgetRegisters are the registers of a chip but reg12, in the order they are set;
\* the hit register is none of them.
CONSTANTS Config, AgetRegisters
ASSUME RegistersAssumption ==
    AgetRegisters \in Seq(STRING) /\ \A n \in DOMAIN AgetRegisters : AgetRegisters[n] # "hit"

CoBos == DOMAIN Config
ASSUME MemoryAssumption ==
    \A c \in CoBos : /\ Config[c].memory.start \in Nat /\ Config[c].memory.end \in Nat
                     /\ \A i \in DOMAIN Config[c].own : /\ Config[c].own[i].start \in Nat
                                                        /\ Config[c].own[i].end \in Nat

IsAsadActive(c, i) == Config[c].active /\ i \in Config[c].asads
IsAgetActive(c, k) == IsAsadActive(c, k \div 4) /\ k \in Config[c].chips

\* setMasks
Masks(c) == [asads |-> {i \in AsAds : IsAsadActive(c, i)},
             chips |-> {k \in Chips : IsAgetActive(c, k)}]
EachActiveAsAd(c, Body(_)) == EachAsAd(LAMBDA i : When(IsAsadActive(c, i), OnBoard(i, Body(i))))
EachActiveAget(c, i, Body(_)) ==
    EachChip(i, LAMBDA k : When(IsAgetActive(c, k), OnChip(k, Body(k))))

SetCoBoLemoModes(c) ==
    When(Config[c].version >= 2,
         Try(SetCoBoLemoMode(0) \o SetCoBoLemoMode(1) \o SetCoBoLemoMode(2) \o SetCoBoLemoMode(3)))

\* ---- monitoring of the boards
SetLimits == AsAdMonitoringStop \o WriteLimits("TextLimits") \o WriteLimits("VddLimits")
             \o WriteLimits("IddLimits")
SetOperationalMode(alarms) == AsAdSetMonitoringMode(alarms)
\* The alarms are only enabled by asadAlertsInit.
AsAdMonitoringInit(c) ==
    EachActiveAsAd(c, LAMBDA i : SelectAsAdForSlowControl(i) \o AsAdMonitoringReset
                                 \o AsAdDisableAutoProtection \o SetLimits
                                 \o SetOperationalMode(FALSE))
    \o SetAsAdSlowControlMask(Masks(c).asads)
\* A reading is repeated until it is high enough: a failure here is one that
\* lasts, and ends the program.
AsAdMonitoringCheckVDD(c) ==
    EachActiveAsAd(c, LAMBDA i : Device("ctrl") \o Access("asad", "ctrl", i)
                                 \o Device("asad") \o Read("asad"))
AsAdAlertsInit(c) ==
    EachActiveAsAd(c, LAMBDA i : SelectAsAdForSlowControl(i) \o SetLimits
                                 \o AsAdSetAutoProtectionLevel \o SetOperationalMode(TRUE))
    \o SetAsAdSlowControlMask(Masks(c).asads)
SubscribeToAlarms == Try(Setting("alarmMonitoring") \o Setting("alarmService"))
ReadSensors(i) == ReadSensor(i) \o ReadSensor(i) \o ReadSensor(i) \o ReadSensor(i) \o ReadSensor(i)
\* The boards of CoBo b are read on the node of CoBo c.
AsAdMonitoringRead(c, b) ==
    SetAsAdSlowControlMask(Masks(c).asads) \o EachActiveAsAd(b, ReadSensors)

\* ---- loadHw
AsAdInitAndCal(c) ==
    AsAdInit(Masks(c), Config[c].connected) \o SetAsAdSlowControlMask(Masks(c).asads)
    \o AsAdCal(Masks(c)) \o AsAdMonitoringInit(c) \o AsAdMonitoringCheckVDD(c)
    \o AsAdSetAgetInputProtections(Masks(c))
AsAdSamplingClockInit(c) ==
    EachActiveAsAd(c, LAMBDA i : SelectAsAdForSlowControl(i) \o SetAsAdLcm1Register)
    \o SetAsAdSlowControlMask(Masks(c).asads)
\* It leaves the last board selected.
AsAdReadingClockInit(c) ==
    EachActiveAsAd(c, LAMBDA i : SelectAsAdForSlowControl(i) \o SetAsAdLcm2Register)
AsAdAgetInputManagerInit(c) ==
    EachActiveAsAd(c, LAMBDA i : SelectAsAdForSlowControl(i) \o AsAdConfigureAgetInputs)
    \o SetAsAdSlowControlMask(Masks(c).asads)
SetGlobalRegThreshold(k) == Try(AgetRegRSC(k) \o Read("aget")) \o AgetRegWSC(k, "reg1", FALSE)
InitializeGlobalThresholds(c) ==
    SetAgetSlowControlMask(Masks(c).chips)
    \o EachAsAd(LAMBDA i : EachActiveAget(c, i, SetGlobalRegThreshold))
SelectReadDataDelay(c) == EachActiveAsAd(c, LAMBDA i : AsAdSetAutoReadDataDelayEnabled)

LoadHw(c) == On(c,
    LoadHwDescription(c)
    \o SetCoBoInitDone(FALSE) \o SetCoBoMutantMode \o CheckHardwareVersion \o CheckFirmwareRelease
    \o PipeInit \o SetCoBoLemoModes(c) \o TriggerInit \o CircularBufferInit
    \o AsAdInitAndCal(c)
    \o SetWritingClockFrequency \o AsAdSamplingClockInit(c)
    \o SetCoBoReadingClockFrequency(Config[c].validClock) \o AsAdReadingClockInit(c)
    \o SetReadDataDelay
    \o AsAdAgetInputManagerInit(c) \o AgetInit(Masks(c)) \o AsAdAdcInit(Masks(c)) \o AsAdDacInit
    \o AsAdAlertsInit(c) \o SubscribeToAlarms \o AsAdMonitoringRead(c, 0)
    \o InitializeGlobalThresholds(c)
    \o When(Config[c].active /\ Config[c].calibrate, CalibrateAutoReadDataDelay(Masks(c)))
    \o SelectReadDataDelay(c)
    \o DaqConnect)

\* ---- configure
\* wrong: where it goes on if the register is not as it was written
ReadBack(k, reg, wrong) == AgetRegRSC(k) \o Access("check", "aget", [reg |-> reg, wrong |-> wrong])
\* Mutant: nothing is read back
SetAgetRegUnchecked(c, k, reg) == AgetRegWSC(k, reg, TRUE)
\* A read that fails returns 0, which is right for a register configured as 0.
SetAgetReg(c, k, reg) ==
    AgetRegWSC(k, reg, TRUE)
    \o When(k \in Config[c].scCheck,
            LET check == ReadBack(k, reg, Raise)
            IN  IF reg \in Config[c].zeros THEN Try(check) ELSE check)
\* The depth goes with reg12, also when that is wrong.
SetAgetReg12(c, k) ==
    LET depth == Device("ctrl") \o Alter("ctrl", {"readDepth"})
        wrong == depth \o Throw
        check == ReadBack(k, "reg12", Len(depth) + 2)
    IN  AgetRegWSC(k, "reg12", TRUE)
        \o IF k \notin Config[c].scCheck THEN depth
           ELSE (IF "reg12" \in Config[c].zeros THEN Try(check) ELSE OnError(check, Len(depth) + 1))
                \o depth \o Jump(Len(wrong)) \o wrong
SetAgetRegisters(c, k) ==
    FlattenSeq([n \in DOMAIN AgetRegisters |-> SetAgetReg(c, k, AgetRegisters[n])])
    \o SetAgetReg12(c, k)
ConfigureAget(c, k) ==
    SetAgetSlowControlMask({k}) \o SelectAgetForRead(k) \o EnableFPNRead
    \o SetAgetRegisters(c, k)
    \o SetReadMask(k, "readIfHit") \o SetReadMask(k, "readAlways")
    \o SetCoBoZeroSuppressionThreshold(k)
AsAdPulserConfigure(c) == AsAdConfigureTcmDevice(Config[c].external)
ConfigureAsAd(c, i) ==
    SelectAsAdForSlowControl(i) \o SwitchToSlowControl(Masks(c))
    \o EachActiveAget(c, i, LAMBDA k : ConfigureAget(c, k))
    \o SwitchToSlowControl(Masks(c)) \o SelectAsAdForSlowControl(i)
    \o AsAdPulserConfigure(c) \o ReadSensors(i)
    \o When(i \in Config[c].inspected, AsAdSetISPM)

\* A position of the AsAd boards is suppressed on all of them or on none, and
\* the chips of a CoBo are all read in full or all in part.
Mixed(S, chips) == S \cap chips # {} /\ ~(chips \subseteq S)
SetCoBoSuppressMultiplicity(c) ==
    IF \E j \in 0..3 : Mixed(Config[c].suppress, {k \in Masks(c).chips : k % 4 = j})
    THEN Throw ELSE SetCtrlIfKnown("suppressMultiplicity")
SetReadOutMode(c) ==
    IF Mixed(Config[c].partial, Masks(c).chips) THEN Throw ELSE SetFullReadOutMode
SetMultiplicityMode ==
    SetThreshold("multThreshold") \o SetThreshold("multWindow") \o SetThreshold("multThreshold2p")
    \o SetCtrlIfKnown("multSubtract")
SetIdentities(c) == When(Config[c].active, SetCtrl("dataSource") \o SetCtrl("coboId"))
SetTriggerModes == SetTriggerMode \o SetSecondaryTriggerMode
SetScwDelays == SetCtrl("ScwMultDelay") \o SetCtrl("ScwScrDelay")
SetReadOut == SetCoBoReadDepth \o SetCoBoReadOffset \o SetCoBoZeroSuppressionMode
\* The boards get their own limits up to the first that has none; then the
\* memory is shared out among all of them.
AllOwn(c) == AsAds \subseteq DOMAIN Config[c].own
SetOwnBuffer(c, i) == SetAsAdCircularBuffer(i, Config[c].own[i].start, Config[c].own[i].end)
ShareMemory(c) == SetCircularBuffers(Masks(c), Config[c].memory.start, Config[c].memory.end)
SetBuffers(c) ==
    SetCircularBufferCommonParameters
    \o EachAsAd(LAMBDA i : When(0 .. i \subseteq DOMAIN Config[c].own, SetOwnBuffer(c, i)))
    \o When(~AllOwn(c), ShareMemory(c))
\* The pulser of CoBo c is set up as the condition file says of CoBo b.  Its
\* second pulse and random mode are off: errors of turning them off are lost.
ConfigureAsAdPeriodicPulser(c, b) ==
    LET set == IF b = c THEN Setting("pulser")
               ELSE Write("write", "node", {"pulser"}, FALSE, Reach)
    IN  When(Config[b].periodic, set \o Try(Setting("pulserDouble")) \o Try(Setting("pulserRandom")))

Configure(c) == On(c,
    ConnectNode(c)
    \o EachActiveAsAd(c, LAMBDA i : ConfigureAsAd(c, i))
    \o SetAsAdSlowControlMask(Masks(c).asads) \o SetAgetSlowControlMask(Masks(c).chips)
    \o SetWriteHitRegisterEnabled \o When(Config[c].active, AcqTestMode)
    \o SetMultiplicityMode \o SetCoBoSuppressMultiplicity(c) \o SetCtrl("mem2p")
    \o SetIdentities(c) \o SetCtrl("triggerPeriod") \o TriggerTimes
    \o SetBuffers(c) \o SetTriggerModes \o SetScwDelays \o SetReadOutMode(c) \o SetReadOut
    \o DaqSetCircularBuffersEnabled \o Aget2pInitNow
    \o ConfigureAsAdPeriodicPulser(c, 0)
    \o SetCoBoInitDone(TRUE))

\* ---- the programs.  The list of CoBos is the order of the targets.
EachTarget(targets, Body(_)) == FlattenSeq([n \in DOMAIN targets |-> Body(targets[n])])
ConfigureProgram(targets) ==
    RemoveAllNodes \o EachTarget(targets, LoadHw) \o EachTarget(targets, Configure)

\* A client that loaded no hardware has empty masks.
FreshClient == [asads |-> {}, chips |-> {}]
DaqStartProgram(targets, pulser) ==
    LET Start(c) == On(c, ConnectNode(c) \o DaqStart(FreshClient) \o When(pulser, StartPulser))
    IN  EachTarget(targets, Start)
DaqStopProgram(targets) ==
    LET Stop(c) == On(c, ConnectNode(c) \o StopPulser \o DaqStop) IN EachTarget(targets, Stop)
DaqControlProgram(targets, start, pulser) ==
    LET Control(c) == On(c, ConnectNode(c)
                            \o (IF pulser /\ start THEN StartPulser ELSE StopPulser)
                            \o (IF start THEN DaqStart(FreshClient) ELSE DaqStop))
    IN  EachTarget(targets, Control)

ScriptOf(p) ==
    CASE p.program = "configure" -> ConfigureProgram(p.targets)
      [] p.program = "daqstart" -> DaqStartProgram(p.targets, p.pulser)
      [] p.program = "daqstop" -> DaqStopProgram(p.targets)
      [] p.program = "start" -> DaqControlProgram(p.targets, TRUE, p.pulser)
      [] p.program = "stop" -> DaqControlProgram(p.targets, FALSE, p.pulser)

\* ---- what is to be set at a CoBo with an active board, as <<device, group, unit>>
Given(cond, S) == IF cond THEN S ELSE {}
LoadedSettings(c) ==
    LET m == Masks(c) IN
    {"node"} \X {"ckw", "alarmMonitoring", "alarmService"} \X {Whole}
    \cup {"ctrl"} \X {"mutantMode", "ckr", "readDataDelay", "autoDelay", "firmware", "initSCA",
                      "calibrationAget"} \X {Whole}
    \cup Given(Config[c].version >= 2, {<<"ctrl", "lemo", Whole>>})
    \cup Given(Config[c].calibrate, {<<"ctrl", "scrScw", Whole>>})
    \cup {"asad"} \X {"userID", "LCM1", "LCM2", "inputs", "adcMode", "DAC", "TextLimits",
                     "VddLimits", "IddLimits", "protection", "monitoring"} \X m.asads
AgetSettings(chips) ==
    {"aget"} \X ({AgetRegisters[n] : n \in DOMAIN AgetRegisters} \cup {"reg12"}) \X chips
\* How the pulser triggers by itself
PulserSettings(c) ==
    Given(Config[c].periodic, {"node"} \X {"pulser", "pulserDouble", "pulserRandom"} \X {Whole})
\* Which ADC channels of the boards have power
PowerSettings(c) == {"asad"} \X {"adcPower"} \X Masks(c).asads
Settings(c) ==
    LET m == Masks(c) IN
    LoadedSettings(c) \cup AgetSettings(m.chips)
    \cup {"ctrl"} \X {"readIfHit", "readAlways"} \X m.chips
    \cup Given(m.chips # {}, {<<"ctrl", "FPN", Whole>>})
    \cup {<<ZeroSuppress(k \div 4), "zeroThreshold", k>> : k \in m.chips}
    \cup {"asad"} \X {"TCM0"} \X m.asads
    \cup {<<"asad", "ISPM", i>> : i \in m.asads \cap Config[c].inspected}
    \cup {"ctrl"} \X {"writeHit", "testMode", "multThreshold", "multWindow", "multThreshold2p",
                     "multSubtract", "suppressMultiplicity", "mem2p", "dataSource", "coboId",
                     "triggerPeriod", "triggerDelay", "2p", "interruptRate", "bufferLevels",
                     "trigger", "secondaryTrigger", "ScwMultDelay", "ScwScrDelay", "readout",
                     "readDepth", "readOffset", "zeroSuppression", "zeroInvert"} \X {Whole}
    \cup {"node"} \X {"pulserDefault", "pulserExternal", "circularBuffers"} \X {Whole}
    \cup Given(Config[c].external, {<<"node", "pulserTrigger", Whole>>})
    \cup PulserSettings(c) \cup PowerSettings(c)
=============================================================================
