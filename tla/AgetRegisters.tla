---------------------------- MODULE AgetRegisters ----------------------------
(* The registers of one AGET chip (src/runcontrol/GetController.cpp): how the *)
(* condition file is packed into their bits, and how configure writes them    *)
(* one after the other and, if scCheck says so, reads each of them back.      *)
(* EccSession has the remote calls of it, this module the values.             *)
(*                                                                            *)
(* A register is the set of its bits that are 1.  The routines of the client  *)
(* swallow errors: a write that fails leaves the register as it was, a read   *)
(* that fails returns 0.                                                      *)
EXTENDS Integers, Sequences, FiniteSets, SequencesExt

CONSTANTS Files,      \* what condition files say of the chip, by name
          Formers,    \* names of files by which it was configured before
          MaxFaults   \* accesses that fail

ASSUME FaultsAssumption == MaxFaults \in Nat
ASSUME FormersAssumption == Formers \subseteq DOMAIN Files

\* Of no other meaning than Files, for TLC to evaluate once
FileOf == [f \in DOMAIN Files |-> Files[f]]
Channels == 0..67
FPN == {11, 22, 45, 56}
Low == 0..33 \ FPN
High == 34..67 \ FPN

Bits(n) == {b \in 0..30 : (n \div 2^b) % 2 = 1}
Shift(S, n) == {b + n : b \in S}
Within(reg, at, width) == {b \in 0..(width - 1) : at + b \in reg}
SetField(reg, at, width, n) ==
    (reg \ at..(at + width - 1)) \cup Shift(Bits(n) \cap 0..(width - 1), at)

\* ---- the 32 bits of reg1 and the 29 bits of reg2.  A field has the position
\* of its value in the list of the ones known, or the default.
Field(name, at, width, values, default) ==
    [name |-> name, at |-> at, width |-> width, values |-> values, default |-> default]
Flag(name, at) == Field(name, at, 1, <<FALSE, TRUE>>, 0)
Code(file, f) == IF Contains(f.values, file[f.name])
                 THEN (CHOOSE i \in DOMAIN f.values : f.values[i] = file[f.name]) - 1
                 ELSE f.default

AnalogFields == <<
    Flag("isIcsax2", 0),
    Field("TestModeRange", 1, 2, <<"120fF", "240fF", "1pF", "10pF">>, 0),
    Field("peackingTime", 3, 4, <<70, 117, 232, 280, 334, 383, 502, 541, 568, 632, 721, 760,
                                  831, 870, 976, 1014>>, 8)>>
ReadoutFields == <<
    Field("TestModeSelection", 7, 2, <<"nothing", "calibration", "test", "functionality">>, 0),
    Field("IntegrationMode", 9, 1, <<"variable">>, 1),
    Field("SCA_Pointer", 10, 2,
          <<"column_0", "col_0or256", "col_0or128or256or384", "anySCAPointer">>, 0),
    Flag("SCA_Splitting", 12), Flag("is32channels", 13), Flag("isAllChannelRead", 14),
    Flag("isFPNRead", 15), Flag("isPositivePolarity", 16)>>
TriggerFields == <<
    Field("Vicm", 17, 2, <<"1.25V", "1.35V", "1.55V", "1.65V">>, 0),
    Field("GlobalThresholdValue", 19, 3, <<0, 1, 2, 3, 4, 5, 6, 7>>, 0),
    Flag("isThresholdSignedPositive", 22),
    Field("TriggerVetoOption", 23, 2, <<"none", "4us", "HitRegisterWidth", "undefined">>, 0),
    Flag("isckwriteSynchro", 25), Flag("isTOTActive", 26), Flag("isTriggerWidth200ns", 27),
    Field("TriggerWidthRange", 28, 2, <<"width0", "width1", "width2", "width3">>, 0),
    Field("ExternalLink", 30, 2, <<"none", "SKFilterInput", "Gain-2Input", "CSAStandby">>, 0)>>
Reg1Fields == AnalogFields \o ReadoutFields \o TriggerFields
Reg1(file) == FoldLeft(LAMBDA reg, f : SetField(reg, f.at, f.width, Code(file, f)), {}, Reg1Fields)

\* The fields of reg2 are added up.
ModeFields == <<
    Field("DebugSelection", 0, 3, <<"standby", "CSA", "CR", "Gain-2", "PositiveInputDiscri",
                                    "NegativeInputDiscri", "trigger">>, 7),
    Flag("isReadFromColumn0", 3), Flag("isDigitalOutputTest", 4), Flag("isResetLevelUndefined", 5),
    Flag("isMarkerEnable", 6), Flag("isResetLevelVdd", 7), Flag("isBoostPower", 8),
    Flag("isOutputscCkSynchro", 9), Flag("isSynchroEdgeFalling", 10),
    Flag("isSCoutputBufferInTriState", 11)>>
\* Mutant: a bit too low
BufferCurrentLow == Field("bufferCurrent", 13, 2, <<"1.503mA", "1.914mA", "2.7mA", "4.870mA">>, 0)
BufferCurrent == Field("bufferCurrent", 14, 2, <<"1.503mA", "1.914mA", "2.7mA", "4.870mA">>, 0)
PowerFields == <<
    Field("currentBias", 12, 2, <<"current0", "current1", "current2", "current3">>, 0),
    BufferCurrent, Flag("isPWDonWrite", 16), Flag("isPWDonRead", 17), Flag("isAlternatePower", 18),
    Flag("is1bitShortResetReadSeq", 19), Flag("isTriggerOutputDisable", 20),
    Flag("isRisingedgeWriteAutoresetBank", 21), Flag("islvdsTriggerOutput", 22)>>
Added(file, fields) == FoldLeft(LAMBDA n, f : n + Code(file, f) * 2^f.at, 0, fields)

\* The logarithm of a level is looked for by halving steps.  They start with a
\* shift by 64 bits, which is undefined, and shifts by 0 on the machines this
\* is built for: the result is 64 too high for every level but 1.
logtwo(seed) ==
    LET Shifted(n) == IF n % 64 > 30 THEN 0 ELSE seed \div 2^(n % 64)
        result[i \in 0..64] ==
            IF i = 0 THEN 0
            ELSE LET n == result[i - 1] step == 64 \div 2^(i - 1) IN
                 CASE Shifted(n) = 1 -> n
                   [] Shifted(n) = 0 -> n - step
                   [] OTHER -> n + step
    IN  result[8]
Levels == <<1, 2, 4, 8>>
Reg2(file) ==
    LET added == Bits(Added(file, ModeFields \o PowerFields))
        ranged == SetField(added, 24, 1, IF file["inputDynamicRange_5pct"] THEN 1 ELSE 0)
        lvds == SetField(ranged, 25, 2, logtwo(file["triggerLvdsThreshold"]))
    IN  SetField(lvds, 27, 2, logtwo(file["multiplicityLevel"]))
Reg12(file) == Bits(file["ReadoutPointerOffset"])

\* ---- the registers with a field for each channel.  Only the channels that
\* are active have bits in them, and the FPN channels have no gain.
At6(c) == CASE c < 11 -> 62 - 2 * c
            [] 11 < c /\ c < 22 -> 62 - 2 * c + 2
            [] OTHER -> 62 - 2 * c + 4
At7(c) == CASE c < 45 -> 2 * (c - 34)
            [] 45 <= c /\ c < 56 -> 2 * (c - 34) - 2
            [] OTHER -> 2 * (c - 34) - 4
\* Mutant: the second FPN channel is counted
Physical10First(c) == IF c > 11 THEN c - 1 ELSE c
Physical10(c) == IF c > 22 THEN c - 2 ELSE IF c > 11 THEN c - 1 ELSE c
At10(c) == 64 - 2 * (Physical10(c) + 1)
Physical11(c) == IF c > 56 THEN c - 2 ELSE IF c > 45 THEN c - 1 ELSE c
At11(c) == 2 * (Physical11(c) - 34)

GainBits(channel) ==
    CASE channel.Gain = "240fC" -> {0} [] channel.Gain = "1pC" -> {1}
      [] channel.Gain = "10pC" -> {0, 1} [] OTHER -> {}
InhibitionBits(channel) ==
    CASE channel.TriggerInhibition = "inhibit_channel" -> {0}
      [] channel.TriggerInhibition = "inhibit_trigger" -> {1} [] OTHER -> {}

Active(file) == {c \in Channels : file.channel[c].isActive}
Tested(file) == {c \in Active(file) : file.channel[c].isSelectedforTestMode}
Reg3(file) == {33 - c : c \in Tested(file) \cap 0..33}
Reg4(file) == {c - 34 : c \in Tested(file) \cap 34..67}
Reg6(file) == UNION {Shift(GainBits(file.channel[c]), At6(c)) : c \in Active(file) \cap Low}
Reg7(file) == UNION {Shift(GainBits(file.channel[c]), At7(c)) : c \in Active(file) \cap High}
\* Channel 33 is left out, although the register has two bits for it.
Reg10(file) ==
    UNION {Shift(InhibitionBits(file.channel[c]), At10(c)) : c \in Active(file) \cap (Low \ {33})}
Reg11(file) ==
    UNION {Shift(InhibitionBits(file.channel[c]), At11(c)) : c \in Active(file) \cap High}
\* The thresholds of the channels are packed by a library.
Thresholds(file, reg) == file.thresholds[reg]

Order == <<"reg1", "reg2", "reg3", "reg4", "reg6", "reg7", "reg8", "reg8msb", "reg9", "reg9msb",
           "reg10", "reg11", "reg12">>
Registers == {Order[n] : n \in DOMAIN Order}
Packed(file) == [reg \in Registers |->
    CASE reg = "reg1" -> Reg1(file) [] reg = "reg2" -> Reg2(file)
      [] reg = "reg3" -> Reg3(file) [] reg = "reg4" -> Reg4(file)
      [] reg = "reg6" -> Reg6(file) [] reg = "reg7" -> Reg7(file)
      [] reg = "reg10" -> Reg10(file) [] reg = "reg11" -> Reg11(file)
      [] reg = "reg12" -> Reg12(file) [] OTHER -> Thresholds(file, reg)]
Value == [f \in DOMAIN Files |-> Packed(FileOf[f])]

\* ---- the CoBo's masks of the channels to read, 4, 32 and 32 of them
getChannelReadingMask(file, first, last, filter) ==
    {last - c : c \in {c \in Active(file) \cap first..last : file.channel[c].Reading = filter}}
\* Mutant: the second mask begins with the channels of the first one
ReadMaskShifted(file, filter) == <<getChannelReadingMask(file, 0, 3, filter),
                                   getChannelReadingMask(file, 0, 35, filter),
                                   getChannelReadingMask(file, 36, 67, filter)>>
ReadMask(file, filter) == <<getChannelReadingMask(file, 0, 3, filter),
                            getChannelReadingMask(file, 4, 35, filter),
                            getChannelReadingMask(file, 36, 67, filter)>>
\* The depth is a number of 16 bits.
Depth(file) == ((IF file["enableMem2pMode"] THEN 256 ELSE 512) - file["ReadoutPointerOffset"]) % 65536
CellsOf(file) == IF file["enableMem2pMode"] THEN 256 ELSE 512
ReadOutDepth(file) == IF file["readoutDepth"] > CellsOf(file) THEN CellsOf(file)
                                                            ELSE file["readoutDepth"]
----------------------------------------------------------------------------
VARIABLES loaded,       \* the name of the file in use
          pos,         \* the register being set, behind the last one at the end
          written,    \* whether it has been written and is to be read back
          chip,       \* the registers of the chip
          cobo,       \* the CoBo's masks and depth for it
          outcome, faults
vars == <<loaded, pos, written, chip, cobo, outcome, faults>>

Blank == [always |-> << >>, ifHit |-> << >>, depth |-> 0]
Init ==
    /\ loaded \in DOMAIN Files
    /\ pos = 1 /\ written = FALSE
    /\ chip \in {Value[f] : f \in Formers} \cup {[reg \in Registers |-> {}]}
    /\ cobo = Blank
    /\ outcome = "running" /\ faults = 0

Setting == outcome = "running" /\ pos \in DOMAIN Order
Reg == Order[pos]
Wanted == Value[loaded][Reg]
Checking == FileOf[loaded].scCheck
Flipped(S, T) == (S \ T) \cup (T \ S)

\* Mutant: every other register is skipped
AdvanceTwo == pos' = pos + 2 /\ written' = FALSE
Advance == pos' = pos + 1 /\ written' = FALSE

\* The depth of the CoBo goes with the last register, also when it is wrong.
DepthWith(reg) == IF reg = "reg12" THEN [cobo EXCEPT !.depth = Depth(FileOf[loaded])] ELSE cobo

\* Bit 21 of reg2 may not come out as it is written: external.
Held(S) == IF Reg = "reg2" THEN {S, Flipped(S, {21})} ELSE {S}

\* The write takes place or its error is swallowed.
Write ==
    /\ Setting /\ ~written
    /\ \/ \E S \in Held(Wanted) : chip' = [chip EXCEPT ![Reg] = S] /\ faults' = faults
       \/ faults < MaxFaults /\ faults' = faults + 1 /\ chip' = chip
    /\ IF Checking THEN written' = TRUE /\ pos' = pos /\ cobo' = cobo
                   ELSE Advance /\ cobo' = DepthWith(Reg)
    /\ UNCHANGED <<loaded, outcome>>

\* Mutant: no answer is no disagreement
AgreesIfNone(resp) == resp = Wanted \/ resp = {}
Agrees(resp) == \/ resp = Wanted
                \/ Reg = "reg2" /\ Flipped(Wanted, resp) = {21}

\* A register that does not agree ends the program.
ReadBack(resp) ==
    /\ IF Agrees(resp) THEN Advance /\ outcome' = outcome
                       ELSE outcome' = "refused" /\ UNCHANGED <<pos, written>>
    /\ cobo' = DepthWith(Reg)
    /\ UNCHANGED <<loaded, chip>>

Check ==
    /\ Setting /\ written
    /\ \/ ReadBack(chip[Reg]) /\ faults' = faults
       \/ faults < MaxFaults /\ faults' = faults + 1 /\ ReadBack({})

\* The masks of the channels follow the registers, and at the end of configure
\* the depth of the readout.
Masks ==
    /\ outcome = "running" /\ pos = Len(Order) + 1
    /\ cobo' = [cobo EXCEPT !.always = ReadMask(FileOf[loaded], "always"),
                            !.ifHit = ReadMask(FileOf[loaded], "only_if_hit")]
    /\ outcome' = "masks"
    /\ UNCHANGED <<loaded, pos, written, chip, faults>>

Finish ==
    /\ outcome = "masks"
    /\ cobo' = [cobo EXCEPT !.depth = ReadOutDepth(FileOf[loaded])]
    /\ outcome' = "done"
    /\ UNCHANGED <<loaded, pos, written, chip, faults>>

Next == Write \/ Check \/ Masks \/ Finish
Spec == Init /\ [][Next]_vars
----------------------------------------------------------------------------
\* The state keeps its types.
TypeOK ==
    /\ loaded \in DOMAIN Files /\ pos \in 1..(Len(Order) + 1) /\ written \in BOOLEAN
    /\ DOMAIN chip = Registers
    /\ outcome \in {"running", "refused", "masks", "done"} /\ faults \in 0..MaxFaults

\* A read that fails is taken for one of 0, and only of reg2 a bit is let pass:
\* these are the values for which a register is found right unseen.
Unseen(reg) == {{}} \cup (IF reg = "reg2" THEN {{21}} ELSE {})
FoundRight(reg) == Checking /\ \E n \in 1..(pos - 1) : Order[n] = reg
Sure(reg) == FoundRight(reg) /\ Value[loaded][reg] \notin Unseen(reg)
LetPass(reg) == IF reg = "reg2" THEN {21} ELSE {}

\* With scCheck configure only leaves behind registers that are what the file
\* says, up to bit 21 of reg2, whatever the chip held before and whichever
\* writes and reads failed (GetController.cpp:2376, 2439); the registers that
\* are to be 0 are excepted (EccClient.cpp:1861).
CheckedRegistersHold ==
    \A reg \in Registers : Sure(reg) => Flipped(chip[reg], Value[loaded][reg]) \subseteq LetPass(reg)

\* The chip reads in every field of reg1 and reg2 the value of the file, as the
\* list of the field has it: no field takes bits of another one, neither by
\* its place nor by a carry (lines 2563, 2832).
Fields == [reg1 |-> Reg1Fields,
           reg2 |-> ModeFields \o PowerFields
                    \o <<Flag("inputDynamicRange_5pct", 24),
                         Field("triggerLvdsThreshold", 25, 2, Levels, 0),
                         Field("multiplicityLevel", 27, 2, Levels, 0)>>]
FieldsReadBack ==
    \A reg \in {"reg1", "reg2"} : Sure(reg) =>
        \A n \in DOMAIN Fields[reg] :
            LET f == Fields[reg][n] IN
            f.name # "isRisingedgeWriteAutoresetBank" =>
                Within(chip[reg], f.at, f.width) = Bits(Code(FileOf[loaded], f))

\* A channel has the bits of its place among those that are no FPN channels:
\* the places go down in one half of the chip and up in the other one (lines
\* 3168 to 3324).  Channel 33 is excepted from the trigger inhibition.
Place(c, half) == Cardinality({d \in half : d < c})
Down(c) == 62 - 2 * Place(c, Low)
Up(c) == 2 * Place(c, High)
BitsIfActive(c, S) == IF FileOf[loaded].channel[c].isActive THEN S ELSE {}
ChannelsReadBack ==
    /\ Sure("reg6") => \A c \in Low :
           Within(chip["reg6"], Down(c), 2) = BitsIfActive(c, GainBits(FileOf[loaded].channel[c]))
    /\ Sure("reg7") => \A c \in High :
           Within(chip["reg7"], Up(c), 2) = BitsIfActive(c, GainBits(FileOf[loaded].channel[c]))
    /\ Sure("reg10") => \A c \in Low \ {33} :
           Within(chip["reg10"], Down(c), 2)
               = BitsIfActive(c, InhibitionBits(FileOf[loaded].channel[c]))
    /\ Sure("reg11") => \A c \in High :
           Within(chip["reg11"], Up(c), 2)
               = BitsIfActive(c, InhibitionBits(FileOf[loaded].channel[c]))

\* The three masks have a bit of its own for every channel that is read, and no
\* channel is read both always and if hit (lines 1079 to 1101, 3345).
Count(masks) == Cardinality(masks[1]) + Cardinality(masks[2]) + Cardinality(masks[3])
MasksCoverTheChannels ==
    outcome \in {"masks", "done"} =>
        /\ Count(cobo.always) = Cardinality({c \in Active(FileOf[loaded]) :
                                               FileOf[loaded].channel[c].Reading = "always"})
        /\ \A n \in 1..3 : cobo.always[n] \cap cobo.ifHit[n] = {} /\ cobo.always[n] \subseteq 0..31
=============================================================================
