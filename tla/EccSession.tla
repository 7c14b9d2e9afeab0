----------------------------- MODULE EccSession -----------------------------
(* The programs of src/runcontrol at one ECC server.  A program goes through  *)
(* its Script, the accesses that GetController and EccClient make of it, one  *)
(* remote call per step; the server keeps one current node and one current    *)
(* device for all its clients, and for each CoBo what has been selected and   *)
(* written.  A call may fail, as far as MaxFaults goes; one that names a      *)
(* register which the current device does not have always fails.              *)
EXTENDS GetController

CONSTANTS Launches,     \* the command lines, by name: program, targets, pulser
          MaxFaults,    \* calls that fail although they could be carried out
          MaxLaunch,    \* programs launched
          Overlap       \* whether a program is launched while another one runs

Programs == DOMAIN Launches
Script == [p \in Programs |-> ScriptOf(Launches[p])]
Active == [c \in CoBos |-> Masks(c)]
Required == [c \in CoBos |-> Settings(c)]
Pulser == [c \in CoBos |-> PulserSettings(c)]
Power == [c \in CoBos |-> PowerSettings(c)]
Checked == [c \in CoBos |-> {s \in AgetSettings(Config[c].scCheck) : s[2] \notin Config[c].zeros}]
Stopping == {p \in Programs : Launches[p].program \in {"daqstop", "stop"}}

None == "none"
ASSUME CoBosAssumption == CoBos \subseteq Nat
ASSUME LaunchesAssumption ==
    \A p \in Programs : /\ Launches[p].targets \in Seq(CoBos)
                        /\ Launches[p].program \in {"configure", "daqstart", "daqstop", "start", "stop"}
                        /\ Launches[p].program = "configure" => IsInjective(Launches[p].targets)
ASSUME BoundsAssumption == MaxFaults \in Nat /\ MaxLaunch \in Nat /\ Overlap \in BOOLEAN

VARIABLES node,         \* the current node of the server, a CoBo
          device,       \* its current device
          hw,           \* the CoBos
          pc,           \* the next access of each program, 0 when it does not run
          faults, launches
vars == <<node, device, hw, pc, faults, launches>>

Unset == [described |-> FALSE, router |-> FALSE, ready |-> FALSE, running |-> FALSE,
          pulsing |-> FALSE, asadMask |-> {}, enabled |-> {}, pulse |-> {}, hitRegister |-> FALSE,
          fast |-> {}, power |-> {}, asad |-> 0, chip |-> 0, mask |-> 0,
          buffer |-> [i \in AsAds |-> <<0, 0>>], set |-> {}, quiet |-> FALSE]

Init ==
    /\ node = NoCoBo /\ device = None
    /\ hw = [c \in CoBos |-> Unset]
    /\ pc = [p \in Programs |-> 0]
    /\ faults = 0 /\ launches = 0

Running(p) == pc[p] # 0
AtEnd(p) == Running(p) /\ pc[p] \notin DOMAIN Script[p]
InScript(p) == Running(p) /\ pc[p] \in DOMAIN Script[p]
Current(p) == Script[p][pc[p]]
Skipped(p) == {Script[p][k] : k \in pc[p]..(pc[p] + Current(p).rest - 1)}

\* ---- the server
IsRegisterAccess(a) == a.dev \notin {"none", "server", "node"}
CanAccess(a) ==
    /\ a.op # "throw"
    /\ a.dev = "node" => node # NoCoBo /\ (a.op = "describe" \/ hw[node].described)
    /\ IsRegisterAccess(a) => node # NoCoBo /\ device = a.dev

\* The chips of h whose mode the three pulses of a slow control access change
Pulsed(h) == [h EXCEPT !.fast = IF h.hitRegister THEN @ \cup h.pulse ELSE @ \ h.pulse]
Touched(h, a) == IF a.dev = "aget" THEN Pulsed(h) ELSE h

Powered(h, chips) == {k \in chips : (k \div 4) \in h.power}
Units(h, a) ==
    CASE a.arg.of = Masked -> {h.mask}
      [] a.arg.of \in Chips -> {a.arg.of}
      [] a.arg.of = Reach /\ a.dev = "asad" -> h.asadMask \cap h.power
      [] a.arg.of = Reach /\ a.dev = "aget" -> Powered(h, h.enabled)
      [] OTHER -> {Whole}
Written(h, a) ==
    LET settings == {a.dev} \X a.arg.groups \X Units(h, a)
    IN  [h EXCEPT !.set = IF a.arg.good THEN @ \cup settings ELSE @ \ settings]
PoweredOff(h, i) ==
    [h EXCEPT !.power = @ \ {i}, !.fast = @ \ ChipsOf(i),
              !.set = {s \in @ : ~ \/ s[1] = "asad" /\ s[3] = i
                                   \/ s[1] = "aget" /\ s[3] \in ChipsOf(i)}]

\* What a call that succeeds does to the CoBo it reaches
After(h, a) ==
    CASE a.op = "describe" -> [h EXCEPT !.described = TRUE]
      [] a.op = "router" -> [h EXCEPT !.router = TRUE]
      [] a.op = "initDone" -> [h EXCEPT !.ready = a.arg, !.quiet = @ /\ a.arg]
      [] a.op = "daqStart" -> [h EXCEPT !.running = TRUE]
      [] a.op = "daqStop" -> [h EXCEPT !.running = FALSE]
      [] a.op = "startPulser" -> [h EXCEPT !.pulsing = TRUE]
      [] a.op = "stopPulser" -> [h EXCEPT !.pulsing = FALSE]
      [] a.op = "select" -> [h EXCEPT !.asadMask = a.arg]
      [] a.op = "enable" -> [h EXCEPT !.enabled = a.arg]
      [] a.op = "pulse" -> [h EXCEPT !.pulse = a.arg]
      [] a.op = "hitRegister" -> [h EXCEPT !.hitRegister = a.arg]
      [] a.op = "fire" -> Pulsed(h)
      [] a.op = "asad" -> [h EXCEPT !.asad = a.arg]
      [] a.op = "chip" -> [h EXCEPT !.chip = a.arg]
      [] a.op = "mask" -> [h EXCEPT !.mask = a.arg]
      [] a.op = "powerOn" -> [h EXCEPT !.power = @ \cup {a.arg}]
      [] a.op = "powerOff" -> PoweredOff(h, a.arg)
      [] a.op = "buffer" -> [h EXCEPT !.buffer[a.arg.asad] = <<a.arg.start, a.arg.end>>]
      [] a.op \in {"write", "field"} -> Written(Touched(h, a), a)
      [] a.op = "read" -> Touched(h, a)

\* ---- the steps of a program
Launch(p) ==
    /\ ~Running(p) /\ launches < MaxLaunch
    /\ Overlap \/ \A q \in Programs : ~Running(q)
    /\ pc' = [pc EXCEPT ![p] = 1]
    /\ launches' = launches + 1
    /\ UNCHANGED <<node, device, hw, faults>>

Exit(p) ==
    /\ AtEnd(p)
    /\ pc' = [pc EXCEPT ![p] = 0]
    /\ UNCHANGED <<node, device, hw, faults, launches>>

GoOn(p) == pc' = [pc EXCEPT ![p] = @ + 1]

RemoveNodes(p) ==
    /\ InScript(p) /\ Current(p).op = "removeAll"
    /\ node' = NoCoBo /\ device' = None
    /\ hw' = [c \in CoBos |-> [hw[c] EXCEPT !.described = FALSE, !.router = FALSE]]
    /\ GoOn(p)
    /\ UNCHANGED <<faults, launches>>

Connect(p) ==
    /\ InScript(p) /\ Current(p).op = "node"
    /\ node' = Current(p).arg /\ device' = None
    /\ GoOn(p)
    /\ UNCHANGED <<hw, faults, launches>>

ConnectDevice(p) ==
    /\ InScript(p) /\ Current(p).op = "device" /\ CanAccess(Current(p))
    /\ device' = Current(p).arg
    /\ GoOn(p)
    /\ UNCHANGED <<node, hw, faults, launches>>

Call(p) ==
    /\ InScript(p) /\ CanAccess(Current(p))
    /\ Current(p).op \notin {"removeAll", "node", "device", "jump", "check"}
    /\ hw' = [hw EXCEPT ![node] = After(@, Current(p))]
    /\ GoOn(p)
    /\ UNCHANGED <<node, device, faults, launches>>

\* A register that does not read as it was written ends the program, now or later.
Right(p) == <<"aget", Current(p).arg.reg, hw[node].chip>> \in hw[node].set
Check(p) ==
    /\ InScript(p) /\ Current(p).op = "check" /\ CanAccess(Current(p))
    /\ hw' = [hw EXCEPT ![node] = Pulsed(@)]
    /\ pc' = [pc EXCEPT ![p] = IF Right(p) THEN @ + 1
                               ELSE IF Current(p).arg.wrong = Raise THEN 0
                               ELSE @ + Current(p).arg.wrong]
    /\ UNCHANGED <<node, device, faults, launches>>

\* The end of a block, behind which the code that handles its errors is left out
LeaveBlock(p) ==
    /\ InScript(p) /\ Current(p).op = "jump"
    /\ pc' = [pc EXCEPT ![p] = @ + (1 + Current(p).arg)]
    /\ UNCHANGED <<node, device, hw, faults, launches>>

\* The call raises an error, which ends the program or is swallowed.  quiet
\* records that writes to the CoBo were left out because of it.
CallFails(p) ==
    /\ InScript(p) /\ Current(p).op # "jump"
    /\ \/ ~CanAccess(Current(p)) /\ faults' = faults
       \/ CanAccess(Current(p)) /\ faults < MaxFaults /\ faults' = faults + 1
    /\ IF Current(p).rest = Raise
       THEN pc' = [pc EXCEPT ![p] = 0] /\ hw' = hw
       ELSE /\ pc' = [pc EXCEPT ![p] = @ + Current(p).rest]
            /\ hw' = IF node # NoCoBo
                        /\ \E a \in Skipped(p) : a.op \notin {"device", "asad", "chip", "read", "check"}
                     THEN [hw EXCEPT ![node].quiet = TRUE] ELSE hw
    /\ UNCHANGED <<node, device, launches>>

Next == \E p \in Programs :
    \/ Launch(p) \/ Exit(p) \/ RemoveNodes(p) \/ Connect(p) \/ ConnectDevice(p)
    \/ Call(p) \/ Check(p) \/ LeaveBlock(p) \/ CallFails(p)

Spec == Init /\ [][Next]_vars
----------------------------------------------------------------------------
\* The state keeps the types that the steps rely on.
TypeOK ==
    /\ node \in CoBos \cup {NoCoBo}
    /\ device \in {None, "ctrl", "asad", "aget"} \cup {ZeroSuppress(i) : i \in AsAds}
    /\ pc \in [Programs -> Nat] /\ faults \in 0..MaxFaults /\ launches \in 0..MaxLaunch
    /\ \A c \in CoBos :
          /\ hw[c].asadMask \subseteq AsAds /\ hw[c].power \subseteq AsAds
          /\ hw[c].enabled \subseteq Chips /\ hw[c].pulse \subseteq Chips
          /\ hw[c].fast \subseteq Chips /\ hw[c].asad \in AsAds
          /\ hw[c].chip \in Chips /\ hw[c].mask \in Chips

Writes(p, dev) == /\ InScript(p) /\ CanAccess(Current(p)) /\ Current(p).dev = dev
                  /\ Current(p).op \in {"write", "field"}
\* The CoBo that the next access of p reaches, if no write to it was left out
Sound(p) == InScript(p) /\ node # NoCoBo /\ CanAccess(Current(p)) /\ ~hw[node].quiet

\* Everything a program asks of a node reaches the CoBo it means, although the
\* routines name none: the node is the one the program connected to last
\* (EccClient.cpp:123, GetController.cpp:304).
AccessFindsItsNode ==
    \A p \in Programs : InScript(p) => Current(p).cobo \in {NoCoBo, node}
                                       \/ Current(p).op = "node"

\* A register is looked for in the device that has it, also after an error was
\* swallowed: asadDacInit and setCircularBufferCommonParameters select no
\* device and rely on the routine before them (EccClient.cpp:632, 1316).
AccessFindsItsDevice ==
    \A p \in Programs : InScript(p) /\ IsRegisterAccess(Current(p)) => device = Current(p).dev

\* A write to the AsAd boards reaches the boards it is meant for, those of one
\* round of a loop or all active ones, and they are powered; a write to the AGET
\* chips likewise (EccClient.cpp:914, 905): what is selected was selected by an
\* earlier routine.
WritesReachTheirTargets ==
    \A p \in Programs : Sound(p) =>
        LET a == Current(p) h == hw[node] IN
        /\ Writes(p, "asad") =>
               h.asadMask \cap h.power = IF a.board = All THEN Active[node].asads ELSE {a.board}
        /\ Writes(p, "aget") =>
               Powered(h, h.enabled) = IF a.chip = All THEN Active[node].chips ELSE {a.chip}

\* The server writes a field by reading the register and writing it back: what
\* it reads belongs to one of the boards or chips that it writes.
FieldsAreReadWhereWritten ==
    \A p \in Programs : Sound(p) /\ Current(p).op = "field" =>
        /\ Current(p).dev = "asad" => hw[node].asad \in hw[node].asadMask
        /\ Current(p).dev = "aget" => hw[node].chip \in hw[node].enabled

\* A register of the chips is only written while they listen to slow control,
\* the hit register only while they do not (EccClient.cpp:1941, 1968).
RegistersInSlowControl ==
    \A p \in Programs : Sound(p) /\ Writes(p, "aget") =>
        LET fast == Pulsed(hw[node]).fast IN
        IF Current(p).arg.groups = {"hit"} THEN hw[node].enabled \subseteq fast
                                           ELSE hw[node].enabled \cap fast = {}


\* A configuration without a swallowed error has made every setting of the
\* condition file, among them the power of the ADC channels (the comment at
\* GetController.cpp:713), which the reset of the ADCs at line 274 undoes, and
\* the pulser of each CoBo (the comment at configs/pulser.xcfg:157), for which
\* line 425 takes the values of CoBo 0.
EverySettingIsMade ==
    \A p \in Programs : AtEnd(p) /\ Launches[p].program = "configure" =>
        \A c \in Range(Launches[p].targets) : ~hw[c].quiet => Required[c] \subseteq hw[c].set

\* A chip with scCheck that was configured holds its registers, even if the
\* write swallowed an error (GetController.cpp:2384, EccClient.cpp:1819), but
\* for those that are to be 0, as which a read that fails is taken.
CheckedRegistersHold ==
    \A p \in Programs, c \in CoBos :
        AtEnd(p) /\ p \notin Stopping /\ hw[c].ready => Checked[c] \subseteq hw[c].set

\* The circular buffers of a CoBo that is ready have the limits that the
\* condition file gives each board.  If a board has none, none of them overlap,
\* they lie in the memory of the CoBo, and only those of boards that are not
\* active are empty (GetController.cpp:1981, EccClient.cpp:1271).
BuffersShareTheMemory ==
    \A c \in CoBos : hw[c].ready /\ ~hw[c].quiet =>
        \A i \in AsAds :
            LET b == hw[c].buffer[i] m == Config[c].memory IN
            IF AllOwn(c) THEN b = <<Config[c].own[i].start, Config[c].own[i].end>>
            ELSE /\ b[1] >= m.start /\ b[2] <= m.end
                 /\ b[1] < b[2] <=> i \in Active[c].asads
                 /\ \A j \in AsAds : j < i => hw[c].buffer[j][2] <= b[1]

\* A program that stops data acquisition and ends well leaves none of its
\* CoBos running, nor its pulser (EccClient.cpp:1618).
StopsWhatItMeans ==
    \A p \in Stopping : AtEnd(p) =>
        \A k \in DOMAIN Script[p] :
            LET c == Script[p][k].cobo IN c # NoCoBo => ~hw[c].running /\ ~hw[c].pulsing

\* A program that starts data acquisition and ends well leaves the active chips
\* of its CoBos in fast control (the comment at EccClient.cpp:1936).
StartsInFastControl ==
    \A p \in Programs : AtEnd(p) =>
        \A c \in CoBos : hw[c].running => Active[c].chips \subseteq hw[c].fast
=============================================================================
