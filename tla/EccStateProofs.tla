--------------------------- MODULE EccStateProofs ---------------------------
(***************************************************************************)
(* What the accesses of a program find selected at the CoBo they reach:    *)
(* the boards and chips that a write is meant for, powered and in the mode *)
(* it needs.  A routine is entered and left with a CoBo in one of some     *)
(* states, whatever calls fail, unless an error of a write was swallowed.  *)
(***************************************************************************)
EXTENDS EccSessionProofs

-------------------------------------------------------------------------------
(* The states of a CoBo                                                        *)

\* The devices and the groups of registers that the routines name
Devices == AnyDevice \cup {"server", "node"}
Groups ==
    {AgetRegisters[n] : n \in DOMAIN AgetRegisters}
    \cup {"reg1", "reg2", "reg12", "hit", "adcMode", "adcPower", "DAC", "inputs", "ISPM", "LCM1",
          "LCM2", "monitoring", "protection", "resetFast", "TCM0", "TextLimits", "VddLimits",
          "IddLimits", "userID", "zeroThreshold", "alarmMonitoring", "alarmService",
          "circularBuffers", "ckw", "pulser", "pulserDefault", "pulserDouble", "pulserExternal",
          "pulserRandom", "pulserTrigger"}
    \cup {"2p", "asadController", "autoDelay", "bitSlip", "bufferLevels", "calibrationAget", "ckr",
          "coboId", "dataSource", "deskew", "firmware", "FPN", "init2p", "initSCA",
          "interruptRate", "lemo", "mem2p", "memory", "multSubtract", "multThreshold",
          "multThreshold2p", "multWindow", "mutantMode", "readAlways", "readDataDelay",
          "readDepth", "readIfHit", "readOffset", "readout", "resetTime", "ScwMultDelay",
          "ScwScrDelay", "scrScw", "secondaryTrigger", "suppressMultiplicity", "testMode",
          "trigger", "triggerDelay", "triggerPeriod", "writeHit", "zeroInvert",
          "zeroSuppression"}
Buffers == [AsAds -> Int \X Int]
CoBoStates ==
    [described : BOOLEAN, router : BOOLEAN, ready : BOOLEAN, running : BOOLEAN, pulsing : BOOLEAN,
     asadMask : SUBSET AsAds, enabled : SUBSET Chips, pulse : SUBSET Chips,
     hitRegister : BOOLEAN, fast : SUBSET Chips, power : SUBSET AsAds, asad : AsAds, chip : Chips,
     mask : Chips, buffer : Buffers, set : SUBSET (Devices \X Groups \X Int), quiet : BOOLEAN]

\* An access with its arguments of their types.
Fit(a) ==
    /\ Typed(a) /\ a.dev \in Devices
    /\ a.rest \in Int /\ a.cobo \in Int /\ a.board \in Int /\ a.chip \in Int
    /\ a.op \in {"initDone", "hitRegister"} => a.arg \in BOOLEAN
    /\ a.op = "buffer" => a.arg.asad \in AsAds /\ a.arg.start \in Int /\ a.arg.end \in Int
    /\ a.op \in {"write", "field"} =>
           a.arg.groups \in SUBSET Groups /\ a.arg.good \in BOOLEAN /\ a.arg.of \in Int

\* The CoBo that an access reaches, after it succeeded.
Calls(a) == a.op \notin {"removeAll", "node", "device", "jump", "check", "throw"}
Turned(h, a) ==
    IF Calls(a) THEN After(h, a)
    ELSE IF a.op = "check" THEN Pulsed(h)
    ELSE IF a.op = "removeAll" THEN [h EXCEPT !.described = FALSE, !.router = FALSE]
    ELSE h

\* A state with another value of a field is a state.
LEMMA StateSet ==
    ASSUME NEW h \in CoBoStates, NEW v
    PROVE  /\ v \in BOOLEAN => /\ [h EXCEPT !.described = v] \in CoBoStates
                               /\ [h EXCEPT !.router = v] \in CoBoStates
                               /\ [h EXCEPT !.ready = v] \in CoBoStates
                               /\ [h EXCEPT !.running = v] \in CoBoStates
                               /\ [h EXCEPT !.pulsing = v] \in CoBoStates
                               /\ [h EXCEPT !.hitRegister = v] \in CoBoStates
                               /\ [h EXCEPT !.quiet = v] \in CoBoStates
           /\ v \in SUBSET AsAds => /\ [h EXCEPT !.asadMask = v] \in CoBoStates
                                    /\ [h EXCEPT !.power = v] \in CoBoStates
           /\ v \in SUBSET Chips => /\ [h EXCEPT !.enabled = v] \in CoBoStates
                                    /\ [h EXCEPT !.pulse = v] \in CoBoStates
                                    /\ [h EXCEPT !.fast = v] \in CoBoStates
           /\ v \in AsAds => [h EXCEPT !.asad = v] \in CoBoStates
           /\ v \in Chips => [h EXCEPT !.chip = v] \in CoBoStates /\ [h EXCEPT !.mask = v] \in CoBoStates
           /\ v \in Buffers => [h EXCEPT !.buffer = v] \in CoBoStates
           /\ v \in SUBSET (Devices \X Groups \X Int) => [h EXCEPT !.set = v] \in CoBoStates
  <1>1. v \in BOOLEAN => /\ [h EXCEPT !.described = v] \in CoBoStates
                         /\ [h EXCEPT !.router = v] \in CoBoStates
                         /\ [h EXCEPT !.ready = v] \in CoBoStates
                         /\ [h EXCEPT !.running = v] \in CoBoStates
    BY DEF CoBoStates
  <1>2. v \in BOOLEAN => /\ [h EXCEPT !.pulsing = v] \in CoBoStates
                         /\ [h EXCEPT !.hitRegister = v] \in CoBoStates
                         /\ [h EXCEPT !.quiet = v] \in CoBoStates
    BY DEF CoBoStates
  <1>3. v \in SUBSET AsAds => /\ [h EXCEPT !.asadMask = v] \in CoBoStates
                              /\ [h EXCEPT !.power = v] \in CoBoStates
    BY DEF CoBoStates
  <1>4. v \in SUBSET Chips => /\ [h EXCEPT !.enabled = v] \in CoBoStates
                              /\ [h EXCEPT !.pulse = v] \in CoBoStates
                              /\ [h EXCEPT !.fast = v] \in CoBoStates
    BY DEF CoBoStates
  <1>5. /\ v \in AsAds => [h EXCEPT !.asad = v] \in CoBoStates
        /\ v \in Chips => [h EXCEPT !.chip = v] \in CoBoStates /\ [h EXCEPT !.mask = v] \in CoBoStates
    BY DEF CoBoStates
  <1>6. /\ v \in Buffers => [h EXCEPT !.buffer = v] \in CoBoStates
        /\ v \in SUBSET (Devices \X Groups \X Int) => [h EXCEPT !.set = v] \in CoBoStates
    BY DEF CoBoStates
  <1>. QED
    BY <1>1, <1>2, <1>3, <1>4, <1>5, <1>6

\* What is written is a setting.
LEMMA UnitsAreNumbers ==
    ASSUME NEW h \in CoBoStates, NEW a, Fit(a), a.op \in {"write", "field"}
    PROVE  Units(h, a) \subseteq Int
  <1>1. h.asadMask \subseteq AsAds /\ h.enabled \subseteq Chips /\ h.mask \in Chips
    BY DEF CoBoStates
  <1>2. AsAds \subseteq Int /\ Chips \subseteq Int /\ Whole \in Int
    BY DEF AsAds, Chips, Whole
  <1>3. Powered(h, h.enabled) \subseteq h.enabled
    BY DEF Powered
  <1>4. CASE a.arg.of = Masked
    <2>1. a.arg.of \notin Chips /\ a.arg.of # Reach
      BY <1>4 DEF Reach, Masked, Chips
    <2>2. Units(h, a) = {h.mask}
      BY <1>4, <2>1 DEF Units
    <2>. QED
      BY <1>1, <1>2, <2>2
  <1>5. CASE a.arg.of # Masked /\ a.arg.of \in Chips
    <2>1. a.arg.of # Reach
      BY <1>5 DEF Reach, Chips
    <2>2. Units(h, a) = {a.arg.of}
      BY <1>5, <2>1 DEF Units
    <2>. QED
      BY <1>2, <1>5, <2>2
  <1>6. CASE a.arg.of = Reach /\ a.dev = "asad"
    <2>1. a.arg.of # Masked /\ a.arg.of \notin Chips
      BY <1>6 DEF Reach, Masked, Chips
    <2>. QED
      BY <1>1, <1>2, <1>6, <2>1 DEF Units
  <1>7. CASE a.arg.of = Reach /\ a.dev = "aget"
    <2>1. a.arg.of # Masked /\ a.arg.of \notin Chips
      BY <1>7 DEF Reach, Masked, Chips
    <2>2. ~(a.arg.of = Reach /\ a.dev = "asad")
      BY <1>7
    <2>3. Units(h, a) = Powered(h, h.enabled)
      BY <1>7, <2>1, <2>2 DEF Units
    <2>. QED
      BY <1>1, <1>2, <1>3, <2>3
  <1>8. CASE a.arg.of # Masked /\ a.arg.of \notin Chips /\ ~(a.arg.of = Reach /\ a.dev \in {"asad", "aget"})
    <2>1. Units(h, a) = {Whole}
      BY <1>8 DEF Units
    <2>. QED
      BY <1>2, <2>1
  <1>. QED
    BY <1>4, <1>5, <1>6, <1>7, <1>8

\* The pulses of a slow control access change the mode of chips only.
LEMMA PulsedFits == ASSUME NEW h \in CoBoStates PROVE Pulsed(h) \in CoBoStates
  <1>. DEFINE v == IF h.hitRegister THEN h.fast \cup h.pulse ELSE h.fast \ h.pulse
  <1>1. Pulsed(h) = [h EXCEPT !.fast = v]
    BY DEF Pulsed
  <1>2. v \in SUBSET Chips
    BY DEF CoBoStates
  <1>. HIDE DEF v
  <1>. QED
    BY <1>1, <1>2, StateSet

\* What a write leaves set.
LEMMA WrittenFits ==
    ASSUME NEW h \in CoBoStates, NEW a, Fit(a), a.op \in {"write", "field"}
    PROVE  Written(h, a) \in CoBoStates
  <1>. DEFINE settings == {a.dev} \X a.arg.groups \X Units(h, a)
              v == IF a.arg.good THEN h.set \cup settings ELSE h.set \ settings
  <1>1. Written(h, a) = [h EXCEPT !.set = v]
    BY DEF Written
  <1>2. settings \subseteq Devices \X Groups \X Int
    <2>1. a.dev \in Devices /\ a.arg.groups \subseteq Groups /\ Units(h, a) \subseteq Int
      BY UnitsAreNumbers DEF Fit
    <2>. QED
      BY <2>1
  <1>3. h.set \subseteq Devices \X Groups \X Int
    BY DEF CoBoStates
  <1>. HIDE DEF settings
  <1>4. v \in SUBSET (Devices \X Groups \X Int)
    BY <1>2, <1>3
  <1>. HIDE DEF v
  <1>5. [h EXCEPT !.set = v] \in CoBoStates
    BY <1>4, StateSet
  <1>. QED
    BY <1>1, <1>5

\* Power off.
LEMMA PoweredOffFits == ASSUME NEW h \in CoBoStates, NEW i PROVE PoweredOff(h, i) \in CoBoStates
  <1>. DEFINE p == h.power \ {i}
              f == h.fast \ ChipsOf(i)
              s == {x \in h.set : ~ \/ x[1] = "asad" /\ x[3] = i
                                    \/ x[1] = "aget" /\ x[3] \in ChipsOf(i)}
  <1>1. PoweredOff(h, i) = [h EXCEPT !.power = p, !.fast = f, !.set = s]
    BY DEF PoweredOff
  <1>2. p \in SUBSET AsAds /\ f \in SUBSET Chips /\ s \in SUBSET (Devices \X Groups \X Int)
    BY DEF CoBoStates
  <1>. HIDE DEF p, f, s
  <1>3. PICK g : g = [h EXCEPT !.power = p]
    OBVIOUS
  <1>4. PICK e : e = [g EXCEPT !.fast = f]
    OBVIOUS
  <1>5. g \in CoBoStates /\ e \in CoBoStates /\ [e EXCEPT !.set = s] \in CoBoStates
    BY <1>2, <1>3, <1>4, StateSet
  <1>6. [e EXCEPT !.set = s] = [h EXCEPT !.power = p, !.fast = f, !.set = s]
    BY <1>3, <1>4
  <1>. QED
    BY <1>1, <1>5, <1>6

\* An access leaves a CoBo in a state.
LEMMA TurnedFits ==
    ASSUME NEW h \in CoBoStates, NEW a, Fit(a) PROVE Turned(h, a) \in CoBoStates
  <1>1. Suits(a.op, a.arg)
    BY DEF Fit, Typed
  <1>2. TRUE \in BOOLEAN /\ FALSE \in BOOLEAN
    OBVIOUS
  <1>3. CASE a.op \in {"describe", "router", "daqStart", "daqStop", "startPulser", "stopPulser"}
    BY <1>2, <1>3, StateSet DEF Turned, Calls, After
  <1>4. CASE a.op = "hitRegister"
    BY <1>4, StateSet DEF Turned, Calls, After, Fit
  <1>5. CASE a.op = "initDone"
    <2>1. PICK v \in BOOLEAN : v = (h.quiet /\ a.arg)
      OBVIOUS
    <2>2. Turned(h, a) = [h EXCEPT !.ready = a.arg, !.quiet = v]
      BY <1>5, <2>1 DEF Turned, Calls, After
    <2>3. PICK g : g = [h EXCEPT !.ready = a.arg]
      OBVIOUS
    <2>4. g \in CoBoStates
      BY <1>5, <2>3, StateSet DEF Fit
    <2>5. [g EXCEPT !.quiet = v] \in CoBoStates
      BY <2>4, StateSet
    <2>. QED
      BY <2>2, <2>3, <2>5
  <1>6. CASE a.op \in {"select", "enable", "pulse", "asad", "chip", "mask"}
    BY <1>1, <1>6, StateSet DEF Turned, Calls, After, Suits
  <1>7. CASE a.op \in {"fire", "check"}
    BY <1>7, PulsedFits DEF Turned, Calls, After
  <1>8. CASE a.op = "powerOn"
    <2>1. PICK v : v = h.power \cup {a.arg}
      OBVIOUS
    <2>2. v \in SUBSET AsAds
      BY <1>1, <1>8, <2>1 DEF Suits, CoBoStates
    <2>3. Turned(h, a) = [h EXCEPT !.power = v]
      BY <1>8, <2>1 DEF Turned, Calls, After
    <2>. QED
      BY <2>2, <2>3, StateSet
  <1>9. CASE a.op = "powerOff"
    BY <1>9, PoweredOffFits DEF Turned, Calls, After
  <1>10. CASE a.op = "buffer"
    <2>1. PICK v : v = [h.buffer EXCEPT ![a.arg.asad] = <<a.arg.start, a.arg.end>>]
      OBVIOUS
    <2>2. v \in Buffers
      BY <1>10, <2>1 DEF Fit, CoBoStates, Buffers
    <2>3. Turned(h, a) = [h EXCEPT !.buffer = v]
      BY <1>10, <2>1 DEF Turned, Calls, After
    <2>. QED
      BY <2>2, <2>3, StateSet
  <1>11. Touched(h, a) \in CoBoStates
    BY PulsedFits DEF Touched
  <1>12. CASE a.op \in {"write", "field"}
    <2>1. PICK g : g = Touched(h, a)
      OBVIOUS
    <2>2. Turned(h, a) = Written(g, a)
      BY <1>12, <2>1 DEF Turned, Calls, After
    <2>. QED
      BY <1>11, <1>12, <2>1, <2>2, WrittenFits
  <1>13. CASE a.op = "read"
    BY <1>11, <1>13 DEF Turned, Calls, After
  <1>14. CASE a.op = "removeAll"
    <2>1. PICK g : g = [h EXCEPT !.described = FALSE]
      OBVIOUS
    <2>2. g \in CoBoStates
      BY <1>2, <2>1, StateSet
    <2>3. [g EXCEPT !.router = FALSE] \in CoBoStates
      BY <1>2, <2>2, StateSet
    <2>4. Turned(h, a) = [h EXCEPT !.described = FALSE, !.router = FALSE]
      BY <1>14 DEF Turned, Calls
    <2>. QED
      BY <2>1, <2>3, <2>4
  <1>15. CASE a.op \in {"node", "device", "jump", "throw"}
    BY <1>15 DEF Turned, Calls
  <1>. QED
    BY <1>1, <1>3, <1>4, <1>5, <1>6, <1>7, <1>8, <1>9, <1>10, <1>12, <1>13, <1>14, <1>15 DEF Suits

-------------------------------------------------------------------------------
(* Routines and the states they keep                                           *)

\* A scope d says what the labels of the accesses stand for: whether they
\* reach the CoBo that is looked at, and which boards and chips their writes
\* must reach if d.strict.  In d.states are the states it may ever be in.
\* This is what an access needs of the CoBo.
Needs(h, a) ==
    /\ a.op = "field" /\ a.dev = "asad" => h.asad \in h.asadMask
    /\ a.op = "field" /\ a.dev = "aget" /\ h.enabled # {} => h.chip \in h.enabled
    /\ a.op \in {"write", "field"} /\ a.dev = "aget" =>
           IF a.arg.groups = {"hit"} THEN h.enabled \subseteq Pulsed(h).fast
                                     ELSE h.enabled \cap Pulsed(h).fast = {}
Meets(h, a, d) ==
    d.strict /\ d.mine[a.cobo] =>
        /\ a.op \in {"write", "field"} /\ a.dev = "asad" => h.asadMask \cap h.power = d.board[a.board]
        /\ a.op \in {"write", "field"} /\ a.dev = "aget" => Powered(h, h.enabled) = d.chip[a.chip]
        /\ Needs(h, a)
Passed(h, a, d) == IF d.mine[a.cobo] THEN Turned(h, a) ELSE h
\* It succeeds in one of these states: that of a CoBo to which a write was left
\* out is not known, until initDone is cleared.
Source(a, P, d) == IF d.mine[a.cobo] /\ a.op = "initDone" /\ ~a.arg THEN CoBoStates ELSE P

\* Where an access leads when it succeeds, and when it fails as well.
Leap(a, n) ==
    \/ a.op \notin {"jump", "throw"} /\ n = 1
    \/ a.op = "jump" /\ n = 1 + a.arg
    \/ a.op = "check" /\ a.arg.wrong # Raise /\ n = a.arg.wrong
Reaches(a, n) == Leap(a, n) \/ (a.rest # Raise /\ n = a.rest)

\* A part of a routine that leads no further than z accesses behind its end.
Block(s, z) ==
    /\ IsSeq(s) /\ z \in Nat
    /\ \A k \in 1 .. Len(s) :
           Fit(s[k]) /\ \A n : Reaches(s[k], n) => n \in 1 .. (Len(s) + 1 + z - k)

\* Each of its accesses keeps the CoBo in P.
Keeps(a, P, d) ==
    /\ \A h \in P : Meets(h, a, d)
    /\ \A h \in Source(a, P, d) : Passed(h, a, d) \in P
Stays(s, z, P, d) ==
    Block(s, z) /\ P \subseteq d.states /\ \A k \in 1 .. Len(s) : Keeps(s[k], P, d)

\* The accesses of which a failure leaves nothing unwritten.
Harmless(a) == a.op \in {"device", "asad", "chip", "read", "check"}

\* asn has the states that the CoBo may be in at each access.
Links(s, k, asn, d) ==
    /\ \A h \in asn[k] : Meets(h, s[k], d)
    /\ \A n : Leap(s[k], n) => \A h \in Source(s[k], asn[k], d) : Passed(h, s[k], d) \in asn[k + n]
    /\ s[k].rest # Raise
       /\ (~d.mine[s[k].cobo] \/ \A i \in k .. (k + s[k].rest - 1) : Harmless(s[i]))
           => asn[k] \subseteq asn[k + s[k].rest]
Way(s, asn, d) ==
    /\ asn \in [1 .. (Len(s) + 1) -> SUBSET d.states]
    /\ \A k \in 1 .. Len(s) : Links(s, k, asn, d)
\* A routine that is entered in a state of P is left in one of Q.
Carries(s, P, Q, d) ==
    Block(s, 0) /\ \E asn : Way(s, asn, d) /\ P \subseteq asn[1] /\ asn[Len(s) + 1] \subseteq Q

\* The length of a part.
LEMMA Lengths == ASSUME NEW s, IsSeq(s) PROVE Len(s) \in Nat /\ DOMAIN s = 1 .. Len(s)
  BY LenProperties DEF IsSeq

\* What each access keeps is kept.
LEMMA StaysCarries ==
    ASSUME NEW s, NEW P, NEW d, Stays(s, 0, P, d) PROVE Carries(s, P, P, d)
  <1>. DEFINE asn == [k \in 1 .. (Len(s) + 1) |-> P]
  <1>1. Block(s, 0) /\ P \subseteq d.states /\ Len(s) \in Nat
    BY Lengths DEF Stays, Block
  <1>2. \A k \in 1 .. (Len(s) + 1) : asn[k] = P
    OBVIOUS
  <1>3. asn \in [1 .. (Len(s) + 1) -> SUBSET d.states]
    BY <1>1
  <1>. HIDE DEF asn
  <1>4. ASSUME NEW k \in 1 .. Len(s) PROVE Links(s, k, asn, d)
    <2>1. Keeps(s[k], P, d) /\ asn[k] = P
      BY <1>1, <1>2 DEF Stays
    <2>2. ASSUME NEW n, Reaches(s[k], n) PROVE asn[k + n] = P
      <3>1. n \in 1 .. (Len(s) + 1 + 0 - k)
        BY <1>1, <2>2 DEF Block
      <3>2. k + n \in 1 .. (Len(s) + 1)
        BY <1>1, <3>1
      <3>. QED
        BY <1>2, <3>2
    <2>3. \A n : Leap(s[k], n) => asn[k + n] = P
      BY <2>2 DEF Reaches
    <2>4. s[k].rest # Raise => asn[k + s[k].rest] = P
      BY <2>2 DEF Reaches
    <2>. QED
      BY <2>1, <2>3, <2>4 DEF Links, Keeps
  <1>5. Way(s, asn, d)
    BY <1>3, <1>4 DEF Way
  <1>6. 1 \in 1 .. (Len(s) + 1) /\ Len(s) + 1 \in 1 .. (Len(s) + 1)
    BY <1>1
  <1>. QED
    BY <1>1, <1>2, <1>5, <1>6 DEF Carries

\* It may be entered in fewer states and left in more.
LEMMA Wider ==
    ASSUME NEW s, NEW P, NEW Q, NEW d, Carries(s, P, Q, d),
           NEW R, R \subseteq P, NEW T, Q \subseteq T
    PROVE  Carries(s, R, T, d)
  BY DEF Carries

\* A block may be said to lead further.
LEMMA Further ==
    ASSUME NEW s, NEW z, NEW y \in Nat, Block(s, z), z <= y PROVE Block(s, y)
  <1>1. z \in Nat /\ Len(s) \in Nat
    BY Lengths DEF Block
  <1>2. ASSUME NEW k \in 1 .. Len(s), NEW n \in 1 .. (Len(s) + 1 + z - k)
        PROVE  n \in 1 .. (Len(s) + 1 + y - k)
    BY <1>1
  <1>. QED
    BY <1>2 DEF Block

\* One block after another one, behind which it may lead.
LEMMA BlockThen ==
    ASSUME NEW s, NEW t, NEW z, NEW y, Block(s, z), Block(t, y), z <= Len(t) + y
    PROVE  Block(s \o t, y)
  <1>1. IsSeq(s) /\ IsSeq(t) /\ z \in Nat /\ y \in Nat
    BY DEF Block
  <1>2. /\ IsSeq(s \o t) /\ Len(s) \in Nat /\ Len(t) \in Nat
        /\ Len(s \o t) = Len(s) + Len(t)
    BY <1>1, Concatenated
  <1>3. \A k \in 1 .. Len(s \o t) :
            \/ k \in 1 .. Len(s) /\ (s \o t)[k] = s[k]
            \/ k - Len(s) \in 1 .. Len(t) /\ (s \o t)[k] = t[k - Len(s)]
    BY <1>1, Elements
  <1>. DEFINE u == s \o t
  <1>. HIDE DEF u
  <1>4. ASSUME NEW k \in 1 .. Len(u)
        PROVE  Fit(u[k]) /\ \A n : Reaches(u[k], n) => n \in 1 .. (Len(u) + 1 + y - k)
    <2>1. CASE k \in 1 .. Len(s) /\ u[k] = s[k]
      <3>1. Fit(u[k]) /\ \A n : Reaches(u[k], n) => n \in 1 .. (Len(s) + 1 + z - k)
        BY <2>1 DEF Block
      <3>2. \A n \in 1 .. (Len(s) + 1 + z - k) : n \in 1 .. (Len(u) + 1 + y - k)
        BY <1>1, <1>2, <2>1 DEF u
      <3>. QED
        BY <3>1, <3>2
    <2>2. CASE k - Len(s) \in 1 .. Len(t) /\ u[k] = t[k - Len(s)]
      <3>1. PICK j : j = k - Len(s)
        OBVIOUS
      <3>2. Fit(u[k]) /\ \A n : Reaches(u[k], n) => n \in 1 .. (Len(t) + 1 + y - j)
        BY <2>2, <3>1 DEF Block
      <3>3. Len(t) + 1 + y - j = Len(u) + 1 + y - k
        BY <1>1, <1>2, <3>1 DEF u
      <3>. QED
        BY <3>2, <3>3
    <2>. QED
      BY <1>3, <2>1, <2>2 DEF u
  <1>5. Block(u, y)
    BY <1>1, <1>2, <1>4 DEF Block, u
  <1>. QED
    BY <1>5 DEF u

\* What both keep, both together keep.
LEMMA StaysThen ==
    ASSUME NEW s, NEW t, NEW z, NEW y, NEW P, NEW d, Stays(s, z, P, d), Stays(t, y, P, d),
           z <= Len(t) + y
    PROVE  Stays(s \o t, y, P, d)
  <1>1. Block(s \o t, y)
    BY BlockThen DEF Stays
  <1>2. IsSeq(s) /\ IsSeq(t)
    BY DEF Stays, Block
  <1>3. \A k \in 1 .. Len(s \o t) :
            \/ k \in 1 .. Len(s) /\ (s \o t)[k] = s[k]
            \/ k - Len(s) \in 1 .. Len(t) /\ (s \o t)[k] = t[k - Len(s)]
    BY <1>2, Elements
  <1>. QED
    BY <1>1, <1>3 DEF Stays

\* One routine after another one.
LEMMA CarriesThen ==
    ASSUME NEW s, NEW t, NEW P, NEW Q, NEW R, NEW d, Carries(s, P, Q, d), Carries(t, Q, R, d)
    PROVE  Carries(s \o t, P, R, d)
  <1>1. PICK ds : Way(s, ds, d) /\ P \subseteq ds[1] /\ ds[Len(s) + 1] \subseteq Q
    BY DEF Carries
  <1>2. PICK dt : Way(t, dt, d) /\ Q \subseteq dt[1] /\ dt[Len(t) + 1] \subseteq R
    BY DEF Carries
  <1>. DEFINE u == s \o t
              m == Len(s)
              n == Len(t)
              asn == [k \in 1 .. (m + n + 1) |-> IF k <= m THEN ds[k] ELSE dt[k - m]]
  <1>3. IsSeq(s) /\ IsSeq(t) /\ Block(s, 0) /\ Block(t, 0)
    BY DEF Carries, Block
  <1>4. /\ m \in Nat /\ n \in Nat /\ Len(u) = m + n
        /\ \A k \in 1 .. m : u[k] = s[k]
        /\ \A k \in 1 .. n : u[m + k] = t[k]
    BY <1>3, Concatenated
  <1>5. Block(u, 0)
    BY <1>3, <1>4, BlockThen
  <1>6. /\ ds \in [1 .. (m + 1) -> SUBSET d.states] /\ dt \in [1 .. (n + 1) -> SUBSET d.states]
        /\ \A k \in 1 .. m : Links(s, k, ds, d)
        /\ \A k \in 1 .. n : Links(t, k, dt, d)
        /\ ds[m + 1] \subseteq dt[1]
    BY <1>1, <1>2 DEF Way
  <1>7. /\ \A k \in 1 .. m : \A i : Reaches(s[k], i) => i \in 1 .. (m + 1 - k)
        /\ \A k \in 1 .. n : \A i : Reaches(t[k], i) => i \in 1 .. (n + 1 - k)
    <2>1. \A x, k \in Int : x + 1 + 0 - k = x + 1 - k
      OBVIOUS
    <2>. QED
      BY <1>3, <1>4, <2>1 DEF Block
  <1>. HIDE DEF u, m, n
  <1>8. \A k \in 1 .. m : asn[k] = ds[k]
    BY <1>4
  <1>9. ASSUME NEW k \in 1 .. (n + 1) PROVE asn[m + k] = dt[k]
    <2>1. PICK i : i = m + k
      OBVIOUS
    <2>2. i \in 1 .. (m + n + 1) /\ ~(i <= m) /\ i - m = k
      BY <1>4, <2>1
    <2>3. asn[i] = dt[i - m]
      BY <2>2
    <2>. QED
      BY <2>1, <2>2, <2>3
  <1>10. asn \in [1 .. (m + n + 1) -> SUBSET d.states]
    <2>1. \A k \in 1 .. (m + n + 1) : IF k <= m THEN k \in 1 .. (m + 1) ELSE k - m \in 1 .. (n + 1)
      BY <1>4
    <2>. QED
      BY <1>6, <2>1
  <1>. HIDE DEF asn
  <1>11. ASSUME NEW k \in 1 .. (m + 1) PROVE ds[k] \subseteq asn[k]
    <2>1. CASE k \in 1 .. m
      BY <1>8, <2>1
    <2>2. CASE k = m + 1
      <3>1. 1 \in 1 .. (n + 1)
        BY <1>4
      <3>. QED
        BY <1>6, <1>9, <2>2, <3>1
    <2>. QED
      BY <1>4, <2>1, <2>2
  <1>12. ASSUME NEW k \in 1 .. m PROVE Links(u, k, asn, d)
    <2>1. u[k] = s[k] /\ asn[k] = ds[k] /\ Links(s, k, ds, d)
      BY <1>4, <1>6, <1>8
    <2>2. ASSUME NEW i, Reaches(s[k], i) PROVE ds[k + i] \subseteq asn[k + i]
      <3>1. i \in 1 .. (m + 1 - k)
        BY <1>7, <2>2
      <3>2. k + i \in 1 .. (m + 1)
        BY <1>4, <3>1
      <3>. QED
        BY <1>11, <3>2
    <2>3. \A i : Leap(u[k], i) =>
              \A h \in Source(u[k], asn[k], d) : Passed(h, u[k], d) \in asn[k + i]
      BY <2>1, <2>2 DEF Links, Reaches
    <2>4. ASSUME u[k].rest # Raise,
                 ~d.mine[u[k].cobo] \/ \A i \in k .. (k + u[k].rest - 1) : Harmless(u[i])
          PROVE  asn[k] \subseteq asn[k + u[k].rest]
      <3>1. PICK r : r = s[k].rest
        OBVIOUS
      <3>2. r \in 1 .. (m + 1 - k)
        BY <1>7, <2>1, <2>4, <3>1 DEF Reaches
      <3>3. \A i \in k .. (k + r - 1) : i \in 1 .. m
        BY <1>4, <3>2
      <3>4. \A i \in k .. (k + r - 1) : u[i] = s[i]
        BY <1>4, <3>3
      <3>5. ds[k] \subseteq ds[k + r]
        BY <2>1, <2>4, <3>1, <3>4 DEF Links
      <3>6. ds[k + r] \subseteq asn[k + r]
        BY <2>1, <2>2, <2>4, <3>1 DEF Reaches
      <3>. QED
        BY <2>1, <3>1, <3>5, <3>6
    <2>5. \A h \in asn[k] : Meets(h, u[k], d)
      BY <2>1 DEF Links
    <2>. QED
      BY <2>3, <2>4, <2>5 DEF Links
  <1>13. ASSUME NEW k \in 1 .. n PROVE Links(u, m + k, asn, d)
    <2>1. u[m + k] = t[k] /\ asn[m + k] = dt[k] /\ Links(t, k, dt, d)
      BY <1>4, <1>6, <1>9
    <2>2. ASSUME NEW i, Reaches(t[k], i) PROVE dt[k + i] = asn[m + k + i]
      <3>1. i \in 1 .. (n + 1 - k)
        BY <1>7, <2>2
      <3>2. k + i \in 1 .. (n + 1) /\ m + k + i = m + (k + i)
        BY <1>4, <3>1
      <3>. QED
        BY <1>9, <3>2
    <2>3. \A i : Leap(u[m + k], i) =>
              \A h \in Source(u[m + k], asn[m + k], d) : Passed(h, u[m + k], d) \in asn[m + k + i]
      BY <2>1, <2>2 DEF Links, Reaches
    <2>4. ASSUME u[m + k].rest # Raise,
                 ~d.mine[u[m + k].cobo]
                     \/ \A i \in (m + k) .. (m + k + u[m + k].rest - 1) : Harmless(u[i])
          PROVE  asn[m + k] \subseteq asn[m + k + u[m + k].rest]
      <3>1. PICK r : r = t[k].rest
        OBVIOUS
      <3>2. r \in 1 .. (n + 1 - k)
        BY <1>7, <2>1, <2>4, <3>1 DEF Reaches
      <3>3. \A i \in k .. (k + r - 1) : i \in 1 .. n /\ m + i \in (m + k) .. (m + k + r - 1)
        BY <1>4, <3>2
      <3>4. \A i \in k .. (k + r - 1) : u[m + i] = t[i]
        BY <1>4, <3>3
      <3>5. dt[k] \subseteq dt[k + r]
        BY <2>1, <2>4, <3>1, <3>3, <3>4 DEF Links
      <3>6. dt[k + r] = asn[m + k + r]
        BY <2>1, <2>2, <2>4, <3>1 DEF Reaches
      <3>. QED
        BY <2>1, <3>1, <3>5, <3>6
    <2>5. \A h \in asn[m + k] : Meets(h, u[m + k], d)
      BY <2>1 DEF Links
    <2>. QED
      BY <2>3, <2>4, <2>5 DEF Links
  <1>14. \A k \in 1 .. (m + n) : k \in 1 .. m \/ \E i \in 1 .. n : k = m + i
    <2>. SUFFICES ASSUME NEW k \in 1 .. (m + n), k \notin 1 .. m PROVE \E i \in 1 .. n : k = m + i
      OBVIOUS
    <2>1. k - m \in 1 .. n /\ k = m + (k - m)
      BY <1>4
    <2>. QED
      BY <2>1
  <1>15. Way(u, asn, d)
    <2>1. \A k \in 1 .. Len(u) : Links(u, k, asn, d)
      BY <1>4, <1>12, <1>13, <1>14
    <2>. QED
      BY <1>4, <1>10, <2>1 DEF Way
  <1>16. P \subseteq asn[1] /\ asn[Len(u) + 1] \subseteq R
    <2>1. 1 \in 1 .. (m + 1) /\ n + 1 \in 1 .. (n + 1) /\ Len(u) + 1 = m + (n + 1)
      BY <1>4
    <2>. QED
      BY <1>1, <1>2, <1>9, <1>11, <2>1 DEF n
  <1>. QED
    BY <1>5, <1>15, <1>16 DEF Carries, u

\* Access b means in scope d what access a means in scope e.
Means(b, d, a, e) ==
    /\ b.op = a.op /\ b.dev = a.dev /\ b.arg = a.arg /\ d.strict = e.strict
    /\ d.mine[b.cobo] = e.mine[a.cobo] /\ d.board[b.board] = e.board[a.board]
    /\ d.chip[b.chip] = e.chip[a.chip] /\ d.states = e.states

\* It does the same.
LEMMA SameMeaning ==
    ASSUME NEW b, NEW d, NEW a, NEW e, Means(b, d, a, e)
    PROVE  /\ \A h : Passed(h, b, d) = Passed(h, a, e)
           /\ \A h : Meets(h, a, e) => Meets(h, b, d)
           /\ \A P : Source(b, P, d) = Source(a, P, e)
           /\ \A P : Keeps(a, P, e) => Keeps(b, P, d)
           /\ \A n : Leap(b, n) <=> Leap(a, n)
           /\ Harmless(b) <=> Harmless(a)
  <1>1. ASSUME NEW h PROVE Passed(h, b, d) = Passed(h, a, e)
    <2>1. ASSUME NEW g PROVE Units(g, b) = Units(g, a)
      BY DEF Means, Units
    <2>2. ASSUME NEW g PROVE Written(g, b) = Written(g, a)
      BY <2>1 DEF Means, Written
    <2>3. Touched(h, b) = Touched(h, a)
      BY DEF Means, Touched
    <2>4. After(h, b) = After(h, a)
      <3>1. Written(Touched(h, b), b) = Written(Touched(h, a), a)
        BY <2>2, <2>3
      <3>. QED
        BY <2>3, <3>1 DEF Means, After
    <2>5. Turned(h, b) = Turned(h, a)
      BY <2>4 DEF Means, Turned, Calls
    <2>. QED
      BY <2>5 DEF Means, Passed
  <1>2. ASSUME NEW h, Meets(h, a, e) PROVE Meets(h, b, d)
    <2>1. Needs(h, a) => Needs(h, b)
      BY DEF Means, Needs
    <2>. QED
      BY <1>2, <2>1 DEF Means, Meets
  <1>3. \A P : Source(b, P, d) = Source(a, P, e)
    BY DEF Means, Source
  <1>4. \A P : Keeps(a, P, e) => Keeps(b, P, d)
    BY <1>1, <1>2, <1>3 DEF Keeps
  <1>5. (\A n : Leap(b, n) <=> Leap(a, n)) /\ (Harmless(b) <=> Harmless(a))
    BY DEF Means, Leap, Harmless
  <1>. QED
    BY <1>1, <1>2, <1>3, <1>4, <1>5

\* A routine with other labels, in a scope that reads them alike.
LEMMA SameRoutine ==
    ASSUME NEW s, NEW t, NEW d, NEW e, IsSeq(t), Len(t) = Len(s),
           \A k \in 1 .. Len(s) : Means(t[k], d, s[k], e) /\ Fit(t[k]) /\ t[k].rest = s[k].rest,
           d.states = e.states
    PROVE  /\ \A z : Block(s, z) => Block(t, z)
           /\ \A z, P : Stays(s, z, P, e) => Stays(t, z, P, d)
           /\ \A P, Q : Carries(s, P, Q, e) => Carries(t, P, Q, d)
  <1>1. \A k \in 1 .. Len(s) : \A n : Reaches(t[k], n) => Reaches(s[k], n)
    BY SameMeaning DEF Reaches
  <1>2. ASSUME NEW z, Block(s, z) PROVE Block(t, z)
    BY <1>1, <1>2 DEF Block
  <1>3. ASSUME NEW z, NEW P, Stays(s, z, P, e) PROVE Stays(t, z, P, d)
    <2>1. \A k \in 1 .. Len(s) : Keeps(t[k], P, d)
      BY <1>3, SameMeaning DEF Stays
    <2>. QED
      BY <1>2, <1>3, <2>1 DEF Stays
  <1>4. ASSUME NEW P, NEW Q, Carries(s, P, Q, e) PROVE Carries(t, P, Q, d)
    <2>1. PICK asn : Way(s, asn, e) /\ P \subseteq asn[1] /\ asn[Len(s) + 1] \subseteq Q
      BY <1>4 DEF Carries
    <2>2. Block(s, 0) /\ Len(s) \in Nat
      BY <1>4, Lengths DEF Carries, Block
    <2>3. ASSUME NEW k \in 1 .. Len(t) PROVE Links(t, k, asn, d)
      <3>1. Links(s, k, asn, e)
        BY <2>1, <2>3 DEF Way
      <3>2. Means(t[k], d, s[k], e) /\ t[k].rest = s[k].rest
        BY <2>3
      <3>3. \A h \in asn[k] : Meets(h, t[k], d)
        BY <3>1, <3>2, SameMeaning DEF Links
      <3>4. \A n : Leap(t[k], n) =>
                \A h \in Source(t[k], asn[k], d) : Passed(h, t[k], d) \in asn[k + n]
        BY <3>1, <3>2, SameMeaning DEF Links
      <3>5. ASSUME t[k].rest # Raise,
                   ~d.mine[t[k].cobo] \/ \A i \in k .. (k + t[k].rest - 1) : Harmless(t[i])
            PROVE  asn[k] \subseteq asn[k + t[k].rest]
        <4>1. PICK r : r = s[k].rest
          OBVIOUS
        <4>2. r \in 1 .. (Len(s) + 1 + 0 - k)
          BY <2>2, <2>3, <3>2, <3>5, <4>1 DEF Block, Reaches
        <4>3. \A i \in k .. (k + r - 1) : i \in 1 .. Len(s)
          BY <2>2, <2>3, <4>2
        <4>4. \A i \in k .. (k + r - 1) : Harmless(t[i]) => Harmless(s[i])
          BY <4>3, SameMeaning
        <4>5. d.mine[t[k].cobo] = e.mine[s[k].cobo]
          BY <3>2 DEF Means
        <4>. QED
          BY <3>1, <3>2, <3>5, <4>1, <4>4, <4>5 DEF Links
      <3>. QED
        BY <3>3, <3>4, <3>5 DEF Links
    <2>4. Way(t, asn, d)
      BY <2>1, <2>3 DEF Way
    <2>. QED
      BY <1>2, <2>1, <2>2, <2>4 DEF Carries
  <1>. QED
    BY <1>2, <1>3, <1>4

\* The scopes in which a routine is looked at that is meant for CoBo c, board i
\* or chip k.
ForCoBo(d, c) == [mine |-> [l \in Int |-> d.mine[c]], board |-> d.board, chip |-> d.chip,
                  strict |-> d.strict, states |-> d.states]
ForBoard(d, i) == [mine |-> d.mine, board |-> [l \in Int |-> d.board[i]], chip |-> d.chip,
                   strict |-> d.strict, states |-> d.states]
ForChip(d, k) == [mine |-> d.mine, board |-> d.board, chip |-> [l \in Int |-> d.chip[k]],
                  strict |-> d.strict, states |-> d.states]

\* Other labels.
LEMMA Labelled ==
    ASSUME NEW a, Fit(a), NEW c \in Int, NEW d
    PROVE  /\ \A b : b = [a EXCEPT !.cobo = c] => Fit(b) /\ b.rest = a.rest /\ Means(b, d, a, ForCoBo(d, c))
           /\ \A b : b = [a EXCEPT !.board = c] => Fit(b) /\ b.rest = a.rest /\ Means(b, d, a, ForBoard(d, c))
           /\ \A b : b = [a EXCEPT !.chip = c] => Fit(b) /\ b.rest = a.rest /\ Means(b, d, a, ForChip(d, c))
  <1>1. Typed(a) /\ a.cobo \in Int /\ a.board \in Int /\ a.chip \in Int
    BY DEF Fit
  <1>2. ASSUME NEW b, b = [a EXCEPT !.cobo = c]
        PROVE  Fit(b) /\ b.rest = a.rest /\ Means(b, d, a, ForCoBo(d, c))
    <2>1. Typed(b) /\ Alike(b, a) /\ b.rest = a.rest
      BY <1>1, <1>2, Relabelled
    <2>2. b.cobo = c /\ b.board = a.board /\ b.chip = a.chip
      BY <1>1, <1>2 DEF Typed
    <2>3. Fit(b)
      BY <2>1, <2>2 DEF Fit, Alike
    <2>. QED
      BY <1>1, <2>1, <2>2, <2>3 DEF Means, ForCoBo, Alike
  <1>3. ASSUME NEW b, b = [a EXCEPT !.board = c]
        PROVE  Fit(b) /\ b.rest = a.rest /\ Means(b, d, a, ForBoard(d, c))
    <2>1. Typed(b) /\ Alike(b, a) /\ b.rest = a.rest
      BY <1>1, <1>3, Relabelled
    <2>2. b.cobo = a.cobo /\ b.board = c /\ b.chip = a.chip
      BY <1>1, <1>3 DEF Typed
    <2>3. Fit(b)
      BY <2>1, <2>2 DEF Fit, Alike
    <2>. QED
      BY <1>1, <2>1, <2>2, <2>3 DEF Means, ForBoard, Alike
  <1>4. ASSUME NEW b, b = [a EXCEPT !.chip = c]
        PROVE  Fit(b) /\ b.rest = a.rest /\ Means(b, d, a, ForChip(d, c))
    <2>1. Typed(b) /\ Alike(b, a) /\ b.rest = a.rest
      BY <1>1, <1>4, Relabelled
    <2>2. b.cobo = a.cobo /\ b.board = a.board /\ b.chip = c
      BY <1>1, <1>4 DEF Typed
    <2>3. Fit(b)
      BY <2>1, <2>2 DEF Fit, Alike
    <2>. QED
      BY <1>1, <2>1, <2>2, <2>3 DEF Means, ForChip, Alike
  <1>. QED
    BY <1>2, <1>3, <1>4

\* What a routine is meant for decides what its writes must reach.
LEMMA Targeted ==
    ASSUME NEW s, NEW c \in Int, NEW d, Block(s, 0)
    PROVE  /\ \A P : Stays(s, 0, P, ForCoBo(d, c)) => Stays(On(c, s), 0, P, d)
           /\ \A P : Stays(s, 0, P, ForBoard(d, c)) => Stays(OnBoard(c, s), 0, P, d)
           /\ \A P : Stays(s, 0, P, ForChip(d, c)) => Stays(OnChip(c, s), 0, P, d)
           /\ \A P, Q : Carries(s, P, Q, ForCoBo(d, c)) => Carries(On(c, s), P, Q, d)
           /\ \A P, Q : Carries(s, P, Q, ForBoard(d, c)) => Carries(OnBoard(c, s), P, Q, d)
           /\ \A P, Q : Carries(s, P, Q, ForChip(d, c)) => Carries(OnChip(c, s), P, Q, d)
           /\ Block(On(c, s), 0) /\ Block(OnBoard(c, s), 0) /\ Block(OnChip(c, s), 0)
  <1>1. IsSeq(s) /\ \A k \in 1 .. Len(s) : Fit(s[k])
    BY DEF Block
  <1>2. DOMAIN s = 1 .. Len(s)
    BY <1>1, Lengths
  <1>3. /\ IsSeq(On(c, s)) /\ Len(On(c, s)) = Len(s)
        /\ IsSeq(OnBoard(c, s)) /\ Len(OnBoard(c, s)) = Len(s)
        /\ IsSeq(OnChip(c, s)) /\ Len(OnChip(c, s)) = Len(s)
    BY <1>1, Elementwise DEF On, OnBoard, OnChip
  <1>4. d.states = ForCoBo(d, c).states /\ d.states = ForBoard(d, c).states /\ d.states = ForChip(d, c).states
    BY DEF ForCoBo, ForBoard, ForChip
  <1>5. ASSUME NEW k \in 1 .. Len(s)
        PROVE  /\ Means(On(c, s)[k], d, s[k], ForCoBo(d, c)) /\ Fit(On(c, s)[k])
               /\ On(c, s)[k].rest = s[k].rest
    <2>1. On(c, s)[k] = [s[k] EXCEPT !.cobo = c]
      BY <1>2 DEF On
    <2>. QED
      BY <1>1, <2>1, Labelled
  <1>6. ASSUME NEW k \in 1 .. Len(s)
        PROVE  /\ Means(OnBoard(c, s)[k], d, s[k], ForBoard(d, c)) /\ Fit(OnBoard(c, s)[k])
               /\ OnBoard(c, s)[k].rest = s[k].rest
    <2>1. OnBoard(c, s)[k] = [s[k] EXCEPT !.board = c]
      BY <1>2 DEF OnBoard
    <2>. QED
      BY <1>1, <2>1, Labelled
  <1>7. ASSUME NEW k \in 1 .. Len(s)
        PROVE  /\ Means(OnChip(c, s)[k], d, s[k], ForChip(d, c)) /\ Fit(OnChip(c, s)[k])
               /\ OnChip(c, s)[k].rest = s[k].rest
    <2>1. OnChip(c, s)[k] = [s[k] EXCEPT !.chip = c]
      BY <1>2 DEF OnChip
    <2>. QED
      BY <1>1, <2>1, Labelled
  <1>8. /\ \A P : Stays(s, 0, P, ForCoBo(d, c)) => Stays(On(c, s), 0, P, d)
        /\ \A P, Q : Carries(s, P, Q, ForCoBo(d, c)) => Carries(On(c, s), P, Q, d)
        /\ Block(On(c, s), 0)
    BY <1>3, <1>4, <1>5, SameRoutine
  <1>9. /\ \A P : Stays(s, 0, P, ForBoard(d, c)) => Stays(OnBoard(c, s), 0, P, d)
        /\ \A P, Q : Carries(s, P, Q, ForBoard(d, c)) => Carries(OnBoard(c, s), P, Q, d)
        /\ Block(OnBoard(c, s), 0)
    BY <1>3, <1>4, <1>6, SameRoutine
  <1>10. /\ \A P : Stays(s, 0, P, ForChip(d, c)) => Stays(OnChip(c, s), 0, P, d)
         /\ \A P, Q : Carries(s, P, Q, ForChip(d, c)) => Carries(OnChip(c, s), P, Q, d)
         /\ Block(OnChip(c, s), 0)
    BY <1>3, <1>4, <1>7, SameRoutine
  <1>. QED
    BY <1>8, <1>9, <1>10

\* An access that goes on elsewhere after an error is the same but for that.
LEMMA GoingElsewhere ==
    ASSUME NEW a, Fit(a), NEW r \in Int, NEW b, b = [a EXCEPT !.rest = r], NEW d
    PROVE  Fit(b) /\ b.rest = r /\ Means(b, d, a, d)
  <1>1. Typed(a)
    BY DEF Fit
  <1>2. Typed(b) /\ Alike(b, a) /\ b.rest = r
    BY <1>1, Redirected
  <1>3. b.cobo = a.cobo /\ b.board = a.board /\ b.chip = a.chip
    BY <1>1 DEF Typed
  <1>. QED
    BY <1>2, <1>3 DEF Fit, Means, Alike

\* The accesses of a block whose errors go on y accesses behind it.
LEMMA OnErrors ==
    ASSUME NEW s, NEW z, Block(s, z), NEW y \in Nat, NEW d
    PROVE  /\ IsSeq(OnError(s, y)) /\ Len(OnError(s, y)) = Len(s)
           /\ \A k \in 1 .. Len(s) :
                  LET b == OnError(s, y)[k] IN
                  /\ Fit(b) /\ Means(b, d, s[k], d)
                  /\ s[k].rest # Raise => b.rest = s[k].rest
                  /\ s[k].rest = Raise => b.rest = Len(s) - k + 1 + y
                  /\ b.rest # Raise
  <1>1. IsSeq(s) /\ Len(s) \in Nat /\ DOMAIN s = 1 .. Len(s) /\ \A k \in 1 .. Len(s) : Fit(s[k])
    BY Lengths DEF Block
  <1>2. IsSeq(OnError(s, y)) /\ Len(OnError(s, y)) = Len(s)
    BY <1>1, Elementwise DEF OnError
  <1>3. ASSUME NEW k \in 1 .. Len(s)
        PROVE  LET b == OnError(s, y)[k] IN
               /\ Fit(b) /\ Means(b, d, s[k], d)
               /\ s[k].rest # Raise => b.rest = s[k].rest
               /\ s[k].rest = Raise => b.rest = Len(s) - k + 1 + y
               /\ b.rest # Raise
    <2>1. PICK b : b = OnError(s, y)[k]
      OBVIOUS
    <2>2. PICK r : r = Len(s) - k + 1 + y
      OBVIOUS
    <2>3. r \in Int /\ r # Raise
      BY <1>1, <2>2 DEF Raise
    <2>4. b = IF s[k].rest = Raise THEN [s[k] EXCEPT !.rest = r] ELSE s[k]
      BY <1>1, <2>1, <2>2 DEF OnError
    <2>5. CASE s[k].rest # Raise
      BY <1>1, <2>1, <2>4, <2>5 DEF Means
    <2>6. CASE s[k].rest = Raise
      <3>1. Fit(b) /\ b.rest = r /\ Means(b, d, s[k], d)
        BY <1>1, <2>3, <2>4, <2>6, GoingElsewhere
      <3>. QED
        BY <2>1, <2>2, <2>3, <2>6, <3>1
    <2>. QED
      BY <2>5, <2>6
  <1>. QED
    BY <1>2, <1>3

\* It keeps what the block keeps.
LEMMA StaysCaught ==
    ASSUME NEW s, NEW z, NEW y \in Nat, NEW x \in Nat, z <= x, y <= x
    PROVE  /\ Block(s, z) => Block(OnError(s, y), x)
           /\ \A P, d : Stays(s, z, P, d) => Stays(OnError(s, y), x, P, d)
  <1>. DEFINE t == OnError(s, y)
  <1>1. ASSUME Block(s, z) PROVE Block(t, x)
    <2>1. /\ IsSeq(t) /\ Len(t) = Len(s)
          /\ \A d : \A k \in 1 .. Len(s) :
                  /\ Fit(t[k]) /\ Means(t[k], d, s[k], d)
                  /\ s[k].rest # Raise => t[k].rest = s[k].rest
                  /\ s[k].rest = Raise => t[k].rest = Len(s) - k + 1 + y
      BY <1>1, OnErrors
    <2>. HIDE DEF t
    <2>2. Len(s) \in Nat /\ z \in Nat
      BY <1>1, Lengths DEF Block
    <2>3. ASSUME NEW k \in 1 .. Len(s), NEW n, Reaches(t[k], n) PROVE n \in 1 .. (Len(s) + 1 + x - k)
      <3>1. Means(t[k], 0, s[k], 0)
        BY <2>1
      <3>2. \A i : Leap(t[k], i) <=> Leap(s[k], i)
        BY <3>1, SameMeaning
      <3>3. CASE Reaches(s[k], n)
        <4>1. n \in 1 .. (Len(s) + 1 + z - k)
          BY <1>1, <3>3 DEF Block
        <4>. QED
          BY <2>2, <4>1
      <3>4. CASE ~Reaches(s[k], n)
        <4>1. n = Len(s) - k + 1 + y
          BY <2>1, <2>3, <3>2, <3>4 DEF Reaches
        <4>. QED
          BY <2>2, <4>1
      <3>. QED
        BY <3>3, <3>4
    <2>. QED
      BY <2>1, <2>3 DEF Block
  <1>2. ASSUME NEW P, NEW d, Stays(s, z, P, d) PROVE Stays(t, x, P, d)
    <2>1. Block(s, z) /\ Block(t, x)
      BY <1>1, <1>2 DEF Stays
    <2>2. Len(t) = Len(s) /\ \A k \in 1 .. Len(s) : Means(t[k], d, s[k], d)
      BY <2>1, OnErrors
    <2>3. \A k \in 1 .. Len(t) : Keeps(t[k], P, d)
      BY <1>2, <2>2, SameMeaning DEF Stays
    <2>. QED
      BY <1>2, <2>1, <2>3 DEF Stays
  <1>. QED
    BY <1>1, <1>2

\* A part of one access.
LEMMA OneBlock ==
    ASSUME NEW op, NEW dev, NEW arg, Fit(Access(op, dev, arg)[1]), op \notin {"jump", "check"}
    PROVE  /\ Block(Access(op, dev, arg), 0) /\ Len(Access(op, dev, arg)) = 1
           /\ \A P, d : P \subseteq d.states /\ Keeps(Access(op, dev, arg)[1], P, d)
                            => Stays(Access(op, dev, arg), 0, P, d)
  <1>. DEFINE s == Access(op, dev, arg)
  <1>1. Len(s) = 1 /\ IsSeq(s) /\ s[1].op = op /\ s[1].rest = Raise
    BY DEF Access, IsSeq
  <1>. HIDE DEF s
  <1>2. \A k \in 1 .. Len(s) : k = 1
    BY <1>1
  <1>3. ASSUME NEW n, Reaches(s[1], n) PROVE n \in 1 .. (Len(s) + 1 + 0 - 1)
    BY <1>1, <1>3 DEF Reaches, Leap
  <1>4. Block(s, 0)
    BY <1>1, <1>2, <1>3 DEF Block, s
  <1>. QED
    BY <1>1, <1>2, <1>4 DEF Stays, s

\* One access that leads from P to Q.
LEMMA OneCarries ==
    ASSUME NEW op, NEW dev, NEW arg, NEW P, NEW Q, NEW d, Fit(Access(op, dev, arg)[1]),
           op \notin {"jump", "check"}, P \subseteq d.states, Q \subseteq d.states,
           \A h \in P : Meets(h, Access(op, dev, arg)[1], d),
           op # "throw" => \A h \in Source(Access(op, dev, arg)[1], P, d) :
                               Passed(h, Access(op, dev, arg)[1], d) \in Q
    PROVE  Carries(Access(op, dev, arg), P, Q, d)
  <1>. DEFINE s == Access(op, dev, arg)
              asn == [k \in 1 .. 2 |-> IF k = 1 THEN P ELSE Q]
  <1>1. Len(s) = 1 /\ s[1].op = op /\ s[1].rest = Raise
    BY DEF Access
  <1>2. Block(s, 0)
    BY OneBlock
  <1>3. asn \in [1 .. 2 -> SUBSET d.states] /\ asn[1] = P /\ asn[2] = Q
    OBVIOUS
  <1>. HIDE DEF s, asn
  <1>4. Links(s, 1, asn, d)
    <2>1. \A n : Leap(s[1], n) => n = 1 /\ op # "throw"
      BY <1>1 DEF Leap
    <2>2. 1 + 1 = 2
      OBVIOUS
    <2>. QED
      BY <1>1, <1>3, <2>1, <2>2 DEF Links, s
  <1>5. Way(s, asn, d)
    BY <1>1, <1>3, <1>4 DEF Way
  <1>6. Len(s) + 1 = 2
    BY <1>1
  <1>. QED
    BY <1>2, <1>3, <1>5, <1>6 DEF Carries, s

\* A jump over n accesses.
LEMMA JumpStays ==
    ASSUME NEW n \in Nat
    PROVE  Block(Jump(n), n) /\ Len(Jump(n)) = 1
           /\ \A P, d : P \subseteq d.states => Stays(Jump(n), n, P, d)
  <1>. DEFINE s == Jump(n)
              a == s[1]
  <1>1. /\ Len(s) = 1 /\ IsSeq(s) /\ a.op = "jump" /\ a.dev = "none" /\ a.arg = n /\ a.rest = Raise
        /\ Fit(a)
    <2>1. Len(s) = 1 /\ IsSeq(s)
      BY DEF Jump, Access, IsSeq
    <2>2. a = [op |-> "jump", dev |-> "none", arg |-> n, rest |-> Raise,
               cobo |-> NoCoBo, board |-> All, chip |-> All]
      BY DEF Jump, Access
    <2>. HIDE DEF s, a
    <2>3. /\ a.op = "jump" /\ a.dev = "none" /\ a.arg = n /\ a.rest = Raise /\ a.cobo = NoCoBo
          /\ a.board = All /\ a.chip = All
      BY <2>2
    <2>4. Typed(a)
      BY <2>2, <2>3 DEF Typed, Suits
    <2>5. a.rest \in Int /\ a.cobo \in Int /\ a.board \in Int /\ a.chip \in Int
      BY <2>3 DEF Raise, NoCoBo, All
    <2>6. a.dev \in Devices
      BY <2>3 DEF Devices, AnyDevice
    <2>7. a.op \notin {"initDone", "hitRegister", "buffer", "write", "field"}
      BY <2>3
    <2>8. Fit(a)
      BY <2>4, <2>5, <2>6, <2>7 DEF Fit
    <2>. QED
      BY <2>1, <2>3, <2>8
  <1>. HIDE DEF s
  <1>2. \A k \in 1 .. Len(s) : k = 1
    BY <1>1
  <1>3. ASSUME NEW i, Reaches(a, i) PROVE i \in 1 .. (Len(s) + 1 + n - 1)
    BY <1>1, <1>3 DEF Reaches, Leap
  <1>4. Block(s, n)
    BY <1>1, <1>2, <1>3 DEF Block
  <1>5. \A P, d : Keeps(a, P, d)
    BY <1>1 DEF Keeps, Meets, Needs, Source, Passed, Turned, Calls
  <1>. QED
    BY <1>1, <1>2, <1>4, <1>5 DEF Stays, s

\* Nothing.
LEMMA NothingStays ==
    Block(<< >>, 0) /\ \A P, d : P \subseteq d.states => Stays(<< >>, 0, P, d)
  <1>1. Len(<< >>) = 0 /\ IsSeq(<< >>)
    BY DEF IsSeq
  <1>. QED
    BY <1>1 DEF Stays, Block

-------------------------------------------------------------------------------
(* What a routine may change                                                   *)

\* The fields that an access changes; pulsed is the mode of the chips to which
\* slow control sends its three pulses.
Alters(a, x) ==
    \/ x = "described" /\ a.op \in {"describe", "removeAll"}
    \/ x = "router" /\ a.op \in {"router", "removeAll"}
    \/ x \in {"ready", "quiet"} /\ a.op = "initDone"
    \/ x = "running" /\ a.op \in {"daqStart", "daqStop"}
    \/ x = "pulsing" /\ a.op \in {"startPulser", "stopPulser"}
    \/ x = "asadMask" /\ a.op = "select"
    \/ x = "enabled" /\ a.op = "enable"
    \/ x \in {"pulse", "hitRegister", "asad", "chip", "mask", "buffer"} /\ a.op = x
    \/ x = "power" /\ a.op \in {"powerOn", "powerOff"}
    \/ x = "fast" /\ a.op = "powerOff"
    \/ x = "set" /\ a.op \in {"powerOff", "write", "field"}
    \/ x = "pulsed" /\ a.op \in {"fire", "check"}
    \/ x = "pulsed" /\ a.op \in {"write", "field", "read"} /\ a.dev = "aget"

\* Two states that agree on every field but those in F.
Same(g, h, F) ==
    /\ ("described" \notin F => g.described = h.described) /\ ("router" \notin F => g.router = h.router)
    /\ ("ready" \notin F => g.ready = h.ready) /\ ("running" \notin F => g.running = h.running)
    /\ ("pulsing" \notin F => g.pulsing = h.pulsing) /\ ("asadMask" \notin F => g.asadMask = h.asadMask)
    /\ ("enabled" \notin F => g.enabled = h.enabled) /\ ("pulse" \notin F => g.pulse = h.pulse)
    /\ ("hitRegister" \notin F => g.hitRegister = h.hitRegister) /\ ("fast" \notin F => g.fast = h.fast)
    /\ ("power" \notin F => g.power = h.power) /\ ("asad" \notin F => g.asad = h.asad)
    /\ ("chip" \notin F => g.chip = h.chip) /\ ("mask" \notin F => g.mask = h.mask)
    /\ ("buffer" \notin F => g.buffer = h.buffer) /\ ("set" \notin F => g.set = h.set)
    /\ ("quiet" \notin F => g.quiet = h.quiet)

\* The fields in F do not matter for whether a CoBo is in P.
Blind(P, F) ==
    /\ P \subseteq CoBoStates
    /\ \A h \in P : /\ \A g \in CoBoStates : Same(g, h, F) => g \in P
                    /\ "pulsed" \in F => Pulsed(h) \in P

\* A routine that changes but the fields in F and writes to the boards only if
\* W allows for it, to the chips never.
Spends(a, F, W) ==
    /\ a.op # "initDone" /\ \A x : Alters(a, x) => x \in F
    /\ a.op \in {"write", "field"} =>
           /\ a.dev # "aget"
           /\ a.dev = "asad" => a.board = All /\ "asad" \in W /\ (a.op = "field" => "field" \in W)
Uses(s, z, F, W) == Block(s, z) /\ \A k \in 1 .. Len(s) : Spends(s[k], F, W)

\* In P what W allows for reaches the boards it is meant for.
Serves(P, W, d) ==
    d.strict => \A h \in P : /\ "asad" \in W => h.asadMask \cap h.power = d.board[All]
                             /\ "field" \in W => h.asad \in h.asadMask

\* An access changes what it alters.
LEMMA TurnedSame ==
    ASSUME NEW h \in CoBoStates, NEW a, Fit(a), NEW F, \A x : Alters(a, x) => x \in F
    PROVE  Same(Turned(h, a), IF Alters(a, "pulsed") THEN Pulsed(h) ELSE h, F)
  <1>1. Suits(a.op, a.arg)
    BY DEF Fit, Typed
  <1>2. CASE a.op = "describe"
    <2>1. Turned(h, a) = [h EXCEPT !.described = TRUE] /\ "described" \in F /\ ~Alters(a, "pulsed")
      BY <1>2 DEF Turned, Calls, After, Alters
    <2>. QED
      BY <2>1 DEF CoBoStates, Same
  <1>3. CASE a.op = "router"
    <2>1. Turned(h, a) = [h EXCEPT !.router = TRUE] /\ "router" \in F /\ ~Alters(a, "pulsed")
      BY <1>3 DEF Turned, Calls, After, Alters
    <2>. QED
      BY <2>1 DEF CoBoStates, Same
  <1>4. CASE a.op = "initDone"
    <2>1. PICK v : v = (h.quiet /\ a.arg)
      OBVIOUS
    <2>2. /\ Turned(h, a) = [h EXCEPT !.ready = a.arg, !.quiet = v]
          /\ "ready" \in F /\ "quiet" \in F /\ ~Alters(a, "pulsed")
      BY <1>4, <2>1 DEF Turned, Calls, After, Alters
    <2>. QED
      BY <2>2 DEF CoBoStates, Same
  <1>5. CASE a.op \in {"daqStart", "daqStop"}
    <2>1. PICK v : v = (a.op = "daqStart")
      OBVIOUS
    <2>2. Turned(h, a) = [h EXCEPT !.running = v] /\ "running" \in F /\ ~Alters(a, "pulsed")
      BY <1>5, <2>1 DEF Turned, Calls, After, Alters
    <2>. QED
      BY <2>2 DEF CoBoStates, Same
  <1>6. CASE a.op \in {"startPulser", "stopPulser"}
    <2>1. PICK v : v = (a.op = "startPulser")
      OBVIOUS
    <2>2. Turned(h, a) = [h EXCEPT !.pulsing = v] /\ "pulsing" \in F /\ ~Alters(a, "pulsed")
      BY <1>6, <2>1 DEF Turned, Calls, After, Alters
    <2>. QED
      BY <2>2 DEF CoBoStates, Same
  <1>7. CASE a.op = "select"
    <2>1. Turned(h, a) = [h EXCEPT !.asadMask = a.arg] /\ "asadMask" \in F /\ ~Alters(a, "pulsed")
      BY <1>7 DEF Turned, Calls, After, Alters
    <2>. QED
      BY <2>1 DEF CoBoStates, Same
  <1>8. CASE a.op = "enable"
    <2>1. Turned(h, a) = [h EXCEPT !.enabled = a.arg] /\ "enabled" \in F /\ ~Alters(a, "pulsed")
      BY <1>8 DEF Turned, Calls, After, Alters
    <2>. QED
      BY <2>1 DEF CoBoStates, Same
  <1>9. CASE a.op = "pulse"
    <2>1. Turned(h, a) = [h EXCEPT !.pulse = a.arg] /\ "pulse" \in F /\ ~Alters(a, "pulsed")
      BY <1>9 DEF Turned, Calls, After, Alters
    <2>. QED
      BY <2>1 DEF CoBoStates, Same
  <1>10. CASE a.op = "hitRegister"
    <2>1. Turned(h, a) = [h EXCEPT !.hitRegister = a.arg] /\ "hitRegister" \in F /\ ~Alters(a, "pulsed")
      BY <1>10 DEF Turned, Calls, After, Alters
    <2>. QED
      BY <2>1 DEF CoBoStates, Same
  <1>11. CASE a.op = "asad"
    <2>1. Turned(h, a) = [h EXCEPT !.asad = a.arg] /\ "asad" \in F /\ ~Alters(a, "pulsed")
      BY <1>11 DEF Turned, Calls, After, Alters
    <2>. QED
      BY <2>1 DEF CoBoStates, Same
  <1>12. CASE a.op = "chip"
    <2>1. Turned(h, a) = [h EXCEPT !.chip = a.arg] /\ "chip" \in F /\ ~Alters(a, "pulsed")
      BY <1>12 DEF Turned, Calls, After, Alters
    <2>. QED
      BY <2>1 DEF CoBoStates, Same
  <1>13. CASE a.op = "mask"
    <2>1. Turned(h, a) = [h EXCEPT !.mask = a.arg] /\ "mask" \in F /\ ~Alters(a, "pulsed")
      BY <1>13 DEF Turned, Calls, After, Alters
    <2>. QED
      BY <2>1 DEF CoBoStates, Same
  <1>14. CASE a.op = "buffer"
    <2>1. PICK v : v = [h.buffer EXCEPT ![a.arg.asad] = <<a.arg.start, a.arg.end>>]
      OBVIOUS
    <2>2. Turned(h, a) = [h EXCEPT !.buffer = v] /\ "buffer" \in F /\ ~Alters(a, "pulsed")
      BY <1>14, <2>1 DEF Turned, Calls, After, Alters
    <2>. QED
      BY <2>2 DEF CoBoStates, Same
  <1>15. CASE a.op = "powerOn"
    <2>1. PICK v : v = h.power \cup {a.arg}
      OBVIOUS
    <2>2. Turned(h, a) = [h EXCEPT !.power = v] /\ "power" \in F /\ ~Alters(a, "pulsed")
      BY <1>15, <2>1 DEF Turned, Calls, After, Alters
    <2>. QED
      BY <2>2 DEF CoBoStates, Same
  <1>16. CASE a.op = "powerOff"
    <2>1. PICK u, v, w : PoweredOff(h, a.arg) = [h EXCEPT !.power = u, !.fast = v, !.set = w]
      BY DEF PoweredOff
    <2>2. /\ Turned(h, a) = [h EXCEPT !.power = u, !.fast = v, !.set = w]
          /\ "power" \in F /\ "fast" \in F /\ "set" \in F /\ ~Alters(a, "pulsed")
      BY <1>16, <2>1 DEF Turned, Calls, After, Alters
    <2>. QED
      BY <2>2 DEF CoBoStates, Same
  <1>17. CASE a.op \in {"write", "field"}
    <2>1. PICK g : g = Touched(h, a)
      OBVIOUS
    <2>2. g = IF Alters(a, "pulsed") THEN Pulsed(h) ELSE h
      BY <1>17, <2>1 DEF Touched, Alters
    <2>3. g \in CoBoStates
      BY <2>2, PulsedFits
    <2>4. PICK v : Written(g, a) = [g EXCEPT !.set = v]
      BY DEF Written
    <2>5. Turned(h, a) = Written(g, a) /\ "set" \in F
      BY <1>17, <2>1 DEF Turned, Calls, After, Alters
    <2>6. Same([g EXCEPT !.set = v], g, F)
      BY <2>3, <2>5 DEF CoBoStates, Same
    <2>. QED
      BY <2>2, <2>4, <2>5, <2>6
  <1>18. CASE a.op = "read"
    <2>1. Turned(h, a) = IF Alters(a, "pulsed") THEN Pulsed(h) ELSE h
      BY <1>18 DEF Turned, Calls, After, Touched, Alters
    <2>. QED
      BY <2>1 DEF Same
  <1>19. CASE a.op \in {"fire", "check"}
    <2>1. Alters(a, "pulsed")
      BY <1>19 DEF Alters
    <2>2. a.op = "fire" => Turned(h, a) = Pulsed(h)
      BY DEF Turned, Calls, After
    <2>3. a.op = "check" => Turned(h, a) = Pulsed(h)
      BY DEF Turned, Calls
    <2>4. Turned(h, a) = Pulsed(h)
      BY <1>19, <2>2, <2>3
    <2>. QED
      BY <2>1, <2>4 DEF Same
  <1>20. CASE a.op = "removeAll"
    <2>1. /\ Turned(h, a) = [h EXCEPT !.described = FALSE, !.router = FALSE]
          /\ "described" \in F /\ "router" \in F /\ ~Alters(a, "pulsed")
      BY <1>20 DEF Turned, Calls, Alters
    <2>. QED
      BY <2>1 DEF CoBoStates, Same
  <1>21. CASE a.op \in {"node", "device", "jump", "throw"}
    <2>1. Turned(h, a) = h /\ ~Alters(a, "pulsed")
      BY <1>21 DEF Turned, Calls, Alters
    <2>. QED
      BY <2>1 DEF Same
  <1>. QED
    BY <1>1, <1>2, <1>3, <1>4, <1>5, <1>6, <1>7, <1>8, <1>9, <1>10, <1>11, <1>12, <1>13, <1>14,
       <1>15, <1>16, <1>17, <1>18, <1>19, <1>20, <1>21 DEF Suits

\* An access keeps the states that are blind to what it alters.
LEMMA BlindKeeps ==
    ASSUME NEW P, NEW F, Blind(P, F), NEW a, Fit(a), \A x : Alters(a, x) => x \in F
    PROVE  \A h \in P : Turned(h, a) \in P
  <1>1. SUFFICES ASSUME NEW h \in P PROVE Turned(h, a) \in P
    OBVIOUS
  <1>2. PICK g : g = IF Alters(a, "pulsed") THEN Pulsed(h) ELSE h
    OBVIOUS
  <1>3. h \in CoBoStates /\ g \in P
    BY <1>2 DEF Blind
  <1>4. Same(Turned(h, a), g, F) /\ Turned(h, a) \in CoBoStates
    BY <1>2, <1>3, TurnedSame, TurnedFits
  <1>. QED
    BY <1>3, <1>4 DEF Blind

\* What a routine uses only, stays.
LEMMA UsesStays ==
    ASSUME NEW s, NEW z, NEW F, NEW W, Uses(s, z, F, W), NEW P, Blind(P, F), NEW d,
           P \subseteq d.states, Serves(P, W, d)
    PROVE  Stays(s, z, P, d)
  <1>1. ASSUME NEW k \in 1 .. Len(s) PROVE Keeps(s[k], P, d)
    <2>1. PICK a : a = s[k]
      OBVIOUS
    <2>2. Fit(a) /\ Spends(a, F, W)
      BY <2>1 DEF Uses, Block
    <2>3. \A h \in P : Turned(h, a) \in P
      BY <2>2, BlindKeeps DEF Spends
    <2>4. \A h \in P : Meets(h, a, d)
      BY <2>2 DEF Spends, Serves, Meets, Needs
    <2>5. Source(a, P, d) = P
      BY <2>2 DEF Spends, Source
    <2>. QED
      BY <2>1, <2>3, <2>4, <2>5 DEF Keeps, Passed
  <1>. QED
    BY <1>1 DEF Stays, Uses

\* More fields may be used, and a block may be said to lead further.
LEMMA UsesMore ==
    ASSUME NEW s, NEW z, NEW F, NEW W, Uses(s, z, F, W), NEW G, F \subseteq G, NEW V, W \subseteq V,
           NEW y \in Nat, z <= y
    PROVE  Uses(s, y, G, V)
  <1>1. Block(s, y)
    BY Further DEF Uses
  <1>2. \A k \in 1 .. Len(s) : Spends(s[k], G, V)
    BY DEF Uses, Spends
  <1>. QED
    BY <1>1, <1>2 DEF Uses

\* One routine after another one.
LEMMA UsesThen ==
    ASSUME NEW s, NEW t, NEW z, NEW y, NEW F, NEW W, Uses(s, z, F, W), Uses(t, y, F, W),
           z <= Len(t) + y
    PROVE  Uses(s \o t, y, F, W)
  <1>1. Block(s \o t, y)
    BY BlockThen DEF Uses
  <1>2. IsSeq(s) /\ IsSeq(t)
    BY DEF Uses, Block
  <1>3. \A k \in 1 .. Len(s \o t) :
            \/ k \in 1 .. Len(s) /\ (s \o t)[k] = s[k]
            \/ k - Len(s) \in 1 .. Len(t) /\ (s \o t)[k] = t[k - Len(s)]
    BY <1>2, Elements
  <1>. QED
    BY <1>1, <1>3 DEF Uses

\* What an access spends does not depend on where it goes on after an error.
LEMMA SameSpent ==
    ASSUME NEW a, NEW b, b.op = a.op, b.dev = a.dev, b.board = a.board, NEW F, NEW W,
           Spends(a, F, W)
    PROVE  Spends(b, F, W)
  <1>1. \A x : Alters(b, x) => Alters(a, x)
    BY DEF Alters
  <1>. QED
    BY <1>1 DEF Spends

\* A block of which the errors are caught.
LEMMA UsesCaught ==
    ASSUME NEW s, NEW z, NEW F, NEW W, Uses(s, z, F, W), NEW y \in Nat, NEW x \in Nat,
           z <= x, y <= x
    PROVE  Uses(OnError(s, y), x, F, W) /\ Len(OnError(s, y)) = Len(s)
  <1>1. Block(s, z) /\ Block(OnError(s, y), x)
    BY StaysCaught DEF Uses
  <1>2. Len(OnError(s, y)) = Len(s) /\ DOMAIN s = 1 .. Len(s)
    BY <1>1, OnErrors, Lengths DEF Block
  <1>3. ASSUME NEW k \in 1 .. Len(s) PROVE Spends(OnError(s, y)[k], F, W)
    <2>1. PICK b : b = OnError(s, y)[k]
      OBVIOUS
    <2>2. PICK r : b = IF s[k].rest = Raise THEN [s[k] EXCEPT !.rest = r] ELSE s[k]
      BY <1>2, <2>1 DEF OnError
    <2>3. Typed(s[k]) /\ Spends(s[k], F, W)
      BY DEF Uses, Block, Fit
    <2>4. b.op = s[k].op /\ b.dev = s[k].dev /\ b.board = s[k].board
      BY <2>2, <2>3 DEF Typed
    <2>. QED
      BY <2>1, <2>3, <2>4, SameSpent
  <1>. QED
    BY <1>1, <1>2, <1>3 DEF Uses

\* A jump.
LEMMA UsesJump == \A n \in Nat : \A F, W : Uses(Jump(n), n, F, W) /\ Len(Jump(n)) = 1
  <1>1. SUFFICES ASSUME NEW n \in Nat, NEW F, NEW W
                 PROVE  Uses(Jump(n), n, F, W) /\ Len(Jump(n)) = 1
    OBVIOUS
  <1>2. Block(Jump(n), n) /\ Len(Jump(n)) = 1
    BY JumpStays
  <1>3. Jump(n)[1].op = "jump"
    BY DEF Jump, Access
  <1>4. Spends(Jump(n)[1], F, W)
    BY <1>3 DEF Spends, Alters
  <1>5. \A k \in 1 .. Len(Jump(n)) : k = 1
    BY <1>2
  <1>. QED
    BY <1>2, <1>4, <1>5 DEF Uses

\* Nothing.
LEMMA UsesNothing == \A F, W : Uses(<< >>, 0, F, W)
  BY NothingStays DEF Uses

\* Sequences of routines and blocks.
LEMMA UsesParts ==
    ASSUME NEW F, NEW W
    PROVE  /\ \A s, t : Uses(s, 0, F, W) /\ Uses(t, 0, F, W) => Uses(s \o t, 0, F, W)
           /\ \A s : Uses(s, 0, F, W) => Uses(Try(s), 0, F, W)
           /\ \A s, h : Uses(s, 0, F, W) /\ Uses(h, 0, F, W) =>
                            Uses(TryElse(s, h), 0, F, W) /\ Uses(TryReturn(s, h), 0, F, W)
           /\ \A c, s : Uses(s, 0, F, W) => Uses(When(c, s), 0, F, W)
  <1>1. ASSUME NEW s, NEW t, Uses(s, 0, F, W), Uses(t, 0, F, W) PROVE Uses(s \o t, 0, F, W)
    <2>1. Len(t) \in Nat
      BY <1>1, Lengths DEF Uses, Block
    <2>2. 0 <= Len(t) + 0
      BY <2>1
    <2>. QED
      BY <1>1, <2>2, UsesThen
  <1>2. ASSUME NEW s, Uses(s, 0, F, W) PROVE Uses(Try(s), 0, F, W)
    <2>1. 0 <= 0 /\ 0 \in Nat
      OBVIOUS
    <2>. QED
      BY <1>2, <2>1, UsesCaught DEF Try
  <1>3. ASSUME NEW s, NEW h, Uses(s, 0, F, W), Uses(h, 0, F, W)
        PROVE  Uses(TryElse(s, h), 0, F, W) /\ Uses(TryReturn(s, h), 0, F, W)
    <2>. DEFINE n == Len(h)
    <2>1. n \in Nat /\ n <= n + 0 /\ 0 <= n /\ n <= n /\ 0 \in Nat
      BY <1>3, Lengths DEF Uses, Block
    <2>2. Uses(Jump(n), n, F, W) /\ Len(Jump(n)) = 1
      BY <2>1, UsesJump
    <2>. HIDE DEF n
    <2>3. 0 <= 1 + n
      BY <2>1
    <2>4. Uses(s \o Jump(n), n, F, W)
      BY <1>3, <2>2, <2>3, UsesThen
    <2>5. Uses(OnError(s \o Jump(n), 0), n, F, W)
      BY <2>1, <2>4, UsesCaught
    <2>6. Uses(OnError(s, n), n, F, W)
      BY <1>3, <2>1, UsesCaught
    <2>. QED
      BY <1>3, <2>1, <2>5, <2>6, UsesThen DEF n, TryElse, TryReturn, Try
  <1>4. ASSUME NEW c, NEW s, Uses(s, 0, F, W) PROVE Uses(When(c, s), 0, F, W)
    BY <1>4, UsesNothing DEF When
  <1>. QED
    BY <1>1, <1>2, <1>3, <1>4

\* Routines that are meant for a board or a chip.
LEMMA UsesMeant ==
    ASSUME NEW s, NEW F, NEW W, Uses(s, 0, F, W), NEW c \in Int
    PROVE  /\ Uses(OnChip(c, s), 0, F, W)
           /\ W = {} => Uses(OnBoard(c, s), 0, F, {})
  <1>1. Block(s, 0) /\ IsSeq(s) /\ DOMAIN s = 1 .. Len(s)
    BY Lengths DEF Uses, Block
  <1>2. /\ Block(OnBoard(c, s), 0) /\ Len(OnBoard(c, s)) = Len(s)
        /\ Block(OnChip(c, s), 0) /\ Len(OnChip(c, s)) = Len(s)
    <2>1. Block(OnBoard(c, s), 0) /\ Block(OnChip(c, s), 0)
      BY <1>1, Targeted
    <2>. QED
      BY <1>1, <2>1, Elementwise DEF OnBoard, OnChip
  <1>3. ASSUME NEW k \in 1 .. Len(s)
        PROVE  Spends(OnChip(c, s)[k], F, W) /\ (W = {} => Spends(OnBoard(c, s)[k], F, {}))
    <2>1. Typed(s[k]) /\ Spends(s[k], F, W)
      BY DEF Uses, Block, Fit
    <2>2. PICK a : a = OnChip(c, s)[k]
      OBVIOUS
    <2>3. PICK b : b = OnBoard(c, s)[k]
      OBVIOUS
    <2>4. a = [s[k] EXCEPT !.chip = c] /\ b = [s[k] EXCEPT !.board = c]
      BY <1>1, <2>2, <2>3 DEF OnChip, OnBoard
    <2>5. a.op = s[k].op /\ a.dev = s[k].dev /\ a.board = s[k].board
      BY <2>1, <2>4 DEF Typed
    <2>6. b.op = s[k].op /\ b.dev = s[k].dev
      BY <2>1, <2>4 DEF Typed
    <2>7. \A x : Alters(b, x) => Alters(s[k], x)
      BY <2>6 DEF Alters
    <2>8. W = {} => Spends(b, F, {})
      BY <2>1, <2>6, <2>7 DEF Spends
    <2>. QED
      BY <2>1, <2>2, <2>3, <2>5, <2>8, SameSpent
  <1>. QED
    BY <1>2, <1>3 DEF Uses

\* An access of a routine.
LEMMA AccessFits ==
    ASSUME NEW op, NEW dev \in Devices, NEW arg, Suits(op, arg),
           op \in {"initDone", "hitRegister"} => arg \in BOOLEAN,
           op = "buffer" => arg.asad \in AsAds /\ arg.start \in Int /\ arg.end \in Int,
           op \in {"write", "field"} =>
               arg.groups \in SUBSET Groups /\ arg.good \in BOOLEAN /\ arg.of \in Int
    PROVE  /\ Fit(Access(op, dev, arg)[1]) /\ Len(Access(op, dev, arg)) = 1
           /\ LET a == Access(op, dev, arg)[1] IN
              /\ a.op = op /\ a.dev = dev /\ a.arg = arg /\ a.rest = Raise
              /\ a.cobo = NoCoBo /\ a.board = All /\ a.chip = All
  <1>. DEFINE s == Access(op, dev, arg)
              a == s[1]
  <1>1. Len(s) = 1
    BY DEF Access
  <1>2. a = [op |-> op, dev |-> dev, arg |-> arg, rest |-> Raise,
             cobo |-> NoCoBo, board |-> All, chip |-> All]
    BY DEF Access
  <1>. HIDE DEF s, a
  <1>3. /\ a.op = op /\ a.dev = dev /\ a.arg = arg /\ a.rest = Raise /\ a.cobo = NoCoBo
        /\ a.board = All /\ a.chip = All
    BY <1>2
  <1>4. Typed(a)
    BY <1>2, <1>3 DEF Typed
  <1>5. a.rest \in Int /\ a.cobo \in Int /\ a.board \in Int /\ a.chip \in Int
    BY <1>3 DEF Raise, NoCoBo, All
  <1>6. Fit(a)
    BY <1>3, <1>4, <1>5 DEF Fit
  <1>. QED
    BY <1>1, <1>3, <1>6 DEF s, a

\* It uses what it alters.
LEMMA UsesAccess ==
    ASSUME NEW op, NEW dev, NEW arg, NEW F, NEW W, Fit(Access(op, dev, arg)[1]),
           op \notin {"jump", "check", "initDone"},
           \A x : Alters(Access(op, dev, arg)[1], x) => x \in F,
           op \in {"write", "field"} =>
               /\ dev # "aget"
               /\ dev = "asad" => "asad" \in W /\ (op = "field" => "field" \in W)
    PROVE  Uses(Access(op, dev, arg), 0, F, W)
  <1>. DEFINE s == Access(op, dev, arg)
  <1>1. Block(s, 0) /\ Len(s) = 1
    BY OneBlock
  <1>2. s[1].op = op /\ s[1].dev = dev /\ s[1].board = All
    BY DEF Access
  <1>. HIDE DEF s
  <1>3. \A k \in 1 .. Len(s) : k = 1
    BY <1>1
  <1>4. Spends(s[1], F, W)
    BY <1>2 DEF Spends, s
  <1>. QED
    BY <1>1, <1>3, <1>4 DEF Uses, s

\* What nearly every routine alters: no property asks how it is left.
Base == {"described", "router", "mask", "set"}

\* Reads and writes of the registers.
LEMMA UsesTransfers ==
    ASSUME NEW F, Base \subseteq F, NEW W
    PROVE  /\ \A d \in AnyDevice : Uses(Device(d), 0, F, W) /\ Len(Device(d)) = 1
           /\ Uses(Throw, 0, F, W) /\ Uses(Read("ctrl"), 0, F, W) /\ Uses(Read("asad"), 0, F, W)
           /\ \A op \in {"write", "field"}, dev \in Devices \ {"aget"}, groups \in SUBSET Groups,
                 good \in BOOLEAN, of \in {Reach, Masked} \cup Chips :
                  (dev = "asad" => "asad" \in W /\ (op = "field" => "field" \in W))
                      => Uses(Write(op, dev, groups, good, of), 0, F, W)
  <1>1. ASSUME NEW dev \in AnyDevice PROVE Uses(Device(dev), 0, F, W) /\ Len(Device(dev)) = 1
    <2>1. "node" \in Devices /\ Suits("device", dev)
      BY DEF Devices, Suits
    <2>2. PICK s : s = Access("device", "node", dev)
      OBVIOUS
    <2>3. Fit(s[1]) /\ Len(s) = 1 /\ s[1].op = "device"
      BY <2>1, <2>2, AccessFits
    <2>4. \A x : Alters(s[1], x) => x \in F
      BY <2>3 DEF Alters
    <2>. QED
      BY <2>2, <2>3, <2>4, UsesAccess DEF Device
  <1>2. Uses(Throw, 0, F, W)
    <2>1. "none" \in Devices /\ Suits("throw", 0)
      BY DEF Devices, AnyDevice, Suits
    <2>2. PICK s : s = Access("throw", "none", 0)
      OBVIOUS
    <2>3. Fit(s[1]) /\ Len(s) = 1 /\ s[1].op = "throw"
      BY <2>1, <2>2, AccessFits
    <2>4. \A x : Alters(s[1], x) => x \in F
      BY <2>3 DEF Alters
    <2>. QED
      BY <2>2, <2>3, <2>4, UsesAccess DEF Throw
  <1>3. ASSUME NEW dev \in {"ctrl", "asad"} PROVE Uses(Read(dev), 0, F, W)
    <2>1. dev \in Devices /\ Suits("read", 0)
      BY DEF Devices, AnyDevice, Suits
    <2>2. PICK s : s = Access("read", dev, 0)
      OBVIOUS
    <2>3. Fit(s[1]) /\ Len(s) = 1 /\ s[1].op = "read" /\ s[1].dev = dev
      BY <2>1, <2>2, AccessFits
    <2>4. \A x : Alters(s[1], x) => x \in F
      BY <2>3 DEF Alters
    <2>. QED
      BY <2>2, <2>3, <2>4, UsesAccess DEF Read
  <1>4. ASSUME NEW op \in {"write", "field"}, NEW dev \in Devices \ {"aget"},
               NEW groups \in SUBSET Groups, NEW good \in BOOLEAN,
               NEW of \in {Reach, Masked} \cup Chips,
               dev = "asad" => "asad" \in W /\ (op = "field" => "field" \in W)
        PROVE  Uses(Write(op, dev, groups, good, of), 0, F, W)
    <2>1. PICK r : r = [groups |-> groups, good |-> good, of |-> of]
      OBVIOUS
    <2>2. of \in Int /\ Suits(op, r)
      BY DEF Suits, Reach, Masked, Chips
    <2>3. PICK s : s = Access(op, dev, r)
      OBVIOUS
    <2>4. r.groups \in SUBSET Groups /\ r.good \in BOOLEAN /\ r.of \in Int
      BY <2>1, <2>2
    <2>5. Fit(s[1]) /\ Len(s) = 1 /\ s[1].op = op /\ s[1].dev = dev
      BY <2>2, <2>3, <2>4, AccessFits
    <2>6. \A x : Alters(s[1], x) => x \in F
      BY <2>5 DEF Alters, Base
    <2>. QED
      BY <1>4, <2>1, <2>3, <2>5, <2>6, UsesAccess DEF Write
  <1>. QED
    BY <1>1, <1>2, <1>3, <1>4

\* The writes of the routines.
LEMMA UsesWrites ==
    ASSUME NEW F, Base \subseteq F, NEW W
    PROVE  /\ Uses(Device("ctrl"), 0, F, W) /\ Uses(Device("asad"), 0, F, W)
           /\ Uses(Device("aget"), 0, F, W)
           /\ Uses(Throw, 0, F, W) /\ Uses(Read("ctrl"), 0, F, W) /\ Uses(Read("asad"), 0, F, W)
           /\ \A groups \in SUBSET Groups :
                  /\ Uses(Put("ctrl", groups), 0, F, W) /\ Uses(Alter("ctrl", groups), 0, F, W)
                  /\ "asad" \in W => /\ Uses(Put("asad", groups), 0, F, W)
                                     /\ Uses(Alter("asad", groups), 0, F, W)
           /\ \A group \in Groups :
                  /\ Uses(Put("ctrl", {group}), 0, F, W) /\ Uses(Alter("ctrl", {group}), 0, F, W)
                  /\ Uses(Setting(group), 0, F, W)
                  /\ "asad" \in W => /\ Uses(Put("asad", {group}), 0, F, W)
                                     /\ Uses(Alter("asad", {group}), 0, F, W)
                  /\ "asad" \in W /\ "field" \in W => Uses(PutField("asad", group), 0, F, W)
  <1>1. {"ctrl", "asad", "aget"} \subseteq AnyDevice /\ {"ctrl", "asad", "node"} \subseteq Devices \ {"aget"}
    BY DEF AnyDevice, Devices
  <1>2. TRUE \in BOOLEAN /\ FALSE \in BOOLEAN /\ Reach \in {Reach, Masked} \cup Chips
    OBVIOUS
  <1>3. /\ Uses(Device("ctrl"), 0, F, W) /\ Uses(Device("asad"), 0, F, W)
        /\ Uses(Device("aget"), 0, F, W)
        /\ Uses(Throw, 0, F, W) /\ Uses(Read("ctrl"), 0, F, W) /\ Uses(Read("asad"), 0, F, W)
    BY <1>1, UsesTransfers
  <1>4. ASSUME NEW dev \in {"ctrl", "node", "asad"}, NEW groups \in SUBSET Groups,
               dev = "asad" => "asad" \in W
        PROVE  Uses(Put(dev, groups), 0, F, W) /\ Uses(Alter(dev, groups), 0, F, W)
    BY <1>1, <1>2, <1>4, UsesTransfers DEF Put, Alter
  <1>5. ASSUME NEW group \in Groups, "asad" \in W, "field" \in W
        PROVE  Uses(PutField("asad", group), 0, F, W)
    <2>1. {group} \in SUBSET Groups
      OBVIOUS
    <2>. QED
      BY <1>1, <1>2, <1>5, <2>1, UsesTransfers DEF PutField
  <1>6. \A group \in Groups : {group} \in SUBSET Groups
    OBVIOUS
  <1>. QED
    BY <1>3, <1>4, <1>5, <1>6 DEF Setting

\* An access to the CoBo that selects, or asks for the node.
LEMMA UsesSelections ==
    ASSUME NEW F, Base \subseteq F, NEW W
    PROVE  /\ "asadMask" \in F => \A S \in SUBSET AsAds : Uses(Access("select", "ctrl", S), 0, F, W)
           /\ "asad" \in F => \A i \in AsAds : Uses(Access("asad", "ctrl", i), 0, F, W)
           /\ "chip" \in F => \A k \in Chips : Uses(Access("chip", "ctrl", k), 0, F, W)
           /\ \A k \in Chips : Uses(Access("mask", "ctrl", k), 0, F, W)
           /\ "enabled" \in F => \A S \in SUBSET Chips : Uses(Enable(S), 0, F, W)
           /\ "pulse" \in F => \A S \in SUBSET Chips : Uses(Pulse(S), 0, F, W)
           /\ "hitRegister" \in F => \A b \in BOOLEAN : Uses(HitRegister(b), 0, F, W)
           /\ "pulsed" \in F => Uses(Access("fire", "ctrl", 0), 0, F, W)
           /\ "pulsed" \in F => Uses(Read("aget"), 0, F, W)
           /\ "power" \in F => \A i \in AsAds : Uses(Access("powerOn", "ctrl", i), 0, F, W)
           /\ "power" \in F /\ "fast" \in F =>
                  \A i \in AsAds : Uses(Access("powerOff", "ctrl", i), 0, F, W)
           /\ "buffer" \in F => \A i \in AsAds, first \in Int, last \in Int :
                                    Uses(Buffer(i, first, last), 0, F, W)
           /\ Uses(Access("describe", "node", 0), 0, F, W) /\ Uses(Access("router", "node", 0), 0, F, W)
           /\ {"running", "pulsing"} \subseteq F => \A op \in {"daqStart", "daqStop", "startPulser", "stopPulser"} :
                                                        Uses(Access(op, "node", 0), 0, F, W)
           /\ \A c : Uses(ConnectNode(c), 0, F, W)
  <1>1. ASSUME NEW op, NEW dev \in Devices, NEW arg, Suits(op, arg),
               op \notin {"initDone", "write", "field", "check", "jump"},
               op = "hitRegister" => arg \in BOOLEAN,
               op = "buffer" => arg.asad \in AsAds /\ arg.start \in Int /\ arg.end \in Int,
               ASSUME NEW a, NEW x, a.op = op, a.dev = dev, Alters(a, x) PROVE x \in F
        PROVE  Uses(Access(op, dev, arg), 0, F, W)
    <2>1. LET s == Access(op, dev, arg) IN Fit(s[1]) /\ s[1].op = op /\ s[1].dev = dev
      BY <1>1, AccessFits
    <2>2. \A x : Alters(Access(op, dev, arg)[1], x) => x \in F
      BY <1>1, <2>1
    <2>. QED
      BY <1>1, <2>1, <2>2, UsesAccess
  <1>2. "ctrl" \in Devices /\ "node" \in Devices /\ "aget" \in Devices /\ "server" \in Devices
    BY DEF Devices, AnyDevice
  <1>3. ASSUME "asadMask" \in F, NEW S \in SUBSET AsAds PROVE Uses(Access("select", "ctrl", S), 0, F, W)
    BY <1>1, <1>2, <1>3 DEF Suits, Alters
  <1>4. ASSUME "asad" \in F, NEW i \in AsAds PROVE Uses(Access("asad", "ctrl", i), 0, F, W)
    BY <1>1, <1>2, <1>4 DEF Suits, Alters
  <1>5. ASSUME "chip" \in F, NEW k \in Chips PROVE Uses(Access("chip", "ctrl", k), 0, F, W)
    BY <1>1, <1>2, <1>5 DEF Suits, Alters
  <1>6. ASSUME NEW k \in Chips PROVE Uses(Access("mask", "ctrl", k), 0, F, W)
    BY <1>1, <1>2 DEF Suits, Alters, Base
  <1>7. ASSUME "enabled" \in F, NEW S \in SUBSET Chips PROVE Uses(Enable(S), 0, F, W)
    BY <1>1, <1>2, <1>7 DEF Suits, Alters, Enable
  <1>8. ASSUME "pulse" \in F, NEW S \in SUBSET Chips PROVE Uses(Pulse(S), 0, F, W)
    BY <1>1, <1>2, <1>8 DEF Suits, Alters, Pulse
  <1>9. ASSUME "hitRegister" \in F, NEW b \in BOOLEAN PROVE Uses(HitRegister(b), 0, F, W)
    BY <1>1, <1>2, <1>9 DEF Suits, Alters, HitRegister
  <1>10. ASSUME "pulsed" \in F PROVE Uses(Access("fire", "ctrl", 0), 0, F, W) /\ Uses(Read("aget"), 0, F, W)
    BY <1>1, <1>2, <1>10 DEF Suits, Alters, Read
  <1>11. ASSUME "power" \in F, NEW i \in AsAds PROVE Uses(Access("powerOn", "ctrl", i), 0, F, W)
    BY <1>1, <1>2, <1>11 DEF Suits, Alters
  <1>12. ASSUME "power" \in F, "fast" \in F, NEW i \in AsAds
         PROVE  Uses(Access("powerOff", "ctrl", i), 0, F, W)
    BY <1>1, <1>2, <1>12 DEF Suits, Alters, Base
  <1>13. ASSUME "buffer" \in F, NEW i \in AsAds, NEW first \in Int, NEW last \in Int
         PROVE  Uses(Buffer(i, first, last), 0, F, W)
    <2>1. PICK r : r = [asad |-> i, start |-> first, end |-> last]
      OBVIOUS
    <2>2. Suits("buffer", r)
      BY DEF Suits
    <2>3. r.asad \in AsAds /\ r.start \in Int /\ r.end \in Int
      BY <2>1
    <2>4. Uses(Access("buffer", "ctrl", r), 0, F, W)
      BY <1>1, <1>2, <1>13, <2>2, <2>3 DEF Alters
    <2>. QED
      BY <2>1, <2>4 DEF Buffer
  <1>14. Uses(Access("describe", "node", 0), 0, F, W) /\ Uses(Access("router", "node", 0), 0, F, W)
    BY <1>1, <1>2 DEF Suits, Alters, Base
  <1>15. ASSUME {"running", "pulsing"} \subseteq F, NEW op \in {"daqStart", "daqStop", "startPulser", "stopPulser"}
         PROVE  Uses(Access(op, "node", 0), 0, F, W)
    <2>1. Suits(op, 0)
      BY DEF Suits
    <2>2. op \notin {"initDone", "write", "field", "check", "jump", "hitRegister", "buffer"}
      OBVIOUS
    <2>3. ASSUME NEW a, NEW x, a.op = op, a.dev = "node", Alters(a, x) PROVE x \in F
      <3>1. CASE op \in {"daqStart", "daqStop"}
        BY <1>15, <2>3, <3>1 DEF Alters
      <3>2. CASE op \in {"startPulser", "stopPulser"}
        BY <1>15, <2>3, <3>2 DEF Alters
      <3>. QED
        BY <3>1, <3>2
    <2>. QED
      BY <1>1, <1>2, <2>1, <2>2, <2>3
  <1>16. ASSUME NEW c PROVE Uses(ConnectNode(c), 0, F, W)
    BY <1>1, <1>2 DEF Suits, Alters, ConnectNode
  <1>. QED
    BY <1>3, <1>4, <1>5, <1>6, <1>7, <1>8, <1>9, <1>10, <1>11, <1>12, <1>13, <1>14, <1>15, <1>16

-------------------------------------------------------------------------------
(* The routines of the client                                                  *)

\* Routines that neither select a board nor write to one.
LEMMA UsesCoBoRoutines ==
    ASSUME NEW F, Base \subseteq F, NEW W
    PROVE  /\ Uses(SetCoBoMutantMode, 0, F, W)
           /\ Uses(CheckHardwareVersion, 0, F, W) /\ Uses(CheckFirmwareRelease, 0, F, W)
           /\ Uses(PipeInit, 0, F, W) /\ Uses(TriggerInit, 0, F, W)
           /\ \A c : Uses(SetCoBoLemoModes(c), 0, F, W)
           /\ Uses(IsAsAdConnected, 0, F, W) /\ Uses(GetAsAdAlarmFlag, 0, F, W)
           /\ Uses(IsAsAdPoweredOn, 0, F, W) /\ Uses(GetAsAdAlertStatus, 0, F, W)
           /\ Uses(AsAdPowerStatus, 0, F, W)
           /\ Uses(CoboSetCalibrationAgetChips, 0, F, W)
           /\ Uses(AsAdSetAutoReadDataDelayEnabled, 0, F, W)
           /\ \A group \in Groups : Uses(SetCtrl(group), 0, F, W) /\ Uses(SetCtrlIfKnown(group), 0, F, W)
           /\ Uses(SubscribeToAlarms, 0, F, W)
           /\ Uses(SetSecondaryTriggerMode, 0, F, W) /\ Uses(SetCoBoZeroSuppressionMode, 0, F, W)
           /\ Uses(SetCircularBufferCommonParameters, 0, F, W)
           /\ \A valid : Uses(SetCoBoReadingClockFrequency(valid), 0, F, W)
  <1>1. {"mutantMode", "mem2p", "readout", "testMode", "zeroSuppression", "firmware", "scrScw",
         "readDataDelay", "triggerDelay", "2p", "multThreshold", "multThreshold2p", "multWindow",
         "triggerPeriod", "trigger", "readDepth", "readAlways", "readIfHit", "lemo", "autoDelay",
         "alarmMonitoring", "alarmService", "secondaryTrigger", "zeroInvert", "interruptRate",
         "bufferLevels", "ckr", "calibrationAget"} \subseteq Groups
    BY DEF Groups
  <1>2. Uses(SetCoBoMutantMode, 0, F, W)
    BY <1>1, UsesWrites, UsesParts DEF SetCoBoMutantMode
  <1>3. Uses(CheckHardwareVersion, 0, F, W) /\ Uses(CheckFirmwareRelease, 0, F, W)
    BY UsesWrites, UsesParts DEF CheckHardwareVersion, CheckFirmwareRelease
  <1>4. Uses(PipeInit, 0, F, W)
    <2>1. {"mem2p", "readout", "testMode", "zeroSuppression", "firmware", "scrScw"} \in SUBSET Groups
      BY <1>1
    <2>. QED
      BY <2>1, UsesWrites, UsesParts DEF PipeInit
  <1>5. Uses(TriggerInit, 0, F, W)
    <2>1. /\ {"readDataDelay", "triggerDelay", "2p", "multThreshold", "multThreshold2p", "multWindow",
              "triggerPeriod", "trigger", "readDepth"} \in SUBSET Groups
          /\ {"readAlways", "readIfHit"} \in SUBSET Groups
      BY <1>1
    <2>2. /\ "write" \in {"write", "field"} /\ "ctrl" \in Devices \ {"aget"} /\ "ctrl" # "asad"
          /\ FALSE \in BOOLEAN /\ Masked \in {Reach, Masked} \cup Chips
      BY DEF Devices, AnyDevice
    <2>3. Uses(Write("write", "ctrl", {"readAlways", "readIfHit"}, FALSE, Masked), 0, F, W)
      BY <2>1, <2>2, UsesTransfers
    <2>. QED
      BY <2>1, <2>3, UsesWrites, UsesParts DEF TriggerInit
  <1>6. ASSUME NEW group \in Groups
        PROVE  Uses(SetCtrl(group), 0, F, W) /\ Uses(SetCtrlIfKnown(group), 0, F, W)
    BY UsesWrites, UsesParts DEF SetCtrl, SetCtrlIfKnown
  <1>7. \A c : Uses(SetCoBoLemoModes(c), 0, F, W)
    <2>1. \A l : Uses(SetCoBoLemoMode(l), 0, F, W)
      BY <1>1, <1>6 DEF SetCoBoLemoMode
    <2>. QED
      BY <2>1, UsesParts DEF SetCoBoLemoModes
  <1>8. /\ Uses(IsAsAdConnected, 0, F, W) /\ Uses(GetAsAdAlarmFlag, 0, F, W)
        /\ Uses(IsAsAdPoweredOn, 0, F, W) /\ Uses(GetAsAdAlertStatus, 0, F, W)
    BY UsesWrites, UsesParts DEF IsAsAdConnected, GetAsAdAlarmFlag, IsAsAdPoweredOn, GetAsAdAlertStatus
  <1>9. Uses(AsAdPowerStatus, 0, F, W)
    BY <1>8, UsesParts DEF AsAdPowerStatus
  <1>10. Uses(CoboSetCalibrationAgetChips, 0, F, W) /\ Uses(AsAdSetAutoReadDataDelayEnabled, 0, F, W)
    BY <1>1, UsesWrites, UsesParts DEF CoboSetCalibrationAgetChips, AsAdSetAutoReadDataDelayEnabled
  <1>11. Uses(SubscribeToAlarms, 0, F, W)
    BY <1>1, UsesWrites, UsesParts DEF SubscribeToAlarms
  <1>12. Uses(SetSecondaryTriggerMode, 0, F, W) /\ Uses(SetCoBoZeroSuppressionMode, 0, F, W)
    BY <1>1, UsesWrites, UsesParts DEF SetSecondaryTriggerMode, SetCoBoZeroSuppressionMode
  <1>13. Uses(SetCircularBufferCommonParameters, 0, F, W)
    BY <1>1, UsesWrites, UsesParts DEF SetCircularBufferCommonParameters
  <1>14. \A valid : Uses(SetCoBoReadingClockFrequency(valid), 0, F, W)
    BY <1>1, UsesWrites, UsesParts DEF SetCoBoReadingClockFrequency
  <1>. QED
    BY <1>2, <1>3, <1>4, <1>5, <1>6, <1>7, <1>8, <1>9, <1>10, <1>11, <1>12, <1>13, <1>14

\* Routines that write to the boards that are selected.
LEMMA UsesBoardRoutines ==
    ASSUME NEW F, Base \subseteq F, NEW W, "asad" \in W
    PROVE  /\ Uses(AsAdSetBoardUserID, 0, F, W) /\ Uses(AsAdGetIdentifier, 0, F, W)
           /\ Uses(AsAdConfigureAgetInputs, 0, F, W)
           /\ Uses(SetAsAdLcm1Register, 0, F, W) /\ Uses(SetAsAdLcm2Register, 0, F, W)
           /\ Uses(AsAdMonitoringReset, 0, F, W) /\ Uses(AsAdDisableAutoProtection, 0, F, W)
           /\ Uses(AsAdSetAutoProtectionLevel, 0, F, W) /\ Uses(SetLimits, 0, F, W)
           /\ \A good : Uses(SetOperationalMode(good), 0, F, W)
           /\ Uses(AsAdSetISPM, 0, F, W) /\ Uses(AdcReset, 0, F, W) /\ Uses(AdcTest, 0, F, W)
           /\ Uses(AdcCal, 0, F, W) /\ Uses(AsAdDacInit, 0, F, W)
           /\ "field" \in W => \A TRG : Uses(AsAdConfigureTcmDevice(TRG), 0, F, W)
  <1>1. {"userID", "adcPower", "inputs", "LCM1", "LCM2", "monitoring", "protection", "TextLimits",
         "VddLimits", "IddLimits", "ISPM", "adcMode", "deskew", "bitSlip", "DAC", "TCM0",
         "pulserDefault", "pulserTrigger", "pulserExternal"} \subseteq Groups
    BY DEF Groups
  <1>2. /\ Uses(AsAdSetBoardUserID, 0, F, W) /\ Uses(AsAdGetIdentifier, 0, F, W)
        /\ Uses(AsAdConfigureAgetInputs, 0, F, W)
        /\ Uses(SetAsAdLcm1Register, 0, F, W) /\ Uses(SetAsAdLcm2Register, 0, F, W)
    BY <1>1, UsesWrites, UsesParts
       DEF AsAdSetBoardUserID, AsAdGetIdentifier, AsAdConfigureAgetInputs, SetAsAdLcm1Register,
           SetAsAdLcm2Register
  <1>3. /\ Uses(AsAdMonitoringStop, 0, F, W) /\ Uses(AsAdMonitoringReset, 0, F, W)
        /\ Uses(AsAdDisableAutoProtection, 0, F, W) /\ Uses(AsAdSetAutoProtectionLevel, 0, F, W)
    BY <1>1, UsesWrites, UsesParts, UsesCoBoRoutines
       DEF AsAdMonitoringStop, AsAdMonitoringReset, AsAdDisableAutoProtection,
           AsAdSetAutoProtectionLevel
  <1>4. ASSUME NEW group \in Groups PROVE Uses(WriteLimits(group), 0, F, W)
    BY UsesWrites, UsesParts DEF WriteLimits
  <1>5. Uses(SetLimits, 0, F, W)
    BY <1>1, <1>3, <1>4, UsesParts DEF SetLimits
  <1>6. \A good : Uses(SetOperationalMode(good), 0, F, W)
    BY <1>1, UsesWrites, UsesParts DEF SetOperationalMode, AsAdSetMonitoringMode
  <1>7. Uses(AsAdSetISPM, 0, F, W) /\ Uses(AsAdDacInit, 0, F, W) /\ Uses(AdcTest, 0, F, W)
    BY <1>1, UsesWrites, UsesParts DEF AsAdSetISPM, AsAdDacInit, AdcTest
  <1>8. Uses(AdcReset, 0, F, W)
    <2>1. {"adcPower", "adcMode"} \in SUBSET Groups
      BY <1>1
    <2>. QED
      BY <2>1, UsesWrites, UsesParts DEF AdcReset
  <1>9. Uses(AdcCal, 0, F, W)
    BY <1>1, UsesWrites, UsesParts DEF AdcCal
  <1>10. "field" \in W => \A TRG : Uses(AsAdConfigureTcmDevice(TRG), 0, F, W)
    BY <1>1, UsesWrites, UsesParts DEF AsAdConfigureTcmDevice
  <1>. QED
    BY <1>2, <1>3, <1>5, <1>6, <1>7, <1>8, <1>9, <1>10

\* Routines that select, and those that are told what they reach.
LEMMA UsesSelectingRoutines ==
    ASSUME NEW F, Base \subseteq F, NEW W
    PROVE  /\ "asad" \in F => \A i \in AsAds : /\ Uses(SelectAsAdForRead(i), 0, F, W)
                                               /\ Uses(ReadSensors(i), 0, F, W)
           /\ "asadMask" \in F => \A S \in SUBSET AsAds : Uses(SetAsAdSlowControlMask(S), 0, F, W)
           /\ "enabled" \in F => \A S \in SUBSET Chips : Uses(SetAgetSlowControlMask(S), 0, F, W)
           /\ "chip" \in F => \A k \in Chips : Uses(SelectAgetForRead(k), 0, F, W) /\ Uses(AgetRegRSC(k), 0, F, W)
           /\ \A k \in Chips, group \in Groups : Uses(SetReadMask(k, group), 0, F, W)
           /\ \A k \in Chips : Uses(SetCoBoZeroSuppressionThreshold(k), 0, F, W)
  <1>1. ASSUME "asad" \in F, NEW i \in AsAds
        PROVE  Uses(SelectAsAdForRead(i), 0, F, W) /\ Uses(ReadSensors(i), 0, F, W)
    <2>1. Uses(Access("asad", "ctrl", i), 0, F, W)
      BY <1>1, UsesSelections
    <2>2. Uses(ReadSensor(i), 0, F, W)
      BY <2>1, UsesWrites, UsesParts DEF ReadSensor
    <2>. QED
      BY <2>1, <2>2, UsesWrites, UsesParts DEF SelectAsAdForRead, ReadSensors
  <1>2. ASSUME "asadMask" \in F, NEW S \in SUBSET AsAds PROVE Uses(SetAsAdSlowControlMask(S), 0, F, W)
    BY <1>2, UsesSelections, UsesWrites, UsesParts DEF SetAsAdSlowControlMask
  <1>3. ASSUME "enabled" \in F, NEW S \in SUBSET Chips PROVE Uses(SetAgetSlowControlMask(S), 0, F, W)
    BY <1>3, UsesSelections, UsesWrites, UsesParts DEF SetAgetSlowControlMask
  <1>4. ASSUME "chip" \in F, NEW k \in Chips
        PROVE  Uses(SelectAgetForRead(k), 0, F, W) /\ Uses(AgetRegRSC(k), 0, F, W)
    BY <1>4, UsesSelections, UsesWrites, UsesParts DEF SelectAgetForRead, AgetRegRSC
  <1>5. TRUE \in BOOLEAN /\ "write" \in {"write", "field"} /\ "ctrl" \in Devices \ {"aget"} /\ "ctrl" # "asad"
    BY DEF Devices, AnyDevice
  <1>6. ASSUME NEW k \in Chips, NEW group \in Groups PROVE Uses(SetReadMask(k, group), 0, F, W)
    <2>1. {group} \in SUBSET Groups /\ Masked \in {Reach, Masked} \cup Chips
      OBVIOUS
    <2>2. Uses(Write("write", "ctrl", {group}, TRUE, Masked), 0, F, W)
      BY <1>5, <2>1, UsesTransfers
    <2>. QED
      BY <2>2, UsesSelections, UsesWrites, UsesParts DEF SetReadMask
  <1>7. ASSUME NEW k \in Chips PROVE Uses(SetCoBoZeroSuppressionThreshold(k), 0, F, W)
    <2>1. PICK dev : dev = ZeroSuppress(k \div 4)
      OBVIOUS
    <2>2. k \div 4 \in AsAds
      BY DEF Chips, AsAds
    <2>3. dev \in AnyDevice /\ dev \in Devices
      BY <2>1, <2>2, Names DEF Devices
    <2>4. dev # "asad" /\ dev # "aget"
      BY <2>1, <2>2 DEF ZeroSuppress, AsAds
    <2>5. {"zeroThreshold"} \in SUBSET Groups /\ k \in {Reach, Masked} \cup Chips
      BY DEF Groups
    <2>6. Uses(Device(dev), 0, F, W)
      BY <2>3, UsesTransfers
    <2>7. Uses(Write("write", dev, {"zeroThreshold"}, TRUE, k), 0, F, W)
      BY <1>5, <2>3, <2>4, <2>5, UsesTransfers
    <2>. QED
      BY <2>1, <2>6, <2>7, UsesParts DEF SetCoBoZeroSuppressionThreshold
  <1>. QED
    BY <1>1, <1>2, <1>3, <1>4, <1>6, <1>7

-------------------------------------------------------------------------------
(* What is known of a CoBo                                                     *)

\* Buffers as they are to be.
Exact(c) == [i \in AsAds |-> LET m == Config[c].memory
                                 b == Config[c].own[i] IN
                             IF AllOwn(c) THEN <<b.start, b.end>>
                             ELSE <<BufferStart(Masks(c).asads, i, m.start, m.end),
                                    BufferEnd(Masks(c).asads, i, m.start, m.end)>>]
Filled(c) == {h \in CoBoStates : (AllOwn(c) \/ Masks(c).asads # {}) /\ h.buffer = Exact(c)}
\* A CoBo is in one of these states, unless a write to it was left out.
Sane(c) == {h \in CoBoStates : h.ready => h \in Filled(c)}
Unready == {h \in CoBoStates : ~h.ready}
\* The active boards are powered, the CoBo is not ready yet, and then the chips
\* listen to slow control.
Lit(c) == {h \in Sane(c) : ~h.ready /\ h.power = Masks(c).asads}
Slow(c) == {h \in Lit(c) : ~h.hitRegister /\ h.fast \cap Masks(c).chips = {}}
\* What is selected.
Selected(S) == {h \in CoBoStates : h.asadMask = S}
AtBoard(i) == {h \in CoBoStates : h.asadMask = {i} /\ h.asad = i}
Enabled(S) == {h \in CoBoStates : h.enabled = S}

\* What pulses change.
LEMMA PulsedSame ==
    ASSUME NEW h \in CoBoStates
    PROVE  /\ Pulsed(h) \in CoBoStates
           /\ \A F : "fast" \in F => Same(Pulsed(h), h, F)
           /\ Pulsed(h).fast = IF h.hitRegister THEN h.fast \cup h.pulse ELSE h.fast \ h.pulse
           /\ Pulsed(h).ready = h.ready /\ Pulsed(h).buffer = h.buffer /\ Pulsed(h).power = h.power
           /\ Pulsed(h).hitRegister = h.hitRegister /\ Pulsed(h).asadMask = h.asadMask
           /\ Pulsed(h).asad = h.asad /\ Pulsed(h).chip = h.chip /\ Pulsed(h).enabled = h.enabled
           /\ Pulsed(h).pulse = h.pulse /\ Pulsed(h).set = h.set
  <1>. DEFINE v == IF h.hitRegister THEN h.fast \cup h.pulse ELSE h.fast \ h.pulse
  <1>1. Pulsed(h) = [h EXCEPT !.fast = v]
    BY DEF Pulsed
  <1>. HIDE DEF v
  <1>2. Pulsed(h).fast = v
    BY <1>1 DEF CoBoStates
  <1>3. \A F : "fast" \in F => Same(Pulsed(h), h, F)
    BY <1>1 DEF CoBoStates, Same
  <1>4. /\ Pulsed(h).ready = h.ready /\ Pulsed(h).buffer = h.buffer /\ Pulsed(h).power = h.power
        /\ Pulsed(h).hitRegister = h.hitRegister /\ Pulsed(h).asadMask = h.asadMask
        /\ Pulsed(h).asad = h.asad /\ Pulsed(h).chip = h.chip /\ Pulsed(h).enabled = h.enabled
        /\ Pulsed(h).pulse = h.pulse /\ Pulsed(h).set = h.set
    BY <1>1 DEF CoBoStates
  <1>. QED
    BY <1>2, <1>3, <1>4, PulsedFits DEF v

\* Both sets.
LEMMA BlindMeet ==
    ASSUME NEW P, NEW Q, NEW F, Blind(P, F), Blind(Q, F) PROVE Blind(P \cap Q, F)
  BY DEF Blind

\* Fewer fields.
LEMMA BlindLess ==
    ASSUME NEW P, NEW F, Blind(P, F), NEW G, G \subseteq F PROVE Blind(P, G)
  <1>1. \A g, h : Same(g, h, G) => Same(g, h, F)
    BY DEF Same
  <1>. QED
    BY <1>1 DEF Blind

\* On which fields the sets depend.
LEMMA BlindSets ==
    ASSUME NEW F
    PROVE  /\ "ready" \notin F => Blind(Unready, F)
           /\ F \cap {"ready", "buffer"} = {} => \A c : Blind(Sane(c), F)
           /\ F \cap {"ready", "buffer", "power"} = {} => \A c : Blind(Lit(c), F)
           /\ F \cap {"ready", "buffer", "power", "hitRegister", "fast"} = {} => \A c : Blind(Slow(c), F)
           /\ "asadMask" \notin F => \A S : Blind(Selected(S), F)
           /\ F \cap {"asadMask", "asad"} = {} => \A i : Blind(AtBoard(i), F)
           /\ "enabled" \notin F => \A S : Blind(Enabled(S), F)
           /\ "buffer" \notin F => \A c : Blind(Filled(c), F)
  <1>1. ASSUME "ready" \notin F PROVE Blind(Unready, F)
    <2>1. \A h \in Unready : Pulsed(h) \in Unready
      BY PulsedSame DEF Unready
    <2>. QED
      BY <1>1, <2>1 DEF Blind, Unready, Same
  <1>2. ASSUME F \cap {"ready", "buffer"} = {}, NEW c PROVE Blind(Sane(c), F)
    <2>1. \A h \in Sane(c) : Pulsed(h) \in Sane(c)
      BY PulsedSame DEF Sane, Filled
    <2>. QED
      BY <1>2, <2>1 DEF Blind, Sane, Filled, Same
  <1>3. ASSUME F \cap {"ready", "buffer", "power"} = {}, NEW c PROVE Blind(Lit(c), F)
    <2>1. \A h \in Lit(c) : Pulsed(h) \in Lit(c)
      BY PulsedSame DEF Lit, Sane, Filled
    <2>. QED
      BY <1>3, <2>1 DEF Blind, Lit, Sane, Filled, Same
  <1>4. ASSUME F \cap {"ready", "buffer", "power", "hitRegister", "fast"} = {}, NEW c
        PROVE  Blind(Slow(c), F)
    <2>1. ASSUME NEW h \in Slow(c) PROVE Pulsed(h) \in Slow(c)
      <3>1. h \in CoBoStates /\ Pulsed(h).fast = h.fast \ h.pulse
        BY PulsedSame DEF Slow, Lit, Sane
      <3>2. Pulsed(h).fast \cap Masks(c).chips = {}
        BY <3>1 DEF Slow
      <3>. QED
        BY <3>1, <3>2, PulsedSame DEF Slow, Lit, Sane, Filled
    <2>. QED
      BY <1>4, <2>1 DEF Blind, Slow, Lit, Sane, Filled, Same
  <1>5. ASSUME "asadMask" \notin F, NEW S PROVE Blind(Selected(S), F)
    <2>1. \A h \in Selected(S) : Pulsed(h) \in Selected(S)
      BY PulsedSame DEF Selected
    <2>. QED
      BY <1>5, <2>1 DEF Blind, Selected, Same
  <1>6. ASSUME F \cap {"asadMask", "asad"} = {}, NEW i PROVE Blind(AtBoard(i), F)
    <2>1. \A h \in AtBoard(i) : Pulsed(h) \in AtBoard(i)
      BY PulsedSame DEF AtBoard
    <2>. QED
      BY <1>6, <2>1 DEF Blind, AtBoard, Same
  <1>7. ASSUME "enabled" \notin F, NEW S PROVE Blind(Enabled(S), F)
    <2>1. \A h \in Enabled(S) : Pulsed(h) \in Enabled(S)
      BY PulsedSame DEF Enabled
    <2>. QED
      BY <1>7, <2>1 DEF Blind, Enabled, Same
  <1>8. ASSUME "buffer" \notin F, NEW c PROVE Blind(Filled(c), F)
    <2>1. \A h \in Filled(c) : Pulsed(h) \in Filled(c)
      BY PulsedSame DEF Filled
    <2>. QED
      BY <1>8, <2>1 DEF Blind, Filled, Same
  <1>. QED
    BY <1>1, <1>2, <1>3, <1>4, <1>5, <1>6, <1>7, <1>8

-------------------------------------------------------------------------------
(* Blocks and loops                                                            *)

\* One access of it.
LEMMA Caught ==
    ASSUME NEW s, NEW z, Block(s, z), NEW d, NEW k \in 1 .. Len(s), NEW b, b = OnError(s, 0)[k]
    PROVE  /\ IsSeq(OnError(s, 0)) /\ Len(OnError(s, 0)) = Len(s)
           /\ Fit(b) /\ Means(b, d, s[k], d)
           /\ s[k].rest # Raise => b.rest = s[k].rest
           /\ s[k].rest = Raise => b.rest = Len(s) - k + 1
  <1>1. 0 \in Nat
    OBVIOUS
  <1>2. /\ IsSeq(OnError(s, 0)) /\ Len(OnError(s, 0)) = Len(s)
        /\ Fit(b) /\ Means(b, d, s[k], d)
        /\ s[k].rest # Raise => b.rest = s[k].rest
        /\ s[k].rest = Raise => b.rest = Len(s) - k + 1 + 0
    BY <1>1, OnErrors
  <1>3. Len(s) \in Nat
    BY Lengths DEF Block
  <1>. QED
    BY <1>2, <1>3

\* A block that ends with a write: where it fails, something is left unwritten.
LEMMA CarriesTry ==
    ASSUME NEW s, NEW P, NEW Q, NEW d, Carries(s, P, Q, d), \A l \in Int : d.mine[l],
           Len(s) > 0, ~Harmless(s[Len(s)])
    PROVE  Carries(Try(s), P, Q, d)
  <1>. DEFINE t == OnError(s, 0)
              m == Len(s)
  <1>1. PICK asn : Way(s, asn, d) /\ P \subseteq asn[1] /\ asn[Len(s) + 1] \subseteq Q
    BY DEF Carries
  <1>2. Block(s, 0) /\ m \in Nat
    BY Lengths DEF Carries, Block
  <1>3. Block(t, 0)
    BY <1>2, StaysCaught
  <1>4. /\ Len(t) = m
        /\ \A k \in 1 .. m : /\ Fit(t[k]) /\ Means(t[k], d, s[k], d)
                             /\ s[k].rest # Raise => t[k].rest = s[k].rest
                             /\ s[k].rest = Raise => t[k].rest = m - k + 1
    <2>1. ASSUME NEW k \in 1 .. m
          PROVE  /\ Fit(t[k]) /\ Means(t[k], d, s[k], d)
                 /\ s[k].rest # Raise => t[k].rest = s[k].rest
                 /\ s[k].rest = Raise => t[k].rest = m - k + 1
      <3>1. PICK b : b = t[k]
        OBVIOUS
      <3>2. /\ Fit(b) /\ Means(b, d, s[k], d)
            /\ s[k].rest # Raise => b.rest = s[k].rest
            /\ s[k].rest = Raise => b.rest = Len(s) - k + 1
        BY <1>2, <3>1, Caught
      <3>. QED
        BY <3>1, <3>2
    <2>2. Len(t) = m
      <3>1. m \in 1 .. m
        BY <1>2
      <3>. QED
        BY <1>2, <3>1, Caught
    <2>. QED
      BY <2>1, <2>2
  <1>. HIDE DEF t, m
  <1>5. ASSUME NEW k \in 1 .. m PROVE Links(t, k, asn, d)
    <2>1. Links(s, k, asn, d) /\ Means(t[k], d, s[k], d)
      BY <1>1, <1>4 DEF Way, m
    <2>2. \A h \in asn[k] : Meets(h, t[k], d)
      BY <2>1, SameMeaning DEF Links
    <2>3. \A n : Leap(t[k], n) => \A h \in Source(t[k], asn[k], d) : Passed(h, t[k], d) \in asn[k + n]
      BY <2>1, SameMeaning DEF Links
    <2>4. ASSUME t[k].rest # Raise,
                 ~d.mine[t[k].cobo] \/ \A i \in k .. (k + t[k].rest - 1) : Harmless(t[i])
          PROVE  asn[k] \subseteq asn[k + t[k].rest]
      <3>1. PICK r : r = t[k].rest
        OBVIOUS
      <3>2. d.mine[t[k].cobo]
        BY <1>4 DEF Fit
      <3>3. \A i \in k .. (k + r - 1) : Harmless(t[i])
        BY <2>4, <3>1, <3>2
      <3>4. CASE s[k].rest = Raise
        <4>1. m \in k .. (k + r - 1) /\ m \in 1 .. m
          BY <1>2, <1>4, <3>1, <3>4
        <4>2. Harmless(s[m])
          BY <1>4, <3>3, <4>1, SameMeaning
        <4>. QED
          BY <4>2 DEF m
      <3>5. CASE s[k].rest # Raise
        <4>1. r = s[k].rest
          BY <1>4, <3>1, <3>5
        <4>2. r \in 1 .. (m + 1 + 0 - k)
          BY <1>2, <3>5, <4>1 DEF Block, Reaches, m
        <4>3. \A i \in k .. (k + r - 1) : i \in 1 .. m
          BY <1>2, <4>2
        <4>4. \A i \in k .. (k + r - 1) : Harmless(s[i])
          BY <1>4, <3>3, <4>3, SameMeaning
        <4>. QED
          BY <2>1, <3>1, <3>5, <4>1, <4>4 DEF Links
      <3>. QED
        BY <3>4, <3>5
    <2>. QED
      BY <2>2, <2>3, <2>4 DEF Links
  <1>6. Way(t, asn, d)
    BY <1>1, <1>4, <1>5 DEF Way, m
  <1>. QED
    BY <1>1, <1>3, <1>4, <1>6 DEF Carries, Try, t, m

\* A block that is followed by what is done after an error.
LEMMA CarriesElse ==
    ASSUME NEW s, NEW h, NEW P, NEW Q, NEW d, Carries(s, P, Q, d), \A l \in Int : d.mine[l],
           Len(s) > 0, ~Harmless(s[Len(s)]), NEW F, NEW W, Uses(h, 0, F, W), Q \subseteq d.states
    PROVE  Carries(TryElse(s, h), P, Q, d)
  <1>. DEFINE m == Len(s)
              n == Len(h)
              v == s \o Jump(n)
              t == OnError(v, 0)
              u == t \o h
  <1>1. PICK ds : Way(s, ds, d) /\ P \subseteq ds[1] /\ ds[m + 1] \subseteq Q
    BY DEF Carries
  <1>2. Block(s, 0) /\ Block(h, 0) /\ m \in Nat /\ n \in Nat
    BY Lengths DEF Carries, Uses, Block
  <1>3. Block(Jump(n), n) /\ Len(Jump(n)) = 1
    BY <1>2, JumpStays
  <1>4. Block(v, n)
    BY <1>2, <1>3, BlockThen
  <1>5. /\ Len(v) = m + 1 /\ (\A k \in 1 .. m : v[k] = s[k]) /\ v[m + 1] = Jump(n)[1]
    BY <1>2, <1>3, OneMore DEF Block
  <1>6. Block(t, n)
    BY <1>2, <1>4, StaysCaught
  <1>7. /\ Len(t) = m + 1
        /\ \A k \in 1 .. (m + 1) : /\ Fit(t[k]) /\ Means(t[k], d, v[k], d)
                                   /\ v[k].rest # Raise => t[k].rest = v[k].rest
                                   /\ v[k].rest = Raise => t[k].rest = m - k + 2
    <2>. HIDE DEF v
    <2>1. ASSUME NEW k \in 1 .. (m + 1)
          PROVE  /\ Fit(t[k]) /\ Means(t[k], d, v[k], d)
                 /\ v[k].rest # Raise => t[k].rest = v[k].rest
                 /\ v[k].rest = Raise => t[k].rest = m - k + 2
      <3>1. PICK b : b = t[k]
        OBVIOUS
      <3>2. k \in 1 .. Len(v)
        BY <1>5
      <3>3. /\ Fit(b) /\ Means(b, d, v[k], d)
            /\ v[k].rest # Raise => b.rest = v[k].rest
            /\ v[k].rest = Raise => b.rest = Len(v) - k + 1
        BY <1>4, <3>1, <3>2, Caught
      <3>4. (m + 1) - k + 1 = m - k + 2
        BY <1>2
      <3>. QED
        BY <1>5, <3>1, <3>3, <3>4
    <2>2. m + 1 \in 1 .. Len(v)
      BY <1>2, <1>5
    <2>3. Len(t) = m + 1
      BY <1>4, <1>5, <2>2, Caught
    <2>. QED
      BY <2>1, <2>3
  <1>. HIDE DEF v, t
  <1>8. Block(u, 0)
    <2>1. n <= Len(h) + 0
      BY <1>2
    <2>. QED
      BY <1>2, <1>6, <2>1, BlockThen
  <1>9. /\ Len(u) = m + n + 1
        /\ \A k \in 1 .. (m + 1) : u[k] = t[k]
        /\ \A k \in 1 .. n : u[m + 1 + k] = h[k]
    <2>1. IsSeq(t) /\ IsSeq(h) /\ Len(t) = m + 1
      BY <1>2, <1>6, <1>7 DEF Block
    <2>2. /\ Len(u) = Len(t) + Len(h)
          /\ \A k \in 1 .. Len(t) : u[k] = t[k]
          /\ \A k \in 1 .. Len(h) : u[Len(t) + k] = h[k]
      BY <2>1, Behind
    <2>3. (m + 1) + n = m + n + 1
      BY <1>2
    <2>. QED
      BY <2>1, <2>2, <2>3
  <1>10. Jump(n)[1].op = "jump" /\ Jump(n)[1].arg = n /\ Jump(n)[1].rest = Raise
    BY DEF Jump, Access
  <1>. DEFINE asn == [k \in 1 .. (m + n + 2) |-> IF k <= m + 1 THEN ds[k]
                                                ELSE IF k = m + n + 2 THEN Q ELSE {}]
  <1>. HIDE DEF t, u
  <1>11. ds \in [1 .. (m + 1) -> SUBSET d.states]
    BY <1>1 DEF Way
  <1>12. /\ \A k \in 1 .. (m + 1) : asn[k] = ds[k]
         /\ asn[m + n + 2] = Q
         /\ \A k \in (m + 2) .. (m + n + 1) : asn[k] = {}
         /\ asn \in [1 .. (m + n + 2) -> SUBSET d.states]
    BY <1>2, <1>11
  <1>. HIDE DEF asn, m, n
  <1>13. ASSUME NEW k \in 1 .. m PROVE Links(u, k, asn, d)
    <2>1. Links(s, k, ds, d) /\ asn[k] = ds[k]
      BY <1>1, <1>2, <1>12 DEF Way, m
    <2>2. /\ Means(u[k], d, s[k], d) /\ Fit(u[k])
          /\ s[k].rest # Raise => u[k].rest = s[k].rest
          /\ s[k].rest = Raise => u[k].rest = m - k + 2
      BY <1>2, <1>5, <1>7, <1>9
    <2>3. ASSUME NEW i, Reaches(s[k], i) PROVE asn[k + i] = ds[k + i]
      <3>1. i \in 1 .. (m + 1 + 0 - k)
        BY <1>2, <2>3 DEF Block, m
      <3>2. k + i \in 1 .. (m + 1)
        BY <1>2, <3>1
      <3>. QED
        BY <1>12, <3>2
    <2>4. \A g \in asn[k] : Meets(g, u[k], d)
      BY <2>1, <2>2, SameMeaning DEF Links
    <2>5. \A i : Leap(u[k], i) => \A g \in Source(u[k], asn[k], d) : Passed(g, u[k], d) \in asn[k + i]
      BY <2>1, <2>2, <2>3, SameMeaning DEF Links, Reaches
    <2>6. ASSUME u[k].rest # Raise,
                 ~d.mine[u[k].cobo] \/ \A i \in k .. (k + u[k].rest - 1) : Harmless(u[i])
          PROVE  asn[k] \subseteq asn[k + u[k].rest]
      <3>1. PICK r : r = u[k].rest
        OBVIOUS
      <3>2. d.mine[u[k].cobo]
        BY <2>2 DEF Fit
      <3>3. \A i \in k .. (k + r - 1) : Harmless(u[i])
        BY <2>6, <3>1, <3>2
      <3>4. \A i \in 1 .. m : Harmless(u[i]) => Harmless(s[i])
        <4>1. ASSUME NEW i \in 1 .. m PROVE Means(u[i], d, s[i], d)
          BY <1>2, <1>5, <1>7, <1>9
        <4>. QED
          BY <4>1, SameMeaning
      <3>5. CASE s[k].rest = Raise
        <4>1. m \in k .. (k + r - 1) /\ m \in 1 .. m
          BY <1>2, <2>2, <3>1, <3>5
        <4>2. Harmless(s[m])
          BY <3>3, <3>4, <4>1
        <4>. QED
          BY <4>2 DEF m
      <3>6. CASE s[k].rest # Raise
        <4>1. r = s[k].rest
          BY <2>2, <3>1, <3>6
        <4>2. r \in 1 .. (m + 1 + 0 - k)
          BY <1>2, <3>6, <4>1 DEF Block, Reaches, m
        <4>3. \A i \in k .. (k + r - 1) : i \in 1 .. m
          BY <1>2, <4>2
        <4>4. \A i \in k .. (k + r - 1) : Harmless(s[i])
          BY <3>3, <3>4, <4>3
        <4>5. ds[k] \subseteq ds[k + r]
          BY <2>1, <3>6, <4>1, <4>4 DEF Links
        <4>. QED
          BY <2>1, <2>3, <3>1, <3>6, <4>1, <4>5 DEF Reaches
      <3>. QED
        BY <3>5, <3>6
    <2>. QED
      BY <2>4, <2>5, <2>6 DEF Links
  <1>14. Links(u, m + 1, asn, d)
    <2>1. m + 1 \in 1 .. (m + 1)
      BY <1>2
    <2>2. PICK b : b = u[m + 1]
      OBVIOUS
    <2>3. Means(b, d, Jump(n)[1], d) /\ Fit(b)
      BY <1>5, <1>7, <1>9, <2>1, <2>2
    <2>4. b.op = "jump" /\ b.arg = n
      BY <1>10, <2>3 DEF Means
    <2>5. b.rest = 1
      BY <1>2, <1>5, <1>7, <1>9, <1>10, <2>1, <2>2
    <2>6. \A i : Leap(b, i) => m + 1 + i = m + n + 2
      BY <1>2, <2>4 DEF Leap
    <2>7. asn[m + 1] \subseteq Q
      BY <1>1, <1>12, <2>1 DEF m
    <2>8. \A g : Meets(g, b, d) /\ Passed(g, b, d) = g
      BY <2>4 DEF Meets, Needs, Passed, Turned, Calls
    <2>9. Source(b, asn[m + 1], d) = asn[m + 1]
      BY <2>4 DEF Source
    <2>10. ~Harmless(b) /\ d.mine[b.cobo]
      BY <2>3, <2>4 DEF Harmless, Fit
    <2>11. m + 1 \in (m + 1) .. (m + 1 + b.rest - 1)
      BY <1>2, <2>5
    <2>. QED
      BY <1>12, <2>2, <2>6, <2>7, <2>8, <2>9, <2>10, <2>11 DEF Links
  <1>15. ASSUME NEW j \in 1 .. n PROVE Links(u, m + 1 + j, asn, d)
    <2>1. m + 1 + j \in (m + 2) .. (m + n + 1)
      BY <1>2
    <2>2. asn[m + 1 + j] = {}
      BY <1>12, <2>1
    <2>3. u[m + 1 + j].op # "initDone"
      BY <1>9 DEF Uses, Spends, n
    <2>. QED
      BY <2>2, <2>3 DEF Links, Source
  <1>16. Way(u, asn, d)
    <2>1. ASSUME NEW k \in 1 .. (m + n + 1) PROVE Links(u, k, asn, d)
      <3>1. k \in 1 .. m \/ k = m + 1 \/ k - (m + 1) \in 1 .. n
        BY <1>2
      <3>2. k - (m + 1) \in 1 .. n => k = m + 1 + (k - (m + 1))
        BY <1>2
      <3>3. k - (m + 1) \in 1 .. n => Links(u, m + 1 + (k - (m + 1)), asn, d)
        BY <1>15
      <3>. QED
        BY <1>13, <1>14, <3>1, <3>2, <3>3
    <2>2. Len(u) + 1 = m + n + 2
      BY <1>2, <1>9
    <2>. QED
      BY <1>9, <1>12, <2>1, <2>2 DEF Way
  <1>17. P \subseteq asn[1] /\ asn[Len(u) + 1] \subseteq Q
    <2>1. 1 \in 1 .. (m + 1) /\ Len(u) + 1 = m + n + 2
      BY <1>2, <1>9
    <2>. QED
      BY <1>1, <1>12, <2>1
  <1>18. TryElse(s, h) = u
    BY DEF u, t, v, n, TryElse, Try
  <1>. QED
    BY <1>8, <1>16, <1>17, <1>18 DEF Carries

\* A loop over any number of parts.
LEMMA CarriesAll ==
    ASSUME NEW N \in Nat, NEW seqs, DOMAIN seqs = 1 .. N, seqs = [n \in 1 .. N |-> seqs[n]],
           NEW P, NEW d, P \subseteq d.states, \A n \in 1 .. N : Carries(seqs[n], P, P, d)
    PROVE  Carries(FlattenSeq(seqs), P, P, d)
  <1>1. \A n \in 1 .. N : IsSeq(seqs[n])
    BY DEF Carries, Block
  <1>2. PICK A : \A n \in 1 .. N : seqs[n] \in Seq(A)
    BY <1>1, OneSet
  <1>. DEFINE S == {s \in Seq(A) : Carries(s, P, P, d)}
  <1>3. << >> \in S
    BY NothingStays, StaysCarries
  <1>4. \A s, t \in S : s \o t \in S
    BY ConcatProperties, CarriesThen
  <1>5. seqs \in [1 .. N -> S]
    BY <1>2
  <1>. HIDE DEF S
  <1>6. FlattenSeq(seqs) \in S
    BY <1>3, <1>4, <1>5, FlattenClosed
  <1>. QED
    BY <1>6 DEF S

-------------------------------------------------------------------------------
(* The selections of boards and chips                                          *)

\* The scopes in which the accesses of a visit to CoBo c are looked at: their
\* writes are meant for the boards B and the chips K.
Scope(d, c, B, K) ==
    /\ (\A l \in Int : d.mine[l]) /\ d.strict /\ d.states = Sane(c)
    /\ d.board[All] = B /\ d.chip[All] = K
Visited(d, c) ==
    /\ Scope(d, c, Masks(c).asads, Masks(c).chips)
    /\ \A i \in AsAds : d.board[i] = {i}
    /\ \A k \in Chips : d.chip[k] = {k}

\* The boards and chips of a CoBo.
LEMMA ActiveParts ==
    \A c : /\ Masks(c).asads \subseteq AsAds /\ Masks(c).chips \subseteq Chips
           /\ \A i \in AsAds : IsAsadActive(c, i) <=> i \in Masks(c).asads
           /\ \A k \in Chips : IsAgetActive(c, k) <=> k \in Masks(c).chips
           /\ \A k \in Masks(c).chips : (k \div 4) \in Masks(c).asads
  <1>. SUFFICES ASSUME NEW c
                PROVE  /\ Masks(c).asads \subseteq AsAds /\ Masks(c).chips \subseteq Chips
                       /\ \A i \in AsAds : IsAsadActive(c, i) <=> i \in Masks(c).asads
                       /\ \A k \in Chips : IsAgetActive(c, k) <=> k \in Masks(c).chips
                       /\ \A k \in Masks(c).chips : (k \div 4) \in Masks(c).asads
    OBVIOUS
  <1>1. /\ Masks(c).asads = {i \in AsAds : IsAsadActive(c, i)}
        /\ Masks(c).chips = {k \in Chips : IsAgetActive(c, k)}
    BY DEF Masks
  <1>2. \A k \in Chips : (k \div 4) \in AsAds
    BY DEF Chips, AsAds
  <1>3. \A k \in Chips : IsAgetActive(c, k) => IsAsadActive(c, k \div 4)
    BY DEF IsAgetActive
  <1>. QED
    BY <1>1, <1>2, <1>3

\* The scopes of one board and of one chip.
LEMMA Scopes ==
    ASSUME NEW c, NEW d, Visited(d, c)
    PROVE  /\ \A i \in AsAds : Scope(ForBoard(d, i), c, {i}, Masks(c).chips)
           /\ \A k \in Chips : Scope(ForChip(d, k), c, Masks(c).asads, {k})
           /\ \A i \in AsAds, k \in Chips : Scope(ForChip(ForBoard(d, i), k), c, {i}, {k})
  <1>1. All \in Int
    BY DEF All
  <1>2. ASSUME NEW i \in AsAds PROVE Scope(ForBoard(d, i), c, {i}, Masks(c).chips)
    BY <1>1 DEF Visited, Scope, ForBoard
  <1>3. ASSUME NEW k \in Chips PROVE Scope(ForChip(d, k), c, Masks(c).asads, {k})
    BY <1>1 DEF Visited, Scope, ForChip
  <1>4. ASSUME NEW i \in AsAds, NEW k \in Chips
        PROVE  Scope(ForChip(ForBoard(d, i), k), c, {i}, {k})
    <2>1. d.chip[k] = {k} /\ d.board[i] = {i}
      BY DEF Visited
    <2>2. ForBoard(d, i).chip = d.chip
      BY DEF ForBoard
    <2>3. PICK e : e = ForBoard(d, i)
      OBVIOUS
    <2>4. Scope(e, c, {i}, Masks(c).chips) /\ e.chip[k] = {k}
      BY <1>2, <2>1, <2>2, <2>3
    <2>5. Scope(ForChip(e, k), c, {i}, {k})
      BY <1>1, <2>4 DEF Scope, ForChip
    <2>. QED
      BY <2>3, <2>5
  <1>. QED
    BY <1>2, <1>3, <1>4

\* A routine that uses only what P does not depend on.
LEMMA UsesCarries ==
    ASSUME NEW c, NEW B, NEW K, NEW d, Scope(d, c, B, K), NEW s, NEW F, NEW W, Uses(s, 0, F, W),
           NEW P, Blind(P, F), P \subseteq Sane(c),
           "asad" \in W => \A h \in P : h.asadMask \cap h.power = B,
           "field" \in W => \A h \in P : h.asad \in h.asadMask
    PROVE  Carries(s, P, P, d)
  <1>1. P \subseteq d.states /\ Serves(P, W, d)
    BY DEF Scope, Serves
  <1>2. Stays(s, 0, P, d)
    BY <1>1, UsesStays
  <1>. QED
    BY <1>2, StaysCarries

\* The rounds of a loop over the boards.
LEMMA Rounds ==
    ASSUME NEW d, NEW s0, NEW s1, NEW s2, NEW s3, NEW P0, NEW P1, NEW P2, NEW P3, NEW P4,
           Carries(s0, P0, P1, d), Carries(s1, P1, P2, d), Carries(s2, P2, P3, d),
           Carries(s3, P3, P4, d)
    PROVE  Carries(s0 \o s1 \o s2 \o s3, P0, P4, d)
  <1>1. Carries(s0 \o s1, P0, P2, d)
    BY CarriesThen
  <1>2. Carries(s0 \o s1 \o s2, P0, P3, d)
    BY <1>1, CarriesThen
  <1>. QED
    BY <1>2, CarriesThen

\* A part that is left out.
LEMMA Perhaps ==
    ASSUME NEW d, NEW s, NEW P, NEW b, P \subseteq d.states, b => Carries(s, P, P, d)
    PROVE  Carries(When(b, s), P, P, d)
  <1>1. CASE b
    BY <1>1 DEF When
  <1>2. CASE ~b
    <2>1. Carries(<< >>, P, P, d)
      BY NothingStays, StaysCarries
    <2>. QED
      BY <1>2, <2>1 DEF When
  <1>. QED
    BY <1>1, <1>2

\* Sets of states that do not depend on what the selections of boards change.
Selecting == Base \cup {"asadMask", "asad"}
FreeOfBoards(P, c) == P \subseteq Lit(c) /\ Blind(P, Selecting)
Turn(h, op, dev, arg) == Turned(h, Access(op, dev, arg)[1])

\* One access, for which the CoBo is in the right state.
LEMMA OneTurn ==
    ASSUME NEW op, NEW dev \in Devices, NEW arg, Suits(op, arg), op \notin {"jump", "check", "throw"},
           op \in {"initDone", "hitRegister"} => arg \in BOOLEAN,
           op = "buffer" => arg.asad \in AsAds /\ arg.start \in Int /\ arg.end \in Int,
           op \in {"write", "field"} =>
               arg.groups \in SUBSET Groups /\ arg.good \in BOOLEAN /\ arg.of \in Int,
           op = "initDone" => arg,
           NEW c, NEW B, NEW K, NEW d, Scope(d, c, B, K), NEW P, P \subseteq Sane(c), NEW Q,
           Q \subseteq Sane(c), \A h \in P : Turn(h, op, dev, arg) \in Q,
           op \in {"write", "field"} => \A h \in P : Meets(h, Access(op, dev, arg)[1], d)
    PROVE  Carries(Access(op, dev, arg), P, Q, d)
  <1>1. PICK a : a = Access(op, dev, arg)[1]
    OBVIOUS
  <1>2. Fit(a) /\ a.op = op /\ a.dev = dev /\ a.arg = arg /\ a.cobo = NoCoBo
    BY <1>1, AccessFits
  <1>3. d.mine[a.cobo]
    BY <1>2 DEF Scope, NoCoBo
  <1>4. \A h \in P : Passed(h, a, d) \in Q
    BY <1>1, <1>3 DEF Passed, Turn
  <1>5. Source(a, P, d) = P
    BY <1>2 DEF Source
  <1>6. \A h \in P : Meets(h, a, d)
    <2>1. op \notin {"write", "field"} => \A h : Meets(h, a, d)
      BY <1>2 DEF Meets, Needs
    <2>. QED
      BY <1>1, <2>1
  <1>7. P \subseteq d.states /\ Q \subseteq d.states
    BY DEF Scope
  <1>. QED
    BY <1>1, <1>2, <1>4, <1>5, <1>6, <1>7, OneCarries

\* What the selections leave selected, and what they leave alone.
LEMMA Turns ==
    ASSUME NEW h \in CoBoStates
    PROVE  /\ \A S : Turn(h, "select", "ctrl", S) = [h EXCEPT !.asadMask = S]
           /\ \A i : Turn(h, "asad", "ctrl", i) = [h EXCEPT !.asad = i]
           /\ \A k : Turn(h, "chip", "ctrl", k) = [h EXCEPT !.chip = k]
           /\ \A S : Turn(h, "enable", "ctrl", S) = [h EXCEPT !.enabled = S]
           /\ \A S : Turn(h, "pulse", "ctrl", S) = [h EXCEPT !.pulse = S]
           /\ \A b : Turn(h, "hitRegister", "ctrl", b) = [h EXCEPT !.hitRegister = b]
           /\ Turn(h, "fire", "ctrl", 0) = Pulsed(h) /\ Turn(h, "read", "aget", 0) = Pulsed(h)
           /\ \A i : Turn(h, "powerOn", "ctrl", i) = [h EXCEPT !.power = @ \cup {i}]
           /\ \A i : Turn(h, "powerOff", "ctrl", i) = PoweredOff(h, i)
           /\ \A op \in {"write", "field"} : \A arg :
                  Turn(h, op, "aget", arg) = Written(Pulsed(h), Access(op, "aget", arg)[1])
  <1>1. \A op, dev, arg : /\ Access(op, dev, arg)[1].op = op /\ Access(op, dev, arg)[1].arg = arg
                          /\ Access(op, dev, arg)[1].dev = dev
    BY DEF Access
  <1>2. \A S : Turn(h, "select", "ctrl", S) = [h EXCEPT !.asadMask = S]
    BY <1>1 DEF Turn, Turned, Calls, After
  <1>3. \A i : Turn(h, "asad", "ctrl", i) = [h EXCEPT !.asad = i]
    BY <1>1 DEF Turn, Turned, Calls, After
  <1>4. \A k : Turn(h, "chip", "ctrl", k) = [h EXCEPT !.chip = k]
    BY <1>1 DEF Turn, Turned, Calls, After
  <1>5. \A S : Turn(h, "enable", "ctrl", S) = [h EXCEPT !.enabled = S]
    BY <1>1 DEF Turn, Turned, Calls, After
  <1>6. \A S : Turn(h, "pulse", "ctrl", S) = [h EXCEPT !.pulse = S]
    BY <1>1 DEF Turn, Turned, Calls, After
  <1>7. \A b : Turn(h, "hitRegister", "ctrl", b) = [h EXCEPT !.hitRegister = b]
    BY <1>1 DEF Turn, Turned, Calls, After
  <1>8. Turn(h, "fire", "ctrl", 0) = Pulsed(h)
    BY <1>1 DEF Turn, Turned, Calls, After
  <1>9. Turn(h, "read", "aget", 0) = Pulsed(h)
    BY <1>1 DEF Turn, Turned, Calls, After, Touched
  <1>10. \A i : Turn(h, "powerOn", "ctrl", i) = [h EXCEPT !.power = @ \cup {i}]
    <2>. TAKE i
    <2>1. PICK a : a = Access("powerOn", "ctrl", i)[1]
      OBVIOUS
    <2>2. a.op = "powerOn" /\ a.arg = i
      BY <1>1, <2>1
    <2>3. After(h, a) = [h EXCEPT !.power = @ \cup {a.arg}]
      BY <2>2 DEF After
    <2>. QED
      BY <2>1, <2>2, <2>3 DEF Turn, Turned, Calls
  <1>11. \A i : Turn(h, "powerOff", "ctrl", i) = PoweredOff(h, i)
    BY <1>1 DEF Turn, Turned, Calls, After
  <1>12. \A op \in {"write", "field"} : \A arg :
             Turn(h, op, "aget", arg) = Written(Pulsed(h), Access(op, "aget", arg)[1])
    BY <1>1 DEF Turn, Turned, Calls, After, Touched
  <1>. QED
    BY <1>2, <1>3, <1>4, <1>5, <1>6, <1>7, <1>8, <1>9, <1>10, <1>11, <1>12

\* An access keeps a set that does not depend on what it alters.
LEMMA TurnKeeps ==
    ASSUME NEW P, NEW F, Blind(P, F), NEW op, NEW dev \in Devices, NEW arg, Suits(op, arg),
           op \in {"initDone", "hitRegister"} => arg \in BOOLEAN,
           op = "buffer" => arg.asad \in AsAds /\ arg.start \in Int /\ arg.end \in Int,
           op \in {"write", "field"} =>
               arg.groups \in SUBSET Groups /\ arg.good \in BOOLEAN /\ arg.of \in Int,
           \A x : Alters(Access(op, dev, arg)[1], x) => x \in F
    PROVE  \A h \in P : Turn(h, op, dev, arg) \in P
  <1>1. Fit(Access(op, dev, arg)[1])
    BY AccessFits
  <1>. QED
    BY <1>1, BlindKeeps DEF Turn

\* The boards to which writes go.
LEMMA SelectsBoards ==
    ASSUME NEW c, NEW B, NEW K, NEW d, Scope(d, c, B, K), NEW P, P \subseteq Sane(c),
           Blind(P, Base \cup {"asadMask"}), NEW S \in SUBSET AsAds
    PROVE  Carries(SetAsAdSlowControlMask(S), P, P \cap Selected(S), d)
  <1>1. "ctrl" \in Devices /\ Suits("select", S)
    BY DEF Devices, AnyDevice, Suits
  <1>2. \A h \in P : Turn(h, "select", "ctrl", S) \in P
    <2>1. \A x : Alters(Access("select", "ctrl", S)[1], x) => x \in Base \cup {"asadMask"}
      BY DEF Alters, Access
    <2>. QED
      BY <1>1, <2>1, TurnKeeps
  <1>3. \A h \in P : Turn(h, "select", "ctrl", S) \in P \cap Selected(S)
    <2>1. P \subseteq CoBoStates
      BY DEF Blind
    <2>2. ASSUME NEW h \in P PROVE Turn(h, "select", "ctrl", S).asadMask = S
      <3>1. PICK g : g = Turn(h, "select", "ctrl", S)
        OBVIOUS
      <3>2. g = [h EXCEPT !.asadMask = S]
        BY <2>1, <3>1, Turns
      <3>3. g.asadMask = S
        BY <2>1, <3>2 DEF CoBoStates
      <3>. QED
        BY <3>1, <3>3
    <2>. QED
      BY <1>2, <2>1, <2>2 DEF Selected
  <1>4. Carries(Access("select", "ctrl", S), P, P \cap Selected(S), d)
    BY <1>1, <1>3, OneTurn
  <1>5. /\ Len(Access("select", "ctrl", S)) = 1
        /\ ~Harmless(Access("select", "ctrl", S)[Len(Access("select", "ctrl", S))])
    <2>1. Len(Access("select", "ctrl", S)) = 1 /\ Access("select", "ctrl", S)[1].op = "select"
      BY DEF Access
    <2>. QED
      BY <2>1 DEF Harmless
  <1>6. Carries(Try(Access("select", "ctrl", S)), P, P \cap Selected(S), d)
    <2>1. \A l \in Int : d.mine[l]
      BY DEF Scope
    <2>. QED
      BY <1>4, <1>5, <2>1, CarriesTry
  <1>7. Carries(Device("ctrl"), P, P, d)
    <2>1. Uses(Device("ctrl"), 0, Base, {}) /\ Blind(P, Base)
      BY UsesWrites, BlindLess
    <2>. QED
      BY <2>1, UsesCarries
  <1>. QED
    BY <1>6, <1>7, CarriesThen DEF SetAsAdSlowControlMask

\* One board to write to and to read from.
LEMMA SelectsBoard ==
    ASSUME NEW c, NEW B, NEW K, NEW d, Scope(d, c, B, K), NEW P, FreeOfBoards(P, c), NEW i \in AsAds
    PROVE  Carries(SelectAsAdForSlowControl(i), P, P \cap AtBoard(i), d)
  <1>1. Carries(SetAsAdSlowControlMask({i}), P, P \cap Selected({i}), d)
    <2>1. P \subseteq Sane(c) /\ Blind(P, Base \cup {"asadMask"}) /\ {i} \in SUBSET AsAds
      BY BlindLess DEF FreeOfBoards, Selecting, Lit
    <2>. QED
      BY <2>1, SelectsBoards
  <1>. DEFINE Q == P \cap Selected({i})
  <1>2. Q \subseteq Sane(c) /\ Q \subseteq CoBoStates
    BY DEF FreeOfBoards, Lit, Sane
  <1>3. Blind(Q, Base \cup {"asad"})
    <2>1. Blind(P, Base \cup {"asad"})
      BY BlindLess DEF FreeOfBoards, Selecting
    <2>2. Blind(Selected({i}), Base \cup {"asad"})
      BY BlindSets DEF Base
    <2>. QED
      BY <2>1, <2>2, BlindMeet
  <1>4. "ctrl" \in Devices /\ Suits("asad", i)
    BY DEF Devices, AnyDevice, Suits
  <1>5. \A h \in Q : Turn(h, "asad", "ctrl", i) \in Q
    <2>1. \A x : Alters(Access("asad", "ctrl", i)[1], x) => x \in Base \cup {"asad"}
      BY DEF Alters, Access
    <2>. HIDE DEF Q
    <2>. QED
      BY <1>3, <1>4, <2>1, TurnKeeps
  <1>6. \A h \in Q : Turn(h, "asad", "ctrl", i) \in P \cap AtBoard(i)
    <2>. HIDE DEF Q
    <2>2. ASSUME NEW h \in Q PROVE Turn(h, "asad", "ctrl", i).asad = i
      <3>1. PICK g : g = Turn(h, "asad", "ctrl", i)
        OBVIOUS
      <3>2. g = [h EXCEPT !.asad = i]
        BY <1>2, <3>1, Turns
      <3>3. g.asad = i
        BY <1>2, <3>2 DEF CoBoStates
      <3>. QED
        BY <3>1, <3>3
    <2>. QED
      BY <1>5, <2>2 DEF Q, Selected, AtBoard
  <1>7. P \cap AtBoard(i) \subseteq Sane(c)
    BY DEF FreeOfBoards, Lit, Sane
  <1>. HIDE DEF Q
  <1>8. Carries(Access("asad", "ctrl", i), Q, P \cap AtBoard(i), d)
    BY <1>2, <1>4, <1>6, <1>7, OneTurn
  <1>9. Carries(Device("ctrl"), Q, Q, d)
    <2>1. Uses(Device("ctrl"), 0, Base, {}) /\ Blind(Q, Base)
      BY <1>3, UsesWrites, BlindLess
    <2>. QED
      BY <1>2, <2>1, UsesCarries
  <1>10. Carries(SelectAsAdForRead(i), Q, P \cap AtBoard(i), d)
    BY <1>8, <1>9, CarriesThen DEF SelectAsAdForRead
  <1>. QED
    BY <1>1, <1>10, CarriesThen DEF SelectAsAdForSlowControl, Q

\* What is done at a board that was selected.
Boards(s, P, i, e) == Carries(s, P, P \cap AtBoard(i), e)

\* Selecting a board and accesses of its AsAd after it (EccClient.cpp:950).
LEMMA AtTheBoard ==
    ASSUME NEW c, NEW d, Visited(d, c), NEW P, FreeOfBoards(P, c), NEW i \in Masks(c).asads
    PROVE  /\ Boards(SelectAsAdForSlowControl(i), P, i, ForBoard(d, i))
           /\ \A t : Uses(t, 0, Base, {"asad", "field"}) =>
                         Carries(t, P \cap AtBoard(i), P \cap AtBoard(i), ForBoard(d, i))
           /\ \A s, t : Boards(s, P, i, ForBoard(d, i)) /\ Uses(t, 0, Base, {"asad", "field"})
                            => Boards(s \o t, P, i, ForBoard(d, i))
  <1>. DEFINE Q == P \cap AtBoard(i)
  <1>1. PICK e : e = ForBoard(d, i)
    OBVIOUS
  <1>2. i \in AsAds /\ Masks(c).asads \subseteq AsAds
    BY ActiveParts
  <1>3. Scope(e, c, {i}, Masks(c).chips)
    BY <1>1, <1>2, Scopes
  <1>4. Boards(SelectAsAdForSlowControl(i), P, i, e)
    BY <1>2, <1>3, SelectsBoard DEF Boards
  <1>5. Blind(Q, Base) /\ Q \subseteq Sane(c)
    <2>1. Blind(P, Base)
      BY BlindLess DEF FreeOfBoards, Selecting
    <2>2. Blind(AtBoard(i), Base)
      BY BlindSets DEF Base
    <2>. QED
      BY <2>1, <2>2, BlindMeet DEF FreeOfBoards, Lit
  <1>6. \A h \in Q : h.asadMask \cap h.power = {i} /\ h.asad \in h.asadMask
    <2>1. \A h \in Q : h.power = Masks(c).asads /\ h.asadMask = {i} /\ h.asad = i
      BY DEF FreeOfBoards, Lit, AtBoard
    <2>. QED
      BY <2>1
  <1>. HIDE DEF Q
  <1>7. ASSUME NEW t, Uses(t, 0, Base, {"asad", "field"}) PROVE Carries(t, Q, Q, e)
    BY <1>3, <1>5, <1>6, <1>7, UsesCarries
  <1>8. ASSUME NEW s, NEW t, Boards(s, P, i, e), Uses(t, 0, Base, {"asad", "field"})
        PROVE  Boards(s \o t, P, i, e)
    BY <1>7, <1>8, CarriesThen DEF Boards, Q
  <1>. QED
    BY <1>1, <1>4, <1>7, <1>8 DEF Q

\* One round of a loop over the active boards.
LEMMA Round ==
    ASSUME NEW c, NEW d, Visited(d, c), NEW P, P \subseteq Sane(c), NEW i \in AsAds, NEW s,
           i \in Masks(c).asads => Carries(s, P, P, ForBoard(d, i))
    PROVE  Carries(When(IsAsadActive(c, i), OnBoard(i, s)), P, P, d)
  <1>1. i \in Int /\ (IsAsadActive(c, i) <=> i \in Masks(c).asads)
    BY ActiveParts DEF AsAds
  <1>2. P \subseteq d.states
    BY DEF Visited, Scope
  <1>3. ASSUME IsAsadActive(c, i) PROVE Carries(OnBoard(i, s), P, P, d)
    <2>1. Carries(s, P, P, ForBoard(d, i))
      BY <1>1, <1>3
    <2>2. Block(s, 0)
      BY <2>1 DEF Carries
    <2>. QED
      BY <1>1, <2>1, <2>2, Targeted
  <1>. QED
    BY <1>2, <1>3, Perhaps

\* A round that only goes to a board.
LEMMA BoardRound ==
    ASSUME NEW c, NEW d, Visited(d, c), NEW P, FreeOfBoards(P, c), NEW i \in AsAds, NEW s,
           i \in Masks(c).asads => Boards(s, P, i, ForBoard(d, i))
    PROVE  Carries(When(IsAsadActive(c, i), OnBoard(i, s)), P, P, d)
  <1>1. P \subseteq Sane(c)
    BY DEF FreeOfBoards, Lit
  <1>2. i \in Masks(c).asads => Carries(s, P, P, ForBoard(d, i))
    <2>1. P \subseteq P /\ P \cap AtBoard(i) \subseteq P
      OBVIOUS
    <2>. QED
      BY <2>1, Wider DEF Boards
  <1>. QED
    BY <1>1, <1>2, Round

\* The selection of all active boards, at the end of a loop.
LEMMA SelectsActive ==
    ASSUME NEW c, NEW B, NEW K, NEW d, Scope(d, c, B, K), NEW P, FreeOfBoards(P, c)
    PROVE  Carries(SetAsAdSlowControlMask(Masks(c).asads), P, P \cap Selected(Masks(c).asads), d)
  <1>1. P \subseteq Sane(c) /\ Blind(P, Base \cup {"asadMask"})
    BY BlindLess DEF FreeOfBoards, Selecting, Lit
  <1>. QED
    BY <1>1, ActiveParts, SelectsBoards

\* What is then done at all boards.
LEMMA AtAllBoards ==
    ASSUME NEW c, NEW d, Visited(d, c), NEW P, P \subseteq Lit(c), NEW F,
           Blind(P, F), "asadMask" \notin F, NEW s
    PROVE  LET Q == P \cap Selected(Masks(c).asads) IN
           Uses(s, 0, F, {"asad"}) => Carries(s, Q, Q, d)
  <1>. DEFINE Q == P \cap Selected(Masks(c).asads)
  <1>1. Blind(Q, F) /\ Q \subseteq Sane(c)
    BY BlindSets, BlindMeet DEF Lit
  <1>2. \A h \in Q : h.asadMask \cap h.power = Masks(c).asads
    <2>1. \A h \in Q : h.asadMask = Masks(c).asads /\ h.power = Masks(c).asads
      BY DEF Lit, Selected
    <2>. QED
      BY <2>1
  <1>. HIDE DEF Q
  <1>3. ASSUME Uses(s, 0, F, {"asad"}) PROVE Carries(s, Q, Q, d)
    <2>1. Scope(d, c, Masks(c).asads, Masks(c).chips) /\ "field" \notin {"asad"}
      BY DEF Visited
    <2>. QED
      BY <1>1, <1>2, <1>3, <2>1, UsesCarries
  <1>. QED
    BY <1>3 DEF Q

-------------------------------------------------------------------------------
(* The routines for the boards                                                 *)

\* Monitoring (GetController.cpp:1199).
LEMMA AsAdMonitoringInitFlows ==
    ASSUME NEW c, NEW d, Visited(d, c), NEW P, FreeOfBoards(P, c)
    PROVE  Carries(AsAdMonitoringInit(c), P, P \cap Selected(Masks(c).asads), d)
  <1>. DEFINE Board(i) == SelectAsAdForSlowControl(i)
                          \o AsAdMonitoringReset
                          \o AsAdDisableAutoProtection
                          \o SetLimits
                          \o SetOperationalMode(FALSE)
              OneRound(i) == When(IsAsadActive(c, i), OnBoard(i, Board(i)))
  <1>1. /\ Uses(AsAdMonitoringReset, 0, Base, {"asad", "field"})
        /\ Uses(AsAdDisableAutoProtection, 0, Base, {"asad", "field"})
        /\ Uses(SetLimits, 0, Base, {"asad", "field"})
        /\ Uses(SetOperationalMode(FALSE), 0, Base, {"asad", "field"})
    BY UsesBoardRoutines
  <1>2. ASSUME NEW i \in Masks(c).asads PROVE Boards(Board(i), P, i, ForBoard(d, i))
    BY <1>1, AtTheBoard
  <1>. HIDE DEF Board
  <1>3. ASSUME NEW i \in AsAds PROVE Carries(OneRound(i), P, P, d)
    BY <1>2, BoardRound
  <1>. HIDE DEF OneRound
  <1>4. Carries(OneRound(0) \o OneRound(1) \o OneRound(2) \o OneRound(3), P, P, d)
    BY <1>3, Rounds DEF AsAds
  <1>5. Carries(SetAsAdSlowControlMask(Masks(c).asads), P, P \cap Selected(Masks(c).asads), d)
    BY SelectsActive DEF Visited
  <1>. QED
    BY <1>4, <1>5, CarriesThen DEF AsAdMonitoringInit, EachActiveAsAd, EachAsAd, Board, OneRound

\* Alarms.
LEMMA AsAdAlertsInitFlows ==
    ASSUME NEW c, NEW d, Visited(d, c), NEW P, FreeOfBoards(P, c)
    PROVE  Carries(AsAdAlertsInit(c), P, P \cap Selected(Masks(c).asads), d)
  <1>. DEFINE Board(i) == SelectAsAdForSlowControl(i)
                          \o SetLimits
                          \o AsAdSetAutoProtectionLevel
                          \o SetOperationalMode(TRUE)
              OneRound(i) == When(IsAsadActive(c, i), OnBoard(i, Board(i)))
  <1>1. /\ Uses(SetLimits, 0, Base, {"asad", "field"})
        /\ Uses(AsAdSetAutoProtectionLevel, 0, Base, {"asad", "field"})
        /\ Uses(SetOperationalMode(TRUE), 0, Base, {"asad", "field"})
    BY UsesBoardRoutines
  <1>2. ASSUME NEW i \in Masks(c).asads PROVE Boards(Board(i), P, i, ForBoard(d, i))
    BY <1>1, AtTheBoard
  <1>. HIDE DEF Board
  <1>3. ASSUME NEW i \in AsAds PROVE Carries(OneRound(i), P, P, d)
    BY <1>2, BoardRound
  <1>. HIDE DEF OneRound
  <1>4. Carries(OneRound(0) \o OneRound(1) \o OneRound(2) \o OneRound(3), P, P, d)
    BY <1>3, Rounds DEF AsAds
  <1>5. Carries(SetAsAdSlowControlMask(Masks(c).asads), P, P \cap Selected(Masks(c).asads), d)
    BY SelectsActive DEF Visited
  <1>. QED
    BY <1>4, <1>5, CarriesThen DEF AsAdAlertsInit, EachActiveAsAd, EachAsAd, Board, OneRound

\* Clocks and inputs (GetController.cpp:538, 601, 677).
LEMMA AsAdSamplingClockInitFlows ==
    ASSUME NEW c, NEW d, Visited(d, c), NEW P, FreeOfBoards(P, c)
    PROVE  Carries(AsAdSamplingClockInit(c), P, P \cap Selected(Masks(c).asads), d)
  <1>. DEFINE Board(i) == SelectAsAdForSlowControl(i)
                          \o SetAsAdLcm1Register
              OneRound(i) == When(IsAsadActive(c, i), OnBoard(i, Board(i)))
  <1>1. Uses(SetAsAdLcm1Register, 0, Base, {"asad", "field"})
    BY UsesBoardRoutines
  <1>2. ASSUME NEW i \in Masks(c).asads PROVE Boards(Board(i), P, i, ForBoard(d, i))
    BY <1>1, AtTheBoard
  <1>. HIDE DEF Board
  <1>3. ASSUME NEW i \in AsAds PROVE Carries(OneRound(i), P, P, d)
    BY <1>2, BoardRound
  <1>. HIDE DEF OneRound
  <1>4. Carries(OneRound(0) \o OneRound(1) \o OneRound(2) \o OneRound(3), P, P, d)
    BY <1>3, Rounds DEF AsAds
  <1>5. Carries(SetAsAdSlowControlMask(Masks(c).asads), P, P \cap Selected(Masks(c).asads), d)
    BY SelectsActive DEF Visited
  <1>. QED
    BY <1>4, <1>5, CarriesThen DEF AsAdSamplingClockInit, EachActiveAsAd, EachAsAd, Board, OneRound

\* It leaves the last board selected.
LEMMA AsAdReadingClockInitFlows ==
    ASSUME NEW c, NEW d, Visited(d, c), NEW P, FreeOfBoards(P, c)
    PROVE  Carries(AsAdReadingClockInit(c), P, P, d)
  <1>. DEFINE Board(i) == SelectAsAdForSlowControl(i)
                          \o SetAsAdLcm2Register
              OneRound(i) == When(IsAsadActive(c, i), OnBoard(i, Board(i)))
  <1>1. Uses(SetAsAdLcm2Register, 0, Base, {"asad", "field"})
    BY UsesBoardRoutines
  <1>2. ASSUME NEW i \in Masks(c).asads PROVE Boards(Board(i), P, i, ForBoard(d, i))
    BY <1>1, AtTheBoard
  <1>. HIDE DEF Board
  <1>3. ASSUME NEW i \in AsAds PROVE Carries(OneRound(i), P, P, d)
    BY <1>2, BoardRound
  <1>. HIDE DEF OneRound
  <1>4. Carries(OneRound(0) \o OneRound(1) \o OneRound(2) \o OneRound(3), P, P, d)
    BY <1>3, Rounds DEF AsAds
  <1>. QED
    BY <1>4 DEF AsAdReadingClockInit, EachActiveAsAd, EachAsAd, Board, OneRound

\* Inputs of the chips.
LEMMA AsAdAgetInputManagerInitFlows ==
    ASSUME NEW c, NEW d, Visited(d, c), NEW P, FreeOfBoards(P, c)
    PROVE  Carries(AsAdAgetInputManagerInit(c), P, P \cap Selected(Masks(c).asads), d)
  <1>. DEFINE Board(i) == SelectAsAdForSlowControl(i)
                          \o AsAdConfigureAgetInputs
              OneRound(i) == When(IsAsadActive(c, i), OnBoard(i, Board(i)))
  <1>1. Uses(AsAdConfigureAgetInputs, 0, Base, {"asad", "field"})
    BY UsesBoardRoutines
  <1>2. ASSUME NEW i \in Masks(c).asads PROVE Boards(Board(i), P, i, ForBoard(d, i))
    BY <1>1, AtTheBoard
  <1>. HIDE DEF Board
  <1>3. ASSUME NEW i \in AsAds PROVE Carries(OneRound(i), P, P, d)
    BY <1>2, BoardRound
  <1>. HIDE DEF OneRound
  <1>4. Carries(OneRound(0) \o OneRound(1) \o OneRound(2) \o OneRound(3), P, P, d)
    BY <1>3, Rounds DEF AsAds
  <1>5. Carries(SetAsAdSlowControlMask(Masks(c).asads), P, P \cap Selected(Masks(c).asads), d)
    BY SelectsActive DEF Visited
  <1>. QED
    BY <1>4, <1>5, CarriesThen DEF AsAdAgetInputManagerInit, EachActiveAsAd, EachAsAd, Board, OneRound

\* The loops that write nothing to the boards.
LEMMA UsesLoops ==
    ASSUME NEW F, Base \subseteq F, "asad" \in F
    PROVE  \A c : /\ Uses(AsAdMonitoringCheckVDD(c), 0, F, {})
                  /\ Uses(SelectReadDataDelay(c), 0, F, {})
                  /\ Uses(EachActiveAsAd(c, ReadSensors), 0, F, {})
  <1>. SUFFICES ASSUME NEW c
                PROVE  /\ Uses(AsAdMonitoringCheckVDD(c), 0, F, {})
                       /\ Uses(SelectReadDataDelay(c), 0, F, {})
                       /\ Uses(EachActiveAsAd(c, ReadSensors), 0, F, {})
    OBVIOUS
  <1>1. Uses(AsAdMonitoringCheckVDD(c), 0, F, {})
    <2>. DEFINE Board(i) == Device("ctrl") \o Access("asad", "ctrl", i) \o Device("asad")
                            \o Read("asad")
                OneRound(i) == When(IsAsadActive(c, i), OnBoard(i, Board(i)))
    <2>1. ASSUME NEW i \in AsAds PROVE Uses(Board(i), 0, F, {})
      <3>1. /\ Uses(Device("ctrl"), 0, F, {}) /\ Uses(Device("asad"), 0, F, {})
            /\ Uses(Read("asad"), 0, F, {}) /\ Uses(Access("asad", "ctrl", i), 0, F, {})
        BY UsesWrites, UsesSelections
      <3>. QED
        BY <3>1, UsesParts
    <2>. HIDE DEF Board
    <2>2. ASSUME NEW i \in AsAds PROVE Uses(OneRound(i), 0, F, {})
      <3>1. i \in Int /\ Uses(Board(i), 0, F, {})
        BY <2>1 DEF AsAds
      <3>2. Uses(OnBoard(i, Board(i)), 0, F, {})
        BY <3>1, UsesMeant
      <3>. QED
        BY <3>2, UsesParts
    <2>. HIDE DEF OneRound
    <2>3. Uses(OneRound(0) \o OneRound(1) \o OneRound(2) \o OneRound(3), 0, F, {})
      BY <2>2, UsesParts DEF AsAds
    <2>. QED
      BY <2>3 DEF AsAdMonitoringCheckVDD, EachActiveAsAd, EachAsAd, Board, OneRound
  <1>2. Uses(SelectReadDataDelay(c), 0, F, {})
    <2>. DEFINE OneRound(i) == When(IsAsadActive(c, i), OnBoard(i, AsAdSetAutoReadDataDelayEnabled))
    <2>1. ASSUME NEW i \in AsAds PROVE Uses(OneRound(i), 0, F, {})
      <3>1. i \in Int /\ Uses(AsAdSetAutoReadDataDelayEnabled, 0, F, {})
        BY UsesCoBoRoutines DEF AsAds
      <3>2. Uses(OnBoard(i, AsAdSetAutoReadDataDelayEnabled), 0, F, {})
        BY <3>1, UsesMeant
      <3>. QED
        BY <3>2, UsesParts
    <2>. HIDE DEF OneRound
    <2>2. Uses(OneRound(0) \o OneRound(1) \o OneRound(2) \o OneRound(3), 0, F, {})
      BY <2>1, UsesParts DEF AsAds
    <2>. QED
      BY <2>2 DEF SelectReadDataDelay, EachActiveAsAd, EachAsAd, OneRound
  <1>3. Uses(EachActiveAsAd(c, ReadSensors), 0, F, {})
    <2>. DEFINE OneRound(i) == When(IsAsadActive(c, i), OnBoard(i, ReadSensors(i)))
    <2>1. ASSUME NEW i \in AsAds PROVE Uses(OneRound(i), 0, F, {})
      <3>1. i \in Int /\ Uses(ReadSensors(i), 0, F, {})
        BY UsesSelectingRoutines DEF AsAds
      <3>2. Uses(OnBoard(i, ReadSensors(i)), 0, F, {})
        BY <3>1, UsesMeant
      <3>. QED
        BY <3>2, UsesParts
    <2>. HIDE DEF OneRound
    <2>2. Uses(OneRound(0) \o OneRound(1) \o OneRound(2) \o OneRound(3), 0, F, {})
      BY <2>1, UsesParts DEF AsAds
    <2>. QED
      BY <2>2 DEF EachActiveAsAd, EachAsAd, OneRound
  <1>. QED
    BY <1>1, <1>2, <1>3

\* A routine that uses nothing of a board keeps what does not depend on boards.
LEMMA LeavesBoards ==
    ASSUME NEW c, NEW B, NEW K, NEW d, Scope(d, c, B, K), NEW P, FreeOfBoards(P, c), NEW s,
           Uses(s, 0, Selecting, {})
    PROVE  /\ Carries(s, P, P, d)
           /\ \A F : /\ F \subseteq Selecting /\ "asadMask" \notin F /\ Uses(s, 0, F, {}) =>
                            \A S : Carries(s, P \cap Selected(S), P \cap Selected(S), d)
  <1>1. P \subseteq Sane(c) /\ Blind(P, Selecting)
    BY DEF FreeOfBoards, Lit
  <1>2. Carries(s, P, P, d)
    BY <1>1, UsesCarries
  <1>3. ASSUME NEW F, F \subseteq Selecting, "asadMask" \notin F, Uses(s, 0, F, {}), NEW S
        PROVE  Carries(s, P \cap Selected(S), P \cap Selected(S), d)
    <2>. DEFINE Q == P \cap Selected(S)
    <2>1. Blind(Q, F) /\ Q \subseteq Sane(c)
      BY <1>1, <1>3, BlindLess, BlindSets, BlindMeet
    <2>. HIDE DEF Q
    <2>2. Carries(s, Q, Q, d)
      BY <1>3, <2>1, UsesCarries
    <2>. QED
      BY <2>2 DEF Q
  <1>. QED
    BY <1>2, <1>3

\* Sensors of the boards of CoBo b (GetController.cpp:1404).
LEMMA AsAdMonitoringReadFlows ==
    ASSUME NEW c, NEW d, Visited(d, c), NEW P, FreeOfBoards(P, c), NEW b
    PROVE  Carries(AsAdMonitoringRead(c, b), P, P, d)
  <1>1. Scope(d, c, Masks(c).asads, Masks(c).chips)
    BY DEF Visited
  <1>2. Carries(SetAsAdSlowControlMask(Masks(c).asads), P, P, d)
    <2>1. P \subseteq P /\ P \cap Selected(Masks(c).asads) \subseteq P
      OBVIOUS
    <2>. QED
      BY <1>1, <2>1, SelectsActive, Wider
  <1>3. Carries(EachActiveAsAd(b, ReadSensors), P, P, d)
    <2>1. Uses(EachActiveAsAd(b, ReadSensors), 0, Selecting, {})
      BY UsesLoops DEF Selecting
    <2>. QED
      BY <1>1, <2>1, LeavesBoards
  <1>. QED
    BY <1>2, <1>3, CarriesThen DEF AsAdMonitoringRead

\* Calibration of the boards (EccClient.cpp:427).
LEMMA AsAdCalFlows ==
    ASSUME NEW c, NEW d, Visited(d, c), NEW P, FreeOfBoards(P, c)
    PROVE  Carries(AsAdCal(Masks(c)), P, P \cap Selected(Masks(c).asads), d)
  <1>. DEFINE Board(i) == SelectAsAdForSlowControl(i) \o Device("asad") \o Read("asad")
                          \o AsAdSetBoardUserID \o AsAdGetIdentifier
              OneRound(i) == When(i \in Masks(c).asads, OnBoard(i, Board(i)))
  <1>1. /\ Uses(Device("asad"), 0, Base, {"asad", "field"})
        /\ Uses(Read("asad"), 0, Base, {"asad", "field"})
        /\ Uses(AsAdSetBoardUserID, 0, Base, {"asad", "field"})
        /\ Uses(AsAdGetIdentifier, 0, Base, {"asad", "field"})
    BY UsesBoardRoutines, UsesWrites
  <1>2. ASSUME NEW i \in Masks(c).asads PROVE Boards(Board(i), P, i, ForBoard(d, i))
    BY <1>1, AtTheBoard
  <1>. HIDE DEF Board
  <1>3. ASSUME NEW i \in AsAds PROVE Carries(OneRound(i), P, P, d)
    <2>1. Carries(When(IsAsadActive(c, i), OnBoard(i, Board(i))), P, P, d)
      BY <1>2, BoardRound
    <2>. QED
      BY <2>1, ActiveParts DEF When
  <1>. HIDE DEF OneRound
  <1>4. Carries(OneRound(0) \o OneRound(1) \o OneRound(2) \o OneRound(3), P, P, d)
    BY <1>3, Rounds DEF AsAds
  <1>. DEFINE Loop == OneRound(0) \o OneRound(1) \o OneRound(2) \o OneRound(3)
  <1>5. Carries(SetAsAdSlowControlMask(Masks(c).asads), P, P \cap Selected(Masks(c).asads), d)
    BY SelectsActive DEF Visited
  <1>6. Carries(SetAsAdSlowControlMask(Masks(c).asads), P, P, d)
    <2>1. P \subseteq P /\ P \cap Selected(Masks(c).asads) \subseteq P
      OBVIOUS
    <2>. QED
      BY <1>5, <2>1, Wider
  <1>7. Carries(Device("ctrl"), P, P, d) /\ Carries(Put("ctrl", {"asadController"}), P, P, d)
    <2>1. "asadController" \in Groups
      BY DEF Groups
    <2>2. Uses(Device("ctrl"), 0, Selecting, {}) /\ Uses(Put("ctrl", {"asadController"}), 0, Selecting, {})
      BY <2>1, UsesWrites DEF Selecting
    <2>. QED
      BY <2>2, LeavesBoards DEF Visited
  <1>. HIDE DEF Loop
  <1>8. Carries(SetAsAdSlowControlMask(Masks(c).asads) \o Device("ctrl")
                \o Put("ctrl", {"asadController"}) \o Loop, P, P, d)
    BY <1>4, <1>6, <1>7, CarriesThen DEF Loop
  <1>9. AsAdCal(Masks(c)) = SetAsAdSlowControlMask(Masks(c).asads) \o Device("ctrl")
                            \o Put("ctrl", {"asadController"}) \o Loop
                            \o SetAsAdSlowControlMask(Masks(c).asads)
    BY DEF AsAdCal, EachAsAd, Board, OneRound, Loop
  <1>. QED
    BY <1>5, <1>8, <1>9, CarriesThen

\* Inputs and converters of all boards (EccClient.cpp:500, 560).
LEMMA AllBoardsFlow ==
    ASSUME NEW c, NEW d, Visited(d, c), NEW P, FreeOfBoards(P, c)
    PROVE  LET Q == P \cap Selected(Masks(c).asads) IN
           /\ Carries(AsAdSetAgetInputProtections(Masks(c)), P, Q, d)
           /\ Carries(AsAdAdcInit(Masks(c)), P, Q, d)
           /\ Carries(AsAdDacInit, Q, Q, d)
  <1>. DEFINE Q == P \cap Selected(Masks(c).asads)
  <1>1. Carries(SetAsAdSlowControlMask(Masks(c).asads), P, Q, d)
    BY SelectsActive DEF Visited
  <1>2. P \subseteq Lit(c) /\ Blind(P, Base) /\ "asadMask" \notin Base
    BY BlindLess DEF FreeOfBoards, Selecting, Base
  <1>3. \A s : Uses(s, 0, Base, {"asad"}) => Carries(s, Q, Q, d)
    BY <1>2, AtAllBoards
  <1>. HIDE DEF Q
  <1>4. {"inputs"} \subseteq Groups /\ {"adcMode"} \subseteq Groups
    BY DEF Groups
  <1>5. /\ Uses(Device("asad"), 0, Base, {"asad"}) /\ Uses(Alter("asad", {"inputs"}), 0, Base, {"asad"})
        /\ Uses(Put("asad", {"adcMode"}), 0, Base, {"asad"})
    BY <1>4, UsesWrites
  <1>6. /\ Uses(AdcReset, 0, Base, {"asad"}) /\ Uses(AdcCal, 0, Base, {"asad"})
        /\ Uses(AsAdDacInit, 0, Base, {"asad"})
    BY UsesBoardRoutines
  <1>7. Carries(AsAdSetAgetInputProtections(Masks(c)), P, Q, d)
    BY <1>1, <1>3, <1>5, CarriesThen DEF AsAdSetAgetInputProtections
  <1>8. Carries(AsAdAdcInit(Masks(c)), P, Q, d)
    BY <1>1, <1>3, <1>5, <1>6, CarriesThen DEF AsAdAdcInit
  <1>. QED
    BY <1>3, <1>6, <1>7, <1>8 DEF Q

\* The boards below i are on if they are active.
Switched(c, i) == {h \in Unready : \A j \in AsAds : j < i => (j \in h.power <=> j \in Masks(c).asads)}
Off(i) == {h \in CoBoStates : i \notin h.power}

\* These sets depend on the power of the boards.
LEMMA SwitchedBlind ==
    ASSUME NEW F, "ready" \notin F, "power" \notin F
    PROVE  \A c, i : Blind(Switched(c, i), F) /\ Blind(Off(i), F)
  <1>. SUFFICES ASSUME NEW c, NEW i PROVE Blind(Switched(c, i), F) /\ Blind(Off(i), F)
    OBVIOUS
  <1>1. \A h \in Switched(c, i) : Pulsed(h) \in Switched(c, i)
    BY PulsedSame DEF Switched, Unready
  <1>2. \A h \in Off(i) : Pulsed(h) \in Off(i)
    BY PulsedSame DEF Off
  <1>3. Blind(Off(i), F)
    BY <1>2 DEF Blind, Off, Same
  <1>4. Blind(Switched(c, i), F)
    BY <1>1 DEF Blind, Switched, Unready, Same
  <1>. QED
    BY <1>3, <1>4

\* What power does.
LEMMA PowerTurns ==
    ASSUME NEW h \in CoBoStates, NEW i \in AsAds
    PROVE  /\ Turn(h, "powerOff", "ctrl", i) \in CoBoStates /\ Turn(h, "powerOn", "ctrl", i) \in CoBoStates
           /\ Turn(h, "powerOff", "ctrl", i).power = h.power \ {i}
           /\ Turn(h, "powerOn", "ctrl", i).power = h.power \cup {i}
           /\ Turn(h, "powerOff", "ctrl", i).ready = h.ready
           /\ Turn(h, "powerOn", "ctrl", i).ready = h.ready
  <1>1. Turn(h, "powerOff", "ctrl", i) = PoweredOff(h, i)
    BY Turns
  <1>2. PICK v : v = h.power \cup {i}
    OBVIOUS
  <1>3. Turn(h, "powerOn", "ctrl", i) = [h EXCEPT !.power = v]
    BY <1>2, Turns
  <1>4. v \in SUBSET AsAds
    BY <1>2 DEF CoBoStates
  <1>5. PICK g : g = [h EXCEPT !.power = v]
    OBVIOUS
  <1>7. g.power = v /\ g.ready = h.ready
    BY <1>5 DEF CoBoStates
  <1>8. g \in CoBoStates
    BY <1>4, <1>5, StateSet
  <1>9. Turn(h, "powerOn", "ctrl", i) = g
    BY <1>3, <1>5
  <1>10. PoweredOff(h, i) \in CoBoStates
    BY PoweredOffFits
  <1>6. PoweredOff(h, i).power = h.power \ {i} /\ PoweredOff(h, i).ready = h.ready
    <2>. DEFINE p == h.power \ {i}
                f == h.fast \ ChipsOf(i)
                s == {x \in h.set : ~ \/ x[1] = "asad" /\ x[3] = i
                                      \/ x[1] = "aget" /\ x[3] \in ChipsOf(i)}
    <2>1. PoweredOff(h, i) = [h EXCEPT !.power = p, !.fast = f, !.set = s]
      BY DEF PoweredOff
    <2>. HIDE DEF p, f, s
    <2>2. PoweredOff(h, i).power = p /\ PoweredOff(h, i).ready = h.ready
      BY <2>1 DEF CoBoStates
    <2>. QED
      BY <2>2 DEF p
  <1>. QED
    BY <1>1, <1>2, <1>6, <1>7, <1>8, <1>9, <1>10

\* One board: it is switched off, and on again if it is active.
LEMMA BoardSwitched ==
    ASSUME NEW c, NEW d, Visited(d, c), NEW connected, NEW i \in AsAds
    PROVE  Carries(IsAsAdConnected
                   \o When(i \in connected, SetAsAdSlowControlMask({i}) \o SelectAsAdForRead(i)
                                            \o GetAsAdAlertStatus)
                   \o Device("ctrl") \o Access("powerOff", "ctrl", i)
                   \o When(i \in Masks(c).asads,
                           IsAsAdConnected \o When(i \notin connected, Throw) \o GetAsAdAlarmFlag
                           \o Access("powerOn", "ctrl", i) \o AsAdPowerStatus),
                   Switched(c, i), Switched(c, i + 1), d)
  <1>. DEFINE P == Switched(c, i)
              Q == Switched(c, i) \cap Off(i)
              R == Switched(c, i + 1)
  <1>1. P \subseteq Unready /\ Q \subseteq Unready /\ R \subseteq Unready /\ Unready \subseteq Sane(c)
    BY DEF Switched, Unready, Sane
  <1>2. Blind(P, Selecting) /\ Blind(Q, Selecting) /\ Blind(R, Selecting)
    <2>1. "ready" \notin Selecting /\ "power" \notin Selecting
      BY DEF Selecting, Base
    <2>. QED
      BY <2>1, SwitchedBlind, BlindMeet
  <1>3. Scope(d, c, Masks(c).asads, Masks(c).chips)
    BY DEF Visited
  <1>4. \A s : Uses(s, 0, Selecting, {}) => Carries(s, P, P, d) /\ Carries(s, Q, Q, d) /\ Carries(s, R, R, d)
    <2>. HIDE DEF P, Q, R
    <2>. QED
      BY <1>1, <1>2, <1>3, UsesCarries
  <1>5. "ctrl" \in Devices /\ Suits("powerOff", i) /\ Suits("powerOn", i)
    BY DEF Devices, AnyDevice, Suits
  <1>6. \A h \in P : Turn(h, "powerOff", "ctrl", i) \in Q
    BY PowerTurns DEF Switched, Off, Unready, AsAds
  <1>7. i \in Masks(c).asads => \A h \in Q : Turn(h, "powerOn", "ctrl", i) \in R
    BY PowerTurns DEF Switched, Off, Unready, AsAds
  <1>8. i \notin Masks(c).asads => Q \subseteq R
    BY DEF Switched, Off, Unready, AsAds
  <1>9. P \subseteq Sane(c) /\ Q \subseteq Sane(c) /\ R \subseteq Sane(c)
    BY <1>1
  <1>. HIDE DEF P, Q, R
  <1>10. Carries(Access("powerOff", "ctrl", i), P, Q, d)
    BY <1>3, <1>5, <1>6, <1>9, OneTurn
  <1>11. i \in Masks(c).asads => Carries(Access("powerOn", "ctrl", i), Q, R, d)
    BY <1>3, <1>5, <1>7, <1>9, OneTurn
  <1>. DEFINE Before1 == When(i \in connected, SetAsAdSlowControlMask({i}) \o SelectAsAdForRead(i)
                                              \o GetAsAdAlertStatus)
              Absent == When(i \notin connected, Throw)
              On1 == When(i \in Masks(c).asads,
                          IsAsAdConnected \o Absent \o GetAsAdAlarmFlag
                          \o Access("powerOn", "ctrl", i) \o AsAdPowerStatus)
  <1>12. Base \subseteq Selecting /\ "asad" \in Selecting /\ "asadMask" \in Selecting /\ {i} \in SUBSET AsAds
    BY DEF Selecting
  <1>13. /\ Uses(IsAsAdConnected, 0, Selecting, {}) /\ Uses(Device("ctrl"), 0, Selecting, {})
         /\ Uses(GetAsAdAlarmFlag, 0, Selecting, {}) /\ Uses(AsAdPowerStatus, 0, Selecting, {})
         /\ Uses(GetAsAdAlertStatus, 0, Selecting, {})
    BY <1>12, UsesCoBoRoutines, UsesWrites
  <1>14. Uses(Before1, 0, Selecting, {}) /\ Uses(Absent, 0, Selecting, {})
    <2>1. /\ Uses(SetAsAdSlowControlMask({i}), 0, Selecting, {})
          /\ Uses(SelectAsAdForRead(i), 0, Selecting, {}) /\ Uses(Throw, 0, Selecting, {})
      BY <1>12, UsesSelectingRoutines, UsesWrites
    <2>. QED
      BY <1>13, <2>1, UsesParts
  <1>15. Carries(On1, Q, R, d)
    <2>1. ASSUME i \in Masks(c).asads
          PROVE  Carries(IsAsAdConnected \o Absent \o GetAsAdAlarmFlag
                         \o Access("powerOn", "ctrl", i) \o AsAdPowerStatus, Q, R, d)
      <3>. HIDE DEF Absent
      <3>1. Carries(IsAsAdConnected \o Absent \o GetAsAdAlarmFlag, Q, Q, d)
        BY <1>4, <1>13, <1>14, CarriesThen
      <3>. QED
        BY <1>4, <1>11, <1>13, <2>1, <3>1, CarriesThen
    <2>2. ASSUME i \notin Masks(c).asads PROVE Carries(<< >>, Q, R, d)
      <3>1. Q \subseteq d.states
        BY <1>3, <1>9 DEF Scope
      <3>2. Carries(<< >>, Q, Q, d)
        BY <3>1, NothingStays, StaysCarries
      <3>. QED
        BY <1>8, <2>2, <3>2, Wider
    <2>. QED
      BY <2>1, <2>2 DEF When
  <1>. HIDE DEF Before1, On1
  <1>16. Carries(IsAsAdConnected \o Before1 \o Device("ctrl"), P, P, d)
    BY <1>4, <1>13, <1>14, CarriesThen
  <1>17. Carries(IsAsAdConnected \o Before1 \o Device("ctrl") \o Access("powerOff", "ctrl", i) \o On1,
                 P, R, d)
    BY <1>10, <1>15, <1>16, CarriesThen
  <1>. QED
    BY <1>17 DEF Before1, On1, Absent, P, R

\* Power (EccClient.cpp:332): the active boards are on, and no others.
LEMMA AsAdInitFlows ==
    ASSUME NEW c, NEW d, Visited(d, c), NEW connected
    PROVE  Carries(AsAdInit(Masks(c), connected), Unready, Lit(c), d)
  <1>. DEFINE Board(i) ==
                  IsAsAdConnected
                  \o When(i \in connected, SetAsAdSlowControlMask({i}) \o SelectAsAdForRead(i)
                                           \o GetAsAdAlertStatus)
                  \o Device("ctrl") \o Access("powerOff", "ctrl", i)
                  \o When(i \in Masks(c).asads,
                          IsAsAdConnected \o When(i \notin connected, Throw) \o GetAsAdAlarmFlag
                          \o Access("powerOn", "ctrl", i) \o AsAdPowerStatus)
  <1>1. \A i \in AsAds : Carries(Board(i), Switched(c, i), Switched(c, i + 1), d)
    BY BoardSwitched
  <1>. HIDE DEF Board
  <1>2. /\ Carries(Board(0), Switched(c, 0), Switched(c, 1), d)
        /\ Carries(Board(1), Switched(c, 1), Switched(c, 2), d)
        /\ Carries(Board(2), Switched(c, 2), Switched(c, 3), d)
        /\ Carries(Board(3), Switched(c, 3), Switched(c, 4), d)
    <2>1. 0 \in AsAds /\ 1 \in AsAds /\ 2 \in AsAds /\ 3 \in AsAds
      BY DEF AsAds
    <2>2. 0 + 1 = 1 /\ 1 + 1 = 2 /\ 2 + 1 = 3 /\ 3 + 1 = 4
      OBVIOUS
    <2>. QED
      BY <1>1, <2>1, <2>2
  <1>. DEFINE Loop == Board(0) \o Board(1) \o Board(2) \o Board(3)
  <1>3. Carries(Loop, Switched(c, 0), Switched(c, 4), d)
    BY <1>2, Rounds
  <1>. HIDE DEF Loop
  <1>4. Unready \subseteq Switched(c, 0)
    BY DEF Switched, AsAds
  <1>5. Switched(c, 4) \subseteq Lit(c)
    <2>1. \A j \in AsAds : j < 4
      BY DEF AsAds
    <2>2. Masks(c).asads \subseteq AsAds
      BY ActiveParts
    <2>3. \A h \in CoBoStates : h.power \subseteq AsAds
      BY DEF CoBoStates
    <2>. QED
      BY <2>1, <2>2, <2>3 DEF Switched, Unready, Lit, Sane
  <1>6. Carries(Loop, Unready, Lit(c), d)
    BY <1>3, <1>4, <1>5, Wider
  <1>7. /\ Carries(Device("ctrl"), Unready, Unready, d)
        /\ Carries(Alter("ctrl", {"asadController"}), Unready, Unready, d)
    <2>1. "asadController" \in Groups /\ Base \subseteq Base
      BY DEF Groups
    <2>2. Uses(Device("ctrl"), 0, Base, {}) /\ Uses(Alter("ctrl", {"asadController"}), 0, Base, {})
      BY <2>1, UsesWrites
    <2>3. Blind(Unready, Base)
      BY BlindSets DEF Base
    <2>4. Unready \subseteq Sane(c)
      BY DEF Unready, Sane
    <2>. QED
      BY <2>2, <2>3, <2>4, UsesCarries DEF Visited
  <1>8. AsAdInit(Masks(c), connected) = Device("ctrl") \o Alter("ctrl", {"asadController"}) \o Loop
    BY DEF AsAdInit, EachAsAd, Board, Loop
  <1>. QED
    BY <1>6, <1>7, <1>8, CarriesThen

-------------------------------------------------------------------------------
(* loadHw up to the boards                                                     *)

\* The bit that says to Mutant that the CoBo is ready (EccClient.cpp:273).
LEMMA Cleared ==
    ASSUME NEW c, NEW B, NEW K, NEW d, Scope(d, c, B, K)
    PROVE  Carries(SetCoBoInitDone(FALSE), Sane(c), Unready, d)
  <1>0. PICK b \in BOOLEAN : b = FALSE
    OBVIOUS
  <1>. DEFINE clear == Access("initDone", "ctrl", b)
              s == Device("ctrl") \o clear
  <1>1. "ctrl" \in Devices /\ Suits("initDone", b)
    BY DEF Devices, AnyDevice, Suits
  <1>2. PICK a : a = clear[1]
    OBVIOUS
  <1>3. Fit(a) /\ Len(clear) = 1 /\ a.op = "initDone" /\ a.dev = "ctrl" /\ a.arg = b /\ a.cobo = NoCoBo
    BY <1>1, <1>2, AccessFits
  <1>4. Unready \subseteq d.states /\ Sane(c) \subseteq d.states
    BY DEF Scope, Unready, Sane
  <1>5. \A h \in CoBoStates : Passed(h, a, d) \in Unready
    <2>1. d.mine[a.cobo]
      BY <1>3 DEF Scope, NoCoBo
    <2>2. ASSUME NEW h \in CoBoStates PROVE Turned(h, a) \in Unready
      <3>1. PICK g : g = Turned(h, a)
        OBVIOUS
      <3>2. PICK v \in BOOLEAN : v = (h.quiet /\ a.arg)
        OBVIOUS
      <3>3. g = [h EXCEPT !.ready = a.arg, !.quiet = v]
        BY <1>3, <3>1, <3>2 DEF Turned, Calls, After
      <3>4. g.ready = FALSE
        BY <1>0, <1>3, <3>3 DEF CoBoStates
      <3>5. g \in CoBoStates
        BY <1>3, <3>1, TurnedFits
      <3>. QED
        BY <3>1, <3>4, <3>5 DEF Unready
    <2>. QED
      BY <2>1, <2>2 DEF Passed
  <1>6. Source(a, Sane(c), d) \subseteq CoBoStates
    BY DEF Source, Sane
  <1>7. \A h \in Sane(c) : Meets(h, a, d)
    BY <1>3 DEF Meets, Needs
  <1>8. Carries(clear, Sane(c), Unready, d)
    <2>1. \A h \in Source(a, Sane(c), d) : Passed(h, a, d) \in Unready
      BY <1>5, <1>6
    <2>. QED
      BY <1>2, <1>3, <1>4, <1>7, <2>1, OneCarries
  <1>9. Carries(Device("ctrl"), Sane(c), Sane(c), d)
    <2>1. Uses(Device("ctrl"), 0, Base, {})
      BY UsesWrites
    <2>2. Blind(Sane(c), Base)
      BY BlindSets DEF Base
    <2>. QED
      BY <2>1, <2>2, UsesCarries
  <1>10. Carries(s, Sane(c), Unready, d)
    BY <1>8, <1>9, CarriesThen
  <1>11. Len(s) > 0 /\ ~Harmless(s[Len(s)])
    <2>1. IsSeq(Device("ctrl")) /\ IsSeq(clear)
      BY <1>8, <1>9 DEF Carries, Block
    <2>. HIDE DEF clear
    <2>2. Len(s) = Len(Device("ctrl")) + 1 /\ Len(Device("ctrl")) \in Nat /\ s[Len(Device("ctrl")) + 1] = clear[1]
      BY <1>3, <2>1, OneMore
    <2>3. ~Harmless(a)
      BY <1>3 DEF Harmless
    <2>. HIDE DEF s
    <2>4. s[Len(s)] = a /\ Len(s) > 0
      BY <1>2, <2>2
    <2>. QED
      BY <2>3, <2>4
  <1>12. \A l \in Int : d.mine[l]
    BY DEF Scope
  <1>. HIDE DEF s
  <1>13. Carries(Try(s), Sane(c), Unready, d)
    BY <1>10, <1>11, <1>12, CarriesTry
  <1>. QED
    BY <1>0, <1>13 DEF SetCoBoInitDone, s, clear

\* The buffers of the CoBo, whose sizes are not yet those of the condition file.
LEMMA UsesCircularBufferInit ==
    ASSUME NEW F, Base \subseteq F, "buffer" \in F PROVE Uses(CircularBufferInit, 0, F, {})
  <1>. DEFINE OneBuffer(i) == Buffer(i, 128 + 32 * i, 160 + 32 * i)
  <1>1. ASSUME NEW i \in AsAds PROVE Uses(OneBuffer(i), 0, F, {})
    <2>1. 128 + 32 * i \in Int /\ 160 + 32 * i \in Int
      BY DEF AsAds
    <2>. QED
      BY <2>1, UsesSelections
  <1>2. {"interruptRate"} \subseteq Groups /\ {"bufferLevels"} \subseteq Groups
    BY DEF Groups
  <1>3. /\ Uses(Device("ctrl"), 0, F, {}) /\ Uses(Alter("ctrl", {"interruptRate"}), 0, F, {})
        /\ Uses(Alter("ctrl", {"bufferLevels"}), 0, F, {})
    BY <1>2, UsesWrites
  <1>. HIDE DEF OneBuffer
  <1>4. Uses(OneBuffer(0) \o OneBuffer(1) \o OneBuffer(2) \o OneBuffer(3), 0, F, {})
    BY <1>1, UsesParts DEF AsAds
  <1>5. Uses(Try(Alter("ctrl", {"interruptRate"})), 0, F, {})
    BY <1>3, UsesParts
  <1>6. CircularBufferInit =
            Device("ctrl") \o (OneBuffer(0) \o OneBuffer(1) \o OneBuffer(2) \o OneBuffer(3))
            \o Try(Alter("ctrl", {"interruptRate"})) \o Alter("ctrl", {"bufferLevels"})
    BY DEF CircularBufferInit, EachAsAd, OneBuffer
  <1>. QED
    BY <1>3, <1>4, <1>5, <1>6, UsesParts

\* Power, calibration and monitoring of the boards (GetController.cpp:462).
LEMMA AsAdInitAndCalFlows ==
    ASSUME NEW c, NEW d, Visited(d, c) PROVE Carries(AsAdInitAndCal(c), Unready, Lit(c), d)
  <1>1. FreeOfBoards(Lit(c), c)
    <2>1. Selecting \cap {"ready", "buffer", "power"} = {}
      BY DEF Selecting, Base
    <2>. QED
      BY <2>1, BlindSets DEF FreeOfBoards
  <1>. DEFINE P == Lit(c)
              Q == Lit(c) \cap Selected(Masks(c).asads)
  <1>2. P \subseteq P /\ Q \subseteq P
    OBVIOUS
  <1>3. Carries(AsAdInit(Masks(c), Config[c].connected), Unready, P, d)
    BY AsAdInitFlows
  <1>4. Carries(SetAsAdSlowControlMask(Masks(c).asads), P, Q, d)
    BY <1>1, SelectsActive DEF Visited
  <1>5. /\ Carries(AsAdCal(Masks(c)), P, Q, d) /\ Carries(AsAdMonitoringInit(c), P, Q, d)
        /\ Carries(AsAdSetAgetInputProtections(Masks(c)), P, Q, d)
    BY <1>1, AsAdCalFlows, AsAdMonitoringInitFlows, AllBoardsFlow
  <1>6. Carries(AsAdMonitoringCheckVDD(c), P, P, d)
    <2>1. Uses(AsAdMonitoringCheckVDD(c), 0, Selecting, {})
      BY UsesLoops DEF Selecting
    <2>. QED
      BY <1>1, <2>1, LeavesBoards DEF Visited
  <1>. HIDE DEF P, Q
  <1>7. /\ Carries(SetAsAdSlowControlMask(Masks(c).asads), P, P, d)
        /\ Carries(AsAdCal(Masks(c)), P, P, d) /\ Carries(AsAdMonitoringInit(c), P, P, d)
        /\ Carries(AsAdSetAgetInputProtections(Masks(c)), P, P, d)
    BY <1>2, <1>4, <1>5, Wider
  <1>8. Carries(AsAdInitAndCal(c), Unready, P, d)
    BY <1>3, <1>6, <1>7, CarriesThen DEF AsAdInitAndCal
  <1>. QED
    BY <1>8 DEF P

-------------------------------------------------------------------------------
(* The modes of the chips                                                      *)

\* What the selections of chips leave alone.
LEMMA ChipTurns ==
    ASSUME NEW h \in CoBoStates
    PROVE  /\ \A S : LET g == Turn(h, "enable", "ctrl", S) IN
                     /\ g.enabled = S /\ g.pulse = h.pulse /\ g.hitRegister = h.hitRegister
                     /\ g.fast = h.fast /\ g.chip = h.chip
           /\ \A S : LET g == Turn(h, "pulse", "ctrl", S) IN
                     /\ g.pulse = S /\ g.enabled = h.enabled /\ g.hitRegister = h.hitRegister
                     /\ g.fast = h.fast /\ g.chip = h.chip
           /\ \A b : LET g == Turn(h, "hitRegister", "ctrl", b) IN
                     /\ g.hitRegister = b /\ g.enabled = h.enabled /\ g.pulse = h.pulse
                     /\ g.fast = h.fast /\ g.chip = h.chip
           /\ \A k : LET g == Turn(h, "chip", "ctrl", k) IN
                     /\ g.chip = k /\ g.enabled = h.enabled /\ g.pulse = h.pulse
                     /\ g.fast = h.fast /\ g.hitRegister = h.hitRegister
  <1>1. ASSUME NEW S, NEW g, g = Turn(h, "enable", "ctrl", S)
        PROVE  /\ g.enabled = S /\ g.pulse = h.pulse /\ g.hitRegister = h.hitRegister
               /\ g.fast = h.fast /\ g.chip = h.chip
    <2>1. g = [h EXCEPT !.enabled = S]
      BY <1>1, Turns
    <2>. QED
      BY <2>1 DEF CoBoStates
  <1>2. ASSUME NEW S, NEW g, g = Turn(h, "pulse", "ctrl", S)
        PROVE  /\ g.pulse = S /\ g.enabled = h.enabled /\ g.hitRegister = h.hitRegister
               /\ g.fast = h.fast /\ g.chip = h.chip
    <2>1. g = [h EXCEPT !.pulse = S]
      BY <1>2, Turns
    <2>. QED
      BY <2>1 DEF CoBoStates
  <1>3. ASSUME NEW b, NEW g, g = Turn(h, "hitRegister", "ctrl", b)
        PROVE  /\ g.hitRegister = b /\ g.enabled = h.enabled /\ g.pulse = h.pulse
               /\ g.fast = h.fast /\ g.chip = h.chip
    <2>1. g = [h EXCEPT !.hitRegister = b]
      BY <1>3, Turns
    <2>. QED
      BY <2>1 DEF CoBoStates
  <1>4. ASSUME NEW k, NEW g, g = Turn(h, "chip", "ctrl", k)
        PROVE  /\ g.chip = k /\ g.enabled = h.enabled /\ g.pulse = h.pulse
               /\ g.fast = h.fast /\ g.hitRegister = h.hitRegister
    <2>1. g = [h EXCEPT !.chip = k]
      BY <1>4, Turns
    <2>. QED
      BY <2>1 DEF CoBoStates
  <1>. QED
    BY <1>1, <1>2, <1>3, <1>4

\* The chips of the powered boards are powered.
LEMMA PoweredChips ==
    ASSUME NEW c, NEW h \in Lit(c), NEW K \in SUBSET Masks(c).chips PROVE Powered(h, K) = K
  <1>1. h.power = Masks(c).asads
    BY DEF Lit
  <1>2. \A k \in K : (k \div 4) \in Masks(c).asads
    BY ActiveParts
  <1>. QED
    BY <1>1, <1>2 DEF Powered

\* Sets of states that do not depend on the chips that are selected.
Modes == Base \cup {"enabled", "pulse", "hitRegister", "fast", "pulsed"}

\* The selections of chips, in a set that does not depend on them.
LEMMA ModeTurns ==
    ASSUME NEW P, Blind(P, Modes), NEW h \in P
    PROVE  /\ h \in CoBoStates
           /\ \A S \in SUBSET Chips : Turn(h, "enable", "ctrl", S) \in P
           /\ \A S \in SUBSET Chips : Turn(h, "pulse", "ctrl", S) \in P
           /\ \A b \in BOOLEAN : Turn(h, "hitRegister", "ctrl", b) \in P
           /\ Turn(h, "fire", "ctrl", 0) \in P /\ Turn(h, "read", "aget", 0) \in P
  <1>1. "ctrl" \in Devices /\ "aget" \in Devices
    BY DEF Devices, AnyDevice
  <1>2. h \in CoBoStates
    BY DEF Blind
  <1>3. ASSUME NEW S \in SUBSET Chips PROVE Turn(h, "enable", "ctrl", S) \in P
    <2>1. \A x : Alters(Access("enable", "ctrl", S)[1], x) => x \in Modes
      BY DEF Alters, Access, Modes, Base
    <2>2. Suits("enable", S)
      BY DEF Suits
    <2>. QED
      BY <1>1, <2>1, <2>2, TurnKeeps
  <1>4. ASSUME NEW S \in SUBSET Chips PROVE Turn(h, "pulse", "ctrl", S) \in P
    <2>1. \A x : Alters(Access("pulse", "ctrl", S)[1], x) => x \in Modes
      BY DEF Alters, Access, Modes, Base
    <2>2. Suits("pulse", S)
      BY DEF Suits
    <2>. QED
      BY <1>1, <2>1, <2>2, TurnKeeps
  <1>5. ASSUME NEW b \in BOOLEAN PROVE Turn(h, "hitRegister", "ctrl", b) \in P
    <2>1. \A x : Alters(Access("hitRegister", "ctrl", b)[1], x) => x \in Modes
      BY DEF Alters, Access, Modes, Base
    <2>2. Suits("hitRegister", b)
      BY DEF Suits
    <2>. QED
      BY <1>1, <2>1, <2>2, TurnKeeps
  <1>6. Turn(h, "fire", "ctrl", 0) \in P /\ Turn(h, "read", "aget", 0) \in P
    <2>1. Turn(h, "fire", "ctrl", 0) = Pulsed(h) /\ Turn(h, "read", "aget", 0) = Pulsed(h)
      BY <1>2, Turns
    <2>2. Pulsed(h) \in P
      BY DEF Blind, Modes
    <2>. QED
      BY <2>1, <2>2
  <1>. QED
    BY <1>2, <1>3, <1>4, <1>5, <1>6

\* Each of them as a part of a routine.
LEMMA ModeFlows ==
    ASSUME NEW c, NEW B, NEW K, NEW d, Scope(d, c, B, K), NEW P, P \subseteq Sane(c), NEW Q,
           Q \subseteq Sane(c)
    PROVE  /\ \A S \in SUBSET Chips : (\A h \in P : Turn(h, "enable", "ctrl", S) \in Q)
                                          => Carries(Enable(S), P, Q, d)
           /\ \A S \in SUBSET Chips : (\A h \in P : Turn(h, "pulse", "ctrl", S) \in Q)
                                          => Carries(Pulse(S), P, Q, d)
           /\ \A b \in BOOLEAN : (\A h \in P : Turn(h, "hitRegister", "ctrl", b) \in Q)
                                     => Carries(HitRegister(b), P, Q, d)
           /\ \A k \in Chips : (\A h \in P : Turn(h, "chip", "ctrl", k) \in Q)
                                   => Carries(Access("chip", "ctrl", k), P, Q, d)
           /\ (\A h \in P : Turn(h, "fire", "ctrl", 0) \in Q)
                  => Carries(Access("fire", "ctrl", 0), P, Q, d)
           /\ (\A h \in P : Turn(h, "read", "aget", 0) \in Q) => Carries(Read("aget"), P, Q, d)
  <1>1. "ctrl" \in Devices /\ "aget" \in Devices
    BY DEF Devices, AnyDevice
  <1>2. ASSUME NEW S \in SUBSET Chips, \A h \in P : Turn(h, "enable", "ctrl", S) \in Q
        PROVE  Carries(Enable(S), P, Q, d)
    <2>1. Suits("enable", S)
      BY DEF Suits
    <2>. QED
      BY <1>1, <1>2, <2>1, OneTurn DEF Enable
  <1>3. ASSUME NEW S \in SUBSET Chips, \A h \in P : Turn(h, "pulse", "ctrl", S) \in Q
        PROVE  Carries(Pulse(S), P, Q, d)
    <2>1. Suits("pulse", S)
      BY DEF Suits
    <2>. QED
      BY <1>1, <1>3, <2>1, OneTurn DEF Pulse
  <1>4. ASSUME NEW b \in BOOLEAN, \A h \in P : Turn(h, "hitRegister", "ctrl", b) \in Q
        PROVE  Carries(HitRegister(b), P, Q, d)
    <2>1. Suits("hitRegister", b)
      BY DEF Suits
    <2>. QED
      BY <1>1, <1>4, <2>1, OneTurn DEF HitRegister
  <1>5. ASSUME NEW k \in Chips, \A h \in P : Turn(h, "chip", "ctrl", k) \in Q
        PROVE  Carries(Access("chip", "ctrl", k), P, Q, d)
    <2>1. Suits("chip", k)
      BY DEF Suits
    <2>. QED
      BY <1>1, <1>5, <2>1, OneTurn
  <1>6. ASSUME \A h \in P : Turn(h, "fire", "ctrl", 0) \in Q
        PROVE  Carries(Access("fire", "ctrl", 0), P, Q, d)
    <2>1. Suits("fire", 0)
      BY DEF Suits
    <2>. QED
      BY <1>1, <1>6, <2>1, OneTurn
  <1>7. ASSUME \A h \in P : Turn(h, "read", "aget", 0) \in Q PROVE Carries(Read("aget"), P, Q, d)
    <2>1. Suits("read", 0)
      BY DEF Suits
    <2>. QED
      BY <1>1, <1>7, <2>1, OneTurn DEF Read
  <1>. QED
    BY <1>2, <1>3, <1>4, <1>5, <1>6, <1>7

\* The chips are switched to slow control (EccClient.cpp:1941): what was enabled
\* and which mode they were in does not matter.
LEMMA SwitchesToSlowControl ==
    ASSUME NEW c, NEW B, NEW K, NEW d, Scope(d, c, B, K), NEW P, P \subseteq Lit(c), Blind(P, Modes)
    PROVE  Carries(SwitchToSlowControl(Masks(c)), P, P \cap Slow(c) \cap Enabled(Masks(c).chips), d)
  <1>. DEFINE C == Masks(c).chips
              P1 == {h \in P : h.pulse = C}
              P2 == {h \in P1 : h.hitRegister = FALSE}
              P3 == {h \in P : h.hitRegister = FALSE /\ h.fast \cap C = {}}
              P4 == P3 \cap Enabled(C)
  <1>1. C \in SUBSET Chips /\ {} \in SUBSET Chips
    BY ActiveParts
  <1>2. P \subseteq CoBoStates /\ P \subseteq Sane(c)
    BY DEF Blind, Lit
  <1>3. \A h \in P : Turn(h, "enable", "ctrl", {}) \in P
    BY <1>1, ModeTurns
  <1>4. \A h \in P : Turn(h, "pulse", "ctrl", C) \in P1
    BY <1>1, ModeTurns, ChipTurns
  <1>5. \A h \in P1 : Turn(h, "hitRegister", "ctrl", FALSE) \in P2
    <2>1. ASSUME NEW h \in P1 PROVE Turn(h, "hitRegister", "ctrl", FALSE) \in P2
      <3>1. PICK b \in BOOLEAN : b = FALSE
        OBVIOUS
      <3>2. PICK g : g = Turn(h, "hitRegister", "ctrl", b)
        OBVIOUS
      <3>3. h \in P /\ h \in CoBoStates /\ h.pulse = C
        BY <1>2
      <3>4. g \in P
        BY <3>2, <3>3, ModeTurns
      <3>5. g.hitRegister = b /\ g.pulse = C
        BY <3>2, <3>3, ChipTurns
      <3>. QED
        BY <3>1, <3>2, <3>4, <3>5
    <2>. QED
      BY <2>1
  <1>6. \A h \in P2 : Turn(h, "fire", "ctrl", 0) \in P3
    <2>1. ASSUME NEW h \in P2 PROVE Turn(h, "fire", "ctrl", 0) \in P3
      <3>1. h \in P /\ h \in CoBoStates /\ h.hitRegister = FALSE /\ h.pulse = C
        BY <1>2
      <3>2. Turn(h, "fire", "ctrl", 0) = Pulsed(h)
        BY <3>1, Turns
      <3>3. Pulsed(h).fast = h.fast \ h.pulse /\ Pulsed(h).hitRegister = FALSE
        BY <3>1, PulsedSame
      <3>4. Pulsed(h) \in P
        BY <3>1, <3>2, ModeTurns
      <3>5. Pulsed(h).fast \cap C = {}
        BY <3>1, <3>3
      <3>. QED
        BY <3>2, <3>3, <3>4, <3>5
    <2>. QED
      BY <2>1
  <1>7. \A h \in P3 : Turn(h, "enable", "ctrl", C) \in P4
    BY <1>1, ModeTurns, ChipTurns DEF Enabled, Blind
  <1>8. \A h \in P4 : Turn(h, "pulse", "ctrl", {}) \in P4
    BY <1>1, ModeTurns, ChipTurns DEF Enabled, Blind
  <1>9. P1 \subseteq Sane(c) /\ P2 \subseteq Sane(c) /\ P3 \subseteq Sane(c) /\ P4 \subseteq Sane(c)
    BY <1>2
  <1>10. P4 \subseteq P \cap Slow(c) \cap Enabled(C)
    BY DEF Slow
  <1>. HIDE DEF C, P1, P2, P3, P4
  <1>11. Carries(Enable({}), P, P, d) /\ Carries(Pulse(C), P, P1, d)
    BY <1>1, <1>2, <1>3, <1>4, <1>9, ModeFlows
  <1>12. Carries(HitRegister(FALSE), P1, P2, d) /\ Carries(Access("fire", "ctrl", 0), P2, P3, d)
    BY <1>5, <1>6, <1>9, ModeFlows
  <1>13. Carries(Enable(C), P3, P4, d) /\ Carries(Pulse({}), P4, P4, d)
    BY <1>1, <1>7, <1>8, <1>9, ModeFlows
  <1>14. Carries(SwitchTo(FALSE, Masks(c)), P, P4, d)
    <2>1. Carries(Enable({}) \o Pulse(C) \o HitRegister(FALSE), P, P2, d)
      BY <1>11, <1>12, CarriesThen
    <2>2. Carries(Enable({}) \o Pulse(C) \o HitRegister(FALSE) \o Access("fire", "ctrl", 0)
                  \o Enable(C) \o Pulse({}), P, P4, d)
      BY <1>12, <1>13, <2>1, CarriesThen
    <2>. QED
      BY <2>2 DEF SwitchTo, C
  <1>15. Carries(Device("ctrl") \o Put("ctrl", {"firmware"}), P, P, d)
    <2>1. {"firmware"} \subseteq Groups /\ Base \subseteq Modes
      BY DEF Groups, Modes
    <2>2. Uses(Device("ctrl") \o Put("ctrl", {"firmware"}), 0, Modes, {})
      BY <2>1, UsesWrites, UsesParts
    <2>. QED
      BY <1>2, <2>2, UsesCarries
  <1>16. Carries(SwitchToSlowControl(Masks(c)), P, P4, d)
    BY <1>14, <1>15, CarriesThen DEF SwitchToSlowControl
  <1>. QED
    BY <1>10, <1>16, Wider DEF C

\* What a write to the chips leaves.
LEMMA ChipWriteTurns ==
    ASSUME NEW h \in CoBoStates, NEW op \in {"write", "field"}, NEW groups \in SUBSET Groups,
           NEW good \in BOOLEAN, NEW arg, arg = [groups |-> groups, good |-> good, of |-> Reach],
           NEW a, a = Access(op, "aget", arg)[1]
    PROVE  /\ Fit(a) /\ a.op = op /\ a.dev = "aget" /\ a.arg = arg /\ a.cobo = NoCoBo
           /\ a.chip = All /\ Turn(h, op, "aget", arg) \in CoBoStates
           /\ Same(Turn(h, op, "aget", arg), Pulsed(h), {"set", "pulsed"})
  <1>1. "aget" \in Devices /\ Suits(op, arg) /\ arg.groups \in SUBSET Groups /\ arg.good \in BOOLEAN
        /\ arg.of \in Int
    BY DEF Devices, AnyDevice, Suits, Reach
  <1>2. /\ Fit(a) /\ a.op = op /\ a.dev = "aget" /\ a.arg = arg /\ a.cobo = NoCoBo
        /\ a.chip = All
    BY <1>1, AccessFits
  <1>3. \A x : Alters(a, x) => x \in {"set", "pulsed"}
    BY <1>2 DEF Alters
  <1>4. Alters(a, "pulsed")
    BY <1>2 DEF Alters
  <1>5. Same(Turned(h, a), IF Alters(a, "pulsed") THEN Pulsed(h) ELSE h, {"set", "pulsed"})
    BY <1>2, <1>3, TurnedSame
  <1>6. Turned(h, a) \in CoBoStates
    BY <1>2, TurnedFits
  <1>. QED
    BY <1>2, <1>4, <1>5, <1>6 DEF Turn

\* A register of chips that listen to slow control.
LEMMA ChipWrites ==
    ASSUME NEW c, NEW B, NEW K, NEW d, Scope(d, c, B, K), K \in SUBSET Masks(c).chips,
           NEW P, P \subseteq Slow(c) \cap Enabled(K), Blind(P, Base \cup {"pulsed"}),
           NEW op \in {"write", "field"}, NEW groups \in SUBSET Groups, groups # {"hit"},
           NEW good \in BOOLEAN, op = "field" => \A h \in P : K # {} => h.chip \in K
    PROVE  Carries(Write(op, "aget", groups, good, Reach), P, P, d)
  <1>1. PICK arg : arg = [groups |-> groups, good |-> good, of |-> Reach]
    OBVIOUS
  <1>2. PICK a : a = Access(op, "aget", arg)[1]
    OBVIOUS
  <1>3. /\ "aget" \in Devices /\ Suits(op, arg) /\ arg.groups = groups /\ arg.good \in BOOLEAN
        /\ arg.of \in Int
    BY <1>1 DEF Devices, AnyDevice, Suits, Reach
  <1>4. P \subseteq CoBoStates /\ P \subseteq Sane(c) /\ P \subseteq Lit(c)
    BY DEF Blind, Slow, Lit
  <1>5. a.op = op /\ a.dev = "aget" /\ a.arg = arg /\ a.cobo = NoCoBo /\ a.chip = All
    BY <1>2, <1>3, AccessFits
  <1>6. \A h \in P : Turn(h, op, "aget", arg) \in P
    <2>1. \A x : Alters(a, x) => x \in Base \cup {"pulsed"}
      BY <1>5 DEF Alters, Base
    <2>. QED
      BY <1>2, <1>3, <2>1, TurnKeeps
  <1>7. ASSUME NEW h \in P PROVE Meets(h, a, d)
    <2>1. h.enabled = K /\ Powered(h, K) = K
      BY <1>4, PoweredChips DEF Enabled
    <2>2. d.chip[a.chip] = K
      BY <1>5 DEF Scope
    <2>3. Pulsed(h).fast = h.fast \ h.pulse
      <3>1. h \in CoBoStates /\ ~h.hitRegister
        BY <1>4 DEF Slow
      <3>. QED
        BY <3>1, PulsedSame
    <2>4. K \cap Pulsed(h).fast = {}
      <3>1. h.fast \cap Masks(c).chips = {}
        BY DEF Slow
      <3>. QED
        BY <2>3, <3>1
    <2>5. Needs(h, a)
      BY <1>3, <1>5, <2>1, <2>4 DEF Needs
    <2>. QED
      BY <1>5, <2>1, <2>2, <2>5 DEF Meets
  <1>8. Carries(Access(op, "aget", arg), P, P, d)
    BY <1>2, <1>3, <1>4, <1>6, <1>7, OneTurn
  <1>. QED
    BY <1>1, <1>8 DEF Write

\* The hit registers of chips that are in fast control.
LEMMA HitWrites ==
    ASSUME NEW c, NEW B, NEW K, NEW d, Scope(d, c, B, K), K \in SUBSET Masks(c).chips,
           NEW P, P \subseteq Lit(c) \cap Enabled(K), \A h \in P : h \in CoBoStates /\ K \subseteq Pulsed(h).fast,
           NEW R, Blind(R, Base \cup {"pulsed"}), P \subseteq R, R \subseteq Sane(c)
    PROVE  Carries(Alter("aget", {"hit"}), P, {h \in R : K \subseteq h.fast}, d)
  <1>0. {"hit"} \in SUBSET Groups
    BY DEF Groups
  <1>10. PICK good \in BOOLEAN : good = FALSE
    OBVIOUS
  <1>1. PICK arg : arg = [groups |-> {"hit"}, good |-> good, of |-> Reach]
    OBVIOUS
  <1>2. PICK a : a = Access("write", "aget", arg)[1]
    OBVIOUS
  <1>3. /\ "aget" \in Devices /\ Suits("write", arg) /\ arg.groups = {"hit"} /\ arg.good \in BOOLEAN
        /\ arg.of \in Int
    BY <1>1 DEF Devices, AnyDevice, Suits, Reach
  <1>5. a.op = "write" /\ a.dev = "aget" /\ a.arg = arg /\ a.cobo = NoCoBo /\ a.chip = All
    BY <1>2 DEF Access
  <1>6. \A h \in R : Turn(h, "write", "aget", arg) \in R
    <2>1. \A x : Alters(a, x) => x \in Base \cup {"pulsed"}
      BY <1>5 DEF Alters, Base
    <2>. QED
      BY <1>0, <1>2, <1>3, <2>1, TurnKeeps
  <1>7. ASSUME NEW h \in P PROVE Meets(h, a, d) /\ K \subseteq Turn(h, "write", "aget", arg).fast
    <2>1. h.enabled = K /\ Powered(h, K) = K
      BY PoweredChips DEF Enabled
    <2>2. d.chip[a.chip] = K
      BY <1>5 DEF Scope
    <2>3. Needs(h, a)
      BY <1>3, <1>5, <2>1 DEF Needs
    <2>4. Same(Turn(h, "write", "aget", arg), Pulsed(h), {"set", "pulsed"})
      <3>1. h \in CoBoStates
        OBVIOUS
      <3>2. PICK op \in {"write", "field"} : op = "write"
        OBVIOUS
      <3>3. Same(Turn(h, op, "aget", arg), Pulsed(h), {"set", "pulsed"})
        BY <1>0, <1>1, <1>2, <3>1, <3>2, ChipWriteTurns
      <3>. QED
        BY <3>2, <3>3
    <2>5. Turn(h, "write", "aget", arg).fast = Pulsed(h).fast
      BY <2>4 DEF Same
    <2>. QED
      BY <1>5, <2>1, <2>2, <2>3, <2>5 DEF Meets
  <1>8. P \subseteq Sane(c)
    BY DEF Lit
  <1>9. Carries(Access("write", "aget", arg), P, {h \in R : K \subseteq h.fast}, d)
    <2>. DEFINE Q == {h \in R : K \subseteq h.fast}
    <2>1. \A h \in P : Turn(h, "write", "aget", arg) \in Q
      BY <1>6, <1>7
    <2>2. Q \subseteq Sane(c)
      OBVIOUS
    <2>. HIDE DEF Q
    <2>3. \A h \in P : Meets(h, Access("write", "aget", arg)[1], d)
      BY <1>2, <1>7
    <2>4. Carries(Access("write", "aget", arg), P, Q, d)
      BY <1>0, <1>3, <1>8, <2>1, <2>2, <2>3, OneTurn
    <2>. QED
      BY <2>4 DEF Q
  <1>. QED
    BY <1>1, <1>9, <1>10 DEF Alter, Write

\* The chip that is read is an active one, if there was one below n.
Chosen(c, P, n) == {h \in P : (\E j \in Masks(c).chips : j < n) => h.chip \in Masks(c).chips}

\* Versions of the chips (EccClient.cpp:1173).
LEMMA VersionsFlow ==
    ASSUME NEW c, NEW d, Visited(d, c), NEW P, P \subseteq Lit(c), Blind(P, Modes \cup {"chip"})
    PROVE  Carries(PrintAgetChipVersionNumbers(Masks(c)), P,
                   Chosen(c, P \cap Slow(c) \cap Enabled(Masks(c).chips), 16), d)
  <1>. DEFINE K == Masks(c).chips
              S == P \cap Slow(c) \cap Enabled(K)
              OneChip(k) == When(k \in K, SelectAgetForRead(k) \o Device("aget") \o Read("aget"))
              Board(i) == OneChip(4 * i) \o OneChip(4 * i + 1) \o OneChip(4 * i + 2) \o OneChip(4 * i + 3)
  <1>1. Scope(d, c, Masks(c).asads, K)
    BY DEF Visited
  <1>2. S \subseteq Sane(c) /\ S \subseteq CoBoStates /\ S \subseteq d.states
    BY <1>1 DEF Slow, Lit, Sane, Scope
  <1>3. Blind(S, Base \cup {"chip", "pulsed"})
    <2>. DEFINE F == Base \cup {"chip", "pulsed"}
    <2>1. Blind(P, F)
      BY BlindLess DEF Modes
    <2>2. Blind(Slow(c), F) /\ Blind(Enabled(K), F)
      <3>1. F \cap {"ready", "buffer", "power", "hitRegister", "fast"} = {} /\ "enabled" \notin F
        BY DEF Base
      <3>. QED
        BY <3>1, BlindSets
    <2>3. Blind(P \cap Slow(c), F)
      BY <2>1, <2>2, BlindMeet
    <2>. QED
      BY <2>2, <2>3, BlindMeet
  <1>4. Carries(SwitchToSlowControl(Masks(c)), P, S, d)
    <2>1. Blind(P, Modes)
      BY BlindLess
    <2>. QED
      BY <1>1, <2>1, SwitchesToSlowControl
  <1>. HIDE DEF S
  <1>5. \A n : Blind(Chosen(c, S, n), Base \cup {"pulsed"}) /\ Chosen(c, S, n) \subseteq Sane(c)
    <2>. SUFFICES ASSUME NEW n
                  PROVE  Blind(Chosen(c, S, n), Base \cup {"pulsed"}) /\ Chosen(c, S, n) \subseteq Sane(c)
      OBVIOUS
    <2>1. Blind(S, Base \cup {"pulsed"})
      BY <1>3, BlindLess
    <2>2. \A h \in Chosen(c, S, n) : Pulsed(h) \in Chosen(c, S, n)
      BY <1>2, <2>1, PulsedSame DEF Chosen, Blind
    <2>3. \A h \in Chosen(c, S, n), g \in CoBoStates :
              Same(g, h, Base \cup {"pulsed"}) => g \in S /\ g.chip = h.chip
      BY <2>1 DEF Chosen, Blind, Same, Base
    <2>. QED
      BY <1>2, <2>2, <2>3 DEF Blind, Chosen
  <1>6. ASSUME NEW k \in Chips PROVE Carries(OneChip(k), Chosen(c, S, k), Chosen(c, S, k + 1), d)
    <2>. DEFINE X == Chosen(c, S, k)
                Y == Chosen(c, S, k + 1)
    <2>1. /\ Uses(Device("ctrl"), 0, Base \cup {"pulsed"}, {})
          /\ Uses(Device("aget"), 0, Base \cup {"pulsed"}, {})
          /\ Uses(Read("aget"), 0, Base \cup {"pulsed"}, {})
      BY UsesWrites, UsesSelections
    <2>2. \A s : Uses(s, 0, Base \cup {"pulsed"}, {}) => Carries(s, X, X, d) /\ Carries(s, Y, Y, d)
      BY <1>1, <1>5, UsesCarries
    <2>3. X \subseteq Sane(c) /\ Y \subseteq Sane(c)
      BY <1>5
    <2>4. ASSUME k \in K PROVE Carries(SelectAgetForRead(k) \o Device("aget") \o Read("aget"), X, Y, d)
      <3>1. \A h \in X : Turn(h, "chip", "ctrl", k) \in Y
        <4>1. \A x : Alters(Access("chip", "ctrl", k)[1], x) => x \in Base \cup {"chip", "pulsed"}
          BY DEF Alters, Access
        <4>2. "ctrl" \in Devices /\ Suits("chip", k)
          BY DEF Devices, AnyDevice, Suits
        <4>3. \A h \in S : Turn(h, "chip", "ctrl", k) \in S
          BY <1>3, <4>1, <4>2, TurnKeeps
        <4>4. \A h \in S : Turn(h, "chip", "ctrl", k).chip = k
          BY <1>2, ChipTurns
        <4>. QED
          BY <2>4, <4>3, <4>4 DEF Chosen
      <3>. HIDE DEF X, Y
      <3>2. Carries(Access("chip", "ctrl", k), X, Y, d)
        BY <1>1, <2>3, <3>1, ModeFlows
      <3>. QED
        BY <2>1, <2>2, <3>2, CarriesThen DEF SelectAgetForRead
    <2>5. ASSUME k \notin K PROVE Carries(<< >>, X, Y, d)
      <3>1. X \subseteq Y
        BY <2>5, ActiveParts DEF Chosen, Chips
      <3>2. X \subseteq d.states
        BY <1>1, <2>3 DEF Scope
      <3>. HIDE DEF X, Y
      <3>3. Carries(<< >>, X, X, d)
        BY <3>2, NothingStays, StaysCarries
      <3>. QED
        BY <3>1, <3>3, Wider
    <2>. QED
      BY <2>4, <2>5 DEF When
  <1>. HIDE DEF OneChip
  <1>7. ASSUME NEW i \in AsAds
        PROVE  Carries(Board(i), Chosen(c, S, 4 * i), Chosen(c, S, 4 * i + 4), d)
    <2>1. 4 * i \in Chips /\ 4 * i + 1 \in Chips /\ 4 * i + 2 \in Chips /\ 4 * i + 3 \in Chips
      BY DEF AsAds, Chips
    <2>2. (4 * i + 1) + 1 = 4 * i + 2 /\ (4 * i + 2) + 1 = 4 * i + 3 /\ (4 * i + 3) + 1 = 4 * i + 4
      BY DEF AsAds
    <2>3. /\ Carries(OneChip(4 * i), Chosen(c, S, 4 * i), Chosen(c, S, 4 * i + 1), d)
          /\ Carries(OneChip(4 * i + 1), Chosen(c, S, 4 * i + 1), Chosen(c, S, 4 * i + 2), d)
          /\ Carries(OneChip(4 * i + 2), Chosen(c, S, 4 * i + 2), Chosen(c, S, 4 * i + 3), d)
          /\ Carries(OneChip(4 * i + 3), Chosen(c, S, 4 * i + 3), Chosen(c, S, 4 * i + 4), d)
      BY <1>6, <2>1, <2>2
    <2>. QED
      BY <2>3, Rounds
  <1>. HIDE DEF Board
  <1>8. /\ Carries(Board(0), Chosen(c, S, 0), Chosen(c, S, 4), d)
        /\ Carries(Board(1), Chosen(c, S, 4), Chosen(c, S, 8), d)
        /\ Carries(Board(2), Chosen(c, S, 8), Chosen(c, S, 12), d)
        /\ Carries(Board(3), Chosen(c, S, 12), Chosen(c, S, 16), d)
    <2>1. 0 \in AsAds /\ 1 \in AsAds /\ 2 \in AsAds /\ 3 \in AsAds
      BY DEF AsAds
    <2>2. /\ 4 * 0 = 0 /\ 4 * 1 = 4 /\ 4 * 2 = 8 /\ 4 * 3 = 12
          /\ 0 + 4 = 4 /\ 4 + 4 = 8 /\ 8 + 4 = 12 /\ 12 + 4 = 16
      OBVIOUS
    <2>3. /\ Carries(Board(0), Chosen(c, S, 4 * 0), Chosen(c, S, 4 * 0 + 4), d)
          /\ Carries(Board(1), Chosen(c, S, 4 * 1), Chosen(c, S, 4 * 1 + 4), d)
          /\ Carries(Board(2), Chosen(c, S, 4 * 2), Chosen(c, S, 4 * 2 + 4), d)
          /\ Carries(Board(3), Chosen(c, S, 4 * 3), Chosen(c, S, 4 * 3 + 4), d)
      BY <1>7, <2>1
    <2>. QED
      BY <2>2, <2>3
  <1>. DEFINE Loop == Board(0) \o Board(1) \o Board(2) \o Board(3)
  <1>9. Carries(Loop, Chosen(c, S, 0), Chosen(c, S, 16), d)
    BY <1>8, Rounds
  <1>10. S \subseteq Chosen(c, S, 0)
    BY ActiveParts DEF Chosen, Chips
  <1>11. Carries(Loop, S, Chosen(c, S, 16), d)
    <2>1. Chosen(c, S, 16) \subseteq Chosen(c, S, 16)
      OBVIOUS
    <2>. HIDE DEF Loop
    <2>. QED
      BY <1>9, <1>10, <2>1, Wider
  <1>12. PrintAgetChipVersionNumbers(Masks(c)) = SwitchToSlowControl(Masks(c)) \o Loop
    BY DEF PrintAgetChipVersionNumbers, EachAsAd, EachChip, Loop, Board, OneChip
  <1>. HIDE DEF Loop
  <1>. QED
    BY <1>4, <1>11, <1>12, CarriesThen DEF S

\* The choice of a device changes nothing at the CoBo.
LEMMA DeviceFlows ==
    ASSUME NEW c, NEW B, NEW K, NEW d, Scope(d, c, B, K), NEW x \in AnyDevice
    PROVE  \A P : P \subseteq Sane(c) => Carries(Device(x), P, P, d)
  <1>. SUFFICES ASSUME NEW P, P \subseteq Sane(c) PROVE Carries(Device(x), P, P, d)
    OBVIOUS
  <1>1. "node" \in Devices /\ Suits("device", x)
    BY DEF Devices, Suits
  <1>2. \A h : Turn(h, "device", "node", x) = h
    BY DEF Turn, Turned, Calls, Access
  <1>3. Carries(Access("device", "node", x), P, P, d)
    BY <1>1, <1>2, OneTurn
  <1>. QED
    BY <1>3 DEF Device

\* Reading the version of the chips and writing their hit registers
\* (EccClient.cpp:1093).
ReadVersion(cl) == Pulse(cl.chips) \o HitRegister(FALSE) \o Device("aget") \o Read("aget") \o Device("ctrl")
WriteHit(S) == Pulse(S) \o HitRegister(TRUE) \o Device("aget") \o Alter("aget", {"hit"}) \o Device("ctrl")
Listening(R, K) == {h \in R : h.hitRegister = FALSE /\ h.fast \cap K = {}}

\* Reading the versions of the chips takes them all out of fast control
\* (EccClient.cpp:1093).
LEMMA ReadVersionFlows ==
    ASSUME NEW c, NEW d, Visited(d, c), NEW P, P \subseteq Lit(c), Blind(P, Modes)
    PROVE  LET R == P \cap Enabled(Masks(c).chips) IN
           Carries(ReadVersion(Masks(c)), R, Listening(R, Masks(c).chips), d)
  <1>. DEFINE K == Masks(c).chips
              R == P \cap Enabled(K)
              R1 == {h \in R : h.pulse = K}
              R2 == {h \in R1 : h.hitRegister = FALSE}
              V == Listening(R, K)
  <1>1. Scope(d, c, Masks(c).asads, K)
    BY DEF Visited
  <1>2. K \in SUBSET Chips
    BY ActiveParts
  <1>3. P \subseteq CoBoStates /\ P \subseteq Sane(c)
    BY DEF Blind, Lit
  <1>4. \A h \in R : Turn(h, "pulse", "ctrl", K) \in R1
    <2>1. ASSUME NEW h \in R PROVE Turn(h, "pulse", "ctrl", K) \in R1
      <3>1. h \in P /\ h \in CoBoStates /\ h.enabled = K
        BY <1>3 DEF Enabled
      <3>2. PICK g : g = Turn(h, "pulse", "ctrl", K)
        OBVIOUS
      <3>3. g \in P /\ g.pulse = K /\ g.enabled = K
        BY <1>2, <3>1, <3>2, ModeTurns, ChipTurns
      <3>. QED
        BY <1>3, <3>2, <3>3 DEF Enabled
    <2>. QED
      BY <2>1
  <1>5. \A h \in R1 : Turn(h, "hitRegister", "ctrl", FALSE) \in R2
    <2>1. ASSUME NEW h \in R1 PROVE Turn(h, "hitRegister", "ctrl", FALSE) \in R2
      <3>1. h \in P /\ h \in CoBoStates /\ h.enabled = K /\ h.pulse = K
        BY <1>3 DEF Enabled
      <3>2. PICK b \in BOOLEAN : b = FALSE
        OBVIOUS
      <3>3. PICK g : g = Turn(h, "hitRegister", "ctrl", b)
        OBVIOUS
      <3>4. g \in P /\ g.hitRegister = b /\ g.pulse = K /\ g.enabled = K
        BY <3>1, <3>3, ModeTurns, ChipTurns
      <3>. QED
        BY <1>3, <3>2, <3>3, <3>4 DEF Enabled
    <2>. QED
      BY <2>1
  <1>6. \A h \in R2 : Turn(h, "read", "aget", 0) \in V
    <2>1. ASSUME NEW h \in R2 PROVE Turn(h, "read", "aget", 0) \in V
      <3>1. h \in P /\ h \in CoBoStates /\ h.enabled = K /\ h.pulse = K /\ h.hitRegister = FALSE
        BY <1>3 DEF Enabled
      <3>2. Turn(h, "read", "aget", 0) = Pulsed(h) /\ Pulsed(h) \in P
        BY <3>1, Turns, ModeTurns
      <3>3. /\ Pulsed(h).fast = h.fast \ K /\ Pulsed(h).hitRegister = FALSE
            /\ Pulsed(h).enabled = K
        BY <3>1, PulsedSame
      <3>. QED
        BY <1>3, <3>2, <3>3 DEF Enabled, Listening
    <2>. QED
      BY <2>1
  <1>7. R \subseteq Sane(c) /\ R1 \subseteq Sane(c) /\ R2 \subseteq Sane(c) /\ V \subseteq Sane(c)
    BY <1>3 DEF Listening
  <1>8. "aget" \in AnyDevice /\ "ctrl" \in AnyDevice
    BY DEF AnyDevice
  <1>. HIDE DEF K, R, R1, R2, V
  <1>9. Carries(Pulse(K), R, R1, d) /\ Carries(HitRegister(FALSE), R1, R2, d)
    BY <1>1, <1>2, <1>4, <1>5, <1>7, ModeFlows
  <1>10. /\ Carries(Device("aget"), R2, R2, d) /\ Carries(Read("aget"), R2, V, d)
         /\ Carries(Device("ctrl"), V, V, d)
    BY <1>1, <1>6, <1>7, <1>8, ModeFlows, DeviceFlows
  <1>11. Carries(Pulse(K) \o HitRegister(FALSE) \o Device("aget"), R, R2, d)
    BY <1>9, <1>10, CarriesThen
  <1>12. Carries(Pulse(K) \o HitRegister(FALSE) \o Device("aget") \o Read("aget") \o Device("ctrl"), R, V, d)
    BY <1>10, <1>11, CarriesThen
  <1>. QED
    BY <1>12 DEF ReadVersion, K, R, V

\* The chips that were not yet in fast control are pulsed.
InFastControl(R, K) == {h \in R : K \subseteq h.fast}

\* Writing the hit registers puts the chips that are pulsed in fast control
\* (EccClient.cpp:1093).
LEMMA WriteHitFlows ==
    ASSUME NEW c, NEW d, Visited(d, c), NEW P, P \subseteq Lit(c), Blind(P, Modes),
           NEW S \in SUBSET Masks(c).chips, NEW X, X \subseteq P \cap Enabled(Masks(c).chips),
           \A h \in X : Masks(c).chips \subseteq h.fast \cup S
    PROVE  Carries(WriteHit(S), X, InFastControl(P \cap Enabled(Masks(c).chips), Masks(c).chips), d)
  <1>. DEFINE K == Masks(c).chips
              R == P \cap Enabled(K)
              X1 == {h \in R : h.pulse = S /\ K \subseteq h.fast \cup S}
              X2 == {h \in X1 : h.hitRegister = TRUE}
              H == InFastControl(R, K)
  <1>1. Scope(d, c, Masks(c).asads, K)
    BY DEF Visited
  <1>2. K \in SUBSET Chips /\ S \in SUBSET Chips
    BY ActiveParts
  <1>3. P \subseteq CoBoStates /\ P \subseteq Sane(c)
    BY DEF Blind, Lit
  <1>4. \A h \in X : Turn(h, "pulse", "ctrl", S) \in X1
    <2>1. ASSUME NEW h \in X PROVE Turn(h, "pulse", "ctrl", S) \in X1
      <3>1. h \in P /\ h \in CoBoStates /\ h.enabled = K /\ K \subseteq h.fast \cup S
        BY <1>3 DEF Enabled
      <3>2. PICK g : g = Turn(h, "pulse", "ctrl", S)
        OBVIOUS
      <3>3. g \in P /\ g.pulse = S /\ g.enabled = K /\ g.fast = h.fast
        BY <1>2, <3>1, <3>2, ModeTurns, ChipTurns
      <3>. QED
        BY <1>3, <3>1, <3>2, <3>3 DEF Enabled
    <2>. QED
      BY <2>1
  <1>5. \A h \in X1 : Turn(h, "hitRegister", "ctrl", TRUE) \in X2
    <2>1. ASSUME NEW h \in X1 PROVE Turn(h, "hitRegister", "ctrl", TRUE) \in X2
      <3>1. h \in P /\ h \in CoBoStates /\ h.enabled = K /\ h.pulse = S /\ K \subseteq h.fast \cup S
        BY <1>3 DEF Enabled
      <3>2. PICK b \in BOOLEAN : b = TRUE
        OBVIOUS
      <3>3. PICK g : g = Turn(h, "hitRegister", "ctrl", b)
        OBVIOUS
      <3>4. g \in P /\ g.hitRegister = b /\ g.pulse = S /\ g.enabled = K /\ g.fast = h.fast
        BY <3>1, <3>3, ModeTurns, ChipTurns
      <3>. QED
        BY <1>3, <3>1, <3>2, <3>3, <3>4 DEF Enabled
    <2>. QED
      BY <2>1
  <1>6. \A h \in X2 : h \in CoBoStates /\ K \subseteq Pulsed(h).fast
    <2>1. ASSUME NEW h \in X2 PROVE h \in CoBoStates /\ K \subseteq Pulsed(h).fast
      <3>1. h \in CoBoStates /\ h.hitRegister = TRUE /\ h.pulse = S /\ K \subseteq h.fast \cup S
        BY <1>3
      <3>2. Pulsed(h).fast = h.fast \cup h.pulse
        BY <3>1, PulsedSame
      <3>. QED
        BY <3>1, <3>2
    <2>. QED
      BY <2>1
  <1>7. /\ X \subseteq Sane(c) /\ X1 \subseteq Sane(c) /\ X2 \subseteq Sane(c) /\ R \subseteq Sane(c)
        /\ H \subseteq Sane(c) /\ X2 \subseteq R /\ X2 \subseteq Lit(c) \cap Enabled(K)
    BY <1>3 DEF InFastControl
  <1>8. "aget" \in AnyDevice /\ "ctrl" \in AnyDevice
    BY DEF AnyDevice
  <1>9. Blind(R, Base \cup {"pulsed"})
    <2>1. Blind(P, Base \cup {"pulsed"})
      BY BlindLess DEF Modes
    <2>2. Blind(Enabled(K), Base \cup {"pulsed"})
      BY BlindSets DEF Base
    <2>. QED
      BY <2>1, <2>2, BlindMeet
  <1>10. K \in SUBSET Masks(c).chips
    OBVIOUS
  <1>. HIDE DEF K, R, X1, X2, H
  <1>11. Carries(Pulse(S), X, X1, d) /\ Carries(HitRegister(TRUE), X1, X2, d)
    BY <1>1, <1>2, <1>4, <1>5, <1>7, ModeFlows
  <1>12. /\ Carries(Device("aget"), X2, X2, d) /\ Carries(Device("ctrl"), H, H, d)
    BY <1>1, <1>7, <1>8, DeviceFlows
  <1>13. Carries(Alter("aget", {"hit"}), X2, H, d)
    BY <1>1, <1>6, <1>7, <1>9, <1>10, HitWrites DEF H, InFastControl
  <1>14. Carries(Pulse(S) \o HitRegister(TRUE) \o Device("aget"), X, X2, d)
    BY <1>11, <1>12, CarriesThen
  <1>15. Carries(Pulse(S) \o HitRegister(TRUE) \o Device("aget") \o Alter("aget", {"hit"}) \o Device("ctrl"), X, H, d)
    BY <1>12, <1>13, <1>14, CarriesThen
  <1>. QED
    BY <1>15 DEF WriteHit, K, R, H

\* The states with the boards selected again, once the chips were reset.
Raised(c) == Lit(c) \cap Selected(Masks(c).asads)
Fresh(c) == Chosen(c, Raised(c) \cap Slow(c) \cap Enabled(Masks(c).chips), 16)

\* What these sets do not depend on.
LEMMA RaisedBlind ==
    ASSUME NEW c, NEW F, F \cap {"ready", "buffer", "power", "asadMask"} = {}
    PROVE  Blind(Raised(c), F)
  <1>1. Blind(Lit(c), F) /\ Blind(Selected(Masks(c).asads), F)
    BY BlindSets
  <1>. QED
    BY <1>1, BlindMeet DEF Raised

\* Pulsing chips of a CoBo that stands in slow control keeps it there.
LEMMA FreshBlind == ASSUME NEW c PROVE Blind(Fresh(c), Base \cup {"pulsed"})
  <1>. DEFINE F == Base \cup {"pulsed"}
              Q == Raised(c) \cap Slow(c) \cap Enabled(Masks(c).chips)
  <1>1. Q \subseteq CoBoStates
    BY DEF Enabled
  <1>2. ASSUME NEW h \in Fresh(c) PROVE Pulsed(h) \in Fresh(c)
    <2>1. h \in Q /\ h \in CoBoStates /\ ((\E j \in Masks(c).chips : j < 16) => h.chip \in Masks(c).chips)
      BY <1>1, <1>2 DEF Fresh, Chosen
    <2>2. Pulsed(h) \in CoBoStates /\ Pulsed(h).chip = h.chip /\ Pulsed(h).ready = h.ready
          /\ Pulsed(h).buffer = h.buffer /\ Pulsed(h).power = h.power
          /\ Pulsed(h).hitRegister = h.hitRegister /\ Pulsed(h).asadMask = h.asadMask
          /\ Pulsed(h).enabled = h.enabled
          /\ Pulsed(h).fast = IF h.hitRegister THEN h.fast \cup h.pulse ELSE h.fast \ h.pulse
      BY <2>1, PulsedSame
    <2>3. h.hitRegister = FALSE /\ h.fast \cap Masks(c).chips = {} /\ h \in Lit(c) /\ h.asadMask = Masks(c).asads
          /\ h.enabled = Masks(c).chips
      <3>1. h.hitRegister \in BOOLEAN
        BY <2>1 DEF CoBoStates
      <3>. QED
        BY <2>1, <3>1 DEF Slow, Enabled, Raised, Selected
    <2>4. Pulsed(h).fast \cap Masks(c).chips = {}
      BY <2>2, <2>3
    <2>5. Pulsed(h) \in Lit(c)
      BY <2>2, <2>3 DEF Lit, Sane, Filled
    <2>6. Pulsed(h) \in Q
      BY <2>2, <2>3, <2>4, <2>5 DEF Raised, Selected, Slow, Enabled
    <2>. QED
      BY <2>1, <2>2, <2>6 DEF Fresh, Chosen
  <1>3. ASSUME NEW h \in Fresh(c), NEW g \in CoBoStates, Same(g, h, F) PROVE g \in Fresh(c)
    <2>1. h \in Q /\ ((\E j \in Masks(c).chips : j < 16) => h.chip \in Masks(c).chips)
      BY <1>3 DEF Fresh, Chosen
    <2>2. g.ready = h.ready /\ g.buffer = h.buffer /\ g.power = h.power /\ g.hitRegister = h.hitRegister
          /\ g.asadMask = h.asadMask /\ g.enabled = h.enabled /\ g.fast = h.fast /\ g.chip = h.chip
      BY <1>3 DEF Same, Base
    <2>3. g \in Lit(c) /\ g \in Slow(c) /\ g \in Selected(Masks(c).asads) /\ g \in Enabled(Masks(c).chips)
      BY <2>1, <2>2 DEF Raised, Selected, Slow, Enabled, Lit, Sane, Filled
    <2>. QED
      BY <2>1, <2>2, <2>3 DEF Fresh, Chosen, Raised
  <1>4. Fresh(c) \subseteq CoBoStates
    BY <1>1 DEF Fresh, Chosen
  <1>. QED
    BY <1>2, <1>3, <1>4 DEF Blind

\* The chips are put in calibration mode, their versions are read, and they are
\* back in slow control with the last of them selected.
LEMMA AgetCalFlows ==
    ASSUME NEW c, NEW d, Visited(d, c)
    PROVE  Carries(AgetCal(Masks(c)), Raised(c), Fresh(c), d)
  <1>. DEFINE m == Masks(c)
              K == Masks(c).chips
              P == Raised(c)
              R == P \cap Enabled(K)
              H == InFastControl(R, K)
              A == CoboSetCalibrationAgetChips \o AdcReset \o AdcTest
                   \o Device("ctrl") \o Enable(K)
  <1>1. Scope(d, c, Masks(c).asads, K)
    BY DEF Visited
  <1>2. P \subseteq Lit(c) /\ P \subseteq Sane(c) /\ P \subseteq CoBoStates
    BY DEF Raised, Lit, Sane
  <1>3. Blind(P, Modes) /\ Blind(P, Modes \cup {"chip"}) /\ Blind(P, Base) /\ Blind(Lit(c), Base)
    <2>1. Blind(P, Modes) /\ Blind(P, Modes \cup {"chip"}) /\ Blind(P, Base)
      BY RaisedBlind DEF Modes, Base
    <2>2. Blind(Lit(c), Base)
      BY BlindSets DEF Base
    <2>. QED
      BY <2>1, <2>2
  <1>4. K \in SUBSET Chips
    BY ActiveParts
  <1>5. Carries(CoboSetCalibrationAgetChips \o AdcReset \o AdcTest, P, P, d)
    <2>1. Base \subseteq Base /\ "asad" \in {"asad"} /\ "asadMask" \notin Base
      BY DEF Base
    <2>2. /\ Uses(CoboSetCalibrationAgetChips, 0, Base, {"asad"}) /\ Uses(AdcReset, 0, Base, {"asad"})
          /\ Uses(AdcTest, 0, Base, {"asad"})
      BY <2>1, UsesCoBoRoutines, UsesBoardRoutines
    <2>3. Uses(CoboSetCalibrationAgetChips \o AdcReset, 0, Base, {"asad"})
      BY <2>2, UsesParts
    <2>4. Uses(CoboSetCalibrationAgetChips \o AdcReset \o AdcTest, 0, Base, {"asad"})
      BY <2>2, <2>3, UsesParts
    <2>5. PICK s : s = CoboSetCalibrationAgetChips \o AdcReset \o AdcTest
      OBVIOUS
    <2>6. Lit(c) \subseteq Lit(c)
      OBVIOUS
    <2>7. LET Q == Lit(c) \cap Selected(Masks(c).asads) IN Carries(s, Q, Q, d)
      BY <1>3, <2>1, <2>4, <2>5, <2>6, AtAllBoards
    <2>. QED
      BY <2>5, <2>7 DEF Raised
  <1>6. Carries(Device("ctrl"), P, P, d)
    BY <1>1, <1>2, DeviceFlows DEF AnyDevice
  <1>7. Carries(Enable(K), P, R, d)
    <2>1. ASSUME NEW h \in P PROVE Turn(h, "enable", "ctrl", K) \in R
      <3>1. h \in CoBoStates
        BY <1>2
      <3>2. PICK g : g = Turn(h, "enable", "ctrl", K)
        OBVIOUS
      <3>3. g \in P /\ g.enabled = K
        BY <1>3, <1>4, <3>1, <3>2, ModeTurns, ChipTurns
      <3>. QED
        BY <1>2, <3>2, <3>3 DEF Enabled
    <2>2. R \subseteq Sane(c)
      BY <1>2
    <2>. QED
      BY <1>1, <1>2, <1>4, <2>1, <2>2, ModeFlows
  <1>8. Carries(ReadVersion(m), R, R, d) /\ Carries(ReadVersion(m), H, R, d)
    <2>1. Carries(ReadVersion(m), R, Listening(R, K), d)
      BY <1>2, <1>3, ReadVersionFlows
    <2>2. Listening(R, K) \subseteq R /\ H \subseteq R /\ R \subseteq R
      BY DEF Listening, InFastControl
    <2>. HIDE DEF R, H, m, K
    <2>. QED
      BY <2>1, <2>2, Wider
  <1>9. Carries(WriteHit(K), R, H, d)
    <2>1. \A h \in R : K \subseteq h.fast \cup K
      OBVIOUS
    <2>. QED
      BY <1>2, <1>3, <2>1, WriteHitFlows
  <1>10. Carries(WriteHit({}), H, H, d)
    <2>1. \A h \in H : K \subseteq h.fast \cup {}
      BY DEF InFastControl
    <2>2. H \subseteq P \cap Enabled(K)
      BY DEF InFastControl
    <2>3. {} \in SUBSET K
      OBVIOUS
    <2>. HIDE DEF H
    <2>4. Carries(WriteHit({}), H, InFastControl(P \cap Enabled(K), K), d)
      BY <1>2, <1>3, <2>1, <2>2, <2>3, WriteHitFlows
    <2>. QED
      BY <2>4 DEF H
  <1>11. Carries(PrintAgetChipVersionNumbers(m), R, Fresh(c), d)
    <2>1. Carries(PrintAgetChipVersionNumbers(m), P, Fresh(c), d)
      BY <1>2, <1>3, VersionsFlow DEF Fresh
    <2>2. R \subseteq P /\ Fresh(c) \subseteq Fresh(c)
      OBVIOUS
    <2>. HIDE DEF R, P, m
    <2>. QED
      BY <2>1, <2>2, Wider
  <1>. HIDE DEF m, K, P, R, H
  <1>12. Carries(CoboSetCalibrationAgetChips \o AdcReset \o AdcTest \o Device("ctrl"), P, P, d)
    BY <1>5, <1>6, CarriesThen
  <1>13. Carries(A, P, R, d)
    BY <1>7, <1>12, CarriesThen
  <1>. HIDE DEF A
  <1>14. Carries(A \o ReadVersion(m), P, R, d)
    BY <1>8, <1>13, CarriesThen
  <1>15. Carries(A \o ReadVersion(m) \o ReadVersion(m), P, R, d)
    BY <1>8, <1>14, CarriesThen
  <1>16. Carries(A \o ReadVersion(m) \o ReadVersion(m) \o WriteHit(K), P, H, d)
    BY <1>9, <1>15, CarriesThen
  <1>17. Carries(A \o ReadVersion(m) \o ReadVersion(m) \o WriteHit(K) \o WriteHit({}), P, H, d)
    BY <1>10, <1>16, CarriesThen
  <1>18. Carries(A \o ReadVersion(m) \o ReadVersion(m) \o WriteHit(K) \o WriteHit({}) \o ReadVersion(m), P, R, d)
    BY <1>8, <1>17, CarriesThen
  <1>19. Carries(A \o ReadVersion(m) \o ReadVersion(m) \o WriteHit(K) \o WriteHit({}) \o ReadVersion(m)
                 \o PrintAgetChipVersionNumbers(m), P, Fresh(c), d)
    BY <1>11, <1>18, CarriesThen
  <1>20. AgetCal(m) = A \o ReadVersion(m) \o ReadVersion(m) \o WriteHit(K) \o WriteHit({}) \o ReadVersion(m)
                      \o PrintAgetChipVersionNumbers(m)
    BY DEF AgetCal, A, ReadVersion, WriteHit, K, m
  <1>. QED
    BY <1>19, <1>20 DEF m, P

\* Initializing the chips of a CoBo brings it into slow control
\* (EccClient.cpp:733).
LEMMA AgetInitFlows ==
    ASSUME NEW c, NEW d, Visited(d, c) PROVE Carries(AgetInit(Masks(c)), Lit(c), Slow(c), d)
  <1>. DEFINE m == Masks(c)
              K == Masks(c).chips
              P == Raised(c)
              F == Base \cup {"enabled"}
  <1>1. Scope(d, c, Masks(c).asads, K)
    BY DEF Visited
  <1>2. Lit(c) \subseteq Sane(c) /\ P \subseteq Sane(c) /\ Fresh(c) \subseteq Sane(c) /\ Fresh(c) \subseteq Slow(c)
    BY DEF Raised, Lit, Fresh, Chosen
  <1>3. K \in SUBSET Chips /\ m.asads \in SUBSET AsAds
    BY ActiveParts
  <1>4. "ctrl" \in AnyDevice /\ "asad" \in AnyDevice /\ "aget" \in AnyDevice
    BY DEF AnyDevice
  <1>5. /\ \A x \in AnyDevice : Carries(Device(x), Lit(c), Lit(c), d)
        /\ \A x \in AnyDevice : Carries(Device(x), P, P, d)
        /\ \A x \in AnyDevice : Carries(Device(x), Fresh(c), Fresh(c), d)
    BY <1>1, <1>2, DeviceFlows
  <1>6. Carries(SetAgetSlowControlMask(K), Lit(c), Lit(c), d) /\ Carries(Read("ctrl"), Lit(c), Lit(c), d)
    <2>1. Blind(Lit(c), F)
      BY BlindSets DEF Base
    <2>2. Base \subseteq F /\ "enabled" \in F
      OBVIOUS
    <2>3. Uses(SetAgetSlowControlMask(K), 0, F, {}) /\ Uses(Read("ctrl"), 0, F, {})
      BY <1>3, <2>2, UsesSelectingRoutines, UsesWrites
    <2>. HIDE DEF F
    <2>. QED
      BY <1>1, <1>2, <2>1, <2>3, UsesCarries
  <1>7. Carries(SetAsAdSlowControlMask(m.asads), Lit(c), P, d)
    <2>1. FreeOfBoards(Lit(c), c)
      BY BlindSets DEF FreeOfBoards, Selecting, Base
    <2>. QED
      BY <1>1, <2>1, SelectsActive DEF Raised
  <1>8. Carries(Alter("asad", {"resetFast"}), P, P, d)
    <2>1. Base \subseteq Base /\ "asad" \in {"asad"} /\ "asadMask" \notin Base /\ Blind(Lit(c), Base)
      BY BlindSets DEF Base
    <2>2. {"resetFast"} \subseteq Groups
      BY DEF Groups
    <2>3. Uses(Alter("asad", {"resetFast"}), 0, Base, {"asad"})
      BY <2>1, <2>2, UsesWrites
    <2>4. PICK s : s = Alter("asad", {"resetFast"})
      OBVIOUS
    <2>5. LET Q == Lit(c) \cap Selected(Masks(c).asads) IN Carries(s, Q, Q, d)
      BY <2>1, <2>3, <2>4, AtAllBoards
    <2>. QED
      BY <2>4, <2>5 DEF Raised
  <1>9. Carries(AgetCal(m), P, Fresh(c), d)
    BY AgetCalFlows
  <1>10. Carries(AlterField("aget", "reg1"), Fresh(c), Fresh(c), d)
    <2>1. {"reg1"} \subseteq Groups
      BY DEF Groups
    <2>2. {"reg1"} # {"hit"}
      OBVIOUS
    <2>3. PICK b \in BOOLEAN : b = FALSE
      OBVIOUS
    <2>4. PICK op \in {"write", "field"} : op = "field"
      OBVIOUS
    <2>5. Fresh(c) \subseteq Slow(c) \cap Enabled(K)
      BY DEF Fresh, Chosen
    <2>6. \A h \in Fresh(c) : K # {} => h.chip \in K
      <3>1. \A j \in K : j < 16
        BY <1>3 DEF Chips
      <3>. QED
        BY <3>1 DEF Fresh, Chosen
    <2>7. K \in SUBSET Masks(c).chips
      OBVIOUS
    <2>. HIDE DEF K
    <2>8. Carries(Write(op, "aget", {"reg1"}, b, Reach), Fresh(c), Fresh(c), d)
      BY <1>1, <2>1, <2>2, <2>5, <2>6, <2>7, FreshBlind, ChipWrites
    <2>. QED
      BY <2>3, <2>4, <2>8 DEF AlterField
  <1>11. Carries(Put("ctrl", {"initSCA"}), Fresh(c), Fresh(c), d)
    <2>1. {"initSCA"} \subseteq Groups
      BY DEF Groups
    <2>2. Uses(Put("ctrl", {"initSCA"}), 0, Base, {})
      BY <2>1, UsesWrites
    <2>3. Blind(Fresh(c), Base)
      BY FreshBlind, BlindLess
    <2>. QED
      BY <1>1, <1>2, <2>2, <2>3, UsesCarries
  <1>. HIDE DEF m, K, P, F
  <1>12. Carries(Device("ctrl") \o SetAgetSlowControlMask(K), Lit(c), Lit(c), d)
    BY <1>4, <1>5, <1>6, CarriesThen
  <1>13. Carries(Device("ctrl") \o SetAgetSlowControlMask(K) \o Read("ctrl"), Lit(c), Lit(c), d)
    BY <1>6, <1>12, CarriesThen
  <1>14. Carries(Device("ctrl") \o SetAgetSlowControlMask(K) \o Read("ctrl")
                 \o SetAsAdSlowControlMask(m.asads), Lit(c), P, d)
    BY <1>7, <1>13, CarriesThen
  <1>15. Carries(Device("ctrl") \o SetAgetSlowControlMask(K) \o Read("ctrl")
                 \o SetAsAdSlowControlMask(m.asads) \o Device("asad"), Lit(c), P, d)
    BY <1>4, <1>5, <1>14, CarriesThen
  <1>. DEFINE A == Device("ctrl") \o SetAgetSlowControlMask(K) \o Read("ctrl")
                   \o SetAsAdSlowControlMask(m.asads) \o Device("asad") \o Alter("asad", {"resetFast"})
  <1>16. Carries(A, Lit(c), P, d)
    BY <1>8, <1>15, CarriesThen
  <1>. HIDE DEF A
  <1>17. Carries(A \o AgetCal(m), Lit(c), Fresh(c), d)
    BY <1>9, <1>16, CarriesThen
  <1>18. Carries(A \o AgetCal(m) \o Device("aget"), Lit(c), Fresh(c), d)
    BY <1>4, <1>5, <1>17, CarriesThen
  <1>19. Carries(A \o AgetCal(m) \o Device("aget") \o AlterField("aget", "reg1"), Lit(c), Fresh(c), d)
    BY <1>10, <1>18, CarriesThen
  <1>20. Carries(A \o AgetCal(m) \o Device("aget") \o AlterField("aget", "reg1") \o Device("ctrl"), Lit(c), Fresh(c), d)
    BY <1>4, <1>5, <1>19, CarriesThen
  <1>21. Carries(A \o AgetCal(m) \o Device("aget") \o AlterField("aget", "reg1") \o Device("ctrl")
                 \o Put("ctrl", {"initSCA"}), Lit(c), Fresh(c), d)
    BY <1>11, <1>20, CarriesThen
  <1>22. Carries(AgetInit(m), Lit(c), Fresh(c), d)
    BY <1>21 DEF AgetInit, A, K, m
  <1>23. Lit(c) \subseteq Lit(c)
    OBVIOUS
  <1>. QED
    BY <1>2, <1>22, <1>23, Wider DEF m

\* The chips to write to.
LEMMA EnablesChips ==
    ASSUME NEW c, NEW B, NEW K, NEW d, Scope(d, c, B, K), NEW P, P \subseteq Sane(c),
           Blind(P, Base \cup {"enabled"}), NEW S \in SUBSET Chips
    PROVE  Carries(Enable(S), P, P \cap Enabled(S), d)
  <1>1. "ctrl" \in Devices /\ Suits("enable", S)
    BY DEF Devices, AnyDevice, Suits
  <1>2. \A h \in P : Turn(h, "enable", "ctrl", S) \in P
    <2>1. \A x : Alters(Access("enable", "ctrl", S)[1], x) => x \in Base \cup {"enabled"}
      BY DEF Alters, Access
    <2>. QED
      BY <1>1, <2>1, TurnKeeps
  <1>3. \A h \in P : Turn(h, "enable", "ctrl", S) \in P \cap Enabled(S)
    <2>1. P \subseteq CoBoStates
      BY DEF Blind
    <2>2. ASSUME NEW h \in P PROVE Turn(h, "enable", "ctrl", S).enabled = S
      BY <2>1, ChipTurns
    <2>. QED
      BY <1>2, <2>1, <2>2 DEF Enabled
  <1>. QED
    BY <1>1, <1>3, OneTurn DEF Enable

\* One register of one chip, with an error of the write swallowed.
LEMMA RegisterFlows ==
    ASSUME NEW c, NEW B, NEW k \in Masks(c).chips, NEW d, Scope(d, c, B, {k}), NEW P,
           P \subseteq Slow(c), Blind(P, Base \cup {"enabled", "pulsed"}), NEW reg \in Groups,
           reg # "hit", NEW good \in BOOLEAN
    PROVE  Carries(AgetRegWSC(k, reg, good), P, P, d)
  <1>. DEFINE write == Write("write", "aget", {reg}, good, Reach)
              Q == P \cap Enabled({k})
              before == Device("ctrl") \o Enable({k}) \o Device("aget")
  <1>1. P \subseteq Sane(c) /\ Q \subseteq Sane(c) /\ Q \subseteq Slow(c) \cap Enabled({k})
    BY DEF Slow, Lit
  <1>2. {k} \in SUBSET Chips /\ {k} \in SUBSET Masks(c).chips
    BY ActiveParts
  <1>3. Carries(Device("ctrl"), P, P, d) /\ Carries(Device("aget"), Q, Q, d)
    <2>1. "ctrl" \in AnyDevice /\ "aget" \in AnyDevice
      BY DEF AnyDevice
    <2>. QED
      BY <1>1, <2>1, DeviceFlows
  <1>4. Carries(Enable({k}), P, Q, d)
    <2>1. Blind(P, Base \cup {"enabled"})
      BY BlindLess
    <2>. QED
      BY <1>1, <1>2, <2>1, EnablesChips
  <1>5. Carries(write, Q, Q, d)
    <2>1. Blind(Q, Base \cup {"pulsed"})
      <3>1. Blind(P, Base \cup {"pulsed"})
        BY BlindLess
      <3>2. Blind(Enabled({k}), Base \cup {"pulsed"})
        BY BlindSets DEF Base
      <3>. QED
        BY <3>1, <3>2, BlindMeet
    <2>2. {reg} \in SUBSET Groups /\ {reg} # {"hit"}
      OBVIOUS
    <2>3. PICK op \in {"write", "field"} : op = "write"
      OBVIOUS
    <2>. HIDE DEF Q
    <2>4. Carries(Write(op, "aget", {reg}, good, Reach), Q, Q, d)
      BY <1>1, <1>2, <2>1, <2>2, <2>3, ChipWrites
    <2>. QED
      BY <2>3, <2>4
  <1>6. Len(write) = 1 /\ write[1].op = "write"
    BY DEF Write, Access
  <1>. HIDE DEF write, Q
  <1>7. Carries(Device("ctrl") \o Enable({k}), P, Q, d)
    BY <1>3, <1>4, CarriesThen
  <1>8. Carries(before, P, Q, d)
    BY <1>3, <1>7, CarriesThen
  <1>9. IsSeq(before) /\ IsSeq(write)
    BY <1>5, <1>8 DEF Carries, Block
  <1>. HIDE DEF before
  <1>10. Carries(before \o write, P, Q, d)
    BY <1>5, <1>8, CarriesThen
  <1>11. Len(before \o write) > 0 /\ ~Harmless((before \o write)[Len(before \o write)])
    <2>1. /\ Len(before \o write) = Len(before) + 1 /\ Len(before) \in Nat
          /\ (before \o write)[Len(before) + 1] = write[1]
      BY <1>6, <1>9, OneMore
    <2>2. ~Harmless(write[1])
      BY <1>6 DEF Harmless
    <2>. QED
      BY <2>1, <2>2
  <1>12. \A l \in Int : d.mine[l]
    BY DEF Scope
  <1>13. Carries(Try(before \o write), P, Q, d)
    BY <1>10, <1>11, <1>12, CarriesTry
  <1>14. P \subseteq P /\ Q \subseteq P
    BY DEF Q
  <1>15. Carries(Try(before \o write), P, P, d)
    BY <1>13, <1>14, Wider
  <1>. QED
    BY <1>15 DEF AgetRegWSC, before, write

\* The round of a loop that is meant for one chip.
LEMMA ChipRound ==
    ASSUME NEW c, NEW B, NEW K, NEW d, Scope(d, c, B, K), NEW P, P \subseteq Sane(c),
           NEW k \in Chips, NEW s, k \in Masks(c).chips => Carries(s, P, P, ForChip(d, k))
    PROVE  Carries(When(IsAgetActive(c, k), OnChip(k, s)), P, P, d)
  <1>1. k \in Int /\ (IsAgetActive(c, k) <=> k \in Masks(c).chips)
    BY ActiveParts DEF Chips
  <1>2. P \subseteq d.states
    BY DEF Scope
  <1>3. ASSUME IsAgetActive(c, k) PROVE Carries(OnChip(k, s), P, P, d)
    <2>1. Carries(s, P, P, ForChip(d, k))
      BY <1>1, <1>3
    <2>2. Block(s, 0)
      BY <2>1 DEF Carries
    <2>. QED
      BY <1>1, <2>1, <2>2, Targeted
  <1>. QED
    BY <1>2, <1>3, Perhaps

\* A chip that listens to slow control, whatever else is selected
LEMMA SlowBlind ==
    ASSUME NEW F, F \cap {"ready", "buffer", "power", "hitRegister", "fast"} = {}
    PROVE  \A c : Blind(Slow(c), F)
  BY BlindSets

\* One threshold of one chip.
LEMMA SetGlobalRegThresholdFlows ==
    ASSUME NEW c, NEW B, NEW k \in Masks(c).chips, NEW d, Scope(d, c, B, {k})
    PROVE  Carries(SetGlobalRegThreshold(k), Slow(c), Slow(c), d)
  <1>. DEFINE F == Base \cup {"chip", "pulsed"}
  <1>1. k \in Chips
    BY ActiveParts
  <1>2. Slow(c) \subseteq Sane(c) /\ Slow(c) \subseteq Slow(c)
    BY DEF Slow, Lit
  <1>3. Blind(Slow(c), F) /\ Blind(Slow(c), Base \cup {"enabled", "pulsed"})
    BY SlowBlind DEF Base
  <1>4. Uses(Try(AgetRegRSC(k) \o Read("aget")), 0, F, {})
    <2>1. Base \subseteq F /\ "chip" \in F /\ "pulsed" \in F
      OBVIOUS
    <2>. HIDE DEF F
    <2>2. Uses(AgetRegRSC(k), 0, F, {}) /\ Uses(Read("aget"), 0, F, {})
      BY <1>1, <2>1, UsesSelectingRoutines, UsesSelections
    <2>3. Uses(AgetRegRSC(k) \o Read("aget"), 0, F, {})
      BY <2>2, UsesParts
    <2>. QED
      BY <2>3, UsesParts
  <1>. HIDE DEF F
  <1>5. Carries(Try(AgetRegRSC(k) \o Read("aget")), Slow(c), Slow(c), d)
    BY <1>2, <1>3, <1>4, UsesCarries
  <1>6. Carries(AgetRegWSC(k, "reg1", FALSE), Slow(c), Slow(c), d)
    <2>1. PICK b \in BOOLEAN : b = FALSE
      OBVIOUS
    <2>2. PICK reg : reg = "reg1"
      OBVIOUS
    <2>3. reg \in Groups /\ reg # "hit"
      BY <2>2 DEF Groups
    <2>4. Carries(AgetRegWSC(k, reg, b), Slow(c), Slow(c), d)
      BY <1>2, <1>3, <2>3, RegisterFlows
    <2>. QED
      BY <2>1, <2>2, <2>4
  <1>. QED
    BY <1>5, <1>6, CarriesThen DEF SetGlobalRegThreshold

\* The chips of the four boards.
LEMMA EveryChip == \A i \in AsAds : /\ 4 * i \in Chips /\ 4 * i + 1 \in Chips
                                    /\ 4 * i + 2 \in Chips /\ 4 * i + 3 \in Chips
  BY ChipsOfBoards

\* The thresholds of the chips are written to one chip at a time
\* (GetController.cpp:963).
LEMMA InitializeGlobalThresholdsFlows ==
    ASSUME NEW c, NEW d, Visited(d, c)
    PROVE  Carries(InitializeGlobalThresholds(c), Slow(c), Slow(c), d)
  <1>. DEFINE F == Base \cup {"enabled"}
              K == Masks(c).chips
              OneRound(k) == When(IsAgetActive(c, k), OnChip(k, SetGlobalRegThreshold(k)))
              Four(i) == OneRound(4 * i) \o OneRound(4 * i + 1) \o OneRound(4 * i + 2)
                         \o OneRound(4 * i + 3)
  <1>1. Scope(d, c, Masks(c).asads, K)
    BY DEF Visited
  <1>2. Slow(c) \subseteq Sane(c) /\ K \in SUBSET Chips
    BY ActiveParts DEF Slow, Lit
  <1>3. Carries(SetAgetSlowControlMask(K), Slow(c), Slow(c), d)
    <2>1. Blind(Slow(c), F)
      BY SlowBlind DEF Base
    <2>2. Uses(SetAgetSlowControlMask(K), 0, F, {})
      BY <1>2, UsesSelectingRoutines
    <2>. QED
      BY <1>1, <1>2, <2>1, <2>2, UsesCarries
  <1>4. ASSUME NEW k \in Chips PROVE Carries(OneRound(k), Slow(c), Slow(c), d)
    <2>1. Scope(ForChip(d, k), c, Masks(c).asads, {k})
      BY Scopes
    <2>2. k \in Masks(c).chips => Carries(SetGlobalRegThreshold(k), Slow(c), Slow(c), ForChip(d, k))
      BY <2>1, SetGlobalRegThresholdFlows
    <2>. QED
      BY <1>1, <1>2, <2>2, ChipRound
  <1>. HIDE DEF OneRound, K
  <1>5. ASSUME NEW i \in AsAds PROVE Carries(Four(i), Slow(c), Slow(c), d)
    <2>1. 4 * i \in Chips /\ 4 * i + 1 \in Chips /\ 4 * i + 2 \in Chips /\ 4 * i + 3 \in Chips
      BY EveryChip
    <2>. QED
      BY <1>4, <2>1, Rounds
  <1>. HIDE DEF Four
  <1>6. Carries(Four(0) \o Four(1) \o Four(2) \o Four(3), Slow(c), Slow(c), d)
    BY <1>5, Rounds DEF AsAds
  <1>7. Carries(SetAgetSlowControlMask(K) \o (Four(0) \o Four(1) \o Four(2) \o Four(3)), Slow(c), Slow(c), d)
    BY <1>3, <1>6, CarriesThen
  <1>. QED
    BY <1>7 DEF InitializeGlobalThresholds, EachAsAd, EachActiveAget, EachChip, Four, OneRound, K

\* The delay of the readout is found with all chips enabled (EccClient.cpp:777).
LEMMA CalibrationFlows ==
    ASSUME NEW c, NEW d, Visited(d, c)
    PROVE  Carries(CalibrateAutoReadDataDelay(Masks(c)), Slow(c), Slow(c), d)
  <1>. DEFINE m == Masks(c)
              K == Masks(c).chips
              Q == Slow(c) \cap Enabled(K)
  <1>1. Scope(d, c, Masks(c).asads, K)
    BY DEF Visited
  <1>2. Slow(c) \subseteq Sane(c) /\ K \in SUBSET Chips /\ K \in SUBSET Masks(c).chips /\ Q \subseteq Sane(c)
    BY ActiveParts DEF Slow, Lit
  <1>3. Carries(Device("ctrl"), Slow(c), Slow(c), d) /\ Carries(Device("aget"), Q, Q, d)
    <2>1. "ctrl" \in AnyDevice /\ "aget" \in AnyDevice
      BY DEF AnyDevice
    <2>. QED
      BY <1>1, <1>2, <2>1, DeviceFlows
  <1>4. Carries(Enable(K), Slow(c), Q, d)
    <2>1. Blind(Slow(c), Base \cup {"enabled"})
      BY SlowBlind DEF Base
    <2>. QED
      BY <1>1, <1>2, <2>1, EnablesChips
  <1>5. Carries(Alter("aget", {"reg1", "reg2"}), Q, Q, d)
    <2>1. Blind(Q, Base \cup {"pulsed"})
      <3>1. Blind(Slow(c), Base \cup {"pulsed"}) /\ Blind(Enabled(K), Base \cup {"pulsed"})
        BY SlowBlind, BlindSets DEF Base
      <3>. QED
        BY <3>1, BlindMeet
    <2>2. {"reg1", "reg2"} \subseteq Groups
      BY DEF Groups
    <2>3. {"reg1", "reg2"} # {"hit"}
      <3>1. "reg1" \in {"reg1", "reg2"} /\ "reg1" \notin {"hit"}
        OBVIOUS
      <3>. QED
        BY <3>1
    <2>4. PICK op \in {"write", "field"} : op = "write"
      OBVIOUS
    <2>5. PICK b \in BOOLEAN : b = FALSE
      OBVIOUS
    <2>6. PICK G \in SUBSET Groups : G = {"reg1", "reg2"}
      BY <2>2
    <2>7. Q \subseteq Slow(c) \cap Enabled(K)
      OBVIOUS
    <2>. HIDE DEF Q, K
    <2>8. Carries(Write(op, "aget", G, b, Reach), Q, Q, d)
      BY <1>1, <1>2, <2>1, <2>3, <2>4, <2>6, <2>7, ChipWrites
    <2>. QED
      BY <2>4, <2>5, <2>6, <2>8 DEF Alter
  <1>6. /\ Carries(Device("ctrl"), Q, Q, d)
        /\ Carries(TryElse(Alter("ctrl", {"autoDelay"}), Alter("ctrl", {"autoDelay"})), Q, Q, d)
        /\ Carries(Alter("ctrl", {"scrScw", "firmware"}), Q, Q, d)
        /\ Carries(Put("ctrl", {"firmware"}), Q, Q, d) /\ Carries(Put("ctrl", {"scrScw"}), Q, Q, d)
    <2>1. /\ {"autoDelay"} \subseteq Groups /\ {"scrScw", "firmware"} \subseteq Groups
          /\ {"firmware"} \subseteq Groups /\ {"scrScw"} \subseteq Groups
      BY DEF Groups
    <2>2. /\ Uses(Device("ctrl"), 0, Base, {}) /\ Uses(Alter("ctrl", {"autoDelay"}), 0, Base, {})
          /\ Uses(Alter("ctrl", {"scrScw", "firmware"}), 0, Base, {})
          /\ Uses(Put("ctrl", {"firmware"}), 0, Base, {}) /\ Uses(Put("ctrl", {"scrScw"}), 0, Base, {})
      BY <2>1, UsesWrites
    <2>3. Uses(TryElse(Alter("ctrl", {"autoDelay"}), Alter("ctrl", {"autoDelay"})), 0, Base, {})
      BY <2>2, UsesParts
    <2>5. Blind(Q, Base)
      <3>1. Blind(Slow(c), Base) /\ Blind(Enabled(K), Base)
        BY SlowBlind, BlindSets DEF Base
      <3>. QED
        BY <3>1, BlindMeet
    <2>. HIDE DEF Q
    <2>6. \A s : Uses(s, 0, Base, {}) => Carries(s, Q, Q, d)
      BY <1>1, <1>2, <2>5, UsesCarries
    <2>. QED
      BY <2>2, <2>3, <2>6
  <1>. HIDE DEF m, K, Q
  <1>7. Carries(Device("ctrl") \o Enable(K), Slow(c), Q, d)
    BY <1>3, <1>4, CarriesThen
  <1>8. Carries(Device("ctrl") \o Enable(K) \o Device("aget"), Slow(c), Q, d)
    BY <1>3, <1>7, CarriesThen
  <1>9. Carries(Device("ctrl") \o Enable(K) \o Device("aget") \o Alter("aget", {"reg1", "reg2"}), Slow(c), Q, d)
    BY <1>5, <1>8, CarriesThen
  <1>. DEFINE first == Device("ctrl") \o Enable(K) \o Device("aget") \o Alter("aget", {"reg1", "reg2"})
              tried == TryElse(Alter("ctrl", {"autoDelay"}), Alter("ctrl", {"autoDelay"}))
  <1>10. Carries(first \o Device("ctrl"), Slow(c), Q, d)
    BY <1>6, <1>9, CarriesThen
  <1>. HIDE DEF first, tried
  <1>11. Carries(first \o Device("ctrl") \o tried, Slow(c), Q, d)
    BY <1>6, <1>10, CarriesThen DEF tried
  <1>12. Carries(first \o Device("ctrl") \o tried \o Alter("ctrl", {"scrScw", "firmware"}), Slow(c), Q, d)
    BY <1>6, <1>11, CarriesThen
  <1>13. Carries(first \o Device("ctrl") \o tried \o Alter("ctrl", {"scrScw", "firmware"})
                 \o Put("ctrl", {"firmware"}), Slow(c), Q, d)
    BY <1>6, <1>12, CarriesThen
  <1>14. Carries(first \o Device("ctrl") \o tried \o Alter("ctrl", {"scrScw", "firmware"})
                 \o Put("ctrl", {"firmware"}) \o Put("ctrl", {"scrScw"}), Slow(c), Q, d)
    BY <1>6, <1>13, CarriesThen
  <1>15. Carries(CalibrateAutoReadDataDelay(m), Slow(c), Q, d)
    BY <1>14 DEF CalibrateAutoReadDataDelay, first, tried, m, K
  <1>16. Slow(c) \subseteq Slow(c) /\ Q \subseteq Slow(c)
    BY DEF Q
  <1>. QED
    BY <1>15, <1>16, Wider DEF m

\* What loadHw asks of a CoBo.
Loading(c) ==
    LoadHwDescription(c)
    \o SetCoBoInitDone(FALSE) \o SetCoBoMutantMode \o CheckHardwareVersion \o CheckFirmwareRelease
    \o PipeInit \o SetCoBoLemoModes(c) \o TriggerInit \o CircularBufferInit
    \o AsAdInitAndCal(c)
    \o SetWritingClockFrequency \o AsAdSamplingClockInit(c)
    \o SetCoBoReadingClockFrequency(Config[c].validClock) \o AsAdReadingClockInit(c)
    \o SetReadDataDelay
    \o AsAdAgetInputManagerInit(c) \o AgetInit(Masks(c)) \o AsAdAdcInit(Masks(c)) \o AsAdDacInit
    \o AsAdAlertsInit(c) \o SubscribeToAlarms \o AsAdMonitoringRead(c, 0)
    \o InitializeGlobalThresholds(c)
    \o When(Config[c].active /\ Config[c].calibrate, CalibrateAutoReadDataDelay(Masks(c)))
    \o SelectReadDataDelay(c)
    \o DaqConnect

\* States in which the boards can be selected.
LEMMA FreeStates == \A c : FreeOfBoards(Lit(c), c) /\ FreeOfBoards(Slow(c), c)
  <1>. SUFFICES ASSUME NEW c PROVE FreeOfBoards(Lit(c), c) /\ FreeOfBoards(Slow(c), c)
    OBVIOUS
  <1>1. Selecting \cap {"ready", "buffer", "power", "hitRegister", "fast"} = {}
        /\ Selecting \cap {"ready", "buffer", "power"} = {}
    BY DEF Selecting, Base
  <1>2. Slow(c) \subseteq Lit(c)
    BY DEF Slow
  <1>. QED
    BY <1>1, <1>2, BlindSets DEF FreeOfBoards

\* The first routines, up to the boards.
LEMMA LoadingStarts ==
    ASSUME NEW c, NEW d, Visited(d, c)
    PROVE  Carries(LoadHwDescription(c)
                   \o SetCoBoInitDone(FALSE) \o SetCoBoMutantMode \o CheckHardwareVersion
                   \o CheckFirmwareRelease \o PipeInit \o SetCoBoLemoModes(c) \o TriggerInit
                   \o CircularBufferInit \o AsAdInitAndCal(c), Sane(c), Lit(c), d)
  <1>. DEFINE F == Base \cup {"buffer"}
              first == LoadHwDescription(c) \o SetCoBoInitDone(FALSE)
  <1>1. Scope(d, c, Masks(c).asads, Masks(c).chips)
    BY DEF Visited
  <1>2. Unready \subseteq Sane(c) /\ Sane(c) \subseteq Sane(c)
    BY DEF Unready, Sane
  <1>3. Carries(LoadHwDescription(c), Sane(c), Sane(c), d)
    <2>1. Uses(ConnectNode(c), 0, Base, {}) /\ Uses(Access("describe", "node", 0), 0, Base, {})
      BY UsesSelections
    <2>2. Uses(LoadHwDescription(c), 0, Base, {})
      BY <2>1, UsesParts DEF LoadHwDescription
    <2>3. Blind(Sane(c), Base)
      BY BlindSets DEF Base
    <2>. QED
      BY <1>1, <1>2, <2>2, <2>3, UsesCarries
  <1>4. Carries(SetCoBoInitDone(FALSE), Sane(c), Unready, d)
    BY <1>1, Cleared
  <1>5. Carries(first, Sane(c), Unready, d)
    BY <1>3, <1>4, CarriesThen
  <1>6. /\ Uses(SetCoBoMutantMode, 0, F, {}) /\ Uses(CheckHardwareVersion, 0, F, {})
        /\ Uses(CheckFirmwareRelease, 0, F, {}) /\ Uses(PipeInit, 0, F, {})
        /\ Uses(SetCoBoLemoModes(c), 0, F, {}) /\ Uses(TriggerInit, 0, F, {})
        /\ Uses(CircularBufferInit, 0, F, {})
    BY UsesCoBoRoutines, UsesCircularBufferInit
  <1>7. \A s : Uses(s, 0, F, {}) => Carries(s, Unready, Unready, d)
    <2>1. Blind(Unready, F)
      BY BlindSets DEF Base
    <2>. HIDE DEF F
    <2>. QED
      BY <1>1, <1>2, <2>1, UsesCarries
  <1>8. /\ Carries(SetCoBoMutantMode, Unready, Unready, d) /\ Carries(CheckHardwareVersion, Unready, Unready, d)
        /\ Carries(CheckFirmwareRelease, Unready, Unready, d) /\ Carries(PipeInit, Unready, Unready, d)
        /\ Carries(SetCoBoLemoModes(c), Unready, Unready, d) /\ Carries(TriggerInit, Unready, Unready, d)
        /\ Carries(CircularBufferInit, Unready, Unready, d)
    BY <1>6, <1>7
  <1>. HIDE DEF first, F
  <1>9. Carries(first \o SetCoBoMutantMode, Sane(c), Unready, d)
    BY <1>5, <1>8, CarriesThen
  <1>10. Carries(first \o SetCoBoMutantMode \o CheckHardwareVersion, Sane(c), Unready, d)
    BY <1>8, <1>9, CarriesThen
  <1>11. Carries(first \o SetCoBoMutantMode \o CheckHardwareVersion \o CheckFirmwareRelease, Sane(c), Unready, d)
    BY <1>8, <1>10, CarriesThen
  <1>12. Carries(first \o SetCoBoMutantMode \o CheckHardwareVersion \o CheckFirmwareRelease \o PipeInit,
                 Sane(c), Unready, d)
    BY <1>8, <1>11, CarriesThen
  <1>13. Carries(first \o SetCoBoMutantMode \o CheckHardwareVersion \o CheckFirmwareRelease \o PipeInit
                 \o SetCoBoLemoModes(c), Sane(c), Unready, d)
    BY <1>8, <1>12, CarriesThen
  <1>14. Carries(first \o SetCoBoMutantMode \o CheckHardwareVersion \o CheckFirmwareRelease \o PipeInit
                 \o SetCoBoLemoModes(c) \o TriggerInit, Sane(c), Unready, d)
    BY <1>8, <1>13, CarriesThen
  <1>15. Carries(first \o SetCoBoMutantMode \o CheckHardwareVersion \o CheckFirmwareRelease \o PipeInit
                 \o SetCoBoLemoModes(c) \o TriggerInit \o CircularBufferInit, Sane(c), Unready, d)
    BY <1>8, <1>14, CarriesThen
  <1>16. Carries(AsAdInitAndCal(c), Unready, Lit(c), d)
    BY AsAdInitAndCalFlows
  <1>17. Carries(first \o SetCoBoMutantMode \o CheckHardwareVersion \o CheckFirmwareRelease \o PipeInit
                 \o SetCoBoLemoModes(c) \o TriggerInit \o CircularBufferInit \o AsAdInitAndCal(c),
                 Sane(c), Lit(c), d)
    BY <1>15, <1>16, CarriesThen
  <1>. QED
    BY <1>17 DEF first

\* The routines that keep the boards powered and the chips listening.
LEMMA LoadingParts ==
    ASSUME NEW c, NEW d, Visited(d, c)
    PROVE  /\ Carries(SetWritingClockFrequency, Lit(c), Lit(c), d)
           /\ Carries(AsAdSamplingClockInit(c), Lit(c), Lit(c), d)
           /\ \A valid : Carries(SetCoBoReadingClockFrequency(valid), Lit(c), Lit(c), d)
           /\ Carries(AsAdReadingClockInit(c), Lit(c), Lit(c), d)
           /\ Carries(SetReadDataDelay, Lit(c), Lit(c), d)
           /\ Carries(AsAdAgetInputManagerInit(c), Lit(c), Lit(c), d)
           /\ Carries(AsAdAdcInit(Masks(c)), Slow(c), Slow(c) \cap Selected(Masks(c).asads), d)
           /\ Carries(AsAdDacInit, Slow(c) \cap Selected(Masks(c).asads), Slow(c), d)
           /\ Carries(AsAdAlertsInit(c), Slow(c), Slow(c), d)
           /\ Carries(SubscribeToAlarms, Slow(c), Slow(c), d)
           /\ Carries(AsAdMonitoringRead(c, 0), Slow(c), Slow(c), d)
           /\ Carries(SelectReadDataDelay(c), Slow(c), Slow(c), d)
           /\ Carries(DaqConnect, Slow(c), Slow(c), d)
  <1>1. Scope(d, c, Masks(c).asads, Masks(c).chips)
    BY DEF Visited
  <1>2. FreeOfBoards(Lit(c), c) /\ FreeOfBoards(Slow(c), c)
    BY FreeStates
  <1>3. Lit(c) \subseteq Sane(c) /\ Slow(c) \subseteq Sane(c)
    BY DEF Slow, Lit
  <1>4. \A s : Uses(s, 0, Base, {}) => Carries(s, Lit(c), Lit(c), d) /\ Carries(s, Slow(c), Slow(c), d)
    <2>1. Blind(Lit(c), Base) /\ Blind(Slow(c), Base)
      BY BlindSets, SlowBlind DEF Base
    <2>. QED
      BY <1>1, <1>3, <2>1, UsesCarries
  <1>5. /\ Uses(SetWritingClockFrequency, 0, Base, {}) /\ Uses(SetReadDataDelay, 0, Base, {})
        /\ \A valid : Uses(SetCoBoReadingClockFrequency(valid), 0, Base, {})
        /\ Uses(SubscribeToAlarms, 0, Base, {}) /\ Uses(DaqConnect, 0, Base, {})
    <2>1. "ckw" \in Groups /\ "readDataDelay" \in Groups
      BY DEF Groups
    <2>2. Uses(Setting("ckw"), 0, Base, {}) /\ Uses(SetCtrl("readDataDelay"), 0, Base, {})
          /\ Uses(Access("router", "node", 0), 0, Base, {})
      BY <2>1, UsesWrites, UsesCoBoRoutines, UsesSelections
    <2>3. Uses(SubscribeToAlarms, 0, Base, {})
          /\ \A valid : Uses(SetCoBoReadingClockFrequency(valid), 0, Base, {})
      BY UsesCoBoRoutines
    <2>. QED
      BY <2>2, <2>3 DEF SetWritingClockFrequency, SetReadDataDelay, DaqConnect
  <1>6. /\ Carries(SetWritingClockFrequency, Lit(c), Lit(c), d) /\ Carries(SetReadDataDelay, Lit(c), Lit(c), d)
        /\ \A valid : Carries(SetCoBoReadingClockFrequency(valid), Lit(c), Lit(c), d)
        /\ Carries(SubscribeToAlarms, Slow(c), Slow(c), d) /\ Carries(DaqConnect, Slow(c), Slow(c), d)
    BY <1>4, <1>5
  <1>7. \A S : Lit(c) \cap S \subseteq Lit(c) /\ Slow(c) \cap S \subseteq Slow(c)
    OBVIOUS
  <1>8. Lit(c) \subseteq Lit(c) /\ Slow(c) \subseteq Slow(c)
    OBVIOUS
  <1>9. /\ Carries(AsAdSamplingClockInit(c), Lit(c), Lit(c), d)
        /\ Carries(AsAdAgetInputManagerInit(c), Lit(c), Lit(c), d)
        /\ Carries(AsAdAlertsInit(c), Slow(c), Slow(c), d)
    <2>1. Carries(AsAdSamplingClockInit(c), Lit(c), Lit(c) \cap Selected(Masks(c).asads), d)
      BY <1>2, AsAdSamplingClockInitFlows
    <2>2. Carries(AsAdAgetInputManagerInit(c), Lit(c), Lit(c) \cap Selected(Masks(c).asads), d)
      BY <1>2, AsAdAgetInputManagerInitFlows
    <2>3. Carries(AsAdAlertsInit(c), Slow(c), Slow(c) \cap Selected(Masks(c).asads), d)
      BY <1>2, AsAdAlertsInitFlows
    <2>. QED
      BY <1>7, <1>8, <2>1, <2>2, <2>3, Wider
  <1>10. /\ Carries(AsAdReadingClockInit(c), Lit(c), Lit(c), d)
         /\ Carries(AsAdMonitoringRead(c, 0), Slow(c), Slow(c), d)
    BY <1>2, AsAdReadingClockInitFlows, AsAdMonitoringReadFlows
  <1>11. /\ Carries(AsAdAdcInit(Masks(c)), Slow(c), Slow(c) \cap Selected(Masks(c).asads), d)
         /\ Carries(AsAdDacInit, Slow(c) \cap Selected(Masks(c).asads), Slow(c) \cap Selected(Masks(c).asads), d)
    <2>1. PICK P : P = Slow(c)
      OBVIOUS
    <2>2. FreeOfBoards(P, c)
      BY <1>2, <2>1
    <2>3. /\ Carries(AsAdAdcInit(Masks(c)), P, P \cap Selected(Masks(c).asads), d)
          /\ Carries(AsAdDacInit, P \cap Selected(Masks(c).asads), P \cap Selected(Masks(c).asads), d)
      BY <2>2, AllBoardsFlow
    <2>. QED
      BY <2>1, <2>3
  <1>12. Carries(AsAdDacInit, Slow(c) \cap Selected(Masks(c).asads), Slow(c), d)
    <2>1. PICK Q : Q = Slow(c) \cap Selected(Masks(c).asads)
      OBVIOUS
    <2>2. Q \subseteq Q /\ Q \subseteq Slow(c)
      BY <2>1
    <2>. QED
      BY <1>11, <2>1, <2>2, Wider
  <1>13. Carries(SelectReadDataDelay(c), Slow(c), Slow(c), d)
    <2>. DEFINE F == Base \cup {"asad"}
    <2>1. Uses(SelectReadDataDelay(c), 0, F, {})
      BY UsesLoops
    <2>2. Blind(Slow(c), F)
      BY SlowBlind DEF Base
    <2>. QED
      BY <1>1, <1>3, <2>1, <2>2, UsesCarries
  <1>. QED
    BY <1>6, <1>9, <1>10, <1>11, <1>12, <1>13

\* loadHw leaves the active boards powered and the chips listening.
LEMMA LoadingFlows ==
    ASSUME NEW c, NEW d, Visited(d, c) PROVE Carries(Loading(c), Sane(c), Slow(c), d)
  <1>. DEFINE s0 == LoadHwDescription(c)
                    \o SetCoBoInitDone(FALSE) \o SetCoBoMutantMode \o CheckHardwareVersion
                    \o CheckFirmwareRelease \o PipeInit \o SetCoBoLemoModes(c) \o TriggerInit
                    \o CircularBufferInit \o AsAdInitAndCal(c)
              s1 == s0 \o SetWritingClockFrequency \o AsAdSamplingClockInit(c)
                    \o SetCoBoReadingClockFrequency(Config[c].validClock) \o AsAdReadingClockInit(c)
                    \o SetReadDataDelay \o AsAdAgetInputManagerInit(c)
              s2 == s1 \o AgetInit(Masks(c)) \o AsAdAdcInit(Masks(c)) \o AsAdDacInit
                    \o AsAdAlertsInit(c) \o SubscribeToAlarms \o AsAdMonitoringRead(c, 0)
              calibrate == When(Config[c].active /\ Config[c].calibrate, CalibrateAutoReadDataDelay(Masks(c)))
              P == Sane(c)
              L == Lit(c)
              S == Slow(c)
              Q == Slow(c) \cap Selected(Masks(c).asads)
  <1>1. Carries(s0, P, L, d)
    BY LoadingStarts
  <1>2. /\ Carries(SetWritingClockFrequency, L, L, d)
        /\ Carries(AsAdSamplingClockInit(c), L, L, d)
        /\ Carries(SetCoBoReadingClockFrequency(Config[c].validClock), L, L, d)
        /\ Carries(AsAdReadingClockInit(c), L, L, d)
        /\ Carries(SetReadDataDelay, L, L, d)
        /\ Carries(AsAdAgetInputManagerInit(c), L, L, d)
        /\ Carries(AsAdAdcInit(Masks(c)), S, Q, d)
        /\ Carries(AsAdDacInit, Q, S, d)
        /\ Carries(AsAdAlertsInit(c), S, S, d)
        /\ Carries(SubscribeToAlarms, S, S, d)
        /\ Carries(AsAdMonitoringRead(c, 0), S, S, d)
        /\ Carries(SelectReadDataDelay(c), S, S, d)
        /\ Carries(DaqConnect, S, S, d)
    BY LoadingParts
  <1>3. Carries(AgetInit(Masks(c)), L, S, d) /\ Carries(InitializeGlobalThresholds(c), S, S, d)
    BY AgetInitFlows, InitializeGlobalThresholdsFlows
  <1>4. Carries(calibrate, S, S, d)
    <2>1. S \subseteq d.states
      BY DEF Visited, Scope, Slow, Lit
    <2>2. Carries(CalibrateAutoReadDataDelay(Masks(c)), S, S, d)
      BY CalibrationFlows
    <2>. QED
      BY <2>1, <2>2, Perhaps
  <1>5. Loading(c) = s2 \o InitializeGlobalThresholds(c) \o calibrate \o SelectReadDataDelay(c) \o DaqConnect
    BY DEF Loading
  <1>. HIDE DEF s0, calibrate, P, L, S, Q
  <1>6. Carries(s0 \o SetWritingClockFrequency, P, L, d)
    BY <1>1, <1>2, CarriesThen
  <1>7. Carries(s0 \o SetWritingClockFrequency \o AsAdSamplingClockInit(c), P, L, d)
    BY <1>2, <1>6, CarriesThen
  <1>8. Carries(s0 \o SetWritingClockFrequency \o AsAdSamplingClockInit(c)
                \o SetCoBoReadingClockFrequency(Config[c].validClock), P, L, d)
    BY <1>2, <1>7, CarriesThen
  <1>9. Carries(s0 \o SetWritingClockFrequency \o AsAdSamplingClockInit(c)
                \o SetCoBoReadingClockFrequency(Config[c].validClock) \o AsAdReadingClockInit(c), P, L, d)
    BY <1>2, <1>8, CarriesThen
  <1>10. Carries(s0 \o SetWritingClockFrequency \o AsAdSamplingClockInit(c)
                 \o SetCoBoReadingClockFrequency(Config[c].validClock) \o AsAdReadingClockInit(c)
                 \o SetReadDataDelay, P, L, d)
    BY <1>2, <1>9, CarriesThen
  <1>11. Carries(s1, P, L, d)
    BY <1>2, <1>10, CarriesThen
  <1>. HIDE DEF s1
  <1>12. Carries(s1 \o AgetInit(Masks(c)), P, S, d)
    BY <1>3, <1>11, CarriesThen
  <1>13. Carries(s1 \o AgetInit(Masks(c)) \o AsAdAdcInit(Masks(c)), P, Q, d)
    BY <1>2, <1>12, CarriesThen
  <1>14. Carries(s1 \o AgetInit(Masks(c)) \o AsAdAdcInit(Masks(c)) \o AsAdDacInit, P, S, d)
    BY <1>2, <1>13, CarriesThen
  <1>15. Carries(s1 \o AgetInit(Masks(c)) \o AsAdAdcInit(Masks(c)) \o AsAdDacInit \o AsAdAlertsInit(c), P, S, d)
    BY <1>2, <1>14, CarriesThen
  <1>16. Carries(s1 \o AgetInit(Masks(c)) \o AsAdAdcInit(Masks(c)) \o AsAdDacInit \o AsAdAlertsInit(c)
                 \o SubscribeToAlarms, P, S, d)
    BY <1>2, <1>15, CarriesThen
  <1>17. Carries(s2, P, S, d)
    BY <1>2, <1>16, CarriesThen
  <1>. HIDE DEF s2
  <1>18. Carries(s2 \o InitializeGlobalThresholds(c), P, S, d)
    BY <1>3, <1>17, CarriesThen
  <1>19. Carries(s2 \o InitializeGlobalThresholds(c) \o calibrate, P, S, d)
    BY <1>4, <1>18, CarriesThen
  <1>20. Carries(s2 \o InitializeGlobalThresholds(c) \o calibrate \o SelectReadDataDelay(c), P, S, d)
    BY <1>2, <1>19, CarriesThen
  <1>21. Carries(s2 \o InitializeGlobalThresholds(c) \o calibrate \o SelectReadDataDelay(c) \o DaqConnect, P, S, d)
    BY <1>2, <1>20, CarriesThen
  <1>. QED
    BY <1>5, <1>21 DEF P, S

\* The reading back of a register: where it is wrong, it goes on z accesses
\* behind the next one, at most.
LEMMA UsesReadBack ==
    ASSUME NEW k \in Chips, NEW reg, NEW wrong, NEW z \in Nat, wrong = Raise \/ wrong \in 1 .. (z + 1),
           NEW F, Base \subseteq F, "chip" \in F, "pulsed" \in F, NEW W
    PROVE  Uses(ReadBack(k, reg, wrong), z, F, W)
  <1>. DEFINE arg == [reg |-> reg, wrong |-> wrong]
              s == Access("check", "aget", arg)
  <1>1. arg.wrong = wrong
    OBVIOUS
  <1>. HIDE DEF arg
  <1>2. "aget" \in Devices /\ Suits("check", arg)
    BY DEF Devices, AnyDevice, Suits
  <1>3. Fit(s[1]) /\ Len(s) = 1 /\ s[1].op = "check" /\ s[1].dev = "aget" /\ s[1].arg = arg /\ s[1].rest = Raise
    BY <1>2, AccessFits
  <1>4. IsSeq(s)
    BY DEF Access, IsSeq
  <1>. HIDE DEF s
  <1>5. Uses(s, z, F, W)
    <2>1. \A n : Reaches(s[1], n) => n \in 1 .. (Len(s) + 1 + z - 1)
      <3>1. \A n : Reaches(s[1], n) => n = 1 \/ (wrong # Raise /\ n = wrong)
        BY <1>1, <1>3 DEF Reaches, Leap
      <3>2. Len(s) + 1 + z - 1 = z + 1
        BY <1>3
      <3>. QED
        BY <3>1, <3>2
    <2>2. \A x : Alters(s[1], x) => x \in F
      BY <1>3 DEF Alters
    <2>3. Spends(s[1], F, W)
      BY <1>3, <2>2 DEF Spends
    <2>4. \A i \in 1 .. Len(s) : i = 1
      BY <1>3
    <2>. QED
      BY <1>3, <1>4, <2>1, <2>3, <2>4 DEF Uses, Block
  <1>6. Uses(AgetRegRSC(k), 0, F, W)
    BY UsesSelectingRoutines
  <1>7. 0 <= Len(s) + z
    BY <1>3
  <1>8. Uses(AgetRegRSC(k) \o s, z, F, W)
    BY <1>5, <1>6, <1>7, UsesThen
  <1>. QED
    BY <1>8 DEF ReadBack, s, arg

\* One register of one chip, with its check.
LEMMA SetAgetRegFlows ==
    ASSUME NEW c, NEW B, NEW k \in Masks(c).chips, NEW d, Scope(d, c, B, {k}), NEW reg \in Groups,
           reg # "hit"
    PROVE  Carries(SetAgetReg(c, k, reg), Slow(c), Slow(c), d)
  <1>. DEFINE F == Base \cup {"chip", "pulsed"}
              check == ReadBack(k, reg, Raise)
              checked == When(k \in Config[c].scCheck,
                              IF reg \in Config[c].zeros THEN Try(check) ELSE check)
  <1>1. k \in Chips /\ Slow(c) \subseteq Sane(c) /\ Slow(c) \subseteq Slow(c)
    BY ActiveParts DEF Slow, Lit
  <1>2. Blind(Slow(c), F) /\ Blind(Slow(c), Base \cup {"enabled", "pulsed"})
    BY SlowBlind DEF Base
  <1>3. Carries(AgetRegWSC(k, reg, TRUE), Slow(c), Slow(c), d)
    <2>1. PICK b \in BOOLEAN : b = TRUE
      OBVIOUS
    <2>2. Carries(AgetRegWSC(k, reg, b), Slow(c), Slow(c), d)
      BY <1>1, <1>2, RegisterFlows
    <2>. QED
      BY <2>1, <2>2
  <1>4. Base \subseteq F /\ "chip" \in F /\ "pulsed" \in F
    OBVIOUS
  <1>. HIDE DEF F
  <1>5. Uses(check, 0, F, {})
    <2>1. PICK w : w = Raise
      OBVIOUS
    <2>2. 0 \in Nat /\ (w = Raise \/ w \in 1 .. (0 + 1))
      BY <2>1
    <2>3. Uses(ReadBack(k, reg, w), 0, F, {})
      BY <1>1, <1>4, <2>2, UsesReadBack
    <2>. QED
      BY <2>1, <2>3
  <1>. HIDE DEF check
  <1>6. Uses(Try(check), 0, F, {})
    BY <1>5, UsesParts
  <1>7. Uses(checked, 0, F, {})
    <2>1. Uses(IF reg \in Config[c].zeros THEN Try(check) ELSE check, 0, F, {})
      BY <1>5, <1>6
    <2>. QED
      BY <2>1, UsesParts
  <1>. HIDE DEF checked
  <1>8. Carries(checked, Slow(c), Slow(c), d)
    BY <1>1, <1>2, <1>7, UsesCarries
  <1>. QED
    BY <1>3, <1>8, CarriesThen DEF SetAgetReg, checked, check

\* The depth that goes with reg12.
LEMMA UsesDepth ==
    ASSUME NEW F, Base \subseteq F, NEW W
    PROVE  /\ Uses(Depth, 0, F, W) /\ Len(Depth) = 2
           /\ Uses(Depth \o Throw, 0, F, W) /\ Len(Depth \o Throw) = 3
  <1>1. {"readDepth"} \subseteq Groups
    BY DEF Groups
  <1>2. Uses(Device("ctrl"), 0, F, W) /\ Uses(Alter("ctrl", {"readDepth"}), 0, F, W) /\ Uses(Throw, 0, F, W)
    BY <1>1, UsesWrites
  <1>3. Uses(Depth, 0, F, W)
    BY <1>2, UsesParts DEF Depth
  <1>4. Len(Depth) = 2
    BY DEF Depth, Device, Alter, Write, Access
  <1>5. IsSeq(Depth) /\ IsSeq(Throw) /\ Len(Throw) = 1
    BY <1>2, <1>3 DEF Uses, Block, Throw, Access
  <1>6. Len(Depth \o Throw) = Len(Depth) + 1
    BY <1>5, OneMore
  <1>7. Uses(Depth \o Throw, 0, F, W)
    BY <1>2, <1>3, UsesParts
  <1>. QED
    BY <1>3, <1>4, <1>5, <1>6, <1>7

\* Register 12 is read back from its chip, the depth is written whether it reads
\* what was written or not, and only then a difference is an error.
LEMMA UsesDepthCheck ==
    ASSUME NEW k \in Chips, NEW reg, NEW y \in {0, 3}, NEW F, Base \subseteq F, "chip" \in F,
           "pulsed" \in F, NEW W
    PROVE  Uses(OnError(ReadBack(k, reg, 4), y) \o Depth \o Jump(3) \o (Depth \o Throw), 0, F, W)
  <1>. DEFINE check == OnError(ReadBack(k, reg, 4), y)
              wrong == Depth \o Throw
  <1>1. Uses(Depth, 0, F, W) /\ Len(Depth) = 2 /\ Uses(wrong, 0, F, W) /\ Len(wrong) = 3
    BY UsesDepth
  <1>2. Uses(check, 3, F, W)
    <2>1. 3 \in Nat /\ 4 \in 1 .. (3 + 1) /\ y \in Nat /\ y <= 3 /\ 3 <= 3
      OBVIOUS
    <2>2. PICK z \in Nat : z = 3
      OBVIOUS
    <2>3. PICK n : n = 4
      OBVIOUS
    <2>4. n = Raise \/ n \in 1 .. (z + 1)
      BY <2>1, <2>2, <2>3
    <2>5. Uses(ReadBack(k, reg, n), z, F, W)
      BY <2>4, UsesReadBack
    <2>6. y \in Nat /\ y <= z /\ z <= z
      BY <2>1, <2>2
    <2>7. Uses(OnError(ReadBack(k, reg, n), y), z, F, W)
      BY <2>5, <2>6, UsesCaught
    <2>. QED
      BY <2>2, <2>3, <2>7
  <1>. HIDE DEF check, wrong
  <1>3. Uses(Depth, 1, F, W)
    <2>1. F \subseteq F /\ W \subseteq W /\ 1 \in Nat /\ 0 <= 1
      OBVIOUS
    <2>. QED
      BY <1>1, <2>1, UsesMore
  <1>4. Uses(check \o Depth, 1, F, W)
    <2>1. 3 <= Len(Depth) + 1
      BY <1>1
    <2>. QED
      BY <1>2, <1>3, <2>1, UsesThen
  <1>5. Uses(Jump(3), 3, F, W) /\ Len(Jump(3)) = 1
    <2>1. PICK n \in Nat : n = 3
      OBVIOUS
    <2>. QED
      BY <2>1, UsesJump
  <1>6. Uses(check \o Depth \o Jump(3), 3, F, W)
    <2>1. 1 <= Len(Jump(3)) + 3
      BY <1>5
    <2>. QED
      BY <1>4, <1>5, <2>1, UsesThen
  <1>7. Uses(check \o Depth \o Jump(3) \o wrong, 0, F, W)
    <2>1. 3 <= Len(wrong) + 0
      BY <1>1
    <2>. QED
      BY <1>1, <1>6, <2>1, UsesThen
  <1>. QED
    BY <1>7 DEF check, wrong

\* Register 12 of a chip is written to that chip and read back from it
\* (GetController.cpp:2544).
LEMMA SetAgetReg12Flows ==
    ASSUME NEW c, NEW B, NEW k \in Masks(c).chips, NEW d, Scope(d, c, B, {k})
    PROVE  Carries(SetAgetReg12(c, k), Slow(c), Slow(c), d)
  <1>. DEFINE F == Base \cup {"chip", "pulsed"}
  <1>1. k \in Chips /\ Slow(c) \subseteq Sane(c) /\ Slow(c) \subseteq Slow(c)
    BY ActiveParts DEF Slow, Lit
  <1>2. Blind(Slow(c), F) /\ Blind(Slow(c), Base \cup {"enabled", "pulsed"})
    BY SlowBlind DEF Base
  <1>3. Carries(AgetRegWSC(k, "reg12", TRUE), Slow(c), Slow(c), d)
    <2>1. PICK b \in BOOLEAN : b = TRUE
      OBVIOUS
    <2>2. PICK reg : reg = "reg12"
      OBVIOUS
    <2>3. reg \in Groups /\ reg # "hit"
      BY <2>2 DEF Groups
    <2>4. Carries(AgetRegWSC(k, reg, b), Slow(c), Slow(c), d)
      BY <1>1, <1>2, <2>3, RegisterFlows
    <2>. QED
      BY <2>1, <2>2, <2>4
  <1>4. Base \subseteq F /\ "chip" \in F /\ "pulsed" \in F
    OBVIOUS
  <1>. HIDE DEF F
  <1>5. ASSUME NEW s, Uses(s, 0, F, {}) PROVE Carries(AgetRegWSC(k, "reg12", TRUE) \o s, Slow(c), Slow(c), d)
    <2>1. Carries(s, Slow(c), Slow(c), d)
      BY <1>1, <1>2, <1>5, UsesCarries
    <2>. QED
      BY <1>3, <2>1, CarriesThen
  <1>6. Len(Depth) = 2 /\ Len(Depth \o Throw) = 3 /\ Uses(Depth, 0, F, {})
    BY <1>4, UsesDepth
  <1>7. CASE k \notin Config[c].scCheck
    <2>1. SetAgetReg12(c, k) = AgetRegWSC(k, "reg12", TRUE) \o Depth
      BY <1>7 DEF SetAgetReg12, Depth
    <2>. QED
      BY <1>5, <1>6, <2>1
  <1>8. CASE k \in Config[c].scCheck
    <2>. DEFINE y == IF "reg12" \in Config[c].zeros THEN 0 ELSE 3
                t == OnError(ReadBack(k, "reg12", 4), y) \o Depth \o Jump(3) \o (Depth \o Throw)
    <2>1. 2 + 2 = 4 /\ 2 + 1 = 3
      OBVIOUS
    <2>2. SetAgetReg12(c, k)
              = AgetRegWSC(k, "reg12", TRUE)
                \o (OnError(ReadBack(k, "reg12", 4), y) \o Depth \o Jump(3) \o (Depth \o Throw))
      BY <1>6, <1>8, <2>1 DEF SetAgetReg12, Depth, Try
    <2>3. Uses(t, 0, F, {})
      BY <1>1, <1>4, UsesDepthCheck
    <2>. HIDE DEF t
    <2>. QED
      BY <1>5, <2>2, <2>3 DEF t
  <1>. QED
    BY <1>7, <1>8

\* One chip.
ReadAt(k) == {h \in CoBoStates : h.chip = k}

\* The chip that a read is from changes with its selection alone.
LEMMA ReadAtBlind == ASSUME NEW F, "chip" \notin F PROVE \A k : Blind(ReadAt(k), F)
  <1>1. ASSUME NEW k, NEW h \in ReadAt(k) PROVE Pulsed(h) \in ReadAt(k)
    BY PulsedSame DEF ReadAt
  <1>2. ASSUME NEW k, NEW h \in ReadAt(k), NEW g \in CoBoStates, Same(g, h, F) PROVE g \in ReadAt(k)
    BY <1>2 DEF ReadAt, Same
  <1>3. \A k : ReadAt(k) \subseteq CoBoStates
    BY DEF ReadAt
  <1>. QED
    BY <1>1, <1>2, <1>3 DEF Blind

\* Selecting a chip to read from.
LEMMA ReadsAt ==
    ASSUME NEW c, NEW B, NEW K, NEW d, Scope(d, c, B, K), NEW P, P \subseteq Sane(c),
           Blind(P, Base \cup {"chip"}), NEW k \in Chips
    PROVE  Carries(SelectAgetForRead(k), P, P \cap ReadAt(k), d)
  <1>1. "ctrl" \in Devices /\ Suits("chip", k) /\ "ctrl" \in AnyDevice
    BY DEF Devices, AnyDevice, Suits
  <1>2. \A h \in P : Turn(h, "chip", "ctrl", k) \in P
    <2>1. \A x : Alters(Access("chip", "ctrl", k)[1], x) => x \in Base \cup {"chip"}
      BY DEF Alters, Access
    <2>. QED
      BY <1>1, <2>1, TurnKeeps
  <1>3. \A h \in P : Turn(h, "chip", "ctrl", k) \in P \cap ReadAt(k)
    <2>1. P \subseteq CoBoStates
      BY DEF Blind
    <2>2. ASSUME NEW h \in P PROVE Turn(h, "chip", "ctrl", k).chip = k
      BY <2>1, ChipTurns
    <2>. QED
      BY <1>2, <2>1, <2>2 DEF ReadAt
  <1>4. Carries(Access("chip", "ctrl", k), P, P \cap ReadAt(k), d)
    BY <1>1, <1>3, OneTurn
  <1>5. Carries(Device("ctrl"), P, P, d)
    BY <1>1, DeviceFlows
  <1>. QED
    BY <1>4, <1>5, CarriesThen DEF SelectAgetForRead

\* The configuration of a chip starts with its selection for writes and reads.
LEMMA ConfigureAgetStarts ==
    ASSUME NEW c, NEW B, NEW k \in Masks(c).chips, NEW d, Scope(d, c, B, {k})
    PROVE  Carries(SetAgetSlowControlMask({k}) \o SelectAgetForRead(k) \o EnableFPNRead,
                   Slow(c), Slow(c), d)
  <1>. DEFINE R == Slow(c) \cap Enabled({k})
              Q == R \cap ReadAt(k)
              F == Base \cup {"pulsed"}
  <1>1. {k} \in SUBSET Chips /\ k \in Chips /\ {k} \in SUBSET Masks(c).chips
    BY ActiveParts
  <1>2. Slow(c) \subseteq Sane(c) /\ R \subseteq Sane(c) /\ Q \subseteq Sane(c)
    BY DEF Slow, Lit
  <1>3. Blind(Slow(c), Base \cup {"enabled"}) /\ Blind(R, Base \cup {"chip"}) /\ Blind(Q, F) /\ Blind(Q, Base)
    <2>1. Blind(Slow(c), Base \cup {"enabled"}) /\ Blind(Slow(c), Base \cup {"chip"}) /\ Blind(Slow(c), F)
      BY SlowBlind DEF Base
    <2>2. Blind(Enabled({k}), Base \cup {"chip"}) /\ Blind(Enabled({k}), F)
      BY BlindSets DEF Base
    <2>3. Blind(ReadAt(k), F)
      BY ReadAtBlind DEF Base
    <2>4. Blind(R, Base \cup {"chip"}) /\ Blind(R, F)
      BY <2>1, <2>2, BlindMeet
    <2>. HIDE DEF R
    <2>5. Blind(Q, F)
      BY <2>3, <2>4, BlindMeet
    <2>. HIDE DEF Q
    <2>. QED
      BY <2>1, <2>4, <2>5, BlindLess
  <1>4. "ctrl" \in AnyDevice /\ "aget" \in AnyDevice
    BY DEF AnyDevice
  <1>5. Carries(Device("ctrl"), Slow(c), Slow(c), d) /\ Carries(Device("ctrl"), Q, Q, d)
        /\ Carries(Device("aget"), Q, Q, d)
    BY <1>2, <1>4, DeviceFlows
  <1>6. Carries(Enable({k}), Slow(c), R, d)
    BY <1>1, <1>2, <1>3, EnablesChips
  <1>7. Carries(SelectAgetForRead(k), R, Q, d)
    <2>. HIDE DEF R
    <2>. QED
      BY <1>1, <1>2, <1>3, ReadsAt
  <1>8. Carries(Put("ctrl", {"FPN"}), Q, Q, d)
    <2>1. {"FPN"} \subseteq Groups
      BY DEF Groups
    <2>2. Uses(Put("ctrl", {"FPN"}), 0, Base, {})
      BY <2>1, UsesWrites
    <2>. HIDE DEF Q
    <2>. QED
      BY <1>2, <1>3, <2>2, UsesCarries
  <1>9. Carries(AlterField("aget", "reg1"), Q, Q, d)
    <2>1. {"reg1"} \in SUBSET Groups
      BY DEF Groups
    <2>2. {"reg1"} # {"hit"}
      OBVIOUS
    <2>3. PICK b \in BOOLEAN : b = FALSE
      OBVIOUS
    <2>4. PICK op \in {"write", "field"} : op = "field"
      OBVIOUS
    <2>5. Q \subseteq Slow(c) \cap Enabled({k})
      OBVIOUS
    <2>6. \A h \in Q : h.chip \in {k}
      BY DEF ReadAt
    <2>. HIDE DEF Q
    <2>8. Carries(Write(op, "aget", {"reg1"}, b, Reach), Q, Q, d)
      BY <1>1, <1>3, <2>1, <2>2, <2>5, <2>6, ChipWrites
    <2>. QED
      BY <2>3, <2>4, <2>8 DEF AlterField
  <1>10. Slow(c) \subseteq Slow(c) /\ Q \subseteq Slow(c)
    OBVIOUS
  <1>. HIDE DEF R, Q
  <1>11. Carries(SetAgetSlowControlMask({k}), Slow(c), R, d)
    BY <1>5, <1>6, CarriesThen DEF SetAgetSlowControlMask
  <1>12. Carries(SetAgetSlowControlMask({k}) \o SelectAgetForRead(k), Slow(c), Q, d)
    BY <1>7, <1>11, CarriesThen
  <1>13. Carries(Device("ctrl") \o Put("ctrl", {"FPN"}), Q, Q, d)
    BY <1>5, <1>8, CarriesThen
  <1>14. Carries(Device("ctrl") \o Put("ctrl", {"FPN"}) \o Device("aget"), Q, Q, d)
    BY <1>5, <1>13, CarriesThen
  <1>15. Carries(EnableFPNRead, Q, Q, d)
    BY <1>9, <1>14, CarriesThen DEF EnableFPNRead
  <1>16. Carries(SetAgetSlowControlMask({k}) \o SelectAgetForRead(k) \o EnableFPNRead, Slow(c), Q, d)
    BY <1>12, <1>15, CarriesThen
  <1>. QED
    BY <1>10, <1>16, Wider

\* The configuration of a chip writes to it alone (GetController.cpp:320).
LEMMA ConfigureAgetFlows ==
    ASSUME NEW c, NEW B, NEW k \in Masks(c).chips, NEW d, Scope(d, c, B, {k})
    PROVE  Carries(ConfigureAget(c, k), Slow(c), Slow(c), d)
  <1>1. k \in Chips /\ Slow(c) \subseteq Sane(c) /\ Slow(c) \subseteq d.states
    BY ActiveParts DEF Slow, Lit, Scope
  <1>2. Carries(SetAgetRegisters(c, k), Slow(c), Slow(c), d)
    <2>1. DOMAIN AgetRegisters = 1 .. Len(AgetRegisters) /\ Len(AgetRegisters) \in Nat
      BY RegistersAssumption, LenProperties
    <2>. DEFINE seqs == [n \in DOMAIN AgetRegisters |-> SetAgetReg(c, k, AgetRegisters[n])]
    <2>2. ASSUME NEW n \in 1 .. Len(AgetRegisters) PROVE Carries(seqs[n], Slow(c), Slow(c), d)
      <3>1. AgetRegisters[n] \in Groups /\ AgetRegisters[n] # "hit"
        BY <2>1, RegistersAssumption DEF Groups
      <3>2. seqs[n] = SetAgetReg(c, k, AgetRegisters[n])
        BY <2>1
      <3>. QED
        BY <3>1, <3>2, SetAgetRegFlows
    <2>3. DOMAIN seqs = 1 .. Len(AgetRegisters) /\ seqs = [n \in 1 .. Len(AgetRegisters) |-> seqs[n]]
      BY <2>1
    <2>. HIDE DEF seqs
    <2>4. Carries(FlattenSeq(seqs), Slow(c), Slow(c), d)
      BY <1>1, <2>1, <2>2, <2>3, CarriesAll
    <2>5. Carries(SetAgetReg12(c, k), Slow(c), Slow(c), d)
      BY SetAgetReg12Flows
    <2>. QED
      BY <2>4, <2>5, CarriesThen DEF SetAgetRegisters, seqs
  <1>3. \A s : Uses(s, 0, Base, {}) => Carries(s, Slow(c), Slow(c), d)
    <2>1. Blind(Slow(c), Base)
      BY SlowBlind DEF Base
    <2>. QED
      BY <1>1, <2>1, UsesCarries
  <1>4. /\ Carries(SetReadMask(k, "readIfHit"), Slow(c), Slow(c), d)
        /\ Carries(SetReadMask(k, "readAlways"), Slow(c), Slow(c), d)
        /\ Carries(SetCoBoZeroSuppressionThreshold(k), Slow(c), Slow(c), d)
    <2>1. "readIfHit" \in Groups /\ "readAlways" \in Groups
      BY DEF Groups
    <2>2. /\ Uses(SetReadMask(k, "readIfHit"), 0, Base, {})
          /\ Uses(SetReadMask(k, "readAlways"), 0, Base, {})
          /\ Uses(SetCoBoZeroSuppressionThreshold(k), 0, Base, {})
      BY <1>1, <2>1, UsesSelectingRoutines
    <2>. QED
      BY <1>3, <2>2
  <1>. DEFINE first == SetAgetSlowControlMask({k}) \o SelectAgetForRead(k) \o EnableFPNRead
  <1>5. Carries(first, Slow(c), Slow(c), d)
    BY ConfigureAgetStarts
  <1>. HIDE DEF first
  <1>6. Carries(first \o SetAgetRegisters(c, k), Slow(c), Slow(c), d)
    BY <1>2, <1>5, CarriesThen
  <1>7. Carries(first \o SetAgetRegisters(c, k) \o SetReadMask(k, "readIfHit"), Slow(c), Slow(c), d)
    BY <1>4, <1>6, CarriesThen
  <1>8. Carries(first \o SetAgetRegisters(c, k) \o SetReadMask(k, "readIfHit")
                \o SetReadMask(k, "readAlways"), Slow(c), Slow(c), d)
    BY <1>4, <1>7, CarriesThen
  <1>9. Carries(first \o SetAgetRegisters(c, k) \o SetReadMask(k, "readIfHit")
                \o SetReadMask(k, "readAlways") \o SetCoBoZeroSuppressionThreshold(k), Slow(c), Slow(c), d)
    BY <1>4, <1>8, CarriesThen
  <1>. QED
    BY <1>9 DEF ConfigureAget, first

\* One board: its chips, its pulser, its sensors and its inspection lines.
LEMMA ConfigureAsAdFlows ==
    ASSUME NEW c, NEW d, Visited(d, c), NEW i \in Masks(c).asads
    PROVE  Carries(ConfigureAsAd(c, i), Slow(c), Slow(c), ForBoard(d, i))
  <1>. DEFINE e == ForBoard(d, i)
              S == Slow(c)
              Q == S \cap AtBoard(i)
              R == S \cap Selected({i})
              Chip(k) == When(IsAgetActive(c, k), OnChip(k, ConfigureAget(c, k)))
              Chips4 == Chip(4 * i) \o Chip(4 * i + 1) \o Chip(4 * i + 2) \o Chip(4 * i + 3)
              F == Base \cup {"asad"}
  <1>1. i \in AsAds /\ Scope(e, c, {i}, Masks(c).chips)
    BY ActiveParts, Scopes
  <1>2. S \subseteq Sane(c) /\ R \subseteq Sane(c) /\ S \subseteq Lit(c)
    BY DEF Slow, Lit
  <1>3. FreeOfBoards(S, c)
    BY FreeStates
  <1>4. S \subseteq S /\ Q \subseteq S /\ Q \subseteq R /\ R \subseteq S
    BY DEF AtBoard, Selected
  <1>5. Carries(SelectAsAdForSlowControl(i), S, Q, e)
    <2>. HIDE DEF S, e
    <2>. QED
      BY <1>1, <1>3, SelectsBoard
  <1>6. Carries(SwitchToSlowControl(Masks(c)), S, S, e)
    <2>1. Lit(c) \subseteq Lit(c) /\ Blind(Lit(c), Modes)
      BY BlindSets DEF Modes, Base
    <2>2. Carries(SwitchToSlowControl(Masks(c)), Lit(c), Lit(c) \cap Slow(c) \cap Enabled(Masks(c).chips), e)
      BY <1>1, <2>1, SwitchesToSlowControl
    <2>3. Lit(c) \cap Slow(c) \cap Enabled(Masks(c).chips) \subseteq S
      OBVIOUS
    <2>. QED
      BY <1>2, <2>2, <2>3, Wider
  <1>7. ASSUME NEW k \in Chips PROVE Carries(Chip(k), S, S, e)
    <2>1. Scope(ForChip(e, k), c, {i}, {k})
      BY <1>1, Scopes
    <2>2. k \in Masks(c).chips => Carries(ConfigureAget(c, k), S, S, ForChip(e, k))
      BY <2>1, ConfigureAgetFlows
    <2>. HIDE DEF S, e
    <2>. QED
      BY <1>1, <1>2, <2>2, ChipRound
  <1>. HIDE DEF Chip
  <1>8. Carries(Chips4, S, S, e)
    <2>1. 4 * i \in Chips /\ 4 * i + 1 \in Chips /\ 4 * i + 2 \in Chips /\ 4 * i + 3 \in Chips
      BY <1>1, EveryChip
    <2>. QED
      BY <1>7, <2>1, Rounds
  <1>9. EachActiveAget(c, i, LAMBDA k : ConfigureAget(c, k)) = Chips4
    BY DEF EachActiveAget, EachChip, Chip
  <1>. HIDE DEF Chips4
  <1>10. Carries(AsAdPulserConfigure(c), Q, Q, e)
    <2>1. Uses(AsAdPulserConfigure(c), 0, Base, {"asad", "field"})
      BY UsesBoardRoutines DEF AsAdPulserConfigure
    <2>. HIDE DEF S
    <2>. QED
      BY <1>3, <2>1, AtTheBoard
  <1>11. \A s, G : /\ Uses(s, 0, G, {"asad"}) /\ G \subseteq F => Carries(s, R, R, e)
    <2>. SUFFICES ASSUME NEW s, NEW G, Uses(s, 0, G, {"asad"}), G \subseteq F PROVE Carries(s, R, R, e)
      OBVIOUS
    <2>1. Blind(R, F)
      <3>1. Blind(S, F) /\ Blind(Selected({i}), F)
        BY SlowBlind, BlindSets DEF Base
      <3>. QED
        BY <3>1, BlindMeet
    <2>2. Blind(R, G)
      <3>. HIDE DEF R, F
      <3>. QED
        BY <2>1, BlindLess
    <2>3. ASSUME NEW h \in R PROVE h.asadMask \cap h.power = {i}
      BY <2>3 DEF Selected, Slow, Lit
    <2>4. "field" \notin {"asad"}
      OBVIOUS
    <2>. HIDE DEF R, e
    <2>. QED
      BY <1>1, <1>2, <2>2, <2>3, <2>4, UsesCarries
  <1>12. Carries(ReadSensors(i), Q, R, e)
    <2>1. Uses(ReadSensors(i), 0, F, {"asad"}) /\ F \subseteq F
      BY <1>1, UsesSelectingRoutines
    <2>2. Carries(ReadSensors(i), R, R, e) /\ R \subseteq R
      BY <1>11, <2>1
    <2>. HIDE DEF Q, R, e
    <2>. QED
      BY <1>4, <2>2, Wider
  <1>13. Carries(When(i \in Config[c].inspected, AsAdSetISPM), R, S, e)
    <2>1. Uses(AsAdSetISPM, 0, Base, {"asad"})
      BY UsesBoardRoutines
    <2>2. Uses(When(i \in Config[c].inspected, AsAdSetISPM), 0, Base, {"asad"}) /\ Base \subseteq F
      BY <2>1, UsesParts
    <2>3. Carries(When(i \in Config[c].inspected, AsAdSetISPM), R, R, e) /\ R \subseteq R
      BY <1>11, <2>2
    <2>. HIDE DEF R, S, e
    <2>. QED
      BY <1>4, <2>3, Wider
  <1>14. Carries(SelectAsAdForSlowControl(i), S, S, e)
    <2>. HIDE DEF S, Q, e
    <2>. QED
      BY <1>4, <1>5, Wider
  <1>. HIDE DEF e, S, Q, R
  <1>. DEFINE s1 == SelectAsAdForSlowControl(i) \o SwitchToSlowControl(Masks(c))
              s2 == s1 \o Chips4 \o SwitchToSlowControl(Masks(c)) \o SelectAsAdForSlowControl(i)
  <1>15. Carries(s1, S, S, e)
    BY <1>6, <1>14, CarriesThen
  <1>. HIDE DEF s1
  <1>16. Carries(s1 \o Chips4, S, S, e)
    BY <1>8, <1>15, CarriesThen
  <1>17. Carries(s1 \o Chips4 \o SwitchToSlowControl(Masks(c)), S, S, e)
    BY <1>6, <1>16, CarriesThen
  <1>18. Carries(s2, S, Q, e)
    BY <1>5, <1>17, CarriesThen
  <1>. HIDE DEF s2
  <1>19. Carries(s2 \o AsAdPulserConfigure(c), S, Q, e)
    BY <1>10, <1>18, CarriesThen
  <1>20. Carries(s2 \o AsAdPulserConfigure(c) \o ReadSensors(i), S, R, e)
    BY <1>12, <1>19, CarriesThen
  <1>21. Carries(s2 \o AsAdPulserConfigure(c) \o ReadSensors(i)
                 \o When(i \in Config[c].inspected, AsAdSetISPM), S, S, e)
    BY <1>13, <1>20, CarriesThen
  <1>. QED
    BY <1>9, <1>21 DEF ConfigureAsAd, s2, s1, S, e

\* The buffers of the boards before board i are those that they are to be.
Placing(c, i) == {h \in Slow(c) : \A j \in AsAds : j < i => h.buffer[j] = Exact(c)[j]}

\* The limits of a board's share of the memory are numbers.
LEMMA ExactNumbers ==
    ASSUME NEW c \in CoBos, Masks(c).asads # {}, NEW i \in AsAds
    PROVE  /\ BufferStart(Masks(c).asads, i, Config[c].memory.start, Config[c].memory.end) \in Int
           /\ BufferEnd(Masks(c).asads, i, Config[c].memory.start, Config[c].memory.end) \in Int
  <1>. DEFINE A == Masks(c).asads
              m == Config[c].memory
              size == BufferSize(A, m.start, m.end)
  <1>1. A \in SUBSET AsAds /\ m.start \in Nat /\ m.end \in Nat
    BY ActiveParts, MemoryAssumption
  <1>2. Shares(A) \in 1 .. 4
    <2>1. 0 \in Nat /\ 0 <= 0
      OBVIOUS
    <2>. HIDE DEF A
    <2>. QED
      BY <1>1, <2>1, SharesFit DEF A
  <1>3. size \in Int
    <2>. HIDE DEF A, m
    <2>. QED
      BY <1>1, <1>2 DEF BufferSize
  <1>4. Cardinality({j \in A : j < i}) \in Nat
    <2>1. i \in Nat /\ i + 1 \in Nat /\ i < i + 1
      BY DEF AsAds
    <2>. HIDE DEF A
    <2>2. Cardinality(Before(A, i)) \in Nat
      BY <1>1, <2>1, BeforeGrows
    <2>. QED
      BY <2>2 DEF Before
  <1>5. BufferStart(A, i, m.start, m.end) \in Int
    <2>1. BufferStart(A, i, m.start, m.end) = m.start + Cardinality({j \in A : j < i}) * size
      BY DEF BufferStart
    <2>. HIDE DEF A, m, size
    <2>. QED
      BY <1>1, <1>3, <1>4, <2>1
  <1>6. BufferEnd(A, i, m.start, m.end) \in Int
    <2>1. BufferEnd(A, i, m.start, m.end) = BufferStart(A, i, m.start, m.end) + (IF i \in A THEN size ELSE 0)
      BY DEF BufferEnd
    <2>. HIDE DEF A, m, size
    <2>. QED
      BY <1>3, <1>5, <2>1
  <1>. QED
    BY <1>5, <1>6

\* The buffer of one board, of which there are those before it.
LEMMA PlacesBuffer ==
    ASSUME NEW c \in CoBos, NEW B, NEW K, NEW d, Scope(d, c, B, K),
           NEW i \in AsAds, NEW first \in Int, NEW last \in Int
    PROVE  /\ Carries(Buffer(i, first, last), Slow(c), Slow(c), d)
           /\ Exact(c)[i] = <<first, last>> => Carries(Buffer(i, first, last), Placing(c, i), Placing(c, i + 1), d)
  <1>1. PICK arg : arg = [asad |-> i, start |-> first, end |-> last]
    OBVIOUS
  <1>2. arg.asad = i /\ arg.start = first /\ arg.end = last
    BY <1>1
  <1>3. "ctrl" \in Devices /\ Suits("buffer", arg)
    BY <1>2 DEF Devices, AnyDevice, Suits
  <1>4. PICK a : a = Access("buffer", "ctrl", arg)[1]
    OBVIOUS
  <1>5. Fit(a) /\ a.op = "buffer" /\ a.dev = "ctrl" /\ a.arg = arg
    BY <1>2, <1>3, <1>4, AccessFits
  <1>6. ASSUME NEW h \in Slow(c)
        PROVE  /\ Turn(h, "buffer", "ctrl", arg) \in Slow(c)
               /\ \A j \in AsAds : Turn(h, "buffer", "ctrl", arg).buffer[j] = IF j = i THEN <<first, last>> ELSE h.buffer[j]
    <2>1. PICK g : g = Turn(h, "buffer", "ctrl", arg)
      OBVIOUS
    <2>2. h \in Lit(c) /\ h \in Sane(c) /\ h \in CoBoStates
      BY DEF Slow, Lit, Sane
    <2>3. g \in CoBoStates
      BY <1>4, <1>5, <2>1, <2>2, TurnedFits DEF Turn
    <2>4. g = [h EXCEPT !.buffer[i] = <<first, last>>]
      BY <1>2, <1>4, <1>5, <2>1 DEF Turn, Turned, Calls, After
    <2>5. /\ g.ready = h.ready /\ g.power = h.power /\ g.hitRegister = h.hitRegister /\ g.fast = h.fast
          /\ g.buffer = [h.buffer EXCEPT ![i] = <<first, last>>]
      BY <2>2, <2>4 DEF CoBoStates
    <2>6. h.buffer \in Buffers
      BY <2>2 DEF CoBoStates
    <2>7. \A j \in AsAds : g.buffer[j] = IF j = i THEN <<first, last>> ELSE h.buffer[j]
      BY <2>5, <2>6 DEF Buffers
    <2>8. g \in Slow(c)
      BY <2>2, <2>3, <2>5 DEF Slow, Lit, Sane
    <2>. QED
      BY <2>1, <2>7, <2>8
  <1>7. Slow(c) \subseteq Sane(c) /\ \A n : Placing(c, n) \subseteq Sane(c)
    BY DEF Placing, Slow, Lit
  <1>8. Carries(Access("buffer", "ctrl", arg), Slow(c), Slow(c), d)
    BY <1>2, <1>3, <1>6, <1>7, OneTurn
  <1>9. ASSUME Exact(c)[i] = <<first, last>>
        PROVE  Carries(Access("buffer", "ctrl", arg), Placing(c, i), Placing(c, i + 1), d)
    <2>1. ASSUME NEW h \in Placing(c, i) PROVE Turn(h, "buffer", "ctrl", arg) \in Placing(c, i + 1)
      <3>1. PICK g : g = Turn(h, "buffer", "ctrl", arg)
        OBVIOUS
      <3>2. h \in Slow(c) /\ \A j \in AsAds : j < i => h.buffer[j] = Exact(c)[j]
        BY DEF Placing
      <3>3. g \in Slow(c) /\ \A j \in AsAds : g.buffer[j] = IF j = i THEN Exact(c)[i] ELSE h.buffer[j]
        BY <1>6, <1>9, <3>1, <3>2
      <3>4. \A j \in AsAds : j < i + 1 => j = i \/ j < i
        BY DEF AsAds
      <3>5. \A j \in AsAds : j < i + 1 => g.buffer[j] = Exact(c)[j]
        BY <3>2, <3>3, <3>4
      <3>. QED
        BY <3>1, <3>3, <3>5 DEF Placing
    <2>. QED
      BY <1>2, <1>3, <1>7, <2>1, OneTurn
  <1>. QED
    BY <1>1, <1>8, <1>9 DEF Buffer

\* When the four are placed, the buffers are as they are to be.
LEMMA AllPlaced ==
    ASSUME NEW c, AllOwn(c) \/ Masks(c).asads # {}
    PROVE  Slow(c) \subseteq Placing(c, 0) /\ Placing(c, 4) \subseteq Slow(c) \cap Filled(c)
  <1>1. \A j \in AsAds : ~(j < 0) /\ j < 4
    BY DEF AsAds
  <1>2. Slow(c) \subseteq Placing(c, 0)
    BY <1>1 DEF Placing
  <1>3. ASSUME NEW h \in Placing(c, 4) PROVE h \in Slow(c) \cap Filled(c)
    <2>1. h \in Slow(c) /\ h \in CoBoStates /\ \A j \in AsAds : h.buffer[j] = Exact(c)[j]
      BY <1>1 DEF Placing, Slow, Lit, Sane
    <2>2. h.buffer = [j \in AsAds |-> h.buffer[j]]
      <3>1. h.buffer \in Buffers
        BY <2>1 DEF CoBoStates
      <3>. QED
        BY <3>1 DEF Buffers
    <2>3. Exact(c) = [j \in AsAds |-> Exact(c)[j]]
      BY DEF Exact
    <2>4. h.buffer = Exact(c)
      BY <2>1, <2>2, <2>3
    <2>. QED
      BY <2>1, <2>4 DEF Filled
  <1>. QED
    BY <1>2, <1>3

\* Four routines, one after the other.
LEMMA FourCarry ==
    ASSUME NEW d, NEW s1, NEW s2, NEW s3, NEW s4, NEW P0, NEW P1, NEW P2, NEW P3, NEW P4,
           Carries(s1, P0, P1, d), Carries(s2, P1, P2, d), Carries(s3, P2, P3, d), Carries(s4, P3, P4, d)
    PROVE  Carries(s1 \o s2 \o s3 \o s4, P0, P4, d)
  <1>1. Carries(s1 \o s2, P0, P2, d)
    BY CarriesThen
  <1>2. Carries(s1 \o s2 \o s3, P0, P3, d)
    BY <1>1, CarriesThen
  <1>. QED
    BY <1>2, CarriesThen

\* What a board with limits of its own gets, if those before it have theirs.
OwnBuffer(c, i) == When(0 .. i \subseteq DOMAIN Config[c].own, SetOwnBuffer(c, i))

\* The limits that boards have of their own, up to the first that has none.
LEMMA OwnBuffersFlow ==
    ASSUME NEW c \in CoBos, NEW B, NEW K, NEW d, Scope(d, c, B, K)
    PROVE  /\ Carries(EachAsAd(LAMBDA i : OwnBuffer(c, i)), Slow(c), Slow(c), d)
           /\ AllOwn(c) => Carries(EachAsAd(LAMBDA i : OwnBuffer(c, i)), Slow(c), Slow(c) \cap Filled(c), d)
  <1>. DEFINE S == Slow(c)
              One(i) == OwnBuffer(c, i)
              all == One(0) \o One(1) \o One(2) \o One(3)
  <1>1. "ctrl" \in AnyDevice /\ S \subseteq Sane(c) /\ \A n : Placing(c, n) \subseteq Sane(c)
    BY DEF AnyDevice, Placing, Slow, Lit
  <1>2. Carries(Device("ctrl"), S, S, d) /\ \A n : Carries(Device("ctrl"), Placing(c, n), Placing(c, n), d)
    BY <1>1, DeviceFlows
  <1>3. 0 + 1 = 1 /\ 1 + 1 = 2 /\ 2 + 1 = 3 /\ 3 + 1 = 4 /\ {0, 1, 2, 3} \subseteq AsAds
    BY DEF AsAds
  <1>4. EachAsAd(LAMBDA i : OwnBuffer(c, i)) = all
    BY DEF EachAsAd
  <1>5. ASSUME NEW i \in AsAds, i \in DOMAIN Config[c].own
        PROVE  /\ Carries(SetOwnBuffer(c, i), S, S, d)
               /\ AllOwn(c) => Carries(SetOwnBuffer(c, i), Placing(c, i), Placing(c, i + 1), d)
    <2>1. PICK first, last : first = Config[c].own[i].start /\ last = Config[c].own[i].end
      OBVIOUS
    <2>2. first \in Int /\ last \in Int
      BY <1>5, <2>1, MemoryAssumption
    <2>3. AllOwn(c) => Exact(c)[i] = <<first, last>>
      BY <2>1 DEF Exact
    <2>4. /\ Carries(Buffer(i, first, last), S, S, d)
          /\ AllOwn(c) => Carries(Buffer(i, first, last), Placing(c, i), Placing(c, i + 1), d)
      BY <2>2, <2>3, PlacesBuffer
    <2>5. SetOwnBuffer(c, i) = Device("ctrl") \o Buffer(i, first, last)
      BY <2>1 DEF SetOwnBuffer, SetAsAdCircularBuffer
    <2>. HIDE DEF S
    <2>. QED
      BY <1>2, <2>4, <2>5, CarriesThen
  <1>6. ASSUME NEW i \in AsAds
        PROVE  /\ Carries(One(i), S, S, d)
               /\ AllOwn(c) => Carries(One(i), Placing(c, i), Placing(c, i + 1), d)
    <2>1. AllOwn(c) => 0 .. i \subseteq DOMAIN Config[c].own
      BY DEF AllOwn, AsAds
    <2>2. CASE 0 .. i \subseteq DOMAIN Config[c].own
      <3>1. i \in DOMAIN Config[c].own
        BY <2>2 DEF AsAds
      <3>. QED
        BY <1>5, <2>2, <3>1 DEF OwnBuffer, When
    <2>3. CASE ~(0 .. i \subseteq DOMAIN Config[c].own)
      <3>1. One(i) = << >>
        BY <2>3 DEF OwnBuffer, When
      <3>2. Uses(<< >>, 0, Base, {})
        BY UsesNothing
      <3>3. Blind(S, Base)
        BY SlowBlind DEF Base
      <3>. HIDE DEF S, One
      <3>4. Carries(<< >>, S, S, d)
        BY <1>1, <3>2, <3>3, UsesCarries
      <3>. QED
        BY <2>1, <2>3, <3>1, <3>4
    <2>. QED
      BY <2>2, <2>3
  <1>. HIDE DEF One
  <1>7. Carries(all, S, S, d)
    <2>1. /\ Carries(One(0), S, S, d) /\ Carries(One(1), S, S, d)
          /\ Carries(One(2), S, S, d) /\ Carries(One(3), S, S, d)
      BY <1>3, <1>6
    <2>. HIDE DEF S
    <2>. QED
      BY <2>1, FourCarry
  <1>8. ASSUME AllOwn(c) PROVE Carries(all, S, S \cap Filled(c), d)
    <2>1. /\ Carries(One(0), Placing(c, 0), Placing(c, 1), d) /\ Carries(One(1), Placing(c, 1), Placing(c, 2), d)
          /\ Carries(One(2), Placing(c, 2), Placing(c, 3), d) /\ Carries(One(3), Placing(c, 3), Placing(c, 4), d)
      BY <1>3, <1>6, <1>8
    <2>2. Carries(all, Placing(c, 0), Placing(c, 4), d)
      BY <2>1, FourCarry
    <2>3. S \subseteq Placing(c, 0) /\ Placing(c, 4) \subseteq S \cap Filled(c)
      BY <1>8, AllPlaced
    <2>. HIDE DEF all, S
    <2>. QED
      BY <2>2, <2>3, Wider
  <1>. HIDE DEF all, S
  <1>. QED
    BY <1>4, <1>7, <1>8 DEF S

\* The four buffers; where the server has no such registers it is one memory.
LEMMA ShareMemoryFlows ==
    ASSUME NEW c \in CoBos, NEW B, NEW K, NEW d, Scope(d, c, B, K), ~AllOwn(c)
    PROVE  Carries(ShareMemory(c), Slow(c), Slow(c) \cap Filled(c), d)
  <1>. DEFINE A == Masks(c).asads
              start == Config[c].memory.start
              end == Config[c].memory.end
              S == Slow(c)
              Q == Slow(c) \cap Filled(c)
              One(i) == Buffer(i, BufferStart(A, i, start, end), BufferEnd(A, i, start, end))
              three == One(0) \o One(1) \o One(2)
              all == One(0) \o One(1) \o One(2) \o One(3)
  <1>1. S \subseteq Sane(c) /\ Q \subseteq Sane(c) /\ S \subseteq d.states /\ Q \subseteq d.states
    BY DEF Slow, Lit, Scope
  <1>2. CASE A = {}
    <2>1. PICK a : a = Access("throw", "none", 0)[1]
      OBVIOUS
    <2>2. "none" \in Devices /\ Suits("throw", 0)
      BY DEF Devices, AnyDevice, Suits
    <2>3. Fit(a) /\ a.op = "throw"
      BY <2>1, <2>2, AccessFits
    <2>4. \A h \in S : Meets(h, a, d)
      BY <2>3 DEF Meets, Needs
    <2>. HIDE DEF S, Q
    <2>5. Carries(Access("throw", "none", 0), S, Q, d)
      BY <1>1, <2>1, <2>3, <2>4, OneCarries
    <2>. QED
      BY <1>2, <2>5 DEF ShareMemory, SetCircularBuffers, Throw, S, Q
  <1>3. CASE A # {}
    <2>1. ASSUME NEW i \in AsAds PROVE Carries(One(i), Placing(c, i), Placing(c, i + 1), d)
      <3>1. PICK first, last : first = BufferStart(A, i, start, end) /\ last = BufferEnd(A, i, start, end)
        OBVIOUS
      <3>2. first \in Int /\ last \in Int
        BY <1>3, <3>1, ExactNumbers
      <3>3. Exact(c)[i] = <<first, last>>
        BY <3>1 DEF Exact
      <3>. QED
        BY <3>1, <3>2, <3>3, PlacesBuffer
    <2>2. \A i \in AsAds : Len(One(i)) = 1 /\ One(i)[1].op = "buffer"
      BY DEF Buffer, Access
    <2>. HIDE DEF One
    <2>3. /\ Carries(One(0), Placing(c, 0), Placing(c, 1), d) /\ Carries(One(1), Placing(c, 1), Placing(c, 2), d)
          /\ Carries(One(2), Placing(c, 2), Placing(c, 3), d) /\ Carries(One(3), Placing(c, 3), Placing(c, 4), d)
      <3>1. 0 + 1 = 1 /\ 1 + 1 = 2 /\ 2 + 1 = 3 /\ 3 + 1 = 4 /\ {0, 1, 2, 3} \subseteq AsAds
        BY DEF AsAds
      <3>. QED
        BY <2>1, <3>1
    <2>4. Carries(One(0) \o One(1), Placing(c, 0), Placing(c, 2), d)
      BY <2>3, CarriesThen
    <2>5. Carries(three, Placing(c, 0), Placing(c, 3), d)
      BY <2>3, <2>4, CarriesThen
    <2>6. Carries(all, Placing(c, 0), Placing(c, 4), d)
      BY <2>3, <2>5, CarriesThen
    <2>7. S \subseteq Placing(c, 0) /\ Placing(c, 4) \subseteq Q
      BY <1>3, AllPlaced
    <2>8. Carries(all, S, Q, d)
      <3>. HIDE DEF all, S, Q
      <3>. QED
        BY <2>6, <2>7, Wider
    <2>9. Len(all) > 0 /\ ~Harmless(all[Len(all)])
      <3>1. IsSeq(three) /\ IsSeq(One(3)) /\ Len(One(3)) = 1 /\ One(3)[1].op = "buffer"
        <4>1. 3 \in AsAds
          BY DEF AsAds
        <4>. QED
          BY <2>2, <2>3, <2>5, <4>1 DEF Carries, Block
      <3>2. all = three \o One(3)
        OBVIOUS
      <3>. HIDE DEF three, all
      <3>3. Len(all) = Len(three) + 1 /\ Len(three) \in Nat /\ all[Len(three) + 1] = One(3)[1]
        BY <3>1, <3>2, OneMore
      <3>4. ~Harmless(One(3)[1])
        BY <3>1 DEF Harmless
      <3>. QED
        BY <3>3, <3>4
    <2>10. Uses(Put("ctrl", {"memory"}), 0, Base, {})
      <3>1. {"memory"} \subseteq Groups
        BY DEF Groups
      <3>. QED
        BY <3>1, UsesWrites
    <2>11. \A l \in Int : d.mine[l]
      BY DEF Scope
    <2>. HIDE DEF all
    <2>12. Carries(TryElse(all, Put("ctrl", {"memory"})), S, Q, d)
      <3>. HIDE DEF S, Q
      <3>. QED
        BY <1>1, <2>8, <2>9, <2>10, <2>11, CarriesElse
    <2>13. Carries(Device("ctrl"), S, S, d)
      <3>1. "ctrl" \in AnyDevice
        BY DEF AnyDevice
      <3>. QED
        BY <1>1, <3>1, DeviceFlows
    <2>14. Carries(Device("ctrl") \o TryElse(all, Put("ctrl", {"memory"})), S, Q, d)
      <3>. HIDE DEF S, Q
      <3>. QED
        BY <2>12, <2>13, CarriesThen
    <2>. QED
      BY <1>3, <2>14 DEF ShareMemory, SetCircularBuffers, EachAsAd, all, One
  <1>. QED
    BY <1>2, <1>3

\* The limits, of the boards or shared out.
LEMMA SetBuffersFlows ==
    ASSUME NEW c \in CoBos, NEW B, NEW K, NEW d, Scope(d, c, B, K)
    PROVE  Carries(SetBuffers(c), Slow(c), Slow(c) \cap Filled(c), d)
  <1>. DEFINE S == Slow(c)
              Q == Slow(c) \cap Filled(c)
              own == EachAsAd(LAMBDA i : OwnBuffer(c, i))
              share == When(~AllOwn(c), ShareMemory(c))
  <1>1. S \subseteq Sane(c) /\ Q \subseteq Sane(c) /\ Blind(S, Base) /\ Blind(Q, Base)
    <2>1. Blind(Slow(c), Base) /\ Blind(Filled(c), Base)
      BY BlindSets, SlowBlind DEF Base
    <2>. QED
      BY <2>1, BlindMeet DEF Slow, Lit
  <1>2. Uses(SetCircularBufferCommonParameters, 0, Base, {}) /\ Uses(<< >>, 0, Base, {})
    BY UsesCoBoRoutines, UsesNothing
  <1>3. /\ Carries(own, S, S, d)
        /\ AllOwn(c) => Carries(own, S, Q, d)
        /\ ~AllOwn(c) => Carries(ShareMemory(c), S, Q, d)
    BY OwnBuffersFlow, ShareMemoryFlows
  <1>4. SetBuffers(c) = SetCircularBufferCommonParameters \o own \o share
    BY DEF SetBuffers, OwnBuffer
  <1>. HIDE DEF S, Q, own
  <1>5. Carries(SetCircularBufferCommonParameters, S, S, d) /\ Carries(<< >>, Q, Q, d)
    BY <1>1, <1>2, UsesCarries
  <1>6. CASE AllOwn(c)
    <2>1. share = << >>
      BY <1>6 DEF When
    <2>2. Carries(SetCircularBufferCommonParameters \o own, S, Q, d)
      BY <1>3, <1>5, <1>6, CarriesThen
    <2>3. Carries(SetCircularBufferCommonParameters \o own \o << >>, S, Q, d)
      BY <1>5, <2>2, CarriesThen
    <2>. QED
      BY <1>4, <2>1, <2>3 DEF S, Q
  <1>7. CASE ~AllOwn(c)
    <2>1. share = ShareMemory(c)
      BY <1>7 DEF When
    <2>2. Carries(SetCircularBufferCommonParameters \o own, S, S, d)
      BY <1>3, <1>5, CarriesThen
    <2>3. Carries(SetCircularBufferCommonParameters \o own \o ShareMemory(c), S, Q, d)
      BY <1>3, <1>7, <2>2, CarriesThen
    <2>. QED
      BY <1>4, <2>1, <2>3 DEF S, Q
  <1>. QED
    BY <1>6, <1>7

\* The end of configure.
LEMMA SetsReady ==
    ASSUME NEW c, NEW B, NEW K, NEW d, Scope(d, c, B, K)
    PROVE  Carries(SetCoBoInitDone(TRUE), Slow(c) \cap Filled(c), Sane(c), d)
  <1>0. PICK b \in BOOLEAN : b = TRUE
    OBVIOUS
  <1>. DEFINE set == Access("initDone", "ctrl", b)
              s == Device("ctrl") \o set
              Q == Slow(c) \cap Filled(c)
  <1>1. "ctrl" \in Devices /\ Suits("initDone", b) /\ "ctrl" \in AnyDevice
    BY DEF Devices, AnyDevice, Suits
  <1>2. PICK a : a = set[1]
    OBVIOUS
  <1>3. Fit(a) /\ Len(set) = 1 /\ a.op = "initDone" /\ a.dev = "ctrl" /\ a.arg = b
    BY <1>1, <1>2, AccessFits
  <1>4. ASSUME NEW h \in Q PROVE Turn(h, "initDone", "ctrl", b) \in Filled(c)
    <2>1. PICK g : g = Turn(h, "initDone", "ctrl", b)
      OBVIOUS
    <2>2. h \in CoBoStates /\ h \in Slow(c) /\ h \in Filled(c) /\ h.buffer = Exact(c)
      BY DEF Filled
    <2>3. g \in CoBoStates
      BY <1>2, <1>3, <2>1, <2>2, TurnedFits DEF Turn
    <2>4. PICK v \in BOOLEAN : v = (h.quiet /\ a.arg)
      OBVIOUS
    <2>5. g = [h EXCEPT !.ready = a.arg, !.quiet = v]
      BY <1>2, <1>3, <2>1, <2>4 DEF Turn, Turned, Calls, After
    <2>6. g.power = h.power /\ g.hitRegister = h.hitRegister /\ g.fast = h.fast /\ g.buffer = h.buffer
      BY <2>2, <2>5 DEF CoBoStates
    <2>7. g \in Filled(c)
      BY <2>2, <2>3, <2>6 DEF Filled
    <2>. QED
      BY <2>1, <2>7
  <1>5. Q \subseteq Sane(c) /\ Q \subseteq Filled(c) /\ Filled(c) \subseteq Sane(c)
    BY DEF Slow, Lit, Filled, Sane
  <1>. HIDE DEF Q
  <1>6. Carries(set, Q, Filled(c), d)
    <2>1. "initDone" = "initDone" => b
      BY <1>0
    <2>. QED
      BY <1>1, <1>4, <1>5, <2>1, OneTurn
  <1>7. Carries(Device("ctrl"), Q, Q, d)
    BY <1>1, <1>5, DeviceFlows
  <1>8. Carries(s, Q, Filled(c), d)
    BY <1>6, <1>7, CarriesThen
  <1>9. Len(s) > 0 /\ ~Harmless(s[Len(s)])
    <2>1. IsSeq(Device("ctrl")) /\ IsSeq(set)
      BY <1>6, <1>7 DEF Carries, Block
    <2>. HIDE DEF set
    <2>2. Len(s) = Len(Device("ctrl")) + 1 /\ Len(Device("ctrl")) \in Nat /\ s[Len(Device("ctrl")) + 1] = set[1]
      BY <1>3, <2>1, OneMore
    <2>3. ~Harmless(a)
      BY <1>3 DEF Harmless
    <2>. HIDE DEF s
    <2>4. s[Len(s)] = a /\ Len(s) > 0
      BY <1>2, <2>2
    <2>. QED
      BY <2>3, <2>4
  <1>10. \A l \in Int : d.mine[l]
    BY DEF Scope
  <1>. HIDE DEF s
  <1>11. Carries(Try(s), Q, Filled(c), d)
    BY <1>8, <1>9, <1>10, CarriesTry
  <1>12. Carries(Try(s), Q, Sane(c), d)
    <2>1. Q \subseteq Q
      OBVIOUS
    <2>. QED
      BY <1>5, <1>11, <2>1, Wider
  <1>. QED
    BY <1>0, <1>12 DEF SetCoBoInitDone, s, set, Q

\* What configure asks of a CoBo.
Configuring(c) ==
    ConnectNode(c)
    \o EachActiveAsAd(c, LAMBDA i : ConfigureAsAd(c, i))
    \o SetAsAdSlowControlMask(Masks(c).asads) \o SetAgetSlowControlMask(Masks(c).chips)
    \o SetWriteHitRegisterEnabled \o When(Config[c].active, AcqTestMode)
    \o SetMultiplicityMode \o SetCoBoSuppressMultiplicity(c) \o SetCtrl("mem2p")
    \o SetIdentities(c) \o SetCtrl("triggerPeriod") \o TriggerTimes
    \o SetBuffers(c) \o SetTriggerModes \o SetScwDelays \o SetReadOutMode(c) \o SetReadOut
    \o DaqSetCircularBuffersEnabled \o Aget2pInitNow
    \o ConfigureAsAdPeriodicPulser(c, 0)
    \o SetCoBoInitDone(TRUE)

\* The routines of configure that only write registers of the CoBo.
LEMMA UsesConfiguration ==
    /\ Uses(SetWriteHitRegisterEnabled, 0, Base, {}) /\ Uses(SetMultiplicityMode, 0, Base, {})
    /\ Uses(TriggerTimes, 0, Base, {}) /\ Uses(SetTriggerModes, 0, Base, {})
    /\ Uses(SetScwDelays, 0, Base, {}) /\ Uses(SetReadOut, 0, Base, {})
    /\ Uses(DaqSetCircularBuffersEnabled, 0, Base, {}) /\ Uses(Aget2pInitNow, 0, Base, {})
    /\ Uses(SetCtrl("mem2p"), 0, Base, {}) /\ Uses(SetCtrl("triggerPeriod"), 0, Base, {})
    /\ Uses(SetCircularBufferCommonParameters, 0, Base, {})
    /\ \A c : /\ Uses(When(Config[c].active, AcqTestMode), 0, Base, {})
              /\ Uses(SetCoBoSuppressMultiplicity(c), 0, Base, {}) /\ Uses(SetIdentities(c), 0, Base, {})
              /\ Uses(SetReadOutMode(c), 0, Base, {})
              /\ \A b : Uses(ConfigureAsAdPeriodicPulser(c, b), 0, Base, {})
  <1>1. {"writeHit", "testMode", "multThreshold", "multWindow", "multThreshold2p", "multSubtract",
         "suppressMultiplicity", "mem2p", "dataSource", "coboId", "triggerPeriod", "triggerDelay",
         "2p", "trigger", "ScwMultDelay", "ScwScrDelay", "readout", "readDepth", "readOffset",
         "circularBuffers", "init2p", "pulser", "pulserDouble", "pulserRandom"} \subseteq Groups
    BY DEF Groups
  <1>2. \A s, t : Uses(s, 0, Base, {}) /\ Uses(t, 0, Base, {}) => Uses(s \o t, 0, Base, {})
    BY UsesParts
  <1>3. \A b, s : Uses(s, 0, Base, {}) => Uses(When(b, s), 0, Base, {})
    BY UsesParts
  <1>4. \A group \in Groups : /\ Uses(SetCtrl(group), 0, Base, {}) /\ Uses(SetCtrlIfKnown(group), 0, Base, {})
                              /\ Uses(Setting(group), 0, Base, {})
    BY UsesCoBoRoutines, UsesWrites
  <1>5. /\ Uses(Throw, 0, Base, {}) /\ Uses(SetSecondaryTriggerMode, 0, Base, {})
        /\ Uses(SetCoBoZeroSuppressionMode, 0, Base, {}) /\ Uses(SetCircularBufferCommonParameters, 0, Base, {})
    BY UsesWrites, UsesCoBoRoutines
  <1>6. /\ Uses(SetWriteHitRegisterEnabled, 0, Base, {}) /\ Uses(AcqTestMode, 0, Base, {})
        /\ Uses(Aget2pInitNow, 0, Base, {}) /\ Uses(DaqSetCircularBuffersEnabled, 0, Base, {})
        /\ Uses(SetCtrl("mem2p"), 0, Base, {}) /\ Uses(SetCtrl("triggerPeriod"), 0, Base, {})
    BY <1>1, <1>4 DEF SetWriteHitRegisterEnabled, AcqTestMode, Aget2pInitNow, DaqSetCircularBuffersEnabled
  <1>7. Uses(SetMultiplicityMode, 0, Base, {})
    <2>1. /\ Uses(SetThreshold("multThreshold"), 0, Base, {}) /\ Uses(SetThreshold("multWindow"), 0, Base, {})
          /\ Uses(SetThreshold("multThreshold2p"), 0, Base, {}) /\ Uses(SetCtrlIfKnown("multSubtract"), 0, Base, {})
      BY <1>1, <1>4 DEF SetThreshold
    <2>. QED
      BY <1>2, <2>1 DEF SetMultiplicityMode
  <1>8. Uses(TriggerTimes, 0, Base, {})
    <2>1. Uses(SetCtrl("triggerDelay"), 0, Base, {}) /\ Uses(SetCtrl("2p"), 0, Base, {})
      BY <1>1, <1>4
    <2>. QED
      BY <1>2, <2>1 DEF TriggerTimes
  <1>9. Uses(SetTriggerModes, 0, Base, {})
    <2>1. Uses(SetTriggerMode, 0, Base, {})
      BY <1>1, <1>4 DEF SetTriggerMode
    <2>. QED
      BY <1>2, <1>5, <2>1 DEF SetTriggerModes
  <1>10. Uses(SetScwDelays, 0, Base, {})
    <2>1. Uses(SetCtrl("ScwMultDelay"), 0, Base, {}) /\ Uses(SetCtrl("ScwScrDelay"), 0, Base, {})
      BY <1>1, <1>4
    <2>. QED
      BY <1>2, <2>1 DEF SetScwDelays
  <1>11. Uses(SetReadOut, 0, Base, {})
    <2>1. Uses(SetCoBoReadDepth, 0, Base, {}) /\ Uses(SetCoBoReadOffset, 0, Base, {})
      BY <1>1, <1>4 DEF SetCoBoReadDepth, SetCoBoReadOffset
    <2>. QED
      BY <1>2, <1>5, <2>1 DEF SetReadOut
  <1>12. ASSUME NEW c PROVE /\ Uses(SetCoBoSuppressMultiplicity(c), 0, Base, {}) /\ Uses(SetIdentities(c), 0, Base, {})
                            /\ Uses(SetReadOutMode(c), 0, Base, {})
    <2>1. Uses(SetCtrlIfKnown("suppressMultiplicity"), 0, Base, {}) /\ Uses(SetFullReadOutMode, 0, Base, {})
      BY <1>1, <1>4 DEF SetFullReadOutMode
    <2>2. Uses(SetCoBoSuppressMultiplicity(c), 0, Base, {})
      BY <1>5, <2>1 DEF SetCoBoSuppressMultiplicity
    <2>3. Uses(SetReadOutMode(c), 0, Base, {})
      BY <1>5, <2>1 DEF SetReadOutMode
    <2>4. Uses(SetCtrl("dataSource"), 0, Base, {}) /\ Uses(SetCtrl("coboId"), 0, Base, {})
      BY <1>1, <1>4
    <2>5. Uses(SetCtrl("dataSource") \o SetCtrl("coboId"), 0, Base, {})
      BY <1>2, <2>4
    <2>6. Uses(SetIdentities(c), 0, Base, {})
      BY <1>3, <2>5 DEF SetIdentities
    <2>. QED
      BY <2>2, <2>3, <2>6
  <1>13. ASSUME NEW c, NEW b PROVE Uses(ConfigureAsAdPeriodicPulser(c, b), 0, Base, {})
    <2>. DEFINE other == Write("write", "node", {"pulser"}, FALSE, Reach)
                set == IF b = c THEN Setting("pulser") ELSE other
    <2>1. Uses(other, 0, Base, {})
      <3>1. PICK g \in BOOLEAN : g = FALSE
        OBVIOUS
      <3>2. PICK op \in {"write", "field"} : op = "write"
        OBVIOUS
      <3>3. PICK dev : dev = "node"
        OBVIOUS
      <3>4. {"pulser"} \in SUBSET Groups /\ dev \in Devices \ {"aget"} /\ dev # "asad"
        BY <1>1, <3>3 DEF Devices
      <3>5. Uses(Write(op, dev, {"pulser"}, g, Reach), 0, Base, {})
        BY <3>4, UsesTransfers
      <3>. QED
        BY <3>1, <3>2, <3>3, <3>5
    <2>2. /\ Uses(Setting("pulser"), 0, Base, {}) /\ Uses(Setting("pulserDouble"), 0, Base, {})
          /\ Uses(Setting("pulserRandom"), 0, Base, {})
      BY <1>1, <1>4
    <2>3. Uses(set, 0, Base, {})
      BY <2>1, <2>2
    <2>4. Uses(Try(Setting("pulserDouble")), 0, Base, {}) /\ Uses(Try(Setting("pulserRandom")), 0, Base, {})
      BY <2>2, UsesParts
    <2>. HIDE DEF set
    <2>5. Uses(set \o Try(Setting("pulserDouble")) \o Try(Setting("pulserRandom")), 0, Base, {})
      BY <1>2, <2>3, <2>4
    <2>. QED
      BY <1>3, <2>5 DEF ConfigureAsAdPeriodicPulser, set, other
  <1>. QED
    BY <1>3, <1>5, <1>6, <1>7, <1>8, <1>9, <1>10, <1>11, <1>12, <1>13

\* configure leaves the boards powered and the chips listening, and the buffers
\* are in place when it reports that the CoBo is ready.
LEMMA ConfiguringFlows ==
    ASSUME NEW c \in CoBos, NEW d, Visited(d, c) PROVE Carries(Configuring(c), Slow(c), Sane(c), d)
  <1>. DEFINE S == Slow(c)
              Q == Slow(c) \cap Filled(c)
              Board(i) == When(IsAsadActive(c, i), OnBoard(i, ConfigureAsAd(c, i)))
              boards == Board(0) \o Board(1) \o Board(2) \o Board(3)
              test == When(Config[c].active, AcqTestMode)
  <1>1. Scope(d, c, Masks(c).asads, Masks(c).chips)
    BY DEF Visited
  <1>2. S \subseteq Sane(c) /\ Q \subseteq Sane(c)
    BY DEF Slow, Lit
  <1>3. ASSUME NEW i \in AsAds PROVE Carries(Board(i), S, S, d)
    <2>1. i \in Masks(c).asads => Carries(ConfigureAsAd(c, i), S, S, ForBoard(d, i))
      BY ConfigureAsAdFlows
    <2>. HIDE DEF S
    <2>. QED
      BY <1>2, <2>1, Round
  <1>. HIDE DEF Board
  <1>4. Carries(boards, S, S, d)
    BY <1>3, Rounds DEF AsAds
  <1>5. EachActiveAsAd(c, LAMBDA i : ConfigureAsAd(c, i)) = boards
    BY DEF EachActiveAsAd, EachAsAd, Board
  <1>6. \A s : Uses(s, 0, Base, {}) => Carries(s, S, S, d) /\ Carries(s, Q, Q, d)
    <2>1. Blind(S, Base) /\ Blind(Filled(c), Base)
      BY BlindSets, SlowBlind DEF Base
    <2>2. Blind(Q, Base)
      BY <2>1, BlindMeet
    <2>. HIDE DEF S, Q
    <2>. QED
      BY <1>1, <1>2, <2>1, <2>2, UsesCarries
  <1>7. /\ Carries(SetAsAdSlowControlMask(Masks(c).asads), S, S, d)
        /\ Carries(SetAgetSlowControlMask(Masks(c).chips), S, S, d)
    <2>. DEFINE F == Base \cup {"asadMask", "enabled"}
    <2>1. Masks(c).asads \in SUBSET AsAds /\ Masks(c).chips \in SUBSET Chips
      BY ActiveParts
    <2>2. Base \subseteq F /\ "asadMask" \in F /\ "enabled" \in F
      OBVIOUS
    <2>3. Blind(S, F)
      BY SlowBlind DEF Base
    <2>. HIDE DEF F, S
    <2>4. Uses(SetAsAdSlowControlMask(Masks(c).asads), 0, F, {})
          /\ Uses(SetAgetSlowControlMask(Masks(c).chips), 0, F, {})
      BY <2>1, <2>2, UsesSelectingRoutines
    <2>. QED
      BY <1>1, <1>2, <2>3, <2>4, UsesCarries
  <1>8. Carries(ConnectNode(c), S, S, d)
    <2>1. Uses(ConnectNode(c), 0, Base, {})
      BY UsesSelections
    <2>. QED
      BY <1>6, <2>1
  <1>9. Carries(SetBuffers(c), S, Q, d)
    BY <1>1, SetBuffersFlows
  <1>10. Carries(SetCoBoInitDone(TRUE), Q, Sane(c), d)
    BY <1>1, SetsReady
  <1>11. /\ Carries(SetWriteHitRegisterEnabled, S, S, d) /\ Carries(SetMultiplicityMode, S, S, d)
         /\ Carries(TriggerTimes, S, S, d) /\ Carries(SetCtrl("mem2p"), S, S, d)
         /\ Carries(SetCtrl("triggerPeriod"), S, S, d) /\ Carries(test, S, S, d)
         /\ Carries(SetCoBoSuppressMultiplicity(c), S, S, d) /\ Carries(SetIdentities(c), S, S, d)
    BY <1>6, UsesConfiguration
  <1>12. /\ Carries(SetTriggerModes, Q, Q, d) /\ Carries(SetScwDelays, Q, Q, d)
         /\ Carries(SetReadOutMode(c), Q, Q, d) /\ Carries(SetReadOut, Q, Q, d)
         /\ Carries(DaqSetCircularBuffersEnabled, Q, Q, d) /\ Carries(Aget2pInitNow, Q, Q, d)
         /\ Carries(ConfigureAsAdPeriodicPulser(c, 0), Q, Q, d)
    BY <1>6, UsesConfiguration
  <1>. HIDE DEF S, Q, boards, test
  <1>. DEFINE s1 == ConnectNode(c) \o boards \o SetAsAdSlowControlMask(Masks(c).asads)
                    \o SetAgetSlowControlMask(Masks(c).chips) \o SetWriteHitRegisterEnabled \o test
              s2 == s1 \o SetMultiplicityMode \o SetCoBoSuppressMultiplicity(c) \o SetCtrl("mem2p")
                    \o SetIdentities(c) \o SetCtrl("triggerPeriod") \o TriggerTimes
              s3 == s2 \o SetBuffers(c) \o SetTriggerModes \o SetScwDelays \o SetReadOutMode(c)
                    \o SetReadOut \o DaqSetCircularBuffersEnabled \o Aget2pInitNow
                    \o ConfigureAsAdPeriodicPulser(c, 0)
  <1>13. Carries(ConnectNode(c) \o boards, S, S, d)
    BY <1>4, <1>8, CarriesThen
  <1>14. Carries(ConnectNode(c) \o boards \o SetAsAdSlowControlMask(Masks(c).asads), S, S, d)
    BY <1>7, <1>13, CarriesThen
  <1>15. Carries(ConnectNode(c) \o boards \o SetAsAdSlowControlMask(Masks(c).asads)
                 \o SetAgetSlowControlMask(Masks(c).chips), S, S, d)
    BY <1>7, <1>14, CarriesThen
  <1>16. Carries(ConnectNode(c) \o boards \o SetAsAdSlowControlMask(Masks(c).asads)
                 \o SetAgetSlowControlMask(Masks(c).chips) \o SetWriteHitRegisterEnabled, S, S, d)
    BY <1>11, <1>15, CarriesThen
  <1>17. Carries(s1, S, S, d)
    BY <1>11, <1>16, CarriesThen
  <1>. HIDE DEF s1
  <1>18. Carries(s1 \o SetMultiplicityMode, S, S, d)
    BY <1>11, <1>17, CarriesThen
  <1>19. Carries(s1 \o SetMultiplicityMode \o SetCoBoSuppressMultiplicity(c), S, S, d)
    BY <1>11, <1>18, CarriesThen
  <1>20. Carries(s1 \o SetMultiplicityMode \o SetCoBoSuppressMultiplicity(c) \o SetCtrl("mem2p"), S, S, d)
    BY <1>11, <1>19, CarriesThen
  <1>21. Carries(s1 \o SetMultiplicityMode \o SetCoBoSuppressMultiplicity(c) \o SetCtrl("mem2p")
                 \o SetIdentities(c), S, S, d)
    BY <1>11, <1>20, CarriesThen
  <1>22. Carries(s1 \o SetMultiplicityMode \o SetCoBoSuppressMultiplicity(c) \o SetCtrl("mem2p")
                 \o SetIdentities(c) \o SetCtrl("triggerPeriod"), S, S, d)
    BY <1>11, <1>21, CarriesThen
  <1>23. Carries(s2, S, S, d)
    BY <1>11, <1>22, CarriesThen
  <1>. HIDE DEF s2
  <1>24. Carries(s2 \o SetBuffers(c), S, Q, d)
    BY <1>9, <1>23, CarriesThen
  <1>25. Carries(s2 \o SetBuffers(c) \o SetTriggerModes, S, Q, d)
    BY <1>12, <1>24, CarriesThen
  <1>26. Carries(s2 \o SetBuffers(c) \o SetTriggerModes \o SetScwDelays, S, Q, d)
    BY <1>12, <1>25, CarriesThen
  <1>27. Carries(s2 \o SetBuffers(c) \o SetTriggerModes \o SetScwDelays \o SetReadOutMode(c), S, Q, d)
    BY <1>12, <1>26, CarriesThen
  <1>28. Carries(s2 \o SetBuffers(c) \o SetTriggerModes \o SetScwDelays \o SetReadOutMode(c)
                 \o SetReadOut, S, Q, d)
    BY <1>12, <1>27, CarriesThen
  <1>29. Carries(s2 \o SetBuffers(c) \o SetTriggerModes \o SetScwDelays \o SetReadOutMode(c)
                 \o SetReadOut \o DaqSetCircularBuffersEnabled, S, Q, d)
    BY <1>12, <1>28, CarriesThen
  <1>30. Carries(s2 \o SetBuffers(c) \o SetTriggerModes \o SetScwDelays \o SetReadOutMode(c)
                 \o SetReadOut \o DaqSetCircularBuffersEnabled \o Aget2pInitNow, S, Q, d)
    BY <1>12, <1>29, CarriesThen
  <1>31. Carries(s3, S, Q, d)
    BY <1>12, <1>30, CarriesThen
  <1>. HIDE DEF s3
  <1>32. Carries(s3 \o SetCoBoInitDone(TRUE), S, Sane(c), d)
    BY <1>10, <1>31, CarriesThen
  <1>. QED
    BY <1>5, <1>32 DEF Configuring, s3, s2, s1, test, S

-------------------------------------------------------------------------------
(* The programs                                                                *)

\* The calls of the programs that start and stop data acquisition, to one CoBo.
Starting(c, pulser) == ConnectNode(c) \o DaqStart(FreshClient) \o When(pulser, StartPulser)
Halting(c) == ConnectNode(c) \o StopPulser \o DaqStop
Controlling(c, start, pulser) ==
    ConnectNode(c) \o (IF pulser /\ start THEN StartPulser ELSE StopPulser)
    \o (IF start THEN DaqStart(FreshClient) ELSE DaqStop)

\* What they change of a CoBo.
Acquiring == Modes \cup {"running", "pulsing"}

\* They change no more: a fresh client reaches no chip at all.
LEMMA UsesAcquisition ==
    \A c : /\ \A pulser : Uses(Starting(c, pulser), 0, Acquiring, {})
           /\ Uses(Halting(c), 0, Acquiring, {})
           /\ \A start, pulser : Uses(Controlling(c, start, pulser), 0, Acquiring, {})
  <1>. DEFINE F == Acquiring
  <1>1. /\ Base \subseteq F /\ "enabled" \in F /\ "pulse" \in F /\ "hitRegister" \in F /\ "pulsed" \in F
        /\ "running" \in F /\ "pulsing" \in F /\ {"running", "pulsing"} \subseteq F
    BY DEF Acquiring, Modes
  <1>. HIDE DEF F
  <1>2. \A s, t : Uses(s, 0, F, {}) /\ Uses(t, 0, F, {}) => Uses(s \o t, 0, F, {})
    BY UsesParts
  <1>3. \A b, s : Uses(s, 0, F, {}) => Uses(When(b, s), 0, F, {})
    BY UsesParts
  <1>4. /\ \A S \in SUBSET Chips : Uses(Enable(S), 0, F, {}) /\ Uses(Pulse(S), 0, F, {})
        /\ \A b \in BOOLEAN : Uses(HitRegister(b), 0, F, {})
        /\ Uses(Access("fire", "ctrl", 0), 0, F, {}) /\ \A c : Uses(ConnectNode(c), 0, F, {})
        /\ \A op \in {"daqStart", "daqStop", "startPulser", "stopPulser"} :
               Uses(Access(op, "node", 0), 0, F, {})
    BY <1>1, UsesSelections
  <1>5. Uses(StartPulser, 0, F, {}) /\ Uses(StopPulser, 0, F, {}) /\ Uses(Access("daqStop", "node", 0), 0, F, {})
        /\ Uses(Access("daqStart", "node", 0), 0, F, {})
    BY <1>4 DEF StartPulser, StopPulser
  <1>6. Uses(DaqStop, 0, F, {})
    BY <1>2, <1>5 DEF DaqStop
  <1>7. Uses(SwitchToFastControl(FreshClient), 0, F, {})
    <2>1. FreshClient.chips = {} /\ {} \in SUBSET Chips
      BY DEF FreshClient
    <2>2. Uses(Enable({}), 0, F, {}) /\ Uses(Pulse({}), 0, F, {})
      BY <1>4, <2>1
    <2>3. PICK b \in BOOLEAN : b = TRUE
      OBVIOUS
    <2>4. Uses(HitRegister(b), 0, F, {})
      BY <1>4
    <2>5. Uses(Enable({}) \o Pulse({}), 0, F, {})
      BY <1>2, <2>2
    <2>6. Uses(Enable({}) \o Pulse({}) \o HitRegister(b), 0, F, {})
      BY <1>2, <2>4, <2>5
    <2>7. Uses(Enable({}) \o Pulse({}) \o HitRegister(b) \o Access("fire", "ctrl", 0), 0, F, {})
      BY <1>2, <1>4, <2>6
    <2>8. Uses(Enable({}) \o Pulse({}) \o HitRegister(b) \o Access("fire", "ctrl", 0) \o Enable({}), 0, F, {})
      BY <1>2, <2>2, <2>7
    <2>9. Uses(Enable({}) \o Pulse({}) \o HitRegister(b) \o Access("fire", "ctrl", 0) \o Enable({})
               \o Pulse({}), 0, F, {})
      BY <1>2, <2>2, <2>8
    <2>10. Uses(SwitchTo(b, FreshClient), 0, F, {})
      BY <2>1, <2>9 DEF SwitchTo
    <2>11. Uses(Device("ctrl"), 0, F, {})
      BY <1>1, UsesWrites
    <2>12. Uses(Device("ctrl") \o SwitchTo(b, FreshClient), 0, F, {})
      BY <1>2, <2>10, <2>11
    <2>. QED
      BY <2>3, <2>12 DEF SwitchToFastControl
  <1>8. Uses(DaqStart(FreshClient), 0, F, {})
    <2>1. {"resetTime"} \subseteq Groups
      BY DEF Groups
    <2>2. Uses(Device("ctrl"), 0, F, {}) /\ Uses(Put("ctrl", {"resetTime"}), 0, F, {})
      BY <1>1, <2>1, UsesWrites
    <2>3. Uses(Device("ctrl") \o Put("ctrl", {"resetTime"}), 0, F, {})
      BY <1>2, <2>2
    <2>4. Uses(Device("ctrl") \o Put("ctrl", {"resetTime"}) \o Access("daqStart", "node", 0), 0, F, {})
      BY <1>2, <1>5, <2>3
    <2>5. Uses(Device("ctrl") \o Put("ctrl", {"resetTime"}) \o Access("daqStart", "node", 0)
               \o SwitchToFastControl(FreshClient), 0, F, {})
      BY <1>2, <1>7, <2>4
    <2>. QED
      BY <2>5 DEF DaqStart
  <1>9. ASSUME NEW c, NEW start, NEW pulser
        PROVE  /\ Uses(Starting(c, pulser), 0, F, {}) /\ Uses(Halting(c), 0, F, {})
               /\ Uses(Controlling(c, start, pulser), 0, F, {})
    <2>1. Uses(ConnectNode(c), 0, F, {}) /\ Uses(When(pulser, StartPulser), 0, F, {})
      BY <1>3, <1>4, <1>5
    <2>2. Uses(ConnectNode(c) \o DaqStart(FreshClient), 0, F, {})
      BY <1>2, <1>8, <2>1
    <2>3. Uses(Starting(c, pulser), 0, F, {})
      BY <1>2, <2>1, <2>2 DEF Starting
    <2>4. Uses(ConnectNode(c) \o StopPulser, 0, F, {})
      BY <1>2, <1>5, <2>1
    <2>5. Uses(Halting(c), 0, F, {})
      BY <1>2, <1>6, <2>4 DEF Halting
    <2>6. /\ Uses(IF pulser /\ start THEN StartPulser ELSE StopPulser, 0, F, {})
          /\ Uses(IF start THEN DaqStart(FreshClient) ELSE DaqStop, 0, F, {})
      BY <1>5, <1>6, <1>8
    <2>7. Uses(ConnectNode(c) \o (IF pulser /\ start THEN StartPulser ELSE StopPulser), 0, F, {})
      BY <1>2, <2>1, <2>6
    <2>8. Uses(Controlling(c, start, pulser), 0, F, {})
      BY <1>2, <2>6, <2>7 DEF Controlling
    <2>. QED
      BY <2>3, <2>5, <2>8
  <1>. QED
    BY <1>9 DEF F

\* They keep what is known of the CoBo.
LEMMA AcquisitionFlows ==
    ASSUME NEW c, NEW d, Visited(d, c), NEW s, Uses(s, 0, Acquiring, {})
    PROVE  Carries(s, Sane(c), Sane(c), d)
  <1>1. Acquiring \cap {"ready", "buffer"} = {}
    BY DEF Acquiring, Modes, Base
  <1>2. Blind(Sane(c), Acquiring)
    BY <1>1, BlindSets
  <1>3. Scope(d, c, Masks(c).asads, Masks(c).chips)
    BY DEF Visited
  <1>. QED
    BY <1>2, <1>3, UsesCarries

\* How CoBo c sees a program: its own accesses, and the removal of all nodes.
View(c) == [mine |-> [l \in Int |-> l \in {c, NoCoBo}],
            board |-> [i \in Int |-> IF i = All THEN Masks(c).asads ELSE {i}],
            chip |-> [k \in Int |-> IF k = All THEN Masks(c).chips ELSE {k}],
            strict |-> TRUE, states |-> Sane(c)]

\* What it sees of its own part is a visit, and nothing of another's.
LEMMA Views ==
    ASSUME NEW c \in CoBos, NEW b \in CoBos
    PROVE  /\ b = c => Visited(ForCoBo(View(c), b), c)
           /\ b # c => \A l \in Int : ~ForCoBo(View(c), b).mine[l]
           /\ ForCoBo(View(c), b).states = Sane(c)
           /\ c \in Int /\ c # NoCoBo
  <1>1. b \in Int /\ c \in Int /\ c # NoCoBo /\ b # NoCoBo
    BY CoBosAssumption DEF NoCoBo
  <1>2. /\ View(c).mine = [l \in Int |-> l \in {c, NoCoBo}] /\ View(c).strict = TRUE
        /\ View(c).board = [i \in Int |-> IF i = All THEN Masks(c).asads ELSE {i}]
        /\ View(c).chip = [k \in Int |-> IF k = All THEN Masks(c).chips ELSE {k}]
        /\ View(c).states = Sane(c)
    BY DEF View
  <1>3. /\ ForCoBo(View(c), b).mine = [l \in Int |-> View(c).mine[b]]
        /\ ForCoBo(View(c), b).strict = View(c).strict /\ ForCoBo(View(c), b).board = View(c).board
        /\ ForCoBo(View(c), b).chip = View(c).chip /\ ForCoBo(View(c), b).states = View(c).states
    BY DEF ForCoBo
  <1>4. \A l \in Int : ForCoBo(View(c), b).mine[l] <=> b = c
    <2>1. View(c).mine[b] <=> b \in {c, NoCoBo}
      <3>. DEFINE mine == [l \in Int |-> l \in {c, NoCoBo}]
      <3>1. mine[b] = (b \in {c, NoCoBo})
        BY <1>1
      <3>2. View(c).mine = mine
        BY <1>2
      <3>. QED
        BY <3>1, <3>2, Zenon
    <2>2. ASSUME NEW l \in Int PROVE ForCoBo(View(c), b).mine[l] <=> View(c).mine[b]
      BY <1>3, Zenon
    <2>. QED
      BY <1>1, <2>1, <2>2
  <1>5. All \in Int /\ \A i \in AsAds : i \in Int /\ i # All
    BY DEF All, AsAds
  <1>6. \A k \in Chips : k \in Int /\ k # All
    BY DEF All, Chips
  <1>7. b = c => Visited(ForCoBo(View(c), b), c)
    BY <1>2, <1>3, <1>4, <1>5, <1>6 DEF Visited, Scope
  <1>. QED
    BY <1>1, <1>2, <1>3, <1>4, <1>7

\* What is done to another CoBo keeps everything.
LEMMA ElsewhereCarries ==
    ASSUME NEW c \in CoBos, NEW b \in CoBos, b # c, NEW s, Block(s, 0), NEW P, P \subseteq Sane(c)
    PROVE  Carries(On(b, s), P, P, View(c))
  <1>. DEFINE d == ForCoBo(View(c), b)
  <1>1. (\A l \in Int : ~d.mine[l]) /\ d.states = Sane(c)
    BY Views
  <1>2. b \in Int
    BY CoBosAssumption
  <1>. HIDE DEF d
  <1>3. ASSUME NEW k \in 1 .. Len(s) PROVE Keeps(s[k], P, d)
    <2>1. s[k].cobo \in Int
      BY DEF Block, Fit
    <2>. QED
      BY <1>1, <2>1 DEF Keeps, Meets, Source, Passed
  <1>4. Stays(s, 0, P, d)
    BY <1>1, <1>3 DEF Stays
  <1>5. Carries(s, P, P, d)
    BY <1>4, StaysCarries
  <1>. QED
    BY <1>2, <1>5, Targeted DEF d

\* The accesses that belong to no CoBo remove the nodes.
Aims(s) == \A k \in 1 .. Len(s) : s[k].op # "removeAll" => s[k].cobo \in CoBos
Steers(s, c, P, Q) == Aims(s) /\ Carries(s, P, Q, View(c))

\* One after another.
LEMMA SteersThen ==
    ASSUME NEW s, NEW t, NEW c, NEW P, NEW Q, NEW R, Steers(s, c, P, Q), Steers(t, c, Q, R)
    PROVE  Steers(s \o t, c, P, R)
  <1>1. IsSeq(s) /\ IsSeq(t)
    BY DEF Steers, Carries, Block
  <1>2. \A k \in 1 .. Len(s \o t) :
            \/ k \in 1 .. Len(s) /\ (s \o t)[k] = s[k]
            \/ k - Len(s) \in 1 .. Len(t) /\ (s \o t)[k] = t[k - Len(s)]
    BY <1>1, Concatenated, Elements
  <1>3. Aims(s \o t)
    BY <1>2 DEF Steers, Aims
  <1>4. Carries(s \o t, P, R, View(c))
    BY CarriesThen DEF Steers
  <1>. QED
    BY <1>3, <1>4 DEF Steers

\* The part of a program that is meant for one CoBo.
LEMMA SteersAt ==
    ASSUME NEW s, Block(s, 0), NEW b \in CoBos, NEW c, NEW P, NEW Q,
           Carries(On(b, s), P, Q, View(c))
    PROVE  Steers(On(b, s), c, P, Q)
  <1>1. IsSeq(s) /\ DOMAIN s = 1 .. Len(s) /\ \A k \in 1 .. Len(s) : Fit(s[k])
    BY Lengths DEF Block
  <1>2. IsSeq(On(b, s)) /\ Len(On(b, s)) = Len(s)
    BY <1>1, Elementwise DEF On
  <1>3. ASSUME NEW k \in 1 .. Len(s) PROVE On(b, s)[k].cobo = b
    <2>1. On(b, s)[k] = [s[k] EXCEPT !.cobo = b]
      BY <1>1 DEF On
    <2>2. Typed(s[k])
      BY <1>1 DEF Fit
    <2>. QED
      BY <2>1, <2>2 DEF Typed
  <1>4. Aims(On(b, s))
    BY <1>2, <1>3 DEF Aims
  <1>. QED
    BY <1>4 DEF Steers

\* What one part of a program does to CoBo c.
LEMMA PartsSteer ==
    ASSUME NEW c \in CoBos, NEW b \in CoBos
    PROVE  /\ b = c => Steers(LoadHw(b), c, Sane(c), Slow(c)) /\ Steers(Configure(b), c, Slow(c), Sane(c))
           /\ b # c => \A P : P \subseteq Sane(c) => Steers(LoadHw(b), c, P, P) /\ Steers(Configure(b), c, P, P)
           /\ \A s : Uses(s, 0, Acquiring, {}) => Steers(On(b, s), c, Sane(c), Sane(c))
  <1>. DEFINE d == ForCoBo(View(b), b)
  <1>1. Visited(d, b) /\ b \in Int
    BY Views
  <1>2. Sane(c) \subseteq Sane(c)
    OBVIOUS
  <1>3. Carries(Loading(b), Sane(b), Slow(b), d) /\ Carries(Configuring(b), Slow(b), Sane(b), d)
    BY <1>1, LoadingFlows, ConfiguringFlows
  <1>4. \A s : Uses(s, 0, Acquiring, {}) => Carries(s, Sane(b), Sane(b), d)
    BY <1>1, AcquisitionFlows
  <1>5. Block(Loading(b), 0) /\ Block(Configuring(b), 0)
    BY <1>3 DEF Carries
  <1>6. LoadHw(b) = On(b, Loading(b)) /\ Configure(b) = On(b, Configuring(b))
    BY DEF LoadHw, Loading, Configure, Configuring
  <1>. HIDE DEF d
  <1>7. CASE b = c
    <2>1. /\ Carries(On(c, Loading(c)), Sane(c), Slow(c), View(c))
          /\ Carries(On(c, Configuring(c)), Slow(c), Sane(c), View(c))
      BY <1>1, <1>3, <1>5, <1>7, Targeted DEF d
    <2>2. ASSUME NEW s, Uses(s, 0, Acquiring, {}) PROVE Steers(On(b, s), c, Sane(c), Sane(c))
      <3>1. Block(s, 0)
        BY <2>2 DEF Uses
      <3>2. Carries(s, Sane(c), Sane(c), ForCoBo(View(c), c))
        BY <1>4, <1>7, <2>2 DEF d
      <3>3. Carries(On(c, s), Sane(c), Sane(c), View(c))
        BY <1>1, <1>7, <3>1, <3>2, Targeted
      <3>. QED
        BY <1>7, <3>1, <3>3, SteersAt
    <2>. QED
      BY <1>5, <1>6, <1>7, <2>1, <2>2, SteersAt
  <1>8. CASE b # c
    <2>1. ASSUME NEW s, Block(s, 0), NEW P, P \subseteq Sane(c) PROVE Steers(On(b, s), c, P, P)
      BY <1>8, <2>1, ElsewhereCarries, SteersAt
    <2>2. \A s : Uses(s, 0, Acquiring, {}) => Block(s, 0)
      BY DEF Uses
    <2>. QED
      BY <1>2, <1>5, <1>6, <1>8, <2>1, <2>2
  <1>. QED
    BY <1>7, <1>8

\* A program of such parts.
LEMMA SteersAll ==
    ASSUME NEW c \in CoBos, NEW P, P \subseteq Sane(c), NEW N \in Nat, NEW seqs, DOMAIN seqs = 1 .. N,
           seqs = [n \in 1 .. N |-> seqs[n]], \A n \in 1 .. N : Steers(seqs[n], c, P, P)
    PROVE  Steers(FlattenSeq(seqs), c, P, P)
  <1>1. \A n \in 1 .. N : IsSeq(seqs[n])
    BY DEF Steers, Carries, Block
  <1>2. PICK A : \A n \in 1 .. N : seqs[n] \in Seq(A)
    BY <1>1, OneSet
  <1>. DEFINE S == {s \in Seq(A) : Steers(s, c, P, P)}
  <1>3. << >> \in S
    <2>1. Carries(<< >>, P, P, View(c))
      <3>1. P \subseteq View(c).states
        BY DEF View
      <3>2. Stays(<< >>, 0, P, View(c))
        BY <3>1, NothingStays
      <3>. QED
        BY <3>2, StaysCarries
    <2>2. Aims(<< >>)
      BY DEF Aims
    <2>. QED
      BY <2>1, <2>2 DEF Steers
  <1>4. \A s, t \in S : s \o t \in S
    BY ConcatProperties, SteersThen
  <1>5. seqs \in [1 .. N -> S]
    BY <1>2
  <1>. HIDE DEF S
  <1>6. FlattenSeq(seqs) \in S
    BY <1>3, <1>4, <1>5, FlattenClosed
  <1>. QED
    BY <1>6 DEF S

\* A program one part of which is for CoBo c, whatever comes before and after it.
LEMMA SteersOnce ==
    ASSUME NEW c \in CoBos, NEW P, P \subseteq Sane(c), NEW Q, Q \subseteq Sane(c),
           NEW N \in Nat, NEW seqs, DOMAIN seqs = 1 .. N, seqs = [n \in 1 .. N |-> seqs[n]],
           NEW m \in 1 .. N, Steers(seqs[m], c, P, Q),
           \A n \in 1 .. N : n # m => Steers(seqs[n], c, P, P) /\ Steers(seqs[n], c, Q, Q)
    PROVE  Steers(FlattenSeq(seqs), c, P, Q)
  <1>1. \A n \in 1 .. N : IsSeq(seqs[n])
    <2>1. \A n \in 1 .. N : \E R, U : Steers(seqs[n], c, R, U)
      OBVIOUS
    <2>. QED
      BY <2>1 DEF Steers, Carries, Block
  <1>2. PICK A : \A n \in 1 .. N : seqs[n] \in Seq(A)
    BY <1>1, OneSet
  <1>. DEFINE S == Seq(A)
              E == {s \in S : Steers(s, c, P, P) /\ Steers(s, c, Q, Q)}
              T == {s \in S : Steers(s, c, P, Q)}
  <1>3. << >> \in S /\ \A s, t \in S : s \o t \in S
    BY ConcatProperties
  <1>4. \A s, t \in E : s \o t \in E
    <2>1. ASSUME NEW s \in E, NEW t \in E PROVE s \o t \in E
      <3>1. s \o t \in S
        BY <1>3
      <3>2. Steers(s \o t, c, P, P) /\ Steers(s \o t, c, Q, Q)
        BY SteersThen
      <3>. QED
        BY <3>1, <3>2
    <2>. QED
      BY <2>1
  <1>5. \A s \in E, t \in T : s \o t \in T /\ t \o s \in T
    <2>1. ASSUME NEW s \in E, NEW t \in T PROVE s \o t \in T /\ t \o s \in T
      <3>1. s \o t \in S /\ t \o s \in S
        BY <1>3
      <3>2. Steers(s \o t, c, P, Q) /\ Steers(t \o s, c, P, Q)
        BY SteersThen
      <3>. QED
        BY <3>1, <3>2
    <2>. QED
      BY <2>1
  <1>6. /\ seqs \in [1 .. N -> S] /\ E \in SUBSET S /\ T \in SUBSET S /\ seqs[m] \in T
        /\ \A n \in 1 .. N : n # m => seqs[n] \in E
    BY <1>2
  <1>. HIDE DEF S, E, T
  <1>7. FlattenSeq(seqs) \in T
    BY <1>3, <1>4, <1>5, <1>6, FlattenOnce
  <1>. QED
    BY <1>7 DEF T

\* The removal of the nodes.
LEMMA RemovalSteers == ASSUME NEW c PROVE Steers(RemoveAllNodes, c, Sane(c), Sane(c))
  <1>. DEFINE a == RemoveAllNodes[1]
  <1>1. Suits("removeAll", 0) /\ "server" \in Devices
    BY DEF Suits, Devices
  <1>2. Fit(a) /\ a.op = "removeAll" /\ Len(RemoveAllNodes) = 1
    BY <1>1, AccessFits DEF RemoveAllNodes
  <1>3. \A x : Alters(a, x) => x \in Base
    BY <1>2 DEF Alters, Base
  <1>4. Uses(RemoveAllNodes, 0, Base, {})
    BY <1>2, <1>3, UsesAccess DEF RemoveAllNodes
  <1>5. Blind(Sane(c), Base)
    <2>1. Base \cap {"ready", "buffer"} = {}
      BY DEF Base
    <2>. QED
      BY <2>1, BlindSets
  <1>6. Sane(c) \subseteq View(c).states /\ Serves(Sane(c), {}, View(c))
    BY DEF View, Serves
  <1>7. Carries(RemoveAllNodes, Sane(c), Sane(c), View(c))
    BY <1>4, <1>5, <1>6, UsesStays, StaysCarries
  <1>8. \A k \in 1 .. Len(RemoveAllNodes) : RemoveAllNodes[k].op = "removeAll"
    <2>1. \A k \in 1 .. 1 : k = 1
      OBVIOUS
    <2>. QED
      BY <1>2, <2>1
  <1>9. Aims(RemoveAllNodes)
    BY <1>8 DEF Aims
  <1>. QED
    BY <1>7, <1>9 DEF Steers

\* The parts for the targets of a program: all the CoBos' states are kept.
LEMMA TargetsSteer ==
    ASSUME NEW targets \in Seq(CoBos), NEW c \in CoBos, NEW P, P \subseteq Sane(c), NEW part,
           DOMAIN part = CoBos, \A n \in DOMAIN targets : Steers(part[targets[n]], c, P, P)
    PROVE  Steers(FlattenSeq([n \in DOMAIN targets |-> part[targets[n]]]), c, P, P)
  <1>. DEFINE seqs == [n \in DOMAIN targets |-> part[targets[n]]]
  <1>1. DOMAIN targets = 1 .. Len(targets) /\ Len(targets) \in Nat
    BY LenProperties
  <1>2. /\ DOMAIN seqs = 1 .. Len(targets) /\ seqs = [n \in 1 .. Len(targets) |-> seqs[n]]
        /\ \A n \in 1 .. Len(targets) : Steers(seqs[n], c, P, P)
    BY <1>1
  <1>. HIDE DEF seqs
  <1>3. Steers(FlattenSeq(seqs), c, P, P)
    BY <1>1, <1>2, SteersAll
  <1>. QED
    BY <1>3 DEF seqs

\* The configuration of the targets, each once.  A CoBo that is configured has
\* been loaded.
LEMMA ConfigureProgramSteers ==
    ASSUME NEW targets \in Seq(CoBos), IsInjective(targets), NEW c \in CoBos
    PROVE  Steers(ConfigureProgram(targets), c, Sane(c), Sane(c))
  <1>. DEFINE load == [b \in CoBos |-> LoadHw(b)]
              conf == [b \in CoBos |-> Configure(b)]
              loads == [n \in DOMAIN targets |-> load[targets[n]]]
              confs == [n \in DOMAIN targets |-> conf[targets[n]]]
              L == FlattenSeq(loads)
              C == FlattenSeq(confs)
  <1>1. /\ DOMAIN targets = 1 .. Len(targets) /\ Len(targets) \in Nat
        /\ \A n \in DOMAIN targets : targets[n] \in CoBos
    BY LenProperties
  <1>2. DOMAIN load = CoBos /\ DOMAIN conf = CoBos
        /\ \A b \in CoBos : load[b] = LoadHw(b) /\ conf[b] = Configure(b)
    OBVIOUS
  <1>3. EachTarget(targets, LoadHw) = L /\ EachTarget(targets, Configure) = C
    <2>1. /\ loads = [n \in DOMAIN targets |-> LoadHw(targets[n])]
          /\ confs = [n \in DOMAIN targets |-> Configure(targets[n])]
      BY <1>1, <1>2
    <2>. QED
      BY <2>1 DEF EachTarget
  <1>4. /\ DOMAIN loads = 1 .. Len(targets) /\ loads = [n \in 1 .. Len(targets) |-> loads[n]]
        /\ DOMAIN confs = 1 .. Len(targets) /\ confs = [n \in 1 .. Len(targets) |-> confs[n]]
        /\ \A n \in 1 .. Len(targets) : loads[n] = load[targets[n]] /\ confs[n] = conf[targets[n]]
    BY <1>1
  <1>5. Slow(c) \subseteq Sane(c) /\ Sane(c) \subseteq Sane(c)
    BY DEF Slow, Lit
  <1>. HIDE DEF load, conf
  <1>6. ASSUME NEW n \in 1 .. Len(targets), targets[n] # c, NEW P, P \subseteq Sane(c)
        PROVE  Steers(loads[n], c, P, P) /\ Steers(confs[n], c, P, P)
    <2>. HIDE DEF loads, confs
    <2>. QED
      BY <1>1, <1>2, <1>4, <1>6, PartsSteer
  <1>7. Steers(RemoveAllNodes \o L \o C, c, Sane(c), Sane(c))
    <2>1. CASE \E m \in DOMAIN targets : targets[m] = c
      <3>1. PICK m \in 1 .. Len(targets) : targets[m] = c
        BY <1>1, <2>1
      <3>2. \A n \in 1 .. Len(targets) : n # m => targets[n] # c
        BY <1>1, <3>1 DEF IsInjective
      <3>. HIDE DEF loads, confs
      <3>3. Steers(loads[m], c, Sane(c), Slow(c)) /\ Steers(confs[m], c, Slow(c), Sane(c))
        BY <1>1, <1>2, <1>4, <3>1, PartsSteer
      <3>4. \A n \in 1 .. Len(targets) : n # m =>
                /\ Steers(loads[n], c, Sane(c), Sane(c)) /\ Steers(loads[n], c, Slow(c), Slow(c))
                /\ Steers(confs[n], c, Sane(c), Sane(c)) /\ Steers(confs[n], c, Slow(c), Slow(c))
        BY <1>5, <1>6, <3>2
      <3>5. Steers(L, c, Sane(c), Slow(c)) /\ Steers(C, c, Slow(c), Sane(c))
        BY <1>1, <1>4, <1>5, <3>3, <3>4, SteersOnce
      <3>. HIDE DEF L, C
      <3>6. Steers(RemoveAllNodes \o L, c, Sane(c), Slow(c))
        BY <3>5, RemovalSteers, SteersThen
      <3>. QED
        BY <3>5, <3>6, SteersThen
    <2>2. CASE \A m \in DOMAIN targets : targets[m] # c
      <3>1. \A n \in 1 .. Len(targets) : /\ Steers(loads[n], c, Sane(c), Sane(c))
                                          /\ Steers(confs[n], c, Sane(c), Sane(c))
        <4>. HIDE DEF loads, confs
        <4>. QED
          BY <1>1, <1>5, <1>6, <2>2
      <3>. HIDE DEF loads, confs
      <3>2. Steers(L, c, Sane(c), Sane(c)) /\ Steers(C, c, Sane(c), Sane(c))
        BY <1>1, <1>4, <1>5, <3>1, SteersAll
      <3>. HIDE DEF L, C
      <3>3. Steers(RemoveAllNodes \o L, c, Sane(c), Sane(c))
        BY <3>2, RemovalSteers, SteersThen
      <3>. QED
        BY <3>2, <3>3, SteersThen
    <2>. QED
      BY <2>1, <2>2
  <1>. HIDE DEF L, C
  <1>. QED
    BY <1>3, <1>7 DEF ConfigureProgram

\* The programs that start and stop data acquisition.
LEMMA AcquisitionSteers ==
    ASSUME NEW targets \in Seq(CoBos), NEW c \in CoBos, NEW part, DOMAIN part = CoBos,
           \A b \in CoBos : Uses(part[b], 0, Acquiring, {})
    PROVE  Steers(FlattenSeq([n \in DOMAIN targets |-> On(targets[n], part[targets[n]])]),
                  c, Sane(c), Sane(c))
  <1>. DEFINE parts == [b \in CoBos |-> On(b, part[b])]
  <1>1. \A n \in DOMAIN targets : targets[n] \in CoBos
    BY LenProperties
  <1>2. DOMAIN parts = CoBos /\ \A b \in CoBos : parts[b] = On(b, part[b])
    OBVIOUS
  <1>3. [n \in DOMAIN targets |-> On(targets[n], part[targets[n]])]
            = [n \in DOMAIN targets |-> parts[targets[n]]]
    BY <1>1, <1>2
  <1>. HIDE DEF parts
  <1>4. \A n \in DOMAIN targets : Steers(parts[targets[n]], c, Sane(c), Sane(c))
    BY <1>1, <1>2, PartsSteer
  <1>5. Sane(c) \subseteq Sane(c)
    OBVIOUS
  <1>6. Steers(FlattenSeq([n \in DOMAIN targets |-> parts[targets[n]]]), c, Sane(c), Sane(c))
    BY <1>2, <1>4, <1>5, TargetsSteer
  <1>. QED
    BY <1>3, <1>6

\* Every program leaves a CoBo in a sane state that it finds in one.
LEMMA ScriptsSteer ==
    ASSUME NEW p \in Programs, NEW c \in CoBos PROVE Steers(Script[p], c, Sane(c), Sane(c))
  <1>. DEFINE targets == Launches[p].targets
              pulser == Launches[p].pulser
  <1>1. targets \in Seq(CoBos)
        /\ Launches[p].program \in {"configure", "daqstart", "daqstop", "start", "stop"}
    BY LaunchesAssumption
  <1>2. Script[p] = ScriptOf(Launches[p])
    BY DEF Script
  <1>3. \A n \in DOMAIN targets : targets[n] \in CoBos
    BY <1>1, LenProperties
  <1>4. ASSUME NEW start PROVE Steers(DaqControlProgram(targets, start, pulser), c, Sane(c), Sane(c))
    <2>. DEFINE part == [b \in CoBos |-> Controlling(b, start, pulser)]
    <2>1. DOMAIN part = CoBos /\ \A b \in CoBos : Uses(part[b], 0, Acquiring, {})
      BY UsesAcquisition
    <2>2. DaqControlProgram(targets, start, pulser)
              = FlattenSeq([n \in DOMAIN targets |-> On(targets[n], part[targets[n]])])
      BY <1>3 DEF DaqControlProgram, EachTarget, Controlling
    <2>. HIDE DEF part
    <2>. QED
      BY <1>1, <2>1, <2>2, AcquisitionSteers
  <1>5. Steers(DaqStartProgram(targets, pulser), c, Sane(c), Sane(c))
    <2>. DEFINE part == [b \in CoBos |-> Starting(b, pulser)]
    <2>1. DOMAIN part = CoBos /\ \A b \in CoBos : Uses(part[b], 0, Acquiring, {})
      BY UsesAcquisition
    <2>2. DaqStartProgram(targets, pulser)
              = FlattenSeq([n \in DOMAIN targets |-> On(targets[n], part[targets[n]])])
      BY <1>3 DEF DaqStartProgram, EachTarget, Starting
    <2>. HIDE DEF part
    <2>. QED
      BY <1>1, <2>1, <2>2, AcquisitionSteers
  <1>6. Steers(DaqStopProgram(targets), c, Sane(c), Sane(c))
    <2>. DEFINE part == [b \in CoBos |-> Halting(b)]
    <2>1. DOMAIN part = CoBos /\ \A b \in CoBos : Uses(part[b], 0, Acquiring, {})
      BY UsesAcquisition
    <2>2. DaqStopProgram(targets)
              = FlattenSeq([n \in DOMAIN targets |-> On(targets[n], part[targets[n]])])
      BY <1>3 DEF DaqStopProgram, EachTarget, Halting
    <2>. HIDE DEF part
    <2>. QED
      BY <1>1, <2>1, <2>2, AcquisitionSteers
  <1>7. Launches[p].program = "configure" => Steers(ConfigureProgram(targets), c, Sane(c), Sane(c))
    BY <1>1, LaunchesAssumption, ConfigureProgramSteers
  <1>. HIDE DEF targets, pulser
  <1>8. \/ Launches[p].program = "configure" /\ Script[p] = ConfigureProgram(targets)
        \/ Script[p] = DaqStartProgram(targets, pulser) \/ Script[p] = DaqStopProgram(targets)
        \/ Script[p] = DaqControlProgram(targets, TRUE, pulser)
        \/ Script[p] = DaqControlProgram(targets, FALSE, pulser)
    BY <1>1, <1>2 DEF ScriptOf, targets, pulser
  <1>. QED
    BY <1>4, <1>5, <1>6, <1>7, <1>8

-------------------------------------------------------------------------------
(* The states of the CoBos                                                     *)

\* The states in which CoBo c may be when program p comes to an access.
Road(p, c) == CHOOSE asn : /\ Way(Script[p], asn, View(c))
                           /\ Sane(c) \subseteq asn[1] /\ asn[Len(Script[p]) + 1] \subseteq Sane(c)
\* Unless a write to it was left out, a CoBo is where the program that runs has
\* brought it, and in a sane state when none runs.
Known(c) ==
    /\ hw[c] \in CoBoStates
    /\ ~hw[c].quiet => /\ hw[c] \in Sane(c)
                       /\ \A p \in Programs : Running(p) => hw[c] \in Road(p, c)[pc[p]]
StateInv == \A c \in CoBos : Known(c)

\* The roads.
LEMMA Roads ==
    ASSUME NEW p \in Programs, NEW c \in CoBos
    PROVE  /\ Road(p, c) \in [1 .. (Len(Script[p]) + 1) -> SUBSET Sane(c)]
           /\ \A k \in 1 .. Len(Script[p]) : Links(Script[p], k, Road(p, c), View(c)) /\ Fit(Script[p][k])
           /\ Sane(c) \subseteq Road(p, c)[1] /\ Aims(Script[p])
           /\ Block(Script[p], 0)
  <1>1. Aims(Script[p]) /\ Carries(Script[p], Sane(c), Sane(c), View(c))
    BY ScriptsSteer DEF Steers
  <1>2. \E asn : /\ Way(Script[p], asn, View(c))
                 /\ Sane(c) \subseteq asn[1] /\ asn[Len(Script[p]) + 1] \subseteq Sane(c)
    BY <1>1 DEF Carries
  <1>3. /\ Way(Script[p], Road(p, c), View(c)) /\ Sane(c) \subseteq Road(p, c)[1]
        /\ Road(p, c)[Len(Script[p]) + 1] \subseteq Sane(c)
    BY <1>2 DEF Road
  <1>4. View(c).states = Sane(c)
    BY DEF View
  <1>5. Block(Script[p], 0)
    BY <1>1 DEF Carries
  <1>. QED
    BY <1>1, <1>3, <1>4, <1>5 DEF Way, Block

\* Whose an access is.
LEMMA Owners ==
    ASSUME SessionInv, NEW p \in Programs, InScript(p), NEW c \in CoBos
    PROVE  /\ pc[p] \in 1 .. Len(Script[p]) /\ Len(Script[p]) \in Nat
           /\ Fit(Current(p)) /\ Placed(Current(p))
           /\ OfNode(Current(p)) => Current(p).rest = Raise
           /\ ~OfNode(Current(p)) => Current(p).cobo = node /\ node \in CoBos
           /\ ~OfNode(Current(p)) => (View(c).mine[Current(p).cobo] <=> c = node)
           /\ Current(p).op = "removeAll" => View(c).mine[Current(p).cobo]
  <1>1. pc[p] \in 1 .. Len(Script[p]) /\ Len(Script[p]) \in Nat
    BY Courses DEF InScript
  <1>. DEFINE a == Current(p)
  <1>2. Fit(a) /\ Placed(a) /\ (a.op # "removeAll" => a.cobo \in CoBos)
    BY <1>1, Roads, Courses DEF Current, Aims
  <1>3. ~OfNode(a) => a.cobo = node /\ node \in CoBos
    BY <1>1, <1>2 DEF SessionInv, CourseInv, InScript, OfNode, a
  <1>. HIDE DEF a
  <1>4. NoCoBo \in Int /\ \A b \in CoBos : b \in Int /\ b # NoCoBo
    BY CoBosAssumption DEF NoCoBo
  <1>5. ASSUME NEW l \in Int PROVE View(c).mine[l] <=> l \in {c, NoCoBo}
    <2>. DEFINE mine == [x \in Int |-> x \in {c, NoCoBo}]
    <2>1. mine[l] = (l \in {c, NoCoBo})
      OBVIOUS
    <2>2. View(c).mine = mine
      BY DEF View
    <2>. QED
      BY <2>1, <2>2, Zenon
  <1>6. a.op = "removeAll" => a.cobo = NoCoBo
    BY <1>2 DEF Placed
  <1>7. ~OfNode(a) => (View(c).mine[a.cobo] <=> c = node)
    <2>1. SUFFICES ASSUME ~OfNode(a) PROVE View(c).mine[a.cobo] <=> c = node
      OBVIOUS
    <2>2. a.cobo \in Int /\ a.cobo # NoCoBo /\ a.cobo = node
      BY <1>3, <1>4, <2>1
    <2>3. View(c).mine[a.cobo] <=> a.cobo \in {c, NoCoBo}
      BY <1>5, <2>2
    <2>. QED
      BY <2>2, <2>3
  <1>8. a.op = "removeAll" => View(c).mine[a.cobo]
    BY <1>4, <1>5, <1>6
  <1>9. OfNode(a) => a.rest = Raise
    BY <1>2 DEF Placed
  <1>. QED
    BY <1>1, <1>2, <1>3, <1>7, <1>8, <1>9 DEF a

\* Only initDone, set or cleared, makes a CoBo known again.
LEMMA TurnedQuiet ==
    ASSUME NEW h \in CoBoStates, NEW a, Fit(a)
    PROVE  /\ ~(a.op = "initDone" /\ ~a.arg) => Turned(h, a).quiet = h.quiet
           /\ Pulsed(h).quiet = h.quiet
  <1>1. Pulsed(h).quiet = h.quiet
    BY DEF Pulsed, CoBoStates
  <1>2. CASE a.op = "initDone" /\ a.arg
    <2>1. Turned(h, a) = [h EXCEPT !.ready = a.arg, !.quiet = @ /\ a.arg]
      BY <1>2 DEF Turned, Calls, After
    <2>2. a.arg = TRUE
      BY <1>2 DEF Fit
    <2>3. Turned(h, a).quiet = (h.quiet /\ TRUE) /\ h.quiet \in BOOLEAN
      BY <2>1, <2>2 DEF CoBoStates
    <2>4. Turned(h, a).quiet = h.quiet
      BY <2>3
    <2>. QED
      BY <1>1, <2>4
  <1>3. CASE a.op # "initDone"
    <2>. DEFINE F == {"described", "router", "ready", "running", "pulsing", "asadMask", "enabled",
                      "pulse", "hitRegister", "fast", "power", "asad", "chip", "mask", "buffer",
                      "set", "pulsed"}
    <2>1. \A x : Alters(a, x) => x \in F
      BY <1>3 DEF Alters
    <2>2. "quiet" \notin F
      OBVIOUS
    <2>. HIDE DEF F
    <2>3. Same(Turned(h, a), IF Alters(a, "pulsed") THEN Pulsed(h) ELSE h, F)
      BY <2>1, TurnedSame
    <2>. QED
      BY <1>1, <2>2, <2>3 DEF Same
  <1>. QED
    BY <1>1, <1>2, <1>3

\* At the start nothing is known to be set, and no CoBo is ready.
LEMMA StatesStart == Init => StateInv
  <1>1. Unset \in CoBoStates /\ ~Unset.ready
    <2>1. [i \in AsAds |-> <<0, 0>>] \in Buffers
      BY DEF Buffers
    <2>2. {} \in SUBSET Chips /\ {} \in SUBSET AsAds /\ 0 \in AsAds /\ 0 \in Chips
          /\ {} \in SUBSET (Devices \X Groups \X Int)
      BY DEF AsAds, Chips
    <2>. QED
      BY <2>1, <2>2 DEF Unset, CoBoStates
  <1>2. \A c : Unset \in Sane(c)
    BY <1>1 DEF Sane
  <1>. SUFFICES ASSUME Init, NEW c \in CoBos PROVE Known(c)
    BY DEF StateInv
  <1>3. hw[c] = Unset /\ \A p \in Programs : ~Running(p)
    BY DEF Init, Running
  <1>. QED
    BY <1>1, <1>2, <1>3 DEF Known

\* A program goes on to an access where the CoBo may be as it is.
LEMMA Arrivals ==
    ASSUME Overlap = FALSE, SessionInv, [Next]_vars, NEW p \in Programs, InScript(p), NEW n,
           Reaches(Current(p), n), pc' = [pc EXCEPT ![p] = @ + n], NEW c \in CoBos,
           hw'[c] \in CoBoStates, ~hw'[c].quiet => hw'[c] \in Road(p, c)[pc[p] + n]
    PROVE  Known(c)'
  <1>1. pc[p] \in 1 .. Len(Script[p]) /\ Len(Script[p]) \in Nat
    BY Owners
  <1>2. n \in 1 .. (Len(Script[p]) + 1 - pc[p])
    <2>1. Reaches(Script[p][pc[p]], n) /\ Block(Script[p], 0)
      BY Roads DEF Current
    <2>2. n \in 1 .. (Len(Script[p]) + 1 + 0 - pc[p])
      BY <1>1, <2>1 DEF Block
    <2>. QED
      BY <1>1, <2>2
  <1>3. pc[p] + n \in 1 .. (Len(Script[p]) + 1)
    BY <1>1, <1>2
  <1>4. pc'[p] = pc[p] + n
    BY DEF SessionInv, TypesInv, CountInv
  <1>5. pc'[p] # 0
    BY <1>3, <1>4
  <1>6. Road(p, c) \in [1 .. (Len(Script[p]) + 1) -> SUBSET Sane(c)]
    BY Roads
  <1>7. ~hw'[c].quiet => hw'[c] \in Sane(c)
    BY <1>3, <1>6
  <1>8. AloneInv'
    BY CourseGoesOn
  <1>9. \A q \in Programs : pc'[q] # 0 => q = p
    BY <1>5, <1>8 DEF AloneInv, Running
  <1>. QED
    BY <1>4, <1>7, <1>9 DEF Known, Running

\* A program ends.
LEMMA Departures ==
    ASSUME Overlap = FALSE, SessionInv, StateInv, NEW p \in Programs, Running(p),
           pc' = [pc EXCEPT ![p] = 0], NEW c \in CoBos,
           hw'[c] \in CoBoStates, ~hw'[c].quiet => hw'[c] \in Sane(c)
    PROVE  Known(c)'
  <1>1. ASSUME NEW q \in Programs PROVE pc'[q] = 0
    <2>1. pc \in [Programs -> Nat]
      BY DEF SessionInv, TypesInv, CountInv
    <2>2. q # p => pc[q] = 0
      BY DEF SessionInv, AloneInv, Running
    <2>. QED
      BY <2>1, <2>2
  <1>. QED
    BY <1>1 DEF Known, Running

\* What is known of a CoBo where the program is.
LEMMA Standing ==
    ASSUME StateInv, SessionInv, NEW p \in Programs, InScript(p), NEW c \in CoBos
    PROVE  /\ hw[c] \in CoBoStates
           /\ ~hw[c].quiet => hw[c] \in Road(p, c)[pc[p]] /\ hw[c] \in Sane(c)
           /\ Links(Script[p], pc[p], Road(p, c), View(c)) /\ Current(p) = Script[p][pc[p]]
  <1>1. pc[p] \in 1 .. Len(Script[p])
    BY Owners
  <1>2. Running(p)
    BY DEF InScript
  <1>3. Known(c)
    BY DEF StateInv
  <1>4. Links(Script[p], pc[p], Road(p, c), View(c))
    BY <1>1, Roads
  <1>. QED
    BY <1>2, <1>3, <1>4 DEF Known, Current

\* An access that succeeds.
LEMMA Succeeds ==
    ASSUME Overlap = FALSE, SessionInv, StateInv, [Next]_vars, NEW p \in Programs, InScript(p),
           NEW n, Leap(Current(p), n), pc' = [pc EXCEPT ![p] = @ + n], NEW c \in CoBos,
           hw'[c] = Passed(hw[c], Current(p), View(c))
    PROVE  Known(c)'
  <1>. DEFINE a == Current(p)
              h == hw[c]
              R == Road(p, c)
              k == pc[p]
              d == View(c)
  <1>1. Fit(a) /\ Reaches(a, n)
    BY Owners DEF Reaches
  <1>2. /\ h \in CoBoStates /\ (~h.quiet => h \in R[k])
        /\ Links(Script[p], k, R, d) /\ a = Script[p][k]
    BY Standing
  <1>3. \A g \in Source(a, R[k], d) : Passed(g, a, d) \in R[k + n]
    BY <1>2 DEF Links
  <1>4. Passed(h, a, d) \in CoBoStates
    BY <1>1, <1>2, TurnedFits DEF Passed
  <1>5. ASSUME ~Passed(h, a, d).quiet PROVE h \in Source(a, R[k], d)
    <2>1. CASE d.mine[a.cobo] /\ a.op = "initDone" /\ ~a.arg
      BY <1>2, <2>1 DEF Source
    <2>2. CASE d.mine[a.cobo] /\ ~(a.op = "initDone" /\ ~a.arg)
      <3>1. Turned(h, a).quiet = h.quiet
        BY <1>1, <1>2, <2>2, TurnedQuiet
      <3>2. Passed(h, a, d) = Turned(h, a)
        BY <2>2 DEF Passed
      <3>3. h \in R[k]
        BY <1>2, <1>5, <3>1, <3>2
      <3>. QED
        BY <2>2, <3>3 DEF Source
    <2>3. CASE ~d.mine[a.cobo]
      BY <1>2, <1>5, <2>3 DEF Source, Passed
    <2>. QED
      BY <2>1, <2>2, <2>3
  <1>6. hw'[c] \in CoBoStates /\ (~hw'[c].quiet => hw'[c] \in R[k + n])
    BY <1>3, <1>4, <1>5
  <1>. QED
    BY <1>1, <1>6, Arrivals

\* An error that is swallowed: either nothing was left out that is written to
\* the CoBo, or that is not known any more.
LEMMA Swallows ==
    ASSUME Overlap = FALSE, SessionInv, StateInv, [Next]_vars, NEW p \in Programs, InScript(p),
           CallFails(p), Current(p).rest # Raise, NEW c \in CoBos
    PROVE  Known(c)'
  <1>. DEFINE a == Current(p)
              h == hw[c]
              R == Road(p, c)
              k == pc[p]
              d == View(c)
              lost == \E b \in Skipped(p) : ~Harmless(b)
  <1>1. /\ a.op # "jump" /\ pc' = [pc EXCEPT ![p] = @ + a.rest]
        /\ hw' = IF node # NoCoBo /\ lost THEN [hw EXCEPT ![node].quiet = TRUE] ELSE hw
    BY DEF CallFails, Harmless
  <1>2. ~OfNode(a) /\ Fit(a) /\ a.cobo = node /\ node \in CoBos /\ (d.mine[a.cobo] <=> c = node)
    BY Owners
  <1>3. Reaches(a, a.rest)
    BY DEF Reaches
  <1>4. /\ h \in CoBoStates /\ (~h.quiet => h \in R[k])
        /\ Links(Script[p], k, R, d) /\ a = Script[p][k]
    BY Standing
  <1>5. hw = [b \in CoBos |-> hw[b]] /\ node # NoCoBo
    <2>1. node \in Nat
      BY <1>2, CoBosAssumption
    <2>. QED
      BY <2>1 DEF SessionInv, TypesInv, HwInv, NoCoBo
  <1>6. Skipped(p) = {Script[p][i] : i \in k .. (k + a.rest - 1)}
    BY DEF Skipped
  <1>. HIDE DEF a
  <1>7. CASE lost /\ c = node
    <2>. DEFINE g == [h EXCEPT !.quiet = TRUE]
    <2>1. hw'[c] = g
      BY <1>1, <1>2, <1>5, <1>7
    <2>2. g \in CoBoStates /\ g.quiet = TRUE
      <3>1. PICK b \in BOOLEAN : b = TRUE
        OBVIOUS
      <3>2. [h EXCEPT !.quiet = b] \in CoBoStates
        BY <1>4, StateSet
      <3>3. [h EXCEPT !.quiet = b].quiet = b
        BY <1>4 DEF CoBoStates
      <3>. QED
        BY <3>1, <3>2, <3>3
    <2>. QED
      BY <1>1, <1>3, <2>1, <2>2, Arrivals DEF a
  <1>8. CASE ~(lost /\ c = node)
    <2>1. hw'[c] = h
      BY <1>1, <1>2, <1>5, <1>8
    <2>2. ~d.mine[a.cobo] \/ \A i \in k .. (k + a.rest - 1) : Harmless(Script[p][i])
      BY <1>2, <1>6, <1>8
    <2>3. R[k] \subseteq R[k + a.rest]
      BY <1>4, <2>2 DEF Links, a
    <2>4. ~hw'[c].quiet => hw'[c] \in R[k + a.rest]
      BY <1>4, <2>1, <2>3
    <2>. QED
      BY <1>1, <1>3, <1>4, <2>1, <2>4, Arrivals DEF a
  <1>. QED
    BY <1>7, <1>8

\* Every step keeps what is known of the CoBos.
LEMMA StatesGoOn ==
    ASSUME Overlap = FALSE PROVE SessionInv /\ StateInv /\ [Next]_vars => StateInv'
  <1>. SUFFICES ASSUME SessionInv, StateInv, [Next]_vars, NEW c \in CoBos PROVE Known(c)'
    BY DEF StateInv
  <1>1. Known(c) /\ hw = [b \in CoBos |-> hw[b]] /\ pc \in [Programs -> Nat]
    BY DEF StateInv, SessionInv, TypesInv, HwInv, CountInv
  <1>2. CASE UNCHANGED vars
    BY <1>1, <1>2 DEF vars, Known, Running
  <1>3. ASSUME NEW p \in Programs, Launch(p) PROVE Known(c)'
    <2>1. hw' = hw /\ pc' = [pc EXCEPT ![p] = 1] /\ \A q \in Programs : pc[q] = 0
      BY <1>3 DEF Launch, Running
    <2>2. \A q \in Programs : pc'[q] # 0 => q = p /\ pc'[q] = 1
      BY <1>1, <2>1
    <2>3. Sane(c) \subseteq Road(p, c)[1]
      BY Roads
    <2>. QED
      BY <1>1, <2>1, <2>2, <2>3 DEF Known, Running
  <1>4. ASSUME NEW p \in Programs, Running(p), pc' = [pc EXCEPT ![p] = 0],
               hw'[c] \in CoBoStates, ~hw'[c].quiet => hw'[c] \in Sane(c)
        PROVE  Known(c)'
    BY <1>4, Departures
  <1>5. ASSUME NEW p \in Programs, Exit(p) PROVE Known(c)'
    BY <1>1, <1>4, <1>5 DEF Exit, AtEnd, Known
  <1>6. ASSUME NEW p \in Programs, InScript(p), NEW n, Leap(Current(p), n),
               pc' = [pc EXCEPT ![p] = @ + n], hw'[c] = Passed(hw[c], Current(p), View(c))
        PROVE  Known(c)'
    BY <1>6, Succeeds
  <1>7. ASSUME NEW p \in Programs, RemoveNodes(p) PROVE Known(c)'
    <2>1. InScript(p) /\ Current(p).op = "removeAll" /\ pc' = [pc EXCEPT ![p] = @ + 1]
          /\ hw'[c] = [hw[c] EXCEPT !.described = FALSE, !.router = FALSE]
      BY <1>7 DEF RemoveNodes, GoOn
    <2>2. View(c).mine[Current(p).cobo]
      BY <2>1, Owners
    <2>3. Passed(hw[c], Current(p), View(c)) = hw'[c]
      BY <2>1, <2>2 DEF Passed, Turned, Calls
    <2>4. Leap(Current(p), 1)
      BY <2>1 DEF Leap
    <2>. QED
      BY <1>6, <2>1, <2>3, <2>4
  <1>8. ASSUME NEW p \in Programs, InScript(p), NEW n, Leap(Current(p), n),
               pc' = [pc EXCEPT ![p] = @ + n], hw' = hw,
               Current(p).op \in {"node", "device", "jump"}
        PROVE  Known(c)'
    <2>1. Passed(hw[c], Current(p), View(c)) = hw'[c]
      BY <1>8 DEF Passed, Turned, Calls
    <2>. QED
      BY <1>6, <1>8, <2>1
  <1>9. ASSUME NEW p \in Programs, Connect(p) \/ ConnectDevice(p) PROVE Known(c)'
    <2>1. /\ InScript(p) /\ Current(p).op \in {"node", "device"} /\ hw' = hw
          /\ pc' = [pc EXCEPT ![p] = @ + 1]
      BY <1>9 DEF Connect, ConnectDevice, GoOn
    <2>2. Leap(Current(p), 1)
      BY <2>1 DEF Leap
    <2>. QED
      BY <1>8, <2>1, <2>2
  <1>10. ASSUME NEW p \in Programs, LeaveBlock(p) PROVE Known(c)'
    <2>1. /\ InScript(p) /\ Current(p).op = "jump" /\ hw' = hw
          /\ pc' = [pc EXCEPT ![p] = @ + (1 + Current(p).arg)]
      BY <1>10 DEF LeaveBlock
    <2>2. Leap(Current(p), 1 + Current(p).arg)
      BY <2>1 DEF Leap
    <2>. QED
      BY <1>8, <2>1, <2>2
  <1>11. ASSUME NEW p \in Programs, InScript(p), ~OfNode(Current(p)), NEW n, Leap(Current(p), n),
                pc' = [pc EXCEPT ![p] = @ + n], NEW g, hw' = [hw EXCEPT ![node] = g],
                c = node => g = Turned(hw[c], Current(p))
         PROVE  Known(c)'
    <2>1. node \in CoBos /\ (View(c).mine[Current(p).cobo] <=> c = node)
      BY <1>11, Owners
    <2>2. hw'[c] = IF c = node THEN g ELSE hw[c]
      BY <1>1, <1>11
    <2>3. hw'[c] = Passed(hw[c], Current(p), View(c))
      BY <1>11, <2>1, <2>2 DEF Passed
    <2>. QED
      BY <1>6, <1>11, <2>3
  <1>12. ASSUME NEW p \in Programs, Call(p) PROVE Known(c)'
    <2>. DEFINE a == Current(p)
    <2>1. /\ InScript(p) /\ a.op \notin {"removeAll", "node", "device", "jump", "check", "throw"}
          /\ hw' = [hw EXCEPT ![node] = After(hw[node], a)] /\ pc' = [pc EXCEPT ![p] = @ + 1]
      BY <1>12 DEF Call, CanAccess, GoOn
    <2>2. ~OfNode(a) /\ Leap(a, 1)
      BY <2>1 DEF OfNode, Leap
    <2>3. c = node => After(hw[node], a) = Turned(hw[c], a)
      BY <2>1 DEF Turned, Calls
    <2>. HIDE DEF a
    <2>. QED
      BY <1>11, <2>1, <2>2, <2>3 DEF a
  <1>13. ASSUME NEW p \in Programs, Check(p) PROVE Known(c)'
    <2>. DEFINE a == Current(p)
    <2>1. InScript(p) /\ a.op = "check" /\ hw' = [hw EXCEPT ![node] = Pulsed(hw[node])]
      BY <1>13 DEF Check
    <2>2. ~OfNode(a) /\ Leap(a, 1)
      BY <2>1 DEF OfNode, Leap
    <2>3. c = node => Pulsed(hw[node]) = Turned(hw[c], a)
      BY <2>1 DEF Turned, Calls
    <2>4. CASE pc' = [pc EXCEPT ![p] = @ + 1]
      BY <1>11, <2>1, <2>2, <2>3, <2>4
    <2>5. CASE a.arg.wrong # Raise /\ pc' = [pc EXCEPT ![p] = @ + a.arg.wrong]
      <3>1. Leap(a, a.arg.wrong)
        BY <2>1, <2>5 DEF Leap
      <3>. HIDE DEF a
      <3>. QED
        BY <1>11, <2>1, <2>2, <2>3, <2>5, <3>1 DEF a
    <2>6. CASE pc' = [pc EXCEPT ![p] = 0]
      <3>1. hw'[c] = IF c = node THEN Pulsed(hw[c]) ELSE hw[c]
        BY <1>1, <2>1
      <3>2. hw[c] \in CoBoStates
        BY <1>1 DEF Known
      <3>3. /\ Pulsed(hw[c]) \in CoBoStates /\ Pulsed(hw[c]).quiet = hw[c].quiet
            /\ Pulsed(hw[c]).ready = hw[c].ready /\ Pulsed(hw[c]).buffer = hw[c].buffer
        BY <3>2, Owners, <2>1, PulsedSame, TurnedQuiet
      <3>4. hw[c] \in Sane(c) => Pulsed(hw[c]) \in Sane(c)
        BY <3>2, <3>3 DEF Sane, Filled
      <3>5. hw'[c] \in CoBoStates /\ (~hw'[c].quiet => hw'[c] \in Sane(c))
        BY <1>1, <3>1, <3>2, <3>3, <3>4 DEF Known
      <3>. QED
        BY <1>4, <2>1, <2>6, <3>5 DEF InScript
    <2>7. \/ pc' = [pc EXCEPT ![p] = @ + 1] \/ pc' = [pc EXCEPT ![p] = 0]
          \/ a.arg.wrong # Raise /\ pc' = [pc EXCEPT ![p] = @ + a.arg.wrong]
      BY <1>13 DEF Check
    <2>. QED
      BY <2>4, <2>5, <2>6, <2>7
  <1>14. ASSUME NEW p \in Programs, CallFails(p) PROVE Known(c)'
    <2>1. CASE Current(p).rest = Raise
      BY <1>1, <1>4, <1>14, <2>1 DEF CallFails, InScript, Known
    <2>2. CASE Current(p).rest # Raise
      <3>1. InScript(p)
        BY <1>14 DEF CallFails
      <3>. QED
        BY <1>14, <2>2, <3>1, Swallows
    <2>. QED
      BY <2>1, <2>2
  <1>. QED
    BY <1>2, <1>3, <1>5, <1>7, <1>9, <1>10, <1>12, <1>13, <1>14 DEF Next

\* It is an invariant of the programs that run one at a time.
LEMMA StatesHold == ASSUME Overlap = FALSE PROVE Spec => [](SessionInv /\ StateInv)
  <1>1. Init => SessionInv /\ StateInv
    BY SessionStarts, StatesStart
  <1>2. SessionInv /\ StateInv /\ [Next]_vars => SessionInv' /\ StateInv'
    <2>1. SessionInv /\ [Next]_vars => TypesInv'
      BY TypesGoOn DEF SessionInv
    <2>. QED
      BY <2>1, CourseGoesOn, StatesGoOn DEF SessionInv
  <1>. QED
    BY <1>1, <1>2, PTL DEF Spec

\* A write that is made where nothing was left out meets what it is meant for.
LEMMA WritesMeet ==
    ASSUME SessionInv, StateInv, NEW p \in Programs, Sound(p), Current(p).op \in {"write", "field"}
    PROVE  LET a == Current(p) h == hw[node] IN
           /\ node \in CoBos /\ h \in CoBoStates
           /\ a.dev = "asad" => h.asadMask \cap h.power =
                                    IF a.board = All THEN Masks(node).asads ELSE {a.board}
           /\ a.dev = "aget" => Powered(h, h.enabled) =
                                    IF a.chip = All THEN Masks(node).chips ELSE {a.chip}
           /\ Needs(h, a)
  <1>. DEFINE a == Current(p)
              h == hw[node]
              c == node
              d == View(c)
  <1>1. InScript(p) /\ ~h.quiet /\ ~OfNode(a) /\ a.op \in {"write", "field"}
    BY DEF Sound, OfNode
  <1>2. c \in CoBos
    <2>1. node \in CoBos \cup {NoCoBo}
      BY DEF SessionInv, TypesInv, CountInv
    <2>. QED
      BY <2>1 DEF Sound
  <1>3. Fit(a) /\ d.mine[a.cobo]
    BY <1>1, <1>2, Owners
  <1>4. /\ h \in CoBoStates /\ h \in Road(p, c)[pc[p]]
        /\ Links(Script[p], pc[p], Road(p, c), d) /\ a = Script[p][pc[p]]
    BY <1>1, <1>2, Standing
  <1>5. Meets(h, a, d)
    BY <1>4 DEF Links
  <1>6. d.strict /\ a.board \in Int /\ a.chip \in Int
    BY <1>3 DEF View, Fit
  <1>7. d.board[a.board] = IF a.board = All THEN Masks(c).asads ELSE {a.board}
    BY <1>6 DEF View
  <1>8. d.chip[a.chip] = IF a.chip = All THEN Masks(c).chips ELSE {a.chip}
    BY <1>6 DEF View
  <1>. HIDE DEF a, h, d
  <1>9. /\ a.dev = "asad" => h.asadMask \cap h.power = d.board[a.board]
        /\ a.dev = "aget" => Powered(h, h.enabled) = d.chip[a.chip]
        /\ Needs(h, a)
    BY <1>1, <1>3, <1>5, <1>6 DEF Meets
  <1>. QED
    BY <1>2, <1>4, <1>7, <1>8, <1>9 DEF a, h, d

\* A write to the boards reaches those it is meant for, and one to the chips
\* likewise, although what is selected was selected by an earlier routine
\* (WritesReachTheirTargets).
THEOREM WritesGoWhereTheyAreMeant == ASSUME Overlap = FALSE PROVE Spec => []WritesReachTheirTargets
  <1>1. SessionInv /\ StateInv => WritesReachTheirTargets
    BY WritesMeet DEF WritesReachTheirTargets, Writes, Active
  <1>. QED
    BY <1>1, StatesHold, PTL

\* What the server reads to write back a field belongs to a board or a chip that
\* it writes (FieldsAreReadWhereWritten), if every CoBo has an active chip: one
\* without any is sent the field all the same, and no chip takes it.
THEOREM FieldsComeFromTheirTargets ==
    ASSUME Overlap = FALSE, \A c \in CoBos : Masks(c).chips # {}
    PROVE  Spec => []FieldsAreReadWhereWritten
  <1>1. ASSUME SessionInv, StateInv, NEW p \in Programs, Sound(p), Current(p).op = "field"
        PROVE  /\ Current(p).dev = "asad" => hw[node].asad \in hw[node].asadMask
               /\ Current(p).dev = "aget" => hw[node].chip \in hw[node].enabled
    <2>. DEFINE a == Current(p)
                h == hw[node]
    <2>1. /\ node \in CoBos /\ Needs(h, a) /\ a.op = "field"
          /\ a.dev = "aget" => Powered(h, h.enabled) =
                                   IF a.chip = All THEN Masks(node).chips ELSE {a.chip}
      BY <1>1, WritesMeet
    <2>. HIDE DEF a, h
    <2>2. a.dev = "aget" => h.enabled # {}
      BY <2>1 DEF Powered
    <2>. QED
      BY <2>1, <2>2 DEF Needs, a, h
  <1>2. SessionInv /\ StateInv => FieldsAreReadWhereWritten
    BY <1>1 DEF FieldsAreReadWhereWritten
  <1>. QED
    BY <1>2, StatesHold, PTL

\* The registers of the chips are written while they listen to slow control, the
\* hit register while they do not (RegistersInSlowControl).
THEOREM ChipsListen == ASSUME Overlap = FALSE PROVE Spec => []RegistersInSlowControl
  <1>1. SessionInv /\ StateInv => RegistersInSlowControl
    <2>1. ASSUME SessionInv, StateInv, NEW p \in Programs, Sound(p), Writes(p, "aget")
          PROVE  IF Current(p).arg.groups = {"hit"} THEN hw[node].enabled \subseteq Pulsed(hw[node]).fast
                 ELSE hw[node].enabled \cap Pulsed(hw[node]).fast = {}
      BY <2>1, WritesMeet DEF Writes, Needs
    <2>. QED
      BY <2>1 DEF RegistersInSlowControl
  <1>. QED
    BY <1>1, StatesHold, PTL

\* The circular buffers of a CoBo that is ready have the limits of its boards or
\* share out its memory (BuffersShareTheMemory), if there are 4 MiB of it: with
\* less, the division (EccClient.cpp:1271) can leave a board without room.
THEOREM BuffersFit ==
    ASSUME Overlap = FALSE,
           \A c \in CoBos : ~AllOwn(c) => Config[c].memory.end - Config[c].memory.start >= 4
    PROVE  Spec => []BuffersShareTheMemory
  <1>1. ASSUME StateInv, NEW c \in CoBos, hw[c].ready, ~hw[c].quiet, NEW i \in AsAds, AllOwn(c)
        PROVE  hw[c].buffer[i] = <<Config[c].own[i].start, Config[c].own[i].end>>
    <2>1. hw[c].buffer = Exact(c)
      BY <1>1 DEF StateInv, Known, Sane, Filled
    <2>. QED
      BY <1>1, <2>1 DEF Exact
  <1>2. ASSUME StateInv, NEW c \in CoBos, hw[c].ready, ~hw[c].quiet, NEW i \in AsAds, ~AllOwn(c)
        PROVE  LET b == hw[c].buffer[i] IN
               /\ b[1] >= Config[c].memory.start /\ b[2] <= Config[c].memory.end
               /\ b[1] < b[2] <=> i \in Active[c].asads
               /\ \A j \in AsAds : j < i => hw[c].buffer[j][2] <= b[1]
    <2>. DEFINE first == Config[c].memory.start
                last == Config[c].memory.end
                asads == Masks(c).asads
    <2>1. asads # {} /\ hw[c].buffer = Exact(c)
      BY <1>2 DEF StateInv, Known, Sane, Filled
    <2>2. first \in Nat /\ last \in Nat /\ last - first >= 4 /\ asads \in SUBSET AsAds
      BY <1>2, MemoryAssumption, ActiveParts
    <2>3. Active[c].asads = asads
      BY DEF Active
    <2>4. \A j \in AsAds : /\ hw[c].buffer[j][1] = BufferStart(asads, j, first, last)
                           /\ hw[c].buffer[j][2] = BufferEnd(asads, j, first, last)
      BY <1>2, <2>1 DEF Exact
    <2>. HIDE DEF first, last, asads
    <2>5. first <= last
      BY <2>2
    <2>6. /\ first <= BufferStart(asads, i, first, last)
          /\ BufferEnd(asads, i, first, last) <= last
          /\ \A j \in AsAds : j < i =>
                 BufferEnd(asads, j, first, last) <= BufferStart(asads, i, first, last)
          /\ BufferStart(asads, i, first, last) < BufferEnd(asads, i, first, last) <=> i \in asads
      BY <2>1, <2>2, <2>5, BuffersAreApart
    <2>7. first \in Int /\ BufferStart(asads, i, first, last) \in Int
      BY <2>1, <2>2, ExactNumbers DEF first, last, asads
    <2>8. hw[c].buffer[i][1] >= first
      BY <2>4, <2>6, <2>7
    <2>. QED
      BY <2>3, <2>4, <2>6, <2>8 DEF first, last
  <1>3. SessionInv /\ StateInv => BuffersShareTheMemory
    BY <1>1, <1>2 DEF BuffersShareTheMemory
  <1>. QED
    BY <1>3, StatesHold, PTL

=============================================================================
