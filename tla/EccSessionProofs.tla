-------------------------- MODULE EccSessionProofs --------------------------
(***************************************************************************)
(* The programs of src/runcontrol reach the node and the device that each  *)
(* of their accesses is meant for, whatever the configuration, the list of *)
(* targets and the calls that fail, as long as no two programs run at the  *)
(* same time.                                                              *)
(***************************************************************************)
EXTENDS EccSession, EccClientProofs, WellFoundedInduction

-------------------------------------------------------------------------------
(* Any number of parts                                                         *)

\* A set of numbers that is not empty has a least one.
LEMMA Least ==
    ASSUME NEW T \in SUBSET Nat, T # {}
    PROVE  \E x \in T : \A y \in T : x <= y
  <1>. DEFINE Below == OpToRel(<, Nat)
  <1>1. \A x, y \in Nat : <<y, x>> \in Below <=> y < x
    BY DEF OpToRel
  <1>2. IsWellFoundedOn(Below, Nat)
    BY NatLessThanWellFounded
  <1>. HIDE DEF Below
  <1>3. PICK x \in T : \A y \in T : <<y, x>> \notin Below
    BY <1>2, WFMin
  <1>4. ASSUME NEW y \in T PROVE x <= y
    <2>1. x \in Nat /\ y \in Nat
      OBVIOUS
    <2>2. ~(y < x)
      BY <1>1, <1>3, <2>1
    <2>. QED
      BY <2>1, <2>2
  <1>. QED
    BY <1>4

\* Induction: the numbers from 1 on lie in a set that has 1 and with every
\* number the next one.
LEMMA FromOneOn ==
    ASSUME NEW S, 1 \in S, NEW N \in Nat, \A n \in 1 .. (N - 1) : n \in S => n + 1 \in S
    PROVE  1 .. N \subseteq S
  <1>. DEFINE T == (1 .. N) \ S
  <1>. SUFFICES ASSUME T # {} PROVE FALSE
    OBVIOUS
  <1>. HIDE DEF T
  <1>1. T \in SUBSET Nat
    BY DEF T
  <1>2. PICK x \in T : \A y \in T : x <= y
    BY <1>1, Least
  <1>3. x \in 1 .. N /\ x \notin S /\ x # 1
    BY DEF T
  <1>4. x - 1 \in 1 .. (N - 1) /\ x - 1 + 1 = x /\ ~(x <= x - 1)
    BY <1>3
  <1>5. x - 1 \in S
    BY <1>2, <1>4 DEF T
  <1>. QED
    BY <1>3, <1>4, <1>5

\* The concatenations of the first elements of seqs, one after another.
JoinedSoFar(seqs, S, N) ==
    {f \in [1 .. N -> S] : /\ f[1] = seqs[1]
                           /\ \A n \in 1 .. (N - 1) : f[n + 1] = f[n] \o seqs[n + 1]}

\* The last of them is the concatenation of all.
LEMMA FlattenSteps ==
    ASSUME NEW S, <<>> \in S, \A s, t \in S : s \o t \in S, NEW N \in Nat,
           NEW seqs \in [1 .. N -> S]
    PROVE  /\ N = 0 => FlattenSeq(seqs) = << >>
           /\ N # 0 => \E f \in JoinedSoFar(seqs, S, N) : FlattenSeq(seqs) = f[N]
  <1>. DEFINE step(g, i) == IF i = 1 THEN seqs[i] ELSE g[i - 1] \o seqs[i]
              flatten == CHOOSE g : g = [i \in 1 .. N |-> step(g, i)]
  <1>1. Len(seqs) = N
    OBVIOUS
  <1>2. CASE N = 0
    <2>1. FlattenSeq(seqs) = seqs
      BY <1>1, <1>2 DEF FlattenSeq
    <2>2. seqs = << >>
      BY <1>2
    <2>. QED
      BY <1>2, <2>1, <2>2
  <1>3. CASE N # 0
    <2>. DEFINE Good(n) == \E g \in [1 .. n -> S] : \A i \in 1 .. n : g[i] = step(g, i)
                P == {n \in 1 .. N : Good(n)}
    <2>1. 1 \in P
      <3>. DEFINE h == [i \in 1 .. 1 |-> seqs[1]]
      <3>1. h \in [1 .. 1 -> S]
        BY <1>3
      <3>2. \A i \in 1 .. 1 : h[i] = step(h, i)
        OBVIOUS
      <3>3. Good(1)
        BY <3>1, <3>2
      <3>. QED
        BY <1>3, <3>3
    <2>2. ASSUME NEW n \in 1 .. (N - 1), n \in P PROVE n + 1 \in P
      <3>1. PICK g \in [1 .. n -> S] : \A i \in 1 .. n : g[i] = step(g, i)
        BY <2>2
      <3>. DEFINE h == [i \in 1 .. (n + 1) |-> IF i = n + 1 THEN g[n] \o seqs[n + 1] ELSE g[i]]
      <3>2. h \in [1 .. (n + 1) -> S]
        OBVIOUS
      <3>3. ASSUME NEW i \in 1 .. n PROVE h[i] = step(h, i)
        <4>1. h[i] = g[i] /\ g[i] = step(g, i)
          <5>1. i \in 1 .. (n + 1) /\ i # n + 1
            OBVIOUS
          <5>. QED
            BY <3>1, <5>1
        <4>2. CASE i = 1
          BY <4>1, <4>2
        <4>3. CASE i # 1
          <5>1. i - 1 \in 1 .. (n + 1) /\ i - 1 # n + 1
            BY <4>3
          <5>2. h[i - 1] = g[i - 1]
            BY <5>1
          <5>. QED
            BY <4>1, <4>3, <5>2
        <4>. QED
          BY <4>2, <4>3
      <3>4. h[n + 1] = step(h, n + 1)
        <4>1. n \in 1 .. (n + 1) /\ n # n + 1 /\ n + 1 - 1 = n /\ n + 1 # 1
          OBVIOUS
        <4>2. h[n] = g[n] /\ h[n + 1] = g[n] \o seqs[n + 1]
          BY <4>1
        <4>. QED
          BY <4>1, <4>2
      <3>5. \A i \in 1 .. (n + 1) : h[i] = step(h, i)
        <4>1. \A i \in 1 .. (n + 1) : i \in 1 .. n \/ i = n + 1
          OBVIOUS
        <4>. HIDE DEF h, step
        <4>. QED
          BY <3>3, <3>4, <4>1
      <3>6. Good(n + 1)
        BY <3>2, <3>5
      <3>7. n + 1 \in 1 .. N
        BY <1>3
      <3>. QED
        BY <3>6, <3>7
    <2>. HIDE DEF P
    <2>3. N \in P
      BY <1>3, <2>1, <2>2, FromOneOn
    <2>4. PICK g \in [1 .. N -> S] : \A i \in 1 .. N : g[i] = step(g, i)
      BY <2>3 DEF P
    <2>5. g = [i \in 1 .. N |-> step(g, i)]
      BY <2>4
    <2>6. flatten = [i \in 1 .. N |-> step(flatten, i)]
      BY <2>5
    <2>7. FlattenSeq(seqs) = flatten[N]
      BY <1>1, <1>3 DEF FlattenSeq
    <2>. HIDE DEF flatten
    <2>8. 1 .. N \subseteq {i \in 1 .. N : flatten[i] \in S}
      <3>1. flatten[1] \in S
        BY <1>3, <2>6
      <3>2. ASSUME NEW n \in 1 .. (N - 1), flatten[n] \in S PROVE flatten[n + 1] \in S
        <4>1. n + 1 \in 1 .. N /\ n + 1 # 1 /\ n + 1 - 1 = n
          OBVIOUS
        <4>2. flatten[n + 1] = step(flatten, n + 1)
          BY <2>6, <4>1
        <4>. QED
          BY <3>2, <4>1, <4>2
      <3>. DEFINE Q == {i \in 1 .. N : flatten[i] \in S}
      <3>3. 1 \in Q /\ \A n \in 1 .. (N - 1) : n \in Q => n + 1 \in Q
        BY <1>3, <3>1, <3>2
      <3>. HIDE DEF Q
      <3>4. 1 .. N \subseteq Q
        BY <3>3, FromOneOn
      <3>. QED
        BY <3>4 DEF Q
    <2>9. flatten \in [1 .. N -> S]
      <3>. DEFINE h == [i \in 1 .. N |-> step(flatten, i)]
      <3>1. flatten = h /\ \A i \in 1 .. N : flatten[i] \in S
        BY <2>6, <2>8
      <3>2. flatten = [i \in 1 .. N |-> flatten[i]]
        BY <3>1
      <3>. QED
        BY <3>1, <3>2
    <2>10. flatten[1] = seqs[1]
      BY <1>3, <2>6
    <2>11. ASSUME NEW n \in 1 .. (N - 1) PROVE flatten[n + 1] = flatten[n] \o seqs[n + 1]
      <3>1. PICK m \in 1 .. N : m = n + 1
        OBVIOUS
      <3>2. m # 1 /\ m - 1 = n
        BY <3>1
      <3>3. flatten[m] = step(flatten, m)
        BY <2>6
      <3>4. flatten[m] = flatten[m - 1] \o seqs[m]
        BY <3>2, <3>3, Zenon
      <3>. QED
        BY <3>1, <3>2, <3>4, Zenon
    <2>. HIDE DEF step
    <2>12. flatten \in JoinedSoFar(seqs, S, N)
      BY <2>9, <2>10, <2>11 DEF JoinedSoFar
    <2>. QED
      BY <1>3, <2>7, <2>12
  <1>. QED
    BY <1>2, <1>3

\* A set of sequences that is closed under concatenation has the concatenation
\* of any number of its elements.
LEMMA FlattenClosed ==
    ASSUME NEW S, <<>> \in S, \A s, t \in S : s \o t \in S, NEW N \in Nat,
           NEW seqs \in [1 .. N -> S]
    PROVE  FlattenSeq(seqs) \in S
  <1>. DEFINE F == FlattenSeq(seqs)
              G == JoinedSoFar(seqs, S, N)
  <1>1. (N = 0 => F = << >>) /\ (N # 0 => \E f \in G : F = f[N])
    BY FlattenSteps
  <1>2. \A f \in G : f \in [1 .. N -> S]
    BY DEF JoinedSoFar
  <1>. HIDE DEF F, G
  <1>. QED
    BY <1>1, <1>2 DEF F

\* It lies in T if one element does and the others cannot leave T.
LEMMA FlattenOnce ==
    ASSUME NEW S, <<>> \in S, \A s, t \in S : s \o t \in S, NEW N \in Nat,
           NEW seqs \in [1 .. N -> S], NEW E \in SUBSET S, \A s, t \in E : s \o t \in E,
           NEW T \in SUBSET S, \A s \in E, t \in T : s \o t \in T /\ t \o s \in T,
           NEW m \in 1 .. N, seqs[m] \in T, \A n \in 1 .. N : n # m => seqs[n] \in E
    PROVE  FlattenSeq(seqs) \in T
  <1>. DEFINE F == FlattenSeq(seqs)
              G == JoinedSoFar(seqs, S, N)
  <1>1. (N = 0 => F = << >>) /\ (N # 0 => \E f \in G : F = f[N])
    BY FlattenSteps
  <1>. HIDE DEF F, G
  <1>2. PICK f \in G : F = f[N]
    BY <1>1
  <1>3. /\ f \in [1 .. N -> S] /\ f[1] = seqs[1]
        /\ \A n \in 1 .. (N - 1) : f[n + 1] = f[n] \o seqs[n + 1]
    BY DEF G, JoinedSoFar
  <1>. DEFINE Q == {n \in 1 .. N : (n < m => f[n] \in E) /\ (m <= n => f[n] \in T)}
  <1>4. 1 \in Q
    <2>1. 1 \in 1 .. N /\ (1 < m => 1 # m) /\ (m <= 1 => m = 1)
      OBVIOUS
    <2>. QED
      BY <1>3, <2>1
  <1>5. ASSUME NEW n \in 1 .. (N - 1), n \in Q PROVE n + 1 \in Q
    <2>1. PICK k : k = n + 1
      OBVIOUS
    <2>2. /\ n \in 1 .. N /\ k \in 1 .. N /\ (k < m => n < m /\ k # m)
          /\ (m <= k => (m <= n /\ k # m) \/ (m = k /\ n < m))
      BY <2>1
    <2>3. f[k] = f[n] \o seqs[k]
      BY <1>3, <2>1
    <2>4. (n < m => f[n] \in E) /\ (m <= n => f[n] \in T)
      BY <1>5
    <2>5. (k # m => seqs[k] \in E) /\ (m = k => seqs[k] \in T)
      BY <2>2
    <2>6. k < m => f[k] \in E
      BY <2>2, <2>3, <2>4, <2>5
    <2>7. m <= k => f[k] \in T
      BY <2>2, <2>3, <2>4, <2>5
    <2>. QED
      BY <2>1, <2>2, <2>6, <2>7
  <1>. HIDE DEF Q
  <1>6. 1 .. N \subseteq Q
    BY <1>4, <1>5, FromOneOn
  <1>7. N \in Q /\ m <= N
    BY <1>6
  <1>. QED
    BY <1>2, <1>7 DEF Q, F

-------------------------------------------------------------------------------
(* The programs find their devices                                             *)

\* The masks of a CoBo (GetController.cpp:188).
LEMMA MasksOfClient == \A c : Client(Masks(c)) /\ Client(FreshClient)
  BY DEF Client, Masks, FreshClient

\* A loop over the active boards, and one over the active chips of a board.
LEMMA Loops ==
    /\ \A c, i, s : Free(s) => Free(When(IsAsadActive(c, i), OnBoard(i, s)))
    /\ \A c, k, s : Free(s) => Free(When(IsAgetActive(c, k), OnChip(k, s)))
    /\ \A s0, s1, s2, s3 : Free(s0) /\ Free(s1) /\ Free(s2) /\ Free(s3)
                               => Free(s0 \o s1 \o s2 \o s3)
  BY Meant, Blocks, Parts

\* The routines that leave any device and that follow one another.
LEMMA FreeRoutines ==
    /\ \A c : Free(SetAsAdSlowControlMask(Masks(c).asads)) /\ Free(SetAgetSlowControlMask(Masks(c).chips))
    /\ \A i \in AsAds : Free(SelectAsAdForSlowControl(i))
    /\ \A k \in Chips : Free(SelectAgetForRead(k)) /\ Free(SetAgetSlowControlMask({k}))
    /\ Free(AsAdMonitoringReset) /\ Free(AsAdDisableAutoProtection) /\ Free(SetLimits)
    /\ Free(AsAdSetAutoProtectionLevel) /\ Free(SetAsAdLcm1Register) /\ Free(SetAsAdLcm2Register)
    /\ Free(AsAdConfigureAgetInputs) /\ Free(AsAdSetAutoReadDataDelayEnabled) /\ Free(AsAdSetISPM)
    /\ \A alarms : Free(SetOperationalMode(alarms))
    /\ \A c : Free(SwitchToSlowControl(Masks(c)))
    /\ Free(EnableFPNRead)
    /\ \A k \in Chips : \A group : Free(SetReadMask(k, group))
  <1>1. \A c : Free(SetAsAdSlowControlMask(Masks(c).asads)) /\ Free(SetAgetSlowControlMask(Masks(c).chips))
    BY MasksOfClient, SelectionRoutines, Names, Parts DEF Client
  <1>2. \A i \in AsAds : Free(SelectAsAdForSlowControl(i))
    BY BoardRoutines, Names, Parts
  <1>3. ASSUME NEW k \in Chips PROVE Free(SelectAgetForRead(k)) /\ Free(SetAgetSlowControlMask({k}))
    <2>1. {k} \in SUBSET Chips
      OBVIOUS
    <2>. QED
      BY <2>1, SelectionRoutines, Names, Parts
  <1>4. /\ Free(AsAdMonitoringReset) /\ Free(AsAdDisableAutoProtection)
        /\ Free(AsAdSetAutoProtectionLevel) /\ Free(SetAsAdLcm1Register)
        /\ Free(SetAsAdLcm2Register) /\ Free(AsAdConfigureAgetInputs) /\ Free(AsAdSetISPM)
    BY AsAdRoutines, Names, Parts
  <1>5. Free(SetLimits)
    BY AsAdRoutines, Names, Parts DEF SetLimits
  <1>6. \A alarms : Free(SetOperationalMode(alarms))
    BY AsAdRoutines, Names, Parts DEF SetOperationalMode
  <1>7. \A c : Free(SwitchToSlowControl(Masks(c)))
    BY MasksOfClient, SwitchRoutines, Names, Parts
  <1>8. /\ Free(AsAdSetAutoReadDataDelayEnabled) /\ Free(EnableFPNRead)
        /\ \A k \in Chips : \A group : Free(SetReadMask(k, group))
    BY AgetRoutines, Names, Parts
  <1>. QED
    BY <1>1, <1>2, <1>3, <1>4, <1>5, <1>6, <1>7, <1>8

\* Monitoring of the boards (GetController.cpp:849).
LEMMA MonitoringRoutines ==
    ASSUME NEW c
    PROVE  /\ Free(AsAdMonitoringInit(c)) /\ Free(AsAdMonitoringCheckVDD(c))
           /\ Free(AsAdAlertsInit(c)) /\ Free(SubscribeToAlarms)
           /\ \A i \in AsAds : Free(ReadSensors(i))
           /\ \A b : Free(AsAdMonitoringRead(c, b))
  <1>1. Free(AsAdMonitoringInit(c))
    <2>. DEFINE Board(i) == SelectAsAdForSlowControl(i) \o AsAdMonitoringReset
                            \o AsAdDisableAutoProtection \o SetLimits \o SetOperationalMode(FALSE)
                Round(i) == When(IsAsadActive(c, i), OnBoard(i, Board(i)))
    <2>1. ASSUME NEW i \in AsAds PROVE Free(Board(i))
      BY FreeRoutines, Parts
    <2>. HIDE DEF Board
    <2>2. ASSUME NEW i \in AsAds PROVE Free(Round(i))
      BY <2>1, Loops
    <2>. HIDE DEF Round
    <2>3. Free(Round(0) \o Round(1) \o Round(2) \o Round(3))
      BY <2>2, Loops DEF AsAds
    <2>. QED
      BY <2>3, FreeRoutines, Parts DEF AsAdMonitoringInit, EachActiveAsAd, EachAsAd, Board, Round
  <1>2. Free(AsAdMonitoringCheckVDD(c))
    <2>. DEFINE Board(i) == Device("ctrl") \o Access("asad", "ctrl", i) \o Device("asad")
                            \o Read("asad")
                Round(i) == When(IsAsadActive(c, i), OnBoard(i, Board(i)))
    <2>1. ASSUME NEW i \in AsAds PROVE Free(Board(i))
      <3>1. Free(Device("ctrl") \o Access("asad", "ctrl", i))
        BY Basics, Selections, Parts
      <3>. QED
        BY <3>1, Basics, Parts
    <2>. HIDE DEF Board
    <2>2. ASSUME NEW i \in AsAds PROVE Free(Round(i))
      BY <2>1, Loops
    <2>. HIDE DEF Round
    <2>3. Free(Round(0) \o Round(1) \o Round(2) \o Round(3))
      BY <2>2, Loops DEF AsAds
    <2>. QED
      BY <2>3 DEF AsAdMonitoringCheckVDD, EachActiveAsAd, EachAsAd, Board, Round
  <1>3. Free(AsAdAlertsInit(c))
    <2>. DEFINE Board(i) == SelectAsAdForSlowControl(i) \o SetLimits
                            \o AsAdSetAutoProtectionLevel \o SetOperationalMode(TRUE)
                Round(i) == When(IsAsadActive(c, i), OnBoard(i, Board(i)))
    <2>1. ASSUME NEW i \in AsAds PROVE Free(Board(i))
      BY FreeRoutines, Parts
    <2>. HIDE DEF Board
    <2>2. ASSUME NEW i \in AsAds PROVE Free(Round(i))
      BY <2>1, Loops
    <2>. HIDE DEF Round
    <2>3. Free(Round(0) \o Round(1) \o Round(2) \o Round(3))
      BY <2>2, Loops DEF AsAds
    <2>. QED
      BY <2>3, FreeRoutines, Parts DEF AsAdAlertsInit, EachActiveAsAd, EachAsAd, Board, Round
  <1>4. Free(SubscribeToAlarms)
    <2>1. Free(Setting("alarmMonitoring") \o Setting("alarmService"))
      BY CoBoRoutines, Parts
    <2>. QED
      BY <2>1, Blocks DEF SubscribeToAlarms
  <1>5. ASSUME NEW i \in AsAds PROVE Free(ReadSensors(i))
    BY AsAdRoutines, Parts DEF ReadSensors
  <1>6. ASSUME NEW b PROVE Free(AsAdMonitoringRead(c, b))
    <2>. DEFINE Round(i) == When(IsAsadActive(b, i), OnBoard(i, ReadSensors(i)))
    <2>1. ASSUME NEW i \in AsAds PROVE Free(Round(i))
      BY <1>5, Loops
    <2>. HIDE DEF Round
    <2>2. Free(Round(0) \o Round(1) \o Round(2) \o Round(3))
      BY <2>1, Loops DEF AsAds
    <2>. QED
      BY <2>2, FreeRoutines, Parts DEF AsAdMonitoringRead, EachActiveAsAd, EachAsAd, Round
  <1>. QED
    BY <1>1, <1>2, <1>3, <1>4, <1>5, <1>6

\* Power on, clocks and inputs of the boards (GetController.cpp:462, 538, 601, 677).
LEMMA LoadRoutines ==
    ASSUME NEW c
    PROVE  /\ Free(AsAdInitAndCal(c)) /\ Free(AsAdSamplingClockInit(c))
           /\ Free(AsAdReadingClockInit(c)) /\ Free(AsAdAgetInputManagerInit(c))
           /\ Free(InitializeGlobalThresholds(c)) /\ Free(SelectReadDataDelay(c))
           /\ Free(SetCoBoLemoModes(c))
  <1>1. Free(AsAdInitAndCal(c))
    <2>1. /\ Free(AsAdInit(Masks(c), Config[c].connected)) /\ Free(AsAdCal(Masks(c)))
          /\ Free(AsAdSetAgetInputProtections(Masks(c)))
      BY MasksOfClient, AsAdInitLeads, AsAdCalLeads, AdcRoutines, Names, Parts
    <2>. QED
      BY <2>1, FreeRoutines, MonitoringRoutines, Parts DEF AsAdInitAndCal
  <1>2. Free(AsAdSamplingClockInit(c))
    <2>. DEFINE Board(i) == SelectAsAdForSlowControl(i) \o SetAsAdLcm1Register
                Round(i) == When(IsAsadActive(c, i), OnBoard(i, Board(i)))
    <2>1. ASSUME NEW i \in AsAds PROVE Free(Board(i))
      BY FreeRoutines, Parts
    <2>. HIDE DEF Board
    <2>2. ASSUME NEW i \in AsAds PROVE Free(Round(i))
      BY <2>1, Loops
    <2>. HIDE DEF Round
    <2>3. Free(Round(0) \o Round(1) \o Round(2) \o Round(3))
      BY <2>2, Loops DEF AsAds
    <2>. QED
      BY <2>3, FreeRoutines, Parts DEF AsAdSamplingClockInit, EachActiveAsAd, EachAsAd, Board, Round
  <1>3. Free(AsAdReadingClockInit(c))
    <2>. DEFINE Board(i) == SelectAsAdForSlowControl(i) \o SetAsAdLcm2Register
                Round(i) == When(IsAsadActive(c, i), OnBoard(i, Board(i)))
    <2>1. ASSUME NEW i \in AsAds PROVE Free(Board(i))
      BY FreeRoutines, Parts
    <2>. HIDE DEF Board
    <2>2. ASSUME NEW i \in AsAds PROVE Free(Round(i))
      BY <2>1, Loops
    <2>. HIDE DEF Round
    <2>3. Free(Round(0) \o Round(1) \o Round(2) \o Round(3))
      BY <2>2, Loops DEF AsAds
    <2>. QED
      BY <2>3 DEF AsAdReadingClockInit, EachActiveAsAd, EachAsAd, Board, Round
  <1>4. Free(AsAdAgetInputManagerInit(c))
    <2>. DEFINE Board(i) == SelectAsAdForSlowControl(i) \o AsAdConfigureAgetInputs
                Round(i) == When(IsAsadActive(c, i), OnBoard(i, Board(i)))
    <2>1. ASSUME NEW i \in AsAds PROVE Free(Board(i))
      BY FreeRoutines, Parts
    <2>. HIDE DEF Board
    <2>2. ASSUME NEW i \in AsAds PROVE Free(Round(i))
      BY <2>1, Loops
    <2>. HIDE DEF Round
    <2>3. Free(Round(0) \o Round(1) \o Round(2) \o Round(3))
      BY <2>2, Loops DEF AsAds
    <2>. QED
      BY <2>3, FreeRoutines, Parts
         DEF AsAdAgetInputManagerInit, EachActiveAsAd, EachAsAd, Board, Round
  <1>5. Free(InitializeGlobalThresholds(c))
    <2>. DEFINE Chip(k) == When(IsAgetActive(c, k), OnChip(k, SetGlobalRegThreshold(k)))
                Board(i) == Chip(4 * i) \o Chip(4 * i + 1) \o Chip(4 * i + 2) \o Chip(4 * i + 3)
    <2>1. ASSUME NEW k \in Chips PROVE Free(SetGlobalRegThreshold(k))
      <3>1. Free(AgetRegRSC(k) \o Read("aget"))
        BY AgetRoutines, Basics, Parts
      <3>. QED
        BY <3>1, AgetRoutines, Parts, Blocks DEF SetGlobalRegThreshold
    <2>2. ASSUME NEW k \in Chips PROVE Free(Chip(k))
      BY <2>1, Loops
    <2>. HIDE DEF Chip
    <2>3. ASSUME NEW i \in AsAds PROVE Free(Board(i))
      <3>1. /\ Free(Chip(4 * i)) /\ Free(Chip(4 * i + 1))
            /\ Free(Chip(4 * i + 2)) /\ Free(Chip(4 * i + 3))
        BY <2>2, ChipsOfBoards
      <3>. QED
        BY <3>1, Loops
    <2>4. Free(Board(0) \o Board(1) \o Board(2) \o Board(3))
      <3>. HIDE DEF Board
      <3>. QED
        BY <2>3, Loops DEF AsAds
    <2>. QED
      BY <2>4, FreeRoutines, Parts
         DEF InitializeGlobalThresholds, EachActiveAget, EachChip, EachAsAd, Chip
  <1>6. Free(SelectReadDataDelay(c))
    <2>. DEFINE Round(i) == When(IsAsadActive(c, i), OnBoard(i, AsAdSetAutoReadDataDelayEnabled))
    <2>1. ASSUME NEW i \in AsAds PROVE Free(Round(i))
      BY FreeRoutines, Loops
    <2>. HIDE DEF Round
    <2>2. Free(Round(0) \o Round(1) \o Round(2) \o Round(3))
      BY <2>1, Loops DEF AsAds
    <2>. QED
      BY <2>2 DEF SelectReadDataDelay, EachActiveAsAd, EachAsAd, Round
  <1>7. Free(SetCoBoLemoModes(c))
    <2>1. \A l : Free(SetCoBoLemoMode(l))
      BY CoBoRoutines, Names, Parts DEF SetCoBoLemoMode
    <2>. QED
      BY <2>1, Loops, Blocks DEF SetCoBoLemoModes
  <1>. QED
    BY <1>1, <1>2, <1>3, <1>4, <1>5, <1>6, <1>7

\* One part behind another one.
LEMMA Behind ==
    ASSUME NEW s, NEW t, IsSeq(s), IsSeq(t)
    PROVE  /\ IsSeq(s \o t) /\ Len(s \o t) = Len(s) + Len(t)
           /\ \A i \in 1 .. Len(s) : (s \o t)[i] = s[i]
           /\ \A i \in 1 .. Len(t) : (s \o t)[Len(s) + i] = t[i]
  BY Concatenated

\* One more access behind a part.
LEMMA OneMore ==
    ASSUME NEW s, NEW a, IsSeq(s), IsSeq(a), Len(a) = 1
    PROVE  /\ IsSeq(s \o a) /\ Len(s \o a) = Len(s) + 1 /\ Len(s) \in Nat
           /\ \A k \in 1 .. Len(s) : (s \o a)[k] = s[k]
           /\ (s \o a)[Len(s) + 1] = a[1]
  <1>1. 1 \in 1 .. Len(a)
    OBVIOUS
  <1>. QED
    BY <1>1, Concatenated

\* A register that is read back, after which a wrong one ends the program
\* (GetController.cpp:2384).
LEMMA ReadBackLeads ==
    ASSUME NEW k \in Chips, NEW reg PROVE Ends(ReadBack(k, reg, Raise), "aget")
  <1>. DEFINE s == Access("check", "aget", [reg |-> reg, wrong |-> Raise])
              a == s[1]
  <1>1. Len(s) = 1 /\ IsSeq(s)
    BY DEF Access, IsSeq
  <1>2. /\ a.op = "check" /\ a.dev = "aget" /\ a.arg.wrong = Raise /\ a.rest = Raise /\ Typed(a)
    BY DEF Access, Typed, Suits
  <1>3. ReadBack(k, reg, Raise) = AgetRegRSC(k) \o s
    BY DEF ReadBack
  <1>. HIDE DEF s
  <1>4. \A n, d, e : Move(a, n, d, e) => n = 1 /\ e = d
    BY <1>2 DEF Move
  <1>5. {"aget"} \in SUBSET AnyDevice /\ ~OfNode(a) /\ (OfRegister(a) => {"aget"} \subseteq {a.dev})
    BY <1>2, Names DEF OfNode, OfRegister
  <1>6. Held("aget", s)
    BY <1>1, <1>2, <1>4, <1>5, Single DEF Held, a
  <1>. QED
    BY <1>3, <1>6, AgetRoutines, Names, Parts

\* A register but reg12 (GetController.cpp:2376).
LEMMA SetAgetRegLeads ==
    ASSUME NEW c, NEW k \in Chips, NEW reg PROVE Free(SetAgetReg(c, k, reg))
  <1>1. Free(ReadBack(k, reg, Raise))
    BY ReadBackLeads, Names, Parts
  <1>. QED
    BY <1>1, AgetRoutines, Parts, Blocks DEF SetAgetReg

\* What goes with reg12.
Depth == Device("ctrl") \o Alter("ctrl", {"readDepth"})

\* The check of reg12: whether it is right or not, or cannot be read, the depth
\* is set, with the device of the CoBo (GetController.cpp:2544).
LEMMA DepthLeads ==
    ASSUME NEW k \in Chips, NEW reg, NEW z \in {0, 3}
    PROVE  Free(OnError(ReadBack(k, reg, 4), z) \o Depth \o Jump(3) \o (Depth \o Throw))
  <1>. DEFINE check == ReadBack(k, reg, 4)
              depth == Depth
              wrong == depth \o Throw
              c1 == Device("ctrl")
              c2 == Access("chip", "ctrl", k)
              c3 == Device("aget")
              c4 == Access("check", "aget", [reg |-> reg, wrong |-> 4])
              w == Alter("ctrl", {"readDepth"})
              j == Jump(3)
              t == Throw
  <1>1. /\ IsSeq(c1) /\ Len(c1) = 1 /\ c1[1].op = "device" /\ c1[1].dev = "node"
        /\ c1[1].arg = "ctrl" /\ c1[1].rest = Raise /\ Typed(c1[1])
    BY Names DEF Device, Access, IsSeq, Typed, Suits
  <1>2. /\ IsSeq(c2) /\ Len(c2) = 1 /\ c2[1].op = "chip" /\ c2[1].dev = "ctrl"
        /\ c2[1].arg = k /\ c2[1].rest = Raise /\ Typed(c2[1])
    BY DEF Access, IsSeq, Typed, Suits
  <1>3. /\ IsSeq(c3) /\ Len(c3) = 1 /\ c3[1].op = "device" /\ c3[1].dev = "node"
        /\ c3[1].arg = "aget" /\ c3[1].rest = Raise /\ Typed(c3[1])
    BY Names DEF Device, Access, IsSeq, Typed, Suits
  <1>4. /\ IsSeq(c4) /\ Len(c4) = 1 /\ c4[1].op = "check" /\ c4[1].dev = "aget"
        /\ c4[1].arg.wrong = 4 /\ c4[1].rest = Raise /\ Typed(c4[1])
    BY DEF Access, IsSeq, Typed, Suits
  <1>5. /\ IsSeq(w) /\ Len(w) = 1 /\ w[1].op = "write" /\ w[1].dev = "ctrl"
        /\ w[1].rest = Raise /\ Typed(w[1])
    <2>1. PICK v : v = [groups |-> {"readDepth"}, good |-> FALSE, of |-> Reach]
      OBVIOUS
    <2>2. w = Access("write", "ctrl", v)
      BY <2>1 DEF Alter, Write
    <2>. HIDE DEF w
    <2>. QED
      BY <2>2 DEF Access, IsSeq, Typed, Suits
  <1>6. /\ IsSeq(j) /\ Len(j) = 1 /\ j[1].op = "jump" /\ j[1].dev = "none"
        /\ j[1].arg = 3 /\ j[1].rest = Raise /\ Typed(j[1])
    BY DEF Jump, Access, IsSeq, Typed, Suits
  <1>7. /\ IsSeq(t) /\ Len(t) = 1 /\ t[1].op = "throw" /\ t[1].dev = "none"
        /\ t[1].rest = Raise /\ Typed(t[1])
    BY DEF Throw, Access, IsSeq, Typed, Suits
  <1>8. check = c1 \o c2 \o c3 \o c4
    BY DEF ReadBack, AgetRegRSC, check
  <1>. HIDE DEF c1, c2, c3, c4, w, j, t, check, depth, wrong
  <1>9. /\ IsSeq(check) /\ Len(check) = 4
        /\ check[1] = c1[1] /\ check[2] = c2[1] /\ check[3] = c3[1] /\ check[4] = c4[1]
    <2>. DEFINE d2 == c1 \o c2
                d3 == d2 \o c3
                d4 == d3 \o c4
    <2>1. /\ IsSeq(d2) /\ Len(d2) = Len(c1) + 1 /\ d2[Len(c1) + 1] = c2[1]
          /\ \A i \in 1 .. Len(c1) : d2[i] = c1[i]
      BY <1>1, <1>2, OneMore
    <2>2. 1 + 1 = 2 /\ 2 + 1 = 3 /\ 3 + 1 = 4 /\ 1 \in 1 .. 1 /\ 1 \in 1 .. 2 /\ 2 \in 1 .. 2
          /\ 1 \in 1 .. 3 /\ 2 \in 1 .. 3 /\ 3 \in 1 .. 3
      OBVIOUS
    <2>. HIDE DEF d2
    <2>3. Len(d2) = 2 /\ d2[1] = c1[1] /\ d2[2] = c2[1]
      BY <1>1, <2>1, <2>2
    <2>4. /\ IsSeq(d3) /\ Len(d3) = Len(d2) + 1 /\ d3[Len(d2) + 1] = c3[1]
          /\ \A i \in 1 .. Len(d2) : d3[i] = d2[i]
      BY <1>3, <2>1, OneMore
    <2>. HIDE DEF d3
    <2>5. Len(d3) = 3 /\ d3[1] = c1[1] /\ d3[2] = c2[1] /\ d3[3] = c3[1]
      BY <2>2, <2>3, <2>4
    <2>6. /\ IsSeq(d4) /\ Len(d4) = Len(d3) + 1 /\ d4[Len(d3) + 1] = c4[1]
          /\ \A i \in 1 .. Len(d3) : d4[i] = d3[i]
      BY <1>4, <2>4, OneMore
    <2>. HIDE DEF d4
    <2>7. Len(d4) = 4 /\ d4[1] = c1[1] /\ d4[2] = c2[1] /\ d4[3] = c3[1] /\ d4[4] = c4[1]
      BY <2>2, <2>5, <2>6
    <2>. QED
      BY <1>8, <2>6, <2>7 DEF d2, d3, d4
  <1>. DEFINE g == OnError(check, z)
              u4 == g \o depth
              u7 == u4 \o j
              u == u7 \o wrong
  <1>10. /\ IsSeq(g) /\ Len(g) = 4
         /\ \A i \in 1 .. 4 :
                /\ Typed(g[i]) /\ Alike(g[i], check[i]) /\ ~Raises(g[i])
                /\ \A n, d, e : Move(g[i], n, d, e) =>
                       Move(check[i], n, d, e) \/ (n = 4 - i + 1 + z /\ e = d)
    <2>0. z \in Nat
      OBVIOUS
    <2>1. \A i \in 1 .. 4 : i = 1 \/ i = 2 \/ i = 3 \/ i = 4
      OBVIOUS
    <2>2. \A i \in 1 .. Len(check) : Typed(check[i])
      BY <1>1, <1>2, <1>3, <1>4, <1>9, <2>1
    <2>3. /\ IsSeq(g) /\ Len(g) = Len(check)
          /\ \A i \in 1 .. Len(check) :
                /\ Typed(g[i]) /\ Alike(g[i], check[i]) /\ ~Raises(g[i])
                /\ \A n, d, e : Move(g[i], n, d, e) =>
                       Move(check[i], n, d, e) \/ (Raises(check[i]) /\ n = Len(check) - i + 1 + z /\ e = d)
      <3>1. IsSeq(check)
        BY <1>9
      <3>. QED
        BY <2>0, <2>2, <3>1, ErrorsCaught
    <2>. HIDE DEF g
    <2>. QED
      BY <1>9, <2>3
  <1>. HIDE DEF g
  <1>11. IsSeq(depth) /\ Len(depth) = 2 /\ depth[1] = c1[1] /\ depth[2] = w[1]
    <2>1. /\ IsSeq(depth) /\ Len(depth) = Len(c1) + 1 /\ depth[Len(c1) + 1] = w[1]
          /\ \A i \in 1 .. Len(c1) : depth[i] = c1[i]
      BY <1>1, <1>5, OneMore DEF c1, w, depth, Depth
    <2>2. 1 + 1 = 2 /\ 1 \in 1 .. 1
      OBVIOUS
    <2>. QED
      BY <1>1, <2>1, <2>2
  <1>12. IsSeq(wrong) /\ Len(wrong) = 3 /\ wrong[1] = c1[1] /\ wrong[2] = w[1] /\ wrong[3] = t[1]
    <2>1. /\ IsSeq(wrong) /\ Len(wrong) = Len(depth) + 1 /\ wrong[Len(depth) + 1] = t[1]
          /\ \A i \in 1 .. Len(depth) : wrong[i] = depth[i]
      BY <1>7, <1>11, OneMore DEF t, wrong
    <2>2. 2 + 1 = 3 /\ 1 \in 1 .. 2 /\ 2 \in 1 .. 2
      OBVIOUS
    <2>. QED
      BY <1>11, <2>1, <2>2
  <1>13. /\ IsSeq(u4) /\ Len(u4) = 6 /\ \A i \in 1 .. 4 : u4[i] = g[i]
         /\ u4[5] = c1[1] /\ u4[6] = w[1]
    <2>1. /\ IsSeq(u4) /\ Len(u4) = Len(g) + Len(depth) /\ \A i \in 1 .. Len(g) : u4[i] = g[i]
          /\ \A i \in 1 .. Len(depth) : u4[Len(g) + i] = depth[i]
      <3>1. IsSeq(g) /\ IsSeq(depth)
        BY <1>10, <1>11
      <3>. QED
        BY <3>1, Behind
    <2>2. 4 + 1 = 5 /\ 4 + 2 = 6 /\ 1 \in 1 .. 2 /\ 2 \in 1 .. 2
      OBVIOUS
    <2>. HIDE DEF u4
    <2>. QED
      BY <1>10, <1>11, <2>1, <2>2
  <1>. HIDE DEF u4
  <1>14. /\ IsSeq(u7) /\ Len(u7) = 7 /\ \A i \in 1 .. 4 : u7[i] = g[i]
         /\ u7[5] = c1[1] /\ u7[6] = w[1] /\ u7[7] = j[1]
    <2>1. /\ IsSeq(u7) /\ Len(u7) = Len(u4) + 1 /\ u7[Len(u4) + 1] = j[1]
          /\ \A i \in 1 .. Len(u4) : u7[i] = u4[i]
      BY <1>6, <1>13, OneMore
    <2>2. 6 + 1 = 7 /\ 5 \in 1 .. 6 /\ 6 \in 1 .. 6 /\ \A i \in 1 .. 4 : i \in 1 .. 6
      OBVIOUS
    <2>. HIDE DEF u7
    <2>. QED
      BY <1>13, <2>1, <2>2
  <1>. HIDE DEF u7
  <1>15. /\ IsSeq(u) /\ Len(u) = 10 /\ \A i \in 1 .. 4 : u[i] = g[i]
         /\ u[5] = c1[1] /\ u[6] = w[1] /\ u[7] = j[1]
         /\ u[8] = c1[1] /\ u[9] = w[1] /\ u[10] = t[1]
    <2>1. /\ IsSeq(u) /\ Len(u) = Len(u7) + Len(wrong) /\ \A i \in 1 .. Len(u7) : u[i] = u7[i]
          /\ \A i \in 1 .. Len(wrong) : u[Len(u7) + i] = wrong[i]
      <3>1. IsSeq(u7) /\ IsSeq(wrong)
        BY <1>12, <1>14
      <3>. QED
        BY <3>1, Behind
    <2>2. /\ 7 + 1 = 8 /\ 7 + 2 = 9 /\ 7 + 3 = 10 /\ 1 \in 1 .. 3 /\ 2 \in 1 .. 3 /\ 3 \in 1 .. 3
          /\ 5 \in 1 .. 7 /\ 6 \in 1 .. 7 /\ 7 \in 1 .. 7 /\ \A i \in 1 .. 4 : i \in 1 .. 7
      OBVIOUS
    <2>. HIDE DEF u
    <2>. QED
      BY <1>12, <1>14, <2>1, <2>2
  <1>. HIDE DEF u
  <1>. DEFINE devs == [i \in 1 .. 11 |-> IF i \in {1, 5, 8, 11} THEN AnyDevice
                                         ELSE IF i = 4 THEN {"aget"} ELSE {"ctrl"}]
  <1>16. /\ devs \in [1 .. 11 -> SUBSET AnyDevice]
         /\ devs[1] = AnyDevice /\ devs[2] = {"ctrl"} /\ devs[3] = {"ctrl"} /\ devs[4] = {"aget"}
         /\ devs[5] = AnyDevice /\ devs[6] = {"ctrl"} /\ devs[7] = {"ctrl"}
         /\ devs[8] = AnyDevice /\ devs[9] = {"ctrl"} /\ devs[10] = {"ctrl"} /\ devs[11] = AnyDevice
    BY Names
  <1>. HIDE DEF devs
  <1>17. \A i \in 1 .. 11 : devs[i] \subseteq AnyDevice
    BY <1>16
  <1>18. ASSUME NEW i \in 1 .. 4 PROVE Follows(u, i, devs, AnyDevice) /\ ~OfNode(u[i])
    <2>1. /\ u[i] = g[i] /\ Typed(g[i]) /\ Alike(g[i], check[i]) /\ ~Raises(g[i])
          /\ \A n, d, e : Move(g[i], n, d, e) =>
                 Move(check[i], n, d, e) \/ (n = 4 - i + 1 + z /\ e = d)
      BY <1>10, <1>15
    <2>2. ~OfNode(check[i]) /\ (OfRegister(check[i]) => devs[i] \subseteq {check[i].dev})
      BY <1>1, <1>2, <1>3, <1>4, <1>9, <1>16 DEF OfNode, OfRegister
    <2>3. ASSUME NEW n, NEW d \in devs[i], NEW e, Move(check[i], n, d, e)
          PROVE  n \in 1 .. (11 - i) /\ e \in devs[i + n]
      <3>1. CASE i = 1
        BY <1>1, <1>9, <1>16, <2>3, <3>1 DEF Move
      <3>2. CASE i = 2
        BY <1>2, <1>9, <1>16, <2>3, <3>2 DEF Move
      <3>3. CASE i = 3
        BY <1>3, <1>9, <1>16, <2>3, <3>3 DEF Move
      <3>4. CASE i = 4
        <4>1. (n = 1 \/ n = 4) /\ e = d
          BY <1>4, <1>9, <2>3, <3>4 DEF Move
        <4>. QED
          BY <1>16, <1>17, <2>3, <3>4, <4>1
      <3>. QED
        BY <3>1, <3>2, <3>3, <3>4
    <2>4. ASSUME NEW n, NEW d \in devs[i], NEW e, n = 4 - i + 1 + z, e = d
          PROVE  n \in 1 .. (11 - i) /\ e \in devs[i + n]
      <3>1. n \in 1 .. (11 - i) /\ (i + n = 5 \/ i + n = 8)
        BY <2>4
      <3>. QED
        BY <1>16, <1>17, <2>4, <3>1
    <2>5. \A n, d, e : d \in devs[i] /\ Move(u[i], n, d, e) => n \in 1 .. (11 - i) /\ e \in devs[i + n]
      <3>. SUFFICES ASSUME NEW n, NEW d \in devs[i], NEW e, Move(u[i], n, d, e)
                    PROVE  n \in 1 .. (11 - i) /\ e \in devs[i + n]
        OBVIOUS
      <3>1. CASE Move(check[i], n, d, e)
        BY <2>3, <3>1
      <3>2. CASE n = 4 - i + 1 + z /\ e = d
        BY <2>4, <3>2
      <3>. QED
        BY <2>1, <3>1, <3>2
    <2>. QED
      BY <1>15, <2>1, <2>2, <2>5 DEF Follows, OfNode, OfRegister, Alike
  <1>19. ASSUME NEW i \in {5, 8} PROVE Follows(u, i, devs, AnyDevice) /\ ~OfNode(u[i])
    <2>1. u[i] = c1[1] /\ devs[i] = AnyDevice /\ devs[i + 1] = {"ctrl"} /\ 1 \in 1 .. (Len(u) + 1 - i)
      BY <1>15, <1>16
    <2>2. \A n, d, e : Move(c1[1], n, d, e) => n = 1 /\ e = "ctrl"
      BY <1>1 DEF Move
    <2>. QED
      BY <1>1, <2>1, <2>2 DEF Follows, OfNode, OfRegister
  <1>20. ASSUME NEW i \in {6, 9} PROVE Follows(u, i, devs, AnyDevice) /\ ~OfNode(u[i])
    <2>1. u[i] = w[1] /\ devs[i] = {"ctrl"} /\ devs[i + 1] = {"ctrl"} /\ 1 \in 1 .. (Len(u) + 1 - i)
      BY <1>15, <1>16
    <2>2. \A n, d, e : Move(w[1], n, d, e) => n = 1 /\ e = d
      BY <1>5 DEF Move
    <2>. QED
      BY <1>5, <2>1, <2>2, Names DEF Follows, OfNode, OfRegister
  <1>21. Follows(u, 7, devs, AnyDevice) /\ ~OfNode(u[7])
    <2>1. u[7] = j[1] /\ devs[7] = {"ctrl"} /\ devs[7 + 4] = AnyDevice /\ 4 \in 1 .. (Len(u) + 1 - 7)
      BY <1>15, <1>16
    <2>2. \A n, d, e : Move(j[1], n, d, e) => n = 4 /\ e = d
      BY <1>6 DEF Move
    <2>. QED
      BY <1>6, <2>1, <2>2, Names DEF Follows, OfNode, OfRegister
  <1>22. Follows(u, 10, devs, AnyDevice) /\ ~OfNode(u[10])
    <2>1. \A n, d, e : ~Move(t[1], n, d, e)
      BY <1>7 DEF Move
    <2>. QED
      BY <1>7, <1>15, <1>17, <2>1 DEF Follows, OfNode, OfRegister
  <1>23. \A i \in 1 .. Len(u) : Follows(u, i, devs, AnyDevice) /\ ~OfNode(u[i])
    <2>1. \A i \in 1 .. 10 : i \in 1 .. 4 \/ i \in {5, 8} \/ i \in {6, 9} \/ i = 7 \/ i = 10
      OBVIOUS
    <2>. QED
      BY <1>15, <1>18, <1>19, <1>20, <1>21, <1>22, <2>1
  <1>24. Flows(u, devs, AnyDevice)
    BY <1>15, <1>16, <1>23 DEF Flows
  <1>25. Free(u)
    <2>1. Len(u) + 1 = 11
      BY <1>15
    <2>2. AnyDevice \subseteq devs[1] /\ devs[Len(u) + 1] \subseteq AnyDevice
      BY <1>16, <2>1
    <2>. QED
      BY <1>15, <1>23, <1>24, <2>2 DEF Free, Leads
  <1>. QED
    BY <1>25 DEF u, u7, u4, g, j, check, depth, wrong

\* reg12 (GetController.cpp:2544).
LEMMA SetAgetReg12Leads ==
    ASSUME NEW c, NEW k \in Chips PROVE Free(SetAgetReg12(c, k))
  <1>1. Len(Depth) = 2 /\ Len(Depth \o Throw) = 3 /\ Free(Depth)
    <2>1. Free(Depth)
      BY Basics, Parts DEF Depth
    <2>2. Len(Depth) = 2
      BY DEF Depth, Device, Alter, Write, Access
    <2>3. IsSeq(Depth) /\ IsSeq(Throw) /\ Len(Throw) = 1
      BY <2>1 DEF Free, Leads, Throw, Access, IsSeq
    <2>4. Len(Depth \o Throw) = Len(Depth) + 1
      BY <2>3, OneMore
    <2>. QED
      BY <2>1, <2>2, <2>4
  <1>2. CASE k \notin Config[c].scCheck
    <2>1. SetAgetReg12(c, k) = AgetRegWSC(k, "reg12", TRUE) \o Depth
      BY <1>2 DEF SetAgetReg12, Depth
    <2>. QED
      BY <1>1, <2>1, AgetRoutines, Parts
  <1>3. CASE k \in Config[c].scCheck
    <2>. DEFINE z == IF "reg12" \in Config[c].zeros THEN 0 ELSE 3
                t == OnError(ReadBack(k, "reg12", 4), z) \o Depth \o Jump(3) \o (Depth \o Throw)
    <2>1. 2 + 2 = 4 /\ 2 + 1 = 3
      OBVIOUS
    <2>2. SetAgetReg12(c, k)
              = AgetRegWSC(k, "reg12", TRUE)
                \o (OnError(ReadBack(k, "reg12", 4), z) \o Depth \o Jump(3) \o (Depth \o Throw))
      BY <1>1, <1>3, <2>1 DEF SetAgetReg12, Depth, Try
    <2>3. Free(t)
      BY DepthLeads
    <2>. HIDE DEF t
    <2>. QED
      BY <2>2, <2>3, AgetRoutines, Parts DEF t
  <1>. QED
    BY <1>2, <1>3

\* Sequences of any elements are sequences of elements of one set.
LEMMA OneSet ==
    ASSUME NEW N, NEW seqs, \A n \in 1 .. N : IsSeq(seqs[n])
    PROVE  \E A : \A n \in 1 .. N : seqs[n] \in Seq(A)
  <1>. DEFINE Of(n) == {seqs[n][k] : k \in DOMAIN seqs[n]}
              A == UNION {Of(n) : n \in 1 .. N}
  <1>1. ASSUME NEW n \in 1 .. N PROVE seqs[n] \in Seq(A)
    <2>1. seqs[n] \in Seq(Of(n))
      BY DEF IsSeq
    <2>. HIDE DEF Of
    <2>2. Of(n) \subseteq A
      OBVIOUS
    <2>. QED
      BY <2>1, <2>2, SeqMonotonic
  <1>. QED
    BY <1>1

\* Any number of parts that may be entered with any device.
LEMMA FreeParts ==
    ASSUME NEW N \in Nat, NEW seqs, DOMAIN seqs = 1 .. N, seqs = [n \in 1 .. N |-> seqs[n]],
           \A n \in 1 .. N : Free(seqs[n])
    PROVE  Free(FlattenSeq(seqs))
  <1>1. \A n \in 1 .. N : IsSeq(seqs[n])
    BY DEF Free, Leads
  <1>2. PICK A : \A n \in 1 .. N : seqs[n] \in Seq(A)
    BY <1>1, OneSet
  <1>. DEFINE S == {s \in Seq(A) : Free(s)}
  <1>3. << >> \in S
    BY Nothing DEF Free
  <1>4. \A s, t \in S : s \o t \in S
    BY ConcatProperties, Parts
  <1>5. seqs \in [1 .. N -> S]
    BY <1>2
  <1>. HIDE DEF S
  <1>6. FlattenSeq(seqs) \in S
    BY <1>3, <1>4, <1>5, FlattenClosed
  <1>. QED
    BY <1>6 DEF S

\* One chip (GetController.cpp:320).
LEMMA ConfigureAgetLeads ==
    ASSUME NEW c, NEW k \in Chips PROVE Free(ConfigureAget(c, k))
  <1>1. Free(SetAgetRegisters(c, k))
    <2>1. DOMAIN AgetRegisters = 1 .. Len(AgetRegisters) /\ Len(AgetRegisters) \in Nat
      BY RegistersAssumption, LenProperties
    <2>. DEFINE seqs == [n \in DOMAIN AgetRegisters |-> SetAgetReg(c, k, AgetRegisters[n])]
    <2>2. \A n \in 1 .. Len(AgetRegisters) : Free(seqs[n])
      BY <2>1, SetAgetRegLeads
    <2>3. DOMAIN seqs = 1 .. Len(AgetRegisters) /\ seqs = [n \in 1 .. Len(AgetRegisters) |-> seqs[n]]
      BY <2>1
    <2>. HIDE DEF seqs
    <2>4. Free(FlattenSeq(seqs))
      BY <2>1, <2>2, <2>3, FreeParts
    <2>. QED
      BY <2>4, SetAgetReg12Leads, Parts DEF SetAgetRegisters, seqs
  <1>2. Free(SetAgetSlowControlMask({k}) \o SelectAgetForRead(k) \o EnableFPNRead)
    BY FreeRoutines, Parts
  <1>3. Free(SetReadMask(k, "readIfHit")) /\ Free(SetReadMask(k, "readAlways"))
        /\ Free(SetCoBoZeroSuppressionThreshold(k))
    BY FreeRoutines, AgetRoutines
  <1>. QED
    BY <1>1, <1>2, <1>3, Parts DEF ConfigureAget

\* One board (GetController.cpp:308).
LEMMA ConfigureAsAdLeads ==
    ASSUME NEW c, NEW i \in AsAds PROVE Free(ConfigureAsAd(c, i))
  <1>. DEFINE Chip(k) == When(IsAgetActive(c, k), OnChip(k, ConfigureAget(c, k)))
              Board == Chip(4 * i) \o Chip(4 * i + 1) \o Chip(4 * i + 2) \o Chip(4 * i + 3)
  <1>1. ASSUME NEW k \in Chips PROVE Free(Chip(k))
    BY ConfigureAgetLeads, Loops
  <1>. HIDE DEF Chip
  <1>2. Free(Board)
    <2>1. /\ Free(Chip(4 * i)) /\ Free(Chip(4 * i + 1))
          /\ Free(Chip(4 * i + 2)) /\ Free(Chip(4 * i + 3))
      BY <1>1, ChipsOfBoards
    <2>. QED
      BY <2>1, Loops
  <1>3. EachActiveAget(c, i, LAMBDA k : ConfigureAget(c, k)) = Board
    BY DEF EachActiveAget, EachChip, Chip
  <1>. HIDE DEF Board
  <1>4. Free(AsAdPulserConfigure(c)) /\ Free(ReadSensors(i)) /\ Free(When(i \in Config[c].inspected, AsAdSetISPM))
    BY AsAdRoutines, MonitoringRoutines, FreeRoutines, Blocks DEF AsAdPulserConfigure
  <1>5. Free(SelectAsAdForSlowControl(i)) /\ Free(SwitchToSlowControl(Masks(c)))
    BY FreeRoutines
  <1>. QED
    BY <1>2, <1>3, <1>4, <1>5, Parts DEF ConfigureAsAd

-------------------------------------------------------------------------------
(* Visits to a node                                                            *)

\* A part that connects to the node of CoBo c, then finds its devices and ends
\* with one of E.
Connects(a, c) == a.op = "node" /\ a.arg = c /\ a.dev = "server" /\ a.rest = Raise
Visits(s, c, E) ==
    /\ IsSeq(s) /\ Len(s) \in Nat /\ Len(s) >= 1
    /\ Connects(s[1], c) /\ \A k \in 2 .. Len(s) : ~OfNode(s[k])
    /\ \E devs : /\ Flows(s, devs, AnyDevice) /\ devs[1] = AnyDevice
                 /\ devs[Len(s) + 1] \subseteq E

\* The connection itself.
LEMMA ConnectionVisits == \A c : Visits(ConnectNode(c), c, AnyDevice)
  <1>. SUFFICES ASSUME NEW c PROVE Visits(ConnectNode(c), c, AnyDevice)
    OBVIOUS
  <1>. DEFINE s == ConnectNode(c)
              a == s[1]
              devs == [k \in 1 .. 2 |-> AnyDevice]
  <1>1. Len(s) = 1 /\ IsSeq(s) /\ Connects(a, c) /\ Typed(a)
    BY DEF ConnectNode, Access, IsSeq, Connects, Typed, Suits
  <1>. HIDE DEF s
  <1>2. devs \in [1 .. 2 -> SUBSET AnyDevice] /\ devs[1] = AnyDevice /\ devs[2] = AnyDevice
    OBVIOUS
  <1>. HIDE DEF devs
  <1>3. \A n, d, e : Move(a, n, d, e) => n = 1 /\ e = "none"
    BY <1>1 DEF Move, Connects
  <1>4. "none" \in AnyDevice
    BY DEF AnyDevice
  <1>5. Follows(s, 1, devs, AnyDevice)
    BY <1>1, <1>2, <1>3, <1>4 DEF Follows, Connects, OfRegister
  <1>6. Flows(s, devs, AnyDevice)
    BY <1>1, <1>2, <1>5 DEF Flows
  <1>7. Len(s) + 1 = 2 /\ 2 .. Len(s) = {}
    BY <1>1
  <1>. QED
    BY <1>1, <1>2, <1>6, <1>7 DEF Visits, s

\* A part behind it.
LEMMA VisitGoesOn ==
    ASSUME NEW s, NEW t, NEW c, NEW E, NEW F, Visits(s, c, E), Leads(t, E, F, AnyDevice)
    PROVE  Visits(s \o t, c, F)
  <1>1. PICK ds : /\ Flows(s, ds, AnyDevice) /\ ds[1] = AnyDevice
                  /\ ds[Len(s) + 1] \subseteq E
    BY DEF Visits
  <1>2. PICK dt : /\ Flows(t, dt, AnyDevice) /\ E \subseteq dt[1] /\ dt[Len(t) + 1] \subseteq F
    BY DEF Leads
  <1>3. IsSeq(s) /\ IsSeq(t) /\ Len(s) \in Nat /\ Len(s) >= 1
    BY DEF Visits, Leads
  <1>4. PICK devs : /\ Flows(s \o t, devs, AnyDevice) /\ ds[1] \subseteq devs[1]
                    /\ devs[Len(s \o t) + 1] = dt[Len(t) + 1]
    BY <1>1, <1>2, <1>3, Joined
  <1>5. /\ IsSeq(s \o t) /\ Len(s \o t) = Len(s) + Len(t) /\ Len(t) \in Nat
        /\ \A k \in 1 .. Len(s) : (s \o t)[k] = s[k]
        /\ \A k \in 1 .. Len(s \o t) :
               \/ k \in 1 .. Len(s) /\ (s \o t)[k] = s[k]
               \/ k - Len(s) \in 1 .. Len(t) /\ (s \o t)[k] = t[k - Len(s)]
    BY <1>3, Concatenated, Elements
  <1>. DEFINE u == s \o t
  <1>. HIDE DEF u
  <1>6. Len(u) \in Nat /\ Len(u) >= 1 /\ u[1] = s[1]
    BY <1>3, <1>5 DEF u
  <1>7. ASSUME NEW k \in 2 .. Len(u) PROVE ~OfNode(u[k])
    <2>1. k \in 1 .. Len(u)
      BY <1>6
    <2>2. CASE k \in 1 .. Len(s) /\ u[k] = s[k]
      <3>1. k \in 2 .. Len(s)
        BY <1>3, <2>2
      <3>. QED
        BY <2>2, <3>1 DEF Visits
    <2>3. CASE k - Len(s) \in 1 .. Len(t) /\ u[k] = t[k - Len(s)]
      BY <2>3 DEF Leads
    <2>. QED
      BY <1>5, <2>1, <2>2, <2>3 DEF u
  <1>8. devs[1] = AnyDevice
    <2>1. devs[1] \in SUBSET AnyDevice
      BY <1>4, <1>6 DEF Flows, u
    <2>. QED
      BY <1>1, <1>4, <2>1
  <1>9. Connects(u[1], c)
    BY <1>6 DEF Visits
  <1>10. Flows(u, devs, AnyDevice) /\ devs[Len(u) + 1] \subseteq F /\ IsSeq(u)
    BY <1>2, <1>4, <1>5 DEF u
  <1>11. Visits(u, c, F)
    BY <1>6, <1>7, <1>8, <1>9, <1>10 DEF Visits
  <1>. QED
    BY <1>11 DEF u

\* How a visit goes on.
LEMMA VisitParts ==
    /\ \A s, t, c : Visits(s, c, AnyDevice) /\ Free(t) => Visits(s \o t, c, AnyDevice)
    /\ \A s, t, c, d : Visits(s, c, AnyDevice) /\ Ends(t, d) => Visits(s \o t, c, {d})
    /\ \A s, t, c, d : d \in AnyDevice /\ Visits(s, c, {d}) /\ Held(d, t) => Visits(s \o t, c, {d})
    /\ \A s, c, d : d \in AnyDevice /\ Visits(s, c, {d}) => Visits(s, c, AnyDevice)
  <1>1. ASSUME NEW s, NEW t, NEW c, Visits(s, c, AnyDevice), Free(t) PROVE Visits(s \o t, c, AnyDevice)
    BY <1>1, VisitGoesOn DEF Free
  <1>2. ASSUME NEW s, NEW t, NEW c, NEW d, Visits(s, c, AnyDevice), Ends(t, d)
        PROVE  Visits(s \o t, c, {d})
    BY <1>2, VisitGoesOn DEF Ends
  <1>3. ASSUME NEW s, NEW t, NEW c, NEW d \in AnyDevice, Visits(s, c, {d}), Held(d, t)
        PROVE  Visits(s \o t, c, {d})
    <2>1. {d} \subseteq AnyDevice
      OBVIOUS
    <2>2. Leads(t, {d}, {d}, AnyDevice)
      BY <1>3, <2>1, Weaker DEF Held
    <2>. QED
      BY <1>3, <2>2, VisitGoesOn
  <1>4. ASSUME NEW s, NEW c, NEW d \in AnyDevice, Visits(s, c, {d}) PROVE Visits(s, c, AnyDevice)
    BY <1>4 DEF Visits
  <1>. QED
    BY <1>1, <1>2, <1>3, <1>4

\* A part of one word after another: shorthands for the parts of a program.
LEMMA FreeWords ==
    /\ Free(SetCoBoInitDone(TRUE)) /\ Free(SetCoBoInitDone(FALSE)) /\ Free(SetCoBoMutantMode)
    /\ Free(CheckHardwareVersion) /\ Free(CheckFirmwareRelease)
    /\ Free(PipeInit) /\ Free(TriggerInit) /\ Free(CircularBufferInit)
    /\ Free(SetWritingClockFrequency) /\ Free(SetReadDataDelay) /\ Free(DaqConnect)
    /\ \A valid : Free(SetCoBoReadingClockFrequency(valid))
    /\ \A c : Free(AgetInit(Masks(c))) /\ Free(CalibrateAutoReadDataDelay(Masks(c)))
    /\ \A group : Free(SetCtrl(group)) /\ Free(SetCtrlIfKnown(group))
    /\ Free(SetSecondaryTriggerMode) /\ Free(SetCoBoZeroSuppressionMode)
  <1>1. /\ Free(SetCoBoInitDone(TRUE)) /\ Free(SetCoBoInitDone(FALSE)) /\ Free(SetCoBoMutantMode)
        /\ Free(CheckHardwareVersion) /\ Free(CheckFirmwareRelease)
    BY SelectionRoutines, Names, Parts
  <1>2. Free(PipeInit) /\ Free(TriggerInit) /\ Free(CircularBufferInit)
    BY BoardRoutines, Names, Parts
  <1>3. /\ \A group : Free(SetCtrl(group)) /\ Free(SetCtrlIfKnown(group))
        /\ \A valid : Free(SetCoBoReadingClockFrequency(valid))
        /\ Free(SetSecondaryTriggerMode) /\ Free(SetCoBoZeroSuppressionMode)
    BY CoBoRoutines, Names, Parts
  <1>4. Free(SetWritingClockFrequency) /\ Free(SetReadDataDelay)
    BY <1>3, CoBoRoutines DEF SetWritingClockFrequency, SetReadDataDelay
  <1>5. Free(DaqConnect) /\ \A c : Free(AgetInit(Masks(c))) /\ Free(CalibrateAutoReadDataDelay(Masks(c)))
    BY DaqRoutines, AgetInitLeads, AgetRoutines, MasksOfClient
  <1>. QED
    BY <1>1, <1>2, <1>3, <1>4, <1>5

\* loadHw (GetController.cpp:227).
LEMMA LoadHwVisits ==
    ASSUME NEW c PROVE \E s : LoadHw(c) = On(c, s) /\ Visits(s, c, AnyDevice)
  <1>. DEFINE s1 == LoadHwDescription(c) \o SetCoBoInitDone(FALSE) \o SetCoBoMutantMode
                    \o CheckHardwareVersion \o CheckFirmwareRelease \o PipeInit
              s2 == s1 \o SetCoBoLemoModes(c) \o TriggerInit \o CircularBufferInit
                    \o AsAdInitAndCal(c) \o SetWritingClockFrequency \o AsAdSamplingClockInit(c)
              s3 == s2 \o SetCoBoReadingClockFrequency(Config[c].validClock)
                    \o AsAdReadingClockInit(c) \o SetReadDataDelay
                    \o AsAdAgetInputManagerInit(c) \o AgetInit(Masks(c))
              s4 == s3 \o AsAdAdcInit(Masks(c)) \o AsAdDacInit
              s5 == s4 \o AsAdAlertsInit(c) \o SubscribeToAlarms \o AsAdMonitoringRead(c, 0)
                    \o InitializeGlobalThresholds(c)
              s6 == s5 \o When(Config[c].active /\ Config[c].calibrate,
                               CalibrateAutoReadDataDelay(Masks(c)))
                    \o SelectReadDataDelay(c) \o DaqConnect
  <1>1. Visits(s1, c, AnyDevice)
    <2>1. Visits(LoadHwDescription(c), c, AnyDevice)
      BY ConnectionVisits, DaqRoutines, VisitParts DEF LoadHwDescription
    <2>. QED
      BY <2>1, FreeWords, VisitParts
  <1>. HIDE DEF s1
  <1>2. Visits(s2, c, AnyDevice)
    BY <1>1, FreeWords, LoadRoutines, VisitParts
  <1>. HIDE DEF s2
  <1>3. Visits(s3, c, AnyDevice)
    BY <1>2, FreeWords, LoadRoutines, VisitParts
  <1>. HIDE DEF s3
  <1>4. Visits(s4, c, AnyDevice)
    <2>1. Visits(s3 \o AsAdAdcInit(Masks(c)), c, {"asad"})
      BY <1>3, MasksOfClient, AdcRoutines, VisitParts
    <2>2. Held("asad", AsAdDacInit)
      BY MasksOfClient, AdcRoutines
    <2>. QED
      BY <2>1, <2>2, Names, VisitParts
  <1>. HIDE DEF s4
  <1>5. Visits(s5, c, AnyDevice)
    BY <1>4, MonitoringRoutines, LoadRoutines, VisitParts
  <1>. HIDE DEF s5
  <1>6. Visits(s6, c, AnyDevice)
    <2>1. Free(When(Config[c].active /\ Config[c].calibrate, CalibrateAutoReadDataDelay(Masks(c))))
      BY FreeWords, Blocks
    <2>. QED
      BY <1>5, <2>1, FreeWords, LoadRoutines, VisitParts
  <1>7. LoadHw(c) = On(c, s6)
    BY DEF LoadHw, s5, s4, s3, s2, s1
  <1>. QED
    BY <1>6, <1>7

\* configure (GetController.cpp:298).
LEMMA ConfigureVisits ==
    ASSUME NEW c PROVE \E s : Configure(c) = On(c, s) /\ Visits(s, c, AnyDevice)
  <1>. DEFINE Round(i) == When(IsAsadActive(c, i), OnBoard(i, ConfigureAsAd(c, i)))
              Rounds == Round(0) \o Round(1) \o Round(2) \o Round(3)
  <1>1. Free(Rounds)
    <2>1. ASSUME NEW i \in AsAds PROVE Free(Round(i))
      BY ConfigureAsAdLeads, Loops
    <2>. HIDE DEF Round
    <2>. QED
      BY <2>1, Loops DEF AsAds
  <1>2. EachActiveAsAd(c, LAMBDA i : ConfigureAsAd(c, i)) = Rounds
    BY DEF EachActiveAsAd, EachAsAd
  <1>. HIDE DEF Rounds
  <1>. DEFINE s1 == ConnectNode(c) \o Rounds
                    \o SetAsAdSlowControlMask(Masks(c).asads) \o SetAgetSlowControlMask(Masks(c).chips)
                    \o SetWriteHitRegisterEnabled \o When(Config[c].active, AcqTestMode)
              s2 == s1 \o SetMultiplicityMode \o SetCoBoSuppressMultiplicity(c) \o SetCtrl("mem2p")
                    \o SetIdentities(c) \o SetCtrl("triggerPeriod")
              s3 == s2 \o TriggerTimes \o SetBuffers(c)
              s4 == s3 \o SetTriggerModes \o SetScwDelays \o SetReadOutMode(c) \o SetReadOut
              s5 == s4 \o DaqSetCircularBuffersEnabled \o Aget2pInitNow
                    \o ConfigureAsAdPeriodicPulser(c, 0) \o SetCoBoInitDone(TRUE)
  <1>3. Visits(s1, c, AnyDevice)
    <2>1. Free(SetWriteHitRegisterEnabled) /\ Free(When(Config[c].active, AcqTestMode))
      BY FreeWords, Blocks DEF SetWriteHitRegisterEnabled, AcqTestMode
    <2>. QED
      BY <1>1, <2>1, ConnectionVisits, FreeRoutines, VisitParts
  <1>. HIDE DEF s1
  <1>4. Visits(s2, c, AnyDevice)
    <2>1. Free(SetMultiplicityMode)
      BY FreeWords, Parts DEF SetMultiplicityMode, SetThreshold
    <2>2. Free(SetCoBoSuppressMultiplicity(c))
      BY FreeWords, CoBoRoutines DEF SetCoBoSuppressMultiplicity
    <2>3. Free(SetIdentities(c))
      BY FreeWords, Parts, Blocks DEF SetIdentities
    <2>. QED
      BY <1>3, <2>1, <2>2, <2>3, FreeWords, VisitParts
  <1>. HIDE DEF s2
  <1>5. Visits(s3, c, AnyDevice)
    <2>1. Visits(s2 \o TriggerTimes, c, {"ctrl"})
      BY <1>4, CoBoRoutines, VisitParts
    <2>2. Leads(SetBuffers(c), {"ctrl"}, AnyDevice, AnyDevice)
      <3>1. Leads(SetCircularBufferCommonParameters, {"ctrl"}, AnyDevice, AnyDevice)
        <4>1. {"ctrl"} \subseteq AnyDevice
          BY Names
        <4>. QED
          BY <4>1, CoBoRoutines, Weaker DEF Held
      <3>. DEFINE Own(i) == When(0 .. i \subseteq DOMAIN Config[c].own, SetOwnBuffer(c, i))
                  owns == Own(0) \o Own(1) \o Own(2) \o Own(3)
                  shared == When(~AllOwn(c), ShareMemory(c))
      <3>2. Free(owns)
        <4>1. \A i : Free(SetOwnBuffer(c, i))
          BY CoBoRoutines DEF SetOwnBuffer
        <4>2. \A i : Free(Own(i))
          BY <4>1, Blocks
        <4>. HIDE DEF Own
        <4>. QED
          BY <4>2, Loops
      <3>3. Free(shared)
        <4>1. Free(ShareMemory(c))
          BY CoBoRoutines DEF ShareMemory
        <4>. QED
          BY <4>1, Blocks
      <3>4. SetBuffers(c) = SetCircularBufferCommonParameters \o owns \o shared
        BY DEF SetBuffers, EachAsAd
      <3>. HIDE DEF owns, shared
      <3>5. Leads(SetCircularBufferCommonParameters \o owns, {"ctrl"}, AnyDevice, AnyDevice)
        BY <3>1, <3>2, Then DEF Free
      <3>. QED
        BY <3>3, <3>4, <3>5, Then DEF Free
    <2>. QED
      BY <2>1, <2>2, VisitGoesOn
  <1>. HIDE DEF s3
  <1>6. Visits(s4, c, AnyDevice)
    <2>1. Free(SetTriggerModes)
      BY FreeWords, Parts DEF SetTriggerModes, SetTriggerMode
    <2>2. Free(SetScwDelays)
      BY FreeWords, Parts DEF SetScwDelays
    <2>3. Free(SetReadOutMode(c))
      BY FreeWords, CoBoRoutines DEF SetReadOutMode, SetFullReadOutMode
    <2>4. Free(SetReadOut)
      BY FreeWords, Parts DEF SetReadOut, SetCoBoReadDepth, SetCoBoReadOffset
    <2>. QED
      BY <1>5, <2>1, <2>2, <2>3, <2>4, VisitParts
  <1>. HIDE DEF s4
  <1>7. Visits(s5, c, AnyDevice)
    <2>1. Free(DaqSetCircularBuffersEnabled) /\ Free(Aget2pInitNow)
      BY FreeWords, CoBoRoutines DEF DaqSetCircularBuffersEnabled, Aget2pInitNow
    <2>2. Free(ConfigureAsAdPeriodicPulser(c, 0))
      <3>1. Free(Write("write", "node", {"pulser"}, FALSE, Reach))
        <4>1. Suits("write", [groups |-> {"pulser"}, good |-> FALSE, of |-> Reach])
          BY DEF Suits
        <4>. QED
          BY <4>1, Names, Accesses DEF Write
      <3>2. Free(Try(Setting("pulserDouble"))) /\ Free(Try(Setting("pulserRandom")))
            /\ Free(Setting("pulser"))
        BY CoBoRoutines, Blocks
      <3>. QED
        BY <3>1, <3>2, Parts, Blocks DEF ConfigureAsAdPeriodicPulser
    <2>. QED
      BY <1>6, <2>1, <2>2, FreeWords, VisitParts
  <1>8. Configure(c) = On(c, s5)
    BY <1>2 DEF Configure, s4, s3, s2, s1
  <1>. QED
    BY <1>7, <1>8

-------------------------------------------------------------------------------
(* Whole programs                                                              *)

\* What a program asks of the server, and for which CoBo.
Placed(a) ==
    /\ a.cobo \in CoBos \cup {NoCoBo}
    /\ OfNode(a) => a.rest = Raise /\ a.dev = "server"
    /\ a.op = "node" => a.arg = a.cobo /\ a.cobo \in CoBos
    /\ a.op = "removeAll" => a.cobo = NoCoBo

\* devs has the devices that may be the current one at each access; an access
\* is followed by one for the same CoBo or by a connection to a node.
Guides(s, devs) ==
    /\ Flows(s, devs, AnyDevice) /\ devs[1] = AnyDevice
    /\ \A k \in 1 .. Len(s) : \A n, d, e :
           d \in devs[k] /\ Move(s[k], n, d, e) /\ k + n \in 1 .. Len(s)
               => OfNode(s[k + n]) \/ s[k + n].cobo = s[k].cobo
Guided(s) ==
    /\ IsSeq(s) /\ Len(s) \in Nat /\ (Len(s) >= 1 => OfNode(s[1]))
    /\ \A k \in 1 .. Len(s) : Placed(s[k])
    /\ \E devs : Guides(s, devs)

\* Nothing.
LEMMA NothingGuided == Guided(<< >>)
  <1>. DEFINE devs == [k \in 1 .. 1 |-> AnyDevice]
  <1>1. Len(<< >>) = 0 /\ IsSeq(<< >>)
    BY DEF IsSeq
  <1>2. Flows(<< >>, devs, AnyDevice) /\ devs[1] = AnyDevice
    BY <1>1 DEF Flows
  <1>. QED
    BY <1>1, <1>2 DEF Guided, Guides

\* One after another.
LEMMA BothGuided ==
    ASSUME NEW s, NEW t, Guided(s), Guided(t) PROVE Guided(s \o t)
  <1>1. PICK ds : Guides(s, ds)
    BY DEF Guided
  <1>2. PICK dt : Guides(t, dt)
    BY DEF Guided
  <1>3. IsSeq(s) /\ IsSeq(t) /\ Len(s) \in Nat /\ Len(t) \in Nat
    BY DEF Guided
  <1>4. ds[Len(s) + 1] \subseteq dt[1]
    <2>1. Len(s) + 1 \in 1 .. (Len(s) + 1)
      BY <1>3
    <2>. QED
      BY <1>1, <1>2, <2>1 DEF Guides, Flows
  <1>5. PICK devs : /\ Flows(s \o t, devs, AnyDevice) /\ ds[1] \subseteq devs[1]
                    /\ \A k \in 1 .. Len(s) : devs[k] = ds[k]
                    /\ \A k \in 1 .. (Len(t) + 1) : devs[Len(s) + k] = dt[k]
    BY <1>1, <1>2, <1>3, <1>4, Joined DEF Guides
  <1>6. /\ IsSeq(s \o t) /\ Len(s \o t) = Len(s) + Len(t)
        /\ \A k \in 1 .. Len(s) : (s \o t)[k] = s[k]
        /\ \A k \in 1 .. Len(t) : (s \o t)[Len(s) + k] = t[k]
        /\ \A k \in 1 .. Len(s \o t) :
               \/ k \in 1 .. Len(s) /\ (s \o t)[k] = s[k]
               \/ k - Len(s) \in 1 .. Len(t) /\ (s \o t)[k] = t[k - Len(s)]
    BY <1>3, Concatenated, Elements
  <1>. DEFINE u == s \o t
              m == Len(s)
  <1>. HIDE DEF u, m
  <1>7. Len(u) \in Nat /\ Len(u) = m + Len(t) /\ m \in Nat /\ Len(t) \in Nat
    BY <1>3, <1>6 DEF u, m
  <1>8. Len(u) >= 1 => OfNode(u[1])
    <2>1. CASE m = 0
      <3>1. Len(t) >= 1 => 1 \in 1 .. Len(t) /\ m + 1 = 1
        BY <1>7, <2>1
      <3>. QED
        BY <1>6, <1>7, <2>1, <3>1 DEF Guided, u, m
    <2>2. CASE m # 0
      <3>1. 1 \in 1 .. m /\ m >= 1
        BY <1>7, <2>2
      <3>. QED
        BY <1>6, <3>1 DEF Guided, u, m
    <2>. QED
      BY <2>1, <2>2
  <1>9. \A k \in 1 .. Len(u) : Placed(u[k])
    BY <1>6 DEF Guided, u
  <1>10. devs[1] = AnyDevice
    <2>1. 1 \in 1 .. (Len(u) + 1)
      BY <1>7
    <2>2. devs[1] \in SUBSET AnyDevice
      BY <1>5, <2>1 DEF Flows, u
    <2>. QED
      BY <1>1, <1>5, <2>2 DEF Guides
  <1>11. ASSUME NEW k \in 1 .. Len(u), NEW n, NEW d \in devs[k], NEW e, Move(u[k], n, d, e),
                k + n \in 1 .. Len(u)
         PROVE  OfNode(u[k + n]) \/ u[k + n].cobo = u[k].cobo
    <2>1. CASE k \in 1 .. m
      <3>1. u[k] = s[k] /\ devs[k] = ds[k]
        BY <1>5, <1>6, <2>1 DEF u, m
      <3>2. n \in 1 .. (m + 1 - k)
        BY <1>1, <1>11, <2>1, <3>1 DEF Guides, Flows, Follows, m
      <3>3. CASE k + n \in 1 .. m
        <4>1. u[k + n] = s[k + n]
          BY <1>6, <3>3 DEF u, m
        <4>. QED
          BY <1>1, <1>11, <2>1, <3>1, <3>3, <4>1 DEF Guides, m
      <3>4. CASE k + n = m + 1
        <4>1. 1 \in 1 .. Len(t) /\ Len(t) >= 1
          BY <1>7, <1>11, <3>4
        <4>2. u[m + 1] = t[1]
          BY <1>6, <4>1 DEF u, m
        <4>. QED
          BY <3>4, <4>1, <4>2 DEF Guided
      <3>. QED
        BY <1>7, <2>1, <3>2, <3>3, <3>4
    <2>2. CASE k \notin 1 .. m
      <3>1. PICK i \in 1 .. Len(t) : k = m + i
        <4>1. k - m \in 1 .. Len(t) /\ k = m + (k - m)
          BY <1>7, <2>2
        <4>. QED
          BY <4>1
      <3>2. u[k] = t[i] /\ devs[k] = dt[i]
        <4>1. i \in 1 .. (Len(t) + 1)
          BY <1>7
        <4>. QED
          BY <1>5, <1>6, <3>1, <4>1 DEF u, m
      <3>3. n \in 1 .. (Len(t) + 1 - i)
        BY <1>2, <1>11, <3>2 DEF Guides, Flows, Follows
      <3>4. i + n \in 1 .. Len(t) /\ k + n = m + (i + n)
        BY <1>7, <1>11, <3>1, <3>3
      <3>5. u[k + n] = t[i + n]
        BY <1>6, <3>4 DEF u, m
      <3>. QED
        BY <1>2, <1>11, <3>2, <3>4, <3>5 DEF Guides
    <2>. QED
      BY <2>1, <2>2
  <1>12. Guides(u, devs)
    BY <1>5, <1>10, <1>11 DEF Guides, u
  <1>13. Guided(u)
    BY <1>6, <1>7, <1>8, <1>9, <1>12 DEF Guided, u
  <1>. QED
    BY <1>13 DEF u

\* Any number of them, one for each target.
LEMMA AllGuided ==
    ASSUME NEW N \in Nat, NEW seqs, DOMAIN seqs = 1 .. N, seqs = [n \in 1 .. N |-> seqs[n]],
           \A n \in 1 .. N : Guided(seqs[n])
    PROVE  Guided(FlattenSeq(seqs))
  <1>1. \A n \in 1 .. N : IsSeq(seqs[n])
    BY DEF Guided
  <1>2. PICK A : \A n \in 1 .. N : seqs[n] \in Seq(A)
    BY <1>1, OneSet
  <1>. DEFINE S == {s \in Seq(A) : Guided(s)}
  <1>3. << >> \in S
    BY NothingGuided
  <1>4. \A s, t \in S : s \o t \in S
    BY ConcatProperties, BothGuided
  <1>5. seqs \in [1 .. N -> S]
    BY <1>2
  <1>. HIDE DEF S
  <1>6. FlattenSeq(seqs) \in S
    BY <1>3, <1>4, <1>5, FlattenClosed
  <1>. QED
    BY <1>6 DEF S

\* A visit that is meant for the CoBo whose node it connects to.
LEMMA VisitGuided ==
    ASSUME NEW c \in CoBos, NEW s, Visits(s, c, AnyDevice) PROVE Guided(On(c, s))
  <1>1. PICK devs : Flows(s, devs, AnyDevice) /\ devs[1] = AnyDevice
    BY DEF Visits
  <1>2. IsSeq(s) /\ Len(s) \in Nat /\ Len(s) >= 1 /\ Connects(s[1], c)
        /\ \A k \in 2 .. Len(s) : ~OfNode(s[k])
    BY DEF Visits
  <1>3. DOMAIN s = 1 .. Len(s)
    BY <1>2, LenProperties DEF IsSeq
  <1>. DEFINE t == On(c, s)
  <1>4. IsSeq(t) /\ Len(t) = Len(s)
    BY <1>2, Elementwise DEF On
  <1>5. ASSUME NEW k \in 1 .. Len(s)
        PROVE  /\ Typed(t[k]) /\ Alike(t[k], s[k]) /\ t[k].rest = s[k].rest /\ t[k].cobo = c
               /\ Follows(s, k, devs, AnyDevice)
    <2>1. PICK a, b : a = s[k] /\ b = t[k]
      OBVIOUS
    <2>2. Follows(s, k, devs, AnyDevice)
      BY <1>1 DEF Flows
    <2>3. Typed(a) /\ b = [a EXCEPT !.cobo = c]
      BY <1>3, <2>1, <2>2 DEF On, Follows
    <2>4. Typed(b) /\ Alike(b, a) /\ b.rest = a.rest
      BY <2>3, Relabelled
    <2>5. b.cobo = c
      BY <2>3 DEF Typed
    <2>. QED
      BY <2>1, <2>2, <2>4, <2>5
  <1>. HIDE DEF t
  <1>6. ASSUME NEW k \in 1 .. Len(t) PROVE Follows(t, k, devs, AnyDevice)
    <2>1. /\ Typed(t[k]) /\ Alike(t[k], s[k]) /\ t[k].rest = s[k].rest
          /\ Follows(s, k, devs, AnyDevice)
      BY <1>4, <1>5
    <2>2. \A n, d, e : Move(t[k], n, d, e) => Move(s[k], n, d, e)
      BY <2>1 DEF Move, Alike
    <2>. QED
      BY <1>4, <2>1, <2>2 DEF Follows, OfRegister, Raises, Alike
  <1>7. Flows(t, devs, AnyDevice)
    BY <1>1, <1>4, <1>6 DEF Flows
  <1>8. Guides(t, devs)
    BY <1>1, <1>4, <1>5, <1>7 DEF Guides
  <1>9. OfNode(t[1])
    <2>1. 1 \in 1 .. Len(s)
      BY <1>2
    <2>. QED
      BY <1>2, <1>5, <2>1 DEF OfNode, Connects, Alike
  <1>10. ASSUME NEW k \in 1 .. Len(t) PROVE Placed(t[k])
    <2>1. Alike(t[k], s[k]) /\ t[k].rest = s[k].rest /\ t[k].cobo = c
      BY <1>4, <1>5
    <2>2. CASE k = 1
      BY <1>2, <2>1, <2>2 DEF Placed, Connects, Alike, OfNode
    <2>3. CASE k # 1
      <3>1. ~OfNode(s[k])
        BY <1>2, <1>4, <2>3
      <3>. QED
        BY <2>1, <3>1 DEF Placed, Alike, OfNode
    <2>. QED
      BY <2>2, <2>3
  <1>11. Guided(t)
    BY <1>2, <1>4, <1>8, <1>9, <1>10 DEF Guided
  <1>. QED
    BY <1>11 DEF t

\* Removal of all nodes (EccClient.cpp:129).
LEMMA RemovalGuided == Guided(RemoveAllNodes)
  <1>. DEFINE s == RemoveAllNodes
              a == s[1]
              devs == [k \in 1 .. 2 |-> AnyDevice]
  <1>1. /\ Len(s) = 1 /\ IsSeq(s) /\ a.op = "removeAll" /\ a.dev = "server" /\ a.rest = Raise
        /\ a.cobo = NoCoBo /\ Typed(a)
    BY DEF RemoveAllNodes, Access, IsSeq, Typed, Suits
  <1>. HIDE DEF s
  <1>2. devs \in [1 .. 2 -> SUBSET AnyDevice] /\ devs[1] = AnyDevice /\ devs[2] = AnyDevice
    OBVIOUS
  <1>. HIDE DEF devs
  <1>3. \A n, d, e : Move(a, n, d, e) => n = 1 /\ e = "none"
    BY <1>1 DEF Move
  <1>4. "none" \in AnyDevice
    BY DEF AnyDevice
  <1>5. Follows(s, 1, devs, AnyDevice)
    BY <1>1, <1>2, <1>3, <1>4 DEF Follows, OfRegister
  <1>6. Flows(s, devs, AnyDevice)
    BY <1>1, <1>2, <1>5 DEF Flows
  <1>7. \A k \in 1 .. 1 : k = 1 /\ 1 + 1 \notin 1 .. 1
    OBVIOUS
  <1>8. Guides(s, devs)
    BY <1>1, <1>2, <1>3, <1>6, <1>7 DEF Guides
  <1>9. Placed(a)
    BY <1>1 DEF Placed, OfNode
  <1>. QED
    BY <1>1, <1>7, <1>8, <1>9 DEF Guided, OfNode, s

\* A program visits the nodes of its targets.
LEMMA TargetsGuided ==
    ASSUME NEW targets \in Seq(CoBos)
    PROVE  /\ Guided(EachTarget(targets, LoadHw)) /\ Guided(EachTarget(targets, Configure))
           /\ \A pulser : Guided(DaqStartProgram(targets, pulser))
           /\ Guided(DaqStopProgram(targets))
           /\ \A start, pulser : Guided(DaqControlProgram(targets, start, pulser))
  <1>1. /\ DOMAIN targets = 1 .. Len(targets) /\ Len(targets) \in Nat
        /\ \A n \in 1 .. Len(targets) : targets[n] \in CoBos
    BY LenProperties
  <1>2. Guided(EachTarget(targets, LoadHw))
    <2>. DEFINE seqs == [n \in DOMAIN targets |-> LoadHw(targets[n])]
    <2>1. \A c \in CoBos : Guided(LoadHw(c))
      BY LoadHwVisits, VisitGuided
    <2>2. /\ \A n \in 1 .. Len(targets) : Guided(seqs[n])
          /\ DOMAIN seqs = 1 .. Len(targets) /\ seqs = [n \in 1 .. Len(targets) |-> seqs[n]]
      BY <1>1, <2>1
    <2>. HIDE DEF seqs
    <2>3. Guided(FlattenSeq(seqs))
      BY <1>1, <2>2, AllGuided
    <2>. QED
      BY <2>3 DEF EachTarget, seqs
  <1>3. Guided(EachTarget(targets, Configure))
    <2>. DEFINE seqs == [n \in DOMAIN targets |-> Configure(targets[n])]
    <2>1. \A c \in CoBos : Guided(Configure(c))
      BY ConfigureVisits, VisitGuided
    <2>2. /\ \A n \in 1 .. Len(targets) : Guided(seqs[n])
          /\ DOMAIN seqs = 1 .. Len(targets) /\ seqs = [n \in 1 .. Len(targets) |-> seqs[n]]
      BY <1>1, <2>1
    <2>. HIDE DEF seqs
    <2>3. Guided(FlattenSeq(seqs))
      BY <1>1, <2>2, AllGuided
    <2>. QED
      BY <2>3 DEF EachTarget, seqs
  <1>4. ASSUME NEW pulser PROVE Guided(DaqStartProgram(targets, pulser))
    <2>. DEFINE s(c) == ConnectNode(c) \o DaqStart(FreshClient) \o When(pulser, StartPulser)
                seqs == [n \in DOMAIN targets |-> On(targets[n], s(targets[n]))]
    <2>1. ASSUME NEW c \in CoBos PROVE Guided(On(c, s(c)))
      <3>1. Free(When(pulser, StartPulser)) /\ Free(DaqStart(FreshClient))
        BY DaqRoutines, MasksOfClient, Blocks
      <3>2. Visits(s(c), c, AnyDevice)
        BY <3>1, ConnectionVisits, VisitParts
      <3>. HIDE DEF s
      <3>. QED
        BY <3>2, VisitGuided
    <2>2. /\ \A n \in 1 .. Len(targets) : Guided(seqs[n])
          /\ DOMAIN seqs = 1 .. Len(targets) /\ seqs = [n \in 1 .. Len(targets) |-> seqs[n]]
      <3>. HIDE DEF s
      <3>. QED
        BY <1>1, <2>1
    <2>. HIDE DEF seqs
    <2>3. Guided(FlattenSeq(seqs))
      BY <1>1, <2>2, AllGuided
    <2>. QED
      BY <2>3 DEF DaqStartProgram, EachTarget, seqs
  <1>5. Guided(DaqStopProgram(targets))
    <2>. DEFINE s(c) == ConnectNode(c) \o StopPulser \o DaqStop
                seqs == [n \in DOMAIN targets |-> On(targets[n], s(targets[n]))]
    <2>1. ASSUME NEW c \in CoBos PROVE Guided(On(c, s(c)))
      <3>1. Visits(s(c), c, AnyDevice)
        BY DaqRoutines, ConnectionVisits, VisitParts
      <3>. HIDE DEF s
      <3>. QED
        BY <3>1, VisitGuided
    <2>2. /\ \A n \in 1 .. Len(targets) : Guided(seqs[n])
          /\ DOMAIN seqs = 1 .. Len(targets) /\ seqs = [n \in 1 .. Len(targets) |-> seqs[n]]
      <3>. HIDE DEF s
      <3>. QED
        BY <1>1, <2>1
    <2>. HIDE DEF seqs
    <2>3. Guided(FlattenSeq(seqs))
      BY <1>1, <2>2, AllGuided
    <2>. QED
      BY <2>3 DEF DaqStopProgram, EachTarget, seqs
  <1>6. ASSUME NEW start, NEW pulser PROVE Guided(DaqControlProgram(targets, start, pulser))
    <2>. DEFINE s(c) == ConnectNode(c)
                        \o (IF pulser /\ start THEN StartPulser ELSE StopPulser)
                        \o (IF start THEN DaqStart(FreshClient) ELSE DaqStop)
                seqs == [n \in DOMAIN targets |-> On(targets[n], s(targets[n]))]
    <2>1. ASSUME NEW c \in CoBos PROVE Guided(On(c, s(c)))
      <3>1. /\ Free(IF pulser /\ start THEN StartPulser ELSE StopPulser)
            /\ Free(IF start THEN DaqStart(FreshClient) ELSE DaqStop)
        BY DaqRoutines, MasksOfClient
      <3>2. Visits(s(c), c, AnyDevice)
        BY <3>1, ConnectionVisits, VisitParts
      <3>. HIDE DEF s
      <3>. QED
        BY <3>2, VisitGuided
    <2>2. /\ \A n \in 1 .. Len(targets) : Guided(seqs[n])
          /\ DOMAIN seqs = 1 .. Len(targets) /\ seqs = [n \in 1 .. Len(targets) |-> seqs[n]]
      <3>. HIDE DEF s
      <3>. QED
        BY <1>1, <2>1
    <2>. HIDE DEF seqs
    <2>3. Guided(FlattenSeq(seqs))
      BY <1>1, <2>2, AllGuided
    <2>. QED
      BY <2>3 DEF DaqControlProgram, EachTarget, seqs
  <1>. QED
    BY <1>2, <1>3, <1>4, <1>5, <1>6

\* Every program.
LEMMA ScriptsGuided == \A p \in Programs : Guided(Script[p])
  <1>. SUFFICES ASSUME NEW p \in Programs PROVE Guided(Script[p])
    OBVIOUS
  <1>. DEFINE launch == Launches[p]
  <1>1. /\ launch.targets \in Seq(CoBos)
        /\ launch.program \in {"configure", "daqstart", "daqstop", "start", "stop"}
    BY LaunchesAssumption
  <1>2. Script[p] = ScriptOf(launch)
    BY DEF Script
  <1>. HIDE DEF launch
  <1>3. Guided(ConfigureProgram(launch.targets))
    BY <1>1, TargetsGuided, RemovalGuided, BothGuided DEF ConfigureProgram
  <1>. QED
    BY <1>1, <1>2, <1>3, TargetsGuided DEF ScriptOf

-------------------------------------------------------------------------------
(* The state of the server                                                     *)

\* A CoBo, with the types that the steps rely on.
IsCoBo(h) ==
    /\ h = [described |-> h.described, router |-> h.router, ready |-> h.ready,
            running |-> h.running, pulsing |-> h.pulsing, asadMask |-> h.asadMask,
            enabled |-> h.enabled, pulse |-> h.pulse, hitRegister |-> h.hitRegister,
            fast |-> h.fast, power |-> h.power, asad |-> h.asad, chip |-> h.chip,
            mask |-> h.mask, buffer |-> h.buffer, set |-> h.set, quiet |-> h.quiet]
    /\ h.asadMask \subseteq AsAds /\ h.power \subseteq AsAds
    /\ h.enabled \subseteq Chips /\ h.pulse \subseteq Chips /\ h.fast \subseteq Chips
    /\ h.asad \in AsAds /\ h.chip \in Chips /\ h.mask \in Chips

\* g is h but for the fields that say nothing of the data acquisition.
Runs(g, h) == IsCoBo(g) /\ g.running = h.running /\ g.pulsing = h.pulsing

\* A field changes.
LEMMA FieldSet ==
    ASSUME NEW h, IsCoBo(h), NEW v
    PROVE  /\ Runs([h EXCEPT !.described = v], h) /\ Runs([h EXCEPT !.router = v], h)
           /\ Runs([h EXCEPT !.hitRegister = v], h) /\ Runs([h EXCEPT !.buffer = v], h)
           /\ Runs([h EXCEPT !.set = v], h) /\ Runs([h EXCEPT !.quiet = v], h)
           /\ Runs([h EXCEPT !.ready = v], h)
           /\ IsCoBo([h EXCEPT !.running = v]) /\ [h EXCEPT !.running = v].running = v
           /\ [h EXCEPT !.running = v].pulsing = h.pulsing
           /\ IsCoBo([h EXCEPT !.pulsing = v]) /\ [h EXCEPT !.pulsing = v].pulsing = v
           /\ [h EXCEPT !.pulsing = v].running = h.running
           /\ v \in SUBSET AsAds => /\ Runs([h EXCEPT !.asadMask = v], h)
                                    /\ Runs([h EXCEPT !.power = v], h)
           /\ v \in SUBSET Chips => /\ Runs([h EXCEPT !.enabled = v], h)
                                    /\ Runs([h EXCEPT !.pulse = v], h)
                                    /\ Runs([h EXCEPT !.fast = v], h)
           /\ v \in AsAds => Runs([h EXCEPT !.asad = v], h)
           /\ v \in Chips => Runs([h EXCEPT !.chip = v], h) /\ Runs([h EXCEPT !.mask = v], h)
  <1>1. /\ Runs([h EXCEPT !.described = v], h) /\ Runs([h EXCEPT !.router = v], h)
        /\ Runs([h EXCEPT !.hitRegister = v], h)
    BY DEF IsCoBo, Runs
  <1>2. /\ Runs([h EXCEPT !.buffer = v], h) /\ Runs([h EXCEPT !.set = v], h)
    BY DEF IsCoBo, Runs
  <1>3. Runs([h EXCEPT !.quiet = v], h) /\ Runs([h EXCEPT !.ready = v], h)
    BY DEF IsCoBo, Runs
  <1>4. /\ IsCoBo([h EXCEPT !.running = v]) /\ [h EXCEPT !.running = v].running = v
        /\ [h EXCEPT !.running = v].pulsing = h.pulsing
    BY DEF IsCoBo
  <1>5. /\ IsCoBo([h EXCEPT !.pulsing = v]) /\ [h EXCEPT !.pulsing = v].pulsing = v
        /\ [h EXCEPT !.pulsing = v].running = h.running
    BY DEF IsCoBo
  <1>6. ASSUME v \in SUBSET AsAds PROVE Runs([h EXCEPT !.asadMask = v], h) /\ Runs([h EXCEPT !.power = v], h)
    BY <1>6 DEF IsCoBo, Runs
  <1>7. ASSUME v \in SUBSET Chips
        PROVE  /\ Runs([h EXCEPT !.enabled = v], h) /\ Runs([h EXCEPT !.pulse = v], h)
               /\ Runs([h EXCEPT !.fast = v], h)
    BY <1>7 DEF IsCoBo, Runs
  <1>8. ASSUME v \in AsAds PROVE Runs([h EXCEPT !.asad = v], h)
    BY <1>8 DEF IsCoBo, Runs
  <1>9. ASSUME v \in Chips PROVE Runs([h EXCEPT !.chip = v], h) /\ Runs([h EXCEPT !.mask = v], h)
    BY <1>9 DEF IsCoBo, Runs
  <1>. QED
    BY <1>1, <1>2, <1>3, <1>4, <1>5, <1>6, <1>7, <1>8, <1>9

\* The calls that do not concern the data acquisition.
Plain(a) == a.op \notin {"throw", "jump", "node", "removeAll", "device", "check",
                         "daqStart", "daqStop", "startPulser", "stopPulser"}

\* A chip is switched between its modes (EccClient.cpp:1941).
LEMMA PulsedKeeps ==
    ASSUME NEW h, IsCoBo(h) PROVE Runs(Pulsed(h), h)
  <1>. DEFINE v == IF h.hitRegister THEN h.fast \cup h.pulse ELSE h.fast \ h.pulse
  <1>1. Pulsed(h) = [h EXCEPT !.fast = v]
    BY DEF Pulsed
  <1>2. v \in SUBSET Chips
    BY DEF IsCoBo
  <1>. HIDE DEF v
  <1>. QED
    BY <1>1, <1>2 DEF IsCoBo, Runs

\* What a write changes.
LEMMA WrittenKeeps ==
    ASSUME NEW h, IsCoBo(h), NEW a PROVE Runs(Written(h, a), h)
  <1>. DEFINE settings == {a.dev} \X a.arg.groups \X Units(h, a)
              v == IF a.arg.good THEN h.set \cup settings ELSE h.set \ settings
  <1>1. Written(h, a) = [h EXCEPT !.set = v]
    BY DEF Written
  <1>. HIDE DEF v
  <1>. QED
    BY <1>1 DEF IsCoBo, Runs

\* What the power of a board changes.
LEMMA PoweredOffKeeps ==
    ASSUME NEW h, IsCoBo(h), NEW i PROVE Runs(PoweredOff(h, i), h)
  <1>. DEFINE p == h.power \ {i}
              f == h.fast \ ChipsOf(i)
              s == {x \in h.set : ~ \/ x[1] = "asad" /\ x[3] = i
                                    \/ x[1] = "aget" /\ x[3] \in ChipsOf(i)}
  <1>1. PoweredOff(h, i) = [h EXCEPT !.power = p, !.fast = f, !.set = s]
    BY DEF PoweredOff
  <1>2. p \subseteq AsAds /\ f \subseteq Chips
    BY DEF IsCoBo
  <1>. HIDE DEF p, f, s
  <1>. QED
    BY <1>1, <1>2 DEF IsCoBo, Runs

\* A call keeps the types of the CoBo it reaches, and only those of the data
\* acquisition start and stop it.
LEMMA AfterKeeps ==
    ASSUME NEW h, IsCoBo(h), NEW a, Typed(a)
    PROVE  /\ Plain(a) => Runs(After(h, a), h)
           /\ a.op \in {"daqStart", "daqStop", "startPulser", "stopPulser"} => IsCoBo(After(h, a))
           /\ a.op = "daqStop" => ~After(h, a).running /\ After(h, a).pulsing = h.pulsing
           /\ a.op = "stopPulser" => ~After(h, a).pulsing /\ After(h, a).running = h.running
  <1>1. Suits(a.op, a.arg)
    BY DEF Typed
  <1>2. CASE a.op \in {"describe", "router", "hitRegister"}
    BY <1>2, FieldSet DEF After, Plain
  <1>3. CASE a.op = "initDone"
    <2>1. PICK v : v = (h.quiet /\ a.arg)
      OBVIOUS
    <2>2. After(h, a) = [h EXCEPT !.ready = a.arg, !.quiet = v]
      BY <1>3, <2>1 DEF After
    <2>. QED
      BY <1>3, <2>2 DEF IsCoBo, Runs
  <1>4. CASE a.op \in {"daqStart", "daqStop"}
    BY <1>4, FieldSet DEF After, Plain
  <1>5. CASE a.op \in {"startPulser", "stopPulser"}
    BY <1>5, FieldSet DEF After, Plain
  <1>6. CASE a.op = "select"
    BY <1>1, <1>6, FieldSet DEF After, Suits
  <1>7. CASE a.op \in {"enable", "pulse"}
    BY <1>1, <1>7, FieldSet DEF After, Suits
  <1>8. CASE a.op \in {"asad", "chip", "mask"}
    BY <1>1, <1>8, FieldSet DEF After, Suits
  <1>9. CASE a.op = "fire"
    BY <1>9, PulsedKeeps DEF After
  <1>10. CASE a.op = "powerOn"
    <2>1. h.power \cup {a.arg} \in SUBSET AsAds
      BY <1>1, <1>10 DEF Suits, IsCoBo
    <2>2. After(h, a) = [h EXCEPT !.power = h.power \cup {a.arg}]
      BY <1>10 DEF After
    <2>. QED
      <3>1. PICK v \in SUBSET AsAds : v = h.power \cup {a.arg}
        BY <2>1
      <3>2. Runs([h EXCEPT !.power = v], h)
        BY FieldSet
      <3>. QED
        BY <1>10, <2>2, <3>1, <3>2
  <1>11. CASE a.op = "powerOff"
    BY <1>11, PoweredOffKeeps DEF After
  <1>12. CASE a.op = "buffer"
    <2>1. PICK v : v = [h.buffer EXCEPT ![a.arg.asad] = <<a.arg.start, a.arg.end>>]
      OBVIOUS
    <2>2. After(h, a) = [h EXCEPT !.buffer = v]
      BY <1>12, <2>1 DEF After
    <2>. QED
      <3>1. Runs([h EXCEPT !.buffer = v], h)
        BY FieldSet
      <3>. QED
        BY <1>12, <2>2, <3>1
  <1>13. Runs(Touched(h, a), h)
    BY PulsedKeeps DEF Touched, Runs
  <1>14. CASE a.op \in {"write", "field"}
    <2>1. PICK g : g = Touched(h, a)
      OBVIOUS
    <2>2. Runs(Written(g, a), g)
      BY <1>13, <2>1, WrittenKeeps DEF Runs
    <2>3. After(h, a) = Written(g, a)
      BY <1>14, <2>1 DEF After
    <2>. QED
      BY <1>13, <1>14, <2>1, <2>2, <2>3 DEF Runs
  <1>15. CASE a.op = "read"
    BY <1>13, <1>15 DEF After
  <1>16. \/ ~Plain(a) /\ a.op \notin {"daqStart", "daqStop", "startPulser", "stopPulser"}
         \/ a.op \in {"describe", "router", "hitRegister", "initDone", "daqStart", "daqStop",
                      "startPulser", "stopPulser", "select", "enable", "pulse", "asad", "chip",
                      "mask", "fire", "powerOn", "powerOff", "buffer", "write", "field", "read"}
    BY <1>1 DEF Suits, Plain
  <1>17. CASE ~Plain(a) /\ a.op \notin {"daqStart", "daqStop", "startPulser", "stopPulser"}
    BY <1>17
  <1>. QED
    BY <1>2, <1>3, <1>4, <1>5, <1>6, <1>7, <1>8, <1>9, <1>10, <1>11, <1>12, <1>14, <1>15, <1>16, <1>17

-------------------------------------------------------------------------------
(* The inductive invariants of a session                                       *)

\* The devices that may be the current one at each access of a program.
Course(p) == CHOOSE devs : Guides(Script[p], devs)

HwInv == hw = [c \in CoBos |-> hw[c]] /\ \A c \in CoBos : IsCoBo(hw[c])
CountInv ==
    /\ pc \in [Programs -> Nat] /\ faults \in 0 .. MaxFaults /\ launches \in 0 .. MaxLaunch
    /\ node \in CoBos \cup {NoCoBo} /\ device \in AnyDevice
\* A program is at an access that it can come to, or behind the last one.
PlaceInv ==
    \A p \in Programs : Running(p) =>
        pc[p] \in 1 .. (Len(Script[p]) + 1) /\ Course(p)[pc[p]] # {}
TypesInv == HwInv /\ CountInv /\ PlaceInv

\* One program runs at a time.
AloneInv == \A p, q \in Programs : Running(p) /\ Running(q) => p = q
\* A program is on its course, at the node that its next access is meant for.
CourseInv ==
    \A p \in Programs : Running(p) =>
        /\ device \in Course(p)[pc[p]]
        /\ pc[p] \in 1 .. Len(Script[p]) /\ ~OfNode(Current(p)) => Current(p).cobo = node
SessionInv == TypesInv /\ AloneInv /\ CourseInv

\* What is known of a program.
LEMMA Courses ==
    ASSUME NEW p \in Programs
    PROVE  /\ Guides(Script[p], Course(p))
           /\ DOMAIN Script[p] = 1 .. Len(Script[p]) /\ Len(Script[p]) \in Nat
           /\ Len(Script[p]) >= 1 => OfNode(Script[p][1])
           /\ \A k \in 1 .. Len(Script[p]) : Placed(Script[p][k]) /\ Typed(Script[p][k])
  <1>1. Guided(Script[p])
    BY ScriptsGuided
  <1>2. Guides(Script[p], Course(p))
    BY <1>1 DEF Guided, Course
  <1>3. DOMAIN Script[p] = 1 .. Len(Script[p])
    BY <1>1, LenProperties DEF Guided, IsSeq
  <1>. QED
    BY <1>1, <1>2, <1>3 DEF Guided, Guides, Flows, Follows

\* A program goes on n accesses later, at the node it is at or the one it
\* connects to.
GoesOn(p, n) ==
    /\ InScript(p) /\ Move(Current(p), n, device, device') /\ pc' = [pc EXCEPT ![p] = @ + n]
    /\ \/ Current(p).op = "node" /\ node' = Current(p).arg
       \/ Current(p).op = "removeAll" /\ node' = NoCoBo
       \/ ~OfNode(Current(p)) /\ node' = node
LeavesOff(p) == Running(p) /\ pc' = [pc EXCEPT ![p] = 0] /\ UNCHANGED <<node, device>>
Begins(p) == Launch(p) /\ UNCHANGED <<node, device>> /\ pc' = [pc EXCEPT ![p] = 1]

\* No CoBo is known and no program runs.
LEMMA SessionStarts == Init => SessionInv
  <1>. SUFFICES ASSUME Init PROVE SessionInv
    OBVIOUS
  <1>1. IsCoBo(Unset)
    BY DEF IsCoBo, Unset, AsAds, Chips
  <1>2. HwInv
    BY <1>1 DEF Init, HwInv
  <1>3. CountInv /\ PlaceInv /\ AloneInv /\ CourseInv
    BY BoundsAssumption DEF Init, CountInv, PlaceInv, AloneInv, CourseInv, Running, AnyDevice, None
  <1>. QED
    BY <1>2, <1>3 DEF SessionInv, TypesInv

\* The CoBo at the current node changes.
LEMMA CoBoChanges ==
    ASSUME HwInv, node \in CoBos \cup {NoCoBo}, NEW g, hw' = [hw EXCEPT ![node] = g],
           node \in CoBos => IsCoBo(g)
    PROVE  HwInv'
  <1>1. hw' = [c \in CoBos |-> hw'[c]] /\ \A c \in CoBos : hw'[c] = IF c = node THEN g ELSE hw[c]
    BY DEF HwInv
  <1>. QED
    BY <1>1 DEF HwInv

\* What a step does to the CoBos, to the two bounded counters and to a program.
LEMMA Steps ==
    ASSUME TypesInv, Next
    PROVE  /\ HwInv' /\ faults' \in 0 .. MaxFaults /\ launches' \in 0 .. MaxLaunch
           /\ \E p \in Programs : Begins(p) \/ LeavesOff(p) \/ \E n : GoesOn(p, n)
  <1>. DEFINE Bounded == faults' \in 0 .. MaxFaults /\ launches' \in 0 .. MaxLaunch
              Way(p) == Begins(p) \/ LeavesOff(p) \/ \E n : GoesOn(p, n)
  <1>. USE DEF TypesInv
  <1>1. UNCHANGED hw => HwInv'
    BY DEF HwInv
  <1>2. UNCHANGED <<faults, launches>> => Bounded
    BY DEF CountInv
  <1>3. ASSUME NEW p \in Programs, Launch(p) PROVE HwInv' /\ Bounded /\ Way(p)
    <2>1. /\ pc' = [pc EXCEPT ![p] = 1] /\ UNCHANGED <<node, device, hw, faults>>
          /\ launches' = launches + 1 /\ launches < MaxLaunch
      BY <1>3 DEF Launch
    <2>2. Bounded
      BY <2>1, BoundsAssumption DEF CountInv
    <2>. QED
      BY <1>1, <1>3, <2>1, <2>2 DEF Begins
  <1>4. ASSUME NEW p \in Programs, Exit(p) PROVE HwInv' /\ Bounded /\ Way(p)
    BY <1>1, <1>2, <1>4 DEF Exit, AtEnd, LeavesOff
  <1>5. ASSUME NEW p \in Programs, RemoveNodes(p) PROVE HwInv' /\ Bounded /\ Way(p)
    <2>1. /\ InScript(p) /\ Current(p).op = "removeAll" /\ node' = NoCoBo /\ device' = "none"
          /\ hw' = [c \in CoBos |-> [hw[c] EXCEPT !.described = FALSE, !.router = FALSE]]
          /\ pc' = [pc EXCEPT ![p] = @ + 1] /\ UNCHANGED <<faults, launches>>
      BY <1>5 DEF RemoveNodes, GoOn, None
    <2>2. GoesOn(p, 1)
      BY <2>1 DEF GoesOn, Move
    <2>3. ASSUME NEW c \in CoBos PROVE IsCoBo([hw[c] EXCEPT !.described = FALSE, !.router = FALSE])
      <3>1. PICK h : h = hw[c]
        OBVIOUS
      <3>2. IsCoBo(h)
        BY <3>1 DEF HwInv
      <3>3. PICK g : g = [h EXCEPT !.described = FALSE]
        OBVIOUS
      <3>4. IsCoBo(g)
        BY <3>2, <3>3, FieldSet DEF Runs
      <3>5. [h EXCEPT !.described = FALSE, !.router = FALSE] = [g EXCEPT !.router = FALSE]
        BY <3>3
      <3>6. IsCoBo([g EXCEPT !.router = FALSE])
        BY <3>4, FieldSet DEF Runs
      <3>. QED
        BY <3>1, <3>5, <3>6
    <2>4. HwInv'
      BY <2>1, <2>3 DEF HwInv
    <2>. QED
      BY <1>2, <2>1, <2>2, <2>4
  <1>6. ASSUME NEW p \in Programs, Connect(p) PROVE HwInv' /\ Bounded /\ Way(p)
    <2>1. GoesOn(p, 1) /\ UNCHANGED <<hw, faults, launches>>
      BY <1>6 DEF Connect, GoOn, None, GoesOn, Move
    <2>. QED
      BY <1>1, <1>2, <2>1
  <1>7. ASSUME NEW p \in Programs, ConnectDevice(p) PROVE HwInv' /\ Bounded /\ Way(p)
    <2>1. GoesOn(p, 1) /\ UNCHANGED <<hw, faults, launches>>
      BY <1>7 DEF ConnectDevice, GoOn, GoesOn, Move, OfNode
    <2>. QED
      BY <1>1, <1>2, <2>1
  <1>8. ASSUME NEW p \in Programs, Call(p) PROVE HwInv' /\ Bounded /\ Way(p)
    <2>. DEFINE a == Current(p)
    <2>1. /\ InScript(p) /\ a.op \notin {"removeAll", "node", "device", "jump", "check", "throw"}
          /\ hw' = [hw EXCEPT ![node] = After(hw[node], a)]
          /\ pc' = [pc EXCEPT ![p] = @ + 1] /\ UNCHANGED <<node, device, faults, launches>>
      BY <1>8 DEF Call, GoOn, CanAccess
    <2>2. Typed(a)
      BY <2>1, Courses DEF Current, InScript
    <2>. HIDE DEF a
    <2>3. Move(a, 1, device, device') /\ ~OfNode(a)
      BY <2>1 DEF Move, OfNode
    <2>4. Plain(a) \/ a.op \in {"daqStart", "daqStop", "startPulser", "stopPulser"}
      BY <2>1 DEF Plain
    <2>5. ASSUME node \in CoBos PROVE IsCoBo(After(hw[node], a))
      BY <2>2, <2>4, <2>5, AfterKeeps DEF HwInv, Runs
    <2>6. HwInv'
      BY <2>1, <2>5, CoBoChanges DEF CountInv
    <2>7. GoesOn(p, 1)
      BY <2>1, <2>3 DEF GoesOn, a
    <2>. QED
      BY <1>2, <2>1, <2>6, <2>7
  <1>9. ASSUME NEW p \in Programs, Check(p) PROVE HwInv' /\ Bounded /\ Way(p)
    <2>1. /\ InScript(p) /\ Current(p).op = "check" /\ hw' = [hw EXCEPT ![node] = Pulsed(hw[node])]
          /\ UNCHANGED <<node, device, faults, launches>>
          /\ \/ pc' = [pc EXCEPT ![p] = @ + 1]
             \/ Current(p).arg.wrong = Raise /\ pc' = [pc EXCEPT ![p] = 0]
             \/ Current(p).arg.wrong # Raise /\ pc' = [pc EXCEPT ![p] = @ + Current(p).arg.wrong]
      BY <1>9 DEF Check
    <2>2. ASSUME node \in CoBos PROVE IsCoBo(Pulsed(hw[node]))
      BY <2>2, PulsedKeeps DEF HwInv, Runs
    <2>3. HwInv'
      BY <2>1, <2>2, CoBoChanges DEF CountInv
    <2>4. LeavesOff(p) \/ GoesOn(p, 1) \/ GoesOn(p, Current(p).arg.wrong)
      BY <2>1 DEF LeavesOff, GoesOn, Move, OfNode, InScript
    <2>. QED
      BY <1>2, <2>1, <2>3, <2>4
  <1>10. ASSUME NEW p \in Programs, LeaveBlock(p) PROVE HwInv' /\ Bounded /\ Way(p)
    <2>1. GoesOn(p, 1 + Current(p).arg) /\ UNCHANGED <<hw, faults, launches>>
      BY <1>10 DEF LeaveBlock, GoesOn, Move, OfNode
    <2>. QED
      BY <1>1, <1>2, <2>1
  <1>11. ASSUME NEW p \in Programs, CallFails(p) PROVE HwInv' /\ Bounded /\ Way(p)
    <2>1. /\ InScript(p) /\ Current(p).op # "jump" /\ UNCHANGED <<node, device, launches>>
          /\ Bounded
      BY <1>11, BoundsAssumption DEF CallFails, CountInv
    <2>2. CASE Current(p).rest = Raise
      BY <1>1, <1>11, <2>1, <2>2 DEF CallFails, LeavesOff, InScript
    <2>3. CASE Current(p).rest # Raise
      <3>1. /\ pc' = [pc EXCEPT ![p] = @ + Current(p).rest]
            /\ \/ hw' = hw
               \/ hw' = [hw EXCEPT ![node].quiet = TRUE]
        BY <1>11, <2>3 DEF CallFails
      <3>2. Placed(Current(p))
        BY <2>1, Courses DEF Current, InScript
      <3>3. GoesOn(p, Current(p).rest)
        BY <2>1, <2>3, <3>1, <3>2 DEF GoesOn, Move, Placed
      <3>4. CASE hw' = [hw EXCEPT ![node].quiet = TRUE]
        <4>1. PICK g : g = [hw[node] EXCEPT !.quiet = TRUE]
          OBVIOUS
        <4>2. hw' = [hw EXCEPT ![node] = g]
          BY <3>4, <4>1
        <4>3. node \in CoBos => IsCoBo(g)
          BY <4>1, FieldSet DEF HwInv, Runs
        <4>. QED
          BY <2>1, <3>3, <4>2, <4>3, CoBoChanges DEF CountInv
      <3>. QED
        BY <1>1, <2>1, <3>1, <3>3, <3>4
    <2>. QED
      BY <2>2, <2>3
  <1>. HIDE DEF Bounded, Way
  <1>12. \E p \in Programs : HwInv' /\ Bounded /\ Way(p)
    BY <1>3, <1>4, <1>5, <1>6, <1>7, <1>8, <1>9, <1>10, <1>11 DEF Next
  <1>. QED
    BY <1>12 DEF Bounded, Way

\* Where an access leads does not depend on the device that is the current one.
LEMMA Leading ==
    ASSUME NEW a, NEW n, NEW d, NEW e, NEW f, Move(a, n, d, e) PROVE \E g : Move(a, n, f, g)
  <1>. QED
    BY DEF Move

\* The types are kept, even if programs overlap.
LEMMA TypesGoOn == TypesInv /\ [Next]_vars => TypesInv'
  <1>. SUFFICES ASSUME TypesInv, [Next]_vars PROVE TypesInv'
    OBVIOUS
  <1>1. CASE UNCHANGED vars
    BY <1>1 DEF vars, TypesInv, HwInv, CountInv, PlaceInv, Running
  <1>2. CASE Next
    <2>1. /\ HwInv' /\ faults' \in 0 .. MaxFaults /\ launches' \in 0 .. MaxLaunch
          /\ \E p \in Programs : Begins(p) \/ LeavesOff(p) \/ \E n : GoesOn(p, n)
      BY <1>2, Steps
    <2>2. /\ pc \in [Programs -> Nat] /\ node \in CoBos \cup {NoCoBo} /\ device \in AnyDevice
      BY DEF TypesInv, CountInv
    <2>. DEFINE Goes(p) ==
                    /\ pc' \in [Programs -> Nat] /\ node' \in CoBos \cup {NoCoBo}
                    /\ device' \in AnyDevice
                    /\ \A q \in Programs : q # p => pc'[q] = pc[q]
                    /\ pc'[p] # 0 => /\ pc'[p] \in 1 .. (Len(Script[p]) + 1)
                                     /\ Course(p)[pc'[p]] # {}
    <2>3. ASSUME NEW p \in Programs, Begins(p) PROVE Goes(p)
      <3>1. /\ Len(Script[p]) \in Nat /\ Course(p)[1] = AnyDevice
        BY Courses DEF Guides
      <3>2. 1 \in 1 .. (Len(Script[p]) + 1)
        BY <3>1
      <3>. QED
        BY <2>2, <2>3, <3>1, <3>2 DEF Begins, AnyDevice
    <2>4. ASSUME NEW p \in Programs, LeavesOff(p) PROVE Goes(p)
      BY <2>2, <2>4 DEF LeavesOff
    <2>5. ASSUME NEW p \in Programs, NEW n, GoesOn(p, n) PROVE Goes(p)
      <3>. DEFINE s == Script[p]
                  k == pc[p]
                  devs == Course(p)
      <3>1. /\ Guides(s, devs) /\ Len(s) \in Nat /\ k \in 1 .. Len(s) /\ Placed(s[k]) /\ Typed(s[k])
        BY <2>5, Courses DEF GoesOn, InScript
      <3>2. devs[k] # {}
        BY <2>5 DEF GoesOn, InScript, TypesInv, PlaceInv
      <3>3. Move(s[k], n, device, device') /\ pc' = [pc EXCEPT ![p] = k + n]
        BY <2>5 DEF GoesOn, Current
      <3>4. node' \in CoBos \cup {NoCoBo}
        BY <2>2, <2>5, <3>1 DEF GoesOn, Placed, Current, OfNode
      <3>5. Follows(s, k, devs, AnyDevice)
        BY <3>1 DEF Guides, Flows
      <3>. HIDE DEF s, k, devs
      <3>6. PICK d \in devs[k] : TRUE
        BY <3>2
      <3>7. PICK e : Move(s[k], n, d, e)
        BY <3>3, Leading
      <3>8. n \in 1 .. (Len(s) + 1 - k) /\ e \in devs[k + n]
        BY <3>5, <3>7 DEF Follows
      <3>9. k + n \in 1 .. (Len(s) + 1) /\ k + n \in Nat
        BY <3>1, <3>8
      <3>10. device' \in AnyDevice
        BY <2>2, <3>1, <3>3 DEF Move, Typed, Suits, AnyDevice
      <3>. QED
        BY <2>2, <3>3, <3>4, <3>8, <3>9, <3>10 DEF s, devs
    <2>6. \E p \in Programs : Goes(p)
      BY <2>1, <2>3, <2>4, <2>5
    <2>7. CountInv'
      BY <2>1, <2>6 DEF CountInv
    <2>8. PlaceInv'
      <3>1. PICK p \in Programs : Goes(p)
        BY <2>6
      <3>2. ASSUME NEW q \in Programs, pc'[q] # 0
            PROVE  pc'[q] \in 1 .. (Len(Script[q]) + 1) /\ Course(q)[pc'[q]] # {}
        <4>1. CASE q = p
          BY <3>1, <3>2, <4>1
        <4>2. CASE q # p
          BY <3>1, <3>2, <4>2 DEF TypesInv, PlaceInv, Running
        <4>. QED
          BY <4>1, <4>2
      <3>. QED
        BY <3>2 DEF PlaceInv, Running
    <2>. QED
      BY <2>1, <2>7, <2>8 DEF TypesInv
  <1>. QED
    BY <1>1, <1>2

\* A program that runs alone stays on its course.
LEMMA CourseGoesOn ==
    ASSUME Overlap = FALSE PROVE SessionInv /\ [Next]_vars => AloneInv' /\ CourseInv'
  <1>. SUFFICES ASSUME SessionInv, [Next]_vars PROVE AloneInv' /\ CourseInv'
    OBVIOUS
  <1>1. CASE UNCHANGED vars
    BY <1>1 DEF vars, SessionInv, AloneInv, CourseInv, Running, Current
  <1>2. CASE Next
    <2>1. PICK p \in Programs : Begins(p) \/ LeavesOff(p) \/ \E n : GoesOn(p, n)
      BY <1>2, Steps DEF SessionInv
    <2>2. pc \in [Programs -> Nat]
      BY DEF SessionInv, TypesInv, CountInv
    <2>3. ASSUME NEW q \in Programs, q # p PROVE pc'[q] = 0
      BY <2>1, <2>2, <2>3 DEF SessionInv, AloneInv, Begins, Launch, LeavesOff, GoesOn, InScript, Running
    <2>4. AloneInv'
      BY <2>3 DEF AloneInv, Running
    <2>5. ASSUME pc'[p] # 0
          PROVE  /\ device' \in Course(p)[pc'[p]]
                 /\ pc'[p] \in 1 .. Len(Script[p]) /\ ~OfNode(Script[p][pc'[p]])
                        => Script[p][pc'[p]].cobo = node'
      <3>1. CASE Begins(p)
        <4>1. /\ Len(Script[p]) \in Nat /\ Course(p)[1] = AnyDevice
              /\ (Len(Script[p]) >= 1 => OfNode(Script[p][1]))
          BY Courses DEF Guides
        <4>2. 1 \in 1 .. Len(Script[p]) => OfNode(Script[p][1])
          BY <4>1
        <4>3. pc'[p] = 1 /\ device' = device /\ device \in AnyDevice
          BY <2>2, <3>1 DEF Begins, SessionInv, TypesInv, CountInv
        <4>. QED
          BY <4>1, <4>2, <4>3
      <3>2. CASE LeavesOff(p)
        BY <2>2, <2>5, <3>2 DEF LeavesOff
      <3>3. ASSUME NEW n, GoesOn(p, n)
            PROVE  /\ device' \in Course(p)[pc'[p]]
                   /\ pc'[p] \in 1 .. Len(Script[p]) /\ ~OfNode(Script[p][pc'[p]])
                          => Script[p][pc'[p]].cobo = node'
        <4>. DEFINE s == Script[p]
                    k == pc[p]
                    devs == Course(p)
        <4>1. Guides(s, devs) /\ k \in 1 .. Len(s) /\ Placed(s[k])
          BY <3>3, Courses DEF GoesOn, InScript
        <4>2. /\ device \in devs[k] /\ (~OfNode(s[k]) => s[k].cobo = node)
              /\ Move(s[k], n, device, device')
              /\ \/ s[k].op = "node" /\ node' = s[k].arg
                 \/ s[k].op = "removeAll" /\ node' = NoCoBo
                 \/ ~OfNode(s[k]) /\ node' = node
          BY <3>3, <4>1 DEF SessionInv, CourseInv, GoesOn, InScript, Current
        <4>3. pc'[p] = k + n
          BY <2>2, <3>3 DEF GoesOn
        <4>4. Follows(s, k, devs, AnyDevice)
          BY <4>1 DEF Guides, Flows
        <4>. HIDE DEF s, k, devs
        <4>5. device' \in devs[k + n]
          BY <4>2, <4>4 DEF Follows
        <4>6. ASSUME k + n \in 1 .. Len(s), ~OfNode(s[k + n]) PROVE s[k + n].cobo = node'
          <5>1. s[k + n].cobo = s[k].cobo
            BY <4>1, <4>2, <4>6 DEF Guides
          <5>. QED
            BY <4>1, <4>2, <5>1 DEF Placed, OfNode
        <4>. QED
          BY <4>3, <4>5, <4>6 DEF s, devs
      <3>. QED
        BY <2>1, <3>1, <3>2, <3>3
    <2>6. CourseInv'
      BY <2>3, <2>5 DEF CourseInv, Running, Current
    <2>. QED
      BY <2>4, <2>6
  <1>. QED
    BY <1>1, <1>2

\* The types at every step.
LEMMA TypesHold == Spec => []TypesInv
  <1>1. Init => TypesInv
    BY SessionStarts DEF SessionInv
  <1>. QED
    BY <1>1, TypesGoOn, PTL DEF Spec

\* The course at every step.
LEMMA SessionHolds == ASSUME Overlap = FALSE PROVE Spec => []SessionInv
  <1>1. SessionInv /\ [Next]_vars => SessionInv'
    BY TypesGoOn, CourseGoesOn DEF SessionInv
  <1>. QED
    BY <1>1, SessionStarts, PTL DEF Spec

\* The state keeps its types (TypeOK): the selections of a CoBo are boards and
\* chips it has, and the current device one that the routines connect to.
THEOREM SessionTypes == Spec => []TypeOK
  <1>1. TypesInv => TypeOK
    BY DEF TypesInv, HwInv, CountInv, IsCoBo, TypeOK, AnyDevice, None
  <1>. QED
    BY <1>1, TypesHold, PTL

\* Everything a program asks of a node reaches the CoBo it means
\* (AccessFindsItsNode): loadHw, configure and daqStart connect to the node
\* before anything else, and no error leads a program from one CoBo to another.
THEOREM AccessesFindTheirNode == ASSUME Overlap = FALSE PROVE Spec => []AccessFindsItsNode
  <1>1. SessionInv => AccessFindsItsNode
    <2>. SUFFICES ASSUME SessionInv, NEW p \in Programs, InScript(p), Current(p).op # "node"
                  PROVE  Current(p).cobo \in {NoCoBo, node}
      BY DEF AccessFindsItsNode
    <2>1. Placed(Current(p)) /\ pc[p] \in 1 .. Len(Script[p]) /\ Running(p)
      BY Courses DEF InScript, Current
    <2>2. ~OfNode(Current(p)) => Current(p).cobo = node
      BY <2>1 DEF SessionInv, CourseInv
    <2>. QED
      BY <2>1, <2>2 DEF Placed, OfNode
  <1>. QED
    BY <1>1, SessionHolds, PTL

\* A register is looked for in the device that has it (AccessFindsItsDevice),
\* whichever of the calls before it failed with their error swallowed.
THEOREM AccessesFindTheirDevice == ASSUME Overlap = FALSE PROVE Spec => []AccessFindsItsDevice
  <1>1. SessionInv => AccessFindsItsDevice
    <2>. SUFFICES ASSUME SessionInv, NEW p \in Programs, InScript(p),
                         IsRegisterAccess(Current(p))
                  PROVE  device = Current(p).dev
      BY DEF AccessFindsItsDevice
    <2>1. pc[p] \in 1 .. Len(Script[p]) /\ device \in Course(p)[pc[p]]
      BY Courses DEF InScript, SessionInv, CourseInv
    <2>2. Follows(Script[p], pc[p], Course(p), AnyDevice)
      BY <2>1, Courses DEF Guides, Flows
    <2>. QED
      BY <2>1, <2>2 DEF Follows, OfRegister, IsRegisterAccess, Current
  <1>. QED
    BY <1>1, SessionHolds, PTL

-------------------------------------------------------------------------------
(* The end of data acquisition                                                 *)

\* A program that only stops data acquisition, its pulser too wherever it goes.
Stops(a) == a.op \in {"node", "stopPulser", "daqStop"} /\ a.rest = Raise
For(s, op, c) == \E k \in 1 .. Len(s) : s[k].op = op /\ s[k].cobo = c
OnlyStops(s) ==
    /\ IsSeq(s)
    /\ \A k \in 1 .. Len(s) :
           Stops(s[k]) /\ For(s, "stopPulser", s[k].cobo) /\ For(s, "daqStop", s[k].cobo)

\* One after another.
LEMMA BothStop ==
    ASSUME NEW s, NEW t, OnlyStops(s), OnlyStops(t) PROVE OnlyStops(s \o t)
  <1>. DEFINE u == s \o t
  <1>1. IsSeq(s) /\ IsSeq(t)
    BY DEF OnlyStops
  <1>2. /\ IsSeq(u) /\ Len(s) \in Nat /\ Len(t) \in Nat /\ Len(u) = Len(s) + Len(t)
        /\ \A k \in 1 .. Len(s) : u[k] = s[k]
        /\ \A k \in 1 .. Len(t) : u[Len(s) + k] = t[k]
        /\ \A k \in 1 .. Len(u) :
               \/ k \in 1 .. Len(s) /\ u[k] = s[k]
               \/ k - Len(s) \in 1 .. Len(t) /\ u[k] = t[k - Len(s)]
    BY <1>1, Concatenated, Elements
  <1>. HIDE DEF u
  <1>3. ASSUME NEW op, NEW c, For(s, op, c) PROVE For(u, op, c)
    <2>1. PICK k \in 1 .. Len(s) : s[k].op = op /\ s[k].cobo = c
      BY <1>3 DEF For
    <2>2. k \in 1 .. Len(u)
      BY <1>2
    <2>. QED
      BY <1>2, <2>1, <2>2 DEF For
  <1>4. ASSUME NEW op, NEW c, For(t, op, c) PROVE For(u, op, c)
    <2>1. PICK k \in 1 .. Len(t) : t[k].op = op /\ t[k].cobo = c
      BY <1>4 DEF For
    <2>2. Len(s) + k \in 1 .. Len(u) /\ u[Len(s) + k] = t[k]
      BY <1>2
    <2>. QED
      BY <2>1, <2>2 DEF For
  <1>5. ASSUME NEW k \in 1 .. Len(u)
        PROVE  Stops(u[k]) /\ For(u, "stopPulser", u[k].cobo) /\ For(u, "daqStop", u[k].cobo)
    <2>1. CASE k \in 1 .. Len(s) /\ u[k] = s[k]
      BY <1>3, <2>1 DEF OnlyStops
    <2>2. CASE k - Len(s) \in 1 .. Len(t) /\ u[k] = t[k - Len(s)]
      BY <1>4, <2>2 DEF OnlyStops
    <2>. QED
      BY <1>2, <2>1, <2>2
  <1>6. OnlyStops(u)
    BY <1>2, <1>5 DEF OnlyStops
  <1>. QED
    BY <1>6 DEF u

\* Any number of them.
LEMMA AllStop ==
    ASSUME NEW N \in Nat, NEW seqs, DOMAIN seqs = 1 .. N, seqs = [n \in 1 .. N |-> seqs[n]],
           \A n \in 1 .. N : OnlyStops(seqs[n])
    PROVE  OnlyStops(FlattenSeq(seqs))
  <1>1. \A n \in 1 .. N : IsSeq(seqs[n])
    BY DEF OnlyStops
  <1>2. PICK A : \A n \in 1 .. N : seqs[n] \in Seq(A)
    BY <1>1, OneSet
  <1>. DEFINE S == {s \in Seq(A) : OnlyStops(s)}
  <1>3. << >> \in S
    <2>1. Len(<< >>) = 0 /\ IsSeq(<< >>)
      BY DEF IsSeq
    <2>. QED
      BY <2>1 DEF OnlyStops
  <1>4. \A s, t \in S : s \o t \in S
    BY ConcatProperties, BothStop
  <1>5. seqs \in [1 .. N -> S]
    BY <1>2
  <1>. HIDE DEF S
  <1>6. FlattenSeq(seqs) \in S
    BY <1>3, <1>4, <1>5, FlattenClosed
  <1>. QED
    BY <1>6 DEF S

\* The four calls to one CoBo (daqstop.cpp:117, EccClient.cpp:1618).
LEMMA FourCalls ==
    ASSUME NEW c PROVE OnlyStops(On(c, ConnectNode(c) \o StopPulser \o DaqStop))
  <1>. DEFINE s == ConnectNode(c) \o StopPulser \o DaqStop
              t == On(c, s)
  <1>1. PICK a : a = ConnectNode(c)[1]
    OBVIOUS
  <1>2. PICK b : b = StopPulser[1]
    OBVIOUS
  <1>3. PICK d : d = Access("daqStop", "node", 0)[1]
    OBVIOUS
  <1>4. IsSeq(s) /\ Len(s) = 4 /\ s[1] = a /\ s[2] = b /\ s[3] = b /\ s[4] = d
    <2>1. ASSUME NEW x PROVE IsSeq(<<x>>) /\ Len(<<x>>) = 1 /\ <<x>>[1] = x
      BY DEF IsSeq
    <2>2. ConnectNode(c) = <<a>> /\ StopPulser = <<b>> /\ Access("daqStop", "node", 0) = <<d>>
      BY <1>1, <1>2, <1>3 DEF ConnectNode, StopPulser, Access
    <2>3. 1 + 1 = 2 /\ 2 + 1 = 3 /\ 2 + 2 = 4 /\ 1 \in 1 .. 1 /\ 1 \in 1 .. 2 /\ 2 \in 1 .. 2
      OBVIOUS
    <2>4. ASSUME NEW x, NEW y
          PROVE  /\ IsSeq(<<x>> \o <<y>>) /\ Len(<<x>> \o <<y>>) = 2
                 /\ (<<x>> \o <<y>>)[1] = x /\ (<<x>> \o <<y>>)[2] = y
      <3>. DEFINE e == <<x>>
                  f == <<y>>
      <3>1. IsSeq(e) /\ Len(e) = 1 /\ e[1] = x /\ IsSeq(f) /\ Len(f) = 1 /\ f[1] = y
        BY <2>1
      <3>. HIDE DEF e, f
      <3>2. IsSeq(e \o f) /\ Len(e \o f) = 2 /\ (e \o f)[1] = x /\ (e \o f)[2] = y
        <4>1. /\ IsSeq(e \o f) /\ Len(e \o f) = Len(e) + Len(f)
              /\ \A k \in 1 .. Len(e) : (e \o f)[k] = e[k]
              /\ \A k \in 1 .. Len(f) : (e \o f)[Len(e) + k] = f[k]
          <5>1. IsSeq(e) /\ IsSeq(f)
            BY <3>1
          <5>. QED
            BY <5>1, Concatenated
        <4>. QED
          BY <2>3, <3>1, <4>1
      <3>. QED
        BY <3>2 DEF e, f
    <2>. DEFINE e == <<a>> \o <<b>>
                f == <<b>> \o <<d>>
    <2>5. /\ IsSeq(e) /\ Len(e) = 2 /\ e[1] = a /\ e[2] = b
          /\ IsSeq(f) /\ Len(f) = 2 /\ f[1] = b /\ f[2] = d
      BY <2>4
    <2>6. s = e \o f
      BY <2>2 DEF DaqStop
    <2>. HIDE DEF e, f, s
    <2>7. /\ IsSeq(e \o f) /\ Len(e \o f) = Len(e) + Len(f)
          /\ \A k \in 1 .. Len(e) : (e \o f)[k] = e[k]
          /\ \A k \in 1 .. Len(f) : (e \o f)[Len(e) + k] = f[k]
      <3>1. IsSeq(e) /\ IsSeq(f)
        BY <2>5
      <3>. QED
        BY <3>1, Concatenated
    <2>. QED
      BY <2>3, <2>5, <2>6, <2>7
  <1>5. /\ Typed(a) /\ Typed(b) /\ Typed(d) /\ a.op = "node" /\ b.op = "stopPulser"
        /\ d.op = "daqStop" /\ a.rest = Raise /\ b.rest = Raise /\ d.rest = Raise
    BY <1>1, <1>2, <1>3 DEF ConnectNode, StopPulser, Access, Typed, Suits
  <1>6. DOMAIN s = 1 .. 4 /\ Len(s) = 4 /\ IsSeq(s)
    <2>. HIDE DEF s
    <2>. QED
      BY <1>4, LenProperties DEF IsSeq
  <1>7. IsSeq(t) /\ Len(t) = 4
    BY <1>6, Elementwise DEF On
  <1>8. \A x : Typed(x) => /\ [x EXCEPT !.cobo = c].op = x.op /\ [x EXCEPT !.cobo = c].rest = x.rest
                           /\ [x EXCEPT !.cobo = c].cobo = c
    BY DEF Typed
  <1>9. ASSUME NEW k \in 1 .. 4
        PROVE  /\ t[k].cobo = c /\ Stops(t[k]) /\ (k = 2 => t[k].op = "stopPulser")
               /\ (k = 4 => t[k].op = "daqStop")
    <2>1. t[k] = [s[k] EXCEPT !.cobo = c]
      BY <1>6 DEF On
    <2>2. Typed(s[k]) /\ s[k].op \in {"node", "stopPulser", "daqStop"} /\ s[k].rest = Raise
          /\ (k = 2 => s[k].op = "stopPulser") /\ (k = 4 => s[k].op = "daqStop")
      <3>1. s[k] \in {a, b, d} /\ (k = 2 => s[k] = b) /\ (k = 4 => s[k] = d)
        BY <1>4
      <3>. QED
        BY <1>5, <3>1
    <2>. HIDE DEF s, t
    <2>. QED
      BY <1>8, <2>1, <2>2 DEF Stops
  <1>. HIDE DEF t
  <1>10. For(t, "stopPulser", c) /\ For(t, "daqStop", c)
    BY <1>7, <1>9 DEF For
  <1>11. OnlyStops(t)
    BY <1>7, <1>9, <1>10 DEF OnlyStops
  <1>. QED
    BY <1>11 DEF t

\* The two programs that stop data acquisition do nothing else.
LEMMA StoppingStops == \A p \in Stopping : p \in Programs /\ OnlyStops(Script[p])
  <1>. SUFFICES ASSUME NEW p \in Stopping PROVE OnlyStops(Script[p])
    BY DEF Stopping
  <1>. DEFINE targets == Launches[p].targets
              Stop(c) == On(c, ConnectNode(c) \o StopPulser \o DaqStop)
              seqs == [n \in DOMAIN targets |-> Stop(targets[n])]
  <1>1. p \in Programs /\ Launches[p].program \in {"daqstop", "stop"}
    BY DEF Stopping
  <1>2. targets \in Seq(CoBos)
    BY <1>1, LaunchesAssumption
  <1>3. Script[p] = FlattenSeq(seqs)
    BY <1>1 DEF Script, ScriptOf, DaqStopProgram, DaqControlProgram, EachTarget
  <1>4. \A c : OnlyStops(Stop(c))
    BY FourCalls
  <1>. HIDE DEF Stop, targets
  <1>5. /\ DOMAIN seqs = 1 .. Len(targets) /\ Len(targets) \in Nat
        /\ seqs = [n \in 1 .. Len(targets) |-> seqs[n]]
        /\ \A n \in 1 .. Len(targets) : OnlyStops(seqs[n])
    BY <1>2, <1>4, LenProperties
  <1>. HIDE DEF seqs
  <1>. QED
    BY <1>3, <1>5, AllStop

\* What a stopping program has stopped stays stopped while it runs.
StopsSoFar(p) ==
    \A k \in 1 .. Len(Script[p]) : k < pc[p] /\ Script[p][k].cobo \in CoBos =>
        /\ Script[p][k].op = "daqStop" => ~hw[Script[p][k].cobo].running
        /\ Script[p][k].op = "stopPulser" => ~hw[Script[p][k].cobo].pulsing
StopInv == \A p \in Stopping : Running(p) => StopsSoFar(p)

\* What a step may do while a stopping program runs.
LEMMA StoppingSteps ==
    ASSUME Overlap = FALSE, SessionInv, [Next]_vars, NEW p \in Stopping, Running(p)'
    PROVE  \/ pc'[p] = 1
           \/ pc'[p] = pc[p] /\ hw' = hw
           \/ /\ InScript(p) /\ pc'[p] = pc[p] + 1
              /\ \/ Current(p).op = "node" /\ hw' = hw
                 \/ /\ Current(p).op \in {"stopPulser", "daqStop"} /\ Current(p).cobo = node
                    /\ hw' = [hw EXCEPT ![node] = After(hw[node], Current(p))]
  <1>. USE DEF SessionInv
  <1>1. p \in Programs /\ OnlyStops(Script[p])
    BY StoppingStops
  <1>2. CASE UNCHANGED vars
    BY <1>2 DEF vars
  <1>3. CASE Next
    <2>1. PICK q \in Programs :
              \/ Launch(q) \/ Exit(q) \/ RemoveNodes(q) \/ Connect(q) \/ ConnectDevice(q)
              \/ Call(q) \/ Check(q) \/ LeaveBlock(q) \/ CallFails(q)
      BY <1>3 DEF Next
    <2>2. pc \in [Programs -> Nat]
      BY DEF TypesInv, CountInv
    <2>3. CASE Launch(q)
      BY <1>1, <2>2, <2>3 DEF Launch, Running
    <2>4. ASSUME ~Launch(q) PROVE Running(q)
      BY <2>1, <2>4 DEF Exit, AtEnd, RemoveNodes, Connect, ConnectDevice, Call, Check, LeaveBlock,
                        CallFails, InScript
    <2>5. ASSUME ~Launch(q), q # p PROVE FALSE
      <3>1. pc[p] = 0
        BY <1>1, <2>4, <2>5 DEF AloneInv, Running
      <3>2. pc'[p] = pc[p]
        BY <1>1, <2>1, <2>2, <2>5 DEF Exit, RemoveNodes, Connect, ConnectDevice, Call, Check,
                                      LeaveBlock, CallFails, GoOn
      <3>. QED
        BY <3>1, <3>2 DEF Running
    <2>6. CASE ~Launch(q) /\ q = p
      <3>. DEFINE a == Current(p)
      <3>1. CASE Exit(p)
        BY <1>1, <2>2, <3>1 DEF Exit, Running
      <3>2. CASE ~Exit(p)
        <4>1. InScript(p)
          BY <2>1, <2>6, <3>2 DEF RemoveNodes, Connect, ConnectDevice, Call, Check, LeaveBlock, CallFails
        <4>2. pc[p] \in 1 .. Len(Script[p])
          BY <1>1, <4>1, Courses DEF InScript
        <4>3. a.op \in {"node", "stopPulser", "daqStop"} /\ a.rest = Raise
          BY <1>1, <4>2 DEF OnlyStops, Stops, Current
        <4>4. ~OfNode(a) => a.cobo = node
          BY <1>1, <4>1, <4>2 DEF CourseInv, InScript
        <4>. HIDE DEF a
        <4>5. CASE Connect(p)
          BY <1>1, <2>2, <4>1, <4>5 DEF Connect, GoOn, a
        <4>6. CASE Call(p)
          BY <1>1, <2>2, <4>1, <4>3, <4>4, <4>6 DEF Call, GoOn, OfNode, a
        <4>7. CASE CallFails(p)
          BY <1>1, <2>2, <4>3, <4>7 DEF CallFails, Running, a
        <4>8. CASE RemoveNodes(p) \/ ConnectDevice(p) \/ Check(p) \/ LeaveBlock(p)
          BY <4>3, <4>8 DEF RemoveNodes, ConnectDevice, Check, LeaveBlock, a
        <4>. QED
          BY <2>1, <2>6, <3>2, <4>5, <4>6, <4>7, <4>8
      <3>. QED
        BY <3>1, <3>2
    <2>. QED
      BY <2>3, <2>5, <2>6
  <1>. QED
    BY <1>2, <1>3

\* A step keeps it.
LEMMA StopsGoOn ==
    ASSUME Overlap = FALSE PROVE SessionInv /\ StopInv /\ [Next]_vars => StopInv'
  <1>. SUFFICES ASSUME SessionInv, StopInv, [Next]_vars, NEW p \in Stopping, Running(p)'
                PROVE  StopsSoFar(p)'
    BY DEF StopInv
  <1>1. p \in Programs /\ OnlyStops(Script[p])
    BY StoppingStops
  <1>2. pc \in [Programs -> Nat] /\ HwInv /\ node \in CoBos \cup {NoCoBo}
    BY DEF SessionInv, TypesInv, CountInv
  <1>3. CASE pc'[p] = 1
    BY <1>3 DEF StopsSoFar
  <1>4. CASE pc'[p] = pc[p] /\ hw' = hw
    BY <1>4 DEF StopsSoFar, StopInv, Running
  <1>5. ASSUME InScript(p), pc'[p] = pc[p] + 1, Current(p).op = "node", hw' = hw
        PROVE  StopsSoFar(p)'
    <2>1. ASSUME NEW k \in 1 .. Len(Script[p]), k < pc'[p], k # pc[p] PROVE k < pc[p]
      BY <1>1, <1>2, <1>5, <2>1
    <2>2. StopsSoFar(p)
      BY <1>5 DEF StopInv, InScript
    <2>3. Script[p][pc[p]].op = "node"
      BY <1>5 DEF Current
    <2>. QED
      BY <1>5, <2>1, <2>2, <2>3 DEF StopsSoFar
  <1>6. ASSUME InScript(p), pc'[p] = pc[p] + 1, Current(p).op \in {"stopPulser", "daqStop"},
               Current(p).cobo = node, hw' = [hw EXCEPT ![node] = After(hw[node], Current(p))]
        PROVE  StopsSoFar(p)'
    <2>. DEFINE a == Current(p)
                h == hw[node]
    <2>1. Typed(a)
      BY <1>1, <1>6, Courses DEF Current, InScript
    <2>2. node \in CoBos => IsCoBo(h)
      BY <1>2 DEF HwInv
    <2>. HIDE DEF a, h
    <2>3. ASSUME node \in CoBos
          PROVE  /\ a.op = "daqStop" => ~After(h, a).running /\ After(h, a).pulsing = h.pulsing
                 /\ a.op = "stopPulser" => ~After(h, a).pulsing /\ After(h, a).running = h.running
      BY <2>1, <2>2, <2>3, AfterKeeps
    <2>4. \A c \in CoBos : hw'[c] = IF c = node THEN After(h, a) ELSE hw[c]
      BY <1>2, <1>6 DEF HwInv, a, h
    <2>5. ASSUME NEW c \in CoBos
          PROVE  /\ ~hw[c].running => ~hw'[c].running
                 /\ ~hw[c].pulsing => ~hw'[c].pulsing
                 /\ c = node /\ a.op = "daqStop" => ~hw'[c].running
                 /\ c = node /\ a.op = "stopPulser" => ~hw'[c].pulsing
      <3>1. CASE c = node
        BY <1>6, <2>3, <2>4, <3>1 DEF a, h
      <3>2. CASE c # node
        BY <2>4, <3>2
      <3>. QED
        BY <3>1, <3>2
    <2>6. StopsSoFar(p)
      BY <1>6 DEF StopInv, InScript
    <2>7. ASSUME NEW k \in 1 .. Len(Script[p]), k < pc'[p], Script[p][k].cobo \in CoBos
          PROVE  /\ Script[p][k].op = "daqStop" => ~hw'[Script[p][k].cobo].running
                 /\ Script[p][k].op = "stopPulser" => ~hw'[Script[p][k].cobo].pulsing
      <3>1. CASE k = pc[p]
        BY <1>6, <2>5, <2>7, <3>1 DEF Current, a
      <3>2. CASE k # pc[p]
        <4>1. k < pc[p]
          BY <1>1, <1>2, <1>6, <2>7, <3>2
        <4>. QED
          BY <2>5, <2>6, <2>7, <4>1 DEF StopsSoFar
      <3>. QED
        BY <3>1, <3>2
    <2>. QED
      BY <2>7 DEF StopsSoFar
  <1>. QED
    BY <1>3, <1>4, <1>5, <1>6, StoppingSteps

\* A program that stops data acquisition and ends well leaves none of its
\* CoBos running, nor its pulser (StopsWhatItMeans).
THEOREM StoppedMeansStopped == ASSUME Overlap = FALSE PROVE Spec => []StopsWhatItMeans
  <1>1. Init => StopInv
    BY StoppingStops DEF Init, StopInv, Running
  <1>2. SessionInv /\ StopInv /\ [Next]_vars => StopInv'
    BY StopsGoOn
  <1>3. SessionInv /\ StopInv => StopsWhatItMeans
    <2>. SUFFICES ASSUME SessionInv, StopInv, NEW p \in Stopping, AtEnd(p),
                         NEW k \in DOMAIN Script[p], Script[p][k].cobo # NoCoBo
                  PROVE  ~hw[Script[p][k].cobo].running /\ ~hw[Script[p][k].cobo].pulsing
      BY DEF StopsWhatItMeans
    <2>. DEFINE c == Script[p][k].cobo
                s == Script[p]
    <2>1. /\ p \in Programs /\ OnlyStops(s) /\ DOMAIN s = 1 .. Len(s) /\ Len(s) \in Nat
          /\ Placed(s[k])
      BY StoppingStops, Courses
    <2>2. c \in CoBos
      BY <2>1 DEF Placed
    <2>3. \A i \in 1 .. Len(s) : i < pc[p]
      BY <2>1 DEF SessionInv, TypesInv, PlaceInv, AtEnd
    <2>4. For(s, "stopPulser", c) /\ For(s, "daqStop", c)
      BY <2>1 DEF OnlyStops
    <2>5. StopsSoFar(p)
      BY DEF StopInv, AtEnd
    <2>. HIDE DEF c
    <2>. QED
      BY <2>2, <2>3, <2>4, <2>5 DEF StopsSoFar, For, c
  <1>. QED
    BY <1>1, <1>2, <1>3, SessionHolds, PTL DEF Spec

===============================================================================
