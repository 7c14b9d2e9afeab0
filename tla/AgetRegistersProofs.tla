------------------------ MODULE AgetRegistersProofs ------------------------
(***************************************************************************)
(* A chip that passed its checks holds the condition file, every channel   *)
(* has its bits there, and the masks of the CoBo have every channel that   *)
(* is read: for any files, former contents of the chip and faults.         *)
(***************************************************************************)
EXTENDS AgetRegisters, FiniteSetTheorems, TLAPS

-------------------------------------------------------------------------------
(* Types                                                                       *)

\* The thirteen registers are different ones.
LEMMA OrderTyped == DOMAIN Order = 1 .. 13 /\ Len(Order) = 13
  BY DEF Order

\* No register is set twice.
LEMMA OrderApart == \A m, n \in 1 .. 13 : Order[m] = Order[n] => m = n
  BY DEF Order

\* A file is packed into one value for each register.
LEMMA ValueTyped ==
    ASSUME NEW f \in DOMAIN Files PROVE DOMAIN Value[f] = Registers
  <1>. HIDE DEF Registers
  <1>1. \A file : DOMAIN Packed(file) = Registers
    BY DEF Packed
  <1>2. Value[f] = Packed(FileOf[f])
    BY DEF Value
  <1>. QED
    BY <1>1, <1>2

\* The register being set is one of them.
LEMMA RegTyped == ASSUME pos \in DOMAIN Order PROVE Reg \in Registers
  BY DEF Reg, Registers

\* TypeOK holds: configure stays within the list of the registers
\* (GetController.cpp:2439 to 2558), whatever the files hold and what fails.
THEOREM RegistersTyped == Spec => []TypeOK
  <1>1. Init => TypeOK
    <2> SUFFICES ASSUME Init PROVE TypeOK
      OBVIOUS
    <2>1. DOMAIN chip = Registers
      <3>1. CASE chip = [reg \in Registers |-> {}]
        BY <3>1
      <3>2. CASE \E f \in Formers : chip = Value[f]
        BY <3>2, ValueTyped, FormersAssumption
      <3>. QED
        BY <3>1, <3>2 DEF Init
    <2>. QED
      <3>1. pos \in 1 .. (Len(Order) + 1) /\ faults \in 0 .. MaxFaults
        BY OrderTyped, FaultsAssumption DEF Init
      <3>2. loaded \in DOMAIN Files /\ written \in BOOLEAN /\ outcome = "running"
        BY DEF Init
      <3>. QED
        BY <2>1, <3>1, <3>2 DEF TypeOK
  <1>2. TypeOK /\ [Next]_vars => TypeOK'
    <2> SUFFICES ASSUME TypeOK, [Next]_vars PROVE TypeOK'
      OBVIOUS
    <2>1. CASE Write
      <3>1. DOMAIN chip' = DOMAIN chip
        BY <2>1 DEF Write
      <3>a. pos \in 1 .. 13 /\ (pos' = pos \/ pos' = pos + 1)
        BY <2>1, OrderTyped DEF Write, Setting, Advance
      <3>b. pos' \in 1 .. (Len(Order) + 1)
        BY <3>a, OrderTyped
      <3>c. written' \in BOOLEAN
        BY <2>1 DEF Write, Advance
      <3>3. faults' \in 0 .. MaxFaults
        BY <2>1, FaultsAssumption DEF TypeOK, Write
      <3>. QED
        BY <2>1, <3>1, <3>b, <3>c, <3>3 DEF TypeOK, Write
    <2>2. CASE Check
      <3>1. PICK resp : ReadBack(resp)
        BY <2>2 DEF Check
      <3>a. pos \in 1 .. 13 /\ (pos' = pos \/ pos' = pos + 1)
        BY <2>2, <3>1, OrderTyped DEF Check, Setting, ReadBack, Advance
      <3>b. pos' \in 1 .. (Len(Order) + 1)
        BY <3>a, OrderTyped
      <3>c. written' \in BOOLEAN
        BY <3>1 DEF TypeOK, ReadBack, Advance
      <3>d. outcome' \in {"running", "refused", "masks", "done"}
        BY <3>1 DEF TypeOK, ReadBack
      <3>3. faults' \in 0 .. MaxFaults
        BY <2>2, FaultsAssumption DEF TypeOK, Check
      <3>. QED
        BY <3>1, <3>b, <3>c, <3>d, <3>3 DEF TypeOK, ReadBack
    <2>3. CASE Masks
      BY <2>3 DEF TypeOK, Masks
    <2>4. CASE Finish
      BY <2>4 DEF TypeOK, Finish
    <2>5. CASE UNCHANGED vars
      BY <2>5 DEF TypeOK, vars
    <2>. QED
      BY <2>1, <2>2, <2>3, <2>4, <2>5 DEF Next
  <1>. QED
    BY <1>1, <1>2, PTL DEF Spec

-------------------------------------------------------------------------------
(* What has been checked holds                                                 *)

Agreed(reg) == Flipped(chip[reg], Value[loaded][reg]) \subseteq LetPass(reg)

\* CheckedRegistersHold by the number of the register: inductive, since no
\* register is written again.
CheckedInv ==
    \A n \in 1 .. (pos - 1) :
        n \in DOMAIN Order /\ Checking /\ Value[loaded][Order[n]] \notin Unseen(Order[n])
            => Agreed(Order[n])

\* What the comparison lets pass: with an answer of the chip it is right up to
\* bit 21 of reg2, and no answer is only right for the values in Unseen.
LEMMA AgreesSoundly ==
    ASSUME NEW resp, Agrees(resp), Wanted \notin Unseen(Reg)
    PROVE  resp # {} /\ Flipped(resp, Wanted) \subseteq LetPass(Reg)
  <1>1. CASE resp = Wanted
    BY <1>1 DEF Unseen, Flipped
  <1>2. CASE Reg = "reg2" /\ Flipped(Wanted, resp) = {21}
    <2>1. Flipped(resp, Wanted) = {21}
      BY <1>2 DEF Flipped
    <2>2. resp # {}
      BY <1>2 DEF Flipped, Unseen
    <2>. QED
      BY <1>2, <2>1, <2>2 DEF LetPass
  <1>. QED
    BY <1>1, <1>2 DEF Agrees

\* A register that was checked stays as it is: only the one being set is written.
LEMMA CheckedStep == TypeOK /\ CheckedInv /\ [Next]_vars => CheckedInv'
  <1> SUFFICES ASSUME TypeOK, CheckedInv, [Next]_vars PROVE CheckedInv'
    OBVIOUS
  <1> USE DEF Checking
  <1>1. loaded' = loaded
    BY DEF Next, Write, Check, ReadBack, Masks, Finish, vars
  <1> SUFFICES ASSUME NEW n \in 1 .. (pos' - 1), n \in DOMAIN Order, Checking,
                      Value[loaded][Order[n]] \notin Unseen(Order[n])
               PROVE  Agreed(Order[n])'
    BY <1>1 DEF CheckedInv
  <1>2. ASSUME chip'[Order[n]] = chip[Order[n]], pos' = pos PROVE Agreed(Order[n])'
    BY <1>1, <1>2 DEF CheckedInv, Agreed
  <1>3. CASE Write
    <2>1. pos' = pos /\ pos \in 1 .. 13
      BY <1>3, OrderTyped DEF Write, Setting
    <2>2. Order[n] # Reg
      BY <2>1, OrderTyped, OrderApart DEF Reg
    <2>3. Order[n] \in DOMAIN chip
      BY DEF TypeOK, Registers
    <2>4. chip'[Order[n]] = chip[Order[n]]
      BY <1>3, <2>2, <2>3 DEF Write
    <2>. QED
      BY <1>2, <2>1, <2>4
  <1>4. CASE Check
    <2>1. PICK resp : ReadBack(resp) /\ (resp = chip[Reg] \/ resp = {})
      BY <1>4 DEF Check
    <2>2. chip' = chip /\ pos \in 1 .. 13
      BY <1>4, <2>1, OrderTyped DEF ReadBack, Check, Setting
    <2>3. CASE pos' = pos
      BY <1>2, <2>2, <2>3
    <2>4. CASE pos' = pos + 1 /\ Agrees(resp)
      <3>1. CASE n = pos
        <4>1. Order[n] = Reg /\ Value[loaded][Order[n]] = Wanted
          BY <3>1 DEF Reg, Wanted
        <4>2. resp # {} /\ Flipped(resp, Wanted) \subseteq LetPass(Reg)
          BY <2>4, <4>1, AgreesSoundly
        <4>. QED
          BY <1>1, <2>1, <2>2, <4>1, <4>2 DEF Agreed
      <3>2. CASE n # pos
        <4>1. n \in 1 .. (pos - 1)
          BY <2>2, <2>4, <3>2
        <4>. QED
          BY <1>1, <2>2, <4>1 DEF CheckedInv, Agreed
      <3>. QED
        BY <3>1, <3>2
    <2>. QED
      BY <2>1, <2>3, <2>4 DEF ReadBack, Advance
  <1>5. CASE Masks \/ Finish \/ UNCHANGED vars
    BY <1>2, <1>5 DEF Masks, Finish, vars
  <1>. QED
    BY <1>3, <1>4, <1>5 DEF Next

\* Every register that was found right has a number below pos.
LEMMA CheckedImplies == TypeOK /\ CheckedInv => CheckedRegistersHold
  <1> SUFFICES ASSUME TypeOK, CheckedInv, NEW reg \in Registers, Sure(reg)
               PROVE  Agreed(reg)
    BY DEF CheckedRegistersHold, Agreed
  <1>1. PICK n \in 1 .. (pos - 1) : Order[n] = reg
    BY DEF Sure, FoundRight
  <1>2. n \in DOMAIN Order
    BY OrderTyped DEF TypeOK
  <1>. QED
    BY <1>1, <1>2 DEF CheckedInv, Sure, FoundRight

\* With scCheck configure only leaves behind registers that are what the file
\* says, up to bit 21 of reg2 and registers that are to be 0: whatever the
\* files, the former contents of the chip and the accesses that fail
\* (GetController.cpp:2376 to 2430).
THEOREM CheckedRegistersAreRight == Spec => []CheckedRegistersHold
  <1>1. Init => CheckedInv
    BY DEF Init, CheckedInv
  <1>. QED
    BY <1>1, RegistersTyped, CheckedStep, CheckedImplies, PTL DEF Spec

-------------------------------------------------------------------------------
(* The places of the channels                                                  *)

\* The bits of each channel of T, moved to its place.
Spread(T, at, bits) == UNION {Shift(bits[d], at[d]) : d \in T}

\* Two bits at a time, at places that are two apart, are read back as they were
\* put in.
LEMMA PlacesApart ==
    ASSUME NEW S, NEW T \in SUBSET S, NEW at \in [S -> Int], NEW bits \in [S -> SUBSET {0, 1}],
           \A c, d \in S : c # d => at[c] + 1 < at[d] \/ at[d] + 1 < at[c],
           NEW c \in S
    PROVE  Within(Spread(T, at, bits), at[c], 2)
               = IF c \in T THEN bits[c] ELSE {}
  <1>. DEFINE reg == Spread(T, at, bits)
  <1>1. ASSUME NEW b \in {0, 1}
        PROVE  at[c] + b \in reg <=> c \in T /\ b \in bits[c]
    <2>1. ASSUME c \in T, b \in bits[c] PROVE at[c] + b \in reg
      <3>1. b + at[c] \in Shift(bits[c], at[c])
        BY <2>1 DEF Shift
      <3>2. at[c] + b = b + at[c]
        OBVIOUS
      <3>. QED
        BY <2>1, <3>1, <3>2 DEF Spread
    <2>2. ASSUME at[c] + b \in reg PROVE c \in T /\ b \in bits[c]
      <3>1. PICK d \in T : at[c] + b \in Shift(bits[d], at[d])
        BY <2>2 DEF Spread
      <3>2. PICK a \in bits[d] : at[c] + b = a + at[d]
        BY <3>1 DEF Shift
      <3>3. a \in {0, 1} /\ d \in S /\ at[c] \in Int /\ at[d] \in Int
        OBVIOUS
      <3>4. c = d
        BY <3>2, <3>3
      <3>5. a = b
        BY <3>2, <3>3, <3>4
      <3>. QED
        BY <3>4, <3>5
    <2>. QED
      BY <2>1, <2>2
  <1>2. Within(reg, at[c], 2) = {b \in {0, 1} : at[c] + b \in reg}
    <2>1. 0 .. (2 - 1) = {0, 1}
      OBVIOUS
    <2>. QED
      BY <2>1 DEF Within
  <1>3. {b \in {0, 1} : at[c] + b \in reg} = IF c \in T THEN bits[c] ELSE {}
    BY <1>1
  <1>. QED
    BY <1>2, <1>3

\* The numbers from m to n without two of them.
LEMMA IntervalWithoutTwo ==
    ASSUME NEW m \in Int, NEW c \in Int, m <= c, NEW a \in Int, NEW b \in Int, m <= a, a < b
    PROVE  Cardinality(m .. (c - 1) \ {a, b})
               = IF c <= a THEN c - m ELSE IF c <= b THEN c - m - 1 ELSE c - m - 2
  <1>. DEFINE all == m .. (c - 1)
              less == all \ {a}
  <1>1. IsFiniteSet(all) /\ Cardinality(all) = c - m
    <2>1. IsFiniteSet(all) /\ Cardinality(all) = IF m > c - 1 THEN 0 ELSE (c - 1) - m + 1
      BY FS_Interval
    <2>. QED
      BY <2>1
  <1>2. a \in all <=> a < c
    OBVIOUS
  <1>3. b \in less <=> b < c
    OBVIOUS
  <1>4. all \ {a, b} = less \ {b}
    OBVIOUS
  <1>. HIDE DEF all
  <1>5. /\ IsFiniteSet(less)
        /\ Cardinality(less) = IF a \in all THEN Cardinality(all) - 1 ELSE Cardinality(all)
    BY <1>1, FS_RemoveElement
  <1>. HIDE DEF less
  <1>6. Cardinality(less \ {b}) = IF b \in less THEN Cardinality(less) - 1 ELSE Cardinality(less)
    BY <1>5, FS_RemoveElement
  <1>7. Cardinality(all \ {a, b})
            = IF c <= a THEN c - m ELSE IF c <= b THEN c - m - 1 ELSE c - m - 2
    BY <1>1, <1>2, <1>3, <1>4, <1>5, <1>6
  <1>. QED
    BY <1>7 DEF all

\* How many channels of a half of the chip are below one of them.
LEMMA PlaceLow ==
    ASSUME NEW c \in Low
    PROVE  Place(c, Low) = IF c < 11 THEN c ELSE IF c < 22 THEN c - 1 ELSE c - 2
  <1>1. c \in 0 .. 33 /\ c # 11 /\ c # 22
    BY DEF Low, FPN
  <1>. DEFINE m == 0
              a == 11
              b == 22
  <1>2. {d \in Low : d < c} = m .. (c - 1) \ {a, b}
    BY <1>1 DEF Low, FPN
  <1>3. m \in Int /\ a \in Int /\ b \in Int /\ c \in Int /\ m <= c /\ m <= a /\ a < b
    BY <1>1
  <1>. HIDE DEF m, a, b
  <1>4. Place(c, Low) = IF c <= a THEN c - m ELSE IF c <= b THEN c - m - 1 ELSE c - m - 2
    BY <1>2, <1>3, IntervalWithoutTwo DEF Place
  <1>. QED
    BY <1>1, <1>4 DEF m, a, b

\* The same for the upper half.
LEMMA PlaceHigh ==
    ASSUME NEW c \in High
    PROVE  Place(c, High) = IF c < 45 THEN c - 34 ELSE IF c < 56 THEN c - 35 ELSE c - 36
  <1>1. c \in 34 .. 67 /\ c # 45 /\ c # 56
    BY DEF High, FPN
  <1>. DEFINE m == 34
              a == 45
              b == 56
  <1>2. {d \in High : d < c} = m .. (c - 1) \ {a, b}
    BY <1>1 DEF High, FPN
  <1>3. m \in Int /\ a \in Int /\ b \in Int /\ c \in Int /\ m <= c /\ m <= a /\ a < b
    BY <1>1
  <1>. HIDE DEF m, a, b
  <1>4. Place(c, High) = IF c <= a THEN c - m ELSE IF c <= b THEN c - m - 1 ELSE c - m - 2
    BY <1>2, <1>3, IntervalWithoutTwo DEF Place
  <1>. QED
    BY <1>1, <1>4 DEF m, a, b

\* The formulas of the code for the places of the channels are the ones that count.
LEMMA PlacesCounted ==
    /\ \A c \in Low : Down(c) = At6(c) /\ Down(c) = At10(c) /\ Down(c) \in Int
    /\ \A c \in High : Up(c) = At7(c) /\ Up(c) = At11(c) /\ Up(c) \in Int
  <1>1. ASSUME NEW c \in Low
        PROVE  Down(c) = At6(c) /\ Down(c) = At10(c) /\ Down(c) \in Int
    <2>1. c \in 0 .. 33 /\ c # 11 /\ c # 22
      BY DEF Low, FPN
    <2>. QED
      BY <2>1, PlaceLow DEF Down, At6, At10, Physical10
  <1>2. ASSUME NEW c \in High
        PROVE  Up(c) = At7(c) /\ Up(c) = At11(c) /\ Up(c) \in Int
    <2>1. c \in 34 .. 67 /\ c # 45 /\ c # 56
      BY DEF High, FPN
    <2>. QED
      BY <2>1, PlaceHigh DEF Up, At7, At11, Physical11
  <1>. QED
    BY <1>1, <1>2

\* No two channels of a half have places in common.
LEMMA DownApart ==
    \A c, d \in Low : c # d => Down(c) + 1 < Down(d) \/ Down(d) + 1 < Down(c)
  <1> SUFFICES ASSUME NEW c \in Low, NEW d \in Low, c # d
               PROVE  Down(c) + 1 < Down(d) \/ Down(d) + 1 < Down(c)
    OBVIOUS
  <1>1. c \in 0 .. 33 /\ c # 11 /\ c # 22 /\ d \in 0 .. 33 /\ d # 11 /\ d # 22
    BY DEF Low, FPN
  <1>. QED
    BY <1>1, PlaceLow DEF Down

\* The same for the upper half.
LEMMA UpApart ==
    \A c, d \in High : c # d => Up(c) + 1 < Up(d) \/ Up(d) + 1 < Up(c)
  <1> SUFFICES ASSUME NEW c \in High, NEW d \in High, c # d
               PROVE  Up(c) + 1 < Up(d) \/ Up(d) + 1 < Up(c)
    OBVIOUS
  <1>1. c \in 34 .. 67 /\ c # 45 /\ c # 56 /\ d \in 34 .. 67 /\ d # 45 /\ d # 56
    BY DEF High, FPN
  <1>. QED
    BY <1>1, PlaceHigh DEF Up

-------------------------------------------------------------------------------
(* What is read back of a checked chip                                         *)

\* A gain has two bits.
LEMMA GainTyped == \A channel : GainBits(channel) \in SUBSET {0, 1}
  BY DEF GainBits

\* A trigger inhibition has two bits.
LEMMA InhibitionTyped == \A channel : InhibitionBits(channel) \in SUBSET {0, 1}
  BY DEF InhibitionBits

\* The places of the lower half go down, those of the upper half up.
Downs == [d \in Low |-> Down(d)]
Ups == [d \in High |-> Up(d)]

\* What is put at the places of the lower half is read back there.
LEMMA SpreadDown ==
    ASSUME NEW T \in SUBSET Low, NEW bits \in [Low -> SUBSET {0, 1}], NEW c \in Low
    PROVE  Within(Spread(T, Downs, bits), Down(c), 2) = IF c \in T THEN bits[c] ELSE {}
  <1>1. Downs \in [Low -> Int] /\ Downs[c] = Down(c)
    BY PlacesCounted DEF Downs
  <1>2. \A d, e \in Low : d # e => Downs[d] + 1 < Downs[e] \/ Downs[e] + 1 < Downs[d]
    BY DownApart DEF Downs
  <1>3. Within(Spread(T, Downs, bits), Downs[c], 2) = IF c \in T THEN bits[c] ELSE {}
    BY <1>1, <1>2, PlacesApart
  <1>. QED
    BY <1>1, <1>3

\* What is put at the places of the upper half is read back there.
LEMMA SpreadUp ==
    ASSUME NEW T \in SUBSET High, NEW bits \in [High -> SUBSET {0, 1}], NEW c \in High
    PROVE  Within(Spread(T, Ups, bits), Up(c), 2) = IF c \in T THEN bits[c] ELSE {}
  <1>1. Ups \in [High -> Int] /\ Ups[c] = Up(c)
    BY PlacesCounted DEF Ups
  <1>2. \A d, e \in High : d # e => Ups[d] + 1 < Ups[e] \/ Ups[e] + 1 < Ups[d]
    BY UpApart DEF Ups
  <1>3. Within(Spread(T, Ups, bits), Ups[c], 2) = IF c \in T THEN bits[c] ELSE {}
    BY <1>1, <1>2, PlacesApart
  <1>. QED
    BY <1>1, <1>3

\* agetChanBitmask_reg6, reg7, reg10 and reg11 put the bits of each channel at
\* its place.
LEMMA GainsLow ==
    ASSUME NEW file, NEW c \in Low
    PROVE  Within(Reg6(file), Down(c), 2)
               = IF c \in Active(file) THEN GainBits(file.channel[c]) ELSE {}
  <1>. DEFINE T == Active(file) \cap (Low)
              bits == [d \in Low |-> GainBits(file.channel[d])]
  <1>1. bits \in [Low -> SUBSET {0, 1}] /\ T \in SUBSET Low /\ c \in Low
    BY GainTyped
  <1>2. Reg6(file) = Spread(T, Downs, bits)
    <2>1. \A d \in T : Shift(bits[d], Downs[d]) = Shift(GainBits(file.channel[d]), At6(d))
      BY PlacesCounted DEF Downs
    <2>. QED
      BY <2>1 DEF Reg6, Spread
  <1>. HIDE DEF T, bits
  <1>3. Within(Spread(T, Downs, bits), Down(c), 2) = IF c \in T THEN bits[c] ELSE {}
    BY <1>1, SpreadDown
  <1>. QED
    BY <1>1, <1>2, <1>3 DEF T, bits

\* Register 7, the gains of the upper half.
LEMMA GainsHigh ==
    ASSUME NEW file, NEW c \in High
    PROVE  Within(Reg7(file), Up(c), 2)
               = IF c \in Active(file) THEN GainBits(file.channel[c]) ELSE {}
  <1>. DEFINE T == Active(file) \cap (High)
              bits == [d \in High |-> GainBits(file.channel[d])]
  <1>1. bits \in [High -> SUBSET {0, 1}] /\ T \in SUBSET High /\ c \in High
    BY GainTyped
  <1>2. Reg7(file) = Spread(T, Ups, bits)
    <2>1. \A d \in T : Shift(bits[d], Ups[d]) = Shift(GainBits(file.channel[d]), At7(d))
      BY PlacesCounted DEF Ups
    <2>. QED
      BY <2>1 DEF Reg7, Spread
  <1>. HIDE DEF T, bits
  <1>3. Within(Spread(T, Ups, bits), Up(c), 2) = IF c \in T THEN bits[c] ELSE {}
    BY <1>1, SpreadUp
  <1>. QED
    BY <1>1, <1>2, <1>3 DEF T, bits

\* Register 10, the trigger inhibitions of the lower half but channel 33.
LEMMA InhibitionsLow ==
    ASSUME NEW file, NEW c \in Low \ {33}
    PROVE  Within(Reg10(file), Down(c), 2)
               = IF c \in Active(file) THEN InhibitionBits(file.channel[c]) ELSE {}
  <1>. DEFINE T == Active(file) \cap (Low \ {33})
              bits == [d \in Low |-> InhibitionBits(file.channel[d])]
  <1>1. bits \in [Low -> SUBSET {0, 1}] /\ T \in SUBSET Low /\ c \in Low
    BY InhibitionTyped
  <1>2. Reg10(file) = Spread(T, Downs, bits)
    <2>1. \A d \in T : Shift(bits[d], Downs[d]) = Shift(InhibitionBits(file.channel[d]), At10(d))
      BY PlacesCounted DEF Downs
    <2>. QED
      BY <2>1 DEF Reg10, Spread
  <1>. HIDE DEF T, bits
  <1>3. Within(Spread(T, Downs, bits), Down(c), 2) = IF c \in T THEN bits[c] ELSE {}
    BY <1>1, SpreadDown
  <1>. QED
    BY <1>1, <1>2, <1>3 DEF T, bits

\* Register 11, the trigger inhibitions of the upper half.
LEMMA InhibitionsHigh ==
    ASSUME NEW file, NEW c \in High
    PROVE  Within(Reg11(file), Up(c), 2)
               = IF c \in Active(file) THEN InhibitionBits(file.channel[c]) ELSE {}
  <1>. DEFINE T == Active(file) \cap (High)
              bits == [d \in High |-> InhibitionBits(file.channel[d])]
  <1>1. bits \in [High -> SUBSET {0, 1}] /\ T \in SUBSET High /\ c \in High
    BY InhibitionTyped
  <1>2. Reg11(file) = Spread(T, Ups, bits)
    <2>1. \A d \in T : Shift(bits[d], Ups[d]) = Shift(InhibitionBits(file.channel[d]), At11(d))
      BY PlacesCounted DEF Ups
    <2>. QED
      BY <2>1 DEF Reg11, Spread
  <1>. HIDE DEF T, bits
  <1>3. Within(Spread(T, Ups, bits), Up(c), 2) = IF c \in T THEN bits[c] ELSE {}
    BY <1>1, SpreadUp
  <1>. QED
    BY <1>1, <1>2, <1>3 DEF T, bits

\* The values of these registers.
LEMMA ChannelRegisters ==
    ASSUME NEW f \in DOMAIN Files
    PROVE  /\ Value[f]["reg6"] = Reg6(FileOf[f]) /\ Value[f]["reg7"] = Reg7(FileOf[f])
           /\ Value[f]["reg10"] = Reg10(FileOf[f]) /\ Value[f]["reg11"] = Reg11(FileOf[f])
  <1>1. {"reg6", "reg7", "reg10", "reg11"} \subseteq Registers
    <2>1. Order[5] = "reg6" /\ Order[6] = "reg7" /\ Order[11] = "reg10" /\ Order[12] = "reg11"
      BY DEF Order
    <2>. QED
      BY <2>1, OrderTyped DEF Registers
  <1>2. Value[f] = Packed(FileOf[f])
    BY DEF Value
  <1>. HIDE DEF Registers
  <1>. QED
    BY <1>1, <1>2 DEF Packed

\* No bit is let pass but of reg2.
LEMMA SureRegister ==
    ASSUME CheckedRegistersHold, NEW reg \in Registers, reg # "reg2", Sure(reg)
    PROVE  chip[reg] = Value[loaded][reg]
  <1>1. Flipped(chip[reg], Value[loaded][reg]) = {}
    BY DEF CheckedRegistersHold, LetPass
  <1>. QED
    BY <1>1 DEF Flipped

\* A register that holds what the file was packed into has the bits of the channels.
LEMMA ChannelsFollow == TypeOK /\ CheckedRegistersHold => ChannelsReadBack
  <1> SUFFICES ASSUME TypeOK, CheckedRegistersHold PROVE ChannelsReadBack
    OBVIOUS
  <1>. DEFINE file == FileOf[loaded]
  <1>1. loaded \in DOMAIN Files
    BY DEF TypeOK
  <1>2. \A c \in Low \cup High : c \in Active(file) <=> file.channel[c].isActive
    BY DEF Active, Channels, Low, High
  <1>3. \A reg \in {"reg6", "reg7", "reg10", "reg11"} :
            reg \in Registers /\ (Sure(reg) => chip[reg] = Value[loaded][reg])
    <2>1. Order[5] = "reg6" /\ Order[6] = "reg7" /\ Order[11] = "reg10" /\ Order[12] = "reg11"
      BY DEF Order
    <2>2. {"reg6", "reg7", "reg10", "reg11"} \subseteq Registers
      BY <2>1, OrderTyped DEF Registers
    <2>. QED
      BY <2>2, SureRegister
  <1>4. ASSUME Sure("reg6"), NEW c \in Low
        PROVE  Within(chip["reg6"], Down(c), 2) = BitsIfActive(c, GainBits(file.channel[c]))
    BY <1>1, <1>2, <1>3, <1>4, ChannelRegisters, GainsLow DEF BitsIfActive
  <1>5. ASSUME Sure("reg7"), NEW c \in High
        PROVE  Within(chip["reg7"], Up(c), 2) = BitsIfActive(c, GainBits(file.channel[c]))
    BY <1>1, <1>2, <1>3, <1>5, ChannelRegisters, GainsHigh DEF BitsIfActive
  <1>6. ASSUME Sure("reg10"), NEW c \in Low \ {33}
        PROVE  Within(chip["reg10"], Down(c), 2) = BitsIfActive(c, InhibitionBits(file.channel[c]))
    BY <1>1, <1>2, <1>3, <1>6, ChannelRegisters, InhibitionsLow DEF BitsIfActive
  <1>7. ASSUME Sure("reg11"), NEW c \in High
        PROVE  Within(chip["reg11"], Up(c), 2) = BitsIfActive(c, InhibitionBits(file.channel[c]))
    BY <1>1, <1>2, <1>3, <1>7, ChannelRegisters, InhibitionsHigh DEF BitsIfActive
  <1>. QED
    BY <1>4, <1>5, <1>6, <1>7 DEF ChannelsReadBack

\* A checked chip has the gain and the trigger inhibition of every active channel
\* in bits of its own, at the place that counts the channels of its half without
\* the FPN channels (GetController.cpp:3168 to 3324), for all files.
THEOREM ChannelsAreReadBack == Spec => []ChannelsReadBack
  BY RegistersTyped, CheckedRegistersAreRight, ChannelsFollow, PTL

-------------------------------------------------------------------------------
(* The masks of the channels                                                   *)

ReadBy(file, filter) == {c \in Active(file) : file.channel[c].Reading = filter}

\* A mask has as many bits as it has channels, counted from its last channel.
LEMMA MaskCounted ==
    ASSUME NEW file, NEW filter, NEW first \in Int, NEW last \in Int
    PROVE  LET mask == getChannelReadingMask(file, first, last, filter)
               mine == ReadBy(file, filter) \cap first .. last
           IN  IsFiniteSet(mine) /\ Cardinality(mask) = Cardinality(mine)
  <1>. DEFINE mask == getChannelReadingMask(file, first, last, filter)
              mine == ReadBy(file, filter) \cap first .. last
              f == [c \in mine |-> last - c]
  <1>1. IsFiniteSet(mine)
    BY FS_Interval, FS_Intersection
  <1>2. mask = {last - c : c \in mine}
    BY DEF getChannelReadingMask, ReadBy
  <1>3. mine \subseteq Int
    OBVIOUS
  <1>. HIDE DEF mine, mask
  <1>4. f \in [mine -> mask] /\ (\A t \in mask : \E c \in mine : f[c] = t)
    BY <1>2
  <1>5. \A c, d \in mine : f[c] = f[d] => c = d
    BY <1>3
  <1>. HIDE DEF f
  <1>6. ExistsBijection(mine, mask)
    <2>1. f \in Injection(mine, mask)
      BY <1>4, <1>5 DEF Injection, IsInjective
    <2>2. f \in Surjection(mine, mask)
      BY <1>4 DEF Surjection
    <2>. QED
      BY <2>1, <2>2 DEF ExistsBijection, Bijection
  <1>7. Cardinality(mask) = Cardinality(mine)
    BY <1>1, <1>6, FS_Bijection
  <1>. QED
    BY <1>1, <1>7 DEF mine, mask

\* Two sets without a common element have as many as both together.
LEMMA DisjointUnion ==
    ASSUME NEW S, NEW T, IsFiniteSet(S), IsFiniteSet(T), S \cap T = {}
    PROVE  IsFiniteSet(S \cup T) /\ Cardinality(S \cup T) = Cardinality(S) + Cardinality(T)
  <1>1. Cardinality(S \cap T) = 0
    BY FS_EmptySet
  <1>2. Cardinality(S) \in Nat /\ Cardinality(T) \in Nat
    BY FS_CardinalityType
  <1>3. /\ IsFiniteSet(S \cup T)
        /\ Cardinality(S \cup T) = Cardinality(S) + Cardinality(T) - Cardinality(S \cap T)
    BY FS_Union
  <1>. QED
    BY <1>1, <1>2, <1>3

\* The three masks have the channels from 0 to 67 among them.
LEMMA MasksCounted ==
    ASSUME NEW file, NEW filter
    PROVE  Count(ReadMask(file, filter)) = Cardinality(ReadBy(file, filter))
  <1>. DEFINE A == ReadBy(file, filter) \cap 0 .. 3
              B == ReadBy(file, filter) \cap 4 .. 35
              C == ReadBy(file, filter) \cap 36 .. 67
  <1>1. IsFiniteSet(A)
        /\ Cardinality(getChannelReadingMask(file, 0, 3, filter)) = Cardinality(A)
    BY MaskCounted
  <1>2. IsFiniteSet(B)
        /\ Cardinality(getChannelReadingMask(file, 4, 35, filter)) = Cardinality(B)
    BY MaskCounted
  <1>3. IsFiniteSet(C)
        /\ Cardinality(getChannelReadingMask(file, 36, 67, filter)) = Cardinality(C)
    BY MaskCounted
  <1>4. ReadBy(file, filter) = (A \cup B) \cup C
    BY DEF ReadBy, Active, Channels
  <1>5. A \cap B = {} /\ (A \cup B) \cap C = {}
    OBVIOUS
  <1>6. Count(ReadMask(file, filter))
            = Cardinality(getChannelReadingMask(file, 0, 3, filter))
              + Cardinality(getChannelReadingMask(file, 4, 35, filter))
              + Cardinality(getChannelReadingMask(file, 36, 67, filter))
    BY DEF Count, ReadMask
  <1>. HIDE DEF A, B, C
  <1>7. IsFiniteSet(A \cup B) /\ Cardinality(A \cup B) = Cardinality(A) + Cardinality(B)
    BY <1>1, <1>2, <1>5, DisjointUnion
  <1>8. Cardinality((A \cup B) \cup C) = Cardinality(A \cup B) + Cardinality(C)
    BY <1>3, <1>5, <1>7, DisjointUnion
  <1>. QED
    BY <1>1, <1>2, <1>3, <1>4, <1>6, <1>7, <1>8

\* A channel is not in two masks, and a mask is a number of 32 bits.
LEMMA MasksApart ==
    ASSUME NEW file, NEW n \in 1 .. 3
    PROVE  /\ ReadMask(file, "always")[n] \cap ReadMask(file, "only_if_hit")[n] = {}
           /\ ReadMask(file, "always")[n] \subseteq 0 .. 31
  <1>1. ASSUME NEW first \in Nat, NEW last \in Nat, last <= first + 31
        PROVE  /\ getChannelReadingMask(file, first, last, "always")
                      \cap getChannelReadingMask(file, first, last, "only_if_hit") = {}
               /\ getChannelReadingMask(file, first, last, "always") \subseteq 0 .. 31
    BY <1>1 DEF getChannelReadingMask
  <1>2. CASE n = 1
    BY <1>1, <1>2 DEF ReadMask
  <1>3. CASE n = 2
    BY <1>1, <1>3 DEF ReadMask
  <1>4. CASE n = 3
    BY <1>1, <1>4 DEF ReadMask
  <1>. QED
    BY <1>2, <1>3, <1>4

MaskInv ==
    /\ DOMAIN cobo = {"always", "ifHit", "depth"}
    /\ outcome \in {"masks", "done"} =>
           /\ cobo.always = ReadMask(FileOf[loaded], "always")
           /\ cobo.ifHit = ReadMask(FileOf[loaded], "only_if_hit")

\* The masks are set by Masks only, and from the file in use.
LEMMA MaskStep == MaskInv /\ [Next]_vars => MaskInv'
  <1> SUFFICES ASSUME MaskInv, [Next]_vars PROVE MaskInv'
    OBVIOUS
  <1>1. CASE Write
    BY <1>1 DEF MaskInv, Write, Setting, DepthWith, Advance
  <1>2. CASE Check
    BY <1>2 DEF MaskInv, Check, Setting, ReadBack, DepthWith
  <1>3. CASE Masks
    BY <1>3 DEF MaskInv, Masks
  <1>4. CASE Finish
    BY <1>4 DEF MaskInv, Finish
  <1>5. CASE UNCHANGED vars
    BY <1>5 DEF MaskInv, vars
  <1>. QED
    BY <1>1, <1>2, <1>3, <1>4, <1>5 DEF Next

\* Every channel that is read has a bit of its own in one of the three masks
\* (GetController.cpp:1079 to 1101, 3345), for all files.
THEOREM MasksAreComplete == Spec => []MasksCoverTheChannels
  <1>1. Init => MaskInv
    BY DEF Init, Blank, MaskInv
  <1>2. MaskInv => MasksCoverTheChannels
    <2> SUFFICES ASSUME MaskInv, outcome \in {"masks", "done"}
                 PROVE  /\ Count(cobo.always) = Cardinality(ReadBy(FileOf[loaded], "always"))
                        /\ \A n \in 1 .. 3 : /\ cobo.always[n] \cap cobo.ifHit[n] = {}
                                             /\ cobo.always[n] \subseteq 0 .. 31
      BY DEF MasksCoverTheChannels, ReadBy
    <2>. QED
      BY MasksCounted, MasksApart DEF MaskInv
  <1>. QED
    BY <1>1, <1>2, MaskStep, PTL DEF Spec
=============================================================================
