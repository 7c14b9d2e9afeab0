-------------------------- MODULE EccClientProofs --------------------------
(***************************************************************************)
(* setCircularBuffers shares out the memory among the active AsAd boards   *)
(* (EccClient.cpp:1271), whichever they are and however large it is.       *)
(***************************************************************************)
EXTENDS EccClient, FiniteSetTheorems, SequenceTheorems, TLAPS

\* The active boards below board i.
Before(asads, i) == {j \in asads : j < i}

\* A CoBo has places for four boards.
LEMMA FourAsAds == IsFiniteSet(AsAds) /\ Cardinality(AsAds) = 4 /\ AsAds \subseteq Nat
  <1>. DEFINE m == 0
              n == 3
  <1>1. m \in Int /\ n \in Int /\ (IF m > n THEN 0 ELSE n - m + 1) = 4 /\ m .. n \subseteq Nat
    OBVIOUS
  <1>2. AsAds = m .. n
    BY DEF AsAds
  <1>. HIDE DEF m, n
  <1>. QED
    BY <1>1, <1>2, FS_Interval

\* A board is preceded by the boards before an earlier one, and by that one.
LEMMA BeforeGrows ==
    ASSUME NEW asads \in SUBSET AsAds, NEW i \in Nat, NEW j \in Nat, j < i
    PROVE  /\ Cardinality(Before(asads, j)) \in Nat /\ Cardinality(Before(asads, i)) \in Nat
           /\ Cardinality(Before(asads, j)) + (IF j \in asads THEN 1 ELSE 0)
                  <= Cardinality(Before(asads, i))
  <1>. DEFINE less == Before(asads, j)
              more == Before(asads, i)
  <1>1. IsFiniteSet(AsAds) /\ \A k \in asads : k \in Nat
    BY FourAsAds
  <1>2. IsFiniteSet(less) /\ IsFiniteSet(more)
    BY <1>1, FS_Subset DEF Before
  <1>3. \A k \in asads : k < j => k < i
    BY <1>1
  <1>4. CASE j \in asads
    <2>1. less \cup {j} \subseteq more /\ j \notin less
      <3>1. less \subseteq more
        BY <1>3 DEF Before
      <3>2. j \in more
        BY <1>4 DEF Before
      <3>3. ~(j < j)
        OBVIOUS
      <3>4. j \notin less
        BY <3>3 DEF Before
      <3>. QED
        BY <3>1, <3>2, <3>4
    <2>. HIDE DEF less, more
    <2>2. IsFiniteSet(less \cup {j}) /\ Cardinality(less \cup {j}) = Cardinality(less) + 1
      BY <1>2, <2>1, FS_AddElement
    <2>3. Cardinality(less \cup {j}) <= Cardinality(more)
      BY <1>2, <2>1, FS_Subset
    <2>4. Cardinality(less) \in Nat /\ Cardinality(more) \in Nat
      BY <1>2, FS_CardinalityType
    <2>. QED
      BY <1>4, <2>2, <2>3, <2>4 DEF less, more
  <1>5. CASE j \notin asads
    <2>1. less \subseteq more
      BY <1>3 DEF Before
    <2>. HIDE DEF less, more
    <2>2. Cardinality(less) <= Cardinality(more)
      BY <1>2, <2>1, FS_Subset
    <2>3. Cardinality(less) \in Nat /\ Cardinality(more) \in Nat
      BY <1>2, FS_CardinalityType
    <2>. QED
      BY <1>5, <2>2, <2>3 DEF less, more
  <1>. QED
    BY <1>4, <1>5

\* There are as many shares as active boards, or one more, and they fit.
LEMMA SharesFit ==
    ASSUME NEW asads \in SUBSET AsAds, asads # {}, NEW first \in Nat, NEW last \in Nat,
           first <= last
    PROVE  /\ Cardinality(asads) \in 1 .. 4 /\ Shares(asads) \in 1 .. 4
           /\ Cardinality(asads) <= Shares(asads)
           /\ BufferSize(asads, first, last) \in Nat
           /\ Shares(asads) * BufferSize(asads, first, last) <= last - first
           /\ last - first >= 4 => BufferSize(asads, first, last) > 0
  <1>1. IsFiniteSet(asads) /\ Cardinality(asads) <= 4
    BY FourAsAds, FS_Subset
  <1>2. Cardinality(asads) \in Nat /\ Cardinality(asads) # 0
    BY <1>1, FS_CardinalityType, FS_EmptySet
  <1>3. Cardinality(asads) \in 1 .. 4
    BY <1>1, <1>2
  <1>4. Shares(asads) \in 1 .. 4 /\ Cardinality(asads) <= Shares(asads)
    BY <1>3 DEF Shares
  <1>5. ASSUME NEW n \in 1 .. 4, NEW m \in Nat
        PROVE  m \div n \in Nat /\ n * (m \div n) <= m /\ (m >= 4 => m \div n > 0)
    <2>1. n = 1 \/ n = 2 \/ n = 3 \/ n = 4
      OBVIOUS
    <2>. QED
      BY <2>1
  <1>6. last - first \in Nat
    OBVIOUS
  <1>. QED
    BY <1>3, <1>4, <1>5, <1>6 DEF BufferSize

\* The buffers of the four boards lie in the memory one behind the other, and
\* with 4 MiB or more exactly those of active boards have room.
THEOREM BuffersAreApart ==
    ASSUME NEW asads \in SUBSET AsAds, asads # {}, NEW first \in Nat, NEW last \in Nat,
           first <= last, NEW i \in AsAds
    PROVE  /\ first <= BufferStart(asads, i, first, last)
           /\ BufferEnd(asads, i, first, last) <= last
           /\ \A j \in AsAds : j < i =>
                  BufferEnd(asads, j, first, last) <= BufferStart(asads, i, first, last)
           /\ last - first >= 4 =>
                  (BufferStart(asads, i, first, last) < BufferEnd(asads, i, first, last)
                       <=> i \in asads)
  <1>. DEFINE size == BufferSize(asads, first, last)
              rank(j) == Cardinality(Before(asads, j))
              room(j) == IF j \in asads THEN 1 ELSE 0
  <1>1. size \in Nat /\ Shares(asads) \in 1 .. 4 /\ Shares(asads) * size <= last - first
        /\ Cardinality(asads) <= Shares(asads) /\ (last - first >= 4 => size > 0)
    BY SharesFit
  <1>2. \A j \in AsAds : /\ BufferStart(asads, j, first, last) = first + rank(j) * size
                         /\ BufferEnd(asads, j, first, last) = first + rank(j) * size + room(j) * size
    <2>. SUFFICES ASSUME NEW j \in AsAds
                  PROVE  /\ BufferStart(asads, j, first, last) = first + rank(j) * size
                         /\ BufferEnd(asads, j, first, last)
                                = first + rank(j) * size + room(j) * size
      OBVIOUS
    <2>1. BufferStart(asads, j, first, last) = first + rank(j) * size
      BY DEF BufferStart, Before
    <2>2. room(j) * size = IF j \in asads THEN size ELSE 0
      BY <1>1
    <2>. QED
      BY <2>1, <2>2 DEF BufferEnd
  <1>3. \A j \in AsAds : rank(j) \in Nat /\ rank(j) + room(j) <= Shares(asads)
    <2>. SUFFICES ASSUME NEW j \in AsAds PROVE rank(j) \in Nat /\ rank(j) + room(j) <= Shares(asads)
      OBVIOUS
    <2>1. j \in Nat /\ j < 4 /\ Before(asads, 4) = asads
      <3>1. \A k \in AsAds : k \in Nat /\ k < 4
        BY DEF AsAds
      <3>. QED
        BY <3>1 DEF Before
    <2>2. rank(j) \in Nat /\ rank(j) + room(j) <= Cardinality(asads) /\ Cardinality(asads) \in Nat
      BY <2>1, BeforeGrows
    <2>. QED
      BY <1>1, <2>2
  <1>4. \A j \in AsAds : j < i => rank(j) + room(j) <= rank(i)
    BY BeforeGrows DEF AsAds
  <1>5. \A j \in AsAds : room(j) \in {0, 1} /\ (room(j) = 1 <=> j \in asads)
    OBVIOUS
  <1>. HIDE DEF size, rank, room
  <1>6. ASSUME NEW m \in 0 .. 4, NEW n \in 0 .. 4, m <= n
        PROVE  m * size \in Nat /\ m * size <= n * size
    <2>1. m \in {0, 1, 2, 3, 4} /\ n \in {0, 1, 2, 3, 4}
      OBVIOUS
    <2>. QED
      BY <1>1, <1>6, <2>1
  <1>7. ASSUME NEW j \in AsAds
        PROVE  /\ rank(j) \in 0 .. 4 /\ rank(j) + room(j) \in 0 .. 4
               /\ rank(j) * size + room(j) * size = (rank(j) + room(j)) * size
    <2>1. rank(j) \in 0 .. 4 /\ rank(j) + room(j) \in 0 .. 4
      BY <1>1, <1>3, <1>5
    <2>2. rank(j) \in {0, 1, 2, 3, 4} /\ room(j) \in {0, 1}
      BY <1>5, <2>1
    <2>. QED
      BY <1>1, <2>1, <2>2
  <1>8. first <= BufferStart(asads, i, first, last)
    BY <1>2, <1>6, <1>7
  <1>9. BufferEnd(asads, i, first, last) <= last
    <2>1. (rank(i) + room(i)) * size <= Shares(asads) * size
      BY <1>1, <1>3, <1>6, <1>7
    <2>2. (rank(i) + room(i)) * size \in Nat /\ Shares(asads) * size \in Nat
      BY <1>1, <1>6, <1>7
    <2>3. BufferEnd(asads, i, first, last) = first + (rank(i) + room(i)) * size
      <3>1. rank(i) * size \in Int /\ room(i) * size \in Int
        BY <1>1, <1>5, <1>6, <1>7
      <3>. QED
        BY <1>2, <1>7, <3>1
    <2>. QED
      BY <1>1, <2>1, <2>2, <2>3
  <1>10. ASSUME NEW j \in AsAds, j < i
         PROVE  BufferEnd(asads, j, first, last) <= BufferStart(asads, i, first, last)
    <2>1. (rank(j) + room(j)) * size <= rank(i) * size
      BY <1>4, <1>6, <1>7, <1>10
    <2>2. (rank(j) + room(j)) * size \in Nat /\ rank(i) * size \in Nat
      BY <1>6, <1>7
    <2>3. BufferEnd(asads, j, first, last) = first + (rank(j) + room(j)) * size
      <3>1. rank(j) * size \in Int /\ room(j) * size \in Int
        BY <1>1, <1>5, <1>6, <1>7
      <3>. QED
        BY <1>2, <1>7, <3>1
    <2>. QED
      BY <1>2, <2>1, <2>2, <2>3
  <1>11. ASSUME last - first >= 4
         PROVE  BufferStart(asads, i, first, last) < BufferEnd(asads, i, first, last)
                    <=> i \in asads
    <2>1. size > 0 /\ rank(i) * size \in Nat
      BY <1>1, <1>6, <1>7, <1>11
    <2>2. room(i) * size = IF i \in asads THEN size ELSE 0
      BY <1>1, <1>5
    <2>. QED
      BY <1>1, <1>2, <2>1, <2>2
  <1>. QED
    BY <1>8, <1>9, <1>10, <1>11

-------------------------------------------------------------------------------
(* How a program goes through its accesses                                     *)

\* The devices of a CoBo, and none.
AnyDevice == {"none", "ctrl", "asad", "aget"} \cup {ZeroSuppress(i) : i \in AsAds}

\* The operations, and what the arguments of the selections are.
Suits(op, arg) ==
    /\ op \in {"node", "removeAll", "device", "describe", "router", "initDone", "daqStart", "daqStop",
              "startPulser", "stopPulser", "select", "enable", "pulse", "hitRegister", "fire",
              "asad", "chip", "mask", "powerOn", "powerOff", "buffer", "write", "field", "read",
              "check", "jump", "throw"}
    /\ op = "device" => arg \in AnyDevice
    /\ op = "select" => arg \subseteq AsAds
    /\ op \in {"powerOn", "powerOff", "asad"} => arg \in AsAds
    /\ op \in {"enable", "pulse"} => arg \subseteq Chips
    /\ op \in {"chip", "mask"} => arg \in Chips
Typed(a) ==
    /\ Suits(a.op, a.arg)
    /\ a = [op |-> a.op, dev |-> a.dev, arg |-> a.arg, rest |-> a.rest,
            cobo |-> a.cobo, board |-> a.board, chip |-> a.chip]

\* The access that follows access a, done or failed while d was the current
\* device, may be the one n accesses later, with e as the device.
Move(a, n, d, e) ==
    \/ a.op = "jump" /\ n = 1 + a.arg /\ e = d
    \/ a.op # "jump" /\ a.rest # Raise /\ n = a.rest /\ e = d
    \/ a.op = "device" /\ n = 1 /\ e = a.arg
    \/ a.op = "check" /\ a.arg.wrong # Raise /\ n = a.arg.wrong /\ e = d
    \/ a.op \in {"node", "removeAll"} /\ n = 1 /\ e = "none"
    \/ a.op \notin {"jump", "throw", "device", "node", "removeAll"} /\ n = 1 /\ e = d

\* The course of a program depends on these fields of an access.
Alike(a, b) == a.op = b.op /\ a.dev = b.dev /\ a.arg = b.arg

OfNode(a) == a.op \in {"node", "removeAll"}
OfRegister(a) == a.dev \notin {"none", "server", "node"}
Raises(a) == a.op # "jump" /\ a.rest = Raise

\* Sequences of any elements.
IsSeq(s) == s \in Seq({s[k] : k \in DOMAIN s})

\* devs has the devices that may be the current one at each access of s, and
\* behind its end: they are those of the registers that are accessed.  No
\* access leads out of s, and an error that is not caught leaves one of X.
Follows(s, k, devs, X) ==
    /\ Typed(s[k])
    /\ OfRegister(s[k]) => devs[k] \subseteq {s[k].dev}
    /\ Raises(s[k]) => devs[k] \subseteq X
    /\ \A n, d, e : d \in devs[k] /\ Move(s[k], n, d, e)
           => n \in 1 .. (Len(s) + 1 - k) /\ e \in devs[k + n]
Flows(s, devs, X) ==
    /\ devs \in [1 .. (Len(s) + 1) -> SUBSET AnyDevice]
    /\ \A k \in 1 .. Len(s) : Follows(s, k, devs, X)

\* A part of a routine that finds its devices when it starts with one of D and
\* ends with one of E; it connects to no other node.
Leads(s, D, E, X) ==
    /\ IsSeq(s) /\ \A k \in 1 .. Len(s) : ~OfNode(s[k])
    /\ \E devs : Flows(s, devs, X) /\ D \subseteq devs[1] /\ devs[Len(s) + 1] \subseteq E

\* The elements of a concatenation.
LEMMA Concatenated ==
    ASSUME NEW s, NEW t, IsSeq(s), IsSeq(t)
    PROVE  /\ IsSeq(s \o t) /\ Len(s) \in Nat /\ Len(t) \in Nat /\ Len(s \o t) = Len(s) + Len(t)
           /\ \A k \in 1 .. Len(s) : (s \o t)[k] = s[k]
           /\ \A k \in 1 .. Len(t) : (s \o t)[Len(s) + k] = t[k]
           /\ DOMAIN s = 1 .. Len(s) /\ DOMAIN (s \o t) = 1 .. (Len(s) + Len(t))
  <1>. DEFINE S == {s[k] : k \in DOMAIN s}
              T == {t[k] : k \in DOMAIN t}
              u == s \o t
  <1>1. s \in Seq(S \cup T) /\ t \in Seq(S \cup T)
    <2>1. s \in Seq(S) /\ t \in Seq(T) /\ S \subseteq S \cup T /\ T \subseteq S \cup T
      BY DEF IsSeq
    <2>. HIDE DEF S, T
    <2>. QED
      BY <2>1, SeqMonotonic
  <1>. HIDE DEF S, T
  <1>2. u \in Seq(S \cup T) /\ Len(u) = Len(s) + Len(t)
        /\ \A k \in 1 .. (Len(s) + Len(t)) : u[k] = IF k <= Len(s) THEN s[k] ELSE t[k - Len(s)]
    BY <1>1, ConcatProperties
  <1>3. Len(s) \in Nat /\ Len(t) \in Nat /\ DOMAIN s = 1 .. Len(s)
        /\ DOMAIN u = 1 .. (Len(s) + Len(t)) /\ u \in [1 .. (Len(s) + Len(t)) -> S \cup T]
    BY <1>1, <1>2, LenProperties
  <1>. HIDE DEF u
  <1>4. \A k \in 1 .. Len(s) : u[k] = s[k]
    BY <1>2, <1>3
  <1>5. ASSUME NEW k \in 1 .. Len(t) PROVE u[Len(s) + k] = t[k]
    <2>1. Len(s) + k \in 1 .. (Len(s) + Len(t)) /\ ~(Len(s) + k <= Len(s))
          /\ Len(s) + k - Len(s) = k
      BY <1>3
    <2>. QED
      BY <1>2, <2>1
  <1>6. IsSeq(u)
    <2>1. u \in Seq({u[k] : k \in DOMAIN u})
      BY <1>3
    <2>. QED
      BY <2>1 DEF IsSeq
  <1>. QED
    BY <1>2, <1>3, <1>4, <1>5, <1>6 DEF u


\* A part may be entered with fewer devices and left with more.
LEMMA Weaker ==
    ASSUME NEW s, NEW D, NEW E, NEW X, Leads(s, D, E, X),
           NEW D1 \in SUBSET D, NEW E1, E \subseteq E1, NEW X1, X \subseteq X1
    PROVE  Leads(s, D1, E1, X1)
  <1>1. PICK devs : Flows(s, devs, X) /\ D \subseteq devs[1] /\ devs[Len(s) + 1] \subseteq E
    BY DEF Leads
  <1>2. Flows(s, devs, X1)
    BY <1>1 DEF Flows, Follows
  <1>. QED
    BY <1>1, <1>2 DEF Leads

\* What holds of the accesses of two parts holds of both together.
LEMMA Elements ==
    ASSUME NEW s, NEW t, IsSeq(s), IsSeq(t)
    PROVE  \A k \in 1 .. Len(s \o t) :
               \/ k \in 1 .. Len(s) /\ (s \o t)[k] = s[k]
               \/ k - Len(s) \in 1 .. Len(t) /\ (s \o t)[k] = t[k - Len(s)]
  <1>. DEFINE u == s \o t
  <1>1. /\ Len(s) \in Nat /\ Len(t) \in Nat /\ Len(u) = Len(s) + Len(t)
        /\ \A k \in 1 .. Len(s) : u[k] = s[k]
        /\ \A k \in 1 .. Len(t) : u[Len(s) + k] = t[k]
    BY Concatenated
  <1>. HIDE DEF u
  <1>2. ASSUME NEW k \in 1 .. Len(u), k \notin 1 .. Len(s)
        PROVE  k - Len(s) \in 1 .. Len(t) /\ u[k] = t[k - Len(s)]
    <2>1. PICK i : i = k - Len(s)
      OBVIOUS
    <2>2. i \in 1 .. Len(t) /\ Len(s) + i = k
      BY <1>1, <1>2, <2>1
    <2>. QED
      BY <1>1, <2>1, <2>2
  <1>3. ASSUME NEW k \in 1 .. Len(u)
        PROVE  \/ k \in 1 .. Len(s) /\ u[k] = s[k]
               \/ k - Len(s) \in 1 .. Len(t) /\ u[k] = t[k - Len(s)]
    BY <1>1, <1>2
  <1>. QED
    BY <1>3 DEF u

\* The courses of one part and of another one behind it.
LEMMA Joined ==
    ASSUME NEW s, NEW t, IsSeq(s), IsSeq(t), NEW X, NEW ds, NEW dt,
           Flows(s, ds, X), Flows(t, dt, X), ds[Len(s) + 1] \subseteq dt[1]
    PROVE  \E devs : /\ Flows(s \o t, devs, X) /\ ds[1] \subseteq devs[1]
                     /\ devs[Len(s \o t) + 1] = dt[Len(t) + 1]
                     /\ \A k \in 1 .. Len(s) : devs[k] = ds[k]
                     /\ \A k \in 1 .. (Len(t) + 1) : devs[Len(s) + k] = dt[k]
  <1>. DEFINE u == s \o t
              m == Len(s)
              n == Len(t)
              devs == [k \in 1 .. (m + n + 1) |-> IF k <= m THEN ds[k] ELSE dt[k - m]]
  <1>3. /\ IsSeq(u) /\ m \in Nat /\ n \in Nat /\ Len(u) = m + n
        /\ \A k \in 1 .. m : u[k] = s[k]
        /\ \A k \in 1 .. n : u[m + k] = t[k]
    BY Concatenated
  <1>4. /\ ds \in [1 .. (m + 1) -> SUBSET AnyDevice] /\ dt \in [1 .. (n + 1) -> SUBSET AnyDevice]
        /\ \A k \in 1 .. m : Follows(s, k, ds, X)
        /\ \A k \in 1 .. n : Follows(t, k, dt, X)
    BY DEF Flows
  <1>. HIDE DEF u, m, n
  <1>5. ASSUME NEW k \in 1 .. (m + 1) PROVE devs[k] \in SUBSET AnyDevice /\ ds[k] \subseteq devs[k]
    <2>1. CASE k <= m
      BY <1>3, <1>4, <2>1
    <2>2. CASE k = m + 1
      <3>1. devs[k] = dt[1] /\ dt[1] \in SUBSET AnyDevice
        BY <1>3, <1>4, <2>2
      <3>. QED
        BY <2>2, <3>1 DEF m
    <2>. QED
      BY <1>3, <2>1, <2>2
  <1>6. \A k \in 1 .. m : devs[k] = ds[k]
    BY <1>3
  <1>7. ASSUME NEW k \in 1 .. (n + 1) PROVE devs[m + k] = dt[k]
    <2>1. PICK i : i = m + k
      OBVIOUS
    <2>2. i \in 1 .. (m + n + 1) /\ ~(i <= m) /\ i - m = k
      BY <1>3, <2>1
    <2>3. devs[i] = dt[i - m]
      BY <2>2
    <2>. QED
      BY <2>1, <2>2, <2>3
  <1>8. devs \in [1 .. (m + n + 1) -> SUBSET AnyDevice]
    <2>1. \A k \in 1 .. (m + n + 1) : IF k <= m THEN k \in 1 .. (m + 1) ELSE k - m \in 1 .. (n + 1)
      BY <1>3
    <2>. QED
      BY <1>4, <2>1
  <1>. HIDE DEF devs
  <1>9. ASSUME NEW k \in 1 .. m PROVE Follows(u, k, devs, X) 
    <2>1. u[k] = s[k] /\ devs[k] = ds[k] /\ Follows(s, k, ds, X)
      BY <1>3, <1>4, <1>6
    <2>2. ASSUME NEW i, NEW d \in devs[k], NEW e, Move(u[k], i, d, e)
          PROVE  i \in 1 .. (Len(u) + 1 - k) /\ e \in devs[k + i]
      <3>1. i \in 1 .. (m + 1 - k) /\ e \in ds[k + i]
        BY <2>1, <2>2 DEF Follows, m
      <3>2. k + i \in 1 .. (m + 1) /\ i \in 1 .. (m + n + 1 - k)
        BY <1>3, <3>1
      <3>. QED
        BY <1>3, <1>5, <3>1, <3>2
    <2>. QED
      BY <2>1, <2>2 DEF Follows
  <1>10. ASSUME NEW k \in 1 .. n PROVE Follows(u, m + k, devs, X) 
    <2>1. u[m + k] = t[k] /\ devs[m + k] = dt[k] /\ Follows(t, k, dt, X)
      BY <1>3, <1>4, <1>7
    <2>2. ASSUME NEW i, NEW d \in devs[m + k], NEW e, Move(u[m + k], i, d, e)
          PROVE  i \in 1 .. (Len(u) + 1 - (m + k)) /\ e \in devs[m + k + i]
      <3>1. i \in 1 .. (n + 1 - k) /\ e \in dt[k + i]
        BY <2>1, <2>2 DEF Follows, n
      <3>2. k + i \in 1 .. (n + 1) /\ i \in 1 .. (m + n + 1 - (m + k)) /\ m + k + i = m + (k + i)
        BY <1>3, <3>1
      <3>. QED
        BY <1>3, <1>7, <3>1, <3>2
    <2>. QED
      BY <2>1, <2>2 DEF Follows
  <1>11. \A k \in 1 .. (m + n) : k \in 1 .. m \/ \E i \in 1 .. n : k = m + i
    <2>. SUFFICES ASSUME NEW k \in 1 .. (m + n), k \notin 1 .. m PROVE \E i \in 1 .. n : k = m + i
      OBVIOUS
    <2>1. k - m \in 1 .. n /\ k = m + (k - m)
      BY <1>3
    <2>. QED
      BY <2>1
  <1>12. \A k \in 1 .. Len(u) : Follows(u, k, devs, X)
    BY <1>3, <1>9, <1>10, <1>11
  <1>13. Flows(u, devs, X)
    BY <1>3, <1>8, <1>12 DEF Flows
  <1>14. ds[1] \subseteq devs[1] /\ devs[Len(u) + 1] = dt[n + 1]
    <2>1. 1 \in 1 .. (m + 1) /\ n + 1 \in 1 .. (n + 1) /\ m + n + 1 = m + (n + 1)
      BY <1>3
    <2>. QED
      BY <1>3, <1>5, <1>7, <2>1
  <1>. QED
    BY <1>6, <1>7, <1>13, <1>14 DEF u, m, n

\* One part after another one.
LEMMA Then ==
    ASSUME NEW s, NEW t, NEW D, NEW E, NEW F, NEW X, Leads(s, D, E, X), Leads(t, E, F, X)
    PROVE  Leads(s \o t, D, F, X)
  <1>1. PICK ds : Flows(s, ds, X) /\ D \subseteq ds[1] /\ ds[Len(s) + 1] \subseteq E
    BY DEF Leads
  <1>2. PICK dt : Flows(t, dt, X) /\ E \subseteq dt[1] /\ dt[Len(t) + 1] \subseteq F
    BY DEF Leads
  <1>3. IsSeq(s) /\ IsSeq(t)
    BY DEF Leads
  <1>4. PICK devs : /\ Flows(s \o t, devs, X) /\ ds[1] \subseteq devs[1]
                    /\ devs[Len(s \o t) + 1] = dt[Len(t) + 1]
    BY <1>1, <1>2, <1>3, Joined
  <1>5. IsSeq(s \o t) /\ \A k \in 1 .. Len(s \o t) : ~OfNode((s \o t)[k])
    BY <1>3, Concatenated, Elements DEF Leads
  <1>. QED
    BY <1>1, <1>2, <1>4, <1>5 DEF Leads

\* Nothing.
LEMMA Nothing ==
    ASSUME NEW D \in SUBSET AnyDevice, NEW X PROVE Leads(<< >>, D, D, X)
  <1>. DEFINE devs == [k \in 1 .. 1 |-> D]
  <1>1. Len(<< >>) = 0 /\ IsSeq(<< >>)
    BY DEF IsSeq
  <1>2. Flows(<< >>, devs, X) /\ devs[1] = D
    BY <1>1 DEF Flows
  <1>. QED
    BY <1>1, <1>2 DEF Leads


\* A part of one access.
LEMMA Single ==
    ASSUME NEW s, NEW D \in SUBSET AnyDevice, NEW E \in SUBSET AnyDevice, NEW X,
           IsSeq(s), Len(s) = 1, ~OfNode(s[1]), Typed(s[1]),
           OfRegister(s[1]) => D \subseteq {s[1].dev}, Raises(s[1]) => D \subseteq X,
           \A n, d, e : d \in D /\ Move(s[1], n, d, e) => n = 1 /\ e \in E
    PROVE  Leads(s, D, E, X)
  <1>. DEFINE devs == [k \in 1 .. 2 |-> IF k = 1 THEN D ELSE E]
  <1>1. devs \in [1 .. 2 -> SUBSET AnyDevice] /\ devs[1] = D /\ devs[2] = E
    OBVIOUS
  <1>. HIDE DEF devs
  <1>2. Follows(s, 1, devs, X)
    BY <1>1 DEF Follows
  <1>3. Flows(s, devs, X)
    BY <1>1, <1>2 DEF Flows
  <1>. QED
    BY <1>1, <1>3 DEF Leads

\* An access that neither connects to a device nor jumps.
LEMMA OneAccess ==
    ASSUME NEW op, NEW dev, NEW arg, NEW D \in SUBSET AnyDevice,
           NEW E \in SUBSET AnyDevice, NEW X,
           op \notin {"node", "removeAll", "jump", "check", "device", "throw"},
           Suits(op, arg),
           D \subseteq E, D \subseteq X,
           dev \in {"none", "server", "node"} \/ D \subseteq {dev}
    PROVE  Leads(Access(op, dev, arg), D, E, X)
  <1>. DEFINE s == Access(op, dev, arg)
              a == s[1]
  <1>1. Len(s) = 1 /\ IsSeq(s)
    BY DEF Access, IsSeq
  <1>2. a.op = op /\ a.dev = dev /\ a.arg = arg /\ a.rest = Raise /\ Typed(a)
    BY DEF Access, Typed
  <1>. HIDE DEF s
  <1>3. ~OfNode(a) /\ Typed(a) /\ (OfRegister(a) => D \subseteq {a.dev})
    BY <1>2 DEF OfNode, OfRegister
  <1>4. \A n, d, e : Move(a, n, d, e) => n = 1 /\ e = d
    BY <1>2 DEF Move
  <1>. QED
    BY <1>1, <1>3, <1>4, Single DEF s

\* The connection to a device.
LEMMA DeviceLeads ==
    ASSUME NEW d \in AnyDevice, NEW D \in SUBSET AnyDevice, NEW X, D \subseteq X
    PROVE  Leads(Device(d), D, {d}, X)
  <1>. DEFINE s == Device(d)
              a == s[1]
  <1>1. Len(s) = 1 /\ IsSeq(s)
    BY DEF Device, Access, IsSeq
  <1>2. a.op = "device" /\ a.dev = "node" /\ a.arg = d /\ a.rest = Raise /\ Typed(a)
    BY DEF Device, Access, Typed, Suits
  <1>. HIDE DEF s
  <1>3. ~OfNode(a) /\ Typed(a) /\ ~OfRegister(a)
    BY <1>2 DEF OfNode, OfRegister
  <1>4. \A n, c, e : Move(a, n, c, e) => n = 1 /\ e = d
    BY <1>2 DEF Move
  <1>5. {d} \in SUBSET AnyDevice
    BY DEF AnyDevice
  <1>. QED
    BY <1>1, <1>3, <1>4, <1>5, Single DEF s

\* An error of the client itself: nothing follows.
LEMMA ThrowLeads ==
    ASSUME NEW D \in SUBSET AnyDevice, NEW E \in SUBSET AnyDevice, NEW X, D \subseteq X
    PROVE  Leads(Throw, D, E, X)
  <1>. DEFINE s == Throw
              a == s[1]
  <1>1. Len(s) = 1 /\ IsSeq(s)
    BY DEF Throw, Access, IsSeq
  <1>2. a.op = "throw" /\ a.dev = "none" /\ a.rest = Raise /\ Typed(a)
    BY DEF Throw, Access, Typed, Suits
  <1>. HIDE DEF s
  <1>3. ~OfNode(a) /\ Typed(a) /\ ~OfRegister(a)
    BY <1>2 DEF OfNode, OfRegister
  <1>4. \A n, c, e : ~Move(a, n, c, e)
    BY <1>2 DEF Move
  <1>. QED
    BY <1>1, <1>3, <1>4, Single DEF s

\* What a part is meant for does not matter.
LEMMA SameCourse ==
    ASSUME NEW s, NEW t, NEW D, NEW E, NEW X, Leads(s, D, E, X), IsSeq(t), Len(t) = Len(s),
           \A k \in 1 .. Len(s) :
               Typed(t[k]) /\ Alike(t[k], s[k]) /\ t[k].rest = s[k].rest
    PROVE  Leads(t, D, E, X)
  <1>1. PICK devs : Flows(s, devs, X) /\ D \subseteq devs[1] /\ devs[Len(s) + 1] \subseteq E
    BY DEF Leads
  <1>2. ASSUME NEW k \in 1 .. Len(s) PROVE Follows(t, k, devs, X) /\ ~OfNode(t[k])
    <2>1. Follows(s, k, devs, X) /\ ~OfNode(s[k])
      BY <1>1 DEF Flows, Leads
    <2>2. \A n, d, e : Move(t[k], n, d, e) => Move(s[k], n, d, e)
      BY DEF Move, Alike
    <2>. QED
      BY <2>1, <2>2 DEF Follows, OfRegister, Raises, OfNode, Alike
  <1>3. Flows(t, devs, X)
    BY <1>1, <1>2 DEF Flows
  <1>. QED
    BY <1>1, <1>2, <1>3 DEF Leads


\* The functions that go over a sequence.
LEMMA Elementwise ==
    ASSUME NEW s, IsSeq(s), NEW f, DOMAIN f = DOMAIN s,
           f = [k \in DOMAIN s |-> f[k]]
    PROVE  IsSeq(f) /\ Len(f) = Len(s) /\ Len(s) \in Nat /\ DOMAIN s = 1 .. Len(s)
  <1>1. s \in Seq({s[k] : k \in DOMAIN s})
    BY DEF IsSeq
  <1>2. Len(s) \in Nat /\ DOMAIN s = 1 .. Len(s)
    BY <1>1, LenProperties
  <1>. DEFINE S == {f[k] : k \in DOMAIN f}
  <1>3. f \in [1 .. Len(s) -> S]
    BY <1>2
  <1>4. f \in Seq(S) /\ Len(f) = Len(s)
    BY <1>2, <1>3
  <1>. QED
    BY <1>2, <1>4 DEF IsSeq

\* The other fields of an access do not matter.
LEMMA Relabelled ==
    ASSUME NEW a, Typed(a), NEW c, NEW b,
           b = [a EXCEPT !.cobo = c] \/ b = [a EXCEPT !.board = c] \/ b = [a EXCEPT !.chip = c]
    PROVE  Typed(b) /\ Alike(b, a) /\ b.rest = a.rest
  <1>1. PICK op, dev, arg, rest, cobo, board, chip :
            a = [op |-> op, dev |-> dev, arg |-> arg, rest |-> rest, cobo |-> cobo,
                 board |-> board, chip |-> chip]
    BY DEF Typed
  <1>2. Suits(op, arg)
    BY <1>1 DEF Typed
  <1>3. CASE b = [a EXCEPT !.cobo = c]
    <2>1. b = [op |-> op, dev |-> dev, arg |-> arg, rest |-> rest, cobo |-> c,
               board |-> board, chip |-> chip]
      BY <1>1, <1>3
    <2>. QED
      BY <1>1, <1>2, <2>1 DEF Typed, Alike
  <1>4. CASE b = [a EXCEPT !.board = c]
    <2>1. b = [op |-> op, dev |-> dev, arg |-> arg, rest |-> rest, cobo |-> cobo,
               board |-> c, chip |-> chip]
      BY <1>1, <1>4
    <2>. QED
      BY <1>1, <1>2, <2>1 DEF Typed, Alike
  <1>5. CASE b = [a EXCEPT !.chip = c]
    <2>1. b = [op |-> op, dev |-> dev, arg |-> arg, rest |-> rest, cobo |-> cobo,
               board |-> board, chip |-> c]
      BY <1>1, <1>5
    <2>. QED
      BY <1>1, <1>2, <2>1 DEF Typed, Alike
  <1>. QED
    BY <1>3, <1>4, <1>5

\* Where an access goes on after an error does not change what it is.
LEMMA Redirected ==
    ASSUME NEW a, Typed(a), NEW r, NEW b, b = [a EXCEPT !.rest = r]
    PROVE  Typed(b) /\ Alike(b, a) /\ b.rest = r
  <1>1. PICK op, dev, arg, rest, cobo, board, chip :
            a = [op |-> op, dev |-> dev, arg |-> arg, rest |-> rest, cobo |-> cobo,
                 board |-> board, chip |-> chip]
    BY DEF Typed
  <1>2. Suits(op, arg)
    BY <1>1 DEF Typed
  <1>3. b = [op |-> op, dev |-> dev, arg |-> arg, rest |-> r, cobo |-> cobo,
             board |-> board, chip |-> chip]
    BY <1>1
  <1>. QED
    BY <1>1, <1>2, <1>3 DEF Typed, Alike

\* Meant for a CoBo, a board or a chip.
LEMMA OnLeads ==
    ASSUME NEW s, NEW D, NEW E, NEW X, Leads(s, D, E, X), NEW c
    PROVE  Leads(On(c, s), D, E, X) /\ Leads(OnBoard(c, s), D, E, X) /\ Leads(OnChip(c, s), D, E, X)
  <1>1. IsSeq(s) /\ \A k \in 1 .. Len(s) : Typed(s[k])
    BY DEF Leads, Flows, Follows
  <1>2. DOMAIN s = 1 .. Len(s)
    BY <1>1, LenProperties DEF IsSeq
  <1>3. ASSUME NEW k \in 1 .. Len(s), NEW b \in {On(c, s)[k], OnBoard(c, s)[k], OnChip(c, s)[k]}
        PROVE  Typed(b) /\ Alike(b, s[k]) /\ b.rest = s[k].rest
    <2>1. PICK a : a = s[k]
      OBVIOUS
    <2>2. /\ Typed(a)
          /\ b = [a EXCEPT !.cobo = c] \/ b = [a EXCEPT !.board = c] \/ b = [a EXCEPT !.chip = c]
      BY <1>1, <1>2, <2>1 DEF On, OnBoard, OnChip
    <2>3. Typed(b) /\ Alike(b, a) /\ b.rest = a.rest
      BY <2>2, Relabelled
    <2>. QED
      BY <2>1, <2>3
  <1>4. /\ IsSeq(On(c, s)) /\ Len(On(c, s)) = Len(s)
        /\ IsSeq(OnBoard(c, s)) /\ Len(OnBoard(c, s)) = Len(s)
        /\ IsSeq(OnChip(c, s)) /\ Len(OnChip(c, s)) = Len(s)
    BY <1>1, Elementwise DEF On, OnBoard, OnChip
  <1>6. Leads(On(c, s), D, E, X)
    BY <1>3, <1>4, SameCourse
  <1>7. Leads(OnBoard(c, s), D, E, X)
    BY <1>3, <1>4, SameCourse
  <1>8. Leads(OnChip(c, s), D, E, X)
    BY <1>3, <1>4, SameCourse
  <1>. QED
    BY <1>6, <1>7, <1>8

\* An error in s goes on z accesses behind s.
LEMMA ErrorsCaught ==
    ASSUME NEW s, IsSeq(s), \A k \in 1 .. Len(s) : Typed(s[k]), NEW z \in Nat
    PROVE  /\ IsSeq(OnError(s, z)) /\ Len(OnError(s, z)) = Len(s) /\ Len(s) \in Nat
           /\ \A k \in 1 .. Len(s) :
                  /\ Typed(OnError(s, z)[k]) /\ Alike(OnError(s, z)[k], s[k])
                  /\ ~Raises(OnError(s, z)[k])
                  /\ \A n, d, e : Move(OnError(s, z)[k], n, d, e) =>
                         \/ Move(s[k], n, d, e)
                         \/ Raises(s[k]) /\ n = Len(s) - k + 1 + z /\ e = d
  <1>1. DOMAIN s = 1 .. Len(s) /\ Len(s) \in Nat
    BY LenProperties DEF IsSeq
  <1>2. IsSeq(OnError(s, z)) /\ Len(OnError(s, z)) = Len(s)
    BY Elementwise DEF OnError
  <1>3. ASSUME NEW k \in 1 .. Len(s)
        PROVE  /\ Typed(OnError(s, z)[k]) /\ Alike(OnError(s, z)[k], s[k])
               /\ ~Raises(OnError(s, z)[k])
               /\ \A n, d, e : Move(OnError(s, z)[k], n, d, e) =>
                      \/ Move(s[k], n, d, e)
                      \/ Raises(s[k]) /\ n = Len(s) - k + 1 + z /\ e = d
    <2>1. PICK r : r = Len(s) - k + 1 + z
      OBVIOUS
    <2>2. r # Raise
      BY <1>1, <2>1 DEF Raise
    <2>3. OnError(s, z)[k] = IF s[k].rest = Raise THEN [s[k] EXCEPT !.rest = r] ELSE s[k]
      BY <1>1, <2>1 DEF OnError
    <2>4. CASE s[k].rest # Raise
      BY <2>3, <2>4 DEF Raises, Alike
    <2>5. CASE s[k].rest = Raise
      <3>1. PICK b : b = OnError(s, z)[k]
        OBVIOUS
      <3>2. Typed(b) /\ Alike(b, s[k]) /\ b.rest = r
        <4>1. PICK a : a = s[k]
          OBVIOUS
        <4>2. Typed(a) /\ b = [a EXCEPT !.rest = r]
          BY <2>3, <2>5, <3>1, <4>1
        <4>3. Typed(b) /\ Alike(b, a) /\ b.rest = r
          BY <4>2, Redirected
        <4>. QED
          BY <4>1, <4>2, <4>3
      <3>3. \A n, d, e : Move(b, n, d, e) =>
                Move(s[k], n, d, e) \/ (Raises(s[k]) /\ n = r /\ e = d)
        BY <2>5, <3>2 DEF Move, Raises, Alike
      <3>. QED
        BY <2>1, <2>2, <3>1, <3>2, <3>3 DEF Raises
    <2>. QED
      BY <2>4, <2>5
  <1>. QED
    BY <1>1, <1>2, <1>3


\* A block whose errors leave out the part h behind it.
LEMMA ReturnLeads ==
    ASSUME NEW s, NEW h, NEW D, NEW E, NEW X, NEW F \in SUBSET AnyDevice, NEW Y,
           Leads(s, D, E, X), Leads(h, E, F, Y), X \subseteq F
    PROVE  Leads(OnError(s, Len(h)) \o h, D, F, Y)
  <1>1. PICK ds : Flows(s, ds, X) /\ D \subseteq ds[1] /\ ds[Len(s) + 1] \subseteq E
    BY DEF Leads
  <1>2. PICK dh : Flows(h, dh, Y) /\ E \subseteq dh[1] /\ dh[Len(h) + 1] \subseteq F
    BY DEF Leads
  <1>. DEFINE m == Len(s)
              n == Len(h)
              g == OnError(s, n)
              u == g \o h
              devs == [k \in 1 .. (m + n + 1) |-> IF k <= m THEN ds[k]
                                                  ELSE IF k <= m + n THEN dh[k - m] ELSE F]
  <1>3. /\ IsSeq(s) /\ IsSeq(h) /\ \A k \in 1 .. m : ~OfNode(s[k])
        /\ \A k \in 1 .. n : ~OfNode(h[k])
    BY DEF Leads
  <1>4. /\ ds \in [1 .. (m + 1) -> SUBSET AnyDevice] /\ dh \in [1 .. (n + 1) -> SUBSET AnyDevice]
        /\ \A k \in 1 .. m : Follows(s, k, ds, X)
        /\ \A k \in 1 .. n : Follows(h, k, dh, Y)
    BY <1>1, <1>2 DEF Flows
  <1>5. m \in Nat /\ n \in Nat
    BY <1>3, LenProperties DEF IsSeq
  <1>6. /\ IsSeq(g) /\ Len(g) = m
        /\ \A k \in 1 .. m :
               /\ Typed(g[k]) /\ Alike(g[k], s[k]) /\ ~Raises(g[k])
               /\ \A i, d, e : Move(g[k], i, d, e) =>
                      Move(s[k], i, d, e) \/ (Raises(s[k]) /\ i = m - k + 1 + n /\ e = d)
    <2>. HIDE DEF n
    <2>1. \A k \in 1 .. Len(s) : Typed(s[k])
      BY <1>4 DEF Follows
    <2>. QED
      BY <1>3, <1>5, <2>1, ErrorsCaught
  <1>7. /\ IsSeq(u) /\ Len(u) = m + n /\ \A k \in 1 .. m : u[k] = g[k]
        /\ \A k \in 1 .. n : u[m + k] = h[k]
    <2>. HIDE DEF g
    <2>. QED
      BY <1>3, <1>6, Concatenated
  <1>. HIDE DEF u, g, m, n
  <1>8. \A k \in 1 .. m : devs[k] = ds[k]
    BY <1>5
  <1>9. ASSUME NEW k \in 1 .. n PROVE devs[m + k] = dh[k]
    <2>1. PICK i : i = m + k
      OBVIOUS
    <2>2. i \in 1 .. (m + n + 1) /\ ~(i <= m) /\ i <= m + n /\ i - m = k
      BY <1>5, <2>1
    <2>3. devs[i] = dh[i - m]
      BY <2>2
    <2>. QED
      BY <2>1, <2>2, <2>3
  <1>10. devs[m + n + 1] = F
    BY <1>5
  <1>11. devs \in [1 .. (m + n + 1) -> SUBSET AnyDevice]
    <2>1. \A k \in 1 .. (m + n + 1) : k <= m => k \in 1 .. (m + 1)
      BY <1>5
    <2>2. \A k \in 1 .. (m + n + 1) : ~(k <= m) /\ k <= m + n => k - m \in 1 .. (n + 1)
      BY <1>5
    <2>. QED
      BY <1>4, <2>1, <2>2
  <1>. HIDE DEF devs
  <1>12. ds[m + 1] \subseteq devs[m + 1] /\ dh[n + 1] \subseteq devs[m + n + 1]
    <2>1. CASE n = 0
      <3>1. m + 1 = m + n + 1 /\ n + 1 = 1
        BY <1>5, <2>1
      <3>. QED
        BY <1>1, <1>2, <1>10, <3>1 DEF m, n
    <2>2. CASE n # 0
      <3>1. 1 \in 1 .. n
        BY <1>5, <2>2
      <3>. QED
        BY <1>1, <1>2, <1>9, <1>10, <3>1 DEF m, n
    <2>. QED
      BY <2>1, <2>2
  <1>13. ASSUME NEW k \in 1 .. m PROVE Follows(u, k, devs, Y) /\ ~OfNode(u[k])
    <2>1. u[k] = g[k] /\ devs[k] = ds[k] /\ Follows(s, k, ds, X) /\ ~OfNode(s[k])
      BY <1>3, <1>4, <1>7, <1>8
    <2>2. ASSUME NEW i, NEW d \in devs[k], NEW e, Move(u[k], i, d, e)
          PROVE  i \in 1 .. (Len(u) + 1 - k) /\ e \in devs[k + i]
      <3>1. CASE Move(s[k], i, d, e)
        <4>1. i \in 1 .. (m + 1 - k) /\ e \in ds[k + i]
          BY <2>1, <3>1 DEF Follows, m
        <4>2. i \in 1 .. (m + n + 1 - k) /\ (k + i \in 1 .. m \/ k + i = m + 1)
          BY <1>5, <4>1
        <4>. QED
          BY <1>7, <1>8, <1>12, <4>1, <4>2
      <3>2. CASE Raises(s[k]) /\ i = m - k + 1 + n /\ e = d
        <4>1. i \in 1 .. (m + n + 1 - k) /\ k + i = m + n + 1
          BY <1>5, <3>2
        <4>2. e \in F
          BY <2>1, <3>2 DEF Follows
        <4>. QED
          BY <1>7, <1>10, <4>1, <4>2
      <3>. QED
        BY <1>6, <2>1, <2>2, <3>1, <3>2
    <2>3. Typed(u[k]) /\ Alike(u[k], s[k]) /\ ~Raises(u[k])
      BY <1>6, <2>1
    <2>. QED
      BY <2>1, <2>2, <2>3 DEF Follows, OfRegister, OfNode, Alike
  <1>14. ASSUME NEW k \in 1 .. n PROVE Follows(u, m + k, devs, Y) /\ ~OfNode(u[m + k])
    <2>1. u[m + k] = h[k] /\ devs[m + k] = dh[k] /\ Follows(h, k, dh, Y) /\ ~OfNode(h[k])
      BY <1>3, <1>4, <1>7, <1>9
    <2>2. ASSUME NEW i, NEW d \in devs[m + k], NEW e, Move(u[m + k], i, d, e)
          PROVE  i \in 1 .. (Len(u) + 1 - (m + k)) /\ e \in devs[m + k + i]
      <3>1. i \in 1 .. (n + 1 - k) /\ e \in dh[k + i]
        BY <2>1, <2>2 DEF Follows, n
      <3>2. i \in 1 .. (m + n + 1 - (m + k)) /\ m + k + i = m + (k + i)
            /\ (k + i \in 1 .. n \/ (k + i = n + 1 /\ m + k + i = m + n + 1))
        BY <1>5, <3>1
      <3>. QED
        BY <1>7, <1>9, <1>12, <3>1, <3>2
    <2>. QED
      BY <2>1, <2>2 DEF Follows
  <1>15. \A k \in 1 .. (m + n) : k \in 1 .. m \/ \E i \in 1 .. n : k = m + i
    <2>. SUFFICES ASSUME NEW k \in 1 .. (m + n), k \notin 1 .. m PROVE \E i \in 1 .. n : k = m + i
      OBVIOUS
    <2>1. k - m \in 1 .. n /\ k = m + (k - m)
      BY <1>5
    <2>. QED
      BY <2>1
  <1>16. \A k \in 1 .. Len(u) : Follows(u, k, devs, Y) /\ ~OfNode(u[k])
    BY <1>7, <1>13, <1>14, <1>15
  <1>17. Flows(u, devs, Y)
    BY <1>7, <1>11, <1>16 DEF Flows
  <1>18. D \subseteq devs[1]
    <2>1. CASE m = 0
      BY <1>1, <1>5, <1>12, <2>1
    <2>2. CASE m # 0
      <3>1. 1 \in 1 .. m
        BY <1>5, <2>2
      <3>. QED
        BY <1>1, <1>8, <3>1
    <2>. QED
      BY <2>1, <2>2
  <1>. QED
    BY <1>7, <1>10, <1>16, <1>17, <1>18 DEF Leads, u, g, n

\* A block whose errors are swallowed.
LEMMA TryLeads ==
    ASSUME NEW s, NEW D, NEW E, NEW X, NEW Y, Leads(s, D, E, X),
           E \in SUBSET AnyDevice, X \subseteq E
    PROVE  Leads(Try(s), D, E, Y)
  <1>1. Leads(<< >>, E, E, Y) /\ Len(<< >>) = 0
    BY Nothing
  <1>2. Leads(OnError(s, 0) \o << >>, D, E, Y)
    BY <1>1, ReturnLeads
  <1>3. IsSeq(OnError(s, 0))
    <2>1. IsSeq(s) /\ \A k \in 1 .. Len(s) : Typed(s[k])
      BY DEF Leads, Flows, Follows
    <2>. QED
      BY <2>1, ErrorsCaught
  <1>4. OnError(s, 0) \o << >> = OnError(s, 0)
    BY <1>3, ConcatEmptySeq DEF IsSeq
  <1>. QED
    BY <1>2, <1>4 DEF Try


\* A block with a handler h for its errors.
LEMMA ElseLeads ==
    ASSUME NEW s, NEW h, NEW D, NEW E, NEW X, NEW F \in SUBSET AnyDevice, NEW Y,
           Leads(s, D, E, X), Leads(h, X, F, Y), E \subseteq F
    PROVE  Leads(TryElse(s, h), D, F, Y)
  <1>1. PICK ds : Flows(s, ds, X) /\ D \subseteq ds[1] /\ ds[Len(s) + 1] \subseteq E
    BY DEF Leads
  <1>2. PICK dh : Flows(h, dh, Y) /\ X \subseteq dh[1] /\ dh[Len(h) + 1] \subseteq F
    BY DEF Leads
  <1>. DEFINE m == Len(s)
              n == Len(h)
  <1>3. /\ IsSeq(s) /\ IsSeq(h) /\ \A k \in 1 .. m : ~OfNode(s[k])
        /\ \A k \in 1 .. n : ~OfNode(h[k])
    BY DEF Leads
  <1>4. /\ ds \in [1 .. (m + 1) -> SUBSET AnyDevice] /\ dh \in [1 .. (n + 1) -> SUBSET AnyDevice]
        /\ \A k \in 1 .. m : Follows(s, k, ds, X)
        /\ \A k \in 1 .. n : Follows(h, k, dh, Y)
    BY <1>1, <1>2 DEF Flows
  <1>5. m \in Nat /\ n \in Nat
    BY <1>3, LenProperties DEF IsSeq
  <1>. HIDE DEF n
  <1>. DEFINE j == Jump(n)
              b == s \o j
              g == OnError(b, 0)
              u == g \o h
  <1>6. Len(j) = 1 /\ IsSeq(j) /\ j[1].op = "jump" /\ j[1].arg = n /\ j[1].dev = "none" /\ Typed(j[1])
    BY DEF Jump, Access, IsSeq, Typed, Suits
  <1>. HIDE DEF j
  <1>7. /\ IsSeq(b) /\ Len(b) = m + 1 /\ \A k \in 1 .. m : b[k] = s[k]
        /\ b[m + 1] = j[1]
    <2>1. /\ IsSeq(b) /\ Len(b) = Len(s) + Len(j) /\ \A k \in 1 .. Len(s) : b[k] = s[k]
          /\ \A k \in 1 .. Len(j) : b[Len(s) + k] = j[k]
      <3>1. IsSeq(s) /\ IsSeq(j)
        BY <1>3, <1>6
      <3>2. /\ IsSeq(s \o j) /\ Len(s \o j) = Len(s) + Len(j)
            /\ \A k \in 1 .. Len(s) : (s \o j)[k] = s[k]
            /\ \A k \in 1 .. Len(j) : (s \o j)[Len(s) + k] = j[k]
        <4>. HIDE DEF m, b, g, u
        <4>. QED
          BY <3>1, Concatenated
      <3>. QED
        BY <3>2
    <2>2. 1 \in 1 .. Len(j)
      BY <1>6
    <2>. HIDE DEF b
    <2>. QED
      BY <1>6, <2>1, <2>2
  <1>8. \A k \in 1 .. (m + 1) : k \in 1 .. m \/ k = m + 1
    BY <1>5
  <1>. HIDE DEF m, b
  <1>9. /\ IsSeq(g) /\ Len(g) = m + 1
        /\ \A k \in 1 .. (m + 1) :
               /\ Typed(g[k]) /\ Alike(g[k], b[k]) /\ ~Raises(g[k])
               /\ \A i, d, e : Move(g[k], i, d, e) =>
                      Move(b[k], i, d, e) \/ (Raises(b[k]) /\ i = m + 1 - k + 1 /\ e = d)
    <2>1. \A k \in 1 .. Len(b) : Typed(b[k])
      BY <1>4, <1>6, <1>7, <1>8 DEF Follows
    <2>2. /\ IsSeq(OnError(b, 0)) /\ Len(OnError(b, 0)) = Len(b)
          /\ \A k \in 1 .. Len(b) :
                 /\ Typed(OnError(b, 0)[k]) /\ Alike(OnError(b, 0)[k], b[k])
                 /\ ~Raises(OnError(b, 0)[k])
                 /\ \A i, d, e : Move(OnError(b, 0)[k], i, d, e) =>
                        \/ Move(b[k], i, d, e)
                        \/ Raises(b[k]) /\ i = Len(b) - k + 1 + 0 /\ e = d
      BY <1>7, <2>1, ErrorsCaught
    <2>3. \A k \in 1 .. (m + 1) : Len(b) - k + 1 + 0 = m + 1 - k + 1
      BY <1>5, <1>7
    <2>. HIDE DEF g
    <2>4. IsSeq(g) /\ Len(g) = m + 1
      BY <1>7, <2>2 DEF g
    <2>5. ASSUME NEW k \in 1 .. (m + 1)
          PROVE  /\ Typed(g[k]) /\ Alike(g[k], b[k]) /\ ~Raises(g[k])
                 /\ \A i, d, e : Move(g[k], i, d, e) =>
                        Move(b[k], i, d, e) \/ (Raises(b[k]) /\ i = m + 1 - k + 1 /\ e = d)
      <3>1. PICK r : r = Len(b) - k + 1 + 0
        OBVIOUS
      <3>2. r = m + 1 - k + 1
        BY <2>3, <3>1
      <3>. QED
        BY <1>7, <2>2, <3>1, <3>2 DEF g
    <2>. QED
      BY <2>4, <2>5
  <1>. HIDE DEF g
  <1>10. /\ IsSeq(u) /\ Len(u) = m + 1 + n /\ \A k \in 1 .. (m + 1) : u[k] = g[k]
         /\ \A k \in 1 .. n : u[m + 1 + k] = h[k]
    BY <1>3, <1>9, Concatenated DEF n
  <1>. HIDE DEF u
  <1>. DEFINE w == m + 1
              devs == [k \in 1 .. (w + n + 1) |-> IF k <= w THEN ds[k]
                                                  ELSE IF k <= w + n THEN dh[k - w] ELSE F]
  <1>11. w \in Nat /\ 1 <= w
    BY <1>5
  <1>12. \A k \in 1 .. w : devs[k] = ds[k]
    BY <1>5
  <1>13. ASSUME NEW k \in 1 .. n PROVE devs[w + k] = dh[k]
    <2>1. PICK i : i = w + k
      OBVIOUS
    <2>2. i \in 1 .. (w + n + 1) /\ ~(i <= w) /\ i <= w + n /\ i - w = k
      BY <1>5, <1>11, <2>1
    <2>3. devs[i] = dh[i - w]
      BY <2>2
    <2>. QED
      BY <2>1, <2>2, <2>3
  <1>14. devs[w + n + 1] = F
    BY <1>5, <1>11
  <1>15. devs \in [1 .. (w + n + 1) -> SUBSET AnyDevice]
    <2>1. \A k \in 1 .. (w + n + 1) : ~(k <= w) /\ k <= w + n => k - w \in 1 .. (n + 1)
      BY <1>5, <1>11
    <2>. QED
      BY <1>4, <1>11, <2>1
  <1>16. w = m + 1
    OBVIOUS
  <1>. HIDE DEF devs, w
  <1>17. X \subseteq devs[w + 1] /\ dh[n + 1] \subseteq devs[w + n + 1]
    <2>1. CASE n = 0
      <3>1. w + 1 = w + n + 1 /\ n + 1 = 1
        BY <1>11, <2>1
      <3>. QED
        BY <1>2, <1>14, <3>1 DEF n
    <2>2. CASE n # 0
      <3>1. 1 \in 1 .. n
        BY <1>5, <2>2
      <3>. QED
        BY <1>2, <1>13, <1>14, <3>1 DEF n
    <2>. QED
      BY <2>1, <2>2
  <1>18. ASSUME NEW k \in 1 .. m PROVE Follows(u, k, devs, Y) /\ ~OfNode(u[k])
    <2>0. k \in 1 .. w
      BY <1>5, <1>16
    <2>1. u[k] = g[k] /\ b[k] = s[k] /\ devs[k] = ds[k] /\ Follows(s, k, ds, X) /\ ~OfNode(s[k])
      BY <1>3, <1>4, <1>7, <1>10, <1>12, <1>16, <2>0 DEF m
    <2>2. ASSUME NEW i, NEW d \in devs[k], NEW e, Move(u[k], i, d, e)
          PROVE  i \in 1 .. (Len(u) + 1 - k) /\ e \in devs[k + i]
      <3>1. CASE Move(s[k], i, d, e)
        <4>1. i \in 1 .. (m + 1 - k) /\ e \in ds[k + i]
          BY <2>1, <3>1 DEF Follows, m
        <4>2. i \in 1 .. (w + n + 1 - k) /\ k + i \in 1 .. w
          BY <1>5, <1>16, <4>1
        <4>. QED
          BY <1>10, <1>12, <1>16, <4>1, <4>2
      <3>2. CASE Raises(s[k]) /\ i = m + 1 - k + 1 /\ e = d
        <4>1. i \in 1 .. (w + n + 1 - k) /\ k + i = w + 1
          BY <1>5, <1>16, <3>2
        <4>2. e \in X
          BY <2>1, <3>2 DEF Follows
        <4>. QED
          BY <1>10, <1>16, <1>17, <4>1, <4>2
      <3>. QED
        BY <1>9, <1>16, <2>0, <2>1, <2>2, <3>1, <3>2
    <2>3. Typed(u[k]) /\ Alike(u[k], s[k]) /\ ~Raises(u[k])
      BY <1>9, <1>16, <2>0, <2>1
    <2>. QED
      BY <2>1, <2>2, <2>3 DEF Follows, OfRegister, OfNode, Alike
  <1>19. Follows(u, w, devs, Y) /\ ~OfNode(u[w])
    <2>0. w \in 1 .. w
      BY <1>11
    <2>1. u[w] = g[w] /\ b[w] = j[1] /\ devs[w] = ds[w]
      BY <1>7, <1>10, <1>12, <1>16, <2>0
    <2>2. Typed(u[w]) /\ Alike(u[w], j[1]) /\ ~Raises(u[w])
      BY <1>9, <1>16, <2>0, <2>1
    <2>3. ASSUME NEW i, NEW d \in devs[w], NEW e, Move(u[w], i, d, e)
          PROVE  i \in 1 .. (Len(u) + 1 - w) /\ e \in devs[w + i]
      <3>1. i = 1 + n /\ e = d
        BY <1>6, <2>2, <2>3 DEF Move, Alike
      <3>2. i \in 1 .. (w + n + 1 - w) /\ w + i = w + n + 1
        BY <1>5, <1>11, <3>1
      <3>3. e \in F
        BY <1>1, <1>16, <2>1, <3>1 DEF m
      <3>. QED
        BY <1>10, <1>14, <1>16, <3>2, <3>3
    <2>. QED
      BY <1>6, <2>2, <2>3 DEF Follows, OfRegister, OfNode, Alike
  <1>20. ASSUME NEW k \in 1 .. n PROVE Follows(u, w + k, devs, Y) /\ ~OfNode(u[w + k])
    <2>1. u[w + k] = h[k] /\ devs[w + k] = dh[k] /\ Follows(h, k, dh, Y) /\ ~OfNode(h[k])
      BY <1>3, <1>4, <1>10, <1>13, <1>16 DEF n
    <2>2. ASSUME NEW i, NEW d \in devs[w + k], NEW e, Move(u[w + k], i, d, e)
          PROVE  i \in 1 .. (Len(u) + 1 - (w + k)) /\ e \in devs[w + k + i]
      <3>1. i \in 1 .. (n + 1 - k) /\ e \in dh[k + i]
        BY <2>1, <2>2 DEF Follows, n
      <3>2. i \in 1 .. (w + n + 1 - (w + k)) /\ w + k + i = w + (k + i)
            /\ (k + i \in 1 .. n \/ (k + i = n + 1 /\ w + k + i = w + n + 1))
        BY <1>5, <1>11, <3>1
      <3>. QED
        BY <1>10, <1>13, <1>16, <1>17, <3>1, <3>2
    <2>. QED
      BY <2>1, <2>2 DEF Follows
  <1>21. \A k \in 1 .. (w + n) : k \in 1 .. m \/ k = w \/ \E i \in 1 .. n : k = w + i
    <2>. SUFFICES ASSUME NEW k \in 1 .. (w + n), k \notin 1 .. m, k # w
                  PROVE  \E i \in 1 .. n : k = w + i
      OBVIOUS
    <2>1. k - w \in 1 .. n /\ k = w + (k - w)
      BY <1>5, <1>16
    <2>. QED
      BY <2>1
  <1>22. \A k \in 1 .. Len(u) : Follows(u, k, devs, Y) /\ ~OfNode(u[k])
    BY <1>10, <1>16, <1>18, <1>19, <1>20, <1>21
  <1>23. Flows(u, devs, Y)
    BY <1>10, <1>15, <1>16, <1>22 DEF Flows
  <1>24. D \subseteq devs[1]
    BY <1>1, <1>11, <1>12
  <1>25. u = TryElse(s, h)
    BY DEF u, g, b, j, n, TryElse, Try
  <1>. QED
    BY <1>10, <1>14, <1>16, <1>22, <1>23, <1>24, <1>25 DEF Leads


-------------------------------------------------------------------------------
(* The routines find their devices                                             *)

\* Free: a part that may be entered with any device; Ends: one that connects to
\* device d last; Held: one that stays with device d, also when it fails.
Free(s) == Leads(s, AnyDevice, AnyDevice, AnyDevice)
Ends(s, d) == Leads(s, AnyDevice, {d}, AnyDevice)
Held(d, s) == Leads(s, {d}, {d}, {d})

\* How such parts are put together.
LEMMA Parts ==
    /\ \A s, d : d \in AnyDevice /\ Ends(s, d) => Free(s)
    /\ \A s, t : Free(s) /\ Free(t) => Free(s \o t)
    /\ \A s, t, d : Free(s) /\ Ends(t, d) => Ends(s \o t, d)
    /\ \A s, t, d : d \in AnyDevice /\ Ends(s, d) /\ Held(d, t) => Ends(s \o t, d)
    /\ \A s, t, d : Held(d, s) /\ Held(d, t) => Held(d, s \o t)
  <1>1. ASSUME NEW d \in AnyDevice PROVE {d} \subseteq AnyDevice
    BY DEF AnyDevice
  <1>2. ASSUME NEW s, NEW d \in AnyDevice, Ends(s, d) PROVE Free(s)
    BY <1>1, <1>2, Weaker DEF Ends, Free
  <1>3. ASSUME NEW s, NEW t, Free(s), Free(t) PROVE Free(s \o t)
    BY <1>3, Then DEF Free
  <1>4. ASSUME NEW s, NEW t, NEW d, Free(s), Ends(t, d) PROVE Ends(s \o t, d)
    BY <1>4, Then DEF Free, Ends
  <1>5. ASSUME NEW s, NEW t, NEW d \in AnyDevice, Ends(s, d), Held(d, t) PROVE Ends(s \o t, d)
    <2>1. Leads(t, {d}, {d}, AnyDevice)
      BY <1>1, <1>5, Weaker DEF Held
    <2>. QED
      BY <1>5, <2>1, Then DEF Ends
  <1>6. ASSUME NEW s, NEW t, NEW d, Held(d, s), Held(d, t) PROVE Held(d, s \o t)
    BY <1>6, Then DEF Held
  <1>. QED
    BY <1>2, <1>3, <1>4, <1>5, <1>6

\* Parts that are entered with device d and end with device e.
From(s, d, e) == Leads(s, {d}, {e}, AnyDevice)

\* How parts follow one another that need the device of the one before.
LEMMA Passages ==
    /\ \A s, d : d \in AnyDevice /\ Held(d, s) => From(s, d, d)
    /\ \A s, t, d, e, f : From(s, d, e) /\ From(t, e, f) => From(s \o t, d, f)
    /\ \A s, d, e : d \in AnyDevice /\ Ends(s, e) => From(s, d, e)
    /\ \A s, t, d, e : Ends(s, d) /\ From(t, d, e) => Ends(s \o t, e)
  <1>1. ASSUME NEW d \in AnyDevice PROVE {d} \subseteq AnyDevice
    OBVIOUS
  <1>2. ASSUME NEW s, NEW d \in AnyDevice, Held(d, s) PROVE From(s, d, d)
    BY <1>1, <1>2, Weaker DEF Held, From
  <1>3. ASSUME NEW s, NEW t, NEW d, NEW e, NEW f, From(s, d, e), From(t, e, f)
        PROVE  From(s \o t, d, f)
    BY <1>3, Then DEF From
  <1>4. ASSUME NEW s, NEW d \in AnyDevice, NEW e, Ends(s, e) PROVE From(s, d, e)
    BY <1>1, <1>4, Weaker DEF Ends, From
  <1>5. ASSUME NEW s, NEW t, NEW d, NEW e, Ends(s, d), From(t, d, e) PROVE Ends(s \o t, e)
    BY <1>5, Then DEF Ends, From
  <1>. QED
    BY <1>2, <1>3, <1>4, <1>5

\* Blocks and conditions.
LEMMA Blocks ==
    /\ \A s : Free(s) => Free(Try(s))
    /\ \A s, d : d \in AnyDevice /\ Held(d, s) => Held(d, Try(s))
    /\ \A s, h, d : d \in AnyDevice /\ Held(d, s) /\ Held(d, h)
                        => Held(d, TryElse(s, h)) /\ Held(d, TryReturn(s, h))
    /\ \A c, s : Free(s) => Free(When(c, s))
    /\ \A c, s, d : d \in AnyDevice /\ Held(d, s) => Held(d, When(c, s))
  <1>1. ASSUME NEW s, Free(s) PROVE Free(Try(s))
    BY <1>1, TryLeads DEF Free
  <1>2. ASSUME NEW d \in AnyDevice PROVE {d} \in SUBSET AnyDevice
    BY DEF AnyDevice
  <1>3. ASSUME NEW s, NEW d \in AnyDevice, Held(d, s) PROVE Held(d, Try(s))
    BY <1>2, <1>3, TryLeads DEF Held
  <1>4. ASSUME NEW s, NEW h, NEW d \in AnyDevice, Held(d, s), Held(d, h)
        PROVE  Held(d, TryElse(s, h)) /\ Held(d, TryReturn(s, h))
    <2>1. Held(d, TryElse(s, h))
      BY <1>2, <1>4, ElseLeads DEF Held
    <2>2. Held(d, TryReturn(s, h))
      BY <1>2, <1>4, ReturnLeads DEF Held, TryReturn
    <2>. QED
      BY <2>1, <2>2
  <1>5. ASSUME NEW c, NEW s, Free(s) PROVE Free(When(c, s))
    <2>1. Free(<< >>)
      BY Nothing DEF Free
    <2>. QED
      BY <1>5, <2>1 DEF When
  <1>6. ASSUME NEW c, NEW s, NEW d \in AnyDevice, Held(d, s) PROVE Held(d, When(c, s))
    <2>1. Held(d, << >>)
      BY <1>2, Nothing DEF Held
    <2>. QED
      BY <1>6, <2>1 DEF When
  <1>. QED
    BY <1>1, <1>3, <1>4, <1>5, <1>6

\* What a part is meant for.
LEMMA Meant ==
    /\ \A c, s : Free(s) => Free(On(c, s)) /\ Free(OnBoard(c, s)) /\ Free(OnChip(c, s))
  BY OnLeads DEF Free

\* The registers of a device, and calls to a node, which need no device.
LEMMA Accesses ==
    /\ \A d \in AnyDevice : Ends(Device(d), d)
    /\ \A d \in AnyDevice : Held(d, Throw)
    /\ \A op, arg : \A d \in AnyDevice :
           /\ op \notin {"node", "removeAll", "jump", "check", "device", "throw"}
           /\ Suits(op, arg)
           => Held(d, Access(op, d, arg)) /\ Held(d, Access(op, "node", arg))
              /\ Free(Access(op, "node", arg))
  <1>1. ASSUME NEW d \in AnyDevice PROVE {d} \in SUBSET AnyDevice
    BY DEF AnyDevice
  <1>2. ASSUME NEW d \in AnyDevice PROVE Ends(Device(d), d)
    BY DeviceLeads DEF Ends
  <1>3. ASSUME NEW d \in AnyDevice PROVE Held(d, Throw)
    BY <1>1, ThrowLeads DEF Held
  <1>4. ASSUME NEW op, NEW d \in AnyDevice, NEW arg, Suits(op, arg),
               op \notin {"node", "removeAll", "jump", "check", "device", "throw"}
        PROVE  Held(d, Access(op, d, arg)) /\ Held(d, Access(op, "node", arg))
               /\ Free(Access(op, "node", arg))
    <2>1. Leads(Access(op, d, arg), {d}, {d}, {d})
      BY <1>1, <1>4, OneAccess
    <2>2. Leads(Access(op, "node", arg), {d}, {d}, {d})
      BY <1>1, <1>4, OneAccess
    <2>3. Leads(Access(op, "node", arg), AnyDevice, AnyDevice, AnyDevice)
      BY <1>4, OneAccess
    <2>. QED
      BY <2>1, <2>2, <2>3 DEF Held, Free
  <1>. QED
    BY <1>2, <1>3, <1>4

\* Writes and reads.
LEMMA Transfers ==
    /\ \A d \in AnyDevice : \A groups, good, of :
           /\ Held(d, Write("write", d, groups, good, of))
           /\ Held(d, Write("field", d, groups, good, of))
    /\ \A d \in AnyDevice : \A groups : Held(d, Put(d, groups)) /\ Held(d, Alter(d, groups))
    /\ \A d \in AnyDevice : \A group : Held(d, PutField(d, group)) /\ Held(d, AlterField(d, group))
    /\ \A d \in AnyDevice : Held(d, Read(d))
    /\ \A d \in AnyDevice : \A group : Held(d, Setting(group)) /\ Free(Setting(group))
  <1>1. \A arg : Suits("write", arg) /\ Suits("field", arg) /\ Suits("read", arg)
    BY DEF Suits
  <1>2. ASSUME NEW d \in AnyDevice, NEW arg
        PROVE  /\ Held(d, Access("write", d, arg)) /\ Held(d, Access("field", d, arg))
               /\ Held(d, Access("read", d, arg)) /\ Held(d, Access("write", "node", arg))
               /\ Free(Access("write", "node", arg))
    <2>1. ASSUME NEW op \in {"write", "field", "read"}
          PROVE  /\ Held(d, Access(op, d, arg)) /\ Held(d, Access(op, "node", arg))
                 /\ Free(Access(op, "node", arg))
      <3>1. op \notin {"node", "removeAll", "jump", "check", "device", "throw"}
        OBVIOUS
      <3>. QED
        BY <1>1, <3>1, Accesses
    <2>. QED
      BY <2>1
  <1>. QED
    BY <1>2 DEF Write, Put, Alter, PutField, AlterField, Read, Setting

\* The calls that select boards and chips.
LEMMA Selections ==
    /\ \A S \in SUBSET Chips : Held("ctrl", Enable(S)) /\ Held("ctrl", Pulse(S))
    /\ \A b : Held("ctrl", HitRegister(b))
    /\ \A S \in SUBSET AsAds : Held("ctrl", Access("select", "ctrl", S))
    /\ \A i \in AsAds : /\ Held("ctrl", Access("asad", "ctrl", i))
                        /\ Held("ctrl", Access("powerOn", "ctrl", i))
                        /\ Held("ctrl", Access("powerOff", "ctrl", i))
    /\ \A k \in Chips : /\ Held("ctrl", Access("chip", "ctrl", k))
                        /\ Held("ctrl", Access("mask", "ctrl", k))
    /\ \A arg : Held("ctrl", Access("initDone", "ctrl", arg))
    /\ \A arg : Held("ctrl", Access("fire", "ctrl", arg))
    /\ \A i, first, last : Held("ctrl", Buffer(i, first, last))
  <1>1. ASSUME NEW op \in {"enable", "pulse", "hitRegister", "select", "asad", "powerOn", "powerOff",
                           "chip", "mask", "initDone", "fire", "buffer"},
               NEW arg, Suits(op, arg)
        PROVE  Held("ctrl", Access(op, "ctrl", arg))
    <2>1. op \notin {"node", "removeAll", "jump", "check", "device", "throw"}
      OBVIOUS
    <2>2. "ctrl" \in AnyDevice
      BY DEF AnyDevice
    <2>. QED
      BY <1>1, <2>1, <2>2, Accesses
  <1>. QED
    BY <1>1 DEF Suits, Enable, Pulse, HitRegister, Buffer


\* The devices that routines connect to.
LEMMA Names == {"ctrl", "asad", "aget"} \subseteq AnyDevice /\ \A i \in AsAds : ZeroSuppress(i) \in AnyDevice
  BY DEF AnyDevice

\* Writes to the three devices that most of the routines use.
LEMMA Basics ==
    \A d \in {"ctrl", "asad", "aget"} :
        /\ d \in AnyDevice /\ Ends(Device(d), d) /\ Held(d, Read(d)) /\ Held(d, Throw)
        /\ \A groups : Held(d, Put(d, groups)) /\ Held(d, Alter(d, groups))
        /\ \A group : Held(d, PutField(d, group)) /\ Held(d, AlterField(d, group))
        /\ \A group : Held(d, Setting(group))
        /\ \A groups, good, of : Held(d, Write("write", d, groups, good, of))
  BY Names, Accesses, Transfers

\* Routines that select boards and chips, and read their states
\* (EccClient.cpp:905, 914).
LEMMA SelectionRoutines ==
    /\ Ends(CheckHardwareVersion, "ctrl") /\ Ends(CheckFirmwareRelease, "ctrl")
    /\ \A b : Free(SetCoBoInitDone(b))
    /\ Free(SetCoBoMutantMode)
    /\ \A S \in SUBSET Chips : Ends(SetAgetSlowControlMask(S), "ctrl")
    /\ \A S \in SUBSET AsAds : Ends(SetAsAdSlowControlMask(S), "ctrl")
    /\ \A k \in Chips : Ends(SelectAgetForRead(k), "ctrl")
    /\ \A i \in AsAds : Ends(SelectAsAdForRead(i), "ctrl")
    /\ Ends(IsAsAdConnected, "ctrl") /\ Ends(GetAsAdAlarmFlag, "ctrl")
    /\ Ends(IsAsAdPoweredOn, "ctrl") /\ Ends(GetAsAdAlertStatus, "asad")
  <1>1. Ends(Device("ctrl"), "ctrl") /\ Ends(Device("asad"), "asad")
    BY Names, Accesses
  <1>2. Ends(CheckHardwareVersion, "ctrl") /\ Ends(CheckFirmwareRelease, "ctrl")
    BY <1>1, Names, Parts, Blocks, Transfers DEF CheckHardwareVersion, CheckFirmwareRelease
  <1>3. Free(SetCoBoMutantMode) /\ \A b : Free(SetCoBoInitDone(b))
    BY <1>1, Names, Parts, Blocks, Transfers, Selections DEF SetCoBoMutantMode, SetCoBoInitDone
  <1>4. \A S \in SUBSET Chips : Ends(SetAgetSlowControlMask(S), "ctrl")
    BY <1>1, Names, Parts, Selections DEF SetAgetSlowControlMask
  <1>5. \A S \in SUBSET AsAds : Ends(SetAsAdSlowControlMask(S), "ctrl")
    BY <1>1, Names, Parts, Blocks, Selections DEF SetAsAdSlowControlMask
  <1>6. \A k \in Chips : Ends(SelectAgetForRead(k), "ctrl")
    BY <1>1, Names, Parts, Selections DEF SelectAgetForRead
  <1>7. \A i \in AsAds : Ends(SelectAsAdForRead(i), "ctrl")
    BY <1>1, Names, Parts, Selections DEF SelectAsAdForRead
  <1>8. /\ Ends(IsAsAdConnected, "ctrl") /\ Ends(GetAsAdAlarmFlag, "ctrl")
        /\ Ends(IsAsAdPoweredOn, "ctrl") /\ Ends(GetAsAdAlertStatus, "asad")
    BY <1>1, Names, Parts, Transfers
       DEF IsAsAdConnected, GetAsAdAlarmFlag, IsAsAdPoweredOn, GetAsAdAlertStatus
  <1>. QED
    BY <1>2, <1>3, <1>4, <1>5, <1>6, <1>7, <1>8

\* Both selections of a board, and the states that are read around power on.
LEMMA BoardRoutines ==
    /\ \A i \in AsAds : Ends(SelectAsAdForSlowControl(i), "ctrl")
    /\ Ends(AsAdPowerStatus, "ctrl")
    /\ Ends(PipeInit, "ctrl") /\ Ends(TriggerInit, "ctrl") /\ Free(CircularBufferInit)
  <1>1. Ends(Device("ctrl"), "ctrl") /\ Ends(Device("asad"), "asad")
    BY Names, Accesses
  <1>2. \A i \in AsAds : Ends(SelectAsAdForSlowControl(i), "ctrl")
    BY SelectionRoutines, Parts, Names DEF SelectAsAdForSlowControl
  <1>3. Ends(AsAdPowerStatus, "ctrl")
    BY SelectionRoutines, Parts, Names DEF AsAdPowerStatus
  <1>4. Ends(PipeInit, "ctrl") /\ Ends(TriggerInit, "ctrl")
    <2>1. \A groups : Held("ctrl", Alter("ctrl", groups))
      BY Basics
    <2>2. Ends(PipeInit, "ctrl")
      BY <1>1, <2>1, Names, Parts DEF PipeInit
    <2>3. \A groups : Ends(Device("ctrl") \o Alter("ctrl", groups), "ctrl")
      BY <1>1, <2>1, Names, Parts
    <2>4. \A groups : Held("ctrl", Write("write", "ctrl", groups, FALSE, Masked))
      BY Basics
    <2>5. Ends(TriggerInit, "ctrl")
      BY <2>3, <2>4, Names, Parts DEF TriggerInit
    <2>. QED
      BY <2>2, <2>5
  <1>5. Free(CircularBufferInit)
    BY <1>1, Names, Parts, Transfers, Selections, Blocks DEF CircularBufferInit, EachAsAd
  <1>. QED
    BY <1>2, <1>3, <1>4, <1>5


\* What the client keeps of a CoBo.
Client(cl) == cl.asads \in SUBSET AsAds /\ cl.chips \in SUBSET Chips

\* Power on of the boards (EccClient.cpp:541).
LEMMA AsAdInitLeads ==
    ASSUME NEW cl, Client(cl), NEW connected PROVE Free(AsAdInit(cl, connected))
  <1>. DEFINE Lookup(i) == SetAsAdSlowControlMask({i}) \o SelectAsAdForRead(i) \o GetAsAdAlertStatus
              PowerOn(i) == IsAsAdConnected \o When(i \notin connected, Throw) \o GetAsAdAlarmFlag
                            \o Access("powerOn", "ctrl", i) \o AsAdPowerStatus
              Board(i) == IsAsAdConnected \o When(i \in connected, Lookup(i))
                          \o Device("ctrl") \o Access("powerOff", "ctrl", i)
                          \o When(i \in cl.asads, PowerOn(i))
  <1>1. ASSUME NEW i \in AsAds PROVE Free(Board(i))
    <2>1. Free(Lookup(i))
      BY SelectionRoutines, Parts, Names
    <2>2. Free(PowerOn(i))
      <3>1. Ends(IsAsAdConnected \o When(i \notin connected, Throw), "ctrl")
        BY SelectionRoutines, Basics, Parts, Blocks
      <3>2. Ends(GetAsAdAlarmFlag \o Access("powerOn", "ctrl", i), "ctrl")
        BY SelectionRoutines, Selections, Names, Parts
      <3>. HIDE DEF PowerOn
      <3>. QED
        BY <3>1, SelectionRoutines, Selections, BoardRoutines, Parts, Names DEF PowerOn
    <2>. HIDE DEF Lookup, PowerOn
    <2>3. Free(IsAsAdConnected \o When(i \in connected, Lookup(i)))
      BY <2>1, SelectionRoutines, Parts, Blocks, Names
    <2>4. Ends(IsAsAdConnected \o When(i \in connected, Lookup(i)) \o Device("ctrl")
               \o Access("powerOff", "ctrl", i), "ctrl")
      BY <2>3, Basics, Selections, Parts
    <2>. QED
      BY <2>2, <2>4, Parts, Blocks, Names
  <1>2. Free(EachAsAd(Board))
    <2>. HIDE DEF Board
    <2>. QED
      BY <1>1, Parts DEF EachAsAd, AsAds
  <1>3. Free(Device("ctrl") \o Alter("ctrl", {"asadController"}))
    BY Basics, Parts
  <1>. QED
    BY <1>2, <1>3, Parts DEF AsAdInit


\* Routines of the boards that end with the registers of the boards.
LEMMA AsAdRoutines ==
    /\ Ends(AsAdSetBoardUserID, "asad") /\ Ends(AsAdGetIdentifier, "asad")
    /\ Ends(AsAdConfigureAgetInputs, "asad") /\ Ends(SetAsAdLcm1Register, "asad")
    /\ Ends(SetAsAdLcm2Register, "asad") /\ Ends(AsAdMonitoringStop, "asad")
    /\ Ends(AsAdMonitoringReset, "asad") /\ Ends(AsAdDisableAutoProtection, "asad")
    /\ Ends(AsAdSetAutoProtectionLevel, "asad") /\ Ends(AsAdSetISPM, "asad")
    /\ \A good : Ends(AsAdSetMonitoringMode(good), "asad")
    /\ \A group : Free(WriteLimits(group))
    /\ \A i \in AsAds : Free(ReadSensor(i))
    /\ \A TRG : Free(AsAdConfigureTcmDevice(TRG))
  <1>1. \A groups : Ends(Device("asad") \o Put("asad", groups), "asad")
    BY Basics, Parts
  <1>2. \A groups : Ends(Device("asad") \o Alter("asad", groups), "asad")
    BY Basics, Parts
  <1>3. /\ Ends(AsAdSetBoardUserID, "asad") /\ Ends(SetAsAdLcm1Register, "asad")
        /\ Ends(SetAsAdLcm2Register, "asad") /\ Ends(AsAdSetAutoProtectionLevel, "asad")
        /\ Ends(AsAdSetISPM, "asad")
    BY <1>1 DEF AsAdSetBoardUserID, SetAsAdLcm1Register, SetAsAdLcm2Register,
                AsAdSetAutoProtectionLevel, AsAdSetISPM
  <1>4. Ends(AsAdMonitoringStop, "asad") /\ Ends(AsAdDisableAutoProtection, "asad")
    BY <1>2 DEF AsAdMonitoringStop, AsAdDisableAutoProtection
  <1>5. Ends(AsAdGetIdentifier, "asad")
    BY Basics, Parts, Blocks DEF AsAdGetIdentifier
  <1>6. Ends(AsAdConfigureAgetInputs, "asad")
    BY <1>1, Basics, Parts DEF AsAdConfigureAgetInputs
  <1>7. Ends(AsAdMonitoringReset, "asad")
    BY Basics, Parts, SelectionRoutines DEF AsAdMonitoringReset
  <1>8. \A good : Ends(AsAdSetMonitoringMode(good), "asad")
    BY <1>1, <1>2 DEF AsAdSetMonitoringMode
  <1>9. \A group : Free(WriteLimits(group))
    BY <1>1, Names, Parts, Blocks DEF WriteLimits
  <1>10. ASSUME NEW i \in AsAds PROVE Free(ReadSensor(i))
    <2>1. Free(Device("ctrl") \o Access("asad", "ctrl", i))
      BY Basics, Selections, Parts
    <2>. QED
      BY <2>1, Basics, Parts, Blocks DEF ReadSensor
  <1>11. ASSUME NEW TRG PROVE Free(AsAdConfigureTcmDevice(TRG))
    <2>1. Free(Device("asad") \o PutField("asad", "TCM0"))
      BY Basics, Parts
    <2>2. \A group : Free(Setting(group))
      BY Names, Transfers
    <2>3. Free(When(TRG, Device("asad") \o PutField("asad", "TCM0") \o Setting("pulserTrigger")))
      BY <2>1, <2>2, Parts, Blocks
    <2>. QED
      BY <2>1, <2>2, <2>3, Parts DEF AsAdConfigureTcmDevice
  <1>. QED
    BY <1>3, <1>4, <1>5, <1>6, <1>7, <1>8, <1>9, <1>10, <1>11

\* The ADCs of the boards end with the device that asadDacInit relies on
\* (EccClient.cpp:880, 630).
LEMMA AdcRoutines ==
    ASSUME NEW cl, Client(cl)
    PROVE  /\ Ends(AdcReset, "asad") /\ Ends(AdcTest, "asad") /\ Ends(AsAdAdcInit(cl), "asad")
           /\ Held("asad", AsAdDacInit) /\ Ends(AsAdSetAgetInputProtections(cl), "asad")
  <1>1. \A groups : Ends(Device("asad") \o Alter("asad", groups), "asad")
    BY Basics, Parts
  <1>2. \A groups : Free(Device("ctrl") \o Alter("ctrl", groups))
    BY Basics, Parts
  <1>3. Ends(AdcReset, "asad") /\ Ends(AdcTest, "asad")
    BY <1>1 DEF AdcReset, AdcTest
  <1>4. Free(AdcCal)
    <2>1. Free(Device("asad") \o Alter("asad", {"adcMode"}))
      BY <1>1, Names, Parts
    <2>2. Free(Device("asad") \o Alter("asad", {"adcMode"})
               \o Device("ctrl") \o Alter("ctrl", {"deskew"}))
      BY <2>1, Basics, Parts
    <2>3. Free(Device("asad") \o Alter("asad", {"adcMode"})
               \o Device("ctrl") \o Alter("ctrl", {"deskew"})
               \o Device("asad") \o Alter("asad", {"adcMode"}))
      BY <2>2, Basics, Parts
    <2>. QED
      BY <2>3, Basics, Parts DEF AdcCal
  <1>5. Ends(SetAsAdSlowControlMask(cl.asads), "ctrl")
    BY SelectionRoutines DEF Client
  <1>6. Ends(AsAdAdcInit(cl), "asad")
    BY <1>3, <1>4, <1>5, Names, Basics, Parts DEF AsAdAdcInit
  <1>7. Held("asad", AsAdDacInit)
    BY Basics DEF AsAdDacInit
  <1>8. Ends(AsAdSetAgetInputProtections(cl), "asad")
    BY <1>5, Names, Basics, Parts DEF AsAdSetAgetInputProtections
  <1>. QED
    BY <1>3, <1>6, <1>7, <1>8

\* Calibration of the boards (EccClient.cpp:960).
LEMMA AsAdCalLeads ==
    ASSUME NEW cl, Client(cl) PROVE Ends(AsAdCal(cl), "ctrl")
  <1>. DEFINE Round(i) == SelectAsAdForSlowControl(i) \o Device("asad") \o Read("asad")
                          \o AsAdSetBoardUserID \o AsAdGetIdentifier
              Board(i) == When(i \in cl.asads, OnBoard(i, Round(i)))
  <1>1. Ends(SetAsAdSlowControlMask(cl.asads), "ctrl")
    BY SelectionRoutines DEF Client
  <1>2. ASSUME NEW i \in AsAds PROVE Free(Board(i))
    <2>1. Free(Round(i))
      <3>1. Free(SelectAsAdForSlowControl(i) \o Device("asad") \o Read("asad"))
        BY Basics, Parts, BoardRoutines
      <3>. QED
        BY <3>1, AsAdRoutines, Parts, Names
    <2>. HIDE DEF Round
    <2>. QED
      BY <2>1, Meant, Blocks
  <1>3. Free(EachAsAd(Board))
    <2>. HIDE DEF Board
    <2>. QED
      BY <1>2, Parts DEF EachAsAd, AsAds
  <1>4. Free(SetAsAdSlowControlMask(cl.asads) \o Device("ctrl") \o Put("ctrl", {"asadController"}))
    BY <1>1, Basics, Parts
  <1>. QED
    BY <1>1, <1>3, <1>4, Parts DEF AsAdCal


\* The chips are switched between their modes by the CoBo alone
\* (EccClient.cpp:1941, 1968).
LEMMA SwitchRoutines ==
    ASSUME NEW cl, Client(cl)
    PROVE  Ends(SwitchToFastControl(cl), "ctrl") /\ Ends(SwitchToSlowControl(cl), "ctrl")
  <1>1. ASSUME NEW h PROVE Held("ctrl", SwitchTo(h, cl))
    <2>1. /\ Held("ctrl", Enable({})) /\ Held("ctrl", Enable(cl.chips))
          /\ Held("ctrl", Pulse({})) /\ Held("ctrl", Pulse(cl.chips))
          /\ Held("ctrl", HitRegister(h)) /\ Held("ctrl", Access("fire", "ctrl", 0))
      <3>1. {} \in SUBSET Chips /\ cl.chips \in SUBSET Chips
        BY DEF Client
      <3>. QED
        BY <3>1, Selections
    <2>. QED
      BY <2>1, Parts DEF SwitchTo
  <1>2. Ends(SwitchToFastControl(cl), "ctrl")
    BY <1>1, Basics, Parts DEF SwitchToFastControl
  <1>3. Ends(SwitchToSlowControl(cl), "ctrl")
    <2>1. Ends(Device("ctrl") \o Put("ctrl", {"firmware"}), "ctrl")
      BY Basics, Parts
    <2>. QED
      BY <1>1, <2>1, Names, Parts DEF SwitchToSlowControl
  <1>. QED
    BY <1>2, <1>3

\* The chips below a board are chips of the CoBo.
LEMMA ChipsOfBoards == \A i \in AsAds : {4 * i, 4 * i + 1, 4 * i + 2, 4 * i + 3} \subseteq Chips
  BY DEF AsAds, Chips

\* Versions of the chips (EccClient.cpp:1173).
LEMMA VersionsLead ==
    ASSUME NEW cl, Client(cl) PROVE Free(PrintAgetChipVersionNumbers(cl))
  <1>. DEFINE Chip(k) == When(k \in cl.chips, SelectAgetForRead(k) \o Device("aget") \o Read("aget"))
              Board(i) == EachChip(i, Chip)
  <1>1. ASSUME NEW k \in Chips PROVE Free(Chip(k))
    <2>1. Free(SelectAgetForRead(k) \o Device("aget") \o Read("aget"))
      BY SelectionRoutines, Basics, Parts
    <2>. QED
      BY <2>1, Blocks
  <1>2. ASSUME NEW i \in AsAds PROVE Free(Board(i))
    <2>. HIDE DEF Chip
    <2>1. /\ Free(Chip(4 * i)) /\ Free(Chip(4 * i + 1))
          /\ Free(Chip(4 * i + 2)) /\ Free(Chip(4 * i + 3))
      BY <1>1, ChipsOfBoards
    <2>. QED
      BY <2>1, Parts DEF EachChip
  <1>3. Free(EachAsAd(Board))
    <2>. HIDE DEF Board
    <2>. QED
      BY <1>2, Parts DEF EachAsAd, AsAds
  <1>. QED
    BY <1>3, SwitchRoutines, Names, Parts DEF PrintAgetChipVersionNumbers

\* Calibration and initialisation of the chips (EccClient.cpp:1093, 733).
LEMMA AgetInitLeads ==
    ASSUME NEW cl, Client(cl) PROVE Free(AgetCal(cl)) /\ Free(AgetInit(cl))
  <1>0. cl.chips \in SUBSET Chips /\ cl.asads \in SUBSET AsAds /\ {} \in SUBSET Chips
    BY DEF Client
  <1>. DEFINE WriteHit(S) == Pulse(S) \o HitRegister(TRUE) \o Device("aget")
                             \o Alter("aget", {"hit"}) \o Device("ctrl")
              ReadVersion == Pulse(cl.chips) \o HitRegister(FALSE) \o Device("aget")
                             \o Read("aget") \o Device("ctrl")
  <1>1. ASSUME NEW S \in SUBSET Chips, NEW b, NEW t, Held("aget", t)
        PROVE  From(Pulse(S) \o HitRegister(b) \o Device("aget") \o t \o Device("ctrl"),
                    "ctrl", "ctrl")
    <2>1. From(Pulse(S) \o HitRegister(b), "ctrl", "ctrl")
      BY Names, Selections, Parts, Passages
    <2>2. From(Device("aget") \o t, "aget", "aget") /\ From(Device("aget"), "ctrl", "aget")
          /\ From(t, "aget", "aget") /\ From(Device("ctrl"), "aget", "ctrl")
      BY <1>1, Names, Basics, Parts, Passages
    <2>. QED
      BY <2>1, <2>2, Passages
  <1>2. From(WriteHit(cl.chips), "ctrl", "ctrl") /\ From(WriteHit({}), "ctrl", "ctrl")
        /\ From(ReadVersion, "ctrl", "ctrl")
    BY <1>0, <1>1, Basics
  <1>3. Free(CoboSetCalibrationAgetChips)
    BY Basics, Parts, Blocks DEF CoboSetCalibrationAgetChips
  <1>4. Free(AgetCal(cl))
    <2>1. Free(CoboSetCalibrationAgetChips \o AdcReset \o AdcTest)
      BY <1>3, Names, Parts, AdcRoutines
    <2>2. Ends(CoboSetCalibrationAgetChips \o AdcReset \o AdcTest
               \o Device("ctrl") \o Enable(cl.chips), "ctrl")
      BY <1>0, <2>1, Basics, Selections, Parts
    <2>. HIDE DEF WriteHit, ReadVersion
    <2>3. Ends(CoboSetCalibrationAgetChips \o AdcReset \o AdcTest
               \o Device("ctrl") \o Enable(cl.chips) \o ReadVersion \o ReadVersion, "ctrl")
      BY <1>2, <2>2, Passages
    <2>4. Ends(CoboSetCalibrationAgetChips \o AdcReset \o AdcTest
               \o Device("ctrl") \o Enable(cl.chips) \o ReadVersion \o ReadVersion
               \o WriteHit(cl.chips) \o WriteHit({}), "ctrl")
      BY <1>2, <2>3, Passages
    <2>5. Free(CoboSetCalibrationAgetChips \o AdcReset \o AdcTest
               \o Device("ctrl") \o Enable(cl.chips) \o ReadVersion \o ReadVersion
               \o WriteHit(cl.chips) \o WriteHit({}) \o ReadVersion)
      BY <1>2, <2>4, Names, Parts, Passages
    <2>. QED
      BY <2>5, VersionsLead, Parts DEF AgetCal, WriteHit, ReadVersion
  <1>5. Free(AgetInit(cl))
    <2>1. Free(Device("ctrl") \o SetAgetSlowControlMask(cl.chips) \o Read("ctrl"))
      BY <1>0, Basics, SelectionRoutines, Parts
    <2>2. Free(Device("ctrl") \o SetAgetSlowControlMask(cl.chips) \o Read("ctrl")
               \o SetAsAdSlowControlMask(cl.asads) \o Device("asad") \o Alter("asad", {"resetFast"}))
      BY <1>0, <2>1, Basics, SelectionRoutines, Parts
    <2>3. Free(Device("ctrl") \o SetAgetSlowControlMask(cl.chips) \o Read("ctrl")
               \o SetAsAdSlowControlMask(cl.asads) \o Device("asad") \o Alter("asad", {"resetFast"})
               \o AgetCal(cl) \o Device("aget") \o AlterField("aget", "reg1"))
      BY <1>4, <2>2, Basics, Parts
    <2>. QED
      BY <2>3, Basics, Parts DEF AgetInit
  <1>. QED
    BY <1>4, <1>5


\* Routines of one chip, and of the delay of the data that is read
\* (EccClient.cpp:1807, 777).
LEMMA AgetRoutines ==
    /\ \A k \in Chips : \A reg, good : Free(AgetRegWSC(k, reg, good))
    /\ \A k \in Chips : Ends(AgetRegRSC(k), "aget")
    /\ Ends(EnableFPNRead, "aget")
    /\ \A cl : Client(cl) => Free(CalibrateAutoReadDataDelay(cl))
    /\ Ends(AsAdSetAutoReadDataDelayEnabled, "ctrl")
    /\ \A k \in Chips : \A group : Ends(SetReadMask(k, group), "ctrl")
    /\ \A k \in Chips : Free(SetCoBoZeroSuppressionThreshold(k))
  <1>1. ASSUME NEW k \in Chips, NEW reg, NEW good PROVE Free(AgetRegWSC(k, reg, good))
    <2>1. {k} \in SUBSET Chips
      OBVIOUS
    <2>2. Free(Device("ctrl") \o Enable({k}))
      BY <2>1, Basics, Selections, Parts
    <2>3. Ends(Device("ctrl") \o Enable({k}) \o Device("aget"), "aget")
      BY <2>2, Basics, Parts
    <2>. QED
      BY <2>3, Basics, Parts, Blocks DEF AgetRegWSC
  <1>2. ASSUME NEW k \in Chips PROVE Ends(AgetRegRSC(k), "aget")
    <2>1. Free(Device("ctrl") \o Access("chip", "ctrl", k))
      BY Basics, Selections, Parts
    <2>. QED
      BY <2>1, Basics, Parts DEF AgetRegRSC
  <1>3. Ends(EnableFPNRead, "aget")
    <2>1. Free(Device("ctrl") \o Put("ctrl", {"FPN"}))
      BY Basics, Parts
    <2>. QED
      BY <2>1, Basics, Parts DEF EnableFPNRead
  <1>4. ASSUME NEW cl, Client(cl) PROVE Free(CalibrateAutoReadDataDelay(cl))
    <2>1. Free(Device("ctrl") \o Enable(cl.chips))
      BY <1>4, Basics, Selections, Parts DEF Client
    <2>2. Free(Device("ctrl") \o Enable(cl.chips) \o Device("aget") \o Alter("aget", {"reg1", "reg2"}))
      BY <2>1, Basics, Parts
    <2>3. Held("ctrl", TryElse(Alter("ctrl", {"autoDelay"}), Alter("ctrl", {"autoDelay"})))
      BY Basics, Blocks
    <2>4. Ends(Device("ctrl") \o Enable(cl.chips) \o Device("aget") \o Alter("aget", {"reg1", "reg2"})
               \o Device("ctrl")
               \o TryElse(Alter("ctrl", {"autoDelay"}), Alter("ctrl", {"autoDelay"})), "ctrl")
      BY <2>2, <2>3, Basics, Parts
    <2>5. Ends(Device("ctrl") \o Enable(cl.chips) \o Device("aget") \o Alter("aget", {"reg1", "reg2"})
               \o Device("ctrl")
               \o TryElse(Alter("ctrl", {"autoDelay"}), Alter("ctrl", {"autoDelay"}))
               \o Alter("ctrl", {"scrScw", "firmware"}), "ctrl")
      BY <2>4, Basics, Parts
    <2>6. \A groups : Held("ctrl", Put("ctrl", groups))
      BY Basics
    <2>7. \A s, groups : Ends(s, "ctrl") => Ends(s \o Put("ctrl", groups), "ctrl")
      BY <2>6, Names, Parts
    <2>. QED
      BY <2>5, <2>7, Names, Parts DEF CalibrateAutoReadDataDelay
  <1>5. Ends(AsAdSetAutoReadDataDelayEnabled, "ctrl")
    BY Basics, Parts, Blocks DEF AsAdSetAutoReadDataDelayEnabled
  <1>6. ASSUME NEW k \in Chips, NEW group PROVE Ends(SetReadMask(k, group), "ctrl")
    <2>1. Ends(Device("ctrl") \o Access("mask", "ctrl", k), "ctrl")
      BY Basics, Selections, Parts
    <2>2. \A groups : Held("ctrl", Write("write", "ctrl", groups, TRUE, Masked))
      BY Basics
    <2>. QED
      BY <2>1, <2>2, Names, Parts DEF SetReadMask
  <1>7. ASSUME NEW k \in Chips PROVE Free(SetCoBoZeroSuppressionThreshold(k))
    <2>1. k \div 4 \in AsAds
      BY DEF Chips, AsAds
    <2>2. PICK d \in AnyDevice : d = ZeroSuppress(k \div 4)
      BY <2>1, Names
    <2>3. Ends(Device(d), d) /\ Held(d, Write("write", d, {"zeroThreshold"}, TRUE, k))
      BY <2>2, Accesses, Transfers
    <2>4. Free(Device(d) \o Write("write", d, {"zeroThreshold"}, TRUE, k))
      BY <2>3, Parts
    <2>. QED
      BY <2>2, <2>4 DEF SetCoBoZeroSuppressionThreshold
  <1>. QED
    BY <1>1, <1>2, <1>3, <1>4, <1>5, <1>6, <1>7

\* Routines of the CoBo: setCircularBufferCommonParameters relies on the
\* device of the routine before it (EccClient.cpp:1316).
LEMMA CoBoRoutines ==
    /\ \A group : Ends(SetCtrl(group), "ctrl") /\ Ends(SetCtrlIfKnown(group), "ctrl")
    /\ Ends(TriggerTimes, "ctrl") /\ Ends(SetSecondaryTriggerMode, "ctrl")
    /\ Ends(SetCoBoZeroSuppressionMode, "ctrl")
    /\ \A valid : Ends(SetCoBoReadingClockFrequency(valid), "ctrl")
    /\ \A group : Free(Setting(group))
    /\ Held("ctrl", SetCircularBufferCommonParameters)
    /\ \A i, first, last : Free(SetAsAdCircularBuffer(i, first, last))
    /\ \A cl, first, last : Free(SetCircularBuffers(cl, first, last))
    /\ Free(Throw)
  <1>1. ASSUME NEW group PROVE Ends(SetCtrl(group), "ctrl") /\ Ends(SetCtrlIfKnown(group), "ctrl")
    BY Basics, Parts, Blocks DEF SetCtrl, SetCtrlIfKnown
  <1>2. Ends(TriggerTimes, "ctrl")
    BY <1>1, Names, Parts DEF TriggerTimes
  <1>3. Ends(SetSecondaryTriggerMode, "ctrl")
    BY Basics, Parts, Blocks DEF SetSecondaryTriggerMode
  <1>4. Ends(SetCoBoZeroSuppressionMode, "ctrl")
    BY Basics, Parts, Blocks DEF SetCoBoZeroSuppressionMode
  <1>5. ASSUME NEW valid PROVE Ends(SetCoBoReadingClockFrequency(valid), "ctrl")
    BY Basics, Parts DEF SetCoBoReadingClockFrequency
  <1>6. \A group : Free(Setting(group))
    BY Names, Transfers
  <1>7. Held("ctrl", SetCircularBufferCommonParameters)
    BY Basics, Parts, Blocks DEF SetCircularBufferCommonParameters
  <1>8. Free(Throw)
    BY ThrowLeads DEF Free
  <1>9. ASSUME NEW cl, NEW first, NEW last PROVE Free(SetCircularBuffers(cl, first, last))
    <2>. DEFINE start(i) == BufferStart(cl.asads, i, first, last)
                end(i) == BufferEnd(cl.asads, i, first, last)
                Four == Buffer(0, start(0), end(0)) \o Buffer(1, start(1), end(1))
                        \o Buffer(2, start(2), end(2)) \o Buffer(3, start(3), end(3))
    <2>1. Held("ctrl", Four)
      BY Names, Selections, Parts
    <2>2. SetCircularBuffers(cl, first, last)
              = IF cl.asads = {} THEN Throw
                ELSE Device("ctrl") \o TryElse(Four, Put("ctrl", {"memory"}))
      BY DEF SetCircularBuffers, EachAsAd
    <2>. HIDE DEF Four
    <2>3. Free(Device("ctrl") \o TryElse(Four, Put("ctrl", {"memory"})))
      BY <2>1, Basics, Parts, Blocks
    <2>. QED
      BY <1>8, <2>2, <2>3
  <1>10. ASSUME NEW i, NEW first, NEW last PROVE Free(SetAsAdCircularBuffer(i, first, last))
    <2>1. Held("ctrl", Buffer(i, first, last)) /\ Ends(Device("ctrl"), "ctrl")
      BY Selections, Basics
    <2>. QED
      BY <2>1, Names, Parts DEF SetAsAdCircularBuffer
  <1>. QED
    BY <1>1, <1>2, <1>3, <1>4, <1>5, <1>6, <1>7, <1>8, <1>9, <1>10

\* Data acquisition (EccClient.cpp:1596, 1618).
LEMMA DaqRoutines ==
    /\ \A cl : Client(cl) => Free(DaqStart(cl))
    /\ Free(DaqConnect) /\ Free(StartPulser) /\ Free(StopPulser) /\ Free(DaqStop)
    /\ Free(Access("describe", "node", 0))
  <1>1. ASSUME NEW op \in {"router", "startPulser", "stopPulser", "daqStop", "daqStart", "describe"}
        PROVE  Free(Access(op, "node", 0))
    <2>1. Suits(op, 0) /\ op \notin {"node", "removeAll", "jump", "check", "device", "throw"}
      BY DEF Suits
    <2>. QED
      BY <2>1, Names, Accesses
  <1>2. Free(DaqConnect) /\ Free(StartPulser) /\ Free(StopPulser)
    BY <1>1 DEF DaqConnect, StartPulser, StopPulser
  <1>3. Free(DaqStop)
    BY <1>1, <1>2, Parts DEF DaqStop
  <1>4. ASSUME NEW cl, Client(cl) PROVE Free(DaqStart(cl))
    <2>1. Free(Device("ctrl") \o Put("ctrl", {"resetTime"}))
      BY Basics, Parts
    <2>2. Free(Device("ctrl") \o Put("ctrl", {"resetTime"}) \o Access("daqStart", "node", 0))
      BY <1>1, <2>1, Parts
    <2>. QED
      BY <1>4, <2>2, SwitchRoutines, Names, Parts DEF DaqStart
  <1>. QED
    BY <1>1, <1>2, <1>3, <1>4
===============================================================================
