--------------------------- MODULE DataPathProofs ---------------------------
(***************************************************************************)
(* ringmerge keeps the order of each of its inputs and loses nothing, for  *)
(* any number of sources, ring size and number of restarts.                *)
(***************************************************************************)
EXTENDS DataPath, SequenceTheorems, TLAPS

-------------------------------------------------------------------------------
(* The invariant                                                               *)

\* The items in a ring are the last ones that were committed to it, in order.
Consecutive(q, i, last) ==
    /\ Len(q) <= last
    /\ \A k \in 1 .. Len(q) : q[k].seq = last - Len(q) + k /\ InputOf(q[k]) = i

\* The items of an input in the output are in the order of their commits.
Ordered(o) ==
    \A j, k \in 1 .. Len(o) :
        j < k /\ InputOf(o[j]) = InputOf(o[k]) => o[j].seq < o[k].seq

\* None of them was committed after the first n.
UpTo(o, i, n) == \A k \in 1 .. Len(o) : InputOf(o[k]) = i => o[k].seq <= n

\* All items that were committed after the first m, and not after the first n,
\* are in the output.
Holds(o, i, m, n) ==
    \A x \in m + 1 .. n : \E k \in 1 .. Len(o) : InputOf(o[k]) = i /\ o[k].seq = x

\* The number of items committed to a ring that have left it.
Gone(s, i) == sent[s][i] - Len(ring[s][i])

InputInv(s, i) ==
    /\ Consecutive(ring[s][i], i, sent[s][i])
    /\ UpTo(out[s], i, Gone(s, i))
    /\ s \in mergers => Holds(out[s], i, base[s][i], Gone(s, i))
    /\ s \notin mergers => ring[s][i] = <<>>

MergeInv ==
    \A s \in Source : Ordered(out[s]) /\ \A i \in Input : InputInv(s, i)

-------------------------------------------------------------------------------
(* Sequences                                                                   *)

\* What Append does to an element, a length and the elements before.
LEMMA Appended ==
    ASSUME NEW S, NEW q \in Seq(S), NEW e \in S
    PROVE  /\ Append(q, e) \in Seq(S)
           /\ Len(Append(q, e)) = Len(q) + 1
           /\ \A k \in 1 .. Len(q) : Append(q, e)[k] = q[k]
           /\ Append(q, e)[Len(q) + 1] = e
  OBVIOUS

\* Commit: a new item with the next number is consecutive to the ones there.
LEMMA ConsecutiveAppend ==
    ASSUME NEW q \in Seq(Item), NEW i, NEW last \in Nat, Consecutive(q, i, last),
           NEW e \in Item, e.seq = last + 1, InputOf(e) = i
    PROVE  Consecutive(Append(q, e), i, last + 1)
  BY Appended DEF Consecutive, Item

\* MergeStep: the item that is taken is the first, and the others stay consecutive.
LEMMA ConsecutiveTail ==
    ASSUME NEW q \in Seq(Item), NEW i, NEW last \in Nat, Consecutive(q, i, last),
           q # <<>>
    PROVE  /\ Head(q) \in Item
           /\ Head(q).seq = last - Len(q) + 1
           /\ InputOf(Head(q)) = i
           /\ Tail(q) \in Seq(Item)
           /\ Len(Tail(q)) = Len(q) - 1
           /\ Consecutive(Tail(q), i, last)
<1>1. Len(q) \in Nat /\ Len(q) > 0
  BY EmptySeq
<1>2. Head(q) = q[1] /\ 1 \in 1 .. Len(q)
  BY <1>1
<1>3. /\ Head(q) \in Item /\ Tail(q) \in Seq(Item) /\ Len(Tail(q)) = Len(q) - 1
      /\ \A k \in 1 .. Len(Tail(q)) : Tail(q)[k] = q[k + 1]
  BY HeadTailProperties
<1>4. Consecutive(Tail(q), i, last)
  BY <1>1, <1>3 DEF Consecutive
<1>5. QED
  BY <1>1, <1>2, <1>3, <1>4 DEF Consecutive

\* MergeStep: the output stays in order when the item is the next of its input.
LEMMA OutputAppend ==
    ASSUME NEW o \in Seq(Item), NEW e \in Item, NEW i, NEW m \in Nat,
           InputOf(e) = i, Ordered(o), UpTo(o, i, e.seq - 1)
    PROVE  /\ Append(o, e) \in Seq(Item)
           /\ Ordered(Append(o, e))
           /\ UpTo(Append(o, e), i, e.seq)
           /\ Holds(o, i, m, e.seq - 1) => Holds(Append(o, e), i, m, e.seq)
<1> e.seq \in Nat
  BY DEF Item
<1>0. \A k \in 1 .. Len(o) : o[k].seq \in Nat
  <2>1. \A k \in 1 .. Len(o) : o[k] \in Item
    BY ElementOfSeq
  <2>2. QED
    BY <2>1 DEF Item
<1> DEFINE n == Append(o, e)
<1>1. /\ n \in Seq(Item) /\ Len(o) \in Nat /\ Len(n) = Len(o) + 1
      /\ \A k \in 1 .. Len(o) : n[k] = o[k]
      /\ n[Len(o) + 1] = e
  BY Appended
<1> HIDE DEF n
<1>2. Ordered(n)
  <2> SUFFICES ASSUME NEW j \in 1 .. Len(n), NEW k \in 1 .. Len(n),
                      j < k, InputOf(n[j]) = InputOf(n[k])
               PROVE  n[j].seq < n[k].seq
    BY DEF Ordered
  <2>1. j \in 1 .. Len(o) /\ n[j] = o[j]
    BY <1>1
  <2>2. CASE k \in 1 .. Len(o)
    BY <2>1, <2>2, <1>1 DEF Ordered
  <2>3. CASE k = Len(o) + 1
    <3>1. n[k] = e /\ InputOf(o[j]) = i
      BY <2>1, <2>3, <1>1
    <3>2. o[j].seq <= e.seq - 1
      BY <2>1, <3>1 DEF UpTo
    <3>3. QED
      BY <2>1, <3>1, <3>2, <1>0
  <2>4. QED
    BY <2>2, <2>3, <1>1
<1>3. UpTo(n, i, e.seq)
  BY <1>0, <1>1 DEF UpTo
<1>4. ASSUME Holds(o, i, m, e.seq - 1) PROVE Holds(n, i, m, e.seq)
  <2> SUFFICES ASSUME NEW x \in m + 1 .. e.seq
               PROVE  \E k \in 1 .. Len(n) : InputOf(n[k]) = i /\ n[k].seq = x
    BY DEF Holds
  <2>1. CASE x = e.seq
    BY <2>1, <1>1
  <2>2. CASE x # e.seq
    <3>1. x \in m + 1 .. e.seq - 1
      BY <2>2
    <3>2. PICK k \in 1 .. Len(o) : InputOf(o[k]) = i /\ o[k].seq = x
      BY <3>1, <1>4 DEF Holds
    <3>3. k \in 1 .. Len(n) /\ n[k] = o[k]
      BY <1>1
    <3>4. QED
      BY <3>2, <3>3
  <2>3. QED
    BY <2>1, <2>2
<1>5. QED
  BY <1>1, <1>2, <1>3, <1>4 DEF n

\* The other input's part of the output is not touched.
LEMMA OutputAppendOther ==
    ASSUME NEW o \in Seq(Item), NEW e \in Item, NEW i, NEW m \in Nat, NEW n \in Int,
           InputOf(e) # i, UpTo(o, i, n)
    PROVE  /\ UpTo(Append(o, e), i, n)
           /\ Holds(o, i, m, n) => Holds(Append(o, e), i, m, n)
<1> DEFINE a == Append(o, e)
<1>1. /\ Len(o) \in Nat /\ Len(a) = Len(o) + 1
      /\ \A k \in 1 .. Len(o) : a[k] = o[k]
      /\ a[Len(o) + 1] = e
  BY Appended
<1> HIDE DEF a
<1>2. UpTo(a, i, n)
  BY <1>1 DEF UpTo
<1>3. ASSUME Holds(o, i, m, n) PROVE Holds(a, i, m, n)
  BY <1>1, <1>3 DEF Holds
<1>4. QED
  BY <1>2, <1>3 DEF a

-------------------------------------------------------------------------------
(* Types                                                                       *)

\* A ring may be extended or shortened at one place only.
LEMMA RingType ==
    ASSUME NEW V, NEW f \in [Source -> [Input -> V]], NEW s \in Source,
           NEW i \in Input, NEW v \in V
    PROVE  /\ [f EXCEPT ![s][i] = v] \in [Source -> [Input -> V]]
           /\ [f EXCEPT ![s][i] = v][s][i] = v
           /\ \A o \in Source, j \in Input :
                 o # s \/ j # i => [f EXCEPT ![s][i] = v][o][j] = f[o][j]
  OBVIOUS

\* commitToRing keeps the types of rings and counters.
LEMMA CommitType ==
    ASSUME DataTypeOK, NEW s \in Source, NEW i \in Input, NEW kind \in ItemKind,
           NEW r \in RunNumber, Commit(s, i, kind, r)
    PROVE  /\ [kind |-> kind, run |-> r, seq |-> sent[s][i] + 1] \in Item
           /\ ring' \in [Source -> [Input -> Seq(Item)]]
           /\ sent' \in [Source -> [Input -> Nat]]
<1> DEFINE e == [kind |-> kind, run |-> r, seq |-> sent[s][i] + 1]
<1>1. sent[s][i] \in Nat /\ ring[s][i] \in Seq(Item)
  BY DEF DataTypeOK
<1>2. e \in Item
  BY <1>1 DEF Item
<1>3. Append(ring[s][i], e) \in Seq(Item)
  BY <1>1, <1>2, Appended
<1>4. sent' = [sent EXCEPT ![s][i] = sent[s][i] + 1]
  BY DEF Commit
<1>5. sent' \in [Source -> [Input -> Nat]]
  BY <1>1, <1>4 DEF DataTypeOK
<1>6. ring' = [ring EXCEPT ![s][i] = Append(ring[s][i], e)] \/ ring' = ring
  BY DEF Commit
<1>7. ring' \in [Source -> [Input -> Seq(Item)]]
  <2>1. ring \in [Source -> [Input -> Seq(Item)]]
    BY DEF DataTypeOK
  <2> DEFINE q == Append(ring[s][i], e)
  <2>2. q \in Seq(Item) /\ (ring' = [ring EXCEPT ![s][i] = q] \/ ring' = ring)
    BY <1>3, <1>6
  <2> HIDE DEF q
  <2>3. [ring EXCEPT ![s][i] = q] \in [Source -> [Input -> Seq(Item)]]
    BY <2>1, <2>2, RingType
  <2>4. QED
    BY <2>1, <2>2, <2>3
<1>8. QED
  BY <1>2, <1>5, <1>7

\* The type of the state is kept by every step.
LEMMA DataTypeStep == DataTypeOK /\ [DataNext]_dataVars => DataTypeOK'
<1> SUFFICES ASSUME DataTypeOK, [DataNext]_dataVars PROVE DataTypeOK'
  OBVIOUS
<1> NoItems \in [Input -> Seq(Item)] /\ <<>> \in Seq(RunNumber)
  BY EmptySeq DEF NoItems
<1>1. ASSUME NEW s \in Source, StartProcesses(s) PROVE DataTypeOK'
  BY <1>1 DEF DataTypeOK, StartProcesses, FirstInput, Input
<1>2. ASSUME NEW s \in Source, NEW r \in RunNumber, SendFrame(s, r)
      PROVE  DataTypeOK'
  <2>1. Append(link[s], r) \in Seq(RunNumber)
    BY Appended DEF DataTypeOK
  <2>2. QED
    BY <1>2, <2>1 DEF DataTypeOK, SendFrame, ringVars
<1>3. ASSUME NEW s \in Source, NEW r \in RunNumber, NEW k \in ItemKind,
             InsertStateChange(s, k, r)
      PROVE  DataTypeOK'
  BY <1>3, CommitType DEF DataTypeOK, InsertStateChange, Input
<1>4. ASSUME NEW s \in Source, ProcessFrame(s) PROVE DataTypeOK'
  <2>1. Head(link[s]) \in RunNumber /\ Tail(link[s]) \in Seq(RunNumber)
    BY <1>4, HeadTailProperties DEF DataTypeOK, ProcessFrame
  <2>2. /\ ring' \in [Source -> [Input -> Seq(Item)]]
        /\ sent' \in [Source -> [Input -> Nat]]
    BY <1>4, <2>1, CommitType DEF ProcessFrame, Input, ItemKind
  <2>3. QED
    BY <1>4, <2>1, <2>2 DEF DataTypeOK, ProcessFrame
<1>5. ASSUME NEW s \in Source, MergeStep(s) PROVE DataTypeOK'
  <2>1. turn' \in [Source -> Input]
    BY <1>5 DEF DataTypeOK, MergeStep, NextInput, Input
  <2>2. CASE ring[s][turn[s]] = <<>>
    BY <1>5, <2>1, <2>2 DEF DataTypeOK, MergeStep
  <2>3. CASE ring[s][turn[s]] # <<>>
    <3>1. turn[s] \in Input /\ ring[s][turn[s]] \in Seq(Item) /\ out[s] \in Seq(Item)
      BY DEF DataTypeOK
    <3>2. /\ Head(ring[s][turn[s]]) \in Item
          /\ Tail(ring[s][turn[s]]) \in Seq(Item)
      BY <2>3, <3>1, HeadTailProperties
    <3>3. Append(out[s], Head(ring[s][turn[s]])) \in Seq(Item)
      BY <3>1, <3>2, Appended
    <3>4. /\ out' = [out EXCEPT ![s] = Append(out[s], Head(ring[s][turn[s]]))]
          /\ ring' = [ring EXCEPT ![s][turn[s]] = Tail(ring[s][turn[s]])]
      BY <1>5, <2>3 DEF MergeStep
    <3>5. ring' \in [Source -> [Input -> Seq(Item)]]
      <4>1. ring \in [Source -> [Input -> Seq(Item)]]
        BY DEF DataTypeOK
      <4>2. QED
        BY <3>1, <3>2, <3>4, <4>1, RingType
    <3>6. out' \in [Source -> Seq(Item)]
      BY <3>3, <3>4 DEF DataTypeOK
    <3>7. QED
      BY <1>5, <2>1, <3>5, <3>6 DEF DataTypeOK, MergeStep
  <2>4. QED
    BY <2>2, <2>3
<1>6. ASSUME NEW dr \in SUBSET Source, NEW dm \in SUBSET Source, KillProcesses(dr, dm)
      PROVE  DataTypeOK'
  BY <1>6 DEF DataTypeOK, KillProcesses
<1>7. ASSUME NEW dr \in SUBSET Source, NEW dm \in SUBSET Source, NEW s \in Source,
             RestartProcesses(s, dr, dm)
      PROVE  DataTypeOK'
  BY <1>7 DEF DataTypeOK, RestartProcesses, FirstInput, Input
<1>8. CASE UNCHANGED dataVars
  BY <1>8 DEF DataTypeOK, dataVars
<1>9. QED
  BY <1>1, <1>2, <1>3, <1>4, <1>5, <1>6, <1>7, <1>8
     DEF DataNext, InsertStateChangeFails

\* Every reachable state of the data path has the types DataTypeOK states.
THEOREM DataTypesCorrect == DataSpec => []DataTypeOK
<1>1. DataInit => DataTypeOK
  BY EmptySeq DEF DataInit, DataTypeOK, NoItems, FirstInput, Input
<1>2. QED
  BY <1>1, DataTypeStep, PTL DEF DataSpec


-------------------------------------------------------------------------------
(* The merger                                                                  *)

\* A step that leaves the data of a source alone keeps its part of the invariant.
LEMMA InputFrame ==
    ASSUME NEW s \in Source, NEW i \in Input, InputInv(s, i),
           ring'[s][i] = ring[s][i], sent'[s][i] = sent[s][i],
           base'[s][i] = base[s][i], out'[s] = out[s],
           s \in mergers' <=> s \in mergers
    PROVE  InputInv(s, i)'
  BY DEF InputInv, Gone

\* commitToRing: the item is in the ring when a merger is attached, and is
\* counted in any case.
LEMMA CommitStep ==
    ASSUME DataTypeOK, MergeInv, NEW s \in Source, NEW i \in Input,
           NEW kind \in ItemKind, NEW r \in RunNumber, Commit(s, i, kind, r),
           i = "data" <=> kind = "event", UNCHANGED <<out, base, mergers>>
    PROVE  MergeInv'
<1> DEFINE e == [kind |-> kind, run |-> r, seq |-> sent[s][i] + 1]
<1>1. /\ e \in Item /\ e.seq = sent[s][i] + 1 /\ InputOf(e) = i
      /\ sent[s][i] \in Nat /\ ring[s][i] \in Seq(Item)
  BY CommitType DEF DataTypeOK, InputOf, Input
<1>2. /\ sent'[s][i] = sent[s][i] + 1
      /\ \A o \in Source, j \in Input :
            o # s \/ j # i => sent'[o][j] = sent[o][j] /\ ring'[o][j] = ring[o][j]
  BY DEF DataTypeOK, Commit
<1>3. IF s \in mergers THEN ring'[s][i] = Append(ring[s][i], e)
                       ELSE ring'[s][i] = ring[s][i]
  BY DEF DataTypeOK, Commit
<1> HIDE DEF e
<1>4. InputInv(s, i)
  BY DEF MergeInv
<1>5. InputInv(s, i)'
  <2>1. CASE s \in mergers
    <3>1. Consecutive(ring'[s][i], i, sent'[s][i])
      BY <1>1, <1>2, <1>3, <1>4, <2>1, ConsecutiveAppend DEF InputInv
    <3>2. Gone(s, i)' = Gone(s, i)
      <4>1. Len(ring[s][i]) \in Nat /\ Len(ring'[s][i]) = Len(ring[s][i]) + 1
        BY <1>1, <1>3, <2>1, Appended
      <4>2. Gone(s, i)' = (sent[s][i] + 1) - (Len(ring[s][i]) + 1)
        BY <1>2, <4>1 DEF Gone
      <4>3. sent[s][i] \in Nat
        BY <1>1
      <4>4. QED
        BY <4>1, <4>2, <4>3 DEF Gone
    <3>3. QED
      BY <1>4, <2>1, <3>1, <3>2 DEF InputInv
  <2>2. CASE s \notin mergers
    <3>1. ring[s][i] = <<>> /\ ring'[s][i] = <<>>
      BY <1>3, <1>4, <2>2 DEF InputInv
    <3>2. Gone(s, i) = sent[s][i] /\ Gone(s, i)' = sent[s][i] + 1
      BY <1>1, <1>2, <3>1 DEF Gone
    <3>3. \A k \in 1 .. Len(out[s]) : out[s][k].seq \in Nat
      <4>1. out[s] \in Seq(Item)
        BY DEF DataTypeOK
      <4>2. \A k \in 1 .. Len(out[s]) : out[s][k] \in Item
        BY <4>1, ElementOfSeq
      <4>3. QED
        BY <4>2 DEF Item
    <3>4. UpTo(out'[s], i, Gone(s, i)')
      BY <1>1, <1>4, <3>2, <3>3 DEF InputInv, UpTo
    <3>5. Consecutive(ring'[s][i], i, sent'[s][i])
      BY <1>1, <1>2, <3>1 DEF Consecutive
    <3>6. QED
      BY <2>2, <3>1, <3>4, <3>5 DEF InputInv
  <2>3. QED
    BY <2>1, <2>2
<1>6. ASSUME NEW o \in Source, NEW j \in Input, o # s \/ j # i
      PROVE  InputInv(o, j)'
  BY <1>2, <1>6, InputFrame DEF MergeInv
<1>7. QED
  BY <1>5, <1>6 DEF MergeInv

\* MergeStep: the item that is taken is the next one of its input.
LEMMA TakeStep ==
    ASSUME DataTypeOK, MergeInv, NEW s \in Source, MergeStep(s)
    PROVE  MergeInv'
<1>1. CASE ring[s][turn[s]] = <<>>
  <2>1. UNCHANGED <<ring, sent, base, out, mergers>>
    BY <1>1 DEF MergeStep
  <2>2. QED
    BY <2>1 DEF MergeInv, InputInv, Gone
<1>2. CASE ring[s][turn[s]] # <<>>
  <2>0. PICK i \in Input : i = turn[s]
    BY DEF DataTypeOK
  <2> DEFINE q == ring[s][i]
             e == Head(q)
  <2>1. q \in Seq(Item) /\ out[s] \in Seq(Item) /\ q # <<>>
    BY <1>2, <2>0 DEF DataTypeOK
  <2>2. /\ UNCHANGED <<sent, base, mergers>>
        /\ s \in mergers
        /\ out' = [out EXCEPT ![s] = Append(out[s], e)]
        /\ ring' = [ring EXCEPT ![s][i] = Tail(q)]
    BY <2>0, <2>1 DEF MergeStep
  <2>3. /\ out'[s] = Append(out[s], e) /\ ring'[s][i] = Tail(q)
        /\ \A o \in Source : o # s => out'[o] = out[o]
        /\ \A o \in Source, j \in Input : o # s \/ j # i => ring'[o][j] = ring[o][j]
    BY <2>1, <2>2 DEF DataTypeOK
  <2>4. /\ Ordered(out[s]) /\ Consecutive(q, i, sent[s][i])
        /\ UpTo(out[s], i, sent[s][i] - Len(q))
        /\ Holds(out[s], i, base[s][i], sent[s][i] - Len(q))
    BY <2>1, <2>2 DEF MergeInv, InputInv, Gone
  <2>5. sent[s][i] \in Nat /\ base[s][i] \in Nat /\ Len(q) \in Nat
    BY <2>1 DEF DataTypeOK
  <2> HIDE DEF q, e
  <2>6. /\ e \in Item /\ e.seq = sent[s][i] - Len(q) + 1 /\ InputOf(e) = i
        /\ Tail(q) \in Seq(Item) /\ Len(Tail(q)) = Len(q) - 1
        /\ Consecutive(Tail(q), i, sent[s][i])
    BY <2>1, <2>4, <2>5, ConsecutiveTail DEF e
  <2>7. e.seq - 1 = sent[s][i] - Len(q) /\ e.seq = sent[s][i] - Len(Tail(q))
    BY <2>5, <2>6
  <2>8. /\ Ordered(out'[s])
        /\ UpTo(out'[s], i, e.seq)
        /\ Holds(out'[s], i, base[s][i], e.seq)
    BY <2>1, <2>3, <2>4, <2>5, <2>6, <2>7, OutputAppend
  <2>9. InputInv(s, i)'
    <3>1. Gone(s, i)' = e.seq
      BY <2>2, <2>3, <2>7 DEF Gone
    <3>2. QED
      BY <2>2, <2>3, <2>6, <2>8, <3>1 DEF InputInv
  <2>10. ASSUME NEW j \in Input, j # i PROVE InputInv(s, j)'
    <3>1. Gone(s, j)' = Gone(s, j) /\ Gone(s, j) \in Int /\ base[s][j] \in Nat
      BY <2>2, <2>3, <2>10 DEF Gone, DataTypeOK
    <3>2. InputInv(s, j)
      BY DEF MergeInv
    <3>3. /\ UpTo(out'[s], j, Gone(s, j))
          /\ Holds(out[s], j, base[s][j], Gone(s, j))
                => Holds(out'[s], j, base[s][j], Gone(s, j))
      BY <2>1, <2>3, <2>6, <2>10, <3>1, <3>2, OutputAppendOther DEF InputInv
    <3>4. QED
      BY <2>2, <2>3, <2>10, <3>1, <3>2, <3>3 DEF InputInv
  <2>11. ASSUME NEW o \in Source, o # s
         PROVE  Ordered(out'[o]) /\ \A j \in Input : InputInv(o, j)'
    BY <2>2, <2>3, <2>11, InputFrame DEF MergeInv
  <2>12. QED
    BY <2>8, <2>9, <2>10, <2>11 DEF MergeInv
<1>3. QED
  BY <1>1, <1>2


\* A step that starts mergers anew, or ends them, for some sources, with empty
\* rings, and leaves what was sent and what is in the output.
LEMMA ResetStep ==
    ASSUME DataTypeOK, MergeInv, NEW reset \in SUBSET Source,
           UNCHANGED <<sent, out>>,
           \A s \in reset :
               /\ ring'[s] = NoItems
               /\ s \in mergers' => base'[s] = sent[s],
           \A s \in Source \ reset :
               ring'[s] = ring[s] /\ base'[s] = base[s] /\ (s \in mergers' <=> s \in mergers)
    PROVE  MergeInv'
<1>1. ASSUME NEW s \in reset, NEW i \in Input PROVE InputInv(s, i)'
  <2>1. /\ sent[s][i] \in Nat /\ ring[s][i] \in Seq(Item) /\ Len(ring[s][i]) \in Nat
        /\ sent' = sent /\ out' = out
    BY DEF DataTypeOK
  <2>2. ring'[s][i] = <<>> /\ Len(<<>>) = 0
    BY DEF NoItems
  <2>3. Gone(s, i)' = sent[s][i]
    BY <2>1, <2>2 DEF Gone
  <2>4. Consecutive(ring'[s][i], i, sent'[s][i])
    BY <2>1, <2>2 DEF Consecutive
  <2>5. UpTo(out'[s], i, sent[s][i])
    <3>1. UpTo(out[s], i, Gone(s, i))
      BY DEF MergeInv, InputInv
    <3>2. Gone(s, i) \in Int /\ Gone(s, i) <= sent[s][i]
      BY <2>1 DEF Gone
    <3>3. \A k \in 1 .. Len(out[s]) : out[s][k].seq \in Nat
      <4>1. out[s] \in Seq(Item)
        BY DEF DataTypeOK
      <4>2. \A k \in 1 .. Len(out[s]) : out[s][k] \in Item
        BY <4>1, ElementOfSeq
      <4>3. QED
        BY <4>2 DEF Item
    <3>4. QED
      BY <2>1, <3>1, <3>2, <3>3 DEF UpTo
  <2>6. s \in mergers' => Holds(out'[s], i, base'[s][i], sent[s][i])
    BY <2>1 DEF Holds
  <2>7. QED
    BY <2>2, <2>3, <2>4, <2>5, <2>6 DEF InputInv
<1>2. ASSUME NEW s \in Source \ reset, NEW i \in Input PROVE InputInv(s, i)'
  BY <1>2, InputFrame DEF MergeInv
<1>3. QED
  BY <1>1, <1>2 DEF MergeInv

\* MergeInv is kept by every step.
LEMMA MergeInvStep == DataTypeOK /\ MergeInv /\ [DataNext]_dataVars => MergeInv'
<1> SUFFICES ASSUME DataTypeOK, MergeInv, [DataNext]_dataVars PROVE MergeInv'
  OBVIOUS
<1>1. ASSUME NEW s \in Source, StartProcesses(s) PROVE MergeInv'
  <2>0. PICK reset \in SUBSET Source : reset = {s}
    OBVIOUS
  <2>1. /\ UNCHANGED <<sent, out>>
        /\ \A o \in reset : ring'[o] = NoItems /\ base'[o] = sent[o]
        /\ \A o \in Source \ reset : /\ ring'[o] = ring[o] /\ base'[o] = base[o]
                                     /\ o \in mergers' <=> o \in mergers
    BY <1>1, <2>0 DEF DataTypeOK, StartProcesses
  <2>2. QED
    BY <2>1, ResetStep
<1>2. ASSUME NEW s \in Source, NEW r \in RunNumber, SendFrame(s, r)
      PROVE  MergeInv'
  BY <1>2 DEF SendFrame, ringVars, MergeInv, InputInv, Gone
<1>3. ASSUME NEW s \in Source, NEW r \in RunNumber, NEW k \in ItemKind,
             InsertStateChange(s, k, r)
      PROVE  MergeInv'
  BY <1>3, CommitStep DEF InsertStateChange, Input
<1>4. ASSUME NEW s \in Source, ProcessFrame(s) PROVE MergeInv'
  <2>1. Head(link[s]) \in RunNumber
    BY <1>4, HeadTailProperties DEF DataTypeOK, ProcessFrame
  <2>2. QED
    BY <1>4, <2>1, CommitStep DEF ProcessFrame, Input, ItemKind
<1>5. ASSUME NEW s \in Source, MergeStep(s) PROVE MergeInv'
  BY <1>5, TakeStep
<1>6. ASSUME NEW dr \in SUBSET Source, NEW dm \in SUBSET Source, KillProcesses(dr, dm)
      PROVE  MergeInv'
  <2>1. /\ UNCHANGED <<sent, out>>
        /\ \A o \in dm : ring'[o] = NoItems /\ o \notin mergers'
        /\ \A o \in Source \ dm : /\ ring'[o] = ring[o] /\ base'[o] = base[o]
                                  /\ o \in mergers' <=> o \in mergers
    BY <1>6 DEF KillProcesses
  <2>2. QED
    BY <2>1, ResetStep
<1>7. ASSUME NEW dr \in SUBSET Source, NEW dm \in SUBSET Source, NEW s \in Source,
             RestartProcesses(s, dr, dm)
      PROVE  MergeInv'
  <2>0. PICK reset \in SUBSET Source : reset = dm \cup {s}
    OBVIOUS
  <2>1. /\ UNCHANGED <<sent, out>>
        /\ \A o \in reset : ring'[o] = NoItems /\ (o \in mergers' => base'[o] = sent[o])
        /\ \A o \in Source \ reset : /\ ring'[o] = ring[o] /\ base'[o] = base[o]
                                     /\ o \in mergers' <=> o \in mergers
    BY <1>7, <2>0 DEF DataTypeOK, RestartProcesses
  <2>2. QED
    BY <2>1, ResetStep
<1>8. CASE UNCHANGED dataVars
  BY <1>8 DEF dataVars, MergeInv, InputInv, Gone
<1>9. QED
  BY <1>1, <1>2, <1>3, <1>4, <1>5, <1>6, <1>7, <1>8
     DEF DataNext, InsertStateChangeFails

\* MergeInv holds in every reachable state.
LEMMA MergeInvariant == DataSpec => []MergeInv
<1>1. DataInit => MergeInv
  <2> SUFFICES ASSUME DataInit, NEW s \in Source
               PROVE  Ordered(out[s]) /\ \A i \in Input : InputInv(s, i)
    BY DEF MergeInv
  <2>1. out[s] = <<>> /\ Len(<<>>) = 0 /\ s \notin mergers
    BY DEF DataInit
  <2>2. \A i \in Input : ring[s][i] = <<>> /\ sent[s][i] = 0
    BY DEF DataInit, NoItems
  <2>3. QED
    BY <2>1, <2>2 DEF Ordered, InputInv, Consecutive, UpTo, Gone
<1>2. QED
  BY <1>1, MergeInvStep, DataTypesCorrect, PTL DEF DataSpec

\* ringMergeMain.cpp:124-132: for any number of sources, whatever the size of the
\* rings and however often mergers are killed and started again, the output has
\* the items of each ring in the order of their commits and none of them twice.
THEOREM OrderIsKept == DataSpec => []MergeKeepsOrder
<1>1. MergeInv => MergeKeepsOrder
  BY DEF MergeInv, Ordered, MergeKeepsOrder
<1>2. QED
  BY <1>1, MergeInvariant, PTL

\* ringMergeMain.cpp:124-132: an item that was committed since the merger was
\* attached is in the ring or in the output.
THEOREM NothingIsLost == DataSpec => []MergeLosesNothing
<1>1. DataTypeOK /\ MergeInv => MergeLosesNothing
  <2> SUFFICES ASSUME DataTypeOK, MergeInv, NEW s \in mergers, NEW i \in Input,
                      NEW n \in base[s][i] + 1 .. sent[s][i]
               PROVE  \/ \E k \in 1 .. Len(ring[s][i]) : ring[s][i][k].seq = n
                      \/ \E k \in 1 .. Len(out[s]) :
                            InputOf(out[s][k]) = i /\ out[s][k].seq = n
    BY DEF MergeLosesNothing
  <2>1. /\ s \in Source /\ InputInv(s, i)
        /\ sent[s][i] \in Nat /\ base[s][i] \in Nat /\ Len(ring[s][i]) \in Nat
    BY DEF DataTypeOK, MergeInv
  <2>2. CASE n <= Gone(s, i)
    BY <2>1, <2>2 DEF InputInv, Holds, Gone
  <2>3. CASE n > Gone(s, i)
    <3> DEFINE k == n - Gone(s, i)
    <3>1. k \in 1 .. Len(ring[s][i])
      BY <2>1, <2>3 DEF Gone
    <3>2. ring[s][i][k].seq = sent[s][i] - Len(ring[s][i]) + k
      BY <2>1, <3>1 DEF InputInv, Consecutive
    <3>3. ring[s][i][k].seq = n
      BY <2>1, <3>2 DEF Gone
    <3>4. QED
      BY <3>1, <3>3
  <2>4. QED
    BY <2>1, <2>2, <2>3 DEF Gone
<1>2. QED
  BY <1>1, MergeInvariant, DataTypesCorrect, PTL

=============================================================================
