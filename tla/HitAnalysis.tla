----------------------------- MODULE HitAnalysis -----------------------------
(* From a data frame to hits (src/analyzing): processor.cpp goes through the  *)
(* ring items of a source, AnalyzeFrame.cpp sorts the samples of an event's   *)
(* frame by channel and reduces each trace to a hit, and the unpacker of      *)
(* SpecTcl (src/spectclhits) reads the hits of the items that come out.       *)
(*                                                                            *)
(* A sample is <<bucket, value>>.  The code computes with floating point      *)
(* numbers, this module with fractions <<numerator, denominator>>; 0 divided  *)
(* by 0 is the time of a hit without area.                                    *)
EXTENDS Integers, Sequences, FiniteSets
LOCAL INSTANCE SequencesExt

CONSTANTS AGETS_PER_ASAD, CHANNELS_PER_AGET,
          NumAsads,     \* of the command line
          Source,       \* the source id of the input
          Events,       \* physics events: cobo, asad, type and traces by channel
          MaxItems,     \* ring items read
          MaxEvents     \* physics events among them

AsAdChannels == 0..(AGETS_PER_ASAD * CHANNELS_PER_AGET - 1)
COMPRESSED_FRAME == 1
UNCOMPRESSED_FRAME == 2

\* ---- the frame as the electronics send it, external: bucket by bucket, the
\* samples of all channels that have one; without compression every channel has
\* one.  (An item of another size than its type has makes the code throw.)
Lengths(traces) == {Len(traces[c]) : c \in DOMAIN traces}
Item(c, bucket, value) == [aget |-> c \div CHANNELS_PER_AGET, chan |-> c % CHANNELS_PER_AGET,
                           bucket |-> bucket, value |-> value]
Items(traces) ==
    LET Bucket(b) == SelectSeq([n \in 1..Cardinality(AsAdChannels) |-> n - 1],
                               LAMBDA c : c \in DOMAIN traces /\ b <= Len(traces[c]))
        Sampled(b) == [n \in DOMAIN Bucket(b) |-> Item(Bucket(b)[n], b - 1, traces[Bucket(b)[n]][b])]
        last == CHOOSE l \in Lengths(traces) \cup {0} : \A k \in Lengths(traces) : k <= l
    IN  FlattenSeq([b \in 1..last |-> Sampled(b)])
Frame(e) == [type |-> e.type, cobo |-> e.cobo, asad |-> e.asad, items |-> Items(e.traces)]

\* ---- the samples of a channel in a frame
CompressedSamples(frame, c) ==
    LET mine == SelectSeq(frame.items, LAMBDA s : s.aget * CHANNELS_PER_AGET + s.chan = c)
    IN  [n \in DOMAIN mine |-> <<mine[n].bucket, mine[n].value>>]
\* Mutant: the channels are counted over all chips
UncompressedByFrame(frame, c) ==
    LET size == (Len(frame.items) - c + Cardinality(AsAdChannels) - 1) \div Cardinality(AsAdChannels)
    IN  [n \in 1..size |->
            <<n - 1, frame.items[c + 1 + (n - 1) * CHANNELS_PER_AGET].value>>]
\* Only the chip is known of an item: its channels take turns.
UncompressedSamples(frame, c) ==
    LET chip == SelectSeq(frame.items, LAMBDA s : s.aget = c \div CHANNELS_PER_AGET)
        first == c % CHANNELS_PER_AGET
        size == (Len(chip) - first + CHANNELS_PER_AGET - 1) \div CHANNELS_PER_AGET
    IN  [n \in 1..size |-> <<n - 1, chip[first + 1 + (n - 1) * CHANNELS_PER_AGET].value>>]
Samples(frame, c) ==
    CASE frame.type = COMPRESSED_FRAME -> CompressedSamples(frame, c)
      [] frame.type = UNCOMPRESSED_FRAME -> UncompressedSamples(frame, c)
      [] OTHER -> << >>

\* ---- a trace reduced to a hit.  The outermost samples are left out, and the
\* offset is taken from the ones next to them.
Lower(a, b) == IF a < b THEN a ELSE b
Offset(s) == CASE Len(s) = 1 -> s[1][2]
               [] Len(s) = 2 -> Lower(s[1][2], s[2][2])
               [] OTHER -> Lower(s[2][2], s[Len(s) - 1][2])
Inner(s) == 2..(Len(s) - 1)
Height(s, n) == s[n][2] - Offset(s)
Total(s, F(_)) == FoldLeft(LAMBDA t, n : t + F(n), 0, [k \in 1..(Len(s) - 2) |-> k + 1])
Integral(s) == Total(s, LAMBDA n : Height(s, n))
Centroid(s) == <<Total(s, LAMBDA n : s[n][1] * Height(s, n)), Integral(s)>>
\* The first of the highest inner samples, or the first sample of all when none
\* is above the offset
MaxPos(s) ==
    LET above == {n \in Inner(s) : Height(s, n) > 0} IN
    IF above = {} THEN 1
    ELSE CHOOSE n \in above : \A m \in above : Height(s, m) < Height(s, n)
                                               \/ (Height(s, m) = Height(s, n) /\ n <= m)

\* The vertex of the parabola through three points, x2 + num / (2 denom), put
\* into the polynomial of Lagrange.
Parabola(x1, y1, x2, y2, x3, y3, flat) ==
    LET denom == (y1 - y2) * (x3 - x2) + (y3 - y2) * (x2 - x1)
        num == (y1 - y2) * (x3 - x2) * (x3 - x2) - (y3 - y2) * (x2 - x1) * (x2 - x1)
        q == 2 * denom
        From(x) == num + q * (x2 - x)
        d1 == (x1 - x2) * (x1 - x3)
        d2 == (x2 - x3) * (x2 - x1)
        d3 == (x3 - x1) * (x3 - x2)
    IN  IF denom = 0 \/ d1 * d2 * d3 = 0 THEN <<flat, 1>>
        ELSE <<y1 * From(x2) * From(x3) * d2 * d3 + y2 * From(x3) * From(x1) * d1 * d3
                   + y3 * From(x1) * From(x2) * d1 * d2,
               q * q * d1 * d2 * d3>>
\* Mutant: the parabola is put around the point behind the highest one
PeakBehind(s, n) ==
    IF n > 2 /\ n + 1 < Len(s)
    THEN Parabola(s[n][1], Height(s, n), s[n + 1][1], Height(s, n + 1),
                  s[n + 2][1], Height(s, n + 2), Height(s, n))
    ELSE <<Height(s, n), 1>>
InterpolatePeak(s, n) ==
    IF n > 2 /\ n + 1 < Len(s)
    THEN Parabola(s[n - 1][1], Height(s, n - 1), s[n][1], Height(s, n),
                  s[n + 1][1], Height(s, n + 1), Height(s, n))
    ELSE <<Height(s, n), 1>>
Hit(cobo, asad, c, s) ==
    [cobo |-> cobo, asad |-> asad, aget |-> c \div CHANNELS_PER_AGET, chan |-> c % CHANNELS_PER_AGET,
     time |-> Centroid(s), peak |-> InterpolatePeak(s, MaxPos(s)), integral |-> Integral(s)]

\* The hits of a frame in the order of the channels
AnalyzeFrame(frame) ==
    LET found == SelectSeq([n \in 1..Cardinality(AsAdChannels) |-> n - 1],
                           LAMBDA c : Samples(frame, c) # << >>)
    IN  [n \in DOMAIN found |-> Hit(frame.cobo, frame.asad, found[n], Samples(frame, found[n]))]
----------------------------------------------------------------------------
VARIABLES input,        \* the ring items read
          out,          \* the ring items written
          unpacked,     \* how many of them SpecTcl has read
          parameters    \* its parameters by <<asad, aget, chan>>
vars == <<input, out, unpacked, parameters>>

NoParameters == << >>
Init == input = << >> /\ out = << >> /\ unpacked = 0 /\ parameters = NoParameters

CountOf(type, items) == Len(SelectSeq(items, LAMBDA i : i.type = type))
Reads(item) == /\ Len(input) < MaxItems
               /\ input' = Append(input, item)
               /\ UNCHANGED <<unpacked, parameters>>

\* The item is put again for each further board, its source id raised by the
\* number of the board every time: it keeps what the time before has left.
Raised[n \in Nat] == IF n = 0 THEN Source ELSE Raised[n - 1] + n
ProcessStateChange(type) ==
    /\ Reads([type |-> type])
    /\ out' = out \o [n \in 1..(IF NumAsads > 1 THEN NumAsads ELSE 1) |->
                         [type |-> type, source |-> Raised[n - 1]]]

PassOn(type) ==
    /\ Reads([type |-> type])
    /\ out' = Append(out, [type |-> type, source |-> Source])

\* An event without hits is dropped.
ProcessEvent(e) ==
    /\ CountOf("event", input) < MaxEvents
    /\ Reads([type |-> "event", event |-> e])
    /\ LET hits == AnalyzeFrame(Frame(e)) IN
       out' = IF hits = << >> THEN out
              ELSE Append(out, [type |-> "event", source |-> Source + hits[1].asad, hits |-> hits])

\* The unpacker stops at the first hit of another CoBo; the parameters are
\* those of one event.
Of(h) == <<h.asad, h.aget, h.chan>>
\* Mutant: only the hits of another CoBo are passed over
UnpackedPast(hits) ==
    [p \in {Of(hits[n]) : n \in DOMAIN hits} |->
        LET n == CHOOSE n \in DOMAIN hits : Of(hits[n]) = p
        IN  <<hits[n].time, hits[n].peak, hits[n].integral>>]
Unpacked(hits) ==
    LET foreign == {n \in DOMAIN hits : hits[n].cobo # 0}
        good == {n \in DOMAIN hits : \A m \in foreign : n < m}
    IN  [p \in {Of(hits[n]) : n \in good} |->
            LET n == CHOOSE n \in good : Of(hits[n]) = p /\ \A m \in good : Of(hits[m]) = p => m <= n
            IN  <<hits[n].time, hits[n].peak, hits[n].integral>>]
Unpack ==
    /\ unpacked < Len(out)
    /\ unpacked' = unpacked + 1
    /\ LET item == out[unpacked + 1] IN
       parameters' = IF item.type = "event" THEN Unpacked(item.hits) ELSE parameters
    /\ UNCHANGED <<input, out>>

Next ==
    \/ \E type \in {"begin", "end"} : ProcessStateChange(type)
    \/ PassOn("scaler")
    \/ \E e \in Events : ProcessEvent(e)
    \/ Unpack
Spec == Init /\ [][Next]_vars
----------------------------------------------------------------------------
ReadEvents == SelectSeq(input, LAMBDA i : i.type = "event" /\ DOMAIN i.event.traces # {})
Written == SelectSeq(out, LAMBDA i : i.type = "event")
Binned(trace) == [n \in DOMAIN trace |-> <<n - 1, trace[n]>>]

\* The hits of an event are those of the traces its channels had, each under
\* its own chip and channel, compressed or not: a frame without compression
\* only tells the chip of a sample (AnalyzeFrame.cpp:196).
HitsMatchTheTraces ==
    \A k \in DOMAIN Written :
        LET e == ReadEvents[k].event hits == Written[k].hits IN
        /\ Len(hits) = Cardinality(DOMAIN e.traces)
        /\ \A c \in DOMAIN e.traces :
               \E n \in DOMAIN hits : hits[n] = Hit(e.cobo, e.asad, c, Binned(e.traces[c]))

\* A trace with a peak, between ends that are not higher than their neighbours
\* (the assumption at AnalyzeFrame.cpp:279), has its time inside the trace, and a
\* peak at least as high as every inner sample.
NicePeak(s) == Len(s) > 4 /\ \A n \in Inner(s) : Height(s, n) >= 0
AtLeast(r, n) == IF r[2] > 0 THEN r[1] >= n * r[2] ELSE r[1] <= n * r[2]
HitsDescribeThePeak ==
    \A k \in DOMAIN Written :
        LET e == ReadEvents[k].event hits == Written[k].hits IN
        \A n \in DOMAIN hits :
            LET h == hits[n]
                s == Binned(e.traces[h.aget * CHANNELS_PER_AGET + h.chan])
            IN  NicePeak(s) /\ h.integral > 0 =>
                    /\ h.time[1] > s[1][1] * h.time[2] /\ h.time[1] < s[Len(s)][1] * h.time[2]
                    /\ \A m \in Inner(s) : AtLeast(h.peak, Height(s, m))

\* What SpecTcl sees of an event are the channels of the AsAd it came from, one
\* for each trace, or none at all if it is not from CoBo 0
\* (CGetHitUnpacker.cpp:43).
SpecTclSeesTheEvent ==
    unpacked > 0 /\ out[unpacked].type = "event" =>
        LET e == ReadEvents[CountOf("event", SubSeq(out, 1, unpacked))].event IN
        DOMAIN parameters = IF e.cobo # 0 THEN {}
                            ELSE {<<e.asad, c \div CHANNELS_PER_AGET, c % CHANNELS_PER_AGET>> :
                                     c \in DOMAIN e.traces}

\* Every source of events has had the begin of the run (process.cpp:84).
SourcesBegin ==
    \A k \in DOMAIN out :
        LET Begins == {m \in 1..(k - 1) : out[m].type = "begin"} IN
        out[k].type = "event" /\ Begins # {} => \E m \in Begins : out[m].source = out[k].source
=============================================================================
