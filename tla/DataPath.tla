------------------------------- MODULE DataPath -------------------------------
(***************************************************************************)
(* The way of the data of each GET source into its output ring:            *)
(*                                                                         *)
(*   CoBo --link--> nscldatarouter --data ring---+                         *)
(*                                               +--> ringmerge --> output *)
(*   bash -> insertstatechange -----state ring---+                         *)
(*                                                                         *)
(* router/NSCLDAQDataProcessor.cpp wraps a frame in a PHYSICS_EVENT item,  *)
(* insertstatechange/insertstatechange.cpp makes a BEGIN_RUN or END_RUN    *)
(* item, and ringmerge/ringMergeMain.cpp polls the two rings in turn.      *)
(*                                                                         *)
(* A ring is modelled as the items its merger has still to take: with no   *)
(* merger attached an item that is committed is never seen by one.         *)
(***************************************************************************)
EXTENDS Naturals, Sequences

CONSTANTS
    Source,        \* the GET data sources, each with its own two rings
    RunNumber,     \* the run numbers that items can carry
    RingSize,      \* items that fit in a ring; a commit to a full ring blocks
    InsertsFail    \* whether insertstatechange may fail to attach or commit

\* The rings of a source, in the order the merger is given them (--input).
Input == {"data", "state"}
FirstInput == "data"

\* Mutant: the loop never leaves the first input.
NextInputSticks(i) == i

NextInput(i) == IF i = "data" THEN "state" ELSE "data"

VARIABLES
    link,       \* frames sent by the CoBo that the router has not read
    routers,    \* sources whose nscldatarouter runs
    mergers,    \* sources whose ringmerge runs
    ring,       \* ring[s][i]: items in the ring that the merger has to take
    turn,       \* turn[s]: the input that the merger's loop looks at next
    out,        \* out[s]: the items committed to the output ring
    sent,       \* sent[s][i]: number of items committed to the ring so far
    base        \* base[s][i]: sent[s][i] when the merger attached to the ring

ringVars == <<ring, sent>>
dataVars == <<link, routers, mergers, ring, turn, out, sent, base>>

ItemKind == {"begin", "event", "end"}
Item == [kind : ItemKind, run : RunNumber, seq : Nat]

\* Where an item comes from: its kind tells the ring it was committed to.
InputOf(item) == IF item.kind = "event" THEN "data" ELSE "state"

-------------------------------------------------------------------------------
(* Rings                                                                       *)

NoItems == [i \in Input |-> <<>>]
HasRoom(s, i) == s \in mergers => Len(ring[s][i]) < RingSize

\* commitToRing
Commit(s, i, kind, run) ==
    /\ HasRoom(s, i)
    /\ sent' = [sent EXCEPT ![s][i] = @ + 1]
    /\ ring' = IF s \in mergers
               THEN [ring EXCEPT ![s][i] = Append(@,
                        [kind |-> kind, run |-> run, seq |-> sent[s][i] + 1])]
               ELSE ring

-------------------------------------------------------------------------------
(* Producers                                                                   *)

\* The CoBo of s sends a frame to the router it is connected to.
SendFrame(s, run) ==
    /\ s \in routers
    /\ link' = [link EXCEPT ![s] = Append(@, run)]
    /\ UNCHANGED <<routers, mergers, ringVars, turn, out, base>>

\* NSCLDAQDataProcessor::processFrame, with the ring that main gave it.
ProcessFrame(s) ==
    /\ s \in routers /\ link[s] # <<>>
    /\ Commit(s, "data", "event", Head(link[s]))
    /\ link' = [link EXCEPT ![s] = Tail(@)]
    /\ UNCHANGED <<routers, mergers, turn, out, base>>

\* insertstatechange: attach to the state ring, commit one item, exit.
InsertStateChange(s, kind, run) ==
    /\ kind \in {"begin", "end"}
    /\ Commit(s, "state", kind, run)
    /\ UNCHANGED <<link, routers, mergers, turn, out, base>>

\* Every exception is caught and the program exits with success: to whoever
\* ran it, this looks like InsertStateChange.
InsertStateChangeFails ==
    /\ InsertsFail
    /\ UNCHANGED dataVars

-------------------------------------------------------------------------------
(* The merger                                                                  *)

\* Mutants: the item stays in the ring, and an item of every ring is dropped.
MergeStepPeeks(s) ==
    /\ s \in mergers
    /\ turn' = [turn EXCEPT ![s] = NextInput(@)]
    /\ out' = IF ring[s][turn[s]] # <<>>
               THEN [out EXCEPT ![s] = Append(@, Head(ring[s][turn[s]]))]
               ELSE out
    /\ UNCHANGED <<link, routers, mergers, ring, sent, base>>

MergeStepDrops(s) ==
    /\ s \in mergers /\ ring[s][turn[s]] # <<>>
    /\ out' = [out EXCEPT ![s] = Append(@, Head(ring[s][turn[s]]))]
    /\ ring' = [ring EXCEPT ![s] = NoItems]
    /\ UNCHANGED <<link, routers, mergers, turn, sent, base>>

\* One pass of the inner loop over the input whose turn it is: take one item
\* if there is one, and commit it to the output ring.  The output ring is taken to have
\* room: its readers are not modelled.
MergeStep(s) ==
    /\ s \in mergers
    /\ turn' = [turn EXCEPT ![s] = NextInput(@)]
    /\ IF ring[s][turn[s]] # <<>>
       THEN /\ out' = [out EXCEPT ![s] = Append(@, Head(ring[s][turn[s]]))]
            /\ ring' = [ring EXCEPT ![s][turn[s]] = Tail(@)]
       ELSE UNCHANGED <<out, ring>>
    /\ UNCHANGED <<link, routers, mergers, sent, base>>

-------------------------------------------------------------------------------
(* The processes come and go with the data source                              *)

\* startNsclRouter and startRingMerge of source s.
StartProcesses(s) ==
    /\ routers' = routers \cup {s}
    /\ link' = [link EXCEPT ![s] = <<>>]
    /\ mergers' = mergers \cup {s}
    /\ ring' = [ring EXCEPT ![s] = NoItems]
    /\ turn' = [turn EXCEPT ![s] = FirstInput]
    /\ base' = [base EXCEPT ![s] = sent[s]]
    /\ UNCHANGED <<out, sent>>

\* A router that is killed loses what it has not read, and a merger what it
\* has not taken.
KillProcesses(deadRouters, deadMergers) ==
    /\ routers' = routers \ deadRouters
    /\ link' = [s \in Source |-> IF s \in deadRouters THEN <<>> ELSE link[s]]
    /\ mergers' = mergers \ deadMergers
    /\ ring' = [s \in Source |-> IF s \in deadMergers THEN NoItems ELSE ring[s]]
    /\ UNCHANGED <<turn, out, sent, base>>

\* Both, one after the other: processes are killed, and those of s are started.
RestartProcesses(s, deadRouters, deadMergers) ==
    /\ routers' = (routers \ deadRouters) \cup {s}
    /\ link' = [o \in Source |-> IF o \in deadRouters \cup {s} THEN <<>> ELSE link[o]]
    /\ mergers' = (mergers \ deadMergers) \cup {s}
    /\ ring' = [o \in Source |->
                   IF o \in deadMergers \cup {s} THEN NoItems ELSE ring[o]]
    /\ turn' = [turn EXCEPT ![s] = FirstInput]
    /\ base' = [base EXCEPT ![s] = sent[s]]
    /\ UNCHANGED <<out, sent>>

-------------------------------------------------------------------------------
(* The specification of the data path by itself                                *)

DataInit ==
    /\ link = [s \in Source |-> <<>>]
    /\ routers = {} /\ mergers = {}
    /\ ring = [s \in Source |-> NoItems]
    /\ turn = [s \in Source |-> FirstInput]
    /\ out = [s \in Source |-> <<>>]
    /\ sent = [s \in Source |-> [i \in Input |-> 0]]
    /\ base = [s \in Source |-> [i \in Input |-> 0]]

DataNext ==
    \/ \E s \in Source :
          \/ StartProcesses(s)
          \/ \E r \in RunNumber :
                SendFrame(s, r) \/ \E k \in ItemKind : InsertStateChange(s, k, r)
          \/ ProcessFrame(s) \/ MergeStep(s)
    \/ \E deadRouters, deadMergers \in SUBSET Source :
          \/ KillProcesses(deadRouters, deadMergers)
          \/ \E s \in Source : RestartProcesses(s, deadRouters, deadMergers)
    \/ InsertStateChangeFails

DataSpec == DataInit /\ [][DataNext]_dataVars

-------------------------------------------------------------------------------
(* Properties                                                                  *)

\* The type of the state.
DataTypeOK ==
    /\ link \in [Source -> Seq(RunNumber)]
    /\ routers \subseteq Source /\ mergers \subseteq Source
    /\ ring \in [Source -> [Input -> Seq(Item)]]
    /\ turn \in [Source -> Input]
    /\ out \in [Source -> Seq(Item)]
    /\ sent \in [Source -> [Input -> Nat]]
    /\ base \in [Source -> [Input -> Nat]]

\* ringmerge keeps the order of each of its inputs and duplicates nothing,
\* also across restarts of the merger.
MergeKeepsOrder ==
    \A s \in Source : \A j, k \in 1 .. Len(out[s]) :
        j < k /\ InputOf(out[s][j]) = InputOf(out[s][k])
            => out[s][j].seq < out[s][k].seq

\* ringmerge loses nothing: what was committed to a ring since the merger
\* attached to it is in the ring or in the output.
MergeLosesNothing ==
    \A s \in mergers, i \in Input : \A n \in base[s][i] + 1 .. sent[s][i] :
        \/ \E k \in 1 .. Len(ring[s][i]) : ring[s][i][k].seq = n
        \/ \E k \in 1 .. Len(out[s]) : InputOf(out[s][k]) = i /\ out[s][k].seq = n

\* Neither input starves the other: an item reaches the output however busy
\* the other ring is, unless the merger is killed.
MergeDelivers ==
    \A s \in Source, i \in Input :
        s \in mergers /\ ring[s][i] # <<>> ~> s \notin mergers \/ ring[s][i] = <<>>

===============================================================================
